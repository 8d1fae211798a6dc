------------------------------ MODULE Protocol -------------------------------
(***************************************************************************)
(* The wire format of pkg/featcache/protocol.go: what becomes of a segment *)
(* name on its way from EncodeResponse to DecodeResponse, and what the     *)
(* status of a response means to Reader.connect.  A name is a sequence of  *)
(* bytes without NUL (the kernel allows no other in a path); the numbers   *)
(* of a response have fixed-width fields and arrive as they are sent.      *)
(***************************************************************************)
EXTENDS Integers, Sequences, FiniteSetsExt

CONSTANTS
    NameWidth,  \* size of the name's field in a response (64)
    Byte,       \* the bytes
    Nul         \* the byte 0

ASSUME WidthAssumption == NameWidth \in Nat \ {0} /\ Nul \in Byte

\* The names a segment can have, and the one that stands for none.
Names  == Seq(Byte \ {Nul})
NoName == <<>>

\* EncodeResponse cuts off a longer name and pads a shorter one with NULs.
EncodeName(name) == [i \in 1 .. NameWidth |-> IF i <= Len(name) THEN name[i] ELSE Nul]

\* DecodeResponse cuts off the NULs behind the last other byte.  It finds none in
\* a field of NULs only, and leaves that as it is.
DecodeName(field) ==
    LET bytes == {i \in 1 .. NameWidth : field[i] # Nul}
    IN IF bytes = {} THEN field ELSE SubSeq(field, 1, Max(bytes))

States == {"Idle", "Loading", "Ready", "Updating"}

RespOK    == "RespOK"
RespBusy  == "RespBusy"
RespError == "RespError"

Responses == [status : {RespOK, RespBusy, RespError}, state : States, name : Seq(Byte)]

\* Mutant: a server that reloads is not busy.
statusForStateLoading(s) == IF s = "Loading" THEN RespBusy ELSE RespOK

statusForState(s) == IF s \in {"Loading", "Updating"} THEN RespBusy ELSE RespOK

\* Mutant: connect takes the segment the server has, whatever was asked for.
AcceptsAny(wantName, resp) == resp.status = RespOK

\* connect goes on with this response: the loader is not busy and serves the
\* segment that the caller asked for, if the caller named one.
Accepts(wantName, resp) ==
    /\ resp.status = RespOK
    /\ wantName = NoName \/ resp.name = NoName \/ wantName = resp.name
    /\ wantName # NoName \/ resp.name # NoName

\* Mutant: connect opens the name with the padding of its field.
SegNamePadded(wantName, resp) == EncodeName(resp.name)

\* The segment that connect then opens.
SegName(wantName, resp) == IF resp.name = NoName THEN wantName ELSE resp.name
==============================================================================
