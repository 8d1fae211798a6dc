------------------------- MODULE ControlPlaneProofs --------------------------
(***************************************************************************)
(* Proofs about module ControlPlane, for any number of clients, changes of *)
(* state and goroutines in Close and Destroy at the same time, and for all *)
(* names and widths of their field.  The inductive invariant has four      *)
(* layers, each preserved with the help of the types only:                 *)
(*   TypeOK     types;                                                     *)
(*   UnlinkInv  the segment's file against the calls of Destroy;           *)
(*   CloseInv   what Close has done against where Listen is;               *)
(*   ClientInv  what a response, and the reader that took it, say against  *)
(*              the states the server was in.                              *)
(***************************************************************************)
EXTENDS ControlPlane, TLAPS

\* The segment's name as a response brings it.
Told == DecodeName(EncodeName(segmentName))

\* Whoever is about to remove the file has been told to.
UnlinkInv == DestroyUnlinks /\ \A x \in Closers : xpc[x] = "unlink" => Unlinks(x)

\* Some Close or Destroy of the server is past its listener.
PastListener ==
    \E x \in Closers : xop[x] \in ServerCalls /\ xpc[x] \in {"file", "segment", "unlink", "done"}

\* The flag is set before anything else is closed, and whoever waits in Accept
\* after that waits on a listener that Close knew of and has closed.
CloseInv ==
    /\ lpc \in {"loop", "accept", "spawn"} => ln
    /\ \A x \in Closers : xpc[x] \in {"listener", "file"} => xop[x] \in ServerCalls
    /\ (\E x \in Closers : xop[x] \in ServerCalls) => closed
    /\ PastListener /\ lpc = "accept" => sock = "closed"

\* Between the handler's two loads of the state the current one is in the history; a
\* response has a state and the status of a state that are in it; and the reader that
\* goes on with it has the name it asked for, if any, and the server's.
ClientOK(c) ==
    /\ cpc[c] \in {"told", "failed", "attached"} => hpc[c] = "done"
    /\ c \in Readers =>
          /\ hpc[c] = "status" => state \in seen[c]
          /\ hpc[c] \in {"status", "answered"} => resp[c].state \in seen[c] /\ resp[c].name = Told
          /\ hpc[c] = "answered" => \E s \in seen[c] : resp[c].status = statusForState(s)
    /\ cpc[c] = "told" => \E s \in seen[c] : ~BusyState(s)
    /\ cpc[c] \in {"told", "attached"} =>
          segName[c] = Told /\ (want[c] # NoName => segName[c] = want[c])

ClientInv == \A c \in Clients : ClientOK(c)

ControlInv == TypeOK /\ UnlinkInv /\ CloseInv /\ ClientInv
------------------------------------------------------------------------------
(* Names on the wire                                                         *)

\* The part of a name that the field has room for.
Cut(n) == SubSeq(n, 1, IF Len(n) <= NameWidth THEN Len(n) ELSE NameWidth)

\* DecodeResponse gives the part of a name that EncodeResponse had room for, which
\* is a name again.
LEMMA NameArrives ==
    ASSUME NEW n \in Names \ {NoName}
    PROVE  DecodeName(EncodeName(n)) = Cut(n) /\ Cut(n) \in Names \ {NoName}
<1>. USE WidthAssumption
<1>. DEFINE m     == IF Len(n) <= NameWidth THEN Len(n) ELSE NameWidth
            f     == EncodeName(n)
            bytes == {i \in 1 .. NameWidth : f[i] # Nul}
<1>1. n \in Seq(Byte \ {Nul}) /\ Len(n) \in Nat \ {0} /\ m \in 1 .. NameWidth /\ m \in 1 .. Len(n)
    BY DEF Names, NoName
<1>2. \A i \in 1 .. NameWidth : f[i] = IF i <= m THEN n[i] ELSE Nul
    BY <1>1 DEF EncodeName
<1>3. \A i \in 1 .. m : n[i] \in Byte \ {Nul}
    BY <1>1
<1>4. bytes = 1 .. m
    BY <1>1, <1>2, <1>3
<1>5. Max(bytes) = m
    BY <1>1, <1>4 DEF Max
<1>6. f \in Seq(Byte) /\ Len(f) = NameWidth
  <2>1. \A i \in 1 .. NameWidth : f[i] \in Byte
    BY <1>1, <1>2, <1>3
  <2>2. f \in [1 .. NameWidth -> Byte]
    BY <2>1 DEF EncodeName
  <2>. QED
    BY <2>2
<1>7. DecodeName(f) = SubSeq(f, 1, m)
    BY <1>1, <1>4, <1>5 DEF DecodeName
<1>8. SubSeq(f, 1, m) = SubSeq(n, 1, m)
  <2>1. SubSeq(f, 1, m) = [i \in 1 .. m |-> f[i]]
    BY <1>1, <1>6
  <2>2. SubSeq(n, 1, m) = [i \in 1 .. m |-> n[i]]
    BY <1>1
  <2>. QED
    BY <1>1, <1>2, <2>1, <2>2
<1>9. SubSeq(n, 1, m) \in Seq(Byte \ {Nul}) /\ Len(SubSeq(n, 1, m)) = m
    BY <1>1
<1>. QED
    BY <1>1, <1>7, <1>8, <1>9 DEF Cut, Names, NoName

\* A name that fits arrives as it is.
LEMMA NameFits ==
    ASSUME NEW n \in Names \ {NoName}, Len(n) <= NameWidth
    PROVE  DecodeName(EncodeName(n)) = n
<1>1. n \in Seq(Byte) /\ Len(n) \in Nat
    BY DEF Names
<1>2. SubSeq(n, 1, Len(n)) = n
    BY <1>1
<1>. QED
    BY <1>2, NameArrives DEF Cut

\* Told is the name of a segment, and not empty.
LEMMA ToldIsName == TypeOK => Told \in Names \ {NoName}
    BY NameArrives, BoundsAssumption DEF TypeOK, Told

\* The response of a handler that does not know the operation has its type.
LEMMA EmptyResponseType == EmptyResponse \in Responses
<1>. USE WidthAssumption
<1>1. \A i \in 1 .. NameWidth : EncodeName(NoName)[i] = Nul
    BY DEF EncodeName, NoName
<1>2. EncodeName(NoName) \in [1 .. NameWidth -> Byte]
    BY <1>1 DEF EncodeName
<1>3. {i \in 1 .. NameWidth : EncodeName(NoName)[i] # Nul} = {}
    BY <1>1
<1>4. DecodeName(EncodeName(NoName)) = EncodeName(NoName)
    BY <1>3 DEF DecodeName
<1>5. DecodeName(EncodeName(NoName)) \in Seq(Byte)
    BY <1>2, <1>4
<1>. QED
    BY <1>5 DEF EmptyResponse, States, Responses
------------------------------------------------------------------------------
(* Types                                                                     *)

\* Before the server listens and any client connects, every variable has its type.
LEMMA TypeInit == Init => TypeOK
<1>. SUFFICES ASSUME Init PROVE TypeOK
    OBVIOUS
<1>1. NoName \in Names /\ NoName \in WantNames
    BY BoundsAssumption DEF Names, NoName
<1>2. want \in [Clients -> WantNames] /\ segName \in [Clients -> Names] /\ resp \in [Clients -> Responses]
    BY <1>1, EmptyResponseType DEF Init
<1>3. hpc \in [Clients -> Open \cup {"none", "reset", "answered", "done"}]
    BY DEF Init
<1>4. {closed, ln, file, mapped, backed, crashed} \subseteq BOOLEAN
    BY DEF Init
<1>5. sets \in 0 .. MaxSets
    BY BoundsAssumption DEF Init
<1>6. cpc \in [Clients -> {"idle", "dialed", "gone", "asked", "told", "failed", "attached"}]
      /\ seen \in [Clients -> SUBSET States]
    BY DEF Init
<1>. QED
    BY <1>2, <1>3, <1>4, <1>5, <1>6 DEF Init, TypeOK, States

\* A response with other fields is one.
LEMMA WithStateAndName ==
    ASSUME NEW r \in Responses, NEW s \in States, NEW n \in Seq(Byte)
    PROVE  [r EXCEPT !.state = s, !.name = n] \in Responses
    BY DEF Responses

LEMMA WithStatus ==
    ASSUME NEW r \in Responses, NEW s \in {RespOK, RespBusy, RespError}
    PROVE  [r EXCEPT !.status = s] \in Responses
    BY DEF Responses

\* Every step of Listen, of a handler, of the program and of a client preserves
\* the types.
LEMMA TypeNext == TypeOK /\ ClientInv /\ [Next]_vars => TypeOK'
<1>. SUFFICES ASSUME TypeOK, ClientInv, [Next]_vars PROVE TypeOK'
    OBVIOUS
<1>. USE BoundsAssumption
<1>0. Told \in Names /\ Told # NoName /\ Told \in Seq(Byte)
  <2>1. Names \subseteq Seq(Byte)
    BY DEF Names
  <2>. QED
    BY <2>1, ToldIsName
<1>1. CASE ListenBind \/ ListenFails \/ ListenStore \/ ListenLoop \/ AcceptFails
    BY <1>1 DEF ListenBind, ListenFails, ListenStore, ListenLoop, AcceptFails, serverVars,
       segmentVars, closerVars, clientVars, connVars, TypeOK
<1>2. CASE \E c \in Clients : Accept(c) \/ Spawn(c) \/ HandleEOF(c) \/ HandleFault(c)
    BY <1>2 DEF Accept, Spawn, HandleEOF, HandleFault, HGoto, HUnchanged, serverVars, listenVars,
       segmentVars, closerVars, clientVars, connVars, TypeOK, Open, Handling
<1>3. CASE \E c \in Clients : HandleInfo(c) \/ HandleStatus(c) \/ HandleUnknown(c)
  <2>. PICK c \in Clients : HandleInfo(c) \/ HandleStatus(c) \/ HandleUnknown(c)
    BY <1>3
  <2>1. statusForState(state) \in {RespOK, RespBusy, RespError}
    BY DEF statusForState
  <2>a. resp[c] \in Responses /\ state \in States
    BY DEF TypeOK
  <2>2. [resp[c] EXCEPT !.state = state, !.name = Told] \in Responses
    BY <1>0, <2>a, WithStateAndName
  <2>3. [resp[c] EXCEPT !.status = statusForState(state)] \in Responses
    BY <2>1, <2>a, WithStatus
  <2>4. resp' \in [Clients -> Responses]
    BY <2>2, <2>3, EmptyResponseType DEF HandleInfo, HandleStatus, HandleUnknown, Told, TypeOK
  <2>5. seen' \in [Clients -> SUBSET States]
    BY DEF HandleInfo, HandleStatus, HandleUnknown, TypeOK
  <2>. QED
    BY <2>4, <2>5 DEF HandleInfo, HandleStatus, HandleUnknown, HGoto, HUnchanged, serverVars,
       listenVars, segmentVars, closerVars, clientVars, TypeOK, Open, Handling
<1>4. CASE \E s \in States : SetState(s)
    BY <1>4 DEF SetState, listenVars, segmentVars, closerVars, clientVars, TypeOK
<1>5. ASSUME NEW x \in Closers, NEW call \in Calls, CloseBegin(x, call) PROVE TypeOK'
    BY <1>5 DEF CloseBegin, SetFlag, listenVars, segmentVars, clientVars, connVars, TypeOK
<1>6. ASSUME NEW x \in Closers, CloseListener(x) PROVE TypeOK'
    BY <1>6 DEF CloseListener, XGoto, serverVars, segmentVars, clientVars, TypeOK
<1>7. ASSUME NEW x \in Closers, CloseFile(x) \/ CloseUnmap(x) \/ CloseUnlink(x) PROVE TypeOK'
    BY <1>7 DEF CloseFile, CloseUnmap, CloseUnlink, XGoto, serverVars, listenVars, segmentVars,
       clientVars, connVars, TypeOK
<1>8. CASE \E c \in Clients : Dial(c) \/ OpenSegment(c) \/ Ask(c) \/ Abandon(c)
  <2>. PICK c \in Clients : Dial(c) \/ OpenSegment(c) \/ Ask(c) \/ Abandon(c)
    BY <1>8
  <2>1. seen' \in [Clients -> SUBSET States]
    BY DEF Dial, OpenSegment, Ask, Abandon, connVars, TypeOK
  <2>2. cpc' \in [Clients -> {"idle", "dialed", "gone", "asked", "told", "failed", "attached"}]
    BY DEF Dial, OpenSegment, Ask, Abandon, CGoto, TypeOK
  <2>. QED
    BY <2>1, <2>2 DEF Dial, OpenSegment, Ask, Abandon, HGoto, CUnchanged, serverVars, listenVars,
       segmentVars, closerVars, connVars, TypeOK, Open
<1>9. CASE \E c \in Clients : ReceiveEOF(c)
    BY <1>9, EmptyResponseType DEF ReceiveEOF, CGoto, HGoto, CUnchanged, serverVars, listenVars,
       segmentVars, closerVars, TypeOK
<1>10. CASE \E c \in Clients : \E w \in WantNames : Receive(c, w)
  <2>. PICK c \in Clients, w \in WantNames : Receive(c, w)
    BY <1>10
  <2>1. c \in Readers => SegName(w, resp[c]) \in Names
    BY <1>0 DEF Receive, ClientInv, ClientOK, SegName
  <2>2. segName' \in [Clients -> Names] /\ want' \in [Clients -> WantNames]
    BY <2>1 DEF Receive, TypeOK
  <2>3. resp' \in [Clients -> Responses] /\ seen' \in [Clients -> SUBSET States]
    BY EmptyResponseType DEF Receive, TypeOK
  <2>4. cpc' \in [Clients -> {"idle", "dialed", "gone", "asked", "told", "failed", "attached"}]
        /\ hpc' \in [Clients -> Open \cup {"none", "reset", "answered", "done"}]
    BY DEF Receive, CGoto, HGoto, TypeOK
  <2>. QED
    BY <2>2, <2>3, <2>4 DEF Receive, CUnchanged, serverVars, listenVars,
       segmentVars, closerVars, TypeOK
<1>11. CASE UNCHANGED vars
    BY <1>11 DEF vars, serverVars, listenVars, segmentVars, closerVars, clientVars, connVars, TypeOK
<1>. QED
    BY <1>1, <1>2, <1>3, <1>4, <1>5, <1>6, <1>7, <1>8, <1>9, <1>10, <1>11
    DEF Next, ListenStep, Handle, CloseStep, ClientStep, Clients
------------------------------------------------------------------------------
(* Close and Destroy                                                         *)

\* Nothing has been destroyed yet.
LEMMA UnlinkInit == Init => UnlinkInv
    BY BoundsAssumption DEF Init, UnlinkInv, DestroyUnlinks, Returned

\* Only CloseUnlink changes /dev/shm, and only for a Destroy of whoever owns the file.
LEMMA UnlinkNext == TypeOK /\ UnlinkInv /\ [Next]_vars => UnlinkInv'
<1>. SUFFICES ASSUME TypeOK, UnlinkInv, [Next]_vars PROVE UnlinkInv'
    OBVIOUS
<1>. USE DEF UnlinkInv, DestroyUnlinks, Returned, Unlinks, TypeOK
<1>1. ASSUME NEW x \in Closers, NEW call \in Calls, CloseBegin(x, call) PROVE UnlinkInv'
  <2>1. /\ xpc[x] = "idle" /\ xpc' = [xpc EXCEPT ![x] = IF call \in ServerCalls THEN "listener" ELSE "segment"]
        /\ xop' = [xop EXCEPT ![x] = call]
        /\ UNCHANGED <<segmentName, shm, backed>>
    BY <1>1 DEF CloseBegin, segmentVars
  <2>2. xpc'[x] \in {"listener", "segment"}
    BY <2>1
  <2>3. \A y \in Closers \ {x} : xpc'[y] = xpc[y] /\ xop'[y] = xop[y]
    BY <2>1
  <2>4. \A S : Returned(S)' <=> Returned(S)
    BY <2>1, <2>2, <2>3
  <2>. QED
    BY <2>1, <2>2, <2>3, <2>4
<1>2. ASSUME NEW x \in Closers, CloseListener(x) \/ CloseFile(x) \/ CloseUnmap(x) PROVE UnlinkInv'
  <2>1. /\ xpc[x] \in {"listener", "file", "segment"} /\ xop' = xop
        /\ UNCHANGED <<segmentName, shm, backed>>
    BY <1>2 DEF CloseListener, CloseFile, CloseUnmap, XGoto, serverVars, segmentVars
  <2>2. /\ \A y \in Closers \ {x} : xpc'[y] = xpc[y]
        /\ xpc'[x] \in {"file", "segment"} \/ xpc'[x] = IF Unlinks(x) THEN "unlink" ELSE "done"
    BY <1>2 DEF CloseListener, CloseFile, CloseUnmap, XGoto
  <2>3. xpc'[x] = "unlink" => Unlinks(x)
    BY <2>2
  <2>4. xpc'[x] = "done" => ~Unlinks(x)
    BY <2>2
  <2>5. backed => (Returned(Destroying)' <=> Returned(Destroying))
    BY <2>1, <2>2, <2>4
  <2>6. Returned({"LoaderDestroy"}) => Returned({"LoaderDestroy"})'
    BY <2>1, <2>2
  <2>. QED
    BY <2>1, <2>2, <2>3, <2>5, <2>6
<1>3. ASSUME NEW x \in Closers, CloseUnlink(x) PROVE UnlinkInv'
  <2>1. /\ xpc[x] = "unlink" /\ xpc' = [xpc EXCEPT ![x] = "done"]
        /\ shm' = shm \ {segmentName} /\ UNCHANGED <<segmentName, backed, xop>>
    BY <1>3 DEF CloseUnlink, XGoto, serverVars
  <2>2. backed /\ Returned(Destroying)'
    BY <2>1
  <2>. QED
    BY <2>1, <2>2
<1>4. CASE UNCHANGED <<segmentName, shm, backed, xpc, xop>>
    BY <1>4
<1>5. CASE \/ ListenBind \/ ListenFails \/ ListenStep
           \/ \E c \in Clients : Handle(c) \/ Dial(c) \/ ClientStep(c) \/ Ask(c) \/ Abandon(c)
           \/ (\E st \in States : SetState(st)) \/ UNCHANGED vars
    BY <1>4, <1>5 DEF ListenStep, Handle, ClientStep, ListenBind, ListenFails, ListenStore,
       ListenLoop, Accept, Spawn, AcceptFails, HandleInfo, HandleFault, HandleStatus, HandleUnknown,
       HandleEOF, HUnchanged, SetState, Dial, Ask, Abandon, Receive, ReceiveEOF, OpenSegment,
       CUnchanged, vars, serverVars, segmentVars, closerVars
<1>. QED
    BY <1>1, <1>2, <1>3, <1>5 DEF Next, CloseStep, Clients

\* The server has not been closed yet.
LEMMA CloseInit == Init => CloseInv
    BY DEF Init, CloseInv, PastListener, ServerCalls

\* Every step of Listen and of the closing calls preserves what they know of each
\* other, and no other step matters to it.
LEMMA CloseNext == TypeOK /\ CloseInv /\ [Next]_vars => CloseInv'
<1>. SUFFICES ASSUME TypeOK, CloseInv, [Next]_vars PROVE CloseInv'
    OBVIOUS
<1>. USE DEF CloseInv, PastListener, TypeOK
<1>1. CASE ListenBind \/ ListenFails
    BY <1>1 DEF ListenBind, ListenFails, serverVars, closerVars
<1>2. CASE ListenStore
    BY <1>2 DEF ListenStore, closerVars
<1>3. CASE ListenLoop
    BY <1>3 DEF ListenLoop, serverVars, closerVars
<1>4. CASE AcceptFails \/ \E c \in Clients : Accept(c) \/ Spawn(c)
    BY <1>4 DEF AcceptFails, Accept, Spawn, serverVars, closerVars
<1>5. ASSUME NEW x \in Closers, NEW call \in Calls, CloseBegin(x, call) PROVE CloseInv'
  <2>1. closed' <=> closed \/ call \in ServerCalls
    BY <1>5 DEF CloseBegin, SetFlag
  <2>2. /\ xop' = [xop EXCEPT ![x] = call]
        /\ xpc' = [xpc EXCEPT ![x] = IF call \in ServerCalls THEN "listener" ELSE "segment"]
        /\ UNCHANGED <<ln, lpc, sock>>
    BY <1>5 DEF CloseBegin, listenVars
  <2>3. xop'[x] = call /\ xpc'[x] = IF call \in ServerCalls THEN "listener" ELSE "segment"
    BY <2>2
  <2>4. \A y \in Closers \ {x} : xpc'[y] = xpc[y] /\ xop'[y] = xop[y]
    BY <2>2
  <2>. QED
    BY <2>1, <2>2, <2>3, <2>4
<1>6. ASSUME NEW x \in Closers, CloseListener(x) PROVE CloseInv'
  <2>1. /\ xpc[x] = "listener" /\ xpc' = [xpc EXCEPT ![x] = "file"] /\ UNCHANGED <<xop, closed, ln, lpc>>
        /\ IF ln THEN sock' = "closed" ELSE sock' = sock
    BY <1>6 DEF CloseListener, XGoto, serverVars
  <2>. QED
    BY <2>1
<1>7. ASSUME NEW x \in Closers, CloseFile(x) \/ CloseUnmap(x) \/ CloseUnlink(x) PROVE CloseInv'
  <2>1. /\ xpc[x] \in {"file", "segment", "unlink"} /\ xpc'[x] \in {"segment", "unlink", "done"}
        /\ \A y \in Closers \ {x} : xpc'[y] = xpc[y]
        /\ UNCHANGED <<xop, closed, ln, lpc, sock>>
    BY <1>7 DEF CloseFile, CloseUnmap, CloseUnlink, XGoto, serverVars, listenVars
  <2>. QED
    BY <2>1
<1>8. CASE UNCHANGED <<closed, ln, lpc, sock, xpc, xop>>
    BY <1>8
<1>9. CASE \/ \E c \in Clients : Handle(c) \/ Dial(c) \/ ClientStep(c) \/ Ask(c) \/ Abandon(c)
           \/ \E s \in States : SetState(s)
           \/ UNCHANGED vars
    BY <1>8, <1>9 DEF Handle, ClientStep, HandleInfo, HandleFault, HandleStatus, HandleUnknown,
       HandleEOF, HUnchanged, SetState, Dial, Ask, Abandon, Receive, ReceiveEOF, OpenSegment,
       CUnchanged, vars, serverVars, listenVars, closerVars
<1>. QED
    BY <1>1, <1>2, <1>3, <1>4, <1>5, <1>6, <1>7, <1>8, <1>9
    DEF Next, ListenStep, CloseStep, Clients
------------------------------------------------------------------------------
(* Requests, responses and readers                                           *)

\* No client has connected yet.
LEMMA ClientInit == Init => ClientInv
    BY DEF Init, ClientInv, ClientOK, Open, Handling

\* Every step preserves what the clients, their connections and the server know
\* of each other.
LEMMA ClientNext == TypeOK /\ ClientInv /\ [Next]_vars => ClientInv'
<1>. SUFFICES ASSUME TypeOK, ClientInv, [Next]_vars, NEW c \in Clients PROVE ClientOK(c)'
    BY DEF ClientInv
<1>. USE BoundsAssumption
<1>0. ClientOK(c) /\ Told \in Names /\ Told # NoName
    BY ToldIsName DEF ClientInv
<1>t. segmentName' = segmentName => Told' = Told
    BY DEF Told
<1>1. CASE ListenBind \/ ListenFails \/ ListenStore \/ ListenLoop \/ AcceptFails
           \/ (\E x \in Closers : \E call \in Calls : CloseBegin(x, call))
           \/ (\E x \in Closers : CloseFile(x) \/ CloseUnmap(x) \/ CloseUnlink(x)) \/ UNCHANGED vars
  <2>1. UNCHANGED <<segmentName, state, clientVars, connVars>>
    BY <1>1 DEF ListenBind, ListenFails, ListenStore, ListenLoop, AcceptFails, CloseBegin, CloseFile,
       CloseUnmap, CloseUnlink, vars, serverVars
  <2>. QED
    BY <1>0, <1>t, <2>1 DEF ClientOK, clientVars, connVars
<1>2. ASSUME NEW x \in Closers, CloseListener(x) PROVE ClientOK(c)'
  <2>1. UNCHANGED <<segmentName, state, clientVars, resp, seen>>
    BY <1>2 DEF CloseListener, serverVars
  <2>2. hpc'[c] = hpc[c] \/ (hpc[c] = "queued" /\ hpc'[c] = "reset")
    BY <1>2 DEF CloseListener
  <2>. QED
    BY <1>0, <1>t, <2>1, <2>2 DEF ClientOK, clientVars, Open, Handling
<1>3. CASE \E s \in States : SetState(s)
  <2>. PICK s \in States : SetState(s)
    BY <1>3
  <2>1. UNCHANGED <<segmentName, clientVars, hpc, resp>> /\ state' = s
    BY DEF SetState
  <2>2. seen'[c] = IF c \in Readers /\ hpc[c] = "status" THEN seen[c] \cup {s} ELSE seen[c]
    BY DEF SetState
  <2>. QED
    BY <1>0, <1>t, <2>1, <2>2 DEF ClientOK, clientVars, BusyState
<1>4. ASSUME NEW d \in Clients, Accept(d) \/ Spawn(d) \/ Handle(d)
      PROVE  ClientOK(c)'
  <2>0. UNCHANGED <<segmentName, state, clientVars>>
    BY <1>4 DEF Accept, Spawn, Handle, HandleInfo, HandleFault, HandleStatus, HandleUnknown,
       HandleEOF, HUnchanged, serverVars
  <2>. USE <1>0, <1>t, <2>0 DEF clientVars, HGoto, TypeOK
  <2>1. CASE d # c
    <3>1. hpc'[c] = hpc[c] /\ resp'[c] = resp[c] /\ seen'[c] = seen[c]
        BY <1>4, <2>1 DEF Accept, Spawn, Handle, HandleInfo, HandleFault, HandleStatus, HandleUnknown,
           HandleEOF, connVars
    <3>. QED
        BY <3>1 DEF ClientOK
  <2>2. CASE d = c /\ (Accept(c) \/ Spawn(c) \/ HandleFault(c) \/ HandleEOF(c))
    BY <2>2 DEF Accept, Queued, Spawn, HandleFault, HandleEOF, connVars, ClientOK
  <2>3. CASE d = c /\ HandleInfo(c)
    <3>1. /\ hpc[c] = "decode" /\ hpc'[c] = "status" /\ cpc[c] = "asked"
          /\ resp'[c].state = state /\ resp'[c].name = Told /\ seen'[c] = {state}
        BY <2>3 DEF HandleInfo, Told, Responses
    <3>. QED
        BY <3>1 DEF ClientOK, Open, Handling
  <2>4. CASE d = c /\ HandleStatus(c)
    <3>1. /\ hpc[c] = "status" /\ hpc'[c] = "answered"
          /\ resp'[c].state = resp[c].state /\ resp'[c].name = resp[c].name
          /\ resp'[c].status = statusForState(state) /\ seen'[c] = seen[c]
        BY <2>4 DEF HandleStatus, Responses
    <3>. QED
        BY <3>1 DEF ClientOK, Open, Handling
  <2>5. CASE d = c /\ HandleUnknown(c)
    BY <2>5 DEF HandleUnknown, ClientOK, Open, Handling
  <2>. QED
    BY <1>4, <2>1, <2>2, <2>3, <2>4, <2>5 DEF Handle
<1>5. ASSUME NEW d \in Clients, Dial(d) \/ Ask(d) \/ Abandon(d) \/ ReceiveEOF(d) \/ OpenSegment(d)
      PROVE  ClientOK(c)'
  <2>0. UNCHANGED <<segmentName, state, want, segName>>
    BY <1>5 DEF Dial, Ask, Abandon, ReceiveEOF, OpenSegment, CUnchanged, serverVars
  <2>. USE <1>0, <1>t, <2>0 DEF CGoto, HGoto, connVars, TypeOK
  <2>1. CASE d # c
    <3>1. UNCHANGED <<cpc[c], hpc[c], resp[c], seen[c]>>
        BY <1>5, <2>1 DEF Dial, Ask, Abandon, ReceiveEOF, OpenSegment
    <3>. QED
        BY <3>1 DEF ClientOK
  <2>2. CASE d = c /\ Dial(c)
    BY <2>2 DEF Dial, ClientOK, Open, Handling
  <2>3. CASE d = c /\ (Ask(c) \/ Abandon(c))
    BY <2>3 DEF Ask, Abandon, ClientOK
  <2>4. CASE d = c /\ ReceiveEOF(c)
    BY <2>4 DEF ReceiveEOF, ClientOK, Open, Handling
  <2>5. CASE d = c /\ OpenSegment(c)
    BY <2>5 DEF OpenSegment, ClientOK, Open, Handling
  <2>. QED
    BY <1>5, <2>1, <2>2, <2>3, <2>4, <2>5
<1>6. ASSUME NEW d \in Clients, NEW w \in WantNames, Receive(d, w)
      PROVE  ClientOK(c)'
  <2>0. UNCHANGED <<segmentName, state>>
    BY <1>6 DEF Receive, CUnchanged, serverVars
  <2>. USE <1>0, <1>t, <2>0 DEF CGoto, HGoto, TypeOK
  <2>1. CASE d # c
    <3>1. UNCHANGED <<cpc[c], hpc[c], resp[c], seen[c], want[c], segName[c]>>
        BY <1>6, <2>1 DEF Receive
    <3>. QED
        BY <3>1 DEF ClientOK
  <2>2. CASE d = c /\ c \in Readers /\ Accepts(w, resp[c])
    <3>1. /\ hpc'[c] = "done" /\ cpc'[c] = "told" /\ seen'[c] = seen[c]
          /\ want'[c] = w /\ segName'[c] = SegName(w, resp[c]) /\ hpc[c] = "answered"
        BY <1>6, <2>2 DEF Receive
    <3>2. resp[c].name = Told /\ resp[c].status = RespOK
        BY <2>2, <3>1 DEF ClientOK, Accepts
    <3>3. \E s \in seen[c] : ~BusyState(s)
      <4>1. PICK s \in seen[c] : statusForState(s) = RespOK
        BY <2>2, <3>1, <3>2 DEF ClientOK
      <4>. QED
        BY <4>1 DEF statusForState, BusyState, RespOK, RespBusy
    <3>4. segName'[c] = Told /\ (w # NoName => segName'[c] = w)
        BY <2>2, <3>1, <3>2 DEF SegName, Accepts
    <3>. QED
        BY <3>1, <3>3, <3>4 DEF ClientOK, Open, Handling
  <2>3. CASE d = c /\ ~(c \in Readers /\ Accepts(w, resp[c]))
    BY <1>6, <2>3 DEF Receive, ClientOK, Open, Handling
  <2>. QED
    BY <2>1, <2>2, <2>3
<1>. QED
    BY <1>1, <1>2, <1>3, <1>4, <1>5, <1>6 DEF Next, ListenStep, CloseStep, ClientStep, Clients
------------------------------------------------------------------------------
(* The theorems                                                              *)

\* The four layers together hold in every reachable state.
LEMMA InductiveInvariant == Spec => []ControlInv
<1>1. Init => ControlInv
    BY TypeInit, UnlinkInit, CloseInit, ClientInit DEF ControlInv
<1>2. ControlInv /\ [Next]_vars => ControlInv'
    BY TypeNext, UnlinkNext, CloseNext, ClientNext DEF ControlInv
<1>. QED
    BY <1>1, <1>2, PTL DEF Spec

\* Every variable keeps its type, whatever server, program and clients do: what a
\* reader opens after a response is a name that a file can have.
THEOREM TypeCorrect == Spec => []TypeOK
    BY InductiveInvariant, PTL DEF ControlInv

\* The state and the status of a response are each of a moment between the handler's
\* two loads, for any number of calls of SetState at any time.
THEOREM AnswersTimely == Spec => []AnswerTimely
<1>1. ControlInv => AnswerTimely
    BY DEF ControlInv, ClientInv, ClientOK, AnswerTimely, BusyState, statusForState,
       Clients
<1>. QED
    BY <1>1, InductiveInvariant, PTL

\* A reader attaches to the segment that it asked for, and to the server's own
\* when its name fits into the field, after the server was not busy loading.
THEOREM ReadersAttachRightly == Spec => []AttachesRightly
<1>1. ControlInv => AttachesRightly
  <2>. SUFFICES ASSUME ControlInv, NEW c \in Clients
                PROVE  /\ cpc[c] = "told" => \E s \in seen[c] : ~BusyState(s)
                       /\ cpc[c] = "attached" =>
                             /\ want[c] # NoName => segName[c] = want[c]
                             /\ Len(segmentName) <= NameWidth => segName[c] = segmentName
    BY DEF AttachesRightly
  <2>1. Len(segmentName) <= NameWidth => Told = segmentName
    BY NameFits, BoundsAssumption DEF ControlInv, TypeOK, Told
  <2>. QED
    BY <2>1 DEF ControlInv, ClientInv, ClientOK
<1>. QED
    BY <1>1, InductiveInvariant, PTL

\* The segment's file goes with the first Destroy of whoever owns it, also of several
\* at the same time, and with nothing else.
THEOREM FileGoesWithDestroy == Spec => []DestroyUnlinks
    BY InductiveInvariant, PTL DEF ControlInv, UnlinkInv

\* After Close or Destroy has returned, no step accepts a connection.
THEOREM NoneAccepted == Spec => NoAcceptAfterClose
<1>1. ControlInv /\ [Next]_vars =>
          [\A c \in Clients : Returned(ServerCalls) /\ hpc[c] = "queued" => hpc'[c] # "accepted"]_vars
  <2>. SUFFICES ASSUME ControlInv, [Next]_vars, NEW c \in Clients,
                       Returned(ServerCalls), hpc[c] = "queued"
                PROVE  hpc'[c] # "accepted"
    OBVIOUS
  <2>. USE DEF ControlInv, TypeOK
  <2>1. ASSUME NEW d \in Clients PROVE ~Accept(d)
    BY <2>1 DEF Accept, CloseInv, PastListener, Returned
  <2>2. ASSUME NEW d \in Clients,
               Spawn(d) \/ Handle(d) \/ Dial(d) \/ ClientStep(d) \/ Ask(d) \/ Abandon(d)
        PROVE  hpc'[c] # "accepted"
    BY <2>2 DEF Spawn, Handle, HandleInfo, HandleFault, HandleStatus, HandleUnknown, HandleEOF, HGoto,
       Dial, ClientStep, Ask, Abandon, Receive, ReceiveEOF, OpenSegment, connVars
  <2>3. ASSUME NEW x \in Closers, CloseListener(x) PROVE hpc'[c] # "accepted"
    BY <2>3 DEF CloseListener
  <2>4. CASE \/ ListenBind \/ ListenFails \/ ListenStore \/ ListenLoop \/ AcceptFails
             \/ (\E x \in Closers : \E call \in Calls : CloseBegin(x, call))
             \/ (\E x \in Closers : CloseFile(x) \/ CloseUnmap(x) \/ CloseUnlink(x))
             \/ (\E s \in States : SetState(s)) \/ UNCHANGED vars
    BY <2>4 DEF ListenBind, ListenFails, ListenStore, ListenLoop, AcceptFails, CloseBegin, CloseFile,
       CloseUnmap, CloseUnlink, SetState, vars, connVars
  <2>. QED
    BY <2>1, <2>2, <2>3, <2>4 DEF Next, ListenStep, CloseStep, Clients
<1>. QED
    BY <1>1, InductiveInvariant, PTL DEF Spec, NoAcceptAfterClose
==============================================================================
