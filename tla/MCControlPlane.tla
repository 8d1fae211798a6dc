--------------------------- MODULE MCControlPlane ----------------------------
(***************************************************************************)
(* ControlPlane for TLC, with names of up to three bytes for a field of    *)
(* two: a name that fits, and one whose first two bytes are the name of    *)
(* another segment.                                                        *)
(***************************************************************************)
EXTENDS ControlPlane, SequencesExt

Fits == <<"a">>
Long == <<"a", "b", "c">>
Cut  == <<"a", "b">>

MCServerNames == {Fits, Long}
MCWantNames   == {NoName, Fits, Long}
MCShmNames    == {Fits, Long, Cut}

\* A name comes through the wire format unchanged if it has a byte and fits.
ASSUME NameRoundTrip ==
    \A name \in SeqOf(Byte \ {Nul}, NameWidth + 1) :
        DecodeName(EncodeName(name)) = name <=> Len(name) \in 1 .. NameWidth
==============================================================================
