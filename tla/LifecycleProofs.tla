--------------------------- MODULE LifecycleProofs ---------------------------
(***************************************************************************)
(* Proofs about module Lifecycle, for any number of files, keys, readers   *)
(* and deaths of the daemon.  The inductive invariant has four layers:     *)
(*   TypeInv     types, and that the daemon's file has the last seed;      *)
(*   DaemonInv   what the daemon and the files know of each other;         *)
(*   SessionInv  what a reader that asked this daemon has mapped;          *)
(*   HeldInv     what a reader has of the file it has mapped.              *)
(***************************************************************************)
EXTENDS Lifecycle, FiniteSetTheorems, TLAPS

\* The daemon has drawn its seed, and was not stopped since.
Seeded == {"zero", "load", "listen", "serving"}

\* The daemon has created or opened its file.
Holding == {"created", "sized", "header", "seed"} \cup Seeded

\* The reader has a file mapped.
Mapped == {"mapped", "layout", "attached"}

\* The seed of the daemon's file is the last one that was drawn.
SeedDrawn == pc \in Seeded => files[seg].seed = inc /\ inc > 0

TypeInv == TypeOK /\ SeedDrawn

\* Only the daemon gives its name to a file, and it does so when it starts: from
\* then on the name is that of its file or gone.
NameIsOurs == pc \in Holding => name \in {NoFile, seg}

\* A file counts as loaded only while its entries are those of its seed.
FilesLoaded ==
    \A f \in Inodes : \A k \in files[f].full :
        files[f].layout /\ [key |-> k, seed |-> files[f].seed] \in files[f].entries

\* What the daemon has put so far.
EntriesOurs ==
    pc \in {"load", "listen", "serving"} =>
        /\ \A e \in files[seg].entries : e.seed = inc /\ e.key \in want
        /\ IsFiniteSet(Loaded) /\ Cardinality(Loaded) <= HashCap

\* What the daemon has written to its file, by where it is.
HeaderOurs ==
    /\ pc \in Seeded \cup {"seed"} => files[seg].layout
    /\ pc \in {"seed", "zero", "load"} => files[seg].full = {}
    /\ pc \in {"listen", "serving"} => want \subseteq Loaded \/ Full

DaemonInv ==
    /\ NameIsOurs
    /\ FilesLoaded
    /\ EntriesOurs
    /\ HeaderOurs
    /\ name <= used

\* Nobody has dialed a daemon that does not serve yet; who has dialed the one that
\* serves gets its file, its layout and its seed.
SessionInv ==
    \A r \in Readers :
        /\ pc \in {"zero", "load", "listen"} => rinc[r] < inc
        /\ pc = "serving" /\ rinc[r] = inc =>
              /\ rpc[r] \in Mapped => rseg[r] = seg
              /\ rpc[r] \in {"layout", "attached"} => rlayout[r]
              /\ rpc[r] = "attached" => rseed[r] = inc

\* A reader whose file has the seed that the reader has finds what was loaded when
\* it attached; the slots are zeroed only after the seed is replaced.
HeldOK(r) ==
    /\ rpc[r] \in Mapped => rseg[r] <= used
    /\ rpc[r] \in {"mapped", "layout"} /\ served[r] # {} => files[rseg[r]].layout
    /\ rpc[r] = "layout" /\ served[r] # {} => rlayout[r]
    /\ rpc[r] = "attached" => rseed[r] <= files[rseg[r]].seed
    /\ rpc[r] = "attached" /\ rseed[r] = files[rseg[r]].seed =>
          /\ \A k \in served[r] : Finds(r, k)
          /\ pc = "zero" /\ rseg[r] = seg => served[r] = {}

HeldInv == \A r \in Readers : HeldOK(r)

LifecycleInv == TypeInv /\ DaemonInv /\ SessionInv /\ HeldInv
------------------------------------------------------------------------------
(* Types                                                                     *)

\* The content of a file when n seeds have been drawn.
FileType(n) ==
    [sized : BOOLEAN, layout : BOOLEAN, seed : 0 .. n,
     entries : SUBSET [key : Keys, seed : 1 .. n], full : SUBSET Keys]

\* What a file may hold it may also hold when another seed has been drawn.
LEMMA FileTypeGrows ==
    ASSUME NEW n \in Nat, NEW f \in FileType(n)
    PROVE  f \in FileType(n + 1) /\ [f EXCEPT !.seed = n + 1] \in FileType(n + 1)
<1>1. 0 .. n \subseteq 0 .. (n + 1) /\ n + 1 \in 0 .. (n + 1)
    OBVIOUS
<1>2. [key : Keys, seed : 1 .. n] \subseteq [key : Keys, seed : 1 .. (n + 1)]
    OBVIOUS
<1>3. /\ f = [sized |-> f.sized, layout |-> f.layout, seed |-> f.seed,
              entries |-> f.entries, full |-> f.full]
      /\ f.sized \in BOOLEAN /\ f.layout \in BOOLEAN /\ f.seed \in 0 .. n
      /\ f.entries \subseteq [key : Keys, seed : 1 .. n] /\ f.full \subseteq Keys
    BY DEF FileType
<1>4. f.entries \subseteq [key : Keys, seed : 1 .. (n + 1)]
    BY <1>2, <1>3
<1>. QED
    BY <1>1, <1>3, <1>4 DEF FileType

\* A new file has its type.
LEMMA ZeroFileType == \A n \in Nat : ZeroFile \in FileType(n)
    BY DEF ZeroFile, FileType, NoSeed

\* Initially every variable has its type.
LEMMA TypeInit == Init => TypeInv
<1>. SUFFICES ASSUME Init PROVE TypeInv
    OBVIOUS
<1>. USE InodesAssumption, LifecycleAssumption DEF Init, SegmentInit
<1>1. files \in [Inodes -> FileType(inc)]
    BY ZeroFileType
<1>2. TypeOK
    BY <1>1 DEF TypeOK, FileType, Inodes, NoFile, NoSeed
<1>. QED
    BY <1>2 DEF TypeInv, SeedDrawn, Seeded

\* Every step of the daemon and of the readers preserves the types.
LEMMA TypeNext == TypeInv /\ [Next]_vars => TypeInv'
<1>. SUFFICES ASSUME TypeInv, [Next]_vars PROVE TypeInv'
    OBVIOUS
<1>. USE InodesAssumption, LifecycleAssumption
<1>0. files \in [Inodes -> FileType(inc)] /\ inc \in Nat /\ seg \in Inodes
    BY DEF TypeInv, TypeOK, FileType
<1>1. CASE Starting
  <2>. PICK src \in {{}, Keys} : Start(src)
    BY <1>1 DEF Starting
  <2>1. CASE OpenExcl /\ seg' = used + 1 /\ pc' = "created"
    <3>1. used + 1 \in Inodes
        BY <2>1 DEF OpenExcl, TypeInv, TypeOK, Inodes
    <3>2. files' \in [Inodes -> FileType(inc)]
        BY <1>0, <2>1, <3>1, ZeroFileType DEF OpenExcl
    <3>. QED
        BY <2>1, <3>1, <3>2 DEF Start, OpenExcl, readerVars, TypeInv, TypeOK, FileType,
           SeedDrawn, Seeded, Inodes
  <2>2. CASE Exists /\ pc' = "open" /\ UNCHANGED <<segmentVars, seg>>
    BY <2>2 DEF Start, segmentVars, readerVars, TypeInv, TypeOK, SeedDrawn, Seeded
  <2>. QED
    BY <2>1, <2>2 DEF Start
<1>2. CASE CreateTruncate
  <2>1. files' \in [Inodes -> FileType(inc)]
    BY <1>0, <1>2 DEF CreateTruncate, Truncate, FileType
  <2>. QED
    BY <1>2, <2>1 DEF CreateTruncate, readerVars, TypeInv, TypeOK, FileType, SeedDrawn, Seeded
<1>3. CASE CreateMmap \/ CreateFails \/ OpenExisting
  <2>1. files' = files /\ used' = used /\ inc' = inc /\ pc' \notin Seeded /\ seg' \in Inodes
        /\ name' \in Inodes \cup {NoFile}
    BY <1>3, <1>0 DEF CreateMmap, CreateFails, OpenExisting, CanOpen, Remove, segmentVars, Seeded,
       TypeInv, TypeOK
  <2>. QED
    BY <1>3, <2>1 DEF CreateMmap, CreateFails, OpenExisting, segmentVars, readerVars,
       TypeInv, TypeOK, SeedDrawn
<1>4. CASE InitHeader
  <2>1. files' \in [Inodes -> FileType(inc)]
    BY <1>0, <1>4 DEF InitHeader, FileType
  <2>. QED
    BY <1>4, <2>1 DEF InitHeader, readerVars, TypeInv, TypeOK, FileType, SeedDrawn, Seeded
<1>5. CASE InitSeed
  <2>1. inc' = inc + 1 /\ files' \in [Inodes -> FileType(inc + 1)]
    BY <1>0, <1>5, FileTypeGrows DEF InitSeed
  <2>2. files'[seg].seed = inc + 1
    BY <1>0, <1>5 DEF InitSeed, FileType
  <2>3. 0 .. inc \subseteq 0 .. (inc + 1) /\ inc + 1 \in Nat /\ inc + 1 > 0
    BY <1>0
  <2>4. rinc' \in [Readers -> 0 .. (inc + 1)] /\ rseed' \in [Readers -> 0 .. (inc + 1)]
    BY <1>5, <2>3 DEF InitSeed, readerVars, TypeInv, TypeOK
  <2>5. TypeOK'
    BY <1>5, <2>1, <2>3, <2>4 DEF InitSeed, readerVars, TypeInv, TypeOK, FileType
  <2>. QED
    BY <1>5, <2>1, <2>2, <2>3, <2>5 DEF InitSeed, TypeInv, SeedDrawn
<1>6. CASE InitSlots
  <2>1. files' \in [Inodes -> FileType(inc)] /\ files'[seg].seed = files[seg].seed
    BY <1>0, <1>6 DEF InitSlots, FileType
  <2>. QED
    BY <1>6, <2>1 DEF InitSlots, readerVars, TypeInv, TypeOK, FileType, SeedDrawn, Seeded
<1>7. CASE \E k \in Keys : LoadPut(k)
  <2>. PICK k \in Keys : LoadPut(k)
    BY <1>7
  <2>1. files[seg].seed \in 1 .. inc /\ files[seg].seed = inc
    BY <1>0 DEF LoadPut, TypeInv, SeedDrawn, Seeded
  <2>2. [key |-> k, seed |-> files[seg].seed] \in [key : Keys, seed : 1 .. inc]
    BY <2>1
  <2>3. files' \in [Inodes -> FileType(inc)] /\ files'[seg].seed = files[seg].seed
    BY <1>0, <2>2 DEF LoadPut, FileType
  <2>. QED
    BY <2>3 DEF LoadPut, daemonVars, readerVars, TypeInv, TypeOK, FileType, SeedDrawn
<1>8. CASE LoadReturns
  <2>1. Loaded \subseteq Keys
    BY <1>0 DEF Loaded, FileType
  <2>2. files' \in [Inodes -> FileType(inc)] /\ files'[seg].seed = files[seg].seed
    BY <1>0, <1>8, <2>1 DEF LoadReturns, FileType
  <2>. QED
    BY <1>8, <2>2 DEF LoadReturns, readerVars, TypeInv, TypeOK, FileType, SeedDrawn, Seeded
<1>9. CASE Listen \/ Signal \/ Exit \/ Dies \/ Destroy
    BY <1>9 DEF Listen, Signal, Exit, Dies, Destroy, Remove, segmentVars, daemonVars, readerVars,
       TypeInv, TypeOK, SeedDrawn, Seeded
<1>10. CASE \E r \in Readers : ReaderStep(r)
  <2>. PICK r \in Readers : ReaderStep(r)
    BY <1>10
  <2>1. /\ UNCHANGED <<segmentVars, daemonVars>>
        /\ rpc' \in [Readers -> {"idle", "asked", "told", "mapped", "layout", "attached"}]
        /\ rinc' \in [Readers -> 0 .. inc]
    <3>1. UNCHANGED <<segmentVars, daemonVars>>
        BY DEF ReaderStep, Dial, Answer, HangUp, OpenByName, OpenSegment, ReadLayout, ReadSeed,
           ReaderClose
    <3>2. rpc' \in [Readers -> {"idle", "asked", "told", "mapped", "layout", "attached"}]
        BY DEF ReaderStep, Dial, Answer, HangUp, OpenByName, OpenSegment, ReadLayout, ReadSeed,
           ReaderClose, RGoto, TypeInv, TypeOK
    <3>3. rinc' \in [Readers -> 0 .. inc]
        BY <1>0 DEF ReaderStep, Dial, Answer, HangUp, OpenByName, OpenSegment, ReadLayout,
           ReadSeed, ReaderClose, TypeInv, TypeOK
    <3>. QED
        BY <3>1, <3>2, <3>3
  <2>2. rseg' \in [Readers -> Inodes] /\ served' \in [Readers -> SUBSET Keys]
    <3>1. \A f \in Inodes : files[f].full \in SUBSET Keys
        BY <1>0 DEF FileType
    <3>2. CanOpen => name \in Inodes
        BY DEF CanOpen, TypeInv, TypeOK
    <3>3. rseg[r] \in Inodes /\ served[r] \cap files[rseg[r]].full \in SUBSET Keys
        BY <3>1 DEF TypeInv, TypeOK
    <3>. QED
        BY <3>1, <3>2, <3>3 DEF ReaderStep, Dial, Answer, HangUp, OpenByName, OpenSegment,
           ReadLayout, ReadSeed, ReaderClose, TypeInv, TypeOK
  <2>3. rlayout' \in [Readers -> BOOLEAN] /\ rseed' \in [Readers -> 0 .. inc]
    BY <1>0 DEF ReaderStep, Dial, Answer, HangUp, OpenByName, OpenSegment, ReadLayout, ReadSeed,
       ReaderClose, TypeInv, TypeOK
  <2>. QED
    BY <2>1, <2>2, <2>3 DEF segmentVars, daemonVars, TypeInv, TypeOK, SeedDrawn
<1>11. CASE UNCHANGED vars
    BY <1>11 DEF vars, segmentVars, daemonVars, readerVars, TypeInv, TypeOK, SeedDrawn
<1>. QED
    BY <1>1, <1>2, <1>3, <1>4, <1>5, <1>6, <1>7, <1>8, <1>9, <1>10, <1>11 DEF Next, DaemonStep
------------------------------------------------------------------------------
(* The daemon and its file                                                   *)

\* The parts of the daemon's invariant that a step depends on: where the daemon
\* is, its file and its source.
LEMMA DaemonFrame ==
    ASSUME DaemonInv, files' = files, seg' = seg, want' = want, inc' = inc, used' = used,
           name' = name \/ name' = NoFile, used \in Nat,
           pc' \notin Holding \/ pc' = pc
    PROVE  DaemonInv'
<1>1. NameIsOurs'
    BY DEF DaemonInv, NameIsOurs
<1>2. FilesLoaded'
    BY DEF DaemonInv, FilesLoaded
<1>3. EntriesOurs'
    BY DEF DaemonInv, EntriesOurs, Loaded, Holding, Seeded
<1>4. HeaderOurs'
    BY DEF DaemonInv, HeaderOurs, Loaded, Full, Holding, Seeded
<1>5. (name <= used)'
    BY DEF DaemonInv, NoFile
<1>. QED
    BY <1>1, <1>2, <1>3, <1>4, <1>5 DEF DaemonInv

\* No daemon runs yet.
LEMMA DaemonInit == Init => DaemonInv
<1>. SUFFICES ASSUME Init PROVE DaemonInv
    OBVIOUS
<1>1. FilesLoaded
    BY DEF Init, SegmentInit, FilesLoaded, ZeroFile
<1>. QED
    BY <1>1 DEF Init, SegmentInit, DaemonInv, NameIsOurs, EntriesOurs, HeaderOurs, Holding, Seeded,
       NoFile

\* Every step preserves what the daemon and the files know of each other.
LEMMA DaemonNext == TypeInv /\ DaemonInv /\ [Next]_vars => DaemonInv'
<1>. SUFFICES ASSUME TypeInv, DaemonInv, [Next]_vars PROVE DaemonInv'
    OBVIOUS
<1>. USE InodesAssumption, LifecycleAssumption
<1>0. /\ files \in [Inodes -> FileType(inc)] /\ inc \in Nat /\ seg \in Inodes /\ used \in Nat
      /\ name \in Nat
    BY DEF TypeInv, TypeOK, FileType, Inodes, NoFile
<1>1. CASE Starting
  <2>. PICK src \in {{}, Keys} : Start(src)
    BY <1>1 DEF Starting
  <2>1. CASE OpenExcl /\ seg' = used + 1 /\ pc' = "created"
    <3>1. FilesLoaded'
        BY <1>0, <2>1 DEF OpenExcl, DaemonInv, FilesLoaded, ZeroFile
    <3>. QED
        BY <1>0, <2>1, <3>1 DEF OpenExcl, DaemonInv, NameIsOurs, EntriesOurs, HeaderOurs, Seeded
  <2>2. CASE Exists /\ pc' = "open" /\ UNCHANGED <<segmentVars, seg>>
    BY <2>2 DEF segmentVars, DaemonInv, NameIsOurs, FilesLoaded, EntriesOurs, HeaderOurs,
       Holding, Seeded
  <2>. QED
    BY <2>1, <2>2 DEF Start
<1>2. CASE CreateTruncate
  <2>1. FilesLoaded'
    BY <1>0, <1>2 DEF CreateTruncate, Truncate, DaemonInv, FilesLoaded, FileType
  <2>. QED
    BY <1>2, <2>1 DEF CreateTruncate, DaemonInv, NameIsOurs, EntriesOurs, HeaderOurs, Holding, Seeded
<1>3. CASE CreateMmap \/ CreateFails \/ OpenExisting
  <2>1. /\ files' = files /\ used' = used /\ name' \in {name, NoFile}
        /\ pc' \in {"header", "open", "down"}
        /\ pc' = "header" => name' \in {NoFile, seg'}
    BY <1>3 DEF CreateMmap, CreateFails, OpenExisting, Remove, segmentVars, DaemonInv, NameIsOurs,
       Holding, Seeded
  <2>. QED
    BY <1>0, <2>1 DEF DaemonInv, NameIsOurs, FilesLoaded, EntriesOurs, HeaderOurs, Holding, Seeded,
       NoFile
<1>4. CASE InitHeader
  <2>1. FilesLoaded'
    BY <1>0, <1>4 DEF InitHeader, DaemonInv, FilesLoaded, FileType
  <2>2. HeaderOurs'
    BY <1>0, <1>4 DEF InitHeader, HeaderOurs, FileType, Seeded
  <2>. QED
    BY <1>4, <2>1, <2>2 DEF InitHeader, DaemonInv, NameIsOurs, EntriesOurs, Holding, Seeded
<1>5. CASE InitSeed
  <2>1. FilesLoaded'
    BY <1>0, <1>5 DEF InitSeed, DaemonInv, HeaderOurs, FilesLoaded, FileType
  <2>2. HeaderOurs'
    BY <1>0, <1>5 DEF InitSeed, DaemonInv, HeaderOurs, FileType, Seeded
  <2>. QED
    BY <1>5, <2>1, <2>2 DEF InitSeed, DaemonInv, NameIsOurs, EntriesOurs, Holding, Seeded
<1>6. CASE InitSlots
  <2>1. FilesLoaded'
    BY <1>0, <1>6 DEF InitSlots, DaemonInv, HeaderOurs, FilesLoaded, FileType
  <2>2. HeaderOurs'
    BY <1>0, <1>6 DEF InitSlots, DaemonInv, HeaderOurs, FileType, Seeded
  <2>3. files'[seg'].entries = {} /\ Loaded' = {}
    BY <1>0, <1>6 DEF InitSlots, Loaded, FileType
  <2>4. EntriesOurs'
    BY <2>3, FS_EmptySet DEF EntriesOurs
  <2>. QED
    BY <1>6, <2>1, <2>2, <2>4 DEF InitSlots, DaemonInv, NameIsOurs, Holding, Seeded
<1>7. CASE \E k \in Keys : LoadPut(k)
  <2>. PICK k \in Keys : LoadPut(k)
    BY <1>7
  <2>1. /\ pc = "load" /\ pc' = pc /\ seg' = seg /\ want' = want /\ inc' = inc
        /\ k \in want \ Loaded /\ ~Full
        /\ files[seg].seed = inc
    BY DEF LoadPut, daemonVars, TypeInv, SeedDrawn, Seeded
  <2>2. FilesLoaded'
    BY <1>0, <2>1 DEF LoadPut, DaemonInv, HeaderOurs, FilesLoaded, FileType
  <2>3. HeaderOurs'
    BY <1>0, <2>1 DEF LoadPut, DaemonInv, HeaderOurs, FileType, Seeded
  <2>4. files'[seg'].entries = files[seg].entries \cup {[key |-> k, seed |-> inc]}
    BY <1>0, <2>1 DEF LoadPut, FileType
  <2>5. Loaded' = Loaded \cup {k}
    <3>. DEFINE E == files[seg].entries
                e0 == [key |-> k, seed |-> inc]
    <3>1. {e.key : e \in E \cup {e0}} = {e.key : e \in E} \cup {e0.key}
        OBVIOUS
    <3>2. Loaded' = {e.key : e \in E \cup {e0}} /\ Loaded = {e.key : e \in E}
        BY <2>4 DEF Loaded
    <3>. QED
        BY <3>1, <3>2
  <2>6. IsFiniteSet(Loaded') /\ Cardinality(Loaded') <= HashCap
    <3>1. IsFiniteSet(Loaded) /\ Cardinality(Loaded) \in Nat /\ Cardinality(Loaded) < HashCap
        BY <2>1, FS_CardinalityType DEF DaemonInv, EntriesOurs, Full
    <3>2. IsFiniteSet(Loaded \cup {k}) /\ Cardinality(Loaded \cup {k}) = Cardinality(Loaded) + 1
        BY <2>1, <3>1, FS_AddElement
    <3>. QED
        BY <2>5, <3>1, <3>2
  <2>7. \A e \in files'[seg'].entries : e.seed = inc' /\ e.key \in want'
    BY <2>1, <2>4 DEF DaemonInv, EntriesOurs
  <2>. QED
    BY <2>1, <2>2, <2>3, <2>6, <2>7 DEF LoadPut, DaemonInv, NameIsOurs, EntriesOurs
<1>8. CASE LoadReturns
  <2>1. pc = "load" /\ pc' = "listen" /\ seg' = seg /\ want' = want /\ inc' = inc
    BY <1>8 DEF LoadReturns
  <2>2. /\ files'[seg].entries = files[seg].entries /\ files'[seg].full = Loaded
        /\ files'[seg].layout = files[seg].layout /\ files'[seg].seed = files[seg].seed
        /\ \A f \in Inodes \ {seg} : files'[f] = files[f]
    BY <1>0, <1>8 DEF LoadReturns, FileType
  <2>3. Loaded' = Loaded
    BY <2>1, <2>2 DEF Loaded
  <2>4. HeaderOurs'
    BY <1>8, <2>1, <2>2, <2>3 DEF LoadReturns, DaemonInv, HeaderOurs, Full, Seeded
  <2>5. \A e \in files[seg].entries : e = [key |-> e.key, seed |-> files[seg].seed]
    BY <1>0, <2>1 DEF DaemonInv, EntriesOurs, FileType, TypeInv, SeedDrawn, Seeded
  <2>6. FilesLoaded'
    BY <1>0, <2>1, <2>2, <2>5 DEF DaemonInv, FilesLoaded, HeaderOurs, Loaded, Seeded
  <2>7. EntriesOurs'
    BY <2>1, <2>2, <2>3 DEF DaemonInv, EntriesOurs
  <2>. QED
    BY <1>8, <2>1, <2>4, <2>6, <2>7 DEF LoadReturns, DaemonInv, NameIsOurs, Holding, Seeded
<1>9. CASE Listen
    BY <1>9 DEF Listen, segmentVars, DaemonInv, NameIsOurs, FilesLoaded, EntriesOurs, HeaderOurs,
       Loaded, Full, Holding, Seeded
<1>10. CASE Signal \/ Exit \/ Dies \/ Destroy
    BY <1>0, <1>10, DaemonFrame DEF Signal, Exit, Dies, Destroy, Remove, segmentVars, daemonVars,
       Holding, Seeded
<1>11. CASE \E r \in Readers : ReaderStep(r)
  <2>1. UNCHANGED <<segmentVars, daemonVars>>
    BY <1>11 DEF ReaderStep, Dial, Answer, HangUp, OpenByName, OpenSegment, ReadLayout, ReadSeed,
       ReaderClose
  <2>. QED
    BY <1>0, <2>1, DaemonFrame DEF segmentVars, daemonVars
<1>12. CASE UNCHANGED vars
    BY <1>0, <1>12, DaemonFrame DEF vars, segmentVars, daemonVars
<1>. QED
    BY <1>1, <1>2, <1>3, <1>4, <1>5, <1>6, <1>7, <1>8, <1>9, <1>10, <1>11, <1>12 DEF Next, DaemonStep
------------------------------------------------------------------------------
(* Readers of the daemon that serves                                         *)

\* No reader has a session yet.
LEMMA SessionInit == Init => SessionInv
    BY DEF Init, SessionInv

\* Every step preserves what a reader that asked the serving daemon has.
LEMMA SessionNext == TypeInv /\ DaemonInv /\ SessionInv /\ [Next]_vars => SessionInv'
<1>. SUFFICES ASSUME TypeInv, DaemonInv, SessionInv, [Next]_vars PROVE SessionInv'
    OBVIOUS
<1>. USE InodesAssumption, LifecycleAssumption
<1>0. /\ files \in [Inodes -> FileType(inc)] /\ inc \in Nat /\ seg \in Inodes
      /\ \A r \in Readers : rinc[r] \in 0 .. inc
    BY DEF TypeInv, TypeOK, FileType
<1>1. CASE pc' \notin {"zero", "load", "listen", "serving"}
    BY <1>1 DEF SessionInv
<1>2. CASE InitSeed
    BY <1>0, <1>2 DEF InitSeed, readerVars, SessionInv
<1>3. CASE InitSlots \/ LoadReturns \/ Listen \/ \E k \in Keys : LoadPut(k)
    BY <1>0, <1>3 DEF InitSlots, LoadReturns, Listen, LoadPut, segmentVars, daemonVars, readerVars,
       SessionInv
<1>4. CASE Destroy \/ UNCHANGED vars
    BY <1>4 DEF Destroy, vars, daemonVars, readerVars, SessionInv
<1>5. CASE \E r \in Readers : ReaderStep(r)
  <2>. PICK r \in Readers : ReaderStep(r)
    BY <1>5
  <2>. SUFFICES ASSUME NEW q \in Readers
                PROVE  /\ pc \in {"zero", "load", "listen"} => rinc'[q] < inc
                       /\ pc = "serving" /\ rinc'[q] = inc =>
                             /\ rpc'[q] \in Mapped => rseg'[q] = seg
                             /\ rpc'[q] \in {"layout", "attached"} => rlayout'[q]
                             /\ rpc'[q] = "attached" => rseed'[q] = inc
    BY DEF SessionInv, ReaderStep, Dial, Answer, HangUp, OpenByName, OpenSegment, ReadLayout,
       ReadSeed, ReaderClose, daemonVars
  <2>. USE DEF RGoto, Mapped, TypeInv, TypeOK, SessionInv
  <2>1. CASE Dial(r)
    BY <1>0, <2>1 DEF Dial
  <2>2. CASE Answer(r) \/ HangUp(r) \/ ReaderClose(r)
    BY <1>0, <2>2 DEF Answer, HangUp, ReaderClose
  <2>3. CASE OpenByName(r)
    <3>1. pc = "serving" => inc > 0
        BY DEF SeedDrawn, Seeded
    <3>. QED
        BY <1>0, <2>3, <3>1 DEF OpenByName
  <2>4. CASE OpenSegment(r)
    <3>1. pc = "serving" /\ CanOpen => name = seg
        BY DEF CanOpen, DaemonInv, NameIsOurs, Holding, Seeded
    <3>. QED
        BY <1>0, <2>4, <3>1 DEF OpenSegment
  <2>5. CASE ReadLayout(r)
    <3>1. pc = "serving" => files[seg].layout
        BY DEF DaemonInv, HeaderOurs, Seeded
    <3>. QED
        BY <1>0, <2>5, <3>1 DEF ReadLayout
  <2>6. CASE ReadSeed(r)
    <3>1. pc = "serving" => files[seg].seed = inc
        BY DEF SeedDrawn, Seeded
    <3>. QED
        BY <1>0, <2>6, <3>1 DEF ReadSeed
  <2>. QED
    BY <2>1, <2>2, <2>3, <2>4, <2>5, <2>6 DEF ReaderStep
<1>6. CASE Starting \/ CreateTruncate \/ CreateMmap \/ CreateFails \/ OpenExisting \/ InitHeader
           \/ Exit \/ Signal \/ Dies
    BY <1>1, <1>6 DEF Starting, Start, CreateTruncate, CreateMmap, CreateFails, OpenExisting,
       InitHeader, Exit, Signal, Dies
<1>. QED
    BY <1>2, <1>3, <1>4, <1>5, <1>6 DEF Next, DaemonStep
------------------------------------------------------------------------------
(* Readers and the files they have mapped                                    *)

\* No reader has mapped a segment yet.
LEMMA HeldInit == Init => HeldInv
    BY DEF Init, HeldInv, HeldOK, Mapped

\* Every step preserves what a reader has of its file.
LEMMA HeldNext == TypeInv /\ DaemonInv /\ HeldInv /\ [Next]_vars => HeldInv'
<1>. SUFFICES ASSUME TypeInv, DaemonInv, HeldInv, [Next]_vars, NEW r \in Readers PROVE HeldOK(r)'
    BY DEF HeldInv
<1>. USE InodesAssumption, LifecycleAssumption
<1>0. /\ files \in [Inodes -> FileType(inc)] /\ inc \in Nat /\ seg \in Inodes
      /\ used \in Nat /\ name \in Nat /\ rseg[r] \in Inodes
      /\ rseed[r] \in 0 .. inc /\ served[r] \subseteq Keys
      /\ \A f \in Inodes : files[f].seed \in 0 .. inc
    BY DEF TypeInv, TypeOK, FileType, Inodes, NoFile
<1>h. HeldOK(r)
    BY DEF HeldInv
<1>1. CASE Starting
  <2>. PICK src \in {{}, Keys} : Start(src)
    BY <1>1 DEF Starting
  <2>1. CASE OpenExcl /\ seg' = used + 1 /\ pc' = "created"
    <3>1. rpc[r] \in Mapped => files'[rseg[r]] = files[rseg[r]]
        BY <1>0, <1>h, <2>1 DEF OpenExcl, HeldOK
    <3>2. UNCHANGED <<rpc, rseg, rlayout, rseed, served>> /\ used' = used + 1 /\ pc' = "created"
        BY <2>1 DEF Start, OpenExcl, readerVars
    <3>3. ASSUME rpc[r] \in Mapped
          PROVE  /\ rseg'[r] <= used'
                 /\ \A k : Finds(r, k) => Finds(r, k)'
        BY <1>0, <1>h, <3>1, <3>2, <3>3 DEF HeldOK, Finds, Inodes
    <3>4. CASE rpc[r] \in Mapped
        BY <1>h, <3>1, <3>2, <3>3, <3>4 DEF HeldOK
    <3>5. CASE rpc[r] \notin Mapped
        BY <3>2, <3>5 DEF HeldOK, Mapped
    <3>. QED
        BY <3>4, <3>5
  <2>2. CASE Exists /\ pc' = "open" /\ UNCHANGED <<segmentVars, seg>>
    BY <1>h, <2>2 DEF Start, segmentVars, readerVars, HeldOK, Finds
  <2>. QED
    BY <2>1, <2>2 DEF Start
<1>2. CASE CreateTruncate
  <2>1. /\ files'[rseg[r]].layout = files[rseg[r]].layout /\ files'[rseg[r]].seed = files[rseg[r]].seed
        /\ files'[rseg[r]].entries = files[rseg[r]].entries
    BY <1>0, <1>2 DEF CreateTruncate, Truncate, FileType
  <2>. QED
    BY <1>h, <1>2, <2>1 DEF CreateTruncate, readerVars, HeldOK, Finds
<1>3. CASE CreateMmap \/ CreateFails \/ OpenExisting \/ Listen \/ Signal \/ Exit \/ Dies \/ Destroy
           \/ UNCHANGED vars
    BY <1>h, <1>3 DEF CreateMmap, CreateFails, OpenExisting, Listen, Signal, Exit, Dies, Destroy,
       vars, segmentVars, daemonVars, readerVars, HeldOK, Finds
<1>4. CASE InitHeader
  <2>1. /\ files[rseg[r]].layout => files'[rseg[r]].layout
        /\ files'[rseg[r]].seed = files[rseg[r]].seed
        /\ files'[rseg[r]].entries = files[rseg[r]].entries
    BY <1>0, <1>4 DEF InitHeader, FileType
  <2>. QED
    BY <1>h, <1>4, <2>1 DEF InitHeader, readerVars, HeldOK, Finds
<1>5. CASE InitSeed
  <2>1. /\ files'[rseg[r]].layout = files[rseg[r]].layout
        /\ files'[rseg[r]].entries = files[rseg[r]].entries
        /\ files'[rseg[r]].seed = IF rseg[r] = seg THEN inc + 1 ELSE files[rseg[r]].seed
    BY <1>0, <1>5 DEF InitSeed, FileType
  <2>. QED
    BY <1>0, <1>h, <1>5, <2>1 DEF InitSeed, readerVars, HeldOK, Finds
<1>6. CASE InitSlots
  <2>1. /\ files'[rseg[r]].layout = files[rseg[r]].layout
        /\ files'[rseg[r]].entries = IF rseg[r] = seg THEN {} ELSE files[rseg[r]].entries
        /\ files'[rseg[r]].seed = files[rseg[r]].seed
    BY <1>0, <1>6 DEF InitSlots, FileType
  <2>. QED
    BY <1>h, <1>6, <2>1 DEF InitSlots, readerVars, HeldOK, Finds
<1>7. CASE LoadReturns \/ \E k \in Keys : LoadPut(k)
  <2>1. /\ files'[rseg[r]].layout = files[rseg[r]].layout
        /\ files[rseg[r]].entries \subseteq files'[rseg[r]].entries
        /\ files'[rseg[r]].seed = files[rseg[r]].seed
    BY <1>0, <1>7 DEF LoadReturns, LoadPut, FileType
  <2>. QED
    BY <1>h, <1>7, <2>1 DEF LoadReturns, LoadPut, daemonVars, readerVars, HeldOK, Finds
<1>8. CASE \E q \in Readers : ReaderStep(q)
  <2>. PICK q \in Readers : ReaderStep(q)
    BY <1>8
  <2>0. UNCHANGED <<segmentVars, daemonVars>>
    BY DEF ReaderStep, Dial, Answer, HangUp, OpenByName, OpenSegment, ReadLayout,
       ReadSeed, ReaderClose
  <2>. USE DEF RGoto, Mapped, TypeInv, TypeOK, segmentVars, daemonVars
  <2>1. CASE q # r
    <3>1. UNCHANGED <<rpc[r], rseg[r], rlayout[r], rseed[r], served[r]>>
        BY <2>1 DEF ReaderStep, Dial, Answer, HangUp, OpenByName, OpenSegment, ReadLayout,
           ReadSeed, ReaderClose
    <3>. QED
        BY <1>h, <2>0, <3>1 DEF HeldOK, Finds
  <2>2. CASE q = r /\ (Dial(r) \/ Answer(r) \/ HangUp(r) \/ OpenByName(r) \/ ReaderClose(r))
    BY <2>2 DEF Dial, Answer, HangUp, OpenByName, ReaderClose, HeldOK
  <2>3. CASE q = r /\ OpenSegment(r)
    <3>1. CanOpen /\ files[name].full # {} => files[name].layout
        BY DEF CanOpen, DaemonInv, FilesLoaded
    <3>. QED
        BY <2>0, <2>3, <3>1 DEF OpenSegment, CanOpen, DaemonInv, HeldOK
  <2>4. CASE q = r /\ ReadLayout(r)
    BY <1>h, <2>0, <2>4 DEF ReadLayout, HeldOK
  <2>5. CASE q = r /\ ReadSeed(r)
    <3>1. /\ rpc'[r] = "attached" /\ rseed'[r] = files[rseg[r]].seed
          /\ served'[r] = served[r] \cap files[rseg[r]].full
          /\ rlayout' = rlayout /\ rseg' = rseg
        BY <2>5 DEF ReadSeed
    <3>2. \A k \in served'[r] : Finds(r, k)'
        BY <1>h, <1>0, <2>0, <2>5, <3>1 DEF ReadSeed, HeldOK, Finds, DaemonInv, FilesLoaded
    <3>3. pc = "zero" /\ rseg[r] = seg => served'[r] = {}
        BY <3>1 DEF DaemonInv, HeaderOurs
    <3>4. rseg'[r] <= used' /\ rseed'[r] <= files'[rseg'[r]].seed
        BY <1>0, <1>h, <2>0, <2>5, <3>1 DEF ReadSeed, HeldOK, Inodes
    <3>. QED
        BY <2>0, <3>1, <3>2, <3>3, <3>4 DEF HeldOK
  <2>. QED
    BY <2>1, <2>2, <2>3, <2>4, <2>5 DEF ReaderStep
<1>. QED
    BY <1>1, <1>2, <1>3, <1>4, <1>5, <1>6, <1>7, <1>8 DEF Next, DaemonStep
------------------------------------------------------------------------------
(* The theorems                                                              *)

\* The four layers together hold in every reachable state.
LEMMA InductiveInvariant == Spec => []LifecycleInv
<1>1. Init => LifecycleInv
    BY TypeInit, DaemonInit, SessionInit, HeldInit DEF LifecycleInv
<1>2. LifecycleInv /\ [Next]_vars => LifecycleInv'
    BY TypeNext, DaemonNext, SessionNext, HeldNext DEF LifecycleInv
<1>. QED
    BY <1>1, <1>2, PTL DEF Spec

\* Whatever featload, its crashes, other programs and the readers do, every
\* variable keeps its type: in particular no file holds an entry that was hashed
\* with a seed that no Init has drawn.
THEOREM TypeCorrect == Spec => []TypeOK
<1>1. LifecycleInv => TypeOK
    BY DEF LifecycleInv, TypeInv
<1>. QED
    BY <1>1, InductiveInvariant, PTL

\* A reader that attached over the socket of the daemon that is serving has
\* mapped that daemon's file and finds all that Load could put into it, for any
\* number of crashes, restarts and calls of Destroy before and between.
THEOREM ServedFound == Spec => []ServedIsFound
<1>1. LifecycleInv => ServedIsFound
  <2>. SUFFICES ASSUME LifecycleInv, NEW r \in Readers,
                       rpc[r] = "attached", pc = "serving", rinc[r] = inc
                PROVE  /\ rseg[r] = seg
                       /\ \/ {k \in want : Finds(r, k)} = want
                          \/ Cardinality({k \in want : Finds(r, k)}) = HashCap
    BY DEF ServedIsFound
  <2>. USE DEF LifecycleInv
  <2>1. rseg[r] = seg /\ rlayout[r] /\ rseed[r] = inc
    BY DEF SessionInv, Mapped
  <2>2. \A e \in files[seg].entries : e = [key |-> e.key, seed |-> inc] /\ e.key \in want
    BY DEF DaemonInv, EntriesOurs, TypeInv, TypeOK
  <2>3. \A k \in want : Finds(r, k) <=> k \in Loaded
    BY <2>1, <2>2 DEF Finds, Loaded
  <2>4. Loaded \subseteq want
    BY <2>2 DEF Loaded
  <2>5. {k \in want : Finds(r, k)} = Loaded
    BY <2>3, <2>4
  <2>6. IsFiniteSet(Loaded) /\ Cardinality(Loaded) <= HashCap /\ (want \subseteq Loaded \/ Full)
    BY DEF DaemonInv, EntriesOurs, HeaderOurs
  <2>7. CASE want \subseteq Loaded
    BY <2>1, <2>4, <2>5, <2>7
  <2>8. CASE Full
    <3>1. Cardinality(Loaded) = HashCap
        BY <2>6, <2>8, FS_CardinalityType, LifecycleAssumption DEF Full
    <3>. QED
        BY <2>1, <2>5, <3>1
  <2>. QED
    BY <2>6, <2>7, <2>8
<1>. QED
    BY <1>1, InductiveInvariant, PTL

\* A reader loses a key that was loaded when it attached only to a later Init of
\* the very file it has mapped, never to Destroy, a crash or another file.
THEOREM LostToInit == Spec => []LostOnlyToInit
<1>1. LifecycleInv => LostOnlyToInit
  <2>. SUFFICES ASSUME LifecycleInv, NEW r \in Readers, rpc[r] = "attached"
                PROVE  \/ \A k \in served[r] : Finds(r, k)
                       \/ files[rseg[r]].seed > rseed[r]
    BY DEF LostOnlyToInit
  <2>1. files[rseg[r]].seed \in Int /\ rseed[r] \in Int
    BY DEF LifecycleInv, TypeInv, TypeOK
  <2>. QED
    BY <2>1 DEF LifecycleInv, HeldInv, HeldOK
<1>. QED
    BY <1>1, InductiveInvariant, PTL
==============================================================================
