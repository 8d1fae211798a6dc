------------------------------ MODULE Lifecycle ------------------------------
(***************************************************************************)
(* The life of a segment: the featload daemon (cmd/featload/main.go) that  *)
(* creates or reopens it, initialises and loads it and serves its metadata *)
(* over a Unix socket, with crashes and restarts at every step, and the    *)
(* readers (pkg/featcache/reader.go) that attach to it, over the socket or *)
(* by its name, and cache its layout and hash seed.                        *)
(*                                                                         *)
(* One action is one system call or one group of stores to the segment     *)
(* that other processes can see between.  Lookups change nothing: Finds    *)
(* says what a lookup gives.  The bytes of the entries are in the modules  *)
(* Loader and HashTable.                                                   *)
(***************************************************************************)
EXTENDS Segment

CONSTANTS
    Keys,       \* the valid keys of the daemon's source, which has each once
    HashCap,    \* number of slots of the table; featload calls Init(0) and gets 1
    Readers,    \* reader processes
    MaxDeaths   \* bound: number of times the daemon is stopped or crashes

ASSUME LifecycleAssumption == MaxDeaths \in Nat /\ HashCap \in Nat \ {0}

VARIABLES
    pc,       \* the daemon: where featload's main is, "down" when no process runs
    seg,      \* the daemon: the inode it has mapped
    want,     \* the daemon: the keys of its source, none without -source
    inc,      \* number of segment initialisations so far; the last one's hash seed
    deaths,   \* bound: number of deaths of the daemon so far
    rpc,      \* the readers: "idle", "asked", "told", "mapped", "layout", "attached"
    rinc,     \* the readers: the incarnation that answered, 0 without a socket
    rseg,     \* the readers: Reader.segment
    rlayout,  \* the readers: the layout in Reader.hashTable, FALSE when it was zero
    rseed,    \* the readers: Reader.seed, NoSeed for the reader's own
    served    \* history: keys that were loaded before and while the reader attached

daemonVars == <<pc, seg, want, inc, deaths>>
readerVars == <<rpc, rinc, rseg, rlayout, rseed, served>>
vars       == <<segmentVars, daemonVars, readerVars>>

Up == pc # "down"

\* Reader.Get finds k: its hash under the reader's seed is the one k was inserted with.
Finds(r, k) == rlayout[r] /\ [key |-> k, seed |-> rseed[r]] \in files[rseg[r]].entries

------------------------------------------------------------------------------
(* featload: NewLoader                                                       *)

\* Mutant: CreateSegment truncates a file that exists.
StartTruncates(src) ==
    /\ pc = "down"
    /\ want' = src
    /\ pc' = "created"
    /\ \/ OpenExcl /\ seg' = used + 1
       \/ /\ Exists
          /\ files' = [files EXCEPT ![name] = ZeroFile]
          /\ seg' = name
          /\ UNCHANGED <<name, used>>
    /\ UNCHANGED <<inc, deaths, readerVars>>

\* CreateSegment creates the file, or fails because there is one.
Start(src) ==
    /\ pc = "down"
    /\ want' = src
    /\ \/ OpenExcl /\ seg' = used + 1 /\ pc' = "created"
       \/ Exists /\ pc' = "open" /\ UNCHANGED <<segmentVars, seg>>
    /\ UNCHANGED <<inc, deaths, readerVars>>

CreateTruncate ==
    /\ pc = "created"
    /\ Truncate(seg)
    /\ pc' = "sized"
    /\ UNCHANGED <<name, used, seg, want, inc, deaths, readerVars>>

CreateMmap ==
    /\ pc = "sized"
    /\ pc' = "header"
    /\ UNCHANGED <<segmentVars, seg, want, inc, deaths, readerVars>>

\* Truncate or Mmap fails: createSegment removes the name, whatever it names now,
\* and NewLoader goes on to OpenSegment.
CreateFails ==
    /\ pc \in {"created", "sized"}
    /\ used < MaxInodes
    /\ Remove
    /\ pc' = "open"
    /\ UNCHANGED <<files, used, seg, want, inc, deaths, readerVars>>

\* Mutant: NewLoader gives up when the file exists.
OpenNothing ==
    /\ pc = "open"
    /\ pc' = "down"
    /\ UNCHANGED <<segmentVars, seg, want, inc, deaths, readerVars>>

\* NewLoader falls back to OpenSegment; when that fails too, featload exits.
OpenExisting ==
    /\ pc = "open"
    /\ \/ CanOpen /\ seg' = name /\ pc' = "header"
       \/ ~CanOpen /\ pc' = "down" /\ seg' = seg
    /\ UNCHANGED <<segmentVars, want, inc, deaths, readerVars>>

------------------------------------------------------------------------------
(* featload: Loader.Init and Load                                            *)

InitHeader ==
    /\ pc = "header"
    /\ files' = [files EXCEPT ![seg].layout = TRUE, ![seg].full = {}]
    /\ pc' = "seed"
    /\ UNCHANGED <<name, used, seg, want, inc, deaths, readerVars>>

\* Every Init draws a new seed.
InitSeed ==
    /\ pc = "seed"
    /\ inc' = inc + 1
    /\ files' = [files EXCEPT ![seg].seed = inc + 1]
    /\ pc' = "zero"
    /\ UNCHANGED <<name, used, seg, want, deaths, readerVars>>

\* Mutant: the server starts before the data is loaded.
InitSlotsThenServe ==
    /\ pc = "zero"
    /\ files' = [files EXCEPT ![seg].entries = {}]
    /\ pc' = "listen"
    /\ UNCHANGED <<name, used, seg, want, inc, deaths, readerVars>>

InitSlots ==
    /\ pc = "zero"
    /\ files' = [files EXCEPT ![seg].entries = {}]
    /\ pc' = "load"
    /\ UNCHANGED <<name, used, seg, want, inc, deaths, readerVars>>

Loaded == {e.key : e \in files[seg].entries}
Full   == Cardinality(Loaded) >= HashCap

\* Mutant: put hashes with the seed of its process.
LoadPutOwnSeed(k) ==
    /\ pc = "load"
    /\ k \in want \ Loaded /\ ~Full
    /\ files' = [files EXCEPT ![seg].entries = @ \cup {[key |-> k, seed |-> NoSeed]}]
    /\ UNCHANGED <<name, used, daemonVars, readerVars>>

\* put hashes with the seed in the header.
LoadPut(k) ==
    /\ pc = "load"
    /\ k \in want \ Loaded /\ ~Full
    /\ files' = [files EXCEPT ![seg].entries = @ \cup {[key |-> k, seed |-> files[seg].seed]}]
    /\ UNCHANGED <<name, used, daemonVars, readerVars>>

\* Load returns, at the end of the source or because the table is full, or was
\* not called; the server over the segment is ready.
LoadReturns ==
    /\ pc = "load"
    /\ want \subseteq Loaded \/ Full
    /\ files' = [files EXCEPT ![seg].full = Loaded]
    /\ pc' = "listen"
    /\ UNCHANGED <<name, used, seg, want, inc, deaths, readerVars>>

------------------------------------------------------------------------------
(* featload: CacheServer, signals and crashes                                *)

\* Listen binds, after it has removed the socket file of an earlier daemon.
Listen ==
    /\ pc = "listen"
    /\ pc' = "serving"
    /\ UNCHANGED <<segmentVars, seg, want, inc, deaths, readerVars>>

\* The signal handler unmaps the segment; the socket's file stays.
Signal ==
    /\ pc \in {"listen", "serving"}
    /\ deaths < MaxDeaths
    /\ deaths' = deaths + 1
    /\ pc' = "closed"
    /\ UNCHANGED <<segmentVars, seg, want, inc, readerVars>>

\* The signal handler calls os.Exit, or a request panics on the unmapped header.
Exit ==
    /\ pc = "closed"
    /\ pc' = "down"
    /\ UNCHANGED <<segmentVars, seg, want, inc, deaths, readerVars>>

\* A crash, a kill or log.Fatalf: nothing is cleaned up.
Dies ==
    /\ pc \notin {"down", "closed"}
    /\ deaths < MaxDeaths
    /\ deaths' = deaths + 1
    /\ pc' = "down"
    /\ UNCHANGED <<segmentVars, seg, want, inc, readerVars>>

\* Some other process calls Destroy on a handle of the segment.
Destroy ==
    /\ CanOpen
    /\ used < MaxInodes
    /\ Remove
    /\ UNCHANGED <<files, used, daemonVars, readerVars>>

------------------------------------------------------------------------------
(* Readers                                                                   *)

RGoto(r, label) == rpc' = [rpc EXCEPT ![r] = label]

\* connect dials the socket and sends GET_INFO.
Dial(r) ==
    /\ rpc[r] = "idle"
    /\ pc = "serving"
    /\ rinc' = [rinc EXCEPT ![r] = inc]
    /\ RGoto(r, "asked")
    /\ UNCHANGED <<segmentVars, daemonVars, rseg, rlayout, rseed, served>>

\* handleConn answers with the segment's name; the state is StateReady.
Answer(r) ==
    /\ rpc[r] = "asked"
    /\ pc = "serving" /\ rinc[r] = inc
    /\ RGoto(r, "told")
    /\ UNCHANGED <<segmentVars, daemonVars, rinc, rseg, rlayout, rseed, served>>

\* The daemon is gone before it has answered: connect fails.
HangUp(r) ==
    /\ rpc[r] = "asked"
    /\ pc # "serving" \/ rinc[r] # inc
    /\ RGoto(r, "idle")
    /\ UNCHANGED <<segmentVars, daemonVars, rinc, rseg, rlayout, rseed, served>>

\* NewReader without a socket address.
OpenByName(r) ==
    /\ rpc[r] = "idle"
    /\ rinc' = [rinc EXCEPT ![r] = 0]
    /\ RGoto(r, "told")
    /\ UNCHANGED <<segmentVars, daemonVars, rseg, rlayout, rseed, served>>

\* OpenSegment, on whatever the name stands for by now.
OpenSegment(r) ==
    /\ rpc[r] = "told"
    /\ \/ /\ CanOpen
          /\ rseg' = [rseg EXCEPT ![r] = name]
          /\ served' = [served EXCEPT ![r] = files[name].full]
          /\ RGoto(r, "mapped")
       \/ /\ ~CanOpen
          /\ RGoto(r, "idle")
          /\ UNCHANGED <<rseg, served>>
    /\ UNCHANGED <<segmentVars, daemonVars, rinc, rlayout, rseed>>

\* initHashTable copies the layout out of the header ...
ReadLayout(r) ==
    /\ rpc[r] = "mapped"
    /\ rlayout' = [rlayout EXCEPT ![r] = files[rseg[r]].layout]
    /\ RGoto(r, "layout")
    /\ UNCHANGED <<segmentVars, daemonVars, rinc, rseg, rseed, served>>

\* ... and then the seed.
ReadSeed(r) ==
    /\ rpc[r] = "layout"
    /\ rseed' = [rseed EXCEPT ![r] = files[rseg[r]].seed]
    /\ served' = [served EXCEPT ![r] = @ \cap files[rseg[r]].full]
    /\ RGoto(r, "attached")
    /\ UNCHANGED <<segmentVars, daemonVars, rinc, rseg, rlayout>>

ReaderClose(r) ==
    /\ rpc[r] = "attached"
    /\ RGoto(r, "idle")
    /\ UNCHANGED <<segmentVars, daemonVars, rinc, rseg, rlayout, rseed, served>>

------------------------------------------------------------------------------
Init ==
    /\ SegmentInit
    /\ pc = "down" /\ seg = 1 /\ want = {} /\ inc = 0 /\ deaths = 0
    /\ rpc = [r \in Readers |-> "idle"]
    /\ rinc = [r \in Readers |-> 0]
    /\ rseg = [r \in Readers |-> 1]
    /\ rlayout = [r \in Readers |-> FALSE]
    /\ rseed = [r \in Readers |-> NoSeed]
    /\ served = [r \in Readers |-> {}]

DaemonStep ==
    \/ CreateTruncate \/ CreateMmap \/ CreateFails \/ OpenExisting
    \/ InitHeader \/ InitSeed \/ InitSlots
    \/ \E k \in Keys : LoadPut(k)
    \/ LoadReturns \/ Listen \/ Exit

Starting == \E src \in {{}, Keys} : Start(src)

ReaderStep(r) ==
    \/ Dial(r) \/ Answer(r) \/ HangUp(r) \/ OpenByName(r)
    \/ OpenSegment(r) \/ ReadLayout(r) \/ ReadSeed(r) \/ ReaderClose(r)

Next ==
    \/ Starting \/ DaemonStep
    \/ Signal \/ Dies \/ Destroy
    \/ \E r \in Readers : ReaderStep(r)

Spec == Init /\ [][Next]_vars

\* A process that runs goes on, and whoever runs featload starts it again.
FairSpec == Spec /\ WF_vars(Starting) /\ WF_vars(DaemonStep)

------------------------------------------------------------------------------
(* Properties                                                                *)

\* Every variable has its type, and the seeds in use were drawn by some Init.
TypeOK ==
    /\ name \in Inodes \cup {NoFile}
    /\ used \in 0 .. MaxInodes
    /\ files \in [Inodes -> [sized : BOOLEAN, layout : BOOLEAN, seed : 0 .. inc,
                             entries : SUBSET [key : Keys, seed : 1 .. inc], full : SUBSET Keys]]
    /\ pc \in {"down", "created", "sized", "open", "header", "seed", "zero", "load",
               "listen", "serving", "closed"}
    /\ seg \in Inodes
    /\ want \subseteq Keys
    /\ inc \in Nat
    /\ deaths \in 0 .. MaxDeaths
    /\ rpc \in [Readers -> {"idle", "asked", "told", "mapped", "layout", "attached"}]
    /\ rinc \in [Readers -> 0 .. inc]
    /\ rseg \in [Readers -> Inodes]
    /\ rlayout \in [Readers -> BOOLEAN]
    /\ rseed \in [Readers -> 0 .. inc]
    /\ served \in [Readers -> SUBSET Keys]

\* A reader that attached over the socket of the daemon that is serving has
\* mapped the daemon's file and finds every key of its source, or as many as the
\* table has slots, whatever crashes, restarts and calls of Destroy came before
\* or between.
ServedIsFound ==
    \A r \in Readers : rpc[r] = "attached" /\ pc = "serving" /\ rinc[r] = inc =>
        LET found == {k \in want : Finds(r, k)}
        IN rseg[r] = seg /\ (found = want \/ Cardinality(found) = HashCap)

\* "Other processes that still have the segment mapped can continue using it":
\* a reader that opened a loaded segment, over the socket or by its name, loses
\* a key only to a later Init of the very file it has mapped, and so never when
\* the file was destroyed before the restart.
LostOnlyToInit ==
    \A r \in Readers : rpc[r] = "attached" =>
        \/ \A k \in served[r] : Finds(r, k)
        \/ files[rseg[r]].seed > rseed[r]

\* "O_EXCL prevents accidental clobbering" of the segment that a crash has left: a
\* reader that opened a loaded segment keeps finding what it could find.
NotClobbered == \A r \in Readers : rpc[r] = "attached" => \A k \in served[r] : Finds(r, k)

\* "Every reader (including other processes) hashes keys identically": who has the
\* segment open that is being served has its layout, and hashes as put did.
HashAlike ==
    \A r \in Readers : rpc[r] = "attached" /\ pc = "serving" /\ rseg[r] = seg =>
        rlayout[r] /\ rseed[r] = files[seg].seed

\* The file was created and not given its size: a stub that nobody can map.
Stub == Exists /\ ~files[name].sized /\ pc # "created"

\* However often featload is killed, once that ends it serves again for good,
\* unless it was killed between creating its file and giving it a size.
ComesBack == <>[](pc = "serving") \/ <>[](Stub)

\* "Segment stays in /dev/shm, reusable after restart": once featload is no
\* longer killed, it serves again.
ReusableAfterRestart == <>[](pc = "serving")
==============================================================================
