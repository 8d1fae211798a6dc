---------------------------- MODULE ControlPlane -----------------------------
(***************************************************************************)
(* The control plane: CacheServer (pkg/featcache/server.go) with its       *)
(* goroutines, Reader.connect (reader.go) at the other end of the Unix     *)
(* socket, and the handle of the segment (pkg/shm) that the server shares  *)
(* with the loader of its process.                                         *)
(*                                                                         *)
(* Goroutines of the server's process: the one in Listen, one handler per  *)
(* connection, whoever sets the state, and closers, which call Close or    *)
(* Destroy of the server or of the loader, also at the same time.  One     *)
(* action is one access to what they share, or one system call.  s.ln is   *)
(* written and read without synchronisation, but log.Printf and the atomic *)
(* flag come between its accesses and those of the flag, so that they take *)
(* effect in order.                                                        *)
(*                                                                         *)
(* The kernel queues a connection until it is accepted, and resets the     *)
(* queue when the listener is closed.  A client is a reader in connect, or *)
(* some other program, which may stall, hang up, or ask for an operation   *)
(* that the server does not know.  GET_STATUS is answered like GET_INFO.   *)
(***************************************************************************)
EXTENDS Protocol, FiniteSets

CONSTANTS
    Readers,       \* clients that are readers, in connect
    Others,        \* all other clients
    OnPath,        \* the server's address is a path, not an abstract one
    ServerNames,   \* the names the served segment may have
    WantNames,     \* the names that readers ask for, NoName for any
    ShmNames,      \* the segments that exist when the server starts
    Closers,       \* goroutines that each make one closing call, if any
    Calls,         \* the closing calls they may make
    MaxSets        \* bound: number of calls of SetState

ServerCalls == {"Close", "Destroy"}
LoaderCalls == {"LoaderClose", "LoaderDestroy"}
Destroying  == {"Destroy", "LoaderDestroy"}

ASSUME BoundsAssumption ==
    /\ MaxSets \in Nat
    /\ Readers \cap Others = {}
    /\ ServerNames \subseteq ShmNames /\ ServerNames \subseteq Names \ {NoName}
    /\ WantNames \subseteq Names /\ NoName \in WantNames
    /\ OnPath \in BOOLEAN /\ Calls \subseteq ServerCalls \cup LoaderCalls

Clients == Readers \cup Others

VARIABLES
    segmentName,  \* CacheServer.segmentName
    state, sets,  \* CacheServer.state; number of changes so far
    closed,       \* CacheServer.closed
    ln,           \* CacheServer.ln is set
    lpc,          \* Listen: "idle", "bound", "loop", "accept", "spawn", "returned"
    sock,         \* the listener in the kernel: "none", "listening", "closed"
    file,         \* the socket's file exists
    mapped,       \* Segment: the handle's memory is mapped
    backed,       \* Segment.backedByFile
    shm,          \* the names in /dev/shm
    xpc, xop,     \* closers: where they are in which call
    crashed,      \* the server's process has died of an access to unmapped memory
    cpc,          \* clients: where they are
    want,         \* clients: wantName of connect, once it is looked at
    segName,      \* clients: the segment connect opens, then has open
    hpc,          \* connections: where they are, or their handler is
    resp,         \* connections: the response
    seen          \* history: the server's states from a handler's first load to its second

serverVars  == <<segmentName, state, sets, closed, ln>>
listenVars  == <<lpc, sock, file>>
segmentVars == <<mapped, backed, shm>>
closerVars  == <<xpc, xop>>
clientVars  == <<cpc, want, segName>>
connVars    == <<hpc, resp, seen>>
vars == <<serverVars, listenVars, segmentVars, closerVars, crashed, clientVars, connVars>>

------------------------------------------------------------------------------
(* CacheServer.Listen                                                        *)

\* Listen removes the file of an earlier server and binds.
ListenBind ==
    /\ lpc = "idle" /\ ~crashed
    /\ sock' = "listening"
    /\ file' = OnPath
    /\ lpc' = "bound"
    /\ UNCHANGED <<serverVars, segmentVars, closerVars, crashed, clientVars, connVars>>

\* The address is in use, or not valid.
ListenFails ==
    /\ lpc = "idle" /\ ~crashed
    /\ file' = FALSE
    /\ lpc' = "returned"
    /\ UNCHANGED <<serverVars, sock, segmentVars, closerVars, crashed, clientVars, connVars>>

ListenStore ==
    /\ lpc = "bound" /\ ~crashed
    /\ ln' = TRUE
    /\ lpc' = "loop"
    /\ UNCHANGED <<segmentName, state, sets, closed, sock, file, segmentVars,
                   closerVars, crashed, clientVars, connVars>>

ListenLoop ==
    /\ lpc = "loop" /\ ~crashed
    /\ lpc' = IF closed THEN "returned" ELSE "accept"
    /\ UNCHANGED <<serverVars, sock, file, segmentVars, closerVars, crashed, clientVars, connVars>>

Handling == {"decode", "status"}
Open     == {"queued", "accepted"} \cup Handling

\* Mutant: a connection is handled in the loop, before the next is accepted.
QueuedAlone(c) == hpc[c] = "queued" /\ \A d \in Clients : hpc[d] \notin Handling

Queued(c) == hpc[c] = "queued"

\* AcceptUnix returns with a connection of the kernel's queue.
Accept(c) ==
    /\ lpc = "accept" /\ ~crashed
    /\ sock = "listening"
    /\ Queued(c)
    /\ hpc' = [hpc EXCEPT ![c] = "accepted"]
    /\ lpc' = "spawn"
    /\ UNCHANGED <<serverVars, sock, file, segmentVars, closerVars, crashed, clientVars, resp, seen>>

\* The connection gets a goroutine of its own, whatever was closed meanwhile.
Spawn(c) ==
    /\ lpc = "spawn" /\ ~crashed
    /\ hpc[c] = "accepted"
    /\ hpc' = [hpc EXCEPT ![c] = "decode"]
    /\ lpc' = "loop"
    /\ UNCHANGED <<serverVars, sock, file, segmentVars, closerVars, crashed, clientVars, resp, seen>>

\* AcceptUnix fails: the listener is closed, or the process has too many files open.
AcceptFails ==
    /\ lpc = "accept" /\ ~crashed
    /\ lpc' = IF closed THEN "returned" ELSE "loop"
    /\ UNCHANGED <<serverVars, sock, file, segmentVars, closerVars, crashed, clientVars, connVars>>

------------------------------------------------------------------------------
(* CacheServer.handleConn                                                    *)

HGoto(c, label) == hpc' = [hpc EXCEPT ![c] = label]

HUnchanged == UNCHANGED <<serverVars, listenVars, segmentVars, closerVars, clientVars>>

EmptyResponse == [status |-> RespError, state |-> "Idle", name |-> DecodeName(EncodeName(NoName))]

\* DecodeRequest has the whole request; segmentResponse reads the header and
\* loads the state.  Nobody else sees the steps in between.
HandleInfo(c) ==
    /\ ~crashed /\ hpc[c] = "decode" /\ cpc[c] = "asked" /\ c \in Readers
    /\ mapped
    /\ resp' = [resp EXCEPT ![c] = [@ EXCEPT !.state = state, !.name = DecodeName(EncodeName(segmentName))]]
    /\ seen' = [seen EXCEPT ![c] = {state}]
    /\ HGoto(c, "status")
    /\ UNCHANGED crashed /\ HUnchanged

\* The segment is closed: headerOf panics or faults, the whole process dies, and
\* the kernel closes what it had open.
HandleFault(c) ==
    /\ ~crashed /\ hpc[c] = "decode" /\ cpc[c] = "asked" /\ c \in Readers
    /\ ~mapped
    /\ crashed' = TRUE
    /\ UNCHANGED connVars /\ HUnchanged

\* statusForState loads the state again; the response is sent and the connection
\* closed.
HandleStatus(c) ==
    /\ ~crashed /\ hpc[c] = "status"
    /\ resp' = [resp EXCEPT ![c].status = statusForState(state)]
    /\ HGoto(c, "answered")
    /\ UNCHANGED <<seen, crashed>> /\ HUnchanged

HandleUnknown(c) ==
    /\ ~crashed /\ hpc[c] = "decode" /\ cpc[c] = "asked" /\ c \in Others
    /\ resp' = [resp EXCEPT ![c] = EmptyResponse]
    /\ HGoto(c, "answered")
    /\ UNCHANGED <<seen, crashed>> /\ HUnchanged

\* The client has hung up: DecodeRequest fails, the connection is closed.
HandleEOF(c) ==
    /\ ~crashed /\ hpc[c] = "decode" /\ cpc[c] = "gone"
    /\ HGoto(c, "done")
    /\ UNCHANGED <<resp, seen, crashed>> /\ HUnchanged

------------------------------------------------------------------------------
(* SetState, and Close and Destroy of server and loader                      *)

SetState(s) ==
    /\ ~crashed /\ sets < MaxSets /\ s # state
    /\ sets' = sets + 1
    /\ state' = s
    /\ seen' = [c \in Clients |-> IF c \in Readers /\ hpc[c] = "status" THEN seen[c] \cup {s} ELSE seen[c]]
    /\ UNCHANGED <<segmentName, closed, ln, listenVars, segmentVars, closerVars,
                   crashed, clientVars, hpc, resp>>

\* Mutant: Close does not set its flag.
NoFlag(call) == closed' = closed

SetFlag(call) == closed' = (closed \/ call \in ServerCalls)

\* The loader's handle is the server's only if the server has borrowed it.
Callable(call) == call \in LoaderCalls => ~backed

\* The server sets its flag first; the loader goes straight to the segment.
CloseBegin(x, call) ==
    /\ ~crashed /\ xpc[x] = "idle"
    /\ Callable(call)
    /\ xop' = [xop EXCEPT ![x] = call]
    /\ SetFlag(call)
    /\ xpc' = [xpc EXCEPT ![x] = IF call \in ServerCalls THEN "listener" ELSE "segment"]
    /\ UNCHANGED <<segmentName, state, sets, ln, listenVars, segmentVars, crashed,
                   clientVars, connVars>>

XGoto(x, label) == xpc' = [xpc EXCEPT ![x] = label] /\ UNCHANGED xop

\* s.ln.Close, if there is one by now; it removes the socket's file too.
CloseListener(x) ==
    /\ ~crashed /\ xpc[x] = "listener"
    /\ XGoto(x, "file")
    /\ IF ln THEN /\ sock' = "closed"
                  /\ file' = FALSE
                  /\ hpc' = [c \in Clients |-> IF hpc[c] = "queued" THEN "reset" ELSE hpc[c]]
             ELSE UNCHANGED <<sock, file, hpc>>
    /\ UNCHANGED <<serverVars, lpc, segmentVars, crashed, clientVars, resp, seen>>

CloseFile(x) ==
    /\ ~crashed /\ xpc[x] = "file"
    /\ XGoto(x, "segment")
    /\ file' = FALSE
    /\ UNCHANGED <<serverVars, lpc, sock, segmentVars, crashed, clientVars, connVars>>

\* Mutant: destroy has nothing to do for a segment that was closed before.
UnlinksMapped(x) == xop[x] \in Destroying /\ backed /\ mapped

\* Segment.destroy removes the file, unless the handle is borrowed.
Unlinks(x) == xop[x] \in Destroying /\ backed

\* Segment.close: when it returns, the handle has no memory any more, whoever of
\* several closers has unmapped it.
CloseUnmap(x) ==
    /\ ~crashed /\ xpc[x] = "segment"
    /\ mapped' = FALSE
    /\ XGoto(x, IF Unlinks(x) THEN "unlink" ELSE "done")
    /\ UNCHANGED <<serverVars, listenVars, backed, shm, crashed, clientVars, connVars>>

\* A file that is gone already is no error.
CloseUnlink(x) ==
    /\ ~crashed /\ xpc[x] = "unlink"
    /\ shm' = shm \ {segmentName}
    /\ XGoto(x, "done")
    /\ UNCHANGED <<serverVars, listenVars, mapped, backed, crashed, clientVars, connVars>>

------------------------------------------------------------------------------
(* Clients                                                                   *)

CGoto(c, label) == cpc' = [cpc EXCEPT ![c] = label]

CUnchanged == UNCHANGED <<serverVars, listenVars, segmentVars, closerVars, crashed>>

\* The kernel accepts the connection while somebody listens at the address.  A
\* reader sends its request at once (EncodeRequest).
Dial(c) ==
    /\ cpc[c] = "idle"
    /\ sock = "listening" /\ (OnPath => file) /\ ~crashed
    /\ CGoto(c, IF c \in Readers THEN "asked" ELSE "dialed")
    /\ HGoto(c, "queued")
    /\ UNCHANGED <<want, segName, resp, seen>> /\ CUnchanged

\* Another client comes to send its request, or never does.
Ask(c) ==
    /\ cpc[c] = "dialed"
    /\ CGoto(c, "asked")
    /\ UNCHANGED <<want, segName, connVars>> /\ CUnchanged

\* The client hangs up, or is killed.  (Once it has asked, nobody notices.)
Abandon(c) ==
    /\ cpc[c] = "dialed"
    /\ CGoto(c, "gone")
    /\ UNCHANGED <<want, segName, connVars>> /\ CUnchanged

\* DecodeResponse, and the checks of connect.
Receive(c, w) ==
    /\ cpc[c] = "asked"
    /\ hpc[c] = "answered"
    /\ HGoto(c, "done")
    /\ resp' = [resp EXCEPT ![c] = EmptyResponse]
    /\ IF c \in Readers /\ Accepts(w, resp[c])
       THEN /\ CGoto(c, "told")
            /\ want' = [want EXCEPT ![c] = w]
            /\ segName' = [segName EXCEPT ![c] = SegName(w, resp[c])]
            /\ UNCHANGED seen
       ELSE /\ CGoto(c, "failed")
            /\ seen' = [seen EXCEPT ![c] = {}]
            /\ UNCHANGED <<want, segName>>
    /\ CUnchanged

\* The connection ends without a response.
ReceiveEOF(c) ==
    /\ cpc[c] = "asked"
    /\ hpc[c] # "answered" /\ (hpc[c] = "reset" \/ crashed)
    /\ CGoto(c, "failed")
    /\ HGoto(c, "done")
    /\ resp' = [resp EXCEPT ![c] = EmptyResponse]
    /\ seen' = [seen EXCEPT ![c] = {}]
    /\ UNCHANGED <<want, segName>> /\ CUnchanged

\* OpenSegment, of whatever has the name by now.
OpenSegment(c) ==
    /\ cpc[c] = "told"
    /\ CGoto(c, IF segName[c] \in shm THEN "attached" ELSE "failed")
    /\ seen' = [seen EXCEPT ![c] = {}]
    /\ UNCHANGED <<want, segName, hpc, resp>> /\ CUnchanged

------------------------------------------------------------------------------
\* NewCacheServer owns its segment's file; NewServer borrows the loader's handle.
Init ==
    /\ segmentName \in ServerNames
    /\ state = "Idle" /\ sets = 0 /\ closed = FALSE /\ ln = FALSE
    /\ lpc = "idle" /\ sock = "none" /\ file = FALSE
    /\ mapped = TRUE /\ backed \in BOOLEAN /\ shm = ShmNames
    /\ xpc = [x \in Closers |-> "idle"] /\ xop = [x \in Closers |-> "none"]
    /\ crashed = FALSE
    /\ cpc = [c \in Clients |-> "idle"]
    /\ want = [c \in Clients |-> NoName]
    /\ segName = [c \in Clients |-> NoName]
    /\ hpc = [c \in Clients |-> "none"]
    /\ resp = [c \in Clients |-> EmptyResponse]
    /\ seen = [c \in Clients |-> {}]

ListenStep == ListenStore \/ ListenLoop \/ AcceptFails \/ \E c \in Clients : Accept(c) \/ Spawn(c)

Handle(c) ==
    \/ HandleInfo(c) \/ HandleFault(c) \/ HandleStatus(c)
    \/ HandleUnknown(c) \/ HandleEOF(c)

CloseStep(x) == CloseListener(x) \/ CloseFile(x) \/ CloseUnmap(x) \/ CloseUnlink(x)

ClientStep(c) == (\E w \in WantNames : Receive(c, w)) \/ ReceiveEOF(c) \/ OpenSegment(c)

Next ==
    \/ ListenBind \/ ListenFails \/ ListenStep
    \/ \E c \in Clients : Handle(c)
    \/ \E s \in States : SetState(s)
    \/ \E x \in Closers : CloseStep(x) \/ \E call \in Calls : CloseBegin(x, call)
    \/ \E c \in Clients : Dial(c) \/ ClientStep(c)
    \/ \E c \in Others : Ask(c) \/ Abandon(c)

Spec == Init /\ [][Next]_vars

\* Goroutines that can run do run, and accept does not fail for ever while a
\* connection waits.  (Handlers, closers and clients have finitely many steps, so
\* that no one of them can keep the others from theirs.)  A client need not ask after it
\* has dialed.
Fairness ==
    /\ WF_vars(ListenStep)
    /\ SF_vars(\E c \in Clients : Accept(c))
    /\ WF_vars(\E c \in Clients : Handle(c))
    /\ WF_vars(\E x \in Closers : CloseStep(x))
    /\ WF_vars(\E c \in Clients : ClientStep(c))

FairSpec == Spec /\ Fairness

------------------------------------------------------------------------------
(* Properties                                                                *)

\* Every variable has its type; in particular, what a reader opens is a name, with
\* none of the padding of the response's field.
TypeOK ==
    /\ segmentName \in ServerNames
    /\ state \in States /\ sets \in 0 .. MaxSets
    /\ {closed, ln, file, mapped, backed, crashed} \subseteq BOOLEAN
    /\ lpc \in {"idle", "bound", "loop", "accept", "spawn", "returned"}
    /\ sock \in {"none", "listening", "closed"}
    /\ shm \subseteq ShmNames
    /\ xpc \in [Closers -> {"idle", "listener", "file", "segment", "unlink", "done"}]
    /\ xop \in [Closers -> Calls \cup {"none"}]
    /\ cpc \in [Clients -> {"idle", "dialed", "gone", "asked", "told", "failed", "attached"}]
    /\ want \in [Clients -> WantNames]
    /\ segName \in [Clients -> Names]
    /\ hpc \in [Clients -> Open \cup {"none", "reset", "answered", "done"}]
    /\ resp \in [Clients -> Responses]
    /\ seen \in [Clients -> SUBSET States]

BusyState(s) == s \in {"Loading", "Updating"}

\* "Status is RespBusy while Loading or Updating, otherwise RespOK", with State
\* beside it, of two loads: each is of the state at some moment between the two, so
\* that State and Status fit each other unless SetState ran right there.
AnswerTimely ==
    \A c \in Readers : hpc[c] = "answered" =>
        /\ resp[c].state \in seen[c]
        /\ \E s \in seen[c] : resp[c].status = (IF BusyState(s) THEN RespBusy ELSE RespOK)

\* "Loading and Updating also set Status to RespBusy so callers can fail fast": in
\* no response does a busy State come with another Status.
BusyFailsFast ==
    \A c \in Readers : hpc[c] = "answered" /\ BusyState(resp[c].state) => resp[c].status = RespBusy

\* A reader that attaches over the socket has mapped the segment it was told to,
\* and the server's own if its name fits into a response, and at some moment while
\* its request was handled the server was not busy loading.
AttachesRightly ==
    \A c \in Clients :
        /\ cpc[c] = "told" => \E s \in seen[c] : ~BusyState(s)
        /\ cpc[c] = "attached" =>
              /\ want[c] # NoName => segName[c] = want[c]
              /\ Len(segmentName) <= NameWidth => segName[c] = segmentName

\* connect "opens and maps the reported shared memory segment": a reader that has
\* attached has mapped the segment that the server reports on, whatever its name.
AttachesToServed == \A c \in Readers : cpc[c] = "attached" => segName[c] = segmentName

\* Some call of S has returned.
Returned(S) == \E x \in Closers : xpc[x] = "done" /\ xop[x] \in S

\* The file of a server's own segment goes with the first Destroy that returns, also
\* of several at the same time and after a Close, and with nothing else; and Destroy
\* of a server that has borrowed the loader's handle leaves the loader's file alone.
DestroyUnlinks ==
    /\ backed => (segmentName \in shm <=> ~Returned(Destroying))
    /\ ~backed /\ ~Returned({"LoaderDestroy"}) => segmentName \in shm

\* "Destroy closes and unlinks the segment": when the loader's Destroy has returned,
\* its segment is not in /dev/shm any more.
LoaderDestroyUnlinks == Returned({"LoaderDestroy"}) => segmentName \notin shm

\* Once Close or Destroy has returned, no connection is accepted any more: only one
\* that had been accepted before still gets its handler.
NoAcceptAfterClose ==
    [][\A c \in Clients : Returned(ServerCalls) /\ hpc[c] = "queued" => hpc'[c] # "accepted"]_vars

\* "Close shuts down the server": neither Close nor Destroy, called at any moment,
\* makes the process die.
CloseIsSafe == ~crashed

\* Close ends Listen, whatever Listen is doing and however the two interleave.
CloseStopsListen == Returned(ServerCalls) /\ lpc # "idle" ~> lpc = "returned" \/ crashed

\* The listener that Close was too early to close.
Leaked == lpc = "returned" /\ sock = "listening"

\* connect returns: a reader that asks gets an answer or an error, although other
\* clients stall or hang up and although the server is closed or dies meanwhile;
\* only a server that has leaked its listener keeps it waiting.
ConnectReturns == \A r \in Readers : cpc[r] = "asked" ~> cpc[r] # "asked" \/ Leaked

\* "Close shuts down the server": when Close and Listen have both returned, the
\* kernel accepts no more connections for the server.
CloseShutsDown == lpc = "returned" /\ Returned(ServerCalls) => sock # "listening"
==============================================================================
