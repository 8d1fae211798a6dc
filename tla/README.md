# A TLA+ model of featcache

featcache loads key-value pairs once into a POSIX shared memory segment and
lets any number of processes look them up in place, without locks. This
directory models the parts of it in which something can go wrong that tests
hardly reach: the lock-free hash table, the 32-bit arithmetic of the segment's
layout, repeated and failing loads, the control plane with its goroutines, and
the life of a segment across crashes and restarts of the daemon.

Contents: [the system](#the-system), [modules](#modules), [runs](#runs),
[proofs](#proofs), [findings](#where-code-and-documentation-disagree),
[what is not modelled](#what-is-not-modelled), [plan](#plan).

## The system

| Component | Source | State | Operations | What makes it correct |
|---|---|---|---|---|
| Hash table | `pkg/featcache/hashtable.go` | slot array and data region in shared memory | `Insert`, `Delete`, `Get`, scans | an inserted key is found by every lookup until it is deleted; hits are whole and of the right key |
| Loader | `pkg/featcache/loader.go`, `types.go` | header, `dataEnd`, the table | `Init`, `Load`, `put`, `Close`, `Destroy` | header, slots and entries do not overlap; a successful `Load` has loaded everything; a failed one destroys nothing |
| Data sources | `pkg/featcache/datasource.go` | a cursor | `Open`, `Next`, `Close` | the estimate is large enough for the table; entries are delivered as they were written, and a file that is cut off is an error |
| Segment | `pkg/shm` | a name in `/dev/shm`, files, mappings | create, open, close, destroy, `Borrow` | a mapped file outlives its name; a segment can be reopened after a crash |
| Daemon | `cmd/featload/main.go` | the process | start, load, serve, stop | it serves only what it has loaded, and comes back after a crash |
| Server, protocol | `pkg/featcache/server.go`, `protocol.go` | `ServerState`, listener, handlers, the shared handle of the segment | `SetState`, `Listen`, `Close`, `Destroy`, GET_INFO, GET_STATUS | an answer is that of a moment of the request; `Close` ends `Listen` and leaves nobody waiting; `Destroy` removes the file the server owns |
| Reader | `pkg/featcache/reader.go`, `header.go`, `hash.go` | mapping, cached layout and seed | `NewReader`, `Get`, `Close` | it maps the segment that was asked for, and finds what was loaded |

How they interact. The loader and the readers share memory and nothing else on
the data path: the table is written with plain stores and three kinds of atomic
access to a slot's status word, and read with one atomic load per slot. Before
that, a reader asks the daemon's server over a Unix socket for the segment's
name, opens it, and copies the layout and the hash seed out of its header once.
Processes are started, killed and restarted independently of each other; what
survives is the file in `/dev/shm`.

The hard parts are therefore the interleavings of a lookup with the stores of a
writer, the reuse of deleted slots, words that are too narrow for what they
count, sources that fail or misjudge their size, a server that is closed while it
starts, accepts or answers, or by two callers at once, clients that stall, and readers
that hold on to what a daemon that is gone has told them. `PROJECT.json` lists them as hazards,
each at its line and with the properties that cover it.

## Modules

### HashTable

`HashTable.tla` is the table at the granularity of single accesses to shared
memory. `slots` is the slot array and `data` the data region, an array of
chunks; an offset is a chunk's number. Each writer and each lookup has a program
counter and its local variables.

| Code | Actions |
|---|---|
| `Loader.put` | `PutAlloc` (the atomic add on `dataEnd`), `PutWrite` (the chunk) |
| `HashTable.Insert` | `InsertLoad`, `InsertCAS`, `InsertField` for each of the three plain stores |
| `HashTable.Delete` | `DeleteBegin`, `DeleteLoad`, `DeleteMatch`, `DeleteStore` |
| `HashTable.Get`, `getSlot` | `GetBegin`, `GetStatus`, `GetField` for each of the three plain loads, `GetMatch` |

The plain loads and stores of a slot race with each other, so they happen in any
order; every one moves an aligned word and is not torn. A chunk is written in
one step. A lookup that has read a slot while it is filled may look at another
chunk than the slot's own, but with the single writer of the package's contract
never at one that is still being written. What a lookup returns, a slice of
shared memory, is the pair of a chunk and a length (`rslot`).

`Published(s)` is the abstract notion the properties rest on: Insert has returned
for the entry in slot `s`, and it was not deleted. The history variable `witness`
holds, for each lookup, the slots that have held its key published ever since the
lookup began; `gone` and `rgone` record deletions.

Constants and assumptions: the capacity is a power of two (as `NewHashTable`
asks), the hash is any function of the key (so also one with full collisions),
and `Delete` is only called by a single writer, because its last store is not a
CAS. Several concurrent *inserting* writers are allowed: the code has a CAS for
them.

### WriteOnceMap, HashTableMap

`WriteOnceMap.tla` is what a program that loads and never deletes may rely on: a
map in which a key, once put, keeps its value. A put takes effect when it
returns, or fails because the map is full; a lookup that begins after the first put of
its key has returned gives exactly that put's value. A lookup that does not is given
more room: it may miss, and once a put of its key has begun it may return any value at
all, or `Torn`, a value with a length not its own (`CompleteRead` below).
`HashTableMap.tla` is the refinement mapping. A key's abstract value is that of
its published slot with the lowest offset (`Earliest`), since a single writer
allocates offsets in the order of its puts; the map is full when every slot is
published.

### DataSource, Loader

`DataSource.tla` has the three sources: the estimate that `Open` returns, where
`Next` stands after a second `Open` (a map source goes on, files start again), and
what `Next` makes of the contents: `NextMap`, `NextFile` with its four reads of a
length-prefixed entry, `NextLine` with the split at the first tab. The constants
`Items` and `Starts` say which entries a source was written from and where they begin
in a binary file, and `Written` that its bytes hold them in the documented format;
`LoadComplete` and `LoadFaithful` compare what is served with what went into the file.
Reads of files may also fail at any time (`LoadBroken`). `Loader.tla` is the
layout that `Init` computes and the entries that `Load` and `put` append, with
all offsets in bytes. The width of a word is a parameter, and `uint32` and
`int32` wrap as in the code. Each return of `Load` and `put`, and each panic, is
an action: `LoadOpenFails`, `LoadBroken`, `LoadSkip`, `PutDataFull`, `PutPanics`,
`PutHashFull`, `PutInserts`, `LoadEOF`. The table is abstracted to the sequence
of its entries, which is what HashTable justifies: without deletions `Insert`
succeeds as long as a slot is empty, and lookups return the first entry of a key
(`FirstPutWins`).

### Protocol, ControlPlane

`Protocol.tla` is the wire format as far as something depends on it: a name goes
through a field of fixed width, cut off or padded with NULs, and `connect` decides
with `Accepts` and `SegName` what to open. (An empty name arrives as a name of 64
NULs, because `DecodeResponse` looks for the last other byte and finds none; no
server has an empty name.)

`ControlPlane.tla` composes it with the server's process, the kernel's socket and
the clients:

| Code | Actions |
|---|---|
| `CacheServer.Listen` | `ListenBind` or `ListenFails`, `ListenStore` (of `s.ln`), `ListenLoop`, `Accept` (the return of `AcceptUnix`), `Spawn` (the `go` statement), `AcceptFails` |
| `handleConn`, `handleGetInfo` | `HandleInfo` (header, name and first load of the state), `HandleStatus` (second load, response), `HandleUnknown`, `HandleEOF`, `HandleFault` when the header is unmapped |
| `SetState` | `SetState` |
| `Close`, `Destroy` of server and loader | `CloseBegin`, `CloseListener`, `CloseFile`, `CloseUnmap`, `CloseUnlink`, of each of the `Closers` |
| `Reader.connect` | `Dial`, `Receive` or `ReceiveEOF`, `OpenSegment` |
| another client | `Dial`, `Ask` or `Abandon`, or neither |

The server has its own segment (`NewCacheServer`, `backed`) or borrows the
loader's handle (`NewServer`), and only then do the loader's `Close` and `Destroy` act
on what the server uses. Closing calls are made by goroutines of their own, one each,
and may overlap. A handler that reads the header after the segment was closed takes the
process down (`HandleFault`), and the kernel then resets its connections. The history
variable `seen` holds the server's states from a handler's first load of the state to
its second.

### Segment, Lifecycle

`Segment.tla` is `/dev/shm`: a name, and files with an identity of their own.
`Lifecycle.tla` composes it with the daemon and the readers. The daemon's program
counter walks through `main`, `NewLoader`, `createSegment` or `openSegment`,
`Init`, `Load`, `Listen`; `Dies` kills it at any point, and covers `log.Fatalf`,
which also cleans up nothing. Readers attach over the socket (`Dial`, `Answer` or
`HangUp`, then `OpenSegment`) or by name (`OpenByName`), and then read layout and
seed in two steps, between which the daemon may act. `Destroy` is a call by some
other process. A lookup finds a key if the reader's seed is the one the key was
inserted with: a different 64-bit seed gives a different hash, and the table
compares full hashes. Both ways through featload's `main` size the table with 0
expected entries, so it has one slot (`HashCap`), and `Load` stops when it is full.

## Runs

All runs finish in less than a minute on two workers, `control_plane` in two.

| Run | Model | Checks |
|---|---|---|
| `table_insert` | two interchangeable writers, one lookup, two keys, two slots, three puts | `ClaimExclusive`, `EntryIntact`, `NoFalseMiss`, `ViewStable` |
| `table_delete` | one writer that inserts and deletes two keys of the same hash, one lookup | `EntryIntact`, `NoFalseMiss`, `HitHasKey` |
| `table_load` | one writer that only inserts, an empty and a non-empty value, with fairness | `FirstPutWins`, `CallsReturn`, `ImplementsMap` |
| `load` | up to four calls of `Init` and `Load`, sources of each kind, one of them too large for its estimate, a segment of 2^(w-1) bytes | `LayoutOK`, `EstimateSuffices`, `LoadComplete`, `LoadFaithful`, `LoadAppends` |
| `lifecycle` | two deaths of the daemon anywhere, three files, two keys, one reader, with fairness | `ServedIsFound`, `LostOnlyToInit`, `ComesBack` |
| `control_plane` | a reader and a client that may stall, one call of `SetState`, two closers in the server's `Destroy` or the loader's `Close`, names that fit, do not fit, and are cut off to another one, with fairness | `AnswerTimely`, `AttachesRightly`, `DestroyUnlinks`, `NoAcceptAfterClose`, `CloseStopsListen`, `ConnectReturns` |

and `TypeOK` in `table_delete`, `load`, `lifecycle` and `control_plane`. Six more
runs, each with one property and the smallest bounds that show it, are about where the
code and its documentation disagree (below). Every property has a mutant: a definition of
the model changed as a plausible bug would change the code, under which the
property fails.

**Bounds.** *Table*: two slots and three puts fill the table, so that the loops
end by their bound, wrap round, and meet a full table; the third put fails or
reuses a tombstone. One key hashes to 0, which is what a zeroed slot holds, and
two keys share a full hash. One lookup is enough, since lookups change nothing
that others read. That two slots are not special is what the proofs show.
*Loader*: words of 8 bits with slots of 6 bytes keep the relation of the real
sizes: from 128 slots on (2^29 in the code) the bytes of the table are a multiple
of the range of a word, and a segment of 2^(w-1) bytes, the default of 2 GB, is just
more than an `int32` counts. The sources have duplicate, empty and overlong keys,
a file that is cut off, a value with a tab, lines without one, empty and too long; the
file `huge` has more than 2^(w-2) estimated entries, as one of more than 8 GiB, and
`fat`, in `LoaderFat.cfg` only, a value of more than 2^(w-1) bytes.
`MCLoader` also compares `NextPow2` with the bit smearing of `types.go` for every
word, and cuts a binary file at every byte: `Next` delivers what is whole and
reports the end only between two entries. *Lifecycle*: two deaths allow a crash
during the restart after a crash; three files, a segment destroyed and created
anew twice. Readers do not influence each other, so one is enough. *ControlPlane*: one reader
and one other client, which is enough for one to be in the way of the other; one
change of the state, between the two loads of an answer; two closers, whose calls may
overlap on the shared handle. They use the server's `Destroy`, which does all that its
`Close` does and then removes the file, and the loader's `Close`: the loader's `Destroy`
takes the same path, as it finds the handle borrowed. Handlers are independent of each
other, so more clients add nothing that a handler can see. `MCControlPlane` checks
that a name survives the wire exactly when it fits.

**Deadlock** is not checked: puts, calls and deaths are bounded, so each model
comes to an end, and a program whose calls have all returned may stop.

**Fairness.** In HashTable, each call that has begun goes on (weak fairness per
writer and per lookup): a goroutine that can run is scheduled. Nobody is obliged
to call anything. In Lifecycle, a running daemon goes on, and whoever operates it
starts it again when it is down; no fairness is assumed of readers, of deaths, or
of whoever calls `Destroy`. In ControlPlane, the goroutine in `Listen`, the
handlers, the closing calls and a reader in `connect` go on (weak fairness), and
`Accept` is strongly fair: accepting may fail now and then, for want of file
descriptors, but not for ever while a connection waits. Other clients need never
send what they began, and nobody is obliged to call `Listen` or `Close`.

**What they show.**
- `ClaimExclusive`, `EntryIntact`: the CAS makes concurrent insertions safe, and
  no deletion breaks the probe chain of another entry.
- `NoFalseMiss`: a key that is in the table during the whole of a lookup is found,
  whatever is inserted and deleted meanwhile; the early marking of a slot by
  `Insert` only ever adds occupied slots.
- `HitHasKey`: since the key is compared in the chunk, a half-filled slot never
  leads to an entry of another key (but see the findings for its length).
- `FirstPutWins`: a key put twice is served with the first value, whole.
- `ViewStable`: slices handed out are never overwritten by later puts. (A new `Init`
  of the segment does overwrite them; HashTable is about what follows one `Init`.)
- `CallsReturn`: the loops of `Insert` and `Get` end, on a full table too, and a lookup
  of a key that stays published ends in a hit. The run deletes nothing; `Delete` has
  the same loop.
- `ImplementsMap`: without deletions the table is a map that only grows; no
  interleaving of a put and a lookup shows more than WriteOnceMap allows.
- `LayoutOK`: in segments of up to 2^31 bytes and with chunks of at most as many, header, slots and
  entries are disjoint, also after puts that failed. An `Init` whose table does not fit is
  refused, or panics where the 32-bit sum wraps; it never hands out a layout that
  overlaps.
- `EstimateSuffices`: a table sized from the estimate of a map, or of a binary file of up
  to 8 GiB (`Countable`), never fills up before the source ends, whatever the file
  holds. Larger files are the finding `load_success`.
- `LoadComplete`: sized from such a source, a successful `Load` has
  loaded everything, and the first value of each key is the one served.
- `LoadFaithful`: whatever is served was in some source as it is served.
- `LoadAppends`: a second `Load`, and one that fails, leaves earlier entries alone.
- `ServedIsFound`: who attaches over the socket of the daemon that serves finds
  everything it has loaded, or as much as the table holds, although the name is
  resolved after the answer.
- `LostOnlyToInit`: destroying a segment never disturbs a reader that has it
  mapped, and neither does opening it by name; only re-initialising the same file
  does. That is what a restart of the daemon does: readers that stay attached miss
  every key from then on.
- `AnswerTimely`: status and state of an answer are those of the server between the
  handler's two loads, so that they fit each other unless `SetState` ran right there.
  That it can is the finding `control_plane_answer`.
- `AttachesRightly`: a reader maps the segment it was told to, and the server's if
  its name has at most 64 bytes. A longer name arrives cut off (`AttachesToServed`
  below).
- `DestroyUnlinks`: of a server with a segment of its own the file goes with the first
  `Destroy` that returns, after a `Close` or together with one too, and with nothing
  else. The server's calls leave a borrowed file to the loader, who then cannot remove
  it either (`LoaderDestroyUnlinks` below).
- `NoAcceptAfterClose`, `CloseStopsListen`: after `Close` no connection is accepted any
  more, and `Listen` returns. Handlers of connections that were accepted before may
  still run, and read an unmapped header (`CloseIsSafe` below).
- `ConnectReturns`: a stalled client, a `Close` or the death of the server keeps no
  reader waiting, with the one exception of a leaked listener (below).
- `ComesBack`: featload survives any sequence of crashes except one between
  creating and sizing its file.

## Proofs

Every invariant and action property that a passing run checks, and the refinement,
is also proved with TLAPS, for every value of the constants. The theorems of a
component are in a module of their own; `NumberLemmas.tla` has the facts about
least elements, powers of two and remainders that several of them need.

| Module | Theorem | Statement |
|---|---|---|
| `HashTableProofs` | `TypeCorrect` | `Spec => []TypeOK` |
| | `EntriesIntact` | `Spec => []EntryIntact` |
| | `ClaimsExclude` | `Spec => []ClaimExclusive` |
| | `LookupFinds` | `Spec => []NoFalseMiss` |
| | `HitIsOfKey` | `Spec => []HitHasKey` |
| | `ViewIsStable` | `Spec => ViewStable` |
| `HashTableMapProofs` | `FirstWins` | `Spec => []FirstPutWins` |
| | `TableImplementsMap` | `Loading` implies `Spec => ImplementsMap` |
| `LoaderProofs` | `TypeCorrect` | `Spec => []TypeOK` |
| | `LayoutCorrect` | `Addressable` implies `Spec => []LayoutOK` |
| | `EstimateIsEnough` | `Spec => []EstimateSuffices` |
| | `LoadIsComplete` | `Written` implies `Spec => []LoadComplete` |
| | `LoadIsFaithful` | `Written` implies `Spec => []LoadFaithful` |
| | `LoadKeeps` | `Spec => LoadAppends` |
| `LifecycleProofs` | `TypeCorrect` | `Spec => []TypeOK` |
| | `ServedFound` | `Spec => []ServedIsFound` |
| | `LostToInit` | `Spec => []LostOnlyToInit` |
| `ControlPlaneProofs` | `TypeCorrect` | `Spec => []TypeOK` |
| | `AnswersTimely` | `Spec => []AnswerTimely` |
| | `ReadersAttachRightly` | `Spec => []AttachesRightly` |
| | `FileGoesWithDestroy` | `Spec => []DestroyUnlinks` |
| | `NoneAccepted` | `Spec => NoAcceptAfterClose` |

They rest on the named assumptions of the modules they are about, which TLC
evaluates in the runs, and on the hypotheses in the table, all of which are about
constants:

- `Loading` is one writer and no deletions, which is how `Load` uses the table. With
  two writers the chunks of two puts are not published in the order of their
  numbers, and with deletions a key does not keep its value.
- `Addressable`: the segment has at most 2^31 bytes (the default size is 2^31), and
  so have a single chunk and the alignment. Beyond it `load_large` shows the panic, and
  `LoaderFat.cfg` what a longer chunk does.
- `Written`: the contents of a source are its `Items` in the format that the comments of
  `datasource.go` give: a binary file has, one behind the other, the two length words
  with key and value of each, and then ends or is cut off; a line has a key without a
  tab, and a tab before its value. It says nothing of `Next`: that `Next` delivers these
  entries and no others is the lemma `WrittenDecodes`. A map or a file from which
  nothing sensible can be read is outside it, and still inside `EstimateIsEnough`.

`SourcesAssumption` says that a length word is a number; for a word of any number of
bytes that is an induction over them. `MCLoader` evaluates the hypotheses on its sources.

**The inductive invariants.** An invariant of a run is seldom inductive. What was
added, and why:

*HashTable*, `HashTableInv`:
- `TypeInv` adds to `TypeOK` that indices are below the capacity inside a loop;
  without it the slot an action touches need not exist.
- `TableInv`: the region above `dataEnd` is zero and a put owns its chunk
  (`Fresh`, `ChunkOwned`), so nobody writes behind a published entry; the slots
  an insertion has passed are not empty (`InsertPath`), which makes its entry
  reachable when it is published; the words already stored into a claimed slot
  are those of the put (`FilledFields`), which makes it intact. Slots never
  become empty again: this is the reason for tombstones, and the proof fails
  without it.
- `LookupInv`: every witness of a lookup still holds its key and lies ahead of the
  loop. A lookup that leaves a slot has found that it is no witness, and one that
  stops at an empty slot has none ahead, as all slots before a reachable entry are
  occupied. It is proved with the lemma that every step keeps each published entry
  except the one it deletes (`TableNext`).

*HashTableMap*, `LoadInv`, adds to it, while loading:
- `OrderInv`: chunks are numbered in the order of the puts (`OffsetsBelow`), and all
  slots between the home slot of an entry and the entry are published and were put
  earlier (`Ordered`). So whatever a lookup meets before a witness is complete,
  which `TableInv` alone does not give: there an occupied slot may be half filled.
- `FirstInv`: a lookup that has a witness copies only complete entries, and the first
  entry of its key that it meets is one of its witnesses, put before the others. A
  key published later has a higher offset, so it never becomes the first.
- `KnownInv`: a chunk that a slot or a copy of one refers to belongs to a key that is
  in the table, or to the put at work. A put that fails leaves an entry in its chunk
  that no slot refers to; it has met a full table, so its chunk is not chunk 0,
  to which zeroed slots refer.

The refinement then goes step by step: `PutAlloc` is `BeginPut`; the last
`InsertField` is an `EndPut` that takes effect, and the `Advance` that leaves the
loop one that fails, since `Capacity` steps from any hash visit every slot
(`RemaindersVisited`); `GetBegin` is `BeginLookup`; reaching `"hit"` or `"miss"` is
`EndLookup`; all other steps change none of the six mapped variables.

*Loader*: `LayoutInv` says that `dataEnd` is behind all chunks or has wrapped to a
negative number, in which case the next put panics; `EstimateInv`, that the table
has no more entries than the source has delivered, each of which has cost a binary
file two length words; `BetweenItems`, that a source is always between two of its
entries; and `ServedInv`, that the table has what the entries read so far make it
have, each key in its first version.

*Lifecycle*, `LifecycleInv`: the daemon's file has the last seed drawn (`TypeInv`);
the name is the daemon's file's or gone, and its entries are hashed with its seed
(`DaemonInv`); who was told of the segment by this daemon has mapped its file
(`SessionInv`); layout, seed and entries that a reader has seen are those of its
file, or the file was initialised since (`HeldInv`).

*ControlPlane*, `ControlInv`: `CloseInv` relates how far each closer is to where
`Listen` is, that the flag is set before anything is closed, and that whoever waits in
`Accept` behind a finished `Close` waits on a closed socket; `UnlinkInv`, that the file
of an own segment is there until some closer has unlinked it; `ClientInv`, that
between the two loads of a handler the current state is among those it has seen, and
that status, state and name of a response come from there. That a name arrives as the
part of it that fits is the lemma `NameArrives`, for every width of the field.

TLC has confirmed each inductive invariant on the instances of the runs.

**Only model-checked**: `CallsReturn`, `ComesBack`, `CloseStopsListen` and
`ConnectReturns`, which are liveness properties and out of the prover's reach; and that
the bit smearing of `types.go` is `NextPow2` (`MCLoader`), which needs bitwise operators
that are recursive.

## Where code and documentation disagree

| Run | Property | What happens |
|---|---|---|
| `table_deleted_key` | `DeletedKeyMisses` | `Insert` marks a slot used before it stores the slot's fields. On a reused tombstone this brings the deleted entry back to life for a moment. |
| `load_large` | `NoPanic` | Beyond 2 GB of data the `int32` end of the data region becomes negative and `put` panics. |
| `load_success` | `SuccessMeansLoaded` | `Load` reports success when the table is full. A binary file of more than 8 GiB overflows the size of its table: no slot (which is what the run shows), or after the wrap too few. A text file has an estimate of 0, so that `featload -source` loads one entry (`LoaderLines.cfg`). |
| `restart` | `ReusableAfterRestart` | A daemon killed between creating and sizing its file leaves a file of size 0 that blocks every later start. |
| `control_plane_close` | `CloseShutsDown` | `Close` runs after `Listen` has bound and before it has stored its listener: nobody ever closes it, and clients that have connected, or can still connect because the address is abstract, wait without end. |
| `control_plane_answer` | `BusyFailsFast` | State and status of an answer are two loads: with `SetState` in between, an answer says Loading and `RespOK`, and the reader attaches. |

Further configurations are not among the runs, because what they show is close to one of
these, or takes no interleaving, or is a hazard the code does not claim to guard
against. TLC finds the property of each violated within seconds (`tlc -config X.cfg M`):

| Module, configuration | Property | What happens |
|---|---|---|
| `MCHashTable`, `HashTableCompleteRead.cfg` | `CompleteRead` | In the same window as in `table_deleted_key`, a lookup hits the key of the first put, whose chunk is at the offset 0 of a zeroed slot, and returns its value with the length 0, with `true`, although "readers that observe SlotUsed will see the complete data" (`hashtable.go:33`). |
| `MCLoader`, `LoaderLines.cfg` | `SuccessMeansLoaded` | One entry of a text file is loaded, and `Load` reports success. |
| `MCLoader`, `LoaderFat.cfg` | `AppendOnly` | A value of 2^31 bytes or more is refused after `dataEnd` has moved back; if it is nearly 2^32, to a place that the next `Load` takes for free. |
| `Lifecycle`, `LifecycleClobber.cfg` | `NotClobbered` | A restarted daemon opens the file that is left and initialises it under the readers that have it mapped; they lose every key, although "`O_EXCL` prevents accidental clobbering" (`segment-design.md:81`). |
| `Lifecycle`, `LifecycleEarly.cfg` | `HashAlike` | A reader that opens the segment by name during `Init` takes a seed of its own, keeps it, and misses whatever is loaded, although "every reader ... hashes keys identically" (`loader.go:121`). |
| `MCControlPlane`, `ControlPlaneFault.cfg` | `CloseIsSafe` | `Close` unmaps the segment under a connection that was accepted and not answered; its handler takes the process down. |
| `MCControlPlane`, `ControlPlaneBorrow.cfg` | `LoaderDestroyUnlinks` | `NewServer` marks the handle it shares with the loader as borrowed; `Loader.Destroy`, which "closes and unlinks the segment" (`loader.go:221`), then leaves the file in `/dev/shm`. |
| `MCControlPlane`, `ControlPlaneLongName.cfg` | `AttachesToServed` | A name of more than 64 bytes is cut off in the response, and the reader attaches to whatever has the shorter name. |

Loads run before featload serves, so the windows in `Insert` do not reach readers that
attach over its socket; they concern readers by name, programs that load while they
serve, and deletions. featload itself only loads text files, sets its state before it
listens, and never destroys: files of more than 8 GiB, values of more than 2 GiB, answers
of a server that is busy, and `Loader.Destroy` concern programs that use the package.

## What is not modelled

- `Count`, `Iterate`, `SlotAt`: they only read.
- FNV-1a: a parameter, any function.
- `LoadFactor`: stored and never read.
- The layout fields of a response: `connect` reads them from the header instead.
- OpWatch and the other operations that the server does not know yet: they are
  answered with `RespError`, like any unknown one.
- Two servers at one address, where the `Close` of one removes the other's file.
- Two `Load`s of one program at the same time: "Only one Loader per segment".
- A table that is initialised again while lookups run in it, slot by slot: HashTable has
  one `Init`; Lifecycle has the second one, with lookups that are one step.
- `Reader.Close` under a lookup of the same `Reader`: the caller has to order them.
- Memory reordering beyond that of the plain accesses to one slot: the atomic
  accesses of Go are sequentially consistent.
- Non-Linux stubs, the demo program, logging and flags.

## Plan

1. The scans (`Count`, `Iterate`), and what they may report while a writer runs;
   what `Delete` leaves of duplicate keys.
2. Proofs: that the sequence of entries that Loader keeps is WriteOnceMap's map, so
   that the theorems on loading and on the table join; step properties of the
   daemon and of the server's states.
