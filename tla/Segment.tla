------------------------------ MODULE Segment --------------------------------
(***************************************************************************)
(* The shared memory segment of pkg/shm on Linux: one name in /dev/shm and *)
(* the files it has named.  A file that is mapped lives on when its name   *)
(* is removed, so files have an identity of their own, the inode.          *)
(*                                                                         *)
(* Of a file's content this module keeps what a reader's lookups depend    *)
(* on: whether the header has a layout, the persisted hash seed, and the   *)
(* entries in the slots, each with the seed it was hashed with.  A new     *)
(* file is zeroed.  A history component, full, has the keys of the Load    *)
(* that was completed last, and none once the file is initialised again.   *)
(***************************************************************************)
EXTENDS Integers, FiniteSets

CONSTANT MaxInodes   \* bound: number of files created

ASSUME InodesAssumption == MaxInodes \in Nat \ {0}

Inodes == 1 .. MaxInodes
NoFile == 0
NoSeed == 0

VARIABLES
    name,   \* the inode that /dev/shm/<name> names, or NoFile
    files,  \* the files, by inode
    used    \* number of inodes used

segmentVars == <<name, files, used>>

ZeroFile == [sized |-> FALSE, layout |-> FALSE, seed |-> NoSeed, entries |-> {}, full |-> {}]

\* OpenFile with O_CREATE|O_EXCL: a new file, of size 0.
OpenExcl ==
    /\ name = NoFile
    /\ used < MaxInodes
    /\ used' = used + 1
    /\ name' = used + 1
    /\ files' = [files EXCEPT ![used + 1] = ZeroFile]

\* OpenFile fails with EEXIST.
Exists == name # NoFile

Truncate(f) == files' = [files EXCEPT ![f].sized = TRUE]

\* os.Remove of the name.
Remove == name' = NoFile

\* openSegment succeeds: mapping a file of size 0 is an error.
CanOpen == name # NoFile /\ files[name].sized

SegmentInit ==
    /\ name = NoFile
    /\ files = [f \in Inodes |-> ZeroFile]
    /\ used = 0
==============================================================================
