------------------------------ MODULE ShmRegion ------------------------------
(***************************************************************************)
(* Who has which shared memory: the named region of crates/aster-hwstats   *)
(* (region.rs, region/unix.rs, region/win.rs), opened by asterctl, the     *)
(* reader, by aster-sysinfo, a writer, and on Windows by HwBridge.         *)
(*                                                                         *)
(* On unix shm_open, ftruncate and mmap are steps of their own.  A name    *)
(* stays until it is unlinked, and memory until nobody maps it.  On        *)
(* Windows the kernel creates or opens in one step, and name and memory    *)
(* go with the last handle, also with that of a killed process.            *)
(*                                                                         *)
(* Data: a region is its number in the order of creation.  Its content is  *)
(* one slot, written and read in one step: the protocol in the slot is     *)
(* module Seqlock, and the two slots do not influence each other.          *)
(***************************************************************************)
EXTENDS Naturals, Sequences

CONSTANTS
  Process,      \* those that open the region
  Reader,       \* asterctl
  Writer,       \* aster-sysinfo
  Snapshot,     \* what may be written
  NoSnapshot,   \* a slot never written
  MaxTroubles   \* bound: processes that end and calls that fail

ASSUME RegionAssumption ==
  /\ Reader \in Process /\ Writer \in Process /\ Reader # Writer
  /\ NoSnapshot \notin Snapshot
  /\ MaxTroubles \in Nat

VARIABLES
  unix,       \* the platform
  name,       \* the region the name stands for, 0 for none
  memory,     \* memory[r]: the slot in region r
  sized,      \* the regions that have their size
  pc,         \* pc[p]: "away", "open", "size", "map", "ready"
  region,     \* region[p]: the region p has a descriptor, handle or mapping of, 0 for none
  creator,    \* the processes with unlink_on_drop
  unlinked,   \* history: the name was taken from a region in use
  seen,       \* the snapshot the reader took last
  troubles    \* bound

processVars == <<pc, region, creator>>
regionVars == <<unix, name, memory, sized, processVars, unlinked, seen, troubles>>

Region == 1..Len(memory)

RegionInit ==
  /\ unix \in BOOLEAN
  /\ name = 0 /\ memory = <<>> /\ sized = {}
  /\ pc = [p \in Process |-> "away"]
  /\ region = [p \in Process |-> 0]
  /\ creator = {}
  /\ unlinked = FALSE
  /\ seen = NoSnapshot
  /\ troubles = 0

-----------------------------------------------------------------------------
(* Mapping::open.                                                          *)

\* Fault: the opener of an existing object unlinks it as well.
OwnersWithOpeners(p, created) == creator \cup {p}

\* unlink_on_drop is set for the process that created the object.
Owners(p, created) == IF created THEN creator \cup {p} ELSE creator

Take(p, r, created, next) ==
  /\ region' = [region EXCEPT ![p] = r]
  /\ creator' = Owners(p, created)
  /\ pc' = [pc EXCEPT ![p] = next]

Create(p, next) ==
  /\ name = 0
  /\ memory' = Append(memory, NoSnapshot)
  /\ name' = Len(memory) + 1
  /\ Take(p, Len(memory) + 1, unix, next)

\* shm_open with O_CREAT | O_EXCL: the object is created ...
CreateExclusive(p) ==
  /\ unix
  /\ pc[p] = "away"
  /\ Create(p, "size")
  /\ UNCHANGED <<unix, sized, unlinked, seen, troubles>>

\* ... or there is one already, EEXIST.
AlreadyExists(p) ==
  /\ unix
  /\ pc[p] = "away"
  /\ name # 0
  /\ pc' = [pc EXCEPT ![p] = "open"]
  /\ UNCHANGED <<unix, name, memory, sized, region, creator, unlinked, seen, troubles>>

\* shm_open without O_CREAT: whatever the name stands for by now.
OpenExisting(p) ==
  /\ pc[p] = "open"
  /\ name # 0
  /\ Take(p, name, FALSE, "size")
  /\ UNCHANGED <<unix, name, memory, sized, unlinked, seen, troubles>>

\* The name may be gone since EEXIST: ENOENT.
OpenGone(p) ==
  /\ pc[p] = "open"
  /\ name = 0
  /\ pc' = [pc EXCEPT ![p] = "away"]
  /\ UNCHANGED <<unix, name, memory, sized, region, creator, unlinked, seen, troubles>>

\* Whoever opened it calls ftruncate, so that nobody maps an object without memory.
SizedBy(p) == sized \cup {region[p]}

Truncate(p) ==
  /\ pc[p] = "size"
  /\ sized' = SizedBy(p)
  /\ pc' = [pc EXCEPT ![p] = "map"]
  /\ UNCHANGED <<unix, name, memory, region, creator, unlinked, seen, troubles>>

\* CreateFileMappingW creates or opens, and gives a new mapping its size.
CreateFileMapping(p) ==
  /\ ~unix
  /\ pc[p] = "away"
  /\ \/ Create(p, "map")
     \/ /\ name # 0
        /\ Take(p, name, FALSE, "map")
        /\ UNCHANGED <<name, memory>>
  /\ sized' = sized \cup {name'}
  /\ UNCHANGED <<unix, unlinked, seen, troubles>>

\* mmap, MapViewOfFile
Map(p) ==
  /\ pc[p] = "map"
  /\ pc' = [pc EXCEPT ![p] = "ready"]
  /\ UNCHANGED <<unix, name, memory, sized, region, creator, unlinked, seen, troubles>>

-----------------------------------------------------------------------------
(* What ends a process's hold of the region.                               *)

UsedByOthers(p, r) == \E q \in Process \ {p} : region[q] = r

\* Fault: the first handle that is closed takes the mapping with it.
NameGone(p) == 0

\* Windows: the mapping goes with its last handle.
NameKept(p) == IF UsedByOthers(p, name) THEN name ELSE 0

\* Fault: a provider that could not open the region does not try again.
GivesUp(p) == IF p = Reader THEN "never" ELSE "away"

\* A writer ends and is started again; the reader tries again at its next update.
TriesAgain(p) == "away"

Leave(p) ==
  /\ troubles < MaxTroubles
  /\ troubles' = troubles + 1
  /\ region' = [region EXCEPT ![p] = 0]
  /\ creator' = creator \ {p}
  /\ UNCHANGED <<unix, memory, sized>>

\* munmap or close, then shm_unlink if it is the creator; UnmapViewOfFile and CloseHandle.
Drop(p) ==
  /\ Leave(p)
  /\ IF unix
       THEN /\ name' = IF p \in creator THEN 0 ELSE name
            /\ unlinked' = (unlinked \/ (p \in creator /\ UsedByOthers(p, name)))
       ELSE /\ name' = NameKept(p)
            /\ UNCHANGED unlinked

\* ftruncate, mmap or MapViewOfFile fails: the error path cleans up as the destructor does.
OpenFails(p) ==
  /\ pc[p] \in {"size", "map"}
  /\ Drop(p)
  /\ pc' = [pc EXCEPT ![p] = TriesAgain(p)]
  /\ UNCHANGED seen

Forget(p) == seen' = IF p = Reader THEN NoSnapshot ELSE seen

(* The process returns from main: asterctl without launcher or without     *)
(* active panel, aster-sysinfo after its only round or an error, a panic.  *)
(* HwBridge opens and closes the region for each snapshot.                 *)
End(p) ==
  /\ pc[p] = "ready"
  /\ Drop(p)
  /\ pc' = [pc EXCEPT ![p] = "away"]
  /\ Forget(p)

\* The process is killed: no destructor runs, and unix keeps the name.
Kill(p) ==
  /\ pc[p] # "away"
  /\ Leave(p)
  /\ name' = IF unix THEN name ELSE NameKept(p)
  /\ pc' = [pc EXCEPT ![p] = "away"]
  /\ Forget(p)
  /\ UNCHANGED unlinked

-----------------------------------------------------------------------------
(* Use.                                                                    *)

Write(s) ==
  /\ pc[Writer] = "ready"
  /\ memory' = [memory EXCEPT ![region[Writer]] = s]
  /\ UNCHANGED <<unix, name, sized, processVars, unlinked, seen, troubles>>

\* What the reader finds in the region it has.
Slot == memory[region[Reader]]

\* A slot that was never written is passed over.
Read ==
  /\ pc[Reader] = "ready"
  /\ Slot # NoSnapshot
  /\ seen' = Slot
  /\ UNCHANGED <<unix, name, memory, sized, processVars, unlinked, troubles>>

-----------------------------------------------------------------------------
Opening(p) ==
  \/ CreateExclusive(p) \/ AlreadyExists(p) \/ OpenExisting(p) \/ OpenGone(p)
  \/ Truncate(p) \/ CreateFileMapping(p) \/ Map(p)

Ending(p) == OpenFails(p) \/ End(p) \/ Kill(p)

RegionNext ==
  \/ \E p \in Process : Opening(p) \/ Ending(p)
  \/ \E s \in Snapshot : Write(s)
  \/ Read

RegionSpec == RegionInit /\ [][RegionNext]_regionVars

-----------------------------------------------------------------------------
(* Properties.                                                             *)

RegionTypeOK ==
  /\ unix \in BOOLEAN /\ unlinked \in BOOLEAN
  /\ memory \in Seq(Snapshot \cup {NoSnapshot})
  /\ name \in 0..Len(memory)
  /\ sized \subseteq Region
  /\ pc \in [Process -> {"away", "open", "size", "map", "ready"}]
  /\ region \in [Process -> 0..Len(memory)]
  /\ creator \subseteq Process
  /\ seen \in Snapshot \cup {NoSnapshot}
  /\ troubles \in 0..MaxTroubles

(* unix.rs:8: "The creator unlinks the name on drop; openers of an         *)
(* existing object do not."  Names may be unlinked and given again while   *)
(* processes hold older regions; no process ever unlinks the name of a     *)
(* region that is not its own.                                             *)
UnlinksOwn == \A p \in creator : region[p] = name /\ name # 0

(* A region created by one process may be opened by another before it has  *)
(* its size.  Whoever maps it may touch all of it.                         *)
MappedIsSized == \A p \in Process : pc[p] = "ready" => region[p] \in sized

(* region.rs:62: the region "is created on demand (create-or-open          *)
(* semantics, ...) and stays alive as long as at least one process holds a *)
(* handle".  All that hold a region hold the same one, through failing     *)
(* calls, through kills, and through a name that comes and goes - unless   *)
(* on unix a creator has unlinked it under the others.                     *)
SharedUnlessUnlinked ==
  ~unlinked => \A p, q \in Process : region[p] # 0 /\ region[q] # 0 => region[p] = region[q]
=============================================================================
