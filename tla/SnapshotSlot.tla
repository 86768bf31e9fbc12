---------------------------- MODULE SnapshotSlot ----------------------------
(***************************************************************************)
(* What one producer slot of the AOOSTAR_HW_STATS region promises          *)
(* (crates/aster-hwstats): the sensor snapshots of a producer replace one  *)
(* another atomically, and a reader that obtains a snapshot obtains the    *)
(* whole of the newest one that was published.  The seqlock of the code    *)
(* (module Seqlock) implements this register.                              *)
(***************************************************************************)
EXTENDS Naturals

CONSTANTS
  MaxPayload,  \* payload capacity of a slot, in words
  MaxWrites    \* bound on the number of publications

VARIABLES
  published,   \* newest complete snapshot: its number and its length
  delivered    \* last snapshot handed to the consumer

vars == <<published, delivered>>

\* Snapshot 0 is the slot that was never written.
Snapshot == [id : 0..MaxWrites, len : 0..MaxPayload]

Unwritten == [id |-> 0, len |-> 0]

Init ==
  /\ published = Unwritten
  /\ delivered = Unwritten

\* A producer that dies while it writes loses that snapshot, so numbers may be skipped.
Publish ==
  /\ published' \in Snapshot
  /\ published'.id > published.id
  /\ UNCHANGED delivered

Deliver ==
  /\ published # Unwritten
  /\ delivered' = published
  /\ UNCHANGED published

Next == Publish \/ Deliver

Spec == Init /\ [][Next]_vars
=============================================================================
