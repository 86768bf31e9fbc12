----------------------------- MODULE ConfigStore -----------------------------
(***************************************************************************)
(* What launcher.toml promises: one value for each option, that changes    *)
(* only when a menu choice is stored, and then only in that option, in one *)
(* step, whatever fails or dies.  An empty store may be provisioned, and   *)
(* that is not all or nothing: some options may remain unset, and one may  *)
(* get a value that is none.                                               *)
(***************************************************************************)
CONSTANTS Key, Value, Bad, None, Packaged

VARIABLE stored

Init == stored \in [Key -> Value \union {Bad, None}]

Store(k, v) == stored' = [stored EXCEPT ![k] = v]

Provision ==
  /\ stored = [k \in Key |-> None]
  /\ stored' \in [Key -> {Packaged, Bad, None}]
  /\ \A j, k \in Key : stored'[j] = Bad /\ stored'[k] = Bad => j = k

Next == Provision \/ \E k \in Key, v \in Value : Store(k, v)

Spec == Init /\ [][Next]_stored
=============================================================================
