---------------------------- MODULE NetworkChoice ----------------------------
(***************************************************************************)
(* Which interface aster-sysinfo reports on Linux: select_network_candidate*)
(* of crates/aster-sysinfo/src/main.rs, over the interfaces in the order   *)
(* in which a hash map lists them, another one each time.                  *)
(*                                                                         *)
(* Data: a name is its lexical rank and whether it begins like an uplink   *)
(* (is_common_uplink_name).  Of the addresses only counts whether one of   *)
(* them is no loopback.  Counters end at MaxCount, as u64 does.            *)
(***************************************************************************)
EXTENDS Naturals, Sequences

CONSTANT MaxCount

ASSUME CountAssumption == MaxCount \in Nat

Candidate(names) ==
  [name : names, uplink : BOOLEAN, routable : BOOLEAN,
   received : 0..MaxCount, transmitted : 0..MaxCount]

None == [name |-> 0, uplink |-> FALSE, routable |-> FALSE, received |-> 0, transmitted |-> 0]

SaturatingAdd(a, b) == IF a + b > MaxCount THEN MaxCount ELSE a + b

Traffic(c) == SaturatingAdd(c.received, c.transmitted)

UplinkRank(c) == IF c.uplink THEN 1 ELSE 0

\* Fault: without the last comparison, of two equals the one listed later wins.
AtMostUntied(a, b) ==
  \/ UplinkRank(a) < UplinkRank(b)
  \/ UplinkRank(a) = UplinkRank(b) /\ Traffic(a) <= Traffic(b)

\* Names of common uplinks come first, then traffic, then the lexically smaller name.
AtMost(a, b) ==
  \/ UplinkRank(a) < UplinkRank(b)
  \/ UplinkRank(a) = UplinkRank(b) /\ Traffic(a) < Traffic(b)
  \/ UplinkRank(a) = UplinkRank(b) /\ Traffic(a) = Traffic(b) /\ a.name >= b.name

\* Interfaces without an address, or with nothing but a loopback address, drop out.
IsRoutable(c) == c.routable

\* Iterator::max_by over the others: of equal greatest elements the last one.
IsLastMax(s, i) ==
  /\ IsRoutable(s[i])
  /\ \A j \in DOMAIN s : IsRoutable(s[j]) =>
       AtMost(s[j], s[i]) /\ (j > i => ~AtMost(s[i], s[j]))

SelectNetworkCandidate(s) ==
  LET last == {i \in DOMAIN s : IsLastMax(s, i)}
  IN IF last = {} THEN None ELSE s[CHOOSE i \in last : TRUE]

-----------------------------------------------------------------------------
\* A list of interfaces with different names.
Distinct(s) == \A i, j \in DOMAIN s : s[i].name = s[j].name => i = j

Lists(candidates, n) == {s \in UNION {[1..m -> candidates] : m \in 0..n} : Distinct(s)}

\* What is to be chosen, in whatever order the candidates come.
IsChoice(c, candidates) ==
  IF {d \in candidates : d.routable} = {} THEN c = None
  ELSE /\ c \in candidates /\ c.routable
       /\ \A d \in candidates :
            d.routable /\ d # c =>
              \/ c.uplink /\ ~d.uplink
              \/ c.uplink = d.uplink /\ Traffic(c) > Traffic(d)
              \/ c.uplink = d.uplink /\ Traffic(c) = Traffic(d) /\ c.name < d.name
=============================================================================
