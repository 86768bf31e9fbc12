---------------------------- MODULE SysinfoProofs ----------------------------
(***************************************************************************)
(* Theorems about ShmRegion and Sysinfo: for any number of processes, of   *)
(* failures and of rounds.                                                 *)
(***************************************************************************)
EXTENDS Sysinfo, TLAPS, WellFoundedInduction

(* Who holds a region is past its opening; only its creator, one process,  *)
(* may unlink a name, and it stands for its own region.                    *)
HoldInv ==
  /\ \A p \in Process : pc[p] \in {"away", "open"} <=> region[p] = 0
  /\ \A p \in creator : region[p] # 0
  /\ \A p, q \in creator : p = q
  /\ ~unix => ~unlinked

(* Until a name was taken from a region in use, every region in use has it. *)
NamedInv == ~unlinked => \A p \in Process : region[p] # 0 => region[p] = name

SizedInv == \A p \in Process : pc[p] \in {"map", "ready"} => region[p] \in sized

RegionInv == RegionTypeOK /\ HoldInv /\ UnlinksOwn /\ NamedInv /\ SizedInv

-----------------------------------------------------------------------------
(* Before anything is opened the invariant holds.                          *)
LEMMA RegionInitial == RegionInit => RegionInv
  <1> SUFFICES ASSUME RegionInit PROVE RegionInv
    OBVIOUS
  <1>1. memory \in Seq(Snapshot \cup {NoSnapshot}) /\ Len(memory) = 0
    BY DEF RegionInit
  <1>2. RegionTypeOK
    <2>1. unix \in BOOLEAN /\ unlinked \in BOOLEAN
      BY DEF RegionInit
    <2>2. name \in 0..Len(memory) /\ sized \subseteq Region /\ troubles \in 0..MaxTroubles
      BY <1>1, RegionAssumption DEF RegionInit
    <2>3. /\ pc \in [Process -> {"away", "open", "size", "map", "ready"}]
          /\ region \in [Process -> 0..Len(memory)]
          /\ creator \subseteq Process /\ seen \in Snapshot \cup {NoSnapshot}
      BY <1>1 DEF RegionInit
    <2> QED BY <1>1, <2>1, <2>2, <2>3 DEF RegionTypeOK
  <1>3. HoldInv /\ UnlinksOwn /\ NamedInv /\ SizedInv
    BY SMT DEF RegionInit, HoldInv, UnlinksOwn, NamedInv, SizedInv
  <1> QED BY <1>2, <1>3 DEF RegionInv

(* shm_open creates, or CreateFileMappingW does.                           *)
LEMMA CreateKeeps ==
  ASSUME RegionInv, NEW p \in Process, CreateExclusive(p)
  PROVE  RegionInv'
  <1> USE DEF CreateExclusive, Create, Take, Owners
  <1>1. Len(memory) \in Nat /\ Len(memory') = Len(memory) + 1
    BY DEF RegionInv, RegionTypeOK
  <1>2. RegionTypeOK'
    BY <1>1, SMT DEF RegionInv, RegionTypeOK, HoldInv, Region
  <1>3. creator = {} /\ region[p] = 0 /\ creator' = {p}
    BY SMT DEF RegionInv, HoldInv, UnlinksOwn
  <1>4. HoldInv' /\ UnlinksOwn'
    BY <1>1, <1>3, SMT DEF RegionInv, RegionTypeOK, HoldInv, UnlinksOwn
  <1>5. NamedInv'
    BY <1>1, SMT DEF RegionInv, RegionTypeOK, NamedInv
  <1>6. SizedInv'
    BY <1>1, SMT DEF RegionInv, RegionTypeOK, SizedInv
  <1> QED BY <1>2, <1>4, <1>5, <1>6 DEF RegionInv

LEMMA OpenKeeps ==
  ASSUME RegionInv, NEW p \in Process, OpenExisting(p)
  PROVE  RegionInv'
  <1> USE DEF OpenExisting, Take, Owners
  <1>1. region[p] = 0 /\ p \notin creator
    BY SMT DEF RegionInv, HoldInv
  <1>2. RegionTypeOK'
    BY SMT DEF RegionInv, RegionTypeOK, Region
  <1>3. HoldInv' /\ UnlinksOwn' /\ NamedInv'
    BY <1>1, SMT DEF RegionInv, RegionTypeOK, HoldInv, UnlinksOwn, NamedInv
  <1>4. SizedInv'
    BY SMT DEF RegionInv, RegionTypeOK, SizedInv
  <1> QED BY <1>2, <1>3, <1>4 DEF RegionInv

LEMMA CreateFileMappingKeeps ==
  ASSUME RegionInv, NEW p \in Process, CreateFileMapping(p)
  PROVE  RegionInv'
  <1>1. CASE name = 0
    <2>1. /\ ~unix /\ pc[p] = "away"
          /\ memory' = Append(memory, NoSnapshot)
          /\ name' = Len(memory) + 1
          /\ region' = [region EXCEPT ![p] = Len(memory) + 1]
          /\ creator' = creator
          /\ pc' = [pc EXCEPT ![p] = "map"]
          /\ sized' = sized \cup {name'}
          /\ UNCHANGED <<unix, unlinked, seen, troubles>>
      BY <1>1 DEF CreateFileMapping, Create, Take, Owners
    <2>2. Len(memory) \in Nat /\ Len(memory') = Len(memory) + 1
      BY <2>1 DEF RegionInv, RegionTypeOK
    <2>3. RegionTypeOK'
      <3>1. memory' \in Seq(Snapshot \cup {NoSnapshot})
        BY <2>1 DEF RegionInv, RegionTypeOK
      <3>2. unix' \in BOOLEAN /\ unlinked' \in BOOLEAN
        BY <2>1 DEF RegionInv, RegionTypeOK
      <3>3. name' \in 0..Len(memory') /\ sized' \subseteq Region'
        <4> DEFINE n == Len(memory)
        <4>1. /\ n \in Nat /\ Len(memory') = n + 1
              /\ sized \subseteq 1..n /\ sized' = sized \cup {n + 1} /\ name' = n + 1
          BY <2>1, <2>2 DEF RegionInv, RegionTypeOK, Region
        <4> HIDE DEF n
        <4> QED BY <4>1 DEF Region
      <3>4. /\ pc' \in [Process -> {"away", "open", "size", "map", "ready"}]
            /\ region' \in [Process -> 0..Len(memory')]
        BY <2>1, <2>2 DEF RegionInv, RegionTypeOK
      <3>5. /\ creator' \subseteq Process /\ seen' \in Snapshot \cup {NoSnapshot}
            /\ troubles' \in 0..MaxTroubles
        BY <2>1 DEF RegionInv, RegionTypeOK
      <3> QED BY <3>1, <3>2, <3>3, <3>4, <3>5 DEF RegionTypeOK
    <2>4. region[p] = 0 /\ p \notin creator /\ creator = {}
      BY <1>1, <2>1, SMT DEF RegionInv, HoldInv, UnlinksOwn
    <2>5. HoldInv' /\ UnlinksOwn'
      BY <2>1, <2>2, <2>4, SMT DEF RegionInv, RegionTypeOK, HoldInv, UnlinksOwn
    <2>6. NamedInv' /\ SizedInv'
      BY <1>1, <2>1, <2>2, SMT DEF RegionInv, RegionTypeOK, NamedInv, SizedInv
    <2> QED BY <2>3, <2>5, <2>6 DEF RegionInv
  <1>2. CASE name # 0
    <2>1. /\ ~unix /\ pc[p] = "away"
          /\ region' = [region EXCEPT ![p] = name]
          /\ creator' = creator
          /\ pc' = [pc EXCEPT ![p] = "map"]
          /\ sized' = sized \cup {name}
          /\ UNCHANGED <<unix, name, memory, unlinked, seen, troubles>>
      BY <1>2 DEF CreateFileMapping, Create, Take, Owners
    <2>2. RegionTypeOK'
      BY <1>2, <2>1, SMT DEF RegionInv, RegionTypeOK, Region
    <2>3. region[p] = 0 /\ p \notin creator
      BY <2>1, SMT DEF RegionInv, HoldInv
    <2>4. HoldInv' /\ UnlinksOwn' /\ NamedInv' /\ SizedInv'
      BY <1>2, <2>1, <2>3, SMT DEF RegionInv, RegionTypeOK, HoldInv, UnlinksOwn, NamedInv, SizedInv
    <2> QED BY <2>2, <2>4 DEF RegionInv
  <1> QED BY <1>1, <1>2

(* The steps that only move one process on.                                *)
LEMMA MovesKeep ==
  ASSUME RegionInv, NEW p \in Process,
         AlreadyExists(p) \/ OpenGone(p) \/ Truncate(p) \/ Map(p)
  PROVE  RegionInv'
  <1>1. RegionTypeOK'
    <2>1. CASE Truncate(p)
      <3>1. region[p] \in Region
        BY <2>1, SMT DEF RegionInv, RegionTypeOK, HoldInv, Region, Truncate
      <3> QED BY <2>1, <3>1 DEF RegionInv, RegionTypeOK, Region, Truncate, SizedBy
    <2>2. CASE AlreadyExists(p) \/ OpenGone(p) \/ Map(p)
      BY <2>2 DEF RegionInv, RegionTypeOK, Region, AlreadyExists, OpenGone, Map
    <2> QED BY <2>1, <2>2
  <1>2. HoldInv' /\ UnlinksOwn' /\ NamedInv'
    BY SMT DEF RegionInv, RegionTypeOK, HoldInv, UnlinksOwn, NamedInv, AlreadyExists, OpenGone, Truncate, Map
  <1>3. SizedInv'
    BY SMT DEF RegionInv, RegionTypeOK, SizedInv, AlreadyExists, OpenGone, Truncate, Map, SizedBy
  <1> QED BY <1>1, <1>2, <1>3 DEF RegionInv

(* Who drops a region does not disturb the others: either nobody else has  *)
(* it, or the name stays, or the history remembers that it was taken.      *)
LEMMA DropKeeps ==
  ASSUME RegionInv, NEW p \in Process, Drop(p),
         NEW next \in {"away", "open"}, pc' = [pc EXCEPT ![p] = next],
         seen' \in Snapshot \cup {NoSnapshot}
  PROVE  RegionInv'
  <1>1. /\ region' = [region EXCEPT ![p] = 0]
        /\ creator' = creator \ {p}
        /\ UNCHANGED <<unix, memory, sized>>
        /\ troubles < MaxTroubles /\ troubles' = troubles + 1
    BY DEF Drop, Leave
  <1>2. unix => /\ name' = IF p \in creator THEN 0 ELSE name
               /\ unlinked' = (unlinked \/ (p \in creator /\ UsedByOthers(p, name)))
    BY DEF Drop
  <1>3. ~unix => name' = NameKept(p) /\ unlinked' = unlinked
    BY DEF Drop
  <1>4. RegionTypeOK'
    <2>1. unix' \in BOOLEAN /\ unlinked' \in BOOLEAN
      BY <1>1, <1>2, <1>3 DEF RegionInv, RegionTypeOK
    <2>2. name' \in 0..Len(memory')
      BY <1>1, <1>2, <1>3 DEF RegionInv, RegionTypeOK, NameKept
    <2>3. troubles' \in 0..MaxTroubles
      BY <1>1, RegionAssumption DEF RegionInv, RegionTypeOK
    <2>4. region' \in [Process -> 0..Len(memory')]
      BY <1>1 DEF RegionInv, RegionTypeOK
    <2> QED BY <1>1, <2>1, <2>2, <2>3, <2>4 DEF RegionInv, RegionTypeOK, Region
  <1>5. HoldInv'
    BY <1>1, <1>3, SMT DEF RegionInv, RegionTypeOK, HoldInv
  <1>6. UnlinksOwn'
    <2>1. CASE unix
      BY <1>1, <1>2, <2>1, SMT DEF RegionInv, RegionTypeOK, HoldInv, UnlinksOwn
    <2>2. CASE ~unix
      <3>1. creator \subseteq Process /\ \A q \in creator : region[q] = name /\ name # 0
        BY DEF RegionInv, RegionTypeOK, UnlinksOwn
      <3> QED BY <1>1, <1>3, <2>2, <3>1, SMT DEF RegionInv, RegionTypeOK, UnlinksOwn, NameKept, UsedByOthers
    <2> QED BY <2>1, <2>2
  <1>7. NamedInv'
    BY <1>1, <1>2, <1>3, SMT DEF RegionInv, RegionTypeOK, HoldInv, UnlinksOwn, NamedInv, NameKept, UsedByOthers
  <1>8. SizedInv'
    BY <1>1, SMT DEF RegionInv, RegionTypeOK, SizedInv
  <1> QED BY <1>4, <1>5, <1>6, <1>7, <1>8 DEF RegionInv

LEMMA KillKeeps ==
  ASSUME RegionInv, NEW p \in Process, Kill(p)
  PROVE  RegionInv'
  <1>1. /\ region' = [region EXCEPT ![p] = 0]
        /\ creator' = creator \ {p}
        /\ pc' = [pc EXCEPT ![p] = "away"]
        /\ UNCHANGED <<unix, memory, sized, unlinked>>
        /\ troubles < MaxTroubles /\ troubles' = troubles + 1
        /\ name' = IF unix THEN name ELSE NameKept(p)
        /\ seen' \in {seen, NoSnapshot}
    BY DEF Kill, Leave, Forget
  <1>2. RegionTypeOK'
    <2>1. name' \in 0..Len(memory')
      BY <1>1 DEF RegionInv, RegionTypeOK, NameKept
    <2>2. troubles' \in 0..MaxTroubles
      BY <1>1, RegionAssumption DEF RegionInv, RegionTypeOK
    <2>3. region' \in [Process -> 0..Len(memory')]
      BY <1>1 DEF RegionInv, RegionTypeOK
    <2> QED BY <1>1, <2>1, <2>2, <2>3 DEF RegionInv, RegionTypeOK, Region
  <1>3. HoldInv' /\ SizedInv'
    BY <1>1, SMT DEF RegionInv, RegionTypeOK, HoldInv, SizedInv
  <1>4. UnlinksOwn' /\ NamedInv'
    BY <1>1, SMT DEF RegionInv, RegionTypeOK, HoldInv, UnlinksOwn, NamedInv, NameKept, UsedByOthers
  <1> QED BY <1>2, <1>3, <1>4 DEF RegionInv

(* Using the region changes neither who has it nor what the name stands for. *)
LEMMA WriteKeeps ==
  ASSUME RegionInv, NEW s \in Snapshot, Write(s)
  PROVE  RegionInv'
  <1>1. region[Writer] \in 1..Len(memory)
    BY RegionAssumption, SMT DEF RegionInv, RegionTypeOK, HoldInv, Write
  <1>2. memory' \in Seq(Snapshot \cup {NoSnapshot}) /\ Len(memory') = Len(memory)
    BY <1>1 DEF RegionInv, RegionTypeOK, Write
  <1> QED BY <1>2 DEF RegionInv, RegionTypeOK, HoldInv, UnlinksOwn, NamedInv, SizedInv,
             Region, Write, processVars

LEMMA ReadKeeps ==
  ASSUME RegionInv, Read
  PROVE  RegionInv'
  <1>1. region[Reader] \in 1..Len(memory)
    BY RegionAssumption, SMT DEF RegionInv, RegionTypeOK, HoldInv, Read
  <1>2. seen' \in Snapshot \cup {NoSnapshot}
    BY <1>1 DEF RegionInv, RegionTypeOK, Read, Slot
  <1> QED BY <1>2 DEF RegionInv, RegionTypeOK, HoldInv, UnlinksOwn, NamedInv, SizedInv,
             Region, Read, processVars

LEMMA RegionStep == RegionInv /\ [RegionNext]_regionVars => RegionInv'
  <1> SUFFICES ASSUME RegionInv, [RegionNext]_regionVars PROVE RegionInv'
    OBVIOUS
  <1>1. CASE UNCHANGED regionVars
    BY <1>1 DEF RegionInv, RegionTypeOK, HoldInv, UnlinksOwn, NamedInv, SizedInv, Region,
       regionVars, processVars
  <1>2. ASSUME NEW p \in Process, Opening(p) PROVE RegionInv'
    BY <1>2, CreateKeeps, OpenKeeps, CreateFileMappingKeeps, MovesKeep DEF Opening
  <1>3. ASSUME NEW p \in Process, OpenFails(p) PROVE RegionInv'
    BY <1>3, DropKeeps DEF OpenFails, TriesAgain, RegionInv, RegionTypeOK
  <1>4. ASSUME NEW p \in Process, End(p) PROVE RegionInv'
    BY <1>4, DropKeeps DEF End, Forget, RegionInv, RegionTypeOK
  <1>5. ASSUME NEW p \in Process, Kill(p) PROVE RegionInv'
    BY <1>5, KillKeeps
  <1>6. ASSUME NEW s \in Snapshot, Write(s) PROVE RegionInv'
    BY <1>6, WriteKeeps
  <1>7. CASE Read
    BY <1>7, ReadKeeps
  <1> QED BY <1>1, <1>2, <1>3, <1>4, <1>5, <1>6, <1>7 DEF RegionNext, Ending

(* The inductive invariant of the region, for any number of processes:     *)
(* what each process holds and has created, which names and regions are    *)
(* in use, and which regions have their size.                              *)
THEOREM RegionInvariance == RegionSpec => []RegionInv
  BY RegionInitial, RegionStep, PTL DEF RegionSpec

-----------------------------------------------------------------------------
(* The region under aster-sysinfo and asterctl.                            *)

\* A snapshot that is not written yet has been collected.
CountInv == sequence <= rounds /\ (wpc = "write" => sequence < rounds)

SysinfoInv == RegionInv /\ TypeOK /\ CountInv /\ SensorsOfThisRound

(* The choice is one of the interfaces reported, or none.                  *)
LEMMA ChoiceIsReported ==
  ASSUME NEW s \in Reports
  PROVE  SelectNetworkCandidate(s).name \in Interface \cup {0}
  <1>1. \A i \in DOMAIN s : s[i] \in Candidate(Interface)
    BY DEF Reports, Lists
  <1>2. CASE SelectNetworkCandidate(s) = None
    BY <1>2 DEF None
  <1>3. CASE SelectNetworkCandidate(s) # None
    <2>1. PICK i \in DOMAIN s : SelectNetworkCandidate(s) = s[i]
      BY <1>3, Zenon DEF SelectNetworkCandidate
    <2> QED BY <1>1, <2>1 DEF Candidate
  <1> QED BY <1>2, <1>3

(* update_sensors leaves nothing of an earlier round but temperatures.     *)
LEMMA RefreshKeeps ==
  ASSUME SysinfoInv, NEW temperature \in BOOLEAN, NEW gpu \in BOOLEAN,
         NEW interfaces \in Reports, Refresh(temperature, gpu, interfaces)
  PROVE  SysinfoInv'
  <1> DEFINE chosen == SelectNetworkCandidate(interfaces)
             now == [round |-> rounds + 1, of |-> 0]
             named == [round |-> rounds + 1, of |-> chosen.name]
  <1>1. chosen.name \in Interface \cup {0}
    BY ChoiceIsReported
  <1>2. rounds' = rounds + 1 /\ rounds' \in 1..MaxRounds /\ rounds \in 0..MaxRounds
    BY SysinfoAssumption DEF Refresh, SysinfoInv, TypeOK
  <1> HIDE DEF chosen
  <1>3. now \in Value /\ named \in Value /\ Missing \in Value
    BY <1>1, <1>2, SysinfoAssumption DEF Value, Missing
  <1>4. now.round = rounds' /\ named.round = rounds' /\ named.of = chosen.name
    BY <1>2
  <1> HIDE DEF now, named
  <1> DEFINE common == With(sensors, {"cpu_usage_percent"}, now)
             heated == UpdateTemperature(common, temperature)
             drawn == UpdateGpu(heated, gpu)
  <1>5. sensors' = UpdateNetwork(drawn, chosen)
    BY DEF Refresh, UpdateSensors, UpdateCommon, now, chosen
  <1> HIDE DEF now, named
  <1>6. common \in [Label -> Value] /\ common["cpu_usage_percent"] = now
    BY <1>3 DEF With, SysinfoInv, TypeOK, Label
  <1>7. heated \in [Label -> Value] /\ heated["cpu_usage_percent"] = now
    BY <1>3, <1>6 DEF UpdateTemperature, With, Label, now
  <1> HIDE DEF common
  <1>8. /\ drawn \in [Label -> Value] /\ drawn["cpu_usage_percent"] = now
        /\ drawn["gpu_core"] \in {Missing, now}
    BY <1>3, <1>7 DEF UpdateGpu, With, Without, Label, now
  <1> HIDE DEF heated
  <1>9. /\ sensors' \in [Label -> Value] /\ sensors'["cpu_usage_percent"] = now
        /\ sensors'["gpu_core"] \in {Missing, now}
        /\ \A k \in NetworkLabel : sensors'[k] \in {Missing, named}
    BY <1>3, <1>5, <1>8 DEF UpdateNetwork, With, Without, Label, NetworkLabel, named
  <1> HIDE DEF drawn
  <1>10. TypeOK' /\ CountInv'
    BY <1>2, <1>9 DEF Refresh, SysinfoInv, TypeOK, CountInv, regionVars, processVars, readerVars,
       RegionTypeOK, Region
  <1>11. SensorsOfThisRound'
    BY <1>4, <1>9 DEF SensorsOfThisRound, Label, NetworkLabel
  <1>12. RegionInv'
    BY DEF Refresh, SysinfoInv, RegionInv, RegionTypeOK, HoldInv, UnlinksOwn, NamedInv, SizedInv,
       Region, regionVars, processVars
  <1> QED BY <1>10, <1>11, <1>12 DEF SysinfoInv

LEMMA WriteSnapshotKeeps ==
  ASSUME SysinfoInv, WriteSnapshot
  PROVE  SysinfoInv' /\ \E s \in Snapshot : Write(s)
  <1> DEFINE s == [seq |-> sequence + 1, map |-> sensors]
  <1>1. sequence + 1 \in 1..MaxRounds /\ sequence + 1 <= rounds
    BY SysinfoAssumption DEF WriteSnapshot, SysinfoInv, TypeOK, CountInv
  <1>2. s \in Snapshot
    BY <1>1, SnapshotAssumption DEF SysinfoInv, TypeOK, SensorSnapshot
  <1>3. Write(s)
    BY DEF WriteSnapshot
  <1>4. RegionInv'
    BY <1>2, <1>3, WriteKeeps DEF SysinfoInv
  <1> HIDE DEF s
  <1>5. TypeOK' /\ CountInv' /\ SensorsOfThisRound'
    BY <1>1, <1>4, SMT DEF WriteSnapshot, SysinfoInv, TypeOK, CountInv, SensorsOfThisRound,
       readerVars, RegionInv
  <1> QED BY <1>2, <1>3, <1>4, <1>5 DEF SysinfoInv

LEMMA WriterEndsKeeps ==
  ASSUME SysinfoInv, WriterEnds
  PROVE  SysinfoInv'
  <1>1. RegionInv'
    BY RegionStep, RegionAssumption DEF WriterEnds, SysinfoInv, RegionNext
  <1>2. NoValues \in [Label -> Value] /\ \A k \in Label : NoValues[k] = Missing
    BY SysinfoAssumption DEF NoValues, Missing, Value
  <1>3. TypeOK' /\ CountInv' /\ SensorsOfThisRound'
    BY <1>1, <1>2, SysinfoAssumption DEF WriterEnds, SysinfoInv, TypeOK, CountInv,
       SensorsOfThisRound, readerVars, RegionInv, Label, NetworkLabel
  <1> QED BY <1>1, <1>3 DEF SysinfoInv

LEMMA UpdateKeeps ==
  ASSUME SysinfoInv, Update
  PROVE  SysinfoInv'
  <1>1. RegionInv'
    BY RegionStep DEF Update, SysinfoInv, RegionNext
  <1>2. Slot \in SensorSnapshot
    <2>1. region[Reader] \in 1..Len(memory) /\ Slot # NoSnapshot
      BY RegionAssumption, SMT DEF SysinfoInv, RegionInv, RegionTypeOK, HoldInv, Update, Read
    <2> QED BY <2>1, SnapshotAssumption DEF SysinfoInv, RegionInv, RegionTypeOK, Slot
  <1>3. values' \in [Label -> Value] /\ lastSeq' \in 0..MaxRounds
    BY <1>2 DEF Update, Inserted, SensorSnapshot, SysinfoInv, TypeOK, readerVars
  <1>4. TypeOK' /\ CountInv' /\ SensorsOfThisRound'
    BY <1>1, <1>3 DEF Update, SysinfoInv, TypeOK, CountInv, SensorsOfThisRound, writerVars, RegionInv
  <1> QED BY <1>1, <1>4 DEF SysinfoInv

LEMMA ReaderEndsKeeps ==
  ASSUME SysinfoInv, ReaderEnds
  PROVE  SysinfoInv'
  <1>1. RegionInv'
    BY RegionStep, RegionAssumption DEF ReaderEnds, SysinfoInv, RegionNext, Ending
  <1>2. NoValues \in [Label -> Value]
    BY SysinfoAssumption DEF NoValues, Missing, Value
  <1>3. TypeOK' /\ CountInv' /\ SensorsOfThisRound'
    BY <1>1, <1>2, SysinfoAssumption DEF ReaderEnds, SysinfoInv, TypeOK, CountInv,
       SensorsOfThisRound, writerVars, readerVars, RegionInv
  <1> QED BY <1>1, <1>3 DEF SysinfoInv

LEMMA SysinfoInitial == Init => SysinfoInv
  <1> SUFFICES ASSUME Init PROVE SysinfoInv
    OBVIOUS
  <1>1. RegionInv
    BY RegionInitial DEF Init
  <1>2. NoValues \in [Label -> Value] /\ \A k \in Label : NoValues[k] = Missing
    BY SysinfoAssumption DEF NoValues, Missing, Value
  <1>3. TypeOK /\ CountInv
    BY <1>1, <1>2, SysinfoAssumption DEF Init, TypeOK, CountInv, RegionInv
  <1>4. SensorsOfThisRound
    BY <1>2 DEF Init, SensorsOfThisRound, NetworkLabel, Label
  <1> QED BY <1>1, <1>3, <1>4 DEF SysinfoInv

LEMMA OpenStepKeeps ==
  ASSUME SysinfoInv, NEW p \in Process, Open(p)
  PROVE  SysinfoInv'
  <1>1. RegionInv'
    BY RegionStep DEF Open, SysinfoInv, RegionNext
  <1> QED BY <1>1 DEF Open, SysinfoInv, TypeOK, CountInv, SensorsOfThisRound, writerVars,
             readerVars, RegionInv

LEMMA SysinfoStep == SysinfoInv /\ [Next]_vars => SysinfoInv' /\ [RegionNext]_regionVars
  <1> SUFFICES ASSUME SysinfoInv, [Next]_vars PROVE SysinfoInv' /\ [RegionNext]_regionVars
    OBVIOUS
  <1>1. CASE UNCHANGED vars
    BY <1>1 DEF vars, SysinfoInv, TypeOK, CountInv, SensorsOfThisRound, writerVars, readerVars,
       RegionInv, RegionTypeOK, HoldInv, UnlinksOwn, NamedInv, SizedInv, Region, regionVars, processVars
  <1>2. ASSUME NEW p \in Process, Open(p) PROVE SysinfoInv' /\ RegionNext
    BY <1>2, OpenStepKeeps DEF Open, RegionNext
  <1>3. ASSUME NEW temperature \in BOOLEAN, NEW gpu \in BOOLEAN, NEW interfaces \in Reports,
               Refresh(temperature, gpu, interfaces)
        PROVE  SysinfoInv' /\ UNCHANGED regionVars
    BY <1>3, RefreshKeeps DEF Refresh
  <1>4. CASE WriteSnapshot
    BY <1>4, WriteSnapshotKeeps DEF RegionNext
  <1>5. CASE WriterEnds
    BY <1>5, WriterEndsKeeps, RegionAssumption DEF WriterEnds, RegionNext
  <1>6. CASE Update
    BY <1>6, UpdateKeeps DEF Update, RegionNext
  <1>7. CASE ReaderEnds
    BY <1>7, ReaderEndsKeeps, RegionAssumption DEF ReaderEnds, RegionNext, Ending
  <1> QED BY <1>1, <1>2, <1>3, <1>4, <1>5, <1>6, <1>7 DEF Next

(* The inductive invariant of the composition: the region's, the types, and *)
(* of which round the collected and the stored values are.                 *)
THEOREM SysinfoInvariance == Spec => []SysinfoInv
  BY SysinfoInitial, SysinfoStep, PTL DEF Spec

(* Every behaviour of aster-sysinfo and asterctl is one of the region: what *)
(* holds for it holds under them.                                          *)
THEOREM SysinfoImplementsRegion == Spec => RegionSpec
  <1>1. Init => RegionInit
    BY DEF Init
  <1> QED BY <1>1, SysinfoStep, SysinfoInvariance, PTL DEF Spec, RegionSpec

(* The region, aster-sysinfo and asterctl keep their types, for any number *)
(* of rounds, interfaces, failures and ends.                               *)
THEOREM TypeCorrect == Spec => []TypeOK
  BY SysinfoInvariance, PTL DEF SysinfoInv

(* No process ever unlinks the name of a region that is not its own.       *)
THEOREM UnlinksOnlyOwn == RegionSpec => []UnlinksOwn
  BY RegionInvariance, PTL DEF RegionInv

(* Whoever maps a region may touch all of it, whoever created it.          *)
THEOREM MappedHasItsSize == RegionSpec => []MappedIsSized
  <1>1. RegionInv => MappedIsSized
    BY DEF RegionInv, SizedInv, MappedIsSized
  <1> QED BY <1>1, RegionInvariance, PTL

(* All that hold a region hold the same one, unless it was unlinked under  *)
(* one of them; for any number of processes.                               *)
THEOREM RegionIsShared == RegionSpec => []SharedUnlessUnlinked
  <1>1. RegionInv => SharedUnlessUnlinked
    BY DEF RegionInv, NamedInv, SharedUnlessUnlinked
  <1> QED BY <1>1, RegionInvariance, PTL

(* What aster-sysinfo sends of the network and the GPU is of this round.   *)
THEOREM SendsThisRound == Spec => []SensorsOfThisRound
  BY SysinfoInvariance, PTL DEF SysinfoInv

-----------------------------------------------------------------------------
(* The region as a register.                                               *)

(* The newest snapshot under the name, and the one that asterctl took over *)
(* last, each known by the round it was collected in.                      *)
Written(r) == r # 0 /\ memory[r] # NoSnapshot

RoundOf(map) == map["cpu_usage_percent"].round

Newest == [id |-> IF Written(name) THEN RoundOf(memory[name].map) ELSE 0, len |-> 0]

Taken == [id |-> RoundOf(values), len |-> 0]

Register == INSTANCE SnapshotSlot
  WITH MaxPayload <- 0, MaxWrites <- MaxRounds, published <- Newest, delivered <- Taken

\* The region keeps its name once it has one, and asterctl goes on once it has opened the region.
Steady ==
  /\ name # 0 => name' = name
  /\ pc[Reader] = "ready" => pc'[Reader] = "ready"

(* What is collected is newer than all that is written, also by earlier    *)
(* lives of aster-sysinfo; a provider without region has no values.        *)
WrittenInv ==
  /\ \A r \in Region : memory[r] # NoSnapshot =>
       /\ RoundOf(memory[r].map) \in 1..rounds
       /\ wpc = "write" => RoundOf(memory[r].map) < rounds
  /\ wpc = "write" => RoundOf(sensors) = rounds
  /\ pc[Reader] # "ready" => values = NoValues

\* Opening leaves what the name stands for, and a new region is not written.
LEMMA OpeningKeepsNewest ==
  ASSUME SysinfoInv, NEW p \in Process, Open(p)
  PROVE  /\ Newest' = Newest
         /\ \A r \in Region' : memory'[r] = NoSnapshot \/ (r \in Region /\ memory'[r] = memory[r])
         /\ pc'[Reader] # "ready" => pc[Reader] # "ready"
  <1>1. memory \in Seq(Snapshot \cup {NoSnapshot}) /\ Len(memory) \in Nat /\ name \in 0..Len(memory)
    BY DEF SysinfoInv, RegionInv, RegionTypeOK
  <1>2. pc'[Reader] # "ready" => pc[Reader] # "ready"
    BY RegionAssumption DEF Open, Opening, CreateExclusive, AlreadyExists, OpenExisting, OpenGone,
       Truncate, CreateFileMapping, Map, Create, Take, SysinfoInv, RegionInv, RegionTypeOK
  <1>3. \/ name' = name /\ memory' = memory
        \/ name = 0 /\ name' = Len(memory) + 1 /\ memory' = Append(memory, NoSnapshot)
    BY DEF Open, Opening, CreateExclusive, AlreadyExists, OpenExisting, OpenGone,
       Truncate, CreateFileMapping, Map, Create, Take
  <1>4. CASE name' = name /\ memory' = memory
    BY <1>2, <1>4 DEF Newest, Written, RoundOf, Region
  <1>5. CASE name = 0 /\ name' = Len(memory) + 1 /\ memory' = Append(memory, NoSnapshot)
    <2>1. /\ Len(memory') = Len(memory) + 1 /\ memory'[name'] = NoSnapshot
          /\ \A r \in 1..Len(memory) : memory'[r] = memory[r]
      BY <1>1, <1>5
    <2>2. ~Written(name) /\ ~Written(name)'
      BY <1>5, <2>1 DEF Written
    <2>3. Newest' = Newest
      BY <2>2 DEF Newest
    <2> QED BY <1>1, <1>2, <1>5, <2>1, <2>3 DEF Region
  <1> QED BY <1>3, <1>4, <1>5

\* Every round has this label.
LEMMA RefreshDates ==
  ASSUME SysinfoInv, NEW temperature \in BOOLEAN, NEW gpu \in BOOLEAN,
         NEW interfaces \in Reports, Refresh(temperature, gpu, interfaces)
  PROVE  RoundOf(sensors') = rounds'
  <1> DEFINE common == UpdateCommon(sensors)
             heated == UpdateTemperature(common, temperature)
             drawn == UpdateGpu(heated, gpu)
  <1>1. RoundOf(common) = rounds + 1
    BY DEF UpdateCommon, With, RoundOf, Label
  <1>2. RoundOf(heated) = RoundOf(common)
    BY DEF UpdateTemperature, UpdateCommon, With, RoundOf, Label
  <1> HIDE DEF common
  <1>3. RoundOf(drawn) = RoundOf(heated)
    BY DEF UpdateGpu, With, Without, RoundOf, Label
  <1>4. sensors' = UpdateNetwork(drawn, SelectNetworkCandidate(interfaces)) /\ rounds' = rounds + 1
    BY DEF Refresh, UpdateSensors, common
  <1> HIDE DEF heated, drawn
  <1>5. RoundOf(sensors') = RoundOf(drawn)
    BY <1>4 DEF UpdateNetwork, With, Without, RoundOf, Label, NetworkLabel
  <1> QED BY <1>1, <1>2, <1>3, <1>4, <1>5

LEMMA WriterWrites ==
  ASSUME SysinfoInv, WriteSnapshot
  PROVE  /\ region[Writer] \in Region
         /\ memory' = [memory EXCEPT ![region[Writer]] = [seq |-> sequence + 1, map |-> sensors]]
         /\ Len(memory') = Len(memory)
         /\ rounds \in 1..MaxRounds
         /\ UNCHANGED <<name, region, pc, values, rounds, unlinked>> /\ wpc = "write" /\ wpc' = "refresh"
  <1>1. region[Writer] \in Region
    BY RegionAssumption, SMT
       DEF WriteSnapshot, Write, SysinfoInv, RegionInv, RegionTypeOK, HoldInv, Region
  <1>2. memory \in Seq(Snapshot \cup {NoSnapshot})
    BY DEF SysinfoInv, RegionInv, RegionTypeOK
  <1>3. memory' = [memory EXCEPT ![region[Writer]] = [seq |-> sequence + 1, map |-> sensors]]
    BY DEF WriteSnapshot, Write
  <1>4. Len(memory') = Len(memory)
    BY <1>2, <1>3
  <1>5. rounds \in 1..MaxRounds
    BY SysinfoAssumption DEF WriteSnapshot, SysinfoInv, TypeOK, CountInv
  <1> QED BY <1>1, <1>3, <1>4, <1>5 DEF WriteSnapshot, Write, processVars, readerVars

LEMMA WrittenInitial == Init => WrittenInv
  <1> SUFFICES ASSUME Init PROVE WrittenInv
    OBVIOUS
  <1>1. Region = {} /\ wpc = "refresh" /\ values = NoValues
    BY DEF Init, RegionInit, Region
  <1> QED BY <1>1 DEF WrittenInv

LEMMA WrittenStep ==
  ASSUME SysinfoInv, WrittenInv, [Next]_vars
  PROVE  WrittenInv'
  <1>0. rounds \in Nat /\ memory \in Seq(Snapshot \cup {NoSnapshot})
    BY SysinfoAssumption DEF SysinfoInv, TypeOK, RegionInv, RegionTypeOK
  <1>1. CASE UNCHANGED vars
    BY <1>1 DEF vars, WrittenInv, writerVars, readerVars, regionVars, processVars, Region, RoundOf
  <1>2. ASSUME NEW p \in Process, Open(p) PROVE WrittenInv'
    <2>1. UNCHANGED <<writerVars, readerVars>>
      BY <1>2 DEF Open
    <2> QED BY <1>2, <2>1, OpeningKeepsNewest
            DEF WrittenInv, RoundOf, writerVars, readerVars
  <1>3. ASSUME NEW temperature \in BOOLEAN, NEW gpu \in BOOLEAN, NEW interfaces \in Reports,
               Refresh(temperature, gpu, interfaces)
        PROVE  WrittenInv'
    <2>1. /\ UNCHANGED <<memory, pc, values>> /\ rounds' = rounds + 1
          /\ RoundOf(sensors') = rounds'
      BY <1>3, RefreshDates DEF Refresh, regionVars, processVars, readerVars
    <2>2. \A r \in Region : memory[r] # NoSnapshot => RoundOf(memory[r].map) \in 1..rounds
      BY DEF WrittenInv
    <2>3. \A r \in Region : memory[r] # NoSnapshot =>
            RoundOf(memory[r].map) \in 1..rounds' /\ RoundOf(memory[r].map) < rounds'
      BY <1>0, <2>1, <2>2
    <2>4. pc[Reader] # "ready" => values = NoValues
      BY DEF WrittenInv
    <2> QED BY <2>1, <2>3, <2>4 DEF WrittenInv, Region, RoundOf
  <1>4. CASE WriteSnapshot
    <2>1. RoundOf(sensors) = rounds
      BY <1>4 DEF WriteSnapshot, WrittenInv
    <2>2. ASSUME NEW r \in Region, memory'[r] # NoSnapshot
          PROVE  RoundOf(memory'[r].map) \in 1..rounds
      <3>1. CASE r = region[Writer]
        <4>1. memory'[r].map = sensors
          BY <1>0, <1>4, <3>1, WriterWrites DEF Region
        <4> QED BY <1>4, <2>1, <4>1, WriterWrites
      <3>2. CASE r # region[Writer]
        <4>1. memory'[r] = memory[r]
          BY <1>0, <1>4, <3>2, WriterWrites DEF Region
        <4> QED BY <2>2, <4>1 DEF WrittenInv
      <3> QED BY <3>1, <3>2
    <2>3. pc[Reader] # "ready" => values = NoValues
      BY DEF WrittenInv
    <2> QED BY <1>4, <2>2, <2>3, WriterWrites DEF WrittenInv, Region, RoundOf
  <1>5. CASE WriterEnds
    <2>1. UNCHANGED <<memory, values, rounds>> /\ wpc' = "refresh"
      BY <1>5 DEF WriterEnds, Ending, OpenFails, End, Kill, Drop, Leave, readerVars
    <2>2. pc'[Reader] = pc[Reader]
      BY <1>5, RegionAssumption DEF WriterEnds, Ending, OpenFails, End, Kill,
         SysinfoInv, RegionInv, RegionTypeOK
    <2> QED BY <2>1, <2>2 DEF WrittenInv, Region, RoundOf
  <1>6. CASE Update
    BY <1>6 DEF Update, Read, WrittenInv, Region, RoundOf, writerVars, processVars
  <1>7. CASE ReaderEnds
    <2>1. UNCHANGED <<memory, writerVars>>
      BY <1>7 DEF ReaderEnds, OpenFails, End, Kill, Drop, Leave
    <2>2. values' = NoValues
      BY <1>7 DEF ReaderEnds, OpenFails, WrittenInv, readerVars
    <2> QED BY <2>1, <2>2 DEF WrittenInv, Region, RoundOf, writerVars
  <1> QED BY <1>1, <1>2, <1>3, <1>4, <1>5, <1>6, <1>7 DEF Next

\* A name that stays is never taken from a region in use.
LEMMA SteadyNotUnlinked ==
  ASSUME SysinfoInv, ~unlinked, [Next]_vars, [Steady]_vars
  PROVE  ~unlinked'
  <1>1. CASE UNCHANGED vars
    BY <1>1 DEF vars, regionVars
  <1>2. CASE Next /\ Steady
    <2>1. CASE \E p \in Process : Drop(p)
      <3>1. PICK p \in Process : Drop(p)
        BY <2>1
      <3>2. p \in creator => name # 0
        BY DEF SysinfoInv, RegionInv, UnlinksOwn
      <3> QED BY <1>2, <3>1, <3>2 DEF Drop, Steady
    <2>2. CASE UNCHANGED unlinked
      BY <2>2
    <2>3. (\E p \in Process : Drop(p)) \/ UNCHANGED unlinked
      BY <1>2, RegionAssumption
         DEF Next, Open, Opening, CreateExclusive, AlreadyExists, OpenExisting, OpenGone, Truncate,
             CreateFileMapping, Map, Refresh, WriteSnapshot, Write, WriterEnds, Ending, OpenFails,
             End, Kill, Update, Read, ReaderEnds, regionVars
    <2> QED BY <2>1, <2>2, <2>3
  <1> QED BY <1>1, <1>2

LEMMA RegisterInitial == Init => Register!Init
  <1> SUFFICES ASSUME Init PROVE Register!Init
    OBVIOUS
  <1>1. name = 0 /\ RoundOf(values) = 0
    BY DEF Init, RegionInit, NoValues, RoundOf, Missing, Label
  <1> QED BY <1>1 DEF Register!Init, Register!Unwritten, Newest, Taken, Written

LEMMA RegisterStep ==
  ASSUME SysinfoInv, WrittenInv, ~unlinked, ~unlinked', Next, Steady
  PROVE  [Register!Next]_(Register!vars)
  <1> DEFINE Same == Newest' = Newest /\ Taken' = Taken
  <1>0. /\ rounds \in 0..MaxRounds /\ MaxRounds \in Nat /\ name \in 0..Len(memory)
        /\ memory \in Seq(Snapshot \cup {NoSnapshot})
    BY SysinfoAssumption DEF SysinfoInv, TypeOK, RegionInv, RegionTypeOK
  <1>1. ASSUME Same PROVE [Register!Next]_(Register!vars)
    BY <1>1 DEF Register!vars
  <1>2. ASSUME UNCHANGED <<memory, values>>, name' = name \/ (name = 0 /\ ~Written(name)')
        PROVE  Same
    <2>1. Newest' = Newest
      BY <1>2 DEF Newest, Written, RoundOf
    <2>2. Taken' = Taken
      BY <1>2 DEF Taken, RoundOf
    <2> QED BY <2>1, <2>2
  <1>3. ASSUME NEW p \in Process, Open(p) PROVE Same
    <2>1. Newest' = Newest
      BY <1>3, OpeningKeepsNewest
    <2>2. Taken' = Taken
      BY <1>3 DEF Open, readerVars, Taken, RoundOf
    <2> QED BY <2>1, <2>2
  <1>4. ASSUME NEW temperature \in BOOLEAN, NEW gpu \in BOOLEAN, NEW interfaces \in Reports,
               Refresh(temperature, gpu, interfaces)
        PROVE  Same
    BY <1>2, <1>4 DEF Refresh, regionVars, readerVars
  <1>5. CASE WriteSnapshot
    <2>1. region[Writer] = name /\ name # 0 /\ name' = name
      BY <1>5, WriterWrites, RegionAssumption, <1>0 DEF SysinfoInv, RegionInv, NamedInv, Region
    <2>2. memory'[name] = [seq |-> sequence + 1, map |-> sensors]
      BY <1>0, <1>5, <2>1, WriterWrites DEF Region
    <2>3. memory'[name] # NoSnapshot
      <3>1. sequence + 1 \in 1..MaxRounds /\ sensors \in [Label -> Value]
        BY <1>5, SysinfoAssumption DEF WriteSnapshot, SysinfoInv, TypeOK, CountInv
      <3> QED BY <2>2, <3>1, SnapshotAssumption, RegionAssumption DEF SensorSnapshot
    <2>4. RoundOf(memory'[name].map) = rounds
      BY <1>5, <2>2 DEF WriteSnapshot, WrittenInv
    <2>5. Newest' = [id |-> rounds, len |-> 0]
      BY <2>1, <2>3, <2>4 DEF Newest, Written, RoundOf
    <2>6. Newest.id < rounds
      <3>1. CASE Written(name)
        BY <1>0, <1>5, <3>1 DEF Newest, Written, WriteSnapshot, WrittenInv, Region
      <3>2. CASE ~Written(name)
        BY <1>5, <3>2, WriterWrites DEF Newest
      <3> QED BY <3>1, <3>2
    <2>7. Newest' \in Register!Snapshot
      BY <1>0, <2>5 DEF Register!Snapshot
    <2>8. Taken' = Taken
      BY <1>5, WriterWrites DEF Taken, RoundOf
    <2> HIDE DEF Same
    <2>9. Newest'.id > Newest.id
      BY <1>0, <2>5, <2>6 DEF Newest
    <2>10. Register!Publish
      BY <2>7, <2>8, <2>9 DEF Register!Publish
    <2> QED BY <2>10 DEF Register!Next
  <1>6. CASE WriterEnds
    <2>1. UNCHANGED <<memory, values>> /\ name' \in {name, 0}
      BY <1>6 DEF WriterEnds, Ending, OpenFails, End, Kill, Drop, Leave, NameKept, readerVars
    <2>2. name' = name
      BY <2>1 DEF Steady
    <2> QED BY <1>1, <1>2, <2>1, <2>2
  <1>7. CASE Update
    <2>1. /\ region[Reader] = name /\ name \in Region
          /\ Slot # NoSnapshot /\ UNCHANGED <<name, memory>>
      <3>1. region[Reader] # 0
        BY <1>7, RegionAssumption DEF Update, Read, SysinfoInv, RegionInv, HoldInv
      <3> QED BY <1>0, <1>7, <3>1, RegionAssumption
              DEF Update, Read, SysinfoInv, RegionInv, NamedInv, Region
    <2>2. Newest' = Newest
      BY <2>1 DEF Newest, Written, RoundOf
    <2>3. Slot = memory[name] /\ RoundOf(Slot.map) \in 1..rounds
      BY <2>1 DEF Slot, WrittenInv
    <2>4. Newest = [id |-> RoundOf(Slot.map), len |-> 0]
      BY <1>0, <2>1, <2>3 DEF Newest, Written, Region
    <2>5. CASE IsNew(Slot.seq)
      <3>1. values' = Inserted(Slot.map)
        BY <1>7, <2>5 DEF Update
      <3>2. RoundOf(values') = RoundOf(Slot.map)
        <4>1. Slot.map["cpu_usage_percent"] # Missing
          BY <1>0, <2>3 DEF RoundOf, Missing
        <4> QED BY <3>1, <4>1 DEF Inserted, RoundOf, Label
      <3>3. Taken' = Newest
        BY <2>4, <3>2 DEF Taken, RoundOf
      <3>4. Newest # Register!Unwritten
        BY <1>0, <2>3, <2>4 DEF Register!Unwritten
      <3> QED BY <2>2, <3>3, <3>4 DEF Register!Next, Register!Deliver
    <2>6. CASE ~IsNew(Slot.seq)
      <3>1. values' = values
        BY <1>7, <2>6 DEF Update, readerVars
      <3> QED BY <1>1, <2>2, <3>1 DEF Taken, RoundOf
    <2> QED BY <2>5, <2>6
  <1>8. CASE ReaderEnds
    <2>1. UNCHANGED memory /\ name' \in {name, 0}
      BY <1>8 DEF ReaderEnds, OpenFails, End, Kill, Drop, Leave, NameKept
    <2>2. name' = name
      BY <2>1 DEF Steady
    <2>3. values' = values
      <3>1. CASE OpenFails(Reader) /\ UNCHANGED readerVars
        BY <3>1 DEF readerVars
      <3>2. CASE (End(Reader) \/ Kill(Reader)) /\ values' = NoValues
        <4>1. pc'[Reader] # "ready"
          BY <3>2, RegionAssumption DEF End, Kill, SysinfoInv, RegionInv, RegionTypeOK
        <4>2. values = NoValues
          BY <4>1 DEF Steady, WrittenInv
        <4> QED BY <3>2, <4>2
      <3> QED BY <1>8, <3>1, <3>2 DEF ReaderEnds
    <2> QED BY <1>1, <1>2, <2>1, <2>2, <2>3
  <1> QED BY <1>1, <1>3, <1>4, <1>5, <1>6, <1>7, <1>8 DEF Next

(* shm.rs and main.rs with region.rs: while the region keeps its name and  *)
(* asterctl goes on, the values asterctl shows of a provider follow the    *)
(* newest snapshot as a register's reader would - none is older than one   *)
(* already shown - although aster-sysinfo may be killed or end, start      *)
(* again with its sequence at one, and fail to open the region, as often   *)
(* as it likes.                                                            *)
THEOREM SysinfoImplementsRegister == Spec /\ [][Steady]_vars => Register!Spec
  <1>1. Init => ~unlinked
    BY DEF Init, RegionInit
  <1>2. SysinfoInv /\ ~unlinked /\ [Next]_vars /\ [Steady]_vars => ~unlinked'
    BY SteadyNotUnlinked
  <1>3. SysinfoInv /\ WrittenInv /\ [Next]_vars => WrittenInv'
    BY WrittenStep
  <1>4. SysinfoInv /\ WrittenInv /\ ~unlinked /\ ~unlinked' /\ [Next]_vars /\ [Steady]_vars
          => [Register!Next]_(Register!vars)
    <2> SUFFICES ASSUME SysinfoInv, WrittenInv, ~unlinked, ~unlinked', [Next]_vars, [Steady]_vars
                 PROVE  [Register!Next]_(Register!vars)
      OBVIOUS
    <2>1. CASE UNCHANGED vars
      BY <2>1 DEF vars, regionVars, readerVars, Register!vars, Newest, Taken, Written, RoundOf
    <2>2. CASE Next /\ Steady
      BY <2>2, RegisterStep
    <2> QED BY <2>1, <2>2
  <1> QED BY <1>1, <1>2, <1>3, <1>4, RegisterInitial, WrittenInitial, SysinfoInvariance, PTL
          DEF Spec, Register!Spec

-----------------------------------------------------------------------------
(* The choice of the interface.                                            *)

(* A set of numbers that is not empty has a least element.                 *)
LEMMA LeastElement ==
  ASSUME NEW S \in SUBSET Nat, S # {}
  PROVE  \E m \in S : \A n \in S : m <= n
  <1>1. PICK m \in S : \A n \in S : ~(<<n, m>> \in OpToRel(<, Nat))
    BY NatLessThanWellFounded, WFMin, Zenon
  <1>2. ASSUME NEW n \in S PROVE m <= n
    <2>1. n \in Nat /\ m \in Nat
      OBVIOUS
    <2>2. ~(n < m)
      BY <1>1, <2>1 DEF OpToRel
    <2> QED BY <2>1, <2>2
  <1> QED BY <1>2

(* The sum of two counters is a counter.                                   *)
LEMMA TrafficType ==
  ASSUME NEW names \in SUBSET Nat, NEW c \in Candidate(names)
  PROVE  Traffic(c) \in 0..MaxCount /\ UplinkRank(c) \in {0, 1} /\ c.name \in Nat
  <1>1. c.received \in 0..MaxCount /\ c.transmitted \in 0..MaxCount /\ c.name \in Nat
    BY DEF Candidate
  <1>2. Traffic(c) \in 0..MaxCount
    BY <1>1, CountAssumption DEF Traffic, SaturatingAdd
  <1> QED BY <1>1, <1>2 DEF UplinkRank

(* Among interfaces there is one that none of the others beats.            *)
LEMMA BestExists ==
  ASSUME NEW names \in SUBSET Nat, NEW R, R # {}, NEW f \in [R -> Candidate(names)]
  PROVE  \E i \in R : \A j \in R : AtMost(f[j], f[i])
  <1> DEFINE U == {i \in R : \A j \in R : UplinkRank(f[j]) <= UplinkRank(f[i])}
             Left == {MaxCount - Traffic(f[i]) : i \in U}
             T == {i \in U : \A j \in U : Traffic(f[j]) <= Traffic(f[i])}
             Ranks == {f[i].name : i \in T}
  <1>1. \A i \in R : /\ Traffic(f[i]) \in 0..MaxCount /\ UplinkRank(f[i]) \in {0, 1}
                     /\ f[i].name \in Nat
    BY TrafficType
  <1>2. U # {}
    <2>1. CASE \E i \in R : UplinkRank(f[i]) = 1
      BY <1>1, <2>1
    <2>2. CASE ~\E i \in R : UplinkRank(f[i]) = 1
      BY <1>1, <2>2
    <2> QED BY <2>1, <2>2
  <1>3. T # {}
    <2>1. Left \in SUBSET Nat /\ Left # {}
      BY <1>1, <1>2, CountAssumption
    <2>2. PICK m \in Left : \A n \in Left : m <= n
      BY <2>1, LeastElement, Zenon
    <2>3. PICK i \in U : m = MaxCount - Traffic(f[i])
      BY <2>2
    <2>4. ASSUME NEW j \in U PROVE Traffic(f[j]) <= Traffic(f[i])
      <3>1. MaxCount - Traffic(f[i]) <= MaxCount - Traffic(f[j])
        BY <2>2, <2>3
      <3> QED BY <1>1, <3>1, CountAssumption
    <2> QED BY <2>4
  <1>4. PICK r \in Ranks : \A n \in Ranks : r <= n
    <2>1. Ranks \in SUBSET Nat /\ Ranks # {}
      BY <1>1, <1>3
    <2> QED BY <2>1, LeastElement, Zenon
  <1>5. PICK i \in T : r = f[i].name
    BY <1>4
  <1>6. ASSUME NEW j \in R PROVE AtMost(f[j], f[i])
    <2>1. UplinkRank(f[j]) <= UplinkRank(f[i])
      OBVIOUS
    <2>2. CASE UplinkRank(f[j]) < UplinkRank(f[i])
      BY <2>2 DEF AtMost
    <2>3. CASE UplinkRank(f[j]) = UplinkRank(f[i])
      <3>1. j \in U /\ Traffic(f[j]) <= Traffic(f[i])
        BY <2>3
      <3>2. CASE Traffic(f[j]) < Traffic(f[i])
        BY <2>3, <3>2 DEF AtMost
      <3>3. CASE Traffic(f[j]) = Traffic(f[i])
        <4>1. j \in T
          BY <3>1, <3>3
        <4>2. f[i].name <= f[j].name
          BY <1>4, <1>5, <4>1
        <4> QED BY <1>1, <2>3, <3>3, <4>2 DEF AtMost
      <3> QED BY <1>1, <3>1, <3>2, <3>3
    <2> QED BY <1>1, <2>1, <2>2, <2>3
  <1> QED BY <1>6

(* select_network_candidate returns the one interface that beats all the   *)
(* others: for any list of interfaces with different names, of any length, *)
(* in whatever order the hash map lists them, and also with counters at    *)
(* their limit.                                                            *)
THEOREM SelectsBest ==
  ASSUME NEW names \in SUBSET Nat, NEW m \in Nat, NEW s \in [1..m -> Candidate(names)],
         Distinct(s)
  PROVE  IsChoice(SelectNetworkCandidate(s), {s[i] : i \in DOMAIN s})
  <1> DEFINE R == {i \in DOMAIN s : IsRoutable(s[i])}
             last == {i \in DOMAIN s : IsLastMax(s, i)}
             candidates == {s[i] : i \in DOMAIN s}
             c == SelectNetworkCandidate(s)
  <1>1. \A i \in DOMAIN s : /\ s[i] \in Candidate(names) /\ i \in Nat
                            /\ Traffic(s[i]) \in Nat /\ UplinkRank(s[i]) \in {0, 1}
                            /\ s[i].name \in Nat
    BY TrafficType
  <1>2. CASE R = {}
    <2>1. last = {} /\ {d \in candidates : d.routable} = {}
      BY <1>2 DEF IsLastMax, IsRoutable
    <2>2. c = None
      BY <2>1 DEF SelectNetworkCandidate
    <2> QED BY <2>1, <2>2 DEF IsChoice
  <1>3. CASE R # {}
    <2>1. PICK best \in R : \A j \in R : AtMost(s[j], s[best])
      <3> DEFINE f == [i \in R |-> s[i]]
      <3>1. f \in [R -> Candidate(names)]
        BY <1>1
      <3>2. PICK i \in R : \A j \in R : AtMost(f[j], f[i])
        BY <1>3, <3>1, BestExists
      <3> QED BY <3>2
    <2>2. ASSUME NEW j \in R, AtMost(s[best], s[j]) PROVE j = best
      <3>1. AtMost(s[j], s[best])
        BY <2>1
      <3>2. s[j].name = s[best].name
        BY <1>1, <2>2, <3>1 DEF AtMost
      <3> QED BY <3>2 DEF Distinct
    <2>3. best \in last
      BY <1>1, <2>1, <2>2 DEF IsLastMax
    <2>4. PICK i \in last : c = s[i]
      BY <2>3 DEF SelectNetworkCandidate
    <2>5. i \in DOMAIN s /\ IsRoutable(s[i]) /\ \A j \in R : AtMost(s[j], s[i])
      BY <2>4 DEF IsLastMax
    <2>6. ASSUME NEW j \in R, s[j] # s[i]
          PROVE  \/ s[i].uplink /\ ~s[j].uplink
                 \/ s[i].uplink = s[j].uplink /\ Traffic(s[i]) > Traffic(s[j])
                 \/ /\ s[i].uplink = s[j].uplink /\ Traffic(s[i]) = Traffic(s[j])
                    /\ s[i].name < s[j].name
      <3>1. s[i].name # s[j].name
        BY <2>5, <2>6 DEF Distinct
      <3>2. AtMost(s[j], s[i])
        BY <2>5
      <3>3. CASE UplinkRank(s[j]) < UplinkRank(s[i])
        BY <3>3 DEF UplinkRank
      <3>4. CASE UplinkRank(s[j]) = UplinkRank(s[i])
        <4>1. s[i].uplink = s[j].uplink
          BY <1>1, <2>5, <3>4 DEF UplinkRank, Candidate
        <4> QED BY <1>1, <2>5, <3>1, <3>2, <3>4, <4>1 DEF AtMost
      <3> QED BY <3>2, <3>3, <3>4 DEF AtMost
    <2> HIDE DEF c
    <2>7. c \in candidates /\ c.routable
      BY <2>4, <2>5 DEF IsRoutable
    <2>8. ASSUME NEW d \in candidates, d.routable, d # c
          PROVE  \/ c.uplink /\ ~d.uplink
                 \/ c.uplink = d.uplink /\ Traffic(c) > Traffic(d)
                 \/ c.uplink = d.uplink /\ Traffic(c) = Traffic(d) /\ c.name < d.name
      <3>1. PICK j \in DOMAIN s : d = s[j]
        OBVIOUS
      <3>2. j \in R
        BY <2>8, <3>1 DEF IsRoutable
      <3> QED BY <2>4, <2>6, <2>8, <3>1, <3>2
    <2>9. IsChoice(c, candidates)
      BY <2>7, <2>8 DEF IsChoice
    <2> QED BY <2>9 DEF c
  <1> QED BY <1>2, <1>3

(* Whichever way sysinfo lists the interfaces, the panel does not jump     *)
(* between them.                                                           *)
THEOREM SelectionStable == Spec => []SelectionIsStable
  <1>1. SelectionIsStable
    <2> SUFFICES ASSUME NEW s \in Lists(Candidate(1..3), 3)
                 PROVE  IsChoice(SelectNetworkCandidate(s), {s[i] : i \in DOMAIN s})
      BY DEF SelectionIsStable
    <2>1. PICK m \in 0..3 : s \in [1..m -> Candidate(1..3)]
      BY DEF Lists
    <2>2. Distinct(s) /\ 1..3 \in SUBSET Nat /\ m \in Nat
      BY DEF Lists
    <2> QED BY <2>1, <2>2, SelectsBest
  <1> QED BY <1>1, PTL
=============================================================================
