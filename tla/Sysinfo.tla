------------------------------- MODULE Sysinfo -------------------------------
(***************************************************************************)
(* The way of a measurement on Linux: the loop of aster-sysinfo --shm      *)
(* (crates/aster-sysinfo/src/main.rs) refreshes its map of sensors and     *)
(* writes all of it into the region, asterctl (crates/asterctl/src/shm.rs) *)
(* inserts what it finds there into the map it renders from.  Opening the  *)
(* region, and what happens to it when a process ends, is module ShmRegion.*)
(*                                                                         *)
(* Data: a value is the round it was measured in, counted over all lives   *)
(* of aster-sysinfo, and the interface it is about, 0 for none.  One label *)
(* stands for all those that every round has, one for both network speeds, *)
(* one for gpu_core and its unit, and one for the temperatures.  The       *)
(* sequence counts the snapshots of a life; the code counts by two.  On    *)
(* Windows the region is the same; the labels that Linux alone has are     *)
(* never reported there.                                                   *)
(***************************************************************************)
EXTENDS ShmRegion, NetworkChoice

CONSTANTS
  Interface,   \* ranks of interface names
  MaxRounds    \* bound on the rounds of all lives

ASSUME SysinfoAssumption ==
  /\ Process = {Reader, Writer}
  /\ Interface \subseteq Nat \ {0} /\ MaxRounds \in Nat

VARIABLES
  wpc,         \* aster-sysinfo: "refresh", "write"
  sensors,     \* its map
  sequence,    \* its snapshots in this life
  rounds,      \* the rounds in all lives
  values,      \* asterctl's map
  lastSeq      \* last_sequences of asterctl

writerVars == <<wpc, sensors, sequence, rounds>>
readerVars == <<values, lastSeq>>
vars == <<regionVars, writerVars, readerVars>>

NetworkLabel == {"network_interface_name", "network_ip_address", "network_speed"}
Label == {"cpu_usage_percent", "temperature_gpu", "gpu_core"} \cup NetworkLabel

Missing == [round |-> 0, of |-> 0]
Value == [round : 0..MaxRounds, of : Interface \cup {0}]

SensorSnapshot == [seq : 1..MaxRounds, map : [Label -> Value]]

ASSUME SnapshotAssumption == Snapshot = SensorSnapshot

NoValues == [k \in Label |-> Missing]

Init ==
  /\ RegionInit
  /\ wpc = "refresh" /\ sensors = NoValues /\ sequence = 0 /\ rounds = 0
  /\ values = NoValues /\ lastSeq = 0

-----------------------------------------------------------------------------
(* aster-sysinfo.                                                          *)

\* Fault: the labels of an earlier round stay.
KeepsLabels(map, labels) == map

Without(map, labels) == [k \in Label |-> IF k \in labels THEN Missing ELSE map[k]]

With(map, labels, value) == [k \in Label |-> IF k \in labels THEN value ELSE map[k]]

\* Processors, memory, uptime, and the disks, of which sysinfo forgets none.
UpdateCommon(map) == With(map, {"cpu_usage_percent"}, [round |-> rounds + 1, of |-> 0])

\* A component without a reading is passed over.
UpdateTemperature(map, known) ==
  IF known THEN With(map, {"temperature_gpu"}, [round |-> rounds + 1, of |-> 0]) ELSE map

\* The utilization is there when one of the DRM devices has a readable one.
UpdateGpu(map, gpu) ==
  LET cleared == Without(map, {"gpu_core"})
  IN IF gpu THEN With(cleared, {"gpu_core"}, [round |-> rounds + 1, of |-> 0]) ELSE cleared

\* The speeds need the time since an earlier refresh of this life.
UpdateNetwork(map, network) ==
  LET cleared == Without(map, NetworkLabel)
      labels == IF sequence > 0 THEN NetworkLabel ELSE NetworkLabel \ {"network_speed"}
  IN IF network = None THEN cleared
     ELSE With(cleared, labels, [round |-> rounds + 1, of |-> network.name])

\* update_sensors: what every round has, then what the system reports this time.
UpdateSensors(temperature, gpu, interfaces) ==
  UpdateNetwork(UpdateGpu(UpdateTemperature(UpdateCommon(sensors), temperature), gpu),
                SelectNetworkCandidate(interfaces))

\* One turn of the loop, up to the write.
Refresh(temperature, gpu, interfaces) ==
  /\ pc[Writer] = "ready"
  /\ wpc = "refresh"
  /\ rounds < MaxRounds
  /\ ~unix => ~gpu /\ interfaces = <<>>
  /\ rounds' = rounds + 1
  /\ sensors' = UpdateSensors(temperature, gpu, interfaces)
  /\ wpc' = "write"
  /\ UNCHANGED <<regionVars, sequence, readerVars>>

\* SharedMemoryWriter::write
WriteSnapshot ==
  /\ wpc = "write"
  /\ Write([seq |-> sequence + 1, map |-> sensors])
  /\ sequence' = sequence + 1
  /\ wpc' = "refresh"
  /\ UNCHANGED <<sensors, rounds, readerVars>>

\* It ends, or cannot open the region and ends: the next life begins with nothing.
WriterEnds ==
  /\ Ending(Writer)
  /\ wpc' = "refresh" /\ sensors' = NoValues /\ sequence' = 0
  /\ UNCHANGED <<rounds, readerVars>>

-----------------------------------------------------------------------------
(* asterctl.                                                               *)

\* The values of the snapshot are inserted; a label it does not have keeps its value.
Inserted(map) == [k \in Label |-> IF map[k] # Missing THEN map[k] ELSE values[k]]

\* Fault: the sequences of a new life are taken for old ones.
IsLater(seq) == seq > lastSeq

IsNew(seq) == seq # lastSeq

\* SharedMemoryProvider::update
Update ==
  /\ Read
  /\ IF IsNew(Slot.seq)
       THEN values' = Inserted(Slot.map) /\ lastSeq' = Slot.seq
       ELSE UNCHANGED readerVars
  /\ UNCHANGED writerVars

\* A provider that cannot open the region stays as it is, a process that ends leaves nothing.
ReaderEnds ==
  /\ \/ OpenFails(Reader) /\ UNCHANGED readerVars
     \/ (End(Reader) \/ Kill(Reader)) /\ values' = NoValues /\ lastSeq' = 0
  /\ UNCHANGED writerVars

-----------------------------------------------------------------------------
Open(p) == Opening(p) /\ UNCHANGED <<writerVars, readerVars>>

\* Lists of interfaces that are tried.
Reports == Lists({c \in Candidate(Interface) : c.received = 0 /\ c.transmitted = 0}, 2)

Next ==
  \/ (\E p \in Process : Open(p))
  \/ \E temperature, gpu \in BOOLEAN, interfaces \in Reports :
       Refresh(temperature, gpu, interfaces)
  \/ WriteSnapshot \/ WriterEnds \/ Update \/ ReaderEnds

Spec == Init /\ [][Next]_vars

(* Processes that ended are started again and open the region, a snapshot  *)
(* that is collected is written, and asterctl looks into the region at     *)
(* every refresh.  Nobody has to collect, to fail or to end.               *)
FairSpec ==
  /\ Spec
  /\ \A p \in Process : WF_vars(Open(p))
  /\ WF_vars(WriteSnapshot)
  /\ WF_vars(Update)

-----------------------------------------------------------------------------
(* Properties.                                                             *)

TypeOK ==
  /\ RegionTypeOK
  /\ wpc \in {"refresh", "write"}
  /\ sensors \in [Label -> Value]
  /\ sequence \in 0..MaxRounds /\ rounds \in 0..MaxRounds
  /\ values \in [Label -> Value]
  /\ lastSeq \in 0..MaxRounds

(* docs/linux/README.md:33-37: the aliases are "selected from the active   *)
(* local interface", the utilization is shown when the kernel has one "and *)
(* is otherwise omitted".  Whatever was reported before, the map that goes *)
(* out has the utilization and the network's labels from this round only,  *)
(* and the latter from one interface.  (Temperatures are not removed.)     *)
SensorsOfThisRound ==
  /\ \A k \in Label \ {"temperature_gpu"} : sensors[k] # Missing => sensors[k].round = rounds
  /\ \A j, k \in NetworkLabel :
       sensors[j] # Missing /\ sensors[k] # Missing => sensors[j].of = sensors[k].of

(* main.rs:707: "A lexical tie-break makes selection stable despite the    *)
(* order in which sysinfo reports interfaces."  For every list, the choice *)
(* is the one candidate that beats the others, whatever their order, also  *)
(* with counters at their limit.  (No variable matters to it, so it is     *)
(* looked at once, before there is a region.)                              *)
SelectionIsStable ==
  memory = <<>> /\ troubles = 0 =>
    \A s \in Lists(Candidate(1..3), 3) :
      IsChoice(SelectNetworkCandidate(s), {s[i] : i \in DOMAIN s})

\* aster-sysinfo is running, and its region has the snapshot of round r.
Wrote(r) ==
  /\ pc[Writer] = "ready"
  /\ memory[region[Writer]] # NoSnapshot
  /\ memory[region[Writer]].map["cpu_usage_percent"].round = r

(* As long as no creator unlinks the region under the others, asterctl     *)
(* shows what a running aster-sysinfo measured last, although both may fail*)
(* to open the region, be killed and start again in any order.  (Excepted  *)
(* is the snapshot of a new life whose sequence is the one asterctl merged *)
(* last from an earlier life: shm.rs:105 skips it, and what was measured   *)
(* then is not shown before the next snapshot.)                            *)
SnapshotArrives ==
  [](~unlinked) =>
    \A r \in 1..MaxRounds :
      (Wrote(r) /\ memory[region[Writer]].seq # lastSeq) ~> (values["cpu_usage_percent"].round = r \/ ~Wrote(r))

(* docs/linux/README.md:35-37: "GPU utilization is shown when the kernel   *)
(* exposes a DRM gpu_busy_percent attribute and is otherwise omitted       *)
(* without inventing a value."  Once asterctl has taken over a snapshot    *)
(* without it, it has none to show.                                        *)
VanishedIsOmitted ==
  seen # NoSnapshot /\ seen.seq = lastSeq /\ seen.map["gpu_core"] = Missing
    => values["gpu_core"] = Missing
=============================================================================
