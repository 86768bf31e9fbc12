----------------------------- MODULE SensorPanel -----------------------------
(***************************************************************************)
(* asterctl's panel loop and its two sources of sensor values              *)
(* (crates/asterctl: main.rs, cfg.rs, sensors.rs, shm.rs) with the file    *)
(* provider aster-sysinfo (crates/aster-sysinfo/src/main.rs).              *)
(*                                                                         *)
(* The loop shows the active panels in turn.  A thread, the file slurper,  *)
(* waits for changes in the sensor directory and inserts the values of a   *)
(* changed file into a map that the loop renders from; before it renders,  *)
(* the loop inserts the newest shared-memory snapshot, if it is new, into  *)
(* the same map.  The map is behind a lock that is held over a whole file, *)
(* a whole snapshot and a whole rendering, so each of them is one step.    *)
(* aster-sysinfo fills a temporary file and renames it over its output.    *)
(*                                                                         *)
(* Data: a value is its source and the number of the writing it comes      *)
(* from.  A panel is its number.  The shared-memory slot is the register   *)
(* of module SnapshotSlot.  Left out: the display control (module          *)
(* Display), failing sends (module FrameCache), the sensor filter and the  *)
(* label mapping, which rename or drop keys before anything else sees them.*)
(***************************************************************************)
EXTENDS Integers, Sequences, FiniteSets

CONSTANTS
  Key,           \* sensor labels
  ShmKey,        \* those that the shared memory provides as well
  ThemeInputs,   \* theme indices given; any outside 0..3 stands for none, too
  MaxPanels,     \* bound on the panels a monitor configuration defines
  MaxEntries,    \* bound on its active panels ("mianban")
  MaxCustom,     \* bound on the custom panels of the command line
  RoundKeys,     \* the sets of keys that a round of aster-sysinfo may have
  MaxVersion,    \* bound on the writings of the sensor file
  MaxSnapshots   \* bound on the shared-memory snapshots

ASSUMPTION SensorAssumption ==
  /\ ShmKey \subseteq Key
  /\ RoundKeys \subseteq SUBSET Key
  /\ ThemeInputs \subseteq Int
  /\ MaxPanels \in Nat /\ MaxEntries \in Nat /\ MaxCustom \in Nat
  /\ MaxVersion \in Nat /\ MaxSnapshots \in Nat

VARIABLES
  config,     \* what load_configuration makes of the files and the command line
  apc,        \* asterctl's main thread
  idx,        \* active_panel_idx, 0 for None
  shown,      \* the panel on the screen, 0 for none
  spc,        \* the slurper thread
  events,     \* its channel: changes the watcher has reported
  values,     \* the map of sensor values
  lastSeq,    \* the snapshot merged last
  dir,        \* does the sensor directory exist?
  out, temp,  \* aster-sysinfo's output file and temporary file: a version for each line
  version,    \* of the writing that aster-sysinfo began last
  has,        \* the keys of each of its writings
  wpc,        \* aster-sysinfo
  published   \* newest shared-memory snapshot

panelVars == <<idx, shown>>
slurperVars == <<spc, events>>
fileVars == <<dir, out, temp, version, has, wpc>>
vars == <<config, apc, panelVars, slurperVars, values, lastSeq, fileVars, published>>

Absent == [k \in Key |-> 0]
Unset == [src |-> "none", ver |-> 0]

-----------------------------------------------------------------------------
(* The configuration.                                                      *)

RawConfig ==
  [panels : Nat, active : Seq(Nat), theme : Int, params : BOOLEAN, diskTemp : BOOLEAN, custom : Nat]

\* The monitor configurations and command lines that are tried.
Entries(n) == UNION {[1..m -> 0..n + 1] : m \in 0..MaxEntries}

RawConfigs ==
  UNION {[panels : {n}, active : Entries(n), theme : ThemeInputs, params : BOOLEAN,
          diskTemp : BOOLEAN, custom : 0..MaxCustom] : n \in 0..MaxPanels}

ActivePanelsForTheme(theme, params, diskTemp) ==
  LET first == 1 + 2 * theme
  IN (IF params THEN <<first>> ELSE <<>>) \o (IF diskTemp THEN <<first + 1>> ELSE <<>>)

\* apply_theme: a theme without panels, or with panels that are not defined, is ignored.
ThemeApplies(c) ==
  LET chosen == ActivePanelsForTheme(c.theme, c.params, c.diskTemp)
  IN /\ c.theme \in 0..3
     /\ chosen # <<>>
     /\ \A i \in DOMAIN chosen : chosen[i] <= c.panels

Themed(c) ==
  IF ThemeApplies(c) THEN ActivePanelsForTheme(c.theme, c.params, c.diskTemp) ELSE c.active

\* Custom panels are appended and made active.
LoadConfiguration(c) ==
  [panels |-> c.panels + c.custom,
   active |-> Themed(c) \o [i \in 1..c.custom |-> c.panels + i]]

\* Zeros in "mianban" are skipped; the other entries are numbered in their order.
Slots(c) == {i \in DOMAIN c.active : c.active[i] > 0}

Rank(c, i) == Cardinality({j \in Slots(c) : j <= i})

\* Fault: the off-by-one in the test of the panel number.
IsDefinedOrNext(panel, c) == panel \in 1..c.panels + 1

IsDefined(panel, c) == panel \in 1..c.panels

\* Fault: turns are counted by the panels that are defined (the error cfg.rs:162-167 reports).
NextTurnOfDefined(c) == IF idx + 1 > c.panels THEN 1 ELSE idx + 1

NextTurn(c) == IF idx + 1 > Cardinality(Slots(c)) THEN 1 ELSE idx + 1

-----------------------------------------------------------------------------
(* aster-sysinfo and the file system.                                      *)

\* What the watcher tells of a file: its content or its name has changed.
Change == [file : {"out", "temp"}, kind : {"data", "name"}]

\* A watcher that is on reports what happens in the directory.
Report(e) == events' = IF spc = "watching" THEN Append(events, e) ELSE events

\* create_dir_all of the output's parent, then the first round.
MakeDir ==
  /\ wpc = "start"
  /\ dir' = TRUE
  /\ wpc' = "top"
  /\ UNCHANGED <<config, apc, panelVars, slurperVars, values, lastSeq, out, temp, version, has,
                 published>>

\* The temporary file in the directory, still empty; not every round has every sensor.
CreateTemp ==
  /\ wpc = "top"
  /\ version < MaxVersion
  /\ version' = version + 1
  /\ \E keys \in RoundKeys : has' = [has EXCEPT ![version + 1] = keys]
  /\ temp' = Absent
  /\ wpc' = "write"
  /\ UNCHANGED <<config, apc, panelVars, slurperVars, values, lastSeq, dir, out, published>>

\* Some lines reach the file, in any order.
WriteLine(k) ==
  /\ wpc = "write"
  /\ k \in has[version]
  /\ temp[k] # version
  /\ temp' = [temp EXCEPT ![k] = version]
  /\ Report([file |-> "temp", kind |-> "data"])
  /\ UNCHANGED <<config, apc, panelVars, spc, values, lastSeq, dir, out, version, has, wpc,
                 published>>

\* The content is complete: the temporary file replaces the output in one step.
Persist ==
  /\ wpc = "write"
  /\ \A k \in has[version] : temp[k] = version
  /\ out' = temp
  /\ Report([file |-> "out", kind |-> "name"])
  /\ wpc' = "top"
  /\ UNCHANGED <<config, apc, panelVars, spc, values, lastSeq, dir, temp, version, has,
                 published>>

\* aster-sysinfo is killed, or one of its file operations fails and it ends; it is started again.
SysinfoRestarts ==
  /\ wpc \in {"top", "write"}
  /\ wpc' = "start"
  /\ UNCHANGED <<config, apc, panelVars, slurperVars, values, lastSeq, dir, out, temp, version,
                 has, published>>

Publish ==
  /\ published < MaxSnapshots
  /\ published' = published + 1
  /\ UNCHANGED <<config, apc, panelVars, slurperVars, values, lastSeq, fileVars>>

-----------------------------------------------------------------------------
(* asterctl.                                                               *)

\* Only the names that end in .txt are sensor files.  Fault: they are not told apart.
AnyFile(file) == TRUE
IsSensorFile(file) == file = "out"

\* Fault: only changes of a file's content are looked at.
IsDataChange(e) == e.kind = "data"
IsChange(e) == e.kind \in {"data", "name"}

\* read_key_value_file inserts the lines that are there, and leaves the other keys alone.
WithFile(content) ==
  [k \in Key |-> IF content[k] > 0 THEN [src |-> "file", ver |-> content[k]] ELSE values[k]]

WithSnapshot(n) == [k \in Key |-> IF k \in ShmKey THEN [src |-> "shm", ver |-> n] ELSE values[k]]

\* The process ends, and its channel and its map with it.  The screen keeps its panel.
Exit ==
  /\ apc' = "off"
  /\ spc' = "off"
  /\ events' = <<>>
  /\ values' = [k \in Key |-> Unset]
  /\ lastSeq' = 0
  /\ idx' = 0

\* The launcher or the service manager starts asterctl (again).
Start ==
  /\ apc = "off"
  /\ apc' = "slurp"
  /\ UNCHANGED <<config, panelVars, slurperVars, values, lastSeq, fileVars, published>>

\* start_file_slurper reads what there is, then spawns the thread.
ReadPath ==
  /\ apc = "slurp"
  /\ values' = WithFile(out)
  /\ apc' = "switch"
  /\ spc' = "spawned"
  /\ UNCHANGED <<config, panelVars, events, lastSeq, fileVars, published>>

Watch ==
  /\ spc = "spawned"
  /\ dir
  /\ spc' = "watching"
  /\ UNCHANGED <<config, apc, panelVars, events, values, lastSeq, fileVars, published>>

\* A path that cannot be watched ends the program, exit(1).
WatchFails ==
  /\ spc = "spawned"
  /\ ~dir
  /\ Exit
  /\ UNCHANGED <<config, shown, fileVars, published>>

\* One event: the changed sensor file is read as it is now.
HandleEvent ==
  /\ events # <<>>
  /\ LET e == Head(events)
         content == IF e.file = "out" THEN out ELSE temp
     IN values' = IF IsChange(e) /\ IsSensorFile(e.file) THEN WithFile(content) ELSE values
  /\ events' = Tail(events)
  /\ UNCHANGED <<config, apc, panelVars, spc, lastSeq, fileVars, published>>

\* get_next_active_panel finds the panel whose turn it is ...
SwitchPanel ==
  /\ apc = "switch"
  /\ \E i \in Slots(config) :
       /\ Rank(config, i) = NextTurn(config)
       /\ IsDefined(config.active[i], config)
       /\ idx' = Rank(config, i)
       /\ shown' = config.active[i]
  /\ apc' = "tick"
  /\ UNCHANGED <<config, slurperVars, values, lastSeq, fileVars, published>>

\* ... or none, which ends the program.
NoActivePanel ==
  /\ apc = "switch"
  /\ \A i \in Slots(config) :
       Rank(config, i) = NextTurn(config) => ~IsDefined(config.active[i], config)
  /\ Exit
  /\ UNCHANGED <<config, shown, fileVars, published>>

\* One refresh: a new snapshot is merged, then the panel is drawn.
Tick ==
  /\ apc = "tick"
  /\ IF published # lastSeq
       THEN values' = WithSnapshot(published) /\ lastSeq' = published
       ELSE UNCHANGED <<values, lastSeq>>
  /\ UNCHANGED <<config, apc, panelVars, slurperVars, fileVars, published>>

\* The switch time has passed.
TurnEnds ==
  /\ apc = "tick"
  /\ apc' = "switch"
  /\ UNCHANGED <<config, panelVars, slurperVars, values, lastSeq, fileVars, published>>

-----------------------------------------------------------------------------
Init ==
  /\ \E c \in RawConfigs : config = LoadConfiguration(c)
  /\ apc = "off" /\ spc = "off"
  /\ idx = 0 /\ shown = 0
  /\ events = <<>>
  /\ values = [k \in Key |-> Unset]
  /\ lastSeq = 0
  /\ dir \in BOOLEAN
  /\ out = Absent /\ temp = Absent
  /\ version = 0
  /\ has = [v \in 1..MaxVersion |-> {}]
  /\ wpc = "start"
  /\ published = 0

Sysinfo == MakeDir \/ CreateTemp \/ (\E k \in Key : WriteLine(k)) \/ Persist

Slurper == Watch \/ WatchFails \/ HandleEvent

PanelLoop == Start \/ ReadPath \/ SwitchPanel \/ NoActivePanel \/ TurnEnds

Next == Sysinfo \/ SysinfoRestarts \/ Publish \/ Slurper \/ PanelLoop \/ Tick

Spec == Init /\ [][Next]_vars

(* The threads are scheduled and ended processes are started again; the    *)
(* switch time passes.  A sensor provider comes to create its directory,   *)
(* but it need not write.                                                  *)
FairSpec == Spec /\ WF_vars(Slurper) /\ WF_vars(PanelLoop) /\ WF_vars(MakeDir)

-----------------------------------------------------------------------------
(* Properties.                                                             *)

TypeOK ==
  /\ config \in [panels : Nat, active : Seq(Nat)]
  /\ apc \in {"off", "slurp", "switch", "tick"}
  /\ spc \in {"off", "spawned", "watching"}
  /\ idx \in Nat
  /\ shown \in 0..config.panels
  /\ events \in Seq(Change)
  /\ values \in [Key -> [src : {"none", "file", "shm"}, ver : Nat]]
  /\ lastSeq \in Nat /\ published \in Nat /\ version \in Nat
  /\ dir \in BOOLEAN
  /\ version <= MaxVersion
  /\ has \in [1..MaxVersion -> SUBSET Key]
  /\ out \in [Key -> 0..version] /\ temp \in [Key -> 0..version]
  /\ wpc \in {"start", "top", "write"}

FromFile == {k \in Key : values[k].src = "file"}

(* docs/sensor/provider/text_file.md requires atomic updates of providers. *)
(* aster-sysinfo's are: whenever it is killed and whenever its directory   *)
(* is read, no half of a round gets into the values.  A value of the file  *)
(* is older than another one only if the round of the latter had none for  *)
(* its key.                                                                *)
WholeRounds ==
  \A j, k \in FromFile : values[j].ver < values[k].ver => j \notin has[values[k].ver]

\* What the file holds after writing v.
Round(v) == [k \in Key |-> IF v > 0 /\ k \in has[v] THEN v ELSE 0]

\* Every value that writing v had is of this one, of a later one, or of the shared memory,
\* or a later one does not have it.
Since(v) ==
  \A k \in has[v] :
    \/ values[k].src = "shm"
    \/ values[k].src = "file" /\ values[k].ver >= v
    \/ \E w \in v + 1..version : k \notin has[w]

\* A configuration that names only panels that are there, and at least one.
Works(c) ==
  /\ \E i \in DOMAIN c.active : c.active[i] > 0
  /\ \A i \in DOMAIN c.active : c.active[i] <= c.panels

RenameSeen == \E i \in DOMAIN events : events[i] = [file |-> "out", kind |-> "name"]

(* text_file.md: "File contents will automatically be read when updated."  *)
(* An update that the watcher has seen gets into the values that are       *)
(* rendered, unless a later one or the shared memory replaces it.          *)
UpdateArrives ==
  \A v \in 1..MaxVersion :
    (Works(config) /\ RenameSeen /\ version >= v /\ out = Round(v)) ~> Since(v)

(* cfg.rs:162-167: the turn goes round all the active panels.  When every  *)
(* active entry names a panel, each of them is shown again and again.      *)
EveryPanelShown ==
  \A p \in 1..MaxPanels + MaxCustom :
    [](Works(config) /\ (\E i \in DOMAIN config.active : config.active[i] = p) => <>(shown = p))

(* cfg.rs:189, and 32 when the configuration is loaded: "Ignoring invalid  *)
(* active panel".  An entry that names no panel is ignored, so that a      *)
(* configuration with a panel to show never ends the program.              *)
InvalidIgnored ==
  [][(\E i \in DOMAIN config.active : config.active[i] \in 1..config.panels) => ~NoActivePanel]_vars
=============================================================================
