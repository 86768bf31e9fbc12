-------------------------- MODULE SensorPanelProofs --------------------------
(***************************************************************************)
(* Theorems about module SensorPanel: types, the values of one round, what *)
(* the choice of a theme leaves of a working configuration, and the cycle  *)
(* of the active panels.                                                   *)
(***************************************************************************)
EXTENDS SensorPanel, FiniteSetTheorems, TLAPS

-----------------------------------------------------------------------------
(* The configuration.                                                      *)

LEMMA TriedConfigs ==
  ASSUME NEW c \in RawConfigs
  PROVE  c \in RawConfig
<1> USE SensorAssumption DEF SensorAssumption
<1>1. PICK n \in 0..MaxPanels :
        c \in [panels : {n}, active : Entries(n), theme : ThemeInputs, params : BOOLEAN,
               diskTemp : BOOLEAN, custom : 0..MaxCustom]
  BY DEF RawConfigs
<1>2. c.active \in Entries(n)
  BY <1>1
<1>3. PICK m \in 0..MaxEntries : c.active \in [1..m -> 0..n + 1]
  BY <1>2 DEF Entries
<1>4. c.active \in Seq(Nat)
  BY <1>3
<1>5. c.params \in BOOLEAN /\ c.diskTemp \in BOOLEAN
  BY <1>1, Zenon
<1>6. c = [panels |-> c.panels, active |-> c.active, theme |-> c.theme, params |-> c.params,
           diskTemp |-> c.diskTemp, custom |-> c.custom]
  BY <1>1
<1>7. c.panels \in Nat /\ c.theme \in Int /\ c.custom \in Nat
  <2>1. c.panels \in {n} /\ c.theme \in ThemeInputs /\ c.custom \in 0..MaxCustom
    BY <1>1, Zenon
  <2>2. c.panels \in Nat
    BY <2>1
  <2>3. c.theme \in Int
    BY <2>1
  <2>4. c.custom \in Nat
    BY <2>1
  <2> QED
    BY <2>2, <2>3, <2>4
<1> QED
  BY <1>4, <1>5, <1>6, <1>7, Zenon DEF RawConfig

\* The pair of panels of a theme, or the one that is switched on.
LEMMA ThemePanels ==
  ASSUME NEW theme \in 0..3, NEW params \in BOOLEAN, NEW diskTemp \in BOOLEAN
  PROVE  /\ ActivePanelsForTheme(theme, params, diskTemp) \in Seq(Nat \ {0})
         /\ (params \/ diskTemp) <=> ActivePanelsForTheme(theme, params, diskTemp) # <<>>
<1>1. CASE params /\ diskTemp
  BY <1>1 DEF ActivePanelsForTheme
<1>2. CASE params /\ ~diskTemp
  BY <1>2 DEF ActivePanelsForTheme
<1>3. CASE ~params /\ diskTemp
  BY <1>3 DEF ActivePanelsForTheme
<1>4. CASE ~params /\ ~diskTemp
  BY <1>4 DEF ActivePanelsForTheme
<1> QED
  BY <1>1, <1>2, <1>3, <1>4

LEMMA ThemedType ==
  ASSUME NEW c \in RawConfig
  PROVE  Themed(c) \in Seq(Nat)
<1>1. CASE ThemeApplies(c)
  <2>1. c.theme \in 0..3 /\ c.params \in BOOLEAN /\ c.diskTemp \in BOOLEAN
    BY <1>1 DEF ThemeApplies, RawConfig
  <2>2. ActivePanelsForTheme(c.theme, c.params, c.diskTemp) \in Seq(Nat \ {0})
    BY <2>1, ThemePanels
  <2>3. Seq(Nat \ {0}) \subseteq Seq(Nat)
    OBVIOUS
  <2> QED
    BY <1>1, <2>2, <2>3 DEF Themed
<1>2. CASE ~ThemeApplies(c)
  BY <1>2 DEF Themed, RawConfig
<1> QED
  BY <1>1, <1>2

LEMMA LoadedType ==
  ASSUME NEW c \in RawConfig
  PROVE  LoadConfiguration(c) \in [panels : Nat, active : Seq(Nat)]
<1>1. Themed(c) \in Seq(Nat)
  BY ThemedType
<1>2. c.custom \in Nat /\ c.panels \in Nat
  BY DEF RawConfig
<1>3. [i \in 1..c.custom |-> c.panels + i] \in Seq(Nat)
  BY <1>2
<1> QED
  BY <1>1, <1>2, <1>3 DEF LoadConfiguration

\* What concatenation makes of its entries.
LEMMA Appended ==
  ASSUME NEW s \in Seq(Nat), NEW t \in Seq(Nat)
  PROVE  /\ DOMAIN (s \o t) = 1..Len(s) + Len(t)
         /\ \A i \in 1..Len(s) : (s \o t)[i] = s[i]
         /\ \A i \in 1..Len(t) : (s \o t)[Len(s) + i] = t[i]
<1>1. Len(s \o t) = Len(s) + Len(t) /\ s \o t \in Seq(Nat)
  OBVIOUS
<1>2. DOMAIN (s \o t) = 1..Len(s) + Len(t)
  BY <1>1
<1>3. \A i \in 1..Len(s) : (s \o t)[i] = s[i]
  OBVIOUS
<1>4. ASSUME NEW i \in 1..Len(t)
      PROVE  (s \o t)[Len(s) + i] = t[i]
  OBVIOUS
<1> QED
  BY <1>2, <1>3, <1>4

(* apply_theme and include_custom_panel: whatever theme and custom panels  *)
(* are asked for, a configuration in which every active entry names a      *)
(* panel still has this property when it is loaded, and is never left      *)
(* without an active panel.                                                *)
THEOREM LoadingKeepsWorking ==
  ASSUME NEW c \in RawConfig, Works(c)
  PROVE  Works(LoadConfiguration(c))
<1> DEFINE themed == Themed(c)
           customs == [i \in 1..c.custom |-> c.panels + i]
           loaded == LoadConfiguration(c)
<1>1. c.custom \in Nat /\ c.panels \in Nat /\ c.active \in Seq(Nat)
  BY DEF RawConfig
<1>2. themed \in Seq(Nat)
  BY ThemedType
<1>3. /\ \E i \in DOMAIN themed : themed[i] > 0
      /\ \A i \in DOMAIN themed : themed[i] <= c.panels
  <2>1. CASE ThemeApplies(c)
    <3>1. c.theme \in 0..3 /\ c.params \in BOOLEAN /\ c.diskTemp \in BOOLEAN
      BY <2>1 DEF ThemeApplies, RawConfig
    <3>2. themed \in Seq(Nat \ {0}) /\ themed # <<>>
      BY <2>1, <3>1, ThemePanels DEF ThemeApplies, Themed
    <3>3. 1 \in DOMAIN themed /\ themed[1] > 0
      BY <3>2
    <3>4. \A i \in DOMAIN themed : themed[i] <= c.panels
      BY <2>1 DEF ThemeApplies, Themed
    <3> QED
      BY <3>3, <3>4
  <2>2. CASE ~ThemeApplies(c)
    BY <2>2 DEF Themed, Works
  <2> QED
    BY <2>1, <2>2
<1>4. customs \in Seq(Nat) /\ Len(customs) = c.custom
  BY <1>1
<1>5. loaded.panels = c.panels + c.custom /\ loaded.active = themed \o customs
  BY DEF LoadConfiguration
<1> HIDE DEF themed, customs, loaded
<1>6. /\ DOMAIN loaded.active = 1..Len(themed) + Len(customs)
      /\ \A i \in 1..Len(themed) : loaded.active[i] = themed[i]
      /\ \A i \in 1..Len(customs) : loaded.active[Len(themed) + i] = customs[i]
  BY <1>2, <1>4, <1>5, Appended
<1>7. \A i \in 1..Len(customs) : customs[i] <= c.panels + c.custom
  BY <1>1, <1>4 DEF customs
<1>8. DOMAIN themed = 1..Len(themed) /\ Len(themed) \in Nat /\ Len(customs) \in Nat
  BY <1>2, <1>4
<1>9. \E i \in DOMAIN loaded.active : loaded.active[i] > 0
  BY <1>3, <1>6, <1>8
<1>10. ASSUME NEW i \in DOMAIN loaded.active
       PROVE  loaded.active[i] <= loaded.panels
  <2>1. CASE i \in 1..Len(themed)
    <3>1. loaded.active[i] = themed[i] /\ themed[i] <= c.panels /\ themed[i] \in Nat
      BY <1>2, <1>3, <1>6, <1>8, <2>1
    <3> QED
      BY <1>1, <1>5, <3>1
  <2>2. CASE i \in Len(themed) + 1..Len(themed) + Len(customs)
    <3> DEFINE j == i - Len(themed)
    <3>1. j \in 1..Len(customs) /\ i = Len(themed) + j
      BY <1>8, <2>2
    <3> HIDE DEF j
    <3> QED
      BY <1>5, <1>6, <1>7, <3>1
  <2> QED
    BY <1>6, <1>8, <2>1, <2>2
<1> QED
  BY <1>9, <1>10 DEF Works, loaded

-----------------------------------------------------------------------------
(* The active entries and their numbers.                                   *)

Loaded == [panels : Nat, active : Seq(Nat)]

LEMMA SlotsFinite ==
  ASSUME NEW c \in Loaded
  PROVE  /\ Slots(c) \subseteq 1..Len(c.active) /\ Slots(c) \subseteq Nat
         /\ IsFiniteSet(Slots(c)) /\ Cardinality(Slots(c)) \in Nat
<1>1. c.active \in Seq(Nat)
  BY DEF Loaded
<1>2. DOMAIN c.active = 1..Len(c.active) /\ Len(c.active) \in Nat
  BY <1>1
<1>3. Slots(c) \subseteq 1..Len(c.active)
  BY <1>2 DEF Slots
<1>4. IsFiniteSet(1..Len(c.active))
  BY <1>2, FS_Interval
<1> QED
  BY <1>2, <1>3, <1>4, FS_Subset, FS_CardinalityType

\* The numbers start at one and grow with the positions.
LEMMA RankType ==
  ASSUME NEW c \in Loaded, NEW i \in Slots(c)
  PROVE  Rank(c, i) \in 1..Cardinality(Slots(c))
<1> DEFINE below == {j \in Slots(c) : j <= i}
<1>1. IsFiniteSet(Slots(c)) /\ Cardinality(Slots(c)) \in Nat /\ Slots(c) \subseteq Nat
  BY SlotsFinite
<1>2. below \in SUBSET Slots(c) /\ i \in below
  BY <1>1
<1>3. IsFiniteSet(below) /\ Cardinality(below) <= Cardinality(Slots(c))
  BY <1>1, <1>2, FS_Subset
<1>4. Cardinality(below) \in Nat
  BY <1>3, FS_CardinalityType
<1>5. Cardinality(below) # 0
  BY <1>2, <1>3, FS_EmptySet
<1> QED
  BY <1>1, <1>3, <1>4, <1>5 DEF Rank

LEMMA RankGrows ==
  ASSUME NEW c \in Loaded, NEW i \in Slots(c), NEW j \in Slots(c), i < j
  PROVE  Rank(c, i) < Rank(c, j)
<1> DEFINE below(n) == {k \in Slots(c) : k <= n}
<1>1. IsFiniteSet(Slots(c)) /\ Slots(c) \subseteq Nat
  BY SlotsFinite
<1>2. IsFiniteSet(below(i)) /\ IsFiniteSet(below(j))
  <2>1. below(i) \in SUBSET Slots(c) /\ below(j) \in SUBSET Slots(c)
    OBVIOUS
  <2> HIDE DEF below
  <2> QED
    BY <1>1, <2>1, FS_Subset
<1>3. below(i) \cup {j} \in SUBSET below(j) /\ j \notin below(i)
  BY <1>1
<1> HIDE DEF below
<1>4. Cardinality(below(i) \cup {j}) = Cardinality(below(i)) + 1
  BY <1>2, <1>3, FS_AddElement
<1>5. Cardinality(below(i) \cup {j}) <= Cardinality(below(j))
  BY <1>2, <1>3, FS_Subset
<1>6. Cardinality(below(i)) \in Nat /\ Cardinality(below(j)) \in Nat
  BY <1>2, FS_CardinalityType
<1>7. Rank(c, i) = Cardinality(below(i)) /\ Rank(c, j) = Cardinality(below(j))
  BY DEF Rank, below
<1> QED
  BY <1>4, <1>5, <1>6, <1>7

(* cfg.rs:180-195: every active entry has a number, every number from one  *)
(* to their count is some entry's, and no two entries have the same.       *)
THEOREM EntriesNumbered ==
  ASSUME NEW c \in Loaded
  PROVE  /\ \A i, j \in Slots(c) : Rank(c, i) = Rank(c, j) => i = j
         /\ {Rank(c, i) : i \in Slots(c)} = 1..Cardinality(Slots(c))
<1> DEFINE numbers == 1..Cardinality(Slots(c))
           rank == [i \in Slots(c) |-> Rank(c, i)]
<1>1. Cardinality(Slots(c)) \in Nat /\ Slots(c) \subseteq Nat
  BY SlotsFinite
<1>2. ASSUME NEW i \in Slots(c), NEW j \in Slots(c), Rank(c, i) = Rank(c, j)
      PROVE  i = j
  <2>1. i \in Nat /\ j \in Nat /\ Rank(c, i) \in Nat
    BY <1>1, RankType
  <2>2. ~(i < j)
    BY <1>2, <2>1, RankGrows
  <2>3. ~(j < i)
    BY <1>2, <2>1, RankGrows
  <2> QED
    BY <2>1, <2>2, <2>3
<1>3. rank \in [Slots(c) -> numbers]
  BY RankType
<1>4. rank \in Injection(Slots(c), numbers)
  BY <1>2, <1>3 DEF Injection, IsInjective
<1>5. IsFiniteSet(numbers) /\ Cardinality(numbers) = Cardinality(Slots(c))
  BY <1>1, FS_Interval
<1> HIDE DEF numbers
<1>6. rank \in Surjection(Slots(c), numbers)
  BY <1>4, <1>5, FS_Injection
<1>7. \A n \in numbers : \E i \in Slots(c) : Rank(c, i) = n
  BY <1>6 DEF Surjection
<1>8. \A i \in Slots(c) : Rank(c, i) \in numbers
  BY RankType DEF numbers
<1> QED
  BY <1>2, <1>7, <1>8 DEF numbers

-----------------------------------------------------------------------------
(* Types.                                                                  *)

LEMMA TypeInit == Init => TypeOK
<1> SUFFICES ASSUME Init PROVE TypeOK
  OBVIOUS
<1>1. PICK c \in RawConfigs : config = LoadConfiguration(c)
  BY DEF Init
<1>2. config \in [panels : Nat, active : Seq(Nat)]
  BY <1>1, TriedConfigs, LoadedType
<1>3. out \in [Key -> 0..version] /\ temp \in [Key -> 0..version] /\ version = 0
  BY DEF Init, Absent
<1>4. values \in [Key -> [src : {"none", "file", "shm"}, ver : Nat]]
  BY DEF Init, Unset
<1>5. version <= MaxVersion /\ has \in [1..MaxVersion -> SUBSET Key]
  BY <1>3, SensorAssumption DEF Init
<1>6. /\ apc = "off" /\ spc = "off" /\ wpc = "start" /\ idx = 0 /\ shown = 0
      /\ events = <<>> /\ lastSeq = 0 /\ published = 0 /\ dir \in BOOLEAN
  BY DEF Init
<1>7. shown \in 0..config.panels
  BY <1>2, <1>6
<1> QED
  BY <1>2, <1>3, <1>4, <1>5, <1>6, <1>7 DEF TypeOK

LEMMA Reported ==
  ASSUME NEW s \in Seq(Change), NEW e \in Change
  PROVE  Append(s, e) \in Seq(Change)
OBVIOUS

LEMMA TypeNext ==
  ASSUME TypeOK, [Next]_vars
  PROVE  TypeOK'
<1> USE SensorAssumption DEF SensorAssumption, TypeOK, panelVars, slurperVars, fileVars, Unset
<1>1. CASE MakeDir
  BY <1>1 DEF MakeDir
<1>2. CASE CreateTemp
  <2>1. PICK keys \in RoundKeys : has' = [has EXCEPT ![version + 1] = keys]
    BY <1>2 DEF CreateTemp
  <2>2. version' = version + 1 /\ version' <= MaxVersion
    BY <1>2 DEF CreateTemp
  <2>3. has' \in [1..MaxVersion -> SUBSET Key]
    BY <2>1, <2>2
  <2> QED
    BY <1>2, <2>2, <2>3 DEF CreateTemp, Absent
<1>3. ASSUME NEW k \in Key, WriteLine(k)
      PROVE  TypeOK'
  <2>1. events' \in Seq(Change)
    <3>1. [file |-> "temp", kind |-> "data"] \in Change
      BY DEF Change
    <3> QED
      BY <1>3, <3>1, Reported DEF WriteLine, Report
  <2> QED
    BY <1>3, <2>1 DEF WriteLine
<1>4. CASE Persist
  <2>1. events' \in Seq(Change)
    <3>1. [file |-> "out", kind |-> "name"] \in Change
      BY DEF Change
    <3> QED
      BY <1>4, <3>1, Reported DEF Persist, Report
  <2> QED
    BY <1>4, <2>1 DEF Persist
<1>5. CASE SysinfoRestarts
  BY <1>5 DEF SysinfoRestarts
<1>6. CASE Publish
  BY <1>6 DEF Publish
<1>7. CASE Start
  BY <1>7 DEF Start
<1>8. CASE ReadPath
  BY <1>8 DEF ReadPath, WithFile
<1>9. CASE Watch
  BY <1>9 DEF Watch
<1>10. ASSUME Exit, UNCHANGED <<config, shown, fileVars, published>>
       PROVE  TypeOK'
  BY <1>10 DEF Exit
<1>11. CASE WatchFails \/ NoActivePanel
  BY <1>10, <1>11 DEF WatchFails, NoActivePanel
<1>12. CASE HandleEvent
  <2>1. values' \in [Key -> [src : {"none", "file", "shm"}, ver : Nat]]
    BY <1>12 DEF HandleEvent, WithFile
  <2>2. events' \in Seq(Change)
    BY <1>12 DEF HandleEvent
  <2> QED
    BY <1>12, <2>1, <2>2 DEF HandleEvent
<1>13. CASE SwitchPanel
  <2>1. shown' \in 1..config.panels
    BY <1>13 DEF SwitchPanel, IsDefined
  <2>2. idx' \in Nat
    <3>1. config \in Loaded
      BY DEF Loaded
    <3>2. PICK i \in Slots(config) : idx' = Rank(config, i)
      BY <1>13 DEF SwitchPanel
    <3> QED
      BY <3>1, <3>2, RankType
  <2> QED
    BY <1>13, <2>1, <2>2 DEF SwitchPanel
<1>14. CASE TurnEnds
  BY <1>14 DEF TurnEnds
<1>15. CASE Tick
  BY <1>15 DEF Tick, WithSnapshot
<1>16. CASE UNCHANGED vars
  BY <1>16 DEF vars
<1> QED
  BY <1>1, <1>2, <1>3, <1>4, <1>5, <1>6, <1>7, <1>8, <1>9, <1>11, <1>12, <1>13, <1>14, <1>15, <1>16
     DEF Next, Sysinfo, Slurper, PanelLoop

(* Types; the panel on the screen is always one that is defined, so that   *)
(* the index of cfg.rs:194 is in range.                                    *)
THEOREM TypeCorrect == Spec => []TypeOK
BY TypeInit, TypeNext, PTL DEF Spec

-----------------------------------------------------------------------------
(* Whole rounds.  That the map mixes no rounds is not inductive: it rests  *)
(* on the output file holding a whole round, on none of the values being   *)
(* newer than it, and on the temporary file being part of a round.         *)

OutWhole ==
  \E u \in 0..version :
    /\ out = Round(u)
    /\ \A k \in FromFile : values[k].ver <= u
    /\ wpc = "write" => u < version

TempPartial ==
  wpc = "write" =>
    /\ version > 0
    /\ \A k \in Key : temp[k] \in {0, version} /\ (temp[k] = version => k \in has[version])

FileInv == TypeOK /\ OutWhole /\ TempPartial /\ WholeRounds

\* Reading the output replaces what its round has, and nothing newer.
LEMMA ReadsWhole ==
  ASSUME FileInv, values' = WithFile(out), UNCHANGED <<out, version, has, wpc>>
  PROVE  OutWhole' /\ WholeRounds'
<1>1. PICK u \in 0..version :
        /\ out = Round(u)
        /\ \A k \in FromFile : values[k].ver <= u
        /\ wpc = "write" => u < version
  BY DEF FileInv, OutWhole
<1>2. u \in Nat /\ \A k \in Key : out[k] = IF u > 0 /\ k \in has[u] THEN u ELSE 0
  BY <1>1 DEF Round, FileInv, TypeOK
<1>3. \A k \in Key : values'[k] = IF u > 0 /\ k \in has[u] THEN [src |-> "file", ver |-> u]
                                  ELSE values[k]
  BY <1>2 DEF WithFile
<1>4. \A k \in FromFile' : values'[k].ver <= u
  BY <1>1, <1>2, <1>3 DEF FromFile
<1>5. OutWhole'
  BY <1>1, <1>4 DEF OutWhole, Round
<1>6. WholeRounds'
  <2> SUFFICES ASSUME NEW j \in FromFile', NEW k \in FromFile', values'[j].ver < values'[k].ver
               PROVE  j \notin has[values'[k].ver]
    BY DEF WholeRounds
  <2>1. j \in Key /\ k \in Key /\ values'[k].ver <= u
    BY <1>4 DEF FromFile
  <2>2. CASE u > 0 /\ k \in has[u]
    <3>1. values'[k].ver = u /\ values'[j].ver # u
      BY <1>2, <1>3, <2>1, <2>2
    <3> QED
      BY <1>3, <2>1, <2>2, <3>1
  <2>3. CASE ~(u > 0 /\ k \in has[u])
    <3>1. values'[k] = values[k] /\ k \in FromFile
      BY <1>3, <2>1, <2>3 DEF FromFile
    <3>2. values'[j] = values[j] /\ j \in FromFile
      <4>1. values[k].ver <= u /\ values[k].ver \in Nat
        BY <1>1, <2>1, <3>1 DEF FileInv, TypeOK
      <4>2. values'[j].ver # u
        BY <1>2, <3>1, <4>1
      <4> QED
        BY <1>2, <1>3, <2>1, <4>2 DEF FromFile
    <3> QED
      BY <3>1, <3>2 DEF FileInv, WholeRounds
  <2> QED
    BY <2>2, <2>3
<1> QED
  BY <1>5, <1>6

LEMMA WholeNext ==
  ASSUME FileInv, TypeOK', [Next]_vars
  PROVE  OutWhole' /\ TempPartial' /\ WholeRounds'
<1> USE DEF panelVars, slurperVars, fileVars
<1>0. version \in Nat /\ FileInv
  BY DEF FileInv, TypeOK
<1>1. ASSUME UNCHANGED <<out, temp, version, has, wpc, values>>
      PROVE  OutWhole' /\ TempPartial' /\ WholeRounds'
  BY <1>0, <1>1 DEF FileInv, OutWhole, TempPartial, WholeRounds, FromFile, Round
<1>2. CASE Publish \/ Start \/ Watch \/ SwitchPanel \/ TurnEnds
  BY <1>1, <1>2 DEF Publish, Start, Watch, SwitchPanel, TurnEnds
<1>3. CASE MakeDir \/ SysinfoRestarts
  BY <1>0, <1>3 DEF MakeDir, SysinfoRestarts, FileInv, OutWhole, TempPartial, WholeRounds,
     FromFile, Round
<1>4. CASE CreateTemp
  <2>1. PICK keys \in RoundKeys : has' = [has EXCEPT ![version + 1] = keys]
    BY <1>4 DEF CreateTemp
  <2>2. /\ version' = version + 1 /\ out' = out /\ values' = values /\ wpc' = "write"
        /\ temp' = Absent
    BY <1>4 DEF CreateTemp
  <2>3. \A v \in 1..version : has'[v] = has[v]
    BY <1>0, <2>1 DEF FileInv, TypeOK
  <2>4. PICK u \in 0..version : out = Round(u) /\ \A k \in FromFile : values[k].ver <= u
    BY <1>0 DEF FileInv, OutWhole
  <2>5. Round(u)' = Round(u)
    BY <1>0, <2>3 DEF Round
  <2>6. OutWhole'
    BY <1>0, <2>2, <2>4, <2>5 DEF OutWhole, FromFile
  <2>7. TempPartial'
    BY <1>0, <2>2 DEF TempPartial, Absent
  <2>8. WholeRounds'
    <3> SUFFICES ASSUME NEW j \in FromFile, NEW k \in FromFile, values[j].ver < values[k].ver
                 PROVE  j \notin has'[values[k].ver]
      BY <2>2 DEF WholeRounds, FromFile
    <3>1. values[j].ver \in Nat /\ values[k].ver \in Nat /\ values[k].ver <= version
      <4>1. \A l \in FromFile : values[l].ver \in Nat
        BY <1>0 DEF FileInv, TypeOK, FromFile
      <4>2. values[k].ver <= u /\ u \in Nat /\ u <= version
        BY <1>0, <2>4
      <4> QED
        BY <1>0, <4>1, <4>2
    <3>2. has'[values[k].ver] = has[values[k].ver]
      BY <1>0, <2>3, <3>1
    <3> QED
      BY <1>0, <3>2 DEF FileInv, WholeRounds
  <2> QED
    BY <2>6, <2>7, <2>8
<1>5. ASSUME NEW k \in Key, WriteLine(k)
      PROVE  OutWhole' /\ TempPartial' /\ WholeRounds'
  <2>1. TempPartial'
    BY <1>0, <1>5 DEF WriteLine, FileInv, TypeOK, TempPartial
  <2>2. OutWhole' /\ WholeRounds'
    BY <1>0, <1>5 DEF WriteLine, FileInv, OutWhole, WholeRounds, FromFile, Round
  <2> QED
    BY <2>1, <2>2
<1>6. CASE Persist
  <2>1. /\ wpc = "write" /\ \A k \in has[version] : temp[k] = version
        /\ out' = temp /\ wpc' = "top" /\ UNCHANGED <<values, temp, version, has>>
    BY <1>6 DEF Persist
  <2>2. temp = Round(version)
    BY <1>0, <2>1 DEF FileInv, TypeOK, TempPartial, Round
  <2>3. \A k \in FromFile : values[k].ver <= version
    BY <1>0 DEF FileInv, TypeOK, OutWhole, FromFile
  <2>4. OutWhole'
    BY <1>0, <2>1, <2>2, <2>3 DEF OutWhole, Round, FromFile
  <2>5. TempPartial' /\ WholeRounds'
    BY <1>0, <2>1 DEF FileInv, TempPartial, WholeRounds, FromFile
  <2> QED
    BY <2>4, <2>5
<1>7. ASSUME UNCHANGED <<temp, version, has, wpc>>
      PROVE  TempPartial'
  BY <1>0, <1>7 DEF FileInv, TempPartial
<1>8. CASE ReadPath
  BY <1>0, <1>7, <1>8, ReadsWhole DEF ReadPath
<1>9. CASE WatchFails \/ NoActivePanel
  <2>1. values' = [k \in Key |-> Unset] /\ UNCHANGED <<out, temp, version, has, wpc>>
    BY <1>9 DEF WatchFails, NoActivePanel, Exit
  <2>2. FromFile' = {}
    BY <2>1 DEF FromFile, Unset
  <2> QED
    BY <1>0, <1>7, <2>1, <2>2 DEF FileInv, OutWhole, WholeRounds, Round
<1>10. CASE HandleEvent
  <2>1. /\ UNCHANGED <<out, temp, version, has, wpc>>
        /\ values' = values \/ values' = WithFile(out)
    BY <1>10 DEF HandleEvent, IsSensorFile
  <2> QED
    BY <1>0, <1>1, <1>7, <2>1, ReadsWhole
<1>11. CASE Tick
  <2>1. /\ UNCHANGED <<out, temp, version, has, wpc>>
        /\ values' = values \/ values' = WithSnapshot(published)
    BY <1>11 DEF Tick
  <2>2. CASE values' = WithSnapshot(published)
    <3>1. \A k \in FromFile' : k \in FromFile /\ values'[k] = values[k]
      BY <2>2 DEF WithSnapshot, FromFile
    <3>2. OutWhole'
      BY <1>0, <2>1, <3>1 DEF FileInv, OutWhole, Round
    <3>3. WholeRounds'
      BY <1>0, <2>1, <3>1 DEF FileInv, WholeRounds
    <3> QED
      BY <1>7, <2>1, <3>2, <3>3
  <2> QED
    BY <1>1, <2>1, <2>2
<1>12. CASE UNCHANGED vars
  BY <1>1, <1>12 DEF vars
<1> QED
  BY <1>2, <1>3, <1>4, <1>5, <1>6, <1>8, <1>9, <1>10, <1>11, <1>12 DEF Next, Sysinfo, Slurper, PanelLoop

(* No half of a round of aster-sysinfo gets into the values, for any set   *)
(* of keys, any keys that its rounds have, and any number of kills.        *)
THEOREM RoundsStayWhole == Spec => []WholeRounds
<1>1. Init => FileInv
  <2> SUFFICES ASSUME Init PROVE FileInv
    OBVIOUS
  <2>1. TypeOK
    BY TypeInit
  <2>2. out = Round(0) /\ version = 0 /\ FromFile = {} /\ wpc = "start"
    BY DEF Init, Round, Absent, FromFile, Unset
  <2> QED
    BY <2>1, <2>2 DEF FileInv, OutWhole, TempPartial, WholeRounds
<1>2. FileInv /\ [Next]_vars => FileInv'
  BY WholeNext, TypeNext DEF FileInv
<1>3. FileInv => WholeRounds
  BY DEF FileInv
<1> QED
  BY <1>1, <1>2, <1>3, PTL DEF Spec

-----------------------------------------------------------------------------
(* The cycle of the active panels.                                         *)

\* The panel on the screen is the one whose turn it is; there is one while asterctl draws.
TurnInv ==
  /\ apc = "tick" => idx > 0
  /\ idx > 0 => \E i \in Slots(config) : Rank(config, i) = idx /\ shown = config.active[i]

LEMMA TurnNext ==
  ASSUME TypeOK, TurnInv, [Next]_vars
  PROVE  TurnInv'
<1> USE DEF panelVars
<1>0. config \in Loaded
  BY DEF TypeOK, Loaded
<1>1. ASSUME UNCHANGED <<config, apc, idx, shown>> PROVE TurnInv'
  BY <1>1 DEF TurnInv, Slots, Rank
<1>2. CASE Sysinfo \/ SysinfoRestarts \/ Publish \/ Watch \/ HandleEvent \/ Tick
  BY <1>1, <1>2
     DEF Sysinfo, MakeDir, CreateTemp, WriteLine, Persist, SysinfoRestarts, Publish, Watch,
         HandleEvent, Tick
<1>3. ASSUME UNCHANGED <<config, idx, shown>>, apc' # "tick" PROVE TurnInv'
  BY <1>3 DEF TurnInv, Slots, Rank
<1>4. CASE Start \/ ReadPath \/ TurnEnds
  BY <1>3, <1>4 DEF Start, ReadPath, TurnEnds
<1>5. CASE WatchFails \/ NoActivePanel
  BY <1>5 DEF WatchFails, NoActivePanel, Exit, TurnInv
<1>6. CASE SwitchPanel
  <2>1. PICK i \in Slots(config) : idx' = Rank(config, i) /\ shown' = config.active[i]
    BY <1>6 DEF SwitchPanel
  <2>2. Rank(config, i) > 0
    BY <1>0, RankType
  <2>3. config' = config
    BY <1>6 DEF SwitchPanel
  <2> QED
    BY <2>1, <2>2, <2>3 DEF TurnInv
<1>7. CASE UNCHANGED vars
  BY <1>1, <1>7 DEF vars
<1> QED
  BY <1>2, <1>4, <1>5, <1>6, <1>7 DEF Next, Slurper, PanelLoop

\* Whatever panel comes next, it is the one of the active entry after the last one, or the first.
GoesRound ==
  [][SwitchPanel =>
       \E i \in Slots(config) :
         /\ shown' = config.active[i]
         /\ Rank(config, i) = IF idx = Cardinality(Slots(config)) THEN 1 ELSE idx + 1]_vars

(* get_next_active_panel (cfg.rs:161-198): the turn goes round all the     *)
(* active entries, none skipped and none twice, however many panels are    *)
(* defined or active and wherever the zeros are.                           *)
THEOREM ActiveInTurn == Spec => []TurnInv /\ GoesRound
<1>1. Init => TurnInv
  BY DEF Init, TurnInv
<1>2. ASSUME TypeOK, TurnInv, SwitchPanel
      PROVE  \E i \in Slots(config) :
               /\ shown' = config.active[i]
               /\ Rank(config, i) = IF idx = Cardinality(Slots(config)) THEN 1 ELSE idx + 1
  <2>1. config \in Loaded /\ idx \in Nat
    BY <1>2 DEF TypeOK, Loaded
  <2>2. PICK i \in Slots(config) : Rank(config, i) = NextTurn(config) /\ shown' = config.active[i]
    BY <1>2 DEF SwitchPanel
  <2>3. Cardinality(Slots(config)) \in Nat
    BY <2>1, SlotsFinite
  <2>4. idx <= Cardinality(Slots(config))
    BY <1>2, <2>1, <2>3, RankType DEF TurnInv
  <2>5. NextTurn(config) = IF idx = Cardinality(Slots(config)) THEN 1 ELSE idx + 1
    BY <2>1, <2>3, <2>4 DEF NextTurn
  <2> QED
    BY <2>2, <2>5
<1>3. TypeOK /\ TurnInv /\ [Next]_vars =>
        [SwitchPanel =>
           \E i \in Slots(config) :
             /\ shown' = config.active[i]
             /\ Rank(config, i) = IF idx = Cardinality(Slots(config)) THEN 1 ELSE idx + 1]_vars
  BY <1>2
<1> QED
  BY <1>1, <1>3, TurnNext, TypeCorrect, PTL DEF Spec, GoesRound

(* main.rs:700-704 with cfg.rs:161-198: with a configuration whose active  *)
(* entries name panels that are there, the search for the next panel never *)
(* comes back empty, so that asterctl never ends for want of a panel.      *)
NeverWithoutPanel == [][Works(config) => ~NoActivePanel]_vars

THEOREM WorkingGoesOn == Spec => NeverWithoutPanel
<1>1. TypeOK => [Works(config) => ~NoActivePanel]_vars
  <2> SUFFICES ASSUME TypeOK, Works(config), NoActivePanel
               PROVE  FALSE
    OBVIOUS
  <2>1. config \in Loaded /\ idx \in Nat
    BY DEF TypeOK, Loaded
  <2>2. PICK e \in DOMAIN config.active : config.active[e] > 0
    BY DEF Works
  <2>3. Cardinality(Slots(config)) \in Nat \ {0}
    <3>1. e \in Slots(config)
      BY <2>2 DEF Slots
    <3> QED
      BY <2>1, <3>1, SlotsFinite, FS_EmptySet
  <2>4. NextTurn(config) \in 1..Cardinality(Slots(config))
    BY <2>1, <2>3 DEF NextTurn
  <2>5. PICK i \in Slots(config) : Rank(config, i) = NextTurn(config)
    BY <2>1, <2>4, EntriesNumbered
  <2>6. IsDefined(config.active[i], config)
    <3>1. i \in DOMAIN config.active /\ config.active[i] > 0
      BY DEF Slots
    <3>2. config.active[i] \in Nat /\ config.panels \in Nat
      BY <2>1, <3>1 DEF Loaded
    <3>3. config.active[i] <= config.panels
      BY <3>1 DEF Works
    <3> QED
      BY <3>1, <3>2, <3>3 DEF IsDefined
  <2> QED
    BY <2>5, <2>6 DEF NoActivePanel
<1> QED
  BY <1>1, TypeCorrect, PTL DEF Spec, NeverWithoutPanel
=============================================================================
