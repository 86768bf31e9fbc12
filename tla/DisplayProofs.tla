--------------------------- MODULE DisplayProofs ---------------------------
(***************************************************************************)
(* Safety of the display switch, for any number of events and of failing   *)
(* commands.                                                               *)
(***************************************************************************)
EXTENDS Display, TLAPS

\* The parts of TypeOK: what the launcher has, the file, what asterctl has.
ControlTypes ==
  /\ windows \in BOOLEAN /\ mode \in Mode
  /\ screen \in BOOLEAN /\ screenWake \in BOOLEAN /\ seen \in BOOLEAN /\ suspendOff \in BOOLEAN
  /\ launcher \in {"up", "quit", "off", "killing", "exited", "gone"}

FileTypes ==
  /\ writing \in [Writer -> {"none", "on", "off"}]
  /\ file \in {"on", "off", "empty"}
  /\ stale \in BOOLEAN

AsterctlTypes ==
  /\ apc \in {"dead", "poll", "apply", "bye", "reconnect"}
  /\ displayOn \in BOOLEAN /\ want \in BOOLEAN /\ leaving \in BOOLEAN
  /\ told \in BOOLEAN /\ lcd \in BOOLEAN

BoundTypes == events \in 0..MaxEvents /\ failures \in 0..MaxFailures

Types == ControlTypes /\ FileTypes /\ AsterctlTypes /\ BoundTypes /\ orderly \in BOOLEAN

LEMMA TypeParts == (TypeOK <=> Types) /\ (TypeOK' <=> Types')
  BY DEF Types, TypeOK, ControlTypes, FileTypes, AsterctlTypes, BoundTypes

LEMMA TypeInit == Init => TypeOK
<1> SUFFICES ASSUME Init PROVE TypeOK
  OBVIOUS
<1>1. FileTypes
  BY DEF Init, Text, FileTypes
<1>2. BoundTypes
  BY DisplayAssumption DEF Init, BoundTypes
<1>3. ControlTypes
  BY DisplayAssumption DEF Init, ControlTypes, Mode, Selected
<1>4. AsterctlTypes /\ orderly \in BOOLEAN
  BY DEF Init, AsterctlTypes
<1> QED
  BY <1>1, <1>2, <1>3, <1>4, TypeParts DEF Types

\* A writer truncates: what it holds for the file is a text of the file.
LEMMA TruncateType ==
  ASSUME FileTypes, NEW w \in Writer, NEW on, Truncate(w, on)
  PROVE  FileTypes'
  BY DEF FileTypes, Truncate, Text

LEMMA StartType ==
  ASSUME FileTypes, NEW w \in Writer, NEW on, StartWrite(w, on)
  PROVE  FileTypes'
<1>1. CASE Truncate(w, on)
  BY <1>1, TruncateType
<1>2. CASE UNCHANGED fileVars
  BY <1>2 DEF FileTypes, fileVars
<1> QED
  BY <1>1, <1>2 DEF StartWrite

\* What the launcher has and the file, in a step of the launcher.
LEMMA ControlStep ==
  ASSUME ControlTypes, FileTypes, Launcher
  PROVE  ControlTypes' /\ FileTypes'
<1> USE DEF Writer
<1>1. ASSUME NEW w \in Writer, Put(w) PROVE ControlTypes' /\ FileTypes'
  <2>1. FileTypes'
    BY <1>1 DEF FileTypes, Put
  <2>2. mode' \in Mode
    BY <1>1 DEF ControlTypes, FileTypes, Put, Mode
  <2> QED
    BY <1>1, <2>1, <2>2 DEF ControlTypes, Put
<1>10. ASSUME NEW w \in Writer, PutFails(w) PROVE ControlTypes' /\ FileTypes'
  BY <1>10 DEF ControlTypes, FileTypes, PutFails, controlVars
<1>2. CASE Heartbeat
  BY <1>2, StartType DEF ControlTypes, Heartbeat, controlVars
<1>3. ASSUME NEW m \in Mode, Apply(m) PROVE ControlTypes' /\ FileTypes'
  <2>1. FileTypes'
    BY <1>3, StartType DEF Apply, WriteForMode, ApplyLinux
  <2> QED
    BY <1>3, <2>1 DEF ControlTypes, Apply, WriteForMode, ApplyLinux
<1>4. CASE ScreenChanges
  BY <1>4 DEF ControlTypes, FileTypes, ScreenChanges, fileVars
<1>5. CASE FollowWakes
  <2>1. FileTypes'
    BY <1>5, StartType DEF FollowWakes, FileTypes, fileVars
  <2> QED
    BY <1>5, <2>1 DEF ControlTypes, FollowWakes, Published
<1>6. CASE Suspend \/ Resume
  <2>1. FileTypes'
    BY <1>6, StartType DEF Suspend, Resume
  <2> QED
    BY <1>6, <2>1 DEF ControlTypes, Suspend, Resume
<1>7. CASE Quit \/ KillAll \/ GrowsStale
  BY <1>7 DEF ControlTypes, FileTypes, Quit, KillAll, GrowsStale, fileVars, controlVars
<1>8. CASE ForceOff
  <2>1. FileTypes'
    BY <1>8, StartType DEF ForceOff
  <2> QED
    BY <1>8, <2>1 DEF ControlTypes, ForceOff
<1>9. CASE Exit \/ Killed
  BY <1>9 DEF ControlTypes, FileTypes, Exit, Killed
<1> QED
  BY <1>1, <1>2, <1>3, <1>4, <1>5, <1>6, <1>7, <1>8, <1>9, <1>10 DEF Launcher, Write

\* The launcher does not touch what asterctl knows of the panel.
LEMMA ControlQuiet ==
  ASSUME Launcher \/ UNCHANGED vars
  PROVE  /\ UNCHANGED <<displayOn, want, leaving, told, lcd>>
         /\ apc' \in {apc, "dead"}
         /\ failures' = failures \/ Fails
  BY DEF Launcher, Write, Put, PutFails, Heartbeat, Apply, WriteForMode, ApplyLinux,
           StartWrite, ScreenChanges,
         FollowWakes, Suspend, Resume, Quit, ForceOff, KillAll, Exit, Killed, GrowsStale, vars, systemVars, asterctlVars

LEMMA EventsType ==
  ASSUME BoundTypes, Launcher
  PROVE  BoundTypes'
<1>1. events' = events \/ (events' = events + 1 /\ events < MaxEvents)
  BY DisplayAssumption DEF BoundTypes, Launcher, Write, Put, PutFails, Heartbeat, Apply, WriteForMode,
     ApplyLinux, StartWrite, ScreenChanges, FollowWakes, Suspend, Resume, Quit, ForceOff, KillAll, Exit, Killed, GrowsStale, Counted
<1>2. failures' = failures \/ Fails
  BY ControlQuiet
<1>3. events' \in 0..MaxEvents
  BY <1>1, DisplayAssumption DEF BoundTypes
<1>4. failures' \in 0..MaxFailures
  BY <1>2, DisplayAssumption DEF BoundTypes, Fails
<1> QED
  BY <1>3, <1>4 DEF BoundTypes

\* What asterctl has, in a step of its own.
LEMMA AsterctlStep ==
  ASSUME AsterctlTypes, BoundTypes, Process
  PROVE  AsterctlTypes' /\ BoundTypes' /\ UNCHANGED <<controlVars, fileVars>>
<1>1. CASE Start \/ StartFails \/ Die
  BY <1>1 DEF AsterctlTypes, BoundTypes, Start, StartFails, Die
<1>2. CASE PollLive
  BY <1>2 DEF AsterctlTypes, BoundTypes, PollLive, ReadsOn
<1>3. CASE PollDead \/ ApplyOk \/ ByeOk
  BY <1>3 DEF AsterctlTypes, BoundTypes, PollDead, ApplyOk, ByeOk
<1>4. CASE CommandFails
  <2>1. failures' \in 0..MaxFailures
    BY <1>4, DisplayAssumption DEF BoundTypes, CommandFails, Fails
  <2> QED
    BY <1>4, <2>1 DEF AsterctlTypes, BoundTypes, CommandFails
<1>5. CASE Reconnected
  BY <1>5 DEF AsterctlTypes, BoundTypes, Reconnected, Lit
<1> QED
  BY <1>1, <1>2, <1>3, <1>4, <1>5 DEF Process, Asterctl

\* No step takes a failure back.
LEMMA StaysUnfailing ==
  ASSUME TypeOK, [Next]_vars, failures' = 0
  PROVE  failures = 0 /\ ~Fails
<1>1. failures \in Nat
  <2>1. BoundTypes
    BY TypeParts DEF Types
  <2> QED
    BY <2>1, DisplayAssumption DEF BoundTypes
<1>2. ~Fails
  BY <1>1 DEF Fails
<1>3. failures' = failures \/ Fails
  <2>1. CASE Launcher \/ UNCHANGED vars
    BY <2>1, ControlQuiet
  <2>2. CASE Process
    BY <2>2 DEF Process, Asterctl, Start, StartFails, Die, PollLive, PollDead, ApplyOk, ByeOk,
       CommandFails, Reconnected
  <2> QED
    BY <2>1, <2>2 DEF Next
<1> QED
  BY <1>2, <1>3

LEMMA TypeNext == TypeOK /\ [Next]_vars => TypeOK'
<1> SUFFICES ASSUME TypeOK, [Next]_vars PROVE TypeOK'
  OBVIOUS
<1>1. CASE UNCHANGED vars
  BY <1>1 DEF TypeOK, vars, systemVars, controlVars, fileVars, asterctlVars
<1>2. ASSUME Next PROVE orderly' \in BOOLEAN
  BY <1>2 DEF Next, Remembered
<1>3. ASSUME Next, Launcher PROVE TypeOK'
  <2>1. AsterctlTypes'
    BY <1>3, ControlQuiet, TypeParts DEF Types, AsterctlTypes
  <2> QED
    BY <1>2, <1>3, <2>1, ControlStep, EventsType, TypeParts DEF Types
<1>4. ASSUME Next, Process PROVE TypeOK'
  <2>1. ControlTypes' /\ FileTypes'
    BY <1>4, AsterctlStep, TypeParts DEF Types, ControlTypes, FileTypes, controlVars, fileVars
  <2> QED
    BY <1>2, <1>4, <2>1, AsterctlStep, TypeParts DEF Types
<1> QED
  BY <1>1, <1>3, <1>4 DEF Next

(* The display control and asterctl keep their types: the file never holds *)
(* anything but "on", "off" or nothing.                                    *)
THEOREM TypeCorrect == Spec => []TypeOK
  BY TypeInit, TypeNext, PTL DEF Spec

-----------------------------------------------------------------------------
LEMMA OnMeansLitNext ==
  ASSUME TypeOK, OnMeansLit, [Next]_vars
  PROVE  OnMeansLit'
<1>1. CASE Start \/ StartFails \/ Die
  BY <1>1 DEF OnMeansLit, Start, StartFails, Die
<1>2. CASE PollLive \/ PollDead
  BY <1>2 DEF OnMeansLit, PollLive, PollDead
<1>3. CASE ApplyOk \/ ByeOk
  BY <1>3 DEF TypeOK, OnMeansLit, ApplyOk, ByeOk
<1>4. CASE CommandFails
  BY <1>4 DEF OnMeansLit, CommandFails
<1>5. CASE Reconnected
  BY <1>5 DEF OnMeansLit, Reconnected, Lit
<1>6. CASE Launcher \/ UNCHANGED vars
  BY <1>6, ControlQuiet DEF OnMeansLit
<1> QED
  BY <1>1, <1>2, <1>3, <1>4, <1>5, <1>6 DEF Next, Process, Asterctl

(* asterctl never believes a dark panel to be lit between two commands,    *)
(* however many commands failed and whatever they had done to the panel.   *)
THEOREM BelievedOnIsLit == Spec => []OnMeansLit
<1>1. Init => OnMeansLit
  BY DEF Init, OnMeansLit
<1> QED
  BY <1>1, TypeInit, TypeNext, OnMeansLitNext, PTL DEF Spec

-----------------------------------------------------------------------------
(* The shutdown.                                                           *)

\* While no command has failed asterctl knows what the panel shows.
KnowsInv ==
  failures = 0 =>
    /\ apc # "reconnect"
    /\ apc \in {"poll", "apply", "bye"} => lcd = displayOn

\* Neither age nor poll of the file is from before the shutdown.
AgeInv ==
  /\ stale => ~Up
  /\ told => launcher \notin {"up", "quit"}

\* In an orderly shutdown without a failure nobody takes the off from the file.
OffInv ==
  orderly /\ failures = 0 =>
    /\ launcher \in {"off", "killing", "exited", "gone"}
    /\ launcher = "off" =>
         apc # "dead" /\ (writing["main"] = "off" \/ (writing["main"] = "none" /\ file = "off"))
    /\ launcher = "killing" => writing["main"] = "none" /\ file = "off"

\* What asterctl makes of it.
DarkInv ==
  orderly /\ failures = 0 =>
    /\ launcher = "off" /\ told =>
         (apc = "poll" /\ ~displayOn) \/ (apc = "apply" /\ ~want)
    /\ launcher = "killing" => (apc = "poll" /\ ~displayOn) \/ (apc = "dead" /\ ~lcd)
    /\ launcher = "exited" => apc = "dead" /\ ~lcd

QuitInv == TypeOK /\ KnowsInv /\ AgeInv /\ OffInv /\ DarkInv

LEMMA KnowsNext ==
  ASSUME TypeOK, KnowsInv, [Next]_vars
  PROVE  KnowsInv'
<1> SUFFICES ASSUME failures' = 0
             PROVE  /\ apc' # "reconnect"
                    /\ apc' \in {"poll", "apply", "bye"} => lcd' = displayOn'
  BY DEF KnowsInv
<1> failures = 0 /\ ~Fails
  BY StaysUnfailing
<1>1. CASE Launcher \/ UNCHANGED vars
  <2>1. apc # "reconnect" /\ (apc \in {"poll", "apply", "bye"} => lcd = displayOn)
    BY <1>1, ControlQuiet DEF KnowsInv
  <2> QED
    BY <1>1, <2>1, ControlQuiet
<1>2. CASE Start \/ StartFails \/ Die
  BY <1>2 DEF KnowsInv, Start, StartFails, Die
<1>3. CASE PollLive \/ PollDead
  BY <1>3 DEF KnowsInv, PollLive, PollDead
<1>4. CASE ApplyOk \/ ByeOk
  BY <1>4 DEF ApplyOk, ByeOk
<1>5. CASE CommandFails
  BY <1>5 DEF CommandFails
<1>6. CASE Reconnected
  BY <1>6 DEF KnowsInv, Reconnected
<1> QED
  BY <1>1, <1>2, <1>3, <1>4, <1>5, <1>6 DEF Next, Process, Asterctl

LEMMA AgeNext ==
  ASSUME TypeOK, AgeInv, [Next]_vars
  PROVE  AgeInv'
<1>1. CASE UNCHANGED vars
  BY <1>1 DEF AgeInv, Up, vars, systemVars, controlVars, fileVars, asterctlVars
<1>2. CASE Launcher
  <2>1. told' = told
    BY <1>2, ControlQuiet
  <2>2. stale' => ~Up'
    BY <1>2 DEF AgeInv, Launcher, Write, Put, PutFails, Heartbeat, Apply, WriteForMode, ApplyLinux,
           StartWrite, ScreenChanges,
       FollowWakes, Suspend, Resume, Quit, ForceOff, KillAll, Exit, Killed, GrowsStale, Truncate, Up,
       controlVars, fileVars
  <2>3. launcher \notin {"up", "quit"} => launcher' \notin {"up", "quit"}
    BY <1>2 DEF Launcher, Write, Put, PutFails, Heartbeat, Apply, WriteForMode, ApplyLinux,
           StartWrite, ScreenChanges,
       FollowWakes, Suspend, Resume, Quit, ForceOff, KillAll, Exit, Killed, GrowsStale, controlVars
  <2> QED
    BY <2>1, <2>2, <2>3 DEF AgeInv
<1>3. CASE Process
  <2>1. UNCHANGED <<launcher, stale>>
    BY <1>3, AsterctlStep, TypeParts DEF Types, controlVars, fileVars
  <2>2. told' => told \/ launcher \in {"off", "killing"}
    BY <1>3 DEF Process, Asterctl, Start, StartFails, Die, PollLive, PollDead, ApplyOk, ByeOk,
       CommandFails, Reconnected
  <2> QED
    BY <2>1, <2>2 DEF AgeInv, Up
<1> QED
  BY <1>1, <1>2, <1>3 DEF Next

\* Who ends the shutdown's hold on the file also ends "orderly".
LEMMA OffNext ==
  ASSUME TypeOK, OffInv, [Next]_vars
  PROVE  OffInv'
<1> SUFFICES ASSUME failures' = 0 PROVE OffInv'
  BY DEF OffInv
<1> failures = 0 /\ ~Fails
  BY StaysUnfailing
<1>1. CASE UNCHANGED vars
  BY <1>1 DEF OffInv, vars, systemVars, controlVars, fileVars, asterctlVars
<1>2. ASSUME Next, Process PROVE OffInv'
  <2>1. UNCHANGED <<launcher, writing, file>>
    BY <1>2, AsterctlStep, TypeParts DEF Types, controlVars, fileVars
  <2>2. orderly' => orderly /\ (launcher' = "off" => apc' # "dead")
    BY <1>2, <2>1 DEF Next, Remembered
  <2> QED
    BY <2>1, <2>2 DEF OffInv
<1>3. ASSUME Next, Launcher PROVE OffInv'
  <2> SUFFICES ASSUME orderly' PROVE OffInv'
    BY DEF OffInv
  <2>1. CASE launcher = "quit" /\ launcher' = "off" /\ apc # "dead"
    <3>1. ForceOff
      BY <1>3, <2>1 DEF Launcher, Write, Put, PutFails, Heartbeat, Apply, WriteForMode, ApplyLinux,
           StartWrite, ScreenChanges,
       FollowWakes, Suspend, Resume, Quit, KillAll, Exit, Killed, GrowsStale, controlVars
    <3> QED
      BY <2>1, <3>1 DEF TypeOK, OffInv, ForceOff, StartWrite, Truncate, Text, Writer, asterctlVars
  <2>2. CASE /\ orderly
             /\ launcher' # "exited" => \A w \in Writer \ {"main"} : writing'[w] = writing[w]
             /\ launcher' = "off" => apc' # "dead"
    <3>1. launcher \in {"off", "killing", "exited", "gone"}
      BY <2>2 DEF OffInv
    <3>2. CASE Exit \/ Killed
      BY <3>2 DEF OffInv, Exit, Killed
    <3>3. CASE KillAll
      BY <2>2, <3>3 DEF OffInv, KillAll, fileVars
    <3>4. CASE GrowsStale \/ ScreenChanges
      BY <2>2, <3>4 DEF OffInv, GrowsStale, ScreenChanges, controlVars, fileVars, asterctlVars
    <3>5. ASSUME NEW w \in Writer, Put(w) PROVE OffInv'
      <4>1. CASE w = "main"
        BY <2>2, <3>5, <4>1 DEF TypeOK, OffInv, Put, Writer, asterctlVars
      <4>2. CASE w # "main"
        <5>1. writing'[w] = "none" /\ writing[w] # "none" /\ launcher' = launcher
          BY <3>5 DEF TypeOK, Put
        <5>2. launcher = "exited"
          BY <2>2, <4>2, <5>1
        <5> QED
          BY <5>1, <5>2 DEF OffInv
      <4> QED
        BY <4>1, <4>2
    <3>6. ASSUME NEW w \in Writer \ {"main"}, NEW on, StartWrite(w, on), Up, launcher' = launcher
          PROVE  FALSE
      <4>1. writing'[w] # writing[w]
        BY <3>6 DEF TypeOK, StartWrite, Truncate, Text
      <4> QED
        BY <2>2, <3>6, <4>1 DEF Up
    <3>7. CASE FollowWakes
      <4>1. CASE UNCHANGED fileVars
        BY <2>2, <3>7, <4>1 DEF OffInv, FollowWakes, fileVars, asterctlVars
      <4>2. CASE StartWrite("follow", ~suspendOff /\ screen)
        BY <3>6, <3>7, <4>2 DEF FollowWakes, Writer
      <4> QED
        BY <3>7, <4>1, <4>2 DEF FollowWakes
    <3>8. CASE Suspend \/ Resume
      BY <3>6, <3>8 DEF Suspend, Resume, Writer
    <3>9. ASSUME NEW m \in Mode, Apply(m) PROVE FALSE
      BY <3>6, <3>9 DEF Apply, WriteForMode, ApplyLinux, Writer
    <3>10. ASSUME NEW w \in Writer, PutFails(w) PROVE FALSE
      BY <3>10 DEF PutFails
    <3>11. ~Heartbeat /\ ~Quit /\ ~ForceOff
      BY <3>1 DEF Heartbeat, Quit, ForceOff
    <3> QED
      BY <1>3, <3>2, <3>3, <3>4, <3>5, <3>7, <3>8, <3>9, <3>10, <3>11 DEF Launcher, Write
  <2> QED
    BY <1>3, <2>1, <2>2 DEF Next, Remembered
<1> QED
  BY <1>1, <1>2, <1>3 DEF Next

LEMMA DarkNext ==
  ASSUME QuitInv, [Next]_vars
  PROVE  DarkInv'
<1> USE DEF QuitInv
<1>1. CASE UNCHANGED vars
  BY <1>1 DEF DarkInv, vars, systemVars, controlVars, fileVars, asterctlVars
<1>2. ASSUME Next, Launcher, orderly', failures' = 0 PROVE DarkInv'
  <2>1. UNCHANGED <<displayOn, want, told, lcd>> /\ failures = 0 /\ apc' \in {apc, "dead"}
    BY <1>2, ControlQuiet, StaysUnfailing
  <2>2. CASE launcher = "quit" /\ launcher' = "off"
    BY <2>1, <2>2 DEF DarkInv, AgeInv
  <2>3. CASE orderly
    <3>1. CASE KillAll
      <4>1. apc = "poll" /\ told
        BY <2>1, <2>3, <3>1 DEF KillAll, GraceOver, OffInv, KnowsInv
      <4>2. ~displayOn /\ ~lcd
        BY <2>1, <2>3, <3>1, <4>1 DEF KillAll, DarkInv, KnowsInv
      <4> QED
        BY <2>1, <3>1, <4>1, <4>2 DEF KillAll, DarkInv
    <3>2. CASE Exit
      BY <2>1, <2>3, <3>2 DEF Exit, DarkInv, asterctlVars
    <3>3. CASE Killed
      BY <3>3 DEF Killed, DarkInv
    <3>4. CASE ~KillAll /\ ~Exit /\ ~Killed
      <4>1. launcher \notin {"up", "quit"}
        BY <2>1, <2>3 DEF OffInv
      <4>2. launcher' = launcher /\ apc' = apc
        BY <1>2, <3>4, <4>1 DEF Launcher, Write, Put, PutFails, Heartbeat, Apply, WriteForMode, ApplyLinux,
           StartWrite, ScreenChanges,
           FollowWakes, Suspend, Resume, Quit, ForceOff, GrowsStale, controlVars, asterctlVars
      <4> QED
        BY <2>1, <2>3, <4>2 DEF DarkInv
    <3> QED
      BY <3>1, <3>2, <3>3, <3>4
  <2> QED
    BY <1>2, <2>2, <2>3 DEF Next, Remembered
<1>3. ASSUME Next, Process, orderly', failures' = 0 PROVE DarkInv'
  <2>1. UNCHANGED <<launcher, writing, file>>
    BY <1>3, AsterctlStep, TypeParts DEF Types, controlVars, fileVars
  <2>2. orderly /\ (launcher = "off" => apc' # "dead")
    BY <1>3, <2>1 DEF Next, Remembered
  <2>3. failures = 0 /\ ~CommandFails
    BY <1>3, StaysUnfailing DEF CommandFails
  <2>4. /\ launcher = "off" => apc # "dead"
        /\ apc # "reconnect"
        /\ apc \in {"poll", "apply", "bye"} => lcd = displayOn
    BY <2>2, <2>3 DEF OffInv, KnowsInv
  <2>5. CASE launcher \notin {"off", "killing", "exited"}
    BY <2>1, <2>5 DEF DarkInv
  <2>6. CASE launcher = "exited"
    <3>1. apc = "dead" /\ ~Starting
      BY <2>2, <2>3, <2>6 DEF DarkInv, Starting
    <3> QED
      BY <1>3, <2>3, <3>1 DEF Process, Asterctl, Start, StartFails, Die, PollLive,
         PollDead, ApplyOk, ByeOk, Reconnected
  <2>7. CASE launcher \in {"off", "killing"}
    <3>1. ~stale
      BY <2>7 DEF AgeInv, Up
    <3>2. CASE Start \/ StartFails \/ Die
      <4>1. launcher = "killing" /\ Die
        BY <2>2, <2>4, <2>7, <3>2 DEF Start, StartFails, Die, Starting, DarkInv
      <4>2. ~lcd
        BY <2>2, <2>3, <2>4, <4>1 DEF Die, DarkInv
      <4> QED
        BY <2>1, <4>1, <4>2 DEF Die, DarkInv
    <3>3. CASE PollLive
      <4>1. writing["main"] = "none" => file = "off"
        BY <2>2, <2>3, <2>7 DEF OffInv
      <4>2. CASE writing["main"] = "none"
        <5>1. want' = FALSE
          BY <3>3, <4>1, <4>2 DEF PollLive, ReadsOn
        <5>2. launcher = "killing" => ~displayOn
          BY <2>2, <2>3, <3>3 DEF DarkInv, PollLive
        <5> QED
          BY <2>1, <2>7, <3>3, <5>1, <5>2 DEF TypeOK, DarkInv, PollLive
      <4>3. CASE writing["main"] # "none"
        <5>1. launcher = "off" /\ ~told'
          BY <2>2, <2>3, <2>7, <3>3, <4>3 DEF OffInv, PollLive
        <5> QED
          BY <2>1, <5>1 DEF DarkInv
      <4> QED
        BY <4>2, <4>3
    <3>4. CASE ApplyOk
      BY <2>1, <2>2, <2>3, <2>7, <3>4 DEF DarkInv, ApplyOk
    <3>5. ~PollDead /\ ~Reconnected
      BY <2>4, <3>1 DEF PollDead, LauncherIsDead, Reconnected
    <3>6. CASE ByeOk
      BY <2>1, <2>2, <2>3, <2>7, <3>6 DEF DarkInv, ByeOk
    <3> QED
      BY <1>3, <2>3, <3>2, <3>3, <3>4, <3>5, <3>6 DEF Process, Asterctl
  <2> QED
    BY <2>5, <2>6, <2>7
<1> QED
  BY <1>1, <1>2, <1>3 DEF Next, DarkInv

(* The inductive invariant of the shutdown: what asterctl knows, who may   *)
(* still write the file, and what a poll since force_off has led to.       *)
THEOREM QuitInvariance == Spec => []QuitInv
<1>1. Init => QuitInv
  BY TypeInit DEF Init, QuitInv, KnowsInv, AgeInv, OffInv, DarkInv
<1>2. QuitInv /\ [Next]_vars => QuitInv'
  BY TypeNext, KnowsNext, AgeNext, OffNext, DarkNext DEF QuitInv
<1> QED
  BY <1>1, <1>2, PTL DEF Spec

(* An orderly quit leaves the panel dark, on both platforms and for any    *)
(* number of menu choices, screen changes and suspends before it.          *)
THEOREM QuitDarkens == Spec => []QuitEndsDark
<1>1. QuitInv => QuitEndsDark
  BY DEF QuitInv, DarkInv, QuitEndsDark
<1> QED
  BY <1>1, QuitInvariance, PTL
=============================================================================
