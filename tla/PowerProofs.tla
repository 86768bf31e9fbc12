---------------------------- MODULE PowerProofs ----------------------------
(***************************************************************************)
(* The power monitor composed with the launcher, for every set of          *)
(* children: the composition is a launcher in the sense of Supervisor, so  *)
(* what is proved there holds on Windows with the power monitor at work,   *)
(* and uart_lock keeps the two threads that write `suspended` apart.       *)
(***************************************************************************)
EXTENDS Power, SupervisorProofs

-----------------------------------------------------------------------------
(* The power monitor implements the environment that Supervisor assumes.   *)

LEMMA StutterInPower ==
  ASSUME \/ \E e \in Event : StoreEvent(e)
         \/ SignalWake \/ CooldownOver
         \/ \E m \in BOOLEAN : ReportStuck(m)
  PROVE  UNCHANGED vars
  BY DEF StoreEvent, SignalWake, CooldownOver, ReportStuck

\* The steps in which a thread of the power monitor sets a flag or visits a handle.
LEMMA VisitIsKill ==
  ASSUME TypeOK, NEW c \in Child, VisitHandle(c)
  PROVE  Environment \/ UNCHANGED vars
<1>1. UNCHANGED <<flagVars, watcherVars, mainVars, trayVars>> /\ TryKill(c)
  BY DEF VisitHandle
<1>2. proc \in [Child -> {"none", "running", "exited"}]
  BY DEF TypeOK
<1>3. PICK p \in KillOutcomes(c) : proc' = [proc EXCEPT ![c] = p]
  BY <1>1 DEF TryKill
<1>4. CASE p = proc[c]
  <2>1. proc' = proc
    BY <1>2, <1>3, <1>4
  <2> QED
    BY <1>1, <2>1 DEF vars
<1>5. CASE p # proc[c]
  <2>1. proc[c] = "running" /\ p = "exited"
    BY <1>3, <1>5 DEF KillOutcomes
  <2>2. ChildExits(c)
    BY <1>1, <1>3, <2>1 DEF ChildExits
  <2> QED
    BY <2>2 DEF Environment
<1> QED
  BY <1>4, <1>5

LEMMA DaemonStep ==
  ASSUME TypeOK, Daemon
  PROVE  Environment \/ UNCHANGED vars
<1>1. CASE Suspend
  BY <1>1 DEF Suspend, Environment
<1>2. CASE ResumeEnds
  BY <1>2 DEF ResumeEnds, Environment
<1>3. ASSUME NEW c \in Child, DaemonKill(c) PROVE Environment \/ UNCHANGED vars
  BY <1>3, VisitIsKill DEF DaemonKill
<1>4. CASE \/ DaemonWakes \/ TakeEvent \/ DaemonLocks \/ Blank
           \/ SuspendEnds \/ DaemonRestartsUart \/ Show
  BY <1>4 DEF DaemonWakes, TakeEvent, DaemonLocks, Blank, SuspendEnds, DaemonRestartsUart, Show
<1> QED
  BY <1>1, <1>2, <1>3, <1>4 DEF Daemon

LEMMA StuckStep ==
  ASSUME TypeOK, Stuck
  PROVE  Environment \/ UNCHANGED vars
<1>1. CASE StuckPause
  BY <1>1 DEF StuckPause, Environment
<1>2. CASE StuckEnds
  BY <1>2 DEF StuckEnds, Environment
<1>3. ASSUME NEW c \in Child, StuckKill(c) PROVE Environment \/ UNCHANGED vars
  BY <1>3, VisitIsKill DEF StuckKill
<1>4. CASE StuckStart \/ StuckPoll \/ StuckLocks \/ StuckForget \/ StuckRestartsUart
  BY <1>4 DEF StuckStart, StuckPoll, StuckLocks, StuckForget, StuckRestartsUart
<1> QED
  BY <1>1, <1>2, <1>3, <1>4 DEF Stuck

LEMMA PowerStep == TypeOK /\ [PowerNext]_allVars => [Next]_vars
<1> SUFFICES ASSUME TypeOK, [PowerNext]_allVars PROVE [Next]_vars
  OBVIOUS
<1>1. CASE Launcher
  BY <1>1 DEF Launcher, Next, Environment
<1>2. CASE UNCHANGED allVars
  BY <1>2 DEF allVars
<1>3. CASE Daemon \/ Stuck
  BY <1>3, DaemonStep, StuckStep DEF Next
<1>4. CASE \/ \E e \in Event : StoreEvent(e)
           \/ SignalWake \/ CooldownOver
           \/ \E m \in BOOLEAN : ReportStuck(m)
  BY <1>4, StutterInPower
<1> QED
  BY <1>1, <1>2, <1>3, <1>4 DEF PowerNext

(* The launcher with its power monitor is a launcher whose environment     *)
(* suspends and kills as Supervisor allows it.                             *)
THEOREM PowerImplementsSupervisor == PowerSpec => Spec
<1>1. PowerInit => Init
  BY DEF PowerInit
<1>2. TypeOK /\ [PowerNext]_allVars => TypeOK'
  BY PowerStep, TypeNext
<1> QED
  BY <1>1, <1>2, TypeInit, PowerStep, PTL DEF PowerSpec, Spec

(* With the power monitor at work, too, no child outlives the launcher.    *)
THEOREM NoChildOutlivesPower ==
  ASSUME ~TryWaitMayFail
  PROVE  PowerSpec => []NoOrphan
  BY PowerImplementsSupervisor, NoChildOutlives, PTL

-----------------------------------------------------------------------------
(* Type correctness.                                                       *)

LEMMA VisitType ==
  ASSUME PowerTypeOK, NEW c \in Child, VisitHandle(c)
  PROVE  TypeOK' /\ visit' \in SUBSET Child
  BY KillOutcome DEF PowerTypeOK, TypeOK, VisitHandle, flagVars, watcherVars, mainVars, trayVars

LEMMA DaemonType ==
  ASSUME PowerTypeOK, Daemon
  PROVE  PowerTypeOK'
<1> USE DEF DaemonLabel, DaemonHolds, Event
<1>1. TypeOK'
  <2>1. TypeOK /\ [Next]_vars
    BY DaemonStep DEF PowerTypeOK, Next
  <2> QED
    BY <2>1, TypeNext
<1>2. CASE DaemonWakes
  BY <1>1, <1>2 DEF PowerTypeOK, DaemonWakes, stuckVars
<1>3. CASE TakeEvent
  BY <1>1, <1>3 DEF PowerTypeOK, TakeEvent, HandledAfter, stuckVars
<1>4. CASE DaemonLocks
  BY <1>1, <1>4 DEF PowerTypeOK, DaemonLocks, LockFree, stuckVars
<1>5. CASE Blank
  BY <1>1, <1>5 DEF PowerTypeOK, Blank, stuckVars
<1>6. CASE Suspend
  BY <1>1, <1>6 DEF PowerTypeOK, Suspend, stuckVars
<1>7. ASSUME NEW c \in Child, DaemonKill(c) PROVE PowerTypeOK'
  BY <1>1, <1>7, VisitType DEF PowerTypeOK, DaemonKill, daemonVars, stuckVars
<1>8. CASE SuspendEnds
  BY <1>1, <1>8 DEF PowerTypeOK, SuspendEnds, stuckVars
<1>9. CASE DaemonRestartsUart
  BY <1>1, <1>9 DEF PowerTypeOK, DaemonRestartsUart, stuckVars
<1>10. CASE Show
  BY <1>1, <1>10 DEF PowerTypeOK, Show, stuckVars
<1>11. CASE ResumeEnds
  BY <1>1, <1>11 DEF PowerTypeOK, ResumeEnds, stuckVars
<1> QED
  BY <1>2, <1>3, <1>4, <1>5, <1>6, <1>7, <1>8, <1>9, <1>10, <1>11 DEF Daemon

LEMMA StuckType ==
  ASSUME PowerTypeOK, Stuck
  PROVE  PowerTypeOK'
<1> USE DEF StuckLabel, StuckHolds, Event
<1>1. TypeOK'
  <2>1. TypeOK /\ [Next]_vars
    BY StuckStep DEF PowerTypeOK, Next
  <2> QED
    BY <2>1, TypeNext
<1>2. CASE StuckStart
  BY <1>1, <1>2 DEF PowerTypeOK, StuckStart, daemonVars
<1>3. CASE StuckPoll
  BY <1>1, <1>3 DEF PowerTypeOK, StuckPoll, daemonVars
<1>4. CASE StuckLocks
  BY <1>1, <1>4 DEF PowerTypeOK, StuckLocks, LockFree, daemonVars
<1>5. CASE StuckPause
  BY <1>1, <1>5 DEF PowerTypeOK, StuckPause, daemonVars
<1>6. ASSUME NEW c \in Child, StuckKill(c) PROVE PowerTypeOK'
  BY <1>1, <1>6, VisitType DEF PowerTypeOK, StuckKill, daemonVars, stuckVars
<1>7. CASE StuckForget
  BY <1>1, <1>7 DEF PowerTypeOK, StuckForget, daemonVars
<1>8. CASE StuckRestartsUart
  BY <1>1, <1>8 DEF PowerTypeOK, StuckRestartsUart, daemonVars
<1>9. CASE StuckEnds
  BY <1>1, <1>9 DEF PowerTypeOK, StuckEnds, daemonVars
<1> QED
  BY <1>2, <1>3, <1>4, <1>5, <1>6, <1>7, <1>8, <1>9 DEF Stuck

LEMMA PowerTypeNext == PowerTypeOK /\ [PowerNext]_allVars => PowerTypeOK'
<1> SUFFICES ASSUME PowerTypeOK, [PowerNext]_allVars PROVE PowerTypeOK'
  OBVIOUS
<1>1. TypeOK'
  BY PowerStep, TypeNext DEF PowerTypeOK
<1>2. CASE Launcher \/ UNCHANGED allVars
  BY <1>1, <1>2 DEF PowerTypeOK, Launcher, allVars, powerVars, daemonVars, stuckVars
<1>3. ASSUME NEW e \in Event, StoreEvent(e) PROVE PowerTypeOK'
  BY <1>1, <1>3 DEF PowerTypeOK, StoreEvent, stuckVars
<1>4. CASE SignalWake
  BY <1>1, <1>4 DEF PowerTypeOK, SignalWake, stuckVars
<1>5. CASE CooldownOver
  BY <1>1, <1>5 DEF PowerTypeOK, CooldownOver, daemonVars
<1>6. ASSUME NEW m \in BOOLEAN, ReportStuck(m) PROVE PowerTypeOK'
  BY <1>1, <1>6 DEF PowerTypeOK, ReportStuck, daemonVars, stuckVars
<1> QED
  BY <1>2, <1>3, <1>4, <1>5, <1>6, DaemonType, StuckType DEF PowerNext

LEMMA PowerTypeInit == PowerInit => PowerTypeOK
  BY TypeInit DEF PowerInit, PowerTypeOK, DaemonLabel, StuckLabel, DaemonHolds, StuckHolds, Event

(* The variables of the power monitor keep their types, and uart_lock is   *)
(* held by exactly the thread that is inside its section.                  *)
THEOREM PowerTypeCorrect == PowerSpec => []PowerTypeOK
  BY PowerTypeInit, PowerTypeNext, PTL DEF PowerSpec

-----------------------------------------------------------------------------
(* The inductive invariant of the two threads that write `suspended`.      *)

\* Before the daemon takes the lock: whether a suspend is in force is what resumeHandled says.
DaemonIdleInv ==
  dpc \in {"wait", "take"} => IF resumeHandled THEN ~lcdOff ELSE suspended /\ lcdOff

\* Inside its two sequences, and when a wake is about to be handled.
DaemonBusyInv ==
  /\ dpc \in {"grace", "kill"} => lcdOff
  /\ dpc \in {"kill", "wakeLock", "uart", "show", "wakeFlag"} => suspended
  /\ dpc = "wakeFlag" => ~lcdOff
  /\ dpc \in {"sleepLock", "blank", "grace", "kill"} => ~resumeHandled
  /\ dpc \in {"wakeLock", "uart", "show", "wakeFlag"} => resumeHandled

\* The stuck-marker watcher works only while no suspend is in force.
StuckInv ==
  /\ spc \in StuckHolds => dpc # "wakeLock" /\ (dpc \in {"wait", "take"} => resumeHandled)
  /\ spc \in {"kill", "uart", "settle"} => suspended

FlagInv == PowerTypeOK /\ DaemonIdleInv /\ DaemonBusyInv /\ StuckInv

LEMMA DaemonFlagInv ==
  ASSUME FlagInv, Daemon
  PROVE  DaemonIdleInv' /\ DaemonBusyInv' /\ StuckInv'
<1> USE DEF FlagInv, PowerTypeOK, DaemonIdleInv, DaemonBusyInv, StuckInv, StuckHolds, DaemonHolds
<1>1. CASE DaemonWakes
  BY <1>1 DEF DaemonWakes, stuckVars, vars, flagVars
<1>2. CASE TakeEvent
  <2>1. UNCHANGED <<suspended, lcdOff, spc>>
    BY <1>2 DEF TakeEvent, stuckVars, vars, flagVars
  <2>2. CASE pending = "suspend"
    BY <1>2, <2>1, <2>2 DEF TakeEvent, HandledAfter
  <2>3. CASE pending = "resume" /\ ~resumeHandled
    BY <1>2, <2>1, <2>3 DEF TakeEvent, HandledAfter
  <2>4. CASE pending = "resume" /\ resumeHandled
    <3>1. resumeHandled' = TRUE /\ dpc' = "wait" /\ dpc = "take"
      BY <1>2, <2>4 DEF TakeEvent, HandledAfter
    <3>2. DaemonIdleInv' /\ DaemonBusyInv'
      BY <2>1, <2>4, <3>1
    <3>3. StuckInv'
      BY <2>1, <2>4, <3>1
    <3> QED
      BY <3>2, <3>3
  <2>5. CASE pending = "none"
    BY <1>2, <2>1, <2>5 DEF TakeEvent, HandledAfter
  <2> QED
    BY <2>2, <2>3, <2>4, <2>5 DEF Event
<1>3. CASE DaemonLocks
  BY <1>3 DEF DaemonLocks, LockFree, stuckVars, vars, flagVars
<1>4. CASE Blank
  BY <1>4 DEF Blank, stuckVars, vars, flagVars
<1>5. CASE Suspend
  BY <1>5 DEF Suspend, SetSuspended, stuckVars
<1>6. ASSUME NEW c \in Child, DaemonKill(c)
      PROVE  DaemonIdleInv' /\ DaemonBusyInv' /\ StuckInv'
  BY <1>6 DEF DaemonKill, VisitHandle, daemonVars, stuckVars, flagVars
<1>7. CASE SuspendEnds
  BY <1>7 DEF SuspendEnds, stuckVars, vars, flagVars
<1>8. CASE DaemonRestartsUart
  BY <1>8 DEF DaemonRestartsUart, stuckVars, vars, flagVars
<1>9. CASE Show
  BY <1>9 DEF Show, stuckVars, vars, flagVars
<1>10. CASE ResumeEnds
  BY <1>10 DEF ResumeEnds, SetSuspended, stuckVars
<1> QED
  BY <1>1, <1>2, <1>3, <1>4, <1>5, <1>6, <1>7, <1>8, <1>9, <1>10 DEF Daemon

LEMMA StuckFlagInv ==
  ASSUME FlagInv, Stuck
  PROVE  DaemonIdleInv' /\ DaemonBusyInv' /\ StuckInv'
<1> USE DEF FlagInv, PowerTypeOK, DaemonIdleInv, DaemonBusyInv, StuckInv, StuckHolds, DaemonHolds
<1>1. CASE StuckStart
  BY <1>1 DEF StuckStart, daemonVars, vars, flagVars
<1>2. CASE StuckPoll
  BY <1>2 DEF StuckPoll, daemonVars, vars, flagVars
<1>3. CASE StuckLocks
  BY <1>3 DEF StuckLocks, LockFree, Recheck, ShouldAct, daemonVars, vars, flagVars
<1>4. CASE StuckPause
  BY <1>4 DEF StuckPause, SetSuspended, daemonVars
<1>5. ASSUME NEW c \in Child, StuckKill(c)
      PROVE  DaemonIdleInv' /\ DaemonBusyInv' /\ StuckInv'
  BY <1>5 DEF StuckKill, VisitHandle, daemonVars, stuckVars, flagVars
<1>6. CASE StuckForget
  BY <1>6 DEF StuckForget, daemonVars, vars, flagVars
<1>7. CASE StuckRestartsUart
  BY <1>7 DEF StuckRestartsUart, daemonVars, vars, flagVars
<1>8. CASE StuckEnds
  BY <1>8 DEF StuckEnds, SetSuspended, daemonVars
<1> QED
  BY <1>1, <1>2, <1>3, <1>4, <1>5, <1>6, <1>7, <1>8 DEF Stuck

\* No other step touches what the invariant speaks of.
LEMMA FlagsQuiet ==
  ASSUME \/ Launcher \/ UNCHANGED allVars
         \/ \E e \in Event : StoreEvent(e)
         \/ SignalWake \/ CooldownOver
         \/ \E m \in BOOLEAN : ReportStuck(m)
  PROVE  UNCHANGED <<suspended, dpc, resumeHandled, lcdOff, spc>>
<1>1. CASE Launcher
  <2>1. UNCHANGED <<dpc, resumeHandled, lcdOff, spc>>
    BY <1>1 DEF Launcher, powerVars, daemonVars, stuckVars
  <2>2. suspended' = suspended
    BY <1>1
       DEF Launcher, Watcher, WatcherTop, CloneSpec, SpawnOk, SpawnFails, StoreHandle, Poll,
           AwaitShutdown, Grace, CheckExited, CheckKill, CheckRunning, ClearHandle, Delay,
           ChildExits, Main, LeaveTray, AnnounceShutdown, ForceOff, KillAllStart, KillAll,
           KillAllEnd, Exit, Tray, MenuKill, Quit, Terminated, MenuApply, vars, flagVars
  <2> QED
    BY <2>1, <2>2
<1>2. CASE UNCHANGED allVars
  BY <1>2 DEF allVars, vars, flagVars, powerVars, daemonVars, stuckVars
<1>3. CASE \/ \E e \in Event : StoreEvent(e)
           \/ SignalWake \/ CooldownOver
           \/ \E m \in BOOLEAN : ReportStuck(m)
  BY <1>3 DEF StoreEvent, SignalWake, CooldownOver, ReportStuck, vars, flagVars, daemonVars,
              stuckVars
<1> QED
  BY <1>1, <1>2, <1>3

LEMMA FlagInvInductive == PowerSpec => []FlagInv
<1>1. PowerInit => FlagInv
  BY PowerTypeInit DEF PowerInit, FlagInv, DaemonIdleInv, DaemonBusyInv, StuckInv, StuckHolds
<1>2. FlagInv /\ [PowerNext]_allVars => FlagInv'
  <2> SUFFICES ASSUME FlagInv, [PowerNext]_allVars PROVE FlagInv'
    OBVIOUS
  <2>1. PowerTypeOK'
    BY PowerTypeNext DEF FlagInv
  <2>2. CASE Daemon
    BY <2>1, <2>2, DaemonFlagInv DEF FlagInv
  <2>3. CASE Stuck
    BY <2>1, <2>3, StuckFlagInv DEF FlagInv
  <2>4. CASE ~Daemon /\ ~Stuck
    <3>1. UNCHANGED <<suspended, dpc, resumeHandled, lcdOff, spc>>
      BY <2>4, FlagsQuiet DEF PowerNext
    <3> QED
      BY <2>1, <3>1 DEF FlagInv, DaemonIdleInv, DaemonBusyInv, StuckInv
  <2> QED
    BY <2>2, <2>3, <2>4
<1> QED
  BY <1>1, <1>2, PTL DEF PowerSpec

(* The children are paused whenever either thread tears the UART down.     *)
THEOREM AlwaysPausedWhileRestarting == PowerSpec => []PausedWhileRestarting
<1>1. FlagInv => PausedWhileRestarting
  BY DEF FlagInv, DaemonBusyInv, StuckInv, PausedWhileRestarting, Restarting
<1> QED
  BY <1>1, FlagInvInductive, PTL

(* A suspend stays in force until the wake that ends it is handled: the    *)
(* stuck-marker watcher never clears it.                                   *)
THEOREM SleepStaysInForce == PowerSpec => []SleepInForce
<1>1. FlagInv => SleepInForce
  BY DEF FlagInv, DaemonIdleInv, SleepInForce
<1> QED
  BY <1>1, FlagInvInductive, PTL

(* Between "off" and the end of the grace nobody but the daemon changes    *)
(* whether the children may run.                                           *)
THEOREM GraceStaysUndisturbed == PowerSpec => GraceUndisturbed
<1>1. FlagInv /\ [PowerNext]_allVars
        => [dpc = "grace" /\ dpc' = "grace" => suspended' = suspended]_allVars
  <2> SUFFICES ASSUME FlagInv, [PowerNext]_allVars, dpc = "grace", dpc' = "grace"
               PROVE  suspended' = suspended
    OBVIOUS
  <2>1. uartLock = "daemon" /\ spc \notin StuckHolds
    BY DEF FlagInv, PowerTypeOK, DaemonHolds
  <2>2. CASE Daemon
    BY <2>2 DEF Daemon, DaemonWakes, TakeEvent, DaemonLocks, Blank, Suspend, DaemonKill,
                SuspendEnds, DaemonRestartsUart, Show, ResumeEnds
  <2>3. CASE Stuck
    BY <2>1, <2>3 DEF Stuck, StuckStart, StuckPoll, StuckLocks, StuckPause, StuckKill,
                      StuckForget, StuckRestartsUart, StuckEnds, StuckHolds, vars, flagVars
  <2>4. CASE ~Daemon /\ ~Stuck
    BY <2>4, FlagsQuiet DEF PowerNext
  <2> QED
    BY <2>2, <2>3, <2>4
<1> QED
  BY <1>1, FlagInvInductive, PTL DEF PowerSpec, GraceUndisturbed
=============================================================================
