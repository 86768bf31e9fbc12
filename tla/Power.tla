------------------------------- MODULE Power -------------------------------
(***************************************************************************)
(* The power monitor of the Windows launcher                               *)
(* (crates/aster-launcher/src/power.rs), composed with the threads of      *)
(* Supervisor: the callback that the system invokes on a suspend or a      *)
(* resume, the daemon thread that handles the notification, and the        *)
(* stuck-marker watcher that re-enumerates the USB UART when asterctl      *)
(* reports a dead display.  The daemon and the watcher share `suspended`   *)
(* and are serialized by uart_lock.                                        *)
(*                                                                         *)
(* Supervisor leaves open who sets `suspended` and kills children with it; *)
(* here these steps are the daemon's and the watcher's.                    *)
(***************************************************************************)
EXTENDS Supervisor

CONSTANTS
  asterctl,     \* the child that drives the display
  RestartUart   \* restart_uart_on_resume

ASSUME PowerAssumption ==
  /\ Windows
  /\ asterctl \in Child
  /\ RestartUart \in BOOLEAN

VARIABLES
  \* between the callback and the daemon
  callback,       \* the callback has stored an event and not yet called SetEvent
  pending,        \* pending_event
  wake,           \* the Win32 event is set
  \* the daemon thread
  dpc,
  resumeHandled,
  lcdOff,         \* the display control holds the display off (suspend, resume)
  \* the stuck-marker watcher
  spc,
  cooled,         \* the cooldown since its last rescan is over
  marker,         \* cfg/uart.stuck exists
  \* both
  uartLock,       \* the thread that holds uart_lock
  visit,          \* handles the kill_all of the lock's owner has yet to visit
  \* history
  lastEvent       \* the newest notification of the system

daemonVars == <<callback, pending, wake, dpc, resumeHandled, lcdOff, lastEvent>>
stuckVars == <<spc, cooled>>
powerVars == <<daemonVars, stuckVars, marker, uartLock, visit>>
allVars == <<vars, powerVars>>

Event == {"suspend", "resume"}
DaemonLabel ==
  {"wait", "take", "sleepLock", "blank", "grace", "kill", "wakeLock", "uart", "show", "wakeFlag"}
StuckLabel == {"start", "poll", "lock", "flag", "kill", "uart", "settle"}

\* Where the two threads hold uart_lock.
DaemonHolds == {"blank", "grace", "kill", "uart", "show", "wakeFlag"}
StuckHolds == {"flag", "kill", "uart", "settle"}

PowerInit ==
  /\ Init
  /\ callback = FALSE
  /\ pending = "none"
  /\ wake = FALSE
  /\ dpc = "wait"
  /\ resumeHandled = TRUE
  /\ lcdOff = FALSE
  /\ spc = "start"
  /\ cooled = TRUE
  /\ marker \in BOOLEAN
  /\ uartLock = "free"
  /\ visit = {}
  /\ lastEvent = "resume"

-----------------------------------------------------------------------------
(* on_power_event stores the event type and then sets the Win32 event.  A  *)
(* new event replaces one that the daemon has not taken yet.               *)
StoreEvent(e) ==
  /\ Alive
  /\ ~callback
  /\ pending' = e
  /\ callback' = TRUE
  /\ lastEvent' = e
  /\ UNCHANGED <<vars, wake, dpc, resumeHandled, lcdOff, stuckVars, marker, uartLock, visit>>

SignalWake ==
  /\ Alive
  /\ callback
  /\ wake' = TRUE
  /\ callback' = FALSE
  /\ UNCHANGED <<vars, pending, dpc, resumeHandled, lcdOff, lastEvent, stuckVars, marker,
                 uartLock, visit>>

-----------------------------------------------------------------------------
(* The daemon thread.                                                      *)

\* WaitForSingleObject returns, and ResetEvent.
DaemonWakes ==
  /\ dpc = "wait"
  /\ wake
  /\ wake' = FALSE
  /\ dpc' = "take"
  /\ UNCHANGED <<vars, callback, pending, resumeHandled, lcdOff, lastEvent, stuckVars, marker,
                 uartLock, visit>>

\* Fault: a Suspend does not arm the guard again.
HandledForGood(e) == TRUE

\* resume_handled after event e was taken.
HandledAfter(e) == IF e = "none" THEN resumeHandled ELSE e = "resume"

\* pending_event is swapped with 0, and handle_power_event starts.
TakeEvent ==
  /\ dpc = "take"
  /\ pending' = "none"
  /\ \/ pending = "suspend" /\ dpc' = "sleepLock"
     \/ pending = "resume" /\ ~resumeHandled /\ dpc' = "wakeLock"
     \/ pending = "resume" /\ resumeHandled /\ dpc' = "wait"
     \/ pending = "none" /\ dpc' = "wait"
  /\ resumeHandled' = HandledAfter(pending)
  /\ UNCHANGED <<vars, callback, wake, lcdOff, lastEvent, stuckVars, marker, uartLock, visit>>

\* Fault: the lock is left out.
LockIgnored == TRUE

LockFree == uartLock = "free"

\* Both handlers hold uart_lock to their end; the wake handler then lets the USB stack settle.
DaemonLocks ==
  /\ LockFree
  /\ \/ dpc = "sleepLock" /\ dpc' = "blank"
     \/ dpc = "wakeLock" /\ dpc' = (IF RestartUart THEN "uart" ELSE "show")
  /\ uartLock' = "daemon"
  /\ UNCHANGED <<vars, callback, pending, wake, resumeHandled, lcdOff, lastEvent, stuckVars,
                 marker, visit>>

\* DisplayControl::suspend writes "off".
Blank ==
  /\ dpc = "blank"
  /\ lcdOff' = TRUE
  /\ dpc' = "grace"
  /\ UNCHANGED <<vars, callback, pending, wake, resumeHandled, lastEvent, stuckVars, marker,
                 uartLock, visit>>

\* After the grace the watchers are stopped, and then the children are killed.
Suspend ==
  /\ dpc = "grace"
  /\ SetSuspended(TRUE)
  /\ visit' = Child
  /\ dpc' = "kill"
  /\ UNCHANGED <<callback, pending, wake, resumeHandled, lcdOff, lastEvent, stuckVars, marker,
                 uartLock>>

\* One handle of the kill_all of the daemon or of the stuck-marker watcher.
VisitHandle(c) ==
  /\ c \in visit
  /\ TryKill(c)
  /\ visit' = visit \ {c}
  /\ UNCHANGED <<flagVars, watcherVars, mainVars, trayVars>>

DaemonKill(c) ==
  /\ dpc = "kill"
  /\ VisitHandle(c)
  /\ UNCHANGED <<daemonVars, stuckVars, marker, uartLock>>

SuspendEnds ==
  /\ dpc = "kill"
  /\ visit = {}
  /\ uartLock' = "free"
  /\ dpc' = "wait"
  /\ UNCHANGED <<vars, callback, pending, wake, resumeHandled, lcdOff, lastEvent, stuckVars,
                 marker, visit>>

\* restart_uart has returned, with or without success.
DaemonRestartsUart ==
  /\ dpc = "uart"
  /\ dpc' = "show"
  /\ UNCHANGED <<vars, callback, pending, wake, resumeHandled, lcdOff, lastEvent, stuckVars,
                 marker, uartLock, visit>>

\* DisplayControl::resume, and a marker of before the sleep is dropped.
Show ==
  /\ dpc = "show"
  /\ lcdOff' = FALSE
  /\ marker' = FALSE
  /\ dpc' = "wakeFlag"
  /\ UNCHANGED <<vars, callback, pending, wake, resumeHandled, lastEvent, stuckVars, uartLock,
                 visit>>

ResumeEnds ==
  /\ dpc = "wakeFlag"
  /\ SetSuspended(FALSE)
  /\ uartLock' = "free"
  /\ dpc' = "wait"
  /\ UNCHANGED <<callback, pending, wake, resumeHandled, lcdOff, lastEvent, stuckVars, marker,
                 visit>>

Daemon ==
  /\ Alive
  /\ \/ DaemonWakes \/ TakeEvent \/ DaemonLocks \/ Blank \/ Suspend
     \/ \E c \in Child : DaemonKill(c)
     \/ SuspendEnds \/ DaemonRestartsUart \/ Show \/ ResumeEnds

-----------------------------------------------------------------------------
(* The stuck-marker watcher.                                               *)

\* Fault: the test for a sleeping machine is inverted.
ShouldActAsleep == RestartUart /\ suspended /\ marker /\ cooled

\* stuck_watcher_should_act
ShouldAct == RestartUart /\ ~suspended /\ marker /\ cooled

\* A marker of an earlier session is dropped.
StuckStart ==
  /\ spc = "start"
  /\ marker' = FALSE
  /\ spc' = "poll"
  /\ UNCHANGED <<vars, daemonVars, cooled, uartLock, visit>>

StuckPoll ==
  /\ spc = "poll"
  /\ ~quit /\ ShouldAct
  /\ spc' = "lock"
  /\ UNCHANGED <<vars, daemonVars, cooled, marker, uartLock, visit>>

\* Fault: the conditions are not looked at again under the lock.
ActsUnchecked == TRUE

\* What is checked once the lock is held.
Recheck == ShouldAct

StuckLocks ==
  /\ spc = "lock"
  /\ LockFree
  /\ \/ Recheck /\ spc' = "flag" /\ uartLock' = "stuck" /\ cooled' = FALSE
     \/ ~Recheck /\ spc' = "poll" /\ UNCHANGED <<uartLock, cooled>>
  /\ UNCHANGED <<vars, daemonVars, marker, visit>>

\* The watchers are paused.
StuckPause ==
  /\ spc = "flag"
  /\ SetSuspended(TRUE)
  /\ visit' = Child
  /\ spc' = "kill"
  /\ UNCHANGED <<daemonVars, cooled, marker, uartLock>>

StuckKill(c) ==
  /\ spc = "kill"
  /\ VisitHandle(c)
  /\ UNCHANGED <<daemonVars, stuckVars, marker, uartLock>>

\* The marker is dropped and restart_uart starts.
StuckForget ==
  /\ spc = "kill"
  /\ visit = {}
  /\ marker' = FALSE
  /\ spc' = "uart"
  /\ UNCHANGED <<vars, daemonVars, cooled, uartLock, visit>>

StuckRestartsUart ==
  /\ spc = "uart"
  /\ spc' = "settle"
  /\ UNCHANGED <<vars, daemonVars, cooled, marker, uartLock, visit>>

\* The watchers go on.
StuckEnds ==
  /\ spc = "settle"
  /\ SetSuspended(FALSE)
  /\ uartLock' = "free"
  /\ spc' = "poll"
  /\ UNCHANGED <<daemonVars, cooled, marker, visit>>

Stuck ==
  /\ Alive
  /\ \/ StuckStart \/ StuckPoll \/ StuckLocks \/ StuckPause
     \/ \E c \in Child : StuckKill(c)
     \/ StuckForget \/ StuckRestartsUart \/ StuckEnds

CooldownOver ==
  /\ ~cooled
  /\ cooled' = TRUE
  /\ UNCHANGED <<vars, daemonVars, spc, marker, uartLock, visit>>

\* asterctl reports a display failure, or takes its report back after a success.
ReportStuck(m) ==
  /\ proc[asterctl] = "running"
  /\ marker' = m
  /\ UNCHANGED <<vars, daemonVars, stuckVars, uartLock, visit>>

-----------------------------------------------------------------------------
\* The steps of Supervisor that are not the power monitor's.
Launcher ==
  /\ \/ \E c \in Child : Watcher(c) \/ ChildExits(c)
     \/ Main \/ Tray \/ Quit \/ Terminated
     \/ \E targets \in MenuTargets : MenuApply(targets)
  /\ UNCHANGED powerVars

PowerNext ==
  \/ Launcher
  \/ \E e \in Event : StoreEvent(e)
  \/ SignalWake
  \/ Daemon
  \/ Stuck
  \/ CooldownOver
  \/ \E m \in BOOLEAN : ReportStuck(m)

PowerSpec == PowerInit /\ [][PowerNext]_allVars

(* The daemon gets uart_lock although the stuck-marker watcher takes it    *)
(* again and again: between two rescans it leaves it free for 30 seconds.  *)
PowerFairSpec ==
  /\ PowerSpec
  /\ Fairness
  /\ WF_allVars(SignalWake)
  /\ WF_allVars(Daemon)
  /\ SF_allVars(Alive /\ DaemonLocks)
  /\ WF_allVars(Stuck)
  /\ WF_allVars(CooldownOver)

-----------------------------------------------------------------------------
(* Properties.                                                             *)

\* The types, with uart_lock held by the thread that is in its section.
PowerTypeOK ==
  /\ TypeOK
  /\ callback \in BOOLEAN /\ wake \in BOOLEAN
  /\ pending \in Event \union {"none"}
  /\ dpc \in DaemonLabel
  /\ resumeHandled \in BOOLEAN /\ lcdOff \in BOOLEAN
  /\ spc \in StuckLabel
  /\ cooled \in BOOLEAN /\ marker \in BOOLEAN
  /\ uartLock \in {"free", "daemon", "stuck"}
  /\ (uartLock = "daemon") <=> (dpc \in DaemonHolds)
  /\ (uartLock = "stuck") <=> (spc \in StuckHolds)
  /\ visit \in SUBSET Child
  /\ lastEvent \in Event

\* The UART is being torn down and enumerated again.
Restarting == dpc = "uart" \/ spc = "uart"

(* power.rs: the children "must NOT respawn before the re-enumeration      *)
(* completes: [...] Keep suspended set".  Whichever of the two threads     *)
(* tears the UART down, the other one cannot clear the flag meanwhile.     *)
PausedWhileRestarting == Restarting => suspended

(* uart_lock: the watcher's trailing store "can never clear a suspend      *)
(* state the daemon set".  From the end of the suspend sequence until the  *)
(* next wake is handled the children stay stopped and the display dark,    *)
(* and the display is not held off when the machine is awake.              *)
SleepInForce ==
  dpc = "wait" => IF resumeHandled THEN ~lcdOff ELSE suspended /\ lcdOff

(* The stuck-marker watcher "could fire mid-grace (killing asterctl before *)
(* it blanks the LCD)" without the lock: from the moment a suspend writes  *)
(* "off" to the end of its grace nobody turns the children off, unless an  *)
(* earlier suspend already had.                                            *)
GraceUndisturbed ==
  [][dpc = "grace" /\ dpc' = "grace" => suspended' = suspended]_allVars

\* A machine that stays asleep ends up without children, even one being started.
SleepStopsChildren ==
  (<>[](Alive /\ lastEvent = "suspend")) => <>[](\A c \in Child : proc[c] # "running")

(* A report of a dead display is answered by a re-enumeration, unless it   *)
(* is taken back or the machine goes to sleep or the launcher quits.       *)
StuckAnswered == (RestartUart /\ marker) ~> (~marker \/ suspended \/ quit)
=============================================================================
