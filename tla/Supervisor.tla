----------------------------- MODULE Supervisor -----------------------------
(***************************************************************************)
(* The aster-launcher process: one watcher thread per child process        *)
(* (spawn_and_watch of crates/aster-launcher/src/process.rs), the main     *)
(* thread that quits (windows_main and linux_main), the tray callbacks     *)
(* that change the children's arguments and restart them, and the children *)
(* themselves, which may exit at any moment.                               *)
(*                                                                         *)
(* A step is what a thread does between two points where another thread    *)
(* can see the difference: an atomic load or store, or one section under a *)
(* lock.  Two flag loads that follow each other are one step when whatever *)
(* happens between them could as well happen after them.  The length of    *)
(* the delays between spawns is left out: a delay ends at any time.        *)
(*                                                                         *)
(* Who sets and clears `suspended` is left open here: the Power module     *)
(* models the power monitor and refines these steps.                       *)
(***************************************************************************)
EXTENDS Naturals

CONSTANTS
  Child,          \* the child processes
  MenuTargets,    \* the sets of children that a menu choice restarts
  Windows,        \* TRUE: windows_main, FALSE: linux_main
  KillMayFail,    \* Child::kill may fail, or the process may take time to go
  TryWaitMayFail, \* Child::try_wait may return an error
  MaxChanges      \* bound: menu choices in one session

ASSUME SupervisorAssumption ==
  /\ MenuTargets \subseteq SUBSET Child
  /\ Windows \in BOOLEAN /\ KillMayFail \in BOOLEAN /\ TryWaitMayFail \in BOOLEAN
  /\ MaxChanges \in Nat

VARIABLES
  \* flags shared by the threads
  quit, suspended, shuttingDown,
  off,          \* display.state was forced to "off" for the shutdown
  \* the children
  specVersion,  \* specVersion[c]: which arguments the shared specs hold for c
  wpc,          \* wpc[c]: where the watcher thread of c is
  spec,         \* spec[c]: the arguments the watcher cloned, those of its child
  handle,       \* current_child of c is Some
  healthy,      \* what the tray's status label reports of c
  graceDone,    \* the watcher of c has waited the quit grace
  proc,         \* proc[c]: the last process started for c
  \* the main thread and the tray callback
  mpc,
  killLeft,     \* handles that kill_all has yet to visit
  trayLeft,     \* handles that kill_named has yet to visit; {} between two menu choices
  changes       \* menu choices so far

flagVars == <<quit, suspended, shuttingDown, off>>
watcherVars == <<wpc, spec, handle, healthy, graceDone>>
mainVars == <<mpc, killLeft>>
trayVars == <<specVersion, trayLeft, changes>>
vars == <<flagVars, watcherVars, proc, mainVars, trayVars>>

\* The watcher is inside its wait loop, where current_child is its child.
Waiting == {"poll", "await", "grace", "check"}

WatcherLabel == {"top", "clone", "spawn", "store", "clear", "delay", "done"} \union Waiting

MainLabel == {"tray", "announce", "blank", "grace", "kill", "join", "exit"}

Init ==
  /\ quit = FALSE /\ suspended = FALSE /\ shuttingDown = FALSE /\ off = FALSE
  /\ specVersion = [c \in Child |-> 0]
  /\ wpc = [c \in Child |-> "top"]
  /\ spec = [c \in Child |-> 0]
  /\ handle = [c \in Child |-> FALSE]
  /\ healthy = [c \in Child |-> FALSE]
  /\ graceDone = [c \in Child |-> FALSE]
  /\ proc = [c \in Child |-> "none"]
  /\ mpc = "tray"
  /\ killLeft = {}
  /\ trayLeft = {}
  /\ changes = 0

\* The launcher process exists; its threads stop when main returns.
Alive == mpc # "exit"

GoTo(c, label) == wpc' = [wpc EXCEPT ![c] = label]

\* Child::kill on the child a handle holds: nothing happens to a dead one.
KillOutcomes(c) ==
  IF handle[c] /\ proc[c] = "running"
    THEN {"exited"} \union {p \in {"running"} : KillMayFail}
    ELSE {proc[c]}

TryKill(c) == \E p \in KillOutcomes(c) : proc' = [proc EXCEPT ![c] = p]

-----------------------------------------------------------------------------
(* The watcher thread of child c.                                          *)

\* The top of the loop: `break` on quit, wait while suspended, else start the child.
WatcherTop(c) ==
  /\ wpc[c] = "top"
  /\ \/ quit /\ GoTo(c, "done")
     \/ ~quit /\ ~suspended /\ GoTo(c, "clone")
  /\ UNCHANGED <<flagVars, spec, handle, healthy, graceDone, proc, mainVars, trayVars>>

\* A Windows menu callback holds the lock of the specs while it kills.
SpecsUnlocked == ~(Windows /\ trayLeft # {})

CloneSpec(c) ==
  /\ wpc[c] = "clone"
  /\ SpecsUnlocked
  /\ spec' = [spec EXCEPT ![c] = specVersion[c]]
  /\ GoTo(c, "spawn")
  /\ UNCHANGED <<flagVars, handle, healthy, graceDone, proc, mainVars, trayVars>>

SpawnOk(c) ==
  /\ wpc[c] = "spawn"
  /\ proc' = [proc EXCEPT ![c] = "running"]
  /\ healthy' = [healthy EXCEPT ![c] = TRUE]
  /\ GoTo(c, "store")
  /\ UNCHANGED <<flagVars, spec, handle, graceDone, mainVars, trayVars>>

SpawnFails(c) ==
  /\ wpc[c] = "spawn"
  /\ healthy' = [healthy EXCEPT ![c] = FALSE]
  /\ GoTo(c, "delay")
  /\ UNCHANGED <<flagVars, spec, handle, graceDone, proc, mainVars, trayVars>>

StoreHandle(c) ==
  /\ wpc[c] = "store"
  /\ handle' = [handle EXCEPT ![c] = TRUE]
  /\ graceDone' = [graceDone EXCEPT ![c] = FALSE]
  /\ GoTo(c, "poll")
  /\ UNCHANGED <<flagVars, spec, healthy, proc, mainVars, trayVars>>

\* One turn of the wait loop begins: on a quit the grace comes first.
Poll(c) ==
  /\ wpc[c] = "poll"
  /\ GoTo(c, IF quit /\ ~graceDone[c] THEN "await" ELSE "check")
  /\ UNCHANGED <<flagVars, spec, handle, healthy, graceDone, proc, mainVars, trayVars>>

AwaitShutdown(c) ==
  /\ wpc[c] = "await"
  /\ shuttingDown
  /\ GoTo(c, "grace")
  /\ UNCHANGED <<flagVars, spec, handle, healthy, graceDone, proc, mainVars, trayVars>>

(* Timing: the main thread writes "off" right after it sets shutting_down, *)
(* so it has done so when a watcher that saw the flag has slept 2 seconds. *)
GraceElapsed == off

Grace(c) ==
  /\ wpc[c] = "grace"
  /\ GraceElapsed
  /\ graceDone' = [graceDone EXCEPT ![c] = TRUE]
  /\ GoTo(c, "check")
  /\ UNCHANGED <<flagVars, spec, handle, healthy, proc, mainVars, trayVars>>

\* Fault: the watcher leaves killing to kill_all.
NeverKill == FALSE

\* The child must not run any longer.
MustKill == quit \/ suspended

\* Fault: the wait loop is left after the kill, whether or not the child is gone.
WaitOverUnconfirmed(c) == proc[c] = "exited" \/ MustKill

\* try_wait found that the child has exited, or failed when nothing is to be killed.
WaitOver(c) == proc[c] = "exited" \/ (TryWaitMayFail /\ ~MustKill)

(* The section of the wait loop under the lock of current_child: the child *)
(* has exited and the loop ends, or it is killed if it must not run.       *)
CheckExited(c) ==
  /\ wpc[c] = "check"
  /\ WaitOver(c)
  /\ GoTo(c, "clear")
  /\ UNCHANGED <<flagVars, spec, handle, healthy, graceDone, proc, mainVars, trayVars>>

CheckKill(c) ==
  /\ wpc[c] = "check"
  /\ proc[c] = "running"
  /\ MustKill
  /\ TryKill(c)
  /\ GoTo(c, "poll")
  /\ UNCHANGED <<flagVars, spec, handle, healthy, graceDone, mainVars, trayVars>>

CheckRunning(c) ==
  /\ wpc[c] = "check"
  /\ proc[c] = "running"
  /\ ~MustKill
  /\ GoTo(c, "poll")
  /\ UNCHANGED <<flagVars, spec, handle, healthy, graceDone, proc, mainVars, trayVars>>

\* Fault: the watcher thread ends when the machine sleeps, too.
AfterExitOrSleep == IF MustKill THEN "done" ELSE "delay"

\* The thread ends on quit; otherwise the child is started again after a delay.
AfterExit == IF quit THEN "done" ELSE "delay"

\* The wait is over: current_child and healthy are reset.
ClearHandle(c) ==
  /\ wpc[c] = "clear"
  /\ handle' = [handle EXCEPT ![c] = FALSE]
  /\ healthy' = [healthy EXCEPT ![c] = FALSE]
  /\ GoTo(c, AfterExit)
  /\ UNCHANGED <<flagVars, spec, graceDone, proc, mainVars, trayVars>>

Delay(c) ==
  /\ wpc[c] = "delay"
  /\ GoTo(c, "top")
  /\ UNCHANGED <<flagVars, spec, handle, healthy, graceDone, proc, mainVars, trayVars>>

Watcher(c) ==
  /\ Alive
  /\ \/ WatcherTop(c) \/ CloneSpec(c) \/ SpawnOk(c) \/ SpawnFails(c) \/ StoreHandle(c)
     \/ Poll(c) \/ AwaitShutdown(c) \/ Grace(c)
     \/ CheckExited(c) \/ CheckKill(c) \/ CheckRunning(c)
     \/ ClearHandle(c) \/ Delay(c)

-----------------------------------------------------------------------------
(* The main thread.  tray::run returns when quit is set; when there is no  *)
(* tray it returns at once and main sets quit itself, which is a quit that *)
(* is seen immediately.                                                    *)

LeaveTray ==
  /\ mpc = "tray"
  /\ quit
  /\ mpc' = "announce"
  /\ UNCHANGED <<flagVars, watcherVars, proc, killLeft, trayVars>>

AnnounceShutdown ==
  /\ mpc = "announce"
  /\ shuttingDown' = TRUE
  /\ mpc' = "blank"
  /\ UNCHANGED <<quit, suspended, off, watcherVars, proc, killLeft, trayVars>>

ForceOff ==
  /\ mpc = "blank"
  /\ off' = TRUE
  /\ mpc' = "grace"
  /\ UNCHANGED <<quit, suspended, shuttingDown, watcherVars, proc, killLeft, trayVars>>

KillAllStart ==
  /\ mpc = "grace"
  /\ killLeft' = Child
  /\ mpc' = "kill"
  /\ UNCHANGED <<flagVars, watcherVars, proc, trayVars>>

\* kill_all visits the handles one by one, each under its lock.
KillAll(c) ==
  /\ mpc = "kill"
  /\ c \in killLeft
  /\ TryKill(c)
  /\ killLeft' = killLeft \ {c}
  /\ UNCHANGED <<flagVars, watcherVars, mpc, trayVars>>

KillAllEnd ==
  /\ mpc = "kill"
  /\ killLeft = {}
  /\ mpc' = "join"
  /\ UNCHANGED <<flagVars, watcherVars, proc, killLeft, trayVars>>

\* Fault: main returns without joining the watchers.
NotJoined == TRUE

WatchersJoined == \A c \in Child : wpc[c] = "done"

Exit ==
  /\ mpc = "join"
  /\ WatchersJoined
  /\ mpc' = "exit"
  /\ UNCHANGED <<flagVars, watcherVars, proc, killLeft, trayVars>>

Main ==
  \/ LeaveTray \/ AnnounceShutdown \/ ForceOff \/ KillAllStart
  \/ \E c \in Child : KillAll(c)
  \/ KillAllEnd \/ Exit

-----------------------------------------------------------------------------
(* The tray callbacks, which run one at a time on the tray's own thread.   *)

\* Fault: a choice that the menu does not offer reaches the arguments.
UncheckedChoice(v) == v + 2

\* The arguments that a child gets after v, different from all before.
NextChoice(v) == v + 1

\* apply_refresh or apply_theme replaces the specs, and then kills with kill_named.
MenuApply(targets) ==
  /\ Alive
  /\ trayLeft = {}
  /\ changes < MaxChanges
  /\ specVersion' = [c \in Child |-> IF c \in targets THEN NextChoice(specVersion[c])
                                                  ELSE specVersion[c]]
  /\ trayLeft' = targets
  /\ changes' = changes + 1
  /\ UNCHANGED <<flagVars, watcherVars, proc, mainVars>>

MenuKill(c) ==
  /\ Alive
  /\ c \in trayLeft
  /\ TryKill(c)
  /\ trayLeft' = trayLeft \ {c}
  /\ UNCHANGED <<flagVars, watcherVars, mainVars, specVersion, changes>>

Tray == \E c \in Child : MenuKill(c)

-----------------------------------------------------------------------------
(* What the launcher's own threads do not decide.                          *)

\* The Quit item of the tray, or SIGINT or SIGTERM.
Quit ==
  /\ Alive
  /\ quit' = TRUE
  /\ UNCHANGED <<suspended, shuttingDown, off, watcherVars, proc, mainVars, trayVars>>

ChildExits(c) ==
  /\ proc[c] = "running"
  /\ proc' = [proc EXCEPT ![c] = "exited"]
  /\ UNCHANGED <<flagVars, watcherVars, mainVars, trayVars>>

\* The power monitor, on Windows only: it kills children only while they may not run.
SetSuspended(s) ==
  /\ Windows /\ Alive
  /\ suspended' = s
  /\ UNCHANGED <<quit, shuttingDown, off, watcherVars, proc, mainVars, trayVars>>

PowerKill(c) ==
  /\ Windows /\ Alive
  /\ suspended
  /\ TryKill(c)
  /\ UNCHANGED <<flagVars, watcherVars, mainVars, trayVars>>

Environment ==
  \/ \E targets \in MenuTargets : MenuApply(targets)
  \/ Quit
  \/ \E c \in Child : ChildExits(c) \/ PowerKill(c)
  \/ \E s \in BOOLEAN : SetSuspended(s)

\* The launcher is gone and nothing of it is left: not a deadlock.
Terminated == ~Alive /\ UNCHANGED vars

Next == (\E c \in Child : Watcher(c)) \/ Main \/ Tray \/ Environment \/ Terminated

Spec == Init /\ [][Next]_vars

(* Threads are scheduled.  A kill that is retried succeeds at last, and so *)
(* does a spawn that is retried.                                           *)
Fairness ==
  /\ \A c \in Child :
       /\ WF_vars(Watcher(c))
       /\ SF_vars(Alive /\ CheckKill(c) /\ proc'[c] = "exited")
       /\ SF_vars(Alive /\ SpawnOk(c))
  /\ WF_vars(Main)
  /\ WF_vars(Tray)

FairSpec == Spec /\ Fairness

-----------------------------------------------------------------------------
(* Properties.                                                             *)

TypeOK ==
  /\ quit \in BOOLEAN /\ suspended \in BOOLEAN /\ shuttingDown \in BOOLEAN /\ off \in BOOLEAN
  /\ specVersion \in [Child -> 0..changes]
  /\ wpc \in [Child -> WatcherLabel]
  /\ spec \in [Child -> 0..changes]
  /\ handle \in [Child -> BOOLEAN]
  /\ healthy \in [Child -> BOOLEAN]
  /\ graceDone \in [Child -> BOOLEAN]
  /\ proc \in [Child -> {"none", "running", "exited"}]
  /\ mpc \in MainLabel
  /\ killLeft \in SUBSET Child /\ trayLeft \in SUBSET Child
  /\ changes \in 0..MaxChanges

(* process.rs: the watcher is "the guarantee that a spawned child never    *)
(* outlives the launcher", although kill_all may fail or meet a child that *)
(* is just being started.                                                  *)
NoOrphan == mpc = "exit" => \A c \in Child : proc[c] # "running"

(* A child is never started while its previous process still runs: two     *)
(* asterctl processes would fight over the serial port.                    *)
OneInstance ==
  [][\A c \in Child : wpc[c] = "spawn" /\ wpc'[c] = "store" => proc[c] # "running"]_vars

(* kill_all, kill_named and the power monitor reach every child that runs, *)
(* except in the moment between its start and the store of its handle.     *)
Reachable ==
  \A c \in Child : proc[c] = "running" => handle[c] \/ wpc[c] = "store"

\* A quit ends the launcher, in whatever state the children and the callbacks are.
QuitEnds == quit ~> (mpc = "exit")

\* A child that exits is started again, unless the launcher quits or the machine sleeps.
Supervised ==
  \A c \in Child : (proc[c] = "exited") ~> (proc[c] = "running" \/ quit \/ suspended)

(* process.rs: "updating specs and killing the current child [...]         *)
(* restarts it with the new arguments".  Between two menu choices every    *)
(* child in its wait loop runs with the arguments of the specs.            *)
ArgsCurrent ==
  trayLeft = {} => \A c \in Child : wpc[c] \in Waiting /\ proc[c] = "running"
                                      => spec[c] = specVersion[c]
=============================================================================
