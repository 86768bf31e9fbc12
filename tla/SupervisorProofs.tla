-------------------------- MODULE SupervisorProofs --------------------------
(***************************************************************************)
(* Safety of the launcher, for every set of children, every menu and any   *)
(* number of menu choices, on Windows and on Linux: no child outlives the  *)
(* launcher, and no child is started twice.  Both need the assumption that *)
(* try_wait reports no error; without it a watcher forgets a live child.   *)
(***************************************************************************)
EXTENDS Supervisor, TLAPS

LEMMA KillOutcome ==
  ASSUME TypeOK, NEW c \in Child, TryKill(c)
  PROVE  /\ proc' \in [Child -> {"none", "running", "exited"}]
         /\ \A d \in Child : proc'[d] = "running" => proc[d] = "running"
  BY DEF TypeOK, TryKill, KillOutcomes

-----------------------------------------------------------------------------
LEMMA WatcherType ==
  ASSUME TypeOK, NEW c \in Child, Watcher(c)
  PROVE  TypeOK'
<1>1. CASE WatcherTop(c)
  BY <1>1 DEF TypeOK, WatcherTop, GoTo, WatcherLabel, Waiting, flagVars, mainVars, trayVars
<1>2. CASE CloneSpec(c)
  BY <1>2 DEF TypeOK, CloneSpec, GoTo, WatcherLabel, Waiting, flagVars, mainVars, trayVars
<1>3. CASE SpawnOk(c)
  BY <1>3 DEF TypeOK, SpawnOk, GoTo, WatcherLabel, Waiting, flagVars, mainVars, trayVars
<1>4. CASE SpawnFails(c)
  BY <1>4 DEF TypeOK, SpawnFails, GoTo, WatcherLabel, Waiting, flagVars, mainVars, trayVars
<1>5. CASE StoreHandle(c)
  BY <1>5 DEF TypeOK, StoreHandle, GoTo, WatcherLabel, Waiting, flagVars, mainVars, trayVars
<1>6. CASE Poll(c)
  BY <1>6 DEF TypeOK, Poll, GoTo, WatcherLabel, Waiting, flagVars, mainVars, trayVars
<1>7. CASE AwaitShutdown(c)
  BY <1>7 DEF TypeOK, AwaitShutdown, GoTo, WatcherLabel, Waiting, flagVars, mainVars, trayVars
<1>8. CASE Grace(c)
  BY <1>8 DEF TypeOK, Grace, GoTo, WatcherLabel, Waiting, flagVars, mainVars, trayVars
<1>9. CASE CheckExited(c)
  BY <1>9 DEF TypeOK, CheckExited, GoTo, WatcherLabel, Waiting, flagVars, mainVars, trayVars
<1>10. CASE CheckKill(c)
  BY <1>10, KillOutcome
     DEF TypeOK, CheckKill, GoTo, WatcherLabel, Waiting, flagVars, mainVars, trayVars
<1>11. CASE CheckRunning(c)
  BY <1>11 DEF TypeOK, CheckRunning, GoTo, WatcherLabel, Waiting, flagVars, mainVars, trayVars
<1>12. CASE ClearHandle(c)
  BY <1>12 DEF TypeOK, ClearHandle, AfterExit, GoTo, WatcherLabel, Waiting, flagVars, mainVars,
               trayVars
<1>13. CASE Delay(c)
  BY <1>13 DEF TypeOK, Delay, GoTo, WatcherLabel, Waiting, flagVars, mainVars, trayVars
<1> QED
  BY <1>1, <1>2, <1>3, <1>4, <1>5, <1>6, <1>7, <1>8, <1>9, <1>10, <1>11, <1>12, <1>13 DEF Watcher

LEMMA MainType ==
  ASSUME TypeOK, Main
  PROVE  TypeOK'
<1>1. CASE LeaveTray
  BY <1>1 DEF TypeOK, LeaveTray, MainLabel, flagVars, watcherVars, trayVars
<1>2. CASE AnnounceShutdown
  BY <1>2 DEF TypeOK, AnnounceShutdown, MainLabel, watcherVars, trayVars
<1>3. CASE ForceOff
  BY <1>3 DEF TypeOK, ForceOff, MainLabel, watcherVars, trayVars
<1>4. CASE KillAllStart
  BY <1>4 DEF TypeOK, KillAllStart, MainLabel, flagVars, watcherVars, trayVars
<1>5. ASSUME NEW c \in Child, KillAll(c) PROVE TypeOK'
  BY <1>5, KillOutcome DEF TypeOK, KillAll, flagVars, watcherVars, trayVars
<1>6. CASE KillAllEnd
  BY <1>6 DEF TypeOK, KillAllEnd, MainLabel, flagVars, watcherVars, trayVars
<1>7. CASE Exit
  BY <1>7 DEF TypeOK, Exit, MainLabel, flagVars, watcherVars, trayVars
<1> QED
  BY <1>1, <1>2, <1>3, <1>4, <1>5, <1>6, <1>7 DEF Main

LEMMA OtherType ==
  ASSUME TypeOK, Tray \/ Environment
  PROVE  TypeOK'
<1> USE SupervisorAssumption
<1>1. ASSUME NEW targets \in MenuTargets, MenuApply(targets) PROVE TypeOK'
  <2>1. changes \in Nat /\ changes' = changes + 1 /\ changes' \in 0..MaxChanges
    BY <1>1 DEF TypeOK, MenuApply
  <2>2. specVersion' \in [Child -> 0..changes']
    BY <1>1, <2>1 DEF TypeOK, MenuApply, NextChoice
  <2>3. spec' \in [Child -> 0..changes']
    <3>1. spec' = spec /\ 0..changes \subseteq 0..changes'
      BY <1>1, <2>1 DEF MenuApply, watcherVars
    <3> QED
      BY <3>1 DEF TypeOK
  <2> QED
    BY <1>1, <2>1, <2>2, <2>3 DEF TypeOK, MenuApply, flagVars, watcherVars, mainVars
<1>2. ASSUME NEW c \in Child, MenuKill(c) PROVE TypeOK'
  BY <1>2, KillOutcome DEF TypeOK, MenuKill, flagVars, watcherVars, mainVars
<1>3. CASE Quit
  BY <1>3 DEF TypeOK, Quit, watcherVars, mainVars, trayVars
<1>4. ASSUME NEW c \in Child, ChildExits(c) PROVE TypeOK'
  BY <1>4 DEF TypeOK, ChildExits, flagVars, watcherVars, mainVars, trayVars
<1>5. ASSUME NEW c \in Child, PowerKill(c) PROVE TypeOK'
  BY <1>5, KillOutcome DEF TypeOK, PowerKill, flagVars, watcherVars, mainVars, trayVars
<1>6. ASSUME NEW s \in BOOLEAN, SetSuspended(s) PROVE TypeOK'
  BY <1>6 DEF TypeOK, SetSuspended, watcherVars, mainVars, trayVars
<1> QED
  BY <1>1, <1>2, <1>3, <1>4, <1>5, <1>6 DEF Tray, Environment

LEMMA TypeInit == Init => TypeOK
<1> SUFFICES ASSUME Init PROVE TypeOK
  OBVIOUS
<1>1. 0 \in 0..MaxChanges /\ 0 \in 0..0
  BY SupervisorAssumption
<1> QED
  BY <1>1 DEF Init, TypeOK, WatcherLabel, Waiting, MainLabel

LEMMA TypeNext == TypeOK /\ [Next]_vars => TypeOK'
<1> SUFFICES ASSUME TypeOK, [Next]_vars PROVE TypeOK'
  OBVIOUS
<1>1. CASE UNCHANGED vars
  BY <1>1 DEF TypeOK, vars, flagVars, watcherVars, mainVars, trayVars
<1> QED
  BY <1>1, WatcherType, MainType, OtherType DEF Next, Terminated

(* Every variable of the launcher keeps its type, and no watcher holds     *)
(* arguments from a choice that was not made.                              *)
THEOREM TypeCorrect == Spec => []TypeOK
<1> QED
  BY TypeInit, TypeNext, PTL DEF Spec

-----------------------------------------------------------------------------
(* The inductive invariant.  It says where a watcher can be while its      *)
(* child runs, which relates the watcher's position to what the operating  *)
(* system keeps alive: nothing but the watcher's own wait loop, or the two *)
(* statements before it.                                                   *)

\* current_child is set from the store to the reset.
HandleInv == \A c \in Child : handle[c] <=> wpc[c] \in Waiting \union {"clear"}

\* A process runs only while its watcher is about to wait, or waits, for it.
RunInv == \A c \in Child : proc[c] = "running" => wpc[c] \in Waiting \union {"store"}

\* When main has returned, every watcher thread has ended.
ExitInv == mpc = "exit" => \A c \in Child : wpc[c] = "done"

Inv == TypeOK /\ HandleInv /\ RunInv /\ ExitInv

LEMMA WatcherInv ==
  ASSUME Inv, ~TryWaitMayFail, NEW c \in Child, Watcher(c)
  PROVE  HandleInv' /\ RunInv' /\ ExitInv'
<1> USE DEF Inv, HandleInv, RunInv, Waiting, GoTo
<1>1. ExitInv'
  <2>1. mpc' = mpc /\ mpc # "exit"
    BY DEF Watcher, Alive, WatcherTop, CloneSpec, SpawnOk, SpawnFails, StoreHandle, Poll,
           AwaitShutdown, Grace, CheckExited, CheckKill, CheckRunning, ClearHandle, Delay,
           mainVars
  <2> QED
    BY <2>1 DEF ExitInv
<1>2. CASE WatcherTop(c)
  BY <1>1, <1>2 DEF TypeOK, WatcherTop
<1>3. CASE CloneSpec(c)
  BY <1>1, <1>3 DEF TypeOK, CloneSpec
<1>4. CASE SpawnOk(c)
  BY <1>1, <1>4 DEF TypeOK, SpawnOk
<1>5. CASE SpawnFails(c)
  BY <1>1, <1>5 DEF TypeOK, SpawnFails
<1>6. CASE StoreHandle(c)
  BY <1>1, <1>6 DEF TypeOK, StoreHandle
<1>7. CASE Poll(c)
  BY <1>1, <1>7 DEF TypeOK, Poll
<1>8. CASE AwaitShutdown(c)
  BY <1>1, <1>8 DEF TypeOK, AwaitShutdown
<1>9. CASE Grace(c)
  BY <1>1, <1>9 DEF TypeOK, Grace
<1>10. CASE CheckExited(c)
  BY <1>1, <1>10 DEF TypeOK, CheckExited, WaitOver
<1>11. CASE CheckKill(c)
  BY <1>1, <1>11, KillOutcome DEF TypeOK, CheckKill
<1>12. CASE CheckRunning(c)
  BY <1>1, <1>12 DEF TypeOK, CheckRunning
<1>13. CASE ClearHandle(c)
  BY <1>1, <1>13 DEF TypeOK, ClearHandle, AfterExit
<1>14. CASE Delay(c)
  BY <1>1, <1>14 DEF TypeOK, Delay
<1> QED
  BY <1>2, <1>3, <1>4, <1>5, <1>6, <1>7, <1>8, <1>9, <1>10, <1>11, <1>12, <1>13, <1>14
     DEF Watcher

(* All other steps leave the watchers where they are and start no process. *)
LEMMA OthersQuiet ==
  ASSUME TypeOK, Main \/ Tray \/ Environment
  PROVE  /\ UNCHANGED <<wpc, handle>>
         /\ \A c \in Child : proc'[c] = "running" => proc[c] = "running"
<1>1. CASE Main
  BY <1>1, KillOutcome
     DEF Main, LeaveTray, AnnounceShutdown, ForceOff, KillAllStart, KillAll, KillAllEnd, Exit,
         watcherVars
<1>2. CASE Tray
  BY <1>2, KillOutcome DEF Tray, MenuKill, watcherVars
<1>3. ASSUME NEW c \in Child, ChildExits(c)
      PROVE  /\ UNCHANGED <<wpc, handle>>
             /\ \A d \in Child : proc'[d] = "running" => proc[d] = "running"
  BY <1>3 DEF TypeOK, ChildExits, watcherVars
<1>4. CASE Environment
  BY <1>3, <1>4, KillOutcome DEF Environment, MenuApply, Quit, PowerKill, SetSuspended, watcherVars
<1> QED
  BY <1>1, <1>2, <1>4

LEMMA OthersInv ==
  ASSUME Inv, Main \/ Tray \/ Environment
  PROVE  HandleInv' /\ RunInv' /\ ExitInv'
<1>1. HandleInv' /\ RunInv'
  BY OthersQuiet DEF Inv, HandleInv, RunInv
<1>2. CASE Exit
  BY <1>1, <1>2, OthersQuiet DEF Inv, ExitInv, Exit, WatchersJoined
<1>3. CASE ~Exit
  <2>1. mpc' = "exit" => mpc = "exit"
    BY <1>3 DEF Main, LeaveTray, AnnounceShutdown, ForceOff, KillAllStart, KillAll, KillAllEnd,
                Tray, MenuKill, Environment, MenuApply, Quit, ChildExits, PowerKill,
                SetSuspended, mainVars
  <2> QED
    BY <1>1, <2>1, OthersQuiet DEF Inv, ExitInv
<1> QED
  BY <1>2, <1>3

LEMMA InvInductive ==
  ASSUME ~TryWaitMayFail
  PROVE  Spec => []Inv
<1>1. Init => Inv
  BY TypeInit DEF Init, Inv, HandleInv, RunInv, ExitInv, Waiting
<1>2. Inv /\ [Next]_vars => Inv'
  <2> SUFFICES ASSUME Inv, [Next]_vars PROVE Inv'
    OBVIOUS
  <2>1. TypeOK'
    BY TypeNext DEF Inv
  <2>2. CASE UNCHANGED vars
    BY <2>1, <2>2 DEF Inv, HandleInv, RunInv, ExitInv, vars, watcherVars, mainVars
  <2>3. ASSUME NEW c \in Child, Watcher(c) PROVE Inv'
    BY <2>1, <2>3, WatcherInv DEF Inv
  <2>4. CASE Main \/ Tray \/ Environment
    BY <2>1, <2>4, OthersInv DEF Inv
  <2> QED
    BY <2>2, <2>3, <2>4 DEF Next, Terminated
<1> QED
  BY <1>1, <1>2, PTL DEF Spec

(* No child outlives the launcher, although every kill may fail, a child   *)
(* may be in the middle of its start, and a callback may be killing too.   *)
THEOREM NoChildOutlives ==
  ASSUME ~TryWaitMayFail
  PROVE  Spec => []NoOrphan
<1>1. Inv => NoOrphan
  BY DEF Inv, RunInv, ExitInv, NoOrphan, Waiting
<1> QED
  BY <1>1, InvInductive, PTL

(* Whoever wants to kill a running child finds its handle, except between  *)
(* the start of the process and the store of the handle.                   *)
THEOREM RunningIsReachable ==
  ASSUME ~TryWaitMayFail
  PROVE  Spec => []Reachable
<1>1. Inv => Reachable
  BY DEF Inv, RunInv, HandleInv, Reachable
<1> QED
  BY <1>1, InvInductive, PTL

(* A watcher never starts a second process while its first one runs.       *)
THEOREM NeverTwoInstances ==
  ASSUME ~TryWaitMayFail
  PROVE  Spec => OneInstance
<1>1. Inv => \A c \in Child : wpc[c] = "spawn" => proc[c] # "running"
  BY DEF Inv, RunInv, Waiting
<1>2. Inv /\ [Next]_vars
        => [\A c \in Child : wpc[c] = "spawn" /\ wpc'[c] = "store" => proc[c] # "running"]_vars
  BY <1>1
<1> QED
  BY <1>2, InvInductive, PTL DEF Spec, OneInstance
=============================================================================
