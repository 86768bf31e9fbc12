------------------------------ MODULE Display ------------------------------
(***************************************************************************)
(* Switching the LCD on and off: DisplayControl of the launcher            *)
(* (crates/aster-launcher/src/display.rs) writes "on" or "off" into        *)
(* cfg/display.state from four threads, on Linux from two, and asterctl    *)
(* polls the file (poll_display_state of crates/asterctl/src/main.rs) and  *)
(* sends the matching command over the serial port, which may fail and is  *)
(* then opened again (reconnect_with_retry of                              *)
(* crates/asterctl-lcd/src/aoo_screen.rs).  The shutdown of the launcher   *)
(* darkens the panel through the same file before it kills asterctl.       *)
(*                                                                         *)
(* std::fs::write truncates the file and then writes it: a write is two    *)
(* steps, and the file is empty between them.  What a writer loads before  *)
(* it writes is loaded with the truncation: another thread's step in       *)
(* between would as well fit between the truncation and the write.  Either *)
(* step may fail, which only the Linux menu callback minds.                *)
(***************************************************************************)
EXTENDS Naturals

CONSTANTS
  Platforms,    \* whether the launcher is the Windows one: {TRUE}, {FALSE} or both
  MaxEvents,    \* bound: menu choices, screen changes, suspends and resumes
  MaxFailures   \* bound: serial commands and steps of a write that fail

ASSUME DisplayAssumption ==
  Platforms \subseteq BOOLEAN /\ MaxEvents \in Nat /\ MaxFailures \in Nat

VARIABLES
  \* DisplayControl
  windows,      \* it is the Windows one
  mode,         \* the menu choice
  screen,       \* the Windows display is on, as the callback saw it last
  screenWake,   \* the callback has signalled the follow watcher
  seen,         \* last_seen: what the follow watcher published
  suspendOff,   \* suspend_off
  launcher,     \* "up", "quit" after the tray loop, "off" after force_off, "killing" after
                \* kill_all, "exited"; "gone" when it was killed
  writing,      \* writing[w]: what writer w is about to put into the file
  file,         \* cfg/display.state
  stale,        \* the file is older than LAUNCHER_HEARTBEAT_TIMEOUT
  \* asterctl
  apc,          \* "dead", "poll", "apply", "bye", "reconnect"
  displayOn,    \* display_on
  want,         \* want_on
  leaving,      \* the reconnect was entered because the launcher is gone
  told,         \* it has polled the file since force_off wrote it
  lcd,          \* the panel is lit
  \* history
  orderly,      \* force_off met a running asterctl, no other thread wrote after it, and
                \* asterctl did not die before its end
  \* bounds
  events, failures

controlVars == <<windows, mode, screen, screenWake, seen, suspendOff, launcher>>
fileVars == <<writing, file, stale>>
asterctlVars == <<apc, displayOn, want, leaving, told, lcd>>
systemVars == <<controlVars, fileVars, asterctlVars, events, failures>>
vars == <<systemVars, orderly>>

Mode == {"on", "off", "follow"}

\* The threads that write the file: main has the tray loop and force_off.
Writer == {"main", "menu", "follow", "power"}

\* Fault: the launcher writes what asterctl does not know.
TextCapital(on) == IF on THEN "On" ELSE "Off"

\* What write_state_file puts into the file.
Text(on) == IF on THEN "on" ELSE "off"

\* effective_state_on
EffectiveOn(m, visible) == m = "on" \/ (m = "follow" /\ visible)

\* Fault: the heartbeat does not know of the suspend.
HeartbeatAwake(m, visible, off) == EffectiveOn(m, visible)

\* heartbeat_state_on
HeartbeatOn(m, visible, off) == ~off /\ EffectiveOn(m, visible)

\* Linux knows no follow mode.
Selected(m) == IF ~windows /\ m = "follow" THEN "on" ELSE m

Init ==
  /\ windows \in Platforms
  /\ mode \in {Selected(m) : m \in Mode}
  /\ screen = TRUE /\ screenWake = FALSE /\ seen = TRUE
  /\ suspendOff = FALSE
  /\ launcher = "up"
  /\ writing = [w \in Writer |-> "none"]
  /\ file = Text(HeartbeatOn(mode, seen, suspendOff))
  /\ stale = FALSE
  /\ apc = "dead"
  /\ displayOn = FALSE /\ want = FALSE /\ leaving = FALSE /\ told = FALSE
  /\ lcd = FALSE /\ orderly = FALSE
  /\ events = 0 /\ failures = 0

-----------------------------------------------------------------------------
(* The launcher.                                                           *)

Up == launcher \notin {"exited", "gone"}

Fails == failures < MaxFailures /\ failures' = failures + 1

\* File::create of std::fs::write.
Truncate(w, on) ==
  /\ writing[w] = "none"
  /\ writing' = [writing EXCEPT ![w] = Text(on)]
  /\ file' = "empty"
  /\ stale' = FALSE

\* write_state_file is called; it may be refused the directory or the file.
StartWrite(w, on) ==
  \/ Truncate(w, on) /\ UNCHANGED failures
  \/ Fails /\ writing[w] = "none" /\ UNCHANGED fileVars

\* write_all of std::fs::write.  The Linux menu callback stores the mode then; a
\* heartbeat that comes before the store is one that has loaded the mode before.
Put(w) ==
  /\ writing[w] # "none"
  /\ file' = writing[w]
  /\ stale' = FALSE
  /\ writing' = [writing EXCEPT ![w] = "none"]
  /\ mode' = IF ~windows /\ w = "menu" THEN writing[w] ELSE mode
  /\ UNCHANGED <<windows, screen, screenWake, seen, suspendOff, launcher, asterctlVars, events,
                 failures>>

\* It fails, and the file stays empty.  A Linux menu callback gives up without the mode.
PutFails(w) ==
  /\ writing[w] # "none"
  /\ Fails
  /\ writing' = [writing EXCEPT ![w] = "none"]
  /\ UNCHANGED <<controlVars, file, stale, asterctlVars, events>>

Counted == events < MaxEvents /\ events' = events + 1

\* The tray loop, every 2 seconds.
Heartbeat ==
  /\ launcher = "up"
  /\ StartWrite("main", HeartbeatOn(mode, seen, suspendOff))
  /\ UNCHANGED <<controlVars, asterctlVars, events>>

\* The Windows control stores the mode and writes.
WriteForMode(m) == mode' = m /\ StartWrite("menu", HeartbeatOn(m, seen, suspendOff))

\* The Linux control writes first, and without the write does not store the mode.
ApplyLinux(m) == UNCHANGED mode /\ StartWrite("menu", Selected(m) = "on")

\* DisplayControl::apply, once the choice is persisted.
Apply(m) ==
  /\ Up
  /\ Counted
  /\ IF windows THEN WriteForMode(m) ELSE ApplyLinux(m)
  /\ UNCHANGED <<windows, screen, screenWake, seen, suspendOff, launcher, asterctlVars>>

\* on_display_power_event: the Windows display goes on or off.
ScreenChanges ==
  /\ windows /\ Up
  /\ Counted
  /\ screen' = ~screen
  /\ screenWake' = TRUE
  /\ UNCHANGED <<windows, mode, seen, suspendOff, launcher, fileVars, asterctlVars, failures>>

\* Every display state the watcher sees is published for the other writers.
Published == screen

\* One turn of the follow watcher's loop.
FollowWakes ==
  /\ Up
  /\ screenWake
  /\ screenWake' = FALSE
  /\ seen' = Published
  /\ IF mode = "follow"
       THEN StartWrite("follow", ~suspendOff /\ screen)
       ELSE writing["follow"] = "none" /\ UNCHANGED <<fileVars, failures>>
  /\ UNCHANGED <<windows, mode, screen, suspendOff, launcher, asterctlVars, events>>

\* DisplayControl::suspend
Suspend ==
  /\ windows /\ Up
  /\ Counted
  /\ suspendOff' = TRUE
  /\ StartWrite("power", FALSE)
  /\ UNCHANGED <<windows, mode, screen, screenWake, seen, launcher, asterctlVars>>

\* DisplayControl::resume
Resume ==
  /\ Up
  /\ Counted
  /\ suspendOff
  /\ suspendOff' = FALSE
  /\ StartWrite("power", EffectiveOn(mode, seen))
  /\ UNCHANGED <<windows, mode, screen, screenWake, seen, launcher, asterctlVars>>

\* The tray loop ends, and with it the heartbeat.
Quit ==
  /\ launcher = "up"
  /\ writing["main"] = "none"
  /\ launcher' = "quit"
  /\ UNCHANGED <<windows, mode, screen, screenWake, seen, suspendOff, fileVars, asterctlVars, events,
                 failures>>

ForceOff ==
  /\ launcher = "quit"
  /\ StartWrite("main", FALSE)
  /\ launcher' = "off"
  /\ UNCHANGED <<windows, mode, screen, screenWake, seen, suspendOff, asterctlVars, events>>

\* Fault: main does not sleep before kill_all.
KillsAtOnce == TRUE

(* Timing: the grace of 2 seconds is long enough for one of the polls that *)
(* asterctl makes every second, and for its command, unless it waits for   *)
(* the panel.                                                              *)
GraceOver == apc \in {"dead", "reconnect"} \/ (told /\ apc = "poll")

\* kill_all of the shutdown, which may fail.
KillAll ==
  /\ launcher = "off"
  /\ writing["main"] = "none"
  /\ GraceOver
  /\ launcher' = "killing"
  /\ apc' \in {apc, "dead"}
  /\ UNCHANGED <<windows, mode, screen, screenWake, seen, suspendOff, fileVars, displayOn, want,
                 leaving, told, lcd, events, failures>>

\* The watchers are joined: asterctl is dead when the launcher exits.
Exit ==
  /\ launcher = "killing"
  /\ apc = "dead"
  /\ launcher' = "exited"
  /\ writing' = [w \in Writer |-> "none"]
  /\ UNCHANGED <<windows, mode, screen, screenWake, seen, suspendOff, file, stale, asterctlVars, events,
                 failures>>

\* The launcher is killed, perhaps in the middle of a write.
Killed ==
  /\ Up
  /\ launcher' = "gone"
  /\ writing' = [w \in Writer |-> "none"]
  /\ UNCHANGED <<windows, mode, screen, screenWake, seen, suspendOff, file, stale, asterctlVars, events,
                 failures>>

(* Timing: the heartbeat comes every 2 seconds and the shutdown takes a    *)
(* few, so the file is 10 seconds old only when the launcher is gone.      *)
GrowsStale ==
  /\ ~Up
  /\ ~stale
  /\ stale' = TRUE
  /\ UNCHANGED <<controlVars, writing, file, asterctlVars, events, failures>>

-----------------------------------------------------------------------------
(* asterctl.                                                               *)

\* A watcher that had not seen the quit may start it a little later.
Starting == launcher \in {"up", "quit", "off"}

\* The launcher starts it, and AooScreen::init lights the panel.
Start ==
  /\ Starting
  /\ apc = "dead"
  /\ apc' = "poll"
  /\ displayOn' = TRUE /\ want' = TRUE /\ leaving' = FALSE /\ told' = FALSE
  /\ lcd' = TRUE
  /\ UNCHANGED <<controlVars, fileVars, events, failures>>

\* The first command is lost, or the panel does not answer it: the process ends.
StartFails ==
  /\ Starting
  /\ apc = "dead"
  /\ lcd' \in {lcd, TRUE}
  /\ UNCHANGED <<controlVars, fileVars, apc, displayOn, want, leaving, told, events, failures>>

\* The launcher kills asterctl, or it crashes: the panel stays as it is.
Die ==
  /\ apc # "dead"
  /\ Up
  /\ apc' = "dead"
  /\ UNCHANGED <<controlVars, fileVars, displayOn, want, leaving, told, lcd, events, failures>>

\* Fault: the line end is not trimmed before the comparison.
ReadsUntrimmed == TRUE

\* read_display_state: everything but "off" keeps the display on.
ReadsOn == file # "off"

\* Fault: the age of the file is not looked at.
NeverStale == FALSE

\* launcher_is_dead
LauncherIsDead == stale

\* poll_display_state up to the command it sends.
PollLive ==
  /\ apc = "poll"
  /\ ~LauncherIsDead
  /\ want' = ReadsOn
  /\ apc' = IF want' = displayOn THEN "poll" ELSE "apply"
  /\ told' = (launcher \in {"off", "killing"} /\ writing["main"] = "none")
  /\ UNCHANGED <<controlVars, fileVars, displayOn, leaving, lcd, events, failures>>

PollDead ==
  /\ apc = "poll"
  /\ LauncherIsDead
  /\ apc' = IF displayOn THEN "bye" ELSE "dead"
  /\ UNCHANGED <<controlVars, fileVars, displayOn, want, leaving, told, lcd, events, failures>>

\* screen.on() or screen.off()
ApplyOk ==
  /\ apc = "apply"
  /\ lcd' = want
  /\ displayOn' = want
  /\ apc' = "poll"
  /\ UNCHANGED <<controlVars, fileVars, want, leaving, told, events, failures>>

\* The off of a process that has lost its launcher; it exits then.
ByeOk ==
  /\ apc = "bye"
  /\ lcd' = FALSE
  /\ displayOn' = FALSE
  /\ apc' = "dead"
  /\ UNCHANGED <<controlVars, fileVars, want, leaving, told, events, failures>>

\* A command fails, or a frame while the display is on; it may have reached the panel.
CommandFails ==
  /\ Fails
  /\ \/ apc = "apply" /\ leaving' = FALSE /\ lcd' \in {lcd, want}
     \/ apc = "bye" /\ leaving' = TRUE /\ lcd' \in {lcd, FALSE}
     \/ apc = "poll" /\ displayOn /\ leaving' = FALSE /\ UNCHANGED lcd
  /\ apc' = "reconnect"
  /\ UNCHANGED <<controlVars, fileVars, displayOn, want, told, events>>

\* Fault: opening the port again does not send the command that lights the panel.
NotLit == lcd

\* What AooScreen::init leaves the panel in.
Lit == TRUE

\* The port is open again and the panel initialized; the caller goes on, or exits.
Reconnected ==
  /\ apc = "reconnect"
  /\ lcd' = Lit
  /\ apc' = IF leaving THEN "dead" ELSE "poll"
  /\ UNCHANGED <<controlVars, fileVars, displayOn, want, leaving, told, events, failures>>

-----------------------------------------------------------------------------
Write == \E w \in Writer : Put(w) \/ PutFails(w)

Asterctl == PollLive \/ PollDead \/ ApplyOk \/ ByeOk \/ Reconnected

Launcher ==
  \/ Write \/ Heartbeat \/ (\E m \in Mode : Apply(m)) \/ ScreenChanges \/ FollowWakes
  \/ Suspend \/ Resume \/ Quit \/ ForceOff \/ KillAll \/ Exit \/ Killed \/ GrowsStale

Process == Start \/ StartFails \/ Die \/ Asterctl \/ CommandFails

\* History: what the step leaves of the orderly shutdown.
Remembered ==
  \/ launcher = "quit" /\ launcher' = "off" /\ apc # "dead"
  \/ /\ orderly
     /\ launcher' # "exited" => \A w \in Writer \ {"main"} : writing'[w] = writing[w]
     /\ launcher' = "off" => apc' # "dead"

Next == (Launcher \/ Process) /\ orderly' = Remembered

Spec == Init /\ [][Next]_vars

(* Threads are scheduled, asterctl polls every second, time passes, and a  *)
(* panel that is there is opened at last.  Not every poll hits the moment  *)
(* in which a writer has just truncated the file.                          *)
FairSpec ==
  /\ Spec
  /\ \A w \in Writer : WF_systemVars(Put(w))
  /\ WF_systemVars(Heartbeat)
  /\ WF_systemVars(FollowWakes)
  /\ WF_systemVars(GrowsStale)
  /\ WF_systemVars(Asterctl)
  /\ SF_systemVars(PollLive /\ file # "empty")

-----------------------------------------------------------------------------
(* Properties.                                                             *)

TypeOK ==
  /\ mode \in Mode
  /\ screen \in BOOLEAN /\ screenWake \in BOOLEAN /\ seen \in BOOLEAN
  /\ suspendOff \in BOOLEAN /\ stale \in BOOLEAN
  /\ windows \in BOOLEAN /\ told \in BOOLEAN /\ orderly \in BOOLEAN
  /\ launcher \in {"up", "quit", "off", "killing", "exited", "gone"}
  /\ writing \in [Writer -> {"none", "on", "off"}]
  /\ file \in {"on", "off", "empty"}
  /\ apc \in {"dead", "poll", "apply", "bye", "reconnect"}
  /\ displayOn \in BOOLEAN /\ want \in BOOLEAN /\ leaving \in BOOLEAN /\ lcd \in BOOLEAN
  /\ events \in 0..MaxEvents /\ failures \in 0..MaxFailures

(* "On a clean launcher shutdown force_off blanks the display before       *)
(* asterctl is killed": so it is when asterctl runs by then and is not     *)
(* killed by another thread, no other writer comes after force_off, and no *)
(* command or write fails.                                                 *)
QuitEndsDark == launcher = "exited" /\ orderly /\ failures = 0 => ~lcd

\* What the display is meant to be.
Desired == ~suspendOff /\ (mode = "on" \/ (mode = "follow" /\ screen))

(* display_on is "true while the display is actually showing content":     *)
(* between two commands asterctl never believes a dark panel to be lit,    *)
(* whatever failed before.                                                 *)
OnMeansLit == apc \in {"poll", "apply", "bye"} /\ displayOn => lcd

(* display.rs: "a mid-sleep heartbeat cannot flip the file back to on".    *)
(* Writers that decided before the last change may write after it, but the *)
(* heartbeat settles the file on the state that is meant, after writes     *)
(* that failed too.                                                        *)
FileSettles ==
  /\ (<>[](launcher = "up" /\ Desired)) => <>[](file # "off")
  /\ (<>[](launcher = "up" /\ ~Desired)) => <>[](file # "on")

\* A display that is meant to be on is lit at last, whatever failed before.
OnReachesLcd ==
  (<>[](launcher = "up" /\ Desired /\ apc # "dead")) => <>[]lcd

(* A display that is meant to be off goes dark again and again: not for    *)
(* good, because a poll between truncation and write reads "on".           *)
OffReachesLcd ==
  (<>[](launcher = "up" /\ ~Desired /\ apc # "dead")) => []<>(~lcd)

\* The same as long as no command and no write fails.
OffReachesLcdUnfailing == [](failures = 0) => OffReachesLcd

(* display.rs: "a closed or killed launcher never leaves the LCD stuck     *)
(* on": an asterctl that survives its launcher darkens the panel and exits.*)
SurvivorEndsDark ==
  [](failures = 0) => ((launcher = "gone" /\ apc # "dead") ~> (apc = "dead" /\ ~lcd))
=============================================================================
