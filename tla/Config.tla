-------------------------------- MODULE Config --------------------------------
(***************************************************************************)
(* The launcher's own configuration: crates/aster-launcher/src/config.rs   *)
(* as main.rs, tray.rs and display.rs use it.  A menu choice rewrites one  *)
(* line of launcher.toml and reads the file again; a start reads it; every *)
(* read first repairs what an older release may have left behind: several  *)
(* assignments on a line, and several of one option.  The file is replaced *)
(* through a temporary one.  Each of the steps may fail, and the launcher  *)
(* may die between any two.  The loop of the tray then moves the check     *)
(* mark of the menu.                                                       *)
(*                                                                         *)
(* A text is the sequence of its assignments to the options of the menu.   *)
(* One that continues a line has the form "joined", one behind a hash sign *)
(* the form "comment".  A file whose provisioning broke off may end in an  *)
(* assignment without its value, "broken", or in what is no assignment     *)
(* yet, or one to an option that is not of the menu, "torn".  Every other  *)
(* line is left alone by the code.  The menu has one item for each value   *)
(* and, for an option that is not set, an item of the default; a callback  *)
(* is over before the next begins.                                         *)
(***************************************************************************)
EXTENDS Naturals, Sequences, FiniteSets, FiniteSetsExt

CONSTANTS
  Key,        \* options of the menu
  Strict,     \* those that are no child argument and have a type of their own: display_mode
  Value,      \* what the options may be set to
  On,         \* the mode that Linux takes for the next one
  Follow,     \* the mode that the Linux menu does not offer
  Bad,        \* what no menu offers, but an editor may write
  None,       \* no value
  Packaged,   \* the value of each option in the packaged file
  Platforms,  \* whether the launcher is the Windows one: {TRUE}, {FALSE} or both
  MaxLines,   \* assignments in the text at first
  MaxFaults   \* failing file operations, kills and changes of a menu item

Setting == [Key -> Value \union {None}]

ASSUME ConfigAssumption ==
  /\ Strict \subseteq Key /\ Key # {}
  /\ Bad \notin Value /\ None \notin Value \union {Bad}
  /\ Follow \in Value /\ {On, Packaged} \subseteq Value \ {Follow}
  /\ IsFiniteSet(Key)
  /\ Platforms \subseteq BOOLEAN
  /\ MaxLines \in Nat /\ MaxFaults \in Nat

Entry == [key : Key, value : Value \union {Bad},
          form : {"line", "joined", "comment", "broken", "torn"}]

VARIABLES
  windows,        \* this is the Windows launcher
  exists, text,   \* launcher.toml
  temp,           \* the temporary file of this process: "none", "partial", "whole"
  new,            \* what is to be written
  pc,             \* the step of the launcher
  op,             \* "start", "set", "rewrite", "load": the call it is in
  choice,         \* the menu choice
  cfg,            \* what the last load returned
  inForce,        \* the settings that the launcher and its children work with
  current,        \* current_refresh, current_theme, DisplayControl::mode
  last,           \* last_refresh, last_theme, last_display of the loop; {} before the first
  marked,         \* the checked items of each menu; None is the item of the default
  astray,         \* history: options of which the launcher knows that the mark may be wrong
  faults

fileVars == <<exists, text>>
writeVars == <<temp, new>>
callVars == <<op, choice>>
menuVars == <<current, last, marked, astray>>
vars == <<fileVars, writeVars, pc, callVars, cfg, inForce, menuVars, faults, windows>>

-----------------------------------------------------------------------------
(* Texts.                                                                  *)

\* assignment_key: what stands left of the equals sign, or alone, before a hash sign.
Assigns(entry) == entry.form \notin {"comment", "torn"}

Live(t, k) == {i \in DOMAIN t : t[i].key = k /\ Assigns(t[i])}

\* What a text says of the options: the last assignment is the recent one.
Meaning(t) ==
  [k \in Key |-> IF Live(t, k) = {} THEN None ELSE t[Max(Live(t, k))].value]

\* repair_toml_text: a line break before each continued assignment.
Split(t) ==
  [i \in DOMAIN t |-> IF t[i].form = "joined" THEN [t[i] EXCEPT !.form = "line"] ELSE t[i]]

\* Fault: the first assignment of an option is retained.
Earlier(t, i) == \E j \in Live(t, t[i].key) : j < i

\* The line is a stale copy.
Stale(t, i) == \E j \in Live(t, t[i].key) : j > i

\* deduplicate_known_keys: all but the last assignment become comments.
Deduplicate(t) ==
  [i \in DOMAIN t |-> IF Assigns(t[i]) /\ Stale(t, i)
                      THEN [t[i] EXCEPT !.form = "comment"] ELSE t[i]]

Repaired(t) == Deduplicate(Split(t))

\* Fault: the choice is appended in any case.
Appended(t, k, v) == Append(t, [key |-> k, value |-> v, form |-> "line"])

\* set_toml_value, for a repaired text.
WithValue(t, k, v) ==
  IF Live(t, k) = {}
  THEN Append(t, [key |-> k, value |-> v, form |-> "line"])
  ELSE [i \in DOMAIN t |-> IF i \in Live(t, k)
                           THEN [t[i] EXCEPT !.value = v, !.form = "line"] ELSE t[i]]

\* toml accepts the text.
Parses(t) ==
  /\ \A i \in DOMAIN t : t[i].form \in {"line", "comment"}
  /\ \A k \in Key : \A i, j \in Live(t, k) : i = j
  /\ \A k \in Strict : Meaning(t)[k] # Bad

Defaults == [k \in Key |-> None]

\* toml::from_str and sanitize_values.
Loaded(t) ==
  IF Parses(t)
  THEN [k \in Key |-> IF Meaning(t)[k] = Bad THEN None ELSE Meaning(t)[k]]
  ELSE Defaults

\* DisplayMode::Follow is the value of no other option.
Known(k) == IF k \in Strict THEN Value ELSE Value \ {Follow}

NoChoice == CHOOSE c \in [key : Key, value : Value] : TRUE

\* What an older release or an editor leaves behind; what a comment says does not
\* matter.
InitialText ==
  {t \in UNION {[1..n -> Entry] : n \in 0..MaxLines} :
     \A i \in DOMAIN t :
       /\ t[i].form \in {"line", "joined", "comment"}
       /\ t[i].value \in Known(t[i].key) \union {Bad}
       /\ t[i].form = "joined" => i > 1 /\ t[i - 1].form # "comment"
       /\ t[i].form = "comment" => t[i].key = NoChoice.key /\ t[i].value = Packaged}

PackagedText ==
  LET order == CHOOSE s \in [1..Cardinality(Key) -> Key] :
                 \A k \in Key : \E i \in DOMAIN s : s[i] = k
  IN  [i \in DOMAIN order |-> [key |-> order[i], value |-> Packaged, form |-> "line"]]

\* What may be there of it when the writing broke off: some lines, and perhaps a
\* piece of the next.
PartialText ==
  LET whole(n) == SubSeq(PackagedText, 1, n)
      piece(k, f) == [key |-> k, value |-> Bad, form |-> f]
  IN  {whole(n) : n \in 0..Len(PackagedText)}
      \union {Append(whole(n), piece(NoChoice.key, "torn")) : n \in 0..Len(PackagedText)}
      \union {Append(whole(n - 1), piece(PackagedText[n].key, "broken")) :
                n \in 1..Len(PackagedText)}

\* No item of any menu.
NoMarks == [k \in Key |-> {}]

Init ==
  /\ windows \in Platforms
  /\ exists \in BOOLEAN
  /\ text \in IF exists THEN InitialText ELSE {<<>>}
  /\ temp = "none" /\ new = <<>>
  /\ pc = "down" /\ op = "start"
  /\ choice = NoChoice
  /\ cfg = Defaults /\ inForce = Defaults
  /\ current = Defaults
  /\ last = NoMarks /\ marked = NoMarks /\ astray = {}
  /\ faults = 0

-----------------------------------------------------------------------------
(* Calls.                                                                  *)

\* How a call goes on when it knows that the file holds t.
Continue(t) ==
  \/ /\ op = "set"
     /\ new' = WithValue(t, choice.key, choice.value)
     /\ op' = "rewrite" /\ pc' = "create"
     /\ UNCHANGED cfg
  \/ /\ op = "rewrite"
     /\ op' = "load" /\ pc' = IF windows /\ choice.key \in Strict THEN "apply" ELSE "read"
     /\ new' = <<>>
     /\ UNCHANGED cfg
  \/ /\ op \in {"start", "load"}
     /\ cfg' = Loaded(t)
     /\ pc' = "apply"
     /\ new' = <<>>
     /\ UNCHANGED op

\* The call returns; its variables are gone.
Return(to) ==
  /\ pc' = to
  /\ op' = "start" /\ new' = <<>> /\ choice' = NoChoice /\ cfg' = Defaults

Faulty == faults < MaxFaults /\ faults' = faults + 1

\* Fault: the callback goes on when the choice could not be written.
ShownAnyway == [current EXCEPT ![choice.key] = choice.value]

\* What the menu is to show after a callback that gave up.
ShownAfterError == current

\* An error ends a set, and a load with the defaults.
Fails ==
  /\ Faulty
  /\ \/ op \in {"set", "rewrite"} /\ Return("idle") /\ current' = ShownAfterError
     \/ /\ op \in {"start", "load"}
        /\ pc' = "apply" /\ cfg' = Defaults /\ new' = <<>>
        /\ UNCHANGED <<callVars, current>>
  /\ UNCHANGED <<inForce, last, marked>>

\* read_and_repair; a missing file is no error.
Read ==
  /\ pc = "read"
  /\ IF Repaired(text) = text
     THEN Continue(text)
     ELSE new' = Repaired(text) /\ pc' = "create" /\ UNCHANGED <<op, cfg>>
  /\ UNCHANGED <<fileVars, temp, choice, inForce, menuVars, faults>>

ReadFails == pc = "read" /\ Fails /\ UNCHANGED <<fileVars, temp, astray>>

-----------------------------------------------------------------------------
(* atomic_write.                                                           *)

Step(from, to) ==
  /\ pc = from
  /\ pc' = to
  /\ UNCHANGED <<new, callVars, cfg, inForce, menuVars, faults>>

Create == Step("create", "write") /\ temp' = "partial" /\ UNCHANGED fileVars

Write == Step("write", "sync") /\ temp' = "whole" /\ UNCHANGED fileVars

\* Windows does not replace an existing path.
Sync ==
  /\ Step("sync", IF windows /\ exists THEN "remove" ELSE "rename")
  /\ UNCHANGED <<fileVars, temp>>

Remove == Step("remove", "rename") /\ exists' = FALSE /\ text' = <<>> /\ UNCHANGED temp

Rename ==
  /\ pc = "rename"
  /\ exists' = TRUE
  /\ text' = new
  /\ temp' = "none"
  /\ Continue(new)
  /\ UNCHANGED <<choice, inForce, menuVars, faults>>

\* Fault: a failed write leaves its half of the temporary file behind.
LeftBehind == temp

\* The temporary file after an error: write_all and rename clean up.
AfterError == IF pc \in {"write", "rename"} THEN "none" ELSE temp

WriteFails ==
  /\ pc \in {"create", "write", "sync", "remove", "rename"}
  /\ Fails
  /\ temp' = AfterError
  /\ astray' = IF exists THEN astray ELSE Key
  /\ UNCHANGED fileVars

-----------------------------------------------------------------------------
(* The launcher.                                                           *)

\* The Linux launcher copies the packaged file to where there is none: fs::write
\* creates an empty one, unless that fails or the packaged one cannot be read.
Launch ==
  /\ pc = "down"
  /\ op' = "start"
  /\ \/ (exists \/ windows) /\ pc' = "read" /\ UNCHANGED <<fileVars, faults>>
     \/ ~exists /\ ~windows /\ pc' = "copy" /\ exists' = TRUE /\ text' = <<>>
        /\ UNCHANGED faults
     \/ ~exists /\ ~windows /\ Faulty /\ pc' = "read" /\ UNCHANGED fileVars
  /\ UNCHANGED <<writeVars, choice, cfg, inForce, menuVars>>

\* It fills the file.  The start goes on after an error, with what is there, and no
\* later start provisions again; a death in the writing is the error and Dies.
Copy ==
  /\ pc = "copy" /\ pc' = "read"
  /\ \/ text' = PackagedText /\ UNCHANGED faults
     \/ text' \in PartialText /\ Faulty
  /\ UNCHANGED <<exists, writeVars, callVars, cfg, inForce, menuVars>>

\* The Linux menu has no item that follows the screen.
Offered(k) == IF windows THEN Known(k) ELSE Value \ {Follow}

Choose(k, v) ==
  /\ pc = "idle" /\ v \in Offered(k)
  /\ choice' = [key |-> k, value |-> v]
  /\ op' = "set" /\ pc' = "read"
  /\ UNCHANGED <<fileVars, writeVars, cfg, inForce, menuVars, faults>>

\* The Linux callbacks refuse a choice that the file did not retain; the
\* Windows ones set it in what they have loaded.
Retained == windows \/ cfg[choice.key] = choice.value

WithChoice(c) == [c EXCEPT ![choice.key] = choice.value]

\* What the launcher makes of what it loaded: "follow" is "on" on Linux, which tells
\* the log and leaves the file alone.
Taken(c) ==
  [k \in Key |-> IF ~windows /\ k \in Strict /\ c[k] = Follow THEN On ELSE c[k]]

\* A start takes everything from the file.  Windows checks the items while it
\* builds the menu, Linux in the first turn of the loop.
Begin ==
  /\ op = "start"
  /\ inForce' = Taken(cfg) /\ current' = Taken(cfg)
  /\ last' = [k \in Key |-> IF windows THEN {cfg[k]} ELSE {}]
  /\ marked' = last'
  /\ astray' = {}
  /\ UNCHANGED faults

\* DisplayControl::apply: the Linux one writes display.state before it stores the mode,
\* and gives up when that fails.  What it makes of "follow" is no concern of a menu that
\* does not offer it.
SetMode ==
  \/ /\ inForce' = WithChoice(inForce) /\ current' = WithChoice(current)
     /\ UNCHANGED <<astray, faults>>
  \/ /\ ~windows /\ Faulty
     /\ astray' = astray \union {choice.key}
     /\ UNCHANGED <<inForce, current>>

\* Fault: the specs are built from the defaults and the choice.
NotReloaded == Defaults

\* What the specs are built from.
Reloaded == cfg

\* The options that the specs may take from elsewhere than the file.
Misled == IF cfg = Loaded(text) /\ Parses(text) THEN {} ELSE Key \ Strict

\* The specs are built anew, for all children; when those that the choice is about
\* could be killed the menu is to show it.
Restart ==
  /\ inForce' = WithChoice([k \in Key |-> IF k \in Strict THEN inForce[k] ELSE Reloaded[k]])
  /\ \/ /\ current' = WithChoice(current) /\ astray' = astray \union Misled
        /\ UNCHANGED faults
     \/ /\ Faulty
        /\ astray' = astray \union Misled \union {choice.key}
        /\ UNCHANGED current

CallBack ==
  /\ op = "load" /\ Retained
  /\ IF choice.key \in Strict THEN SetMode ELSE Restart
  /\ UNCHANGED <<last, marked>>

\* The file keeps a choice that is refused.
Refuse ==
  /\ op = "load" /\ ~Retained
  /\ astray' = astray \union {choice.key}
  /\ UNCHANGED <<inForce, current, last, marked, faults>>

Apply ==
  /\ pc = "apply"
  /\ Begin \/ CallBack \/ Refuse
  /\ Return("idle")
  /\ UNCHANGED <<fileVars, temp>>

\* One turn of the loop of the tray for one menu; a failing change of an item leaves
\* marks behind that no later turn corrects.  Between two callbacks: a turn during a
\* callback reads what it would have read before.
MoveMark(k) ==
  /\ pc = "idle"
  /\ last[k] # {current[k]}
  /\ last' = [last EXCEPT ![k] = {current[k]}]
  /\ \/ marked' = [marked EXCEPT ![k] = {current[k]}] /\ UNCHANGED <<astray, faults>>
     \/ /\ Faulty
        /\ \E m \in {{}, marked[k], marked[k] \union {current[k]}} :
             marked' = [marked EXCEPT ![k] = m]
        /\ astray' = astray \union {k}
  /\ UNCHANGED <<fileVars, writeVars, pc, callVars, cfg, inForce, current>>

TrayLoop == \E k \in Key : MoveMark(k)

\* The launcher ends, or dies; a temporary file has the name of its process.
Dies ==
  /\ pc # "down"
  /\ Return("down")
  /\ temp' = "none" /\ inForce' = Defaults
  /\ current' = Defaults /\ last' = NoMarks /\ marked' = NoMarks /\ astray' = {}
  /\ UNCHANGED <<fileVars, faults>>

-----------------------------------------------------------------------------
AtomicWrite == Create \/ Write \/ Sync \/ Remove \/ Rename \/ WriteFails

Next ==
  /\ \/ Launch \/ Copy \/ Read \/ ReadFails \/ AtomicWrite \/ Apply \/ Dies
     \/ \E k \in Key, v \in Value : Choose(k, v)
     \/ TrayLoop
  /\ UNCHANGED windows

Spec == Init /\ [][Next]_vars

-----------------------------------------------------------------------------
(* Properties.                                                             *)

TypeOK ==
  /\ exists \in BOOLEAN
  /\ text \in Seq(Entry) /\ new \in Seq(Entry)
  /\ ~exists => text = <<>>
  /\ temp \in {"none", "partial", "whole"}
  /\ temp = "partial" => pc = "write"
  /\ pc \in {"down", "copy", "idle", "read", "create", "write", "sync", "remove", "rename", "apply"}
  /\ op \in {"start", "set", "rewrite", "load"}
  /\ choice \in [key : Key, value : Value]
  /\ cfg \in Setting /\ inForce \in Setting /\ current \in Setting
  /\ last \in [Key -> SUBSET (Value \union {None})]
  /\ marked \in [Key -> SUBSET (Value \union {None})]
  /\ astray \subseteq Key
  /\ faults \in 0..MaxFaults
  /\ windows \in BOOLEAN

\* Windows has removed the old file, and the rename will put the new one there.
Replacing == windows /\ pc = "rename" /\ ~exists

\* The text that was written last.
Written == IF Replacing THEN new ELSE text

Store == INSTANCE ConfigStore WITH stored <- Meaning(Written)

(* Whatever fails or dies, the options of launcher.toml change one at a    *)
(* time, and the repair changes none.  Two things are excepted: on Linux   *)
(* main.rs:235 fills a new file with the packaged options, and what fails  *)
(* or dies then leaves the first of them, one perhaps without its value;   *)
(* on Windows the rename may not happen after the old file was removed.    *)
StoredUnlessReplacing ==
  [][\/ Store!Next
     \/ UNCHANGED Meaning(Written)
     \/ Replacing /\ ~exists']_vars

(* When a choice has been persisted, the file says so, and in a form that  *)
(* toml accepts whatever the older release had left there.                 *)
ChoiceIsStored ==
  op = "load" /\ pc = "read" =>
    Meaning(text)[choice.key] = choice.value /\ Repaired(text) = text

(* A choice leaves the other settings in force or brings them to what the  *)
(* file says, unless a Windows callback could not load it: tray.rs reloads *)
(* it so that the other choice made since the start survives.              *)
OthersSurvive ==
  [][op = "load" /\ pc' = "idle" /\ (windows => cfg = Loaded(text)) =>
       \A k \in Key \ {choice.key} : inForce'[k] \in {inForce[k], Loaded(text)[k]}]_vars

(* "current_refresh tracks the active interval so the sub-menu shows a     *)
(* check mark on it": between two callbacks a choice that is checked is in *)
(* force and is what the next start will make of the file, whatever was    *)
(* chosen, failed or refused before.  On Linux a file that says "follow"   *)
(* is "safely treated as On" (docs/linux/README.md:28-29), so this is what *)
(* the menu checks.  Excepted is an option for which the launcher has met  *)
(* a failing kill, a failing change of a menu item, a choice that it       *)
(* refused, or a file that it could not load or has removed.               *)
CheckedIsChosen ==
  pc = "idle" =>
    \A k \in Key \ astray :
      last[k] = {current[k]} =>
        \A v \in marked[k] \ {None} : inForce[k] = v /\ Taken(Meaning(text))[k] = v
=============================================================================
