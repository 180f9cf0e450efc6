-------------------------------- MODULE TuiApp --------------------------------
(***************************************************************************)
(* The terminal UI: one loop takes events from a bounded channel, filled   *)
(* by the keyboard task, by the migrations the loop has spawned, by the    *)
(* forwarders of their progress, and by health checks.  A key becomes an   *)
(* event under the input mode of the moment it is read, which is not the   *)
(* mode of the moment its event is handled.                                *)
(***************************************************************************)
EXTENDS SetupWizard, FiniteSets

CONSTANTS
    Scenarios,    \* the keys, tasks and configurations of each kind of session
    EventCap,     \* capacity of the event channel
    ProgressCap   \* capacity of a migration's progress channel

VARIABLES
    conf,      \* the scenario
    session,   \* "closed" before the UI starts, "open", "over"
    file,      \* by path: << >>, or << the content >> of a configuration file
    events,    \* AppEvents on their way to the loop
    app,       \* App: what the loop alone reads and writes; App.path is config_path
    task,      \* per migration: "unborn", "working", "ended"
    cancelled, \* the migrations whose token was cancelled
    reached,   \* per migration: the last phase it reported, or tried to
    progress,  \* per migration: updates its forwarder has not passed on
    checks,    \* health checks under way
    lost,      \* history: migrations whose token App dropped while they ran
    reopened   \* history: an update came when App was idle

vars == << conf, session, file, events, app, task, cancelled, reached, progress, checks,
           lost, reopened >>
taskVars == << task, cancelled, reached, progress, checks >>
history == << lost, reopened >>

-----------------------------------------------------------------------------
(* State.                                                                  *)

RunIds == 1..conf.runs   \* conf.runs bounds the migrations of a session
NoRun == 0
Reported == << "extracting", "preparing", "transferring", "finalizing" >>
Terminal == {"completed", "failed", "cancelled"}
Phases == {"idle", "connecting"} \cup {Reported[i] : i \in DOMAIN Reported} \cup Terminal
Modes == {"normal", "command", "file", "wizard"}

\* A session starts with files that load, or with none.
ASSUME TuiAssumption ==
    /\ EventCap \in Nat \ {0} /\ ProgressCap \in Nat
    /\ \A s \in Scenarios :
         /\ s.runs \in Nat /\ s.checks \in Nat /\ s.line \in Nat
         /\ s.reports \in 0..Len(Reported)
         /\ s.ahead \in BOOLEAN /\ s.init \in BOOLEAN
         /\ s.paths \subseteq Paths
         /\ \A f \in s.files :
              /\ f \in [Paths -> Seq(Files)]
              /\ \A p \in Paths : Len(f[p]) = 0 \/ (Len(f[p]) = 1 /\ Loads(p, f[p][1]))

\* A command line is its slash, the name of a command, and an @ that starts a path.
Commands == {"run", "dry", "health", "wizard", "config"}
IsLine(s) == Len(s) <= conf.line /\ \A i \in DOMAIN s : s[i] \in Commands \cup {"/", "@"}

Closed ==
    [phase |-> "idle", token |-> NoRun, mode |-> "normal", palette |-> FALSE, line |-> << >>,
     last |-> << >>, draft |-> << >>, wizard |-> << >>, config |-> DefaultConfig, path |-> "yaml"]

Init ==
    /\ conf \in Scenarios
    /\ session = "closed"
    /\ file \in conf.files
    /\ events = << >>
    /\ app = Closed
    /\ task = [r \in RunIds |-> "unborn"]
    /\ cancelled = {}
    /\ reached = [r \in RunIds |-> 0]
    /\ progress = [r \in RunIds |-> << >>]
    /\ checks = 0
    /\ lost = {}
    /\ reopened = FALSE

FileLoads(p) == file[p] # << >> /\ Loads(p, file[p][1])
With(a, p, f) == [a EXCEPT !.config = Read(f), !.path = p]
Room == Len(events) < EventCap
Event(kind, what, run) == [kind |-> kind, what |-> what, run |-> run]
Post(e) == events' = Append(events, e)

-----------------------------------------------------------------------------
(* Before the UI starts.                                                   *)

\* The init command edits the file, or starts afresh, and writes what validates.
RunInit ==
    /\ session = "closed"
    /\ conf.init
    /\ \E p \in conf.paths :
       \E from \in {DefaultConfig} \cup (IF FileLoads(p) THEN {Read(file[p][1])} ELSE {}),
          db \in {"", "a", "@"}, workers \in {"auto", "0", "4"} :
          LET c == Prompted(from, db, workers)
          IN /\ Validates(c)
             /\ file' = [file EXCEPT ![p] = << InitWrites(c) >>]
    /\ UNCHANGED << conf, session, events, app, taskVars, history >>

\* Without a file that loads the wizard opens at once.
StartUi ==
    /\ session = "closed"
    /\ session' = "open"
    /\ \E p \in conf.paths :
          app' = IF FileLoads(p) THEN With(app, p, file[p][1])
                 ELSE [app EXCEPT !.mode = "wizard", !.path = p,
                                  !.wizard = << OpenWizard(DefaultConfig, p) >>]
    /\ UNCHANGED << conf, file, events, taskVars, history >>

-----------------------------------------------------------------------------
(* The keyboard task.                                                      *)

\* handle_key; << >> for a key that means nothing.
Converted(key) ==
    LET is(kind) == << Event(kind, key, NoRun) >>
    IN IF key = "^C" THEN is("Cancel")
       ELSE IF key = "^P" THEN is("OpenPalette")
       ELSE IF app.palette
       THEN CASE key = "esc" -> is("ClosePalette") [] key = "enter" -> is("PaletteSelect")
              [] OTHER -> << >>
       ELSE IF app.mode \in {"command", "file"}
       THEN CASE key = "esc" -> is("ExitCommandMode") [] key = "enter" -> is("ExecuteCommand")
              [] key = "tab" -> is("AcceptSuggestion") [] key = "up" -> is("CommandUp")
              [] key = "down" -> is("CommandDown") [] key = "back" -> is("CommandBackspace")
              [] OTHER -> is("CommandInput")
       ELSE IF app.mode = "wizard"
       THEN CASE key = "esc" -> is("WizardCancel") [] key = "enter" -> is("WizardSubmit")
              [] key = "up" -> is("WizardBack") [] key = "down" -> is("WizardDown")
              [] key = "back" -> is("WizardBackspace") [] key = "tab" -> << >>
              [] OTHER -> is("WizardInput")
       ELSE CASE key = "q" -> is("Quit") [] key = "/" -> is("CommandInput")
              [] key = ":" -> is("OpenPalette") [] key = "esc" -> is("ClosePalette")
              [] OTHER -> << >>

Press(key) ==
    /\ session = "open"
    /\ Room
    /\ conf.ahead \/ events = << >>
    /\ Converted(key) # << >>
    /\ Post(Converted(key)[1])
    /\ UNCHANGED << conf, session, file, app, taskVars, history >>

-----------------------------------------------------------------------------
(* Tasks.                                                                  *)

\* The orchestrator reports a phase; an update that finds no room is dropped.
\* conf.reports bounds the phases a migration goes through.
Report(r) ==
    /\ session = "open"
    /\ task[r] = "working"
    /\ reached[r] < conf.reports
    /\ reached' = [reached EXCEPT ![r] = @ + 1]
    /\ progress' = IF Len(progress[r]) < ProgressCap
                   THEN [progress EXCEPT ![r] = Append(@, Reported[reached'[r]])]
                   ELSE progress
    /\ UNCHANGED << conf, session, file, events, app, task, cancelled, checks, history >>

Forward(r) ==
    /\ session = "open"
    /\ progress[r] # << >>
    /\ Room
    /\ Post(Event("Progress", Head(progress[r]), r))
    /\ progress' = [progress EXCEPT ![r] = Tail(@)]
    /\ UNCHANGED << conf, session, file, app, task, cancelled, reached, checks, history >>

\* A migration answers with a result, or with an error at any point; its updates
\* may still be with the forwarder.  A dry run completes after the first phase.
EndRun(r, outcome) ==
    /\ session = "open"
    /\ task[r] = "working"
    /\ Room
    /\ outcome = "completed" => reached[r] \in {1, conf.reports}
    /\ outcome = "failed" => reached[r] = conf.reports
    /\ outcome = "cancelled" => r \in cancelled
    /\ task' = [task EXCEPT ![r] = "ended"]
    /\ Post(IF outcome = "error" THEN Event("Error", "migration", r)
            ELSE Event("MigrationComplete", outcome, r))
    /\ UNCHANGED << conf, session, file, app, cancelled, reached, progress, checks, history >>

\* A health check answers with Success, or with the Error of a migration.
CheckEnds(healthy) ==
    /\ session = "open"
    /\ checks > 0
    /\ Room
    /\ checks' = checks - 1
    /\ Post(Event(IF healthy THEN "Success" ELSE "Error", "check", NoRun))
    /\ UNCHANGED << conf, session, file, app, task, cancelled, reached, progress, history >>

-----------------------------------------------------------------------------
(* The loop: handle_event.                                                 *)

Take(kind) ==
    /\ session = "open"
    /\ events # << >>
    /\ Head(events).kind = kind
    /\ events' = Tail(events)

\* Handlers that touch only what the loop owns.
Local(kind) == Take(kind) /\ UNCHANGED << conf, session, file, taskVars, history >>

\* The migration still at work whose token App drops with an outcome not its own.
Dropped == IF app.token # NoRun /\ task[app.token] = "working" THEN {app.token} ELSE {}

\* As if a migration could start while another connects.
CanStartConnecting == app.phase \in {"idle", "connecting"} \cup Terminal

CanStart == app.phase \in {"idle"} \cup Terminal

\* q ends the program, also while a migration runs.
HandleQuit ==
    /\ Take("Quit")
    /\ session' = "over"
    /\ UNCHANGED << conf, file, app, taskVars, history >>

HandlePaletteKeys ==
    \/ Local("OpenPalette") /\ app' = [app EXCEPT !.palette = TRUE]
    \/ Local("ClosePalette") /\ app' = [app EXCEPT !.palette = FALSE]

\* As if updates were always taken.
ProgressTaken ==
    /\ Take("Progress")
    /\ app' = [app EXCEPT !.phase = Head(events).what]
    /\ reopened' = (reopened \/ app.phase = "idle")
    /\ UNCHANGED << conf, session, file, taskVars, lost >>

HandleProgress ==
    /\ Take("Progress")
    /\ app' = IF app.phase \in Terminal THEN app
              ELSE [app EXCEPT !.phase = Head(events).what]
    /\ reopened' = (reopened \/ app.phase = "idle")
    /\ UNCHANGED << conf, session, file, taskVars, lost >>

HandleComplete ==
    /\ Take("MigrationComplete")
    /\ app' = [app EXCEPT !.phase = Head(events).what, !.token = NoRun]
    /\ lost' = lost \cup Dropped
    /\ UNCHANGED << conf, session, file, taskVars, reopened >>

\* Whatever the error is of: "Reset phase so user can try again".
HandleError ==
    /\ Take("Error")
    /\ app' = [app EXCEPT !.phase = "idle", !.token = NoRun]
    /\ lost' = lost \cup Dropped
    /\ UNCHANGED << conf, session, file, taskVars, reopened >>

HandleSuccess == Local("Success") /\ UNCHANGED app

CancelToken == cancelled' = cancelled \cup ({app.token} \ {NoRun})

HandleCancel ==
    /\ Take("Cancel")
    /\ CancelToken
    /\ UNCHANGED << conf, session, file, app, task, reached, progress, checks, history >>

-----------------------------------------------------------------------------
(* Commands, from the palette or the command line; a is App after the event,  *)
(* but for what the command does.                                             *)

Unborn == {r \in RunIds : task[r] = "unborn"}

NoTaskStarts == UNCHANGED << task, checks, lost >>

\* The paths that can follow an @ of the line.
Mentioned(line) == IF \E i \in DOMAIN line : line[i] = "@" THEN conf.paths ELSE {}

\* Run, resume and dry run: load the file mentioned, or the current one, then spawn.
StartMigration(a, line) ==
    \E p \in {app.path} \cup Mentioned(line) :
       IF CanStart /\ FileLoads(p) /\ Unborn # {}
       THEN LET r == CHOOSE x \in Unborn : \A y \in Unborn : x <= y
            IN /\ app' = [With(a, p, file[p][1]) EXCEPT !.token = r, !.phase = "connecting"]
               /\ task' = [task EXCEPT ![r] = "working"]
               /\ UNCHANGED << checks, lost >>
       ELSE app' = a /\ NoTaskStarts

\* A health check starts whatever else is going on; conf.checks bounds them.
StartCheck(a) ==
    /\ app' = a
    /\ checks' = IF checks < conf.checks THEN checks + 1 ELSE checks
    /\ UNCHANGED << task, lost >>

Reload(a) ==
    /\ \E p \in {app.path} \cup Mentioned(app.line) : app' = IF FileLoads(p) THEN With(a, p, file[p][1]) ELSE a
    /\ NoTaskStarts

HealthCommand(a) ==
    \E p \in {app.path} \cup Mentioned(app.line) :
       IF FileLoads(p) THEN StartCheck(With(a, p, file[p][1])) ELSE app' = a /\ NoTaskStarts

\* Without a path the wizard's is config.yaml, whatever file the program uses.
EnterWizard(a) ==
    /\ \E p \in {"yaml"} \cup Mentioned(app.line) :
          app' = [a EXCEPT !.mode = "wizard",
                           !.wizard = << OpenWizard(IF FileLoads(p) THEN Read(file[p][1])
                                                    ELSE app.config, p) >>]
    /\ NoTaskStarts

\* The action selected in the palette, or none when the filter leaves none.
PaletteSelect ==
    /\ Take("PaletteSelect")
    /\ LET closed == [app EXCEPT !.palette = FALSE]
       IN \/ StartMigration(closed, << >>) /\ UNCHANGED cancelled
          \/ StartCheck(closed) /\ UNCHANGED cancelled
          \/ app' = closed /\ NoTaskStarts /\ CancelToken
          \/ app' \in {closed, app} /\ NoTaskStarts /\ UNCHANGED cancelled
    /\ UNCHANGED << conf, session, file, reached, progress, reopened >>

\* update_suggestions: an @ anywhere in the line turns to files.
Suggested(a) == IF \E i \in DOMAIN a.line : a.line[i] = "@" THEN [a EXCEPT !.mode = "file"] ELSE a

HandleCommandInput ==
    /\ Local("CommandInput")
    /\ LET key == Head(events).what
           opens == key = "/" /\ app.mode = "normal" /\ app.line = << >>
           typed == [app EXCEPT !.mode = IF opens THEN "command" ELSE @,
                                !.line = IF Len(@) < conf.line THEN Append(@, key) ELSE @,
                                !.draft = << >>]
       IN app' = Suggested(typed)

HandleCommandBackspace ==
    /\ Local("CommandBackspace")
    /\ LET n == Len(app.line)
           rest == [app EXCEPT !.line = SubSeq(@, 1, n - 1)]
       IN app' = IF n <= 1 THEN [rest EXCEPT !.mode = "normal"] ELSE Suggested(rest)

\* The arrows move in the suggestions, if there are any, else in the history, of
\* which the model keeps the last line.
HandleCommandArrows ==
    \/ /\ Local("CommandUp")
       /\ app' \in {app} \cup
            (IF app.last = << >> THEN {}
             ELSE {[app EXCEPT !.line = app.last[1],
                               !.draft = IF @ = << >> THEN << app.line >> ELSE @]})
    \/ /\ Local("CommandDown")
       /\ app' \in {app} \cup
            (IF app.draft = << >> THEN {}
             ELSE {[app EXCEPT !.line = app.draft[1], !.draft = << >>]})

\* A suggestion completes the command, or the path after the @.
HandleAcceptSuggestion ==
    /\ Local("AcceptSuggestion")
    /\ app' \in {app, Suggested(app)} \cup
         (IF app.line = << "/" >> THEN {[app EXCEPT !.line = << "/", c >>] : c \in conf.keys \cap Commands}
          ELSE {})

\* As if the line stayed for the next command.
LineKept(a) == [a EXCEPT !.draft = << >>]
LineLeft(a) == [a EXCEPT !.line = << >>, !.draft = << >>]

CommandOf(line) == IF Len(line) >= 2 /\ line[1] = "/" THEN line[2] ELSE "none"

\* Enter: run the command, clear the line, and leave the mode unless a wizard is open.
ExecuteCommand ==
    /\ Take("ExecuteCommand")
    /\ LET command == CommandOf(app.line)
           left == LineLeft([app EXCEPT !.last = IF app.line = << >> THEN @ ELSE << app.line >>])
           a == IF app.wizard = << >> THEN [left EXCEPT !.mode = "normal"] ELSE left
       IN \/ command \in {"run", "dry"} /\ StartMigration(a, app.line)
          \/ command = "health" /\ HealthCommand(a)
          \/ command = "wizard" /\ EnterWizard(a)
          \/ command = "config" /\ Reload(a)
          \/ command \notin Commands /\ app' = a /\ NoTaskStarts
    /\ UNCHANGED << conf, session, file, cancelled, reached, progress, reopened >>

ExitCommandMode ==
    /\ Local("ExitCommandMode")
    /\ app' = [LineLeft(app) EXCEPT !.mode = "normal"]

\* Keys meant for a wizard that is not open any more do nothing.
HandleWizardKeys ==
    \E kind \in {"WizardInput", "WizardBackspace", "WizardBack", "WizardDown"} :
       /\ Local(kind)
       /\ app' = IF app.wizard = << >> THEN app
                 ELSE LET w == app.wizard[1]
                      IN [app EXCEPT !.wizard =
                            << CASE kind = "WizardInput" -> WizardTyped(w, Head(events).what)
                                 [] kind = "WizardBackspace" -> WizardBackspace(w)
                                 [] kind = "WizardBack" -> WizardUp(w)
                                 [] kind = "WizardDown" -> WizardDown(w) >>]

AtConfirm == app.wizard # << >> /\ Steps[app.wizard[1].step] = "Confirm"

WizardSubmit ==
    /\ Local("WizardSubmit")
    /\ ~AtConfirm
    /\ app' = IF app.wizard = << >> THEN app
              ELSE [app EXCEPT !.wizard = << Submit(app.wizard[1]) >>]

\* The last step: save the file and load it again, or leave without saving.  A
\* file that cannot be written keeps the wizard open.
WizardConfirm ==
    /\ Take("WizardSubmit")
    /\ AtConfirm
    /\ LET w == app.wizard[1]
           saved == Written(w.config)
           closed == [app EXCEPT !.mode = "normal", !.wizard = << >>]
       IN \/ /\ w.selected = 1
             /\ file' = [file EXCEPT ![w.path] = << saved >>]
             /\ app' = IF Loads(w.path, saved) THEN With(closed, w.path, saved) ELSE closed
          \/ w.selected = 1 /\ UNCHANGED << file, app >>
          \/ w.selected = 2 /\ app' = closed /\ UNCHANGED file
    /\ UNCHANGED << conf, session, taskVars, history >>

WizardCancel ==
    /\ Local("WizardCancel")
    /\ app' = [app EXCEPT !.mode = "normal", !.wizard = << >>]

-----------------------------------------------------------------------------
Tasks == \E r \in RunIds :
            \/ Report(r) \/ Forward(r)
            \/ \E outcome \in {"completed", "failed", "cancelled", "error"} : EndRun(r, outcome)

Loop ==
    \/ HandleQuit \/ HandlePaletteKeys \/ HandleProgress \/ HandleComplete \/ HandleError
    \/ HandleSuccess \/ HandleCancel \/ PaletteSelect \/ HandleCommandInput
    \/ HandleCommandBackspace \/ HandleCommandArrows \/ HandleAcceptSuggestion
    \/ ExecuteCommand \/ ExitCommandMode \/ HandleWizardKeys \/ WizardSubmit
    \/ WizardConfirm \/ WizardCancel

Over == session = "over" /\ UNCHANGED vars

Next ==
    \/ RunInit
    \/ StartUi
    \/ \E key \in conf.keys : Press(key)
    \/ Tasks
    \/ \E healthy \in BOOLEAN : CheckEnds(healthy)
    \/ Loop
    \/ Over

Spec == Init /\ [][Next]_vars

-----------------------------------------------------------------------------
(* Properties.                                                             *)

\* Every variable stays within its type: the queue within its capacity, the mode
\* and the wizard's step among those there are.
TypeOK ==
    /\ session \in {"closed", "open", "over"}
    /\ Len(events) <= EventCap
    /\ app.phase \in Phases /\ app.mode \in Modes /\ app.token \in 0..conf.runs
    /\ app.config \in Configs /\ app.path \in Paths
    /\ \A c \in {file[p] : p \in Paths} \cup {app.wizard} : Len(c) <= 1
    /\ app.wizard # << >> =>
         LET w == app.wizard[1]
         IN /\ w.step \in DOMAIN Steps /\ Steps[w.step] # "Done"
            /\ IsChoice(Steps[w.step]) => w.selected \in DOMAIN Options(Steps[w.step])
            /\ w.config \in Configs /\ w.path \in Paths
    /\ \A r \in RunIds : Len(progress[r]) <= ProgressCap

Working == {r \in RunIds : task[r] = "working"}

\* Ctrl+C reaches every migration at work, hence at most one is: a migration is
\* only out of reach after an Error that was not its own, which HandleError
\* takes for the end of the migration (a failed health check).
CancelReaches == Working \subseteq {app.token} \cup lost

\* When every task has answered and every event is handled, a migration can be
\* started again; unless an update that came after an Error made the idle
\* program busy.
IdleWhenOver ==
    session = "open" /\ Working = {} /\ events = << >> /\ (\A r \in RunIds : progress[r] = << >>)
       => CanStart \/ reopened

\* Answers of the wizard that its file, which does not quote them, loses or is
\* spoilt by: a "#" anywhere but in a password, which is only lost, and any "@".
Spoils(c) ==
    \/ \E step \in TextSteps \ Passwords : c.text[step] = "#"
    \/ \E step \in TextSteps : c.text[step] = "@"

\* Whatever is typed, in whatever order and with whatever is rejected on the way, a
\* file that a wizard wrote loads, and one of `init` whatever the texts; unless it
\* is YAML under a path that ends in .json, or the terminal UI's and has answers that
\* spoil it, the zero workers a rejected answer left behind, or one database twice.
SavedConfigLoads ==
    \A p \in Paths : file[p] # << >> =>
       LET f == file[p][1]
       IN \/ FileLoads(p)
          \/ p = "json" /\ f.form # "json"
          \/ f.form = "plain" /\ (Spoils(f.config) \/ f.config.workers = "0" \/ SameDatabase(f.config))

\* For a user who waits for the screen, the slash always opens the command line:
\* whenever the mode is normal the line is empty, and the wizard's mode is on
\* exactly while a wizard is open.
ModesAgree ==
    ~conf.ahead => /\ app.mode = "normal" => app.line = << >>
                   /\ app.mode = "wizard" <=> app.wizard # << >>
=============================================================================
