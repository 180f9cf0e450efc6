------------------------------ MODULE SetupWizard ------------------------------
(***************************************************************************)
(* The configuration wizards: the one of the terminal UI, step by step,    *)
(* and the prompts of the `init` command; the file they write, and what    *)
(* Config::load makes of that file, whoever wrote it and under which name. *)
(* A configuration is reduced to what decides whether it loads and which   *)
(* database it means.                                                      *)
(***************************************************************************)
EXTENDS Integers, Sequences

Kinds == {"mssql", "mysql", "postgres"}

\* Names `validate` takes for a database type; "pg" stands for every alias.
Types == Kinds \cup {"pg"}

\* DatabaseType::parse.
KindOf(type) == IF type = "pg" THEN "postgres" ELSE type

\* The steps that take a text.
TextSteps == {"SourceHost", "SourceDatabase", "SourceUser", "SourcePassword",
              "TargetHost", "TargetDatabase", "TargetUser", "TargetPassword"}
Passwords == {"SourcePassword", "TargetPassword"}
Databases == {"SourceDatabase", "TargetDatabase"}
Users == {"SourceUser", "TargetUser"}

\* A text is named by what YAML makes of it without quotes: "a" and "b" stay as
\* they are, "#" starts a comment, and "@" is no YAML, as "@x" and "a: b" are not.
Texts == {"", "a", "b", "#", "@"}

\* A port is named by the kind it is the default of; "own" is any other.
Configs == [source : Types, target : Types,
            sourcePort : Kinds \cup {"own"}, targetPort : Kinds \cup {"own"},
            text : [TextSteps -> Texts],
            schemas : [source : {"dbo", "public", "own"}, target : {"dbo", "public", "own"}],
            workers : {"auto", "0", "4"}]

\* The configuration of a program started without one.
DefaultConfig ==
    [source |-> "mssql", target |-> "postgres",
     sourcePort |-> "mssql", targetPort |-> "postgres",
     text |-> [step \in TextSteps |-> IF step \in Databases \cup Passwords THEN "" ELSE "a"],
     schemas |-> [source |-> "dbo", target |-> "public"],
     workers |-> "auto"]

\* One database under the same host, port, name and schema.
SameDatabase(c) ==
    /\ c.text["SourceHost"] = c.text["TargetHost"]
    /\ c.sourcePort = c.targetPort
    /\ c.text["SourceDatabase"] = c.text["TargetDatabase"]
    /\ c.schemas.source = c.schemas.target

\* What `validate` asks of a configuration.
Validates(c) ==
    /\ \A step \in TextSteps \ Passwords : c.text[step] # ""
    /\ ~SameDatabase(c)
    /\ c.workers # "0"

-----------------------------------------------------------------------------
(* Files.                                                                  *)

\* Paths by their extension: ".json", and any other, which load takes for YAML.
Paths == {"yaml", "json"}

\* The configuration a file was written from, and how: the texts as they are
\* ("plain"), by a YAML serializer ("quoted"), or as JSON.
Files == [form : {"plain", "quoted", "json"}, config : Configs]

\* The parser goes by the extension; that of YAML reads JSON too.
Parses(path, f) ==
    /\ path = "json" => f.form = "json"
    /\ f.form = "plain" => \A step \in TextSteps : f.config.text[step] # "@"

Unquoted(text) == IF text = "#" THEN "" ELSE text

Read(f) ==
    IF f.form # "plain" THEN f.config
    ELSE [f.config EXCEPT !.text = [step \in TextSteps |-> Unquoted(f.config.text[step])]]

\* Config::load fails without it.
Loads(path, f) == Parses(path, f) /\ Validates(Read(f))

-----------------------------------------------------------------------------
(* The wizard of the terminal UI.                                          *)

Steps == << "SourceType", "SourceHost", "SourcePort", "SourceDatabase", "SourceUser",
            "SourcePassword", "SourceTrustCert", "TargetType", "TargetHost", "TargetPort",
            "TargetDatabase", "TargetUser", "TargetPassword", "TargetMode", "Workers",
            "OutputFile", "Confirm", "Done" >>

NextStep(i) == IF Steps[i] = "Done" THEN i ELSE i + 1
PrevStep(i) == IF Steps[i] = "SourceType" THEN i ELSE i - 1

\* The values of a step that is a choice, in the order they are listed.
Options(step) ==
    CASE step = "SourceType" -> << "mssql", "mysql", "postgres" >>
      [] step = "TargetType" -> << "postgres", "mysql", "mssql" >>
      [] step = "SourceTrustCert" -> << "false", "true" >>
      [] step = "TargetMode" -> << "drop_recreate", "upsert" >>
      [] step = "Confirm" -> << "y", "n" >>
      [] OTHER -> << >>

IsChoice(step) == Options(step) # << >>

\* What process_input tells apart in the text typed into a field.
Text(step, key) ==
    CASE step \in {"SourcePort", "TargetPort"} -> IF key \in {"0", "4"} THEN "4" ELSE "x"
      [] step = "Workers" -> IF key \in {"0", "4"} THEN key ELSE "x"
      [] step = "OutputFile" -> IF key \in Paths THEN key ELSE "yaml"
      [] OTHER -> IF key \in {"#", "@"} \/ (key = "b" /\ step = "TargetDatabase") THEN key ELSE "a"

\* Where a choice starts: at the configured value, or at the first option when
\* the value is none of them (an alias).
InitialSelection(i, c) ==
    LET value == IF Steps[i] = "SourceType" THEN c.source
                 ELSE IF Steps[i] = "TargetType" THEN c.target ELSE ""
        at == {k \in DOMAIN Options(Steps[i]) : Options(Steps[i])[k] = value}
    IN IF at = {} THEN 1 ELSE CHOOSE k \in at : TRUE

AtStep(w, i) == [w EXCEPT !.step = i, !.input = "", !.selected = InitialSelection(i, w.config)]

\* Only SQL Server has a certificate to trust.
SkipsCert(i, c) == Steps[i] = "SourceTrustCert" /\ c.source # "mssql"

\* from_config: an empty user gets the default of its type, and an alias has none.
OpenWizard(c, path) ==
    LET default(step, type) ==
            IF c.text[step] = "" /\ type \in Kinds THEN "a" ELSE c.text[step]
        config == [c EXCEPT !.text["SourceUser"] = default("SourceUser", c.source),
                            !.text["TargetUser"] = default("TargetUser", c.target),
                            !.workers = IF @ = "auto" THEN "4" ELSE @]
    IN [step |-> 1, config |-> config, path |-> path, input |-> "",
        selected |-> InitialSelection(1, config)]

\* Back one step, over the certificate of a source that has none.
Back(w) ==
    LET i == PrevStep(w.step)
    IN AtStep(w, IF SkipsCert(i, w.config) THEN PrevStep(i) ELSE i)

\* A key stands for the whole text of a field.
WizardTyped(w, key) ==
    IF IsChoice(Steps[w.step]) \/ w.input # "" THEN w
    ELSE [w EXCEPT !.input = Text(Steps[w.step], key)]

WizardBackspace(w) ==
    IF IsChoice(Steps[w.step]) \/ w.input = "" THEN Back(w) ELSE [w EXCEPT !.input = ""]

\* The up arrow: the option above, or the step before a text field.
WizardUp(w) ==
    IF IsChoice(Steps[w.step])
    THEN [w EXCEPT !.selected = IF @ > 1 THEN @ - 1 ELSE @]
    ELSE AtStep(w, PrevStep(w.step))

\* As if the selection could leave the list.
WizardDownPast(w) ==
    IF IsChoice(Steps[w.step]) THEN [w EXCEPT !.selected = @ + 1] ELSE w

WizardDown(w) ==
    IF IsChoice(Steps[w.step])
    THEN [w EXCEPT !.selected = IF @ < Len(Options(Steps[w.step])) THEN @ + 1 ELSE @]
    ELSE w

\* A type that changes brings its default port and user.
WithSource(c, type) ==
    IF type = c.source THEN c
    ELSE [c EXCEPT !.source = type, !.sourcePort = type, !.text["SourceUser"] = "a"]
WithTarget(c, type) ==
    IF type = c.target THEN c
    ELSE [c EXCEPT !.target = type, !.targetPort = type, !.text["TargetUser"] = "a"]

\* The configuration after process_input took the answer to a step.  An error
\* leaves what was assigned before it: a zero number of workers.
Answered(w) ==
    LET c == w.config
        option == Options(Steps[w.step])[w.selected]
    IN IF Steps[w.step] = "SourceType" THEN WithSource(c, option)
       ELSE IF Steps[w.step] = "TargetType" THEN WithTarget(c, option)
       ELSE IF w.input = "" THEN c
       ELSE CASE Steps[w.step] = "SourcePort" /\ w.input # "x" -> [c EXCEPT !.sourcePort = "own"]
              [] Steps[w.step] = "TargetPort" /\ w.input # "x" -> [c EXCEPT !.targetPort = "own"]
              [] Steps[w.step] \in TextSteps -> [c EXCEPT !.text[Steps[w.step]] = w.input]
              [] Steps[w.step] = "Workers" /\ w.input # "x" -> [c EXCEPT !.workers = w.input]
              [] OTHER -> c

\* As if only the source had to be named.
RejectedSource(w) ==
    \/ Steps[w.step] \in {"SourcePort", "TargetPort", "Workers"} /\ w.input = "x"
    \/ Steps[w.step] = "SourceDatabase" /\ w.input = "" /\ w.config.text["SourceDatabase"] = ""

\* The answers process_input returns as an error.
Rejected(w) ==
    \/ Steps[w.step] \in {"SourcePort", "TargetPort", "Workers"} /\ w.input = "x"
    \/ Steps[w.step] = "Workers" /\ w.input = "0"
    \/ Steps[w.step] \in Databases \cup Users /\ w.input = "" /\ w.config.text[Steps[w.step]] = ""

\* Enter at a step before the last.
Submit(w) ==
    LET answered == [w EXCEPT !.config = Answered(w),
                              !.path = IF Steps[w.step] = "OutputFile" /\ w.input # ""
                                       THEN w.input ELSE @]
        i == NextStep(w.step)
    IN IF Rejected(w) THEN answered
       ELSE AtStep(answered, IF SkipsCert(i, answered.config) THEN NextStep(i) ELSE i)

\* The file to_yaml writes, whatever its path: the answers unquoted, passwords
\* too, and as schema the default of the type; that of a MySQL database, which is
\* not written, is read as the default of the field.
Written(c) ==
    [form |-> "plain",
     config |-> [c EXCEPT !.schemas = [source |-> IF c.source = "postgres" THEN "public" ELSE "dbo",
                                       target |-> IF c.target = "mssql" THEN "dbo" ELSE "public"]]]

-----------------------------------------------------------------------------
(* The prompts of `init`: SQL Server to PostgreSQL, validated before the file *)
(* is written; the password is never serialized.                           *)

Prompted(c, db, workers) ==
    [c EXCEPT !.source = "mssql", !.target = "postgres",
              !.text = [step \in TextSteps |->
                          IF step \in Databases /\ db # "" THEN db ELSE c.text[step]],
              !.workers = workers]

InitWrites(c) ==
    [form |-> "quoted",
     config |-> [c EXCEPT !.text = [step \in TextSteps |->
                                      IF step \in Passwords THEN "" ELSE c.text[step]]]]
=============================================================================
