----------------------------- MODULE TuiAppProofs -----------------------------
(***************************************************************************)
(* The terminal UI, for any keys typed at any time, any number of          *)
(* migrations and health checks and any capacity of its channels: Ctrl+C   *)
(* reaches the migration at work, the program does not stay busy, the      *)
(* modes agree with what is on the screen, and what the wizards save can   *)
(* be loaded, but for the exceptions that the properties name.             *)
(***************************************************************************)
EXTENDS TuiApp, WellFoundedInduction, TLAPS

(* At most one element: a file, a wizard, a line of the history.           *)
OneOf(S) == {<< >>} \cup {<<x>> : x \in S}

Inputs == Texts \cup Paths \cup {"0", "4", "x"}
WizardType == [step : 1..17, config : Configs, path : Paths, input : Inputs, selected : Nat]

(* No answer takes a host away, and what the steps behind the wizard asked *)
(* for has been answered.                                                  *)
Hosted(c) == c.text["SourceHost"] # "" /\ c.text["TargetHost"] # ""
Named(c, step) ==
    /\ Hosted(c)
    /\ \A k \in 1..17 : k < step /\ Steps[k] \in Databases \cup Users => c.text[Steps[k]] # ""

(* The text of the field that is open.                                     *)
InputFits(step, input) ==
    /\ Steps[step] \in TextSteps => input \in Texts
    /\ step = 15 => input \in {"", "0", "4", "x"}
    /\ step = 16 => input \in {""} \cup Paths

Wizards ==
    {w \in WizardType :
       /\ IsChoice(Steps[w.step]) => w.selected \in DOMAIN Options(Steps[w.step])
       /\ InputFits(w.step, w.input)
       /\ Named(w.config, w.step)}

ReportedPhases == {"extracting", "preparing", "transferring", "finalizing"}

AllKeys == UNION {s.keys : s \in Scenarios}
Lines == Seq(AllKeys \cup Commands \cup {"/"})

AppType ==
    [phase : Phases, token : 0..conf.runs, mode : Modes, palette : BOOLEAN,
     line : Lines, last : OneOf(Lines), draft : OneOf(Lines),
     wizard : OneOf(Wizards), config : {c \in Configs : Hosted(c)}, path : Paths]

(* What comes from the keyboard, and what from migrations and checks.      *)
KeyKinds ==
    {"Cancel", "OpenPalette", "ClosePalette", "PaletteSelect", "Quit", "ExitCommandMode",
     "ExecuteCommand", "AcceptSuggestion", "CommandUp", "CommandDown", "CommandBackspace",
     "CommandInput", "WizardCancel", "WizardSubmit", "WizardBack", "WizardDown",
     "WizardBackspace", "WizardInput"}
TaskKinds == {"Progress", "MigrationComplete", "Error", "Success"}

Events ==
    {e \in [kind : KeyKinds \cup TaskKinds, run : 0..conf.runs,
            what : AllKeys \cup ReportedPhases \cup Terminal \cup {"migration", "check"}] :
       /\ e.kind \in KeyKinds => e.what \in AllKeys
       /\ e.kind = "Progress" => e.what \in ReportedPhases
       /\ e.kind = "MigrationComplete" => e.what \in Terminal}

TypeInv ==
    /\ conf \in Scenarios
    /\ session \in {"closed", "open", "over"}
    /\ file \in [Paths -> OneOf(Files)]
    /\ events \in Seq(Events) /\ Len(events) <= EventCap
    /\ app \in AppType
    /\ task \in [RunIds -> {"unborn", "working", "ended"}]
    /\ reached \in [RunIds -> 0..conf.reports]
    /\ progress \in [RunIds -> Seq(ReportedPhases)]
    /\ \A r \in RunIds : Len(progress[r]) <= ProgressCap
    /\ session = "closed" => app = Closed /\ events = << >>

(* When a migration can be started, those at work are out of reach.        *)
ReachInv ==
    /\ CancelReaches
    /\ CanStart => Working \subseteq lost

(* A busy program has a migration at work or will hear of its end.         *)
Ends == {"MigrationComplete", "Error"}
BusyInv ==
    CanStart \/ reopened \/ app.token \in Working
      \/ \E i \in DOMAIN events : events[i].kind \in Ends

(* For a user who waits: the one key on its way was read under the mode    *)
(* that it will be handled in.                                             *)
Agrees(a) ==
    /\ a.mode \in {"normal", "wizard"} => a.line = << >>
    /\ a.mode = "wizard" <=> a.wizard # << >>
Waiting ==
    /\ Agrees(app)
    /\ \A i \in DOMAIN events :
         \/ events[i].kind \in TaskKinds
         \/ i = 1 /\ Converted(events[i].what) = << events[i] >>
WaitInv == ~conf.ahead => Waiting

TuiInv == TypeInv /\ ReachInv /\ BusyInv /\ WaitInv /\ SavedConfigLoads
-----------------------------------------------------------------------------
(* The steps of the wizard by number, and their choices.                   *)
LEMMA StepsAre ==
  /\ DOMAIN Steps = 1..18 /\ Len(Steps) = 18
  /\ Steps[1] = "SourceType" /\ Steps[2] = "SourceHost" /\ Steps[3] = "SourcePort"
  /\ Steps[4] = "SourceDatabase" /\ Steps[5] = "SourceUser" /\ Steps[6] = "SourcePassword"
  /\ Steps[7] = "SourceTrustCert" /\ Steps[8] = "TargetType" /\ Steps[9] = "TargetHost"
  /\ Steps[10] = "TargetPort" /\ Steps[11] = "TargetDatabase" /\ Steps[12] = "TargetUser"
  /\ Steps[13] = "TargetPassword" /\ Steps[14] = "TargetMode" /\ Steps[15] = "Workers"
  /\ Steps[16] = "OutputFile" /\ Steps[17] = "Confirm" /\ Steps[18] = "Done"
BY DEF Steps

Choices == {1, 7, 8, 14, 17}

LEMMA ChoicesAre ==
  ASSUME NEW i \in 1..17
  PROVE  /\ IsChoice(Steps[i]) <=> i \in Choices
         /\ i \in Choices => /\ Len(Options(Steps[i])) \in {2, 3}
                             /\ DOMAIN Options(Steps[i]) = 1..Len(Options(Steps[i]))
         /\ i \in {1, 8} => \A k \in DOMAIN Options(Steps[i]) : Options(Steps[i])[k] \in Kinds
<1>1. i \in {1, 2, 3, 4, 5, 6, 7, 8, 9, 10, 11, 12, 13, 14, 15, 16, 17}
  OBVIOUS
<1>2. CASE i \in Choices
  <2>1. /\ Options("SourceType") = << "mssql", "mysql", "postgres" >>
        /\ Options("TargetType") = << "postgres", "mysql", "mssql" >>
        /\ Options("SourceTrustCert") = << "false", "true" >>
        /\ Options("TargetMode") = << "drop_recreate", "upsert" >>
        /\ Options("Confirm") = << "y", "n" >>
    BY DEF Options
  <2>2. CASE i = 1
    <3> DEFINE o == << "mssql", "mysql", "postgres" >>
    <3>1. Options(Steps[i]) = o
      BY <2>1, <2>2, StepsAre
    <3>2. o # << >> /\ Len(o) = 3 /\ DOMAIN o = 1..3
      OBVIOUS
    <3>3. \A k \in 1..3 : o[k] \in Kinds
      BY DEF Kinds
    <3> QED BY <1>2, <3>1, <3>2, <3>3 DEF IsChoice
  <2>3. CASE i = 8
    <3> DEFINE o == << "postgres", "mysql", "mssql" >>
    <3>1. Options(Steps[i]) = o
      BY <2>1, <2>3, StepsAre
    <3>2. o # << >> /\ Len(o) = 3 /\ DOMAIN o = 1..3
      OBVIOUS
    <3>3. \A k \in 1..3 : o[k] \in Kinds
      BY DEF Kinds
    <3> QED BY <1>2, <3>1, <3>2, <3>3 DEF IsChoice
  <2>4. CASE i = 7
    BY <2>1, <2>4, StepsAre DEF Choices, IsChoice
  <2>5. CASE i = 14
    BY <2>1, <2>5, StepsAre DEF Choices, IsChoice
  <2>6. CASE i = 17
    BY <2>1, <2>6, StepsAre DEF Choices, IsChoice
  <2> QED BY <1>2, <2>2, <2>3, <2>4, <2>5, <2>6 DEF Choices
<1>3. CASE i \notin Choices
  BY <1>1, <1>3, StepsAre DEF Choices, IsChoice, Options
<1> QED BY <1>2, <1>3

(* A choice starts at one of its options.                                  *)
LEMMA SelectionIsOption ==
  ASSUME NEW i \in 1..17, NEW c
  PROVE  /\ InitialSelection(i, c) \in Nat
         /\ IsChoice(Steps[i]) => InitialSelection(i, c) \in DOMAIN Options(Steps[i])
<1> DEFINE value == IF Steps[i] = "SourceType" THEN c.source
                    ELSE IF Steps[i] = "TargetType" THEN c.target ELSE ""
           at == {k \in DOMAIN Options(Steps[i]) : Options(Steps[i])[k] = value}
<1>1. InitialSelection(i, c) = IF at = {} THEN 1 ELSE CHOOSE k \in at : TRUE
  BY DEF InitialSelection
<1>2. at \subseteq DOMAIN Options(Steps[i])
  OBVIOUS
<1>3. at = {} \/ (CHOOSE k \in at : TRUE) \in at
  OBVIOUS
<1> HIDE DEF at
<1>4. CASE i \in Choices
  <2> DEFINE n == Len(Options(Steps[i]))
  <2>1. DOMAIN Options(Steps[i]) = 1..n /\ n \in {2, 3}
    BY <1>4, ChoicesAre
  <2> HIDE DEF n
  <2>2. 1 \in DOMAIN Options(Steps[i]) /\ DOMAIN Options(Steps[i]) \subseteq Nat
    BY <2>1
  <2> QED BY <1>1, <1>2, <1>3, <2>2
<1>5. CASE i \notin Choices
  <2>1. ~IsChoice(Steps[i])
    BY <1>5, ChoicesAre
  <2>2. DOMAIN Options(Steps[i]) = {}
    BY <2>1 DEF IsChoice
  <2> QED BY <1>1, <1>2, <2>1, <2>2
<1> QED BY <1>4, <1>5

LEMMA AtStepIsWizard ==
  ASSUME NEW w \in WizardType, NEW i \in 1..17, Named(w.config, i)
  PROVE  AtStep(w, i) \in Wizards /\ AtStep(w, i).config = w.config
<1> DEFINE v == AtStep(w, i)
<1>1. v = [w EXCEPT !.step = i, !.input = "", !.selected = InitialSelection(i, w.config)]
  BY DEF AtStep
<1>2. /\ InitialSelection(i, w.config) \in Nat
      /\ IsChoice(Steps[i]) => InitialSelection(i, w.config) \in DOMAIN Options(Steps[i])
  BY SelectionIsOption
<1>3. /\ v \in WizardType /\ v.step = i /\ v.input = "" /\ v.config = w.config
      /\ v.selected = InitialSelection(i, w.config)
  BY <1>1, <1>2 DEF WizardType, Inputs, Texts
<1> HIDE DEF v
<1>4. InputFits(i, "")
  BY DEF InputFits, Texts
<1>5. v \in Wizards
  BY <1>2, <1>3, <1>4 DEF Wizards
<1> QED BY <1>3, <1>5 DEF v

(* An answer to a text step.                                               *)
WithText(c, step, x) == [c EXCEPT !.text[step] = x]

LEMMA TextIsSet ==
  ASSUME NEW c \in Configs, NEW step \in TextSteps, NEW x \in Texts
  PROVE  /\ WithText(c, step, x) \in Configs
         /\ WithText(c, step, x).text[step] = x
         /\ \A t \in TextSteps : t # step => WithText(c, step, x).text[t] = c.text[t]
<1>1. c.text \in [TextSteps -> Texts]
  BY DEF Configs
<1>2. WithText(c, step, x) = [c EXCEPT !.text = [c.text EXCEPT ![step] = x]]
  BY DEF WithText
<1> DEFINE text == [c.text EXCEPT ![step] = x]
<1>3. /\ text \in [TextSteps -> Texts] /\ text[step] = x
      /\ \A t \in TextSteps : t # step => text[t] = c.text[t]
  BY <1>1
<1> HIDE DEF text
<1>4. /\ [c EXCEPT !.text = text] \in Configs
      /\ [c EXCEPT !.text = text].text = text
  BY <1>3 DEF Configs
<1> QED BY <1>2, <1>3, <1>4 DEF text

LEMMA OpenWizardIsWizard ==
  ASSUME NEW c \in Configs, Hosted(c), NEW path \in Paths
  PROVE  OpenWizard(c, path) \in Wizards
<1> DEFINE default(step, type) == IF c.text[step] = "" /\ type \in Kinds THEN "a" ELSE c.text[step]
           users == [c EXCEPT !.text["SourceUser"] = default("SourceUser", c.source),
                              !.text["TargetUser"] = default("TargetUser", c.target)]
           config == [c EXCEPT !.text["SourceUser"] = default("SourceUser", c.source),
                               !.text["TargetUser"] = default("TargetUser", c.target),
                               !.workers = IF @ = "auto" THEN "4" ELSE @]
           w == OpenWizard(c, path)
<1>1. users \in Configs /\ Hosted(users)
  <2> DEFINE x == default("SourceUser", c.source)
             y == default("TargetUser", c.target)
             d == WithText(c, "SourceUser", x)
  <2>1. /\ "SourceUser" \in TextSteps /\ "TargetUser" \in TextSteps
        /\ "SourceHost" \in TextSteps /\ "TargetHost" \in TextSteps
        /\ "a" \in Texts
    BY DEF TextSteps, Texts
  <2>2. x \in Texts /\ y \in Texts
    BY <2>1 DEF Configs
  <2>3. users = WithText(d, "TargetUser", y)
    BY DEF WithText
  <2> HIDE DEF x, y, users
  <2>4. ASSUME NEW b \in Configs, NEW u \in {"SourceUser", "TargetUser"}, NEW z \in Texts
        PROVE  /\ WithText(b, u, z) \in Configs
               /\ WithText(b, u, z).text["SourceHost"] = b.text["SourceHost"]
               /\ WithText(b, u, z).text["TargetHost"] = b.text["TargetHost"]
    <3>1. u \in TextSteps /\ u # "SourceHost" /\ u # "TargetHost"
      BY <2>1
    <3> QED BY <2>1, <3>1, TextIsSet
  <2>5. d \in Configs /\ (Hosted(c) => Hosted(d))
    BY <2>2, <2>4 DEF Hosted
  <2> HIDE DEF d
  <2>6. users \in Configs /\ (Hosted(d) => Hosted(users))
    BY <2>2, <2>3, <2>4, <2>5 DEF Hosted
  <2> QED BY <2>5, <2>6
<1>2. config \in Configs /\ Hosted(config)
  <2>1. config = [users EXCEPT !.workers = IF c.workers = "auto" THEN "4" ELSE c.workers]
    OBVIOUS
  <2>2. c.workers \in {"auto", "0", "4"}
    BY DEF Configs
  <2> HIDE DEF users, config
  <2> QED BY <1>1, <2>1, <2>2 DEF Configs, Hosted
<1>3. w = [step |-> 1, config |-> config, path |-> path, input |-> "",
           selected |-> InitialSelection(1, config)]
  BY Zenon DEF OpenWizard
<1> HIDE DEF config
<1> DEFINE selected == InitialSelection(1, config)
<1>4. /\ selected \in Nat
      /\ IsChoice(Steps[1]) => selected \in DOMAIN Options(Steps[1])
  BY 1 \in 1..17, SelectionIsOption
<1> HIDE DEF selected, w
<1>5. /\ w \in WizardType /\ w.step = 1 /\ w.input = "" /\ w.config = config
      /\ w.selected = selected
  <2>1. 1 \in 1..17 /\ "" \in Inputs
    BY DEF Inputs, Texts
  <2>2. w = [step |-> 1, config |-> config, path |-> path, input |-> "", selected |-> selected]
    BY <1>3 DEF selected
  <2>3. w.step = 1 /\ w.input = "" /\ w.config = config /\ w.selected = selected
    BY <2>2
  <2>4. w \in WizardType
    BY <1>2, <1>4, <2>1, <2>2, Zenon DEF WizardType
  <2> QED BY <2>3, <2>4
<1>6. Named(config, 1) /\ InputFits(1, "")
  BY <1>2 DEF Named, InputFits, Texts
<1>7. w \in Wizards
  BY <1>4, <1>5, <1>6, Zenon DEF Wizards
<1> QED BY <1>7 DEF w

(* Back keeps what has been answered.                                      *)
LEMMA NamedBefore ==
  ASSUME NEW c, NEW i \in Nat, NEW j \in Nat, j <= i, Named(c, i)
  PROVE  Named(c, j)
<1>1. \A k \in 1..17 : k < j => k < i
  OBVIOUS
<1> QED BY <1>1, Zenon DEF Named

LEMMA PrevStepIsStep ==
  ASSUME NEW i \in 1..17
  PROVE  PrevStep(i) \in 1..17 /\ PrevStep(i) <= i
BY StepsAre DEF PrevStep

LEMMA WizardKeysKeepWizard ==
  ASSUME NEW w \in Wizards, NEW key
  PROVE  /\ WizardTyped(w, key) \in Wizards /\ WizardBackspace(w) \in Wizards
         /\ WizardUp(w) \in Wizards /\ WizardDown(w) \in Wizards
<1>1. /\ w \in WizardType /\ w.step \in 1..17 /\ w.config \in Configs /\ w.selected \in Nat
      /\ Named(w.config, w.step) /\ InputFits(w.step, w.input)
      /\ IsChoice(Steps[w.step]) => w.selected \in DOMAIN Options(Steps[w.step])
  BY DEF Wizards, WizardType
<1>2. ASSUME NEW i \in 1..17, i <= w.step PROVE AtStep(w, i) \in Wizards
  BY <1>1, <1>2, NamedBefore, AtStepIsWizard
<1>3. WizardTyped(w, key) \in Wizards
  <2>1. CASE IsChoice(Steps[w.step]) \/ w.input # ""
    BY <2>1 DEF WizardTyped
  <2>2. CASE ~(IsChoice(Steps[w.step]) \/ w.input # "")
    <3> DEFINE text == Text(Steps[w.step], key)
               v == [w EXCEPT !.input = text]
    <3>1. text \in Inputs
      <4>1. text \in {"4", "x", key, "yaml", "a"}
        BY DEF Text
      <4>2. text = key => key \in {"0", "4", "#", "@", "b", "yaml", "json", "x", "a"}
        BY DEF Text, Paths
      <4> HIDE DEF text
      <4> QED BY <4>1, <4>2 DEF Inputs, Texts, Paths
    <3>2. InputFits(w.step, text)
      <4>1. Steps[w.step] \in TextSteps => text \in Texts
        BY DEF Text, Texts, TextSteps
      <4>2. w.step = 15 => text \in {"", "0", "4", "x"}
        BY StepsAre DEF Text
      <4>3. w.step = 16 => text \in {""} \cup Paths
        BY StepsAre DEF Text, Paths
      <4> QED BY <4>1, <4>2, <4>3 DEF InputFits
    <3> HIDE DEF text
    <3>3. /\ v \in WizardType /\ v.step = w.step /\ v.input = text
          /\ v.config = w.config /\ v.selected = w.selected
      BY <1>1, <3>1 DEF WizardType, Inputs
    <3>4. WizardTyped(w, key) = v
      BY <2>2 DEF WizardTyped, text
    <3> HIDE DEF v
    <3> QED BY <1>1, <3>2, <3>3, <3>4 DEF Wizards
  <2> QED BY <2>1, <2>2
<1>4. WizardBackspace(w) \in Wizards
  <2>1. Back(w) \in Wizards
    <3>1. PrevStep(w.step) \in 1..17 /\ PrevStep(w.step) <= w.step
      BY <1>1, PrevStepIsStep
    <3>2. PrevStep(PrevStep(w.step)) \in 1..17 /\ PrevStep(PrevStep(w.step)) <= w.step
      BY <1>1, <3>1, PrevStepIsStep
    <3> QED BY <1>2, <3>1, <3>2 DEF Back
  <2> DEFINE v == [w EXCEPT !.input = ""]
  <2>2. /\ v \in WizardType /\ v.step = w.step /\ v.input = ""
        /\ v.config = w.config /\ v.selected = w.selected
    BY <1>1 DEF WizardType, Inputs, Texts
  <2> HIDE DEF v
  <2>3. InputFits(w.step, "")
    BY DEF InputFits, Texts
  <2>4. v \in Wizards
    BY <1>1, <2>2, <2>3 DEF Wizards
  <2> QED BY <2>1, <2>4 DEF WizardBackspace, v
<1>5. ASSUME NEW s \in Nat, IsChoice(Steps[w.step]), s \in DOMAIN Options(Steps[w.step])
      PROVE  [w EXCEPT !.selected = s] \in Wizards
  <2> DEFINE v == [w EXCEPT !.selected = s]
  <2>1. /\ v \in WizardType /\ v.step = w.step /\ v.input = w.input
        /\ v.config = w.config /\ v.selected = s
    BY <1>1 DEF WizardType, Inputs
  <2> HIDE DEF v
  <2>2. v \in Wizards
    BY <1>1, <1>5, <2>1 DEF Wizards
  <2> QED BY <2>2 DEF v
<1>6. ASSUME IsChoice(Steps[w.step])
      PROVE  /\ DOMAIN Options(Steps[w.step]) = 1..Len(Options(Steps[w.step]))
             /\ Len(Options(Steps[w.step])) \in {2, 3} /\ w.selected \in DOMAIN Options(Steps[w.step])
  BY <1>1, <1>6, ChoicesAre
<1>7. WizardUp(w) \in Wizards
  <2>1. CASE IsChoice(Steps[w.step])
    <3> DEFINE s == IF w.selected > 1 THEN w.selected - 1 ELSE w.selected
    <3>1. s \in Nat /\ s \in DOMAIN Options(Steps[w.step])
      BY <1>1, <1>6, <2>1
    <3>2. WizardUp(w) = [w EXCEPT !.selected = s]
      BY <2>1 DEF WizardUp
    <3> HIDE DEF s
    <3> QED BY <1>5, <2>1, <3>1, <3>2
  <2>2. CASE ~IsChoice(Steps[w.step])
    BY <1>1, <1>2, <2>2, PrevStepIsStep DEF WizardUp
  <2> QED BY <2>1, <2>2
<1>8. WizardDown(w) \in Wizards
  <2>1. CASE IsChoice(Steps[w.step])
    <3> DEFINE s == IF w.selected < Len(Options(Steps[w.step])) THEN w.selected + 1
                    ELSE w.selected
    <3>1. s \in Nat /\ s \in DOMAIN Options(Steps[w.step])
      BY <1>1, <1>6, <2>1
    <3>2. WizardDown(w) = [w EXCEPT !.selected = s]
      BY <2>1 DEF WizardDown
    <3> HIDE DEF s
    <3> QED BY <1>5, <2>1, <3>1, <3>2
  <2>2. CASE ~IsChoice(Steps[w.step])
    BY <2>2 DEF WizardDown
  <2> QED BY <2>1, <2>2
<1> QED BY <1>3, <1>4, <1>7, <1>8

(* What was named stays so.                                                *)
Grows(c, a) == a \in Configs /\ \A t \in TextSteps : c.text[t] # "" => a.text[t] # ""

(* The assignments of process_input.                                       *)
LEMMA AssignmentsGrow ==
  ASSUME NEW c \in Configs
  PROVE  /\ Grows(c, c)
         /\ Grows(c, [c EXCEPT !.sourcePort = "own"]) /\ Grows(c, [c EXCEPT !.targetPort = "own"])
         /\ \A step \in TextSteps, x \in Texts \ {""} : Grows(c, WithText(c, step, x))
         /\ \A n \in {"0", "4"} : Grows(c, [c EXCEPT !.workers = n])
         /\ \A t \in Kinds : Grows(c, WithSource(c, t)) /\ Grows(c, WithTarget(c, t))
<1>1. Grows(c, c)
  BY DEF Grows
<1>2. Grows(c, [c EXCEPT !.sourcePort = "own"]) /\ Grows(c, [c EXCEPT !.targetPort = "own"])
  BY DEF Configs, Grows
<1>3. ASSUME NEW d \in Configs, NEW step \in TextSteps, NEW x \in Texts \ {""}
      PROVE  Grows(d, WithText(d, step, x))
  <2>1. ASSUME NEW t \in TextSteps, d.text[t] # ""
        PROVE  WithText(d, step, x).text[t] # ""
    <3>1. CASE t = step
      BY <3>1, TextIsSet
    <3>2. CASE t # step
      BY <2>1, <3>2, TextIsSet
    <3> QED BY <3>1, <3>2
  <2> QED BY <2>1, TextIsSet DEF Grows
<1>4. \A n \in {"0", "4"} : Grows(c, [c EXCEPT !.workers = n])
  BY DEF Configs, Grows
<1>5. ASSUME NEW t \in Kinds
      PROVE  Grows(c, WithSource(c, t)) /\ Grows(c, WithTarget(c, t))
  <2>1. /\ t \in Types /\ t \in Kinds \cup {"own"} /\ "a" \in Texts \ {""}
        /\ "SourceUser" \in TextSteps /\ "TargetUser" \in TextSteps
    BY DEF Types, Texts, TextSteps
  <2>2. Grows(c, [c EXCEPT !.source = t, !.sourcePort = t, !.text["SourceUser"] = "a"])
    <3> DEFINE d == [c EXCEPT !.source = t, !.sourcePort = t]
    <3>1. d \in Configs /\ d.text = c.text
      BY <2>1 DEF Configs
    <3>2. [c EXCEPT !.source = t, !.sourcePort = t, !.text["SourceUser"] = "a"]
            = WithText(d, "SourceUser", "a")
      BY DEF WithText
    <3> HIDE DEF d
    <3>3. Grows(d, WithText(d, "SourceUser", "a"))
      BY <1>3, <2>1, <3>1
    <3> QED BY <3>1, <3>2, <3>3 DEF Grows
  <2>3. Grows(c, [c EXCEPT !.target = t, !.targetPort = t, !.text["TargetUser"] = "a"])
    <3> DEFINE d == [c EXCEPT !.target = t, !.targetPort = t]
    <3>1. d \in Configs /\ d.text = c.text
      BY <2>1 DEF Configs
    <3>2. [c EXCEPT !.target = t, !.targetPort = t, !.text["TargetUser"] = "a"]
            = WithText(d, "TargetUser", "a")
      BY DEF WithText
    <3> HIDE DEF d
    <3>3. Grows(d, WithText(d, "TargetUser", "a"))
      BY <1>3, <2>1, <3>1
    <3> QED BY <3>1, <3>2, <3>3 DEF Grows
  <2> QED BY <1>1, <2>2, <2>3 DEF WithSource, WithTarget
<1> QED BY <1>1, <1>2, <1>3, <1>4, <1>5

(* An answer keeps what is named.                                          *)
LEMMA AnswerGrows ==
  ASSUME NEW w \in Wizards, w.step # 17
  PROVE  Grows(w.config, Answered(w))
<1> DEFINE c == w.config
           s == Steps[w.step]
           option == Options(s)[w.selected]
<1>1. /\ c \in Configs /\ w.step \in 1..16 /\ w.step \in 1..17 /\ InputFits(w.step, w.input)
      /\ IsChoice(s) => w.selected \in DOMAIN Options(s)
  BY DEF Wizards, WizardType
<1>2. /\ s = "SourceType" => w.step = 1
      /\ s = "TargetType" => w.step = 8
      /\ s = "Workers" => w.step = 15
  BY <1>1, StepsAre
<1>3. w.step \in {1, 8} => option \in Kinds
  <2>1. w.step \in {1, 8} => w.step \in Choices
    BY DEF Choices
  <2> QED BY <1>1, <2>1, ChoicesAre
<1>4. s \in TextSteps => w.input \in Texts
  BY <1>1 DEF InputFits
<1>5. Answered(w) =
        IF s = "SourceType" THEN WithSource(c, option)
        ELSE IF s = "TargetType" THEN WithTarget(c, option)
        ELSE IF w.input = "" THEN c
        ELSE CASE s = "SourcePort" /\ w.input # "x" -> [c EXCEPT !.sourcePort = "own"]
               [] s = "TargetPort" /\ w.input # "x" -> [c EXCEPT !.targetPort = "own"]
               [] s \in TextSteps -> [c EXCEPT !.text[s] = w.input]
               [] s = "Workers" /\ w.input # "x" -> [c EXCEPT !.workers = w.input]
               [] OTHER -> c
  BY DEF Answered
<1> HIDE DEF c, s, option
<1>6. Grows(c, Answered(w))
  <2>1. CASE s \in {"SourceType", "TargetType"}
    BY <1>1, <1>2, <1>3, <1>5, <2>1, AssignmentsGrow
  <2>2. CASE s \in TextSteps
    <3>1. w.input = "" => Answered(w) = c
      BY <1>5, <2>2 DEF TextSteps
    <3>2. w.input # "" => Answered(w) = WithText(c, s, w.input)
      BY <1>5, <2>2 DEF TextSteps, WithText
    <3> QED BY <1>1, <1>4, <2>2, <3>1, <3>2, AssignmentsGrow
  <2>3. CASE s = "Workers"
    <3>1. w.input \in {"", "0", "4", "x"}
      BY <1>1, <1>2, <2>3 DEF InputFits
    <3>2. w.input \in {"", "x"} => Answered(w) = c
      BY <1>5, <2>3 DEF TextSteps
    <3>3. w.input \notin {"", "x"} => Answered(w) = [c EXCEPT !.workers = w.input]
      BY <1>5, <2>3 DEF TextSteps
    <3> QED BY <1>1, <3>1, <3>2, <3>3, AssignmentsGrow
  <2>4. CASE s \notin {"SourceType", "TargetType", "Workers"} \cup TextSteps
    <3>1. \/ Answered(w) = c
          \/ Answered(w) = [c EXCEPT !.sourcePort = "own"]
          \/ Answered(w) = [c EXCEPT !.targetPort = "own"]
      BY <1>5, <2>4
    <3> QED BY <1>1, <3>1, AssignmentsGrow
  <2> QED BY <2>1, <2>2, <2>3, <2>4
<1> QED BY <1>6 DEF c

LEMMA AcceptedNames ==
  ASSUME NEW w \in Wizards, w.step # 17, ~Rejected(w)
  PROVE  Named(Answered(w), w.step + 1)
<1> DEFINE c == w.config
           a == Answered(w)
           i == w.step
           s == Steps[i]
           required == Databases \cup Users
<1>1. /\ c \in Configs /\ i \in 1..16 /\ Named(c, i) /\ InputFits(i, w.input)
  BY DEF Wizards, WizardType
<1>2. Grows(c, a)
  BY AnswerGrows
<1>3. required \subseteq TextSteps /\ {"SourceHost", "TargetHost"} \subseteq TextSteps
  BY DEF Databases, Users, TextSteps
<1>4. ASSUME s \in required PROVE a.text[s] # ""
  <2>1. CASE w.input = ""
    BY <1>2, <1>3, <1>4, <2>1, Zenon DEF Rejected, Grows
  <2>2. CASE w.input # ""
    <3>1. a = WithText(c, s, w.input)
      BY <1>4, <2>2 DEF Answered, Databases, Users, TextSteps, WithText
    <3>2. w.input \in Texts
      BY <1>1, <1>3, <1>4 DEF InputFits
    <3>3. s \in TextSteps
      BY <1>3, <1>4
    <3> HIDE DEF a, s
    <3> QED BY <1>1, <2>2, <3>1, <3>2, <3>3, TextIsSet
  <2> QED BY <2>1, <2>2
<1> HIDE DEF a, c, i, required
<1>5. \A k \in 1..17 : k < i + 1 => k < i \/ k = i
  BY <1>1
<1>6. Hosted(a)
  BY <1>1, <1>2, <1>3 DEF Named, Grows, Hosted
<1>7. ASSUME NEW k \in 1..17, k < i + 1, Steps[k] \in required PROVE a.text[Steps[k]] # ""
  <2>1. CASE k = i
    BY <1>4, <1>7, <2>1
  <2>2. CASE k < i
    <3>1. c.text[Steps[k]] # ""
      BY <1>1, <1>7, <2>2, Zenon DEF Named, required
    <3> QED BY <1>2, <1>3, <1>7, <3>1 DEF Grows
  <2> QED BY <1>5, <1>7, <2>1, <2>2
<1> QED BY <1>6, <1>7, Zenon DEF Named, a, i, required

(* Enter, at any step before the last.                                     *)
LEMMA SubmitIsWizard ==
  ASSUME NEW w \in Wizards, w.step # 17
  PROVE  Submit(w) \in Wizards
<1> DEFINE a == Answered(w)
           path == IF Steps[w.step] = "OutputFile" /\ w.input # "" THEN w.input ELSE w.path
           v == [w EXCEPT !.config = a, !.path = path]
           i == NextStep(w.step)
<1>1. /\ w \in WizardType /\ w.step \in 1..16 /\ InputFits(w.step, w.input)
      /\ Named(w.config, w.step) /\ w.config \in Configs
      /\ IsChoice(Steps[w.step]) => w.selected \in DOMAIN Options(Steps[w.step])
  BY DEF Wizards, WizardType
<1>2. Grows(w.config, a)
  BY AnswerGrows
<1>3. ~Rejected(w) => Named(a, w.step + 1)
  BY AcceptedNames
<1>4. Named(a, w.step)
  <2>1. /\ Databases \cup Users \subseteq TextSteps
        /\ "SourceHost" \in TextSteps /\ "TargetHost" \in TextSteps
    BY DEF Databases, Users, TextSteps
  <2> QED BY <1>1, <1>2, <2>1, Zenon DEF Named, Grows, Hosted
<1> HIDE DEF a
<1>5. a \in Configs /\ path \in Paths
  <2>1. Steps[w.step] = "OutputFile" => w.step = 16
    BY <1>1, StepsAre
  <2> QED BY <1>1, <1>2, <2>1 DEF Grows, InputFits, WizardType
<1> HIDE DEF path
<1>6. /\ v \in WizardType /\ v.step = w.step /\ v.config = a
      /\ v.input = w.input /\ v.selected = w.selected
  BY <1>1, <1>5 DEF WizardType
<1>7. CASE Rejected(w)
  <2>1. Submit(w) = v
    BY <1>7 DEF Submit, a, path
  <2> HIDE DEF v
  <2> QED BY <1>1, <1>4, <1>6, <2>1 DEF Wizards
<1>8. CASE ~Rejected(w)
  <2>1. i = w.step + 1 /\ i \in 1..17
    BY <1>1, StepsAre DEF NextStep
  <2>2. Submit(w) = AtStep(v, IF SkipsCert(i, v.config) THEN NextStep(i) ELSE i)
    BY <1>8 DEF Submit, a, path
  <2>3. SkipsCert(i, v.config) => i = 7 /\ NextStep(i) = 8
    BY <2>1, StepsAre DEF SkipsCert, NextStep
  <2> HIDE DEF v, i
  <2>4. Named(v.config, i)
    BY <1>3, <1>6, <1>8, <2>1
  <2>5. i = 7 => Named(v.config, 8)
    <3>1. \A k \in 1..17 : k < 8 => k < 7 \/ k = 7
      OBVIOUS
    <3>2. Steps[7] \notin Databases \cup Users
      BY StepsAre DEF Databases, Users
    <3> QED BY <2>4, <3>1, <3>2, Zenon DEF Named
  <2>6. AtStep(v, i) \in Wizards
    BY <1>6, <2>1, <2>4, AtStepIsWizard
  <2>7. i = 7 => AtStep(v, 8) \in Wizards
    BY <1>6, <2>5, 8 \in 1..17, AtStepIsWizard
  <2> QED BY <2>2, <2>3, <2>6, <2>7
<1> QED BY <1>7, <1>8
-----------------------------------------------------------------------------
(* Events and keys.                                                        *)

(* A key that means something is one event, which carries the key.         *)
LEMMA ConvertedIs ==
  ASSUME NEW key, Converted(key) # << >>
  PROVE  \E kind \in KeyKinds : Converted(key) = << Event(kind, key, NoRun) >>
<1>1. CASE key \in {"^C", "^P"} \/ app.palette
  BY <1>1 DEF Converted, KeyKinds
<1>2. CASE ~(key \in {"^C", "^P"} \/ app.palette) /\ app.mode \in {"command", "file"}
  BY <1>2 DEF Converted, KeyKinds
<1>3. CASE ~(key \in {"^C", "^P"} \/ app.palette) /\ app.mode = "wizard"
  BY <1>3 DEF Converted, KeyKinds
<1>4. CASE ~(key \in {"^C", "^P"} \/ app.palette) /\ app.mode \notin {"command", "file", "wizard"}
  BY <1>4 DEF Converted, KeyKinds
<1> QED BY <1>1, <1>2, <1>3, <1>4

LineKinds == {"ExitCommandMode", "ExecuteCommand", "AcceptSuggestion", "CommandUp",
              "CommandDown", "CommandBackspace"}
WizardKinds == {"WizardCancel", "WizardSubmit", "WizardBack", "WizardDown",
                "WizardBackspace", "WizardInput"}

(* The mode under which a key becomes an event of a kind.                  *)
LEMMA KeyMeans ==
  ASSUME NEW key, NEW e, Converted(key) = << e >>
  PROVE  /\ e.kind \in LineKinds => app.mode \in {"command", "file"}
         /\ e.kind \in WizardKinds => app.mode = "wizard"
         /\ e.kind = "CommandInput" => app.mode # "wizard"
         /\ e.kind = "CommandInput" /\ app.mode \notin {"command", "file"} => key = "/"
         /\ e.what = key
<1>1. << e >>[1] = e
  OBVIOUS
<1>2. ASSUME NEW kind, Converted(key) = << Event(kind, key, NoRun) >>
      PROVE  e.kind = kind /\ e.what = key
  BY <1>1, <1>2 DEF Event
<1>3. Converted(key) # << >>
  OBVIOUS
<1>4. e.what = key
  BY <1>2, <1>3, ConvertedIs
<1>5. CASE key \in {"^C", "^P"} \/ app.palette
  BY <1>2, <1>3, <1>4, <1>5 DEF Converted, LineKinds, WizardKinds
<1>6. CASE ~(key \in {"^C", "^P"} \/ app.palette) /\ app.mode \in {"command", "file"}
  BY <1>2, <1>3, <1>4, <1>6 DEF Converted, LineKinds, WizardKinds
<1>7. CASE ~(key \in {"^C", "^P"} \/ app.palette) /\ app.mode = "wizard"
  BY <1>2, <1>3, <1>4, <1>7 DEF Converted, LineKinds, WizardKinds
<1>8. CASE ~(key \in {"^C", "^P"} \/ app.palette) /\ app.mode \notin {"command", "file", "wizard"}
  BY <1>2, <1>3, <1>4, <1>8 DEF Converted, LineKinds, WizardKinds
<1> QED BY <1>5, <1>6, <1>7, <1>8

(* An event is posted at the end of the queue, and taken from its front.   *)
LEMMA PostedIs ==
  ASSUME TypeInv, Room, NEW e \in Events, Post(e)
  PROVE  /\ events' \in Seq(Events) /\ Len(events') <= EventCap
         /\ DOMAIN events' = DOMAIN events \cup {Len(events) + 1}
         /\ events'[Len(events) + 1] = e
         /\ \A i \in DOMAIN events : events'[i] = events[i]
         /\ Len(events) + 1 \notin DOMAIN events
<1>1. events \in Seq(Events) /\ EventCap \in Nat
  BY TuiAssumption DEF TypeInv
<1>2. events' = Append(events, e)
  BY DEF Post
<1> QED BY <1>1, <1>2 DEF Room

LEMMA TakenIs ==
  ASSUME TypeInv, NEW kind, Take(kind)
  PROVE  /\ events' \in Seq(Events) /\ Len(events') <= EventCap
         /\ Head(events) \in Events /\ Head(events) = events[1] /\ 1 \in DOMAIN events
         /\ Head(events).kind = kind
         /\ \A i \in DOMAIN events' : i + 1 \in DOMAIN events /\ events'[i] = events[i + 1]
         /\ \A i \in DOMAIN events : i # 1 => i - 1 \in DOMAIN events' /\ events'[i - 1] = events[i]
         /\ session = "open"
<1>1. events \in Seq(Events) /\ EventCap \in Nat /\ Len(events) <= EventCap
  BY TuiAssumption DEF TypeInv
<1>2. events # << >> /\ events' = Tail(events) /\ Head(events).kind = kind /\ session = "open"
  BY DEF Take
<1> QED BY <1>1, <1>2

(* App, field by field.                                                    *)
LEMMA AppUpdates ==
  ASSUME NEW a \in AppType
  PROVE  /\ \A x \in Phases : [a EXCEPT !.phase = x] \in AppType
         /\ \A x \in 0..conf.runs : [a EXCEPT !.token = x] \in AppType
         /\ \A x \in Modes : [a EXCEPT !.mode = x] \in AppType
         /\ \A x \in BOOLEAN : [a EXCEPT !.palette = x] \in AppType
         /\ \A x \in Lines : [a EXCEPT !.line = x] \in AppType
         /\ \A x \in OneOf(Lines) : [a EXCEPT !.last = x] \in AppType
         /\ \A x \in OneOf(Lines) : [a EXCEPT !.draft = x] \in AppType
         /\ \A x \in OneOf(Wizards) : [a EXCEPT !.wizard = x] \in AppType
         /\ \A x \in {c \in Configs : Hosted(c)} : [a EXCEPT !.config = x] \in AppType
         /\ \A x \in Paths : [a EXCEPT !.path = x] \in AppType
BY DEF AppType

LEMMA AppFields ==
  ASSUME TypeInv
  PROVE  /\ app \in AppType
         /\ app.phase \in Phases /\ app.token \in 0..conf.runs /\ app.mode \in Modes
         /\ app.palette \in BOOLEAN /\ app.line \in Lines /\ app.last \in OneOf(Lines)
         /\ app.draft \in OneOf(Lines) /\ app.wizard \in OneOf(Wizards)
         /\ app.config \in Configs /\ Hosted(app.config) /\ app.path \in Paths
         /\ conf \in Scenarios /\ conf.runs \in Nat /\ conf.checks \in Nat /\ conf.line \in Nat
         /\ conf.reports \in 0..4 /\ conf.paths \subseteq Paths
BY TuiAssumption DEF TypeInv, AppType, Reported

(* What loading a file leaves alone, and what a wizard changes.            *)
LEMMA WithKeeps ==
  ASSUME NEW a \in AppType, NEW p, NEW f
  PROVE  /\ With(a, p, f).phase = a.phase /\ With(a, p, f).token = a.token
         /\ With(a, p, f).mode = a.mode /\ With(a, p, f).line = a.line
         /\ With(a, p, f).wizard = a.wizard
<1> DEFINE x == Read(f)
<1>1. With(a, p, f) = [[a EXCEPT !.config = x] EXCEPT !.path = p]
  BY DEF With
<1> HIDE DEF x
<1> QED BY <1>1 DEF AppType

LEMMA WizardKeeps ==
  ASSUME NEW a \in AppType, NEW p, NEW w
  PROVE  LET b == [a EXCEPT !.mode = "wizard", !.path = p, !.wizard = << w >>]
         IN b.phase = a.phase /\ b.token = a.token
BY DEF AppType

LEMMA ClosedWizard ==
  ASSUME NEW a \in AppType
  PROVE  LET closed == [a EXCEPT !.mode = "normal", !.wizard = << >>]
         IN /\ closed \in AppType /\ closed.phase = a.phase /\ closed.token = a.token
            /\ closed.line = a.line /\ closed.mode = "normal" /\ closed.wizard = << >>
<1> DEFINE b == [a EXCEPT !.mode = "normal"]
<1>1. << >> \in OneOf(Wizards) /\ "normal" \in Modes
  BY DEF OneOf, Modes
<1>2. b \in AppType /\ b.phase = a.phase /\ b.token = a.token /\ b.line = a.line
      /\ b.mode = "normal"
  BY <1>1, AppUpdates DEF AppType
<1> HIDE DEF b
<1>3. [b EXCEPT !.wizard = << >>] \in AppType
  BY <1>1, <1>2, AppUpdates
<1>4. /\ [b EXCEPT !.wizard = << >>].phase = b.phase /\ [b EXCEPT !.wizard = << >>].token = b.token
      /\ [b EXCEPT !.wizard = << >>].line = b.line /\ [b EXCEPT !.wizard = << >>].mode = b.mode
      /\ [b EXCEPT !.wizard = << >>].wizard = << >>
  BY <1>2 DEF AppType
<1> QED BY <1>2, <1>3, <1>4 DEF b

LEMMA QuotedIsFile ==
  ASSUME NEW c \in Configs
  PROVE  [form |-> "quoted", config |-> c] \in Files
BY DEF Files

LEMMA OneOfIs ==
  ASSUME NEW S, NEW x \in OneOf(S)
  PROVE  /\ x = << >> \/ (x # << >> /\ x = << x[1] >> /\ x[1] \in S)
         /\ Len(x) <= 1
<1>1. CASE x = << >>
  BY <1>1
<1>2. ASSUME NEW y \in S, x = << y >>
      PROVE  x # << >> /\ x = << x[1] >> /\ x[1] \in S /\ Len(x) <= 1
  BY <1>2
<1> QED BY <1>1, <1>2 DEF OneOf

(* What load reads is a configuration, with hosts if it loads.             *)
LEMMA ReadIs ==
  ASSUME NEW f \in Files
  PROVE  /\ Read(f) \in Configs
         /\ \A p : Loads(p, f) => Hosted(Read(f))
<1> DEFINE text == [step \in TextSteps |-> Unquoted(f.config.text[step])]
<1>1. f.config \in Configs
  BY DEF Files
<1>2. text \in [TextSteps -> Texts]
  BY <1>1 DEF Unquoted, Texts, Configs
<1>3. Read(f) = IF f.form # "plain" THEN f.config ELSE [f.config EXCEPT !.text = text]
  BY DEF Read
<1> HIDE DEF text
<1>4. Read(f) \in Configs
  BY <1>1, <1>2, <1>3 DEF Configs
<1>5. {"SourceHost", "TargetHost"} \subseteq TextSteps \ Passwords
  BY DEF TextSteps, Passwords
<1> QED BY <1>4, <1>5 DEF Loads, Validates, Hosted

LEMMA FileIs ==
  ASSUME TypeInv, NEW p \in Paths
  PROVE  /\ file[p] = << >> \/ (file[p] = << file[p][1] >> /\ file[p][1] \in Files)
         /\ FileLoads(p) => /\ file[p] # << >> /\ file[p][1] \in Files /\ Loads(p, file[p][1])
                           /\ Read(file[p][1]) \in {c \in Configs : Hosted(c)}
<1>1. file[p] \in OneOf(Files)
  BY DEF TypeInv
<1>2. file[p] = << >> \/ (file[p] = << file[p][1] >> /\ file[p][1] \in Files)
  BY <1>1, OneOfIs
<1> QED BY <1>2, ReadIs DEF FileLoads

LEMMA WithIsApp ==
  ASSUME NEW a \in AppType, NEW p \in Paths, NEW f \in Files, Loads(p, f)
  PROVE  With(a, p, f) \in AppType
<1>1. Read(f) \in {c \in Configs : Hosted(c)}
  BY ReadIs
<1>2. [a EXCEPT !.config = Read(f)] \in AppType
  BY <1>1, AppUpdates
<1>3. With(a, p, f) = [[a EXCEPT !.config = Read(f)] EXCEPT !.path = p]
  BY DEF With
<1> HIDE DEF With
<1> QED BY <1>2, <1>3, AppUpdates

(* A step of the loop.                                                     *)
LEMMA LoopStepType ==
  ASSUME TypeInv, NEW kind, Take(kind), conf' = conf, session' \in {"open", "over"},
         file' \in [Paths -> OneOf(Files)], app' \in AppType,
         task' \in [RunIds -> {"unborn", "working", "ended"}],
         reached' = reached, progress' = progress
  PROVE  TypeInv'
<1>1. Events' = Events /\ AppType' = AppType /\ RunIds' = RunIds
  BY DEF Events, AppType, RunIds
<1>2. events' \in Seq(Events) /\ Len(events') <= EventCap
  BY TakenIs
<1> QED BY <1>1, <1>2 DEF TypeInv

(* A step of a task, of a health check or of the keyboard.                 *)
LEMMA PostStepType ==
  ASSUME TypeInv, NEW e \in Events, Room, Post(e), session = "open", session' = "open",
         conf' = conf, file' = file, app' = app,
         task' \in [RunIds -> {"unborn", "working", "ended"}], reached' = reached,
         progress' \in [RunIds -> Seq(ReportedPhases)],
         \A r \in RunIds : Len(progress'[r]) <= ProgressCap
  PROVE  TypeInv'
<1>1. Events' = Events /\ AppType' = AppType /\ RunIds' = RunIds
  BY DEF Events, AppType, RunIds
<1>2. events' \in Seq(Events) /\ Len(events') <= EventCap
  BY PostedIs
<1> QED BY <1>1, <1>2 DEF TypeInv

-----------------------------------------------------------------------------
(* The types, action by action.                                            *)
LEMMA DefaultIs == DefaultConfig \in Configs /\ Hosted(DefaultConfig)
<1> DEFINE text == [step \in TextSteps |-> IF step \in Databases \cup Passwords THEN "" ELSE "a"]
<1>1. text \in [TextSteps -> Texts] /\ text["SourceHost"] = "a" /\ text["TargetHost"] = "a"
  BY DEF TextSteps, Texts, Databases, Passwords
<1> HIDE DEF text
<1>2. DefaultConfig =
        [source |-> "mssql", target |-> "postgres", sourcePort |-> "mssql",
         targetPort |-> "postgres", text |-> text,
         schemas |-> [source |-> "dbo", target |-> "public"], workers |-> "auto"]
  BY DEF DefaultConfig, text
<1> QED BY <1>1, <1>2 DEF Configs, Types, Kinds, Hosted

LEMMA ClosedIsApp ==
  ASSUME conf \in Scenarios
  PROVE  Closed \in AppType
<1>1. DefaultConfig \in {c \in Configs : Hosted(c)} /\ "yaml" \in Paths
  BY DefaultIs DEF Paths
<1>2. << >> \in Lines /\ << >> \in OneOf(Lines) /\ << >> \in OneOf(Wizards)
  BY DEF Lines, OneOf
<1>3. conf.runs \in Nat /\ "idle" \in Phases /\ "normal" \in Modes
  BY TuiAssumption DEF Phases, Modes
<1> QED BY <1>1, <1>2, <1>3 DEF Closed, AppType, NoRun

LEMMA TypeInit ==
  ASSUME Init
  PROVE  TypeInv
<1>1. conf \in Scenarios /\ file \in conf.files
  BY DEF Init
<1>2. conf.runs \in Nat /\ EventCap \in Nat /\ ProgressCap \in Nat /\ conf.reports \in Nat
  BY <1>1, TuiAssumption DEF Reported
<1>3. file \in [Paths -> OneOf(Files)]
  <2>1. file \in [Paths -> Seq(Files)] /\ \A p \in Paths : Len(file[p]) \in {0, 1}
    BY <1>1, TuiAssumption
  <2>2. ASSUME NEW x \in Seq(Files), Len(x) \in {0, 1} PROVE x \in OneOf(Files)
    <3>1. x = << >> \/ (x = << x[1] >> /\ x[1] \in Files)
      BY <2>2
    <3> QED BY <3>1 DEF OneOf
  <2> QED BY <2>1, <2>2
<1>4. app \in AppType
  BY <1>1, ClosedIsApp DEF Init
<1>5. Len(<< >>) = 0 /\ << >> \in Seq(Events) /\ << >> \in Seq(ReportedPhases)
  OBVIOUS
<1> QED BY <1>1, <1>2, <1>3, <1>4, <1>5 DEF Init, TypeInv

(* What the prompts make of a configuration.                               *)
LEMMA PromptedIsConfig ==
  ASSUME NEW from \in Configs, NEW db \in {"", "a", "@"}, NEW workers \in {"auto", "0", "4"}
  PROVE  /\ Prompted(from, db, workers) \in Configs
         /\ InitWrites(Prompted(from, db, workers)) \in Files
<1> DEFINE text == [step \in TextSteps |->
                      IF step \in Databases /\ db # "" THEN db ELSE from.text[step]]
           c == Prompted(from, db, workers)
           rest == [step \in TextSteps |-> IF step \in Passwords THEN "" ELSE c.text[step]]
<1>1. text \in [TextSteps -> Texts]
  BY DEF Configs, Texts
<1>2. "mssql" \in Types /\ "postgres" \in Types
  BY DEF Types, Kinds
<1>3. c = [from EXCEPT !.source = "mssql", !.target = "postgres", !.text = text, !.workers = workers]
  BY DEF Prompted
<1> HIDE DEF text
<1>4. c \in Configs
  BY <1>1, <1>2, <1>3 DEF Configs
<1> HIDE DEF c
<1>5. rest \in [TextSteps -> Texts]
  BY <1>4 DEF Configs, Texts
<1>6. InitWrites(c) = [form |-> "quoted", config |-> [c EXCEPT !.text = rest]]
  BY DEF InitWrites
<1> HIDE DEF rest
<1> DEFINE d == [c EXCEPT !.text = rest]
<1>7. d \in Configs
  BY <1>4, <1>5 DEF Configs
<1>8. InitWrites(c) \in Files
  <2> HIDE DEF d
  <2>1. [form |-> "quoted", config |-> d] \in Files
    BY <1>7, QuotedIsFile
  <2> QED BY <1>6, <2>1 DEF d
<1> QED BY <1>4, <1>8 DEF c

LEMMA RunInitIs ==
  ASSUME TypeInv, RunInit
  PROVE  /\ \E p \in Paths, c \in Configs :
               /\ Validates(c) /\ InitWrites(c) \in Files
               /\ file' = [file EXCEPT ![p] = << InitWrites(c) >>]
         /\ session' = session /\ conf' = conf /\ events' = events /\ app' = app
         /\ task' = task /\ reached' = reached /\ progress' = progress
         /\ cancelled' = cancelled /\ checks' = checks /\ lost' = lost /\ reopened' = reopened
<1>1. PICK p \in conf.paths :
      \E from \in {DefaultConfig} \cup (IF FileLoads(p) THEN {Read(file[p][1])} ELSE {}),
         db \in {"", "a", "@"}, workers \in {"auto", "0", "4"} :
         LET c == Prompted(from, db, workers)
         IN Validates(c) /\ file' = [file EXCEPT ![p] = << InitWrites(c) >>]
  BY DEF RunInit
<1>2. p \in Paths
  BY AppFields
<1>3. PICK from \in Configs, db \in {"", "a", "@"}, workers \in {"auto", "0", "4"} :
         LET c == Prompted(from, db, workers)
         IN Validates(c) /\ file' = [file EXCEPT ![p] = << InitWrites(c) >>]
  BY <1>1, <1>2, DefaultIs, FileIs
<1>4. /\ Prompted(from, db, workers) \in Configs
      /\ InitWrites(Prompted(from, db, workers)) \in Files
  BY PromptedIsConfig
<1>5. /\ session' = session /\ conf' = conf /\ events' = events /\ app' = app
      /\ task' = task /\ reached' = reached /\ progress' = progress
      /\ cancelled' = cancelled /\ checks' = checks /\ lost' = lost /\ reopened' = reopened
  BY DEF RunInit, taskVars, history
<1> QED BY <1>2, <1>3, <1>4, <1>5

LEMMA TypeRunInit ==
  ASSUME TypeInv, RunInit
  PROVE  TypeInv'
<1>1. file' \in [Paths -> OneOf(Files)]
  <2>1. PICK p \in Paths, c \in Configs :
          InitWrites(c) \in Files /\ file' = [file EXCEPT ![p] = << InitWrites(c) >>]
    BY RunInitIs
  <2>2. << InitWrites(c) >> \in OneOf(Files) /\ file \in [Paths -> OneOf(Files)]
    BY <2>1 DEF OneOf, TypeInv
  <2> QED BY <2>1, <2>2
<1>2. /\ session' = session /\ conf' = conf /\ events' = events /\ app' = app
      /\ task' = task /\ reached' = reached /\ progress' = progress
  BY RunInitIs
<1>3. Events' = Events /\ AppType' = AppType /\ RunIds' = RunIds
  BY <1>2 DEF Events, AppType, RunIds
<1> QED BY <1>1, <1>2, <1>3 DEF TypeInv

LEMMA TypeStartUi ==
  ASSUME TypeInv, StartUi
  PROVE  TypeInv'
<1>1. /\ session' = "open" /\ conf' = conf /\ events' = events /\ file' = file
      /\ task' = task /\ reached' = reached /\ progress' = progress
  BY DEF StartUi, taskVars
<1>2. Events' = Events /\ AppType' = AppType /\ RunIds' = RunIds
  BY <1>1 DEF Events, AppType, RunIds
<1>3. app' \in AppType
  <2>1. PICK p \in conf.paths :
          app' = IF FileLoads(p) THEN With(app, p, file[p][1])
                 ELSE [app EXCEPT !.mode = "wizard", !.path = p,
                                  !.wizard = << OpenWizard(DefaultConfig, p) >>]
    BY DEF StartUi
  <2>2. p \in Paths /\ app \in AppType
    BY AppFields
  <2>3. CASE FileLoads(p)
    BY <2>1, <2>2, <2>3, FileIs, WithIsApp
  <2>4. CASE ~FileLoads(p)
    <3>1. << OpenWizard(DefaultConfig, p) >> \in OneOf(Wizards) /\ "wizard" \in Modes
      BY <2>2, DefaultIs, OpenWizardIsWizard DEF OneOf, Modes
    <3> DEFINE w == OpenWizard(DefaultConfig, p)
               a == [app EXCEPT !.mode = "wizard"]
               b == [a EXCEPT !.path = p]
    <3>2. app' = [b EXCEPT !.wizard = << w >>]
      BY <2>1, <2>4
    <3>3. a \in AppType
      BY <2>2, <3>1, AppUpdates
    <3> HIDE DEF w, a
    <3>4. b \in AppType
      BY <2>2, <3>3, AppUpdates
    <3> HIDE DEF b
    <3> QED BY <3>1, <3>2, <3>4, AppUpdates DEF w
  <2> QED BY <2>3, <2>4
<1> QED BY <1>1, <1>2, <1>3 DEF TypeInv

LEMMA TypePress ==
  ASSUME TypeInv, NEW key \in conf.keys, Press(key)
  PROVE  TypeInv'
<1>1. PICK kind \in KeyKinds : Converted(key) = << Event(kind, key, NoRun) >>
  BY ConvertedIs DEF Press
<1>2. Converted(key)[1] = Event(kind, key, NoRun)
  BY <1>1
<1>3. conf.keys \subseteq AllKeys /\ 0 \in 0..conf.runs
  BY AppFields DEF AllKeys
<1>4. Event(kind, key, NoRun) \in Events
  BY <1>3 DEF Events, Event, NoRun, KeyKinds
<1>5. /\ Room /\ Post(Event(kind, key, NoRun)) /\ session = "open" /\ session' = session
      /\ conf' = conf /\ file' = file /\ app' = app /\ task' = task /\ reached' = reached
      /\ progress' = progress
  BY <1>2 DEF Press, taskVars
<1>6. /\ task \in [RunIds -> {"unborn", "working", "ended"}]
      /\ progress \in [RunIds -> Seq(ReportedPhases)]
      /\ \A r \in RunIds : Len(progress[r]) <= ProgressCap
  BY DEF TypeInv
<1> QED BY <1>4, <1>5, <1>6, PostStepType

LEMMA TypeTasks ==
  ASSUME TypeInv, Tasks
  PROVE  TypeInv'
<1>1. /\ task \in [RunIds -> {"unborn", "working", "ended"}]
      /\ reached \in [RunIds -> 0..conf.reports]
      /\ progress \in [RunIds -> Seq(ReportedPhases)]
      /\ \A r \in RunIds : Len(progress[r]) <= ProgressCap
      /\ RunIds \subseteq 0..conf.runs /\ conf.reports \in 0..4 /\ ProgressCap \in Nat
  BY AppFields, TuiAssumption DEF TypeInv, RunIds
<1>2. PICK r \in RunIds :
         \/ Report(r) \/ Forward(r)
         \/ \E outcome \in {"completed", "failed", "cancelled", "error"} : EndRun(r, outcome)
  BY DEF Tasks
<1>3. CASE Report(r)
  <2>1. /\ reached[r] < conf.reports /\ session' = session /\ conf' = conf /\ file' = file
        /\ events' = events /\ app' = app /\ task' = task
        /\ reached' = [reached EXCEPT ![r] = @ + 1]
        /\ progress' = IF Len(progress[r]) < ProgressCap
                       THEN [progress EXCEPT ![r] = Append(@, Reported[reached'[r]])]
                       ELSE progress
    BY <1>3 DEF Report
  <2>2. Events' = Events /\ AppType' = AppType /\ RunIds' = RunIds
    BY <2>1 DEF Events, AppType, RunIds
  <2>3. reached' \in [RunIds -> 0..conf.reports] /\ reached'[r] \in 1..4
    BY <1>1, <2>1
  <2>4. Reported[reached'[r]] \in ReportedPhases
    BY <2>3 DEF Reported, ReportedPhases
  <2>5. /\ progress' \in [RunIds -> Seq(ReportedPhases)]
        /\ \A q \in RunIds : Len(progress'[q]) <= ProgressCap
    <3>1. progress[r] \in Seq(ReportedPhases)
      BY <1>1
    <3>2. CASE Len(progress[r]) < ProgressCap
      <4> DEFINE more == Append(progress[r], Reported[reached'[r]])
      <4>1. more \in Seq(ReportedPhases) /\ Len(more) <= ProgressCap
        BY <1>1, <2>4, <3>1, <3>2
      <4>2. progress' = [progress EXCEPT ![r] = more]
        BY <2>1, <3>2
      <4> HIDE DEF more
      <4> QED BY <1>1, <4>1, <4>2
    <3>3. CASE ~(Len(progress[r]) < ProgressCap)
      BY <1>1, <2>1, <3>3
    <3> QED BY <3>2, <3>3
  <2> QED BY <2>1, <2>2, <2>3, <2>5 DEF TypeInv
<1>4. CASE Forward(r)
  <2> DEFINE e == Event("Progress", Head(progress[r]), r)
  <2>1. progress[r] \in Seq(ReportedPhases) /\ progress[r] # << >>
    BY <1>1, <1>4 DEF Forward
  <2>2. Head(progress[r]) \in ReportedPhases
    BY <2>1
  <2>3. e \in Events
    <3>1. /\ e.kind = "Progress" /\ e.what \in ReportedPhases
          /\ e = [kind |-> "Progress", what |-> Head(progress[r]), run |-> r]
      BY <2>2 DEF Event
    <3> QED BY <1>1, <2>2, <3>1 DEF Events, TaskKinds, KeyKinds
  <2>4. /\ Room /\ Post(e) /\ session = "open" /\ session' = session
        /\ conf' = conf /\ file' = file /\ app' = app /\ task' = task /\ reached' = reached
        /\ progress' = [progress EXCEPT ![r] = Tail(@)]
    BY <1>4 DEF Forward
  <2> HIDE DEF e
  <2>5. Tail(progress[r]) \in Seq(ReportedPhases) /\ Len(Tail(progress[r])) <= ProgressCap
    BY <1>1, <2>1
  <2>6. /\ progress' \in [RunIds -> Seq(ReportedPhases)]
        /\ \A q \in RunIds : Len(progress'[q]) <= ProgressCap
    BY <1>1, <2>4, <2>5
  <2> QED BY <1>1, <2>3, <2>4, <2>6, PostStepType
<1>5. ASSUME NEW outcome \in {"completed", "failed", "cancelled", "error"}, EndRun(r, outcome)
      PROVE  TypeInv'
  <2> DEFINE e == IF outcome = "error" THEN Event("Error", "migration", r)
                  ELSE Event("MigrationComplete", outcome, r)
  <2>1. e \in Events
    <3>1. CASE outcome = "error"
      BY <1>1, <3>1 DEF Events, Event, TaskKinds, KeyKinds
    <3>2. CASE outcome # "error"
      BY <1>1, <3>2 DEF Events, Event, TaskKinds, KeyKinds, Terminal
    <3> QED BY <3>1, <3>2
  <2>2. /\ Room /\ Post(e) /\ session = "open" /\ session' = session
        /\ conf' = conf /\ file' = file /\ app' = app /\ task' = [task EXCEPT ![r] = "ended"]
        /\ reached' = reached /\ progress' = progress
    BY <1>5 DEF EndRun
  <2> HIDE DEF e
  <2>3. task' \in [RunIds -> {"unborn", "working", "ended"}]
    BY <1>1, <2>2
  <2> QED BY <1>1, <2>1, <2>2, <2>3, PostStepType
<1> QED BY <1>2, <1>3, <1>4, <1>5

LEMMA TypeCheckEnds ==
  ASSUME TypeInv, NEW healthy \in BOOLEAN, CheckEnds(healthy)
  PROVE  TypeInv'
<1> DEFINE e == Event(IF healthy THEN "Success" ELSE "Error", "check", NoRun)
<1>1. 0 \in 0..conf.runs
  BY AppFields
<1>2. e \in Events
  <2>1. CASE healthy
    BY <1>1, <2>1 DEF Events, Event, TaskKinds, KeyKinds, NoRun
  <2>2. CASE ~healthy
    BY <1>1, <2>2 DEF Events, Event, TaskKinds, KeyKinds, NoRun
  <2> QED BY <2>1, <2>2
<1>3. /\ Room /\ Post(e) /\ session = "open" /\ session' = session
      /\ conf' = conf /\ file' = file /\ app' = app /\ task' = task
      /\ reached' = reached /\ progress' = progress
  BY DEF CheckEnds
<1>4. /\ task \in [RunIds -> {"unborn", "working", "ended"}]
      /\ progress \in [RunIds -> Seq(ReportedPhases)]
      /\ \A r \in RunIds : Len(progress[r]) <= ProgressCap
  BY DEF TypeInv
<1> HIDE DEF e
<1> QED BY <1>2, <1>3, <1>4, PostStepType

(* Handlers that start nothing and write no file.                          *)
LEMMA TypeAppStep ==
  ASSUME TypeInv, NEW kind, Take(kind), conf' = conf, session' \in {"open", "over"},
         file' = file, task' = task, reached' = reached, progress' = progress,
         app' \in AppType
  PROVE  TypeInv'
<1>1. task \in [RunIds -> {"unborn", "working", "ended"}] /\ file \in [Paths -> OneOf(Files)]
  BY DEF TypeInv
<1> QED BY <1>1, LoopStepType

LEMMA TypeLocal ==
  ASSUME TypeInv, NEW kind, Local(kind), app' \in AppType
  PROVE  TypeInv'
<1>1. /\ Take(kind) /\ conf' = conf /\ session' = session /\ file' = file
      /\ task' = task /\ reached' = reached /\ progress' = progress
  BY DEF Local, taskVars
<1>2. session' \in {"open", "over"}
  BY <1>1, TakenIs
<1> QED BY <1>1, <1>2, TypeAppStep

LEMMA TypeTaskEvents ==
  ASSUME TypeInv, HandleQuit \/ HandleProgress \/ HandleComplete \/ HandleError
                    \/ HandleSuccess \/ HandleCancel
  PROVE  TypeInv'
<1>1. app \in AppType
  BY AppFields
<1>2. CASE HandleQuit
  <2>1. /\ Take("Quit") /\ session' = "over" /\ conf' = conf /\ file' = file /\ app' = app
        /\ task' = task /\ reached' = reached /\ progress' = progress
    BY <1>2 DEF HandleQuit, taskVars
  <2> QED BY <1>1, <2>1, TypeAppStep
<1>3. CASE HandleProgress
  <2>1. /\ Take("Progress") /\ session' = session /\ conf' = conf /\ file' = file
        /\ app' = IF app.phase \in Terminal THEN app ELSE [app EXCEPT !.phase = Head(events).what]
        /\ task' = task /\ reached' = reached /\ progress' = progress
    BY <1>3 DEF HandleProgress, taskVars
  <2>2. Head(events) \in Events /\ Head(events).kind = "Progress" /\ session = "open"
    BY <2>1, TakenIs
  <2>3. Head(events).what \in ReportedPhases
    BY <2>2 DEF Events
  <2>4. ReportedPhases \subseteq Phases
    BY DEF ReportedPhases, Phases, Reported
  <2>5. app' \in AppType
    BY <1>1, <2>1, <2>3, <2>4, AppUpdates
  <2> QED BY <2>1, <2>2, <2>5, TypeAppStep
<1>4. CASE HandleComplete
  <2>1. /\ Take("MigrationComplete") /\ session' = session /\ conf' = conf /\ file' = file
        /\ app' = [app EXCEPT !.phase = Head(events).what, !.token = NoRun]
        /\ task' = task /\ reached' = reached /\ progress' = progress
    BY <1>4 DEF HandleComplete, taskVars
  <2>2. Head(events) \in Events /\ Head(events).kind = "MigrationComplete" /\ session = "open"
    BY <2>1, TakenIs
  <2>3. Head(events).what \in Phases /\ NoRun \in 0..conf.runs
    BY <2>2, AppFields DEF Events, Phases, NoRun
  <2>4. [app EXCEPT !.phase = Head(events).what] \in AppType
    BY <1>1, <2>3, AppUpdates
  <2>5. [[app EXCEPT !.phase = Head(events).what] EXCEPT !.token = NoRun] \in AppType
    BY <2>3, <2>4, AppUpdates
  <2>6. app' \in AppType
    BY <2>1, <2>5
  <2> QED BY <2>1, <2>2, <2>6, TypeAppStep
<1>5. CASE HandleError
  <2>1. /\ Take("Error") /\ session' = session /\ conf' = conf /\ file' = file
        /\ app' = [app EXCEPT !.phase = "idle", !.token = NoRun]
        /\ task' = task /\ reached' = reached /\ progress' = progress
    BY <1>5 DEF HandleError, taskVars
  <2>2. session = "open" /\ "idle" \in Phases /\ NoRun \in 0..conf.runs
    BY <2>1, TakenIs, AppFields DEF Phases, NoRun
  <2>3. [app EXCEPT !.phase = "idle"] \in AppType
    BY <1>1, <2>2, AppUpdates
  <2>4. [[app EXCEPT !.phase = "idle"] EXCEPT !.token = NoRun] \in AppType
    BY <2>2, <2>3, AppUpdates
  <2>5. app' \in AppType
    BY <2>1, <2>4
  <2> QED BY <2>1, <2>2, <2>5, TypeAppStep
<1>6. CASE HandleSuccess
  <2>1. Local("Success") /\ app' = app
    BY <1>6 DEF HandleSuccess
  <2> QED BY <1>1, <2>1, TypeLocal
<1>7. CASE HandleCancel
  <2>1. /\ Take("Cancel") /\ session' = session /\ conf' = conf /\ file' = file /\ app' = app
        /\ task' = task /\ reached' = reached /\ progress' = progress
    BY <1>7 DEF HandleCancel
  <2>2. session = "open"
    BY <2>1, TakenIs
  <2> QED BY <1>1, <2>1, <2>2, TypeAppStep
<1> QED BY <1>2, <1>3, <1>4, <1>5, <1>6, <1>7

(* Every non-empty set of migrations has a first.                          *)
LEMMA LeastRun ==
  ASSUME NEW S, S \subseteq Nat, S # {}
  PROVE  \E x \in S : \A y \in S : x <= y
<1> DEFINE R == OpToRel(<, Nat)
<1>1. IsWellFoundedOn(R, Nat)
  BY NatLessThanWellFounded
<1>2. \A x, y \in Nat : x < y => <<x, y>> \in R
  BY DEF OpToRel
<1> HIDE DEF R
<1>3. PICK x \in S : \A y \in S : <<y, x>> \notin R
  BY <1>1, WFMin
<1>4. ASSUME NEW y \in S PROVE ~(y < x)
  BY <1>2, <1>3
<1> QED BY <1>4

NextRun == CHOOSE x \in Unborn : \A y \in Unborn : x <= y

LEMMA NextRunIs ==
  ASSUME Unborn # {}
  PROVE  NextRun \in Unborn /\ NextRun \in RunIds /\ task[NextRun] = "unborn"
<1>1. Unborn \subseteq Nat /\ Unborn \subseteq RunIds
  BY DEF Unborn, RunIds
<1>2. \E x \in Unborn : \A y \in Unborn : x <= y
  BY <1>1, LeastRun
<1>3. NextRun \in Unborn
  BY <1>2 DEF NextRun
<1> QED BY <1>1, <1>3 DEF Unborn

(* Run, resume and dry run.                                                *)
Migrates(a, p) ==
    /\ CanStart /\ FileLoads(p) /\ Unborn # {}
    /\ app' = [With(a, p, file[p][1]) EXCEPT !.token = NextRun, !.phase = "connecting"]
    /\ task' = [task EXCEPT ![NextRun] = "working"]
    /\ checks' = checks /\ lost' = lost

LEMMA StartMigrationIs ==
  ASSUME TypeInv, NEW a, NEW line, StartMigration(a, line)
  PROVE  \/ \E p \in Paths : Migrates(a, p)
         \/ app' = a /\ task' = task /\ checks' = checks /\ lost' = lost
<1>1. {app.path} \cup Mentioned(line) \subseteq Paths
  BY AppFields DEF Mentioned
<1> QED BY <1>1 DEF StartMigration, NoTaskStarts, NextRun, Migrates

LEMMA MigratesKeeps ==
  ASSUME NEW a \in AppType, NEW p, Migrates(a, p)
  PROVE  app'.mode = a.mode /\ app'.line = a.line /\ app'.wizard = a.wizard
<1> DEFINE f == file[p][1]
           x == Read(f)
           r == NextRun
           b == [[a EXCEPT !.config = x] EXCEPT !.path = p]
<1>1. app' = [With(a, p, f) EXCEPT !.token = r, !.phase = "connecting"] /\ With(a, p, f) = b
  BY DEF Migrates, With
<1> HIDE DEF f, x, r
<1> QED BY <1>1 DEF AppType

LEMMA StartMigrationType ==
  ASSUME TypeInv, NEW a \in AppType, NEW line, StartMigration(a, line)
  PROVE  app' \in AppType /\ task' \in [RunIds -> {"unborn", "working", "ended"}]
<1>1. task \in [RunIds -> {"unborn", "working", "ended"}] /\ RunIds \subseteq 0..conf.runs
  BY DEF TypeInv, RunIds
<1>2. ASSUME NEW p \in Paths, Migrates(a, p)
      PROVE  app' \in AppType /\ task' \in [RunIds -> {"unborn", "working", "ended"}]
  <2> DEFINE b == With(a, p, file[p][1])
  <2>1. NextRun \in 0..conf.runs /\ "connecting" \in Phases
    BY <1>1, <1>2, NextRunIs DEF Phases, Migrates
  <2>2. b \in AppType
    BY <1>2, FileIs, WithIsApp DEF Migrates
  <2>3. app' = [[b EXCEPT !.token = NextRun] EXCEPT !.phase = "connecting"]
    BY <1>2 DEF Migrates
  <2> HIDE DEF b
  <2>4. [b EXCEPT !.token = NextRun] \in AppType
    BY <2>1, <2>2, AppUpdates
  <2>5. app' \in AppType
    BY <2>1, <2>3, <2>4, AppUpdates
  <2> QED BY <1>1, <1>2, <2>5 DEF Migrates
<1>3. CASE app' = a /\ task' = task
  BY <1>1, <1>3
<1> QED BY <1>2, <1>3, StartMigrationIs

LEMMA TypePaletteSelect ==
  ASSUME TypeInv, PaletteSelect
  PROVE  TypeInv'
<1> DEFINE closed == [app EXCEPT !.palette = FALSE]
<1>1. /\ Take("PaletteSelect") /\ conf' = conf /\ session' = session /\ file' = file
      /\ reached' = reached /\ progress' = progress
  BY DEF PaletteSelect
<1>2. session = "open" /\ app \in AppType /\ closed \in AppType
      /\ task \in [RunIds -> {"unborn", "working", "ended"}] /\ file \in [Paths -> OneOf(Files)]
  BY <1>1, TakenIs, AppFields, AppUpdates DEF TypeInv
<1>3. StartMigration(closed, << >>) \/ (app' \in {closed, app} /\ task' = task)
  BY DEF PaletteSelect, StartCheck, NoTaskStarts
<1> HIDE DEF closed
<1>4. app' \in AppType /\ task' \in [RunIds -> {"unborn", "working", "ended"}]
  BY <1>2, <1>3, StartMigrationType
<1> QED BY <1>1, <1>2, <1>4, LoopStepType

(* App once the command line has been read.                                *)
LineRead ==
    LET left == LineLeft([app EXCEPT !.last = IF app.line = << >> THEN @ ELSE << app.line >>])
    IN IF app.wizard = << >> THEN [left EXCEPT !.mode = "normal"] ELSE left

LEMMA LineReadType ==
  ASSUME TypeInv
  PROVE  LineRead \in AppType
<1> DEFINE last == IF app.line = << >> THEN app.last ELSE << app.line >>
           b == [app EXCEPT !.last = last]
           left == [[b EXCEPT !.line = << >>] EXCEPT !.draft = << >>]
<1>1. last \in OneOf(Lines) /\ << >> \in Lines /\ << >> \in OneOf(Lines) /\ "normal" \in Modes
  BY AppFields DEF OneOf, Lines, Modes
<1>2. LineRead = IF app.wizard = << >> THEN [left EXCEPT !.mode = "normal"] ELSE left
  BY DEF LineRead, LineLeft
<1> HIDE DEF last
<1>3. b \in AppType
  BY <1>1, AppFields, AppUpdates
<1> HIDE DEF b
<1>4. [b EXCEPT !.line = << >>] \in AppType
  BY <1>1, <1>3, AppUpdates
<1>5. left \in AppType
  BY <1>1, <1>4, AppUpdates
<1> HIDE DEF left
<1> QED BY <1>1, <1>2, <1>5, AppUpdates

(* A command starts a task, opens the wizard, or reloads the file.         *)
LEMMA ExecuteCommandIs ==
  ASSUME TypeInv, ExecuteCommand
  PROVE  /\ Take("ExecuteCommand")
         /\ \/ StartMigration(LineRead, app.line)
            \/ \E p \in Paths : /\ FileLoads(p) /\ app' = With(LineRead, p, file[p][1])
                                /\ task' = task /\ lost' = lost
            \/ EnterWizard(LineRead)
            \/ app' = LineRead /\ task' = task /\ lost' = lost
         /\ UNCHANGED << conf, session, file, cancelled, reached, progress, reopened >>
<1>1. {app.path} \cup Mentioned(app.line) \subseteq Paths
  BY AppFields DEF Mentioned
<1>2. \/ StartMigration(LineRead, app.line)
      \/ HealthCommand(LineRead)
      \/ EnterWizard(LineRead)
      \/ Reload(LineRead)
      \/ app' = LineRead /\ NoTaskStarts
  BY DEF ExecuteCommand, LineRead
<1>3. CASE HealthCommand(LineRead) \/ Reload(LineRead)
  <2>1. PICK p \in Paths :
          /\ app' = IF FileLoads(p) THEN With(LineRead, p, file[p][1]) ELSE LineRead
          /\ task' = task /\ lost' = lost
    BY <1>1, <1>3 DEF HealthCommand, Reload, StartCheck, NoTaskStarts
  <2> QED BY <2>1 DEF ExecuteCommand
<1> QED BY <1>2, <1>3 DEF ExecuteCommand, NoTaskStarts

LEMMA TypeExecuteCommand ==
  ASSUME TypeInv, ExecuteCommand
  PROVE  TypeInv'
<1>1. /\ Take("ExecuteCommand") /\ conf' = conf /\ session' = session /\ file' = file
      /\ reached' = reached /\ progress' = progress
  BY ExecuteCommandIs
<1>2. session = "open" /\ LineRead \in AppType /\ file \in [Paths -> OneOf(Files)]
      /\ task \in [RunIds -> {"unborn", "working", "ended"}]
  BY <1>1, TakenIs, LineReadType DEF TypeInv
<1>3. CASE StartMigration(LineRead, app.line)
  BY <1>1, <1>2, <1>3, StartMigrationType, LoopStepType
<1>4. CASE \E p \in Paths : FileLoads(p) /\ app' = With(LineRead, p, file[p][1]) /\ task' = task
  <2>1. app' \in AppType /\ task' = task
    BY <1>2, <1>4, FileIs, WithIsApp
  <2> QED BY <1>1, <1>2, <2>1, LoopStepType
<1>5. CASE EnterWizard(LineRead)
  <2>1. PICK p \in {"yaml"} \cup Mentioned(app.line) :
          app' = [LineRead EXCEPT !.mode = "wizard",
                                  !.wizard = << OpenWizard(IF FileLoads(p) THEN Read(file[p][1])
                                                           ELSE app.config, p) >>]
    BY <1>5 DEF EnterWizard
  <2> DEFINE c == IF FileLoads(p) THEN Read(file[p][1]) ELSE app.config
  <2>2. p \in Paths
    BY AppFields DEF Mentioned, Paths
  <2>3. c \in Configs /\ Hosted(c)
    BY <2>2, AppFields, FileIs
  <2>4. << OpenWizard(c, p) >> \in OneOf(Wizards) /\ "wizard" \in Modes
    BY <2>2, <2>3, OpenWizardIsWizard DEF OneOf, Modes
  <2>5. [LineRead EXCEPT !.mode = "wizard"] \in AppType
    BY <1>2, <2>4, AppUpdates
  <2>6. [[LineRead EXCEPT !.mode = "wizard"] EXCEPT !.wizard = << OpenWizard(c, p) >>] \in AppType
    BY <2>4, <2>5, AppUpdates
  <2>7. app' \in AppType /\ task' = task
    BY <1>5, <2>1, <2>6 DEF EnterWizard, NoTaskStarts
  <2> QED BY <1>1, <1>2, <2>7, LoopStepType
<1>6. CASE app' = LineRead /\ task' = task
  BY <1>1, <1>2, <1>6, LoopStepType
<1> QED BY <1>3, <1>4, <1>5, <1>6, ExecuteCommandIs

LEMMA SuggestedType ==
  ASSUME NEW a \in AppType
  PROVE  Suggested(a) \in AppType
<1>1. "file" \in Modes
  BY DEF Modes
<1> QED BY <1>1, AppUpdates DEF Suggested

(* The keys of the palette and of the command line.                        *)
LEMMA TypeLineKeys ==
  ASSUME TypeInv, HandlePaletteKeys \/ HandleCommandInput \/ HandleCommandBackspace
                    \/ HandleCommandArrows \/ HandleAcceptSuggestion \/ ExitCommandMode
  PROVE  TypeInv'
<1>1. /\ app \in AppType /\ app.line \in Lines /\ << >> \in Lines /\ << >> \in OneOf(Lines)
      /\ {"normal", "command"} \subseteq Modes /\ conf.line \in Nat
  BY AppFields DEF Lines, OneOf, Modes
<1>2. CASE HandlePaletteKeys
  <2>1. app' \in AppType
    BY <1>1, <1>2, AppUpdates DEF HandlePaletteKeys
  <2> QED BY <1>2, <2>1, TypeLocal DEF HandlePaletteKeys
<1>3. CASE HandleCommandInput
  <2> DEFINE key == Head(events).what
             opens == key = "/" /\ app.mode = "normal" /\ app.line = << >>
             mode == IF opens THEN "command" ELSE app.mode
             line == IF Len(app.line) < conf.line THEN Append(app.line, key) ELSE app.line
             typed == [[[app EXCEPT !.mode = mode] EXCEPT !.line = line] EXCEPT !.draft = << >>]
  <2>1. Local("CommandInput") /\ app' = Suggested(typed)
    BY <1>3 DEF HandleCommandInput
  <2>2. Head(events) \in Events /\ Head(events).kind = "CommandInput"
    BY <2>1, TakenIs DEF Local
  <2>3. key \in AllKeys
    BY <2>2 DEF Events, KeyKinds
  <2>4. mode \in Modes /\ line \in Lines
    BY <1>1, <2>3, AppFields DEF Lines
  <2> HIDE DEF mode, line
  <2>5. [app EXCEPT !.mode = mode] \in AppType
    BY <1>1, <2>4, AppUpdates
  <2>6. [[app EXCEPT !.mode = mode] EXCEPT !.line = line] \in AppType
    BY <2>4, <2>5, AppUpdates
  <2>7. typed \in AppType
    BY <1>1, <2>6, AppUpdates
  <2> QED BY <2>1, <2>7, SuggestedType, TypeLocal
<1>4. CASE HandleCommandBackspace
  <2> DEFINE n == Len(app.line)
             less == SubSeq(app.line, 1, n - 1)
             rest == [app EXCEPT !.line = less]
  <2>1. /\ Local("CommandBackspace")
        /\ app' = IF n <= 1 THEN [rest EXCEPT !.mode = "normal"] ELSE Suggested(rest)
    BY <1>4 DEF HandleCommandBackspace
  <2>2. less \in Lines
    BY <1>1 DEF Lines
  <2> HIDE DEF less
  <2>3. rest \in AppType
    BY <1>1, <2>2, AppUpdates
  <2>4. app' \in AppType
    BY <1>1, <2>1, <2>3, AppUpdates, SuggestedType
  <2> QED BY <2>1, <2>4, TypeLocal
<1>5. CASE HandleCommandArrows
  <2>1. CASE app' = app
    BY <1>1, <1>5, <2>1, TypeLocal DEF HandleCommandArrows
  <2>2. CASE /\ Local("CommandUp") /\ app.last # << >>
             /\ app' = [app EXCEPT !.line = app.last[1],
                                   !.draft = IF @ = << >> THEN << app.line >> ELSE @]
    <3> DEFINE draft == IF app.draft = << >> THEN << app.line >> ELSE app.draft
    <3>1. app.last[1] \in Lines /\ draft \in OneOf(Lines)
      BY <1>1, <2>2, AppFields, OneOfIs DEF OneOf
    <3>2. app' = [[app EXCEPT !.line = app.last[1]] EXCEPT !.draft = draft]
      BY <2>2
    <3> HIDE DEF draft
    <3>3. [app EXCEPT !.line = app.last[1]] \in AppType
      BY <1>1, <3>1, AppUpdates
    <3>4. app' \in AppType
      BY <3>1, <3>2, <3>3, AppUpdates
    <3> QED BY <2>2, <3>4, TypeLocal
  <2>3. CASE /\ Local("CommandDown") /\ app.draft # << >>
             /\ app' = [app EXCEPT !.line = app.draft[1], !.draft = << >>]
    <3>1. app.draft[1] \in Lines
      BY <2>3, AppFields, OneOfIs
    <3>2. [app EXCEPT !.line = app.draft[1]] \in AppType
      BY <1>1, <3>1, AppUpdates
    <3>3. app' \in AppType
      BY <1>1, <2>3, <3>2, AppUpdates
    <3> QED BY <2>3, <3>3, TypeLocal
  <2> QED BY <1>5, <2>1, <2>2, <2>3 DEF HandleCommandArrows
<1>6. CASE HandleAcceptSuggestion
  <2>1. \/ app' \in {app, Suggested(app)}
        \/ \E c \in Commands : app' = [app EXCEPT !.line = << "/", c >>]
    BY <1>6 DEF HandleAcceptSuggestion
  <2>2. \A c \in Commands : << "/", c >> \in Lines
    BY DEF Lines
  <2>3. app' \in AppType
    BY <1>1, <2>1, <2>2, AppUpdates, SuggestedType
  <2> QED BY <1>6, <2>3, TypeLocal DEF HandleAcceptSuggestion
<1>7. CASE ExitCommandMode
  <2>1. Local("ExitCommandMode")
        /\ app' = [[[app EXCEPT !.line = << >>] EXCEPT !.draft = << >>] EXCEPT !.mode = "normal"]
    BY <1>7 DEF ExitCommandMode, LineLeft
  <2>2. [app EXCEPT !.line = << >>] \in AppType
    BY <1>1, AppUpdates
  <2>3. [[app EXCEPT !.line = << >>] EXCEPT !.draft = << >>] \in AppType
    BY <1>1, <2>2, AppUpdates
  <2>4. app' \in AppType
    BY <1>1, <2>1, <2>3, AppUpdates
  <2> QED BY <2>1, <2>4, TypeLocal
<1> QED BY <1>2, <1>3, <1>4, <1>5, <1>6, <1>7

(* The keys of the wizard.                                                 *)
LEMMA TypeWizardKeys ==
  ASSUME TypeInv, HandleWizardKeys \/ WizardSubmit \/ WizardCancel
  PROVE  TypeInv'
<1>1. app \in AppType /\ << >> \in OneOf(Wizards) /\ "normal" \in Modes
  BY AppFields DEF OneOf, Modes
<1>2. app.wizard # << >> => app.wizard[1] \in Wizards
  BY AppFields, OneOfIs
<1>3. CASE HandleWizardKeys
  <2>1. PICK kind \in {"WizardInput", "WizardBackspace", "WizardBack", "WizardDown"} :
          /\ Local(kind)
          /\ app' = IF app.wizard = << >> THEN app
                    ELSE LET w == app.wizard[1]
                         IN [app EXCEPT !.wizard =
                               << CASE kind = "WizardInput" -> WizardTyped(w, Head(events).what)
                                    [] kind = "WizardBackspace" -> WizardBackspace(w)
                                    [] kind = "WizardBack" -> WizardUp(w)
                                    [] kind = "WizardDown" -> WizardDown(w) >>]
    BY <1>3 DEF HandleWizardKeys
  <2>2. CASE app.wizard = << >>
    BY <1>1, <2>1, <2>2, TypeLocal
  <2>3. CASE app.wizard # << >>
    <3>1. PICK v \in Wizards : app' = [app EXCEPT !.wizard = << v >>]
      BY <1>2, <2>1, <2>3, WizardKeysKeepWizard
    <3>2. << v >> \in OneOf(Wizards)
      BY DEF OneOf
    <3>3. app' \in AppType
      BY <1>1, <3>1, <3>2, AppUpdates
    <3> QED BY <2>1, <3>3, TypeLocal
  <2> QED BY <2>2, <2>3
<1>4. CASE WizardSubmit
  <2>1. /\ Local("WizardSubmit") /\ ~AtConfirm
        /\ app' = IF app.wizard = << >> THEN app
                  ELSE [app EXCEPT !.wizard = << Submit(app.wizard[1]) >>]
    BY <1>4 DEF WizardSubmit
  <2>2. CASE app.wizard = << >>
    BY <1>1, <2>1, <2>2, TypeLocal
  <2>3. CASE app.wizard # << >>
    <3>1. app.wizard[1].step # 17
      BY <2>1, <2>3, StepsAre DEF AtConfirm
    <3>2. << Submit(app.wizard[1]) >> \in OneOf(Wizards)
      BY <1>2, <2>3, <3>1, SubmitIsWizard DEF OneOf
    <3>3. app' \in AppType
      BY <1>1, <2>1, <2>3, <3>2, AppUpdates
    <3> QED BY <2>1, <3>3, TypeLocal
  <2> QED BY <2>2, <2>3
<1>5. CASE WizardCancel
  <2>1. /\ Local("WizardCancel")
        /\ app' = [[app EXCEPT !.mode = "normal"] EXCEPT !.wizard = << >>]
    BY <1>5 DEF WizardCancel
  <2>2. [app EXCEPT !.mode = "normal"] \in AppType
    BY <1>1, AppUpdates
  <2>3. app' \in AppType
    BY <1>1, <2>1, <2>2, AppUpdates
  <2> QED BY <2>1, <2>3, TypeLocal
<1> QED BY <1>3, <1>4, <1>5

LEMMA WrittenIsFile ==
  ASSUME NEW c \in Configs
  PROVE  /\ Written(c) \in Files /\ Written(c).form = "plain"
         /\ Written(c).config.text = c.text
<1> DEFINE s == [source |-> IF c.source = "postgres" THEN "public" ELSE "dbo",
                 target |-> IF c.target = "mssql" THEN "dbo" ELSE "public"]
           d == [c EXCEPT !.schemas = s]
<1>1. s \in [source : {"dbo", "public", "own"}, target : {"dbo", "public", "own"}]
  OBVIOUS
<1>2. Written(c) = [form |-> "plain", config |-> d]
  BY DEF Written
<1> HIDE DEF s
<1>3. d \in Configs /\ d.text = c.text
  BY <1>1 DEF Configs
<1> HIDE DEF d
<1> QED BY <1>2, <1>3 DEF Files

LEMMA WizardConfirmIs ==
  ASSUME TypeInv, WizardConfirm
  PROVE  /\ Take("WizardSubmit") /\ conf' = conf /\ session' = session /\ task' = task
         /\ cancelled' = cancelled /\ reached' = reached /\ progress' = progress
         /\ lost' = lost /\ reopened' = reopened /\ checks' = checks
         /\ app.wizard # << >> /\ app.wizard[1] \in Wizards /\ app.wizard[1].step = 17
         /\ \/ file' = file
            \/ file' = [file EXCEPT ![app.wizard[1].path] = << Written(app.wizard[1].config) >>]
         /\ LET closed == [app EXCEPT !.mode = "normal", !.wizard = << >>]
                path == app.wizard[1].path
                saved == Written(app.wizard[1].config)
            IN \/ app' \in {app, closed}
               \/ Loads(path, saved) /\ app' = With(closed, path, saved)
<1>1. app.wizard # << >> /\ Steps[app.wizard[1].step] = "Confirm"
  BY DEF WizardConfirm, AtConfirm
<1>2. app.wizard[1] \in Wizards
  BY <1>1, AppFields, OneOfIs
<1>3. app.wizard[1].step \in 1..17
  BY <1>2 DEF Wizards, WizardType
<1>4. app.wizard[1].step = 17
  BY <1>1, <1>3, StepsAre
<1> QED BY <1>1, <1>2, <1>4 DEF WizardConfirm, taskVars, history

LEMMA TypeWizardConfirm ==
  ASSUME TypeInv, WizardConfirm
  PROVE  TypeInv'
<1> DEFINE saved == Written(app.wizard[1].config)
           path == app.wizard[1].path
           closed == [app EXCEPT !.mode = "normal", !.wizard = << >>]
<1>1. app.wizard[1].config \in Configs /\ path \in Paths
  BY WizardConfirmIs DEF Wizards, WizardType
<1>2. saved \in Files /\ << saved >> \in OneOf(Files)
  BY <1>1, WrittenIsFile DEF OneOf
<1>3. /\ Take("WizardSubmit") /\ conf' = conf /\ session' = session /\ task' = task
      /\ reached' = reached /\ progress' = progress
      /\ file' = file \/ file' = [file EXCEPT ![path] = << saved >>]
      /\ app' \in {app, closed} \/ (Loads(path, saved) /\ app' = With(closed, path, saved))
  BY WizardConfirmIs
<1> HIDE DEF saved, path
<1>4. app \in AppType /\ << >> \in OneOf(Wizards) /\ "normal" \in Modes
  BY AppFields DEF OneOf, Modes
<1>5. [app EXCEPT !.mode = "normal"] \in AppType
  BY <1>4, AppUpdates
<1>6. closed \in AppType
  BY <1>4, <1>5, AppUpdates
<1> HIDE DEF closed
<1>7. app' \in AppType
  BY <1>1, <1>2, <1>3, <1>4, <1>6, WithIsApp
<1>8. /\ session = "open" /\ file \in [Paths -> OneOf(Files)]
      /\ task \in [RunIds -> {"unborn", "working", "ended"}]
  BY <1>3, TakenIs DEF TypeInv
<1>9. file' \in [Paths -> OneOf(Files)]
  BY <1>1, <1>2, <1>3, <1>8
<1> QED BY <1>3, <1>7, <1>8, <1>9, LoopStepType

LEMMA TypeNext ==
  ASSUME TypeInv, [Next]_vars
  PROVE  TypeInv'
<1>1. CASE UNCHANGED vars
  <2>1. /\ conf' = conf /\ session' = session /\ file' = file /\ events' = events
        /\ app' = app /\ task' = task /\ reached' = reached /\ progress' = progress
    BY <1>1 DEF vars
  <2>2. Events' = Events /\ AppType' = AppType /\ RunIds' = RunIds
    BY <2>1 DEF Events, AppType, RunIds
  <2> QED BY <2>1, <2>2 DEF TypeInv
<1>2. CASE RunInit \/ StartUi \/ \E key \in conf.keys : Press(key)
  BY <1>2, TypeRunInit, TypeStartUi, TypePress
<1>3. CASE Tasks \/ \E healthy \in BOOLEAN : CheckEnds(healthy)
  BY <1>3, TypeTasks, TypeCheckEnds
<1>4. CASE Loop
  BY <1>4, TypeTaskEvents, TypePaletteSelect, TypeLineKeys, TypeExecuteCommand,
     TypeWizardKeys, TypeWizardConfirm DEF Loop
<1> QED BY <1>1, <1>2, <1>3, <1>4 DEF Next, Over

-----------------------------------------------------------------------------
(* What is saved.                                                          *)
SavedAt(p) ==
    file[p] # << >> =>
      LET f == file[p][1]
      IN \/ FileLoads(p)
         \/ p = "json" /\ f.form # "json"
         \/ f.form = "plain" /\ (Spoils(f.config) \/ f.config.workers = "0" \/ SameDatabase(f.config))

LEMMA SavedIs ==
  /\ SavedConfigLoads <=> \A p \in Paths : SavedAt(p)
  /\ SavedConfigLoads' <=> \A p \in Paths : SavedAt(p)'
BY DEF SavedConfigLoads, SavedAt

LEMMA SavedKept ==
  ASSUME NEW p \in Paths, SavedAt(p), file'[p] = file[p]
  PROVE  SavedAt(p)'
BY DEF SavedAt, FileLoads

(* A file that init writes.                                                *)
LEMMA InitLoads ==
  ASSUME NEW c \in Configs, Validates(c), NEW p \in Paths
  PROVE  Loads(p, InitWrites(c)) \/ (p = "json" /\ InitWrites(c).form # "json")
<1> DEFINE text == [step \in TextSteps |-> IF step \in Passwords THEN "" ELSE c.text[step]]
           d == [c EXCEPT !.text = text]
           f == InitWrites(c)
<1>1. f.form = "quoted" /\ f.config = d
  BY DEF InitWrites
<1> HIDE DEF f
<1>2. Read(f) = d
  BY <1>1 DEF Read
<1>3. \A step \in TextSteps \ Passwords : text[step] = c.text[step]
  OBVIOUS
<1> HIDE DEF text
<1>4. /\ d.text = text /\ d.sourcePort = c.sourcePort /\ d.targetPort = c.targetPort
      /\ d.schemas = c.schemas /\ d.workers = c.workers
  BY DEF Configs
<1> HIDE DEF d
<1>5. /\ {"SourceHost", "TargetHost", "SourceDatabase", "TargetDatabase"}
           \subseteq TextSteps \ Passwords
  BY DEF TextSteps, Passwords
<1>6. Validates(d)
  BY <1>3, <1>4, <1>5 DEF Validates, SameDatabase
<1>7. Parses(p, f) \/ p = "json"
  BY <1>1 DEF Parses
<1> QED BY <1>1, <1>2, <1>6, <1>7 DEF Loads, f

LEMMA NamedIs ==
  ASSUME NEW c, Named(c, 17)
  PROVE  /\ c.text["SourceHost"] # "" /\ c.text["TargetHost"] # ""
         /\ c.text["SourceDatabase"] # "" /\ c.text["SourceUser"] # ""
         /\ c.text["TargetDatabase"] # "" /\ c.text["TargetUser"] # ""
<1>1. ASSUME NEW k \in 1..16, Steps[k] \in Databases \cup Users
      PROVE  c.text[Steps[k]] # ""
  <2>1. k \in 1..17 /\ k < 17
    OBVIOUS
  <2> QED BY <1>1, <2>1, Zenon DEF Named
<1>2. /\ "SourceDatabase" \in Databases \cup Users /\ "SourceUser" \in Databases \cup Users
      /\ "TargetDatabase" \in Databases \cup Users /\ "TargetUser" \in Databases \cup Users
  BY DEF Databases, Users
<1>3. 4 \in 1..16 /\ 5 \in 1..16 /\ 11 \in 1..16 /\ 12 \in 1..16
  OBVIOUS
<1> QED BY <1>1, <1>2, <1>3, StepsAre DEF Named, Hosted

(* A file that the wizard writes.                                          *)
LEMMA WizardLoads ==
  ASSUME NEW c \in Configs, Named(c, 17), NEW p \in Paths
  PROVE  LET f == Written(c)
         IN \/ Loads(p, f)
            \/ p = "json" /\ f.form # "json"
            \/ f.form = "plain" /\ (Spoils(f.config) \/ f.config.workers = "0" \/ SameDatabase(f.config))
<1> DEFINE f == Written(c)
           d == f.config
           text == [step \in TextSteps |-> Unquoted(d.text[step])]
<1>1. f \in Files /\ d \in Configs /\ f.form = "plain" /\ d.text = c.text
  BY WrittenIsFile DEF Files
<1> HIDE DEF f, d
<1> SUFFICES ASSUME p = "yaml", ~Spoils(d), d.workers # "0", ~SameDatabase(d)
             PROVE  Loads(p, f)
  BY <1>1 DEF Paths, f, d
<1>2. Read(f) = [d EXCEPT !.text = text]
  BY <1>1 DEF Read, d
<1>3. Parses(p, f)
  BY <1>1 DEF Parses, Spoils, d
<1>4. \A step \in TextSteps \ Passwords : text[step] = d.text[step]
  BY DEF Spoils, Unquoted
<1>5. \A step \in TextSteps \ Passwords : d.text[step] # ""
  <2>1. \A step \in TextSteps \ Passwords :
           step \in {"SourceHost", "TargetHost", "SourceDatabase", "SourceUser",
                    "TargetDatabase", "TargetUser"}
    BY DEF TextSteps, Passwords
  <2>2. /\ c.text["SourceHost"] # "" /\ c.text["TargetHost"] # ""
        /\ c.text["SourceDatabase"] # "" /\ c.text["SourceUser"] # ""
        /\ c.text["TargetDatabase"] # "" /\ c.text["TargetUser"] # ""
    BY NamedIs
  <2> QED BY <1>1, <2>1, <2>2
<1> HIDE DEF text
<1> DEFINE e == [d EXCEPT !.text = text]
<1>6. /\ e.text = text /\ e.sourcePort = d.sourcePort /\ e.targetPort = d.targetPort
      /\ e.schemas = d.schemas /\ e.workers = d.workers
  BY <1>1 DEF Configs
<1> HIDE DEF e
<1>7. {"SourceHost", "TargetHost", "SourceDatabase", "TargetDatabase"} \subseteq TextSteps \ Passwords
  BY DEF TextSteps, Passwords
<1>8. Validates(e)
  BY <1>4, <1>5, <1>6, <1>7 DEF Validates, SameDatabase
<1> QED BY <1>2, <1>3, <1>8 DEF Loads, e

(* Only one path is written at a time.                                     *)
LEMMA SavedWrite ==
  ASSUME TypeInv, SavedConfigLoads, NEW p \in Paths, NEW f,
         file' = [file EXCEPT ![p] = << f >>],
         \/ Loads(p, f)
         \/ p = "json" /\ f.form # "json"
         \/ f.form = "plain" /\ (Spoils(f.config) \/ f.config.workers = "0" \/ SameDatabase(f.config))
  PROVE  SavedConfigLoads'
<1>1. file \in [Paths -> OneOf(Files)]
  BY DEF TypeInv
<1>2. file'[p] = << f >> /\ \A q \in Paths : q # p => file'[q] = file[q]
  BY <1>1
<1>3. << f >>[1] = f /\ << f >> # << >>
  OBVIOUS
<1>4. SavedAt(p)'
  BY <1>2, <1>3 DEF SavedAt, FileLoads
<1>5. ASSUME NEW q \in Paths, q # p PROVE SavedAt(q)'
  BY <1>2, <1>5, SavedKept, SavedIs
<1> QED BY <1>4, <1>5, SavedIs

LEMMA SavedNext ==
  ASSUME TypeInv, SavedConfigLoads, [Next]_vars
  PROVE  SavedConfigLoads'
<1>1. CASE RunInit
  <2>1. PICK p \in Paths, c \in Configs :
          Validates(c) /\ file' = [file EXCEPT ![p] = << InitWrites(c) >>]
    BY <1>1, RunInitIs
  <2> QED BY <2>1, InitLoads, SavedWrite
<1>2. CASE WizardConfirm
  <2> DEFINE c == app.wizard[1].config
             p == app.wizard[1].path
  <2>1. file' = file \/ file' = [file EXCEPT ![p] = << Written(c) >>]
    BY <1>2, WizardConfirmIs
  <2>2. c \in Configs /\ Named(c, 17) /\ p \in Paths
    BY <1>2, WizardConfirmIs DEF Wizards, WizardType
  <2> HIDE DEF c, p
  <2>3. CASE file' = file
    BY <2>3, SavedKept, SavedIs
  <2>4. CASE file' = [file EXCEPT ![p] = << Written(c) >>]
    BY <2>2, <2>4, WizardLoads, SavedWrite
  <2> QED BY <2>1, <2>3, <2>4
<1>3. CASE ~RunInit /\ ~WizardConfirm
  <2>1. file' = file
    BY <1>3 DEF Next, vars, StartUi, Press, Tasks, Report, Forward, EndRun, CheckEnds, Loop, Over,
       HandleQuit, HandlePaletteKeys, HandleProgress, HandleComplete, HandleError, HandleSuccess,
       HandleCancel, PaletteSelect, HandleCommandInput, HandleCommandBackspace, HandleCommandArrows,
       HandleAcceptSuggestion, ExecuteCommand, ExitCommandMode, HandleWizardKeys, WizardSubmit,
       WizardCancel, Local
  <2> QED BY <2>1, SavedKept, SavedIs
<1> QED BY <1>1, <1>2, <1>3

-----------------------------------------------------------------------------
(* Ctrl+C and the busy program.                                            *)
EndsKept ==
    \A i \in DOMAIN events :
       events[i].kind \in Ends => \E j \in DOMAIN events' : events'[j].kind \in Ends

LEMMA TakenKeepsEnds ==
  ASSUME TypeInv, NEW kind, Take(kind), kind \notin Ends
  PROVE  EndsKept
<1> SUFFICES ASSUME NEW i \in DOMAIN events, events[i].kind \in Ends
             PROVE  \E j \in DOMAIN events' : events'[j].kind \in Ends
  BY DEF EndsKept
<1>1. i # 1
  BY TakenIs
<1>2. i - 1 \in DOMAIN events' /\ events'[i - 1] = events[i]
  BY <1>1, TakenIs
<1> QED BY <1>2

LEMMA PostedKeepsEnds ==
  ASSUME TypeInv, NEW e \in Events, Room, Post(e)
  PROVE  EndsKept
<1>1. \A i \in DOMAIN events : i \in DOMAIN events' /\ events'[i] = events[i]
  BY PostedIs
<1> QED BY <1>1 DEF EndsKept

(* Handlers that leave the migrations and the phase alone.                 *)
LEMMA QuietStep ==
  ASSUME ReachInv, BusyInv, app'.phase = app.phase, app'.token = app.token, task' = task,
         lost' = lost, reopened => reopened', conf' = conf, EndsKept
  PROVE  ReachInv' /\ BusyInv'
<1>1. Working' = Working /\ (CanStart' <=> CanStart)
  BY DEF Working, RunIds, CanStart
<1>2. ReachInv'
  BY <1>1 DEF ReachInv, CancelReaches
<1>3. CASE \E i \in DOMAIN events : events[i].kind \in Ends
  BY <1>2, <1>3 DEF EndsKept, BusyInv
<1>4. CASE CanStart \/ reopened \/ app.token \in Working
  BY <1>1, <1>2, <1>4 DEF BusyInv
<1> QED BY <1>2, <1>3, <1>4 DEF BusyInv

LEMMA RunsAre ==
  ASSUME TypeInv
  PROVE  /\ RunIds \subseteq Nat \ {0} /\ Working \subseteq RunIds
         /\ task \in [RunIds -> {"unborn", "working", "ended"}]
         /\ Dropped = IF app.token \in Working THEN {app.token} ELSE {}
<1>1. conf.runs \in Nat /\ app.token \in 0..conf.runs
  BY AppFields
<1>2. app.token # 0 => app.token \in RunIds
  BY <1>1 DEF RunIds
<1>3. RunIds \subseteq Nat \ {0}
  BY <1>1 DEF RunIds
<1> QED BY <1>2, <1>3 DEF Dropped, NoRun, Working, TypeInv

(* A migration that answers posts the end that the program waits for.      *)
LEMMA BusyTasks ==
  ASSUME TypeInv, ReachInv, BusyInv, Tasks
  PROVE  ReachInv' /\ BusyInv'
<1>1. PICK r \in RunIds :
         \/ Report(r) \/ Forward(r)
         \/ \E outcome \in {"completed", "failed", "cancelled", "error"} : EndRun(r, outcome)
  BY DEF Tasks
<1>2. CASE Report(r)
  <2>1. /\ events' = events /\ app' = app /\ task' = task /\ lost' = lost
        /\ reopened' = reopened /\ conf' = conf
    BY <1>2 DEF Report, history
  <2>2. EndsKept
    BY <2>1 DEF EndsKept
  <2>3. app'.phase = app.phase /\ app'.token = app.token /\ (reopened => reopened')
    BY <2>1
  <2> QED BY <2>1, <2>2, <2>3, QuietStep
<1>3. CASE Forward(r)
  <2> DEFINE e == Event("Progress", Head(progress[r]), r)
  <2>1. /\ progress[r] # << >> /\ Post(e) /\ app' = app /\ task' = task /\ lost' = lost
        /\ reopened' = reopened /\ conf' = conf
    BY <1>3 DEF Forward, history
  <2>2. events \in Seq(Events)
    BY DEF TypeInv
  <2>3. events' = Append(events, e)
    BY <2>1 DEF Post
  <2> HIDE DEF e
  <2>4. EndsKept
    <3>1. \A i \in DOMAIN events : i \in DOMAIN events' /\ events'[i] = events[i]
      BY <2>2, <2>3
    <3> QED BY <3>1 DEF EndsKept
  <2>5. app'.phase = app.phase /\ app'.token = app.token /\ (reopened => reopened')
    BY <2>1
  <2> QED BY <2>1, <2>4, <2>5, QuietStep
<1>4. ASSUME NEW outcome \in {"completed", "failed", "cancelled", "error"}, EndRun(r, outcome)
      PROVE  ReachInv' /\ BusyInv'
  <2> DEFINE e == IF outcome = "error" THEN Event("Error", "migration", r)
                  ELSE Event("MigrationComplete", outcome, r)
  <2>1. /\ Post(e) /\ app' = app /\ task' = [task EXCEPT ![r] = "ended"] /\ lost' = lost
        /\ reopened' = reopened /\ conf' = conf
    BY <1>4 DEF EndRun, history
  <2>2. e.kind \in Ends
    BY DEF Event, Ends
  <2>3. events \in Seq(Events) /\ task \in [RunIds -> {"unborn", "working", "ended"}]
    BY DEF TypeInv
  <2>4. events' = Append(events, e)
    BY <2>1 DEF Post
  <2> HIDE DEF e
  <2>5. Len(events) + 1 \in DOMAIN events' /\ events'[Len(events) + 1] = e
    BY <2>3, <2>4
  <2>6. BusyInv'
    BY <2>2, <2>5 DEF BusyInv
  <2>7. RunIds' = RunIds /\ Working' \subseteq Working /\ (CanStart' <=> CanStart)
    BY <2>1, <2>3 DEF RunIds, Working, CanStart
  <2>8. ReachInv'
    BY <2>1, <2>7 DEF ReachInv, CancelReaches
  <2> QED BY <2>6, <2>8
<1> QED BY <1>1, <1>2, <1>3, <1>4

(* An update makes the program busy only when it was, or was idle.         *)
LEMMA BusyProgress ==
  ASSUME TypeInv, ReachInv, BusyInv, HandleProgress
  PROVE  ReachInv' /\ BusyInv'
<1>1. /\ Take("Progress") /\ task' = task /\ lost' = lost /\ conf' = conf
      /\ app' = IF app.phase \in Terminal THEN app ELSE [app EXCEPT !.phase = Head(events).what]
      /\ reopened' = (reopened \/ app.phase = "idle")
  BY DEF HandleProgress, taskVars
<1>2. EndsKept
  BY <1>1, TakenKeepsEnds DEF Ends
<1>3. CASE app.phase \in Terminal
  <2>1. app'.phase = app.phase /\ app'.token = app.token /\ (reopened => reopened')
    BY <1>1, <1>3
  <2> QED BY <1>1, <1>2, <2>1, QuietStep
<1>4. CASE app.phase \notin Terminal
  <2>1. Head(events) \in Events /\ Head(events).kind = "Progress"
    BY <1>1, TakenIs
  <2>2. Head(events).what \in ReportedPhases
    BY <2>1 DEF Events
  <2>3. app'.phase \in ReportedPhases /\ app'.token = app.token
    BY <1>1, <1>4, <2>2, AppFields DEF AppType
  <2>4. ~CanStart'
    BY <2>3 DEF CanStart, ReportedPhases, Terminal
  <2>5. Working' = Working
    BY <1>1 DEF Working, RunIds
  <2>6. ReachInv'
    BY <1>1, <2>3, <2>4, <2>5 DEF ReachInv, CancelReaches
  <2>7. CASE app.phase = "idle"
    BY <1>1, <2>6, <2>7 DEF BusyInv
  <2>8. CASE app.phase # "idle"
    <3>1. ~CanStart
      BY <1>4, <2>8 DEF CanStart
    <3>2. CASE reopened
      BY <1>1, <2>6, <3>2 DEF BusyInv
    <3>3. CASE app.token \in Working
      BY <2>3, <2>5, <2>6, <3>3 DEF BusyInv
    <3>4. CASE \E i \in DOMAIN events : events[i].kind \in Ends
      BY <1>2, <2>6, <3>4 DEF BusyInv, EndsKept
    <3> QED BY <3>1, <3>2, <3>3, <3>4 DEF BusyInv
  <2> QED BY <2>7, <2>8
<1> QED BY <1>3, <1>4

(* An answer frees the program; a migration that goes on is out of reach.  *)
LEMMA BusyAnswer ==
  ASSUME TypeInv, ReachInv, BusyInv, HandleComplete \/ HandleError
  PROVE  ReachInv' /\ BusyInv'
<1>1. PICK p : app' = [app EXCEPT !.phase = p, !.token = NoRun] /\ p \in {"idle"} \cup Terminal
  <2>1. CASE HandleComplete
    <3>1. Head(events) \in Events /\ Head(events).kind = "MigrationComplete"
      BY <2>1, TakenIs DEF HandleComplete
    <3>2. Head(events).what \in Terminal
      BY <3>1 DEF Events
    <3> QED BY <2>1, <3>2 DEF HandleComplete
  <2>2. CASE HandleError
    BY <2>2 DEF HandleError
  <2> QED BY <2>1, <2>2
<1>2. task' = task /\ conf' = conf /\ lost' = lost \cup Dropped
  BY DEF HandleComplete, HandleError, taskVars
<1>3. app'.phase = p
  BY <1>1, AppFields DEF AppType
<1>4. CanStart'
  BY <1>1, <1>3 DEF CanStart
<1>5. Working' = Working
  BY <1>2 DEF Working, RunIds
<1>6. Working \subseteq lost'
  BY <1>2, RunsAre DEF ReachInv, CancelReaches
<1> QED BY <1>4, <1>5, <1>6 DEF ReachInv, CancelReaches, BusyInv

(* A migration starts only when no other can be reached.                   *)
LEMMA BusyStart ==
  ASSUME TypeInv, ReachInv, BusyInv, NEW a, a \in AppType,
         a.phase = app.phase, a.token = app.token,
         NEW line, StartMigration(a, line), conf' = conf, reopened => reopened', EndsKept
  PROVE  ReachInv' /\ BusyInv'
<1>1. ASSUME NEW p \in Paths, Migrates(a, p) PROVE ReachInv' /\ BusyInv'
  <2>1. app'.token = NextRun /\ app'.phase = "connecting"
    BY <1>1 DEF AppType, Migrates, With
  <2>2. ~CanStart'
    BY <2>1 DEF CanStart, Terminal
  <2>3. NextRun \in RunIds /\ lost' = lost
    BY <1>1, NextRunIs DEF Migrates
  <2>4. Working' = Working \cup {NextRun}
    BY <1>1, <2>3, RunsAre DEF Working, RunIds, Migrates
  <2>5. ReachInv'
    BY <1>1, <2>1, <2>2, <2>3, <2>4 DEF ReachInv, CancelReaches, Migrates
  <2>6. BusyInv'
    BY <2>1, <2>4 DEF BusyInv
  <2> QED BY <2>5, <2>6
<1>2. CASE app' = a /\ task' = task /\ lost' = lost
  <2>1. app'.phase = app.phase /\ app'.token = app.token
    BY <1>2
  <2> QED BY <1>2, <2>1, QuietStep
<1> QED BY <1>1, <1>2, StartMigrationIs

LEMMA LocalIsQuiet ==
  ASSUME TypeInv, ReachInv, BusyInv, NEW kind, Local(kind), kind \notin Ends,
         app'.phase = app.phase, app'.token = app.token
  PROVE  ReachInv' /\ BusyInv'
<1>1. /\ Take(kind) /\ conf' = conf /\ task' = task /\ lost' = lost /\ reopened' = reopened
  BY DEF Local, taskVars, history
<1>2. EndsKept
  BY <1>1, TakenKeepsEnds
<1> QED BY <1>1, <1>2, QuietStep

LEMMA BusyKeys ==
  ASSUME TypeInv, ReachInv, BusyInv,
         \/ HandlePaletteKeys \/ HandleCommandInput \/ HandleCommandBackspace
         \/ HandleCommandArrows \/ HandleAcceptSuggestion \/ ExitCommandMode
         \/ HandleWizardKeys \/ WizardSubmit \/ WizardCancel \/ HandleSuccess
  PROVE  ReachInv' /\ BusyInv'
<1>1. app \in AppType
  BY AppFields
<1>2. app'.phase = app.phase /\ app'.token = app.token
  <2>1. CASE HandlePaletteKeys
    BY <1>1, <2>1 DEF HandlePaletteKeys, AppType
  <2>2. CASE HandleCommandInput
    BY <1>1, <2>2 DEF HandleCommandInput, Suggested, AppType
  <2>3. CASE HandleCommandBackspace
    BY <1>1, <2>3 DEF HandleCommandBackspace, Suggested, AppType
  <2>4. CASE HandleCommandArrows
    BY <1>1, <2>4 DEF HandleCommandArrows, AppType
  <2>5. CASE HandleAcceptSuggestion
    BY <1>1, <2>5 DEF HandleAcceptSuggestion, Suggested, AppType
  <2>6. CASE ExitCommandMode
    BY <1>1, <2>6 DEF ExitCommandMode, LineLeft, AppType
  <2>7. CASE HandleWizardKeys
    <3>1. app' = app \/ \E x : app' = [app EXCEPT !.wizard = x]
      BY <2>7 DEF HandleWizardKeys
    <3> QED BY <1>1, <3>1 DEF AppType
  <2>8. CASE WizardSubmit
    BY <1>1, <2>8 DEF WizardSubmit, AppType
  <2>9. CASE WizardCancel
    BY <1>1, <2>9 DEF WizardCancel, AppType
  <2>10. CASE HandleSuccess
    BY <2>10 DEF HandleSuccess
  <2> QED BY <2>1, <2>2, <2>3, <2>4, <2>5, <2>6, <2>7, <2>8, <2>9, <2>10
<1>3. \E kind : Local(kind) /\ kind \notin Ends
  <2>1. CASE HandlePaletteKeys \/ HandleCommandInput \/ HandleCommandBackspace
    BY <2>1 DEF HandlePaletteKeys, HandleCommandInput, HandleCommandBackspace, Ends
  <2>2. CASE HandleCommandArrows \/ HandleAcceptSuggestion \/ ExitCommandMode
    BY <2>2 DEF HandleCommandArrows, HandleAcceptSuggestion, ExitCommandMode, Ends
  <2>3. CASE HandleWizardKeys
    BY <2>3 DEF HandleWizardKeys, Ends
  <2>4. CASE WizardSubmit \/ WizardCancel \/ HandleSuccess
    BY <2>4 DEF WizardSubmit, WizardCancel, HandleSuccess, Ends
  <2> QED BY <2>1, <2>2, <2>3, <2>4
<1> QED BY <1>2, <1>3, LocalIsQuiet

LEMMA LineReadIs ==
  ASSUME TypeInv
  PROVE  /\ LineRead \in AppType
         /\ LineRead.phase = app.phase /\ LineRead.token = app.token
         /\ LineRead.line = << >> /\ LineRead.wizard = app.wizard
         /\ LineRead.mode = IF app.wizard = << >> THEN "normal" ELSE app.mode
<1>1. app \in AppType
  BY AppFields
<1> QED BY <1>1, LineReadType DEF LineRead, LineLeft, AppType

LEMMA BusyCommands ==
  ASSUME TypeInv, ReachInv, BusyInv, PaletteSelect \/ ExecuteCommand
  PROVE  ReachInv' /\ BusyInv'
<1>1. app \in AppType
  BY AppFields
<1>2. CASE PaletteSelect
  <2> DEFINE closed == [app EXCEPT !.palette = FALSE]
  <2>1. closed \in AppType /\ closed.phase = app.phase /\ closed.token = app.token
    BY <1>1, AppUpdates DEF AppType
  <2>2. /\ Take("PaletteSelect") /\ conf' = conf /\ (reopened => reopened')
    BY <1>2 DEF PaletteSelect
  <2>3. \/ StartMigration(closed, << >>)
        \/ app' \in {closed, app} /\ task' = task /\ lost' = lost
    BY <1>2 DEF PaletteSelect, StartCheck, NoTaskStarts
  <2> HIDE DEF closed
  <2>4. EndsKept
    BY <2>2, TakenKeepsEnds DEF Ends
  <2>5. CASE StartMigration(closed, << >>)
    BY <2>1, <2>2, <2>4, <2>5, BusyStart
  <2>6. CASE app' \in {closed, app} /\ task' = task /\ lost' = lost
    <3>1. app'.phase = app.phase /\ app'.token = app.token
      BY <2>1, <2>6
    <3> QED BY <2>2, <2>4, <2>6, <3>1, QuietStep
  <2> QED BY <2>3, <2>5, <2>6
<1>3. CASE ExecuteCommand
  <2>1. LineRead \in AppType /\ LineRead.phase = app.phase /\ LineRead.token = app.token
    BY LineReadIs
  <2>2. /\ Take("ExecuteCommand") /\ conf' = conf /\ (reopened => reopened')
    BY <1>3, ExecuteCommandIs
  <2>3. EndsKept
    BY <2>2, TakenKeepsEnds DEF Ends
  <2>4. CASE StartMigration(LineRead, app.line)
    BY <2>1, <2>2, <2>3, <2>4, BusyStart
  <2>5. CASE ~StartMigration(LineRead, app.line)
    <3>1. task' = task /\ lost' = lost
      BY <1>3, <2>5, ExecuteCommandIs DEF EnterWizard, NoTaskStarts
    <3>2. \/ app' = LineRead
          \/ \E p, f : app' = With(LineRead, p, f)
          \/ \E w : app' = [LineRead EXCEPT !.mode = "wizard", !.wizard = w]
      BY <1>3, <2>5, ExecuteCommandIs DEF EnterWizard
    <3>3. app'.phase = app.phase /\ app'.token = app.token
      BY <2>1, <3>2 DEF AppType, With
    <3> QED BY <2>2, <2>3, <3>1, <3>3, QuietStep
  <2> QED BY <2>4, <2>5
<1> QED BY <1>2, <1>3

LEMMA BusyNext ==
  ASSUME TypeInv, ReachInv, BusyInv, [Next]_vars
  PROVE  ReachInv' /\ BusyInv'
<1>1. app \in AppType
  BY AppFields
<1>2. CASE UNCHANGED vars \/ RunInit
  <2>1. /\ events' = events /\ app' = app /\ task' = task /\ lost' = lost
        /\ (reopened => reopened') /\ conf' = conf
    BY <1>2, RunInitIs DEF vars
  <2>2. EndsKept
    BY <2>1 DEF EndsKept
  <2>3. app'.phase = app.phase /\ app'.token = app.token
    BY <2>1
  <2> QED BY <2>1, <2>2, <2>3, QuietStep
<1>3. CASE StartUi
  <2>1. /\ events' = events /\ task' = task /\ lost' = lost
        /\ (reopened => reopened') /\ conf' = conf
    BY <1>3 DEF StartUi, taskVars, history
  <2>2. EndsKept
    BY <2>1 DEF EndsKept
  <2>3. app'.phase = app.phase /\ app'.token = app.token
    <3>1. PICK p \in conf.paths :
            app' = IF FileLoads(p) THEN With(app, p, file[p][1])
                   ELSE [app EXCEPT !.mode = "wizard", !.path = p,
                                    !.wizard = << OpenWizard(DefaultConfig, p) >>]
      BY <1>3 DEF StartUi
    <3> QED BY <1>1, <3>1, WithKeeps, WizardKeeps
  <2> QED BY <2>1, <2>2, <2>3, QuietStep
<1>4. CASE \/ \E key \in conf.keys : Press(key)
           \/ \E healthy \in BOOLEAN : CheckEnds(healthy)
  <2>1. PICK e : Post(e)
    BY <1>4 DEF Press, CheckEnds
  <2>2. events \in Seq(Events)
    BY DEF TypeInv
  <2>3. \A i \in DOMAIN events : i \in DOMAIN events' /\ events'[i] = events[i]
    BY <2>1, <2>2 DEF Post
  <2>4. EndsKept
    BY <2>3 DEF EndsKept
  <2>5. /\ app' = app /\ task' = task /\ lost' = lost /\ (reopened => reopened') /\ conf' = conf
    BY <1>4 DEF Press, CheckEnds, taskVars, history
  <2>6. app'.phase = app.phase /\ app'.token = app.token
    BY <2>5
  <2> QED BY <2>4, <2>5, <2>6, QuietStep
<1>5. CASE Tasks
  BY <1>5, BusyTasks
<1>6. CASE HandleQuit \/ HandleCancel
  <2>1. PICK kind : Take(kind) /\ kind \notin Ends
    BY <1>6 DEF HandleQuit, HandleCancel, Ends
  <2>2. EndsKept
    BY <2>1, TakenKeepsEnds
  <2>3. /\ app' = app /\ task' = task /\ lost' = lost /\ (reopened => reopened') /\ conf' = conf
    BY <1>6 DEF HandleQuit, HandleCancel, taskVars, history
  <2>4. app'.phase = app.phase /\ app'.token = app.token
    BY <2>3
  <2> QED BY <2>2, <2>3, <2>4, QuietStep
<1>7. CASE WizardConfirm
  <2>1. Take("WizardSubmit") /\ "WizardSubmit" \notin Ends
    BY <1>7, WizardConfirmIs DEF Ends
  <2>2. EndsKept
    BY <2>1, TakenKeepsEnds
  <2>3. /\ task' = task /\ lost' = lost /\ (reopened => reopened') /\ conf' = conf
    BY <1>7, WizardConfirmIs
  <2>4. app'.phase = app.phase /\ app'.token = app.token
    <3> DEFINE closed == [app EXCEPT !.mode = "normal", !.wizard = << >>]
    <3>1. closed.phase = app.phase /\ closed.token = app.token
      BY <1>1 DEF AppType
    <3>2. closed \in AppType
      BY <1>1, ClosedWizard
    <3> HIDE DEF closed
    <3>3. app' \in {app, closed} \/ \E p, f : app' = With(closed, p, f)
      BY <1>7, WizardConfirmIs DEF closed
    <3> QED BY <3>1, <3>2, <3>3, WithKeeps
  <2> QED BY <2>2, <2>3, <2>4, QuietStep
<1>8. CASE HandleProgress \/ HandleComplete \/ HandleError
  BY <1>8, BusyProgress, BusyAnswer
<1>9. CASE \/ HandlePaletteKeys \/ HandleCommandInput \/ HandleCommandBackspace
           \/ HandleCommandArrows \/ HandleAcceptSuggestion \/ ExitCommandMode
           \/ HandleWizardKeys \/ WizardSubmit \/ WizardCancel \/ HandleSuccess
  BY <1>9, BusyKeys
<1>10. CASE PaletteSelect \/ ExecuteCommand
  BY <1>10, BusyCommands
<1> QED BY <1>2, <1>3, <1>4, <1>5, <1>6, <1>7, <1>8, <1>9, <1>10 DEF Next, Loop, Over

-----------------------------------------------------------------------------
(* A user who waits.                                                       *)

(* Once the key on its way is taken, only answers and updates are left.    *)
LEMMA WaitTaken ==
  ASSUME TypeInv, Waiting, NEW kind, Take(kind)
  PROVE  /\ \A i \in DOMAIN events' : events'[i].kind \in TaskKinds
         /\ kind \notin TaskKinds => Converted(Head(events).what) = << Head(events) >>
<1>1. ASSUME NEW i \in DOMAIN events' PROVE events'[i].kind \in TaskKinds
  <2>1. i + 1 \in DOMAIN events /\ events'[i] = events[i + 1] /\ events' \in Seq(Events)
    BY TakenIs
  <2>2. i + 1 # 1
    BY <2>1
  <2> QED BY <2>1, <2>2 DEF Waiting
<1>2. Head(events) = events[1] /\ 1 \in DOMAIN events /\ Head(events).kind = kind
  BY TakenIs
<1> QED BY <1>1, <1>2 DEF Waiting

LEMMA WaitStep ==
  ASSUME TypeInv, Waiting, NEW kind, Take(kind), Agrees(app')
  PROVE  Waiting'
BY WaitTaken DEF Waiting

LEMMA WaitUntouched ==
  ASSUME TypeInv, Waiting, NEW kind, Take(kind),
         app'.mode = app.mode, app'.line = app.line, app'.wizard = app.wizard
  PROVE  Waiting'
<1>1. Agrees(app')
  BY DEF Waiting, Agrees
<1> QED BY <1>1, WaitStep

LEMMA WaitPost ==
  ASSUME TypeInv, Waiting, NEW e, e.kind \in TaskKinds, Post(e), app' = app
  PROVE  Waiting'
<1>1. events \in Seq(Events)
  BY DEF TypeInv
<1>2. /\ \A i \in DOMAIN events' : i \in DOMAIN events \/ i = Len(events) + 1
      /\ \A i \in DOMAIN events : events'[i] = events[i]
      /\ events'[Len(events) + 1] = e
  BY <1>1 DEF Post
<1>3. ASSUME NEW i \in DOMAIN events'
      PROVE  (\/ events[i].kind \in TaskKinds
              \/ i = 1 /\ Converted(events[i].what) = << events[i] >>)'
  <2>1. CASE i = Len(events) + 1
    BY <1>2, <2>1
  <2>2. CASE i \in DOMAIN events /\ events[i].kind \in TaskKinds
    BY <1>2, <2>2
  <2>3. CASE i \in DOMAIN events /\ i = 1 /\ Converted(events[i].what) = << events[i] >>
    <3>1. events'[i] = events[i]
      BY <1>2, <2>3
    <3>2. Converted(events[i].what)' = Converted(events[i].what)
      BY <3>1 DEF Converted
    <3> QED BY <2>3, <3>1, <3>2
  <2> QED BY <1>2, <2>1, <2>2, <2>3 DEF Waiting
<1>5. Agrees(app)'
  BY DEF Waiting, Agrees
<1> QED BY <1>3, <1>5 DEF Waiting

LEMMA WaitPress ==
  ASSUME TypeInv, Waiting, ~conf.ahead, NEW key, Press(key)
  PROVE  Waiting'
<1>1. PICK kind \in KeyKinds : Converted(key) = << Event(kind, key, NoRun) >>
  BY ConvertedIs DEF Press
<1> DEFINE e == Event(kind, key, NoRun)
<1>2. e.what = key /\ << e >>[1] = e
  BY DEF Event
<1> HIDE DEF e
<1>3. events = << >> /\ events' = Append(events, Converted(key)[1]) /\ app' = app
  BY DEF Press, Post
<1>4. events' = << e >>
  BY <1>1, <1>2, <1>3 DEF e
<1>5. Converted(key)' = << e >>
  BY <1>1, <1>3 DEF Converted, e
<1>6. DOMAIN events' = {1} /\ events'[1] = e
  BY <1>4
<1>7. Agrees(app)'
  BY <1>3 DEF Waiting, Agrees
<1> QED BY <1>2, <1>5, <1>6, <1>7 DEF Waiting

(* The keys of the command line, under the mode they were read in.         *)
LEMMA WaitLineKeys ==
  ASSUME TypeInv, Waiting,
         \/ HandleCommandInput \/ HandleCommandBackspace \/ HandleCommandArrows
         \/ HandleAcceptSuggestion \/ ExitCommandMode
  PROVE  Waiting'
<1>1. app \in AppType /\ app.mode \in Modes /\ app.line \in Lines /\ Agrees(app)
  BY AppFields DEF Waiting
<1>2. ASSUME NEW kind \in LineKinds, Take(kind)
      PROVE  app.mode \in {"command", "file"} /\ app.wizard = << >>
  <2>1. Head(events).kind = kind /\ kind \notin TaskKinds
    BY <1>2, TakenIs DEF LineKinds, TaskKinds
  <2>2. Converted(Head(events).what) = << Head(events) >>
    BY <1>2, <2>1, WaitTaken
  <2>3. app.mode \in {"command", "file"}
    BY <2>1, <2>2, KeyMeans
  <2> QED BY <1>1, <2>3 DEF Agrees
<1>3. ASSUME NEW a \in AppType, a.mode \in {"command", "file"}, a.wizard = << >>
      PROVE  Agrees(Suggested(a))
  <2>1. Suggested(a).mode \in {"command", "file"} /\ Suggested(a).wizard = << >>
    BY <1>3 DEF Suggested, AppType
  <2> QED BY <2>1 DEF Agrees
<1>4. CASE HandleCommandInput
  <2> DEFINE key == Head(events).what
             opens == key = "/" /\ app.mode = "normal" /\ app.line = << >>
             mode == IF opens THEN "command" ELSE app.mode
             line == IF Len(app.line) < conf.line THEN Append(app.line, key) ELSE app.line
             typed == [app EXCEPT !.mode = mode, !.line = line, !.draft = << >>]
  <2>1. Take("CommandInput") /\ app' = Suggested(typed)
    BY <1>4 DEF HandleCommandInput, Local
  <2>2. Head(events).kind = "CommandInput" /\ Head(events) \in Events
    BY <2>1, TakenIs
  <2>3. Converted(key) = << Head(events) >>
    BY <2>1, <2>2, WaitTaken DEF TaskKinds
  <2>4. /\ app.mode # "wizard"
        /\ app.mode \notin {"command", "file"} => key = "/"
    BY <2>2, <2>3, KeyMeans
  <2>5. key \in AllKeys
    BY <2>2 DEF Events, KeyKinds
  <2>6. mode \in {"command", "file"} /\ app.wizard = << >>
    BY <1>1, <2>4 DEF Agrees, Modes
  <2>7. line \in Lines /\ mode \in Modes /\ << >> \in OneOf(Lines)
    BY <1>1, <2>5, <2>6, AppFields DEF Lines, Modes, OneOf
  <2> HIDE DEF mode, line
  <2>8. typed.mode = mode /\ typed.wizard = app.wizard
    BY <1>1 DEF AppType
  <2>9. [app EXCEPT !.mode = mode] \in AppType
    BY <1>1, <2>7, AppUpdates
  <2>10. [[app EXCEPT !.mode = mode] EXCEPT !.line = line] \in AppType
    BY <2>7, <2>9, AppUpdates
  <2>11. typed \in AppType
    BY <2>7, <2>10, AppUpdates
  <2>12. Agrees(app')
    BY <1>3, <2>1, <2>6, <2>8, <2>11
  <2> QED BY <2>1, <2>12, WaitStep
<1>5. CASE HandleCommandBackspace
  <2> DEFINE n == Len(app.line)
             less == SubSeq(app.line, 1, n - 1)
             rest == [app EXCEPT !.line = less]
  <2>1. /\ Take("CommandBackspace")
        /\ app' = IF n <= 1 THEN [rest EXCEPT !.mode = "normal"] ELSE Suggested(rest)
    BY <1>5 DEF HandleCommandBackspace, Local
  <2>2. app.mode \in {"command", "file"} /\ app.wizard = << >>
    BY <1>2, <2>1 DEF LineKinds
  <2>3. less \in Lines /\ (n <= 1 => less = << >>)
    BY <1>1 DEF Lines
  <2> HIDE DEF less
  <2>4. /\ rest \in AppType /\ rest.mode = app.mode /\ rest.line = less
        /\ rest.wizard = app.wizard
    BY <1>1, <2>3, AppUpdates DEF AppType
  <2> HIDE DEF rest
  <2>5. CASE n <= 1
    <3>1. app'.line = << >> /\ app'.mode = "normal" /\ app'.wizard = << >>
      BY <2>1, <2>2, <2>3, <2>4, <2>5 DEF AppType
    <3>2. Agrees(app')
      BY <3>1 DEF Agrees
    <3> QED BY <2>1, <3>2, WaitStep
  <2>6. CASE ~(n <= 1)
    <3>1. Agrees(app')
      BY <1>3, <2>1, <2>2, <2>4, <2>6
    <3> QED BY <2>1, <3>1, WaitStep
  <2> QED BY <2>5, <2>6
<1>6. CASE HandleCommandArrows
  <2>1. PICK kind \in LineKinds : Take(kind)
    BY <1>6 DEF HandleCommandArrows, Local, LineKinds
  <2>2. app.mode \in {"command", "file"} /\ app.wizard = << >>
    BY <1>2, <2>1
  <2>3. app'.mode = app.mode /\ app'.wizard = app.wizard
    BY <1>1, <1>6 DEF HandleCommandArrows, AppType
  <2>4. Agrees(app')
    BY <2>2, <2>3 DEF Agrees
  <2> QED BY <2>1, <2>4, WaitStep
<1>7. CASE HandleAcceptSuggestion
  <2>1. Take("AcceptSuggestion")
    BY <1>7 DEF HandleAcceptSuggestion, Local
  <2>2. app.mode \in {"command", "file"} /\ app.wizard = << >>
    BY <1>2, <2>1 DEF LineKinds
  <2>3. app'.mode \in {"command", "file"} /\ app'.wizard = << >>
    BY <1>1, <1>7, <2>2 DEF HandleAcceptSuggestion, Suggested, AppType
  <2>4. Agrees(app')
    BY <2>3 DEF Agrees
  <2> QED BY <2>1, <2>4, WaitStep
<1>8. CASE ExitCommandMode
  <2>1. Take("ExitCommandMode")
    BY <1>8 DEF ExitCommandMode, Local
  <2>2. app.wizard = << >>
    BY <1>2, <2>1 DEF LineKinds
  <2>3. app'.mode = "normal" /\ app'.line = << >> /\ app'.wizard = << >>
    BY <1>1, <1>8, <2>2 DEF ExitCommandMode, LineLeft, AppType
  <2>4. Agrees(app')
    BY <2>3 DEF Agrees
  <2> QED BY <2>1, <2>4, WaitStep
<1> QED BY <1>4, <1>5, <1>6, <1>7, <1>8

LEMMA WaitCommands ==
  ASSUME TypeInv, Waiting, PaletteSelect \/ ExecuteCommand
  PROVE  Waiting'
<1>1. app \in AppType /\ app.mode \in Modes /\ Agrees(app)
  BY AppFields DEF Waiting
<1>2. CASE PaletteSelect
  <2> DEFINE closed == [app EXCEPT !.palette = FALSE]
  <2>1. Take("PaletteSelect")
    BY <1>2 DEF PaletteSelect
  <2>2. closed \in AppType /\ closed.mode = app.mode /\ closed.line = app.line
        /\ closed.wizard = app.wizard
    BY <1>1, AppUpdates DEF AppType
  <2>3. StartMigration(closed, << >>) \/ app' \in {closed, app}
    BY <1>2 DEF PaletteSelect, StartCheck, NoTaskStarts
  <2> HIDE DEF closed
  <2>4. app' \in {closed, app} \/ \E p \in Paths : Migrates(closed, p)
    BY <2>3, StartMigrationIs
  <2>5. app'.mode = app.mode /\ app'.line = app.line /\ app'.wizard = app.wizard
    BY <2>2, <2>4, MigratesKeeps
  <2> QED BY <2>1, <2>5, WaitUntouched
<1>3. CASE ExecuteCommand
  <2>1. Take("ExecuteCommand")
    BY <1>3, ExecuteCommandIs
  <2>2. Head(events).kind = "ExecuteCommand" /\ "ExecuteCommand" \notin TaskKinds
    BY <2>1, TakenIs DEF TaskKinds
  <2>3. Converted(Head(events).what) = << Head(events) >>
    BY <2>1, <2>2, WaitTaken
  <2>4. app.mode \in {"command", "file"}
    BY <2>2, <2>3, KeyMeans DEF LineKinds
  <2>5. app.wizard = << >>
    BY <1>1, <2>4 DEF Agrees
  <2>6. /\ LineRead \in AppType /\ LineRead.line = << >> /\ LineRead.mode = "normal"
        /\ LineRead.wizard = << >>
    BY <2>5, LineReadIs
  <2>7. CASE EnterWizard(LineRead)
    <3>1. PICK p, w : app' = [LineRead EXCEPT !.mode = "wizard", !.wizard = << OpenWizard(w, p) >>]
      BY <2>7 DEF EnterWizard
    <3> DEFINE x == OpenWizard(w, p)
    <3>2. app' = [[LineRead EXCEPT !.mode = "wizard"] EXCEPT !.wizard = << x >>]
      BY <3>1
    <3> HIDE DEF x
    <3>3. app'.line = << >> /\ app'.mode = "wizard" /\ app'.wizard # << >>
      BY <2>6, <3>2 DEF AppType
    <3>4. Agrees(app')
      BY <3>3 DEF Agrees
    <3> QED BY <2>1, <3>4, WaitStep
  <2>8. CASE \/ app' = LineRead
             \/ \E p, f : app' = With(LineRead, p, f)
             \/ \E p \in Paths : Migrates(LineRead, p)
    <3>1. app'.line = << >> /\ app'.mode = "normal" /\ app'.wizard = << >>
      BY <2>6, <2>8, WithKeeps, MigratesKeeps
    <3>2. Agrees(app')
      BY <3>1 DEF Agrees
    <3> QED BY <2>1, <3>2, WaitStep
  <2>9. \/ StartMigration(LineRead, app.line)
        \/ \E p, f : app' = With(LineRead, p, f)
        \/ EnterWizard(LineRead)
        \/ app' = LineRead
    BY <1>3, ExecuteCommandIs
  <2> QED BY <2>7, <2>8, <2>9, StartMigrationIs
<1> QED BY <1>2, <1>3

LEMMA WaitWizard ==
  ASSUME TypeInv, Waiting, HandleWizardKeys \/ WizardSubmit \/ WizardConfirm \/ WizardCancel
  PROVE  Waiting'
<1>1. app \in AppType /\ Agrees(app)
  BY AppFields DEF Waiting
<1>2. CASE HandleWizardKeys \/ WizardSubmit
  <2>1. PICK kind : Take(kind)
    BY <1>2 DEF HandleWizardKeys, WizardSubmit, Local
  <2>2. app' = app \/ (app.wizard # << >> /\ \E w : app' = [app EXCEPT !.wizard = << w >>])
    BY <1>2 DEF HandleWizardKeys, WizardSubmit
  <2>3. /\ app'.mode = app.mode /\ app'.line = app.line
        /\ (app'.wizard = << >> <=> app.wizard = << >>)
    <3>1. CASE app' = app
      BY <3>1
    <3>2. ASSUME app.wizard # << >>, NEW w, app' = [app EXCEPT !.wizard = << w >>]
          PROVE  app'.mode = app.mode /\ app'.line = app.line /\ app'.wizard # << >>
      BY <1>1, <3>2 DEF AppType
    <3> QED BY <2>2, <3>1, <3>2
  <2>4. Agrees(app')
    BY <1>1, <2>3 DEF Agrees
  <2> QED BY <2>1, <2>4, WaitStep
<1>3. CASE WizardConfirm
  <2>1. Take("WizardSubmit") /\ app.wizard # << >>
    BY <1>3, WizardConfirmIs
  <2>2. app.mode = "wizard" /\ app.line = << >>
    BY <1>1, <2>1 DEF Agrees
  <2>3. \/ app' = app
        \/ app'.mode = "normal" /\ app'.line = app.line /\ app'.wizard = << >>
    BY <1>1, <1>3, WizardConfirmIs DEF AppType, With
  <2>4. Agrees(app')
    BY <1>1, <2>2, <2>3 DEF Agrees
  <2> QED BY <2>1, <2>4, WaitStep
<1>4. CASE WizardCancel
  <2>1. Take("WizardCancel")
    BY <1>4 DEF WizardCancel, Local
  <2>2. Head(events).kind = "WizardCancel" /\ "WizardCancel" \notin TaskKinds
    BY <2>1, TakenIs DEF TaskKinds
  <2>3. Converted(Head(events).what) = << Head(events) >>
    BY <2>1, <2>2, WaitTaken
  <2>4. app.mode = "wizard"
    BY <2>2, <2>3, KeyMeans DEF WizardKinds
  <2>5. app.line = << >>
    BY <1>1, <2>4 DEF Agrees
  <2>6. app'.mode = "normal" /\ app'.line = << >> /\ app'.wizard = << >>
    BY <1>1, <1>4, <2>5 DEF WizardCancel, AppType
  <2>7. Agrees(app')
    BY <2>6 DEF Agrees
  <2> QED BY <2>1, <2>7, WaitStep
<1> QED BY <1>2, <1>3, <1>4

LEMMA WaitSame ==
  ASSUME Waiting, events' = events, app' = app
  PROVE  Waiting'
<1>1. ASSUME NEW i \in DOMAIN events
      PROVE  Converted(events[i].what)' = Converted(events[i].what)
  BY DEF Converted
<1>2. Agrees(app)'
  BY DEF Waiting, Agrees
<1> QED BY <1>1, <1>2 DEF Waiting

LEMMA WaitNext ==
  ASSUME TypeInv, WaitInv, [Next]_vars
  PROVE  WaitInv'
<1>1. CASE UNCHANGED vars \/ RunInit
  <2>1. conf' = conf /\ events' = events /\ app' = app
    BY <1>1, RunInitIs DEF vars
  <2> QED BY <2>1, WaitSame DEF WaitInv
<1>2. conf' = conf
  BY DEF Next, vars, RunInit, StartUi, Press, Tasks, Report, Forward, EndRun, CheckEnds, Loop, Over,
     HandleQuit, HandlePaletteKeys, HandleProgress, HandleComplete, HandleError, HandleSuccess,
     HandleCancel, PaletteSelect, HandleCommandInput, HandleCommandBackspace, HandleCommandArrows,
     HandleAcceptSuggestion, ExecuteCommand, ExitCommandMode, HandleWizardKeys, WizardSubmit,
     WizardConfirm, WizardCancel, Local
<1>3. SUFFICES ASSUME ~conf.ahead, Waiting, Next, ~RunInit, ~Over
               PROVE  Waiting'
  BY <1>1, <1>2 DEF WaitInv, Over
<1>4. app \in AppType /\ Agrees(app)
  BY <1>3, AppFields DEF Waiting
<1>5. CASE StartUi
  <2>1. app = Closed /\ events = << >> /\ events' = events
    BY <1>5 DEF StartUi, TypeInv
  <2>2. /\ app'.line = << >>
        /\ \/ app'.mode = "normal" /\ app'.wizard = << >>
           \/ app'.mode = "wizard" /\ app'.wizard # << >>
    <3>1. PICK p \in conf.paths :
            app' = IF FileLoads(p) THEN With(Closed, p, file[p][1])
                   ELSE [Closed EXCEPT !.mode = "wizard", !.path = p,
                                       !.wizard = << OpenWizard(DefaultConfig, p) >>]
      BY <1>5, <2>1 DEF StartUi
    <3> QED BY <3>1 DEF Closed, With
  <2>3. Agrees(app)'
    BY <2>2 DEF Agrees
  <2>4. DOMAIN events' = {}
    BY <2>1
  <2> QED BY <2>3, <2>4 DEF Waiting
<1>6. CASE \E key \in conf.keys : Press(key)
  BY <1>3, <1>6, WaitPress
<1>7. CASE Tasks
  <2>1. PICK r \in RunIds :
           \/ Report(r) \/ Forward(r)
           \/ \E outcome \in {"completed", "failed", "cancelled", "error"} : EndRun(r, outcome)
    BY <1>7 DEF Tasks
  <2>2. CASE Report(r)
    <3>1. events' = events /\ app' = app
      BY <2>2 DEF Report
    <3> QED BY <1>3, <3>1, WaitSame
  <2>3. CASE Forward(r)
    <3> DEFINE e == Event("Progress", Head(progress[r]), r)
    <3>1. Post(e) /\ app' = app /\ e.kind \in TaskKinds
      BY <2>3 DEF Forward, Event, TaskKinds
    <3> HIDE DEF e
    <3> QED BY <1>3, <3>1, WaitPost
  <2>4. ASSUME NEW outcome \in {"completed", "failed", "cancelled", "error"}, EndRun(r, outcome)
        PROVE  Waiting'
    <3> DEFINE e == IF outcome = "error" THEN Event("Error", "migration", r)
                    ELSE Event("MigrationComplete", outcome, r)
    <3>1. Post(e) /\ app' = app /\ e.kind \in TaskKinds
      BY <2>4 DEF EndRun, Event, TaskKinds
    <3> HIDE DEF e
    <3> QED BY <1>3, <3>1, WaitPost
  <2> QED BY <2>1, <2>2, <2>3, <2>4
<1>8. CASE \E healthy \in BOOLEAN : CheckEnds(healthy)
  <2>1. PICK healthy \in BOOLEAN : CheckEnds(healthy)
    BY <1>8
  <2> DEFINE e == Event(IF healthy THEN "Success" ELSE "Error", "check", NoRun)
  <2>2. Post(e) /\ app' = app /\ e.kind \in TaskKinds
    BY <2>1 DEF CheckEnds, Event, TaskKinds
  <2> HIDE DEF e
  <2> QED BY <1>3, <2>2, WaitPost
<1>9. CASE \/ HandleQuit \/ HandlePaletteKeys \/ HandleProgress \/ HandleComplete
           \/ HandleError \/ HandleSuccess \/ HandleCancel
  <2>1. PICK kind : Take(kind)
    BY <1>9 DEF HandleQuit, HandlePaletteKeys, HandleProgress, HandleComplete, HandleError,
       HandleSuccess, HandleCancel, Local
  <2>2. app'.mode = app.mode /\ app'.line = app.line /\ app'.wizard = app.wizard
    <3>1. CASE HandleQuit \/ HandleSuccess \/ HandleCancel
      BY <3>1 DEF HandleQuit, HandleSuccess, HandleCancel
    <3>2. CASE HandlePaletteKeys
      BY <1>4, <3>2 DEF HandlePaletteKeys, AppType
    <3>3. CASE HandleProgress
      BY <1>4, <3>3 DEF HandleProgress, AppType
    <3>4. CASE HandleComplete \/ HandleError
      BY <1>4, <3>4 DEF HandleComplete, HandleError, AppType
    <3> QED BY <1>9, <3>1, <3>2, <3>3, <3>4
  <2> QED BY <1>3, <2>1, <2>2, WaitUntouched
<1>10. CASE \/ HandleCommandInput \/ HandleCommandBackspace \/ HandleCommandArrows
            \/ HandleAcceptSuggestion \/ ExitCommandMode
  BY <1>3, <1>10, WaitLineKeys
<1>11. CASE PaletteSelect \/ ExecuteCommand
  BY <1>3, <1>11, WaitCommands
<1>12. CASE HandleWizardKeys \/ WizardSubmit \/ WizardConfirm \/ WizardCancel
  BY <1>3, <1>12, WaitWizard
<1> QED BY <1>3, <1>5, <1>6, <1>7, <1>8, <1>9, <1>10, <1>11, <1>12 DEF Next, Loop

-----------------------------------------------------------------------------
(* The invariant.                                                          *)
LEMMA TuiInit ==
  ASSUME Init
  PROVE  TuiInv
<1>1. TypeInv
  BY TypeInit
<1>2. app = Closed /\ events = << >> /\ task = [r \in RunIds |-> "unborn"]
      /\ conf \in Scenarios /\ file \in conf.files
  BY DEF Init
<1>3. Working = {} /\ CanStart
  BY <1>2 DEF Working, CanStart, Closed
<1>4. ReachInv /\ BusyInv
  BY <1>3 DEF ReachInv, BusyInv, CancelReaches
<1>5. app.mode = "normal" /\ app.line = << >> /\ app.wizard = << >> /\ DOMAIN events = {}
  BY <1>2 DEF Closed
<1>6. WaitInv
  BY <1>5 DEF WaitInv, Waiting, Agrees
<1>7. \A p \in Paths : file[p] = << >> \/ Loads(p, file[p][1])
  <2>1. file \in [Paths -> Seq(Files)]
    BY <1>2, TuiAssumption
  <2>2. \A p \in Paths : Len(file[p]) = 0 => file[p] = << >>
    BY <2>1
  <2> QED BY <1>2, <2>2, TuiAssumption
<1>8. SavedConfigLoads
  BY <1>7 DEF SavedConfigLoads, FileLoads
<1> QED BY <1>1, <1>4, <1>6, <1>8 DEF TuiInv

LEMMA TuiInvHolds == Spec => []TuiInv
<1>1. Init => TuiInv
  BY TuiInit
<1>2. TuiInv /\ [Next]_vars => TuiInv'
  BY TypeNext, BusyNext, WaitNext, SavedNext DEF TuiInv
<1> QED BY <1>1, <1>2, PTL DEF Spec

(* Every variable of the terminal UI stays within its type: the queue      *)
(* within its capacity, the wizard on one of its steps, its selection on   *)
(* one of the options of that step.                                        *)
THEOREM TypesHold == Spec => []TypeOK
<1>1. TuiInv => TypeOK
  <2> SUFFICES ASSUME TypeInv PROVE TypeOK
    BY DEF TuiInv
  <2>1. /\ session \in {"closed", "open", "over"} /\ Len(events) <= EventCap
        /\ \A r \in RunIds : Len(progress[r]) <= ProgressCap
    BY DEF TypeInv
  <2>2. /\ app.phase \in Phases /\ app.mode \in Modes /\ app.token \in 0..conf.runs
        /\ app.config \in Configs /\ app.path \in Paths
    BY AppFields
  <2>3. (\A p \in Paths : Len(file[p]) <= 1) /\ Len(app.wizard) <= 1
    BY AppFields, OneOfIs DEF TypeInv
  <2>4. ASSUME app.wizard # << >>
        PROVE  /\ app.wizard[1].step \in DOMAIN Steps /\ Steps[app.wizard[1].step] # "Done"
               /\ IsChoice(Steps[app.wizard[1].step]) =>
                    app.wizard[1].selected \in DOMAIN Options(Steps[app.wizard[1].step])
               /\ app.wizard[1].config \in Configs /\ app.wizard[1].path \in Paths
    <3>1. app.wizard[1] \in Wizards
      BY <2>4, AppFields, OneOfIs
    <3>2. /\ app.wizard[1].step \in 1..17
          /\ app.wizard[1].config \in Configs /\ app.wizard[1].path \in Paths
          /\ IsChoice(Steps[app.wizard[1].step]) =>
               app.wizard[1].selected \in DOMAIN Options(Steps[app.wizard[1].step])
      BY <3>1 DEF Wizards, WizardType
    <3> QED BY <3>2, StepsAre
  <2> QED BY <2>1, <2>2, <2>3, <2>4 DEF TypeOK
<1> QED BY <1>1, TuiInvHolds, PTL

(* Ctrl+C reaches every migration at work but those that App dropped with  *)
(* an error that was not theirs, whatever the order in which keys, updates *)
(* and answers come.                                                       *)
THEOREM CtrlCReaches == Spec => []CancelReaches
<1>1. TuiInv => CancelReaches
  BY DEF TuiInv, ReachInv
<1> QED BY <1>1, TuiInvHolds, PTL

(* A program with nothing left to hear of can start a migration, unless an *)
(* update that came late made it busy.                                     *)
THEOREM NeverStuckBusy == Spec => []IdleWhenOver
<1>1. TuiInv => IdleWhenOver
  <2> SUFFICES ASSUME BusyInv, Working = {}, events = << >>
               PROVE  CanStart \/ reopened
    BY DEF TuiInv, IdleWhenOver
  <2>1. DOMAIN events = {}
    OBVIOUS
  <2> QED BY <2>1 DEF BusyInv
<1> QED BY <1>1, TuiInvHolds, PTL

(* What the wizard and init save can be loaded, whatever was answered, in  *)
(* any order of steps, but for the exceptions the property names.          *)
THEOREM SavedLoads == Spec => []SavedConfigLoads
<1>1. TuiInv => SavedConfigLoads
  BY DEF TuiInv
<1> QED BY <1>1, TuiInvHolds, PTL

(* For a user who waits for each key to be handled, the modes agree with   *)
(* the line and the wizard on the screen.                                  *)
THEOREM ScreenAgrees == Spec => []ModesAgree
<1>1. TuiInv => ModesAgree
  BY DEF TuiInv, WaitInv, Waiting, Agrees, ModesAgree
<1> QED BY <1>1, TuiInvHolds, PTL
=============================================================================
