-------------------------------- MODULE MCTui --------------------------------
(* Sessions of the terminal UI: migrations and health checks with keys typed *)
(* ahead, the command line and its modes, and the wizards with their files.  *)
EXTENDS TuiApp

Named == [DefaultConfig EXCEPT !.text["SourceDatabase"] = "a", !.text["TargetDatabase"] = "a"]

\* Same server, two schemas; a source type given by an alias; texts that only a
\* file with quotes can hold.
Twin == [Named EXCEPT !.source = "postgres", !.sourcePort = "postgres", !.schemas.source = "own"]
Aliased == [Named EXCEPT !.source = "pg", !.sourcePort = "postgres",
                         !.text["TargetDatabase"] = "b"]
Odd == [Named EXCEPT !.text["SourcePassword"] = "#", !.text["TargetPassword"] = "@"]

None == [p \in Paths |-> << >>]
Holding(form, config) == << [form |-> form, config |-> config] >>
Yaml(config) == [None EXCEPT !["yaml"] = Holding("quoted", config)]
Both(yaml, json) == [Yaml(yaml) EXCEPT !["json"] = Holding("json", json)]

Migrations(n, m, ks) ==
    [runs |-> n, checks |-> m, reports |-> 1, keys |-> ks, ahead |-> TRUE, init |-> FALSE, line |-> 2,
     paths |-> {"yaml"}, files |-> {Yaml(Named)}]

Typing(ks) ==
    [runs |-> 0, reports |-> 0, checks |-> 1, keys |-> ks, ahead |-> FALSE, init |-> FALSE, line |-> 3,
     paths |-> Paths, files |-> {Both(Named, Aliased)}]

Wizards(path, fs, isInit, ks) ==
    [runs |-> 0, reports |-> 0, checks |-> 0, keys |-> ks, ahead |-> FALSE, init |-> isInit, line |-> 2,
     paths |-> {path}, files |-> fs]

\* The wizards: its answers with every way back; its answers with every text; over
\* an old file; and from a path of its own to config.yaml and back.
MCScenarios ==
    {Migrations(2, 1, {":", "enter", "^C"}),
     Typing({"/", "@", "run", "health", "enter", "esc", "back", "tab", "up", "down"}),
     Wizards("yaml", {None}, TRUE, {"enter", "up", "down", "back", "b", "0", "esc"}),
     Wizards("yaml", {None}, FALSE, {"enter", "a", "#", "@", "q"}),
     Wizards("yaml", {Yaml(Twin), Yaml(Aliased)}, FALSE, {"/", "wizard", "enter", "down", "back", "q"}),
     Wizards("json", {Both(Odd, Twin), Yaml(Aliased)}, TRUE,
             {"/", "wizard", "config", "json", "enter", "q"})}
=============================================================================
