-------------------------------- MODULE MCJobs --------------------------------
(***************************************************************************)
(* Instance of Jobs for TLC: a config of three targets, one of them        *)
(* disabled, on two sources; configs that are refused, each for a reason   *)
(* of its own; and command lines for every mode and every kind of flag.    *)
(***************************************************************************)
EXTENDS Jobs, TLC

Unsaid == [timeout |-> 0, restore |-> 0, ready |-> 0, check |-> 0, pull |-> "", workspace |-> ""]
ATarget ==
  Unsaid @@ [name |-> "git", recipe |-> "gitea", source |-> "", enabled |-> "unsaid",
             tags |-> {}, vars |-> [v \in {"a"} |-> "target"]]

Good ==
  [is |-> "config", version |-> 1,
   defaults |-> [Unsaid EXCEPT !.timeout = 900, !.check = 90, !.workspace = "tmp"]
                  @@ [source |-> "nas"],
   sources |-> [nas |-> [kind |-> "restic", from |-> "sftp", host |-> "nas", refs |-> {"KEY"}],
                tree |-> [kind |-> "dir", from |-> "export", host |-> "", refs |-> {}]],
   targets |-> << ATarget,
                  [ATarget EXCEPT !.name = "off", !.enabled = "no"],
                  [ATarget EXCEPT !.name = "wiki", !.source = "tree", !.recipe = "./wiki",
                                  !.enabled = "yes", !.check = 30, !.timeout = 160,
                                  !.pull = "always", !.workspace = "/var"] >>]

SomeContents ==
  { [is |-> "nothing"], [is |-> "garbage"], Good,
    [Good EXCEPT !.version = 2],
    [Good EXCEPT !.defaults.source = ""],
    [Good EXCEPT !.sources.tree.host = "nas"],
    [Good EXCEPT !.sources.nas.refs = {"UNSET"}],
    [Good EXCEPT !.targets[3].check = -1],
    [Good EXCEPT !.targets = <<>>] }

Flags ==
  { [f \in {} |-> 0], [timeout |-> 0, ready |-> 200], [timeout |-> 64, pull |-> "never"], [timeout |-> 7200],
    [timeout |-> 3], [timeout |-> 7, host |-> ""],
    [source |-> "dir", from |-> As("export")], [source |-> "dir"],
    [source |-> "borg"], [snapshot |-> [prefix |-> "a", id |-> 0]],
    [from |-> As("local"), tag |-> {"t"}, workspace |-> As("here"), host |-> "h"],
    [pull |-> "sometimes"] }

\* Two of one second, with a common prefix.
SomeSnapshots ==
  { [prefix |-> "a", id |-> 1, time |-> 1, host |-> "nas", tags |-> {}],
    [prefix |-> "a", id |-> 2, time |-> 1, host |-> "nas", tags |-> {"t"}],
    [prefix |-> "b", id |-> 3, time |-> 2, host |-> "h", tags |-> {"t"}] }

\* A recipe test has three of the flags.
SomeCommands ==
  {c \in
    [modes : {{"recipe"}, {"target"}, {"all"}, {"test"}, {"recipe", "all"}, {}},
     config : {0, 2}, target : {"off", "wiki", "nobody"}, pairsOK : {TRUE},
     typed : Flags, vars : {[v \in {"a", "b"} |-> "typed"]}]
    \cup
    [modes : {{"recipe"}}, config : {0}, target : {""}, pairsOK : {FALSE},
     typed : {[f \in {} |-> 0]}, vars : {[v \in {} |-> ""]}] :
   c.modes = {"test"} => DOMAIN c.typed \subseteq {"timeout", "pull", "workspace"}}
=============================================================================
