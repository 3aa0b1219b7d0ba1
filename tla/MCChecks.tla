------------------------------- MODULE MCChecks -------------------------------
(***************************************************************************)
(* Instances of Checks for TLC: a recipe with a check of every kind, whose *)
(* expectations together use every key, and one of the sqlite checks alone.*)
(***************************************************************************)
EXTENDS Checks

None == [k \in {} |-> 0]

\* Patterns: "hit", "^$", ".", and one that does not compile.
Hit == {"hit"}
NoText == {""}
SomeText == {"hit", "miss"}
Bad == {}

SqliteChecks ==
  << [kind |-> "integrity", inside |-> TRUE, expect |-> None],
     [kind |-> "sqlite", inside |-> TRUE,
      expect |-> [rows_min |-> 1, scalar_int_min |-> 1, scalar_int_max |-> 2]] >>

CommandChecks ==
  << [kind |-> "exec", expect |-> [stdout_matches |-> Hit]],
     [kind |-> "exec", expect |-> [body_matches |-> NoText, body_not_matches |-> Hit]],
     [kind |-> "exec", expect |-> [exit_code |-> 1, stderr_matches |-> SomeText]],
     [kind |-> "exec", expect |-> [exit_code |-> -1, stdout_matches |-> Hit]],
     [kind |-> "postgres", expect |-> [scalar_int_min |-> 0, rows_max |-> 1]],
     [kind |-> "postgres", expect |-> [rows_min |-> 0, stderr_matches |-> NoText]],
     [kind |-> "postgres", expect |-> [scalar_equals |-> NoValue, stdout_matches |-> NoText,
                                       json_path_int_min |-> 1]] >>

FileChecks ==
  << [kind |-> "file", path |-> <<"data", "sub", "a">>,
      expect |-> [glob |-> 2, glob_min_count |-> 1, not_empty |-> TRUE]],
     [kind |-> "file", path |-> <<"data">>, expect |-> [glob |-> 2, exists |-> TRUE]],
     [kind |-> "file", path |-> <<"data", "b">>, expect |-> [exists |-> FALSE, glob |-> 0]],
     [kind |-> "file", path |-> <<"other">>, expect |-> [is_dir |-> FALSE, size_min |-> 0]] >>

SomeChecks ==
  SqliteChecks \o
  << [kind |-> "http", expect |-> [status |-> 200, body_matches |-> Hit]],
     [kind |-> "http", expect |-> [status_in |-> {200, 204}, body_not_matches |-> Bad,
                                   json_path |-> "$.a", json_path_int_min |-> 1,
                                   scalar_int_max |-> 1]],
     [kind |-> "http", expect |-> [json_path |-> "$.a", json_path_equals |-> 1,
                                   json_path_len_min |-> 1]],
     [kind |-> "http", expect |-> None] >>
  \o CommandChecks
  \o << [kind |-> "sqlite", inside |-> FALSE, expect |-> [scalar_int_min |-> 0]] >>
  \o FileChecks
  \o << [kind |-> "sqlite", inside |-> TRUE, expect |-> [scalar_int_min |-> 2]] >>

\* One input lies inside another, and comes after it.
SomeMounts == << [at |-> <<"data">>, host |-> "data"],
                 [at |-> <<"data", "sub">>, host |-> "sub"] >>

SomeTrees ==
  {[is |-> "nothing", has |-> {}], [is |-> "file", has |-> {}], [is |-> "dir", has |-> {}],
   [is |-> "dir", has |-> {<<"x">>}], [is |-> "dir", has |-> {<<"sub">>, <<"sub", "y">>}]}
=============================================================================
