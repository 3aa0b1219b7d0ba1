---------------------------- MODULE MCMaterialise ----------------------------
(***************************************************************************)
(* Instances of Materialise for TLC.  A database that the recipe lists     *)
(* before the directory that holds it, declared to lie inside it or to     *)
(* stand on its own; a second directory; paths that nest and paths that do *)
(* not; backups that have all of it, a part of it, or links in it.         *)
(***************************************************************************)
EXTENDS Materialise

Order == <<"db", "data", "conf">>

DefaultPath(n) ==
  CASE n = "db" -> <<"srv", "app.db">> [] n = "data" -> <<"srv">> [] n = "conf" -> <<"etc">>

SomeRecipes ==
  {[default |-> [n \in {"db", "data", "conf"} |-> DefaultPath(n)],
    within |-> [n \in {"db", "data", "conf"} |-> IF n = "db" THEN w ELSE "nowhere"],
    required |-> [n \in {"db", "data", "conf"} |-> IF n = "data" THEN d ELSE r]] :
     w \in {"data", "conf", "nowhere"}, d \in BOOLEAN, r \in BOOLEAN}

SomePaths == {<<"srv">>, <<"srv", "app.db">>, <<"srv", "old">>, <<"etc">>}

Tree(dirs, files, inner, outer) ==
  [p \in dirs \cup files \cup inner \cup outer |->
     IF p \in dirs THEN "dir" ELSE IF p \in files THEN "file"
     ELSE IF p \in inner THEN "inner" ELSE "outer"]

SomeSnapshots ==
  {Tree({<<>>, <<"srv">>, <<"etc">>}, {<<"srv", "app.db">>, <<"etc", "conf">>}, {}, {}),
   Tree({<<>>, <<"srv">>, <<"srv", "old">>}, {<<"srv", "old", "app.db">>}, {}, {}),
   Tree({<<>>, <<"srv">>, <<"etc">>}, {<<"etc", "app.db">>}, {<<"srv", "now">>},
        {<<"etc", "shared">>})}
=============================================================================
