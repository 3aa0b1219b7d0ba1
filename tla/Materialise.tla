----------------------------- MODULE Materialise -----------------------------
(***************************************************************************)
(* The inputs of a recipe: recipe.Resolve decides where each one lies in   *)
(* the backup and where it will lie in the workspace, the source fetches   *)
(* them, and the runner puts them in place one after the other.            *)
(*                                                                         *)
(* A path is a sequence of names.  A tree is a function from the paths in  *)
(* it, relative to its root, to what is there; a tree without paths is no  *)
(* tree.  Links are told apart by whether their target is outside the      *)
(* workspace (Sanitise's test).  No input is itself a link, and nothing    *)
(* else writes to the trees while the runner works on them.                *)
(***************************************************************************)
EXTENDS Naturals, Sequences, Selections

CONSTANTS
  InputOrder,   \* the names of the inputs, in the order of recipe.yaml
  Recipes,      \* what recipe.yaml may say: default paths, within, required
  Paths,        \* the paths that --input may name
  Snapshots     \* trees that a backup may hold

Names == {InputOrder[i] : i \in 1..Len(InputOrder)}
Nodes == {"dir", "file", "inner", "outer", "stub"}
Links == {"inner", "outer"}
Nowhere == "nowhere"   \* within: not given
Default == <<>>        \* no --input for it
Invalid == <<"..">>    \* a path that validBackupPath refuses

IsTree(t) ==
  /\ t \in [DOMAIN t -> Nodes]
  /\ DOMAIN t # {} => <<>> \in DOMAIN t
  /\ \A p \in DOMAIN t : p # <<>> => SubSeq(p, 1, Len(p) - 1) \in DOMAIN t

\* No two inputs have one name, the root of the backup is no input, and a
\* snapshot is a tree.
ASSUME ConstantsAssumption ==
  /\ InputOrder \in Seq(STRING)
  /\ \A i, j \in 1..Len(InputOrder) : InputOrder[i] = InputOrder[j] => i = j
  /\ Paths \subseteq Seq(STRING) \ {Default, Invalid}
  /\ \A r \in Recipes : \A n \in Names : r.default[n] \in Seq(STRING) \ {Default, Invalid}
  /\ \A t \in Snapshots : /\ IsTree(t) /\ t[<<>>] = "dir"
                          /\ \A p \in DOMAIN t : p \in Seq(STRING) /\ t[p] # "stub"

VARIABLES
  recipe,     \* what recipe.yaml says
  InputPaths, \* --input, for each input
  kind,       \* --source
  snapshot,   \* observer: what the backup held
  pc,         \* the next step
  inputs,     \* Resolved.Inputs: the names, in the order they are worked on
  backup,     \* BackupPath of each
  rel,        \* LocalPath of each `within` input, relative to its parent's
  next,       \* the input at hand
  tree,       \* the tree that Locate points into
  place,      \* what is at <workspace>/inputs/<name>
  unseen,     \* observer: inputs that were there when os.Stat failed on them
  error       \* why the stage failed

given == <<recipe, InputPaths, kind, snapshot>>
resolved == <<inputs, backup, rel>>
vars == <<given, pc, resolved, next, tree, place, unseen, error>>

NoTree == <<>>

Init ==
  /\ recipe \in Recipes
  /\ InputPaths \in [Names -> Paths \cup {Default, Invalid}]
  /\ kind \in {"restic", "dir"} /\ snapshot \in Snapshots
  /\ pc = "resolve"
  /\ inputs = <<>> /\ backup = [n \in Names |-> <<>>] /\ rel = [n \in Names |-> <<>>]
  /\ next = 1 /\ place = [n \in Names |-> NoTree] /\ unseen = {} /\ error = "none"
  /\ tree = IF kind = "dir" THEN snapshot ELSE NoTree

-----------------------------------------------------------------------------
(* Paths and trees.                                                        *)

Inside(p, q) == Len(q) <= Len(p) /\ SubSeq(p, 1, Len(q)) = q

RelativeTo(parent, child) == SubSeq(child, Len(parent) + 1, Len(child))

Subtree(t, p) ==
  [r \in {RelativeTo(p, q) : q \in {s \in DOMAIN t : Inside(s, p)}} |-> t[p \o r]]

Without(t, p) == [q \in {s \in DOMAIN t : ~Inside(s, p)} |-> t[q]]

\* Mutant of CopyTree: directories are not made.
CopyTree_FilesOnly(t) == [r \in {q \in DOMAIN t : t[q] # "dir"} |-> t[r]]

\* Every link becomes an empty file.
CopyTree(t) == [r \in DOMAIN t |-> IF t[r] \in Links THEN "stub" ELSE t[r]]

\* Mutant of Sanitised: every link is taken to stay inside.
Sanitised_None(t) == t

\* Only a link that leaves the workspace does.
Sanitised(t) == [r \in DOMAIN t |-> IF t[r] = "outer" THEN "stub" ELSE t[r]]

-----------------------------------------------------------------------------
(* recipe.Resolve.                                                         *)

Within(n) == recipe.within[n] # Nowhere
Alone == {n \in Names : ~Within(n)}

\* Mutant of Passes: one pass, in the order of the recipe.
Passes_One == InputOrder

\* What stands on its own comes first, then what lies inside it.
Passes == Selected(InputOrder, Alone) \o Selected(InputOrder, Names \ Alone)

Overridden(n) == InputPaths[n] # Default

\* resolveOne.
PathOf(n) == IF Overridden(n) THEN InputPaths[n] ELSE recipe.default[n]

\* Mutant of Anchor: always the recipe's own layout.
Anchor_Default(n) == recipe.default[recipe.within[n]]

\* What a nested input's place in its parent is relative to: the parent of
\* this run when the operator named the input, the recipe's otherwise.
Anchor(n) ==
  IF Overridden(n) THEN PathOf(recipe.within[n]) ELSE recipe.default[recipe.within[n]]

\* Mutant of BackupPath: only what the operator names moves.
BackupPath_Fixed(n) == PathOf(n)

BackupPath(n) ==
  IF Within(n) /\ ~Overridden(n)
    THEN PathOf(recipe.within[n]) \o RelativeTo(Anchor(n), PathOf(n))
    ELSE PathOf(n)

\* Paths are valid, a nested input's parent stands on its own and holds it,
\* and no two independent inputs have one path.
Resolvable ==
  /\ \A n \in Names : PathOf(n) # Invalid
  /\ \A n \in Names : Within(n) => recipe.within[n] \in Alone /\ Inside(PathOf(n), Anchor(n))
  /\ \A m, n \in Alone : m # n => PathOf(m) # PathOf(n)

Fails(why) == pc' = "failed" /\ error' = why

Resolve ==
  /\ pc = "resolve"
  /\ \/ /\ Resolvable
        /\ inputs' = Passes
        /\ backup' = [n \in Names |-> BackupPath(n)]
        /\ rel' = [n \in Names |-> IF Within(n) THEN RelativeTo(Anchor(n), PathOf(n)) ELSE <<>>]
        /\ pc' = "fetch" /\ UNCHANGED error
     \/ ~Resolvable /\ Fails("recipe") /\ UNCHANGED resolved
  /\ UNCHANGED <<given, next, tree, place, unseen>>

-----------------------------------------------------------------------------
(* materialise.                                                            *)

\* restic restore --include: the requested paths and the directories above
\* them, as far as the snapshot has them.
Included ==
  [q \in {s \in DOMAIN snapshot :
            \E n \in Alone : Inside(s, backup[n])
                             \/ (Inside(backup[n], s) /\ backup[n] \in DOMAIN snapshot)}
     |-> snapshot[q]]

\* The tree of a directory source stays where it is.
Fetch ==
  /\ pc = "fetch"
  /\ \/ tree' = (IF kind = "dir" THEN tree ELSE Included) /\ pc' = "input" /\ UNCHANGED error
     \/ Fails("source") /\ UNCHANGED tree
  /\ UNCHANGED <<given, resolved, next, place, unseen>>

Name == inputs[next]
Parent == recipe.within[Name]
At(step) == pc = step /\ next <= Len(inputs)
GoOn == next' = next + 1 /\ pc' = "input" /\ UNCHANGED error

\* os.Stat on a path: it fails when nothing is there, and for whatever else can
\* keep it from looking (a directory above that it may not enter, a disk that
\* errs); its error is not looked at.
StatSucceeds(there) == there /\ UNCHANGED unseen
StatFails(there) == unseen' = IF there THEN unseen \cup {Name} ELSE unseen

\* A nested input came with its parent, or did not.
LookInside ==
  /\ At("input") /\ Within(Name)
  /\ LET there == rel[Name] \in DOMAIN place[Parent]
     IN  \/ StatSucceeds(there) /\ GoOn
         \/ StatFails(there) /\ ~recipe.required[Name] /\ GoOn
         \/ StatFails(there) /\ recipe.required[Name] /\ Fails("not inside") /\ UNCHANGED next
  /\ UNCHANGED <<given, resolved, tree, place>>

\* Mutant of SkipMissing: nothing is required.
SkipMissing_All ==
  /\ At("input") /\ ~Within(Name) /\ StatFails(backup[Name] \in DOMAIN tree)
  /\ GoOn
  /\ UNCHANGED <<given, resolved, tree, place>>

\* os.Stat fails on the input's path.
SkipMissing ==
  /\ At("input") /\ ~Within(Name) /\ StatFails(backup[Name] \in DOMAIN tree)
  /\ \/ ~recipe.required[Name] /\ GoOn
     \/ recipe.required[Name] /\ Fails("missing") /\ UNCHANGED next
  /\ UNCHANGED <<given, resolved, tree, place>>

\* Mutant of Disposable: the operator's tree is treated like restic's.
Disposable_Always == TRUE

\* Fetched.Disposable.
Disposable == kind = "restic"

Put(t) == place' = [place EXCEPT ![Name] = t] /\ pc' = "prepare" /\ UNCHANGED error

Move ==
  /\ Disposable
  /\ Put(Subtree(tree, backup[Name]))
  /\ tree' = Without(tree, backup[Name])

\* Also when a move fails.
Copy == Put(CopyTree(Subtree(tree, backup[Name]))) /\ UNCHANGED tree

\* MkdirAll and CopyTree can fail; what they leave is looked at by nobody.
Take ==
  /\ At("input") /\ ~Within(Name) /\ StatSucceeds(backup[Name] \in DOMAIN tree)
  /\ \/ Move
     \/ Copy
     \/ Fails("files") /\ UNCHANGED <<place, tree>>
  /\ UNCHANGED <<given, resolved, next>>

\* Sanitise, Relax and Measure, of which each can fail.
Prepare ==
  /\ At("prepare")
  /\ \/ GoOn /\ place' = [place EXCEPT ![Name] = Sanitised(@)]
     \/ Fails("files") /\ UNCHANGED <<next, place>>
  /\ UNCHANGED <<given, resolved, tree, unseen>>

\* After the last input: what is left of a disposable tree goes.
Discard ==
  /\ pc = "input" /\ next > Len(inputs)
  /\ \/ tree' = (IF Disposable THEN NoTree ELSE tree) /\ pc' = "done" /\ UNCHANGED error
     \/ Disposable /\ Fails("files") /\ UNCHANGED tree
  /\ UNCHANGED <<given, resolved, next, place, unseen>>

\* The stage is over.
Over == pc \in {"done", "failed"} /\ UNCHANGED vars

Next == Resolve \/ Fetch \/ LookInside \/ SkipMissing \/ Take \/ Prepare \/ Discard \/ Over

Spec == Init /\ [][Next]_vars

-----------------------------------------------------------------------------
(* What must hold.                                                         *)

\* The variables keep to their sets, and the trees are trees.
TypeOK ==
  /\ recipe \in Recipes /\ kind \in {"restic", "dir"} /\ snapshot \in Snapshots
  /\ InputPaths \in [Names -> Paths \cup {Default, Invalid}]
  /\ pc \in {"resolve", "fetch", "input", "prepare", "done", "failed"}
  /\ inputs \in Seq(Names) /\ next \in 1..(Len(InputOrder) + 1)
  /\ DOMAIN backup = Names /\ DOMAIN rel = Names
  /\ unseen \subseteq Names
  /\ IsTree(tree) /\ DOMAIN place = Names /\ \A n \in Names : IsTree(place[n])
  /\ error \in {"none", "recipe", "source", "not inside", "missing", "files"}

Overlap(p, q) == Inside(p, q) \/ Inside(q, p)

\* Of two independent inputs of which one lies inside the other, restic's tree
\* can give only one whole.
Owner(n) == IF Within(n) THEN recipe.within[n] ELSE n
Apart(n) ==
  kind = "dir" \/ \A m \in Alone \ {Owner(n)} : ~Overlap(backup[m], backup[Owner(n)])

\* What is at the place of an input.
Materialised(n) == IF Within(n) THEN Subtree(place[recipe.within[n]], rel[n]) ELSE place[n]

\* The tree that --source dir names belongs to the operator: whatever happens,
\* and however the stage ends, it is what it was.
OperatorsTreeIsLeftAlone == kind = "dir" => tree = snapshot

\* When the stage is through, what the application will find at an input's
\* place is what the backup has at the path that this run says it has: same
\* files, also for an input inside another, with either or both overridden.
\* An optional input that os.Stat could not look at is passed over though the
\* backup has it; nothing else is.  No application starts without an input it
\* requires.
InputsAreTheBackups ==
  pc = "done" => \A n \in Names :
    LET got == Materialised(n)
        had == Subtree(snapshot, backup[n])
    IN  /\ Apart(n) /\ Owner(n) \notin unseen =>
             /\ DOMAIN got = DOMAIN had
             /\ \A r \in DOMAIN had : had[r] \in Links \/ got[r] = had[r]
        /\ recipe.required[n] => got # NoTree

\* An input that the operator named is looked for where the operator said, and
\* an input inside another moves with it.
PathsAreTheOperators ==
  pc \notin {"resolve", "failed"} => \A n \in Names :
    /\ Overridden(n) => backup[n] = InputPaths[n]
    /\ Within(n) => backup[n] = backup[recipe.within[n]] \o rel[n]

\* Nobody failed to look at the input, or at the one it is in.
Seen(n) == unseen \cap {n, Owner(n)} = {}

\* An input is refused as missing only when the backup does not have it, in
\* whatever order the recipe lists its inputs, or when os.Stat could not look
\* at a path that is there.
RefusalIsTrue ==
  error \in {"missing", "not inside"} /\ Apart(Name) /\ Seen(Name) =>
    backup[Name] \notin DOMAIN snapshot

\* No link in a finished place leaves the workspace, whichever way the input
\* came there.
NoLinkLeaves ==
  pc = "done" => \A n \in Names : \A r \in DOMAIN place[n] : place[n][r] # "outer"

-----------------------------------------------------------------------------
(* What the repository says of the stage and the stage does not do.        *)

\* runner.go, the error of a missing input: "no matching files found for %s in
\* the backup".
MissingIsMissing == error = "missing" /\ Seen(Name) => backup[Name] \notin DOMAIN snapshot
=============================================================================
