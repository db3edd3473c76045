----------------------------- MODULE MCEditing -----------------------------
(* Instances of Editing for TLC: two tags, one profile, and a file with a    *)
(* reference to a tag that is gone.                                         *)
EXTENDS Editing, TLC
CONSTANTS t1, t2, p1, x, X, y, blank

\* X is x in another case.
MCFolded == [n \in Names |-> IF n = X THEN x ELSE n]

Named(n) == [name |-> n, color |-> None]
FileWith(tags, profile) ==
  [tags |-> [t \in Tags |-> IF t \in DOMAIN tags THEN tags[t] ELSE None],
   profiles |-> [p \in Profiles |-> profile], settings |-> DefaultSettings]
Tagged(tags) == [tags |-> tags, sound |-> TRUE]

\* No file, one that cannot be read, one whose profile refers to a tag that was
\* removed.
Dangling(t, u) == FileWith(t :> Named(x), Tagged({t, u}))
MCFiles == {Missing, Damaged, Dangling(t1, t2), Dangling(t2, t1)}

\* The filter on one tag at a time, and the one on profiles without tags only
\* while there is no dialog.
FewFilters ==
  /\ Cardinality(filter.tags) <= 1
  /\ filter.untagged => editor = None /\ manager = None /\ confirm = None /\ saving = None

MCSymmetry == {s @@ r : s \in Permutations(Tags), r \in Permutations(EditorIds)}
=============================================================================
