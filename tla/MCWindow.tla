------------------------------ MODULE MCWindow ------------------------------
(* Instances of Window for TLC.                                             *)
EXTENDS Window, TLC, FiniteSets
MCSymmetry ==
  {s @@ r @@ q : s \in Permutations(Tabs), r \in Permutations(EditorIds), q \in Permutations(Things)}

Used    == {t \in Tabs : tab[t] # "none"}
Own     == Cardinality({p \in {editor, confirm} : p # None}) + Cardinality({b \in {manager} : b})
Secrets == {i \in DOMAIN modals : modals[i].kind = "Secret"}

\* At most two dialogs are asked for at once. Two that tabs ask for are prompts
\* for secrets, or one of them is. With an editor, a question or the manager there
\* is one tab, or one such dialog and prompts for secrets.
FewDialogs ==
  /\ Own + Len(modals) <= 2
  /\ Len(modals) = 2 => Secrets # {}
  /\ Own > 0 /\ Cardinality(Used) > 1 => Own = 1 /\ Secrets = DOMAIN modals
\* At most one tab is connected, one has ended, one waits for its session to end.
FewTabs ==
  /\ Cardinality(closing) <= 1 /\ (closing # {} => Own = 0 /\ Len(modals) <= 1)
  /\ \A s \in {"connected", "ended"} : Cardinality({t \in Tabs : tab[t] = s}) <= 1
\* The keyboard is moved within a prompt for a secret.
FewMoves == focus = "later" => payload # None /\ payload.kind = "Secret"
=============================================================================
