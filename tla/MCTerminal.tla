----------------------------- MODULE MCTerminal -----------------------------
(* Instances of Terminal for TLC, and the pastes up to a length of five.   *)
EXTENDS Terminal, SequencesExt, TLC

MCSymmetry ==
  {p @@ q @@ r : p \in Permutations(Tabs), q \in Permutations(Sessions), r \in Permutations(Sizes)}

\* What the sessions send together: two events, or three of one session while
\* nothing is typed and the window keeps its size.
Total == UNION {{s} \X DOMAIN sent[s] : s \in Sessions}
FewEvents ==
  \/ Cardinality(Total) <= 2
  \/ /\ \A s \in Sessions : Len(sent[s]) \in {0, 3} /\ ToSet(input[s]) \subseteq {s}
     /\ ~composing /\ \A t \in Tabs : size[t] = room

\* Every text of at most five characters is pasted as the reference says.
ASSUME PastesAreRight ==
  \A n \in 0 .. 5 : \A text \in [1 .. n -> Characters], bracketed \in BOOLEAN :
    IsPasteOf(Paste(text, bracketed), text, bracketed)
=============================================================================
