--------------------------- MODULE LocalProtocol ---------------------------
(***************************************************************************)
(* What the receiver of a local shell's events may rely on. It is less     *)
(* than SessionProtocol gives: output and the announcement of the shell    *)
(* come from threads of their own, in any order with its end.              *)
(***************************************************************************)
EXTENDS FiniteSets

VARIABLES
  told,  \* the kinds of events sent so far
  last   \* the kind of the last one

Events == {"Connected", "Output", "Exited", "Disconnected"}

\* Only output comes more than once, and nothing is final before the exit.
MayFollow(e) ==
  /\ e \in told => e = "Output"
  /\ e = "Exited" => "Disconnected" \notin told
  /\ e = "Disconnected" => "Exited" \in told

Init == told = {} /\ last = "none"

Tell == \E e \in Events : MayFollow(e) /\ told' = told \cup {e} /\ last' = e

Spec == Init /\ [][Tell]_<<told, last>>
=============================================================================
