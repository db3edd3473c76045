-------------------------- MODULE SessionProtocol --------------------------
(***************************************************************************)
(* What the receiver of an SSH session's events may rely on: the order in  *)
(* which the SessionEvents of oxide-ssh-core/src/session.rs are sent. Tabs *)
(* are built on it; LocalProtocol says what is left of it for a local      *)
(* shell.                                                                  *)
(***************************************************************************)
EXTENDS Naturals

VARIABLES
  told,  \* the kinds of events sent so far
  last   \* the kind of the last one

\* The stages of a session, each with the events that belong to it.
Rank == [Connecting |-> 1, VerifyingHostKey |-> 2,
         UnknownHostKey |-> 3, ChangedHostKey |-> 3,
         Authenticating |-> 4, OpeningShell |-> 5, Connected |-> 6, Output |-> 7,
         Exited |-> 8, Error |-> 8, Disconnected |-> 9]

Events == DOMAIN Rank

\* No stage comes back, and only output comes more than once. Output and an
\* exit need a shell; an error is told instead of a shell, an exit after it;
\* a session whose host key has changed does not go on to authenticate.
MayFollow(e) ==
  /\ e \in told => e = "Output"
  /\ e \in {"Output", "Exited"} => "Connected" \in told
  /\ e = "Error" => "Connected" \notin told
  /\ e \in {"Authenticating", "OpeningShell", "Connected"} => "ChangedHostKey" \notin told
  /\ \A f \in told : Rank[f] <= Rank[e]

Init == told = {} /\ last = "none"

Tell == \E e \in Events : MayFollow(e) /\ told' = told \cup {e} /\ last' = e

Spec == Init /\ [][Tell]_<<told, last>>
=============================================================================
