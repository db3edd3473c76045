------------------------------- MODULE MCTabs -------------------------------
(* Instances of Tabs for TLC. *)
EXTENDS Tabs, TLC
CONSTANTS t1, t2, s1, s2, s3, p1, p2, a, b

MixedAuths  == a :> "savedPassword" @@ b :> "key"
SavedKey    == a :> "savedKey"

\* The stages that look alike on a tab are told as one, and none is skipped. A
\* session ends once; one that its tab has replaced may tell another ending.
Replaced(s) == home[s] # None /\ session[home[s]] \notin {s, None}
OneByOne ==
  \A s \in Sessions :
    /\ told[s] \cap {"Connecting", "OpeningShell"} = {}
    /\ "UnknownHostKey" \in told[s] => "VerifyingHostKey" \in told[s]
    /\ "Authenticating" \in told[s] => "VerifyingHostKey" \in told[s]
    /\ "Connected" \in told[s] /\ kind[home[s]] # Local => "Authenticating" \in told[s]
    /\ "Disconnected" \in told[s] => s \in cancelled
    /\ Cardinality(told[s] \cap Endings) <= IF Replaced(s) THEN 2 ELSE 1

\* At most two requests wait, and the second does not ask to close.
FewRequests == Len(modals) <= 2 /\ (Len(modals) = 2 => modals[2].kind # "ConfirmClose")
\* The tab with the saved password is not asked to close, the others one at a
\* time and not while a prompt is shared.
FewClosings ==
  /\ \A t \in TabIds :
       /\ timers[t] > 0 \/ Request("ConfirmClose", t, None) \in ToSet(modals) => kind[t] # a
       /\ timers[t] <= 1
  /\ (\E t \in TabIds : timers[t] > 0) => Cardinality({s \in Sessions : prompt[s] # None}) <= 1
\* Each kind of tab is opened once, the one with the saved password first.
OneTabOfEachKind ==
  /\ \A t, u \in TabIds : t # u /\ kind[t] # None => kind[t] # kind[u]
  /\ \A t \in TabIds : kind[t] \in {None, a} \/ \E u \in TabIds : kind[u] = a

\* A dialog whose request is gone is drawn anew at once, unless it asks to close
\* and another request waits.
Stale == /\ shown # None /\ shown \notin ToSet(modals)
         /\ shown.kind = "ConfirmClose" => modals = <<>>
\* What the session of a removed tab still tells is not followed up. A tab is
\* made active by the user to retry its connection.
Focus ==
  /\ Stale => shown' # shown
  /\ \A s \in Sessions : told'[s] # told[s] => Open(home[s])
  /\ order' = order /\ active' # active => state[active'] = "Disconnected"

\* The first tab is used first; sessions are told apart by their tabs.
InOrder == state[t1] = "unused" => state[t2] = "unused"
Symmetry == Permutations(Sessions)
=============================================================================
