-------------------------- MODULE TrustOnFirstUse --------------------------
(***************************************************************************)
(* What host-key verification promises, whatever threads, prompts and      *)
(* timers carry it out: a key enters the store of an endpoint only while   *)
(* the endpoint has none, it leaves only by being forgotten, and an        *)
(* attempt passes only with a key that its endpoint's store has held.      *)
(***************************************************************************)
CONSTANTS Sessions, Endpoints, Keys, EndpointOf, None

VARIABLES
  known,       \* the key stored for each endpoint
  everStored,  \* every key a store has held, with its endpoint
  presented,   \* the key each attempt was presented
  verdict      \* "pending", "pass" or "refuse", for each attempt

vars == <<known, everStored, presented, verdict>>

Init ==
  /\ known \in [Endpoints -> Keys \cup {None}]
  /\ everStored = {<<e, known[e]>> : e \in {x \in Endpoints : known[x] # None}}
  /\ presented = [s \in Sessions |-> None]
  /\ verdict = [s \in Sessions |-> "pending"]

\* The server of s presents its key, once.
Present(s, k) ==
  /\ presented[s] = None /\ verdict[s] = "pending"
  /\ presented' = [presented EXCEPT ![s] = k]
  /\ UNCHANGED <<known, everStored, verdict>>

\* The key presented to an attempt is stored for an endpoint that has none.
Learn(s) ==
  LET e == EndpointOf[s] IN
  /\ presented[s] # None /\ known[e] = None
  /\ known' = [known EXCEPT ![e] = presented[s]]
  /\ everStored' = everStored \cup {<<e, presented[s]>>}
  /\ UNCHANGED <<presented, verdict>>

Forget(e) ==
  /\ known[e] # None
  /\ known' = [known EXCEPT ![e] = None]
  /\ UNCHANGED <<everStored, presented, verdict>>

Pass(s) ==
  /\ verdict[s] = "pending" /\ <<EndpointOf[s], presented[s]>> \in everStored
  /\ verdict' = [verdict EXCEPT ![s] = "pass"]
  /\ UNCHANGED <<known, everStored, presented>>

Refuse(s) ==
  /\ verdict[s] = "pending"
  /\ verdict' = [verdict EXCEPT ![s] = "refuse"]
  /\ UNCHANGED <<known, everStored, presented>>

Next ==
  \/ \E s \in Sessions :
       (\E k \in Keys : Present(s, k)) \/ Learn(s) \/ Pass(s) \/ Refuse(s)
  \/ \E e \in Endpoints : Forget(e)

Spec == Init /\ [][Next]_vars
=============================================================================
