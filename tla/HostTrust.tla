----------------------------- MODULE HostTrust -----------------------------
(***************************************************************************)
(* Host-key trust in oxide-ssh-core/src/session.rs: HostTrustCoordinator,  *)
(* the verifications that connection attempts run through it on a two-     *)
(* thread tokio runtime, the user interface thread that decides prompts,   *)
(* the known-hosts store behind it and the deadline of each attempt.       *)
(*                                                                         *)
(* Each step ends where the code releases the `pending` lock, or awaits.   *)
(* A prompt id is named by the attempt whose verification created it: a    *)
(* verification creates at most one, and a Uuid never comes back.          *)
(***************************************************************************)
CONSTANTS
  Sessions,     \* connection attempts (one per SshService::connect)
  Endpoints,    \* canonical host:port pairs
  Keys,         \* server keys (algorithm, public key and fingerprint together)
  EndpointOf,   \* the endpoint each attempt connects to
  UI,           \* the thread of the user interface
  None          \* no key, no prompt, no endpoint

Outcomes == {"Waiting", "Accepted", "Rejected", "Conflict"}
Results  == {"ok", "HostKeyRejected", "HostKeyChanged", "HostKeyStoreFailed", "Disconnected"}
Phases   == {"none", "checking", "registering", "prompting", "waiting", "done", "dropped"}

ASSUME ConstantsAssumption ==
  /\ EndpointOf \in [Sessions -> Endpoints]
  /\ UI \notin Sessions
  /\ None \notin Sessions \cup Endpoints \cup Keys \cup Results

Actors == Sessions \cup {UI}

VARIABLES
  known,      \* known_hosts.json: the key stored for each endpoint
  pending,    \* coordinator.pending: the prompt open for each endpoint
  senders,    \* PendingTrust.event_senders: the attempts sharing that prompt
  outcome,    \* the watch channel of each prompt
  awaiting,   \* coordinator.awaiting: is a decision awaited for the endpoint?
  clearing,   \* the endpoint whose awaiting flag an actor has yet to clear
  run,        \* run_session of each attempt
  deadline,   \* the timer run_session has armed: the 15 s or the 120 s one
  unseen,     \* attempts whose `awaiting` receiver holds an unseen change
  verify,     \* where the verification of each attempt stands
  presented,  \* the key the server presented to the attempt
  promptOf,   \* the prompt the verification subscribed to
  result,     \* what verify() returned
  cancelled,  \* attempts whose CancellationToken is cancelled
  everStored, \* history: every key the store has held, with its endpoint
  overtaken   \* history: did the open prompt of the endpoint open before the
              \* removal of an earlier one had cleared the awaiting flag?

storeVars  == <<known, everStored>>
promptVars == <<pending, senders, outcome, overtaken>>
flagVars   == <<awaiting, unseen>>
runVars    == <<run, deadline, cancelled>>
verifyVars == <<verify, presented, promptOf, result>>
vars == <<storeVars, promptVars, flagVars, clearing, runVars, verifyVars>>

\* Mutant: a conflict is not told from an acceptance.
ResultUnlessRejected(o) == IF o = "Rejected" THEN "HostKeyRejected" ELSE "ok"

\* What a verification returns when it reads a settled outcome.
ResultOf(o) == CASE o = "Accepted" -> "ok"
                 [] o = "Conflict" -> "HostKeyChanged"
                 [] OTHER          -> "HostKeyRejected"

\* Is the verification of s suspended on the prompt it subscribed to?
Suspended(s) == verify[s] \in {"prompting", "waiting"}

Init ==
  /\ known \in [Endpoints -> Keys \cup {None}]
  /\ pending = [e \in Endpoints |-> None]
  /\ senders = [e \in Endpoints |-> {}]
  /\ outcome = [p \in Sessions |-> "Waiting"]
  /\ awaiting = [e \in Endpoints |-> FALSE]
  /\ clearing = [a \in Actors |-> None]
  /\ run = [s \in Sessions |-> "idle"]
  /\ deadline = [s \in Sessions |-> "none"]
  /\ unseen = {}
  /\ verify = [s \in Sessions |-> "none"]
  /\ presented = [s \in Sessions |-> None]
  /\ promptOf = [s \in Sessions |-> None]
  /\ result = [s \in Sessions |-> None]
  /\ cancelled = {}
  /\ overtaken = [e \in Endpoints |-> FALSE]
  /\ everStored = {<<e, known[e]>> : e \in {x \in Endpoints : known[x] # None}}

-----------------------------------------------------------------------------
(* The coordinator's own operations.                                       *)

\* Mutant: only a change of the value notifies the receivers.
SetAwaitingIfChanged(e, value) ==
  /\ awaiting' = [awaiting EXCEPT ![e] = value]
  /\ unseen' = unseen \cup {s \in Sessions : /\ EndpointOf[s] = e /\ run[s] = "connecting"
                                           /\ awaiting[e] # value}

\* set_awaiting notifies every receiver, also when the value stays the same.
SetAwaiting(e, value) ==
  /\ awaiting' = [awaiting EXCEPT ![e] = value]
  /\ unseen' = unseen \cup {s \in Sessions : EndpointOf[s] = e /\ run[s] = "connecting"}

\* Mutant: the entry is looked up and not removed.
SettleAndKeepEntry(e, o) ==
  /\ outcome' = [outcome EXCEPT ![pending[e]] = o]
  /\ UNCHANGED <<pending, senders, overtaken>>

\* pending.remove and outcome.send_replace, under the lock.
Settle(e, o) ==
  /\ outcome' = [outcome EXCEPT ![pending[e]] = o]
  /\ pending' = [pending EXCEPT ![e] = None]
  /\ senders' = [senders EXCEPT ![e] = {}]
  /\ overtaken' = [overtaken EXCEPT ![e] = FALSE]

\* Mutant: the flag is never cleared after a removal.
SettleSilently(a, e, o) == Settle(e, o) /\ UNCHANGED clearing

\* Settle, then release the lock: the actor clears the awaiting flag later.
SettleAndUnlock(a, e, o) ==
  /\ Settle(e, o)
  /\ clearing' = [clearing EXCEPT ![a] = e]

\* Is p still the open prompt of its endpoint?
IsOpen(p) == p # None /\ pending[EndpointOf[p]] = p

\* Has a removal of a prompt of e still to clear the flag?
IsClearing(e) == \E a \in Actors : clearing[a] = e

\* set_awaiting(false), after the lock of `pending` was released.
ClearAwaiting(a) ==
  /\ clearing[a] # None
  /\ SetAwaiting(clearing[a], FALSE)
  /\ clearing' = [clearing EXCEPT ![a] = None]
  /\ UNCHANGED <<storeVars, promptVars, runVars, verifyVars>>

\* Mutant: a verification that gives up leaves its prompt as it is.
LeavePrompt(s, p) == UNCHANGED <<promptVars, clearing>>

\* decide(prompt_id, Reject) of a verification that gives up.
RejectPrompt(s, p) ==
  IF IsOpen(p)
  THEN SettleAndUnlock(s, EndpointOf[p], "Rejected")
  ELSE UNCHANGED <<promptVars, clearing>>

-----------------------------------------------------------------------------
(* run_session, up to the end of the handshake.                            *)

\* The attempt starts; its `awaiting` receiver takes the current value as seen.
Start(s) ==
  /\ run[s] = "idle"
  /\ run' = [run EXCEPT ![s] = "connecting"]
  /\ deadline' = [deadline EXCEPT ![s] = "connect"]
  /\ UNCHANGED <<storeVars, promptVars, flagVars, clearing, cancelled, verifyVars>>

\* The branch `awaiting.changed()`: the timer is armed again from now.
RearmDeadline(s) ==
  /\ run[s] = "connecting" /\ s \in unseen
  /\ unseen' = unseen \ {s}
  /\ deadline' = [deadline EXCEPT ![s] = IF awaiting[EndpointOf[s]] THEN "decision" ELSE "connect"]
  /\ UNCHANGED <<storeVars, promptVars, awaiting, clearing, run, cancelled, verifyVars>>

\* run_session returns while the verification may still be running.
RunEnds(s) ==
  /\ run[s] = "connecting"
  /\ run' = [run EXCEPT ![s] = "ended"]
  /\ deadline' = [deadline EXCEPT ![s] = "none"]
  /\ unseen' = unseen \ {s}
  /\ UNCHANGED <<storeVars, promptVars, awaiting, clearing, cancelled, verifyVars>>

\* The armed timer fires: ConnectTimeout.
Timeout(s) == deadline[s] # "none" /\ RunEnds(s)

\* connect() fails: no server, a broken transport, or the error of verify().
ConnectFails(s) == verify[s] \in {"none", "done"} /\ RunEnds(s)

\* The task is aborted when the two seconds after disconnect() are over.
AbortTask(s) == s \in cancelled /\ RunEnds(s)

\* The handshake is over with a trusted key: run_session goes on to authenticate.
HandshakeDone(s) ==
  /\ run[s] = "connecting" /\ result[s] = "ok"
  /\ run' = [run EXCEPT ![s] = "authenticating"]
  /\ deadline' = [deadline EXCEPT ![s] = "none"]
  /\ unseen' = unseen \ {s}
  /\ UNCHANGED <<storeVars, promptVars, awaiting, clearing, cancelled, verifyVars>>

\* SessionHandle::disconnect, from the tab or from the handle's Drop. After the
\* handshake it no longer touches the coordinator and is left out here.
Disconnect(s) ==
  /\ run[s] = "connecting" \/ Suspended(s)
  /\ s \notin cancelled
  /\ cancelled' = cancelled \cup {s}
  /\ UNCHANGED <<storeVars, promptVars, flagVars, clearing, run, deadline, verifyVars>>

-----------------------------------------------------------------------------
(* check_server_key and HostTrustCoordinator::verify.                      *)

Return(s, r) ==
  /\ verify' = [verify EXCEPT ![s] = "done"]
  /\ result' = [result EXCEPT ![s] = r]

\* The server presents key k; StateChanged(VerifyingHostKey) is sent.
PresentKey(s, k) ==
  /\ run[s] = "connecting" /\ verify[s] = "none"
  /\ verify' = [verify EXCEPT ![s] = "checking"]
  /\ presented' = [presented EXCEPT ![s] = k]
  /\ UNCHANGED <<storeVars, promptVars, flagVars, clearing, runVars, promptOf, result>>

\* store.known_host, outside the lock of `pending`. Reading the file may fail.
CheckStore(s) ==
  LET stored == known[EndpointOf[s]] IN
  /\ verify[s] = "checking"
  /\ \/ stored = presented[s] /\ Return(s, "ok")
     \/ stored \notin {None, presented[s]} /\ Return(s, "HostKeyChanged")
     \/ Return(s, "HostKeyStoreFailed")
     \/ stored = None /\ verify' = [verify EXCEPT ![s] = "registering"] /\ UNCHANGED result
  /\ UNCHANGED <<storeVars, promptVars, flagVars, clearing, runVars, presented, promptOf>>

\* No prompt is open for the endpoint: this verification opens one and owns it.
OpenPrompt(s) ==
  LET e == EndpointOf[s] IN
  /\ verify[s] = "registering" /\ pending[e] = None
  /\ pending' = [pending EXCEPT ![e] = s]
  /\ senders' = [senders EXCEPT ![e] = {s}]
  /\ promptOf' = [promptOf EXCEPT ![s] = s]
  /\ verify' = [verify EXCEPT ![s] = "prompting"]
  /\ SetAwaiting(e, TRUE)
  /\ overtaken' = [overtaken EXCEPT ![e] = IsClearing(e)]
  /\ UNCHANGED <<storeVars, outcome, clearing, runVars, presented, result>>

\* Mutant: prompts are shared by endpoint, whatever the key.
AnyPresentedKey(s, p) == TRUE

\* same_presented_key: only a verification of the same key may share a prompt.
SamePresentedKey(s, p) == presented[s] = presented[p]

\* A prompt for the same key is open: this verification waits for its outcome.
JoinPrompt(s) ==
  LET p == pending[EndpointOf[s]] IN
  /\ verify[s] = "registering" /\ p # None /\ SamePresentedKey(s, p)
  /\ senders' = [senders EXCEPT ![EndpointOf[s]] = @ \cup {s}]
  /\ promptOf' = [promptOf EXCEPT ![s] = p]
  /\ verify' = [verify EXCEPT ![s] = "waiting"]
  /\ UNCHANGED <<storeVars, pending, outcome, overtaken, flagVars, clearing, runVars, presented, result>>

\* A prompt for another key is open: both keys are refused, under the lock.
ConflictingKey(s) ==
  LET e == EndpointOf[s] IN
  /\ verify[s] = "registering" /\ pending[e] # None /\ ~SamePresentedKey(s, pending[e])
  /\ Settle(e, "Conflict")
  /\ SetAwaiting(e, FALSE)
  /\ Return(s, "HostKeyChanged")
  /\ UNCHANGED <<storeVars, clearing, runVars, presented, promptOf>>

\* The owner's UnknownHostKey event reaches the queue, or the receiver is gone.
SendPrompt(s) ==
  /\ verify[s] = "prompting"
  /\ \/ /\ verify' = [verify EXCEPT ![s] = "waiting"]
        /\ UNCHANGED <<promptVars, clearing, result>>
     \/ /\ s \in cancelled
        /\ RejectPrompt(s, s)
        /\ Return(s, "Disconnected")
  /\ UNCHANGED <<storeVars, flagVars, runVars, presented, promptOf>>

\* The wait loop reads a settled outcome.
ObserveOutcome(s) ==
  /\ verify[s] = "waiting" /\ outcome[promptOf[s]] # "Waiting"
  /\ Return(s, ResultOf(outcome[promptOf[s]]))
  /\ UNCHANGED <<storeVars, promptVars, flagVars, clearing, runVars, presented, promptOf>>

\* The wait loop sees the cancellation: owner or waiter, it rejects the prompt.
ObserveCancellation(s) ==
  /\ verify[s] = "waiting" /\ s \in cancelled
  /\ RejectPrompt(s, promptOf[s])
  /\ Return(s, "Disconnected")
  /\ UNCHANGED <<storeVars, flagVars, runVars, presented, promptOf>>

\* Mutant: the guard of a waiter does nothing.
AbandonOwnPromptOnly(s) ==
  IF IsOpen(promptOf[s]) /\ promptOf[s] = s
  THEN SettleAndUnlock(s, EndpointOf[s], "Rejected")
  ELSE UNCHANGED <<promptVars, clearing>>

\* Drop of PendingTrustGuard: the owner takes its prompt away, a waiter takes
\* itself off the prompt it shares.
AbandonPrompt(s) ==
  LET e == EndpointOf[s] IN
  \/ /\ IsOpen(promptOf[s]) /\ promptOf[s] = s
     /\ SettleAndUnlock(s, e, "Rejected")
  \/ /\ IsOpen(promptOf[s]) /\ promptOf[s] # s
     /\ senders' = [senders EXCEPT ![e] = @ \ {s}]
     /\ UNCHANGED <<pending, outcome, overtaken, clearing>>
  \/ /\ ~IsOpen(promptOf[s])
     /\ UNCHANGED <<promptVars, clearing>>

\* The verification future is dropped with its connect future.
DropVerification(s) ==
  /\ run[s] = "ended" /\ Suspended(s)
  /\ verify' = [verify EXCEPT ![s] = "dropped"]
  /\ AbandonPrompt(s)
  /\ UNCHANGED <<storeVars, flagVars, runVars, presented, promptOf, result>>

-----------------------------------------------------------------------------
(* The user: decide() of a prompt the owner's event has shown, and Trusted  *)
(* Hosts > delete. The interface is one thread, busy in decide() until the *)
(* flag is cleared.                                                        *)

\* Mutant: accept_host_key replaces whatever is stored.
StoreAnyway(p) == TRUE

\* accept_host_key stores the key of p unless another one is stored already.
MayStore(p) == known[EndpointOf[p]] \in {None, presented[p]}

\* AcceptAndStore. A write that reports an error may have replaced the file
\* already (the directory is synchronised after the rename).
Accept(p) ==
  LET e == EndpointOf[p] IN
  /\ clearing[UI] = None /\ IsOpen(p) /\ verify[p] # "prompting"
  /\ \/ /\ MayStore(p)
        /\ known' = [known EXCEPT ![e] = presented[p]]
        /\ SettleAndUnlock(UI, e, "Accepted")
     \/ /\ ~MayStore(p)
        /\ UNCHANGED known
        /\ SettleAndUnlock(UI, e, "Conflict")
     \/ /\ \/ UNCHANGED known
           \/ known[e] = None /\ known' = [known EXCEPT ![e] = presented[p]]
        /\ SettleAndUnlock(UI, e, "Rejected")
  /\ everStored' = everStored \cup {<<x, known'[x]>> : x \in {y \in Endpoints : known'[y] # None}}
  /\ UNCHANGED <<flagVars, runVars, verifyVars>>

Reject(p) ==
  /\ clearing[UI] = None /\ IsOpen(p) /\ verify[p] # "prompting"
  /\ SettleAndUnlock(UI, EndpointOf[p], "Rejected")
  /\ UNCHANGED <<storeVars, flagVars, runVars, verifyVars>>

\* delete_known_host.
Forget(e) ==
  /\ clearing[UI] = None /\ known[e] # None
  /\ known' = [known EXCEPT ![e] = None]
  /\ UNCHANGED <<everStored, promptVars, flagVars, clearing, runVars, verifyVars>>

-----------------------------------------------------------------------------
Next ==
  \/ \E s \in Sessions :
       \/ Start(s) \/ RearmDeadline(s) \/ Timeout(s) \/ ConnectFails(s) \/ AbortTask(s)
       \/ HandshakeDone(s) \/ Disconnect(s)
       \/ \E k \in Keys : PresentKey(s, k)
       \/ CheckStore(s) \/ OpenPrompt(s) \/ JoinPrompt(s) \/ ConflictingKey(s)
       \/ SendPrompt(s) \/ ObserveOutcome(s) \/ ObserveCancellation(s) \/ DropVerification(s)
       \/ Accept(s) \/ Reject(s)
  \/ \E a \in Actors : ClearAwaiting(a)
  \/ \E e \in Endpoints : Forget(e)

(* The runtime keeps polling its tasks and timers fire. Nothing is assumed *)
(* of the user, of the server or of the network.                           *)
Fairness ==
  /\ \A s \in Sessions :
       /\ WF_vars(Timeout(s)) /\ WF_vars(CheckStore(s))
       /\ WF_vars(OpenPrompt(s) \/ JoinPrompt(s) \/ ConflictingKey(s))
       /\ WF_vars(SendPrompt(s)) /\ WF_vars(ObserveOutcome(s))
       /\ WF_vars(ObserveCancellation(s)) /\ WF_vars(DropVerification(s))
  /\ \A a \in Actors : WF_vars(ClearAwaiting(a))

Spec == Init /\ [][Next]_vars
FairSpec == Spec /\ Fairness

-----------------------------------------------------------------------------
(* Properties.                                                             *)

TypeOK ==
  /\ known \in [Endpoints -> Keys \cup {None}]
  /\ pending \in [Endpoints -> Sessions \cup {None}]
  /\ senders \in [Endpoints -> SUBSET Sessions]
  /\ outcome \in [Sessions -> Outcomes]
  /\ awaiting \in [Endpoints -> BOOLEAN]
  /\ clearing \in [Actors -> Endpoints \cup {None}]
  /\ run \in [Sessions -> {"idle", "connecting", "authenticating", "ended"}]
  /\ deadline \in [Sessions -> {"none", "connect", "decision"}]
  /\ unseen \subseteq Sessions
  /\ verify \in [Sessions -> Phases]
  /\ presented \in [Sessions -> Keys \cup {None}]
  /\ promptOf \in [Sessions -> Sessions \cup {None}]
  /\ result \in [Sessions -> Results \cup {None}]
  /\ cancelled \subseteq Sessions
  /\ everStored \subseteq Endpoints \X Keys
  /\ overtaken \in [Endpoints -> BOOLEAN]

(* An open prompt is undecided and its owner's verification is alive: the  *)
(* guard leaves no ghost prompt that later attempts would join in silence. *)
PromptHasLiveOwner ==
  \A e \in Endpoints : LET p == pending[e] IN
    p # None => /\ EndpointOf[p] = e /\ outcome[p] = "Waiting"
                /\ promptOf[p] = p /\ Suspended(p)

(* A verification suspended on an undecided prompt is listed under the     *)
(* open prompt of its endpoint, so that a decision or a conflict reaches   *)
(* it; nothing else is listed.                                             *)
WaitersAreListed ==
  /\ \A s \in Sessions :
       Suspended(s) /\ outcome[promptOf[s]] = "Waiting"
         => /\ pending[EndpointOf[s]] = promptOf[s]
            /\ s \in senders[EndpointOf[s]]
  /\ \A e \in Endpoints : \A s \in senders[e] :
       Suspended(s) /\ pending[e] # None /\ promptOf[s] = pending[e]

(* One fingerprint is shown for all who share a prompt: they were all      *)
(* presented the key of its owner.                                         *)
SharersPresentTheShownKey ==
  \A s \in Sessions :
    promptOf[s] # None => /\ presented[s] = presented[promptOf[s]]
                          /\ EndpointOf[s] = EndpointOf[promptOf[s]]

(* A handshake goes on only with a key that has been in the store: verify  *)
(* never answers Ok for a key nobody accepted, and never before the        *)
(* acceptance is on disk.                                                  *)
OnlyStoredKeysPass ==
  \A s \in Sessions :
    result[s] = "ok" => <<EndpointOf[s], presented[s]>> \in everStored

(* A session passes a prompt only if the prompt was accepted, and nobody   *)
(* who reads an accepted prompt is refused for its key.                    *)
OneVerdictPerPrompt ==
  \A s \in Sessions :
    promptOf[s] # None =>
      /\ result[s] = "ok" => outcome[promptOf[s]] = "Accepted"
      /\ result[s] \in {"HostKeyRejected", "HostKeyChanged"}
           => outcome[promptOf[s]] \in {"Rejected", "Conflict"}

(* Once every removal has cleared the flag, an endpoint without a prompt   *)
(* does not await a decision: no attempt keeps the 120 s deadline for it.  *)
NoStuckAwaiting ==
  \A e \in Endpoints :
    pending[e] = None /\ ~IsClearing(e) => ~awaiting[e]

(* The owner of an open prompt gets the 120 s of a decision as soon as it  *)
(* has handled the change of the flag, with one exception: a prompt opened *)
(* while the removal of an earlier one had yet to clear the flag. Nothing  *)
(* raises the flag again after that removal, which happens outside of the  *)
(* lock: the prompt stays open with the flag down, and its owner is back   *)
(* on the 15 s timer of the connection.                                    *)
DecisionTimeUnlessOvertaken ==
  \A s \in Sessions : LET e == EndpointOf[s] IN
    pending[e] = s =>
      /\ ~overtaken[e] => awaiting[e] /\ ~IsClearing(e)
      /\ overtaken[e] /\ ~IsClearing(e) => ~awaiting[e]
      /\ run[s] = "connecting" /\ s \notin unseen
           => deadline[s] = IF awaiting[e] THEN "decision" ELSE "connect"

(* An open prompt serves those who wait for it: its owner is alive, has    *)
(* the time to decide unless it was overtaken by an earlier removal, and a *)
(* decision reaches every waiter.                                          *)
OpenPromptsAreServed ==
  PromptHasLiveOwner /\ DecisionTimeUnlessOvertaken /\ WaitersAreListed

(* A prompt is settled once: its outcome never changes afterwards.         *)
KeepsOutcomes == \A p \in Sessions : outcome[p] # "Waiting" => outcome'[p] = outcome[p]
SettledOnce == [][KeepsOutcomes]_vars

(* Every verification that suspends comes to an end, also when the user    *)
(* never answers: by an outcome, a cancellation or a timer. And the prompt *)
(* it waited on gets settled, so that the endpoint is free again.          *)
NoVerificationHangs ==
  \A s \in Sessions :
    Suspended(s) ~> /\ verify[s] \in {"done", "dropped"}
                    /\ promptOf[s] # None => outcome[promptOf[s]] # "Waiting"

-----------------------------------------------------------------------------
(* The inductive invariant: the safety invariants above with the facts     *)
(* that carry them from one step to the next.                              *)

\* How the phases of an attempt's two tasks and its variables go together.
PhasesAgree ==
  \A s \in Sessions :
    /\ run[s] = "idle" => verify[s] = "none"
    /\ presented[s] = None <=> verify[s] = "none"
    /\ verify[s] \in {"none", "checking", "registering"} => promptOf[s] = None
    /\ Suspended(s) => promptOf[s] # None
    /\ verify[s] = "prompting" => promptOf[s] = s
    /\ result[s] = None <=> verify[s] # "done"
    /\ clearing[s] # None => verify[s] \in {"done", "dropped"}

\* A prompt in use was created by its owner, and only then can be settled.
PromptsHaveOwners ==
  \A s \in Sessions :
    /\ promptOf[s] # None => promptOf[promptOf[s]] = promptOf[s]
    /\ outcome[s] # "Waiting" => promptOf[s] = s

\* Whatever is stored, or was accepted, is in the history of the store.
HistoryIsComplete ==
  /\ \A e \in Endpoints : known[e] # None => <<e, known[e]>> \in everStored
  /\ \A p \in Sessions :
       outcome[p] = "Accepted" => <<EndpointOf[p], presented[p]>> \in everStored

(* All of it holds in every reachable state, and every step preserves it.  *)
IInv ==
  /\ TypeOK /\ PhasesAgree /\ PromptsHaveOwners /\ HistoryIsComplete
  /\ PromptHasLiveOwner /\ WaitersAreListed /\ SharersPresentTheShownKey
  /\ OnlyStoredKeysPass /\ OneVerdictPerPrompt
  /\ NoStuckAwaiting /\ DecisionTimeUnlessOvertaken

-----------------------------------------------------------------------------
(* The coordinator implements trust on first use. A verification without a *)
(* result is still pending there, a dropped one included.                  *)
VerdictOf(r) == IF r = None THEN "pending" ELSE IF r = "ok" THEN "pass" ELSE "refuse"
verdict == [s \in Sessions |-> VerdictOf(result[s])]

TOFU == INSTANCE TrustOnFirstUse

ImplementsTrustOnFirstUse == TOFU!Spec
=============================================================================
