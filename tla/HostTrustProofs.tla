-------------------------- MODULE HostTrustProofs --------------------------
(***************************************************************************)
(* Proofs about HostTrust for every set of attempts, endpoints and keys:   *)
(* type correctness, the inductive invariant with the safety invariants it *)
(* contains, and the refinement of TrustOnFirstUse.                        *)
(***************************************************************************)
EXTENDS HostTrust, TLAPS

USE ConstantsAssumption DEF Actors

\* The types of the variables that settling a prompt changes.
PromptTypes ==
  /\ pending \in [Endpoints -> Sessions \cup {None}]
  /\ senders \in [Endpoints -> SUBSET Sessions]
  /\ outcome \in [Sessions -> Outcomes]
  /\ overtaken \in [Endpoints -> BOOLEAN]
  /\ clearing \in [Actors -> Endpoints \cup {None}]

\* Settling a prompt, by whoever gives up on it, keeps those types.
LEMMA SettleKeepsTypes ==
  ASSUME PromptTypes, NEW a \in Actors, NEW e \in Endpoints, NEW o \in Outcomes,
         SettleAndUnlock(a, e, o)
  PROVE  PromptTypes'
BY DEF PromptTypes, SettleAndUnlock, Settle

\* So does rejecting a prompt that may have been settled already.
LEMMA RejectKeepsTypes ==
  ASSUME PromptTypes, NEW s \in Sessions, RejectPrompt(s, promptOf[s]) \/ RejectPrompt(s, s),
         promptOf[s] \in Sessions \cup {None}
  PROVE  PromptTypes'
<1>1. CASE UNCHANGED <<promptVars, clearing>>
  BY <1>1 DEF PromptTypes, promptVars
<1>2. CASE \E q \in Sessions : SettleAndUnlock(s, EndpointOf[q], "Rejected")
  BY <1>2, SettleKeepsTypes DEF Outcomes
<1>3. QED
  BY <1>1, <1>2 DEF RejectPrompt, IsOpen

\* One step of any action keeps the type of every variable.
LEMMA TypeStep == TypeOK /\ [Next]_vars => TypeOK'
<1> USE DEF TypeOK, Outcomes, Results, Phases
<1> SUFFICES ASSUME TypeOK, [Next]_vars PROVE TypeOK'
  OBVIOUS
<1> USE DEF storeVars, promptVars, flagVars, runVars, verifyVars, SetAwaiting, Return
<1>1. ASSUME NEW s \in Sessions, Start(s) PROVE TypeOK'
  BY <1>1 DEF Start
<1>2. ASSUME NEW s \in Sessions, RearmDeadline(s) PROVE TypeOK'
  BY <1>2 DEF RearmDeadline
<1>3. ASSUME NEW s \in Sessions, RunEnds(s) PROVE TypeOK'
  BY <1>3 DEF RunEnds
<1>4. ASSUME NEW s \in Sessions, HandshakeDone(s) PROVE TypeOK'
  BY <1>4 DEF HandshakeDone
<1>5. ASSUME NEW s \in Sessions, Disconnect(s) PROVE TypeOK'
  BY <1>5 DEF Disconnect
<1>6. ASSUME NEW s \in Sessions, NEW k \in Keys, PresentKey(s, k) PROVE TypeOK'
  BY <1>6 DEF PresentKey
<1>7. ASSUME NEW s \in Sessions, CheckStore(s) PROVE TypeOK'
  BY <1>7 DEF CheckStore
<1>8. ASSUME NEW s \in Sessions, OpenPrompt(s) PROVE TypeOK'
  BY <1>8 DEF OpenPrompt, IsClearing
<1>9. ASSUME NEW s \in Sessions, JoinPrompt(s) PROVE TypeOK'
  BY <1>9 DEF JoinPrompt
<1>10. ASSUME NEW s \in Sessions, ConflictingKey(s) PROVE TypeOK'
  BY <1>10 DEF ConflictingKey, Settle
<1>11. ASSUME NEW s \in Sessions, SendPrompt(s) PROVE TypeOK'
  <2>1. PromptTypes'
    BY <1>11, RejectKeepsTypes DEF SendPrompt, PromptTypes
  <2>2. verify' \in [Sessions -> Phases] /\ result' \in [Sessions -> Results \cup {None}]
    BY <1>11 DEF SendPrompt
  <2>3. QED
    BY <1>11, <2>1, <2>2 DEF SendPrompt, PromptTypes
<1>12. ASSUME NEW s \in Sessions, ObserveOutcome(s) PROVE TypeOK'
  BY <1>12 DEF ObserveOutcome, ResultOf
<1>13. ASSUME NEW s \in Sessions, ObserveCancellation(s) PROVE TypeOK'
  <2>1. PromptTypes'
    BY <1>13, RejectKeepsTypes DEF ObserveCancellation, PromptTypes
  <2>2. verify' \in [Sessions -> Phases] /\ result' \in [Sessions -> Results \cup {None}]
    BY <1>13 DEF ObserveCancellation
  <2>3. QED
    BY <1>13, <2>1, <2>2 DEF ObserveCancellation, PromptTypes
<1>14. ASSUME NEW s \in Sessions, DropVerification(s) PROVE TypeOK'
  <2>1. CASE SettleAndUnlock(s, EndpointOf[s], "Rejected")
    <3>1. PromptTypes'
      BY <2>1, SettleKeepsTypes DEF PromptTypes
    <3>2. QED
      BY <1>14, <3>1 DEF DropVerification, AbandonPrompt, PromptTypes
  <2>2. CASE /\ senders' = [senders EXCEPT ![EndpointOf[s]] = @ \ {s}]
             /\ UNCHANGED <<pending, outcome, overtaken, clearing>>
    BY <1>14, <2>2 DEF DropVerification, AbandonPrompt
  <2>3. CASE UNCHANGED <<promptVars, clearing>>
    BY <1>14, <2>3 DEF DropVerification, AbandonPrompt
  <2>4. QED
    BY <1>14, <2>1, <2>2, <2>3 DEF DropVerification, AbandonPrompt
<1>15. ASSUME NEW p \in Sessions, Accept(p) PROVE TypeOK'
  <2>1. \E o \in Outcomes : SettleAndUnlock(UI, EndpointOf[p], o)
    BY <1>15 DEF Accept, MayStore
  <2>2. PromptTypes'
    BY <2>1, SettleKeepsTypes DEF PromptTypes
  <2>3. known' \in [Endpoints -> Keys \cup {None}]
    BY <1>15 DEF Accept, MayStore
  <2>4. QED
    BY <1>15, <2>2, <2>3 DEF Accept, MayStore, PromptTypes
<1>16. ASSUME NEW p \in Sessions, Reject(p) PROVE TypeOK'
  BY <1>16 DEF Reject, SettleAndUnlock, Settle
<1>17. ASSUME NEW a \in Actors, ClearAwaiting(a) PROVE TypeOK'
  BY <1>17 DEF ClearAwaiting
<1>18. ASSUME NEW e \in Endpoints, Forget(e) PROVE TypeOK'
  BY <1>18 DEF Forget
<1>19. CASE UNCHANGED vars
  BY <1>19 DEF vars
<1>20. QED
  BY <1>1, <1>2, <1>3, <1>4, <1>5, <1>6, <1>7, <1>8, <1>9, <1>10, <1>11, <1>12, <1>13,
     <1>14, <1>15, <1>16, <1>17, <1>18, <1>19 DEF Next, Timeout, ConnectFails, AbortTask

\* Every variable keeps its type: the coordinator's maps name attempts and
\* endpoints only, and every phase is one of those the code has.
THEOREM TypeCorrect == Spec => []TypeOK
<1>1. Init => TypeOK
  BY DEF Init, TypeOK, Outcomes, Results, Phases
<1>2. QED
  BY <1>1, TypeStep, PTL DEF Spec

-----------------------------------------------------------------------------
(* The inductive invariant.                                                *)

\* Settling the open prompt of e leaves the lists of waiters right, whatever
\* happens at the same time to the verifications that shared it.
LEMMA SettleKeepsLists ==
  ASSUME IInv, NEW e \in Endpoints, pending[e] # None,
         NEW o \in Outcomes \ {"Waiting"}, Settle(e, o), UNCHANGED promptOf,
         \A t \in Sessions : Suspended(t)' => Suspended(t),
         \A t \in Sessions : promptOf[t] # pending[e] /\ Suspended(t) => Suspended(t)'
  PROVE  WaitersAreListed'
<1> USE DEF IInv, TypeOK, Settle, Outcomes
<1>1. ASSUME NEW s \in Sessions, Suspended(s)', outcome'[promptOf'[s]] = "Waiting"
      PROVE  pending'[EndpointOf[s]] = promptOf'[s] /\ s \in senders'[EndpointOf[s]]
  <2>1. promptOf[s] \in Sessions
    BY <1>1 DEF PhasesAgree
  <2>2. promptOf[s] # pending[e] /\ outcome[promptOf[s]] = "Waiting"
    BY <1>1, <2>1
  <2>3. pending[EndpointOf[s]] = promptOf[s] /\ s \in senders[EndpointOf[s]]
    BY <1>1, <2>2 DEF WaitersAreListed
  <2>4. QED
    BY <2>2, <2>3
<1>2. ASSUME NEW x \in Endpoints, NEW s \in senders'[x]
      PROVE  Suspended(s)' /\ pending'[x] # None /\ promptOf'[s] = pending'[x]
  <2>1. x # e /\ s \in senders[x] /\ s \in Sessions
    BY <1>2
  <2>2. Suspended(s) /\ pending[x] # None /\ promptOf[s] = pending[x]
    BY <2>1 DEF WaitersAreListed
  <2>3. pending[x] # pending[e]
    BY <2>1, <2>2 DEF PromptHasLiveOwner
  <2>4. QED
    BY <2>1, <2>2, <2>3
<1>3. QED
  BY <1>1, <1>2 DEF WaitersAreListed

\* A verification whose prompt is no longer open is on no list, and may end.
LEMMA UnlistedMayEnd ==
  ASSUME IInv, NEW s \in Sessions, ~IsOpen(promptOf[s]), UNCHANGED <<promptVars, promptOf>>,
         NEW v \in {"done", "dropped"}, verify' = [verify EXCEPT ![s] = v]
  PROVE  WaitersAreListed'
<1>1. \A e \in Endpoints : s \notin senders[e]
  BY DEF IInv, WaitersAreListed, PromptHasLiveOwner, IsOpen
<1>2. QED
  BY <1>1 DEF IInv, TypeOK, WaitersAreListed, Suspended, promptVars, Phases

\* A verification that rejects the prompt it is suspended on may end as well.
LEMMA RejecterMayEnd ==
  ASSUME IInv, NEW s \in Sessions, IsOpen(promptOf[s]),
         SettleAndUnlock(s, EndpointOf[promptOf[s]], "Rejected"), UNCHANGED promptOf,
         NEW v \in {"done", "dropped"}, verify' = [verify EXCEPT ![s] = v]
  PROVE  WaitersAreListed'
<1> DEFINE e == EndpointOf[promptOf[s]]
<1>1. e \in Endpoints /\ pending[e] = promptOf[s] /\ pending[e] # None
  BY DEF IsOpen, IInv, TypeOK
<1>2. Settle(e, "Rejected")
  BY DEF SettleAndUnlock
<1>3. \A t \in Sessions : Suspended(t)' => Suspended(t)
  BY DEF Suspended, IInv, TypeOK
<1>4. \A t \in Sessions : promptOf[t] # pending[e] /\ Suspended(t) => Suspended(t)'
  BY <1>1 DEF Suspended, IInv, TypeOK
<1> HIDE DEF e
<1>5. QED
  BY <1>1, <1>2, <1>3, <1>4, SettleKeepsLists DEF Outcomes

\* An actor that settles an open prompt, or finds it settled, leaves the flag and
\* the timers right: if it settles, it still has the flag to clear.
LEMMA SettleKeepsTimes ==
  ASSUME IInv, NEW a \in Actors, clearing[a] = None, UNCHANGED <<awaiting, unseen, run, deadline>>,
         \/ UNCHANGED <<pending, overtaken, clearing>>
         \/ \E e \in Endpoints, o \in Outcomes : pending[e] # None /\ SettleAndUnlock(a, e, o)
  PROVE  NoStuckAwaiting' /\ DecisionTimeUnlessOvertaken'
<1> USE DEF IInv, TypeOK, NoStuckAwaiting, DecisionTimeUnlessOvertaken, IsClearing
<1>1. CASE UNCHANGED <<pending, overtaken, clearing>>
  BY <1>1
<1>2. ASSUME NEW e \in Endpoints, NEW o \in Outcomes, SettleAndUnlock(a, e, o)
      PROVE  NoStuckAwaiting' /\ DecisionTimeUnlessOvertaken'
  <2>1. /\ pending' = [pending EXCEPT ![e] = None] /\ overtaken' = [overtaken EXCEPT ![e] = FALSE]
        /\ clearing' = [clearing EXCEPT ![a] = e]
    BY <1>2 DEF SettleAndUnlock, Settle
  <2>2. IsClearing(e)' /\ \A x \in Endpoints \ {e} : IsClearing(x)' = IsClearing(x)
    BY <2>1
  <2>3. \A x \in Endpoints \ {e} : pending'[x] = pending[x] /\ overtaken'[x] = overtaken[x]
    BY <2>1
  <2> HIDE DEF IsClearing
  <2>4. NoStuckAwaiting'
    BY <2>2, <2>3
  <2>5. DecisionTimeUnlessOvertaken'
    <3>1. pending'[e] = None
      BY <2>1
    <3>2. QED
      BY <2>2, <2>3, <3>1
  <2>6. QED
    BY <2>4, <2>5
<1>3. QED
  BY <1>1, <1>2

\* Every step of the coordinator, its verifications, its timers and the user
\* preserves the inductive invariant: one step per action, and under it one per
\* conjunct the action can disturb.
LEMMA IInvStep == IInv /\ [Next]_vars => IInv'
<1> SUFFICES ASSUME IInv, TypeOK', [Next]_vars PROVE IInv'
  BY TypeStep DEF IInv
<1> USE DEF IInv, TypeOK, Outcomes, Results, Phases, IsClearing,
            storeVars, promptVars, flagVars, runVars, verifyVars
<1>1. ASSUME NEW s \in Sessions, Start(s) PROVE IInv'
  <2>1. PhasesAgree'
    BY <1>1 DEF Start, PhasesAgree, Suspended
  <2>2. DecisionTimeUnlessOvertaken'
    BY <1>1 DEF Start, PhasesAgree, PromptHasLiveOwner, DecisionTimeUnlessOvertaken, Suspended
  <2>3. PromptsHaveOwners' /\ HistoryIsComplete' /\ PromptHasLiveOwner' /\
         WaitersAreListed' /\ SharersPresentTheShownKey' /\ OnlyStoredKeysPass' /\
         OneVerdictPerPrompt' /\ NoStuckAwaiting'
    BY <1>1 DEF Start, PromptsHaveOwners, HistoryIsComplete, PromptHasLiveOwner,
           WaitersAreListed, SharersPresentTheShownKey, OnlyStoredKeysPass,
           OneVerdictPerPrompt, NoStuckAwaiting, Suspended
  <2>4. QED
    BY <2>1, <2>2, <2>3
<1>2. ASSUME NEW s \in Sessions, RearmDeadline(s) PROVE IInv'
  <2>1. DecisionTimeUnlessOvertaken'
    BY <1>2 DEF RearmDeadline, DecisionTimeUnlessOvertaken
  <2>2. PhasesAgree' /\ PromptsHaveOwners' /\ HistoryIsComplete' /\ PromptHasLiveOwner' /\
         WaitersAreListed' /\ SharersPresentTheShownKey' /\ OnlyStoredKeysPass' /\
         OneVerdictPerPrompt' /\ NoStuckAwaiting'
    BY <1>2 DEF RearmDeadline, PhasesAgree, PromptsHaveOwners, HistoryIsComplete,
           PromptHasLiveOwner, WaitersAreListed, SharersPresentTheShownKey,
           OnlyStoredKeysPass, OneVerdictPerPrompt, NoStuckAwaiting, Suspended
  <2>3. QED
    BY <2>1, <2>2
<1>3. ASSUME NEW s \in Sessions, RunEnds(s) PROVE IInv'
  <2>1. PhasesAgree'
    BY <1>3 DEF RunEnds, PhasesAgree, Suspended
  <2>2. DecisionTimeUnlessOvertaken'
    BY <1>3 DEF RunEnds, DecisionTimeUnlessOvertaken
  <2>3. PromptsHaveOwners' /\ HistoryIsComplete' /\ PromptHasLiveOwner' /\
         WaitersAreListed' /\ SharersPresentTheShownKey' /\ OnlyStoredKeysPass' /\
         OneVerdictPerPrompt' /\ NoStuckAwaiting'
    BY <1>3 DEF RunEnds, PromptsHaveOwners, HistoryIsComplete, PromptHasLiveOwner,
           WaitersAreListed, SharersPresentTheShownKey, OnlyStoredKeysPass,
           OneVerdictPerPrompt, NoStuckAwaiting, Suspended
  <2>4. QED
    BY <2>1, <2>2, <2>3
<1>4. ASSUME NEW s \in Sessions, HandshakeDone(s) PROVE IInv'
  <2>1. PhasesAgree'
    BY <1>4 DEF HandshakeDone, PhasesAgree, Suspended
  <2>2. DecisionTimeUnlessOvertaken'
    BY <1>4 DEF HandshakeDone, DecisionTimeUnlessOvertaken
  <2>3. PromptsHaveOwners' /\ HistoryIsComplete' /\ PromptHasLiveOwner' /\
         WaitersAreListed' /\ SharersPresentTheShownKey' /\ OnlyStoredKeysPass' /\
         OneVerdictPerPrompt' /\ NoStuckAwaiting'
    BY <1>4 DEF HandshakeDone, PromptsHaveOwners, HistoryIsComplete, PromptHasLiveOwner,
           WaitersAreListed, SharersPresentTheShownKey, OnlyStoredKeysPass,
           OneVerdictPerPrompt, NoStuckAwaiting, Suspended
  <2>4. QED
    BY <2>1, <2>2, <2>3
<1>5. ASSUME NEW s \in Sessions, Disconnect(s) PROVE IInv'
  <2>1. PhasesAgree' /\ PromptsHaveOwners' /\ HistoryIsComplete' /\ PromptHasLiveOwner' /\
         WaitersAreListed' /\ SharersPresentTheShownKey' /\ OnlyStoredKeysPass' /\
         OneVerdictPerPrompt' /\ NoStuckAwaiting' /\ DecisionTimeUnlessOvertaken'
    BY <1>5 DEF Disconnect, PhasesAgree, PromptsHaveOwners, HistoryIsComplete,
           PromptHasLiveOwner, WaitersAreListed, SharersPresentTheShownKey,
           OnlyStoredKeysPass, OneVerdictPerPrompt, NoStuckAwaiting, DecisionTimeUnlessOvertaken,
           Suspended
  <2>2. QED
    BY <2>1
<1>6. ASSUME NEW s \in Sessions, NEW k \in Keys, PresentKey(s, k) PROVE IInv'
  <2>1. PhasesAgree'
    BY <1>6 DEF PresentKey, PhasesAgree, Suspended
  <2>2. HistoryIsComplete'
    BY <1>6 DEF PresentKey, PhasesAgree, PromptsHaveOwners, HistoryIsComplete, Suspended
  <2>3. PromptHasLiveOwner'
    BY <1>6 DEF PresentKey, PromptHasLiveOwner, Suspended
  <2>4. WaitersAreListed'
    BY <1>6 DEF PresentKey, WaitersAreListed, Suspended
  <2>5. SharersPresentTheShownKey'
    BY <1>6 DEF PresentKey, PhasesAgree, SharersPresentTheShownKey, Suspended
  <2>6. OnlyStoredKeysPass'
    BY <1>6 DEF PresentKey, PhasesAgree, OnlyStoredKeysPass, Suspended
  <2>7. PromptsHaveOwners' /\ OneVerdictPerPrompt' /\ NoStuckAwaiting' /\
         DecisionTimeUnlessOvertaken'
    BY <1>6 DEF PresentKey, PromptsHaveOwners, OneVerdictPerPrompt, NoStuckAwaiting,
           DecisionTimeUnlessOvertaken
  <2>8. QED
    BY <2>1, <2>2, <2>3, <2>4, <2>5, <2>6, <2>7
<1>7. ASSUME NEW s \in Sessions, CheckStore(s) PROVE IInv'
  <2>1. PhasesAgree'
    BY <1>7 DEF CheckStore, Return, PhasesAgree, Suspended
  <2>2. PromptHasLiveOwner'
    BY <1>7 DEF CheckStore, Return, PromptHasLiveOwner, Suspended
  <2>3. WaitersAreListed'
    <3>1. \A t \in Sessions : Suspended(t)' = Suspended(t)
      BY <1>7 DEF CheckStore, Return, Suspended
    <3>2. UNCHANGED <<pending, senders, outcome, promptOf>>
      BY <1>7 DEF CheckStore
    <3>3. QED
      BY <3>1, <3>2 DEF WaitersAreListed
  <2>4. OnlyStoredKeysPass'
    BY <1>7 DEF CheckStore, Return, PhasesAgree, PromptsHaveOwners, HistoryIsComplete,
           PromptHasLiveOwner, WaitersAreListed, SharersPresentTheShownKey,
           OnlyStoredKeysPass, OneVerdictPerPrompt, NoStuckAwaiting, DecisionTimeUnlessOvertaken,
           Suspended
  <2>5. OneVerdictPerPrompt'
    BY <1>7 DEF CheckStore, Return, PhasesAgree, OneVerdictPerPrompt, Suspended
  <2>6. PromptsHaveOwners' /\ HistoryIsComplete' /\ SharersPresentTheShownKey' /\
         NoStuckAwaiting' /\ DecisionTimeUnlessOvertaken'
    BY <1>7 DEF CheckStore, Return, PromptsHaveOwners, HistoryIsComplete,
           SharersPresentTheShownKey, NoStuckAwaiting, DecisionTimeUnlessOvertaken
  <2>7. QED
    BY <2>1, <2>2, <2>3, <2>4, <2>5, <2>6
<1>8. ASSUME NEW s \in Sessions, OpenPrompt(s) PROVE IInv'
  <2>1. PhasesAgree'
    BY <1>8 DEF OpenPrompt, SetAwaiting, PhasesAgree, Suspended
  <2>2. PromptsHaveOwners'
    BY <1>8 DEF OpenPrompt, SetAwaiting, PromptsHaveOwners
  <2>3. PromptHasLiveOwner'
    BY <1>8 DEF OpenPrompt, SetAwaiting, PhasesAgree, PromptsHaveOwners,
           PromptHasLiveOwner, Suspended
  <2>4. WaitersAreListed'
    BY <1>8 DEF OpenPrompt, SetAwaiting, WaitersAreListed, Suspended
  <2>5. SharersPresentTheShownKey'
    BY <1>8 DEF OpenPrompt, SetAwaiting, SharersPresentTheShownKey
  <2>6. OneVerdictPerPrompt'
    BY <1>8 DEF OpenPrompt, SetAwaiting, PhasesAgree, OneVerdictPerPrompt, Suspended
  <2>7. NoStuckAwaiting'
    BY <1>8 DEF OpenPrompt, SetAwaiting, NoStuckAwaiting
  <2>8. DecisionTimeUnlessOvertaken'
    BY <1>8 DEF OpenPrompt, SetAwaiting, DecisionTimeUnlessOvertaken
  <2>9. HistoryIsComplete' /\ OnlyStoredKeysPass'
    BY <1>8 DEF OpenPrompt, SetAwaiting, HistoryIsComplete, OnlyStoredKeysPass
  <2>10. QED
    BY <2>1, <2>2, <2>3, <2>4, <2>5, <2>6, <2>7, <2>8, <2>9
<1>9. ASSUME NEW s \in Sessions, JoinPrompt(s) PROVE IInv'
  <2>1. PhasesAgree'
    BY <1>9 DEF JoinPrompt, SamePresentedKey, PhasesAgree, Suspended
  <2>2. PromptsHaveOwners'
    BY <1>9 DEF JoinPrompt, SamePresentedKey, PhasesAgree, PromptsHaveOwners,
           PromptHasLiveOwner, Suspended
  <2>3. PromptHasLiveOwner'
    BY <1>9 DEF JoinPrompt, SamePresentedKey, PromptHasLiveOwner, Suspended
  <2>4. WaitersAreListed'
    BY <1>9 DEF JoinPrompt, SamePresentedKey, WaitersAreListed, Suspended
  <2>5. SharersPresentTheShownKey'
    BY <1>9 DEF JoinPrompt, SamePresentedKey, PhasesAgree, PromptHasLiveOwner,
           SharersPresentTheShownKey, Suspended
  <2>6. OneVerdictPerPrompt'
    BY <1>9 DEF JoinPrompt, SamePresentedKey, PhasesAgree, OneVerdictPerPrompt, Suspended
  <2>7. HistoryIsComplete' /\ OnlyStoredKeysPass' /\ NoStuckAwaiting' /\
         DecisionTimeUnlessOvertaken'
    BY <1>9 DEF JoinPrompt, SamePresentedKey, HistoryIsComplete, OnlyStoredKeysPass,
           NoStuckAwaiting, DecisionTimeUnlessOvertaken
  <2>8. QED
    BY <2>1, <2>2, <2>3, <2>4, <2>5, <2>6, <2>7
<1>10. ASSUME NEW s \in Sessions, ConflictingKey(s) PROVE IInv'
  <2>1. PhasesAgree'
    BY <1>10 DEF ConflictingKey, Settle, SetAwaiting, SamePresentedKey, Return,
           PhasesAgree, Suspended
  <2>2. PromptsHaveOwners'
    BY <1>10 DEF ConflictingKey, Settle, SetAwaiting, SamePresentedKey, Return,
           PhasesAgree, PromptsHaveOwners, PromptHasLiveOwner, Suspended
  <2>3. HistoryIsComplete'
    BY <1>10 DEF ConflictingKey, Settle, SetAwaiting, SamePresentedKey, Return,
           HistoryIsComplete
  <2>4. PromptHasLiveOwner'
    BY <1>10 DEF ConflictingKey, Settle, SetAwaiting, SamePresentedKey, Return,
           PromptHasLiveOwner, Suspended
  <2>5. WaitersAreListed'
    BY <1>10 DEF ConflictingKey, Settle, SetAwaiting, SamePresentedKey, Return,
           WaitersAreListed, Suspended
  <2>6. OnlyStoredKeysPass'
    BY <1>10 DEF ConflictingKey, Settle, SetAwaiting, SamePresentedKey, Return,
           OnlyStoredKeysPass
  <2>7. OneVerdictPerPrompt'
    BY <1>10 DEF ConflictingKey, Settle, SetAwaiting, SamePresentedKey, Return,
           PhasesAgree, PromptHasLiveOwner, OneVerdictPerPrompt, Suspended
  <2>8. NoStuckAwaiting'
    BY <1>10 DEF ConflictingKey, Settle, SetAwaiting, SamePresentedKey, Return,
           NoStuckAwaiting
  <2>9. DecisionTimeUnlessOvertaken'
    BY <1>10 DEF ConflictingKey, Settle, SetAwaiting, SamePresentedKey, Return,
           DecisionTimeUnlessOvertaken
  <2>10. SharersPresentTheShownKey'
    BY <1>10 DEF ConflictingKey, Settle, SetAwaiting, SamePresentedKey, Return,
           SharersPresentTheShownKey
  <2>11. QED
    BY <2>1, <2>2, <2>3, <2>4, <2>5, <2>6, <2>7, <2>8, <2>9, <2>10
<1>11. ASSUME NEW s \in Sessions, SendPrompt(s) PROVE IInv'
  <2>1. PhasesAgree'
    BY <1>11 DEF SendPrompt, RejectPrompt, IsOpen, SettleAndUnlock, Settle, Return,
           PhasesAgree, Suspended
  <2>2. PromptsHaveOwners'
    BY <1>11 DEF SendPrompt, RejectPrompt, IsOpen, SettleAndUnlock, Settle, Return,
           PhasesAgree, PromptsHaveOwners, Suspended
  <2>3. HistoryIsComplete'
    BY <1>11 DEF SendPrompt, RejectPrompt, IsOpen, SettleAndUnlock, Settle, Return,
           HistoryIsComplete
  <2>4. PromptHasLiveOwner'
    BY <1>11 DEF SendPrompt, RejectPrompt, IsOpen, SettleAndUnlock, Settle, Return,
           PromptHasLiveOwner, Suspended
  <2>5. WaitersAreListed'
    <3>1. promptOf[s] = s
      BY <1>11 DEF SendPrompt, PhasesAgree
    <3>2. CASE verify' = [verify EXCEPT ![s] = "waiting"] /\ UNCHANGED promptVars
      BY <1>11, <3>2 DEF SendPrompt, WaitersAreListed, Suspended
    <3>3. CASE RejectPrompt(s, promptOf[s]) /\ Return(s, "Disconnected")
      <4>1. CASE IsOpen(promptOf[s])
        BY <1>11, <3>3, <4>1, RejecterMayEnd DEF SendPrompt, RejectPrompt, Return
      <4>2. CASE ~IsOpen(promptOf[s])
        BY <1>11, <3>3, <4>2, UnlistedMayEnd DEF SendPrompt, RejectPrompt, Return
      <4>3. QED
        BY <4>1, <4>2
    <3>4. QED
      BY <1>11, <3>1, <3>2, <3>3 DEF SendPrompt
  <2>6. OnlyStoredKeysPass'
    BY <1>11 DEF SendPrompt, RejectPrompt, IsOpen, SettleAndUnlock, Settle, Return,
           OnlyStoredKeysPass
  <2>7. OneVerdictPerPrompt'
    BY <1>11 DEF SendPrompt, RejectPrompt, IsOpen, SettleAndUnlock, Settle, Return,
           PhasesAgree, PromptHasLiveOwner, OneVerdictPerPrompt, Suspended
  <2>8. clearing[s] = None
    BY <1>11 DEF SendPrompt, PhasesAgree
  <2>9. NoStuckAwaiting' /\ DecisionTimeUnlessOvertaken'
    BY <1>11, <2>8, SettleKeepsTimes DEF SendPrompt, RejectPrompt, IsOpen
  <2>10. SharersPresentTheShownKey'
    BY <1>11 DEF SendPrompt, RejectPrompt, IsOpen, SettleAndUnlock, Settle, Return,
           SharersPresentTheShownKey
  <2>11. QED
    BY <2>1, <2>2, <2>3, <2>4, <2>5, <2>6, <2>7, <2>8, <2>9, <2>10
<1>12. ASSUME NEW s \in Sessions, ObserveOutcome(s) PROVE IInv'
  <2>1. PhasesAgree'
    BY <1>12 DEF ObserveOutcome, Return, ResultOf, PhasesAgree, Suspended
  <2>2. PromptHasLiveOwner'
    BY <1>12 DEF ObserveOutcome, Return, ResultOf, PromptHasLiveOwner, Suspended
  <2>3. WaitersAreListed'
    BY <1>12 DEF ObserveOutcome, Return, ResultOf, PhasesAgree, PromptHasLiveOwner,
           WaitersAreListed, Suspended
  <2>4. OnlyStoredKeysPass'
    BY <1>12 DEF ObserveOutcome, Return, ResultOf, PhasesAgree, PromptsHaveOwners,
           HistoryIsComplete, PromptHasLiveOwner, WaitersAreListed,
           SharersPresentTheShownKey, OnlyStoredKeysPass, OneVerdictPerPrompt,
           NoStuckAwaiting, DecisionTimeUnlessOvertaken, Suspended
  <2>5. OneVerdictPerPrompt'
    BY <1>12 DEF ObserveOutcome, Return, ResultOf, OneVerdictPerPrompt
  <2>6. PromptsHaveOwners' /\ HistoryIsComplete' /\ SharersPresentTheShownKey' /\
         NoStuckAwaiting' /\ DecisionTimeUnlessOvertaken'
    BY <1>12 DEF ObserveOutcome, Return, ResultOf, PromptsHaveOwners, HistoryIsComplete,
           SharersPresentTheShownKey, NoStuckAwaiting, DecisionTimeUnlessOvertaken
  <2>7. QED
    BY <2>1, <2>2, <2>3, <2>4, <2>5, <2>6
<1>13. ASSUME NEW s \in Sessions, ObserveCancellation(s) PROVE IInv'
  <2>1. PhasesAgree'
    BY <1>13 DEF ObserveCancellation, RejectPrompt, IsOpen, SettleAndUnlock, Settle,
           Return, PhasesAgree, Suspended
  <2>2. PromptsHaveOwners'
    BY <1>13 DEF ObserveCancellation, RejectPrompt, IsOpen, SettleAndUnlock, Settle,
           Return, PromptsHaveOwners
  <2>3. HistoryIsComplete'
    BY <1>13 DEF ObserveCancellation, RejectPrompt, IsOpen, SettleAndUnlock, Settle,
           Return, HistoryIsComplete
  <2>4. PromptHasLiveOwner'
    <3>1. CASE IsOpen(promptOf[s])
      BY <1>13, <3>1 DEF ObserveCancellation, RejectPrompt, IsOpen, SettleAndUnlock, Settle,
             Return, PromptHasLiveOwner, Suspended, TypeOK
    <3>2. CASE ~IsOpen(promptOf[s])
      BY <1>13, <3>2 DEF ObserveCancellation, RejectPrompt, IsOpen, promptVars,
             Return, PromptHasLiveOwner, Suspended, TypeOK
    <3>3. QED
      BY <3>1, <3>2
  <2>5. WaitersAreListed'
    <3>1. CASE IsOpen(promptOf[s])
      BY <1>13, <3>1, RejecterMayEnd DEF ObserveCancellation, RejectPrompt, Return
    <3>2. CASE ~IsOpen(promptOf[s])
      BY <1>13, <3>2, UnlistedMayEnd DEF ObserveCancellation, RejectPrompt, Return
    <3>3. QED
      BY <3>1, <3>2
  <2>6. OnlyStoredKeysPass'
    BY <1>13 DEF ObserveCancellation, RejectPrompt, IsOpen, SettleAndUnlock, Settle,
           Return, OnlyStoredKeysPass
  <2>7. OneVerdictPerPrompt'
    <3>1. result' = [result EXCEPT ![s] = "Disconnected"] /\ promptOf' = promptOf
      BY <1>13 DEF ObserveCancellation, Return
    <3>2. CASE IsOpen(promptOf[s])
      <4>1. outcome[promptOf[s]] = "Waiting"
        BY <3>2 DEF IsOpen, PromptHasLiveOwner, TypeOK
      <4>2. outcome' = [outcome EXCEPT ![promptOf[s]] = "Rejected"]
        BY <1>13, <3>2 DEF ObserveCancellation, RejectPrompt, IsOpen, SettleAndUnlock, Settle
      <4>3. QED
        BY <3>1, <4>1, <4>2 DEF OneVerdictPerPrompt, TypeOK
    <3>3. CASE ~IsOpen(promptOf[s])
      BY <1>13, <3>1, <3>3 DEF ObserveCancellation, RejectPrompt, promptVars, OneVerdictPerPrompt, TypeOK
    <3>4. QED
      BY <3>2, <3>3
  <2>8. clearing[s] = None
    BY <1>13 DEF ObserveCancellation, PhasesAgree
  <2>9. NoStuckAwaiting' /\ DecisionTimeUnlessOvertaken'
    BY <1>13, <2>8, SettleKeepsTimes DEF ObserveCancellation, RejectPrompt, IsOpen
  <2>10. SharersPresentTheShownKey'
    BY <1>13 DEF ObserveCancellation, RejectPrompt, IsOpen, SettleAndUnlock, Settle,
           Return, SharersPresentTheShownKey
  <2>11. QED
    BY <2>1, <2>2, <2>3, <2>4, <2>5, <2>6, <2>7, <2>8, <2>9, <2>10
<1>14. ASSUME NEW s \in Sessions, DropVerification(s) PROVE IInv'
  <2>1. PhasesAgree'
    BY <1>14 DEF DropVerification, AbandonPrompt, IsOpen, SettleAndUnlock, Settle, PhasesAgree, Suspended
  <2>2. PromptsHaveOwners'
    BY <1>14 DEF DropVerification, AbandonPrompt, IsOpen, SettleAndUnlock, Settle, PromptsHaveOwners,
           Suspended
  <2>3. HistoryIsComplete'
    BY <1>14 DEF DropVerification, AbandonPrompt, IsOpen, SettleAndUnlock, Settle, HistoryIsComplete,
           Suspended
  <2>4. PromptHasLiveOwner'
    BY <1>14 DEF DropVerification, AbandonPrompt, IsOpen, SettleAndUnlock, Settle, PromptHasLiveOwner,
           Suspended
  <2>5. WaitersAreListed'
    <3>1. CASE IsOpen(promptOf[s]) /\ promptOf[s] = s
      <4>1. SettleAndUnlock(s, EndpointOf[promptOf[s]], "Rejected")
        BY <1>14, <3>1 DEF DropVerification, AbandonPrompt
      <4>2. QED
        BY <1>14, <3>1, <4>1, RejecterMayEnd DEF DropVerification, AbandonPrompt
    <3>2. CASE IsOpen(promptOf[s]) /\ promptOf[s] # s
      <4>1. senders' = [senders EXCEPT ![EndpointOf[s]] = @ \ {s}] /\ UNCHANGED <<pending, outcome>>
        BY <1>14, <3>2 DEF DropVerification, AbandonPrompt
      <4>2. \A x \in Endpoints : s \in senders[x] => x = EndpointOf[s]
        BY <3>2 DEF IsOpen, WaitersAreListed, PromptHasLiveOwner, SharersPresentTheShownKey
      <4>3. \A x \in Endpoints : s \notin senders'[x]
        BY <4>1, <4>2
      <4>4. verify' = [verify EXCEPT ![s] = "dropped"] /\ UNCHANGED promptOf
        BY <1>14 DEF DropVerification, AbandonPrompt
      <4>5. QED
        BY <4>1, <4>3, <4>4 DEF WaitersAreListed, Suspended
    <3>3. CASE ~IsOpen(promptOf[s])
      <4>1. UNCHANGED promptVars
        BY <1>14, <3>3 DEF DropVerification, AbandonPrompt
      <4>2. QED
        BY <1>14, <3>3, <4>1, UnlistedMayEnd DEF DropVerification, AbandonPrompt
    <3>4. QED
      BY <3>1, <3>2, <3>3
  <2>6. OneVerdictPerPrompt'
    BY <1>14 DEF DropVerification, AbandonPrompt, IsOpen, SettleAndUnlock, Settle, PhasesAgree,
           PromptHasLiveOwner, OneVerdictPerPrompt, Suspended
  <2>7. clearing[s] = None
    BY <1>14 DEF DropVerification, PhasesAgree, Suspended
  <2>8. NoStuckAwaiting' /\ DecisionTimeUnlessOvertaken'
    BY <1>14, <2>7, SettleKeepsTimes DEF DropVerification, AbandonPrompt, IsOpen
  <2>9. SharersPresentTheShownKey' /\ OnlyStoredKeysPass'
    BY <1>14 DEF DropVerification, AbandonPrompt, IsOpen, SettleAndUnlock, Settle,
           SharersPresentTheShownKey, OnlyStoredKeysPass
  <2>10. QED
    BY <2>1, <2>2, <2>3, <2>4, <2>5, <2>6, <2>7, <2>8, <2>9
<1>15. ASSUME NEW p \in Sessions, Accept(p) PROVE IInv'
  <2>1. PhasesAgree'
    BY <1>15 DEF Accept, MayStore, IsOpen, SettleAndUnlock, Settle, PhasesAgree, Suspended
  <2>2. PromptsHaveOwners'
    BY <1>15 DEF Accept, MayStore, IsOpen, SettleAndUnlock, Settle, PhasesAgree, PromptsHaveOwners,
           PromptHasLiveOwner, Suspended
  <2>3. HistoryIsComplete'
    BY <1>15 DEF Accept, MayStore, IsOpen, SettleAndUnlock, Settle, PhasesAgree, HistoryIsComplete,
           PromptHasLiveOwner, Suspended
  <2>4. PromptHasLiveOwner'
    BY <1>15 DEF Accept, MayStore, IsOpen, SettleAndUnlock, Settle, PromptHasLiveOwner, Suspended
  <2>5. WaitersAreListed'
    <3>1. \E o \in Outcomes \ {"Waiting"} : SettleAndUnlock(UI, EndpointOf[p], o)
      BY <1>15 DEF Accept, MayStore
    <3>2. QED
      BY <1>15, <3>1, SettleKeepsLists DEF Accept, MayStore, IsOpen, SettleAndUnlock, Suspended
  <2>6. OnlyStoredKeysPass'
    BY <1>15 DEF Accept, MayStore, IsOpen, SettleAndUnlock, Settle, OnlyStoredKeysPass
  <2>7. OneVerdictPerPrompt'
    <3>1. outcome[p] = "Waiting" /\ UNCHANGED <<result, promptOf>>
      BY <1>15 DEF Accept, IsOpen, PromptHasLiveOwner, TypeOK
    <3>2. \E o \in Outcomes : outcome' = [outcome EXCEPT ![p] = o]
      BY <1>15 DEF Accept, MayStore, IsOpen, SettleAndUnlock, Settle
    <3>3. QED
      BY <3>1, <3>2 DEF OneVerdictPerPrompt, TypeOK
  <2>8. NoStuckAwaiting'
    BY <1>15 DEF Accept, MayStore, IsOpen, SettleAndUnlock, Settle, NoStuckAwaiting
  <2>9. DecisionTimeUnlessOvertaken'
    BY <1>15 DEF Accept, MayStore, IsOpen, SettleAndUnlock, Settle, DecisionTimeUnlessOvertaken
  <2>10. SharersPresentTheShownKey'
    BY <1>15 DEF Accept, MayStore, IsOpen, SettleAndUnlock, Settle, SharersPresentTheShownKey
  <2>11. QED
    BY <2>1, <2>2, <2>3, <2>4, <2>5, <2>6, <2>7, <2>8, <2>9, <2>10
<1>16. ASSUME NEW p \in Sessions, Reject(p) PROVE IInv'
  <2>1. PhasesAgree'
    BY <1>16 DEF Reject, IsOpen, SettleAndUnlock, Settle, PhasesAgree, Suspended
  <2>2. PromptsHaveOwners'
    BY <1>16 DEF Reject, IsOpen, SettleAndUnlock, Settle, PhasesAgree, PromptsHaveOwners,
           PromptHasLiveOwner, Suspended
  <2>3. HistoryIsComplete'
    BY <1>16 DEF Reject, IsOpen, SettleAndUnlock, Settle, HistoryIsComplete
  <2>4. PromptHasLiveOwner'
    BY <1>16 DEF Reject, IsOpen, SettleAndUnlock, Settle, PromptHasLiveOwner, Suspended
  <2>5. WaitersAreListed'
    BY <1>16 DEF Reject, IsOpen, SettleAndUnlock, Settle, WaitersAreListed, Suspended
  <2>6. OneVerdictPerPrompt'
    BY <1>16 DEF Reject, IsOpen, SettleAndUnlock, Settle, PhasesAgree, PromptHasLiveOwner,
           OneVerdictPerPrompt, Suspended
  <2>7. NoStuckAwaiting'
    BY <1>16 DEF Reject, IsOpen, SettleAndUnlock, Settle, NoStuckAwaiting
  <2>8. DecisionTimeUnlessOvertaken'
    BY <1>16 DEF Reject, IsOpen, SettleAndUnlock, Settle, DecisionTimeUnlessOvertaken
  <2>9. SharersPresentTheShownKey' /\ OnlyStoredKeysPass'
    BY <1>16 DEF Reject, IsOpen, SettleAndUnlock, Settle, SharersPresentTheShownKey,
           OnlyStoredKeysPass
  <2>10. QED
    BY <2>1, <2>2, <2>3, <2>4, <2>5, <2>6, <2>7, <2>8, <2>9
<1>17. ASSUME NEW a \in Actors, ClearAwaiting(a) PROVE IInv'
  <2>1. PhasesAgree'
    BY <1>17 DEF ClearAwaiting, SetAwaiting, PhasesAgree, Suspended
  <2>2. NoStuckAwaiting'
    BY <1>17 DEF ClearAwaiting, SetAwaiting, NoStuckAwaiting
  <2>3. DecisionTimeUnlessOvertaken'
    BY <1>17 DEF ClearAwaiting, SetAwaiting, DecisionTimeUnlessOvertaken
  <2>4. PromptsHaveOwners' /\ HistoryIsComplete' /\ PromptHasLiveOwner' /\
         WaitersAreListed' /\ SharersPresentTheShownKey' /\ OnlyStoredKeysPass' /\
         OneVerdictPerPrompt'
    BY <1>17 DEF ClearAwaiting, SetAwaiting, PromptsHaveOwners, HistoryIsComplete,
           PromptHasLiveOwner, WaitersAreListed, SharersPresentTheShownKey,
           OnlyStoredKeysPass, OneVerdictPerPrompt, Suspended
  <2>5. QED
    BY <2>1, <2>2, <2>3, <2>4
<1>18. ASSUME NEW e \in Endpoints, Forget(e) PROVE IInv'
  <2>1. HistoryIsComplete'
    BY <1>18 DEF Forget, HistoryIsComplete
  <2>2. PhasesAgree' /\ PromptsHaveOwners' /\ PromptHasLiveOwner' /\ WaitersAreListed' /\
         SharersPresentTheShownKey' /\ OnlyStoredKeysPass' /\ OneVerdictPerPrompt' /\
         NoStuckAwaiting' /\ DecisionTimeUnlessOvertaken'
    BY <1>18 DEF Forget, PhasesAgree, PromptsHaveOwners, PromptHasLiveOwner,
           WaitersAreListed, SharersPresentTheShownKey, OnlyStoredKeysPass,
           OneVerdictPerPrompt, NoStuckAwaiting, DecisionTimeUnlessOvertaken, Suspended
  <2>3. QED
    BY <2>1, <2>2
<1>19. CASE UNCHANGED vars
  BY <1>19 DEF vars, Suspended, PhasesAgree, PromptsHaveOwners, HistoryIsComplete,
         PromptHasLiveOwner, WaitersAreListed, SharersPresentTheShownKey,
         OnlyStoredKeysPass, OneVerdictPerPrompt, NoStuckAwaiting, DecisionTimeUnlessOvertaken
<1>20. QED
  BY <1>1, <1>2, <1>3, <1>4, <1>5, <1>6, <1>7, <1>8, <1>9, <1>10, <1>11, <1>12, <1>13,
         <1>14, <1>15, <1>16, <1>17, <1>18, <1>19 DEF Next, Timeout, ConnectFails,
         AbortTask

\* The inductive invariant holds of every reachable state.
THEOREM Invariance == Spec => []IInv
<1>1. Init => IInv
  <2> SUFFICES ASSUME Init PROVE IInv
    OBVIOUS
  <2>1. TypeOK
    BY DEF Init, TypeOK, Outcomes, Results, Phases
  <2>2. QED
    BY <2>1 DEF Init, IInv, PhasesAgree, PromptsHaveOwners, HistoryIsComplete,
                PromptHasLiveOwner, WaitersAreListed, SharersPresentTheShownKey,
                OnlyStoredKeysPass, OneVerdictPerPrompt, NoStuckAwaiting,
                DecisionTimeUnlessOvertaken, Suspended, Outcomes, Results, Phases
<1>2. QED
  BY <1>1, IInvStep, PTL DEF Spec

\* No attempt ever passes the verification with a key its endpoint's store has
\* not held, and all who read a prompt's outcome are answered alike.
THEOREM TrustedKeysOnly ==
  Spec => [](OnlyStoredKeysPass /\ OneVerdictPerPrompt /\ SharersPresentTheShownKey)
<1>1. IInv => OnlyStoredKeysPass /\ OneVerdictPerPrompt /\ SharersPresentTheShownKey
  BY DEF IInv
<1>2. QED
  BY <1>1, Invariance, PTL

\* There is never a ghost prompt, its owner gets the long deadline unless an
\* earlier removal cleared the flag under it, and an undecided verification is
\* always on the list of the open prompt, where a decision reaches it.
THEOREM DecisionsReachTheWaiters == Spec => []OpenPromptsAreServed
<1>1. IInv => OpenPromptsAreServed
  BY DEF IInv, OpenPromptsAreServed
<1>2. QED
  BY <1>1, Invariance, PTL

\* The awaiting flag does not outlive its prompt.
THEOREM AwaitingFollowsThePrompt == Spec => []NoStuckAwaiting
<1>1. IInv => NoStuckAwaiting
  BY DEF IInv
<1>2. QED
  BY <1>1, Invariance, PTL

\* Outcomes change only when an open prompt is settled.
LEMMA OnlyOpenPromptsSettle ==
  ASSUME TypeOK, Next
  PROVE  \/ UNCHANGED outcome
         \/ \E e \in Endpoints, o \in Outcomes : pending[e] # None /\ Settle(e, o)
<1> DEFINE Goal == \/ UNCHANGED outcome
                   \/ \E e \in Endpoints, o \in Outcomes : pending[e] # None /\ Settle(e, o)
<1> USE DEF promptVars, Outcomes
<1>1. ASSUME NEW s \in Sessions, NEW p \in Sessions \cup {None}, RejectPrompt(s, p) PROVE Goal
  BY <1>1 DEF RejectPrompt, IsOpen, SettleAndUnlock
<1>2. ASSUME NEW s \in Sessions, ConflictingKey(s) PROVE Goal
  BY <1>2 DEF ConflictingKey
<1>3. ASSUME NEW s \in Sessions, SendPrompt(s) PROVE Goal
  BY <1>1, <1>3 DEF SendPrompt
<1>4. ASSUME NEW s \in Sessions, ObserveCancellation(s) PROVE Goal
  BY <1>1, <1>4 DEF ObserveCancellation, TypeOK
<1>5. ASSUME NEW s \in Sessions, DropVerification(s) PROVE Goal
  BY <1>5 DEF DropVerification, AbandonPrompt, IsOpen, SettleAndUnlock
<1>6. ASSUME NEW p \in Sessions, Accept(p) \/ Reject(p) PROVE Goal
  <2>1. EndpointOf[p] \in Endpoints /\ pending[EndpointOf[p]] # None
    BY <1>6 DEF Accept, MayStore, Reject, IsOpen
  <2>2. \E o \in Outcomes : Settle(EndpointOf[p], o)
    BY <1>6 DEF Accept, MayStore, Reject, SettleAndUnlock
  <2>3. QED
    BY <2>1, <2>2
<1>7. QED
  BY <1>2, <1>3, <1>4, <1>5, <1>6
  DEF Next, Start, RearmDeadline, Timeout, ConnectFails, AbortTask, RunEnds, HandshakeDone,
      Disconnect, PresentKey, CheckStore, OpenPrompt, JoinPrompt, ObserveOutcome,
      ClearAwaiting, Forget

\* The outcome of a prompt is final: whoever comes second, the user, a
\* cancellation or a conflicting key, finds the prompt gone.
THEOREM OutcomesAreFinal == Spec => SettledOnce
<1>1. IInv /\ [Next]_vars => [KeepsOutcomes]_vars
  <2> SUFFICES ASSUME IInv, Next PROVE KeepsOutcomes
    OBVIOUS
  <2>1. ASSUME NEW e \in Endpoints, pending[e] # None, NEW o \in Outcomes, Settle(e, o)
        PROVE  KeepsOutcomes
    BY <2>1 DEF Settle, PromptHasLiveOwner, IInv, TypeOK, KeepsOutcomes
  <2>2. QED
    BY <2>1, OnlyOpenPromptsSettle DEF IInv, KeepsOutcomes
<1>2. QED
  BY <1>1, Invariance, PTL DEF Spec, SettledOnce

-----------------------------------------------------------------------------
(* Refinement.                                                             *)

\* A verification that returns r passes or refuses, and the store must have held
\* the key it passes with.
LEMMA ReturnsAVerdict ==
  ASSUME TypeOK, NEW s \in Sessions, NEW r \in Results, result[s] = None, Return(s, r),
         r = "ok" => <<EndpointOf[s], presented[s]>> \in everStored,
         UNCHANGED <<storeVars, presented>>
  PROVE  TOFU!Pass(s) \/ TOFU!Refuse(s)
<1>1. verdict[s] = "pending"
  BY DEF verdict, VerdictOf
<1>2. verdict' = [verdict EXCEPT ![s] = VerdictOf(r)]
  BY DEF verdict, Return, TypeOK
<1>3. VerdictOf(r) = IF r = "ok" THEN "pass" ELSE "refuse"
  BY ConstantsAssumption DEF VerdictOf
<1>4. UNCHANGED <<known, everStored, presented>>
  BY DEF storeVars
<1>5. QED
  BY <1>1, <1>2, <1>3, <1>4 DEF TOFU!Pass, TOFU!Refuse

\* The coordinator implements trust on first use: a step stores, forgets,
\* passes or refuses as the abstract specification allows, or changes none of
\* what it speaks of.
THEOREM Refinement == Spec => ImplementsTrustOnFirstUse
<1>1. Init => TOFU!Init
  <2> SUFFICES ASSUME Init PROVE TOFU!Init
    OBVIOUS
  <2>1. verdict = [s \in Sessions |-> "pending"]
    BY DEF Init, verdict, VerdictOf
  <2>2. QED
    BY <2>1 DEF Init, TOFU!Init
<1>2. IInv /\ [Next]_vars => [TOFU!Next]_TOFU!vars
  <2> SUFFICES ASSUME IInv, [Next]_vars PROVE TOFU!Next \/ UNCHANGED TOFU!vars
    OBVIOUS
  <2>0. TypeOK
    BY DEF IInv
  <2>20. ASSUME UNCHANGED <<storeVars, presented, result>> PROVE UNCHANGED TOFU!vars
    BY <2>20 DEF storeVars, verdict, TOFU!vars
  <2>1. ASSUME NEW s \in Sessions, NEW k \in Keys, PresentKey(s, k) PROVE TOFU!Present(s, k)
    <3>1. result[s] = None /\ presented[s] = None
      BY <2>1 DEF PresentKey, PhasesAgree, IInv
    <3>2. verdict[s] = "pending" /\ UNCHANGED verdict
      BY <2>1, <3>1 DEF PresentKey, verdict, VerdictOf
    <3>3. QED
      BY <2>1, <3>1, <3>2 DEF PresentKey, TOFU!Present, storeVars
  <2>3. ASSUME NEW s \in Sessions, CheckStore(s)
        PROVE  TOFU!Pass(s) \/ TOFU!Refuse(s) \/ UNCHANGED TOFU!vars
    <3>1. result[s] = None /\ presented[s] # None
      BY <2>3 DEF CheckStore, PhasesAgree, IInv
    <3>2. known[EndpointOf[s]] = presented[s] => <<EndpointOf[s], presented[s]>> \in everStored
      BY <3>1, <2>0, ConstantsAssumption DEF HistoryIsComplete, IInv
    <3>3. UNCHANGED <<storeVars, presented>>
      BY <2>3 DEF CheckStore
    <3>4. CASE Return(s, "ok") /\ known[EndpointOf[s]] = presented[s]
      BY <2>0, <3>1, <3>2, <3>3, <3>4, ReturnsAVerdict DEF Results
    <3>5. CASE Return(s, "HostKeyChanged") \/ Return(s, "HostKeyStoreFailed")
      BY <2>0, <3>1, <3>3, <3>5, ReturnsAVerdict DEF Results
    <3>6. CASE UNCHANGED result
      BY <2>20, <3>3, <3>6
    <3>7. QED
      BY <2>3, <3>4, <3>5, <3>6 DEF CheckStore
  <2>4. ASSUME NEW s \in Sessions, ConflictingKey(s) PROVE TOFU!Pass(s) \/ TOFU!Refuse(s)
    <3>1. result[s] = None /\ Return(s, "HostKeyChanged") /\ UNCHANGED <<storeVars, presented>>
      BY <2>4 DEF ConflictingKey, PhasesAgree, IInv
    <3>2. QED
      BY <2>0, <3>1, ReturnsAVerdict DEF Results
  <2>5. ASSUME NEW s \in Sessions, SendPrompt(s)
        PROVE  TOFU!Pass(s) \/ TOFU!Refuse(s) \/ UNCHANGED TOFU!vars
    <3>1. result[s] = None /\ UNCHANGED <<storeVars, presented>>
      BY <2>5 DEF SendPrompt, PhasesAgree, IInv
    <3>2. CASE Return(s, "Disconnected")
      BY <2>0, <3>1, <3>2, ReturnsAVerdict DEF Results
    <3>3. CASE UNCHANGED result
      BY <2>20, <3>1, <3>3
    <3>4. QED
      BY <2>5, <3>2, <3>3 DEF SendPrompt
  <2>6. ASSUME NEW s \in Sessions, ObserveOutcome(s) PROVE TOFU!Pass(s) \/ TOFU!Refuse(s)
    <3> DEFINE r == ResultOf(outcome[promptOf[s]])
    <3>1. /\ result[s] = None /\ Return(s, r)
          /\ promptOf[s] # None /\ UNCHANGED <<storeVars, presented>>
      BY <2>6 DEF ObserveOutcome, PhasesAgree, Suspended, IInv
    <3>2. r \in Results /\ (r = "ok" => outcome[promptOf[s]] = "Accepted")
      BY DEF ResultOf, Results
    <3>3. /\ presented[promptOf[s]] = presented[s]
          /\ EndpointOf[promptOf[s]] = EndpointOf[s]
          /\ promptOf[s] \in Sessions
      BY <3>1, <2>0 DEF SharersPresentTheShownKey, IInv, TypeOK
    <3>4. r = "ok" => <<EndpointOf[s], presented[s]>> \in everStored
      BY <3>2, <3>3 DEF HistoryIsComplete, IInv
    <3> HIDE DEF r
    <3>5. QED
      BY <2>0, <3>1, <3>2, <3>4, ReturnsAVerdict
  <2>7. ASSUME NEW s \in Sessions, ObserveCancellation(s) PROVE TOFU!Pass(s) \/ TOFU!Refuse(s)
    <3>1. result[s] = None /\ Return(s, "Disconnected") /\ UNCHANGED <<storeVars, presented>>
      BY <2>7 DEF ObserveCancellation, PhasesAgree, IInv
    <3>2. QED
      BY <2>0, <3>1, ReturnsAVerdict DEF Results
  <2>8. ASSUME NEW p \in Sessions, Accept(p) PROVE TOFU!Learn(p) \/ UNCHANGED TOFU!vars
    <3> USE DEF IInv
    <3>1. presented[p] # None /\ presented[p] \in Keys
      BY <2>0, <2>8 DEF Accept, MayStore, IsOpen, PromptHasLiveOwner, PhasesAgree, Suspended, TypeOK
    <3>2. UNCHANGED <<presented, result, verdict>>
      BY <2>8 DEF Accept, MayStore, verifyVars, verdict
    <3>3. CASE UNCHANGED known
      <4>1. everStored' = everStored
        BY <2>8, <3>3 DEF Accept, MayStore, HistoryIsComplete
      <4>2. QED
        BY <3>2, <3>3, <4>1 DEF TOFU!vars
    <3>4. CASE known[EndpointOf[p]] = None /\ known' = [known EXCEPT ![EndpointOf[p]] = presented[p]]
      <4>1. everStored' = everStored \cup {<<EndpointOf[p], presented[p]>>}
        BY <2>0, <2>8, <3>1, <3>4, ConstantsAssumption DEF Accept, MayStore, HistoryIsComplete, TypeOK
      <4>2. QED
        BY <3>1, <3>2, <3>4, <4>1 DEF TOFU!Learn
    <3>5. CASE known[EndpointOf[p]] = presented[p] /\ known' = [known EXCEPT ![EndpointOf[p]] = presented[p]]
      BY <2>0, <3>3, <3>5, ConstantsAssumption DEF TypeOK
    <3>6. QED
      BY <2>8, <3>1, <3>3, <3>4, <3>5 DEF Accept, MayStore
  <2>9. ASSUME NEW e \in Endpoints, Forget(e) PROVE TOFU!Forget(e)
    BY <2>9 DEF Forget, TOFU!Forget, verdict, verifyVars
  <2>10. ASSUME UNCHANGED <<storeVars, verifyVars>> PROVE UNCHANGED TOFU!vars
    BY <2>10, <2>20 DEF verifyVars
  <2>11. ASSUME UNCHANGED vars PROVE UNCHANGED TOFU!vars
    BY <2>10, <2>11 DEF vars
  <2>12. ASSUME NEW s \in Sessions,
                OpenPrompt(s) \/ JoinPrompt(s) \/ DropVerification(s)
         PROVE  UNCHANGED TOFU!vars
    BY <2>12, <2>20 DEF OpenPrompt, JoinPrompt, DropVerification
  <2>13. QED
    BY <2>1, <2>3, <2>4, <2>5, <2>6, <2>7, <2>8, <2>9, <2>10, <2>11, <2>12
    DEF Next, Start, RearmDeadline, Timeout, ConnectFails, AbortTask, RunEnds,
        HandshakeDone, Disconnect, Reject, ClearAwaiting, TOFU!Next
<1>3. QED
  BY <1>1, <1>2, Invariance, PTL DEF Spec, ImplementsTrustOnFirstUse, TOFU!Spec
=============================================================================
