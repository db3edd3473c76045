---------------------------- MODULE WindowProofs ----------------------------
(* Proofs about Window: what holds of the dialogs for any number of tabs,    *)
(* things and editors, and for a queue of any length.                       *)
EXTENDS Window, SequenceTheorems, FiniteSetTheorems, TLAPS

LEMMA InitDInv == Init => DInv
BY WindowAssumption
DEF Init, DInv, WhatIsAskedIsShown, SecretStaysWithItsTab, QuestionIsShown, Requested, InDialog

\* A step that leaves dialog, keyboard and field alone, asks for a redraw and puts
\* no other question keeps the invariant.
LEMMA DrawnStaysValid ==
  ASSUME DInv, UNCHANGED <<payload, screen, focus, field, askedToQuit, open>>, dirty' = TRUE,
         confirm' \in {confirm, None}
  PROVE  DInv'
BY DEF DInv, WhatIsAskedIsShown, SecretStaysWithItsTab, QuestionIsShown, InDialog

\* What the presenter had comes to the screen, and what is asked for to the presenter.
LEMMA DrawStep == ASSUME DInv, Draw PROVE DInv'
<1> DEFINE d == Requested
<1>1. /\ d' = d /\ screen' = payload /\ payload' = d
      /\ dirty' = (d # None \/ payload # None) /\ UNCHANGED <<open, confirm, editor>> /\ open
  BY DEF Draw, Requested, tabVars, ownVars, Dialog
<1>2. InDialog' => payload' # None
  BY <1>1 DEF Draw, NoDialog, DInv, InDialog
<1>3. payload # None /\ payload.kind = "Secret" => field' \in {None, payload.id}
  BY DEF Draw, NoDialog, ShowDialog, FocusInitial, DInv, SecretStaysWithItsTab
<1>4. d # None /\ d.kind = "Secret" => field' \in {None, d.id}
  <2>1. CASE NeedsFocus(d)
    BY <2>1 DEF Draw, ShowDialog, FocusInitial
  <2>2. CASE ~NeedsFocus(d)
    BY <2>2, <1>3 DEF NeedsFocus, FocusIdentity
  <2> QED BY <2>1, <2>2
<1>5. d # None /\ d.kind = "Confirm" => confirm \in {d.id, None}
  BY DEF Requested, Dialog
<1> HIDE DEF d
<1>6. (~dirty' => d' = None /\ payload' = None /\ screen' = None) /\ (~open' => payload' = None /\ screen' = None)
  BY <1>1
<1>7. SecretStaysWithItsTab'
  BY <1>1, <1>3, <1>4 DEF SecretStaysWithItsTab
<1>8. QuestionIsShown'
  BY <1>1, <1>5 DEF QuestionIsShown
<1> QED BY <1>2, <1>6, <1>7, <1>8 DEF DInv, WhatIsAskedIsShown, d

\* Without a window nothing is on the screen.
LEMMA GoneStep == ASSUME Gone PROVE DInv'
BY WindowAssumption
DEF Gone, DInv, WhatIsAskedIsShown, SecretStaysWithItsTab, QuestionIsShown, Requested, InDialog

\* A step that does not ask for a redraw: what is asked for may look different.
LEMMA SameScreenButFocus ==
  ASSUME DInv, editor \in EditorIds \cup {None}, InDialog' => payload # None,
         UNCHANGED <<payload, screen, askedToQuit, field, open, dirty, modals, editor, confirm, manager>>
  PROVE  DInv'
<1>1. Requested' = None <=> Requested = None
  <2>1. CASE editor # None
    <3>1. \A b \in BOOLEAN : Dialog("Editor", editor, b) \in Dialogs
      BY <2>1 DEF Dialog, Dialogs
    <3>2. (saving # None) \in BOOLEAN /\ (saving' # None) \in BOOLEAN
      OBVIOUS
    <3>3. Requested \in Dialogs /\ Requested' \in Dialogs
      BY <2>1, <3>1, <3>2 DEF Requested
    <3> QED BY <3>3, WindowAssumption
  <2>2. CASE editor = None
    BY <2>2 DEF Requested, Dialog
  <2> QED BY <2>1, <2>2
<1> QED BY <1>1 DEF DInv, WhatIsAskedIsShown, SecretStaysWithItsTab, QuestionIsShown

LEMMA TabStepKeeps == ASSUME DInv, TabStep PROVE DInv'
<1>1. /\ UNCHANGED <<payload, screen, focus, field, askedToQuit, open>> /\ dirty' = TRUE
      /\ confirm' = confirm
  BY DEF TabStep, OpenTab, SessionAsks, SessionTells, SessionEnds, Reconnect, RequestClose, CloseTimer,
         ownVars, drawVars
<1> QED BY <1>1, DrawnStaysValid

\* What the buttons and keys of the dialog d do.
Operate(d) ==
  \/ SubmitSecret(d) \/ CancelSecret(d) \/ ConfirmClose(d) \/ AnswerModal(d)
  \/ SaveEditor(d) \/ CancelEditor(d) \/ CloseManager(d)
  \/ CancelConfirm(d) \/ PerformConfirm(d)

LEMMA OperateKeeps ==
  ASSUME DInv, editor \in EditorIds \cup {None}, NEW d \in {payload, screen}, Operate(d)
  PROVE  DInv'
<1>1. CASE SubmitSecret(d) \/ CancelSecret(d)
  <2>1. /\ UNCHANGED <<payload, screen, focus, askedToQuit, open, confirm>> /\ dirty' = TRUE
        /\ field' \in {field, None}
    BY <1>1 DEF SubmitSecret, CancelSecret, ownVars
  <2> QED BY <2>1 DEF DInv, WhatIsAskedIsShown, SecretStaysWithItsTab, QuestionIsShown, InDialog
<1>2. CASE ConfirmClose(d) \/ AnswerModal(d) \/ CancelEditor(d) \/ CloseManager(d) \/ CancelConfirm(d)
  <2>1. /\ UNCHANGED <<payload, screen, focus, field, askedToQuit, open>> /\ dirty' = TRUE
        /\ confirm' \in {confirm, None}
    BY <1>2 DEF ConfirmClose, AnswerModal, CancelEditor, CloseManager, CancelConfirm, ownVars, drawVars
  <2> QED BY <2>1, DrawnStaysValid
<1>3. CASE SaveEditor(d)
  BY <1>3, SameScreenButFocus DEF SaveEditor, tabVars, drawVars, DInv, InDialog
<1>4. CASE PerformConfirm(d)
  <2>1. CASE Gone
    BY <2>1, GoneStep
  <2>2. CASE ~Gone
    BY <1>4, <2>2, DrawnStaysValid DEF PerformConfirm, drawVars
  <2> QED BY <2>1, <2>2
<1> QED BY <1>1, <1>2, <1>3, <1>4 DEF Operate

LEMMA DialogStepKeeps ==
  ASSUME DInv, editor \in EditorIds \cup {None}, DialogStep PROVE DInv'
<1>1. CASE \E d \in {payload, screen} : Operate(d)
  BY <1>1, OperateKeeps
<1>2. CASE MoveFocus \/ \E where \in {"first", "later", "window"} : PointAt(where)
  BY <1>2, SameScreenButFocus DEF MoveFocus, PointAt, tabVars, ownVars, InDialog, DInv
<1>3. CASE TypeSecret
  <2>1. UNCHANGED <<payload, focus, askedToQuit, open, confirm, dirty>> /\ payload # None /\ dirty
    BY <1>3 DEF TypeSecret, ownVars, DInv, WhatIsAskedIsShown
  <2> QED BY <1>3, <2>1
    DEF TypeSecret, DInv, WhatIsAskedIsShown, SecretStaysWithItsTab, QuestionIsShown, InDialog
<1>4. CASE SaveEnds
  <2>1. CASE dirty' = TRUE
    BY <1>4, <2>1, DrawnStaysValid DEF SaveEnds, drawVars
  <2>2. CASE dirty' # TRUE
    BY <1>4, <2>2, SameScreenButFocus DEF SaveEnds, tabVars, drawVars, DInv, InDialog
  <2> QED BY <2>1, <2>2
<1> QED BY <1>1, <1>2, <1>3, <1>4 DEF DialogStep, Operate

LEMMA WindowStepKeeps ==
  ASSUME DInv, editor \in EditorIds \cup {None}, WindowStep PROVE DInv'
<1>1. ASSUME NEW where \in {"terminal", "window"}, Click(where) PROVE DInv'
  BY <1>1, SameScreenButFocus DEF Click, tabVars, ownVars, InDialog
<1>2. ASSUME NEW x \in Things, RequestDelete(x) PROVE DInv'
  <2>1. /\ UNCHANGED <<payload, screen, focus, field, askedToQuit, open>> /\ dirty' = TRUE
        /\ screen # None => screen.kind = "TagManager"
    BY <1>2 DEF RequestDelete, AtWindow, drawVars
  <2> QED BY <2>1 DEF DInv, WhatIsAskedIsShown, SecretStaysWithItsTab, QuestionIsShown, InDialog
<1>3. ASSUME NEW id \in EditorIds, OpenEditor(id) PROVE DInv'
  BY <1>3, DrawnStaysValid DEF OpenEditor, drawVars
<1>4. ASSUME NEW how \in Quits, Leave(how) PROVE DInv'
  <2>1. CASE HasLiveTabs
    BY <1>4, <2>1
    DEF Leave, DInv, WhatIsAskedIsShown, SecretStaysWithItsTab, QuestionIsShown, InDialog
  <2>2. CASE ~HasLiveTabs
    BY <1>4, <2>2, GoneStep DEF Leave
  <2> QED BY <2>1, <2>2
<1>5. CASE OpenManager
  BY <1>5, DrawnStaysValid DEF OpenManager, drawVars
<1>6. CASE OpenWindow
  BY <1>6 DEF OpenWindow, tabVars, ownVars, drawVars, DInv, Requested, Dialog,
     WhatIsAskedIsShown, SecretStaysWithItsTab, QuestionIsShown, InDialog
<1> QED BY <1>1, <1>2, <1>3, <1>4, <1>5, <1>6 DEF WindowStep

LEMMA InvariantStep == IInv /\ [Next]_vars => DInv'
<1> SUFFICES ASSUME IInv, [Next]_vars PROVE DInv'
  OBVIOUS
<1>1. DInv /\ editor \in EditorIds \cup {None}
  BY DEF IInv, TypeOK
<1>2. CASE UNCHANGED vars
  BY <1>1, <1>2, SameScreenButFocus DEF vars, tabVars, ownVars, drawVars, InDialog, DInv
<1> QED BY <1>1, <1>2, DrawStep, TabStepKeeps, DialogStepKeeps, WindowStepKeeps DEF Next

-----------------------------------------------------------------------------
(* Types. What is left of the queue without a tab is a queue: the          *)
(* positions that stay are those of its entries.                           *)

LEMMA Positions ==
  ASSUME NEW N \in Nat, NEW K \in SUBSET (1 .. N)
  PROVE  Cardinality(K) \in Nat /\ \A n \in 1 .. Cardinality(K) : Position(K, n) \in K
<1>. DEFINE C == Cardinality(K)
            Upto(i) == {j \in K : j <= i}
            rank == [i \in K |-> Cardinality(Upto(i))]
<1>1. IsFiniteSet(K) /\ C \in Nat
  <2>1. IsFiniteSet(1 .. N)
    BY FS_Interval
  <2>2. IsFiniteSet(K)
    BY <2>1, FS_Subset
  <2>. QED BY <2>2, FS_CardinalityType
<1>2. \A i \in K : IsFiniteSet(Upto(i)) /\ Cardinality(Upto(i)) \in 1 .. C
  <2>. TAKE i \in K
  <2>1. Upto(i) \in SUBSET K /\ Upto(i) # {}
    OBVIOUS
  <2>. HIDE DEF Upto
  <2>2. IsFiniteSet(Upto(i)) /\ Cardinality(Upto(i)) <= C
    BY <1>1, <2>1, FS_Subset
  <2>3. Cardinality(Upto(i)) \in Nat /\ Cardinality(Upto(i)) # 0
    BY <2>1, <2>2, FS_CardinalityType, FS_EmptySet
  <2>. QED BY <1>1, <2>2, <2>3
<1>3. ASSUME NEW i \in K, NEW j \in K, Cardinality(Upto(i)) = Cardinality(Upto(j)) PROVE i = j
  <2>1. (i <= j => Upto(i) \in SUBSET Upto(j)) /\ (j <= i => Upto(j) \in SUBSET Upto(i))
    <3>1. i \in Nat /\ j \in Nat /\ \A k \in K : k \in Nat
      OBVIOUS
    <3>2. \A k \in K : (i <= j /\ k <= i => k <= j) /\ (j <= i /\ k <= j => k <= i)
      BY <3>1
    <3>. QED BY <3>2
  <2>2. Upto(i) = Upto(j)
    <3>1. i <= j \/ j <= i
      OBVIOUS
    <3>. HIDE DEF Upto
    <3>. QED BY <1>2, <1>3, <2>1, <3>1, FS_Subset
  <2>. QED BY <2>2
<1>4. rank \in Surjection(K, 1 .. C)
  <2>1. rank \in Injection(K, 1 .. C)
    BY <1>2, <1>3 DEF Injection, IsInjective
  <2>2. IsFiniteSet(1 .. C) /\ Cardinality(1 .. C) = C
    BY <1>1, FS_Interval
  <2>. QED BY <2>1, <2>2, FS_Injection
<1>5. ASSUME NEW n \in 1 .. C PROVE Position(K, n) \in K
  <2>1. \E i \in K : Cardinality(Upto(i)) = n
    BY <1>4 DEF Surjection
  <2>. QED BY <2>1 DEF Position
<1>. QED BY <1>1, <1>5

Modals == [kind : ModalKinds, id : Tabs, busy : {FALSE}]

LEMMA Remaining ==
  ASSUME NEW q \in Seq(Modals), NEW t
  PROVE  Without(q, t) \in Seq(Modals)
<1>. DEFINE K == {i \in DOMAIN q : q[i].id # t}
<1>1. Len(q) \in Nat /\ K \in SUBSET (1 .. Len(q)) /\ \A i \in K : q[i] \in Modals
  OBVIOUS
<1>2. Without(q, t) = Retain(q, K)
  BY DEF Without
<1>. HIDE DEF K
<1>3. Cardinality(K) \in Nat /\ \A n \in 1 .. Cardinality(K) : Position(K, n) \in K
  BY <1>1, Positions
<1>4. Retain(q, K) \in [1 .. Cardinality(K) -> Modals]
  BY <1>1, <1>3 DEF Retain
<1>5. Retain(q, K) \in Seq(Modals)
  BY <1>3, <1>4, SeqDef
<1>. QED BY <1>2, <1>5

\* Requests that are added are about tabs.
LEMMA Added ==
  ASSUME NEW q \in Seq(Modals), NEW k \in ModalKinds, NEW t \in Tabs
  PROVE  Append(q, Dialog(k, t, FALSE)) \in Seq(Modals)
<1>1. Dialog(k, t, FALSE) \in Modals
  BY DEF Dialog, Modals
<1>. QED BY <1>1, AppendProperties

TabTypes == tab \in [Tabs -> {"none", "live", "connected", "ended"}] /\ closing \subseteq Tabs
OtherTypes ==
  /\ things \subseteq Things
  /\ editor \in EditorIds \cup {None} /\ saving \in EditorIds \cup {None}
  /\ confirm \in Things \cup Quits \cup {None} /\ manager \in BOOLEAN
  /\ payload \in Dialogs \cup {None} /\ screen \in Dialogs \cup {None}
  /\ focus \in {"terminal", "window", "first", "later"} /\ wanted \in BOOLEAN
  /\ field \in Tabs \cup {None} /\ askedToQuit \in BOOLEAN /\ dirty \in BOOLEAN /\ open \in BOOLEAN

LEMMA Types ==
  /\ TypeOK <=> TabTypes /\ modals \in Seq(Modals) /\ OtherTypes
  /\ TypeOK' <=> TabTypes' /\ modals' \in Seq(Modals) /\ OtherTypes'
BY DEF TypeOK, TabTypes, OtherTypes, Modals

LEMMA RemoveTypes ==
  ASSUME TabTypes, NEW t \in Tabs, NEW q \in Seq(Modals), RemoveTab(t, q)
  PROVE  TabTypes' /\ modals' \in Seq(Modals)
BY Remaining DEF TabTypes, RemoveTab

LEMMA TabStepTypes == ASSUME TypeOK, TabStep PROVE TypeOK'
<1>. USE DEF TabTypes
<1>1. TabTypes /\ modals \in Seq(Modals) /\ OtherTypes
  BY Types
<1>2. OtherTypes'
  <2>1. /\ UNCHANGED <<ownVars, payload, screen, focus, field, askedToQuit, open>> /\ dirty' = TRUE
        /\ wanted' \in {wanted, TRUE}
    BY DEF TabStep, OpenTab, SessionAsks, SessionTells, SessionEnds, Reconnect, RequestClose,
           CloseTimer, drawVars
  <2>2. UNCHANGED <<things, editor, saving, confirm, manager>> /\ wanted' \in BOOLEAN /\ dirty' \in BOOLEAN
    BY <1>1, <2>1 DEF ownVars, OtherTypes
  <2>. QED BY <1>1, <2>1, <2>2 DEF OtherTypes
<1>3. PICK t \in Tabs :
        \/ \E b \in BOOLEAN : OpenTab(t, b) \/ SessionEnds(t, b) \/ Reconnect(t, b)
        \/ \E k \in {"HostKey", "Secret"} : SessionAsks(t, k)
        \/ SessionTells(t) \/ RequestClose(t) \/ CloseTimer(t)
  BY DEF TabStep
<1>4. /\ Without(modals, t) \in Seq(Modals)
      /\ \A k \in ModalKinds :
           Ask(k, t) \in Seq(Modals) /\ Append(Without(modals, t), Dialog(k, t, FALSE)) \in Seq(Modals)
  BY <1>1, Remaining, Added DEF Ask
<1>5. RemoveTab(t, modals) => TabTypes' /\ modals' \in Seq(Modals)
  BY <1>1, RemoveTypes
<1>6. TabTypes' /\ modals' \in Seq(Modals)
  <2>1. ASSUME NEW b \in BOOLEAN, OpenTab(t, b) PROVE TabTypes' /\ modals' \in Seq(Modals)
    BY <1>1, <1>4, <2>1 DEF OpenTab, ModalKinds
  <2>2. ASSUME NEW b \in BOOLEAN, SessionEnds(t, b) PROVE TabTypes' /\ modals' \in Seq(Modals)
    BY <1>1, <1>4, <1>5, <2>2 DEF SessionEnds, ModalKinds
  <2>3. ASSUME NEW b \in BOOLEAN, Reconnect(t, b) PROVE TabTypes' /\ modals' \in Seq(Modals)
    BY <1>1, <1>4, <2>3 DEF Reconnect, ModalKinds
  <2>4. ASSUME NEW k \in {"HostKey", "Secret"}, SessionAsks(t, k)
        PROVE  TabTypes' /\ modals' \in Seq(Modals)
    BY <1>1, <1>4, <2>4 DEF SessionAsks, ModalKinds
  <2>5. CASE SessionTells(t)
    BY <1>1, <2>5 DEF SessionTells
  <2>6. CASE RequestClose(t)
    BY <1>1, <1>4, <1>5, <2>6 DEF RequestClose, ModalKinds
  <2>7. CASE CloseTimer(t)
    BY <1>5, <2>7 DEF CloseTimer
  <2>. QED BY <1>3, <2>1, <2>2, <2>3, <2>4, <2>5, <2>6, <2>7
<1>. QED BY <1>2, <1>6, Types

\* A dialog that is answered is about a tab, and the first in the queue.
LEMMA AnsweredTypes ==
  ASSUME TypeOK, NEW k \in ModalKinds, NEW d, Answered(k, d)
  PROVE  d.id \in Tabs /\ Tail(modals) \in Seq(Modals) /\ Without(modals, d.id) \in Seq(Modals)
<1>1. modals \in Seq(Modals) /\ modals # <<>> /\ Head(modals) = d
  BY Types DEF Answered, IsCurrent
<1>2. Head(modals) \in Modals /\ Tail(modals) \in Seq(Modals)
  BY <1>1, HeadTailProperties
<1>. QED BY <1>1, <1>2, Remaining DEF Modals

LEMMA GoneTypes == ASSUME TypeOK, Gone PROVE TypeOK'
<1>1. TabTypes' /\ modals' \in Seq(Modals)
  BY DEF Gone, TabTypes
<1>2. OtherTypes'
  BY Types DEF Gone, OtherTypes
<1>. QED BY <1>1, <1>2, Types

LEMMA SameQueueTypes ==
  ASSUME TypeOK, UNCHANGED tabVars, OtherTypes'
  PROVE  TypeOK'
BY Types DEF tabVars, TabTypes

LEMMA OperateTypes ==
  ASSUME TypeOK, NEW d \in {payload, screen}, Operate(d) PROVE TypeOK'
<1>. USE DEF TabTypes, OtherTypes
<1>1. TabTypes /\ modals \in Seq(Modals) /\ OtherTypes
  BY Types
<1>2. CASE SaveEditor(d) \/ CancelEditor(d) \/ CloseManager(d) \/ CancelConfirm(d)
  <2>1. UNCHANGED tabVars
    BY <1>2 DEF SaveEditor, CancelEditor, CloseManager, CancelConfirm
  <2>2. OtherTypes'
    BY <1>1, <1>2 DEF SaveEditor, CancelEditor, CloseManager, CancelConfirm, drawVars
  <2>. QED BY <2>1, <2>2, SameQueueTypes
<1>3. CASE SubmitSecret(d)
  <2>1. d.id \in Tabs /\ Tail(modals) \in Seq(Modals) /\ Without(modals, d.id) \in Seq(Modals)
    BY <1>3, AnsweredTypes DEF SubmitSecret, ModalKinds
  <2>2. TabTypes' /\ modals' \in Seq(Modals)
    BY <1>1, <1>3, <2>1 DEF SubmitSecret, tabVars
  <2>3. OtherTypes'
    BY <1>1, <1>3 DEF SubmitSecret, ownVars
  <2>. QED BY <2>2, <2>3, Types
<1>4. CASE CancelSecret(d)
  <2>1. d.id \in Tabs /\ Tail(modals) \in Seq(Modals)
    BY <1>4, AnsweredTypes DEF CancelSecret, ModalKinds
  <2>2. TabTypes' /\ modals' \in Seq(Modals)
    BY <1>1, <1>4, <2>1, RemoveTypes DEF CancelSecret
  <2>3. OtherTypes'
    BY <1>1, <1>4 DEF CancelSecret, ownVars
  <2>. QED BY <2>2, <2>3, Types
<1>5. CASE AnswerModal(d)
  <2>1. Tail(modals) \in Seq(Modals)
    BY <1>5, AnsweredTypes DEF AnswerModal, ModalKinds
  <2>2. TabTypes' /\ modals' \in Seq(Modals)
    BY <1>1, <1>5, <2>1 DEF AnswerModal
  <2>3. OtherTypes'
    BY <1>1, <1>5 DEF AnswerModal, ownVars, drawVars
  <2>. QED BY <2>2, <2>3, Types
<1>6. CASE ConfirmClose(d)
  <2>1. d.id \in Tabs /\ Tail(modals) \in Seq(Modals)
    BY <1>6, AnsweredTypes DEF ConfirmClose, ModalKinds
  <2>2. TabTypes' /\ modals' \in Seq(Modals)
    BY <1>1, <1>6, <2>1, RemoveTypes DEF ConfirmClose
  <2>3. OtherTypes'
    BY <1>1, <1>6 DEF ConfirmClose, ownVars, drawVars
  <2>. QED BY <2>2, <2>3, Types
<1>7. CASE PerformConfirm(d)
  <2>1. CASE Gone
    BY <2>1, GoneTypes
  <2>2. CASE /\ confirm' = None /\ things' \in {things, things \ {confirm}} /\ dirty' = TRUE
             /\ UNCHANGED <<tabVars, editor, saving, manager, drawVars, open>>
    <3>1. OtherTypes'
      BY <1>1, <2>2 DEF drawVars
    <3>. QED BY <2>2, <3>1, SameQueueTypes
  <2>. QED BY <1>7, <2>1, <2>2 DEF PerformConfirm
<1>. QED BY <1>2, <1>3, <1>4, <1>5, <1>6, <1>7 DEF Operate

LEMMA DialogStepTypes == ASSUME TypeOK, DialogStep PROVE TypeOK'
<1>. USE DEF OtherTypes
<1>1. OtherTypes
  BY Types
<1>2. CASE MoveFocus \/ SaveEnds \/ \E where \in {"first", "later", "window"} : PointAt(where)
  <2>1. UNCHANGED tabVars
    BY <1>2 DEF MoveFocus, SaveEnds, PointAt
  <2>2. OtherTypes'
    BY <1>1, <1>2 DEF MoveFocus, SaveEnds, PointAt, ownVars, drawVars
  <2>. QED BY <2>1, <2>2, SameQueueTypes
<1>3. CASE TypeSecret
  <2>1. payload.id \in Tabs
    BY <1>1, <1>3 DEF TypeSecret, Dialogs
  <2>2. UNCHANGED tabVars /\ OtherTypes'
    BY <1>1, <1>3, <2>1 DEF TypeSecret, ownVars
  <2>. QED BY <2>2, SameQueueTypes
<1>4. CASE \E d \in {payload, screen} : Operate(d)
  BY <1>4, OperateTypes
<1>. QED BY <1>2, <1>3, <1>4 DEF DialogStep, Operate

LEMMA WindowStepTypes == ASSUME TypeOK, WindowStep PROVE TypeOK'
<1>. USE DEF OtherTypes
<1>1. OtherTypes
  BY Types
<1>2. ASSUME NEW how \in Quits, Leave(how) PROVE TypeOK'
  <2>1. CASE Gone
    BY <2>1, GoneTypes
  <2>2. CASE /\ confirm' = how /\ askedToQuit' = TRUE /\ dirty' = TRUE
             /\ UNCHANGED <<tabVars, things, editor, saving, manager, payload, screen, focus, wanted,
                            field, open>>
    <3>1. OtherTypes'
      BY <1>1, <2>2
    <3>. QED BY <2>2, <3>1, SameQueueTypes
  <2>. QED BY <1>2, <2>1, <2>2 DEF Leave
<1>3. CASE \/ \E where \in {"terminal", "window"} : Click(where)
           \/ \E x \in Things : RequestDelete(x)
           \/ \E id \in EditorIds : OpenEditor(id)
           \/ OpenManager \/ OpenWindow
  <2>1. UNCHANGED tabVars
    BY <1>3 DEF Click, RequestDelete, OpenEditor, OpenManager, OpenWindow
  <2>2. OtherTypes'
    BY <1>1, <1>3 DEF Click, RequestDelete, OpenEditor, OpenManager, OpenWindow, ownVars, drawVars
  <2>. QED BY <2>1, <2>2, SameQueueTypes
<1>. QED BY <1>2, <1>3 DEF WindowStep

\* A frame shows what the presenter has, which gets what is asked for.
LEMMA DrawTypes == ASSUME TypeOK, Draw PROVE TypeOK'
<1>. USE DEF OtherTypes
<1>1. OtherTypes /\ modals \in Seq(Modals)
  BY Types
<1>2. Requested \in Dialogs \cup {None}
  <2>1. modals # <<>> => Head(modals) \in Dialogs
    <3>1. modals # <<>> => Head(modals) \in Modals
      BY <1>1, HeadTailProperties
    <3>. QED BY <3>1 DEF Modals, Dialogs
  <2>2. editor # None => Dialog("Editor", editor, saving # None) \in Dialogs
    BY <1>1 DEF Dialog, Dialogs
  <2>3. /\ confirm # None => Dialog("Confirm", confirm, FALSE) \in Dialogs
        /\ Dialog("TagManager", None, FALSE) \in Dialogs
    BY <1>1 DEF Dialog, Dialogs
  <2>. QED BY <2>1, <2>2, <2>3 DEF Requested
<1>3. /\ payload' \in Dialogs \cup {None} /\ screen' \in Dialogs \cup {None}
      /\ askedToQuit' \in BOOLEAN /\ dirty' \in BOOLEAN /\ UNCHANGED <<tabVars, ownVars, open>>
  BY <1>1, <1>2 DEF Draw
<1>4. /\ focus' \in {"terminal", "window", "first", "later"} /\ wanted' \in BOOLEAN
      /\ field' \in Tabs \cup {None}
  BY <1>1 DEF Draw, NoDialog, ShowDialog, FocusInitial
<1>5. OtherTypes'
  BY <1>1, <1>3, <1>4 DEF ownVars
<1>. QED BY <1>3, <1>5, SameQueueTypes

LEMMA TypesKept == TypeOK /\ [Next]_vars => TypeOK'
<1>. SUFFICES ASSUME TypeOK, [Next]_vars PROVE TypeOK'
  OBVIOUS
<1>1. CASE UNCHANGED vars
  <2>1. OtherTypes' /\ UNCHANGED tabVars
    BY <1>1, Types DEF OtherTypes, vars, ownVars, drawVars
  <2>. QED BY <2>1, SameQueueTypes
<1>. QED BY <1>1, DrawTypes, TabStepTypes, DialogStepTypes, WindowStepTypes DEF Next

LEMMA InitTypes == Init => TypeOK
<1>. SUFFICES ASSUME Init PROVE TabTypes /\ modals \in Seq(Modals) /\ OtherTypes
  BY Types
<1>1. TabTypes
  BY DEF Init, TabTypes
<1>2. modals \in Seq(Modals)
  BY EmptySeq DEF Init
<1>3. OtherTypes
  BY DEF Init, OtherTypes
<1>. QED BY <1>1, <1>2, <1>3

-----------------------------------------------------------------------------
(* The theorems.                                                           *)

(* The window keeps its inductive invariant, whatever the user and the     *)
(* sessions do before a frame, between the frame that gives the presenter  *)
(* a dialog and the one that shows it, and later (AppView::render and      *)
(* sync_dialog_layer).                                                     *)
THEOREM Invariance == Spec => []IInv
<1>1. Init => IInv
  BY InitTypes, InitDInv DEF IInv
<1>2. IInv /\ [Next]_vars => IInv'
  BY TypesKept, InvariantStep DEF IInv
<1>. QED BY <1>1, <1>2, PTL DEF Spec

LEMMA Dialogues == Spec => []DInv
<1>1. IInv => DInv
  BY DEF IInv
<1>. QED BY <1>1, Invariance, PTL

(* The prompts for a secret never mix up their tabs: what the shared field *)
(* holds was typed for the tab that presenter and screen name.             *)
THEOREM SecretsStay == Spec => []SecretStaysWithItsTab
<1>1. DInv => SecretStaysWithItsTab
  BY DEF DInv
<1> QED BY <1>1, Dialogues, PTL

\* Only a frame gives the presenter a dialog.
LEMMA OnlyFrames ==
  ASSUME [Next]_vars, ~Draw
  PROVE  payload' \in {payload, None}
BY DEF Next, TabStep, OpenTab, SessionAsks, SessionTells, SessionEnds, Reconnect, RequestClose, CloseTimer,
       DialogStep, SubmitSecret, CancelSecret, ConfirmClose, AnswerModal, SaveEditor, CancelEditor,
       CloseManager, CancelConfirm, PerformConfirm, PointAt, MoveFocus, TypeSecret, SaveEnds,
       WindowStep, Click, RequestDelete, OpenEditor, Leave, OpenManager, OpenWindow, Gone,
       drawVars, vars

LEMMA KeysStep ==
  ASSUME DInv, [Next]_vars, payload' # None, ~InDialog'
  PROVE  /\ payload # None /\ FocusIdentity(payload') = FocusIdentity(payload)
         /\ InDialog => ~IsDrawn
<1>1. CASE Draw
  <2>1. Requested # None /\ payload' = Requested
    BY <1>1 DEF Draw
  <2>2. ~NeedsFocus(Requested)
    BY <1>1, <2>1 DEF Draw, ShowDialog, FocusInitial, InDialog
  <2>3. focus' = focus
    BY <1>1, <2>1, <2>2 DEF Draw, ShowDialog
  <2> QED BY <2>1, <2>2, <2>3 DEF NeedsFocus, InDialog
<1>2. CASE ~Draw
  <2>1. payload' = payload
    BY <1>2, OnlyFrames
  <2>2. InDialog => ~IsDrawn
    <3>1. CASE \E where \in {"terminal", "window"} : Click(where)
      BY <3>1 DEF Click, AtWindow, IsDrawn
    <3>2. CASE \E where \in {"first", "later", "window"} : PointAt(where)
      BY <3>2 DEF PointAt, InDialog
    <3>3. CASE focus' = focus
      BY <3>3 DEF InDialog
    <3>4. CASE MoveFocus
      BY <3>4 DEF MoveFocus, InDialog
    <3>5. CASE Gone
      BY <3>5 DEF Gone
    <3>6. CASE TabStep \/ DialogStep
      BY <3>2, <3>3, <3>4, <3>5, <3>6
      DEF TabStep, OpenTab, SessionAsks, SessionTells, SessionEnds, Reconnect, RequestClose, CloseTimer,
          DialogStep, SubmitSecret, CancelSecret, ConfirmClose, AnswerModal, SaveEditor, CancelEditor,
          CloseManager, CancelConfirm, PerformConfirm, TypeSecret, SaveEnds, drawVars
    <3>7. CASE WindowStep \/ UNCHANGED vars
      BY <3>1, <3>3, <3>5, <3>7
      DEF WindowStep, RequestDelete, OpenEditor, Leave, OpenManager, OpenWindow, drawVars, vars
    <3> QED BY <1>2, <3>6, <3>7 DEF Next
  <2> QED BY <2>1, <2>2
<1> QED BY <1>1, <1>2

(* A dialog gets the keyboard with the presenter, and once it is on the    *)
(* screen nothing takes it away: what is typed cannot reach a shell        *)
(* (DialogPresenter and the focus of AppView).                             *)
THEOREM KeysStay == Spec => KeysStayInTheDialog
<1>1. DInv /\ [Next]_vars =>
        [ payload' # None /\ ~InDialog' =>
            /\ payload # None /\ FocusIdentity(payload') = FocusIdentity(payload)
            /\ InDialog => ~IsDrawn ]_vars
  BY KeysStep
<1> QED BY <1>1, Dialogues, PTL DEF Spec, KeysStayInTheDialog

\* Deletions and the end of running sessions are asked about.
LEMMA AskedStep ==
  ASSUME DInv, [Next]_vars
  PROVE  /\ \A x \in things \ things' :
              Asking /\ confirm = x /\ (screen = payload => screen.id = x)
         /\ open /\ ~open' /\ Live # {} =>
              /\ Asking /\ confirm \in Quits
              /\ screen = payload /\ ~askedToQuit => screen.id = confirm
<1>1. CASE things' = things /\ open' = open
  BY <1>1
<1>2. CASE SaveEnds
  BY <1>2 DEF SaveEnds
<1>3. ASSUME NEW d \in {payload, screen}, PerformConfirm(d)
      PROVE  /\ \A x \in things \ things' :
                  Asking /\ confirm = x /\ (screen = payload => screen.id = x)
             /\ open /\ ~open' /\ Live # {} =>
                  /\ Asking /\ confirm \in Quits
                  /\ screen = payload /\ ~askedToQuit => screen.id = confirm
  <2>1. d # None /\ d.kind = "Confirm"
    BY <1>3 DEF PerformConfirm, Acts
  <2>2. Asking
    BY <2>1 DEF Asking
  <2>3. screen = payload => confirm \in {screen.id, None} \/ (askedToQuit /\ confirm \in Quits)
    BY <2>1 DEF DInv, QuestionIsShown
  <2>4. CASE confirm \in Quits /\ Gone
    BY <2>2, <2>3, <2>4, WindowAssumption DEF Gone
  <2>5. CASE confirm \in Things /\ things' \in {things, things \ {confirm}} /\ open' = open
    BY <2>2, <2>3, <2>5, WindowAssumption
  <2> QED BY <1>3, <2>4, <2>5 DEF PerformConfirm
<1>4. CASE \E how \in Quits : Leave(how)
  BY <1>4 DEF Leave, Gone, HasLiveTabs
<1>5. CASE OpenWindow
  BY <1>5 DEF OpenWindow, ownVars
<1>6. CASE Draw \/ TabStep \/ UNCHANGED vars
  BY <1>6, <1>1
  DEF Draw, TabStep, OpenTab, SessionAsks, SessionTells, SessionEnds, Reconnect, RequestClose, CloseTimer,
      ownVars, vars
<1>7. CASE \/ \E d \in {payload, screen} :
                \/ SubmitSecret(d) \/ CancelSecret(d) \/ ConfirmClose(d) \/ AnswerModal(d)
                \/ SaveEditor(d) \/ CancelEditor(d) \/ CloseManager(d) \/ CancelConfirm(d)
           \/ \E where \in {"first", "later", "window"} : PointAt(where)
           \/ MoveFocus \/ TypeSecret
  BY <1>7, <1>1
  DEF MoveFocus, PointAt, TypeSecret, SubmitSecret, CancelSecret, ConfirmClose, AnswerModal, SaveEditor,
      CancelEditor, CloseManager, CancelConfirm, ownVars
<1>8. CASE \/ \E where \in {"terminal", "window"} : Click(where)
           \/ \E x \in Things : RequestDelete(x)
           \/ \E id \in EditorIds : OpenEditor(id)
           \/ OpenManager
  BY <1>8, <1>1 DEF Click, RequestDelete, OpenEditor, OpenManager, ownVars
<1>9. CASE \E d \in {payload, screen} : PerformConfirm(d)
  BY <1>3, <1>9
<1> QED BY <1>1, <1>2, <1>4, <1>5, <1>6, <1>7, <1>8, <1>9 DEF Next, DialogStep, WindowStep

(* What is deleted was asked about, and when the screen shows what the     *)
(* presenter has, in the question on the screen; sessions that run end     *)
(* with the window only when a question whether to quit is answered, or    *)
(* another question after the user asked to quit.                          *)
THEOREM NothingLost == Spec => NothingIsLostUnasked
<1>1. DInv /\ [Next]_vars =>
        [ /\ \A x \in things \ things' :
               Asking /\ confirm = x /\ (screen = payload => screen.id = x)
          /\ open /\ ~open' /\ Live # {} =>
               /\ Asking /\ confirm \in Quits
               /\ screen = payload /\ ~askedToQuit => screen.id = confirm ]_vars
  BY AskedStep
<1> QED BY <1>1, Dialogues, PTL DEF Spec, NothingIsLostUnasked

(* A frame after which the presenter has the same dialog leaves keyboard   *)
(* and text alone.                                                         *)
THEOREM TypingGoesOn == Spec => TypingIsNotDisturbed
<1>1. [Next]_vars =>
        [ payload # None /\ payload' # None /\ FocusIdentity(payload') = FocusIdentity(payload) /\ Draw
            => UNCHANGED <<focus, field>> ]_vars
  <2> SUFFICES ASSUME payload # None, payload' # None, FocusIdentity(payload') = FocusIdentity(payload), Draw
               PROVE  UNCHANGED <<focus, field>>
    OBVIOUS
  <2>1. payload' = Requested /\ Requested # None
    BY DEF Draw
  <2> QED BY <2>1 DEF Draw, ShowDialog, NeedsFocus
<1> QED BY <1>1, PTL DEF Spec, TypingIsNotDisturbed
=============================================================================
