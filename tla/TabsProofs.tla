----------------------------- MODULE TabsProofs -----------------------------
(***************************************************************************)
(* Proofs about Tabs, for any tabs, profiles, sessions and prompts. The    *)
(* invariant has four parts: what a handler does to a tab and its sessions *)
(* (Shape), which few operators do in all the handlers; the strip; the     *)
(* queue of requests, whose order matters only for which one is first, so  *)
(* that it is treated as the set of its requests; and the rest with the    *)
(* timers of closing tabs (Rest).                                          *)
(***************************************************************************)
EXTENDS Tabs, SequenceTheorems, FiniteSetTheorems, TLAPS

States == {"unused", "removed", "Connecting", "AwaitingHostKey", "AwaitingSecret",
           "Connected", "Disconnected"}
\* What a tab is in without a session.
Idle   == {"Connecting", "AwaitingSecret", "Disconnected"}

ShapeTypes ==
  /\ state \in [TabIds -> States] /\ session \in [TabIds -> Sessions \cup {None}]
  /\ home \in [Sessions -> TabIds \cup {None}] /\ cancelled \subseteq Sessions
  /\ told \in [Sessions -> SUBSET (Kinds \cup {"Error"})]
Shape == ShapeTypes /\ SilentBeforeStart /\ TabShowsItsSession /\ SessionsAreHeldOrCancelled

RestTypes ==
  /\ shown \in Requests \cup {None} /\ kind \in [TabIds -> Profiles \cup {Local, None}]
  /\ closing \in [TabIds -> BOOLEAN]
  /\ connecting \subseteq Profiles /\ preflight \subseteq TabIds
  /\ timers \in [TabIds -> Nat] /\ quitting \in BOOLEAN
  /\ prompt \in [Sessions -> Prompts \cup {None}]
  /\ status \in [Prompts -> {"unused", "open", "accepted", "refused"}]
  /\ owner \in [Prompts -> Sessions \cup {None}]
Rest == RestTypes /\ ClosingTabsHaveATimer

LEMMA FourParts ==
  /\ IInv <=> Shape /\ Rest /\ StripInv /\ QueueInv
  /\ IInv' <=> Shape' /\ Rest' /\ StripInv' /\ QueueInv'
BY DEF IInv, TypeOK, Shape, ShapeTypes, Rest, RestTypes, States

-----------------------------------------------------------------------------
(* What happens to a tab and its sessions.                                 *)

\* The tab gets a new session, or loses the one it had.
Started(t) ==
  \E s \in Sessions :
    /\ home[s] = None /\ home' = [home EXCEPT ![s] = t]
    /\ state' = [state EXCEPT ![t] = "Connecting"]
    /\ session' = [session EXCEPT ![t] = s]
    /\ cancelled' = cancelled \cup Held(t)
Begun(t)   == Started(t) \/ (UNCHANGED home /\ \E x \in Idle : Release(t, x))
Removed(t) == Release(t, "removed") /\ closing' = [closing EXCEPT ![t] = FALSE]

shapeVars == <<state, session, home, cancelled, told>>

\* A tab that is released shows that it has no session, and its session is cancelled.
LEMMA ReleaseStep ==
  ASSUME Shape, NEW t \in TabIds, NEW x \in Idle \cup {"removed"},
         Release(t, x), UNCHANGED <<home, told>>
  PROVE  Shape'
<1>. USE DEF Shape, ShapeTypes, Release, Held
<1>1. ShapeTypes'
  BY DEF Idle, States
<1>2. SilentBeforeStart'
  BY DEF SilentBeforeStart
<1>3. TabShowsItsSession'
  BY DEF TabShowsItsSession, Shows, Idle
<1>4. SessionsAreHeldOrCancelled'
  BY TabsAssumption DEF SessionsAreHeldOrCancelled
<1>. QED BY <1>1, <1>2, <1>3, <1>4

\* A new session is silent, so its tab shows Connecting; the former one is cancelled.
LEMMA StartStep ==
  ASSUME Shape, NEW t \in TabIds, Started(t), UNCHANGED told
  PROVE  Shape'
<1>. USE DEF Shape, ShapeTypes, Held
<1>1. PICK s \in Sessions :
        /\ home[s] = None /\ home' = [home EXCEPT ![s] = t]
        /\ state' = [state EXCEPT ![t] = "Connecting"]
        /\ session' = [session EXCEPT ![t] = s]
        /\ cancelled' = cancelled \cup Held(t)
  BY DEF Started
<1>2. ShapeTypes'
  BY <1>1 DEF States
<1>3. SilentBeforeStart'
  BY <1>1, TabsAssumption DEF SilentBeforeStart
<1>4. told[s] = {} /\ Shows(told[s]) = "Connecting"
  BY <1>1 DEF SilentBeforeStart, Shows
<1>5. \A u \in TabIds : session[u] # s
  BY <1>1, TabsAssumption DEF TabShowsItsSession
<1>6. TabShowsItsSession'
  <2>. SUFFICES ASSUME NEW u \in TabIds
                PROVE  IF session'[u] = None THEN state'[u] \notin {"Connected", "AwaitingHostKey"}
                       ELSE /\ home'[session'[u]] = u
                            /\ told[session'[u]] \cap Endings = {} /\ state'[u] = Shows(told[session'[u]])
    BY DEF TabShowsItsSession, Shows
  <2>1. CASE u = t
    BY <2>1, <1>1, <1>4, TabsAssumption
  <2>2. CASE u # t
    BY <2>2, <1>1, <1>5 DEF TabShowsItsSession
  <2>. QED BY <2>1, <2>2
<1>7. SessionsAreHeldOrCancelled'
  BY <1>1, TabsAssumption DEF SessionsAreHeldOrCancelled
<1>. QED BY <1>2, <1>3, <1>6, <1>7

LEMMA BegunStep ==
  ASSUME Shape, NEW t \in TabIds, Begun(t), UNCHANGED told
  PROVE  Shape'
BY ReleaseStep, StartStep DEF Begun

LEMMA RemovedStep ==
  ASSUME Shape, NEW t \in TabIds, Removed(t), UNCHANGED <<home, told>>
  PROVE  Shape'
BY ReleaseStep DEF Removed

\* Cancelling more sessions disturbs nothing.
LEMMA CancelStep ==
  ASSUME Shape, UNCHANGED <<state, session, home, told>>,
         cancelled \subseteq cancelled', cancelled' \subseteq Sessions
  PROVE  Shape'
BY DEF Shape, ShapeTypes, SilentBeforeStart, TabShowsItsSession, Shows, SessionsAreHeldOrCancelled

LEMMA SameShape == ASSUME Shape, UNCHANGED shapeVars PROVE Shape'
BY CancelStep DEF shapeVars, Shape, ShapeTypes

-----------------------------------------------------------------------------
(* Events.                                                                 *)

\* What is told of a session is kept by kind.
LEMMA Telling ==
  ASSUME Shape, NEW s \in Sessions, NEW e \in Kinds \cup Errors,
         told' = [told EXCEPT ![s] = @ \cup {KindOf(e)}]
  PROVE  /\ told' \in [Sessions -> SUBSET (Kinds \cup {"Error"})]
         /\ told'[s] = told[s] \cup {KindOf(e)}
         /\ \A r \in Sessions \ {s} : told'[r] = told[r]
<1>1. KindOf(e) \in Kinds \cup {"Error"}
  BY DEF KindOf
<1>. QED BY <1>1 DEF Shape, ShapeTypes

\* An event that is not handed on leaves the tabs as they are.
LEMMA IgnoredStep ==
  ASSUME Shape, NEW s \in Sessions, NEW e \in Kinds \cup Errors, home[s] # None,
         told' = [told EXCEPT ![s] = @ \cup {KindOf(e)}],
         session[home[s]] # s, UNCHANGED <<state, session, home, cancelled>>
  PROVE  Shape'
<1>1. /\ told' \in [Sessions -> SUBSET (Kinds \cup {"Error"})]
      /\ \A r \in Sessions \ {s} : told'[r] = told[r]
  BY Telling
<1>. USE DEF Shape, ShapeTypes
<1>2. ShapeTypes' /\ SilentBeforeStart' /\ SessionsAreHeldOrCancelled'
  BY <1>1 DEF SilentBeforeStart, SessionsAreHeldOrCancelled
<1>3. \A u \in TabIds : session[u] # s
  BY TabsAssumption DEF TabShowsItsSession
<1>4. TabShowsItsSession'
  BY <1>1, <1>3 DEF TabShowsItsSession, Shows
<1>. QED BY <1>2, <1>4

\* An event that ends the session, or asks for its passphrase, releases its tab.
LEMMA EndingStep ==
  ASSUME Shape, NEW s \in Sessions, NEW e \in Kinds \cup Errors, home[s] # None,
         told' = [told EXCEPT ![s] = @ \cup {KindOf(e)}],
         session[home[s]] = s, NEW x \in Idle \cup {"removed"}, Release(home[s], x), UNCHANGED home
  PROVE  Shape'
<1>1. /\ told' \in [Sessions -> SUBSET (Kinds \cup {"Error"})]
      /\ \A r \in Sessions \ {s} : told'[r] = told[r]
  BY Telling
<1>. USE DEF Shape, ShapeTypes
<1>2. home[s] \in TabIds
  OBVIOUS
<1>3. ShapeTypes'
  BY <1>1, <1>2 DEF Release, Held, Idle, States
<1>4. SilentBeforeStart' /\ SessionsAreHeldOrCancelled'
  BY <1>1, <1>2, TabsAssumption DEF SilentBeforeStart, SessionsAreHeldOrCancelled, Release, Held
<1>5. \A u \in TabIds \ {home[s]} : session'[u] = session[u] /\ state'[u] = state[u] /\ session[u] # s
  BY <1>2, TabsAssumption DEF TabShowsItsSession, Release
<1>6. session'[home[s]] = None /\ state'[home[s]] = x
  BY <1>2 DEF Release
<1>7. TabShowsItsSession'
  BY <1>1, <1>2, <1>5, <1>6 DEF TabShowsItsSession, Shows, Idle
<1>. QED BY <1>3, <1>4, <1>7

\* Any other event leads the tab to what it shows of the longer list of events.
LEMMA StageStep ==
  ASSUME Shape, NEW s \in Sessions, NEW e \in Kinds \cup Errors, MayTell(s, e),
         told' = [told EXCEPT ![s] = @ \cup {KindOf(e)}],
         session[home[s]] = s, StateAfter(home[s], e) # "Disconnected", e # "PassphraseRequired",
         state' = [state EXCEPT ![home[s]] = StateAfter(home[s], e)],
         UNCHANGED <<session, home, cancelled>>
  PROVE  Shape'
<1>1. /\ told' \in [Sessions -> SUBSET (Kinds \cup {"Error"})]
      /\ told'[s] = told[s] \cup {KindOf(e)}
      /\ \A r \in Sessions \ {s} : told'[r] = told[r]
  BY Telling
<1>. DEFINE t == home[s]
<1>. USE DEF Shape, ShapeTypes
<1>2. t \in TabIds /\ t # None
  BY TabsAssumption DEF MayTell
<1>3. told[s] \cap Endings = {} /\ state[t] = Shows(told[s])
  BY <1>2, TabsAssumption DEF TabShowsItsSession
<1>4. e \notin Errors /\ KindOf(e) = e /\ e \notin Endings
  BY <1>3 DEF StateAfter, KindOf, Endings, Shows, Errors, Kinds
<1>5. StateAfter(t, e) = Shows(told[s] \cup {e})
  <2>1. CASE e = "Connected"
    BY <2>1 DEF StateAfter, Shows
  <2>2. CASE e # "Connected"
    <3>1. Ssh(s)!MayFollow(e)
      BY <1>4, <2>2 DEF MayTell, Shell!Events, Endings, Kinds, Errors
    <3>2. \A f \in told[s] : Ssh(s)!Rank[f] <= Ssh(s)!Rank[e]
      BY <3>1 DEF Ssh!MayFollow
    <3>3. e \in {"Connecting", "VerifyingHostKey", "UnknownHostKey", "Authenticating", "OpeningShell"}
      BY <1>4, <2>2 DEF Kinds, Endings
    <3>4. /\ "Connected" \notin told[s]
          /\ e = "UnknownHostKey" => told[s] \cap {"Authenticating", "OpeningShell"} = {}
          /\ e \in {"Connecting", "VerifyingHostKey"} => "UnknownHostKey" \notin told[s]
      BY <3>2, <3>3 DEF Ssh!Rank
    <3>. QED BY <1>3, <1>4, <3>3, <3>4 DEF StateAfter, Shows, KindOf, Endings
  <2>. QED BY <2>1, <2>2
<1>6. StateAfter(t, e) \in States
  BY <1>5 DEF Shows, States
<1>7. ShapeTypes'
  BY <1>1, <1>2, <1>6
<1>8. SilentBeforeStart' /\ SessionsAreHeldOrCancelled'
  BY <1>1, <1>2 DEF SilentBeforeStart, SessionsAreHeldOrCancelled
<1>9. \A u \in TabIds \ {t} : session'[u] = session[u] /\ state'[u] = state[u] /\ session[u] # s
  BY <1>2, TabsAssumption DEF TabShowsItsSession
<1>10. TabShowsItsSession'
  <2>. SUFFICES ASSUME NEW u \in TabIds
                PROVE  IF session'[u] = None THEN state'[u] \notin {"Connected", "AwaitingHostKey"}
                       ELSE /\ home'[session'[u]] = u
                            /\ told'[session'[u]] \cap Endings = {}
                            /\ state'[u] = Shows(told'[session'[u]])
    BY DEF TabShowsItsSession, Shows
  <2>1. CASE u = t
    BY <2>1, <1>1, <1>2, <1>3, <1>4, <1>5, TabsAssumption
  <2>2. CASE u # t
    BY <2>2, <1>1, <1>9 DEF TabShowsItsSession
  <2>. QED BY <2>1, <2>2
<1>. QED BY <1>7, <1>8, <1>10

-----------------------------------------------------------------------------
(* The handlers.                                                           *)

LEMMA StartSessionBegins ==
  ASSUME RestTypes, NEW t \in TabIds, NEW p, NEW q, NEW b \in BOOLEAN, StartSession(t, p, q, b)
  PROVE  Begun(t) /\ preflight' \subseteq TabIds
BY DEF StartSession, StartInner, Fail, Begun, Started, Idle, RestTypes

LEMMA InnerBegins ==
  ASSUME NEW t \in TabIds, NEW q, StartInner(t, q) \/ (Fail(t, q) /\ UNCHANGED home)
  PROVE  Begun(t)
BY DEF StartInner, Fail, Begun, Started, Idle

LEMMA SecretBegins ==
  ASSUME NEW t \in TabIds, NEW q, RequestSecret(t, q), UNCHANGED home
  PROVE  Begun(t)
BY DEF RequestSecret, Begun, Idle

\* A tab that begins anew stays or becomes open.
LEMMA BegunIsOpen ==
  ASSUME Shape, NEW t \in TabIds, Begun(t)
  PROVE  \A u \in TabIds : Open(u) => Open(u)'
BY DEF Shape, ShapeTypes, Begun, Started, Release, Idle, Open

LEMMA ReleasedIsOpen ==
  ASSUME Shape, NEW t \in TabIds, NEW x \in Idle, Release(t, x)
  PROVE  \A u \in TabIds : Open(u) => Open(u)'
BY DEF Shape, ShapeTypes, Release, Idle, Open

LEMMA StillClosing ==
  ASSUME ClosingTabsHaveATimer, UNCHANGED <<closing, timers>>,
         \A u \in TabIds : Open(u) => Open(u)'
  PROVE  ClosingTabsHaveATimer'
BY DEF ClosingTabsHaveATimer

\* A tab that is removed is not closing any more.
LEMMA NoLongerClosing ==
  ASSUME Shape, Rest, NEW t \in TabIds, Removed(t),
         timers' \in [TabIds -> Nat], \A u \in TabIds \ {t} : timers'[u] = timers[u]
  PROVE  ClosingTabsHaveATimer' /\ closing' \in [TabIds -> BOOLEAN]
BY DEF Shape, ShapeTypes, Rest, RestTypes, Removed, Release, ClosingTabsHaveATimer, Open

LEMMA ResolvedBegins ==
  ASSUME RestTypes, NEW t \in TabIds, NEW p \in Profiles, NEW r \in {"secret", "none", "error"},
         ConnectResolved(t, p, r)
  PROVE  Begun(t) /\ preflight' \subseteq TabIds /\ UNCHANGED closing /\ kind' = [kind EXCEPT ![t] = p]
<1>1. UNCHANGED closing /\ kind' = [kind EXCEPT ![t] = p]
  BY DEF ConnectResolved, OpenTab
<1>2. Begun(t) /\ preflight' \subseteq TabIds
  <2>1. CASE NeedsSecret(p) /\ r # "secret"
    <3>1. RequestSecret(t, modals) /\ UNCHANGED <<preflight, home>>
      BY <2>1 DEF ConnectResolved
    <3>. QED BY <3>1, SecretBegins DEF RestTypes
  <2>2. CASE ~(NeedsSecret(p) /\ r # "secret") /\ r = "error"
    <3>1. Release(t, "Connecting") /\ UNCHANGED <<preflight, home>>
      BY <2>2 DEF ConnectResolved
    <3>. QED BY <3>1 DEF Begun, Idle, RestTypes
  <2>3. CASE ~(NeedsSecret(p) /\ r # "secret") /\ r # "error"
    <3>1. StartSession(t, p, modals, r = "secret")
      BY <2>3 DEF ConnectResolved
    <3>. QED BY <3>1, StartSessionBegins
  <2>. QED BY <2>1, <2>2, <2>3
<1>. QED BY <1>1, <1>2

LEMMA ResolvedKeeps ==
  ASSUME Shape, Rest, NEW t \in TabIds, NEW p \in Profiles, NEW r \in {"secret", "none", "error"},
         ConnectResolved(t, p, r), UNCHANGED ConnectRest, connecting' \subseteq Profiles
  PROVE  Shape' /\ Rest'
<1>. USE DEF ConnectRest, trustVars
<1>1. Begun(t) /\ preflight' \subseteq TabIds /\ UNCHANGED closing /\ kind' = [kind EXCEPT ![t] = p]
  BY ResolvedBegins DEF Rest
<1>2. Shape'
  BY <1>1, BegunStep
<1>3. ClosingTabsHaveATimer'
  BY <1>1, BegunIsOpen, StillClosing DEF Rest
<1>4. RestTypes'
  BY <1>1 DEF Rest, RestTypes
<1>. QED BY <1>2, <1>3, <1>4 DEF Rest

LEMMA ConnectKeeps ==
  ASSUME Shape, Rest, NEW p \in Profiles, Connect(p)
  PROVE  Shape' /\ Rest'
<1>1. CASE AuthOf[p] \in {"savedPassword", "savedKey"}
  <2>. USE <1>1 DEF Connect, ConnectRest, stripVars, tabVars, trustVars
  <2>1. Shape'
    BY SameShape DEF shapeVars
  <2>2. ClosingTabsHaveATimer'
    BY StillClosing DEF Rest, Open
  <2>3. RestTypes'
    BY DEF Rest, RestTypes
  <2>. QED BY <2>1, <2>2, <2>3 DEF Rest
<1>2. CASE AuthOf[p] \notin {"savedPassword", "savedKey"}
  <2>1. PICK t \in TabIds, r \in {"secret", "none"} : ConnectResolved(t, p, r)
    BY <1>2 DEF Connect
  <2>2. UNCHANGED ConnectRest /\ connecting' \subseteq Profiles
    BY <1>2 DEF Connect, Rest, RestTypes
  <2>. QED BY <2>1, <2>2, ResolvedKeeps
<1>. QED BY <1>1, <1>2

LEMMA KeyringReadKeeps ==
  ASSUME Shape, Rest, NEW p \in Profiles, KeyringRead(p)
  PROVE  Shape' /\ Rest'
<1>1. PICK t \in TabIds, r \in {"secret", "none", "error"} : ConnectResolved(t, p, r)
  BY DEF KeyringRead
<1>2. UNCHANGED ConnectRest /\ connecting' \subseteq Profiles
  BY DEF KeyringRead, Rest, RestTypes
<1>. QED BY <1>1, <1>2, ResolvedKeeps

LEMMA ConnectLocalKeeps ==
  ASSUME Shape, Rest, NEW t \in TabIds, ConnectLocal(t)
  PROVE  Shape' /\ Rest'
<1>. USE DEF ConnectLocal, OpenTab, ConnectRest, trustVars
<1>1. Begun(t)
  BY InnerBegins
<1>2. Shape'
  BY <1>1, BegunStep
<1>3. ClosingTabsHaveATimer'
  BY <1>1, BegunIsOpen, StillClosing DEF Rest
<1>4. RestTypes'
  BY DEF Rest, RestTypes
<1>. QED BY <1>2, <1>3, <1>4 DEF Rest

LEMMA PreflightKeeps ==
  ASSUME Shape, Rest, NEW t \in TabIds, Preflight(t)
  PROVE  Shape' /\ Rest'
<1>. USE DEF Preflight, ConnectRest, stripVars, trustVars
<1>1. RestTypes'
  BY DEF Rest, RestTypes
<1>2. CASE Open(t)
  <2>1. Begun(t)
    BY <1>2, InnerBegins, SecretBegins
  <2>2. Shape'
    BY <2>1, BegunStep
  <2>3. ClosingTabsHaveATimer'
    BY <2>1, BegunIsOpen, StillClosing DEF Rest
  <2>. QED BY <1>1, <2>2, <2>3 DEF Rest
<1>3. CASE ~Open(t)
  <2>1. Shape'
    BY <1>3, SameShape DEF shapeVars
  <2>2. ClosingTabsHaveATimer'
    BY <1>3, StillClosing DEF Rest, Open
  <2>. QED BY <1>1, <2>1, <2>2 DEF Rest
<1>. QED BY <1>2, <1>3

LEMMA ReconnectKeeps ==
  ASSUME Shape, Rest, NEW t \in TabIds, Reconnect(t)
  PROVE  Shape' /\ Rest'
<1>. DEFINE q == Without(modals, t)
<1>. HIDE DEF q
<1>1. /\ closing' = [closing EXCEPT ![t] = FALSE]
      /\ IF kind[t] = Local THEN StartInner(t, q) /\ UNCHANGED preflight
         ELSE \E r \in KeyringResults(kind[t]) :
                IF r = "error"
                THEN Release(t, "Connecting") /\ modals' = q /\ UNCHANGED <<preflight, home>>
                ELSE IF NeedsSecret(kind[t]) /\ r = "none"
                THEN RequestSecret(t, q) /\ UNCHANGED <<preflight, home>>
                ELSE StartSession(t, kind[t], q, r = "secret")
      /\ UNCHANGED <<stripVars, kind, connecting, ConnectRest>>
  BY DEF Reconnect, ReconnectWith, q
<1>2. Begun(t) /\ preflight' \subseteq TabIds
  <2>1. CASE kind[t] = Local
    BY <1>1, <2>1, InnerBegins DEF Rest, RestTypes
  <2>2. CASE kind[t] # Local
    <3>1. PICK r \in KeyringResults(kind[t]) :
            IF r = "error"
            THEN Release(t, "Connecting") /\ modals' = q /\ UNCHANGED <<preflight, home>>
            ELSE IF NeedsSecret(kind[t]) /\ r = "none"
            THEN RequestSecret(t, q) /\ UNCHANGED <<preflight, home>>
            ELSE StartSession(t, kind[t], q, r = "secret")
      BY <1>1, <2>2
    <3>2. CASE r = "error"
      BY <3>1, <3>2 DEF Begun, Idle, Rest, RestTypes
    <3>3. CASE r # "error" /\ NeedsSecret(kind[t]) /\ r = "none"
      BY <3>1, <3>3, SecretBegins DEF Rest, RestTypes
    <3>4. CASE r # "error" /\ ~(NeedsSecret(kind[t]) /\ r = "none")
      <4>1. StartSession(t, kind[t], q, r = "secret")
        BY <3>1, <3>4
      <4>. QED BY <4>1, StartSessionBegins DEF Rest
    <3>. QED BY <3>2, <3>3, <3>4
  <2>. QED BY <2>1, <2>2
<1>. USE DEF ConnectRest, stripVars, trustVars
<1>3. Shape'
  BY <1>1, <1>2, BegunStep
<1>4. ClosingTabsHaveATimer'
  <2>1. \A u \in TabIds : Open(u) => Open(u)'
    BY <1>2, BegunIsOpen
  <2>. QED BY <1>1, <2>1 DEF ClosingTabsHaveATimer, Rest, RestTypes
<1>5. RestTypes'
  BY <1>1, <1>2 DEF Rest, RestTypes
<1>. QED BY <1>3, <1>4, <1>5 DEF Rest

-----------------------------------------------------------------------------
(* Handlers that remove a tab, or leave the tabs as they are.              *)

LEMMA FrameKeeps ==
  ASSUME Shape, Rest, UNCHANGED <<shapeVars, closing, timers>>, RestTypes'
  PROVE  Shape' /\ Rest'
<1>1. Shape'
  BY SameShape
<1>2. ClosingTabsHaveATimer'
  BY StillClosing DEF Rest, Open, shapeVars
<1>. QED BY <1>1, <1>2 DEF Rest

otherVars == <<kind, shown, connecting, preflight, quitting, trustVars>>

LEMMA RemovedKeeps ==
  ASSUME Shape, Rest, NEW t \in TabIds, Removed(t), UNCHANGED <<home, told, otherVars>>,
         timers' \in [TabIds -> Nat], \A u \in TabIds \ {t} : timers'[u] = timers[u]
  PROVE  Shape' /\ Rest'
<1>1. Shape'
  BY RemovedStep
<1>2. ClosingTabsHaveATimer' /\ closing' \in [TabIds -> BOOLEAN]
  BY NoLongerClosing
<1>. QED BY <1>1, <1>2 DEF Rest, RestTypes, otherVars, trustVars

LEMMA RequestCloseKeeps ==
  ASSUME Shape, Rest, NEW t \in TabIds, RequestClose(t)
  PROVE  Shape' /\ Rest'
<1>. USE DEF RequestClose, AnswerRest
<1>1. UNCHANGED <<otherVars, timers, home, told>> /\ timers \in [TabIds -> Nat]
  BY DEF otherVars, Rest, RestTypes
<1>2. CASE state[t] = "Disconnected" \/ closing[t]
  BY <1>1, <1>2, RemovedKeeps DEF RemoveTab, Removed
<1>3. CASE ~(state[t] = "Disconnected" \/ closing[t])
  <2>1. UNCHANGED <<shapeVars, closing>>
    BY <1>1, <1>3 DEF shapeVars, tabVars
  <2>2. RestTypes'
    BY <1>1, <2>1 DEF Rest, RestTypes, otherVars, trustVars
  <2>. QED BY <1>1, <2>1, <2>2, FrameKeeps
<1>. QED BY <1>2, <1>3

LEMMA CloseTimerKeeps ==
  ASSUME Shape, Rest, NEW t \in TabIds, CloseTimer(t)
  PROVE  Shape' /\ Rest'
<1>. USE DEF CloseTimer, AnswerRest
<1>1. /\ UNCHANGED <<otherVars, home, told>>
      /\ timers' \in [TabIds -> Nat] /\ \A u \in TabIds \ {t} : timers'[u] = timers[u]
  BY DEF otherVars, Rest, RestTypes
<1>2. CASE closing[t]
  BY <1>1, <1>2, RemovedKeeps DEF RemoveTab, Removed
<1>3. CASE ~closing[t]
  <2>1. UNCHANGED <<shapeVars, closing>>
    BY <1>1, <1>3 DEF shapeVars, tabVars
  <2>2. Shape'
    BY <2>1, SameShape
  <2>3. ClosingTabsHaveATimer'
    BY <1>1, <1>3, <2>1 DEF Rest, ClosingTabsHaveATimer, Open, shapeVars
  <2>4. RestTypes'
    BY <1>1, <2>1 DEF Rest, RestTypes, otherVars, trustVars
  <2>. QED BY <2>2, <2>3, <2>4 DEF Rest
<1>. QED BY <1>2, <1>3

LEMMA ActivateKeeps ==
  ASSUME Shape, Rest, NEW t \in TabIds, Activate(t)
  PROVE  Shape' /\ Rest'
<1>. USE DEF Activate, tabVars, pendingVars, trustVars
<1>1. RestTypes'
  BY DEF Rest, RestTypes
<1>. QED BY <1>1, FrameKeeps DEF shapeVars

LEMMA JoinPromptKeeps ==
  ASSUME Shape, Rest, NEW s \in Sessions, NEW p \in Prompts, JoinPrompt(s, p)
  PROVE  Shape' /\ Rest'
<1>. USE DEF JoinPrompt, tabVars, pendingVars
<1>1. RestTypes'
  BY DEF Rest, RestTypes
<1>. QED BY <1>1, FrameKeeps DEF shapeVars

LEMMA PromptLapsesKeeps ==
  ASSUME Shape, Rest, NEW p \in Prompts, PromptLapses(p)
  PROVE  Shape' /\ Rest'
<1>. USE DEF PromptLapses, tabVars, pendingVars
<1>1. RestTypes'
  BY DEF Rest, RestTypes
<1>. QED BY <1>1, FrameKeeps DEF shapeVars

LEMMA DrawKeeps ==
  ASSUME Shape, Rest, Draw
  PROVE  Shape' /\ Rest'
<1>. USE DEF Draw, tabVars, pendingVars, trustVars
<1>1. RestTypes'
  BY DEF Rest, RestTypes
<1>. QED BY <1>1, FrameKeeps DEF shapeVars

-----------------------------------------------------------------------------
(* Events handed over.                                                     *)

LEMMA TellKeeps ==
  ASSUME Shape, Rest, NEW s \in Sessions, NEW e \in Kinds \cup Errors, Tell(s, e)
  PROVE  Shape' /\ Rest'
<1>. DEFINE t == home[s]
<1>1. /\ MayTell(s, e) /\ t # None /\ t \in TabIds
      /\ told' = [told EXCEPT ![s] = @ \cup {KindOf(e)}]
      /\ UNCHANGED <<otherVars, timers, home>>
  BY DEF Tell, MayTell, TellRest, pendingVars, otherVars, Shape, ShapeTypes
<1>2. timers' \in [TabIds -> Nat]
  BY <1>1 DEF Rest, RestTypes
<1>3. CASE session[t] # s
  <2>1. UNCHANGED <<state, session, closing, cancelled>>
    BY <1>3 DEF Tell, tabVars
  <2>2. Shape'
    BY <1>1, <1>3, <2>1, IgnoredStep
  <2>3. ClosingTabsHaveATimer'
    BY <1>1, <2>1, StillClosing DEF Rest, Open
  <2>4. RestTypes'
    BY <1>1, <1>2, <2>1 DEF Rest, RestTypes, otherVars, trustVars
  <2>. QED BY <2>2, <2>3, <2>4 DEF Rest
<1>4. CASE session[t] = s /\ Apply(t, s, e)
  <2>1. CASE e = "PassphraseRequired"
    <3>1. Release(t, "AwaitingSecret") /\ UNCHANGED closing
      BY <1>4, <2>1 DEF Apply, RequestSecret
    <3>2. Shape'
      BY <1>1, <1>4, <3>1, EndingStep DEF Idle
    <3>3. ClosingTabsHaveATimer'
      BY <1>1, <3>1, ReleasedIsOpen, StillClosing DEF Rest, Idle
    <3>4. RestTypes'
      BY <1>1, <1>2, <3>1 DEF Rest, RestTypes, otherVars, trustVars
    <3>. QED BY <3>2, <3>3, <3>4 DEF Rest
  <2>2. CASE e # "PassphraseRequired" /\ StateAfter(t, e) # "Disconnected"
    <3>1. /\ state' = [state EXCEPT ![t] = StateAfter(t, e)]
          /\ UNCHANGED <<session, closing, cancelled>>
      BY <1>4, <2>2 DEF Apply
    <3>2. Shape'
      BY <1>1, <1>4, <2>2, <3>1, StageStep
    <3>3. StateAfter(t, e) \notin {"unused", "removed"}
      BY DEF StateAfter
    <3>4. ClosingTabsHaveATimer'
      BY <1>1, <3>1, <3>3 DEF Rest, ClosingTabsHaveATimer, Open, Shape, ShapeTypes
    <3>5. RestTypes'
      BY <1>1, <1>2, <3>1 DEF Rest, RestTypes, otherVars, trustVars
    <3>. QED BY <3>2, <3>4, <3>5 DEF Rest
  <2>3. CASE e # "PassphraseRequired" /\ StateAfter(t, e) = "Disconnected" /\ closing[t]
    <3>1. Removed(t)
      BY <1>4, <2>3 DEF Apply, RemoveTab, Removed
    <3>2. Shape'
      BY <1>1, <1>4, <3>1, EndingStep DEF Removed
    <3>3. ClosingTabsHaveATimer' /\ closing' \in [TabIds -> BOOLEAN]
      BY <1>1, <1>2, <3>1, NoLongerClosing
    <3>. QED BY <1>1, <1>2, <3>2, <3>3 DEF Rest, RestTypes, otherVars, trustVars
  <2>4. CASE e # "PassphraseRequired" /\ StateAfter(t, e) = "Disconnected" /\ ~closing[t]
    <3>1. Release(t, "Disconnected") /\ UNCHANGED closing
      BY <1>4, <2>4 DEF Apply
    <3>2. Shape'
      BY <1>1, <1>4, <3>1, EndingStep DEF Idle
    <3>3. ClosingTabsHaveATimer'
      BY <1>1, <3>1, ReleasedIsOpen, StillClosing DEF Rest, Idle
    <3>4. RestTypes'
      BY <1>1, <1>2, <3>1 DEF Rest, RestTypes, otherVars, trustVars
    <3>. QED BY <3>2, <3>3, <3>4 DEF Rest
  <2>. QED BY <2>1, <2>2, <2>3, <2>4
<1>. QED BY <1>3, <1>4 DEF Tell

-----------------------------------------------------------------------------
(* Answers, and the end of the window.                                     *)

LEMMA ShownTab ==
  ASSUME Rest, NEW k, Answers(k)
  PROVE  shown.tab \in TabIds
BY DEF Rest, RestTypes, Answers, Requests

LEMMA SubmitSecretKeeps ==
  ASSUME Shape, Rest, SubmitSecret
  PROVE  Shape' /\ Rest'
<1>. USE DEF SubmitSecret, AnswerRest, trustVars
<1>1. shown.tab \in TabIds
  BY ShownTab
<1>2. Begun(shown.tab) /\ preflight' \subseteq TabIds
  BY <1>1, StartSessionBegins DEF Rest
<1>3. Shape'
  BY <1>1, <1>2, BegunStep
<1>4. ClosingTabsHaveATimer'
  BY <1>1, <1>2, BegunIsOpen, StillClosing DEF Rest
<1>5. RestTypes'
  BY <1>2 DEF Rest, RestTypes
<1>. QED BY <1>3, <1>4, <1>5 DEF Rest

LEMMA CancelSecretKeeps ==
  ASSUME Shape, Rest, CancelSecret
  PROVE  Shape' /\ Rest'
<1>. USE DEF CancelSecret, AnswerRest
<1>1. shown.tab \in TabIds
  BY ShownTab
<1>2. UNCHANGED <<otherVars, timers, home, told>> /\ timers \in [TabIds -> Nat]
  BY DEF otherVars, Rest, RestTypes
<1>. QED BY <1>1, <1>2, RemovedKeeps DEF RemoveTab, Removed

LEMMA ConfirmCloseKeeps ==
  ASSUME Shape, Rest, ConfirmClose
  PROVE  Shape' /\ Rest'
<1>. DEFINE t == shown.tab
<1>1. t \in TabIds
  BY ShownTab DEF ConfirmClose
<1>2. UNCHANGED <<otherVars, home, told>> /\ timers \in [TabIds -> Nat]
  BY DEF ConfirmClose, AnswerRest, otherVars, Rest, RestTypes
<1>3. CASE session[t] = None
  <2>1. Removed(t) /\ UNCHANGED timers
    BY <1>3 DEF ConfirmClose, BeginClose, RemoveTab, Removed
  <2>. QED BY <1>1, <1>2, <2>1, RemovedKeeps
<1>4. CASE session[t] # None
  <2>1. /\ closing' = [closing EXCEPT ![t] = TRUE] /\ cancelled' = cancelled \cup {session[t]}
        /\ timers' = [timers EXCEPT ![t] = @ + 1] /\ UNCHANGED <<state, session>>
    BY <1>4 DEF ConfirmClose, BeginClose
  <2>2. Shape'
    BY <1>1, <1>2, <1>4, <2>1, CancelStep DEF Shape, ShapeTypes
  <2>3. ClosingTabsHaveATimer'
    <3>1. Open(t)
      BY <1>1, <1>4 DEF Shape, TabShowsItsSession, Shows, Open
    <3>2. closing \in [TabIds -> BOOLEAN] /\ timers \in [TabIds -> Nat]
      BY DEF Rest, RestTypes
    <3>3. timers'[t] = timers[t] + 1 /\ \A u \in TabIds \ {t} : timers'[u] = timers[u]
      BY <1>1, <2>1, <3>2
    <3>4. \A u \in TabIds \ {t} : closing'[u] = closing[u]
      BY <1>1, <2>1, <3>2
    <3>. QED BY <1>1, <2>1, <3>1, <3>2, <3>3, <3>4 DEF Rest, ClosingTabsHaveATimer, Open
  <2>4. RestTypes'
    BY <1>1, <1>2, <2>1 DEF Rest, RestTypes, otherVars, trustVars
  <2>. QED BY <2>2, <2>3, <2>4 DEF Rest
<1>. QED BY <1>3, <1>4

LEMMA DecideHostKeyKeeps ==
  ASSUME Shape, Rest, NEW a \in {"accepted", "refused"}, DecideHostKey(a)
  PROVE  Shape' /\ Rest'
<1>. USE DEF DecideHostKey, AnswerRest, tabVars
<1>1. status' \in [Prompts -> {"unused", "open", "accepted", "refused"}]
  BY DEF Rest, RestTypes
<1>2. RestTypes'
  BY <1>1 DEF Rest, RestTypes
<1>. QED BY <1>2, FrameKeeps DEF shapeVars

LEMMA DismissKeeps ==
  ASSUME Shape, Rest, LeaveChangedHostKey \/ CancelClose
  PROVE  Shape' /\ Rest'
<1>. USE DEF LeaveChangedHostKey, CancelClose, AnswerRest, tabVars, trustVars
<1>1. RestTypes'
  BY DEF Rest, RestTypes
<1>. QED BY <1>1, FrameKeeps DEF shapeVars

\* Every session that was started is held by its tab or was cancelled before.
LEMMA QuitKeeps ==
  ASSUME Shape, Rest, Quit
  PROVE  Shape' /\ Rest'
<1>. USE DEF Quit, Shape, ShapeTypes
<1>1. cancelled' \subseteq Sessions /\ ShapeTypes'
  BY DEF Held, States
<1>2. SilentBeforeStart' /\ TabShowsItsSession'
  BY TabsAssumption DEF SilentBeforeStart, TabShowsItsSession
<1>3. SessionsAreHeldOrCancelled'
  BY TabsAssumption DEF SessionsAreHeldOrCancelled, Held
<1>4. RestTypes' /\ ClosingTabsHaveATimer'
  BY DEF Rest, RestTypes, ClosingTabsHaveATimer, trustVars
<1>. QED BY <1>1, <1>2, <1>3, <1>4 DEF Rest

\* Every number up to the cardinality of K is the rank of one of the positions.
LEMMA Positions ==
  ASSUME NEW N \in Nat, NEW K \in SUBSET (1 .. N)
  PROVE  /\ Cardinality(K) \in Nat
         /\ \A n \in 1 .. Cardinality(K) :
              /\ Position(K, n) \in K
              /\ Cardinality({j \in K : j <= Position(K, n)}) = n
         /\ \A i \in K : \E n \in 1 .. Cardinality(K) : Position(K, n) = i
<1>. DEFINE C == Cardinality(K)
            Upto(i) == {j \in K : j <= i}
            rank == [i \in K |-> Cardinality(Upto(i))]
<1>. K \subseteq Nat
  OBVIOUS
<1>1. IsFiniteSet(K) /\ C \in Nat
  <2>1. IsFiniteSet(1 .. N)
    BY FS_Interval
  <2>2. IsFiniteSet(K)
    BY <2>1, FS_Subset
  <2>. QED BY <2>2, FS_CardinalityType
<1>2. \A i \in K : IsFiniteSet(Upto(i)) /\ Cardinality(Upto(i)) \in 1 .. C
  <2>. TAKE i \in K
  <2>1. Upto(i) \in SUBSET K /\ Upto(i) # {}
    OBVIOUS
  <2>. HIDE DEF Upto
  <2>2. IsFiniteSet(Upto(i)) /\ Cardinality(Upto(i)) <= C
    BY <1>1, <2>1, FS_Subset
  <2>3. Cardinality(Upto(i)) \in Nat /\ Cardinality(Upto(i)) # 0
    BY <2>1, <2>2, FS_CardinalityType, FS_EmptySet
  <2>. QED BY <1>1, <2>2, <2>3
<1>3. ASSUME NEW i \in K, NEW j \in K, Cardinality(Upto(i)) = Cardinality(Upto(j)) PROVE i = j
  <2>1. (i <= j => Upto(i) \in SUBSET Upto(j)) /\ (j <= i => Upto(j) \in SUBSET Upto(i))
    <3>1. i \in Nat /\ j \in Nat /\ \A k \in K : k \in Nat
      OBVIOUS
    <3>2. \A k \in K : (i <= j /\ k <= i => k <= j) /\ (j <= i /\ k <= j => k <= i)
      BY <3>1
    <3>. QED BY <3>2
  <2>2. Upto(i) = Upto(j)
    <3>. HIDE DEF Upto
    <3>. QED BY <1>2, <1>3, <2>1, FS_Subset
  <2>. QED BY <2>2
<1>4. rank \in Injection(K, 1 .. C)
  BY <1>2, <1>3 DEF Injection, IsInjective
<1>5. rank \in Surjection(K, 1 .. C)
  <2>1. IsFiniteSet(1 .. C) /\ Cardinality(1 .. C) = C
    BY <1>1, FS_Interval
  <2>. QED BY <1>4, <2>1, FS_Injection
<1>6. \A n \in 1 .. C : Position(K, n) \in K /\ Cardinality(Upto(Position(K, n))) = n
  <2>. TAKE n \in 1 .. C
  <2>1. \E i \in K : Cardinality(Upto(i)) = n
    BY <1>5 DEF Surjection
  <2>. QED BY <2>1 DEF Position
<1>7. \A i \in K : Position(K, Cardinality(Upto(i))) = i
  BY <1>2, <1>3, <1>6
<1>. QED BY <1>1, <1>2, <1>6, <1>7

\* What is retained of a sequence.
LEMMA Retained ==
  ASSUME NEW S, NEW q \in Seq(S), NEW K \in SUBSET (DOMAIN q)
  PROVE  /\ Retain(q, K) \in Seq(S)
         /\ \A n \in DOMAIN Retain(q, K) : Position(K, n) \in K /\ Retain(q, K)[n] = q[Position(K, n)]
         /\ \A m, n \in DOMAIN Retain(q, K) : Position(K, m) = Position(K, n) => m = n
         /\ \A i \in K : \E n \in DOMAIN Retain(q, K) : Retain(q, K)[n] = q[i]
<1>1. /\ Cardinality(K) \in Nat
      /\ \A n \in 1 .. Cardinality(K) :
              /\ Position(K, n) \in K
              /\ Cardinality({j \in K : j <= Position(K, n)}) = n
      /\ \A i \in K : \E n \in 1 .. Cardinality(K) : Position(K, n) = i
  <2>1. Len(q) \in Nat /\ K \in SUBSET (1 .. Len(q))
    OBVIOUS
  <2>. QED BY <2>1, Positions
<1>2. DOMAIN Retain(q, K) = 1 .. Cardinality(K)
      /\ \A n \in 1 .. Cardinality(K) : Retain(q, K)[n] = q[Position(K, n)]
  BY DEF Retain
<1>3. \A n \in 1 .. Cardinality(K) : q[Position(K, n)] \in S
  <2>1. \A i \in DOMAIN q : q[i] \in S
    OBVIOUS
  <2>. QED BY <1>1, <2>1
<1>4. Retain(q, K) \in Seq(S)
  <2>1. Retain(q, K) \in [1 .. Cardinality(K) -> S]
    BY <1>3 DEF Retain
  <2>. QED BY <1>1, <2>1, SeqDef
<1>5. \A m, n \in 1 .. Cardinality(K) : Position(K, m) = Position(K, n) => m = n
  BY <1>1
<1>. QED BY <1>1, <1>2, <1>4, <1>5
-----------------------------------------------------------------------------
(* The queue and the strip as sets.                                        *)

LEMMA Entries ==
  ASSUME NEW S, NEW q \in Seq(S)
  PROVE  /\ Len(q) \in Nat /\ DOMAIN q = 1 .. Len(q)
         /\ ToSet(q) = {q[i] : i \in 1 .. Len(q)} /\ ToSet(q) \subseteq S
BY DEF ToSet

LEMMA RequestTyped ==
  ASSUME NEW k \in {"HostKey", "ChangedHostKey", "Secret", "ConfirmClose"}, NEW t \in TabIds,
         NEW key \in Prompts \cup Sessions \cup {None}
  PROVE  /\ Request(k, t, key) \in Requests
         /\ Request(k, t, key).kind = k /\ Request(k, t, key).tab = t /\ Request(k, t, key).key = key
BY DEF Request, Requests

LEMMA InQueue ==
  ASSUME NEW q, OneOfAKind(q)
  PROVE  \A m \in ToSet(q) : m \in Requests /\ m.tab \in TabIds
<1>1. q \in Seq(Requests)
  BY DEF OneOfAKind
<1>2. ToSet(q) \subseteq Requests
  BY <1>1, Entries
<1>. QED BY <1>2 DEF Requests

\* The first request is answered.
LEMMA Answered ==
  ASSUME NEW q, OneOfAKind(q), q # <<>>
  PROVE  /\ OneOfAKind(Tail(q)) /\ ToSet(Tail(q)) = ToSet(q) \ {Head(q)}
         /\ Head(q) \in ToSet(q)
<1>. USE DEF OneOfAKind
<1>1. /\ Tail(q) \in Seq(Requests) /\ Len(Tail(q)) = Len(q) - 1
      /\ \A i \in 1 .. Len(Tail(q)) : Tail(q)[i] = q[i + 1]
  BY HeadTailProperties
<1>2. Head(q) = q[1] /\ Len(q) \in Nat \ {0}
  <2>1. q \in Seq(Requests)
    OBVIOUS
  <2>2. Len(q) \in Nat \ {0}
    BY <2>1, EmptySeq
  <2>. QED BY <2>1, <2>2
<1>3. /\ DOMAIN q = 1 .. Len(q) /\ DOMAIN Tail(q) = 1 .. Len(q) - 1
      /\ ToSet(q) = {q[i] : i \in 1 .. Len(q)} /\ ToSet(Tail(q)) = {Tail(q)[i] : i \in 1 .. Len(q) - 1}
  <2>1. DOMAIN q = 1 .. Len(q) /\ ToSet(q) = {q[i] : i \in 1 .. Len(q)}
    BY Entries
  <2>. DEFINE r == Tail(q)
  <2>. HIDE DEF r
  <2>2. r \in Seq(Requests) /\ Len(r) = Len(q) - 1
    BY <1>1 DEF r
  <2>3. DOMAIN r = 1 .. Len(r) /\ ToSet(r) = {r[i] : i \in 1 .. Len(r)}
    BY <2>2, Entries
  <2>. QED BY <2>1, <2>2, <2>3 DEF r
<1>4. OneOfAKind(Tail(q))
  BY <1>1, <1>2, <1>3
<1>5. \A i \in 1 .. Len(q) : q[i] = q[1] => i = 1
  BY <1>2, <1>3
<1>6. \A i \in 2 .. Len(q) : Tail(q)[i - 1] = q[i]
  BY <1>1, <1>2
<1>7. ToSet(Tail(q)) \subseteq ToSet(q) \ {q[1]}
  BY <1>1, <1>2, <1>3, <1>5
<1>8. ToSet(q) \ {q[1]} \subseteq ToSet(Tail(q))
  <2>. SUFFICES ASSUME NEW i \in 2 .. Len(q) PROVE q[i] \in ToSet(Tail(q))
    BY <1>2, <1>3
  <2>. QED BY <1>2, <1>3, <1>6
<1>. QED BY <1>2, <1>3, <1>4, <1>7, <1>8

\* The requests of a tab are taken away.
LEMMA TakenAway ==
  ASSUME NEW q, OneOfAKind(q), NEW t
  PROVE  OneOfAKind(Without(q, t)) /\ ToSet(Without(q, t)) = {m \in ToSet(q) : m.tab # t}
<1>. DEFINE K == {i \in DOMAIN q : q[i].tab # t}
            w == Retain(q, K)
<1>. USE DEF OneOfAKind
<1>1. /\ w \in Seq(Requests)
      /\ \A n \in DOMAIN w : Position(K, n) \in K /\ w[n] = q[Position(K, n)]
      /\ \A m, n \in DOMAIN w : Position(K, m) = Position(K, n) => m = n
      /\ \A i \in K : \E n \in DOMAIN w : w[n] = q[i]
  <2>1. K \in SUBSET (DOMAIN q)
    OBVIOUS
  <2>. HIDE DEF K
  <2>. QED BY <2>1, Retained
<1>2. Without(q, t) = w
  BY DEF Without
<1>. K \subseteq DOMAIN q /\ \A i \in DOMAIN q : i \in K <=> q[i].tab # t
  OBVIOUS
<1>. HIDE DEF w, K
<1>3. OneOfAKind(w)
  <2>. SUFFICES ASSUME NEW m \in DOMAIN w, NEW n \in DOMAIN w, w[m].kind = w[n].kind, w[m].tab = w[n].tab
                PROVE  m = n
    BY <1>1
  <2>1. /\ Position(K, m) \in DOMAIN q /\ w[m] = q[Position(K, m)]
        /\ Position(K, n) \in DOMAIN q /\ w[n] = q[Position(K, n)]
    BY <1>1
  <2>2. Position(K, m) = Position(K, n)
    BY <2>1
  <2>. QED BY <1>1, <2>2
<1>4. ToSet(w) = {m \in ToSet(q) : m.tab # t}
  BY <1>1 DEF ToSet
<1>. QED BY <1>2, <1>3, <1>4

LEMMA AtTheEnd ==
  ASSUME NEW S, NEW q \in Seq(S), NEW r \in S
  PROVE  /\ Append(q, r) \in Seq(S) /\ Append(q, r) # <<>>
         /\ Len(q) \in Nat /\ DOMAIN q = 1 .. Len(q) /\ DOMAIN Append(q, r) = 1 .. Len(q) + 1
         /\ \A i \in 1 .. Len(q) : Append(q, r)[i] = q[i]
         /\ Append(q, r)[Len(q) + 1] = r
         /\ ToSet(Append(q, r)) = ToSet(q) \cup {r}
<1>. DEFINE a == Append(q, r)
<1>1. /\ a \in Seq(S) /\ a # <<>> /\ Len(a) = Len(q) + 1
      /\ \A i \in 1 .. Len(q) : a[i] = q[i]
      /\ a[Len(q) + 1] = r
  BY AppendProperties
<1>2. Len(q) \in Nat /\ DOMAIN q = 1 .. Len(q) /\ ToSet(q) = {q[i] : i \in 1 .. Len(q)}
  BY Entries
<1>. HIDE DEF a
<1>3. DOMAIN a = 1 .. Len(q) + 1 /\ ToSet(a) = {a[i] : i \in 1 .. Len(q) + 1}
  BY <1>1, Entries
<1>4. ToSet(a) \subseteq ToSet(q) \cup {r}
  <2>1. \A i \in 1 .. Len(q) + 1 : i \in 1 .. Len(q) \/ i = Len(q) + 1
    BY <1>2
  <2>. QED BY <1>1, <1>2, <1>3, <2>1
<1>5. ToSet(q) \cup {r} \subseteq ToSet(a)
  <2>1. Len(q) + 1 \in 1 .. Len(q) + 1 /\ \A i \in 1 .. Len(q) : i \in 1 .. Len(q) + 1
    BY <1>2
  <2>. QED BY <1>1, <1>2, <1>3, <2>1
<1>6. ToSet(a) = ToSet(q) \cup {r}
  BY <1>4, <1>5
<1>. QED BY <1>1, <1>2, <1>3, <1>6 DEF a

\* A request is added at the end.
LEMMA Added ==
  ASSUME NEW q, OneOfAKind(q), NEW r \in Requests,
         \A m \in ToSet(q) : ~(m.kind = r.kind /\ m.tab = r.tab)
  PROVE  OneOfAKind(Append(q, r)) /\ ToSet(Append(q, r)) = ToSet(q) \cup {r}
<1>. USE DEF OneOfAKind
<1>. DEFINE a == Append(q, r)
<1>1. q \in Seq(Requests)
  OBVIOUS
<1>2. /\ a \in Seq(Requests)
      /\ Len(q) \in Nat /\ DOMAIN q = 1 .. Len(q) /\ DOMAIN a = 1 .. Len(q) + 1
      /\ \A i \in 1 .. Len(q) : a[i] = q[i]
      /\ a[Len(q) + 1] = r /\ ToSet(a) = ToSet(q) \cup {r}
  BY <1>1, AtTheEnd
<1>. HIDE DEF a
<1>3. \A i \in 1 .. Len(q) + 1 : i \in 1 .. Len(q) \/ i = Len(q) + 1
  BY <1>2
<1>4. \A i \in 1 .. Len(q) : q[i] \in ToSet(q)
  BY <1>2 DEF ToSet
<1>5. OneOfAKind(a)
  <2>. SUFFICES ASSUME NEW i \in 1 .. Len(q) + 1, NEW j \in 1 .. Len(q) + 1,
                       a[i].kind = a[j].kind, a[i].tab = a[j].tab
                PROVE  i = j
    BY <1>2
  <2>. QED BY <1>2, <1>3, <1>4
<1>. QED BY <1>2, <1>5 DEF a

LEMMA Pushed ==
  ASSUME NEW q, OneOfAKind(q), NEW r \in Requests
  PROVE  /\ OneOfAKind(Push(q, r))
         /\ ToSet(Push(q, r)) = ToSet(q) \/ ToSet(Push(q, r)) = ToSet(q) \cup {r}
BY Added DEF Push

\* A tab is taken out of the strip.
LEMMA TakenOut ==
  ASSUME order \in Seq(TabIds), IsInjective(order), NEW t \in ToSet(order)
  PROVE  /\ Others(t) \in Seq(TabIds) /\ IsInjective(Others(t))
         /\ ToSet(Others(t)) = ToSet(order) \ {t}
         /\ Others(t) = <<>> => Neighbour(t) = None
         /\ Others(t) # <<>> => Neighbour(t) \in ToSet(Others(t))
<1>. DEFINE N == Len(order)
            i == Place(t)
            o == Others(t)
<1>1. N \in Nat /\ DOMAIN order = 1 .. N /\ ToSet(order) = {order[j] : j \in 1 .. N}
      /\ \A j \in 1 .. N : order[j] \in TabIds
  BY Entries
<1>2. i \in 1 .. N /\ order[i] = t
  BY <1>1 DEF Place
<1>. HIDE DEF i, N
<1>. DEFINE l == SubSeq(order, 1, i - 1)
            r == SubSeq(order, i + 1, N)
<1>3. /\ l \in Seq(TabIds) /\ Len(l) = i - 1
      /\ \A j \in 1 .. i - 1 : l[j] = order[j]
  <2>1. \A j \in 1 .. i - 1 : order[j] \in TabIds
    BY <1>1, <1>2
  <2>2. i - 1 \in Int /\ 1 \in Int /\ (i - 1) - 1 + 1 = i - 1 /\ (1 <= i - 1 \/ i - 1 = 0)
        /\ \A j \in 1 .. i - 1 : 1 + j - 1 = j
    BY <1>1, <1>2
  <2>. QED BY <2>1, <2>2, SubSeqProperties
<1>4. /\ r \in Seq(TabIds) /\ Len(r) = N - i
      /\ \A j \in 1 .. N - i : r[j] = order[i + j]
  <2>1. \A j \in i + 1 .. N : order[j] \in TabIds
    BY <1>1, <1>2
  <2>2. i + 1 \in Int /\ N \in Int /\ N - (i + 1) + 1 = N - i /\ (i + 1 <= N \/ N - i = 0)
        /\ \A j \in 1 .. N - i : (i + 1) + j - 1 = i + j
    BY <1>1, <1>2
  <2>. QED BY <2>1, <2>2, SubSeqProperties
<1>5. o = l \o r
  BY DEF Others, RemoveAt, i, N
<1>. HIDE DEF o, l, r
<1>6. /\ o \in Seq(TabIds) /\ Len(o) = N - 1
      /\ \A j \in 1 .. N - 1 : o[j] = IF j < i THEN order[j] ELSE order[j + 1]
  <2>1. /\ o \in Seq(TabIds) /\ Len(o) = Len(l) + Len(r)
        /\ \A j \in 1 .. Len(l) + Len(r) : o[j] = IF j <= Len(l) THEN l[j] ELSE r[j - Len(l)]
    BY <1>3, <1>4, <1>5, ConcatProperties
  <2>2. Len(l) + Len(r) = N - 1
    BY <1>1, <1>2, <1>3, <1>4
  <2>3. ASSUME NEW j \in 1 .. N - 1 PROVE o[j] = IF j < i THEN order[j] ELSE order[j + 1]
    <3>1. CASE j < i
      <4>1. j <= Len(l) /\ j \in 1 .. i - 1
        BY <1>1, <1>2, <1>3, <3>1
      <4>. QED BY <1>3, <2>1, <2>2, <3>1, <4>1
    <3>2. CASE ~(j < i)
      <4>1. j - Len(l) \in 1 .. N - i /\ i + (j - Len(l)) = j + 1 /\ ~(j <= Len(l))
        BY <1>1, <1>2, <1>3, <3>2
      <4>. QED BY <1>4, <2>1, <2>2, <3>2, <4>1
    <3>. QED BY <3>1, <3>2
  <2>. QED BY <2>1, <2>2, <2>3
<1>7. DOMAIN o = 1 .. N - 1 /\ ToSet(o) = {o[j] : j \in 1 .. N - 1}
  BY <1>6, Entries
<1>8. \A j, k \in 1 .. N : order[j] = order[k] => j = k
  BY <1>1 DEF IsInjective
<1>9. IsInjective(o)
  <2>. SUFFICES ASSUME NEW j \in 1 .. N - 1, NEW k \in 1 .. N - 1, o[j] = o[k] PROVE j = k
    BY <1>7 DEF IsInjective
  <2>1. /\ j \in 1 .. N /\ j + 1 \in 1 .. N /\ k \in 1 .. N /\ k + 1 \in 1 .. N
    BY <1>1
  <2>. QED BY <1>1, <1>2, <1>6, <1>8, <2>1
<1>10. ToSet(o) \subseteq ToSet(order) \ {t}
  <2>. SUFFICES ASSUME NEW j \in 1 .. N - 1 PROVE o[j] \in ToSet(order) /\ o[j] # t
    BY <1>7
  <2>1. j \in 1 .. N /\ j + 1 \in 1 .. N
    BY <1>1
  <2>. QED BY <1>1, <1>2, <1>6, <1>8, <2>1
<1>11. ToSet(order) \ {t} \subseteq ToSet(o)
  <2>. SUFFICES ASSUME NEW j \in 1 .. N, j # i PROVE order[j] \in ToSet(o)
    BY <1>1, <1>2
  <2>1. CASE j < i
    BY <1>1, <1>2, <1>6, <1>7, <2>1
  <2>2. CASE ~(j < i)
    <3>1. j - 1 \in 1 .. N - 1 /\ ~(j - 1 < i) /\ (j - 1) + 1 = j
      BY <1>1, <1>2, <2>2
    <3>. QED BY <1>6, <1>7, <3>1
  <2>. QED BY <2>1, <2>2
<1>12. /\ o = <<>> => Neighbour(t) = None
       /\ o # <<>> => Neighbour(t) \in ToSet(o)
  <2>1. ASSUME o = <<>> PROVE Neighbour(t) = None
    BY <2>1 DEF Neighbour, o
  <2>2. ASSUME o # <<>> PROVE Neighbour(t) \in ToSet(o)
    <3>1. N - 1 \in Nat \ {0}
      BY <1>6, <2>2, EmptySeq
    <3>2. Min({i, N - 1}) \in 1 .. N - 1
      <4>1. \E x \in {i, N - 1} : \A y \in {i, N - 1} : x <= y
        BY <1>1, <1>2
      <4>2. /\ Min({i, N - 1}) \in {i, N - 1}
            /\ \A y \in {i, N - 1} : Min({i, N - 1}) <= y
        BY <4>1 DEF Min
      <4>. QED BY <1>1, <1>2, <3>1, <4>2
    <3>3. Neighbour(t) = o[Min({i, N - 1})]
      BY <1>6, <2>2 DEF Neighbour, i, o
    <3>. QED BY <1>7, <3>2, <3>3
  <2>. QED BY <2>1, <2>2
<1>13. o = Others(t)
  BY DEF o
<1>. QED BY <1>6, <1>9, <1>10, <1>11, <1>12, <1>13

-----------------------------------------------------------------------------
(* What a handler does to the queue. A request that leaves it was on the   *)
(* dialog, or belongs to the tab the handler is about.                     *)

Settled == QueueInv' /\ \A m \in ToSet(modals) : Consumed(m)

\* Handlers that leave the queue and the tabs alone.
LEMMA QueueFrame ==
  ASSUME QueueInv, UNCHANGED <<modals, state, session, home, prompt>>, preflight' \subseteq preflight
  PROVE  Settled
BY DEF Settled, QueueInv, OneOfAKind, QuestionsHaveASession, SecretsAreAskedFor, RequestsAreCurrent,
       Open, Consumed

\* Handlers that are about one tab.
LEMMA OneTab ==
  ASSUME QueueInv, NEW t \in TabIds,
         \A u \in TabIds \ {t} : state'[u] = state[u] /\ session'[u] = session[u],
         OneOfAKind(modals'),
         \A m \in ToSet(modals) : m.tab # t => m \in ToSet(modals'),
         \A m \in ToSet(modals') :
           IF m.tab # t THEN m \in ToSet(modals)
           ELSE /\ state'[t] \notin {"unused", "removed"}
                /\ m.kind = "Secret" => m.key = None /\ state'[t] = "AwaitingSecret"
                /\ m.kind = "HostKey" =>
                     /\ m.key \in Prompts
                     /\ IF session'[t] = None THEN state'[t] = "Disconnected"
                        ELSE prompt[session'[t]] = m.key,
         state'[t] = "AwaitingSecret" => Request("Secret", t, None) \in ToSet(modals'),
         t \in preflight' => state'[t] \in {"Connecting", "removed"} /\ session'[t] = None,
         preflight' \subseteq preflight \cup {t}, preflight \subseteq TabIds,
         \A s \in Sessions : home'[s] = None => home[s] = None,
         UNCHANGED prompt
  PROVE  QueueInv'
<1>. USE DEF QueueInv
<1>1. \A m \in ToSet(modals') : m.tab \in TabIds
  BY InQueue
<1>2. QuestionsHaveASession'
  <2>1. ASSUME NEW m \in ToSet(modals')
        PROVE  /\ m.kind = "Secret" => m.key = None
               /\ m.kind = "HostKey" =>
                    m.key \in Prompts /\ (session'[m.tab] # None \/ state'[m.tab] = "Disconnected")
    BY <1>1 DEF QuestionsHaveASession
  <2>2. ASSUME NEW u \in preflight' PROVE state'[u] \in {"Connecting", "removed"} /\ session'[u] = None
    BY DEF QuestionsHaveASession
  <2>3. \A s \in Sessions : home'[s] = None => prompt'[s] = None
    BY DEF QuestionsHaveASession
  <2>. QED BY <2>1, <2>2, <2>3 DEF QuestionsHaveASession
<1>3. SecretsAreAskedFor'
  <2>. SUFFICES ASSUME NEW u \in TabIds
                PROVE  state'[u] = "AwaitingSecret" <=> Request("Secret", u, None) \in ToSet(modals')
    BY DEF SecretsAreAskedFor, Request
  <2>1. Request("Secret", u, None).tab = u /\ Request("Secret", u, None).kind = "Secret"
    BY RequestTyped
  <2>. QED BY <2>1 DEF SecretsAreAskedFor
<1>4. RequestsAreCurrent'
  BY <1>1 DEF RequestsAreCurrent, Open
<1>5. OneOfAKind(modals)'
  BY DEF OneOfAKind
<1>. QED BY <1>2, <1>3, <1>4, <1>5

\* The former requests of a tab that connects: those that leave with an answer
\* or a retry are gone already, and no question about a host key is left.
Prepared(t, q) ==
  /\ OneOfAKind(q) /\ ToSet(q) \subseteq ToSet(modals)
  /\ \A m \in ToSet(modals) \ ToSet(q) : m.tab = t /\ (m = shown \/ state[t] = "Disconnected")
  /\ \A m \in ToSet(q) : m.tab = t => m.kind \notin {"HostKey", "Secret"}

Outcome(t, q) ==
  \/ (Started(t) \/ (Release(t, "Connecting") /\ UNCHANGED home)) /\ modals' = q
  \/ Release(t, "Disconnected") /\ UNCHANGED home /\ modals' = Without(q, t)
  \/ /\ Release(t, "AwaitingSecret") /\ UNCHANGED home /\ state[t] # "AwaitingSecret"
     /\ modals' = Append(Without(q, t), Request("Secret", t, None))

LEMMA AskedForASecret ==
  ASSUME NEW t \in TabIds, NEW q, OneOfAKind(q)
  PROVE  /\ OneOfAKind(Append(Without(q, t), Request("Secret", t, None)))
         /\ ToSet(Append(Without(q, t), Request("Secret", t, None)))
              = {m \in ToSet(q) : m.tab # t} \cup {Request("Secret", t, None)}
<1>1. OneOfAKind(Without(q, t)) /\ ToSet(Without(q, t)) = {m \in ToSet(q) : m.tab # t}
  BY TakenAway
<1>2. Request("Secret", t, None) \in Requests /\ Request("Secret", t, None).tab = t
  BY RequestTyped
<1>. QED BY <1>1, <1>2, Added

\* A tab that connects, fails or asks for its secret.
LEMMA OutcomeSettles ==
  ASSUME Shape, RestTypes, QueueInv, NEW t \in TabIds, NEW q, Prepared(t, q), Outcome(t, q),
         state[t] \in Idle \cup {"unused"},
         preflight' \subseteq preflight \cup {t}, t \in preflight' => Release(t, "Connecting"),
         UNCHANGED <<shown, prompt>>
  PROVE  Settled
<1>. USE DEF Shape, ShapeTypes
<1>1. /\ OneOfAKind(q) /\ ToSet(q) \subseteq ToSet(modals)
      /\ \A m \in ToSet(modals) \ ToSet(q) : m.tab = t /\ (m = shown \/ state[t] = "Disconnected")
      /\ \A m \in ToSet(q) : m.tab = t => m.kind \notin {"HostKey", "Secret"}
  BY DEF Prepared
<1>2. preflight \subseteq TabIds
  BY DEF RestTypes
<1>3. CASE (Started(t) \/ (Release(t, "Connecting") /\ UNCHANGED home)) /\ modals' = q
  <2>1. /\ state'[t] = "Connecting"
        /\ \A u \in TabIds \ {t} : state'[u] = state[u] /\ session'[u] = session[u]
        /\ \A s \in Sessions : home'[s] = None => home[s] = None
        /\ Release(t, "Connecting") => session'[t] = None
    BY <1>3, TabsAssumption DEF Started, Release
  <2>2. QueueInv'
    BY <1>1, <1>2, <1>3, <2>1, OneTab
  <2>3. \A m \in ToSet(modals) : Consumed(m)
    BY <1>1, <1>3 DEF Consumed
  <2>. QED BY <2>2, <2>3 DEF Settled
<1>4. CASE Release(t, "Disconnected") /\ UNCHANGED home /\ modals' = Without(q, t)
  <2>1. OneOfAKind(modals') /\ ToSet(modals') = {m \in ToSet(q) : m.tab # t}
    BY <1>1, <1>4, TakenAway
  <2>2. /\ state'[t] = "Disconnected" /\ session'[t] = None
        /\ \A u \in TabIds \ {t} : state'[u] = state[u] /\ session'[u] = session[u]
    BY <1>4 DEF Release
  <2>3. t \notin preflight'
    BY <2>2 DEF Release
  <2>4. QueueInv'
    BY <1>1, <1>2, <1>4, <2>1, <2>2, <2>3, OneTab
  <2>5. \A m \in ToSet(modals) : Consumed(m)
    BY <1>1, <2>1, <2>2 DEF Consumed
  <2>. QED BY <2>4, <2>5 DEF Settled
<1>5. CASE /\ Release(t, "AwaitingSecret") /\ UNCHANGED home /\ state[t] # "AwaitingSecret"
           /\ modals' = Append(Without(q, t), Request("Secret", t, None))
  <2>1. /\ OneOfAKind(modals')
        /\ ToSet(modals') = {m \in ToSet(q) : m.tab # t} \cup {Request("Secret", t, None)}
    BY <1>1, <1>5, AskedForASecret
  <2>2. /\ state'[t] = "AwaitingSecret" /\ session'[t] = None
        /\ \A u \in TabIds \ {t} : state'[u] = state[u] /\ session'[u] = session[u]
    BY <1>5 DEF Release
  <2>3. t \notin preflight'
    BY <2>2 DEF Release
  <2>4. /\ Request("Secret", t, None).tab = t /\ Request("Secret", t, None).kind = "Secret"
        /\ Request("Secret", t, None).key = None
    BY RequestTyped
  <2>5. QueueInv'
    BY <1>1, <1>2, <1>5, <2>1, <2>2, <2>3, <2>4, OneTab
  <2>6. \A m \in ToSet(modals) : Consumed(m)
    BY <1>1, <1>5, <2>1, <2>2 DEF Consumed
  <2>. QED BY <2>5, <2>6 DEF Settled
<1>. QED BY <1>3, <1>4, <1>5 DEF Outcome

\* A tab that is removed takes its requests along.
LEMMA RemovalSettles ==
  ASSUME Shape, RestTypes, QueueInv, NEW t \in TabIds, Open(t), NEW q, OneOfAKind(q),
         ToSet(q) \subseteq ToSet(modals), \A m \in ToSet(modals) \ ToSet(q) : m.tab = t,
         RemoveTab(t, q), UNCHANGED <<preflight, home, prompt>>
  PROVE  Settled
<1>. USE DEF Shape, ShapeTypes
<1>1. OneOfAKind(modals') /\ ToSet(modals') = {m \in ToSet(q) : m.tab # t}
  BY TakenAway DEF RemoveTab
<1>2. /\ state'[t] = "removed" /\ session'[t] = None /\ state[t] # "removed"
      /\ \A u \in TabIds \ {t} : state'[u] = state[u] /\ session'[u] = session[u]
  BY DEF RemoveTab, Release, Open
<1>3. QueueInv'
  BY <1>1, <1>2, OneTab DEF RestTypes
<1>4. \A m \in ToSet(modals) : Consumed(m)
  BY <1>1, <1>2 DEF Consumed
<1>. QED BY <1>3, <1>4 DEF Settled

-----------------------------------------------------------------------------
(* The handlers, and what they do to the queue.                            *)

LEMMA SessionOutcome ==
  ASSUME NEW t \in TabIds, NEW p, NEW q, NEW b \in BOOLEAN, StartSession(t, p, q, b)
  PROVE  /\ Outcome(t, q) /\ preflight' \subseteq preflight \cup {t}
         /\ t \in preflight' => t \in preflight \/ Release(t, "Connecting")
<1>1. CASE AuthOf[p] = "key" /\ ~b
  BY <1>1 DEF StartSession, Outcome
<1>2. CASE ~(AuthOf[p] = "key" /\ ~b)
  BY <1>2 DEF StartSession, StartInner, Fail, Outcome, Started
<1>. QED BY <1>1, <1>2

LEMMA InnerOutcome ==
  ASSUME NEW t \in TabIds, NEW q, StartInner(t, q)
  PROVE  Outcome(t, q)
BY DEF StartInner, Fail, Outcome, Started

LEMMA SecretOutcome ==
  ASSUME NEW t \in TabIds, NEW q, RequestSecret(t, q), UNCHANGED home, state[t] # "AwaitingSecret"
  PROVE  Outcome(t, q)
BY DEF RequestSecret, Outcome

LEMMA NewTabPrepared ==
  ASSUME QueueInv, NEW t \in TabIds, state[t] = "unused"
  PROVE  Prepared(t, modals)
BY DEF QueueInv, RequestsAreCurrent, Open, Prepared

LEMMA ResolvedSettles ==
  ASSUME Shape, RestTypes, QueueInv, NEW t \in TabIds, NEW p \in Profiles,
         NEW r \in {"secret", "none", "error"}, ConnectResolved(t, p, r), UNCHANGED ConnectRest
  PROVE  Settled
<1>1. state[t] = "unused" /\ UNCHANGED <<shown, prompt>>
  BY DEF ConnectResolved, OpenTab, ConnectRest, trustVars
<1>2. Prepared(t, modals) /\ t \notin preflight
  BY <1>1, NewTabPrepared DEF QueueInv, QuestionsHaveASession
<1>3. /\ Outcome(t, modals) /\ preflight' \subseteq preflight \cup {t}
      /\ t \in preflight' => Release(t, "Connecting")
  <2>1. CASE NeedsSecret(p) /\ r # "secret"
    <3>1. RequestSecret(t, modals) /\ UNCHANGED <<preflight, home>>
      BY <2>1 DEF ConnectResolved
    <3>. QED BY <1>1, <1>2, <3>1, SecretOutcome
  <2>2. CASE ~(NeedsSecret(p) /\ r # "secret") /\ r = "error"
    <3>1. Release(t, "Connecting") /\ UNCHANGED <<modals, preflight, home>>
      BY <2>2 DEF ConnectResolved
    <3>. QED BY <1>2, <3>1 DEF Outcome
  <2>3. CASE ~(NeedsSecret(p) /\ r # "secret") /\ r # "error"
    <3>1. StartSession(t, p, modals, r = "secret")
      BY <2>3 DEF ConnectResolved
    <3>. QED BY <1>2, <3>1, SessionOutcome
  <2>. QED BY <2>1, <2>2, <2>3
<1>. QED BY <1>1, <1>2, <1>3, OutcomeSettles

LEMMA ConnectSettles ==
  ASSUME Shape, RestTypes, QueueInv, NEW p \in Profiles, Connect(p)
  PROVE  Settled
<1>1. CASE AuthOf[p] \in {"savedPassword", "savedKey"}
  BY <1>1, QueueFrame DEF Connect, ConnectRest, tabVars, trustVars
<1>2. CASE AuthOf[p] \notin {"savedPassword", "savedKey"}
  BY <1>2, ResolvedSettles DEF Connect
<1>. QED BY <1>1, <1>2

LEMMA KeyringReadSettles ==
  ASSUME Shape, RestTypes, QueueInv, NEW p \in Profiles, KeyringRead(p)
  PROVE  Settled
BY ResolvedSettles DEF KeyringRead

LEMMA ConnectLocalSettles ==
  ASSUME Shape, RestTypes, QueueInv, NEW t \in TabIds, ConnectLocal(t)
  PROVE  Settled
<1>1. state[t] = "unused" /\ StartInner(t, modals) /\ UNCHANGED <<shown, prompt, preflight>>
  BY DEF ConnectLocal, OpenTab, ConnectRest, trustVars
<1>2. Prepared(t, modals) /\ t \notin preflight /\ Outcome(t, modals)
  BY <1>1, NewTabPrepared, InnerOutcome DEF QueueInv, QuestionsHaveASession
<1>. QED BY <1>1, <1>2, OutcomeSettles

LEMMA PreflightSettles ==
  ASSUME Shape, RestTypes, QueueInv, NEW t \in TabIds, Preflight(t)
  PROVE  Settled
<1>1. UNCHANGED <<shown, prompt>> /\ t \in preflight /\ preflight' = preflight \ {t}
  BY DEF Preflight, ConnectRest, trustVars
<1>2. CASE Open(t)
  <2>1. state[t] = "Connecting" /\ session[t] = None
    BY <1>1, <1>2 DEF QueueInv, QuestionsHaveASession, Open
  <2>2. Prepared(t, modals)
    <3>1. ASSUME NEW m \in ToSet(modals), m.tab = t PROVE m.kind \notin {"HostKey", "Secret"}
      <4>1. m.kind # "HostKey"
        BY <2>1, <3>1 DEF QueueInv, QuestionsHaveASession
      <4>2. ASSUME m.kind = "Secret" PROVE m = Request("Secret", t, None)
        <5>1. m \in Requests /\ m.key = None
          BY <4>2, InQueue DEF QueueInv, QuestionsHaveASession
        <5>. QED BY <3>1, <4>2, <5>1 DEF Requests, Request
      <4>. QED BY <2>1, <4>1, <4>2 DEF QueueInv, SecretsAreAskedFor
    <3>. QED BY <3>1 DEF Prepared, QueueInv
  <2>3. Outcome(t, modals)
    <3>1. \/ RequestSecret(t, modals) /\ UNCHANGED home
          \/ StartInner(t, modals)
          \/ Fail(t, modals) /\ UNCHANGED home
      BY <1>2 DEF Preflight
    <3>2. CASE Fail(t, modals) /\ UNCHANGED home
      BY <3>2 DEF Fail, Outcome
    <3>. QED BY <2>1, <3>1, <3>2, SecretOutcome, InnerOutcome
  <2>. QED BY <1>1, <2>1, <2>2, <2>3, OutcomeSettles DEF Idle
<1>3. CASE ~Open(t)
  BY <1>1, <1>3, QueueFrame DEF Preflight
<1>. QED BY <1>2, <1>3

LEMMA ReconnectSettles ==
  ASSUME Shape, RestTypes, QueueInv, NEW t \in TabIds, Reconnect(t)
  PROVE  Settled
<1>. DEFINE q == Without(modals, t)
<1>1. Prepared(t, q)
  <2>1. state[t] = "Disconnected"
    BY DEF Reconnect, ReconnectWith
  <2>2. OneOfAKind(q) /\ ToSet(q) = {m \in ToSet(modals) : m.tab # t}
    BY TakenAway DEF QueueInv
  <2>. QED BY <2>1, <2>2 DEF Prepared
<1>. HIDE DEF q
<1>2. /\ state[t] = "Disconnected" /\ UNCHANGED <<shown, prompt>>
      /\ IF kind[t] = Local THEN StartInner(t, q) /\ UNCHANGED preflight
         ELSE \E r \in KeyringResults(kind[t]) :
                IF r = "error"
                THEN Release(t, "Connecting") /\ modals' = q /\ UNCHANGED <<preflight, home>>
                ELSE IF NeedsSecret(kind[t]) /\ r = "none"
                THEN RequestSecret(t, q) /\ UNCHANGED <<preflight, home>>
                ELSE StartSession(t, kind[t], q, r = "secret")
  BY DEF Reconnect, ReconnectWith, q, ConnectRest, trustVars
<1>3. t \notin preflight
  BY <1>2 DEF QueueInv, QuestionsHaveASession
<1>4. /\ Outcome(t, q) /\ preflight' \subseteq preflight \cup {t}
      /\ t \in preflight' => Release(t, "Connecting")
  <2>1. CASE kind[t] = Local
    BY <1>2, <1>3, <2>1, InnerOutcome
  <2>2. CASE kind[t] # Local
    <3>1. PICK r \in KeyringResults(kind[t]) :
            IF r = "error"
            THEN Release(t, "Connecting") /\ modals' = q /\ UNCHANGED <<preflight, home>>
            ELSE IF NeedsSecret(kind[t]) /\ r = "none"
            THEN RequestSecret(t, q) /\ UNCHANGED <<preflight, home>>
            ELSE StartSession(t, kind[t], q, r = "secret")
      BY <1>2, <2>2
    <3>2. CASE r = "error"
      BY <1>3, <3>1, <3>2 DEF Outcome
    <3>3. CASE r # "error" /\ NeedsSecret(kind[t]) /\ r = "none"
      BY <1>2, <1>3, <3>1, <3>3, SecretOutcome
    <3>4. CASE r # "error" /\ ~(NeedsSecret(kind[t]) /\ r = "none")
      <4>1. StartSession(t, kind[t], q, r = "secret")
        BY <3>1, <3>4
      <4>. QED BY <1>3, <4>1, SessionOutcome
    <3>. QED BY <3>2, <3>3, <3>4
  <2>. QED BY <2>1, <2>2
<1>. QED BY <1>1, <1>2, <1>4, OutcomeSettles DEF Idle

LEMMA RequestCloseSettles ==
  ASSUME Shape, RestTypes, QueueInv, NEW t \in TabIds, RequestClose(t)
  PROVE  Settled
<1>1. Open(t) /\ UNCHANGED <<preflight, home, prompt>>
  BY DEF RequestClose, trustVars
<1>2. CASE RemoveTab(t, modals)
  BY <1>1, <1>2, RemovalSettles DEF QueueInv
<1>3. CASE /\ modals' = Push(modals, Request("ConfirmClose", t, None))
           /\ UNCHANGED <<stripVars, tabVars, cancelled>>
  <2>. DEFINE r == Request("ConfirmClose", t, None)
  <2>1. r \in Requests /\ r.kind = "ConfirmClose" /\ r.tab = t
    BY RequestTyped
  <2>2. /\ OneOfAKind(modals')
        /\ ToSet(modals') = ToSet(modals) \/ ToSet(modals') = ToSet(modals) \cup {r}
    BY <1>3, <2>1, Pushed DEF QueueInv
  <2>. HIDE DEF r
  <2>3. QueueInv'
    <3>1. UNCHANGED <<state, session>>
      BY <1>3 DEF tabVars
    <3>2. \A m \in ToSet(modals') : m = r \/ m \in ToSet(modals)
      BY <2>2
    <3>3. \A m \in ToSet(modals) : m \in Requests
      BY InQueue DEF QueueInv
    <3>4. QuestionsHaveASession' /\ RequestsAreCurrent'
      BY <1>1, <2>1, <3>1, <3>2 DEF QueueInv, QuestionsHaveASession, RequestsAreCurrent, Open
    <3>5. SecretsAreAskedFor'
      <4>1. \A u \in TabIds : Request("Secret", u, None) # r
        BY <2>1, RequestTyped
      <4>. QED BY <2>2, <3>1, <4>1 DEF QueueInv, SecretsAreAskedFor, Request
    <3>. QED BY <2>2, <3>4, <3>5 DEF QueueInv, OneOfAKind
  <2>4. \A m \in ToSet(modals) : Consumed(m)
    BY <2>2 DEF Consumed
  <2>. QED BY <2>3, <2>4 DEF Settled
<1>. QED BY <1>2, <1>3 DEF RequestClose

LEMMA CloseTimerSettles ==
  ASSUME Shape, Rest, QueueInv, NEW t \in TabIds, CloseTimer(t)
  PROVE  Settled
<1>1. UNCHANGED <<preflight, home, prompt>>
  BY DEF CloseTimer, trustVars
<1>2. CASE closing[t]
  <2>1. Open(t) /\ RemoveTab(t, modals)
    BY <1>2 DEF CloseTimer, Rest, ClosingTabsHaveATimer
  <2>. QED BY <1>1, <2>1, RemovalSettles DEF QueueInv, Rest
<1>3. CASE ~closing[t]
  BY <1>1, <1>3, QueueFrame DEF CloseTimer, tabVars
<1>. QED BY <1>2, <1>3

-----------------------------------------------------------------------------
(* Answers take the request on the dialog.                                 *)

LEMMA AnswerTakes ==
  ASSUME RestTypes, QueueInv, NEW k, Answers(k)
  PROVE  /\ OneOfAKind(Tail(modals)) /\ ToSet(Tail(modals)) = ToSet(modals) \ {shown}
         /\ shown \in ToSet(modals) /\ shown \in Requests
         /\ shown.tab \in TabIds /\ Open(shown.tab) /\ shown.kind = k
<1>1. modals # <<>> /\ Head(modals) = shown /\ shown.kind = k /\ shown \in Requests
  BY DEF Answers, RestTypes
<1>2. /\ OneOfAKind(Tail(modals)) /\ ToSet(Tail(modals)) = ToSet(modals) \ {shown}
      /\ shown \in ToSet(modals)
  BY <1>1, Answered DEF QueueInv
<1>3. shown.tab \in TabIds /\ Open(shown.tab)
  BY <1>1, <1>2 DEF Requests, QueueInv, RequestsAreCurrent
<1>. QED BY <1>1, <1>2, <1>3

\* The tab of the dialog that asks for a secret waits for it.
LEMMA SecretTaken ==
  ASSUME Shape, RestTypes, QueueInv, Answers("Secret")
  PROVE  /\ state[shown.tab] = "AwaitingSecret" /\ session[shown.tab] = None
         /\ shown.tab \notin preflight /\ Prepared(shown.tab, Tail(modals))
<1>. DEFINE t == shown.tab
<1>1. /\ OneOfAKind(Tail(modals)) /\ ToSet(Tail(modals)) = ToSet(modals) \ {shown}
      /\ shown \in ToSet(modals) /\ shown \in Requests
      /\ t \in TabIds /\ shown.kind = "Secret"
  BY AnswerTakes
<1>2. \A m \in ToSet(modals) : m \in Requests
  BY InQueue DEF QueueInv
<1>3. \A m \in ToSet(modals) : m.kind = "Secret" /\ m.tab = t => m = Request("Secret", t, None)
  <2>. SUFFICES ASSUME NEW m \in ToSet(modals), m.kind = "Secret", m.tab = t
                PROVE  m = Request("Secret", t, None)
    OBVIOUS
  <2>1. m \in Requests /\ m.key = None
    BY <1>2 DEF QueueInv, QuestionsHaveASession
  <2>. QED BY <2>1 DEF Requests, Request
<1>4. state[t] = "AwaitingSecret"
  <2>1. shown = Request("Secret", t, None)
    BY <1>1, <1>3
  <2>. QED BY <1>1, <2>1 DEF QueueInv, SecretsAreAskedFor
<1>5. session[t] = None
  BY <1>1, <1>4 DEF Shape, TabShowsItsSession, Shows
<1>6. t \notin preflight
  BY <1>4 DEF QueueInv, QuestionsHaveASession
<1>7. Prepared(t, Tail(modals))
  <2>1. \A m \in ToSet(modals) : m.tab = t => m.kind # "HostKey"
    BY <1>4, <1>5 DEF QueueInv, QuestionsHaveASession
  <2>2. \A m \in ToSet(modals) \ {shown} : m.tab = t => m.kind # "Secret"
    BY <1>1, <1>3
  <2>. QED BY <1>1, <2>1, <2>2 DEF Prepared
<1>. QED BY <1>4, <1>5, <1>6, <1>7

LEMMA SubmitSecretSettles ==
  ASSUME Shape, RestTypes, QueueInv, SubmitSecret
  PROVE  Settled
<1>. DEFINE t == shown.tab
<1>1. /\ Answers("Secret") /\ StartSession(t, kind[t], Tail(modals), TRUE)
      /\ UNCHANGED <<shown, prompt>>
  BY DEF SubmitSecret, AnswerRest, trustVars
<1>2. /\ t \in TabIds /\ state[t] = "AwaitingSecret" /\ t \notin preflight
      /\ Prepared(t, Tail(modals))
  BY <1>1, AnswerTakes, SecretTaken
<1>3. /\ Outcome(t, Tail(modals)) /\ preflight' \subseteq preflight \cup {t}
      /\ t \in preflight' => Release(t, "Connecting")
  BY <1>1, <1>2, SessionOutcome
<1>. QED BY <1>1, <1>2, <1>3, OutcomeSettles DEF Idle

LEMMA CancelSecretSettles ==
  ASSUME Shape, RestTypes, QueueInv, CancelSecret
  PROVE  Settled
<1>1. /\ Answers("Secret") /\ RemoveTab(shown.tab, Tail(modals))
      /\ UNCHANGED <<preflight, home, prompt>>
  BY DEF CancelSecret, trustVars
<1>. QED BY <1>1, AnswerTakes, RemovalSettles

\* Other answers leave the tabs as they are.
LEMMA AnswerSettles ==
  ASSUME RestTypes, QueueInv, NEW k \in {"HostKey", "ChangedHostKey", "ConfirmClose"}, Answers(k),
         modals' = Tail(modals), UNCHANGED <<state, session, preflight, home, prompt>>
  PROVE  Settled
<1>1. /\ OneOfAKind(modals') /\ ToSet(modals') = ToSet(modals) \ {shown} /\ shown.kind = k
  BY AnswerTakes
<1>2. QuestionsHaveASession' /\ RequestsAreCurrent'
  BY <1>1 DEF QueueInv, QuestionsHaveASession, RequestsAreCurrent, Open
<1>3. SecretsAreAskedFor'
  <2>1. \A u \in TabIds : Request("Secret", u, None) # shown
    BY <1>1, RequestTyped
  <2>. QED BY <1>1, <2>1 DEF QueueInv, SecretsAreAskedFor, Request
<1>4. \A m \in ToSet(modals) : Consumed(m)
  BY <1>1 DEF Consumed
<1>. QED BY <1>1, <1>2, <1>3, <1>4 DEF Settled, QueueInv, OneOfAKind

LEMMA DismissSettles ==
  ASSUME RestTypes, QueueInv,
         LeaveChangedHostKey \/ CancelClose \/ \E a \in {"accepted", "refused"} : DecideHostKey(a)
  PROVE  Settled
<1>1. CASE LeaveChangedHostKey
  BY <1>1, AnswerSettles DEF LeaveChangedHostKey, tabVars, trustVars
<1>2. CASE CancelClose
  BY <1>2, AnswerSettles DEF CancelClose, tabVars, trustVars
<1>3. CASE \E a \in {"accepted", "refused"} : DecideHostKey(a)
  <2>1. /\ Answers("HostKey") /\ modals' = Tail(modals)
        /\ UNCHANGED <<state, session, preflight, home, prompt>>
    BY <1>3 DEF DecideHostKey, tabVars
  <2>. QED BY <2>1, AnswerSettles
<1>. QED BY <1>1, <1>2, <1>3

LEMMA ConfirmCloseSettles ==
  ASSUME Shape, RestTypes, QueueInv, ConfirmClose
  PROVE  Settled
<1>1. /\ Answers("ConfirmClose") /\ BeginClose(shown.tab, Tail(modals))
      /\ UNCHANGED <<preflight, home, prompt>>
  BY DEF ConfirmClose, trustVars
<1>2. CASE session[shown.tab] = None
  <2>1. RemoveTab(shown.tab, Tail(modals))
    BY <1>1, <1>2 DEF BeginClose
  <2>. QED BY <1>1, <2>1, AnswerTakes, RemovalSettles
<1>3. CASE session[shown.tab] # None
  BY <1>1, <1>3, AnswerSettles DEF BeginClose
<1>. QED BY <1>2, <1>3

-----------------------------------------------------------------------------
(* Events, prompts and the end of the window.                              *)

\* The tab that has a session shows its stage, and waits for no secret.
LEMMA Attached ==
  ASSUME Shape, QueueInv, NEW t \in TabIds, session[t] # None
  PROVE  /\ state[t] \in {"Connecting", "AwaitingHostKey", "Connected"}
         /\ Open(t) /\ t \notin preflight
         /\ \A m \in ToSet(modals) : m.tab = t =>
              m.kind # "Secret" /\ (m.kind = "HostKey" => prompt[session[t]] = m.key)
<1>1. state[t] \in {"Connecting", "AwaitingHostKey", "Connected"}
  BY DEF Shape, TabShowsItsSession, Shows
<1>2. t \notin preflight
  BY DEF QueueInv, QuestionsHaveASession
<1>3. ASSUME NEW m \in ToSet(modals), m.tab = t, m.kind = "Secret" PROVE FALSE
  <2>1. m \in Requests /\ m.key = None
    BY <1>3, InQueue DEF QueueInv, QuestionsHaveASession
  <2>2. m = Request("Secret", t, None)
    BY <1>3, <2>1 DEF Requests, Request
  <2>. QED BY <1>1, <2>2 DEF QueueInv, SecretsAreAskedFor
<1>. QED BY <1>1, <1>2, <1>3 DEF QueueInv, RequestsAreCurrent, Open

LEMMA TellSettles ==
  ASSUME Shape, Rest, QueueInv, NEW s \in Sessions, NEW e \in Kinds \cup Errors, Tell(s, e)
  PROVE  Settled
<1>. DEFINE t == home[s]
<1>. USE DEF Shape, ShapeTypes
<1>1. MayTell(s, e) /\ t \in TabIds /\ s # None /\ UNCHANGED <<preflight, home, prompt, kind, shown>>
  BY TabsAssumption DEF Tell, MayTell, TellRest, pendingVars, trustVars
<1>2. CASE session[t] # s
  BY <1>1, <1>2, QueueFrame DEF Tell, tabVars
<1>3. CASE session[t] = s
  <2>1. Apply(t, s, e)
    BY <1>3 DEF Tell
  <2>2. /\ state[t] \in {"Connecting", "AwaitingHostKey", "Connected"}
        /\ Open(t) /\ t \notin preflight
        /\ \A m \in ToSet(modals) : m.tab = t =>
             m.kind # "Secret" /\ (m.kind = "HostKey" => prompt[s] = m.key)
    BY <1>1, <1>3, Attached
  <2>3. OneOfAKind(modals) /\ preflight \subseteq TabIds
        /\ \A m \in ToSet(modals) : m.kind = "HostKey" => m.key \in Prompts
    BY DEF QueueInv, QuestionsHaveASession, Rest, RestTypes
  <2>4. CASE e = "PassphraseRequired"
    <3>1. /\ Release(t, "AwaitingSecret")
          /\ modals' = Append(Without(modals, t), Request("Secret", t, None))
      BY <2>1, <2>4 DEF Apply, RequestSecret
    <3>2. /\ OneOfAKind(modals')
          /\ ToSet(modals') = {m \in ToSet(modals) : m.tab # t} \cup {Request("Secret", t, None)}
      BY <1>1, <2>3, <3>1, AskedForASecret
    <3>3. /\ state'[t] = "AwaitingSecret" /\ session'[t] = None
          /\ \A u \in TabIds \ {t} : state'[u] = state[u] /\ session'[u] = session[u]
      BY <1>1, <3>1 DEF Release
    <3>4. /\ Request("Secret", t, None).tab = t /\ Request("Secret", t, None).kind = "Secret"
          /\ Request("Secret", t, None).key = None
      BY <1>1, RequestTyped
    <3>5. QueueInv'
      BY <1>1, <2>2, <2>3, <3>2, <3>3, <3>4, OneTab
    <3>6. \A m \in ToSet(modals) : Consumed(m)
      BY <2>2, <3>2, <3>3 DEF Consumed
    <3>. QED BY <3>5, <3>6 DEF Settled
  <2>5. CASE e # "PassphraseRequired" /\ StateAfter(t, e) # "Disconnected"
    <3>1. /\ state' = [state EXCEPT ![t] = StateAfter(t, e)] /\ modals' = RequestsAfter(t, s, e)
          /\ UNCHANGED session
      BY <2>1, <2>5 DEF Apply
    <3>2. /\ StateAfter(t, e) \in {"Connecting", "AwaitingHostKey", "Connected"}
          /\ KindOf(e) \notin Endings
      BY <2>2, <2>5 DEF StateAfter, KindOf, Endings, Errors
    <3>3. /\ state'[t] \in {"Connecting", "AwaitingHostKey", "Connected"}
          /\ \A u \in TabIds \ {t} : state'[u] = state[u] /\ session'[u] = session[u]
      BY <1>1, <3>1, <3>2
    <3>4. CASE e = "UnknownHostKey"
      <4>. DEFINE r == Request("HostKey", t, prompt[s])
      <4>1. prompt[s] \in Prompts
        <5>1. kind[t] # Local
          BY <1>1, <3>4 DEF MayTell, Shell!Events
        <5>. QED BY <1>1, <3>4, <5>1 DEF MayTell, TrustAllows, Rest, RestTypes
      <4>2. r \in Requests /\ r.kind = "HostKey" /\ r.tab = t /\ r.key = prompt[s]
        BY <1>1, <4>1, RequestTyped
      <4>3. modals' = Push(modals, r)
        BY <3>1, <3>4 DEF RequestsAfter
      <4>. HIDE DEF r
      <4>4. /\ OneOfAKind(modals')
            /\ ToSet(modals') = ToSet(modals) \/ ToSet(modals') = ToSet(modals) \cup {r}
        BY <2>3, <4>2, <4>3, Pushed
      <4>5. QueueInv'
        BY <1>1, <1>3, <2>2, <2>3, <3>1, <3>3, <4>1, <4>2, <4>4, OneTab
      <4>. QED BY <4>4, <4>5 DEF Settled, Consumed
    <3>5. CASE e # "UnknownHostKey"
      <4>1. UNCHANGED modals
        BY <3>1, <3>2, <3>5 DEF RequestsAfter, KindOf, Endings, Errors
      <4>2. QueueInv'
        BY <1>1, <1>3, <2>2, <2>3, <3>1, <3>3, <4>1, OneTab
      <4>. QED BY <4>1, <4>2 DEF Settled, Consumed
    <3>. QED BY <3>4, <3>5
  <2>6. CASE e # "PassphraseRequired" /\ StateAfter(t, e) = "Disconnected" /\ closing[t]
    <3>1. RemoveTab(t, modals)
      BY <2>1, <2>6 DEF Apply
    <3>. QED BY <1>1, <2>2, <2>3, <3>1, RemovalSettles DEF Rest
  <2>7. CASE e # "PassphraseRequired" /\ StateAfter(t, e) = "Disconnected" /\ ~closing[t]
    <3>1. Release(t, "Disconnected") /\ modals' = RequestsAfter(t, s, e)
      BY <2>1, <2>7 DEF Apply
    <3>2. /\ state'[t] = "Disconnected" /\ session'[t] = None
          /\ \A u \in TabIds \ {t} : state'[u] = state[u] /\ session'[u] = session[u]
      BY <1>1, <3>1 DEF Release
    <3>3. e # "UnknownHostKey"
      BY <2>7 DEF StateAfter
    <3>4. /\ OneOfAKind(modals')
          /\ \A m \in ToSet(modals) : m.tab # t => m \in ToSet(modals')
          /\ \A m \in ToSet(modals') :
               m \in ToSet(modals) \/ (m.tab = t /\ m.kind = "ChangedHostKey")
      <4>1. CASE e = "ChangedHostKey"
        <5>. DEFINE r == Request("ChangedHostKey", t, s)
        <5>1. r \in Requests /\ r.kind = "ChangedHostKey" /\ r.tab = t
          BY <1>1, RequestTyped
        <5>2. modals' = Push(modals, r)
          BY <3>1, <4>1 DEF RequestsAfter
        <5>. HIDE DEF r
        <5>. QED BY <2>3, <5>1, <5>2, Pushed
      <4>2. CASE e \in {"Exited", "OtherError"}
        BY <2>3, <3>1, <4>2, TakenAway DEF RequestsAfter
      <4>3. CASE e \notin {"ChangedHostKey", "Exited", "OtherError"}
        BY <2>3, <3>1, <3>3, <4>3 DEF RequestsAfter
      <4>. QED BY <4>1, <4>2, <4>3
    <3>5. QueueInv'
      BY <1>1, <2>2, <2>3, <3>2, <3>4, OneTab
    <3>6. \A m \in ToSet(modals) : Consumed(m)
      BY <2>2, <3>2, <3>4 DEF Consumed
    <3>. QED BY <3>5, <3>6 DEF Settled
  <2>. QED BY <2>4, <2>5, <2>6, <2>7
<1>. QED BY <1>2, <1>3

\* A session joins a prompt before it can have asked about one.
LEMMA JoinPromptSettles ==
  ASSUME Shape, RestTypes, QueueInv, NEW s \in Sessions, NEW p \in Prompts, JoinPrompt(s, p)
  PROVE  Settled
<1>1. /\ home[s] # None /\ prompt[s] = None /\ prompt' = [prompt EXCEPT ![s] = p]
      /\ UNCHANGED <<modals, state, session, preflight, home>>
  BY DEF JoinPrompt, tabVars, pendingVars
<1>2. prompt \in [Sessions -> Prompts \cup {None}]
  BY DEF RestTypes
<1>3. QuestionsHaveASession'
  BY <1>1, <1>2 DEF QueueInv, QuestionsHaveASession
<1>4. RequestsAreCurrent'
  <2>. SUFFICES ASSUME NEW m \in ToSet(modals), m.kind = "HostKey", session[m.tab] # None
                PROVE  prompt'[session[m.tab]] = m.key
    BY <1>1 DEF QueueInv, RequestsAreCurrent, Open
  <2>1. prompt[session[m.tab]] = m.key /\ m.key \in Prompts /\ m.tab \in TabIds
    BY InQueue DEF QueueInv, RequestsAreCurrent, QuestionsHaveASession
  <2>2. session[m.tab] \in Sessions /\ session[m.tab] # s
    BY <1>1, <2>1, TabsAssumption DEF Shape, ShapeTypes
  <2>. QED BY <1>1, <1>2, <2>1, <2>2
<1>5. SecretsAreAskedFor' /\ OneOfAKind(modals)'
  BY <1>1 DEF QueueInv, SecretsAreAskedFor, OneOfAKind, Request
<1>. QED BY <1>1, <1>3, <1>4, <1>5 DEF Settled, QueueInv, Consumed

LEMMA QuitSettles ==
  ASSUME Shape, QueueInv, Quit
  PROVE  Settled
<1>. USE DEF Quit, Shape, ShapeTypes
<1>1. modals' = <<>> /\ ToSet(modals') = {} /\ OneOfAKind(modals)'
  BY DEF OneOfAKind, ToSet
<1>2. \A t \in TabIds : state'[t] \in {"unused", "removed"}
  OBVIOUS
<1>3. QuestionsHaveASession'
  BY <1>1 DEF QueueInv, QuestionsHaveASession, trustVars
<1>4. SecretsAreAskedFor' /\ RequestsAreCurrent'
  BY <1>1, <1>2 DEF SecretsAreAskedFor, RequestsAreCurrent
<1>5. \A m \in ToSet(modals) : Consumed(m)
  <2>. SUFFICES ASSUME NEW m \in ToSet(modals) PROVE state'[m.tab] # state[m.tab]
    BY DEF Consumed
  <2>1. m.tab \in TabIds /\ Open(m.tab)
    BY InQueue DEF QueueInv, RequestsAreCurrent
  <2>. QED BY <1>2, <2>1 DEF Open
<1>. QED BY <1>1, <1>3, <1>4, <1>5 DEF Settled, QueueInv

-----------------------------------------------------------------------------
(* What the handlers do to the strip.                                      *)

LEMMA StripFrame ==
  ASSUME StripInv, UNCHANGED order, \A u \in TabIds : Open(u)' <=> Open(u),
         active' = active \/ \E t \in TabIds : Open(t) /\ active' = t
  PROVE  StripInv'
<1>1. /\ order \in Seq(TabIds) /\ IsInjective(order) /\ ToSet(order) = {u \in TabIds : Open(u)}
      /\ IF order = <<>> THEN active = None ELSE active \in ToSet(order)
  BY DEF StripInv, ActiveTabIsOpen
<1>2. ToSet(order)' = ToSet(order) /\ IsInjective(order)' /\ order' \in Seq(TabIds)
  BY <1>1 DEF ToSet, IsInjective
<1>3. ToSet(order)' = {u \in TabIds : Open(u)'}
  BY <1>1, <1>2
<1>4. order = <<>> => ToSet(order) = {}
  BY DEF ToSet
<1>5. IF order = <<>> THEN active' = None ELSE active' \in ToSet(order)
  BY <1>1, <1>4
<1>. QED BY <1>2, <1>3, <1>5 DEF StripInv, ActiveTabIsOpen

LEMMA StripBegun ==
  ASSUME Shape, StripInv, NEW t \in TabIds, Begun(t), Open(t), UNCHANGED stripVars
  PROVE  StripInv'
<1>1. \A u \in TabIds : Open(u)' <=> Open(u)
  BY DEF Shape, ShapeTypes, Begun, Started, Release, Idle, Open
<1>. QED BY <1>1, StripFrame DEF stripVars

\* A tab that is opened comes last and is active.
LEMMA StripOpened ==
  ASSUME Shape, StripInv, NEW t \in TabIds, NEW k, OpenTab(t, k), Begun(t)
  PROVE  StripInv'
<1>1. order' = Append(order, t) /\ active' = t /\ ~Open(t)
  BY DEF OpenTab, Open
<1>2. Open(t)' /\ \A u \in TabIds \ {t} : Open(u)' <=> Open(u)
  BY DEF Shape, ShapeTypes, Begun, Started, Release, Idle, Open
<1>3. order \in Seq(TabIds) /\ IsInjective(order) /\ ToSet(order) = {u \in TabIds : Open(u)}
  BY DEF StripInv, ActiveTabIsOpen
<1>. DEFINE a == Append(order, t)
<1>4. /\ a \in Seq(TabIds) /\ a # <<>>
      /\ Len(order) \in Nat /\ DOMAIN order = 1 .. Len(order) /\ DOMAIN a = 1 .. Len(order) + 1
      /\ \A i \in 1 .. Len(order) : a[i] = order[i]
      /\ a[Len(order) + 1] = t /\ ToSet(a) = ToSet(order) \cup {t}
  BY <1>3, AtTheEnd
<1>. HIDE DEF a
<1>5. \A i \in 1 .. Len(order) + 1 : i \in 1 .. Len(order) \/ i = Len(order) + 1
  BY <1>4
<1>6. \A i \in 1 .. Len(order) : order[i] \in ToSet(order) /\ order[i] # t
  BY <1>1, <1>3, <1>4 DEF ToSet
<1>7. \A i, j \in 1 .. Len(order) : order[i] = order[j] => i = j
  BY <1>3, <1>4 DEF IsInjective
<1>8. IsInjective(a)
  <2>. SUFFICES ASSUME NEW i \in 1 .. Len(order) + 1, NEW j \in 1 .. Len(order) + 1, a[i] = a[j]
                PROVE  i = j
    BY <1>4 DEF IsInjective
  <2>. QED BY <1>4, <1>5, <1>6, <1>7
<1>9. order' = a
  BY <1>1 DEF a
<1>10. ToSet(order)' = ToSet(a) /\ IsInjective(order)' /\ order' # <<>>
  BY <1>4, <1>8, <1>9 DEF ToSet, IsInjective
<1>11. ToSet(order)' = {u \in TabIds : Open(u)'}
  BY <1>2, <1>3, <1>4, <1>10
<1>12. active' \in ToSet(order)'
  BY <1>1, <1>4, <1>10
<1>. QED BY <1>4, <1>9, <1>10, <1>11, <1>12 DEF StripInv, ActiveTabIsOpen

\* The neighbour of an active tab that goes is active.
LEMMA StripRemoved ==
  ASSUME Shape, StripInv, NEW t \in TabIds, Open(t), NEW q, RemoveTab(t, q)
  PROVE  StripInv'
<1>1. /\ order' = Others(t) /\ active' = IF active = t THEN Neighbour(t) ELSE active
      /\ ~Open(t)' /\ \A u \in TabIds \ {t} : Open(u)' <=> Open(u)
  BY DEF RemoveTab, Release, Shape, ShapeTypes, Open
<1>2. /\ order \in Seq(TabIds) /\ IsInjective(order) /\ ToSet(order) = {u \in TabIds : Open(u)}
      /\ active \in ToSet(order)
  <2>1. order = <<>> => ToSet(order) = {}
    BY DEF ToSet
  <2>. QED BY <2>1 DEF StripInv, ActiveTabIsOpen
<1>. DEFINE o == Others(t)
<1>3. /\ o \in Seq(TabIds) /\ IsInjective(o) /\ ToSet(o) = ToSet(order) \ {t}
      /\ o = <<>> => Neighbour(t) = None
      /\ o # <<>> => Neighbour(t) \in ToSet(o)
  BY <1>2, TakenOut
<1>. HIDE DEF o
<1>4. order' = o /\ ToSet(order)' = ToSet(o) /\ IsInjective(order)'
  BY <1>1, <1>3 DEF o, ToSet, IsInjective
<1>5. ToSet(order)' = {u \in TabIds : Open(u)'}
  BY <1>1, <1>2, <1>3, <1>4
<1>6. o = <<>> => ToSet(o) = {}
  BY DEF ToSet
<1>7. CASE active = t
  BY <1>1, <1>3, <1>4, <1>5, <1>7 DEF StripInv, ActiveTabIsOpen
<1>8. CASE active # t
  <2>1. active' \in ToSet(o) /\ o # <<>>
    BY <1>1, <1>2, <1>3, <1>6, <1>8
  <2>. QED BY <1>3, <1>4, <1>5, <2>1 DEF StripInv, ActiveTabIsOpen
<1>. QED BY <1>7, <1>8

LEMMA StripResolved ==
  ASSUME Shape, RestTypes, StripInv, NEW t \in TabIds, NEW p \in Profiles,
         NEW r \in {"secret", "none", "error"}, ConnectResolved(t, p, r)
  PROVE  StripInv'
<1>1. OpenTab(t, p)
  BY DEF ConnectResolved
<1>. QED BY <1>1, ResolvedBegins, StripOpened

LEMMA StripConnect ==
  ASSUME Shape, RestTypes, StripInv, NEW p \in Profiles, Connect(p) \/ KeyringRead(p)
  PROVE  StripInv'
<1>1. CASE UNCHANGED <<stripVars, tabVars>>
  BY <1>1, StripFrame DEF stripVars, tabVars, Open
<1>2. CASE \E t \in TabIds, r \in {"secret", "none", "error"} : ConnectResolved(t, p, r)
  BY <1>2, StripResolved
<1>. QED BY <1>1, <1>2 DEF Connect, KeyringRead

\* Handlers that begin a connection of a tab that is open.
LEMMA StripTab ==
  ASSUME Shape, RestTypes, StripInv, QueueInv, NEW t \in TabIds,
         ConnectLocal(t) \/ Preflight(t) \/ Reconnect(t)
  PROVE  StripInv'
<1>1. CASE ConnectLocal(t)
  <2>1. OpenTab(t, Local) /\ Begun(t)
    BY <1>1, InnerBegins DEF ConnectLocal
  <2>. QED BY <2>1, StripOpened
<1>2. CASE Preflight(t)
  <2>1. UNCHANGED stripVars
    BY <1>2 DEF Preflight
  <2>2. CASE Open(t)
    <3>1. \/ RequestSecret(t, modals) /\ UNCHANGED home
          \/ StartInner(t, modals)
          \/ Fail(t, modals) /\ UNCHANGED home
      BY <1>2, <2>2 DEF Preflight
    <3>2. Begun(t)
      BY <3>1, SecretBegins, InnerBegins
    <3>. QED BY <2>1, <2>2, <3>2, StripBegun
  <2>3. CASE ~Open(t)
    <3>1. UNCHANGED state
      BY <1>2, <2>3 DEF Preflight
    <3>. QED BY <2>1, <3>1, StripFrame DEF stripVars, Open
  <2>. QED BY <2>2, <2>3
<1>3. CASE Reconnect(t)
  <2>. DEFINE q == Without(modals, t)
  <2>. HIDE DEF q
  <2>1. /\ UNCHANGED stripVars /\ state[t] = "Disconnected"
        /\ IF kind[t] = Local THEN StartInner(t, q)
           ELSE \E r \in KeyringResults(kind[t]) :
                  IF r = "error" THEN Release(t, "Connecting") /\ UNCHANGED home
                  ELSE IF NeedsSecret(kind[t]) /\ r = "none"
                  THEN RequestSecret(t, q) /\ UNCHANGED home
                  ELSE StartSession(t, kind[t], q, r = "secret")
    BY <1>3 DEF Reconnect, ReconnectWith, q
  <2>2. Begun(t)
    <3>1. CASE kind[t] = Local
      BY <2>1, <3>1, InnerBegins
    <3>2. CASE kind[t] # Local
      <4>1. PICK r \in KeyringResults(kind[t]) :
              IF r = "error" THEN Release(t, "Connecting") /\ UNCHANGED home
              ELSE IF NeedsSecret(kind[t]) /\ r = "none"
              THEN RequestSecret(t, q) /\ UNCHANGED home
              ELSE StartSession(t, kind[t], q, r = "secret")
        BY <2>1, <3>2
      <4>2. CASE r = "error"
        BY <4>1, <4>2 DEF Begun, Idle
      <4>3. CASE r # "error" /\ NeedsSecret(kind[t]) /\ r = "none"
        BY <4>1, <4>3, SecretBegins
      <4>4. CASE r # "error" /\ ~(NeedsSecret(kind[t]) /\ r = "none")
        <5>1. StartSession(t, kind[t], q, r = "secret")
          BY <4>1, <4>4
        <5>. QED BY <5>1, StartSessionBegins
      <4>. QED BY <4>2, <4>3, <4>4
    <3>. QED BY <3>1, <3>2
  <2>. QED BY <2>1, <2>2, StripBegun DEF Open
<1>. QED BY <1>1, <1>2, <1>3

LEMMA StripClosing ==
  ASSUME Shape, Rest, StripInv, NEW t \in TabIds,
         RequestClose(t) \/ CloseTimer(t) \/ Activate(t)
  PROVE  StripInv'
<1>1. CASE RemoveTab(t, modals) /\ Open(t)
  BY <1>1, StripRemoved
<1>2. CASE UNCHANGED <<stripVars, tabVars>>
  BY <1>2, StripFrame DEF stripVars, tabVars, Open
<1>3. CASE Activate(t)
  BY <1>3, StripFrame DEF Activate, tabVars, Open
<1>4. CloseTimer(t) /\ closing[t] => Open(t)
  BY DEF Rest, ClosingTabsHaveATimer
<1>. QED BY <1>1, <1>2, <1>3, <1>4 DEF RequestClose, CloseTimer

LEMMA StripAnswer ==
  ASSUME Shape, RestTypes, StripInv, QueueInv, Answer
  PROVE  StripInv'
<1>1. CASE SubmitSecret
  <2>1. /\ Answers("Secret") /\ UNCHANGED stripVars
        /\ StartSession(shown.tab, kind[shown.tab], Tail(modals), TRUE)
    BY <1>1 DEF SubmitSecret
  <2>2. shown.tab \in TabIds /\ Open(shown.tab)
    BY <2>1, AnswerTakes
  <2>3. Begun(shown.tab)
    BY <2>1, <2>2, StartSessionBegins
  <2>. QED BY <2>1, <2>2, <2>3, StripBegun
<1>2. CASE CancelSecret
  <2>1. Answers("Secret") /\ RemoveTab(shown.tab, Tail(modals))
    BY <1>2 DEF CancelSecret
  <2>. QED BY <2>1, AnswerTakes, StripRemoved
<1>3. CASE ConfirmClose
  <2>1. Answers("ConfirmClose")
    BY <1>3 DEF ConfirmClose
  <2>2. CASE RemoveTab(shown.tab, Tail(modals))
    BY <2>1, <2>2, AnswerTakes, StripRemoved
  <2>3. CASE UNCHANGED <<stripVars, state>>
    BY <2>3, StripFrame DEF stripVars, Open
  <2>. QED BY <1>3, <2>2, <2>3 DEF ConfirmClose, BeginClose
<1>4. CASE UNCHANGED <<stripVars, state>>
  BY <1>4, StripFrame DEF stripVars, Open
<1>. QED BY <1>1, <1>2, <1>3, <1>4 DEF Answer, LeaveChangedHostKey, CancelClose, DecideHostKey, tabVars

LEMMA StripTell ==
  ASSUME Shape, Rest, StripInv, QueueInv, NEW s \in Sessions, NEW e \in Kinds \cup Errors, Tell(s, e)
  PROVE  StripInv'
<1>. DEFINE t == home[s]
<1>1. t \in TabIds /\ s # None
  BY TabsAssumption DEF Tell, MayTell, Shape, ShapeTypes
<1>2. CASE session[t] # s
  BY <1>2, StripFrame DEF Tell, stripVars, tabVars, Open
<1>3. CASE session[t] = s
  <2>1. Apply(t, s, e) /\ Open(t)
    BY <1>1, <1>3, Attached DEF Tell
  <2>2. CASE RemoveTab(t, modals)
    BY <1>1, <2>1, <2>2, StripRemoved
  <2>3. CASE /\ UNCHANGED stripVars
             /\ \/ \E x \in Idle : Release(t, x)
                \/ state' = [state EXCEPT ![t] = StateAfter(t, e)]
    <3>1. StateAfter(t, e) \notin {"unused", "removed"}
      BY DEF StateAfter
    <3>2. \A u \in TabIds : Open(u)' <=> Open(u)
      BY <1>1, <2>1, <2>3, <3>1 DEF Release, Idle, Open, Shape, ShapeTypes
    <3>. QED BY <2>3, <3>2, StripFrame DEF stripVars
  <2>. QED BY <2>1, <2>2, <2>3 DEF Apply, RequestSecret, Idle
<1>. QED BY <1>2, <1>3

-----------------------------------------------------------------------------
(* The theorems.                                                           *)

LEMMA Initially == Init => IInv
<1>. SUFFICES ASSUME Init PROVE Shape /\ Rest /\ StripInv /\ QueueInv
  BY FourParts
<1>. USE DEF Init
<1>1. Shape
  BY TabsAssumption DEF Shape, ShapeTypes, States, SilentBeforeStart, TabShowsItsSession,
                        SessionsAreHeldOrCancelled
<1>2. Rest
  BY DEF Rest, RestTypes, ClosingTabsHaveATimer
<1>3. StripInv
  BY DEF StripInv, ActiveTabIsOpen, IsInjective, ToSet, Open
<1>4. QueueInv
  BY DEF QueueInv, OneOfAKind, QuestionsHaveASession, SecretsAreAskedFor, RequestsAreCurrent, ToSet
<1>. QED BY <1>1, <1>2, <1>3, <1>4

LEMMA NextShape ==
  ASSUME Shape, Rest, [Next]_vars
  PROVE  Shape' /\ Rest'
<1>1. CASE \E p \in Profiles : Connect(p) \/ KeyringRead(p)
  <2>1. ASSUME NEW p \in Profiles, Connect(p) PROVE Shape' /\ Rest'
    BY <2>1, ConnectKeeps
  <2>2. ASSUME NEW p \in Profiles, KeyringRead(p) PROVE Shape' /\ Rest'
    BY <2>2, KeyringReadKeeps
  <2>. QED BY <1>1, <2>1, <2>2
<1>2. CASE \E t \in TabIds : ConnectLocal(t) \/ Preflight(t) \/ Reconnect(t)
  BY <1>2, ConnectLocalKeeps, PreflightKeeps, ReconnectKeeps
<1>3. CASE \E t \in TabIds : RequestClose(t) \/ CloseTimer(t) \/ Activate(t)
  BY <1>3, RequestCloseKeeps, CloseTimerKeeps, ActivateKeeps
<1>4. CASE \E s \in Sessions, p \in Prompts : JoinPrompt(s, p)
  BY <1>4, JoinPromptKeeps
<1>5. CASE \E p \in Prompts : PromptLapses(p)
  BY <1>5, PromptLapsesKeeps
<1>6. CASE \E s \in Sessions, e \in Kinds \cup Errors : Tell(s, e)
  BY <1>6, TellKeeps
<1>7. CASE Draw \/ Quit
  BY <1>7, DrawKeeps, QuitKeeps
<1>8. CASE Answer
  BY <1>8, SubmitSecretKeeps, CancelSecretKeeps, DismissKeeps, ConfirmCloseKeeps, DecideHostKeyKeeps
     DEF Answer
<1>9. CASE UNCHANGED vars
  <2>1. UNCHANGED <<shapeVars, closing, timers>>
    BY <1>9 DEF vars, shapeVars, tabVars, pendingVars
  <2>2. RestTypes'
    BY <1>9 DEF vars, tabVars, pendingVars, trustVars, Rest, RestTypes
  <2>. QED BY <2>1, <2>2, FrameKeeps
<1>. QED BY <1>1, <1>2, <1>3, <1>4, <1>5, <1>6, <1>7, <1>8, <1>9 DEF Next

LEMMA NextSettles ==
  ASSUME Shape, Rest, QueueInv, [Next]_vars
  PROVE  Settled
<1>. USE DEF Rest
<1>1. CASE \E p \in Profiles : Connect(p) \/ KeyringRead(p)
  BY <1>1, ConnectSettles, KeyringReadSettles
<1>2. CASE \E t \in TabIds : ConnectLocal(t) \/ Preflight(t) \/ Reconnect(t)
  BY <1>2, ConnectLocalSettles, PreflightSettles, ReconnectSettles
<1>3. CASE \E t \in TabIds : RequestClose(t) \/ CloseTimer(t)
  BY <1>3, RequestCloseSettles, CloseTimerSettles
<1>4. CASE \E s \in Sessions, p \in Prompts : JoinPrompt(s, p)
  BY <1>4, JoinPromptSettles
<1>5. CASE \E s \in Sessions, e \in Kinds \cup Errors : Tell(s, e)
  BY <1>5, TellSettles
<1>6. CASE Answer
  BY <1>6, SubmitSecretSettles, CancelSecretSettles, DismissSettles, ConfirmCloseSettles DEF Answer
<1>7. CASE Quit
  BY <1>7, QuitSettles
<1>8. CASE \/ \E t \in TabIds : Activate(t)
           \/ \E p \in Prompts : PromptLapses(p)
           \/ Draw \/ UNCHANGED vars
  <2>1. UNCHANGED <<modals, state, session, home, prompt, preflight>>
    BY <1>8 DEF Activate, PromptLapses, Draw, vars, tabVars, pendingVars, trustVars
  <2>. QED BY <2>1, QueueFrame
<1>. QED BY <1>1, <1>2, <1>3, <1>4, <1>5, <1>6, <1>7, <1>8 DEF Next

LEMMA NextStrip ==
  ASSUME Shape, Rest, StripInv, QueueInv, [Next]_vars
  PROVE  StripInv'
<1>. USE DEF Rest
<1>1. CASE \E p \in Profiles : Connect(p) \/ KeyringRead(p)
  BY <1>1, StripConnect
<1>2. CASE \E t \in TabIds : ConnectLocal(t) \/ Preflight(t) \/ Reconnect(t)
  BY <1>2, StripTab
<1>3. CASE \E t \in TabIds : RequestClose(t) \/ CloseTimer(t) \/ Activate(t)
  BY <1>3, StripClosing
<1>4. CASE \E s \in Sessions, e \in Kinds \cup Errors : Tell(s, e)
  BY <1>4, StripTell
<1>5. CASE Answer
  BY <1>5, StripAnswer
<1>6. CASE Quit
  <2>1. order' = <<>> /\ active' = None /\ \A t \in TabIds : ~Open(t)'
    BY <1>6 DEF Quit, Open
  <2>. QED BY <2>1 DEF StripInv, ActiveTabIsOpen, IsInjective, ToSet
<1>7. CASE \/ \E s \in Sessions, p \in Prompts : JoinPrompt(s, p)
           \/ \E p \in Prompts : PromptLapses(p)
           \/ Draw \/ UNCHANGED vars
  <2>1. UNCHANGED <<order, active, state>>
    BY <1>7 DEF JoinPrompt, PromptLapses, Draw, vars, stripVars, tabVars
  <2>. QED BY <2>1, StripFrame DEF Open
<1>. QED BY <1>1, <1>2, <1>3, <1>4, <1>5, <1>6, <1>7 DEF Next

LEMMA NextKeeps == IInv /\ [Next]_vars => IInv'
BY FourParts, NextShape, NextSettles, NextStrip DEF Settled

\* The handlers of the window keep the invariant, however clicks, events of
\* replaced sessions, results of background work and timers come in between.
THEOREM Invariance == Spec => []IInv
BY Initially, NextKeeps, PTL DEF Spec

\* Whatever sessions a tab had before, it shows the one it has (Tab::apply_event).
THEOREM TabsShowTheirSessions == Spec => []TabShowsItsSession
BY Invariance, PTL DEF IInv

\* A session that no tab holds any more was told to disconnect (Drop of SessionHandle).
THEOREM NoSessionRunsForNobody == Spec => []SessionsAreHeldOrCancelled
BY Invariance, PTL DEF IInv

\* A tab the user closes is removed by a timer at the latest (begin_close).
THEOREM ClosingTabsGoAway == Spec => []ClosingTabsHaveATimer
BY Invariance, PTL DEF IInv

(* The strip shows the open tabs with one of them active, and a tab that   *)
(* awaits its secret has its request in the queue, as has no other tab;    *)
(* requests belong to the session their tab has (TabCollection::remove,    *)
(* request_secret, prepare_reconnect and apply_event).                     *)
THEOREM RequestsFit == Spec => []RequestsFitTheTabs
<1>1. IInv => RequestsFitTheTabs
  BY DEF IInv, StripInv, QueueInv, RequestsFitTheTabs
<1>. QED BY <1>1, Invariance, PTL

(* An answer to a dialog that was drawn a while ago never takes another    *)
(* request than the one it was drawn for (ModalQueue::complete_current_if).*)
THEOREM StaleClicks == Spec => StaleClicksConsumeNothing
<1>1. IInv /\ [Next]_vars => [\A m \in ToSet(modals) : Consumed(m)]_vars
  BY FourParts, NextSettles DEF Settled
<1>. QED BY <1>1, Invariance, PTL DEF Spec, StaleClicksConsumeNothing
=============================================================================
