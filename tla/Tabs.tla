-------------------------------- MODULE Tabs --------------------------------
(***************************************************************************)
(* The tabs of the window (TabCollection and ModalQueue in                 *)
(* oxide-ssh-app/src/tabs.rs) and the orchestration around them            *)
(* (oxide-ssh-desktop/src/app/session.rs). Everything here runs on the     *)
(* interface thread, one handler after the other; what interleaves is      *)
(* their order: clicks on dialogs drawn a while ago, events of sessions    *)
(* that were replaced, key files and keyrings read in the background, and  *)
(* timers.                                                                 *)
(*                                                                         *)
(* Sessions appear as the events they send, in the order SessionProtocol   *)
(* and LocalProtocol allow (SessionTask and LocalSession implement them),  *)
(* and the coordinator as the prompts that sessions of one endpoint share  *)
(* (HostTrust has its details). Output and the bell reach the terminal     *)
(* only and are left out. An event is told when the pump hands it over.    *)
(***************************************************************************)
EXTENDS Naturals, Sequences, SequencesExt, FiniteSetsExt, Retain

CONSTANTS
  TabIds,    \* identifiers of tabs, each used once
  Profiles,  \* stored profiles, all of one endpoint
  AuthOf,    \* how each of them authenticates
  Sessions,  \* identifiers of sessions, each used once
  Prompts,   \* identifiers of host-key prompts, each used once
  Local,     \* the kind of a tab with a local shell
  None

Auths == {"password", "savedPassword", "key", "savedKey", "agent"}

ASSUME TabsAssumption ==
  /\ AuthOf \in [Profiles -> Auths]
  /\ Local \notin Profiles
  /\ None \notin TabIds \cup Profiles \cup Sessions \cup Prompts \cup {Local}

VARIABLES
  order,      \* TabCollection.tabs
  active,     \* TabCollection.active
  modals,     \* ModalQueue.requests
  kind,       \* Tab.kind: a profile or Local
  state,      \* Tab.state; "unused" before the tab is opened, "removed" after
  session,    \* Tab.session and Tab.session_id
  closing,    \* Tab.closing
  shown,      \* the request on the dialog drawn last
  connecting, \* AppView.connecting_profiles: look-ups in the keyring
  preflight,  \* tabs whose key file is being looked at
  timers,     \* close timers running per tab
  quitting,   \* AppView.quitting
  home,       \* the tab a session was started for
  told,       \* the kinds of events of a session handed to the interface
  cancelled,  \* sessions that were told to disconnect
  prompt,     \* the host-key prompt a session waits for
  status,     \* of a prompt: "unused", "open", "accepted" or "refused"
  owner       \* the session a prompt was opened for

stripVars   == <<order, active>>
tabVars     == <<state, session, closing>>
pendingVars == <<connecting, preflight, timers>>
trustVars   == <<prompt, status, owner>>
vars == <<stripVars, modals, kind, tabVars, shown, pendingVars, quitting, home, told, cancelled,
          trustVars>>

Ssh(s)   == INSTANCE SessionProtocol WITH told <- told[s], last <- None
Shell(s) == INSTANCE LocalProtocol WITH told <- told[s], last <- None

Init ==
  /\ order = <<>> /\ active = None /\ modals = <<>> /\ shown = None
  /\ kind = [t \in TabIds |-> None] /\ state = [t \in TabIds |-> "unused"]
  /\ session = [t \in TabIds |-> None] /\ closing = [t \in TabIds |-> FALSE]
  /\ connecting = {} /\ preflight = {} /\ timers = [t \in TabIds |-> 0] /\ quitting = FALSE
  /\ home = [s \in Sessions |-> None] /\ told = [s \in Sessions |-> {}] /\ cancelled = {}
  /\ prompt = [s \in Sessions |-> None]
  /\ status = [p \in Prompts |-> "unused"] /\ owner = [p \in Prompts |-> None]

Open(t) == state[t] \notin {"unused", "removed"}

-----------------------------------------------------------------------------
(* The queue of requests. `key` tells two requests of a kind apart: the    *)
(* prompt, or the session whose host key has changed.                      *)

Requests == [kind : {"HostKey", "ChangedHostKey", "Secret", "ConfirmClose"},
             tab : TabIds, key : Prompts \cup Sessions \cup {None}]
Request(k, t, key) == [kind |-> k, tab |-> t, key |-> key]

\* One request of a kind per tab, and one dialog per prompt.
Push(q, r) ==
  IF \E m \in ToSet(q) : m.kind = r.kind /\ (m.tab = r.tab \/ (r.kind = "HostKey" /\ m.key = r.key))
  THEN q ELSE Append(q, r)

Without(q, t) == Retain(q, {i \in DOMAIN q : q[i].tab # t})

-----------------------------------------------------------------------------
(* What handlers do to a tab.                                              *)

Held(t) == {session[t]} \ {None}

\* Mutant: a dropped handle does not disconnect its session.
ReleaseSilently(t, x) ==
  /\ state' = [state EXCEPT ![t] = x]
  /\ session' = [session EXCEPT ![t] = None]
  /\ UNCHANGED cancelled

\* The tab gets state x and loses its session, whose handle is dropped.
Release(t, x) ==
  /\ state' = [state EXCEPT ![t] = x]
  /\ session' = [session EXCEPT ![t] = None]
  /\ cancelled' = cancelled \cup Held(t)

Place(t)  == CHOOSE i \in DOMAIN order : order[i] = t
Others(t) == RemoveAt(order, Place(t))

\* The tab that takes the place of t, or the last one.
Neighbour(t) == IF Others(t) = <<>> THEN None ELSE Others(t)[Min({Place(t), Len(Others(t))})]

\* TabCollection::remove, with q the queue as the caller leaves it.
RemoveTab(t, q) ==
  /\ order' = Others(t)
  /\ active' = IF active = t THEN Neighbour(t) ELSE active
  /\ modals' = Without(q, t)
  /\ Release(t, "removed") /\ closing' = [closing EXCEPT ![t] = FALSE]

\* TabCollection::request_secret
RequestSecret(t, q) ==
  /\ Release(t, "AwaitingSecret") /\ modals' = Append(Without(q, t), Request("Secret", t, None))

\* An error other than that of a changed key takes the tab's requests away.
Fail(t, q) == Release(t, "Disconnected") /\ modals' = Without(q, t)

\* start_session_inner and start_local_session: the service may refuse.
StartInner(t, q) ==
  \/ \E s \in Sessions :
       /\ home[s] = None /\ home' = [home EXCEPT ![s] = t]
       /\ state' = [state EXCEPT ![t] = "Connecting"]
       /\ session' = [session EXCEPT ![t] = s]
       /\ cancelled' = cancelled \cup Held(t) /\ modals' = q
  \/ Fail(t, q) /\ UNCHANGED home

\* start_session: a key file without a secret is looked at first.
StartSession(t, p, q, secret) ==
  IF AuthOf[p] = "key" /\ ~secret
  THEN /\ preflight' = preflight \cup {t} /\ Release(t, "Connecting") /\ modals' = q
       /\ UNCHANGED home
  ELSE StartInner(t, q) /\ UNCHANGED preflight

-----------------------------------------------------------------------------
(* Connecting.                                                             *)

NeedsSecret(p) == AuthOf[p] \in {"password", "savedPassword"}
KeyringResults(p) ==
  IF AuthOf[p] \in {"savedPassword", "savedKey"} THEN {"secret", "none", "error"} ELSE {"none"}

OpenTab(t, k) ==
  /\ ~quitting /\ state[t] = "unused"
  /\ order' = Append(order, t) /\ active' = t /\ kind' = [kind EXCEPT ![t] = k]
  /\ UNCHANGED closing

\* connect_profile_resolved; a secret typed in the editor is used up first.
ConnectResolved(t, p, result) ==
  /\ OpenTab(t, p)
  /\ IF NeedsSecret(p) /\ result # "secret"
     THEN RequestSecret(t, modals) /\ UNCHANGED <<preflight, home>>
     ELSE IF result = "error"
     THEN Release(t, "Connecting") /\ UNCHANGED <<modals, preflight, home>>
     ELSE StartSession(t, p, modals, result = "secret")

ConnectRest == <<shown, timers, quitting, told, trustVars>>

\* Profiles with an entry in the keyring have it read in the background.
Connect(p) ==
  /\ p \notin connecting /\ ~quitting
  /\ IF AuthOf[p] \in {"savedPassword", "savedKey"}
     THEN /\ connecting' = connecting \cup {p}
          /\ UNCHANGED <<stripVars, modals, kind, tabVars, cancelled, preflight, home>>
     ELSE /\ \E t \in TabIds, r \in {"secret", "none"} : ConnectResolved(t, p, r)
          /\ UNCHANGED connecting
  /\ UNCHANGED ConnectRest

KeyringRead(p) ==
  /\ p \in connecting /\ connecting' = connecting \ {p}
  /\ \E t \in TabIds, r \in {"secret", "none", "error"} : ConnectResolved(t, p, r)
  /\ UNCHANGED ConnectRest

ConnectLocal(t) ==
  /\ OpenTab(t, Local) /\ StartInner(t, modals)
  /\ UNCHANGED <<ConnectRest, connecting, preflight>>

\* The key file was looked at; the tab may be gone.
Preflight(t) ==
  /\ t \in preflight /\ preflight' = preflight \ {t}
  /\ IF Open(t)
     THEN \/ RequestSecret(t, modals) /\ UNCHANGED home
          \/ StartInner(t, modals)
          \/ Fail(t, modals) /\ UNCHANGED home
     ELSE UNCHANGED <<state, session, cancelled, modals, home>>
  /\ UNCHANGED <<stripVars, kind, closing, connecting, ConnectRest>>

\* The Retry button of a disconnected tab. Mutant below: it keeps the requests.
ReconnectWith(t, q) ==
  /\ state[t] = "Disconnected" /\ active = t
  /\ closing' = [closing EXCEPT ![t] = FALSE]
  /\ IF kind[t] = Local THEN StartInner(t, q) /\ UNCHANGED preflight
     ELSE \E r \in KeyringResults(kind[t]) :
            IF r = "error"
            THEN Release(t, "Connecting") /\ modals' = q /\ UNCHANGED <<preflight, home>>
            ELSE IF NeedsSecret(kind[t]) /\ r = "none"
            THEN RequestSecret(t, q) /\ UNCHANGED <<preflight, home>>
            ELSE StartSession(t, kind[t], q, r = "secret")
  /\ UNCHANGED <<stripVars, kind, connecting, ConnectRest>>

ReconnectAndKeepRequests(t) == ReconnectWith(t, modals)
Reconnect(t) == ReconnectWith(t, Without(modals, t))

-----------------------------------------------------------------------------
(* Events of sessions.                                                     *)

Errors  == {"PassphraseRequired", "HostKeyChanged", "OtherError"}
Kinds   == {"Connecting", "VerifyingHostKey", "UnknownHostKey", "ChangedHostKey",
            "Authenticating", "OpeningShell", "Connected", "Exited", "Disconnected"}
KindOf(e) == IF e \in Errors THEN "Error" ELSE e
Endings == {"ChangedHostKey", "Exited", "Error", "Disconnected"}

\* The verification of s joins the open prompt of the endpoint, which tells its
\* own tab nothing, or opens one and owns it: only the owner tells of a prompt.
JoinPrompt(s, p) ==
  /\ home[s] # None /\ kind[home[s]] # Local /\ prompt[s] = None
  /\ told[s] \subseteq {"Connecting", "VerifyingHostKey"} /\ "VerifyingHostKey" \in told[s]
  /\ IF \E o \in Prompts : status[o] = "open"
     THEN status[p] = "open" /\ UNCHANGED <<status, owner>>
     ELSE /\ status[p] = "unused"
          /\ status' = [status EXCEPT ![p] = "open"] /\ owner' = [owner EXCEPT ![p] = s]
  /\ prompt' = [prompt EXCEPT ![s] = p]
  /\ UNCHANGED <<stripVars, modals, kind, tabVars, shown, pendingVars, quitting, home, told, cancelled>>

\* The owner's verification ended, a conflict arose or a waiter was cancelled.
PromptLapses(p) ==
  /\ status[p] = "open" /\ status' = [status EXCEPT ![p] = "refused"]
  /\ UNCHANGED <<stripVars, modals, kind, tabVars, shown, pendingVars, quitting, home, told, cancelled,
                 prompt, owner>>

\* What the coordinator adds to the protocol: who may tell what of a prompt.
TrustAllows(s, e) ==
  LET p == prompt[s] IN
  /\ e = "UnknownHostKey" => p # None /\ owner[p] = s
  /\ e \in {"Authenticating", "OpeningShell", "Connected"} /\ p # None =>
       status[p] = "accepted" /\ (owner[p] = s => "UnknownHostKey" \in told[s])
  /\ KindOf(e) \in Endings /\ p # None => status[p] # "open" \/ (owner[p] # s /\ e # "ChangedHostKey")
  /\ e = "PassphraseRequired" => "Authenticating" \in told[s]
  /\ e = "HostKeyChanged" => "Authenticating" \notin told[s]

MayTell(s, e) ==
  /\ home[s] # None
  /\ IF kind[home[s]] = Local
     THEN e \in Shell(s)!Events /\ Shell(s)!MayFollow(e)
     ELSE Ssh(s)!MayFollow(KindOf(e)) /\ TrustAllows(s, e)

\* The requests an event leaves behind: TabCollection::apply_event.
RequestsAfter(t, s, e) ==
  IF e = "UnknownHostKey" THEN Push(modals, Request("HostKey", t, prompt[s]))
  ELSE IF e = "ChangedHostKey" THEN Push(modals, Request("ChangedHostKey", t, s))
  ELSE IF e \in {"Exited", "OtherError"} THEN Without(modals, t)
  ELSE modals

\* The state an event leaves the tab in: Tab::apply_event.
StateAfter(t, e) ==
  IF e = "Connected" THEN "Connected"
  ELSE IF e = "UnknownHostKey" \/ (e = "VerifyingHostKey" /\ state[t] = "AwaitingHostKey")
  THEN "AwaitingHostKey"
  ELSE IF e = "Disconnected" /\ state[t] = "AwaitingSecret" THEN "AwaitingSecret"
  ELSE IF KindOf(e) \in Endings THEN "Disconnected"
  ELSE "Connecting"

Apply(t, s, e) ==
  IF e = "PassphraseRequired"
  THEN RequestSecret(t, modals) /\ UNCHANGED <<stripVars, closing>>
  ELSE IF StateAfter(t, e) # "Disconnected"
  THEN /\ state' = [state EXCEPT ![t] = StateAfter(t, e)] /\ modals' = RequestsAfter(t, s, e)
       /\ UNCHANGED <<stripVars, session, closing, cancelled>>
  ELSE IF closing[t]
  THEN RemoveTab(t, modals)
  ELSE /\ Release(t, "Disconnected") /\ modals' = RequestsAfter(t, s, e)
       /\ UNCHANGED <<stripVars, closing>>

TellRest == <<kind, shown, pendingVars, quitting, home, trustVars>>

\* Mutant: events are applied whatever session the tab has by now.
TellStale(s, e) ==
  /\ MayTell(s, e) /\ told' = [told EXCEPT ![s] = @ \cup {KindOf(e)}]
  /\ IF Open(home[s]) THEN Apply(home[s], s, e)
     ELSE UNCHANGED <<stripVars, modals, tabVars, cancelled>>
  /\ UNCHANGED TellRest

\* The pump hands an event over: handle_session_event and after_tab_event.
Tell(s, e) ==
  /\ MayTell(s, e) /\ told' = [told EXCEPT ![s] = @ \cup {KindOf(e)}]
  /\ IF session[home[s]] = s THEN Apply(home[s], s, e)
     ELSE UNCHANGED <<stripVars, modals, tabVars, cancelled>>
  /\ UNCHANGED TellRest

-----------------------------------------------------------------------------
(* The user.                                                               *)

\* The layer draws the first request; clicks may come before it is drawn again.
Draw ==
  /\ IF modals = <<>> THEN shown' = None ELSE shown' = Head(modals) /\ shown' \in Requests
  /\ UNCHANGED <<stripVars, modals, kind, tabVars, pendingVars, quitting, home, told, cancelled, trustVars>>

\* Mutant: whatever is first in the queue is completed.
AnswersAnything(k) == shown # None /\ shown.kind = k /\ modals # <<>>

\* complete_current_if: an answer counts when its request is still the first.
Answers(k) == shown # None /\ shown.kind = k /\ modals # <<>> /\ Head(modals) = shown

AnswerRest == <<kind, shown, connecting, quitting, told>>

SubmitSecret ==
  /\ Answers("Secret") /\ StartSession(shown.tab, kind[shown.tab], Tail(modals), TRUE)
  /\ UNCHANGED <<AnswerRest, stripVars, closing, timers, trustVars>>

\* Mutant: the dialog is closed and the tab stays.
DismissSecret ==
  /\ Answers("Secret") /\ modals' = Tail(modals)
  /\ UNCHANGED <<AnswerRest, stripVars, tabVars, cancelled, preflight, timers, home, trustVars>>

CancelSecret ==
  /\ Answers("Secret") /\ RemoveTab(shown.tab, Tail(modals))
  /\ UNCHANGED <<AnswerRest, preflight, timers, home, trustVars>>

\* The answer goes through the session of the tab that asked; the store may fail.
DecideHostKey(answer) ==
  /\ Answers("HostKey") /\ modals' = Tail(modals)
  /\ status' = IF session[shown.tab] # None /\ status[shown.key] = "open"
               THEN [status EXCEPT ![shown.key] = answer] ELSE status
  /\ UNCHANGED <<AnswerRest, stripVars, tabVars, cancelled, preflight, timers, home, prompt, owner>>

\* Closed, or left for the page of trusted hosts.
LeaveChangedHostKey ==
  /\ Answers("ChangedHostKey") /\ modals' = Tail(modals)
  /\ UNCHANGED <<AnswerRest, stripVars, tabVars, cancelled, preflight, timers, home, trustVars>>

RequestClose(t) ==
  /\ Open(t)
  /\ IF state[t] = "Disconnected" \/ closing[t]
     THEN RemoveTab(t, modals)
     ELSE /\ modals' = Push(modals, Request("ConfirmClose", t, None))
          /\ UNCHANGED <<stripVars, tabVars, cancelled>>
  /\ UNCHANGED <<AnswerRest, preflight, timers, home, trustVars>>

CancelClose ==
  /\ Answers("ConfirmClose") /\ modals' = Tail(modals)
  /\ UNCHANGED <<AnswerRest, stripVars, tabVars, cancelled, preflight, timers, home, trustVars>>

\* Mutant: the tab waits for its session without a timer.
BeginCloseWithoutTimer(t, q) ==
  IF session[t] = None THEN RemoveTab(t, q) /\ UNCHANGED timers
  ELSE /\ closing' = [closing EXCEPT ![t] = TRUE] /\ cancelled' = cancelled \cup {session[t]}
       /\ modals' = q /\ UNCHANGED <<stripVars, state, session, timers>>

\* begin_close: a tab with a session waits for it to end.
BeginClose(t, q) ==
  IF session[t] = None THEN RemoveTab(t, q) /\ UNCHANGED timers
  ELSE /\ closing' = [closing EXCEPT ![t] = TRUE] /\ cancelled' = cancelled \cup {session[t]}
       /\ timers' = [timers EXCEPT ![t] = @ + 1]
       /\ modals' = q /\ UNCHANGED <<stripVars, state, session>>

ConfirmClose ==
  /\ Answers("ConfirmClose") /\ BeginClose(shown.tab, Tail(modals))
  /\ UNCHANGED <<AnswerRest, preflight, home, trustVars>>

CloseTimer(t) ==
  /\ timers[t] > 0 /\ timers' = [timers EXCEPT ![t] = @ - 1]
  /\ IF closing[t] THEN RemoveTab(t, modals) ELSE UNCHANGED <<stripVars, modals, tabVars, cancelled>>
  /\ UNCHANGED <<AnswerRest, preflight, home, trustVars>>

Activate(t) ==
  /\ Open(t) /\ active' = t
  /\ UNCHANGED <<order, modals, kind, tabVars, shown, pendingVars, quitting, home, told, cancelled, trustVars>>

\* The window goes away with its tabs, dialogs, timers and pumps.
Quit ==
  /\ ~quitting /\ quitting' = TRUE
  /\ order' = <<>> /\ active' = None /\ modals' = <<>> /\ shown' = None
  /\ cancelled' = cancelled \cup UNION {Held(t) : t \in TabIds}
  /\ state' = [t \in TabIds |-> IF state[t] = "unused" THEN "unused" ELSE "removed"]
  /\ session' = [t \in TabIds |-> None] /\ closing' = [t \in TabIds |-> FALSE]
  /\ connecting' = {} /\ preflight' = {} /\ timers' = [t \in TabIds |-> 0]
  /\ UNCHANGED <<kind, home, told, trustVars>>

-----------------------------------------------------------------------------
Answer ==
  \/ SubmitSecret \/ CancelSecret \/ LeaveChangedHostKey \/ CancelClose \/ ConfirmClose
  \/ \E a \in {"accepted", "refused"} : DecideHostKey(a)

Next ==
  \/ \E p \in Profiles : Connect(p) \/ KeyringRead(p)
  \/ \E t \in TabIds : \/ ConnectLocal(t) \/ Preflight(t) \/ Reconnect(t)
                       \/ RequestClose(t) \/ CloseTimer(t) \/ Activate(t)
  \/ \E s \in Sessions, p \in Prompts : JoinPrompt(s, p)
  \/ \E p \in Prompts : PromptLapses(p)
  \/ \E s \in Sessions, e \in Kinds \cup Errors : Tell(s, e)
  \/ Draw \/ Answer \/ Quit

Spec == Init /\ [][Next]_vars
-----------------------------------------------------------------------------
(* Properties.                                                             *)

TypeOK ==
  /\ shown \in Requests \cup {None}
  /\ kind \in [TabIds -> Profiles \cup {Local, None}]
  /\ state \in [TabIds -> {"unused", "removed", "Connecting", "AwaitingHostKey", "AwaitingSecret",
                           "Connected", "Disconnected"}]
  /\ session \in [TabIds -> Sessions \cup {None}] /\ closing \in [TabIds -> BOOLEAN]
  /\ connecting \subseteq Profiles /\ preflight \subseteq TabIds
  /\ timers \in [TabIds -> Nat] /\ quitting \in BOOLEAN
  /\ home \in [Sessions -> TabIds \cup {None}] /\ cancelled \subseteq Sessions
  /\ told \in [Sessions -> SUBSET (Kinds \cup {"Error"})]
  /\ prompt \in [Sessions -> Prompts \cup {None}]
  /\ status \in [Prompts -> {"unused", "open", "accepted", "refused"}]
  /\ owner \in [Prompts -> Sessions \cup {None}]

\* The strip shows the open tabs, and one of them is active: closing the active
\* tab, by whatever way, makes a neighbour active.
ActiveTabIsOpen ==
  /\ ToSet(order) = {t \in TabIds : Open(t)}
  /\ IF order = <<>> THEN active = None ELSE active \in ToSet(order)

\* What a tab shows of a session that has told T.
Shows(T) ==
  IF "Connected" \in T THEN "Connected"
  ELSE IF "UnknownHostKey" \in T /\ T \cap {"Authenticating", "OpeningShell"} = {}
  THEN "AwaitingHostKey" ELSE "Connecting"

(* A tab shows the state of the session it has, whatever sessions it had   *)
(* before, and has none once that session has told of its end; without a   *)
(* session it never looks connected.                                       *)
TabShowsItsSession ==
  \A t \in TabIds :
    IF session[t] = None THEN state[t] \notin {"Connected", "AwaitingHostKey"}
    ELSE /\ home[session[t]] = t
         /\ told[session[t]] \cap Endings = {} /\ state[t] = Shows(told[session[t]])

(* No session runs on for nobody: one that no tab holds was disconnected.  *)
SessionsAreHeldOrCancelled ==
  \A s \in Sessions : home[s] # None => session[home[s]] = s \/ s \in cancelled

\* A tab awaits a secret exactly while its request for one is in the queue: it
\* is neither stuck without a dialog nor asked in vain.
SecretsAreAskedFor ==
  \A t \in TabIds : state[t] = "AwaitingSecret" <=> Request("Secret", t, None) \in ToSet(modals)

\* Requests belong to open tabs, and a question about a host key to the session
\* the tab has, never to one it had before a reconnection.
RequestsAreCurrent ==
  \A m \in ToSet(modals) :
    /\ Open(m.tab)
    /\ m.kind = "HostKey" /\ session[m.tab] # None => prompt[session[m.tab]] = m.key

(* The strip and the dialogs agree with the tabs: an open tab is active,   *)
(* and the requests in the queue are those that the open tabs wait for.    *)
RequestsFitTheTabs == ActiveTabIsOpen /\ SecretsAreAskedFor /\ RequestsAreCurrent

(* A stale click never consumes another request: one that leaves the queue *)
(* was on the dialog, or its tab was closed, failed or asks anew.          *)
Consumed(m) ==
  m \notin ToSet(modals') => m = shown \/ state'[m.tab] # state[m.tab] \/ state[m.tab] = "Disconnected"
StaleClicksConsumeNothing == [][\A m \in ToSet(modals) : Consumed(m)]_vars

(* A tab the user closes goes away even if its session never ends: as long *)
(* as it is closing, a timer that removes it is running.                   *)
ClosingTabsHaveATimer == \A t \in TabIds : closing[t] => Open(t) /\ timers[t] > 0

(* session.rs of the desktop, where the keyring could not be read: "fall   *)
(* back to a one-time in-memory prompt instead of blocking the             *)
(* connection". A tab that shows Connecting would then have an attempt.    *)
ConnectingTabsHaveAnAttempt ==
  \A t \in TabIds : state[t] = "Connecting" => session[t] # None \/ t \in preflight

-----------------------------------------------------------------------------
(* The inductive invariant. A session that was not started is silent, so   *)
(* that a tab shows the state of a new one from its first event on.        *)

SilentBeforeStart == \A s \in Sessions : home[s] = None => told[s] = {}

\* A tab is in the strip once, and has one request of a kind.
StripInv == order \in Seq(TabIds) /\ IsInjective(order) /\ ActiveTabIsOpen

OneOfAKind(q) ==
  q \in Seq(Requests)
    /\ \A i, j \in DOMAIN q : q[i].kind = q[j].kind /\ q[i].tab = q[j].tab => i = j

\* A tab that connects anew, and a key file that is looked at for it, find no
\* question about its former session.
QuestionsHaveASession ==
  /\ \A m \in ToSet(modals) :
       /\ m.kind = "Secret" => m.key = None
       /\ m.kind = "HostKey" =>
            m.key \in Prompts /\ (session[m.tab] # None \/ state[m.tab] = "Disconnected")
  /\ \A t \in preflight : state[t] \in {"Connecting", "removed"} /\ session[t] = None
  /\ \A s \in Sessions : home[s] = None => prompt[s] = None

QueueInv ==
  OneOfAKind(modals) /\ QuestionsHaveASession /\ SecretsAreAskedFor /\ RequestsAreCurrent

IInv ==
  /\ TypeOK /\ SilentBeforeStart /\ StripInv /\ QueueInv
  /\ TabShowsItsSession /\ SessionsAreHeldOrCancelled /\ ClosingTabsHaveATimer
=============================================================================
