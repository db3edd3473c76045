------------------------------ MODULE Terminal ------------------------------
(***************************************************************************)
(* The terminals of the tabs (Tab in tabs.rs, TerminalModel in model.rs)   *)
(* between the sessions and the user: the pump that hands over what a      *)
(* session sends (session.rs of the desktop), the answers a terminal gives *)
(* to a server's queries, keys, pastes and composed text (terminal.rs),    *)
(* the size and the colours.                                               *)
(*                                                                         *)
(* A pump is a task on the interface thread. The session sends and takes   *)
(* input on threads of its own; its protocol is in SessionTask and         *)
(* LocalSession, what else happens to a tab in Tabs. The sessions' page is *)
(* the one on the screen, without a dialog; the user may move the keyboard *)
(* between the terminal and the rest of the window before any step. What   *)
(* an input says is abstracted to whom it is meant for, and what the user  *)
(* is told of refused input is left out. A closing tab goes by RemoveTab.  *)
(***************************************************************************)
EXTENDS InputEncoding, FiniteSets

CONSTANTS
  Tabs, Sessions,  \* ids, each used once
  Sizes, Themes,
  EventRoom, InputRoom,  \* EVENT_QUEUE_CAPACITY, INPUT_QUEUE_CAPACITY
  MaxSent,         \* bound on the events of a session
  Linux,           \* is this the build for Linux?
  None

VARIABLES
  tab,      \* "new" "waiting" "connecting" "connected" "ended" "gone"
  session,  \* Tab.session and Tab.session_id
  size,     \* the size of Tab.terminal
  colors,   \* TerminalModel.default_colors
  active,   \* TabCollection.active
  room,     \* the size that a terminal has on the screen
  theme,    \* AppView.theme
  drawn,    \* whose terminal was drawn last: its handlers get what is typed
  keys,     \* was it drawn with a handler for keys?
  dirty,    \* is a redraw due?
  composing,   \* AppView.composing and .compose_tab
  composeTab,
  asked,    \* the size a session was asked for last
  input,    \* the queue of input of a session
  events,   \* the queue of events of a session
  pending,  \* the event that ended the last batch of its pump
  \* history: the tab a session was started for, what it sent, what was applied
  \* to the tab, and the tab where the composition began
  owner, sent, seen, began

tabVars     == <<tab, session, size, colors, active>>
viewVars    == <<room, theme, drawn, keys, dirty>>
composeVars == <<composing, composeTab, began>>
inputVars   == <<asked, input>>
pumpVars    == <<events, pending, sent, seen>>
vars        == <<tabVars, viewVars, composeVars, inputVars, pumpVars, owner>>

\* "query": output to which the terminal has to answer.
Outputs == {"output", "query"}
Finals  == {"passphrase", "over"}
Events  == Outputs \cup Finals \cup {"connected"}

ASSUME TerminalAssumption ==
  /\ EventRoom \in Nat \ {0} /\ InputRoom \in Nat \ {0} /\ MaxSent \in Nat
  /\ None \notin Tabs \cup Sessions \cup Events
  /\ Linux \in BOOLEAN

Open == {t \in Tabs : tab[t] \notin {"new", "gone"}}

Init ==
  /\ tab = [t \in Tabs |-> "new"] /\ session = [t \in Tabs |-> None]
  /\ room \in Sizes /\ theme \in Themes
  /\ size = [t \in Tabs |-> room] /\ colors = [t \in Tabs |-> theme]
  /\ active = None /\ drawn = None /\ keys = FALSE /\ dirty = FALSE
  /\ composing = FALSE /\ composeTab = None /\ began = None
  /\ asked = [s \in Sessions |-> room] /\ input = [s \in Sessions |-> <<>>]
  /\ events = [s \in Sessions |-> <<>>] /\ pending = [s \in Sessions |-> None]
  /\ sent = [s \in Sessions |-> <<>>] /\ seen = [s \in Sessions |-> <<>>]
  /\ owner = [s \in Sessions |-> None]

-----------------------------------------------------------------------------
(* Tabs and their sessions.                                                *)

\* start_session and attach_session: the session is asked for the size that
\* the terminal has by now.
Attach(t, s) ==
  /\ s \in Sessions /\ owner[s] = None
  /\ tab' = [tab EXCEPT ![t] = "connecting"] /\ session' = [session EXCEPT ![t] = s]
  /\ asked' = [asked EXCEPT ![s] = size'[t]]
  /\ owner' = [owner EXCEPT ![s] = t]

\* No session yet (a secret is asked for, a key file is looked at), or none at
\* all (connect returns an error).
Detach(t, state) ==
  /\ tab' = [tab EXCEPT ![t] = state] /\ session' = [session EXCEPT ![t] = None]
  /\ UNCHANGED <<asked, owner>>

\* TerminalModel::with_colors, with a size estimated from the window.
NewTerminal(t) ==
  /\ \E estimate \in Sizes : size' = [size EXCEPT ![t] = estimate]
  /\ colors' = [colors EXCEPT ![t] = theme]

StartStep ==
  dirty' = TRUE /\ UNCHANGED <<room, theme, drawn, keys, composeVars, input, pumpVars>>

OpenTab(t) ==
  /\ tab[t] = "new" /\ active' = t /\ NewTerminal(t)
  /\ \/ \E s \in Sessions : Attach(t, s)
     \/ \E state \in {"waiting", "ended"} : Detach(t, state)
  /\ StartStep

\* The user gave the secret, or the key file has been looked at.
StartSession(t) ==
  /\ tab[t] = "waiting" /\ UNCHANGED <<size, colors, active>>
  /\ (\E s \in Sessions : Attach(t, s)) \/ Detach(t, "ended")
  /\ StartStep

\* The Retry button: the tab gets a new terminal.
Reconnect(t) ==
  /\ drawn = t /\ tab[t] = "ended" /\ NewTerminal(t) /\ UNCHANGED active
  /\ \/ \E s \in Sessions : Attach(t, s)
     \/ \E state \in {"waiting", "ended"} : Detach(t, state)
  /\ StartStep

\* TabCollection::remove, by the user or when a closing tab ends; the neighbour
\* becomes the active one (the order of the tabs is left out).
RemoveTab(t) ==
  /\ t \in Open /\ Detach(t, "gone")
  /\ active' \in IF active # t THEN {active} ELSE IF Open = {t} THEN {None} ELSE Open \ {t}
  /\ UNCHANGED <<size, colors>> /\ StartStep

SetActive(t) ==
  /\ t \in Open \ {active} /\ active' = t /\ dirty' = TRUE
  /\ UNCHANGED <<tab, session, size, colors, room, theme, drawn, keys, composeVars,
                 inputVars, pumpVars, owner>>

-----------------------------------------------------------------------------
(* The screen.                                                             *)

\* The window is resized, or what stands next to the terminal changes.
ChangeRoom(z) ==
  /\ room' = z /\ dirty' = TRUE
  /\ UNCHANGED <<tabVars, theme, drawn, keys, composeVars, inputVars, pumpVars, owner>>

\* refresh_preferences and TabCollection::set_terminal_colors.
ChangeTheme(c) ==
  /\ theme' = c /\ colors' = [t \in Tabs |-> IF t \in Open THEN c ELSE colors[t]]
  /\ dirty' = TRUE
  /\ UNCHANGED <<tab, session, size, active, room, drawn, keys, composeVars, inputVars,
                 pumpVars, owner>>

\* Mutant: the session keeps the size it was started with.
ResizeTerminal(t) == size' = [size EXCEPT ![t] = room] /\ UNCHANGED asked

\* Tab::resize.
Resize(t) ==
  /\ size' = [size EXCEPT ![t] = room]
  /\ asked' = [s \in Sessions |-> IF s = session[t] THEN room ELSE asked[s]]

HasTerminal(t) == t # None /\ tab[t] \in {"connected", "ended"}

\* A frame. Only a tab that is connected or has ended shows its terminal, which
\* takes the room there is (update_terminal_geometry).
Draw ==
  /\ dirty /\ dirty' = FALSE
  /\ IF HasTerminal(active) THEN drawn' = active /\ Resize(active)
     ELSE drawn' = None /\ UNCHANGED <<size, asked>>
  /\ keys' = (active # None /\ tab[active] = "connected")
  /\ UNCHANGED <<tab, session, colors, active, room, theme, composeVars, input, pumpVars, owner>>

-----------------------------------------------------------------------------
(* Input.                                                                  *)

\* Tab::send_bytes, for n messages: the queue takes as many as it has room for,
\* a session that reads no input any more takes none.
Send(t, m, n) ==
  LET s     == session[t]
      taken == IF Len(input[s]) + n > InputRoom THEN InputRoom - Len(input[s]) ELSE n
  IN \/ s # None /\ input' = [input EXCEPT ![s] = @ \o [i \in 1 .. taken |-> m]]
     \/ UNCHANGED input

InputStep ==
  dirty' = TRUE /\ UNCHANGED <<tabVars, room, theme, drawn, keys, asked, pumpVars, owner>>

\* send_terminal_input, for the tab that is active by now.
SendTerminalInput ==
  active # None /\ Send(active, active, 1) /\ UNCHANGED composeVars /\ InputStep

\* The keys that send something.
TypingKeys == {k \in Keystrokes : KeyOutcome(k, Linux) = "sent"}

\* handle_key_down: the handler belongs to the terminal that was drawn when it was
\* connected.
KeyDown == keys /\ TypingKeys # {} /\ SendTerminalInput

\* on_terminal_tab and on_terminal_shift_tab: these keys are shortcuts of the terminal.
TerminalTab == keys /\ SendTerminalInput

\* on_paste and paste_terminal: a shortcut that works only while the keyboard is in
\* the window and not in the terminal; the text may be too large.
PasteTerminal == SendTerminalInput

\* Mutant: the tab is the one that was active at the last update.
RememberLatestTab == composeTab' = active

\* The tab where the composition began.
RememberTab == composeTab' = IF composing THEN composeTab ELSE active

\* replace_and_mark_text_in_range: an input method begins, or goes on.
Compose ==
  /\ drawn # None
  /\ RememberTab /\ composing' = TRUE
  /\ began' = IF composing THEN began ELSE active
  /\ UNCHANGED <<tabVars, viewVars, inputVars, pumpVars, owner>>

EndOfComposition == composing' = FALSE /\ composeTab' = None /\ began' = None

UnmarkText ==
  /\ composing /\ EndOfComposition
  /\ UNCHANGED <<tabVars, viewVars, inputVars, pumpVars, owner>>

\* replace_text_in_range: the composed text, or a key that the platform turned
\* into text. It is meant for the tab where it began, which may be gone.
CommitText ==
  /\ drawn # None \/ composing
  /\ LET target == IF composeTab # None THEN composeTab ELSE active
         meant  == IF began # None THEN began ELSE target
     IN IF target \in Open THEN Send(target, meant, 1) ELSE UNCHANGED input
  /\ EndOfComposition /\ InputStep

\* The session takes a message, or all that are left when it ends.
TakeInput(s) ==
  /\ input[s] # <<>> /\ input' = [input EXCEPT ![s] = Tail(@)]
  /\ UNCHANGED <<tabVars, viewVars, composeVars, asked, pumpVars, owner>>

-----------------------------------------------------------------------------
(* The pump.                                                               *)

\* The session sends an event. Output may follow the exit of a local shell.
SessionSends(s, e) ==
  /\ owner[s] # None /\ Len(sent[s]) < MaxSent /\ Len(events[s]) < EventRoom
  /\ (\E i \in DOMAIN sent[s] : sent[s][i] \in Finals) => e \in Outputs
  /\ events' = [events EXCEPT ![s] = Append(@, e)] /\ sent' = [sent EXCEPT ![s] = Append(@, e)]
  /\ UNCHANGED <<tabVars, viewVars, composeVars, inputVars, pending, seen, owner>>

\* Does the tab of the pump still have its session?
Holds(s) == owner[s] # None /\ session[owner[s]] = s

\* TerminalModel::process_output: a message of its own for each query.
Answers(batch) == Cardinality({i \in DOMAIN batch : batch[i] = "query"})

\* handle_output_batch: the terminal of the tab processes the output and answers.
HandleBatch(s, batch) ==
  /\ Holds(s)
  /\ Send(owner[s], s, Answers(batch))
  /\ seen' = [seen EXCEPT ![s] = @ \o batch]
  /\ dirty' = TRUE /\ UNCHANGED <<tab, session>>

\* handle_session_event, for an event that is no output.
HandleEvent(s, e) ==
  LET t == owner[s] IN
  /\ Holds(s)
  /\ tab' = [tab EXCEPT ![t] = CASE e = "connected"  -> "connected"
                                 [] e = "passphrase" -> "waiting"
                                 [] e = "over"       -> "ended"]
  /\ session' = [session EXCEPT ![t] = IF e \in Finals THEN None ELSE @]
  /\ seen' = [seen EXCEPT ![s] = Append(@, e)]
  /\ dirty' = TRUE /\ UNCHANGED input

\* Events of a session that its tab has replaced.
Ignore(s) == ~Holds(s) /\ UNCHANGED <<tab, session, seen, dirty, input>>

\* Mutant: the event that ended a batch is put back behind the others.
PutBack(s, rest) ==
  /\ events' = [events EXCEPT ![s] = Append(Tail(rest), Head(rest))]
  /\ pending' = [pending EXCEPT ![s] = None]

\* The event that ends a batch has left the queue and is next.
KeepPending(s, rest) ==
  /\ events' = [events EXCEPT ![s] = Tail(rest)]
  /\ pending' = [pending EXCEPT ![s] = Head(rest)]

\* What the pump has still to hand over.
ToCome(s) == IF pending[s] = None THEN events[s] ELSE <<pending[s]>> \o events[s]

PumpStep ==
  UNCHANGED <<size, colors, active, room, theme, drawn, keys, composeVars, asked, sent, owner>>

\* spawn_event_pump: one turn takes an event that is no output, or as many
\* outputs as there are or as make up a batch.
PumpEvent(s) ==
  /\ ToCome(s) # <<>> /\ Head(ToCome(s)) \notin Outputs
  /\ HandleEvent(s, Head(ToCome(s))) \/ Ignore(s)
  /\ events' = [events EXCEPT ![s] = Tail(ToCome(s))]
  /\ pending' = [pending EXCEPT ![s] = None]
  /\ PumpStep

PumpBatch(s) ==
  /\ pending[s] = None
  /\ \E n \in DOMAIN events[s] :
       LET batch == SubSeq(events[s], 1, n)
           rest  == SubSeq(events[s], n + 1, Len(events[s]))
       IN /\ \A i \in DOMAIN batch : batch[i] \in Outputs
          /\ HandleBatch(s, batch) \/ Ignore(s)
          /\ \/ events' = [events EXCEPT ![s] = rest] /\ UNCHANGED pending
             \/ rest # <<>> /\ Head(rest) \notin Outputs /\ KeepPending(s, rest)
  /\ PumpStep

-----------------------------------------------------------------------------
TabStep ==
  \E t \in Tabs : OpenTab(t) \/ StartSession(t) \/ Reconnect(t) \/ RemoveTab(t) \/ SetActive(t)

ViewStep ==
  \/ \E z \in Sizes : ChangeRoom(z)
  \/ \E c \in Themes : ChangeTheme(c)
  \/ Draw
  \/ KeyDown \/ TerminalTab \/ PasteTerminal \/ Compose \/ UnmarkText \/ CommitText

SessionStep ==
  \E s \in Sessions :
    \/ \E e \in Events : SessionSends(s, e)
    \/ TakeInput(s) \/ PumpEvent(s) \/ PumpBatch(s)

Next == TabStep \/ ViewStep \/ SessionStep

Spec == Init /\ [][Next]_vars
-----------------------------------------------------------------------------
(* Properties.                                                             *)

TypeOK ==
  /\ tab \in [Tabs -> {"new", "waiting", "connecting", "connected", "ended", "gone"}]
  /\ session \in [Tabs -> Sessions \cup {None}]
  /\ size \in [Tabs -> Sizes] /\ colors \in [Tabs -> Themes] /\ active \in Open \cup {None}
  /\ room \in Sizes /\ theme \in Themes /\ drawn \in Tabs \cup {None}
  /\ keys \in BOOLEAN /\ dirty \in BOOLEAN
  /\ composing \in BOOLEAN /\ composeTab \in Tabs \cup {None} /\ began \in Tabs \cup {None}
  /\ asked \in [Sessions -> Sizes] /\ input \in [Sessions -> Seq(Tabs \cup Sessions)]
  /\ \A s \in Sessions : Len(input[s]) <= InputRoom
  /\ events \in [Sessions -> Seq(Events)] /\ pending \in [Sessions -> Events \cup {None}]
  /\ sent \in [Sessions -> Seq(Events)] /\ seen \in [Sessions -> Seq(Events)]
  /\ owner \in [Sessions -> Tabs \cup {None}]

\* An open tab and its session know each other, and composed text its tab.
IdsAgree ==
  /\ \A t \in Tabs : session[t] # None => t \in Open /\ owner[session[t]] = t
  /\ composeTab = began

\* A session that was not started has sent nothing.
UnusedSessionsAreSilent ==
  \A s \in Sessions : owner[s] = None =>
    events[s] = <<>> /\ pending[s] = None /\ sent[s] = <<>> /\ seen[s] = <<>>

(* The server's or the shell's terminal has the size of the tab's, when a  *)
(* session is started long after its tab was opened, or again in a new     *)
(* terminal, or resized at any moment.                                     *)
SessionsKnowTheSize ==
  \A t \in Tabs : session[t] # None => asked[session[t]] = size[t]

(* Unless a redraw is due, the terminal on the screen takes the room there *)
(* is, and every terminal has the colours of the theme: queries about them *)
(* are answered with what the user sees.                                   *)
ScreenFits ==
  /\ ~dirty /\ HasTerminal(active) => drawn = active /\ size[active] = room
  /\ \A t \in Open : colors[t] = theme

(* Whatever waits to be sent to a session is meant for it: text composed   *)
(* in another tab or the answers to a query of a session that the tab has  *)
(* replaced would be typed into a shell.                                   *)
InputIsForItsSession ==
  \A s \in Sessions : \A i \in DOMAIN input[s] : input[s][i] \in {s, owner[s]}

\* The inductive invariant.
IInv ==
  /\ TypeOK /\ IdsAgree /\ UnusedSessionsAreSilent
  /\ SessionsKnowTheSize /\ ScreenFits /\ InputIsForItsSession

(* However the pump puts outputs together, a tab that has its session has  *)
(* been given what that sent, in its order, and the rest still waits.      *)
OutputKeepsItsOrder ==
  \A s \in Sessions : Holds(s) => seen[s] \o ToCome(s) = sent[s]
=============================================================================
