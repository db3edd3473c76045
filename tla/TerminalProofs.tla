--------------------------- MODULE TerminalProofs ---------------------------
(* Proofs about Terminal, for any tabs, sessions, sizes, themes and queues. *)
EXTENDS Terminal, SequenceTheorems, FiniteSetTheorems, TLAPS

-----------------------------------------------------------------------------
(* Sending input.                                                          *)

\* What is in two sequences put together comes from one of them.
LEMMA InEitherPart ==
  ASSUME NEW S, NEW p \in Seq(S), NEW q \in Seq(S), NEW i \in DOMAIN (p \o q)
  PROVE  \/ i \in DOMAIN p /\ (p \o q)[i] = p[i]
         \/ i - Len(p) \in DOMAIN q /\ (p \o q)[i] = q[i - Len(p)]
<1>1. /\ Len(p) \in Nat /\ Len(q) \in Nat
      /\ DOMAIN p = 1 .. Len(p) /\ DOMAIN q = 1 .. Len(q)
      /\ p \o q \in Seq(S)
  OBVIOUS
<1>2. i \in 1 .. Len(p) + Len(q)
  BY ConcatProperties
<1>3. (p \o q)[i] = IF i <= Len(p) THEN p[i] ELSE q[i - Len(p)]
  BY <1>2, ConcatProperties
<1> QED BY <1>1, <1>2, <1>3

\* What is sent comes behind what waits already, and is what was to be sent.
LEMMA SendTypes ==
  ASSUME TypeOK, NEW t \in Tabs, NEW m \in Tabs \cup Sessions, NEW n \in Nat, Send(t, m, n)
  PROVE  /\ input' \in [Sessions -> Seq(Tabs \cup Sessions)]
         /\ \A s \in Sessions : Len(input'[s]) <= InputRoom
         /\ \A s \in Sessions : \A i \in DOMAIN input'[s] :
              \/ i \in DOMAIN input[s] /\ input'[s][i] = input[s][i]
              \/ s = session[t] /\ input'[s][i] = m
<1> DEFINE s == session[t]
           taken == IF Len(input[s]) + n > InputRoom THEN InputRoom - Len(input[s]) ELSE n
           more == [i \in 1 .. taken |-> m]
<1>1. CASE UNCHANGED input
  BY <1>1 DEF TypeOK
<1>2. CASE s # None /\ input' = [input EXCEPT ![s] = @ \o more]
  <2>1. s \in Sessions /\ input[s] \in Seq(Tabs \cup Sessions) /\ Len(input[s]) <= InputRoom
    BY <1>2 DEF TypeOK
  <2>2. taken \in Nat /\ Len(input[s]) + taken <= InputRoom
    BY <2>1, TerminalAssumption, LenProperties
  <2>3. more \in Seq(Tabs \cup Sessions) /\ Len(more) = taken /\ \A i \in 1 .. taken : more[i] = m
    <3> HIDE DEF taken
    <3> QED BY <2>2
  <2> HIDE DEF taken, more
  <2>4. DEFINE q == input[s] \o more
  <2>5. q \in Seq(Tabs \cup Sessions) /\ Len(q) = Len(input[s]) + taken
    BY <2>1, <2>2, <2>3
  <2>6. ASSUME NEW i \in DOMAIN q
        PROVE  (i \in DOMAIN input[s] /\ q[i] = input[s][i]) \/ q[i] = m
    <3>1. \/ i \in DOMAIN input[s] /\ q[i] = input[s][i]
          \/ i - Len(input[s]) \in DOMAIN more /\ q[i] = more[i - Len(input[s])]
      BY <2>1, <2>3, InEitherPart
    <3>2. DOMAIN more = 1 .. taken
      BY <2>3, LenProperties
    <3> QED BY <2>3, <3>1, <3>2
  <2>7. input' = [input EXCEPT ![s] = q]
    BY <1>2
  <2> HIDE DEF q
  <2> QED BY <2>1, <2>2, <2>5, <2>6, <2>7 DEF TypeOK
<1> QED BY <1>1, <1>2 DEF Send

-----------------------------------------------------------------------------
(* The steps of the tabs.                                                  *)

LEMMA InitIInv == Init => IInv
<1> SUFFICES ASSUME Init PROVE IInv
  OBVIOUS
<1> USE TerminalAssumption
<1>1. Open = {} BY DEF Init, Open
<1>2. TypeOK
  <2>1. /\ events \in [Sessions -> Seq(Events)] /\ input \in [Sessions -> Seq(Tabs \cup Sessions)]
        /\ sent \in [Sessions -> Seq(Events)] /\ seen \in [Sessions -> Seq(Events)]
        /\ \A s \in Sessions : Len(input[s]) <= InputRoom
    BY DEF Init
  <2>2. /\ size \in [Tabs -> Sizes] /\ colors \in [Tabs -> Themes]
        /\ asked \in [Sessions -> Sizes] /\ room \in Sizes /\ theme \in Themes
    BY DEF Init
  <2> QED BY <2>1, <2>2, <1>1 DEF Init, TypeOK
<1>3. IdsAgree /\ UnusedSessionsAreSilent /\ SessionsKnowTheSize
  BY DEF Init, IdsAgree, UnusedSessionsAreSilent, SessionsKnowTheSize
<1>4. ScreenFits /\ InputIsForItsSession
  BY <1>1 DEF Init, ScreenFits, InputIsForItsSession, HasTerminal
<1> QED BY <1>2, <1>3, <1>4 DEF IInv

\* A tab gets a session, loses the one it had, or goes.
LEMMA StartOrEnd ==
  ASSUME IInv, NEW t \in Tabs, StartStep,
         \/ \E s \in Sessions : Attach(t, s)
         \/ \E state \in {"waiting", "ended", "gone"} : Detach(t, state),
         size' \in [Tabs -> Sizes], colors' \in [Tabs -> Themes],
         \A u \in Tabs \ {t} : size'[u] = size[u] /\ colors'[u] = colors[u],
         tab'[t] # "gone" => colors'[t] = theme,
         active' \in Open' \cup {None}
  PROVE  IInv'
<1> USE TerminalAssumption
<1> DEFINE Moved ==
      /\ tab' \in [Tabs -> {"new", "waiting", "connecting", "connected", "ended", "gone"}]
      /\ session' \in [Tabs -> Sessions \cup {None}]
      /\ asked' \in [Sessions -> Sizes] /\ owner' \in [Sessions -> Tabs \cup {None}]
      /\ \A u \in Tabs \ {t} : tab'[u] = tab[u] /\ session'[u] = session[u]
      /\ \A s \in Sessions : owner[s] # None => (owner'[s] = owner[s] /\ asked'[s] = asked[s])
<1>1. Moved
  <2>1. ASSUME NEW s \in Sessions, Attach(t, s) PROVE Moved
    BY <2>1 DEF IInv, TypeOK, Attach
  <2>2. ASSUME NEW state \in {"waiting", "ended", "gone"}, Detach(t, state) PROVE Moved
    BY <2>2 DEF IInv, TypeOK, Detach
  <2> QED BY <2>1, <2>2
<1>2. \/ session'[t] = None
      \/ /\ session'[t] \in Sessions /\ owner'[session'[t]] = t
         /\ asked'[session'[t]] = size'[t] /\ tab'[t] = "connecting"
  BY DEF IInv, TypeOK, Attach, Detach
<1>3. /\ dirty' = TRUE
      /\ UNCHANGED <<room, theme, drawn, keys, composing, composeTab, began, input>>
      /\ UNCHANGED <<events, pending, sent, seen>>
  BY DEF StartStep, composeVars, pumpVars
<1>4. TypeOK'
  BY <1>1, <1>3 DEF IInv, TypeOK
<1>5. IdsAgree'
  <2>1. ASSUME NEW u \in Tabs, session'[u] # None PROVE u \in Open' /\ owner'[session'[u]] = u
    <3>1. CASE u = t
      BY <3>1, <2>1, <1>1, <1>2 DEF Open
    <3>2. CASE u # t
      <4>1. session'[u] = session[u] /\ session[u] \in Sessions /\ tab'[u] = tab[u]
        BY <3>2, <2>1, <1>1 DEF IInv, TypeOK
      <4>2. owner[session[u]] = u /\ u \in Open
        BY <4>1, <2>1 DEF IInv, IdsAgree
      <4> QED BY <4>1, <4>2, <1>1 DEF Open
    <3> QED BY <3>1, <3>2
  <2> QED BY <2>1, <1>3 DEF IInv, IdsAgree
<1>6. UnusedSessionsAreSilent'
  BY <1>1, <1>3 DEF IInv, TypeOK, UnusedSessionsAreSilent
<1>7. SessionsKnowTheSize'
  <2>1. ASSUME NEW u \in Tabs \ {t}, session'[u] # None PROVE asked'[session'[u]] = size'[u]
    <3>1. session'[u] = session[u] /\ session[u] \in Sessions /\ size'[u] = size[u]
      BY <2>1, <1>1 DEF IInv, TypeOK
    <3>2. owner[session[u]] = u /\ asked[session[u]] = size[u]
      BY <3>1, <2>1 DEF IInv, IdsAgree, SessionsKnowTheSize
    <3> QED BY <3>1, <3>2, <1>1
  <2> QED BY <2>1, <1>2 DEF SessionsKnowTheSize
<1>8. ScreenFits'
  BY <1>1, <1>3 DEF IInv, TypeOK, ScreenFits, Open
<1>9. InputIsForItsSession'
  BY <1>1, <1>3 DEF IInv, TypeOK, InputIsForItsSession
<1> QED BY <1>4, <1>5, <1>6, <1>7, <1>8, <1>9 DEF IInv

\* A new terminal has the colours of the theme.
LEMMA NewTerminals ==
  ASSUME TypeOK, NEW t \in Tabs, NewTerminal(t)
  PROVE  /\ size' \in [Tabs -> Sizes] /\ colors' \in [Tabs -> Themes]
         /\ \A u \in Tabs \ {t} : size'[u] = size[u] /\ colors'[u] = colors[u]
         /\ colors'[t] = theme
BY DEF TypeOK, NewTerminal

\* Which tabs are open after a start.
LEMMA OpenAfterStart ==
  ASSUME TypeOK, NEW t \in Tabs,
         \/ \E s \in Sessions : Attach(t, s)
         \/ \E state \in {"waiting", "ended"} : Detach(t, state)
  PROVE  Open' = Open \cup {t} /\ tab'[t] # "gone"
BY DEF TypeOK, Attach, Detach, Open

LEMMA OpenTabStep == ASSUME IInv, NEW t \in Tabs, OpenTab(t) PROVE IInv'
<1>1. TypeOK BY DEF IInv
<1>2. NewTerminal(t) /\ StartStep /\ active' = t
  BY DEF OpenTab
<1>3. \/ \E s \in Sessions : Attach(t, s)
      \/ \E state \in {"waiting", "ended"} : Detach(t, state)
  BY DEF OpenTab
<1>4. active' \in Open' \cup {None}
  BY <1>1, <1>2, <1>3, OpenAfterStart
<1>5. \/ \E s \in Sessions : Attach(t, s)
      \/ \E state \in {"waiting", "ended", "gone"} : Detach(t, state)
  BY <1>3
<1> QED BY <1>1, <1>2, <1>4, <1>5, NewTerminals, StartOrEnd

LEMMA ReconnectStep == ASSUME IInv, NEW t \in Tabs, Reconnect(t) PROVE IInv'
<1>1. TypeOK BY DEF IInv
<1>2. NewTerminal(t) /\ StartStep /\ active' = active
  BY DEF Reconnect
<1>3. \/ \E s \in Sessions : Attach(t, s)
      \/ \E state \in {"waiting", "ended"} : Detach(t, state)
  BY DEF Reconnect
<1>4. active' \in Open' \cup {None}
  BY <1>1, <1>2, <1>3, OpenAfterStart DEF TypeOK
<1>5. \/ \E s \in Sessions : Attach(t, s)
      \/ \E state \in {"waiting", "ended", "gone"} : Detach(t, state)
  BY <1>3
<1> QED BY <1>1, <1>2, <1>4, <1>5, NewTerminals, StartOrEnd

LEMMA StartSessionStep == ASSUME IInv, NEW t \in Tabs, StartSession(t) PROVE IInv'
<1>1. TypeOK BY DEF IInv
<1>2. StartStep /\ UNCHANGED <<size, colors, active>> /\ t \in Open
  BY DEF StartSession, Open
<1>3. (\E s \in Sessions : Attach(t, s)) \/ Detach(t, "ended")
  BY DEF StartSession
<1>4. active' \in Open' \cup {None}
  BY <1>1, <1>2, <1>3, OpenAfterStart DEF TypeOK
<1>5. \/ \E s \in Sessions : Attach(t, s)
      \/ \E state \in {"waiting", "ended", "gone"} : Detach(t, state)
  BY <1>3
<1>6. /\ size' \in [Tabs -> Sizes] /\ colors' \in [Tabs -> Themes] /\ colors'[t] = theme
      /\ \A u \in Tabs \ {t} : size'[u] = size[u] /\ colors'[u] = colors[u]
  BY <1>1, <1>2 DEF IInv, TypeOK, ScreenFits
<1> QED BY <1>2, <1>4, <1>5, <1>6, StartOrEnd

LEMMA RemoveTabStep == ASSUME IInv, NEW t \in Tabs, RemoveTab(t) PROVE IInv'
<1>1. TypeOK BY DEF IInv
<1>2. StartStep /\ UNCHANGED <<size, colors>> /\ Detach(t, "gone") /\ tab'[t] = "gone"
  BY <1>1 DEF RemoveTab, Detach, TypeOK
<1>3. Open' = Open \ {t}
  BY <1>1, <1>2 DEF Open, Detach, TypeOK
<1>4. active' \in Open' \cup {None}
  BY <1>1, <1>3 DEF RemoveTab, TypeOK
<1>5. \/ \E s \in Sessions : Attach(t, s)
      \/ \E state \in {"waiting", "ended", "gone"} : Detach(t, state)
  BY <1>2
<1>6. /\ size' \in [Tabs -> Sizes] /\ colors' \in [Tabs -> Themes]
      /\ \A u \in Tabs \ {t} : size'[u] = size[u] /\ colors'[u] = colors[u]
  BY <1>1, <1>2 DEF TypeOK
<1> QED BY <1>2, <1>4, <1>5, <1>6, StartOrEnd

LEMMA SetActiveStep == ASSUME IInv, NEW t \in Tabs, SetActive(t) PROVE IInv'
<1>1. Open' = Open BY DEF SetActive, Open
<1> QED BY <1>1, TerminalAssumption
  DEF SetActive, IInv, TypeOK, IdsAgree, UnusedSessionsAreSilent, SessionsKnowTheSize, ScreenFits,
      InputIsForItsSession, composeVars, inputVars, pumpVars

-----------------------------------------------------------------------------
(* The steps of the screen.                                                *)

\* Only the screen changes, and is to be drawn anew.
LEMMA ChangeRoomStep == ASSUME IInv, NEW z \in Sizes, ChangeRoom(z) PROVE IInv'
<1>1. Open' = Open BY DEF ChangeRoom, tabVars, Open
<1> QED BY <1>1
  DEF ChangeRoom, IInv, TypeOK, IdsAgree, UnusedSessionsAreSilent, SessionsKnowTheSize, ScreenFits,
      InputIsForItsSession, tabVars, composeVars, inputVars, pumpVars

LEMMA ChangeThemeStep == ASSUME IInv, NEW c \in Themes, ChangeTheme(c) PROVE IInv'
<1>1. Open' = Open /\ Open \subseteq Tabs BY DEF ChangeTheme, Open
<1> QED BY <1>1
  DEF ChangeTheme, IInv, TypeOK, IdsAgree, UnusedSessionsAreSilent, SessionsKnowTheSize, ScreenFits,
      InputIsForItsSession, composeVars, inputVars, pumpVars

\* The terminal on the screen and its session get the new size together.
LEMMA DrawStep == ASSUME IInv, Draw PROVE IInv'
<1>1. /\ UNCHANGED <<tab, session, colors, active, room, theme, input, owner>>
      /\ UNCHANGED <<composing, composeTab, began, events, pending, sent, seen>>
      /\ dirty' = FALSE /\ keys' \in BOOLEAN /\ Open' = Open
  BY DEF Draw, composeVars, pumpVars, Open
<1>2. CASE HasTerminal(active) /\ drawn' = active /\ Resize(active)
  <2>1. /\ active \in Tabs /\ size' = [size EXCEPT ![active] = room]
        /\ asked' = [s \in Sessions |-> IF s = session[active] THEN room ELSE asked[s]]
    BY <1>2 DEF IInv, TypeOK, HasTerminal, Resize, Open
  <2>2. TypeOK'
    BY <1>1, <1>2, <2>1 DEF IInv, TypeOK
  <2>3. SessionsKnowTheSize'
    <3>1. ASSUME NEW u \in Tabs, session[u] # None PROVE asked'[session[u]] = size'[u]
      <4>1. session[u] \in Sessions /\ owner[session[u]] = u /\ asked[session[u]] = size[u]
        BY <3>1 DEF IInv, TypeOK, IdsAgree, SessionsKnowTheSize
      <4>2. session[u] = session[active] => u = active
        BY <4>1, <2>1, <3>1 DEF IInv, IdsAgree
      <4> QED BY <4>1, <4>2, <2>1 DEF IInv, TypeOK
    <3> QED BY <3>1, <1>1 DEF SessionsKnowTheSize
  <2>4. ScreenFits'
    BY <1>1, <1>2, <2>1 DEF IInv, TypeOK, ScreenFits
  <2> QED BY <1>1, <2>2, <2>3, <2>4
    DEF IInv, IdsAgree, UnusedSessionsAreSilent, InputIsForItsSession
<1>3. CASE ~HasTerminal(active) /\ drawn' = None /\ UNCHANGED <<size, asked>>
  <2>1. ~HasTerminal(active)'
    BY <1>1, <1>3 DEF HasTerminal
  <2> QED BY <1>1, <1>3, <2>1
    DEF IInv, TypeOK, IdsAgree, UnusedSessionsAreSilent, SessionsKnowTheSize, ScreenFits,
        InputIsForItsSession
<1> QED BY <1>2, <1>3 DEF Draw

-----------------------------------------------------------------------------
(* The steps of the input.                                                 *)

\* What is sent to a tab on purpose is meant for its session.
LEMMA SentInputIsMeant ==
  ASSUME IInv, NEW t \in Open, NEW m, m = t \/ (m = session[t] /\ m # None),
         NEW n \in Nat, Send(t, m, n), owner' = owner
  PROVE  /\ input' \in [Sessions -> Seq(Tabs \cup Sessions)]
         /\ \A s \in Sessions : Len(input'[s]) <= InputRoom
         /\ InputIsForItsSession'
<1>1. TypeOK /\ t \in Tabs /\ m \in Tabs \cup Sessions
  BY DEF IInv, TypeOK, Open
<1>2. session[t] \in Sessions => m \in {session[t], owner[session[t]]}
  BY <1>1, TerminalAssumption DEF IInv, IdsAgree
<1>3. /\ input' \in [Sessions -> Seq(Tabs \cup Sessions)]
      /\ \A s \in Sessions : Len(input'[s]) <= InputRoom
      /\ \A s \in Sessions : \A i \in DOMAIN input'[s] :
           \/ i \in DOMAIN input[s] /\ input'[s][i] = input[s][i]
           \/ s = session[t] /\ input'[s][i] = m
  BY <1>1, SendTypes
<1>4. InputIsForItsSession'
  BY <1>2, <1>3 DEF IInv, InputIsForItsSession
<1> QED BY <1>3, <1>4

LEMMA InputKeepsIInv ==
  ASSUME IInv, InputStep, composing' \in BOOLEAN, composeTab' \in Tabs \cup {None},
         began' = composeTab',
         input' \in [Sessions -> Seq(Tabs \cup Sessions)],
         \A s \in Sessions : Len(input'[s]) <= InputRoom,
         InputIsForItsSession'
  PROVE  IInv'
<1>1. Open' = Open BY DEF InputStep, tabVars, Open
<1> QED BY <1>1
  DEF InputStep, IInv, TypeOK, IdsAgree, UnusedSessionsAreSilent, SessionsKnowTheSize, ScreenFits,
      tabVars, pumpVars

LEMMA KeyOrPasteStep ==
  ASSUME IInv, KeyDown \/ TerminalTab \/ PasteTerminal
  PROVE  IInv'
<1> active # None /\ Send(active, active, 1) /\ UNCHANGED composeVars /\ InputStep
  BY DEF KeyDown, TerminalTab, PasteTerminal, SendTerminalInput
<1>1. active \in Open /\ owner' = owner
  BY DEF IInv, TypeOK, InputStep
<1>2. /\ input' \in [Sessions -> Seq(Tabs \cup Sessions)]
      /\ \A s \in Sessions : Len(input'[s]) <= InputRoom
      /\ InputIsForItsSession'
  BY <1>1, SentInputIsMeant
<1>3. composing' \in BOOLEAN /\ composeTab' \in Tabs \cup {None} /\ began' = composeTab'
  BY DEF IInv, TypeOK, IdsAgree, composeVars
<1> QED BY <1>2, <1>3, InputKeepsIInv

LEMMA CommitTextStep == ASSUME IInv, CommitText PROVE IInv'
<1> DEFINE target == IF composeTab # None THEN composeTab ELSE active
           meant  == IF began # None THEN began ELSE target
<1>1. InputStep /\ EndOfComposition /\ owner' = owner
  BY DEF CommitText, InputStep
<1>2. meant = target
  BY DEF IInv, IdsAgree
<1>3. /\ input' \in [Sessions -> Seq(Tabs \cup Sessions)]
      /\ \A s \in Sessions : Len(input'[s]) <= InputRoom
      /\ InputIsForItsSession'
  <2>1. CASE target \in Open
    <3>1. Send(target, target, 1)
      BY <1>2, <2>1 DEF CommitText
    <3> HIDE DEF target
    <3> QED BY <1>1, <2>1, <3>1, SentInputIsMeant
  <2>2. CASE target \notin Open
    BY <1>1, <2>2 DEF CommitText, IInv, TypeOK, InputIsForItsSession
  <2> QED BY <2>1, <2>2
<1>4. composing' \in BOOLEAN /\ composeTab' \in Tabs \cup {None} /\ began' = composeTab'
  BY <1>1 DEF EndOfComposition
<1> QED BY <1>1, <1>3, <1>4, InputKeepsIInv

\* A composition belongs to the tab where it began.
LEMMA ComposeStep == ASSUME IInv, Compose \/ UnmarkText PROVE IInv'
<1>1. Open' = Open
  BY DEF Compose, UnmarkText, tabVars, Open
<1>2. composing' \in BOOLEAN /\ composeTab' \in Tabs \cup {None} /\ began' = composeTab'
  BY DEF IInv, TypeOK, IdsAgree, Open, Compose, UnmarkText, EndOfComposition, RememberTab
<1>3. UNCHANGED <<tabVars, viewVars, inputVars, pumpVars, owner>>
  BY DEF Compose, UnmarkText
<1> QED BY <1>1, <1>2, <1>3
  DEF IInv, TypeOK, IdsAgree, UnusedSessionsAreSilent, SessionsKnowTheSize, ScreenFits, HasTerminal,
      InputIsForItsSession, tabVars, viewVars, inputVars, pumpVars

LEMMA TakeInputStep == ASSUME IInv, NEW s \in Sessions, TakeInput(s) PROVE IInv'
<1>1. Open' = Open
  BY DEF TakeInput, tabVars, Open
<1>2. /\ input[s] \in Seq(Tabs \cup Sessions) /\ input[s] # <<>>
      /\ input' = [input EXCEPT ![s] = Tail(input[s])]
  BY DEF IInv, TypeOK, TakeInput
<1>3. /\ Tail(input[s]) \in Seq(Tabs \cup Sessions) /\ Len(Tail(input[s])) <= InputRoom
      /\ \A i \in DOMAIN Tail(input[s]) :
           i + 1 \in DOMAIN input[s] /\ Tail(input[s])[i] = input[s][i + 1]
  BY <1>2, TerminalAssumption DEF IInv, TypeOK
<1>4. InputIsForItsSession'
  BY <1>2, <1>3 DEF IInv, TypeOK, InputIsForItsSession, TakeInput
<1> QED BY <1>1, <1>2, <1>3, <1>4
  DEF TakeInput, IInv, TypeOK, IdsAgree, UnusedSessionsAreSilent, SessionsKnowTheSize, ScreenFits,
      HasTerminal, tabVars, viewVars, composeVars, pumpVars

-----------------------------------------------------------------------------
(* The steps of the pump.                                                  *)

LEMMA SessionSendsStep ==
  ASSUME IInv, NEW s \in Sessions, NEW e \in Events, SessionSends(s, e) PROVE IInv'
<1>1. Open' = Open
  BY DEF SessionSends, tabVars, Open
<1>2. /\ events' \in [Sessions -> Seq(Events)] /\ sent' \in [Sessions -> Seq(Events)]
      /\ \A u \in Sessions \ {s} : events'[u] = events[u] /\ sent'[u] = sent[u]
      /\ owner[s] # None
  BY DEF IInv, TypeOK, SessionSends
<1> QED BY <1>1, <1>2
  DEF SessionSends, IInv, TypeOK, IdsAgree, UnusedSessionsAreSilent, SessionsKnowTheSize,
      ScreenFits, InputIsForItsSession, HasTerminal, tabVars, viewVars, composeVars, inputVars

\* What the pump has still to hand over are events.
LEMMA ToComeType ==
  ASSUME TypeOK, NEW s \in Sessions
  PROVE  /\ ToCome(s) \in Seq(Events) /\ events[s] \in Seq(Events)
         /\ pending[s] # None =>
              ToCome(s) # <<>> /\ Head(ToCome(s)) = pending[s] /\ Tail(ToCome(s)) = events[s]
         /\ pending[s] = None => ToCome(s) = events[s]
<1>1. CASE pending[s] = None
  BY <1>1 DEF TypeOK, ToCome
<1>2. CASE pending[s] # None
  <2>1. pending[s] \in Events /\ events[s] \in Seq(Events)
    BY <1>2 DEF TypeOK
  <2>2. ToCome(s) = <<pending[s]>> \o events[s]
    BY <1>2 DEF ToCome
  <2> HIDE DEF Events
  <2> QED BY <1>2, <2>1, <2>2
<1> QED BY <1>1, <1>2

\* What a step of the pump may do to a tab and its session.
LEMMA PumpKeepsIInv ==
  ASSUME IInv, NEW s \in Sessions, PumpStep, owner[s] # None,
         events' \in [Sessions -> Seq(Events)], pending' \in [Sessions -> Events \cup {None}],
         seen' \in [Sessions -> Seq(Events)],
         \A u \in Sessions \ {s} :
           events'[u] = events[u] /\ pending'[u] = pending[u] /\ seen'[u] = seen[u],
         input' \in [Sessions -> Seq(Tabs \cup Sessions)],
         \A u \in Sessions : Len(input'[u]) <= InputRoom,
         InputIsForItsSession',
         dirty' = TRUE \/ UNCHANGED <<tab, dirty>>, dirty' \in BOOLEAN,
         tab' \in [Tabs -> {"new", "waiting", "connecting", "connected", "ended", "gone"}],
         session' \in [Tabs -> Sessions \cup {None}], Open' = Open,
         \A t \in Tabs : session'[t] \in {session[t], None}
  PROVE  IInv'
<1>1. /\ UNCHANGED <<size, colors, active, room, theme, drawn, keys, asked, sent, owner>>
      /\ UNCHANGED <<composing, composeTab, began>>
  BY DEF PumpStep, composeVars
<1>2. TypeOK'
  BY <1>1 DEF IInv, TypeOK
<1>3. IdsAgree' /\ SessionsKnowTheSize' /\ UnusedSessionsAreSilent'
  BY <1>1 DEF IInv, TypeOK, IdsAgree, SessionsKnowTheSize, UnusedSessionsAreSilent
<1>4. ScreenFits'
  BY <1>1 DEF IInv, ScreenFits, HasTerminal
<1> QED BY <1>2, <1>3, <1>4 DEF IInv

LEMMA PumpEventStep == ASSUME IInv, NEW s \in Sessions, PumpEvent(s) PROVE IInv'
<1> DEFINE e == Head(ToCome(s))
<1>1. TypeOK BY DEF IInv
<1>2. ToCome(s) \in Seq(Events) /\ ToCome(s) # <<>> /\ e \in Events \ Outputs
  BY <1>1, ToComeType DEF PumpEvent
<1>3. owner[s] # None
  BY <1>1, <1>2, ToComeType DEF IInv, UnusedSessionsAreSilent
<1>4. /\ PumpStep
      /\ events' \in [Sessions -> Seq(Events)] /\ pending' \in [Sessions -> Events \cup {None}]
      /\ \A u \in Sessions \ {s} : events'[u] = events[u] /\ pending'[u] = pending[u]
  BY <1>1, <1>2 DEF PumpEvent, TypeOK
<1>5. CASE Ignore(s)
  <2>1. UNCHANGED <<tab, session, seen, dirty, input>> /\ Open' = Open /\ owner' = owner
    BY <1>4, <1>5 DEF Ignore, Open, PumpStep
  <2> QED BY <1>1, <1>3, <1>4, <2>1, PumpKeepsIInv DEF IInv, TypeOK, InputIsForItsSession
<1>6. CASE HandleEvent(s, e)
  <2>1. owner[s] \in Tabs /\ owner[s] \in Open /\ session[owner[s]] = s
    BY <1>1, <1>3, <1>6, TerminalAssumption DEF HandleEvent, Holds, IInv, TypeOK, IdsAgree
  <2>2. e \in {"connected", "passphrase", "over"}
    BY <1>2 DEF Events, Finals
  <2> HIDE DEF e
  <2>3. /\ tab' = [tab EXCEPT ![owner[s]] = tab'[owner[s]]]
        /\ tab'[owner[s]] \in {"waiting", "connected", "ended"}
        /\ session' \in [Tabs -> Sessions \cup {None}]
        /\ \A t \in Tabs : session'[t] \in {session[t], None}
        /\ dirty' = TRUE /\ UNCHANGED input
    BY <1>1, <1>6, <2>1, <2>2 DEF HandleEvent, TypeOK
  <2>4. Open' = Open
    BY <1>1, <2>1, <2>3 DEF TypeOK, Open
  <2>5. tab' \in [Tabs -> {"new", "waiting", "connecting", "connected", "ended", "gone"}]
    BY <1>1, <2>1, <2>3 DEF TypeOK
  <2>6. /\ seen' \in [Sessions -> Seq(Events)]
        /\ \A u \in Sessions \ {s} : seen'[u] = seen[u]
    BY <1>1, <1>2, <1>6 DEF HandleEvent, TypeOK
  <2>7. owner' = owner /\ InputIsForItsSession'
    BY <1>4, <2>3 DEF IInv, PumpStep, InputIsForItsSession
  <2> QED BY <1>1, <1>3, <1>4, <2>3, <2>4, <2>5, <2>6, <2>7, PumpKeepsIInv DEF TypeOK
<1> QED BY <1>5, <1>6 DEF PumpEvent

\* A batch is a front part of what waits.
LEMMA Fronts ==
  ASSUME TypeOK, NEW s \in Sessions, NEW n \in DOMAIN events[s]
  PROVE  LET batch == SubSeq(events[s], 1, n)
             rest  == SubSeq(events[s], n + 1, Len(events[s]))
         IN /\ n \in 1 .. Len(events[s])
            /\ batch \in Seq(Events) /\ Len(batch) = n /\ batch # <<>>
            /\ rest \in Seq(Events) /\ events[s] = batch \o rest
            /\ Answers(batch) \in Nat
<1> DEFINE q == events[s]
           batch == SubSeq(q, 1, n)
           rest  == SubSeq(q, n + 1, Len(q))
<1>1. q \in Seq(Events) /\ n \in 1 .. Len(q)
  BY DEF TypeOK
<1> HIDE DEF q, Events
<1>2. /\ batch \in Seq(Events) /\ Len(batch) = n
      /\ \A i \in 1 .. n : batch[i] = q[i]
  BY <1>1
<1>3. /\ rest \in Seq(Events) /\ Len(rest) = Len(q) - n
      /\ \A i \in 1 .. Len(q) - n : rest[i] = q[n + i]
  BY <1>1
<1>4. q = batch \o rest
  <2>1. batch \o rest = SubSeq(q, 1, Len(q))
    <3>1. 1 \in 1 .. Len(q) + 1 /\ n \in 1 - 1 .. Len(q) /\ Len(q) \in n .. Len(q)
      BY <1>1
    <3> QED BY <1>1, <3>1, ConcatAdjacentSubSeq
  <2>2. SubSeq(q, 1, Len(q)) = q
    BY <1>1, SubSeqFull
  <2> QED BY <2>1, <2>2
<1>5. Cardinality({i \in DOMAIN batch : batch[i] = "query"}) \in Nat
  <2>1. IsFiniteSet(1 .. n)
    BY <1>1, FS_Interval
  <2>2. {i \in DOMAIN batch : batch[i] = "query"} \subseteq 1 .. n
    BY <1>2
  <2>3. IsFiniteSet({i \in DOMAIN batch : batch[i] = "query"})
    BY <2>1, <2>2, FS_Subset
  <2> QED BY <2>3, FS_CardinalityType
<1>6. batch # <<>>
  BY <1>1, <1>2
<1> QED BY <1>1, <1>2, <1>3, <1>4, <1>5, <1>6 DEF q, Answers

LEMMA PumpBatchStep == ASSUME IInv, NEW s \in Sessions, PumpBatch(s) PROVE IInv'
<1>1. TypeOK BY DEF IInv
<1> PICK n \in DOMAIN events[s] :
      LET batch == SubSeq(events[s], 1, n)
          rest  == SubSeq(events[s], n + 1, Len(events[s]))
      IN /\ HandleBatch(s, batch) \/ Ignore(s)
         /\ \/ events' = [events EXCEPT ![s] = rest] /\ UNCHANGED pending
            \/ rest # <<>> /\ Head(rest) \notin Outputs /\ KeepPending(s, rest)
  BY DEF PumpBatch
<1> DEFINE batch == SubSeq(events[s], 1, n)
           rest  == SubSeq(events[s], n + 1, Len(events[s]))
           queries == Answers(batch)
<1>2. batch \in Seq(Events) /\ rest \in Seq(Events) /\ queries \in Nat
  BY <1>1, Fronts
<1>3. owner[s] # None
  BY <1>1 DEF IInv, TypeOK, UnusedSessionsAreSilent
<1>4. HandleBatch(s, batch) \/ Ignore(s)
  OBVIOUS
<1>5. \/ events' = [events EXCEPT ![s] = rest] /\ UNCHANGED pending
      \/ rest # <<>> /\ Head(rest) \notin Outputs /\ KeepPending(s, rest)
  OBVIOUS
<1>6. PumpStep
  BY DEF PumpBatch
<1> HIDE DEF batch, rest
<1>7. /\ events' \in [Sessions -> Seq(Events)] /\ pending' \in [Sessions -> Events \cup {None}]
      /\ \A u \in Sessions \ {s} : events'[u] = events[u] /\ pending'[u] = pending[u]
  <2>1. rest # <<>> => Head(rest) \in Events /\ Tail(rest) \in Seq(Events)
    <3> HIDE DEF Events
    <3> QED BY <1>2
  <2>2. CASE events' = [events EXCEPT ![s] = rest] /\ UNCHANGED pending
    BY <1>1, <1>2, <2>2 DEF TypeOK
  <2>3. CASE rest # <<>> /\ KeepPending(s, rest)
    BY <1>1, <2>1, <2>3 DEF TypeOK, KeepPending
  <2> QED BY <1>5, <2>2, <2>3
<1>8. CASE Ignore(s)
  <2>1. UNCHANGED <<tab, session, seen, dirty, input>> /\ Open' = Open /\ owner' = owner
    BY <1>6, <1>8 DEF Ignore, Open, PumpStep
  <2> QED BY <1>1, <1>3, <1>6, <1>7, <2>1, PumpKeepsIInv DEF IInv, TypeOK, InputIsForItsSession
<1>9. CASE HandleBatch(s, batch)
  <2>1. owner[s] \in Open /\ session[owner[s]] = s /\ s # None
    BY <1>1, <1>3, <1>9, TerminalAssumption DEF HandleBatch, Holds, IInv, TypeOK, IdsAgree
  <2>2. UNCHANGED <<tab, session>> /\ dirty' = TRUE /\ Open' = Open /\ owner' = owner
    BY <1>6, <1>9 DEF HandleBatch, Open, PumpStep
  <2>3. Send(owner[s], s, queries)
    BY <1>9 DEF HandleBatch
  <2> HIDE DEF queries
  <2>4. /\ input' \in [Sessions -> Seq(Tabs \cup Sessions)]
        /\ \A u \in Sessions : Len(input'[u]) <= InputRoom
        /\ InputIsForItsSession'
    BY <1>2, <2>1, <2>2, <2>3, SentInputIsMeant
  <2>5. /\ seen' \in [Sessions -> Seq(Events)]
        /\ \A u \in Sessions \ {s} : seen'[u] = seen[u]
    <3>1. seen[s] \o batch \in Seq(Events) /\ seen' = [seen EXCEPT ![s] = seen[s] \o batch]
      BY <1>1, <1>2, <1>9 DEF HandleBatch, TypeOK
    <3> QED BY <1>1, <3>1 DEF TypeOK
  <2> QED BY <1>1, <1>3, <1>6, <1>7, <2>2, <2>4, <2>5, PumpKeepsIInv DEF TypeOK
<1> QED BY <1>4, <1>8, <1>9

-----------------------------------------------------------------------------
(* The invariant.                                                          *)

LEMMA NextKeepsIInv == IInv /\ [Next]_vars => IInv'
<1> SUFFICES ASSUME IInv, [Next]_vars PROVE IInv'
  OBVIOUS
<1>1. CASE UNCHANGED vars
  BY <1>1
  DEF IInv, TypeOK, IdsAgree, UnusedSessionsAreSilent, SessionsKnowTheSize, ScreenFits, HasTerminal,
      InputIsForItsSession, Open, vars, tabVars, viewVars, composeVars, inputVars, pumpVars
<1>2. CASE TabStep
  BY <1>2, OpenTabStep, StartSessionStep, ReconnectStep, RemoveTabStep, SetActiveStep DEF TabStep
<1>3. CASE ViewStep
  <2> QED BY <1>3, KeyOrPasteStep, ChangeRoomStep, ChangeThemeStep, DrawStep, ComposeStep, CommitTextStep
    DEF ViewStep
<1>4. CASE SessionStep
  BY <1>4, SessionSendsStep, TakeInputStep, PumpEventStep, PumpBatchStep DEF SessionStep
<1> QED BY <1>1, <1>2, <1>3, <1>4 DEF Next

(* The inductive invariant of the terminals: a tab and its session know    *)
(* each other and agree on the size, the screen shows the active tab in    *)
(* the room and the colours there are, and input waits where it is meant.  *)
THEOREM Invariance == Spec => []IInv
BY InitIInv, NextKeepsIInv, PTL DEF Spec

(* What waits to be sent to a session was typed into its tab, or answers   *)
(* its own query: handle_key_down, the input method and                    *)
(* handle_output_batch, whatever tab is active by then.                    *)
THEOREM InputIsMeant == Spec => []InputIsForItsSession
<1>1. IInv => InputIsForItsSession
  BY DEF IInv
<1> QED BY <1>1, Invariance, PTL

-----------------------------------------------------------------------------
(* The order of the output.                                                *)

\* A session that its tab has not (any more) is not held again.
LEMMA HeldBefore ==
  ASSUME IInv, NEW s \in Sessions, session' \in [Tabs -> Sessions \cup {None}],
         owner' = owner, \A t \in Tabs : session'[t] \in {session[t], None}, Holds(s)'
  PROVE  Holds(s) /\ owner[s] # None
BY TerminalAssumption DEF Holds, IInv, TypeOK

\* Only the pump's own steps and the session touch what is sent and seen.
LEMMA OrderIsKept ==
  ASSUME IInv, OutputKeepsItsOrder, UNCHANGED pumpVars,
         \A s \in Sessions : Holds(s)' => Holds(s) \/ owner[s] = None
  PROVE  OutputKeepsItsOrder'
<1> SUFFICES ASSUME NEW s \in Sessions, Holds(s)' PROVE (seen[s] \o ToCome(s) = sent[s])'
  BY DEF OutputKeepsItsOrder
<1>1. UNCHANGED <<events, pending, sent, seen>> BY DEF pumpVars
<1>2. CASE Holds(s)
  BY <1>1, <1>2 DEF OutputKeepsItsOrder, ToCome
<1>3. CASE owner[s] = None
  <2>1. seen[s] = <<>> /\ ToCome(s) = <<>> /\ sent[s] = <<>>
    BY <1>3 DEF IInv, UnusedSessionsAreSilent, ToCome
  <2>2. (<<>> \o <<>>) = <<>>
    BY ConcatEmptySeq
  <2> QED BY <1>1, <2>1, <2>2 DEF ToCome
<1> QED BY <1>2, <1>3

LEMMA TabStepKeepsOrder == ASSUME IInv, OutputKeepsItsOrder, TabStep PROVE OutputKeepsItsOrder'
<1> USE TerminalAssumption
<1>1. UNCHANGED pumpVars
  BY DEF TabStep, OpenTab, StartSession, Reconnect, RemoveTab, SetActive, StartStep, pumpVars
<1>2. PICK t \in Tabs : \/ \E s \in Sessions : Attach(t, s)
                        \/ \E state \in {"waiting", "ended", "gone"} : Detach(t, state)
                        \/ UNCHANGED <<session, owner>>
  BY DEF TabStep, OpenTab, StartSession, Reconnect, RemoveTab, SetActive
<1>3. ASSUME NEW s \in Sessions, Holds(s)', owner[s] # None PROVE Holds(s)
  <2>1. CASE \E u \in Sessions : Attach(t, u)
    BY <1>3, <2>1 DEF Attach, Holds, IInv, TypeOK
  <2>2. CASE \E state \in {"waiting", "ended", "gone"} : Detach(t, state)
    BY <1>3, <2>2 DEF Detach, Holds, IInv, TypeOK
  <2>3. CASE UNCHANGED <<session, owner>>
    BY <1>3, <2>3 DEF Holds
  <2> QED BY <1>2, <2>1, <2>2, <2>3
<1> QED BY <1>1, <1>3, OrderIsKept

LEMMA OtherStepsKeepOrder ==
  ASSUME IInv, OutputKeepsItsOrder, UNCHANGED <<session, owner, pumpVars>>
  PROVE  OutputKeepsItsOrder'
BY OrderIsKept DEF Holds

LEMMA AppendBehind ==
  ASSUME NEW S, NEW q \in Seq(S), NEW r \in Seq(S), NEW e \in S
  PROVE  q \o Append(r, e) = Append(q \o r, e)
<1>1. <<e>> \in Seq(S) /\ q \o r \in Seq(S)
  BY ConcatProperties
<1>2. Append(r, e) = r \o <<e>> /\ Append(q \o r, e) = (q \o r) \o <<e>>
  BY <1>1, AppendIsConcat
<1> QED BY <1>1, <1>2, ConcatAssociative

LEMMA SessionSendsInOrder ==
  ASSUME IInv, OutputKeepsItsOrder, NEW s \in Sessions, NEW e \in Events, SessionSends(s, e)
  PROVE  OutputKeepsItsOrder'
<1> SUFFICES ASSUME NEW u \in Sessions, Holds(u)' PROVE (seen[u] \o ToCome(u) = sent[u])'
  BY DEF OutputKeepsItsOrder
<1>1. TypeOK BY DEF IInv
<1>2. Holds(u)
  BY DEF SessionSends, tabVars, Holds
<1>3. seen[u] \o ToCome(u) = sent[u] /\ UNCHANGED <<seen, pending>>
  BY <1>2 DEF OutputKeepsItsOrder, SessionSends
<1>4. CASE u = s
  <2>1. /\ events[s] \in Seq(Events) /\ events'[s] = Append(events[s], e)
        /\ sent[s] \in Seq(Events) /\ sent'[s] = Append(sent[s], e)
        /\ seen[s] \in Seq(Events) /\ ToCome(s) \in Seq(Events)
    BY <1>1, ToComeType DEF TypeOK, SessionSends
  <2>2. ToCome(s)' = Append(ToCome(s), e)
    <3>1. CASE pending[s] = None
      BY <1>3, <2>1, <3>1 DEF ToCome
    <3>2. CASE pending[s] # None
      <4>1. <<pending[s]>> \in Seq(Events)
        <5>1. pending[s] \in Events BY <1>1, <3>2 DEF TypeOK
        <5> HIDE DEF Events
        <5> QED BY <5>1
      <4>2. <<pending[s]>> \o Append(events[s], e) = Append(<<pending[s]>> \o events[s], e)
        BY <2>1, <4>1, AppendBehind
      <4> QED BY <1>3, <2>1, <3>2, <4>2 DEF ToCome
    <3> QED BY <3>1, <3>2
  <2>3. seen[s] \o Append(ToCome(s), e) = Append(seen[s] \o ToCome(s), e)
    <3> DEFINE q == seen[s]
               r == ToCome(s)
    <3>1. q \in Seq(Events) /\ r \in Seq(Events)
      BY <2>1
    <3> HIDE DEF q, r
    <3>2. q \o Append(r, e) = Append(q \o r, e)
      BY <3>1, AppendBehind
    <3> QED BY <3>2 DEF q, r
  <2> QED BY <1>3, <1>4, <2>1, <2>2, <2>3
<1>5. CASE u # s
  BY <1>1, <1>3, <1>5 DEF SessionSends, TypeOK, ToCome
<1> QED BY <1>4, <1>5

\* A turn of the pump moves a front part of what is to come to what was seen,
\* or its tab does not hold the session.
LEMMA PumpMovesAFront ==
  ASSUME IInv, OutputKeepsItsOrder, NEW s \in Sessions, NEW front \in Seq(Events), PumpStep,
         session' \in [Tabs -> Sessions \cup {None}],
         \A t \in Tabs : session'[t] \in {session[t], None},
         \A u \in Sessions \ {s} :
           events'[u] = events[u] /\ pending'[u] = pending[u] /\ seen'[u] = seen[u],
         Holds(s) => /\ seen'[s] = seen[s] \o front
                     /\ ToCome(s)' \in Seq(Events) /\ front \o ToCome(s)' = ToCome(s)
  PROVE  OutputKeepsItsOrder'
<1> SUFFICES ASSUME NEW u \in Sessions, Holds(u)' PROVE (seen[u] \o ToCome(u) = sent[u])'
  BY DEF OutputKeepsItsOrder
<1>1. owner' = owner /\ sent' = sent
  BY DEF PumpStep
<1>2. Holds(u)
  BY <1>1, HeldBefore
<1>3. seen[u] \o ToCome(u) = sent[u]
  BY <1>2 DEF OutputKeepsItsOrder
<1>4. CASE u = s
  <2>1. seen[s] \in Seq(Events)
    BY DEF IInv, TypeOK
  <2>2. ToCome(s)' \in Seq(Events) /\ front \o ToCome(s)' = ToCome(s) /\ seen'[s] = seen[s] \o front
    BY <1>2, <1>4
  <2>3. (seen[s] \o front) \o ToCome(s)' = seen[s] \o (front \o ToCome(s)')
    <3> DEFINE q == seen[s]
               r == ToCome(s)'
    <3>1. q \in Seq(Events) /\ r \in Seq(Events)
      BY <2>1, <2>2
    <3> HIDE DEF q, r
    <3>2. (q \o front) \o r = q \o (front \o r)
      BY <3>1, ConcatAssociative
    <3> QED BY <3>2 DEF q, r
  <2> QED BY <1>1, <1>3, <1>4, <2>2, <2>3
<1>5. CASE u # s
  BY <1>1, <1>3, <1>5 DEF ToCome
<1> QED BY <1>4, <1>5

LEMMA PumpEventInOrder ==
  ASSUME IInv, OutputKeepsItsOrder, NEW s \in Sessions, PumpEvent(s) PROVE OutputKeepsItsOrder'
<1> DEFINE e == Head(ToCome(s))
<1>1. TypeOK BY DEF IInv
<1>2. ToCome(s) \in Seq(Events) /\ ToCome(s) # <<>>
  BY <1>1, ToComeType DEF PumpEvent
<1>3. /\ e \in Events /\ <<e>> \in Seq(Events) /\ Tail(ToCome(s)) \in Seq(Events)
      /\ <<e>> \o Tail(ToCome(s)) = ToCome(s)
  <2> DEFINE q == ToCome(s)
  <2>1. q \in Seq(Events) /\ q # <<>>
    BY <1>2
  <2> HIDE DEF q, Events
  <2>2. Head(q) \in Events /\ Tail(q) \in Seq(Events) /\ <<Head(q)>> \o Tail(q) = q
    BY <2>1, HeadTailProperties
  <2>3. <<Head(q)>> \in Seq(Events)
    BY <2>2
  <2> QED BY <2>2, <2>3 DEF q
<1>4. /\ PumpStep /\ ToCome(s)' = Tail(ToCome(s))
      /\ \A u \in Sessions \ {s} : events'[u] = events[u] /\ pending'[u] = pending[u]
  BY <1>1 DEF PumpEvent, TypeOK, ToCome
<1>5. /\ session' \in [Tabs -> Sessions \cup {None}]
      /\ \A t \in Tabs : session'[t] \in {session[t], None}
      /\ \A u \in Sessions \ {s} : seen'[u] = seen[u]
      /\ Holds(s) => seen'[s] = Append(seen[s], e)
  <2>1. CASE HandleEvent(s, e)
    BY <1>1, <2>1 DEF HandleEvent, TypeOK
  <2>2. CASE Ignore(s)
    BY <1>1, <2>2 DEF Ignore, TypeOK
  <2> QED BY <2>1, <2>2 DEF PumpEvent
<1>6. Append(seen[s], e) = seen[s] \o <<e>>
  <2> DEFINE q == seen[s]
  <2>1. q \in Seq(Events) BY <1>1 DEF TypeOK
  <2> HIDE DEF q, e, Events
  <2>2. Append(q, e) = q \o <<e>>
    BY <1>3, <2>1, AppendIsConcat
  <2> QED BY <2>2 DEF q
<1> HIDE DEF e
<1> QED BY <1>3, <1>4, <1>5, <1>6, PumpMovesAFront

LEMMA PumpBatchInOrder ==
  ASSUME IInv, OutputKeepsItsOrder, NEW s \in Sessions, PumpBatch(s) PROVE OutputKeepsItsOrder'
<1>1. TypeOK BY DEF IInv
<1> PICK n \in DOMAIN events[s] :
      LET batch == SubSeq(events[s], 1, n)
          rest  == SubSeq(events[s], n + 1, Len(events[s]))
      IN /\ HandleBatch(s, batch) \/ Ignore(s)
         /\ \/ events' = [events EXCEPT ![s] = rest] /\ UNCHANGED pending
            \/ rest # <<>> /\ Head(rest) \notin Outputs /\ KeepPending(s, rest)
  BY DEF PumpBatch
<1> DEFINE batch == SubSeq(events[s], 1, n)
           rest  == SubSeq(events[s], n + 1, Len(events[s]))
<1>2. batch \in Seq(Events) /\ rest \in Seq(Events) /\ events[s] = batch \o rest
  BY <1>1, Fronts
<1>3. HandleBatch(s, batch) \/ Ignore(s)
  OBVIOUS
<1>4. \/ events' = [events EXCEPT ![s] = rest] /\ UNCHANGED pending
      \/ rest # <<>> /\ KeepPending(s, rest)
  OBVIOUS
<1>5. PumpStep /\ ToCome(s) = events[s] /\ pending[s] = None
  BY <1>1, ToComeType DEF PumpBatch
<1> HIDE DEF batch, rest
<1>6. /\ ToCome(s)' = rest
      /\ \A u \in Sessions \ {s} : events'[u] = events[u] /\ pending'[u] = pending[u]
  <2>1. CASE events' = [events EXCEPT ![s] = rest] /\ UNCHANGED pending
    BY <1>1, <1>5, <2>1 DEF TypeOK, ToCome
  <2>2. CASE rest # <<>> /\ KeepPending(s, rest)
    <3>1. /\ Head(rest) \in Events /\ Tail(rest) \in Seq(Events)
          /\ <<Head(rest)>> \o Tail(rest) = rest
      <4> HIDE DEF Events
      <4> QED BY <1>2, <2>2, HeadTailProperties
    <3>2. Head(rest) # None
      BY <3>1, TerminalAssumption
    <3>3. /\ events'[s] = Tail(rest) /\ pending'[s] = Head(rest)
          /\ \A u \in Sessions \ {s} : events'[u] = events[u] /\ pending'[u] = pending[u]
      BY <1>1, <2>2 DEF TypeOK, KeepPending
    <3> QED BY <3>1, <3>2, <3>3 DEF ToCome
  <2> QED BY <1>4, <2>1, <2>2
<1>7. /\ session' \in [Tabs -> Sessions \cup {None}]
      /\ \A t \in Tabs : session'[t] \in {session[t], None}
      /\ \A u \in Sessions \ {s} : seen'[u] = seen[u]
      /\ Holds(s) => seen'[s] = seen[s] \o batch
  BY <1>1, <1>3 DEF HandleBatch, Ignore, TypeOK
<1> QED BY <1>2, <1>5, <1>6, <1>7, PumpMovesAFront

(* Whatever the pump puts together and whenever it does, a tab that has its *)
(* session has been given what that sent, in its order, and the rest waits  *)
(* (spawn_event_pump and handle_output_batch).                              *)
THEOREM OutputInOrder == Spec => []OutputKeepsItsOrder
<1>1. Init => OutputKeepsItsOrder
  <2>1. (<<>> \o <<>>) = <<>>
    BY ConcatEmptySeq
  <2> QED BY <2>1 DEF Init, OutputKeepsItsOrder, ToCome
<1>2. IInv /\ OutputKeepsItsOrder /\ [Next]_vars => OutputKeepsItsOrder'
  <2> SUFFICES ASSUME IInv, OutputKeepsItsOrder, [Next]_vars PROVE OutputKeepsItsOrder'
    OBVIOUS
  <2>1. CASE UNCHANGED vars
    BY <2>1, OtherStepsKeepOrder DEF vars, tabVars
  <2>2. CASE TabStep
    BY <2>2, TabStepKeepsOrder
  <2>3. CASE ViewStep
    <3>1. UNCHANGED <<session, owner, pumpVars>>
      BY <2>3 DEF ViewStep, ChangeRoom, ChangeTheme, Draw, KeyDown, TerminalTab, PasteTerminal,
                  SendTerminalInput, Compose, UnmarkText, CommitText, InputStep, tabVars
    <3> QED BY <3>1, OtherStepsKeepOrder
  <2>4. CASE SessionStep
    <3>1. ASSUME NEW s \in Sessions, TakeInput(s) PROVE OutputKeepsItsOrder'
      BY <3>1, OtherStepsKeepOrder DEF TakeInput, tabVars
    <3> QED BY <2>4, <3>1, SessionSendsInOrder, PumpEventInOrder, PumpBatchInOrder DEF SessionStep
  <2> QED BY <2>1, <2>2, <2>3, <2>4 DEF Next
<1> QED BY <1>1, <1>2, InitIInv, NextKeepsIInv, PTL DEF Spec
=============================================================================
