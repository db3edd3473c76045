------------------------- MODULE SessionTaskProofs -------------------------
(***************************************************************************)
(* What SessionTask promises for any capacities, sizes and agents: its     *)
(* events follow the session protocol, its end is announced and a failure  *)
(* is explained.                                                           *)
(***************************************************************************)
EXTENDS SessionTask, SequenceTheorems, TLAPS

\* The type invariant in two parts: the events, and everything else.
EventsOK ==
  /\ told \subseteq Protocol!Events /\ events \in Seq(told) /\ Len(events) <= EventCapacity
  /\ last \in told \cup {"none"} /\ seen \subseteq told

TaskOK ==
  /\ pc \in Running \cup Final \cup {"report", "last"}
  /\ verify \in {"none", "announcing", "looking", "changed", "prompting", "deciding", "trusted", "over"}
  /\ verdict \in {"Waiting", "Accepted", "Rejected", "Conflict"}
  /\ auth \in [method : {"password", "key", "agent"}, secret : BOOLEAN]
  /\ identities \in 0..MaxIdentities
  /\ result \in Results \cup {None} /\ exitStatus \in BOOLEAN
  /\ open \in BOOLEAN
  /\ input \in 0..InputCapacity
  /\ size \in Sizes /\ resized \in BOOLEAN /\ ptySize \in Sizes \cup {None}
  /\ cancelled \in BOOLEAN /\ grace \in BOOLEAN

LEMMA TypeParts == /\ TypeOK <=> EventsOK /\ TaskOK
                   /\ TypeOK' <=> EventsOK' /\ TaskOK'
BY DEF TypeOK, EventsOK, TaskOK

\* Every event that is sent is one of the protocol's.
LEMMA EventNames ==
  Protocol!Events = {"Connecting", "VerifyingHostKey", "UnknownHostKey", "ChangedHostKey",
                     "Authenticating", "OpeningShell", "Connected", "Output",
                     "Exited", "Error", "Disconnected"}
BY DEF Protocol!Events, Protocol!Rank

\* An event that is sent stands behind the others, of which none is lost.
LEMMA SendTypes ==
  ASSUME EventsOK, NEW e \in Protocol!Events, Send(e), UNCHANGED seen
  PROVE  /\ EventsOK'
         /\ \A i \in DOMAIN events : i \in DOMAIN events' /\ events'[i] = events[i]
         /\ \E i \in DOMAIN events' : events'[i] = e
<1>1. told' = told \cup {e} /\ last' = e /\ events' = Append(events, e) /\ Len(events) < EventCapacity
  BY DEF Send
<1>2. told' \subseteq Protocol!Events /\ last' \in told' /\ seen' \subseteq told'
  BY <1>1 DEF EventsOK
<1>3. events \in Seq(told')
  BY <1>1 DEF EventsOK
<1>4. /\ events' \in Seq(told') /\ Len(events') = Len(events) + 1
      /\ \A i \in 1 .. Len(events) : events'[i] = events[i]
      /\ events'[Len(events) + 1] = e
  BY <1>1, <1>3, AppendProperties
<1>5. Len(events) \in Nat /\ DOMAIN events = 1 .. Len(events) /\ DOMAIN events' = 1 .. Len(events) + 1
  BY <1>3, <1>4, LenProperties
<1>6. Len(events') <= EventCapacity
  BY <1>1, <1>4, <1>5, ConstantsAssumption
<1>7. EventsOK'
  BY <1>2, <1>4, <1>6 DEF EventsOK
<1>. QED BY <1>4, <1>5, <1>7

\* The tab takes the first event and leaves those behind it.
LEMMA ReceiveTypes ==
  ASSUME EventsOK, Receive
  PROVE  /\ EventsOK'
         /\ \A i \in DOMAIN events :
              events[i] # Head(events) => \E j \in DOMAIN events' : events'[j] = events[i]
<1>1. events \in Seq(told) /\ events # <<>> /\ events' = Tail(events)
  BY DEF Receive, EventsOK
<1>2. Len(events) \in Nat \ {0} /\ DOMAIN events = 1 .. Len(events)
  BY <1>1, EmptySeq, LenProperties
<1>3. /\ Head(events) \in told /\ Head(events) = events[1]
      /\ events' \in Seq(told) /\ Len(events') = Len(events) - 1
      /\ \A i \in 1 .. Len(events') : events'[i] = events[i + 1]
  BY <1>1, HeadTailProperties
<1>4. DOMAIN events' = 1 .. Len(events) - 1
  BY <1>3, LenProperties
<1>5. EventsOK'
  <2>1. Len(events') <= EventCapacity
    BY <1>2, <1>3, ConstantsAssumption DEF EventsOK
  <2>2. told' = told /\ last' = last /\ seen' = seen \cup {Head(events)}
    BY DEF Receive
  <2>. QED BY <1>3, <2>1, <2>2 DEF EventsOK
<1>6. ASSUME NEW i \in DOMAIN events, events[i] # Head(events)
      PROVE  \E j \in DOMAIN events' : events'[j] = events[i]
  <2>1. i - 1 \in DOMAIN events' /\ events'[i - 1] = events[i]
    BY <1>2, <1>3, <1>4, <1>6
  <2>. QED BY <2>1
<1>. QED BY <1>5, <1>6

\* What a step does to the events: most leave them alone, some send one.
Sends == (\E e \in Protocol!Events : Send(e)) /\ UNCHANGED tabVars
Quiet == UNCHANGED <<queueVars, tabVars>>

LEMMA QueueStep == ASSUME [Next]_vars PROVE Quiet \/ Sends \/ Receive \/ CloseReceiver
<1>. USE DEF Quiet, Sends
<1>1. CASE Handshake
  <2>1. CASE Timeout \/ ConnectFails \/ PresentKey \/ ReadVerdict \/ HandshakeDone
    BY <2>1 DEF Timeout, ConnectFails, PresentKey, ReadVerdict, HandshakeDone, VerifyAt, FailHandshake,
                HandshakeRest, tabVars
  <2>2. CASE Begin
    BY <2>2, EventNames DEF Begin, SendOrIgnore
  <2>3. CASE AnnounceVerification \/ Prompt
    BY <2>3, EventNames DEF AnnounceVerification, Prompt, VerifyAt, FailHandshake, HandshakeRest
  <2>4. CASE LookUp \/ ReportChangedKey
    BY <2>4, EventNames DEF LookUp, ReportChangedKey, TrySend, SendOrIgnore, VerifyAt, FailHandshake,
                            HandshakeRest
  <2>5. CASE AnnounceAuthentication
    BY <2>5, EventNames DEF AnnounceAuthentication, SendAndGo
  <2>6. CASE \E o \in {"Accepted", "Rejected", "Conflict"} : SettlePrompt(o)
    BY <2>6, EventNames DEF SettlePrompt, TrySend, HandshakeRest
  <2>. QED BY <1>1, <2>1, <2>2, <2>3, <2>4, <2>5, <2>6 DEF Handshake
<1>2. CASE Login
  <2>1. CASE Authenticate \/ ListIdentities \/ TryIdentity
    BY <2>1 DEF Authenticate, ListIdentities, TryIdentity, AuthRest
  <2>2. CASE AnnounceShell
    BY <2>2, EventNames DEF AnnounceShell, SendAndGo
  <2>. QED BY <1>2, <2>1, <2>2 DEF Login
<1>3. CASE Shell
  <2>1. CASE \/ OpenShell \/ LoopCancelled \/ LoopInput \/ LoopResize \/ LoopData \/ LoopExitStatus
             \/ LoopClosed \/ WriteEnds \/ CloseChannel
    BY <2>1 DEF OpenShell, LoopCancelled, LoopInput, LoopResize, LoopData, LoopExitStatus, LoopClosed,
                WriteEnds, CloseChannel, LoopRest
  <2>2. CASE AnnounceConnected \/ SendOutput
    BY <2>2, EventNames DEF AnnounceConnected, SendOutput, SendAndGo
  <2>. QED BY <1>3, <2>1, <2>2 DEF Shell
<1>4. CASE Ending
  BY <1>4, EventNames DEF Ending, Report, Finish, GraceOver, SendOrIgnore, ReportRest, LoopRest
<1>5. CASE Interface
  BY <1>5 DEF Interface, Disconnect, SendInput, Resize
<1>6. CASE UNCHANGED vars
  BY <1>6 DEF vars
<1>. QED BY <1>1, <1>2, <1>3, <1>4, <1>5, <1>6 DEF Next

\* The events keep their types, and none is lost.
LEMMA EventsStep ==
  ASSUME EventsOK, [Next]_vars
  PROVE  EventsOK' /\ (EventsAreOnTheirWay => EventsAreOnTheirWay')
<1>1. CASE Quiet
  BY <1>1 DEF Quiet, EventsOK, EventsAreOnTheirWay, queueVars, tabVars
<1>2. CASE Sends
  <2>1. PICK e \in Protocol!Events : Send(e)
    BY <1>2 DEF Sends
  <2>2. told' = told \cup {e} /\ UNCHANGED <<seen, open>>
    BY <1>2, <2>1 DEF Send, Sends, tabVars
  <2>. QED BY <2>1, <2>2, SendTypes DEF EventsAreOnTheirWay
<1>3. CASE Receive
  <2>1. UNCHANGED <<told, open>> /\ seen' = seen \cup {Head(events)}
    BY <1>3 DEF Receive
  <2>. QED BY <1>3, <2>1, ReceiveTypes DEF EventsAreOnTheirWay
<1>4. CASE CloseReceiver
  <2>1. events' = <<>> /\ UNCHANGED <<told, last, seen>> /\ ~open'
    BY <1>4 DEF CloseReceiver
  <2>2. EventsOK'
    BY <2>1, ConstantsAssumption, EmptySeq DEF EventsOK
  <2>. QED BY <2>1, <2>2 DEF EventsAreOnTheirWay
<1>. QED BY <1>1, <1>2, <1>3, <1>4, QueueStep

\* One step of any action keeps the type of every other variable.
LEMMA TaskStep == TaskOK /\ [Next]_vars => TaskOK'
<1> SUFFICES ASSUME TaskOK, [Next]_vars PROVE TaskOK'
  OBVIOUS
<1> USE ConstantsAssumption DEF TaskOK, Running, Final, Results, HandshakeErrors, AuthErrors, ShellErrors,
        InHandshake, HandshakeRest, AuthRest, LoopRest, ReportRest, TaskRest, queueVars, tabVars,
        verifyVars, authVars, sizeVars, endVars
<1>1. CASE Begin
  BY <1>1 DEF Begin
<1>2. CASE Timeout
  BY <1>2 DEF Timeout, FailHandshake, End
<1>3. CASE ConnectFails
  BY <1>3 DEF ConnectFails, FailHandshake, End
<1>4. CASE PresentKey
  BY <1>4 DEF PresentKey, VerifyAt
<1>5. CASE AnnounceVerification
  BY <1>5 DEF AnnounceVerification, VerifyAt, FailHandshake, End
<1>6. CASE LookUp
  BY <1>6 DEF LookUp, VerifyAt, FailHandshake, End
<1>7. CASE ReportChangedKey
  BY <1>7 DEF ReportChangedKey, FailHandshake, End
<1>8. CASE Prompt
  BY <1>8 DEF Prompt, VerifyAt, FailHandshake, End
<1>9. CASE ReadVerdict
  BY <1>9 DEF ReadVerdict, VerifyAt, FailHandshake, End
<1>10. CASE HandshakeDone
  BY <1>10 DEF HandshakeDone
<1>11. CASE AnnounceAuthentication
  BY <1>11 DEF AnnounceAuthentication, SendAndGo, End
<1>12. CASE \E o \in {"Accepted", "Rejected", "Conflict"} : SettlePrompt(o)
  BY <1>12 DEF SettlePrompt
<1>13. CASE Authenticate
  BY <1>13 DEF Authenticate, AuthFailures, End
<1>14. CASE ListIdentities
  BY <1>14 DEF ListIdentities, End
<1>15. CASE TryIdentity
  <2>1. identities' \in 0..MaxIdentities
    BY <1>15 DEF TryIdentity
  <2>2. pc' \in Running \cup {"report", "last"} /\ result' \in Results \cup {None}
    BY <1>15 DEF TryIdentity, End
  <2>3. QED
    BY <1>15, <2>1, <2>2 DEF TryIdentity
<1>16. CASE AnnounceShell
  BY <1>16 DEF AnnounceShell, SendAndGo, End
<1>17. CASE OpenShell
  BY <1>17 DEF OpenShell, ShellErrors, End
<1>18. CASE AnnounceConnected
  BY <1>18 DEF AnnounceConnected, SendAndGo, End
<1>19. CASE LoopCancelled
  BY <1>19 DEF LoopCancelled
<1>20. CASE LoopInput
  BY <1>20 DEF LoopInput, End
<1>21. CASE LoopResize
  <2>1. /\ pc' \in Running \cup {"report", "last"} /\ result' \in Results \cup {None}
        /\ resized' \in BOOLEAN /\ size' \in Sizes /\ ptySize' \in Sizes \cup {None}
    BY <1>21 DEF LoopResize, End
  <2>2. UNCHANGED <<verifyVars, authVars, exitStatus, open, input, endVars>>
    BY <1>21 DEF LoopResize
  <2>3. QED
    BY <2>1, <2>2
<1>22. CASE LoopData
  BY <1>22 DEF LoopData
<1>23. CASE LoopExitStatus
  BY <1>23 DEF LoopExitStatus
<1>24. CASE LoopClosed
  BY <1>24 DEF LoopClosed, End
<1>25. CASE WriteEnds
  BY <1>25 DEF WriteEnds, End
<1>26. CASE SendOutput
  BY <1>26 DEF SendOutput, SendAndGo, End
<1>27. CASE CloseChannel
  BY <1>27 DEF CloseChannel, End
<1>28. CASE Report
  BY <1>28 DEF Report
<1>29. CASE Finish
  BY <1>29 DEF Finish
<1>30. CASE GraceOver
  <2>1. pc' \in Running \cup Final \cup {"report", "last"} /\ grace' \in BOOLEAN
    BY <1>30 DEF GraceOver
  <2>2. UNCHANGED <<verifyVars, authVars, result, exitStatus, open, input, sizeVars, cancelled>>
    BY <1>30 DEF GraceOver
  <2>3. QED
    BY <2>1, <2>2
<1>31. CASE Disconnect
  BY <1>31 DEF Disconnect, Cancel
<1>32. CASE Receive
  <2>1. UNCHANGED <<pc, verifyVars, authVars, result, exitStatus, input, sizeVars>>
    BY <1>32 DEF Receive
  <2>2. open' \in BOOLEAN /\ cancelled' \in BOOLEAN /\ grace' \in BOOLEAN
    BY <1>32 DEF Receive, Cancel
  <2>3. QED
    BY <2>1, <2>2
<1>33. CASE CloseReceiver
  <2>1. UNCHANGED <<pc, verifyVars, authVars, result, exitStatus, input, sizeVars>>
    BY <1>33 DEF CloseReceiver
  <2>2. open' \in BOOLEAN /\ cancelled' \in BOOLEAN /\ grace' \in BOOLEAN
    BY <1>33 DEF CloseReceiver, Cancel
  <2>3. QED
    BY <2>1, <2>2
<1>34. CASE SendInput
  BY <1>34 DEF SendInput
<1>35. CASE \E s \in Sizes : Resize(s)
  BY <1>35 DEF Resize
<1>36. CASE UNCHANGED vars
  BY <1>36 DEF vars
<1>37. QED
  BY <1>1, <1>2, <1>3, <1>4, <1>5, <1>6, <1>7, <1>8, <1>9, <1>10, <1>11, <1>12, <1>13, <1>14, <1>15, <1>16, <1>17, <1>18, <1>19, <1>20, <1>21, <1>22, <1>23, <1>24, <1>25, <1>26, <1>27, <1>28, <1>29, <1>30, <1>31, <1>32, <1>33, <1>34, <1>35, <1>36
     DEF Next, Handshake, Login, Shell, Ending, Interface

\* Where the task is before it opens the shell.
BeforeShell == Running \ (InShell \cup {"toConnected"})

\* The task still has to pass on a size, or the server has the last one.
LEMMA SizeStep == ASSUME TaskOK, SizeIsOnItsWay, [Next]_vars PROVE SizeIsOnItsWay'
<1>. USE DEF Running, InShell, BeforeShell
<1>0. SizeIsOnItsWay <=> /\ resized \/ size = IF ptySize = None THEN InitialSize ELSE ptySize
                         /\ pc \in BeforeShell => ptySize = None
  BY DEF SizeIsOnItsWay
<1>1. ASSUME UNCHANGED sizeVars, pc' \in BeforeShell => pc \in BeforeShell PROVE SizeIsOnItsWay'
  BY <1>1 DEF SizeIsOnItsWay, sizeVars
<1>2. CASE Handshake \/ Login
  <2>. USE DEF HandshakeRest, AuthRest, SendAndGo, End, VerifyAt, FailHandshake, InHandshake
  <2>1. CASE Handshake
    <3>1. UNCHANGED sizeVars /\ pc \in BeforeShell
      BY <2>1 DEF Handshake, Begin, Timeout, ConnectFails, PresentKey, AnnounceVerification, LookUp,
                  ReportChangedKey, Prompt, ReadVerdict, HandshakeDone, AnnounceAuthentication, SettlePrompt
    <3>. QED BY <1>1, <3>1
  <2>2. CASE Login
    <3>1. UNCHANGED sizeVars /\ pc \in BeforeShell
      BY <2>2 DEF Login, Authenticate, ListIdentities, TryIdentity, AnnounceShell
    <3>. QED BY <1>1, <3>1
  <2>. QED BY <1>2, <2>1, <2>2
<1>3. CASE OpenShell
  <2>1. /\ pc = "openingShell" /\ pc' \in {"toConnected", "report", "last"}
        /\ ptySize' \in {ptySize, InitialSize} /\ UNCHANGED <<size, resized>>
    BY <1>3 DEF OpenShell, End
  <2>2. ptySize = None /\ (resized \/ size = InitialSize)
    BY <2>1 DEF SizeIsOnItsWay
  <2>. QED BY <2>1, <2>2 DEF SizeIsOnItsWay
<1>4. CASE LoopResize
  <2>1. /\ pc = "loop" /\ pc' \in {"writing", "report", "last"} /\ UNCHANGED size
        /\ \/ ptySize' = size
           \/ UNCHANGED <<resized, ptySize>>
    BY <1>4 DEF LoopResize, End
  <2>2. size # None
    BY ConstantsAssumption DEF TaskOK
  <2>. QED BY <2>1, <2>2 DEF SizeIsOnItsWay
<1>5. CASE \/ AnnounceConnected \/ LoopCancelled \/ LoopInput \/ LoopData \/ LoopExitStatus
           \/ LoopClosed \/ WriteEnds \/ SendOutput \/ CloseChannel \/ Ending
  <2>1. UNCHANGED sizeVars /\ (pc' \in BeforeShell => pc \in BeforeShell)
    BY <1>5 DEF AnnounceConnected, LoopCancelled, LoopInput, LoopData, LoopExitStatus, LoopClosed,
       WriteEnds, SendOutput, CloseChannel, Ending, Report, Finish, GraceOver, SendAndGo, End, ReportRest
  <2>. QED BY <1>1, <2>1
<1>6. CASE Disconnect \/ Receive \/ CloseReceiver \/ SendInput \/ UNCHANGED vars
  <2>1. UNCHANGED <<pc, sizeVars>>
    BY <1>6 DEF Disconnect, Receive, CloseReceiver, SendInput, TaskRest, vars
  <2>. QED BY <1>1, <2>1
<1>7. CASE \E s \in Sizes : Resize(s)
  BY <1>7 DEF Resize, TaskRest, SizeIsOnItsWay
<1>. QED BY <1>2, <1>3, <1>4, <1>5, <1>6, <1>7 DEF Next, Shell, Interface

-----------------------------------------------------------------------------
\* The invariant without the types, in two parts: how far the session is, and
\* what that says of each place the task may be at.
Control ==
  /\ ToldInHandshake /\ ToldBeyond /\ GivenUp
  /\ EndIsAnnounced /\ FailuresAreExplained

Places ==
  /\ pc \in Running \cup Final \cup {"report", "last"}
  /\ told \subseteq Protocol!Events

\* The stages of the protocol and the places of the task as numbers.
LEMMA Ranks ==
  /\ Protocol!Rank["Connecting"] = 1 /\ Protocol!Rank["VerifyingHostKey"] = 2
  /\ Protocol!Rank["UnknownHostKey"] = 3 /\ Protocol!Rank["ChangedHostKey"] = 3
  /\ Protocol!Rank["Authenticating"] = 4 /\ Protocol!Rank["OpeningShell"] = 5
  /\ Protocol!Rank["Connected"] = 6 /\ Protocol!Rank["Output"] = 7
  /\ Protocol!Rank["Exited"] = 8 /\ Protocol!Rank["Error"] = 8
  /\ Protocol!Rank["Disconnected"] = 9
BY DEF Protocol!Rank

LEMMA Reaches ==
  /\ Reached["connecting"] = 0 /\ Reached["handshake"] = 3 /\ Reached["toAuthenticate"] = 3
  /\ Reached["authenticating"] = 4 /\ Reached["trying"] = 4 /\ Reached["toShell"] = 4
  /\ Reached["openingShell"] = 5 /\ Reached["toConnected"] = 5 /\ Reached["loop"] = 7
  /\ Reached["writing"] = 7 /\ Reached["output"] = 7 /\ Reached["closing"] = 7
  /\ Reached["report"] = 7 /\ Reached["last"] = 8 /\ Reached["done"] = 9 /\ Reached["aborted"] = 9
BY DEF Reached

LEMMA Numbers ==
  /\ \A e \in Protocol!Events : Protocol!Rank[e] \in 1..9
  /\ Places => Reached[pc] \in 0..9
  /\ Places' => Reached[pc'] \in 0..9
BY EventNames, Ranks, Reaches DEF Places, Running, Final

\* The stage reached only grows, and an event belongs to a stage reached.
LEMMA Farther ==
  ASSUME Places, Places', ToldSoFar, Reached[pc] <= Reached[pc'],
         told' = told \/ \E e \in Protocol!Events : told' = told \cup {e} /\ Protocol!Rank[e] <= Reached[pc']
  PROVE  ToldSoFar'
BY Numbers DEF Places, ToldSoFar

\* What cannot have been told yet.
LEMMA NotYet ==
  ASSUME Places, ToldSoFar
  PROVE  /\ pc = "connecting" => told = {}
         /\ pc \in {"connecting", "handshake", "toAuthenticate"} =>
              told \cap {"Authenticating", "OpeningShell"} = {}
         /\ pc \in {"authenticating", "trying", "toShell"} => "OpeningShell" \notin told
         /\ pc \in BeyondHandshake \cup {"connecting", "handshake"} =>
              pc \in InShell \/ told \cap {"Connected", "Output"} = {}
         /\ pc \notin {"last"} \cup Final => told \cap {"Exited", "Error"} = {}
         /\ pc \notin Final => "Disconnected" \notin told
<1>1. ASSUME NEW e \in told PROVE Protocol!Rank[e] <= Reached[pc]
  BY DEF ToldSoFar
<1>2. QED
  BY <1>1, EventNames, Ranks, Reaches DEF Places, BeyondHandshake, InShell, Running, Final

\* The stage reached never falls, whatever the step.
LEMMA ToldSoFarStep == TypeOK /\ TypeOK' /\ ToldSoFar /\ [Next]_vars => ToldSoFar'
<1> SUFFICES ASSUME TypeOK, TypeOK', ToldSoFar, [Next]_vars PROVE ToldSoFar'
  OBVIOUS
<1> DEFINE Grows == /\ Reached[pc] <= Reached[pc']
                    /\ told' = told \/ \E e \in Protocol!Events : told' = told \cup {e} /\ Protocol!Rank[e] <= Reached[pc']
<1>a. Places /\ Places'
  BY DEF TypeOK, Places
<1>b. SUFFICES Grows
  BY <1>a, Farther
<1>c. Reached[pc] \in 0..9 /\ Reached[pc'] \in 0..9
  BY <1>a, Numbers
<1>d. pc \in Running \cup Final \cup {"report", "last"}
  BY <1>a DEF Places
<1> USE EventNames, Ranks, Reaches DEF Running, Final,
        InHandshake, HandshakeRest, AuthRest, LoopRest, ReportRest, TaskRest, queueVars, tabVars,
        verifyVars, authVars, sizeVars, endVars
<1>1. CASE Begin
  BY <1>c, <1>d, <1>1 DEF Begin, Send, SendOrIgnore
<1>2. CASE Timeout
  BY <1>c, <1>d, <1>2 DEF Timeout, FailHandshake, End
<1>3. CASE ConnectFails
  BY <1>c, <1>d, <1>3 DEF ConnectFails, FailHandshake, End
<1>4. CASE PresentKey
  BY <1>c, <1>d, <1>4 DEF PresentKey, VerifyAt
<1>5. CASE AnnounceVerification
  BY <1>c, <1>d, <1>5 DEF AnnounceVerification, VerifyAt, FailHandshake, End, Send
<1>6. CASE LookUp
  BY <1>c, <1>d, <1>6 DEF LookUp, VerifyAt, FailHandshake, End, Send, TrySend
<1>7. CASE ReportChangedKey
  BY <1>c, <1>d, <1>7 DEF ReportChangedKey, FailHandshake, End, Send, SendOrIgnore
<1>8. CASE Prompt
  BY <1>c, <1>d, <1>8 DEF Prompt, VerifyAt, FailHandshake, End, Send
<1>9. CASE ReadVerdict
  BY <1>c, <1>d, <1>9 DEF ReadVerdict, VerifyAt, FailHandshake, End
<1>10. CASE HandshakeDone
  BY <1>c, <1>d, <1>10 DEF HandshakeDone
<1>11. CASE AnnounceAuthentication
  BY <1>c, <1>d, <1>11 DEF AnnounceAuthentication, SendAndGo, End, Send
<1>12. CASE \E o \in {"Accepted", "Rejected", "Conflict"} : SettlePrompt(o)
  BY <1>c, <1>d, <1>12 DEF SettlePrompt, Send, TrySend
<1>13. CASE Authenticate
  BY <1>c, <1>d, <1>13 DEF Authenticate, AuthFailures, End
<1>14. CASE ListIdentities
  BY <1>c, <1>d, <1>14 DEF ListIdentities, End
<1>15. CASE TryIdentity
  BY <1>c, <1>d, <1>15 DEF TryIdentity, End
<1>16. CASE AnnounceShell
  BY <1>c, <1>d, <1>16 DEF AnnounceShell, SendAndGo, End, Send
<1>17. CASE OpenShell
  BY <1>c, <1>d, <1>17 DEF OpenShell, ShellErrors, End
<1>18. CASE AnnounceConnected
  BY <1>c, <1>d, <1>18 DEF AnnounceConnected, SendAndGo, End, Send
<1>19. CASE LoopCancelled
  BY <1>c, <1>d, <1>19 DEF LoopCancelled
<1>20. CASE LoopInput
  BY <1>c, <1>d, <1>20 DEF LoopInput, End
<1>21. CASE LoopResize
  BY <1>c, <1>d, <1>21 DEF LoopResize, End
<1>22. CASE LoopData
  BY <1>c, <1>d, <1>22 DEF LoopData
<1>23. CASE LoopExitStatus
  BY <1>c, <1>d, <1>23 DEF LoopExitStatus
<1>24. CASE LoopClosed
  BY <1>c, <1>d, <1>24 DEF LoopClosed, End
<1>25. CASE WriteEnds
  BY <1>c, <1>d, <1>25 DEF WriteEnds, End
<1>26. CASE SendOutput
  BY <1>c, <1>d, <1>26 DEF SendOutput, SendAndGo, End, Send
<1>27. CASE CloseChannel
  BY <1>c, <1>d, <1>27 DEF CloseChannel, End
<1>28. CASE Report
  BY <1>c, <1>d, <1>28 DEF Report, Send, SendOrIgnore
<1>29. CASE Finish
  BY <1>c, <1>d, <1>29 DEF Finish, Send, SendOrIgnore
<1>30. CASE GraceOver
  BY <1>c, <1>d, <1>30 DEF GraceOver
<1>31. CASE Disconnect
  BY <1>c, <1>d, <1>31 DEF Disconnect, Cancel
<1>32. CASE Receive
  BY <1>c, <1>d, <1>32 DEF Receive, Cancel
<1>33. CASE CloseReceiver
  BY <1>c, <1>d, <1>33 DEF CloseReceiver, Cancel
<1>34. CASE SendInput
  BY <1>c, <1>d, <1>34 DEF SendInput
<1>35. CASE \E s \in Sizes : Resize(s)
  BY <1>c, <1>d, <1>35 DEF Resize
<1>36. CASE UNCHANGED vars
  BY <1>c, <1>d, <1>36 DEF vars
<1>37. QED
  BY <1>1, <1>2, <1>3, <1>4, <1>5, <1>6, <1>7, <1>8, <1>9, <1>10, <1>11, <1>12, <1>13, <1>14, <1>15, <1>16, <1>17, <1>18, <1>19, <1>20, <1>21, <1>22, <1>23, <1>24, <1>25, <1>26, <1>27, <1>28, <1>29, <1>30, <1>31, <1>32, <1>33, <1>34, <1>35, <1>36
     DEF Next, Handshake, Login, Shell, Ending, Interface

\* What is known of the places of the task survives each step.
LEMMA ControlStep == TypeOK /\ TypeOK' /\ ToldSoFar /\ Control /\ [Next]_vars => Control'
<1> SUFFICES ASSUME TypeOK, TypeOK', ToldSoFar, Control, [Next]_vars PROVE Control'
  OBVIOUS
<1>a. Places
  BY DEF TypeOK, Places
<1>b. pc \in Running \cup Final \cup {"report", "last"}
  BY <1>a DEF Places
<1>c. /\ pc = "connecting" => told = {}
      /\ pc \in BeyondHandshake \cup {"connecting", "handshake"} =>
           pc \in InShell \/ told \cap {"Connected", "Output"} = {}
      /\ pc \notin {"last"} \cup Final => told \cap {"Exited", "Error"} = {}
      /\ pc \notin Final => "Disconnected" \notin told
  BY <1>a, NotYet
<1> USE <1>b, <1>c DEF Control, ToldInHandshake, ToldBeyond, GivenUp,
        EndIsAnnounced, FailuresAreExplained, BeyondHandshake, InShell, Running, Final,
        InHandshake, HandshakeRest, AuthRest, LoopRest, ReportRest, TaskRest, queueVars, tabVars,
        verifyVars, authVars, sizeVars, endVars
<1>1. CASE Begin
  BY <1>1 DEF Begin, Send, SendOrIgnore
<1>2. CASE Timeout
  BY <1>2 DEF Timeout, FailHandshake, End
<1>3. CASE ConnectFails
  BY <1>3 DEF ConnectFails, FailHandshake, End
<1>4. CASE PresentKey
  BY <1>4 DEF PresentKey, VerifyAt
<1>5. CASE AnnounceVerification
  BY <1>5 DEF AnnounceVerification, VerifyAt, FailHandshake, End, Send
<1>6. CASE LookUp
  BY <1>6 DEF LookUp, VerifyAt, FailHandshake, End, Send, TrySend
<1>7. CASE ReportChangedKey
  BY <1>7 DEF ReportChangedKey, FailHandshake, End, Send, SendOrIgnore
<1>8. CASE Prompt
  BY <1>8 DEF Prompt, VerifyAt, FailHandshake, End, Send
<1>9. CASE ReadVerdict
  BY <1>9 DEF ReadVerdict, VerifyAt, FailHandshake, End
<1>10. CASE HandshakeDone
  BY <1>10 DEF HandshakeDone
<1>11. CASE AnnounceAuthentication
  BY <1>11 DEF AnnounceAuthentication, SendAndGo, End, Send
<1>12. CASE \E o \in {"Accepted", "Rejected", "Conflict"} : SettlePrompt(o)
  BY <1>12 DEF SettlePrompt, Send, TrySend
<1>13. CASE Authenticate
  BY <1>13 DEF Authenticate, AuthFailures, End, AuthFailures
<1>14. CASE ListIdentities
  BY <1>14 DEF ListIdentities, End
<1>15. CASE TryIdentity
  BY <1>15 DEF TryIdentity, End
<1>16. CASE AnnounceShell
  BY <1>16 DEF AnnounceShell, SendAndGo, End, Send
<1>17. CASE OpenShell
  BY <1>17 DEF OpenShell, ShellErrors, End
<1>18. CASE AnnounceConnected
  BY <1>18 DEF AnnounceConnected, SendAndGo, End, Send
<1>19. CASE LoopCancelled
  BY <1>19 DEF LoopCancelled
<1>20. CASE LoopInput
  BY <1>20 DEF LoopInput, End
<1>21. CASE LoopResize
  BY <1>21 DEF LoopResize, End
<1>22. CASE LoopData
  BY <1>22 DEF LoopData
<1>23. CASE LoopExitStatus
  BY <1>23 DEF LoopExitStatus
<1>24. CASE LoopClosed
  BY <1>24 DEF LoopClosed, End
<1>25. CASE WriteEnds
  BY <1>25 DEF WriteEnds, End
<1>26. CASE SendOutput
  BY <1>26 DEF SendOutput, SendAndGo, End, Send
<1>27. CASE CloseChannel
  BY <1>27 DEF CloseChannel, End
<1>28. CASE Report
  BY <1>28 DEF Report, Send, SendOrIgnore
<1>29. CASE Finish
  BY <1>29 DEF Finish, Send, SendOrIgnore
<1>30. CASE GraceOver
  BY <1>30 DEF GraceOver
<1>31. CASE Disconnect
  BY <1>31 DEF Disconnect, Cancel
<1>32. CASE Receive
  BY <1>32 DEF Receive, Cancel
<1>33. CASE CloseReceiver
  BY <1>33 DEF CloseReceiver, Cancel
<1>34. CASE SendInput
  BY <1>34 DEF SendInput
<1>35. CASE \E s \in Sizes : Resize(s)
  BY <1>35 DEF Resize
<1>36. CASE UNCHANGED vars
  BY <1>36 DEF vars
<1>37. QED
  BY <1>1, <1>2, <1>3, <1>4, <1>5, <1>6, <1>7, <1>8, <1>9, <1>10, <1>11, <1>12, <1>13, <1>14, <1>15, <1>16, <1>17, <1>18, <1>19, <1>20, <1>21, <1>22, <1>23, <1>24, <1>25, <1>26, <1>27, <1>28, <1>29, <1>30, <1>31, <1>32, <1>33, <1>34, <1>35, <1>36
     DEF Next, Handshake, Login, Shell, Ending, Interface

-----------------------------------------------------------------------------
\* A step that tells an event tells one that may follow.
LEMMA TellStep == TypeOK /\ ToldSoFar /\ Control /\ [Next]_vars => [Protocol!Tell]_<<told, last>>
<1> SUFFICES ASSUME TypeOK, ToldSoFar, Control, [Next]_vars PROVE [Protocol!Tell]_<<told, last>>
  OBVIOUS
<1> DEFINE Tells(e) == e \in Protocol!Events /\ told' = told \cup {e} /\ last' = e /\ Protocol!MayFollow(e)
<1>a. ASSUME UNCHANGED <<told, last>> \/ \E e \in Protocol!Events : Tells(e) PROVE [Protocol!Tell]_<<told, last>>
  BY <1>a DEF Protocol!Tell
<1>b. SUFFICES UNCHANGED <<told, last>> \/ \E e \in Protocol!Events : Tells(e)
  BY <1>a
<1>c. Places /\ told \subseteq Protocol!Events
  BY DEF TypeOK, Places
<1>d. /\ pc = "connecting" => told = {}
      /\ pc \in {"connecting", "handshake", "toAuthenticate"} =>
           told \cap {"Authenticating", "OpeningShell"} = {}
      /\ pc \in {"authenticating", "trying", "toShell"} => "OpeningShell" \notin told
      /\ pc \in BeyondHandshake \cup {"connecting", "handshake"} =>
           pc \in InShell \/ told \cap {"Connected", "Output"} = {}
      /\ pc \notin {"last"} \cup Final => told \cap {"Exited", "Error"} = {}
      /\ pc \notin Final => "Disconnected" \notin told
  BY <1>c, NotYet
<1>e. pc \in Running \cup Final \cup {"report", "last"}
  BY <1>c DEF Places
<1>0. ASSUME UNCHANGED queueVars PROVE UNCHANGED <<told, last>>
  BY <1>0 DEF queueVars
<1> USE <1>d, <1>e, EventNames, Ranks DEF BeyondHandshake, InShell, Running, Final, Protocol!MayFollow,
        Control, ToldInHandshake, ToldBeyond, InHandshake, HandshakeRest, AuthRest, LoopRest, ReportRest, TaskRest, queueVars, tabVars,
        verifyVars, authVars, sizeVars, endVars
<1>1. CASE Begin
  BY <1>c, <1>1 DEF Begin, Send, SendOrIgnore
<1>2. CASE Timeout
  BY <1>c, <1>2 DEF Timeout, FailHandshake, End
<1>3. CASE ConnectFails
  BY <1>c, <1>3 DEF ConnectFails, FailHandshake, End
<1>4. CASE PresentKey
  BY <1>c, <1>4 DEF PresentKey, VerifyAt
<1>5. CASE AnnounceVerification
  BY <1>c, <1>5 DEF AnnounceVerification, VerifyAt, FailHandshake, End, Send
<1>6. CASE LookUp
  BY <1>c, <1>6 DEF LookUp, VerifyAt, FailHandshake, End, Send, TrySend
<1>7. CASE ReportChangedKey
  <2>1. UNCHANGED <<told, last>> \/ (told' = told \cup {"ChangedHostKey"} /\ last' = "ChangedHostKey" /\ pc = "handshake" /\ verify = "changed")
    BY <1>7 DEF ReportChangedKey, VerifyAt, FailHandshake, End, Send, SendOrIgnore
  <2>2. CASE UNCHANGED <<told, last>>
    BY <2>2
  <2>3. CASE told' = told \cup {"ChangedHostKey"} /\ last' = "ChangedHostKey" /\ pc = "handshake" /\ verify = "changed"
    <3>1. told \cap {"ChangedHostKey", "Authenticating", "OpeningShell", "Connected", "Output",
                 "Exited", "Error", "Disconnected"} = {}
      BY <2>3
    <3>2. Protocol!MayFollow("ChangedHostKey")
      BY <1>c, <2>3, <3>1
    <3>3. QED
      BY <2>3, <3>2
  <2>4. QED
    BY <2>1, <2>2, <2>3
<1>8. CASE Prompt
  <2>1. UNCHANGED <<told, last>> \/ (told' = told \cup {"UnknownHostKey"} /\ last' = "UnknownHostKey" /\ pc = "handshake" /\ verify = "prompting")
    BY <1>8 DEF Prompt, InHandshake, VerifyAt, FailHandshake, Send
  <2>2. CASE UNCHANGED <<told, last>>
    BY <2>2
  <2>3. CASE told' = told \cup {"UnknownHostKey"} /\ last' = "UnknownHostKey" /\ pc = "handshake" /\ verify = "prompting"
    <3>1. told \cap {"UnknownHostKey", "Authenticating", "OpeningShell", "Connected", "Output",
                 "Exited", "Error", "Disconnected"} = {}
      BY <2>3
    <3>2. Protocol!MayFollow("UnknownHostKey")
      BY <1>c, <2>3, <3>1
    <3>3. QED
      BY <2>3, <3>2
  <2>4. QED
    BY <2>1, <2>2, <2>3
<1>9. CASE ReadVerdict
  BY <1>c, <1>9 DEF ReadVerdict, VerifyAt, FailHandshake, End
<1>10. CASE HandshakeDone
  BY <1>c, <1>10 DEF HandshakeDone
<1>11. CASE AnnounceAuthentication
  <2>1. UNCHANGED <<told, last>> \/ (told' = told \cup {"Authenticating"} /\ last' = "Authenticating" /\ pc = "toAuthenticate")
    BY <1>11 DEF AnnounceAuthentication, SendAndGo, Send
  <2>2. CASE UNCHANGED <<told, last>>
    BY <2>2
  <2>3. CASE told' = told \cup {"Authenticating"} /\ last' = "Authenticating" /\ pc = "toAuthenticate"
    <3>1. told \cap {"ChangedHostKey", "Authenticating", "OpeningShell", "Connected", "Output",
                 "Exited", "Error", "Disconnected"} = {}
      BY <2>3
    <3>2. Protocol!MayFollow("Authenticating")
      BY <1>c, <2>3, <3>1
    <3>3. QED
      BY <2>3, <3>2
  <2>4. QED
    BY <2>1, <2>2, <2>3
<1>12. CASE \E o \in {"Accepted", "Rejected", "Conflict"} : SettlePrompt(o)
  <2>1. PICK outcome \in {"Accepted", "Rejected", "Conflict"} : SettlePrompt(outcome)
    BY <1>12
  <2>2. UNCHANGED <<told, last>> \/ (told' = told \cup {"ChangedHostKey"} /\ last' = "ChangedHostKey")
    BY <2>1 DEF SettlePrompt, TrySend, Send
  <2>3. pc = "handshake" /\ verdict = "Waiting"
    BY <2>1 DEF SettlePrompt
  <2>4. "ChangedHostKey" \notin told
    BY <2>3
  <2>5. Protocol!MayFollow("ChangedHostKey")
    BY <1>c, <2>3, <2>4
  <2>6. QED
    BY <2>2, <2>5
<1>13. CASE Authenticate
  BY <1>c, <1>13 DEF Authenticate, AuthFailures, End
<1>14. CASE ListIdentities
  BY <1>c, <1>14 DEF ListIdentities, End
<1>15. CASE TryIdentity
  BY <1>c, <1>15 DEF TryIdentity, End
<1>16. CASE AnnounceShell
  <2>1. UNCHANGED <<told, last>> \/ (told' = told \cup {"OpeningShell"} /\ last' = "OpeningShell" /\ pc = "toShell")
    BY <1>16 DEF AnnounceShell, SendAndGo, Send
  <2>2. CASE UNCHANGED <<told, last>>
    BY <2>2
  <2>3. CASE told' = told \cup {"OpeningShell"} /\ last' = "OpeningShell" /\ pc = "toShell"
    <3>1. told \cap {"ChangedHostKey", "OpeningShell", "Connected", "Output", "Exited", "Error", "Disconnected"} = {}
      BY <2>3
    <3>2. Protocol!MayFollow("OpeningShell")
      BY <1>c, <2>3, <3>1
    <3>3. QED
      BY <2>3, <3>2
  <2>4. QED
    BY <2>1, <2>2, <2>3
<1>17. CASE OpenShell
  BY <1>c, <1>17 DEF OpenShell, ShellErrors, End
<1>18. CASE AnnounceConnected
  <2>1. UNCHANGED <<told, last>> \/ (told' = told \cup {"Connected"} /\ last' = "Connected" /\ pc = "toConnected")
    BY <1>18 DEF AnnounceConnected, SendAndGo, Send
  <2>2. CASE UNCHANGED <<told, last>>
    BY <2>2
  <2>3. CASE told' = told \cup {"Connected"} /\ last' = "Connected" /\ pc = "toConnected"
    <3>1. told \cap {"ChangedHostKey", "Connected", "Output", "Exited", "Error", "Disconnected"} = {}
      BY <2>3
    <3>2. Protocol!MayFollow("Connected")
      BY <1>c, <3>1
    <3>3. QED
      BY <2>3, <3>2
  <2>4. QED
    BY <2>1, <2>2, <2>3
<1>19. CASE LoopCancelled
  BY <1>c, <1>19 DEF LoopCancelled
<1>20. CASE LoopInput
  BY <1>c, <1>20 DEF LoopInput, End
<1>21. CASE LoopResize
  BY <1>c, <1>21 DEF LoopResize, End
<1>22. CASE LoopData
  BY <1>c, <1>22 DEF LoopData
<1>23. CASE LoopExitStatus
  BY <1>c, <1>23 DEF LoopExitStatus
<1>24. CASE LoopClosed
  BY <1>c, <1>24 DEF LoopClosed, End
<1>25. CASE WriteEnds
  BY <1>c, <1>25 DEF WriteEnds, End
<1>26. CASE SendOutput
  <2>1. UNCHANGED <<told, last>> \/ (told' = told \cup {"Output"} /\ last' = "Output" /\ pc = "output")
    BY <1>26 DEF SendOutput, SendAndGo, Send
  <2>2. CASE UNCHANGED <<told, last>>
    BY <2>2
  <2>3. CASE told' = told \cup {"Output"} /\ last' = "Output" /\ pc = "output"
    <3>1. told \cap {"Exited", "Error", "Disconnected"} = {} /\ "Connected" \in told
      BY <2>3
    <3>2. Protocol!MayFollow("Output")
      BY <1>c, <2>3, <3>1
    <3>3. QED
      BY <2>3, <3>2
  <2>4. QED
    BY <2>1, <2>2, <2>3
<1>27. CASE CloseChannel
  BY <1>c, <1>27 DEF CloseChannel, End
<1>28. CASE Report
  <2>1. pc = "report"
    BY <1>28 DEF Report
  <2>2. \/ UNCHANGED <<told, last>>
        \/ /\ told' = told \cup {IF result = "exit" THEN "Exited" ELSE "Error"}
           /\ last' = IF result = "exit" THEN "Exited" ELSE "Error"
    BY <1>28 DEF Report, Send, SendOrIgnore
  <2>3. told \cap {"Exited", "Error", "Disconnected"} = {} /\ (result = "exit" <=> "Connected" \in told)
    BY <2>1
  <2>4. CASE result = "exit"
    <3>1. Protocol!MayFollow("Exited")
      BY <1>c, <2>3, <2>4
    <3>2. QED
      BY <2>2, <2>4, <3>1
  <2>5. CASE result # "exit"
    <3>1. Protocol!MayFollow("Error")
      BY <1>c, <2>3, <2>5
    <3>2. QED
      BY <2>2, <2>5, <3>1
  <2>6. QED
    BY <2>4, <2>5
<1>29. CASE Finish
  <2>1. pc = "last" /\ (UNCHANGED <<told, last>> \/ (told' = told \cup {"Disconnected"} /\ last' = "Disconnected"))
    BY <1>29 DEF Finish, Send, SendOrIgnore
  <2>2. Protocol!MayFollow("Disconnected")
    BY <1>c, <2>1
  <2>3. QED
    BY <2>1, <2>2
<1>30. CASE GraceOver
  BY <1>c, <1>30 DEF GraceOver
<1>31. CASE Disconnect
  BY <1>c, <1>31 DEF Disconnect, Cancel
<1>32. CASE Receive
  BY <1>c, <1>32 DEF Receive, Cancel
<1>33. CASE CloseReceiver
  BY <1>c, <1>33 DEF CloseReceiver, Cancel
<1>34. CASE SendInput
  BY <1>c, <1>34 DEF SendInput
<1>35. CASE \E s \in Sizes : Resize(s)
  BY <1>c, <1>35 DEF Resize
<1>36. CASE UNCHANGED vars
  BY <1>c, <1>36 DEF vars
<1>37. QED
  BY <1>1, <1>2, <1>3, <1>4, <1>5, <1>6, <1>7, <1>8, <1>9, <1>10, <1>11, <1>12, <1>13, <1>14, <1>15, <1>16, <1>17, <1>18, <1>19, <1>20, <1>21, <1>22, <1>23, <1>24, <1>25, <1>26, <1>27, <1>28, <1>29, <1>30, <1>31, <1>32, <1>33, <1>34, <1>35, <1>36
     DEF Next, Handshake, Login, Shell, Ending, Interface

-----------------------------------------------------------------------------
\* The type invariant, with every event of the queue one that was told.
THEOREM TypeCorrect == Spec => []TypeOK
<1>1. ASSUME Init PROVE TypeOK
  <2>1. EventsOK
    BY <1>1, ConstantsAssumption, EmptySeq DEF Init, EventsOK
  <2>2. TaskOK
    <3>1. /\ pc \in Running /\ identities \in 0..MaxIdentities /\ input \in 0..InputCapacity
          /\ size \in Sizes /\ ptySize \in Sizes \cup {None}
      BY <1>1, ConstantsAssumption DEF Init, Running
    <3>2. /\ exitStatus \in BOOLEAN /\ open \in BOOLEAN /\ resized \in BOOLEAN
          /\ cancelled \in BOOLEAN /\ grace \in BOOLEAN
      BY <1>1 DEF Init
    <3>3. QED
      BY <1>1, <3>1, <3>2 DEF Init, TaskOK
  <2>3. QED
    BY <2>1, <2>2, TypeParts
<1>2. TypeOK /\ [Next]_vars => TypeOK'
  BY TypeParts, EventsStep, TaskStep
<1>3. QED
  BY <1>1, <1>2, PTL DEF Spec

\* The inductive invariant: which events have been told where the task is, and
\* that neither an event nor a size gets lost on the way (run_session).
THEOREM Invariance == Spec => []IInv
<1>1. Init => ToldSoFar /\ Control /\ EventsAreOnTheirWay /\ SizeIsOnItsWay
  BY DEF Init, Control, ToldSoFar, ToldInHandshake, ToldBeyond, GivenUp,
     EndIsAnnounced, FailuresAreExplained, BeyondHandshake, InShell, EventsAreOnTheirWay, SizeIsOnItsWay
<1>2. TypeOK /\ TypeOK' /\ ToldSoFar /\ Control /\ [Next]_vars => (ToldSoFar /\ Control)'
  BY ToldSoFarStep, ControlStep
<1>3. TypeOK /\ EventsAreOnTheirWay /\ SizeIsOnItsWay /\ [Next]_vars
        => (EventsAreOnTheirWay /\ SizeIsOnItsWay)'
  BY TypeParts, EventsStep, SizeStep
<1>4. TypeOK /\ ToldSoFar /\ Control /\ EventsAreOnTheirWay /\ SizeIsOnItsWay => IInv
  BY DEF IInv, Control
<1>. QED BY <1>1, <1>2, <1>3, <1>4, TypeCorrect, PTL DEF Spec

\* A task that ends on its own announces it to a receiver that is there; only a
\* session that was disconnected is aborted. A session that fails before its
\* shell reports an error, unless the tab has given it up first
\* (SshService::connect, disconnect, run_session).
THEOREM ExplainedEnds == Spec => []EndsAreExplained
<1>1. IInv => EndsAreExplained
  BY DEF IInv, EndsAreExplained
<1>2. QED
  BY <1>1, Invariance, PTL

\* What waits for the tab and for the server: the end of a task that has ended,
\* unless the tab has received it, and a size the server does not have.
EndWaits ==
  pc = "done" /\ open => "Disconnected" \in seen \/ \E i \in DOMAIN events : events[i] = "Disconnected"
SizeWaits == ptySize # None /\ ptySize # size => resized

\* The end of a session and its last size cannot get lost before they are
\* taken: the safe half of EndReachesTheTab and LastSizeReachesTheServer.
THEOREM NothingGetsLost == Spec => [](EndWaits /\ SizeWaits)
<1>1. IInv => EndWaits /\ SizeWaits
  BY DEF IInv, EndIsAnnounced, EventsAreOnTheirWay, SizeIsOnItsWay, EndWaits, SizeWaits
<1>. QED BY <1>1, Invariance, PTL

\* The task implements the protocol that the tabs rely on: each event it sends
\* may follow the ones sent before.
THEOREM Refinement == Spec => FollowsTheProtocol
<1>1. Init => Protocol!Init
  BY DEF Init, Protocol!Init
<1>2. IInv /\ [Next]_vars => [Protocol!Tell]_<<told, last>>
  BY TellStep DEF IInv, Control
<1>3. QED
  BY <1>1, <1>2, Invariance, PTL DEF Spec, FollowsTheProtocol, Protocol!Spec
=============================================================================
