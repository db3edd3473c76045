------------------------ MODULE LocalSessionProofs -------------------------
(***************************************************************************)
(* What a local shell promises for any capacities and sizes, whatever the  *)
(* order in which its threads run: its events keep LocalProtocol, neither  *)
(* its exit nor its last size gets lost, and a tab that shows its end is   *)
(* not revived.                                                            *)
(***************************************************************************)
EXTENDS LocalSession, SequenceTheorems, TLAPS

\* Which thread has said what, step by step.
LEMMA ToldStep == ToldByThreads /\ [Next]_vars => ToldByThreads'
<1> SUFFICES ASSUME ToldByThreads, [Next]_vars PROVE ToldByThreads'
  OBVIOUS
<1> USE DEF ToldByThreads, Local!Events,
        SpawnRest, ReaderRest, WriterRest, ResizerRest, WaiterRest, ShellRest, TabRest,
        threadVars, shellVars, queueVars, sizeVars, tabVars, Free
<1>1. CASE StartReader
  BY <1>1 DEF StartReader
<1>2. CASE StartRest
  BY <1>2 DEF StartRest
<1>3. CASE SpawnFails
  BY <1>3 DEF SpawnFails
<1>4. CASE Announce
  BY <1>4 DEF Announce, Send
<1>5. CASE Read
  BY <1>5 DEF Read
<1>6. CASE SendOutput
  BY <1>6 DEF SendOutput, Send
<1>7. CASE TakeInput
  BY <1>7 DEF TakeInput
<1>8. CASE WriteEnds
  BY <1>8 DEF WriteEnds
<1>9. CASE ApplySize
  BY <1>9 DEF ApplySize
<1>10. CASE Wait
  BY <1>10 DEF Wait
<1>11. CASE ReportExit
  BY <1>11 DEF ReportExit, Send, SendOrIgnore
<1>12. CASE ReportEnd
  BY <1>12 DEF ReportEnd, Send, SendOrIgnore
<1>13. CASE Write
  BY <1>13 DEF Write
<1>14. CASE Exit
  BY <1>14 DEF Exit
<1>15. CASE Release
  BY <1>15 DEF Release
<1>16. CASE Receive
  BY <1>16 DEF Receive, Apply
<1>17. CASE Disconnect
  BY <1>17 DEF Disconnect
<1>18. CASE Leave
  BY <1>18 DEF Leave
<1>19. CASE CloseReceiver
  BY <1>19 DEF CloseReceiver
<1>20. CASE SendInput
  BY <1>20 DEF SendInput
<1>21. CASE \E s \in Sizes : Resize(s)
  BY <1>21 DEF Resize
<1>22. CASE UNCHANGED vars
  BY <1>22 DEF vars
<1>23. QED
  BY <1>1, <1>2, <1>3, <1>4, <1>5, <1>6, <1>7, <1>8, <1>9, <1>10, <1>11, <1>12, <1>13, <1>14, <1>15, <1>16, <1>17, <1>18, <1>19, <1>20, <1>21, <1>22
     DEF Next, Spawn, Threads, ShellStep, Interface

\* Whose events the tab listens to, step by step.
LEMMA HandleStep == HandleOfTab /\ [Next]_vars => HandleOfTab'
<1> SUFFICES ASSUME HandleOfTab, [Next]_vars PROVE HandleOfTab'
  OBVIOUS
<1> USE DEF HandleOfTab,
        SpawnRest, ReaderRest, WriterRest, ResizerRest, WaiterRest, ShellRest, TabRest,
        threadVars, shellVars, queueVars, sizeVars, tabVars, Free
<1>1. CASE StartReader
  BY <1>1 DEF StartReader
<1>2. CASE StartRest
  BY <1>2 DEF StartRest
<1>3. CASE SpawnFails
  BY <1>3 DEF SpawnFails
<1>4. CASE Announce
  BY <1>4 DEF Announce, Send
<1>5. CASE Read
  BY <1>5 DEF Read
<1>6. CASE SendOutput
  BY <1>6 DEF SendOutput, Send
<1>7. CASE TakeInput
  BY <1>7 DEF TakeInput
<1>8. CASE WriteEnds
  BY <1>8 DEF WriteEnds
<1>9. CASE ApplySize
  BY <1>9 DEF ApplySize
<1>10. CASE Wait
  BY <1>10 DEF Wait
<1>11. CASE ReportExit
  BY <1>11 DEF ReportExit, Send, SendOrIgnore
<1>12. CASE ReportEnd
  BY <1>12 DEF ReportEnd, Send, SendOrIgnore
<1>13. CASE Write
  BY <1>13 DEF Write
<1>14. CASE Exit
  BY <1>14 DEF Exit
<1>15. CASE Release
  BY <1>15 DEF Release
<1>16. CASE Receive
  BY <1>16 DEF Receive, Apply
<1>17. CASE Disconnect
  BY <1>17 DEF Disconnect
<1>18. CASE Leave
  BY <1>18 DEF Leave
<1>19. CASE CloseReceiver
  BY <1>19 DEF CloseReceiver
<1>20. CASE SendInput
  BY <1>20 DEF SendInput
<1>21. CASE \E s \in Sizes : Resize(s)
  BY <1>21 DEF Resize
<1>22. CASE UNCHANGED vars
  BY <1>22 DEF vars
<1>23. QED
  BY <1>1, <1>2, <1>3, <1>4, <1>5, <1>6, <1>7, <1>8, <1>9, <1>10, <1>11, <1>12, <1>13, <1>14, <1>15, <1>16, <1>17, <1>18, <1>19, <1>20, <1>21, <1>22
     DEF Next, Spawn, Threads, ShellStep, Interface

-----------------------------------------------------------------------------
(* Types, in three parts: the queue of events, the sizes, and the rest.    *)

QueueTypes ==
  /\ events \in Seq(told) /\ Len(events) <= EventCapacity
  /\ told \subseteq {"Connected", "Output", "Exited", "Disconnected"} /\ last \in told \cup {"none"}
SizeTypes ==
  resizes \in Seq(Sizes) /\ Len(resizes) <= MaxResizes /\ size \in Sizes /\ ptySize \in Sizes
OtherTypes ==
  /\ spawn \in {"reader", "rest", "announcing", "returned", "failed"}
  /\ reader \in {"none", "reading", "sending", "done"}
  /\ writer \in {"none", "receiving", "writing", "done"}
  /\ resizer \in {"none", "receiving", "done"}
  /\ waiter \in {"none", "waiting", "exit", "last", "done"}
  /\ child \in {"running", "exited"} /\ slave \in {"held", "released"}
  /\ written \in 0..MaxChunks /\ unread \in 0..written
  /\ open \in BOOLEAN /\ input \in 0..InputCapacity
  /\ handle \in {"none", "held", "disconnected", "dropped"}
  /\ tab \in {"Connecting", "Connected", "Disconnected", "other"}

LEMMA Types ==
  /\ TypeOK <=> QueueTypes /\ SizeTypes /\ OtherTypes
  /\ TypeOK' <=> QueueTypes' /\ SizeTypes' /\ OtherTypes'
BY DEF TypeOK, QueueTypes, SizeTypes, OtherTypes

\* An event that is told is put behind the others, of which none is lost.
LEMMA SendTypes ==
  ASSUME QueueTypes, NEW e \in {"Connected", "Output", "Exited", "Disconnected"}, Send(e)
  PROVE  /\ QueueTypes'
         /\ \A i \in DOMAIN events : i \in DOMAIN events' /\ events'[i] = events[i]
         /\ \E i \in DOMAIN events' : events'[i] = e
<1>1. events \in Seq(told') /\ e \in told'
  <2>1. told \subseteq told' /\ events \in [1 .. Len(events) -> told] /\ Len(events) \in Nat
    BY DEF Send, QueueTypes
  <2>2. events \in [1 .. Len(events) -> told']
    BY <2>1
  <2>. QED BY <2>1, <2>2, SeqDef DEF Send
<1>2. /\ Append(events, e) \in Seq(told') /\ Len(Append(events, e)) = Len(events) + 1
      /\ \A i \in 1 .. Len(events) : Append(events, e)[i] = events[i]
      /\ Append(events, e)[Len(events) + 1] = e
  BY <1>1, AppendProperties
<1>3. events' = Append(events, e) /\ Len(events) < EventCapacity
  BY DEF Send
<1>4. Len(events) \in Nat /\ DOMAIN events = 1 .. Len(events) /\ DOMAIN events' = 1 .. Len(events) + 1
  BY <1>1, <1>2, <1>3, LenProperties
<1>5. QueueTypes'
  BY <1>1, <1>2, <1>3, <1>4, ConstantsAssumption DEF QueueTypes, Send
<1>. QED BY <1>2, <1>3, <1>4, <1>5

\* A pump that takes an event leaves the ones behind it.
LEMMA TakeTypes ==
  ASSUME QueueTypes, events # <<>>, events' = Tail(events), UNCHANGED <<told, last>>
  PROVE  /\ QueueTypes' /\ Head(events) \in told
         /\ \A i \in DOMAIN events : events[i] # Head(events) => \E j \in DOMAIN events' : events'[j] = events[i]
<1>1. events \in Seq(told) /\ Len(events) \in Nat \ {0} /\ DOMAIN events = 1 .. Len(events)
  <2>1. events \in Seq(told)
    BY DEF QueueTypes
  <2>. QED BY <2>1, EmptySeq, LenProperties
<1>2. /\ Tail(events) \in Seq(told) /\ Len(Tail(events)) = Len(events) - 1
      /\ \A i \in 1 .. Len(Tail(events)) : Tail(events)[i] = events[i + 1]
      /\ Head(events) \in told /\ Head(events) = events[1]
  BY <1>1, HeadTailProperties
<1>3. DOMAIN Tail(events) = 1 .. Len(events) - 1
  BY <1>2, LenProperties
<1>4. QueueTypes'
  BY <1>1, <1>2, ConstantsAssumption DEF QueueTypes
<1>5. ASSUME NEW i \in DOMAIN events, events[i] # Head(events)
      PROVE  \E j \in DOMAIN events' : events'[j] = events[i]
  <2>1. i - 1 \in DOMAIN Tail(events) /\ Tail(events)[i - 1] = events[i]
    BY <1>1, <1>2, <1>3, <1>5
  <2>. QED BY <2>1
<1>. QED BY <1>2, <1>4, <1>5

LEMMA NoEvents == ASSUME QueueTypes, events' = <<>>, UNCHANGED <<told, last>> PROVE QueueTypes'
BY ConstantsAssumption, EmptySeq DEF QueueTypes

\* What a step does to the queue of events, and what it never takes back.
LEMMA QueueStep ==
  ASSUME HandleOfTab, [Next]_vars
  PROVE  /\ \/ UNCHANGED queueVars
            \/ \E e \in {"Connected", "Output", "Exited", "Disconnected"} : Send(e)
            \/ /\ events # <<>> /\ events' = Tail(events) /\ UNCHANGED <<told, last>>
               /\ Head(events) = "Exited" => handle' = "dropped"
            \/ events' = <<>> /\ UNCHANGED <<told, last>> /\ ~open'
         /\ handle = "dropped" => handle' = "dropped"
         /\ ~open => ~open'
<1>. USE DEF SpawnRest, ReaderRest, WriterRest, ResizerRest, WaiterRest, ShellRest, TabRest,
             queueVars, tabVars
<1>1. CASE Announce
  BY <1>1 DEF Announce, HandleOfTab, Free
<1>2. CASE SendOutput
  BY <1>2 DEF SendOutput
<1>3. CASE ReportExit \/ ReportEnd
  BY <1>3 DEF ReportExit, ReportEnd, SendOrIgnore
<1>4. CASE StartReader \/ StartRest \/ SpawnFails
  BY <1>4 DEF StartReader, StartRest, SpawnFails
<1>5. CASE Read \/ TakeInput \/ WriteEnds \/ ApplySize \/ Wait \/ ShellStep
  BY <1>5 DEF Read, TakeInput, WriteEnds, ApplySize, Wait, ShellStep, Write, Exit, Release
<1>6. CASE Receive
  BY <1>6 DEF Receive, Apply
<1>7. CASE Disconnect \/ Leave \/ CloseReceiver \/ SendInput \/ \E s \in Sizes : Resize(s)
  BY <1>7 DEF Disconnect, Leave, CloseReceiver, SendInput, Resize
<1>8. CASE UNCHANGED vars
  BY <1>8 DEF vars
<1>. QED BY <1>1, <1>2, <1>3, <1>4, <1>5, <1>6, <1>7, <1>8 DEF Next, Spawn, Threads, Interface

\* The queue keeps its types, and the exit in it.
LEMMA QueueKeeps ==
  ASSUME QueueTypes, HandleOfTab, ExitIsOnItsWay, [Next]_vars
  PROVE  QueueTypes' /\ ExitIsOnItsWay'
<1>1. (handle = "dropped" => handle' = "dropped") /\ (~open => ~open')
  BY QueueStep
<1>2. CASE UNCHANGED queueVars
  BY <1>1, <1>2 DEF QueueTypes, ExitIsOnItsWay, queueVars
<1>3. ASSUME NEW e \in {"Connected", "Output", "Exited", "Disconnected"}, Send(e)
      PROVE  QueueTypes' /\ ExitIsOnItsWay'
  <2>1. told' = told \cup {e}
    BY <1>3 DEF Send
  <2>. QED BY <1>1, <1>3, <2>1, SendTypes DEF ExitIsOnItsWay
<1>4. CASE /\ events # <<>> /\ events' = Tail(events) /\ UNCHANGED <<told, last>>
           /\ Head(events) = "Exited" => handle' = "dropped"
  BY <1>1, <1>4, TakeTypes DEF ExitIsOnItsWay
<1>5. CASE events' = <<>> /\ UNCHANGED <<told, last>> /\ ~open'
  BY <1>5, NoEvents DEF ExitIsOnItsWay
<1>. QED BY <1>2, <1>3, <1>4, <1>5, QueueStep

\* The sizes: one more is asked for, or the last one is applied.
LEMMA SizeKeeps ==
  ASSUME SizeTypes, SizeIsOnItsWay, [Next]_vars
  PROVE  SizeTypes' /\ SizeIsOnItsWay'
<1>1. \/ UNCHANGED sizeVars
      \/ resizes # <<>> /\ ptySize' = Last(resizes) /\ resizes' = <<>> /\ UNCHANGED size
      \/ \E s \in Sizes : /\ Len(resizes) < MaxResizes /\ resizes' = Append(resizes, s)
                          /\ size' = s /\ UNCHANGED ptySize
  <2>. USE DEF SpawnRest, ReaderRest, WriterRest, ResizerRest, WaiterRest, ShellRest, TabRest, sizeVars
  <2>1. CASE Spawn
    BY <2>1 DEF Spawn, StartReader, StartRest, SpawnFails, Announce
  <2>2. CASE Threads
    BY <2>2 DEF Threads, Read, SendOutput, TakeInput, WriteEnds, ApplySize, Wait, ReportExit, ReportEnd
  <2>3. CASE ShellStep
    BY <2>3 DEF ShellStep, Write, Exit, Release
  <2>4. CASE Interface
    BY <2>4 DEF Interface, Receive, Disconnect, Leave, CloseReceiver, SendInput, Resize
  <2>5. CASE UNCHANGED vars
    BY <2>5 DEF vars
  <2>. QED BY <2>1, <2>2, <2>3, <2>4, <2>5 DEF Next
<1>2. resizes \in Seq(Sizes) /\ Len(resizes) \in Nat /\ (resizes # <<>> => Len(resizes) # 0)
  <2>1. resizes \in Seq(Sizes)
    BY DEF SizeTypes
  <2>. QED BY <2>1, EmptySeq, LenProperties
<1>3. CASE UNCHANGED sizeVars
  BY <1>3 DEF SizeTypes, SizeIsOnItsWay, sizeVars
<1>4. CASE resizes # <<>> /\ ptySize' = Last(resizes) /\ resizes' = <<>> /\ UNCHANGED size
  <2>1. Last(resizes) \in Sizes
    BY <1>2, <1>4, ElementOfSeq DEF Last
  <2>2. Len(resizes') <= MaxResizes /\ resizes' \in Seq(Sizes)
    BY <1>4, ConstantsAssumption, EmptySeq
  <2>. QED BY <1>4, <2>1, <2>2 DEF SizeTypes, SizeIsOnItsWay
<1>5. ASSUME NEW s \in Sizes, Len(resizes) < MaxResizes, resizes' = Append(resizes, s),
             size' = s, UNCHANGED ptySize
      PROVE  SizeTypes' /\ SizeIsOnItsWay'
  <2>1. /\ resizes' \in Seq(Sizes) /\ Len(resizes') = Len(resizes) + 1
        /\ resizes'[Len(resizes) + 1] = s /\ resizes' # <<>>
    BY <1>2, <1>5, AppendProperties
  <2>2. Len(resizes') <= MaxResizes
    BY <1>2, <1>5, <2>1, ConstantsAssumption
  <2>. QED BY <1>5, <2>1, <2>2 DEF SizeTypes, SizeIsOnItsWay, Last
<1>. QED BY <1>1, <1>3, <1>4, <1>5

LEMMA OtherKeeps == OtherTypes /\ [Next]_vars => OtherTypes'
<1>. SUFFICES ASSUME OtherTypes, [Next]_vars PROVE OtherTypes'
  OBVIOUS
<1>. USE DEF OtherTypes, SpawnRest, ReaderRest, WriterRest, ResizerRest, WaiterRest, ShellRest, TabRest,
             threadVars, shellVars, tabVars
<1>1. CASE Spawn
  BY <1>1 DEF Spawn, StartReader, StartRest, SpawnFails, Announce, Send
<1>2. CASE Read \/ SendOutput
  BY <1>2, ConstantsAssumption DEF Read, SendOutput
<1>3. CASE TakeInput \/ WriteEnds
  BY <1>3, ConstantsAssumption DEF TakeInput, WriteEnds
<1>4. CASE ApplySize \/ Wait \/ ReportExit \/ ReportEnd
  BY <1>4 DEF ApplySize, Wait, ReportExit, ReportEnd
<1>5. CASE ShellStep
  BY <1>5, ConstantsAssumption DEF ShellStep, Write, Exit, Release
<1>6. CASE Receive \/ Disconnect \/ Leave \/ CloseReceiver \/ \E s \in Sizes : Resize(s)
  BY <1>6 DEF Receive, Apply, Disconnect, Leave, CloseReceiver, Resize
<1>7. CASE SendInput
  BY <1>7, ConstantsAssumption DEF SendInput
<1>8. CASE UNCHANGED vars
  BY <1>8 DEF vars
<1>. QED BY <1>1, <1>2, <1>3, <1>4, <1>5, <1>6, <1>7, <1>8 DEF Next, Threads, Interface

LEMMA InitTypes == Init => TypeOK /\ ExitIsOnItsWay /\ SizeIsOnItsWay
<1>. SUFFICES ASSUME Init PROVE TypeOK /\ ExitIsOnItsWay /\ SizeIsOnItsWay
  OBVIOUS
<1>1. QueueTypes
  BY EmptySeq, ConstantsAssumption DEF Init, QueueTypes
<1>2. SizeTypes
  BY EmptySeq, ConstantsAssumption DEF Init, SizeTypes
<1>3. OtherTypes
  BY ConstantsAssumption DEF Init, OtherTypes
<1>. QED BY <1>1, <1>2, <1>3, Types DEF Init, ExitIsOnItsWay, SizeIsOnItsWay

-----------------------------------------------------------------------------
(* The theorems.                                                           *)

(* The inductive invariant of a local shell (spawn_local_shell and its     *)
(* threads), for any capacities and sizes.                                 *)
THEOREM Invariance == Spec => []IInv
<1>1. Init => IInv
  <2>1. Init => ToldByThreads /\ HandleOfTab
    BY DEF Init, ToldByThreads, HandleOfTab, Free
  <2>. QED BY <2>1, InitTypes DEF IInv
<1>2. IInv /\ [Next]_vars => IInv'
  <2>. SUFFICES ASSUME IInv, [Next]_vars PROVE IInv'
    OBVIOUS
  <2>1. QueueTypes /\ SizeTypes /\ OtherTypes
    BY Types DEF IInv
  <2>2. QueueTypes' /\ ExitIsOnItsWay' /\ SizeTypes' /\ SizeIsOnItsWay' /\ OtherTypes'
    BY <2>1, QueueKeeps, SizeKeeps, OtherKeeps DEF IInv
  <2>. QED BY <2>2, Types, ToldStep, HandleStep DEF IInv
<1>. QED BY <1>1, <1>2, PTL DEF Spec

\* What waits for the tab and for the terminal: the exit, once the waiter has
\* told it, and a size the terminal does not have.
ExitWaits ==
  waiter \in {"last", "done"} =>
    (\E i \in DOMAIN events : events[i] = "Exited") \/ handle = "dropped" \/ ~open
SizeWaits == ptySize # size => resizes # <<>> /\ Last(resizes) = size

\* The exit of a shell and its last size cannot get lost before they are taken:
\* the safe half of ExitReachesTheTab and LastSizeReachesTheTerminal.
THEOREM NothingGetsLost == Spec => [](ExitWaits /\ SizeWaits)
<1>1. IInv => ExitWaits /\ SizeWaits
  BY DEF IInv, ToldByThreads, ExitIsOnItsWay, SizeIsOnItsWay, ExitWaits, SizeWaits
<1>. QED BY <1>1, Invariance, PTL

\* A step that tells an event tells one that may follow.
LEMMA TellStep == ToldByThreads /\ [Next]_vars => [Local!Tell]_<<told, last>>
<1> SUFFICES ASSUME ToldByThreads, [Next]_vars PROVE [Local!Tell]_<<told, last>>
  OBVIOUS
<1> USE DEF ToldByThreads, Local!Tell, Local!MayFollow, Local!Events,
        SpawnRest, ReaderRest, WriterRest, ResizerRest, WaiterRest, ShellRest, TabRest,
        threadVars, shellVars, queueVars, sizeVars, tabVars, Free
<1>1. CASE StartReader
  BY <1>1 DEF StartReader
<1>2. CASE StartRest
  BY <1>2 DEF StartRest
<1>3. CASE SpawnFails
  BY <1>3 DEF SpawnFails
<1>4. CASE Announce
  BY <1>4 DEF Announce, Send
<1>5. CASE Read
  BY <1>5 DEF Read
<1>6. CASE SendOutput
  BY <1>6 DEF SendOutput, Send
<1>7. CASE TakeInput
  BY <1>7 DEF TakeInput
<1>8. CASE WriteEnds
  BY <1>8 DEF WriteEnds
<1>9. CASE ApplySize
  BY <1>9 DEF ApplySize
<1>10. CASE Wait
  BY <1>10 DEF Wait
<1>11. CASE ReportExit
  BY <1>11 DEF ReportExit, Send, SendOrIgnore
<1>12. CASE ReportEnd
  BY <1>12 DEF ReportEnd, Send, SendOrIgnore
<1>13. CASE Write
  BY <1>13 DEF Write
<1>14. CASE Exit
  BY <1>14 DEF Exit
<1>15. CASE Release
  BY <1>15 DEF Release
<1>16. CASE Receive
  BY <1>16 DEF Receive, Apply
<1>17. CASE Disconnect
  BY <1>17 DEF Disconnect
<1>18. CASE Leave
  BY <1>18 DEF Leave
<1>19. CASE CloseReceiver
  BY <1>19 DEF CloseReceiver
<1>20. CASE SendInput
  BY <1>20 DEF SendInput
<1>21. CASE \E s \in Sizes : Resize(s)
  BY <1>21 DEF Resize
<1>22. CASE UNCHANGED vars
  BY <1>22 DEF vars
<1>23. QED
  BY <1>1, <1>2, <1>3, <1>4, <1>5, <1>6, <1>7, <1>8, <1>9, <1>10, <1>11, <1>12, <1>13, <1>14, <1>15, <1>16, <1>17, <1>18, <1>19, <1>20, <1>21, <1>22
     DEF Next, Spawn, Threads, ShellStep, Interface

\* The threads implement LocalProtocol (spawn_local_shell).
THEOREM Refinement == Spec => ImplementsLocalProtocol
<1>1. Init => Local!Init
  BY DEF Init, Local!Init
<1>2. IInv /\ [Next]_vars => [Local!Tell]_<<told, last>>
  BY TellStep DEF IInv
<1>3. QED
  BY <1>1, <1>2, Invariance, PTL DEF Spec, ImplementsLocalProtocol, Local!Spec

\* What a tab that shows the end of its shell may still become.
LEMMA EndedStep == HandleOfTab /\ [Next]_vars => [EndedTab]_vars
<1> SUFFICES ASSUME HandleOfTab, [Next]_vars PROVE EndedTab
  OBVIOUS
<1> USE DEF HandleOfTab, EndedTab,
        SpawnRest, ReaderRest, WriterRest, ResizerRest, WaiterRest, ShellRest, TabRest,
        threadVars, shellVars, queueVars, sizeVars, tabVars, Free
<1>1. CASE StartReader
  BY <1>1 DEF StartReader
<1>2. CASE StartRest
  BY <1>2 DEF StartRest
<1>3. CASE SpawnFails
  BY <1>3 DEF SpawnFails
<1>4. CASE Announce
  BY <1>4 DEF Announce, Send
<1>5. CASE Read
  BY <1>5 DEF Read
<1>6. CASE SendOutput
  BY <1>6 DEF SendOutput, Send
<1>7. CASE TakeInput
  BY <1>7 DEF TakeInput
<1>8. CASE WriteEnds
  BY <1>8 DEF WriteEnds
<1>9. CASE ApplySize
  BY <1>9 DEF ApplySize
<1>10. CASE Wait
  BY <1>10 DEF Wait
<1>11. CASE ReportExit
  BY <1>11 DEF ReportExit, Send, SendOrIgnore
<1>12. CASE ReportEnd
  BY <1>12 DEF ReportEnd, Send, SendOrIgnore
<1>13. CASE Write
  BY <1>13 DEF Write
<1>14. CASE Exit
  BY <1>14 DEF Exit
<1>15. CASE Release
  BY <1>15 DEF Release
<1>16. CASE Receive
  BY <1>16 DEF Receive, Apply
<1>17. CASE Disconnect
  BY <1>17 DEF Disconnect
<1>18. CASE Leave
  BY <1>18 DEF Leave
<1>19. CASE CloseReceiver
  BY <1>19 DEF CloseReceiver
<1>20. CASE SendInput
  BY <1>20 DEF SendInput
<1>21. CASE \E s \in Sizes : Resize(s)
  BY <1>21 DEF Resize
<1>22. CASE UNCHANGED vars
  BY <1>22 DEF vars
<1>23. QED
  BY <1>1, <1>2, <1>3, <1>4, <1>5, <1>6, <1>7, <1>8, <1>9, <1>10, <1>11, <1>12, <1>13, <1>14, <1>15, <1>16, <1>17, <1>18, <1>19, <1>20, <1>21, <1>22
     DEF Next, Spawn, Threads, ShellStep, Interface

\* A tab that shows the end of its shell is not revived (Tab::apply_event behind
\* the check of handle_session_event).
THEOREM TabsStayEnded == Spec => EndedTabsStayEnded
<1>1. IInv /\ [Next]_vars => [EndedTab]_vars
  BY EndedStep DEF IInv
<1>2. QED
  BY <1>1, Invariance, PTL DEF Spec, EndedTabsStayEnded
=============================================================================
