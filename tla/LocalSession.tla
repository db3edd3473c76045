---------------------------- MODULE LocalSession ----------------------------
(***************************************************************************)
(* A local shell on a pseudo terminal, oxide-ssh-core/src/local.rs: the    *)
(* four threads that spawn_local_shell starts (reader, writer, resize and  *)
(* waiter), the interface thread that starts them and then announces the   *)
(* shell, the handle, and the tab behind the event pump. The shell, what   *)
(* it leaves running on its terminal, and the terminal are external.       *)
(***************************************************************************)
EXTENDS Naturals, Sequences, SequencesExt

CONSTANTS
  EventCapacity,  \* EVENT_QUEUE_CAPACITY
  InputCapacity,  \* INPUT_QUEUE_CAPACITY
  MaxChunks,      \* bound: chunks of output written to the terminal
  MaxResizes,     \* bound: sizes in the queue of the resize thread
  Sizes,          \* terminal sizes
  InitialSize     \* the size the terminal is opened with

ASSUME ConstantsAssumption ==
  /\ EventCapacity \in Nat \ {0} /\ InputCapacity \in Nat \ {0}
  /\ MaxChunks \in Nat /\ MaxResizes \in Nat /\ InitialSize \in Sizes

VARIABLES
  spawn,    \* where spawn_local_shell is, on the interface thread
  reader, writer, resizer, waiter,  \* where the threads are
  child,    \* has the shell exited?
  slave,    \* does any process hold the terminal of the shell?
  written,  \* output written to the terminal so far
  unread,   \* of it, output the reader has not read
  events,   \* the queue of events
  told,     \* history: the kinds of events put into it
  last,     \* history: the last of them, or "none"
  open,     \* does the receiver of the events still exist?
  input,    \* the number of input messages queued
  resizes,  \* the queue of the resize thread
  size,     \* the size last asked for
  ptySize,  \* the size of the terminal
  handle,   \* the handle: "none" yet, "held", "disconnected" or "dropped"
  tab       \* TabState, or "other": the tab has a new session or is gone

threadVars == <<reader, writer, resizer, waiter>>
shellVars  == <<child, slave, written>>
queueVars  == <<events, told, last>>
sizeVars   == <<resizes, size, ptySize>>
tabVars    == <<handle, tab>>
vars == <<spawn, threadVars, shellVars, unread, queueVars, open, input, sizeVars, tabVars>>

Init ==
  /\ spawn = "reader"
  /\ reader = "none" /\ writer = "none" /\ resizer = "none" /\ waiter = "none"
  /\ child = "running" /\ slave = "held" /\ written = 0 /\ unread = 0
  /\ events = <<>> /\ told = {} /\ last = "none" /\ open = TRUE /\ input = 0
  /\ resizes = <<>> /\ size = InitialSize /\ ptySize = InitialSize
  /\ handle = "none" /\ tab = "Connecting"

-----------------------------------------------------------------------------
(* spawn_local_shell, from the first thread on; before, nothing is left    *)
(* when it fails.                                                          *)

\* send_blocking waits for room and fails without a receiver.
Send(e) ==
  /\ open /\ Len(events) < EventCapacity
  /\ events' = Append(events, e) /\ told' = told \cup {e} /\ last' = e

\* Mutant: what finds no room is dropped.
TrySend(e) == Send(e) \/ ((~open \/ Len(events) = EventCapacity) /\ UNCHANGED queueVars)

SendOrIgnore(e) == Send(e) \/ (~open /\ UNCHANGED queueVars)

SpawnRest == <<shellVars, unread, input, sizeVars>>

StartReader ==
  /\ spawn = "reader" /\ spawn' = "rest" /\ reader' = "reading"
  /\ UNCHANGED <<writer, resizer, waiter, queueVars, open, tabVars, SpawnRest>>

StartRest ==
  /\ spawn = "rest" /\ spawn' = "announcing"
  /\ writer' = "receiving" /\ resizer' = "receiving" /\ waiter' = "waiting"
  /\ UNCHANGED <<reader, queueVars, open, tabVars, SpawnRest>>

\* A thread cannot be started: everything the call made is dropped, and the tab
\* is told.
SpawnFails ==
  /\ spawn \in {"reader", "rest"} /\ spawn' = "failed"
  /\ open' = FALSE /\ events' = <<>> /\ tab' = "Disconnected"
  /\ UNCHANGED <<threadVars, told, last, handle, SpawnRest>>

\* The shell is announced, and the tab is attached to it.
Announce ==
  /\ spawn = "announcing" /\ Send("Connected")
  /\ spawn' = "returned" /\ handle' = "held"
  /\ UNCHANGED <<threadVars, open, tab, SpawnRest>>

-----------------------------------------------------------------------------
(* The threads.                                                            *)

ReaderRest == <<spawn, writer, resizer, waiter, shellVars, open, input, sizeVars, tabVars>>

Read ==
  /\ reader = "reading" /\ UNCHANGED <<queueVars, ReaderRest>>
  /\ \/ unread > 0 /\ unread' = unread - 1 /\ reader' = "sending"
     \/ unread = 0 /\ slave = "released" /\ reader' = "done" /\ UNCHANGED unread

SendOutput ==
  /\ reader = "sending" /\ UNCHANGED <<unread, ReaderRest>>
  /\ \/ Send("Output") /\ reader' = "reading"
     \/ ~open /\ reader' = "done" /\ UNCHANGED queueVars

WriterRest == <<spawn, reader, resizer, waiter, shellVars, unread, queueVars, open, sizeVars, tabVars>>

\* disconnect(), which dropping the handle calls, has closed the input.
Closed == handle \in {"disconnected", "dropped"}

\* Queued input is taken also after the queue was closed.
TakeInput ==
  /\ writer = "receiving" /\ UNCHANGED WriterRest
  /\ \/ input > 0 /\ input' = input - 1 /\ writer' = "writing"
     \/ input = 0 /\ Closed /\ writer' = "done" /\ UNCHANGED input

\* The terminal takes the input, or fails when nobody holds it.
WriteEnds ==
  /\ writer = "writing" /\ UNCHANGED <<input, WriterRest>>
  /\ writer' = IF slave = "held" THEN "receiving" ELSE "done"

ResizerRest == <<spawn, reader, writer, waiter, shellVars, unread, queueVars, open, input, size, tabVars>>

\* Mutant: the size that woke the thread is applied, the newer ones are drained.
ApplyFirstSize ==
  /\ resizer = "receiving" /\ UNCHANGED ResizerRest
  /\ \/ resizes # <<>> /\ ptySize' = Head(resizes) /\ resizes' = <<>> /\ UNCHANGED resizer
     \/ resizes = <<>> /\ handle = "dropped" /\ resizer' = "done" /\ UNCHANGED <<resizes, ptySize>>

\* The last of the queued sizes is applied.
ApplySize ==
  /\ resizer = "receiving" /\ UNCHANGED ResizerRest
  /\ \/ resizes # <<>> /\ ptySize' = Last(resizes) /\ resizes' = <<>> /\ UNCHANGED resizer
     \/ resizes = <<>> /\ handle = "dropped" /\ resizer' = "done" /\ UNCHANGED <<resizes, ptySize>>

WaiterRest == <<spawn, reader, writer, resizer, shellVars, unread, open, input, sizeVars, tabVars>>

Wait ==
  /\ waiter = "waiting" /\ child = "exited" /\ waiter' = "exit"
  /\ UNCHANGED <<queueVars, WaiterRest>>

\* Mutant: the final state goes first.
ReportInOneGo ==
  /\ waiter = "exit" /\ SendOrIgnore("Disconnected") /\ waiter' = "last" /\ UNCHANGED WaiterRest

ReportExit ==
  waiter = "exit" /\ SendOrIgnore("Exited") /\ waiter' = "last" /\ UNCHANGED WaiterRest

ReportEnd ==
  waiter = "last" /\ SendOrIgnore("Disconnected") /\ waiter' = "done" /\ UNCHANGED WaiterRest

-----------------------------------------------------------------------------
(* The shell and its terminal.                                             *)

\* Mutant: only disconnect() kills the shell, not the drop of the handle.
KilledByDisconnect == handle = "disconnected"

\* disconnect(), which dropping the handle calls, has killed the shell.
Killed == handle \in {"disconnected", "dropped"}

ShellRest == <<spawn, threadVars, queueVars, open, input, sizeVars, tabVars>>

Write ==
  /\ slave = "held" /\ written < MaxChunks
  /\ written' = written + 1 /\ unread' = unread + 1
  /\ UNCHANGED <<child, slave, ShellRest>>

\* The shell exits, by itself or killed; what it started may stay.
Exit ==
  /\ child = "running" /\ child' = "exited" /\ slave' \in {"held", "released"}
  /\ UNCHANGED <<written, unread, ShellRest>>

Release ==
  /\ child = "exited" /\ slave = "held" /\ slave' = "released"
  /\ UNCHANGED <<child, written, unread, ShellRest>>

-----------------------------------------------------------------------------
(* The interface thread, free again when spawn_local_shell has returned.   *)

Free == spawn \in {"returned", "failed"}
TabRest == <<spawn, threadVars, shellVars, unread>>

\* What an event does to a tab that has this session; the end drops the handle.
Apply(e) ==
  /\ tab' = IF e \in {"Exited", "Disconnected"} THEN "Disconnected"
            ELSE IF e = "Connected" THEN "Connected" ELSE tab
  /\ handle' = IF e \in {"Exited", "Disconnected"} THEN "dropped" ELSE handle

\* Mutant: events are not checked against the session of the tab.
ReceiveStale ==
  /\ Free /\ open /\ events # <<>> /\ events' = Tail(events) /\ Apply(Head(events))
  /\ UNCHANGED <<TabRest, told, last, open, input, sizeVars>>

\* The pump takes one event; one of a session the tab no longer has is discarded.
Receive ==
  /\ Free /\ open /\ events # <<>> /\ events' = Tail(events)
  /\ IF handle # "dropped" THEN Apply(Head(events)) ELSE UNCHANGED tabVars
  /\ UNCHANGED <<TabRest, told, last, open, input, sizeVars>>

\* The tab is being closed: disconnect() closes the input and kills the shell.
Disconnect ==
  /\ Free /\ handle = "held" /\ handle' = "disconnected"
  /\ UNCHANGED <<TabRest, queueVars, open, input, sizeVars, tab>>

\* The tab is removed or restarts its shell: the handle is dropped.
Leave ==
  /\ Free /\ handle \in {"held", "disconnected", "dropped"} /\ tab # "other"
  /\ handle' = "dropped" /\ tab' = "other"
  /\ UNCHANGED <<TabRest, queueVars, open, input, sizeVars>>

\* The view goes away with its tabs and receivers.
CloseReceiver ==
  /\ Free /\ open /\ open' = FALSE /\ events' = <<>>
  /\ handle' = "dropped" /\ tab' = "other"
  /\ UNCHANGED <<TabRest, told, last, input, sizeVars>>

\* try_send_input, when there is room; otherwise it changes nothing.
SendInput ==
  /\ Free /\ handle = "held" /\ input < InputCapacity /\ writer # "done"
  /\ input' = input + 1
  /\ UNCHANGED <<TabRest, queueVars, open, sizeVars, tabVars>>

Resize(s) ==
  /\ Free /\ handle \in {"held", "disconnected"} /\ Len(resizes) < MaxResizes
  /\ resizes' = Append(resizes, s) /\ size' = s
  /\ UNCHANGED <<TabRest, queueVars, open, input, ptySize, tabVars>>

-----------------------------------------------------------------------------
Spawn     == StartReader \/ StartRest \/ SpawnFails \/ Announce
Threads   == Read \/ SendOutput \/ TakeInput \/ WriteEnds \/ ApplySize \/ Wait \/ ReportExit \/ ReportEnd
ShellStep == Write \/ Exit \/ Release
Interface ==
  \/ Receive \/ Disconnect \/ Leave \/ CloseReceiver \/ SendInput
  \/ \E s \in Sizes : Resize(s)

Next == Spawn \/ Threads \/ ShellStep \/ Interface

Spec == Init /\ [][Next]_vars

(* Threads that can run do, and the interface drains the queue. A shell    *)
(* that was killed exits, its jobs are hung up with it, and a write fails  *)
(* when nobody holds the terminal; as long as someone does, it may wait.   *)
Fairness ==
  /\ WF_vars(StartReader) /\ WF_vars(StartRest) /\ WF_vars(Announce)
  /\ WF_vars(Read) /\ WF_vars(SendOutput) /\ WF_vars(TakeInput) /\ WF_vars(ApplySize)
  /\ WF_vars(slave = "released" /\ WriteEnds)
  /\ WF_vars(Wait) /\ WF_vars(ReportExit) /\ WF_vars(ReportEnd)
  /\ WF_vars(Killed /\ Exit) /\ WF_vars(Release) /\ WF_vars(Receive)
FairSpec == Spec /\ Fairness

-----------------------------------------------------------------------------
(* Properties.                                                             *)

TypeOK ==
  /\ spawn \in {"reader", "rest", "announcing", "returned", "failed"}
  /\ reader \in {"none", "reading", "sending", "done"}
  /\ writer \in {"none", "receiving", "writing", "done"}
  /\ resizer \in {"none", "receiving", "done"}
  /\ waiter \in {"none", "waiting", "exit", "last", "done"}
  /\ child \in {"running", "exited"} /\ slave \in {"held", "released"}
  /\ written \in 0..MaxChunks /\ unread \in 0..written
  /\ events \in Seq(told) /\ Len(events) <= EventCapacity /\ open \in BOOLEAN
  /\ told \subseteq {"Connected", "Output", "Exited", "Disconnected"} /\ last \in told \cup {"none"}
  /\ input \in 0..InputCapacity
  /\ resizes \in Seq(Sizes) /\ Len(resizes) <= MaxResizes /\ size \in Sizes /\ ptySize \in Sizes
  /\ handle \in {"none", "held", "disconnected", "dropped"}
  /\ tab \in {"Connecting", "Connected", "Disconnected", "other"}

Local == INSTANCE LocalProtocol

(* The threads of a local shell keep the order of LocalProtocol: the exit  *)
(* before the final state, everything but output once.                     *)
ImplementsLocalProtocol == Local!Spec

(* A tab that shows the end of its shell is not revived by what the other  *)
(* threads still had to say, the announcement of the shell included.       *)
EndedTab == tab = "Disconnected" => tab' \in {"Disconnected", "other"}
EndedTabsStayEnded == [][EndedTab]_vars

(* The tab of a shell that exits learns of it, however full the queue is.  *)
ExitReachesTheTab ==
  (child = "exited" /\ spawn = "returned") ~> tab \in {"Disconnected", "other"}

(* The terminal gets the size that was asked for last, whatever the resize *)
(* thread skips.                                                           *)
LastSizeReachesTheTerminal == (ptySize # size) ~> (ptySize = size \/ resizer = "done")

(* Dropping the handle ends the shell and, with its terminal, all threads. *)
NothingIsLeftBehind ==
  (handle = "dropped") ~>
    (child = "exited" /\ reader = "done" /\ writer = "done" /\ resizer = "done" /\ waiter = "done")

-----------------------------------------------------------------------------
(* The inductive invariant: which thread has said what, that a tab which   *)
(* shows the end of its shell listens to it no longer, and that nothing    *)
(* gets lost on the way: neither the exit nor the last size.               *)

ToldByThreads ==
  /\ told \subseteq Local!Events
  /\ spawn \in {"reader", "rest"} => waiter = "none"
  /\ "Connected" \in told => spawn = "returned"
  /\ "Exited" \in told => waiter \in {"last", "done"}
  /\ "Disconnected" \in told => waiter = "done" /\ "Exited" \in told
  /\ waiter \in {"last", "done"} => "Exited" \in told \/ ~open

HandleOfTab ==
  /\ ~Free => handle = "none" /\ tab = "Connecting"
  /\ tab = "Disconnected" => handle = "dropped" \/ ~open

\* The exit is in the queue until the tab has it or has no interest in it.
ExitIsOnItsWay ==
  "Exited" \in told => (\E i \in DOMAIN events : events[i] = "Exited") \/ handle = "dropped" \/ ~open

\* What the resize thread will apply last is the size that was asked for last.
SizeIsOnItsWay == size = IF resizes = <<>> THEN ptySize ELSE Last(resizes)

IInv == TypeOK /\ ToldByThreads /\ HandleOfTab /\ ExitIsOnItsWay /\ SizeIsOnItsWay
=============================================================================
