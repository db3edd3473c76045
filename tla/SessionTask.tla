---------------------------- MODULE SessionTask ----------------------------
(***************************************************************************)
(* One SSH session in oxide-ssh-core/src/session.rs: the task that         *)
(* SshService::connect spawns (run_session, authenticate and the report at *)
(* the end), its bounded queues, the SessionHandle that the tab holds with *)
(* its grace period, and the tab as the receiver of the events.            *)
(*                                                                         *)
(* A step ends where the task awaits. What the server, the agent and the   *)
(* coordinator of host keys (module HostTrust) answer is arbitrary; the    *)
(* timer of the handshake, described there, may fire at any time.          *)
(***************************************************************************)
EXTENDS Naturals, Sequences

CONSTANTS
  EventCapacity,  \* EVENT_QUEUE_CAPACITY
  InputCapacity,  \* INPUT_QUEUE_CAPACITY
  MaxIdentities,  \* bound: identities of an SSH agent
  Sizes,          \* terminal sizes
  InitialSize,    \* ConnectRequest.initial_size
  None

ASSUME ConstantsAssumption ==
  /\ EventCapacity \in Nat \ {0} /\ InputCapacity \in Nat \ {0}
  /\ MaxIdentities \in Nat
  /\ InitialSize \in Sizes /\ None \notin Sizes

VARIABLES
  pc,         \* where the task is
  verify,     \* where the verification of the host key is, in the handshake
  verdict,    \* the outcome of the prompt it waits for
  auth,       \* the profile's method and whether a secret came with the request
  identities, \* identities of the agent still to be tried
  result,     \* what run_session returned
  exitStatus, \* has the server sent an exit status?
  events,     \* the queue of events
  told,       \* history: the kinds of events put into it
  last,       \* history: the last of them, or "none"
  seen,       \* history: the kinds of events the tab has received
  open,       \* does the receiver of the events still exist?
  input,      \* the number of input messages queued
  size,       \* the watch channel of the terminal size
  resized,    \* does it hold a size the task has not seen?
  ptySize,    \* the size last passed to the server
  cancelled,  \* has the handle been disconnected or dropped?
  grace       \* is the timer of the grace period armed?

queueVars  == <<events, told, last>>
tabVars    == <<seen, open>>
verifyVars == <<verify, verdict>>
authVars   == <<auth, identities>>
sizeVars   == <<size, resized, ptySize>>
endVars    == <<cancelled, grace>>
vars == <<pc, verifyVars, authVars, result, exitStatus, queueVars, tabVars, input, sizeVars, endVars>>

Final   == {"done", "aborted"}
Running == {"connecting", "handshake", "toAuthenticate", "authenticating", "trying", "toShell",
            "openingShell", "toConnected", "loop", "writing", "output", "closing"}

HandshakeErrors == {"InvalidProfile", "ConnectTimeout", "ConnectFailed", "HostKeyRejected",
                    "HostKeyChanged", "HostKeyStoreFailed"}
AuthErrors  == {"ConnectFailed", "CredentialUnavailable", "PrivateKeyUnreadable",
                "PassphraseRequired", "PassphraseRejected", "AgentUnavailable", "AgentEmpty",
                "AuthenticationRejected"}
\* Mutant: a channel that cannot be opened counts as a disconnection.
ShellDisconnects == {"Disconnected", "PtyRejected", "ShellRejected"}
ShellErrors == {"ConnectFailed", "PtyRejected", "ShellRejected"}
Results     == {"exit", "Disconnected"} \cup HandshakeErrors \cup AuthErrors \cup ShellErrors

Init ==
  /\ pc = "connecting" /\ verify = "none" /\ verdict = "Waiting"
  /\ auth \in [method : {"password", "key", "agent"}, secret : BOOLEAN] /\ identities = 0
  /\ result = None /\ exitStatus = FALSE
  /\ events = <<>> /\ told = {} /\ last = "none" /\ seen = {} /\ open = TRUE
  /\ input = 0 /\ size = InitialSize /\ resized = FALSE /\ ptySize = None
  /\ cancelled = FALSE /\ grace = FALSE

-----------------------------------------------------------------------------
(* Sending events and ending run_session.                                  *)

Send(e) ==
  /\ open /\ Len(events) < EventCapacity
  /\ events' = Append(events, e) /\ told' = told \cup {e} /\ last' = e

\* `let _ = events.send(e).await`
SendOrIgnore(e) == Send(e) \/ (~open /\ UNCHANGED queueVars)

\* `let _ = sender.try_send(e)`
TrySend(e) ==
  IF open /\ Len(events) < EventCapacity THEN Send(e) ELSE UNCHANGED queueVars

\* run_session returns r; only a disconnection goes without a report.
End(r) ==
  /\ result' = r
  /\ pc' = IF r = "Disconnected" THEN "last" ELSE "report"

\* `events.send(e).await.map_err(|_| Disconnected)?`, then the task goes on at next.
SendAndGo(at, e, next) ==
  /\ pc = at
  /\ \/ Send(e) /\ pc' = next /\ UNCHANGED result
     \/ ~open /\ End("Disconnected") /\ UNCHANGED queueVars
  /\ UNCHANGED <<verifyVars, authVars, exitStatus, tabVars, input, sizeVars, endVars>>

-----------------------------------------------------------------------------
(* The handshake: run_session up to authenticate, with the handler's       *)
(* check_server_key inside the connect future.                             *)

Begin ==
  /\ pc = "connecting" /\ pc' = "handshake" /\ SendOrIgnore("Connecting")
  /\ UNCHANGED <<verifyVars, authVars, result, exitStatus, tabVars, input, sizeVars, endVars>>

InHandshake == pc = "handshake"
HandshakeRest == <<authVars, exitStatus, tabVars, input, sizeVars, endVars>>

\* The connect future, or its timer, ends the session.
FailHandshake(r) ==
  /\ End(r) /\ verify' = "over"
  /\ UNCHANGED <<verdict, HandshakeRest>>

\* The deadline of run_session.
Timeout == InHandshake /\ FailHandshake("ConnectTimeout") /\ UNCHANGED queueVars

\* The endpoint is not valid, there is no connection or it breaks, or the key
\* presented cannot be written down.
ConnectFails ==
  /\ InHandshake /\ verify \in {"none", "looking", "trusted"} /\ UNCHANGED queueVars
  /\ \/ FailHandshake("ConnectFailed")
     \/ verify = "none" /\ FailHandshake("InvalidProfile")

\* The verification goes on to another step of its own.
VerifyAt(step) == verify' = step /\ UNCHANGED <<pc, verdict, result, HandshakeRest>>

\* The server presents its key: check_server_key is called.
PresentKey == InHandshake /\ verify = "none" /\ VerifyAt("announcing") /\ UNCHANGED queueVars

AnnounceVerification ==
  /\ InHandshake /\ verify = "announcing"
  /\ \/ Send("VerifyingHostKey") /\ VerifyAt("looking")
     \/ ~open /\ FailHandshake("Disconnected") /\ UNCHANGED queueVars

\* verify: the stored key, an open prompt and the key presented decide.
LookUp ==
  /\ InHandshake /\ verify = "looking"
  /\ \/ \E step \in {"trusted", "changed", "prompting", "deciding"} : VerifyAt(step) /\ UNCHANGED queueVars
     \/ FailHandshake("HostKeyStoreFailed") /\ UNCHANGED queueVars
     \/ FailHandshake("HostKeyChanged") /\ TrySend("ChangedHostKey")

\* Another key is stored for the endpoint.
ReportChangedKey ==
  InHandshake /\ verify = "changed" /\ SendOrIgnore("ChangedHostKey") /\ FailHandshake("HostKeyChanged")

\* The owner of a prompt asks; without a receiver it rejects its own prompt.
Prompt ==
  /\ InHandshake /\ verify = "prompting"
  /\ \/ Send("UnknownHostKey") /\ VerifyAt("deciding")
     \/ ~open /\ FailHandshake("Disconnected") /\ UNCHANGED queueVars

\* The prompt is settled by the user, by another attempt's verification, or by
\* a conflict, which tells everyone who waits if there is room.
SettlePrompt(outcome) ==
  /\ InHandshake /\ verify \in {"prompting", "deciding"} /\ verdict = "Waiting"
  /\ verdict' = outcome
  /\ IF outcome = "Conflict" THEN TrySend("ChangedHostKey") ELSE UNCHANGED queueVars
  /\ UNCHANGED <<pc, verify, result, HandshakeRest>>

\* Mutant: only a rejection is told from an acceptance.
ReadVerdictUnlessRejected ==
  /\ InHandshake /\ verify = "deciding" /\ UNCHANGED queueVars
  /\ \/ verdict \in {"Accepted", "Conflict"} /\ VerifyAt("trusted")
     \/ verdict = "Rejected" /\ FailHandshake("HostKeyRejected")
     \/ cancelled /\ FailHandshake("Disconnected")

\* The wait for the outcome of the prompt.
ReadVerdict ==
  /\ InHandshake /\ verify = "deciding" /\ UNCHANGED queueVars
  /\ \/ verdict = "Accepted" /\ VerifyAt("trusted")
     \/ verdict = "Rejected" /\ FailHandshake("HostKeyRejected")
     \/ verdict = "Conflict" /\ FailHandshake("HostKeyChanged")
     \/ cancelled /\ FailHandshake("Disconnected")

\* The handshake is over; the timer no longer runs.
HandshakeDone ==
  /\ InHandshake /\ verify = "trusted"
  /\ pc' = "toAuthenticate" /\ verify' = "over"
  /\ UNCHANGED <<verdict, result, queueVars, HandshakeRest>>

AnnounceAuthentication == SendAndGo("toAuthenticate", "Authenticating", "authenticating")

-----------------------------------------------------------------------------
(* authenticate.                                                           *)

AuthRest == <<verifyVars, auth, exitStatus, queueVars, tabVars, input, sizeVars, endVars>>

\* What a password or a key may end with.
AuthFailures ==
  IF auth.method = "password"
  THEN IF auth.secret THEN {"ConnectFailed", "AuthenticationRejected"} ELSE {"CredentialUnavailable"}
  ELSE {"PrivateKeyUnreadable", "ConnectFailed", "AuthenticationRejected",
        IF auth.secret THEN "PassphraseRejected" ELSE "PassphraseRequired"}

Authenticate ==
  /\ pc = "authenticating" /\ auth.method # "agent" /\ UNCHANGED <<identities, AuthRest>>
  /\ \/ \E e \in AuthFailures : End(e)
     \/ auth # [method |-> "password", secret |-> FALSE] /\ pc' = "toShell" /\ UNCHANGED result

\* The agent lists its identities.
ListIdentities ==
  /\ pc = "authenticating" /\ auth.method = "agent" /\ UNCHANGED AuthRest
  /\ \/ End("AgentUnavailable") /\ UNCHANGED identities
     \/ End("AgentEmpty") /\ UNCHANGED identities
     \/ identities' \in 1..MaxIdentities /\ pc' = "trying" /\ UNCHANGED result

\* One identity after the other, until one is accepted.
TryIdentity ==
  /\ pc = "trying" /\ UNCHANGED AuthRest
  /\ identities > 0 /\ identities' = identities - 1
  /\ \/ pc' = "toShell" /\ UNCHANGED result
     \/ identities > 1 /\ UNCHANGED <<pc, result>>
     \/ identities = 1 /\ End("AuthenticationRejected")
     \/ \E e \in {"ConnectFailed", "AgentUnavailable"} : End(e)

AnnounceShell == SendAndGo("toShell", "OpeningShell", "openingShell")

-----------------------------------------------------------------------------
(* The shell.                                                              *)

LoopRest == <<verifyVars, authVars, tabVars, endVars>>

\* Mutant: opening the shell counts the size as seen.
OpenShellAndMarkSeen ==
  /\ pc = "openingShell" /\ resized' = FALSE
  /\ \/ pc' = "toConnected" /\ ptySize' = InitialSize /\ UNCHANGED result
     \/ \E e \in ShellErrors : End(e) /\ UNCHANGED ptySize
  /\ UNCHANGED <<exitStatus, queueVars, input, size, LoopRest>>

\* The channel, the terminal with the size of the request, and the shell.
OpenShell ==
  /\ pc = "openingShell"
  /\ \/ pc' = "toConnected" /\ ptySize' = InitialSize /\ UNCHANGED result
     \/ \E e \in ShellErrors : End(e) /\ UNCHANGED ptySize
  /\ UNCHANGED <<exitStatus, queueVars, input, size, resized, LoopRest>>

AnnounceConnected == SendAndGo("toConnected", "Connected", "loop")

\* The branches of the loop's select!, in any order.
LoopCancelled ==
  /\ pc = "loop" /\ cancelled /\ pc' = "closing"
  /\ UNCHANGED <<result, exitStatus, queueVars, input, sizeVars, LoopRest>>

\* Queued input is taken also after the queue was closed; when it is closed and
\* empty, the loop ends.
LoopInput ==
  /\ pc = "loop"
  /\ \/ input > 0 /\ input' = input - 1 /\ pc' = "writing" /\ UNCHANGED result
     \/ input = 0 /\ cancelled /\ End("Disconnected") /\ UNCHANGED input
  /\ UNCHANGED <<exitStatus, queueVars, sizeVars, LoopRest>>

\* A new size, or the end of its channel with the handle.
LoopResize ==
  /\ pc = "loop"
  /\ \/ resized /\ resized' = FALSE /\ ptySize' = size /\ pc' = "writing" /\ UNCHANGED result
     \/ ~resized /\ cancelled /\ End("Disconnected") /\ UNCHANGED <<resized, ptySize>>
  /\ UNCHANGED <<exitStatus, queueVars, input, size, LoopRest>>

LoopData ==
  /\ pc = "loop" /\ pc' = "output"
  /\ UNCHANGED <<result, exitStatus, queueVars, input, sizeVars, LoopRest>>

LoopExitStatus ==
  /\ pc = "loop" /\ exitStatus' = TRUE
  /\ UNCHANGED <<pc, result, queueVars, input, sizeVars, LoopRest>>

\* Eof, Close, or the end of the channel.
LoopClosed ==
  /\ pc = "loop" /\ End("exit")
  /\ UNCHANGED <<exitStatus, queueVars, input, sizeVars, LoopRest>>

\* The channel takes the input or the size, or fails.
WriteEnds ==
  /\ pc = "writing"
  /\ (pc' = "loop" /\ UNCHANGED result) \/ End("Disconnected")
  /\ UNCHANGED <<exitStatus, queueVars, input, sizeVars, LoopRest>>

SendOutput == SendAndGo("output", "Output", "loop")

\* The channel and the connection are closed.
CloseChannel ==
  /\ pc = "closing" /\ End("Disconnected")
  /\ UNCHANGED <<exitStatus, queueVars, input, sizeVars, LoopRest>>

-----------------------------------------------------------------------------
(* The end of the task.                                                    *)

ReportRest == <<result, exitStatus, input, sizeVars, LoopRest>>

Report ==
  /\ pc = "report" /\ pc' = "last" /\ UNCHANGED ReportRest
  /\ SendOrIgnore(IF result = "exit" THEN "Exited" ELSE "Error")

Finish == pc = "last" /\ pc' = "done" /\ SendOrIgnore("Disconnected") /\ UNCHANGED ReportRest

\* Two seconds after disconnect(), the task is aborted where it awaits.
GraceOver ==
  /\ grace /\ grace' = FALSE
  /\ pc' = IF pc \in Final THEN pc ELSE "aborted"
  /\ UNCHANGED <<verifyVars, authVars, result, exitStatus, queueVars, tabVars, input, sizeVars, cancelled>>

-----------------------------------------------------------------------------
(* The handle and the receiver, used on the interface thread.              *)

TaskRest == <<pc, verifyVars, authVars, result, exitStatus>>

\* Mutant: nobody watches over the cancelled task.
CancelWithoutGrace == cancelled' = TRUE /\ UNCHANGED grace

\* disconnect() acts once.
Cancel ==
  /\ cancelled' = TRUE
  /\ grace' = (grace \/ ~cancelled)

\* A tab disconnects its session, or drops the handle, for reasons of its own.
Disconnect ==
  /\ ~cancelled /\ Cancel
  /\ UNCHANGED <<TaskRest, queueVars, tabVars, input, sizeVars>>

\* The events on which the tab drops its handle.
DropsHandle == {"ChangedHostKey", "Exited", "Error", "Disconnected"}

Receive ==
  /\ open /\ events # <<>>
  /\ events' = Tail(events) /\ seen' = seen \cup {Head(events)}
  /\ IF Head(events) \in DropsHandle THEN Cancel ELSE UNCHANGED endVars
  /\ UNCHANGED <<TaskRest, told, last, open, input, sizeVars>>

\* The view goes away with its tabs, handles and receivers.
CloseReceiver ==
  /\ open /\ open' = FALSE /\ events' = <<>> /\ Cancel
  /\ UNCHANGED <<TaskRest, told, last, seen, input, sizeVars>>

\* try_send_input, when there is room; otherwise it changes nothing.
SendInput ==
  /\ ~cancelled /\ pc \in Running /\ input < InputCapacity
  /\ input' = input + 1
  /\ UNCHANGED <<TaskRest, queueVars, tabVars, sizeVars, endVars>>

\* As long as the tab has its handle, also after it has disconnected.
Resize(s) ==
  /\ open /\ seen \cap DropsHandle = {}
  /\ size' = s /\ resized' = TRUE
  /\ UNCHANGED <<TaskRest, queueVars, tabVars, input, ptySize, endVars>>

-----------------------------------------------------------------------------
Handshake ==
  \/ Begin \/ Timeout \/ ConnectFails \/ PresentKey \/ AnnounceVerification \/ LookUp
  \/ ReportChangedKey \/ Prompt \/ ReadVerdict \/ HandshakeDone \/ AnnounceAuthentication
  \/ \E o \in {"Accepted", "Rejected", "Conflict"} : SettlePrompt(o)
Login == Authenticate \/ ListIdentities \/ TryIdentity \/ AnnounceShell
Shell ==
  \/ OpenShell \/ AnnounceConnected
  \/ LoopCancelled \/ LoopInput \/ LoopResize \/ LoopData \/ LoopExitStatus \/ LoopClosed
  \/ WriteEnds \/ SendOutput \/ CloseChannel
Ending == Report \/ Finish \/ GraceOver
Interface ==
  \/ Disconnect \/ Receive \/ CloseReceiver \/ SendInput
  \/ \E s \in Sizes : Resize(s)

Next == Handshake \/ Login \/ Shell \/ Ending \/ Interface

Spec == Init /\ [][Next]_vars

(* The timer of the grace period fires, whatever else happens.             *)
GraceSpec == Spec /\ WF_vars(GraceOver)

(* The interface drains the queue, the runtime resumes a task that can     *)
(* send, select! polls its branches in random order, so that a branch that *)
(* is ready again and again is taken, and the server takes what is written *)
(* to it or its connection fails.                                          *)
Fairness ==
  /\ WF_vars(Receive) /\ WF_vars(WriteEnds)
  /\ WF_vars(SendOutput) /\ WF_vars(Report) /\ WF_vars(Finish)
  /\ SF_vars(LoopResize)

-----------------------------------------------------------------------------
(* Properties.                                                             *)

Protocol == INSTANCE SessionProtocol

TypeOK ==
  /\ pc \in Running \cup Final \cup {"report", "last"}
  /\ verify \in {"none", "announcing", "looking", "changed", "prompting", "deciding", "trusted", "over"}
  /\ verdict \in {"Waiting", "Accepted", "Rejected", "Conflict"}
  /\ auth \in [method : {"password", "key", "agent"}, secret : BOOLEAN]
  /\ identities \in 0..MaxIdentities
  /\ result \in Results \cup {None} /\ exitStatus \in BOOLEAN
  /\ told \subseteq Protocol!Events /\ events \in Seq(told) /\ Len(events) <= EventCapacity
  /\ last \in told \cup {"none"} /\ seen \subseteq told /\ open \in BOOLEAN
  /\ input \in 0..InputCapacity
  /\ size \in Sizes /\ resized \in BOOLEAN /\ ptySize \in Sizes \cup {None}
  /\ cancelled \in BOOLEAN /\ grace \in BOOLEAN

(* The events of a session come in the order its receiver relies on.       *)
FollowsTheProtocol == Protocol!Spec

\* A task that was not aborted announces its end as long as anyone listens, and
\* no task is aborted but a disconnected one.
EndIsAnnounced ==
  /\ pc = "done" /\ open => "Disconnected" \in told
  /\ pc = "aborted" => cancelled

\* A session that ends before it had a shell says why, unless the tab itself has
\* given it up.
FailuresAreExplained ==
  "Disconnected" \in told /\ told \cap {"Connected", "Error"} = {} => cancelled

(* No session ends in silence: its task announces the end to a tab that    *)
(* listens, and a session that never had a shell says what went wrong.     *)
EndsAreExplained == EndIsAnnounced /\ FailuresAreExplained

\* A session that is disconnected ends, whatever it waits for: the user, the
\* server, or room in a queue nobody empties.
CancelledSessionEnds == cancelled ~> pc \in Final

\* A tab that has not given up its session learns that it is over.
EndReachesTheTab ==
  Fairness => ((result # None) ~> (cancelled \/ seen \cap {"Exited", "Error", "Disconnected"} # {}))

(* No session stays for ever on either side: one that its tab has given up *)
(* ends, and one that has ended is reported to its tab, through queues     *)
(* that may be full.                                                       *)
EndsGoThrough == CancelledSessionEnds /\ EndReachesTheTab

(* The server gets the last size, also one set while the shell was being   *)
(* opened with the first one.                                              *)
LastSizeReachesTheServer ==
  Fairness => (("Connected" \in told /\ ptySize # size) ~> (ptySize = size \/ pc \notin Running))

-----------------------------------------------------------------------------
(* The inductive invariant: which events have been sent where the task is. *)

InShell == {"loop", "writing", "output", "closing"}
BeyondHandshake ==
  {"toAuthenticate", "authenticating", "trying", "toShell", "openingShell", "toConnected"} \cup InShell

\* The highest rank of an event sent so far.
Reached ==
  [connecting |-> 0, handshake |-> 3, toAuthenticate |-> 3, authenticating |-> 4, trying |-> 4,
   toShell |-> 4, openingShell |-> 5, toConnected |-> 5, loop |-> 7, writing |-> 7, output |-> 7,
   closing |-> 7, report |-> 7, last |-> 8, done |-> 9, aborted |-> 9]

ToldSoFar == \A e \in told : Protocol!Rank[e] <= Reached[pc]

\* In the handshake a changed key is told only with the verdict of a conflict.
ToldInHandshake ==
  /\ pc = "connecting" => verify = "none"
  /\ pc = "handshake" =>
       /\ verify # "over"
       /\ verify \in {"none", "announcing"} => told \subseteq {"Connecting"}
       /\ verify \in {"looking", "changed"} => told \subseteq {"Connecting", "VerifyingHostKey"}
       /\ verify = "prompting" => "UnknownHostKey" \notin told
       /\ "ChangedHostKey" \in told => verify \in {"prompting", "deciding"} /\ verdict = "Conflict"

ToldBeyond ==
  /\ pc \in BeyondHandshake => "ChangedHostKey" \notin told
  /\ pc \in InShell => "Connected" \in told
  /\ pc = "report" => result # "Disconnected" /\ (result = "exit" <=> "Connected" \in told)

\* What is given up, is given up by the tab.
GivenUp ==
  /\ grace \/ ~open => cancelled
  /\ pc = "last" /\ told \cap {"Connected", "Error"} = {} => cancelled

\* No event gets lost between the task and a tab that listens.
EventsAreOnTheirWay ==
  open => \A e \in told \ seen : \E i \in DOMAIN events : events[i] = e

\* The task still has to pass on a size, or the server has the last one.
SizeIsOnItsWay ==
  /\ resized \/ size = IF ptySize = None THEN InitialSize ELSE ptySize
  /\ pc \in Running \ (InShell \cup {"toConnected"}) => ptySize = None

IInv ==
  /\ TypeOK /\ ToldSoFar /\ ToldInHandshake /\ ToldBeyond /\ GivenUp
  /\ EndIsAnnounced /\ FailuresAreExplained /\ EventsAreOnTheirWay /\ SizeIsOnItsWay
=============================================================================
