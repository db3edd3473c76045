# Verification of OxideSSH

OxideSSH is a desktop SSH client: a GPUI interface (one thread), an SSH service on a tokio
runtime with two threads, local shells on a handful of OS threads, and three stores (two JSON files
and the keyring of the operating system). This directory holds TLA+ models of its control logic, the
TLC runs that check them and proofs that the TLA+ proof system (TLAPS) checks. Every definition is
translated from the source; the `map` in `PROJECT.json` names the lines.

Each model keeps the control (state changes, guards, early returns, error paths and their order) and
abstracts the data to what the properties tell apart: a host key with its algorithm and fingerprint is
one value, a secret is one value, wording and layout are left out.

## 1. Inventory

Paths are relative to `src/crates/`.

| part | state it keeps | operations | talks to |
|---|---|---|---|
| Host-key trust coordinator, `oxide-ssh-core/src/session.rs` 288-595 | `pending` prompts per endpoint, `awaiting` flags, one watch channel per prompt | `verify`, `decide`, the guard's `Drop`, `set_awaiting`, `subscribe_awaiting` | known-hosts store; the event queues of the attempts; the interface through `SessionHandle::decide_host_key` |
| Known-hosts store, `oxide-ssh-core/src/storage.rs` 193-245 | `known_hosts.json` | `known_host`, `accept_host_key`, `delete_known_host` | coordinator, Trusted Hosts dialog |
| Session task, `session.rs` 165-286, 636-764 | a connection, a channel, queues of events (256) and input (128), the size, a cancellation token, the abort handle | `connect`, `run_session`, `try_send_input`, `resize`, `disconnect` | coordinator; SSH library; the event pump |
| Authentication, `session.rs` 766-868 | none | password, key file, agent | SSH library, files, agent |
| Local shell, `oxide-ssh-core/src/local.rs` | a PTY, a child, four threads, the same queues | `spawn_local_shell`, handle | operating system; the event pump |
| Configuration store, `storage.rs` 137-191, 279-448 | `config.json` | `load_config`, `save_config`, `update_config`, validation, pruning, atomic write | credential transactions, application state |
| Credential store and profile transaction, `oxide-ssh-desktop/src/credentials.rs` | the keyring | `save_profile`, `delete_profile`, rollback | configuration store, keyring |
| Tabs and modal queue, `oxide-ssh-app/src/tabs.rs` | tabs with state, session and terminal; a queue of prompts; the active tab | open, attach, `apply_event`, reconnect, close, prompts | session handles, terminal model |
| Orchestration, `oxide-ssh-desktop/src/app/session.rs` | attempts in flight, one-time secrets, confirmations, status | connect, pre-flight, event pump, reconnect, close with its timer, decide | all of the above |
| Application state, `oxide-ssh-desktop/src/state/mod.rs`, `app/tags.rs`, `app/editor.rs` | a cached copy of both files, filters | tags, settings, filters, reload | configuration store |
| Terminal model and input, `oxide-ssh-terminal/src` | an emulator (library), modes, size | `process_output`, resize, key and paste encoding | tabs |
| Dialog layer and terminal view, `oxide-ssh-desktop/src/app/dialog.rs`, `app/terminal.rs` | which dialog is shown; input-method text, geometry | synchronise, submit, cancel | tabs, state |
| Views, themes, messages, start-up, packaging | none of their own | | |

How they interact: the interface calls `SshService::connect`, gets a `SessionHandle` and a receiver of
events, and starts a *pump*, a task on the interface thread that applies each event to the tab. The
session task runs on the runtime and sends events into a bounded queue. During its handshake it calls
the coordinator, which several attempts share. Decisions, input, size and `disconnect` go back through
the handle. The profile transactions and the settings run on the interface thread against the stores.

What is hard here, and in which part:

- interleavings: several verifications of one endpoint, the user's decision, timers and cancellations
  around one prompt (coordinator); events of a replaced session against the tab's new one, two
  prompts for different tabs (tabs, orchestration); four threads that send into one queue (local shell);
- failure: any store call can fail between two others; a write can report an error after the file was
  replaced; the process can stop between the keyring and the file (profile transaction);
- time: a connection timer of 15 s that becomes 120 s while a decision is awaited, a grace period of
  2 s after which a disconnected task is aborted, a close timer of a tab;
- bounded queues: a task that waits for room in its event queue does not look at its cancellation.

What makes each part correct (the properties): no key is trusted without the user's acceptance on
disk, sharers of a prompt get one verdict, no prompt is left behind, nobody hangs (coordinator); both
stores or neither, no reference without its secret, no secret kept against the user's wish (profile
transaction); events follow the session protocol, the last one is sent once, nothing is sent after it,
a disconnected session ends (session task, local shell); a tab shows the state of its current session
and of no other, prompts belong to tabs that wait for them, a closing tab goes away (tabs); what the
interface shows is what the file holds, an update is never lost, a dialog refers to what exists
(application state); what is typed reaches what it was typed for: the dialog on the screen, its tab, its
session (dialogs, terminals); nothing is deleted or disconnected unasked (dialogs); output is neither lost
nor reordered, and the two ends of a terminal agree about its size (terminals).

## 2. Modules

| module | models | status |
|---|---|---|
| `HostTrust` | coordinator, verifications, deadline of `run_session`, known-hosts store | done |
| `TrustOnFirstUse` | the abstract promise of the coordinator | done, refined by `HostTrust` |
| `MCHostTrust` | instances for TLC | done |
| `HostTrustProofs` | theorems about `HostTrust` | done |
| `ProfileCredentials` | `save_profile`, `delete_profile`, editor, keyring, configuration file | done |
| `MCProfileCredentials`, `ProfileCredentialsProofs` | instances; theorems | done |
| `SessionTask` | the task of an SSH session, its handle, queues and grace period, `authenticate`, the tab as receiver | done |
| `SessionProtocol` | the order of an SSH session's events | done, refined by `SessionTask` |
| `MCSessionTask`, `SessionTaskProofs` | instances; theorems | done |
| `LocalSession` | the four threads of a local shell, the call that starts them, the handle and the tab | done |
| `LocalProtocol` | what is left of that order for a local shell | done, refined by `LocalSession` |
| `MCLocalSession`, `LocalSessionProofs` | instances; theorems | done |
| `Tabs` | the tab collection, the queue of requests, the dialog drawn last and the orchestration around them; composes sessions as `SessionProtocol` and `LocalProtocol` allow them | done |
| `Retain` | `VecDeque::retain`, by the positions that stay; used by `Tabs` and `Window` | done |
| `MCTabs`, `TabsProofs` | instances; theorems | done |
| `Configuration` | the configuration file, what is accepted in it, and the copy of the interface | done |
| `Editing` | the dialogs that change the configuration, and a save and a deletion that run later | done |
| `MCEditing`, `EditingProofs` | an instance; theorems | done |
| `Window` | which dialog is asked for, which the presenter has and which is on the screen, the keyboard, the field for secrets, confirmations, quit | done |
| `MCWindow`, `WindowProofs` | instances; theorems | done |
| `InputEncoding` | what a key press and a pasted text become | done |
| `Terminal` | the event pump, keys, pastes, the input method, the size and the colours of the terminals | done |
| `MCTerminal`, `TerminalProofs` | an instance, the check of the pastes; theorems | done |

The modules meet at the code they share. `Tabs` composes sessions through `SessionProtocol` and
`LocalProtocol`, which `SessionTask` and `LocalSession` are shown to implement, and takes from `HostTrust`
what the coordinator promises about shared prompts. `Window` and `Terminal` look at the same tabs from the
side of the dialogs and of the emulators: what a session tells is arbitrary there within what `Tabs` allows,
and what they leave out is in `Tabs`. `Editing` sees the transactions of `ProfileCredentials` as one step,
since they run on the interface thread without awaiting.

### HostTrust

One attempt (`SshService::connect`) is a member of `Sessions`. It has two tasks: `run_session`, with the
timer `deadline` and the receiver of `awaiting` (`unseen` is its "has changed" mark), and the
verification inside the handshake, whose phases (`verify`) end where the code releases the lock of
`pending` or awaits. The prompt an attempt creates is named by the attempt. `clearing` is the step
between the removal of a prompt under the lock and `set_awaiting(false)` after it; another attempt may open a
prompt of the endpoint in between, which the history variable `overtaken` remembers. The user decides
and deletes trusted hosts from one thread, `UI`.

The action of an operation is the whole critical section: `Accept` looks the prompt up, writes the
store (which may fail with or without having replaced the file), settles the prompt, wakes its
subscribers and releases the lock. The watch channel of a prompt is `outcome`; `set_awaiting` marks every
receiver, also when the value is unchanged, as `send_replace` does.

`TrustOnFirstUse` says what is promised: a connection passes only with a key the user accepted or that
the store held when it was looked up, a refusal is possible at any time, and the store changes only by
acceptances of presented keys and by deletions. `TOFU` is the refinement mapping.

### ProfileCredentials

`config` is how each profile authenticates in `config.json`, `keyring` the entries. A transaction is a
sequence of steps (`pc`), one call to a store each, because each can fail or be the last one before the
process stops. It runs on the interface thread without awaiting in between, so no other command interleaves
with it: `Idle` guards the commands. That an editor that waits for its save can be cancelled (its Cancel button
always works, `app/dialog.rs` 571-573; only Enter and Esc are ignored, 224 and 286) is in `Editing` and `Window`. `Faults` selects what may go wrong. `before` and `damaged` are history
variables: the stores at the beginning of the transaction, and whether a rollback has failed.

### SessionTask and SessionProtocol

`pc` is the await at which the spawned task of `SshService::connect` stands: the sends, the connect
future, authentication, the requests of the shell, the `select!` loop and the awaits inside its branches,
and the report at the end. During `handshake` the verification inside the connect future has a place of
its own (`verify`); what the coordinator answers (`verdict`) is arbitrary here, since `HostTrust` models
it. A blocking `send` is a guard on the room in the queue; `try_send` and `let _ = send` are operators of
their own because they differ in what a full or closed queue does. `End` is the return from `run_session`
with its error. The tab appears only as far as it touches the session: it drains the queue, drops its
handle on a final event, may disconnect, resize and type, and may go away with the whole view.
`GraceOver` is the abort, wherever the task awaits.

`SessionProtocol` orders the kinds of events by the stage of the session (`Rank`). Its state is the set of
kinds told and the last one, so that output after the exit is a change and not a stutter.

### LocalSession and LocalProtocol

The five threads are `spawn` (the interface thread inside `spawn_local_shell`) and `reader`, `writer`,
`resizer` and `waiter`. The shell writes and exits when it likes and may leave a job behind that holds
its terminal (`slave`). `handle` is what the tab has: nothing while the call runs, then the handle,
disconnected or dropped. The session check of `handle_session_event` (the tab's `session_id`) is `handle #
"dropped"`. `LocalProtocol` keeps of the order only what the waiter thread alone guarantees.

### Tabs

All handlers run to completion on the interface thread, so an action is a whole handler. A tab has an
identity of its own (`TabIds`), used once, as has a session; `session[t]` stands for `Tab.session` and
`Tab.session_id`, which the code always sets together. What interleaves is modelled by pending work:
`connecting` (a keyring look-up), `preflight` (a key file being looked at), `timers` (close timers) and
the sessions themselves, which live on after their tab has let go of them. `Tell` is an event handed over
by the pump: any event that may follow those told so far, applied only if the tab still has that session.
`MayFollow` of `SessionProtocol` and `LocalProtocol` is used per session (parametrised `INSTANCE`), which is
what `SessionTask` and `LocalSession` are shown to implement; `TrustAllows` adds what the coordinator of
`HostTrust` guarantees about prompts that are shared.

`modals` is the queue of requests and `shown` the request on the dialog drawn last. `Draw` may come
arbitrarily late, so that every click can be one on a dialog whose request is gone; `Answers` is
`complete_current_if`. The handlers that the code calls from several places are operators with the queue
as a parameter (`RemoveTab`, `StartInner`, `StartSession`, `BeginClose`), so that an action such as
`SubmitSecret` is the whole of it: the request completed and the session started, or refused.

All profiles are of one endpoint, because only such sessions share anything. Whether a one-time secret
from the editor is there is a choice in `Connect` and `KeyringRead`. `Quit` is the end of the window: tabs,
timers and pumps go with it.

### Configuration and Editing

`file` is `config.json` and `cache` the copy in `AppState`. A change reaches the file in two ways: tags and
settings replace the whole file by the changed copy (`SaveOk`), a profile is replaced in the file as it is
read then and the copy is read back (`UpdateOk`, `Reload`). `Valid` is `validate_config`, `Prune` what a load
removes, `CanStore` the guard for a damaged file together with the validation. Three kinds of fault are told
apart, with `MaxFaults` of them: an error reported after the file was replaced, a failing read-back, and a file
changed by somebody else. `behind` is a history variable: the copy is known to be old.

`Editing` has the dialogs. A save and a deletion of a profile are spawned on the interface thread and run
later in one piece (`saving`, `deleting`), so other clicks come before them. The tag manager keeps a text per
row, which is committed when the row loses the keyboard and when the manager closes; `due` are the rows
that one click still has to commit, each a write of its own that may fail. A name is a value with its
folded form, a profile its tags and whether its own fields are valid.

### Window

`Requested` is `requested_dialog` (editor, confirmation, tag manager, request of a tab, in this order), `payload`
the dialog that the presenter has, `screen` the one the user sees, `dirty` a redraw that is due. `Draw` is a frame,
`render` with the dialog layer as it is, followed by the deferred `sync_dialog_layer` and its focus pass, so
that a dialog is on the screen one frame after the presenter and the keyboard have gone to it. `Draw` may come
arbitrarily late. Until then buttons and clicks are those of `screen`, keys reach `payload`, and what was drawn
without a dialog takes the mouse (`AtWindow`), so that every click and key can reach a dialog whose reason is gone,
and a click the window behind a dialog that is still to be drawn. The frame moves the keyboard (`focus`) and clears
the field only when the dialog is about something else (`FocusIdentity`). `field` is whose secret the one shared
field holds; the text itself is left out. What a button does is the whole handler: `SubmitSecret` clears the field
and starts the session, which may fail at once; `PerformConfirm` does what `confirm` asks for when it runs.
Tabs are asked about, end and are removed by their sessions, timers and shortcuts. `askedToQuit` is a history
variable: the user has asked to quit since the last frame.

`KeysStayInTheDialog` and `NothingIsLostUnasked` say how far the frame in between can lead. A dialog takes the
keyboard with the presenter and keeps it, but for a click on the frame before it. What is deleted was asked
about last, and it is what the question on the screen names, once the user sees what the presenter has.

### InputEncoding and Terminal

`InputEncoding` is pure. A key press has a class, such as letters, keys with a sequence of their own or function
keys, and `KeyOutcome` says whether it is sent, ignored or left to the platform. `Paste` is the text
of a paste with line ends and brackets normalised; `IsPasteOf` says independently what a paste must be.

In `Terminal` a session has a queue of events and one of input, and a pump with at most one `pending` event: the
one that ended a batch of outputs and had left the queue by then. `PumpBatch` puts any number of waiting
outputs together, since a batch ends at any moment between two of them. A `query` is output that the
terminal answers. `Send` is `send_bytes` for several messages: a full queue refuses the rest. Input is
abstracted to whom it is meant for. The keyboard may move between the terminal and the rest of
the window before any step, and `keys` says whether the terminal was drawn with its handler of keys. `Draw`
takes the room there is and resizes tab and session. `owner`, `sent`, `seen` and `began` are history
variables: the tab of a session, what it sent, what was applied, and the tab where a composition began.

## 3. Runs

Every passing run checks what its properties say in all reachable states of its instance, and for each
property `PROJECT.json` names a mutation of the code, kept as an operator marked `Mutant` next to the
original, under which the run fails.

| run | instance | shows |
|---|---|---|
| `trust_two` | 2 attempts, 1 endpoint, 2 keys, fairness | prompts have a living owner, which has the time to decide unless an earlier prompt is still being cleared away when it asks, and reach their waiters; no key passes that was not stored; the invariant of the proofs, which contains them and the types and says that sharers were presented the shown key and that no endpoint is left awaiting without a prompt; an outcome is final; verifications end and prompts are settled without any help from the user; `HostTrust` implements `TrustOnFirstUse` |
| `profiles_safe` | 2 profiles, 2 secrets; keyring writes and deletions and the file write may fail | transactions are all or nothing; the stores agree between them |
| `profiles_faulty` | 1 profile, 2 secrets; every fault, crashes too | secrets precede references; nothing reaches the keyring unasked; the invariant of the proofs |
| `profiles_unread` | reads of the keyring may fail | violation: the rollback is skipped |
| `session_task` | queues of 2 events and 1 input, 2 identities, 2 sizes; only the grace timer is fair, two of the liveness properties assume `Fairness` | the event protocol is kept; the end is announced, with its reason; a disconnected session ends whatever it waits for, and one that ended is reported to its tab through a full queue; the server gets the last size; the invariant of the proofs |
| `local_shell` | queue of 2 events, 2 chunks of output, 2 queued sizes, fairness | `LocalProtocol` is kept; a tab that shows the end is not revived; the exit reaches the tab, the terminal gets the last size, a dropped handle leaves no thread; the invariant of the proofs |
| `tabs_mixed` | 2 tabs, 2 sessions, 1 prompt; a profile with a saved password, one with a key file, a local shell; bounds of `MCTabs` | a tab shows the session it has and no other; sessions nobody holds are disconnected; the active tab is open, a tab awaits a secret exactly while its request waits, requests belong to open tabs and their present session (`RequestsFitTheTabs`); a stale click consumes nothing; a closing tab has a timer; the invariant of the proofs |
| `tabs_stuck` | a key with a saved passphrase | violation: a tab connects for ever without an attempt |
| `editing` | 2 tags, 1 profile, 2 editors, 4 names; a file that is missing, damaged or has a dangling reference; 1 fault | the copy is what a start would find unless it is known to be old, and valid; the two ways of writing lose nothing of each other and leave a damaged file alone; a late save closes only its own editor; filter, forms, rows and questions refer to what exists |
| `window` | 2 tabs, 1 editor, 1 thing to delete, at most 2 dialogs asked for; bounds of `MCWindow` | what is asked for gets on the screen; a secret stays with its tab; redrawing does not disturb the typing; the invariant of the proofs |
| `window_questions` | 1 tab, 2 editors, 2 things to delete, at most 2 dialogs asked for; bounds of `MCWindow` | a dialog keeps the keyboard unless the frame before it is clicked; nothing is deleted or disconnected unasked, and the question on the screen is the one that is answered when the user sees what the presenter has |
| `terminal` | 2 tabs, 2 sessions, 2 sizes, queues of 3 events and 1 input, at most 3 events of a session; bounds of `MCTerminal` | input reaches the session it was meant for; sizes and colours agree; output is neither lost nor overtaken; pastes of up to 5 characters are what the reference says |

Bounds. Attempts to different endpoints share no state but the map, so one endpoint is the interesting
case; two attempts give owner and sharer or owner and rival, and the proofs cover any number. Two keys are the shown one and another. Profiles interact through nothing but the list they are stored in: two of them show that a
transaction leaves the other alone. Two secrets are the old and the new value. Profile identifiers are
used once, which bounds `profiles_*`; such a system stops when they are used up and no transaction runs,
hence `CHECK_DEADLOCK FALSE` there. An attempt of `HostTrust` ends for good, so its runs stop as well.
The queues of 256 events and 128 messages become queues of one or two: what matters is that they are full, empty or in between, and every
wait for room happens in these instances. Two identities are the one that is not the last and the last.
Two sizes are the requested one and another; two queued resizes are one to drain and one to keep. Two
chunks of output fill the queue before the exit. A session ends for good, so these runs stop as well.

`tabs_mixed` has the tabs that differ most: one that asks for a password, one whose key file is looked at
first, one without any of that. Two sessions are a tab's present one and its former one, or those of two
tabs that share a prompt. `MCTabs` bounds the rest by constraints that leave the interesting order alone:
stages that look alike on a tab are told as one (`OneByOne`; a replaced session may tell two endings, which is
what a stale event is), at most two requests wait, tabs are closed one at a time, a dialog whose request is
gone is redrawn at once unless another request could be taken for it (`Focus`), and what the session of a
removed tab still tells is not followed, since no handler finds its tab. Identifiers of sessions are
symmetric; those of tabs are used in order. Tabs and sessions are used up in the end, so these runs stop.

`editing` (1.35 million states) has two tags, because a refused name needs another one to clash with, and two
editors, one that saves and one opened meanwhile. The names are two that differ in case only, another one and
a blank one, which stands for all that validation refuses. One fault per behaviour shows each of
the three by itself; its consequences are followed without end. `FewFilters` has the filter on one tag at a
time, and the one on profiles without tags while there is no dialog: filters with several tags only meet
the code in the same places. A window over a damaged file stays on its
recovery screen until somebody repairs the file, which need not happen, hence `CHECK_DEADLOCK FALSE`.

`window` (1.4 million states) has two tabs, of which one can be on the screen while the other asks, and one editor
and one thing to delete besides the two ways to quit. `window_questions` has two things to delete and two
editors, so that questions and editors can replace each other in the frame in between, which needs no second
tab. `FewDialogs` follows at most two dialogs asked for at once, which is each pair of the order of
precedence, and one tab that waits for its end; two dialogs of tabs are prompts for secrets, or one of them
is. The lengths of the queue and the number of tabs are arbitrary in the proofs.

`terminal` (0.87 million states) has two sessions for the replaced one and the present one of a tab or those
of two tabs, and two sizes. Three events are a batch, the event that ends it and one after it. `FewEvents`
follows two events of any sessions, or three of one while nothing is typed and the window keeps its size. One
place for input is full after one key, so that answers are refused, too. The build is the one for Linux;
on other systems fewer keys come through the handler, and what a key is does not matter here. Queues, sizes and
numbers are arbitrary in the proofs. The pastes are compared for every text of up to five characters of the five
kinds the code tells apart, which has every way line ends and dropped characters can stand next to each other.

Fairness (`HostTrust!Fairness`): the runtime polls every task that can go on and every armed timer fires
(`tokio::time::sleep` under `select!`). Nothing is assumed of the user, the network or the server. That the
verification of an ended attempt is dropped is the library's doing: the test at `session.rs` 1158 names
this path ("Simulate the connect-timeout path: the verification future is dropped while awaiting the
decision"). Safety does not need it: the drop may come arbitrarily late.

`SessionTask!GraceSpec` assumes only that the timer of the grace period fires. `Fairness`, under which
`EndReachesTheTab` and `LastSizeReachesTheServer` are stated, adds that the pump
drains the queue, that a task which can send is polled, that a write to the channel is taken or fails, and
strong fairness for the resize branch: `select!` without `biased` polls its branches in random order, so a
branch that stays ready is taken. Nothing is assumed of authentication or of the server's messages.
`LocalSession!Fairness` assumes that threads which can run do, that the pump drains the queue, that a killed
shell exits, that jobs it leaves behind end, and that a write fails once nobody holds the terminal; a shell
that does not read its input may keep the writer waiting. Killing and hanging up are the operating system's.

## 4. Disagreements found

Each of these has a run that shows it.

1. `credentials.rs` 191: an error of the keyring's `get` skips the rollback of the secret just written
   (`profiles_unread`).
2. `app/session.rs` 57 and 470: when the keyring cannot be read, a tab of a private key with a saved passphrase
   is left in Connecting with neither a prompt nor a session, against the comment at 53-54 (`tabs_stuck`).

These are in the models, where they can be read off, and have no run of their own.

- `session.rs` 455-457: a cancelled verification calls `decide(Reject)` for the prompt it waits on even
  when it is not the owner, although the guard next to it only takes a waiter off the list.
- `session.rs` 497-498, 504-505, 516-517 and 544-545: the flag of an endpoint is cleared after the lock on
  `pending` is released. An attempt that opens a prompt in between sets the flag first and has it cleared
  under it: the prompt stays open, its owner falls back to the 15 s of a connection, and the user loses most of the
  120 s. `DecisionTimeUnlessOvertaken` says that this is the only way to lose them (`overtaken`); the prompt is
  still settled when the owner gives up.
- `session.rs` 348-417: between the look-up in the store and the lock of `pending` another attempt's key
  can be accepted; the user is then asked again for a key that is stored.
- `local.rs` 121: the exit of a local shell is announced by another thread than its output, so output may
  come after it and is discarded, unlike in the SSH flow that the comment at 112 refers to.
- `storage.rs` 440: an error of the directory sync is reported after the file was replaced; the profile
  transaction then undoes the keyring for a configuration that is in force. The fault `"late"` of
  `ProfileCredentials` is this case; the all-or-nothing theorem excludes it (`Undoable`). In `Editing` the same
  fault leaves the interface with the old copy, and with a filter or a form that refers to a deleted tag.
- `local.rs` 127: the shell is announced with a blocking send on a bounded queue whose receiver the caller
  does not have yet; output that fills the queue before that blocks the interface thread for good. The
  liveness properties of `LocalSession` are therefore stated for calls that have returned.
- `app/mod.rs` 643-655: the shortcuts to paste and to copy act only while the window itself has the keyboard, not
  the terminal, although `README.md` 98-99 lists them as "Copy terminal selection" and "Paste into terminal".

Observations about behaviour that no statement of the repository excludes:

- `app/terminal.rs` 546 takes every name that starts with f for a function key, so the letter with Ctrl or Alt is
  swallowed (`IsIgnored`).
- Composed text whose tab was closed is dropped in silence (`CommitText`).
- A tag created in an editor that was opened over the tag manager has no row in it; rows whose name was
  refused are committed again with every later change.
- `update_config` (`storage.rs` 184-191) does not prune references: a file with a dangling one refuses every save of
  another profile until a change of tags or settings has written the pruned copy, although a load accepts it
  (comment at 334-335).
- The confirmation performs what is asked for when the key or click arrives. The shortcut to quit may have replaced
  the question that is still on the screen, so that an answer to a question about a deletion quits
  (`askedToQuit`); nothing is deleted on another question that the user sees.
- For one frame the presenter has a dialog and the screen does not show it (`app/mod.rs` 660-664). A mouse-down
  on the terminal in that frame (`app/terminal.rs` 646) takes the keyboard, and since the dialog stays about the
  same thing nothing gives it back: the user sees a prompt and types into the shell until the dialog is clicked. A
  second click on a Delete button replaces `confirm`, and Enter pressed before the next frame deletes what no frame
  has named. Each takes an input in just that frame.
- A status message may stay for good when its timer clears it and the same message is set before the redraw, and
  an earlier timer may clear a later equal message early (`app/mod.rs` 538-557). The bell is never seen,
  since output also asks for a redraw (`app/session.rs` 351-358 and 399-405, `docs/settings-roadmap.md` 34). Neither
  is in a model.

## 5. Proofs

`HostTrustProofs` proves for any attempts, endpoints and keys (assumptions: `EndpointOf` is a function,
`UI` and `None` are different from the rest) that `IInv` is invariant. The named safety properties are
not inductive one by one: `WaitersAreListed` needs to know that a prompt is named by its owner
(`PromptsHaveOwners`) and how the phases of the two tasks fit (`PhasesAgree`), `OnlyStoredKeysPass`
needs that an accepted outcome is backed by the store's history (`HistoryIsComplete`), and
`NoStuckAwaiting` needs `PromptHasLiveOwner`. `DecisionTimeUnlessOvertaken` is stated with both cases of the race
about the flag, so that it is inductive: a prompt that was not overtaken has its flag up, one that was
overtaken has it down once the other is cleared away. There is one lemma per action. From `IInv` follow the
named properties, `SettledOnce`, and the refinement of `TrustOnFirstUse` (initial states to initial
states, each step to a step or a stutter).

`ProfileCredentialsProofs` proves `IInv` under every fault, and from it `NewReferencesAreBacked`
(`SecretBeforeReference`) and `KeyringTakesRememberedSecrets` (`OnlyRememberedSecrets`). Besides the types and
`ReferenceIsBacked` it has what a step may rely on: the backups are those of the beginning
(`BackupsAreOriginal`), and the keyring of every step is computed from them and the job (`KeyringByStep`).
`FailedTransactionsAreUndone` is proved from `Undoable`: keyring reads succeed, and a write of the file that
reports an error changed nothing. `RollbackRestores` is the strengthening: at every step the rollback, if it
ran now, would lead back to the stores of the beginning. `profiles_unread` shows that the first half of `Undoable`
cannot be dropped. `BothStoresAgree` is proved from `Contained`, which is the set of faults of `profiles_safe`: calls
that fail and change nothing. A success can be complete only if the transaction began with stores that match, and the
next one begins where this one ended; `AInv` therefore carries the agreement from one transaction to the next
(`StartsFromMatching`), together with the one-time secrets (`OneTimeAtRest`), of which a profile that is
being edited has none.

`SessionTaskProofs` proves, for any capacities, sizes and number of identities, the types (in two parts, the
events and the rest), `IInv`, `EndIsAnnounced`, `FailuresAreExplained` and the refinement of
`SessionProtocol`. That an event may follow the ones before it depends on everything told so far, so the
invariant relates `told` to the place of the task: `ToldSoFar` bounds the stage of every event by `Reached`,
`ToldInHandshake` follows the verification (a changed key is told early only with the verdict of a
conflict, after which the handshake cannot succeed), `ToldBeyond` says that a session past its handshake
has not been told of a changed key and that the report of an error and the shell exclude each other.
`NotYet` turns the bound into what cannot have been told yet, and each action is then one step.
`EventsAreOnTheirWay` and `SizeIsOnItsWay` are what the liveness properties rest on: every event told is in the queue
until the tab has it, and unless a size is still to be seen by the loop the server has the last one, or is going to be
given it when the shell is opened. `NothingGetsLost` says this of the end and of the size; that both are taken in the
end is left to TLC.

`LocalSessionProofs` proves `IInv`: the types, `ToldByThreads` (which thread has sent what), `HandleOfTab` (a tab that
shows the end has dropped its handle), `ExitIsOnItsWay` and `SizeIsOnItsWay` (the last size queued, or else that of the
terminal, is the one asked for last). From it follow the refinement of `LocalProtocol`, `EndedTabsStayEnded`, and again
`NothingGetsLost`, the safe half of two liveness properties.

`TabsProofs` proves `IInv` of the window for any tabs, profiles, sessions and prompts (assumption: `None`
and `Local` are different from the rest), and from it `TabShowsItsSession`, `SessionsAreHeldOrCancelled`,
`ClosingTabsHaveATimer`, `RequestsFitTheTabs` and `StaleClicksConsumeNothing`. The invariant has four parts,
each with a lemma per handler:

- `Shape`: tabs and sessions. A tab could show a stage its new session never told if a session could have told
  something before it was started, hence `SilentBeforeStart`. Some twenty handlers do only a few
  things to a tab, so the proof goes in two layers: a tab is released, gets a new session, is removed, or
  follows an event (`ReleaseStep`, `StartStep`, `EndingStep`, `StageStep`; the last one uses the ranks of
  `SessionProtocol`: a question about a host key never comes after a later stage), and each handler is one
  of these.
- `StripInv`: the strip has no tab twice, and the active tab is on it. Without the former, `remove` could
  leave a second place of the tab behind, and the neighbour it activates might be the tab itself.
- `QueueInv`: the requests. That they fit the tabs is inductive only with `OneOfAKind` (a tab asks nothing
  twice, so that taking out the first request takes out the only one) and `QuestionsHaveASession`: a dialog for a host
  key belongs to a tab that has a session or has ended, and a tab whose key file is being looked at has no session
  and awaits nothing. The order of the queue matters only for which request is first. So the queue is turned into the
  set of its requests once, for each operation on it (`Answered`, `TakenAway`, `Added`), and the lemmas about the
  handlers speak of sets. `TakenAway` rests on `Positions`: the positions kept by a `retain` have the ranks
  1 to their number, each once, shown by cardinality, since the recursive definition of the library is out of reach.
- `Rest`: the other types, and `ClosingTabsHaveATimer`.

`EditingProofs` proves `IInv` for any tags, profiles, names and faults, and a file that others change as often
as they like. Its core is `CopyIsCurrent`: the copy is valid, and unless it is known to be old it is what a
start would read from the file. That holds over both ways of writing because a whole-file save stores a valid
copy (which pruning leaves alone, `PruneOfValid`), and an update of a profile reads back what it stored. `SameTags`
is what is left of it while the read-back fails, `NothingWithoutCopy` says that a recovery screen has no
dialog, and `EditorsDiffer` that an editor with the id of a running save is the one that was saved. From
`IInv` follow `NothingIsLost` (the step that writes is compared with the file before it; a save from the copy needs
`CopyIsCurrent`), `OwnEditor`, and `ScreenFollows`: filter, forms, rows and questions refer to what exists.
The last one is an induction of its own over the same steps, since each change of the tags has to be followed in
five places; it excludes the faults by which the interface cannot know of the change (`Unnoticed`).

`WindowProofs` proves `IInv` for any tabs, editors and things and a queue of any length: the types, and
`DInv` with `WhatIsAskedIsShown`, `SecretStaysWithItsTab`, `QuestionIsShown` and that without a presenter nothing in a
dialog has the keyboard. That a secret stays with its tab cannot be shown alone: the field is cleared
when the presenter's dialog changes, so the invariant relates the field to what the presenter has and to what is
drawn, and not to the queue. `QuestionIsShown` speaks of a screen that agrees with the presenter: only
then was the question on it taken from `confirm`, and no Delete button has been within reach since. The
handlers fall into a few kinds: those that leave the dialogs and the field alone and ask for a redraw
(`DrawnStaysValid`), those that do not ask for one (`SameScreenButFocus`), the frame (`DrawStep`) and the end of the
window. The types need that the queue without a tab is a queue
(`Remaining`). From `DInv` follow `SecretsStay`, `KeysStay` (only a frame gives the presenter a dialog,
`OnlyFrames`) and `NothingLost`, the last one because of `QuestionIsShown`. `TypingGoesOn` needs no invariant.

`TerminalProofs` proves `IInv` for any tabs, sessions, sizes, themes and capacities: `IdsAgree` (a session and its
tab know each other, which every step that sends rests on), `SessionsKnowTheSize`, `ScreenFits`,
`InputIsForItsSession`. `SendTypes` says once what a send leaves in the queue. `OutputInOrder` is proved on
top of it: the pump moves a front of what is to come behind what was seen (`PumpMovesAFront`), a session appends behind
(`AppendBehind`), and a tab that begins to hold a session begins with one that was silent
(`UnusedSessionsAreSilent`).

Only model-checked are the liveness properties `NoVerificationHangs`, `EndsGoThrough`,
`LastSizeReachesTheServer`, `ExitReachesTheTab`, `LastSizeReachesTheTerminal` and `NothingIsLeftBehind` (fairness
and ENABLED are out of the prover's reach). `Paste` is compared with its reference
over bounded texts: what a function on sequences computes for every input needs an induction that the prover
cannot do.

## 6. Plan

What is left, in this order:

1. An abstract promise per tab (asked for, tried, connected or told why not), refined by `Tabs`.
2. The known-hosts file with its versions and its damaged-file guard, as `Configuration` has them for the
   other file; the status line and its timers; selecting by mouse, copying and scrolling.

## 7. Not modelled

The SSH library, the terminal emulator, the component library's focus stack, the keyring and the file system
are external: they appear as nondeterministic results at the calls the code makes. Views, themes, translations
and build scripts have no state of their own. Left out of the parts that are modelled: the text of both files, the
checks of a profile's own fields and of the form (pure, one Boolean), the choice of the shell and of the page, renaming
a tab in place, menus, the status line, and what only the emulator keeps, which is selection, scrolling
and the colours of cells.
