------------------------------- MODULE Window -------------------------------
(***************************************************************************)
(* The dialogs of the window (AppView and DialogPresenter: dialog.rs, and  *)
(* their handlers in mod.rs and session.rs): which dialog is asked for,    *)
(* which one the presenter has, which one is on the screen, where the      *)
(* keyboard is, and the one field that all prompts for a secret share.     *)
(*                                                                         *)
(* A handler changes the state and asks for a redraw. A frame draws the    *)
(* dialog that the presenter has; only afterwards the presenter gets the   *)
(* one that the state asks for by then, and the keyboard goes there. It is *)
(* on the screen with the next frame. In between keys reach the presenter, *)
(* and the mouse what was drawn.                                           *)
(*                                                                         *)
(* The tabs are modelled in Tabs: here they are asked about, end and are   *)
(* removed, whatever their sessions do. The fields of the editor and the   *)
(* tag manager are in Editing.                                             *)
(***************************************************************************)
EXTENDS Naturals, Sequences, Retain

CONSTANTS
  Tabs, Things,   \* tabs; profiles, tags and known hosts that can be deleted
  EditorIds,      \* drawn at random for each editor that is opened
  MaxRequests,    \* bound on the length of the queue of requests
  None

VARIABLES
  tab,      \* "none" "live" "connected" "ended"; only an ended one is disconnected
  closing,  \* tabs that wait for their session to end
  modals,   \* ModalQueue.requests
  things,   \* what exists of Things
  editor,   \* the id of AppView.editor
  saving,   \* AppView.saving_editor
  confirm,  \* AppView.confirm
  manager,  \* is there a tag manager?
  payload,  \* of AppView.dialog_presenter, None without one
  screen,   \* the dialog that the user sees: the one in the last frame
  focus,    \* "terminal", "window", or in the dialog: "first" or "later" component
  wanted,   \* AppView.pending_terminal_focus
  field,    \* whose secret the shared field holds: the tab it was typed for, or None
  askedToQuit, \* history: has the user asked to quit since the last frame?
  dirty,    \* is a redraw due?
  open      \* is there a window?

tabVars  == <<tab, closing, modals>>
ownVars  == <<things, editor, saving, confirm, manager>>
drawVars == <<payload, screen, focus, wanted, field, askedToQuit>>
vars     == <<tabVars, ownVars, drawVars, dirty, open>>

ModalKinds == {"Secret", "HostKey", "ChangedHostKey", "ConfirmClose"}
Quits      == {"Quit", "QuitApp"}

\* What a dialog is about, and whether it is drawn as one that has to wait for a save.
Dialog(k, id, busy) == [kind |-> k, id |-> id, busy |-> busy]
Dialogs ==
  [kind : {"Editor"}, id : EditorIds, busy : BOOLEAN]
    \cup [kind : {"Confirm"}, id : Things \cup Quits, busy : {FALSE}]
    \cup [kind : {"TagManager"}, id : {None}, busy : {FALSE}]
    \cup [kind : ModalKinds, id : Tabs, busy : {FALSE}]

ASSUME WindowAssumption ==
  /\ None \notin Tabs \cup Things \cup EditorIds \cup Quits \cup Dialogs
  /\ Tabs \cap (Things \cup EditorIds \cup Quits) = {} /\ Things \cap Quits = {}

Init ==
  /\ tab = [t \in Tabs |-> "none"] /\ closing = {} /\ modals = <<>>
  /\ things \in SUBSET Things
  /\ editor = None /\ saving = None /\ confirm = None /\ manager = FALSE
  /\ payload = None /\ screen = None /\ focus = "window" /\ wanted = FALSE /\ field = None
  /\ askedToQuit = FALSE /\ dirty = FALSE /\ open = TRUE

-----------------------------------------------------------------------------
(* What is asked for, what the presenter has and what is drawn.            *)

\* requested_dialog: an editor goes before a question, the manager and the tabs.
Requested ==
  IF editor # None THEN Dialog("Editor", editor, saving # None)
  ELSE IF confirm # None THEN Dialog("Confirm", confirm, FALSE)
  ELSE IF manager THEN Dialog("TagManager", None, FALSE)
  ELSE IF modals # <<>> THEN Head(modals)
  ELSE None

\* DialogFocusIdentity: what a dialog is about, not how it looks.
FocusIdentity(d) == <<d.kind, d.id>>

\* Mutant: a dialog that looks different counts as another one.
RefocusWhenItLooksDifferent(d) == payload # d

\* needs_focus, for a dialog that takes the place of another one or of none.
NeedsFocus(d) == payload = None \/ FocusIdentity(payload) # FocusIdentity(d)

\* Mutant: the text of the last prompt stays in the field.
FocusAndKeepText(d) == focus' = "first" /\ UNCHANGED field

\* focus_initial.
FocusInitial(d) ==
  /\ focus' = "first"
  /\ field' = IF d.kind = "Secret" THEN None ELSE field

\* Mutant: the terminal takes the keyboard as soon as it is wanted there.
FocusTerminalAnyway(d) ==
  IF wanted THEN focus' = "terminal" /\ wanted' = FALSE /\ UNCHANGED field
  ELSE /\ IF NeedsFocus(d) THEN FocusInitial(d) ELSE UNCHANGED <<focus, field>>
       /\ UNCHANGED wanted

\* A dialog is opened or gets another payload.
ShowDialog(d) ==
  /\ IF NeedsFocus(d) THEN FocusInitial(d) ELSE UNCHANGED <<focus, field>>
  /\ UNCHANGED wanted

\* The last dialog goes. The library gives the keyboard back to what had it,
\* the terminal or another part of the window.
NoDialog ==
  /\ IF wanted THEN focus' = "terminal"
     ELSE IF payload = None THEN UNCHANGED focus ELSE focus' \in {"terminal", "window"}
  /\ wanted' = FALSE /\ UNCHANGED field

\* A frame: AppView renders with the dialog layer as it is, then the deferred
\* sync_dialog_layer and its focus pass run. While there is a presenter each
\* frame notifies it, so that another one follows.
Draw ==
  /\ open /\ dirty
  /\ screen' = payload
  /\ payload' = Requested
  /\ IF Requested = None THEN NoDialog ELSE ShowDialog(Requested)
  /\ dirty' = (Requested # None \/ payload # None)
  /\ askedToQuit' = FALSE
  /\ UNCHANGED <<tabVars, ownVars, open>>

-----------------------------------------------------------------------------
(* The tabs, as far as the dialogs are concerned.                          *)

\* Mutant: the dialog layer lets the mouse through.
BehindTheDialog == open

\* A dialog on the screen keeps the mouse from what is behind it; one that is
\* still to be drawn does not.
AtWindow == open /\ screen = None

\* The ids of the dialogs that the presenter and the screen have.
IdsInUse == {d.id : d \in {payload, screen} \ {None}}

Live == {t \in Tabs : tab[t] \in {"live", "connected"}}
Without(q, t) == Retain(q, {i \in DOMAIN q : q[i].id # t})
Ask(k, t) == Append(modals, Dialog(k, t, FALSE))
Room == Len(modals) < MaxRequests

\* A tab that waits for its secret has no session.
Waits(t) == \E i \in DOMAIN modals : modals[i] = Dialog("Secret", t, FALSE)
HasSession(t) == t \in Live /\ ~Waits(t)

\* TabCollection::remove, with q the queue as its caller leaves it.
RemoveTab(t, q) ==
  /\ tab' = [tab EXCEPT ![t] = "none"] /\ closing' = closing \ {t} /\ modals' = Without(q, t)

\* A tab is opened by a click, a shortcut or a keyring that was read; it may
\* ask for its secret first. Its id is a new one.
OpenTab(t, asks) ==
  /\ open /\ tab[t] = "none" /\ t \notin IdsInUse \cup {field} /\ Room
  /\ tab' = [tab EXCEPT ![t] = "live"]
  /\ modals' = IF asks THEN Ask("Secret", t) ELSE modals
  /\ dirty' = TRUE /\ UNCHANGED <<closing, ownVars, drawVars, open>>

\* A session asks: for a decision about its host key, or for the passphrase.
SessionAsks(t, k) ==
  /\ open /\ tab[t] = "live" /\ HasSession(t) /\ Room
  /\ \/ k = "HostKey" /\ (\A i \in DOMAIN modals : modals[i] # Dialog(k, t, FALSE))
        /\ modals' = Ask(k, t)
     \/ k = "Secret" /\ modals' = Append(Without(modals, t), Dialog(k, t, FALSE))
  /\ dirty' = TRUE /\ UNCHANGED <<tab, closing, ownVars, drawVars, open>>

\* It tells that it is connected, or anything else from then on: the terminal
\* is to have the keyboard.
SessionTells(t) ==
  /\ open /\ HasSession(t)
  /\ tab' = [tab EXCEPT ![t] = "connected"] /\ wanted' = TRUE
  /\ dirty' = TRUE
  /\ UNCHANGED <<closing, modals, ownVars, payload, screen, focus, field, askedToQuit, open>>

\* It ends; a host key that has changed is reported to the user. An error takes
\* the other requests of the tab away, a plain end does not.
SessionEnds(t, changed) ==
  /\ open /\ HasSession(t) /\ (changed => tab[t] = "live" /\ Room)
  /\ IF t \in closing THEN RemoveTab(t, modals)
     ELSE /\ tab' = [tab EXCEPT ![t] = "ended"]
          /\ IF changed THEN modals' = Ask("ChangedHostKey", t)
             ELSE modals' \in {modals, Without(modals, t)}
          /\ UNCHANGED closing
  /\ dirty' = TRUE /\ UNCHANGED <<ownVars, drawVars, open>>

\* The Retry button of a tab that has ended.
Reconnect(t, asks) ==
  /\ AtWindow /\ tab[t] = "ended" /\ Room
  /\ tab' = [tab EXCEPT ![t] = "live"] /\ closing' = closing \ {t}
  /\ modals' = IF asks THEN Append(Without(modals, t), Dialog("Secret", t, FALSE))
               ELSE Without(modals, t)
  /\ dirty' = TRUE /\ UNCHANGED <<ownVars, drawVars, open>>

\* TabCollection::request_close: a shortcut or a button of the strip.
RequestClose(t) ==
  /\ open /\ tab[t] # "none"
  /\ IF tab[t] = "ended" \/ t \in closing THEN RemoveTab(t, modals)
     ELSE /\ UNCHANGED <<tab, closing>>
          /\ \/ Room /\ (\A i \in DOMAIN modals : modals[i] # Dialog("ConfirmClose", t, FALSE))
                /\ modals' = Ask("ConfirmClose", t)
             \/ (\E i \in DOMAIN modals : modals[i] = Dialog("ConfirmClose", t, FALSE))
                /\ UNCHANGED modals
  /\ dirty' = TRUE /\ UNCHANGED <<ownVars, drawVars, open>>

\* The timer of a tab that is being closed.
CloseTimer(t) ==
  /\ open /\ t \in closing
  /\ RemoveTab(t, modals)
  /\ dirty' = TRUE /\ UNCHANGED <<ownVars, drawVars, open>>

-----------------------------------------------------------------------------
(* The dialog: its buttons as they were drawn, and its keys as the         *)
(* presenter has it by now.                                                *)

InDialog == focus \in {"first", "later"}

\* A dialog of kind k whose button is clicked, or that Enter or Esc reaches. The
\* key may have been pressed before the frame with it: the library draws that one
\* before it hands over the key, too late for the user.
Acts(k, d) == open /\ d # None /\ d.kind = k /\ (d = screen \/ (d = payload /\ InDialog))

\* Is the dialog that the presenter has on the screen, however it looks?
IsDrawn == payload # None /\ screen # None /\ FocusIdentity(payload) = FocusIdentity(screen)

\* Tab and Shift-Tab stay within the dialog.
MoveFocus ==
  /\ open /\ InDialog /\ focus' \in {"first", "later"} \ {focus}
  /\ UNCHANGED <<tabVars, ownVars, payload, screen, wanted, field, askedToQuit, dirty, open>>

\* A click on a component of the drawn dialog; one that the presenter no longer
\* has takes the keyboard with it.
PointAt(where) ==
  /\ open /\ screen # None /\ focus # where /\ focus' = where
  /\ IF where = "window" THEN ~IsDrawn ELSE payload # None
  /\ UNCHANGED <<tabVars, ownVars, payload, screen, wanted, field, askedToQuit, dirty, open>>

\* complete_current_if: is the request d still the first one?
IsCurrent(d) == modals # <<>> /\ Head(modals) = d
Answered(k, d) == Acts(k, d) /\ IsCurrent(d)

\* The prompt is drawn by the time the key arrives.
TypeSecret ==
  /\ open /\ payload # None /\ payload.kind = "Secret" /\ focus = "first"
  /\ field' = payload.id /\ screen' = payload
  /\ UNCHANGED <<tabVars, ownVars, payload, focus, wanted, askedToQuit, dirty, open>>

\* Without text the user is told that a secret is needed. Otherwise the session
\* is started, which may fail at once.
SubmitSecret(d) ==
  /\ Answered("Secret", d) /\ dirty' = TRUE
  /\ \/ field = None /\ UNCHANGED <<tabVars, field>>
     \/ /\ field # None /\ field' = None
        /\ \/ modals' = Tail(modals) /\ UNCHANGED tab
           \/ modals' = Without(modals, d.id) /\ tab' = [tab EXCEPT ![d.id] = "ended"]
        /\ UNCHANGED closing
  /\ UNCHANGED <<ownVars, payload, screen, focus, wanted, askedToQuit, open>>

CancelSecret(d) ==
  /\ Answered("Secret", d)
  /\ field' = None /\ RemoveTab(d.id, Tail(modals))
  /\ dirty' = TRUE /\ UNCHANGED <<ownVars, payload, screen, focus, wanted, askedToQuit, open>>

\* decide_host_key, open_trusted_hosts, close_changed_host_key, cancel_tab_close:
\* what else they do is in Tabs.
AnswerModal(d) ==
  /\ \E k \in {"HostKey", "ChangedHostKey", "ConfirmClose"} : Answered(k, d)
  /\ modals' = Tail(modals)
  /\ dirty' = TRUE /\ UNCHANGED <<tab, closing, ownVars, drawVars, open>>

\* The tab waits for its session, or goes at once when it has none.
ConfirmClose(d) ==
  /\ Answered("ConfirmClose", d)
  /\ \/ /\ HasSession(d.id) /\ closing' = closing \cup {d.id}
        /\ modals' = Tail(modals) /\ UNCHANGED tab
     \/ RemoveTab(d.id, Tail(modals))
  /\ dirty' = TRUE /\ UNCHANGED <<ownVars, drawVars, open>>

\* A save is one of a form that is valid. An editor that is saving takes neither
\* Enter nor a click on its Save button.
SaveEditor(d) ==
  /\ Acts("Editor", d) /\ ~d.busy /\ editor # None /\ saving = None
  /\ saving' = editor
  /\ UNCHANGED <<tabVars, things, editor, confirm, manager, drawVars, dirty, open>>

\* Esc does nothing in an editor that is saving; its Cancel button always works.
CancelEditor(d) ==
  /\ Acts("Editor", d) /\ (d = screen \/ ~d.busy) /\ editor' = None
  /\ dirty' = TRUE
  /\ UNCHANGED <<tabVars, things, saving, confirm, manager, drawVars, open>>

\* The spawned save: it stores something, fails, or stores and cannot read back
\* what it stored.
SaveEnds ==
  /\ open /\ saving # None /\ saving' = None
  /\ \/ /\ editor' = IF editor = saving THEN None ELSE editor
        /\ things' \in {things \cup {x} : x \in Things} /\ dirty' = TRUE
     \/ UNCHANGED <<editor, things>> /\ dirty' = TRUE
     \/ UNCHANGED <<editor, dirty, things>>
  /\ UNCHANGED <<tabVars, confirm, manager, drawVars, open>>

CloseManager(d) ==
  /\ Acts("TagManager", d) /\ manager' = FALSE
  /\ dirty' = TRUE
  /\ UNCHANGED <<tabVars, things, editor, saving, confirm, drawVars, open>>

CancelConfirm(d) ==
  /\ Acts("Confirm", d) /\ confirm' = None
  /\ dirty' = TRUE
  /\ UNCHANGED <<tabVars, things, editor, saving, manager, drawVars, open>>

\* The window goes with everything in it.
Gone ==
  /\ open' = FALSE /\ tab' = [t \in Tabs |-> "none"] /\ closing' = {} /\ modals' = <<>>
  /\ editor' = None /\ saving' = None /\ confirm' = None /\ manager' = FALSE
  /\ payload' = None /\ screen' = None /\ focus' = "window" /\ wanted' = FALSE /\ field' = None
  /\ askedToQuit' = FALSE /\ dirty' = FALSE
  /\ UNCHANGED things

\* perform_confirm: it does what AppView.confirm asks by now. A deletion may
\* fail; the one of a profile is spawned, which Editing tells apart.
PerformConfirm(d) ==
  /\ Acts("Confirm", d)
  /\ \/ confirm \in Quits /\ Gone
     \/ /\ confirm \in Things /\ confirm' = None
        /\ things' \in {things, things \ {confirm}}
        /\ dirty' = TRUE
        /\ UNCHANGED <<tabVars, editor, saving, manager, drawVars, open>>

-----------------------------------------------------------------------------
(* The rest of the window, and shortcuts.                                  *)

Click(where) ==
  /\ AtWindow /\ where \in {"terminal", "window"} \ {focus}
  /\ focus' = where
  /\ UNCHANGED <<tabVars, ownVars, payload, screen, wanted, field, askedToQuit, dirty, open>>

\* Delete, next to something that exists; for a tag, in the manager.
RequestDelete(x) ==
  /\ AtWindow \/ (open /\ screen # None /\ screen.kind = "TagManager")
  /\ x \in things /\ confirm' = x
  /\ dirty' = TRUE
  /\ UNCHANGED <<tabVars, things, editor, saving, manager, drawVars, open>>

OpenManager ==
  /\ AtWindow /\ ~manager /\ manager' = TRUE
  /\ dirty' = TRUE
  /\ UNCHANGED <<tabVars, things, editor, saving, confirm, drawVars, open>>

\* By a button, or by the shortcut when there is no editor.
OpenEditor(id) ==
  /\ open /\ (AtWindow \/ editor = None)
  /\ id \notin IdsInUse \cup {editor, saving}
  /\ editor' = id
  /\ dirty' = TRUE
  /\ UNCHANGED <<tabVars, things, saving, confirm, manager, drawVars, open>>

\* Mutant: tabs that still ask for something do not count.
HasConnectedTabs == \E t \in Tabs : tab[t] = "connected"

\* has_live_tabs: tabs that are not disconnected.
HasLiveTabs == Live # {}

\* The button of the window and the shortcut to quit.
Leave(how) ==
  /\ open
  /\ IF HasLiveTabs
     THEN /\ confirm' = how /\ askedToQuit' = TRUE /\ dirty' = TRUE
          /\ UNCHANGED <<tabVars, things, editor, saving, manager, payload, screen, focus, wanted,
                         field, open>>
     ELSE Gone

\* open_window_unless_exists, or the program is started again.
OpenWindow ==
  /\ ~open /\ open' = TRUE
  /\ UNCHANGED <<tabVars, ownVars, drawVars, dirty>>

-----------------------------------------------------------------------------
TabStep ==
  \E t \in Tabs :
    \/ \E b \in BOOLEAN : OpenTab(t, b) \/ SessionEnds(t, b) \/ Reconnect(t, b)
    \/ \E k \in {"HostKey", "Secret"} : SessionAsks(t, k)
    \/ SessionTells(t) \/ RequestClose(t) \/ CloseTimer(t)

DialogStep ==
  \/ \E d \in {payload, screen} :
       \/ SubmitSecret(d) \/ CancelSecret(d) \/ ConfirmClose(d) \/ AnswerModal(d)
       \/ SaveEditor(d) \/ CancelEditor(d) \/ CloseManager(d)
       \/ CancelConfirm(d) \/ PerformConfirm(d)
  \/ \E where \in {"first", "later", "window"} : PointAt(where)
  \/ MoveFocus \/ TypeSecret \/ SaveEnds

WindowStep ==
  \/ \E where \in {"terminal", "window"} : Click(where)
  \/ \E x \in Things : RequestDelete(x)
  \/ \E id \in EditorIds : OpenEditor(id)
  \/ \E how \in Quits : Leave(how)
  \/ OpenManager \/ OpenWindow

Next == Draw \/ TabStep \/ DialogStep \/ WindowStep

Spec == Init /\ [][Next]_vars
-----------------------------------------------------------------------------
(* Properties.                                                             *)

TypeOK ==
  /\ tab \in [Tabs -> {"none", "live", "connected", "ended"}] /\ closing \subseteq Tabs
  /\ modals \in Seq([kind : ModalKinds, id : Tabs, busy : {FALSE}])
  /\ things \subseteq Things
  /\ editor \in EditorIds \cup {None} /\ saving \in EditorIds \cup {None}
  /\ confirm \in Things \cup Quits \cup {None} /\ manager \in BOOLEAN
  /\ payload \in Dialogs \cup {None} /\ screen \in Dialogs \cup {None}
  /\ focus \in {"terminal", "window", "first", "later"} /\ wanted \in BOOLEAN
  /\ field \in Tabs \cup {None} /\ askedToQuit \in BOOLEAN /\ dirty \in BOOLEAN /\ open \in BOOLEAN

(* No request is forgotten on the way to the screen: frames go on as long  *)
(* as a dialog is asked for or shown.                                      *)
WhatIsAskedIsShown == ~dirty => Requested = None /\ payload = None /\ screen = None

(* All prompts share one field. What is in it was typed for the tab that   *)
(* the prompt names, the one the presenter has and the one on the screen,  *)
(* so that no secret goes to the server of another tab.                    *)
SecretStaysWithItsTab ==
  \A d \in {payload, screen} \ {None} : d.kind = "Secret" => field \in {None, d.id}

\* A question that is drawn as the presenter has it is the one that would be
\* answered, unless the user has asked to quit since.
QuestionIsShown ==
  screen = payload /\ screen # None /\ screen.kind = "Confirm" =>
    confirm \in {screen.id, None} \/ (askedToQuit /\ confirm \in Quits)

(* The inductive invariant.                                                *)
DInv ==
  /\ ~open => payload = None /\ screen = None
  /\ InDialog => payload # None
  /\ WhatIsAskedIsShown /\ SecretStaysWithItsTab /\ QuestionIsShown
IInv == TypeOK /\ DInv

(* A dialog has the keyboard, so that what is typed there cannot reach a   *)
(* shell: it takes it when the presenter gets it, and once it is on the    *)
(* screen nothing takes it away, whatever the sessions do. Only a click on *)
(* the frame before it does: nothing brings the keyboard back after that.  *)
KeysStayInTheDialog ==
  [][ payload' # None /\ ~InDialog' =>
        /\ payload # None /\ FocusIdentity(payload') = FocusIdentity(payload)
        /\ InDialog => ~IsDrawn ]_vars

(* A redraw leaves the user alone: as long as the presenter has the same   *)
(* dialog neither the keyboard nor the text being typed is touched.        *)
TypingIsNotDisturbed ==
  [][ payload # None /\ payload' # None /\ FocusIdentity(payload') = FocusIdentity(payload) /\ Draw
        => UNCHANGED <<focus, field>> ]_vars

\* Does the presenter have a question, or the screen?
Asking == \E d \in {payload, screen} \ {None} : d.kind = "Confirm"

(* Nothing is lost without a question. What is deleted was asked about     *)
(* last, and when the user sees what the presenter has, it is what the     *)
(* question on the screen names. The window goes with tabs that are not    *)
(* disconnected only after the user asked to quit, and with that question  *)
(* on the screen, unless he asked after the frame was drawn or answered    *)
(* before the frame with the question.                                     *)
NothingIsLostUnasked ==
  [][ /\ \A x \in things \ things' :
           Asking /\ confirm = x /\ (screen = payload => screen.id = x)
      /\ open /\ ~open' /\ Live # {} =>
           /\ Asking /\ confirm \in Quits
           /\ screen = payload /\ ~askedToQuit => screen.id = confirm ]_vars
=============================================================================
