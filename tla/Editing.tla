------------------------------ MODULE Editing ------------------------------
(***************************************************************************)
(* The dialogs that change the configuration: the connection editor        *)
(* (editor.rs), the tag manager (tags.rs), the confirmations of a deletion *)
(* (session.rs, perform_confirm) and the settings (mod.rs). All of it runs *)
(* on the interface thread. A save and a deletion of a profile are spawned *)
(* there and run later, in one piece; everything else happens in the click *)
(* itself. Committing the manager's rows is one click too, of one write to *)
(* the file per changed row: while rows are due nothing else happens.      *)
(*                                                                         *)
(* The dialog on the screen is the one the state asks for. A shortcut may  *)
(* open an editor over another dialog.                                     *)
(***************************************************************************)
EXTENDS Configuration

CONSTANT EditorIds   \* an editor's id, drawn at random

VARIABLES
  editor,    \* AppView.editor: its id, the profile it is for and the tags on its form
  saving,    \* AppView.saving_editor and the request that was spawned
  deleting,  \* the profiles whose deletion was spawned
  confirm,   \* AppView.confirm
  manager    \* AppView.tag_manager

dialogs == <<editor, saving, deleting, confirm, manager>>
vars    == <<configVars, dialogs>>

Forms    == [id : EditorIds, profile : Profiles, tags : SUBSET Tags]
Confirms == {"tag"} \X Tags \cup {"profile"} \X Profiles

\* None stands for no question, and no question for None.
ASSUME ConfirmAssumption == None \notin Confirms

\* rows: what each row's name field holds, and the colour it shows.
\* focus: the row whose name is being typed. due: rows still to be committed.
Managers == [rows : [Tags -> TagData \cup {None}], focus : Tags \cup {None},
             due : SUBSET Tags, closing : BOOLEAN]

\* Is the click before this one over, and is a configuration loaded?
AtRest == manager # None => manager.due = {} /\ ~manager.closing
Ready  == AtRest /\ cache # None

AtSidebar == Ready /\ editor = None /\ confirm = None /\ manager = None
AtEditor  == Ready /\ editor # None
AtConfirm == Ready /\ editor = None /\ confirm # None
AtManager == Ready /\ editor = None /\ confirm = None /\ manager # None

-----------------------------------------------------------------------------
(* The connection editor.                                                  *)

\* Ids in use somewhere; a new one differs from them.
Copy == IF cache = None THEN Default ELSE cache
UsedProfiles ==
  {p \in Profiles :
     \/ p \in Stored(Copy) \/ p \in deleting \/ confirm = <<"profile", p>>
     \/ file \in Config /\ p \in Stored(file)
     \/ saving # None /\ saving.profile = p}
UsedTags ==
  {t \in Tags :
     \/ t \in Registered(cache) \/ t \in filter.tags \/ confirm = <<"tag", t>>
     \/ \E p \in Stored(cache) : t \in cache.profiles[p].tags
     \/ file \in Config /\ (t \in Registered(file) \/ \E p \in Stored(file) : t \in file.profiles[p].tags)
     \/ \E f \in {editor, saving} \ {None} : t \in f.tags
     \/ manager # None /\ manager.rows[t] # None}

Open(id, p, tags) ==
  /\ saving # None => saving.id # id
  /\ editor' = [id |-> id, profile |-> p, tags |-> tags]
  /\ UNCHANGED <<configVars, saving, deleting, confirm, manager>>

\* Add a connection, by a button or by the shortcut, which the recovery screen
\* takes too.
ShowAdd(id, p) ==
  /\ AtRest /\ editor = None /\ p \notin UsedProfiles
  /\ Open(id, p, {})

ShowEdit(id, p) == AtSidebar /\ p \in Stored(cache) /\ Open(id, p, cache.profiles[p].tags)

CancelEditor ==
  /\ AtRest /\ editor # None /\ editor' = None
  /\ UNCHANGED <<configVars, saving, deleting, confirm, manager>>

\* A click on one of the tags the editor lists.
ToggleEditorTag(t) ==
  /\ AtEditor /\ t \in Registered(cache)
  /\ editor' = [editor EXCEPT !.tags = IF t \in @ THEN @ \ {t} ELSE @ \cup {t}]
  /\ UNCHANGED <<configVars, saving, deleting, confirm, manager>>

\* AppState::create_tag writes this.
WithTag(t, data) == [cache EXCEPT !.tags[t] = data]
Fresh(t, n)      == t \notin UsedTags /\ n # Blank
NewTag(n)        == [name |-> n, color |-> None]

CreateTagFromEditor(t, n) ==
  /\ AtEditor /\ Fresh(t, n)
  /\ \/ SaveOk(WithTag(t, NewTag(n))) /\ editor' = [editor EXCEPT !.tags = @ \cup {t}]
     \/ SaveErr(WithTag(t, NewTag(n))) /\ UNCHANGED editor
  /\ UNCHANGED <<filter, saving, deleting, confirm, manager>>

\* One save at a time, of any editor. A form that is not valid is refused and
\* nothing happens.
SaveEditor ==
  /\ AtEditor /\ saving = None
  /\ saving' = editor
  /\ UNCHANGED <<configVars, editor, deleting, confirm, manager>>

\* Mutant: the editor on the screen is taken for the one that was saved.
CloseAnyEditor == editor' = None

\* An editor that was opened meanwhile stays.
CloseSavedEditor ==
  editor' = IF editor # None /\ editor.id = saving.id THEN None ELSE editor

\* The spawned save. When the configuration cannot be read back the editor stays.
Saved ==
  /\ Ready /\ saving # None
  /\ LET data == [tags |-> saving.tags, sound |-> TRUE]
     IN  \/ UpdateOk(saving.profile, data)
            /\ IF behind' THEN UNCHANGED editor ELSE CloseSavedEditor
         \/ UpdateErr(saving.profile, data) /\ UNCHANGED editor
  /\ saving' = None
  /\ UNCHANGED <<filter, deleting, confirm, manager>>

-----------------------------------------------------------------------------
(* Deletions.                                                              *)

RequestDeleteProfile(p) ==
  /\ AtSidebar /\ p \in Stored(cache)
  /\ confirm' = <<"profile", p>>
  /\ UNCHANGED <<configVars, editor, saving, deleting, manager>>

\* The deletion is spawned if the profile is still there.
ConfirmDeleteProfile(p) ==
  /\ AtConfirm /\ confirm = <<"profile", p>>
  /\ confirm' = None
  /\ deleting' = IF p \in Stored(cache) THEN deleting \cup {p} ELSE deleting
  /\ UNCHANGED <<configVars, editor, saving, manager>>

CancelConfirm ==
  /\ AtConfirm /\ confirm' = None
  /\ UNCHANGED <<configVars, editor, saving, deleting, manager>>

\* The spawned deletion; without the profile it fails after the write.
DeletedProfile(p) ==
  /\ Ready /\ p \in deleting
  /\ \/ p \in Stored(Content(file)) /\ UpdateOk(p, None)
     \/ /\ CanStore(WithProfile(p, None)) /\ p \notin Stored(Content(file))
        /\ file' = WithProfile(p, None) /\ UNCHANGED <<cache, behind, faults>>
     \/ UpdateErr(p, None)
  /\ deleting' = deleting \ {p}
  /\ UNCHANGED <<filter, editor, saving, confirm, manager>>

\* Mutant: the dialogs keep the tag.
KeepInDialogs(t) == UNCHANGED <<editor, manager>>

\* handle_tag_deleted.
DropFromDialogs(t) ==
  /\ manager' = IF manager = None THEN None
                ELSE [manager EXCEPT !.rows[t] = None, !.focus = IF @ = t THEN None ELSE @]
  /\ editor' = IF editor = None THEN None ELSE [editor EXCEPT !.tags = @ \ {t}]

\* The configuration without the registry entry.
WithoutEntry(t) == [cache EXCEPT !.tags[t] = None]

\* The configuration without the tag and the references to it.
WithoutTag(t) == WithoutTags(WithoutEntry(t), {t})

DeleteTag(t) ==
  \/ /\ SaveOk(WithoutTag(t))
     /\ filter' = [filter EXCEPT !.tags = @ \ {t}] /\ DropFromDialogs(t)
  \/ SaveErr(WithoutTag(t)) /\ UNCHANGED <<filter, editor, manager>>

\* profiles_with_tag finds some.
InUse(t) == \E p \in Stored(cache) : t \in cache.profiles[p].tags

RequestTagDelete(t) ==
  /\ AtManager /\ manager.rows[t] # None
  /\ \/ InUse(t) /\ confirm' = <<"tag", t>> /\ UNCHANGED <<configVars, editor, manager>>
     \/ ~InUse(t) /\ DeleteTag(t) /\ UNCHANGED confirm
  /\ UNCHANGED <<saving, deleting>>

ConfirmDeleteTag(t) ==
  /\ AtConfirm /\ confirm = <<"tag", t>>
  /\ confirm' = None /\ DeleteTag(t)
  /\ UNCHANGED <<saving, deleting>>

-----------------------------------------------------------------------------
(* The tag manager.                                                        *)

OpenManager ==
  /\ AtSidebar
  /\ manager' = [rows |-> cache.tags, focus |-> None, due |-> {}, closing |-> FALSE]
  /\ UNCHANGED <<configVars, editor, saving, deleting, confirm>>

TypeName(t, n) ==
  /\ AtManager /\ manager.rows[t] # None /\ manager.focus \in {None, t}
  /\ manager' = [manager EXCEPT !.rows[t].name = n, !.focus = t]
  /\ UNCHANGED <<configVars, editor, saving, deleting, confirm>>

\* The row shows the stored name again.
Reset(t, m) == manager' = [m EXCEPT !.rows[t].name = cache.tags[t].name]

\* apply_tag_update on the row of t in the manager m. A tag that the copy does
\* not have is reported as updated.
Apply(t, data, m) ==
  LET stored == [m EXCEPT !.rows[t] = data]
  IN  \/ /\ cache.tags[t] = data /\ manager' = m
         /\ UNCHANGED <<file, cache, behind, faults>>
      \/ /\ cache.tags[t] = None /\ manager' = stored
         /\ UNCHANGED <<file, cache, behind, faults>>
      \/ /\ cache.tags[t] \notin {None, data}
         /\ \/ SaveOk(WithTag(t, data)) /\ manager' = stored
            \/ SaveErr(WithTag(t, data)) /\ Reset(t, m)

\* The name of a row loses the focus, or the rows are committed one by one.
\* A blank name is left as it is.
Commit(t, m) ==
  \/ m.rows[t] # None /\ m.rows[t].name # Blank /\ Apply(t, m.rows[t], m)
  \/ /\ m.rows[t] = None \/ m.rows[t].name = Blank
     /\ manager' = m /\ UNCHANGED <<file, cache, behind, faults>>

LeaveField ==
  /\ Ready /\ manager # None /\ manager.focus # None
  /\ Commit(manager.focus, [manager EXCEPT !.focus = None])
  /\ UNCHANGED <<filter, editor, saving, deleting, confirm>>

\* Enter commits every row; Esc and the button also close the manager.
CommitRows(close) ==
  /\ AtManager
  /\ manager' = [manager EXCEPT !.due = {t \in Tags : manager.rows[t] # None}, !.closing = close]
  /\ UNCHANGED <<configVars, editor, saving, deleting, confirm>>
CommitRow(t) ==
  /\ manager # None /\ t \in manager.due
  /\ Commit(t, [manager EXCEPT !.due = @ \ {t}])
  /\ UNCHANGED <<filter, editor, saving, deleting, confirm>>
ManagerCloses ==
  /\ manager # None /\ manager.due = {} /\ manager.closing
  /\ manager' = None
  /\ UNCHANGED <<configVars, editor, saving, deleting, confirm>>

\* The colour takes the name that is being typed with it.
SetTagColor(t, c) ==
  /\ AtManager /\ manager.rows[t] # None
  /\ LET typed == manager.rows[t].name
         name  == IF typed # Blank THEN typed ELSE cache.tags[t].name
     IN  /\ typed = Blank => cache.tags[t] # None
         /\ Apply(t, [name |-> name, color |-> c], manager)
  /\ UNCHANGED <<filter, editor, saving, deleting, confirm>>

CreateTagFromManager(t, n) ==
  /\ AtManager /\ Fresh(t, n)
  /\ \/ SaveOk(WithTag(t, NewTag(n))) /\ manager' = [manager EXCEPT !.rows[t] = NewTag(n)]
     \/ SaveErr(WithTag(t, NewTag(n))) /\ UNCHANGED manager
  /\ UNCHANGED <<filter, editor, saving, deleting, confirm>>

-----------------------------------------------------------------------------
(* The window.                                                             *)

Init ==
  /\ ConfigInit
  /\ editor = None /\ saving = None /\ deleting = {} /\ confirm = None /\ manager = None

\* A window opens, or the user retries; neither with a dialog on the screen.
Start == Load /\ editor = None /\ UNCHANGED dialogs

\* The window is closed, or the process stops; a spawned call that has not run
\* is lost.
Close ==
  /\ cache # None \/ editor # None
  /\ cache' = None /\ filter' = NoFilter /\ behind' = FALSE
  /\ editor' = None /\ saving' = None /\ deleting' = {} /\ confirm' = None /\ manager' = None
  /\ UNCHANGED <<file, faults>>

\* Language, theme and the action of a new tab.
ChangeSettings(s) ==
  /\ AtSidebar
  /\ LET c == [cache EXCEPT !.settings = s] IN SaveOk(c) \/ SaveErr(c)
  /\ UNCHANGED <<filter, dialogs>>

SetFilter ==
  /\ AtSidebar
  /\ (\E t \in Tags : ToggleTagFilter(t)) \/ ToggleUntaggedFilter \/ ClearTagFilter
  /\ UNCHANGED <<file, cache, behind, faults, dialogs>>

Outside == EditOutside /\ UNCHANGED dialogs

EditorStep ==
  \/ \E id \in EditorIds, p \in Profiles : ShowAdd(id, p) \/ ShowEdit(id, p)
  \/ \E t \in Tags : ToggleEditorTag(t)
  \/ \E t \in Tags, n \in Names : CreateTagFromEditor(t, n)
  \/ CancelEditor \/ SaveEditor \/ Saved

DeletionStep ==
  \/ \E p \in Profiles :
        RequestDeleteProfile(p) \/ ConfirmDeleteProfile(p) \/ DeletedProfile(p)
  \/ \E t \in Tags : RequestTagDelete(t) \/ ConfirmDeleteTag(t)
  \/ CancelConfirm

ManagerStep ==
  \/ OpenManager \/ LeaveField \/ ManagerCloses
  \/ \E close \in BOOLEAN : CommitRows(close)
  \/ \E t \in Tags : CommitRow(t)
  \/ \E t \in Tags, n \in Names : TypeName(t, n) \/ CreateTagFromManager(t, n)
  \/ \E t \in Tags, c \in Colors \cup {None} : SetTagColor(t, c)

Next ==
  \/ Start \/ Close \/ Outside \/ SetFilter
  \/ \E s \in Settings : ChangeSettings(s)
  \/ EditorStep \/ DeletionStep \/ ManagerStep

Spec == Init /\ [][Next]_vars

-----------------------------------------------------------------------------
(* Properties.                                                             *)

(* Types: the shapes of the state.                                         *)
TypeOK ==
  /\ file \in Config \cup {Missing, Damaged}
  /\ cache \in Config \cup {None}
  /\ filter \in [tags : SUBSET Tags, untagged : BOOLEAN]
  /\ behind \in BOOLEAN /\ faults \subseteq Faults
  /\ editor \in Forms \cup {None} /\ saving \in Forms \cup {None}
  /\ deleting \subseteq Profiles /\ confirm \in Confirms \cup {None}
  /\ manager \in Managers \cup {None}

\* The configuration a start would load from the file f.
Seen(f) == Prune(Content(f))

(* Two ways of writing do not lose each other's changes: while the copy is *)
(* current, a stored profile changes only by its own save or deletion, or  *)
(* loses the tag that the user was asked about and that is deleted. And a  *)
(* file that cannot be read is left to the user, whatever is clicked.      *)
NothingStoredIsLost ==
  [][ ~Outside =>
        /\ file = Damaged => file' = Damaged
        /\ cache # None /\ ~behind =>
             \A p \in Profiles :
               \/ Seen(file').profiles[p] = Seen(file).profiles[p]
               \/ saving # None /\ saving' = None /\ saving.profile = p
               \/ p \in deleting \ deleting'
               \/ \E t \in Registered(Seen(file)) \ Registered(Seen(file')) :
                    /\ confirm = <<"tag", t>>
                    /\ Seen(file').profiles[p] = Stripped(Seen(file), p, {t}) ]_vars

(* A save that ends while another editor is on the screen leaves that one  *)
(* alone; the editor it does close was open for what is now stored.        *)
SavesCloseTheirOwnEditor ==
  [][ (saving # None /\ saving' = None /\ cache' # None /\ editor' # editor) =>
        /\ editor.id = saving.id /\ editor.profile = saving.profile
        /\ Seen(file').profiles[saving.profile].tags = saving.tags ]_vars

\* A change of the file that the window took for one that failed, or never saw.
Unnoticed == faults \cap {"late", "outside"} # {}

(* The dialogs follow the configuration. When a tag is gone, nothing on    *)
(* the screen refers to it any more: not the filter, which would hide every*)
(* profile, not a form, which could never be saved, not a row or a         *)
(* question. And a row that is not being typed shows what is stored, also  *)
(* after a name was refused: its field may only be blank.                  *)
DialogsFollow ==
  cache # None /\ ~Unnoticed =>
    /\ filter.tags \subseteq Registered(cache)
    /\ editor # None => editor.tags \subseteq Registered(cache)
    /\ \A t \in Tags : confirm = <<"tag", t>> => t \in Registered(cache)
    /\ manager # None =>
         \A t \in Tags :
           manager.rows[t] # None =>
             /\ t \in Registered(cache)
             /\ manager.rows[t].color = cache.tags[t].color
             /\ manager.rows[t].name # cache.tags[t].name =>
                  t = manager.focus \/ manager.rows[t].name = Blank

-----------------------------------------------------------------------------
(* The inductive invariant.                                                *)

(* The interface works on a configuration that a start would accept, and,  *)
(* unless a change of the file went past it, on the one a start would find:*)
(* whatever was saved comes back after a restart.                          *)
CopyIsCurrent ==
  /\ cache # None => Valid(cache)
  /\ cache # None /\ ~behind => Readable /\ cache = Seen(file)

\* Only a profile can be newer in the file than in the copy.
SameTags == cache # None /\ ~Unnoticed => Readable /\ Content(file).tags = cache.tags

\* Without a copy there is nothing but an editor.
NothingWithoutCopy ==
  cache = None => filter = NoFilter /\ saving = None /\ deleting = {} /\ confirm = None /\ manager = None

\* The editor that is being saved is known by its id.
EditorsDiffer ==
  editor # None /\ saving # None /\ editor.id = saving.id => editor.profile = saving.profile

(* What the dialogs show follows from it, and so does what they do.        *)
IInv == TypeOK /\ CopyIsCurrent /\ SameTags /\ NothingWithoutCopy /\ EditorsDiffer
=============================================================================
