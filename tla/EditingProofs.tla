--------------------------- MODULE EditingProofs ---------------------------
(* Proofs about Editing, for any tags, profiles, names and faults, and for  *)
(* a file that others change as often as they like.                         *)
EXTENDS Editing, TLAPS

-----------------------------------------------------------------------------
(* Configurations.                                                         *)

\* The part of the types that the operations on the file and the copy need.
ConfigType ==
  /\ file \in Config \cup {Missing, Damaged}
  /\ cache \in Config \cup {None}
  /\ behind \in BOOLEAN /\ faults \subseteq Faults

LEMMA ConfigShape ==
  ASSUME NEW c \in Config
  PROVE  /\ c.tags \in [Tags -> TagData \cup {None}]
         /\ c.profiles \in [Profiles -> ProfileData \cup {None}]
         /\ c.settings \in Settings
         /\ c # None /\ c # Missing /\ c # Damaged
BY ConstantsAssumption DEF Config

LEMMA MakeConfig ==
  ASSUME NEW tags \in [Tags -> TagData \cup {None}],
         NEW profiles \in [Profiles -> ProfileData \cup {None}], NEW settings \in Settings
  PROVE  [tags |-> tags, profiles |-> profiles, settings |-> settings] \in Config
BY DEF Config

LEMMA SameConfig ==
  ASSUME NEW c \in Config, NEW d \in Config,
         c.tags = d.tags, c.profiles = d.profiles, c.settings = d.settings
  PROVE  c = d
BY DEF Config

LEMMA ContentType ==
  ASSUME file \in Config \cup {Missing, Damaged} PROVE Content(file) \in Config
<1>1. Default \in Config
  BY ConstantsAssumption, MakeConfig DEF Default
<1> QED BY <1>1, ConfigShape DEF Content

LEMMA WithTagsGone ==
  ASSUME NEW c \in Config, NEW gone \in SUBSET Tags
  PROVE  LET d == WithoutTags(c, gone) IN
         /\ d \in Config /\ d.tags = c.tags /\ d.settings = c.settings
         /\ \A p \in Profiles : d.profiles[p] = Stripped(c, p, gone)
<1> DEFINE ps == [p \in Profiles |-> Stripped(c, p, gone)]
<1>1. ps \in [Profiles -> ProfileData \cup {None}]
  <2> SUFFICES ASSUME NEW p \in Profiles PROVE Stripped(c, p, gone) \in ProfileData \cup {None}
    OBVIOUS
  <2>1. c.profiles[p] \in ProfileData \cup {None}
    BY ConfigShape
  <2> QED BY <2>1 DEF Stripped, ProfileData
<1> HIDE DEF ps
<1>2. [c EXCEPT !.profiles = ps] \in Config
  BY <1>1 DEF Config
<1>3. /\ [c EXCEPT !.profiles = ps].tags = c.tags
      /\ [c EXCEPT !.profiles = ps].settings = c.settings
      /\ [c EXCEPT !.profiles = ps].profiles = ps
  BY DEF Config
<1> QED BY <1>2, <1>3 DEF WithoutTags, ps

LEMMA StrippedOfNothing ==
  ASSUME NEW c \in Config, NEW p \in Profiles, NEW gone,
         c.profiles[p] # None => c.profiles[p].tags \cap gone = {}
  PROVE  Stripped(c, p, gone) = c.profiles[p]
<1>1. CASE c.profiles[p] = None
  BY <1>1 DEF Stripped
<1>2. CASE c.profiles[p] # None
  <2>1. c.profiles[p] \in ProfileData
    BY <1>2, ConfigShape
  <2>2. c.profiles[p].tags \ gone = c.profiles[p].tags
    BY <1>2
  <2> QED BY <1>2, <2>1, <2>2 DEF Stripped, ProfileData
<1> QED BY <1>1, <1>2

\* A load changes nothing in a configuration whose references resolve.
LEMMA PruneOfValid ==
  ASSUME NEW c \in Config, RefsResolve(c) PROVE Prune(c) = c
<1> DEFINE gone == Tags \ Registered(c)
<1>1. \A p \in Profiles : Stripped(c, p, gone) = c.profiles[p]
  BY StrippedOfNothing DEF RefsResolve, Stored
<1>2. /\ Prune(c) \in Config /\ Prune(c).tags = c.tags /\ Prune(c).settings = c.settings
      /\ \A p \in Profiles : Prune(c).profiles[p] = Stripped(c, p, gone)
  BY WithTagsGone DEF Prune
<1>3. Prune(c).profiles = c.profiles
  <2> DEFINE d == Prune(c)
  <2>1. \A p \in Profiles : d.profiles[p] = c.profiles[p]
    BY <1>1, <1>2
  <2>2. d \in Config
    BY <1>2
  <2> HIDE DEF d
  <2>3. /\ d.profiles \in [Profiles -> ProfileData \cup {None}]
        /\ c.profiles \in [Profiles -> ProfileData \cup {None}]
    BY <2>2, ConfigShape
  <2> QED BY <2>1, <2>3 DEF d
<1> QED BY <1>2, <1>3, SameConfig

LEMMA PruneType ==
  ASSUME NEW c \in Config PROVE Prune(c) \in Config /\ Prune(c).tags = c.tags
BY WithTagsGone DEF Prune

\* What was stored is what a start finds.
LEMMA StoredIsSeen ==
  ASSUME NEW c \in Config, CanStore(c), file' = c
  PROVE  Content(file') = c /\ Seen(file') = c
BY PruneOfValid, ConfigShape DEF CanStore, Valid, Content, Seen

LEMMA WithTagType ==
  ASSUME cache \in Config, NEW t \in Tags, NEW data \in TagData
  PROVE  /\ WithTag(t, data) \in Config /\ WithTag(t, data).profiles = cache.profiles
         /\ WithTag(t, data).tags = [cache.tags EXCEPT ![t] = data]
<1> DEFINE tags == [cache.tags EXCEPT ![t] = data]
<1>1. tags \in [Tags -> TagData \cup {None}]
  BY ConfigShape
<1> HIDE DEF tags
<1>2. [cache EXCEPT !.tags = tags] \in Config
  BY <1>1 DEF Config
<1>3. [cache EXCEPT !.tags = tags].tags = tags /\ [cache EXCEPT !.tags = tags].profiles = cache.profiles
  BY DEF Config
<1> QED BY <1>2, <1>3 DEF WithTag, tags

LEMMA WithProfileType ==
  ASSUME file \in Config \cup {Missing, Damaged}, NEW p \in Profiles, NEW data \in ProfileData \cup {None}
  PROVE  /\ WithProfile(p, data) \in Config /\ WithProfile(p, data).tags = Content(file).tags
         /\ WithProfile(p, data).settings = Content(file).settings
         /\ WithProfile(p, data).profiles = [Content(file).profiles EXCEPT ![p] = data]
<1> DEFINE c == Content(file)
           ps == [c.profiles EXCEPT ![p] = data]
<1>1. c \in Config /\ ps \in [Profiles -> ProfileData \cup {None}]
  BY ContentType, ConfigShape
<1> HIDE DEF c, ps
<1>2. [c EXCEPT !.profiles = ps] \in Config
  BY <1>1 DEF Config
<1>3. /\ [c EXCEPT !.profiles = ps].tags = c.tags /\ [c EXCEPT !.profiles = ps].settings = c.settings
      /\ [c EXCEPT !.profiles = ps].profiles = ps
  BY <1>1 DEF Config
<1> QED BY <1>2, <1>3 DEF WithProfile, c, ps

\* The configuration without a tag.
LEMMA WithoutTagType ==
  ASSUME cache \in Config, NEW t \in Tags
  PROVE  /\ WithoutTag(t) \in Config
         /\ WithoutTag(t).tags = [cache.tags EXCEPT ![t] = None]
         /\ \A p \in Profiles : WithoutTag(t).profiles[p] = Stripped(cache, p, {t})
<1> DEFINE tags == [cache.tags EXCEPT ![t] = None]
<1>1. tags \in [Tags -> TagData \cup {None}]
  BY ConfigShape
<1> HIDE DEF tags
<1>2. /\ [cache EXCEPT !.tags = tags] \in Config
      /\ [cache EXCEPT !.tags = tags].tags = tags
      /\ [cache EXCEPT !.tags = tags].profiles = cache.profiles
  BY <1>1 DEF Config
<1>3. /\ WithoutEntry(t) \in Config /\ WithoutEntry(t).tags = tags
      /\ WithoutEntry(t).profiles = cache.profiles
  BY <1>2 DEF WithoutEntry, tags
<1>4. \A p \in Profiles : Stripped(WithoutEntry(t), p, {t}) = Stripped(cache, p, {t})
  BY <1>3 DEF Stripped
<1>5. {t} \in SUBSET Tags
  OBVIOUS
<1> QED BY <1>3, <1>4, <1>5, WithTagsGone DEF WithoutTag, tags

-----------------------------------------------------------------------------
(* Operations on the file and the copy.                                    *)

ConfigInv == ConfigType /\ CopyIsCurrent /\ SameTags

\* Nothing happens to the file and the copy.
LEMMA SameConfigState ==
  ASSUME ConfigInv, UNCHANGED <<file, cache, behind, faults>> PROVE ConfigInv'
BY DEF ConfigInv, ConfigType, CopyIsCurrent, SameTags, Valid, NamesDiffer, RefsResolve, Registered,
       Stored, Readable, Seen, Prune, WithoutTags, Stripped, Content, Unnoticed, GoodName

LEMMA FaultKeepsType ==
  ASSUME NEW kind, faults \subseteq Faults, Fault(kind)
  PROVE  faults' \subseteq Faults /\ kind \in faults' /\ faults \subseteq faults'
BY DEF Fault

\* The whole copy was written, or that failed.
LEMMA SaveKeeps ==
  ASSUME ConfigInv, cache # None, NEW c \in Config, SaveOk(c) \/ SaveErr(c)
  PROVE  ConfigInv' /\ cache' # None
<1>1. CASE SaveOk(c)
  <2>1. file' = c /\ cache' = c /\ behind' = FALSE /\ faults' = faults /\ CanStore(c)
    BY <1>1 DEF SaveOk
  <2>2. Content(file') = c /\ Seen(file') = c /\ Valid(c)
    BY <2>1, StoredIsSeen DEF CanStore
  <2>3. c # None /\ c # Damaged
    BY ConfigShape
  <2>4. Valid(cache')
    BY <2>1, <2>2
  <2> QED BY <2>1, <2>2, <2>3, <2>4
    DEF ConfigInv, ConfigType, CopyIsCurrent, SameTags, Readable
<1>2. CASE SaveErr(c) /\ UNCHANGED <<file, behind, faults>>
  BY <1>2, SameConfigState DEF SaveErr
<1>3. CASE SaveErr(c) /\ ~UNCHANGED <<file, behind, faults>>
  <2>1. Fault("late") /\ file' = c /\ behind' = TRUE /\ cache' = cache
    BY <1>3 DEF SaveErr, StoreFails
  <2>2. faults' \subseteq Faults /\ Unnoticed'
    BY <2>1, FaultKeepsType DEF ConfigInv, ConfigType, Unnoticed
  <2>3. Valid(cache')
    BY <2>1 DEF ConfigInv, CopyIsCurrent
  <2> QED BY <2>1, <2>2, <2>3 DEF ConfigInv, ConfigType, CopyIsCurrent, SameTags
<1> QED BY <1>1, <1>2, <1>3

\* One profile was written, or that failed.
LEMMA UpdateKeeps ==
  ASSUME ConfigInv, cache # None, NEW p \in Profiles, NEW data \in ProfileData \cup {None},
         UpdateOk(p, data) \/ UpdateErr(p, data)
  PROVE  ConfigInv' /\ cache' # None /\ behind' \in BOOLEAN
<1> DEFINE c == WithProfile(p, data)
<1>1. c \in Config /\ c.tags = Content(file).tags
  BY WithProfileType DEF ConfigInv, ConfigType
<1> HIDE DEF c
<1>2. CASE UpdateOk(p, data)
  <2>1. CanStore(c) /\ file' = c /\ Reload
    BY <1>2 DEF UpdateOk, c
  <2>2. Content(file') = c /\ Seen(file') = c /\ Valid(c)
    BY <1>1, <2>1, StoredIsSeen DEF CanStore
  <2>3. c # None /\ c # Damaged
    BY <1>1, ConfigShape
  <2>4. CASE cache' = Prune(Content(file')) /\ behind' = FALSE /\ UNCHANGED faults
    <3>1. cache' = c
      BY <2>2, <2>4 DEF Seen
    <3>2. Valid(cache')
      BY <2>2, <3>1
    <3> QED BY <1>1, <2>1, <2>2, <2>3, <2>4, <3>1, <3>2
      DEF ConfigInv, ConfigType, CopyIsCurrent, SameTags, Readable
  <2>5. CASE Fault("reload") /\ UNCHANGED cache /\ behind' = TRUE
    <3>1. faults' \subseteq Faults /\ (~Unnoticed' => ~Unnoticed)
      BY <2>5, FaultKeepsType DEF ConfigInv, ConfigType, Unnoticed
    <3>2. Valid(cache')
      BY <2>5 DEF ConfigInv, CopyIsCurrent
    <3>3. SameTags'
      BY <1>1, <2>1, <2>2, <2>3, <2>5, <3>1 DEF ConfigInv, SameTags, Readable
    <3> QED BY <1>1, <2>1, <2>5, <3>1, <3>2, <3>3 DEF ConfigInv, ConfigType, CopyIsCurrent
  <2> QED BY <2>1, <2>4, <2>5 DEF Reload
<1>3. CASE UpdateErr(p, data) /\ UNCHANGED <<file, behind, faults>>
  BY <1>3, SameConfigState DEF UpdateErr, ConfigInv, ConfigType
<1>4. CASE UpdateErr(p, data) /\ ~UNCHANGED <<file, behind, faults>>
  <2>1. Fault("late") /\ file' = c /\ behind' = TRUE /\ cache' = cache
    BY <1>4 DEF UpdateErr, StoreFails, c
  <2>2. faults' \subseteq Faults /\ Unnoticed'
    BY <2>1, FaultKeepsType DEF ConfigInv, ConfigType, Unnoticed
  <2>3. Valid(cache')
    BY <2>1 DEF ConfigInv, CopyIsCurrent
  <2> QED BY <1>1, <2>1, <2>2, <2>3 DEF ConfigInv, ConfigType, CopyIsCurrent, SameTags
<1> QED BY <1>2, <1>3, <1>4

LEMMA LoadKeeps ==
  ASSUME ConfigInv, Load PROVE ConfigInv' /\ cache' # None
<1>1. /\ Readable /\ Valid(Prune(Content(file))) /\ cache' = Prune(Content(file))
      /\ UNCHANGED <<file, behind, faults>>
  BY DEF Load
<1>2. Content(file) \in Config /\ Prune(Content(file)) \in Config
      /\ Prune(Content(file)).tags = Content(file).tags
  BY ContentType, PruneType DEF ConfigInv, ConfigType
<1>3. cache' # None /\ cache' \in Config
  BY <1>1, <1>2, ConfigShape
<1>4. Content(file)' = Content(file) /\ Seen(file)' = cache' /\ Readable'
  BY <1>1 DEF Content, Seen, Prune, WithoutTags, Stripped, Registered, Readable, Stored
<1>5. Valid(cache')
  BY <1>1
<1> QED BY <1>1, <1>2, <1>3, <1>4, <1>5 DEF ConfigInv, ConfigType, CopyIsCurrent, SameTags

LEMMA OutsideKeeps ==
  ASSUME ConfigInv, EditOutside PROVE ConfigInv' /\ cache' = cache
<1>1. /\ Fault("outside") /\ file' \in Files /\ behind' = (cache # None) /\ cache' = cache
  BY DEF EditOutside
<1>2. faults' \subseteq Faults /\ Unnoticed'
  BY <1>1, FaultKeepsType DEF ConfigInv, ConfigType, Unnoticed
<1>3. file' \in Config \cup {Missing, Damaged}
  BY <1>1, ConstantsAssumption
<1>4. cache' # None => Valid(cache')
  BY <1>1 DEF ConfigInv, CopyIsCurrent
<1> QED BY <1>1, <1>2, <1>3, <1>4 DEF ConfigInv, ConfigType, CopyIsCurrent, SameTags

-----------------------------------------------------------------------------
(* The dialogs.                                                            *)

DialogType ==
  /\ filter \in [tags : SUBSET Tags, untagged : BOOLEAN]
  /\ editor \in Forms \cup {None} /\ saving \in Forms \cup {None}
  /\ deleting \subseteq Profiles /\ confirm \in Confirms \cup {None}
  /\ manager \in Managers \cup {None}

LEMMA IInvParts ==
  IInv <=> ConfigInv /\ DialogType /\ NothingWithoutCopy /\ EditorsDiffer
BY DEF IInv, TypeOK, ConfigInv, ConfigType, DialogType

\* A step that leaves a copy.
LEMMA WithCopy ==
  ASSUME ConfigInv', cache' # None, DialogType', EditorsDiffer' PROVE IInv'
BY DEF IInv, TypeOK, ConfigInv, ConfigType, DialogType, NothingWithoutCopy

\* A step of the dialogs alone that closes no window.
LEMMA DialogsOnly ==
  ASSUME IInv, UNCHANGED configVars, DialogType', NothingWithoutCopy', EditorsDiffer' PROVE IInv'
<1>1. ConfigInv'
  BY IInvParts, SameConfigState DEF configVars
<1> QED BY <1>1 DEF IInv, TypeOK, ConfigInv, ConfigType, DialogType

\* A step of the configuration alone.
LEMMA SameDialogs ==
  ASSUME IInv, ConfigInv', cache # None => cache' # None, UNCHANGED <<filter, dialogs>>
  PROVE  IInv'
BY DEF IInv, TypeOK, ConfigInv, ConfigType, NothingWithoutCopy, EditorsDiffer, dialogs

Filters == [tags : SUBSET Tags, untagged : BOOLEAN]

LEMMA FilterTypes ==
  /\ \A tags \in SUBSET Tags, b \in BOOLEAN : [tags |-> tags, untagged |-> b] \in Filters
  /\ \A f \in Filters, tags \in SUBSET Tags :
       /\ [f EXCEPT !.tags = tags] \in Filters /\ [f EXCEPT !.tags = tags].tags = tags
  /\ \A f \in Filters, b \in BOOLEAN :
       /\ [f EXCEPT !.untagged = b] \in Filters /\ [f EXCEPT !.untagged = b].tags = f.tags
  /\ \A f \in Filters : f.tags \in SUBSET Tags
BY DEF Filters

LEMMA ToggledFilter ==
  ASSUME filter \in Filters, NEW t \in Tags, ToggleTagFilter(t)
  PROVE  /\ filter' \in Filters /\ t \in Registered(cache)
         /\ filter'.tags \in {filter.tags \ {t}, filter.tags \cup {t}}
<1>1. filter.tags \ {t} \in SUBSET Tags /\ filter.tags \cup {t} \in SUBSET Tags
  BY FilterTypes
<1>2. CASE filter' = [filter EXCEPT !.tags = filter.tags \ {t}]
  <2>1. filter' \in Filters /\ filter'.tags = filter.tags \ {t}
    BY <1>1, <1>2, FilterTypes
  <2> QED BY <2>1 DEF ToggleTagFilter
<1>3. CASE filter' = [tags |-> filter.tags \cup {t}, untagged |-> FALSE]
  <2>1. filter' \in Filters
    BY <1>1, <1>3, FilterTypes
  <2>2. filter'.tags = filter.tags \cup {t}
    BY <1>3
  <2> QED BY <2>1, <2>2 DEF ToggleTagFilter
<1> QED BY <1>2, <1>3 DEF ToggleTagFilter

LEMMA FormShape ==
  ASSUME NEW f \in Forms, NEW tags \in SUBSET Tags
  PROVE  /\ [f EXCEPT !.tags = tags] \in Forms /\ [f EXCEPT !.tags = tags].id = f.id
         /\ [f EXCEPT !.tags = tags].profile = f.profile /\ [f EXCEPT !.tags = tags].tags = tags
         /\ f.id \in EditorIds /\ f.profile \in Profiles /\ f.tags \in SUBSET Tags
BY DEF Forms

LEMMA ManagerShape ==
  ASSUME NEW m \in Managers
  PROVE  /\ m.rows \in [Tags -> TagData \cup {None}] /\ m.focus \in Tags \cup {None}
         /\ m.due \in SUBSET Tags /\ m.closing \in BOOLEAN
BY DEF Managers

\* A row of the manager.
LEMMA SetRow ==
  ASSUME NEW m \in Managers, NEW t \in Tags, NEW data \in TagData \cup {None}
  PROVE  LET n == [m EXCEPT !.rows[t] = data] IN
         /\ n \in Managers /\ n.rows = [m.rows EXCEPT ![t] = data]
         /\ n.focus = m.focus /\ n.due = m.due /\ n.closing = m.closing
<1> DEFINE rows == [m.rows EXCEPT ![t] = data]
<1>1. rows \in [Tags -> TagData \cup {None}]
  BY ManagerShape
<1> HIDE DEF rows
<1>2. LET n == [m EXCEPT !.rows = rows] IN
      /\ n \in Managers /\ n.rows = rows
      /\ n.focus = m.focus /\ n.due = m.due /\ n.closing = m.closing
  BY <1>1 DEF Managers
<1> QED BY <1>2 DEF rows

\* The name on a row.
LEMMA SetName ==
  ASSUME NEW m \in Managers, NEW t \in Tags, m.rows[t] # None, NEW n \in Names
  PROVE  LET r == [m EXCEPT !.rows[t].name = n] IN
         /\ r \in Managers
         /\ r.rows = [m.rows EXCEPT ![t] = [name |-> n, color |-> m.rows[t].color]]
         /\ r.focus = m.focus /\ r.due = m.due /\ r.closing = m.closing
<1> DEFINE data == [m.rows[t] EXCEPT !.name = n]
<1>1. m.rows[t] \in TagData
  BY ManagerShape
<1>2. data = [name |-> n, color |-> m.rows[t].color] /\ data \in TagData
  BY <1>1 DEF TagData
<1> DEFINE r == [m EXCEPT !.rows[t] = data]
<1>3. [m EXCEPT !.rows[t].name = n] = r
  OBVIOUS
<1>4. /\ r \in Managers /\ r.rows = [m.rows EXCEPT ![t] = data]
      /\ r.focus = m.focus /\ r.due = m.due /\ r.closing = m.closing
  BY <1>2, SetRow
<1> HIDE DEF data, r
<1> QED BY <1>2, <1>3, <1>4

LEMMA SetFocus ==
  ASSUME NEW m \in Managers, NEW f \in Tags \cup {None}
  PROVE  LET r == [m EXCEPT !.focus = f] IN
         /\ r \in Managers /\ r.focus = f
         /\ r.rows = m.rows /\ r.due = m.due /\ r.closing = m.closing
BY DEF Managers

LEMMA SetDue ==
  ASSUME NEW m \in Managers, NEW due \in SUBSET Tags, NEW closing \in BOOLEAN
  PROVE  LET r == [m EXCEPT !.due = due, !.closing = closing] IN
         /\ r \in Managers /\ r.focus = m.focus
         /\ r.rows = m.rows /\ r.due = due /\ r.closing = closing
BY DEF Managers

\* One row less is due.
LEMMA OneLess ==
  ASSUME NEW m \in Managers, NEW t
  PROVE  LET r == [m EXCEPT !.due = @ \ {t}] IN
         /\ r \in Managers /\ r.focus = m.focus
         /\ r.rows = m.rows /\ r.due = m.due \ {t} /\ r.closing = m.closing
BY DEF Managers

-----------------------------------------------------------------------------
(* The editor.                                                             *)

LEMMA OpenKeeps ==
  ASSUME IInv, NEW id \in EditorIds, NEW p \in Profiles, NEW tags \in SUBSET Tags, Open(id, p, tags)
  PROVE  IInv'
<1>1. editor' \in Forms /\ editor'.id = id
  BY DEF Open, Forms
<1> QED BY <1>1, IInvParts, DialogsOnly
  DEF Open, DialogType, NothingWithoutCopy, EditorsDiffer, configVars

LEMMA ToggleEditorTagKeeps ==
  ASSUME IInv, NEW t \in Tags, ToggleEditorTag(t) PROVE IInv'
<1>1. editor \in Forms /\ editor # None
  BY IInvParts DEF ToggleEditorTag, AtEditor, DialogType
<1> DEFINE tags == IF t \in editor.tags THEN editor.tags \ {t} ELSE editor.tags \cup {t}
<1>2. tags \in SUBSET Tags
  BY <1>1, FormShape
<1>3. editor' = [editor EXCEPT !.tags = tags]
  BY <1>1 DEF ToggleEditorTag, Forms
<1> HIDE DEF tags
<1>4. editor' \in Forms /\ editor'.id = editor.id /\ editor'.profile = editor.profile
  BY <1>1, <1>2, <1>3, FormShape
<1> QED BY <1>1, <1>4, IInvParts, DialogsOnly
  DEF ToggleEditorTag, DialogType, NothingWithoutCopy, EditorsDiffer, configVars

\* The data of a new tag.
LEMMA NewTagType == ASSUME NEW n \in Names PROVE NewTag(n) \in TagData
BY DEF NewTag, TagData

LEMMA CreateTagFromEditorKeeps ==
  ASSUME IInv, NEW t \in Tags, NEW n \in Names, CreateTagFromEditor(t, n) PROVE IInv'
<1>1. /\ cache # None /\ editor \in Forms /\ editor # None
      /\ SaveOk(WithTag(t, NewTag(n))) \/ SaveErr(WithTag(t, NewTag(n)))
      /\ editor' = [editor EXCEPT !.tags = @ \cup {t}] \/ editor' = editor
      /\ UNCHANGED <<filter, saving, deleting, confirm, manager>>
  BY IInvParts DEF CreateTagFromEditor, AtEditor, Ready, DialogType
<1>2. WithTag(t, NewTag(n)) \in Config
  BY <1>1, NewTagType, WithTagType, IInvParts DEF ConfigInv, ConfigType
<1>3. ConfigInv' /\ cache' # None
  BY <1>1, <1>2, SaveKeeps, IInvParts
<1> DEFINE tags == editor.tags \cup {t}
<1>4. tags \in SUBSET Tags /\ editor' \in {editor, [editor EXCEPT !.tags = tags]}
  BY <1>1, FormShape
<1> HIDE DEF tags
<1>5. editor' \in Forms /\ editor'.id = editor.id /\ editor'.profile = editor.profile
  <2>1. CASE editor' = editor
    BY <1>1, <2>1
  <2>2. CASE editor' = [editor EXCEPT !.tags = tags]
    BY <1>1, <1>4, <2>2, FormShape
  <2> QED BY <1>4, <2>1, <2>2
<1> QED BY <1>1, <1>3, <1>5, IInvParts, WithCopy DEF DialogType, EditorsDiffer

LEMMA SavedKeeps ==
  ASSUME IInv, Saved PROVE IInv'
<1> DEFINE data == [tags |-> saving.tags, sound |-> TRUE]
<1>1. cache # None /\ saving \in Forms
  BY IInvParts DEF Saved, Ready, DialogType
<1>2. data \in ProfileData \cup {None} /\ saving.profile \in Profiles
  BY <1>1, FormShape DEF ProfileData
<1>3. /\ UpdateOk(saving.profile, data) \/ UpdateErr(saving.profile, data)
      /\ editor' \in {None, editor}
      /\ saving' = None /\ UNCHANGED <<filter, deleting, confirm, manager>>
  BY DEF Saved, CloseSavedEditor
<1> HIDE DEF data
<1>4. ConfigInv' /\ cache' # None
  BY <1>1, <1>2, <1>3, UpdateKeeps, IInvParts
<1> QED BY <1>3, <1>4, IInvParts, WithCopy DEF DialogType, EditorsDiffer

LEMMA EditorKeeps ==
  ASSUME IInv, EditorStep PROVE IInv'
<1>1. ASSUME NEW id \in EditorIds, NEW p \in Profiles, ShowAdd(id, p) PROVE IInv'
  BY <1>1, OpenKeeps DEF ShowAdd
<1>2. ASSUME NEW id \in EditorIds, NEW p \in Profiles, ShowEdit(id, p) PROVE IInv'
  <2>1. cache \in Config /\ p \in Stored(cache)
    BY <1>2, IInvParts DEF ShowEdit, AtSidebar, Ready, ConfigInv, ConfigType
  <2>2. cache.profiles[p] \in ProfileData
    BY <2>1, ConfigShape DEF Stored
  <2> QED BY <1>2, <2>2, OpenKeeps DEF ShowEdit, ProfileData
<1>3. ASSUME CancelEditor \/ SaveEditor PROVE IInv'
  BY <1>3, IInvParts, DialogsOnly
    DEF CancelEditor, SaveEditor, AtEditor, Ready, DialogType, NothingWithoutCopy, EditorsDiffer, configVars
<1> QED BY <1>1, <1>2, <1>3, ToggleEditorTagKeeps, CreateTagFromEditorKeeps, SavedKeeps DEF EditorStep

-----------------------------------------------------------------------------
(* Deletions.                                                              *)

\* The spawned deletion that finds no profile writes what the file holds.
LEMMA NothingToDelete ==
  ASSUME ConfigType, NEW p \in Profiles, p \notin Stored(Content(file))
  PROVE  WithProfile(p, None) = Content(file)
<1> DEFINE c == Content(file)
           d == WithProfile(p, None)
<1>1. c \in Config /\ c.profiles[p] = None /\ c.profiles \in [Profiles -> ProfileData \cup {None}]
  BY ContentType, ConfigShape DEF ConfigType, Stored
<1>2. /\ d \in Config /\ d.tags = c.tags /\ d.settings = c.settings
      /\ d.profiles = [c.profiles EXCEPT ![p] = None]
  BY WithProfileType DEF ConfigType
<1> HIDE DEF c, d
<1>3. d.profiles = c.profiles
  BY <1>1, <1>2
<1> QED BY <1>1, <1>2, <1>3, SameConfig DEF c, d

\* So the copy is as current as it was.
LEMMA RewriteKeeps ==
  ASSUME ConfigInv, cache # None, CanStore(Content(file)), file' = Content(file),
         UNCHANGED <<cache, behind, faults>>
  PROVE  ConfigInv' /\ cache' # None
<1>1. Content(file) \in Config
  BY ContentType DEF ConfigInv, ConfigType
<1>2. Content(file)' = Content(file) /\ Seen(file') = Content(file)
  BY <1>1, StoredIsSeen
<1>3. Valid(Content(file)) /\ file' # Damaged
  BY <1>1, ConfigShape DEF CanStore
<1>4. Seen(file) = Content(file)
  BY <1>1, <1>3, PruneOfValid DEF Seen, Valid
<1>5. cache' # None => Valid(cache')
  BY DEF ConfigInv, CopyIsCurrent
<1> QED BY <1>1, <1>2, <1>3, <1>4, <1>5
  DEF ConfigInv, ConfigType, CopyIsCurrent, SameTags, Unnoticed, Readable

LEMMA DeletedProfileKeeps ==
  ASSUME IInv, NEW p \in Profiles, DeletedProfile(p) PROVE IInv'
<1>1. /\ cache # None /\ deleting' \subseteq Profiles
      /\ UNCHANGED <<filter, editor, saving, confirm, manager>>
  BY IInvParts DEF DeletedProfile, Ready, DialogType
<1>2. ConfigInv' /\ cache' # None
  <2>1. CASE UpdateOk(p, None) \/ UpdateErr(p, None)
    BY <1>1, <2>1, UpdateKeeps, IInvParts
  <2>2. CASE /\ CanStore(WithProfile(p, None)) /\ p \notin Stored(Content(file))
             /\ file' = WithProfile(p, None) /\ UNCHANGED <<cache, behind, faults>>
    BY <1>1, <2>2, NothingToDelete, RewriteKeeps, IInvParts DEF ConfigInv
  <2> QED BY <2>1, <2>2 DEF DeletedProfile
<1> QED BY <1>1, <1>2, IInvParts, WithCopy DEF DialogType, EditorsDiffer

LEMMA DropFromEditor ==
  ASSUME DialogType, NEW t \in Tags, DropFromDialogs(t)
  PROVE  /\ editor' \in Forms \cup {None}
         /\ editor' # None => /\ editor # None /\ editor'.id = editor.id
                              /\ editor'.profile = editor.profile /\ editor'.tags = editor.tags \ {t}
<1>1. CASE editor = None
  BY <1>1 DEF DropFromDialogs
<1>2. CASE editor # None
  <2> DEFINE tags == editor.tags \ {t}
  <2>1. editor \in Forms
    BY <1>2 DEF DialogType
  <2>2. tags \in SUBSET Tags /\ editor' = [editor EXCEPT !.tags = tags]
    BY <1>2, <2>1, FormShape DEF DropFromDialogs
  <2> HIDE DEF tags
  <2> QED BY <1>2, <2>1, <2>2, FormShape DEF tags
<1> QED BY <1>1, <1>2

LEMMA DropFromManager ==
  ASSUME DialogType, NEW t \in Tags, DropFromDialogs(t)
  PROVE  /\ manager' \in Managers \cup {None}
         /\ manager' # None => /\ manager # None /\ manager'.rows = [manager.rows EXCEPT ![t] = None]
                               /\ manager'.focus = IF manager.focus = t THEN None ELSE manager.focus
<1>1. CASE manager = None
  BY <1>1 DEF DropFromDialogs
<1>2. CASE manager # None
  <2> DEFINE m == [manager EXCEPT !.rows[t] = None]
             f == IF manager.focus = t THEN None ELSE manager.focus
  <2>1. manager \in Managers
    BY <1>2 DEF DialogType
  <2>2. m \in Managers /\ m.rows = [manager.rows EXCEPT ![t] = None] /\ m.focus = manager.focus
    BY <2>1, SetRow
  <2>3. f \in Tags \cup {None}
    BY <2>1, ManagerShape
  <2>4. manager' = [m EXCEPT !.focus = f]
    BY <1>2, <2>2 DEF DropFromDialogs
  <2> HIDE DEF m, f
  <2> QED BY <1>2, <2>2, <2>3, <2>4, SetFocus DEF f
<1> QED BY <1>1, <1>2

LEMMA DeleteTagKeeps ==
  ASSUME IInv, cache # None, NEW t \in Tags, DeleteTag(t), UNCHANGED <<saving, deleting>>,
         confirm' \in {None, confirm}
  PROVE  IInv'
<1>1. ConfigInv' /\ cache' # None
  BY WithoutTagType, SaveKeeps, IInvParts DEF DeleteTag, ConfigInv, ConfigType
<1>2. CASE SaveOk(WithoutTag(t)) /\ filter' = [filter EXCEPT !.tags = @ \ {t}] /\ DropFromDialogs(t)
  <2>1. filter' \in [tags : SUBSET Tags, untagged : BOOLEAN]
    BY <1>2, IInvParts DEF DialogType
  <2>2. editor' \in Forms \cup {None} /\ manager' \in Managers \cup {None} /\ EditorsDiffer'
    BY <1>2, IInvParts, DropFromEditor, DropFromManager DEF EditorsDiffer
  <2> QED BY <1>1, <2>1, <2>2, IInvParts, WithCopy DEF DialogType
<1>3. CASE UNCHANGED <<filter, editor, manager>>
  BY <1>1, <1>3, IInvParts, WithCopy DEF DialogType, EditorsDiffer
<1> QED BY <1>2, <1>3 DEF DeleteTag

LEMMA DeletionKeeps ==
  ASSUME IInv, DeletionStep PROVE IInv'
<1>1. ASSUME NEW p \in Profiles, RequestDeleteProfile(p) PROVE IInv'
  BY <1>1, IInvParts, DialogsOnly
    DEF RequestDeleteProfile, AtSidebar, Ready, DialogType, Confirms, NothingWithoutCopy,
        EditorsDiffer, configVars
<1>2. ASSUME NEW p \in Profiles, ConfirmDeleteProfile(p) PROVE IInv'
  BY <1>2, IInvParts, DialogsOnly
    DEF ConfirmDeleteProfile, AtConfirm, Ready, DialogType, NothingWithoutCopy, EditorsDiffer, configVars
<1>3. ASSUME CancelConfirm PROVE IInv'
  BY <1>3, IInvParts, DialogsOnly
    DEF CancelConfirm, DialogType, NothingWithoutCopy, EditorsDiffer, configVars
<1>4. ASSUME NEW t \in Tags, RequestTagDelete(t) PROVE IInv'
  <2>1. CASE DeleteTag(t) /\ UNCHANGED confirm
    BY <1>4, <2>1, DeleteTagKeeps DEF RequestTagDelete, AtManager, Ready
  <2>2. CASE confirm' = <<"tag", t>> /\ UNCHANGED <<configVars, editor, manager>>
    BY <1>4, <2>2, IInvParts, DialogsOnly
      DEF RequestTagDelete, AtManager, Ready, DialogType, Confirms, NothingWithoutCopy,
          EditorsDiffer, configVars
  <2> QED BY <1>4, <2>1, <2>2 DEF RequestTagDelete
<1>5. ASSUME NEW t \in Tags, ConfirmDeleteTag(t) PROVE IInv'
  BY <1>5, DeleteTagKeeps DEF ConfirmDeleteTag, AtConfirm, Ready
<1> QED BY <1>1, <1>2, <1>3, <1>4, <1>5, DeletedProfileKeeps DEF DeletionStep

-----------------------------------------------------------------------------
(* The tag manager.                                                        *)

\* A step of the manager and the configuration.
LEMMA ManagerAndConfig ==
  ASSUME IInv, ConfigInv', cache' # None, manager' \in Managers,
         UNCHANGED <<filter, editor, saving, deleting, confirm>>
  PROVE  IInv'
BY IInvParts, WithCopy DEF DialogType, EditorsDiffer

LEMMA ApplyKeeps ==
  ASSUME IInv, NEW t \in Tags, NEW data \in TagData, NEW m \in Managers, m.rows[t] # None,
         cache # None, Apply(t, data, m), UNCHANGED <<filter, editor, saving, deleting, confirm>>
  PROVE  IInv'
<1>1. cache \in Config /\ WithTag(t, data) \in Config
  BY WithTagType, IInvParts DEF ConfigInv, ConfigType
<1>2. ConfigInv' /\ cache' # None
  BY <1>1, SameConfigState, SaveKeeps, IInvParts DEF Apply
<1>3. manager' \in Managers
  <2>1. CASE manager' \in {m, [m EXCEPT !.rows[t] = data]}
    BY <2>1, SetRow
  <2>2. CASE cache.tags[t] # None /\ Reset(t, m)
    <3>1. cache.tags[t].name \in Names
      BY <1>1, <2>2, ConfigShape DEF TagData
    <3> QED BY <2>2, <3>1, SetName DEF Reset
  <2> QED BY <2>1, <2>2 DEF Apply
<1> QED BY <1>2, <1>3, ManagerAndConfig

LEMMA CommitKeeps ==
  ASSUME IInv, NEW t \in Tags, NEW m \in Managers,
         cache # None, Commit(t, m), UNCHANGED <<filter, editor, saving, deleting, confirm>>
  PROVE  IInv'
<1>1. CASE m.rows[t] # None /\ Apply(t, m.rows[t], m)
  BY <1>1, ApplyKeeps, ManagerShape
<1>2. CASE manager' = m /\ UNCHANGED <<file, cache, behind, faults>>
  BY <1>2, SameConfigState, ManagerAndConfig, IInvParts
<1> QED BY <1>1, <1>2 DEF Commit

LEMMA ManagerKeeps ==
  ASSUME IInv, ManagerStep PROVE IInv'
<1> DEFINE others == <<filter, editor, saving, deleting, confirm>>
<1>0. /\ manager # None => cache # None /\ manager \in Managers
      /\ cache # None => cache \in Config
  BY IInvParts DEF NothingWithoutCopy, DialogType, ConfigInv, ConfigType
<1>1. ASSUME cache # None, manager' \in Managers, UNCHANGED configVars, UNCHANGED others PROVE IInv'
  BY <1>1, SameConfigState, ManagerAndConfig, IInvParts DEF configVars
<1>2. ASSUME OpenManager PROVE IInv'
  <2>1. cache # None /\ cache.tags \in [Tags -> TagData \cup {None}]
    BY <1>0, <1>2, ConfigShape DEF OpenManager, AtSidebar, Ready
  <2>2. manager' \in Managers
    BY <1>2, <2>1 DEF OpenManager, Managers
  <2> QED BY <1>1, <1>2, <2>1, <2>2 DEF OpenManager, configVars
<1>3. ASSUME LeaveField PROVE IInv'
  <2> DEFINE m == [manager EXCEPT !.focus = None]
  <2>1. manager \in Managers /\ manager.focus \in Tags
    BY <1>0, <1>3, ManagerShape DEF LeaveField
  <2>2. m \in Managers
    BY <2>1, SetFocus
  <2>3. cache # None /\ Commit(manager.focus, m) /\ UNCHANGED others
    BY <1>3 DEF LeaveField, Ready
  <2> HIDE DEF m
  <2> QED BY <2>1, <2>2, <2>3, CommitKeeps
<1>4. ASSUME ManagerCloses PROVE IInv'
  BY <1>4, IInvParts, DialogsOnly
    DEF ManagerCloses, DialogType, NothingWithoutCopy, EditorsDiffer, configVars
<1>5. ASSUME NEW close \in BOOLEAN, CommitRows(close) PROVE IInv'
  <2> DEFINE due == {t \in Tags : manager.rows[t] # None}
  <2>1. /\ cache # None /\ manager \in Managers /\ due \in SUBSET Tags
        /\ manager' = [manager EXCEPT !.due = due, !.closing = close]
    BY <1>0, <1>5 DEF CommitRows, AtManager, Ready
  <2> HIDE DEF due
  <2>2. manager' \in Managers
    BY <2>1, SetDue
  <2> QED BY <1>1, <1>5, <2>1, <2>2 DEF CommitRows, configVars
<1>6. ASSUME NEW t \in Tags, CommitRow(t) PROVE IInv'
  <2> DEFINE m == [manager EXCEPT !.due = @ \ {t}]
  <2>1. cache # None /\ manager \in Managers /\ Commit(t, m) /\ UNCHANGED others
    BY <1>0, <1>6 DEF CommitRow
  <2>2. m \in Managers
    BY <2>1, OneLess
  <2> HIDE DEF m
  <2> QED BY <2>1, <2>2, CommitKeeps
<1>7. ASSUME NEW t \in Tags, NEW n \in Names, TypeName(t, n) PROVE IInv'
  <2> DEFINE m == [manager EXCEPT !.rows[t].name = n]
  <2>1. cache # None /\ manager \in Managers /\ manager.rows[t] # None
    BY <1>0, <1>7 DEF TypeName, AtManager, Ready
  <2>2. m \in Managers
    BY <2>1, SetName
  <2>3. manager' = [m EXCEPT !.focus = t]
    BY <1>7 DEF TypeName
  <2> HIDE DEF m
  <2>4. manager' \in Managers
    BY <2>2, <2>3, SetFocus
  <2> QED BY <1>1, <1>7, <2>1, <2>4 DEF TypeName, configVars
<1>8. ASSUME NEW t \in Tags, NEW n \in Names, CreateTagFromManager(t, n) PROVE IInv'
  <2>1. /\ cache # None /\ cache \in Config /\ manager \in Managers
        /\ SaveOk(WithTag(t, NewTag(n))) \/ SaveErr(WithTag(t, NewTag(n)))
        /\ manager' \in {manager, [manager EXCEPT !.rows[t] = NewTag(n)]} /\ UNCHANGED others
    BY <1>0, <1>8 DEF CreateTagFromManager, AtManager, Ready
  <2>2. ConfigInv' /\ cache' # None
    BY <2>1, NewTagType, WithTagType, SaveKeeps, IInvParts
  <2>3. manager' \in Managers
    BY <2>1, NewTagType, SetRow
  <2> QED BY <2>1, <2>2, <2>3, ManagerAndConfig
<1>9. ASSUME NEW t \in Tags, NEW c \in Colors \cup {None}, SetTagColor(t, c) PROVE IInv'
  <2> DEFINE typed == manager.rows[t].name
             name  == IF typed # Blank THEN typed ELSE cache.tags[t].name
             data  == [name |-> name, color |-> c]
  <2>1. /\ cache # None /\ cache \in Config /\ manager \in Managers /\ manager.rows[t] # None
        /\ typed = Blank => cache.tags[t] # None
        /\ Apply(t, data, manager) /\ UNCHANGED others
    BY <1>0, <1>9 DEF SetTagColor, AtManager, Ready
  <2>2. name \in Names
    BY <2>1, ManagerShape, ConfigShape DEF TagData
  <2>3. data \in TagData
    BY <2>2 DEF TagData
  <2> HIDE DEF data
  <2> QED BY <2>1, <2>3, ApplyKeeps
<1> QED BY <1>2, <1>3, <1>4, <1>5, <1>6, <1>7, <1>8, <1>9 DEF ManagerStep

-----------------------------------------------------------------------------
(* The invariant.                                                          *)

LEMMA InitKeeps == Init => IInv
<1> SUFFICES ASSUME Init PROVE IInv
  OBVIOUS
<1>1. file \in Config \cup {Missing, Damaged}
  BY ConstantsAssumption DEF Init, ConfigInit
<1> QED BY <1>1
  DEF Init, ConfigInit, NoFilter, IInv, TypeOK, CopyIsCurrent, SameTags, NothingWithoutCopy, EditorsDiffer

LEMMA NextKeeps ==
  ASSUME IInv, [Next]_vars PROVE IInv'
<1>1. CASE Start
  BY <1>1, LoadKeeps, SameDialogs, IInvParts DEF Start, Load, dialogs
<1>2. CASE Close
  BY <1>2 DEF Close, NoFilter, IInv, TypeOK, CopyIsCurrent, SameTags, NothingWithoutCopy, EditorsDiffer
<1>3. CASE Outside
  BY <1>3, OutsideKeeps, SameDialogs, IInvParts DEF Outside, EditOutside, dialogs
<1>4. CASE SetFilter
  <2>1. cache # None /\ UNCHANGED <<file, cache, behind, faults, dialogs>>
    BY <1>4 DEF SetFilter, AtSidebar, Ready
  <2>2. filter' \in Filters
    <3>1. filter \in Filters
      BY IInvParts DEF DialogType, Filters
    <3>2. ASSUME NEW t \in Tags, ToggleTagFilter(t) PROVE filter' \in Filters
      BY <3>1, <3>2, ToggledFilter
    <3>3. ASSUME ToggleUntaggedFilter PROVE filter' \in Filters
      BY <3>1, <3>3, FilterTypes DEF ToggleUntaggedFilter
    <3>4. ASSUME ClearTagFilter PROVE filter' \in Filters
      BY <3>4, FilterTypes DEF ClearTagFilter, NoFilter
    <3> QED BY <1>4, <3>2, <3>3, <3>4 DEF SetFilter
  <2> QED BY <2>1, <2>2, IInvParts, SameConfigState, WithCopy DEF DialogType, Filters, EditorsDiffer, dialogs
<1>5. ASSUME NEW s \in Settings, ChangeSettings(s) PROVE IInv'
  <2> DEFINE c == [cache EXCEPT !.settings = s]
  <2>1. cache # None /\ cache \in Config /\ (SaveOk(c) \/ SaveErr(c)) /\ UNCHANGED <<filter, dialogs>>
    BY <1>5, IInvParts DEF ChangeSettings, AtSidebar, Ready, ConfigInv, ConfigType
  <2>2. c \in Config
    BY <2>1 DEF Config
  <2> HIDE DEF c
  <2> QED BY <2>1, <2>2, SaveKeeps, SameDialogs, IInvParts
<1>6. CASE UNCHANGED vars
  BY <1>6, SameConfigState, SameDialogs, IInvParts DEF vars, configVars, dialogs
<1> QED BY <1>1, <1>2, <1>3, <1>4, <1>5, <1>6, EditorKeeps, DeletionKeeps, ManagerKeeps DEF Next

(* What the dialogs show and do rests on this: the copy is the             *)
(* configuration a restart would load unless a change of the file went     *)
(* past the window, it is always one that validation accepts, and an       *)
(* editor's id says whose save is running.                                 *)
THEOREM Invariance == Spec => []IInv
BY InitKeeps, NextKeeps, PTL DEF Spec

-----------------------------------------------------------------------------
(* What the steps write.                                                   *)

\* A write of c that may fail.
Writes(c) == file' = file \/ (CanStore(c) /\ file' = c)

LEMMA SaveWrites == ASSUME NEW c, SaveOk(c) \/ SaveErr(c) PROVE Writes(c)
BY DEF SaveOk, SaveErr, StoreFails, Writes

LEMMA UpdateWrites ==
  ASSUME NEW p, NEW data, UpdateOk(p, data) \/ UpdateErr(p, data) PROVE Writes(WithProfile(p, data))
BY DEF UpdateOk, UpdateErr, StoreFails, Writes

\* What a write of c leaves of a profile. A damaged file is not written.
Keeps(p) == Seen(file').profiles[p] = Seen(file).profiles[p]

LEMMA DamagedStays == ASSUME NEW c, Writes(c) PROVE file = Damaged => file' = Damaged
BY DEF Writes, CanStore, Readable

\* A save with the profiles of the copy changes no profile.
LEMMA SaveKeepsProfiles ==
  ASSUME IInv, cache # None, ~behind, NEW p \in Profiles, NEW c \in Config, Writes(c),
         c.profiles[p] = cache.profiles[p]
  PROVE  Keeps(p)
<1>1. CASE file' = file
  BY <1>1 DEF Keeps
<1>2. CASE CanStore(c) /\ file' = c
  BY <1>2, StoredIsSeen, IInvParts DEF Keeps, ConfigInv, CopyIsCurrent
<1> QED BY <1>1, <1>2 DEF Writes

\* An update of one profile changes no other profile.
LEMMA UpdateKeepsProfiles ==
  ASSUME IInv, NEW p \in Profiles, NEW data \in ProfileData \cup {None}, NEW q \in Profiles \ {p},
         Writes(WithProfile(p, data))
  PROVE  Keeps(q)
<1> DEFINE c == WithProfile(p, data)
           d == Content(file)
<1>1. CASE file' = file
  BY <1>1 DEF Keeps
<1>2. CASE CanStore(c) /\ file' = c
  <2>1. c \in Config /\ d \in Config /\ c.tags = d.tags /\ c.profiles = [d.profiles EXCEPT ![p] = data]
    BY WithProfileType, ContentType, IInvParts DEF ConfigInv, ConfigType
  <2> HIDE DEF c, d
  <2>2. Seen(file').profiles[q] = c.profiles[q]
    BY <1>2, <2>1, StoredIsSeen
  <2>3. c.profiles[q] = d.profiles[q]
    BY <2>1, ConfigShape
  <2>4. d.profiles[q] # None => d.profiles[q].tags \cap (Tags \ Registered(d)) = {}
    <3>1. Registered(c) = Registered(d)
      BY <2>1 DEF Registered
    <3> QED BY <1>2, <2>3, <3>1 DEF CanStore, Valid, RefsResolve, Stored
  <2>5. Prune(d).profiles[q] = Stripped(d, q, Tags \ Registered(d))
    BY <2>1, WithTagsGone DEF Prune
  <2>6. Prune(d).profiles[q] = d.profiles[q]
    BY <2>1, <2>4, <2>5, StrippedOfNothing
  <2> QED BY <2>2, <2>3, <2>6 DEF Keeps, Seen, d
<1> QED BY <1>1, <1>2 DEF Writes

\* A tag that no profile of the copy has.
LEMMA UnusedTag ==
  ASSUME IInv, cache # None, NEW t \in Tags, ~InUse(t) \/ t \notin Registered(cache), NEW p \in Profiles
  PROVE  WithoutTag(t) \in Config /\ WithoutTag(t).profiles[p] = cache.profiles[p]
<1>1. cache \in Config /\ RefsResolve(cache)
  BY IInvParts DEF ConfigInv, ConfigType, CopyIsCurrent, Valid
<1>2. cache.profiles[p] # None => cache.profiles[p].tags \cap {t} = {}
  BY <1>1 DEF RefsResolve, InUse, Stored
<1>3. Stripped(cache, p, {t}) = cache.profiles[p]
  BY <1>1, <1>2, StrippedOfNothing
<1> QED BY <1>1, <1>3, WithoutTagType

\* The parts of NothingStoredIsLost that are about one step.
ProfileKept(p) ==
  \/ Keeps(p)
  \/ saving # None /\ saving' = None /\ saving.profile = p
  \/ p \in deleting \ deleting'
  \/ \E t \in Registered(Seen(file)) \ Registered(Seen(file')) :
       /\ confirm = <<"tag", t>>
       /\ Seen(file').profiles[p] = Stripped(Seen(file), p, {t})
NothingLost ==
  /\ file = Damaged => file' = Damaged
  /\ cache # None /\ ~behind => \A p \in Profiles : ProfileKept(p)

LEMMA UntouchedFile == ASSUME UNCHANGED file PROVE NothingLost
BY DEF NothingLost, ProfileKept, Keeps

LEMMA SaveLosesNothing ==
  ASSUME IInv, cache # None, NEW c \in Config, SaveOk(c) \/ SaveErr(c),
         \A p \in Profiles : c.profiles[p] = cache.profiles[p]
  PROVE  NothingLost
<1>1. Writes(c)
  BY SaveWrites
<1> QED BY <1>1, DamagedStays, SaveKeepsProfiles DEF NothingLost, ProfileKept

LEMMA WithTagLosesNothing ==
  ASSUME IInv, cache # None, NEW t \in Tags, NEW data \in TagData,
         SaveOk(WithTag(t, data)) \/ SaveErr(WithTag(t, data))
  PROVE  NothingLost
<1>1. WithTag(t, data) \in Config /\ WithTag(t, data).profiles = cache.profiles
  BY WithTagType, IInvParts DEF ConfigInv, ConfigType
<1> QED BY <1>1, SaveLosesNothing

LEMMA DeleteTagLosesNothing ==
  ASSUME IInv, cache # None, NEW t \in Tags, DeleteTag(t), ~InUse(t) \/ confirm = <<"tag", t>>
  PROVE  NothingLost
<1> DEFINE c == WithoutTag(t)
<1>1. cache \in Config /\ (SaveOk(c) \/ SaveErr(c))
  BY IInvParts DEF DeleteTag, ConfigInv, ConfigType
<1>2. CASE ~InUse(t) \/ t \notin Registered(cache)
  <2>1. \A p \in Profiles : c \in Config /\ c.profiles[p] = cache.profiles[p]
    BY <1>2, UnusedTag
  <2>2. c \in Config
    BY WithoutTagType, IInvParts DEF ConfigInv, ConfigType
  <2> HIDE DEF c
  <2> QED BY <1>1, <2>1, <2>2, SaveLosesNothing
<1>3. CASE confirm = <<"tag", t>> /\ t \in Registered(cache)
  <2>1. /\ cache \in Config /\ c \in Config /\ c.tags = [cache.tags EXCEPT ![t] = None]
        /\ \A p \in Profiles : c.profiles[p] = Stripped(cache, p, {t})
    BY WithoutTagType, IInvParts DEF ConfigInv, ConfigType
  <2>2. Writes(c)
    BY SaveWrites DEF DeleteTag
  <2> HIDE DEF c
  <2>3. CASE CanStore(c) /\ file' = c /\ ~behind
    <3>1. Seen(file') = c /\ Seen(file) = cache
      BY <2>1, <2>3, StoredIsSeen, IInvParts DEF ConfigInv, CopyIsCurrent
    <3>2. t \in Registered(Seen(file)) \ Registered(Seen(file'))
      BY <1>3, <2>1, <3>1, ConfigShape DEF Registered
    <3> QED BY <1>3, <2>1, <2>2, <3>1, <3>2, DamagedStays DEF NothingLost, ProfileKept
  <2>4. CASE file' = file \/ behind
    BY <2>2, <2>4, DamagedStays, UntouchedFile DEF NothingLost
  <2> QED BY <2>2, <2>3, <2>4 DEF Writes
<1> QED BY <1>2, <1>3

LEMMA UpdateLosesNothing ==
  ASSUME IInv, NEW p \in Profiles, NEW data \in ProfileData \cup {None}, Writes(WithProfile(p, data)),
         \/ saving # None /\ saving' = None /\ saving.profile = p
         \/ p \in deleting \ deleting'
  PROVE  NothingLost
BY DamagedStays, UpdateKeepsProfiles DEF NothingLost, ProfileKept

LEMMA SavedLosesNothing == ASSUME IInv, Saved PROVE NothingLost
<1> DEFINE data == [tags |-> saving.tags, sound |-> TRUE]
<1>1. saving # None /\ saving' = None /\ saving \in Forms
  BY IInvParts DEF Saved, DialogType
<1>2. data \in ProfileData /\ saving.profile \in Profiles
  BY <1>1, FormShape DEF ProfileData
<1>3. Writes(WithProfile(saving.profile, data))
  BY UpdateWrites DEF Saved
<1> HIDE DEF data
<1> QED BY <1>1, <1>2, <1>3, UpdateLosesNothing

LEMMA DeletedProfileLosesNothing ==
  ASSUME IInv, NEW p \in Profiles, DeletedProfile(p) PROVE NothingLost
<1>1. p \in deleting \ deleting'
  BY DEF DeletedProfile
<1>2. Writes(WithProfile(p, None))
  BY UpdateWrites DEF DeletedProfile, Writes
<1> QED BY <1>1, <1>2, UpdateLosesNothing

LEMMA CommitLosesNothing ==
  ASSUME IInv, cache # None, NEW t \in Tags, NEW m \in Managers, Commit(t, m) PROVE NothingLost
<1>1. m.rows[t] \in TagData \cup {None}
  BY ManagerShape
<1> QED BY <1>1, WithTagLosesNothing, UntouchedFile DEF Commit, Apply

LEMMA StepLosesNothing ==
  ASSUME IInv, [Next]_vars, ~Outside PROVE NothingLost
<1>0. cache # None => cache \in Config
  BY IInvParts DEF ConfigInv, ConfigType
<1>1. CASE Start \/ Close \/ SetFilter \/ UNCHANGED vars
  BY <1>1, UntouchedFile DEF Start, Load, Close, SetFilter, vars, configVars
<1>2. ASSUME NEW s \in Settings, ChangeSettings(s) PROVE NothingLost
  <2> DEFINE c == [cache EXCEPT !.settings = s]
  <2>1. cache # None /\ (SaveOk(c) \/ SaveErr(c))
    BY <1>2 DEF ChangeSettings, AtSidebar, Ready
  <2>2. c \in Config /\ c.profiles = cache.profiles
    BY <1>0, <2>1 DEF Config
  <2> HIDE DEF c
  <2> QED BY <2>1, <2>2, SaveLosesNothing
<1>3. CASE EditorStep
  <2>1. ASSUME NEW id \in EditorIds, NEW p \in Profiles, ShowAdd(id, p) \/ ShowEdit(id, p) PROVE NothingLost
    BY <2>1, UntouchedFile DEF ShowAdd, ShowEdit, Open, configVars
  <2>2. ASSUME NEW t \in Tags, NEW n \in Names, CreateTagFromEditor(t, n) PROVE NothingLost
    BY <2>2, NewTagType, WithTagLosesNothing DEF CreateTagFromEditor, AtEditor, Ready
  <2>3. ASSUME NEW t \in Tags, ToggleEditorTag(t) PROVE NothingLost
    BY <2>3, UntouchedFile DEF ToggleEditorTag, configVars
  <2>4. ASSUME CancelEditor \/ SaveEditor PROVE NothingLost
    BY <2>4, UntouchedFile DEF CancelEditor, SaveEditor, configVars
  <2> QED BY <1>3, <2>1, <2>2, <2>3, <2>4, SavedLosesNothing DEF EditorStep
<1>4. CASE DeletionStep
  <2>1. ASSUME NEW p \in Profiles, RequestDeleteProfile(p) \/ ConfirmDeleteProfile(p) PROVE NothingLost
    BY <2>1, UntouchedFile DEF RequestDeleteProfile, ConfirmDeleteProfile, configVars
  <2>2. ASSUME NEW t \in Tags, RequestTagDelete(t) PROVE NothingLost
    BY <2>2, UntouchedFile, DeleteTagLosesNothing DEF RequestTagDelete, AtManager, Ready, configVars
  <2>3. ASSUME NEW t \in Tags, ConfirmDeleteTag(t) PROVE NothingLost
    BY <2>3, DeleteTagLosesNothing DEF ConfirmDeleteTag, AtConfirm, Ready
  <2>4. ASSUME CancelConfirm PROVE NothingLost
    BY <2>4, UntouchedFile DEF CancelConfirm, configVars
  <2> QED BY <1>4, <2>1, <2>2, <2>3, <2>4, DeletedProfileLosesNothing DEF DeletionStep
<1>5. CASE ManagerStep
  <2>0. manager # None => cache # None /\ manager \in Managers
    BY IInvParts DEF NothingWithoutCopy, DialogType
  <2>1. ASSUME OpenManager \/ ManagerCloses PROVE NothingLost
    BY <2>1, UntouchedFile DEF OpenManager, ManagerCloses, configVars
  <2>2. ASSUME LeaveField PROVE NothingLost
    <3> DEFINE m == [manager EXCEPT !.focus = None]
    <3>1. manager \in Managers /\ cache # None /\ manager.focus \in Tags /\ Commit(manager.focus, m)
      BY <2>0, <2>2, ManagerShape DEF LeaveField
    <3>2. m \in Managers
      BY <3>1, SetFocus
    <3> HIDE DEF m
    <3> QED BY <3>1, <3>2, CommitLosesNothing
  <2>3. ASSUME NEW t \in Tags, CommitRow(t) PROVE NothingLost
    <3> DEFINE m == [manager EXCEPT !.due = @ \ {t}]
    <3>1. manager \in Managers /\ cache # None /\ Commit(t, m)
      BY <2>0, <2>3 DEF CommitRow
    <3>2. m \in Managers
      BY <3>1, OneLess
    <3> HIDE DEF m
    <3> QED BY <3>1, <3>2, CommitLosesNothing
  <2>4. ASSUME NEW close \in BOOLEAN, CommitRows(close) PROVE NothingLost
    BY <2>4, UntouchedFile DEF CommitRows, configVars
  <2>5. ASSUME NEW t \in Tags, NEW n \in Names, TypeName(t, n) PROVE NothingLost
    BY <2>5, UntouchedFile DEF TypeName, configVars
  <2>6. ASSUME NEW t \in Tags, NEW n \in Names, CreateTagFromManager(t, n) PROVE NothingLost
    BY <2>6, NewTagType, WithTagLosesNothing DEF CreateTagFromManager, AtManager, Ready
  <2>7. ASSUME NEW t \in Tags, NEW c \in Colors \cup {None}, SetTagColor(t, c) PROVE NothingLost
    <3> DEFINE typed == manager.rows[t].name
               name  == IF typed # Blank THEN typed ELSE cache.tags[t].name
               data  == [name |-> name, color |-> c]
    <3>1. /\ cache # None /\ cache \in Config /\ manager \in Managers /\ manager.rows[t] # None
          /\ typed = Blank => cache.tags[t] # None
          /\ Apply(t, data, manager)
      BY <1>0, <2>0, <2>7 DEF SetTagColor, AtManager, Ready
    <3>2. name \in Names
      BY <3>1, ManagerShape, ConfigShape DEF TagData
    <3>3. data \in TagData
      BY <3>2 DEF TagData
    <3> HIDE DEF data
    <3> QED BY <3>1, <3>3, WithTagLosesNothing, UntouchedFile DEF Apply
  <2> QED BY <1>5, <2>1, <2>2, <2>3, <2>4, <2>5, <2>6, <2>7 DEF ManagerStep
<1> QED BY <1>1, <1>2, <1>3, <1>4, <1>5 DEF Next

(* No click loses what another one stored: of the profiles in the file, a  *)
(* step changes only the one it saves or deletes, or takes the tag off     *)
(* whose deletion the user confirmed. The window writes its whole copy on  *)
(* some clicks and one profile on others; that the two agree is            *)
(* CopyIsCurrent, and that an update of one profile leaves the others to   *)
(* the next start is what validation says of their tags.                   *)
THEOREM NothingIsLost == Spec => NothingStoredIsLost
<1>1. IInv /\ [Next]_vars =>
        [~Outside =>
          /\ file = Damaged => file' = Damaged
          /\ cache # None /\ ~behind =>
               \A p \in Profiles :
                 \/ Seen(file').profiles[p] = Seen(file).profiles[p]
                 \/ saving # None /\ saving' = None /\ saving.profile = p
                 \/ p \in deleting \ deleting'
                 \/ \E t \in Registered(Seen(file)) \ Registered(Seen(file')) :
                      /\ confirm = <<"tag", t>>
                      /\ Seen(file').profiles[p] = Stripped(Seen(file), p, {t})]_vars
  BY StepLosesNothing DEF NothingLost, ProfileKept, Keeps
<1> QED BY <1>1, Invariance, PTL DEF Spec, NothingStoredIsLost

-----------------------------------------------------------------------------
(* Saves and editors.                                                      *)

LEMMA SaveCloses ==
  ASSUME IInv, Saved, editor' # editor
  PROVE  /\ editor.id = saving.id /\ editor.profile = saving.profile
         /\ Seen(file').profiles[saving.profile].tags = saving.tags
<1> DEFINE data == [tags |-> saving.tags, sound |-> TRUE]
           c    == WithProfile(saving.profile, data)
<1>1. saving # None /\ saving \in Forms /\ UpdateOk(saving.profile, data)
  BY IInvParts DEF Saved, DialogType
<1>2. editor # None /\ editor.id = saving.id
  BY DEF Saved, CloseSavedEditor
<1>3. data \in ProfileData /\ saving.profile \in Profiles
  BY <1>1, FormShape DEF ProfileData
<1> HIDE DEF data
<1>4. /\ c \in Config /\ c.profiles = [Content(file).profiles EXCEPT ![saving.profile] = data]
      /\ Content(file) \in Config
  BY <1>3, WithProfileType, ContentType, IInvParts DEF ConfigInv, ConfigType
<1>5. c.profiles[saving.profile] = data
  BY <1>3, <1>4, ConfigShape
<1>6. Seen(file') = c
  BY <1>1, <1>4, StoredIsSeen DEF UpdateOk
<1> QED BY <1>1, <1>2, <1>5, <1>6, IInvParts DEF EditorsDiffer, data

LEMMA OnlySaved ==
  ASSUME [Next]_vars, saving # None, saving' # saving, cache' # None PROVE Saved
<1>1. CASE Start \/ Close \/ Outside \/ SetFilter \/ UNCHANGED vars
  BY <1>1 DEF Start, Close, Outside, SetFilter, vars, dialogs
<1>2. ASSUME NEW s \in Settings, ChangeSettings(s) PROVE FALSE
  BY <1>2 DEF ChangeSettings, dialogs
<1>3. CASE EditorStep
  BY <1>3 DEF EditorStep, ShowAdd, ShowEdit, Open, ToggleEditorTag, CreateTagFromEditor, CancelEditor,
              SaveEditor
<1>4. CASE DeletionStep
  BY <1>4 DEF DeletionStep, RequestDeleteProfile, ConfirmDeleteProfile, DeletedProfile, RequestTagDelete,
              ConfirmDeleteTag, CancelConfirm
<1>5. CASE ManagerStep
  BY <1>5 DEF ManagerStep, OpenManager, LeaveField, ManagerCloses, CommitRows, CommitRow, TypeName,
              CreateTagFromManager, SetTagColor
<1> QED BY <1>1, <1>2, <1>3, <1>4, <1>5 DEF Next

(* A save that ends closes the editor it was started from, if that one is  *)
(* still on the screen, and only after its profile is in the file.         *)
THEOREM OwnEditor == Spec => SavesCloseTheirOwnEditor
<1>1. IInv /\ [Next]_vars =>
        [(saving # None /\ saving' = None /\ cache' # None /\ editor' # editor) =>
          /\ editor.id = saving.id /\ editor.profile = saving.profile
          /\ Seen(file').profiles[saving.profile].tags = saving.tags]_vars
  BY SaveCloses, OnlySaved
<1> QED BY <1>1, Invariance, PTL DEF Spec, SavesCloseTheirOwnEditor

-----------------------------------------------------------------------------
(* What the dialogs show. The parts of DialogsFollow, with the copy's tags. *)

FilterFollows  == filter.tags \subseteq Registered(cache)
EditorFollows  == editor # None => editor.tags \subseteq Registered(cache)
ConfirmFollows == \A t \in Tags : confirm = <<"tag", t>> => t \in Registered(cache)
RowFollows(m, t) ==
  m.rows[t] # None =>
    /\ t \in Registered(cache)
    /\ m.rows[t].color = cache.tags[t].color
    /\ m.rows[t].name # cache.tags[t].name => t = m.focus \/ m.rows[t].name = Blank
ManagerFollows == manager # None => \A t \in Tags : RowFollows(manager, t)
Follows == FilterFollows /\ EditorFollows /\ ConfirmFollows /\ ManagerFollows

LEMMA FollowsParts == DialogsFollow <=> (cache # None /\ ~Unnoticed => Follows)
BY DEF DialogsFollow, Follows, FilterFollows, EditorFollows, ConfirmFollows, ManagerFollows, RowFollows

LEMMA NoQuestion == ASSUME confirm = None PROVE ConfirmFollows
BY ConfirmAssumption DEF ConfirmFollows, Confirms

\* The tags of the copy stay: what followed them still does.
LEMMA SameTagsFollow ==
  ASSUME cache'.tags = cache.tags
  PROVE  /\ FilterFollows /\ UNCHANGED filter => FilterFollows'
         /\ EditorFollows /\ UNCHANGED editor => EditorFollows'
         /\ ConfirmFollows /\ UNCHANGED confirm => ConfirmFollows'
         /\ ManagerFollows /\ UNCHANGED manager => ManagerFollows'
         /\ Registered(cache)' = Registered(cache)
BY DEF FilterFollows, EditorFollows, ConfirmFollows, ManagerFollows, RowFollows, Registered

\* A tag is written.
LEMMA WrittenTag ==
  ASSUME cache \in Config, NEW t \in Tags, NEW data \in TagData, cache' = WithTag(t, data)
  PROVE  /\ Registered(cache)' = Registered(cache) \cup {t}
         /\ cache'.tags[t] = data
         /\ \A u \in Tags \ {t} : cache'.tags[u] = cache.tags[u]
<1>1. cache'.tags = [cache.tags EXCEPT ![t] = data] /\ data # None
  BY WithTagType, ConstantsAssumption
<1>2. cache.tags \in [Tags -> TagData \cup {None}]
  BY ConfigShape
<1> QED BY <1>1, <1>2 DEF Registered

LEMMA WrittenTagFollows ==
  ASSUME cache \in Config, NEW t \in Tags, NEW data \in TagData, cache' = WithTag(t, data)
  PROVE  /\ FilterFollows /\ UNCHANGED filter => FilterFollows'
         /\ EditorFollows /\ UNCHANGED editor => EditorFollows'
         /\ ConfirmFollows /\ UNCHANGED confirm => ConfirmFollows'
BY WrittenTag DEF FilterFollows, EditorFollows, ConfirmFollows

\* Without a fault that goes past the window a failed call changes nothing.
LEMMA NoticedSave ==
  ASSUME faults \subseteq Faults, NEW c, SaveOk(c) \/ SaveErr(c), ~Unnoticed'
  PROVE  /\ ~Unnoticed
         /\ SaveOk(c) => cache' = c
         /\ SaveErr(c) => UNCHANGED <<file, cache, behind, faults>>
<1>1. CASE SaveOk(c)
  <2>1. ~Unnoticed
    BY <1>1 DEF SaveOk, Unnoticed
  <2>2. SaveErr(c) => UNCHANGED <<file, cache, behind, faults>>
    <3>1. ~(Fault("late") /\ CanStore(c) /\ file' = c /\ behind' = TRUE)
      BY <1>1 DEF SaveOk
    <3> QED BY <3>1 DEF SaveErr, StoreFails
  <2> QED BY <1>1, <2>1, <2>2 DEF SaveOk
<1>2. CASE SaveErr(c) /\ ~SaveOk(c)
  <2>1. ~Fault("late")
    BY FaultKeepsType DEF Unnoticed
  <2> QED BY <1>2, <2>1 DEF SaveErr, StoreFails, Unnoticed
<1> QED BY <1>1, <1>2

LEMMA NoticedUpdate ==
  ASSUME ConfigInv, cache # None, NEW p \in Profiles, NEW data \in ProfileData \cup {None},
         UpdateOk(p, data) \/ UpdateErr(p, data), ~Unnoticed'
  PROVE  ~Unnoticed /\ cache'.tags = cache.tags
<1> DEFINE c == WithProfile(p, data)
<1>1. c \in Config /\ c.tags = Content(file).tags
  BY WithProfileType DEF ConfigInv, ConfigType
<1> HIDE DEF c
<1>2. ~Unnoticed
  <2>1. faults' = faults \/ Fault("late") \/ Fault("reload")
    BY DEF UpdateOk, Reload, UpdateErr, StoreFails
  <2>2. faults \subseteq faults'
    BY <2>1 DEF Fault
  <2> QED BY <2>2 DEF Unnoticed
<1>3. CASE UpdateErr(p, data) \/ UNCHANGED cache
  BY <1>2, <1>3 DEF UpdateErr
<1>4. CASE UpdateOk(p, data) /\ ~UNCHANGED cache
  <2>1. CanStore(c) /\ file' = c /\ cache' = Seen(file')
    BY <1>4 DEF UpdateOk, Reload, Seen, c
  <2>2. cache' = c
    BY <1>1, <2>1, StoredIsSeen
  <2> QED BY <1>1, <1>2, <2>2 DEF ConfigInv, SameTags
<1> QED BY <1>2, <1>3, <1>4

LEMMA EditorFollowsOn ==
  ASSUME IInv, DialogsFollow, EditorStep, cache' # None, ~Unnoticed' PROVE Follows'
<1>1. ASSUME NEW id \in EditorIds, NEW p \in Profiles, ShowAdd(id, p) PROVE Follows'
  <2>1. cache' = cache /\ Follows
    BY <1>1, FollowsParts DEF ShowAdd, Open, configVars, Unnoticed
  <2>2. EditorFollows'
    BY <1>1 DEF ShowAdd, Open, EditorFollows
  <2> QED BY <1>1, <2>1, <2>2, SameTagsFollow DEF ShowAdd, Open, configVars, Follows
<1>2. ASSUME NEW id \in EditorIds, NEW p \in Profiles, ShowEdit(id, p) PROVE Follows'
  <2>1. cache' = cache /\ Follows
    BY <1>2, FollowsParts DEF ShowEdit, Open, configVars, Unnoticed
  <2>2. cache.profiles[p].tags \subseteq Registered(cache)
    BY <1>2, IInvParts DEF ShowEdit, AtSidebar, Ready, ConfigInv, CopyIsCurrent, Valid, RefsResolve
  <2>3. EditorFollows'
    BY <1>2, <2>1, <2>2, SameTagsFollow DEF ShowEdit, Open, EditorFollows
  <2> QED BY <1>2, <2>1, <2>3, SameTagsFollow DEF ShowEdit, Open, configVars, Follows
<1>3. ASSUME NEW t \in Tags, ToggleEditorTag(t) PROVE Follows'
  <2>1. cache' = cache /\ Follows
    BY <1>3, FollowsParts DEF ToggleEditorTag, configVars, Unnoticed
  <2>2. editor \in Forms /\ editor # None /\ t \in Registered(cache)
    BY <1>3, IInvParts DEF ToggleEditorTag, AtEditor, DialogType
  <2>3. editor'.tags \in {editor.tags \ {t}, editor.tags \cup {t}}
    BY <1>3, <2>2 DEF ToggleEditorTag, Forms
  <2>4. EditorFollows'
    BY <2>1, <2>2, <2>3, SameTagsFollow DEF EditorFollows, Follows
  <2> QED BY <1>3, <2>1, <2>4, SameTagsFollow DEF ToggleEditorTag, configVars, Follows
<1>4. ASSUME NEW t \in Tags, NEW n \in Names, CreateTagFromEditor(t, n) PROVE Follows'
  <2> DEFINE c == WithTag(t, NewTag(n))
  <2>1. cache # None /\ cache \in Config /\ faults \subseteq Faults /\ NewTag(n) \in TagData
    BY <1>4, NewTagType, IInvParts DEF CreateTagFromEditor, AtEditor, Ready, ConfigInv, ConfigType
  <2>2. SaveOk(c) \/ SaveErr(c)
    BY <1>4 DEF CreateTagFromEditor
  <2>3. ~Unnoticed /\ Follows
    BY <2>1, <2>2, NoticedSave, FollowsParts
  <2>4. CASE SaveOk(c) /\ editor' = [editor EXCEPT !.tags = @ \cup {t}]
    <3>1. cache' = c /\ Registered(cache)' = Registered(cache) \cup {t}
      BY <2>1, <2>4, WrittenTag DEF SaveOk
    <3>2. editor \in Forms /\ editor # None
      BY <1>4, IInvParts DEF CreateTagFromEditor, AtEditor, DialogType
    <3>3. editor'.tags = editor.tags \cup {t}
      BY <2>4, <3>2 DEF Forms
    <3>4. EditorFollows'
      BY <2>3, <3>1, <3>2, <3>3 DEF EditorFollows, Follows
    <3>5. ManagerFollows'
      <4>1. t \notin Registered(cache) /\ manager' = manager
        BY <1>4 DEF CreateTagFromEditor, Fresh, UsedTags
      <4>2. \A u \in Tags \ {t} : cache'.tags[u] = cache.tags[u]
        BY <2>1, <3>1, WrittenTag
      <4> QED BY <2>3, <3>1, <4>1, <4>2 DEF ManagerFollows, RowFollows, Follows
    <3> QED BY <1>4, <2>1, <2>3, <3>1, <3>4, <3>5, WrittenTagFollows DEF CreateTagFromEditor, Follows
  <2>5. CASE SaveErr(c) /\ UNCHANGED editor
    <3>1. cache' = cache
      BY <2>5 DEF SaveErr
    <3> QED BY <1>4, <2>3, <2>5, <3>1, SameTagsFollow DEF CreateTagFromEditor, Follows
  <2> QED BY <1>4, <2>4, <2>5 DEF CreateTagFromEditor
<1>5. ASSUME CancelEditor \/ SaveEditor PROVE Follows'
  <2>1. cache' = cache /\ Follows
    BY <1>5, FollowsParts DEF CancelEditor, SaveEditor, configVars, Unnoticed
  <2>2. EditorFollows'
    BY <1>5, <2>1, SameTagsFollow DEF CancelEditor, SaveEditor, EditorFollows, Follows
  <2> QED BY <1>5, <2>1, <2>2, SameTagsFollow DEF CancelEditor, SaveEditor, configVars, Follows
<1>6. ASSUME Saved PROVE Follows'
  <2> DEFINE data == [tags |-> saving.tags, sound |-> TRUE]
  <2>1. cache # None /\ saving \in Forms
    BY <1>6, IInvParts DEF Saved, Ready, DialogType
  <2>2. data \in ProfileData /\ saving.profile \in Profiles
    BY <2>1, FormShape DEF ProfileData
  <2>3. UpdateOk(saving.profile, data) \/ UpdateErr(saving.profile, data)
    BY <1>6 DEF Saved
  <2> HIDE DEF data
  <2>4. cache'.tags = cache.tags /\ Follows
    BY <2>1, <2>2, <2>3, NoticedUpdate, IInvParts, FollowsParts
  <2>5. editor' \in {None, editor} /\ UNCHANGED <<filter, confirm, manager>>
    BY <1>6 DEF Saved, CloseSavedEditor
  <2>6. EditorFollows'
    BY <2>4, <2>5, SameTagsFollow DEF EditorFollows, Follows
  <2> QED BY <2>4, <2>5, <2>6, SameTagsFollow DEF Follows
<1> QED BY <1>1, <1>2, <1>3, <1>4, <1>5, <1>6 DEF EditorStep

\* A deleted tag leaves every dialog.
LEMMA DeletedTagFollows ==
  ASSUME IInv, DialogsFollow, cache # None, NEW t \in Tags, DeleteTag(t), ~Unnoticed',
         confirm' = None
  PROVE  Follows'
<1> DEFINE c == WithoutTag(t)
<1>1. cache \in Config /\ faults \subseteq Faults /\ (SaveOk(c) \/ SaveErr(c))
  BY IInvParts DEF DeleteTag, ConfigInv, ConfigType
<1>2. c.tags = [cache.tags EXCEPT ![t] = None] /\ cache.tags \in [Tags -> TagData \cup {None}]
  BY <1>1, WithoutTagType, ConfigShape
<1> HIDE DEF c
<1>3. ~Unnoticed /\ Follows
  BY <1>1, NoticedSave, FollowsParts
<1>4. ConfirmFollows'
  BY ConfirmAssumption DEF ConfirmFollows, Confirms
<1>5. CASE SaveOk(c) /\ filter' = [filter EXCEPT !.tags = @ \ {t}] /\ DropFromDialogs(t)
  <2>1. /\ Registered(cache)' = Registered(cache) \ {t}
        /\ \A u \in Tags \ {t} : cache'.tags[u] = cache.tags[u]
    BY <1>2, <1>5 DEF SaveOk, Registered
  <2>2. FilterFollows'
    <3>1. filter'.tags = filter.tags \ {t}
      BY <1>5, IInvParts DEF DialogType
    <3> QED BY <1>3, <2>1, <3>1 DEF FilterFollows, Follows
  <2>3. EditorFollows'
    BY <1>3, <1>5, <2>1, DropFromEditor, IInvParts DEF EditorFollows, Follows
  <2>4. ManagerFollows'
    <3> SUFFICES ASSUME manager' # None, NEW u \in Tags PROVE RowFollows(manager, u)'
      BY DEF ManagerFollows
    <3>1. /\ manager # None /\ manager \in Managers
          /\ manager'.rows = [manager.rows EXCEPT ![t] = None]
          /\ manager'.focus = IF manager.focus = t THEN None ELSE manager.focus
      BY <1>5, DropFromManager, IInvParts DEF DialogType
    <3>2. manager.rows \in [Tags -> TagData \cup {None}]
      BY <3>1, ManagerShape
    <3>3. CASE u = t
      BY <3>1, <3>2, <3>3 DEF RowFollows
    <3>4. CASE u # t
      <4>1. manager'.rows[u] = manager.rows[u] /\ (u = manager.focus => u = manager'.focus)
        BY <3>1, <3>2, <3>4
      <4>2. RowFollows(manager, u)
        BY <1>3, <3>1 DEF Follows, ManagerFollows
      <4> QED BY <2>1, <3>4, <4>1, <4>2 DEF RowFollows
    <3> QED BY <3>3, <3>4
  <2> QED BY <1>4, <2>2, <2>3, <2>4 DEF Follows
<1>6. CASE SaveErr(c) /\ UNCHANGED <<filter, editor, manager>>
  <2>1. cache' = cache
    BY <1>6 DEF SaveErr
  <2> QED BY <1>3, <1>4, <1>6, <2>1, SameTagsFollow DEF Follows
<1> QED BY <1>5, <1>6 DEF DeleteTag, c

LEMMA DeletionFollowsOn ==
  ASSUME IInv, DialogsFollow, DeletionStep, cache' # None, ~Unnoticed' PROVE Follows'
<1>1. ASSUME NEW p \in Profiles, RequestDeleteProfile(p) \/ ConfirmDeleteProfile(p) PROVE Follows'
  <2>1. cache' = cache /\ Follows /\ UNCHANGED <<filter, editor, manager>>
    BY <1>1, FollowsParts DEF RequestDeleteProfile, ConfirmDeleteProfile, configVars, Unnoticed
  <2>2. confirm' \in {None, <<"profile", p>>}
    BY <1>1 DEF RequestDeleteProfile, ConfirmDeleteProfile
  <2>3. ConfirmFollows'
    BY <2>2, ConfirmAssumption DEF ConfirmFollows, Confirms
  <2> QED BY <2>1, <2>3, SameTagsFollow DEF Follows
<1>2. ASSUME CancelConfirm PROVE Follows'
  <2>1. cache' = cache /\ Follows /\ UNCHANGED <<filter, editor, manager>>
    BY <1>2, FollowsParts DEF CancelConfirm, configVars, Unnoticed
  <2>2. ConfirmFollows'
    BY <1>2, ConfirmAssumption DEF CancelConfirm, ConfirmFollows, Confirms
  <2> QED BY <2>1, <2>2, SameTagsFollow DEF Follows
<1>3. ASSUME NEW p \in Profiles, DeletedProfile(p) PROVE Follows'
  <2>1. cache # None /\ UNCHANGED <<filter, editor, confirm, manager>>
    BY <1>3 DEF DeletedProfile, Ready
  <2>2. ~Unnoticed /\ cache'.tags = cache.tags
    <3>1. CASE UpdateOk(p, None) \/ UpdateErr(p, None)
      BY <2>1, <3>1, NoticedUpdate, IInvParts
    <3>2. CASE UNCHANGED <<cache, faults>>
      BY <3>2 DEF Unnoticed
    <3> QED BY <1>3, <3>1, <3>2 DEF DeletedProfile
  <2>3. Follows
    BY <2>1, <2>2, FollowsParts
  <2> QED BY <2>1, <2>2, <2>3, SameTagsFollow DEF Follows
<1>4. ASSUME NEW t \in Tags, RequestTagDelete(t) PROVE Follows'
  <2>1. cache # None /\ confirm = None /\ manager # None /\ manager.rows[t] # None
    BY <1>4 DEF RequestTagDelete, AtManager, Ready
  <2>2. CASE confirm' = <<"tag", t>> /\ UNCHANGED <<configVars, editor, manager>>
    <3>1. cache' = cache /\ Follows /\ UNCHANGED <<filter, editor, manager>>
      BY <2>1, <2>2, FollowsParts DEF configVars, Unnoticed
    <3>2. t \in Registered(cache)
      BY <2>1, <3>1 DEF Follows, ManagerFollows, RowFollows
    <3>3. ConfirmFollows'
      BY <2>2, <3>1, <3>2, SameTagsFollow DEF ConfirmFollows
    <3> QED BY <3>1, <3>3, SameTagsFollow DEF Follows
  <2>3. CASE DeleteTag(t) /\ UNCHANGED confirm
    BY <2>1, <2>3, DeletedTagFollows
  <2> QED BY <1>4, <2>2, <2>3 DEF RequestTagDelete
<1>5. ASSUME NEW t \in Tags, ConfirmDeleteTag(t) PROVE Follows'
  BY <1>5, DeletedTagFollows DEF ConfirmDeleteTag, AtConfirm, Ready
<1> QED BY <1>1, <1>2, <1>3, <1>4, <1>5 DEF DeletionStep

\* A row is applied, and the others were fine.
LEMMA AppliedRowFollows ==
  ASSUME IInv, DialogsFollow, cache # None, ~Unnoticed',
         NEW t \in Tags, NEW data \in TagData, NEW m \in Managers, Apply(t, data, m),
         UNCHANGED <<filter, editor, saving, deleting, confirm>>,
         ~Unnoticed => /\ t \in Registered(cache) /\ m.rows[t] # None
                       /\ m.rows[t].color = cache.tags[t].color
                       /\ cache.tags[t] = data => RowFollows(m, t)
                       /\ \A u \in Tags \ {t} : RowFollows(m, u)
  PROVE  Follows'
<1> DEFINE c == WithTag(t, data)
<1>1. cache \in Config /\ faults \subseteq Faults
  BY IInvParts DEF ConfigInv, ConfigType
<1>2. ~Unnoticed
  BY <1>1, NoticedSave DEF Apply, Unnoticed
<1>3. Follows /\ t \in Registered(cache) /\ m.rows[t] # None /\ m.rows[t].color = cache.tags[t].color
      /\ (cache.tags[t] = data => RowFollows(m, t)) /\ \A u \in Tags \ {t} : RowFollows(m, u)
  BY <1>2, FollowsParts
<1>4. CASE cache.tags[t] = data /\ manager' = m /\ UNCHANGED <<file, cache, behind, faults>>
  <2>1. \A u \in Tags : RowFollows(m, u)'
    BY <1>3, <1>4 DEF RowFollows, Registered
  <2>2. ManagerFollows'
    BY <1>4, <2>1 DEF ManagerFollows, RowFollows
  <2> QED BY <1>3, <1>4, <2>2, SameTagsFollow DEF Follows
<1>5. CASE SaveOk(c) /\ manager' = [m EXCEPT !.rows[t] = data]
  <2>1. /\ cache' = c /\ Registered(cache)' = Registered(cache) \cup {t} /\ cache'.tags[t] = data
        /\ \A u \in Tags \ {t} : cache'.tags[u] = cache.tags[u]
    BY <1>1, <1>5, WrittenTag DEF SaveOk
  <2>2. /\ manager'.rows = [m.rows EXCEPT ![t] = data] /\ manager'.focus = m.focus
        /\ m.rows \in [Tags -> TagData \cup {None}]
    BY <1>5, SetRow, ManagerShape
  <2>3. RowFollows(manager, t)'
    BY <2>1, <2>2 DEF RowFollows
  <2>4. \A u \in Tags \ {t} : RowFollows(manager, u)'
    BY <1>3, <2>1, <2>2 DEF RowFollows
  <2>5. ManagerFollows'
    BY <2>3, <2>4 DEF ManagerFollows
  <2> QED BY <1>1, <1>3, <2>1, <2>5, WrittenTagFollows DEF Follows
<1>6. CASE SaveErr(c) /\ Reset(t, m)
  <2>1. cache' = cache
    BY <1>6 DEF SaveErr
  <2>2. cache.tags[t] \in TagData
    BY <1>1, <1>3, ConfigShape DEF Registered
  <2>3. /\ manager'.rows = [m.rows EXCEPT ![t] = [name |-> cache.tags[t].name, color |-> m.rows[t].color]]
        /\ manager'.focus = m.focus /\ m.rows \in [Tags -> TagData \cup {None}]
    BY <1>3, <1>6, <2>2, SetName, ManagerShape DEF Reset, TagData
  <2>4. RowFollows(manager, t)'
    BY <1>3, <2>1, <2>3, SameTagsFollow DEF RowFollows
  <2>5. \A u \in Tags \ {t} : RowFollows(manager, u)'
    BY <1>3, <2>1, <2>3, SameTagsFollow DEF RowFollows
  <2>6. ManagerFollows'
    BY <2>4, <2>5 DEF ManagerFollows
  <2> QED BY <1>3, <2>1, <2>6, SameTagsFollow DEF Follows
<1> QED BY <1>3, <1>4, <1>5, <1>6 DEF Apply, Registered

\* The row of t is committed in m, which is the manager but for what is due
\* and for whether t is being typed.
LEMMA CommittedRowFollows ==
  ASSUME IInv, DialogsFollow, cache # None, ~Unnoticed', manager # None,
         NEW t \in Tags, NEW m \in Managers, Commit(t, m), m.rows = manager.rows,
         m.focus \in {manager.focus, None}, m.focus = None => manager.focus \in {t, None},
         UNCHANGED <<filter, editor, saving, deleting, confirm>>
  PROVE  Follows'
<1>1. manager \in Managers /\ cache \in Config
  BY IInvParts DEF DialogType, ConfigInv, ConfigType
<1>2. m.rows[t] \in TagData \cup {None} /\ cache.tags[t] \in TagData \cup {None}
  BY <1>1, ManagerShape, ConfigShape
<1>3. ASSUME ~Unnoticed PROVE \A u \in Tags \ {t} : RowFollows(m, u)
  <2>1. \A u \in Tags : RowFollows(manager, u)
    BY <1>3, FollowsParts DEF Follows, ManagerFollows
  <2>2. \A u \in Tags \ {t} : u = manager.focus => u = m.focus
    BY ConstantsAssumption
  <2> QED BY <2>1, <2>2 DEF RowFollows
<1>4. ASSUME ~Unnoticed, m.rows[t] # None
      PROVE  t \in Registered(cache) /\ m.rows[t].color = cache.tags[t].color
  BY <1>4, FollowsParts DEF Follows, ManagerFollows, RowFollows
<1>5. CASE m.rows[t] # None /\ Apply(t, m.rows[t], m)
  <2>1. m.rows[t] \in TagData
    BY <1>2, <1>5
  <2>2. ~Unnoticed => (cache.tags[t] = m.rows[t] => RowFollows(m, t))
    BY <1>4 DEF RowFollows
  <2> QED BY <1>3, <1>4, <1>5, <2>1, <2>2, AppliedRowFollows
<1>6. CASE /\ m.rows[t] = None \/ m.rows[t].name = Blank
           /\ manager' = m /\ UNCHANGED <<file, cache, behind, faults>>
  <2>1. ~Unnoticed /\ Follows
    BY <1>6, FollowsParts DEF Unnoticed
  <2>2. RowFollows(m, t)
    BY <1>4, <1>6, <2>1 DEF RowFollows
  <2>3. \A u \in Tags : RowFollows(manager, u)'
    BY <1>3, <1>6, <2>1, <2>2, SameTagsFollow DEF RowFollows
  <2>4. ManagerFollows'
    BY <2>3 DEF ManagerFollows
  <2> QED BY <1>6, <2>1, <2>4, SameTagsFollow DEF Follows
<1> QED BY <1>5, <1>6 DEF Commit

LEMMA ManagerFollowsOn ==
  ASSUME IInv, DialogsFollow, ManagerStep, cache' # None, ~Unnoticed' PROVE Follows'
<1> DEFINE others == <<filter, editor, saving, deleting, confirm>>
<1>0. /\ manager # None => cache # None /\ manager \in Managers
      /\ cache # None => cache \in Config
      /\ faults \subseteq Faults
  BY IInvParts DEF NothingWithoutCopy, DialogType, ConfigInv, ConfigType
<1>1. ASSUME cache # None, UNCHANGED configVars, UNCHANGED others, ManagerFollows' PROVE Follows'
  <2>1. Follows /\ cache' = cache
    BY <1>1, FollowsParts DEF configVars, Unnoticed
  <2> QED BY <1>1, <2>1, SameTagsFollow DEF Follows
<1>2. ASSUME OpenManager PROVE Follows'
  <2>1. cache # None /\ cache.tags \in [Tags -> TagData \cup {None}] /\ cache' = cache
    BY <1>0, <1>2, ConfigShape DEF OpenManager, AtSidebar, Ready, configVars
  <2>2. manager'.rows = cache.tags
    BY <1>2 DEF OpenManager
  <2>3. ManagerFollows'
    BY <2>1, <2>2 DEF ManagerFollows, RowFollows, Registered
  <2> QED BY <1>1, <1>2, <2>1, <2>3 DEF OpenManager, configVars
<1>3. ASSUME LeaveField PROVE Follows'
  <2> DEFINE m == [manager EXCEPT !.focus = None]
  <2>1. manager \in Managers /\ manager # None /\ manager.focus \in Tags /\ cache # None
    BY <1>0, <1>3, ManagerShape DEF LeaveField
  <2>2. m \in Managers /\ m.rows = manager.rows /\ m.focus = None
    BY <2>1, SetFocus
  <2>3. Commit(manager.focus, m) /\ UNCHANGED others
    BY <1>3 DEF LeaveField
  <2> HIDE DEF m
  <2> QED BY <2>1, <2>2, <2>3, CommittedRowFollows
<1>4. ASSUME NEW t \in Tags, CommitRow(t) PROVE Follows'
  <2> DEFINE m == [manager EXCEPT !.due = @ \ {t}]
  <2>1. manager \in Managers /\ manager # None /\ cache # None /\ Commit(t, m) /\ UNCHANGED others
    BY <1>0, <1>4 DEF CommitRow
  <2>2. m \in Managers /\ m.rows = manager.rows /\ m.focus = manager.focus
    BY <2>1, OneLess
  <2> HIDE DEF m
  <2> QED BY <2>1, <2>2, CommittedRowFollows
<1>5. ASSUME ManagerCloses PROVE Follows'
  <2>1. ManagerFollows'
    BY <1>5 DEF ManagerCloses, ManagerFollows
  <2> QED BY <1>0, <1>1, <1>5, <2>1 DEF ManagerCloses, configVars
<1>6. ASSUME NEW close \in BOOLEAN, CommitRows(close) PROVE Follows'
  <2> DEFINE due == {t \in Tags : manager.rows[t] # None}
  <2>1. /\ cache # None /\ manager # None /\ manager \in Managers /\ due \in SUBSET Tags
        /\ manager' = [manager EXCEPT !.due = due, !.closing = close]
    BY <1>0, <1>6 DEF CommitRows, AtManager, Ready
  <2> HIDE DEF due
  <2>2. manager'.rows = manager.rows /\ manager'.focus = manager.focus
    BY <2>1 DEF Managers
  <2>3. cache' = cache /\ ManagerFollows
    BY <1>6, <2>1, FollowsParts DEF CommitRows, configVars, Unnoticed, Follows
  <2>4. ManagerFollows'
    BY <2>1, <2>2, <2>3 DEF ManagerFollows, RowFollows, Registered
  <2> QED BY <1>1, <1>6, <2>1, <2>4 DEF CommitRows, configVars
<1>7. ASSUME NEW t \in Tags, NEW n \in Names, TypeName(t, n) PROVE Follows'
  <2> DEFINE m == [manager EXCEPT !.rows[t].name = n]
  <2>1. /\ cache # None /\ manager # None /\ manager \in Managers /\ manager.rows[t] # None
        /\ manager.focus \in {None, t}
    BY <1>0, <1>7 DEF TypeName, AtManager, Ready
  <2>2. /\ m \in Managers /\ manager.rows \in [Tags -> TagData \cup {None}]
        /\ m.rows = [manager.rows EXCEPT ![t] = [name |-> n, color |-> manager.rows[t].color]]
    BY <2>1, SetName, ManagerShape
  <2>3. manager' = [m EXCEPT !.focus = t]
    BY <1>7 DEF TypeName
  <2> HIDE DEF m
  <2>4. manager'.rows = m.rows /\ manager'.focus = t
    BY <2>2, <2>3, SetFocus
  <2>5. cache' = cache /\ ManagerFollows
    BY <1>7, <2>1, FollowsParts DEF TypeName, configVars, Unnoticed, Follows
  <2>6. \A u \in Tags \ {t} : manager'.rows[u] = manager.rows[u] /\ u # manager.focus
    BY <2>1, <2>2, <2>4, ConstantsAssumption
  <2>7. RowFollows(manager, t)'
    BY <2>1, <2>2, <2>4, <2>5, SameTagsFollow DEF ManagerFollows, RowFollows
  <2>8. \A u \in Tags \ {t} : RowFollows(manager, u)'
    BY <2>1, <2>5, <2>6, SameTagsFollow DEF ManagerFollows, RowFollows
  <2>9. ManagerFollows'
    BY <2>7, <2>8 DEF ManagerFollows
  <2> QED BY <1>1, <1>7, <2>1, <2>9 DEF TypeName, configVars
<1>8. ASSUME NEW t \in Tags, NEW n \in Names, CreateTagFromManager(t, n) PROVE Follows'
  <2> DEFINE c == WithTag(t, NewTag(n))
  <2>1. /\ cache # None /\ cache \in Config /\ manager # None /\ manager \in Managers
        /\ NewTag(n) \in TagData /\ (SaveOk(c) \/ SaveErr(c)) /\ UNCHANGED others
    BY <1>0, <1>8, NewTagType DEF CreateTagFromManager, AtManager, Ready
  <2>2. ~Unnoticed /\ Follows
    BY <1>0, <2>1, NoticedSave, FollowsParts
  <2>3. CASE SaveOk(c) /\ manager' = [manager EXCEPT !.rows[t] = NewTag(n)]
    <3>1. /\ cache' = c /\ Registered(cache)' = Registered(cache) \cup {t} /\ cache'.tags[t] = NewTag(n)
          /\ \A u \in Tags \ {t} : cache'.tags[u] = cache.tags[u]
      BY <2>1, <2>3, WrittenTag DEF SaveOk
    <3>2. /\ manager'.rows = [manager.rows EXCEPT ![t] = NewTag(n)] /\ manager'.focus = manager.focus
          /\ manager.rows \in [Tags -> TagData \cup {None}]
      BY <2>1, <2>3, SetRow, ManagerShape
    <3>3. RowFollows(manager, t)'
      BY <3>1, <3>2 DEF RowFollows
    <3>4. \A u \in Tags \ {t} : RowFollows(manager, u)'
      BY <2>1, <2>2, <3>1, <3>2 DEF Follows, ManagerFollows, RowFollows
    <3>5. ManagerFollows'
      BY <3>3, <3>4 DEF ManagerFollows
    <3> QED BY <2>1, <2>2, <3>1, <3>5, WrittenTagFollows DEF Follows
  <2>4. CASE SaveErr(c) /\ UNCHANGED manager
    <3>1. cache' = cache
      BY <2>4 DEF SaveErr
    <3> QED BY <2>1, <2>2, <2>4, <3>1, SameTagsFollow DEF Follows
  <2> QED BY <1>8, <2>3, <2>4 DEF CreateTagFromManager
<1>9. ASSUME NEW t \in Tags, NEW c \in Colors \cup {None}, SetTagColor(t, c) PROVE Follows'
  <2> DEFINE typed == manager.rows[t].name
             name  == IF typed # Blank THEN typed ELSE cache.tags[t].name
             data  == [name |-> name, color |-> c]
  <2>1. name \in Names
    BY <1>0, <1>9, ManagerShape, ConfigShape DEF SetTagColor, AtManager, Ready, TagData
  <2>2. data \in TagData
    BY <2>1 DEF TagData
  <2> HIDE DEF data
  <2>3. ~Unnoticed => \A u \in Tags : RowFollows(manager, u)
    BY <1>0, <1>9, FollowsParts DEF SetTagColor, AtManager, Ready, Follows, ManagerFollows
  <2>4. /\ cache # None /\ manager # None /\ manager \in Managers /\ manager.rows[t] # None
        /\ Apply(t, data, manager) /\ UNCHANGED others
    BY <1>0, <1>9 DEF SetTagColor, AtManager, Ready, data
  <2>5. ~Unnoticed => t \in Registered(cache) /\ manager.rows[t].color = cache.tags[t].color
    BY <2>3, <2>4 DEF RowFollows
  <2> QED BY <2>2, <2>3, <2>4, <2>5, AppliedRowFollows
<1> QED BY <1>2, <1>3, <1>4, <1>5, <1>6, <1>7, <1>8, <1>9 DEF ManagerStep

LEMMA StepFollows ==
  ASSUME IInv, DialogsFollow, [Next]_vars PROVE DialogsFollow'
<1> SUFFICES ASSUME cache' # None, ~Unnoticed' PROVE Follows'
  BY DEF DialogsFollow, Follows, FilterFollows, EditorFollows, ConfirmFollows, ManagerFollows, RowFollows
<1>1. CASE Start
  <2>1. filter' = NoFilter /\ editor' = None /\ confirm' = None /\ manager' = None
    BY <1>1, IInvParts DEF Start, Load, NothingWithoutCopy, dialogs
  <2>2. FilterFollows' /\ EditorFollows' /\ ManagerFollows'
    BY <2>1 DEF NoFilter, FilterFollows, EditorFollows, ManagerFollows
  <2>3. ConfirmFollows'
    BY <2>1, ConfirmAssumption DEF ConfirmFollows, Confirms
  <2> QED BY <2>2, <2>3 DEF Follows
<1>2. CASE Close
  BY <1>2 DEF Close
<1>3. CASE Outside
  <2>1. Unnoticed'
    BY <1>3, FaultKeepsType, IInvParts DEF Outside, EditOutside, ConfigInv, ConfigType, Unnoticed
  <2> QED BY <2>1
<1>4. CASE SetFilter
  <2>1. cache # None /\ UNCHANGED <<cache, faults, editor, confirm, manager>>
    BY <1>4 DEF SetFilter, AtSidebar, Ready, dialogs
  <2>2. Follows
    BY <2>1, FollowsParts DEF Unnoticed
  <2>3. filter \in Filters
    BY IInvParts DEF DialogType, Filters
  <2>4. FilterFollows'
    <3>1. ASSUME NEW t \in Tags, ToggleTagFilter(t) PROVE FilterFollows'
      <4>1. t \in Registered(cache) /\ filter'.tags \in {filter.tags \ {t}, filter.tags \cup {t}}
        BY <2>3, <3>1, ToggledFilter
      <4> QED BY <2>1, <2>2, <4>1, SameTagsFollow DEF FilterFollows, Follows
    <3>2. ASSUME ToggleUntaggedFilter \/ ClearTagFilter PROVE FilterFollows'
      <4>1. filter'.tags \in {filter.tags, {}}
        BY <2>3, <3>2, FilterTypes DEF ToggleUntaggedFilter, ClearTagFilter, NoFilter
      <4> QED BY <2>1, <2>2, <4>1, SameTagsFollow DEF FilterFollows, Follows
    <3> QED BY <1>4, <3>1, <3>2 DEF SetFilter
  <2> QED BY <2>1, <2>2, <2>4, SameTagsFollow DEF Follows
<1>5. ASSUME NEW s \in Settings, ChangeSettings(s) PROVE Follows'
  <2> DEFINE c == [cache EXCEPT !.settings = s]
  <2>1. cache # None /\ cache \in Config /\ faults \subseteq Faults /\ (SaveOk(c) \/ SaveErr(c))
        /\ UNCHANGED <<filter, editor, confirm, manager>>
    BY <1>5, IInvParts DEF ChangeSettings, AtSidebar, Ready, ConfigInv, ConfigType, dialogs
  <2>2. c.tags = cache.tags
    BY <2>1 DEF Config
  <2> HIDE DEF c
  <2>3. Follows /\ cache' \in {cache, c}
    BY <2>1, NoticedSave, FollowsParts
  <2>4. cache'.tags = cache.tags
    BY <2>2, <2>3
  <2> QED BY <2>1, <2>3, <2>4, SameTagsFollow DEF Follows
<1>6. CASE UNCHANGED vars
  <2>1. UNCHANGED <<cache, faults, filter, editor, confirm, manager>>
    BY <1>6 DEF vars, configVars, dialogs
  <2>2. Follows
    BY <2>1, FollowsParts DEF Unnoticed
  <2> QED BY <2>1, <2>2, SameTagsFollow DEF Follows
<1> QED BY <1>1, <1>2, <1>3, <1>4, <1>5, <1>6, EditorFollowsOn, DeletionFollowsOn, ManagerFollowsOn DEF Next

(* Unless a change of the file went past the window, a tag that is gone is *)
(* gone from the filter, from the forms, from the rows and from the        *)
(* question on the screen, and a row that is not being typed shows what is *)
(* stored. The step from a profile's write to its reload leaves the tags   *)
(* as they are because the file's tags are the copy's (SameTags).          *)
THEOREM ScreenFollows == Spec => []DialogsFollow
<1>1. Init => DialogsFollow
  BY DEF Init, ConfigInit, DialogsFollow
<1> QED BY <1>1, StepFollows, Invariance, PTL DEF Spec
=============================================================================
