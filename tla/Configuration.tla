--------------------------- MODULE Configuration ---------------------------
(***************************************************************************)
(* The configuration: the file config.json (AppStore, storage.rs), what is *)
(* accepted in it, and the copy the interface works on (AppState,          *)
(* state/mod.rs). Changes reach the file in two ways:                      *)
(*   save_config    the whole copy, changed, replaces the file; used for   *)
(*                  tags and settings                                      *)
(*   update_config  the file is read again and one profile of it replaced  *)
(*                  or removed; the copy is read back afterwards           *)
(* The module has the state and the operations; Editing has the dialogs    *)
(* that call them. A name, a colour, a setting and a profile's data are    *)
(* what validation and the dialogs tell apart.                             *)
(***************************************************************************)
EXTENDS Naturals, FiniteSets

CONSTANTS
  Tags, Profiles,   \* ids, drawn at random
  Names,            \* what can be typed as a tag's name
  BadNames,         \* those of them that are blank or longer than 32
  Blank,            \* the empty one
  Folded,           \* each name in lower case
  Colors, Settings, DefaultSettings,
  Files,            \* what others may put in place of the file
  Faults,           \* "late" "reload" "outside"
  MaxFaults,        \* bound on the faults of a behaviour
  Missing, Damaged, None

TagData     == [name : Names, color : Colors \cup {None}]
\* sound: the profile's own fields are valid and its credential reference is its own.
ProfileData == [tags : SUBSET Tags, sound : BOOLEAN]
Config      == [tags : [Tags -> TagData \cup {None}],
                profiles : [Profiles -> ProfileData \cup {None}],
                settings : Settings]

\* A file that is not JSON, or of another schema version, is damaged.
ASSUME ConstantsAssumption ==
  /\ BadNames \subseteq Names /\ Blank \in BadNames
  /\ DefaultSettings \in Settings
  /\ MaxFaults \in Nat
  /\ Files \subseteq Config \cup {Missing, Damaged}
  /\ None \notin TagData \cup ProfileData \cup Config \cup Tags \cup Profiles \cup Colors
  /\ Missing \notin Config /\ Damaged \notin Config /\ Missing # Damaged

VARIABLES
  file,     \* config.json
  cache,    \* AppState.config; None on the recovery screen and without a window
  filter,   \* AppState.tag_filter
  behind,   \* history: has the file changed without the copy being read back?
  faults    \* history: the kinds of fault so far

configVars == <<file, cache, filter, behind, faults>>

-----------------------------------------------------------------------------
(* What a configuration is.                                                *)

Registered(c) == {t \in Tags : c.tags[t] # None}
Stored(c)     == {p \in Profiles : c.profiles[p] # None}

Default ==
  [tags |-> [t \in Tags |-> None], profiles |-> [p \in Profiles |-> None],
   settings |-> DefaultSettings]

\* Tag::validate.
GoodName(n) == n \notin BadNames

NamesDiffer(c) ==
  \A t, u \in Registered(c) : t # u => Folded[c.tags[t].name] # Folded[c.tags[u].name]

RefsResolve(c) == \A p \in Stored(c) : c.profiles[p].tags \subseteq Registered(c)

\* validate_config.
Valid(c) ==
  /\ \A t \in Registered(c) : GoodName(c.tags[t].name)
  /\ NamesDiffer(c) /\ RefsResolve(c)
  /\ \A p \in Stored(c) : c.profiles[p].sound

\* Profile p of c without the tags in gone.
Stripped(c, p, gone) ==
  IF c.profiles[p] = None THEN None ELSE [c.profiles[p] EXCEPT !.tags = @ \ gone]
WithoutTags(c, gone) == [c EXCEPT !.profiles = [p \in Profiles |-> Stripped(c, p, gone)]]

\* prune_dangling_tag_refs.
Prune(c) == WithoutTags(c, Tags \ Registered(c))

-----------------------------------------------------------------------------
(* Reading and writing the file.                                           *)

Fault(kind) ==
  /\ kind \in Faults /\ Cardinality(faults) < MaxFaults
  /\ faults' = faults \cup {kind}

\* read_versioned: what it finds in a readable file.
Readable   == file # Damaged
Content(f) == IF f \in {Missing, Damaged} THEN Default ELSE f

\* Mutant: whatever the file holds is overwritten.
CanStoreAnyway(c) == Valid(c)

\* guard_existing and validate_config let c through.
CanStore(c) == Readable /\ Valid(c)

\* The call fails before the file is replaced, be it for c or for the disk, or
\* after it (the directory cannot be synchronised).
StoreFails(c) ==
  \/ UNCHANGED <<file, behind, faults>>
  \/ Fault("late") /\ CanStore(c) /\ file' = c /\ behind' = TRUE

\* save_config and its callers in AppState: the copy follows a success only.
SaveOk(c)  == CanStore(c) /\ file' = c /\ cache' = c /\ behind' = FALSE /\ UNCHANGED faults
SaveErr(c) == StoreFails(c) /\ UNCHANGED cache

\* Mutant: the copy is taken for current.
ReloadLater == UNCHANGED <<cache, behind, faults>>

\* AppState::reload_config, after the file was replaced.
Reload ==
  \/ cache' = Prune(Content(file')) /\ behind' = FALSE /\ UNCHANGED faults
  \/ Fault("reload") /\ UNCHANGED cache /\ behind' = TRUE

\* update_config for one profile, by the transactions of credentials.rs.
WithProfile(p, data) == [Content(file) EXCEPT !.profiles[p] = data]
UpdateOk(p, data)  == LET c == WithProfile(p, data) IN CanStore(c) /\ file' = c /\ Reload
UpdateErr(p, data) == StoreFails(WithProfile(p, data)) /\ UNCHANGED cache

-----------------------------------------------------------------------------
(* The state of the window.                                                *)

NoFilter == [tags |-> {}, untagged |-> FALSE]

ConfigInit ==
  /\ file \in Files /\ cache = None /\ filter = NoFilter /\ behind = FALSE /\ faults = {}

\* AppState::load, when a window opens and when the user retries. A file that
\* is not accepted leaves the window on the recovery screen.
Load ==
  /\ cache = None /\ Readable /\ Valid(Prune(Content(file)))
  /\ cache' = Prune(Content(file))
  /\ UNCHANGED <<file, filter, behind, faults>>

\* Someone else damages, removes, repairs or edits the file.
EditOutside ==
  /\ Fault("outside")
  /\ file' \in Files \ {file} /\ behind' = (cache # None)
  /\ UNCHANGED <<cache, filter>>

\* The sidebar's filter: some tags, or the profiles without one.
ToggleTagFilter(t) ==
  /\ cache # None /\ t \in Registered(cache)
  /\ filter' = IF t \in filter.tags THEN [filter EXCEPT !.tags = @ \ {t}]
               ELSE [tags |-> filter.tags \cup {t}, untagged |-> FALSE]
ToggleUntaggedFilter ==
  /\ cache # None
  /\ filter' = IF filter.untagged THEN [filter EXCEPT !.untagged = FALSE]
               ELSE [tags |-> {}, untagged |-> TRUE]
ClearTagFilter == cache # None /\ filter' = NoFilter
=============================================================================
