------------------------ MODULE ProfileCredentials ------------------------
(***************************************************************************)
(* Saving and deleting connection profiles: oxide-ssh-desktop's            *)
(* ProfileCredentialCoordinator (credentials.rs), which keeps two stores   *)
(* together without a common transaction: the configuration file (AppStore)*)
(* and the keyring of the operating system.                                *)
(*                                                                         *)
(* A transaction runs on the interface thread and is not interleaved with  *)
(* other commands. Each of its steps makes one call to a store; the call   *)
(* may fail, and the process may stop before the next one. Faults says     *)
(* which of these an instance allows:                                      *)
(*   "get" "put" "delete"  a keyring call fails and changes nothing        *)
(*   "write"               the file cannot be read, checked or written     *)
(*   "late"                the file is replaced and the call fails after it*)
(*   "reload"              the configuration cannot be read back           *)
(*   "lost"                another program removes a keyring entry         *)
(*   "crash"               the process stops                               *)
(***************************************************************************)
CONSTANTS Profiles, Secrets, Faults, None

FaultKinds == {"get", "put", "delete", "write", "late", "reload", "lost", "crash"}

\* A CredentialRef names the profile and the kind of its secret.
Methods == {"password", "key", "agent"}
Refs    == Profiles \X {"password", "key"}
Auths   == [method : Methods, ref : Refs \cup {None}]

\* An entry of the keyring with the value it had; None for no value.
Entries == Refs \X (Secrets \cup {None})

ASSUME ConstantsAssumption ==
  /\ Faults \subseteq FaultKinds
  /\ None \notin Profiles \cup Secrets \cup Refs \cup Auths \cup Entries

VARIABLES
  config,   \* the profiles in config.json: how each one authenticates
  keyring,  \* the keyring
  cache,    \* AppState.config, the interface's copy of config
  oneTime,  \* AppView.connect_secrets: secrets kept in memory for one connection
  editor,   \* the profile whose editor is open
  used,     \* the profile ids given out so far
  pc,       \* the step the running transaction is at
  job,      \* the transaction that runs, or the last one
  written,  \* the credential it wrote, with the value it had before
  deleted,  \* the credential it deleted, with the value it had
  broken,   \* has a call of its rollback failed?
  result,   \* how the last transaction ended, until something else happens
  before,   \* history: the two stores when the transaction began
  damaged   \* history: has a transaction ended with a failed rollback?

stores == <<config, keyring>>
locals == <<job, written, deleted, broken, before>>
ui     == <<cache, oneTime, editor, used>>
vars   == <<stores, ui, locals, pc, result, damaged>>

Init ==
  /\ config = [p \in Profiles |-> None]
  /\ keyring = [r \in Refs |-> None]
  /\ cache = config /\ oneTime = [p \in Profiles |-> None]
  /\ editor = None /\ used = {}
  /\ pc = "idle" /\ job = None /\ written = None /\ deleted = None /\ broken = FALSE
  /\ result = "none" /\ before = stores /\ damaged = FALSE

\* The reference a profile's authentication holds.
CredentialReference(auth) == IF auth = None THEN None ELSE auth.ref

\* Mutant: every secret is remembered.
RememberAlways(j) == IF j.method = "agent" THEN None ELSE <<j.profile, j.method>>

\* The reference the saved profile is to have, and the one it had.
Desired(j) == IF j.remember THEN <<j.profile, j.method>> ELSE None
Old(j)     == CredentialReference(j.previous)

\* Mutant: the old entry goes even when the new one has its name.
RemoveAlways(j) == Old(j)

\* The entry a save removes.
ToRemove(j) == IF Old(j) # Desired(j) THEN Old(j) ELSE None

\* The authentication that is stored.
SavedAuth(j) == [method |-> j.method, ref |-> Desired(j)]

-----------------------------------------------------------------------------
(* Commands of the user. The editor and the confirmation are modal.        *)

Idle == pc = "idle"

\* Add connection: a new profile id; no dialog is open.
NewProfile(p) ==
  /\ Idle /\ editor = None /\ p \notin used
  /\ editor' = p /\ used' = used \cup {p} /\ result' = "none"
  /\ UNCHANGED <<stores, cache, oneTime, locals, pc, damaged>>

\* Edit a profile: its one-time secret is forgotten.
EditProfile(p) ==
  /\ Idle /\ editor = None /\ cache[p] # None
  /\ editor' = p /\ oneTime' = [oneTime EXCEPT ![p] = None] /\ result' = "none"
  /\ UNCHANGED <<stores, cache, used, locals, pc, damaged>>

CancelEditor ==
  /\ Idle /\ editor # None
  /\ editor' = None /\ result' = "none"
  /\ UNCHANGED <<stores, cache, oneTime, used, locals, pc, damaged>>

\* A connection takes the one-time secret with it.
Connect(p) ==
  /\ Idle /\ editor = None /\ oneTime[p] # None
  /\ oneTime' = [oneTime EXCEPT ![p] = None] /\ result' = "none"
  /\ UNCHANGED <<stores, cache, editor, used, locals, pc, damaged>>

\* A transaction on profile p begins, with the profile as the interface knows it.
Begin(op, p, m, s, remember) ==
  /\ job' = [op |-> op, profile |-> p, previous |-> cache[p],
             method |-> m, secret |-> s, remember |-> remember]
  /\ pc' = IF op = "save" THEN "writing" ELSE "deleting"
  /\ before' = stores
  /\ written' = None /\ deleted' = None /\ broken' = FALSE
  /\ result' = "none"
  /\ UNCHANGED <<stores, cache, editor, used, damaged>>

\* Save in the editor. Agent authentication has no secret to remember.
Save(m, s, remember) ==
  /\ Idle /\ editor # None
  /\ m = "agent" => s = None /\ ~remember
  /\ Begin("save", editor, m, s, remember)
  /\ UNCHANGED oneTime

\* Delete, confirmed by the user.
Delete(p) ==
  /\ Idle /\ editor = None /\ cache[p] # None
  /\ Begin("delete", p, "agent", None, FALSE)
  /\ oneTime' = [oneTime EXCEPT ![p] = None]

-----------------------------------------------------------------------------
(* The steps of a transaction.                                             *)

Fails(kind) == kind \in Faults

\* The transaction returns; nothing of it is left to do.
End(r) ==
  /\ pc' = "idle" /\ result' = r
  /\ damaged' = (damaged \/ r = "RollbackFailed")

\* Mutant: a reference is kept without a look at the keyring.
KeepsAnyReference(j) == TRUE

\* Without a new secret the profile may only keep the entry it has.
KeepsItsEntry(j) == Desired(j) # None /\ Old(j) = Desired(j) /\ keyring[Desired(j)] # None

\* save_profile, the new secret: it is written, or there is none to write, or
\* the one remembered is kept, or the save ends with an error.
WriteSecret ==
  LET r == Desired(job) IN
  /\ pc = "writing"
  /\ \/ /\ r # None /\ job.secret # None
        /\ written' = <<r, keyring[r]>>
        /\ keyring' = [keyring EXCEPT ![r] = job.secret]
        /\ pc' = "removing" /\ UNCHANGED <<result, damaged>>
     \/ /\ r = None \/ (job.secret = None /\ KeepsItsEntry(job))
        /\ pc' = "removing" /\ UNCHANGED <<keyring, written, result, damaged>>
     \/ /\ r # None
        /\ \/ job.secret = None /\ ~KeepsItsEntry(job)
           \/ Fails("get") /\ (job.secret # None \/ Old(job) = r)
           \/ Fails("put") /\ job.secret # None
        /\ End("failed") /\ UNCHANGED <<keyring, written>>
  /\ UNCHANGED <<config, ui, job, deleted, broken, before>>

\* The entry r is deleted and its value kept for the rollback.
DeleteEntry(r) ==
  /\ deleted' = <<r, keyring[r]>>
  /\ keyring' = [keyring EXCEPT ![r] = None]

\* save_profile, the old entry. Failing to read it ends the save at once.
RemoveOld ==
  LET r == ToRemove(job) IN
  /\ pc = "removing"
  /\ \/ r = None /\ pc' = "storing" /\ UNCHANGED <<keyring, deleted, result, damaged>>
     \/ r # None /\ DeleteEntry(r) /\ pc' = "storing" /\ UNCHANGED <<result, damaged>>
     \/ r # None /\ Fails("get") /\ End("failed") /\ UNCHANGED <<keyring, deleted>>
     \/ r # None /\ Fails("delete") /\ pc' = "unwriting" /\ UNCHANGED <<keyring, deleted, result, damaged>>
  /\ UNCHANGED <<config, ui, job, written, broken, before>>

\* delete_profile, the entry of the profile.
DeleteSecret ==
  LET r == Old(job) IN
  /\ pc = "deleting"
  /\ \/ r = None /\ pc' = "storing" /\ UNCHANGED <<keyring, deleted, result, damaged>>
     \/ r # None /\ DeleteEntry(r) /\ pc' = "storing" /\ UNCHANGED <<result, damaged>>
     \/ /\ r # None /\ (Fails("get") \/ Fails("delete"))
        /\ End("failed") /\ UNCHANGED <<keyring, deleted>>
  /\ UNCHANGED <<config, ui, job, written, broken, before>>

\* What the transaction makes of the configuration.
NewConfig ==
  [config EXCEPT ![job.profile] = IF job.op = "save" THEN SavedAuth(job) ELSE None]

\* A profile that is not there any more cannot be deleted.
Found == job.op = "save" \/ config[job.profile] # None

\* The configuration is stored: the transaction has succeeded, and the
\* interface reads it back, takes the one-time secret and closes the editor.
StoreConfig ==
  /\ pc = "storing" /\ Found
  /\ config' = NewConfig
  /\ End("ok")
  /\ oneTime' = IF job.op = "save" /\ ~job.remember /\ job.secret # None
                THEN [oneTime EXCEPT ![job.profile] = job.secret] ELSE oneTime
  /\ \/ cache' = config' /\ editor' = None
     \/ Fails("reload") /\ UNCHANGED <<cache, editor>>
  /\ UNCHANGED <<keyring, used, job, written, deleted, broken, before>>

\* The configuration cannot be stored, or only seems not to be.
FailToStore ==
  /\ pc = "storing"
  /\ \/ Fails("write") /\ UNCHANGED config
     \/ Fails("late") /\ config' = NewConfig
     \/ ~Found /\ UNCHANGED config
  /\ pc' = "restoring"
  /\ UNCHANGED <<keyring, ui, locals, result, damaged>>

\* Did the entry that was deleted have a value?
HadValue(backup) == IF backup = None THEN FALSE ELSE backup[2] # None

\* restore_deleted.
RestoreDeleted ==
  /\ pc = "restoring" /\ pc' = "unwriting"
  /\ \/ ~HadValue(deleted) /\ UNCHANGED <<keyring, broken>>
     \/ /\ HadValue(deleted)
        /\ keyring' = [keyring EXCEPT ![deleted[1]] = deleted[2]]
        /\ UNCHANGED broken
     \/ HadValue(deleted) /\ Fails("put") /\ broken' = TRUE /\ UNCHANGED keyring
  /\ UNCHANGED <<config, ui, job, written, deleted, before, result, damaged>>

\* Mutant: the entry is deleted although it had a value before.
ForgetPrevious(pair) == None

\* The value an entry gets back: none stands for its deletion.
PreviousValue(pair) == pair[2]

\* rollback_written.
RollbackWritten ==
  LET value == PreviousValue(written) IN
  /\ pc = "unwriting"
  /\ \/ written = None /\ End(IF broken THEN "RollbackFailed" ELSE "failed") /\ UNCHANGED keyring
     \/ /\ written # None
        /\ keyring' = [keyring EXCEPT ![written[1]] = value]
        /\ End(IF broken THEN "RollbackFailed" ELSE "failed")
     \/ /\ written # None
        /\ Fails(IF value = None THEN "delete" ELSE "put")
        /\ End("RollbackFailed") /\ UNCHANGED keyring
  /\ UNCHANGED <<config, ui, locals>>

-----------------------------------------------------------------------------
(* What may happen to the process and around it.                           *)

\* The process stops and is started again: only the two stores are left.
Crash ==
  /\ Fails("crash") /\ pc # "idle"
  /\ pc' = "idle" /\ result' = "crashed"
  /\ cache' = config /\ oneTime' = [p \in Profiles |-> None] /\ editor' = None
  /\ UNCHANGED <<stores, used, locals, damaged>>

\* The user removes an entry with the keyring's own tools.
LoseEntry(r) ==
  /\ Fails("lost") /\ Idle /\ keyring[r] # None
  /\ keyring' = [keyring EXCEPT ![r] = None] /\ result' = "none"
  /\ UNCHANGED <<config, ui, locals, pc, damaged>>

Next ==
  \/ \E p \in Profiles : NewProfile(p) \/ EditProfile(p) \/ Connect(p) \/ Delete(p)
  \/ CancelEditor
  \/ \E m \in Methods, s \in Secrets \cup {None}, remember \in BOOLEAN : Save(m, s, remember)
  \/ WriteSecret \/ RemoveOld \/ DeleteSecret \/ StoreConfig \/ FailToStore
  \/ RestoreDeleted \/ RollbackWritten
  \/ Crash
  \/ \E r \in Refs : LoseEntry(r)

Spec == Init /\ [][Next]_vars

-----------------------------------------------------------------------------
(* Properties.                                                             *)

\* A reference is always the profile's own and of its method's kind.
AuthsOf(p) == {a \in Auths : a.ref \in {None, <<p, a.method>>}}

Jobs ==
  {j \in [op : {"save", "delete"}, profile : Profiles, previous : Auths \cup {None},
          method : Methods, secret : Secrets \cup {None}, remember : BOOLEAN] :
     /\ j.previous # None => j.previous \in AuthsOf(j.profile)
     /\ j.method = "agent" => ~j.remember}

(* Types; a profile never points to another profile's credential, nor to   *)
(* one of the wrong kind, in the file, in the cache and in a transaction.  *)
TypeOK ==
  /\ config \in [Profiles -> Auths \cup {None}] /\ cache \in [Profiles -> Auths \cup {None}]
  /\ \A p \in Profiles : {config[p], cache[p]} \subseteq AuthsOf(p) \cup {None}
  /\ keyring \in [Refs -> Secrets \cup {None}]
  /\ oneTime \in [Profiles -> Secrets \cup {None}]
  /\ editor \in Profiles \cup {None} /\ used \subseteq Profiles
  /\ pc \in {"idle", "writing", "removing", "deleting", "storing", "restoring", "unwriting"}
  /\ job \in Jobs \cup {None}
  /\ written \in Entries \cup {None} /\ deleted \in Entries \cup {None}
  /\ broken \in BOOLEAN /\ damaged \in BOOLEAN
  /\ result \in {"none", "ok", "failed", "RollbackFailed", "crashed"}
  /\ before \in [Profiles -> Auths \cup {None}] \X [Refs -> Secrets \cup {None}]

(* A transaction that fails leaves both halves as they were, unless it     *)
(* says that its rollback failed.                                          *)
FailureLeavesBothIntact == result = "failed" => stores = before

\* A transaction that succeeds has done all of it: the profile is stored with
\* its reference, behind the reference is the secret just given or the one it
\* had, a secret not to be remembered is at hand for the next connection and
\* nowhere else, and no other entry of the profile is left.
SuccessIsComplete ==
  result = "ok" /\ ~damaged =>
    LET p == job.profile IN
    /\ \A q \in Profiles \ {p} :
         /\ config[q] = before[1][q]
         /\ \A r \in Refs : r[1] = q => keyring[r] = before[2][r]
    /\ job.op = "delete" => config[p] = None /\ oneTime[p] = None
    /\ job.op = "save" =>
         /\ config[p] = SavedAuth(job)
         /\ oneTime[p] = IF job.remember THEN None ELSE job.secret
    /\ \A r \in Refs : r[1] = p =>
         keyring[r] = IF job.op = "delete" \/ r # Desired(job) THEN None
                      ELSE IF job.secret # None THEN job.secret ELSE before[2][r]

\* Between transactions every reference has its secret and every secret its
\* reference: nothing dangles and nothing is left behind.
Matching(c, k) == \A r \in Refs : k[r] # None <=> CredentialReference(c[r[1]]) = r
NothingDangles == Idle /\ ~damaged => Matching(config, keyring)

(* The stores agree: after a success they hold what was asked for, and at  *)
(* rest one refers to exactly what the other has.                          *)
StoresAgree == SuccessIsComplete /\ NothingDangles

(* The configuration never comes to hold a new reference before its secret *)
(* is in the keyring, wherever the process stops and whatever fails.       *)
BacksReferences ==
  \A p \in Profiles :
    LET r == CredentialReference(config'[p]) IN
    r \notin {None, CredentialReference(config[p])} => keyring'[r] # None
NewReferencesAreBacked == [][BacksReferences]_vars

(* The keyring takes a secret only when the user asked to remember it, and *)
(* otherwise gets back what it held when the transaction began.            *)
KeyringTakesRememberedSecrets ==
  [][\A r \in Refs :
       keyring'[r] \notin {None, keyring[r]} =>
         \/ keyring'[r] = before[2][r]
         \/ job.op = "save" /\ job.remember /\ keyring'[r] = job.secret]_vars

-----------------------------------------------------------------------------
(* The inductive invariant.                                                *)

\* The keyring as the rollback would leave it.
KeyringWithoutWrite(k) == IF written = None THEN k ELSE [k EXCEPT ![written[1]] = written[2]]
RolledBack ==
  KeyringWithoutWrite(IF deleted = None THEN keyring
                      ELSE [keyring EXCEPT ![deleted[1]] = deleted[2]])

\* A running transaction has no result.
RunningHasNoResult ==
  /\ pc # "idle" => job \in Jobs /\ result = "none"
  /\ pc \in {"writing", "removing"} => job.op = "save" /\ deleted = None
  /\ pc = "deleting" => job.op = "delete"
  /\ pc \in {"writing", "deleting"} => written = None /\ deleted = None
  /\ pc \in {"writing", "deleting", "removing", "storing", "restoring"} => ~broken

\* A save that is past its first step has its new reference backed.
ReferenceIsBacked ==
  pc \in {"removing", "storing"} /\ job.op = "save" /\ Desired(job) # None
    => keyring[Desired(job)] # None

\* At every step the rollback would lead back to where the transaction began.
RollbackRestores ==
  /\ pc \in {"writing", "deleting", "removing", "storing", "restoring"}
       => config = before[1] /\ RolledBack = before[2]
  /\ pc \in {"storing", "restoring"} /\ deleted # None => keyring[deleted[1]] = None
  /\ pc = "unwriting" /\ ~broken
       => config = before[1] /\ KeyringWithoutWrite(keyring) = before[2]

\* What the keyring holds at each step on the way to the configuration.
WithSecret(j, k) == IF Desired(j) # None /\ j.secret # None THEN [k EXCEPT ![Desired(j)] = j.secret] ELSE k
Without(k, r)    == IF r = None THEN k ELSE [k EXCEPT ![r] = None]
KeyringByStep ==
  /\ pc \in {"writing", "deleting"} => keyring = before[2]
  /\ pc = "removing" => keyring = WithSecret(job, before[2])
  /\ pc = "storing" =>
       keyring = IF job.op = "save" THEN Without(WithSecret(job, before[2]), ToRemove(job))
                 ELSE Without(before[2], Old(job))

\* The rollback has the values of the time before the transaction.
BackupsAreOriginal ==
  /\ written # None => written[2] = before[2][written[1]]
  /\ deleted # None => deleted[2] = before[2][deleted[1]]

\* As long as no call changes a store behind the transaction's back: the copy is
\* the file, and what a transaction starts from matches.
StartsFromMatching ==
  /\ cache = config
  /\ pc # "idle" =>
       /\ config = before[1] /\ job.previous = config[job.profile]
       /\ ~damaged => Matching(before[1], before[2])
  /\ pc \in {"removing", "storing"} /\ job.op = "save" /\ Desired(job) # None /\ job.secret = None
       => Old(job) = Desired(job)

\* A profile has no secret for one connection while it is edited, saved or
\* deleted, nor before it exists.
OneTimeAtRest ==
  /\ \A p \in Profiles \ used : config[p] = None /\ oneTime[p] = None
  /\ editor # None => editor \in used /\ oneTime[editor] = None
  /\ pc # "idle" =>
       /\ job.profile \in used /\ oneTime[job.profile] = None
       /\ editor = IF job.op = "save" THEN job.profile ELSE None

(* What the theorems about transactions rest on.                           *)
IInv == TypeOK /\ RunningHasNoResult /\ ReferenceIsBacked /\ KeyringByStep /\ BackupsAreOriginal
RInv == IInv /\ RollbackRestores /\ FailureLeavesBothIntact
AInv == RInv /\ StartsFromMatching /\ OneTimeAtRest /\ StoresAgree
=============================================================================
