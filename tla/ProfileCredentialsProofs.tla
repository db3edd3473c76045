--------------------- MODULE ProfileCredentialsProofs ---------------------
(***************************************************************************)
(* Proofs about ProfileCredentials for every set of profiles, secrets and  *)
(* faults: a new reference always has its secret, and the keyring takes no *)
(* secret it was not to remember; a failed save or delete leaves both      *)
(* stores as they were unless a keyring entry could not be read or the     *)
(* configuration was replaced by a call that failed; and the two stores    *)
(* agree at rest as long as the calls that fail change nothing.            *)
(***************************************************************************)
EXTENDS ProfileCredentials, TLAPS

USE ConstantsAssumption

\* The stored authentication of a save is one its profile may have.
LEMMA SavedAuthType ==
  ASSUME NEW j \in Jobs
  PROVE  SavedAuth(j) \in AuthsOf(j.profile)
BY DEF SavedAuth, Desired, AuthsOf, Auths, Refs, Methods, Jobs

\* The references of a transaction are the profile's own.
LEMMA JobRefs ==
  ASSUME NEW j \in Jobs
  PROVE  /\ Desired(j) \in Refs \cup {None} /\ Old(j) \in Refs \cup {None}
         /\ ToRemove(j) \in Refs \cup {None}
         /\ Desired(j) # None => Desired(j)[1] = j.profile /\ j.remember
         /\ Old(j) # None => Old(j)[1] = j.profile
<1>1. Desired(j) \in Refs \cup {None} /\ (Desired(j) # None => Desired(j)[1] = j.profile /\ j.remember)
  BY DEF Desired, Jobs, Refs, Methods
<1>2. CASE j.previous = None
  BY <1>1, <1>2 DEF Old, CredentialReference, ToRemove
<1>3. CASE j.previous # None
  <2>1. j.previous \in AuthsOf(j.profile)
    BY <1>3 DEF Jobs
  <2>2. Old(j) = j.previous.ref
    BY <1>3 DEF Old, CredentialReference
  <2>3. Old(j) \in Refs \cup {None} /\ (Old(j) # None => Old(j)[1] = j.profile)
    BY <2>1, <2>2 DEF AuthsOf, Auths
  <2> QED BY <1>1, <2>3 DEF ToRemove
<1> QED BY <1>2, <1>3

\* One step keeps the types, with what a running transaction knows of itself.
LEMMA TypeStep == IInv /\ [Next]_vars => TypeOK' /\ RunningHasNoResult'
<1> SUFFICES ASSUME IInv, [Next]_vars PROVE TypeOK' /\ RunningHasNoResult'
  OBVIOUS
<1> USE DEF IInv, TypeOK, RunningHasNoResult, stores, locals, ui, Idle, End
<1>1. ASSUME NEW p \in Profiles, NewProfile(p) PROVE TypeOK' /\ RunningHasNoResult'
  BY <1>1 DEF NewProfile
<1>2. ASSUME NEW p \in Profiles, EditProfile(p) PROVE TypeOK' /\ RunningHasNoResult'
  BY <1>2 DEF EditProfile
<1>3. ASSUME NEW p \in Profiles, Connect(p) PROVE TypeOK' /\ RunningHasNoResult'
  BY <1>3 DEF Connect
<1>4. ASSUME NEW p \in Profiles, Delete(p) PROVE TypeOK' /\ RunningHasNoResult'
  BY <1>4 DEF Delete, Begin, Jobs, Methods, Entries
<1>5. CASE CancelEditor
  BY <1>5 DEF CancelEditor
<1>6. ASSUME NEW m \in Methods, NEW s \in Secrets \cup {None}, NEW remember \in BOOLEAN,
             Save(m, s, remember)
      PROVE  TypeOK' /\ RunningHasNoResult'
  <2>1. job' \in Jobs /\ job'.op = "save"
    BY <1>6 DEF Save, Begin, Jobs
  <2>2. /\ before' = stores /\ written' = None /\ deleted' = None /\ broken' = FALSE
        /\ pc' = "writing" /\ result' = "none"
        /\ UNCHANGED <<stores, cache, oneTime, editor, used, damaged>>
    BY <1>6 DEF Save, Begin
  <2> HIDE DEF stores
  <2>3. before' \in [Profiles -> Auths \cup {None}] \X [Refs -> Secrets \cup {None}]
    BY <2>2 DEF stores
  <2>4. UNCHANGED <<config, keyring>>
    BY <2>2 DEF stores
  <2> HIDE DEF TypeOK, RunningHasNoResult
  <2>5. TypeOK'
    BY <2>1, <2>2, <2>3, <2>4 DEF TypeOK
  <2>6. RunningHasNoResult'
    BY <2>1, <2>2 DEF RunningHasNoResult
  <2> QED BY <2>5, <2>6
<1>7. CASE WriteSecret
  <2>1. job \in Jobs /\ job.secret \in Secrets \cup {None} /\ job.op = "save"
    BY <1>7 DEF WriteSecret, Jobs
  <2>2. CASE UNCHANGED <<keyring, written>>
    BY <1>7, <2>2 DEF WriteSecret
  <2>3. CASE /\ Desired(job) # None /\ written' = <<Desired(job), keyring[Desired(job)]>>
             /\ keyring' = [keyring EXCEPT ![Desired(job)] = job.secret]
             /\ pc' = "removing" /\ UNCHANGED <<result, damaged>>
    <3>1. written' \in Entries
      BY <2>1, <2>3, JobRefs DEF Entries
    <3>2. keyring' \in [Refs -> Secrets \cup {None}]
      BY <2>1, <2>3
    <3> QED BY <1>7, <2>1, <2>3, <3>1, <3>2 DEF WriteSecret
  <2> QED BY <1>7, <2>2, <2>3 DEF WriteSecret
<1>8. CASE RemoveOld
  BY <1>8 DEF RemoveOld, DeleteEntry, ToRemove, Old, CredentialReference, Jobs, Auths, Entries
<1>9. CASE DeleteSecret
  BY <1>9 DEF DeleteSecret, DeleteEntry, Old, CredentialReference, Jobs, Auths, Entries
<1>10. CASE StoreConfig
  BY <1>10, SavedAuthType DEF StoreConfig, NewConfig, Jobs, AuthsOf
<1>11. CASE FailToStore
  BY <1>11, SavedAuthType DEF FailToStore, NewConfig, Jobs, AuthsOf
<1>12. CASE RestoreDeleted
  BY <1>12 DEF RestoreDeleted, HadValue, Entries
<1>13. CASE RollbackWritten
  BY <1>13 DEF RollbackWritten, PreviousValue, Entries
<1>14. CASE Crash
  BY <1>14 DEF Crash
<1>15. ASSUME NEW r \in Refs, LoseEntry(r) PROVE TypeOK' /\ RunningHasNoResult'
  BY <1>15 DEF LoseEntry
<1>16. CASE UNCHANGED vars
  BY <1>16 DEF vars
<1>17. QED
  BY <1>1, <1>2, <1>3, <1>4, <1>5, <1>6, <1>7, <1>8, <1>9, <1>10, <1>11, <1>12, <1>13,
     <1>14, <1>15, <1>16 DEF Next

\* The old entry that a save removes is not the one it is to refer to.
LEMMA RemovesAnotherEntry ==
  ASSUME NEW j, ToRemove(j) # None
  PROVE  ToRemove(j) # Desired(j)
BY DEF ToRemove

\* One step of a transaction leaves the reference of a save backed.
LEMMA BackedStep == IInv /\ [Next]_vars => ReferenceIsBacked'
<1> SUFFICES ASSUME IInv, [Next]_vars PROVE ReferenceIsBacked'
  OBVIOUS
<1> USE DEF IInv, stores, locals, ui, Idle, End
<1>1. CASE WriteSecret
  <2>1. job \in Jobs /\ (Desired(job) # None => Desired(job) \in Refs)
    BY <1>1 DEF WriteSecret, RunningHasNoResult, Desired, Jobs, Refs, Methods
  <2>2. QED
    BY <1>1, <2>1 DEF WriteSecret, ReferenceIsBacked, KeepsItsEntry, Desired, TypeOK
<1>2. CASE RemoveOld
  <2>1. job \in Jobs /\ job' = job
    BY <1>2 DEF RemoveOld, RunningHasNoResult
  <2>2. CASE UNCHANGED keyring
    BY <1>2, <2>1, <2>2 DEF RemoveOld, ReferenceIsBacked, Desired
  <2>3. CASE ToRemove(job) # None /\ DeleteEntry(ToRemove(job))
    BY <1>2, <2>1, <2>3, RemovesAnotherEntry
    DEF RemoveOld, DeleteEntry, ReferenceIsBacked, Desired, TypeOK
  <2>4. QED
    BY <1>2, <2>2, <2>3 DEF RemoveOld
<1>3. CASE DeleteSecret
  <2>1. job.op # "save" \/ pc' = "idle" \/ Desired(job) = None
    BY <1>3 DEF DeleteSecret, RunningHasNoResult
  <2>2. QED
    BY <1>3, <2>1 DEF DeleteSecret, ReferenceIsBacked, Desired
<1>4. CASE StoreConfig \/ FailToStore \/ RestoreDeleted \/ RollbackWritten \/ Crash
  BY <1>4 DEF StoreConfig, FailToStore, RestoreDeleted, RollbackWritten, Crash, ReferenceIsBacked
<1>5. ASSUME NEW p \in Profiles, NewProfile(p) \/ EditProfile(p) \/ Connect(p) \/ Delete(p)
      PROVE  ReferenceIsBacked'
  BY <1>5 DEF NewProfile, EditProfile, Connect, Delete, Begin, ReferenceIsBacked
<1>6. ASSUME NEW m \in Methods, NEW s \in Secrets \cup {None}, NEW remember \in BOOLEAN,
             Save(m, s, remember)
      PROVE  ReferenceIsBacked'
  BY <1>6 DEF Save, Begin, ReferenceIsBacked
<1>7. CASE CancelEditor \/ \E r \in Refs : LoseEntry(r)
  BY <1>7 DEF CancelEditor, LoseEntry, ReferenceIsBacked
<1>8. CASE UNCHANGED vars
  BY <1>8 DEF vars, ReferenceIsBacked, Desired
<1>9. QED
  BY <1>1, <1>2, <1>3, <1>4, <1>5, <1>6, <1>7, <1>8 DEF Next

\* One step goes on with the keyring as the transaction means to, and keeps its
\* backups.
LEMMA KeyringStep == IInv /\ [Next]_vars => KeyringByStep' /\ BackupsAreOriginal'
<1> SUFFICES ASSUME IInv, [Next]_vars PROVE KeyringByStep' /\ BackupsAreOriginal'
  OBVIOUS
<1> USE DEF IInv, locals, stores, ui, Idle, End
<1>0. before[2] \in [Refs -> Secrets \cup {None}] /\ keyring \in [Refs -> Secrets \cup {None}]
  BY DEF TypeOK
<1>1. CASE WriteSecret
  <2>1. job \in Jobs /\ job' = job /\ before' = before /\ job.op = "save" /\ keyring = before[2]
    BY <1>1 DEF WriteSecret, RunningHasNoResult, KeyringByStep
  <2>2. CASE pc' = "idle" /\ UNCHANGED <<keyring, written>>
    BY <1>1, <2>1, <2>2 DEF WriteSecret, KeyringByStep, BackupsAreOriginal
  <2>3. CASE /\ Desired(job) # None /\ job.secret # None /\ pc' = "removing"
             /\ written' = <<Desired(job), keyring[Desired(job)]>>
             /\ keyring' = [keyring EXCEPT ![Desired(job)] = job.secret]
    <3>1. KeyringByStep'
      BY <2>1, <2>3 DEF KeyringByStep, WithSecret, Desired
    <3>2. BackupsAreOriginal'
      BY <1>1, <2>1, <2>3 DEF WriteSecret, BackupsAreOriginal
    <3> QED BY <3>1, <3>2
  <2>4. CASE /\ Desired(job) = None \/ job.secret = None
             /\ pc' = "removing" /\ UNCHANGED <<keyring, written>>
    BY <1>1, <2>1, <2>4 DEF WriteSecret, KeyringByStep, WithSecret, Desired, BackupsAreOriginal
  <2> QED BY <1>1, <2>2, <2>3, <2>4 DEF WriteSecret
<1>2. CASE RemoveOld
  <2>1. /\ job \in Jobs /\ job' = job /\ before' = before /\ written' = written /\ job.op = "save"
        /\ keyring = WithSecret(job, before[2])
    BY <1>2 DEF RemoveOld, RunningHasNoResult, KeyringByStep
  <2>2. CASE UNCHANGED <<keyring, deleted>> /\ (pc' # "storing" \/ ToRemove(job) = None)
    <3>1. pc' \in {"storing", "idle", "unwriting"}
      BY <1>2 DEF RemoveOld
    <3>2. KeyringByStep'
      BY <2>1, <2>2, <3>1 DEF KeyringByStep, Without, WithSecret, ToRemove, Desired, Old, CredentialReference
    <3> QED BY <2>1, <2>2, <3>2 DEF BackupsAreOriginal
  <2>3. CASE ToRemove(job) # None /\ DeleteEntry(ToRemove(job)) /\ pc' = "storing"
    <3> DEFINE r == ToRemove(job)
    <3>1. r \in Refs /\ r # Desired(job)
      BY <2>1, <2>3, JobRefs, RemovesAnotherEntry
    <3>2. keyring[r] = before[2][r]
      BY <1>0, <2>1, <3>1 DEF WithSecret
    <3>3. BackupsAreOriginal'
      BY <2>1, <2>3, <3>2 DEF BackupsAreOriginal, DeleteEntry
    <3>4. keyring' = Without(WithSecret(job, before[2]), r)
      BY <2>1, <2>3 DEF DeleteEntry, Without
    <3>5. KeyringByStep'
      BY <2>1, <2>3, <3>4 DEF KeyringByStep, Without, WithSecret, ToRemove, Desired, Old, CredentialReference
    <3> QED BY <3>3, <3>5
  <2> QED BY <1>2, <2>2, <2>3 DEF RemoveOld
<1>3. CASE DeleteSecret
  <2>1. /\ job' = job /\ before' = before /\ written' = written /\ job.op = "delete"
        /\ keyring = before[2]
    BY <1>3 DEF DeleteSecret, RunningHasNoResult, KeyringByStep
  <2>2. CASE UNCHANGED <<keyring, deleted>> /\ (pc' = "idle" \/ Old(job) = None)
    <3>1. KeyringByStep'
      BY <1>3, <2>1, <2>2 DEF DeleteSecret, KeyringByStep, Without, Old, CredentialReference
    <3> QED BY <2>1, <2>2, <3>1 DEF BackupsAreOriginal
  <2>3. CASE Old(job) # None /\ DeleteEntry(Old(job)) /\ pc' = "storing"
    <3>1. BackupsAreOriginal'
      BY <2>1, <2>3 DEF BackupsAreOriginal, DeleteEntry
    <3>2. KeyringByStep'
      BY <2>1, <2>3 DEF KeyringByStep, DeleteEntry, Without, Old, CredentialReference
    <3> QED BY <3>1, <3>2
  <2> QED BY <1>3, <2>2, <2>3 DEF DeleteSecret
<1>4. CASE StoreConfig \/ FailToStore \/ RestoreDeleted \/ RollbackWritten \/ Crash
  <2>1. pc' \in {"idle", "restoring", "unwriting"} /\ UNCHANGED <<written, deleted, before>>
    BY <1>4 DEF StoreConfig, FailToStore, RestoreDeleted, RollbackWritten, Crash
  <2> QED BY <2>1 DEF KeyringByStep, BackupsAreOriginal
<1>5. ASSUME NEW op, NEW p, NEW m, NEW s, NEW remember, Begin(op, p, m, s, remember), pc = "idle"
      PROVE  KeyringByStep' /\ BackupsAreOriginal'
  BY <1>5 DEF Begin, KeyringByStep, BackupsAreOriginal
<1>6. CASE \/ \E p \in Profiles : NewProfile(p) \/ EditProfile(p) \/ Connect(p)
           \/ CancelEditor \/ \E r \in Refs : LoseEntry(r)
  <2>1. pc' = "idle" /\ UNCHANGED <<written, deleted, before>>
    BY <1>6 DEF NewProfile, EditProfile, Connect, CancelEditor, LoseEntry
  <2> QED BY <2>1 DEF KeyringByStep, BackupsAreOriginal
<1>7. CASE UNCHANGED vars
  BY <1>7 DEF vars, KeyringByStep, BackupsAreOriginal, Without, WithSecret, ToRemove, Desired, Old,
              CredentialReference
<1> QED BY <1>1, <1>2, <1>3, <1>4, <1>5, <1>6, <1>7 DEF Next, Delete, Save

LEMMA IInvStep == IInv /\ [Next]_vars => IInv'
BY TypeStep, BackedStep, KeyringStep DEF IInv

\* Nothing is stored and nothing runs at first.
LEMMA InitInv == Init => IInv
<1> SUFFICES ASSUME Init PROVE IInv
  OBVIOUS
<1>1. TypeOK
  BY DEF Init, TypeOK, stores
<1>2. QED
  BY <1>1 DEF Init, IInv, RunningHasNoResult, ReferenceIsBacked, KeyringByStep, BackupsAreOriginal

\* The invariant holds of every reachable state, whatever fails.
THEOREM Invariance == Spec => []IInv
  BY InitInv, IInvStep, PTL DEF Spec

\* The file never comes to name a credential that is not in the keyring yet.
THEOREM SecretBeforeReference == Spec => NewReferencesAreBacked
<1>1. IInv /\ [Next]_vars => [BacksReferences]_vars
  <2> SUFFICES ASSUME IInv, Next PROVE BacksReferences
    OBVIOUS
  <2> USE DEF BacksReferences
  <2>1. CASE UNCHANGED config
    BY <2>1
  <2>2. CASE pc = "storing" /\ config' = NewConfig /\ UNCHANGED keyring
    <3>1. job \in Jobs /\ SavedAuth(job) \in Auths
      BY <2>2, SavedAuthType DEF IInv, RunningHasNoResult, AuthsOf
    <3>2. CASE job.op = "save"
      BY <2>2, <3>1, <3>2 DEF IInv, ReferenceIsBacked, NewConfig, SavedAuth,
                              CredentialReference, TypeOK
    <3>3. CASE job.op # "save"
      BY <2>2, <3>1, <3>3 DEF NewConfig, CredentialReference, IInv, TypeOK
    <3>4. QED
      BY <3>2, <3>3
  <2>3. QED
    BY <2>1, <2>2 DEF Next, NewProfile, EditProfile, Connect, Delete, CancelEditor, Save, Begin,
       WriteSecret, RemoveOld, DeleteSecret, StoreConfig, FailToStore, RestoreDeleted,
       RollbackWritten, Crash, LoseEntry, stores
<1>2. QED
  BY <1>1, Invariance, PTL DEF Spec, NewReferencesAreBacked

\* The keyring takes nothing but a secret the user asked to remember, and what
\* it held before, whatever fails and wherever the process stops.
THEOREM OnlyRememberedSecrets == Spec => KeyringTakesRememberedSecrets
<1> DEFINE Allowed(r) == \/ keyring'[r] \in {None, keyring[r]}
                         \/ keyring'[r] = before[2][r]
                         \/ job.op = "save" /\ job.remember /\ keyring'[r] = job.secret
<1>1. ASSUME IInv, Next, NEW r \in Refs PROVE Allowed(r)
  <2> USE <1>1 DEF IInv
  <2>1. CASE UNCHANGED keyring
    BY <2>1
  <2>2. CASE WriteSecret /\ ~UNCHANGED keyring
    <3>1. /\ job \in Jobs /\ job.op = "save" /\ Desired(job) # None
          /\ keyring' = [keyring EXCEPT ![Desired(job)] = job.secret]
      BY <2>2 DEF WriteSecret, RunningHasNoResult
    <3>2. job.remember
      BY <3>1, JobRefs
    <3> QED BY <3>1, <3>2 DEF TypeOK
  <2>3. ASSUME NEW q, keyring' = [keyring EXCEPT ![q] = None] PROVE Allowed(r)
    BY <2>3 DEF TypeOK
  <2>4. CASE RestoreDeleted /\ ~UNCHANGED keyring
    <3>1. deleted # None /\ keyring' = [keyring EXCEPT ![deleted[1]] = deleted[2]]
      BY <2>4 DEF RestoreDeleted, HadValue
    <3> QED BY <3>1 DEF BackupsAreOriginal, TypeOK
  <2>5. CASE RollbackWritten /\ ~UNCHANGED keyring
    <3>1. written # None /\ keyring' = [keyring EXCEPT ![written[1]] = written[2]]
      BY <2>5 DEF RollbackWritten, PreviousValue
    <3> QED BY <3>1 DEF BackupsAreOriginal, TypeOK
  <2> QED BY <2>1, <2>2, <2>3, <2>4, <2>5
    DEF Next, NewProfile, EditProfile, Connect, Delete, CancelEditor, Save, Begin, RemoveOld, DeleteSecret,
        DeleteEntry, StoreConfig, FailToStore, Crash, LoseEntry, stores
<1>2. IInv /\ [Next]_vars =>
        [\A r \in Refs :
           keyring'[r] \notin {None, keyring[r]} =>
             \/ keyring'[r] = before[2][r]
             \/ job.op = "save" /\ job.remember /\ keyring'[r] = job.secret]_vars
  BY <1>1
<1> QED BY <1>2, Invariance, PTL DEF Spec, KeyringTakesRememberedSecrets

-----------------------------------------------------------------------------
(* Rollback. These are the faults a failed transaction cannot be undone    *)
(* after: the others may happen in any number.                             *)
Undoable == Faults \cap {"get", "late"} = {}

\* One step keeps the way back open, until the transaction has ended.
LEMMA RInvStep == ASSUME Undoable PROVE RInv /\ [Next]_vars => RInv'
<1> SUFFICES ASSUME RInv, [Next]_vars PROVE RollbackRestores' /\ FailureLeavesBothIntact'
  BY IInvStep DEF RInv
<1> DEFINE Goal == RollbackRestores /\ FailureLeavesBothIntact
<1> USE DEF RInv, IInv, TypeOK, stores, locals, ui, Idle, End, Entries, FailureLeavesBothIntact,
            RunningHasNoResult
<1>1. CASE WriteSecret
  <2>1. CASE pc' = "idle" \/ UNCHANGED <<keyring, written>>
    BY <1>1, <2>1, ConstantsAssumption
    DEF WriteSecret, RollbackRestores, RolledBack, KeyringWithoutWrite, Undoable
  <2>2. CASE /\ Desired(job) # None /\ pc' = "removing"
             /\ written' = <<Desired(job), keyring[Desired(job)]>>
             /\ keyring' = [keyring EXCEPT ![Desired(job)] = job.secret]
    <3>1. Desired(job) \in Refs /\ keyring = before[2] /\ config = before[1]
      BY <1>1, <2>2 DEF WriteSecret, RollbackRestores, RolledBack, KeyringWithoutWrite,
                        Desired, Jobs, Methods, Refs
    <3>2. written' \in Entries
      BY <2>2, <3>1
    <3>3. [keyring' EXCEPT ![written'[1]] = written'[2]] = keyring
      BY <2>2, <3>1
    <3>4. RolledBack' = keyring
      BY <1>1, <3>2, <3>3, ConstantsAssumption DEF WriteSecret, RolledBack, KeyringWithoutWrite
    <3>5. QED
      BY <1>1, <2>2, <3>1, <3>4 DEF WriteSecret, RollbackRestores
  <2>3. QED
    BY <1>1, <2>1, <2>2 DEF WriteSecret
<1>2. ASSUME NEW r \in Refs, DeleteEntry(r), pc' = "storing", pc \in {"removing", "deleting"},
             UNCHANGED <<config, written, before, result>>
      PROVE  Goal'
  <2>1. deleted = None /\ keyring \in [Refs -> Secrets \cup {None}]
    BY <1>2
  <2>2. deleted' \in Entries /\ deleted'[1] = r /\ keyring'[r] = None
    BY <1>2, <2>1 DEF DeleteEntry
  <2>3. [keyring' EXCEPT ![deleted'[1]] = deleted'[2]] = keyring
    BY <1>2, <2>1 DEF DeleteEntry
  <2>4. RolledBack' = RolledBack
    BY <1>2, <2>1, <2>2, <2>3, ConstantsAssumption DEF RolledBack, KeyringWithoutWrite
  <2>5. QED
    BY <1>2, <2>2, <2>4 DEF RollbackRestores
<1>3. CASE RemoveOld
  <2>1. ToRemove(job) # None => ToRemove(job) \in Refs
    BY <1>3 DEF RemoveOld, ToRemove, Old, CredentialReference, Jobs, Auths
  <2>2. CASE ToRemove(job) # None /\ DeleteEntry(ToRemove(job)) /\ pc' = "storing"
    BY <1>2, <1>3, <2>1, <2>2 DEF RemoveOld
  <2>3. CASE UNCHANGED <<keyring, deleted>>
    BY <1>3, <2>3 DEF RemoveOld, RollbackRestores, RolledBack, KeyringWithoutWrite, Undoable, Fails
  <2>4. QED
    BY <1>3, <2>2, <2>3 DEF RemoveOld
<1>4. CASE DeleteSecret
  <2>1. Old(job) # None => Old(job) \in Refs
    BY <1>4 DEF DeleteSecret, Old, CredentialReference, Jobs, Auths
  <2>2. CASE Old(job) # None /\ DeleteEntry(Old(job)) /\ pc' = "storing"
    BY <1>2, <1>4, <2>1, <2>2 DEF DeleteSecret
  <2>3. CASE UNCHANGED <<keyring, deleted>>
    BY <1>4, <2>3 DEF DeleteSecret, RollbackRestores, RolledBack, KeyringWithoutWrite
  <2>4. QED
    BY <1>4, <2>2, <2>3 DEF DeleteSecret
<1>5. CASE StoreConfig
  BY <1>5 DEF StoreConfig, RollbackRestores
<1>6. CASE FailToStore
  BY <1>6 DEF FailToStore, RollbackRestores, RolledBack, KeyringWithoutWrite, Undoable, Fails
<1>7. CASE RestoreDeleted
  <2>1. CASE HadValue(deleted) /\ keyring' = [keyring EXCEPT ![deleted[1]] = deleted[2]]
    BY <1>7, <2>1 DEF RestoreDeleted, HadValue, RollbackRestores, RolledBack, KeyringWithoutWrite
  <2>2. CASE ~HadValue(deleted) /\ UNCHANGED keyring
    <3>1. (IF deleted = None THEN keyring ELSE [keyring EXCEPT ![deleted[1]] = deleted[2]]) = keyring
      BY <1>7, <2>2 DEF RestoreDeleted, HadValue, RollbackRestores
    <3>2. QED
      BY <1>7, <2>2, <3>1 DEF RestoreDeleted, RollbackRestores, RolledBack, KeyringWithoutWrite
  <2>3. CASE broken'
    BY <1>7, <2>3 DEF RestoreDeleted, RollbackRestores
  <2>4. QED
    BY <1>7, <2>1, <2>2, <2>3 DEF RestoreDeleted
<1>8. CASE RollbackWritten
  BY <1>8 DEF RollbackWritten, RollbackRestores, PreviousValue, KeyringWithoutWrite
<1>9. CASE Crash
  BY <1>9 DEF Crash, RollbackRestores
<1>10. ASSUME NEW p \in Profiles, NewProfile(p) \/ EditProfile(p) \/ Connect(p) \/ Delete(p)
       PROVE  Goal'
  BY <1>10 DEF NewProfile, EditProfile, Connect, Delete, Begin, RollbackRestores, RolledBack,
               KeyringWithoutWrite
<1>11. ASSUME NEW m \in Methods, NEW s \in Secrets \cup {None}, NEW remember \in BOOLEAN,
              Save(m, s, remember)
       PROVE  Goal'
  BY <1>11 DEF Save, Begin, RollbackRestores, RolledBack, KeyringWithoutWrite
<1>12. CASE CancelEditor \/ \E r \in Refs : LoseEntry(r)
  BY <1>12 DEF CancelEditor, LoseEntry, RollbackRestores
<1>13. CASE UNCHANGED vars
  BY <1>13 DEF vars, RollbackRestores, RolledBack, KeyringWithoutWrite
<1>14. QED
  BY <1>1, <1>3, <1>4, <1>5, <1>6, <1>7, <1>8, <1>9, <1>10, <1>11, <1>12, <1>13 DEF Next

\* A save or a delete that fails, and does not report a failed rollback, leaves
\* the configuration and the keyring exactly as they were.
THEOREM FailedTransactionsAreUndone ==
  ASSUME Undoable
  PROVE  Spec => []FailureLeavesBothIntact
<1>1. Init => RInv
  BY InitInv DEF Init, RInv, RollbackRestores, FailureLeavesBothIntact
<1>2. RInv /\ [Next]_vars => RInv'
  BY RInvStep
<1>3. RInv => FailureLeavesBothIntact
  BY DEF RInv
<1>4. QED
  BY <1>1, <1>2, <1>3, PTL DEF Spec

-----------------------------------------------------------------------------
(* Agreement. A call of the keyring or of the file that fails and changes  *)
(* nothing is harmless; the other faults change a store or the copy without*)
(* the transaction.                                                        *)
Contained == Faults \subseteq {"put", "delete", "write"}

\* The command a transaction begins with.
LEMMA BeginAgrees ==
  ASSUME AInv, NEW op \in {"save", "delete"}, NEW p \in Profiles, NEW m, NEW s, NEW remember,
         Idle, Begin(op, p, m, s, remember), p \in used,
         oneTime'[p] = None, oneTime' = oneTime \/ oneTime' = [oneTime EXCEPT ![p] = None],
         editor = IF op = "save" THEN p ELSE None
  PROVE  StartsFromMatching' /\ OneTimeAtRest' /\ StoresAgree'
<1>1. /\ job'.op = op /\ job'.profile = p /\ job'.previous = cache[p]
      /\ pc' \in {"writing", "deleting"} /\ before' = stores /\ result' = "none"
      /\ UNCHANGED <<config, keyring, cache, editor, used, damaged>>
  BY DEF Begin, stores
<1>2. before'[1] = config /\ before'[2] = keyring
  BY <1>1 DEF stores
<1>3. StartsFromMatching'
  BY <1>1, <1>2 DEF AInv, StartsFromMatching, StoresAgree, NothingDangles, Idle, Matching
<1>4. \A q \in Profiles : oneTime[q] = None => oneTime'[q] = None
  BY DEF AInv, RInv, IInv, TypeOK
<1>5. OneTimeAtRest'
  BY <1>1, <1>4 DEF AInv, OneTimeAtRest, RInv, IInv, TypeOK
<1>6. StoresAgree'
  BY <1>1 DEF StoresAgree, SuccessIsComplete, NothingDangles, Idle
<1> QED BY <1>3, <1>5, <1>6

\* The keyring that a transaction has prepared matches the configuration it stores.
LEMMA PreparedKeyring ==
  ASSUME AInv, pc = "storing", ~damaged, NEW r \in Refs
  PROVE  /\ r[1] # job.profile => keyring[r] = before[2][r]
         /\ r[1] = job.profile =>
              keyring[r] = IF job.op = "delete" \/ r # Desired(job) THEN None
                           ELSE IF job.secret # None THEN job.secret ELSE before[2][r]
         /\ r[1] = job.profile => (keyring[r] # None <=> CredentialReference(NewConfig[r[1]]) = r)
<1> DEFINE k == before[2]
           p == job.profile
           d == Desired(job)
           o == Old(job)
<1>1. /\ job \in Jobs /\ job.op \in {"save", "delete"} /\ p \in Profiles /\ job.secret \in Secrets \cup {None}
      /\ k \in [Refs -> Secrets \cup {None}] /\ config \in [Profiles -> Auths \cup {None}]
  BY DEF AInv, RInv, IInv, RunningHasNoResult, TypeOK, Jobs
<1>2. /\ d \in Refs \cup {None} /\ o \in Refs \cup {None}
      /\ d # None => d[1] = p
      /\ o # None => o[1] = p
  BY <1>1, JobRefs
<1>3. o = CredentialReference(config[p]) /\ Matching(config, k)
  BY DEF AInv, StartsFromMatching, Old
<1>4. \A q \in Refs : q[1] = p => (k[q] # None <=> q = o)
  BY <1>3 DEF Matching
<1>5. keyring = IF job.op = "save" THEN Without(WithSecret(job, k), ToRemove(job)) ELSE Without(k, o)
  BY DEF AInv, RInv, IInv, KeyringByStep
<1>6. CASE job.op = "delete"
  <2>1. keyring[r] = IF r = o THEN None ELSE k[r]
    BY <1>1, <1>2, <1>5, <1>6 DEF Without
  <2>2. CredentialReference(NewConfig[p]) = None
    BY <1>1, <1>6 DEF NewConfig, CredentialReference
  <2> QED BY <1>2, <1>4, <1>6, <2>1, <2>2
<1>7. CASE job.op = "save"
  <2>1. NewConfig[p] = SavedAuth(job) /\ SavedAuth(job) # None
    BY <1>1, <1>7, SavedAuthType DEF NewConfig, AuthsOf
  <2>2. CredentialReference(NewConfig[p]) = d
    BY <2>1 DEF CredentialReference, SavedAuth
  <2>3. WithSecret(job, k) \in [Refs -> Secrets \cup {None}]
    BY <1>1, <1>2 DEF WithSecret
  <2>4. keyring[r] = IF r = ToRemove(job) THEN None
                     ELSE IF r = d /\ job.secret # None THEN job.secret ELSE k[r]
    BY <1>1, <1>2, <1>5, <1>7, <2>3 DEF Without, WithSecret
  <2>5. r = ToRemove(job) <=> r = o /\ r # d
    BY DEF ToRemove
  <2>6. r = d /\ job.secret = None => k[r] # None
    <3>1. d # None /\ job.secret = None => o = d
      BY <1>7 DEF AInv, StartsFromMatching
    <3> QED BY <1>2, <1>4, <3>1
  <2>7. r[1] # p => r # d /\ r # o
    BY <1>2
  <2> QED BY <1>1, <1>2, <1>4, <1>7, <2>2, <2>4, <2>5, <2>6, <2>7
<1> QED BY <1>1, <1>6, <1>7

\* A transaction goes on with the configuration as it was.
LEMMA GoesOn ==
  ASSUME AInv, pc # "idle", pc' \in {"removing", "storing", "restoring", "unwriting"},
         UNCHANGED <<config, ui, job, before, damaged, result>>,
         pc' \in {"removing", "storing"} /\ job.op = "save" /\ Desired(job) # None /\ job.secret = None
           => Old(job) = Desired(job)
  PROVE  StartsFromMatching' /\ OneTimeAtRest' /\ StoresAgree'
<1>1. StartsFromMatching'
  BY DEF AInv, StartsFromMatching, ui, Matching, CredentialReference, Old, Desired
<1>2. OneTimeAtRest'
  BY DEF AInv, OneTimeAtRest, ui
<1>3. StoresAgree'
  BY DEF AInv, RInv, IInv, RunningHasNoResult, StoresAgree, SuccessIsComplete, NothingDangles, Idle
<1> QED BY <1>1, <1>2, <1>3

\* A transaction has failed, and has left the stores as they were or says that
\* it could not.
LEMMA GivesUp ==
  ASSUME AInv, RInv', pc # "idle", End("failed") \/ End("RollbackFailed"),
         UNCHANGED <<config, ui, job, before>>
  PROVE  StartsFromMatching' /\ OneTimeAtRest' /\ StoresAgree'
<1>1. StartsFromMatching'
  BY DEF AInv, StartsFromMatching, ui, End
<1>2. OneTimeAtRest'
  BY DEF AInv, OneTimeAtRest, ui, End
<1>3. ASSUME ~damaged' PROVE Matching(config, keyring)'
  <2>1. result' = "failed" /\ ~damaged
    BY <1>3 DEF End
  <2>2. config' = before[1] /\ keyring' = before[2]
    BY <2>1 DEF RInv, FailureLeavesBothIntact, stores
  <2>3. Matching(before[1], before[2])
    BY <2>1 DEF AInv, StartsFromMatching
  <2> QED BY <2>2, <2>3 DEF Matching
<1>4. StoresAgree'
  BY <1>3 DEF StoresAgree, SuccessIsComplete, NothingDangles, End
<1> QED BY <1>1, <1>2, <1>4

\* The configuration is stored: both stores hold what was asked for.
LEMMA StoreAgrees ==
  ASSUME Contained, AInv, StoreConfig PROVE StartsFromMatching' /\ OneTimeAtRest' /\ StoresAgree'
<1> DEFINE p == job.profile
<1>1. /\ pc = "storing" /\ pc' = "idle" /\ result' = "ok" /\ damaged' = damaged
      /\ config' = NewConfig /\ cache' = config' /\ editor' = None
      /\ UNCHANGED <<keyring, used, job, before>>
      /\ oneTime' = IF job.op = "save" /\ ~job.remember /\ job.secret # None
                    THEN [oneTime EXCEPT ![p] = job.secret] ELSE oneTime
  BY DEF Contained, StoreConfig, End, Fails, AInv, RInv, IInv, TypeOK
<1>2. /\ job \in Jobs /\ job.op \in {"save", "delete"} /\ p \in Profiles
      /\ config \in [Profiles -> Auths \cup {None}] /\ oneTime \in [Profiles -> Secrets \cup {None}]
      /\ p \in used /\ oneTime[p] = None /\ config = before[1]
  BY <1>1 DEF AInv, RInv, IInv, RunningHasNoResult, TypeOK, Jobs, OneTimeAtRest, StartsFromMatching
<1>3. StartsFromMatching'
  BY <1>1 DEF StartsFromMatching
<1>4. OneTimeAtRest'
  BY <1>1, <1>2 DEF AInv, OneTimeAtRest, NewConfig
<1>5. \A q \in Profiles \ {p} : config'[q] = before[1][q]
  BY <1>1, <1>2 DEF NewConfig
<1>6. config'[p] = IF job.op = "save" THEN SavedAuth(job) ELSE None
  BY <1>1, <1>2 DEF NewConfig
<1>7. oneTime'[p] = IF job.op = "save" /\ ~job.remember THEN job.secret ELSE None
  BY <1>1, <1>2
<1>8. SuccessIsComplete'
  <2> SUFFICES ASSUME ~damaged
               PROVE  /\ \A q \in Profiles \ {p} : \A r \in Refs : r[1] = q => keyring[r] = before[2][r]
                      /\ \A r \in Refs : r[1] = p =>
                           keyring[r] = IF job.op = "delete" \/ r # Desired(job) THEN None
                                        ELSE IF job.secret # None THEN job.secret ELSE before[2][r]
    BY <1>1, <1>5, <1>6, <1>7 DEF SuccessIsComplete, SavedAuth, Desired
  <2> QED BY <1>1, PreparedKeyring
<1>9. NothingDangles'
  <2> SUFFICES ASSUME ~damaged, NEW r \in Refs
               PROVE  keyring[r] # None <=> CredentialReference(NewConfig[r[1]]) = r
    BY <1>1 DEF NothingDangles, Matching, CredentialReference
  <2>1. CASE r[1] = p
    BY <1>1, <2>1, PreparedKeyring
  <2>2. CASE r[1] # p
    <3>1. r[1] \in Profiles /\ NewConfig[r[1]] = before[1][r[1]]
      BY <1>2, <2>2 DEF NewConfig, Refs
    <3>2. keyring[r] # None <=> CredentialReference(before[1][r[1]]) = r
      <4>1. keyring[r] = before[2][r] /\ Matching(before[1], before[2])
        BY <1>1, <2>2, PreparedKeyring DEF AInv, StartsFromMatching
      <4> QED BY <4>1 DEF Matching
    <3> QED BY <3>1, <3>2
  <2> QED BY <2>1, <2>2
<1> QED BY <1>3, <1>4, <1>8, <1>9 DEF StoresAgree

LEMMA AInvStep == ASSUME Contained PROVE AInv /\ [Next]_vars => AInv'
<1> SUFFICES ASSUME AInv, [Next]_vars PROVE StartsFromMatching' /\ OneTimeAtRest' /\ StoresAgree' /\ RInv'
  BY DEF AInv
<1> DEFINE Goal == StartsFromMatching /\ OneTimeAtRest /\ StoresAgree
<1>0. RInv' /\ Undoable
  BY RInvStep DEF AInv, Undoable, Contained
<1>1. CASE WriteSecret
  <2>1. pc = "writing" /\ UNCHANGED <<config, ui, job, before>> /\ job.op = "save"
    BY <1>1 DEF WriteSecret, AInv, RInv, IInv, RunningHasNoResult
  <2>2. CASE End("failed")
    BY <1>0, <2>1, <2>2, GivesUp
  <2>3. CASE pc' = "removing" /\ UNCHANGED <<result, damaged>>
    <3>1. Desired(job) # None /\ job.secret = None => Old(job) = Desired(job)
      BY <1>1, <2>3 DEF WriteSecret, KeepsItsEntry, End
    <3> QED BY <1>0, <2>1, <2>3, <3>1, GoesOn
  <2> QED BY <1>0, <1>1, <2>2, <2>3 DEF WriteSecret
<1>2. CASE RemoveOld
  <2>1. /\ pc = "removing" /\ UNCHANGED <<config, ui, job, before, result, damaged>>
        /\ pc' \in {"storing", "unwriting"}
    BY <1>2 DEF RemoveOld, Contained, Fails
  <2>2. job.op = "save" /\ Desired(job) # None /\ job.secret = None => Old(job) = Desired(job)
    BY <2>1 DEF AInv, StartsFromMatching
  <2> QED BY <1>0, <2>1, <2>2, GoesOn
<1>3. CASE DeleteSecret
  <2>1. pc = "deleting" /\ UNCHANGED <<config, ui, job, before>> /\ job.op = "delete"
    BY <1>3 DEF DeleteSecret, AInv, RInv, IInv, RunningHasNoResult
  <2>2. CASE End("failed")
    BY <1>0, <2>1, <2>2, GivesUp
  <2>3. CASE pc' = "storing" /\ UNCHANGED <<result, damaged>>
    BY <1>0, <2>1, <2>3, GoesOn
  <2> QED BY <1>3, <2>2, <2>3 DEF DeleteSecret
<1>4. CASE StoreConfig
  BY <1>0, <1>4, StoreAgrees
<1>5. CASE FailToStore \/ RestoreDeleted
  <2>1. /\ pc # "idle" /\ pc' \in {"restoring", "unwriting"}
        /\ UNCHANGED <<config, ui, job, before, result, damaged>>
    BY <1>5 DEF FailToStore, RestoreDeleted, locals, Contained, Fails
  <2> QED BY <1>0, <2>1, GoesOn
<1>6. CASE RollbackWritten
  <2>1. pc = "unwriting" /\ UNCHANGED <<config, ui, job, before>> /\ (End("failed") \/ End("RollbackFailed"))
    BY <1>6 DEF RollbackWritten, locals
  <2> QED BY <1>0, <2>1, GivesUp
<1>7. CASE Crash \/ \E r \in Refs : LoseEntry(r)
  BY <1>7 DEF Crash, LoseEntry, Contained, Fails
<1>8. ASSUME NEW p \in Profiles, Delete(p) PROVE Goal'
  <2>1. config[p] # None /\ oneTime' = [oneTime EXCEPT ![p] = None] /\ editor = None
    BY <1>8 DEF Delete, AInv, StartsFromMatching
  <2>2. p \in used /\ oneTime'[p] = None
    BY <2>1 DEF AInv, OneTimeAtRest, RInv, IInv, TypeOK
  <2> QED BY <1>8, <2>1, <2>2, BeginAgrees DEF Delete
<1>9. ASSUME NEW m \in Methods, NEW s \in Secrets \cup {None}, NEW remember \in BOOLEAN,
             Save(m, s, remember)
      PROVE  Goal'
  <2>1. editor \in Profiles /\ editor \in used /\ oneTime' = oneTime /\ oneTime'[editor] = None
    BY <1>9 DEF Save, AInv, OneTimeAtRest, RInv, IInv, TypeOK
  <2> QED BY <1>9, <2>1, BeginAgrees DEF Save
<1>10. ASSUME pc' = pc, Idle, UNCHANGED <<stores, cache, damaged>>, result' = "none", OneTimeAtRest'
       PROVE  Goal'
  <2>1. StartsFromMatching' /\ NothingDangles'
    BY <1>10 DEF Idle, stores, AInv, StartsFromMatching, StoresAgree, NothingDangles, Matching,
                 CredentialReference
  <2> QED BY <1>10, <2>1 DEF StoresAgree, SuccessIsComplete
<1>11. ASSUME NEW p \in Profiles, NewProfile(p) \/ EditProfile(p) \/ Connect(p) PROVE Goal'
  <2>1. /\ pc' = pc /\ Idle /\ UNCHANGED <<stores, cache, damaged, job>> /\ result' = "none"
        /\ editor = None /\ cache = config
    BY <1>11 DEF NewProfile, EditProfile, Connect, locals, AInv, StartsFromMatching
  <2>2. OneTimeAtRest'
    <3>1. CASE NewProfile(p)
      BY <2>1, <3>1 DEF NewProfile, AInv, OneTimeAtRest, Idle, stores
    <3>2. CASE EditProfile(p)
      BY <2>1, <3>2 DEF EditProfile, AInv, OneTimeAtRest, Idle, stores, RInv, IInv, TypeOK
    <3>3. CASE Connect(p)
      BY <2>1, <3>3 DEF Connect, AInv, OneTimeAtRest, Idle, stores, RInv, IInv, TypeOK
    <3> QED BY <1>11, <3>1, <3>2, <3>3
  <2> QED BY <1>10, <2>1, <2>2
<1>12. CASE CancelEditor
  <2>1. OneTimeAtRest'
    BY <1>12 DEF CancelEditor, AInv, OneTimeAtRest, Idle, stores
  <2> QED BY <1>0, <1>10, <1>12, <2>1 DEF CancelEditor
<1>13. CASE UNCHANGED vars
  BY <1>0, <1>13 DEF vars, ui, locals, stores, AInv, StartsFromMatching, OneTimeAtRest, StoresAgree,
     SuccessIsComplete, NothingDangles, Idle, Matching, CredentialReference, Old, Desired, SavedAuth
<1> QED BY <1>0, <1>1, <1>2, <1>3, <1>4, <1>5, <1>6, <1>7, <1>8, <1>9, <1>11, <1>12, <1>13 DEF Next

(* Two stores without a common transaction agree. As long as the calls that*)
(* fail change nothing, a transaction that succeeds has done all of what   *)
(* was asked and touched nothing else, and at rest every reference of the  *)
(* configuration has its secret in the keyring and the reverse, until a    *)
(* rollback has failed.                                                    *)
THEOREM BothStoresAgree ==
  ASSUME Contained
  PROVE  Spec => []StoresAgree
<1>1. Init => AInv
  <2> SUFFICES ASSUME Init PROVE AInv
    OBVIOUS
  <2>1. RInv
    BY InitInv DEF Init, RInv, RollbackRestores, FailureLeavesBothIntact
  <2>2. Matching(config, keyring)
    BY DEF Init, Matching, CredentialReference, Refs
  <2> QED BY <2>1, <2>2 DEF Init, AInv, StartsFromMatching, OneTimeAtRest, StoresAgree, SuccessIsComplete,
                            NothingDangles
<1>2. AInv /\ [Next]_vars => AInv'
  BY AInvStep
<1>3. AInv => StoresAgree
  BY DEF AInv
<1> QED BY <1>1, <1>2, <1>3, PTL DEF Spec
=============================================================================
