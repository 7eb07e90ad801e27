------------------------ MODULE AccountDeletionProofs ------------------------
(***************************************************************************)
(* What the deletion of an account keeps for every number of posts,        *)
(* workers and failures.  Below, it is a specification that hosts the      *)
(* schedule, so what is proved of the schedule holds under a deletion too. *)
(*                                                                         *)
(* DeletionInv relates the operation to the owner's state and generation,  *)
(* the credential to the operation, and the generations of posts to both.  *)
(* LeftInv says what its worker may rely on when it completes a deletion.  *)
(***************************************************************************)
EXTENDS AccountDeletion, ScheduledPostsProofs

----------------------------------------------------------------------------
(* The schedule below.                                                     *)

\* A deletion moves the owner, or empties the tables, or leaves them alone.
LEMMA DeletionHosts ==
    ASSUME DeletionNext
    PROVE  HostedStep
<1>1. CASE UNCHANGED <<life, mediaVars, postVars>>
  BY <1>1 DEF HostedStep, hostedVars
<1>2. CASE \E to \in States : Transition(to)
  BY <1>2 DEF HostedStep
<1>3. {"active", "departed", "deletion_pending", "deleting"} \subseteq States
  BY DEF States
<1>4. CASE ScheduleStep
  BY <1>4 DEF ScheduleStep, HostedStep
<1>5. CASE CreateIntent \/ Accept
  BY <1>2, <1>3, <1>5 DEF CreateIntent, Accept
<1>6. CASE \/ ProfileDeparts
           \/ \E to \in Targets : CancelIntent(to) \/ StartFails(to) \/ ExpireIntent(to)
  <2>1. \E to \in Targets : Cancelled(to)
    BY <1>6 DEF ProfileDeparts, CancelIntent, StartFails, ExpireIntent, Targets
  <2> QED
    BY <1>2, <1>3, <2>1 DEF Cancelled, Targets
<1>7. CASE StartOAuth \/ Reauthenticate \/ ReauthenticationFails \/ IntentLapses \/ LogoutAll
           \/ CredentialExpires \/ DeletionLeaseEnds
  BY <1>1, <1>7 DEF StartOAuth, Reauthenticate, ReauthenticationFails, IntentLapses, LogoutAll,
                    CredentialExpires, DeletionLeaseEnds, scheduleVars
<1>8. ASSUME NEW d \in Deleters, DeleterStep(d)
      PROVE  HostedStep
  BY <1>1, <1>8 DEF DeleterStep, ClaimDeletion, AdoptAttempts, PurgePrivate, DeleteRecords,
                    CheckSafety, scheduleVars
<1>9. ASSUME NEW d \in Deleters,
             DeletionRefused(d) \/ DeletionFails(d) \/ DeleterCrashes(d)
      PROVE  HostedStep
  BY <1>1, <1>9 DEF DeletionRefused, DeletionFails, DeleterCrashes
<1>10. ASSUME NEW d \in Deleters, PurgeAccepted(d)
       PROVE  HostedStep
  <2>1. CASE UNCHANGED <<post, tombstone, media, job>>
    BY <1>1, <1>10, <2>1 DEF PurgeAccepted, mediaVars, postVars
  <2>2. CASE /\ post' = [p \in Posts |-> IF post[p].state \in Rows THEN Gone(p) ELSE post[p]]
             /\ tombstone' = [p \in Posts |-> 0]
             /\ Discard({m \in Media : media[m].state # "none"})
    BY <1>10, <2>2 DEF PurgeAccepted, Emptied, HostedStep
  <2> QED
    BY <1>10, <2>1, <2>2 DEF PurgeAccepted
<1>11. ASSUME NEW d \in Deleters, CompleteAccepted(d)
       PROVE  HostedStep
  BY <1>1, <1>2, <1>3, <1>11 DEF CompleteAccepted
<1> QED
  BY <1>4, <1>5, <1>6, <1>7, <1>8, <1>9, <1>10, <1>11 DEF DeletionNext, FencedStep

\* The deletion too is composed with a component that has steps, and a use for
\* the budget, of its own.
hostedDeletionVars == <<life, mediaVars, postVars, deletionVars>>
HostedDeletionSpec == DeletionInit /\ [][DeletionNext]_hostedDeletionVars

\* The deletion alone is one of the specifications that this is about.
THEOREM DeletionIsHosted == DeletionSpec => HostedDeletionSpec
<1>1. [DeletionNext]_allVars => [DeletionNext]_hostedDeletionVars
  BY DEF allVars, scheduleVars, hostedDeletionVars
<1> QED
  BY <1>1, PTL DEF DeletionSpec, HostedDeletionSpec

\* What is proved of the schedule holds while an account is deleted.
THEOREM ScheduleIsHostedByDeletion == HostedDeletionSpec => HostedSpec
<1>1. DeletionInit => Init
  BY DEF DeletionInit
<1>2. [DeletionNext]_hostedDeletionVars => [HostedStep]_hostedVars
  <2>1. CASE DeletionNext
    BY <2>1, DeletionHosts
  <2>2. CASE UNCHANGED hostedDeletionVars
    BY <2>2 DEF hostedDeletionVars, hostedVars
  <2> QED
    BY <2>1, <2>2
<1> QED
  BY <1>1, <1>2, PTL DEF HostedDeletionSpec, HostedSpec

\* The schedule moves the owner along Moves only.
LEMMA ScheduleMoves ==
    ASSUME Next
    PROVE  life' = life \/ \E move \in Moves : life.state = move[1] /\ life'.state = move[2]
<1>1. ASSUME NEW to \in States, Move(to)
      PROVE  \E move \in Moves : life.state = move[1] /\ life'.state = move[2]
  BY <1>1 DEF Move, Transition
<1>2. life' = life \/ \E to \in States : Move(to)
  BY ZenonT(60)
  DEF Next, MediaStep, Create, Update, Save, PostNow, Delete, LeaseLapses, OutlivesLease,
         Expire, Age, ClaimDue, WorkerStep, Snapshot, Freeze, Acquire, Upload, Write, Answered,
         GiveUp, Finalize, NoAnswer, UploadFails, Crash, PreparationFails, Refused, Land, Lose,
         Sweep
<1> QED
  BY <1>1, <1>2

\* A post is of the generation in which it was created, for good.
LEMMA GenerationsStay ==
    ASSUME PostTypes, HostedStep, NEW p \in Posts
    PROVE  \/ post'[p].gen = post[p].gen
           \/ life.state = "active" /\ life' = life /\ post'[p].gen = life.gen
<1> USE DEF PostTypes, PostsTyped
<1>1. CASE UNCHANGED post
  BY <1>1
<1>2. ASSUME NEW some \in SUBSET Posts,
             post' = [q \in Posts |-> IF q \in some THEN Gone(q) ELSE post[q]]
      PROVE  post'[p].gen = post[p].gen
  BY <1>2 DEF Gone, NoPost
<1>3. ASSUME NEW q \in Posts, NEW row, row.gen = post[q].gen, post' = [post EXCEPT ![q] = row]
      PROVE  post'[p].gen = post[p].gen
  BY <1>3
<1>4. ASSUME NEW q \in Posts, NEW images \in SUBSET Media, Create(q, images)
      PROVE  \/ post'[p].gen = post[p].gen
             \/ life.state = "active" /\ life' = life /\ post'[p].gen = life.gen
  <2> DEFINE row == [NoPost EXCEPT !.state = "scheduled", !.gen = life.gen, !.version = 1]
  <2>1. row.gen = life.gen
    BY DEF NoPost
  <2>2. post' = [post EXCEPT ![q] = row] /\ life.state = "active" /\ life' = life
    BY <1>4 DEF Create
  <2> HIDE DEF row
  <2> QED
    BY <2>1, <2>2
<1>5. ASSUME NEW q \in Posts, NEW images \in SUBSET Media,
             Update(q, images) \/ \E w \in Workers : PostNow(w, q, images)
      PROVE  post'[p].gen = post[p].gen
  <2>1. ASSUME NEW w \in Workers
        PROVE  [Fresh(q) EXCEPT !.state = "publishing", !.attempt = Attempts,
                                !.lease = w].gen = post[q].gen
    BY DEF Fresh, NoPost
  <2>2. [Fresh(q) EXCEPT !.state = "scheduled"].gen = post[q].gen
    BY DEF Fresh, NoPost
  <2> QED
    BY <1>3, <1>5, <2>1, <2>2 DEF Update, PostNow, Save
<1>6. Gone(p).gen = post[p].gen
  BY DEF Gone, NoPost
<1>7. ASSUME NEW q \in Posts, Delete(q) \/ LeaseLapses(q) \/ Age(q)
      PROVE  post'[p].gen = post[p].gen
  <2>1. /\ [post[q] EXCEPT !.expired = TRUE].gen = post[q].gen
        /\ [post[q] EXCEPT !.aged = TRUE].gen = post[q].gen
        /\ Gone(q).gen = post[q].gen
    BY DEF PostRows, Gone, NoPost
  <2> QED
    BY <1>3, <1>7, <2>1 DEF Delete, LeaseLapses, Expire, Age
<1>8. ASSUME NEW w \in Workers, ClaimDue(w)
      PROVE  post'[p].gen = post[p].gen
  BY <1>8, ClaimDueStep, RecoveredRows
<1>9. ASSUME NEW w \in Workers, worker[w].pc # "idle",
             \/ WorkerStep(w) \/ NoAnswer(w) \/ UploadFails(w) \/ Crash(w) \/ OutlivesLease(w)
             \/ \E permanent \in BOOLEAN : PreparationFails(w, permanent) \/ Refused(w, permanent)
      PROVE  post'[p].gen = post[p].gen
  <2>1. PICK q \in Posts : q = worker[w].post
    BY <1>9 DEF WorkersTyped, ClaimOK
  <2>2. post[q] \in PostRows
    OBVIOUS
  <2>3. /\ [post[q] EXCEPT !.expired = TRUE].gen = post[q].gen
        /\ [post[q] EXCEPT !.frozen = TRUE].gen = post[q].gen
        /\ Gone(q).gen = post[q].gen
    BY DEF PostRows, Gone, NoPost
  <2>4. ASSUME NEW state
        PROVE  [post[q] EXCEPT !.state = state, !.lease = Nobody, !.expired = FALSE].gen
                  = post[q].gen
    BY <2>2 DEF PostRows
  <2>5. ASSUME NEW permanent \in BOOLEAN, Fail(w, permanent)
        PROVE  post'[p].gen = post[p].gen
    BY <1>1, <1>3, <2>1, <2>4, <2>5 DEF Fail
  <2>6. CASE GiveUp(w) \/ \E permanent \in BOOLEAN : PreparationFails(w, permanent)
    <3>1. (worker[w].pc = "rejected") \in BOOLEAN
      OBVIOUS
    <3> QED
      BY <1>1, <2>5, <2>6, <3>1 DEF GiveUp, PreparationFails
  <2>7. CASE Freeze(w) \/ Finalize(w) \/ OutlivesLease(w)
    BY <1>1, <1>3, <2>1, <2>3, <2>7 DEF Freeze, Finalize, OutlivesLease, Expire
  <2>8. CASE ~(Freeze(w) \/ Finalize(w) \/ OutlivesLease(w) \/ GiveUp(w)
               \/ \E permanent \in BOOLEAN : PreparationFails(w, permanent))
    BY <1>1, <1>9, <2>8 DEF WorkerStep, Snapshot, Acquire, Upload, Write, Answered, NoAnswer,
                            UploadFails, Crash, Refused
  <2> QED
    BY <2>6, <2>7, <2>8
<1>10. ASSUME NEW w \in Workers,
             \/ WorkerStep(w) \/ NoAnswer(w) \/ UploadFails(w) \/ Crash(w) \/ OutlivesLease(w)
             \/ \E permanent \in BOOLEAN : PreparationFails(w, permanent) \/ Refused(w, permanent)
       PROVE  worker[w].pc # "idle"
  BY <1>10 DEF WorkerStep, Snapshot, Freeze, Acquire, Upload, Write, Answered, GiveUp, Finalize,
               NoAnswer, UploadFails, Crash, PreparationFails, Refused, OutlivesLease
<1>11. ASSUME NEW c \in Cleaners, Sweep(c)
       PROVE  post'[p].gen = post[p].gen
  <2> DEFINE old == {q \in Posts : post[q].state = "needs_attention" /\ post[q].aged}
  <2>1. post' = [q \in Posts |-> IF q \in old THEN Gone(q) ELSE post[q]]
    BY <1>11 DEF Sweep
  <2> QED
    BY <1>2, <2>1
<1>12. ASSUME NEW to \in States, Transition(to)
       PROVE  post'[p].gen = post[p].gen
  <2> DEFINE cancelled == IF life.state = "active"
                          THEN {q \in Posts : post[q].state \in Rows /\ post[q].gen = life.gen}
                          ELSE {}
  <2>1. post' = [q \in Posts |-> IF q \in cancelled THEN Gone(q) ELSE post[q]]
    BY <1>12 DEF Transition
  <2>2. cancelled \in SUBSET Posts
    OBVIOUS
  <2> HIDE DEF cancelled
  <2> QED
    BY <1>2, <2>1, <2>2
<1>13. CASE Emptied
  <2> DEFINE some == {q \in Posts : post[q].state \in Rows}
  <2>1. post' = [q \in Posts |-> IF q \in some THEN Gone(q) ELSE post[q]]
    BY <1>13 DEF Emptied
  <2>2. some \in SUBSET Posts
    OBVIOUS
  <2> HIDE DEF some
  <2> QED
    BY <1>2, <2>1, <2>2
<1>14. CASE \E write \in wire : Land(write) \/ Lose(write)
  BY <1>1, <1>14 DEF Land, Lose
<1>15. CASE UNCHANGED hostedVars \/ MediaStep
  BY <1>1, <1>15 DEF hostedVars, postVars, MediaStep
<1> QED
  BY <1>4, <1>5, <1>7, <1>8, <1>9, <1>10, <1>11, <1>12, <1>13, <1>14, <1>15
     DEF HostedStep, Next, Move

----------------------------------------------------------------------------
(* The operation.                                                          *)

Operations == [state : {"none", "intent", "reauth_required"} \cup Accepted,
               gen : Nat, bound : BOOLEAN, overdue : BOOLEAN,
               lease : Deleters \cup {Nobody}, expired : BOOLEAN]
Credentials == [state : {"none", "asked", "ready", "bound", "over"}, gen : Nat, epoch : Nat]
Deletions == [pc : {"idle", "adopt", "purge", "private", "delete", "check", "complete"},
              gen : Nat]

\* The owner is where its operation has brought it.
OperationFits ==
    /\ operation.state = "none" => life.state \notin OfDeletion
    /\ operation.state = "intent" =>
          life = [state |-> "deletion_pending", gen |-> operation.gen + 1]
    /\ operation.state \in {"reauth_required"} \cup Accepted =>
          life = [state |-> "deleting", gen |-> operation.gen + 2]

\* A sign-in is of the generation of its intent.
CredentialFits ==
    /\ credential.state \in {"asked", "ready"} => operation.state = "intent"
    /\ credential.state = "bound" => operation.state \in {"intent"} \cup Accepted
    /\ operation.state = "intent" /\ credential.state \in {"ready", "bound"} =>
          credential.gen = life.gen

\* No post is younger than its owner, or than the generation that is deleted.
GenerationsFit ==
    \A p \in Posts :
        /\ post[p].gen <= life.gen
        /\ operation.state # "none" => post[p].gen <= operation.gen

DeletionInv ==
    DeletionTypeOK /\ OperationFits /\ CredentialFits /\ AcceptedHasCredential /\ GenerationsFit

USE DeletionConstants, DeletionMoves

\* The tables of the deletion, apart from the operation and its workers.
Books ==
    /\ unsettled \in [writes : SUBSET (Posts \X (1..Versions)), objects : SUBSET Media]
    /\ repo \subseteq Posts \X (1..Versions)

\* What an operation, its credential and its owner must be to each other.
OperationOK ==
    /\ epoch \in Nat /\ operation \in Operations /\ credential \in Credentials
    /\ operation.lease # Nobody => operation.state \in Accepted
    /\ OperationFits /\ CredentialFits /\ AcceptedHasCredential

LEMMA DeletionInvParts ==
    DeletionInv <=> OperationOK /\ Books /\ deleter \in [Deleters -> Deletions] /\ GenerationsFit
  BY DEF DeletionInv, DeletionTypeOK, OperationOK, Books, Operations, Credentials, Deletions

LEMMA DeletionInitInv == DeletionInit => DeletionInv
<1> SUFFICES ASSUME DeletionInit
             PROVE  DeletionInv
  OBVIOUS
<1>1. OperationOK
  BY DEF DeletionInit, Init, OperationOK, Operations, Credentials, NoOperation, NoCredential,
         OperationFits, CredentialFits, AcceptedHasCredential, Accepted, OfDeletion
<1>2. Books /\ deleter \in [Deleters -> Deletions]
  BY DEF DeletionInit, Books, NothingUnsettled, NoDeletion, Deletions
<1>3. GenerationsFit
  BY DEF DeletionInit, Init, GenerationsFit, NoPost, NoOperation
<1> QED
  BY <1>1, <1>2, <1>3, DeletionInvParts

\* A worker goes on with its claim, or lets it go.
LEMMA DeleterTypes ==
    ASSUME deleter \in [Deleters -> Deletions], NEW d \in Deleters,
           \/ StopDeleting(d)
           \/ \E pc \in {"purge", "private", "delete", "check", "complete"} : Deleting(d, pc)
    PROVE  deleter' \in [Deleters -> Deletions]
  BY DEF Deletions, StopDeleting, NoDeletion, Deleting

\* A failure leaves an operation that is accepted so.
LEMMA FailureKeepsOperation ==
    ASSUME OperationOK, UNCHANGED <<life, epoch, credential>>,
           NEW d \in Deleters, FailDeletion(d)
    PROVE  OperationOK'
<1> DEFINE row == [operation EXCEPT !.state = "retrying", !.lease = Nobody, !.expired = FALSE]
<1>1. CASE OwnsDeletion(d)
  <2>1. operation' = row /\ operation.state \in Accepted
    BY <1>1 DEF FailDeletion, OwnsDeletion, OperationOK
  <2>2. /\ row \in Operations /\ row.state = "retrying" /\ row.lease = Nobody
        /\ row.gen = operation.gen
    BY DEF OperationOK, Operations, Accepted
  <2> HIDE DEF row
  <2> QED
    BY <2>1, <2>2 DEF OperationOK, OperationFits, CredentialFits, AcceptedHasCredential, Eligible,
                      Accepted
<1>2. CASE operation' = operation
  BY <1>2 DEF OperationOK, OperationFits, CredentialFits, AcceptedHasCredential, Eligible
<1> QED
  BY <1>1, <1>2 DEF FailDeletion

\* Everything but the worker's own record of its claim.
LEMMA MovesKeepOperation ==
    ASSUME PostTypes, OperationOK, DeletionNext
    PROVE  OperationOK'
<1> USE DEF Accepted
<1>0. life.gen \in Nat /\ epoch \in Nat /\ life = [state |-> life.state, gen |-> life.gen]
  BY DEF PostTypes, OperationOK
<1>1. ASSUME UNCHANGED <<life, epoch, operation, credential>>
      PROVE  OperationOK'
  BY <1>1 DEF OperationOK, OperationFits, CredentialFits, AcceptedHasCredential, Eligible
<1>2. CASE ScheduleStep
  <2>1. UNCHANGED <<operation, credential>>
    BY <1>2 DEF ScheduleStep
  <2>2. CASE life' = life
    BY <1>1, <1>2, <2>1, <2>2 DEF ScheduleStep
  <2>3. CASE \E move \in Moves : life.state = move[1] /\ life'.state = move[2]
    <3>1. life.state \notin OfDeletion /\ life'.state \notin OfDeletion
      BY <2>3
    <3>2. operation.state = "none"
      BY <3>1 DEF OperationOK, OperationFits, Operations, OfDeletion
    <3>3. epoch' \in Nat
      BY <1>0, <1>2 DEF ScheduleStep
    <3> QED
      BY <2>1, <3>1, <3>2, <3>3
         DEF OperationOK, OperationFits, CredentialFits, AcceptedHasCredential
  <2> QED
    BY <1>2, <2>2, <2>3, ScheduleMoves DEF ScheduleStep
<1>3. CASE CreateIntent
  <2>1. /\ life' = [state |-> "deletion_pending", gen |-> life.gen + 1]
        /\ epoch' = epoch
        /\ operation' = [NoOperation EXCEPT !.state = "intent", !.gen = life.gen]
        /\ credential' = [NoCredential EXCEPT !.state = "asked"]
    BY <1>3 DEF CreateIntent, Transition
  <2>2. operation' \in Operations /\ credential' \in Credentials
    BY <1>0, <2>1 DEF Operations, Credentials, NoOperation, NoCredential
  <2>3. /\ operation'.state = "intent" /\ operation'.gen = life.gen
        /\ operation'.lease = Nobody /\ credential'.state = "asked"
    BY <2>1 DEF NoOperation, NoCredential
  <2> QED
    BY <1>0, <2>1, <2>2, <2>3
       DEF OperationOK, OperationFits, CredentialFits, AcceptedHasCredential
<1>4. CASE StartOAuth
  <2>1. /\ UNCHANGED <<life, epoch, operation>> /\ operation.state = "intent"
        /\ credential' = [state |-> "ready", gen |-> life.gen, epoch |-> epoch]
    BY <1>4 DEF StartOAuth, scheduleVars
  <2>2. credential' \in Credentials
    BY <1>0, <2>1 DEF Credentials
  <2> QED
    BY <2>1, <2>2 DEF OperationOK, OperationFits, CredentialFits, AcceptedHasCredential
<1>5. Revoked \in Credentials /\ Revoked.state = "over"
  BY DEF Revoked, OperationOK, Credentials
<1>6. ASSUME UNCHANGED <<life, epoch, operation>>, credential' = Revoked,
             operation.state \notin Accepted
      PROVE  OperationOK'
  BY <1>5, <1>6 DEF OperationOK, OperationFits, CredentialFits, AcceptedHasCredential
<1>7. credential.state = "ready" => operation.state = "intent"
  BY DEF OperationOK, CredentialFits
<1>8. CASE Reauthenticate
  <2>1. UNCHANGED <<life, epoch>> /\ credential.state = "ready"
    BY <1>8 DEF Reauthenticate, scheduleVars
  <2> DEFINE bound == [credential EXCEPT !.state = "bound"]
             intent == [operation EXCEPT !.bound = TRUE]
  <2>2. \/ credential' = bound /\ operation' = intent
        \/ credential' = Revoked /\ operation' = operation
    BY <1>8 DEF Reauthenticate
  <2>3. /\ bound \in Credentials /\ bound.state = "bound" /\ bound.gen = credential.gen
        /\ intent \in Operations /\ intent.state = operation.state
        /\ intent.gen = operation.gen /\ intent.lease = operation.lease
    BY DEF OperationOK, Operations, Credentials
  <2> HIDE DEF bound, intent
  <2>4. CASE credential' = bound /\ operation' = intent
    BY <1>7, <2>1, <2>3, <2>4
       DEF OperationOK, OperationFits, CredentialFits, AcceptedHasCredential
  <2> QED
    BY <1>6, <1>7, <2>1, <2>2, <2>4
<1>9. CASE ReauthenticationFails
  BY <1>6, <1>7, <1>9 DEF ReauthenticationFails
<1>10. NoOperation \in Operations /\ NoOperation.state = "none" /\ NoOperation.lease = Nobody
  BY DEF NoOperation, Operations
<1>11. ASSUME life'.state \notin OfDeletion, epoch' \in Nat,
              operation' = NoOperation, credential' = Revoked
       PROVE  OperationOK'
  BY <1>5, <1>10, <1>11 DEF OperationOK, OperationFits, CredentialFits, AcceptedHasCredential
<1>12. ASSUME NEW to \in Targets, Cancelled(to)
       PROVE  OperationOK'
  BY <1>0, <1>11, <1>12 DEF Cancelled, Targets, Transition, OfDeletion
<1>13. CASE \/ ProfileDeparts
            \/ \E to \in Targets : CancelIntent(to) \/ StartFails(to) \/ ExpireIntent(to)
  <2>1. \E to \in Targets : Cancelled(to)
    BY <1>13 DEF ProfileDeparts, CancelIntent, StartFails, ExpireIntent, Targets
  <2> QED
    BY <1>12, <2>1
<1>14. CASE IntentLapses
  <2> DEFINE row == [operation EXCEPT !.overdue = TRUE]
  <2>1. UNCHANGED <<life, epoch, credential>> /\ operation' = row
    BY <1>14 DEF IntentLapses, scheduleVars
  <2>2. /\ row \in Operations /\ row.state = operation.state
        /\ row.gen = operation.gen /\ row.lease = operation.lease
    BY DEF OperationOK, Operations
  <2> HIDE DEF row
  <2> QED
    BY <2>1, <2>2
       DEF OperationOK, OperationFits, CredentialFits, AcceptedHasCredential, Eligible
<1>15. CASE Accept
  <2> DEFINE row == [operation EXCEPT !.state = "active"]
             kept == [credential EXCEPT !.epoch = epoch + 1]
  <2>1. /\ operation.state = "intent" /\ credential.state = "bound"
        /\ life' = [state |-> "deleting", gen |-> life.gen + 1]
        /\ epoch' = epoch + 1 /\ credential' = kept /\ operation' = row
    BY <1>15 DEF Accept, Transition
  <2>2. life.gen = operation.gen + 1 /\ credential.gen = life.gen /\ operation.gen \in Nat
    BY <2>1 DEF OperationOK, OperationFits, CredentialFits, Operations
  <2>3. /\ kept \in Credentials
        /\ kept = [state |-> "bound", gen |-> life.gen, epoch |-> epoch + 1]
    BY <1>0, <2>1, <2>2 DEF OperationOK, Credentials
  <2>4. /\ row \in Operations /\ row.state = "active"
        /\ row.gen = operation.gen /\ row.lease = operation.lease
    BY DEF OperationOK, Operations
  <2> HIDE DEF row, kept
  <2>5. life'.gen - 1 = life.gen /\ life' = [state |-> "deleting", gen |-> operation'.gen + 2]
    BY <1>0, <2>1, <2>2, <2>4
  <2> QED
    BY <1>0, <2>1, <2>3, <2>4, <2>5
       DEF OperationOK, OperationFits, CredentialFits, AcceptedHasCredential, Eligible
<1>16. CASE LogoutAll
  <2>1. UNCHANGED <<life, operation>> /\ epoch' = epoch + 1
    BY <1>16 DEF LogoutAll
  <2>2. CASE operation.state \in Accepted
    <3> DEFINE kept == [credential EXCEPT !.epoch = epoch + 1]
    <3>1. Eligible
      BY <2>2 DEF OperationOK, AcceptedHasCredential
    <3>2. credential' = kept
      BY <1>16, <3>1 DEF LogoutAll, KeptByLogout, Eligible
    <3>3. kept \in Credentials /\ kept = [state |-> "bound", gen |-> life.gen - 1,
                                          epoch |-> epoch + 1]
      BY <1>0, <3>1 DEF OperationOK, Credentials, Eligible
    <3> HIDE DEF kept
    <3>4. Eligible'
      BY <2>1, <3>1, <3>2, <3>3 DEF Eligible
    <3> QED
      BY <1>0, <2>1, <2>2, <3>2, <3>3, <3>4
         DEF OperationOK, OperationFits, CredentialFits, AcceptedHasCredential
  <2>3. CASE operation.state \notin Accepted
    <3>1. \/ credential' = credential /\ credential.state \notin {"ready", "bound"}
          \/ credential' = Revoked
      BY <1>16, <2>3 DEF LogoutAll, KeptByLogout, Eligible
    <3> QED
      BY <1>0, <1>5, <2>1, <2>3, <3>1
         DEF OperationOK, OperationFits, CredentialFits, AcceptedHasCredential
  <2> QED
    BY <2>2, <2>3
<1>17. ASSUME operation.state \in Accepted, ReauthRequired, UNCHANGED <<life, epoch>>
       PROVE  OperationOK'
  <2> DEFINE row == [operation EXCEPT !.state = "reauth_required", !.bound = FALSE,
                                      !.lease = Nobody, !.expired = FALSE]
  <2>1. /\ row \in Operations /\ row.state = "reauth_required" /\ row.lease = Nobody
        /\ row.gen = operation.gen
    BY DEF OperationOK, Operations
  <2>2. operation' = row /\ credential' = Revoked
    BY <1>17 DEF ReauthRequired
  <2> HIDE DEF row
  <2> QED
    BY <1>5, <1>17, <2>1, <2>2 DEF OperationOK, OperationFits, CredentialFits, AcceptedHasCredential
<1>18. CASE CredentialExpires
  BY <1>17, <1>18 DEF CredentialExpires
<1>19. ASSUME NEW d \in Deleters, DeletionRefused(d)
       PROVE  OperationOK'
  BY <1>17, <1>19 DEF DeletionRefused, MayDelete
<1>20. ASSUME NEW d \in Deleters, ClaimDeletion(d)
       PROVE  OperationOK'
  <2> DEFINE row == [operation EXCEPT !.lease = d, !.expired = FALSE]
  <2>1. /\ operation.state \in Accepted /\ operation' = row
        /\ UNCHANGED <<life, epoch, credential>>
    BY <1>20 DEF ClaimDeletion, Claimable, scheduleVars
  <2>2. row \in Operations /\ row.state = operation.state /\ row.gen = operation.gen
    BY DEF OperationOK, Operations
  <2> HIDE DEF row
  <2> QED
    BY <2>1, <2>2
       DEF OperationOK, OperationFits, CredentialFits, AcceptedHasCredential, Eligible
<1>21. CASE DeletionLeaseEnds
  <2> DEFINE row == [operation EXCEPT !.expired = TRUE]
  <2>1. operation' = row /\ UNCHANGED <<life, epoch, credential>>
    BY <1>21 DEF DeletionLeaseEnds
  <2>2. /\ row \in Operations /\ row.state = operation.state
        /\ row.gen = operation.gen /\ row.lease = operation.lease
    BY DEF OperationOK, Operations
  <2> HIDE DEF row
  <2> QED
    BY <2>1, <2>2
       DEF OperationOK, OperationFits, CredentialFits, AcceptedHasCredential, Eligible
<1>22. ASSUME NEW d \in Deleters,
              \/ AdoptAttempts(d) \/ PurgePrivate(d) \/ DeleteRecords(d) \/ CheckSafety(d)
              \/ PurgeAccepted(d) \/ DeletionFails(d) \/ DeleterCrashes(d)
       PROVE  OperationOK'
  <2>1. UNCHANGED <<life, epoch, credential>>
    BY <1>22 DEF AdoptAttempts, PurgePrivate, DeleteRecords, CheckSafety, PurgeAccepted,
                 DeletionFails, DeleterCrashes, scheduleVars
  <2>2. operation' = operation \/ FailDeletion(d)
    BY <1>22 DEF AdoptAttempts, PurgePrivate, DeleteRecords, CheckSafety, PurgeAccepted,
                 DeletionFails, DeleterCrashes
  <2> QED
    BY <1>1, <2>1, <2>2, FailureKeepsOperation
<1>23. ASSUME NEW d \in Deleters, CompleteAccepted(d)
       PROVE  OperationOK'
  <2>1. CASE life.state = "deleting" /\ OwnsDeletion(d) /\ SafetySettled
    <3>1. life'.state = "departed" /\ epoch' = epoch + 1 /\ operation' = NoOperation
          /\ credential' = Revoked
      BY <1>23, <2>1 DEF CompleteAccepted, Transition
    <3> QED
      BY <1>0, <1>11, <3>1 DEF OfDeletion
  <2>2. CASE ~(life.state = "deleting" /\ OwnsDeletion(d) /\ SafetySettled)
    <3>1. UNCHANGED <<life, epoch, credential>>
      BY <1>23, <2>2 DEF CompleteAccepted
    <3>2. operation' = operation \/ FailDeletion(d)
      BY <1>23, <2>2 DEF CompleteAccepted
    <3> QED
      BY <1>1, <3>1, <3>2, FailureKeepsOperation
  <2> QED
    BY <2>1, <2>2
<1> QED
  BY <1>2, <1>3, <1>4, <1>8, <1>9, <1>13, <1>14, <1>15, <1>16, <1>18, <1>19, <1>20, <1>21,
     <1>22, <1>23 DEF DeletionNext, DeleterStep, FencedStep

LEMMA MovesKeepBooks ==
    ASSUME PostTypes, DeletionInv, DeletionNext
    PROVE  Books'
<1>0. Books
  BY DeletionInvParts
<1>1. CASE UNCHANGED <<unsettled, repo>>
  BY <1>0, <1>1 DEF Books
<1>2. ASSUME NEW gen, Adopted(gen), UNCHANGED repo
      PROVE  Books'
  <2>1. OpenWrites(gen) \in SUBSET (Posts \X (1..Versions))
    BY DEF OpenWrites
  <2> QED
    BY <1>0, <1>2, <2>1 DEF Books, Adopted
<1>3. CASE ScheduleStep
  BY <1>0, <1>3 DEF ScheduleStep, Books, PostTypes, WritesTyped
<1>4. ASSUME NEW d \in Deleters, PurgeAccepted(d)
      PROVE  Books'
  <2>1. UncertainObjects(deleter[d].gen) \in SUBSET Media
    BY DEF UncertainObjects
  <2>2. /\ UNCHANGED repo
        /\ \/ UNCHANGED unsettled
           \/ unsettled' = [unsettled EXCEPT !.objects = @ \cup UncertainObjects(deleter[d].gen)]
    BY <1>4 DEF PurgeAccepted
  <2> QED
    BY <1>0, <2>1, <2>2 DEF Books
<1>5. ASSUME NEW d \in Deleters, DeleteRecords(d)
      PROVE  Books'
  BY <1>0, <1>5 DEF DeleteRecords, Books
<1>6. CASE \/ CreateIntent \/ StartOAuth \/ Reauthenticate \/ ReauthenticationFails \/ IntentLapses
           \/ ProfileDeparts \/ LogoutAll \/ CredentialExpires \/ DeletionLeaseEnds
           \/ \E to \in Targets : CancelIntent(to) \/ StartFails(to) \/ ExpireIntent(to)
  BY <1>1, <1>6 DEF CreateIntent, StartOAuth, Reauthenticate, ReauthenticationFails, IntentLapses,
                    ProfileDeparts, LogoutAll, CredentialExpires, DeletionLeaseEnds, CancelIntent,
                    StartFails, ExpireIntent, Cancelled
<1>7. CASE Accept
  BY <1>2, <1>7 DEF Accept
<1>8. ASSUME NEW d \in Deleters,
             \/ ClaimDeletion(d) \/ AdoptAttempts(d) \/ PurgePrivate(d) \/ CheckSafety(d)
             \/ CompleteAccepted(d) \/ DeletionRefused(d) \/ DeletionFails(d)
             \/ DeleterCrashes(d)
      PROVE  Books'
  BY <1>1, <1>2, <1>8 DEF ClaimDeletion, AdoptAttempts, PurgePrivate, CheckSafety,
                          CompleteAccepted, DeletionRefused, DeletionFails, DeleterCrashes
<1> QED
  BY <1>3, <1>4, <1>5, <1>6, <1>7, <1>8 DEF DeletionNext, DeleterStep, FencedStep

LEMMA MovesKeepDeleters ==
    ASSUME DeletionInv, DeletionNext
    PROVE  deleter' \in [Deleters -> Deletions]
<1>0. deleter \in [Deleters -> Deletions] /\ operation.gen \in Nat
  BY DeletionInvParts DEF OperationOK, Operations
<1>1. CASE UNCHANGED deleter
  BY <1>0, <1>1
<1>2. ASSUME NEW d \in Deleters, ClaimDeletion(d)
      PROVE  deleter' \in [Deleters -> Deletions]
  <2>1. [pc |-> "adopt", gen |-> operation.gen] \in Deletions
    BY <1>0 DEF Deletions
  <2> QED
    BY <1>0, <1>2, <2>1 DEF ClaimDeletion
<1>3. ASSUME NEW d \in Deleters,
             \/ StopDeleting(d)
             \/ \E pc \in {"purge", "private", "delete", "check", "complete"} : Deleting(d, pc)
      PROVE  deleter' \in [Deleters -> Deletions]
  BY <1>0, <1>3, DeleterTypes
<1>4. ASSUME NEW d \in Deleters,
             \/ AdoptAttempts(d) \/ PurgePrivate(d) \/ DeleteRecords(d) \/ CheckSafety(d)
             \/ PurgeAccepted(d) \/ CompleteAccepted(d) \/ DeletionRefused(d)
             \/ DeletionFails(d) \/ DeleterCrashes(d)
      PROVE  deleter' \in [Deleters -> Deletions]
  <2>1. \/ StopDeleting(d)
        \/ \E pc \in {"purge", "private", "delete", "check", "complete"} : Deleting(d, pc)
    BY <1>4 DEF AdoptAttempts, PurgePrivate, DeleteRecords, CheckSafety, PurgeAccepted,
                CompleteAccepted, DeletionRefused, DeletionFails, DeleterCrashes, FailDeletion
  <2> QED
    BY <1>3, <2>1
<1>5. CASE \/ ScheduleStep \/ CreateIntent \/ StartOAuth \/ Reauthenticate
           \/ ReauthenticationFails \/ IntentLapses \/ ProfileDeparts \/ Accept \/ LogoutAll
           \/ CredentialExpires \/ DeletionLeaseEnds
           \/ \E to \in Targets : CancelIntent(to) \/ StartFails(to) \/ ExpireIntent(to)
  BY <1>1, <1>5 DEF ScheduleStep, CreateIntent, StartOAuth, Reauthenticate, ReauthenticationFails,
                    IntentLapses, ProfileDeparts, Accept, LogoutAll, CredentialExpires,
                    DeletionLeaseEnds, CancelIntent, StartFails, ExpireIntent, Cancelled
<1> QED
  BY <1>2, <1>4, <1>5 DEF DeletionNext, DeleterStep, FencedStep

\* An operation is of one generation, that of the owner when it was asked for.
LEMMA OperationMoves ==
    ASSUME OperationOK, DeletionNext
    PROVE  \/ operation'.state = "none"
           \/ operation.state # "none" /\ operation'.gen = operation.gen
           \/ life.state = "active" /\ life' # life /\ operation'.gen = life.gen
<1> DEFINE Kept == \/ operation'.state = "none"
                   \/ operation.state # "none" /\ operation'.gen = operation.gen
<1> USE DEF Accepted
<1>1. CASE CreateIntent
  <2>1. /\ life.state = "active"
        /\ life' = [state |-> "deletion_pending", gen |-> life.gen + 1]
        /\ operation' = [NoOperation EXCEPT !.state = "intent", !.gen = life.gen]
    BY <1>1 DEF CreateIntent, Transition
  <2> QED
    BY <2>1 DEF NoOperation
<1>2. ASSUME operation' = operation
      PROVE  Kept
  BY <1>2
<1>3. ASSUME operation' = NoOperation
      PROVE  Kept
  BY <1>3 DEF NoOperation
<1>4. operation \in Operations
  BY DEF OperationOK
<1>5. ASSUME NEW d \in Deleters, FailDeletion(d)
      PROVE  Kept
  <2>1. OwnsDeletion(d) => operation.state # "none"
    BY DEF OwnsDeletion, OperationOK
  <2>2. [operation EXCEPT !.state = "retrying", !.lease = Nobody, !.expired = FALSE].gen
           = operation.gen
    BY <1>4 DEF Operations
  <2> QED
    BY <1>2, <1>5, <2>1, <2>2 DEF FailDeletion
<1>6. CASE ScheduleStep \/ StartOAuth \/ ReauthenticationFails \/ LogoutAll
           \/ \E d \in Deleters : DeleterCrashes(d)
  BY <1>2, <1>6 DEF ScheduleStep, StartOAuth, ReauthenticationFails, LogoutAll, DeleterCrashes
<1>7. CASE \/ ProfileDeparts
           \/ \E to \in Targets : CancelIntent(to) \/ StartFails(to) \/ ExpireIntent(to)
  BY <1>3, <1>7 DEF ProfileDeparts, CancelIntent, StartFails, ExpireIntent, Cancelled
<1>8. CASE Reauthenticate
  <2>1. operation.state = "intent"
    BY <1>8 DEF Reauthenticate, OperationOK, CredentialFits
  <2>2. [operation EXCEPT !.bound = TRUE].gen = operation.gen
    BY <1>4 DEF Operations
  <2> QED
    BY <1>2, <1>8, <2>1, <2>2 DEF Reauthenticate
<1>9. CASE IntentLapses \/ Accept
  <2>1. operation.state = "intent"
    BY <1>9 DEF IntentLapses, Accept
  <2>2. /\ [operation EXCEPT !.overdue = TRUE].gen = operation.gen
        /\ [operation EXCEPT !.state = "active"].gen = operation.gen
    BY <1>4 DEF Operations
  <2> QED
    BY <1>9, <2>1, <2>2 DEF IntentLapses, Accept
<1>10. CASE CredentialExpires \/ \E d \in Deleters : DeletionRefused(d)
  <2>1. operation.state # "none" /\ ReauthRequired
    BY <1>10 DEF CredentialExpires, DeletionRefused, MayDelete
  <2>2. [operation EXCEPT !.state = "reauth_required", !.bound = FALSE,
                          !.lease = Nobody, !.expired = FALSE].gen = operation.gen
    BY <1>4 DEF Operations
  <2> QED
    BY <2>1, <2>2 DEF ReauthRequired
<1>11. ASSUME NEW d \in Deleters, ClaimDeletion(d)
       PROVE  Kept
  <2>1. /\ operation.state # "none"
        /\ operation' = [operation EXCEPT !.lease = d, !.expired = FALSE]
    BY <1>11 DEF ClaimDeletion, Claimable
  <2>2. [operation EXCEPT !.lease = d, !.expired = FALSE].gen = operation.gen
    BY <1>4 DEF Operations
  <2> QED
    BY <2>1, <2>2
<1>12. CASE DeletionLeaseEnds
  <2>1. /\ operation.state # "none"
        /\ operation' = [operation EXCEPT !.expired = TRUE]
    BY <1>12 DEF DeletionLeaseEnds, OperationOK
  <2>2. [operation EXCEPT !.expired = TRUE].gen = operation.gen
    BY <1>4 DEF Operations
  <2> QED
    BY <2>1, <2>2
<1>13. ASSUME NEW d \in Deleters,
              \/ AdoptAttempts(d) \/ PurgePrivate(d) \/ DeleteRecords(d) \/ CheckSafety(d)
              \/ PurgeAccepted(d) \/ CompleteAccepted(d) \/ DeletionFails(d)
       PROVE  Kept
  <2>1. operation' = operation \/ operation' = NoOperation \/ FailDeletion(d)
    BY <1>13 DEF AdoptAttempts, PurgePrivate, DeleteRecords, CheckSafety, PurgeAccepted,
                 CompleteAccepted, DeletionFails
  <2> QED
    BY <1>2, <1>3, <1>5, <2>1
<1> QED
  BY <1>1, <1>6, <1>7, <1>8, <1>9, <1>10, <1>11, <1>12, <1>13
     DEF DeletionNext, DeleterStep, FencedStep

LEMMA LifeGrows ==
    ASSUME PostTypes, DeletionNext
    PROVE  life' = life \/ life'.gen = life.gen + 1
<1>1. CASE \E to \in States : Transition(to)
  BY <1>1 DEF Transition
<1>2. HostedStep
  BY DeletionHosts
<1>3. CASE Emptied \/ UNCHANGED hostedVars
  BY <1>3 DEF Emptied, hostedVars
<1>4. CASE Next
  <2>1. life' = life \/ \E to \in States : Move(to)
    BY <1>4, ZenonT(60)
    DEF Next, MediaStep, Create, Update, Save, PostNow, Delete, LeaseLapses, OutlivesLease,
         Expire, Age, ClaimDue, WorkerStep, Snapshot, Freeze, Acquire, Upload, Write, Answered,
         GiveUp, Finalize, NoAnswer, UploadFails, Crash, PreparationFails, Refused, Land, Lose,
         Sweep
  <2> QED
    BY <1>1, <2>1 DEF Move
<1> QED
  BY <1>1, <1>2, <1>3, <1>4 DEF HostedStep

LEMMA MovesKeepGenerations ==
    ASSUME PostTypes, DeletionInv, DeletionNext
    PROVE  GenerationsFit'
<1> SUFFICES ASSUME NEW p \in Posts
             PROVE  /\ post'[p].gen <= life'.gen
                    /\ operation'.state # "none" => post'[p].gen <= operation'.gen
  BY DEF GenerationsFit
<1>1. HostedStep
  BY DeletionHosts
<1>2. /\ life.gen \in Nat /\ post[p].gen \in Nat /\ operation.gen \in Nat
      /\ post[p].gen <= life.gen
      /\ operation.state # "none" => post[p].gen <= operation.gen
      /\ operation.state # "none" => life.state # "active"
  BY DEF PostTypes, PostsTyped, PostRows, DeletionInv, DeletionTypeOK, GenerationsFit, OperationFits,
         Accepted
<1>3. \/ post'[p].gen = post[p].gen
      \/ life.state = "active" /\ life' = life /\ post'[p].gen = life.gen
  BY <1>1, GenerationsStay
<1>4. post'[p].gen <= life'.gen
  BY <1>2, <1>3, LifeGrows
<1>5. operation'.state # "none" => post'[p].gen <= operation'.gen
  <2>1. OperationOK
    BY DeletionInvParts
  <2> QED
    BY <1>2, <1>3, <2>1, OperationMoves
<1> QED
  BY <1>4, <1>5

----------------------------------------------------------------------------
(* Theorems.                                                               *)

LEMMA DeletionStepInv ==
    ASSUME PostTypes, DeletionInv, [DeletionNext]_hostedDeletionVars
    PROVE  DeletionInv'
<1>1. CASE DeletionNext
  <2>1. OperationOK'
    BY <1>1, DeletionInvParts, MovesKeepOperation
  <2>2. Books' /\ deleter' \in [Deleters -> Deletions] /\ GenerationsFit'
    BY <1>1, MovesKeepBooks, MovesKeepDeleters, MovesKeepGenerations
  <2>3. DeletionTypeOK'
    BY <2>1, <2>2 DEF DeletionTypeOK, OperationOK, Books, Operations, Credentials, Deletions
  <2> QED
    BY <2>1, <2>2, <2>3 DEF DeletionInv, OperationOK
<1>2. CASE UNCHANGED hostedDeletionVars
  BY <1>2 DEF hostedDeletionVars, deletionVars, postVars, DeletionInv, DeletionTypeOK,
              OperationFits, CredentialFits, AcceptedHasCredential, Eligible, GenerationsFit
<1> QED
  BY <1>1, <1>2

LEMMA DeletionInvariance == HostedDeletionSpec => []DeletionInv
<1>1. DeletionInit => DeletionInv
  BY DeletionInitInv
<1>2. PostTypes /\ DeletionInv /\ [DeletionNext]_hostedDeletionVars => DeletionInv'
  BY DeletionStepInv
<1>3. HostedInv => PostTypes
  BY DEF HostedInv
<1> QED
  BY <1>1, <1>2, <1>3, ScheduleIsHostedByDeletion, HostedInvariance, PTL DEF HostedDeletionSpec

\* Every variable of the deletion has its shape.
THEOREM DeletionTypes == HostedDeletionSpec => []DeletionTypeOK
<1>1. DeletionInv => DeletionTypeOK
  BY DEF DeletionInv
<1> QED
  BY <1>1, DeletionInvariance, PTL

\* An accepted deletion has a credential with which it can be carried out.
THEOREM CredentialsLast == HostedDeletionSpec => []AcceptedHasCredential
<1>1. DeletionInv => AcceptedHasCredential
  BY DEF DeletionInv
<1> QED
  BY <1>1, DeletionInvariance, PTL

\* Only records are deleted that an accepted deletion is about.
LEMMA RecordsAreDeletedByRight ==
    ASSUME DeletionInv, DeletionNext
    PROVE  \A write \in repo \ repo' :
              life.state = "deleting" /\ post[write[1]].gen <= operation.gen
<1>1. ASSUME NEW d \in Deleters, DeleteRecords(d)
      PROVE  \A write \in repo \ repo' :
                life.state = "deleting" /\ post[write[1]].gen <= operation.gen
  <2>1. CASE MayDelete(d)
    <3>1. life.state = "deleting" /\ operation.state # "none"
      BY <2>1 DEF MayDelete, Accepted
    <3>2. repo \subseteq Posts \X (1..Versions)
      BY DEF DeletionInv, DeletionTypeOK
    <3> QED
      BY <3>1, <3>2 DEF DeletionInv, GenerationsFit
  <2>2. CASE ~MayDelete(d)
    BY <1>1, <2>2 DEF DeleteRecords
  <2> QED
    BY <2>1, <2>2
<1>2. CASE repo \subseteq repo'
  BY <1>2
<1>3. (repo \subseteq repo') \/ \E d \in Deleters : DeleteRecords(d)
  BY DEF DeletionNext, ScheduleStep, CreateIntent, StartOAuth, Reauthenticate,
         ReauthenticationFails, IntentLapses, ProfileDeparts, Accept, LogoutAll,
         CredentialExpires, DeletionLeaseEnds, CancelIntent, StartFails, ExpireIntent, Cancelled,
         DeleterStep, FencedStep, ClaimDeletion, AdoptAttempts, PurgePrivate, CheckSafety,
         PurgeAccepted, CompleteAccepted, DeletionRefused, DeletionFails, DeleterCrashes
<1> QED
  BY <1>1, <1>2, <1>3

\* A worker whose operation is over deletes nothing of a later membership.
THEOREM DeletionsAreByRight == HostedDeletionSpec => OnlyAcceptedDeletes
<1> DEFINE ByRight == \A write \in repo \ repo' :
                         life.state = "deleting" /\ post[write[1]].gen <= operation.gen
<1>1. DeletionInv /\ [DeletionNext]_hostedDeletionVars => [ByRight]_allVars
  <2>1. CASE DeletionNext
    BY <2>1, RecordsAreDeletedByRight
  <2>2. CASE UNCHANGED hostedDeletionVars
    BY <2>2 DEF hostedDeletionVars, deletionVars
  <2> QED
    BY <2>1, <2>2
<1> QED
  BY <1>1, DeletionInvariance, PTL DEF HostedDeletionSpec, OnlyAcceptedDeletes

----------------------------------------------------------------------------
(* What is left when a deletion completes.                                 *)

\* After the purge there is no row, and every put without an answer is adopted.
NothingPrivate(gen) ==
    /\ \A p \in Posts : post[p].state \notin Rows
    /\ \A m \in Media :
          /\ media[m].state = "none"
          /\ attempt[m] = "dispatched" /\ stagedIn[m] = gen => m \in unsettled.objects

\* After the records were deleted, only a write that is still open brings one.
RecordsAreOpen(gen) ==
    \A write \in repo : post[write[1]].gen = gen => command[write[1]][write[2]] = "open"

\* The worker is at the operation that is there; its claim is as old as the operation.
AtOperation(d) == life.state = "deleting" /\ deleter[d].gen = operation.gen
PastPurge == {"private", "delete", "check", "complete"}
PastDelete == {"check", "complete"}

LeftInv ==
    /\ life.state = "deleting" => \A u \in Uploaders : uploader[u].pc = "idle"
    /\ \A d \in Deleters :
          /\ deleter[d].pc # "idle" => deleter[d].gen + 2 <= life.gen
          /\ AtOperation(d) /\ deleter[d].pc \in PastPurge => NothingPrivate(operation.gen)
          /\ AtOperation(d) /\ deleter[d].pc \in PastDelete => RecordsAreOpen(operation.gen)

LEMMA LeftInitInv == DeletionInit => LeftInv
  BY DEF DeletionInit, Init, LeftInv, NoDeletion, PastPurge, PastDelete, AtOperation

\* The owner moves under the exclusive fence, which no request outlives.
LEMMA MovesAreFenced ==
    ASSUME MediaInv, HostedStep, life' # life
    PROVE  ExclusiveFence /\ UNCHANGED <<uploader>>
<1>1. CASE \E to \in States : Transition(to)
  BY <1>1 DEF Transition
<1>2. \E to \in States : Transition(to)
  BY ZenonT(60)
  DEF HostedStep, Emptied, hostedVars, Next, Move, MediaStep, Create, Update, Save, PostNow,
         Delete, LeaseLapses, OutlivesLease, Expire, Age, ClaimDue, WorkerStep, Snapshot, Freeze,
         Acquire, Upload, Write, Answered, GiveUp, Finalize, NoAnswer, UploadFails, Crash,
         PreparationFails, Refused, Land, Lose, Sweep
<1> QED
  BY <1>1, <1>2

\* Without requests and without an active owner, images only go.
LEMMA IdleKeepsImages ==
    ASSUME MediaInv, \A u \in Uploaders : uploader[u].pc = "idle", life.state = "deleting",
           HostedStep
    PROVE  /\ UNCHANGED uploader
           /\ \A m \in Media :
                 /\ media[m].state = "none" => media'[m].state = "none"
                 /\ attempt'[m] = "dispatched" => attempt[m] = "dispatched"
<1>1. /\ media \in [Media -> [state : {"none", "uploading", "ready"}, gen : Nat,
                              post : Posts \cup {Nobody}]]
      /\ attempt \in [Media -> {"none", "prepared", "dispatched", "accepted"}]
  BY DEF MediaInv, MediaTypes, MediaTypeOK
<1> DEFINE Kept == /\ UNCHANGED uploader
                   /\ \A m \in Media :
                         /\ media[m].state = "none" => media'[m].state = "none"
                         /\ attempt'[m] = "dispatched" => attempt[m] = "dispatched"
<1>2. ASSUME UNCHANGED <<uploader, attempt>>, NEW ms, Discard(ms)
      PROVE  Kept
  BY <1>2 DEF Discard, Rowless, NoMedia
<1>3. ASSUME UNCHANGED <<uploader, attempt, media>>
      PROVE  Kept
  BY <1>3
<1>4. CASE MediaStep
  <2>1. ASSUME NEW u \in Uploaders
        PROVE  /\ \A n \in Media : ~Reserve(u, n)
               /\ ~Dispatch(u) /\ ~PutSucceeds(u) /\ ~PutFails(u) /\ ~MarkReady(u)
               /\ ~MoveToCleanup(u) /\ ~UploadCrashes(u)
    BY DEF Reserve, Dispatch, PutSucceeds, PutFails, MarkReady, MoveToCleanup, UploadCrashes
  <2>2. CASE \E n \in Media : DeleteImage(n)
    BY <1>2, <2>2 DEF DeleteImage
  <2>3. CASE \E n \in Media : LandLate(n) \/ LoseLate(n) \/ Tick(n) \/ LeaseEnds(n)
    BY <1>3, <2>3 DEF LandLate, LoseLate, Tick, LeaseEnds
  <2>4. ASSUME NEW c \in Cleaners, Conclude(c)
        PROVE  Kept
    BY <1>1, <2>4 DEF Conclude
  <2>5. CASE \E c \in Cleaners : \/ ClaimCleanup(c) \/ DeleteObject(c) \/ LookAgain(c)
                                 \/ AcquireCleanup(c) \/ DeleteFails(c) \/ CleanerCrashes(c)
    BY <1>3, <2>5 DEF ClaimCleanup, DeleteObject, LookAgain, AcquireCleanup, DeleteFails,
                      CleanerCrashes
  <2> QED
    BY <1>4, <2>1, <2>2, <2>3, <2>4, <2>5 DEF MediaStep, MediaNext, CleanerStep
<1>5. ASSUME NEW p \in Posts, NEW images \in SUBSET Media
      PROVE  /\ ~Create(p, images) /\ ~Update(p, images) /\ ~Delete(p)
             /\ \A w \in Workers : ~PostNow(w, p, images)
  <2>1. ~ActiveIn(post[p].gen)
    BY DEF ActiveIn
  <2> QED
    BY <2>1 DEF Create, Update, PostNow, Delete, Save, MaySave
<1>6. CASE \/ \E c \in Cleaners : Sweep(c)
           \/ \E to \in States : Transition(to)
           \/ Emptied
  BY <1>2, <1>6 DEF Sweep, Transition, Emptied
<1>7. ASSUME NEW w \in Workers, Finalize(w)
      PROVE  Kept
  BY <1>2, <1>3, <1>7 DEF Finalize
<1>8. CASE UNCHANGED mediaVars
  BY <1>3, <1>8 DEF mediaVars
<1>9. \/ MediaStep \/ Emptied \/ UNCHANGED mediaVars
      \/ \E p \in Posts, images \in SUBSET Media :
            \/ Create(p, images) \/ Update(p, images) \/ Delete(p)
            \/ \E w \in Workers : PostNow(w, p, images)
      \/ \E c \in Cleaners : Sweep(c)
      \/ \E to \in States : Transition(to)
      \/ \E w \in Workers : Finalize(w)
  BY DEF HostedStep, Next, Move, LeaseLapses, Expire, Age, ClaimDue, WorkerStep, Snapshot, Freeze,
         Acquire, Upload, Write, Answered, GiveUp, NoAnswer, UploadFails, Crash, OutlivesLease,
         PreparationFails, Refused, Land, Lose, hostedVars
<1> QED
  BY <1>4, <1>5, <1>6, <1>7, <1>8, <1>9

\* Nothing is published, and no command is settled, while nobody may publish.
LEMMA IdleKeepsCommands ==
    ASSUME PostTypes, WriteInv, LockInv, life.state = "deleting", HostedStep
    PROVE  /\ UNCHANGED command
           /\ \A write \in wire : command[write[1]][write[2]] = "open"
           /\ \A p \in Posts : post[p].state \notin Rows => post'[p].state \notin Rows
<1>1. \A w \in Workers : ~Publishing(w)
  BY DEF LockInv, ActiveIn
<1>2. \A write \in wire : command[write[1]][write[2]] = "open"
  <2> SUFFICES ASSUME NEW write \in wire
               PROVE  command[write[1]][write[2]] = "open"
    OBVIOUS
  <2>1. PICK p \in Posts, v \in 1..Versions : write = <<p, v>>
    BY DEF PostTypes, WritesTyped
  <2> QED
    BY <2>1 DEF WriteInv, WriteOnce
<1>3. \A gen : ~ActiveIn(gen)
  BY DEF ActiveIn
<1>4. \A w \in Workers : ~Owns(w)
  BY <1>3 DEF Owns
<1>5. UNCHANGED command
  <2>1. ASSUME NEW w \in Workers
        PROVE  /\ ~Write(w) /\ ~Answered(w)
               /\ \A permanent \in BOOLEAN : ~Refused(w, permanent)
    BY <1>1 DEF Publishing, Write, Answered, Refused
  <2> QED
    BY <2>1, ZenonT(60)
    DEF HostedStep, Emptied, Transition, hostedVars, postVars, Next, Move, MediaStep, Create,
         Update, Save, PostNow, Delete, LeaseLapses, OutlivesLease, Expire, Age, ClaimDue,
         WorkerStep, Snapshot, Freeze, Acquire, Upload, GiveUp, Finalize, NoAnswer, UploadFails,
         Crash, PreparationFails, Land, Lose, Sweep
<1>6. ASSUME NEW p \in Posts, post[p].state \notin Rows
      PROVE  post'[p].state \notin Rows
  <2>0. post \in [Posts -> PostRows] /\ \A q \in Posts : Gone(q).state \notin Rows
    BY DEF PostTypes, PostsTyped, Gone, NoPost, Rows, Mutable
  <2>1. ASSUME UNCHANGED post
        PROVE  post'[p].state \notin Rows
    BY <1>6, <2>1
  <2>2. ASSUME NEW some, post' = [q \in Posts |-> IF q \in some THEN Gone(q) ELSE post[q]]
        PROVE  post'[p].state \notin Rows
    BY <1>6, <2>0, <2>2
  <2>3. ASSUME NEW q \in Posts, NEW images \in SUBSET Media
        PROVE  /\ ~Create(q, images) /\ ~Update(q, images) /\ ~Delete(q)
               /\ \A w \in Workers : ~PostNow(w, q, images)
    BY <1>3 DEF Create, Update, PostNow, Delete, Save, MaySave
  <2>4. ASSUME NEW w \in Workers
        PROVE  ~ClaimDue(w) /\ ~OutlivesLease(w)
    <3>1. Finals(RecoveredPosts) = {} /\ Due(RecoveredPosts) = {}
      BY <1>3 DEF Finals, Due
    <3> QED
      BY <1>4, <3>1 DEF ClaimDue, OutlivesLease
  <2>5. ASSUME NEW w \in Workers, NEW permanent \in BOOLEAN, Fail(w, permanent)
        PROVE  UNCHANGED post
    BY <1>4, <2>5 DEF Fail
  <2>6. ASSUME NEW w \in Workers,
               \/ WorkerStep(w) \/ NoAnswer(w) \/ UploadFails(w) \/ Crash(w)
               \/ \E permanent \in BOOLEAN : PreparationFails(w, permanent) \/ Refused(w, permanent)
        PROVE  UNCHANGED post
    BY <1>4, <2>5, <2>6 DEF WorkerStep, Snapshot, Freeze, Acquire, Upload, Write, Answered, GiveUp,
                            Finalize, NoAnswer, UploadFails, Crash, PreparationFails, Refused
  <2>7. ASSUME NEW q \in Posts, LeaseLapses(q) \/ Age(q)
        PROVE  post'[p].state \notin Rows
    BY <1>6, <2>0, <2>7 DEF LeaseLapses, Expire, Age, PostRows
  <2>8. CASE \/ \E c \in Cleaners : Sweep(c)
             \/ \E to \in States : Transition(to)
    BY <2>2, <2>8 DEF Sweep, Transition
  <2>9. CASE Emptied
    BY <1>6, <2>0, <2>9 DEF Emptied
  <2>10. CASE \/ MediaStep \/ UNCHANGED hostedVars
              \/ \E write \in wire : Land(write) \/ Lose(write)
    BY <2>1, <2>10 DEF MediaStep, hostedVars, postVars, Land, Lose
  <2> QED
    BY <2>1, <2>3, <2>4, <2>6, <2>7, <2>8, <2>9, <2>10 DEF HostedStep, Next, Move
<1> QED
  BY <1>2, <1>5, <1>6

\* A worker goes through the phases of its operation one by one.
LEMMA DeletersAdvance ==
    ASSUME DeletionInv, DeletionNext, NEW d \in Deleters
    PROVE  /\ deleter'[d].pc # "idle" =>
                 \/ ClaimDeletion(d) /\ deleter'[d].gen = operation.gen
                 \/ deleter[d].pc # "idle" /\ deleter'[d].gen = deleter[d].gen
           /\ deleter'[d].pc \in PastPurge =>
                 \/ deleter[d].pc \in PastPurge
                 \/ PurgeAccepted(d) /\ Deleting(d, "private")
           /\ deleter'[d].pc \in PastDelete =>
                 deleter[d].pc \in PastDelete \/ repo' = {}
<1> DEFINE Advanced ==
             /\ deleter'[d].pc # "idle" =>
                   \/ ClaimDeletion(d) /\ deleter'[d].gen = operation.gen
                   \/ deleter[d].pc # "idle" /\ deleter'[d].gen = deleter[d].gen
             /\ deleter'[d].pc \in PastPurge =>
                   \/ deleter[d].pc \in PastPurge
                   \/ PurgeAccepted(d) /\ Deleting(d, "private")
             /\ deleter'[d].pc \in PastDelete =>
                   deleter[d].pc \in PastDelete \/ repo' = {}
<1> USE DEF PastPurge, PastDelete
<1>0. deleter \in [Deleters -> Deletions]
  BY DeletionInvParts
<1>1. ASSUME deleter'[d] = deleter[d]
      PROVE  Advanced
  BY <1>1
<1>2. ASSUME NEW e \in Deleters,
             StopDeleting(e) \/ \E claim : deleter' = [deleter EXCEPT ![e] = claim], e # d
      PROVE  Advanced
  BY <1>0, <1>1, <1>2 DEF StopDeleting
<1>3. ASSUME StopDeleting(d)
      PROVE  Advanced
  BY <1>0, <1>3 DEF StopDeleting, NoDeletion
<1>4. ASSUME NEW pc \in {"purge", "private", "delete", "check", "complete"}, Deleting(d, pc)
      PROVE  deleter'[d].pc = pc /\ deleter'[d].gen = deleter[d].gen
  BY <1>0, <1>4 DEF Deleting, Deletions
<1>5. ASSUME NEW e \in Deleters,
             \/ DeleterStep(e) \/ FencedStep(e) \/ DeletionRefused(e)
             \/ DeletionFails(e) \/ DeleterCrashes(e)
      PROVE  Advanced
  <2>1. CASE e # d
    <3>1. \/ StopDeleting(e) \/ UNCHANGED deleter
          \/ \E claim : deleter' = [deleter EXCEPT ![e] = claim]
      BY <1>5 DEF DeleterStep, ClaimDeletion, AdoptAttempts, PurgePrivate, DeleteRecords, CheckSafety,
                  FencedStep, PurgeAccepted, CompleteAccepted, DeletionRefused, DeletionFails,
                  DeleterCrashes, FailDeletion, Deleting
    <3> QED
      BY <1>1, <1>2, <2>1, <3>1
  <2>2. CASE ClaimDeletion(d)
    <3>1. deleter'[d] = [pc |-> "adopt", gen |-> operation.gen]
      BY <1>0, <2>2 DEF ClaimDeletion
    <3> QED
      BY <2>2, <3>1
  <2>3. CASE AdoptAttempts(d)
    BY <1>3, <1>4, <2>3 DEF AdoptAttempts, FailDeletion
  <2>4. CASE PurgeAccepted(d)
    BY <1>3, <1>4, <2>4 DEF PurgeAccepted, FailDeletion
  <2>5. CASE PurgePrivate(d)
    BY <1>3, <1>4, <2>5 DEF PurgePrivate, FailDeletion
  <2>6. CASE DeleteRecords(d)
    BY <1>3, <1>4, <2>6 DEF DeleteRecords, FailDeletion
  <2>7. CASE CheckSafety(d)
    BY <1>3, <1>4, <2>7 DEF CheckSafety, FailDeletion
  <2>8. CASE CompleteAccepted(d) \/ DeletionRefused(d) \/ DeletionFails(d) \/ DeleterCrashes(d)
    <3>1. StopDeleting(d)
      BY <2>8 DEF CompleteAccepted, DeletionRefused, DeletionFails, DeleterCrashes, FailDeletion
    <3> QED
      BY <1>3, <3>1
  <2> QED
    BY <1>5, <2>1, <2>2, <2>3, <2>4, <2>5, <2>6, <2>7, <2>8 DEF DeleterStep, FencedStep
<1>6. CASE \/ ScheduleStep \/ CreateIntent \/ StartOAuth \/ Reauthenticate
           \/ ReauthenticationFails \/ IntentLapses \/ ProfileDeparts \/ Accept \/ LogoutAll
           \/ CredentialExpires \/ DeletionLeaseEnds
           \/ \E to \in Targets : CancelIntent(to) \/ StartFails(to) \/ ExpireIntent(to)
  BY <1>1, <1>6 DEF ScheduleStep, CreateIntent, StartOAuth, Reauthenticate, ReauthenticationFails,
                    IntentLapses, ProfileDeparts, Accept, LogoutAll, CredentialExpires,
                    DeletionLeaseEnds, CancelIntent, StartFails, ExpireIntent, Cancelled
<1> QED
  BY <1>5, <1>6 DEF DeletionNext

\* What becomes of records, and of puts that were adopted.
LEMMA BooksAdvance ==
    ASSUME DeletionInv, DeletionNext
    PROVE  /\ repo' \subseteq repo \cup wire
           /\ \A m \in Media :
                 /\ m \in unsettled.objects /\ attempt'[m] # "none" => m \in unsettled'.objects
                 /\ media'[m].state = "none" => stagedIn'[m] = stagedIn[m]
<1> DEFINE Kept == /\ repo' \subseteq repo \cup wire
                   /\ \A m \in Media :
                         /\ m \in unsettled.objects /\ attempt'[m] # "none" =>
                               m \in unsettled'.objects
                         /\ media'[m].state = "none" => stagedIn'[m] = stagedIn[m]
<1>0. unsettled \in [writes : SUBSET (Posts \X (1..Versions)), objects : SUBSET Media]
  BY DEF DeletionInv, DeletionTypeOK
<1>1. ASSUME UNCHANGED <<repo, stagedIn>>, UNCHANGED unsettled \/ \E gen : Adopted(gen)
      PROVE  Kept
  BY <1>0, <1>1 DEF Adopted
<1>2. CASE ScheduleStep
  BY <1>0, <1>2 DEF ScheduleStep
<1>3. ASSUME NEW d \in Deleters, PurgeAccepted(d)
      PROVE  Kept
  BY <1>0, <1>3 DEF PurgeAccepted
<1>4. ASSUME NEW d \in Deleters, DeleteRecords(d)
      PROVE  Kept
  BY <1>1, <1>4 DEF DeleteRecords
<1>5. CASE \/ CreateIntent \/ StartOAuth \/ Reauthenticate
           \/ ReauthenticationFails \/ IntentLapses \/ ProfileDeparts \/ Accept \/ LogoutAll
           \/ CredentialExpires \/ DeletionLeaseEnds
           \/ \E to \in Targets : CancelIntent(to) \/ StartFails(to) \/ ExpireIntent(to)
  BY <1>1, <1>5 DEF CreateIntent, StartOAuth, Reauthenticate, ReauthenticationFails,
                    IntentLapses, ProfileDeparts, Accept, LogoutAll, CredentialExpires,
                    DeletionLeaseEnds, CancelIntent, StartFails, ExpireIntent, Cancelled
<1>6. ASSUME NEW d \in Deleters,
             \/ ClaimDeletion(d) \/ AdoptAttempts(d) \/ PurgePrivate(d) \/ CheckSafety(d)
             \/ CompleteAccepted(d) \/ DeletionRefused(d) \/ DeletionFails(d) \/ DeleterCrashes(d)
      PROVE  Kept
  BY <1>1, <1>6 DEF ClaimDeletion, AdoptAttempts, PurgePrivate, CheckSafety, CompleteAccepted,
                    DeletionRefused, DeletionFails, DeleterCrashes
<1> QED
  BY <1>2, <1>3, <1>4, <1>5, <1>6 DEF DeletionNext, DeleterStep, FencedStep

\* Within a deletion the owner stays where it is, in one operation.
LEMMA DeletionIsOne ==
    ASSUME PostTypes, DeletionInv, DeletionInv', DeletionNext,
           life.state = "deleting", life'.state = "deleting"
    PROVE  life' = life /\ operation'.gen = operation.gen
<1>1. /\ operation.state # "none" /\ life.gen = operation.gen + 2
      /\ operation'.state # "none" /\ life'.gen = operation'.gen + 2
  BY DEF DeletionInv, DeletionTypeOK, OperationFits, OfDeletion, Accepted
<1>2. operation'.gen = operation.gen
  BY <1>1, OperationMoves, DeletionInvParts
<1>3. life.gen \in Nat
  BY DEF PostTypes
<1> QED
  BY <1>1, <1>2, <1>3, LifeGrows

LEMMA PurgeLeavesNothing ==
    ASSUME MediaInv, PostTypes, DeletionInv, NEW d \in Deleters, PurgeAccepted(d),
           Deleting(d, "private")
    PROVE  NothingPrivate(deleter[d].gen)'
<1>1. deleter'[d].pc = "private" /\ deleter'[d].gen = deleter[d].gen
  BY DEF Deleting, Deletions, DeletionInv, DeletionTypeOK
<1>2. /\ unsettled' = [unsettled EXCEPT !.objects = @ \cup UncertainObjects(deleter[d].gen)]
      /\ post' = [p \in Posts |-> IF post[p].state \in Rows THEN Gone(p) ELSE post[p]]
      /\ Discard({m \in Media : media[m].state # "none"})
      /\ UNCHANGED <<attempt, stagedIn>>
  <2>1. ~FailDeletion(d)
    BY <1>1 DEF FailDeletion, StopDeleting, NoDeletion, DeletionInv, DeletionTypeOK
  <2> QED
    BY <2>1 DEF PurgeAccepted
<1>3. \A p \in Posts : post'[p].state \notin Rows
  BY <1>2 DEF Gone, NoPost, Rows, Mutable
<1>4. \A m \in Media : media'[m].state = "none"
  BY <1>2 DEF Discard, Rowless, NoMedia
<1>5. UncertainObjects(deleter[d].gen) \subseteq unsettled'.objects
  BY <1>2 DEF DeletionInv, DeletionTypeOK
<1> QED
  BY <1>1, <1>2, <1>3, <1>4, <1>5 DEF NothingPrivate, UncertainObjects

LEMMA LeftStepInv ==
    ASSUME HostedInv, DeletionInv, DeletionInv', LeftInv, DeletionNext
    PROVE  LeftInv'
<1>1. HostedStep /\ MediaInv /\ PostTypes /\ WriteInv /\ LockInv
  BY DeletionHosts DEF HostedInv
<1>2. life.gen \in Nat /\ operation.gen \in Nat /\ deleter \in [Deleters -> Deletions]
  BY <1>1, DeletionInvParts DEF PostTypes, OperationOK, Operations
<1>3. ASSUME life'.state = "deleting"
      PROVE  \A u \in Uploaders : uploader'[u].pc = "idle"
  <2>1. CASE life' = life
    BY <1>1, <1>3, <2>1, IdleKeepsImages DEF LeftInv
  <2>2. CASE life' # life
    BY <1>1, <2>2, MovesAreFenced DEF ExclusiveFence, MediaFenced
  <2> QED
    BY <2>1, <2>2
<1>4. ASSUME NEW d \in Deleters, deleter'[d].pc # "idle"
      PROVE  deleter'[d].gen + 2 <= life'.gen
  <2>1. CASE ClaimDeletion(d) /\ deleter'[d].gen = operation.gen
    <3>1. operation.state \in Accepted /\ life' = life
      BY <2>1 DEF ClaimDeletion, Claimable, scheduleVars
    <3>2. life.gen = operation.gen + 2
      BY <3>1 DEF DeletionInv, OperationFits
    <3> QED
      BY <1>2, <2>1, <3>1, <3>2
  <2>2. CASE deleter[d].pc # "idle" /\ deleter'[d].gen = deleter[d].gen
    <3>1. deleter[d].gen \in Nat /\ deleter[d].gen + 2 <= life.gen
      BY <1>2, <2>2 DEF LeftInv, Deletions
    <3> QED
      BY <1>1, <1>2, <2>2, <3>1, LifeGrows
  <2> QED
    BY <1>4, <2>1, <2>2, DeletersAdvance
<1>5. ASSUME NEW d \in Deleters, AtOperation(d)', deleter'[d].pc \in PastPurge
      PROVE  /\ NothingPrivate(operation.gen)'
             /\ deleter'[d].pc \in PastDelete => RecordsAreOpen(operation.gen)'
  <2>1. /\ deleter[d].pc # "idle" /\ deleter'[d].gen = deleter[d].gen
        /\ deleter[d].pc \in PastPurge \/ (PurgeAccepted(d) /\ Deleting(d, "private"))
        /\ deleter'[d].pc \in PastDelete => deleter[d].pc \in PastDelete \/ repo' = {}
    <3>1. ~ClaimDeletion(d)
      BY <1>2, <1>5 DEF ClaimDeletion, PastPurge
    <3>2. deleter'[d].pc # "idle"
      BY <1>5 DEF PastPurge
    <3> QED
      BY <1>5, <3>1, <3>2, DeletersAdvance
  <2>2. life'.state = "deleting" /\ deleter'[d].gen = operation'.gen
    BY <1>5 DEF AtOperation
  <2>3. life.state = "deleting"
    <3>1. life'.gen = operation'.gen + 2
      BY <2>2 DEF DeletionInv, OperationFits, OfDeletion, DeletionTypeOK, Accepted
    <3>2. deleter[d].gen + 2 <= life.gen /\ deleter[d].gen \in Nat
      BY <1>2, <2>1 DEF LeftInv, Deletions
    <3>3. life' = life
      BY <1>1, <1>2, <2>1, <2>2, <3>1, <3>2, LifeGrows
    <3> QED
      BY <2>2, <3>3
  <2>4. life' = life /\ operation'.gen = operation.gen
    BY <1>1, <2>2, <2>3, DeletionIsOne
  <2>5. AtOperation(d)
    BY <2>1, <2>2, <2>3, <2>4 DEF AtOperation
  <2>6. PICK gen \in Nat : gen = operation.gen
    BY <1>2
  <2>7. /\ UNCHANGED uploader
        /\ \A m \in Media :
              /\ media[m].state = "none" => media'[m].state = "none"
              /\ attempt'[m] = "dispatched" => attempt[m] = "dispatched"
    BY <1>1, <2>3, IdleKeepsImages DEF LeftInv
  <2>8. /\ UNCHANGED command
        /\ \A write \in wire : command[write[1]][write[2]] = "open"
        /\ \A p \in Posts : post[p].state \notin Rows => post'[p].state \notin Rows
    BY <1>1, <2>3, IdleKeepsCommands
  <2>9. NothingPrivate(gen)'
    <3>1. CASE deleter[d].pc \in PastPurge
      <4>1. NothingPrivate(gen)
        BY <2>5, <2>6, <3>1 DEF LeftInv
      <4>2. ASSUME NEW m \in Media, attempt'[m] = "dispatched", stagedIn'[m] = gen
            PROVE  m \in unsettled'.objects
        <5>1. stagedIn[m] = gen /\ attempt[m] = "dispatched"
          BY <2>7, <4>1, <4>2, BooksAdvance DEF NothingPrivate
        <5> QED
          BY <4>1, <4>2, <5>1, BooksAdvance DEF NothingPrivate
      <4> QED
        BY <2>7, <2>8, <4>1, <4>2 DEF NothingPrivate
    <3>2. CASE PurgeAccepted(d) /\ Deleting(d, "private")
      <4>1. NothingPrivate(deleter[d].gen)'
        BY <1>1, <3>2, PurgeLeavesNothing
      <4>2. deleter'[d].gen = gen
        BY <2>2, <2>4, <2>6
      <4> QED
        BY <4>1, <4>2 DEF NothingPrivate
    <3> QED
      BY <2>1, <3>1, <3>2
  <2>10. ASSUME deleter'[d].pc \in PastDelete
         PROVE  RecordsAreOpen(gen)'
    <3>1. CASE repo' = {}
      BY <3>1 DEF RecordsAreOpen
    <3>2. CASE deleter[d].pc \in PastDelete
      <4>1. RecordsAreOpen(gen)
        BY <2>5, <2>6, <3>2 DEF LeftInv
      <4>2. ASSUME NEW write \in repo', post'[write[1]].gen = gen
            PROVE  command[write[1]][write[2]] = "open"
        <5>1. CASE write \in wire
          BY <2>8, <5>1
        <5>2. CASE write \in repo
          <6>1. PICK p \in Posts : p = write[1]
            BY <5>2, DeletionInvParts DEF Books
          <6>2. post'[p].gen = post[p].gen
            BY <1>1, <2>3, GenerationsStay
          <6> QED
            BY <4>1, <4>2, <5>2, <6>1, <6>2 DEF RecordsAreOpen
        <5> QED
          BY <4>2, <5>1, <5>2, BooksAdvance
      <4> QED
        BY <2>8, <4>2 DEF RecordsAreOpen
    <3> QED
      BY <2>1, <2>10, <3>1, <3>2
  <2>11. operation'.gen = gen
    BY <2>4, <2>6
  <2> QED
    BY <2>9, <2>10, <2>11 DEF NothingPrivate, RecordsAreOpen
<1>6. PastDelete \subseteq PastPurge
  BY DEF PastDelete, PastPurge
<1> QED
  BY <1>3, <1>4, <1>5, <1>6 DEF LeftInv

LEMMA LeftInvariance == HostedDeletionSpec => []LeftInv
<1>1. HostedInv /\ DeletionInv /\ DeletionInv' /\ LeftInv /\ [DeletionNext]_hostedDeletionVars
         => LeftInv'
  <2>1. CASE UNCHANGED hostedDeletionVars
    BY <2>1 DEF hostedDeletionVars, mediaVars, postVars, deletionVars, LeftInv, AtOperation,
                NothingPrivate, RecordsAreOpen
  <2> QED
    BY <2>1, LeftStepInv
<1> QED
  BY <1>1, LeftInitInv, DeletionInvariance, ScheduleIsHostedByDeletion, HostedInvariance, PTL
     DEF HostedDeletionSpec

\* Only a completion takes the owner out of a deletion.
LEMMA DeletionsAreCompleted ==
    ASSUME DeletionNext, life.state = "deleting", life'.state = "departed"
    PROVE  \E d \in Deleters : /\ deleter[d].pc = "complete"
                               /\ OwnsDeletion(d) /\ SafetySettled
<1>1. ASSUME NEW d \in Deleters, CompleteAccepted(d)
      PROVE  deleter[d].pc = "complete" /\ OwnsDeletion(d) /\ SafetySettled
  BY <1>1 DEF CompleteAccepted
<1>2. ~ScheduleStep
  BY ScheduleMoves DEF ScheduleStep, OfDeletion
<1>3. /\ ~CreateIntent /\ ~ProfileDeparts /\ ~Accept
      /\ \A to \in Targets : ~CancelIntent(to) /\ ~StartFails(to) /\ ~ExpireIntent(to)
  BY DEF CreateIntent, ProfileDeparts, Accept, CancelIntent, StartFails, ExpireIntent, Cancelled
<1>4. \/ life' = life
      \/ ScheduleStep \/ CreateIntent \/ ProfileDeparts \/ Accept
      \/ \E to \in Targets : CancelIntent(to) \/ StartFails(to) \/ ExpireIntent(to)
      \/ \E d \in Deleters : CompleteAccepted(d)
  BY DEF DeletionNext, StartOAuth, Reauthenticate, ReauthenticationFails, IntentLapses, LogoutAll,
         CredentialExpires, DeletionLeaseEnds, DeleterStep, FencedStep, ClaimDeletion,
         AdoptAttempts, PurgePrivate, DeleteRecords, CheckSafety, PurgeAccepted, DeletionRefused,
         DeletionFails, DeleterCrashes, scheduleVars
<1> QED
  BY <1>1, <1>2, <1>3, <1>4

\* When a deletion completes, nothing is left of it or can still come.
THEOREM DeletionsLeaveNothing == HostedDeletionSpec => NothingIsLeft
<1> DEFINE Clear == life.state = "deleting" /\ life'.state = "departed" =>
              /\ \A write \in repo \cup wire : post[write[1]].gen # operation.gen
              /\ \A p \in Posts : post[p].state \notin Rows
              /\ \A m \in Media : stagedIn[m] = operation.gen =>
                    /\ media[m].state = "none" /\ m \notin late
                    /\ m \in object => job[m].state # "none"
<1>1. ASSUME HostedInv, DeletionInv, LeftInv, ImagesInv, NothingForgotten, DeletionNext
      PROVE  Clear
  <2> SUFFICES ASSUME life.state = "deleting", life'.state = "departed"
               PROVE  Clear
    OBVIOUS
  <2>1. PICK d \in Deleters : deleter[d].pc = "complete" /\ OwnsDeletion(d) /\ SafetySettled
    BY <1>1, DeletionsAreCompleted
  <2>2. NothingPrivate(operation.gen) /\ RecordsAreOpen(operation.gen)
    BY <1>1, <2>1 DEF LeftInv, AtOperation, OwnsDeletion, PastPurge, PastDelete
  <2>3. unsettled.objects = {} /\ OpenWrites(operation.gen) = {}
    BY <2>1 DEF SafetySettled, NothingUnsettled
  <2>4. ASSUME NEW write \in repo \cup wire, post[write[1]].gen = operation.gen
        PROVE  FALSE
    <3>1. write \in Posts \X (1..Versions)
      BY <1>1 DEF DeletionInv, DeletionTypeOK, HostedInv, PostTypes, WritesTyped
    <3>2. command[write[1]][write[2]] = "open"
      <4>1. CASE write \in repo
        BY <2>2, <2>4, <4>1 DEF RecordsAreOpen
      <4>2. CASE write \in wire
        BY <1>1, <3>1, <4>2 DEF HostedInv, WriteInv, WriteOnce
      <4> QED
        BY <4>1, <4>2
    <3>3. write \in OpenWrites(operation.gen)
      BY <2>4, <3>1, <3>2 DEF OpenWrites
    <3> QED
      BY <2>3, <3>3
  <2>5. ASSUME NEW m \in Media, stagedIn[m] = operation.gen
        PROVE  /\ media[m].state = "none" /\ m \notin late
               /\ m \in object => job[m].state # "none"
    <3>1. media[m].state = "none" /\ attempt[m] # "dispatched"
      BY <2>2, <2>3, <2>5 DEF NothingPrivate
    <3>2. m \notin late
      BY <1>1, <3>1 DEF ImagesInv, ImageInv
    <3> QED
      BY <1>1, <3>1, <3>2 DEF NothingForgotten
  <2> QED
    BY <2>2, <2>4, <2>5 DEF NothingPrivate
<1>2. HostedInv /\ DeletionInv /\ LeftInv /\ ImagesInv /\ NothingForgotten
         /\ [DeletionNext]_hostedDeletionVars => [Clear]_allVars
  <2>1. CASE UNCHANGED hostedDeletionVars
    BY <2>1 DEF hostedDeletionVars
  <2> QED
    BY <1>1, <2>1
<1> QED
  BY <1>2, DeletionInvariance, LeftInvariance, ScheduleIsHostedByDeletion, HostedInvariance,
     ImagesInvariance, NoImageIsForgotten, PTL DEF HostedDeletionSpec, NothingIsLeft

=============================================================================
