--------------------------- MODULE AccountDeletion ---------------------------
(***************************************************************************)
(* The deletion of an account (appview/internal/accountdeletion, with the  *)
(* sessions of appview/internal/auth).  A member asks for it and signs in  *)
(* again; that session becomes the credential of the deletion, and nothing *)
(* else may use it.  Until the member confirms, the intent may be          *)
(* cancelled or expire.  Once it is accepted, a worker deletes the         *)
(* schedule, the private rows and every record on the PDS, and completes   *)
(* when no write or put of the deleted generation can still land.          *)
(*                                                                         *)
(* It is composed with the schedule, whose writes and images it has to     *)
(* outlive.  An operation is named by the generation that it deletes.      *)
(* Posts stand for all records; sessions other than the credential, and    *)
(* the private rows, are abstracted.                                       *)
(***************************************************************************)
EXTENDS ScheduledPosts

CONSTANT Deleters   \* deletion workers

ASSUME DeletionConstants == Nobody \notin Deleters

\* Only a deletion moves the owner into and out of its own states.
OfDeletion == {"deletion_pending", "deleting"}
ASSUME DeletionMoves ==
    \A move \in Moves : move[1] \notin OfDeletion /\ move[2] \notin OfDeletion

VARIABLES
    epoch,       \* owner_lifecycles: auth_epoch
    operation,   \* account_deletion_operations
    credential,  \* the OAuth request of the operation, and the session it became
    unsettled,   \* account_deletion_safety_tombstones that are not settled
    repo,        \* records on the PDS
    stagedIn,    \* scheduled_post_object_attempts: owner_generation
    deleter      \* per worker, where it is in the operation it claimed

scheduleVars == <<life, budget, mediaVars, postVars>>
deletionVars == <<epoch, operation, credential, unsettled, repo, stagedIn, deleter>>
allVars == <<scheduleVars, deletionVars>>

Accepted == {"active", "retrying"}

NoOperation == [state |-> "none", gen |-> 0, bound |-> FALSE, overdue |-> FALSE,
                lease |-> Nobody, expired |-> FALSE]
NoCredential == [state |-> "none", gen |-> 0, epoch |-> 0]
NothingUnsettled == [writes |-> {}, objects |-> {}]
NoDeletion == [pc |-> "idle", gen |-> 0]

Revoked == [credential EXCEPT !.state = "over"]

DeletionInit ==
    /\ Init
    /\ epoch = 1
    /\ operation = NoOperation
    /\ credential = NoCredential
    /\ unsettled = NothingUnsettled
    /\ repo = {}
    /\ stagedIn = [m \in Media |-> 0]
    /\ deleter = [d \in Deleters |-> NoDeletion]

----------------------------------------------------------------------------
(* The intent.                                                             *)

\* CreateIntent, up to the start of the sign-in.
CreateIntent ==
    /\ life.state = "active" /\ Deleters \cap budget.present # {}
    /\ operation = NoOperation
    /\ MayMove
    /\ Transition("deletion_pending")
    /\ operation' = [NoOperation EXCEPT !.state = "intent", !.gen = life.gen]
    /\ credential' = [NoCredential EXCEPT !.state = "asked"]
    /\ UNCHANGED <<epoch, unsettled, repo, stagedIn, deleter>>

\* startAccountDeletion saves the request.
StartOAuth ==
    /\ credential.state = "asked"
    /\ operation.state = "intent" /\ ~operation.overdue
    /\ ExclusiveFence
    /\ credential' = [state |-> "ready", gen |-> life.gen, epoch |-> epoch]
    /\ UNCHANGED <<scheduleVars, epoch, operation, unsettled, repo, stagedIn, deleter>>

\* CompleteCallback and BindDeletionCredential, in one exclusive scope.
Reauthenticate ==
    /\ credential.state = "ready"
    /\ credential.gen = life.gen /\ credential.epoch = epoch
    /\ ExclusiveFence
    /\ IF operation.state = "intent" /\ ~operation.overdue /\ ~operation.bound
       THEN /\ credential' = [credential EXCEPT !.state = "bound"]
            /\ operation' = [operation EXCEPT !.bound = TRUE]
       ELSE credential' = Revoked /\ UNCHANGED operation
    /\ UNCHANGED <<scheduleVars, epoch, unsettled, repo, stagedIn, deleter>>

\* The sign-in is refused, or the process dies in its middle.
ReauthenticationFails ==
    /\ credential.state = "ready"
    /\ Fault
    /\ credential' = Revoked
    /\ UNCHANGED <<life, mediaVars, postVars, epoch, operation, unsettled, repo,
                   stagedIn, deleter>>

\* What CancelIntentParticipant and ProfileDepartureParticipant have in common.
\* Requests are deleted, and the credential is left to the cleanup of sessions.
Cancelled(to) ==
    /\ operation.state = "intent" /\ life.state = "deletion_pending"
    /\ operation.bound => credential.state = "bound"
    /\ Transition(to)
    /\ epoch' = IF AdvancesAuthEpoch(life.state, to) THEN epoch + 1 ELSE epoch
    /\ operation' = NoOperation
    /\ credential' = Revoked
    /\ UNCHANGED <<unsettled, repo, stagedIn, deleter>>

\* cancelIntent goes back to where the profile row says.  The row follows the
\* profile by a projection of its own, so it may be either.
Targets == {"active", "departed"}

CancelIntent(to) == ~operation.overdue /\ Cancelled(to) /\ UNCHANGED budget

\* The sign-in could not be started.
StartFails(to) == credential.state = "asked" /\ Cancelled(to) /\ Fault

\* A wrong version: only an intent with a credential expires.
ExpireIntentBound(to) ==
    operation.overdue /\ operation.bound /\ Cancelled(to) /\ UNCHANGED budget

ExpireIntent(to) == operation.overdue /\ Cancelled(to) /\ UNCHANGED budget

\* The member deletes the profile elsewhere.
ProfileDeparts == MayMove /\ Cancelled("departed")

IntentLapses ==
    /\ operation.state = "intent" /\ ~operation.overdue
    /\ operation' = [operation EXCEPT !.overdue = TRUE]
    /\ UNCHANGED <<scheduleVars, epoch, credential, unsettled, repo, stagedIn, deleter>>

\* adoptUncertainPDSAttemptsTx: the writes of a generation that may still land.
OpenWrites(gen) ==
    {write \in Posts \X (1..Versions) :
        command[write[1]][write[2]] = "open" /\ post[write[1]].gen = gen}

Adopted(gen) == unsettled' = [unsettled EXCEPT !.writes = @ \cup OpenWrites(gen)]

\* Accept.  What AcceptanceBinding has read is read again under the fence; the
\* credential moves to the new epoch, every other session is revoked.
Accept ==
    /\ operation.state = "intent" /\ operation.bound /\ ~operation.overdue
    /\ life.state = "deletion_pending"
    /\ credential.state = "bound" /\ credential.epoch = epoch
    /\ Transition("deleting")
    /\ epoch' = epoch + 1
    /\ credential' = [credential EXCEPT !.epoch = epoch + 1]
    /\ operation' = [operation EXCEPT !.state = "active"]
    /\ Adopted(operation.gen)
    /\ UNCHANGED <<budget, repo, stagedIn, deleter>>

----------------------------------------------------------------------------
(* Sessions.                                                               *)

\* EligibleDeletionCredential.
Eligible ==
    /\ operation.state \in Accepted
    /\ life = [state |-> "deleting", gen |-> operation.gen + 2]
    /\ credential = [state |-> "bound", gen |-> life.gen - 1, epoch |-> epoch]

\* A wrong version: the credential of a deletion stays in the old epoch.
KeptByLogoutAsItWas == IF Eligible THEN credential ELSE Revoked

KeptByLogout ==
    IF Eligible THEN [credential EXCEPT !.epoch = epoch + 1] ELSE Revoked

\* RevokeAllForDID.
LogoutAll ==
    /\ operation # NoOperation
    /\ MayMove
    /\ ExclusiveFence
    /\ epoch' = epoch + 1
    /\ credential' = IF credential.state \in {"ready", "bound"} THEN KeptByLogout
                                                                ELSE credential
    /\ UNCHANGED <<life, mediaVars, postVars, operation, unsettled, repo, stagedIn,
                   deleter>>

\* A wrong version: the lease outlives the credential.
ReauthRequiredStillLeased ==
    /\ operation' = [operation EXCEPT !.state = "reauth_required", !.bound = FALSE]
    /\ credential' = Revoked

ReauthRequired ==
    /\ operation' = [operation EXCEPT !.state = "reauth_required", !.bound = FALSE,
                                      !.lease = Nobody, !.expired = FALSE]
    /\ credential' = Revoked

\* expireParentCandidate, of the credential of an accepted operation.
CredentialExpires ==
    /\ operation.state \in Accepted /\ credential.state = "bound"
    /\ Fault
    /\ ReauthRequired
    /\ UNCHANGED <<life, mediaVars, postVars, epoch, unsettled, repo, stagedIn, deleter>>

----------------------------------------------------------------------------
(* The worker.                                                             *)

Deleting(d, pc) == deleter' = [deleter EXCEPT ![d].pc = pc]
StopDeleting(d) == deleter' = [deleter EXCEPT ![d] = NoDeletion]

\* A wrong version: an operation that failed once is not claimed again.
ClaimableOnce == {"active"}

Claimable == Accepted

ClaimDeletion(d) ==
    /\ deleter[d].pc = "idle" /\ d \in budget.present
    /\ operation.state \in Claimable
    /\ operation.lease = Nobody \/ operation.expired
    /\ operation' = [operation EXCEPT !.lease = d, !.expired = FALSE]
    /\ deleter' = [deleter EXCEPT ![d] = [pc |-> "adopt", gen |-> operation.gen]]
    /\ UNCHANGED <<scheduleVars, epoch, credential, unsettled, repo, stagedIn>>

OwnsDeletion(d) == operation.gen = deleter[d].gen /\ operation.lease = d

\* RecordFailure; a claim that was lost is let go.
FailDeletion(d) ==
    /\ operation' = IF OwnsDeletion(d)
                    THEN [operation EXCEPT !.state = "retrying", !.lease = Nobody,
                                           !.expired = FALSE]
                    ELSE operation
    /\ StopDeleting(d)

\* AdoptUncertainPDSAttempts, which looks at no lease.
AdoptAttempts(d) ==
    /\ deleter[d].pc = "adopt"
    /\ IF operation.state \in Accepted /\ operation.gen = deleter[d].gen
       THEN Adopted(operation.gen) /\ Deleting(d, "purge") /\ UNCHANGED operation
       ELSE FailDeletion(d) /\ UNCHANGED unsettled
    /\ UNCHANGED <<scheduleVars, epoch, credential, repo, stagedIn>>

\* A wrong version: puts without an answer are not waited for.
UncertainObjectsIgnored(gen) == {}

\* The objects that a put of the generation may still bring.
UncertainObjects(gen) == {m \in Media : attempt[m] = "dispatched" /\ stagedIn[m] = gen}

\* PurgeAccepted and hardDeleteByActor, which look at no lease either.  An
\* object can only be adopted into an operation that exists.
PurgeAccepted(d) ==
    /\ deleter[d].pc = "purge"
    /\ ExclusiveFence
    /\ LET uncertain == UncertainObjects(deleter[d].gen) IN
       IF uncertain # {} /\ operation.gen # deleter[d].gen
       THEN FailDeletion(d) /\ UNCHANGED <<unsettled, post, tombstone, media, job>>
       ELSE /\ unsettled' = [unsettled EXCEPT !.objects = @ \cup uncertain]
            /\ post' = [p \in Posts |-> IF post[p].state \in Rows THEN Gone(p) ELSE post[p]]
            /\ tombstone' = [p \in Posts |-> 0]
            /\ Discard({m \in Media : media[m].state # "none"})
            /\ Deleting(d, "private")
            /\ UNCHANGED operation
    /\ UNCHANGED <<life, budget, attempt, clock, object, late, tested, uploader, cleaner,
                   worker, command, wire, landed, sent, epoch, credential, repo, stagedIn>>

\* DatabasePrivateCleanup.Purge asks for any accepted operation of the owner.
PurgePrivate(d) ==
    /\ deleter[d].pc = "private"
    /\ IF life.state = "deleting" /\ operation.state \in Accepted
       THEN Deleting(d, "delete") /\ UNCHANGED operation
       ELSE FailDeletion(d)
    /\ UNCHANGED <<scheduleVars, epoch, credential, unsettled, repo, stagedIn>>

\* A wrong version: the credential is taken for good.
MayDeleteEver(d) == deleter[d].gen # 0

\* lockDeletionSessionTx, before every call of the PDS.
MayDelete(d) ==
    /\ OwnsDeletion(d) /\ ~operation.expired /\ operation.state \in Accepted
    /\ life = [state |-> "deleting", gen |-> deleter[d].gen + 2]
    /\ credential = [state |-> "bound", gen |-> life.gen - 1, epoch |-> epoch]

\* DeleteExact of an unsettled write, DeleteAll and its last scan.
DeleteRecords(d) ==
    /\ deleter[d].pc = "delete"
    /\ IF MayDelete(d)
       THEN repo' = {} /\ Deleting(d, "check") /\ UNCHANGED operation
       ELSE FailDeletion(d) /\ UNCHANGED repo
    /\ UNCHANGED <<scheduleVars, epoch, credential, unsettled, stagedIn>>

\* markDeletionTerminalVersion: the PDS no longer takes the credential.
DeletionRefused(d) ==
    /\ deleter[d].pc = "delete" /\ MayDelete(d)
    /\ Fault
    /\ ReauthRequired
    /\ StopDeleting(d)
    /\ UNCHANGED <<life, mediaVars, postVars, epoch, unsettled, repo, stagedIn>>

\* SafetyConverged, of the operation that was claimed.
CheckSafety(d) ==
    /\ deleter[d].pc = "check"
    /\ IF operation.gen = deleter[d].gen /\ unsettled # NothingUnsettled
       THEN FailDeletion(d)
       ELSE Deleting(d, "complete") /\ UNCHANGED operation
    /\ UNCHANGED <<scheduleVars, epoch, credential, unsettled, repo, stagedIn>>

SafetySettled ==
    /\ unsettled = NothingUnsettled
    /\ OpenWrites(operation.gen) = {}

CompleteAccepted(d) ==
    /\ deleter[d].pc = "complete"
    /\ ExclusiveFence
    /\ IF life.state = "deleting" /\ OwnsDeletion(d) /\ SafetySettled
       THEN /\ Transition("departed")
            /\ epoch' = epoch + 1
            /\ operation' = NoOperation
            /\ credential' = Revoked
            /\ StopDeleting(d)
       ELSE /\ IF life.state = "deleting"
               THEN FailDeletion(d)
               ELSE StopDeleting(d) /\ UNCHANGED operation
            /\ UNCHANGED <<life, mediaVars, postVars, epoch, credential>>
    /\ UNCHANGED <<budget, unsettled, repo, stagedIn>>

\* The PDS or the database fails for now.
DeletionFails(d) ==
    /\ deleter[d].pc \notin {"idle", "complete"}
    /\ Fault
    /\ FailDeletion(d)
    /\ UNCHANGED <<life, mediaVars, postVars, epoch, credential, unsettled, repo, stagedIn>>

DeleterCrashes(d) ==
    /\ deleter[d].pc # "idle"
    /\ Fault
    /\ StopDeleting(d)
    /\ UNCHANGED <<life, mediaVars, postVars, epoch, operation, credential, unsettled,
                   repo, stagedIn>>

\* The lease of the operation runs out: its worker is dead, or slow.
DeletionLeaseEnds ==
    /\ operation.lease # Nobody /\ ~operation.expired
    /\ operation' = [operation EXCEPT !.expired = TRUE]
    /\ IF deleter[operation.lease].pc # "idle" THEN Fault ELSE UNCHANGED budget
    /\ UNCHANGED <<life, mediaVars, postVars, epoch, credential, unsettled, repo,
                   stagedIn, deleter>>

----------------------------------------------------------------------------
(* The schedule goes on.                                                   *)

\* A record lands; CompleteCleanup settles an object; a move may end sessions.
ScheduleStep ==
    /\ Next
    /\ repo' = repo \cup {write \in wire : landed'[write[1]][write[2]]
                                             > landed[write[1]][write[2]]}
    /\ unsettled' = [unsettled EXCEPT
                       !.objects = {m \in @ : attempt'[m] # "none"}]
    /\ stagedIn' = [m \in Media |-> IF media'[m].state = "uploading" THEN media'[m].gen
                                                                     ELSE stagedIn[m]]
    /\ epoch' = IF AdvancesAuthEpoch(life.state, life'.state) /\ life' # life
                THEN epoch + 1 ELSE epoch
    /\ UNCHANGED <<operation, credential, deleter>>

DeleterStep(d) ==
    \/ ClaimDeletion(d) \/ AdoptAttempts(d) \/ PurgePrivate(d) \/ DeleteRecords(d)
    \/ CheckSafety(d)

FencedStep(d) == PurgeAccepted(d) \/ CompleteAccepted(d)

DeletionNext ==
    \/ ScheduleStep
    \/ CreateIntent \/ StartOAuth \/ Reauthenticate \/ ReauthenticationFails
    \/ IntentLapses \/ ProfileDeparts \/ Accept \/ LogoutAll \/ CredentialExpires
    \/ \E to \in Targets : CancelIntent(to) \/ StartFails(to) \/ ExpireIntent(to)
    \/ \E d \in Deleters :
          \/ DeleterStep(d) \/ FencedStep(d) \/ DeletionRefused(d)
          \/ DeletionFails(d) \/ DeleterCrashes(d)
    \/ DeletionLeaseEnds

\* The loops run and requests end; the leases of the dead lapse and time passes.
\* Whoever waits for the exclusive fence gets it: its waiters queue.
DeletionFairness ==
    /\ Fairness
    /\ \A u \in Uploaders :
          WF_mediaVars(Dispatch(u) \/ PutSucceeds(u) \/ MarkReady(u) \/ MoveToCleanup(u))
    /\ \A m \in Media : WF_mediaVars(Tick(m))
    /\ \A d \in Deleters : WF_allVars(DeleterStep(d)) /\ SF_allVars(FencedStep(d))
    /\ WF_allVars(DeletionLeaseEnds) /\ WF_allVars(IntentLapses)
    /\ SF_allVars(\E to \in Targets : ExpireIntent(to))

DeletionSpec == DeletionInit /\ [][DeletionNext]_allVars
DeletionFairSpec == DeletionSpec /\ DeletionFairness

----------------------------------------------------------------------------
(* Properties.                                                             *)

\* Every variable has its shape, and only an accepted operation is leased.
DeletionTypeOK ==
    /\ epoch \in Nat
    /\ operation \in [state : {"none", "intent", "reauth_required"} \cup Accepted,
                      gen : Nat, bound : BOOLEAN, overdue : BOOLEAN,
                      lease : Deleters \cup {Nobody}, expired : BOOLEAN]
    /\ credential \in [state : {"none", "asked", "ready", "bound", "over"},
                       gen : Nat, epoch : Nat]
    /\ unsettled \in [writes : SUBSET (Posts \X (1..Versions)), objects : SUBSET Media]
    /\ repo \subseteq Posts \X (1..Versions)
    /\ deleter \in [Deleters -> [pc : {"idle", "adopt", "purge", "private", "delete",
                                       "check", "complete"}, gen : Nat]]
    /\ operation.lease # Nobody => operation.state \in Accepted

\* A deletion that was accepted can be carried out: no logout of the member, no
\* other worker and no failure costs it its credential, unless it is told so.
AcceptedHasCredential == operation.state \in Accepted => Eligible

\* Whatever is deleted from the PDS was there to be deleted: a worker whose
\* operation was completed, or taken over, touches nothing of a later membership.
OnlyAcceptedDeletes ==
    [][\A write \in repo \ repo' :
          life.state = "deleting" /\ post[write[1]].gen <= operation.gen]_allVars

\* RULE-013 and FR-028, of the generation that was deleted: when a deletion
\* completes, nothing is left of it or can still come: no record on the PDS or
\* on its way there, no row, no put under way, and no object without a job.
NothingIsLeft ==
    [][life.state = "deleting" /\ life'.state = "departed" =>
          /\ \A write \in repo \cup wire : post[write[1]].gen # operation.gen
          /\ \A p \in Posts : post[p].state \notin Rows
          /\ \A m \in Media : stagedIn[m] = operation.gen =>
                /\ media[m].state = "none" /\ m \notin late
                /\ m \in object => job[m].state # "none"]_allVars

\* An accepted deletion ends, or asks for a new sign-in, unless a write or a put
\* without an answer has no bound.
DeletionEnds ==
    []<>(operation.state \in Accepted => \/ unsettled.writes # {}
                                         \/ unsettled.objects # {} /\ ~tested)

\* An intent ends, unless its credential was revoked behind its back.
IntentsEnd ==
    []<>(operation.state = "intent" => operation.bound /\ credential.state # "bound")

\* Cancel and expire unaccepted intents: an intent always ends.
IntentsAlwaysEnd == operation.state = "intent" ~> operation.state # "intent"
=============================================================================
