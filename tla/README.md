# Verification of the CraftSky AppView

CraftSky is a social network on atproto. Its Flutter app and web clients talk to
the AppView (`appview/`, Go and PostgreSQL), which follows the repositories of
its members through the Tap sidecar, projects what it has been told into the
tables it serves, and writes to the members' own PDSs on their behalf. These TLA+
modules model three parts of it: the pipeline from Tap to the serving tables, the
command plane that writes to a PDS, and the life of an owner between a scheduled
post, a push notification and the deletion of the account. TLC checks them on small
instances, and TLAPS proves the safety properties that these runs check, and the refinements
of two abstract specifications, for every value of the constants.

Contents: 1 inventory, 2 modules and their correspondence to the code, 3 runs and
bounds, 4 fairness, 5 proofs, 6 divergences found, 7 abstractions and what is not
modelled, 8 plan.

## 1. Inventory

Paths are below `appview/internal` unless they say otherwise.

| component | state it keeps | operations | hard behaviour | what makes it correct | modelled |
|---|---|---|---|---|---|
| Tap consumer (`tap/`) | none, the connection | receive a frame, ingest, ACK, reconnect | crash between commit and ACK, ACK deadline, redelivery | ACK only what is retained, every event is acknowledged in the end | partly |
| Record ingestion (`ingestion/service.go`, `store.go`) | `tap_source_records`, `tap_projection_jobs`, receipts | `IngestRecord`, version selection, conflict, profile lifecycle transition | redelivery, reordering, resync, two ingestors, unlocked reads | the newest version is retained and its jobs are about it | partly |
| Projection (`ingestion/workers.go`, `store.go`, `index/`) | the serving tables, notifications, quarantine evidence | claim, project, block, wake, refuse, reschedule | expired leases, lifecycle moved since the claim, dependencies that arrive while one waits | one writer per record, only current authority is served, complete means served | partly |
| Repository repair (`ingestion/repository_*.go`, `reconciliation.go`, `app/tap_repository.go`) | `tap_repository_jobs` | claim, fetch a snapshot, compare, reconcile, create, drain | long run over moving tables, interruption, new request meanwhile | requests are not swallowed, uncertainty ends, omitted records go | yes |
| Owner lifecycle (`ownerlifecycle/`) | `owner_lifecycles`: state, generation, auth epoch, purge ledger | transitions under the exclusive fence, effects under the shared one | every other subsystem runs under its fences | generation grows with every transition, nothing of an old generation takes effect | partly |
| PDS commands (`pdscommands/`, `pdseffects/`) | `pds_commands`, `pds_command_dispatches`, tombstones of keys | append, edit, put, delete, like and unlike, compound writes | ambiguous outcome of a remote write, lost head swaps, two devices with one key, departure in between | a key takes effect once, a verdict is final, no effect of a closed generation | partly |
| Scheduled posts (`scheduledposts/`) | posts, tombstones, images, upload attempts, cleanup jobs | save, Post now, delete, lease, freeze, publish, finalize, stage an image, sweep, clean up | crash between the PDS write and its record, edits under a publication, late puts | a version is published once, what was replaced never is, no object is forgotten | partly |
| Account deletion (`accountdeletion/`) | `account_deletion_operations`, safety tombstones | intent, sign-in, cancel, expire, accept, adopt, purge, delete, complete | point of no return, a second worker, logout under the deletion, writes that land after it | cancel or delete, never both; nothing is left when it completes | partly |
| Authentication (`auth/`) | OAuth sessions, handoffs, epochs, cleanup jobs | handoff, refresh, revoke, expire, clean up | concurrent refresh, departure during login, late cleanup | no session of an older epoch works | partly |
| Push (`push/`, `api/notification_devices.go`) | installations, subscriptions, deliveries | register, remove, rotate; lease, send, retry, give up, invalidate | outrun leases, an owner who leaves or a post deleted before the call, late verdicts on tokens | one sender at a time, nothing is sent for who left, the queue drains | partly |
| Notifications and relationships (`notifications/`, `postpublication/`, `relationships/`) | events, mutes, preferences | activate with fan-out, retract, restrict, mute | decisions on what was read before | what is withdrawn is not sent | partly |
| Quarantine (`ingestion/quarantine.go`) | `tap_quarantined_events` | record, request replay, claim, replay | replay racing newer deliveries | evidence survives, replay is applied once | no |
| Set aggregates (`index/set_*.go`) | facts and counters of likes, reposts, follows, blocks | project a fact, apply a delta | two reads of a dependency, retargeting | counters equal the active facts | no |
| Moderation, safety incidents, subscriptions, chat | cases, effects, entitlements, deliveries | workflow steps, outboxes, reconciliations | asynchronous effects | effects follow the case or the provider | no |
| HTTP API, middleware, media processing, Instagram import, observability, clients | little state of their own | requests, calls to external services | mostly I/O | | no |

Interaction. Tap sends events over a websocket, the consumer calls `IngestRecord`
and answers with an ACK. Everything else shares the database only: row locks, leases
on jobs, a per-post advisory lock (`postfence`), a per-object and a per-schedule one,
and the owner fence, an advisory lock per owner that lifecycle transitions hold
exclusively and every effect for the owner holds shared. Publications go through the
command plane to the PDS, images to an object store, and notifications to Firebase.
The deletion of an account runs against all of these at once.

## 2. Modules

```
OwnerStates            states of an owner, valid transitions, auth epochs

AtprotoRepo            the owner's repository and Tap (external)
  TapStore               tables, pure decisions, pieces of transaction, locks
    RecordIngestion        IngestRecord and the consumer
    Projection             workers, leases, the projection transaction
      RepositoryRepair       repository jobs and repair (uses both)
        TapPipeline            composition, fairness, properties
          MCTapPipeline          instances for TLC
          TapPipelineTypes       proof of the type invariant
            TapPipelineProofs      rows, jobs and projections
              TapDeliveryProofs      repairs, delivery, readers, the refinement
ServingPromise         what the pipeline promises a reader (see TapPipeline)

CommandPromise         what the command plane promises of an operation key
PdsCommands            the command plane, which implements it
  MCPdsCommands          instances for TLC
  PdsCommandsTypes       proof of the inductive invariant's first half
    PdsCommandsProofs      the other half, the properties, the refinement

PrivateMedia           images of scheduled posts, their objects and cleanup
  ScheduledPosts         saves and publication of scheduled posts
    AccountDeletion        the deletion of the account, composed with them
      PushDeliveries         push notifications, composed with all of it
    MCScheduledPosts, MCAccountDeletion, MCPushDeliveries   instances for TLC
    ScheduledPostsProofs   proofs about the schedule under any composition
      AccountDeletionProofs  the same of the deletion
        PushDeliveriesProofs   and of push, with the theorems of the whole
```

### The pipeline

The model follows one owner and the set `Uris` of its records.

**AtprotoRepo.** `repo` is the sequence of commits; a revision is the number of a
commit, and a body is the revision that wrote it (0: not there). `cursor`, `resync`
and `acked` are what Tap knows. `Deliverable` is the contract on which the consumer
relies: at least once, live events in order, the findings of a resync in any order
before the next live event, and no deletes from a resync.

**TapStore.** `src` is `tap_source_records`, `job` is `tap_projection_jobs` (keys
`<<uri, "serving">>` and, for posts, `<<uri, "notify">>`), `rjob` is
`tap_repository_jobs`, `life` is the row of `owner_lifecycles`, `served` and `alerts`
stand for the serving tables (the body shown for a record) and for active
notifications, `quarantined` for the evidence rows. `SelectSourceVersion`,
`ProfileTransition`, `InstallSource`, `MarkConflict`, `Wake` and `WithRequest` are
the functions of the same names in the code. A job's lease is its holder and the
flag `live`. Locks are not variables: `RowLocked`, `PostFenced` and `SharedFence`
read them off the open transactions.

**RecordIngestion.** One call of `Service.IngestRecord` per ingestor, in `ing`:
`BeginIngest` is `EnsureOnboardingOwner`; then `TransitionProfile` (the lifecycle
transition with the source in one transaction), `Recognise`, `RecogniseConflict`,
`RejectWinner`, or `OpenInstall` and `CommitInstall`. A transaction that decides only
on rows it has locked is one step. Installing a newer version is two: a missing row
cannot be locked, and membership is read without a lock. `Reply` sends the ACK or
leaves the event unanswered, `Disconnect` loses the connection or the process.

**Projection.** `Claim` is `ClaimProjectionJobs`, `OpenProjection` is `Store.project`
up to the decision of the projector (`Eligibility`, then `Dispatch`),
`CommitProjection` is its writes, `LoseLease` is `ErrProjectionLeaseLost`,
`FailProjection` the rollback and `rescheduleProjection`. `ExpireLease` lets the lease
of a dead holder run out, `OutrunLease` that of a slow one.

**RepositoryRepair.** A repository worker claims a job (`ClaimRepository`), fetches
(`FetchSnapshot`), compares with the sources it reads once (`DescribeRepair`),
reconciles known records (`StartReconcile`, `ReconcileSource`) and ingests unknown
ones (`StartCreate`, the actions of RecordIngestion, `FinishCreate`), then claims and
projects what the snapshot covers (`StartDrain`, `ClaimSource`, `ProjectSource`).
`InterruptRepair` is a failed remote call or the job's deadline, `CrashRepair` the death
of the process.

**TapPipeline.** The composition, with what comes from outside: commits, resyncs,
lifecycle transitions of other subsystems (`OwnerTransition`), requests of logins
and operators (`RequestRepository`). All its properties are stated here.

**ServingPromise.** The abstract specification of the pipeline, as a reader sees it. Of each
record the AppView knows the repository as of a revision that only grows (`Learn`). It shows the
version it knows, of an active owner whose profile is shown and no malformed one (`Show`), and it
hides a record only when it is known to be gone or malformed, or is a like whose subject went
(`Hide`); the profile of an active owner is never hidden. There are no events, jobs, leases,
generations, workers or crashes in it. `KeepsPromise` is the refinement: `known` is the revision
of the source row, `shown` is `served`, `active` the state of the lifecycle. It holds with the
consumer as the only ingestor: `MCFirstInsert` shows a repair that makes the AppView know less.

### The command plane

**PdsCommands.** One owner, whose devices and other clients write to one repository.
A key of `Keys` asks for one change of one record (`intent`): append, edit, put,
delete, like, unlike or compound. `command` is `pds_commands` with its dispatches and
the tombstones of spent keys; `wire` holds the write requests that the PDS has not
processed. `caller` is one request per element of `Callers`: `Prepare` is
`PrepareOrReplay`, `Refuse` the second look at the lifecycle, `Enter` takes the
owner's shared fence and the session's, `Observe` reads the record (or the
collection between two equal heads), `ReadHead` the head, `Begin` persists the
dispatch and sends the write bound to that head, `Receive` and `TimeOut` record what
became of it, `Conclude` records a decision that needs no write. `Decision` is where
the services differ. `Serve` is the PDS: it takes a write only at the head it is bound
to, may refuse it or limit the rate, and answers the caller if it still waits. `Crash`
leaves the request on its way. `Compact` spends a key, `Move` is a lifecycle
transition, `Elsewhere` and `Unstable` are writes of other clients.

**CommandPromise.** The abstract specification: a key is opened, decided once, spent
once; its writes may take effect while it is open, and after it was accepted only if
two requests were served for it at once. A *rejected* key may still take effect,
because an owner who leaves is refused while an earlier request is on its way.
`KeepsPromise` is the refinement, by `Promise` in `PdsCommands`: the verdict of a
row, `raced` and `landed`.

### The owner's schedule, account and notifications

Four modules over one owner, each composed with the one before by EXTENDS: the state
of the lower ones moves by their own actions (`MediaStep`, `ScheduleStep`, `LowerStep`).
`budget` bounds what comes from outside (section 3).

**PrivateMedia.** An image has a row (`media`), an upload attempt (`attempt`), a cleanup
job (`job`) and perhaps an object in the store. `Reserve`, `Dispatch`, `PutSucceeds`,
`PutFails` and `MarkReady` are `PrivateMediaService.Put`; a put whose caller gave up goes on in
`late`. Whatever removes a row enqueues a job (`Discard`). A cleaner sweeps, recovers
and claims jobs (`ClaimCleanup`), takes the fences (`AcquireCleanup`), deletes, looks
again, and lets the job go when the absence proves settlement (`ProvesSettlement`:
nothing that was sent can still arrive). `clock` has the four phases that the code compares
times for.

**ScheduledPosts.** `post` is the row with its version, attempt and lease; `command`
has the key of each version in the command plane, reduced to its verdict. `Create`,
`Update`, `PostNow` and `Delete` are the member's requests. A worker claims (`ClaimDue`,
with the recovery of lapsed leases and last attempts), reads (`Snapshot`), freezes the
record, takes the fences (`Acquire`), uploads, writes, and finalizes or fails.
`Transition` is a lifecycle transition with the cancellation of the generation's posts.

**AccountDeletion.** `operation` is the row of the operation, named by the generation that it
deletes; `credential` the OAuth request that becomes the deletion's session; `unsettled` the safety
tombstones that are not settled; `repo` what is on the PDS; `deleter` per worker where it
is: adopt, purge, private, delete, check, complete. `Accept` is the point of no return;
`KeptByLogout` and `Eligible` are how the session outlives a logout of all others.

**PushDeliveries.** `note` is an event about the member and the transaction that writes it
(`Consider` reads who may be told, `Commit` fans out), `delivery` its deliveries, `route` the
installation and subscription of a device, `jobs` the devices that a logout leaves to
be silenced. A dispatcher claims (`ClaimDelivery`), reads both owners (`Look`), takes
their fences and the post's and checks everything again (`Enter`), calls, and records the
answer if the claim is still its own (`FinishSend`, `OwnsClaim`). A call ends before its lease
does (`WithinCall` is `attemptDeadline`). The purge of `AccountDeletion` clears it
(`LowerStep`), and what ends all sessions leaves a job.

Definitions whose comment calls them a wrong version (`InstallSourceKeepsJob`,
`DecisionPlansAgain`, `OwnsClaimByLease`, ...) are plausible bugs. Put in the place of the
definition they precede, each makes TLC find a property violated, which shows that the
property depends on that code.

## 3. Runs

| run | instance | what it shows |
|---|---|---|
| `MCIngestion` | profile, post, 1 worker, 3 commits, 1 resync, 1 fault, cancelled deletion and termination | `AckedIsRetained`, `CompletedIsServed`, `JobsFollowSource`, `QuietServesHead` and the refinement `KeepsPromise` hold through redelivery, resync and lifecycle changes |
| `MCInteractions` | profile, post, like, 2 workers (symmetric), 4 commits of which the last is malformed, 1 fault, termination | `RefusalLeavesEvidence`, `AlertsFollowServed`, `ProjectionIsExclusive`, `ServesOnlyMembers` hold with dependencies and competing workers |
| `MCRepair` | profile, post, 1 worker, 1 repository worker, 2 commits, 1 resync, cancelled deletion | `TypeOK`, `RepairIsOwed`, `ServesOnlyCurrent` hold while a repair runs beside everything else |
| `MCLiveness` | profile, 1 worker, 1 repository worker, 2 commits, 1 resync, 1 fault or operator request | `EveryEventAcknowledged`, `EveryJobSettles`, `UncertaintyEnds` under fairness |
| `MCCommands` | 26 scenarios over 2 keys, 2 records, 2 callers | `RetriesApplyOnce`, `RefusedTookNoEffect`, `OneMember`, `ClosedGenerationIsQuiet`, and the refinement `KeepsPromise` |
| `MCSchedule` | 14 scenarios over a post, an image, 2 workers, 2 cleaners, 2 deletion workers, 2 events, 2 devices, 2 dispatchers | the properties of ScheduledPosts (`OncePerVersion`, `StaleNeverPublishes`, `TombstonesAreTrue`, `Settles`), of images (`ReadyIsStored`, `NothingForgotten`, `NothingLingers`), of the deletion (`AcceptedHasCredential`, `OnlyAcceptedDeletes`, `NothingIsLeft`, `DeletionEnds`, `IntentsEnd`) and of push (`OneSender`, `SendsAreWanted`, `RegistrationsHold`, `QueueDrains`), in the composition of all four modules |
| `MCConflict`, `MCMissedWake`, `MCFirstInsert`, `MCOmitted`, `MCDuplicatePost`, `MCStuckIntent` | smallest instances | the divergences of section 6 |

Passing runs have 50 thousand to 1.4 million distinct states. `CHECK_DEADLOCK` is off in all
of them: when the commits, requests and failures of the bound are used up and everything
that follows from them is done, the system rests.

Bounds of the pipeline. `MaxRev` bounds the commits: three give a create, an update and a
delete of one record or a write of one between two of another, two suffice for a conflict
after a resync, four put a like between two versions of its post or a malformed version
after three good ones. `MaxGen` bounds the generations at which a transition by
another subsystem may start: four allow a profile to arrive, a deletion to be begun and
cancelled. `MaxFaults` is the number of crashes, timeouts, lost connections, outrun leases and
outside requests in one behaviour: the hazards need one each. `MaxResyncs`
bounds resyncs. In `MCOmitted` the constraint `MCLateRepair` only shortens the
search: it keeps behaviours in which the owner writes first and the repair is asked for
after the last lifecycle change.

Properties that are false are no theorems here, and it matters where the others
stop. `AckedIsRetained`, `QuietServesHead` and `KeepsPromise` are checked without repository workers, as the
race of `MCFirstInsert` also breaks the first and the last. `QuietServesHead` speaks of completed
records: a record whose job is blocked may show an older body, and
`MCMissedWake` shows that one may stay blocked. What was deleted before a resync is left
out of it, as Tap reports no deletes then. `MCLiveness` follows the profile alone: with a post,
`EveryEventAcknowledged` and `UncertaintyEnds` fail by the conflict of `MCConflict`.

Bounds of the command plane. Each scenario (`MCScenarios`) says what the keys ask for, how many
requests come with each, and how many writes of other clients may happen. Three requests with
one key, from one session or two, let a first one be lost, a second meet it and a third read
what both left. One request among three foreign writes exhausts the three attempts of a head
swap. Two keys on one record or one collection, from two sessions, race each other. Failures,
crashes and late requests are not bounded. `MaxDispatches` = 3 is the number that the
code allows one request; retries of a command with more are cut off.

Bounds of the schedule. Each scenario of `MCPushes` names the actors that are present and how many
uploads, failures (`Fault`: a crash, an outlived lease, a refusal, no answer) and moves
(requests of the member or of an actor, lifecycle transitions) may still come. Two versions
and two attempts of a post give a save under a publication and a last attempt. One failure
with two workers gives the reclaimed lease, two give a reclaimed lease after a lost
answer. Every scenario that has an effect pairs two actors that share it: two workers, two
cleaners, two deletion workers, two dispatchers, a worker and a cleaner, a worker and the
deletion, a dispatcher and the deletion.

## 4. Fairness

The specifications assume of each process only what its loop does by itself, and finitely many
faults: a process that always crashes never finishes anything.

Pipeline (`Fairness` in TapPipeline). `Run` of the consumer reconnects for ever and Tap resends
what has no ACK; `Deliver` is fair per record. `runWorkerLoop` polls for ever and
`ClaimProjectionJobs` orders by `next_attempt_at,id`, so claims are fair per job. A lease nobody
works under runs out (weak fairness of the expiry steps). Fences and row locks are granted in
the order they were asked for by PostgreSQL, so a step that is enabled again and again between
other transactions is taken (strong fairness). Nothing is assumed of the owner, of logins and
operators, of lifecycle transitions or of faults.

Schedule (`Fairness`, `MediaFairness`), deletion (`DeletionFairness`) and push (`PushFairness`).
Workers, cleaners, deletion workers and dispatchers poll for ever; the lease of a dead one
lapses; a put or a write that nobody waits for lands or is lost; requests end; clocks go on.
Steps under the exclusive fence of the owner, the purge, the completion and the expiry of an
intent, are strongly fair: waiters for an advisory lock queue, so shared holders that come and go
do not starve them. Of push, one weak fairness condition on all steps of dispatchers,
transactions, jobs and lapsing leases together is enough, since none of them can go on
for ever without the others. Nothing is assumed of the member, of actors and of failures.

Liveness is stated as `[]<>` where it can be: for a state predicate P, `P ~> ~P` is
`[]<>~P`, and TLC checks the second form with one branch.

## 5. Proofs

Every theorem is about a specification that TLC checks, with arbitrary values of its
constants. TLC evaluates the assumptions on the constants in every run.

**The pipeline** (`TapPipelineTypes`, `TapPipelineProofs`, `TapDeliveryProofs`). The theorems are about
`Spec` with arbitrary `Uris`, `Workers`, `RWorkers`, bounds, malformed bodies, lifecycle shifts and
requests. They assume `RepoBounds`, `StoreConstants` (kinds of records, subjects, bounds that
are numbers, no `LoginMoves`) and `ActorsDiffer` (the consumer, the two sets of workers and "nobody" are
distinct).

`TypeOK` alone is not inductive: that `Observed` or `LiveEvent` yields an event that can be
ingested depends on the phase of the actor. `TypeInv` adds what the program counter of each
actor promises (`CallsAreReady`, `ClaimsAreReady`, `RepairsAreReady`) and `DebtsExist`.

`SafetyInv` is inductive for any number of repository workers. `StepKinds` sorts the actions
into ten kinds of step, and each part is proved kind by kind:

- `TruthInv`: rows, events in hand, debts of Tap and what a repair is about to create agree with the
  repository at their revision. Two versions of one revision then differ in the operation only, which
  is why a conflict is never about a delete (`ConflictsAreWritten`).
- `RowsInv`: a row's generation is not ahead of the owner's, and a row denied for good has a terminal owner.
- `JobsInv` gives `JobsFollowSource`: `InstallSource` rewrites both jobs with the source.
- `ProjectionIsExclusive`: a projection opens only when the row is free; conflicts, denials and claims skip
  locked rows; a lapsed lease keeps its holder.
- `EffectsFit` and `DecisionsAreWarranted`: what an open projection decided still fits its source, and what
  warranted it (the state, the generation, the notification job's served post, the evidence) is still there,
  because the projection holds the row, the post fence and the owner's shared fence.
- From these at the commit, and later because whoever changes the source reopens the job:
  `CompletedIsServed`, `AlertsFollowServed`, `RefusalLeavesEvidence` and the action property `ServesOnlyCurrent`.

`RepairIsOwed` (theorem `RepairOwed`), also for any number of repository workers: `RepairActorsInv` says
which calls and projections a repair may have under way, `WaitsInv` that what is blocked on the repository is
uncertain or of an older generation, which is what a comparison looks for, and `OwedInv` that a repair which
holds its lease has whatever waits still ahead of it (`Reaches`): it is to be compared, or reconciled. So a repair that
ends under its lease leaves nothing waiting, and one that lost its lease leaves the job to the next.

The rest assumes `RWorkers = {}`, the consumer as the only ingestor, and any number of projection
workers. Beside a repair what it rests on is false: sources may get older (divergence 3), which refutes
`AckedIsRetained` and `KeepsPromise`, and an active owner may have a deleted profile (end of section 6).
The runs check these properties under the same restriction.

- `HeardInv` (an open call found an older source, an answer that will be acknowledged stands for a retained
  version) gives `AckedIsRetained`, and with it revisions only grow (`RevisionsGrow`).
- `DeliveryInv` gives `QuietServesHead`: `HistoryInv` (a record stays as it is until a commit touches it),
  `DebtsInv` (what Tap owes is of its last look at the repository, and live events come behind it) and `BehindInv`
  (a record with a commit that Tap has passed and ingestion has not seen is owed by a resync, or was gone at it).
- `MembersInv` gives `ServesOnlyMembers`, though a projection reads the membership without a lock: a profile's delete
  is only installed while the owner is in a closed state (`ClosedInv`), so no active owner has a deleted profile
  (`NoProfileLost`), and an open projection holds the shared fence that keeps the owner active
  (`ShowsForMembers`).
- `PromiseInv` adds that a projection shows no malformed body and removes nothing that should be there. `PromiseHolds`
  is the refinement of `ServingPromise`: commits map to `Write`, the calls of the consumer to `Learn`, commits of
  projections to `Show` and `Hide`, other transitions of the owner to `Move`, and all else to stuttering.
- `ReadsGoForward`: a version that is shown is never replaced by an older one. `BodiesGrow` (bodies
  of a record only grow while it is there) and `ShownWas` (what is shown was there at a revision that is known)
  are the invariants it needs.

**The command plane** (`PdsCommandsTypes`, `PdsCommandsProofs`). Assumption: `CommandConstants`.
The inductive invariant is `TypeInv` with `PlanInv` (what plans and requests are bound to), `SoleInv`
(an uncontested key has one caller), `SettledInv` (nothing on its way can change an accepted
key) and `OnceInv` (a write is sent again only when the one before had no effect). All six
properties of `MCCommands` follow from it, the refinement `KeepsPromise` among them: each step
maps to a step of `CommandPromise` or to none.

**The schedule, the account and push** (`ScheduledPostsProofs`,
`AccountDeletionProofs`, `PushDeliveriesProofs`). Assumptions: `MediaConstants`, `PostConstants`, `ScenarioBounds` (a scenario is three numbers
and a set), `DeletionConstants`, `DeletionMoves` (the moves that come from outside neither start nor end
in a state of a deletion: a termination by an operator during a deletion is not modelled) and
`PushConstants`.

The layers are proved one at a time. `HostedSpec` is the schedule, beside anything that
leaves it alone or makes a `Transition` of its owner or empties it as the purge does; `HostedDeletionSpec` is
the deletion beside anything that leaves it alone. `ScheduleIsHosted`, `DeletionIsHosted`,
`ScheduleIsHostedByDeletion` and `DeletionIsHostedByPush` show that each layer is such a host
of the one below, so that an invariant is proved once and holds in every composition. The theorems
`Whole...` say so of `PushSpec`, which `MCSchedule` checks.

- Schedule: `MediaInv` (types; who works on an object holds its fence; what was stored is there until
  its row goes), `PostTypes`, `WriteInv` (a version has at most one write or record, and workers were told the truth
  about it) and `LockInv` (one worker has the schedule's lock, under which the row keeps the version and generation of
  the claim) together
  are inductive. They give `TypeOK`, `OncePerVersion`, `TombstonesAreTrue`, `ReadyIsStored` and
  `StaleNeverPublishes`.
- Images: `NothingForgotten` needs to know why a cleaner may remove a job. `ImagesInv` says it: an object that is there or
  still on its way belongs to a known image (`ImageInv`); it can only come of a dispatched put whose
  job is marked uncertain; and a cleaner that found the store empty, while an object is there or may
  come, looked before the put was settled (`CleaningInv`), so its job stays for another look. A request under way keeps its image
  from posts and cleaners (`UploadInv`).
- Deletion: `DeletionInv` adds to `AcceptedHasCredential` that the owner is where its operation has brought
  it (`OperationFits`), that the credential is of its generation (`CredentialFits`), and that no post is younger
  than the generation that is deleted (`GenerationsFit`). It gives `DeletionTypeOK`,
  `AcceptedHasCredential` and `OnlyAcceptedDeletes`. For `NothingIsLeft`, `LeftInv` carries what each stage of the
  worker has reached to its completion: past the purge there is no private row and every put without an answer is
  among those that the completion waits for (`NothingPrivate`); past the deletion of the records only a write that is still open can bring
  one (`RecordsAreOpen`). Claims of an earlier generation do not count, because the owner moves only under
  the exclusive fence, which no request outlives.
- Push: neither `OneSender` nor `SendsAreWanted` is inductive. `CallInv` says what nobody can change under a
  call: the owners, by their fences; the post, by its fence; and the lease, which is the caller's and in time unless the
  delivery is over. `AnswerInv` says that an answer stays true. `CalmStep`, `EmptyStep`, `RowStep` and `SendStep`
  cover the kinds of step. They give `PushTypeOK`, `OneSender`, `SendsAreWanted` and, with `BudgetOK`,
  `RegistrationsHold`.

Only model-checked: liveness, which needs fairness and ENABLED and is beyond the prover
(`EveryEventAcknowledged`, `EveryJobSettles`, `UncertaintyEnds`, `Settles`, `NothingLingers`, `DeletionEnds`,
`IntentsEnd`, `QueueDrains`). Every other property of a passing run is a theorem.

## 6. Divergences between the documents and the code

Each of the first six has a run whose counterexample shows it, and an entry in `PROJECT.json`.

1. `MCConflict`: `markSourceConflictTx` requires that its update touched one job. A
   post that was projected has two, so its conflict can never be recorded, and the event is
   never acknowledged (`ingestion/store.go:396`, against
   `docs/tap-ingestion-durability-flow.md:92-101`).
2. `MCMissedWake`: membership is read before the blocked job is written, and the
   projection of the profile may wake its dependents in between
   (`ingestion/store.go:476`, against AV-004_AV-005:174).
3. `MCFirstInsert`: two ingestors that find no row both insert, and the upsert has no
   condition on the revision (`ingestion/store.go:322`, against AV-004_AV-005:129).
4. `MCOmitted`: a delete that is blocked for its generation is invisible to
   repair, which completes with the record still served
   (`ingestion/repository_repair.go:290`, against AC-045 of the unified PDS record
   mutations).
5. `MCDuplicatePost`: a publication without an answer leaves the row open to the member, whose
   save forgets the key of the first write; two posts of one schedule
   (`scheduledposts/store_queries.go:255`, against FR-013 of the scheduled posts).
6. `MCStuckIntent`: a logout of all sessions revokes what an unaccepted intent is bound to, and
   the intent can neither expire nor be cancelled (`accountdeletion/store.go:157`, against
   AV-009...AV-035:224).

Seen while modelling, with no run of their own:

- `NoProfileLost` of section 5 is false beside a repair. A profile's delete whose call read the owner as departed
  installs its source without a transition (`ingestion/service.go:110-156`); a reconciliation that finds the
  profile may re-activate the owner in between. The owner is then active with a deleted profile until
  the next event of it. No document speaks of the pair.
- An operation in `reauth_required` has no way out: `RefreshBoundOAuthFromLogin` asks for
  `active` or `retrying` (`accountdeletion/store.go:1273`), so the owner stays `deleting`.
  `DeletionEnds` counts it as an end.
- Adoption and completion look at the generation that is deleted. A write of an earlier
  generation that is still on its way may land after completion; FR-028 and RULE-013 speak of
  all records. `NothingIsLeft` is stated for the deleted generation.
- `PurgeAccepted` looks at neither lease nor lifecycle: a paused worker may delete the schedule
  of a member who has come back.
- A write without an answer leaves a tombstone that nothing settles, so that deletion never
  completes. `DeletionEnds` excepts it, and it excepts puts where the object store has no tested
  settlement bound, as `app/deps_scheduled.go:70-71` configures it.
- A fan-out that read a subscription just before it was removed leaves a pending delivery on an
  inactive route. Nothing claims or ends it, and `queueStats` counts it for ever. `QueueDrains` speaks of
  deliveries with a route.
- `currentDeliveryStatus` cancels a queued delivery when push is off for its category, while AC-041 and
  FR-027 of the push notifications keep it eligible.
- A cleanup job that has used up its attempts leaves the routes of a logged-out session active.
- A reply that is projected after the private purge may write an event for the deleted member, as only the profile
  row is checked.
- When a call succeeds and its lease was lost meanwhile, the same push may be sent again; the code
  calls this outcome ambiguous. At most once is claimed of no push here.

## 7. Abstractions and what is not modelled

Pipeline:

- Data: a body stands for the CID and the bytes of a record, which are equal together;
  malformed bodies are a set. The revision order is that of the commits.
- One owner. Mentions, relation targets and subjects of other owners are left out, with the
  branches of the projectors that only concern them. Reposts, follows, blocks and the
  Bluesky profile follow the same path as likes or posts and are not repeated.
- Business collections (`isIndependentBusinessCollection`) skip the membership and
  generation rules; those branches are left out. So are receipts (written, never read by the
  pipeline), publication facts, image safety and the participants of lifecycle transitions.
- `served[like]` is the active fact of the like; the aggregate counters are not modelled.
- A worker claims one job at a time; a batch is several claims. Time and attempts are not
  modelled: what is rescheduled may be claimed at once.
- `DescribeRepair` reads the sources and the generation in one step. The condition on
  pending validation is left out. Records are repaired in any order rather than by URI. The first,
  unlocked comparison of `ReconcileSource` is subsumed by the second, under the lock.
- An interrupted repair leaves a projection lease it holds to expire. In the code a
  failure inside `Store.project` may hand it back at once.
- The initial fill of the owner's lifecycle by onboarding is `EnsureOnboardingOwner`
  only. `LoginMoves`, a departure and an activation that a login makes when it finds the profile missing or
  there on the PDS, write profile rows in the same transaction and are not modelled;
  `StoreConstants` keeps them out of `Shifts`.
- Frames that do not decode, identity events and quarantine replay are not modelled.
- Memory of the processes is what `ing`, `proj` and `rep` hold; everything else is in the
  database and survives a crash.

Command plane: a record has one of four contents and its CID is its content; the waiting time of
a rate limit is left out; the onboarding profile service and the older effect executor
(`pdseffects`) are not modelled, and uploads of blobs are one step of ScheduledPosts. The fallback
from one reader to another is left out.

Schedule, account and push:

- One owner; the limit of three posts is left out, and times are phases: due at any time, a day and
  thirty days as the end of a clock. Delays between retries are left out.
- The command plane below a publication is one row per version with `none`, `open`, `accepted`
  and `rejected`. `PdsCommands` shows what that rests on: `RetriesApplyOnce` for appends.
- Records are the posts of the schedule. What `DatabasePrivateCleanup` deletes table by table is
  left out but for notifications and devices; so are moderation evidence and billing.
- Sessions are the credential of the deletion, the auth epoch, and the cleanup jobs of logouts.
- Push follows one recipient and one actor, and a device has the account of the recipient only. Blocks and follows
  decide like mutes and preferences and are left out, as are payloads, chat pushes (a queue of its
  own in `chat/`) and moderation notices. `Activate` reads preferences, mutes and devices in one step,
  and so do the checks before a call. `RegisterNotificationDevice` cancels deliveries without clearing
  their lease columns, the model clears them; nothing reads them of a cancelled delivery. The private purge waits for
  fan-outs that refer to its devices, as their foreign keys make it.

Not modelled, and why: quarantine replay is an operator's command whose events enter ingestion like deliveries;
set aggregates, moderation, safety incidents, subscriptions and chat are separate
workflows that touch the modelled tables only through the lifecycle and are in the plan; media processing, the HTTP
API, imports, observability and the clients are I/O with little state of their own. Generated
code (`lexicon/`, `chatdb/`), configuration and metrics make up much of the repository's lines and
have no behaviour of their own.

## 8. Plan

1. Done: the pipeline; the command plane with its promise; the schedule, the account and push, composed;
   the proofs of section 5.
2. Done: `ServingPromise`, which TapPipeline is shown to implement, and the proofs of all safety
   properties that the runs check.
3. `QuarantineReplay` and the set aggregates, with the double read of the subject.
4. Ordinary sessions: handoffs, refresh and revocation against the auth epoch.
5. Chat deliveries and moderation effects, whose leased queues follow `PushDeliveries`.
6. The moves of logins (`LoginMoves`) with the profile row they write, and the parts of
   `TapDeliveryProofs` that would still hold beside repairs (reads of uncontested records).
