----------------------------- MODULE TapPipeline -----------------------------
(***************************************************************************)
(* The Tap pipeline of the AppView as a whole: the Tap consumer, the       *)
(* projection workers and the repository workers over the shared tables,   *)
(* with the owner writing to the repository, Tap reading it again, other   *)
(* subsystems moving the owner's lifecycle, and a bounded number of        *)
(* faults.                                                                 *)
(***************************************************************************)
EXTENDS RepositoryRepair

vars == <<repoVars, storeVars, faults, ing, proj, rep>>

Init == RepoInit /\ StoreInit /\ IngInit /\ ProjInit /\ RepInit

\* CancelIntentParticipant: a cancelled account deletion goes back to active
\* if the profile is still there, and to departed if it is not.
Admitted(to) ==
    life.state = "deletion_pending" /\ to \in {"active", "departed"}
        => (to = "active") = Member

\* Account deletion and terminalization, as far as ingestion sees them: a new
\* state and a new generation under the exclusive owner fence.
OwnerTransition(to) ==
    /\ <<life.state, to>> \in Shifts
    /\ life.gen < MaxGen
    /\ ~SharedFence
    /\ Admitted(to)
    /\ life' = [state |-> to, gen |-> life.gen + 1]
    /\ UNCHANGED <<src, job, rjob, served, alerts, quarantined, faults,
                   ing, proj, rep, repoVars>>

\* A confirmed login or the operator's command line asks for repository work.
RequestRepository(kind) ==
    /\ kind \in Requests
    /\ life # NoLife
    /\ Fault
    /\ rjob' = WithRequest(kind)
    /\ UNCHANGED <<life, src, job, served, alerts, quarantined, ing, proj, rep, repoVars>>

External ==
    \/ /\ \/ \E u \in Uris, writes \in BOOLEAN : Commit(u, writes)
          \/ Resync
       /\ UNCHANGED <<storeVars, faults, ing, proj, rep>>
    \/ \E to \in States : OwnerTransition(to)
    \/ \E kind \in RepositoryKinds : RequestRepository(kind)

Consume ==
    /\ \/ \E ev \in Deliverable : Deliver(ev)
       \/ Ingest(Consumer)
       \/ Reply
    /\ UNCHANGED rep

ProjectNext(w) == Project(w) /\ UNCHANGED rep

RepairNext(w) ==
    \/ Repair(w)
    \/ Ingest(w) /\ UNCHANGED rep

Expire ==
    \/ \E k \in JobKeys : ExpireLease(k) /\ UNCHANGED rep
    \/ \E kind \in RepositoryKinds : ExpireRepositoryLease(kind)

Faulty ==
    \/ Disconnect /\ UNCHANGED rep
    \/ \E w \in Workers : FailProjection(w) /\ UNCHANGED rep
    \/ \E w \in Workers : CrashWorker(w) /\ UNCHANGED rep
    \/ \E w \in RWorkers : InterruptRepair(w) \/ CrashRepair(w)
    \/ \E k \in JobKeys : OutrunLease(k) /\ UNCHANGED rep
    \/ \E kind \in RepositoryKinds : OutrunRepositoryLease(kind)

Next ==
    \/ External
    \/ Consume
    \/ \E w \in Workers : ProjectNext(w)
    \/ \E w \in RWorkers : RepairNext(w)
    \/ Expire
    \/ Faulty

Spec == Init /\ [][Next]_vars

\* What the processes do on their own.  Tap keeps sending what it has no ACK
\* for, the workers poll and take the oldest work first, and an abandoned
\* lease runs out.  Advisory and row locks are granted in the order they are
\* asked for, so a step that is enabled again and again is not passed over
\* forever (SF).  Nothing is assumed of the owner, of logins and operators,
\* of lifecycle transitions or of faults.
Fairness ==
    /\ \A u \in Uris :
           SF_vars(\E ev \in Deliverable : ev.uri = u /\ Deliver(ev) /\ UNCHANGED rep)
    /\ SF_vars(Ingest(Consumer) /\ UNCHANGED rep)
    /\ WF_vars(Reply /\ UNCHANGED rep)
    /\ \A k \in JobKeys :
           SF_vars(\E w \in Workers : Claim(w, k) /\ UNCHANGED <<repoVars, faults, rep>>)
    /\ \A w \in Workers : SF_vars(proj[w].phase # "idle" /\ ProjectNext(w))
    /\ \A w \in RWorkers : SF_vars(RepairNext(w))
    /\ \A k \in JobKeys : WF_vars(ExpireLease(k) /\ UNCHANGED rep)
    /\ \A kind \in RepositoryKinds : WF_vars(ExpireRepositoryLease(kind))

FairSpec == Spec /\ Fairness

----------------------------------------------------------------------------
(* Safety.                                                                 *)

\* Every table and every actor is in a state of its type.
TypeOK == RepoTypeOK /\ StoreTypeOK /\ IngTypeOK /\ ProjTypeOK /\ RepTypeOK

\* Every retained record has exactly one serving job, and every job of the
\* record, its notification job too, is about the version that is retained:
\* a job left over from an older version would project the wrong one
\* (installSourceProjectionTx and resetPostNotificationJob in one
\* transaction, lifecycle denial and conflicts that keep the version).
JobsFollowSource ==
    /\ \A u \in Uris : Exists(u) <=> JobExists(<<u, "serving">>)
    /\ \A k \in JobKeys : JobExists(k) => job[k].id = src[k[1]].id

\* Whoever is inside a projection transaction is its record's only writer:
\* nobody else is inside one for the record or holds its row, the claim is
\* still on the job and the version is the one that was claimed, however many
\* workers, expired leases, repairs and deliveries there are
\* (Store.project and its locks).
ProjectionIsExclusive ==
    \A w \in Projectors : proj[w].phase = "open" =>
        LET k == proj[w].key IN
        /\ src[k[1]].id = proj[w].id
        /\ job[k].st = "processing" /\ job[k].holder = w
        /\ \A v \in Projectors \ {w} : proj[v].phase = "open" => proj[v].key[1] # k[1]
        /\ \A i \in Ingestors : ing[i].phase = "open" /\ ing[i].locked => ing[i].ev.uri # k[1]

\* What Tap holds an ACK for is not lost: the retained version is at least as
\* new as every acknowledged one (the consumer ACKs after the commit).
AckedIsRetained == \A u \in Uris : src[u].rev >= acked[u]

\* A completed serving job tells the truth: the serving tables show the body
\* of the retained version (Store.project writes both in one transaction and
\* a new version reopens the job).
CompletedIsServed ==
    \A u \in Uris : job[<<u, "serving">>].st = "complete" => served[u] = src[u].body

\* Active notifications belong to a post that is being served: they are made
\* by a job of their own and must go with the post (ProjectNotifications,
\* CraftskyPost.handleDelete).
AlertsFollowServed == \A u \in Posts : alerts[u] => served[u] # 0

\* A record is refused with quarantine evidence for its version or because
\* its owner is terminal, never silently (Store.project, quarantineSourceTx).
RefusalLeavesEvidence ==
    \A u \in Uris :
        job[<<u, "serving">>].st = "permanent_denied" =>
            \/ life.state = "terminal"
            \/ [uri |-> u, id |-> src[u].id] \in quarantined

Requested(kind) == rjob[kind].st \in {"pending", "processing"}

\* Whatever waits for the repository has a repair ahead of it: a version of
\* uncertain order, and every job but that of a delete that is blocked on the
\* repository.  A repair that read the repository before the request came must
\* not count as having served it (enqueueRepositoryJob, runRepositoryJob).
RepairIsOwed ==
    \A k \in JobKeys :
        \/ src[k[1]].ord = "uncertain" /\ src[k[1]].disp # "denied_terminal"
        \/ job[k].st = "blocked" /\ job[k].dep = OnRepository /\ src[k[1]].act # "delete"
        => Requested("pds_reconcile")

IsIdle(w) == proj[w].phase = "idle"

\* Nothing is left to do.
Quiet ==
    /\ cursor = Latest /\ resync = {}
    /\ \A i \in Ingestors : ing[i].phase = "idle"
    /\ \A w \in Projectors : IsIdle(w)
    /\ \A u \in Uris : job[<<u, "serving">>].st \notin {"pending", "processing"}
    /\ \A w \in RWorkers : rep[w].phase = "idle"
    /\ ~Requested("pds_reconcile")

\* When nothing is left to do, a completed record is served as it is at the
\* head of the repository, after any redelivery, reordering, crash or resync.
\* A resync reports no deletes, so what was deleted before one is left out.
QuietServesHead ==
    Quiet => \A u \in Uris :
        job[<<u, "serving">>].st = "complete" /\ (BodyAt(u, Latest) # 0 \/ resyncs = 0)
            => served[u] = BodyAt(u, Latest)

\* A step that shows a body in the serving tables shows the authoritative
\* version of an active owner that was ingested under the present generation,
\* also when the owner's lifecycle or the source moved since the claim
\* (projectionEligibility, projectionLifecycleReady).
ServesOnlyCurrent ==
    [][\A u \in Uris : served'[u] # served[u] /\ served'[u] # 0 =>
          /\ life'.state = "active"
          /\ src'[u].gen = life'.gen
          /\ src'[u].ord = "authoritative"]_vars

\* A step that shows a post or a like in the serving tables leaves its owner
\* a member.  Membership is read when the projection opens and is not locked:
\* what protects it is that the owner's lifecycle leaves active, under the
\* exclusive fence, before the profile row can go (projectionMemberReady,
\* Service.IngestRecord, CraftskyProfile.handleDelete).
ServesOnlyMembers ==
    [][\A u \in Uris : ~Profile(u) /\ served'[u] # served[u] /\ served'[u] # 0
          => Member']_vars

\* With the consumer as the only ingestor, the pipeline is a promise to readers.
Reader == INSTANCE ServingPromise WITH
    Profiles <- {u \in Uris : Profile(u)},
    Likes <- {u \in Uris : Collection[u] = "like"},
    known <- [u \in Uris |-> src[u].rev],
    shown <- served,
    active <- life.state = "active"
KeepsPromise == Reader!Spec

----------------------------------------------------------------------------
(* Liveness.                                                               *)

\* Every commit is acknowledged in the end: no event can be refused forever,
\* which would hold back all later commits of the repository.
EveryEventAcknowledged == <>[](cursor = Latest /\ resync = {})

\* Work on a record settles, through crashes and expired leases: a serving
\* job that is pending or claimed is eventually complete, blocked or refused.
EveryJobSettles ==
    \A u \in Uris :
        job[<<u, "serving">>].st \in {"pending", "processing"}
            ~> job[<<u, "serving">>].st \in {"complete", "blocked", "permanent_denied"}

\* An uncertain order is decided in the end by the repository or by a newer
\* event, although the repair may be interrupted or asked for again
\* (RepositoryRepair.Apply, ReconcileSource).
UncertaintyEnds == \A u \in Uris : src[u].ord = "uncertain" ~> src[u].ord = "authoritative"

----------------------------------------------------------------------------
(* What the documents promise and the code does not keep.                  *)

\* docs/tap-ingestion-durability-flow.md:92-97: an ordering conflict marks
\* the source uncertain, blocks it on the repository, asks for a repair and
\* is acknowledged (RecogniseConflict is the transaction that answers).
ConflictsAreRecorded ==
    [][\A i \in Ingestors :
          InShared(i) /\ Decision(i) = "conflict" /\ ing'[i].phase = "answered"
              => src'[ing[i].ev.uri].ord = "uncertain"]_vars

\* AV-004_AV-005-tap-ingestion-durability.md:174: work that came before what
\* it depends on converges once that has arrived.  When nothing is left to do
\* and the owner is an active member, no record waits for the membership or
\* for a subject that is being served (wakeDependencyTx).
DependenciesConverge ==
    Quiet /\ life.state = "active" =>
        \A u \in Uris : LET j == job[<<u, "serving">>] IN
            j.st = "blocked" =>
                /\ ~(j.dep = OnMember /\ Member)
                /\ \A s \in Uris : ~(j.dep = OnSubject(s) /\ served[s] # 0)

\* AV-004_AV-005-tap-ingestion-durability.md:129: an older delivery cannot
\* replace newer state (installSourceProjectionTx).
OlderNeverReplacesNewer == [][\A u \in Uris : src'[u].rev >= src[u].rev]_vars

\* 01-requirements.md:299, AC-045: after a repair from a complete snapshot,
\* records the snapshot omits are removed (RepositoryRepair.Apply).  What is
\* newer than the snapshot, still to be delivered or still being projected
\* is left out.
RepairRemovesOmitted ==
    [][\A w \in RWorkers :
          /\ rep[w].phase = "drain" /\ rep'[w].phase = "idle"
          /\ rjob["pds_reconcile"].st = "processing"
          /\ rjob'["pds_reconcile"].st = "complete"
          /\ life.state = "active"
          => \A u \in Uris :
                /\ BodyAt(u, rep[w].snap) = 0
                /\ cursor >= rep[w].snap /\ src[u].rev <= rep[w].snap
                /\ job[<<u, "serving">>].st \notin {"pending", "processing"}
                => served[u] = 0]_vars
=============================================================================
