--------------------------- MODULE RepositoryRepair ---------------------------
(***************************************************************************)
(* The repository worker (ingestion/workers.go, repository_jobs.go,        *)
(* app/tap_repository.go) and repository repair (repository_repair.go,     *)
(* reconciliation.go).                                                     *)
(*                                                                         *)
(* A pds_reconcile job fetches the whole repository, compares it with the  *)
(* retained sources as it reads them once, then reconciles or ingests one  *)
(* record at a time, and last claims and projects every source that is not *)
(* newer than the snapshot.  Live ingestion, projection workers and owner  *)
(* transitions run between any two of those steps.  The code goes through  *)
(* the records in the order of their URIs; the model takes any order.      *)
(***************************************************************************)
EXTENDS RecordIngestion, Projection

VARIABLE rep  \* per repository worker, its claim and the repair it runs

\* The first failing step sends the worker to "failed".
RepPhases == {"idle", "claimed", "fetched", "apply", "drain", "failed"}
NoRep == [phase |-> "idle", kind |-> "none", snap |-> 0, view |-> <<>>,
          todo |-> {}, target |-> Owner, seen |-> NoLife]

RepInit == rep = [w \in RWorkers |-> NoRep]

Fail(w) == rep' = [rep EXCEPT ![w] = [NoRep EXCEPT !.phase = "failed", !.kind = rep[w].kind]]

\* The lease of the job is still the worker's.  A wrong version finds the job
\* by its kind alone.
HoldsByKind(w) == rjob[rep[w].kind].st # "none"
Holds(w) ==
    LET j == rjob[rep[w].kind] IN j.st = "processing" /\ j.holder = w /\ j.live

ClaimRepository(w, kind) ==
    /\ rep[w].phase = "idle"
    /\ rjob[kind].st = "pending" \/ Expired(rjob[kind])
    /\ rjob' = [rjob EXCEPT ![kind] = [st |-> "processing", holder |-> w, live |-> TRUE]]
    /\ rep' = [rep EXCEPT ![w].phase = "claimed", ![w].kind = kind]
    /\ UNCHANGED <<life, src, job, served, alerts, quarantined, ing, proj>>

\* The end of runRepositoryJob; a lost lease only drops the result.
Finish(w, st) ==
    /\ rjob' = IF Holds(w) THEN [rjob EXCEPT ![rep[w].kind] = RepositoryJob(st)] ELSE rjob
    /\ rep' = [rep EXCEPT ![w] = NoRep]
    /\ UNCHANGED <<life, src, job, served, alerts, quarantined, ing, proj>>

AddRepo(w) ==
    /\ rep[w].phase = "claimed" /\ rep[w].kind = "tap_add_repo"
    /\ Finish(w, "complete")

CompleteRepository(w) ==
    /\ rep[w].phase = "drain" /\ rep[w].todo = {} /\ proj[w].phase = "idle"
    /\ Finish(w, "complete")

RescheduleRepository(w) ==
    /\ rep[w].phase = "failed"
    /\ Finish(w, "pending")

----------------------------------------------------------------------------
(* The comparison with the snapshot.                                       *)

FetchSnapshot(w) ==
    /\ rep[w].phase = "claimed" /\ rep[w].kind = "pds_reconcile"
    /\ rep' = [rep EXCEPT ![w].phase = "fetched", ![w].snap = Latest]
    /\ UNCHANGED <<storeVars, ing, proj>>

\* DescribeRepositoryRepair takes a deleted source for an absent one, and
\* describes no record that is absent on both sides.
Described(u, snap) == BodyAt(u, snap) # 0 \/ src[u].body # 0

\* A wrong version of NeedsRepair: what agrees is left out whatever its order.
NeedsRepairByContent(u, snap) ==
    /\ Described(u, snap)
    /\ src[u].rev <= snap
    /\ ~ (src[u].body = BodyAt(u, snap) /\ src[u].gen = life.gen)

\* RepositoryRepair.Apply leaves out what is newer than the snapshot, and
\* what agrees with it under the current generation.
NeedsRepair(u, snap) ==
    /\ Described(u, snap)
    /\ src[u].rev <= snap
    /\ ~ (/\ src[u].body = BodyAt(u, snap)
          /\ src[u].ord = "authoritative"
          /\ src[u].gen = life.gen)

DescribeRepair(w) ==
    /\ rep[w].phase = "fetched"
    /\ rep' = [rep EXCEPT ![w].phase = "apply", ![w].view = src,
                          ![w].todo = {u \in Uris : NeedsRepair(u, rep[w].snap)}]
    /\ UNCHANGED <<storeVars, ing, proj>>

Between(w) == rep[w].phase = "apply" /\ rep[w].target = Owner /\ ing[w].phase = "idle"

----------------------------------------------------------------------------
(* One record that has a source: ReconcileSource.                          *)

Known(w, u) == rep[w].view[u] # NoRow

StartReconcile(w, u) ==
    /\ Between(w) /\ u \in rep[w].todo /\ Known(w, u)
    /\ ~SharedFence
    /\ rep' = [rep EXCEPT ![w].target = u, ![w].seen = life]
    /\ UNCHANGED <<storeVars, ing, proj>>

\* The snapshot's version, under the identity of the source it replaces.
Observed(w) ==
    LET u == rep[w].target
        body == BodyAt(u, rep[w].snap)
    IN [uri |-> u, id |-> rep[w].view[u].id, rev |-> rep[w].snap,
        act |-> IF body = 0 THEN "delete" ELSE "update", body |-> body]

\* ExpectedEventID and ExpectedFingerprint against the locked row.
StillExpected(w) ==
    LET u == rep[w].target
        old == rep[w].view[u]
    IN /\ src[u].id = old.id /\ src[u].rev = old.rev
       /\ src[u].act = old.act /\ src[u].body = old.body

ReconcilePlan(state, act) ==
    IF state = "terminal" THEN Denied
    ELSE IF act # "delete" /\ state # "active" THEN Departed
    ELSE Eligible

ReconcileTransitions(w) ==
    LET seen == rep[w].seen.state IN
    /\ seen # "terminal"
    /\ Profile(rep[w].target)
    /\ ProfileTransition(seen, Observed(w).act) # seen

\* The transaction of ReconcileSource: the lifecycle transition of a profile
\* under the exclusive fence, everything else under the shared one.  What it
\* writes stays even when the outcome makes the repair fail.
ReconcileSource(w) ==
    LET ev == Observed(w)
        moves == ReconcileTransitions(w)
        after == IF moves
                 THEN [state |-> ProfileTransition(life.state, ev.act), gen |-> life.gen + 1]
                 ELSE life
        plan == ReconcilePlan(after.state, ev.act)
        admitted == /\ moves => life.gen = rep[w].seen.gen
                    /\ life.state = "terminal" => rep[w].seen.state = "terminal"
    IN
    /\ rep[w].target # Owner
    /\ ~RowLocked(ev.uri)
    /\ ev.act = "delete" => ~PostFenced(ev.uri)
    /\ moves => ~SharedFence
    /\ IF admitted /\ StillExpected(w) /\ job[<<ev.uri, "serving">>].id = ev.id
       THEN /\ life' = after
            /\ InstallSource(ev.uri, SourceRow(ev, plan, after.gen), plan)
            /\ IF OutcomeOf(plan.st) = "applied"
               THEN rep' = [rep EXCEPT ![w].target = Owner, ![w].seen = NoLife,
                                       ![w].todo = @ \ {ev.uri}]
               ELSE Fail(w)
       ELSE Fail(w) /\ UNCHANGED <<life, src, job>>
    /\ UNCHANGED <<rjob, served, alerts, quarantined, ing, proj>>

----------------------------------------------------------------------------
(* One record without a source: an ordinary ingestion of a create.         *)

StartCreate(w, u) ==
    /\ Between(w) /\ u \in rep[w].todo /\ ~Known(w, u)
    /\ BeginIngest(w, FoundEvent("repair", u, rep[w].snap))
    /\ UNCHANGED <<src, job, rjob, served, alerts, quarantined, proj, rep>>

FinishCreate(w) ==
    /\ ing[w].phase = "answered"
    /\ ing' = [ing EXCEPT ![w] = NoIng]
    /\ IF ing[w].out = "applied"
       THEN rep' = [rep EXCEPT ![w].todo = @ \ {ing[w].ev.uri}]
       ELSE Fail(w)
    /\ UNCHANGED <<storeVars, proj>>

----------------------------------------------------------------------------
(* Projection of what the snapshot covers.                                 *)

StartDrain(w) ==
    /\ Between(w) /\ rep[w].todo = {}
    /\ rep' = [rep EXCEPT ![w].phase = "drain", ![w].view = <<>>,
                          ![w].todo = {u \in Uris : Exists(u) /\ src[u].rev <= rep[w].snap}]
    /\ UNCHANGED <<storeVars, ing, proj>>

\* claimProjectionSource: settled work is passed over, work that somebody
\* else holds makes the repair fail.
ClaimSource(w, u) ==
    LET k == <<u, "serving">> IN
    /\ rep[w].phase = "drain" /\ u \in rep[w].todo /\ proj[w].phase = "idle"
    /\ ~Open(k)
    /\ IF job[k].id = src[u].id /\ (job[k].st \in {"pending", "blocked"} \/ Expired(job[k]))
       THEN Take(w, k) /\ rep' = [rep EXCEPT ![w].todo = @ \ {u}]
       ELSE /\ IF job[k].st \in {"complete", "permanent_denied"}
               THEN rep' = [rep EXCEPT ![w].todo = @ \ {u}] ELSE Fail(w)
            /\ UNCHANGED <<job, proj>>
    /\ UNCHANGED <<life, src, rjob, served, alerts, quarantined, ing>>

ProjectSource(w) ==
    \/ (OpenProjection(w) \/ CommitProjection(w)) /\ UNCHANGED rep
    \/ LoseLease(w) /\ Fail(w)

----------------------------------------------------------------------------

Repair(w) ==
    /\ \/ \E kind \in RepositoryKinds : ClaimRepository(w, kind)
       \/ AddRepo(w) \/ CompleteRepository(w) \/ RescheduleRepository(w)
       \/ FetchSnapshot(w) \/ DescribeRepair(w)
       \/ \E u \in Uris : StartReconcile(w, u) \/ StartCreate(w, u) \/ ClaimSource(w, u)
       \/ ReconcileSource(w) \/ FinishCreate(w) \/ StartDrain(w) \/ ProjectSource(w)
    /\ UNCHANGED <<repoVars, faults>>

\* A remote call fails or the job's deadline passes: what is open rolls back
\* and the job is rescheduled.
InterruptRepair(w) ==
    /\ rep[w].phase \notin {"idle", "failed"}
    /\ Fault
    /\ Fail(w)
    /\ ing' = [ing EXCEPT ![w] = NoIng]
    /\ proj' = [proj EXCEPT ![w] = NoProj]
    /\ UNCHANGED <<storeVars, repoVars>>

\* The process dies; only the lease it took remains.
CrashRepair(w) ==
    /\ rep[w].phase # "idle"
    /\ Fault
    /\ rep' = [rep EXCEPT ![w] = NoRep]
    /\ ing' = [ing EXCEPT ![w] = NoIng]
    /\ proj' = [proj EXCEPT ![w] = NoProj]
    /\ UNCHANGED <<storeVars, repoVars>>

LapseRepository(kind) ==
    /\ rjob[kind].st = "processing" /\ rjob[kind].live
    /\ rjob' = [rjob EXCEPT ![kind].live = FALSE]
    /\ UNCHANGED <<life, src, job, served, alerts, quarantined, ing, proj, repoVars, rep>>

Repairing(kind) == {w \in RWorkers : rep[w].phase # "idle" /\ rep[w].kind = kind}

ExpireRepositoryLease(kind) ==
    rjob[kind].holder \notin Repairing(kind) /\ LapseRepository(kind) /\ UNCHANGED faults

OutrunRepositoryLease(kind) ==
    rjob[kind].holder \in Repairing(kind) /\ Fault /\ LapseRepository(kind)

Views == {<<>>} \cup [Uris -> Rows]
Repairs == [phase : RepPhases, kind : RepositoryKinds \cup {"none"},
            snap : 0..MaxRev, view : Views,
            todo : SUBSET Uris, target : Uris \cup {Owner}, seen : Lives]
RepTypeOK == rep \in [RWorkers -> Repairs]
=============================================================================
