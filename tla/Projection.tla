----------------------------- MODULE Projection ------------------------------
(***************************************************************************)
(* Projection of retained sources into the serving tables: the claims of   *)
(* the projection workers (ingestion/workers.go, Store.ClaimProjectionJobs)*)
(* and the transaction Store.project with the projectors of                *)
(* appview/internal/index.  Repository repair runs the same transaction    *)
(* with a claim of its own.                                                *)
(*                                                                         *)
(* The transaction is two steps.  OpenProjection takes the locks, checks   *)
(* the lease and the source version, and decides; what it reads of other   *)
(* records (membership, a subject) is not locked.  CommitProjection        *)
(* applies what was decided.  A lease is a holder and a flag that falls    *)
(* when the lease expires; a holder never has two claims.                  *)
(***************************************************************************)
EXTENDS TapStore

Effects == {"none", "serve", "remove", "alert", "retract"}

\* What a projection decides: its outcome, the dependency it waits for,
\* whether it asks for a repair, what it does to the serving tables and
\* whether it leaves quarantine evidence.
Result(kind, dep, effect) ==
    [kind |-> kind, dep |-> dep, repair |-> FALSE, effect |-> effect,
     evidence |-> FALSE]
Applied(effect) == Result("applied", NoDep, effect)
Blocked(dep) == Result("blocked", dep, "none")
Refused == Result("permanent_invalid", NoDep, "none")
\* What is malformed is refused with evidence; a wrong version keeps none.
RefusedSilently(effect) == [Refused EXCEPT !.effect = effect]
RefusedMalformed(effect) == [Refused EXCEPT !.effect = effect, !.evidence = TRUE]

NoKey == <<Owner, "none">>
NoProj == [phase |-> "idle", key |-> NoKey, id |-> NoId, res |-> Refused]

ProjInit == proj = [w \in Projectors |-> NoProj]

Working(k) == {w \in Projectors : proj[w].phase # "idle" /\ proj[w].key = k}
Open(k) == \E w \in Projectors : proj[w].phase = "open" /\ proj[w].key = k

Take(w, k) ==
    /\ job' = [job EXCEPT ![k] = Claimed(@, w, @.id)]
    /\ proj' = [proj EXCEPT ![w] = [NoProj EXCEPT !.phase = "claimed", !.key = k,
                                                  !.id = job[k].id]]

\* A wrong version of it: nobody takes over what was claimed.
ExpiredNever(j) == j.st = "processing" /\ FALSE

Expired(j) == j.st = "processing" /\ ~j.live

\* ClaimProjectionJobs: pending work, work whose lease expired, and once a
\* minute the notification jobs that are blocked.  Locked jobs are skipped.
Claim(w, k) ==
    /\ proj[w].phase = "idle"
    /\ ~Open(k)
    /\ \/ job[k].st = "pending"
       \/ Expired(job[k])
       \/ job[k].st = "blocked" /\ k[2] = "notify"
    /\ Take(w, k)
    /\ UNCHANGED <<life, src, rjob, served, alerts, quarantined, ing>>

\* A wrong version of it: the version is checked and the holder is not.
LeaseValidForAnyone(w) ==
    LET k == proj[w].key IN
    src[k[1]].id = proj[w].id /\ job[k].id = proj[w].id

\* The claim still holds when the transaction has its locks.
LeaseValid(w) ==
    LET k == proj[w].key IN
    /\ src[k[1]].id = proj[w].id
    /\ job[k].st = "processing" /\ job[k].holder = w /\ job[k].live
    /\ job[k].id = proj[w].id

----------------------------------------------------------------------------
(* The decision.                                                           *)

\* A wrong version of it: the generation is compared and the state is not.
EligibilityOfGeneration(row) ==
    IF life.state = "none" THEN Blocked(OnMember)
    ELSE IF life.state = "terminal" \/ row.disp = "denied_terminal" THEN Refused
    ELSE IF row.act = "delete" THEN Applied("none")
    ELSE IF row.gen # life.gen \/ row.ord = "uncertain"
    THEN [Blocked(OnRepository) EXCEPT !.repair = TRUE]
    ELSE Applied("none")

\* projectionEligibility; Applied stands for "go on and project".
Eligibility(row) ==
    IF life.state = "none" THEN Blocked(OnMember)
    ELSE IF life.state = "terminal" \/ row.disp = "denied_terminal" THEN Refused
    ELSE IF row.act = "delete" THEN Applied("none")
    ELSE IF life.state # "active" THEN Blocked(OnMember)
    ELSE IF row.gen # life.gen \/ row.ord = "uncertain"
    THEN [Blocked(OnRepository) EXCEPT !.repair = TRUE]
    ELSE Applied("none")

\* CraftskyProfile, CraftskyPost and CraftskyLike.
ServingProjector(u, act) ==
    IF act = "delete" THEN Applied("remove")
    ELSE IF Profile(u) THEN Applied("serve")
    ELSE IF ~Member THEN Blocked(OnMember)
    ELSE IF Collection[u] = "like" /\ served[Subject[u]] = 0
    THEN [Blocked(OnSubject(Subject[u])) EXCEPT !.effect = "remove"]
    ELSE Applied("serve")

\* ProjectNotifications: only for the version of the post being served.
NotificationProjector(u, act) ==
    IF act = "delete" THEN Applied("retract")
    ELSE IF served[u] # src[u].body THEN Blocked(OnSubject(u))
    ELSE Applied("alert")

\* TransactionalDispatcher.Project: a malformed record is refused, which for
\* everything but the profile first removes what the record served; a source
\* of another generation waits for the repository.
Dispatch(k) ==
    LET u == k[1]
        bad == IsMalformed(src[u].act, src[u].body)
        act == IF bad THEN "delete" ELSE src[u].act
        res == IF k[2] = "serving" THEN ServingProjector(u, act)
               ELSE NotificationProjector(u, act)
    IN
    IF bad /\ Profile(u) THEN RefusedMalformed("none")
    ELSE IF src[u].gen # life.gen THEN Blocked(OnRepository)
    ELSE IF bad THEN RefusedMalformed(res.effect)
    ELSE res

Decide(k) ==
    LET gate == Eligibility(src[k[1]]) IN
    IF gate.kind = "applied" THEN Dispatch(k) ELSE gate

----------------------------------------------------------------------------

OpenProjection(w) ==
    /\ proj[w].phase = "claimed"
    /\ ~RowLocked(proj[w].key[1]) /\ ~PostFenced(proj[w].key[1])
    /\ LeaseValid(w)
    /\ proj' = [proj EXCEPT ![w].phase = "open", ![w].res = Decide(proj[w].key)]
    /\ UNCHANGED <<storeVars, ing>>

\* ErrProjectionLeaseLost.
LoseLease(w) ==
    /\ proj[w].phase = "claimed"
    /\ ~RowLocked(proj[w].key[1]) /\ ~PostFenced(proj[w].key[1])
    /\ ~LeaseValid(w)
    /\ proj' = [proj EXCEPT ![w] = NoProj]
    /\ UNCHANGED <<storeVars, ing>>

\* The serving tables after an effect on record u.
Served(u, effect) ==
    CASE effect = "serve" -> [served EXCEPT ![u] = src[u].body]
      [] effect = "remove" -> [served EXCEPT ![u] = 0]
      [] OTHER -> served

\* A wrong version of Alerted: the notifications of a deleted post stay.
AlertedAfterDelete(u, effect) ==
    CASE effect = "alert" -> [alerts EXCEPT ![u] = TRUE]
      [] effect = "retract" -> [alerts EXCEPT ![u] = FALSE]
      [] effect = "remove" /\ Profile(u) -> [v \in Uris |-> FALSE]
      [] OTHER -> alerts

\* Deleting a post retracts its notifications, deleting the profile removes
\* every notification of the owner.
Alerted(u, effect) ==
    CASE effect = "alert" -> [alerts EXCEPT ![u] = TRUE]
      [] effect = "retract" \/ (effect = "remove" /\ u \in Posts) ->
           [alerts EXCEPT ![u] = FALSE]
      [] effect = "remove" /\ Profile(u) -> [v \in Uris |-> FALSE]
      [] OTHER -> alerts

\* A wrong version of FinalState: the outcome is written as the status.
FinalStateIsOutcome(kind) == kind

FinalState(kind) ==
    CASE kind = "applied" -> "complete"
      [] kind = "blocked" -> "blocked"
      [] OTHER -> "permanent_denied"

\* The job settles and a post that went through its projector gets a
\* notification job, unless it has one.
Settled(k, res) ==
    LET done == [job EXCEPT ![k] = JobRow(FinalState(res.kind), res.dep, @.id)]
        aux == <<k[1], "notify">>
    IN IF k[2] = "serving" /\ k[1] \in Posts /\ res.effect # "none" /\ ~JobExists(aux)
       THEN [done EXCEPT ![aux] = JobRow("pending", NoDep, src[k[1]].id)]
       ELSE done

\* What the completion of k wakes.
Woken(k, jobs) ==
    IF k[2] = "notify" \/ src[k[1]].act = "delete" THEN jobs
    ELSE IF Profile(k[1]) THEN Wake(jobs, OnMember)
    ELSE IF k[1] \in Posts THEN Wake(jobs, OnSubject(k[1]))
    ELSE jobs

CommitProjection(w) ==
    LET k == proj[w].key
        res == proj[w].res
        jobs == Settled(k, res)
    IN
    /\ proj[w].phase = "open"
    /\ served' = Served(k[1], res.effect)
    /\ alerts' = Alerted(k[1], res.effect)
    /\ job' = IF res.kind = "applied" THEN Woken(k, jobs) ELSE jobs
    /\ rjob' = IF res.repair THEN WithRequest("pds_reconcile") ELSE rjob
    /\ quarantined' = IF res.evidence
                      THEN quarantined \cup {[uri |-> k[1], id |-> src[k[1]].id]}
                      ELSE quarantined
    /\ proj' = [proj EXCEPT ![w] = NoProj]
    /\ UNCHANGED <<life, src, ing>>

\* A projector or the database fails: the transaction rolls back and the job
\* is pending again, if the lease is still held.
FailProjection(w) ==
    LET k == proj[w].key IN
    /\ proj[w].phase = "open"
    /\ Fault
    /\ job' = IF job[k].st = "processing" /\ job[k].holder = w /\ job[k].live
              THEN [job EXCEPT ![k] = JobRow("pending", NoDep, @.id)] ELSE job
    /\ proj' = [proj EXCEPT ![w] = NoProj]
    /\ UNCHANGED <<life, src, rjob, served, alerts, quarantined, ing, repoVars>>

Project(w) ==
    /\ \/ \E k \in JobKeys : Claim(w, k)
       \/ OpenProjection(w) \/ LoseLease(w) \/ CommitProjection(w)
    /\ UNCHANGED <<repoVars, faults>>

\* A worker dies and is started again; only the lease it took remains.
CrashWorker(w) ==
    /\ proj[w].phase # "idle"
    /\ Fault
    /\ proj' = [proj EXCEPT ![w] = NoProj]
    /\ UNCHANGED <<storeVars, ing, repoVars>>

Lapse(k) ==
    /\ job[k].st = "processing" /\ job[k].live
    /\ job' = [job EXCEPT ![k].live = FALSE]
    /\ UNCHANGED <<life, src, rjob, served, alerts, quarantined, ing, proj, repoVars>>

\* A lease that nobody works under runs out.
ExpireLease(k) == job[k].holder \notin Working(k) /\ Lapse(k) /\ UNCHANGED faults

\* A holder is slower than its lease, which is a fault.
OutrunLease(k) == job[k].holder \in Working(k) /\ Fault /\ Lapse(k)

Results == [kind : {"applied", "blocked", "permanent_invalid"},
            dep : Dependencies, repair : BOOLEAN, effect : Effects,
            evidence : BOOLEAN]
Claims == [phase : {"idle", "claimed", "open"}, key : JobKeys \cup {NoKey},
           id : EventIds \cup {NoId}, res : Results]
ProjTypeOK == proj \in [Projectors -> Claims]
=============================================================================
