------------------------- MODULE TapDeliveryProofs -------------------------
(***************************************************************************)
(* What the pipeline owes, to the repository, to Tap and to readers.       *)
(*                                                                         *)
(* A record that waits for the repository has a repair ahead of it, for any*)
(* number of repairs (RequestsInv).  The rest is about the consumer as the *)
(* only ingestor, because a repair may replace a version by an older one:  *)
(* what Tap has an ACK for is retained (HeardInv); once nothing is left to *)
(* do, what is served is the head of the repository (DeliveryInv, which    *)
(* says what a record that is behind still has ahead of it); posts and     *)
(* likes are only shown for members (MembersInv); readers see what         *)
(* ServingPromise promises them (PromiseInv), and never an older version   *)
(* after a newer one.                                                      *)
(***************************************************************************)
EXTENDS TapPipelineProofs

----------------------------------------------------------------------------
(* The actors of a repair.                                                 *)

\* A repository worker runs a call of its own only while it applies a snapshot,
\* for a record that had no source, and projects only while it drains.
ActorInv(w) ==
    /\ ing[w].phase # "idle" =>
          /\ rep[w].phase = "apply" /\ rep[w].target = Owner
          /\ rep[w].view[ing[w].ev.uri] = NoRow
    /\ proj[w].phase # "idle" => rep[w].phase = "drain"
RepairActorsInv == \A w \in RWorkers : ActorInv(w)

\* A step that leaves the three parts of a worker alone.
ActorKept(w) == rep'[w] = rep[w] /\ ing'[w] = ing[w] /\ proj'[w] = proj[w]

\* What others do leaves the worker's parts alone.
LEMMA OthersKeepActor ==
    ASSUME TypeInv, NEW w \in RWorkers, NEW v, v # w, NEW a, NEW b, NEW c,
           rep' = rep \/ rep' = [rep EXCEPT ![v] = a],
           ing' = ing \/ ing' = [ing EXCEPT ![v] = b],
           proj' = proj \/ proj' = [proj EXCEPT ![v] = c]
    PROVE  ActorKept(w)
  BY DEF ActorKept, TypeInv, RepairsAreReady, RepTypeOK, CallsAreReady, IngTypeOK,
     ClaimsAreReady, ProjTypeOK, Ingestors, Projectors

\* A call of one actor is written by that actor.
LEMMA IngestIsOwn ==
    ASSUME NEW v, Ingest(v)
    PROVE  UNCHANGED proj /\ (ing' = ing \/ \E b : ing' = [ing EXCEPT ![v] = b])
<1>1. \A out : Answer(v, out) => \E b : ing' = [ing EXCEPT ![v] = b]
  BY DEF Answer
<1>2. OpenInstall(v) => \E b : ing' = [ing EXCEPT ![v] = b]
  BY DEF OpenInstall
<1>3. TransitionProfile(v) => \E b : ing' = [ing EXCEPT ![v] = b]
  BY <1>1 DEF TransitionProfile
<1> QED
  BY <1>1, <1>2, <1>3
  DEF Ingest, Recognise, RecogniseConflict, RejectWinner, OpenInstall, CommitInstall,
      TransitionProfile

\* So is a projection.
LEMMA ProjectIsOwn ==
    ASSUME NEW v, Project(v)
    PROVE  UNCHANGED ing /\ \E c : proj' = [proj EXCEPT ![v] = c]
<1>1. \A k : Take(v, k) => \E c : proj' = [proj EXCEPT ![v] = c]
  BY DEF Take
<1> QED
  BY <1>1 DEF Project, Claim, OpenProjection, LoseLease, CommitProjection

\* And a repair.
LEMMA RepairIsOwn ==
    ASSUME TypeInv, NEW v \in RWorkers, Repair(v)
    PROVE  /\ \E a : rep' = [rep EXCEPT ![v] = a]
           /\ ing' = ing \/ \E b : ing' = [ing EXCEPT ![v] = b]
           /\ proj' = proj \/ \E c : proj' = [proj EXCEPT ![v] = c]
<1>1. \E a : rep' = [rep EXCEPT ![v] = a]
  BY OwnRepairMoves
<1>2. ing' = ing \/ \E b : ing' = [ing EXCEPT ![v] = b]
  BY DEF Repair, ClaimRepository, AddRepo, CompleteRepository, RescheduleRepository, Finish,
     FetchSnapshot, DescribeRepair, StartReconcile, StartCreate, BeginIngest, ClaimSource,
     ReconcileSource, FinishCreate, StartDrain, ProjectSource, OpenProjection,
     CommitProjection, LoseLease
<1>3. proj' = proj \/ \E c : proj' = [proj EXCEPT ![v] = c]
  BY DEF Repair, ClaimRepository, AddRepo, CompleteRepository, RescheduleRepository, Finish,
     FetchSnapshot, DescribeRepair, StartReconcile, StartCreate, ClaimSource, Take,
     ReconcileSource, FinishCreate, StartDrain, ProjectSource, OpenProjection,
     CommitProjection, LoseLease
<1> QED
  BY <1>1, <1>2, <1>3

\* What a step can be to a repository worker.
LEMMA ActorSteps ==
    ASSUME TypeInv, [Next]_vars, NEW w \in RWorkers
    PROVE  \/ ActorKept(w) \/ Repair(w)
           \/ Ingest(w) /\ UNCHANGED rep
           \/ ing'[w].phase = "idle" /\ proj'[w].phase = "idle"
<1>1. w \in Ingestors /\ w \in Projectors /\ w # Consumer /\ w \notin Workers
  BY ActorsDiffer DEF Ingestors, Projectors
<1>2. CASE UNCHANGED <<rep, ing, proj>>
  BY <1>2 DEF ActorKept
<1>3. CASE Consume
  <2>1. UNCHANGED <<rep, proj>> /\ (ing' = ing \/ \E b : ing' = [ing EXCEPT ![Consumer] = b])
    BY <1>3, IngestIsOwn DEF Consume, Deliver, BeginIngest, Reply
  <2> QED
    BY <1>1, <2>1, OthersKeepActor
<1>4. ASSUME NEW v \in Workers, ProjectNext(v) PROVE ActorKept(w)
  BY <1>1, <1>4, ProjectIsOwn, OthersKeepActor DEF ProjectNext
<1>5. ASSUME NEW v \in RWorkers, RepairNext(v), v # w PROVE ActorKept(w)
  BY <1>1, <1>5, RepairIsOwn, IngestIsOwn, OthersKeepActor DEF RepairNext
<1>6. CASE UNCHANGED rep /\ (Disconnect \/ \E v \in Workers : FailProjection(v) \/ CrashWorker(v))
  <2>1. CASE Disconnect
    BY <1>1, <1>6, <2>1, OthersKeepActor DEF Disconnect
  <2>2. ASSUME NEW v \in Workers, FailProjection(v) \/ CrashWorker(v) PROVE ActorKept(w)
    BY <1>1, <1>6, <2>2, OthersKeepActor DEF FailProjection, CrashWorker
  <2> QED
    BY <1>6, <2>1, <2>2
<1>7. ASSUME NEW v \in RWorkers, InterruptRepair(v) \/ CrashRepair(v)
      PROVE  ActorKept(w) \/ (ing'[w].phase = "idle" /\ proj'[w].phase = "idle")
  <2>1. /\ \E a : rep' = [rep EXCEPT ![v] = a]
        /\ ing' = [ing EXCEPT ![v] = NoIng] /\ proj' = [proj EXCEPT ![v] = NoProj]
    BY <1>7 DEF InterruptRepair, CrashRepair, Fail
  <2>2. CASE v = w
    BY <1>1, <2>1, <2>2 DEF NoIng, NoProj, TypeInv, CallsAreReady, IngTypeOK,
       ClaimsAreReady, ProjTypeOK
  <2> QED
    BY <2>1, <2>2, OthersKeepActor
<1> QED
  BY <1>2, <1>3, <1>4, <1>5, <1>6, <1>7
  DEF vars, Next, External, OwnerTransition, RequestRepository, Expire, ExpireLease, Lapse,
      ExpireRepositoryLease, LapseRepository, Faulty, OutrunLease, OutrunRepositoryLease,
      RepairNext
\* A step of the repair itself keeps the worker's parts together.
LEMMA RepairKeepsActor ==
    ASSUME TypeInv, NEW w \in RWorkers, ActorInv(w), Repair(w)
    PROVE  ActorInv(w)'
<1>1. /\ w \in Ingestors /\ w \in Projectors
      /\ rep \in [RWorkers -> Repairs] /\ rep[w] \in Repairs
      /\ ing \in [Ingestors -> Calls] /\ proj \in [Projectors -> Claims]
  BY RepairFacts DEF Ingestors, Projectors, TypeInv, CallsAreReady, IngTypeOK, ClaimsAreReady,
     ProjTypeOK
<1>2. ASSUME ing[w].phase = "idle", proj[w].phase = "idle", UNCHANGED <<ing, proj>>
      PROVE  ActorInv(w)'
  BY <1>2 DEF ActorInv
<1>3. ASSUME NEW kind, ClaimRepository(w, kind) PROVE ActorInv(w)'
  BY <1>2, <1>3 DEF ClaimRepository, ActorInv
<1>4. CASE AddRepo(w) \/ CompleteRepository(w) \/ RescheduleRepository(w)
  BY <1>2, <1>4 DEF AddRepo, CompleteRepository, RescheduleRepository, Finish, ActorInv
<1>5. CASE FetchSnapshot(w) \/ DescribeRepair(w)
  BY <1>2, <1>5 DEF FetchSnapshot, DescribeRepair, ActorInv
<1>6. ASSUME NEW u, StartReconcile(w, u) PROVE ActorInv(w)'
  BY <1>2, <1>6 DEF StartReconcile, Between, ActorInv
<1>7. CASE StartDrain(w)
  BY <1>2, <1>7 DEF StartDrain, Between, ActorInv
<1>8. CASE ReconcileSource(w)
  <2>1. rep[w].phase = "apply" /\ rep[w].target # Owner
    BY <1>8 DEF ReconcileSource, TypeInv, RepairsAreReady
  <2> QED
    BY <1>2, <1>8, <2>1 DEF ReconcileSource, ActorInv
<1>9. ASSUME NEW u \in Uris, StartCreate(w, u) PROVE ActorInv(w)'
  <2>1. ing'[w].ev = FoundEvent("repair", u, rep[w].snap)
    BY <1>1, <1>9 DEF StartCreate, BeginIngest, NoIng
  <2>2. ing'[w].ev.uri = u
    BY <2>1 DEF FoundEvent
  <2> QED
    BY <1>9, <2>2 DEF StartCreate, Between, Known, ActorInv
<1>10. CASE FinishCreate(w)
  <2>1. ing'[w].phase = "idle" /\ proj[w].phase = "idle" /\ UNCHANGED proj
    BY <1>1, <1>10 DEF FinishCreate, NoIng, ActorInv
  <2> QED
    BY <2>1 DEF ActorInv
<1>11. ASSUME NEW u, ClaimSource(w, u) PROVE ActorInv(w)'
  <2>1. ing[w].phase = "idle" /\ proj[w].phase = "idle" /\ UNCHANGED ing /\ rep[w].phase = "drain"
    BY <1>11 DEF ClaimSource, ActorInv
  <2>2. CASE rep' = [rep EXCEPT ![w].todo = @ \ {u}]
    <3>1. rep'[w].phase = "drain"
      BY <1>1, <2>1, <2>2 DEF Repairs
    <3> QED
      BY <2>1, <3>1 DEF ActorInv
  <2>3. CASE UNCHANGED proj
    BY <1>2, <2>1, <2>3
  <2> QED
    BY <1>11, <2>2, <2>3 DEF ClaimSource
<1>12. CASE ProjectSource(w)
  <2>1. ing[w].phase = "idle" /\ UNCHANGED ing /\ rep[w].phase = "drain"
    BY <1>12 DEF ProjectSource, OpenProjection, CommitProjection, LoseLease, ActorInv
  <2>2. CASE UNCHANGED rep
    BY <2>1, <2>2 DEF ActorInv
  <2>3. CASE LoseLease(w)
    BY <1>1, <2>1, <2>3 DEF LoseLease, NoProj, ActorInv
  <2> QED
    BY <1>12, <2>2, <2>3 DEF ProjectSource
<1> QED
  BY <1>3, <1>4, <1>5, <1>6, <1>7, <1>8, <1>9, <1>10, <1>11, <1>12 DEF Repair

\* Every step does.
LEMMA NextKeepsActors ==
    ASSUME TypeInv, RepairActorsInv, [Next]_vars
    PROVE  RepairActorsInv'
<1>1. ASSUME NEW w \in RWorkers, Ingest(w), UNCHANGED rep PROVE ActorInv(w)'
  <2>1. ActorInv(w) /\ UNCHANGED proj
    BY <1>1, IngestIsOwn DEF RepairActorsInv
  <2>2. ing[w].phase # "idle" /\ (ing'[w].phase # "idle" => ing'[w].ev = ing[w].ev)
    <3>1. w \in Ingestors /\ ing \in [Ingestors -> Calls]
      BY DEF Ingestors, TypeInv, CallsAreReady, IngTypeOK
    <3>2. \A out : Answer(w, out) => ing'[w].ev = ing[w].ev
      BY <3>1 DEF Answer, NoIng
    <3>3. OpenInstall(w) \/ ing' = [ing EXCEPT ![w].phase = "recheck"] => ing'[w].ev = ing[w].ev
      BY <3>1 DEF OpenInstall, Calls
    <3> QED
      BY <1>1, <3>2, <3>3 DEF Ingest, Recognise, RecogniseConflict, RejectWinner, OpenInstall,
         CommitInstall, TransitionProfile, InShared, WantsTransition
  <2> QED
    BY <1>1, <2>1, <2>2 DEF ActorInv
<1>2. ASSUME NEW w \in RWorkers PROVE ActorInv(w)'
  <2>1. ActorInv(w)
    BY DEF RepairActorsInv
  <2>2. ActorKept(w) => ActorInv(w)'
    BY <2>1 DEF ActorKept, ActorInv
  <2>3. ing'[w].phase = "idle" /\ proj'[w].phase = "idle" => ActorInv(w)'
    BY DEF ActorInv
  <2> QED
    BY <1>1, <2>1, <2>2, <2>3, ActorSteps, RepairKeepsActor
<1> QED
  BY <1>2 DEF RepairActorsInv

----------------------------------------------------------------------------
(* Requests for a repair.                                                  *)

\* What becomes of a repository job in a step.
LEMMA RequestSteps ==
    ASSUME TypeInv, [Next]_vars, NEW kind \in RepositoryKinds
    PROVE  \/ rjob'[kind] = rjob[kind]
           \/ rjob'[kind] = RepositoryJob("pending")
           \/ rjob'[kind] = [rjob[kind] EXCEPT !.live = FALSE]
           \/ \E w \in RWorkers : ClaimRepository(w, kind)
           \/ \E w \in RWorkers : /\ rep[w].kind = kind /\ Holds(w)
                                  /\ AddRepo(w) \/ CompleteRepository(w)
<1> DEFINE Goal ==
           \/ rjob'[kind] = rjob[kind]
           \/ rjob'[kind] = RepositoryJob("pending")
           \/ rjob'[kind] = [rjob[kind] EXCEPT !.live = FALSE]
           \/ \E w \in RWorkers : ClaimRepository(w, kind)
           \/ \E w \in RWorkers : /\ rep[w].kind = kind /\ Holds(w)
                                  /\ AddRepo(w) \/ CompleteRepository(w)
<1>1. rjob \in [RepositoryKinds -> RepositoryJobs]
  BY DEF TypeInv, StoreTypeOK
<1>2. UNCHANGED rjob => Goal
  OBVIOUS
<1>3. ASSUME NEW asked, rjob' = WithRequest(asked) PROVE Goal
  BY <1>1, <1>3 DEF WithRequest
<1>4. ASSUME NEW x, LapseRepository(x) PROVE Goal
  <2>1. rjob' = [rjob EXCEPT ![x].live = FALSE]
    BY <1>4 DEF LapseRepository
  <2> QED
    BY <1>1, <2>1
<1>5. ASSUME NEW w \in RWorkers, NEW x \in RepositoryKinds, ClaimRepository(w, x) PROVE Goal
  BY <1>1, <1>5 DEF ClaimRepository
<1>6. ASSUME NEW w \in RWorkers, AddRepo(w) \/ CompleteRepository(w) PROVE Goal
  <2>1. rjob' = (IF Holds(w) THEN [rjob EXCEPT ![rep[w].kind] = RepositoryJob("complete")] ELSE rjob)
    BY <1>6 DEF AddRepo, CompleteRepository, Finish
  <2>2. CASE Holds(w) /\ rep[w].kind = kind
    BY <1>6, <2>2
  <2> QED
    BY <1>1, <2>1, <2>2
<1>7. ASSUME NEW w \in RWorkers, RescheduleRepository(w) PROVE Goal
  BY <1>1, <1>7 DEF RescheduleRepository, Finish
<1> SUFFICES Goal
  OBVIOUS
<1> HIDE DEF Goal
<1>8. ASSUME NEW i, Ingest(i) PROVE Goal
  BY <1>2, <1>3, <1>8 DEF Ingest, Recognise, RecogniseConflict, MarkConflict, RejectWinner,
     OpenInstall, CommitInstall, TransitionProfile, storeVars
<1>9. ASSUME NEW w, CommitProjection(w) PROVE Goal
  BY <1>2, <1>3, <1>9 DEF CommitProjection
<1>10. ASSUME NEW w \in RWorkers, Repair(w) PROVE Goal
  BY <1>2, <1>5, <1>6, <1>7, <1>9, <1>10
  DEF Repair, FetchSnapshot, DescribeRepair, StartReconcile, StartCreate, ClaimSource,
      ReconcileSource, FinishCreate, StartDrain, ProjectSource, OpenProjection, LoseLease, storeVars
<1>11. CASE External \/ Consume
  BY <1>2, <1>3, <1>8, <1>11
  DEF External, OwnerTransition, RequestRepository, Consume, Deliver, Reply, storeVars
<1>12. CASE Expire
  BY <1>2, <1>4, <1>12 DEF Expire, ExpireLease, Lapse, ExpireRepositoryLease
<1>13. CASE Faulty
  BY <1>2, <1>4, <1>13
  DEF Faulty, Disconnect, FailProjection,
      CrashWorker, InterruptRepair, CrashRepair, OutrunLease, Lapse, OutrunRepositoryLease, storeVars
<1>14. ASSUME NEW w \in Workers, ProjectNext(w) PROVE Goal
  BY <1>2, <1>9, <1>14 DEF ProjectNext, Project, Claim, OpenProjection, LoseLease, storeVars
<1>15. CASE UNCHANGED vars
  BY <1>2, <1>15 DEF vars, storeVars
<1> QED
  BY <1>8, <1>10, <1>11, <1>12, <1>13, <1>14, <1>15 DEF Next, RepairNext

----------------------------------------------------------------------------
(* What waits for the repository.                                          *)

\* A job that is blocked on the repository, and not by a delete, is blocked for
\* a reason that a comparison with the repository finds.
Waits(k) ==
    job[k].st = "blocked" /\ job[k].dep = OnRepository /\ src[k[1]].act # "delete"
WaitsInv ==
    \A k \in JobKeys : Waits(k) => src[k[1]].ord = "uncertain" \/ src[k[1]].gen # life.gen

Owed(k) ==
    \/ src[k[1]].ord = "uncertain" /\ src[k[1]].disp # "denied_terminal"
    \/ Waits(k)

\* A new version waits for nothing that a repair would bring.
LEMMA InstalledIsNotOwed ==
    ASSUME TypeInv, NEW k \in JobKeys, NEW row, NEW plan, InstallSource(k[1], row, plan),
           row.ord = "authoritative", plan.dep # OnRepository
    PROVE  ~Owed(k)'
<1>1. src'[k[1]] = row
  BY KeyFacts DEF InstallSource, TypeInv, StoreTypeOK
<1>2. CASE k[2] = "serving" \/ JobExists(k)
  <2>1. job'[k] = JobRow(plan.st, plan.dep, row.id)
    BY <1>2 DEF InstallSource
  <2>2. job'[k].dep = plan.dep
    BY <2>1 DEF JobRow
  <2> QED
    BY <1>1, <2>2 DEF Owed, Waits
<1>3. CASE ~JobExists(k) /\ k[2] # "serving"
  <2>1. job'[k].st = "none"
    BY <1>3 DEF InstallSource, JobExists
  <2> QED
    BY <1>1, <2>1 DEF Owed, Waits
<1> QED
  BY <1>2, <1>3

\* The step in which a job comes to wait for the repository asks for a repair,
\* and the job waits for a reason; before and after it the record is the same.
Asks == rjob'["pds_reconcile"] = RepositoryJob("pending")
StillOwed(k) ==
    /\ src'[k[1]] = src[k[1]]
    /\ Owed(k)' => Owed(k)
    /\ Waits(k)' => Waits(k)
NewlyOwed(k) ==
    /\ Owed(k)' => Asks
    /\ Waits(k)' => src'[k[1]].ord = "uncertain" \/ src'[k[1]].gen # life'.gen

LEMMA RequestAsks ==
    ASSUME TypeInv, rjob' = WithRequest("pds_reconcile")
    PROVE  Asks
  BY DEF Asks, WithRequest, TypeInv, StoreTypeOK, RepositoryKinds

\* An installation, a conflict or a denial.
LEMMA StoreStepsOwe ==
    ASSUME TypeInv, Installs \/ Marks, NEW k \in JobKeys
    PROVE  StillOwed(k) \/ NewlyOwed(k)
<1>1. k[1] \in Uris /\ src \in [Uris -> Rows] /\ job \in [JobKeys -> Jobs]
  BY KeyFacts DEF TypeInv, StoreTypeOK
<1>2. CASE Installs
  <2>1. PICK u \in Uris, row \in Rows : \E plan :
           /\ InstallSource(u, row, plan)
           /\ row.ord = "authoritative" /\ plan.dep # OnRepository
    BY <1>2 DEF Installs
  <2>2. CASE u = k[1]
    <3>1. ~Owed(k)'
      BY <2>1, <2>2, InstalledIsNotOwed
    <3> QED
      BY <3>1 DEF NewlyOwed, Owed
  <2>3. CASE u # k[1]
    <3>1. src'[k[1]] = src[k[1]] /\ job'[k] = job[k]
      BY <1>1, <2>1, <2>3 DEF InstallSource
    <3> QED
      BY <3>1 DEF StillOwed, Owed, Waits
  <2> QED
    BY <2>2, <2>3
<1>3. CASE Marks
  <2>1. PICK u \in Uris, row \in Rows, st \in {"blocked", "permanent_denied"} :
           \E dep : HoldsBack(u, row, st, dep)
    BY <1>3 DEF Marks
  <2>2. PICK dep : HoldsBack(u, row, st, dep)
    BY <2>1
  <2>3. CASE u = k[1]
    <3>1. src'[k[1]] = row /\ (JobExists(k) => job'[k] = JobRow(st, dep, job[k].id))
          /\ (~JobExists(k) => job'[k] = job[k])
      BY <1>1, <2>2, <2>3 DEF HoldsBack
    <3>2. CASE st = "blocked" /\ row.ord = "uncertain" /\ rjob' = WithRequest("pds_reconcile")
      BY <3>1, <3>2, RequestAsks DEF NewlyOwed
    <3>3. CASE st = "permanent_denied" /\ row.disp = "denied_terminal"
      <4>1. job'[k].st \in {"permanent_denied", "none"}
        BY <3>1, <3>3 DEF JobExists, JobRow
      <4>2. ~Owed(k)' /\ ~Waits(k)'
        BY <3>1, <3>3, <4>1 DEF Owed, Waits
      <4> QED
        BY <4>2 DEF NewlyOwed
    <3> QED
      BY <2>2, <3>2, <3>3 DEF HoldsBack, Reason
  <2>4. CASE u # k[1]
    <3>1. src'[k[1]] = src[k[1]] /\ job'[k] = job[k]
      BY <1>1, <2>2, <2>4 DEF HoldsBack
    <3> QED
      BY <3>1 DEF StillOwed, Owed, Waits
  <2> QED
    BY <2>3, <2>4
<1> QED
  BY <1>2, <1>3

\* The end of a projection.
LEMMA CommitOwes ==
    ASSUME TypeInv, DecisionsAreWarranted, NEW w \in Projectors, CommitProjection(w),
           NEW k \in JobKeys
    PROVE  StillOwed(k) \/ NewlyOwed(k)
<1>1. UNCHANGED <<src, life>>
  BY DEF CommitProjection
<1>2. CASE job'[k].st = "pending" \/ job'[k] = job[k]
  BY <1>1, <1>2 DEF StillOwed, Owed, Waits
<1>3. CASE /\ k = proj[w].key /\ job'[k].st = FinalState(proj[w].res.kind)
           /\ job'[k].dep = proj[w].res.dep
  <2>1. CASE ~Waits(k)'
    BY <1>1, <2>1 DEF StillOwed, Owed
  <2>2. CASE Waits(k)'
    <3>1. proj[w].res.kind = "blocked" /\ proj[w].res.dep = OnRepository
      BY <1>3, <2>2 DEF Waits, FinalState
    <3>2. proj[w].res.repair /\ (src[k[1]].ord = "uncertain" \/ src[k[1]].gen # life.gen)
      BY <1>1, <1>3, <2>2, <3>1 DEF CommitProjection, DecisionsAreWarranted, Warranted, Waits
    <3>3. Asks
      BY <3>2, RequestAsks DEF CommitProjection
    <3> QED
      BY <1>1, <3>2, <3>3 DEF NewlyOwed
  <2> QED
    BY <2>1, <2>2
<1> QED
  BY <1>2, <1>3, CommitSettles

\* Every other step.
LEMMA OtherStepsOwe ==
    ASSUME TypeInv, NEW k \in JobKeys,
           \/ Rests \/ Takes \/ Leaves \/ Fails \/ Lapses
           \/ \E i \in Ingestors : OpenInstall(i)
           \/ \E w \in Projectors : OpenProjection(w)
    PROVE  StillOwed(k)
<1>1. UNCHANGED src
  BY DEF Rests, Takes, Leaves, Fails, FailProjection, Lapses, Lapse, OpenInstall,
     OpenProjection, storeVars
<1>2. SUFFICES job'[k] = job[k] \/ job'[k].st \in {"pending", "processing"}
  BY <1>1 DEF StillOwed, Owed, Waits
<1>3. job \in [JobKeys -> Jobs]
  BY DEF TypeInv, StoreTypeOK
<1>4. CASE Takes
  <2>1. PICK w, q : Take(w, q)
    BY <1>4 DEF Takes
  <2>2. job' = [job EXCEPT ![q] = Claimed(job[q], w, job[q].id)]
    BY <2>1 DEF Take
  <2>3. Claimed(job[q], w, job[q].id).st = "processing"
    BY DEF Claimed
  <2> QED
    BY <1>3, <2>2, <2>3
<1>5. CASE Fails
  <2>1. PICK w : FailProjection(w)
    BY <1>5 DEF Fails
  <2>2. job' = job \/ \E q : job' = [job EXCEPT ![q] = JobRow("pending", NoDep, job[q].id)]
    BY <2>1 DEF FailProjection
  <2>3. \A q : JobRow("pending", NoDep, job[q].id).st = "pending"
    BY DEF JobRow
  <2> QED
    BY <1>3, <2>2, <2>3
<1>6. CASE Lapses
  <2>1. PICK q \in JobKeys : job[q].st = "processing" /\ job' = [job EXCEPT ![q].live = FALSE]
    BY <1>6 DEF Lapses, Lapse
  <2>2. job'[k] = job[k] \/ (k = q /\ job'[k].st = job[k].st)
    BY <1>3, <2>1 DEF Jobs
  <2> QED
    BY <2>1, <2>2
<1> QED
  BY <1>4, <1>5, <1>6 DEF Rests, Leaves, OpenInstall, OpenProjection, storeVars

\* Every step.
LEMMA NextOwes ==
    ASSUME SafetyInv, [Next]_vars, NEW k \in JobKeys
    PROVE  StillOwed(k) \/ NewlyOwed(k)
<1>1. /\ TypeInv /\ TruthInv /\ RowsInv /\ DecisionsAreWarranted
      /\ OpenExcludesCalls
  BY DEF SafetyInv, ProjectionIsExclusive, OpenExcludesCalls
<1> QED
  BY <1>1, StepKinds, StoreStepsOwe, CommitOwes, OtherStepsOwe

\* A job waits for a reason as long as it waits: a lifecycle that moves only
\* leaves generations behind.
LEMMA NextKeepsWaits ==
    ASSUME SafetyInv, WaitsInv, [Next]_vars
    PROVE  WaitsInv'
<1>1. ASSUME NEW k \in JobKeys, Waits(k)'
      PROVE  src'[k[1]].ord = "uncertain" \/ src'[k[1]].gen # life'.gen
  <2>1. CASE NewlyOwed(k)
    BY <1>1, <2>1 DEF NewlyOwed
  <2>2. CASE StillOwed(k)
    <3>1. src'[k[1]] = src[k[1]] /\ (src[k[1]].ord = "uncertain" \/ src[k[1]].gen # life.gen)
      BY <1>1, <2>2 DEF StillOwed, WaitsInv
    <3>2. life' = life \/ life'.gen > life.gen
      BY LifeSteps DEF SafetyInv, LifeMoves
    <3>3. /\ src[k[1]].gen \in Nat /\ life.gen \in Nat /\ life'.gen \in Nat
          /\ src[k[1]].gen <= life.gen
      BY KeyFacts, NextType DEF SafetyInv, TypeInv, StoreTypeOK, Rows, Lives, RowsInv
    <3> QED
      BY <3>1, <3>2, <3>3
  <2> QED
    BY <2>1, <2>2, NextOwes
<1> QED
  BY <1>1 DEF WaitsInv

----------------------------------------------------------------------------
(* A repair is owed.                                                       *)

\* The worker runs the repair that the present request asks for.
Serving(w) == rep[w].kind = "pds_reconcile" /\ Holds(w)

\* A repair that will count as having served the request has still to reach what
\* waits for it: its snapshot covers the version, the comparison has put it on
\* the list, and once the list is empty nothing waits.
Reaches(w, u) ==
    /\ rep[w].phase = "fetched" => src[u].rev <= rep[w].snap
    /\ rep[w].phase = "apply" => u \in rep[w].todo /\ rep[w].view[u] # NoRow
    /\ rep[w].phase # "drain"
OwedInv ==
    \A k \in JobKeys : Owed(k) =>
        /\ Requested("pds_reconcile")
        /\ \A w \in RWorkers : Serving(w) => Reaches(w, k[1])

\* A claim that is held was held before, unless it was just taken.
LEMMA ServingBefore ==
    ASSUME TypeInv, [Next]_vars, NEW w \in RWorkers, Serving(w)',
           rep'[w].kind = rep[w].kind, rep'[w].phase # "claimed"
    PROVE  Serving(w)
<1> DEFINE kind == "pds_reconcile"
<1>1. /\ rjob'[kind].st = "processing" /\ rjob'[kind].holder = w /\ rjob'[kind].live = TRUE
      /\ rep[w].kind = kind /\ kind \in RepositoryKinds
  BY NextType DEF Serving, Holds, RepositoryKinds, TypeInv, StoreTypeOK, RepositoryJobs
<1>2. rjob \in [RepositoryKinds -> RepositoryJobs] /\ rep \in [RWorkers -> Repairs]
  BY RepairFacts DEF TypeInv, StoreTypeOK
<1>3. CASE rjob'[kind] = rjob[kind]
  BY <1>1, <1>3 DEF Serving, Holds
<1>4. CASE rjob'[kind] = RepositoryJob("pending")
  BY <1>1, <1>4 DEF RepositoryJob
<1>5. CASE rjob'[kind] = [rjob[kind] EXCEPT !.live = FALSE]
  BY <1>1, <1>2, <1>5 DEF RepositoryJobs
<1>6. ASSUME NEW v \in RWorkers, ClaimRepository(v, kind) PROVE FALSE
  <2>1. rjob'[kind].holder = v /\ rep'[v].phase = "claimed"
    BY <1>1, <1>2, <1>6 DEF ClaimRepository, Repairs
  <2> QED
    BY <1>1, <2>1
<1>7. ASSUME NEW v \in RWorkers, AddRepo(v) \/ CompleteRepository(v), Holds(v),
             rep[v].kind = kind
      PROVE  FALSE
  <2>1. rjob'[kind] = RepositoryJob("complete")
    BY <1>1, <1>2, <1>7 DEF AddRepo, CompleteRepository, Finish
  <2> QED
    BY <1>1, <2>1 DEF RepositoryJob
<1> QED
  BY <1>1, <1>3, <1>4, <1>5, <1>6, <1>7, RequestSteps

\* A request is only lost by a repair that has drained.
LEMMA RequestedStays ==
    ASSUME TypeInv, [Next]_vars, Requested("pds_reconcile"), ~Requested("pds_reconcile")'
    PROVE  \E w \in RWorkers : Serving(w) /\ rep[w].phase = "drain"
<1> DEFINE kind == "pds_reconcile"
<1>1. kind \in RepositoryKinds /\ rjob \in [RepositoryKinds -> RepositoryJobs]
  BY DEF RepositoryKinds, TypeInv, StoreTypeOK
<1>2. CASE rjob'[kind] = RepositoryJob("pending")
  BY <1>2 DEF RepositoryJob, Requested
<1>3. CASE rjob'[kind] = [rjob[kind] EXCEPT !.live = FALSE]
  BY <1>1, <1>3 DEF RepositoryJobs, Requested
<1>4. ASSUME NEW v \in RWorkers, ClaimRepository(v, kind) PROVE FALSE
  BY <1>1, <1>4 DEF ClaimRepository, Requested
<1> QED
  BY <1>1, <1>2, <1>3, <1>4, RequestSteps DEF Requested, Serving, AddRepo, CompleteRepository

\* The comparison with the snapshot finds whatever waits.
LEMMA OwedNeedsRepair ==
    ASSUME SafetyInv, WaitsInv, NEW k \in JobKeys, Owed(k), NEW snap \in Nat,
           src[k[1]].rev <= snap
    PROVE  NeedsRepair(k[1], snap) /\ src[k[1]] # NoRow
<1> DEFINE row == src[k[1]]
<1>1. k[1] \in Uris /\ row \in Rows
  BY KeyFacts DEF SafetyInv, TypeInv, StoreTypeOK
<1>2. row.ord = "uncertain" \/ row.gen # life.gen
  BY DEF Owed, WaitsInv
<1>3. row.body # 0
  <2>1. CASE row.ord = "uncertain"
    BY <1>1, <2>1 DEF SafetyInv, RowsInv
  <2>2. CASE Waits(k)
    <3>1. Exists(k[1]) /\ row.act # "delete"
      BY <2>2 DEF SafetyInv, JobsInv, JobExists, Waits
    <3>2. row.act # "none"
      BY <1>1, <3>1 DEF SafetyInv, RowsInv
    <3> QED
      BY <1>1, <3>1, <3>2 DEF SafetyInv, TruthInv, FaithfulTo
  <2> QED
    BY <2>1, <2>2 DEF Owed
<1> QED
  BY <1>2, <1>3 DEF NeedsRepair, Described, NoRow

\* What a repair has done is not owed any more: what it reconciles becomes
\* authoritative, and what it creates had no source when the repair looked.
LEMMA DoneIsNotOwed ==
    ASSUME TypeInv, NEW w \in RWorkers, ActorInv(w), NEW k \in JobKeys,
           rep'[w].phase # "failed", rep[w].view[k[1]] # NoRow,
           \/ ReconcileSource(w) /\ k[1] = rep[w].target
           \/ FinishCreate(w) /\ k[1] = ing[w].ev.uri
    PROVE  ~Owed(k)'
<1>1. CASE FinishCreate(w) /\ k[1] = ing[w].ev.uri
  BY <1>1 DEF FinishCreate, ActorInv
<1>2. CASE ReconcileSource(w) /\ k[1] = rep[w].target
  <2>1. ~Fail(w)
    BY DEF Fail, NoRep, TypeInv, RepairsAreReady, RepTypeOK
  <2>2. \E row, plan, state : /\ InstallSource(k[1], row, plan)
                              /\ row.ord = "authoritative"
                              /\ plan = ReconcilePlan(state, Observed(w).act)
    <3>1. Observed(w).uri = k[1] /\ \A plan, gen : SourceRow(Observed(w), plan, gen).ord = "authoritative"
      BY <1>2 DEF Observed, SourceRow
    <3> QED
      BY <1>2, <2>1, <3>1 DEF ReconcileSource
  <2>3. \A state, act : ReconcilePlan(state, act).dep # OnRepository
    BY DEF ReconcilePlan, Denied, Departed, Eligible, Plan, NoDep, OnMember, OnRepository
  <2> QED
    BY <2>2, <2>3, InstalledIsNotOwed
<1> QED
  BY <1>1, <1>2

\* A running repair goes on to reach what is still owed.
LEMMA ReachKept ==
    ASSUME SafetyInv, RepairActorsInv, WaitsInv, [Next]_vars, NEW k \in JobKeys,
           NEW w \in RWorkers, Owed(k), Owed(k)', src'[k[1]] = src[k[1]],
           Serving(w) => Reaches(w, k[1]), Serving(w)'
    PROVE  Reaches(w, k[1])'
<1> DEFINE u == k[1]
<1>1. /\ TypeInv /\ ActorInv(w) /\ u \in Uris
      /\ rep[w] \in Repairs /\ rep \in [RWorkers -> Repairs]
  BY RepairFacts, KeyFacts DEF SafetyInv, RepairActorsInv
<1>2. CASE rep'[w].phase \in {"idle", "claimed", "failed"}
  BY <1>2 DEF Reaches
<1>3. CASE FetchSnapshot(w)
  <2>1. rep'[w].phase = "fetched" /\ rep'[w].snap = Latest
    BY <1>1, <1>3 DEF FetchSnapshot, Repairs
  <2>2. src[u].rev <= Latest
    BY <1>1 DEF SafetyInv, TruthInv, FaithfulTo
  <2> QED
    BY <2>1, <2>2 DEF Reaches
<1>4. CASE DescribeRepair(w)
  <2>1. /\ rep[w].phase = "fetched" /\ rep'[w].phase = "apply" /\ rep'[w].kind = rep[w].kind
        /\ rep'[w].view = src /\ rep'[w].todo = {v \in Uris : NeedsRepair(v, rep[w].snap)}
    BY <1>1, <1>4 DEF DescribeRepair, Repairs
  <2>2. Serving(w)
    BY <1>1, <2>1, ServingBefore
  <2>3. rep[w].snap \in Nat /\ src[u].rev <= rep[w].snap
    BY <1>1, <2>1, <2>2 DEF Reaches, Repairs
  <2> QED
    BY <1>1, <2>1, <2>3, OwedNeedsRepair DEF Reaches
<1>5. CASE StartDrain(w)
  <2>1. /\ rep[w].phase = "apply" /\ rep[w].todo = {}
        /\ rep'[w].phase = "drain" /\ rep'[w].kind = rep[w].kind
    BY <1>1, <1>5 DEF StartDrain, Between, Repairs
  <2>2. Serving(w)
    BY <1>1, <2>1, ServingBefore
  <2> QED
    BY <2>1, <2>2 DEF Reaches
<1>6. CASE WorkKept(w) /\ rep'[w].phase \notin {"idle", "claimed", "failed"}
  <2>1. Serving(w)
    BY <1>1, <1>6, ServingBefore DEF WorkKept
  <2>2. Reaches(w, u)
    BY <2>1
  <2>3. ASSUME rep[w].phase = "apply" PROVE u \in rep'[w].todo
    <3>1. u \in rep[w].todo /\ rep[w].view[u] # NoRow
      BY <2>2, <2>3 DEF Reaches
    <3>2. ~(ReconcileSource(w) /\ u = rep[w].target) /\ ~(FinishCreate(w) /\ u = ing[w].ev.uri)
      BY <1>1, <1>6, <3>1, DoneIsNotOwed
    <3> QED
      BY <1>6, <2>3, <3>1, <3>2 DEF WorkKept
  <2> QED
    BY <1>6, <2>2, <2>3 DEF WorkKept, Reaches
<1> QED
  BY <1>1, <1>2, <1>3, <1>4, <1>5, <1>6, RepairMoves DEF WorkMoves

\* Every step keeps a repair ahead of what is owed.
LEMMA NextKeepsOwed ==
    ASSUME SafetyInv, RepairActorsInv, WaitsInv, OwedInv, [Next]_vars
    PROVE  OwedInv'
<1>1. TypeInv
  BY DEF SafetyInv
<1>2. SUFFICES ASSUME NEW k \in JobKeys, Owed(k)'
               PROVE  /\ Requested("pds_reconcile")'
                      /\ \A w \in RWorkers : Serving(w)' => Reaches(w, k[1])'
  BY DEF OwedInv
<1>3. CASE Asks
  <2>1. rjob'["pds_reconcile"].st = "pending"
    BY <1>3 DEF Asks, RepositoryJob
  <2> QED
    BY <2>1 DEF Requested, Serving, Holds
<1>4. CASE ~Asks
  <2>1. StillOwed(k)
    BY <1>2, <1>4, NextOwes DEF NewlyOwed
  <2>2. Owed(k) /\ src'[k[1]] = src[k[1]]
    BY <1>2, <2>1 DEF StillOwed
  <2>3. /\ Requested("pds_reconcile")
        /\ \A w \in RWorkers : Serving(w) => Reaches(w, k[1])
    BY <2>2 DEF OwedInv
  <2>4. Requested("pds_reconcile")'
    BY <1>1, <2>3, RequestedStays DEF Reaches
  <2> QED
    BY <1>2, <2>2, <2>3, <2>4, ReachKept
<1> QED
  BY <1>3, <1>4

\* The inductive invariant.
RequestsInv == SafetyInv /\ RepairActorsInv /\ WaitsInv /\ OwedInv

LEMMA RequestsInit == Init => RequestsInv
<1> SUFFICES ASSUME Init PROVE RequestsInv
  OBVIOUS
<1>1. RepairActorsInv
  BY DEF Init, IngInit, ProjInit, NoIng, NoProj, RepairActorsInv, ActorInv, Ingestors, Projectors
<1>2. \A k \in JobKeys : ~Owed(k)
  BY KeyFacts DEF Init, StoreInit, Owed, Waits, NoJob, JobRow, NoRow
<1> QED
  BY <1>1, <1>2, SafetyInit DEF RequestsInv, WaitsInv, OwedInv, Owed

\* What waits for the repository has a repair ahead of it, through crashes,
\* expired leases and requests that come while a repair is running: a repair
\* whose lease still holds when it ends has seen everything that waits
\* (enqueueRepositoryJob, runRepositoryJob, RepositoryRepair.Apply).
THEOREM RepairOwed == Spec => []RepairIsOwed
<1>1. RequestsInv /\ [Next]_vars => RequestsInv'
  BY SafetyNext, NextKeepsActors, NextKeepsWaits, NextKeepsOwed DEF RequestsInv, SafetyInv
<1>2. RequestsInv => RepairIsOwed
  BY DEF RequestsInv, OwedInv, Owed, Waits, RepairIsOwed
<1> QED
  BY <1>1, <1>2, RequestsInit, PTL DEF Spec

----------------------------------------------------------------------------
(* What is owed to Tap.  The rest is about the consumer as the only        *)
(* ingestor: with repositories being repaired, a version can be replaced   *)
(* by an older one (OlderNeverReplacesNewer is refuted).                   *)

\* What a step can be to the consumer when nobody repairs.
LEMMA LoneSteps ==
    ASSUME RWorkers = {}, [Next]_vars
    PROVE  \/ UNCHANGED <<life, src, ing, repoVars>>
           \/ \E to \in States : OwnerTransition(to)
           \/ /\ Resync \/ \E u \in Uris, writes \in BOOLEAN : Commit(u, writes)
              /\ UNCHANGED <<life, src, ing>>
           \/ \E ev \in Deliverable : Deliver(ev)
           \/ Ingest(Consumer) \/ Reply \/ Disconnect
<1>1. CASE External
  BY <1>1 DEF External, RequestRepository, storeVars
<1>2. ASSUME NEW w \in Workers, ProjectNext(w) PROVE UNCHANGED <<life, src, ing, repoVars>>
  BY <1>2 DEF ProjectNext, Project, Claim, OpenProjection, LoseLease, CommitProjection, storeVars
<1>3. CASE Expire
  BY <1>3 DEF Expire, ExpireLease, Lapse, ExpireRepositoryLease, LapseRepository
<1>4. CASE Faulty
  BY <1>4 DEF Faulty, FailProjection, CrashWorker, OutrunLease, Lapse, OutrunRepositoryLease,
     LapseRepository, storeVars
<1> QED
  BY <1>1, <1>2, <1>3, <1>4 DEF Next, Consume, vars, storeVars

\* What a step of its call does to the call and to the record it is about: it
\* fails, it finds a version that is as new, or it installs a newer one.
CallMoves ==
    LET c == ing[Consumer]
        u == c.ev.uri
    IN
    /\ c.phase # "idle" /\ ing'[Consumer].ev = c.ev
    /\ \/ /\ ing'[Consumer].phase = "answered"
          /\ \/ ing'[Consumer].out = "retryable" /\ UNCHANGED src
             \/ src[u].rev >= c.ev.rev /\ \A v \in Uris : src'[v].rev = src[v].rev
             \/ /\ c.phase # "open" => src[u].rev < c.ev.rev
                /\ src'[u].rev = c.ev.rev
                /\ \A v \in Uris : v # u => src'[v] = src[v]
       \/ /\ ing'[Consumer].phase = "recheck" /\ UNCHANGED src
       \/ /\ ing'[Consumer].phase = "open" /\ UNCHANGED src
          /\ src[u].rev < c.ev.rev

LEMMA CallsMove ==
    ASSUME TypeInv, Ingest(Consumer)
    PROVE  CallMoves
<1> DEFINE c == ing[Consumer]
           u == c.ev.uri
<1>1. /\ Consumer \in Ingestors /\ ing \in [Ingestors -> Calls] /\ c \in Calls
      /\ src \in [Uris -> Rows]
  BY DEF Ingestors, TypeInv, CallsAreReady, IngTypeOK, StoreTypeOK
<1>2. c.phase # "idle"
  BY DEF Ingest, Recognise, RecogniseConflict, RejectWinner, OpenInstall, CommitInstall,
     TransitionProfile, InShared, WantsTransition
<1>3. u \in Uris /\ c.ev.rev \in Nat /\ src[u].rev \in Nat
  BY <1>1, <1>2 DEF TypeInv, CallsAreReady, Events, Rows
<1>4. ASSUME NEW out, Answer(Consumer, out)
      PROVE  ing'[Consumer].ev = c.ev /\ ing'[Consumer].phase = "answered"
             /\ ing'[Consumer].out = out
  BY <1>1, <1>4 DEF Answer, NoIng
<1>0. Decision(Consumer) # "newer" => src[u].rev >= c.ev.rev
  BY <1>3 DEF Decision, SelectSourceVersion
<1>5. CASE Recognise(Consumer)
  <2>1. src[u].rev >= c.ev.rev
    BY <1>0, <1>5 DEF Recognise
  <2>2. \A v \in Uris : src'[v].rev = src[v].rev
    BY <1>1, <1>5 DEF Recognise, DenyProfile, Rows
  <2> QED
    BY <1>2, <1>4, <1>5, <2>1, <2>2 DEF Recognise, CallMoves
<1>6. CASE RecogniseConflict(Consumer)
  <2>1. src[u].rev >= c.ev.rev
    <3>1. Decision(Consumer) = "conflict"
      BY <1>6 DEF RecogniseConflict
    <3> QED
      BY <1>0, <3>1
  <2>2. \A v \in Uris : src'[v].rev = src[v].rev
    <3>1. CASE UNCHANGED src
      BY <3>1
    <3>2. CASE src' = [src EXCEPT ![u].ord = "uncertain", ![u].disp = "denied_terminal",
                                  ![u].gen = life.gen]
      BY <1>1, <3>2 DEF Rows
    <3>3. CASE src' = [src EXCEPT ![u].ord = "uncertain", ![u].disp = "pending"]
      BY <1>1, <3>3 DEF Rows
    <3> QED
      BY <1>6, <3>1, <3>2, <3>3 DEF RecogniseConflict, MarkConflict
  <2> QED
    BY <1>2, <1>4, <1>6, <2>1, <2>2 DEF RecogniseConflict, CallMoves
<1>7. CASE RejectWinner(Consumer)
  BY <1>2, <1>4, <1>7 DEF RejectWinner, storeVars, CallMoves
<1>8. ASSUME Decision(Consumer) = "newer" PROVE src[u].rev < c.ev.rev
  BY <1>3, <1>8 DEF Decision, SelectSourceVersion
<1>9. CASE OpenInstall(Consumer)
  <2>1. ing'[Consumer].phase = "open" /\ ing'[Consumer].ev = c.ev
    BY <1>1, <1>9 DEF OpenInstall, Calls
  <2> QED
    BY <1>2, <1>8, <1>9, <2>1 DEF OpenInstall, storeVars, CallMoves
<1>10. ASSUME NEW plan, NEW gen, InstallSource(u, SourceRow(c.ev, plan, gen), plan)
       PROVE  src'[u].rev = c.ev.rev /\ \A v \in Uris : v # u => src'[v] = src[v]
  BY <1>1, <1>3, <1>10 DEF InstallSource, SourceRow
<1>11. CASE CommitInstall(Consumer)
  BY <1>2, <1>4, <1>10, <1>11 DEF CommitInstall, CallMoves
<1>12. CASE TransitionProfile(Consumer)
  <2>1. CASE ing' = [ing EXCEPT ![Consumer].phase = "recheck"] /\ UNCHANGED src
    <3>1. ing'[Consumer].phase = "recheck" /\ ing'[Consumer].ev = c.ev
      BY <1>1, <2>1 DEF Calls
    <3> QED
      BY <1>2, <2>1, <3>1 DEF CallMoves
  <2> QED
    BY <1>2, <1>4, <1>8, <1>10, <1>12, <2>1 DEF TransitionProfile, storeVars, CallMoves
<1> QED
  BY <1>5, <1>6, <1>7, <1>9, <1>11, <1>12 DEF Ingest

\* What Tap has an ACK for is retained; an open call has found an older version,
\* and an answer that will be acknowledged stands for a version that is retained.
HeardInv ==
    LET c == ing[Consumer] IN
    /\ \A u \in Uris : acked[u] <= src[u].rev
    /\ c.phase = "open" => src[c.ev.uri].rev < c.ev.rev
    /\ c.phase = "answered" /\ c.out \in Acknowledgable => c.ev.rev <= src[c.ev.uri].rev

\* The retained version of a record never gets older.
LEMMA RevisionsGrow ==
    ASSUME RWorkers = {}, TypeInv, HeardInv, [Next]_vars
    PROVE  \A u \in Uris : src[u].rev <= src'[u].rev
<1>1. \A u \in Uris : src[u].rev \in Nat
  BY DEF TypeInv, StoreTypeOK, Rows
<1>2. CASE UNCHANGED src
  BY <1>1, <1>2
<1>3. CASE Ingest(Consumer)
  <2>1. ing[Consumer].phase # "idle" => ing[Consumer].ev.rev \in Nat /\ ing[Consumer].ev.uri \in Uris
    BY DEF TypeInv, CallsAreReady, Events, Ingestors
  <2> QED
    BY <1>1, <1>3, <2>1, CallsMove DEF CallMoves, HeardInv
<1> QED
  BY <1>2, <1>3, LoneSteps DEF OwnerTransition, Deliver, Reply, Disconnect, storeVars

\* An ACK is taken for what is retained.
LEMMA AcksAreTrue ==
    ASSUME TypeInv, HeardInv, Reply
    PROVE  \A u \in Uris : acked'[u] <= src[u].rev
<1> DEFINE c == ing[Consumer]
<1>1. CASE c.out \in Acknowledgable
  <2>1. c.phase = "answered" /\ c.ev \in Events
    BY DEF Reply, TypeInv, CallsAreReady, Ingestors
  <2>2. acked' = [acked EXCEPT ![c.ev.uri] = IF acked[c.ev.uri] < c.ev.rev THEN c.ev.rev
                                                                          ELSE acked[c.ev.uri]]
    BY <1>1 DEF Reply, TakeAck
  <2>3. acked \in [Uris -> 0..MaxRev]
    BY DEF TypeInv, RepoTypeOK
  <2> QED
    BY <1>1, <2>1, <2>2, <2>3 DEF HeardInv
<1>2. CASE c.out \notin Acknowledgable
  BY <1>2 DEF Reply, repoVars, HeardInv
<1> QED
  BY <1>1, <1>2

LEMMA NextKeepsHeard ==
    ASSUME RWorkers = {}, TypeInv, HeardInv, [Next]_vars
    PROVE  HeardInv'
<1> DEFINE c == ing[Consumer]
<1>1. /\ \A u \in Uris : src[u].rev <= src'[u].rev
      /\ \A u \in Uris : src[u].rev \in Nat /\ src'[u].rev \in Nat /\ acked[u] \in Nat
      /\ ing \in [Ingestors -> Calls] /\ Consumer \in Ingestors
      /\ c.phase # "idle" => c.ev.uri \in Uris /\ c.ev.rev \in Nat
  <2>1. src \in [Uris -> Rows] /\ src' \in [Uris -> Rows] /\ acked \in [Uris -> 0..MaxRev]
    BY NextType DEF TypeInv, StoreTypeOK, RepoTypeOK
  <2>2. /\ ing \in [Ingestors -> Calls] /\ Consumer \in Ingestors
        /\ c.phase # "idle" => c.ev \in Events
    BY DEF TypeInv, CallsAreReady, IngTypeOK, Ingestors
  <2> QED
    BY <2>1, <2>2, RevisionsGrow DEF Rows, Events
<1>2. ASSUME UNCHANGED <<src, ing, acked>> PROVE HeardInv'
  BY <1>2 DEF HeardInv
<1>3. ASSUME ing'[Consumer].phase \in {"idle", "ensured"}, \A u \in Uris : acked'[u] <= src[u].rev,
             UNCHANGED src
      PROVE  HeardInv'
  BY <1>3 DEF HeardInv
<1>4. CASE Ingest(Consumer)
  <2>1. CallMoves /\ UNCHANGED acked
    BY <1>1, <1>4, CallsMove DEF Ingest, repoVars
  <2>2. \A u \in Uris : acked'[u] <= src'[u].rev
    BY <1>1, <2>1 DEF HeardInv
  <2>3. "retryable" \notin Acknowledgable
    BY DEF Acknowledgable
  <2> QED
    BY <1>1, <2>1, <2>2, <2>3 DEF CallMoves, HeardInv
<1>5. CASE Reply
  BY <1>1, <1>3, <1>5, AcksAreTrue DEF Reply, NoIng, storeVars
<1>6. CASE Disconnect
  BY <1>1, <1>3, <1>6 DEF Disconnect, NoIng, storeVars, repoVars, HeardInv
<1>7. ASSUME NEW ev, Deliver(ev) PROVE HeardInv'
  BY <1>1, <1>3, <1>7 DEF Deliver, BeginIngest, NoIng, repoVars, HeardInv
<1> QED
  BY <1>2, <1>4, <1>5, <1>6, <1>7, LoneSteps DEF OwnerTransition, Resync, Commit, repoVars

LEMMA HeardInit == Init => HeardInv
<1> SUFFICES ASSUME Init PROVE HeardInv
  OBVIOUS
<1>1. TypeInv
  BY InitType
<1>2. ing[Consumer].phase = "idle" /\ \A u \in Uris : acked[u] = 0 /\ src[u].rev \in Nat
  BY <1>1 DEF Init, IngInit, NoIng, RepoInit, Ingestors, TypeInv, StoreTypeOK, Rows
<1> QED
  BY <1>2 DEF HeardInv

\* What Tap has an ACK for is retained, or something newer is, through crashes,
\* lost ACKs, redeliveries and resyncs (Consumer, Service.IngestRecord).
THEOREM AckedRetained ==
    ASSUME RWorkers = {}
    PROVE  Spec => []AckedIsRetained
<1>1. SafetyInv /\ HeardInv /\ [Next]_vars => HeardInv'
  BY NextKeepsHeard DEF SafetyInv
<1>2. TypeInv /\ HeardInv => AckedIsRetained
  BY DEF HeardInv, AckedIsRetained, TypeInv, StoreTypeOK, RepoTypeOK, Rows
<1>3. SafetyInv => TypeInv
  BY DEF SafetyInv
<1> QED
  BY <1>1, <1>2, <1>3, HeardInit, Safety, PTL DEF Spec

----------------------------------------------------------------------------
(* What the repository holds between two commits, and what Tap still owes. *)

\* A record stays as it is until a commit touches it.
HistoryInv ==
    \A u \in Uris : \A n \in 0..Latest : \A m \in 0..n :
        (\A r \in (m + 1)..n : repo[r].uri # u) => BodyAt(u, m) = BodyAt(u, n)

\* A commit adds one revision, in which it writes or deletes its record.
LEMMA CommitAdds ==
    ASSUME TypeInv, Grows, NEW v \in Uris, NEW writes \in BOOLEAN, Commit(v, writes),
           NEW h, h = Latest
    PROVE  /\ h \in Nat /\ Latest' = h + 1
           /\ \A n \in 1..h : repo'[n].uri = repo[n].uri
           /\ repo'[h + 1].uri = v
           /\ \A x \in Uris, n \in 0..h : BodyAt(x, n)' = BodyAt(x, n)
           /\ \A x \in Uris : x # v => BodyAt(x, h + 1)' = BodyAt(x, h)
           /\ BodyAt(v, h + 1)' \in {0, h + 1}
<1> DEFINE body == IF writes THEN h + 1 ELSE 0
           c == [uri |-> v, records |-> [x \in Uris |-> IF x = v THEN body ELSE BodyAt(x, h)]]
<1>1. /\ repo \in Seq(Commits) /\ h \in Nat /\ h = Len(repo)
      /\ repo' = Append(repo, c)
  BY DEF Commit, TypeInv, RepoTypeOK, Latest
<1>2. c.uri = v /\ \A x \in Uris : c.records[x] = IF x = v THEN body ELSE BodyAt(x, h)
  OBVIOUS
<1>3. body \in {0, h + 1}
  OBVIOUS
<1> HIDE DEF c, body
<1>4. Len(repo') = h + 1 /\ repo'[h + 1] = c
  BY <1>1, AppendProperties
<1>5. ASSUME NEW x \in Uris PROVE BodyAt(x, h + 1)' = c.records[x]
  <2>1. h + 1 # 0
    BY <1>1
  <2> QED
    BY <1>4, <2>1 DEF BodyAt
<1>6. ASSUME NEW x \in Uris, NEW n \in 0..h PROVE BodyAt(x, n)' = BodyAt(x, n)
  <2>1. n \in Nat /\ n <= Latest
    BY <1>1
  <2> QED
    BY <2>1, BodiesStay
<1> QED
  BY <1>1, <1>2, <1>3, <1>4, <1>5, <1>6 DEF Latest, Grows

LEMMA CommitKeepsHistory ==
    ASSUME TypeInv, HistoryInv, Grows, NEW v \in Uris, NEW writes \in BOOLEAN, Commit(v, writes)
    PROVE  HistoryInv'
<1>1. PICK h : h = Latest
  OBVIOUS
<1>2. /\ h \in Nat /\ Latest' = h + 1
      /\ \A n \in 1..h : repo'[n].uri = repo[n].uri
      /\ repo'[h + 1].uri = v
      /\ \A x \in Uris, n \in 0..h : BodyAt(x, n)' = BodyAt(x, n)
      /\ \A x \in Uris : x # v => BodyAt(x, h + 1)' = BodyAt(x, h)
  BY <1>1, CommitAdds
<1>3. ASSUME NEW u \in Uris, NEW n \in 0..(h + 1), NEW m \in 0..n,
             \A r \in (m + 1)..n : repo'[r].uri # u
      PROVE  BodyAt(u, m)' = BodyAt(u, n)'
  <2>1. CASE n \in 0..h
    <3>1. m \in 0..h /\ \A r \in (m + 1)..n : r \in 1..h
      BY <1>2, <2>1
    <3>2. BodyAt(u, m) = BodyAt(u, n)
      BY <1>1, <1>2, <1>3, <2>1, <3>1 DEF HistoryInv
    <3> QED
      BY <1>2, <2>1, <3>1, <3>2
  <2>2. CASE n = h + 1 /\ m = n
    BY <2>2
  <2>3. CASE n = h + 1 /\ m # n
    <3>1. /\ m \in 0..h /\ h + 1 \in (m + 1)..n
          /\ \A r \in (m + 1)..h : r \in (m + 1)..n /\ r \in 1..h
      BY <1>2, <2>3
    <3>2. u # v
      BY <1>2, <1>3, <3>1
    <3>3. BodyAt(u, m) = BodyAt(u, h)
      BY <1>1, <1>2, <1>3, <3>1 DEF HistoryInv
    <3> QED
      BY <1>2, <2>3, <3>1, <3>2, <3>3
  <2> QED
    BY <1>2, <2>1, <2>2, <2>3
<1> QED
  BY <1>2, <1>3 DEF HistoryInv

LEMMA NextKeepsHistory ==
    ASSUME TypeInv, HistoryInv, [Next]_vars
    PROVE  HistoryInv'
<1>1. CASE UNCHANGED repo
  BY <1>1 DEF HistoryInv, BodyAt, Latest
<1>2. UNCHANGED repo \/ \E u \in Uris, writes \in BOOLEAN : Commit(u, writes)
  BY OnlyCommitsWrite
<1> QED
  BY <1>1, <1>2, RepositoryGrows, CommitKeepsHistory

\* Tap is not ahead of the repository; what it owes is of its last look at the
\* repository, and the live commit a call is about came after all debts were
\* paid, unless Tap has looked again since.
DebtsInv ==
    LET c == ing[Consumer] IN
    /\ cursor <= Latest
    /\ \A d \in resync : d[2] = cursor
    /\ c.phase # "idle" /\ c.ev.id.via = "live" =>
          /\ c.ev.id.rev = c.ev.rev
          /\ c.ev.rev \in 1..Latest /\ c.ev.uri = repo[c.ev.rev].uri
          /\ resync # {} => c.ev.rev <= cursor

LEMMA NextKeepsDebts ==
    ASSUME RWorkers = {}, TypeInv, DebtsInv, [Next]_vars
    PROVE  DebtsInv'
<1> DEFINE c == ing[Consumer]
<1>1. /\ Latest \in Nat /\ Latest' \in Nat /\ Latest <= Latest' /\ cursor \in Nat
      /\ \A n \in 1..Latest : repo'[n] = repo[n]
  BY RepositoryGrows DEF Grows, TypeInv, RepoTypeOK
<1>2. /\ ing \in [Ingestors -> Calls] /\ Consumer \in Ingestors
      /\ c.phase # "idle" => c.ev \in Events /\ c.ev.rev \in Nat
  BY DEF TypeInv, CallsAreReady, IngTypeOK, Ingestors, Events
<1>3. CASE UNCHANGED <<ing, cursor, resync>>
  BY <1>1, <1>2, <1>3 DEF DebtsInv
<1>4. CASE Resync /\ UNCHANGED ing
  <2>1. cursor' = Latest' /\ \A d \in resync' : d[2] = cursor'
    BY <1>4 DEF Resync, Latest
  <2>2. UNCHANGED repo
    BY <1>4 DEF Resync
  <2> QED
    BY <1>1, <1>2, <1>4, <2>1, <2>2 DEF DebtsInv, Latest
<1>5. ASSUME NEW ev \in Deliverable, Deliver(ev) PROVE DebtsInv'
  <2>1. ing'[Consumer].ev = ev /\ UNCHANGED <<cursor, resync, repo>>
    BY <1>2, <1>5 DEF Deliver, BeginIngest, NoIng, repoVars
  <2>2. CASE ev.id.via = "live"
    <3>1. resync = {} /\ cursor < Latest /\ ev = LiveEvent(cursor + 1)
      BY <2>2 DEF Deliverable, FoundEvent
    <3>2. /\ ev.id.rev = ev.rev /\ ev.rev \in 1..Latest /\ ev.uri = repo[ev.rev].uri
      BY <1>1, <3>1 DEF LiveEvent
    <3> QED
      BY <2>1, <3>1, <3>2 DEF DebtsInv, Latest
  <2> QED
    BY <2>1, <2>2 DEF DebtsInv, Latest
<1>6. CASE Ingest(Consumer)
  <2>1. c.phase # "idle" /\ ing'[Consumer].ev = c.ev /\ UNCHANGED <<cursor, resync, repo>>
    BY <1>6, CallsMove DEF CallMoves, Ingest, repoVars
  <2> QED
    BY <2>1 DEF DebtsInv, Latest
<1>7. CASE Reply \/ Disconnect
  <2>1. ing'[Consumer].phase = "idle" /\ UNCHANGED repo
    BY <1>2, <1>7 DEF Reply, Disconnect, NoIng, TakeAck, repoVars
  <2>2. CASE UNCHANGED cursor /\ resync' \subseteq resync
    BY <2>1, <2>2 DEF DebtsInv, Latest
  <2>3. CASE c.phase # "idle" /\ c.ev.id = [via |-> "live", rev |-> cursor + 1] /\ cursor' = cursor + 1
             /\ UNCHANGED resync
    BY <1>1, <1>2, <2>1, <2>3 DEF DebtsInv, Latest
  <2>4. UNCHANGED <<cursor, resync>> \/ (c.phase # "idle" /\ TakeAck(c.ev))
    BY <1>7 DEF Reply, Disconnect, repoVars
  <2> QED
    BY <2>2, <2>3, <2>4 DEF TakeAck
<1> QED
  BY <1>3, <1>4, <1>5, <1>6, <1>7, LoneSteps DEF OwnerTransition, Commit, repoVars

\* A commit of the record that Tap is done with is newer than the source.
Behind(u) == \E n \in 1..cursor : repo[n].uri = u /\ src[u].rev < n

\* Then Tap owes the record, or it was gone when Tap read the repository again.
BehindInv ==
    \A u \in Uris : Behind(u) =>
        \/ \E d \in resync : d[1] = u
        \/ resyncs > 0 /\ BodyAt(u, cursor) = 0

\* While Tap stays where it is, nothing falls behind.
LEMMA NobodyFallsBehind ==
    ASSUME RWorkers = {}, TypeInv, HeardInv, DebtsInv, BehindInv, [Next]_vars,
           cursor' = cursor, resyncs' = resyncs, NEW u \in Uris, Behind(u)',
           \A d \in resync : d[1] = u => d \in resync'
    PROVE  (\E d \in resync' : d[1] = u) \/ (resyncs' > 0 /\ BodyAt(u, cursor)' = 0)
<1>1. /\ src[u].rev <= src'[u].rev /\ src[u].rev \in Nat /\ src'[u].rev \in Nat
      /\ cursor \in Nat /\ cursor <= Latest /\ Latest \in Nat
      /\ \A n \in 1..Latest : repo'[n] = repo[n]
  <2>1. src \in [Uris -> Rows] /\ src' \in [Uris -> Rows] /\ cursor \in Nat
    BY NextType DEF TypeInv, StoreTypeOK, RepoTypeOK
  <2> QED
    BY <2>1, RevisionsGrow, RepositoryGrows DEF Rows, Grows, DebtsInv
<1>2. PICK n \in 1..cursor : repo'[n].uri = u /\ src'[u].rev < n
  BY DEF Behind
<1>3. Behind(u)
  BY <1>1, <1>2 DEF Behind
<1>4. PICK at \in Nat : at = cursor
  BY <1>1
<1>5. BodyAt(u, at)' = BodyAt(u, at)
  BY <1>1, <1>4, RepositoryGrows, BodiesStay
<1>6. BodyAt(u, cursor)' = BodyAt(u, cursor)
  BY <1>4, <1>5 DEF BodyAt
<1> QED
  BY <1>3, <1>6 DEF BehindInv

\* Tap takes an ACK: the version is retained, so the record it is about is not
\* behind if Tap moves, and no other record is touched by that commit.
LEMMA ReplyKeepsBehind ==
    ASSUME RWorkers = {}, TypeInv, HeardInv, HistoryInv, DebtsInv, BehindInv, [Next]_vars, Reply
    PROVE  BehindInv'
<1> DEFINE c == ing[Consumer]
<1>1. /\ cursor \in Nat /\ cursor <= Latest /\ Latest \in Nat
      /\ UNCHANGED <<repo, resyncs, src>> /\ c.phase = "answered" /\ c.ev \in Events
      /\ \A u \in Uris : src[u].rev \in Nat
  <2>1. cursor \in Nat /\ cursor <= Latest /\ Latest \in Nat
    BY DEF TypeInv, RepoTypeOK, DebtsInv, Latest
  <2>2. UNCHANGED <<repo, resyncs, src>> /\ c.phase = "answered"
    BY DEF Reply, TakeAck, storeVars, repoVars
  <2>3. c.ev \in Events
    BY <2>2 DEF TypeInv, CallsAreReady, Ingestors
  <2>4. \A u \in Uris : src[u].rev \in Nat
    BY DEF TypeInv, StoreTypeOK, Rows
  <2> QED
    BY <2>1, <2>2, <2>3, <2>4
<1>2. CASE UNCHANGED <<cursor, resync>>
  BY <1>1, <1>2, NobodyFallsBehind DEF BehindInv
<1>3. CASE c.out \in Acknowledgable /\ TakeAck(c.ev)
  <2>1. c.ev.rev <= src[c.ev.uri].rev /\ c.ev.uri \in Uris /\ c.ev.rev \in Nat
    BY <1>1, <1>3 DEF HeardInv, Events
  <2>2. CASE c.ev.id = [via |-> "live", rev |-> cursor + 1]
    <3>1. /\ c.ev.rev = cursor + 1 /\ c.ev.uri = repo[cursor + 1].uri /\ cursor + 1 <= Latest
          /\ cursor' = cursor + 1 /\ resync' = resync
      BY <1>1, <1>3, <2>2 DEF DebtsInv, TakeAck
    <3>2. ASSUME NEW u \in Uris, Behind(u)'
          PROVE  (\E d \in resync' : d[1] = u) \/ (resyncs' > 0 /\ BodyAt(u, cursor)' = 0)
      <4>1. PICK n \in 1..(cursor + 1) : repo[n].uri = u /\ src[u].rev < n
        BY <1>1, <3>1, <3>2 DEF Behind
      <4>2. u # c.ev.uri
        BY <1>1, <2>1, <3>1, <4>1
      <4>3. Behind(u)
        BY <1>1, <3>1, <4>1, <4>2 DEF Behind
      <4>4. BodyAt(u, cursor) = BodyAt(u, cursor + 1)
        <5>1. PICK m \in Nat : m = cursor
          BY <1>1
        <5>2. /\ m + 1 \in 0..Latest /\ m \in 0..(m + 1)
              /\ \A r \in (m + 1)..(m + 1) : r = cursor + 1
          BY <1>1, <3>1, <5>1
        <5>3. \A r \in (m + 1)..(m + 1) : repo[r].uri # u
          BY <3>1, <4>2, <5>2
        <5> QED
          BY <5>1, <5>2, <5>3 DEF HistoryInv
      <4>5. BodyAt(u, cursor)' = BodyAt(u, cursor)
        BY <1>1, <3>1, <4>4 DEF BodyAt
      <4> QED
        BY <1>1, <3>1, <4>3, <4>5 DEF BehindInv
    <3> QED
      BY <3>2 DEF BehindInv
  <2>3. CASE c.ev.id # [via |-> "live", rev |-> cursor + 1]
    <3>1. cursor' = cursor
      BY <1>3, <2>3 DEF TakeAck
    <3>2. resync' = resync \/ resync' = resync \ {<<c.ev.uri, c.ev.rev>>}
      BY <1>3 DEF TakeAck
    <3>3. ASSUME NEW u \in Uris, Behind(u)', NEW d \in resync, d[1] = u PROVE d \in resync'
      <4>1. PICK n \in 1..cursor : repo[n].uri = u /\ src[u].rev < n
        BY <1>1, <3>1, <3>3 DEF Behind
      <4>2. d[2] = cursor
        BY DEF DebtsInv
      <4>3. CASE d = <<c.ev.uri, c.ev.rev>>
        BY <1>1, <2>1, <3>3, <4>1, <4>2, <4>3
      <4> QED
        BY <3>2, <4>3
    <3> QED
      BY <1>1, <3>1, <3>3, NobodyFallsBehind DEF BehindInv
  <2> QED
    BY <2>2, <2>3
<1> QED
  BY <1>2, <1>3 DEF Reply, repoVars

LEMMA NextKeepsBehind ==
    ASSUME RWorkers = {}, TypeInv, HeardInv, HistoryInv, DebtsInv, BehindInv, [Next]_vars
    PROVE  BehindInv'
<1>1. CASE UNCHANGED <<cursor, resync, resyncs>>
  BY <1>1, NobodyFallsBehind DEF BehindInv
<1>2. CASE Resync
  <2>1. /\ resyncs' > 0 /\ UNCHANGED repo /\ cursor' = Latest
        /\ resync' = {<<u, Latest>> : u \in {v \in Uris : BodyAt(v, Latest) # 0}}
    BY <1>2 DEF Resync, TypeInv, RepoTypeOK
  <2>2. ASSUME NEW u \in Uris PROVE (\E d \in resync' : d[1] = u) \/ BodyAt(u, cursor)' = 0
    <3>1. BodyAt(u, cursor)' = BodyAt(u, Latest)
      BY <2>1 DEF BodyAt
    <3>2. CASE BodyAt(u, Latest) # 0
      <4>1. <<u, Latest>> \in resync'
        BY <2>1, <3>2
      <4> QED
        BY <4>1
    <3> QED
      BY <3>1, <3>2
  <2> QED
    BY <2>1, <2>2 DEF BehindInv
<1> QED
  BY <1>1, <1>2, ReplyKeepsBehind, LoneSteps
  DEF OwnerTransition, Commit, Deliver, Ingest, Disconnect, repoVars

\* What the lone consumer and Tap keep between them.
DeliveryInv == SafetyInv /\ HeardInv /\ HistoryInv /\ DebtsInv /\ BehindInv

LEMMA DeliveryInit == Init => DeliveryInv
<1> SUFFICES ASSUME Init PROVE DeliveryInv
  OBVIOUS
<1>1. SafetyInv /\ HeardInv /\ Latest = 0 /\ cursor = 0 /\ resync = {} /\ ing[Consumer].phase = "idle"
  BY SafetyInit, HeardInit DEF Init, RepoInit, Latest, IngInit, NoIng, Ingestors
<1>2. HistoryInv
  <2>1. \A n \in 0..Latest : n = 0 /\ \A m \in 0..n : m = n
    BY <1>1
  <2> QED
    BY <2>1 DEF HistoryInv
<1>3. DebtsInv /\ BehindInv
  BY <1>1 DEF DebtsInv, BehindInv, Behind
<1> QED
  BY <1>1, <1>2, <1>3 DEF DeliveryInv

\* When nothing is left to do, whatever is completed is served as it is at the
\* head of the repository, after any redelivery, reordering, crash or resync:
\* no commit that Tap is done with is newer than the source, and a record stays
\* as it is until a commit touches it.
THEOREM QuietIsUpToDate ==
    ASSUME RWorkers = {}
    PROVE  Spec => []QuietServesHead
<1>1. DeliveryInv /\ [Next]_vars => DeliveryInv'
  BY SafetyNext, NextKeepsHeard, NextKeepsHistory, NextKeepsDebts, NextKeepsBehind
  DEF DeliveryInv, SafetyInv
<1>2. DeliveryInv => QuietServesHead
  <2> SUFFICES ASSUME DeliveryInv, Quiet, NEW u \in Uris,
                      job[<<u, "serving">>].st = "complete",
                      BodyAt(u, Latest) # 0 \/ resyncs = 0
               PROVE  served[u] = BodyAt(u, Latest)
    BY DEF QuietServesHead
  <2>1. /\ served[u] = src[u].body /\ src[u].body = BodyAt(u, src[u].rev) /\ src[u].rev <= Latest
        /\ src[u].rev \in Nat /\ Latest \in Nat /\ resyncs \in Nat
    BY DEF DeliveryInv, SafetyInv, CompletedIsServed, TruthInv, FaithfulTo, TypeInv, StoreTypeOK,
       Rows, RepoTypeOK, Latest
  <2>2. ~Behind(u)
    BY <2>1 DEF DeliveryInv, BehindInv, Quiet
  <2>3. \A r \in (src[u].rev + 1)..Latest : repo[r].uri # u
    BY <2>1, <2>2 DEF Behind, Quiet
  <2> QED
    BY <2>1, <2>3 DEF DeliveryInv, HistoryInv
<1> QED
  BY <1>1, <1>2, DeliveryInit, PTL DEF Spec

----------------------------------------------------------------------------
(* Members.                                                                *)

\* The states from which no subsystem but a login takes the owner back to
\* active, and a profile's event only as a create or an update.
ClosedStates == {"departed", "deleting", "terminal"}

\* An owner who is there has a state.  An owner whose call saw a closed state is
\* in one until the call ends, a profile's delete without a transition is under
\* way only then, and no active owner has a deleted profile of the present
\* generation.
ClosedInv ==
    LET c == ing[Consumer] IN
    /\ life = NoLife \/ life.state \in States
    /\ c.phase # "idle" => life.state \in States
    /\ c.phase \in {"ensured", "recheck", "open"} =>
          c.seen.state \in States /\ (c.seen.state \in ClosedStates => life.state \in ClosedStates)
    /\ c.phase = "open" /\ Profile(c.ev.uri) /\ c.ev.act = "delete" => life.state \in ClosedStates
NoProfileLost ==
    \A u \in Uris : Profile(u) /\ src[u].act = "delete" /\ src[u].gen = life.gen
                        => life.state # "active"

\* A lifecycle transition of another subsystem leaves closed states closed.
LEMMA ClosedStaysClosed ==
    ASSUME NEW to \in States, OwnerTransition(to)
    PROVE  /\ life'.state \in States
           /\ life.state \in ClosedStates => life'.state \in ClosedStates
<1>1. life'.state = to /\ <<life.state, to>> \in ValidTransitions \ LoginMoves
  BY StoreConstants DEF OwnerTransition
<1>2. life.state \in ClosedStates => to \in ClosedStates
  BY <1>1 DEF ValidTransitions, LoginMoves, ClosedStates
<1> QED
  BY <1>1, <1>2

\* A delete of the profile that asks for no transition has seen a closed state.
LEMMA DeletesSeeClosed ==
    ASSUME ClosedInv, OpenInstall(Consumer), Profile(ing[Consumer].ev.uri),
           ing[Consumer].ev.act = "delete"
    PROVE  life.state \in ClosedStates
<1> DEFINE c == ing[Consumer]
<1>1. CASE IsDenied(c.ev)
  BY <1>1 DEF IsDenied, ClosedStates
<1>2. CASE c.phase = "ensured"
  <2>1. c.seen.state = "terminal" \/ ProfileTransition(c.seen.state, "delete") = c.seen.state
    BY <1>2 DEF OpenInstall, InShared, WantsTransition, IsMalformed
  <2>2. c.seen.state \in ClosedStates
    BY <1>2, <2>1 DEF ProfileTransition, ClosedInv, ClosedStates, States
  <2> QED
    BY <1>2, <2>2 DEF ClosedInv
<1> QED
  BY <1>1, <1>2 DEF OpenInstall

\* The steps of a call.
LEMMA IngestKeepsClosed ==
    ASSUME TypeInv, ClosedInv, Ingest(Consumer)
    PROVE  ClosedInv'
<1> DEFINE c == ing[Consumer]
           d == ing'[Consumer]
<1>1. Consumer \in Ingestors /\ ing \in [Ingestors -> Calls] /\ c \in Calls /\ c.phase # "idle"
  BY CallsMove DEF CallMoves, Ingestors, TypeInv, CallsAreReady, IngTypeOK
<1>2. ASSUME d.phase = "answered", life'.state \in States PROVE ClosedInv'
  BY <1>2 DEF ClosedInv
<1>3. \A out : Answer(Consumer, out) => d.phase = "answered"
  BY <1>1 DEF Answer, NoIng
<1>4. life.state \in States
  BY <1>1 DEF ClosedInv
<1>5. CASE OpenInstall(Consumer)
  <2>1. d.phase = "open" /\ d.ev = c.ev /\ d.seen = c.seen /\ UNCHANGED life
        /\ c.phase \in {"ensured", "recheck"}
    BY <1>1, <1>5 DEF OpenInstall, storeVars, InShared, Calls
  <2> QED
    BY <1>4, <1>5, <2>1, DeletesSeeClosed DEF ClosedInv
<1>6. CASE TransitionProfile(Consumer)
  <2>1. CASE ing' = [ing EXCEPT ![Consumer].phase = "recheck"] /\ UNCHANGED life
    <3>1. d.phase = "recheck" /\ d.ev = c.ev /\ d.seen = c.seen /\ c.phase = "ensured"
      BY <1>1, <1>6, <2>1 DEF Calls, TransitionProfile, WantsTransition
    <3> QED
      BY <1>4, <2>1, <3>1 DEF ClosedInv
  <2>2. CASE life' = [state |-> ProfileTransition(life.state, c.ev.act), gen |-> life.gen + 1]
             /\ d.phase = "answered"
    <3>1. life'.state \in States
      BY <1>4, <2>2 DEF ProfileTransition, States
    <3> QED
      BY <1>2, <2>2, <3>1
  <2>3. CASE d.phase = "answered" /\ UNCHANGED life
    BY <1>2, <1>4, <2>3
  <2> QED
    BY <1>3, <1>6, <2>1, <2>2, <2>3 DEF TransitionProfile, storeVars
<1> QED
  BY <1>2, <1>3, <1>4, <1>5, <1>6
  DEF Ingest, Recognise, RecogniseConflict, RejectWinner, CommitInstall, storeVars

LEMMA NextKeepsClosed ==
    ASSUME RWorkers = {}, TypeInv, ClosedInv, [Next]_vars
    PROVE  ClosedInv'
<1> DEFINE c == ing[Consumer]
           d == ing'[Consumer]
<1>1. Consumer \in Ingestors /\ ing \in [Ingestors -> Calls] /\ life \in Lives
  BY DEF Ingestors, TypeInv, CallsAreReady, IngTypeOK, StoreTypeOK
<1>2. ASSUME NEW to \in States, OwnerTransition(to) PROVE ClosedInv'
  BY <1>2, ClosedStaysClosed DEF ClosedInv, OwnerTransition
<1>3. ASSUME NEW ev, Deliver(ev) PROVE ClosedInv'
  <2>1. d.phase = "ensured" /\ d.seen = EnsuredLife /\ life' = EnsuredLife
    BY <1>1, <1>3 DEF Deliver, BeginIngest, NoIng
  <2>2. EnsuredLife.state \in States
    BY DEF EnsuredLife, ClosedInv, States
  <2> QED
    BY <2>1, <2>2 DEF ClosedInv
<1>4. CASE Reply \/ Disconnect
  BY <1>1, <1>4 DEF Reply, Disconnect, NoIng, storeVars, ClosedInv
<1>5. CASE UNCHANGED <<life, ing>>
  BY <1>5 DEF ClosedInv
<1> QED
  BY <1>2, <1>3, <1>4, <1>5, IngestKeepsClosed, LoneSteps

\* No step gives an active owner a deleted profile of the present generation.
LEMMA NextKeepsProfiles ==
    ASSUME RWorkers = {}, TypeInv, RowsInv, ClosedInv, NoProfileLost, [Next]_vars
    PROVE  NoProfileLost'
<1> DEFINE c == ing[Consumer]
<1>1. /\ src \in [Uris -> Rows] /\ life.gen \in Nat /\ life'.gen \in Nat
      /\ \A u \in Uris : src[u].gen \in Nat /\ src[u].gen <= life.gen
      /\ c.phase # "idle" => c.ev.uri \in Uris
  <2>1. src \in [Uris -> Rows] /\ life \in Lives /\ life' \in Lives
    BY NextType DEF TypeInv, StoreTypeOK
  <2> QED
    BY <2>1 DEF Rows, Lives, RowsInv, TypeInv, CallsAreReady, Ingestors, Events
<1>2. ASSUME NEW u \in Uris, src'[u] = src[u]
      PROVE  Profile(u) /\ src'[u].act = "delete" /\ src'[u].gen = life'.gen
                => life'.state # "active"
  BY <1>1, <1>2, LifeSteps DEF LifeMoves, NoProfileLost
<1>3. CASE UNCHANGED src
  BY <1>2, <1>3 DEF NoProfileLost
<1>4. CASE life'.state # "active"
  BY <1>4 DEF NoProfileLost
<1>5. CASE \A u \in Uris : src'[u].act = src[u].act /\ src'[u].gen = src[u].gen
  BY <1>1, <1>5, LifeSteps DEF LifeMoves, NoProfileLost
<1>6. ASSUME NEW plan, NEW gen, InstallSource(c.ev.uri, SourceRow(c.ev, plan, gen), plan),
             c.phase # "idle", c.ev.act = "delete" /\ Profile(c.ev.uri) => life'.state # "active"
      PROVE  NoProfileLost'
  <2>1. src'[c.ev.uri].act = c.ev.act /\ \A v \in Uris : v # c.ev.uri => src'[v] = src[v]
    BY <1>1, <1>6 DEF InstallSource, SourceRow
  <2>2. ASSUME NEW v \in Uris, v # c.ev.uri
        PROVE  Profile(v) /\ src'[v].act = "delete" /\ src'[v].gen = life'.gen
                  => life'.state # "active"
    BY <1>2, <2>1, <2>2
  <2>3. Profile(c.ev.uri) /\ src'[c.ev.uri].act = "delete" => life'.state # "active"
    BY <1>6, <2>1
  <2> QED
    BY <2>2, <2>3 DEF NoProfileLost
<1>7. CASE Recognise(Consumer)
  BY <1>3, <1>4, <1>7 DEF Recognise, IsDenied
<1>8. CASE RecogniseConflict(Consumer)
  <2>1. CASE MarkConflict(c.ev.uri)
    <3>1. src' = [src EXCEPT ![c.ev.uri].ord = "uncertain", ![c.ev.uri].disp = "pending"]
      BY <2>1 DEF MarkConflict
    <3>2. ASSUME NEW u \in Uris PROVE src'[u].act = src[u].act /\ src'[u].gen = src[u].gen
      <4>1. src[u] \in Rows
        BY <1>1
      <4> QED
        BY <1>1, <3>1, <4>1 DEF Rows
    <3> QED
      BY <1>5, <3>2
  <2> QED
    BY <1>3, <1>4, <1>8, <2>1 DEF RecogniseConflict, IsDenied
<1>9. CASE CommitInstall(Consumer)
  <2>1. c.phase = "open" /\ life' = life
    BY <1>9 DEF CommitInstall
  <2>2. c.ev.act = "delete" /\ Profile(c.ev.uri) => life'.state # "active"
    BY <2>1 DEF ClosedInv, ClosedStates
  <2> QED
    BY <1>6, <1>9, <2>1, <2>2 DEF CommitInstall
<1>10. CASE TransitionProfile(Consumer)
  <2>1. CASE life' = [state |-> ProfileTransition(life.state, c.ev.act), gen |-> life.gen + 1]
             /\ \E plan, gen : InstallSource(c.ev.uri, SourceRow(c.ev, plan, gen), plan)
    <3>1. c.ev.act = "delete" => life'.state # "active"
      BY <2>1 DEF ProfileTransition
    <3> QED
      BY <1>6, <1>10, <2>1, <3>1 DEF TransitionProfile, WantsTransition
  <2> QED
    BY <1>3, <1>10, <2>1 DEF TransitionProfile, storeVars
<1>11. CASE Ingest(Consumer)
  BY <1>3, <1>7, <1>8, <1>9, <1>10, <1>11 DEF Ingest, RejectWinner, OpenInstall, storeVars
<1> QED
  BY <1>3, <1>11, LoneSteps DEF OwnerTransition, Deliver, Reply, Disconnect, storeVars

\* A projection that is about to show a post or a like has found a member, and
\* the owner is one until it commits.
ShowsForMembers ==
    \A w \in Projectors :
        proj[w].phase = "open" /\ proj[w].res.effect = "serve" /\ ~Profile(proj[w].key[1])
            => Member

\* Projections do not change while they are open.
LEMMA OpenStays ==
    ASSUME SafetyInv, [Next]_vars, NEW w \in Projectors, proj'[w].phase = "open"
    PROVE  proj'[w] = proj[w] \/ OpenProjection(w)
<1>1. proj \in [Projectors -> Claims] /\ TypeInv /\ TruthInv /\ RowsInv /\ OpenExcludesCalls
  BY DEF SafetyInv, TypeInv, ClaimsAreReady, ProjTypeOK, ProjectionIsExclusive, OpenExcludesCalls
<1>2. ASSUME NEW v, proj' = [proj EXCEPT ![v] = NoProj] PROVE proj'[w] = proj[w]
  BY <1>1, <1>2 DEF NoProj
<1>3. ASSUME NEW v, NEW k, Take(v, k) PROVE proj'[w] = proj[w]
  <2>1. proj'[v].phase = "claimed" \/ v \notin Projectors
    BY <1>1, <1>3 DEF Take, NoProj
  <2> QED
    BY <1>1, <1>3, <2>1 DEF Take
<1>4. ASSUME NEW v, OpenProjection(v) PROVE proj'[w] = proj[w] \/ OpenProjection(w)
  BY <1>1, <1>4 DEF OpenProjection
<1> QED
  BY <1>1, <1>2, <1>3, <1>4, StepKinds
  DEF Rests, Installs, Marks, HoldsBack, Takes, Leaves, Fails, FailProjection, Lapses, Lapse,
      OpenInstall, CommitProjection

\* An active owner who is a member stays one: the only step that takes a profile
\* away projects its delete under the present generation.
LEMMA MemberStays ==
    ASSUME SafetyInv, NoProfileLost, [Next]_vars, Member, life.state = "active"
    PROVE  Member'
<1>1. /\ TypeInv /\ TruthInv /\ RowsInv /\ JobsInv /\ DecisionsAreWarranted /\ OpenExcludesCalls
  BY DEF SafetyInv, ProjectionIsExclusive, OpenExcludesCalls
<1>2. PICK p \in Uris : Profile(p) /\ served[p] # 0
  BY DEF Member
<1>3. ASSUME NEW v \in Projectors, CommitProjection(v) PROVE served'[p] # 0
  <2>1. proj[v].phase = "open"
    BY <1>3 DEF CommitProjection
  <2>2. CASE p # proj[v].key[1]
    BY <1>1, <1>2, <1>3, <2>2, CommitServesOwn
  <2>3. CASE p = proj[v].key[1] /\ proj[v].res.effect = "serve"
    <3>1. served'[p] = src[p].body
      BY <1>1, <1>3, <2>3, CommitServesOwn
    <3> QED
      BY <1>1, <2>1, <2>3, <3>1, ShownHasBody
  <2>4. CASE p = proj[v].key[1] /\ proj[v].res.effect = "remove"
    <3>1. src[p].act = "delete" /\ src[p].gen = life.gen
      BY <1>1, <1>2, <2>1, <2>4 DEF DecisionsAreWarranted, Warranted
    <3> QED
      BY <1>2, <3>1 DEF NoProfileLost
  <2>5. CASE p = proj[v].key[1] /\ proj[v].res.effect \notin {"serve", "remove"}
    BY <1>1, <1>2, <1>3, <2>5, CommitServesOwn
  <2> QED
    BY <2>2, <2>3, <2>4, <2>5
<1>4. UNCHANGED served \/ \E w \in Projectors : CommitProjection(w)
  BY <1>1, StepKinds, OtherStepsSettleNothing DEF Installs, Marks, HoldsBack
<1> QED
  BY <1>2, <1>3, <1>4 DEF Member

LEMMA NextKeepsMembers ==
    ASSUME SafetyInv, NoProfileLost, ShowsForMembers, [Next]_vars
    PROVE  ShowsForMembers'
<1>1. SUFFICES ASSUME NEW w \in Projectors, proj'[w].phase = "open",
                      proj'[w].res.effect = "serve", ~Profile(proj'[w].key[1])
               PROVE  Member'
  BY DEF ShowsForMembers, Profile
<1>2. CASE proj'[w] = proj[w]
  <2>1. Member /\ life.state = "active"
    BY <1>1, <1>2 DEF ShowsForMembers, SafetyInv, DecisionsAreWarranted, Warranted
  <2> QED
    BY <2>1, MemberStays
<1>3. CASE OpenProjection(w)
  <2>1. /\ proj[w].key \in JobKeys /\ proj'[w].key = proj[w].key
        /\ proj'[w].res = Decide(proj[w].key) /\ UNCHANGED served
    BY <1>3 DEF OpenProjection, storeVars, SafetyInv, TypeInv, ClaimsAreReady, ProjTypeOK, Claims
  <2>2. Member
    BY <1>1, <2>1, DecideWarranted DEF SafetyInv
  <2> QED
    BY <2>1, <2>2 DEF Member
<1> QED
  BY <1>1, <1>2, <1>3, OpenStays

MembersInv == SafetyInv /\ ClosedInv /\ NoProfileLost /\ ShowsForMembers

LEMMA MembersInit == Init => MembersInv
<1> SUFFICES ASSUME Init PROVE MembersInv
  OBVIOUS
<1>1. ClosedInv /\ ShowsForMembers
  BY DEF Init, StoreInit, IngInit, ProjInit, NoIng, NoProj, Ingestors, ClosedInv, ShowsForMembers
<1>2. NoProfileLost
  BY DEF Init, StoreInit, NoRow, NoProfileLost
<1> QED
  BY <1>1, <1>2, SafetyInit DEF MembersInv

\* A step that shows a post or a like leaves its owner a member, although the
\* projection reads the membership once and does not lock it: the lifecycle
\* leaves active under the exclusive fence before a profile's delete can be
\* installed, and an open projection holds the fence shared
\* (projectionMemberReady, Service.IngestRecord, CraftskyProfile.handleDelete).
THEOREM OnlyMembersAreServed ==
    ASSUME RWorkers = {}
    PROVE  Spec => ServesOnlyMembers
<1> DEFINE Shows ==
        \A u \in Uris : ~Profile(u) /\ served'[u] # served[u] /\ served'[u] # 0 => Member'
<1>1. MembersInv /\ [Next]_vars => MembersInv'
  BY SafetyNext, NextKeepsClosed, NextKeepsProfiles, NextKeepsMembers DEF MembersInv, SafetyInv
<1>2. ASSUME MembersInv, [Next]_vars PROVE Shows
  <2>1. /\ TypeInv /\ TruthInv /\ RowsInv /\ DecisionsAreWarranted /\ OpenExcludesCalls
    BY <1>2 DEF MembersInv, SafetyInv, ProjectionIsExclusive, OpenExcludesCalls
  <2>2. ASSUME NEW w \in Projectors, CommitProjection(w), NEW u \in Uris, ~Profile(u),
               served'[u] # served[u], served'[u] # 0
        PROVE  Member'
    <3>1. u = proj[w].key[1] /\ proj[w].res.effect = "serve" /\ proj[w].phase = "open"
      BY <2>1, <2>2, CommitServesOwn DEF CommitProjection
    <3>2. Member /\ life.state = "active"
      BY <1>2, <2>1, <2>2, <3>1 DEF MembersInv, ShowsForMembers, DecisionsAreWarranted, Warranted
    <3> QED
      BY <1>2, <3>2, MemberStays DEF MembersInv
  <2>3. UNCHANGED served \/ \E w \in Projectors : CommitProjection(w)
    BY <1>2, <2>1, StepKinds, OtherStepsSettleNothing DEF Installs, Marks, HoldsBack
  <2> QED
    BY <2>2, <2>3
<1> QED
  BY <1>1, <1>2, MembersInit, PTL DEF Spec, ServesOnlyMembers

----------------------------------------------------------------------------
(* The promise to readers.                                                 *)

\* A decision follows the body that the version has: what is malformed is not
\* shown, and what is there and well formed is not removed, but for a like.
FollowsBody(k, res) ==
    LET row == src[k[1]] IN
    /\ res.effect = "serve" => row.body \notin Malformed
    /\ res.effect = "remove" =>
          row.act = "delete" \/ row.body \in Malformed \/ Collection[k[1]] = "like"
DecisionsFollowBodies ==
    \A w \in Projectors : proj[w].phase = "open" => FollowsBody(proj[w].key, proj[w].res)

LEMMA DecideFollowsBody ==
    ASSUME NEW k \in JobKeys
    PROVE  FollowsBody(k, Decide(k))
<1> DEFINE u == k[1]
           row == src[u]
           bad == IsMalformed(row.act, row.body)
           act == IF bad THEN "delete" ELSE row.act
           res == IF k[2] = "serving" THEN ServingProjector(u, act)
                  ELSE NotificationProjector(u, act)
<1>1. /\ bad => row.body \in Malformed
      /\ row.act # "delete" /\ ~bad => row.body \notin Malformed
  BY DEF IsMalformed
<1>2. Decide(k).effect \in {"serve", "remove"} =>
         \/ bad /\ Decide(k).effect = res.effect
         \/ ~bad /\ Decide(k) = res
  <2>1. Eligibility(row).kind # "applied" => Eligibility(row).effect = "none"
    BY DEF Eligibility, Blocked, Refused, Applied, Result
  <2>2. Dispatch(k) = IF bad /\ Profile(u) THEN RefusedMalformed("none")
                      ELSE IF row.gen # life.gen THEN Blocked(OnRepository)
                      ELSE IF bad THEN RefusedMalformed(res.effect) ELSE res
    BY DEF Dispatch
  <2> HIDE DEF res, bad
  <2> QED
    BY <2>1, <2>2, ResultFacts DEF Decide
<1>3. /\ act = "delete" => res.effect # "serve"
      /\ res.effect = "remove" => act = "delete" \/ Collection[u] = "like"
  <2>1. ServingProjector(u, "delete").effect = "remove"
    BY ResultFacts DEF ServingProjector
  <2>2. act # "delete" /\ ServingProjector(u, act).effect = "remove" => Collection[u] = "like"
    BY ResultFacts DEF ServingProjector
  <2>3. NotificationProjector(u, act).effect \notin {"serve", "remove"}
    BY ResultFacts DEF NotificationProjector
  <2> QED
    BY <2>1, <2>2, <2>3
<1> QED
  BY <1>1, <1>2, <1>3 DEF FollowsBody

\* A step leaves the open projections and their sources alone, or opens one.
LEMMA OpensOrKeeps ==
    ASSUME SafetyInv, [Next]_vars
    PROVE  OpenKept \/ \E w \in Projectors : OpenProjection(w)
<1>1. TypeInv /\ TruthInv /\ RowsInv /\ ProjectionIsExclusive /\ OpenExcludesCalls
  BY DEF SafetyInv, ProjectionIsExclusive, OpenExcludesCalls
<1> QED
  BY <1>1, StepKinds, InstallsExclusive, MarksExclusive, OpenInstallExclusive, TakesExclusive,
     CommitsExclusive, OtherStepsExclusive

LEMMA NextFollowsBodies ==
    ASSUME SafetyInv, DecisionsFollowBodies, [Next]_vars
    PROVE  DecisionsFollowBodies'
<1>1. CASE OpenKept
  BY <1>1 DEF OpenKept, DecisionsFollowBodies, FollowsBody
<1>2. ASSUME NEW w \in Projectors, OpenProjection(w)
      PROVE  DecisionsFollowBodies'
  <2>1. /\ proj[w].key \in JobKeys /\ proj'[w].key = proj[w].key
        /\ proj'[w].res = Decide(proj[w].key) /\ UNCHANGED src
        /\ \A v \in Projectors : v # w => proj'[v] = proj[v]
    BY <1>2 DEF OpenProjection, storeVars, SafetyInv, TypeInv, ClaimsAreReady, ProjTypeOK, Claims
  <2>2. FollowsBody(proj[w].key, Decide(proj[w].key))
    BY <2>1, DecideFollowsBody
  <2> QED
    BY <2>1, <2>2 DEF DecisionsFollowBodies, FollowsBody
<1> QED
  BY <1>1, <1>2, OpensOrKeeps

PromiseInv == MembersInv /\ HeardInv /\ DecisionsFollowBodies

\* A commit of the owner is a write.
LEMMA CommitPromise ==
    ASSUME NEW u \in Uris, NEW writes \in BOOLEAN, Commit(u, writes),
           UNCHANGED <<life, src, served>>
    PROVE  Reader!Next
<1> DEFINE body == IF writes THEN Len(repo) + 1 ELSE 0
<1>1. Reader!Write(u, body)
  BY DEF Commit, Reader!Write, Reader!BodyAt, BodyAt, Latest
<1>2. body = Len(repo) + 1 \/ body = 0
  OBVIOUS
<1> QED
  BY <1>1, <1>2 DEF Reader!Next

\* The newer version of a record is known.
LEMMA Learnt ==
    ASSUME TypeInv, TypeInv', NEW u \in Uris, NEW n \in 1..Len(repo), src[u].rev < n,
           src'[u].rev = n, \A v \in Uris : v # u => src'[v].rev = src[v].rev,
           UNCHANGED <<repo, served>>,
           IF Profile(u) THEN BodyAt(u, n) = 0 => life'.state # "active"
                         ELSE life'.state = life.state
    PROVE  Reader!Next
<1> DEFINE known == [v \in Uris |-> src[v].rev]
<1>1. known[u] < n
  OBVIOUS
<1>2. [v \in Uris |-> src'[v].rev] = [known EXCEPT ![u] = n]
  OBVIOUS
<1>3. Reader!BodyAt(u, n) = BodyAt(u, n)
  BY DEF Reader!BodyAt, BodyAt
<1>4. Reader!Learn(u, n)
  BY <1>1, <1>2, <1>3 DEF Reader!Learn
<1> QED
  BY <1>4 DEF Reader!Next

\* A call that installs a version learns it.
LEMMA IngestPromise ==
    ASSUME PromiseInv, Ingest(Consumer), [Next]_vars, UNCHANGED <<repo, served>>
    PROVE  Reader!Next \/ UNCHANGED Reader!vars
<1> DEFINE c == ing[Consumer]
           u == c.ev.uri
           known == [v \in Uris |-> src[v].rev]
<1>1. /\ TypeInv /\ TruthInv /\ HeardInv /\ ClosedInv
      /\ Consumer \in Ingestors /\ ing \in [Ingestors -> Calls] /\ c \in Calls
      /\ src \in [Uris -> Rows] /\ repo \in Seq(Commits)
  BY DEF PromiseInv, MembersInv, SafetyInv, Ingestors, TypeInv, CallsAreReady, IngTypeOK,
     StoreTypeOK, RepoTypeOK
<1>2. CallMoves
  BY <1>1, CallsMove
<1>3. /\ c.phase # "idle" /\ u \in Uris /\ c.ev.rev \in Nat /\ c.ev.act \in Actions
      /\ FaithfulTo(u, c.ev) /\ c.ev.rev > 0
  BY <1>1, <1>2 DEF CallMoves, TypeInv, CallsAreReady, TruthInv, CallsAreTrue, Events
<1>4. c.ev.rev \in 1..Len(repo)
  BY <1>1, <1>3 DEF FaithfulTo, Latest
<1>5. c.ev.act = "delete" <=> BodyAt(u, c.ev.rev) = 0
  BY <1>3 DEF FaithfulTo, Actions
<1>6. TypeInv'
  BY <1>1, NextType
<1>7. ASSUME NEW plan, NEW gen, InstallSource(u, SourceRow(c.ev, plan, gen), plan)
      PROVE  src'[u].rev = c.ev.rev /\ \A v \in Uris : v # u => src'[v].rev = src[v].rev
  BY <1>1, <1>3, <1>7 DEF InstallSource, SourceRow
<1>8. TypeInv' /\ UNCHANGED <<repo, served>>
  BY <1>6
<1>9. CASE CommitInstall(Consumer)
  <2>1. /\ UNCHANGED life /\ c.phase = "open" /\ src[u].rev < c.ev.rev
        /\ src'[u].rev = c.ev.rev /\ \A v \in Uris : v # u => src'[v].rev = src[v].rev
    BY <1>1, <1>7, <1>9 DEF CommitInstall, HeardInv
  <2>2. Profile(u) /\ c.ev.act = "delete" => life.state # "active"
    BY <1>1, <2>1 DEF ClosedInv, ClosedStates
  <2> QED
    <3>1. PICK v, n : v = u /\ n = c.ev.rev
      OBVIOUS
    <3> QED
      BY <1>1, <1>3, <1>4, <1>5, <1>8, <2>1, <2>2, <3>1, Learnt
<1>10. ASSUME UNCHANGED life, \A v \in Uris : src'[v].rev = src[v].rev
       PROVE  UNCHANGED Reader!vars
  BY <1>10 DEF Reader!vars
<1>11. CASE TransitionProfile(Consumer)
  <2>1. Profile(u)
    BY <1>11 DEF TransitionProfile, WantsTransition
  <2>2. CASE UNCHANGED <<life, src>>
    BY <1>10, <2>2
  <2>3. CASE /\ Decision(Consumer) = "newer"
             /\ life'.state = ProfileTransition(life.state, c.ev.act)
             /\ src'[u].rev = c.ev.rev /\ \A v \in Uris : v # u => src'[v].rev = src[v].rev
    <3>1. src[u].rev < c.ev.rev
      BY <1>1, <1>3, <2>3 DEF Decision, SelectSourceVersion, Rows
    <3>2. c.ev.act = "delete" => life'.state # "active"
      BY <2>3 DEF ProfileTransition
    <3>3. PICK v, n : v = u /\ n = c.ev.rev
      OBVIOUS
    <3> QED
      BY <1>1, <1>3, <1>4, <1>5, <1>8, <2>1, <2>3, <3>1, <3>2, <3>3, Learnt
  <2>4. CASE life.gen # c.seen.gen \/ Decision(Consumer) # "newer"
    BY <1>11, <2>2, <2>4 DEF TransitionProfile, storeVars
  <2>5. CASE life.gen = c.seen.gen /\ Decision(Consumer) = "newer"
    <3>1. /\ life'.state = ProfileTransition(life.state, c.ev.act)
          /\ \E plan, gen : InstallSource(u, SourceRow(c.ev, plan, gen), plan)
      BY <1>11, <2>5 DEF TransitionProfile
    <3> QED
      BY <1>7, <2>3, <2>5, <3>1
  <2> QED
    BY <2>4, <2>5
<1>12. CASE Recognise(Consumer) \/ RecogniseConflict(Consumer)
  <2>1. UNCHANGED life
    BY <1>12 DEF Recognise, RecogniseConflict
  <2>2. ASSUME NEW v \in Uris PROVE src'[v].rev = src[v].rev
    <3>1. src[v] \in Rows
      BY <1>1
    <3>2. CASE UNCHANGED src
      BY <3>2
    <3>3. CASE src' = [src EXCEPT ![u].ord = "uncertain", ![u].disp = "denied_terminal",
                                  ![u].gen = life.gen]
      BY <1>1, <3>1, <3>3 DEF Rows
    <3>4. CASE src' = [src EXCEPT ![u].ord = "uncertain", ![u].disp = "pending"]
      BY <1>1, <3>1, <3>4 DEF Rows
    <3>5. CASE src' = [src EXCEPT ![u].disp = "denied_terminal", ![u].gen = life.gen]
      BY <1>1, <3>1, <3>5 DEF Rows
    <3> QED
      BY <1>12, <3>2, <3>3, <3>4, <3>5
      DEF Recognise, DenyProfile, RecogniseConflict, MarkConflict
  <2> QED
    BY <1>10, <2>1, <2>2
<1>13. CASE RejectWinner(Consumer) \/ OpenInstall(Consumer)
  BY <1>10, <1>13 DEF RejectWinner, OpenInstall, storeVars
<1> QED
  BY <1>9, <1>11, <1>12, <1>13 DEF Ingest

\* A projection that ends shows what is known, or hides what is known to be gone
\* or unfit.
LEMMA ProjectionPromise ==
    ASSUME PromiseInv, NEW w \in Projectors, CommitProjection(w), UNCHANGED repo
    PROVE  Reader!Next \/ UNCHANGED Reader!vars
<1> DEFINE u == proj[w].key[1]
           res == proj[w].res
<1>1. /\ TypeInv /\ TruthInv /\ RowsInv /\ JobsInv /\ DecisionsAreWarranted
      /\ proj[w].phase = "open"
      /\ UNCHANGED <<life, src>>
      /\ u \in Uris /\ served \in [Uris -> 0..MaxRev]
  BY CommitServesOwn DEF PromiseInv, MembersInv, SafetyInv, CommitProjection, TypeInv, StoreTypeOK
<1>2. served' = Served(u, res.effect)
  BY DEF CommitProjection
<1>3. src[u].body = Reader!Known(u)
  BY <1>1 DEF TruthInv, FaithfulTo, Reader!Known, Reader!BodyAt, BodyAt
<1>4. FollowsBody(proj[w].key, res) /\ Warranted(proj[w].key, res)
  BY <1>1 DEF PromiseInv, DecisionsFollowBodies, DecisionsAreWarranted
<1>5. src[u].body = 0 <=> src[u].act \in {"delete", "none"}
  BY <1>1 DEF TruthInv, FaithfulTo
<1>6. CASE res.effect = "serve"
  <2>1. src[u].body \notin Malformed \cup {0} /\ life.state = "active"
    BY <1>1, <1>4, <1>5, <1>6, ShownHasBody DEF FollowsBody, Warranted
  <2>2. Profile(u) \/ Member
    BY <1>1, <1>6 DEF PromiseInv, MembersInv, ShowsForMembers
  <2>3. Reader!Show(u)
    BY <1>1, <1>2, <1>3, <1>6, <2>1, <2>2 DEF Reader!Show, Served, Member
  <2> QED
    BY <1>1, <2>3 DEF Reader!Next
<1>7. CASE res.effect = "remove"
  <2>1. src[u].body \in Malformed \cup {0} \/ Collection[u] = "like"
    BY <1>4, <1>5, <1>7 DEF FollowsBody
  <2>2. Profile(u) => src[u].body = 0 /\ life.state # "active"
    BY <1>1, <1>4, <1>5, <1>7 DEF Warranted, PromiseInv, MembersInv, NoProfileLost
  <2>3. Reader!Hide(u)
    BY <1>1, <1>2, <1>3, <1>7, <2>1, <2>2 DEF Reader!Hide, Served
  <2> QED
    BY <1>1, <2>3 DEF Reader!Next
<1>8. CASE res.effect \notin {"serve", "remove"}
  BY <1>1, <1>2, <1>8 DEF Served, Reader!vars
<1> QED
  BY <1>6, <1>7, <1>8
\* A record is shown in the newest version that the AppView knows, and only of
\* an active owner whose profile is shown; it stays until it is known to be gone
\* or malformed, and no active owner's profile goes: what goes on between events,
\* jobs, leases and lifecycle changes cannot be told from the outside
\* (Service.IngestRecord, Store.project, TransactionalDispatcher).
THEOREM PromiseHolds ==
    ASSUME RWorkers = {}
    PROVE  Spec => KeepsPromise
<1>1. Init => PromiseInv /\ Reader!Init
  <2> SUFFICES ASSUME Init PROVE PromiseInv /\ Reader!Init
    OBVIOUS
  <2>1. DecisionsFollowBodies
    BY DEF Init, ProjInit, NoProj, DecisionsFollowBodies
  <2>2. Reader!Init
    BY DEF Init, RepoInit, StoreInit, NoRow, NoLife, Reader!Init
  <2> QED
    BY <2>1, <2>2, MembersInit, HeardInit DEF PromiseInv
<1>2. ASSUME PromiseInv, [Next]_vars PROVE PromiseInv'
  BY <1>2, SafetyNext, NextKeepsClosed, NextKeepsProfiles, NextKeepsMembers, NextKeepsHeard,
     NextFollowsBodies DEF PromiseInv, MembersInv, SafetyInv
<1>3. ASSUME PromiseInv, [Next]_vars PROVE Reader!Next \/ UNCHANGED Reader!vars
  <2>1. SafetyInv /\ TypeInv /\ TruthInv /\ RowsInv /\ OpenExcludesCalls
    BY <1>3 DEF PromiseInv, MembersInv, SafetyInv, ProjectionIsExclusive, OpenExcludesCalls
  <2>2. UNCHANGED served \/ \E w \in Projectors : CommitProjection(w)
    BY <1>3, <2>1, StepKinds, OtherStepsSettleNothing DEF Installs, Marks, HoldsBack
  <2>3. CASE UNCHANGED storeVars /\ \E u \in Uris, writes \in BOOLEAN : Commit(u, writes)
    BY <2>3, CommitPromise DEF storeVars
  <2>4. CASE UNCHANGED repo /\ \E w \in Projectors : CommitProjection(w)
    BY <1>3, <2>4, ProjectionPromise
  <2>5. CASE UNCHANGED <<repo, served>>
    <3>1. CASE UNCHANGED <<life.state, src>>
      BY <2>5, <3>1 DEF Reader!vars
    <3>2. ASSUME NEW to \in States, OwnerTransition(to) PROVE Reader!Move \/ UNCHANGED Reader!vars
      BY <3>2 DEF OwnerTransition, repoVars, Reader!Move, Reader!vars
    <3>3. ASSUME NEW ev, Deliver(ev) PROVE UNCHANGED Reader!vars
      BY <3>3 DEF Deliver, BeginIngest, EnsuredLife, NoLife, repoVars, Reader!vars
    <3>4. CASE Ingest(Consumer)
      BY <1>3, <2>5, <3>4, IngestPromise
    <3>5. Reply \/ Disconnect => UNCHANGED <<life.state, src>>
      BY DEF Reply, Disconnect, storeVars
    <3> QED
      BY <1>3, <3>1, <3>2, <3>3, <3>4, <3>5, LoneSteps DEF Reader!Next
  <2> QED
    BY <1>3, <2>2, <2>3, <2>4, <2>5, OnlyCommitsWrite
<1> QED
  BY <1>1, <1>2, <1>3, PTL DEF Spec, KeepsPromise, Reader!Spec

----------------------------------------------------------------------------
(* Readers do not go back.                                                 *)

\* The body of a record only grows from commit to commit, unless it goes.
BodiesGrow ==
    \A u \in Uris : \A n \in 0..Latest : \A m \in 0..n :
        /\ BodyAt(u, n) \in 0..n
        /\ BodyAt(u, n) # 0 => BodyAt(u, m) <= BodyAt(u, n)

\* What is shown was there at a revision that is known.
ShownWas ==
    \A u \in Uris : \E m \in Nat : m <= src[u].rev /\ served[u] = BodyAt(u, m)

LEMMA CommitGrowsBodies ==
    ASSUME TypeInv, BodiesGrow, Grows, NEW v \in Uris, NEW writes \in BOOLEAN, Commit(v, writes)
    PROVE  BodiesGrow'
<1>1. PICK h : h = Latest
  OBVIOUS
<1>2. /\ h \in Nat /\ Latest' = h + 1
      /\ \A x \in Uris, n \in 0..h : BodyAt(x, n)' = BodyAt(x, n)
      /\ \A x \in Uris : x # v => BodyAt(x, h + 1)' = BodyAt(x, h)
      /\ BodyAt(v, h + 1)' \in {0, h + 1}
  BY <1>1, CommitAdds
<1>3. \A u \in Uris : \A n \in 0..h : \A m \in 0..n :
         BodyAt(u, n) \in 0..n /\ (BodyAt(u, n) # 0 => BodyAt(u, m) <= BodyAt(u, n))
  BY <1>1 DEF BodiesGrow
<1>4. ASSUME NEW u \in Uris, NEW n \in 0..(h + 1), NEW m \in 0..n
      PROVE  /\ BodyAt(u, n)' \in 0..n
             /\ BodyAt(u, n)' # 0 => BodyAt(u, m)' <= BodyAt(u, n)'
  <2>1. CASE n \in 0..h
    <3>1. m \in 0..h
      BY <1>2, <2>1
    <3> QED
      BY <1>2, <1>3, <2>1, <3>1
  <2>2. CASE n = h + 1
    <3>1. BodyAt(u, h + 1)' \in {0, h + 1} \/ BodyAt(u, h + 1)' = BodyAt(u, h)
      BY <1>2
    <3>2. h \in 0..h /\ BodyAt(u, h) \in 0..h
      BY <1>2, <1>3
    <3>3. m \in 0..h => BodyAt(u, m)' = BodyAt(u, m) /\ BodyAt(u, m) \in 0..h
      <4>1. m \in 0..h => BodyAt(u, m) \in 0..m /\ BodyAt(u, m)' = BodyAt(u, m)
        BY <1>2, <1>3
      <4> QED
        BY <1>2, <4>1
    <3>4. CASE m \in 0..h
      <4>1. BodyAt(u, h) # 0 => BodyAt(u, m) <= BodyAt(u, h)
        BY <1>3, <3>2, <3>4
      <4> QED
        BY <1>2, <2>2, <3>1, <3>2, <3>3, <3>4, <4>1
    <3>5. CASE m = h + 1
      BY <1>2, <2>2, <3>1, <3>2, <3>5
    <3> QED
      BY <1>2, <2>2, <3>4, <3>5
  <2> QED
    BY <1>2, <2>1, <2>2
<1> QED
  BY <1>2, <1>4 DEF BodiesGrow

LEMMA NextGrowsBodies ==
    ASSUME TypeInv, BodiesGrow, [Next]_vars
    PROVE  BodiesGrow'
<1>1. CASE UNCHANGED repo
  BY <1>1 DEF BodiesGrow, BodyAt, Latest
<1> QED
  BY <1>1, OnlyCommitsWrite, RepositoryGrows, CommitGrowsBodies

\* A reader who has seen a version of a record is not shown an older one later,
\* through redelivery, resyncs, crashes and competing workers: sources only get
\* newer and a projection shows the source it holds locked
\* (Service.IngestRecord, Store.project).
THEOREM ReadsGoForward ==
    ASSUME RWorkers = {}
    PROVE  Spec => [][\A u \in Uris : served'[u] # 0 => served[u] <= served'[u]]_vars
<1> DEFINE Inv == SafetyInv /\ HeardInv /\ BodiesGrow /\ ShownWas
           Forward == \A u \in Uris : served'[u] # 0 => served[u] <= served'[u]
<1>1. Init => Inv
  <2> SUFFICES ASSUME Init PROVE Inv
    OBVIOUS
  <2>1. BodiesGrow
    BY DEF Init, RepoInit, BodiesGrow, BodyAt, Latest
  <2>2. ShownWas
    <3>1. ASSUME NEW u \in Uris PROVE 0 <= src[u].rev /\ served[u] = BodyAt(u, 0)
      <4>1. BodyAt(u, 0) = 0
        BY DEF BodyAt
      <4>2. src[u] = NoRow /\ served[u] = 0
        BY DEF Init, StoreInit
      <4>3. NoRow.rev = 0
        BY DEF NoRow
      <4> QED
        BY <4>1, <4>2, <4>3
    <3> QED
      BY <3>1 DEF ShownWas
  <2> QED
    BY <2>1, <2>2, SafetyInit, HeardInit
<1>2. ASSUME Inv, [Next]_vars PROVE Inv' /\ Forward
  <2>1. /\ SafetyInv /\ TypeInv /\ TruthInv /\ RowsInv /\ JobsInv /\ OpenExcludesCalls
        /\ SafetyInv' /\ HeardInv' /\ BodiesGrow' /\ Grows
    BY <1>2, SafetyNext, NextKeepsHeard, NextGrowsBodies, RepositoryGrows
    DEF SafetyInv, ProjectionIsExclusive, OpenExcludesCalls
  <2>2. UNCHANGED served \/ \E w \in Projectors : CommitProjection(w)
    BY <1>2, <2>1, StepKinds, OtherStepsSettleNothing DEF Installs, Marks, HoldsBack
  <2>3. ASSUME NEW u \in Uris
        PROVE  /\ \E m \in Nat : m <= src'[u].rev /\ served'[u] = BodyAt(u, m)'
               /\ served'[u] # 0 => served[u] <= served'[u]
    <3>1. PICK m \in Nat : m <= src[u].rev /\ served[u] = BodyAt(u, m)
      BY <1>2 DEF ShownWas
    <3>2. /\ src[u].rev \in Nat /\ src'[u].rev \in Nat /\ src[u].rev <= src'[u].rev
          /\ src[u].rev <= Latest /\ Latest \in Nat /\ src[u].body = BodyAt(u, src[u].rev)
      <4>1. src \in [Uris -> Rows] /\ src' \in [Uris -> Rows]
        BY <2>1 DEF SafetyInv, TypeInv, StoreTypeOK
      <4> QED
        BY <1>2, <2>1, <4>1, RevisionsGrow DEF TruthInv, FaithfulTo, Grows, Rows
    <3>3. \A n \in 0..(src[u].rev) : BodyAt(u, n)' = BodyAt(u, n)
      <4>1. ASSUME NEW n \in 0..(src[u].rev) PROVE BodyAt(u, n)' = BodyAt(u, n)
        <5>1. n \in Nat /\ n <= Latest
          BY <3>2
        <5> QED
          BY <2>1, <5>1, BodiesStay
      <4> QED
        BY <4>1
    <3>4. served'[u] \in {served[u], 0, src[u].body}
      BY <2>1, <2>2, CommitServesOwn
    <3>5. CASE served'[u] = served[u]
      <4>1. BodyAt(u, m) \in Nat
        BY <1>2, <3>1, <3>2 DEF BodiesGrow
      <4> QED
        BY <3>1, <3>2, <3>3, <3>5, <4>1
    <3>6. CASE served'[u] = 0
      <4>1. BodyAt(u, 0)' = 0
        BY DEF BodyAt
      <4> QED
        BY <3>2, <3>6, <4>1
    <3>7. CASE served'[u] = src[u].body
      <4>1. PICK n \in Nat : n = src[u].rev
        BY <3>2
      <4>2. BodyAt(u, n) # 0 => BodyAt(u, m) <= BodyAt(u, n)
        BY <1>2, <3>1, <3>2, <4>1 DEF BodiesGrow
      <4> QED
        BY <3>1, <3>2, <3>3, <3>7, <4>1, <4>2
    <3> QED
      BY <3>4, <3>5, <3>6, <3>7
  <2> QED
    BY <2>1, <2>3 DEF ShownWas
<1> QED
  BY <1>1, <1>2, PTL DEF Spec
=============================================================================
