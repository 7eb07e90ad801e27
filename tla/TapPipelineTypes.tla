------------------------- MODULE TapPipelineTypes -------------------------
(***************************************************************************)
(* The types of the pipeline, proved for every number of records, workers, *)
(* revisions and faults.  TypeOK is not inductive by itself, TypeInv is.   *)
(* One lemma per operation says that it keeps the tables and the actor it  *)
(* writes typed, and one per actor that it preserves TypeInv.              *)
(***************************************************************************)
EXTENDS TapPipeline, SequenceTheorems, TLAPS

\* TypeOK is not inductive by itself: an actor that works must have what it
\* works on, and what snapshots and resyncs refer to must be in the repository.
CallsAreReady ==
    IngTypeOK /\ \A i \in Ingestors : ing[i].phase # "idle" => ing[i].ev \in Events
ClaimsAreReady ==
    ProjTypeOK /\ \A w \in Projectors : proj[w].phase # "idle" => proj[w].key \in JobKeys
RepairsAreReady ==
    /\ RepTypeOK
    /\ \A w \in RWorkers :
          /\ rep[w].snap <= Latest
          /\ rep[w].phase = "apply" => rep[w].view \in [Uris -> Rows]
          /\ rep[w].target # Owner => rep[w].phase = "apply"
DebtsExist == \A d \in resync : d[2] <= Latest

TypeInv ==
    /\ RepoTypeOK /\ DebtsExist
    /\ StoreTypeOK
    /\ CallsAreReady /\ ClaimsAreReady /\ RepairsAreReady

USE RepoBounds

----------------------------------------------------------------------------
\* Every revision of the repository up to the head is a commit.
LEMMA CommitsAreTyped ==
    ASSUME RepoTypeOK, NEW n \in 1..Latest
    PROVE  repo[n] \in Commits
  BY ElementOfSeq DEF RepoTypeOK, Latest

\* The body of a record at a revision is 0 or the number of a revision.
LEMMA BodyAtType ==
    ASSUME RepoTypeOK, NEW u \in Uris, NEW n \in Nat, n <= Latest
    PROVE  BodyAt(u, n) \in 0..MaxRev
<1>1. CASE n = 0
  BY <1>1 DEF BodyAt
<1>2. CASE n # 0
  <2>1. n \in 1..Latest
    BY <1>2 DEF RepoTypeOK, Latest
  <2> QED
    BY <1>2, <2>1, CommitsAreTyped DEF BodyAt, Commits
<1> QED
  BY <1>1, <1>2

\* A live commit that Tap delivers is an event.
LEMMA LiveEventType ==
    ASSUME RepoTypeOK, NEW r \in 1..Latest
    PROVE  LiveEvent(r) \in Events
<1>1. repo[r].uri \in Uris
  BY CommitsAreTyped DEF Commits
<1>2. BodyAt(repo[r].uri, r) \in 0..MaxRev
  BY <1>1, BodyAtType DEF RepoTypeOK, Latest
<1>3. [via |-> "live", rev |-> r] \in EventIds /\ r \in 0..MaxRev
  BY DEF EventIds, RepoTypeOK, Latest
<1> QED
  BY <1>1, <1>2, <1>3 DEF LiveEvent, Events, Actions

\* A record found by a resync or by a repair is reported as an event.
LEMMA FoundEventType ==
    ASSUME RepoTypeOK, NEW u \in Uris, NEW n \in 0..MaxRev, n <= Latest,
           NEW via \in {"resync", "repair"}
    PROVE  FoundEvent(via, u, n) \in Events
<1>1. BodyAt(u, n) \in 0..MaxRev
  BY BodyAtType
<1> QED
  BY <1>1 DEF FoundEvent, Events, EventIds, Actions

\* Tap delivers nothing but events.
LEMMA DeliverableType ==
    ASSUME RepoTypeOK, DebtsExist
    PROVE  Deliverable \subseteq Events
<1>1. \A d \in resync : FoundEvent("resync", d[1], d[2]) \in Events
  BY FoundEventType DEF RepoTypeOK, DebtsExist
<1>2. cursor < Latest => LiveEvent(cursor + 1) \in Events
  BY LiveEventType DEF RepoTypeOK, Latest
<1> QED
  BY <1>1, <1>2 DEF Deliverable

\* A write or delete by the owner adds one commit.
LEMMA CommitType ==
    ASSUME RepoTypeOK, NEW u \in Uris, NEW writes \in BOOLEAN, Commit(u, writes)
    PROVE  RepoTypeOK' /\ Latest' = Latest + 1
<1>1. \A v \in Uris : BodyAt(v, Latest) \in 0..MaxRev
  BY BodyAtType DEF RepoTypeOK, Latest
<1>2. Latest + 1 \in 0..MaxRev
  BY DEF RepoTypeOK, Commit, Latest
<1> DEFINE body == IF writes THEN Latest + 1 ELSE 0
           records == [v \in Uris |-> IF v = u THEN body ELSE BodyAt(v, Latest)]
<1>3. [uri |-> u, records |-> records] \in Commits
  BY <1>1, <1>2 DEF Commits
<1>4. repo' = Append(repo, [uri |-> u, records |-> records])
  BY DEF Commit
<1> HIDE DEF records
<1>5. repo' \in Seq(Commits) /\ Latest' = Latest + 1
  BY <1>3, <1>4 DEF RepoTypeOK, Latest
<1> QED
  BY <1>2, <1>5 DEF RepoTypeOK, Commit

\* A resync owes only records that exist at the head.
LEMMA ResyncType ==
    ASSUME RepoTypeOK, Resync
    PROVE  RepoTypeOK' /\ Latest' = Latest /\ DebtsExist'
  BY DEF RepoTypeOK, Resync, Latest, DebtsExist

\* An ACK moves the cursor within the repository and only pays debts.
LEMMA TakeAckType ==
    ASSUME RepoTypeOK, NEW ev \in Events, TakeAck(ev)
    PROVE  RepoTypeOK' /\ Latest' = Latest /\ resync' \subseteq resync
<1>1. cursor' \in 0..MaxRev
  BY DEF RepoTypeOK, TakeAck, Events, EventIds
<1>2. acked' \in [Uris -> 0..MaxRev]
  BY DEF RepoTypeOK, TakeAck, Events
<1> QED
  BY <1>1, <1>2 DEF RepoTypeOK, TakeAck, Latest

----------------------------------------------------------------------------
(* Rows and jobs.                                                          *)

\* Installing a row and its jobs (installSourceProjectionTx) keeps both tables typed.
LEMMA InstallSourceType ==
    ASSUME StoreTypeOK, NEW u \in Uris, NEW row \in Rows, NEW plan,
           plan.st \in JobStates, plan.dep \in Dependencies,
           InstallSource(u, row, plan)
    PROVE  src' \in [Uris -> Rows] /\ job' \in [JobKeys -> Jobs]
<1>1. JobRow(plan.st, plan.dep, row.id) \in Jobs
  BY DEF JobRow, Jobs, Rows
<1> QED
  BY <1>1 DEF InstallSource, StoreTypeOK

\* A newer version starts with a job that is pending, blocked or denied, never
\* completed (ingestRecordTx, ingestProfileTx).
LEMMA PlansAreTyped ==
    ASSUME NEW ev, NEW member
    PROVE  LET plan == IngestPlan(ev, member) IN
           /\ plan.st \in {"pending", "blocked", "permanent_denied"}
           /\ plan.dep \in Dependencies
           /\ plan.disp \in {"eligible", "pending", "blocked_departed", "denied_terminal"}
  BY DEF IngestPlan, RecordPlan, Denied, Departed, Eligible, Plan, Dependencies

\* The row written for an event is a row.
LEMMA SourceRowType ==
    ASSUME NEW ev \in Events, NEW plan, NEW gen \in Nat,
           plan.disp \in {"eligible", "pending", "blocked_departed", "denied_terminal"}
    PROVE  SourceRow(ev, plan, gen) \in Rows
  BY DEF SourceRow, Events, Rows

\* No job status is answered as retryable (readCurrentJobOutcome).
LEMMA OutcomeType ==
    ASSUME NEW st
    PROVE  OutcomeOf(st) \in {"applied", "blocked", "permanent_invalid"}
  BY DEF OutcomeOf

\* Denying a profile keeps sources and jobs typed (ingestTerminalDeniedProfile).
LEMMA DenyProfileType ==
    ASSUME StoreTypeOK, NEW u \in Uris, DenyProfile(u)
    PROVE  src' \in [Uris -> Rows] /\ job' \in [JobKeys -> Jobs]
<1> DEFINE row == [src[u] EXCEPT !.disp = "denied_terminal", !.gen = life.gen]
<1>3. row \in Rows
  BY ZenonT(60) DEF StoreTypeOK, Rows, Lives
<1>4. src' = [src EXCEPT ![u] = row]
  BY DEF StoreTypeOK, DenyProfile
<1>1. src' \in [Uris -> Rows]
  BY <1>3, <1>4 DEF StoreTypeOK
<1>2. \A k \in JobKeys : JobRow("permanent_denied", NoDep, job[k].id) \in Jobs
  BY DEF StoreTypeOK, JobRow, Jobs, JobStates, Dependencies
<1> QED
  BY <1>1, <1>2 DEF DenyProfile, StoreTypeOK

\* A repository job that is asked for again is a repository job.
LEMMA WithRequestType ==
    ASSUME StoreTypeOK, NEW kind \in RepositoryKinds
    PROVE  WithRequest(kind) \in [RepositoryKinds -> RepositoryJobs]
  BY DEF StoreTypeOK, WithRequest, RepositoryJob, RepositoryJobs

\* An answer ends the call with its event kept.
LEMMA AnswerType ==
    ASSUME CallsAreReady, NEW i \in Ingestors, ing[i].phase # "idle",
           NEW out \in {"applied", "blocked", "permanent_invalid", "retryable", "none"},
           Answer(i, out)
    PROVE  CallsAreReady'
<1>1. ing[i].ev \in Events
  BY DEF CallsAreReady
<1>2. NoLife \in Lives
  BY DEF NoLife, Lives
<1> QED
  BY <1>1, <1>2 DEF CallsAreReady, IngTypeOK, Calls, Answer, NoIng, IngPhases

\* A call starts with an event and leaves the owner with a lifecycle row.
LEMMA BeginIngestType ==
    ASSUME StoreTypeOK, CallsAreReady, NEW i \in Ingestors, NEW ev \in Events,
           BeginIngest(i, ev)
    PROVE  CallsAreReady' /\ life' \in Lives
<1>1. EnsuredLife \in Lives
  BY DEF EnsuredLife, StoreTypeOK, Lives, States
<1> QED
  BY <1>1 DEF BeginIngest, CallsAreReady, IngTypeOK, Calls, NoIng, IngPhases

----------------------------------------------------------------------------
(* Ingestion.                                                              *)

\* A call that runs is about a record that is followed.
LEMMA DecisionsAreTyped ==
    ASSUME TypeInv, NEW i \in Ingestors, ing[i].phase # "idle"
    PROVE  ing[i].ev \in Events /\ ing[i].ev.uri \in Uris
  BY DEF TypeInv, CallsAreReady, Events

\* Recognising a stale or duplicate version keeps the tables typed.
LEMMA RecogniseType ==
    ASSUME TypeInv, NEW i \in Ingestors, Recognise(i), UNCHANGED faults
    PROVE  StoreTypeOK' /\ CallsAreReady'
<1> DEFINE ev == ing[i].ev
<1>1. ing[i].phase # "idle"
  BY DEF Recognise, InShared
<1>2. PICK out \in {"applied", "blocked", "permanent_invalid"} : Answer(i, out)
  BY OutcomeType DEF Recognise, DuplicateOutcome
<1>3. CallsAreReady'
  BY <1>1, <1>2, AnswerType DEF TypeInv
<1>4. src' \in [Uris -> Rows] /\ job' \in [JobKeys -> Jobs]
  BY <1>1, DecisionsAreTyped, DenyProfileType DEF Recognise, TypeInv, StoreTypeOK
<1> QED
  BY <1>3, <1>4 DEF Recognise, TypeInv, StoreTypeOK

\* Recognising a conflict keeps the tables typed, recorded or not.
LEMMA RecogniseConflictType ==
    ASSUME TypeInv, NEW i \in Ingestors, RecogniseConflict(i), UNCHANGED faults
    PROVE  StoreTypeOK' /\ CallsAreReady'
<1> DEFINE u == ing[i].ev.uri
<1>1. ing[i].phase # "idle"
  BY DEF RecogniseConflict, InShared
<1>2. PICK out \in {"applied", "blocked", "retryable"} : Answer(i, out)
  BY DEF RecogniseConflict
<1>3. CallsAreReady'
  BY <1>1, <1>2, AnswerType DEF TypeInv
<1>4. u \in Uris /\ src[u] \in Rows /\ life.gen \in Nat
  BY <1>1, DecisionsAreTyped DEF TypeInv, StoreTypeOK, Lives
<1>5. \A gen \in Nat, disp \in {"pending", "denied_terminal"} :
         [src[u] EXCEPT !.ord = "uncertain", !.disp = disp, !.gen = gen] \in Rows
  BY <1>4 DEF Rows
<1>6. /\ src' \in [Uris -> Rows]
      /\ job' \in [JobKeys -> Jobs]
      /\ rjob' \in [RepositoryKinds -> RepositoryJobs]
  <2>1. \A k \in JobKeys : /\ JobRow("permanent_denied", NoDep, job[k].id) \in Jobs
                           /\ JobRow("blocked", OnRepository, job[k].id) \in Jobs
    BY DEF TypeInv, StoreTypeOK, JobRow, Jobs, JobStates, Dependencies
  <2>2. WithRequest("pds_reconcile") \in [RepositoryKinds -> RepositoryJobs]
    BY WithRequestType DEF TypeInv, RepositoryKinds
  <2>3. CASE ~CanMarkConflict(u)
    BY <2>3 DEF RecogniseConflict, TypeInv, StoreTypeOK
  <2>4. CASE CanMarkConflict(u) /\ IsDenied(ing[i].ev)
    <3>1. src' = [src EXCEPT ![u] = [src[u] EXCEPT !.ord = "uncertain",
                                       !.disp = "denied_terminal", !.gen = life.gen]]
      BY <2>4, <1>4 DEF RecogniseConflict, TypeInv, StoreTypeOK
    <3>2. src' \in [Uris -> Rows]
      BY <3>1, <1>4, <1>5 DEF TypeInv, StoreTypeOK
    <3>3. rjob' = WithRequest("pds_reconcile")
      BY <2>4 DEF RecogniseConflict
    <3>4. job' = [k \in JobKeys |->
                    IF k[1] = u /\ JobExists(k)
                    THEN JobRow("permanent_denied", NoDep, job[k].id) ELSE job[k]]
      BY <2>4 DEF RecogniseConflict
    <3>5. job' \in [JobKeys -> Jobs]
      BY <2>1, <3>4 DEF TypeInv, StoreTypeOK
    <3> QED
      BY <2>2, <3>2, <3>3, <3>5
  <2>5. CASE CanMarkConflict(u) /\ ~IsDenied(ing[i].ev)
    <3>1. src' = [src EXCEPT ![u] = [src[u] EXCEPT !.ord = "uncertain", !.disp = "pending"]]
      BY <2>5, <1>4 DEF RecogniseConflict, MarkConflict, TypeInv, StoreTypeOK
    <3>2. [src[u] EXCEPT !.ord = "uncertain", !.disp = "pending"] \in Rows
      BY <1>4 DEF Rows
    <3>3. src' \in [Uris -> Rows]
      BY <3>1, <3>2, <1>4 DEF TypeInv, StoreTypeOK
    <3>4. rjob' = WithRequest("pds_reconcile")
      BY <2>5 DEF RecogniseConflict, MarkConflict
    <3>5. job' = [k \in JobKeys |->
                    IF k[1] = u /\ JobExists(k)
                    THEN JobRow("blocked", OnRepository, job[k].id) ELSE job[k]]
      BY <2>5 DEF RecogniseConflict, MarkConflict
    <3>6. job' \in [JobKeys -> Jobs]
      BY <2>1, <3>5 DEF TypeInv, StoreTypeOK
    <3> QED
      BY <2>2, <3>3, <3>4, <3>6
  <2> QED
    BY <2>3, <2>4, <2>5
<1> QED
  BY <1>3, <1>6 DEF RecogniseConflict, TypeInv, StoreTypeOK

\* Installing a newer version, in two steps, keeps the tables typed.
LEMMA InstallType ==
    ASSUME TypeInv, NEW i \in Ingestors,
           RejectWinner(i) \/ OpenInstall(i) \/ CommitInstall(i), UNCHANGED faults
    PROVE  StoreTypeOK' /\ CallsAreReady'
<1> DEFINE ev == ing[i].ev
           plan == IngestPlan(ev, ing[i].member)
<1>1. ing[i].phase # "idle" /\ ev \in Events /\ ev.uri \in Uris
  BY DecisionsAreTyped DEF RejectWinner, OpenInstall, CommitInstall, InShared
<1>2. CASE RejectWinner(i)
  BY <1>1, <1>2, AnswerType DEF RejectWinner, TypeInv, StoreTypeOK, storeVars
<1>3. CASE OpenInstall(i)
  <2>1. Exists(ev.uri) \in BOOLEAN /\ Member \in BOOLEAN
    BY DEF Exists, Member
  <2>2. [ing[i] EXCEPT !.phase = "open", !.locked = Exists(ev.uri), !.member = Member]
           \in Calls
    BY <2>1 DEF TypeInv, CallsAreReady, IngTypeOK, Calls, IngPhases
  <2>3. ing' = [ing EXCEPT ![i] = [ing[i] EXCEPT !.phase = "open",
                  !.locked = Exists(ev.uri), !.member = Member]]
    BY <1>3 DEF OpenInstall, TypeInv, CallsAreReady, IngTypeOK
  <2>4. CallsAreReady'
    BY <1>1, <2>2, <2>3 DEF TypeInv, CallsAreReady, IngTypeOK, Calls
  <2> QED
    BY <2>4, <1>3 DEF OpenInstall, TypeInv, StoreTypeOK, storeVars
<1>4. CASE CommitInstall(i)
  <2>1. PICK out \in {"applied", "blocked", "permanent_invalid"} : Answer(i, out)
    BY <1>4, OutcomeType DEF CommitInstall
  <2>2. CallsAreReady'
    BY <2>1, <1>1, AnswerType DEF TypeInv
  <2>3. /\ plan.st \in JobStates /\ plan.dep \in Dependencies
        /\ SourceRow(ev, plan, life.gen) \in Rows
    BY <1>1, PlansAreTyped, SourceRowType DEF TypeInv, StoreTypeOK, Lives, JobStates
  <2>4. src' \in [Uris -> Rows] /\ job' \in [JobKeys -> Jobs]
    <3>1. InstallSource(ev.uri, SourceRow(ev, plan, life.gen), plan)
      BY <1>4 DEF CommitInstall
    <3> QED
      BY <1>1, <2>3, <3>1, InstallSourceType DEF TypeInv
  <2>5. rjob' \in [RepositoryKinds -> RepositoryJobs]
    BY <1>4, WithRequestType DEF CommitInstall, TypeInv, StoreTypeOK, RepositoryKinds
  <2> QED
    BY <2>2, <2>4, <2>5, <1>4 DEF CommitInstall, TypeInv, StoreTypeOK
<1> QED
  BY <1>2, <1>3, <1>4

\* A profile event that moves the lifecycle keeps the tables typed.
LEMMA TransitionProfileType ==
    ASSUME TypeInv, NEW i \in Ingestors, TransitionProfile(i), UNCHANGED faults
    PROVE  StoreTypeOK' /\ CallsAreReady'
<1> DEFINE ev == ing[i].ev
           after == [state |-> ProfileTransition(life.state, ev.act), gen |-> life.gen + 1]
<1>1. ing[i].phase # "idle" /\ ev \in Events /\ ev.uri \in Uris
  BY DecisionsAreTyped DEF TransitionProfile, WantsTransition
<1>2. CASE life.gen # ing[i].seen.gen
  BY <1>1, <1>2, AnswerType DEF TransitionProfile, TypeInv, StoreTypeOK, storeVars
<1>3. CASE life.gen = ing[i].seen.gen /\ Decision(i) # "newer"
  <2>1. CallsAreReady'
    BY <1>1, <1>3 DEF TransitionProfile, TypeInv, CallsAreReady, IngTypeOK, Calls, IngPhases
  <2> QED
    BY <2>1, <1>3 DEF TransitionProfile, TypeInv, StoreTypeOK, storeVars
<1>4. CASE life.gen = ing[i].seen.gen /\ Decision(i) = "newer"
  <2>1. after \in Lives
    BY DEF TypeInv, StoreTypeOK, Lives, States, ProfileTransition
  <2>2. CallsAreReady'
    BY <1>1, <1>4, AnswerType DEF TransitionProfile, TypeInv
  <2>3. SourceRow(ev, Eligible, after.gen) \in Rows
    BY <1>1, <2>1, SourceRowType DEF Lives, Eligible, Plan
  <2>4. src' \in [Uris -> Rows] /\ job' \in [JobKeys -> Jobs]
    <3>1. InstallSource(ev.uri, SourceRow(ev, Eligible, after.gen), Eligible)
      BY <1>4 DEF TransitionProfile
    <3>2. Eligible.st \in JobStates /\ Eligible.dep \in Dependencies
      BY DEF Eligible, Plan, JobStates, Dependencies
    <3> QED
      BY <1>1, <2>3, <3>1, <3>2, InstallSourceType DEF TypeInv
  <2>5. rjob' \in [RepositoryKinds -> RepositoryJobs]
    BY <1>4, WithRequestType DEF TransitionProfile, TypeInv, StoreTypeOK, RepositoryKinds
  <2>6. life' \in Lives /\ UNCHANGED <<served, alerts, quarantined>>
    BY <2>1, <1>4 DEF TransitionProfile
  <2> QED
    BY <2>2, <2>4, <2>5, <2>6 DEF TypeInv, StoreTypeOK
<1> QED
  BY <1>2, <1>3, <1>4

\* Each step of a call of IngestRecord preserves the type invariant.
LEMMA IngestType ==
    ASSUME TypeInv, NEW i \in Ingestors, Ingest(i), UNCHANGED rep
    PROVE  TypeInv'
<1>1. StoreTypeOK' /\ CallsAreReady'
  BY RecogniseType, RecogniseConflictType, InstallType, TransitionProfileType DEF Ingest
<1>2. UNCHANGED <<repoVars, proj, rep>>
  BY DEF Ingest, Recognise, RecogniseConflict, RejectWinner, OpenInstall, CommitInstall,
         TransitionProfile
<1> QED
  BY <1>1, <1>2 DEF TypeInv, RepoTypeOK, DebtsExist, ClaimsAreReady, ProjTypeOK,
     RepairsAreReady, RepTypeOK, repoVars, Latest

\* Each step of the Tap consumer preserves the type invariant.
LEMMA ConsumeType ==
    ASSUME TypeInv, Consume
    PROVE  TypeInv'
<1>1. CASE \E ev \in Deliverable : Deliver(ev)
  <2>1. PICK ev \in Events : Deliver(ev)
    BY <1>1, DeliverableType DEF TypeInv
  <2>2. CallsAreReady' /\ life' \in Lives
    BY <2>1, BeginIngestType DEF Deliver, TypeInv, Ingestors
  <2>3. StoreTypeOK'
    BY <2>1, <2>2 DEF Deliver, TypeInv, StoreTypeOK
  <2> QED
    BY <2>1, <2>2, <2>3 DEF Consume, Deliver, TypeInv, RepoTypeOK, DebtsExist, ClaimsAreReady,
       ProjTypeOK, RepairsAreReady, RepTypeOK, repoVars, Latest
<1>2. CASE Ingest(Consumer)
  BY <1>2, IngestType DEF Consume, Ingestors
<1>3. CASE Reply
  <2>1. Consumer \in Ingestors /\ ing[Consumer].phase # "idle"
    BY <1>3 DEF Reply, Ingestors
  <2>2. CallsAreReady'
    BY <1>3 DEF Reply, TypeInv, CallsAreReady, IngTypeOK, Calls, IngPhases, NoIng, NoLife, Lives
  <2>3. RepoTypeOK' /\ Latest' = Latest /\ DebtsExist'
    BY <1>3, <2>1, DecisionsAreTyped, TakeAckType
    DEF Reply, TypeInv, DebtsExist, RepoTypeOK, Latest, repoVars
  <2> QED
    BY <1>3, <2>2, <2>3 DEF Consume, Reply, TypeInv, StoreTypeOK, storeVars, ClaimsAreReady,
       ProjTypeOK, RepairsAreReady, RepTypeOK
<1> QED
  BY <1>1, <1>2, <1>3 DEF Consume

----------------------------------------------------------------------------
(* Projection.                                                             *)

\* Whoever takes a job has a claim on a job.
LEMMA TakeType ==
    ASSUME StoreTypeOK, ClaimsAreReady, NEW w \in Projectors, NEW k \in JobKeys, Take(w, k)
    PROVE  ClaimsAreReady' /\ job' \in [JobKeys -> Jobs]
<1>1. Claimed(job[k], w, job[k].id) \in Jobs
  BY DEF StoreTypeOK, Claimed, Jobs, JobStates, Dependencies
<1>2. [NoProj EXCEPT !.phase = "claimed", !.key = k, !.id = job[k].id] \in Claims
  BY DEF StoreTypeOK, Jobs, NoProj, Claims, Results, Refused, Result, Dependencies, Effects
<1> QED
  BY <1>1, <1>2 DEF Take, StoreTypeOK, ClaimsAreReady, ProjTypeOK, NoProj

\* What a projection decides is a result (projectionEligibility and the projectors).
LEMMA DecideType ==
    ASSUME TypeInv, NEW k \in JobKeys
    PROVE  Decide(k) \in Results
<1>1. k[1] \in Uris /\ Subject[k[1]] \in Uris
  BY StoreConstants DEF JobKeys, Posts
<1>2. /\ \A effect \in Effects : Applied(effect) \in Results
      /\ \A dep \in Dependencies : Blocked(dep) \in Results
      /\ Refused \in Results
      /\ \A effect \in Effects : RefusedMalformed(effect) \in Results
  BY DEF Applied, Blocked, Refused, RefusedMalformed, Result, Results, Effects, Dependencies
<1>3. \A u \in Uris : \A act : NotificationProjector(u, act) \in Results
  BY <1>2 DEF NotificationProjector, Effects, Dependencies
<1>4. \A act : ServingProjector(k[1], act) \in Results
  <2>1. [Blocked(OnSubject(Subject[k[1]])) EXCEPT !.effect = "remove"] \in Results
    BY <1>1, <1>2, ZenonT(60) DEF Blocked, Result, Results, Effects, Dependencies
  <2> QED
    BY <1>1, <1>2, <2>1 DEF ServingProjector, Effects, Dependencies
<1>5. Eligibility(src[k[1]]) \in Results
  <2>1. [Blocked(OnRepository) EXCEPT !.repair = TRUE] \in Results
    BY DEF Blocked, Result, Results, Effects, Dependencies
  <2> QED
    BY <1>2, <2>1 DEF Eligibility, Effects, Dependencies
<1>6. Dispatch(k) \in Results
  <2> DEFINE bad == IsMalformed(src[k[1]].act, src[k[1]].body)
             act == IF bad THEN "delete" ELSE src[k[1]].act
             res == IF k[2] = "serving" THEN ServingProjector(k[1], act)
                    ELSE NotificationProjector(k[1], act)
  <2>1. res \in Results /\ res.effect \in Effects
    BY <1>1, <1>3, <1>4 DEF Results
  <2>2. Dispatch(k) = IF bad /\ Profile(k[1]) THEN RefusedMalformed("none")
                      ELSE IF src[k[1]].gen # life.gen THEN Blocked(OnRepository)
                      ELSE IF bad THEN RefusedMalformed(res.effect) ELSE res
    BY DEF Dispatch
  <2> HIDE DEF bad, res
  <2> QED
    BY <1>2, <2>1, <2>2 DEF Effects, Dependencies
<1> QED
  BY <1>5, <1>6 DEF Decide

\* A claim of a projection worker keeps jobs and claims typed.
LEMMA ClaimType ==
    ASSUME TypeInv, NEW w \in Projectors, NEW k \in JobKeys, Claim(w, k), UNCHANGED faults
    PROVE  StoreTypeOK' /\ ClaimsAreReady'
  BY TakeType DEF Claim, TypeInv, StoreTypeOK

\* Opening a projection keeps claims typed.
LEMMA OpenProjectionType ==
    ASSUME TypeInv, NEW w \in Projectors, OpenProjection(w), UNCHANGED faults
    PROVE  StoreTypeOK' /\ ClaimsAreReady'
<1>1. proj[w].key \in JobKeys
  BY DEF OpenProjection, TypeInv, ClaimsAreReady
<1>2. Decide(proj[w].key) \in Results
  BY <1>1, DecideType
<1>3. ClaimsAreReady'
  BY <1>1, <1>2, ZenonT(60) DEF OpenProjection, TypeInv, ClaimsAreReady, ProjTypeOK, Claims
<1> QED
  BY <1>3 DEF OpenProjection, TypeInv, StoreTypeOK, storeVars

\* Dropping a claim keeps claims typed.
LEMMA NoProjType ==
    ASSUME ClaimsAreReady, NEW w \in Projectors, proj' = [proj EXCEPT ![w] = NoProj]
    PROVE  ClaimsAreReady'
<1>1. NoProj \in Claims
  BY DEF NoProj, Claims, Results, Refused, Result, Dependencies, Effects
<1> QED
  BY <1>1 DEF ClaimsAreReady, ProjTypeOK, NoProj

\* Waking the jobs that wait for a dependency keeps jobs typed.
LEMMA WakeType ==
    ASSUME NEW jobs \in [JobKeys -> Jobs], NEW dep
    PROVE  Wake(jobs, dep) \in [JobKeys -> Jobs]
  BY DEF Wake, JobRow, Jobs, JobStates, Dependencies

\* The end of a projection keeps every table it writes typed.
LEMMA CommitProjectionType ==
    ASSUME TypeInv, NEW w \in Projectors, CommitProjection(w), UNCHANGED faults
    PROVE  StoreTypeOK' /\ ClaimsAreReady'
<1> DEFINE k == proj[w].key
           u == k[1]
           res == proj[w].res
<1>1. k \in JobKeys /\ u \in Uris /\ res \in Results
  BY DEF CommitProjection, TypeInv, ClaimsAreReady, ProjTypeOK, Claims, JobKeys, Posts
<1>2. served' \in [Uris -> 0..MaxRev]
  BY <1>1 DEF CommitProjection, TypeInv, StoreTypeOK, Served, Rows
<1>3. alerts' \in [Uris -> BOOLEAN]
  BY <1>1 DEF CommitProjection, TypeInv, StoreTypeOK, Alerted
<1>4. job' \in [JobKeys -> Jobs]
  <2>1. JobRow(FinalState(res.kind), res.dep, job[k].id) \in Jobs
    BY <1>1 DEF TypeInv, StoreTypeOK, JobRow, FinalState, Jobs, JobStates, Results
  <2>2. JobRow("pending", NoDep, src[u].id) \in Jobs
    BY <1>1 DEF TypeInv, StoreTypeOK, JobRow, Jobs, JobStates, Dependencies, Rows
  <2>3. Settled(k, res) \in [JobKeys -> Jobs]
    BY <1>1, <2>1, <2>2 DEF TypeInv, StoreTypeOK, Settled
  <2>4. Woken(k, Settled(k, res)) \in [JobKeys -> Jobs]
    BY <2>3, WakeType DEF Woken
  <2> QED
    BY <2>3, <2>4 DEF CommitProjection
<1>5. rjob' \in [RepositoryKinds -> RepositoryJobs]
  BY WithRequestType DEF CommitProjection, TypeInv, StoreTypeOK, RepositoryKinds
<1>6. quarantined' \subseteq [uri : Uris, id : EventIds \cup {NoId}]
  BY <1>1 DEF CommitProjection, TypeInv, StoreTypeOK, Rows
<1>7. ClaimsAreReady'
  BY NoProjType DEF CommitProjection, TypeInv
<1> QED
  BY <1>2, <1>3, <1>4, <1>5, <1>6, <1>7 DEF CommitProjection, TypeInv, StoreTypeOK

\* Each step of a projector preserves the type invariant.
LEMMA ProjectType ==
    ASSUME TypeInv, NEW w \in Projectors, Project(w), UNCHANGED rep
    PROVE  TypeInv'
<1>1. StoreTypeOK' /\ ClaimsAreReady'
  BY ClaimType, OpenProjectionType, CommitProjectionType, NoProjType
  DEF Project, LoseLease, TypeInv, StoreTypeOK, storeVars
<1>2. UNCHANGED <<repoVars, ing, rep>>
  BY DEF Project, Claim, OpenProjection, LoseLease, CommitProjection
<1> QED
  BY <1>1, <1>2 DEF TypeInv, RepoTypeOK, DebtsExist, CallsAreReady, IngTypeOK,
     RepairsAreReady, RepTypeOK, repoVars, Latest

----------------------------------------------------------------------------
(* Repair.                                                                 *)

\* A repository worker that is idle or failed is in a state of its type.
LEMMA NoRepType ==
    /\ NoRep \in Repairs
    /\ \A kind \in RepositoryKinds \cup {"none"} :
          [NoRep EXCEPT !.phase = "failed", !.kind = kind] \in Repairs
<1>1. <<>> \in Views /\ NoLife \in Lives
  BY DEF Views, NoLife, Lives
<1>2. NoRep \in Repairs
  BY <1>1 DEF NoRep, Repairs, RepPhases
<1> QED
  BY <1>2 DEF Repairs, RepPhases

\* One repair changes and is in order after the change.
LEMMA RepairChangeType ==
    ASSUME RepairsAreReady, Latest' = Latest, NEW w \in RWorkers, NEW r \in Repairs,
           r.snap <= Latest,
           r.phase = "apply" => r.view \in [Uris -> Rows],
           r.target # Owner => r.phase = "apply",
           rep' = [rep EXCEPT ![w] = r]
    PROVE  RepairsAreReady'
  BY DEF RepairsAreReady, RepTypeOK

\* What a repository worker holds, read off the type invariant.
LEMMA RepairFacts ==
    ASSUME TypeInv, NEW w \in RWorkers
    PROVE  /\ rep \in [RWorkers -> Repairs] /\ rep[w] \in Repairs
           /\ rep[w].snap \in 0..MaxRev /\ rep[w].snap <= Latest
           /\ rep[w].phase = "apply" => rep[w].view \in [Uris -> Rows]
           /\ rep[w].target # Owner => rep[w].phase = "apply" /\ rep[w].target \in Uris
           /\ rep[w].kind \in RepositoryKinds \cup {"none"}
           /\ Latest \in 0..MaxRev
  BY DEF TypeInv, RepairsAreReady, RepTypeOK, Repairs, RepoTypeOK, Latest

\* A repair that fails or is dropped refers to nothing any more.
LEMMA FailType ==
    ASSUME TypeInv, NEW w \in RWorkers, Latest' = Latest,
           Fail(w) \/ rep' = [rep EXCEPT ![w] = NoRep]
    PROVE  RepairsAreReady'
<1> DEFINE r == [NoRep EXCEPT !.phase = "failed", !.kind = rep[w].kind]
<1>1. r \in Repairs /\ NoRep \in Repairs
  BY NoRepType, RepairFacts
<1>2. /\ r.snap <= Latest /\ r.phase # "apply" /\ r.target = Owner
      /\ NoRep.snap <= Latest /\ NoRep.phase # "apply" /\ NoRep.target = Owner
  BY RepairFacts DEF NoRep
<1>3. rep' = [rep EXCEPT ![w] = r] \/ rep' = [rep EXCEPT ![w] = NoRep]
  BY DEF Fail
<1> HIDE DEF r
<1> QED
  BY <1>1, <1>2, <1>3, RepairChangeType DEF TypeInv

\* The end of a repository job keeps jobs and repairs typed.
LEMMA FinishType ==
    ASSUME TypeInv, NEW w \in RWorkers, NEW st \in {"pending", "complete"}, Finish(w, st),
           UNCHANGED <<repoVars, faults>>
    PROVE  StoreTypeOK' /\ RepairsAreReady'
<1>1. rjob' \in [RepositoryKinds -> RepositoryJobs]
  BY DEF Finish, TypeInv, StoreTypeOK, RepositoryJob, RepositoryJobs
<1>2. RepairsAreReady'
  BY FailType DEF Finish, repoVars, Latest
<1> QED
  BY <1>1, <1>2 DEF Finish, TypeInv, StoreTypeOK

\* A claim of repository work keeps jobs and repairs typed.
LEMMA ClaimRepositoryType ==
    ASSUME TypeInv, NEW w \in RWorkers, NEW kind \in RepositoryKinds,
           ClaimRepository(w, kind), UNCHANGED <<repoVars, faults>>
    PROVE  StoreTypeOK' /\ RepairsAreReady'
<1>1. rjob' \in [RepositoryKinds -> RepositoryJobs]
  BY DEF ClaimRepository, TypeInv, StoreTypeOK, RepositoryJobs
<1> DEFINE r == [rep[w] EXCEPT !.phase = "claimed", !.kind = kind]
<1>2. /\ r \in Repairs /\ r.snap <= Latest /\ r.phase # "apply" /\ r.target = Owner
      /\ rep' = [rep EXCEPT ![w] = r]
  BY RepairFacts DEF ClaimRepository, Repairs, RepPhases
<1>3. RepairsAreReady'
  BY <1>2, RepairChangeType DEF TypeInv, Latest, repoVars
<1> QED
  BY <1>1, <1>3 DEF ClaimRepository, TypeInv, StoreTypeOK

\* Reading the repository and comparing it with the sources keeps repairs typed.
LEMMA SnapshotType ==
    ASSUME TypeInv, NEW w \in RWorkers, UNCHANGED <<repoVars, faults>>,
           FetchSnapshot(w) \/ DescribeRepair(w) \/ StartDrain(w)
    PROVE  RepairsAreReady'
<1>1. Latest' = Latest /\ src \in [Uris -> Rows] /\ src \in Views /\ <<>> \in Views
  BY DEF TypeInv, StoreTypeOK, Latest, repoVars, Views
<1>2. CASE FetchSnapshot(w)
  <2> DEFINE r == [rep[w] EXCEPT !.phase = "fetched", !.snap = Latest]
  <2>1. r \in Repairs
    BY RepairFacts DEF Repairs, RepPhases
  <2>2. rep' = [rep EXCEPT ![w] = r]
    BY <1>2, RepairFacts DEF FetchSnapshot
  <2>3. rep[w].target = Owner
    BY <1>2, RepairFacts DEF FetchSnapshot
  <2>4. r.snap <= Latest /\ r.phase # "apply" /\ r.target = Owner
    BY <2>3, RepairFacts DEF Repairs
  <2> HIDE DEF r
  <2> QED
    BY <1>1, <2>1, <2>2, <2>4, RepairChangeType DEF TypeInv
<1>3. CASE DescribeRepair(w)
  <2> DEFINE todo == {u \in Uris : NeedsRepair(u, rep[w].snap)}
             r == [rep[w] EXCEPT !.phase = "apply", !.view = src, !.todo = todo]
  <2>1. /\ r \in Repairs /\ r.snap <= Latest /\ r.view = src /\ r.phase = "apply"
        /\ rep' = [rep EXCEPT ![w] = r]
    BY <1>1, <1>3, RepairFacts DEF DescribeRepair, Repairs, RepPhases
  <2> QED
    BY <1>1, <2>1, RepairChangeType DEF TypeInv
<1>4. CASE StartDrain(w)
  <2> DEFINE todo == {u \in Uris : Exists(u) /\ src[u].rev <= rep[w].snap}
             r == [rep[w] EXCEPT !.phase = "drain", !.view = <<>>, !.todo = todo]
  <2>1. /\ r \in Repairs /\ r.snap <= Latest /\ r.phase # "apply" /\ r.target = Owner
        /\ rep' = [rep EXCEPT ![w] = r]
    BY <1>1, <1>4, RepairFacts, ZenonT(60) DEF StartDrain, Between, Repairs, RepPhases
  <2> QED
    BY <1>1, <2>1, RepairChangeType DEF TypeInv
<1> QED
  BY <1>2, <1>3, <1>4

\* A repair starts on one record while it applies the snapshot.
LEMMA StartReconcileType ==
    ASSUME TypeInv, NEW w \in RWorkers, NEW u \in Uris, StartReconcile(w, u),
           UNCHANGED <<repoVars, faults>>
    PROVE  RepairsAreReady'
<1> DEFINE r == [rep[w] EXCEPT !.target = u, !.seen = life]
<1>1. /\ r \in Repairs /\ r.snap <= Latest /\ r.phase = "apply"
      /\ r.view \in [Uris -> Rows] /\ rep' = [rep EXCEPT ![w] = r]
  BY RepairFacts, ZenonT(60) DEF StartReconcile, Between, Repairs, TypeInv, StoreTypeOK
<1> QED
  BY <1>1, RepairChangeType DEF TypeInv, Latest, repoVars

\* Striking a record off what a repair has to do keeps repairs typed.
LEMMA TodoType ==
    ASSUME TypeInv, NEW w \in RWorkers, NEW u, Latest' = Latest,
           \/ rep' = [rep EXCEPT ![w].todo = @ \ {u}]
           \/ rep' = [rep EXCEPT ![w].target = Owner, ![w].seen = NoLife, ![w].todo = @ \ {u}]
    PROVE  RepairsAreReady'
<1> DEFINE r == [rep[w] EXCEPT !.todo = rep[w].todo \ {u}]
           s == [r EXCEPT !.target = Owner]
           q == [s EXCEPT !.seen = NoLife]
<1>1. rep[w].todo \ {u} \in SUBSET Uris /\ NoLife \in Lives
  BY RepairFacts DEF Repairs, NoLife, Lives
<1>2. /\ r \in Repairs /\ r.snap = rep[w].snap /\ r.phase = rep[w].phase
      /\ r.view = rep[w].view /\ r.target = rep[w].target
  BY <1>1, RepairFacts DEF Repairs
<1>3. q = [rep[w] EXCEPT !.target = Owner, !.seen = NoLife, !.todo = rep[w].todo \ {u}]
  BY RepairFacts DEF Repairs
<1>4. rep' = [rep EXCEPT ![w] = r] \/ rep' = [rep EXCEPT ![w] = q]
  BY <1>3, RepairFacts DEF Repairs
<1> HIDE DEF r
<1>5. s \in Repairs /\ s.snap = r.snap /\ s.phase = r.phase /\ s.target = Owner
  BY <1>2 DEF Repairs
<1> HIDE DEF s
<1>6. q \in Repairs /\ q.snap = s.snap /\ q.phase = s.phase /\ q.target = Owner
  BY <1>1, <1>5 DEF Repairs
<1>7. s.view = r.view /\ q.view = s.view
  BY <1>2, <1>5 DEF Repairs, s
<1> HIDE DEF q
<1> QED
  BY <1>2, <1>4, <1>5, <1>6, <1>7, RepairFacts, RepairChangeType DEF TypeInv

\* The version a repair observed can be written as a row.
LEMMA ObservedType ==
    ASSUME TypeInv, NEW w \in RWorkers, rep[w].target # Owner
    PROVE  /\ Observed(w).uri \in Uris
           /\ \A gen \in Nat : \A plan :
                 plan.disp \in {"eligible", "blocked_departed", "denied_terminal"}
                 => SourceRow(Observed(w), plan, gen) \in Rows
<1>1. /\ rep[w].target \in Uris
      /\ rep[w].view \in [Uris -> Rows]
      /\ rep[w].snap \in 0..MaxRev /\ rep[w].snap <= Latest
  BY RepairFacts
<1>2. BodyAt(rep[w].target, rep[w].snap) \in 0..MaxRev
  BY <1>1, BodyAtType DEF TypeInv
<1> QED
  BY <1>1, <1>2 DEF Observed, SourceRow, Rows, Actions

\* The transaction of ReconcileSource keeps sources, jobs and repairs typed.
LEMMA ReconcileSourceType ==
    ASSUME TypeInv, NEW w \in RWorkers, ReconcileSource(w), UNCHANGED <<repoVars, faults>>
    PROVE  StoreTypeOK' /\ RepairsAreReady'
<1> DEFINE ev == Observed(w)
           after == IF ReconcileTransitions(w)
                    THEN [state |-> ProfileTransition(life.state, ev.act),
                          gen |-> life.gen + 1]
                    ELSE life
           plan == ReconcilePlan(after.state, ev.act)
<1>1. Latest' = Latest
  BY DEF repoVars, Latest
<1>2. CASE Fail(w) /\ UNCHANGED <<life, src, job>>
  BY <1>1, <1>2, FailType DEF ReconcileSource, TypeInv, StoreTypeOK
<1>3. CASE life' = after /\ InstallSource(ev.uri, SourceRow(ev, plan, after.gen), plan)
  <2>1. after \in Lives
    BY DEF TypeInv, StoreTypeOK, Lives, States, ProfileTransition
  <2>2. /\ plan.st \in JobStates /\ plan.dep \in Dependencies
        /\ plan.disp \in {"eligible", "blocked_departed", "denied_terminal"}
    BY DEF ReconcilePlan, Denied, Departed, Eligible, Plan, JobStates, Dependencies
  <2>0. rep[w].target # Owner
    BY DEF ReconcileSource
  <2> HIDE DEF after, plan
  <2>3. ev.uri \in Uris /\ SourceRow(ev, plan, after.gen) \in Rows
    <3>1. after.gen \in Nat
      BY <2>1 DEF Lives
    <3> QED
      BY <2>0, <2>2, <3>1, ObservedType
  <2> HIDE DEF ev
  <2>4. src' \in [Uris -> Rows] /\ job' \in [JobKeys -> Jobs]
    BY <1>3, <2>2, <2>3, InstallSourceType DEF TypeInv
  <2>5. StoreTypeOK'
    BY <1>3, <2>1, <2>4 DEF ReconcileSource, TypeInv, StoreTypeOK
  <2>6. RepairsAreReady'
    <3>1. CASE Fail(w)
      BY <3>1, <1>1, FailType
    <3>2. CASE rep' = [rep EXCEPT ![w].target = Owner, ![w].seen = NoLife,
                                  ![w].todo = @ \ {ev.uri}]
      BY <3>2, <1>1, TodoType
    <3> QED
      BY <3>1, <3>2, <1>1, FailType DEF ReconcileSource, ev
  <2> QED
    BY <2>5, <2>6
<1> QED
  BY <1>2, <1>3 DEF ReconcileSource

\* Creating a missing source through ingestion keeps calls and repairs typed.
LEMMA CreateType ==
    ASSUME TypeInv, NEW w \in RWorkers, UNCHANGED <<repoVars, faults>>,
           (\E u \in Uris : StartCreate(w, u)) \/ FinishCreate(w)
    PROVE  StoreTypeOK' /\ CallsAreReady' /\ RepairsAreReady'
<1>1. Latest' = Latest /\ w \in Ingestors
  BY DEF repoVars, Latest, Ingestors
<1>2. ASSUME NEW u \in Uris, StartCreate(w, u)
      PROVE  StoreTypeOK' /\ CallsAreReady' /\ RepairsAreReady'
  <2>1. FoundEvent("repair", u, rep[w].snap) \in Events
    BY RepairFacts, FoundEventType DEF TypeInv
  <2>2. CallsAreReady' /\ life' \in Lives
    BY <1>1, <1>2, <2>1, BeginIngestType DEF StartCreate, TypeInv
  <2> QED
    BY <1>1, <1>2, <2>2 DEF StartCreate, TypeInv, StoreTypeOK, RepairsAreReady, RepTypeOK
<1>3. CASE FinishCreate(w)
  <2>1. CallsAreReady'
    BY <1>1, <1>3 DEF FinishCreate, TypeInv, CallsAreReady, IngTypeOK, Calls, IngPhases, NoIng,
       NoLife, Lives
  <2>2. RepairsAreReady'
    <3>1. CASE Fail(w)
      BY <3>1, <1>1, FailType
    <3>2. CASE rep' = [rep EXCEPT ![w].todo = @ \ {ing[w].ev.uri}]
      BY <3>2, <1>1, TodoType
    <3> QED
      BY <3>1, <3>2, <1>3 DEF FinishCreate
  <2> QED
    BY <1>3, <2>1, <2>2 DEF FinishCreate, TypeInv, StoreTypeOK, storeVars
<1> QED
  BY <1>2, <1>3

\* The claim of a repair on one record keeps jobs, claims and repairs typed.
LEMMA ClaimSourceType ==
    ASSUME TypeInv, NEW w \in RWorkers, NEW u \in Uris, ClaimSource(w, u),
           UNCHANGED <<repoVars, faults>>
    PROVE  StoreTypeOK' /\ ClaimsAreReady' /\ RepairsAreReady'
<1> DEFINE k == <<u, "serving">>
<1>1. Latest' = Latest /\ w \in Projectors /\ k \in JobKeys
  BY DEF repoVars, Latest, Projectors, JobKeys
<1>2. ClaimsAreReady' /\ job' \in [JobKeys -> Jobs]
  BY <1>1, TakeType DEF ClaimSource, TypeInv, StoreTypeOK, ClaimsAreReady, ProjTypeOK
<1>3. RepairsAreReady'
  <2>1. CASE Fail(w)
    BY <2>1, <1>1, FailType
  <2>2. CASE rep' = [rep EXCEPT ![w].todo = @ \ {u}]
    BY <2>2, <1>1, TodoType
  <2> QED
    BY <2>1, <2>2 DEF ClaimSource
<1> QED
  BY <1>2, <1>3 DEF ClaimSource, TypeInv, StoreTypeOK

\* The projections of a repair keep tables, claims and repairs typed.
LEMMA ProjectSourceType ==
    ASSUME TypeInv, NEW w \in RWorkers, ProjectSource(w), UNCHANGED <<repoVars, faults>>
    PROVE  StoreTypeOK' /\ ClaimsAreReady' /\ RepairsAreReady'
<1>1. Latest' = Latest /\ w \in Projectors
  BY DEF repoVars, Latest, Projectors
<1>2. StoreTypeOK' /\ ClaimsAreReady'
  BY <1>1, OpenProjectionType, CommitProjectionType, NoProjType
  DEF ProjectSource, LoseLease, TypeInv, StoreTypeOK, storeVars
<1>3. RepairsAreReady'
  BY <1>1, FailType DEF ProjectSource, TypeInv, RepairsAreReady, RepTypeOK
<1> QED
  BY <1>2, <1>3

\* Each step of a repository worker preserves the type invariant.
LEMMA RepairType ==
    ASSUME TypeInv, NEW w \in RWorkers, Repair(w)
    PROVE  TypeInv'
<1>1. UNCHANGED <<repoVars, faults>>
  BY DEF Repair
<1>2. CASE \/ \E kind \in RepositoryKinds : ClaimRepository(w, kind)
           \/ AddRepo(w) \/ CompleteRepository(w) \/ RescheduleRepository(w)
  <2>1. StoreTypeOK' /\ RepairsAreReady'
    BY <1>1, <1>2, ClaimRepositoryType, FinishType
    DEF AddRepo, CompleteRepository, RescheduleRepository
  <2>2. UNCHANGED <<ing, proj>>
    BY <1>2 DEF ClaimRepository, AddRepo, CompleteRepository, RescheduleRepository, Finish
  <2> QED
    BY <1>1, <2>1, <2>2 DEF TypeInv, RepoTypeOK, DebtsExist, repoVars, Latest, CallsAreReady,
       IngTypeOK, ClaimsAreReady, ProjTypeOK
<1>3. CASE \/ FetchSnapshot(w) \/ DescribeRepair(w) \/ StartDrain(w)
           \/ \E u \in Uris : StartReconcile(w, u)
  <2>1. RepairsAreReady'
    BY <1>1, <1>3, SnapshotType, StartReconcileType
  <2>2. UNCHANGED <<storeVars, ing, proj>>
    BY <1>3 DEF FetchSnapshot, DescribeRepair, StartDrain, StartReconcile
  <2> QED
    BY <1>1, <2>1, <2>2 DEF TypeInv, RepoTypeOK, DebtsExist, repoVars, Latest, CallsAreReady,
       IngTypeOK, ClaimsAreReady, ProjTypeOK, StoreTypeOK, storeVars
<1>4. CASE ReconcileSource(w)
  <2>1. StoreTypeOK' /\ RepairsAreReady'
    BY <1>1, <1>4, ReconcileSourceType
  <2>2. UNCHANGED <<ing, proj>>
    BY <1>4 DEF ReconcileSource
  <2> QED
    BY <1>1, <2>1, <2>2 DEF TypeInv, RepoTypeOK, DebtsExist, repoVars, Latest, CallsAreReady,
       IngTypeOK, ClaimsAreReady, ProjTypeOK
<1>5. CASE FinishCreate(w) \/ \E u \in Uris : StartCreate(w, u)
  <2>1. StoreTypeOK' /\ CallsAreReady' /\ RepairsAreReady'
    BY <1>1, <1>5, CreateType
  <2>2. UNCHANGED proj
    BY <1>5 DEF FinishCreate, StartCreate
  <2> QED
    BY <1>1, <2>1, <2>2 DEF TypeInv, RepoTypeOK, DebtsExist, repoVars, Latest,
       ClaimsAreReady, ProjTypeOK
<1>6. CASE ProjectSource(w) \/ \E u \in Uris : ClaimSource(w, u)
  <2>1. StoreTypeOK' /\ ClaimsAreReady' /\ RepairsAreReady'
    BY <1>1, <1>6, ClaimSourceType, ProjectSourceType
  <2>2. UNCHANGED ing
    BY <1>6 DEF ProjectSource, OpenProjection, CommitProjection, LoseLease, ClaimSource
  <2> QED
    BY <1>1, <2>1, <2>2 DEF TypeInv, RepoTypeOK, DebtsExist, repoVars, Latest, CallsAreReady,
       IngTypeOK
<1> QED
  BY <1>2, <1>3, <1>4, <1>5, <1>6 DEF Repair

----------------------------------------------------------------------------
(* The outside, leases and faults.                                         *)

\* Each step from outside preserves the type invariant.
LEMMA ExternalType ==
    ASSUME TypeInv, External
    PROVE  TypeInv'
<1>1. ASSUME RepoTypeOK', DebtsExist', Latest' >= Latest,
             UNCHANGED <<storeVars, faults, ing, proj, rep>>
      PROVE  TypeInv'
  <2>1. RepairsAreReady'
    <3>1. Latest' \in Nat
      BY <1>1 DEF RepoTypeOK, Latest
    <3>2. ASSUME NEW w \in RWorkers PROVE rep[w].snap <= Latest'
      <4>1. rep[w].snap \in Nat /\ rep[w].snap <= Latest /\ Latest \in Nat
        BY RepairFacts
      <4> QED
        BY <1>1, <3>1, <4>1
    <3>3. rep' = rep
      BY <1>1
    <3> QED
      BY <3>2, <3>3 DEF TypeInv, RepairsAreReady, RepTypeOK
  <2> QED
    BY <1>1, <2>1 DEF TypeInv, StoreTypeOK, storeVars, CallsAreReady, IngTypeOK,
       ClaimsAreReady, ProjTypeOK
<1>2. CASE \E u \in Uris, writes \in BOOLEAN :
             Commit(u, writes) /\ UNCHANGED <<storeVars, faults, ing, proj, rep>>
  <2>1. RepoTypeOK' /\ Latest' = Latest + 1 /\ UNCHANGED resync
    BY <1>2, CommitType DEF TypeInv, Commit
  <2> QED
    BY <1>1, <1>2, <2>1, SMTT(30) DEF TypeInv, DebtsExist, RepoTypeOK, Latest
<1>3. CASE Resync /\ UNCHANGED <<storeVars, faults, ing, proj, rep>>
  <2>1. RepoTypeOK' /\ Latest' = Latest /\ DebtsExist'
    BY <1>3, ResyncType DEF TypeInv
  <2> QED
    BY <1>1, <1>3, <2>1 DEF TypeInv, RepoTypeOK, Latest
<1>4. CASE \E to \in States : OwnerTransition(to)
  <2>1. life' \in Lives
    BY <1>4 DEF OwnerTransition, TypeInv, StoreTypeOK, Lives
  <2> QED
    BY <1>4, <2>1 DEF OwnerTransition, TypeInv, StoreTypeOK, CallsAreReady, IngTypeOK,
       ClaimsAreReady, ProjTypeOK, RepairsAreReady, RepTypeOK, RepoTypeOK, DebtsExist,
       repoVars, Latest
<1>5. CASE \E kind \in RepositoryKinds : RequestRepository(kind)
  <2>1. rjob' \in [RepositoryKinds -> RepositoryJobs] /\ faults' \in 0..MaxFaults
    BY <1>5, WithRequestType, StoreConstants DEF RequestRepository, TypeInv, StoreTypeOK, Fault
  <2> QED
    BY <1>5, <2>1 DEF RequestRepository, TypeInv, StoreTypeOK, CallsAreReady, IngTypeOK,
       ClaimsAreReady, ProjTypeOK, RepairsAreReady, RepTypeOK, RepoTypeOK, DebtsExist,
       repoVars, Latest
<1> QED
  BY <1>2, <1>3, <1>4, <1>5 DEF External

\* A projection lease that lapses preserves the type invariant.
LEMMA LapseType ==
    ASSUME TypeInv, NEW k \in JobKeys, Lapse(k), UNCHANGED rep, faults' \in 0..MaxFaults
    PROVE  TypeInv'
<1>1. job' \in [JobKeys -> Jobs]
  BY ZenonT(60) DEF Lapse, TypeInv, StoreTypeOK, Jobs
<1> QED
  BY <1>1 DEF Lapse, TypeInv, StoreTypeOK, CallsAreReady, IngTypeOK, ClaimsAreReady,
     ProjTypeOK, RepairsAreReady, RepTypeOK, RepoTypeOK, DebtsExist, repoVars, Latest

\* A repository lease that lapses preserves the type invariant.
LEMMA LapseRepositoryType ==
    ASSUME TypeInv, NEW kind \in RepositoryKinds, LapseRepository(kind),
           faults' \in 0..MaxFaults
    PROVE  TypeInv'
<1>1. rjob' \in [RepositoryKinds -> RepositoryJobs]
  BY DEF LapseRepository, TypeInv, StoreTypeOK, RepositoryJobs
<1> QED
  BY <1>1 DEF LapseRepository, TypeInv, StoreTypeOK, CallsAreReady, IngTypeOK, ClaimsAreReady,
     ProjTypeOK, RepairsAreReady, RepTypeOK, RepoTypeOK, DebtsExist, repoVars, Latest

\* Faults stay within their bound.
LEMMA FaultType ==
    ASSUME TypeInv, Fault
    PROVE  faults' \in 0..MaxFaults
  BY StoreConstants DEF TypeInv, StoreTypeOK, Fault

\* Expiry of abandoned leases preserves the type invariant.
LEMMA ExpireType ==
    ASSUME TypeInv, Expire
    PROVE  TypeInv'
<1>1. faults \in 0..MaxFaults
  BY DEF TypeInv, StoreTypeOK
<1> QED
  BY <1>1, LapseType, LapseRepositoryType DEF Expire, ExpireLease, ExpireRepositoryLease

\* Dropping a call keeps calls typed.
LEMMA NoIngType ==
    ASSUME CallsAreReady, NEW i \in Ingestors, ing' = [ing EXCEPT ![i] = NoIng]
    PROVE  CallsAreReady'
  BY DEF CallsAreReady, IngTypeOK, Calls, IngPhases, NoIng, NoLife, Lives

\* A projection that fails preserves the type invariant.
LEMMA FailProjectionType ==
    ASSUME TypeInv, NEW w \in Workers, FailProjection(w), UNCHANGED rep
    PROVE  TypeInv'
<1> DEFINE k == proj[w].key
<1>1. w \in Projectors /\ k \in JobKeys /\ faults' \in 0..MaxFaults
  BY FaultType DEF FailProjection, TypeInv, ClaimsAreReady, Projectors
<1>2. job' \in [JobKeys -> Jobs]
  <2>1. JobRow("pending", NoDep, job[k].id) \in Jobs
    BY <1>1 DEF TypeInv, StoreTypeOK, JobRow, Jobs, JobStates, Dependencies
  <2> QED
    BY <1>1, <2>1 DEF FailProjection, TypeInv, StoreTypeOK
<1>3. ClaimsAreReady'
  BY <1>1, NoProjType DEF FailProjection, TypeInv
<1> QED
  BY <1>1, <1>2, <1>3 DEF FailProjection, TypeInv, StoreTypeOK, CallsAreReady, IngTypeOK,
     RepairsAreReady, RepTypeOK, RepoTypeOK, DebtsExist, repoVars, Latest

\* Crashes, failures and slow runs preserve the type invariant.
LEMMA FaultyType ==
    ASSUME TypeInv, Faulty
    PROVE  TypeInv'
<1>1. CASE Disconnect /\ UNCHANGED rep
  <2>1. CallsAreReady' /\ faults' \in 0..MaxFaults
    BY <1>1, NoIngType, FaultType DEF Disconnect, TypeInv, Ingestors
  <2> QED
    BY <1>1, <2>1 DEF Disconnect, TypeInv, StoreTypeOK, storeVars, ClaimsAreReady, ProjTypeOK,
       RepairsAreReady, RepTypeOK, RepoTypeOK, DebtsExist, repoVars, Latest
<1>2. CASE \E w \in Workers : FailProjection(w) /\ UNCHANGED rep
  BY <1>2, FailProjectionType
<1>3. CASE \E w \in Workers : CrashWorker(w) /\ UNCHANGED rep
  <2>1. ClaimsAreReady' /\ faults' \in 0..MaxFaults
    BY <1>3, NoProjType, FaultType DEF CrashWorker, TypeInv, Projectors
  <2> QED
    BY <1>3, <2>1 DEF CrashWorker, TypeInv, StoreTypeOK, storeVars, CallsAreReady, IngTypeOK,
       RepairsAreReady, RepTypeOK, RepoTypeOK, DebtsExist, repoVars, Latest
<1>4. CASE \E w \in RWorkers : InterruptRepair(w) \/ CrashRepair(w)
  <2>1. PICK w \in RWorkers : InterruptRepair(w) \/ CrashRepair(w)
    BY <1>4
  <2>2. w \in Ingestors /\ w \in Projectors
    BY DEF Ingestors, Projectors
  <2>3. CallsAreReady' /\ ClaimsAreReady' /\ faults' \in 0..MaxFaults
    BY <2>1, <2>2, NoIngType, NoProjType, FaultType DEF InterruptRepair, CrashRepair, TypeInv
  <2>4. Latest' = Latest
    BY <2>1 DEF InterruptRepair, CrashRepair, repoVars, Latest
  <2>5. RepairsAreReady'
    BY <2>1, <2>4, FailType DEF InterruptRepair, CrashRepair
  <2> QED
    BY <2>1, <2>3, <2>5 DEF InterruptRepair, CrashRepair, TypeInv, StoreTypeOK, storeVars,
       RepoTypeOK, DebtsExist, repoVars, Latest
<1>5. CASE \/ \E k \in JobKeys : OutrunLease(k) /\ UNCHANGED rep
           \/ \E kind \in RepositoryKinds : OutrunRepositoryLease(kind)
  BY <1>5, FaultType, LapseType, LapseRepositoryType DEF OutrunLease, OutrunRepositoryLease
<1> QED
  BY <1>1, <1>2, <1>3, <1>4, <1>5 DEF Faulty

----------------------------------------------------------------------------

\* The empty database satisfies the type invariant.
LEMMA InitType == Init => TypeInv
<1> SUFFICES ASSUME Init PROVE TypeInv
  OBVIOUS
<1>1. RepoTypeOK /\ DebtsExist
  BY EmptySeq DEF Init, RepoInit, RepoTypeOK, DebtsExist, Latest
<1>2. StoreTypeOK
  <2>1. NoRow \in Rows /\ NoJob \in Jobs /\ RepositoryJob("none") \in RepositoryJobs
    BY DEF NoRow, Rows, NoJob, JobRow, Jobs, JobStates, Dependencies, RepositoryJob,
       RepositoryJobs, NoId
  <2>2. NoLife \in Lives
    BY DEF NoLife, Lives
  <2> QED
    BY <2>1, <2>2, StoreConstants DEF Init, StoreInit, StoreTypeOK
<1>3. CallsAreReady
  BY DEF Init, IngInit, CallsAreReady, IngTypeOK, NoIng, Calls, IngPhases, NoLife, Lives
<1>4. ClaimsAreReady
  <2>1. NoProj \in Claims
    BY DEF NoProj, Claims, Results, Refused, Result, Dependencies, Effects
  <2> QED
    BY <2>1 DEF Init, ProjInit, ClaimsAreReady, ProjTypeOK, NoProj
<1>5. RepairsAreReady
  <2>1. NoRep.snap = 0 /\ NoRep.phase = "idle" /\ NoRep.target = Owner
    BY DEF NoRep
  <2>2. Latest = 0
    BY DEF Init, RepoInit, Latest
  <2>3. rep = [w \in RWorkers |-> NoRep] /\ NoRep \in Repairs
    BY NoRepType DEF Init, RepInit
  <2> QED
    BY <2>1, <2>2, <2>3 DEF RepairsAreReady, RepTypeOK
<1> QED
  BY <1>1, <1>2, <1>3, <1>4, <1>5 DEF TypeInv

\* Every step preserves the type invariant.
LEMMA NextType == TypeInv /\ [Next]_vars => TypeInv'
<1> SUFFICES ASSUME TypeInv, [Next]_vars PROVE TypeInv'
  OBVIOUS
<1>1. CASE External
  BY <1>1, ExternalType
<1>2. CASE Consume
  BY <1>2, ConsumeType
<1>3. CASE \E w \in Workers : ProjectNext(w)
  BY <1>3, ProjectType DEF ProjectNext, Projectors
<1>4. CASE \E w \in RWorkers : RepairNext(w)
  BY <1>4, RepairType, IngestType DEF RepairNext, Ingestors
<1>5. CASE Expire
  BY <1>5, ExpireType
<1>6. CASE Faulty
  BY <1>6, FaultyType
<1>7. CASE UNCHANGED vars
  BY <1>7 DEF vars, storeVars, repoVars, TypeInv, StoreTypeOK, CallsAreReady, IngTypeOK,
     ClaimsAreReady, ProjTypeOK, RepairsAreReady, RepTypeOK, RepoTypeOK, DebtsExist, Latest
<1> QED
  BY <1>1, <1>2, <1>3, <1>4, <1>5, <1>6, <1>7 DEF Next

\* In every reachable state the tables and the actors of the pipeline are of
\* their types, an actor that works has an event, a job or a snapshot to work on,
\* and nothing refers to a revision the repository does not have.
THEOREM TypesAreInvariant == Spec => []TypeInv
  BY InitType, NextType, PTL DEF Spec

\* The statement that the runs check: every table and every actor is of its type,
\* for any number of records, workers, revisions and faults.
THEOREM TypeCorrect == Spec => []TypeOK
<1>1. TypeInv => TypeOK
  BY DEF TypeInv, TypeOK, CallsAreReady, ClaimsAreReady, RepairsAreReady
<1> QED
  BY <1>1, TypesAreInvariant, PTL
============
