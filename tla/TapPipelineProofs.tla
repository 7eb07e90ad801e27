------------------------- MODULE TapPipelineProofs -------------------------
(***************************************************************************)
(* What the pipeline keeps for any number of records, workers and repairs  *)
(* and however often it fails.                                             *)
(*                                                                         *)
(* Every step is of one of ten kinds by what it does to sources, jobs and  *)
(* serving tables (StepKinds), and the invariant is preserved kind by kind:*)
(*                                                                         *)
(*   TruthInv   rows and events say of a record what the repository, which *)
(*              only grows, said at the revision they name;                *)
(*   RowsInv    what goes together in the columns of a row;                *)
(*   JobsInv    jobs are about the retained version;                       *)
(*   ProjectionIsExclusive, EffectsFit, DecisionsAreWarranted              *)
(*              projections exclude each other and the ingestion of their  *)
(*              record, so what one decided when it opened still fits when *)
(*              it commits, and the owner fence keeps its grounds;         *)
(*   CompletedIsServed, AlertsFollowServed, RefusalLeavesEvidence          *)
(*              what commits may then leave behind.                        *)
(***************************************************************************)
EXTENDS TapPipelineTypes

----------------------------------------------------------------------------
(* What a step can do to sources, jobs and serving tables.                 *)

\* No call opens a transaction in this step.
NoNewCall == \A i \in Ingestors : ing'[i].phase = "open" => ing'[i] = ing[i]

NobodyProjects(u) == \A w \in Projectors : proj[w].phase = "open" => proj[w].key[1] # u

Rests == NoNewCall /\ UNCHANGED <<src, job, served, alerts, quarantined, proj>>

\* What x says of record u is what the repository had at x's revision.
FaithfulTo(u, x) ==
    /\ x.rev <= Latest
    /\ x.body = BodyAt(u, x.rev)
    /\ x.body = 0 <=> x.act \in {"delete", "none"}

\* A version of the repository under the generation the step leaves, refused
\* only if the owner is terminal.
Installs ==
    \E u \in Uris, row \in Rows : \E plan :
        /\ InstallSource(u, row, plan)
        /\ FaithfulTo(u, row)
        /\ row.ord = "authoritative" /\ row.act # "none" /\ row.gen = life'.gen
        /\ plan.st \in {"pending", "blocked", "permanent_denied"}
        /\ plan.dep # OnRepository
        /\ plan.st = "permanent_denied" \/ row.disp = "denied_terminal"
              => life'.state = "terminal"
        /\ NobodyProjects(u)
        /\ NoNewCall /\ UNCHANGED <<served, alerts, quarantined, proj>>

\* The owner is terminal, or the order is uncertain and a repair is asked for.
Reason(u, row, st, dep) ==
    \/ /\ st = "permanent_denied" /\ life.state = "terminal"
       /\ row.disp = "denied_terminal" /\ row.gen = life.gen
    \/ /\ st = "blocked" /\ dep = OnRepository /\ rjob' = WithRequest("pds_reconcile")
       /\ row.disp = "pending" /\ row.ord = "uncertain" /\ row.gen = src[u].gen

\* A conflict or a denial: the version stays, its jobs are held back.
HoldsBack(u, row, st, dep) ==
    /\ row.id = src[u].id /\ row.rev = src[u].rev /\ row.act = src[u].act
    /\ row.body = src[u].body
    /\ row.ord = src[u].ord \/ (row.ord = "uncertain" /\ row.body # 0)
    /\ Reason(u, row, st, dep)
    /\ Exists(u) \/ CanMarkConflict(u)
    /\ src' = [src EXCEPT ![u] = row]
    /\ job' = [k \in JobKeys |-> IF k[1] = u /\ JobExists(k)
                                 THEN JobRow(st, dep, job[k].id) ELSE job[k]]
    /\ NobodyProjects(u)
    /\ NoNewCall /\ UNCHANGED <<life, served, alerts, quarantined, proj>>
Marks ==
    \E u \in Uris, row \in Rows, st \in {"blocked", "permanent_denied"} :
        \E dep : HoldsBack(u, row, st, dep)

Takes ==
    \E w \in Projectors, k \in JobKeys :
        /\ Take(w, k)
        /\ JobExists(k) /\ ~Open(k) /\ proj[w].phase = "idle"
        /\ UNCHANGED <<src, served, alerts, quarantined, ing>>

Leaves ==
    \E w \in Projectors :
        /\ proj' = [proj EXCEPT ![w] = NoProj]
        /\ NoNewCall /\ UNCHANGED <<src, job, served, alerts, quarantined>>

Fails == \E w \in Workers : FailProjection(w)

Lapses == \E k \in JobKeys : Lapse(k)

\* The exclusive part of an invariant of projections, used before the rest.
OpenExcludesCalls ==
    \A i \in Ingestors, w \in Projectors :
        /\ ing[i].phase = "open" /\ ing[i].locked /\ proj[w].phase = "open"
        => ing[i].ev.uri # proj[w].key[1]

\* Rows, events, debts and what a repair means to create tell the truth about
\* the repository.
CallsAreTrue ==
    \A i \in Ingestors : ing[i].phase # "idle" =>
        FaithfulTo(ing[i].ev.uri, ing[i].ev) /\ ing[i].ev.rev > 0
DebtsAreTrue == \A d \in resync : BodyAt(d[1], d[2]) # 0
CreatesAreTrue ==
    \A w \in RWorkers : rep[w].phase = "apply" =>
        \A u \in rep[w].todo : rep[w].view[u] = NoRow => BodyAt(u, rep[w].snap) # 0
TruthInv ==
    /\ \A u \in Uris : FaithfulTo(u, src[u])
    /\ CallsAreTrue /\ DebtsAreTrue /\ CreatesAreTrue

\* What a row may hold.
RowsInv ==
    \A u \in Uris :
        /\ Exists(u) => src[u].ord # "none" /\ src[u].act # "none"
        /\ src[u].gen <= life.gen
        /\ src[u].disp = "denied_terminal" => life.state = "terminal"
        /\ src[u].ord = "uncertain" => src[u].body # 0

\* Two versions of one revision have the same body: a conflict is about the
\* operation, and its record is there.
LEMMA ConflictsAreWritten ==
    ASSUME TypeInv, TruthInv, RowsInv, NEW i \in Ingestors, ing[i].phase # "idle",
           Decision(i) = "conflict"
    PROVE  src[ing[i].ev.uri].body # 0
<1> DEFINE ev == ing[i].ev
           row == src[ev.uri]
<1>1. ev \in Events /\ ev.uri \in Uris /\ row \in Rows
  BY DecisionsAreTyped DEF TypeInv, StoreTypeOK
<1>2. FaithfulTo(ev.uri, ev) /\ ev.rev > 0 /\ FaithfulTo(ev.uri, row)
  BY <1>1 DEF TruthInv, CallsAreTrue
<1>3. row.rev = ev.rev /\ ~(row.act = ev.act /\ row.body = ev.body)
  BY <1>1 DEF Decision, SelectSourceVersion, Events, Rows
<1>4. row.body = ev.body /\ row.act # ev.act
  BY <1>2, <1>3 DEF FaithfulTo
<1>5. row.act # "none"
  BY <1>1, <1>2, <1>3 DEF RowsInv, Exists, NoRow
<1> QED
  BY <1>1, <1>2, <1>4, <1>5 DEF FaithfulTo, Events, Actions

\* A row that is not locked is not being projected.
LEMMA RowLockExcludes ==
    ASSUME NEW u, ~RowLocked(u)
    PROVE  NobodyProjects(u)
  BY DEF RowLocked, NobodyProjects

\* An answered call holds no transaction.
LEMMA AnswerOpensNothing ==
    ASSUME TypeInv, NEW i \in Ingestors, NEW out, Answer(i, out)
    PROVE  NoNewCall
  BY DEF NoNewCall, Answer, NoIng, TypeInv, CallsAreReady, IngTypeOK

\* A call that is dropped or started holds no transaction.
LEMMA ReleaseOpensNothing ==
    ASSUME TypeInv, NEW i \in Ingestors, ing' = [ing EXCEPT ![i] = NoIng]
    PROVE  NoNewCall
  BY DEF NoNewCall, NoIng, TypeInv, CallsAreReady, IngTypeOK

\* Recognising a stale or duplicate version rests or denies a profile.
LEMMA RecogniseKind ==
    ASSUME TypeInv, NEW i \in Ingestors, Recognise(i)
    PROVE  Rests \/ Marks
<1> DEFINE ev == ing[i].ev
<1>1. ing[i].phase # "idle" /\ ev \in Events /\ ev.uri \in Uris
  BY DecisionsAreTyped DEF Recognise, InShared
<1>2. NoNewCall /\ NobodyProjects(ev.uri) /\ UNCHANGED <<life, served, alerts, quarantined, proj>>
  BY AnswerOpensNothing, RowLockExcludes DEF Recognise, InShared
<1>3. CASE IsDenied(ev)
  <2> DEFINE row == [src[ev.uri] EXCEPT !.disp = "denied_terminal", !.gen = life.gen]
  <2>1. src[ev.uri] \in Rows /\ life.gen \in Nat
    BY <1>1 DEF TypeInv, StoreTypeOK, Lives
  <2>2. /\ row \in Rows /\ row.id = src[ev.uri].id /\ row.rev = src[ev.uri].rev
        /\ row.act = src[ev.uri].act /\ row.body = src[ev.uri].body
        /\ row.ord = src[ev.uri].ord /\ row.gen = life.gen /\ row.disp = "denied_terminal"
    BY <2>1 DEF Rows
  <2>3. DenyProfile(ev.uri)
    BY <1>3 DEF Recognise
  <2>4. src' = [src EXCEPT ![ev.uri] = row]
    BY <1>1, <2>3 DEF DenyProfile, TypeInv, StoreTypeOK
  <2>5. Exists(ev.uri)
    BY <1>1, <2>1 DEF Recognise, Decision, SelectSourceVersion, Exists, NoRow, Rows, Events, Actions
  <2>6. Reason(ev.uri, row, "permanent_denied", NoDep)
    BY <1>3, <2>2 DEF Reason, IsDenied
  <2> HIDE DEF row
  <2>7. HoldsBack(ev.uri, row, "permanent_denied", NoDep)
    BY <1>2, <2>2, <2>3, <2>4, <2>5, <2>6 DEF HoldsBack, DenyProfile
  <2> QED
    BY <1>1, <2>2, <2>7 DEF Marks
<1>4. CASE ~IsDenied(ev)
  BY <1>2, <1>4 DEF Recognise, Rests
<1> QED
  BY <1>3, <1>4

\* A recorded conflict holds back the jobs of a record nobody projects.
LEMMA RecogniseConflictKind ==
    ASSUME TypeInv, TruthInv, RowsInv, NEW i \in Ingestors, RecogniseConflict(i)
    PROVE  Rests \/ Marks
<1> DEFINE ev == ing[i].ev
           u == ev.uri
<1>1. ing[i].phase # "idle" /\ ev \in Events /\ u \in Uris
  BY DecisionsAreTyped DEF RecogniseConflict, InShared
<1>2. NoNewCall /\ NobodyProjects(u) /\ UNCHANGED <<life, served, alerts, quarantined, proj>>
  BY AnswerOpensNothing, RowLockExcludes DEF RecogniseConflict, InShared
<1>3. CASE ~CanMarkConflict(u)
  BY <1>2, <1>3 DEF RecogniseConflict, Rests
<1>4. CASE CanMarkConflict(u)
  <2> DEFINE denied == [src[u] EXCEPT !.ord = "uncertain", !.disp = "denied_terminal",
                                      !.gen = life.gen]
             pending == [src[u] EXCEPT !.ord = "uncertain", !.disp = "pending"]
  <2>1. src[u] \in Rows /\ life.gen \in Nat
    BY <1>1 DEF TypeInv, StoreTypeOK, Lives
  <2>2. /\ denied \in Rows /\ denied.id = src[u].id /\ denied.rev = src[u].rev
        /\ denied.act = src[u].act /\ denied.body = src[u].body
        /\ denied.ord = "uncertain" /\ denied.disp = "denied_terminal"
        /\ denied.gen = life.gen
    BY <2>1 DEF Rows
  <2>3. /\ pending \in Rows /\ pending.id = src[u].id /\ pending.rev = src[u].rev
        /\ pending.act = src[u].act /\ pending.body = src[u].body
        /\ pending.ord = "uncertain" /\ pending.disp = "pending"
        /\ pending.gen = src[u].gen
    BY <2>1 DEF Rows
  <2>6. src[u].body # 0
    BY <1>1, ConflictsAreWritten DEF RecogniseConflict
  <2>4. CASE IsDenied(ev)
    <3>1. src' = [src EXCEPT ![u] = denied]
      BY <1>1, <1>4, <2>4 DEF RecogniseConflict, TypeInv, StoreTypeOK
    <3>2. job' = [k \in JobKeys |-> IF k[1] = u /\ JobExists(k)
                       THEN JobRow("permanent_denied", NoDep, job[k].id) ELSE job[k]]
      BY <1>4, <2>4 DEF RecogniseConflict
    <3>3. Reason(u, denied, "permanent_denied", NoDep)
      BY <2>2, <2>4 DEF Reason, IsDenied
    <3> HIDE DEF denied
    <3>4. HoldsBack(u, denied, "permanent_denied", NoDep)
      BY <1>2, <1>4, <2>2, <2>6, <3>1, <3>2, <3>3 DEF HoldsBack
    <3> QED
      BY <1>1, <2>2, <3>4 DEF Marks
  <2>5. CASE ~IsDenied(ev)
    <3>1. src' = [src EXCEPT ![u] = pending]
      BY <1>1, <1>4, <2>5 DEF RecogniseConflict, MarkConflict, TypeInv, StoreTypeOK
    <3>2. job' = [k \in JobKeys |-> IF k[1] = u /\ JobExists(k)
                       THEN JobRow("blocked", OnRepository, job[k].id) ELSE job[k]]
      BY <1>4, <2>5 DEF RecogniseConflict, MarkConflict
    <3>3. Reason(u, pending, "blocked", OnRepository)
      BY <1>4, <2>3, <2>5 DEF Reason, RecogniseConflict, MarkConflict
    <3> HIDE DEF pending
    <3>4. HoldsBack(u, pending, "blocked", OnRepository)
      BY <1>2, <1>4, <2>3, <2>6, <3>1, <3>2, <3>3 DEF HoldsBack
    <3> QED
      BY <1>1, <2>3, <3>4 DEF Marks
  <2> QED
    BY <2>4, <2>5
<1> QED
  BY <1>3, <1>4

\* A plan waits for the repository in no case and refuses only a terminal owner.
LEMMA PlansFit ==
    /\ \A ev, member : LET plan == IngestPlan(ev, member) IN
          /\ plan.dep # OnRepository
          /\ plan.st = "permanent_denied" \/ plan.disp = "denied_terminal"
                => life.state = "terminal"
    /\ \A state, act : LET plan == ReconcilePlan(state, act) IN
          /\ plan.dep # OnRepository
          /\ plan.st \in {"pending", "blocked", "permanent_denied"}
          /\ plan.disp \in {"eligible", "blocked_departed", "denied_terminal"}
          /\ plan.st = "permanent_denied" \/ plan.disp = "denied_terminal"
                => state = "terminal"
  BY DEF IngestPlan, RecordPlan, ReconcilePlan, Denied, Departed, Eligible, Plan,
         NoDep, OnMember, OnRepository

\* The row of a faithful event is faithful.
LEMMA RowsOfEvents ==
    ASSUME NEW u, NEW ev \in Events, FaithfulTo(u, ev), NEW plan, NEW gen
    PROVE  LET row == SourceRow(ev, plan, gen) IN
           /\ FaithfulTo(u, row) /\ row.ord = "authoritative" /\ row.act # "none"
           /\ row.gen = gen /\ row.disp = plan.disp /\ row.id = ev.id /\ row.rev = ev.rev
  BY DEF FaithfulTo, SourceRow, Events, Actions

\* Committing a newer version installs it while nobody projects the record: a
\* call that found no row waits for the row lock when it writes.
LEMMA CommitInstallKind ==
    ASSUME TypeInv, OpenExcludesCalls, TruthInv, NEW i \in Ingestors, CommitInstall(i)
    PROVE  Installs
<1> DEFINE ev == ing[i].ev
           plan == IngestPlan(ev, ing[i].member)
           row == SourceRow(ev, plan, life.gen)
<1>1. ing[i].phase # "idle" /\ ev \in Events /\ ev.uri \in Uris
  BY DecisionsAreTyped DEF CommitInstall
<1>2. NobodyProjects(ev.uri)
  BY RowLockExcludes DEF CommitInstall, OpenExcludesCalls, NobodyProjects
<1>3. NoNewCall /\ UNCHANGED <<life, served, alerts, quarantined, proj>>
  BY AnswerOpensNothing DEF CommitInstall
<1>5. /\ plan.st \in {"pending", "blocked", "permanent_denied"} /\ plan.dep # OnRepository
      /\ plan.disp \in {"eligible", "pending", "blocked_departed", "denied_terminal"}
      /\ plan.st = "permanent_denied" \/ plan.disp = "denied_terminal"
            => life.state = "terminal"
  BY PlansAreTyped, PlansFit
<1>6. InstallSource(ev.uri, row, plan)
  BY DEF CommitInstall
<1> HIDE DEF plan
<1>4. /\ row \in Rows /\ FaithfulTo(ev.uri, row) /\ row.ord = "authoritative"
      /\ row.act # "none" /\ row.gen = life.gen /\ row.disp = plan.disp
  BY <1>1, <1>5, SourceRowType, RowsOfEvents DEF TruthInv, CallsAreTrue, TypeInv, StoreTypeOK, Lives
<1> HIDE DEF row
<1> QED
  BY <1>1, <1>2, <1>3, <1>4, <1>5, <1>6 DEF Installs

\* A lifecycle transition rests or installs a profile that nobody projects.
LEMMA TransitionProfileKind ==
    ASSUME TypeInv, TruthInv, NEW i \in Ingestors, TransitionProfile(i)
    PROVE  Rests \/ Installs
<1> DEFINE ev == ing[i].ev
           gen == life.gen + 1
           row == SourceRow(ev, Eligible, gen)
<1>1. ing[i].phase # "idle" /\ ev \in Events /\ ev.uri \in Uris
  BY DecisionsAreTyped DEF TransitionProfile, WantsTransition
<1>2. NobodyProjects(ev.uri) /\ UNCHANGED <<served, alerts, quarantined, proj>>
  BY DEF TransitionProfile, SharedFence, NobodyProjects, storeVars
<1>3. CASE life.gen # ing[i].seen.gen
  BY <1>2, <1>3, AnswerOpensNothing DEF TransitionProfile, Rests, storeVars
<1>4. CASE life.gen = ing[i].seen.gen /\ Decision(i) # "newer"
  <2>1. NoNewCall
    BY <1>4 DEF TransitionProfile, NoNewCall, TypeInv, CallsAreReady, IngTypeOK, Calls
  <2> QED
    BY <1>2, <1>4, <2>1 DEF TransitionProfile, Rests, storeVars
<1>5. CASE life.gen = ing[i].seen.gen /\ Decision(i) = "newer"
  <2>1. InstallSource(ev.uri, row, Eligible) /\ NoNewCall /\ life'.gen = gen
    BY <1>5, AnswerOpensNothing DEF TransitionProfile
  <2>3. Eligible.st = "pending" /\ Eligible.dep # OnRepository /\ Eligible.disp = "eligible"
    BY DEF Eligible, Plan, NoDep, OnRepository
  <2>2. /\ row \in Rows /\ FaithfulTo(ev.uri, row) /\ row.ord = "authoritative"
        /\ row.act # "none" /\ row.gen = gen /\ row.disp = "eligible"
    BY <1>1, <2>3, SourceRowType, RowsOfEvents
    DEF TruthInv, CallsAreTrue, TypeInv, StoreTypeOK, Lives
  <2> HIDE DEF row
  <2> QED
    BY <1>1, <1>2, <2>1, <2>2, <2>3 DEF Installs
<1> QED
  BY <1>3, <1>4, <1>5

\* ReconcileSource rests or installs the observed version of a record that nobody
\* projects.
LEMMA ReconcileSourceKind ==
    ASSUME TypeInv, NEW w \in RWorkers, ReconcileSource(w)
    PROVE  Rests \/ Installs
<1> DEFINE ev == Observed(w)
           after == IF ReconcileTransitions(w)
                    THEN [state |-> ProfileTransition(life.state, ev.act),
                          gen |-> life.gen + 1]
                    ELSE life
           plan == ReconcilePlan(after.state, ev.act)
           row == SourceRow(ev, plan, after.gen)
<1>1. NoNewCall /\ UNCHANGED <<served, alerts, quarantined, proj>>
  BY DEF ReconcileSource, NoNewCall
<1>2. CASE UNCHANGED <<src, job>>
  BY <1>1, <1>2 DEF Rests
<1>3. CASE InstallSource(ev.uri, row, plan) /\ life' = after
  <2>1. ev.uri \in Uris /\ after.gen \in Nat
    BY ObservedType DEF ReconcileSource, TypeInv, StoreTypeOK, Lives
  <2>2. NobodyProjects(ev.uri)
    BY RowLockExcludes DEF ReconcileSource
  <2>4. /\ plan.st \in {"pending", "blocked", "permanent_denied"} /\ plan.dep # OnRepository
        /\ plan.disp \in {"eligible", "blocked_departed", "denied_terminal"}
        /\ plan.st = "permanent_denied" \/ plan.disp = "denied_terminal"
              => after.state = "terminal"
    BY PlansFit
  <2> HIDE DEF after, plan
  <2>5. row \in Rows
    BY <2>1, <2>4, ObservedType DEF ReconcileSource
  <2>3. /\ FaithfulTo(ev.uri, row) /\ row.ord = "authoritative"
        /\ row.act # "none" /\ row.gen = after.gen /\ row.disp = plan.disp
    BY RepairFacts DEF SourceRow, Observed, FaithfulTo
  <2> HIDE DEF ev, row
  <2> QED
    BY <1>1, <1>3, <2>1, <2>2, <2>3, <2>4, <2>5 DEF Installs
<1> QED
  BY <1>2, <1>3 DEF ReconcileSource

\* What a step of IngestRecord does to sources, jobs and serving tables.
LEMMA IngestKind ==
    ASSUME TypeInv, OpenExcludesCalls, TruthInv, RowsInv, NEW i \in Ingestors, Ingest(i)
    PROVE  \/ Rests \/ Installs \/ Marks
           \/ OpenInstall(i)
<1>1. CASE RejectWinner(i)
  BY <1>1, AnswerOpensNothing DEF RejectWinner, Rests, storeVars
<1> QED
  BY <1>1, RecogniseKind, RecogniseConflictKind, CommitInstallKind, TransitionProfileKind
  DEF Ingest

\* A claim takes a job that exists and is not being projected.
LEMMA ClaimKind ==
    ASSUME NEW w \in Projectors, NEW k \in JobKeys, Claim(w, k)
    PROVE  Takes
  BY DEF Claim, Takes, JobExists, Expired

\* So does the claim of a repair, if it takes anything.
LEMMA ClaimSourceKind ==
    ASSUME NEW w \in RWorkers, NEW u \in Uris, ClaimSource(w, u)
    PROVE  Takes \/ Rests
<1> DEFINE k == <<u, "serving">>
<1>1. w \in Projectors /\ k \in JobKeys
  BY DEF Projectors, JobKeys
<1>2. CASE Take(w, k) /\ (job[k].st \in {"pending", "blocked"} \/ Expired(job[k]))
  BY <1>1, <1>2 DEF ClaimSource, Takes, JobExists, Expired
<1>3. CASE UNCHANGED <<job, proj>>
  BY <1>3 DEF ClaimSource, Rests, NoNewCall
<1> QED
  BY <1>2, <1>3 DEF ClaimSource

\* What a step of a projector without its claims does.
LEMMA ProjectKind ==
    ASSUME NEW w \in Projectors,
           OpenProjection(w) \/ LoseLease(w) \/ CommitProjection(w)
    PROVE  OpenProjection(w) \/ CommitProjection(w) \/ Leaves
  BY DEF LoseLease, Leaves, NoNewCall, storeVars

\* What a step of a repository worker does.
LEMMA RepairKind ==
    ASSUME TypeInv, NEW w \in RWorkers, Repair(w)
    PROVE  \/ Rests \/ Installs \/ Takes \/ Leaves
           \/ OpenProjection(w) \/ CommitProjection(w)
<1>1. w \in Ingestors /\ w \in Projectors
  BY DEF Ingestors, Projectors
<1>2. ASSUME NEW u \in Uris, StartCreate(w, u) PROVE Rests
  BY <1>1, <1>2 DEF StartCreate, BeginIngest, Rests, NoNewCall, TypeInv, CallsAreReady, IngTypeOK
<1>3. CASE FinishCreate(w)
  BY <1>1, <1>3, ReleaseOpensNothing DEF FinishCreate, Rests, storeVars
<1>4. ASSUME NEW u \in Uris, StartReconcile(w, u) PROVE Rests
  BY <1>4 DEF StartReconcile, Rests, NoNewCall, storeVars
<1>5. ASSUME NEW kind \in RepositoryKinds, ClaimRepository(w, kind) PROVE Rests
  BY <1>5 DEF ClaimRepository, Rests, NoNewCall
<1>6. CASE FetchSnapshot(w) \/ DescribeRepair(w) \/ StartDrain(w)
  BY <1>6 DEF FetchSnapshot, DescribeRepair, StartDrain, Rests, NoNewCall, storeVars
<1>7. CASE AddRepo(w) \/ CompleteRepository(w) \/ RescheduleRepository(w)
  BY <1>7 DEF AddRepo, CompleteRepository, RescheduleRepository, Finish, Rests, NoNewCall
<1> QED
  BY <1>1, <1>2, <1>3, <1>4, <1>5, <1>6, <1>7, ReconcileSourceKind, ClaimSourceKind, ProjectKind
  DEF Repair, ProjectSource

\* Nothing from outside touches sources, jobs or serving tables.
LEMMA ExternalKind ==
    ASSUME External
    PROVE  Rests
  BY DEF External, Commit, Resync, OwnerTransition, RequestRepository, Rests, NoNewCall, storeVars

\* An expired lease at most lapses.
LEMMA ExpireKind ==
    ASSUME Expire
    PROVE  Rests \/ Lapses
  BY DEF Expire, ExpireLease, ExpireRepositoryLease, LapseRepository, Lapses, Rests, NoNewCall

\* A fault drops a claim, returns a job, lapses a lease or does nothing here.
LEMMA FaultyKind ==
    ASSUME TypeInv, Faulty
    PROVE  Rests \/ Leaves \/ Fails \/ Lapses
<1>1. CASE Disconnect
  BY <1>1, ReleaseOpensNothing DEF Disconnect, Rests, storeVars, Ingestors
<1>2. CASE \E w \in Workers : FailProjection(w)
  BY <1>2 DEF Fails
<1>3. ASSUME NEW w \in Workers, CrashWorker(w) PROVE Leaves
  BY <1>3 DEF CrashWorker, Leaves, NoNewCall, storeVars, Projectors
<1>4. ASSUME NEW w \in RWorkers, InterruptRepair(w) \/ CrashRepair(w) PROVE Leaves
  <2>1. w \in Ingestors /\ w \in Projectors
    BY DEF Ingestors, Projectors
  <2> QED
    BY <1>4, <2>1, ReleaseOpensNothing DEF InterruptRepair, CrashRepair, Leaves, storeVars
<1>5. ASSUME NEW k \in JobKeys, OutrunLease(k) PROVE Lapses
  BY <1>5 DEF OutrunLease, Lapses
<1>6. ASSUME NEW kind \in RepositoryKinds, OutrunRepositoryLease(kind) PROVE Rests
  BY <1>6 DEF OutrunRepositoryLease, LapseRepository, Rests, NoNewCall
<1> QED
  BY <1>1, <1>2, <1>3, <1>4, <1>5, <1>6 DEF Faulty

\* What a step of the Tap consumer does.
LEMMA ConsumeKind ==
    ASSUME TypeInv, OpenExcludesCalls, TruthInv, RowsInv, Consume
    PROVE  Rests \/ Installs \/ Marks \/ OpenInstall(Consumer)
<1>1. Consumer \in Ingestors
  BY DEF Ingestors
<1>2. ASSUME NEW ev \in Deliverable, Deliver(ev) PROVE Rests
  BY <1>1, <1>2 DEF Deliver, BeginIngest, Rests, NoNewCall, TypeInv, CallsAreReady, IngTypeOK
<1>3. CASE Reply
  BY <1>1, <1>3, ReleaseOpensNothing DEF Reply, Rests, storeVars
<1> QED
  BY <1>1, <1>2, <1>3, IngestKind DEF Consume

\* Every step of the pipeline is one of ten kinds; the invariants are proved
\* kind by kind.
LEMMA StepKinds ==
    ASSUME TypeInv, OpenExcludesCalls, TruthInv, RowsInv, [Next]_vars
    PROVE  \/ Rests \/ Installs \/ Marks
           \/ \E i \in Ingestors : OpenInstall(i)
           \/ Takes
           \/ \E w \in Projectors : OpenProjection(w) \/ CommitProjection(w)
           \/ Leaves \/ Fails \/ Lapses
<1>1. CASE UNCHANGED vars
  BY <1>1 DEF vars, storeVars, Rests, NoNewCall
<1>2. ASSUME NEW w \in Workers, ProjectNext(w)
      PROVE  Takes \/ OpenProjection(w) \/ CommitProjection(w) \/ Leaves
  BY <1>2, ClaimKind, ProjectKind DEF ProjectNext, Project, Projectors
<1>3. Workers \subseteq Projectors /\ RWorkers \subseteq Projectors
      /\ RWorkers \subseteq Ingestors /\ Consumer \in Ingestors
  BY DEF Projectors, Ingestors
<1> QED
  BY <1>1, <1>2, <1>3, ConsumeKind, RepairKind, IngestKind, ExternalKind, ExpireKind, FaultyKind
  DEF Next, RepairNext

----------------------------------------------------------------------------
(* Jobs follow their source.                                               *)

\* JobsFollowSource says nothing of a notification job whose record has no
\* source, nor of the job a projector works on.
ClaimsHaveJobs == \A w \in Projectors : proj[w].phase # "idle" => JobExists(proj[w].key)

JobsInv ==
    /\ \A u \in Uris : Exists(u) => JobExists(<<u, "serving">>)
    /\ \A k \in JobKeys : JobExists(k) => Exists(k[1]) /\ job[k].id = src[k[1]].id
    /\ ClaimsHaveJobs

\* The keys of the job table.
LEMMA KeyFacts ==
    /\ \A u \in Uris : <<u, "serving">> \in JobKeys
    /\ \A u \in Posts : u \in Uris /\ <<u, "notify">> \in JobKeys
    /\ \A k \in JobKeys : k[1] \in Uris /\ k[2] \in {"serving", "notify"}
                         /\ k = <<k[1], k[2]>> /\ (k[2] = "notify" => k[1] \in Posts)
  BY DEF JobKeys, Posts

\* Jobs never disappear and their versions and sources stay.
JobsKept ==
    \A k \in JobKeys : (JobExists(k) <=> JobExists(k)') /\ job'[k].id = job[k].id

\* A projection that fails puts its own job back, whatever it was working on.
LEMMA FailsKeep ==
    ASSUME TypeInv, Fails
    PROVE  \A k \in JobKeys :
              /\ job'[k].id = job[k].id
              /\ job[k].st # "none" <=> job'[k].st # "none"
              /\ job'[k].st = "complete" => job[k].st = "complete"
<1>1. PICK w \in Workers : FailProjection(w)
  BY DEF Fails
<1> DEFINE q == proj[w].key
           back == JobRow("pending", NoDep, job[q].id)
<1>2. \/ job' = job
      \/ job[q].st = "processing" /\ job' = [job EXCEPT ![q] = back]
  BY <1>1 DEF FailProjection
<1>3. back.st = "pending" /\ back.id = job[q].id
  BY DEF JobRow
<1>4. job \in [JobKeys -> Jobs]
  BY DEF TypeInv, StoreTypeOK
<1> HIDE DEF q, back
<1> QED
  BY <1>2, <1>3, <1>4

\* A step that keeps the jobs and the sources keeps them in agreement.
LEMMA JobsInvKept ==
    ASSUME TypeInv, JobsInv, JobsKept, UNCHANGED src,
           \A w \in Projectors : proj'[w].phase # "idle" =>
               proj'[w].key \in JobKeys /\ JobExists(proj'[w].key)
    PROVE  JobsInv'
<1>1. ClaimsHaveJobs'
  BY DEF ClaimsHaveJobs, JobsKept, JobExists
<1> QED
  BY <1>1, KeyFacts DEF JobsInv, JobsKept, Exists, JobExists

\* A new version takes its serving job and its notification job along.
LEMMA InstallsJobs ==
    ASSUME TypeInv, JobsInv, Installs
    PROVE  JobsInv'
<1>1. PICK u, row, plan :
         /\ u \in Uris /\ InstallSource(u, row, plan)
         /\ row.ord = "authoritative"
         /\ plan.st \in {"pending", "blocked", "permanent_denied"}
         /\ UNCHANGED proj
  BY DEF Installs
<1>2. row # NoRow
  BY <1>1 DEF NoRow
<1>3. src' = [src EXCEPT ![u] = row] /\ src'[u] = row
  BY <1>1 DEF InstallSource, TypeInv, StoreTypeOK
<1>4. \A k \in JobKeys : k[1] = u /\ (k[2] = "serving" \/ JobExists(k)) =>
         JobExists(k)' /\ job'[k].id = row.id
  BY <1>1 DEF InstallSource, JobRow, JobExists
<1>5. \A k \in JobKeys : ~(k[1] = u /\ (k[2] = "serving" \/ JobExists(k))) =>
         job'[k] = job[k]
  BY <1>1 DEF InstallSource
<1>6. \A v \in Uris : v # u => src'[v] = src[v]
  BY <1>3 DEF TypeInv, StoreTypeOK
<1>7. ASSUME NEW v \in Uris, Exists(v)' PROVE JobExists(<<v, "serving">>)'
  <2>1. CASE v = u
    BY <2>1, <1>4, KeyFacts
  <2>2. CASE v # u
    BY <2>2, <1>5, <1>6, <1>7, KeyFacts DEF JobsInv, Exists, JobExists
  <2> QED
    BY <2>1, <2>2
<1>8. ASSUME NEW k \in JobKeys, JobExists(k)'
      PROVE  Exists(k[1])' /\ job'[k].id = src'[k[1]].id
  <2>1. CASE k[1] = u
    BY <2>1, <1>2, <1>3, <1>4, <1>5, <1>8 DEF Exists, JobExists
  <2>2. CASE k[1] # u
    BY <2>2, <1>5, <1>6, <1>8, KeyFacts DEF JobsInv, Exists, JobExists
  <2> QED
    BY <2>1, <2>2
<1>9. ClaimsHaveJobs'
  <2>1. \A w \in Projectors : proj[w].phase # "idle" =>
           proj[w].key \in JobKeys /\ JobExists(proj[w].key)
    BY DEF JobsInv, ClaimsHaveJobs, TypeInv, ClaimsAreReady
  <2>2. \A k \in JobKeys : JobExists(k) => JobExists(k)'
    BY <1>4, <1>5 DEF JobExists
  <2> QED
    BY <1>1, <2>1, <2>2 DEF ClaimsHaveJobs, JobExists
<1> QED
  BY <1>7, <1>8, <1>9 DEF JobsInv

\* A version whose jobs are held back keeps them.
LEMMA MarksJobs ==
    ASSUME TypeInv, JobsInv, Marks
    PROVE  JobsInv'
<1>7. PICK u \in Uris, row \in Rows, st \in {"blocked", "permanent_denied"} :
         \E dep : HoldsBack(u, row, st, dep)
  BY DEF Marks
<1>5. PICK dep : HoldsBack(u, row, st, dep)
  BY <1>7
<1>1. /\ row.id = src[u].id /\ row.disp # "none" /\ st \in {"blocked", "permanent_denied"}
      /\ Exists(u) \/ CanMarkConflict(u)
      /\ src' = [src EXCEPT ![u] = row]
      /\ job' = [k \in JobKeys |-> IF k[1] = u /\ JobExists(k)
                                   THEN JobRow(st, dep, job[k].id) ELSE job[k]]
      /\ UNCHANGED proj
  BY <1>5 DEF HoldsBack, Reason
<1>2. Exists(u) /\ Exists(u)'
  <2>1. row # NoRow
    BY <1>1 DEF NoRow
  <2>2. CanMarkConflict(u) => \E k \in JobKeys : k[1] = u /\ JobExists(k)
    BY DEF CanMarkConflict, JobsOf
  <2>3. Exists(u)
    BY <1>1, <2>2 DEF JobsInv
  <2> QED
    BY <1>1, <2>1, <2>3 DEF Exists, TypeInv, StoreTypeOK
<1>3. JobsKept
  <2>1. \A k \in JobKeys : job'[k] = IF k[1] = u /\ JobExists(k)
                                      THEN JobRow(st, dep, job[k].id) ELSE job[k]
    BY <1>1
  <2>2. \A k \in JobKeys : /\ JobRow(st, dep, job[k].id).st # "none"
                           /\ JobRow(st, dep, job[k].id).id = job[k].id
    BY <1>1 DEF JobRow
  <2> QED
    BY <2>1, <2>2 DEF JobsKept, JobExists
<1>4. \A v \in Uris : src'[v].id = src[v].id /\ (Exists(v) <=> Exists(v)')
  BY <1>1, <1>2 DEF TypeInv, StoreTypeOK, Exists
<1>6. ClaimsHaveJobs'
  <2>1. \A w \in Projectors : proj[w].phase # "idle" =>
           proj[w].key \in JobKeys /\ JobExists(proj[w].key)
    BY DEF JobsInv, ClaimsHaveJobs, TypeInv, ClaimsAreReady
  <2> QED
    BY <1>1, <1>3, <2>1 DEF ClaimsHaveJobs, JobsKept, JobExists
<1> QED
  BY <1>3, <1>4, <1>6, KeyFacts DEF JobsInv, JobsKept

\* A claim keeps the version of the job it takes.
LEMMA TakesJobs ==
    ASSUME TypeInv, JobsInv, Takes
    PROVE  JobsInv'
<1>1. PICK w \in Projectors, k \in JobKeys : Take(w, k) /\ JobExists(k) /\ UNCHANGED src
  BY DEF Takes
<1>2. JobsKept
  BY <1>1 DEF Take, Claimed, JobsKept, JobExists, TypeInv, StoreTypeOK
<1>3. \A v \in Projectors : proj'[v].phase # "idle" =>
         proj'[v].key \in JobKeys /\ JobExists(proj'[v].key)
  BY <1>1 DEF Take, JobsInv, ClaimsHaveJobs, TypeInv, ClaimsAreReady, ProjTypeOK
<1> QED
  BY <1>1, <1>2, <1>3, JobsInvKept

\* A projection that settles its job, and makes the notification job of a post,
\* writes the version of the source on both.
LEMMA SettledJobs ==
    ASSUME TypeInv, JobsInv, NEW w \in Projectors, CommitProjection(w)
    PROVE  \A k \in JobKeys :
             \/ job'[k].st # "none" /\ JobExists(k) /\ job'[k].id = job[k].id
             \/ job'[k] = job[k]
             \/ /\ ~JobExists(k) /\ k = <<proj[w].key[1], "notify">>
                /\ job'[k] = JobRow("pending", NoDep, src[k[1]].id)
<1> DEFINE q == proj[w].key
           aux == <<q[1], "notify">>
           res == proj[w].res
           done == [job EXCEPT ![q] = JobRow(FinalState(res.kind), res.dep, @.id)]
           jobs == Settled(q, res)
<1>1. q \in JobKeys /\ JobExists(q)
  BY DEF CommitProjection, JobsInv, ClaimsHaveJobs, TypeInv, ClaimsAreReady
<1>2. \A k \in JobKeys :
        \/ done[k].st # "none" /\ JobExists(k) /\ done[k].id = job[k].id
        \/ done[k] = job[k]
  BY <1>1 DEF JobRow, FinalState, TypeInv, StoreTypeOK
<1>3. \A k \in JobKeys :
        \/ jobs[k].st # "none" /\ JobExists(k) /\ jobs[k].id = job[k].id
        \/ jobs[k] = job[k]
        \/ ~JobExists(k) /\ k = aux /\ jobs[k] = JobRow("pending", NoDep, src[k[1]].id)
  <2>1. CASE jobs = done
    BY <1>2, <2>1
  <2>2. CASE jobs # done
    <3>1. /\ jobs = [done EXCEPT ![aux] = JobRow("pending", NoDep, src[q[1]].id)]
          /\ ~JobExists(aux) /\ aux[1] = q[1]
      BY <2>2 DEF Settled
    <3>2. DOMAIN done = JobKeys
      BY DEF TypeInv, StoreTypeOK
    <3> HIDE DEF done, jobs, aux
    <3> QED
      BY <1>2, <3>1, <3>2
  <2> QED
    BY <2>1, <2>2
<1>4. \A dep : \A k \in JobKeys :
        \/ Wake(jobs, dep)[k].st = "pending" /\ jobs[k].st = "blocked"
           /\ Wake(jobs, dep)[k].id = jobs[k].id
        \/ Wake(jobs, dep)[k] = jobs[k]
  BY DEF Wake, JobRow
<1>5. job' = jobs \/ \E dep : job' = Wake(jobs, dep)
  BY DEF CommitProjection, Woken
<1>6. JobRow("pending", NoDep, src[q[1]].id).st = "pending"
  BY DEF JobRow
<1> HIDE DEF jobs
<1> QED
  BY <1>3, <1>4, <1>5, <1>6 DEF JobExists, JobRow

\* The end of a projection, wake-ups included, leaves no job without its source
\* and no job of another version.
LEMMA CommitsJobs ==
    ASSUME TypeInv, JobsInv, NEW w \in Projectors, CommitProjection(w)
    PROVE  JobsInv'
<1> DEFINE aux == <<proj[w].key[1], "notify">>
<1>1. UNCHANGED src /\ proj' = [proj EXCEPT ![w] = NoProj]
  BY DEF CommitProjection
<1>2. \A k \in JobKeys : JobExists(k) => JobExists(k)' /\ job'[k].id = job[k].id
  BY SettledJobs DEF JobExists
<1>3. ASSUME NEW k \in JobKeys, JobExists(k)'
      PROVE  Exists(k[1])' /\ job'[k].id = src'[k[1]].id
  <2>1. CASE JobExists(k)
    BY <1>1, <1>2, <2>1 DEF JobsInv, Exists
  <2>2. CASE ~JobExists(k)
    <3>1. k = aux /\ job'[k] = JobRow("pending", NoDep, src[k[1]].id)
      BY <2>2, <1>3, SettledJobs DEF JobExists
    <3>2. Exists(proj[w].key[1])
      BY DEF CommitProjection, JobsInv, ClaimsHaveJobs, TypeInv, ClaimsAreReady
    <3> QED
      BY <1>1, <3>1, <3>2 DEF Exists, JobRow
  <2> QED
    BY <2>1, <2>2
<1>4. ClaimsHaveJobs'
  <2>1. \A v \in Projectors : proj[v].phase # "idle" =>
           proj[v].key \in JobKeys /\ JobExists(proj[v].key)
    BY DEF JobsInv, ClaimsHaveJobs, TypeInv, ClaimsAreReady
  <2> QED
    BY <1>1, <1>2, <2>1 DEF ClaimsHaveJobs, JobExists, NoProj, TypeInv, ClaimsAreReady, ProjTypeOK
<1> QED
  BY <1>1, <1>2, <1>3, <1>4, KeyFacts DEF JobsInv, Exists

\* The other kinds of steps neither add nor remove jobs or sources.
LEMMA OtherStepsJobs ==
    ASSUME TypeInv, JobsInv,
           \/ Rests \/ Leaves \/ Fails \/ Lapses
           \/ \E i \in Ingestors : OpenInstall(i)
           \/ \E w \in Projectors : OpenProjection(w)
    PROVE  JobsInv'
<1>1. UNCHANGED src
  BY DEF Rests, Leaves, Fails, FailProjection, Lapses, Lapse, OpenInstall, OpenProjection, storeVars
<1>2. JobsKept
  <2>1. CASE Fails
    BY <2>1, FailsKeep DEF JobsKept, JobExists
  <2>2. CASE Lapses
    BY <2>2 DEF Lapses, Lapse, JobsKept, JobExists, TypeInv, StoreTypeOK
  <2>3. CASE UNCHANGED job
    BY <2>3 DEF JobsKept, JobExists
  <2> QED
    BY <2>1, <2>2, <2>3 DEF Rests, Leaves, OpenInstall, OpenProjection, storeVars
<1>3. ASSUME NEW v \in Projectors, proj'[v].phase # "idle"
      PROVE  proj[v].phase # "idle" /\ proj'[v].key = proj[v].key
  <2>1. CASE UNCHANGED proj
    BY <1>3, <2>1
  <2>2. CASE \E w \in Projectors : proj' = [proj EXCEPT ![w] = NoProj]
    BY <1>3, <2>2 DEF NoProj, TypeInv, ClaimsAreReady, ProjTypeOK
  <2>3. CASE \E w \in Projectors : OpenProjection(w)
    BY <1>3, <2>3 DEF OpenProjection, TypeInv, ClaimsAreReady, ProjTypeOK
  <2> QED
    BY <2>1, <2>2, <2>3 DEF Rests, Leaves, Fails, FailProjection, Lapses, Lapse, OpenInstall, Projectors
<1> QED
  BY <1>1, <1>2, <1>3, JobsInvKept DEF JobsInv, ClaimsHaveJobs, TypeInv, ClaimsAreReady

----------------------------------------------------------------------------
(* Projections exclude each other.                                         *)

\* Those inside a transaction were inside it before, on the same claim.
OpenKept ==
    \A v \in Projectors : proj'[v].phase = "open" =>
        /\ proj'[v] = proj[v]
        /\ src'[proj[v].key[1]] = src[proj[v].key[1]]
        /\ job'[proj[v].key].st = job[proj[v].key].st
        /\ job'[proj[v].key].holder = job[proj[v].key].holder

\* A step that opens nothing and leaves what is open alone keeps exclusion.
LEMMA ExclusiveKept ==
    ASSUME ProjectionIsExclusive, OpenKept, NoNewCall
    PROVE  ProjectionIsExclusive'
  BY DEF ProjectionIsExclusive, OpenKept, NoNewCall

\* Nobody projects a record while a version of it is installed.
LEMMA InstallsExclusive ==
    ASSUME TypeInv, ProjectionIsExclusive, Installs
    PROVE  OpenKept /\ ProjectionIsExclusive'
<1>1. PICK u, row, plan :
         /\ u \in Uris /\ InstallSource(u, row, plan)
         /\ NobodyProjects(u) /\ NoNewCall /\ UNCHANGED proj
  BY DEF Installs
<1>2. \A v \in Uris : v # u => src'[v] = src[v]
  BY <1>1 DEF InstallSource, TypeInv, StoreTypeOK
<1>3. \A k \in JobKeys : k[1] # u => job'[k] = job[k]
  BY <1>1 DEF InstallSource
<1>4. OpenKept
  BY <1>1, <1>2, <1>3, KeyFacts DEF OpenKept, NobodyProjects, TypeInv, ClaimsAreReady
<1> QED
  BY <1>1, <1>4, ExclusiveKept

\* Nobody projects a record while its jobs are held back.
LEMMA MarksExclusive ==
    ASSUME TypeInv, ProjectionIsExclusive, Marks
    PROVE  OpenKept /\ ProjectionIsExclusive'
<1>1. PICK u \in Uris, row \in Rows, st \in {"blocked", "permanent_denied"} :
         \E dep : HoldsBack(u, row, st, dep)
  BY DEF Marks
<1>2. PICK dep : HoldsBack(u, row, st, dep)
  BY <1>1
<1>3. \A v \in Uris : v # u => src'[v] = src[v]
  BY <1>2 DEF HoldsBack, TypeInv, StoreTypeOK
<1>4. \A k \in JobKeys : k[1] # u => job'[k] = job[k]
  BY <1>2 DEF HoldsBack
<1>5. OpenKept
  BY <1>2, <1>3, <1>4, KeyFacts DEF HoldsBack, OpenKept, NobodyProjects, TypeInv, ClaimsAreReady
<1> QED
  BY <1>2, <1>5, ExclusiveKept DEF HoldsBack

\* A claim does not touch a job that is being projected.
LEMMA TakesExclusive ==
    ASSUME TypeInv, ProjectionIsExclusive, Takes
    PROVE  OpenKept /\ ProjectionIsExclusive'
<1>1. PICK w \in Projectors, k \in JobKeys : Take(w, k) /\ ~Open(k) /\ UNCHANGED <<src, ing>>
  BY DEF Takes
<1>2. \A v \in Projectors : proj'[v].phase = "open" => v # w /\ proj'[v] = proj[v]
  BY <1>1 DEF Take, NoProj, TypeInv, ClaimsAreReady, ProjTypeOK
<1>3. \A q \in JobKeys : q # k => job'[q] = job[q]
  BY <1>1 DEF Take, TypeInv, StoreTypeOK
<1>4. OpenKept
  BY <1>1, <1>2, <1>3 DEF Open, OpenKept, TypeInv, ClaimsAreReady
<1> QED
  BY <1>1, <1>4, ExclusiveKept DEF NoNewCall

\* A call locks the row of a record that nobody projects.
LEMMA OpenInstallExclusive ==
    ASSUME TypeInv, ProjectionIsExclusive, NEW i \in Ingestors, OpenInstall(i)
    PROVE  OpenKept /\ ProjectionIsExclusive'
<1>1. NobodyProjects(ing[i].ev.uri)
  BY RowLockExcludes DEF OpenInstall, InShared
<1>2. UNCHANGED <<src, job, proj>>
  BY DEF OpenInstall, storeVars
<1>3. \A j \in Ingestors : ing'[j].ev = ing[j].ev /\ (j # i => ing'[j] = ing[j])
  BY DEF OpenInstall, TypeInv, CallsAreReady, IngTypeOK, Calls
<1>4. OpenKept
  BY <1>2 DEF OpenKept
<1> QED
  BY <1>1, <1>2, <1>3, <1>4 DEF ProjectionIsExclusive, NobodyProjects

\* A projection opens only under its own lease, on the claimed version, with the
\* row of the record free (Store.project).
LEMMA OpenProjectionExclusive ==
    ASSUME TypeInv, ProjectionIsExclusive, NEW w \in Projectors, OpenProjection(w)
    PROVE  ProjectionIsExclusive'
<1>1. UNCHANGED <<src, job, ing>>
  BY DEF OpenProjection, storeVars
<1>2. /\ proj'[w].key = proj[w].key /\ proj'[w].id = proj[w].id
      /\ \A v \in Projectors : v # w => proj'[v] = proj[v]
  BY DEF OpenProjection, TypeInv, ClaimsAreReady, ProjTypeOK, Claims
<1>3. /\ src[proj[w].key[1]].id = proj[w].id
      /\ job[proj[w].key].st = "processing" /\ job[proj[w].key].holder = w
  BY DEF OpenProjection, LeaseValid
<1>4. /\ \A v \in Projectors : proj[v].phase = "open" => proj[v].key[1] # proj[w].key[1]
      /\ \A i \in Ingestors : ing[i].phase = "open" /\ ing[i].locked
                               => ing[i].ev.uri # proj[w].key[1]
  BY DEF OpenProjection, RowLocked
<1> QED
  BY <1>1, <1>2, <1>3, <1>4 DEF ProjectionIsExclusive

\* What the completion of one projection does to the jobs of others.
LEMMA CommitsLeaveOthers ==
    ASSUME TypeInv, NEW w \in Projectors, CommitProjection(w)
    PROVE  \A k \in JobKeys : k[1] # proj[w].key[1] /\ job[k].st # "blocked"
                            => job'[k] = job[k]
<1> DEFINE q == proj[w].key
           aux == <<q[1], "notify">>
           res == proj[w].res
           done == [job EXCEPT ![q] = JobRow(FinalState(res.kind), res.dep, @.id)]
           jobs == Settled(q, res)
<1>1. \A k \in JobKeys : k[1] # q[1] => done[k] = job[k]
  BY DEF TypeInv, StoreTypeOK
<1>2. \A k \in JobKeys : k[1] # q[1] => jobs[k] = job[k]
  <2>1. DOMAIN done = JobKeys /\ aux[1] = q[1]
    BY DEF TypeInv, StoreTypeOK
  <2>2. jobs = done \/ jobs = [done EXCEPT ![aux] = JobRow("pending", NoDep, src[q[1]].id)]
    BY DEF Settled
  <2> HIDE DEF done, jobs, aux
  <2> QED
    BY <1>1, <2>1, <2>2
<1>3. \A dep : \A k \in JobKeys : jobs[k].st # "blocked" => Wake(jobs, dep)[k] = jobs[k]
  BY DEF Wake
<1>4. job' = jobs \/ \E dep : job' = Wake(jobs, dep)
  BY DEF CommitProjection, Woken
<1> HIDE DEF jobs
<1> QED
  BY <1>2, <1>3, <1>4

\* One projection that ends leaves the others as they were.
LEMMA CommitsExclusive ==
    ASSUME TypeInv, ProjectionIsExclusive, NEW w \in Projectors, CommitProjection(w)
    PROVE  OpenKept /\ ProjectionIsExclusive'
<1>1. proj[w].phase = "open" /\ proj' = [proj EXCEPT ![w] = NoProj] /\ UNCHANGED <<src, ing>>
  BY DEF CommitProjection
<1>2. \A v \in Projectors : proj'[v].phase = "open" => v # w /\ proj'[v] = proj[v]
  BY <1>1 DEF NoProj, TypeInv, ClaimsAreReady, ProjTypeOK
<1>3. \A v \in Projectors \ {w} : proj[v].phase = "open" =>
         /\ proj[v].key \in JobKeys /\ proj[v].key[1] # proj[w].key[1]
         /\ job[proj[v].key].st = "processing"
  BY <1>1 DEF ProjectionIsExclusive, TypeInv, ClaimsAreReady
<1>4. OpenKept
  BY <1>1, <1>2, <1>3, CommitsLeaveOthers DEF OpenKept
<1> QED
  BY <1>1, <1>4, ExclusiveKept DEF NoNewCall

\* The other kinds of steps disturb no open projection.
LEMMA OtherStepsExclusive ==
    ASSUME TypeInv, ProjectionIsExclusive, Rests \/ Leaves \/ Fails \/ Lapses
    PROVE  OpenKept /\ ProjectionIsExclusive'
<1>1. CASE Rests
  BY <1>1, ExclusiveKept DEF Rests, OpenKept
<1>2. CASE Leaves
  BY <1>2, ExclusiveKept DEF Leaves, OpenKept, NoProj, TypeInv, ClaimsAreReady, ProjTypeOK
<1>3. CASE Fails
  <2>1. PICK w \in Workers : FailProjection(w)
    BY <1>3 DEF Fails
  <2>2. w \in Projectors /\ proj[w].phase = "open" /\ UNCHANGED <<src, ing>>
    BY <2>1 DEF FailProjection, Projectors
  <2>3. \A v \in Projectors : proj'[v].phase = "open" => v # w /\ proj'[v] = proj[v]
    BY <2>1, <2>2 DEF FailProjection, NoProj, TypeInv, ClaimsAreReady, ProjTypeOK
  <2>4. \A k \in JobKeys : k # proj[w].key => job'[k] = job[k]
    BY <2>1 DEF FailProjection, TypeInv, StoreTypeOK
  <2>5. \A v \in Projectors \ {w} : proj[v].phase = "open" =>
           proj[v].key \in JobKeys /\ proj[v].key # proj[w].key
    BY <2>2 DEF ProjectionIsExclusive, TypeInv, ClaimsAreReady
  <2>6. OpenKept
    BY <2>2, <2>3, <2>4, <2>5 DEF OpenKept
  <2> QED
    BY <2>2, <2>6, ExclusiveKept DEF NoNewCall
<1>4. CASE Lapses
  <2>1. \A k \in JobKeys : job'[k].st = job[k].st /\ job'[k].holder = job[k].holder
    BY <1>4 DEF Lapses, Lapse, TypeInv, StoreTypeOK, Jobs
  <2>2. UNCHANGED <<src, ing, proj>>
    BY <1>4 DEF Lapses, Lapse
  <2>3. OpenKept
    BY <2>1, <2>2 DEF OpenKept, TypeInv, ClaimsAreReady
  <2> QED
    BY <2>2, <2>3, ExclusiveKept DEF NoNewCall
<1> QED
  BY <1>1, <1>2, <1>3, <1>4

----------------------------------------------------------------------------
(* Completed jobs tell the truth.                                          *)

\* A serving projection that will complete shows the version of its source,
\* and a notification projection leaves the serving tables alone.
EffectFits(k, res) ==
    /\ res.kind = "applied" /\ k[2] = "serving" =>
          \/ res.effect = "serve"
          \/ res.effect = "remove" /\ src[k[1]].act = "delete"
    /\ k[2] = "notify" => res.effect \notin {"serve", "remove"}
EffectsFit ==
    \A w \in Projectors : proj[w].phase = "open" => EffectFits(proj[w].key, proj[w].res)

\* A serving projection decides to complete only if it shows the version or the
\* version is a delete.
LEMMA DecideFits ==
    ASSUME NEW k \in JobKeys
    PROVE  EffectFits(k, Decide(k))
<1> DEFINE u == k[1]
           bad == IsMalformed(src[u].act, src[u].body)
           act == IF bad THEN "delete" ELSE src[u].act
           res == IF k[2] = "serving" THEN ServingProjector(u, act)
                  ELSE NotificationProjector(u, act)
<1>1. /\ Eligibility(src[u]).kind # "applied" => Eligibility(src[u]).effect = "none"
      /\ \A effect : RefusedMalformed(effect).kind = "permanent_invalid"
                    /\ RefusedMalformed(effect).effect = effect
      /\ \A dep : Blocked(dep).kind = "blocked" /\ Blocked(dep).effect = "none"
  BY DEF Eligibility, Blocked, Refused, Applied, RefusedMalformed, Result
<1>2. /\ ServingProjector(u, "delete") = Applied("remove")
      /\ act # "delete" /\ ServingProjector(u, act).kind = "applied"
            => ServingProjector(u, act).effect = "serve"
      /\ NotificationProjector(u, act).effect \notin {"serve", "remove"}
  BY DEF ServingProjector, NotificationProjector, Applied, Blocked, Result
<1>3. Dispatch(k) = IF bad /\ Profile(u) THEN RefusedMalformed("none")
                    ELSE IF src[u].gen # life.gen THEN Blocked(OnRepository)
                    ELSE IF bad THEN RefusedMalformed(res.effect) ELSE res
  BY DEF Dispatch
<1>4. Applied("remove").effect = "remove"
  BY DEF Applied, Result
<1>5. EffectFits(k, Dispatch(k))
  <2>1. CASE bad /\ Profile(u)
    BY <1>1, <1>3, <2>1 DEF EffectFits
  <2>2. CASE ~(bad /\ Profile(u)) /\ src[u].gen # life.gen
    BY <1>1, <1>3, <2>2 DEF EffectFits
  <2>3. CASE ~Profile(u) /\ src[u].gen = life.gen /\ bad
    BY <1>1, <1>2, <1>3, <2>3 DEF EffectFits
  <2>4. CASE src[u].gen = life.gen /\ ~bad
    <3>1. Dispatch(k) = res /\ act = src[u].act
      BY <1>3, <2>4
    <3>2. k[2] = "serving" => EffectFits(k, ServingProjector(u, act))
      BY <1>2, <1>4, <3>1 DEF EffectFits
    <3>3. k[2] = "notify" => EffectFits(k, NotificationProjector(u, act))
      BY <1>2 DEF EffectFits
    <3> QED
      BY <3>1, <3>2, <3>3, KeyFacts
  <2> QED
    BY <2>1, <2>2, <2>3, <2>4
<1> QED
  BY <1>1, <1>5 DEF Decide, EffectFits

\* What was decided still fits while the version is locked.
LEMMA EffectsFitKept ==
    ASSUME EffectsFit, OpenKept
    PROVE  EffectsFit'
  BY DEF EffectsFit, EffectFits, OpenKept

\* What a projection decides when it opens fits its source.
LEMMA OpenProjectionFits ==
    ASSUME TypeInv, EffectsFit, NEW w \in Projectors, OpenProjection(w)
    PROVE  EffectsFit'
<1>1. /\ UNCHANGED src
      /\ proj[w].key \in JobKeys
      /\ proj'[w].key = proj[w].key /\ proj'[w].res = Decide(proj[w].key)
      /\ \A v \in Projectors : v # w => proj'[v] = proj[v]
  BY DEF OpenProjection, storeVars, TypeInv, ClaimsAreReady, ProjTypeOK, Claims
<1>2. EffectFits(proj[w].key, Decide(proj[w].key))
  BY <1>1, DecideFits
<1> QED
  BY <1>1, <1>2 DEF EffectsFit, EffectFits

\* The end of a projection settles its own job and puts others at most back to
\* pending.
LEMMA CommitSettles ==
    ASSUME TypeInv, NEW w \in Projectors, CommitProjection(w), NEW k \in JobKeys
    PROVE  \/ job'[k].st = "pending"
           \/ /\ k = proj[w].key /\ job'[k].st = FinalState(proj[w].res.kind)
              /\ job'[k].dep = proj[w].res.dep
           \/ k # proj[w].key /\ job'[k] = job[k]
<1> DEFINE q == proj[w].key
           aux == <<q[1], "notify">>
           res == proj[w].res
           done == [job EXCEPT ![q] = JobRow(FinalState(res.kind), res.dep, @.id)]
           jobs == Settled(q, res)
<1>1. \/ k = q /\ done[k].st = FinalState(res.kind) /\ done[k].dep = res.dep
      \/ k # q /\ done[k] = job[k]
  <2>1. CASE k # q
    BY <2>1 DEF TypeInv, StoreTypeOK
  <2>2. CASE k = q
    BY <2>2 DEF TypeInv, StoreTypeOK, JobRow
  <2> QED
    BY <2>1, <2>2
<1>2. jobs[k].st = "pending" \/ jobs[k] = done[k]
  <2>1. k \in DOMAIN done
    BY DEF TypeInv, StoreTypeOK
  <2>2. jobs = done \/ jobs = [done EXCEPT ![aux] = JobRow("pending", NoDep, src[q[1]].id)]
    BY DEF Settled
  <2>3. JobRow("pending", NoDep, src[q[1]].id).st = "pending"
    BY DEF JobRow
  <2> HIDE DEF done, jobs, aux, q
  <2> QED
    BY <2>1, <2>2, <2>3
<1>3. \A dep : Wake(jobs, dep)[k].st = "pending" \/ Wake(jobs, dep)[k] = jobs[k]
  BY DEF Wake, JobRow
<1>4. job' = jobs \/ \E dep : job' = Wake(jobs, dep)
  BY DEF CommitProjection, Woken
<1> HIDE DEF jobs, done, q, res
<1>5. job'[k].st = "pending" \/ job'[k] = jobs[k]
  BY <1>3, <1>4
<1> QED
  BY <1>1, <1>2, <1>5 DEF q, res

\* It completes its own job or none.
LEMMA CommitCompletes ==
    ASSUME TypeInv, NEW w \in Projectors, CommitProjection(w),
           NEW k \in JobKeys, job'[k].st = "complete"
    PROVE  \/ k = proj[w].key /\ proj[w].res.kind = "applied"
           \/ k # proj[w].key /\ job[k].st = "complete"
  BY CommitSettles DEF FinalState

\* What is complete after a projection ended is served.
LEMMA CommitServes ==
    ASSUME TypeInv, TruthInv, EffectsFit, CompletedIsServed,
           NEW w \in Projectors, CommitProjection(w)
    PROVE  CompletedIsServed'
<1> DEFINE q == proj[w].key
           res == proj[w].res
<1>1. /\ q \in JobKeys /\ q[1] \in Uris /\ EffectFits(q, res)
      /\ served' = Served(q[1], res.effect) /\ UNCHANGED src
  BY KeyFacts DEF CommitProjection, EffectsFit, TypeInv, ClaimsAreReady
<1>2. SUFFICES ASSUME NEW u \in Uris, job'[<<u, "serving">>].st = "complete"
               PROVE  served'[u] = src[u].body
  <2>1. src' = src
    BY <1>1
  <2> QED
    BY <2>1 DEF CompletedIsServed
<1>3. <<u, "serving">> \in JobKeys
  BY KeyFacts
<1>4. CASE <<u, "serving">> = q /\ res.kind = "applied"
  <2>1. q[1] = u /\ q[2] = "serving"
    BY <1>4
  <2>2. CASE res.effect = "serve"
    BY <1>1, <2>1, <2>2 DEF Served, TypeInv, StoreTypeOK
  <2>3. CASE res.effect = "remove" /\ src[u].act = "delete"
    BY <1>1, <2>1, <2>3 DEF Served, TruthInv, FaithfulTo, TypeInv, StoreTypeOK
  <2> QED
    BY <1>1, <1>4, <2>1, <2>2, <2>3 DEF EffectFits
<1>5. CASE <<u, "serving">> # q /\ job[<<u, "serving">>].st = "complete"
  <2>1. served[u] = src[u].body
    BY <1>5 DEF CompletedIsServed
  <2>2. CASE q[1] = u
    <3>1. q[2] = "notify"
      BY <1>1, <1>5, <2>2, KeyFacts
    <3> QED
      BY <1>1, <2>1, <3>1 DEF EffectFits, Served
  <2>3. CASE q[1] # u
    BY <1>1, <2>1, <2>3 DEF Served, TypeInv, StoreTypeOK
  <2> QED
    BY <2>2, <2>3
<1>6. \/ <<u, "serving">> = q /\ res.kind = "applied"
      \/ <<u, "serving">> # q /\ job[<<u, "serving">>].st = "complete"
  BY <1>2, <1>3, CommitCompletes
<1> QED
  BY <1>4, <1>5, <1>6

\* No other kind of step completes a job or changes what is served.
LEMMA StoreStepsServe ==
    ASSUME TypeInv, CompletedIsServed,
           \/ Rests \/ Installs \/ Marks \/ Takes \/ Leaves \/ Fails \/ Lapses
           \/ \E i \in Ingestors : OpenInstall(i)
           \/ \E w \in Projectors : OpenProjection(w)
    PROVE  CompletedIsServed'
<1>1. UNCHANGED served
  BY DEF Rests, Installs, Marks, HoldsBack, Takes, Leaves, Fails, FailProjection, Lapses, Lapse,
         OpenInstall, OpenProjection, storeVars
<1>2. ASSUME NEW u \in Uris, job'[<<u, "serving">>].st = "complete"
      PROVE  job[<<u, "serving">>].st = "complete" /\ src'[u].body = src[u].body
  <2> DEFINE k == <<u, "serving">>
  <2>1. k \in JobKeys /\ k[1] = u /\ k[2] = "serving"
    BY KeyFacts
  <2>2. CASE Installs
    <3>1. PICK v, row, plan : /\ v \in Uris /\ InstallSource(v, row, plan)
                              /\ plan.st \in {"pending", "blocked", "permanent_denied"}
      BY <2>2 DEF Installs
    <3>2. v # u
      BY <1>2, <2>1, <3>1 DEF InstallSource, JobRow
    <3> QED
      BY <1>2, <2>1, <3>1, <3>2 DEF InstallSource, TypeInv, StoreTypeOK
  <2>3. CASE Marks
    <3>1. PICK v \in Uris, row \in Rows, st \in {"blocked", "permanent_denied"} :
             \E dep : HoldsBack(v, row, st, dep)
      BY <2>3 DEF Marks
    <3>2. PICK dep : HoldsBack(v, row, st, dep)
      BY <3>1
    <3>3. job'[k] = IF k[1] = v /\ JobExists(k) THEN JobRow(st, dep, job[k].id) ELSE job[k]
      BY <2>1, <3>2 DEF HoldsBack
    <3>4. job[k].st = "complete"
      BY <1>2, <3>3 DEF JobRow
    <3>5. src'[u].body = src[u].body
      BY <3>2 DEF HoldsBack, TypeInv, StoreTypeOK
    <3> QED
      BY <3>4, <3>5
  <2>4. CASE Takes
    <3>1. PICK w \in Projectors, q \in JobKeys : Take(w, q) /\ UNCHANGED src
      BY <2>4 DEF Takes
    <3>2. job'[k] = IF k = q THEN Claimed(job[q], w, job[q].id) ELSE job[k]
      BY <2>1, <3>1 DEF Take, TypeInv, StoreTypeOK
    <3> QED
      BY <1>2, <3>1, <3>2 DEF Claimed
  <2>5. CASE Fails
    <3>1. job[k].st = "complete"
      BY <1>2, <2>1, <2>5, FailsKeep
    <3>2. UNCHANGED src
      BY <2>5 DEF Fails, FailProjection
    <3> QED
      BY <3>1, <3>2
  <2>6. CASE Lapses
    BY <1>2, <2>1, <2>6 DEF Lapses, Lapse, TypeInv, StoreTypeOK
  <2>7. CASE UNCHANGED <<src, job>>
    BY <1>2, <2>7
  <2> QED
    BY <2>2, <2>3, <2>4, <2>5, <2>6, <2>7
    DEF Rests, Leaves, OpenInstall, OpenProjection, storeVars
<1> QED
  BY <1>1, <1>2 DEF CompletedIsServed

----------------------------------------------------------------------------
(* Rows and events tell the truth about the repository.                    *)

\* Commits are only added.
Grows ==
    /\ Latest \in Nat /\ Latest' \in Nat /\ Latest <= Latest'
    /\ \A n \in 1..Latest : repo'[n] = repo[n]

\* Only the owner writes to the repository, and touches nothing else.
LEMMA OnlyCommitsWrite ==
    ASSUME [Next]_vars
    PROVE  \/ UNCHANGED repo
           \/ UNCHANGED storeVars /\ \E u \in Uris, writes \in BOOLEAN : Commit(u, writes)
  BY DEF vars, repoVars, Next, External, OwnerTransition, RequestRepository, Resync, Consume,
     Deliver, Ingest, Reply, TakeAck, ProjectNext, Project, RepairNext, Repair, Expire,
     ExpireLease, ExpireRepositoryLease, Lapse, LapseRepository, Faulty, Disconnect,
     FailProjection, CrashWorker, InterruptRepair, CrashRepair, OutrunLease,
     OutrunRepositoryLease

\* Every step only adds to the repository.
LEMMA RepositoryGrows ==
    ASSUME TypeInv, [Next]_vars
    PROVE  Grows
<1>1. Latest \in Nat
  BY DEF TypeInv, RepoTypeOK, Latest
<1>2. ASSUME NEW u \in Uris, NEW writes \in BOOLEAN, Commit(u, writes) PROVE Grows
  <2>1. PICK c : repo' = Append(repo, c)
    BY <1>2 DEF Commit
  <2>2. Latest' = Latest + 1
    BY <1>2, CommitType DEF TypeInv
  <2>3. \A n \in 1..Latest : repo'[n] = repo[n]
    BY <2>1, AppendProperties DEF TypeInv, RepoTypeOK, Latest
  <2> QED
    BY <1>1, <2>2, <2>3 DEF Grows
<1>3. CASE UNCHANGED repo
  BY <1>1, <1>3 DEF Grows, Latest
<1> QED
  BY <1>2, <1>3, OnlyCommitsWrite

\* What was there at a revision stays what was there.
LEMMA BodiesStay ==
    ASSUME Grows, NEW u, NEW n \in Nat, n <= Latest
    PROVE  BodyAt(u, n)' = BodyAt(u, n)
  BY DEF Grows, BodyAt

\* What was faithful stays faithful.
LEMMA FaithStays ==
    ASSUME Grows, NEW u, NEW x, x.rev \in Nat, FaithfulTo(u, x)
    PROVE  x.rev <= Latest' /\ x.body = BodyAt(u, x.rev)'
           /\ (x.body = 0 <=> x.act \in {"delete", "none"})
  BY BodiesStay DEF Grows, FaithfulTo

\* A record that is found in the repository is reported truly.
LEMMA FoundIsTrue ==
    ASSUME TypeInv, NEW via \in {"resync", "repair"}, NEW u \in Uris,
           NEW n \in 0..MaxRev, n <= Latest, BodyAt(u, n) # 0
    PROVE  LET ev == FoundEvent(via, u, n) IN
           ev \in Events /\ FaithfulTo(ev.uri, ev) /\ ev.rev > 0
<1>1. n # 0
  BY DEF BodyAt
<1> DEFINE ev == FoundEvent(via, u, n)
<1>2. ev \in Events
  BY FoundEventType DEF TypeInv
<1>3. ev.uri = u /\ ev.rev = n /\ ev.act = "create" /\ ev.body = BodyAt(u, n)
  BY DEF FoundEvent
<1> HIDE DEF ev
<1>4. ev \in Events /\ FaithfulTo(ev.uri, ev) /\ ev.rev > 0
  BY <1>1, <1>2, <1>3 DEF FaithfulTo
<1> QED
  BY <1>4 DEF ev

\* What Tap delivers is true.
LEMMA DeliveriesAreTrue ==
    ASSUME TypeInv, DebtsAreTrue, NEW ev \in Deliverable
    PROVE  ev \in Events /\ FaithfulTo(ev.uri, ev) /\ ev.rev > 0
<1>1. ASSUME NEW d \in resync, ev = FoundEvent("resync", d[1], d[2])
      PROVE  ev \in Events /\ FaithfulTo(ev.uri, ev) /\ ev.rev > 0
  <2>1. d[1] \in Uris /\ d[2] \in 0..MaxRev /\ d[2] <= Latest /\ BodyAt(d[1], d[2]) # 0
    BY DEF TypeInv, RepoTypeOK, DebtsExist, DebtsAreTrue
  <2> QED
    BY <1>1, <2>1, FoundIsTrue
<1>2. CASE cursor < Latest /\ ev = LiveEvent(cursor + 1)
  <2>1. cursor + 1 \in 1..Latest
    BY <1>2 DEF TypeInv, RepoTypeOK, Latest
  <2>2. ev \in Events
    BY <1>2, <2>1, LiveEventType DEF TypeInv
  <2> QED
    BY <1>2, <2>1, <2>2 DEF LiveEvent, FaithfulTo
<1> QED
  BY <1>1, <1>2 DEF Deliverable

\* Every call of the next state runs on an event of this one or starts with a
\* true event.
CallsKept ==
    \A i \in Ingestors :
        \/ ing'[i].phase = "idle"
        \/ ing[i].phase # "idle" /\ ing'[i].ev = ing[i].ev
        \/ ing'[i].ev \in Events /\ FaithfulTo(ing'[i].ev.uri, ing'[i].ev) /\ ing'[i].ev.rev > 0

\* A call keeps its event while it runs.
LEMMA IngestKeepsCalls ==
    ASSUME TypeInv, NEW i \in Ingestors, Ingest(i)
    PROVE  CallsKept
<1>1. ASSUME NEW out, ing[i].phase # "idle", Answer(i, out) PROVE CallsKept
  BY <1>1 DEF Answer, NoIng, CallsKept, TypeInv, CallsAreReady, IngTypeOK
<1>2. CASE OpenInstall(i) \/ (ing[i].phase # "idle" /\ ing' = [ing EXCEPT ![i].phase = "recheck"])
  BY <1>2 DEF OpenInstall, InShared, CallsKept, TypeInv, CallsAreReady, IngTypeOK, Calls
<1> QED
  BY <1>1, <1>2 DEF Ingest, Recognise, RecogniseConflict, RejectWinner, CommitInstall,
     TransitionProfile, InShared, WantsTransition

\* A call starts with an event that is true.
LEMMA BeginKeepsCalls ==
    ASSUME TypeInv, NEW i \in Ingestors, NEW ev \in Events, BeginIngest(i, ev),
           FaithfulTo(ev.uri, ev), ev.rev > 0
    PROVE  CallsKept
<1>1. ing'[i].ev = ev /\ \A j \in Ingestors : j # i => ing'[j] = ing[j]
  BY DEF BeginIngest, NoIng, TypeInv, CallsAreReady, IngTypeOK
<1> QED
  BY <1>1 DEF CallsKept

\* A call that ends is idle.
LEMMA ReleaseKeepsCalls ==
    ASSUME TypeInv, NEW i \in Ingestors, ing' = [ing EXCEPT ![i] = NoIng]
    PROVE  CallsKept
  BY DEF NoIng, CallsKept, TypeInv, CallsAreReady, IngTypeOK

\* Every step keeps calls on true events.
LEMMA NextKeepsCalls ==
    ASSUME TypeInv, TruthInv, [Next]_vars
    PROVE  CallsKept
<1>1. Consumer \in Ingestors /\ RWorkers \subseteq Ingestors
  BY DEF Ingestors
<1>2. CASE UNCHANGED ing
  BY <1>2 DEF CallsKept
<1>3. CASE External \/ Expire \/ (\E w \in Workers : ProjectNext(w)) \/ UNCHANGED vars
  <2>1. UNCHANGED ing
    BY <1>3 DEF External, OwnerTransition, RequestRepository, Expire, ExpireLease, Lapse,
       ExpireRepositoryLease, LapseRepository, ProjectNext, Project, Claim, OpenProjection,
       LoseLease, CommitProjection, vars
  <2> QED
    BY <1>2, <2>1
<1>4. CASE Consume
  <2>1. ASSUME NEW ev \in Deliverable, Deliver(ev) PROVE CallsKept
    BY <1>1, <2>1, DeliveriesAreTrue, BeginKeepsCalls DEF Deliver, TruthInv
  <2> QED
    BY <1>1, <1>4, <2>1, IngestKeepsCalls, ReleaseKeepsCalls DEF Consume, Reply
<1>5. ASSUME NEW w \in RWorkers, RepairNext(w) PROVE CallsKept
  <2>1. ASSUME NEW u \in Uris, StartCreate(w, u) PROVE CallsKept
    <3>1. BodyAt(u, rep[w].snap) # 0
      BY <2>1 DEF StartCreate, Between, Known, TruthInv, CreatesAreTrue
    <3>2. rep[w].snap \in 0..MaxRev /\ rep[w].snap <= Latest
      BY RepairFacts
    <3> QED
      BY <1>1, <2>1, <3>1, <3>2, FoundIsTrue, BeginKeepsCalls DEF StartCreate
  <2>2. CASE FinishCreate(w)
    BY <1>1, <2>2, ReleaseKeepsCalls DEF FinishCreate
  <2>3. CASE Ingest(w)
    BY <1>1, <2>3, IngestKeepsCalls
  <2> QED
    BY <1>2, <1>5, <2>1, <2>2, <2>3
    DEF RepairNext, Repair, ClaimRepository, AddRepo, CompleteRepository, RescheduleRepository,
        Finish, FetchSnapshot, DescribeRepair, StartReconcile, ReconcileSource, StartDrain,
        ClaimSource, ProjectSource, OpenProjection, CommitProjection, LoseLease
<1>6. CASE Faulty
  BY <1>1, <1>2, <1>6, ReleaseKeepsCalls
  DEF Faulty, Disconnect, FailProjection, CrashWorker, InterruptRepair, CrashRepair,
      OutrunLease, Lapse, OutrunRepositoryLease, LapseRepository
<1> QED
  BY <1>3, <1>4, <1>5, <1>6 DEF Next

\* Tap owes only records that are there: a resync reads the head, an ACK pays.
LEMMA DebtsStayTrue ==
    ASSUME TypeInv, TruthInv, [Next]_vars
    PROVE  DebtsAreTrue'
<1>1. Grows
  BY RepositoryGrows
<1>2. CASE resync' \subseteq resync
  BY <1>1, <1>2, BodiesStay DEF TruthInv, DebtsAreTrue, TypeInv, DebtsExist, RepoTypeOK
<1>3. CASE Resync
  <2>1. \A d \in resync' : BodyAt(d[1], d[2]) # 0
    BY <1>3 DEF Resync
  <2>2. UNCHANGED repo
    BY <1>3 DEF Resync
  <2> QED
    BY <2>1, <2>2 DEF DebtsAreTrue, BodyAt
<1>4. resync' \subseteq resync \/ Resync
  <2>1. CASE UNCHANGED repoVars
    BY <2>1 DEF repoVars
  <2>2. CASE \E u \in Uris, writes \in BOOLEAN : Commit(u, writes)
    BY <2>2 DEF Commit
  <2>3. CASE Reply
    BY <2>3 DEF Reply, TakeAck, repoVars
  <2> QED
    BY <2>1, <2>2, <2>3
    DEF vars, Next, External, OwnerTransition, RequestRepository, Consume,
     Deliver, Ingest, ProjectNext, Project, RepairNext, Repair, Expire,
     ExpireLease, ExpireRepositoryLease, Lapse, LapseRepository, Faulty, Disconnect,
     FailProjection, CrashWorker, InterruptRepair, CrashRepair, OutrunLease,
     OutrunRepositoryLease
<1> QED
  BY <1>2, <1>3, <1>4

\* What a step does to the work of a repository worker.  A record leaves the
\* list of what to apply when it is reconciled or when its creation ends.
WorkKept(w) ==
    /\ rep'[w].phase = rep[w].phase /\ rep'[w].kind = rep[w].kind
    /\ rep'[w].snap = rep[w].snap /\ rep'[w].view = rep[w].view
    /\ rep'[w].todo \subseteq rep[w].todo
    /\ rep[w].phase = "apply" =>
          \A u \in rep[w].todo \ rep'[w].todo :
              \/ ReconcileSource(w) /\ u = rep[w].target
              \/ FinishCreate(w) /\ u = ing[w].ev.uri
WorkMoves(w) ==
    \/ rep'[w].phase \in {"idle", "claimed", "failed"}
    \/ FetchSnapshot(w) \/ DescribeRepair(w) \/ StartDrain(w)
    \/ WorkKept(w)

\* A step that leaves the repairs alone leaves their work.
LEMMA NoRepairNoMove ==
    ASSUME UNCHANGED rep, NEW w \in RWorkers
    PROVE  WorkMoves(w)
  BY DEF WorkMoves, WorkKept

\* A step of one worker leaves the work of the others.
LEMMA OthersDoNotMove ==
    ASSUME TypeInv, NEW v \in RWorkers, NEW w \in RWorkers, v # w, NEW r,
           rep' = [rep EXCEPT ![v] = r]
    PROVE  WorkMoves(w)
<1>1. rep'[w] = rep[w]
  BY DEF TypeInv, RepairsAreReady, RepTypeOK
<1> QED
  BY <1>1 DEF WorkMoves, WorkKept

\* A step of the worker itself.
LEMMA OwnRepairMoves ==
    ASSUME TypeInv, NEW w \in RWorkers, Repair(w)
    PROVE  WorkMoves(w) /\ \E r : rep' = [rep EXCEPT ![w] = r]
<1>1. rep[w] \in Repairs /\ rep \in [RWorkers -> Repairs]
  BY RepairFacts
<1>2. \A r : rep' = [rep EXCEPT ![w] = r] => rep'[w] = r
  BY <1>1
<1>3. ASSUME Fail(w) PROVE rep'[w].phase = "failed" /\ \E r : rep' = [rep EXCEPT ![w] = r]
  BY <1>1, <1>3 DEF Fail, NoRep
<1>4. ASSUME UNCHANGED rep PROVE \E r : rep' = [rep EXCEPT ![w] = r]
  BY <1>1, <1>4
<1>5. ASSUME NEW kind \in RepositoryKinds, ClaimRepository(w, kind)
      PROVE  rep'[w].phase = "claimed" /\ \E r : rep' = [rep EXCEPT ![w] = r]
  BY <1>1, <1>5 DEF ClaimRepository, Repairs
<1>6. ASSUME AddRepo(w) \/ CompleteRepository(w) \/ RescheduleRepository(w)
      PROVE  rep'[w].phase = "idle" /\ \E r : rep' = [rep EXCEPT ![w] = r]
  BY <1>1, <1>6 DEF AddRepo, CompleteRepository, RescheduleRepository, Finish, NoRep
<1>7. ASSUME FetchSnapshot(w) \/ DescribeRepair(w) \/ StartDrain(w)
      PROVE  \E r : rep' = [rep EXCEPT ![w] = r]
  BY <1>1, <1>7 DEF FetchSnapshot, DescribeRepair, StartDrain
<1>8. ASSUME NEW u, StartReconcile(w, u)
      PROVE  WorkKept(w) /\ \E r : rep' = [rep EXCEPT ![w] = r]
  BY <1>1, <1>8 DEF StartReconcile, WorkKept, Repairs
<1>9. CASE ReconcileSource(w)
  <2>1. CASE Fail(w)
    BY <1>3, <2>1 DEF WorkMoves
  <2>2. CASE rep' = [rep EXCEPT ![w].target = Owner, ![w].seen = NoLife,
                                ![w].todo = @ \ {Observed(w).uri}]
    <3>1. WorkKept(w)
      BY <1>1, <1>9, <2>2 DEF WorkKept, Repairs, Observed
    <3>2. \E r : rep' = [rep EXCEPT ![w] = r]
      BY <1>1, <2>2
    <3> QED
      BY <3>1, <3>2 DEF WorkMoves
  <2> QED
    BY <1>9, <2>1, <2>2 DEF ReconcileSource
<1>10. CASE FinishCreate(w)
  <2>1. CASE Fail(w)
    BY <1>3, <2>1 DEF WorkMoves
  <2>2. CASE rep' = [rep EXCEPT ![w].todo = @ \ {ing[w].ev.uri}]
    <3>1. WorkKept(w)
      BY <1>1, <1>10, <2>2 DEF WorkKept, Repairs
    <3>2. \E r : rep' = [rep EXCEPT ![w] = r]
      BY <1>1, <2>2
    <3> QED
      BY <3>1, <3>2 DEF WorkMoves
  <2> QED
    BY <1>10, <2>1, <2>2 DEF FinishCreate
<1>11. ASSUME NEW u, ClaimSource(w, u)
       PROVE  WorkMoves(w) /\ \E r : rep' = [rep EXCEPT ![w] = r]
  <2>1. CASE Fail(w)
    BY <1>3, <2>1 DEF WorkMoves
  <2>2. CASE rep' = [rep EXCEPT ![w].todo = @ \ {u}]
    <3>1. WorkKept(w)
      BY <1>1, <1>11, <2>2 DEF WorkKept, Repairs, ClaimSource
    <3>2. \E r : rep' = [rep EXCEPT ![w] = r]
      BY <1>1, <2>2
    <3> QED
      BY <3>1, <3>2 DEF WorkMoves
  <2> QED
    BY <1>11, <2>1, <2>2 DEF ClaimSource
<1>12. CASE ProjectSource(w) \/ \E u \in Uris : StartCreate(w, u)
  BY <1>3, <1>4, <1>12, NoRepairNoMove DEF ProjectSource, StartCreate, WorkMoves
<1> QED
  BY <1>5, <1>6, <1>7, <1>8, <1>9, <1>10, <1>11, <1>12 DEF Repair, WorkMoves

\* What any step of the pipeline does to the work of a repository worker.
LEMMA RepairMoves ==
    ASSUME TypeInv, [Next]_vars, NEW w \in RWorkers
    PROVE  WorkMoves(w)
<1>1. CASE UNCHANGED rep
  BY <1>1, NoRepairNoMove
<1>2. ASSUME NEW v \in RWorkers, Repair(v) PROVE WorkMoves(w)
  BY <1>2, OwnRepairMoves, OthersDoNotMove
<1>3. ASSUME NEW v \in RWorkers, InterruptRepair(v) \/ CrashRepair(v) PROVE WorkMoves(w)
  <2>1. PICK r : rep' = [rep EXCEPT ![v] = r] /\ r.phase \in {"idle", "failed"}
    <3>1. NoRep.phase = "idle" /\ [NoRep EXCEPT !.phase = "failed", !.kind = rep[v].kind].phase = "failed"
      BY DEF NoRep
    <3> QED
      BY <1>3, <3>1 DEF InterruptRepair, CrashRepair, Fail
  <2>2. CASE v = w
    BY <2>1, <2>2 DEF WorkMoves, TypeInv, RepairsAreReady, RepTypeOK
  <2> QED
    BY <2>1, <2>2, OthersDoNotMove
<1> QED
  BY <1>1, <1>2, <1>3
  DEF vars, Next, External, OwnerTransition, RequestRepository, Consume, ProjectNext, RepairNext,
      Expire, ExpireRepositoryLease, LapseRepository, Faulty, OutrunRepositoryLease

\* What a repair means to create is in its snapshot: the comparison leaves out
\* what is absent on both sides.
LEMMA CreatesStayTrue ==
    ASSUME TypeInv, TruthInv, [Next]_vars
    PROVE  CreatesAreTrue'
<1>1. Grows
  BY RepositoryGrows
<1>2. SUFFICES ASSUME NEW w \in RWorkers, rep'[w].phase = "apply",
                      NEW u \in rep'[w].todo, rep'[w].view[u] = NoRow
               PROVE  BodyAt(u, rep[w].snap)' # 0
  BY DEF CreatesAreTrue
<1>3. /\ rep[w].snap \in 0..MaxRev /\ rep[w].snap <= Latest
      /\ rep \in [RWorkers -> Repairs] /\ rep[w] \in Repairs
  BY RepairFacts
<1>4. rep'[w].snap = rep[w].snap /\ BodyAt(u, rep[w].snap) # 0
  <2>1. CASE WorkKept(w)
    BY <1>2, <2>1 DEF WorkKept, TruthInv, CreatesAreTrue
  <2>2. CASE DescribeRepair(w)
    <3>1. /\ rep'[w].snap = rep[w].snap /\ rep'[w].view = src
          /\ rep'[w].todo = {v \in Uris : NeedsRepair(v, rep[w].snap)}
      BY <1>3, <2>2 DEF DescribeRepair, Repairs
    <3>2. NeedsRepair(u, rep[w].snap) /\ src[u] = NoRow
      BY <1>2, <3>1
    <3> QED
      BY <3>1, <3>2 DEF NeedsRepair, Described, NoRow
  <2>3. CASE FetchSnapshot(w) \/ StartDrain(w)
    BY <1>2, <1>3, <2>3 DEF FetchSnapshot, StartDrain, Repairs
  <2> QED
    BY <1>2, <2>1, <2>2, <2>3, RepairMoves DEF WorkMoves
<1>5. PICK n \in Nat : n = rep[w].snap
  BY <1>3
<1>6. BodyAt(u, n)' = BodyAt(u, n)
  BY <1>1, <1>3, <1>5, BodiesStay
<1> QED
  BY <1>4, <1>5, <1>6 DEF BodyAt

\* Every row stays true, whoever installs it.
LEMMA RowsStayTrue ==
    ASSUME TypeInv, TruthInv, RowsInv, OpenExcludesCalls, [Next]_vars
    PROVE  \A u \in Uris : FaithfulTo(u, src[u])'
<1>1. Grows /\ src \in [Uris -> Rows]
  BY RepositoryGrows DEF TypeInv, StoreTypeOK
<1>2. ASSUME NEW u \in Uris, NEW x, x.rev \in Nat, FaithfulTo(u, x),
             src'[u].rev = x.rev, src'[u].body = x.body, src'[u].act = x.act
      PROVE  FaithfulTo(u, src[u])'
  <2>1. x.rev <= Latest' /\ x.body = BodyAt(u, x.rev)'
        /\ (x.body = 0 <=> x.act \in {"delete", "none"})
    BY <1>1, <1>2, FaithStays
  <2> QED
    BY <1>2, <2>1 DEF FaithfulTo, BodyAt
<1>3. \A u \in Uris : src[u].rev \in Nat /\ FaithfulTo(u, src[u])
  BY <1>1 DEF Rows, TruthInv
<1>4. CASE Installs
  <2>1. PICK u \in Uris, row \in Rows : src' = [src EXCEPT ![u] = row] /\ FaithfulTo(u, row)
    BY <1>4 DEF Installs, InstallSource
  <2>2. row.rev \in Nat
    BY DEF Rows
  <2>3. src'[u] = row /\ \A v \in Uris : v # u => src'[v] = src[v]
    BY <1>1, <2>1
  <2> QED
    BY <1>2, <1>3, <2>1, <2>2, <2>3
<1>5. CASE Marks
  <2>1. PICK u \in Uris, row \in Rows, st \in {"blocked", "permanent_denied"} :
           \E dep : HoldsBack(u, row, st, dep)
    BY <1>5 DEF Marks
  <2>2. /\ src' = [src EXCEPT ![u] = row] /\ row.rev = src[u].rev
        /\ row.act = src[u].act /\ row.body = src[u].body
    BY <2>1 DEF HoldsBack
  <2>3. src'[u] = row /\ \A v \in Uris : v # u => src'[v] = src[v]
    BY <1>1, <2>2
  <2> QED
    BY <1>2, <1>3, <2>2, <2>3
<1>6. CASE UNCHANGED src
  BY <1>2, <1>3, <1>6
<1> QED
  BY <1>4, <1>5, <1>6, StepKinds
  DEF Rests, Takes, Leaves, Fails, FailProjection, Lapses, Lapse, OpenInstall, OpenProjection,
      CommitProjection, storeVars

\* Every step keeps the truth.
LEMMA NextKeepsTruth ==
    ASSUME TypeInv, TruthInv, RowsInv, OpenExcludesCalls, [Next]_vars
    PROVE  TruthInv'
<1>1. Grows
  BY RepositoryGrows
<1>2. ASSUME NEW i \in Ingestors, ing'[i].phase # "idle"
      PROVE  FaithfulTo(ing[i].ev.uri, ing[i].ev)' /\ ing'[i].ev.rev > 0
  <2>1. /\ ing'[i].ev \in Events /\ ing'[i].ev.rev > 0
        /\ FaithfulTo(ing'[i].ev.uri, ing'[i].ev)
    BY <1>2, NextKeepsCalls DEF CallsKept, TruthInv, CallsAreTrue, TypeInv, CallsAreReady
  <2>2. PICK x, u : x = ing'[i].ev /\ u = ing'[i].ev.uri
    OBVIOUS
  <2>3. x.rev \in Nat /\ FaithfulTo(u, x)
    BY <2>1, <2>2 DEF Events
  <2>4. /\ x.rev <= Latest' /\ x.body = BodyAt(u, x.rev)'
        /\ (x.body = 0 <=> x.act \in {"delete", "none"})
    BY <1>1, <2>3, FaithStays
  <2> QED
    BY <2>1, <2>2, <2>4 DEF FaithfulTo, BodyAt
<1>3. CallsAreTrue'
  BY <1>2 DEF CallsAreTrue
<1> QED
  BY <1>3, RowsStayTrue, DebtsStayTrue, CreatesStayTrue DEF TruthInv

----------------------------------------------------------------------------
(* The lifecycle and what a row may hold.                                  *)

\* The lifecycle moves under the exclusive fence, to a new generation, and a
\* terminal owner stays terminal.
LifeMoves ==
    /\ ~SharedFence
    /\ life'.gen > life.gen
    /\ life.state = "terminal" => life'.state = "terminal"

\* Nobody else touches the lifecycle.
LEMMA LifeSteps ==
    ASSUME TypeInv, [Next]_vars
    PROVE  life' = life \/ LifeMoves
<1>1. life \in Lives /\ life.gen \in Nat
  BY DEF TypeInv, StoreTypeOK, Lives
<1>2. ASSUME NEW to \in States, OwnerTransition(to) PROVE LifeMoves
  BY <1>1, <1>2, StoreConstants DEF OwnerTransition, LifeMoves, ValidTransitions
<1>3. ASSUME NEW i, NEW ev, BeginIngest(i, ev) PROVE life' = life \/ LifeMoves
  BY <1>1, <1>3 DEF BeginIngest, EnsuredLife, NoLife, LifeMoves
<1>4. ASSUME NEW i, TransitionProfile(i) PROVE life' = life \/ LifeMoves
  BY <1>1, <1>4 DEF TransitionProfile, ProfileTransition, LifeMoves, storeVars
<1>5. ASSUME NEW i, Ingest(i) PROVE life' = life \/ LifeMoves
  BY <1>4, <1>5 DEF Ingest, Recognise, RecogniseConflict, RejectWinner, OpenInstall,
     CommitInstall, storeVars
<1>6. ASSUME NEW w \in RWorkers, ReconcileSource(w) PROVE life' = life \/ LifeMoves
  BY <1>1, <1>6 DEF ReconcileSource, ProfileTransition, LifeMoves
<1>7. ASSUME NEW w \in RWorkers, Repair(w) PROVE life' = life \/ LifeMoves
  BY <1>3, <1>6, <1>7 DEF Repair, ClaimRepository, AddRepo, CompleteRepository,
     RescheduleRepository, Finish, FetchSnapshot, DescribeRepair, StartReconcile, StartCreate,
     FinishCreate, StartDrain, ClaimSource, ProjectSource, OpenProjection, CommitProjection,
     LoseLease, storeVars
<1>8. CASE Consume
  BY <1>3, <1>5, <1>8 DEF Consume, Deliver, Reply, storeVars
<1>9. CASE External
  BY <1>2, <1>9 DEF External, RequestRepository, storeVars
<1> QED
  BY <1>5, <1>7, <1>8, <1>9
  DEF vars, Next, ProjectNext, Project, Claim, OpenProjection, LoseLease, CommitProjection,
      RepairNext, Expire, ExpireLease, Lapse, ExpireRepositoryLease, LapseRepository, Faulty,
      Disconnect, FailProjection, CrashWorker, InterruptRepair, CrashRepair, OutrunLease,
      OutrunRepositoryLease, storeVars

\* Rows stay as they may be.
LEMMA NextKeepsRows ==
    ASSUME TypeInv, TruthInv, RowsInv, JobsInv, OpenExcludesCalls, [Next]_vars
    PROVE  RowsInv'
<1>1. /\ src \in [Uris -> Rows] /\ life.gen \in Nat /\ life'.gen \in Nat /\ life.gen <= life'.gen
      /\ life.state = "terminal" => life'.state = "terminal"
  BY LifeSteps, NextType DEF LifeMoves, TypeInv, StoreTypeOK, Lives
<1>2. ASSUME NEW u \in Uris, src'[u] = src[u]
      PROVE  /\ Exists(u)' => src'[u].ord # "none" /\ src'[u].act # "none"
             /\ src'[u].gen <= life'.gen
             /\ src'[u].disp = "denied_terminal" => life'.state = "terminal"
             /\ src'[u].ord = "uncertain" => src'[u].body # 0
  <2>1. src[u].gen \in Nat
    BY <1>1 DEF Rows
  <2> QED
    BY <1>1, <1>2, <2>1 DEF RowsInv, Exists
<1>3. CASE Installs
  <2>1. PICK u \in Uris, row \in Rows : \E plan :
           /\ src' = [src EXCEPT ![u] = row]
           /\ row.ord = "authoritative" /\ row.act # "none" /\ row.gen = life'.gen
           /\ row.disp = "denied_terminal" => life'.state = "terminal"
    BY <1>3 DEF Installs, InstallSource
  <2>2. src'[u] = row /\ \A v \in Uris : v # u => src'[v] = src[v]
    BY <1>1, <2>1
  <2> QED
    BY <1>1, <1>2, <2>1, <2>2 DEF RowsInv
<1>4. CASE Marks
  <2>1. PICK u \in Uris, row \in Rows, st \in {"blocked", "permanent_denied"} :
           \E dep : HoldsBack(u, row, st, dep)
    BY <1>4 DEF Marks
  <2>2. PICK dep : HoldsBack(u, row, st, dep)
    BY <2>1
  <2>3. src'[u] = row /\ \A v \in Uris : v # u => src'[v] = src[v]
    BY <1>1, <2>2 DEF HoldsBack
  <2>4. Exists(u)
    BY <2>2 DEF HoldsBack, CanMarkConflict, JobsOf, JobsInv
  <2>5. row.ord # "none" /\ row.act # "none" /\ (row.ord = "uncertain" => row.body # 0)
    BY <2>2, <2>4 DEF HoldsBack, RowsInv
  <2>6. row.gen <= life'.gen /\ (row.disp = "denied_terminal" => life'.state = "terminal")
    BY <1>1, <2>2 DEF HoldsBack, Reason, RowsInv
  <2> QED
    BY <1>2, <2>3, <2>5, <2>6 DEF RowsInv
<1>5. CASE UNCHANGED src
  BY <1>2, <1>5 DEF RowsInv
<1> QED
  BY <1>3, <1>4, <1>5, StepKinds
  DEF Rests, Takes, Leaves, Fails, FailProjection, Lapses, Lapse, OpenInstall, OpenProjection,
      CommitProjection, storeVars

----------------------------------------------------------------------------
(* What open projections have decided.                                     *)

\* A decision is warranted by the owner's lifecycle, by the source and by what
\* is served: it shows an authoritative version of an active owner that came
\* under the present generation, removes a profile that was deleted under it,
\* makes notifications of the version being served, refuses with evidence or
\* because the owner is terminal, and waits for the repository only when it
\* asks for a repair.
Warranted(k, res) ==
    LET row == src[k[1]] IN
    /\ res.effect = "serve" =>
          /\ life.state = "active" /\ row.gen = life.gen
          /\ row.ord # "uncertain" /\ row.act # "delete"
    /\ res.effect = "remove" /\ Profile(k[1]) => row.act = "delete" /\ row.gen = life.gen
    /\ res.effect = "alert" =>
          k[1] \in Posts /\ served[k[1]] = row.body /\ row.act # "delete"
    /\ res.kind = "permanent_invalid" => res.evidence \/ life.state = "terminal"
    /\ res.kind = "blocked" /\ res.dep = OnRepository /\ row.act # "delete" =>
          res.repair /\ (row.ord = "uncertain" \/ row.gen # life.gen)
DecisionsAreWarranted ==
    \A w \in Projectors : proj[w].phase = "open" => Warranted(proj[w].key, proj[w].res)

\* The results that decisions are made of.
LEMMA ResultFacts ==
    /\ \A effect : /\ Applied(effect).kind = "applied" /\ Applied(effect).effect = effect
                   /\ RefusedMalformed(effect).kind = "permanent_invalid"
                   /\ RefusedMalformed(effect).effect = effect
                   /\ RefusedMalformed(effect).evidence = TRUE
    /\ \A dep : /\ Blocked(dep).kind = "blocked" /\ Blocked(dep).dep = dep
                /\ Blocked(dep).effect = "none"
                /\ [Blocked(dep) EXCEPT !.effect = "remove"].kind = "blocked"
                /\ [Blocked(dep) EXCEPT !.effect = "remove"].dep = dep
                /\ [Blocked(dep) EXCEPT !.effect = "remove"].effect = "remove"
                /\ [Blocked(dep) EXCEPT !.repair = TRUE].kind = "blocked"
                /\ [Blocked(dep) EXCEPT !.repair = TRUE].dep = dep
                /\ [Blocked(dep) EXCEPT !.repair = TRUE].effect = "none"
                /\ [Blocked(dep) EXCEPT !.repair = TRUE].repair = TRUE
    /\ Refused.kind = "permanent_invalid" /\ Refused.effect = "none"
    /\ \A u : OnSubject(u) # OnRepository
    /\ OnMember # OnRepository
  BY DEF Applied, RefusedMalformed, Blocked, Refused, Result, OnSubject, OnMember, OnRepository

\* A projector shows, removes, alerts or waits as its record is there, as the
\* owner is a member and as the version is the one being served.
LEMMA ProjectorFacts ==
    ASSUME NEW k \in JobKeys, NEW act
    PROVE  /\ LET res == ServingProjector(k[1], act) IN
              /\ res.kind \in {"applied", "blocked"} /\ res.effect # "alert"
              /\ res.kind = "blocked" => res.dep # OnRepository
              /\ res.effect = "serve" => act # "delete"
              /\ res.effect = "serve" => Profile(k[1]) \/ Member
              /\ res.effect = "remove" /\ Profile(k[1]) => act = "delete"
           /\ k[2] = "notify" =>
              LET res == NotificationProjector(k[1], act) IN
              /\ res.kind \in {"applied", "blocked"}
              /\ res.kind = "blocked" => res.dep # OnRepository
              /\ res.effect \notin {"serve", "remove"}
              /\ res.effect = "alert" => act # "delete" /\ served[k[1]] = src[k[1]].body
<1>1. k[2] = "notify" => k[1] \in Posts
  BY KeyFacts
<1>2. LET res == ServingProjector(k[1], act) IN
      /\ res.kind \in {"applied", "blocked"} /\ res.effect # "alert"
      /\ res.kind = "blocked" => res.dep # OnRepository
      /\ res.effect = "serve" => act # "delete"
      /\ res.effect = "serve" => Profile(k[1]) \/ Member
      /\ res.effect = "remove" /\ Profile(k[1]) => act = "delete"
  <2>1. \/ act = "delete" /\ ServingProjector(k[1], act) = Applied("remove")
        \/ /\ act # "delete" /\ (Profile(k[1]) \/ Member)
           /\ ServingProjector(k[1], act) = Applied("serve")
        \/ ~Profile(k[1]) /\ ServingProjector(k[1], act) = Blocked(OnMember)
        \/ ~Profile(k[1]) /\ \E u : ServingProjector(k[1], act) =
                                      [Blocked(OnSubject(u)) EXCEPT !.effect = "remove"]
    BY DEF ServingProjector
  <2>2. CASE act = "delete" /\ ServingProjector(k[1], act) = Applied("remove")
    BY <2>2, ResultFacts
  <2>3. CASE /\ act # "delete" /\ (Profile(k[1]) \/ Member)
             /\ ServingProjector(k[1], act) = Applied("serve")
    BY <2>3, ResultFacts
  <2>4. CASE ~Profile(k[1]) /\ ServingProjector(k[1], act) = Blocked(OnMember)
    BY <2>4, ResultFacts
  <2>5. CASE ~Profile(k[1]) /\ \E u : ServingProjector(k[1], act) =
                                        [Blocked(OnSubject(u)) EXCEPT !.effect = "remove"]
    <3>1. PICK u : ServingProjector(k[1], act) = [Blocked(OnSubject(u)) EXCEPT !.effect = "remove"]
      BY <2>5
    <3> QED
      BY <2>5, <3>1, ResultFacts
  <2> QED
    BY <2>1, <2>2, <2>3, <2>4, <2>5
<1>3. ASSUME k[2] = "notify"
      PROVE  LET res == NotificationProjector(k[1], act) IN
             /\ res.kind \in {"applied", "blocked"}
             /\ res.kind = "blocked" => res.dep # OnRepository
             /\ res.effect \notin {"serve", "remove"}
             /\ res.effect = "alert" => act # "delete" /\ served[k[1]] = src[k[1]].body
  <2>1. \/ act = "delete" /\ NotificationProjector(k[1], act) = Applied("retract")
        \/ NotificationProjector(k[1], act) = Blocked(OnSubject(k[1]))
        \/ /\ act # "delete" /\ served[k[1]] = src[k[1]].body
           /\ NotificationProjector(k[1], act) = Applied("alert")
    BY DEF NotificationProjector
  <2> QED
    BY <2>1, ResultFacts
<1> QED
  BY <1>2, <1>3

\* Every decision is warranted when it is made.
LEMMA DecideWarranted ==
    ASSUME RowsInv, NEW k \in JobKeys
    PROVE  Warranted(k, Decide(k)) /\ (Decide(k).effect = "serve" => Profile(k[1]) \/ Member)
<1> DEFINE u == k[1]
           row == src[u]
           bad == IsMalformed(row.act, row.body)
           act == IF bad THEN "delete" ELSE row.act
           res == IF k[2] = "serving" THEN ServingProjector(u, act)
                  ELSE NotificationProjector(u, act)
<1>1. u \in Uris /\ k[2] \in {"serving", "notify"} /\ (k[2] = "notify" => u \in Posts)
  BY KeyFacts
<1>2. CASE Eligibility(row).kind # "applied"
  <2>1. Decide(k) = Eligibility(row)
    BY <1>2 DEF Decide
  <2>2. \/ Eligibility(row) = Blocked(OnMember)
        \/ Eligibility(row) = Refused /\ (life.state = "terminal" \/ row.disp = "denied_terminal")
        \/ /\ Eligibility(row) = [Blocked(OnRepository) EXCEPT !.repair = TRUE]
           /\ row.gen # life.gen \/ row.ord = "uncertain"
    BY <1>2, ResultFacts DEF Eligibility
  <2>3. CASE Eligibility(row) = Blocked(OnMember)
    <3>1. /\ Decide(k).kind = "blocked" /\ Decide(k).dep # OnRepository
          /\ Decide(k).effect = "none"
      BY <2>1, <2>3, ResultFacts
    <3> QED
      BY <3>1 DEF Warranted
  <2>4. CASE Eligibility(row) = Refused /\ (life.state = "terminal" \/ row.disp = "denied_terminal")
    <3>1. Decide(k).kind = "permanent_invalid" /\ Decide(k).effect = "none"
      BY <2>1, <2>4, ResultFacts
    <3>2. life.state = "terminal"
      BY <1>1, <2>4 DEF RowsInv
    <3> QED
      BY <3>1, <3>2 DEF Warranted
  <2>5. CASE /\ Eligibility(row) = [Blocked(OnRepository) EXCEPT !.repair = TRUE]
             /\ row.gen # life.gen \/ row.ord = "uncertain"
    <3>1. /\ Decide(k).kind = "blocked" /\ Decide(k).effect = "none"
          /\ Decide(k).repair = TRUE
      BY <2>1, <2>5, ResultFacts
    <3> QED
      BY <2>5, <3>1 DEF Warranted
  <2> QED
    BY <2>2, <2>3, <2>4, <2>5
<1>3. CASE Eligibility(row).kind = "applied"
  <2>1. row.act # "delete" =>
           life.state = "active" /\ row.gen = life.gen /\ row.ord # "uncertain"
    BY <1>3, ResultFacts DEF Eligibility
  <2>2. Decide(k) = Dispatch(k)
    BY <1>3 DEF Decide
  <2>3. Dispatch(k) = IF bad /\ Profile(u) THEN RefusedMalformed("none")
                      ELSE IF row.gen # life.gen THEN Blocked(OnRepository)
                      ELSE IF bad THEN RefusedMalformed(res.effect) ELSE res
    BY DEF Dispatch
  <2>4. bad => row.act # "delete"
    BY DEF IsMalformed
  <2>5. /\ res.kind \in {"applied", "blocked"}
        /\ res.kind = "blocked" => res.dep # OnRepository
        /\ res.effect = "serve" => act # "delete" /\ (Profile(u) \/ Member)
        /\ res.effect = "remove" /\ Profile(u) => act = "delete"
        /\ res.effect = "alert" => u \in Posts /\ act # "delete" /\ served[u] = row.body
    BY <1>1, ProjectorFacts
  <2> HIDE DEF res
  <2>6. CASE bad
    <3>1. \/ Decide(k) = RefusedMalformed("none")
          \/ ~Profile(u) /\ \E effect : /\ Decide(k) = RefusedMalformed(effect)
                                        /\ effect \notin {"serve", "alert"}
      BY <2>1, <2>2, <2>3, <2>4, <2>5, <2>6
    <3> QED
      BY <3>1, ResultFacts DEF Warranted
  <2>7. CASE ~bad /\ row.gen # life.gen
    <3>1. Decide(k) = Blocked(OnRepository) /\ row.act = "delete"
      BY <2>1, <2>2, <2>3, <2>7
    <3> QED
      BY <3>1, ResultFacts DEF Warranted
  <2>8. CASE ~bad /\ row.gen = life.gen
    <3>1. Decide(k) = res /\ act = row.act
      BY <2>2, <2>3, <2>8
    <3> QED
      BY <2>1, <2>5, <2>8, <3>1 DEF Warranted
  <2> QED
    BY <2>6, <2>7, <2>8
<1> QED
  BY <1>2, <1>3

\* The lifecycle does not move while a projection is open.
LEMMA OpenHoldsLife ==
    ASSUME TypeInv, [Next]_vars, NEW w \in Projectors, proj[w].phase = "open"
    PROVE  life' = life
  BY LifeSteps DEF LifeMoves, SharedFence

\* A warrant lasts while the projection is open: the owner fence holds the
\* lifecycle, the row lock the source and what is served of the record.
LEMMA WarrantsKept ==
    ASSUME TypeInv, [Next]_vars, DecisionsAreWarranted, OpenKept,
           \A v \in Projectors : proj'[v].phase = "open" =>
               served'[proj[v].key[1]] = served[proj[v].key[1]]
    PROVE  DecisionsAreWarranted'
<1>1. ASSUME NEW v \in Projectors, proj'[v].phase = "open"
      PROVE  Warranted(proj[v].key, proj[v].res)'
  <2>1. proj'[v] = proj[v] /\ Warranted(proj[v].key, proj[v].res) /\ life' = life
    BY <1>1, OpenHoldsLife DEF OpenKept, DecisionsAreWarranted
  <2>2. /\ src'[proj[v].key[1]] = src[proj[v].key[1]]
        /\ served'[proj[v].key[1]] = served[proj[v].key[1]]
    BY <1>1 DEF OpenKept
  <2> QED
    BY <2>1, <2>2 DEF Warranted
<1> QED
  BY <1>1 DEF DecisionsAreWarranted

\* A projection that opens decides with a warrant.
LEMMA OpenProjectionWarrants ==
    ASSUME TypeInv, [Next]_vars, RowsInv, DecisionsAreWarranted,
           NEW w \in Projectors, OpenProjection(w)
    PROVE  DecisionsAreWarranted'
<1>1. /\ UNCHANGED <<life, src, served>>
      /\ proj[w].key \in JobKeys
      /\ proj'[w].key = proj[w].key /\ proj'[w].res = Decide(proj[w].key)
      /\ \A v \in Projectors : v # w => proj'[v] = proj[v]
  BY DEF OpenProjection, storeVars, TypeInv, ClaimsAreReady, ProjTypeOK, Claims
<1>2. Warranted(proj[w].key, Decide(proj[w].key))
  BY <1>1, DecideWarranted
<1>3. \A k, res : Warranted(k, res) => Warranted(k, res)'
  BY <1>1 DEF Warranted
<1>4. ASSUME NEW v \in Projectors, proj'[v].phase = "open"
      PROVE  \E k, res : proj'[v].key = k /\ proj'[v].res = res /\ Warranted(k, res)
  <2>1. CASE v = w
    BY <1>1, <1>2, <2>1
  <2>2. CASE v # w
    BY <1>1, <1>4, <2>2 DEF DecisionsAreWarranted
  <2> QED
    BY <2>1, <2>2
<1>5. ASSUME NEW v \in Projectors, proj'[v].phase = "open"
      PROVE  Warranted(proj[v].key, proj[v].res)'
  <2>1. PICK k, res : proj'[v].key = k /\ proj'[v].res = res /\ Warranted(k, res)
    BY <1>4, <1>5
  <2>2. Warranted(k, res)'
    BY <1>3, <2>1
  <2> QED
    BY <2>1, <2>2 DEF Warranted
<1> QED
  BY <1>5 DEF DecisionsAreWarranted

\* The end of a projection changes what is served of its own record only.
LEMMA CommitServesOwn ==
    ASSUME TypeInv, NEW w \in Projectors, CommitProjection(w)
    PROVE  /\ proj[w].key \in JobKeys /\ proj[w].key[1] \in Uris
           /\ \A u \in Uris : u # proj[w].key[1] => served'[u] = served[u]
           /\ LET u == proj[w].key[1] IN
              served'[u] = CASE proj[w].res.effect = "serve" -> src[u].body
                             [] proj[w].res.effect = "remove" -> 0
                             [] OTHER -> served[u]
<1>1. proj[w].key \in JobKeys /\ proj[w].key[1] \in Uris
  BY KeyFacts DEF CommitProjection, TypeInv, ClaimsAreReady
<1> QED
  BY <1>1 DEF CommitProjection, Served, TypeInv, StoreTypeOK

\* Others that are open keep their warrant when a projection ends.
LEMMA CommitWarrants ==
    ASSUME TypeInv, [Next]_vars, DecisionsAreWarranted, ProjectionIsExclusive,
           NEW w \in Projectors, CommitProjection(w)
    PROVE  DecisionsAreWarranted'
<1>1. OpenKept
  BY CommitsExclusive
<1>2. ASSUME NEW v \in Projectors, proj'[v].phase = "open"
      PROVE  served'[proj[v].key[1]] = served[proj[v].key[1]]
  <2>1. v # w /\ proj[v].phase = "open"
    BY <1>2 DEF CommitProjection, NoProj, TypeInv, ClaimsAreReady, ProjTypeOK
  <2>2. proj[v].key[1] # proj[w].key[1] /\ proj[v].key[1] \in Uris
    BY <2>1, KeyFacts DEF CommitProjection, ProjectionIsExclusive, TypeInv, ClaimsAreReady
  <2> QED
    BY <2>2, CommitServesOwn
<1> QED
  BY <1>1, <1>2, WarrantsKept

----------------------------------------------------------------------------
(* Alerts and refusals.                                                    *)

\* Steps that neither install, hold back nor end a projection settle no job.
LEMMA OtherStepsSettleNothing ==
    ASSUME TypeInv,
           \/ Rests \/ Takes \/ Leaves \/ Fails \/ Lapses
           \/ \E i \in Ingestors : OpenInstall(i)
           \/ \E w \in Projectors : OpenProjection(w)
    PROVE  /\ UNCHANGED <<src, served, alerts, quarantined>>
           /\ \A k \in JobKeys :
                 job'[k].st \in {"pending", "processing"} \/ job'[k] = job[k]
<1>1. UNCHANGED <<src, served, alerts, quarantined>>
  BY DEF Rests, Takes, Leaves, Fails, FailProjection, Lapses, Lapse, OpenInstall,
         OpenProjection, storeVars
<1>2. CASE Takes
  <2>1. PICK w \in Projectors, q \in JobKeys : Take(w, q)
    BY <1>2 DEF Takes
  <2>2. \A k \in JobKeys : job'[k] = IF k = q THEN Claimed(job[q], w, job[q].id) ELSE job[k]
    BY <2>1 DEF Take, TypeInv, StoreTypeOK
  <2> QED
    BY <1>1, <2>2 DEF Claimed
<1>3. CASE Fails
  <2>1. PICK w \in Workers : FailProjection(w)
    BY <1>3 DEF Fails
  <2> DEFINE q == proj[w].key
             back == JobRow("pending", NoDep, job[q].id)
  <2>2. job' = job \/ job' = [job EXCEPT ![q] = back]
    BY <2>1 DEF FailProjection
  <2>3. back.st = "pending" /\ job \in [JobKeys -> Jobs]
    BY DEF JobRow, TypeInv, StoreTypeOK
  <2> HIDE DEF q, back
  <2> QED
    BY <1>1, <2>2, <2>3
<1>4. CASE Lapses
  <2>1. PICK q \in JobKeys : Lapse(q)
    BY <1>4 DEF Lapses
  <2>2. \A k \in JobKeys : job'[k] = IF k = q THEN [job[q] EXCEPT !.live = FALSE] ELSE job[k]
    BY <2>1 DEF Lapse, TypeInv, StoreTypeOK
  <2>3. job'[q].st = job[q].st /\ job[q].st = "processing"
    BY <2>1, <2>2 DEF Lapse, TypeInv, StoreTypeOK, Jobs
  <2> QED
    BY <1>1, <2>2, <2>3
<1>5. CASE UNCHANGED job
  BY <1>1, <1>5
<1> QED
  BY <1>2, <1>3, <1>4, <1>5 DEF Rests, Leaves, OpenInstall, OpenProjection, storeVars

\* What a projection shows has a body, and what it makes alerts for is shown.
LEMMA ShownHasBody ==
    ASSUME TypeInv, TruthInv, RowsInv, JobsInv, DecisionsAreWarranted,
           NEW w \in Projectors, proj[w].phase = "open",
           proj[w].res.effect \in {"serve", "alert"}
    PROVE  src[proj[w].key[1]].body # 0 /\ Exists(proj[w].key[1])
<1> DEFINE u == proj[w].key[1]
<1>1. proj[w].key \in JobKeys /\ u \in Uris /\ Exists(u)
  BY KeyFacts DEF JobsInv, ClaimsHaveJobs, TypeInv, ClaimsAreReady
<1>2. src[u].act # "delete"
  BY DEF DecisionsAreWarranted, Warranted
<1> QED
  BY <1>1, <1>2 DEF RowsInv, TruthInv, FaithfulTo

\* Alerts keep following what is served.
LEMMA CommitAlerts ==
    ASSUME TypeInv, TruthInv, RowsInv, JobsInv, DecisionsAreWarranted, AlertsFollowServed,
           NEW w \in Projectors, CommitProjection(w)
    PROVE  AlertsFollowServed'
<1> DEFINE q == proj[w].key
           res == proj[w].res
<1>1. /\ proj[w].phase = "open" /\ q[1] \in Uris /\ Posts \subseteq Uris
      /\ alerts' = Alerted(q[1], res.effect)
      /\ alerts \in [Uris -> BOOLEAN]
      /\ Warranted(q, res)
  BY CommitServesOwn DEF CommitProjection, DecisionsAreWarranted, TypeInv, StoreTypeOK, Posts
<1>2. SUFFICES ASSUME NEW u \in Posts, alerts'[u] PROVE served'[u] # 0
  BY DEF AlertsFollowServed
<1>3. CASE u # q[1]
  <2>1. served'[u] = served[u]
    BY <1>1, <1>3, CommitServesOwn
  <2>2. alerts'[u] => alerts[u]
    BY <1>1, <1>3 DEF Alerted
  <2> QED
    BY <1>2, <2>1, <2>2 DEF AlertsFollowServed
<1>4. CASE u = q[1]
  <2>1. CASE res.effect = "alert"
    <3>1. served[u] = src[u].body /\ src[u].body # 0
      BY <1>1, <1>4, <2>1, ShownHasBody DEF Warranted
    <3> QED
      BY <1>4, <2>1, <3>1, CommitServesOwn
  <2>2. CASE res.effect = "serve"
    <3>1. src[u].body # 0
      BY <1>1, <1>4, <2>2, ShownHasBody
    <3> QED
      BY <1>4, <2>2, <3>1, CommitServesOwn
  <2>3. CASE res.effect \in {"remove", "retract"}
    BY <1>1, <1>2, <1>4, <2>3 DEF Alerted
  <2>4. CASE res.effect \notin {"alert", "serve", "remove", "retract"}
    <3>1. served'[u] = served[u]
      BY <1>4, <2>4, CommitServesOwn
    <3>2. alerts'[u] = alerts[u]
      BY <1>1, <2>4 DEF Alerted
    <3> QED
      BY <1>2, <3>1, <3>2 DEF AlertsFollowServed
  <2> QED
    BY <2>1, <2>2, <2>3, <2>4
<1> QED
  BY <1>3, <1>4

\* A projection refuses with evidence or because the owner is terminal.
LEMMA CommitRefuses ==
    ASSUME TypeInv, [Next]_vars, DecisionsAreWarranted, RefusalLeavesEvidence,
           NEW w \in Projectors, CommitProjection(w)
    PROVE  RefusalLeavesEvidence'
<1> DEFINE q == proj[w].key
           res == proj[w].res
<1>1. /\ proj[w].phase = "open" /\ q \in JobKeys /\ UNCHANGED <<life, src>>
      /\ Warranted(q, res) /\ quarantined \subseteq quarantined'
      /\ res.evidence => [uri |-> q[1], id |-> src[q[1]].id] \in quarantined'
  BY CommitServesOwn DEF CommitProjection, DecisionsAreWarranted
<1>2. SUFFICES ASSUME NEW u \in Uris, job'[<<u, "serving">>].st = "permanent_denied"
               PROVE  \/ life'.state = "terminal"
                      \/ [uri |-> u, id |-> src'[u].id] \in quarantined'
  BY DEF RefusalLeavesEvidence
<1>3. <<u, "serving">> \in JobKeys
  BY KeyFacts
<1>4. CASE <<u, "serving">> = q /\ FinalState(res.kind) = "permanent_denied"
  <2>1. res.kind = "permanent_invalid"
    <3>1. res.kind \in {"applied", "blocked", "permanent_invalid"}
      BY DEF TypeInv, ClaimsAreReady, ProjTypeOK, Claims, Results
    <3> QED
      BY <1>4, <3>1 DEF FinalState
  <2> QED
    BY <1>1, <1>4, <2>1 DEF Warranted
<1>5. CASE job[<<u, "serving">>].st = "permanent_denied"
  BY <1>1, <1>5 DEF RefusalLeavesEvidence
<1> QED
  BY <1>2, <1>3, <1>4, <1>5, CommitSettles

\* The other steps refuse only what a terminal owner has, and keep the evidence
\* with the version it is about.
LEMMA StoreStepsRefuse ==
    ASSUME TypeInv, [Next]_vars, RefusalLeavesEvidence,
           \/ Rests \/ Installs \/ Marks \/ Takes \/ Leaves \/ Fails \/ Lapses
           \/ \E i \in Ingestors : OpenInstall(i)
           \/ \E w \in Projectors : OpenProjection(w)
    PROVE  RefusalLeavesEvidence' /\ (AlertsFollowServed => AlertsFollowServed')
<1>1. UNCHANGED <<served, alerts, quarantined>>
  BY OtherStepsSettleNothing DEF Installs, Marks, HoldsBack
<1>2. life.state = "terminal" => life'.state = "terminal"
  BY LifeSteps DEF LifeMoves
<1>3. src \in [Uris -> Rows]
  BY DEF TypeInv, StoreTypeOK
<1>4. SUFFICES ASSUME NEW u \in Uris, job'[<<u, "serving">>].st = "permanent_denied"
               PROVE  \/ life'.state = "terminal"
                      \/ [uri |-> u, id |-> src'[u].id] \in quarantined'
  BY <1>1 DEF RefusalLeavesEvidence, AlertsFollowServed
<1> DEFINE k == <<u, "serving">>
<1>5. k \in JobKeys /\ k[1] = u /\ k[2] = "serving"
  BY KeyFacts
<1>6. ASSUME job[k] = job'[k], src'[u].id = src[u].id
      PROVE  \/ life'.state = "terminal"
             \/ [uri |-> u, id |-> src'[u].id] \in quarantined'
  BY <1>1, <1>2, <1>4, <1>6 DEF RefusalLeavesEvidence
<1>7. CASE Installs
  <2>1. PICK v \in Uris, row \in Rows : \E plan :
           /\ InstallSource(v, row, plan)
           /\ plan.st = "permanent_denied" \/ row.disp = "denied_terminal"
                 => life'.state = "terminal"
    BY <1>7 DEF Installs
  <2>2. PICK plan : /\ InstallSource(v, row, plan)
                    /\ plan.st = "permanent_denied" => life'.state = "terminal"
    BY <2>1
  <2>3. CASE v = u
    <3>1. job'[k] = JobRow(plan.st, plan.dep, row.id)
      BY <1>5, <2>2, <2>3 DEF InstallSource
    <3> QED
      BY <1>4, <2>2, <3>1 DEF JobRow
  <2>4. CASE v # u
    BY <1>3, <1>5, <1>6, <2>2, <2>4 DEF InstallSource
  <2> QED
    BY <2>3, <2>4
<1>8. CASE Marks
  <2>1. PICK v \in Uris, row \in Rows, st \in {"blocked", "permanent_denied"} :
           \E dep : HoldsBack(v, row, st, dep)
    BY <1>8 DEF Marks
  <2>2. PICK dep : HoldsBack(v, row, st, dep)
    BY <2>1
  <2>3. src'[u].id = src[u].id
    BY <1>3, <2>2 DEF HoldsBack
  <2>4. job'[k] = job[k] \/ job'[k].st = st
    BY <1>5, <2>2 DEF HoldsBack, JobRow
  <2>5. st = "permanent_denied" => life.state = "terminal"
    BY <2>2 DEF HoldsBack, Reason
  <2> QED
    BY <1>2, <1>4, <1>6, <2>3, <2>4, <2>5
<1> QED
  BY <1>4, <1>5, <1>6, <1>7, <1>8, OtherStepsSettleNothing

----------------------------------------------------------------------------
(* The theorems.                                                           *)

\* The inductive invariant.
SafetyInv ==
    /\ TypeInv /\ TruthInv /\ RowsInv /\ JobsInv
    /\ ProjectionIsExclusive /\ EffectsFit /\ DecisionsAreWarranted
    /\ CompletedIsServed /\ AlertsFollowServed /\ RefusalLeavesEvidence

\* The empty database satisfies the inductive invariant.
LEMMA SafetyInit == Init => SafetyInv
<1> SUFFICES ASSUME Init PROVE SafetyInv
  OBVIOUS
<1>1. TypeInv
  BY InitType
<1>2. \A w \in Projectors : proj[w].phase = "idle"
  BY DEF Init, ProjInit, NoProj
<1>3. \A u \in Uris : src[u] = NoRow /\ served[u] = 0
  BY DEF Init, StoreInit
<1>4. \A k \in JobKeys : job[k].st = "none"
  BY DEF Init, StoreInit, NoJob, JobRow
<1>5. JobsInv
  BY <1>2, <1>3, <1>4 DEF JobsInv, ClaimsHaveJobs, Exists, JobExists
<1>6. ProjectionIsExclusive /\ EffectsFit /\ DecisionsAreWarranted
  BY <1>2 DEF ProjectionIsExclusive, EffectsFit, DecisionsAreWarranted
<1>7. TruthInv
  <2>1. \A u \in Uris : FaithfulTo(u, src[u])
    <3>1. 0 <= Latest
      BY <1>1 DEF TypeInv, RepoTypeOK, Latest
    <3>2. NoRow.rev = 0 /\ NoRow.body = 0 /\ NoRow.act = "none" /\ \A u : BodyAt(u, 0) = 0
      BY DEF NoRow, BodyAt
    <3>3. \A u : FaithfulTo(u, NoRow)
      BY <3>1, <3>2 DEF FaithfulTo
    <3> QED
      BY <1>3, <3>3
  <2>2. CallsAreTrue /\ DebtsAreTrue /\ CreatesAreTrue
    BY DEF Init, IngInit, RepoInit, RepInit, NoIng, NoRep, CallsAreTrue, DebtsAreTrue,
       CreatesAreTrue
  <2> QED
    BY <2>1, <2>2 DEF TruthInv
<1>8. RowsInv
  <2>1. life.gen = 0 /\ NoRow.gen = 0 /\ NoRow.disp = "none" /\ NoRow.ord = "none"
    BY DEF NoRow, Init, StoreInit, NoLife
  <2>2. /\ NoRow.gen <= life.gen
        /\ NoRow.disp # "denied_terminal" /\ NoRow.ord # "uncertain"
    BY <2>1
  <2> QED
    BY <1>3, <2>2 DEF RowsInv, Exists
<1>9. CompletedIsServed /\ RefusalLeavesEvidence
  BY <1>4, KeyFacts DEF CompletedIsServed, RefusalLeavesEvidence
<1>10. AlertsFollowServed
  BY DEF AlertsFollowServed, Posts, Init, StoreInit
<1> QED
  BY <1>1, <1>5, <1>6, <1>7, <1>8, <1>9, <1>10 DEF SafetyInv

\* Every step preserves the inductive invariant, one case per kind of step.
LEMMA SafetyNext == SafetyInv /\ [Next]_vars => SafetyInv'
<1> SUFFICES ASSUME SafetyInv, [Next]_vars PROVE SafetyInv'
  OBVIOUS
<1>1. /\ TypeInv /\ TruthInv /\ RowsInv /\ JobsInv /\ ProjectionIsExclusive
      /\ EffectsFit /\ DecisionsAreWarranted
      /\ CompletedIsServed /\ AlertsFollowServed /\ RefusalLeavesEvidence
  BY DEF SafetyInv
<1>2. OpenExcludesCalls
  BY <1>1 DEF ProjectionIsExclusive, OpenExcludesCalls
<1>3. TypeInv' /\ TruthInv' /\ RowsInv'
  BY <1>1, <1>2, NextType, NextKeepsTruth, NextKeepsRows
<1>4. ASSUME UNCHANGED served, OpenKept PROVE DecisionsAreWarranted'
  BY <1>1, <1>4, WarrantsKept
<1>5. CASE Installs
  <2>1. UNCHANGED served
    BY <1>5 DEF Installs
  <2> QED
    BY <1>1, <1>3, <1>4, <1>5, <2>1, InstallsJobs, InstallsExclusive, EffectsFitKept,
       StoreStepsServe, StoreStepsRefuse DEF SafetyInv
<1>6. CASE Marks
  <2>1. UNCHANGED served
    BY <1>6 DEF Marks, HoldsBack
  <2> QED
    BY <1>1, <1>3, <1>4, <1>6, <2>1, MarksJobs, MarksExclusive, EffectsFitKept,
       StoreStepsServe, StoreStepsRefuse DEF SafetyInv
<1>7. CASE Takes
  <2>1. UNCHANGED served
    BY <1>7 DEF Takes
  <2> QED
    BY <1>1, <1>3, <1>4, <1>7, <2>1, TakesJobs, TakesExclusive, EffectsFitKept,
       StoreStepsServe, StoreStepsRefuse DEF SafetyInv
<1>8. CASE \E w \in Projectors : OpenProjection(w)
  BY <1>1, <1>3, <1>8, OtherStepsJobs, OpenProjectionExclusive, OpenProjectionFits,
     OpenProjectionWarrants, StoreStepsServe, StoreStepsRefuse DEF SafetyInv
<1>9. CASE \E w \in Projectors : CommitProjection(w)
  BY <1>1, <1>3, <1>9, CommitsJobs, CommitsExclusive, EffectsFitKept, CommitServes,
     CommitWarrants, CommitAlerts, CommitRefuses DEF SafetyInv
<1>10. CASE \E i \in Ingestors : OpenInstall(i)
  <2>1. UNCHANGED served
    BY <1>10 DEF OpenInstall, storeVars
  <2> QED
    BY <1>1, <1>3, <1>4, <1>10, <2>1, OtherStepsJobs, OpenInstallExclusive, EffectsFitKept,
       StoreStepsServe, StoreStepsRefuse DEF SafetyInv
<1>11. CASE Rests \/ Leaves \/ Fails \/ Lapses
  <2>1. UNCHANGED served
    BY <1>1, <1>11, OtherStepsSettleNothing
  <2> QED
    BY <1>1, <1>3, <1>4, <1>11, <2>1, OtherStepsJobs, OtherStepsExclusive, EffectsFitKept,
       StoreStepsServe, StoreStepsRefuse DEF SafetyInv
<1> QED
  BY <1>1, <1>2, <1>5, <1>6, <1>7, <1>8, <1>9, <1>10, <1>11, StepKinds

\* The inductive invariant of the pipeline: rows and events agree with the
\* repository, jobs with rows, open projections with both, and what projections
\* leave behind with what they decided.
THEOREM Safety == Spec => []SafetyInv
  BY SafetyInit, SafetyNext, PTL DEF Spec

\* Every retained record has its serving job and no job is about a version other
\* than the retained one, whatever ingestion, repair and projection do to them
\* (installSourceProjectionTx, resetPostNotificationJob, Store.project).
THEOREM JobsFollow == Spec => []JobsFollowSource
<1>1. SafetyInv => JobsFollowSource
  BY KeyFacts DEF SafetyInv, JobsInv, JobsFollowSource
<1> QED
  BY <1>1, Safety, PTL

\* At most one projection of a record is inside its transaction, it works on the
\* retained version under its own lease, and no ingestion holds the row, for any
\* number of workers and repairs and however leases expire (Store.project).
THEOREM Exclusion == Spec => []ProjectionIsExclusive
  BY Safety, PTL DEF SafetyInv

\* A completed serving job means that the serving tables show the retained
\* version (Store.project, installSourceProjectionTx).
THEOREM CompletionIsTrue == Spec => []CompletedIsServed
  BY Safety, PTL DEF SafetyInv

\* A step that shows a body shows the authoritative version of an active owner
\* under the present generation, whatever moved since the job was claimed: the
\* projection decides under the owner fence and the row lock and holds both until
\* it commits (Store.project, projectionEligibility, TransactionalDispatcher).
THEOREM OnlyCurrentIsServed == Spec => ServesOnlyCurrent
<1> DEFINE Shows ==
        \A u \in Uris : served'[u] # served[u] /\ served'[u] # 0 =>
            /\ life'.state = "active"
            /\ src'[u].gen = life'.gen
            /\ src'[u].ord = "authoritative"
<1>1. ASSUME SafetyInv, [Next]_vars PROVE Shows
  <2>1. /\ TypeInv /\ TruthInv /\ RowsInv /\ JobsInv /\ ProjectionIsExclusive
        /\ DecisionsAreWarranted
    BY <1>1 DEF SafetyInv
  <2>2. OpenExcludesCalls
    BY <2>1 DEF ProjectionIsExclusive, OpenExcludesCalls
  <2>3. ASSUME NEW w \in Projectors, CommitProjection(w), NEW u \in Uris,
               served'[u] # served[u], served'[u] # 0
        PROVE  /\ life'.state = "active" /\ src'[u].gen = life'.gen
               /\ src'[u].ord = "authoritative"
    <3>1. u = proj[w].key[1] /\ proj[w].res.effect = "serve"
      BY <2>1, <2>3, CommitServesOwn
    <3>2. proj[w].phase = "open" /\ UNCHANGED <<life, src>>
      BY <2>3 DEF CommitProjection
    <3>3. life.state = "active" /\ src[u].gen = life.gen /\ src[u].ord # "uncertain"
      BY <2>1, <3>1, <3>2 DEF DecisionsAreWarranted, Warranted
    <3>4. src[u].ord = "authoritative"
      <4>1. Exists(u)
        BY <2>1, <3>1, <3>2, ShownHasBody
      <4>2. src[u].ord \in {"none", "authoritative", "uncertain"}
        BY <2>1 DEF TypeInv, StoreTypeOK, Rows
      <4> QED
        BY <2>1, <3>3, <4>1, <4>2 DEF RowsInv
    <3> QED
      BY <3>2, <3>3, <3>4
  <2>4. UNCHANGED served \/ \E w \in Projectors : CommitProjection(w)
    BY <1>1, <2>1, <2>2, StepKinds, OtherStepsSettleNothing DEF Installs, Marks, HoldsBack
  <2> QED
    BY <2>3, <2>4
<1> QED
  BY <1>1, Safety, PTL DEF Spec, ServesOnlyCurrent

\* Active notifications belong to a post that is being served
\* (ProjectNotifications, CraftskyPost.handleDelete).
THEOREM AlertsFollow == Spec => []AlertsFollowServed
  BY Safety, PTL DEF SafetyInv

\* No record is refused silently: there is quarantine evidence for its version or
\* its owner is terminal (Store.project, quarantineSourceTx).
THEOREM RefusalsAreExplained == Spec => []RefusalLeavesEvidence
  BY Safety, PTL DEF SafetyInv
============
