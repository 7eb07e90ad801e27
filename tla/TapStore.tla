------------------------------ MODULE TapStore ------------------------------
(***************************************************************************)
(* The tables of the Tap pipeline for one owner, and the pieces of         *)
(* transaction that more than one actor runs on them                       *)
(* (appview/internal/ingestion/store.go, migration 000045).                *)
(*                                                                         *)
(* A transaction that reads and decides under locks which nobody else can  *)
(* hold is one step.  One that reads what others may change before it      *)
(* commits is two steps, open and commit; what it holds in between (the    *)
(* shared owner fence, the row lock on its source) is read off the program *)
(* counters of the actors, see Busy and SharedFence.                       *)
(***************************************************************************)
EXTENDS AtprotoRepo, OwnerStates

CONSTANTS
    Collection,  \* the kind of each record
    Subject,     \* the record a like is about
    Owner,       \* the owner's DID, the key of DID dependencies
    Consumer,    \* the Tap consumer
    Workers,     \* projection workers
    RWorkers,    \* repository workers
    Nobody,      \* no lease owner
    Malformed,   \* bodies that fail record validation
    Shifts,      \* lifecycle transitions made by other subsystems
    Requests,    \* repository jobs that logins and operators ask for
    MaxGen,      \* bound: generation after which no such transition comes
    MaxFaults    \* bound: crashes, timeouts, dropped connections, slow runs
                 \* and requests for repository work

Collections == {"profile", "post", "like"}
RepositoryKinds == {"tap_add_repo", "pds_reconcile"}

\* The moves of a login, which write the profile's row with the lifecycle and
\* are no part of the model.
LoginMoves == {<<"active", "departed">>, <<"departed", "active">>}

ASSUME StoreConstants ==
    /\ Collection \in [Uris -> Collections]
    /\ Subject \in [Uris -> Uris]
    /\ Owner \notin Uris
    /\ Shifts \subseteq ValidTransitions \ LoginMoves
    /\ Requests \subseteq RepositoryKinds
    /\ MaxGen \in Nat /\ MaxFaults \in Nat

ASSUME ActorsDiffer ==
    /\ Workers \cap RWorkers = {}
    /\ Consumer \notin Workers \cup RWorkers
    /\ Nobody \notin Workers \cup RWorkers \cup {Consumer}

VARIABLES
    life,         \* owner_lifecycles: state and generation
    src,          \* tap_source_records, one row per record
    job,          \* tap_projection_jobs, serving and post_notifications
    rjob,         \* tap_repository_jobs, one per kind
    served,       \* per record, the body the serving tables show (0: none)
    alerts,       \* per record, whether its notifications are active
    quarantined,  \* source versions in tap_quarantined_events
    faults,       \* faults spent
    ing,          \* per ingestor, its IngestRecord call
    proj          \* per projector, its claim and projection transaction

storeVars == <<life, src, job, rjob, served, alerts, quarantined>>

Ingestors == {Consumer} \cup RWorkers
Projectors == Workers \cup RWorkers
Posts == {u \in Uris : Collection[u] = "post"}
JobKeys == (Uris \X {"serving"}) \cup (Posts \X {"notify"})

Profile(u) == Collection[u] = "profile"

----------------------------------------------------------------------------
(* Rows.                                                                   *)

NoLife == [state |-> "none", gen |-> 0]

NoDep == [kind |-> "none", key |-> Owner]
OnMember == [kind |-> "member_did", key |-> Owner]
OnRepository == [kind |-> "repository_did", key |-> Owner]
OnSubject(u) == [kind |-> "subject_uri", key |-> u]

NoId == [via |-> "none", rev |-> 0]

\* A missing row; revision 0 is below every revision of the repository.
NoRow == [id |-> NoId, rev |-> 0, act |-> "none", body |-> 0,
          ord |-> "none", disp |-> "none", gen |-> 0]
Exists(u) == src[u] # NoRow

JobRow(st, dep, id) ==
    [st |-> st, dep |-> dep, id |-> id, holder |-> Nobody, live |-> FALSE]
NoJob == JobRow("none", NoDep, NoId)
JobExists(k) == job[k].st # "none"
Claimed(j, w, id) ==
    [st |-> "processing", dep |-> NoDep, id |-> id, holder |-> w, live |-> TRUE]

RepositoryJob(st) == [st |-> st, holder |-> Nobody, live |-> FALSE]

\* The owner is a member: its profile is in craftsky_profiles.
Member == \E u \in Uris : Profile(u) /\ served[u] # 0

StoreInit ==
    /\ life = NoLife
    /\ src = [u \in Uris |-> NoRow]
    /\ job = [k \in JobKeys |-> NoJob]
    /\ rjob = [x \in RepositoryKinds |-> RepositoryJob("none")]
    /\ served = [u \in Uris |-> 0]
    /\ alerts = [u \in Uris |-> FALSE]
    /\ quarantined = {}
    /\ faults = 0

----------------------------------------------------------------------------
(* Pure decisions.                                                         *)

\* A wrong version of it: a create of a record that is there is a redelivery.
SelectSourceVersionCreateIsOld(row, ev) ==
    IF ev.act = "create" /\ row.act \in {"create", "update"} THEN "duplicate"
    ELSE IF row.rev < ev.rev THEN "newer"
    ELSE IF row.rev > ev.rev THEN "stale"
    ELSE IF row.act = ev.act /\ row.body = ev.body THEN "duplicate"
    ELSE "conflict"

\* How an incoming version compares with the stored row.
SelectSourceVersion(row, ev) ==
    IF row.rev < ev.rev THEN "newer"
    ELSE IF row.rev > ev.rev THEN "stale"
    ELSE IF row.act = ev.act /\ row.body = ev.body THEN "duplicate"
    ELSE "conflict"

\* A wrong version of it: a deleted profile does not move the lifecycle.
ProfileTransitionStays(state, act) ==
    IF act # "delete" /\ state = "departed" THEN "active" ELSE state

\* The lifecycle state a winning profile event asks for.
ProfileTransition(state, act) ==
    IF act = "delete" /\ state \in {"active", "deletion_pending"} THEN "departed"
    ELSE IF act # "delete" /\ state = "departed" THEN "active"
    ELSE state

IsMalformed(act, body) == act # "delete" /\ body \in Malformed

\* What a new source version starts with: its disposition and its job.
Plan(disp, st, dep) == [disp |-> disp, st |-> st, dep |-> dep]
Eligible == Plan("eligible", "pending", NoDep)
Denied == Plan("denied_terminal", "permanent_denied", NoDep)
Departed == Plan("blocked_departed", "blocked", OnMember)

\* The outcome reported to whoever submitted the version.
OutcomeOf(st) ==
    CASE st = "blocked" -> "blocked"
      [] st = "permanent_denied" -> "permanent_invalid"
      [] OTHER -> "applied"

----------------------------------------------------------------------------
(* Pieces of transaction.                                                  *)

\* Two wrong versions of it: the job that is there stays as it is, and the
\* notification job is forgotten.
InstallSourceKeepsJob(u, row, plan) ==
    /\ src' = [src EXCEPT ![u] = row]
    /\ job' = [k \in JobKeys |->
                 IF k = <<u, "serving">> /\ ~JobExists(k)
                 THEN JobRow(plan.st, plan.dep, row.id) ELSE job[k]]
InstallSourceForgetsNotify(u, row, plan) ==
    /\ src' = [src EXCEPT ![u] = row]
    /\ job' = [job EXCEPT ![<<u, "serving">>] = JobRow(plan.st, plan.dep, row.id)]

\* installSourceProjectionTx: the row is replaced whatever it held, the
\* serving job starts over without a lease, and so does the notification job
\* of a post if it has one.
InstallSource(u, row, plan) ==
    /\ src' = [src EXCEPT ![u] = row]
    /\ job' = [k \in JobKeys |->
                 IF k[1] = u /\ (k[2] = "serving" \/ JobExists(k))
                 THEN JobRow(plan.st, plan.dep, row.id) ELSE job[k]]

SourceRow(ev, plan, gen) ==
    [id |-> ev.id, rev |-> ev.rev, act |-> ev.act, body |-> ev.body,
     ord |-> "authoritative", disp |-> plan.disp, gen |-> gen]

\* enqueueRepositoryJob: back to pending, whoever was running it.
WithRequest(kind) == [rjob EXCEPT ![kind] = RepositoryJob("pending")]

JobsOf(u) == {k \in JobKeys : k[1] = u /\ JobExists(k)}

\* markSourceConflictTx insists that its UPDATE of the jobs touched one row.
CanMarkConflict(u) == \E k \in JobsOf(u) : JobsOf(u) = {k}

MarkConflict(u) ==
    /\ src' = [src EXCEPT ![u].ord = "uncertain", ![u].disp = "pending"]
    /\ job' = [k \in JobKeys |->
                 IF k[1] = u /\ JobExists(k)
                 THEN JobRow("blocked", OnRepository, job[k].id) ELSE job[k]]
    /\ rjob' = WithRequest("pds_reconcile")

\* wakeDependencyTx on a given table of jobs.
Wake(jobs, dep) ==
    [k \in JobKeys |-> IF jobs[k].st = "blocked" /\ jobs[k].dep = dep
                       THEN JobRow("pending", NoDep, jobs[k].id) ELSE jobs[k]]

\* Locks, held by the open transactions.  A transaction that found no row has
\* no row to lock; every open transaction holds the owner fence shared.
RowLocked(u) ==
    \/ \E i \in Ingestors : ing[i].phase = "open" /\ ing[i].locked /\ ing[i].ev.uri = u
    \/ \E w \in Projectors : proj[w].phase = "open" /\ proj[w].key[1] = u
\* postfence: held by the transaction of a post's delete, and by projections
\* of the post, which hold the row as well.
PostFenced(u) ==
    \E i \in Ingestors : /\ ing[i].phase = "open" /\ ing[i].ev.act = "delete"
                        /\ u \in Posts /\ ing[i].ev.uri = u
\* A wrong version of it: projections run without the owner fence.
SharedFenceOfIngestion == \E i \in Ingestors : ing[i].phase = "open"
SharedFence ==
    \/ \E i \in Ingestors : ing[i].phase = "open"
    \/ \E w \in Projectors : proj[w].phase = "open"

\* The budget of the model for what comes from outside.
Fault == faults < MaxFaults /\ faults' = faults + 1

----------------------------------------------------------------------------

Dependencies == {NoDep, OnMember, OnRepository} \cup {OnSubject(u) : u \in Uris}
JobStates == {"none", "pending", "blocked", "processing", "complete",
              "permanent_denied"}

Rows == [id : EventIds \cup {NoId}, rev : 0..MaxRev, act : Actions \cup {"none"},
         body : 0..MaxRev, ord : {"none", "authoritative", "uncertain"},
         disp : {"none", "eligible", "pending", "blocked_departed",
                 "denied_terminal"},
         gen : Nat]
Lives == [state : States \cup {"none"}, gen : Nat]
Jobs == [st : JobStates, dep : Dependencies, id : EventIds \cup {NoId},
         holder : Projectors \cup {Nobody}, live : BOOLEAN]
RepositoryJobs == [st : {"none", "pending", "processing", "complete"},
                   holder : RWorkers \cup {Nobody}, live : BOOLEAN]

StoreTypeOK ==
    /\ life \in Lives
    /\ src \in [Uris -> Rows]
    /\ job \in [JobKeys -> Jobs]
    /\ rjob \in [RepositoryKinds -> RepositoryJobs]
    /\ served \in [Uris -> 0..MaxRev]
    /\ alerts \in [Uris -> BOOLEAN]
    /\ quarantined \subseteq [uri : Uris, id : EventIds \cup {NoId}]
    /\ faults \in 0..MaxFaults
=============================================================================
