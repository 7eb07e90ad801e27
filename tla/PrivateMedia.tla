---------------------------- MODULE PrivateMedia ----------------------------
(***************************************************************************)
(* The private images of scheduled posts (appview/internal/scheduledposts: *)
(* media_service.go, cleanup.go, cleanup_processor.go).  A member stages   *)
(* an image: a row is reserved, the bytes are put in an object store, the  *)
(* row becomes ready.  Whatever removes a row leaves a cleanup job for its *)
(* object, and a cleaner that leases the job deletes the object and lets   *)
(* the job go once nothing can bring the object back.  The object store is *)
(* external: a put whose caller is gone may still land.                    *)
(*                                                                         *)
(* One owner.  An image has one object key per generation; an image is     *)
(* staged in one generation here.  A day, a deadline and a settlement      *)
(* boundary are phases of the clock of an image's upload attempt.          *)
(***************************************************************************)
EXTENDS OwnerStates, Integers, FiniteSets

CONSTANTS
    Media,      \* images
    Posts,      \* scheduled posts
    Uploaders,  \* requests that stage images
    Cleaners,   \* cleanup loops
    Nobody      \* no post, no lease holder

ASSUME MediaConstants == Nobody \notin Media \cup Posts \cup Cleaners

VARIABLES
    life,      \* owner_lifecycles: state and generation
    media,     \* scheduled_post_media
    attempt,   \* scheduled_post_object_attempts: remote_outcome
    clock,     \* how far time is for the attempt of each image
    job,       \* scheduled_post_cleanup_jobs
    object,    \* the object store
    late,      \* puts that nobody waits for and that may still land
    tested,    \* whether the object store has a tested settlement bound
    uploader,  \* per request, the image it stages
    cleaner,   \* per cleanup loop, the job it works on
    budget     \* bound: uploads, failures of any kind and moves still to come

mediaVars == <<media, attempt, clock, job, object, late, tested, uploader, cleaner>>

NoMedia == [state |-> "none", gen |-> 0, post |-> Nobody]
NoJob == [state |-> "none", lease |-> Nobody, expired |-> FALSE, uncertain |-> FALSE]
NoUpload == [pc |-> "idle", image |-> Nobody]
NoCleaning == [pc |-> "idle", image |-> Nobody, now |-> 0, gone |-> FALSE]

\* The phases of a clock: the upload may run; its deadline is over; whatever
\* was sent has settled; the image has waited a day for a post.
Open == 0
Overdue == 1
Settled == 2
Unclaimed == 3

ActiveIn(gen) == life = [state |-> "active", gen |-> gen]
Attached(p) == {m \in Media : media[m].post = p}
Rowless(ms) == [m \in Media |-> IF m \in ms THEN NoMedia ELSE media[m]]

\* insertCleanupJobSQL: a job for each object, unless there is one.
Enqueued(ms) ==
    [m \in Media |->
        IF m \in ms /\ attempt[m] # "none" /\ job[m].state = "none"
        THEN [NoJob EXCEPT !.state = "pending", !.uncertain = attempt[m] = "dispatched"]
        ELSE job[m]]

\* The rows go and their objects are left to the cleaners.
Discard(ms) ==
    /\ media' = Rowless(ms)
    /\ job' = Enqueued(ms)

\* A wrong version: cleaners do not take the lock.
ObjectFencedByUploads(m) == \E u \in Uploaders : uploader[u].image = m

\* The per-object advisory lock of uploads, deletions and cleaners.
ObjectFenced(m) ==
    \/ \E u \in Uploaders : uploader[u].image = m
    \/ \E c \in Cleaners : cleaner[c].image = m /\ cleaner[c].pc # "claimed"

\* Who holds the owner's shared fence.
MediaFenced ==
    \/ \E u \in Uploaders : uploader[u].pc # "idle"
    \/ \E c \in Cleaners : cleaner[c].pc \notin {"idle", "swept", "claimed"}

Fault == budget.faults > 0 /\ budget' = [budget EXCEPT !.faults = @ - 1]
Uploading(u, pc) == uploader' = [uploader EXCEPT ![u].pc = pc]
StopUpload(u) == uploader' = [uploader EXCEPT ![u] = NoUpload]
Cleaning(c, pc) == cleaner' = [cleaner EXCEPT ![c].pc = pc]
StopCleaning(c) == cleaner' = [cleaner EXCEPT ![c] = NoCleaning]

MediaInit ==
    /\ media = [m \in Media |-> NoMedia]
    /\ attempt = [m \in Media |-> "none"]
    /\ clock = [m \in Media |-> Open]
    /\ job = [m \in Media |-> NoJob]
    /\ object = {}
    /\ late = {}
    /\ tested \in BOOLEAN
    /\ uploader = [u \in Uploaders |-> NoUpload]
    /\ cleaner = [c \in Cleaners |-> NoCleaning]

----------------------------------------------------------------------------
(* Put and Delete.                                                         *)

\* What reservePrivateMedia lets through, beyond an image that is ready.
MayReserve(m) ==
    /\ job[m].state = "none"
    /\ \/ media[m].state = "none" /\ attempt[m] \in {"none", "prepared"}
       \/ /\ media[m].state = "uploading" /\ attempt[m] = "prepared"
          /\ media[m].gen = life.gen

Reserve(u, m) ==
    /\ uploader[u].pc = "idle"
    /\ life.state = "active"
    /\ budget.uploads > 0
    /\ budget' = [budget EXCEPT !.uploads = @ - 1]
    /\ ~ObjectFenced(m)
    /\ MayReserve(m)
    /\ media' = [media EXCEPT ![m] = [NoMedia EXCEPT !.state = "uploading", !.gen = life.gen]]
    /\ attempt' = [attempt EXCEPT ![m] = "prepared"]
    /\ clock' = [clock EXCEPT ![m] = IF attempt[m] = "none" THEN Open ELSE @]
    /\ uploader' = [uploader EXCEPT ![u] = [pc |-> "reserved", image |-> m]]
    /\ UNCHANGED <<job, object, late, tested, cleaner>>

\* markPrivateMediaDispatched, and the put that follows it.
Dispatch(u) ==
    /\ uploader[u].pc = "reserved"
    /\ LET m == uploader[u].image IN
       IF attempt[m] = "prepared" /\ clock[m] = Open
       THEN /\ attempt' = [attempt EXCEPT ![m] = "dispatched"]
            /\ Uploading(u, "put")
       ELSE UNCHANGED attempt /\ StopUpload(u)
    /\ UNCHANGED <<media, clock, job, object, late, tested, cleaner, budget>>

\* The store takes the object and says so.
PutSucceeds(u) ==
    /\ uploader[u].pc = "put"
    /\ object' = object \cup {uploader[u].image}
    /\ Uploading(u, "stored")
    /\ UNCHANGED <<media, attempt, clock, job, late, tested, cleaner, budget>>

\* The store refuses the object, takes it without saying so, or will.
PutFails(u) ==
    /\ uploader[u].pc = "put"
    /\ Fault
    /\ late' \in {late, late \cup {uploader[u].image}}
    /\ Uploading(u, "failed")
    /\ UNCHANGED <<media, attempt, clock, job, object, tested, cleaner>>

\* markPrivateMediaReady.
MarkReady(u) ==
    /\ uploader[u].pc = "stored"
    /\ LET m == uploader[u].image IN
       IF attempt[m] = "dispatched" /\ media[m].state = "uploading"
       THEN /\ attempt' = [attempt EXCEPT ![m] = "accepted"]
            /\ media' = [media EXCEPT ![m].state = "ready"]
       ELSE UNCHANGED <<attempt, media>>
    /\ StopUpload(u)
    /\ UNCHANGED <<clock, job, object, late, tested, cleaner, budget>>

\* movePrivateMediaToCleanup.
MoveToCleanup(u) ==
    /\ uploader[u].pc = "failed"
    /\ LET m == uploader[u].image IN
       IF media[m].state = "uploading" THEN Discard({m}) ELSE UNCHANGED <<media, job>>
    /\ StopUpload(u)
    /\ UNCHANGED <<attempt, clock, object, late, tested, cleaner, budget>>

\* The process dies; what it sent may be under way.
UploadCrashes(u) ==
    /\ uploader[u].pc # "idle"
    /\ Fault
    /\ late' \in IF uploader[u].pc = "put" THEN {late, late \cup {uploader[u].image}}
                                           ELSE {late}
    /\ StopUpload(u)
    /\ UNCHANGED <<media, attempt, clock, job, object, tested, cleaner>>

\* PrivateMediaService.Delete of an image that no post has.
DeleteImage(m) ==
    /\ ActiveIn(media[m].gen)
    /\ ~ObjectFenced(m)
    /\ media[m].state # "none" /\ media[m].post = Nobody
    /\ Discard({m})
    /\ UNCHANGED <<attempt, clock, object, late, tested, uploader, cleaner, budget>>

----------------------------------------------------------------------------
(* Time and the object store.                                              *)

LandLate(m) ==
    /\ m \in late
    /\ late' = late \ {m}
    /\ object' = object \cup {m}
    /\ UNCHANGED <<media, attempt, clock, job, tested, uploader, cleaner, budget>>

LoseLate(m) ==
    /\ m \in late
    /\ late' = late \ {m}
    /\ UNCHANGED <<media, attempt, clock, job, object, tested, uploader, cleaner, budget>>

\* A put is over by its deadline and, where the bound is tested, lands before the
\* settlement boundary, whose margin covers a request's wait for its fences; no
\* request and no cleanup lives for a day.
Tick(m) ==
    /\ attempt[m] # "none"
    /\ clock[m] < Unclaimed
    /\ clock[m] = Open => \A u \in Uploaders : ~(uploader[u].image = m /\ uploader[u].pc = "put")
    /\ clock[m] = Overdue /\ tested => m \notin late
    /\ clock[m] = Settled => ~ObjectFenced(m)
    /\ clock' = [clock EXCEPT ![m] = @ + 1]
    /\ UNCHANGED <<media, attempt, job, object, late, tested, uploader, cleaner, budget>>

\* The lease of a cleanup job runs out: its cleaner is dead, or slow.
LeaseEnds(m) ==
    /\ job[m].state = "deleting" /\ ~job[m].expired
    /\ job' = [job EXCEPT ![m].expired = TRUE]
    /\ IF cleaner[job[m].lease].image = m THEN Fault ELSE UNCHANGED budget
    /\ UNCHANGED <<media, attempt, clock, object, late, tested, uploader, cleaner>>

----------------------------------------------------------------------------
(* The cleanup loop.                                                       *)

\* The part of SweepExpiredLifecycle that is about images nobody claimed.
ExpiredImages ==
    {m \in Media : /\ media[m].state # "none" /\ media[m].post = Nobody
                   /\ clock[m] = Unclaimed}

\* A wrong version: the job of a cleaner that died is nobody's.
RecoveredJobsNever ==
    [m \in Media |-> IF job[m].state = "pending" /\ media[m].state # "none"
                     THEN NoJob ELSE job[m]]

\* recoverExpiredCleanupJobs and deleteReferencedPendingCleanupJobs.
RecoveredJobs ==
    [m \in Media |->
        LET row == IF job[m].state = "deleting" /\ job[m].expired
                   THEN [NoJob EXCEPT !.state = "pending", !.uncertain = job[m].uncertain]
                   ELSE job[m] IN
        IF row.state = "pending" /\ media[m].state # "none" THEN NoJob ELSE row]

\* ClaimCleanup; a batch is one job here.
ClaimCleanup(c) ==
    /\ cleaner[c].pc = "swept"
    /\ LET jobs == RecoveredJobs
           dueJobs == {m \in Media : jobs[m].state = "pending"} IN
       \/ /\ dueJobs = {}
          /\ job' = jobs
          /\ StopCleaning(c)
       \/ \E m \in dueJobs :
             /\ job' = [jobs EXCEPT ![m].state = "deleting", ![m].lease = c]
             /\ cleaner' = [cleaner EXCEPT ![c] =
                              [pc |-> "claimed", image |-> m, now |-> clock[m],
                               gone |-> FALSE]]
    /\ UNCHANGED <<media, attempt, clock, object, late, tested, uploader, budget>>

HoldsJob(c) ==
    LET row == job[cleaner[c].image] IN row.state = "deleting" /\ row.lease = c

\* AcquireCleanupEffect and PrepareCleanupDelete, under the owner's shared
\* fence: an object that a row refers to is left alone.
AcquireCleanup(c) ==
    /\ cleaner[c].pc = "claimed"
    /\ ~ObjectFenced(cleaner[c].image)
    /\ LET m == cleaner[c].image IN
       CASE ~HoldsJob(c) -> UNCHANGED job /\ StopCleaning(c)
         [] HoldsJob(c) /\ media[m].state # "none" ->
              job' = [job EXCEPT ![m] = NoJob] /\ StopCleaning(c)
         [] OTHER -> UNCHANGED job /\ Cleaning(c, "deleting")
    /\ UNCHANGED <<media, attempt, clock, object, late, tested, uploader, budget>>

\* RetryCleanup.
Retry(c) ==
    /\ job' = IF HoldsJob(c)
              THEN [job EXCEPT ![cleaner[c].image] =
                      [NoJob EXCEPT !.state = "pending",
                                    !.uncertain = job[cleaner[c].image].uncertain]]
              ELSE job
    /\ StopCleaning(c)

DeleteObject(c) ==
    /\ cleaner[c].pc = "deleting"
    /\ object' = object \ {cleaner[c].image}
    /\ Cleaning(c, "deleted")
    /\ UNCHANGED <<media, attempt, clock, job, late, tested, uploader, budget>>

\* The store fails to delete the object, or to say whether it is there.
DeleteFails(c) ==
    /\ cleaner[c].pc \in {"deleting", "deleted"}
    /\ Fault
    /\ Retry(c)
    /\ UNCHANGED <<media, attempt, clock, object, late, tested, uploader>>

LookAgain(c) ==
    /\ cleaner[c].pc = "deleted"
    /\ cleaner' = [cleaner EXCEPT ![c].pc = "looked",
                                  ![c].gone = cleaner[c].image \notin object]
    /\ UNCHANGED <<media, attempt, clock, job, object, late, tested, uploader, budget>>

\* A wrong version: an absent object is taken for one that stays absent.
ProvesSettlementAtOnce(c) == cleaner[c].gone

\* ProvesSettlement: the absence was seen at the time the batch began.
ProvesSettlement(c) ==
    /\ cleaner[c].gone
    /\ job[cleaner[c].image].uncertain => tested /\ cleaner[c].now >= Settled

\* RecordCleanupAbsence, then CompleteCleanup or RetryCleanup.
Conclude(c) ==
    /\ cleaner[c].pc = "looked"
    /\ LET m == cleaner[c].image IN
       IF HoldsJob(c) /\ ProvesSettlement(c)
       THEN /\ job' = [job EXCEPT ![m] = NoJob]
            /\ attempt' = [attempt EXCEPT ![m] =
                             IF media[m].state = "none" THEN "none" ELSE @]
            /\ StopCleaning(c)
       ELSE UNCHANGED attempt /\ Retry(c)
    /\ UNCHANGED <<media, clock, object, late, tested, uploader, budget>>

CleanerCrashes(c) ==
    /\ cleaner[c].pc # "idle"
    /\ Fault
    /\ StopCleaning(c)
    /\ UNCHANGED <<media, attempt, clock, job, object, late, tested, uploader>>

CleanerStep(c) == ClaimCleanup(c) \/ DeleteObject(c) \/ LookAgain(c) \/ Conclude(c)

\* The steps that leave posts and the owner alone.
MediaNext ==
    \/ \E u \in Uploaders :
          \/ \E m \in Media : Reserve(u, m)
          \/ Dispatch(u) \/ PutSucceeds(u) \/ PutFails(u) \/ MarkReady(u)
          \/ MoveToCleanup(u) \/ UploadCrashes(u)
    \/ \E m \in Media :
          DeleteImage(m) \/ LandLate(m) \/ LoseLate(m) \/ Tick(m) \/ LeaseEnds(m)
    \/ \E c \in Cleaners :
          CleanerStep(c) \/ AcquireCleanup(c) \/ DeleteFails(c) \/ CleanerCrashes(c)

\* Leases end, and a put that nobody waits for lands or is lost.
MediaFairness ==
    \A m \in Media : WF_mediaVars(LeaseEnds(m)) /\ WF_mediaVars(LandLate(m) \/ LoseLate(m))

----------------------------------------------------------------------------
(* Properties.                                                             *)

\* Every variable has its shape, an image of a post is ready, and a leased job
\* has a holder.
MediaTypeOK ==
    /\ media \in [Media -> [state : {"none", "uploading", "ready"}, gen : Nat,
                            post : Posts \cup {Nobody}]]
    /\ attempt \in [Media -> {"none", "prepared", "dispatched", "accepted"}]
    /\ job \in [Media -> [state : {"none", "pending", "deleting"},
                          lease : Cleaners \cup {Nobody},
                          expired : BOOLEAN, uncertain : BOOLEAN]]
    /\ object \subseteq Media /\ late \subseteq Media
    /\ \A m \in Media :
          /\ media[m].post # Nobody => media[m].state = "ready"
          /\ (job[m].state = "deleting") = (job[m].lease # Nobody)

\* An image that is ready for a post, or in one, is in the object store,
\* whatever cleanup is under way for an earlier attempt to stage it.
ReadyIsStored == \A m \in Media : media[m].state = "ready" => m \in object

\* An object in the store, or one that a lost put may still bring there, is
\* known to a row or to a cleanup job: no crash, failure or expiry leaves
\* private bytes behind that nobody will delete.
NothingForgotten ==
    \A m \in object \cup late : media[m].state # "none" \/ job[m].state # "none"
=============================================================================
