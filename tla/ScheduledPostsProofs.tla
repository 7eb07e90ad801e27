----------------------- MODULE ScheduledPostsProofs -----------------------
(***************************************************************************)
(* What the schedule and its images keep for every number of posts, images,*)
(* workers, cleaners and requests.  The schedule is composed with the      *)
(* deletion of the account, so a step is one of its own, a transition of   *)
(* the owner, or the emptying of all its tables; nothing here depends on   *)
(* how many failures and moves there may be.                               *)
(*                                                                         *)
(* MediaInv says who may be at work on one object; PostTypes what the      *)
(* tables hold; WriteInv how the record of a version, its command and its  *)
(* requests go together; LockInv what the lock of a schedule keeps others  *)
(* from doing; ImagesInv, last, why no image is lost sight of.             *)
(***************************************************************************)
EXTENDS ScheduledPosts, TLAPS

hostedVars == <<life, mediaVars, postVars>>

\* What the private purge of an accepted deletion does here.
Emptied ==
    /\ ExclusiveFence
    /\ post' = [p \in Posts |-> IF post[p].state \in Rows THEN Gone(p) ELSE post[p]]
    /\ tombstone' = [p \in Posts |-> 0]
    /\ Discard({m \in Media : media[m].state # "none"})
    /\ UNCHANGED <<life, attempt, clock, object, late, tested, uploader, cleaner,
                   worker, command, wire, landed, sent>>

HostedStep ==
    \/ Next
    \/ \E to \in States : Transition(to)
    \/ Emptied
    \/ UNCHANGED hostedVars

----------------------------------------------------------------------------
(* Images.                                                                 *)

Uploads == [pc : {"idle", "reserved", "put", "stored", "failed"},
            image : Media \cup {Nobody}]
Cleanings == [pc : {"idle", "swept", "claimed", "deleting", "deleted", "looked"},
              image : Media \cup {Nobody}, now : 0..Unclaimed, gone : BOOLEAN]

\* A cleaner that holds the lock of an object.
AtObject(c) == cleaner[c].pc \in {"deleting", "deleted", "looked"}

MediaTypes ==
    /\ life \in [state : States, gen : Nat]
    /\ MediaTypeOK
    /\ clock \in [Media -> 0..Unclaimed] /\ tested \in BOOLEAN
    /\ uploader \in [Uploaders -> Uploads]
    /\ \A u \in Uploaders : uploader[u].pc = "idle" <=> uploader[u].image = Nobody
    /\ cleaner \in [Cleaners -> Cleanings]
    /\ \A c \in Cleaners :
          cleaner[c].pc \in {"idle", "swept"} <=> cleaner[c].image = Nobody

\* Uploads of one image take turns with each other and with cleaners, who only
\* get at objects without a row.
ObjectsAreLocked ==
    /\ \A u, v \in Uploaders :
          uploader[u].image = uploader[v].image /\ uploader[u].pc # "idle" => u = v
    /\ \A c \in Cleaners : AtObject(c) =>
          /\ media[cleaner[c].image].state = "none"
          /\ \A u \in Uploaders : uploader[u].image # cleaner[c].image

StoredIsThere ==
    \A u \in Uploaders : uploader[u].pc = "stored" => uploader[u].image \in object

MediaInv == MediaTypes /\ ObjectsAreLocked /\ StoredIsThere /\ ReadyIsStored

USE MediaConstants, PostConstants
USE DEF Open, Overdue, Settled, Unclaimed

\* The rows that go leave typed jobs.
LEMMA DiscardTypes ==
    ASSUME MediaTypes, NEW ms \in SUBSET Media
    PROVE  /\ Rowless(ms) \in [Media -> [state : {"none", "uploading", "ready"}, gen : Nat,
                                         post : Posts \cup {Nobody}]]
           /\ Enqueued(ms) \in [Media -> [state : {"none", "pending", "deleting"},
                                          lease : Cleaners \cup {Nobody},
                                          expired : BOOLEAN, uncertain : BOOLEAN]]
           /\ \A m \in Media :
                /\ Rowless(ms)[m].post # Nobody => Rowless(ms)[m].state = "ready"
                /\ Rowless(ms)[m].state # "none" => Rowless(ms)[m].state = media[m].state
                /\ (Enqueued(ms)[m].state = "deleting") = (Enqueued(ms)[m].lease # Nobody)
  BY ZenonT(60) DEF MediaTypes, MediaTypeOK, Rowless, Enqueued, NoMedia, NoJob

LEMMA MediaInitInv == Init => MediaInv
  BY DEF Init, MediaInit, MediaInv, MediaTypes, MediaTypeOK, ObjectsAreLocked, StoredIsThere,
         ReadyIsStored, NoMedia, NoJob, NoUpload, NoCleaning, Uploads, Cleanings, AtObject,
         States



\* What a request does to itself: it goes on with its image, or stops.
LEMMA UploadingTypes ==
    ASSUME MediaTypes, NEW u \in Uploaders, uploader[u].pc # "idle",
           NEW pc \in {"put", "stored", "failed"}, Uploading(u, pc)
    PROVE  /\ uploader' \in [Uploaders -> Uploads]
           /\ uploader'[u].pc = pc /\ uploader'[u].image = uploader[u].image
           /\ \A v \in Uploaders : v # u => uploader'[v] = uploader[v]
           /\ \A v \in Uploaders : uploader'[v].pc = "idle" <=> uploader'[v].image = Nobody
<1>1. uploader'[u] = [uploader[u] EXCEPT !.pc = pc] /\ uploader' \in [Uploaders -> Uploads]
  BY DEF MediaTypes, Uploads, Uploading
<1>2. \A v \in Uploaders : v # u => uploader'[v] = uploader[v]
  BY DEF MediaTypes, Uploading
<1>3. uploader'[u].pc = pc /\ uploader'[u].image = uploader[u].image
  BY <1>1 DEF MediaTypes, Uploads
<1> QED
  BY <1>1, <1>2, <1>3 DEF MediaTypes

LEMMA StopUploadTypes ==
    ASSUME MediaTypes, NEW u \in Uploaders, StopUpload(u)
    PROVE  /\ uploader' \in [Uploaders -> Uploads]
           /\ uploader'[u].pc = "idle" /\ uploader'[u].image = Nobody
           /\ \A v \in Uploaders : v # u => uploader'[v] = uploader[v]
           /\ \A v \in Uploaders : uploader'[v].pc = "idle" <=> uploader'[v].image = Nobody
  BY DEF MediaTypes, Uploads, StopUpload, NoUpload

\* A request that goes on, or stops, leaves the locks as they are.
LEMMA UploaderKeepsLocks ==
    ASSUME MediaInv, NEW u \in Uploaders, uploader[u].pc # "idle", UNCHANGED cleaner,
           uploader' \in [Uploaders -> Uploads],
           uploader'[u].image \in {uploader[u].image, Nobody},
           uploader'[u].pc = "idle" <=> uploader'[u].image = Nobody,
           \A v \in Uploaders : v # u => uploader'[v] = uploader[v],
           \A m \in Media : media[m].state = "none" => media'[m].state = "none"
    PROVE  ObjectsAreLocked'
<1>1. \A v, w \in Uploaders :
         uploader'[v].image = uploader'[w].image /\ uploader'[v].pc # "idle" => v = w
  BY DEF MediaInv, MediaTypes, ObjectsAreLocked, Uploads
<1>2. \A c \in Cleaners : AtObject(c)' =>
         /\ media'[cleaner'[c].image].state = "none"
         /\ \A v \in Uploaders : uploader'[v].image # cleaner'[c].image
  <2> SUFFICES ASSUME NEW c \in Cleaners, AtObject(c)
               PROVE  /\ media'[cleaner[c].image].state = "none"
                      /\ \A v \in Uploaders : uploader'[v].image # cleaner[c].image
    BY DEF AtObject
  <2>1. cleaner[c].image \in Media
    BY DEF MediaInv, MediaTypes, AtObject, Cleanings
  <2> QED
    BY <2>1 DEF MediaInv, MediaTypes, ObjectsAreLocked
<1> QED
  BY <1>1, <1>2 DEF ObjectsAreLocked

\* Rows that go and leave jobs.
LEMMA DiscardKeepsTypes ==
    ASSUME MediaTypes, NEW ms \in SUBSET Media, Discard(ms), UNCHANGED <<attempt, object, late>>
    PROVE  /\ MediaTypeOK'
           /\ \A m \in Media : media'[m].state \in {media[m].state, "none"}
           /\ \A m \in ms : media'[m] = NoMedia
           /\ \A m \in Media \ ms : media'[m] = media[m]
<1>1. media' = Rowless(ms) /\ job' = Enqueued(ms)
  BY DEF Discard
<1>2. MediaTypeOK'
  BY <1>1, DiscardTypes DEF MediaTypes, MediaTypeOK
<1> QED
  BY <1>1, <1>2 DEF Rowless, NoMedia

\* Requests that stage an image.
LEMMA ReserveKeepsMedia ==
    ASSUME MediaInv, UNCHANGED life, NEW u \in Uploaders, NEW m \in Media, Reserve(u, m)
    PROVE  MediaInv'
<1> USE DEF MediaInv, MediaTypes
<1>1. /\ uploader' \in [Uploaders -> Uploads]
      /\ uploader'[u].pc = "reserved" /\ uploader'[u].image = m
      /\ \A v \in Uploaders : v # u => uploader'[v] = uploader[v]
      /\ uploader[u].pc = "idle" /\ media[m].state # "ready" /\ ~ObjectFenced(m)
  BY DEF Reserve, MayReserve, Uploads
<1>2. m # Nobody
  OBVIOUS
<1>3. MediaTypeOK'
  BY ZenonT(60) DEF Reserve, MediaTypeOK, NoMedia
<1>4. MediaTypes'
  BY <1>1, <1>2, <1>3 DEF Reserve
<1>5. \A n \in Media : n # m => media'[n] = media[n]
  BY DEF Reserve, MediaTypeOK
<1>6. ObjectsAreLocked'
  BY <1>1, <1>2, <1>4, <1>5 DEF Reserve, ObjectsAreLocked, ObjectFenced, AtObject, Cleanings
<1>7. StoredIsThere' /\ ReadyIsStored'
  BY <1>1, <1>5 DEF Reserve, StoredIsThere, ReadyIsStored, MediaTypeOK, NoMedia
<1> QED
  BY <1>4, <1>6, <1>7

LEMMA UploadKeepsMedia ==
    ASSUME MediaInv, UNCHANGED life, NEW u \in Uploaders,
           \/ Dispatch(u) \/ PutSucceeds(u) \/ PutFails(u) \/ MarkReady(u)
           \/ MoveToCleanup(u) \/ UploadCrashes(u)
    PROVE  MediaInv'
<1> USE DEF MediaInv
<1>1. /\ uploader[u].pc # "idle"
      /\ StopUpload(u) \/ \E pc \in {"put", "stored", "failed"} : Uploading(u, pc)
      /\ UNCHANGED <<tested, cleaner, clock, life>>
  BY DEF Dispatch, PutSucceeds, PutFails, MarkReady, MoveToCleanup, UploadCrashes
<1>2. uploader[u].image \in Media
  BY <1>1 DEF MediaTypes, Uploads
<1>3. /\ uploader' \in [Uploaders -> Uploads]
      /\ uploader'[u].image \in {uploader[u].image, Nobody}
      /\ \A v \in Uploaders : v # u => uploader'[v] = uploader[v]
      /\ \A v \in Uploaders : uploader'[v].pc = "idle" <=> uploader'[v].image = Nobody
  BY <1>1, UploadingTypes, StopUploadTypes
<1>4. MediaTypeOK' /\ \A m \in Media : media[m].state = "none" => media'[m].state = "none"
  <2> USE DEF MediaTypes, MediaTypeOK
  <2>1. CASE Dispatch(u)
    <3>1. UNCHANGED <<media, job, object, late>>
      BY <2>1 DEF Dispatch
    <3>2. attempt' \in [Media -> {"none", "prepared", "dispatched", "accepted"}]
      BY <1>2, <2>1 DEF Dispatch
    <3> QED
      BY <3>1, <3>2
  <2>2. CASE PutSucceeds(u)
    BY <1>2, <2>2 DEF PutSucceeds
  <2>3. CASE PutFails(u)
    BY <1>2, <2>3 DEF PutFails
  <2>4. CASE MarkReady(u)
    <3> DEFINE m == uploader[u].image
    <3>1. CASE attempt[m] = "dispatched" /\ media[m].state = "uploading"
      <4>1. /\ media' = [media EXCEPT ![m].state = "ready"]
            /\ attempt' = [attempt EXCEPT ![m] = "accepted"]
            /\ UNCHANGED <<job, object, late>>
        BY <2>4, <3>1 DEF MarkReady
      <4>2. /\ media'[m] = [media[m] EXCEPT !.state = "ready"]
            /\ \A n \in Media : n # m => media'[n] = media[n]
        BY <1>2, <4>1
      <4> QED
        BY <1>2, <3>1, <4>1, <4>2
    <3>2. CASE ~(attempt[m] = "dispatched" /\ media[m].state = "uploading")
      BY <2>4, <3>2 DEF MarkReady
    <3> QED
      BY <3>1, <3>2
  <2>5. CASE MoveToCleanup(u)
    BY <1>2, <2>5, DiscardTypes DEF MoveToCleanup, Discard
  <2>6. CASE UploadCrashes(u)
    BY <1>2, <2>6 DEF UploadCrashes
  <2> QED
    BY <2>1, <2>2, <2>3, <2>4, <2>5, <2>6
<1>5. MediaTypes'
  BY <1>1, <1>3, <1>4 DEF MediaTypes
<1>6. ObjectsAreLocked'
  BY <1>1, <1>3, <1>4, UploaderKeepsLocks
<1>7. object \subseteq object' /\ StoredIsThere'
  <2>1. object \subseteq object'
    BY DEF Dispatch, PutSucceeds, PutFails, MarkReady, MoveToCleanup, UploadCrashes
  <2>2. uploader'[u].pc = "stored" => uploader'[u].image \in object'
    BY <1>1, UploadingTypes, StopUploadTypes
       DEF Dispatch, PutSucceeds, PutFails, MarkReady, MoveToCleanup, UploadCrashes
  <2> QED
    BY <2>1, <2>2, <1>3 DEF StoredIsThere
<1>8. ReadyIsStored'
  <2>1. CASE MarkReady(u)
    <3>1. uploader[u].image \in object /\ UNCHANGED object
      BY <2>1 DEF MarkReady, StoredIsThere
    <3>2. \A n \in Media : n # uploader[u].image => media'[n] = media[n]
      BY <2>1 DEF MarkReady, MediaTypes, MediaTypeOK
    <3> QED
      BY <3>1, <3>2 DEF ReadyIsStored
  <2>2. CASE MoveToCleanup(u)
    BY <2>2, <1>2, DiscardTypes DEF MoveToCleanup, Discard, ReadyIsStored
  <2> QED
    BY <1>7, <2>1, <2>2
       DEF ReadyIsStored, Dispatch, PutSucceeds, PutFails, UploadCrashes
<1> QED
  BY <1>5, <1>6, <1>7, <1>8

\* Whatever leaves requests alone and brings no row to an object under a lock
\* keeps the locks.
LEMMA CleanerKeepsLocks ==
    ASSUME MediaInv, NEW c \in Cleaners, UNCHANGED uploader,
           cleaner' \in [Cleaners -> Cleanings],
           \A e \in Cleaners : e # c => cleaner'[e] = cleaner[e],
           AtObject(c)' => /\ media[cleaner'[c].image].state = "none"
                           /\ \A u \in Uploaders : uploader[u].image # cleaner'[c].image,
           AtObject(c)' => cleaner'[c].image \in Media,
           \A m \in Media : media[m].state = "none" => media'[m].state = "none"
    PROVE  ObjectsAreLocked'
<1>1. \A e \in Cleaners : AtObject(e)' =>
         /\ media'[cleaner'[e].image].state = "none"
         /\ \A v \in Uploaders : uploader'[v].image # cleaner'[e].image
  <2> SUFFICES ASSUME NEW e \in Cleaners, AtObject(e)'
               PROVE  /\ media'[cleaner'[e].image].state = "none"
                      /\ \A v \in Uploaders : uploader[v].image # cleaner'[e].image
    OBVIOUS
  <2>1. CASE e = c
    BY <2>1
  <2>2. CASE e # c
    <3>1. AtObject(e) /\ cleaner'[e] = cleaner[e]
      BY <2>2 DEF AtObject
    <3>2. cleaner[e].image \in Media
      BY <3>1 DEF MediaInv, MediaTypes, AtObject, Cleanings
    <3> QED
      BY <3>1, <3>2 DEF MediaInv, ObjectsAreLocked
  <2> QED
    BY <2>1, <2>2
<1> QED
  BY <1>1 DEF MediaInv, ObjectsAreLocked

\* A table of jobs in which a leased job has a holder, and one row of it.
JobRows == [state : {"none", "pending", "deleting"}, lease : Cleaners \cup {Nobody},
            expired : BOOLEAN, uncertain : BOOLEAN]
JobsOK(jobs) ==
    /\ jobs \in [Media -> JobRows]
    /\ \A m \in Media : jobs[m].state = "deleting" <=> jobs[m].lease # Nobody

LEMMA JobRowTypes ==
    ASSUME NEW jobs, JobsOK(jobs), NEW m \in Media, NEW row \in JobRows,
           row.state = "deleting" <=> row.lease # Nobody
    PROVE  JobsOK([jobs EXCEPT ![m] = row])
  BY DEF JobsOK

LEMMA JobsAreTyped ==
    ASSUME MediaTypeOK
    PROVE  JobsOK(job)
  BY DEF MediaTypeOK, JobsOK, JobRows

LEMMA RecoveredTypes ==
    ASSUME MediaTypeOK
    PROVE  JobsOK(RecoveredJobs)
  BY DEF MediaTypeOK, JobsOK, JobRows, RecoveredJobs, NoJob

\* The rest of MediaTypeOK, for steps that touch jobs.
LEMMA JobsKeepTypes ==
    ASSUME MediaTypeOK, JobsOK(job'), UNCHANGED <<media, late>>, object' \subseteq Media,
           attempt' \in [Media -> {"none", "prepared", "dispatched", "accepted"}]
    PROVE  MediaTypeOK'
  BY DEF MediaTypeOK, JobsOK, JobRows

\* RetryCleanup gives the job back.
LEMMA RetryTypes ==
    ASSUME MediaTypeOK, NEW c \in Cleaners, cleaner[c].image \in Media, Retry(c)
    PROVE  JobsOK(job')
<1> DEFINE row == [NoJob EXCEPT !.state = "pending",
                                !.uncertain = job[cleaner[c].image].uncertain]
<1>1. job[cleaner[c].image].uncertain \in BOOLEAN
  BY DEF MediaTypeOK
<1>2. row \in JobRows /\ (row.state = "deleting" <=> row.lease # Nobody)
  BY <1>1 DEF NoJob, JobRows
<1>3. JobsOK(job) /\ JobsOK([job EXCEPT ![cleaner[c].image] = row])
  BY <1>2, JobsAreTyped, JobRowTypes
<1>4. job' = job \/ job' = [job EXCEPT ![cleaner[c].image] = row]
  BY DEF Retry
<1> QED
  BY <1>3, <1>4

\* Steps that no request and no cleaner takes.
LEMMA TimeKeepsMedia ==
    ASSUME MediaInv, UNCHANGED life, NEW m \in Media,
           DeleteImage(m) \/ LandLate(m) \/ LoseLate(m) \/ Tick(m) \/ LeaseEnds(m)
    PROVE  MediaInv'
<1> USE DEF MediaInv
<1>1. UNCHANGED <<tested, cleaner, uploader>>
  BY DEF DeleteImage, LandLate, LoseLate, Tick, LeaseEnds
<1>2. clock' \in [Media -> 0..Unclaimed]
  <2>1. CASE Tick(m)
    BY <2>1 DEF Tick, MediaTypes
  <2> QED
    BY <2>1 DEF DeleteImage, LandLate, LoseLate, LeaseEnds, MediaTypes
<1>3. MediaTypeOK' /\ \A n \in Media : media'[n].state \in {media[n].state, "none"}
  <2> USE DEF MediaTypes
  <2>1. CASE DeleteImage(m)
    <3> HIDE DEF MediaTypes
    <3>1. Discard({m}) /\ UNCHANGED <<attempt, object, late>> /\ {m} \in SUBSET Media
      BY <2>1 DEF DeleteImage
    <3> QED
      BY <3>1, DiscardKeepsTypes
  <2>2. CASE LandLate(m) \/ LoseLate(m)
    BY <2>2 DEF LandLate, LoseLate, MediaTypeOK
  <2>3. CASE Tick(m)
    BY <2>3 DEF Tick, MediaTypeOK
  <2>4. CASE LeaseEnds(m)
    <3>1. /\ job' = [job EXCEPT ![m] = [job[m] EXCEPT !.expired = TRUE]]
          /\ UNCHANGED <<media, attempt, object, late>>
      BY <2>4 DEF LeaseEnds, MediaTypeOK
    <3>2. JobsOK(job) /\ job[m] \in JobRows
      BY JobsAreTyped DEF JobsOK
    <3>3. /\ [job[m] EXCEPT !.expired = TRUE] \in JobRows
          /\ [job[m] EXCEPT !.expired = TRUE].state = job[m].state
          /\ [job[m] EXCEPT !.expired = TRUE].lease = job[m].lease
      BY <3>2 DEF JobRows
    <3>4. JobsOK(job')
      BY <3>1, <3>2, <3>3 DEF JobsOK
    <3> QED
      BY <3>1, <3>4, JobsKeepTypes DEF MediaTypeOK
  <2> QED
    BY <2>1, <2>2, <2>3, <2>4
<1>4. object \subseteq object'
  BY DEF DeleteImage, LandLate, LoseLate, Tick, LeaseEnds
<1>5. MediaTypes'
  BY <1>1, <1>2, <1>3 DEF MediaTypes
<1>6. ObjectsAreLocked'
  BY <1>1, <1>3 DEF MediaTypes, ObjectsAreLocked, AtObject, Cleanings
<1>7. StoredIsThere' /\ ReadyIsStored'
  BY <1>1, <1>3, <1>4 DEF StoredIsThere, ReadyIsStored
<1> QED
  BY <1>5, <1>6, <1>7



\* Cleaners take rows from nobody, and objects only from images without a row.
LEMMA CleanerKeepsMedia ==
    ASSUME MediaInv, UNCHANGED life, NEW c \in Cleaners,
           CleanerStep(c) \/ AcquireCleanup(c) \/ DeleteFails(c) \/ CleanerCrashes(c)
    PROVE  MediaInv'
<1> USE DEF MediaInv
<1>1. UNCHANGED <<tested, uploader, clock, media, late>>
  BY DEF CleanerStep, ClaimCleanup, DeleteObject, LookAgain, Conclude, AcquireCleanup,
         DeleteFails, CleanerCrashes
<1>2. cleaner[c].image \in Media \/ cleaner[c].pc \in {"idle", "swept"}
  BY DEF MediaTypes, Cleanings
<1>3. MediaTypeOK'
  <2>0. MediaTypeOK /\ JobsOK(job)
    BY JobsAreTyped DEF MediaTypes
  <2>1. JobsOK(job')
    <3>1. CASE ClaimCleanup(c)
      <4>1. JobsOK(RecoveredJobs)
        BY <2>0, RecoveredTypes
      <4>2. CASE job' = RecoveredJobs
        BY <4>1, <4>2
      <4>3. ASSUME NEW m \in Media,
                   job' = [RecoveredJobs EXCEPT ![m].state = "deleting", ![m].lease = c]
            PROVE  JobsOK(job')
        <5> DEFINE row == [RecoveredJobs[m] EXCEPT !.state = "deleting", !.lease = c]
        <5>1. RecoveredJobs[m] \in JobRows /\ c # Nobody
          BY <4>1 DEF JobsOK
        <5>2. row \in JobRows /\ row.state = "deleting" /\ row.lease = c
          BY <5>1 DEF JobRows
        <5>3. job' = [RecoveredJobs EXCEPT ![m] = row]
          BY <4>1, <4>3 DEF JobsOK
        <5> QED
          BY <4>1, <5>1, <5>2, <5>3, JobRowTypes
      <4> QED
        BY <3>1, <4>2, <4>3 DEF ClaimCleanup
    <3>2. CASE Conclude(c) \/ DeleteFails(c) \/ AcquireCleanup(c)
      <4>1. cleaner[c].image \in Media
        BY <1>2, <3>2 DEF Conclude, DeleteFails, AcquireCleanup
      <4>2. NoJob \in JobRows /\ (NoJob.state = "deleting" <=> NoJob.lease # Nobody)
        BY DEF NoJob, JobRows
      <4>3. \/ job' = job \/ Retry(c)
            \/ job' = [job EXCEPT ![cleaner[c].image] = NoJob]
        BY <3>2 DEF Conclude, DeleteFails, AcquireCleanup
      <4> QED
        BY <2>0, <4>1, <4>2, <4>3, JobRowTypes, RetryTypes
    <3>3. CASE DeleteObject(c) \/ LookAgain(c) \/ CleanerCrashes(c)
      BY <2>0, <3>3 DEF DeleteObject, LookAgain, CleanerCrashes
    <3> QED
      BY <3>1, <3>2, <3>3 DEF CleanerStep
  <2>2. object' \subseteq Media
    BY <2>0 DEF CleanerStep, ClaimCleanup, DeleteObject, LookAgain, Conclude, AcquireCleanup,
                DeleteFails, CleanerCrashes, MediaTypeOK
  <2>3. attempt' \in [Media -> {"none", "prepared", "dispatched", "accepted"}]
    <3>1. CASE Conclude(c)
      BY <2>0, <3>1 DEF Conclude, MediaTypeOK
    <3> QED
      BY <2>0, <3>1 DEF CleanerStep, ClaimCleanup, DeleteObject, LookAgain, AcquireCleanup,
                        DeleteFails, CleanerCrashes, MediaTypeOK
  <2> QED
    BY <1>1, <2>0, <2>1, <2>2, <2>3, JobsKeepTypes
<1>4. /\ cleaner' \in [Cleaners -> Cleanings]
      /\ \A e \in Cleaners : e # c => cleaner'[e] = cleaner[e]
      /\ cleaner'[c].pc \in {"idle", "swept"} <=> cleaner'[c].image = Nobody
      /\ AtObject(c)' => /\ cleaner'[c].image = cleaner[c].image
                         /\ \/ AtObject(c)
                            \/ /\ media[cleaner[c].image].state = "none"
                               /\ ~ObjectFenced(cleaner[c].image)
  <2> USE DEF MediaTypes, Cleanings, AtObject, Cleaning, StopCleaning, NoCleaning
  <2>1. CASE ClaimCleanup(c)
    <3>1. ASSUME NEW m \in Media,
                 cleaner' = [cleaner EXCEPT ![c] = [pc |-> "claimed", image |-> m,
                                                    now |-> clock[m], gone |-> FALSE]]
          PROVE  /\ cleaner' \in [Cleaners -> Cleanings]
                 /\ \A e \in Cleaners : e # c => cleaner'[e] = cleaner[e]
                 /\ cleaner'[c].pc = "claimed" /\ cleaner'[c].image = m
      BY <3>1
    <3>2. CASE cleaner' = [cleaner EXCEPT ![c] = NoCleaning]
      BY <3>2
    <3>3. \/ cleaner' = [cleaner EXCEPT ![c] = NoCleaning]
          \/ \E m \in Media : cleaner' = [cleaner EXCEPT ![c] =
                                 [pc |-> "claimed", image |-> m, now |-> clock[m], gone |-> FALSE]]
      BY <2>1 DEF ClaimCleanup
    <3> QED
      BY <3>1, <3>2, <3>3
  <2>2. CASE DeleteObject(c)
    BY <2>2 DEF DeleteObject
  <2>3. CASE LookAgain(c)
    <3> DEFINE b == cleaner[c].image \notin object
    <3>1. b \in BOOLEAN
      OBVIOUS
    <3>2. cleaner' = [cleaner EXCEPT ![c] = [cleaner[c] EXCEPT !.pc = "looked", !.gone = b]]
      BY <2>3 DEF LookAgain
    <3> HIDE DEF b
    <3>3. cleaner[c].pc = "deleted" /\ cleaner[c] \in Cleanings
      BY <2>3 DEF LookAgain
    <3> DEFINE r == [cleaner[c] EXCEPT !.pc = "looked", !.gone = b]
    <3>4. r \in Cleanings /\ r.pc = "looked" /\ r.image = cleaner[c].image
      BY <3>1, <3>3
    <3>5. cleaner' \in [Cleaners -> Cleanings] /\ cleaner'[c] = r
      BY <3>2, <3>4
    <3>6. \A e \in Cleaners : e # c => cleaner'[e] = cleaner[e]
      BY <3>2
    <3>7. cleaner[c].image # Nobody
      BY <3>3
    <3> HIDE DEF r
    <3> QED
      BY <3>3, <3>4, <3>5, <3>6, <3>7
  <2>4. CASE StopCleaning(c)
    BY <2>4
  <2>5. CASE AcquireCleanup(c) /\ Cleaning(c, "deleting")
    <3>1. cleaner[c].pc = "claimed" /\ cleaner[c].image \in Media
      BY <2>5, <1>2 DEF AcquireCleanup
    <3>2. cleaner'[c] = [cleaner[c] EXCEPT !.pc = "deleting"]
      BY <2>5
    <3>3. media[cleaner[c].image].state = "none" /\ ~ObjectFenced(cleaner[c].image)
      BY <2>5, <3>1, <3>2 DEF AcquireCleanup, HoldsJob
    <3>4. cleaner' \in [Cleaners -> Cleanings] /\ \A e \in Cleaners : e # c => cleaner'[e] = cleaner[e]
      BY <2>5, <3>1
    <3>5. cleaner'[c].pc = "deleting" /\ cleaner'[c].image = cleaner[c].image
      BY <3>2
    <3> QED
      BY <3>1, <3>3, <3>4, <3>5
  <2>6. \/ ClaimCleanup(c) \/ DeleteObject(c) \/ LookAgain(c) \/ StopCleaning(c)
        \/ AcquireCleanup(c) /\ Cleaning(c, "deleting")
    <3> HIDE DEF StopCleaning, Cleaning
    <3>1. CASE Conclude(c) \/ DeleteFails(c) \/ CleanerCrashes(c)
      BY <3>1 DEF Conclude, DeleteFails, CleanerCrashes, Retry
    <3>2. CASE AcquireCleanup(c)
      BY <3>2 DEF AcquireCleanup
    <3> QED
      BY <3>1, <3>2 DEF CleanerStep
  <2> QED
    BY <2>1, <2>2, <2>3, <2>4, <2>5, <2>6
<1>5. MediaTypes'
  BY <1>1, <1>3, <1>4 DEF MediaTypes
<1>6. ObjectsAreLocked'
  <2>1. AtObject(c)' => /\ media[cleaner'[c].image].state = "none"
                        /\ \A u \in Uploaders : uploader[u].image # cleaner'[c].image
    BY <1>4 DEF ObjectsAreLocked, ObjectFenced
  <2>2. AtObject(c)' => cleaner'[c].image \in Media
    BY <1>4 DEF AtObject, Cleanings
  <2> QED
    BY <1>1, <1>4, <2>1, <2>2, CleanerKeepsLocks
<1>7. \A m \in object : m \in object' \/ (AtObject(c) /\ m = cleaner[c].image)
  BY DEF CleanerStep, ClaimCleanup, DeleteObject, LookAgain, Conclude, AcquireCleanup,
         DeleteFails, CleanerCrashes, AtObject
<1>8. StoredIsThere' /\ ReadyIsStored'
  BY <1>1, <1>7 DEF StoredIsThere, ReadyIsStored, ObjectsAreLocked
<1> QED
  BY <1>5, <1>6, <1>8

\* A save and what ends a post take images from posts, and bring none.
LEMMA AttachTypes ==
    ASSUME MediaTypes, NEW p \in Posts, NEW images \in SUBSET Media, images \subseteq Usable(p),
           media' = Attach(p, images), job' = job \/ \E ms \in SUBSET Media : job' = Enqueued(ms),
           UNCHANGED <<attempt, object, late>>
    PROVE  /\ MediaTypeOK'
           /\ \A m \in Media : media'[m].state \in {media[m].state, "none"}
<1>1. \A m \in images : media[m].state = "ready"
  BY DEF Usable
<1>2. /\ media' \in [Media -> [state : {"none", "uploading", "ready"}, gen : Nat,
                               post : Posts \cup {Nobody}]]
      /\ \A m \in Media : media'[m].post # Nobody => media'[m].state = "ready"
      /\ \A m \in Media : media'[m].state \in {media[m].state, "none"}
  BY <1>1 DEF Attach, NoMedia, MediaTypes, MediaTypeOK
<1>3. /\ job' \in [Media -> [state : {"none", "pending", "deleting"},
                             lease : Cleaners \cup {Nobody},
                             expired : BOOLEAN, uncertain : BOOLEAN]]
      /\ \A m \in Media : (job'[m].state = "deleting") = (job'[m].lease # Nobody)
  BY DiscardTypes DEF MediaTypes, MediaTypeOK
<1> QED
  BY <1>2, <1>3 DEF MediaTypes, MediaTypeOK

\* Steps of the schedule leave requests, objects and cleaners alone.
LEMMA SheddingKeepsMedia ==
    ASSUME MediaInv, life' \in [state : States, gen : Nat], MediaTypeOK',
           UNCHANGED <<attempt, clock, object, late, tested, uploader>>,
           \/ UNCHANGED cleaner
           \/ \E c \in Cleaners : cleaner[c].pc = "idle" /\ Cleaning(c, "swept"),
           \A m \in Media : media'[m].state \in {media[m].state, "none"}
    PROVE  MediaInv'
<1> USE DEF MediaInv
<1>1. /\ cleaner' \in [Cleaners -> Cleanings]
      /\ \A c \in Cleaners : cleaner'[c].pc \in {"idle", "swept"} <=> cleaner'[c].image = Nobody
      /\ \A c \in Cleaners : AtObject(c)' => AtObject(c) /\ cleaner'[c] = cleaner[c]
  BY DEF MediaTypes, Cleanings, Cleaning, AtObject
<1>2. MediaTypes'
  BY <1>1 DEF MediaTypes
<1>3. ObjectsAreLocked'
  BY <1>1 DEF ObjectsAreLocked, MediaTypes, AtObject, Cleanings
<1>4. StoredIsThere' /\ ReadyIsStored'
  BY DEF StoredIsThere, ReadyIsStored
<1> QED
  BY <1>2, <1>3, <1>4

\* What the tables of the schedule and its workers hold.
PostRows == [state : Rows \cup {"none", "gone"}, gen : Nat, version : 0..Versions,
             attempt : 0..Attempts, frozen : BOOLEAN, lease : Workers \cup {Nobody},
             expired : BOOLEAN, aged : BOOLEAN]
PostRowOK(row) ==
    /\ row \in PostRows
    /\ row.state = "publishing" <=> row.lease # Nobody
    /\ row.state \in Rows => row.version # 0
Claims == [pc : {"idle", "claimed", "checked", "frozen", "upload", "write", "sent",
                 "accepted", "ambiguous", "rejected", "failed"},
           post : Posts \cup {Nobody}, version : 0..Versions, gen : Nat,
           manual : BOOLEAN, images : SUBSET Media]
ClaimOK(claim) ==
    /\ claim \in Claims
    /\ claim.pc # "idle" => claim.post \in Posts /\ claim.version # 0

PostsTyped == post \in [Posts -> PostRows] /\ \A p \in Posts : PostRowOK(post[p])
WorkersTyped == worker \in [Workers -> Claims] /\ \A w \in Workers : ClaimOK(worker[w])
WritesTyped ==
    /\ tombstone \in [Posts -> 0..Versions]
    /\ command \in [Posts -> [1..Versions -> {"none", "open", "accepted", "rejected"}]]
    /\ wire \subseteq Posts \X (1..Versions)
    /\ landed \in [Posts -> [1..Versions -> Nat]]
    /\ sent \in [Posts -> SUBSET (1..Versions)]

PostTypes ==
    /\ life \in [state : States, gen : Nat]
    /\ PostsTyped /\ WorkersTyped /\ WritesTyped

\* Every step keeps MediaInv, and ReadyIsStored with it.
LEMMA HostedKeepsMedia ==
    ASSUME MediaInv, PostTypes, HostedStep
    PROVE  MediaInv'
<1>1. CASE UNCHANGED hostedVars
  BY <1>1 DEF hostedVars, mediaVars, MediaInv, MediaTypes, MediaTypeOK, ObjectsAreLocked,
              StoredIsThere, ReadyIsStored, AtObject
<1>2. CASE MediaStep
  BY <1>2, ReserveKeepsMedia, UploadKeepsMedia, TimeKeepsMedia, CleanerKeepsMedia
     DEF MediaStep, MediaNext
<1>3. ASSUME NEW p \in Posts, NEW images \in SUBSET Media,
             Create(p, images) \/ Update(p, images) \/ \E w \in Workers : PostNow(w, p, images)
      PROVE  MediaInv'
  <2>1. /\ images \subseteq Usable(p)
        /\ media' = Attach(p, images)
        /\ job' = job \/ job' = Enqueued(Attached(p) \ images)
        /\ UNCHANGED <<life, attempt, clock, object, late, tested, uploader, cleaner>>
    BY <1>3 DEF Create, Update, PostNow, Save
  <2>2. Attached(p) \ images \in SUBSET Media
    BY DEF Attached
  <2>3. MediaTypeOK' /\ \A m \in Media : media'[m].state \in {media[m].state, "none"}
    BY <2>1, <2>2, AttachTypes DEF MediaInv
  <2> QED
    BY <2>1, <2>3, SheddingKeepsMedia DEF MediaInv, MediaTypes
<1>4. ASSUME NEW ms \in SUBSET Media, Discard(ms),
             UNCHANGED <<attempt, clock, object, late, tested, uploader>>,
             life' \in [state : States, gen : Nat],
             \/ UNCHANGED cleaner
             \/ \E c \in Cleaners : cleaner[c].pc = "idle" /\ Cleaning(c, "swept")
      PROVE  MediaInv'
  BY <1>4, DiscardKeepsTypes, SheddingKeepsMedia DEF MediaInv
<1>5. life \in [state : States, gen : Nat]
  BY DEF MediaInv, MediaTypes
<1>6. \A p \in Posts : Attached(p) \in SUBSET Media
  BY DEF Attached
<1>7. ASSUME NEW p \in Posts, Delete(p)
      PROVE  MediaInv'
  BY <1>4, <1>5, <1>6, <1>7 DEF Delete
<1>8. ASSUME NEW c \in Cleaners, Sweep(c)
      PROVE  MediaInv'
  <2> DEFINE old == {p \in Posts : post[p].state = "needs_attention" /\ post[p].aged}
             ms == ExpiredImages \cup UNION {Attached(p) : p \in old}
  <2>1. ms \in SUBSET Media
    BY <1>6 DEF ExpiredImages
  <2>2. /\ Discard(ms) /\ cleaner[c].pc = "idle" /\ Cleaning(c, "swept")
        /\ UNCHANGED <<life, attempt, clock, object, late, tested, uploader>>
    BY <1>8 DEF Sweep
  <2> QED
    BY <1>4, <1>5, <2>1, <2>2
<1>9. ASSUME NEW to \in States, Transition(to)
      PROVE  MediaInv'
  <2> DEFINE cancelled == IF life.state = "active"
                          THEN {p \in Posts : post[p].state \in Rows /\ post[p].gen = life.gen}
                          ELSE {}
             ms == UNION {Attached(p) : p \in cancelled}
  <2>1. ms \in SUBSET Media
    BY <1>6
  <2>2. /\ Discard(ms)
        /\ life' \in [state : States, gen : Nat]
        /\ UNCHANGED <<attempt, clock, object, late, tested, uploader, cleaner>>
    BY <1>5, <1>9 DEF Transition
  <2> QED
    BY <1>4, <2>1, <2>2
<1>10. CASE Emptied
  <2>1. {m \in Media : media[m].state # "none"} \in SUBSET Media
    OBVIOUS
  <2> QED
    BY <1>4, <1>5, <1>10, <2>1 DEF Emptied
<1>11. ASSUME NEW w \in Workers, Finalize(w), worker[w].post \in Posts
       PROVE  MediaInv'
  <2>1. CASE Discard(Attached(worker[w].post))
    BY <1>4, <1>5, <1>6, <1>11, <2>1 DEF Finalize
  <2>2. CASE UNCHANGED <<media, job>>
    BY <1>11, <2>2 DEF Finalize, MediaInv, MediaTypes, MediaTypeOK, ObjectsAreLocked,
                       StoredIsThere, ReadyIsStored, AtObject
  <2> QED
    BY <1>11, <2>1, <2>2 DEF Finalize
<1>12. ASSUME UNCHANGED <<life, mediaVars>>
       PROVE  MediaInv'
  BY <1>12 DEF mediaVars, MediaInv, MediaTypes, MediaTypeOK, ObjectsAreLocked,
               StoredIsThere, ReadyIsStored, AtObject
<1>13. CASE \E p \in Posts : LeaseLapses(p) \/ Age(p)
  BY <1>12, <1>13 DEF LeaseLapses, Expire, Age
<1>14. ASSUME NEW w \in Workers, ClaimDue(w) \/ WorkerStep(w)
       PROVE  MediaInv'
  <2>1. CASE Finalize(w)
    <3>1. worker[w].post \in Posts
      BY <2>1 DEF Finalize, PostTypes, WorkersTyped, ClaimOK
    <3> QED
      BY <1>11, <2>1, <3>1
  <2> QED
    BY <1>12, <1>14, <2>1
       DEF ClaimDue, WorkerStep, Snapshot, Freeze, Acquire, Upload, Write, Answered, GiveUp
<1>15. ASSUME NEW w \in Workers,
              \/ NoAnswer(w) \/ UploadFails(w) \/ Crash(w) \/ OutlivesLease(w)
              \/ \E permanent \in BOOLEAN :
                    PreparationFails(w, permanent) \/ Refused(w, permanent)
       PROVE  MediaInv'
  BY <1>12, <1>15 DEF NoAnswer, UploadFails, Crash, OutlivesLease, Expire,
                      PreparationFails, Refused
<1>16. CASE \E write \in wire : Land(write) \/ Lose(write)
  BY <1>12, <1>16 DEF Land, Lose
<1> QED
  BY <1>1, <1>2, <1>3, <1>7, <1>8, <1>9, <1>10, <1>13, <1>14, <1>15, <1>16
     DEF HostedStep, Next, Move

----------------------------------------------------------------------------
(* The types of the schedule.                                              *)

LEMMA PostInitTypes == Init => PostTypes
  BY DEF Init, PostTypes, PostsTyped, WorkersTyped, WritesTyped, PostRowOK, PostRows,
         ClaimOK, Claims, NoPost, NoClaim, Rows, Mutable, States

LEMMA Bounds ==
    /\ 0 \in 0..Versions /\ 1 \in 1..Versions /\ 1 \in 0..Versions
    /\ 0 \in 0..Attempts /\ Attempts \in 0..Attempts
  OBVIOUS

LEMMA RowTypes ==
    ASSUME PostsTyped, NEW p \in Posts, NEW row, PostRowOK(row), post' = [post EXCEPT ![p] = row]
    PROVE  PostsTyped'
  BY DEF PostsTyped, PostRowOK

LEMMA ClaimTypes ==
    ASSUME WorkersTyped, NEW w \in Workers, NEW claim, ClaimOK(claim),
           worker' = [worker EXCEPT ![w] = claim]
    PROVE  WorkersTyped'
  BY DEF WorkersTyped, ClaimOK

\* Workers that go on with what they have, or stop.
LEMMA StepTypes ==
    ASSUME WorkersTyped, NEW w \in Workers, worker[w].pc # "idle",
           \/ Stop(w)
           \/ \E pc \in {"claimed", "checked", "frozen", "upload", "write", "sent",
                         "accepted", "ambiguous", "rejected", "failed"} : Step(w, pc)
    PROVE  WorkersTyped'
<1>1. CASE Stop(w)
  <2>1. NoClaim \in Claims /\ NoClaim.pc = "idle"
    BY Bounds DEF NoClaim, Claims
  <2> QED
    BY <1>1, <2>1, ClaimTypes DEF Stop, ClaimOK
<1>2. ASSUME NEW pc \in {"claimed", "checked", "frozen", "upload", "write", "sent",
                         "accepted", "ambiguous", "rejected", "failed"}, Step(w, pc)
      PROVE  WorkersTyped'
  <2> DEFINE claim == [worker[w] EXCEPT !.pc = pc]
  <2>1. worker' = [worker EXCEPT ![w] = claim]
    BY <1>2 DEF Step
  <2>2. ClaimOK(worker[w])
    BY DEF WorkersTyped
  <2>3. ClaimOK(claim)
    BY <2>2 DEF ClaimOK, Claims
  <2> QED
    BY <2>1, <2>3, ClaimTypes
<1> QED
  BY <1>1, <1>2

LEMMA GoneTypes ==
    ASSUME PostsTyped, NEW p \in Posts
    PROVE  PostRowOK(Gone(p))
<1>1. post[p].gen \in Nat
  BY DEF PostsTyped, PostRows
<1>2. Gone(p).state = "gone" /\ Gone(p).lease = Nobody
  BY DEF Gone, NoPost
<1>3. Gone(p) \in PostRows
  BY <1>1, Bounds DEF PostRows, Gone, NoPost
<1> QED
  BY <1>2, <1>3 DEF PostRowOK, Rows, Mutable

\* The member's requests.
LEMMA MemberKeepsTypes ==
    ASSUME PostTypes, NEW p \in Posts, NEW images \in SUBSET Media,
           \/ Create(p, images) \/ Update(p, images) \/ Delete(p)
           \/ \E w \in Workers : PostNow(w, p, images)
    PROVE  PostTypes'
<1> USE DEF PostTypes
<1>1. life' = life /\ WritesTyped'
  BY DEF Create, Update, Delete, PostNow, WritesTyped
<1>2. CASE Create(p, images)
  <2> DEFINE row == [NoPost EXCEPT !.state = "scheduled", !.gen = life.gen, !.version = 1]
  <2>1. row.state = "scheduled" /\ row.version = 1 /\ row.lease = Nobody
    BY DEF NoPost
  <2>2. PostRowOK(row)
    <3>1. row \in PostRows
      BY Bounds DEF PostRows, NoPost, Rows, Mutable
    <3> QED
      BY <2>1, <3>1 DEF PostRowOK
  <2>3. post' = [post EXCEPT ![p] = row] /\ UNCHANGED worker
    BY <1>2 DEF Create
  <2> HIDE DEF row
  <2> QED
    BY <1>1, <2>2, <2>3, RowTypes DEF WorkersTyped
<1>3. CASE Update(p, images)
  <2> DEFINE row == [Fresh(p) EXCEPT !.state = "scheduled"]
  <2>1. post[p].version + 1 \in 1..Versions /\ post[p].gen \in Nat
    <3>1. post[p].version < Versions
      BY <1>3 DEF Update, Save
    <3> QED
      BY <3>1 DEF PostsTyped, PostRows
  <2>2. row.state = "scheduled" /\ row.version = post[p].version + 1 /\ row.lease = Nobody
    BY DEF NoPost, Fresh
  <2>3. PostRowOK(row)
    <3>1. post[p].version + 1 \in 0..Versions /\ post[p].version + 1 # 0
      BY <2>1
    <3>2. row \in PostRows
      BY <2>1, <3>1, Bounds DEF PostRows, NoPost, Fresh, Rows, Mutable
    <3> QED
      BY <2>2, <3>1, <3>2 DEF PostRowOK
  <2>4. post' = [post EXCEPT ![p] = row] /\ UNCHANGED worker
    BY <1>3 DEF Update, Save
  <2> HIDE DEF row
  <2> QED
    BY <1>1, <2>3, <2>4, RowTypes DEF WorkersTyped
<1>4. CASE Delete(p)
  <2>1. post' = [post EXCEPT ![p] = Gone(p)] /\ UNCHANGED worker
    BY <1>4 DEF Delete
  <2> QED
    BY <1>1, <2>1, GoneTypes, RowTypes DEF WorkersTyped
<1>5. ASSUME NEW w \in Workers, PostNow(w, p, images)
      PROVE  PostTypes'
  <2> DEFINE row == [Fresh(p) EXCEPT !.state = "publishing", !.attempt = Attempts, !.lease = w]
             claim == [NoClaim EXCEPT !.pc = "claimed", !.post = p,
                         !.version = post[p].version + 1, !.gen = life.gen, !.manual = TRUE]
  <2>1. post[p].version + 1 \in 1..Versions /\ post[p].gen \in Nat
    <3>1. post[p].version < Versions
      BY <1>5 DEF PostNow, Save
    <3> QED
      BY <3>1 DEF PostsTyped, PostRows
  <2>2. /\ row.state = "publishing" /\ row.version = post[p].version + 1
        /\ row.lease = w /\ w # Nobody
    BY DEF NoPost, Fresh
  <2>3. claim.pc = "claimed" /\ claim.version = post[p].version + 1 /\ claim.post = p
    BY DEF NoClaim
  <2>4. post' = [post EXCEPT ![p] = row] /\ worker' = [worker EXCEPT ![w] = claim]
    BY <1>5 DEF PostNow, Save
  <2>5. PostRowOK(row)
    <3>1. post[p].version + 1 \in 0..Versions /\ post[p].version + 1 # 0
      BY <2>1
    <3>2. row \in PostRows
      BY <2>1, <3>1, Bounds DEF PostRows, NoPost, Fresh, Rows, Mutable
    <3> QED
      BY <2>2, <3>1, <3>2 DEF PostRowOK
  <2>6. ClaimOK(claim)
    <3>1. post[p].version + 1 \in 0..Versions /\ post[p].version + 1 # 0
      BY <2>1
    <3>2. claim \in Claims
      BY <2>1, <3>1 DEF Claims, NoClaim
    <3> QED
      BY <2>3, <3>1, <3>2 DEF ClaimOK
  <2> HIDE DEF row, claim
  <2> QED
    BY <1>1, <2>4, <2>5, <2>6, RowTypes, ClaimTypes
<1> QED
  BY <1>2, <1>3, <1>4, <1>5

\* A row that gets a lease, or whose lease lapses, or that fails.
LEMMA FailTypes ==
    ASSUME PostTypes, NEW w \in Workers, worker[w].pc # "idle", NEW permanent \in BOOLEAN,
           Fail(w, permanent)
    PROVE  PostsTyped' /\ WorkersTyped'
<1> DEFINE p == worker[w].post
           over == permanent \/ worker[w].manual \/ post[p].attempt >= Attempts
           row == [post[p] EXCEPT !.state = IF over THEN "needs_attention" ELSE "retrying",
                                  !.lease = Nobody, !.expired = FALSE]
<1>1. p \in Posts /\ PostRowOK(post[p])
  BY DEF PostTypes, PostsTyped, WorkersTyped, ClaimOK
<1>2. Owns(w) => PostRowOK(row)
  BY <1>1 DEF PostRowOK, PostRows, Owns, Rows, Mutable
<1>3. post' = IF Owns(w) THEN [post EXCEPT ![p] = row] ELSE post
  BY DEF Fail
<1>4. WorkersTyped'
  BY StepTypes DEF Fail, PostTypes
<1> HIDE DEF row
<1>5. PostsTyped'
  BY <1>1, <1>2, <1>3, RowTypes DEF PostTypes, PostsTyped
<1> QED
  BY <1>4, <1>5

\* Leases that lapsed are taken back; nothing else changes.
LEMMA RecoveredRows ==
    ASSUME PostsTyped
    PROVE  /\ RecoveredPosts \in [Posts -> PostRows]
           /\ \A p \in Posts :
                 /\ PostRowOK(RecoveredPosts[p])
                 /\ RecoveredPosts[p].version = post[p].version
                 /\ RecoveredPosts[p].gen = post[p].gen
                 /\ RecoveredPosts[p].aged = post[p].aged
                 /\ \/ RecoveredPosts[p] = post[p]
                    \/ post[p].state = "publishing" /\ RecoveredPosts[p].state = "retrying"
<1> SUFFICES ASSUME NEW p \in Posts
             PROVE  /\ RecoveredPosts[p] \in PostRows
                    /\ PostRowOK(RecoveredPosts[p])
                    /\ RecoveredPosts[p].version = post[p].version
                    /\ RecoveredPosts[p].gen = post[p].gen
                    /\ RecoveredPosts[p].aged = post[p].aged
                    /\ \/ RecoveredPosts[p] = post[p]
                       \/ post[p].state = "publishing" /\ RecoveredPosts[p].state = "retrying"
  BY DEF RecoveredPosts
<1> DEFINE row == [post[p] EXCEPT !.state = "retrying", !.lease = Nobody, !.expired = FALSE]
<1>1. post[p] \in PostRows /\ PostRowOK(post[p])
  BY DEF PostsTyped
<1>2. /\ row \in PostRows /\ row.state = "retrying" /\ row.lease = Nobody
      /\ row.version = post[p].version /\ row.gen = post[p].gen /\ row.aged = post[p].aged
  BY <1>1 DEF PostRows, Rows, Mutable
<1>3. \/ RecoveredPosts[p] = post[p]
      \/ post[p].state = "publishing" /\ RecoveredPosts[p] = row
  BY DEF RecoveredPosts
<1> HIDE DEF row
<1>4. post[p].state = "publishing" => PostRowOK(row)
  BY <1>1, <1>2 DEF PostRowOK, Rows
<1> QED
  BY <1>1, <1>2, <1>3, <1>4

\* ClaimDue takes one row for the worker, and recovers what lapsed.
LEMMA ClaimDueStep ==
    ASSUME PostTypes, NEW w \in Workers, ClaimDue(w)
    PROVE  \E p \in Posts :
              /\ PostsTyped' /\ WorkersTyped'
              /\ worker[w].pc = "idle"
              /\ RecoveredPosts[p].state \in Waiting \cup {"publishing"}
              /\ \A q \in Posts : q # p => post'[q] = RecoveredPosts[q]
              /\ post'[p].version = post[p].version /\ post'[p].gen = post[p].gen
              /\ post'[p].state = "publishing" /\ post'[p].aged = post[p].aged
              /\ worker'[w].pc = "claimed" /\ worker'[w].post = p
              /\ \A v \in Workers : v # w => worker'[v] = worker[v]
<1> DEFINE rows == RecoveredPosts
           finals == Finals(rows)
<1>1. PICK p \in IF finals # {} THEN finals ELSE Due(rows) :
         /\ post' = [rows EXCEPT
                       ![p].state = "publishing", ![p].lease = w, ![p].expired = FALSE,
                       ![p].attempt = IF p \in finals THEN @ ELSE @ + 1]
         /\ worker' = [worker EXCEPT ![w] = [NoClaim EXCEPT !.pc = "claimed",
                          !.post = p, !.version = rows[p].version, !.gen = rows[p].gen]]
  BY DEF ClaimDue
<1>2. /\ p \in Posts
      /\ rows[p].state \in Waiting \cup {"publishing"}
      /\ p \notin finals => rows[p].attempt < Attempts
  BY DEF Finals, Due
<1>3. /\ rows \in [Posts -> PostRows] /\ PostRowOK(rows[p])
      /\ rows[p].version = post[p].version /\ rows[p].gen = post[p].gen
      /\ rows[p].aged = post[p].aged
      /\ \A q \in Posts : PostRowOK(rows[q])
  BY <1>2, RecoveredRows DEF PostTypes
<1> HIDE DEF rows, finals
<1> DEFINE n == IF p \in finals THEN rows[p].attempt ELSE rows[p].attempt + 1
           row == [rows[p] EXCEPT !.state = "publishing", !.lease = w, !.expired = FALSE,
                                  !.attempt = n]
           claim == [NoClaim EXCEPT !.pc = "claimed", !.post = p, !.version = rows[p].version,
                                    !.gen = rows[p].gen]
<1>4. post' = [rows EXCEPT ![p] = row] /\ worker' = [worker EXCEPT ![w] = claim]
  BY <1>1, <1>2, <1>3
<1>5. rows[p].version # 0
  BY <1>2, <1>3 DEF PostRowOK, Rows, Mutable, Waiting
<1>6. n \in 0..Attempts
  BY <1>2, <1>3 DEF PostRows
<1>7. /\ row \in PostRows /\ row.state = "publishing" /\ row.lease = w
      /\ row.version = rows[p].version /\ row.gen = rows[p].gen /\ row.aged = rows[p].aged
  <2> HIDE DEF n
  <2> QED
    BY <1>2, <1>3, <1>6, ZenonT(60) DEF PostRows, Rows
<1>8. PostRowOK(row)
  BY <1>5, <1>7 DEF PostRowOK
<1>9. rows[p].version \in 0..Versions /\ rows[p].gen \in Nat
  BY <1>2, <1>3 DEF PostRows
<1>10. /\ claim \in Claims /\ claim.pc = "claimed" /\ claim.post = p
       /\ claim.version = rows[p].version
  BY <1>2, <1>9 DEF Claims, NoClaim
<1>11. ClaimOK(claim)
  BY <1>2, <1>5, <1>10 DEF ClaimOK
<1> HIDE DEF row, claim
<1>12. WorkersTyped'
  BY <1>4, <1>11, ClaimTypes DEF PostTypes
<1>13. PostsTyped'
  BY <1>2, <1>3, <1>4, <1>7, <1>8 DEF PostsTyped
<1>14. post'[p] = row /\ \A q \in Posts : q # p => post'[q] = rows[q]
  BY <1>2, <1>3, <1>4
<1>15. worker'[w] = claim /\ \A v \in Workers : v # w => worker'[v] = worker[v]
  BY <1>4 DEF PostTypes, WorkersTyped
<1>16. worker[w].pc = "idle"
  BY DEF ClaimDue
<1> QED
  BY <1>2, <1>3, <1>7, <1>10, <1>12, <1>13, <1>14, <1>15, <1>16 DEF rows

\* The other steps of a worker.
LEMMA WorkerKeepsTypes ==
    ASSUME PostTypes, NEW w \in Workers,
           \/ WorkerStep(w) \/ NoAnswer(w) \/ UploadFails(w) \/ Crash(w)
           \/ \E permanent \in BOOLEAN : PreparationFails(w, permanent) \/ Refused(w, permanent)
    PROVE  PostTypes'
<1> USE DEF PostTypes
<1>1. worker[w].pc # "idle" /\ life' = life
  BY DEF WorkerStep, Snapshot, Freeze, Acquire, Upload, Write, Answered, GiveUp, Finalize,
         NoAnswer, UploadFails, Crash, PreparationFails, Refused
<1>2. ClaimOK(worker[w]) /\ worker[w].post \in Posts /\ worker[w].version \in 1..Versions
  BY <1>1 DEF WorkersTyped, ClaimOK, Claims
<1>3. CASE Snapshot(w)
  <2>1. UNCHANGED <<post, tombstone, command, wire, landed, sent>>
    BY <1>3 DEF Snapshot
  <2>2. WorkersTyped'
    <3>1. CASE Owns(w)
      <4> DEFINE images == Attached(worker[w].post)
                 claim == [worker[w] EXCEPT !.pc = "checked", !.images = images]
      <4>1. worker' = [worker EXCEPT ![w] = claim]
        BY <1>3, <3>1 DEF Snapshot
      <4>2. images \in SUBSET Media
        BY DEF Attached
      <4> HIDE DEF images
      <4>3. claim \in Claims /\ claim.post = worker[w].post /\ claim.version = worker[w].version
        BY <1>2, <4>2 DEF ClaimOK, Claims
      <4>4. ClaimOK(claim)
        BY <1>2, <4>3 DEF ClaimOK
      <4> QED
        BY <4>1, <4>4, ClaimTypes
    <3>2. CASE ~Owns(w)
      BY <1>1, <1>3, <3>2, StepTypes DEF Snapshot
    <3> QED
      BY <3>1, <3>2
  <2> QED
    BY <1>1, <2>1, <2>2 DEF PostsTyped, WritesTyped
<1>4. CASE Freeze(w)
  <2>1. WritesTyped' /\ WorkersTyped'
    BY <1>1, <1>4, StepTypes DEF Freeze, WritesTyped
  <2>2. PostsTyped'
    <3> DEFINE row == [post[worker[w].post] EXCEPT !.frozen = TRUE]
    <3>0. post[worker[w].post] \in PostRows /\ PostRowOK(post[worker[w].post])
      BY <1>2 DEF PostsTyped
    <3>1. PostRowOK(row)
      <4>1. /\ row \in PostRows /\ row.state = post[worker[w].post].state
            /\ row.lease = post[worker[w].post].lease
            /\ row.version = post[worker[w].post].version
        BY <3>0 DEF PostRows
      <4> QED
        BY <3>0, <4>1 DEF PostRowOK
    <3>2. post' = post \/ post' = [post EXCEPT ![worker[w].post] = row]
      BY <1>4 DEF Freeze
    <3> HIDE DEF row
    <3> QED
      BY <1>2, <3>1, <3>2, RowTypes DEF PostsTyped
  <2> QED
    BY <1>1, <2>1, <2>2
<1>5. CASE Acquire(w) \/ Upload(w) \/ UploadFails(w) \/ NoAnswer(w) \/ Crash(w)
  <2>1. UNCHANGED <<post, tombstone, command, wire, landed, sent>>
    BY <1>5 DEF Acquire, Upload, UploadFails, NoAnswer, Crash
  <2>2. WorkersTyped'
    BY <1>1, <1>5, StepTypes DEF Acquire, Upload, UploadFails, NoAnswer, Crash
  <2> QED
    BY <1>1, <2>1, <2>2 DEF PostsTyped, WritesTyped
<1>6. ASSUME UNCHANGED <<post, tombstone, landed>>,
             NEW verdict \in {"none", "open", "accepted", "rejected"},
             command' = [command EXCEPT ![worker[w].post][worker[w].version] = verdict],
             wire' \subseteq wire \cup {<<worker[w].post, worker[w].version>>},
             \/ sent' = sent
             \/ sent' = [sent EXCEPT ![worker[w].post] = @ \cup {worker[w].version}],
             WorkersTyped'
      PROVE  PostTypes'
  <2>1. worker[w].post \in Posts /\ worker[w].version \in 1..Versions
    BY <1>2
  <2>2. command' \in [Posts -> [1..Versions -> {"none", "open", "accepted", "rejected"}]]
    BY <1>1, <1>6 DEF WritesTyped
  <2>3. wire' \subseteq Posts \X (1..Versions)
    BY <1>1, <1>6, <2>1 DEF WritesTyped
  <2>4. sent' \in [Posts -> SUBSET (1..Versions)]
    <3>1. sent \in [Posts -> SUBSET (1..Versions)]
      BY <1>1 DEF WritesTyped
    <3>2. sent[worker[w].post] \cup {worker[w].version} \in SUBSET (1..Versions)
      BY <2>1, <3>1
    <3> QED
      BY <1>6, <2>1, <3>1, <3>2
  <2> QED
    BY <1>1, <1>6, <2>2, <2>3, <2>4 DEF PostsTyped, WritesTyped
<1>7. CASE Write(w)
  <2> DEFINE p == worker[w].post
             v == worker[w].version
             known == IF command[p][v] = "open" /\ landed[p][v] > 0
                      THEN "accepted" ELSE command[p][v]
  <2>1. CASE MaySend(p, v)
    <3>1. WorkersTyped'
      BY <1>1, <1>7, <2>1, StepTypes DEF Write
    <3> QED
      BY <1>6, <1>7, <2>1, <3>1 DEF Write
  <2>2. CASE ~MaySend(p, v)
    <3>1. known \in {"open", "accepted", "rejected"}
      BY <1>2, <2>2 DEF MaySend, WritesTyped
    <3>2. /\ command' = [command EXCEPT ![p][v] = known]
          /\ UNCHANGED <<wire, sent, post, tombstone, landed>>
      BY <1>7, <2>2 DEF Write
    <3>3. command'[p][v] = known
      BY <1>2, <3>2 DEF WritesTyped
    <3>4. Step(w, IF known = "open" THEN "ambiguous" ELSE known)
      BY <1>7, <2>2, <3>3 DEF Write
    <3> HIDE DEF known
    <3>5. WorkersTyped'
      BY <1>1, <3>1, <3>4, StepTypes
    <3> QED
      BY <1>6, <3>1, <3>2, <3>5
  <2> QED
    BY <2>1, <2>2
<1>8. CASE Answered(w)
  <2>1. WorkersTyped'
    BY <1>1, <1>8, StepTypes DEF Answered
  <2> QED
    BY <1>6, <1>8, <2>1 DEF Answered
<1>9. ASSUME NEW permanent \in BOOLEAN, Refused(w, permanent)
      PROVE  PostTypes'
  <2>1. WorkersTyped'
    BY <1>1, <1>9, StepTypes DEF Refused
  <2> QED
    BY <1>6, <1>9, <2>1 DEF Refused
<1>10. CASE GiveUp(w) \/ \E permanent \in BOOLEAN : PreparationFails(w, permanent)
  <2>1. WritesTyped'
    BY <1>10 DEF GiveUp, PreparationFails, WritesTyped
  <2>2. UNCHANGED post /\ Stop(w) => PostsTyped' /\ WorkersTyped'
    BY <1>1, StepTypes DEF PostsTyped
  <2>3. (worker[w].pc = "rejected") \in BOOLEAN
    OBVIOUS
  <2>4. PostsTyped' /\ WorkersTyped'
    BY <1>1, <1>10, <2>2, <2>3, FailTypes DEF GiveUp, PreparationFails
  <2> QED
    BY <1>1, <2>1, <2>4
<1>11. CASE Finalize(w)
  <2>1. WorkersTyped'
    BY <1>1, <1>11, StepTypes DEF Finalize
  <2>2. WritesTyped'
    <3>1. UNCHANGED <<command, wire, landed, sent>>
      BY <1>11 DEF Finalize
    <3>2. \/ tombstone' = tombstone
          \/ tombstone' = [tombstone EXCEPT ![worker[w].post] = worker[w].version]
      BY <1>11 DEF Finalize
    <3>3. worker[w].version \in 0..Versions
      BY <1>2
    <3> QED
      BY <3>1, <3>2, <3>3 DEF WritesTyped
  <2>3. post' = post \/ post' = [post EXCEPT ![worker[w].post] = Gone(worker[w].post)]
    BY <1>11 DEF Finalize
  <2>4. PostsTyped'
    BY <1>2, <2>3, GoneTypes, RowTypes DEF PostsTyped
  <2> QED
    BY <1>1, <2>1, <2>2, <2>4
<1> QED
  BY <1>3, <1>4, <1>5, <1>7, <1>8, <1>9, <1>10, <1>11 DEF WorkerStep

\* Rows that all go at once.
LEMMA ManyGoTypes ==
    ASSUME PostsTyped, NEW some \in SUBSET Posts,
           post' = [p \in Posts |-> IF p \in some THEN Gone(p) ELSE post[p]]
    PROVE  PostsTyped'
  BY GoneTypes DEF PostsTyped, PostRowOK

\* A row whose lease lapses, or that has waited too long.
LEMMA TimeKeepsTypes ==
    ASSUME PostTypes, NEW p \in Posts,
           LeaseLapses(p) \/ Age(p) \/ \E w \in Workers : OutlivesLease(w) /\ worker[w].post = p
    PROVE  PostTypes'
<1>1. UNCHANGED <<life, tombstone, worker, command, wire, landed, sent>>
  BY DEF LeaseLapses, Age, OutlivesLease, Expire
<1>2. post[p] \in PostRows /\ PostRowOK(post[p])
  BY DEF PostTypes, PostsTyped
<1>3. \/ post' = [post EXCEPT ![p] = [post[p] EXCEPT !.expired = TRUE]]
      \/ post' = [post EXCEPT ![p] = [post[p] EXCEPT !.aged = TRUE]]
  BY DEF LeaseLapses, Age, OutlivesLease, Expire
<1>4. /\ PostRowOK([post[p] EXCEPT !.expired = TRUE])
      /\ PostRowOK([post[p] EXCEPT !.aged = TRUE])
  <2>1. ASSUME NEW row, row \in PostRows, row.state = post[p].state, row.lease = post[p].lease,
               row.version = post[p].version
        PROVE  PostRowOK(row)
    BY <1>2, <2>1 DEF PostRowOK
  <2> QED
    BY <1>2, <2>1 DEF PostRows
<1>5. PostsTyped'
  BY <1>3, <1>4, RowTypes DEF PostTypes
<1> QED
  BY <1>1, <1>5 DEF PostTypes, WorkersTyped, WritesTyped

\* Every step keeps the types.
LEMMA HostedKeepsTypes ==
    ASSUME PostTypes, HostedStep
    PROVE  PostTypes'
<1>1. CASE UNCHANGED hostedVars
  BY <1>1 DEF hostedVars, postVars, PostTypes, PostsTyped, WorkersTyped, WritesTyped
<1>2. CASE MediaStep
  BY <1>2 DEF MediaStep, postVars, PostTypes, PostsTyped, WorkersTyped, WritesTyped
<1>3. ASSUME NEW w \in Workers, ClaimDue(w)
      PROVE  PostTypes'
  <2>1. UNCHANGED <<life, tombstone, command, wire, landed, sent>>
    BY <1>3 DEF ClaimDue
  <2> QED
    BY <1>3, <2>1, ClaimDueStep DEF PostTypes, WritesTyped
<1>4. ASSUME NEW w \in Workers, OutlivesLease(w)
      PROVE  PostTypes'
  <2>1. worker[w].post \in Posts
    BY <1>4 DEF OutlivesLease, PostTypes, WorkersTyped, ClaimOK
  <2> QED
    BY <1>4, <2>1, TimeKeepsTypes
<1>5. ASSUME NEW write \in wire, Land(write) \/ Lose(write)
      PROVE  PostTypes'
  <2>1. UNCHANGED <<life, post, tombstone, worker, command, sent>> /\ wire' \subseteq wire
    BY <1>5 DEF Land, Lose
  <2>2. landed' \in [Posts -> [1..Versions -> Nat]]
    <3>1. write[1] \in Posts /\ write[2] \in 1..Versions
      BY DEF PostTypes, WritesTyped
    <3>2. \/ landed' = landed
          \/ landed' = [landed EXCEPT ![write[1]][write[2]] = @ + 1]
      BY <1>5 DEF Land, Lose
    <3> DEFINE row == [landed[write[1]] EXCEPT ![write[2]] = landed[write[1]][write[2]] + 1]
    <3>3. row \in [1..Versions -> Nat]
      BY <3>1 DEF PostTypes, WritesTyped
    <3>4. landed' = landed \/ landed' = [landed EXCEPT ![write[1]] = row]
      BY <3>1, <3>2 DEF PostTypes, WritesTyped
    <3> HIDE DEF row
    <3> QED
      BY <3>1, <3>3, <3>4 DEF PostTypes, WritesTyped
  <2> QED
    BY <2>1, <2>2 DEF PostTypes, PostsTyped, WorkersTyped, WritesTyped
<1>6. ASSUME NEW some \in SUBSET Posts,
             post' = [p \in Posts |-> IF p \in some THEN Gone(p) ELSE post[p]],
             life' \in [state : States, gen : Nat],
             tombstone' = tombstone \/ tombstone' = [p \in Posts |-> 0],
             UNCHANGED <<worker, command, wire, landed, sent>>
      PROVE  PostTypes'
  <2>1. PostsTyped'
    BY <1>6, ManyGoTypes DEF PostTypes
  <2>2. WritesTyped' /\ WorkersTyped'
    BY <1>6, Bounds DEF PostTypes, WritesTyped, WorkersTyped
  <2> QED
    BY <1>6, <2>1, <2>2 DEF PostTypes
<1>7. life \in [state : States, gen : Nat]
  BY DEF PostTypes
<1>8. ASSUME NEW c \in Cleaners, Sweep(c)
      PROVE  PostTypes'
  <2> DEFINE old == {p \in Posts : post[p].state = "needs_attention" /\ post[p].aged}
  <2>1. /\ post' = [p \in Posts |-> IF p \in old THEN Gone(p) ELSE post[p]]
        /\ UNCHANGED <<life, tombstone, worker, command, wire, landed, sent>>
    BY <1>8 DEF Sweep
  <2> QED
    BY <1>6, <1>7, <2>1
<1>9. ASSUME NEW to \in States, Transition(to)
      PROVE  PostTypes'
  <2> DEFINE cancelled == IF life.state = "active"
                          THEN {p \in Posts : post[p].state \in Rows /\ post[p].gen = life.gen}
                          ELSE {}
  <2>1. /\ post' = [p \in Posts |-> IF p \in cancelled THEN Gone(p) ELSE post[p]]
        /\ life' \in [state : States, gen : Nat]
        /\ UNCHANGED <<tombstone, worker, command, wire, landed, sent>>
    BY <1>7, <1>9 DEF Transition
  <2>2. cancelled \in SUBSET Posts
    OBVIOUS
  <2> HIDE DEF cancelled
  <2> QED
    BY <1>6, <2>1, <2>2
<1>10. CASE Emptied
  <2> DEFINE some == {p \in Posts : post[p].state \in Rows}
  <2>1. /\ post' = [p \in Posts |-> IF p \in some THEN Gone(p) ELSE post[p]]
        /\ tombstone' = [p \in Posts |-> 0]
        /\ UNCHANGED <<life, worker, command, wire, landed, sent>>
    BY <1>10 DEF Emptied
  <2> QED
    BY <1>6, <1>7, <2>1
<1> QED
  BY <1>1, <1>2, <1>3, <1>4, <1>5, <1>8, <1>9, <1>10, MemberKeepsTypes, WorkerKeepsTypes,
     TimeKeepsTypes
     DEF HostedStep, Next, Move

----------------------------------------------------------------------------
(* What is written.                                                        *)

\* A write that is under way has not landed, and its command is open; a version
\* lands once, and only before its command is accepted.
WriteOnce(p, v) ==
    /\ landed[p][v] \in {0, 1}
    /\ <<p, v>> \in wire => landed[p][v] = 0 /\ command[p][v] = "open"
    /\ command[p][v] = "none" => landed[p][v] = 0
    /\ command[p][v] = "accepted" => landed[p][v] = 1

\* A worker that was told so is right.
ToldTruly(w) ==
    worker[w].pc = "accepted" => landed[worker[w].post][worker[w].version] = 1

WriteInv ==
    /\ \A p \in Posts, v \in 1..Versions : WriteOnce(p, v)
    /\ \A w \in Workers : ToldTruly(w)
    /\ TombstonesAreTrue

LEMMA WriteInitInv == Init => WriteInv
  BY DEF Init, WriteInv, WriteOnce, ToldTruly, TombstonesAreTrue, NoClaim

\* Steps that neither write nor hear of a write.
LEMMA QuietKeepsWrites ==
    ASSUME PostTypes, WriteInv, UNCHANGED <<command, wire, landed>>,
           \A w \in Workers : worker'[w].pc = "accepted" => worker'[w] = worker[w],
           \A p \in Posts : tombstone'[p] # 0 =>
              /\ tombstone'[p] = tombstone[p]
              /\ post[p].state = "gone" => post'[p].state = "gone"
    PROVE  WriteInv'
  BY DEF WriteInv, WriteOnce, ToldTruly, TombstonesAreTrue

\* The command of what a worker writes changes, and nothing lands.
LEMMA VerdictKeepsWrites ==
    ASSUME PostTypes, WriteInv, UNCHANGED <<landed, tombstone, post>>,
           NEW w \in Workers, NEW p \in Posts, NEW n \in 1..Versions, NEW verdict,
           command' = [command EXCEPT ![p][n] = verdict],
           \A write \in wire' : write \in wire \/ write = <<p, n>>,
           verdict = "none" => landed[p][n] = 0,
           verdict = "accepted" => landed[p][n] = 1,
           <<p, n>> \in wire' => verdict = "open" /\ landed[p][n] = 0,
           \A v \in Workers : v # w => worker'[v] = worker[v],
           worker'[w].pc = "accepted" =>
              worker'[w].post = p /\ worker'[w].version = n /\ landed[p][n] = 1
    PROVE  WriteInv'
<1>1. command'[p][n] = verdict
  BY DEF PostTypes, WritesTyped
<1>2. \A q \in Posts, v \in 1..Versions : q # p \/ v # n => command'[q][v] = command[q][v]
  BY DEF PostTypes, WritesTyped
<1>3. \A q \in Posts, v \in 1..Versions : WriteOnce(q, v)'
  <2>1. WriteOnce(p, n)'
    BY <1>1 DEF WriteInv, WriteOnce
  <2>2. \A q \in Posts, v \in 1..Versions : q # p \/ v # n => WriteOnce(q, v)'
    BY <1>2 DEF WriteInv, WriteOnce
  <2> QED
    BY <2>1, <2>2
<1>4. \A v \in Workers : ToldTruly(v)'
  BY DEF WriteInv, ToldTruly
<1> QED
  BY <1>3, <1>4 DEF WriteInv, TombstonesAreTrue

LEMMA WorkerKeepsWrites ==
    ASSUME PostTypes, WriteInv, NEW w \in Workers,
           \/ WorkerStep(w) \/ NoAnswer(w) \/ UploadFails(w) \/ Crash(w)
           \/ \E permanent \in BOOLEAN : PreparationFails(w, permanent) \/ Refused(w, permanent)
    PROVE  WriteInv'
<1>1. worker[w].pc # "idle" /\ worker \in [Workers -> Claims]
  BY DEF WorkerStep, Snapshot, Freeze, Acquire, Upload, Write, Answered, GiveUp, Finalize,
         NoAnswer, UploadFails, Crash, PreparationFails, Refused, PostTypes, WorkersTyped
<1>0. worker[w].post \in Posts /\ worker[w].version \in 1..Versions
  BY <1>1 DEF PostTypes, WorkersTyped, ClaimOK, Claims
<1>2. PICK p \in Posts, n \in 1..Versions : p = worker[w].post /\ n = worker[w].version
  BY <1>0
<1>3. CASE Snapshot(w) \/ Freeze(w) \/ Acquire(w) \/ Upload(w) \/ UploadFails(w)
           \/ NoAnswer(w) \/ Crash(w) \/ GiveUp(w)
           \/ \E permanent \in BOOLEAN : PreparationFails(w, permanent)
  <2>1. UNCHANGED <<command, wire, landed, tombstone>>
    BY <1>3 DEF Snapshot, Freeze, Acquire, Upload, UploadFails, NoAnswer, Crash, GiveUp,
                PreparationFails
  <2>2. \A v \in Workers : worker'[v].pc = "accepted" => worker'[v] = worker[v]
    <3>1. ASSUME NEW pc \in {"frozen", "upload", "write", "ambiguous", "rejected", "failed"},
                 Step(w, pc)
          PROVE  \A v \in Workers : worker'[v].pc = "accepted" => worker'[v] = worker[v]
      BY <1>1, <3>1 DEF Step, Claims
    <3>2. CASE Stop(w)
      BY <1>1, <3>2 DEF Stop, NoClaim
    <3>3. CASE worker' = [worker EXCEPT ![w].pc = "checked", ![w].images = Attached(p)]
      BY <1>1, <3>3 DEF Claims
    <3>4. \/ Stop(w) \/ worker' = [worker EXCEPT ![w].pc = "checked", ![w].images = Attached(p)]
          \/ \E pc \in {"frozen", "upload", "write", "ambiguous", "rejected", "failed"} :
                Step(w, pc)
      BY <1>2, <1>3 DEF Snapshot, Freeze, Acquire, Upload, UploadFails, NoAnswer, Crash, GiveUp,
                        PreparationFails, Fail
    <3> QED
      BY <3>1, <3>2, <3>3, <3>4
  <2>3. \A q \in Posts : post[q].state = "gone" => post'[q].state = "gone"
    BY <1>2, <1>3 DEF Snapshot, Freeze, Acquire, Upload, UploadFails, NoAnswer, Crash, GiveUp,
                PreparationFails, Fail, Owns, PostTypes, PostsTyped, PostRows
  <2> QED
    BY <2>1, <2>2, <2>3, QuietKeepsWrites
<1>4. CASE Finalize(w)
  <2>1. UNCHANGED <<command, wire, landed>>
    BY <1>4 DEF Finalize
  <2>2. \A v \in Workers : worker'[v].pc = "accepted" => worker'[v] = worker[v]
    BY <1>1, <1>4 DEF Finalize, Stop, NoClaim
  <2>3. CASE tombstone[p] = 0 /\ Owns(w)
    <3>1. /\ tombstone' = [tombstone EXCEPT ![p] = n]
          /\ post' = [post EXCEPT ![p] = Gone(p)]
      BY <1>2, <1>4, <2>3 DEF Finalize
    <3>2. post'[p].state = "gone" /\ tombstone'[p] = n
      BY <1>2, <3>1 DEF PostTypes, PostsTyped, WritesTyped, Gone, NoPost
    <3>3. landed[p][n] = 1
      BY <1>2, <1>4 DEF Finalize, WriteInv, ToldTruly
    <3>4. \A q \in Posts : q # p => post'[q] = post[q] /\ tombstone'[q] = tombstone[q]
      BY <3>1 DEF PostTypes, PostsTyped, WritesTyped
    <3>5. TombstonesAreTrue'
      BY <2>1, <3>2, <3>3, <3>4 DEF TombstonesAreTrue, WriteInv
    <3> QED
      BY <2>1, <2>2, <3>5 DEF WriteInv, WriteOnce, ToldTruly
  <2>4. CASE ~(tombstone[p] = 0 /\ Owns(w))
    <3>1. UNCHANGED <<tombstone, post>>
      BY <1>2, <1>4, <2>4 DEF Finalize
    <3> QED
      BY <2>1, <2>2, <3>1, QuietKeepsWrites
  <2> QED
    BY <2>3, <2>4
<1>6. ASSUME NEW pc, Step(w, pc)
      PROVE  /\ \A v \in Workers : v # w => worker'[v] = worker[v]
             /\ worker'[w].pc = pc /\ worker'[w].post = p /\ worker'[w].version = n
  BY <1>1, <1>2, <1>6 DEF Step, Claims
<1>7. WriteOnce(p, n)
  BY <1>2 DEF WriteInv
<1>8. CASE Write(w)
  <2>1. CASE MaySend(p, n)
    <3>1. /\ command' = [command EXCEPT ![p][n] = "open"]
          /\ wire' = wire \cup {<<p, n>>} /\ Step(w, "sent")
          /\ UNCHANGED <<landed, tombstone, post>>
      BY <1>2, <1>8, <2>1 DEF Write
    <3>2. landed[p][n] = 0
      BY <1>7, <2>1 DEF MaySend, WriteOnce
    <3>3. \A write \in wire' : write \in wire \/ write = <<p, n>>
      BY <3>1
    <3>4. /\ \A v \in Workers : v # w => worker'[v] = worker[v]
          /\ worker'[w].pc = "sent"
      BY <1>6, <3>1
    <3>5. /\ command' = [command EXCEPT ![p][n] = "open"]
          /\ UNCHANGED <<landed, tombstone, post>>
      BY <3>1
    <3> QED
      BY <3>2, <3>3, <3>4, <3>5, VerdictKeepsWrites
  <2>2. CASE ~MaySend(p, n)
    <3> DEFINE known == IF command[p][n] = "open" /\ landed[p][n] > 0
                        THEN "accepted" ELSE command[p][n]
    <3>1. /\ command' = [command EXCEPT ![p][n] = known]
          /\ UNCHANGED <<wire, post, tombstone, landed>>
      BY <1>2, <1>8, <2>2 DEF Write
    <3>2. command'[p][n] = known
      BY <1>2, <3>1 DEF PostTypes, WritesTyped
    <3>3. Step(w, IF known = "open" THEN "ambiguous" ELSE known)
      BY <1>2, <1>8, <2>2, <3>2 DEF Write
    <3>4. /\ known # "none" /\ (known = "accepted" => landed[p][n] = 1)
          /\ <<p, n>> \in wire => landed[p][n] = 0 /\ known = "open"
      BY <1>7, <2>2 DEF MaySend, WriteOnce
    <3>5. /\ \A v \in Workers : v # w => worker'[v] = worker[v]
          /\ worker'[w].pc = "accepted" => known = "accepted"
          /\ worker'[w].post = p /\ worker'[w].version = n
      BY <1>6, <3>3
    <3> HIDE DEF known
    <3> QED
      BY <1>2, <3>1, <3>4, <3>5, VerdictKeepsWrites
  <2> QED
    BY <2>1, <2>2
<1>9. CASE Answered(w)
  <2>1. /\ command' = [command EXCEPT ![p][n] = "accepted"] /\ Step(w, "accepted")
        /\ landed[p][n] > 0 /\ <<p, n>> \notin wire
        /\ UNCHANGED <<wire, post, tombstone, landed>>
    BY <1>2, <1>9 DEF Answered
  <2>2. landed[p][n] = 1
    BY <1>7, <2>1 DEF WriteOnce
  <2> QED
    BY <1>2, <1>6, <2>1, <2>2, VerdictKeepsWrites
<1>10. ASSUME NEW permanent \in BOOLEAN, Refused(w, permanent)
       PROVE  WriteInv'
  <2> DEFINE verdict == IF permanent THEN "rejected" ELSE "none"
             pc == IF permanent THEN "rejected" ELSE "failed"
  <2>1. /\ command' = [command EXCEPT ![p][n] = verdict] /\ Step(w, pc)
        /\ <<p, n>> \in wire /\ wire' = wire \ {<<p, n>>}
        /\ UNCHANGED <<post, tombstone, landed>>
    BY <1>2, <1>10 DEF Refused
  <2>2. landed[p][n] = 0 /\ verdict # "accepted" /\ pc # "accepted"
    BY <1>7, <2>1 DEF WriteOnce
  <2>3. (\A write \in wire' : write \in wire) /\ <<p, n>> \notin wire'
    BY <2>1
  <2>4. /\ \A v \in Workers : v # w => worker'[v] = worker[v]
        /\ worker'[w].pc # "accepted"
    BY <1>6, <2>1, <2>2
  <2> HIDE DEF verdict, pc
  <2> QED
    BY <2>1, <2>2, <2>3, <2>4, VerdictKeepsWrites
<1> QED
  BY <1>3, <1>4, <1>8, <1>9, <1>10 DEF WorkerStep

\* Every step keeps WriteInv, and with it OncePerVersion and TombstonesAreTrue.
LEMMA HostedKeepsWrites ==
    ASSUME PostTypes, WriteInv, HostedStep
    PROVE  WriteInv'
<1>1. CASE UNCHANGED postVars
  BY <1>1, QuietKeepsWrites DEF postVars
<1>2. CASE UNCHANGED hostedVars \/ MediaStep
  BY <1>1, <1>2 DEF hostedVars, MediaStep
<1>3. ASSUME NEW p \in Posts, NEW images \in SUBSET Media,
             \/ Create(p, images) \/ Update(p, images) \/ Delete(p)
             \/ \E w \in Workers : PostNow(w, p, images)
      PROVE  WriteInv'
  <2>1. UNCHANGED <<tombstone, command, wire, landed>>
    BY <1>3 DEF Create, Update, Delete, PostNow
  <2>2. \A v \in Workers : worker'[v].pc = "accepted" => worker'[v] = worker[v]
    <3>1. CASE Create(p, images) \/ Update(p, images) \/ Delete(p)
      BY <3>1 DEF Create, Update, Delete
    <3>2. ASSUME NEW w \in Workers, PostNow(w, p, images)
          PROVE  \A v \in Workers : worker'[v].pc = "accepted" => worker'[v] = worker[v]
      <4> DEFINE claim == [NoClaim EXCEPT !.pc = "claimed", !.post = p,
                             !.version = post[p].version + 1, !.gen = life.gen,
                             !.manual = TRUE]
      <4>1. worker' = [worker EXCEPT ![w] = claim] /\ claim.pc = "claimed"
        BY <3>2 DEF PostNow, NoClaim
      <4> HIDE DEF claim
      <4>2. worker \in [Workers -> Claims]
        BY DEF PostTypes, WorkersTyped
      <4> QED
        BY <4>1, <4>2
    <3> QED
      BY <1>3, <3>1, <3>2
  <2>3. /\ post[p].state # "gone"
        /\ \A q \in Posts : q # p => post'[q] = post[q]
    <3>1. \E row : post' = [post EXCEPT ![p] = row]
      BY <1>3 DEF Create, Update, Delete, PostNow, Save
    <3>2. post[p] = NoPost \/ MaySave(p)
      BY <1>3 DEF Create, Update, Delete, PostNow, Save
    <3> QED
      BY <3>1, <3>2 DEF PostTypes, PostsTyped, NoPost, MaySave, Mutable
  <2>4. \A q \in Posts : post[q].state = "gone" => post'[q].state = "gone"
    BY <2>3
  <2> QED
    BY <2>1, <2>2, <2>4, QuietKeepsWrites
<1>4. ASSUME NEW p \in Posts,
             \/ LeaseLapses(p) \/ Age(p)
             \/ \E w \in Workers : OutlivesLease(w) /\ worker[w].post = p
      PROVE  WriteInv'
  <2>1. UNCHANGED <<tombstone, command, wire, landed, worker>>
    BY <1>4 DEF LeaseLapses, Age, OutlivesLease, Expire
  <2>2. \A q \in Posts : post'[q].state = post[q].state
    <3>1. \/ post' = [post EXCEPT ![p] = [post[p] EXCEPT !.expired = TRUE]]
          \/ post' = [post EXCEPT ![p] = [post[p] EXCEPT !.aged = TRUE]]
      BY <1>4 DEF LeaseLapses, Age, OutlivesLease, Expire
    <3>2. /\ [post[p] EXCEPT !.expired = TRUE].state = post[p].state
          /\ [post[p] EXCEPT !.aged = TRUE].state = post[p].state
      BY DEF PostTypes, PostsTyped, PostRows
    <3> QED
      BY <3>1, <3>2 DEF PostTypes, PostsTyped
  <2> QED
    BY <2>1, <2>2, QuietKeepsWrites
<1>5. ASSUME NEW w \in Workers, OutlivesLease(w)
      PROVE  WriteInv'
  <2>1. worker[w].post \in Posts
    BY <1>5 DEF OutlivesLease, PostTypes, WorkersTyped, ClaimOK
  <2> QED
    BY <1>4, <1>5, <2>1
<1>6. ASSUME NEW w \in Workers, ClaimDue(w)
      PROVE  WriteInv'
  <2>1. UNCHANGED <<tombstone, command, wire, landed>>
    BY <1>6 DEF ClaimDue
  <2>2. PICK p \in Posts :
           /\ RecoveredPosts[p].state \in Waiting \cup {"publishing"}
           /\ \A q \in Posts : q # p => post'[q] = RecoveredPosts[q]
           /\ worker'[w].pc = "claimed"
           /\ \A v \in Workers : v # w => worker'[v] = worker[v]
    BY <1>6, ClaimDueStep
  <2>3. \A q \in Posts : post[q].state = "gone" => post'[q].state = "gone"
    BY <2>2, RecoveredRows DEF PostTypes, Waiting
  <2> QED
    BY <2>1, <2>2, <2>3, QuietKeepsWrites
<1>7. ASSUME NEW some \in SUBSET Posts,
             post' = [p \in Posts |-> IF p \in some THEN Gone(p) ELSE post[p]],
             tombstone' = tombstone \/ tombstone' = [p \in Posts |-> 0],
             UNCHANGED <<worker, command, wire, landed>>
      PROVE  WriteInv'
  <2>1. \A p \in Posts : post[p].state = "gone" => post'[p].state = "gone"
    BY <1>7 DEF Gone, NoPost
  <2> QED
    BY <1>7, <2>1, QuietKeepsWrites
<1>8. ASSUME NEW c \in Cleaners, Sweep(c)
      PROVE  WriteInv'
  BY <1>7, <1>8 DEF Sweep
<1>9. ASSUME NEW to \in States, Transition(to)
      PROVE  WriteInv'
  <2> DEFINE cancelled == IF life.state = "active"
                          THEN {p \in Posts : post[p].state \in Rows /\ post[p].gen = life.gen}
                          ELSE {}
  <2>1. /\ post' = [p \in Posts |-> IF p \in cancelled THEN Gone(p) ELSE post[p]]
        /\ UNCHANGED <<tombstone, worker, command, wire, landed>>
    BY <1>9 DEF Transition
  <2>2. cancelled \in SUBSET Posts
    OBVIOUS
  <2> HIDE DEF cancelled
  <2> QED
    BY <1>7, <2>1, <2>2
<1>10. CASE Emptied
  <2> DEFINE some == {p \in Posts : post[p].state \in Rows}
  <2>1. /\ post' = [p \in Posts |-> IF p \in some THEN Gone(p) ELSE post[p]]
        /\ tombstone' = [p \in Posts |-> 0]
        /\ UNCHANGED <<worker, command, wire, landed>>
    BY <1>10 DEF Emptied
  <2> QED
    BY <1>7, <2>1
<1>11. ASSUME NEW write \in wire, Land(write)
       PROVE  WriteInv'
  <2>1. PICK p \in Posts, n \in 1..Versions : write = <<p, n>>
    BY DEF PostTypes, WritesTyped
  <2>2. /\ UNCHANGED <<post, tombstone, worker, command>>
        /\ wire' = wire \ {<<p, n>>}
        /\ landed' = [landed EXCEPT ![p][n] = @ + 1]
    BY <1>11, <2>1 DEF Land
  <2>3. landed[p][n] = 0 /\ command[p][n] # "none"
    BY <2>1 DEF WriteInv, WriteOnce
  <2>4. landed'[p][n] = 1
    BY <2>2, <2>3 DEF PostTypes, WritesTyped
  <2>5. \A q \in Posts, v \in 1..Versions : q # p \/ v # n => landed'[q][v] = landed[q][v]
    BY <2>2 DEF PostTypes, WritesTyped
  <2>6. \A q \in Posts, v \in 1..Versions : WriteOnce(q, v)'
    <3>1. WriteOnce(p, n)'
      BY <2>2, <2>3, <2>4 DEF WriteOnce
    <3>2. \A q \in Posts, v \in 1..Versions : q # p \/ v # n => WriteOnce(q, v)'
      BY <2>2, <2>5 DEF WriteInv, WriteOnce
    <3> QED
      BY <3>1, <3>2
  <2>7. \A q \in Posts, v \in 1..Versions : landed[q][v] = 1 => landed'[q][v] = 1
    BY <2>4, <2>5
  <2>8. \A w \in Workers : ToldTruly(w)'
    BY <2>2, <2>7 DEF WriteInv, ToldTruly, PostTypes, WorkersTyped, ClaimOK, Claims
  <2>9. TombstonesAreTrue'
    <3>1. \A q \in Posts : tombstone[q] # 0 => tombstone[q] \in 1..Versions
      BY DEF PostTypes, WritesTyped
    <3> QED
      BY <2>2, <2>7, <3>1 DEF WriteInv, TombstonesAreTrue
  <2> QED
    BY <2>6, <2>8, <2>9 DEF WriteInv
<1>12. ASSUME NEW write \in wire, Lose(write)
       PROVE  WriteInv'
  BY <1>12 DEF Lose, WriteInv, WriteOnce, ToldTruly, TombstonesAreTrue
<1> QED
  BY <1>2, <1>3, <1>4, <1>5, <1>6, <1>8, <1>9, <1>10, <1>11, <1>12, WorkerKeepsWrites
     DEF HostedStep, Next, Move

----------------------------------------------------------------------------
(* The lock of a schedule.                                                 *)

\* One worker at a time publishes a post, and while it does the row is what it
\* claimed, in the owner's active generation; nobody is left at a row that has
\* waited too long.
LockInv ==
    /\ \A v, w \in Workers :
          Publishing(v) /\ Publishing(w) /\ worker[v].post = worker[w].post => v = w
    /\ \A w \in Workers : Publishing(w) =>
          /\ post[worker[w].post].version = worker[w].version
          /\ post[worker[w].post].gen = worker[w].gen
          /\ post[worker[w].post].state \in Rows
          /\ ActiveIn(worker[w].gen)
    /\ \A p \in Posts : post[p].aged =>
          /\ post[p].state = "needs_attention"
          /\ \A w \in Workers : worker[w].post # p

LEMMA LockInitInv == Init => LockInv
  BY DEF Init, LockInv, Publishing, NoPost, NoClaim

\* Steps in which nobody gets the lock.
LEMMA QuietKeepsLocks ==
    ASSUME PostTypes, LockInv, life' = life \/ \A w \in Workers : ~Publishing(w),
           \A w \in Workers : Publishing(w)' =>
              /\ Publishing(w)
              /\ worker'[w].post = worker[w].post /\ worker'[w].version = worker[w].version
              /\ worker'[w].gen = worker[w].gen
              /\ post'[worker[w].post].version = post[worker[w].post].version
              /\ post'[worker[w].post].gen = post[worker[w].post].gen
              /\ post'[worker[w].post].state \in Rows,
           \A p \in Posts : post'[p].aged =>
              /\ post'[p].state = "needs_attention"
              /\ \A w \in Workers : worker'[w].post # p
    PROVE  LockInv'
<1>1. \A v, w \in Workers :
         Publishing(v)' /\ Publishing(w)' /\ worker'[v].post = worker'[w].post => v = w
  BY DEF LockInv
<1>2. \A w \in Workers : Publishing(w)' =>
         /\ post'[worker'[w].post].version = worker'[w].version
         /\ post'[worker'[w].post].gen = worker'[w].gen
         /\ post'[worker'[w].post].state \in Rows
         /\ ActiveIn(worker[w].gen)'
  BY DEF LockInv, ActiveIn
<1> QED
  BY <1>1, <1>2 DEF LockInv

\* Those of a worker that keeps its claim, or lets it go.
LEMMA ClaimKeepsLocks ==
    ASSUME PostTypes, LockInv, UNCHANGED life, NEW w \in Workers, NEW p \in Posts,
           worker[w].post = p,
           \A v \in Workers : v # w => worker'[v] = worker[v],
           worker'[w].post \in {p, Nobody},
           Publishing(w)' =>
              /\ Publishing(w) /\ worker'[w].post = p
              /\ worker'[w].version = worker[w].version /\ worker'[w].gen = worker[w].gen,
           \A q \in Posts : q # p => post'[q] = post[q],
           post'[p].aged => post[p].aged,
           \A v \in Workers : Publishing(v)' /\ worker[v].post = p =>
              /\ post'[p].version = post[p].version /\ post'[p].gen = post[p].gen
              /\ post'[p].state \in Rows
    PROVE  LockInv'
<1>1. ~post[p].aged /\ ~post'[p].aged
  BY DEF LockInv
<1>2. \A q \in Posts : post'[q].aged =>
         /\ post'[q].state = "needs_attention"
         /\ \A v \in Workers : worker'[v].post # q
  BY <1>1 DEF LockInv
<1>3. ASSUME NEW v \in Workers, Publishing(v)'
      PROVE  /\ Publishing(v)
             /\ worker'[v].post = worker[v].post /\ worker'[v].version = worker[v].version
             /\ worker'[v].gen = worker[v].gen
             /\ post'[worker[v].post].version = post[worker[v].post].version
             /\ post'[worker[v].post].gen = post[worker[v].post].gen
             /\ post'[worker[v].post].state \in Rows
  <2>1. /\ Publishing(v)
        /\ worker'[v].post = worker[v].post /\ worker'[v].version = worker[v].version
        /\ worker'[v].gen = worker[v].gen
    BY <1>3 DEF Publishing
  <2>2. worker[v].post \in Posts
    BY <2>1 DEF PostTypes, WorkersTyped, ClaimOK, Publishing
  <2> QED
    BY <1>3, <2>1, <2>2 DEF LockInv
<1> QED
  BY <1>2, <1>3, QuietKeepsLocks

\* A failure leaves a row that is locked one of the waiting ones.
LEMMA WorkerKeepsLocks ==
    ASSUME PostTypes, LockInv, NEW w \in Workers,
           \/ WorkerStep(w) \/ NoAnswer(w) \/ UploadFails(w) \/ Crash(w)
           \/ \E permanent \in BOOLEAN : PreparationFails(w, permanent) \/ Refused(w, permanent)
    PROVE  LockInv'
<1>1. worker[w].pc # "idle" /\ worker \in [Workers -> Claims] /\ life' = life
  BY DEF WorkerStep, Snapshot, Freeze, Acquire, Upload, Write, Answered, GiveUp, Finalize,
         NoAnswer, UploadFails, Crash, PreparationFails, Refused, PostTypes, WorkersTyped
<1>2. worker[w].post \in Posts
  BY <1>1 DEF PostTypes, WorkersTyped, ClaimOK
<1>3. PICK p \in Posts : p = worker[w].post
  BY <1>2
<1>4. PostTypes'
  BY WorkerKeepsTypes
<1>5. ASSUME NEW pc, Step(w, pc)
      PROVE  /\ \A v \in Workers : v # w => worker'[v] = worker[v]
             /\ worker'[w].pc = pc /\ worker'[w].post = p
             /\ worker'[w].version = worker[w].version /\ worker'[w].gen = worker[w].gen
  BY <1>1, <1>3, <1>5 DEF Step, Claims
<1>6. ASSUME Stop(w)
      PROVE  /\ \A v \in Workers : v # w => worker'[v] = worker[v]
             /\ worker'[w].post = Nobody /\ ~Publishing(w)'
  BY <1>1, <1>6 DEF Stop, NoClaim, Publishing
<1>7. \A v \in Workers : Publishing(v) /\ worker[v].post = p => post[p].state \in Rows
  BY <1>3 DEF LockInv
<1>8. ASSUME UNCHANGED post,
             \A v \in Workers : v # w => worker'[v] = worker[v],
             worker'[w].post \in {p, Nobody},
             Publishing(w)' =>
                /\ Publishing(w) /\ worker'[w].post = p
                /\ worker'[w].version = worker[w].version /\ worker'[w].gen = worker[w].gen
      PROVE  LockInv'
  <2>1. \A v \in Workers : Publishing(v)' => Publishing(v)
    BY <1>8 DEF Publishing
  <2> QED
    BY <1>1, <1>3, <1>7, <1>8, <2>1, ClaimKeepsLocks
<1>9. ASSUME UNCHANGED post, Stop(w)
      PROVE  LockInv'
  BY <1>6, <1>8, <1>9
<1>10. ASSUME UNCHANGED post, NEW pc, Step(w, pc), Publishing(w) \/ pc \in {"checked", "frozen"}
       PROVE  LockInv'
  BY <1>5, <1>8, <1>10 DEF Publishing
<1>11. CASE Snapshot(w)
  <2>1. CASE Owns(w)
    <3>1. worker' = [worker EXCEPT ![w].pc = "checked", ![w].images = Attached(p)]
      BY <1>3, <1>11, <2>1 DEF Snapshot
    <3>2. /\ \A v \in Workers : v # w => worker'[v] = worker[v]
          /\ worker'[w].post = p /\ worker'[w].pc = "checked"
      BY <1>1, <1>3, <3>1 DEF Claims
    <3> QED
      BY <1>8, <1>11, <3>2 DEF Snapshot, Publishing
  <2>2. CASE ~Owns(w)
    BY <1>9, <1>11, <2>2 DEF Snapshot
  <2> QED
    BY <2>1, <2>2
<1>12. ASSUME NEW permanent \in BOOLEAN, Fail(w, permanent)
       PROVE  LockInv'
  <2> DEFINE over == permanent \/ worker[w].manual \/ post[p].attempt >= Attempts
             row == [post[p] EXCEPT !.state = IF over THEN "needs_attention" ELSE "retrying",
                                    !.lease = Nobody, !.expired = FALSE]
  <2>1. post' = IF Owns(w) THEN [post EXCEPT ![p] = row] ELSE post
    BY <1>3, <1>12 DEF Fail
  <2>2. /\ row.state \in Rows /\ row.version = post[p].version /\ row.gen = post[p].gen
        /\ row.aged = post[p].aged
    BY DEF PostTypes, PostsTyped, PostRows, Rows, Mutable
  <2>3. Stop(w)
    BY <1>12 DEF Fail
  <2> HIDE DEF row
  <2>4. CASE Owns(w)
    <3>1. post'[p] = row /\ \A q \in Posts : q # p => post'[q] = post[q]
      BY <2>1, <2>4 DEF PostTypes, PostsTyped
    <3> QED
      BY <1>1, <1>3, <1>6, <2>2, <2>3, <3>1, ClaimKeepsLocks
  <2>5. CASE ~Owns(w)
    BY <1>9, <2>1, <2>3, <2>5
  <2> QED
    BY <2>4, <2>5
<1>13. CASE Freeze(w)
  <2>1. CASE Owns(w)
    <3> DEFINE row == [post[p] EXCEPT !.frozen = TRUE]
    <3>1. post' = [post EXCEPT ![p] = row] /\ Step(w, "frozen")
      BY <1>3, <1>13, <2>1 DEF Freeze
    <3>2. /\ row.version = post[p].version /\ row.gen = post[p].gen
          /\ row.aged = post[p].aged /\ row.state = post[p].state
      BY DEF PostTypes, PostsTyped, PostRows
    <3>3. post[p].state \in Rows
      BY <1>3, <2>1 DEF Owns, Rows
    <3> HIDE DEF row
    <3>4. post'[p] = row /\ \A q \in Posts : q # p => post'[q] = post[q]
      BY <3>1 DEF PostTypes, PostsTyped
    <3>5. worker'[w].pc = "frozen" /\ ~Publishing(w)'
      BY <1>5, <3>1 DEF Publishing
    <3>6. /\ \A v \in Workers : v # w => worker'[v] = worker[v]
          /\ worker'[w].post = p
      BY <1>5, <3>1
    <3> QED
      BY <1>1, <1>3, <3>2, <3>3, <3>4, <3>5, <3>6, ClaimKeepsLocks
  <2>2. CASE ~Owns(w)
    BY <1>9, <1>13, <2>2 DEF Freeze
  <2> QED
    BY <2>1, <2>2
<1>14. CASE Acquire(w)
  <2>1. CASE Owns(w)
    <3>1. UNCHANGED <<post, life>> /\ Step(w, "upload") /\ ~Locked(p)
      BY <1>3, <1>14, <2>1 DEF Acquire
    <3>2. \A v \in Workers : v # w => (Publishing(v)' <=> Publishing(v))
      BY <1>5, <3>1 DEF Publishing
    <3>3. \A v \in Workers : v # w => worker'[v] = worker[v]
      BY <1>5, <3>1
    <3>4. \A v, u \in Workers :
             Publishing(v)' /\ Publishing(u)' /\ worker'[v].post = worker'[u].post => v = u
      BY <1>5, <3>1, <3>2, <3>3 DEF LockInv, Locked
    <3>5. \A v \in Workers : Publishing(v)' =>
             /\ post'[worker'[v].post].version = worker'[v].version
             /\ post'[worker'[v].post].gen = worker'[v].gen
             /\ post'[worker'[v].post].state \in Rows
             /\ ActiveIn(worker[v].gen)'
      <4>1. ASSUME NEW v \in Workers, v # w, Publishing(v)'
            PROVE  /\ post'[worker'[v].post].version = worker'[v].version
                   /\ post'[worker'[v].post].gen = worker'[v].gen
                   /\ post'[worker'[v].post].state \in Rows
                   /\ ActiveIn(worker[v].gen)'
        BY <3>1, <3>2, <3>3, <4>1 DEF LockInv, ActiveIn
      <4>2. /\ post'[worker'[w].post].version = worker'[w].version
            /\ post'[worker'[w].post].gen = worker'[w].gen
            /\ post'[worker'[w].post].state \in Rows
            /\ ActiveIn(worker[w].gen)'
        BY <1>3, <1>5, <2>1, <3>1 DEF Owns, ActiveIn, Rows
      <4> QED
        BY <4>1, <4>2
    <3>6. \A q \in Posts : post'[q].aged =>
             /\ post'[q].state = "needs_attention"
             /\ \A v \in Workers : worker'[v].post # q
      BY <1>3, <1>5, <3>1, <3>3 DEF LockInv
    <3> QED
      BY <3>4, <3>5, <3>6 DEF LockInv
  <2>2. CASE ~Owns(w)
    BY <1>9, <1>14, <2>2 DEF Acquire
  <2> QED
    BY <2>1, <2>2
<1>15. CASE Upload(w) \/ UploadFails(w) \/ Answered(w) \/ NoAnswer(w)
            \/ \E permanent \in BOOLEAN : Refused(w, permanent)
  <2>1. UNCHANGED post /\ Publishing(w) /\ \E pc : Step(w, pc)
    BY <1>15 DEF Upload, UploadFails, Answered, NoAnswer, Refused, Publishing
  <2> QED
    BY <1>10, <2>1
<1>16. CASE Write(w)
  <2>1. UNCHANGED post /\ Publishing(w)
    BY <1>16 DEF Write, Publishing
  <2>2. \E pc : Step(w, pc)
    BY <1>16 DEF Write
  <2> QED
    BY <1>10, <2>1, <2>2
<1>17. CASE Crash(w)
  BY <1>9, <1>17 DEF Crash
<1>18. CASE GiveUp(w) \/ \E permanent \in BOOLEAN : PreparationFails(w, permanent)
  <2>1. (worker[w].pc = "rejected") \in BOOLEAN
    OBVIOUS
  <2>2. \/ UNCHANGED post /\ Stop(w)
        \/ \E permanent \in BOOLEAN : Fail(w, permanent)
    BY <1>18, <2>1 DEF GiveUp, PreparationFails
  <2> QED
    BY <1>9, <1>12, <2>2
<1>19. CASE Finalize(w)
  <2>1. Stop(w) /\ Publishing(w)
    BY <1>19 DEF Finalize, Publishing
  <2>2. post' = post \/ post' = [post EXCEPT ![p] = Gone(p)]
    BY <1>3, <1>19 DEF Finalize
  <2>3. CASE post' = [post EXCEPT ![p] = Gone(p)]
    <3>1. post'[p].aged = FALSE /\ \A q \in Posts : q # p => post'[q] = post[q]
      BY <2>3 DEF PostTypes, PostsTyped, Gone, NoPost
    <3>2. \A v \in Workers : ~(Publishing(v)' /\ worker[v].post = p)
      BY <1>3, <1>6, <2>1 DEF LockInv, Publishing
    <3> QED
      BY <1>1, <1>3, <1>6, <2>1, <3>1, <3>2, ClaimKeepsLocks
  <2> QED
    BY <1>9, <2>1, <2>2, <2>3
<1> QED
  BY <1>11, <1>13, <1>14, <1>15, <1>16, <1>17, <1>18, <1>19 DEF WorkerStep

\* Every step keeps LockInv.
LEMMA HostedKeepsLocks ==
    ASSUME PostTypes, LockInv, HostedStep
    PROVE  LockInv'
<1>1. ASSUME UNCHANGED <<life, post, worker>>
      PROVE  LockInv'
  BY <1>1 DEF LockInv, Publishing, ActiveIn
<1>2. CASE UNCHANGED hostedVars \/ MediaStep
  BY <1>1, <1>2 DEF hostedVars, postVars, MediaStep
<1>3. ASSUME NEW p \in Posts, UNCHANGED life,
             \A w \in Workers : ~(Publishing(w) /\ worker[w].post = p),
             \A q \in Posts : q # p => post'[q] = post[q],
             ~post'[p].aged, worker' = worker
      PROVE  LockInv'
  <2>1. \A w \in Workers : Publishing(w)' =>
           /\ Publishing(w) /\ worker[w].post \in Posts /\ worker[w].post # p
    BY <1>3 DEF Publishing, PostTypes, WorkersTyped, ClaimOK
  <2>2. \A w \in Workers : Publishing(w) => post[worker[w].post].state \in Rows
    BY DEF LockInv
  <2>3. \A q \in Posts : post'[q].aged =>
           /\ post'[q].state = "needs_attention"
           /\ \A w \in Workers : worker'[w].post # q
    BY <1>3 DEF LockInv
  <2> QED
    BY <1>3, <2>1, <2>2, <2>3, QuietKeepsLocks
<1>4. ASSUME NEW p \in Posts, NEW images \in SUBSET Media,
             Create(p, images) \/ Update(p, images) \/ Delete(p)
      PROVE  LockInv'
  <2>1. UNCHANGED <<life, worker>>
    BY <1>4 DEF Create, Update, Delete
  <2>2. \E row : post' = [post EXCEPT ![p] = row] /\ ~row.aged
    <3>1. ~[NoPost EXCEPT !.state = "scheduled", !.gen = life.gen, !.version = 1].aged
      BY DEF NoPost
    <3>2. ~[Fresh(p) EXCEPT !.state = "scheduled"].aged /\ ~Gone(p).aged
      BY DEF NoPost, Fresh, Gone
    <3>3. CASE Create(p, images)
      BY <3>1, <3>3 DEF Create
    <3>4. CASE Update(p, images)
      BY <3>2, <3>4 DEF Update, Save
    <3>5. CASE Delete(p)
      BY <3>2, <3>5 DEF Delete
    <3> QED
      BY <1>4, <3>3, <3>4, <3>5
  <2>3. /\ ~post'[p].aged
        /\ \A q \in Posts : q # p => post'[q] = post[q]
    BY <2>2 DEF PostTypes, PostsTyped
  <2>4. post[p] = NoPost \/ ~Locked(p)
    BY <1>4 DEF Create, Update, Delete, Save, MaySave
  <2>5. \A w \in Workers : ~(Publishing(w) /\ worker[w].post = p)
    BY <2>4 DEF Locked, LockInv, NoPost, Rows, Mutable
  <2> QED
    BY <1>3, <2>1, <2>3, <2>5
<1>5. ASSUME NEW p \in Posts, NEW images \in SUBSET Media, NEW w \in Workers,
             PostNow(w, p, images)
      PROVE  LockInv'
  <2> DEFINE claim == [NoClaim EXCEPT !.pc = "claimed", !.post = p,
                         !.version = post[p].version + 1, !.gen = life.gen, !.manual = TRUE]
             row == [Fresh(p) EXCEPT !.state = "publishing", !.attempt = Attempts, !.lease = w]
  <2>1. /\ life' = life /\ worker[w].pc = "idle" /\ ~Locked(p)
        /\ worker' = [worker EXCEPT ![w] = claim]
        /\ post' = [post EXCEPT ![p] = row]
    BY <1>5 DEF PostNow, Save, MaySave
  <2>2. claim.pc = "claimed" /\ claim.post = p /\ ~row.aged
    BY DEF NoClaim, Fresh, NoPost
  <2> HIDE DEF claim, row
  <2>3. /\ worker'[w].pc = "claimed" /\ worker'[w].post = p /\ ~post'[p].aged
        /\ \A v \in Workers : v # w => worker'[v] = worker[v]
        /\ \A q \in Posts : q # p => post'[q] = post[q]
    BY <2>1, <2>2 DEF PostTypes, PostsTyped, WorkersTyped
  <2>4. \A v \in Workers : Publishing(v)' =>
           /\ Publishing(v) /\ worker'[v] = worker[v]
           /\ worker[v].post \in Posts /\ worker[v].post # p
    BY <2>1, <2>3 DEF Publishing, Locked, PostTypes, WorkersTyped, ClaimOK
  <2>5. \A v \in Workers : Publishing(v) => post[worker[v].post].state \in Rows
    BY DEF LockInv
  <2>6. \A q \in Posts : post'[q].aged =>
           /\ post'[q].state = "needs_attention"
           /\ \A v \in Workers : worker'[v].post # q
    BY <2>3 DEF LockInv
  <2> QED
    BY <2>1, <2>3, <2>4, <2>5, <2>6, QuietKeepsLocks
<1>6. ASSUME NEW p \in Posts,
             \/ LeaseLapses(p) \/ Age(p)
             \/ \E w \in Workers : OutlivesLease(w) /\ worker[w].post = p
      PROVE  LockInv'
  <2>1. UNCHANGED <<life, worker>>
    BY <1>6 DEF LeaseLapses, Age, OutlivesLease, Expire
  <2> DEFINE expired == [post[p] EXCEPT !.expired = TRUE]
             aged == [post[p] EXCEPT !.aged = TRUE]
  <2>2. \/ post' = [post EXCEPT ![p] = expired]
        \/ /\ post' = [post EXCEPT ![p] = aged] /\ post[p].state = "needs_attention"
           /\ \A w \in Workers : worker[w].post # p
    BY <1>6 DEF LeaseLapses, Age, OutlivesLease, Expire
  <2>3. /\ expired.state = post[p].state /\ expired.version = post[p].version
        /\ expired.gen = post[p].gen /\ expired.aged = post[p].aged
        /\ aged.state = post[p].state /\ aged.version = post[p].version
        /\ aged.gen = post[p].gen
    BY DEF PostTypes, PostsTyped, PostRows
  <2> HIDE DEF expired, aged
  <2>4. \A q \in Posts :
           /\ post'[q].state = post[q].state /\ post'[q].version = post[q].version
           /\ post'[q].gen = post[q].gen
           /\ \/ post'[q].aged = post[q].aged
              \/ post[q].state = "needs_attention" /\ \A w \in Workers : worker[w].post # q
    BY <2>2, <2>3 DEF PostTypes, PostsTyped
  <2>5. \A w \in Workers : Publishing(w)' => Publishing(w) /\ worker[w].post \in Posts
    BY <2>1 DEF Publishing, PostTypes, WorkersTyped, ClaimOK
  <2>6. \A w \in Workers : Publishing(w) => post[worker[w].post].state \in Rows
    BY DEF LockInv
  <2>7. \A q \in Posts : post'[q].aged =>
           /\ post'[q].state = "needs_attention"
           /\ \A w \in Workers : worker'[w].post # q
    BY <2>1, <2>4 DEF LockInv
  <2> QED
    BY <2>1, <2>4, <2>5, <2>6, <2>7, QuietKeepsLocks
<1>7. ASSUME NEW w \in Workers, OutlivesLease(w)
      PROVE  LockInv'
  <2>1. worker[w].post \in Posts
    BY <1>7 DEF OutlivesLease, PostTypes, WorkersTyped, ClaimOK
  <2> QED
    BY <1>6, <1>7, <2>1
<1>8. ASSUME NEW w \in Workers, ClaimDue(w)
      PROVE  LockInv'
  <2>1. life' = life
    BY <1>8 DEF ClaimDue
  <2>2. PICK p \in Posts :
           /\ worker[w].pc = "idle"
           /\ RecoveredPosts[p].state \in Waiting \cup {"publishing"}
           /\ \A q \in Posts : q # p => post'[q] = RecoveredPosts[q]
           /\ post'[p].version = post[p].version /\ post'[p].gen = post[p].gen
           /\ post'[p].state = "publishing" /\ post'[p].aged = post[p].aged
           /\ worker'[w].pc = "claimed" /\ worker'[w].post = p
           /\ \A v \in Workers : v # w => worker'[v] = worker[v]
    BY <1>8, ClaimDueStep
  <2>3. \A q \in Posts :
           /\ RecoveredPosts[q].version = post[q].version
           /\ RecoveredPosts[q].gen = post[q].gen /\ RecoveredPosts[q].aged = post[q].aged
           /\ \/ RecoveredPosts[q] = post[q]
              \/ post[q].state = "publishing" /\ RecoveredPosts[q].state = "retrying"
    BY RecoveredRows DEF PostTypes
  <2>4. \A q \in Posts : post[q].aged => post[q].state = "needs_attention"
    BY DEF LockInv
  <2>5. ~post[p].aged /\ ~post'[p].aged
    BY <2>2, <2>3, <2>4 DEF Waiting
  <2>6. \A q \in Posts : post'[q].aged =>
           /\ post'[q].state = "needs_attention"
           /\ \A v \in Workers : worker'[v].post # q
    BY <2>2, <2>3, <2>4, <2>5 DEF LockInv
  <2>7. \A v \in Workers : Publishing(v)' =>
           /\ Publishing(v) /\ worker'[v] = worker[v] /\ worker[v].post \in Posts
    BY <2>2 DEF Publishing, PostTypes, WorkersTyped, ClaimOK
  <2>8. \A v \in Workers : Publishing(v) => post[worker[v].post].state \in Rows
    BY DEF LockInv
  <2>9. \A q \in Posts :
           /\ post'[q].version = post[q].version /\ post'[q].gen = post[q].gen
           /\ post[q].state \in Rows => post'[q].state \in Rows
    BY <2>2, <2>3 DEF Rows, Mutable
  <2> QED
    BY <2>1, <2>6, <2>7, <2>8, <2>9, QuietKeepsLocks
<1>9. ASSUME NEW some \in SUBSET Posts,
             post' = [p \in Posts |-> IF p \in some THEN Gone(p) ELSE post[p]],
             life' = life \/ \A w \in Workers : ~Publishing(w),
             \A p \in some, w \in Workers : ~(Publishing(w) /\ worker[w].post = p),
             worker' = worker
      PROVE  LockInv'
  <2>1. \A p \in Posts : p \in some => ~post'[p].aged
    BY <1>9 DEF Gone, NoPost
  <2>2. \A p \in Posts : p \notin some => post'[p] = post[p]
    BY <1>9
  <2>3. \A q \in Posts : post'[q].aged =>
           /\ post'[q].state = "needs_attention"
           /\ \A v \in Workers : worker'[v].post # q
    BY <1>9, <2>1, <2>2 DEF LockInv
  <2>4. \A v \in Workers : Publishing(v)' =>
           /\ Publishing(v) /\ worker[v].post \in Posts /\ worker[v].post \notin some
    BY <1>9 DEF Publishing, PostTypes, WorkersTyped, ClaimOK
  <2>5. \A v \in Workers : Publishing(v) => post[worker[v].post].state \in Rows
    BY DEF LockInv
  <2> QED
    BY <1>9, <2>2, <2>3, <2>4, <2>5, QuietKeepsLocks
<1>10. ASSUME NEW c \in Cleaners, Sweep(c)
       PROVE  LockInv'
  <2> DEFINE old == {p \in Posts : post[p].state = "needs_attention" /\ post[p].aged}
  <2>1. /\ post' = [p \in Posts |-> IF p \in old THEN Gone(p) ELSE post[p]]
        /\ UNCHANGED <<life, worker>>
    BY <1>10 DEF Sweep
  <2>2. \A p \in old, w \in Workers : worker[w].post # p
    BY DEF LockInv
  <2>3. old \in SUBSET Posts
    OBVIOUS
  <2> HIDE DEF old
  <2> QED
    BY <1>9, <2>1, <2>2, <2>3
<1>11. ASSUME NEW to \in States, Transition(to)
       PROVE  LockInv'
  <2> DEFINE cancelled == IF life.state = "active"
                          THEN {p \in Posts : post[p].state \in Rows /\ post[p].gen = life.gen}
                          ELSE {}
  <2>1. /\ post' = [p \in Posts |-> IF p \in cancelled THEN Gone(p) ELSE post[p]]
        /\ UNCHANGED worker
        /\ \A w \in Workers : ~Publishing(w)
    BY <1>11 DEF Transition, ExclusiveFence
  <2>2. cancelled \in SUBSET Posts
    OBVIOUS
  <2> HIDE DEF cancelled
  <2> QED
    BY <1>9, <2>1, <2>2
<1>12. CASE Emptied
  <2> DEFINE some == {p \in Posts : post[p].state \in Rows}
  <2>1. /\ post' = [p \in Posts |-> IF p \in some THEN Gone(p) ELSE post[p]]
        /\ UNCHANGED <<life, worker>>
        /\ \A w \in Workers : ~Publishing(w)
    BY <1>12 DEF Emptied, ExclusiveFence
  <2>2. some \in SUBSET Posts
    OBVIOUS
  <2> HIDE DEF some
  <2> QED
    BY <1>9, <2>1, <2>2
<1>13. CASE \E write \in wire : Land(write) \/ Lose(write)
  BY <1>1, <1>13 DEF Land, Lose
<1> QED
  BY <1>2, <1>4, <1>5, <1>6, <1>7, <1>8, <1>10, <1>11, <1>12, <1>13, WorkerKeepsLocks
     DEF HostedStep, Next, Move

\* Only a worker with the lock sends a write, so what it sends is what the row is.
LEMMA OnlyOwnersSend ==
    ASSUME PostTypes, LockInv, HostedStep
    PROVE  \A p \in Posts : \A v \in sent'[p] \ sent[p] :
              post[p].version = v /\ post[p].state \in Rows /\ ActiveIn(post[p].gen)
<1>1. ASSUME NEW w \in Workers, Write(w)
      PROVE  \A p \in Posts : \A v \in sent'[p] \ sent[p] :
                post[p].version = v /\ post[p].state \in Rows /\ ActiveIn(post[p].gen)
  <2>1. Publishing(w)
    BY <1>1 DEF Write, Publishing
  <2>2. \A p \in Posts : \A v \in sent'[p] \ sent[p] :
           p = worker[w].post /\ v = worker[w].version
    BY <1>1 DEF Write, PostTypes, WritesTyped
  <2> QED
    BY <2>1, <2>2 DEF LockInv
<1>2. CASE sent' = sent
  BY <1>2
<1>3. sent' = sent \/ \E w \in Workers : Write(w)
  BY ZenonT(60)
  DEF HostedStep, Next, MediaStep, postVars, hostedVars, Emptied, Transition, Move, Create, Update,
         Save, PostNow, Delete, LeaseLapses, OutlivesLease, Expire, Age, ClaimDue, WorkerStep,
         Snapshot, Freeze, Acquire, Upload, Answered, GiveUp, Finalize, NoAnswer, UploadFails,
         Crash, PreparationFails, Refused, Land, Lose, Sweep
<1> QED
  BY <1>1, <1>2, <1>3

----------------------------------------------------------------------------
(* Theorems.                                                               *)

HostedSpec == Init /\ [][HostedStep]_hostedVars
HostedInv == MediaInv /\ PostTypes /\ WriteInv /\ LockInv

\* The schedule alone is one of the specifications that this is about.
THEOREM ScheduleIsHosted == Spec => HostedSpec
<1>1. [Next]_vars => [HostedStep]_hostedVars
  BY DEF vars, HostedStep, hostedVars
<1> QED
  BY <1>1, PTL DEF Spec, HostedSpec

LEMMA HostedInvariance == HostedSpec => []HostedInv
<1>1. Init => HostedInv
  BY MediaInitInv, PostInitTypes, WriteInitInv, LockInitInv DEF HostedInv
<1>2. HostedInv /\ [HostedStep]_hostedVars => HostedInv'
  <2> SUFFICES ASSUME HostedInv, HostedStep
               PROVE  HostedInv'
    BY DEF HostedStep
  <2>1. MediaInv'
    BY HostedKeepsMedia DEF HostedInv
  <2>2. PostTypes'
    BY HostedKeepsTypes DEF HostedInv
  <2>3. WriteInv'
    BY HostedKeepsWrites DEF HostedInv
  <2>4. LockInv'
    BY HostedKeepsLocks DEF HostedInv
  <2> QED
    BY <2>1, <2>2, <2>3, <2>4 DEF HostedInv
<1> QED
  BY <1>1, <1>2, PTL DEF HostedSpec

\* Every variable of the schedule and its images has its shape.
THEOREM ScheduleTypes == HostedSpec => []TypeOK
<1>1. HostedInv => TypeOK
  <2> SUFFICES ASSUME HostedInv
               PROVE  TypeOK
    OBVIOUS
  <2>1. post \in [Posts -> [state : Rows \cup {"none", "gone"}, gen : Nat,
                           version : 0..Versions, attempt : 0..Attempts,
                           frozen : BOOLEAN, lease : Workers \cup {Nobody},
                           expired : BOOLEAN, aged : BOOLEAN]]
    BY DEF HostedInv, PostTypes, PostsTyped, PostRows
  <2>2. \A p \in Posts : (post[p].state = "publishing") = (post[p].lease # Nobody)
    BY DEF HostedInv, PostTypes, PostsTyped, PostRowOK
  <2>3. /\ life \in [state : States, gen : Nat]
        /\ MediaTypeOK
        /\ wire \subseteq Posts \X (1..Versions)
    BY DEF HostedInv, PostTypes, MediaInv, MediaTypes, WritesTyped
  <2> QED
    BY <2>1, <2>2, <2>3 DEF TypeOK
<1> QED
  BY <1>1, HostedInvariance, PTL

\* However leases lapse and workers die, a version is on the PDS at most once.
THEOREM RecordsAreSingle == HostedSpec => []OncePerVersion
<1>1. HostedInv => OncePerVersion
  <2> SUFFICES ASSUME HostedInv, NEW p \in Posts, NEW v \in 1..Versions
               PROVE  landed[p][v] <= 1
    BY DEF OncePerVersion
  <2>1. landed[p][v] = 0 \/ landed[p][v] = 1
    BY DEF HostedInv, WriteInv, WriteOnce
  <2> QED
    BY <2>1
<1> QED
  BY <1>1, HostedInvariance, PTL

\* A tombstone names a version that is on the PDS.
THEOREM TombstonesHold == HostedSpec => []TombstonesAreTrue
<1>1. HostedInv => TombstonesAreTrue
  BY DEF HostedInv, WriteInv
<1> QED
  BY <1>1, HostedInvariance, PTL

\* An image that is ready for a post is in the object store.
THEOREM ImagesAreStored == HostedSpec => []ReadyIsStored
<1>1. HostedInv => ReadyIsStored
  BY DEF HostedInv, MediaInv
<1> QED
  BY <1>1, HostedInvariance, PTL

\* What the member replaced, deleted or left behind is never published.
THEOREM StaleIsNotPublished == HostedSpec => StaleNeverPublishes
<1> DEFINE Current == \A p \in Posts : \A v \in sent'[p] \ sent[p] :
                         /\ post[p].version = v /\ post[p].state \in Rows
                         /\ ActiveIn(post[p].gen)
<1>1. HostedInv /\ [HostedStep]_hostedVars => [Current]_vars
  <2>1. ASSUME HostedInv, HostedStep
        PROVE  Current
    BY <2>1, OnlyOwnersSend DEF HostedInv
  <2>2. ASSUME UNCHANGED hostedVars
        PROVE  Current
    BY <2>2 DEF hostedVars, postVars
  <2> QED
    BY <2>1, <2>2
<1> QED
  BY <1>1, HostedInvariance, PTL DEF HostedSpec, StaleNeverPublishes

----------------------------------------------------------------------------
(* Why no private image is forgotten: an object in the store, or one that  *)
(* a lost put may still bring there, has a row or a cleanup job, for any   *)
(* number of uploads and cleaners.                                         *)
(*                                                                         *)
(* A job goes when its cleaner saw no object.  That is safe if nothing can *)
(* come after, and something can only come of an attempt that was          *)
(* dispatched and not accepted (ImageInv), which its job knows, until the  *)
(* settlement boundary, which the cleaner compares with a time before its  *)
(* look (CleaningInv).                                                     *)

Known(m) == media[m].state # "none" \/ job[m].state # "none"

ImageInv(m) ==
    /\ media[m].state # "none" => attempt[m] # "none"
    /\ m \in object \cup late => Known(m)
    /\ m \in late => attempt[m] = "dispatched" /\ (tested => clock[m] <= Overdue)
    /\ attempt[m] = "dispatched" /\ job[m].state # "none" => job[m].uncertain

\* A request that is under way has not given its image to a post, and no job
\* came before its put.
UploadInv(u) ==
    LET m == uploader[u].image IN
    uploader[u].pc # "idle" =>
        /\ Known(m) /\ media[m].state # "ready"
        /\ uploader[u].pc = "reserved" /\ clock[m] = Open => job[m].state = "none"
        /\ uploader[u].pc \in {"put", "stored"} => attempt[m] = "dispatched" /\ m \notin late
        /\ uploader[u].pc = "put" => clock[m] = Open

\* What comes after a look at the store was under way before it.
CleaningInv(c) ==
    LET m == cleaner[c].image IN
    m \in Media /\ HoldsJob(c) =>
        /\ cleaner[c].now <= clock[m]
        /\ cleaner[c].pc = "looked" /\ cleaner[c].gone /\ m \in object \cup late =>
              job[m].uncertain /\ (tested => cleaner[c].now < Settled)

ImagesInv ==
    /\ \A m \in Media : ImageInv(m)
    /\ \A u \in Uploaders : UploadInv(u)
    /\ \A c \in Cleaners : CleaningInv(c)

\* Only a post that was saved has images.
ImagesFit == \A m \in Media, p \in Posts : media[m].post = p => post[p].state # "none"


LEMMA ImagesInitInv == Init => ImagesInv /\ ImagesFit
<1> SUFFICES ASSUME Init
             PROVE  ImagesInv /\ ImagesFit
  OBVIOUS
<1>1. \A m \in Media : /\ media[m].state = "none" /\ media[m].post = Nobody
                       /\ job[m].state = "none" /\ attempt[m] = "none"
  BY DEF Init, MediaInit, NoMedia, NoJob
<1>2. object = {} /\ late = {}
  BY DEF Init, MediaInit
<1>3. /\ \A u \in Uploaders : uploader[u].pc = "idle"
      /\ \A c \in Cleaners : cleaner[c].image = Nobody
  BY DEF Init, MediaInit, NoUpload, NoCleaning
<1>4. \A m \in Media : ImageInv(m)
  BY <1>1, <1>2 DEF ImageInv
<1>5. \A u \in Uploaders : UploadInv(u)
  BY <1>3 DEF UploadInv
<1>6. \A c \in Cleaners : CleaningInv(c)
  BY <1>3 DEF CleaningInv
<1> QED
  BY <1>1, <1>4, <1>5, <1>6 DEF ImagesInv, ImagesFit

\* No request is at an image that a post has, or that a cleaner has locked.
LEMMA UploadsAreApart ==
    ASSUME MediaInv, ImagesInv, NEW u \in Uploaders, uploader[u].pc # "idle"
    PROVE  /\ uploader[u].image \in Media
           /\ media[uploader[u].image].post = Nobody
           /\ \A v \in Uploaders : uploader[v].image = uploader[u].image => v = u
           /\ \A c \in Cleaners : cleaner[c].image = uploader[u].image => ~AtObject(c)
<1>1. uploader[u].image \in Media
  BY DEF MediaInv, MediaTypes, Uploads
<1>2. UploadInv(u)
  BY DEF ImagesInv
<1>3. media[uploader[u].image].post = Nobody
  BY <1>1, <1>2 DEF UploadInv, MediaInv, MediaTypes, MediaTypeOK
<1> QED
  BY <1>1, <1>3 DEF MediaInv, ObjectsAreLocked

----------------------------------------------------------------------------
(* Rows that go.                                                           *)

LEMMA SheddingKeepsImages ==
    ASSUME MediaInv, ImagesInv, NEW ms \in SUBSET Media,
           UNCHANGED <<attempt, clock, object, late, tested, uploader>>,
           job' = Enqueued(ms),
           \A m \in Media : \/ media'[m].state = media[m].state
                            \/ m \in ms /\ media'[m].state = "none",
           \A m \in ms, u \in Uploaders : uploader[u].image = m => clock[m] # Open,
           \A c \in Cleaners : \/ cleaner'[c] = cleaner[c]
                               \/ cleaner'[c].image = Nobody
    PROVE  ImagesInv'
<1>1. \A m \in Media :
         /\ job[m].state # "none" \/ m \notin ms \/ attempt[m] = "none" => job'[m] = job[m]
         /\ job'[m].state = "none" => job[m].state = "none"
         /\ m \in ms /\ attempt[m] # "none" => job'[m].state # "none"
         /\ job'[m].state = "deleting" => job'[m] = job[m]
         /\ job'[m] # job[m] => (job'[m].uncertain <=> attempt[m] = "dispatched")
  BY DEF Enqueued, NoJob
<1>2. ASSUME NEW m \in Media
      PROVE  ImageInv(m)' /\ (Known(m) => Known(m)')
  BY <1>1 DEF ImagesInv, ImageInv, Known
<1>3. ASSUME NEW u \in Uploaders
      PROVE  UploadInv(u)'
  <2>1. CASE uploader[u].pc # "idle"
    <3>1. uploader[u].image \in Media
      BY <2>1, UploadsAreApart
    <3>2. UploadInv(u)
      BY DEF ImagesInv
    <3> QED
      BY <1>1, <1>2, <2>1, <3>1, <3>2 DEF UploadInv
  <2> QED
    BY <2>1 DEF UploadInv
<1>4. ASSUME NEW c \in Cleaners
      PROVE  CleaningInv(c)'
  <2>1. CleaningInv(c)
    BY DEF ImagesInv
  <2>2. CASE cleaner'[c] = cleaner[c] /\ cleaner[c].image \in Media
    <3>1. ASSUME HoldsJob(c)'
          PROVE  HoldsJob(c) /\ job'[cleaner[c].image] = job[cleaner[c].image]
      BY <1>1, <2>2, <3>1 DEF HoldsJob
    <3> QED
      BY <2>1, <2>2, <3>1 DEF CleaningInv
  <2> QED
    BY <2>2 DEF CleaningInv
<1> QED
  BY <1>2, <1>3, <1>4 DEF ImagesInv

LEMMA NothingEnqueued ==
    ASSUME MediaInv
    PROVE  Enqueued({}) = job
  BY DEF Enqueued, MediaInv, MediaTypes, MediaTypeOK

----------------------------------------------------------------------------
(* Requests that stage images.                                             *)

\* A request at an image that no other request and no cleaner is at.
LEMMA UploadersKeepImages ==
    ASSUME MediaInv, ImagesInv, NEW u \in Uploaders, NEW m \in Media,
           UNCHANGED <<tested, cleaner>>,
           \A v \in Uploaders : v # u => uploader'[v] = uploader[v] /\ uploader[v].image # m,
           \A c \in Cleaners : cleaner[c].image = m => ~AtObject(c),
           \A n \in Media : n # m =>
              /\ media'[n] = media[n] /\ attempt'[n] = attempt[n] /\ job'[n] = job[n]
              /\ clock'[n] = clock[n]
              /\ (n \in object' <=> n \in object) /\ (n \in late' <=> n \in late),
           job'[m].state = "deleting" => job'[m] = job[m] /\ clock'[m] = clock[m],
           ImageInv(m)',
           uploader'[u].pc = "idle" \/ (uploader'[u].image = m /\ UploadInv(u)')
    PROVE  ImagesInv'
<1>1. ASSUME NEW n \in Media
      PROVE  ImageInv(n)'
  <2>1. CASE n # m
    <3>1. ImageInv(n)
      BY DEF ImagesInv
    <3> QED
      BY <2>1, <3>1 DEF ImageInv, Known
  <2> QED
    BY <2>1
<1>2. ASSUME NEW v \in Uploaders
      PROVE  UploadInv(v)'
  <2>1. CASE v # u /\ uploader[v].pc # "idle"
    <3>1. uploader[v].image \in Media /\ uploader[v].image # m
      BY <2>1, UploadsAreApart
    <3>2. UploadInv(v)
      BY DEF ImagesInv
    <3> QED
      BY <2>1, <3>1, <3>2 DEF UploadInv, Known
  <2>2. CASE v # u /\ uploader[v].pc = "idle"
    BY <2>2 DEF UploadInv
  <2>3. CASE v = u
    BY <2>3 DEF UploadInv
  <2> QED
    BY <2>1, <2>2, <2>3
<1>3. ASSUME NEW c \in Cleaners
      PROVE  CleaningInv(c)'
  <2>1. CleaningInv(c)
    BY DEF ImagesInv
  <2>2. CASE cleaner[c].image \in Media /\ cleaner[c].image # m
    BY <2>1, <2>2 DEF CleaningInv, HoldsJob
  <2>3. CASE cleaner[c].image = m
    <3>1. cleaner[c].pc # "looked"
      BY <2>3 DEF AtObject
    <3>2. ASSUME HoldsJob(c)'
          PROVE  HoldsJob(c) /\ clock'[m] = clock[m]
      BY <2>3, <3>2 DEF HoldsJob
    <3> QED
      BY <2>1, <2>3, <3>1, <3>2 DEF CleaningInv
  <2> QED
    BY <2>2, <2>3 DEF CleaningInv
<1> QED
  BY <1>1, <1>2, <1>3 DEF ImagesInv

LEMMA ReserveKeepsImages ==
    ASSUME MediaInv, ImagesInv, NEW u \in Uploaders, NEW m \in Media, Reserve(u, m)
    PROVE  ImagesInv'
<1>1. /\ ~ObjectFenced(m) /\ MayReserve(m)
      /\ media' = [media EXCEPT ![m] = [NoMedia EXCEPT !.state = "uploading", !.gen = life.gen]]
      /\ attempt' = [attempt EXCEPT ![m] = "prepared"]
      /\ clock' = [clock EXCEPT ![m] = IF attempt[m] = "none" THEN Open ELSE @]
      /\ uploader' = [uploader EXCEPT ![u] = [pc |-> "reserved", image |-> m]]
      /\ UNCHANGED <<job, object, late, tested, cleaner>>
  BY DEF Reserve
<1>2. /\ \A v \in Uploaders : v # u => uploader'[v] = uploader[v] /\ uploader[v].image # m
      /\ \A c \in Cleaners : cleaner[c].image = m => ~AtObject(c)
      /\ uploader'[u] = [pc |-> "reserved", image |-> m]
  BY <1>1 DEF ObjectFenced, AtObject, MediaInv, MediaTypes
<1>3. /\ media'[m].state = "uploading" /\ attempt'[m] = "prepared"
      /\ \A n \in Media : n # m =>
            media'[n] = media[n] /\ attempt'[n] = attempt[n] /\ clock'[n] = clock[n]
  BY <1>1 DEF MediaInv, MediaTypes, MediaTypeOK, NoMedia
<1>4. job[m].state = "none" /\ m \notin late
  BY <1>1 DEF MayReserve, ImagesInv, ImageInv
<1>5. ImageInv(m)' /\ UploadInv(u)'
  BY <1>1, <1>2, <1>3, <1>4 DEF ImageInv, UploadInv, Known
<1> QED
  BY <1>1, <1>2, <1>3, <1>4, <1>5, UploadersKeepImages

LEMMA UploadKeepsImages ==
    ASSUME MediaInv, ImagesInv, NEW u \in Uploaders,
           \/ Dispatch(u) \/ PutSucceeds(u) \/ PutFails(u) \/ MarkReady(u)
           \/ MoveToCleanup(u) \/ UploadCrashes(u)
    PROVE  ImagesInv'
<1>1. /\ uploader[u].pc # "idle"
      /\ StopUpload(u) \/ \E pc \in {"put", "stored", "failed"} : Uploading(u, pc)
      /\ UNCHANGED <<tested, cleaner, clock>>
  BY DEF Dispatch, PutSucceeds, PutFails, MarkReady, MoveToCleanup, UploadCrashes
<1>2. MediaTypes
  BY DEF MediaInv
<1>0. PICK m \in Media : m = uploader[u].image
  BY <1>1, UploadsAreApart
<1>3. /\ \A v \in Uploaders : v # u => uploader[v].image # m
      /\ \A c \in Cleaners : cleaner[c].image = m => ~AtObject(c)
  BY <1>0, <1>1, UploadsAreApart
<1>4. /\ \A v \in Uploaders : v # u => uploader'[v] = uploader[v]
      /\ uploader'[u].pc = "idle" \/ uploader'[u].image = m
  BY <1>0, <1>1, <1>2, UploadingTypes, StopUploadTypes
<1>5. ImageInv(m) /\ UploadInv(u)
  BY DEF ImagesInv
<1>6. /\ media \in [Media -> [state : {"none", "uploading", "ready"}, gen : Nat,
                              post : Posts \cup {Nobody}]]
      /\ attempt \in [Media -> {"none", "prepared", "dispatched", "accepted"}]
      /\ object \subseteq Media /\ late \subseteq Media
  BY <1>2 DEF MediaTypes, MediaTypeOK
<1>7. ASSUME \A n \in Media : n # m =>
                /\ media'[n] = media[n] /\ attempt'[n] = attempt[n] /\ job'[n] = job[n]
                /\ (n \in object' <=> n \in object) /\ (n \in late' <=> n \in late),
             job'[m].state = "deleting" => job'[m] = job[m],
             ImageInv(m)', uploader'[u].pc = "idle" \/ UploadInv(u)'
      PROVE  ImagesInv'
  <2>1. /\ UNCHANGED <<tested, cleaner>>
        /\ \A n \in Media : n # m =>
              /\ media'[n] = media[n] /\ attempt'[n] = attempt[n] /\ job'[n] = job[n]
              /\ clock'[n] = clock[n]
              /\ (n \in object' <=> n \in object) /\ (n \in late' <=> n \in late)
        /\ job'[m].state = "deleting" => job'[m] = job[m] /\ clock'[m] = clock[m]
    BY <1>1, <1>7
  <2>2. \A v \in Uploaders : v # u => uploader'[v] = uploader[v] /\ uploader[v].image # m
    BY <1>3, <1>4
  <2>3. \A c \in Cleaners : cleaner[c].image = m => ~AtObject(c)
    BY <1>3
  <2>4. uploader'[u].pc = "idle" \/ (uploader'[u].image = m /\ UploadInv(u)')
    BY <1>4, <1>7
  <2> QED
    BY <1>7, <2>1, <2>2, <2>3, <2>4, UploadersKeepImages
<1>8. CASE Dispatch(u)
  <2>1. CASE attempt[m] = "prepared" /\ clock[m] = Open
    <3>1. /\ attempt' = [attempt EXCEPT ![m] = "dispatched"] /\ Uploading(u, "put")
          /\ UNCHANGED <<media, job, object, late>> /\ uploader[u].pc = "reserved"
      BY <1>0, <1>8, <2>1 DEF Dispatch
    <3>2. uploader'[u].pc = "put" /\ uploader'[u].image = m
      BY <1>0, <1>1, <1>2, <3>1, UploadingTypes
    <3>3. attempt'[m] = "dispatched" /\ \A n \in Media : n # m => attempt'[n] = attempt[n]
      BY <1>3, <1>6, <3>1
    <3>4. job[m].state = "none" /\ m \notin late
      BY <1>0, <1>5, <2>1, <3>1 DEF UploadInv, ImageInv
    <3>5. ImageInv(m)'
      BY <1>5, <3>1, <3>3, <3>4 DEF ImageInv, Known
    <3>6. UploadInv(u)'
      BY <1>0, <1>1, <1>5, <2>1, <3>1, <3>2, <3>3, <3>4 DEF UploadInv, Known
    <3> QED
      BY <1>7, <3>1, <3>3, <3>4, <3>5, <3>6
  <2>2. CASE ~(attempt[m] = "prepared" /\ clock[m] = Open)
    <3>1. UNCHANGED <<media, attempt, job, object, late>> /\ StopUpload(u)
      BY <1>0, <1>8, <2>2 DEF Dispatch
    <3>2. uploader'[u].pc = "idle"
      BY <1>2, <3>1, StopUploadTypes
    <3> QED
      BY <1>1, <1>5, <1>7, <3>1, <3>2 DEF ImageInv, Known
  <2> QED
    BY <2>1, <2>2
<1>9. CASE PutSucceeds(u)
  <2>1. /\ object' = object \cup {m} /\ Uploading(u, "stored") /\ uploader[u].pc = "put"
        /\ UNCHANGED <<media, attempt, job, late>>
    BY <1>0, <1>9 DEF PutSucceeds
  <2>2. uploader'[u].pc = "stored" /\ uploader'[u].image = m
    BY <1>0, <1>1, <1>2, <2>1, UploadingTypes
  <2>3. ImageInv(m)' /\ UploadInv(u)'
    BY <1>0, <1>1, <1>5, <2>1, <2>2 DEF ImageInv, UploadInv, Known
  <2> QED
    BY <1>7, <2>1, <2>3
<1>10. CASE PutFails(u)
  <2>1. /\ late' \in {late, late \cup {m}} /\ Uploading(u, "failed") /\ uploader[u].pc = "put"
        /\ UNCHANGED <<media, attempt, job, object>>
    BY <1>0, <1>10 DEF PutFails
  <2>2. uploader'[u].pc = "failed" /\ uploader'[u].image = m
    BY <1>0, <1>1, <1>2, <2>1, UploadingTypes
  <2>3. ImageInv(m)' /\ UploadInv(u)'
    BY <1>0, <1>1, <1>5, <2>1, <2>2 DEF ImageInv, UploadInv, Known
  <2> QED
    BY <1>7, <2>1, <2>3
<1>11. CASE MarkReady(u)
  <2>0. uploader'[u].pc = "idle"
    BY <1>2, <1>11, StopUploadTypes DEF MarkReady
  <2>1. CASE attempt[m] = "dispatched" /\ media[m].state = "uploading"
    <3>1. /\ attempt' = [attempt EXCEPT ![m] = "accepted"]
          /\ media' = [media EXCEPT ![m].state = "ready"]
          /\ UNCHANGED <<job, object, late>> /\ uploader[u].pc = "stored"
      BY <1>0, <1>11, <2>1 DEF MarkReady
    <3>2. /\ attempt'[m] = "accepted" /\ media'[m].state = "ready"
          /\ \A n \in Media : n # m => media'[n] = media[n] /\ attempt'[n] = attempt[n]
      BY <1>3, <1>6, <3>1
    <3>3. ImageInv(m)'
      BY <1>0, <1>5, <3>1, <3>2 DEF ImageInv, UploadInv, Known
    <3> QED
      BY <1>7, <2>0, <3>1, <3>2, <3>3
  <2>2. CASE ~(attempt[m] = "dispatched" /\ media[m].state = "uploading")
    <3>1. UNCHANGED <<media, attempt, job, object, late>>
      BY <1>0, <1>11, <2>2 DEF MarkReady
    <3> QED
      BY <1>1, <1>5, <1>7, <2>0, <3>1 DEF ImageInv, Known
  <2> QED
    BY <2>1, <2>2
<1>12. CASE MoveToCleanup(u)
  <2>0. uploader'[u].pc = "idle" /\ UNCHANGED <<attempt, object, late>>
    BY <1>2, <1>12, StopUploadTypes DEF MoveToCleanup
  <2>1. CASE media[m].state = "uploading"
    <3>1. Discard({m})
      BY <1>0, <1>12, <2>1 DEF MoveToCleanup
    <3>2. /\ media'[m].state = "none"
          /\ \A n \in Media : n # m => media'[n] = media[n] /\ job'[n] = job[n]
          /\ job'[m] = IF job[m].state = "none"
                       THEN [NoJob EXCEPT !.state = "pending",
                                          !.uncertain = attempt[m] = "dispatched"]
                       ELSE job[m]
      BY <1>3, <1>5, <2>1, <3>1 DEF Discard, Rowless, Enqueued, NoMedia, ImageInv
    <3>3. ImageInv(m)' /\ (job'[m].state = "deleting" => job'[m] = job[m])
      BY <1>1, <1>5, <2>0, <3>2 DEF ImageInv, Known, NoJob
    <3> QED
      BY <1>7, <2>0, <3>2, <3>3
  <2>2. CASE media[m].state # "uploading"
    <3>1. UNCHANGED <<media, job>>
      BY <1>0, <1>12, <2>2 DEF MoveToCleanup
    <3> QED
      BY <1>1, <1>5, <1>7, <2>0, <3>1 DEF ImageInv, Known
  <2> QED
    BY <2>1, <2>2
<1>13. CASE UploadCrashes(u)
  <2>1. /\ uploader'[u].pc = "idle" /\ UNCHANGED <<media, attempt, job, object>>
        /\ \/ late' = late
           \/ uploader[u].pc = "put" /\ late' = late \cup {m}
    BY <1>0, <1>2, <1>13, StopUploadTypes DEF UploadCrashes
  <2>2. ImageInv(m)'
    BY <1>0, <1>1, <1>5, <2>1 DEF ImageInv, UploadInv, Known
  <2> QED
    BY <1>7, <2>1, <2>2
<1> QED
  BY <1>8, <1>9, <1>10, <1>11, <1>12, <1>13

----------------------------------------------------------------------------
(* Time.                                                                   *)

\* What lands or is lost was under way.
LEMMA LateKeepsImages ==
    ASSUME ImagesInv, late' \subseteq late, object \subseteq object',
           object' \cup late' \subseteq object \cup late,
           UNCHANGED <<media, attempt, clock, job, tested, uploader, cleaner>>
    PROVE  ImagesInv'
  BY DEF ImagesInv, ImageInv, UploadInv, CleaningInv, Known, HoldsJob

LEMMA TickKeepsImages ==
    ASSUME MediaInv, ImagesInv, NEW m \in Media, Tick(m)
    PROVE  ImagesInv'
<1>1. /\ UNCHANGED <<media, attempt, job, object, late, tested, uploader, cleaner>>
      /\ clock[m] = Open => \A u \in Uploaders : ~(uploader[u].image = m /\ uploader[u].pc = "put")
      /\ clock[m] = Overdue /\ tested => m \notin late
      /\ clock' = [clock EXCEPT ![m] = @ + 1]
  BY DEF Tick
<1>2. clock \in [Media -> 0..Unclaimed] /\ cleaner \in [Cleaners -> Cleanings]
  BY DEF MediaInv, MediaTypes
<1>3. /\ clock'[m] = clock[m] + 1 /\ clock'[m] # Open
      /\ \A n \in Media : n # m => clock'[n] = clock[n]
  BY <1>1, <1>2
<1>4. ASSUME NEW n \in Media
      PROVE  ImageInv(n)'
  <2>1. ImageInv(n)
    BY DEF ImagesInv
  <2>2. n \in late /\ tested => clock'[n] <= Overdue
    BY <1>1, <1>2, <1>3, <2>1 DEF ImageInv
  <2> QED
    BY <1>1, <2>1, <2>2 DEF ImageInv, Known
<1>5. ASSUME NEW u \in Uploaders
      PROVE  UploadInv(u)'
  <2>1. UploadInv(u)
    BY DEF ImagesInv
  <2>2. CASE uploader[u].pc # "idle"
    <3>1. uploader[u].image \in Media
      BY <2>2, UploadsAreApart
    <3>2. uploader[u].pc = "put" => clock'[uploader[u].image] = Open
      BY <1>1, <1>3, <2>1, <3>1 DEF UploadInv
    <3>3. clock'[uploader[u].image] = Open => clock[uploader[u].image] = Open
      BY <1>3, <3>1
    <3> QED
      BY <1>1, <2>1, <2>2, <3>2, <3>3 DEF UploadInv, Known
  <2> QED
    BY <1>1, <2>2 DEF UploadInv
<1>6. ASSUME NEW c \in Cleaners
      PROVE  CleaningInv(c)'
  <2>1. CleaningInv(c)
    BY DEF ImagesInv
  <2>2. ASSUME cleaner[c].image \in Media, cleaner[c].now <= clock[cleaner[c].image]
        PROVE  cleaner[c].now <= clock'[cleaner[c].image]
    <3>1. cleaner[c].now \in 0..Unclaimed /\ clock[cleaner[c].image] \in 0..Unclaimed
      BY <1>2, <2>2 DEF Cleanings
    <3> QED
      BY <1>3, <2>2, <3>1
  <2> QED
    BY <1>1, <2>1, <2>2 DEF CleaningInv, HoldsJob
<1> QED
  BY <1>4, <1>5, <1>6 DEF ImagesInv

LEMMA LeaseEndKeepsImages ==
    ASSUME MediaInv, ImagesInv, NEW m \in Media, LeaseEnds(m)
    PROVE  ImagesInv'
<1>1. /\ UNCHANGED <<media, attempt, clock, object, late, tested, uploader, cleaner>>
      /\ job' = [job EXCEPT ![m].expired = TRUE]
  BY DEF LeaseEnds
<1>2. \A n \in Media : /\ job'[n].state = job[n].state /\ job'[n].lease = job[n].lease
                       /\ job'[n].uncertain = job[n].uncertain
  BY <1>1 DEF MediaInv, MediaTypes, MediaTypeOK
<1>3. \A n \in Media : ImageInv(n)'
  BY <1>1, <1>2 DEF ImagesInv, ImageInv, Known
<1>4. ASSUME NEW u \in Uploaders
      PROVE  UploadInv(u)'
  <2>1. uploader[u].pc # "idle" => uploader[u].image \in Media
    BY UploadsAreApart
  <2> QED
    BY <1>1, <1>2, <2>1 DEF ImagesInv, UploadInv, Known
<1>5. \A c \in Cleaners : CleaningInv(c)'
  BY <1>1, <1>2 DEF ImagesInv, CleaningInv, HoldsJob
<1> QED
  BY <1>3, <1>4, <1>5 DEF ImagesInv

LEMMA TimeKeepsImages ==
    ASSUME MediaInv, ImagesInv, NEW m \in Media,
           DeleteImage(m) \/ LandLate(m) \/ LoseLate(m) \/ Tick(m) \/ LeaseEnds(m)
    PROVE  ImagesInv'
<1>1. CASE DeleteImage(m)
  <2>1. /\ ~ObjectFenced(m) /\ media' = Rowless({m}) /\ job' = Enqueued({m})
        /\ UNCHANGED <<attempt, clock, object, late, tested, uploader, cleaner>>
    BY <1>1 DEF DeleteImage, Discard
  <2>2. \A u \in Uploaders : uploader[u].image # m
    BY <2>1 DEF ObjectFenced
  <2>3. \A n \in Media : \/ media'[n].state = media[n].state
                         \/ n \in {m} /\ media'[n].state = "none"
    BY <2>1 DEF Rowless, NoMedia
  <2>4. {m} \in SUBSET Media
    OBVIOUS
  <2> QED
    BY <2>1, <2>2, <2>3, <2>4, SheddingKeepsImages, ZenonT(60)
<1>2. CASE LandLate(m) \/ LoseLate(m)
  BY <1>2, LateKeepsImages DEF LandLate, LoseLate
<1> QED
  BY <1>1, <1>2, TickKeepsImages, LeaseEndKeepsImages

----------------------------------------------------------------------------
(* Cleaners.                                                               *)

\* A cleaner takes jobs for itself, gives them back as they were, and drops
\* only those that no bytes need.
LEMMA CleanersKeepImages ==
    ASSUME MediaInv, ImagesInv, NEW c \in Cleaners,
           UNCHANGED <<media, clock, late, tested, uploader>>, object' \subseteq object,
           \A e \in Cleaners : e # c => cleaner'[e] = cleaner[e],
           \A n \in Media :
              /\ job'[n].state # "none" =>
                    job[n].state # "none" /\ job'[n].uncertain = job[n].uncertain
              /\ job'[n].state = "deleting" => job'[n] = job[n] \/ job'[n].lease = c
              /\ \/ attempt'[n] = attempt[n] /\ (Known(n) => Known(n)')
                 \/ /\ n \notin object \cup late /\ media[n].state = "none"
                    /\ job'[n].state = "none"
                    /\ \A u \in Uploaders : uploader[u].image # n,
           CleaningInv(c)'
    PROVE  ImagesInv'
<1>1. ASSUME NEW n \in Media
      PROVE  ImageInv(n)'
  <2>1. ImageInv(n)
    BY DEF ImagesInv
  <2> QED
    BY <2>1 DEF ImageInv
<1>2. ASSUME NEW u \in Uploaders
      PROVE  UploadInv(u)'
  <2>1. UploadInv(u)
    BY DEF ImagesInv
  <2>2. CASE uploader[u].pc # "idle"
    <3>1. uploader[u].image \in Media
      BY <2>2, UploadsAreApart
    <3> QED
      BY <2>1, <2>2, <3>1 DEF UploadInv
  <2> QED
    BY <2>2 DEF UploadInv
<1>3. ASSUME NEW e \in Cleaners
      PROVE  CleaningInv(e)'
  <2>1. CASE e = c
    BY <2>1
  <2>2. CASE e # c /\ cleaner[e].image \in Media
    <3>1. CleaningInv(e)
      BY DEF ImagesInv
    <3>2. ASSUME HoldsJob(e)'
          PROVE  HoldsJob(e) /\ job'[cleaner[e].image] = job[cleaner[e].image]
      BY <2>2, <3>2 DEF HoldsJob
    <3> QED
      BY <2>2, <3>1, <3>2 DEF CleaningInv
  <2>3. CASE e # c /\ cleaner[e].image \notin Media
    BY <2>3 DEF CleaningInv
  <2> QED
    BY <2>1, <2>2, <2>3
<1> QED
  BY <1>1, <1>2, <1>3 DEF ImagesInv

LEMMA ClaimKeepsImages ==
    ASSUME MediaInv, ImagesInv, NEW c \in Cleaners, ClaimCleanup(c)
    PROVE  ImagesInv'
<1>1. /\ UNCHANGED <<media, attempt, clock, object, late, tested, uploader>>
      /\ clock \in [Media -> 0..Unclaimed]
      /\ cleaner \in [Cleaners -> Cleanings]
  BY DEF ClaimCleanup, MediaInv, MediaTypes
<1>2. MediaTypeOK /\ JobsOK(job) /\ JobsOK(RecoveredJobs)
  BY JobsAreTyped, RecoveredTypes DEF MediaInv, MediaTypes
<1>3. \A n \in Media :
         /\ RecoveredJobs[n].state = "none" => job[n].state = "none" \/ media[n].state # "none"
         /\ RecoveredJobs[n].state # "none" =>
               job[n].state # "none" /\ RecoveredJobs[n].uncertain = job[n].uncertain
         /\ RecoveredJobs[n].state = "deleting" => RecoveredJobs[n] = job[n]
  BY DEF RecoveredJobs, NoJob
<1>4. CASE job' = RecoveredJobs /\ StopCleaning(c)
  <2>1. CleaningInv(c)' /\ \A e \in Cleaners : e # c => cleaner'[e] = cleaner[e]
    BY <1>1, <1>4 DEF StopCleaning, NoCleaning, CleaningInv
  <2>2. \A n \in Media : Known(n) => Known(n)'
    BY <1>1, <1>3, <1>4 DEF Known
  <2> QED
    BY <1>1, <1>3, <1>4, <2>1, <2>2, CleanersKeepImages
<1>5. ASSUME NEW m \in Media, RecoveredJobs[m].state = "pending",
             job' = [RecoveredJobs EXCEPT ![m].state = "deleting", ![m].lease = c],
             cleaner' = [cleaner EXCEPT ![c] =
                           [pc |-> "claimed", image |-> m, now |-> clock[m], gone |-> FALSE]]
      PROVE  ImagesInv'
  <2>1. /\ job'[m] = [RecoveredJobs[m] EXCEPT !.state = "deleting", !.lease = c]
        /\ \A n \in Media : n # m => job'[n] = RecoveredJobs[n]
    BY <1>2, <1>5 DEF JobsOK
  <2>2. /\ job'[m].state = "deleting" /\ job'[m].lease = c
        /\ job'[m].uncertain = RecoveredJobs[m].uncertain
    BY <1>2, <2>1 DEF JobsOK, JobRows
  <2>3. /\ cleaner'[c].pc = "claimed" /\ cleaner'[c].image = m /\ cleaner'[c].now = clock[m]
        /\ \A e \in Cleaners : e # c => cleaner'[e] = cleaner[e]
    BY <1>1, <1>5
  <2>4. CleaningInv(c)'
    BY <1>1, <2>3 DEF CleaningInv
  <2>5. \A n \in Media :
           /\ job'[n].state # "none" =>
                 job[n].state # "none" /\ job'[n].uncertain = job[n].uncertain
           /\ job'[n].state = "deleting" => job'[n] = job[n] \/ job'[n].lease = c
           /\ Known(n) => Known(n)'
    <3> TAKE n \in Media
    <3>1. CASE n = m
      BY <1>3, <1>5, <2>2, <3>1 DEF Known
    <3>2. CASE n # m
      <4>1. job'[n] = RecoveredJobs[n]
        BY <2>1, <3>2
      <4> QED
        BY <1>1, <1>3, <4>1 DEF Known
    <3> QED
      BY <3>1, <3>2
  <2> QED
    BY <1>1, <2>3, <2>4, <2>5, CleanersKeepImages
<1> QED
  BY <1>4, <1>5 DEF ClaimCleanup

\* A cleaner that changes at most the job of its own image.
LEMMA OneJobKeepsImages ==
    ASSUME MediaInv, ImagesInv, NEW c \in Cleaners, NEW m \in Media,
           UNCHANGED <<media, attempt, clock, late, tested, uploader>>, object' \subseteq object,
           \A e \in Cleaners : e # c => cleaner'[e] = cleaner[e],
           \A n \in Media : n # m => job'[n] = job[n],
           \/ job'[m] = job[m]
           \/ job'[m].state = "none" /\ media[m].state # "none"
           \/ /\ job[m].state = "deleting" /\ job'[m].state = "pending"
              /\ job'[m].uncertain = job[m].uncertain,
           CleaningInv(c)'
    PROVE  ImagesInv'
<1>1. \A n \in Media :
         /\ job'[n].state # "none" =>
               job[n].state # "none" /\ job'[n].uncertain = job[n].uncertain
         /\ job'[n].state = "deleting" => job'[n] = job[n]
         /\ Known(n) => Known(n)'
  BY DEF Known
<1> QED
  BY <1>1, CleanersKeepImages

LEMMA RetryKeepsImages ==
    ASSUME MediaInv, ImagesInv, NEW c \in Cleaners, cleaner[c].image \in Media, Retry(c),
           UNCHANGED <<media, attempt, clock, object, late, tested, uploader>>
    PROVE  ImagesInv'
<1>1. PICK m \in Media : m = cleaner[c].image
  OBVIOUS
<1>2. JobsOK(job) /\ cleaner \in [Cleaners -> Cleanings]
  BY JobsAreTyped DEF MediaInv, MediaTypes
<1>3. CleaningInv(c)' /\ \A e \in Cleaners : e # c => cleaner'[e] = cleaner[e]
  BY <1>2 DEF Retry, StopCleaning, NoCleaning, CleaningInv
<1>4. CASE HoldsJob(c)
  <2>1. /\ job'[m] = [NoJob EXCEPT !.state = "pending", !.uncertain = job[m].uncertain]
        /\ \A n \in Media : n # m => job'[n] = job[n]
    BY <1>1, <1>2, <1>4 DEF Retry, JobsOK
  <2>2. job[m].state = "deleting" /\ job'[m].state = "pending"
        /\ job'[m].uncertain = job[m].uncertain
    BY <1>1, <1>4, <2>1 DEF HoldsJob, NoJob
  <2> QED
    BY <1>3, <2>1, <2>2, OneJobKeepsImages
<1>5. CASE ~HoldsJob(c)
  BY <1>3, <1>5, OneJobKeepsImages DEF Retry
<1> QED
  BY <1>4, <1>5

\* Where bytes may still be under way, their job stays.
LEMMA ConcludeKeepsImages ==
    ASSUME MediaInv, ImagesInv, NEW c \in Cleaners, Conclude(c)
    PROVE  ImagesInv'
<1>1. cleaner[c].pc = "looked" /\ AtObject(c)
  BY DEF Conclude, AtObject
<1>2. cleaner[c].image \in Media /\ JobsOK(job) /\ cleaner \in [Cleaners -> Cleanings]
  BY <1>1, JobsAreTyped DEF MediaInv, MediaTypes, Cleanings
<1>3. PICK m \in Media : m = cleaner[c].image
  BY <1>2
<1>4. CASE HoldsJob(c) /\ ProvesSettlement(c)
  <2>1. /\ job' = [job EXCEPT ![m] = NoJob]
        /\ attempt' = [attempt EXCEPT ![m] = IF media[m].state = "none" THEN "none" ELSE @]
        /\ UNCHANGED <<media, clock, object, late, tested, uploader>>
        /\ StopCleaning(c)
    BY <1>3, <1>4 DEF Conclude
  <2>2. /\ job'[m].state = "none" /\ \A n \in Media : n # m => job'[n] = job[n]
        /\ \A n \in Media : n # m => attempt'[n] = attempt[n]
    BY <1>2, <2>1 DEF JobsOK, NoJob, MediaInv, MediaTypes, MediaTypeOK
  <2>3. CleaningInv(c)' /\ \A e \in Cleaners : e # c => cleaner'[e] = cleaner[e]
    BY <1>2, <2>1 DEF StopCleaning, NoCleaning, CleaningInv
  <2>4. CleaningInv(c) /\ cleaner[c].now \in Nat
    BY <1>2 DEF ImagesInv, Cleanings
  <2>5. m \notin object \cup late
    BY <1>1, <1>3, <1>4, <2>4 DEF CleaningInv, ProvesSettlement
  <2>6. media[m].state = "none" /\ \A u \in Uploaders : uploader[u].image # m
    BY <1>1, <1>3 DEF MediaInv, ObjectsAreLocked
  <2>7. \A n \in Media : n # m =>
           attempt'[n] = attempt[n] /\ job'[n] = job[n] /\ (Known(n) => Known(n)')
    BY <2>1, <2>2 DEF Known
  <2>8. \A n \in Media :
           /\ job'[n].state # "none" =>
                 job[n].state # "none" /\ job'[n].uncertain = job[n].uncertain
           /\ job'[n].state = "deleting" => job'[n] = job[n]
    BY <2>2
  <2>9. \A n \in Media :
           \/ attempt'[n] = attempt[n] /\ (Known(n) => Known(n)')
           \/ /\ n \notin object \cup late /\ media[n].state = "none"
              /\ job'[n].state = "none"
              /\ \A u \in Uploaders : uploader[u].image # n
    BY <2>2, <2>5, <2>6, <2>7
  <2> QED
    BY <2>1, <2>3, <2>8, <2>9, CleanersKeepImages
<1>5. CASE ~(HoldsJob(c) /\ ProvesSettlement(c))
  <2>1. Retry(c) /\ UNCHANGED <<media, attempt, clock, object, late, tested, uploader>>
    BY <1>5 DEF Conclude
  <2> QED
    BY <1>2, <2>1, RetryKeepsImages
<1> QED
  BY <1>4, <1>5

\* A look at the store finds gone what only an attempt that is still uncertain
\* can bring back.
LEMMA LookKeepsImages ==
    ASSUME MediaInv, ImagesInv, NEW c \in Cleaners, LookAgain(c)
    PROVE  ImagesInv'
<1>1. /\ cleaner[c].pc = "deleted" /\ cleaner \in [Cleaners -> Cleanings]
      /\ clock \in [Media -> 0..Unclaimed]
      /\ cleaner' = [cleaner EXCEPT ![c].pc = "looked", ![c].gone = cleaner[c].image \notin object]
      /\ UNCHANGED <<media, attempt, clock, job, object, late, tested, uploader>>
  BY DEF LookAgain, MediaInv, MediaTypes
<1>2. PICK m \in Media : m = cleaner[c].image
  BY <1>1 DEF MediaInv, MediaTypes, Cleanings
<1>3. /\ \A e \in Cleaners : e # c => cleaner'[e] = cleaner[e]
      /\ cleaner'[c].image = m /\ cleaner'[c].now = cleaner[c].now
      /\ cleaner'[c].gone <=> m \notin object
  BY <1>1, <1>2 DEF Cleanings
<1>4. CleaningInv(c) /\ ImageInv(m)
  BY DEF ImagesInv
<1>5. cleaner[c].now \in Nat /\ clock[m] \in Nat
  BY <1>1 DEF Cleanings
<1>6. CleaningInv(c)'
  BY <1>1, <1>2, <1>3, <1>4, <1>5 DEF CleaningInv, ImageInv, HoldsJob
<1> QED
  BY <1>1, <1>3, <1>6, OneJobKeepsImages

LEMMA CleanerKeepsImages ==
    ASSUME MediaInv, ImagesInv, NEW c \in Cleaners,
           CleanerStep(c) \/ AcquireCleanup(c) \/ DeleteFails(c) \/ CleanerCrashes(c)
    PROVE  ImagesInv'
<1>1. cleaner \in [Cleaners -> Cleanings]
  BY DEF MediaInv, MediaTypes
<1>2. ASSUME StopCleaning(c)
      PROVE  CleaningInv(c)' /\ \A e \in Cleaners : e # c => cleaner'[e] = cleaner[e]
  BY <1>1, <1>2 DEF StopCleaning, NoCleaning, CleaningInv
<1>3. ASSUME NEW pc \in {"deleting", "deleted"}, Cleaning(c, pc),
             UNCHANGED <<clock, job>>
      PROVE  CleaningInv(c)' /\ \A e \in Cleaners : e # c => cleaner'[e] = cleaner[e]
  <2>1. /\ cleaner'[c].pc = pc /\ cleaner'[c].image = cleaner[c].image
        /\ cleaner'[c].now = cleaner[c].now
        /\ \A e \in Cleaners : e # c => cleaner'[e] = cleaner[e]
    BY <1>1, <1>3 DEF Cleaning, Cleanings
  <2>2. CleaningInv(c)
    BY DEF ImagesInv
  <2> QED
    BY <1>3, <2>1, <2>2 DEF CleaningInv, HoldsJob
<1>4. CASE AcquireCleanup(c)
  <2>1. UNCHANGED <<media, attempt, clock, object, late, tested, uploader>>
    BY <1>4 DEF AcquireCleanup
  <2>2. PICK m \in Media : m = cleaner[c].image
    BY <1>1, <1>4 DEF AcquireCleanup, MediaInv, MediaTypes, Cleanings
  <2>3. CASE HoldsJob(c) /\ media[m].state # "none"
    <3>1. job' = [job EXCEPT ![m] = NoJob] /\ StopCleaning(c)
      BY <1>4, <2>2, <2>3 DEF AcquireCleanup
    <3>2. job'[m].state = "none" /\ \A n \in Media : n # m => job'[n] = job[n]
      BY <3>1, JobsAreTyped DEF MediaInv, MediaTypes, JobsOK, NoJob
    <3> QED
      BY <1>2, <2>1, <2>3, <3>1, <3>2, OneJobKeepsImages
  <2>4. CASE ~(HoldsJob(c) /\ media[m].state # "none")
    <3>1. UNCHANGED job /\ (StopCleaning(c) \/ Cleaning(c, "deleting"))
      BY <1>4, <2>2, <2>4 DEF AcquireCleanup
    <3> QED
      BY <1>2, <1>3, <2>1, <3>1, OneJobKeepsImages
  <2> QED
    BY <2>3, <2>4
<1>5. CASE DeleteObject(c)
  <2>1. /\ Cleaning(c, "deleted") /\ object' \subseteq object
        /\ UNCHANGED <<media, attempt, clock, job, late, tested, uploader>>
    BY <1>5 DEF DeleteObject
  <2>2. cleaner[c].image \in Media
    BY <1>1, <1>5 DEF DeleteObject, MediaInv, MediaTypes, Cleanings
  <2> QED
    BY <1>3, <2>1, <2>2, OneJobKeepsImages
<1>6. CASE DeleteFails(c)
  <2>1. Retry(c) /\ UNCHANGED <<media, attempt, clock, object, late, tested, uploader>>
    BY <1>6 DEF DeleteFails
  <2>2. cleaner[c].image \in Media
    BY <1>1, <1>6 DEF DeleteFails, MediaInv, MediaTypes, Cleanings
  <2> QED
    BY <2>1, <2>2, RetryKeepsImages
<1>7. CASE CleanerCrashes(c)
  <2>1. /\ StopCleaning(c)
        /\ UNCHANGED <<media, attempt, clock, job, object, late, tested, uploader>>
    BY <1>7 DEF CleanerCrashes
  <2> QED
    BY <1>2, <2>1, CleanersKeepImages DEF Known
<1> QED
  BY <1>4, <1>5, <1>6, <1>7, ClaimKeepsImages, LookKeepsImages, ConcludeKeepsImages
     DEF CleanerStep

----------------------------------------------------------------------------
(* The schedule.                                                           *)

LEMMA ScheduleKeepsImages ==
    ASSUME MediaInv, PostTypes, ImagesInv, ImagesFit, HostedStep
    PROVE  ImagesInv'
<1>1. CASE MediaStep
  BY <1>1, ReserveKeepsImages, UploadKeepsImages, TimeKeepsImages, CleanerKeepsImages
     DEF MediaStep, MediaNext
<1>2. ASSUME UNCHANGED mediaVars
      PROVE  ImagesInv'
  BY <1>2 DEF mediaVars, ImagesInv, ImageInv, UploadInv, CleaningInv, Known, HoldsJob
<1>3. ASSUME NEW p \in Posts
      PROVE  /\ Attached(p) \in SUBSET Media
             /\ \A m \in Attached(p), u \in Uploaders : uploader[u].image # m
  <2>1. ASSUME NEW m \in Attached(p), NEW u \in Uploaders, uploader[u].image = m
        PROVE  FALSE
    <3>1. uploader[u].pc # "idle" /\ media[m].post = p
      BY <2>1 DEF Attached, MediaInv, MediaTypes
    <3>2. media[m].post = Nobody
      BY <2>1, <3>1, UploadsAreApart
    <3> QED
      BY <3>1, <3>2
  <2> QED
    BY <2>1 DEF Attached
<1>4. ASSUME NEW ms \in SUBSET Media, Discard(ms),
             UNCHANGED <<attempt, clock, object, late, tested, uploader>>,
             \A c \in Cleaners : cleaner'[c] = cleaner[c] \/ cleaner'[c].image = Nobody,
             \A m \in ms, u \in Uploaders : uploader[u].image = m => clock[m] # Open
      PROVE  ImagesInv'
  <2>1. \A m \in Media : \/ media'[m].state = media[m].state
                         \/ m \in ms /\ media'[m].state = "none"
    BY <1>4 DEF Discard, Rowless, NoMedia
  <2>2. job' = Enqueued(ms)
    BY <1>4 DEF Discard
  <2> QED
    BY <1>4, <2>1, <2>2, SheddingKeepsImages
<1>5. ASSUME NEW p \in Posts, NEW images \in SUBSET Media,
             media' = Attach(p, images), job' = Enqueued(Attached(p) \ images),
             UNCHANGED <<attempt, clock, object, late, tested, uploader, cleaner>>
      PROVE  ImagesInv'
  <2> DEFINE ms == Attached(p) \ images
  <2>1. \A m \in Media : \/ media'[m].state = media[m].state
                         \/ m \in ms /\ media'[m].state = "none"
    BY <1>5 DEF Attach, Attached, NoMedia, MediaInv, MediaTypes, MediaTypeOK
  <2>2. ms \in SUBSET Media /\ \A m \in ms, u \in Uploaders : uploader[u].image # m
    BY <1>3
  <2> HIDE DEF ms
  <2>3. job' = Enqueued(ms)
    BY <1>5 DEF ms
  <2> QED
    BY <1>5, <2>1, <2>2, <2>3, SheddingKeepsImages
<1>6. ASSUME NEW p \in Posts, NEW images \in SUBSET Media, Create(p, images)
      PROVE  ImagesInv'
  <2>1. post[p].state = "none"
    BY <1>6 DEF Create, NoPost
  <2>2. Attached(p) = {}
    BY <2>1 DEF ImagesFit, Attached
  <2>3. job' = Enqueued(Attached(p) \ images)
    <3>1. Attached(p) \ images = {} /\ job' = job
      BY <1>6, <2>2 DEF Create
    <3> QED
      BY <3>1, NothingEnqueued
  <2>4. /\ media' = Attach(p, images)
        /\ UNCHANGED <<attempt, clock, object, late, tested, uploader, cleaner>>
    BY <1>6 DEF Create
  <2> QED
    BY <1>5, <2>3, <2>4
<1>7. ASSUME NEW p \in Posts, NEW images \in SUBSET Media,
             Update(p, images) \/ \E w \in Workers : PostNow(w, p, images)
      PROVE  ImagesInv'
  <2>1. /\ media' = Attach(p, images) /\ job' = Enqueued(Attached(p) \ images)
        /\ UNCHANGED <<attempt, clock, object, late, tested, uploader, cleaner>>
    BY <1>7 DEF Update, PostNow, Save
  <2> QED
    BY <1>5, <2>1
<1>8. ASSUME NEW p \in Posts, Delete(p)
      PROVE  ImagesInv'
  <2>1. /\ Discard(Attached(p))
        /\ UNCHANGED <<attempt, clock, object, late, tested, uploader, cleaner>>
    BY <1>8 DEF Delete
  <2> QED
    BY <1>3, <1>4, <2>1
<1>9. ASSUME NEW c \in Cleaners, Sweep(c)
      PROVE  ImagesInv'
  <2> DEFINE old == {p \in Posts : post[p].state = "needs_attention" /\ post[p].aged}
             ms == ExpiredImages \cup UNION {Attached(p) : p \in old}
  <2>1. /\ Discard(ms) /\ cleaner[c].pc = "idle" /\ Cleaning(c, "swept")
        /\ UNCHANGED <<attempt, clock, object, late, tested, uploader>>
    BY <1>9 DEF Sweep
  <2>2. ms \in SUBSET Media
    BY <1>3 DEF ExpiredImages
  <2>3. \A m \in ms, u \in Uploaders : uploader[u].image = m => clock[m] # Open
    BY <1>3 DEF ExpiredImages
  <2>4. \A e \in Cleaners : cleaner'[e] = cleaner[e] \/ cleaner'[e].image = Nobody
    BY <2>1 DEF Cleaning, MediaInv, MediaTypes, Cleanings
  <2> HIDE DEF ms
  <2> QED
    BY <1>4, <2>1, <2>2, <2>3, <2>4
<1>10. ASSUME ExclusiveFence
       PROVE  \A m \in Media, u \in Uploaders : uploader[u].image # m
  BY <1>10 DEF ExclusiveFence, MediaFenced, MediaInv, MediaTypes
<1>11. ASSUME NEW to \in States, Transition(to)
       PROVE  ImagesInv'
  <2> DEFINE cancelled == IF life.state = "active"
                          THEN {p \in Posts : post[p].state \in Rows /\ post[p].gen = life.gen}
                          ELSE {}
             ms == UNION {Attached(p) : p \in cancelled}
  <2>1. /\ Discard(ms) /\ ExclusiveFence
        /\ UNCHANGED <<attempt, clock, object, late, tested, uploader, cleaner>>
    BY <1>11 DEF Transition
  <2>2. ms \in SUBSET Media
    BY <1>3
  <2> HIDE DEF ms
  <2> QED
    BY <1>4, <1>10, <2>1, <2>2
<1>12. CASE Emptied
  <2> DEFINE ms == {m \in Media : media[m].state # "none"}
  <2>1. /\ Discard(ms) /\ ExclusiveFence /\ ms \in SUBSET Media
        /\ UNCHANGED <<attempt, clock, object, late, tested, uploader, cleaner>>
    BY <1>12 DEF Emptied
  <2> HIDE DEF ms
  <2> QED
    BY <1>4, <1>10, <2>1
<1>13. ASSUME NEW w \in Workers, Finalize(w)
       PROVE  ImagesInv'
  <2>1. worker[w].post \in Posts
    BY <1>13 DEF Finalize, PostTypes, WorkersTyped, ClaimOK
  <2>2. /\ Discard(Attached(worker[w].post)) \/ UNCHANGED <<media, job>>
        /\ UNCHANGED <<attempt, clock, object, late, tested, uploader, cleaner>>
    BY <1>13 DEF Finalize
  <2>3. CASE Discard(Attached(worker[w].post))
    BY <1>3, <1>4, <2>1, <2>2, <2>3
  <2>4. CASE UNCHANGED <<media, job>>
    BY <1>2, <2>2, <2>4 DEF mediaVars
  <2> QED
    BY <2>2, <2>3, <2>4
<1>14. CASE UNCHANGED hostedVars
  BY <1>2, <1>14 DEF hostedVars
<1>15. CASE \E p \in Posts : LeaseLapses(p) \/ Age(p)
  BY <1>2, <1>15 DEF LeaseLapses, Expire, Age
<1>16. ASSUME NEW w \in Workers, ClaimDue(w) \/ WorkerStep(w)
       PROVE  ImagesInv'
  BY <1>2, <1>13, <1>16
     DEF ClaimDue, WorkerStep, Snapshot, Freeze, Acquire, Upload, Write, Answered, GiveUp
<1>17. ASSUME NEW w \in Workers,
              \/ NoAnswer(w) \/ UploadFails(w) \/ Crash(w) \/ OutlivesLease(w)
              \/ \E permanent \in BOOLEAN :
                    PreparationFails(w, permanent) \/ Refused(w, permanent)
       PROVE  ImagesInv'
  BY <1>2, <1>17 DEF NoAnswer, UploadFails, Crash, OutlivesLease, Expire,
                     PreparationFails, Refused
<1>18. CASE \E write \in wire : Land(write) \/ Lose(write)
  BY <1>2, <1>18 DEF Land, Lose
<1> QED
  BY <1>1, <1>6, <1>7, <1>8, <1>9, <1>11, <1>12, <1>14, <1>15, <1>16, <1>17, <1>18
     DEF HostedStep, Next, Move

\* A post that was saved never becomes one that was not.
LEMMA PostsStaySaved ==
    ASSUME PostTypes, HostedStep, NEW p \in Posts, post[p].state # "none"
    PROVE  post'[p].state # "none"
<1> DEFINE Kept == post'[p].state # "none"
<1>1. \A q \in Posts : Gone(q).state = "gone"
  BY DEF Gone, NoPost
<1>2. post \in [Posts -> PostRows]
  BY DEF PostTypes, PostsTyped
<1>3. ASSUME UNCHANGED post
      PROVE  Kept
  BY <1>3
<1>4. ASSUME NEW q \in Posts, NEW row, post' = [post EXCEPT ![q] = row], row.state # "none"
      PROVE  Kept
  BY <1>2, <1>4
<1>5. ASSUME NEW some, post' = [q \in Posts |-> IF q \in some THEN Gone(q) ELSE post[q]]
      PROVE  Kept
  BY <1>1, <1>5
<1>6. ASSUME NEW q \in Posts, NEW images \in SUBSET Media,
             \/ Create(q, images) \/ Update(q, images) \/ Delete(q)
             \/ \E w \in Workers : PostNow(w, q, images)
      PROVE  Kept
  <2>1. ASSUME NEW row, row = NoPost \/ row = Fresh(q)
        PROVE  /\ [row EXCEPT !.state = "scheduled"].state = "scheduled"
               /\ \A w : [row EXCEPT !.state = "publishing", !.attempt = Attempts,
                                     !.lease = w].state = "publishing"
    BY <2>1 DEF NoPost, Fresh
  <2>2. CASE Create(q, images)
    <3> DEFINE row == [NoPost EXCEPT !.state = "scheduled", !.gen = life.gen, !.version = 1]
    <3>1. row.state = "scheduled"
      BY DEF NoPost
    <3>2. post' = [post EXCEPT ![q] = row]
      BY <2>2 DEF Create
    <3> HIDE DEF row
    <3> QED
      BY <1>4, <3>1, <3>2
  <2>3. CASE Update(q, images)
    BY <1>4, <2>1, <2>3 DEF Update, Save
  <2>4. CASE Delete(q)
    BY <1>1, <1>4, <2>4 DEF Delete
  <2>5. ASSUME NEW w \in Workers, PostNow(w, q, images)
        PROVE  Kept
    BY <1>4, <2>1, <2>5 DEF PostNow, Save
  <2> QED
    BY <1>6, <2>2, <2>3, <2>4, <2>5
<1>7. ASSUME NEW q \in Posts,
             \/ post' = [post EXCEPT ![q].expired = TRUE]
             \/ post' = [post EXCEPT ![q].aged = TRUE]
             \/ post' = [post EXCEPT ![q].frozen = TRUE]
      PROVE  Kept
  BY <1>2, <1>7 DEF PostRows
<1>8. ASSUME NEW w \in Workers, NEW permanent \in BOOLEAN, Fail(w, permanent)
      PROVE  Kept
  BY <1>2, <1>8 DEF Fail, Owns, PostRows
<1>9. ASSUME NEW w \in Workers, ClaimDue(w)
      PROVE  Kept
  <2>1. RecoveredPosts[p].state # "none"
    BY <1>2 DEF RecoveredPosts, PostRows
  <2>2. PICK q \in Posts :
           post'[q].state = "publishing" /\ \A r \in Posts : r # q => post'[r] = RecoveredPosts[r]
    BY <1>9, ClaimDueStep
  <2> QED
    BY <2>1, <2>2
<1>10. \A w \in Workers : worker[w].pc # "idle" => worker[w].post \in Posts
  BY DEF PostTypes, WorkersTyped, ClaimOK
<1>11. ASSUME NEW w \in Workers, WorkerStep(w)
       PROVE  Kept
  <2>1. CASE Freeze(w)
    BY <1>3, <1>7, <1>10, <2>1 DEF Freeze
  <2>2. CASE GiveUp(w)
    BY <1>3, <1>8, <2>2 DEF GiveUp
  <2>3. CASE Finalize(w)
    BY <1>1, <1>3, <1>4, <1>10, <2>3 DEF Finalize
  <2> QED
    BY <1>3, <1>11, <2>1, <2>2, <2>3 DEF WorkerStep, Snapshot, Acquire, Upload, Write, Answered
<1>12. ASSUME NEW w \in Workers,
              \/ NoAnswer(w) \/ UploadFails(w) \/ Crash(w) \/ OutlivesLease(w)
              \/ \E permanent \in BOOLEAN :
                    PreparationFails(w, permanent) \/ Refused(w, permanent)
       PROVE  Kept
  BY <1>3, <1>7, <1>8, <1>10, <1>12
     DEF NoAnswer, UploadFails, Crash, OutlivesLease, Expire, PreparationFails, Refused
<1>13. CASE \E q \in Posts : LeaseLapses(q) \/ Age(q)
  BY <1>7, <1>13 DEF LeaseLapses, Expire, Age
<1>14. CASE \E write \in wire : Land(write) \/ Lose(write)
  BY <1>3, <1>14 DEF Land, Lose
<1>15. CASE \E c \in Cleaners : Sweep(c)
  BY <1>5, <1>15 DEF Sweep
<1>16. CASE \E to \in States : Transition(to)
  BY <1>5, <1>16 DEF Transition
<1>17. CASE Emptied
  BY <1>1, <1>17 DEF Emptied
<1>18. CASE MediaStep \/ UNCHANGED hostedVars
  BY <1>3, <1>18 DEF MediaStep, hostedVars, postVars
<1> QED
  BY <1>6, <1>9, <1>11, <1>12, <1>13, <1>14, <1>15, <1>16, <1>17, <1>18
     DEF HostedStep, Next, Move

\* Only a save gives an image to a post.
LEMMA SavesAttach ==
    ASSUME MediaInv, PostTypes, HostedStep, NEW m \in Media, NEW p \in Posts, media'[m].post = p
    PROVE  media[m].post = p \/ post'[p].state # "none"
<1> DEFINE Held == media'[m].post \in {media[m].post, Nobody}
<1>1. media \in [Media -> [state : {"none", "uploading", "ready"}, gen : Nat,
                           post : Posts \cup {Nobody}]]
  BY DEF MediaInv, MediaTypes, MediaTypeOK
<1>2. ASSUME NEW ms, media' = Rowless(ms)
      PROVE  Held
  BY <1>2 DEF Rowless, NoMedia
<1>3. CASE MediaStep
  <2>1. ASSUME NEW n \in Media, NEW u \in Uploaders, Reserve(u, n)
        PROVE  Held
    BY <1>1, <2>1 DEF Reserve, NoMedia
  <2>2. ASSUME NEW u \in Uploaders, MarkReady(u)
        PROVE  Held
    BY <1>1, <2>2 DEF MarkReady
  <2>3. CASE \E u \in Uploaders : MoveToCleanup(u)
    BY <1>2, <2>3 DEF MoveToCleanup, Discard
  <2>4. CASE \E n \in Media : DeleteImage(n)
    BY <1>2, <2>4 DEF DeleteImage, Discard
  <2>5. CASE UNCHANGED media
    BY <2>5
  <2>6. \/ UNCHANGED media
        \/ \E u \in Uploaders :
              (\E n \in Media : Reserve(u, n)) \/ MarkReady(u) \/ MoveToCleanup(u)
        \/ \E n \in Media : DeleteImage(n)
    BY <1>3 DEF MediaStep, MediaNext, Dispatch, PutSucceeds, PutFails, UploadCrashes, LandLate,
                LoseLate, Tick, LeaseEnds, CleanerStep, ClaimCleanup, DeleteObject, LookAgain,
                Conclude, AcquireCleanup, DeleteFails, CleanerCrashes
  <2> QED
    BY <2>1, <2>2, <2>3, <2>4, <2>5, <2>6
<1>4. ASSUME NEW q \in Posts, NEW images \in SUBSET Media,
             \/ Create(q, images) \/ Update(q, images)
             \/ \E w \in Workers : PostNow(w, q, images)
      PROVE  Held \/ (media'[m].post = q /\ post'[q].state # "none")
  <2>0. media' = Attach(q, images) /\ images \subseteq Usable(q)
    BY <1>4 DEF Create, Update, PostNow, Save
  <2>1. media'[m].post \in {media[m].post, Nobody, q}
    BY <1>1, <2>0 DEF Attach, NoMedia
  <2>2. post'[q].state # "none"
    <3>1. post \in [Posts -> PostRows]
      BY DEF PostTypes, PostsTyped
    <3>2. CASE Create(q, images)
      <4>1. post'[q] = [NoPost EXCEPT !.state = "scheduled", !.gen = life.gen, !.version = 1]
        BY <3>1, <3>2 DEF Create
      <4> QED
        BY <4>1 DEF NoPost
    <3>3. CASE Update(q, images)
      <4>1. post'[q] = [Fresh(q) EXCEPT !.state = "scheduled"]
        BY <3>1, <3>3 DEF Update, Save
      <4> QED
        BY <4>1 DEF Fresh, NoPost
    <3>4. ASSUME NEW w \in Workers, PostNow(w, q, images)
          PROVE  post'[q].state # "none"
      <4>1. post'[q] = [Fresh(q) EXCEPT !.state = "publishing", !.attempt = Attempts, !.lease = w]
        BY <3>1, <3>4 DEF PostNow, Save
      <4> QED
        BY <4>1 DEF Fresh, NoPost
    <3> QED
      BY <1>4, <3>2, <3>3, <3>4
  <2> QED
    BY <2>1, <2>2
<1>5. CASE \/ \E q \in Posts : Delete(q)
           \/ \E c \in Cleaners : Sweep(c)
           \/ \E to \in States : Transition(to)
           \/ Emptied
  BY <1>2, <1>5 DEF Delete, Sweep, Transition, Emptied, Discard
<1>6. CASE \E w \in Workers : Finalize(w)
  BY <1>2, <1>6 DEF Finalize, Discard
<1>7. CASE UNCHANGED media
  BY <1>7
<1>8. \/ MediaStep \/ Emptied \/ UNCHANGED media
      \/ \E q \in Posts, images \in SUBSET Media :
            Create(q, images) \/ Update(q, images) \/ \E w \in Workers : PostNow(w, q, images)
      \/ \E q \in Posts : Delete(q)
      \/ \E c \in Cleaners : Sweep(c)
      \/ \E to \in States : Transition(to)
      \/ \E w \in Workers : Finalize(w)
  BY ZenonT(60)
  DEF HostedStep, Next, Move, LeaseLapses, Expire, Age, ClaimDue, WorkerStep, Snapshot, Freeze,
         Acquire, Upload, Write, Answered, GiveUp, NoAnswer, UploadFails, Crash, OutlivesLease,
         PreparationFails, Refused, Land, Lose, hostedVars, mediaVars
<1> QED
  BY <1>3, <1>4, <1>5, <1>6, <1>7, <1>8

LEMMA HostedKeepsFit ==
    ASSUME MediaInv, PostTypes, ImagesFit, HostedStep
    PROVE  ImagesFit'
<1> SUFFICES ASSUME NEW m \in Media, NEW p \in Posts, media'[m].post = p
             PROVE  post'[p].state # "none"
  BY DEF ImagesFit
<1>1. CASE media[m].post = p
  BY <1>1, PostsStaySaved DEF ImagesFit
<1> QED
  BY <1>1, SavesAttach

----------------------------------------------------------------------------
(* The theorem.                                                            *)

LEMMA ImagesInvariance == HostedSpec => [](ImagesInv /\ ImagesFit)
<1>1. HostedInv /\ ImagesInv /\ ImagesFit /\ [HostedStep]_hostedVars => (ImagesInv /\ ImagesFit)'
  BY ScheduleKeepsImages, HostedKeepsFit DEF HostedInv, HostedStep
<1> QED
  BY <1>1, ImagesInitInv, HostedInvariance, PTL DEF HostedSpec

\* No crash, failure or expiry leaves private bytes that nobody will delete.
THEOREM NoImageIsForgotten == HostedSpec => []NothingForgotten
<1>1. HostedInv /\ ImagesInv => NothingForgotten
  BY DEF HostedInv, MediaInv, MediaTypes, MediaTypeOK, ImagesInv, ImageInv, Known,
         NothingForgotten
<1> QED
  BY <1>1, HostedInvariance, ImagesInvariance, PTL
=============================================================================
