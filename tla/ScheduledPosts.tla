--------------------------- MODULE ScheduledPosts ---------------------------
(***************************************************************************)
(* Scheduled posts (appview/internal/scheduledposts).  A member saves a    *)
(* post for later; a worker leases it when it is due, freezes its record,  *)
(* uploads its images and writes the record through the command plane, and *)
(* finalizes: a tombstone replaces the row.  A save, a deletion and a      *)
(* publication take turns on the advisory lock of the schedule; leases     *)
(* lapse, workers die, and the PDS may not answer.                         *)
(*                                                                         *)
(* One owner.  A record's key is allocated once per version of the         *)
(* payload, so a version stands for its key; the command that writes it is *)
(* keyed by the version too.  What the command plane does is what          *)
(* CommandPromise allows it: a write is open until its verdict, and an     *)
(* open write is only looked at.                                           *)
(***************************************************************************)
EXTENDS PrivateMedia

CONSTANTS
    Workers,    \* publication loops and Post now requests
    Moves,      \* lifecycle transitions of the owner
    Attempts,   \* automatic attempts of a version: 6
    Versions,   \* bound: versions of a payload
    Scenarios   \* bound: how many uploads, failures and moves, and which loops and posts there are

ASSUME PostConstants ==
    /\ Moves \subseteq ValidTransitions
    /\ Attempts \in Nat \ {0} /\ Versions \in Nat \ {0}
    /\ Nobody \notin Workers

ASSUME ScenarioBounds ==
    \A s \in Scenarios :
        s \in [uploads : Nat, faults : Nat, moves : Nat, present : {s.present}]

VARIABLES
    post,       \* scheduled_posts
    tombstone,  \* scheduled_post_publication_tombstones: the version published
    worker,     \* per worker, the claim it processes
    command,    \* pds_commands, for each version
    wire,       \* writes the PDS has not processed
    landed,     \* how many records each version has on the PDS
    sent        \* history: the versions that a write was sent for

postVars == <<post, tombstone, worker, command, wire, landed, sent>>
vars == <<life, budget, mediaVars, postVars>>

Waiting == {"scheduled", "retrying"}
Mutable == {"scheduled", "retrying", "needs_attention"}
Rows == Mutable \cup {"publishing"}

NoPost == [state |-> "none", gen |-> 0, version |-> 0, attempt |-> 0,
           frozen |-> FALSE, lease |-> Nobody, expired |-> FALSE, aged |-> FALSE]
\* What is left of a post: the generation that its commands name.
Gone(p) == [NoPost EXCEPT !.state = "gone", !.gen = post[p].gen]
NoClaim == [pc |-> "idle", post |-> Nobody, version |-> 0, gen |-> 0,
            manual |-> FALSE, images |-> {}]

\* The schedule's advisory lock, held from the recheck to the last answer.
Publishing(w) == worker[w].pc \in {"upload", "write", "sent", "accepted",
                                   "ambiguous", "rejected", "failed"}
Locked(p) == \E w \in Workers : worker[w].post = p /\ Publishing(w)

\* What every worker transaction asks of the row: it is the claim's, in the
\* owner's active generation.
Owns(w) ==
    LET row == post[worker[w].post] IN
    /\ ActiveIn(worker[w].gen) /\ row.gen = worker[w].gen
    /\ row.state = "publishing" /\ row.lease = w /\ row.version = worker[w].version

Step(w, pc) == worker' = [worker EXCEPT ![w].pc = pc]
Stop(w) == worker' = [worker EXCEPT ![w] = NoClaim]

Init ==
    /\ life = [state |-> "active", gen |-> 1]
    /\ MediaInit
    /\ post = [p \in Posts |-> NoPost]
    /\ tombstone = [p \in Posts |-> 0]
    /\ worker = [w \in Workers |-> NoClaim]
    /\ command = [p \in Posts |-> [v \in 1..Versions |-> "none"]]
    /\ wire = {}
    /\ landed = [p \in Posts |-> [v \in 1..Versions |-> 0]]
    /\ sent = [p \in Posts |-> {}]
    /\ budget \in Scenarios
    /\ budget.uploads = 0 => tested   \* the bound matters to images only

----------------------------------------------------------------------------
(* The member.                                                             *)

\* The images a save may name: ready, of this generation, and free or its own.
Usable(p) ==
    {m \in Media : /\ media[m].state = "ready" /\ media[m].gen = life.gen
                   /\ media[m].post \in {Nobody, p}}

Attach(p, images) ==
    [m \in Media |-> IF m \in images THEN [media[m] EXCEPT !.post = p]
                     ELSE IF media[m].post = p THEN NoMedia ELSE media[m]]

\* Create, of a new operation.  The limit of three posts is abstracted.
Create(p, images) ==
    /\ post[p] = NoPost /\ p \in budget.present
    /\ life.state = "active"
    /\ images \subseteq Usable(p)
    /\ post' = [post EXCEPT ![p] = [NoPost EXCEPT !.state = "scheduled", !.gen = life.gen,
                                                  !.version = 1]]
    /\ media' = Attach(p, images)
    /\ UNCHANGED <<life, budget, attempt, clock, job, object, late, tested, uploader,
                   cleaner, tombstone, worker, command, wire, landed, sent>>

\* A wrong version: a save waits for no publication.
MaySaveUnlocked(p) ==
    /\ ActiveIn(post[p].gen)
    /\ post[p].state \in Rows
    /\ post[p].version < Versions

\* What Update, Delete and Post now ask of the row, with the lock.
MaySave(p) ==
    /\ ActiveIn(post[p].gen)
    /\ ~Locked(p)
    /\ post[p].state \in Mutable

\* The images that a save drops go to the cleaners.
Save(p, images, row) ==
    /\ MaySave(p)
    /\ post[p].version < Versions
    /\ images \subseteq Usable(p)
    /\ post' = [post EXCEPT ![p] = row]
    /\ media' = Attach(p, images)
    /\ job' = Enqueued(Attached(p) \ images)

Fresh(p) == [NoPost EXCEPT !.gen = post[p].gen, !.version = post[p].version + 1]

\* Update: a new version, with no key, no frozen record and no attempts.
Update(p, images) ==
    /\ Save(p, images, [Fresh(p) EXCEPT !.state = "scheduled"])
    /\ UNCHANGED <<life, budget, attempt, clock, object, late, tested, uploader,
                   cleaner, tombstone, worker, command, wire, landed, sent>>

\* PrepareManualPublication: a new version that is leased at once, for its
\* last attempt.
PostNow(w, p, images) ==
    /\ worker[w].pc = "idle" /\ w \in budget.present
    /\ Save(p, images, [Fresh(p) EXCEPT !.state = "publishing", !.attempt = Attempts,
                                        !.lease = w])
    /\ worker' = [worker EXCEPT ![w] = [NoClaim EXCEPT !.pc = "claimed", !.post = p,
                     !.version = post[p].version + 1, !.gen = life.gen, !.manual = TRUE]]
    /\ UNCHANGED <<life, budget, attempt, clock, object, late, tested, uploader,
                   cleaner, tombstone, command, wire, landed, sent>>

Delete(p) ==
    /\ MaySave(p)
    /\ post' = [post EXCEPT ![p] = Gone(p)]
    /\ Discard(Attached(p))
    /\ UNCHANGED <<life, budget, attempt, clock, object, late, tested, uploader,
                   cleaner, tombstone, worker, command, wire, landed, sent>>

----------------------------------------------------------------------------
(* The worker.                                                             *)

\* recoverExpiredPublishingLeases.
RecoveredPosts ==
    [p \in Posts |->
        IF /\ post[p].state = "publishing" /\ post[p].expired
           /\ post[p].attempt < Attempts /\ ActiveIn(post[p].gen)
        THEN [post[p] EXCEPT !.state = "retrying", !.lease = Nobody, !.expired = FALSE]
        ELSE post[p]]

\* A wrong version: a last attempt whose worker died is nobody's.
FinalsForgotten(rows) == {}

\* selectExpiredFinalPublishing: last attempts whose worker died.
Finals(rows) ==
    {p \in Posts : /\ rows[p].state = "publishing" /\ rows[p].expired
                   /\ rows[p].attempt >= Attempts /\ ActiveIn(rows[p].gen)}

Due(rows) ==
    {p \in Posts : /\ rows[p].state \in Waiting /\ rows[p].attempt < Attempts
                   /\ ActiveIn(rows[p].gen)}

\* ClaimDue; a batch is one post here, and a post's time may come at any time.
ClaimDue(w) ==
    /\ worker[w].pc = "idle" /\ w \in budget.present
    /\ LET rows == RecoveredPosts
           finals == Finals(rows)
       IN \E p \in IF finals # {} THEN finals ELSE Due(rows) :
             /\ post' = [rows EXCEPT
                           ![p].state = "publishing", ![p].lease = w, ![p].expired = FALSE,
                           ![p].attempt = IF p \in finals THEN @ ELSE @ + 1]
             /\ worker' = [worker EXCEPT ![w] = [NoClaim EXCEPT !.pc = "claimed",
                              !.post = p, !.version = rows[p].version, !.gen = rows[p].gen]]
    /\ UNCHANGED <<life, budget, mediaVars, tombstone, command, wire, landed, sent>>

\* publicationSnapshot; a claim that was lost is let go.
Snapshot(w) ==
    /\ worker[w].pc = "claimed"
    /\ IF Owns(w)
       THEN worker' = [worker EXCEPT ![w].pc = "checked",
                                     ![w].images = Attached(worker[w].post)]
       ELSE Stop(w)
    /\ UNCHANGED <<life, budget, mediaVars, post, tombstone, command, wire, landed, sent>>

\* A wrong version: a failure does not end the lease.
FailStillLeased(w, permanent) ==
    LET row == post[worker[w].post]
        over == permanent \/ worker[w].manual \/ row.attempt >= Attempts IN
    /\ post' = IF Owns(w)
               THEN [post EXCEPT ![worker[w].post].state =
                       IF over THEN "needs_attention" ELSE "retrying"]
               ELSE post
    /\ Stop(w)

\* failPublication.
Fail(w, permanent) ==
    LET row == post[worker[w].post]
        over == permanent \/ worker[w].manual \/ row.attempt >= Attempts IN
    /\ post' = IF Owns(w)
               THEN [post EXCEPT ![worker[w].post] =
                       [row EXCEPT !.state = IF over THEN "needs_attention" ELSE "retrying",
                                   !.lease = Nobody, !.expired = FALSE]]
               ELSE post
    /\ Stop(w)

\* The subscription, the time window, the payload, the images and the policy
\* may fail for good; sessions and the object store for now.
PreparationFails(w, permanent) ==
    /\ worker[w].pc = "checked"
    /\ Fault
    /\ Fail(w, permanent)
    /\ UNCHANGED <<life, mediaVars, tombstone, command, wire, landed, sent>>

\* SaveFrozenRecord, of a record that an earlier attempt has not frozen.
Freeze(w) ==
    /\ worker[w].pc = "checked"
    /\ IF Owns(w)
       THEN post' = [post EXCEPT ![worker[w].post].frozen = TRUE] /\ Step(w, "frozen")
       ELSE UNCHANGED post /\ Stop(w)
    /\ UNCHANGED <<life, budget, mediaVars, tombstone, command, wire, landed, sent>>

\* WithGuardedCommands and AcquirePublishingEffect: the owner's shared fence
\* and the schedule's lock, then another look at the row.
Acquire(w) ==
    /\ worker[w].pc = "frozen"
    /\ ~Locked(worker[w].post)
    /\ IF Owns(w) THEN Step(w, "upload") ELSE Stop(w)
    /\ UNCHANGED <<life, budget, mediaVars, post, tombstone, command, wire, landed, sent>>

\* uploadPrivateMedia.  An image that the store does not have fails for now.
Upload(w) ==
    /\ worker[w].pc = "upload"
    /\ Step(w, IF worker[w].images \subseteq object THEN "write" ELSE "failed")
    /\ UNCHANGED <<life, budget, mediaVars, post, tombstone, command, wire, landed, sent>>

\* The subscription has lapsed; or an upload is refused, fails, or has no answer.
UploadFails(w) ==
    /\ worker[w].pc = "upload"
    /\ Fault
    /\ \E pc \in {"rejected", "failed", "ambiguous"} :
          /\ pc # "rejected" => worker[w].images # {}
          /\ Step(w, pc)
    /\ UNCHANGED <<life, mediaVars, post, tombstone, command, wire, landed, sent>>

\* A wrong version: an open write is sent again.
WriteAgain(p, v) == command[p][v] \in {"none", "open"}

\* The command plane sends a write that has never been sent, or that was
\* definitely not applied.
MaySend(p, v) == command[p][v] = "none"

\* ExecuteAppend.
Write(w) ==
    /\ worker[w].pc = "write"
    /\ LET p == worker[w].post
           v == worker[w].version IN
       IF MaySend(p, v)
       THEN /\ command' = [command EXCEPT ![p][v] = "open"]
            /\ wire' = wire \cup {<<p, v>>}
            /\ sent' = [sent EXCEPT ![p] = @ \cup {v}]
            /\ Step(w, "sent")
       ELSE /\ command' = [command EXCEPT ![p][v] =
                             IF @ = "open" /\ landed[p][v] > 0 THEN "accepted" ELSE @]
            /\ Step(w, IF command'[p][v] = "open" THEN "ambiguous" ELSE command'[p][v])
            /\ UNCHANGED <<wire, sent>>
    /\ UNCHANGED <<life, budget, mediaVars, post, tombstone, landed>>

\* The answer to a write that the PDS took.
Answered(w) ==
    /\ worker[w].pc = "sent"
    /\ <<worker[w].post, worker[w].version>> \notin wire
    /\ landed[worker[w].post][worker[w].version] > 0
    /\ command' = [command EXCEPT ![worker[w].post][worker[w].version] = "accepted"]
    /\ Step(w, "accepted")
    /\ UNCHANGED <<life, budget, mediaVars, post, tombstone, wire, landed, sent>>

\* The PDS refuses a write for good, or its limits do for now.
Refused(w, permanent) ==
    LET write == <<worker[w].post, worker[w].version>> IN
    /\ worker[w].pc = "sent" /\ write \in wire
    /\ Fault
    /\ wire' = wire \ {write}
    /\ command' = [command EXCEPT ![write[1]][write[2]] =
                     IF permanent THEN "rejected" ELSE "none"]
    /\ Step(w, IF permanent THEN "rejected" ELSE "failed")
    /\ UNCHANGED <<life, mediaVars, post, tombstone, landed, sent>>

\* A wrong version: no answer is taken for a success.
NoAnswerAccepted(w) ==
    /\ worker[w].pc = "sent"
    /\ Fault
    /\ Step(w, "accepted")
    /\ UNCHANGED <<life, mediaVars, post, tombstone, command, wire, landed, sent>>

NoAnswer(w) ==
    /\ worker[w].pc = "sent"
    /\ Fault
    /\ Step(w, "ambiguous")
    /\ UNCHANGED <<life, mediaVars, post, tombstone, command, wire, landed, sent>>

\* handleScheduledCommandFailure: Post now leaves an uncertain write to the
\* worker that will reclaim its lease.
GiveUp(w) ==
    /\ worker[w].pc \in {"ambiguous", "rejected", "failed"}
    /\ IF worker[w].manual /\ worker[w].pc = "ambiguous"
       THEN UNCHANGED post /\ Stop(w)
       ELSE Fail(w, worker[w].pc = "rejected")
    /\ UNCHANGED <<life, budget, mediaVars, tombstone, command, wire, landed, sent>>

\* FinalizePublication: the row becomes a tombstone, its images go.
Finalize(w) ==
    /\ worker[w].pc = "accepted"
    /\ LET p == worker[w].post IN
       IF tombstone[p] = 0 /\ Owns(w)
       THEN /\ tombstone' = [tombstone EXCEPT ![p] = worker[w].version]
            /\ post' = [post EXCEPT ![p] = Gone(p)]
            /\ Discard(Attached(p))
       ELSE UNCHANGED <<tombstone, post, media, job>>
    /\ Stop(w)
    /\ UNCHANGED <<life, budget, attempt, clock, object, late, tested, uploader,
                   cleaner, command, wire, landed, sent>>

Crash(w) ==
    /\ worker[w].pc # "idle"
    /\ Fault
    /\ Stop(w)
    /\ UNCHANGED <<life, mediaVars, post, tombstone, command, wire, landed, sent>>

----------------------------------------------------------------------------
(* The rest of the world.                                                  *)

Land(write) ==
    /\ write \in wire
    /\ wire' = wire \ {write}
    /\ landed' = [landed EXCEPT ![write[1]][write[2]] = @ + 1]
    /\ UNCHANGED <<life, budget, mediaVars, post, tombstone, worker, command, sent>>

\* A write that nobody waits for is lost on its way.
Lose(write) ==
    /\ write \in wire
    /\ \A w \in Workers : worker[w].pc = "sent" => worker[w].post # write[1]
    /\ wire' = wire \ {write}
    /\ UNCHANGED <<life, budget, mediaVars, post, tombstone, worker, command, landed, sent>>

\* The lease of a publication runs out: its worker is dead, or slow.
Expire(p) ==
    /\ post[p].state = "publishing" /\ ~post[p].expired
    /\ post' = [post EXCEPT ![p].expired = TRUE]
    /\ UNCHANGED <<life, mediaVars, tombstone, worker, command, wire, landed, sent>>

LeaseLapses(p) ==
    /\ \A w \in Workers : ~(worker[w].post = p /\ Owns(w))
    /\ Expire(p)
    /\ UNCHANGED budget

OutlivesLease(w) ==
    /\ worker[w].pc # "idle" /\ Owns(w)
    /\ Expire(worker[w].post)
    /\ Fault

\* A post has needed attention for thirty days: longer than any request lives.
Age(p) ==
    /\ post[p].state = "needs_attention" /\ ~post[p].aged
    /\ \A w \in Workers : worker[w].post # p
    /\ post' = [post EXCEPT ![p].aged = TRUE]
    /\ UNCHANGED <<life, budget, mediaVars, tombstone, worker, command, wire, landed, sent>>

\* SweepExpiredLifecycle, at the start of a cleanup batch.  A tombstone that
\* expires after thirty days is abstracted.
Sweep(c) ==
    /\ cleaner[c].pc = "idle" /\ c \in budget.present
    /\ LET old == {p \in Posts : post[p].state = "needs_attention" /\ post[p].aged} IN
       /\ post' = [p \in Posts |-> IF p \in old THEN Gone(p) ELSE post[p]]
       /\ Discard(ExpiredImages \cup UNION {Attached(p) : p \in old})
    /\ Cleaning(c, "swept")
    /\ UNCHANGED <<life, budget, attempt, clock, object, late, tested, uploader,
                   tombstone, worker, command, wire, landed, sent>>

\* The owner's exclusive fence waits for all that hold it shared.
ExclusiveFence == ~MediaFenced /\ \A w \in Workers : ~Publishing(w)

\* TransitionWith under that fence; DepartureParticipant, when the owner was
\* active, cancels the posts of the generation.
Transition(to) ==
    /\ ExclusiveFence
    /\ life' = [state |-> to, gen |-> life.gen + 1]
    /\ LET cancelled == IF life.state = "active"
                        THEN {p \in Posts : post[p].state \in Rows /\ post[p].gen = life.gen}
                        ELSE {} IN
       /\ post' = [p \in Posts |-> IF p \in cancelled THEN Gone(p) ELSE post[p]]
       /\ Discard(UNION {Attached(p) : p \in cancelled})
    /\ UNCHANGED <<attempt, clock, object, late, tested, uploader, cleaner,
                   tombstone, worker, command, wire, landed, sent>>

MayMove == budget.moves > 0 /\ budget' = [budget EXCEPT !.moves = @ - 1]

Move(to) ==
    /\ <<life.state, to>> \in Moves
    /\ MayMove
    /\ Transition(to)

MediaStep == MediaNext /\ UNCHANGED <<life, postVars>>

WorkerStep(w) ==
    \/ Snapshot(w) \/ Freeze(w) \/ Acquire(w) \/ Upload(w) \/ Write(w)
    \/ Answered(w) \/ GiveUp(w) \/ Finalize(w)

Next ==
    \/ MediaStep
    \/ \E p \in Posts, images \in SUBSET Media :
          \/ Create(p, images) \/ Update(p, images)
          \/ \E w \in Workers : PostNow(w, p, images)
    \/ \E p \in Posts : Delete(p) \/ LeaseLapses(p) \/ Age(p)
    \/ \E w \in Workers :
          \/ ClaimDue(w) \/ WorkerStep(w) \/ NoAnswer(w) \/ UploadFails(w)
          \/ Crash(w) \/ OutlivesLease(w)
          \/ \E permanent \in BOOLEAN :
                PreparationFails(w, permanent) \/ Refused(w, permanent)
    \/ \E write \in wire : Land(write) \/ Lose(write)
    \/ \E c \in Cleaners : Sweep(c)
    \/ \E to \in States : Move(to)

\* The loops run, a lock they wait for is granted, requests end, the leases of the
\* dead lapse, and the PDS processes what reaches it.
Fairness ==
    /\ \A w \in Workers : WF_vars(ClaimDue(w) \/ WorkerStep(w))
    /\ \A p \in Posts :
          WF_vars(LeaseLapses(p)) /\ WF_vars(\E v \in 1..Versions : Land(<<p, v>>))
    /\ \A c \in Cleaners : WF_mediaVars(Sweep(c) \/ CleanerStep(c) \/ AcquireCleanup(c))
    /\ MediaFairness

Spec == Init /\ [][Next]_vars
FairSpec == Spec /\ Fairness

----------------------------------------------------------------------------
(* Properties.                                                             *)

\* Every variable has its shape; a row is leased exactly while it publishes,
\* and has at most the attempts it may have.
TypeOK ==
    /\ life \in [state : States, gen : Nat]
    /\ MediaTypeOK
    /\ post \in [Posts -> [state : Rows \cup {"none", "gone"}, gen : Nat,
                           version : 0..Versions, attempt : 0..Attempts,
                           frozen : BOOLEAN, lease : Workers \cup {Nobody},
                           expired : BOOLEAN, aged : BOOLEAN]]
    /\ \A p \in Posts : (post[p].state = "publishing") = (post[p].lease # Nobody)
    /\ wire \subseteq Posts \X (1..Versions)

\* FR-013 between two saves: however leases lapse, workers die and answers are
\* lost, a version of a post is on the PDS at most once.
OncePerVersion == \A p \in Posts, v \in 1..Versions : landed[p][v] <= 1

\* RULE-005: a version is sent only while the row still is that version, even by
\* a worker whose lease another one took: what the member replaced or deleted,
\* or left behind with the generation, is never published.
StaleNeverPublishes ==
    [][\A p \in Posts : \A v \in sent'[p] \ sent[p] :
          /\ post[p].version = v /\ post[p].state \in Rows
          /\ ActiveIn(post[p].gen)]_vars

\* A tombstone names a version that is on the PDS.
TombstonesAreTrue ==
    \A p \in Posts : tombstone[p] # 0 => landed[p][tombstone[p]] = 1 /\ post[p].state = "gone"

\* A post that is due or being published ends: on the PDS, in the member's
\* hands, or gone, whatever worker died on its last attempt.
Settles ==
    \A p \in Posts : []<>(post[p].state \notin Waiting \cup {"publishing"})

\* An object that no row refers to leaves the store, where a cleaner runs.
NothingLingers ==
    \A m \in Media :
        []<>(m \in object /\ Cleaners \cap budget.present # {} => media[m].state # "none")

\* FR-013 and AC-017, over all saves: a schedule has at most one post.
AtMostOnePost ==
    \A p \in Posts : Cardinality({v \in 1..Versions : landed[p][v] > 0}) <= 1
=============================================================================
