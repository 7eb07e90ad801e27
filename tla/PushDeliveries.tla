--------------------------- MODULE PushDeliveries ---------------------------
(***************************************************************************)
(* Push notifications (appview/internal/push, with notifications, the      *)
(* devices of appview/internal/api and the sessions' cleanup jobs).  An    *)
(* event about a member is fanned out to the devices registered for the    *)
(* member; a dispatcher leases a delivery, enters the fences of both       *)
(* owners and of the post, checks everything again, calls the provider and *)
(* records the answer.  Meanwhile devices register and rotate tokens, the  *)
(* member mutes, logs out or leaves, and posts are deleted.                *)
(*                                                                         *)
(* It is composed with the deletion of the member's account, which clears  *)
(* all of it.  One recipient and one actor; a device has the account of    *)
(* the recipient only.  Blocks and follows decide like mutes and           *)
(* preferences and are left out, and so are retry delays.  A transaction   *)
(* that rolls back leaves no trace and is no step.                         *)
(***************************************************************************)
EXTENDS AccountDeletion

CONSTANTS
    Notes,       \* what an actor does to the recipient
    Published,   \* replies, mentions and quotes: notes with a post
    Devices,     \* installations; the first token of one goes by its name
    Rotated,     \* a token that is issued later
    Dispatchers  \* workers of push dispatchers

ASSUME PushConstants == Published \subseteq Notes /\ Nobody \notin Dispatchers

Tokens == Devices \cup {Rotated}
Deliveries == Notes \X Devices

VARIABLES
    note,        \* notification_events, and the transaction that writes one
    delivery,    \* push_deliveries
    route,       \* push_installations with push_account_subscriptions
    jobs,        \* auth_auxiliary_cleanup_jobs: the devices to silence
    taste,       \* actor_mutes and notification_preferences of the recipient
    actor,       \* owner_lifecycles of the actor
    dead,        \* tokens that the provider takes no longer
    dispatcher   \* per worker, the claim it processes

pushVars == <<note, delivery, route, jobs, taste, actor, dead, dispatcher>>
everyVar == <<allVars, pushVars>>

Outstanding == {"pending", "leased"}   \* retry is pending

NoNote == [state |-> "none", targets |-> {}, overdue |-> FALSE]
NoDelivery == [status |-> "none", lease |-> Nobody, age |-> 0]
NoRoute == [installed |-> FALSE, subscribed |-> FALSE, token |-> Nobody, old |-> FALSE]
Plain == [muted |-> FALSE, off |-> FALSE]
NoSend == [pc |-> "idle", at |-> <<Nobody, Nobody>>, token |-> Nobody,
           gen |-> 0, actorGen |-> 0, answer |-> "none"]

\* The age of a lease: a call fits in; only a verdict does; it has expired.
Useful == 0
Margin == 1
Expired == 2

Routed(d) == route[d].installed /\ route[d].subscribed

\* Deliveries that end with a new status while they are outstanding.
Ended(some, status) ==
    [at \in Deliveries |-> IF at \in some /\ delivery[at].status \in Outstanding
                           THEN [NoDelivery EXCEPT !.status = status] ELSE delivery[at]]
Called(off) == Ended(off, "cancelled")

\* An installation that is silenced takes its subscriptions with it.
Silenced(ds) ==
    [d \in Devices |-> IF d \in ds
                       THEN [route[d] EXCEPT !.installed = FALSE, !.subscribed = FALSE]
                       ELSE route[d]]
To(ds) == {at \in Deliveries : at[2] \in ds}
Of(ns) == {at \in Deliveries : at[1] \in ns}

Inside(k) == dispatcher[k].pc \in {"calling", "answered"}

\* A wrong version: a deletion waits for nobody.
PostFencedNever(n) == FALSE

\* Whoever calls the provider or records its answer holds the owners' fences
\* shared, and the fence of the post.
PostFenced(n) == n \in Published /\ \E k \in Dispatchers : Inside(k) /\ dispatcher[k].at[1] = n

Below == <<life, mediaVars, postVars, deletionVars>>
\* What the member, the actor or a client does, and what goes wrong.
Act == Notes \cap budget.present # {} /\ MayMove /\ UNCHANGED Below
GoesWrong == Fault /\ UNCHANGED Below

PushInit ==
    /\ DeletionInit
    /\ note = [n \in Notes |-> NoNote]
    /\ delivery = [at \in Deliveries |-> NoDelivery]
    /\ route = [d \in Devices |-> IF d \in budget.present
                                  THEN [installed |-> TRUE, subscribed |-> TRUE,
                                        token |-> d, old |-> FALSE]
                                  ELSE NoRoute]
    /\ jobs = {}
    /\ taste = Plain
    /\ actor = [active |-> TRUE, gen |-> 1]
    /\ dead = {}
    /\ dispatcher = [k \in Dispatchers |-> NoSend]

----------------------------------------------------------------------------
(* Events.                                                                 *)

\* Activate, of an event that is not there: what decides and the devices are
\* read before the event and its deliveries are committed.
Consider(n) ==
    /\ note[n] = NoNote /\ n \in budget.present
    /\ actor.active /\ life.state # "terminal" /\ ~taste.muted
    /\ note' = [note EXCEPT ![n] = [NoNote EXCEPT !.state = "draft",
                   !.targets = IF taste.off THEN {} ELSE {d \in Devices : Routed(d)}]]
    /\ UNCHANGED <<allVars, delivery, route, jobs, taste, actor, dead, dispatcher>>

Commit(n) ==
    /\ note[n].state = "draft"
    /\ note' = [note EXCEPT ![n] = [NoNote EXCEPT !.state = "active"]]
    /\ delivery' = [at \in Deliveries |->
                       IF at[1] = n /\ at[2] \in note[n].targets
                       THEN [NoDelivery EXCEPT !.status = "pending"] ELSE delivery[at]]
    /\ UNCHANGED <<allVars, route, jobs, taste, actor, dead, dispatcher>>

Retracted(n) ==
    /\ note[n].state = "active"
    /\ Act
    /\ note' = [note EXCEPT ![n].state = "retracted"]
    /\ delivery' = Called(Of({n}))
    /\ UNCHANGED <<route, jobs, taste, actor, dead, dispatcher>>

\* Retract, by the last source of a reason.
Undo(n) == n \notin Published /\ Retracted(n)

\* The post is deleted: RestrictStoredPublication, with its fence.
Withdraw(n) == n \in Published /\ ~PostFenced(n) /\ Retracted(n)

\* Activate, of an event that was retracted: there is no second fan-out.
Reactivate(n) ==
    /\ n \notin Published /\ note[n].state = "retracted"
    /\ actor.active /\ ~taste.muted
    /\ Act
    /\ note' = [note EXCEPT ![n].state = "active"]
    /\ UNCHANGED <<delivery, route, jobs, taste, actor, dead, dispatcher>>

\* Six hours pass, but no call for the event outlasts them.
TimePasses(n) ==
    /\ note[n].state = "active" /\ ~note[n].overdue
    /\ \A k \in Dispatchers : dispatcher[k].pc = "calling" => dispatcher[k].at[1] # n
    /\ note' = [note EXCEPT ![n].overdue = TRUE]
    /\ UNCHANGED <<allVars, delivery, route, jobs, taste, actor, dead, dispatcher>>

----------------------------------------------------------------------------
(* The recipient and the actor.                                            *)

\* MuteAndCancelPendingDeliveries and Unmute.
Mute ==
    /\ life.state = "active" /\ ~taste.muted
    /\ Act
    /\ taste' = [taste EXCEPT !.muted = TRUE]
    /\ delivery' = Called(Deliveries)
    /\ UNCHANGED <<note, route, jobs, actor, dead, dispatcher>>

Unmute ==
    /\ life.state = "active" /\ taste.muted
    /\ Act
    /\ taste' = [taste EXCEPT !.muted = FALSE]
    /\ UNCHANGED <<note, delivery, route, jobs, actor, dead, dispatcher>>

\* Push is turned off or on, which touches no delivery.
Prefer ==
    /\ life.state = "active"
    /\ Act
    /\ taste' = [taste EXCEPT !.off = ~@]
    /\ UNCHANGED <<note, delivery, route, jobs, actor, dead, dispatcher>>

\* A transition of the actor waits for its exclusive fence, which projections
\* of the actor's records hold shared.
ActorMoves ==
    /\ \A k \in Dispatchers : ~Inside(k)
    /\ \A n \in Notes : note[n].state # "draft"
    /\ Act
    /\ actor' = [active |-> ~actor.active, gen |-> actor.gen + 1]
    /\ UNCHANGED <<note, delivery, route, jobs, taste, dead, dispatcher>>

\* HardDeleteByActor, when the profile of an actor who left is gone.
ForgetActor ==
    /\ ~actor.active
    /\ note' = [n \in Notes |-> NoNote]
    /\ delivery' = [at \in Deliveries |-> NoDelivery]
    /\ UNCHANGED <<allVars, route, jobs, taste, actor, dead, dispatcher>>

----------------------------------------------------------------------------
(* Devices.                                                                *)

\* RegisterNotificationDevice takes the token from a device that had it.
Register(d, t) ==
    /\ life.state = "active" /\ t \in {d, Rotated}
    /\ Act
    /\ LET losers == {e \in Devices \ {d} : route[e].installed /\ route[e].token = t} IN
       /\ route' = [Silenced(losers) EXCEPT ![d] = [installed |-> TRUE, subscribed |-> TRUE,
                                                    token |-> t, old |-> FALSE]]
       /\ delivery' = Called(To(losers))
    /\ UNCHANGED <<note, jobs, taste, actor, dead, dispatcher>>

Unsubscribed(d) ==
    /\ route' = [route EXCEPT ![d].subscribed = FALSE]
    /\ delivery' = Called(To({d}))

\* RemoveNotificationSubscription.
Remove(d) ==
    /\ life.state = "active" /\ route[d].subscribed
    /\ Act
    /\ Unsubscribed(d)
    /\ UNCHANGED <<note, jobs, taste, actor, dead, dispatcher>>

\* The subscriptions that are older than the job of a logout.
Aged(ds) ==
    [d \in Devices |-> IF d \in ds THEN [route[d] EXCEPT !.old = TRUE] ELSE route[d]]

\* RevokeOne ends the session of a device and leaves its subscription to a job.
LogoutOne(d) ==
    /\ route[d].subscribed /\ ~route[d].old
    /\ Act
    /\ jobs' = jobs \cup {d}
    /\ route' = Aged({d})
    /\ UNCHANGED <<note, delivery, taste, actor, dead, dispatcher>>

CutOff(d) == route[d].subscribed /\ route[d].old

\* A job, by DeactivateForInstallationBefore or DeactivateForAccountBefore.
Cleanup(d) ==
    /\ d \in jobs
    /\ jobs' = jobs \ {d}
    /\ IF CutOff(d) THEN Unsubscribed(d) ELSE UNCHANGED <<route, delivery>>
    /\ UNCHANGED <<allVars, note, taste, actor, dead, dispatcher>>

\* The provider gives up on a token.
TokenDies(t) ==
    /\ \E d \in Devices : route[d].token = t
    /\ t \notin dead
    /\ GoesWrong
    /\ dead' = dead \cup {t}
    /\ UNCHANGED <<note, delivery, route, jobs, taste, actor, dispatcher>>

----------------------------------------------------------------------------
(* A dispatcher.                                                           *)

Sending(k, pc) == dispatcher' = [dispatcher EXCEPT ![k].pc = pc]
StopSending(k) == dispatcher' = [dispatcher EXCEPT ![k] = NoSend]

\* The claim is still the lease of the delivery, by its token.
Leases(k) ==
    LET row == delivery[dispatcher[k].at] IN
    row.status = "leased" /\ row.lease = k /\ row.age < Expired

\* A wrong version: whatever token the device has now.
OwnsClaimByLease(k) == Leases(k) /\ Routed(dispatcher[k].at[2])

\* What every statement about a claim asks: the lease, the route and its token.
OwnsClaim(k) ==
    /\ Leases(k)
    /\ LET d == dispatcher[k].at[2] IN Routed(d) /\ route[d].token = dispatcher[k].token

\* A wrong version: the lease is given up and the status forgotten.
SettleUnnamed(k, status) ==
    delivery' = [delivery EXCEPT ![dispatcher[k].at].lease = Nobody]

Settle(k, status) ==
    delivery' = [delivery EXCEPT ![dispatcher[k].at] = [NoDelivery EXCEPT !.status = status]]

\* claimOne.
ClaimDelivery(k, at) ==
    /\ dispatcher[k].pc = "idle" /\ k \in budget.present
    /\ delivery[at].status = "pending"
    /\ note[at[1]].state = "active" /\ Routed(at[2])
    /\ life.state # "terminal" /\ ~taste.muted
    /\ delivery' = [delivery EXCEPT ![at] = [status |-> "leased", lease |-> k, age |-> Useful]]
    /\ dispatcher' = [dispatcher EXCEPT ![k] = [NoSend EXCEPT !.pc = "claimed", !.at = at,
                                                              !.token = route[at[2]].token]]
    /\ UNCHANGED <<allVars, note, route, jobs, taste, actor, dead>>

\* cancelLifecycleInvalid.
GiveUpOn(k) ==
    /\ IF Leases(k) THEN Settle(k, "cancelled") ELSE UNCHANGED delivery
    /\ StopSending(k)

\* WithActiveOwners reads both owners before it takes their fences.
Look(k) ==
    /\ dispatcher[k].pc = "claimed"
    /\ IF life.state = "active" /\ actor.active
       THEN /\ dispatcher' = [dispatcher EXCEPT ![k].pc = "looked", ![k].gen = life.gen,
                                                ![k].actorGen = actor.gen]
            /\ UNCHANGED delivery
       ELSE GiveUpOn(k)
    /\ UNCHANGED <<allVars, note, route, jobs, taste, actor, dead>>

OwnersStay(k) ==
    /\ ActiveIn(dispatcher[k].gen)
    /\ actor = [active |-> TRUE, gen |-> dispatcher[k].actorGen]

\* currentDeliveryStatus.
StillWanted(n) == note[n].state = "active" /\ ~taste.off /\ ~taste.muted

\* processClaim inside the fences, up to the call; the first of these that
\* holds decides.
Enter(k) ==
    /\ dispatcher[k].pc = "looked"
    /\ LET at == dispatcher[k].at IN
       /\ ~PostFenced(at[1])
       /\ IF ~OwnersStay(k) THEN GiveUpOn(k)
          ELSE IF ~OwnsClaim(k) THEN UNCHANGED delivery /\ StopSending(k)
          ELSE IF ~StillWanted(at[1]) THEN Settle(k, "cancelled") /\ StopSending(k)
          ELSE IF note[at[1]].overdue THEN Settle(k, "expired") /\ StopSending(k)
          ELSE IF delivery[at].age # Useful THEN Settle(k, "pending") /\ StopSending(k)
          ELSE Sending(k, "calling") /\ UNCHANGED delivery
    /\ UNCHANGED <<allVars, note, route, jobs, taste, actor, dead>>

Answers(k, answer) ==
    /\ dispatcher[k].pc = "calling"
    /\ dispatcher' = [dispatcher EXCEPT ![k].pc = "answered", ![k].answer = answer]
    /\ UNCHANGED <<note, delivery, route, jobs, taste, actor, dead>>

\* The provider answers in time.
Answer(k) ==
    /\ Answers(k, IF dispatcher[k].token \in dead THEN "invalid" ELSE "success")
    /\ UNCHANGED allVars

\* It is unavailable or too slow, or refuses the message.
CallFails(k) ==
    /\ \E answer \in {"retryable", "permanent"} : Answers(k, answer)
    /\ GoesWrong

\* NextRetry: another attempt may still come before the deadline.
AfterRetryable(n) == {"expired"} \cup IF note[n].overdue THEN {} ELSE {"pending"}

\* invalidate.
Invalidate(k) ==
    LET at == dispatcher[k].at IN
    /\ route' = Silenced({at[2]})
    /\ delivery' = [Called(To({at[2]})) EXCEPT ![at] = [NoDelivery EXCEPT
                                                         !.status = "permanent_failure"]]

\* What processClaimFenced makes of the answer.
FinishSend(k) ==
    /\ dispatcher[k].pc = "answered"
    /\ LET answer == dispatcher[k].answer IN
       IF ~OwnsClaim(k) THEN UNCHANGED <<delivery, route>>
       ELSE \/ answer = "invalid" /\ Invalidate(k)
            \/ answer = "success" /\ Settle(k, "succeeded") /\ UNCHANGED route
            \/ answer = "permanent" /\ Settle(k, "permanent_failure") /\ UNCHANGED route
            \/ /\ answer = "retryable"
               /\ \E status \in AfterRetryable(dispatcher[k].at[1]) : Settle(k, status)
               /\ UNCHANGED route
    /\ StopSending(k)
    /\ UNCHANGED <<allVars, note, jobs, taste, actor, dead>>

\* The process dies, or the database fails it.
DispatcherFails(k) ==
    /\ dispatcher[k].pc # "idle"
    /\ GoesWrong
    /\ StopSending(k)
    /\ UNCHANGED <<note, delivery, route, jobs, taste, actor, dead>>

AtWork(at) ==
    \E k \in Dispatchers : dispatcher[k].at = at /\ delivery[at].lease = k

\* A wrong version: a call takes as long as it takes.
OutlastsCall(at) == FALSE

\* attemptDeadline: a call ends before the lease does, with a margin.
WithinCall(at) ==
    \E k \in Dispatchers :
        dispatcher[k].pc = "calling" /\ dispatcher[k].at = at /\ delivery[at].lease = k

Ages(at) ==
    /\ delivery[at].status = "leased" /\ delivery[at].age < Expired
    /\ ~WithinCall(at)
    /\ delivery' = [delivery EXCEPT ![at].age = @ + 1]
    /\ UNCHANGED <<note, route, jobs, taste, actor, dead, dispatcher>>

\* The lease of a worker that is gone runs out, or that of a slow one.
DeliveryLapses(at) == ~AtWork(at) /\ Ages(at) /\ UNCHANGED allVars
DeliveryOutlived(at) == AtWork(at) /\ Ages(at) /\ GoesWrong

\* A wrong version: leases are for good.
RecoverableNever(at) == FALSE

Recoverable(at) == delivery[at].status = "leased" /\ delivery[at].age = Expired

\* recoverExpiredLeases, at the start of a batch.
Recover(at) ==
    /\ Recoverable(at)
    /\ delivery' = [delivery EXCEPT ![at] = [NoDelivery EXCEPT !.status = "pending"]]
    /\ UNCHANGED <<allVars, note, route, jobs, taste, actor, dead, dispatcher>>

----------------------------------------------------------------------------
(* The account below.                                                      *)

\* The transaction of DatabasePrivateCleanup.Purge was this step.
Purging == \E d \in Deleters : deleter[d].pc = "private" /\ deleter'[d].pc = "delete"

Subscribed == {d \in Devices : route[d].subscribed}

\* The purge deletes the events and devices of the member, and waits for events
\* that refer to the devices.  What moves the owner waits for the dispatchers,
\* and what ends all sessions leaves a job.
LowerStep ==
    /\ DeletionNext
    /\ life' # life \/ epoch' # epoch => \A k \in Dispatchers : ~Inside(k)
    /\ IF Purging
       THEN /\ \A n \in Notes : note[n].targets = {}
            /\ note' = [n \in Notes |-> IF note[n].state = "draft" THEN note[n] ELSE NoNote]
            /\ delivery' = [at \in Deliveries |-> NoDelivery]
            /\ route' = [d \in Devices |-> NoRoute]
            /\ taste' = Plain
            /\ UNCHANGED jobs
       ELSE /\ route' = IF epoch' # epoch THEN Aged(Subscribed) ELSE route
            /\ jobs' = IF epoch' # epoch THEN jobs \cup Subscribed ELSE jobs
            /\ UNCHANGED <<note, delivery, taste>>
    /\ UNCHANGED <<actor, dead, dispatcher>>

DispatcherStep(k) ==
    \/ \E at \in Deliveries : ClaimDelivery(k, at)
    \/ Look(k) \/ Enter(k) \/ Answer(k) \/ FinishSend(k)

PushNext ==
    \/ LowerStep
    \/ \E n \in Notes :
          \/ Consider(n) \/ Commit(n) \/ Undo(n) \/ Withdraw(n) \/ Reactivate(n)
          \/ TimePasses(n)
    \/ Mute \/ Unmute \/ Prefer \/ ActorMoves \/ ForgetActor
    \/ \E d \in Devices :
          \/ Remove(d) \/ LogoutOne(d) \/ Cleanup(d)
          \/ \E t \in Tokens : Register(d, t)
    \/ \E t \in Tokens : TokenDies(t)
    \/ \E k \in Dispatchers : DispatcherStep(k) \/ CallFails(k) \/ DispatcherFails(k)
    \/ \E at \in Deliveries : DeliveryLapses(at) \/ DeliveryOutlived(at) \/ Recover(at)

\* Dispatchers go on, transactions end, time passes, the leases of the dead lapse
\* and are recovered, and jobs run.
PushStep ==
    \/ \E k \in Dispatchers : DispatcherStep(k)
    \/ \E n \in Notes : Commit(n) \/ TimePasses(n)
    \/ \E d \in Devices : Cleanup(d)
    \/ \E at \in Deliveries : DeliveryLapses(at) \/ Recover(at)

\* Some of it happens while it can: none of it can for ever keep others waiting.
PushFairness == DeletionFairness /\ WF_pushVars(PushStep)

PushSpec == PushInit /\ [][PushNext]_everyVar
PushFairSpec == PushSpec /\ PushFairness

----------------------------------------------------------------------------
(* Properties.                                                             *)

\* Every variable has its shape, what is leased has a holder, and an event that
\* is not committed has no deliveries.
PushTypeOK ==
    /\ note \in [Notes -> [state : {"none", "draft", "active", "retracted"},
                           targets : SUBSET Devices, overdue : BOOLEAN]]
    /\ delivery \in [Deliveries ->
          [status : Outstanding \cup {"none", "succeeded", "permanent_failure", "expired",
                                      "cancelled"},
           lease : Dispatchers \cup {Nobody}, age : {Useful, Margin, Expired}]]
    /\ route \in [Devices -> [installed : BOOLEAN, subscribed : BOOLEAN,
                              token : Tokens \cup {Nobody}, old : BOOLEAN]]
    /\ jobs \subseteq Devices /\ dead \subseteq Tokens
    /\ taste \in [muted : BOOLEAN, off : BOOLEAN]
    /\ actor \in [active : BOOLEAN, gen : Nat]
    /\ dispatcher \in [Dispatchers ->
          [pc : {"idle", "claimed", "looked", "calling", "answered"},
           at : Deliveries \cup {<<Nobody, Nobody>>}, token : Tokens \cup {Nobody},
           gen : Nat, actorGen : Nat,
           answer : {"none", "success", "invalid", "retryable", "permanent"}]]
    /\ \A at \in Deliveries :
          /\ delivery[at].status = "leased" => delivery[at].lease # Nobody
          /\ note[at[1]].state \in {"none", "draft"} => delivery[at] = NoDelivery

\* AV-025: however leases lapse and are recovered, two workers never call the
\* provider for one delivery at the same time.
OneSender ==
    \A k, l \in Dispatchers :
        /\ dispatcher[k].pc = "calling" /\ dispatcher[l].pc = "calling"
        /\ dispatcher[k].at = dispatcher[l].at
        => k = l

\* Nobody is called for somebody who left: while the provider is called both
\* owners are active in the generations that were read, and a post that was
\* replied to, mentioned or quoted the member with is not deleted.
SendsAreWanted ==
    \A k \in Dispatchers :
        dispatcher[k].pc = "calling" =>
            /\ OwnersStay(k)
            /\ dispatcher[k].at[1] \in Published => note[dispatcher[k].at[1]].state = "active"

\* A device that is registered stays so unless the member acts, its account is
\* purged, another device takes its token, it was logged out since, or the
\* token that it has now is dead: late answers and late jobs do not reach it.
RegistrationsHold ==
    [][\A d \in Devices :
          Routed(d) /\ ~Routed(d)' =>
              \/ budget'.moves < budget.moves
              \/ life.state = "deleting"
              \/ d \in jobs \ jobs' /\ route[d].old
              \/ route[d].token \in dead]_everyVar

\* Deliveries that somebody may still be told of.
Backlog ==
    {at \in Deliveries :
        /\ delivery[at].status \in Outstanding
        /\ note[at[1]].state = "active" /\ Routed(at[2])
        /\ ~taste.muted /\ life.state # "terminal"}

\* Where a dispatcher runs the backlog of finitely many events drains, whatever
\* dispatcher died with a lease and whatever the provider answered.
QueueDrains == []<>(Dispatchers \cap budget.present # {} => Backlog = {})
=============================================================================
