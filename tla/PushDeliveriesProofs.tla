------------------------ MODULE PushDeliveriesProofs ------------------------
(***************************************************************************)
(* What push notifications keep for every number of events, devices and    *)
(* dispatchers, and for every account below them.  They host the deletion  *)
(* of the account, which hosts the schedule: what is proved of those holds *)
(* here too, and is stated of PushSpec at the end, the specification that  *)
(* TLC checks.                                                             *)
(*                                                                         *)
(* CallInv says what nobody can change under a dispatcher that calls the   *)
(* provider; the rest is types, and what the answers of calls were about.  *)
(***************************************************************************)
EXTENDS PushDeliveries, AccountDeletionProofs

USE PushConstants
USE DEF Useful, Margin, Expired

----------------------------------------------------------------------------
(* The account below.                                                      *)

\* Everything else leaves the account alone, but for the budget.
LEMMA PushHosts ==
    ASSUME PushNext
    PROVE  LowerStep \/ UNCHANGED Below
<1>1. CASE UNCHANGED allVars
  BY <1>1 DEF allVars, scheduleVars, Below
<1>2. CASE \E n \in Notes :
              \/ Consider(n) \/ Commit(n) \/ Undo(n) \/ Withdraw(n) \/ Reactivate(n)
              \/ TimePasses(n)
  BY <1>1, <1>2 DEF Consider, Commit, Undo, Withdraw, Retracted, Reactivate, TimePasses, Act
<1>3. CASE Mute \/ Unmute \/ Prefer \/ ActorMoves \/ ForgetActor
  BY <1>1, <1>3 DEF Mute, Unmute, Prefer, ActorMoves, ForgetActor, Act
<1>4. CASE \/ \E d \in Devices :
                 \/ Remove(d) \/ LogoutOne(d) \/ Cleanup(d)
                 \/ \E t \in Tokens : Register(d, t)
           \/ \E t \in Tokens : TokenDies(t)
  BY <1>1, <1>4 DEF Remove, LogoutOne, Cleanup, Register, TokenDies, Act, GoesWrong
<1>5. CASE \E k \in Dispatchers : DispatcherStep(k) \/ CallFails(k) \/ DispatcherFails(k)
  BY <1>1, <1>5 DEF DispatcherStep, ClaimDelivery, Look, Enter, Answer, FinishSend, CallFails,
                    DispatcherFails, GoesWrong
<1>6. CASE \E at \in Deliveries : DeliveryLapses(at) \/ DeliveryOutlived(at) \/ Recover(at)
  BY <1>1, <1>6 DEF DeliveryLapses, DeliveryOutlived, Recover, GoesWrong
<1> QED
  BY <1>2, <1>3, <1>4, <1>5, <1>6 DEF PushNext

\* What is proved of a deletion holds while notifications are sent.
THEOREM DeletionIsHostedByPush == PushSpec => HostedDeletionSpec
<1>1. PushInit => DeletionInit
  BY DEF PushInit
<1>2. [PushNext]_everyVar => [DeletionNext]_hostedDeletionVars
  <2>1. CASE PushNext
    BY <2>1, PushHosts DEF LowerStep, Below, hostedDeletionVars
  <2>2. CASE UNCHANGED everyVar
    BY <2>2 DEF everyVar, allVars, scheduleVars, hostedDeletionVars
  <2> QED
    BY <2>1, <2>2
<1> QED
  BY <1>1, <1>2, PTL DEF PushSpec, HostedDeletionSpec

----------------------------------------------------------------------------
(* The invariant.                                                          *)

NoteRows == [state : {"none", "draft", "active", "retracted"},
             targets : SUBSET Devices, overdue : BOOLEAN]
DeliveryRows == [status : Outstanding \cup {"none", "succeeded", "permanent_failure", "expired",
                                            "cancelled"},
                 lease : Dispatchers \cup {Nobody}, age : {Useful, Margin, Expired}]
RouteRows == [installed : BOOLEAN, subscribed : BOOLEAN, token : Tokens \cup {Nobody},
              old : BOOLEAN]
Sends == [pc : {"idle", "claimed", "looked", "calling", "answered"},
          at : Deliveries \cup {<<Nobody, Nobody>>}, token : Tokens \cup {Nobody},
          gen : Nat, actorGen : Nat,
          answer : {"none", "success", "invalid", "retryable", "permanent"}]

RowOK(row) == row \in DeliveryRows /\ (row.status = "leased" => row.lease # Nobody)
DeliveriesOK(table) ==
    table \in [Deliveries -> DeliveryRows] /\ \A at \in Deliveries : RowOK(table[at])

\* The devices and what decides about them.
DevicesTyped ==
    /\ route \in [Devices -> RouteRows]
    /\ jobs \subseteq Devices /\ dead \subseteq Tokens
    /\ taste \in [muted : BOOLEAN, off : BOOLEAN]
    /\ actor \in [active : BOOLEAN, gen : Nat]

EventsTyped ==
    /\ note \in [Notes -> NoteRows]
    /\ DeliveriesOK(delivery)
    /\ \A at \in Deliveries :
          note[at[1]].state \in {"none", "draft"} => delivery[at] = NoDelivery

SendsTyped ==
    /\ dispatcher \in [Dispatchers -> Sends]
    /\ \A k \in Dispatchers : dispatcher[k].pc # "idle" => dispatcher[k].at \in Deliveries

\* What nobody can change under a call: the owners, the post, and the lease,
\* unless the delivery is over.
CallInv(k) ==
    dispatcher[k].pc = "calling" =>
        /\ OwnersStay(k)
        /\ dispatcher[k].at[1] \in Published => note[dispatcher[k].at[1]].state = "active"
        /\ delivery[dispatcher[k].at].status \notin {"none", "pending"}
        /\ delivery[dispatcher[k].at].status = "leased" =>
              /\ delivery[dispatcher[k].at].lease = k
              /\ delivery[dispatcher[k].at].age = Useful

\* An answer stays true: tokens do not come back to life.
AnswerInv(k) ==
    dispatcher[k].pc = "answered" /\ dispatcher[k].answer = "invalid" =>
        dispatcher[k].token \in dead

PushInv ==
    /\ DevicesTyped /\ EventsTyped /\ SendsTyped
    /\ \A k \in Dispatchers : CallInv(k) /\ AnswerInv(k)
    /\ OneSender

LEMMA InvTypes == PushInv => PushTypeOK
<1> SUFFICES ASSUME PushInv
             PROVE  PushTypeOK
  OBVIOUS
<1>1. \A at \in Deliveries :
          /\ delivery[at].status = "leased" => delivery[at].lease # Nobody
          /\ note[at[1]].state \in {"none", "draft"} => delivery[at] = NoDelivery
  BY DEF PushInv, EventsTyped, DeliveriesOK, RowOK
<1>2. /\ note \in [Notes -> [state : {"none", "draft", "active", "retracted"},
                             targets : SUBSET Devices, overdue : BOOLEAN]]
      /\ delivery \in [Deliveries ->
            [status : Outstanding \cup {"none", "succeeded", "permanent_failure", "expired",
                                        "cancelled"},
             lease : Dispatchers \cup {Nobody}, age : {Useful, Margin, Expired}]]
  BY DEF PushInv, EventsTyped, DeliveriesOK, NoteRows, DeliveryRows
<1>3. /\ route \in [Devices -> [installed : BOOLEAN, subscribed : BOOLEAN,
                                token : Tokens \cup {Nobody}, old : BOOLEAN]]
      /\ jobs \subseteq Devices /\ dead \subseteq Tokens
      /\ taste \in [muted : BOOLEAN, off : BOOLEAN]
      /\ actor \in [active : BOOLEAN, gen : Nat]
  BY DEF PushInv, DevicesTyped, RouteRows
<1>4. dispatcher \in [Dispatchers ->
         [pc : {"idle", "claimed", "looked", "calling", "answered"},
          at : Deliveries \cup {<<Nobody, Nobody>>}, token : Tokens \cup {Nobody},
          gen : Nat, actorGen : Nat,
          answer : {"none", "success", "invalid", "retryable", "permanent"}]]
  BY DEF PushInv, SendsTyped, Sends
<1> QED
  BY <1>1, <1>2, <1>3, <1>4 DEF PushTypeOK

LEMMA InvWanted == PushInv => SendsAreWanted
  BY DEF PushInv, CallInv, SendsAreWanted

LEMMA NothingTyped ==
    /\ NoDelivery \in DeliveryRows /\ NoDelivery.status = "none" /\ NoDelivery.lease = Nobody
    /\ NoNote \in NoteRows /\ NoNote.state = "none"
    /\ NoRoute \in RouteRows /\ Plain \in [muted : BOOLEAN, off : BOOLEAN]
    /\ NoSend \in Sends /\ NoSend.pc = "idle"
  BY DEF NoDelivery, DeliveryRows, NoNote, NoteRows, NoRoute, RouteRows, Plain, NoSend, Sends

LEMMA PushInitInv == PushInit => PushInv
<1> SUFFICES ASSUME PushInit
             PROVE  PushInv
  OBVIOUS
<1>1. DevicesTyped
  BY NothingTyped DEF PushInit, DevicesTyped, RouteRows, Tokens
<1>2. EventsTyped
  BY NothingTyped DEF PushInit, EventsTyped, DeliveriesOK, RowOK
<1>3. SendsTyped
  BY NothingTyped DEF PushInit, SendsTyped
<1> QED
  BY <1>1, <1>2, <1>3, NothingTyped DEF PushInit, PushInv, CallInv, AnswerInv, OneSender

----------------------------------------------------------------------------
(* Steps that leave dispatchers alone.                                     *)

\* Deliveries end, or stay as they are.
LEMMA CalledTypes ==
    ASSUME DeliveriesOK(delivery), NEW some \in SUBSET Deliveries
    PROVE  /\ DeliveriesOK(Called(some))
           /\ \A at \in Deliveries :
                 \/ Called(some)[at] = delivery[at]
                 \/ /\ delivery[at].status \in Outstanding
                    /\ Called(some)[at].status = "cancelled"
<1> DEFINE row == [NoDelivery EXCEPT !.status = "cancelled"]
<1>1. RowOK(row) /\ row.status = "cancelled"
  BY DEF RowOK, DeliveryRows, NoDelivery
<1>2. Called(some) = [at \in Deliveries |->
                        IF at \in some /\ delivery[at].status \in Outstanding
                        THEN row ELSE delivery[at]]
  BY DEF Called, Ended
<1> HIDE DEF row
<1> QED
  BY <1>1, <1>2 DEF DeliveriesOK, RowOK

\* The owners stay or nobody is inside, no post goes under a call, and
\* deliveries at most end.
LEMMA CalmStep ==
    ASSUME PushInv, UNCHANGED dispatcher,
           UNCHANGED <<life, actor>> \/ \A k \in Dispatchers : ~Inside(k),
           \/ delivery' = delivery
           \/ \E some \in SUBSET Deliveries : delivery' = Called(some),
           note' \in [Notes -> NoteRows],
           \A n \in Notes : note'[n].state \in {"none", "draft"} =>
                               note[n].state \in {"none", "draft"},
           \A n \in Published : \/ note[n].state = "active" => note'[n].state = "active"
                                \/ ~PostFenced(n),
           DevicesTyped', dead \subseteq dead'
    PROVE  PushInv'
<1>1. /\ DeliveriesOK(delivery')
      /\ \A at \in Deliveries :
            \/ delivery'[at] = delivery[at]
            \/ delivery[at].status \in Outstanding /\ delivery'[at].status = "cancelled"
  BY CalledTypes DEF PushInv, EventsTyped
<1>2. EventsTyped'
  <2>1. ASSUME NEW at \in Deliveries, note'[at[1]].state \in {"none", "draft"}
        PROVE  delivery'[at] = NoDelivery
    <3>1. at[1] \in Notes
      BY DEF Deliveries
    <3>2. delivery[at] = NoDelivery
      BY <2>1, <3>1 DEF PushInv, EventsTyped
    <3> QED
      BY <1>1, <3>2, NothingTyped DEF Outstanding
  <2> QED
    BY <1>1, <2>1 DEF EventsTyped, DeliveriesOK, RowOK
<1>3. SendsTyped'
  BY DEF PushInv, SendsTyped
<1>4. ASSUME NEW k \in Dispatchers
      PROVE  CallInv(k)' /\ AnswerInv(k)'
  <2>1. AnswerInv(k)'
    BY DEF PushInv, AnswerInv
  <2>2. ASSUME dispatcher[k].pc = "calling"
        PROVE  CallInv(k)'
    <3>1. Inside(k) /\ UNCHANGED <<life, actor>>
      BY <2>2 DEF Inside
    <3>2. dispatcher[k].at \in Deliveries /\ CallInv(k)
      BY <2>2 DEF PushInv, SendsTyped
    <3>3. OwnersStay(k)'
      BY <2>2, <3>1, <3>2 DEF CallInv, OwnersStay, ActiveIn
    <3>4. dispatcher[k].at[1] \in Published => note'[dispatcher[k].at[1]].state = "active"
      BY <2>2, <3>1, <3>2 DEF CallInv, PostFenced
    <3> QED
      BY <1>1, <2>2, <3>2, <3>3, <3>4 DEF CallInv
  <2> QED
    BY <2>1, <2>2 DEF CallInv
<1>5. OneSender'
  BY DEF PushInv, OneSender
<1> QED
  BY <1>2, <1>3, <1>4, <1>5 DEF PushInv

\* All deliveries go while nobody calls.
LEMMA EmptyStep ==
    ASSUME PushInv, UNCHANGED dispatcher, \A k \in Dispatchers : dispatcher[k].pc # "calling",
           delivery' = [at \in Deliveries |-> NoDelivery],
           note' \in [Notes -> NoteRows], DevicesTyped', dead \subseteq dead'
    PROVE  PushInv'
<1>1. EventsTyped'
  BY NothingTyped DEF EventsTyped, DeliveriesOK, RowOK
<1>2. SendsTyped' /\ OneSender'
  BY DEF PushInv, SendsTyped, OneSender
<1>3. \A k \in Dispatchers : CallInv(k)' /\ AnswerInv(k)'
  BY DEF PushInv, CallInv, AnswerInv
<1> QED
  BY <1>1, <1>2, <1>3 DEF PushInv

\* One delivery that nobody calls for changes.
LEMMA RowStep ==
    ASSUME PushInv, UNCHANGED <<life, note, actor, dispatcher, dead>>, DevicesTyped',
           NEW at \in Deliveries, NEW row, RowOK(row),
           delivery' = [delivery EXCEPT ![at] = row],
           delivery[at] # NoDelivery,
           \A k \in Dispatchers : ~(dispatcher[k].pc = "calling" /\ dispatcher[k].at = at)
    PROVE  PushInv'
<1>1. delivery'[at] = row /\ \A b \in Deliveries : b # at => delivery'[b] = delivery[b]
  BY DEF PushInv, EventsTyped, DeliveriesOK
<1>2. EventsTyped'
  BY <1>1 DEF PushInv, EventsTyped, DeliveriesOK, RowOK
<1>3. SendsTyped' /\ OneSender'
  BY DEF PushInv, SendsTyped, OneSender
<1>4. ASSUME NEW k \in Dispatchers
      PROVE  CallInv(k)' /\ AnswerInv(k)'
  <2>1. AnswerInv(k)'
    BY DEF PushInv, AnswerInv
  <2>2. ASSUME dispatcher[k].pc = "calling"
        PROVE  CallInv(k)'
    <3>1. dispatcher[k].at \in Deliveries /\ CallInv(k) /\ dispatcher[k].at # at
      BY <2>2 DEF PushInv, SendsTyped
    <3>2. OwnersStay(k)'
      BY <2>2, <3>1 DEF CallInv, OwnersStay, ActiveIn
    <3> QED
      BY <1>1, <2>2, <3>1, <3>2 DEF CallInv
  <2> QED
    BY <2>1, <2>2 DEF CallInv
<1> QED
  BY <1>2, <1>3, <1>4 DEF PushInv

LEMMA LeaseKeeps ==
    ASSUME PushInv, NEW at \in Deliveries, Ages(at) \/ Recover(at), UNCHANGED life
    PROVE  PushInv'
<1>1. UNCHANGED <<note, route, jobs, taste, actor, dead, dispatcher>>
  BY DEF Ages, Recover
<1>2. DevicesTyped'
  BY <1>1 DEF PushInv, DevicesTyped
<1>3. delivery[at] \in DeliveryRows /\ RowOK(delivery[at])
  BY DEF PushInv, EventsTyped, DeliveriesOK
<1>4. ASSUME NEW k \in Dispatchers, dispatcher[k].pc = "calling", dispatcher[k].at = at,
             delivery[at].status = "leased"
      PROVE  delivery[at].lease = k /\ delivery[at].age = Useful
  BY <1>4 DEF PushInv, CallInv
<1>5. delivery[at].status = "leased"
  BY DEF Ages, Recover, Recoverable
<1>6. delivery[at] # NoDelivery
  BY <1>5, NothingTyped
<1>7. CASE Ages(at)
  <2> DEFINE row == [delivery[at] EXCEPT !.age = delivery[at].age + 1]
  <2>1. delivery' = [delivery EXCEPT ![at] = row] /\ ~WithinCall(at)
    BY <1>7 DEF Ages
  <2>2. delivery[at].age + 1 \in {Useful, Margin, Expired}
    BY <1>3, <1>7 DEF Ages, DeliveryRows
  <2>3. RowOK(row)
    BY <1>3, <2>2 DEF RowOK, DeliveryRows
  <2>4. \A k \in Dispatchers : ~(dispatcher[k].pc = "calling" /\ dispatcher[k].at = at)
    BY <1>4, <1>5, <2>1 DEF WithinCall
  <2> HIDE DEF row
  <2> QED
    BY <1>1, <1>2, <1>6, <2>1, <2>3, <2>4, RowStep
<1>8. CASE Recover(at)
  <2> DEFINE row == [NoDelivery EXCEPT !.status = "pending"]
  <2>1. delivery' = [delivery EXCEPT ![at] = row] /\ delivery[at].age = Expired
    BY <1>8 DEF Recover, Recoverable
  <2>2. RowOK(row)
    BY DEF RowOK, DeliveryRows, NoDelivery, Outstanding
  <2>3. \A k \in Dispatchers : ~(dispatcher[k].pc = "calling" /\ dispatcher[k].at = at)
    BY <1>4, <1>5, <2>1
  <2> HIDE DEF row
  <2> QED
    BY <1>1, <1>2, <1>6, <2>1, <2>2, <2>3, RowStep
<1> QED
  BY <1>7, <1>8

LEMMA EventsKeep ==
    ASSUME PushInv, UNCHANGED life, NEW n \in Notes,
           \/ Consider(n) \/ Commit(n) \/ Undo(n) \/ Withdraw(n) \/ Reactivate(n)
           \/ TimePasses(n)
    PROVE  PushInv'
<1>0. /\ note \in [Notes -> NoteRows] /\ note[n] \in NoteRows
      /\ delivery \in [Deliveries -> DeliveryRows]
  BY DEF PushInv, EventsTyped, DeliveriesOK
<1>1. UNCHANGED <<route, jobs, taste, actor, dead, dispatcher>>
  BY DEF Consider, Commit, Undo, Withdraw, Retracted, Reactivate, TimePasses
<1>2. DevicesTyped'
  BY <1>1 DEF PushInv, DevicesTyped
<1>3. ASSUME NEW row \in NoteRows, note' = [note EXCEPT ![n] = row],
             row.state \in {"none", "draft"} => note[n].state \in {"none", "draft"},
             \/ n \in Published /\ note[n].state = "active" => row.state = "active"
             \/ ~PostFenced(n),
             \/ delivery' = delivery
             \/ \E some \in SUBSET Deliveries : delivery' = Called(some)
      PROVE  PushInv'
  <2>1. /\ note' \in [Notes -> NoteRows]
        /\ note'[n] = row /\ \A e \in Notes : e # n => note'[e] = note[e]
    BY <1>0, <1>3
  <2> QED
    BY <1>1, <1>2, <1>3, <2>1, CalmStep
<1>4. CASE Consider(n)
  <2> DEFINE chosen == IF taste.off THEN {} ELSE {d \in Devices : Routed(d)}
             row == [NoNote EXCEPT !.state = "draft", !.targets = chosen]
  <2>1. chosen \in SUBSET Devices
    OBVIOUS
  <2>2. /\ note' = [note EXCEPT ![n] = row] /\ note[n] = NoNote /\ delivery' = delivery
    BY <1>4 DEF Consider
  <2> HIDE DEF chosen
  <2>3. row \in NoteRows /\ row.state = "draft"
    BY <2>1 DEF NoteRows, NoNote
  <2> HIDE DEF row
  <2> QED
    BY <1>3, <2>2, <2>3, NothingTyped
<1>5. CASE Undo(n) \/ Withdraw(n)
  <2> DEFINE row == [note[n] EXCEPT !.state = "retracted"]
  <2>1. /\ note' = [note EXCEPT ![n] = row]
        /\ delivery' = Called(Of({n}))
        /\ n \notin Published \/ ~PostFenced(n)
    BY <1>5 DEF Undo, Withdraw, Retracted
  <2>2. row \in NoteRows /\ row.state = "retracted"
    BY <1>0 DEF NoteRows
  <2>3. Of({n}) \in SUBSET Deliveries
    BY DEF Of
  <2> HIDE DEF row
  <2> QED
    BY <1>3, <2>1, <2>2, <2>3
<1>6. CASE Reactivate(n)
  <2> DEFINE row == [note[n] EXCEPT !.state = "active"]
  <2>1. note' = [note EXCEPT ![n] = row] /\ delivery' = delivery
    BY <1>6 DEF Reactivate
  <2>2. row \in NoteRows /\ row.state = "active"
    BY <1>0 DEF NoteRows
  <2> HIDE DEF row
  <2> QED
    BY <1>3, <2>1, <2>2
<1>7. CASE TimePasses(n)
  <2> DEFINE row == [note[n] EXCEPT !.overdue = TRUE]
  <2>1. note' = [note EXCEPT ![n] = row] /\ delivery' = delivery
    BY <1>7 DEF TimePasses
  <2>2. row \in NoteRows /\ row.state = note[n].state
    BY <1>0 DEF NoteRows
  <2> HIDE DEF row
  <2> QED
    BY <1>3, <2>1, <2>2
<1>8. CASE Commit(n)
  <2> DEFINE row == [NoNote EXCEPT !.state = "active"]
             new == [NoDelivery EXCEPT !.status = "pending"]
             targets == note[n].targets
  <2>1. /\ note[n].state = "draft" /\ note' = [note EXCEPT ![n] = row]
        /\ delivery' = [at \in Deliveries |->
                          IF at[1] = n /\ at[2] \in targets THEN new ELSE delivery[at]]
    BY <1>8 DEF Commit
  <2>2. /\ row \in NoteRows /\ row.state = "active" /\ RowOK(new)
    BY DEF NoteRows, NoNote, RowOK, DeliveryRows, NoDelivery, Outstanding
  <2> HIDE DEF row, new, targets
  <2>3. /\ note' \in [Notes -> NoteRows] /\ note'[n].state = "active"
        /\ \A e \in Notes : e # n => note'[e] = note[e]
    BY <1>0, <2>1, <2>2
  <2>4. \A at \in Deliveries :
           /\ RowOK(delivery'[at])
           /\ at[1] # n => delivery'[at] = delivery[at]
    BY <2>1, <2>2 DEF PushInv, EventsTyped, DeliveriesOK
  <2>5. \A at \in Deliveries : at[1] \in Notes
    BY DEF Deliveries
  <2>6. delivery' \in [Deliveries -> DeliveryRows]
    BY <1>0, <2>1, <2>2 DEF RowOK
  <2>7. EventsTyped'
    BY <2>3, <2>4, <2>5, <2>6 DEF PushInv, EventsTyped, DeliveriesOK, RowOK
  <2>8. SendsTyped' /\ OneSender'
    BY <1>1 DEF PushInv, SendsTyped, OneSender
  <2>9. ASSUME NEW k \in Dispatchers
        PROVE  CallInv(k)' /\ AnswerInv(k)'
    <3>1. AnswerInv(k)'
      BY <1>1 DEF PushInv, AnswerInv
    <3>2. ASSUME dispatcher[k].pc = "calling"
          PROVE  CallInv(k)'
      <4>1. dispatcher[k].at \in Deliveries /\ CallInv(k)
        BY <3>2 DEF PushInv, SendsTyped
      <4>2. OwnersStay(k)'
        BY <1>1, <3>2, <4>1 DEF CallInv, OwnersStay, ActiveIn
      <4>3. delivery[dispatcher[k].at] # NoDelivery
        BY <3>2, <4>1, NothingTyped DEF CallInv
      <4>4. dispatcher[k].at[1] # n
        BY <2>1, <4>1, <4>3 DEF PushInv, EventsTyped
      <4> QED
        BY <1>1, <2>3, <2>4, <2>5, <3>2, <4>1, <4>2, <4>4 DEF CallInv
    <3> QED
      BY <1>1, <3>1, <3>2 DEF CallInv
  <2> QED
    BY <1>2, <2>7, <2>8, <2>9 DEF PushInv
<1> QED
  BY <1>4, <1>5, <1>6, <1>7, <1>8

LEMMA PeopleKeep ==
    ASSUME PushInv, UNCHANGED life, Mute \/ Unmute \/ Prefer \/ ActorMoves \/ ForgetActor
    PROVE  PushInv'
<1>0. /\ note \in [Notes -> NoteRows]
      /\ Deliveries \in SUBSET Deliveries
      /\ taste \in [muted : BOOLEAN, off : BOOLEAN] /\ actor \in [active : BOOLEAN, gen : Nat]
  BY DEF PushInv, EventsTyped, DevicesTyped
<1>1. CASE Mute \/ Unmute \/ Prefer
  <2>1. UNCHANGED <<note, route, jobs, actor, dead, dispatcher>>
    BY <1>1 DEF Mute, Unmute, Prefer
  <2>2. delivery' = delivery \/ delivery' = Called(Deliveries)
    BY <1>1 DEF Mute, Unmute, Prefer
  <2>3. DevicesTyped'
    BY <1>0, <1>1, <2>1 DEF Mute, Unmute, Prefer, PushInv, DevicesTyped
  <2> QED
    BY <1>0, <2>1, <2>2, <2>3, CalmStep
<1>2. CASE ActorMoves
  <2>1. /\ UNCHANGED <<note, delivery, route, jobs, taste, dead, dispatcher>>
        /\ \A k \in Dispatchers : ~Inside(k)
        /\ actor' = [active |-> ~actor.active, gen |-> actor.gen + 1]
    BY <1>2 DEF ActorMoves
  <2>2. DevicesTyped'
    BY <1>0, <2>1 DEF PushInv, DevicesTyped
  <2> QED
    BY <1>0, <2>1, <2>2, CalmStep
<1>3. CASE ForgetActor
  <2>1. /\ UNCHANGED <<route, jobs, taste, actor, dead, dispatcher>> /\ ~actor.active
        /\ note' = [n \in Notes |-> NoNote]
        /\ delivery' = [at \in Deliveries |-> NoDelivery]
    BY <1>3 DEF ForgetActor
  <2>2. DevicesTyped' /\ note' \in [Notes -> NoteRows]
    BY <2>1, NothingTyped DEF PushInv, DevicesTyped
  <2>3. \A k \in Dispatchers : dispatcher[k].pc # "calling"
    BY <2>1 DEF PushInv, CallInv, OwnersStay
  <2> QED
    BY <2>1, <2>2, <2>3, EmptyStep
<1> QED
  BY <1>1, <1>2, <1>3

LEMMA SilencedTypes ==
    ASSUME route \in [Devices -> RouteRows], NEW ds \in SUBSET Devices
    PROVE  /\ Silenced(ds) \in [Devices -> RouteRows]
           /\ \A d \in Devices \ ds : Silenced(ds)[d] = route[d]
  BY DEF Silenced, RouteRows

LEMMA AgedTypes ==
    ASSUME route \in [Devices -> RouteRows], NEW ds \in SUBSET Devices
    PROVE  /\ Aged(ds) \in [Devices -> RouteRows]
           /\ \A d \in Devices : /\ Aged(ds)[d].installed = route[d].installed
                                 /\ Aged(ds)[d].subscribed = route[d].subscribed
  BY DEF Aged, RouteRows

LEMMA DevicesKeep ==
    ASSUME PushInv, UNCHANGED life,
           \/ \E d \in Devices :
                 \/ Remove(d) \/ LogoutOne(d) \/ Cleanup(d)
                 \/ \E t \in Tokens : Register(d, t)
           \/ \E t \in Tokens : TokenDies(t)
    PROVE  PushInv'
<1>0. /\ note \in [Notes -> NoteRows] /\ route \in [Devices -> RouteRows]
      /\ jobs \subseteq Devices /\ dead \subseteq Tokens
      /\ \A ds : To(ds) \in SUBSET Deliveries
  BY DEF PushInv, EventsTyped, DevicesTyped, To
<1>1. ASSUME UNCHANGED <<note, taste, actor, dispatcher>>, route' \in [Devices -> RouteRows],
             jobs' \subseteq Devices, dead' \subseteq Tokens, dead \subseteq dead',
             \/ delivery' = delivery
             \/ \E some \in SUBSET Deliveries : delivery' = Called(some)
      PROVE  PushInv'
  <2>1. DevicesTyped'
    BY <1>1 DEF PushInv, DevicesTyped
  <2> QED
    BY <1>0, <1>1, <2>1, CalmStep
<1>2. ASSUME NEW d \in Devices, NEW t \in Tokens, Register(d, t)
      PROVE  PushInv'
  <2> DEFINE losers == {e \in Devices \ {d} : route[e].installed /\ route[e].token = t}
             row == [installed |-> TRUE, subscribed |-> TRUE, token |-> t, old |-> FALSE]
  <2>1. losers \in SUBSET Devices /\ row \in RouteRows
    BY DEF RouteRows
  <2>2. /\ route' = [Silenced(losers) EXCEPT ![d] = row]
        /\ delivery' = Called(To(losers))
        /\ UNCHANGED <<note, jobs, taste, actor, dead, dispatcher>>
    BY <1>2 DEF Register
  <2> HIDE DEF losers, row
  <2>3. route' \in [Devices -> RouteRows]
    BY <1>0, <2>1, <2>2, SilencedTypes
  <2> QED
    BY <1>0, <1>1, <2>2, <2>3
<1>3. ASSUME NEW d \in Devices, Unsubscribed(d)
      PROVE  route' \in [Devices -> RouteRows] /\ delivery' = Called(To({d}))
  BY <1>0, <1>3 DEF Unsubscribed, RouteRows
<1>4. ASSUME NEW d \in Devices, Remove(d)
      PROVE  PushInv'
  BY <1>0, <1>1, <1>3, <1>4 DEF Remove
<1>5. ASSUME NEW d \in Devices, LogoutOne(d)
      PROVE  PushInv'
  <2>1. {d} \in SUBSET Devices
    OBVIOUS
  <2> QED
    BY <1>0, <1>1, <1>5, <2>1, AgedTypes DEF LogoutOne
<1>6. ASSUME NEW d \in Devices, Cleanup(d)
      PROVE  PushInv'
  BY <1>0, <1>1, <1>3, <1>6 DEF Cleanup
<1>7. ASSUME NEW t \in Tokens, TokenDies(t)
      PROVE  PushInv'
  BY <1>0, <1>1, <1>7 DEF TokenDies
<1> QED
  BY <1>2, <1>4, <1>5, <1>6, <1>7

----------------------------------------------------------------------------
(* The account moves.                                                      *)



\* Private rows are purged of an owner that is being deleted.
LEMMA PurgeIsOfDeletion ==
    ASSUME DeletionInv, DeletionNext, Purging
    PROVE  life.state = "deleting" /\ life' = life
<1>0. deleter \in [Deleters -> Deletions]
  BY DeletionInvParts
<1>1. PICK d \in Deleters : deleter[d].pc = "private" /\ deleter'[d].pc = "delete"
  BY DEF Purging
<1>2. deleter' # deleter
  BY <1>1
<1>3. ASSUME NEW e \in Deleters,
             \/ StopDeleting(e)
             \/ \E pc \in {"purge", "private", "check", "complete"} : Deleting(e, pc)
      PROVE  FALSE
  <2>1. CASE StopDeleting(e)
    BY <1>0, <1>1, <2>1 DEF StopDeleting, NoDeletion
  <2>2. ASSUME NEW pc \in {"purge", "private", "check", "complete"}, Deleting(e, pc)
        PROVE  FALSE
    BY <1>0, <1>1, <2>2 DEF Deleting
  <2> QED
    BY <1>3, <2>1, <2>2
<1>4. ASSUME NEW e \in Deleters, ClaimDeletion(e)
      PROVE  FALSE
  BY <1>0, <1>1, <1>4 DEF ClaimDeletion
<1>5. ASSUME NEW e \in Deleters, PurgePrivate(e)
      PROVE  life.state = "deleting" /\ life' = life
  BY <1>3, <1>5 DEF PurgePrivate, FailDeletion, scheduleVars
<1>6. ASSUME NEW e \in Deleters,
             \/ AdoptAttempts(e) \/ DeleteRecords(e) \/ CheckSafety(e) \/ PurgeAccepted(e)
             \/ CompleteAccepted(e)
      PROVE  FALSE
  BY <1>3, <1>6 DEF AdoptAttempts, DeleteRecords, CheckSafety, PurgeAccepted, CompleteAccepted,
                    FailDeletion
<1>7. ASSUME NEW e \in Deleters, DeletionRefused(e) \/ DeletionFails(e) \/ DeleterCrashes(e)
      PROVE  FALSE
  BY <1>3, <1>7 DEF DeletionRefused, DeletionFails, DeleterCrashes, FailDeletion
<1>8. ~(\/ ScheduleStep
        \/ CreateIntent \/ StartOAuth \/ Reauthenticate \/ ReauthenticationFails
        \/ IntentLapses \/ ProfileDeparts \/ Accept \/ LogoutAll \/ CredentialExpires
        \/ \E to \in Targets : CancelIntent(to) \/ StartFails(to) \/ ExpireIntent(to)
        \/ DeletionLeaseEnds)
  BY <1>2 DEF ScheduleStep, CreateIntent, StartOAuth, Reauthenticate, ReauthenticationFails,
              IntentLapses, ProfileDeparts, Accept, LogoutAll, CredentialExpires, CancelIntent,
              StartFails, ExpireIntent, Cancelled, DeletionLeaseEnds
<1> QED
  BY <1>4, <1>5, <1>6, <1>7, <1>8 DEF DeletionNext, DeleterStep, FencedStep

LEMMA LowerKeeps ==
    ASSUME PushInv, DeletionInv, LowerStep
    PROVE  PushInv'
<1>0. /\ DeletionNext /\ UNCHANGED <<actor, dead, dispatcher>>
      /\ life' # life \/ epoch' # epoch => \A k \in Dispatchers : ~Inside(k)
  BY DEF LowerStep
<1>1. /\ note \in [Notes -> NoteRows] /\ route \in [Devices -> RouteRows]
      /\ jobs \subseteq Devices
  BY DEF PushInv, EventsTyped, DevicesTyped
<1>2. CASE Purging
  <2>1. life.state = "deleting"
    BY <1>0, <1>2, PurgeIsOfDeletion
  <2>2. \A k \in Dispatchers : dispatcher[k].pc # "calling"
    BY <2>1 DEF PushInv, CallInv, OwnersStay, ActiveIn
  <2>3. /\ note' = [n \in Notes |-> IF note[n].state = "draft" THEN note[n] ELSE NoNote]
        /\ delivery' = [at \in Deliveries |-> NoDelivery]
        /\ route' = [d \in Devices |-> NoRoute] /\ taste' = Plain /\ jobs' = jobs
    BY <1>2 DEF LowerStep
  <2>4. note' \in [Notes -> NoteRows]
    BY <1>1, <2>3, NothingTyped
  <2>5. DevicesTyped'
    BY <1>0, <2>3, NothingTyped DEF PushInv, DevicesTyped
  <2> QED
    BY <1>0, <2>2, <2>3, <2>4, <2>5, EmptyStep
<1>3. CASE ~Purging
  <2>1. /\ UNCHANGED <<note, delivery, taste>>
        /\ \/ route' = route /\ jobs' = jobs
           \/ route' = Aged(Subscribed) /\ jobs' = jobs \cup Subscribed
    BY <1>3 DEF LowerStep
  <2>2. Subscribed \in SUBSET Devices
    BY DEF Subscribed
  <2>3. route' \in [Devices -> RouteRows] /\ jobs' \subseteq Devices
    BY <1>1, <2>1, <2>2, AgedTypes
  <2>4. DevicesTyped'
    BY <1>0, <2>1, <2>3 DEF PushInv, DevicesTyped
  <2> QED
    BY <1>0, <1>1, <2>1, <2>4, CalmStep
<1> QED
  BY <1>2, <1>3

----------------------------------------------------------------------------
(* Dispatchers.                                                            *)

\* What a worker may do to a delivery: end it, claim it, or change its own.
Handled(k, at) ==
    \/ delivery'[at] = delivery[at]
    \/ /\ delivery[at].status \in Outstanding
       /\ delivery'[at].status \notin {"none", "pending", "leased"}
    \/ delivery[at].status = "pending"
    \/ delivery[at].status = "leased" /\ delivery[at].lease = k

LEMMA SendStep ==
    ASSUME PushInv, UNCHANGED <<life, note, actor, dead>>, DevicesTyped', DeliveriesOK(delivery'),
           NEW k \in Dispatchers, \A at \in Deliveries : Handled(k, at),
           NEW send \in Sends, send.pc # "idle" => send.at \in Deliveries,
           dispatcher' = [dispatcher EXCEPT ![k] = send],
           CallInv(k)', AnswerInv(k)',
           send.pc = "calling" =>
              \A l \in Dispatchers \ {k} :
                 ~(dispatcher[l].pc = "calling" /\ dispatcher[l].at = send.at)
    PROVE  PushInv'
<1>1. /\ dispatcher'[k] = send /\ dispatcher' \in [Dispatchers -> Sends]
      /\ \A l \in Dispatchers \ {k} : dispatcher'[l] = dispatcher[l]
  BY DEF PushInv, SendsTyped
<1>2. SendsTyped'
  BY <1>1 DEF PushInv, SendsTyped
<1>3. EventsTyped'
  <2>1. ASSUME NEW at \in Deliveries, note[at[1]].state \in {"none", "draft"}
        PROVE  delivery'[at] = NoDelivery
    <3>1. delivery[at] = NoDelivery
      BY <2>1 DEF PushInv, EventsTyped
    <3> QED
      BY <3>1, NothingTyped DEF Handled, Outstanding
  <2> QED
    BY <2>1 DEF PushInv, EventsTyped
<1>4. OneSender'
  BY <1>1 DEF PushInv, OneSender
<1>5. ASSUME NEW l \in Dispatchers \ {k}
      PROVE  CallInv(l)' /\ AnswerInv(l)'
  <2>1. AnswerInv(l)'
    BY <1>1 DEF PushInv, AnswerInv
  <2>2. ASSUME dispatcher[l].pc = "calling"
        PROVE  CallInv(l)'
    <3>1. dispatcher[l].at \in Deliveries /\ CallInv(l)
      BY <2>2 DEF PushInv, SendsTyped
    <3>2. OwnersStay(l)'
      BY <1>1, <2>2, <3>1 DEF CallInv, OwnersStay, ActiveIn
    <3> QED
      BY <1>1, <2>2, <3>1, <3>2 DEF CallInv, Handled
  <2> QED
    BY <1>1, <2>1, <2>2 DEF CallInv
<1> QED
  BY <1>2, <1>3, <1>4, <1>5 DEF PushInv

\* A worker that stops leaves its delivery, or ends its lease.
LEMMA StopStep ==
    ASSUME PushInv, UNCHANGED <<life, note, actor, dead>>, DevicesTyped', DeliveriesOK(delivery'),
           NEW k \in Dispatchers, \A at \in Deliveries : Handled(k, at), StopSending(k)
    PROVE  PushInv'
<1>1. dispatcher' = [dispatcher EXCEPT ![k] = NoSend] /\ dispatcher'[k] = NoSend
  BY DEF StopSending, PushInv, SendsTyped
<1>2. CallInv(k)' /\ AnswerInv(k)'
  BY <1>1, NothingTyped DEF CallInv, AnswerInv
<1> QED
  BY <1>1, <1>2, NothingTyped, SendStep

LEMMA SettledTypes ==
    ASSUME PushInv, NEW k \in Dispatchers, dispatcher[k].pc # "idle", Leases(k),
           NEW status \in {"pending", "succeeded", "permanent_failure", "expired", "cancelled"},
           Settle(k, status)
    PROVE  DeliveriesOK(delivery') /\ \A at \in Deliveries : Handled(k, at)
<1> DEFINE row == [NoDelivery EXCEPT !.status = status]
<1>1. RowOK(row)
  BY DEF RowOK, DeliveryRows, NoDelivery, Outstanding
<1>2. delivery' = [delivery EXCEPT ![dispatcher[k].at] = row] /\ dispatcher[k].at \in Deliveries
  BY DEF Settle, PushInv, SendsTyped
<1> HIDE DEF row
<1>3. delivery[dispatcher[k].at].status = "leased" /\ delivery[dispatcher[k].at].lease = k
  BY DEF Leases
<1> QED
  BY <1>1, <1>2, <1>3 DEF PushInv, EventsTyped, DeliveriesOK, RowOK, Handled

\* A delivery is left as it is.
LEMMA LeftTypes ==
    ASSUME PushInv, UNCHANGED delivery, NEW k \in Dispatchers
    PROVE  DeliveriesOK(delivery') /\ \A at \in Deliveries : Handled(k, at)
  BY DEF PushInv, EventsTyped, Handled

LEMMA GiveUpKeeps ==
    ASSUME PushInv, UNCHANGED <<life, note, actor, dead>>, DevicesTyped',
           NEW k \in Dispatchers, dispatcher[k].pc # "idle", GiveUpOn(k)
    PROVE  PushInv'
  BY SettledTypes, LeftTypes, StopStep DEF GiveUpOn

LEMMA ClaimKeeps ==
    ASSUME PushInv, UNCHANGED life, NEW k \in Dispatchers, NEW at \in Deliveries,
           ClaimDelivery(k, at)
    PROVE  PushInv'
<1> DEFINE row == [status |-> "leased", lease |-> k, age |-> Useful]
           send == [NoSend EXCEPT !.pc = "claimed", !.at = at, !.token = route[at[2]].token]
<1>1. /\ delivery[at].status = "pending" /\ delivery' = [delivery EXCEPT ![at] = row]
      /\ dispatcher' = [dispatcher EXCEPT ![k] = send]
      /\ UNCHANGED <<note, route, jobs, taste, actor, dead>>
  BY DEF ClaimDelivery
<1>2. DevicesTyped'
  BY <1>1 DEF PushInv, DevicesTyped
<1>3. RowOK(row)
  BY DEF RowOK, DeliveryRows, Outstanding
<1>4. at[2] \in Devices /\ route \in [Devices -> RouteRows]
  BY DEF Deliveries, PushInv, DevicesTyped
<1>5. route[at[2]].token \in Tokens \cup {Nobody}
  BY <1>4 DEF RouteRows
<1>6. send \in Sends /\ send.pc = "claimed" /\ send.at = at
  BY <1>5 DEF NoSend, Sends
<1> HIDE DEF row, send
<1>7. DeliveriesOK(delivery') /\ \A b \in Deliveries : Handled(k, b)
  BY <1>1, <1>3 DEF PushInv, EventsTyped, DeliveriesOK, RowOK, Handled
<1>8. dispatcher'[k].pc = "claimed"
  BY <1>1, <1>6 DEF PushInv, SendsTyped
<1>9. CallInv(k)' /\ AnswerInv(k)'
  BY <1>8 DEF CallInv, AnswerInv
<1> QED
  BY <1>1, <1>2, <1>6, <1>7, <1>9, SendStep

LEMMA LookKeeps ==
    ASSUME PushInv, PostTypes, UNCHANGED life, NEW k \in Dispatchers, Look(k)
    PROVE  PushInv'
<1> DEFINE send == [dispatcher[k] EXCEPT !.pc = "looked", !.gen = life.gen, !.actorGen = actor.gen]
<1>1. dispatcher[k].pc = "claimed" /\ UNCHANGED <<note, route, jobs, taste, actor, dead>>
  BY DEF Look
<1>2. DevicesTyped'
  BY <1>1 DEF PushInv, DevicesTyped
<1>3. CASE GiveUpOn(k)
  BY <1>1, <1>2, <1>3, GiveUpKeeps
<1>4. CASE ~GiveUpOn(k)
  <2>1. delivery' = delivery /\ dispatcher' = [dispatcher EXCEPT ![k] = send]
    BY <1>4 DEF Look
  <2>2. life.gen \in Nat /\ actor.gen \in Nat /\ dispatcher[k] \in Sends
    BY DEF PostTypes, PushInv, DevicesTyped, SendsTyped
  <2>3. send \in Sends /\ send.pc = "looked" /\ send.at = dispatcher[k].at
    BY <2>2 DEF Sends
  <2> HIDE DEF send
  <2>4. dispatcher'[k].pc = "looked" /\ send.at \in Deliveries
    BY <1>1, <2>1, <2>3 DEF PushInv, SendsTyped
  <2>5. CallInv(k)' /\ AnswerInv(k)'
    BY <2>4 DEF CallInv, AnswerInv
  <2> QED
    BY <1>1, <1>2, <2>1, <2>3, <2>4, <2>5, LeftTypes, SendStep
<1> QED
  BY <1>3, <1>4

LEMMA EnterKeeps ==
    ASSUME PushInv, UNCHANGED life, NEW k \in Dispatchers, Enter(k)
    PROVE  PushInv'
<1> DEFINE send == [dispatcher[k] EXCEPT !.pc = "calling"]
<1>1. dispatcher[k].pc = "looked" /\ UNCHANGED <<note, route, jobs, taste, actor, dead>>
  BY DEF Enter
<1>2. DevicesTyped'
  BY <1>1 DEF PushInv, DevicesTyped
<1>3. CASE ~OwnersStay(k)
  BY <1>1, <1>2, <1>3, GiveUpKeeps DEF Enter
<1>4. CASE OwnersStay(k) /\ ~OwnsClaim(k)
  BY <1>1, <1>2, <1>4, LeftTypes, StopStep DEF Enter
<1>5. ASSUME OwnsClaim(k), NEW status \in {"cancelled", "expired", "pending"},
             Settle(k, status), StopSending(k)
      PROVE  PushInv'
  BY <1>1, <1>2, <1>5, SettledTypes, StopStep DEF OwnsClaim
<1>6. CASE /\ OwnersStay(k) /\ OwnsClaim(k) /\ StillWanted(dispatcher[k].at[1])
           /\ delivery[dispatcher[k].at].age = Useful
           /\ Sending(k, "calling") /\ UNCHANGED delivery
  <2>1. dispatcher' = [dispatcher EXCEPT ![k] = send]
    BY <1>6 DEF Sending
  <2>2. dispatcher[k] \in Sends /\ dispatcher[k].at \in Deliveries
    BY <1>1 DEF PushInv, SendsTyped
  <2>3. /\ send \in Sends /\ send.pc = "calling" /\ send.at = dispatcher[k].at
        /\ send.gen = dispatcher[k].gen /\ send.actorGen = dispatcher[k].actorGen
    BY <2>2 DEF Sends
  <2> HIDE DEF send
  <2>4. dispatcher'[k] = send
    BY <2>1 DEF PushInv, SendsTyped
  <2>5. OwnersStay(k)'
    BY <1>1, <1>6, <2>3, <2>4 DEF OwnersStay, ActiveIn
  <2>6. /\ delivery[send.at].status = "leased" /\ delivery[send.at].lease = k
        /\ delivery[send.at].age = Useful /\ note[send.at[1]].state = "active"
    BY <1>6, <2>3 DEF OwnsClaim, Leases, StillWanted
  <2>7. CallInv(k)' /\ AnswerInv(k)'
    BY <1>1, <1>6, <2>3, <2>4, <2>5, <2>6 DEF CallInv, AnswerInv
  <2>8. \A l \in Dispatchers \ {k} : ~(dispatcher[l].pc = "calling" /\ dispatcher[l].at = send.at)
    BY <2>6 DEF PushInv, CallInv
  <2> QED
    BY <1>1, <1>2, <1>6, <2>1, <2>2, <2>3, <2>7, <2>8, LeftTypes, SendStep
<1> QED
  BY <1>3, <1>4, <1>5, <1>6 DEF Enter

\* The provider answers, or nobody does.
LEMMA AnswersKeep ==
    ASSUME PushInv, UNCHANGED life, NEW k \in Dispatchers, Answer(k) \/ CallFails(k)
    PROVE  PushInv'
<1>1. PICK answer \in {"success", "invalid", "retryable", "permanent"} :
         Answers(k, answer) /\ (answer = "invalid" => dispatcher[k].token \in dead)
  BY DEF Answer, CallFails
<1> DEFINE send == [dispatcher[k] EXCEPT !.pc = "answered", !.answer = answer]
<1>2. /\ dispatcher[k].pc = "calling" /\ dispatcher' = [dispatcher EXCEPT ![k] = send]
      /\ UNCHANGED <<note, delivery, route, jobs, taste, actor, dead>>
  BY <1>1 DEF Answers
<1>3. DevicesTyped'
  BY <1>2 DEF PushInv, DevicesTyped
<1>4. dispatcher[k] \in Sends /\ dispatcher[k].at \in Deliveries
  BY <1>2 DEF PushInv, SendsTyped
<1>5. /\ send \in Sends /\ send.pc = "answered" /\ send.at = dispatcher[k].at
      /\ send.answer = answer /\ send.token = dispatcher[k].token
  BY <1>4 DEF Sends
<1> HIDE DEF send
<1>6. dispatcher'[k] = send
  BY <1>2 DEF PushInv, SendsTyped
<1>7. CallInv(k)' /\ AnswerInv(k)'
  BY <1>1, <1>2, <1>5, <1>6 DEF CallInv, AnswerInv
<1> QED
  BY <1>2, <1>3, <1>4, <1>5, <1>7, LeftTypes, SendStep

\* A dead token silences its device and ends the deliveries to it.
LEMMA InvalidateTypes ==
    ASSUME PushInv, NEW k \in Dispatchers, dispatcher[k].pc # "idle", OwnsClaim(k), Invalidate(k)
    PROVE  /\ route' \in [Devices -> RouteRows]
           /\ DeliveriesOK(delivery') /\ \A at \in Deliveries : Handled(k, at)
<1> DEFINE mine == dispatcher[k].at
           row == [NoDelivery EXCEPT !.status = "permanent_failure"]
           some == To({mine[2]})
<1>1. mine \in Deliveries /\ mine[2] \in Devices
  BY DEF PushInv, SendsTyped, Deliveries
<1>2. delivery[mine].status = "leased" /\ delivery[mine].lease = k
  BY DEF OwnsClaim, Leases
<1>3. route' = Silenced({mine[2]}) /\ delivery' = [Called(some) EXCEPT ![mine] = row]
  BY DEF Invalidate
<1>4. RowOK(row)
  BY DEF RowOK, DeliveryRows, NoDelivery
<1>5. some \in SUBSET Deliveries /\ {mine[2]} \in SUBSET Devices
  BY <1>1 DEF To
<1> HIDE DEF mine, row, some
<1>6. route' \in [Devices -> RouteRows]
  BY <1>3, <1>5, SilencedTypes DEF PushInv, DevicesTyped
<1>7. /\ DeliveriesOK(Called(some))
      /\ \A at \in Deliveries :
            \/ Called(some)[at] = delivery[at]
            \/ /\ delivery[at].status \in Outstanding
               /\ Called(some)[at].status = "cancelled"
  BY <1>5, CalledTypes DEF PushInv, EventsTyped
<1>8. DeliveriesOK(delivery') /\ \A at \in Deliveries \ {mine} : delivery'[at] = Called(some)[at]
  BY <1>1, <1>3, <1>4, <1>7 DEF DeliveriesOK, RowOK
<1>9. \A at \in Deliveries : Handled(k, at)
  BY <1>2, <1>7, <1>8 DEF Handled
<1> QED
  BY <1>6, <1>8, <1>9

LEMMA FinishKeeps ==
    ASSUME PushInv, UNCHANGED life, NEW k \in Dispatchers, FinishSend(k)
    PROVE  PushInv'
<1>1. /\ dispatcher[k].pc = "answered" /\ StopSending(k)
      /\ UNCHANGED <<note, jobs, taste, actor, dead>>
  BY DEF FinishSend
<1>2. route' \in [Devices -> RouteRows] => DevicesTyped'
  BY <1>1 DEF PushInv, DevicesTyped
<1>3. CASE UNCHANGED <<delivery, route>>
  <2>1. DevicesTyped'
    BY <1>2, <1>3 DEF PushInv, DevicesTyped
  <2> QED
    BY <1>1, <1>3, <2>1, LeftTypes, StopStep
<1>4. ASSUME OwnsClaim(k), Invalidate(k)
      PROVE  PushInv'
  BY <1>1, <1>2, <1>4, InvalidateTypes, StopStep
<1>5. ASSUME OwnsClaim(k), UNCHANGED route,
             NEW status \in {"pending", "succeeded", "permanent_failure", "expired", "cancelled"},
             Settle(k, status)
      PROVE  PushInv'
  <2>1. DevicesTyped'
    BY <1>2, <1>5 DEF PushInv, DevicesTyped
  <2> QED
    BY <1>1, <1>5, <2>1, SettledTypes, StopStep DEF OwnsClaim
<1> QED
  BY <1>3, <1>4, <1>5 DEF FinishSend, AfterRetryable

LEMMA SendsKeep ==
    ASSUME PushInv, PostTypes, UNCHANGED life, NEW k \in Dispatchers,
           DispatcherStep(k) \/ CallFails(k) \/ DispatcherFails(k)
    PROVE  PushInv'
<1>1. CASE DispatcherFails(k)
  <2>1. StopSending(k) /\ UNCHANGED <<note, delivery, route, jobs, taste, actor, dead>>
    BY <1>1 DEF DispatcherFails
  <2>2. DevicesTyped'
    BY <2>1 DEF PushInv, DevicesTyped
  <2> QED
    BY <2>1, <2>2, LeftTypes, StopStep
<1> QED
  BY <1>1, ClaimKeeps, LookKeeps, EnterKeeps, AnswersKeep, FinishKeeps DEF DispatcherStep

----------------------------------------------------------------------------
(* Every step.                                                             *)

LEMMA PushNextKeeps ==
    ASSUME PushInv, PostTypes, DeletionInv, PushNext
    PROVE  PushInv'
<1>1. CASE LowerStep
  BY <1>1, LowerKeeps
<1>2. CASE UNCHANGED life
  <2>1. ASSUME NEW at \in Deliveries,
               DeliveryLapses(at) \/ DeliveryOutlived(at) \/ Recover(at)
        PROVE  PushInv'
    BY <1>2, <2>1, LeaseKeeps DEF DeliveryLapses, DeliveryOutlived
  <2> QED
    BY <1>1, <1>2, <2>1, EventsKeep, PeopleKeep, DevicesKeep, SendsKeep DEF PushNext
<1> QED
  BY <1>1, <1>2, PushHosts DEF Below

LEMMA PushStepInv ==
    ASSUME PushInv, PostTypes, DeletionInv, [PushNext]_everyVar
    PROVE  PushInv'
<1>1. CASE PushNext
  BY <1>1, PushNextKeeps
<1>2. CASE UNCHANGED everyVar
  <2>1. UNCHANGED <<life, pushVars>>
    BY <1>2 DEF everyVar, allVars, scheduleVars
  <2>2. /\ UNCHANGED <<life, note, delivery, actor, dead, dispatcher>> /\ DevicesTyped'
        /\ note \in [Notes -> NoteRows]
    BY <2>1 DEF pushVars, PushInv, DevicesTyped, EventsTyped
  <2> QED
    BY <2>2, CalmStep
<1> QED
  BY <1>1, <1>2

\* What holds below holds here.
LEMMA BelowHolds == PushSpec => [](PostTypes /\ DeletionInv)
<1>1. HostedInv => PostTypes
  BY DEF HostedInv
<1> QED
  BY <1>1, DeletionIsHostedByPush, ScheduleIsHostedByDeletion, HostedInvariance,
     DeletionInvariance, PTL

LEMMA PushInvariance == PushSpec => []PushInv
<1>1. PushInit => PushInv
  BY PushInitInv
<1>2. PushInv /\ PostTypes /\ DeletionInv /\ [PushNext]_everyVar => PushInv'
  BY PushStepInv
<1> QED
  BY <1>1, <1>2, BelowHolds, PTL DEF PushSpec

\* Every variable keeps its shape, what is leased has a holder, and an event
\* that is not committed has no deliveries.
THEOREM PushTypes == PushSpec => []PushTypeOK
  BY InvTypes, PushInvariance, PTL

\* One delivery has one call at a time.
THEOREM SendersAreSingle == PushSpec => []OneSender
<1>1. PushInv => OneSender
  BY DEF PushInv
<1> QED
  BY <1>1, PushInvariance, PTL

\* While the provider is called the owners stay, and so does the post.
THEOREM CallsAreWanted == PushSpec => []SendsAreWanted
  BY InvWanted, PushInvariance, PTL

----------------------------------------------------------------------------
(* The budget.                                                             *)

\* A step takes nothing of the budget, or one of three numbers.
Spent ==
    \/ budget' = budget \/ Fault \/ MayMove
    \/ budget.uploads > 0 /\ budget' = [budget EXCEPT !.uploads = budget.uploads - 1]

LEMMA MediaSpends ==
    ASSUME MediaNext
    PROVE  Spent
<1>1. ASSUME NEW u \in Uploaders,
             \/ \E m \in Media : Reserve(u, m)
             \/ Dispatch(u) \/ PutSucceeds(u) \/ PutFails(u) \/ MarkReady(u)
             \/ MoveToCleanup(u) \/ UploadCrashes(u)
      PROVE  Spent
  BY <1>1 DEF Spent, Reserve, Dispatch, PutSucceeds, PutFails, MarkReady, MoveToCleanup,
              UploadCrashes
<1>2. ASSUME NEW m \in Media,
             DeleteImage(m) \/ LandLate(m) \/ LoseLate(m) \/ Tick(m) \/ LeaseEnds(m)
      PROVE  Spent
  BY <1>2 DEF Spent, DeleteImage, LandLate, LoseLate, Tick, LeaseEnds
<1>3. ASSUME NEW c \in Cleaners,
             CleanerStep(c) \/ AcquireCleanup(c) \/ DeleteFails(c) \/ CleanerCrashes(c)
      PROVE  Spent
  BY <1>3 DEF Spent, CleanerStep, ClaimCleanup, DeleteObject, LookAgain, Conclude,
              AcquireCleanup, DeleteFails, CleanerCrashes
<1> QED
  BY <1>1, <1>2, <1>3 DEF MediaNext

LEMMA ScheduleSpends ==
    ASSUME Next
    PROVE  Spent
<1>1. CASE MediaStep
  BY <1>1, MediaSpends DEF MediaStep
<1>2. ASSUME NEW p \in Posts, NEW images \in SUBSET Media,
             \/ Create(p, images) \/ Update(p, images)
             \/ \E w \in Workers : PostNow(w, p, images)
      PROVE  Spent
  BY <1>2 DEF Spent, Create, Update, PostNow
<1>3. ASSUME NEW p \in Posts, Delete(p) \/ LeaseLapses(p) \/ Age(p)
      PROVE  Spent
  BY <1>3 DEF Spent, Delete, LeaseLapses, Age
<1>4. ASSUME NEW w \in Workers,
             \/ ClaimDue(w) \/ NoAnswer(w) \/ UploadFails(w) \/ Crash(w) \/ OutlivesLease(w)
             \/ \E permanent \in BOOLEAN :
                   PreparationFails(w, permanent) \/ Refused(w, permanent)
      PROVE  Spent
  BY <1>4 DEF Spent, ClaimDue, NoAnswer, UploadFails, Crash, OutlivesLease, PreparationFails,
              Refused
<1>5. ASSUME NEW w \in Workers, WorkerStep(w)
      PROVE  Spent
  BY <1>5 DEF Spent, WorkerStep, Snapshot, Freeze, Acquire, Upload, Write, Answered, GiveUp,
              Finalize
<1>6. CASE \/ \E write \in wire : Land(write) \/ Lose(write)
           \/ \E c \in Cleaners : Sweep(c)
           \/ \E to \in States : Move(to)
  BY <1>6 DEF Spent, Land, Lose, Sweep, Move
<1> QED
  BY <1>1, <1>2, <1>3, <1>4, <1>5, <1>6 DEF Next

LEMMA DeletionSpends ==
    ASSUME DeletionNext
    PROVE  Spent
<1>1. CASE ScheduleStep
  BY <1>1, ScheduleSpends DEF ScheduleStep
<1>2. CASE \/ CreateIntent \/ StartOAuth \/ Reauthenticate \/ ReauthenticationFails
           \/ IntentLapses \/ ProfileDeparts \/ Accept \/ LogoutAll \/ CredentialExpires
           \/ \E to \in Targets : CancelIntent(to) \/ StartFails(to) \/ ExpireIntent(to)
           \/ DeletionLeaseEnds
  BY <1>2 DEF Spent, CreateIntent, StartOAuth, Reauthenticate, ReauthenticationFails,
              IntentLapses, ProfileDeparts, Accept, LogoutAll, CredentialExpires,
              CancelIntent, StartFails, ExpireIntent, DeletionLeaseEnds, scheduleVars
<1>3. ASSUME NEW d \in Deleters,
             \/ DeleterStep(d) \/ FencedStep(d) \/ DeletionRefused(d)
             \/ DeletionFails(d) \/ DeleterCrashes(d)
      PROVE  Spent
  BY <1>3 DEF Spent, DeleterStep, ClaimDeletion, AdoptAttempts, PurgePrivate, DeleteRecords,
              CheckSafety, FencedStep, PurgeAccepted, CompleteAccepted, DeletionRefused,
              DeletionFails, DeleterCrashes, scheduleVars
<1> QED
  BY <1>1, <1>2, <1>3 DEF DeletionNext

LEMMA PushSpends ==
    ASSUME PushNext
    PROVE  Spent
<1>1. CASE LowerStep
  BY <1>1, DeletionSpends DEF LowerStep
<1>2. CASE UNCHANGED allVars
  BY <1>2 DEF allVars, scheduleVars, Spent
<1>3. CASE \E n \in Notes :
              \/ Consider(n) \/ Commit(n) \/ Undo(n) \/ Withdraw(n) \/ Reactivate(n)
              \/ TimePasses(n)
  BY <1>2, <1>3 DEF Consider, Commit, Undo, Withdraw, Retracted, Reactivate, TimePasses, Act, Spent
<1>4. CASE Mute \/ Unmute \/ Prefer \/ ActorMoves \/ ForgetActor
  BY <1>2, <1>4 DEF Mute, Unmute, Prefer, ActorMoves, ForgetActor, Act, Spent
<1>5. CASE \/ \E d \in Devices :
                 \/ Remove(d) \/ LogoutOne(d) \/ Cleanup(d)
                 \/ \E t \in Tokens : Register(d, t)
           \/ \E t \in Tokens : TokenDies(t)
  BY <1>2, <1>5 DEF Remove, LogoutOne, Cleanup, Register, TokenDies, Act, GoesWrong, Spent
<1>6. CASE \E k \in Dispatchers : DispatcherStep(k) \/ CallFails(k) \/ DispatcherFails(k)
  BY <1>2, <1>6 DEF DispatcherStep, ClaimDelivery, Look, Enter, Answer, FinishSend, CallFails,
                    DispatcherFails, GoesWrong, Spent
<1>7. CASE \E at \in Deliveries : DeliveryLapses(at) \/ DeliveryOutlived(at) \/ Recover(at)
  BY <1>2, <1>7 DEF DeliveryLapses, DeliveryOutlived, Recover, GoesWrong, Spent
<1> QED
  BY <1>1, <1>3, <1>4, <1>5, <1>6, <1>7 DEF PushNext

BudgetOK ==
    budget \in [uploads : Nat, faults : Nat, moves : Nat, present : {budget.present}]

LEMMA SpentKeepsBudget ==
    ASSUME BudgetOK, Spent
    PROVE  BudgetOK' /\ (MayMove => budget'.moves < budget.moves)
<1>1. /\ budget.uploads \in Nat /\ budget.faults \in Nat /\ budget.moves \in Nat
      /\ budget = [uploads |-> budget.uploads, faults |-> budget.faults, moves |-> budget.moves,
                   present |-> budget.present]
  BY DEF BudgetOK
<1>2. CASE budget' = budget
  <2>1. ~MayMove
    BY <1>1, <1>2 DEF MayMove
  <2> QED
    BY <1>2, <2>1 DEF BudgetOK
<1>3. CASE Fault
  <2>1. BudgetOK' /\ budget'.moves = budget.moves
    BY <1>1, <1>3 DEF Fault, BudgetOK
  <2>2. ~MayMove
    BY <1>1, <2>1 DEF MayMove
  <2> QED
    BY <2>1, <2>2
<1>4. CASE MayMove
  BY <1>1, <1>4 DEF MayMove, BudgetOK
<1>5. CASE budget.uploads > 0 /\ budget' = [budget EXCEPT !.uploads = budget.uploads - 1]
  <2>1. BudgetOK' /\ budget'.moves = budget.moves
    BY <1>1, <1>5 DEF BudgetOK
  <2>2. ~MayMove
    BY <1>1, <2>1 DEF MayMove
  <2> QED
    BY <2>1, <2>2
<1> QED
  BY <1>2, <1>3, <1>4, <1>5 DEF Spent

LEMMA BudgetHolds == PushSpec => []BudgetOK
<1>1. PushInit => BudgetOK
  BY ScenarioBounds DEF PushInit, DeletionInit, Init, BudgetOK
<1>2. BudgetOK /\ [PushNext]_everyVar => BudgetOK'
  <2> SUFFICES ASSUME BudgetOK, [PushNext]_everyVar
               PROVE  BudgetOK'
    OBVIOUS
  <2>1. CASE PushNext
    BY <2>1, PushSpends, SpentKeepsBudget
  <2>2. CASE UNCHANGED everyVar
    BY <2>2 DEF everyVar, allVars, scheduleVars, BudgetOK
  <2> QED
    BY <2>1, <2>2
<1> QED
  BY <1>1, <1>2, PTL DEF PushSpec

----------------------------------------------------------------------------
(* Registrations.                                                          *)

\* What may end a registration.
Cut(d) ==
    \/ budget'.moves < budget.moves
    \/ life.state = "deleting"
    \/ d \in jobs \ jobs' /\ route[d].old
    \/ route[d].token \in dead

LEMMA RoutesAreCut ==
    ASSUME PushInv, DeletionInv, BudgetOK, PushNext, NEW d \in Devices, Routed(d), ~Routed(d)'
    PROVE  Cut(d)
<1>0. route \in [Devices -> RouteRows]
  BY DEF PushInv, DevicesTyped
<1>1. \/ route'[d].subscribed # route[d].subscribed
      \/ route'[d].installed # route[d].installed
  BY DEF Routed
<1>2. CASE MayMove
  BY <1>2, PushSpends, SpentKeepsBudget DEF Cut
<1>3. CASE LowerStep
  <2>1. CASE Purging
    BY <1>3, <2>1, PurgeIsOfDeletion DEF LowerStep, Cut
  <2>2. CASE ~Purging
    <3>1. Subscribed \in SUBSET Devices
      BY DEF Subscribed
    <3>2. route' = route \/ route' = Aged(Subscribed)
      BY <1>3, <2>2 DEF LowerStep
    <3> QED
      BY <1>0, <1>1, <3>1, <3>2, AgedTypes
  <2> QED
    BY <2>1, <2>2
<1>4. CASE route' = route
  BY <1>1, <1>4
<1>5. ASSUME NEW e \in Devices,
             Remove(e) \/ LogoutOne(e) \/ \E t \in Tokens : Register(e, t)
      PROVE  MayMove
  BY <1>5 DEF Remove, LogoutOne, Register, Act
<1>6. ASSUME NEW e \in Devices, Cleanup(e)
      PROVE  Cut(d)
  <2>1. CASE CutOff(e)
    <3>1. route' = [route EXCEPT ![e].subscribed = FALSE] /\ e \in jobs /\ jobs' = jobs \ {e}
      BY <1>6, <2>1 DEF Cleanup, Unsubscribed
    <3>2. d = e
      BY <1>0, <1>1, <3>1
    <3> QED
      BY <2>1, <3>1, <3>2 DEF CutOff, Cut
  <2> QED
    BY <1>4, <1>6, <2>1 DEF Cleanup
<1>7. ASSUME NEW k \in Dispatchers, FinishSend(k)
      PROVE  Cut(d)
  <2>1. CASE OwnsClaim(k) /\ dispatcher[k].answer = "invalid" /\ Invalidate(k)
    <3>1. dispatcher[k].pc = "answered" /\ dispatcher[k].at \in Deliveries
      BY <1>7 DEF FinishSend, PushInv, SendsTyped
    <3>2. {dispatcher[k].at[2]} \in SUBSET Devices
      BY <3>1 DEF Deliveries
    <3>3. route' = Silenced({dispatcher[k].at[2]})
      BY <2>1 DEF Invalidate
    <3>4. d = dispatcher[k].at[2]
      BY <1>0, <1>1, <3>2, <3>3, SilencedTypes
    <3>5. dispatcher[k].token \in dead
      BY <2>1, <3>1 DEF PushInv, AnswerInv
    <3> QED
      BY <2>1, <3>4, <3>5 DEF OwnsClaim, Cut
  <2> QED
    BY <1>4, <1>7, <2>1 DEF FinishSend
<1>8. ASSUME NEW k \in Dispatchers,
             \/ \E at \in Deliveries : ClaimDelivery(k, at)
             \/ Look(k) \/ Enter(k) \/ Answer(k) \/ CallFails(k) \/ DispatcherFails(k)
      PROVE  route' = route
  BY <1>8 DEF ClaimDelivery, Look, Enter, Answer, CallFails, Answers, DispatcherFails
<1>9. ASSUME \/ \E n \in Notes :
                   \/ Consider(n) \/ Commit(n) \/ Undo(n) \/ Withdraw(n) \/ Reactivate(n)
                   \/ TimePasses(n)
             \/ Mute \/ Unmute \/ Prefer \/ ActorMoves \/ ForgetActor
             \/ \E t \in Tokens : TokenDies(t)
             \/ \E at \in Deliveries : DeliveryLapses(at) \/ DeliveryOutlived(at) \/ Recover(at)
      PROVE  route' = route
  BY <1>9 DEF Consider, Commit, Undo, Withdraw, Retracted, Reactivate, TimePasses, Mute, Unmute,
              Prefer, ActorMoves, ForgetActor, TokenDies, DeliveryLapses, DeliveryOutlived, Ages,
              Recover
<1> QED
  BY <1>2, <1>3, <1>4, <1>5, <1>6, <1>7, <1>8, <1>9 DEF PushNext, DispatcherStep

\* A registration ends only by what the member does, by a deletion, by the job
\* of a logout that came later, or with its token.
THEOREM RegistrationsLast == PushSpec => RegistrationsHold
<1> DEFINE Held == \A d \in Devices : Routed(d) /\ ~Routed(d)' => Cut(d)
<1>1. PushInv /\ DeletionInv /\ BudgetOK /\ [PushNext]_everyVar => [Held]_everyVar
  BY RoutesAreCut
<1>2. PushSpec => [][Held]_everyVar
  BY <1>1, PushInvariance, BelowHolds, BudgetHolds, PTL DEF PushSpec
<1>3. [Held]_everyVar =>
         [\A d \in Devices :
            Routed(d) /\ ~Routed(d)' =>
              \/ budget'.moves < budget.moves
              \/ life.state = "deleting"
              \/ d \in jobs \ jobs' /\ route[d].old
              \/ route[d].token \in dead]_everyVar
  BY DEF Cut
<1> QED
  BY <1>2, <1>3, PTL DEF RegistrationsHold

----------------------------------------------------------------------------
(* What the parts promise, of the whole.                                   *)

\* The schedule keeps its shape.
THEOREM WholeScheduleTypes == PushSpec => []TypeOK
  BY DeletionIsHostedByPush, ScheduleIsHostedByDeletion, ScheduleTypes, PTL

\* No version of a post has two records.
THEOREM WholeRecordsAreSingle == PushSpec => []OncePerVersion
  BY DeletionIsHostedByPush, ScheduleIsHostedByDeletion, RecordsAreSingle, PTL

\* A tombstone names a record that was written.
THEOREM WholeTombstonesHold == PushSpec => []TombstonesAreTrue
  BY DeletionIsHostedByPush, ScheduleIsHostedByDeletion, TombstonesHold, PTL

\* An image that is ready is in the object store.
THEOREM WholeImagesAreStored == PushSpec => []ReadyIsStored
  BY DeletionIsHostedByPush, ScheduleIsHostedByDeletion, ImagesAreStored, PTL

\* What was replaced, deleted or left behind is not sent.
THEOREM WholeStaleIsNotPublished == PushSpec => StaleNeverPublishes
  BY DeletionIsHostedByPush, ScheduleIsHostedByDeletion, StaleIsNotPublished, PTL

\* The deletion keeps its shape.
THEOREM WholeDeletionTypes == PushSpec => []DeletionTypeOK
  BY DeletionIsHostedByPush, DeletionTypes, PTL

\* An accepted deletion has a credential.
THEOREM WholeCredentialsLast == PushSpec => []AcceptedHasCredential
  BY DeletionIsHostedByPush, CredentialsLast, PTL

\* Only records are deleted that an accepted deletion is about.
THEOREM WholeDeletionsAreByRight == PushSpec => OnlyAcceptedDeletes
  BY DeletionIsHostedByPush, DeletionsAreByRight, PTL

\* No image without a job can be in the object store.
THEOREM WholeImagesAreKnown == PushSpec => []NothingForgotten
  BY DeletionIsHostedByPush, ScheduleIsHostedByDeletion, NoImageIsForgotten, PTL

\* A deletion that completes leaves nothing of the account.
THEOREM WholeDeletionsLeaveNothing == PushSpec => NothingIsLeft
  BY DeletionIsHostedByPush, DeletionsLeaveNothing, PTL

=============================================================================
