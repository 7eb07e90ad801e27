--------------------------- MODULE RecordIngestion ---------------------------
(***************************************************************************)
(* Service.IngestRecord (appview/internal/ingestion/service.go) and the    *)
(* Tap consumer that calls it (appview/internal/tap/consumer.go).          *)
(*                                                                         *)
(* A call first makes sure the owner has a lifecycle row, under the        *)
(* exclusive owner fence (phase "ensured"), then runs one transaction:     *)
(*   - a profile event that asks for a lifecycle transition runs it under  *)
(*     the exclusive fence with the generation it has seen;                *)
(*   - everything else runs under the shared fence.  Recognising a stale,  *)
(*     duplicate or conflicting version is one step; installing a newer    *)
(*     one is two, because the row to lock may not exist yet and because   *)
(*     membership is read before the job is written (phase "open").        *)
(* Repository repair makes the same call, see RepositoryRepair.            *)
(***************************************************************************)
EXTENDS TapStore

IngPhases == {"idle", "ensured", "recheck", "open", "answered"}
NoEvent == [uri |-> Owner, id |-> NoId, rev |-> 0, act |-> "none", body |-> 0]
NoIng == [phase |-> "idle", ev |-> NoEvent, seen |-> NoLife,
          locked |-> FALSE, member |-> FALSE, out |-> "none"]

IngInit == ing = [i \in Ingestors |-> NoIng]

Answer(i, out) ==
    ing' = [ing EXCEPT ![i] = [NoIng EXCEPT !.phase = "answered", !.ev = ing[i].ev,
                                            !.out = out]]

\* EnsureOnboardingOwner: the first contact with an owner creates it departed.
EnsuredLife == IF life = NoLife THEN [state |-> "departed", gen |-> 1] ELSE life

\* A call starts: the exclusive fence waits for the open transactions.
BeginIngest(i, ev) ==
    /\ ing[i].phase = "idle"
    /\ ~SharedFence
    /\ life' = EnsuredLife
    /\ ing' = [ing EXCEPT ![i] = [NoIng EXCEPT !.phase = "ensured", !.ev = ev,
                                               !.seen = EnsuredLife]]

----------------------------------------------------------------------------
(* Which transaction the call runs.                                        *)

WantsTransition(i) ==
    LET ev == ing[i].ev IN
    /\ ing[i].phase = "ensured"
    /\ Profile(ev.uri)
    /\ ing[i].seen.state # "terminal"
    /\ ~IsMalformed(ev.act, ev.body)
    /\ ProfileTransition(ing[i].seen.state, ev.act) # ing[i].seen.state

\* A profile of a terminal owner is retained as denied, also when the owner
\* became terminal after it was first looked at.
IsDenied(ev) == Profile(ev.uri) /\ life.state = "terminal"

Decision(i) == SelectSourceVersion(src[ing[i].ev.uri], ing[i].ev)

\* The call is about to run its transaction under the shared fence.
InShared(i) ==
    /\ ing[i].phase \in {"ensured", "recheck"}
    /\ ~WantsTransition(i)
    /\ ~RowLocked(ing[i].ev.uri)
    /\ ing[i].ev.act = "delete" => ~PostFenced(ing[i].ev.uri)

\* What a newer version of a record other than the profile starts with.
RecordPlan(ev, member) ==
    IF life.state = "terminal" THEN Denied
    ELSE IF ev.act # "delete" /\ life.state # "active" THEN Departed
    ELSE IF ev.act # "delete" /\ ~member THEN Plan("pending", "blocked", OnMember)
    ELSE Eligible

IngestPlan(ev, member) ==
    IF ~Profile(ev.uri) THEN RecordPlan(ev, member)
    ELSE IF life.state = "terminal" THEN Denied ELSE Eligible

----------------------------------------------------------------------------

\* readCurrentJobOutcome: a duplicate is answered with the state of its job.
DuplicateOutcome(ev) == OutcomeOf(job[<<ev.uri, "serving">>].st)

\* ingestTerminalDeniedProfile: whatever was decided, the source and its jobs
\* end up denied and the event is acknowledged.
DenyProfile(u) ==
    /\ src' = [src EXCEPT ![u].disp = "denied_terminal", ![u].gen = life.gen]
    /\ job' = [k \in JobKeys |->
                 IF k[1] = u /\ JobExists(k)
                 THEN JobRow("permanent_denied", NoDep, job[k].id) ELSE job[k]]

\* A version the source already holds or has passed.
Recognise(i) ==
    LET ev == ing[i].ev IN
    /\ InShared(i)
    /\ Decision(i) \in {"stale", "duplicate"}
    /\ IF IsDenied(ev)
       THEN Answer(i, "applied") /\ DenyProfile(ev.uri)
       ELSE /\ Answer(i, IF Decision(i) = "stale" THEN "applied" ELSE DuplicateOutcome(ev))
            /\ UNCHANGED <<src, job>>
    /\ UNCHANGED <<life, rjob, served, alerts, quarantined, proj>>

\* The same revision with other content: the order is uncertain and the
\* repository decides, unless the conflict cannot be written down.
RecogniseConflict(i) ==
    LET ev == ing[i].ev IN
    /\ InShared(i)
    /\ Decision(i) = "conflict"
    /\ IF ~CanMarkConflict(ev.uri)
       THEN Answer(i, "retryable") /\ UNCHANGED <<src, job, rjob>>
       ELSE IF IsDenied(ev)
       THEN /\ Answer(i, "applied")
            /\ src' = [src EXCEPT ![ev.uri].ord = "uncertain",
                                  ![ev.uri].disp = "denied_terminal",
                                  ![ev.uri].gen = life.gen]
            /\ job' = [k \in JobKeys |->
                         IF k[1] = ev.uri /\ JobExists(k)
                         THEN JobRow("permanent_denied", NoDep, job[k].id) ELSE job[k]]
            /\ rjob' = WithRequest("pds_reconcile")
       ELSE Answer(i, "blocked") /\ MarkConflict(ev.uri)
    /\ UNCHANGED <<life, served, alerts, quarantined, proj>>

\* ingestProfileWithoutTransition with rejectWinner: the version lost inside
\* the transition and wins now, so the call fails and is tried again.
RejectWinner(i) ==
    /\ InShared(i)
    /\ ing[i].phase = "recheck"
    /\ Decision(i) = "newer"
    /\ ~IsDenied(ing[i].ev)
    /\ Answer(i, "retryable")
    /\ UNCHANGED <<storeVars, proj>>

\* A newer version: lock the row if there is one, read membership.
OpenInstall(i) ==
    LET ev == ing[i].ev IN
    /\ InShared(i)
    /\ Decision(i) = "newer"
    /\ ing[i].phase = "ensured" \/ IsDenied(ev)
    /\ ing' = [ing EXCEPT ![i].phase = "open", ![i].locked = Exists(ev.uri),
                          ![i].member = Member]
    /\ UNCHANGED <<storeVars, proj>>

\* Write the source, its jobs and the request to track the repository; an
\* upsert waits for a row that another transaction inserted and locked.
CommitInstall(i) ==
    LET ev == ing[i].ev
        plan == IngestPlan(ev, ing[i].member)
    IN
    /\ ing[i].phase = "open"
    /\ ing[i].locked \/ ~RowLocked(ev.uri)
    /\ InstallSource(ev.uri, SourceRow(ev, plan, life.gen), plan)
    /\ rjob' = IF Profile(ev.uri) /\ ev.act # "delete" /\ ~IsDenied(ev)
               THEN WithRequest("tap_add_repo") ELSE rjob
    /\ Answer(i, IF IsDenied(ev) THEN "applied" ELSE OutcomeOf(plan.st))
    /\ UNCHANGED <<life, served, alerts, quarantined, proj>>

\* The lifecycle transition of a winning profile event, under the exclusive
\* fence; a version that does not win rolls the transition back.
TransitionProfile(i) ==
    LET ev == ing[i].ev
        after == [state |-> ProfileTransition(life.state, ev.act), gen |-> life.gen + 1]
    IN
    /\ WantsTransition(i)
    /\ ~SharedFence
    /\ IF life.gen # ing[i].seen.gen
       THEN Answer(i, "retryable") /\ UNCHANGED storeVars
       ELSE IF Decision(i) # "newer"
       THEN ing' = [ing EXCEPT ![i].phase = "recheck"] /\ UNCHANGED storeVars
       ELSE /\ life' = after
            /\ InstallSource(ev.uri, SourceRow(ev, Eligible, after.gen), Eligible)
            /\ rjob' = IF ev.act # "delete" THEN WithRequest("tap_add_repo") ELSE rjob
            /\ Answer(i, "applied")
            /\ UNCHANGED <<served, alerts, quarantined>>
    /\ UNCHANGED proj

Ingest(i) ==
    /\ \/ Recognise(i) \/ RecogniseConflict(i) \/ RejectWinner(i)
       \/ OpenInstall(i) \/ CommitInstall(i) \/ TransitionProfile(i)
    /\ UNCHANGED <<repoVars, faults>>

----------------------------------------------------------------------------
(* The consumer.                                                           *)

\* Two wrong versions of it: everything is acknowledged, and what is blocked
\* is delivered again until it is not.
AcknowledgableAll == {"applied", "blocked", "permanent_invalid", "retryable"}
AcknowledgableSettled == {"applied", "permanent_invalid"}

Acknowledgable == {"applied", "blocked", "permanent_invalid"}

Deliver(ev) ==
    /\ BeginIngest(Consumer, ev)
    /\ UNCHANGED <<src, job, rjob, served, alerts, quarantined, proj, repoVars, faults>>

\* An acknowledgable answer is sent to Tap; anything else is left unanswered
\* and Tap delivers the event again.
Reply ==
    /\ ing[Consumer].phase = "answered"
    /\ ing' = [ing EXCEPT ![Consumer] = NoIng]
    /\ IF ing[Consumer].out \in Acknowledgable
       THEN TakeAck(ing[Consumer].ev) ELSE UNCHANGED repoVars
    /\ UNCHANGED <<storeVars, proj, faults>>

\* The connection drops, the ACK deadline passes or the process dies, at any
\* point of a call: an open transaction rolls back, a committed one stays,
\* and the ACK is not sent.
Disconnect ==
    /\ ing[Consumer].phase # "idle"
    /\ Fault
    /\ ing' = [ing EXCEPT ![Consumer] = NoIng]
    /\ UNCHANGED <<storeVars, proj, repoVars>>

Calls == [phase : IngPhases, ev : Events \cup {NoEvent}, seen : Lives,
          locked : BOOLEAN, member : BOOLEAN,
          out : {"applied", "blocked", "permanent_invalid", "retryable", "none"}]
IngTypeOK == ing \in [Ingestors -> Calls]
=============================================================================
