----------------------------- MODULE AtprotoRepo -----------------------------
(***************************************************************************)
(* What lies outside the AppView: the owner's repository on its PDS and    *)
(* the Tap sidecar that delivers its commits.  Neither is code of this     *)
(* repository; both are modelled from how the AppView uses them            *)
(* (tap/consumer.go, tap/events.go, ingestion/repository_snapshot.go) and  *)
(* from the contract written down in                                       *)
(* docs/changes/2026-09-17-unified-pds-record-mutations/01-requirements.md *)
(* line 9: delivery is at least once, live events are ordered barriers     *)
(* within one repository, and historical events may arrive in any order.   *)
(*                                                                         *)
(* A revision is the number of a commit.  The body of a record (its CID    *)
(* and its bytes) is the revision that wrote it, and 0 stands for no       *)
(* record.  A commit names the record it touched and, like the data root   *)
(* of an atproto commit, all records there are after it.                   *)
(***************************************************************************)
EXTENDS Naturals, Sequences

CONSTANTS
    Uris,       \* the records of the owner that the model follows
    MaxRev,     \* bound: commits to the repository
    MaxResyncs  \* bound: times Tap reads the whole repository again

ASSUME RepoBounds == MaxRev \in Nat /\ MaxResyncs \in Nat

VARIABLES
    repo,     \* the commits
    cursor,   \* the last live commit Tap has done with
    resync,   \* historical deliveries Tap still owes, as <<uri, revision>>
    resyncs,  \* how many resyncs there were
    acked     \* per record, the highest revision Tap holds an ACK for

repoVars == <<repo, cursor, resync, resyncs, acked>>

Latest == Len(repo)

\* The body of u in the repository at revision n, 0 when it is not there.
BodyAt(u, n) == IF n = 0 THEN 0 ELSE repo[n].records[u]

EventIds == [via : {"live", "resync", "repair"}, rev : 0..MaxRev]
Actions == {"create", "update", "delete"}
Events == [uri : Uris, id : EventIds, rev : 0..MaxRev, act : Actions,
           body : 0..MaxRev]

LiveEvent(r) ==
    LET u == repo[r].uri IN
    [uri  |-> u, id |-> [via |-> "live", rev |-> r], rev |-> r,
     act  |-> IF BodyAt(u, r) = 0 THEN "delete"
              ELSE IF BodyAt(u, r - 1) = 0 THEN "create" ELSE "update",
     body |-> BodyAt(u, r)]

\* A record found in the whole repository at revision n, as Tap reports it
\* (via "resync") and as repository repair reports it (via "repair").
FoundEvent(via, u, n) ==
    [uri |-> u, id |-> [via |-> via, rev |-> n], rev |-> n,
     act |-> "create", body |-> BodyAt(u, n)]

\* The events Tap may send now: what a resync owes, in any order, and behind
\* that barrier the next live commit.
Deliverable ==
    {FoundEvent("resync", d[1], d[2]) : d \in resync}
    \cup (IF resync = {} /\ cursor < Latest THEN {LiveEvent(cursor + 1)} ELSE {})

RepoInit ==
    /\ repo = <<>>
    /\ cursor = 0
    /\ resync = {}
    /\ resyncs = 0
    /\ acked = [u \in Uris |-> 0]

\* Any client of the owner writes or deletes a record.
Commit(u, writes) ==
    /\ Latest < MaxRev
    /\ writes \/ BodyAt(u, Latest) # 0
    /\ LET body == IF writes THEN Latest + 1 ELSE 0
       IN repo' = Append(repo, [uri |-> u,
                                records |-> [v \in Uris |-> IF v = u THEN body
                                                            ELSE BodyAt(v, Latest)]])
    /\ UNCHANGED <<cursor, resync, resyncs, acked>>

\* Tap reads the repository at its head: every record it finds is owed again
\* as a create, earlier live commits are superseded, and no delete is sent.
Resync ==
    /\ resyncs < MaxResyncs
    /\ Latest > 0
    /\ resyncs' = resyncs + 1
    /\ resync' = {<<u, Latest>> : u \in {v \in Uris : BodyAt(v, Latest) # 0}}
    /\ cursor' = Latest
    /\ UNCHANGED <<repo, acked>>

\* Tap takes an ACK.
TakeAck(ev) ==
    /\ acked' = [acked EXCEPT ![ev.uri] = IF @ < ev.rev THEN ev.rev ELSE @]
    /\ cursor' = IF ev.id = [via |-> "live", rev |-> cursor + 1]
                 THEN cursor + 1 ELSE cursor
    /\ resync' = IF ev.id.via = "resync" THEN resync \ {<<ev.uri, ev.rev>>}
                 ELSE resync
    /\ UNCHANGED <<repo, resyncs>>

Commits == [uri : Uris, records : [Uris -> 0..MaxRev]]

RepoTypeOK ==
    /\ repo \in Seq(Commits) /\ Latest <= MaxRev
    /\ cursor \in 0..MaxRev
    /\ resync \subseteq Uris \X (0..MaxRev)
    /\ resyncs \in 0..MaxResyncs
    /\ acked \in [Uris -> 0..MaxRev]
=============================================================================
