--------------------------- MODULE ServingPromise ----------------------------
(***************************************************************************)
(* What the pipeline promises to a reader, without events, jobs, leases,   *)
(* generations or locks.  The owner writes to the repository.  Of each     *)
(* record the AppView knows the repository as of some revision, and what   *)
(* it knows only gets newer.  It shows a record in the version it knows,   *)
(* and only of an active owner whose profile is shown.  It does not stop   *)
(* showing one that it knows to be there and to be well formed, but for a  *)
(* like, which goes with its subject; and no active owner's profile goes.  *)
(***************************************************************************)
EXTENDS Naturals, Sequences

CONSTANTS
    Uris,
    Profiles,  \* the records that make the owner a member
    Likes,     \* the records that go with their subject
    Malformed  \* bodies that are never shown

VARIABLES
    repo,   \* the commits, as in AtprotoRepo
    known,  \* per record, the revision as of which it is known
    shown,  \* per record, the body that readers see (0: none)
    active  \* whether the owner is active

vars == <<repo, known, shown, active>>

BodyAt(u, n) == IF n = 0 THEN 0 ELSE repo[n].records[u]
Known(u) == BodyAt(u, known[u])

Init ==
    /\ repo = <<>>
    /\ known = [u \in Uris |-> 0]
    /\ shown = [u \in Uris |-> 0]
    /\ active = FALSE

\* The owner writes (body = Len(repo) + 1) or deletes (0) a record.
Write(u, body) ==
    /\ repo' = Append(repo, [uri |-> u,
                             records |-> [v \in Uris |-> IF v = u THEN body
                                                         ELSE BodyAt(v, Len(repo))]])
    /\ UNCHANGED <<known, shown, active>>

\* An owner who is known to have no profile any more is not active.
Learn(u, n) ==
    /\ known[u] < n
    /\ known' = [known EXCEPT ![u] = n]
    /\ IF u \in Profiles THEN BodyAt(u, n) = 0 => active' = FALSE
                         ELSE active' = active
    /\ UNCHANGED <<repo, shown>>

\* Account deletion, its cancellation and termination.
Move ==
    /\ active' = ~active
    /\ UNCHANGED <<repo, known, shown>>

Show(u) ==
    /\ active
    /\ u \in Profiles \/ \E p \in Profiles : shown[p] # 0
    /\ Known(u) \notin Malformed \cup {0}
    /\ shown' = [shown EXCEPT ![u] = Known(u)]
    /\ UNCHANGED <<repo, known, active>>

Hide(u) ==
    /\ IF u \in Profiles THEN Known(u) = 0 /\ ~active
                         ELSE Known(u) \in Malformed \cup {0} \/ u \in Likes
    /\ shown' = [shown EXCEPT ![u] = 0]
    /\ UNCHANGED <<repo, known, active>>

Next ==
    \/ \E u \in Uris :
           \/ Write(u, Len(repo) + 1) \/ Write(u, 0)
           \/ \E n \in 1..Len(repo) : Learn(u, n)
           \/ Show(u) \/ Hide(u)
    \/ Move

Spec == Init /\ [][Next]_vars
=============================================================================
