--------------------------- MODULE CommandPromise ---------------------------
(***************************************************************************)
(* What the command plane promises of an operation key, without repository *)
(* heads, dispatches, fences or retries: a key is opened once, gets one    *)
(* verdict that never changes, is spent for good when its payload is       *)
(* compacted, and takes no effect on the repository once it is accepted,   *)
(* unless two requests with the key were served at the same time.          *)
(***************************************************************************)
EXTENDS Naturals

CONSTANT Keys

VARIABLES
    verdict,    \* per key: "none", "open", "accepted", "rejected" or "spent"
    contested,  \* the keys that two requests asked for at once
    effects     \* per key, how many times its writes took effect

vars == <<verdict, contested, effects>>

Init ==
    /\ verdict = [k \in Keys |-> "none"]
    /\ contested = {}
    /\ effects = [k \in Keys |-> 0]

Open(k) ==
    /\ verdict[k] = "none"
    /\ verdict' = [verdict EXCEPT ![k] = "open"]
    /\ UNCHANGED <<contested, effects>>

Contest(k) ==
    /\ verdict[k] = "open"
    /\ contested' = contested \cup {k}
    /\ UNCHANGED <<verdict, effects>>

Decide(k, v) ==
    /\ verdict[k] = "open"
    /\ verdict' = [verdict EXCEPT ![k] = v]
    /\ UNCHANGED <<contested, effects>>

\* A rejected key may still take effect: an owner who left is refused while an
\* earlier request is on its way, and a refusal recalls nothing.
Effect(k) ==
    /\ \/ verdict[k] \in {"open", "rejected"}
       \/ verdict[k] = "accepted" /\ k \in contested
    /\ effects' = [effects EXCEPT ![k] = @ + 1]
    /\ UNCHANGED <<verdict, contested>>

Spend(k) ==
    /\ verdict[k] \in {"accepted", "rejected"}
    /\ verdict' = [verdict EXCEPT ![k] = "spent"]
    /\ UNCHANGED <<contested, effects>>

Next ==
    \E k \in Keys :
        \/ Open(k) \/ Contest(k) \/ Effect(k) \/ Spend(k)
        \/ \E v \in {"accepted", "rejected"} : Decide(k, v)

Spec == Init /\ [][Next]_vars
=============================================================================
