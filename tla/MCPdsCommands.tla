--------------------------- MODULE MCPdsCommands ---------------------------
(* Instances of PdsCommands for TLC.                                       *)
EXTENDS PdsCommands

CONSTANTS k1, k2, u1, u2, c1, c2

Ask(kind, u) == [kind |-> kind, uri |-> u]
Keyed(a, b) == [k \in Keys |-> IF k = k1 THEN a ELSE b]

\* One device that repeats itself, or two.
Phone == [c \in Callers |-> "phone"]
PhoneAndTablet == [c \in Callers |-> IF c = c1 THEN "phone" ELSE "tablet"]

Scene(a, b, n, m, others, s, content) ==
    [intent |-> Keyed(a, b), requests |-> Keyed(n, m), others |-> others,
     session |-> s, rec |-> [u \in Uris |-> content]]

FirstContent(kind) ==
    IF kind \in {"append", "like", "unlike"} THEN "absent" ELSE "base"

\* Three requests with one key; one request in a busy repository; or two keys
\* that meet on one record, or in one collection.
MCScenarios ==
    { Scene(Ask(kind, u1), Ask(kind, u2), 3, 0, 1, s, FirstContent(kind)) :
        kind \in Kinds, s \in {Phone, PhoneAndTablet} }
    \cup
    { Scene(Ask(kind, u1), Ask(kind, u2), 1, 0, 3, Phone, FirstContent(kind)) :
        kind \in Kinds }
    \cup
    { Scene(Ask(p[1], u1), Ask(p[2], p[3]), 1, 1, 1, PhoneAndTablet,
            FirstContent(p[1])) :
        p \in { <<"append", "delete", u1>>, <<"edit", "edit", u1>>,
                <<"put", "delete", u1>>, <<"like", "like", u2>>,
                <<"like", "unlike", u1>>, <<"compound", "put", u1>> } }

MCMoves == {<<"active", "departed">>, <<"departed", "active">>}
=============================================================================
