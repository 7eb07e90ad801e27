-------------------------- MODULE MCPushDeliveries --------------------------
(* Instances of PushDeliveries for TLC.                                    *)
EXTENDS PushDeliveries, MCAccountDeletion

CONSTANTS n1, n2, a1, a2, t1, k1, k2

\* The composition below; two dispatchers for one delivery; two for a reply and
\* two devices; two devices and a failure; two events for a device; a device that
\* is logged out and comes back; an event that is undone; an account that is
\* deleted under a dispatcher.
MCPushes ==
    MCSchedules \cup
    { Scenario(0, 2, 1, {n2, a1, k1, k2}),
      Scenario(0, 0, 1, {n1, a1, a2, k1, k2}),
      Scenario(0, 1, 1, {n1, a1, a2, k1}),
      Scenario(0, 1, 0, {n1, n2, a1, k1}),
      Scenario(0, 1, 2, {n1, a1, k1}),
      Scenario(0, 0, 2, {n2, a1, k1}),
      Scenario(0, 0, 2, {d1, n1, a1, k1}) }
=============================================================================
