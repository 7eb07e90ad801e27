-------------------------- MODULE MCAccountDeletion --------------------------
(* Instances of AccountDeletion for TLC.                                   *)
EXTENDS AccountDeletion, MCScheduledPosts

CONSTANTS d1, d2

\* The schedule alone; then a deletion by two workers with a post that may be on
\* its way, of a member who logs out or comes back; by two workers that fail; and
\* with an image that may be on its way.
MCSchedules ==
    MCScenarios \cup
    { Scenario(0, 1, 2, {p1, w1, d1, d2}),
      Scenario(0, 2, 2, {d1, d2}),
      Scenario(1, 1, 1, {c1, d1}) }

\* An intent, for the finding.
MCIntents == { Scenario(0, 0, 2, {d1}) }
=============================================================================
