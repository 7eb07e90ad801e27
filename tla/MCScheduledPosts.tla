-------------------------- MODULE MCScheduledPosts --------------------------
(* Instances of ScheduledPosts for TLC.                                    *)
EXTENDS ScheduledPosts

CONSTANTS m1, p1, u1, c1, c2, w1, w2

MCMoves == {<<"active", "departed">>, <<"departed", "active">>}

Scenario(uploads, faults, moves, present) ==
    [uploads |-> uploads, faults |-> faults, moves |-> moves, present |-> present]

\* Two workers and no image; an image, with a worker, and with a cleaner too; two
\* cleaners and an image that is staged twice.
MCScenarios ==
    { Scenario(0, 2, 1, {p1, w1, w2}),
      Scenario(1, 1, 1, {p1, w1}),
      Scenario(1, 0, 1, {p1, w1, c1}),
      Scenario(2, 1, 1, {c1, c2}) }

\* Two workers, for the finding.
MCRacers == { Scenario(0, 1, 1, {p1, w1, w2}) }
=============================================================================
