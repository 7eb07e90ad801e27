---------------------------- MODULE MCTapPipeline ----------------------------
(* Instances of TapPipeline for TLC.                                       *)
EXTENDS TapPipeline, TLC

CONSTANTS profile, post, like

MCCollection == [u \in Uris |-> CASE u = profile -> "profile"
                                  [] u = post -> "post"
                                  [] OTHER -> "like"]
MCSubject == [u \in Uris |-> IF u = like THEN post ELSE u]

\* An account deletion that is begun and cancelled.
MCCancelled == {<<"active", "deletion_pending">>, <<"deletion_pending", "active">>}

\* An owner who becomes terminal, and both.
MCTerminal == {<<"active", "terminal">>}
MCShifts == MCCancelled \cup MCTerminal

\* The workers are interchangeable, which is sound for safety properties.
MCSymmetry == Permutations(Workers)

\* Only behaviours in which the owner writes before Tap delivers, and a repair
\* is asked for after the lifecycle has moved for the last time.
MCLateRepair ==
    /\ Latest = MaxRev \/ life = NoLife
    /\ life.gen < MaxGen => ~Requested("pds_reconcile")
    /\ rjob["tap_add_repo"].st # "processing"
=============================================================================
