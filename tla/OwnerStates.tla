---------------------------- MODULE OwnerStates ----------------------------
(***************************************************************************)
(* The states of an owner and the moves between them                       *)
(* (appview/internal/ownerlifecycle/state.go).                             *)
(***************************************************************************)

States == {"active", "departed", "deletion_pending", "deleting", "terminal"}

\* ValidateTransition.
ValidTransitions ==
    { <<"active", "departed">>, <<"active", "deletion_pending">>,
      <<"active", "terminal">>, <<"departed", "active">>,
      <<"departed", "terminal">>, <<"deletion_pending", "active">>,
      <<"deletion_pending", "departed">>, <<"deletion_pending", "deleting">>,
      <<"deletion_pending", "terminal">>, <<"deleting", "departed">>,
      <<"deleting", "terminal">> }

\* transitionAdvancesAuthEpoch: the moves that end every session of the owner.
AdvancesAuthEpoch(from, to) ==
    \/ to \in {"departed", "terminal"}
    \/ from = "deletion_pending" /\ to = "deleting"
=============================================================================
