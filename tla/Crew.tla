--------------------------------- MODULE Crew ---------------------------------
(***************************************************************************)
(* The agents that work on the repository, and those that have died.       *)
(***************************************************************************)
CONSTANT Agents

VARIABLE dead

Dies(a) == a \notin dead /\ dead' = dead \cup {a}

=============================================================================
