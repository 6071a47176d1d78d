----------------------------- MODULE MCClaimsFile -----------------------------
(***************************************************************************)
(* A small instance of ClaimsFile.  Plan 2 is blocked by plan 1.  One      *)
(* branch claims a plan; the other claims the same plan, plainly, under    *)
(* the shared feature or with --force, or the plan that is blocked.  A     *)
(* release names either branch.                                            *)
(***************************************************************************)
EXTENDS ClaimsFile

CONSTANTS b1, b2

MCBlockers == [n \in Plans |-> IF n = 2 THEN {1} ELSE {}]

MCRequests ==
  LET Ask(k, b, n, f, force, validate) ==
        [kind |-> k, n |-> 0, cc |-> b, plan |-> n, feature |-> f,
         force |-> force, validate |-> validate]
  IN {Ask("claim", b1, 1, "core", FALSE, FALSE),
      Ask("claim", b2, 1, "none", FALSE, FALSE),
      Ask("claim", b2, 1, "shared", FALSE, FALSE),
      Ask("claim", b2, 2, "core", TRUE, FALSE),
      Ask("release", b1, 0, "none", FALSE, TRUE),
      Ask("release", b2, 0, "none", TRUE, FALSE)}

MCHooked == {[NoCall EXCEPT !.kind = k] : k \in {"cleanup", "heartbeat"}}
            \cup {[NoCall EXCEPT !.kind = "check", !.plan = 1]}

=============================================================================
