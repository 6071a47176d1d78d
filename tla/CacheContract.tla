--------------------------- MODULE CacheContract ---------------------------
(***************************************************************************)
(* What a disk cache promises its callers: for each key it remembers the   *)
(* value of the last set() that took effect, or forgets it at any moment;  *)
(* a get() returns what is remembered for the key it asks for at some      *)
(* moment of the call, or nothing.  It never returns a value of another    *)
(* key, an overwritten value or one that no set() was storing.             *)
(***************************************************************************)
EXTENDS Naturals

CONSTANTS Procs, Keys, MaxOps

VARIABLES reg,   \* the remembered value of each key
          pend,  \* <<key, value>> of the set() calls that have not taken effect
          call   \* the get() of each process: the key it asks for, then its answer

vars == <<reg, pend, call>>

None  == 0
Value == 1..MaxOps

\* A get() asks for a key, finds what is remembered for it, and is over.
Asked(k)    == [phase |-> "asked", key |-> k]
Found(k, v) == [phase |-> "found", key |-> k, val |-> v]
Done(v)     == [phase |-> "done", val |-> v]

Init ==
  /\ reg = [k \in Keys |-> None]
  /\ pend = {}
  /\ call = [p \in Procs |-> Done(None)]

BeginSet(k, v) ==
  /\ <<k, v>> \notin pend
  /\ pend' = pend \cup {<<k, v>>}
  /\ UNCHANGED <<reg, call>>

TakeEffect(k, v) ==
  /\ <<k, v>> \in pend
  /\ pend' = pend \ {<<k, v>>}
  /\ reg' = [reg EXCEPT ![k] = v]
  /\ UNCHANGED call

\* A set() that was cut short, or whose file was removed under it.
AbandonSet(k, v) ==
  /\ <<k, v>> \in pend
  /\ pend' = pend \ {<<k, v>>}
  /\ UNCHANGED <<reg, call>>

Forget(k) ==
  /\ reg' = [reg EXCEPT ![k] = None]
  /\ UNCHANGED <<pend, call>>

BeginGet(p, k) ==
  /\ call[p].phase = "done"
  /\ call' = [call EXCEPT ![p] = Asked(k)]
  /\ UNCHANGED <<reg, pend>>

\* The key that is asked for is the one whose value is found.
Remember(p, k) ==
  /\ call[p] = Asked(k)
  /\ reg[k] # None
  /\ call' = [call EXCEPT ![p] = Found(k, reg[k])]
  /\ UNCHANGED <<reg, pend>>

Answer(p, k, v) ==
  /\ call[p] = Found(k, v)
  /\ call' = [call EXCEPT ![p] = Done(v)]
  /\ UNCHANGED <<reg, pend>>

\* A miss, or an entry found expired: what that key holds by then is forgotten.
Miss(p, k) ==
  /\ call[p].phase # "done" /\ call[p].key = k
  /\ call' = [call EXCEPT ![p] = Done(None)]
  /\ reg' = reg \/ reg' = [reg EXCEPT ![k] = None]
  /\ UNCHANGED pend

Next ==
  \/ \E k \in Keys, v \in Value : BeginSet(k, v) \/ TakeEffect(k, v) \/ AbandonSet(k, v)
  \/ \E k \in Keys : Forget(k)
  \/ \E p \in Procs, k \in Keys : BeginGet(p, k) \/ Remember(p, k) \/ Miss(p, k)
  \/ \E p \in Procs, k \in Keys, v \in Value : Answer(p, k, v)

Spec == Init /\ [][Next]_vars

=============================================================================
