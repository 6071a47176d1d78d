-------------------------- MODULE ProviderThrottle --------------------------
(***************************************************************************)
(* ProviderThrottle.hold() and the registry behind SearchAdapter.paced():  *)
(* the adapter threads of one provider share a semaphore, a pacing lock    *)
(* and the time of the next permitted request.                             *)
(*                                                                         *)
(* Time is relative: `gap` is _next_allowed minus the clock, never below   *)
(* zero, and a tick takes one unit off it.  _next_allowed starts at 0.0,   *)
(* in the clock's past.                                                    *)
(***************************************************************************)
EXTENDS Naturals, FiniteSets

CONSTANTS Threads, NoThread,
          Limit,     \* max_concurrent, at least one
          Interval,  \* min_interval; 0 when the provider is not paced
          MaxGens    \* bound: throttles created in one behaviour

ASSUME ThreadsAssumption  == IsFiniteSet(Threads) /\ NoThread \notin Threads
ASSUME LimitAssumption    == Limit \in Nat \ {0}
ASSUME IntervalAssumption == Interval \in Nat
ASSUME MaxGensAssumption  == MaxGens \in Nat \ {0}

VARIABLES current,  \* the registered throttle, 0 when there is none
          made,     \* throttles created so far; they are numbered
          permits,  \* the semaphore of each throttle
          lock,     \* the holder of each throttle's pacing lock
          gap,      \* the time to go until _next_allowed
          pc, gen,  \* each thread's step and the throttle it holds on to
          age       \* ghost: time since the last grant, up to Interval

vars == <<current, made, permits, lock, gap, pc, gen, age>>

Gens      == 1..MaxGens
Label     == {"idle", "want", "pace", "locked", "sleep", "grant", "held"}
Pacing    == {"locked", "sleep", "grant"}
Permitted == {"pace", "held"} \cup Pacing

Init ==
  /\ current = 0 /\ made = 0
  /\ permits = [g \in Gens |-> Limit]
  /\ lock = [g \in Gens |-> NoThread]
  /\ gap = [g \in Gens |-> 0]
  /\ pc = [t \in Threads |-> "idle"] /\ gen = [t \in Threads |-> 1]
  /\ age = [g \in Gens |-> Interval]

Goto(t, l)  == pc' = [pc EXCEPT ![t] = l]
Take(g)     == permits' = [permits EXCEPT ![g] = @ - 1]
Release(g)  == permits' = [permits EXCEPT ![g] = @ + 1]

-----------------------------------------------------------------------------
(* throttle_for() and reset_provider_throttles() *)

Enter(t) ==
  /\ pc[t] = "idle"
  /\ IF current = 0
     THEN made < MaxGens /\ made' = made + 1 /\ current' = made + 1
     ELSE UNCHANGED <<made, current>>
  /\ gen' = [gen EXCEPT ![t] = current']
  /\ Goto(t, "want")
  /\ UNCHANGED <<permits, lock, gap, age>>

\* Threads that entered before keep the throttle they have.
Reset ==
  /\ made < MaxGens
  /\ current' = 0
  /\ UNCHANGED <<made, permits, lock, gap, pc, gen, age>>

-----------------------------------------------------------------------------
(* hold() *)

\* Mutated form: the semaphore has one permit too many.
OneMore(g)   == permits[g] + 1 > 0

HasPermit(g) == permits[g] > 0
Free(g)      == lock[g] = NoThread

Acquire(t) ==
  /\ pc[t] = "want" /\ HasPermit(gen[t])
  /\ Take(gen[t])
  /\ Goto(t, IF Interval = 0 THEN "held" ELSE "pace")
  /\ UNCHANGED <<current, made, lock, gap, gen, age>>

Lock(t) ==
  /\ pc[t] = "pace" /\ Free(gen[t])
  /\ lock' = [lock EXCEPT ![gen[t]] = t]
  /\ Goto(t, "locked")
  /\ UNCHANGED <<current, made, permits, gap, gen, age>>

\* Mutated form: the wait is computed and not slept.
SkipsSleep(t) ==
  /\ pc[t] = "locked"
  /\ Goto(t, "grant")
  /\ UNCHANGED <<current, made, permits, lock, gap, gen, age>>

\* The wait is computed from one reading of the clock.
Check(t) ==
  /\ pc[t] = "locked"
  /\ Goto(t, IF gap[gen[t]] > 0 THEN "sleep" ELSE "grant")
  /\ UNCHANGED <<current, made, permits, lock, gap, gen, age>>

\* sleep() lasts at least as long as it was asked to.
Wake(t) ==
  /\ pc[t] = "sleep" /\ gap[gen[t]] = 0
  /\ Goto(t, "grant")
  /\ UNCHANGED <<current, made, permits, lock, gap, gen, age>>

\* A second reading of the clock sets _next_allowed; the lock is released.
Grant(t) ==
  /\ pc[t] = "grant"
  /\ gap' = [gap EXCEPT ![gen[t]] = Interval]
  /\ age' = [age EXCEPT ![gen[t]] = 0]
  /\ lock' = [lock EXCEPT ![gen[t]] = NoThread]
  /\ Goto(t, "held")
  /\ UNCHANGED <<current, made, permits, gen>>

\* The with block, which sends one request, ends by returning or by raising.
Done(t) ==
  /\ pc[t] = "held"
  /\ Release(gen[t])
  /\ Goto(t, "idle")
  /\ UNCHANGED <<current, made, lock, gap, gen, age>>

PermitBack(t) ==
  IF pc[t] \in Permitted THEN [permits EXCEPT ![gen[t]] = @ + 1] ELSE permits
LockBack(t) ==
  IF pc[t] \in Pacing THEN [lock EXCEPT ![gen[t]] = NoThread] ELSE lock

\* A wait is interrupted by an exception, a KeyboardInterrupt say.
Interrupt(t) ==
  /\ pc[t] \in {"want", "pace", "sleep"}
  /\ permits' = PermitBack(t)
  /\ lock' = LockBack(t)
  /\ Goto(t, "idle")
  /\ UNCHANGED <<current, made, gap, gen, age>>

Tick ==
  /\ gap' = [g \in Gens |-> IF gap[g] = 0 THEN 0 ELSE gap[g] - 1]
  /\ age' = [g \in Gens |-> IF age[g] = Interval THEN Interval ELSE age[g] + 1]
  /\ UNCHANGED <<current, made, permits, lock, pc, gen>>

Blocking(t) == Acquire(t) \/ Lock(t)
Running(t)  == Check(t) \/ Wake(t) \/ Grant(t) \/ Done(t)
Next ==
  \/ \E t \in Threads : Enter(t) \/ Blocking(t) \/ Running(t) \/ Interrupt(t)
  \/ Reset \/ Tick

Spec == Init /\ [][Next]_vars

-----------------------------------------------------------------------------
(* Properties. *)

\* The type of every variable of the throttle.
TypeOK ==
  /\ current \in 0..MaxGens /\ made \in 0..MaxGens /\ current <= made
  /\ permits \in [Gens -> 0..Limit]
  /\ lock \in [Gens -> Threads \cup {NoThread}]
  /\ gap \in [Gens -> 0..Interval]
  /\ pc \in [Threads -> Label] /\ gen \in [Threads -> Gens]
  /\ age \in [Gens -> 0..Interval]

Holders(g) == {t \in Threads : pc[t] \in Permitted /\ gen[t] = g}

\* No permit is lost or invented on any way out of hold(), interrupted sleeps
\* included.
PermitsConserved == \A g \in Gens : permits[g] + Cardinality(Holders(g)) = Limit

\* At most max_concurrent requests of one throttle are between their grant and
\* their end.
ConcurrencyCapped ==
  \A g \in Gens : Cardinality({t \in Threads : pc[t] = "held" /\ gen[t] = g}) <= Limit

\* One thread at a time computes, sleeps for and sets the next permitted time.
OnePacer ==
  \A t, u \in Threads : pc[t] \in Pacing /\ pc[u] \in Pacing /\ gen[t] = gen[u] => t = u

\* Successive grants of one throttle are at least min_interval apart.
GrantsSpaced == [][\A t \in Threads : Grant(t) => age[gen[t]] = Interval]_vars

=============================================================================
