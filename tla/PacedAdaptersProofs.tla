------------------------- MODULE PacedAdaptersProofs -------------------------
(***************************************************************************)
(* The throttle keeps its cap, its spacing and its permits for any number  *)
(* of threads, any limit, any interval and any number of resets.  The      *)
(* adapters take every slot by the protocol of hold(), so what is proved   *)
(* of the throttle holds of their searches; one grant covers one request;  *)
(* and a refused token does not come back.                                 *)
(***************************************************************************)
EXTENDS PacedAdapters, FiniteSetTheorems, TLAPS

(* The throttle: ProviderThrottle. *)

\* The pacing lock is held by whoever is inside it.
LockHeld == \A t \in Threads : pc[t] \in Pacing => lock[gen[t]] = t

\* The ghost and the code's own timer measure the same time.
GapMeasures == \A g \in Gens : gap[g] + age[g] = Interval

\* A thread that has done waiting still need not wait.
GrantReady == \A t \in Threads : pc[t] = "grant" => gap[gen[t]] = 0

\* The inductive invariant.  TypeOK needs PermitsConserved: only the count of the
\* holders bounds a released semaphore.
Inv == TypeOK /\ PermitsConserved /\ LockHeld /\ GapMeasures /\ GrantReady

-----------------------------------------------------------------------------
(* How one thread's step changes the holders of a throttle. *)

LEMMA HoldersFinite ==
  ASSUME NEW g \in Gens
  PROVE  /\ IsFiniteSet(Holders(g)) /\ Cardinality(Holders(g)) \in Nat
<1>1. Holders(g) \subseteq Threads
  BY DEF Holders
<1>2. QED BY <1>1, ThreadsAssumption, FS_Subset, FS_CardinalityType

LEMMA HoldersKept ==
  ASSUME TypeOK, NEW t \in Threads, NEW l \in Label,
         pc' = [pc EXCEPT ![t] = l], gen' = gen,
         pc[t] \in Permitted <=> l \in Permitted
  PROVE  \A g \in Gens : Holders(g)' = Holders(g)
<1>1. \A u \in Threads : pc'[u] \in Permitted <=> pc[u] \in Permitted
  BY DEF TypeOK
<1>2. QED BY <1>1 DEF Holders

LEMMA HoldersJoin ==
  ASSUME TypeOK, NEW t \in Threads, NEW s \in Gens, gen[t] = s, NEW l \in Permitted,
         pc' = [pc EXCEPT ![t] = l], gen' = gen, pc[t] \notin Permitted
  PROVE  /\ Cardinality(Holders(s))' = Cardinality(Holders(s)) + 1
         /\ \A g \in Gens \ {s} : Holders(g)' = Holders(g)
<1> DEFINE h == Holders(s)
<1>1. \A u \in Threads : pc'[u] = IF u = t THEN l ELSE pc[u]
  BY DEF TypeOK
<1>2. h' = h \cup {t} /\ t \notin h
  BY <1>1 DEF Holders
<1>3. Cardinality(h \cup {t}) = Cardinality(h) + 1
  BY <1>2, HoldersFinite, FS_AddElement
<1>4. \A g \in Gens \ {s} : Holders(g)' = Holders(g)
  BY <1>1 DEF Holders
<1>5. QED BY <1>2, <1>3, <1>4

LEMMA HoldersLeave ==
  ASSUME TypeOK, NEW t \in Threads, NEW s \in Gens, gen[t] = s, NEW l \in Label \ Permitted,
         pc' = [pc EXCEPT ![t] = l], gen' = gen, pc[t] \in Permitted
  PROVE  /\ Cardinality(Holders(s))' = Cardinality(Holders(s)) - 1
         /\ Cardinality(Holders(s)) > 0
         /\ \A g \in Gens \ {s} : Holders(g)' = Holders(g)
<1> DEFINE h == Holders(s)
<1>1. \A u \in Threads : pc'[u] = IF u = t THEN l ELSE pc[u]
  BY DEF TypeOK
<1>2. h' = h \ {t} /\ t \in h
  BY <1>1 DEF Holders
<1>3. Cardinality(h \ {t}) = Cardinality(h) - 1
  BY <1>2, HoldersFinite, FS_RemoveElement
<1>4. Cardinality(h) > 0
  BY <1>2, HoldersFinite, FS_EmptySet
<1>5. \A g \in Gens \ {s} : Holders(g)' = Holders(g)
  BY <1>1 DEF Holders
<1>6. QED BY <1>2, <1>3, <1>4, <1>5


-----------------------------------------------------------------------------
LEMMA InitInv == Init => Inv
<1> SUFFICES ASSUME Init PROVE Inv
  OBVIOUS
<1>1. \A g \in Gens : Holders(g) = {}
  BY DEF Init, Holders, Permitted, Pacing
<1>2. PermitsConserved
  BY <1>1, FS_EmptySet, LimitAssumption DEF PermitsConserved, Init
<1>3. TypeOK
  BY LimitAssumption, IntervalAssumption, MaxGensAssumption
     DEF TypeOK, Init, Gens, Label
<1>4. LockHeld /\ GapMeasures /\ GrantReady
  BY IntervalAssumption DEF LockHeld, GapMeasures, GrantReady, Init, Pacing
<1>5. QED BY <1>2, <1>3, <1>4 DEF Inv

\* PermitsConserved, step by step: a step that leaves the holders alone leaves the
\* semaphores alone too; the two others change both by one.
LEMMA PermitsStep ==
  ASSUME Inv, [Next]_vars
  PROVE  PermitsConserved'
<1> USE DEF Inv
<1>A. ASSUME permits' = permits, \A g \in Gens : Holders(g)' = Holders(g)
      PROVE  PermitsConserved'
  BY <1>A DEF PermitsConserved
<1>B. ASSUME NEW s \in Gens, permits' = [permits EXCEPT ![s] = @ - 1],
             Cardinality(Holders(s))' = Cardinality(Holders(s)) + 1,
             \A g \in Gens \ {s} : Holders(g)' = Holders(g)
      PROVE  PermitsConserved'
  <2>0. permits \in [Gens -> 0..Limit]
    BY DEF TypeOK
  <2>1. permits'[s] + Cardinality(Holders(s))' = Limit
    <3>1. permits'[s] = permits[s] - 1
      BY <1>B, <2>0
    <3>2. permits[s] + Cardinality(Holders(s)) = Limit
      BY <2>0 DEF PermitsConserved
    <3>3. Cardinality(Holders(s)) \in Nat /\ permits[s] \in Int /\ Limit \in Int
      BY <2>0, HoldersFinite, LimitAssumption
    <3>4. QED BY <1>B, <3>1, <3>2, <3>3
  <2>2. ASSUME NEW g \in Gens \ {s} PROVE permits'[g] + Cardinality(Holders(g))' = Limit
    <3>1. permits'[g] = permits[g] /\ Holders(g)' = Holders(g)
      BY <1>B, <2>0
    <3>2. QED BY <3>1 DEF PermitsConserved
  <2>3. ASSUME NEW g \in Gens PROVE permits'[g] + Cardinality(Holders(g))' = Limit
    <3>1. CASE g = s
      BY <2>1, <3>1
    <3>2. CASE g # s
      BY <2>2, <3>2
    <3>3. QED BY <3>1, <3>2
  <2>4. QED BY <2>3 DEF PermitsConserved
<1>C. ASSUME NEW s \in Gens, permits' = [permits EXCEPT ![s] = @ + 1],
             Cardinality(Holders(s))' = Cardinality(Holders(s)) - 1,
             \A g \in Gens \ {s} : Holders(g)' = Holders(g)
      PROVE  PermitsConserved'
  <2>0. permits \in [Gens -> 0..Limit]
    BY DEF TypeOK
  <2>1. permits'[s] + Cardinality(Holders(s))' = Limit
    <3>1. permits'[s] = permits[s] + 1
      BY <1>C, <2>0
    <3>2. permits[s] + Cardinality(Holders(s)) = Limit
      BY <2>0 DEF PermitsConserved
    <3>3. Cardinality(Holders(s)) \in Nat /\ permits[s] \in Int /\ Limit \in Int
      BY <2>0, HoldersFinite, LimitAssumption
    <3>4. QED BY <1>C, <3>1, <3>2, <3>3
  <2>2. ASSUME NEW g \in Gens \ {s} PROVE permits'[g] + Cardinality(Holders(g))' = Limit
    <3>1. permits'[g] = permits[g] /\ Holders(g)' = Holders(g)
      BY <1>C, <2>0
    <3>2. QED BY <3>1 DEF PermitsConserved
  <2>3. ASSUME NEW g \in Gens PROVE permits'[g] + Cardinality(Holders(g))' = Limit
    <3>1. CASE g = s
      BY <2>1, <3>1
    <3>2. CASE g # s
      BY <2>2, <3>2
    <3>3. QED BY <3>1, <3>2
  <2>4. QED BY <2>3 DEF PermitsConserved
<1>1. ASSUME NEW t \in Threads, Enter(t) PROVE PermitsConserved'
  <2>1. \A u \in Threads : (pc'[u] \in Permitted <=> pc[u] \in Permitted)
                           /\ (pc[u] \in Permitted => gen'[u] = gen[u])
    BY <1>1 DEF Enter, Goto, TypeOK, Permitted, Pacing
  <2>2. \A g \in Gens : Holders(g)' = Holders(g)
    BY <2>1 DEF Holders
  <2>3. QED BY <1>1, <1>A, <2>2 DEF Enter
<1>2. ASSUME NEW t \in Threads, Acquire(t) PROVE PermitsConserved'
  <2>0. PICK s \in Gens : s = gen[t]
    BY DEF TypeOK
  <2>1. PICK l \in {"held", "pace"} : pc' = [pc EXCEPT ![t] = l]
    BY <1>2 DEF Acquire, Goto
  <2>2. l \in Permitted /\ pc[t] \notin Permitted /\ gen' = gen
    BY <1>2 DEF Acquire, Permitted, Pacing
  <2>3. permits' = [permits EXCEPT ![s] = @ - 1]
    BY <1>2, <2>0 DEF Acquire, Take
  <2>4. QED BY <1>B, <2>0, <2>1, <2>2, <2>3, HoldersJoin
<1>3. ASSUME NEW t \in Threads, Lock(t) \/ Check(t) \/ Wake(t) \/ Grant(t)
      PROVE  PermitsConserved'
  <2>1. PICK l \in {"locked", "sleep", "grant", "held"} : pc' = [pc EXCEPT ![t] = l]
    BY <1>3 DEF Lock, Check, Wake, Grant, Goto
  <2>2. l \in Label /\ l \in Permitted
    BY DEF Label, Permitted, Pacing
  <2>3. pc[t] \in Permitted /\ gen' = gen /\ permits' = permits
    BY <1>3 DEF Lock, Check, Wake, Grant, Permitted, Pacing
  <2>4. QED BY <1>A, <2>1, <2>2, <2>3, HoldersKept
<1>4. ASSUME NEW t \in Threads, Done(t) PROVE PermitsConserved'
  <2>1. pc' = [pc EXCEPT ![t] = "idle"] /\ gen' = gen /\ pc[t] \in Permitted
    BY <1>4 DEF Done, Goto, Permitted, Pacing
  <2>2. "idle" \in Label \ Permitted
    BY DEF Label, Permitted, Pacing
  <2>0. PICK s \in Gens : s = gen[t]
    BY DEF TypeOK
  <2>3. permits' = [permits EXCEPT ![s] = @ + 1]
    BY <1>4, <2>0 DEF Done, Release
  <2>4. QED BY <1>C, <2>0, <2>1, <2>2, <2>3, HoldersLeave
<1>5. ASSUME NEW t \in Threads, Interrupt(t) PROVE PermitsConserved'
  <2>1. pc' = [pc EXCEPT ![t] = "idle"] /\ gen' = gen
    BY <1>5 DEF Interrupt, Goto
  <2>2. "idle" \in Label \ Permitted
    BY DEF Label, Permitted, Pacing
  <2>3. CASE pc[t] \in Permitted
    <3>0. PICK s \in Gens : s = gen[t]
      BY DEF TypeOK
    <3>1. permits' = [permits EXCEPT ![s] = @ + 1]
      BY <1>5, <2>3, <3>0 DEF Interrupt, PermitBack
    <3>2. QED BY <1>C, <3>0, <2>1, <2>2, <2>3, <3>1, HoldersLeave
  <2>4. CASE pc[t] \notin Permitted
    <3>1. permits' = permits
      BY <1>5, <2>4 DEF Interrupt, PermitBack
    <3>2. QED BY <1>A, <2>1, <2>2, <2>4, <3>1, HoldersKept
  <2>5. QED BY <2>3, <2>4
<1>6. CASE Reset \/ Tick \/ UNCHANGED vars
  <2>1. permits' = permits /\ pc' = pc /\ gen' = gen
    BY <1>6 DEF Reset, Tick, vars
  <2>2. \A g \in Gens : Holders(g)' = Holders(g)
    BY <2>1 DEF Holders
  <2>3. QED BY <1>A, <2>1, <2>2
<1>7. QED
  BY <1>1, <1>2, <1>3, <1>4, <1>5, <1>6 DEF Next, Blocking, Running

-----------------------------------------------------------------------------
LEMMA TypeStep ==
  ASSUME Inv, [Next]_vars
  PROVE  TypeOK'
<1> USE DEF Inv, TypeOK, Goto
<1>0. "idle" \in Label /\ "want" \in Label /\ "pace" \in Label /\ "locked" \in Label
      /\ "sleep" \in Label /\ "grant" \in Label /\ "held" \in Label
  BY DEF Label
<1>P. permits' \in [Gens -> 0..Limit]
  <2>1. PermitsConserved'
    BY PermitsStep
  <2>2. \A g \in Gens : Cardinality(Holders(g))' \in Nat
    <3>1. \A g \in Gens : IsFiniteSet({t \in Threads : pc'[t] \in Permitted /\ gen'[t] = g})
      BY ThreadsAssumption, FS_Subset
    <3>2. QED BY <3>1, FS_CardinalityType DEF Holders
  <2>3. permits' \in [Gens -> Nat]
    BY LimitAssumption
       DEF HasPermit, Next, vars, Blocking, Running, Enter, Acquire, Lock, Check, Wake, Grant,
           Done, Interrupt, Reset, Tick, Take, Release, PermitBack
  <2>4. ASSUME NEW g \in Gens PROVE permits'[g] \in 0..Limit
    <3>1. permits'[g] + Cardinality(Holders(g))' = Limit
      BY <2>1 DEF PermitsConserved
    <3>2. permits'[g] \in Nat /\ Limit \in Nat
      BY <2>3, LimitAssumption
    <3>3. QED BY <2>2, <3>1, <3>2
  <2>5. QED BY <2>3, <2>4
<1>1. ASSUME NEW t \in Threads, Enter(t) PROVE TypeOK'
  <2>1. current' \in Gens /\ made' \in 0..MaxGens /\ current' <= made'
    <3>1. CASE current = 0
      <4>1. made < MaxGens /\ made' = made + 1 /\ current' = made + 1
        BY <1>1, <3>1 DEF Enter
      <4>2. QED BY <4>1, MaxGensAssumption DEF Gens
    <3>2. CASE current # 0
      <4>1. made' = made /\ current' = current
        BY <1>1, <3>2 DEF Enter
      <4>2. QED BY <4>1, <3>2, MaxGensAssumption DEF Gens
    <3>3. QED BY <3>1, <3>2
  <2>2. current' \in 0..MaxGens
    BY <2>1, MaxGensAssumption DEF Gens
  <2>3. gen' \in [Threads -> Gens] /\ pc' \in [Threads -> Label]
    BY <1>1, <1>0, <2>1 DEF Enter
  <2>4. QED BY <1>1, <1>P, <2>1, <2>2, <2>3 DEF Enter
<1>2. ASSUME NEW t \in Threads, Acquire(t) \/ Lock(t) PROVE TypeOK'
  BY <1>2, <1>0, <1>P DEF Acquire, Lock
<1>3. ASSUME NEW t \in Threads, Check(t) \/ Wake(t) \/ Done(t) PROVE TypeOK'
  BY <1>3, <1>0, <1>P DEF Check, Wake, Done
<1>4. ASSUME NEW t \in Threads, Grant(t) PROVE TypeOK'
  BY <1>4, <1>0, <1>P, IntervalAssumption DEF Grant
<1>5. ASSUME NEW t \in Threads, Interrupt(t) PROVE TypeOK'
  BY <1>5, <1>0, <1>P DEF Interrupt, LockBack
<1>6. CASE Reset
  BY <1>6, <1>P, MaxGensAssumption DEF Reset
<1>7. CASE Tick
  <2>1. gap' \in [Gens -> 0..Interval]
    BY <1>7, IntervalAssumption DEF Tick
  <2>2. age' \in [Gens -> 0..Interval]
    BY <1>7, IntervalAssumption DEF Tick
  <2>3. QED BY <1>7, <1>P, <2>1, <2>2 DEF Tick
<1>8. CASE UNCHANGED vars
  BY <1>8 DEF vars
<1>9. QED
  BY <1>1, <1>2, <1>3, <1>4, <1>5, <1>6, <1>7, <1>8 DEF Next, Blocking, Running
-----------------------------------------------------------------------------
\* LockHeld: only Lock lets a thread in, and it takes the free lock; only the
\* thread inside releases it.
LEMMA LockStep ==
  ASSUME Inv, [Next]_vars
  PROVE  LockHeld'
<1> SUFFICES ASSUME NEW u \in Threads, pc'[u] \in Pacing
             PROVE  lock'[gen'[u]] = u
  BY DEF LockHeld
<1> USE DEF Inv, TypeOK, LockHeld, Goto
<1>0. NoThread \notin Threads
  BY ThreadsAssumption
<1>1. ASSUME NEW t \in Threads, Enter(t) PROVE lock'[gen'[u]] = u
  BY <1>1 DEF Enter, Pacing
<1>2. ASSUME NEW t \in Threads, Acquire(t) PROVE lock'[gen'[u]] = u
  BY <1>2 DEF Acquire, Pacing
<1>3. ASSUME NEW t \in Threads, Lock(t) PROVE lock'[gen'[u]] = u
  BY <1>3, <1>0 DEF Lock, Free, Pacing
<1>4. ASSUME NEW t \in Threads, Check(t) \/ Wake(t) PROVE lock'[gen'[u]] = u
  BY <1>4 DEF Check, Wake, Pacing
<1>5. ASSUME NEW t \in Threads, Grant(t) PROVE lock'[gen'[u]] = u
  <2>1. u # t /\ pc[u] \in Pacing /\ pc[t] \in Pacing
    BY <1>5 DEF Grant, Pacing
  <2>2. gen[u] # gen[t]
    BY <2>1
  <2>3. QED BY <1>5, <2>1, <2>2 DEF Grant
<1>6. ASSUME NEW t \in Threads, Done(t) PROVE lock'[gen'[u]] = u
  BY <1>6 DEF Done, Pacing
<1>7. ASSUME NEW t \in Threads, Interrupt(t) PROVE lock'[gen'[u]] = u
  <2>1. u # t /\ pc[u] \in Pacing
    BY <1>7 DEF Interrupt, Pacing
  <2>2. CASE pc[t] \in Pacing
    <3>1. gen[u] # gen[t]
      BY <2>1, <2>2
    <3>2. QED BY <1>7, <2>1, <2>2, <3>1 DEF Interrupt, LockBack
  <2>3. CASE pc[t] \notin Pacing
    BY <1>7, <2>1, <2>3 DEF Interrupt, LockBack
  <2>4. QED BY <2>2, <2>3
<1>8. CASE Reset \/ Tick \/ UNCHANGED vars
  BY <1>8 DEF Reset, Tick, vars
<1>9. QED
  BY <1>1, <1>2, <1>3, <1>4, <1>5, <1>6, <1>7, <1>8 DEF Next, Blocking, Running

LEMMA GapStep ==
  ASSUME Inv, [Next]_vars
  PROVE  GapMeasures'
<1> USE DEF Inv, TypeOK, GapMeasures
<1>1. ASSUME NEW t \in Threads, Grant(t) PROVE GapMeasures'
  BY <1>1, IntervalAssumption DEF Grant
<1>2. CASE Tick
  <2>1. ASSUME NEW g \in Gens PROVE gap'[g] + age'[g] = Interval
    <3>1. /\ gap'[g] = IF gap[g] = 0 THEN 0 ELSE gap[g] - 1
          /\ age'[g] = IF age[g] = Interval THEN Interval ELSE age[g] + 1
      BY <1>2 DEF Tick
    <3>2. gap[g] \in Nat /\ age[g] \in Nat /\ gap[g] + age[g] = Interval
      BY IntervalAssumption
    <3>3. QED BY <3>1, <3>2, IntervalAssumption
  <2>2. QED BY <2>1
<1>3. CASE UNCHANGED <<gap, age>>
  BY <1>3
<1>4. QED
  BY <1>1, <1>2, <1>3
     DEF Next, Blocking, Running, vars, Enter, Acquire, Lock, Check, Wake,
         Done, Interrupt, Reset

\* GrantReady: a second thread at "grant" of the same throttle would hold the same
\* lock, so nobody lengthens the gap a thread has waited out.
LEMMA GrantReadyStep ==
  ASSUME Inv, [Next]_vars
  PROVE  GrantReady'
<1> SUFFICES ASSUME NEW u \in Threads, pc'[u] = "grant"
             PROVE  gap'[gen'[u]] = 0
  BY DEF GrantReady
<1> USE DEF Inv, TypeOK, GrantReady, Goto
<1>1. ASSUME NEW t \in Threads, Enter(t) \/ Acquire(t) \/ Lock(t) \/ Done(t)
      PROVE  gap'[gen'[u]] = 0
  BY <1>1 DEF Enter, Acquire, Lock, Done
<1>2. ASSUME NEW t \in Threads, Check(t) \/ Wake(t) PROVE gap'[gen'[u]] = 0
  BY <1>2, IntervalAssumption DEF Check, Wake
<1>3. ASSUME NEW t \in Threads, Grant(t) PROVE gap'[gen'[u]] = 0
  <2>1. u # t /\ pc[u] = "grant" /\ pc[t] = "grant"
    BY <1>3 DEF Grant
  <2>2. gen[u] # gen[t]
    BY <2>1 DEF LockHeld, Pacing
  <2>3. QED BY <1>3, <2>1, <2>2 DEF Grant
<1>4. ASSUME NEW t \in Threads, Interrupt(t) PROVE gap'[gen'[u]] = 0
  BY <1>4 DEF Interrupt
<1>5. CASE Tick
  BY <1>5 DEF Tick
<1>6. CASE Reset \/ UNCHANGED vars
  BY <1>6 DEF Reset, vars
<1>7. QED
  BY <1>1, <1>2, <1>3, <1>4, <1>5, <1>6 DEF Next, Blocking, Running

-----------------------------------------------------------------------------
\* The invariant holds in every state of the throttle.
THEOREM Invariance == Spec => []Inv
<1>1. Init => Inv
  BY InitInv
<1>2. Inv /\ [Next]_vars => Inv'
  BY TypeStep, PermitsStep, LockStep, GapStep, GrantReadyStep DEF Inv
<1>3. QED BY <1>1, <1>2, PTL DEF Spec

\* Every variable keeps its type: in particular no semaphore runs below zero or
\* above its limit, whatever is interrupted and whenever the registry is reset.
THEOREM TypeCorrect == Spec => []TypeOK
<1>1. Inv => TypeOK
  BY DEF Inv
<1>2. QED BY <1>1, Invariance, PTL

\* hold() loses and invents no permit.
THEOREM PermitsAreConserved == Spec => []PermitsConserved
<1>1. Inv => PermitsConserved
  BY DEF Inv
<1>2. QED BY <1>1, Invariance, PTL

\* hold() never lets more than max_concurrent requests of one throttle run.
THEOREM ConcurrencyIsCapped == Spec => []ConcurrencyCapped
<1>1. ASSUME Inv, NEW g \in Gens
      PROVE  Cardinality({t \in Threads : pc[t] = "held" /\ gen[t] = g}) <= Limit
  <2> DEFINE active == {t \in Threads : pc[t] = "held" /\ gen[t] = g}
  <2>1. active \subseteq Holders(g)
    BY DEF Holders, Permitted
  <2>2. Cardinality(active) \in Nat /\ Cardinality(active) <= Cardinality(Holders(g))
    BY <2>1, HoldersFinite, FS_Subset, FS_CardinalityType
  <2>3. permits[g] \in Nat /\ permits[g] + Cardinality(Holders(g)) = Limit
    BY <1>1, LimitAssumption DEF Inv, TypeOK, PermitsConserved
  <2>4. QED BY <2>2, <2>3, HoldersFinite, LimitAssumption
<1>2. Inv => ConcurrencyCapped
  BY <1>1 DEF ConcurrencyCapped
<1>3. QED BY <1>2, Invariance, PTL

\* The check of the clock, the sleep and the new _next_allowed are one critical
\* section of each throttle.
THEOREM PacingIsExclusive == Spec => []OnePacer
<1>1. Inv => OnePacer
  BY DEF Inv, LockHeld, OnePacer
<1>2. QED BY <1>1, Invariance, PTL

\* hold() spaces its grants by min_interval.
THEOREM GrantsAreSpaced == Spec => GrantsSpaced
<1>1. Inv /\ [Next]_vars => [\A t \in Threads : Grant(t) => age[gen[t]] = Interval]_vars
  <2> SUFFICES ASSUME Inv, NEW t \in Threads, Grant(t)
               PROVE  age[gen[t]] = Interval
    OBVIOUS
  <2>1. gen[t] \in Gens /\ gap[gen[t]] = 0
    BY DEF Inv, TypeOK, GrantReady, Grant
  <2>2. gap[gen[t]] + age[gen[t]] = Interval /\ age[gen[t]] \in Nat
    BY <2>1, IntervalAssumption DEF Inv, TypeOK, GapMeasures
  <2>3. QED BY <2>1, <2>2
<1>2. QED BY <1>1, Invariance, PTL DEF Spec, GrantsSpaced

-----------------------------------------------------------------------------
(* The adapters, PacedAdapters: every step of theirs is a step of the        *)
(* throttle, or none of it.                                                  *)

LEMMA PacedStep == [PNext]_pvars => [Next]_vars
<1> SUFFICES ASSUME [PNext]_pvars PROVE [Next]_vars
  OBVIOUS
<1> USE DEF Next, Blocking, Running
<1>1. ASSUME NEW t \in Threads, Starts(t) PROVE [Next]_vars
  BY <1>1 DEF Starts, vars
<1>2. ASSUME NEW t \in Threads, Acquires(t) PROVE [Next]_vars
  BY <1>2 DEF Acquires
<1>3. ASSUME NEW t \in Threads, Locks(t) PROVE [Next]_vars
  BY <1>3 DEF Locks
<1>4. ASSUME NEW t \in Threads, Interrupted(t) PROVE [Next]_vars
  BY <1>4 DEF Interrupted
<1>5. ASSUME NEW t \in Threads, Computes(t) PROVE [Next]_vars
  <2>1. CASE Asks(t)
    BY <2>1 DEF Asks
  <2>2. CASE Waits(t)
    BY <2>2 DEF Waits
  <2>3. CASE FailsInTransit(t)
    BY <2>3 DEF FailsInTransit, TriesAgain, Leaves
  <2>4. CASE WorksAnswered(t) \/ LoggedIn(t) \/ LoginFails(t) \/ Unauthorized(t) \/ PostsAnswered(t)
    BY <2>4 DEF WorksAnswered, LoggedIn, LoginFails, Unauthorized, PostsAnswered, Answered, Leaves
  <2>5. CASE \/ ChecksToken(t) \/ ReadsToken(t) \/ StoresToken(t) \/ StampsToken(t)
              \/ StampFails(t) \/ DropsToken(t)
    BY <2>5 DEF ChecksToken, ReadsToken, StoresToken, StampsToken, StampFails, DropsToken, vars
  <2>6. QED BY <1>5, <2>1, <2>2, <2>3, <2>4, <2>5 DEF Computes
<1>6. CASE PReset \/ PTick
  BY <1>6 DEF PReset, PTick
<1>7. CASE Expires \/ UNCHANGED pvars
  BY <1>7 DEF Expires, pvars, vars
<1>8. QED BY <1>1, <1>2, <1>3, <1>4, <1>5, <1>6, <1>7 DEF PNext

\* The searches of the adapters implement the throttle: hold() is all they do to
\* its semaphore, its lock and its clock.
THEOREM AdaptersArePaced == PSpec => Spec
<1>1. PInit => Init
  BY DEF PInit
<1>2. QED BY <1>1, PacedStep, PTL DEF PSpec, Spec

\* At most max_concurrent requests of the adapters are under way in one throttle.
THEOREM SearchesAreCapped == PSpec => []ConcurrencyCapped
BY AdaptersArePaced, ConcurrencyIsCapped, PTL

\* Grants of the adapters, for retries and logins too, are min_interval apart.
THEOREM SearchesAreSpaced == PSpec => GrantsSpaced
BY AdaptersArePaced, GrantsAreSpaced, PTL

-----------------------------------------------------------------------------
(* One request for each grant.                                                *)

Counted == /\ sends \in [Threads -> {0, 1}]
           /\ OneRequestPerGrant

LEMMA CountedStep ==
  ASSUME TypeOK, Counted, [PNext]_pvars
  PROVE  Counted'
<1> USE DEF Counted, OneRequestPerGrant, TypeOK, Goto
<1>1. ASSUME NEW t \in Threads, Starts(t) PROVE Counted'
  BY <1>1 DEF Starts, vars
<1>2. ASSUME NEW t \in Threads, Acquires(t) PROVE Counted'
  BY <1>2 DEF Acquires, Acquire, Sending
<1>3. ASSUME NEW t \in Threads, Locks(t) PROVE Counted'
  BY <1>3 DEF Locks, Lock, search
<1>4. ASSUME NEW t \in Threads, Interrupted(t) PROVE Counted'
  BY <1>4 DEF Interrupted, Interrupt
<1>5. ASSUME NEW t \in Threads, Computes(t) PROVE Counted'
  <2>1. CASE Asks(t)
    BY <2>1 DEF Asks, Enter, search
  <2>2. CASE Waits(t)
    BY <2>2 DEF Waits, Check, Wake, Grant, Sending
  <2>3. ASSUME Leaves(t) PROVE Counted'
    BY <2>3 DEF Leaves, Done
  <2>4. CASE FailsInTransit(t)
    BY <2>3, <2>4 DEF FailsInTransit, TriesAgain
  <2>5. CASE WorksAnswered(t) \/ LoggedIn(t) \/ LoginFails(t) \/ Unauthorized(t) \/ PostsAnswered(t)
    BY <2>3, <2>5 DEF WorksAnswered, LoggedIn, LoginFails, Unauthorized, PostsAnswered, Answered
  <2>6. CASE \/ ChecksToken(t) \/ ReadsToken(t) \/ StoresToken(t) \/ StampsToken(t)
              \/ StampFails(t) \/ DropsToken(t)
    BY <2>6 DEF ChecksToken, ReadsToken, StoresToken, StampsToken, StampFails, DropsToken, vars
  <2>7. QED BY <1>5, <2>1, <2>2, <2>4, <2>5, <2>6 DEF Computes
<1>6. CASE PReset \/ PTick
  BY <1>6 DEF PReset, PTick, Reset, Tick, search
<1>7. CASE Expires \/ UNCHANGED pvars
  BY <1>7 DEF Expires, pvars, vars, search
<1>8. QED BY <1>1, <1>2, <1>3, <1>4, <1>5, <1>6, <1>7 DEF PNext

\* A held permit covers exactly one request, for any number of threads and
\* retries.
THEOREM GrantsCoverRequests == PSpec => []OneRequestPerGrant
<1>1. PInit => Counted
  BY DEF PInit, Init, Counted, OneRequestPerGrant
<1>2. TypeOK /\ Counted /\ [PNext]_pvars => Counted'
  BY CountedStep
<1>3. Counted => OneRequestPerGrant
  BY DEF Counted
<1>4. QED BY <1>1, <1>2, <1>3, AdaptersArePaced, TypeCorrect, PTL DEF PSpec

-----------------------------------------------------------------------------
(* Refused tokens.                                                            *)

\* A token that a login has brought and not yet stored is known to no other
\* thread.
Unshared ==
  \A t \in Threads : phase[t] = "store" =>
    /\ bearer[t] \notin refused \cup {token, NoToken}
    /\ \A u \in Threads \ {t} : bearer[u] # bearer[t]

TokenInv ==
  /\ issued \in Nat /\ token \in 0..issued
  /\ phase \in [Threads -> Phase] /\ bearer \in [Threads -> 0..issued]
  /\ refused \subseteq 1..issued
  /\ Unshared /\ RefusedTokenDropped

LEMMA TokenStep ==
  ASSUME TokenInv, [PNext]_pvars
  PROVE  TokenInv'
<1> USE DEF TokenInv, Unshared, RefusedTokenDropped, NoToken, Phase, Move
<1>a. ASSUME NEW t \in Threads, Ends(t), UNCHANGED <<field, refused>>
      PROVE  TokenInv'
  BY <1>a DEF Ends, field
<1>b. ASSUME NEW t \in Threads, NEW p \in Phase \ {"store"}, Move(t, p), UNCHANGED login
      PROVE  TokenInv'
  BY <1>b DEF login
<1>c. ASSUME UNCHANGED <<phase, token, bearer, issued, refused>> PROVE TokenInv'
  BY <1>c
<1>1. ASSUME NEW t \in Threads, Starts(t) PROVE TokenInv'
  BY <1>1, <1>b DEF Starts
<1>2. ASSUME NEW t \in Threads, Acquires(t) \/ Locks(t) \/ Asks(t) \/ Waits(t)
      PROVE  TokenInv'
  BY <1>2, <1>c DEF Acquires, Locks, Asks, Waits, search, login
<1>3. ASSUME NEW t \in Threads, Interrupted(t) PROVE TokenInv'
  BY <1>3, <1>a DEF Interrupted
<1>4. ASSUME NEW t \in Threads, FailsInTransit(t) PROVE TokenInv'
  <2>1. CASE Ends(t)
    BY <1>4, <1>a, <2>1 DEF FailsInTransit
  <2>2. CASE UNCHANGED <<phase, bearer>>
    BY <1>4, <1>c, <2>2 DEF FailsInTransit, field, login
  <2>3. QED BY <1>4, <2>1, <2>2 DEF FailsInTransit, TriesAgain
<1>5. ASSUME NEW t \in Threads, WorksAnswered(t) \/ LoginFails(t) \/ PostsAnswered(t) \/ StampFails(t)
      PROVE  TokenInv'
  BY <1>5, <1>a DEF WorksAnswered, LoginFails, PostsAnswered, StampFails
<1>6. ASSUME NEW t \in Threads, ChecksToken(t) \/ Unauthorized(t) PROVE TokenInv'
  BY <1>6, <1>b DEF ChecksToken, Unauthorized
<1>7. ASSUME NEW t \in Threads, ReadsToken(t) PROVE TokenInv'
  BY <1>7 DEF ReadsToken
<1>8. ASSUME NEW t \in Threads, LoggedIn(t) PROVE TokenInv'
  BY <1>8 DEF LoggedIn
<1>9. ASSUME NEW t \in Threads, StoresToken(t) PROVE TokenInv'
  BY <1>9 DEF StoresToken, At
<1>10. ASSUME NEW t \in Threads, StampsToken(t) PROVE TokenInv'
  BY <1>10 DEF StampsToken
<1>11. ASSUME NEW t \in Threads, DropsToken(t) PROVE TokenInv'
  <2>1. /\ token' = NoToken /\ issued' = issued
        /\ refused' = refused \cup ({bearer[t]} \ {NoToken})
        /\ phase' = [phase EXCEPT ![t] = "none"]
        /\ bearer' = [bearer EXCEPT ![t] = NoToken]
    BY <1>11 DEF DropsToken, Drops, Ends
  <2>2. ASSUME NEW u \in Threads, phase'[u] = "store"
        PROVE  /\ bearer'[u] \notin refused' \cup {token', NoToken}
               /\ \A v \in Threads \ {u} : bearer'[v] # bearer'[u]
    <3>1. u # t /\ phase[u] = "store" /\ bearer'[u] = bearer[u]
      BY <2>1, <2>2
    <3>2. QED BY <2>1, <3>1
  <2>3. /\ phase' \in [Threads -> Phase] /\ bearer' \in [Threads -> 0..issued']
        /\ refused' \subseteq 1..issued' /\ token' \in 0..issued' /\ token' \notin refused'
    <3>1. bearer[t] \in 0..issued /\ 0 \notin refused
      OBVIOUS
    <3>2. refused' \subseteq 1..issued' /\ token' \in 0..issued' /\ token' \notin refused'
      <4>1. ASSUME NEW x \in refused' PROVE x \in 1..issued
        BY <2>1, <3>1
      <4>2. issued \in Nat /\ issued' = issued /\ token' = 0
        BY <2>1
      <4>3. refused' \subseteq 1..issued'
        BY <4>1, <4>2
      <4>4. 0 \notin refused'
        BY <4>1, <4>2
      <4>5. token' \in 0..issued'
        BY <4>2
      <4>6. QED BY <4>2, <4>3, <4>4, <4>5
    <3>3. phase' \in [Threads -> Phase] /\ bearer' \in [Threads -> 0..issued']
      BY <2>1
    <3>4. QED BY <3>2, <3>3
  <2>4. QED BY <2>1, <2>2, <2>3
<1>12. CASE PReset \/ PTick \/ Expires \/ UNCHANGED pvars
  BY <1>12, <1>c DEF PReset, PTick, Expires, pvars, search, login
<1>13. QED
  BY <1>1, <1>2, <1>3, <1>4, <1>5, <1>6, <1>7, <1>8, <1>9, <1>10, <1>11, <1>12
  DEF PNext, Computes

\* A refused token is never in the field again, for any number of threads, of
\* logins and of refusals.
THEOREM RefusedTokensStayOut == PSpec => []RefusedTokenDropped
<1>1. PInit => TokenInv
  BY DEF PInit, TokenInv, Unshared, RefusedTokenDropped, NoToken, Phase
<1>2. TokenInv /\ [PNext]_pvars => TokenInv'
  BY TokenStep
<1>3. TokenInv => RefusedTokenDropped
  BY DEF TokenInv
<1>4. QED BY <1>1, <1>2, <1>3, PTL DEF PSpec

=============================================================================
