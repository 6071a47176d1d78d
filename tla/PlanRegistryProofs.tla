------------------------- MODULE PlanRegistryProofs -------------------------
(***************************************************************************)
(* The registry's lock keeps plan numbers apart, for any number of agents, *)
(* plans and faults, as long as no save that was cut short has lost a      *)
(* reservation; and create_plan() does all of its work or none, whatever   *)
(* fails inside its try block, as long as nothing fails outside it.        *)
(***************************************************************************)
EXTENDS PlanRegistry, TLAPS

Table == [Plan -> Status]

\* The registry as read now is the one on disk, its oldest entries reconciled.
Read(v) ==
  /\ v \in Table /\ registry \in Table
  /\ \A n \in Plan : \/ v[n] = registry[n]
                     \/ registry[n] = "consumed" /\ v[n] \in {"landed", "historical"}

\* An agent in a locked block has the lock, and what it read is still there.
Locked == \A a \in Agents : Inside(a) => lock = a /\ Read(view[a])

\* The number an agent works with is a plan number...
Numbered == \A a \in Agents : Holds(a) => num[a] \in Plan

\* ...and, unless reservations were lost, one the registry has an entry of.
Kept == ~lost => /\ registry \in Table
                 /\ \A a \in Agents : Holds(a) => registry[num[a]] # "none"

Inv == TypeOK /\ Locked /\ Numbered /\ Kept /\ NumbersDistinct

-----------------------------------------------------------------------------
(* The operators on registries. *)

LEMMA LoadReads ==
  ASSUME TypeOK, registry # Broken
  PROVE  Read(Load(registry))
<1>1. registry \in Table
  BY DEF TypeOK, Table
<1>2. Load(registry) \in Table
  BY <1>1 DEF Load, Table, Status
<1>3. QED BY <1>1, <1>2 DEF Read, Load, Table

\* Reserving, landing and dropping change one entry, and only dropping removes one.
LEMMA Bodies ==
  ASSUME NEW v \in Table, NEW n \in Plan
  PROVE  /\ Reserved(v, n) \in Table /\ Landed(v, n) \in Table /\ Dropped(v, n) \in Table
         /\ \A m \in Plan : v[m] # "none" =>
              /\ Reserved(v, n)[m] # "none" /\ Landed(v, n)[m] # "none"
              /\ m # n => Dropped(v, n)[m] # "none"
         /\ Reserved(v, n)[n] # "none"
BY DEF Table, Status, Reserved, Landed, Dropped

\* A number taken is above every number with an entry.
LEMMA Fresh ==
  ASSUME NEW v \in Table, NEW n \in Plan, NEW S, IsNext(n, S \cup Protected(v)),
         NEW m \in Plan, v[m] # "none"
  PROVE  m # n
BY DEF IsNext, Protected, Plan

LEMMA CutTyped ==
  ASSUME NEW v \in Table, NEW new \in CutShort(v)
  PROVE  new \in Table \cup {Broken}
BY DEF Table, CutShort, Status

\* A save that loses nothing leaves a registry with every entry it was to have.
LEMMA CutKeeps ==
  ASSUME NEW v \in Table, NEW new \in CutShort(v), ~Loses(v, new)
  PROVE  new \in Table /\ \A n \in Plan : v[n] # "none" => new[n] # "none"
<1>1. new # Broken
  BY DEF Loses
<1>2. new \in Table
  BY <1>1, CutTyped
<1>3. QED BY <1>1, <1>2 DEF Loses

-----------------------------------------------------------------------------
LEMMA InitInv == Init => Inv
<1> SUFFICES ASSUME Init PROVE Inv
  OBVIOUS
<1> USE PlanRegistryAssumption
<1>1. registry \in Table
  BY DEF Init, Table, Status
<1>2. TypeOK
  <2>1. files \subseteq File
    BY DEF Init, File
  <2>2. index \in IndexText /\ original \in [Agents -> IndexText]
    BY DEF Init, IndexText, Truncated
  <2>3. /\ pc \in [Agents -> Label]
        /\ num \in [Agents -> 0..MaxPlan] /\ title \in [Agents -> Titles]
        /\ view \in [Agents -> [Plan -> Status] \cup {Broken}]
    BY DEF Init, Label
  <2>4. calls \in 0..MaxCalls /\ faults \in 0..MaxFaults /\ lost \in BOOLEAN
    <3>1. calls = 0 /\ faults = 0
      BY DEF Init
    <3>2. calls \in 0..MaxCalls /\ faults \in 0..MaxFaults
      BY <3>1
    <3>3. lost \in BOOLEAN
      BY DEF Init
    <3>4. QED BY <3>2, <3>3
  <2>5. registry \in [Plan -> Status] \cup {Broken} /\ lock \in Agents \cup {NoAgent}
    <3>1. lock = NoAgent
      BY DEF Init
    <3>2. QED BY <1>1, <3>1 DEF Table
  <2>6. QED BY <2>1, <2>2, <2>3, <2>4, <2>5 DEF TypeOK
<1>3. \A a \in Agents : ~Inside(a) /\ ~Holds(a)
  BY DEF Init, Inside, Holds
<1>4. QED BY <1>1, <1>2, <1>3 DEF Inv, Locked, Numbered, Kept, NumbersDistinct

-----------------------------------------------------------------------------
(* Types are preserved. *)

LEMMA EndTyped ==
  ASSUME TypeOK, NEW a \in Agents, End(a)
  PROVE  /\ pc' \in [Agents -> Label] /\ num' \in [Agents -> 0..MaxPlan]
         /\ title' \in [Agents -> Titles] /\ original' \in [Agents -> IndexText]
<1> USE PlanRegistryAssumption
<1>1. pc' \in [Agents -> Label] /\ num' \in [Agents -> 0..MaxPlan]
  BY DEF TypeOK, End, Goto, Label
<1>2. title' \in [Agents -> Titles] /\ original' \in [Agents -> IndexText]
  BY DEF TypeOK, End, Truncated, IndexText
<1>3. QED BY <1>1, <1>2

LEMMA OnErrorTyped ==
  ASSUME TypeOK, NEW a \in Agents, OnError(a)
  PROVE  /\ pc' \in [Agents -> Label] /\ num' \in [Agents -> 0..MaxPlan]
         /\ title' \in [Agents -> Titles] /\ original' \in [Agents -> IndexText]
BY EndTyped DEF TypeOK, OnError, Stay, Goto, mine, Label

LEMMA IntendedTyped ==
  ASSUME Inv, NEW a \in Agents, Inside(a), NEW reg \in Intended(a)
  PROVE  reg \in Table
<1>1. view[a] \in Table
  BY DEF Inv, Locked, Read
<1>2. pc[a] # "reserving" => num[a] \in Plan
  BY DEF Inv, Numbered, Holds, Inside
<1>3. QED BY <1>1, <1>2, Bodies DEF Intended, Inside

LEMMA TextTyped ==
  ASSUME TypeOK, NEW a \in Agents, pc[a] = "indexing" => num[a] \in Plan
  PROVE  Text(a) \in IndexText
<1>1. original[a] \in IndexText
  BY DEF TypeOK
<1>2. QED BY <1>1 DEF Text, IndexText

LEMMA CutIndexTyped ==
  ASSUME NEW text \in IndexText
  PROVE  CutIndex(text) \subseteq IndexText
<1>1. Truncated \in IndexText /\ \A k \in BOOLEAN : [text EXCEPT !.key = k] \in IndexText
  BY DEF Truncated, IndexText
<1>2. QED BY <1>1 DEF CutIndex

LEMMA TypeStep == Inv /\ [Next]_vars => TypeOK'
<1> SUFFICES ASSUME Inv, [Next]_vars PROVE TypeOK'
  OBVIOUS
<1> USE PlanRegistryAssumption
<1>0. TypeOK
  BY DEF Inv
<1>1. ASSUME NEW a \in Agents, NEW t \in Titles, Create(a, t) PROVE TypeOK'
  <2>1. pc' \in [Agents -> Label] /\ title' \in [Agents -> Titles] /\ calls' \in 0..MaxCalls
    BY <1>0, <1>1 DEF TypeOK, Create, Goto, Label
  <2>2. QED BY <1>0, <1>1, <2>1 DEF TypeOK, Create
<1>2. ASSUME NEW a \in Agents, Enter(a) PROVE TypeOK'
  <2>1. Load(registry) \in Table
    BY <1>0, <1>2, LoadReads DEF Enter, Read
  <2>2. pc' \in [Agents -> Label] /\ view' \in [Agents -> Table \cup {Broken}]
    BY <1>0, <1>2, <2>1 DEF TypeOK, Enter, Goto, Label, Table
  <2>3. QED BY <1>0, <1>2, <2>2 DEF TypeOK, Enter, mine, Table
<1>3. ASSUME NEW a \in Agents, Unreadable(a) PROVE TypeOK'
  <2>1. /\ pc' \in [Agents -> Label] /\ num' \in [Agents -> 0..MaxPlan]
        /\ title' \in [Agents -> Titles] /\ original' \in [Agents -> IndexText]
    BY <1>0, <1>3, OnErrorTyped DEF Unreadable
  <2>2. QED BY <1>0, <1>3, <2>1 DEF TypeOK, Unreadable
<1>4. ASSUME NEW a \in Agents, Block(a) PROVE TypeOK'
  <2>1. Inside(a) /\ view[a] \in Table /\ (pc[a] # "reserving" => num[a] \in Plan)
    BY <1>4 DEF Block, Reserve, Consume, Release, Inside, Inv, Locked, Read, Numbered, Holds
  <2>2. registry' \in Table
    BY <1>4, <2>1, Bodies DEF Block, Reserve, Consume, Release, Save
  <2>3. /\ lock' = NoAgent /\ view' \in [Agents -> Table \cup {Broken}]
        /\ UNCHANGED <<files, index, calls, faults, lost>>
    BY <1>0, <1>4 DEF TypeOK, Block, Reserve, Consume, Release, Save, Table
  <2>4. /\ pc' \in [Agents -> Label] /\ num' \in [Agents -> 0..MaxPlan]
        /\ title' \in [Agents -> Titles] /\ original' \in [Agents -> IndexText]
    <3>1. CASE Reserve(a)
      BY <1>0, <3>1 DEF TypeOK, Reserve, Goto, Label, Plan
    <3>2. CASE Consume(a)
      BY <1>0, <3>2, EndTyped DEF TypeOK, Consume, Stay, Goto, mine, Label
    <3>3. CASE Release(a)
      BY <1>0, <3>3, EndTyped DEF Release
    <3>4. QED BY <1>4, <3>1, <3>2, <3>3 DEF Block
  <2>5. QED BY <1>0, <2>2, <2>3, <2>4 DEF TypeOK, Table
<1>5. ASSUME NEW a \in Agents, Step(a) PROVE TypeOK'
  <2>1. pc' \in [Agents -> Label]
    BY <1>0, <1>5 DEF TypeOK, Step, Check, ReadIndex, WritePlan, WritePlanFails, OpenIndex,
                      WriteIndex, WriteIndexFails, Undo, Goto, Label
  <2>2. pc[a] \in {"plan", "indexing"} => num[a] \in Plan
    BY DEF Inv, Numbered, Holds
  <2>3. files' \subseteq File
    <3>1. pc[a] = "plan" => Own(a) \in File
      BY <1>0, <2>2 DEF TypeOK, Own, File
    <3>2. QED BY <1>0, <1>5, <3>1 DEF TypeOK, Step, Check, ReadIndex, WritePlan,
                      WritePlanFails, OpenIndex, WriteIndex, WriteIndexFails, Undo
  <2>4. index' \in IndexText
    <3>1. CASE WriteIndex(a)
      BY <1>0, <2>2, <3>1, TextTyped DEF WriteIndex
    <3>2. CASE OpenIndex(a)
      BY <3>2 DEF OpenIndex, Truncated, IndexText
    <3>3. CASE WriteIndexFails(a)
      <4>1. Text(a) \in IndexText /\ index \in IndexText
        BY <1>0, <2>2, TextTyped DEF TypeOK
      <4>2. QED BY <3>3, <4>1, CutIndexTyped DEF WriteIndexFails
    <3>4. QED BY <1>0, <1>5, <3>1, <3>2, <3>3 DEF TypeOK, Step, Check, ReadIndex, WritePlan,
                      WritePlanFails, Undo
  <2>5. original' \in [Agents -> IndexText]
    BY <1>0, <1>5 DEF TypeOK, Step, Check, ReadIndex, WritePlan, WritePlanFails, OpenIndex,
                      WriteIndex, WriteIndexFails, Undo, mine
  <2>6. UNCHANGED <<registry, lock, num, title, view, calls, faults, lost>>
    BY <1>5 DEF Step, Check, ReadIndex, WritePlan, WritePlanFails, OpenIndex, WriteIndex,
                WriteIndexFails, Undo, mine
  <2>7. QED BY <1>0, <2>1, <2>3, <2>4, <2>5, <2>6 DEF TypeOK
<1>6. ASSUME NEW a \in Agents, SaveCutShort(a) PROVE TypeOK'
  <2>1. /\ pc' \in [Agents -> Label] /\ num' \in [Agents -> 0..MaxPlan]
        /\ title' \in [Agents -> Titles] /\ original' \in [Agents -> IndexText]
    BY <1>0, <1>6, EndTyped, OnErrorTyped DEF SaveCutShort
  <2>2. registry' \in Table \cup {Broken} /\ lost' \in BOOLEAN
    <3>1. PICK reg \in Intended(a) : \E new \in CutShort(reg) :
            registry' = new /\ lost' = (lost \/ Loses(reg, new))
      BY <1>6 DEF SaveCutShort
    <3>2. reg \in Table
      BY <1>6, IntendedTyped DEF SaveCutShort
    <3>3. registry' \in Table \cup {Broken}
      BY <3>1, <3>2, CutTyped
    <3>4. lost' \in BOOLEAN
      BY <1>0, <3>1 DEF TypeOK, Loses
    <3>5. QED BY <3>3, <3>4
  <2>3. /\ faults' \in 0..MaxFaults /\ lock' = NoAgent
        /\ view' \in [Agents -> Table \cup {Broken}] /\ UNCHANGED <<files, index, calls>>
    BY <1>0, <1>6 DEF TypeOK, SaveCutShort, Table
  <2>4. QED BY <1>0, <2>1, <2>2, <2>3 DEF TypeOK, Table
<1>7. ASSUME NEW a \in Agents, Crash(a) PROVE TypeOK'
  <2>1. /\ pc' \in [Agents -> Label] /\ num' \in [Agents -> 0..MaxPlan]
        /\ title' \in [Agents -> Titles] /\ original' \in [Agents -> IndexText]
    BY <1>0, <1>7, EndTyped DEF Crash
  <2>2. /\ faults' \in 0..MaxFaults /\ lock' \in Agents \cup {NoAgent}
        /\ view' \in [Agents -> Table \cup {Broken}]
        /\ UNCHANGED <<registry, files, index, calls, lost>>
    BY <1>0, <1>7 DEF TypeOK, Crash, LockWithout, Table
  <2>3. QED BY <1>0, <2>1, <2>2 DEF TypeOK, Table
<1>8. ASSUME NEW n \in Plan, MarkHistorical(n) PROVE TypeOK'
  <2>1. Load(registry) \in Table
    BY <1>0, <1>8, LoadReads DEF MarkHistorical, Read
  <2>2. registry' \in Table
    BY <1>8, <2>1 DEF MarkHistorical, Table, Status
  <2>3. QED BY <1>0, <1>8, <2>2 DEF TypeOK, MarkHistorical, mine, Table
<1>9. ASSUME NEW n \in Remote, Pull(n) PROVE TypeOK'
  <2>1. <<n, RemoteTitle>> \in File
    BY DEF File
  <2>2. QED BY <1>0, <1>9, <2>1 DEF TypeOK, Pull, mine
<1>10. ASSUME NEW a \in Agents, Strands(a) PROVE TypeOK'
  <2>1. /\ pc' \in [Agents -> Label] /\ num' \in [Agents -> 0..MaxPlan]
        /\ title' \in [Agents -> Titles] /\ original' \in [Agents -> IndexText]
    BY <1>0, <1>10, EndTyped DEF Strands
  <2>2. index' \in IndexText
    <3>1. CASE UNCHANGED index
      BY <1>0, <3>1 DEF TypeOK
    <3>2. CASE pc[a] = "restoring" /\ index' \in CutIndex(Text(a))
      BY <1>0, <3>2, TextTyped, CutIndexTyped
    <3>3. QED BY <1>10, <3>1, <3>2 DEF Strands
  <2>3. faults' \in 0..MaxFaults /\ UNCHANGED <<registry, lock, files, view, calls, lost>>
    BY <1>0, <1>10 DEF TypeOK, Strands
  <2>4. QED BY <1>0, <2>1, <2>2, <2>3 DEF TypeOK
<1>11. CASE UNCHANGED vars
  BY <1>0, <1>11 DEF TypeOK, vars, mine
<1>12. QED BY <1>1, <1>2, <1>3, <1>4, <1>5, <1>6, <1>7, <1>8, <1>9, <1>10, <1>11 DEF Next, Locks

-----------------------------------------------------------------------------
(* The rest of the invariant is preserved: by steps outside the lock... *)

LEMMA QuietStep ==
  ASSUME Inv, TypeOK', NEW a \in Agents,
         UNCHANGED <<registry, lock, view, lost>>,
         ~Inside(a), ~Inside(a)', Holds(a)' => Holds(a) /\ num'[a] = num[a],
         \A b \in Agents : b # a => pc'[b] = pc[b] /\ num'[b] = num[b]
  PROVE  Inv'
<1>1. \A b \in Agents : Inside(b)' => Inside(b)
  BY DEF Inside
<1>2. \A b \in Agents : Holds(b)' => Holds(b) /\ num'[b] = num[b]
  BY DEF Holds
<1>3. Locked'
  BY <1>1 DEF Inv, Locked, Read
<1>4. Numbered' /\ Kept' /\ NumbersDistinct'
  BY <1>2 DEF Inv, Numbered, Kept, NumbersDistinct
<1>5. QED BY <1>3, <1>4 DEF Inv

\* ...and by a step that leaves a locked block.
LEMMA LeaveStep ==
  ASSUME Inv, TypeOK', NEW a \in Agents, Inside(a), ~Inside(a)',
         \A b \in Agents : b # a => pc'[b] = pc[b] /\ num'[b] = num[b],
         ~lost' => /\ ~lost /\ registry' \in Table
                   /\ \A b \in Agents : b # a /\ Holds(b) => registry'[num[b]] # "none",
         Holds(a)' => num'[a] \in Plan,
         ~lost' /\ Holds(a)' =>
           /\ registry'[num'[a]] # "none"
           /\ \A b \in Agents : b # a /\ Holds(b) => num[b] # num'[a]
  PROVE  Inv'
<1>1. \A b \in Agents : ~Inside(b)'
  <2>1. \A b \in Agents : Inside(b) => b = a
    BY DEF Inv, Locked
  <2>2. QED BY <2>1 DEF Inside
<1>2. \A b \in Agents : b # a => (Holds(b)' <=> Holds(b)) /\ num'[b] = num[b]
  BY DEF Holds
<1>3. Locked'
  BY <1>1 DEF Locked
<1>4. Numbered'
  BY <1>2 DEF Inv, Numbered
<1>5. Kept'
  BY <1>2 DEF Kept
<1>6. NumbersDistinct'
  BY <1>2 DEF Inv, NumbersDistinct
<1>7. QED BY <1>3, <1>4, <1>5, <1>6 DEF Inv

LEMMA EndQuiet ==
  ASSUME TypeOK, NEW a \in Agents, End(a)
  PROVE  /\ ~Inside(a)' /\ ~Holds(a)'
         /\ \A b \in Agents : b # a => pc'[b] = pc[b] /\ num'[b] = num[b]
BY DEF TypeOK, End, Goto, Inside, Holds

LEMMA OnErrorQuiet ==
  ASSUME TypeOK, NEW a \in Agents, OnError(a)
  PROVE  /\ ~Inside(a)'
         /\ Holds(a)' => pc[a] \in {"consume", "consuming"} /\ num'[a] = num[a]
         /\ \A b \in Agents : b # a => pc'[b] = pc[b] /\ num'[b] = num[b]
<1>1. CASE pc[a] \in {"consume", "consuming"}
  BY <1>1 DEF TypeOK, OnError, Stay, Goto, mine, Inside
<1>2. CASE pc[a] \notin {"consume", "consuming"}
  BY <1>2, EndQuiet DEF OnError
<1>3. QED BY <1>1, <1>2

LEMMA EnterStep ==
  ASSUME Inv, TypeOK', NEW a \in Agents, Enter(a)
  PROVE  Inv'
<1>1. TypeOK /\ ~Inside(a)
  BY DEF Inv, Enter, Waits, Inside
<1>2. \A b \in Agents : ~Inside(b)
  BY PlanRegistryAssumption DEF Inv, Locked, Enter, Free
<1>3. \A b \in Agents : b # a => pc'[b] = pc[b]
  BY <1>1 DEF TypeOK, Enter, Goto
<1>4. Read(Load(registry)) /\ view'[a] = Load(registry) /\ registry' = registry /\ lock' = a
  BY <1>1, LoadReads DEF TypeOK, Enter
<1>5. Locked'
  BY <1>2, <1>3, <1>4 DEF Locked, Inside, Read
<1>6. \A b \in Agents : Holds(b)' => Holds(b)
  BY <1>1, <1>3 DEF TypeOK, Enter, Waits, Goto, Holds
<1>7. Numbered' /\ Kept' /\ NumbersDistinct'
  BY <1>6 DEF Inv, Enter, mine, Numbered, Kept, NumbersDistinct
<1>8. QED BY <1>5, <1>7 DEF Inv

\* What the others hold has an entry in what an agent read under the lock.
LEMMA OthersRead ==
  ASSUME Inv, NEW a \in Agents, Inside(a), NEW b \in Agents, Holds(b), ~lost
  PROVE  num[b] \in Plan /\ view[a] \in Table /\ view[a][num[b]] # "none"
<1>1. num[b] \in Plan /\ registry[num[b]] # "none"
  BY DEF Inv, Numbered, Kept
<1>2. Read(view[a])
  BY DEF Inv, Locked
<1>3. QED BY <1>1, <1>2 DEF Read

LEMMA BlockStep ==
  ASSUME Inv, TypeOK', NEW a \in Agents, Block(a)
  PROVE  Inv'
<1>0. TypeOK /\ Inside(a) /\ view[a] \in Table /\ lost' = lost
  BY DEF Inv, Locked, Read, Block, Reserve, Consume, Release, Inside
<1>1. CASE Reserve(a)
  <2>1. PICK known \in {{}, Remote}, m \in Plan :
          /\ IsNext(m, Numbers(files) \cup known \cup Protected(view[a]))
          /\ num' = [num EXCEPT ![a] = m]
          /\ registry' = Reserved(view[a], m)
    BY <1>1 DEF Reserve, Save
  <2>2. num'[a] = m /\ \A b \in Agents : b # a => pc'[b] = pc[b] /\ num'[b] = num[b]
    BY <1>0, <1>1, <2>1 DEF TypeOK, Reserve, Goto
  <2>3. ASSUME NEW b \in Agents, Holds(b), ~lost
        PROVE  registry'[num[b]] # "none" /\ num[b] # m
    <3>1. num[b] \in Plan /\ view[a][num[b]] # "none"
      BY <1>0, <2>3, OthersRead
    <3>2. registry'[num[b]] # "none"
      BY <1>0, <2>1, <3>1, Bodies
    <3>3. num[b] # m
      BY <1>0, <2>1, <3>1, Fresh
    <3>4. QED BY <3>2, <3>3
  <2>4. registry' \in Table /\ registry'[m] # "none"
    BY <1>0, <2>1, Bodies
  <2>5. ~Inside(a)'
    BY <1>0, <1>1 DEF TypeOK, Reserve, Goto, Inside
  <2>6. QED BY <1>0, <2>2, <2>3, <2>4, <2>5, LeaveStep
<1>2. CASE Consume(a)
  <2>1. Holds(a) /\ num[a] \in Plan /\ registry' = Landed(view[a], num[a])
    BY <1>2 DEF Consume, Save, Inv, Numbered, Holds
  <2>2. /\ ~Inside(a)' /\ (Holds(a)' => num'[a] = num[a])
        /\ \A b \in Agents : b # a => pc'[b] = pc[b] /\ num'[b] = num[b]
    <3>1. CASE End(a)
      BY <1>0, <3>1, EndQuiet
    <3>2. CASE Stay(a, "undo")
      BY <1>0, <3>2 DEF TypeOK, Stay, Goto, mine, Inside
    <3>3. QED BY <1>2, <3>1, <3>2 DEF Consume
  <2>3. \A b \in Agents : Holds(b) /\ ~lost => registry'[num[b]] # "none"
    BY <1>0, <2>1, OthersRead, Bodies
  <2>4. \A b \in Agents : b # a /\ Holds(b) /\ ~lost => num[b] # num[a]
    BY <2>1 DEF Inv, NumbersDistinct
  <2>5. registry' \in Table
    BY <1>0, <2>1, Bodies
  <2>6. QED BY <1>0, <2>1, <2>2, <2>3, <2>4, <2>5, LeaveStep
<1>3. CASE Release(a)
  <2>1. Holds(a) /\ num[a] \in Plan /\ registry' = Dropped(view[a], num[a])
    BY <1>3 DEF Release, Save, Inv, Numbered, Holds
  <2>2. /\ ~Inside(a)' /\ ~Holds(a)'
        /\ \A b \in Agents : b # a => pc'[b] = pc[b] /\ num'[b] = num[b]
    BY <1>0, <1>3, EndQuiet DEF Release
  <2>3. \A b \in Agents : b # a /\ Holds(b) /\ ~lost => num[b] # num[a]
    BY <2>1 DEF Inv, NumbersDistinct
  <2>4. \A b \in Agents : b # a /\ Holds(b) /\ ~lost => registry'[num[b]] # "none"
    BY <1>0, <2>1, <2>3, OthersRead, Bodies
  <2>5. registry' \in Table
    BY <1>0, <2>1, Bodies
  <2>6. QED BY <1>0, <2>2, <2>4, <2>5, LeaveStep
<1>4. QED BY <1>1, <1>2, <1>3 DEF Block

\* A save cut short counts only while it loses nothing, and then keeps what the
\* whole save would have kept.
LEMMA CutShortStep ==
  ASSUME Inv, TypeOK', NEW a \in Agents, SaveCutShort(a)
  PROVE  Inv'
<1>0. TypeOK /\ Inside(a) /\ view[a] \in Table
  BY DEF Inv, Locked, Read, SaveCutShort
<1>1. PICK reg \in Intended(a) : \E new \in CutShort(reg) :
        registry' = new /\ lost' = (lost \/ Loses(reg, new))
  BY DEF SaveCutShort
<1>2. reg \in Table
  BY <1>0, <1>1, IntendedTyped
<1>3. ~lost' => /\ ~lost /\ registry' \in Table
                /\ \A n \in Plan : reg[n] # "none" => registry'[n] # "none"
  BY <1>1, <1>2, CutKeeps
<1>4. /\ ~Inside(a)' /\ (Holds(a)' => pc[a] = "consuming" /\ num'[a] = num[a])
      /\ \A b \in Agents : b # a => pc'[b] = pc[b] /\ num'[b] = num[b]
  <2>1. CASE End(a)
    BY <1>0, <2>1, EndQuiet
  <2>2. CASE OnError(a)
    BY <1>0, <2>2, OnErrorQuiet DEF Inside
  <2>3. QED BY <2>1, <2>2 DEF SaveCutShort
<1>5. ASSUME NEW b \in Agents, Holds(b), ~lost, b # a \/ pc[a] = "consuming"
      PROVE  num[b] \in Plan /\ reg[num[b]] # "none"
  <2>1. num[b] \in Plan /\ view[a][num[b]] # "none"
    BY <1>0, <1>5, OthersRead
  <2>2. CASE pc[a] = "reserving"
    <3>1. \E m \in Plan : reg = Reserved(view[a], m)
      BY <1>1, <2>2 DEF Intended
    <3>2. QED BY <1>0, <2>1, <3>1, Bodies
  <2>3. CASE pc[a] # "reserving"
    <3>1. Holds(a) /\ num[a] \in Plan
      BY <1>0, <2>3 DEF Inv, Numbered, Holds, Inside
    <3>2. pc[a] = "consuming" => reg = Landed(view[a], num[a])
      BY <1>1 DEF Intended
    <3>3. pc[a] = "releasing" => reg = Dropped(view[a], num[a]) /\ num[b] # num[a]
      BY <1>1, <1>5, <3>1 DEF Intended, Inv, NumbersDistinct
    <3>4. QED BY <1>0, <2>1, <2>3, <3>1, <3>2, <3>3, Bodies DEF Inside
  <2>4. QED BY <2>2, <2>3
<1>6. \A b \in Agents : b # a /\ Holds(b) /\ Holds(a) /\ ~lost => num[b] # num[a]
  BY DEF Inv, NumbersDistinct
<1>7. pc[a] = "consuming" => Holds(a) /\ num[a] \in Plan
  BY DEF Inv, Numbered, Holds
<1>8. ~lost' => \A b \in Agents : b # a /\ Holds(b) => registry'[num[b]] # "none"
  BY <1>3, <1>5
<1>9. Holds(a)' => num'[a] \in Plan
  BY <1>4, <1>7
<1>10. ~lost' /\ Holds(a)' => registry'[num'[a]] # "none"
  BY <1>3, <1>4, <1>5, <1>7
<1>11. ~lost' /\ Holds(a)' => \A b \in Agents : b # a /\ Holds(b) => num[b] # num'[a]
  BY <1>3, <1>4, <1>6, <1>7
<1>12. QED BY <1>0, <1>3, <1>4, <1>8, <1>9, <1>10, <1>11, LeaveStep

LEMMA CrashStep ==
  ASSUME Inv, TypeOK', NEW a \in Agents, Crash(a)
  PROVE  Inv'
<1>0. TypeOK /\ registry' = registry /\ lost' = lost
  BY DEF Inv, Crash
<1>1. /\ ~Inside(a)' /\ ~Holds(a)'
      /\ \A b \in Agents : b # a => pc'[b] = pc[b] /\ num'[b] = num[b]
  BY <1>0, EndQuiet DEF Crash
<1>2. CASE Inside(a)
  BY <1>0, <1>1, <1>2, LeaveStep DEF Inv, Kept
<1>3. CASE ~Inside(a)
  <2>1. lock' = lock /\ \A b \in Agents : b # a => view'[b] = view[b]
    BY <1>0, <1>3 DEF TypeOK, Crash, LockWithout
  <2>2. \A b \in Agents : Inside(b)' => b # a /\ Inside(b)
    BY <1>1 DEF Inside
  <2>3. \A b \in Agents : Holds(b)' => b # a /\ Holds(b)
    BY <1>1 DEF Holds
  <2>4. Locked'
    BY <1>0, <2>1, <2>2 DEF Inv, Locked, Read
  <2>5. Numbered' /\ Kept' /\ NumbersDistinct'
    BY <1>0, <1>1, <2>3 DEF Inv, Numbered, Kept, NumbersDistinct
  <2>6. QED BY <2>4, <2>5 DEF Inv
<1>4. QED BY <1>2, <1>3

LEMMA MarkStep ==
  ASSUME Inv, TypeOK', NEW n \in Plan, MarkHistorical(n)
  PROVE  Inv'
<1>1. \A b \in Agents : ~Inside(b)
  BY PlanRegistryAssumption DEF Inv, Locked, MarkHistorical
<1>2. Read(Load(registry))
  BY LoadReads DEF Inv, MarkHistorical
<1>3. registry' \in Table
  BY <1>2 DEF MarkHistorical, Read, Table, Status
<1>4. \A m \in Plan : registry[m] # "none" => registry'[m] # "none"
  BY <1>2 DEF MarkHistorical, Read, Table
<1>5. UNCHANGED <<pc, num, lost>>
  BY DEF MarkHistorical, mine
<1>6. Locked'
  BY <1>1, <1>5 DEF Locked, Inside
<1>7. Numbered' /\ NumbersDistinct'
  BY <1>5 DEF Inv, Numbered, NumbersDistinct, Holds
<1>8. Kept'
  BY <1>3, <1>4, <1>5 DEF Inv, Numbered, Kept, Holds
<1>9. QED BY <1>6, <1>7, <1>8 DEF Inv

-----------------------------------------------------------------------------
LEMMA NextInv == Inv /\ [Next]_vars => Inv'
<1> SUFFICES ASSUME Inv, [Next]_vars PROVE Inv'
  OBVIOUS
<1>0. TypeOK /\ TypeOK'
  BY TypeStep DEF Inv
<1>1. ASSUME NEW a \in Agents, NEW t \in Titles, Create(a, t) PROVE Inv'
  <2>1. ~Inside(a) /\ ~Inside(a)' /\ ~Holds(a)'
    BY <1>0, <1>1 DEF TypeOK, Create, Goto, Inside, Holds
  <2>2. \A b \in Agents : b # a => pc'[b] = pc[b] /\ num'[b] = num[b]
    BY <1>0, <1>1 DEF TypeOK, Create, Goto
  <2>3. UNCHANGED <<registry, lock, view, lost>>
    BY <1>1 DEF Create
  <2>4. QED BY <1>0, <2>1, <2>2, <2>3, QuietStep
<1>2. ASSUME NEW a \in Agents, Enter(a) PROVE Inv'
  BY <1>0, <1>2, EnterStep
<1>3. ASSUME NEW a \in Agents, Unreadable(a) PROVE Inv'
  <2>1. ~Inside(a) /\ UNCHANGED <<registry, lock, view, lost>>
    BY <1>3 DEF Unreadable, Waits, Inside
  <2>2. /\ ~Inside(a)' /\ (Holds(a)' => Holds(a) /\ num'[a] = num[a])
        /\ \A b \in Agents : b # a => pc'[b] = pc[b] /\ num'[b] = num[b]
    BY <1>0, <1>3, OnErrorQuiet DEF Unreadable, Holds
  <2>3. QED BY <1>0, <2>1, <2>2, QuietStep
<1>4. ASSUME NEW a \in Agents, Block(a) PROVE Inv'
  BY <1>0, <1>4, BlockStep
<1>5. ASSUME NEW a \in Agents, Step(a) PROVE Inv'
  <2>1. UNCHANGED <<registry, lock, view, lost, num>>
    BY <1>5 DEF Step, Check, ReadIndex, WritePlan, WritePlanFails, OpenIndex, WriteIndex,
                WriteIndexFails, Undo, mine
  <2>2. Holds(a) /\ ~Inside(a) /\ ~Inside(a)' /\ \A b \in Agents : b # a => pc'[b] = pc[b]
    BY <1>0, <1>5 DEF TypeOK, Step, Check, ReadIndex, WritePlan, WritePlanFails, OpenIndex,
                      WriteIndex, WriteIndexFails, Undo, Goto, Inside, Holds
  <2>3. QED BY <1>0, <2>1, <2>2, QuietStep
<1>6. ASSUME NEW a \in Agents, SaveCutShort(a) PROVE Inv'
  BY <1>0, <1>6, CutShortStep
<1>7. ASSUME NEW a \in Agents, Crash(a) PROVE Inv'
  BY <1>0, <1>7, CrashStep
<1>8. ASSUME NEW n \in Plan, MarkHistorical(n) PROVE Inv'
  BY <1>0, <1>8, MarkStep
<1>9. CASE (\E n \in Remote : Pull(n)) \/ UNCHANGED vars
  <2>1. UNCHANGED <<registry, lock, view, lost, pc, num>>
    BY <1>9 DEF Pull, vars, mine
  <2>2. QED BY <1>0, <2>1 DEF Inv, Locked, Read, Numbered, Kept, NumbersDistinct, Inside, Holds
<1>10. ASSUME NEW a \in Agents, Strands(a) PROVE Inv'
  <2>1. ~Inside(a) /\ UNCHANGED <<registry, lock, view, lost>>
    BY <1>10 DEF Strands, Inside
  <2>2. /\ ~Inside(a)' /\ ~Holds(a)'
        /\ \A b \in Agents : b # a => pc'[b] = pc[b] /\ num'[b] = num[b]
    BY <1>0, <1>10, EndQuiet DEF Strands
  <2>3. QED BY <1>0, <2>1, <2>2, QuietStep
<1>11. QED BY <1>1, <1>2, <1>3, <1>4, <1>5, <1>6, <1>7, <1>8, <1>9, <1>10 DEF Next, Locks

\* The inductive invariant of the registry: types; an agent in a locked block
\* has the lock, and the registry is the one it read; a number in use has an
\* entry and one user.
THEOREM Invariance == Spec => []Inv
<1>1. Inv /\ [Next]_vars => Inv'
  BY NextInv
<1>2. QED BY InitInv, <1>1, PTL DEF Spec

\* Every variable of the registry and of the plan directory keeps its type.
THEOREM TypeCorrect == Spec => []TypeOK
<1>1. Inv => TypeOK
  BY DEF Inv
<1>2. QED BY Invariance, <1>1, PTL

\* "Multiple local agents cannot reserve the same plan number": the numbers of
\* the calls in progress differ, whatever agents die and saves fail, as long as
\* no save that was cut short has lost a reservation.
THEOREM NumbersAreDistinct == Spec => []NumbersDistinct
<1>1. Inv => NumbersDistinct
  BY DEF Inv
<1>2. QED BY Invariance, <1>1, PTL

-----------------------------------------------------------------------------
(* A consumed number stays consumed. *)

\* What a locked block writes, or meant to write, keeps every consumed entry.
LEMMA IntendedKeeps ==
  ASSUME Inv, NEW a \in Agents, Inside(a), NEW reg \in Intended(a),
         NEW n \in Plan, registry[n] \in Consumed
  PROVE  reg[n] \in Consumed
<1>1. view[a] \in Table /\ view[a][n] \in Consumed
  BY DEF Inv, Locked, Read, Consumed
<1>2. CASE pc[a] = "reserving"
  <2>1. PICK m \in Plan, known \in {{}, Remote} :
          /\ reg = Reserved(view[a], m)
          /\ IsNext(m, Numbers(files) \cup known \cup Protected(view[a]))
    BY <1>2 DEF Intended
  <2>2. n # m
    BY <1>1, <2>1, Fresh DEF Consumed
  <2>3. QED BY <1>1, <2>1, <2>2 DEF Reserved, Table
<1>3. CASE pc[a] # "reserving"
  <2>1. num[a] \in Plan
    BY <1>3 DEF Inv, Numbered, Holds, Inside
  <2>2. reg = Landed(view[a], num[a]) \/ reg = Dropped(view[a], num[a])
    BY <1>3 DEF Intended, Inside
  <2>3. QED BY <1>1, <2>1, <2>2 DEF Landed, Dropped, Table, Consumed
<1>4. QED BY <1>2, <1>3

LEMMA BlockIntends ==
  ASSUME NEW a \in Agents, Block(a)
  PROVE  Inside(a) /\ registry' \in Intended(a)
<1>1. CASE Reserve(a)
  BY <1>1 DEF Reserve, Save, Intended, Inside
<1>2. CASE Consume(a)
  BY <1>2 DEF Consume, Save, Intended, Inside
<1>3. CASE Release(a)
  BY <1>3 DEF Release, Save, Intended, Inside
<1>4. QED BY <1>1, <1>2, <1>3 DEF Block

\* A consumed number is never given back, for any number of agents and faults,
\* as long as no save that was cut short has lost a reservation.
THEOREM ConsumedIsForGood == Spec => ConsumedForGood
<1>1. Inv /\ [Next]_vars =>
        \A n \in Plan : ~lost' /\ ~lost /\ registry[n] \in Consumed => registry'[n] \in Consumed
  <2> SUFFICES ASSUME Inv, [Next]_vars, NEW n \in Plan, ~lost', ~lost, registry[n] \in Consumed
               PROVE  registry'[n] \in Consumed
    OBVIOUS
  <2>1. CASE registry' = registry
    BY <2>1
  <2>2. ASSUME NEW a \in Agents, Block(a) PROVE registry'[n] \in Consumed
    BY <2>2, BlockIntends, IntendedKeeps
  <2>3. ASSUME NEW a \in Agents, SaveCutShort(a) PROVE registry'[n] \in Consumed
    <3>1. PICK reg \in Intended(a) : \E new \in CutShort(reg) :
            registry' = new /\ lost' = (lost \/ Loses(reg, new))
      BY <2>3 DEF SaveCutShort
    <3>2. reg \in Table /\ reg[n] \in Consumed
      BY <2>3, <3>1, IntendedTyped, IntendedKeeps DEF SaveCutShort
    <3>3. registry' \in CutShort(reg) /\ ~Loses(reg, registry')
      BY <3>1
    <3>4. registry' # Broken /\ registry'[n] # "none"
      BY <3>2, <3>3 DEF Loses, Consumed
    <3>5. registry'[n] \in {reg[n], "none"}
      BY <3>3, <3>4 DEF CutShort
    <3>6. QED BY <3>2, <3>4, <3>5
  <2>4. ASSUME NEW m \in Plan, MarkHistorical(m) PROVE registry'[n] \in Consumed
    <3>1. Read(Load(registry))
      BY <2>4, LoadReads DEF Inv, MarkHistorical
    <3>2. QED BY <2>4, <3>1 DEF MarkHistorical, Read, Table, Consumed
  <2>5. registry' = registry \/ (\E a \in Agents : Block(a) \/ SaveCutShort(a))
          \/ \E m \in Plan : MarkHistorical(m)
    BY DEF Next, Locks, Create, Enter, Unreadable, Step, Check, ReadIndex, WritePlan,
           WritePlanFails, OpenIndex, WriteIndex, WriteIndexFails, Undo, Strands, Crash, Pull, vars
  <2>6. QED BY <2>1, <2>2, <2>3, <2>4, <2>5
<1>2. QED BY Invariance, <1>1, PTL DEF Spec, ConsumedForGood

-----------------------------------------------------------------------------
(* All or nothing. *)

\* The numbers nobody but create_plan() brings a file or an entry of.
NewPlans == Plan \ (Legacy \cup Remote)

\* Between the write of its plan and the end of the call.
Written(a) == pc[a] \in {"index", "indexing", "consume", "consuming"}

\* A number in use is reserved, and has no file but its user's, which is there
\* while the call goes well.
Holder(a) ==
  Holds(a) /\ num[a] \in NewPlans =>
    /\ registry[num[a]] = "reserved"
    /\ Written(a) => Own(a) \in files
    /\ \A f \in files : f[1] = num[a] => f = Own(a) /\ (Written(a) \/ pc[a] = "undo")

Used(n) == \E a \in Agents : Holds(a) /\ num[a] = n

\* A number is in use while it is reserved; it has a file once it is consumed,
\* and none that neither a user nor the registry answers for.
Settled(n) ==
  /\ registry[n] # "consumed"
  /\ registry[n] = "reserved" => Used(n)
  /\ registry[n] \in Consumed => n \in Numbers(files)
  /\ n \in Numbers(files) => registry[n] \in Consumed \/ Used(n)

Fine == ~lost /\ (\A a \in Agents : Holder(a)) /\ (\A n \in NewPlans : Settled(n))

Undisturbed == faults = 0 => Fine

LEMMA InitUndisturbed == Init => Undisturbed
<1> SUFFICES ASSUME Init PROVE Fine
  BY DEF Undisturbed
<1>1. ~lost /\ \A a \in Agents : ~Holds(a)
  BY DEF Init, Holds
<1>2. ASSUME NEW n \in NewPlans PROVE Settled(n)
  <2>1. registry[n] = "none"
    BY DEF Init, NewPlans
  <2>2. n \notin Numbers(files)
    BY DEF Init, NewPlans, Numbers
  <2>3. QED BY <2>1, <2>2 DEF Settled, Consumed
<1>3. QED BY <1>1, <1>2 DEF Fine, Holder

\* A step that does not change who uses what, nor the entry or the files of a
\* new number.
LEMMA QuietFine ==
  ASSUME Fine, lost' = lost,
         \A b \in Agents : Holds(b)' <=> Holds(b),
         \A b \in Agents : Holds(b) =>
           /\ num'[b] = num[b] /\ title'[b] = title[b]
           /\ (Written(b)' <=> Written(b)) /\ (pc'[b] = "undo" <=> pc[b] = "undo"),
         \A n \in NewPlans : \/ registry'[n] = registry[n]
                             \/ {registry[n], registry'[n]} \subseteq {"landed", "historical"},
         \A f \in files \cup files' : f[1] \in NewPlans => (f \in files' <=> f \in files)
  PROVE  Fine'
<1>1. ASSUME NEW b \in Agents PROVE Holder(b)'
  <2>1. SUFFICES ASSUME Holds(b), num[b] \in NewPlans, num'[b] = num[b]
                 PROVE  /\ registry'[num[b]] = "reserved"
                        /\ Written(b)' => Own(b)' \in files'
                        /\ \A f \in files' : f[1] = num[b] =>
                             f = Own(b)' /\ (Written(b)' \/ pc'[b] = "undo")
    BY DEF Holder
  <2>2. Own(b)' = Own(b) /\ Own(b)[1] = num[b]
    BY <2>1 DEF Own
  <2>3. registry[num[b]] = "reserved" /\ (Written(b) => Own(b) \in files)
        /\ \A f \in files : f[1] = num[b] => f = Own(b) /\ (Written(b) \/ pc[b] = "undo")
    BY <2>1 DEF Fine, Holder
  <2>4. registry'[num[b]] = "reserved"
    BY <2>1, <2>3
  <2>5. Written(b)' => Own(b)' \in files'
    BY <2>1, <2>2, <2>3
  <2>6. ASSUME NEW f \in files', f[1] = num[b]
        PROVE  f = Own(b)' /\ (Written(b)' \/ pc'[b] = "undo")
    BY <2>1, <2>2, <2>3, <2>6
  <2>7. QED BY <2>4, <2>5, <2>6
<1>2. ASSUME NEW n \in NewPlans PROVE Settled(n)'
  <2>1. Settled(n)
    BY DEF Fine
  <2>2. Used(n)' <=> Used(n)
    BY DEF Used
  <2>3. n \in Numbers(files') <=> n \in Numbers(files)
    BY DEF Numbers
  <2>4. QED BY <2>1, <2>2, <2>3 DEF Settled, Consumed
<1>3. QED BY <1>1, <1>2 DEF Fine

\* A step of one agent, on the number it uses or comes to use.
LEMMA OwnFine ==
  ASSUME Fine, ~lost', NEW a \in Agents, NEW m \in Plan,
         \A b \in Agents : b # a => pc'[b] = pc[b] /\ num'[b] = num[b] /\ title'[b] = title[b],
         Holds(a) => num[a] = m, Holds(a)' => num'[a] = m,
         \A b \in Agents : b # a /\ Holds(b) => num[b] # m,
         \A n \in NewPlans : n # m => registry'[n] = registry[n],
         \A f \in files \cup files' : f[1] # m => (f \in files' <=> f \in files),
         Holder(a)', m \in NewPlans => Settled(m)'
  PROVE  Fine'
<1>1. ASSUME NEW b \in Agents, b # a PROVE Holder(b)'
  <2>1. SUFFICES ASSUME Holds(b), num[b] \in NewPlans, num'[b] = num[b], num[b] # m
                 PROVE  /\ registry'[num[b]] = "reserved"
                        /\ Written(b) => Own(b) \in files'
                        /\ \A f \in files' : f[1] = num[b] =>
                             f = Own(b) /\ (Written(b) \/ pc[b] = "undo")
    BY <1>1 DEF Holder, Holds, Written, Own
  <2>2. Own(b)[1] = num[b]
    BY DEF Own
  <2>3. registry[num[b]] = "reserved" /\ (Written(b) => Own(b) \in files)
        /\ \A f \in files : f[1] = num[b] => f = Own(b) /\ (Written(b) \/ pc[b] = "undo")
    BY <2>1 DEF Fine, Holder
  <2>4. QED BY <2>1, <2>2, <2>3
<1>2. ASSUME NEW n \in NewPlans, n # m PROVE Settled(n)'
  <2>1. Settled(n) /\ registry'[n] = registry[n]
    BY <1>2 DEF Fine
  <2>2. Used(n)' <=> Used(n)
    BY <1>2 DEF Used, Holds
  <2>3. n \in Numbers(files') <=> n \in Numbers(files)
    BY <1>2 DEF Numbers
  <2>4. QED BY <2>1, <2>2, <2>3 DEF Settled
<1>3. QED BY <1>1, <1>2 DEF Fine

\* Under the lock, an agent sees the entries of the new numbers as they are.
LEMMA ViewFine ==
  ASSUME Inv, Fine, NEW a \in Agents, Inside(a)
  PROVE  \A n \in NewPlans : view[a][n] = registry[n]
BY DEF Inv, Locked, Read, Fine, Settled, NewPlans

LEMMA ReserveFine ==
  ASSUME Inv, Fine, NEW a \in Agents, Reserve(a)
  PROVE  Fine'
<1>0. TypeOK /\ Inside(a) /\ view[a] \in Table /\ ~lost /\ ~Holds(a)
  BY DEF Inv, Locked, Read, Reserve, Inside, Fine, Holds
<1>1. PICK known \in {{}, Remote}, m \in Plan :
        /\ IsNext(m, Numbers(files) \cup known \cup Protected(view[a]))
        /\ num' = [num EXCEPT ![a] = m]
        /\ registry' = Reserved(view[a], m)
  BY DEF Reserve, Save
<1>2. /\ num'[a] = m /\ pc'[a] = "check" /\ files' = files /\ lost' = lost /\ title' = title
      /\ \A b \in Agents : b # a => pc'[b] = pc[b] /\ num'[b] = num[b]
  BY <1>0, <1>1 DEF TypeOK, Reserve, Goto
<1>3. \A b \in Agents : Holds(b) => num[b] # m
  BY <1>0, <1>1, OthersRead, Fresh
<1>4. m \notin Numbers(files)
  BY <1>1 DEF IsNext, Plan
<1>5. registry'[m] = "reserved" /\ \A n \in Plan : n # m => registry'[n] = view[a][n]
  BY <1>0, <1>1 DEF Reserved, Table
<1>6. \A n \in NewPlans : n # m => registry'[n] = registry[n]
  BY <1>0, <1>5, ViewFine DEF NewPlans
<1>7. Holder(a)'
  BY <1>2, <1>4, <1>5 DEF Holder, Written, Numbers
<1>8. Settled(m)'
  BY <1>2, <1>4, <1>5 DEF Settled, Used, Holds, Consumed
<1>9. ~lost' /\ title' = title /\ (Holds(a)' => num'[a] = m)
  BY <1>0, <1>2
<1>10. QED BY <1>0, <1>2, <1>3, <1>6, <1>7, <1>8, <1>9, OwnFine

\* The number of an agent is nobody else's.
LEMMA Alone ==
  ASSUME Inv, Fine, NEW a \in Agents, Holds(a)
  PROVE  num[a] \in Plan /\ \A b \in Agents : b # a /\ Holds(b) => num[b] # num[a]
BY DEF Inv, Fine, Numbered, NumbersDistinct

LEMMA ConsumeFine ==
  ASSUME Inv, Fine, NEW a \in Agents, Consume(a)
  PROVE  Fine'
<1>a. PICK m \in Plan : m = num[a]
  BY Alone DEF Consume, Holds
<1>0. /\ TypeOK /\ Inside(a) /\ view[a] \in Table /\ ~lost /\ Holds(a) /\ Written(a)
      /\ registry' = Landed(view[a], m) /\ num[a] = m /\ files' = files /\ lost' = lost
  BY <1>a DEF Inv, Locked, Read, Consume, Save, Inside, Fine, Holds, Written
<1>1. m \in Plan /\ \A b \in Agents : b # a /\ Holds(b) => num[b] # m
  BY <1>0, Alone
<1>2. \A n \in Plan : n # m => registry'[n] = view[a][n]
  BY <1>0, <1>1 DEF Landed, Table
<1>3. \A n \in NewPlans : n # m => registry'[n] = registry[n]
  BY <1>0, <1>2, ViewFine DEF NewPlans
<1>4. ASSUME m \in NewPlans
      PROVE  /\ view[a][m] = "reserved" /\ registry'[m] = "landed" /\ m \in Numbers(files')
  <2>1. registry[m] = "reserved" /\ Own(a) \in files
    BY <1>0, <1>4 DEF Fine, Holder
  <2>2. view[a][m] = "reserved"
    BY <1>0, <1>4, <2>1, ViewFine
  <2>3. registry'[m] = "landed"
    BY <1>0, <1>1, <2>2 DEF Landed, Table
  <2>4. QED BY <1>0, <2>1, <2>2, <2>3 DEF Own, Numbers
<1>5. /\ \A b \in Agents : b # a => pc'[b] = pc[b] /\ num'[b] = num[b] /\ title'[b] = title[b]
      /\ Holds(a)' => num'[a] = m
      /\ m \in NewPlans => ~Holds(a)'
  <2>1. CASE view[a][m] = "reserved"
    <3>1. End(a)
      BY <1>0, <2>1 DEF Consume
    <3>2. QED BY <1>0, <3>1 DEF TypeOK, End, Goto, Holds
  <2>2. CASE view[a][m] # "reserved"
    <3>1. Stay(a, "undo")
      BY <1>0, <2>2 DEF Consume
    <3>2. QED BY <1>0, <1>4, <2>2, <3>1 DEF TypeOK, Stay, Goto, mine
  <2>3. QED BY <2>1, <2>2
<1>6. Holder(a)'
  BY <1>5 DEF Holder
<1>7. m \in NewPlans => Settled(m)'
  BY <1>4 DEF Settled, Consumed
<1>8. ~lost' /\ \A f \in files \cup files' : f \in files' <=> f \in files
  BY <1>0
<1>9. QED BY <1>0, <1>1, <1>3, <1>5, <1>6, <1>7, <1>8, OwnFine

LEMMA ReleaseFine ==
  ASSUME Inv, Fine, NEW a \in Agents, Release(a)
  PROVE  Fine'
<1>a. PICK m \in Plan : m = num[a]
  BY Alone DEF Release, Holds
<1>0. /\ TypeOK /\ Inside(a) /\ view[a] \in Table /\ ~lost /\ Holds(a)
      /\ ~Written(a) /\ pc[a] # "undo"
      /\ registry' = Dropped(view[a], m) /\ num[a] = m /\ files' = files /\ lost' = lost /\ End(a)
  BY <1>a DEF Inv, Locked, Read, Release, Save, Inside, Fine, Holds, Written
<1>1. m \in Plan /\ \A b \in Agents : b # a /\ Holds(b) => num[b] # m
  BY <1>0, Alone
<1>2. \A n \in Plan : n # m => registry'[n] = view[a][n]
  BY <1>0, <1>1 DEF Dropped, Table
<1>3. \A n \in NewPlans : n # m => registry'[n] = registry[n]
  BY <1>0, <1>2, ViewFine DEF NewPlans
<1>4. ASSUME m \in NewPlans
      PROVE  registry'[m] = "none" /\ m \notin Numbers(files')
  <2>1. registry[m] = "reserved" /\ \A f \in files : f[1] # m
    BY <1>0, <1>4 DEF Fine, Holder
  <2>2. view[a][m] = "reserved"
    BY <1>0, <1>4, <2>1, ViewFine
  <2>3. QED BY <1>0, <1>1, <2>1, <2>2 DEF Dropped, Table, Numbers
<1>5. /\ \A b \in Agents : b # a => pc'[b] = pc[b] /\ num'[b] = num[b] /\ title'[b] = title[b]
      /\ ~Holds(a)'
  BY <1>0 DEF TypeOK, End, Goto, Holds
<1>6. Holder(a)'
  BY <1>5 DEF Holder
<1>7. m \in NewPlans => Settled(m)'
  BY <1>4 DEF Settled, Consumed
<1>8. ~lost' /\ \A f \in files \cup files' : f \in files' <=> f \in files
  BY <1>0
<1>9. QED BY <1>0, <1>1, <1>3, <1>5, <1>6, <1>7, <1>8, OwnFine

\* The steps outside the lock: the plan's file appears and goes with its user.
LEMMA StepFine ==
  ASSUME Inv, Fine, NEW a \in Agents, Step(a)
  PROVE  Fine'
<1>a. PICK m \in Plan : m = num[a]
  BY Alone DEF Step, Check, ReadIndex, WritePlan, WritePlanFails, OpenIndex, WriteIndex,
               WriteIndexFails, Undo, Holds
<1>0. /\ TypeOK /\ ~lost /\ Holds(a) /\ Holds(a)' /\ num[a] = m
      /\ num' = num /\ title' = title /\ registry' = registry /\ lost' = lost
      /\ \A b \in Agents : b # a => pc'[b] = pc[b]
  BY <1>a DEF Inv, Fine, TypeOK, Step, Check, ReadIndex, WritePlan, WritePlanFails, OpenIndex,
              WriteIndex, WriteIndexFails, Undo, Holds, Goto, mine
<1>1. \A b \in Agents : b # a /\ Holds(b) => num[b] # m
  BY <1>0, Alone
<1>2. m \in NewPlans =>
        /\ registry[m] = "reserved"
        /\ Written(a) => Own(a) \in files
        /\ \A f \in files : f[1] = m => f = Own(a) /\ (Written(a) \/ pc[a] = "undo")
  BY <1>0 DEF Fine, Holder
<1>3. Own(a)' = Own(a) /\ Own(a)[1] = m
  BY <1>0 DEF Own
<1>4. \A f \in files \cup files' : f[1] # m => (f \in files' <=> f \in files)
  BY <1>3 DEF Step, Check, ReadIndex, WritePlan, WritePlanFails, OpenIndex, WriteIndex,
              WriteIndexFails, Undo
<1>5. Holder(a)'
  <2>1. SUFFICES ASSUME m \in NewPlans
                 PROVE  /\ Written(a)' => Own(a) \in files'
                        /\ \A f \in files' : f[1] = m =>
                             f = Own(a) /\ (Written(a)' \/ pc'[a] = "undo")
    BY <1>0, <1>2, <1>3 DEF Holder
  <2>2. CASE WritePlan(a) \/ WritePlanFails(a)
    BY <1>0, <1>2, <2>1, <2>2 DEF TypeOK, WritePlan, WritePlanFails, Goto, Written
  <2>3. CASE Undo(a)
    BY <1>0, <1>2, <2>1, <2>3 DEF TypeOK, Undo, Goto, Written
  <2>4. CASE Check(a) \/ ReadIndex(a) \/ OpenIndex(a) \/ WriteIndex(a) \/ WriteIndexFails(a)
    BY <1>0, <1>2, <2>1, <2>4 DEF TypeOK, Check, ReadIndex, OpenIndex, WriteIndex,
                                  WriteIndexFails, Goto, Written
  <2>5. QED BY <2>2, <2>3, <2>4 DEF Step
<1>6. m \in NewPlans => Settled(m)'
  <2>1. Used(m)'
    BY <1>0 DEF Used
  <2>2. QED BY <1>0, <1>2, <2>1 DEF Settled, Consumed
<1>7. /\ ~lost' /\ (Holds(a)' => num'[a] = m)
      /\ \A b \in Agents : b # a => pc'[b] = pc[b] /\ num'[b] = num[b] /\ title'[b] = title[b]
      /\ \A n \in NewPlans : n # m => registry'[n] = registry[n]
  BY <1>0
<1>8. QED BY <1>0, <1>1, <1>4, <1>5, <1>6, <1>7, OwnFine

\* The steps that touch no new number.
LEMMA OtherFine ==
  ASSUME Inv, Fine, NEW a \in Agents, Enter(a) \/ \E t \in Titles : Create(a, t)
  PROVE  Fine'
<1>0. /\ TypeOK /\ num' = num /\ registry' = registry /\ files' = files /\ lost' = lost
      /\ \A b \in Agents : b # a => pc'[b] = pc[b] /\ title'[b] = title[b]
  BY DEF Inv, TypeOK, Enter, Create, Goto, mine
<1>1. /\ Holds(a)' <=> Holds(a)
      /\ Written(a)' <=> Written(a)
      /\ pc'[a] # "undo" /\ pc[a] # "undo"
      /\ Holds(a) => title' = title
  BY <1>0 DEF TypeOK, Enter, Create, Goto, Waits, Holds, Written, mine
<1>2. \A b \in Agents : /\ Holds(b)' <=> Holds(b)
                        /\ Holds(b) => /\ num'[b] = num[b] /\ title'[b] = title[b]
                                       /\ Written(b)' <=> Written(b)
                                       /\ pc'[b] = "undo" <=> pc[b] = "undo"
  BY <1>0, <1>1 DEF Holds, Written
<1>3. /\ \A n \in NewPlans : registry'[n] = registry[n]
      /\ \A f \in files \cup files' : f \in files' <=> f \in files
  BY <1>0
<1>4. QED BY <1>0, <1>2, <1>3, QuietFine

\* What is done by hand touches no new number either, or only how it was consumed.
LEMMA HandFine ==
  ASSUME Inv, Fine,
         (\E n \in Plan : MarkHistorical(n)) \/ (\E n \in Remote : Pull(n)) \/ UNCHANGED vars
  PROVE  Fine'
<1>1. pc' = pc /\ num' = num /\ title' = title /\ lost' = lost
  BY DEF MarkHistorical, Pull, vars, mine
<1>2. ASSUME NEW n \in NewPlans
      PROVE  \/ registry'[n] = registry[n]
             \/ {registry[n], registry'[n]} \subseteq {"landed", "historical"}
  <2>1. CASE \E m \in Plan : MarkHistorical(m)
    <3>1. PICK m \in Plan : MarkHistorical(m)
      BY <2>1
    <3>2. Read(Load(registry)) /\ Load(registry)[m] = "landed"
          /\ registry' = [Load(registry) EXCEPT ![m] = "historical"]
      BY <3>1, LoadReads DEF Inv, MarkHistorical
    <3>3. n \in Plan /\ registry[n] # "consumed"
      BY DEF NewPlans, Fine, Settled
    <3>4. Load(registry)[n] = registry[n]
      BY <3>2, <3>3 DEF Read
    <3>5. QED BY <3>2, <3>3, <3>4 DEF Read, Table
  <2>2. CASE (\E m \in Remote : Pull(m)) \/ UNCHANGED vars
    BY <2>2 DEF Pull, vars
  <2>3. QED BY <2>1, <2>2
<1>3. \A f \in files \cup files' : f[1] \in NewPlans => (f \in files' <=> f \in files)
  <2>1. CASE \E n \in Remote : Pull(n)
    <3>1. PICK n \in Remote : files' = files \cup {<<n, RemoteTitle>>}
      BY <2>1 DEF Pull
    <3>2. <<n, RemoteTitle>>[1] \notin NewPlans
      BY DEF NewPlans
    <3>3. QED BY <3>1, <3>2
  <2>2. CASE (\E n \in Plan : MarkHistorical(n)) \/ UNCHANGED vars
    BY <2>2 DEF MarkHistorical, vars
  <2>3. QED BY <2>1, <2>2
<1>4. QED BY <1>1, <1>2, <1>3, QuietFine DEF Holds, Written

LEMMA NextUndisturbed == Inv /\ Undisturbed /\ [Next]_vars => Undisturbed'
<1> SUFFICES ASSUME Inv, Undisturbed, [Next]_vars, faults' = 0 PROVE Fine'
  BY DEF Undisturbed
<1>0. faults \in 0..MaxFaults /\ MaxFaults \in Nat
  BY PlanRegistryAssumption DEF Inv, TypeOK
<1>1. ASSUME NEW a \in Agents, SaveCutShort(a) \/ Crash(a) \/ Strands(a) PROVE FALSE
  BY <1>0, <1>1 DEF SaveCutShort, Crash, Strands
<1>2. faults = 0
  BY <1>1 DEF Next, Locks, Block, Step, Create, Enter, Unreadable, Reserve, Consume, Release, Check,
              ReadIndex, WritePlan, WritePlanFails, OpenIndex, WriteIndex, WriteIndexFails, Undo,
              MarkHistorical, Pull, vars
<1>3. Fine
  BY <1>2 DEF Undisturbed
<1>4. ASSUME NEW a \in Agents, Unreadable(a) PROVE Fine'
  <2>1. registry \in Table /\ registry = Broken
    BY <1>3, <1>4 DEF Inv, Fine, Kept, Unreadable
  <2>2. NewPlans = {}
    BY <2>1 DEF Table, Broken, NewPlans
  <2>3. ~lost'
    BY <1>3, <1>4 DEF Fine, Unreadable
  <2>4. QED BY <2>2, <2>3 DEF Fine, Holder
<1>5. ASSUME NEW a \in Agents, Block(a) PROVE Fine'
  BY <1>3, <1>5, ReserveFine, ConsumeFine, ReleaseFine DEF Block
<1>6. ASSUME NEW a \in Agents, Step(a) PROVE Fine'
  BY <1>3, <1>6, StepFine
<1>7. ASSUME NEW a \in Agents, Enter(a) \/ \E t \in Titles : Create(a, t) PROVE Fine'
  BY <1>3, <1>7, OtherFine
<1>8. QED BY <1>1, <1>3, <1>4, <1>5, <1>6, <1>7, HandFine DEF Next, Locks

\* All or nothing, for any number of agents and plans, though plans and index rows
\* fail to be written inside the try block: once every call has ended, a number the
\* agents took is either free again without a plan file, or consumed with one.  Left
\* out are the behaviours `faults' counts: an agent that died, a save of the registry
\* cut short, an index that could not be read, an exception handler that failed.
THEOREM PlansAreAllOrNothing == Spec => []AllOrNothing
<1>1. Inv /\ Undisturbed /\ [Next]_vars => Inv' /\ Undisturbed'
  BY NextInv, NextUndisturbed
<1>2. Init => Inv /\ Undisturbed
  BY InitInv, InitUndisturbed
<1>3. Undisturbed => AllOrNothing
  <2> SUFFICES ASSUME Fine, \A a \in Agents : pc[a] = "idle", NEW n \in NewPlans
               PROVE  /\ registry[n] # "reserved"
                      /\ registry[n] \in Consumed <=> n \in Numbers(files)
    BY DEF Undisturbed, AllOrNothing, NewPlans
  <2>1. ~Used(n)
    BY DEF Used, Holds
  <2>2. QED BY <2>1 DEF Fine, Settled
<1>4. QED BY <1>1, <1>2, <1>3, PTL DEF Spec

=============================================================================
