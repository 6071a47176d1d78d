---------------------------- MODULE PlanRegistry ----------------------------
(***************************************************************************)
(* create_plan and the plan reservations of the coordination registry.     *)
(* Several agents reserve a number, write a plan file, add a row to the    *)
(* plan index and consume the reservation.  The registry is one YAML file  *)
(* under an exclusive flock; it is read whole, changed, truncated and      *)
(* written whole.  The plan files and the index have no lock.  A step is   *)
(* one system call, or the steps around it no other agent can tell apart.  *)
(***************************************************************************)
EXTENDS Integers

CONSTANTS Agents, NoAgent,
          Titles,      \* plan titles; a plan file is named by number and title
          Legacy,      \* plans consumed under the first registry version
          Remote,      \* plans on origin/master that the checkout lacks
          RemoteTitle,
          MaxPlan,     \* bound: the greatest number in use
          MaxCalls,    \* bound: create_plan() calls in one behaviour
          MaxFaults    \* bound: crashes, failed saves, failures nothing handles

Plan == 1..MaxPlan

\* MaxPlan leaves a number for every call.
ASSUME PlanRegistryAssumption ==
  /\ MaxPlan \in Nat /\ MaxCalls \in Nat /\ MaxFaults \in Nat
  /\ NoAgent \notin Agents /\ RemoteTitle \in Titles
  /\ Legacy \subseteq Plan /\ Remote \subseteq Plan
  /\ \A n \in Legacy \cup Remote : n + MaxCalls <= MaxPlan

VARIABLES registry,   \* status and lineage of each reservation, or Broken
          lock,       \* the holder of the registry's lock
          files,      \* plan files of the checkout
          index,      \* docs/plans/CLAUDE.md: its rows, and its Status Key section
          pc,
          num, title, \* what each agent creates
          original,   \* the index as it read it
          view,       \* the registry as it read it under the lock
          calls, faults,
          lost        \* ghost: a save that was cut short has lost reservations

mine == <<num, title, original>>
vars == <<registry, lock, files, index, pc, mine, view, calls, faults, lost>>

Label  == {"idle", "reserve", "reserving", "check", "read", "plan", "index", "indexing",
           "consume", "consuming", "undo", "restore", "restoring", "release", "releasing"}
Status == {"none", "reserved", "consumed", "landed", "historical"}
Broken == [n \in {} |-> "none"]   \* a text that is not YAML
IndexText == [key : BOOLEAN, rows : SUBSET Plan]
Truncated == [key |-> FALSE, rows |-> {}]

File     == Plan \X Titles
Consumed == {"consumed", "landed", "historical"}
Numbers(fs) == {f[1] : f \in fs}
Own(a)   == <<num[a], title[a]>>

Init ==
  /\ registry = [n \in Plan |-> IF n \in Legacy THEN "consumed" ELSE "none"]
  /\ lock = NoAgent
  /\ files \in SUBSET (Legacy \X {RemoteTitle})
  /\ index = [key |-> TRUE, rows |-> Legacy]
  /\ pc = [a \in Agents |-> "idle"]
  /\ num = [a \in Agents |-> 0] /\ title = [a \in Agents |-> RemoteTitle]
  /\ original = [a \in Agents |-> Truncated] /\ view = [a \in Agents |-> Broken]
  /\ calls = 0 /\ faults = 0 /\ lost = FALSE

Goto(a, l) == pc' = [pc EXCEPT ![a] = l]
Stay(a, l) == Goto(a, l) /\ UNCHANGED mine

\* The call ends, with a result or with an exception.
End(a) ==
  /\ Goto(a, "idle")
  /\ num' = [num EXCEPT ![a] = 0]
  /\ title' = [title EXCEPT ![a] = RemoteTitle]
  /\ original' = [original EXCEPT ![a] = Truncated]

-----------------------------------------------------------------------------
(* locked_registry() *)

\* Mutated form: the lock is not waited for.
NeverLocked(a) == TRUE

Free(a) == lock = NoAgent

\* Reading reconciles the lineage: a consumed entry of the first version has
\* landed if the checkout has a plan of its number.
Load(reg) == [n \in Plan |->
  IF reg[n] # "consumed" THEN reg[n]
  ELSE IF n \in Numbers(files) THEN "landed" ELSE "historical"]

Waits(a)  == pc[a] \in {"reserve", "consume", "release"}
Inside(a) == pc[a] \in {"reserving", "consuming", "releasing"}

Enter(a) ==
  /\ Waits(a) /\ Free(a) /\ registry # Broken
  /\ lock' = a
  /\ view' = [view EXCEPT ![a] = Load(registry)]
  /\ Goto(a, CASE pc[a] = "reserve" -> "reserving"
               [] pc[a] = "consume" -> "consuming"
               [] OTHER             -> "releasing")
  /\ UNCHANGED <<registry, files, index, mine, calls, faults, lost>>

\* Where an exception inside the block, or a registry that does not parse, leads.
OnError(a) ==
  IF pc[a] \in {"consume", "consuming"}
  THEN Stay(a, "undo")
  ELSE End(a)

Unreadable(a) ==
  /\ Waits(a) /\ Free(a) /\ registry = Broken
  /\ OnError(a)
  /\ UNCHANGED <<registry, lock, files, index, view, calls, faults, lost>>

\* Truncate, dump, unlock.
Save(a, reg) ==
  /\ registry' = reg
  /\ lock' = NoAgent
  /\ view' = [view EXCEPT ![a] = Broken]

-----------------------------------------------------------------------------
(* The bodies of the locked blocks *)

Protected(reg) == {n \in Plan : reg[n] # "none"}

\* max(numbers | reserved) + 1, or 1.
IsNext(n, used) == (\A m \in used : m < n) /\ (n = 1 \/ n - 1 \in used)

Reserved(reg, n) == [reg EXCEPT ![n] = "reserved"]
Landed(reg, n)   == IF reg[n] = "reserved" THEN [reg EXCEPT ![n] = "landed"] ELSE reg

\* Mutated forms: an entry of any status goes; nothing goes.
DropsAny(reg, n) == [reg EXCEPT ![n] = "none"]
DropsNone(reg, n) == reg

Dropped(reg, n)  == IF reg[n] = "reserved" THEN [reg EXCEPT ![n] = "none"] ELSE reg

\* existing_plan_numbers(): the checkout, and origin/master as last fetched.
Reserve(a) ==
  /\ pc[a] = "reserving"
  /\ \E known \in {{}, Remote}, n \in Plan :
       /\ IsNext(n, Numbers(files) \cup known \cup Protected(view[a]))
       /\ num' = [num EXCEPT ![a] = n]
       /\ Save(a, Reserved(view[a], n))
  /\ Goto(a, "check")
  /\ UNCHANGED <<files, index, title, original, calls, faults, lost>>

\* A number that is no longer reserved fails the call.
Consume(a) ==
  /\ pc[a] = "consuming"
  /\ Save(a, Landed(view[a], num[a]))
  /\ IF view[a][num[a]] = "reserved" THEN End(a) ELSE Stay(a, "undo")
  /\ UNCHANGED <<files, index, calls, faults, lost>>

Release(a) ==
  /\ pc[a] = "releasing"
  /\ Save(a, Dropped(view[a], num[a]))
  /\ End(a)
  /\ UNCHANGED <<files, index, calls, faults, lost>>

\* mark_plan_reservation_historical_unlanded(), run by hand between two blocks.
MarkHistorical(n) ==
  /\ lock = NoAgent /\ registry # Broken
  /\ Load(registry)[n] = "landed"
  /\ registry' = [Load(registry) EXCEPT ![n] = "historical"]
  /\ UNCHANGED <<lock, files, index, pc, mine, view, calls, faults, lost>>

-----------------------------------------------------------------------------
(* create_plan() *)

Create(a, t) ==
  /\ pc[a] = "idle" /\ calls < MaxCalls
  /\ calls' = calls + 1
  /\ title' = [title EXCEPT ![a] = t]
  /\ Goto(a, "reserve")
  /\ UNCHANGED <<registry, lock, files, index, num, original, view, faults, lost>>

\* plan_path.exists()
Check(a) ==
  /\ pc[a] = "check"
  /\ Goto(a, IF Own(a) \in files THEN "release" ELSE "read")
  /\ UNCHANGED <<registry, lock, files, index, mine, view, calls, faults, lost>>

ReadIndex(a) ==
  /\ pc[a] = "read"
  /\ original' = [original EXCEPT ![a] = index]
  /\ Goto(a, "plan")
  /\ UNCHANGED <<registry, lock, files, index, num, title, view, calls, faults, lost>>

\* The plan is rendered and written; update_index() refuses an index that has
\* the row already or lacks the Status Key section.
WritePlan(a) ==
  /\ pc[a] = "plan"
  /\ files' = files \cup {Own(a)}
  /\ Goto(a, IF original[a].key /\ num[a] \notin original[a].rows THEN "index" ELSE "undo")
  /\ UNCHANGED <<registry, lock, index, mine, view, calls, faults, lost>>

\* The template cannot be read, or the plan not be written to the end.
WritePlanFails(a) ==
  /\ pc[a] = "plan"
  /\ files' = files \/ files' = files \cup {Own(a)}
  /\ Goto(a, "undo")
  /\ UNCHANGED <<registry, lock, index, mine, view, calls, faults, lost>>

\* index_path.write_text(): open and truncate...
OpenIndex(a) ==
  /\ pc[a] \in {"index", "restore"}
  /\ index' = Truncated
  /\ Goto(a, IF pc[a] = "index" THEN "indexing" ELSE "restoring")
  /\ UNCHANGED <<registry, lock, files, mine, view, calls, faults, lost>>

\* The index as it was read, with the new row or, in the handler, without it.
Text(a) == IF pc[a] = "indexing" THEN [original[a] EXCEPT !.rows = @ \cup {num[a]}]
           ELSE original[a]

\* ...then write.  Another agent's text under it differs in a few rows: what sticks
\* out behind is the end of the document, after its rows and its Status Key.
WriteIndex(a) ==
  /\ pc[a] \in {"indexing", "restoring"}
  /\ index' = Text(a)
  /\ Goto(a, IF pc[a] = "indexing" THEN "consume" ELSE "release")
  /\ UNCHANGED <<registry, lock, files, mine, view, calls, faults, lost>>

\* A write that fails leaves a beginning of the text, or all of it.  An index without
\* its Status Key is refused whatever rows it has: all or none of them will do.
CutIndex(text) == {text, [text EXCEPT !.key = FALSE], Truncated}

\* The index cannot be opened, or not be written: inside the try block.
WriteIndexFails(a) ==
  /\ \/ pc[a] = "index" /\ UNCHANGED index
     \/ pc[a] = "indexing" /\ index' \in CutIndex(Text(a))
  /\ Goto(a, "undo")
  /\ UNCHANGED <<registry, lock, files, mine, view, calls, faults, lost>>

\* The exception handler: the plan is unlinked, the index restored, the
\* reservation released.
Undo(a) ==
  /\ pc[a] = "undo"
  /\ files' = files \ {Own(a)}
  /\ Goto(a, "restore")
  /\ UNCHANGED <<registry, lock, index, mine, view, calls, faults, lost>>

\* Nothing handles a failing read of the index, before the try block, nor a failing
\* unlink or write in the handler: the reservation stays behind.
Strands(a) ==
  /\ faults < MaxFaults
  /\ faults' = faults + 1
  /\ \/ pc[a] \in {"read", "undo", "restore"} /\ UNCHANGED index
     \/ pc[a] = "restoring" /\ index' \in CutIndex(Text(a))
  /\ End(a)
  /\ UNCHANGED <<registry, lock, files, view, calls, lost>>

-----------------------------------------------------------------------------
(* What happens to it *)

\* A merge brings a plan of origin/master into the checkout.
Pull(n) ==
  /\ <<n, RemoteTitle>> \notin files
  /\ files' = files \cup {<<n, RemoteTitle>>}
  /\ UNCHANGED <<registry, lock, index, pc, mine, view, calls, faults, lost>>

\* What the block of a would have written.
Intended(a) ==
  CASE pc[a] = "reserving" ->
         {Reserved(view[a], n) : n \in {m \in Plan :
            \E known \in {{}, Remote} :
              IsNext(m, Numbers(files) \cup known \cup Protected(view[a]))}}
    [] pc[a] = "consuming" -> {Landed(view[a], num[a])}
    [] OTHER               -> {Dropped(view[a], num[a])}

\* What a text cut short may hold: a prefix that parses, whose last entries are
\* gone, or one that does not.
CutShort(reg) == {Broken} \cup {[n \in Plan |-> IF n <= last THEN reg[n] ELSE "none"] : last \in 0..MaxPlan}

Loses(reg, new) == IF new = Broken THEN TRUE
                   ELSE \E n \in Plan : reg[n] # "none" /\ new[n] = "none"

\* The registry is truncated, and its text is not written to the end: the agent
\* dies, or an OSError leaves the block.
SaveCutShort(a) ==
  /\ Inside(a) /\ faults < MaxFaults
  /\ faults' = faults + 1
  /\ \E reg \in Intended(a) : \E new \in CutShort(reg) :
       /\ registry' = new
       /\ lost' = (lost \/ Loses(reg, new))
  /\ lock' = NoAgent
  /\ view' = [view EXCEPT ![a] = Broken]
  /\ End(a) \/ OnError(a)
  /\ UNCHANGED <<files, index, calls>>

\* Mutated form: the lock outlives its holder.
KeepsLock(a) == lock

\* The kernel drops a dead process's lock.
LockWithout(a) == IF Inside(a) THEN NoAgent ELSE lock

\* An agent dies between two system calls.
Crash(a) ==
  /\ pc[a] # "idle" /\ faults < MaxFaults
  /\ faults' = faults + 1
  /\ lock' = LockWithout(a)
  /\ view' = [view EXCEPT ![a] = Broken]
  /\ End(a)
  /\ UNCHANGED <<registry, files, index, calls, lost>>

Block(a) == Reserve(a) \/ Consume(a) \/ Release(a)
Step(a)  == \/ Check(a) \/ ReadIndex(a) \/ WritePlan(a) \/ WritePlanFails(a)
            \/ OpenIndex(a) \/ WriteIndex(a) \/ WriteIndexFails(a) \/ Undo(a)
Locks(a) == Enter(a) \/ Unreadable(a)

Next ==
  \/ \E a \in Agents : \/ \E t \in Titles : Create(a, t)
                       \/ Locks(a) \/ Block(a) \/ Step(a)
                       \/ Strands(a) \/ SaveCutShort(a) \/ Crash(a)
  \/ \E n \in Plan : MarkHistorical(n)
  \/ \E n \in Remote : Pull(n)

Spec == Init /\ [][Next]_vars

\* A running agent is scheduled; flock() queues its waiters.
FairSpec == Spec /\ \A a \in Agents : WF_vars(Block(a) \/ Step(a)) /\ SF_vars(Locks(a))

-----------------------------------------------------------------------------
(* Properties. *)

\* The type of every variable of the registry and of the plan directory.
TypeOK ==
  /\ registry \in [Plan -> Status] \cup {Broken}
  /\ lock \in Agents \cup {NoAgent}
  /\ files \subseteq File
  /\ index \in IndexText
  /\ pc \in [Agents -> Label]
  /\ num \in [Agents -> 0..MaxPlan] /\ title \in [Agents -> Titles]
  /\ original \in [Agents -> IndexText]
  /\ view \in [Agents -> [Plan -> Status] \cup {Broken}]
  /\ calls \in 0..MaxCalls /\ faults \in 0..MaxFaults /\ lost \in BOOLEAN

\* An agent holds its number from the reservation to the end of the call.
Holds(a) == pc[a] \notin {"idle", "reserve", "reserving"}

\* "Multiple local agents cannot reserve the same plan number": the numbers of
\* the calls in progress differ, unless a save that was cut short has lost some.
NumbersDistinct ==
  ~lost => \A a, b \in Agents : a # b /\ Holds(a) /\ Holds(b) => num[a] # num[b]

\* All or nothing: once every call has ended, a number the agents took is either
\* free again without a plan file, or consumed with one.  So it is when plans or
\* index rows cannot be written inside the try block; it is not when an agent dies
\* or a save of the registry is cut short, nor when the index cannot be read or
\* the handler fails (Strands), which `faults' counts.
AllOrNothing ==
  (\A a \in Agents : pc[a] = "idle") /\ faults = 0 =>
    \A n \in Plan \ (Legacy \cup Remote) :
      /\ registry[n] # "reserved"
      /\ registry[n] \in Consumed <=> n \in Numbers(files)

\* A consumed number is never given back, even when the call that consumed it
\* is told that the save failed and undoes its work.
ConsumedForGood ==
  [][\A n \in Plan : ~lost' /\ ~lost /\ registry[n] \in Consumed => registry'[n] \in Consumed]_vars

\* Every call ends: nobody waits for ever for the lock of an agent that died.
CreateEnds == \A a \in Agents : pc[a] # "idle" ~> pc[a] = "idle"

-----------------------------------------------------------------------------
(* What the documentation says, and the code does not do. *)

\* create_plan(): "Create a plan file and index row under one reserved number":
\* once every call has ended undisturbed, each plan that was created has its row.
IndexListsPlans ==
  (\A a \in Agents : pc[a] = "idle") /\ faults = 0 =>
    \A n \in Plan \ (Legacy \cup Remote) : registry[n] = "landed" => n \in index.rows

=============================================================================
