----------------------------- MODULE DiskCache -----------------------------
(***************************************************************************)
(* DiskCache: several processes share one cache directory.  A step is one  *)
(* system call on a shared file, or the steps around it that no other      *)
(* process can tell apart.  The advisory lock of a key covers the read of  *)
(* get() and the write of set(); every unlink, the listing and the scan of *)
(* evict_expired() are outside it.                                         *)
(*                                                                         *)
(* The hit, miss and eviction counters are not modelled: nothing reads     *)
(* them but stats().                                                       *)
(***************************************************************************)
EXTENDS Integers, FiniteSets

CONSTANTS Procs, Keys,
          NoProc,      \* the holder of a free lock
          TTL,         \* the time to live of every entry
          MaxEntries,  \* max_entries
          MaxOps,      \* bound: operations started in one behaviour
          MaxClock,    \* bound: the clock
          MaxFaults    \* bound: crashes and failed writes

ASSUME DiskCacheAssumption ==
  /\ NoProc \notin Procs
  /\ IsFiniteSet(Keys) /\ Keys # {}
  /\ TTL \in Nat /\ MaxEntries \in Nat
  /\ MaxOps \in Nat /\ MaxClock \in Nat /\ MaxFaults \in Nat

VARIABLES disk,     \* the file of each key
          lock,     \* the holder of each key's lock file
          pc,       \* the step each process is about to take
          key,      \* the key of its operation
          ver,      \* the value it stores, named by the operation's number
          at,       \* stored_at of the envelope, or `now' of evict_expired
          seen,     \* what get() read
          todo,     \* the paths it listed and has not dealt with
          stat,     \* the mtimes an eviction has read of them
          ret,      \* what its last get() returned
          clock, ops, faults,
          damaged,  \* ghost: keys whose last write was cut short
          unswept   \* ghost: a set() ended without enforcing max_entries

local == <<key, ver, at, seen, todo, stat, ret>>
vars  == <<disk, lock, pc, local, clock, ops, faults, damaged, unswept>>

None   == 0
Unread == -1     \* the mtime of a path that has not been stat'ed
Value  == 1..MaxOps
Time   == 0..MaxClock
Absent == [kind |-> "absent"]
TornBy(p) == [kind |-> "torn", by |-> p, mtime |-> clock]
Entry(v, t) == [kind |-> "entry", val |-> v, at |-> t, mtime |-> clock]

Envelope == [kind : {"entry"}, val : Value, at : Time, mtime : Time]
File == {Absent} \cup Envelope \cup [kind : {"torn"}, by : Procs, mtime : Time]

Present    == {k \in Keys : disk[k] # Absent}
Old(f, now) == now - f.at > TTL
Live(f, now) == IF f.kind = "entry" THEN ~Old(f, now) ELSE FALSE

NoStats == [k \in Keys |-> Unread]

Init ==
  /\ disk = [k \in Keys |-> Absent] /\ lock = [k \in Keys |-> NoProc]
  /\ pc = [p \in Procs |-> "idle"]
  /\ key = [p \in Procs |-> CHOOSE k \in Keys : TRUE]
  /\ ver = [p \in Procs |-> None] /\ at = [p \in Procs |-> 0]
  /\ seen = [p \in Procs |-> Absent] /\ todo = [p \in Procs |-> {}]
  /\ stat = [p \in Procs |-> NoStats]
  /\ ret = [p \in Procs |-> None]
  /\ clock = 0 /\ ops = 0 /\ faults = 0
  /\ damaged = {} /\ unswept = FALSE

Goto(p, l) == pc' = [pc EXCEPT ![p] = l]
Begin(p)   == pc[p] = "idle" /\ ops < MaxOps /\ ops' = ops + 1

\* Mutated form: the lock is not waited for.
NeverLocked(k) == TRUE

Free(k)    == lock[k] = NoProc
Unlink(k)  == disk' = [disk EXCEPT ![k] = Absent]

-----------------------------------------------------------------------------
(* get() *)

StartGet(p, k) ==
  /\ Begin(p)
  /\ key' = [key EXCEPT ![p] = k]
  /\ ret' = [ret EXCEPT ![p] = None]
  /\ Goto(p, "get")
  /\ UNCHANGED <<disk, lock, ver, at, seen, todo, stat, clock, faults, damaged, unswept>>

\* Mutated form: the digest in the file's name is cut short, and other keys share it.
SharedFileOf(k) ==
  IF disk[k] = Absent /\ Present # {} THEN disk[CHOOSE j \in Present : TRUE] ELSE disk[k]

\* The file that a get() of k reads, by its _key_path().
FileOf(k) == disk[k]

\* Lock, read, unlock: a missing, empty or half-written file is a miss.
GetRead(p) ==
  /\ pc[p] = "get" /\ Free(key[p])
  /\ IF FileOf(key[p]).kind = "entry"
     THEN seen' = [seen EXCEPT ![p] = FileOf(key[p])] /\ Goto(p, "check")
     ELSE Goto(p, "idle") /\ UNCHANGED seen
  /\ UNCHANGED <<disk, lock, key, ver, at, todo, stat, ret, clock, ops, faults, damaged, unswept>>

\* The lock is released: an expired entry is unlinked by name, whatever the
\* file of that name holds by now.
GetCheck(p) ==
  /\ pc[p] = "check"
  /\ Goto(p, "idle")
  /\ seen' = [seen EXCEPT ![p] = Absent]
  /\ IF Old(seen[p], clock)
     THEN Unlink(key[p]) /\ UNCHANGED ret
     ELSE /\ ret' = [ret EXCEPT ![p] = seen[p].val]
          /\ UNCHANGED disk
  /\ UNCHANGED <<lock, key, ver, at, todo, stat, clock, ops, faults, damaged, unswept>>

-----------------------------------------------------------------------------
(* set(), with its trailing _enforce_max_entries() *)

\* The envelope takes its timestamp before the lock is asked for.
StartSet(p, k) ==
  /\ Begin(p)
  /\ key' = [key EXCEPT ![p] = k]
  /\ ver' = [ver EXCEPT ![p] = ops + 1]
  /\ at' = [at EXCEPT ![p] = clock]
  /\ Goto(p, "set")
  /\ UNCHANGED <<disk, lock, seen, todo, stat, ret, clock, faults, damaged, unswept>>

\* Lock, then write_text() opens the file and truncates it.
SetOpen(p) ==
  /\ pc[p] = "set" /\ Free(key[p])
  /\ lock' = [lock EXCEPT ![key[p]] = p]
  /\ disk' = [disk EXCEPT ![key[p]] = TornBy(p)]
  /\ damaged' = damaged \ {key[p]}
  /\ Goto(p, "write")
  /\ UNCHANGED <<local, clock, ops, faults, unswept>>

\* What the file of p's key holds once p has written its envelope: the envelope;
\* nothing, if the file was unlinked meanwhile; or two envelopes on top of each
\* other, if another writer truncated it too.
Written(p) ==
  LET f == disk[key[p]]
  IN  CASE f = Absent -> Absent
        [] f.kind = "torn" /\ f.by = p -> Entry(ver[p], at[p])
        [] OTHER -> TornBy(p)

\* Write, close, unlock.
SetWrite(p) ==
  /\ pc[p] = "write"
  /\ disk' = [disk EXCEPT ![key[p]] = Written(p)]
  /\ lock' = [lock EXCEPT ![key[p]] = NoProc]
  /\ Goto(p, "list")
  /\ UNCHANGED <<local, clock, ops, faults, damaged, unswept>>

\* The write raises OSError (a full disk): unlock, and set() ends there.
SetFails(p) ==
  /\ pc[p] = "write" /\ faults < MaxFaults
  /\ faults' = faults + 1
  /\ lock' = [lock EXCEPT ![key[p]] = NoProc]
  /\ damaged' = damaged \cup {key[p]}
  /\ unswept' = TRUE
  /\ Goto(p, "idle")
  /\ UNCHANGED <<disk, local, clock, ops>>

\* Mutated form: one entry too many is tolerated.
ExcessPastOne(listed) == Cardinality(listed) - MaxEntries - 1

Excess(listed) == Cardinality(listed) - MaxEntries

List(p) ==
  /\ pc[p] = "list"
  /\ unswept' = FALSE
  /\ IF Excess(Present) <= 0
     THEN Goto(p, "idle") /\ UNCHANGED todo
     ELSE Goto(p, "sort") /\ todo' = [todo EXCEPT ![p] = Present]
  /\ UNCHANGED <<disk, lock, key, ver, at, seen, stat, ret, clock, ops, faults, damaged>>

\* The paths are stat'ed one by one for the sort; one that is gone by then raises
\* FileNotFoundError out of set().
Stat(p) ==
  /\ pc[p] = "sort"
  /\ \E k \in todo[p] :
       /\ stat[p][k] = Unread
       /\ IF disk[k] # Absent
          THEN /\ stat' = [stat EXCEPT ![p] = [@ EXCEPT ![k] = disk[k].mtime]]
               /\ UNCHANGED <<pc, todo, unswept>>
          ELSE /\ stat' = [stat EXCEPT ![p] = NoStats]
               /\ todo' = [todo EXCEPT ![p] = {}]
               /\ unswept' = TRUE
               /\ Goto(p, "idle")
  /\ UNCHANGED <<disk, lock, key, ver, at, seen, ret, clock, ops, faults, damaged>>

\* The oldest are picked by the mtimes that were read; ties are broken either way.
Sort(p) ==
  /\ pc[p] = "sort"
  /\ \A k \in todo[p] : stat[p][k] # Unread
  /\ \E victims \in SUBSET todo[p] :
       /\ Cardinality(victims) = Excess(todo[p])
       /\ \A v \in victims, k \in todo[p] \ victims : stat[p][v] <= stat[p][k]
       /\ todo' = [todo EXCEPT ![p] = victims]
  /\ stat' = [stat EXCEPT ![p] = NoStats]
  /\ Goto(p, "unlink")
  /\ UNCHANGED <<disk, lock, key, ver, at, seen, ret, clock, ops, faults, damaged, unswept>>

\* One path of todo is done with; the operation ends with the last.
Next1(p, k, l) ==
  /\ todo' = [todo EXCEPT ![p] = @ \ {k}]
  /\ Goto(p, IF todo[p] = {k} THEN "idle" ELSE l)

\* The unlink loop of _enforce_max_entries() and of clear().
UnlinkListed(p) ==
  /\ pc[p] = "unlink"
  /\ \E k \in todo[p] : Unlink(k) /\ Next1(p, k, "unlink")
  /\ UNCHANGED <<lock, key, ver, at, seen, stat, ret, clock, ops, faults, damaged, unswept>>

-----------------------------------------------------------------------------
(* clear() and evict_expired(): the directory is listed once, up front. *)

Clear(p) ==
  /\ Begin(p)
  /\ todo' = [todo EXCEPT ![p] = Present]
  /\ Goto(p, IF Present = {} THEN "idle" ELSE "unlink")
  /\ UNCHANGED <<disk, lock, key, ver, at, seen, stat, ret, clock, faults, damaged, unswept>>

EvictExpired(p) ==
  /\ Begin(p)
  /\ at' = [at EXCEPT ![p] = clock]
  /\ todo' = [todo EXCEPT ![p] = Present]
  /\ Goto(p, IF Present = {} THEN "idle" ELSE "scan")
  /\ UNCHANGED <<disk, lock, key, ver, seen, stat, ret, clock, faults, damaged, unswept>>

\* One listed file is read, without its lock: a live entry is kept.
ScanKeeps(p) ==
  /\ pc[p] = "scan"
  /\ \E k \in todo[p] :
       /\ Live(disk[k], at[p])
       /\ Next1(p, k, "scan")
  /\ UNCHANGED <<disk, lock, key, ver, at, seen, stat, ret, clock, ops, faults, damaged, unswept>>

\* An expired, unreadable or vanished one is condemned...
ScanCondemns(p) ==
  /\ pc[p] = "scan"
  /\ \E k \in todo[p] :
       /\ ~Live(disk[k], at[p])
       /\ key' = [key EXCEPT ![p] = k]
  /\ Goto(p, "purge")
  /\ UNCHANGED <<disk, lock, ver, at, seen, todo, stat, ret, clock, ops, faults, damaged, unswept>>

\* ...and unlinked by name.
Purge(p) ==
  /\ pc[p] = "purge"
  /\ Unlink(key[p]) /\ Next1(p, key[p], "scan")
  /\ UNCHANGED <<lock, key, ver, at, seen, stat, ret, clock, ops, faults, damaged, unswept>>

-----------------------------------------------------------------------------
\* Mutated form: the lock outlives its holder.
KeepsLocks(p) == lock

\* The kernel drops a dead process's locks.
LocksWithout(p) == [k \in Keys |-> IF lock[k] = p THEN NoProc ELSE lock[k]]

\* A process dies inside an operation; another one takes its place.
Crash(p) ==
  /\ pc[p] # "idle" /\ faults < MaxFaults
  /\ faults' = faults + 1
  /\ lock' = LocksWithout(p)
  /\ damaged' = IF pc[p] = "write" THEN damaged \cup {key[p]} ELSE damaged
  /\ unswept' = (unswept \/ pc[p] \in {"write", "list", "sort", "unlink"})
  /\ seen' = [seen EXCEPT ![p] = Absent]
  /\ todo' = [todo EXCEPT ![p] = {}]
  /\ stat' = [stat EXCEPT ![p] = NoStats]
  /\ Goto(p, "idle")
  /\ UNCHANGED <<disk, key, ver, at, ret, clock, ops>>

Tick ==
  /\ clock < MaxClock
  /\ clock' = clock + 1
  /\ UNCHANGED <<disk, lock, pc, local, ops, faults, damaged, unswept>>

Start(p) == (\E k \in Keys : StartGet(p, k) \/ StartSet(p, k)) \/ Clear(p) \/ EvictExpired(p)
Locks(p) == GetRead(p) \/ SetOpen(p)
Step(p)  == \/ GetCheck(p) \/ SetWrite(p) \/ List(p) \/ Stat(p) \/ Sort(p)
            \/ UnlinkListed(p) \/ ScanKeeps(p) \/ ScanCondemns(p) \/ Purge(p)

Next == \/ \E p \in Procs : Start(p) \/ Locks(p) \/ Step(p) \/ SetFails(p) \/ Crash(p)
        \/ Tick

Spec == Init /\ [][Next]_vars

\* A running process is scheduled; flock() queues its waiters.
FairSpec == Spec /\ \A p \in Procs : WF_vars(Step(p)) /\ SF_vars(Locks(p))

-----------------------------------------------------------------------------
(* Properties. *)

\* The type of every variable of the cache.
TypeOK ==
  /\ disk \in [Keys -> File]
  /\ lock \in [Keys -> Procs \cup {NoProc}]
  /\ pc \in [Procs -> {"idle", "get", "check", "set", "write", "list", "sort",
                       "unlink", "scan", "purge"}]
  /\ key \in [Procs -> Keys]
  /\ ver \in [Procs -> 0..MaxOps]
  /\ at \in [Procs -> Time]
  /\ seen \in [Procs -> {Absent} \cup Envelope]
  /\ todo \in [Procs -> SUBSET Keys]
  /\ stat \in [Procs -> [Keys -> Time \cup {Unread}]]
  /\ ret \in [Procs -> 0..MaxOps]
  /\ clock \in Time /\ ops \in 0..MaxOps /\ faults \in 0..MaxFaults
  /\ damaged \subseteq Keys /\ unswept \in BOOLEAN

\* "File locking prevents corruption under concurrent access": a file is
\* unreadable only while the holder of its lock is writing it, or after a write
\* of that key was cut short by a crash or a full disk and not yet repaired.
TornOnlyWhileWriting ==
  \A k \in Keys : disk[k].kind = "torn" =>
    \/ lock[k] = disk[k].by /\ pc[lock[k]] = "write" /\ key[lock[k]] = k
    \/ k \in damaged

\* max_entries holds whenever the cache is at rest, however the evictions of
\* concurrent set() calls overlapped, unless the last one to look was cut short.
SizeBoundedAtRest ==
  (\A p \in Procs : pc[p] = "idle") /\ ~unswept => Cardinality(Present) <= MaxEntries

\* Every operation ends: waiting for a lock is over in the end, even when the
\* holder died with it.
OperationsEnd == \A p \in Procs : pc[p] # "idle" ~> pc[p] = "idle"

\* The values and the forgetting of the cache, without files, locks and clocks: a
\* process in get() asks for its key, or has found what the file of the key held.
Contract == INSTANCE CacheContract WITH
  reg  <- [k \in Keys |-> IF disk[k].kind = "entry" THEN disk[k].val ELSE None],
  pend <- {<<key[p], ver[p]>> : p \in {q \in Procs : pc[q] \in {"set", "write"}}},
  call <- [p \in Procs |->
             IF pc[p] = "get" THEN [phase |-> "asked", key |-> key[p]]
             ELSE IF pc[p] = "check"
             THEN [phase |-> "found", key |-> key[p], val |-> seen[p].val]
             ELSE [phase |-> "done", val |-> ret[p]]]

\* The cache implements its contract: a get() returns what the last completed
\* set() of the key it asks for stored, as it stood at some moment of the call,
\* or nothing.
ImplementsContract == Contract!Spec

=============================================================================
