-------------------------- MODULE DiskCacheProofs --------------------------
(***************************************************************************)
(* The advisory locks keep the cache's files readable, its evictions keep  *)
(* its size within the bound, and it implements a register per key that    *)
(* may forget: for any number of processes and keys, any crash and any     *)
(* failed write.                                                           *)
(***************************************************************************)
EXTENDS DiskCache, FiniteSetTheorems, TLAPS

\* A writer stores a numbered value; what a get() checks is an envelope.
Numbered == \A p \in Procs : pc[p] \in {"set", "write"} => ver[p] \in Value
Reading  == \A p \in Procs : pc[p] = "check" => seen[p] \in Envelope

\* A writer holds the lock of its key, and the file of that key is the one it
\* truncated, or gone: other processes may unlink it, but none puts another there.
Owner ==
  \A p \in Procs : pc[p] = "write" =>
    /\ lock[key[p]] = p /\ key[p] \notin damaged
    /\ disk[key[p]] = Absent \/ (disk[key[p]].kind = "torn" /\ disk[key[p]].by = p)

\* Nobody but the writer of a key holds its lock.
LockUsed == \A k \in Keys : lock[k] # NoProc => pc[lock[k]] = "write" /\ key[lock[k]] = k

\* The inductive invariant: its typing half and its locking half.
TypeInv == TypeOK /\ Numbered /\ Reading
LockInv == Owner /\ LockUsed /\ TornOnlyWhileWriting
Inv     == TypeInv /\ LockInv

-----------------------------------------------------------------------------
(* The three kinds of file. *)

LEMMA FileKinds ==
  ASSUME NEW f \in File
  PROVE  /\ f.kind = "entry" => f \in Envelope
         /\ f.kind = "torn" => f # Absent /\ f.by \in Procs
         /\ f.kind \notin {"entry", "torn"} => f = Absent
BY DEF File, Envelope, Absent

LEMMA AbsentKind == Absent.kind = "absent" /\ Absent \in File
BY DEF Absent, File

LEMMA TornKind ==
  ASSUME TypeOK, NEW p \in Procs
  PROVE  TornBy(p) \in File /\ TornBy(p).kind = "torn" /\ TornBy(p).by = p
BY DEF TypeOK, TornBy, File

LEMMA EntryKind ==
  ASSUME TypeOK, NEW v \in Value, NEW t \in Time
  PROVE  Entry(v, t) \in File /\ Entry(v, t).kind = "entry"
BY DEF TypeOK, Entry, File, Envelope

LEMMA WrittenFile ==
  ASSUME TypeInv, NEW p \in Procs, pc[p] = "write"
  PROVE  Written(p) \in File
<1>1. ver[p] \in Value /\ at[p] \in Time
  BY DEF TypeInv, TypeOK, Numbered
<1>2. TypeOK
  BY DEF TypeInv
<1>3. QED BY <1>1, <1>2, AbsentKind, TornKind, EntryKind DEF Written

-----------------------------------------------------------------------------
LEMMA InitInv == Init => Inv
<1> SUFFICES ASSUME Init PROVE Inv
  OBVIOUS
<1>1. (CHOOSE k \in Keys : TRUE) \in Keys
  BY DiskCacheAssumption
<1>2. TypeOK
  <2>1. 0 \in Time /\ 0 \in 0..MaxOps /\ 0 \in 0..MaxFaults
    BY DiskCacheAssumption DEF Time
  <2>2. disk \in [Keys -> File] /\ lock \in [Keys -> Procs \cup {NoProc}]
    BY AbsentKind DEF Init
  <2>3. key \in [Procs -> Keys] /\ seen \in [Procs -> {Absent} \cup Envelope]
    BY <1>1 DEF Init
  <2>4. stat \in [Procs -> [Keys -> Time \cup {Unread}]]
    BY DEF Init, NoStats
  <2>5. QED BY <2>1, <2>2, <2>3, <2>4 DEF Init, TypeOK, None
<1>3. Numbered /\ Reading /\ Owner /\ LockUsed
  BY DEF Init, Numbered, Reading, Owner, LockUsed
<1>4. TornOnlyWhileWriting
  BY AbsentKind DEF Init, TornOnlyWhileWriting
<1>5. QED BY <1>2, <1>3, <1>4 DEF Inv, TypeInv, LockInv

LEMMA TypeStep ==
  ASSUME TypeInv, [Next]_vars
  PROVE  TypeInv'
<1> USE DiskCacheAssumption DEF TypeInv, TypeOK, Goto, Numbered, Reading
<1>1. ASSUME NEW p \in Procs, NEW k \in Keys, StartGet(p, k) PROVE TypeInv'
  BY <1>1 DEF StartGet, Begin, None
<1>2. ASSUME NEW p \in Procs, NEW k \in Keys, StartSet(p, k) PROVE TypeInv'
  <2>1. ops + 1 \in Value /\ ops' \in 0..MaxOps
    BY <1>2 DEF StartSet, Begin, Value
  <2>2. ops + 1 \in 0..MaxOps
    BY <2>1 DEF Value
  <2>3. QED BY <1>2, <2>1, <2>2 DEF StartSet
<1>3. ASSUME NEW p \in Procs, GetRead(p) PROVE TypeInv'
  <2>1. disk[key[p]] \in File
    OBVIOUS
  <2>2. disk[key[p]].kind = "entry" => disk[key[p]] \in Envelope
    BY <2>1, FileKinds
  <2>3. QED BY <1>3, <2>2 DEF GetRead, FileOf
<1>4. ASSUME NEW p \in Procs, GetCheck(p) PROVE TypeInv'
  <2>1. seen[p].val \in 0..MaxOps
    BY <1>4 DEF GetCheck, Envelope, Value
  <2>2. disk' \in [Keys -> File]
    BY <1>4, AbsentKind DEF GetCheck, Unlink
  <2>3. QED BY <1>4, <2>1, <2>2 DEF GetCheck
<1>5. ASSUME NEW p \in Procs, SetOpen(p) PROVE TypeInv'
  BY <1>5, TornKind DEF SetOpen, local
<1>6. ASSUME NEW p \in Procs, SetWrite(p) PROVE TypeInv'
  BY <1>6, WrittenFile DEF SetWrite, local
<1>7. ASSUME NEW p \in Procs, SetFails(p) PROVE TypeInv'
  BY <1>7 DEF SetFails, local
<1>8. ASSUME NEW p \in Procs, List(p) PROVE TypeInv'
  <2>1. Present \in SUBSET Keys
    BY DEF Present
  <2>2. todo' \in [Procs -> SUBSET Keys] /\ unswept' \in BOOLEAN
    <3>1. todo' = todo \/ todo' = [todo EXCEPT ![p] = Present]
      BY <1>8 DEF List
    <3>2. unswept' = FALSE
      BY <1>8 DEF List
    <3>3. QED BY <2>1, <3>1, <3>2
  <2>3. pc' = [pc EXCEPT ![p] = "idle"] \/ pc' = [pc EXCEPT ![p] = "sort"]
    BY <1>8 DEF List
  <2>4. UNCHANGED <<disk, lock, key, ver, at, seen, stat, ret, clock, ops, faults, damaged>>
    BY <1>8 DEF List
  <2>5. QED BY <2>2, <2>3, <2>4
<1>9. ASSUME NEW p \in Procs, Sort(p) PROVE TypeInv'
  <2>1. todo' \in [Procs -> SUBSET Keys]
    BY <1>9 DEF Sort
  <2>2. stat' \in [Procs -> [Keys -> Time \cup {Unread}]]
    BY <1>9 DEF Sort, NoStats
  <2>3. QED BY <1>9, <2>1, <2>2 DEF Sort
<1>18. ASSUME NEW p \in Procs, Stat(p) PROVE TypeInv'
  <2>1. PICK k \in todo[p] :
             IF disk[k] # Absent
             THEN /\ stat' = [stat EXCEPT ![p] = [@ EXCEPT ![k] = disk[k].mtime]]
                  /\ UNCHANGED <<pc, todo, unswept>>
             ELSE /\ stat' = [stat EXCEPT ![p] = NoStats]
                  /\ todo' = [todo EXCEPT ![p] = {}]
                  /\ unswept' = TRUE
                  /\ pc' = [pc EXCEPT ![p] = "idle"]
    BY <1>18 DEF Stat
  <2>2. k \in Keys /\ disk[k] \in File
    BY <2>1
  <2>3. disk[k] # Absent => disk[k].mtime \in Time
    BY <2>2 DEF File, Envelope
  <2>4. stat' \in [Procs -> [Keys -> Time \cup {Unread}]]
    <3>1. CASE disk[k] = Absent
      BY <2>1, <3>1 DEF NoStats
    <3>2. CASE disk[k] # Absent
      <4>1. stat' = [stat EXCEPT ![p] = [stat[p] EXCEPT ![k] = disk[k].mtime]]
        BY <2>1, <3>2
      <4>2. [stat[p] EXCEPT ![k] = disk[k].mtime] \in [Keys -> Time \cup {Unread}]
        BY <2>3, <3>2
      <4>3. QED BY <4>1, <4>2
    <3>3. QED BY <3>1, <3>2
  <2>5. todo' \in [Procs -> SUBSET Keys] /\ unswept' \in BOOLEAN
    BY <2>1
  <2>6. pc' = pc \/ pc' = [pc EXCEPT ![p] = "idle"]
    BY <2>1
  <2>7. QED BY <1>18, <2>4, <2>5, <2>6 DEF Stat
<1>10. ASSUME NEW p \in Procs, UnlinkListed(p) PROVE TypeInv'
  BY <1>10, AbsentKind DEF UnlinkListed, Unlink, Next1
<1>11. ASSUME NEW p \in Procs, Clear(p) \/ EvictExpired(p) PROVE TypeInv'
  <2>1. Present \in SUBSET Keys
    BY DEF Present
  <2>2. /\ todo' = [todo EXCEPT ![p] = Present] /\ ops' \in 0..MaxOps
        /\ UNCHANGED <<disk, lock, key, ver, seen, stat, ret, clock, faults, damaged, unswept>>
    BY <1>11 DEF Clear, EvictExpired, Begin
  <2>3. \E l \in {"idle", "unlink", "scan"} : pc' = [pc EXCEPT ![p] = l]
    BY <1>11 DEF Clear, EvictExpired
  <2>4. at' \in [Procs -> Time]
    BY <1>11 DEF Clear, EvictExpired
  <2>5. QED BY <2>1, <2>2, <2>3, <2>4
<1>12. ASSUME NEW p \in Procs, ScanKeeps(p) \/ ScanCondemns(p) PROVE TypeInv'
  <2>1. UNCHANGED <<disk, lock, ver, at, seen, stat, ret, clock, ops, faults, damaged, unswept>>
    BY <1>12 DEF ScanKeeps, ScanCondemns
  <2>2. key' \in [Procs -> Keys] /\ todo' \in [Procs -> SUBSET Keys]
    <3>1. CASE ScanKeeps(p)
      BY <3>1 DEF ScanKeeps, Next1
    <3>2. CASE ScanCondemns(p)
      <4>1. PICK k \in todo[p] : key' = [key EXCEPT ![p] = k]
        BY <3>2 DEF ScanCondemns
      <4>2. todo' = todo /\ k \in Keys
        BY <3>2 DEF ScanCondemns
      <4>3. QED BY <4>1, <4>2
    <3>3. QED BY <1>12, <3>1, <3>2
  <2>3. \E l \in {"idle", "scan", "purge"} : pc' = [pc EXCEPT ![p] = l]
    BY <1>12 DEF ScanKeeps, ScanCondemns, Next1
  <2>4. QED BY <2>1, <2>2, <2>3
<1>13. ASSUME NEW p \in Procs, Purge(p) PROVE TypeInv'
  BY <1>13, AbsentKind DEF Purge, Unlink, Next1
<1>14. ASSUME NEW p \in Procs, Crash(p) PROVE TypeInv'
  <2>1. lock' \in [Keys -> Procs \cup {NoProc}]
    BY <1>14 DEF Crash, LocksWithout
  <2>2. damaged' \subseteq Keys /\ unswept' \in BOOLEAN /\ faults' \in 0..MaxFaults
    BY <1>14 DEF Crash
  <2>3. stat' \in [Procs -> [Keys -> Time \cup {Unread}]]
    BY <1>14 DEF Crash, NoStats
  <2>4. QED BY <1>14, <2>1, <2>2, <2>3 DEF Crash
<1>15. CASE Tick
  BY <1>15 DEF Tick, local, Time
<1>16. CASE UNCHANGED vars
  BY <1>16 DEF vars, local
<1>17. QED
  BY <1>1, <1>2, <1>3, <1>4, <1>5, <1>6, <1>7, <1>8, <1>9, <1>10, <1>11, <1>12,
     <1>13, <1>14, <1>15, <1>16, <1>18 DEF Next, Start, Locks, Step
-----------------------------------------------------------------------------
\* A step that opens and closes no file for writing leaves every writer what it
\* had: all it can do to a file is to remove it.
LEMMA Bystander ==
  ASSUME TypeOK, LockInv, lock' = lock, damaged' = damaged,
         \A q \in Procs : pc'[q] = "write" <=> pc[q] = "write",
         \A q \in Procs : pc[q] = "write" => key'[q] = key[q],
         \A k \in Keys : disk'[k] = disk[k] \/ disk'[k] = Absent
  PROVE  LockInv'
<1> USE DEF LockInv
<1>1. Owner'
  BY DEF Owner, TypeOK
<1>0. LockUsed'
  BY DEF LockUsed, TypeOK
<1>2. ASSUME NEW k \in Keys, disk'[k].kind = "torn"
      PROVE  \/ lock'[k] = disk'[k].by /\ pc'[lock'[k]] = "write" /\ key'[lock'[k]] = k
             \/ k \in damaged'
  <2>1. disk'[k] = disk[k] /\ disk[k].by \in Procs
    BY <1>2, AbsentKind, FileKinds DEF TypeOK
  <2>2. QED BY <1>2, <2>1 DEF TornOnlyWhileWriting
<1>3. QED BY <1>0, <1>1, <1>2 DEF TornOnlyWhileWriting

LEMMA OpenStep ==
  ASSUME Inv, NEW p \in Procs, SetOpen(p)
  PROVE  LockInv'
<1> USE DEF Inv, TypeInv, LockInv
<1>1. /\ pc' = [pc EXCEPT ![p] = "write"] /\ key' = key /\ key[p] \in Keys
      /\ lock[key[p]] = NoProc /\ lock' = [lock EXCEPT ![key[p]] = p]
      /\ disk' = [disk EXCEPT ![key[p]] = TornBy(p)]
      /\ damaged' = damaged \ {key[p]}
  BY DEF SetOpen, Free, Goto, local, TypeOK
<1>2. NoProc \notin Procs
  BY DiskCacheAssumption
<1>3. ASSUME NEW q \in Procs, pc'[q] = "write"
      PROVE  /\ lock'[key'[q]] = q /\ key'[q] \notin damaged'
             /\ disk'[key'[q]] = Absent \/ (disk'[key'[q]].kind = "torn" /\ disk'[key'[q]].by = q)
  <2>1. CASE q = p
    BY <1>1, <2>1, TornKind DEF TypeOK
  <2>2. CASE q # p
    <3>1. pc[q] = "write" /\ lock[key[q]] = q /\ key[q] # key[p] /\ key[q] \in Keys
      BY <1>1, <1>2, <1>3, <2>2 DEF TypeOK, Owner
    <3>2. QED BY <1>1, <3>1 DEF TypeOK, Owner
  <2>3. QED BY <2>1, <2>2
<1>4. ASSUME NEW k \in Keys, disk'[k].kind = "torn"
      PROVE  \/ lock'[k] = disk'[k].by /\ pc'[lock'[k]] = "write" /\ key'[lock'[k]] = k
             \/ k \in damaged'
  <2>1. CASE k = key[p]
    BY <1>1, <2>1, TornKind DEF TypeOK
  <2>2. CASE k # key[p]
    <3>1. disk'[k] = disk[k] /\ lock'[k] = lock[k] /\ disk[k].by \in Procs
      BY <1>1, <1>4, <2>2, FileKinds DEF TypeOK
    <3>2. CASE k \in damaged
      BY <1>1, <2>2, <3>2
    <3>3. CASE lock[k] = disk[k].by /\ pc[lock[k]] = "write" /\ key[lock[k]] = k
      BY <1>1, <3>1, <3>3 DEF TypeOK
    <3>4. QED BY <1>4, <3>1, <3>2, <3>3 DEF TornOnlyWhileWriting
  <2>3. QED BY <2>1, <2>2
<1>5. ASSUME NEW k \in Keys, lock'[k] # NoProc
      PROVE  pc'[lock'[k]] = "write" /\ key'[lock'[k]] = k
  <2>1. CASE k = key[p]
    BY <1>1, <2>1 DEF TypeOK
  <2>2. CASE k # key[p]
    <3>1. lock'[k] = lock[k] /\ lock[k] \in Procs
      BY <1>1, <1>5, <2>2 DEF TypeOK
    <3>2. QED BY <1>1, <1>5, <3>1 DEF TypeOK, LockUsed
  <2>3. QED BY <2>1, <2>2
<1>6. QED BY <1>3, <1>4, <1>5 DEF Owner, LockUsed, TornOnlyWhileWriting

\* The three ways a writer lets go of its lock: its file is whole, or gone, or
\* its key is marked.
LEMMA CloseStep ==
  ASSUME Inv, NEW p \in Procs, pc[p] = "write", NEW l \in {"list", "idle"},
         pc' = [pc EXCEPT ![p] = l], key' = key,
         lock' = [k \in Keys |-> IF k = key[p] THEN NoProc ELSE lock[k]],
         damaged \subseteq damaged', damaged' \subseteq damaged \cup {key[p]},
         \A k \in Keys : k # key[p] => disk'[k] = disk[k],
         disk'[key[p]].kind # "torn" \/ key[p] \in damaged'
  PROVE  LockInv'
<1> USE DEF Inv, TypeInv, LockInv
<1>1. key[p] \in Keys /\ lock[key[p]] = p
  BY DEF TypeOK, Owner
<1>2. ASSUME NEW q \in Procs, pc'[q] = "write"
      PROVE  /\ lock'[key'[q]] = q /\ key'[q] \notin damaged'
             /\ disk'[key'[q]] = Absent \/ (disk'[key'[q]].kind = "torn" /\ disk'[key'[q]].by = q)
  <2>1. q # p /\ pc[q] = "write"
    BY <1>2 DEF TypeOK
  <2>2. lock[key[q]] = q /\ key[q] \in Keys /\ key[q] # key[p]
    BY <1>1, <2>1 DEF TypeOK, Owner
  <2>3. QED BY <2>1, <2>2 DEF Owner
<1>3. ASSUME NEW k \in Keys, disk'[k].kind = "torn"
      PROVE  \/ lock'[k] = disk'[k].by /\ pc'[lock'[k]] = "write" /\ key'[lock'[k]] = k
             \/ k \in damaged'
  <2>1. CASE k = key[p]
    BY <1>3, <2>1
  <2>2. CASE k # key[p]
    <3>1. disk'[k] = disk[k] /\ lock'[k] = lock[k] /\ disk[k].by \in Procs
      BY <1>3, <2>2, FileKinds DEF TypeOK
    <3>2. CASE k \in damaged
      BY <3>2
    <3>3. CASE lock[k] = disk[k].by /\ pc[lock[k]] = "write" /\ key[lock[k]] = k
      BY <2>2, <3>1, <3>3 DEF TypeOK
    <3>4. QED BY <1>3, <3>1, <3>2, <3>3 DEF TornOnlyWhileWriting
  <2>3. QED BY <2>1, <2>2
<1>4. ASSUME NEW k \in Keys, lock'[k] # NoProc
      PROVE  pc'[lock'[k]] = "write" /\ key'[lock'[k]] = k
  <2>1. k # key[p] /\ lock'[k] = lock[k] /\ lock[k] \in Procs
    BY <1>4 DEF TypeOK
  <2>2. pc[lock[k]] = "write" /\ key[lock[k]] = k
    BY <1>4, <2>1 DEF LockUsed
  <2>3. QED BY <2>1, <2>2 DEF TypeOK
<1>5. QED BY <1>2, <1>3, <1>4 DEF Owner, LockUsed, TornOnlyWhileWriting

LEMMA LockStep ==
  ASSUME Inv, [Next]_vars
  PROVE  LockInv'
<1> USE DEF Inv, TypeInv, LockInv, Goto
<1>1. ASSUME NEW p \in Procs, Start(p) \/ GetRead(p) \/ List(p) \/ Stat(p) \/ Sort(p)
                                \/ ScanKeeps(p) \/ ScanCondemns(p)
      PROVE  LockInv'
  <2>1. lock' = lock /\ damaged' = damaged /\ disk' = disk
    BY <1>1 DEF Start, StartGet, StartSet, Clear, EvictExpired, GetRead, List, Stat, Sort,
                ScanKeeps, ScanCondemns
  <2>2. /\ \A q \in Procs : pc'[q] = "write" <=> pc[q] = "write"
        /\ \A q \in Procs : pc[q] = "write" => key'[q] = key[q]
    BY <1>1 DEF Start, Begin, StartGet, StartSet, Clear, EvictExpired, GetRead, List, Stat, Sort,
                ScanKeeps, ScanCondemns, Next1, TypeOK
  <2>3. QED BY <2>1, <2>2, Bystander
<1>2. ASSUME NEW p \in Procs, GetCheck(p) \/ UnlinkListed(p) \/ Purge(p)
      PROVE  LockInv'
  <2>1. lock' = lock /\ damaged' = damaged /\ key' = key
    BY <1>2 DEF GetCheck, UnlinkListed, Purge
  <2>2. \A q \in Procs : pc'[q] = "write" <=> pc[q] = "write"
    BY <1>2 DEF GetCheck, UnlinkListed, Purge, Next1, TypeOK
  <2>3. \A k \in Keys : disk'[k] = disk[k] \/ disk'[k] = Absent
    BY <1>2 DEF GetCheck, UnlinkListed, Purge, Unlink, TypeOK
  <2>4. QED BY <2>1, <2>2, <2>3, Bystander
<1>3. ASSUME NEW p \in Procs, SetOpen(p) PROVE LockInv'
  BY <1>3, OpenStep
<1>4. ASSUME NEW p \in Procs, SetWrite(p) PROVE LockInv'
  <2>1. pc[p] = "write" /\ key[p] \in Keys /\ ver[p] \in Value /\ at[p] \in Time
    BY <1>4 DEF SetWrite, TypeOK, Numbered
  <2>2. Written(p).kind # "torn"
    BY <2>1, AbsentKind, EntryKind DEF Owner, Written
  <2>3. disk' = [disk EXCEPT ![key[p]] = Written(p)] /\ key' = key /\ damaged' = damaged
    BY <1>4 DEF SetWrite, local
  <2>4. disk'[key[p]].kind # "torn" /\ \A k \in Keys : k # key[p] => disk'[k] = disk[k]
    BY <2>1, <2>2, <2>3 DEF TypeOK
  <2>5. lock' = [k \in Keys |-> IF k = key[p] THEN NoProc ELSE lock[k]]
    BY <1>4 DEF SetWrite, TypeOK
  <2>6. pc' = [pc EXCEPT ![p] = "list"]
    BY <1>4 DEF SetWrite
  <2>7. QED BY <2>1, <2>3, <2>4, <2>5, <2>6, CloseStep
<1>5. ASSUME NEW p \in Procs, SetFails(p) PROVE LockInv'
  <2>1. pc[p] = "write" /\ key' = key /\ disk' = disk /\ damaged' = damaged \cup {key[p]}
    BY <1>5 DEF SetFails, local
  <2>2. lock' = [k \in Keys |-> IF k = key[p] THEN NoProc ELSE lock[k]]
    BY <1>5 DEF SetFails, TypeOK
  <2>3. pc' = [pc EXCEPT ![p] = "idle"]
    BY <1>5 DEF SetFails
  <2>4. QED BY <2>1, <2>2, <2>3, CloseStep
<1>6. ASSUME NEW p \in Procs, Crash(p) PROVE LockInv'
  <2>1. key' = key /\ disk' = disk /\ pc' = [pc EXCEPT ![p] = "idle"] /\ lock' = LocksWithout(p)
    BY <1>6 DEF Crash
  <2>2. CASE pc[p] = "write"
    <3>1. damaged' = damaged \cup {key[p]}
      BY <1>6, <2>2 DEF Crash
    <3>2. \A k \in Keys : lock[k] = p <=> k = key[p]
      BY <2>2, DiskCacheAssumption DEF Owner, LockUsed, TypeOK
    <3>3. lock' = [k \in Keys |-> IF k = key[p] THEN NoProc ELSE lock[k]]
      BY <2>1, <3>2 DEF LocksWithout
    <3>4. QED BY <2>1, <2>2, <3>1, <3>3, CloseStep
  <2>3. CASE pc[p] # "write"
    <3>1. \A k \in Keys : lock[k] # p
      BY <2>3, DiskCacheAssumption DEF LockUsed
    <3>2. lock' = lock
      BY <2>1, <3>1 DEF LocksWithout, TypeOK
    <3>3. damaged' = damaged
      BY <1>6, <2>3 DEF Crash
    <3>4. \A q \in Procs : pc'[q] = "write" <=> pc[q] = "write"
      BY <2>1, <2>3 DEF TypeOK
    <3>5. QED BY <2>1, <3>2, <3>3, <3>4, Bystander
  <2>4. QED BY <2>2, <2>3
<1>7. CASE Tick \/ UNCHANGED vars
  BY <1>7, Bystander DEF Tick, vars, local
<1>8. QED
  BY <1>1, <1>2, <1>3, <1>4, <1>5, <1>6, <1>7 DEF Next, Locks, Step
-----------------------------------------------------------------------------
\* The invariant holds in every state of the cache.
THEOREM Invariance == Spec => []Inv
<1>1. Init => Inv
  BY InitInv
<1>2. Inv /\ [Next]_vars => Inv'
  BY TypeStep, LockStep DEF Inv
<1>3. QED BY <1>1, <1>2, PTL DEF Spec

\* Every variable keeps its type.
THEOREM TypeCorrect == Spec => []TypeOK
<1>1. Inv => TypeOK
  BY DEF Inv, TypeInv
<1>2. QED BY <1>1, Invariance, PTL

\* A cache file is unreadable only while the holder of its lock writes it, or
\* where a crash or a failed write left it so.
THEOREM FilesStayReadable == Spec => []TornOnlyWhileWriting
<1>1. Inv => TornOnlyWhileWriting
  BY DEF Inv, LockInv
<1>2. QED BY <1>1, Invariance, PTL


-----------------------------------------------------------------------------
(* max_entries.  Not every set() sweeps what it added, but while there are     *)
(* too many entries some set() is still going to remove enough of them: one    *)
(* that has yet to list the directory, one whose listing has them all, or one  *)
(* that is unlinking all but max_entries of them.                              *)

Sweeping(p) ==
  \/ pc[p] \in {"write", "list"}
  \/ pc[p] = "sort" /\ Present \subseteq todo[p]
  \/ pc[p] = "unlink" /\ Cardinality(Present \ todo[p]) <= MaxEntries

Swept == unswept \/ Cardinality(Present) <= MaxEntries \/ \E p \in Procs : Sweeping(p)

LEMMA PresentKeys ==
  /\ Present \in SUBSET Keys /\ IsFiniteSet(Present) /\ Cardinality(Present) \in Nat
  /\ \A T : T \subseteq Present => IsFiniteSet(T) /\ Cardinality(T) \in Nat
                                /\ Cardinality(T) <= Cardinality(Present)
<1>1. Present \in SUBSET Keys
  BY DEF Present
<1>2. IsFiniteSet(Present)
  BY <1>1, FS_Subset, DiskCacheAssumption
<1>3. ASSUME NEW T, T \subseteq Present
      PROVE  IsFiniteSet(T) /\ Cardinality(T) \in Nat /\ Cardinality(T) <= Cardinality(Present)
  BY <1>2, <1>3, FS_Subset, FS_CardinalityType
<1>4. QED BY <1>1, <1>2, <1>3, FS_CardinalityType

\* A smaller set has no more elements, here and after a step.
LEMMA Fewer ==
  ASSUME NEW S \in SUBSET Keys, NEW T \in SUBSET S
  PROVE  /\ Cardinality(S) \in Nat /\ Cardinality(T) \in Nat
         /\ Cardinality(T) <= Cardinality(S)
<1>1. IsFiniteSet(S)
  BY FS_Subset, DiskCacheAssumption
<1>2. QED BY <1>1, FS_Subset, FS_CardinalityType

\* What only removes files leaves the size in hand, as long as it moves no process
\* that others rely on.
LEMMA Removes ==
  ASSUME Swept, Present' \subseteq Present, unswept => unswept',
         \A q \in Procs : pc[q] \in {"write", "list", "sort", "unlink"}
                         => pc'[q] = pc[q] /\ todo'[q] = todo[q]
  PROVE  Swept'
<1>1. Present \in SUBSET Keys /\ Present' \in SUBSET Present
  BY PresentKeys
<1>2. CASE unswept
  BY <1>2 DEF Swept
<1>3. CASE Cardinality(Present) <= MaxEntries
  <2>1. /\ Cardinality(Present') \in Nat /\ Cardinality(Present) \in Nat
        /\ Cardinality(Present') <= Cardinality(Present)
    BY <1>1, Fewer
  <2>2. Cardinality(Present') <= MaxEntries
    BY <1>3, <2>1, DiskCacheAssumption
  <2>3. QED BY <2>2 DEF Swept
<1>4. ASSUME NEW q \in Procs, Sweeping(q) PROVE Sweeping(q)'
  <2>1. pc'[q] = pc[q] /\ todo'[q] = todo[q]
    BY <1>4 DEF Sweeping
  <2>2. CASE pc[q] \in {"write", "list"} \/ (pc[q] = "sort" /\ Present \subseteq todo[q])
    BY <1>1, <2>1, <2>2 DEF Sweeping
  <2>3. CASE pc[q] = "unlink" /\ Cardinality(Present \ todo[q]) <= MaxEntries
    <3>1. /\ Cardinality(Present' \ todo'[q]) \in Nat /\ Cardinality(Present \ todo[q]) \in Nat
          /\ Cardinality(Present' \ todo'[q]) <= Cardinality(Present \ todo[q])
      <4>1. Present \ todo[q] \in SUBSET Keys /\ Present' \ todo'[q] \in SUBSET (Present \ todo[q])
        BY <1>1, <2>1
      <4>2. QED BY <4>1, Fewer
    <3>2. Cardinality(Present' \ todo'[q]) <= MaxEntries
      BY <2>3, <3>1, DiskCacheAssumption
    <3>3. QED BY <2>1, <2>3, <3>2 DEF Sweeping
  <2>4. QED BY <1>4, <2>2, <2>3 DEF Sweeping
<1>5. QED BY <1>2, <1>3, <1>4 DEF Swept

LEMMA SweptInit == Init => Swept
<1> SUFFICES ASSUME Init PROVE Swept
  OBVIOUS
<1>1. Present = {}
  BY DEF Init, Present
<1>2. QED BY <1>1, FS_EmptySet, DiskCacheAssumption DEF Swept

LEMMA SweptStep ==
  ASSUME Inv, Swept, [Next]_vars
  PROVE  Swept'
<1> USE DEF Goto
<1>0. TypeOK
  BY DEF Inv, TypeInv
<1>1. ASSUME NEW p \in Procs, (\E k \in Keys : StartGet(p, k) \/ StartSet(p, k)) \/ Clear(p)
                                \/ EvictExpired(p) \/ GetRead(p) \/ ScanKeeps(p) \/ ScanCondemns(p)
      PROVE  Swept'
  <2>1. disk' = disk /\ unswept' = unswept
    BY <1>1 DEF StartGet, StartSet, Clear, EvictExpired, GetRead, ScanKeeps, ScanCondemns
  <2>2. \A q \in Procs : pc[q] \in {"write", "list", "sort", "unlink"}
                          => pc'[q] = pc[q] /\ todo'[q] = todo[q]
    BY <1>0, <1>1 DEF StartGet, StartSet, Clear, EvictExpired, GetRead, ScanKeeps, ScanCondemns,
                      Begin, Next1, TypeOK
  <2>3. Present' \subseteq Present
    BY <2>1 DEF Present
  <2>4. QED BY <2>1, <2>2, <2>3, Removes
<1>2. ASSUME NEW p \in Procs, GetCheck(p) \/ Purge(p) PROVE Swept'
  <2>1. unswept' = unswept
    BY <1>2 DEF GetCheck, Purge
  <2>2. \A q \in Procs : pc[q] \in {"write", "list", "sort", "unlink"}
                          => pc'[q] = pc[q] /\ todo'[q] = todo[q]
    BY <1>0, <1>2 DEF GetCheck, Purge, Next1, TypeOK
  <2>3. Present' \subseteq Present
    BY <1>0, <1>2 DEF GetCheck, Purge, Unlink, Present, TypeOK
  <2>4. QED BY <2>1, <2>2, <2>3, Removes
<1>3. ASSUME NEW p \in Procs, SetOpen(p) \/ SetWrite(p) PROVE Swept'
  <2>1. pc'[p] \in {"write", "list"}
    BY <1>0, <1>3 DEF SetOpen, SetWrite, TypeOK
  <2>2. QED BY <2>1 DEF Swept, Sweeping
<1>4. ASSUME NEW p \in Procs, SetFails(p) PROVE Swept'
  BY <1>4 DEF SetFails, Swept
<1>5. ASSUME NEW p \in Procs, List(p) PROVE Swept'
  <2>1. Present' = Present /\ Cardinality(Present) \in Nat
    BY <1>5, PresentKeys DEF List, Present
  <2>2. CASE Excess(Present) <= 0
    BY <2>1, <2>2, DiskCacheAssumption DEF Excess, Swept
  <2>3. CASE ~(Excess(Present) <= 0)
    <3>1. pc'[p] = "sort" /\ todo'[p] = Present
      BY <1>0, <1>5, <2>3 DEF List, TypeOK
    <3>2. QED BY <2>1, <3>1 DEF Swept, Sweeping
  <2>4. QED BY <2>2, <2>3
<1>6. ASSUME NEW p \in Procs, Sort(p) PROVE Swept'
  <2>1. Present' = Present
    BY <1>6 DEF Sort, Present
  <2>2. PICK victims \in SUBSET todo[p] :
             /\ Cardinality(victims) = Excess(todo[p])
             /\ todo' = [todo EXCEPT ![p] = victims]
    BY <1>6 DEF Sort
  <2>3. pc[p] = "sort" /\ pc' = [pc EXCEPT ![p] = "unlink"] /\ unswept' = unswept
    BY <1>6 DEF Sort
  <2>4. CASE Sweeping(p)
    <3>1. Present \subseteq todo[p] /\ todo[p] \in SUBSET Keys
      BY <1>0, <2>3, <2>4 DEF Sweeping, TypeOK
    <3>2. /\ IsFiniteSet(todo[p]) /\ Cardinality(todo[p]) \in Nat
          /\ Cardinality(todo[p] \ victims)
               = Cardinality(todo[p]) - Cardinality(todo[p] \cap victims)
      BY <3>1, FS_Subset, FS_CardinalityType, FS_Difference, DiskCacheAssumption
    <3>3. todo[p] \cap victims = victims
      OBVIOUS
    <3>4. Cardinality(victims) = Cardinality(todo[p]) - MaxEntries
      BY <2>2 DEF Excess
    <3>5. Cardinality(todo[p] \ victims) = MaxEntries
      BY <3>2, <3>3, <3>4, DiskCacheAssumption
    <3>6. Cardinality(Present \ victims) <= MaxEntries
      <4>1. todo[p] \ victims \in SUBSET Keys /\ Present \ victims \in SUBSET (todo[p] \ victims)
        BY <3>1
      <4>2. Cardinality(Present \ victims) <= Cardinality(todo[p] \ victims)
        BY <4>1, Fewer
      <4>3. QED BY <3>5, <4>2
    <3>7. pc'[p] = "unlink" /\ todo'[p] = victims
      BY <1>0, <2>2, <2>3 DEF TypeOK
    <3>8. Sweeping(p)'
      BY <2>1, <3>6, <3>7 DEF Sweeping
    <3>9. QED BY <3>8 DEF Swept
  <2>5. ASSUME NEW q \in Procs, q # p, Sweeping(q) PROVE Swept'
    <3>1. pc'[q] = pc[q] /\ todo'[q] = todo[q]
      BY <1>0, <2>2, <2>3, <2>5 DEF TypeOK
    <3>2. Sweeping(q)'
      BY <2>1, <2>5, <3>1 DEF Sweeping
    <3>3. QED BY <3>2 DEF Swept
  <2>6. CASE unswept \/ Cardinality(Present) <= MaxEntries
    BY <2>1, <2>3, <2>6 DEF Swept
  <2>7. QED BY <2>4, <2>5, <2>6 DEF Swept
<1>11. ASSUME NEW p \in Procs, Stat(p) PROVE Swept'
  <2>1. disk' = disk
    BY <1>11 DEF Stat
  <2>2. CASE unswept'
    BY <2>2 DEF Swept
  <2>3. CASE ~unswept'
    <3>1. unswept' = unswept /\ pc' = pc /\ todo' = todo
      BY <1>11, <2>3 DEF Stat
    <3>2. Present' \subseteq Present
      BY <2>1 DEF Present
    <3>3. QED BY <3>1, <3>2, Removes
  <2>4. QED BY <2>2, <2>3
<1>7. ASSUME NEW p \in Procs, UnlinkListed(p) PROVE Swept'
  <2>1. PICK k \in todo[p] : Unlink(k) /\ Next1(p, k, "unlink")
    BY <1>7 DEF UnlinkListed
  <2>2. /\ pc[p] = "unlink" /\ unswept' = unswept /\ k \in Keys
        /\ todo'[p] = todo[p] \ {k}
        /\ todo[p] = {k} => pc'[p] = "idle"
        /\ todo[p] # {k} => pc'[p] = "unlink"
        /\ \A q \in Procs : q # p => pc'[q] = pc[q] /\ todo'[q] = todo[q]
    BY <1>0, <1>7, <2>1 DEF UnlinkListed, Next1, TypeOK
  <2>3. Present' = Present \ {k}
    BY <1>0, <2>1, <2>2 DEF Unlink, Present, TypeOK
  <2>4. CASE Sweeping(p)
    <3>1. Cardinality(Present \ todo[p]) <= MaxEntries
      BY <2>2, <2>4 DEF Sweeping
    <3>2. Present' \ todo'[p] = Present \ todo[p]
      BY <2>2, <2>3
    <3>3. CASE todo[p] = {k}
      <4>1. Present' = Present \ todo[p]
        BY <2>3, <3>3
      <4>2. QED BY <3>1, <4>1 DEF Swept
    <3>4. CASE todo[p] # {k}
      BY <2>2, <3>1, <3>2, <3>4 DEF Swept, Sweeping
    <3>5. QED BY <3>3, <3>4
  <2>5. ASSUME NEW q \in Procs, q # p, Sweeping(q) PROVE Swept'
    <3>1. pc'[q] = pc[q] /\ todo'[q] = todo[q]
      BY <2>2, <2>5
    <3>2. CASE pc[q] # "unlink"
      BY <2>3, <2>5, <3>1, <3>2 DEF Swept, Sweeping
    <3>3. CASE pc[q] = "unlink"
      <4>1. Cardinality(Present \ todo[q]) <= MaxEntries
        BY <2>5, <3>3 DEF Sweeping
      <4>2. Present \ todo[q] \in SUBSET Keys /\ Present' \ todo'[q] \in SUBSET (Present \ todo[q])
        BY <2>3, <3>1, PresentKeys
      <4>3. Cardinality(Present' \ todo'[q]) <= MaxEntries
        BY <4>1, <4>2, Fewer, DiskCacheAssumption
      <4>4. QED BY <3>1, <3>3, <4>3 DEF Swept, Sweeping
    <3>4. QED BY <3>2, <3>3
  <2>6. CASE unswept \/ Cardinality(Present) <= MaxEntries
    <3>1. Present \in SUBSET Keys /\ Present' \in SUBSET Present
      BY <2>3, PresentKeys
    <3>2. Cardinality(Present) <= MaxEntries => Cardinality(Present') <= MaxEntries
      BY <3>1, Fewer, DiskCacheAssumption
    <3>3. QED BY <2>2, <2>6, <3>2 DEF Swept
  <2>7. QED BY <2>4, <2>5, <2>6 DEF Swept
<1>8. ASSUME NEW p \in Procs, Crash(p) PROVE Swept'
  <2>1. CASE pc[p] \in {"write", "list", "sort", "unlink"}
    BY <1>8, <2>1 DEF Crash, Swept
  <2>2. CASE pc[p] \notin {"write", "list", "sort", "unlink"}
    <3>1. Present' \subseteq Present /\ unswept' = unswept
      BY <1>0, <1>8, <2>2 DEF Crash, Present, TypeOK
    <3>2. \A q \in Procs : pc[q] \in {"write", "list", "sort", "unlink"}
                            => pc'[q] = pc[q] /\ todo'[q] = todo[q]
      BY <1>0, <1>8, <2>2 DEF Crash, TypeOK
    <3>3. QED BY <3>1, <3>2, Removes
  <2>3. QED BY <2>1, <2>2
<1>9. CASE Tick \/ UNCHANGED vars
  <2>1. disk' = disk /\ unswept' = unswept /\ pc' = pc /\ todo' = todo
    BY <1>9 DEF Tick, vars, local
  <2>2. Present' \subseteq Present
    BY <2>1 DEF Present
  <2>3. QED BY <2>1, <2>2, Removes
<1>10. QED
  BY <1>1, <1>2, <1>3, <1>4, <1>5, <1>6, <1>7, <1>8, <1>9, <1>11
     DEF Next, Start, Locks, Step

\* Once every call is over and none was cut short since the last sweep, the cache
\* holds at most max_entries files, however the sweeps overlapped.
THEOREM SizeIsBounded == Spec => []SizeBoundedAtRest
<1>1. Init => Inv /\ Swept
  BY InitInv, SweptInit
<1>2. Inv /\ Swept /\ [Next]_vars => (Inv /\ Swept)'
  BY TypeStep, LockStep, SweptStep DEF Inv
<1>3. Inv /\ Swept => SizeBoundedAtRest
  BY DEF Swept, Sweeping, SizeBoundedAtRest
<1>4. QED BY <1>1, <1>2, <1>3, PTL DEF Spec


-----------------------------------------------------------------------------
(* The contract.  What its variables are in a state of the cache, as            *)
(* DiskCache substitutes them.                                                  *)

Storing(p) == pc[p] \in {"set", "write"}
Reg  == [k \in Keys |-> IF disk[k].kind = "entry" THEN disk[k].val ELSE None]
Pend == {<<key[p], ver[p]>> : p \in {q \in Procs : pc[q] \in {"set", "write"}}}
Call == [p \in Procs |->
           IF pc[p] = "get" THEN [phase |-> "asked", key |-> key[p]]
           ELSE IF pc[p] = "check"
           THEN [phase |-> "found", key |-> key[p], val |-> seen[p].val]
           ELSE [phase |-> "done", val |-> ret[p]]]

\* Two calls never store the same value, and a get() that is under way has
\* returned nothing yet.
Versions ==
  /\ \A p \in Procs : ver[p] <= ops
  /\ \A p, q \in Procs : Storing(p) /\ Storing(q) /\ p # q => ver[p] # ver[q]
  /\ \A p \in Procs : pc[p] \in {"get", "check"} => ret[p] = None

LEMMA VersionsInit == Init => Versions
BY DEF Init, Versions, Storing, None

LEMMA VersionsStep ==
  ASSUME Inv, Versions, [Next]_vars
  PROVE  Versions'
<1>0. TypeOK /\ ops \in Nat /\ \A p \in Procs : ver[p] \in Nat
  BY DiskCacheAssumption DEF Inv, TypeInv, TypeOK
<1>1. ASSUME NEW p \in Procs, NEW k \in Keys, StartSet(p, k) PROVE Versions'
  <2>1. /\ ops' = ops + 1 /\ ver' = [ver EXCEPT ![p] = ops + 1] /\ ret' = ret
        /\ pc' = [pc EXCEPT ![p] = "set"]
    BY <1>1 DEF StartSet, Begin, Goto
  <2>2. ver'[p] = ops + 1 /\ \A q \in Procs : q # p => ver'[q] = ver[q] /\ pc'[q] = pc[q]
    BY <1>0, <2>1 DEF TypeOK
  <2>3. \A q \in Procs : ver'[q] <= ops'
    BY <1>0, <2>1, <2>2 DEF Versions
  <2>4. \A q, r \in Procs : Storing(q)' /\ Storing(r)' /\ q # r => ver'[q] # ver'[r]
    BY <1>0, <2>2 DEF Versions, Storing
  <2>5. \A q \in Procs : pc'[q] \in {"get", "check"} => ret'[q] = None
    BY <1>0, <2>1 DEF Versions, TypeOK
  <2>6. QED BY <2>3, <2>4, <2>5 DEF Versions
<1>2. ASSUME NEW p \in Procs, ver' = ver, ops' \in Nat, ops <= ops',
             \A q \in Procs : Storing(q)' => Storing(q),
             \A q \in Procs : pc'[q] \in {"get", "check"} => ret'[q] = None
      PROVE  Versions'
  <2>1. \A q \in Procs : ver'[q] <= ops'
    BY <1>0, <1>2 DEF Versions
  <2>2. \A q, r \in Procs : Storing(q)' /\ Storing(r)' /\ q # r => ver'[q] # ver'[r]
    BY <1>2 DEF Versions
  <2>3. QED BY <1>2, <2>1, <2>2 DEF Versions
<1>3. ASSUME NEW p \in Procs, NEW k \in Keys, StartGet(p, k) PROVE Versions'
  <2>1. /\ ver' = ver /\ ops' = ops + 1 /\ ret' = [ret EXCEPT ![p] = None]
        /\ pc' = [pc EXCEPT ![p] = "get"]
    BY <1>3 DEF StartGet, Begin, Goto
  <2>2. QED BY <1>0, <1>2, <2>1 DEF Versions, Storing, TypeOK
<1>4. ASSUME NEW p \in Procs, Clear(p) \/ EvictExpired(p) PROVE Versions'
  <2>1. /\ ver' = ver /\ ops' = ops + 1 /\ ret' = ret
        /\ \E l \in {"idle", "unlink", "scan"} : pc' = [pc EXCEPT ![p] = l]
    BY <1>4 DEF Clear, EvictExpired, Begin, Goto
  <2>2. QED BY <1>0, <1>2, <2>1 DEF Versions, Storing, TypeOK
<1>5. ASSUME NEW p \in Procs, GetRead(p) \/ SetOpen(p) \/ SetWrite(p) \/ SetFails(p) \/ List(p) \/ Sort(p)
                \/ UnlinkListed(p) \/ ScanKeeps(p) \/ ScanCondemns(p) \/ Purge(p) \/ Crash(p) \/ Stat(p)
      PROVE  Versions'
  <2>1. ver' = ver /\ ops' = ops /\ ret' = ret
    BY <1>5 DEF GetRead, SetOpen, SetWrite, SetFails, List, Sort, UnlinkListed, ScanKeeps,
                ScanCondemns, Purge, Crash, Stat, local
  <2>2. \/ pc' = pc
        \/ pc[p] = "get" /\ pc' = [pc EXCEPT ![p] = "check"]
        \/ pc[p] = "set" /\ pc' = [pc EXCEPT ![p] = "write"]
        \/ \E l \in {"idle", "list", "sort", "unlink", "scan", "purge"} : pc' = [pc EXCEPT ![p] = l]
    BY <1>5 DEF GetRead, SetOpen, SetWrite, SetFails, List, Sort, UnlinkListed, ScanKeeps,
                ScanCondemns, Purge, Crash, Stat, Next1, Goto
  <2>3. \A q \in Procs : /\ Storing(q)' => Storing(q)
                         /\ pc'[q] \in {"get", "check"} => pc[q] \in {"get", "check"}
    BY <1>0, <2>2 DEF Storing, TypeOK
  <2>4. \A q \in Procs : pc'[q] \in {"get", "check"} => ret'[q] = None
    BY <2>1, <2>3 DEF Versions
  <2>5. ops' \in Nat /\ ops <= ops'
    BY <1>0, <2>1
  <2>6. QED BY <1>2, <2>1, <2>3, <2>4, <2>5
<1>6. ASSUME NEW p \in Procs, GetCheck(p) PROVE Versions'
  <2>1. /\ ver' = ver /\ ops' = ops /\ pc' = [pc EXCEPT ![p] = "idle"]
        /\ \A q \in Procs : q # p => ret'[q] = ret[q]
    BY <1>0, <1>6 DEF GetCheck, Goto, TypeOK
  <2>2. QED BY <1>0, <1>2, <2>1 DEF Versions, Storing, TypeOK
<1>7. CASE Tick \/ UNCHANGED vars
  BY <1>7 DEF Tick, vars, local, Versions, Storing
<1>8. QED
  BY <1>1, <1>3, <1>4, <1>5, <1>6, <1>7 DEF Next, Start, Locks, Step


\* The phases of a get().
Asked(k)    == [phase |-> "asked", key |-> k]
Found(k, v) == [phase |-> "found", key |-> k, val |-> v]
Done(v)     == [phase |-> "done", val |-> v]

\* The steps of the contract, on those three.
LEMMA Forgets ==
  ASSUME NEW k \in Keys, Reg' = [Reg EXCEPT ![k] = None], Pend' = Pend, Call' = Call
  PROVE  Contract!Next
<1>1. Contract!Forget(k)
  BY DEF Contract!Forget, Contract!None, None, Reg, Pend, Call
<1>2. QED BY <1>1 DEF Contract!Next

LEMMA Asks ==
  ASSUME NEW p \in Procs, NEW k \in Keys, Reg' = Reg, Pend' = Pend,
         Call[p] = Done(ret[p]), Call' = [Call EXCEPT ![p] = Asked(k)]
  PROVE  Contract!Next
<1>1. Call[p].phase = "done"
  BY DEF Done
<1>2. Contract!BeginGet(p, k)
  BY <1>1 DEF Contract!BeginGet, Contract!Asked, Asked, Reg, Pend, Call
<1>3. QED BY <1>2 DEF Contract!Next

LEMMA Misses ==
  ASSUME NEW p \in Procs, NEW k \in Keys, Pend' = Pend,
         Call[p] = Asked(k) \/ \E v : Call[p] = Found(k, v),
         Call' = [Call EXCEPT ![p] = Done(None)],
         Reg' = Reg \/ Reg' = [Reg EXCEPT ![k] = None]
  PROVE  Contract!Next
<1>1. Call[p].phase # "done" /\ Call[p].key = k
  <2>1. CASE Call[p] = Asked(k)
    BY <2>1 DEF Asked
  <2>2. CASE \E v : Call[p] = Found(k, v)
    <3>1. PICK v : Call[p] = Found(k, v)
      BY <2>2
    <3>2. QED BY <3>1 DEF Found
  <2>3. QED BY <2>1, <2>2
<1>2. Contract!Miss(p, k)
  BY <1>1 DEF Contract!Miss, Contract!Done, Contract!None, Done, None, Reg, Pend, Call
<1>3. QED BY <1>2 DEF Contract!Next

LEMMA Remembers ==
  ASSUME NEW p \in Procs, NEW k \in Keys, Reg' = Reg, Pend' = Pend, Reg[k] # None,
         Call[p] = Asked(k), Call' = [Call EXCEPT ![p] = Found(k, Reg[k])]
  PROVE  Contract!Next
<1>1. Contract!Remember(p, k)
  BY DEF Contract!Remember, Contract!Asked, Contract!Found, Contract!None,
         Asked, Found, None, Reg, Pend, Call
<1>2. QED BY <1>1 DEF Contract!Next

LEMMA Answers ==
  ASSUME NEW p \in Procs, NEW k \in Keys, NEW v \in Value, Reg' = Reg, Pend' = Pend,
         Call[p] = Found(k, v), Call' = [Call EXCEPT ![p] = Done(v)]
  PROVE  Contract!Next
<1>1. Contract!Answer(p, k, v)
  BY DEF Contract!Answer, Contract!Found, Contract!Done, Found, Done, Reg, Pend, Call
<1>2. QED BY <1>1 DEF Contract!Next, Contract!Value, Value

LEMMA Begins ==
  ASSUME NEW k \in Keys, NEW v \in Value, Reg' = Reg, Call' = Call,
         <<k, v>> \notin Pend, Pend' = Pend \cup {<<k, v>>}
  PROVE  Contract!Next
<1>1. Contract!BeginSet(k, v)
  BY DEF Contract!BeginSet, Reg, Pend, Call
<1>2. QED BY <1>1 DEF Contract!Next, Contract!Value, Value

LEMMA TakesEffect ==
  ASSUME NEW k \in Keys, NEW v \in Value, Reg' = [Reg EXCEPT ![k] = v], Call' = Call,
         <<k, v>> \in Pend, Pend' = Pend \ {<<k, v>>}
  PROVE  Contract!Next
<1>1. Contract!TakeEffect(k, v)
  BY DEF Contract!TakeEffect, Reg, Pend, Call
<1>2. QED BY <1>1 DEF Contract!Next, Contract!Value, Value

LEMMA Abandons ==
  ASSUME NEW k \in Keys, NEW v \in Value, Reg' = Reg, Call' = Call,
         <<k, v>> \in Pend, Pend' = Pend \ {<<k, v>>}
  PROVE  Contract!Next
<1>1. Contract!AbandonSet(k, v)
  BY DEF Contract!AbandonSet, Reg, Pend, Call
<1>2. QED BY <1>1 DEF Contract!Next, Contract!Value, Value

LEMMA Stutters ==
  ASSUME Reg' = Reg, Pend' = Pend, Call' = Call
  PROVE  UNCHANGED Contract!vars
BY DEF Contract!vars, Reg, Pend, Call

\* What a step of the cache does to those three.
LEMMA PendSame ==
  ASSUME \A q \in Procs : Storing(q)' <=> Storing(q),
         \A q \in Procs : Storing(q) => key'[q] = key[q] /\ ver'[q] = ver[q]
  PROVE  Pend' = Pend
BY DEF Pend, Storing

LEMMA PendGrows ==
  ASSUME NEW p \in Procs, ~Storing(p), Storing(p)',
         \A q \in Procs : q # p => (Storing(q)' <=> Storing(q)),
         \A q \in Procs : q # p => key'[q] = key[q] /\ ver'[q] = ver[q]
  PROVE  Pend' = Pend \cup {<<key'[p], ver'[p]>>}
BY DEF Pend, Storing

LEMMA PendShrinks ==
  ASSUME Versions, NEW p \in Procs, Storing(p), ~Storing(p)', key' = key, ver' = ver,
         \A q \in Procs : q # p => (Storing(q)' <=> Storing(q))
  PROVE  <<key[p], ver[p]>> \in Pend /\ Pend' = Pend \ {<<key[p], ver[p]>>}
<1>1. <<key[p], ver[p]>> \in Pend
  BY DEF Pend, Storing
<1>2. \A q \in Procs : Storing(q) /\ q # p => ver[q] # ver[p]
  BY DEF Versions
<1>3. Pend' = Pend \ {<<key[p], ver[p]>>}
  BY <1>2 DEF Pend, Storing
<1>4. QED BY <1>1, <1>3

LEMMA RegForgets ==
  ASSUME TypeOK, NEW k \in Keys, NEW f \in File, disk' = [disk EXCEPT ![k] = f], f.kind # "entry"
  PROVE  Reg' = [Reg EXCEPT ![k] = None]
BY DEF Reg, TypeOK


\* One process's get() moves, or none does.
LEMMA CallMoves ==
  ASSUME NEW p \in Procs,
         \A q \in Procs : q # p => /\ pc'[q] = pc[q] /\ key'[q] = key[q]
                                   /\ seen'[q] = seen[q] /\ ret'[q] = ret[q],
         NEW c,
         pc'[p] = "get" => c = Asked(key'[p]),
         pc'[p] = "check" => c = Found(key'[p], seen'[p].val),
         pc'[p] \notin {"get", "check"} => c = Done(ret'[p])
  PROVE  Call' = [Call EXCEPT ![p] = c]
<1>1. \A q \in Procs : q # p => Call'[q] = Call[q]
  BY DEF Call
<1>2. Call'[p] = c
  <2>1. CASE pc'[p] = "get"
    BY <2>1 DEF Call, Asked
  <2>2. CASE pc'[p] = "check"
    BY <2>2 DEF Call, Found
  <2>3. CASE pc'[p] \notin {"get", "check"}
    BY <2>3 DEF Call, Done
  <2>4. QED BY <2>1, <2>2, <2>3
<1>3. Call = [q \in Procs |-> Call[q]] /\ Call' = [q \in Procs |-> Call'[q]]
  BY DEF Call
<1>4. QED BY <1>1, <1>2, <1>3

LEMMA CallStays ==
  ASSUME NEW p \in Procs, pc[p] \notin {"get", "check"}, pc'[p] \notin {"get", "check"},
         \A q \in Procs : q # p => /\ pc'[q] = pc[q] /\ key'[q] = key[q] /\ seen'[q] = seen[q],
         ret' = ret
  PROVE  Call' = Call
BY DEF Call

\* Where a get() is, by its process's step.
LEMMA CallOf ==
  ASSUME NEW p \in Procs
  PROVE  /\ pc[p] = "get" => Call[p] = Asked(key[p])
         /\ pc[p] = "check" => Call[p] = Found(key[p], seen[p].val)
         /\ pc[p] \notin {"get", "check"} => Call[p] = Done(ret[p])
BY DEF Call, Asked, Found, Done

LEMMA ContractInit == Init => Contract!Init
<1> SUFFICES ASSUME Init PROVE Contract!Init
  OBVIOUS
<1>1. Reg = [k \in Keys |-> None]
  BY AbsentKind DEF Init, Reg
<1>2. Pend = {} /\ Call = [p \in Procs |-> Done(None)]
  BY DEF Init, Pend, Call, Done
<1>3. QED BY <1>1, <1>2 DEF Contract!Init, Contract!Done, Contract!None, Done, None, Reg, Pend, Call

LEMMA ContractStep ==
  ASSUME Inv, Versions, [Next]_vars
  PROVE  [Contract!Next]_(Contract!vars)
<1> USE DEF Goto
<1>0. /\ TypeOK /\ Numbered /\ Reading /\ Owner /\ ops \in Nat
      /\ \A p \in Procs : key[p] \in Keys /\ ver[p] \in Nat /\ disk[key[p]] \in File
  BY DiskCacheAssumption DEF Inv, TypeInv, TypeOK, LockInv
<1>1. ASSUME NEW p \in Procs, NEW k \in Keys, StartGet(p, k) PROVE Contract!Next
  <2>1. /\ pc[p] = "idle" /\ pc' = [pc EXCEPT ![p] = "get"] /\ key' = [key EXCEPT ![p] = k]
        /\ ret' = [ret EXCEPT ![p] = None] /\ UNCHANGED <<disk, ver, seen>>
    BY <1>1 DEF StartGet, Begin
  <2>2. Reg' = Reg
    BY <2>1 DEF Reg
  <2>3. Pend' = Pend
    BY <1>0, <2>1, PendSame DEF Storing, TypeOK
  <2>4. Call[p] = Done(ret[p])
    BY <2>1, CallOf
  <2>5. Call' = [Call EXCEPT ![p] = Asked(k)]
    BY <1>0, <2>1, CallMoves DEF TypeOK
  <2>6. QED BY <2>2, <2>3, <2>4, <2>5, Asks
<1>2. ASSUME NEW p \in Procs, NEW k \in Keys, StartSet(p, k) PROVE Contract!Next
  <2>1. /\ pc[p] = "idle" /\ pc' = [pc EXCEPT ![p] = "set"] /\ key' = [key EXCEPT ![p] = k]
        /\ ver' = [ver EXCEPT ![p] = ops + 1] /\ ops < MaxOps /\ UNCHANGED <<disk, seen, ret>>
    BY <1>2 DEF StartSet, Begin
  <2>2. Reg' = Reg /\ Call' = Call
    BY <1>0, <2>1, CallStays DEF Reg, TypeOK
  <2>3. key'[p] = k /\ ver'[p] = ops + 1
    BY <1>0, <2>1 DEF TypeOK
  <2>4. Pend' = Pend \cup {<<k, ops + 1>>}
    <3>1. /\ ~Storing(p) /\ Storing(p)'
          /\ \A q \in Procs : q # p => (Storing(q)' <=> Storing(q))
          /\ \A q \in Procs : q # p => key'[q] = key[q] /\ ver'[q] = ver[q]
      BY <1>0, <2>1 DEF Storing, TypeOK
    <3>2. QED BY <2>3, <3>1, PendGrows
  <2>5. <<k, ops + 1>> \notin Pend
    BY <1>0 DEF Pend, Versions
  <2>6. ops + 1 \in Value
    BY <1>0, <2>1, DiskCacheAssumption DEF Value
  <2>7. QED BY <2>2, <2>4, <2>5, <2>6, Begins
<1>3. ASSUME NEW p \in Procs, GetRead(p) PROVE [Contract!Next]_(Contract!vars)
  <2>1. pc[p] = "get" /\ UNCHANGED <<disk, key, ver, ret>>
    BY <1>3 DEF GetRead
  <2>2. Reg' = Reg
    BY <2>1 DEF Reg
  <2>3. pc' = [pc EXCEPT ![p] = "check"] \/ pc' = [pc EXCEPT ![p] = "idle"]
    BY <1>3 DEF GetRead
  <2>4. Pend' = Pend
    BY <1>0, <2>1, <2>3, PendSame DEF Storing, TypeOK
  <2>5. CASE disk[key[p]].kind = "entry"
    <3>1. pc' = [pc EXCEPT ![p] = "check"] /\ seen' = [seen EXCEPT ![p] = disk[key[p]]]
      BY <1>3, <2>5 DEF GetRead, FileOf
    <3>2. Reg[key[p]] = disk[key[p]].val
      BY <1>0, <2>5 DEF Reg
    <3>3. disk[key[p]] \in Envelope
      BY <1>0, <2>5, FileKinds
    <3>4. Reg[key[p]] # None
      BY <3>2, <3>3 DEF Envelope, Value, None
    <3>5. Call[p] = Asked(key[p])
      BY <2>1, CallOf
    <3>6. Call' = [Call EXCEPT ![p] = Found(key[p], Reg[key[p]])]
      BY <1>0, <2>1, <3>1, <3>2, CallMoves DEF TypeOK
    <3>7. QED BY <1>0, <2>2, <2>4, <3>4, <3>5, <3>6, Remembers
  <2>6. CASE disk[key[p]].kind # "entry"
    <3>1. pc' = [pc EXCEPT ![p] = "idle"] /\ seen' = seen
      BY <1>3, <2>6 DEF GetRead, FileOf
    <3>2. Call[p] = Asked(key[p]) /\ ret[p] = None
      BY <2>1, CallOf DEF Versions
    <3>3. Call' = [Call EXCEPT ![p] = Done(None)]
      BY <1>0, <2>1, <3>1, <3>2, CallMoves DEF TypeOK
    <3>4. QED BY <1>0, <2>2, <2>4, <3>2, <3>3, Misses
  <2>7. QED BY <2>5, <2>6
<1>4. ASSUME NEW p \in Procs, GetCheck(p) PROVE [Contract!Next]_(Contract!vars)
  <2>1. /\ pc[p] = "check" /\ pc' = [pc EXCEPT ![p] = "idle"] /\ UNCHANGED <<key, ver>>
        /\ seen' = [seen EXCEPT ![p] = Absent]
    BY <1>4 DEF GetCheck
  <2>2. Pend' = Pend
    BY <1>0, <2>1, PendSame DEF Storing, TypeOK
  <2>3. CASE Old(seen[p], clock)
    <3>1. disk' = [disk EXCEPT ![key[p]] = Absent] /\ ret' = ret
      BY <1>4, <2>3 DEF GetCheck, Unlink
    <3>2. Reg' = [Reg EXCEPT ![key[p]] = None]
      BY <1>0, <3>1, AbsentKind, RegForgets
    <3>3. ret[p] = None
      BY <2>1 DEF Versions
    <3>4. Call[p] = Found(key[p], seen[p].val)
      BY <2>1, CallOf
    <3>5. Call' = [Call EXCEPT ![p] = Done(None)]
      BY <1>0, <2>1, <3>1, <3>3, CallMoves DEF TypeOK
    <3>6. QED BY <1>0, <2>2, <3>2, <3>4, <3>5, Misses
  <2>4. CASE ~Old(seen[p], clock)
    <3>1. disk' = disk /\ ret' = [ret EXCEPT ![p] = seen[p].val]
      BY <1>4, <2>4 DEF GetCheck
    <3>2. Reg' = Reg
      BY <3>1 DEF Reg
    <3>3. Call[p] = Found(key[p], seen[p].val) /\ seen[p].val \in Value
      BY <1>0, <2>1, CallOf DEF Reading, Envelope
    <3>4. Call' = [Call EXCEPT ![p] = Done(seen[p].val)]
      BY <1>0, <2>1, <3>1, CallMoves DEF TypeOK
    <3>5. QED BY <1>0, <2>2, <3>2, <3>3, <3>4, Answers
  <2>5. QED BY <2>3, <2>4
<1>5. ASSUME NEW p \in Procs, SetOpen(p) PROVE Contract!Next
  <2>1. /\ pc[p] = "set" /\ pc' = [pc EXCEPT ![p] = "write"]
        /\ UNCHANGED <<key, ver, seen, ret>> /\ disk' = [disk EXCEPT ![key[p]] = TornBy(p)]
    BY <1>5 DEF SetOpen, local
  <2>2. Pend' = Pend
    BY <1>0, <2>1, PendSame DEF Storing, TypeOK
  <2>3. Reg' = [Reg EXCEPT ![key[p]] = None]
    BY <1>0, <2>1, TornKind, RegForgets
  <2>4. Call' = Call
    BY <1>0, <2>1, CallStays DEF TypeOK
  <2>5. QED BY <1>0, <2>2, <2>3, <2>4, Forgets
<1>6. ASSUME NEW p \in Procs, NEW l \in {"list", "idle"}, pc[p] \in {"set", "write"},
             pc' = [pc EXCEPT ![p] = l], UNCHANGED <<key, ver, ret>>,
             \A q \in Procs : q # p => seen'[q] = seen[q],
             Reg' = Reg \/ Reg' = [Reg EXCEPT ![key[p]] = ver[p]]
      PROVE  Contract!Next
  <2>1. Call' = Call
    BY <1>0, <1>6, CallStays DEF TypeOK
  <2>2. <<key[p], ver[p]>> \in Pend /\ Pend' = Pend \ {<<key[p], ver[p]>>}
    BY <1>0, <1>6, PendShrinks DEF Storing, TypeOK
  <2>3. ver[p] \in Value
    BY <1>0, <1>6 DEF Numbered
  <2>4. QED BY <1>0, <1>6, <2>1, <2>2, <2>3, TakesEffect, Abandons
<1>7. ASSUME NEW p \in Procs, SetWrite(p) PROVE Contract!Next
  <2>1. /\ pc[p] = "write" /\ pc' = [pc EXCEPT ![p] = "list"] /\ UNCHANGED <<key, ver, seen, ret>>
        /\ disk' = [disk EXCEPT ![key[p]] = Written(p)]
    BY <1>7 DEF SetWrite, local
  <2>2. CASE disk[key[p]] = Absent
    <3>1. Written(p) = Absent
      BY <2>2, AbsentKind DEF Written
    <3>2. disk' = disk
      BY <1>0, <2>1, <2>2, <3>1 DEF TypeOK
    <3>3. Reg' = Reg
      BY <3>2 DEF Reg
    <3>4. QED BY <1>6, <2>1, <3>3
  <2>3. CASE disk[key[p]] # Absent
    <3>1. disk[key[p]].kind = "torn" /\ disk[key[p]].by = p
      BY <1>0, <2>1, <2>3 DEF Owner
    <3>2. Written(p) = Entry(ver[p], at[p])
      BY <2>3, <3>1 DEF Written
    <3>3. Written(p).kind = "entry" /\ Written(p).val = ver[p]
      BY <3>2 DEF Entry
    <3>4. Reg' = [Reg EXCEPT ![key[p]] = ver[p]]
      BY <1>0, <2>1, <3>3 DEF Reg, TypeOK
    <3>5. QED BY <1>6, <2>1, <3>4
  <2>4. QED BY <2>2, <2>3
<1>8. ASSUME NEW p \in Procs, SetFails(p) PROVE Contract!Next
  <2>1. /\ pc[p] = "write" /\ pc' = [pc EXCEPT ![p] = "idle"] /\ UNCHANGED <<disk, key, ver, seen, ret>>
    BY <1>8 DEF SetFails, local
  <2>2. Reg' = Reg
    BY <2>1 DEF Reg
  <2>3. QED BY <1>6, <2>1, <2>2
<1>9. ASSUME NEW p \in Procs, Crash(p) PROVE [Contract!Next]_(Contract!vars)
  <2>1. /\ pc' = [pc EXCEPT ![p] = "idle"] /\ UNCHANGED <<disk, key, ver, ret>>
        /\ seen' = [seen EXCEPT ![p] = Absent]
    BY <1>9 DEF Crash
  <2>2. Reg' = Reg
    BY <2>1 DEF Reg
  <2>3. CASE pc[p] \in {"set", "write"}
    <3>1. \A q \in Procs : q # p => seen'[q] = seen[q]
      BY <1>0, <2>1 DEF TypeOK
    <3>2. QED BY <1>6, <2>1, <2>2, <2>3, <3>1
  <2>4. CASE pc[p] \in {"get", "check"}
    <3>1. ret[p] = None
      BY <2>4 DEF Versions
    <3>2. Call[p] = Asked(key[p]) \/ Call[p] = Found(key[p], seen[p].val)
      BY <2>4, CallOf
    <3>3. Call' = [Call EXCEPT ![p] = Done(None)]
      BY <1>0, <2>1, <3>1, CallMoves DEF TypeOK
    <3>4. Pend' = Pend
      BY <1>0, <2>1, <2>4, PendSame DEF Storing, TypeOK
    <3>5. QED BY <1>0, <2>2, <3>2, <3>3, <3>4, Misses
  <2>5. CASE pc[p] \notin {"set", "write", "get", "check"}
    <3>1. Call' = Call
      BY <1>0, <2>1, <2>5, CallStays DEF TypeOK
    <3>2. Pend' = Pend
      BY <1>0, <2>1, <2>5, PendSame DEF Storing, TypeOK
    <3>3. QED BY <2>2, <3>1, <3>2, Stutters
  <2>6. QED BY <2>3, <2>4, <2>5
<1>10. ASSUME NEW p \in Procs, UnlinkListed(p) \/ Purge(p) PROVE Contract!Next
  <2>1. /\ pc[p] \in {"unlink", "purge"} /\ UNCHANGED <<key, ver, seen, ret>>
        /\ \E l \in {"idle", "unlink", "scan"} : pc' = [pc EXCEPT ![p] = l]
    BY <1>10 DEF UnlinkListed, Purge, Next1
  <2>2. PICK k \in Keys : disk' = [disk EXCEPT ![k] = Absent]
    BY <1>0, <1>10 DEF UnlinkListed, Purge, Unlink, TypeOK
  <2>3. Reg' = [Reg EXCEPT ![k] = None]
    BY <1>0, <2>2, AbsentKind, RegForgets
  <2>4. Pend' = Pend
    BY <1>0, <2>1, PendSame DEF Storing, TypeOK
  <2>5. Call' = Call
    BY <1>0, <2>1, CallStays DEF TypeOK
  <2>6. QED BY <2>3, <2>4, <2>5, Forgets
<1>11. ASSUME NEW p \in Procs, List(p) \/ Stat(p) \/ Sort(p) \/ ScanKeeps(p)
                \/ ScanCondemns(p) \/ Clear(p) \/ EvictExpired(p)
       PROVE  UNCHANGED Contract!vars
  <2>1. /\ pc[p] \in {"idle", "list", "sort", "scan"} /\ UNCHANGED <<disk, ver, seen, ret>>
        /\ pc' = pc \/ \E l \in {"idle", "sort", "unlink", "scan", "purge"} : pc' = [pc EXCEPT ![p] = l]
    BY <1>11 DEF List, Stat, Sort, ScanKeeps, ScanCondemns, Clear, EvictExpired, Begin, Next1
  <2>2. \A q \in Procs : q # p => key'[q] = key[q]
    BY <1>0, <1>11 DEF List, Stat, Sort, ScanKeeps, ScanCondemns, Clear, EvictExpired, TypeOK
  <2>3. Reg' = Reg
    BY <2>1 DEF Reg
  <2>4. Pend' = Pend
    BY <1>0, <2>1, <2>2, PendSame DEF Storing, TypeOK
  <2>5. Call' = Call
    BY <1>0, <2>1, <2>2, CallStays DEF TypeOK
  <2>6. QED BY <2>3, <2>4, <2>5, Stutters
<1>12. CASE Tick \/ UNCHANGED vars
  <2>1. UNCHANGED <<disk, pc, key, ver, seen, ret>>
    BY <1>12 DEF Tick, vars, local
  <2>2. Reg' = Reg /\ Pend' = Pend /\ Call' = Call
    BY <2>1 DEF Reg, Pend, Call
  <2>3. QED BY <2>2, Stutters
<1>13. QED
  BY <1>1, <1>2, <1>3, <1>4, <1>5, <1>7, <1>8, <1>9, <1>10, <1>11, <1>12
     DEF Next, Start, Locks, Step

\* For any number of processes and keys, the cache implements its contract: what a
\* get() of a key returns is what the last set() of that very key to take effect
\* stored, at some moment of the call, or nothing.
THEOREM CacheKeepsItsContract == Spec => ImplementsContract
<1>1. Init => Inv /\ Versions
  BY InitInv, VersionsInit
<1>2. Inv /\ Versions /\ [Next]_vars => (Inv /\ Versions)'
  BY TypeStep, LockStep, VersionsStep DEF Inv
<1>3. Inv /\ Versions /\ [Next]_vars => [Contract!Next]_(Contract!vars)
  BY ContractStep
<1>4. QED BY <1>1, <1>2, <1>3, ContractInit, PTL DEF Spec, ImplementsContract, Contract!Spec

=============================================================================
