---------------------------- MODULE ClaimsProofs ----------------------------
(***************************************************************************)
(* The two stores of claims.  In the registry's active work a scope has    *)
(* one holder, who is able to renew and whose observed files stay: for any *)
(* agents, scopes, legacy claims, TTL and number of saves cut short.  The  *)
(* claims file keeps each instance and each scope to one claim, whatever   *)
(* saves overtake each other and however their texts overlay, and lists    *)
(* what it reported until they do: for any agents, hooks, requests and     *)
(* bounds.                                                                 *)
(***************************************************************************)
EXTENDS ActiveWork, ClaimsFile, WellFoundedInduction, TLAPS

(* The active work of the registry: ActiveWork. *)

\* HolderRenews makes OneHolder inductive: a claim that meets no entry of another
\* agent can meet no holder either.
WorkInv == TypeOK /\ OneHolder /\ HolderRenews

LEMMA KeyFacts ==
  /\ \A a \in Agents, s \in Scopes : <<a, s>> \in Agents \X Scopes /\ <<a, s>> \in Key
  /\ \A o \in Owners, s \in Scopes : <<o, s>> \in Key
  /\ LegacyClaims \subseteq Key /\ None \in Entry /\ TTL \in Left /\ Never \in Left
<1>1. TTL \in Left /\ Never \in Left /\ -1 \in Left
  BY ActiveWorkAssumption DEF Left, Never
<1>2. None \in Entry
  BY <1>1 DEF None, Entry
<1>3. LegacyClaims \subseteq Key
  BY ActiveWorkAssumption
<1>4. QED BY <1>1, <1>2, <1>3 DEF Key, Owners

LEMMA EntryUpdates ==
  ASSUME NEW e \in Entry, NEW n \in Left, NEW f \in Files
  PROVE  /\ [e EXCEPT !.left = n] \in Entry
         /\ [e EXCEPT !.left = n].left = n /\ [e EXCEPT !.left = n].files = e.files
         /\ [e EXCEPT !.files = @ \cup {f}] \in Entry
         /\ [e EXCEPT !.files = @ \cup {f}].left = e.left
         /\ e.files \subseteq [e EXCEPT !.files = @ \cup {f}].files
<1>1. e = [left |-> e.left, files |-> e.files] /\ e.left \in Left /\ e.files \in SUBSET Files
  BY DEF Entry
<1>2. /\ [e EXCEPT !.left = n] = [left |-> n, files |-> e.files]
      /\ [e EXCEPT !.files = @ \cup {f}] = [left |-> e.left, files |-> e.files \cup {f}]
  BY <1>1
<1>3. e.files \cup {f} \in SUBSET Files
  BY <1>1
<1>4. /\ [left |-> n, files |-> e.files] \in Entry
      /\ [left |-> e.left, files |-> e.files \cup {f}] \in Entry
  BY <1>1, <1>3 DEF Entry
<1>5. QED BY <1>2, <1>4

LEMMA WorkInitInv == WorkInit => WorkInv
<1> SUFFICES ASSUME WorkInit PROVE WorkInv
  OBVIOUS
<1>1. \A a \in Agents, s \in Scopes : held[<<a, s>>] = -1
  BY KeyFacts DEF WorkInit
<1>2. held \in [Agents \X Scopes -> -1..TTL]
  BY ActiveWorkAssumption DEF WorkInit
<1>3. TypeOK
  <2>1. work \in [Key -> Entry] /\ legacy \in [LegacyClaims -> Left]
    BY KeyFacts DEF WorkInit
  <2>2. /\ broken \in BOOLEAN /\ dead \subseteq Agents /\ faults \in 0..MaxFaults
        /\ lost \in BOOLEAN
    <3>1. broken = FALSE /\ dead = {} /\ faults = 0 /\ lost = FALSE
      BY DEF WorkInit
    <3>2. faults \in 0..MaxFaults
      BY <3>1, ActiveWorkAssumption
    <3>3. QED BY <3>1, <3>2
  <2>3. QED BY <1>2, <2>1, <2>2 DEF TypeOK
<1>4. OneHolder /\ HolderRenews
  BY <1>1 DEF OneHolder, HolderRenews
<1>5. QED BY <1>3, <1>4 DEF WorkInv

-----------------------------------------------------------------------------
(* What a save leaves *)

\* A save that is cut short ends the promises, and leaves a registry of its type.
LEMMA CutShortType ==
  ASSUME TypeOK, NEW w \in [Key -> Entry], CutShort(w)
  PROVE  /\ work' \in [Key -> Entry] /\ broken' \in BOOLEAN
         /\ faults' \in 0..MaxFaults /\ faults' # faults /\ lost' = TRUE
BY KeyFacts, ActiveWorkAssumption DEF TypeOK, CutShort

LEMMA SaveType ==
  ASSUME TypeOK, NEW w \in [Key -> Entry], Save(w) \/ CutShort(w)
  PROVE  /\ work' \in [Key -> Entry] /\ broken' \in BOOLEAN
         /\ faults' \in 0..MaxFaults /\ lost' \in BOOLEAN
         /\ ~lost' => work' = w /\ ~lost
BY CutShortType DEF TypeOK, Save, fault

\* An operation that changes neither what is listed nor what is held.
LEMMA ListingKept ==
  ASSUME OneHolder, HolderRenews, held' = held, ~lost' => ~lost,
         ~lost' => \A k \in Key : work'[k].left = work[k].left
  PROVE  OneHolder' /\ HolderRenews'
<1>1. OneHolder'
  BY DEF OneHolder
<1>2. HolderRenews'
  BY KeyFacts DEF HolderRenews, Listed
<1>3. QED BY <1>1, <1>2

-----------------------------------------------------------------------------
(* The operations *)

LEMMA ClaimInv ==
  ASSUME WorkInv, NEW a \in Agents, NEW s \in Scopes, NEW ttl \in 0..TTL, Claim(a, s, ttl)
  PROVE  WorkInv'
<1> DEFINE w == Claimed(<<a, s>>, ttl)
<1>1. w \in [Key -> Entry] /\ \A k \in Key : w[k].left = IF k = <<a, s>> THEN ttl ELSE work[k].left
  <2>1. ttl \in Left /\ <<a, s>> \in Key /\ work \in [Key -> Entry]
    BY KeyFacts, ActiveWorkAssumption DEF WorkInv, TypeOK, Left, Never
  <2>2. w = [work EXCEPT ![<<a, s>>] = [work[<<a, s>>] EXCEPT !.left = ttl]]
    BY DEF Claimed
  <2>3. [work[<<a, s>>] EXCEPT !.left = ttl] \in Entry /\ [work[<<a, s>>] EXCEPT !.left = ttl].left = ttl
    BY <2>1, EntryUpdates DEF Entry
  <2>4. QED BY <2>1, <2>2, <2>3
<1>2. Save(w) \/ CutShort(w)
  BY DEF Claim
<1>3. TypeOK'
  <2>1. held' \in [Agents \X Scopes -> -1..TTL]
    BY KeyFacts, ActiveWorkAssumption DEF WorkInv, TypeOK, Claim
  <2>2. QED BY <1>1, <1>2, <2>1, SaveType DEF WorkInv, TypeOK, Claim
<1>4. CASE Save(w) /\ held' = [held EXCEPT ![<<a, s>>] = ttl]
  <2>1. \A b \in Agents, t \in Scopes :
          held'[<<b, t>>] = IF b = a /\ t = s THEN ttl ELSE held[<<b, t>>]
    BY <1>4, KeyFacts DEF WorkInv, TypeOK
  <2>2. \A k \in Key : work'[k].left = IF k = <<a, s>> THEN ttl ELSE work[k].left
    BY <1>1, <1>4 DEF Save
  <2>3. \A o \in Owners \ {a} : ~Listed(<<o, s>>)
    BY DEF Claim, Conflict
  <2>4. ~lost' => ~lost
    BY <1>4 DEF Save, fault
  <2>5. ~lost => \A b \in Agents \ {a} : ~(held[<<b, s>>] >= 0)
    <3>1. ASSUME ~lost, NEW b \in Agents \ {a}, held[<<b, s>>] >= 0 PROVE FALSE
      <4>1. work[<<b, s>>].left >= held[<<b, s>>]
        BY <3>1 DEF WorkInv, HolderRenews
      <4>2. /\ work[<<b, s>>].left \in Int /\ held[<<b, s>>] \in Int
            /\ ~(work[<<b, s>>].left >= 0)
        BY <2>3, KeyFacts, ActiveWorkAssumption DEF WorkInv, TypeOK, Entry, Left, Never, Owners, Listed
      <4>3. QED BY <3>1, <4>1, <4>2
    <3>2. QED BY <3>1
  <2>6. OneHolder'
    BY <2>1, <2>4, <2>5 DEF WorkInv, OneHolder
  <2>7. ASSUME ~lost', NEW b \in Agents, NEW t \in Scopes, held'[<<b, t>>] >= 0
        PROVE  /\ work'[<<b, t>>].left >= held'[<<b, t>>]
               /\ \A o \in Owners \ {b} : Listed(<<o, t>>)' => <<o, t>> \in LegacyClaims
    <3>1. CASE b = a /\ t = s
      BY <2>1, <2>2, <2>3, <3>1, KeyFacts DEF Listed
    <3>2. CASE t # s
      BY <2>1, <2>2, <2>4, <2>7, <3>2, KeyFacts DEF WorkInv, HolderRenews, Listed
    <3>3. CASE b # a /\ t = s
      BY <2>1, <2>4, <2>5, <2>7, <3>3
    <3>4. QED BY <3>1, <3>2, <3>3
  <2>8. HolderRenews'
    BY <2>7 DEF HolderRenews
  <2>9. QED BY <1>3, <2>6, <2>8 DEF WorkInv
<1>5. CASE CutShort(w)
  BY <1>1, <1>3, <1>5, CutShortType DEF WorkInv, OneHolder, HolderRenews
<1>6. QED BY <1>4, <1>5 DEF Claim

\* Refuse and List: the registry is saved as it is.
LEMMA SaveAsIs ==
  ASSUME WorkInv, Save(work) \/ CutShort(work), UNCHANGED <<legacy, held, dead>>
  PROVE  WorkInv'
<1>1. work \in [Key -> Entry]
  BY DEF WorkInv, TypeOK
<1>2. TypeOK'
  BY <1>1, SaveType DEF WorkInv, TypeOK
<1>3. (~lost' => ~lost) /\ (~lost' => \A k \in Key : work'[k].left = work[k].left)
  BY <1>1, SaveType DEF WorkInv
<1>4. OneHolder' /\ HolderRenews'
  BY <1>3, ListingKept DEF WorkInv
<1>5. QED BY <1>2, <1>4 DEF WorkInv

LEMMA ObserveInv ==
  ASSUME WorkInv, NEW a \in Agents, NEW s \in Scopes, NEW f \in Files, Observe(a, s, f)
  PROVE  WorkInv'
<1> DEFINE w == [work EXCEPT ![<<a, s>>].files = @ \cup {f}]
<1>1. w \in [Key -> Entry] /\ \A k \in Key : w[k].left = work[k].left
  BY KeyFacts DEF WorkInv, TypeOK, Entry
<1>2. Save(w) \/ CutShort(w)
  BY DEF Observe
<1>3. TypeOK'
  BY <1>1, <1>2, SaveType DEF WorkInv, TypeOK, Observe
<1>4. (~lost' => ~lost) /\ (~lost' => \A k \in Key : work'[k].left = work[k].left)
  BY <1>1, <1>2, SaveType DEF WorkInv
<1>5. OneHolder' /\ HolderRenews'
  BY <1>4, ListingKept DEF WorkInv, Observe
<1>6. QED BY <1>3, <1>5 DEF WorkInv

LEMMA ReleaseInv ==
  ASSUME WorkInv, NEW a \in Agents, NEW s \in Scopes, Release(a, s)
  PROVE  WorkInv'
<1> DEFINE w == [work EXCEPT ![<<a, s>>] = None]
<1>1. w \in [Key -> Entry] /\ \A k \in Key : w[k] = IF k = <<a, s>> THEN None ELSE work[k]
  BY KeyFacts DEF WorkInv, TypeOK
<1>2. Save(w) \/ CutShort(w)
  BY DEF Release
<1>3. TypeOK'
  <2>1. held' \in [Agents \X Scopes -> -1..TTL]
    BY KeyFacts, ActiveWorkAssumption DEF WorkInv, TypeOK, Release
  <2>2. QED BY <1>1, <1>2, <2>1, SaveType DEF WorkInv, TypeOK, Release
<1>4. ~lost' => ~lost /\ \A k \in Key : work'[k] = IF k = <<a, s>> THEN None ELSE work[k]
  BY <1>1, <1>2, SaveType DEF WorkInv
<1>5. \A b \in Agents, t \in Scopes :
        held'[<<b, t>>] = IF b = a /\ t = s THEN -1 ELSE held[<<b, t>>]
  BY KeyFacts DEF WorkInv, TypeOK, Release
<1>6. OneHolder'
  BY <1>4, <1>5 DEF WorkInv, OneHolder
<1>7. HolderRenews'
  <2>1. \A k \in Key : ~lost' /\ Listed(k)' => Listed(k) /\ work'[k] = work[k]
    BY <1>4 DEF Listed, None
  <2>2. \A b \in Agents, t \in Scopes : ~lost' /\ held'[<<b, t>>] >= 0 =>
          work'[<<b, t>>] = work[<<b, t>>] /\ held'[<<b, t>>] = held[<<b, t>>]
    BY <1>4, <1>5, KeyFacts
  <2>3. QED BY <1>4, <2>1, <2>2, KeyFacts DEF WorkInv, HolderRenews
<1>8. QED BY <1>3, <1>6, <1>7 DEF WorkInv

LEMMA IngestInv == ASSUME WorkInv, Ingest PROVE WorkInv'
<1> DEFINE w == [k \in Key |-> IF New(k) THEN [left |-> legacy[k], files |-> {}] ELSE work[k]]
<1>1. /\ w \in [Key -> Entry]
      /\ \A k \in Key : Listed(k) => w[k] = work[k]
      /\ \A k \in Key : ~Listed(k) /\ k \notin LegacyClaims => w[k] = work[k]
  BY DEF WorkInv, TypeOK, Entry, New
<1>2. Save(w) \/ CutShort(w)
  BY DEF Ingest
<1>3. TypeOK'
  BY <1>1, <1>2, SaveType DEF WorkInv, TypeOK, Ingest
<1>4. ~lost' => ~lost /\ work' = w
  BY <1>1, <1>2, SaveType DEF WorkInv
<1>5. held' = held
  BY DEF Ingest
<1>6. OneHolder'
  BY <1>4, <1>5 DEF WorkInv, OneHolder
<1>7. ASSUME ~lost', NEW a \in Agents, NEW s \in Scopes, held'[<<a, s>>] >= 0
      PROVE  /\ work'[<<a, s>>].left >= held'[<<a, s>>]
             /\ \A o \in Owners \ {a} : Listed(<<o, s>>)' => <<o, s>> \in LegacyClaims
  <2>1. /\ work[<<a, s>>].left >= held[<<a, s>>]
        /\ \A o \in Owners \ {a} : Listed(<<o, s>>) => <<o, s>> \in LegacyClaims
    BY <1>4, <1>5, <1>7 DEF WorkInv, HolderRenews
  <2>2. work[<<a, s>>].left \in Int /\ held[<<a, s>>] \in Int
    BY KeyFacts, ActiveWorkAssumption DEF WorkInv, TypeOK, Entry, Left, Never
  <2>3. Listed(<<a, s>>)
    BY <1>5, <1>7, <2>1, <2>2 DEF Listed
  <2>4. work'[<<a, s>>].left >= held'[<<a, s>>]
    BY <1>1, <1>4, <1>5, <1>7, <2>1, <2>3, KeyFacts
  <2>5. ASSUME NEW o \in Owners \ {a}, Listed(<<o, s>>)' PROVE <<o, s>> \in LegacyClaims
    BY <1>1, <1>4, <1>7, <2>1, <2>5, KeyFacts DEF Listed
  <2>6. QED BY <2>4, <2>5
<1>8. HolderRenews'
  BY <1>7 DEF HolderRenews
<1>9. QED BY <1>3, <1>6, <1>8 DEF WorkInv

LEMMA AgedFacts ==
  /\ \A n \in Left : Aged(n) \in Left /\ (Aged(n) >= 0 => n >= 0)
  /\ \A n \in -1..TTL : Aged(n) \in -1..TTL /\ (Aged(n) >= 0 => n >= 0)
  /\ \A n \in Left, h \in -1..TTL : n >= h /\ Aged(h) >= 0 => Aged(n) >= Aged(h)
BY ActiveWorkAssumption DEF Aged, Left, Never

LEMMA TickInv == ASSUME WorkInv, WorkAges PROVE WorkInv'
<1>1. \A k \in Key : work[k] \in Entry /\ work[k].left \in Left
  BY DEF WorkInv, TypeOK, Entry
<1>2. /\ work' \in [Key -> Entry]
      /\ \A k \in Key : work'[k].left = Aged(work[k].left)
  BY <1>1, AgedFacts, KeyFacts DEF WorkAges, Entry, None
<1>3. \A a \in Agents, s \in Scopes :
        held[<<a, s>>] \in -1..TTL /\ held'[<<a, s>>] = Aged(held[<<a, s>>])
  BY KeyFacts DEF WorkInv, TypeOK, WorkAges
<1>4. TypeOK'
  BY <1>2, <1>3, AgedFacts DEF WorkInv, TypeOK, WorkAges, fault
<1>5. lost' = lost
  BY DEF WorkAges, fault
<1>6. OneHolder'
  BY <1>3, <1>5, AgedFacts DEF WorkInv, OneHolder
<1>7. HolderRenews'
  <2>1. \A k \in Key : Listed(k)' => Listed(k)
    BY <1>1, <1>2, AgedFacts DEF Listed
  <2>2. QED BY <1>1, <1>2, <1>3, <1>5, <2>1, AgedFacts, KeyFacts DEF WorkInv, HolderRenews
<1>8. QED BY <1>4, <1>6, <1>7 DEF WorkInv

LEMMA StutterInv == ASSUME WorkInv, UNCHANGED <<work, held, fault, legacy>>, dead' \subseteq Agents
                    PROVE  WorkInv'
BY DEF WorkInv, TypeOK, OneHolder, HolderRenews, Listed, fault

LEMMA WorkStepInv == WorkInv /\ [WorkNext]_workVars => WorkInv'
<1> SUFFICES ASSUME WorkInv, [WorkNext]_workVars PROVE WorkInv'
  OBVIOUS
<1>1. CASE \E a \in Agents, s \in Scopes : \E ttl \in 0..TTL : Claim(a, s, ttl)
  BY <1>1, ClaimInv
<1>2. CASE (\E a \in Agents, s \in Scopes : RefuseClaim(a, s)) \/ List
  BY <1>2, SaveAsIs DEF RefuseClaim, List
<1>3. CASE \E a \in Agents, s \in Scopes : Release(a, s)
  BY <1>3, ReleaseInv
<1>4. CASE \E a \in Agents, s \in Scopes, f \in Files : Observe(a, s, f)
  BY <1>4, ObserveInv
<1>5. CASE Ingest
  BY <1>5, IngestInv
<1>6. CASE WorkAges
  BY <1>6, TickInv
<1>7. CASE \E a \in Agents : AgentDies(a)
  BY <1>7, StutterInv DEF AgentDies, Dies, WorkInv, TypeOK
<1>8. CASE UNCHANGED workVars
  BY <1>8, StutterInv DEF workVars, WorkInv, TypeOK
<1>9. QED BY <1>1, <1>2, <1>3, <1>4, <1>5, <1>6, <1>7, <1>8 DEF WorkNext

LEMMA WorkInvHolds == WorkSpec => []WorkInv
BY WorkInitInv, WorkStepInv, PTL DEF WorkSpec

\* The registry and the beliefs of the agents keep their type.
THEOREM TypeCorrect == WorkSpec => []TypeOK
BY WorkInvHolds, PTL DEF WorkInv

\* No two agents hold one scope, until a save is cut short.
THEOREM ScopeHasOneHolder == WorkSpec => []OneHolder
BY WorkInvHolds, PTL DEF WorkInv

\* A holder's entry stays, and only a legacy claim can refuse its renewal.
THEOREM HolderIsRenewed == WorkSpec => []HolderRenews
BY WorkInvHolds, PTL DEF WorkInv

-----------------------------------------------------------------------------
(* Observed files *)

LEMMA StepKeepsObserved ==
  ASSUME WorkInv, [WorkNext]_workVars
  PROVE  \A k \in Key : Listed(k) /\ Listed(k)' /\ faults' = faults =>
           work[k].files \subseteq work'[k].files
<1> SUFFICES ASSUME NEW k \in Key, Listed(k), Listed(k)', faults' = faults
             PROVE  work[k].files \subseteq work'[k].files
  OBVIOUS
<1>0. work \in [Key -> Entry] /\ faults \in Nat
  BY ActiveWorkAssumption DEF WorkInv, TypeOK
<1>1. ASSUME NEW w, CutShort(w) PROVE FALSE
  BY <1>0, <1>1 DEF CutShort
<1>2. CASE \E a \in Agents, s \in Scopes : \E ttl \in 0..TTL : Claim(a, s, ttl)
  <2>1. PICK a \in Agents, s \in Scopes, ttl \in 0..TTL : Claim(a, s, ttl)
    BY <1>2
  <2>2. work' = [work EXCEPT ![<<a, s>>] = [work[<<a, s>>] EXCEPT !.left = ttl]]
    BY <1>1, <2>1 DEF Claim, Claimed, Save
  <2>3. \A e \in Entry, n \in 0..TTL : [e EXCEPT !.left = n].files = e.files
    BY DEF Entry
  <2>4. QED BY <1>0, <2>2, <2>3
<1>3. CASE (\E a \in Agents, s \in Scopes : RefuseClaim(a, s)) \/ List
  BY <1>1, <1>3 DEF RefuseClaim, List, Save
<1>4. CASE \E a \in Agents, s \in Scopes : Release(a, s)
  BY <1>0, <1>1, <1>4 DEF Release, Save, Listed, None
<1>5. CASE \E a \in Agents, s \in Scopes, f \in Files : Observe(a, s, f)
  <2>1. PICK a \in Agents, s \in Scopes, f \in Files : Observe(a, s, f)
    BY <1>5
  <2>2. work' = [work EXCEPT ![<<a, s>>] = [work[<<a, s>>] EXCEPT !.files = @ \cup {f}]]
    BY <1>1, <2>1 DEF Observe, Save
  <2>3. QED BY <1>0, <2>2, EntryUpdates
<1>6. CASE Ingest
  BY <1>1, <1>6 DEF Ingest, Save, New
<1>7. CASE WorkAges
  BY <1>0, <1>7 DEF WorkAges, Listed, None, Entry
<1>8. CASE (\E a \in Agents : AgentDies(a)) \/ UNCHANGED workVars
  BY <1>8 DEF AgentDies, Dies, workVars
<1>9. QED BY <1>2, <1>3, <1>4, <1>5, <1>6, <1>7, <1>8 DEF WorkNext

\* Observed files stay with their claim.
THEOREM ObservedFilesKept == WorkSpec => ObservedKept
<1>1. WorkInv /\ [WorkNext]_workVars =>
        [\A k \in Key : Listed(k) /\ Listed(k)' /\ faults' = faults =>
           work[k].files \subseteq work'[k].files]_workVars
  BY StepKeepsObserved
<1>2. QED BY <1>1, WorkInvHolds, PTL DEF WorkSpec, ObservedKept

-----------------------------------------------------------------------------
(* The claims file: ClaimsFile. *)

CallKinds == {"claim", "release", "check", "heartbeat", "cleanup"}
CallRecord ==
  [kind : CallKinds \cup {"none"}, n : Nat, cc : Branches, plan : Plans \cup {0},
   feature : Features \cup {"none"}, force : BOOLEAN, validate : BOOLEAN]
ClaimRecord ==
  [n : Nat, cc : Branches, plan : Plans \cup {0}, feature : Features \cup {"none"},
   session : Nat, owner : Agents, forced : BOOLEAN]
SessionFile == [id : Nat, age : Nat, whole : BOOLEAN]
CallPlaces  == {"idle", "identify", "stamp", "stamping", "owner", "save", "saving"}

FileTypes ==
  /\ calls \in Nat /\ session \in [Agents -> SessionFile]
  /\ pc \in [Proc -> CallPlaces] /\ call \in [Proc -> CallRecord] /\ sid \in [Proc -> Nat]
  /\ DOMAIN view = Proc /\ view = [p \in Proc |-> view[p]]

\* The claim c leaves the scope of e alone.
Apart(c, e) == (e.plan # 0 => c.plan # e.plan) /\ (e.feature # "none" => c.feature # e.feature)

\* A list of claims that keeps its promises: each instance has one claim, and a claim
\* that neither was forced nor is of the shared feature joined a list free of its scope.
Sound(cs) ==
  /\ cs \subseteq ClaimRecord
  /\ \A c, d \in cs : c # d => c.cc # d.cc /\ c.n # d.n
  /\ \A c, d \in cs : c.n < d.n /\ Exclusive(d) => Apart(c, d)

Listing(f) ==
  /\ f = [claims |-> f.claims, completed |-> f.completed, state |-> f.state]
  /\ Sound(f.claims)

\* The file lists what calls made so far have claimed.
FileInv == Listing(file) /\ \A c \in file.claims : c.n <= calls

\* What a process has loaded is sound, older than its call, and passed its checks: what
\* it saves is sound whatever the file has become, since its claims come first in the
\* text and nothing that sticks out behind adds to them.
Pending(p) ==
  pc[p] # "idle" =>
    /\ Listing(view[p])
    /\ \A c \in view[p].claims : c.n < call[p].n
    /\ call[p].n <= calls
    /\ call[p].kind = "claim" => Admits(call[p], view[p].claims)
    /\ call[p].kind = "release" => OfInstance(view[p].claims, call[p].cc) # {}
    /\ call[p].kind = "check" => p[2] = "hook"

CallsInv == \A p \in Proc : Pending(p)

\* As long as saves have not overtaken each other, one process saves at a time, and it
\* has loaded what was reported.
ReportsInv ==
  ~raced => /\ file.state # "broken"
            /\ file.state = "whole" =>
                 file.claims = reported /\ \A p \in Proc : pc[p] # "saving"
            /\ \A p, q \in Proc : pc[p] = "saving" /\ pc[q] = "saving" => p = q
            /\ \A p \in Proc : pc[p] = "saving" => view[p].claims = reported

FileClaims == FileTypes /\ FileInv /\ CallsInv /\ ReportsInv

-----------------------------------------------------------------------------
(* Lists of claims. *)

LEMMA SoundPart ==
  ASSUME NEW cs, NEW ds, Sound(cs), ds \subseteq cs
  PROVE  Sound(ds)
BY DEF Sound

LEMMA SoundAdd ==
  ASSUME NEW cs, Sound(cs), NEW e \in ClaimRecord,
         \A c \in cs : c.n < e.n /\ c.cc # e.cc,
         Exclusive(e) => \A c \in cs : Apart(c, e)
  PROVE  Sound(cs \cup {e})
<1>1. \A c \in cs : c.n \in Nat /\ e.n \in Nat /\ ~(e.n < c.n) /\ c.n # e.n
  BY DEF Sound, ClaimRecord
<1>2. \A c, d \in cs \cup {e} : c # d => c.cc # d.cc /\ c.n # d.n
  BY <1>1 DEF Sound
<1>3. ASSUME NEW c \in cs \cup {e}, NEW d \in cs \cup {e}, c.n < d.n, Exclusive(d)
      PROVE  Apart(c, d)
  <2>1. c \in cs
    BY <1>1, <1>3 DEF ClaimRecord
  <2>2. QED BY <1>3, <2>1 DEF Sound
<1>4. QED BY <1>2, <1>3 DEF Sound

Below == OpToRel(<, Nat)

LEMMA Least ==
  ASSUME NEW M, M \subseteq Nat, M # {}
  PROVE  \E x \in M : \A y \in M : x <= y
<1>1. IsWellFoundedOn(Below, Nat)
  BY NatLessThanWellFounded DEF Below
<1>2. PICK x \in M : \A y \in M : ~(<<y, x>> \in Below)
  BY <1>1, WFMin
<1>3. \A y \in M : ~(y < x)
  BY <1>2 DEF Below, OpToRel
<1>4. QED BY <1>3

LEMMA FirstIs ==
  ASSUME NEW cs, cs # {}, \A c \in cs : c.n \in Nat
  PROVE  First(cs) \in cs /\ \A d \in cs : First(cs).n <= d.n
<1> DEFINE M == {c.n : c \in cs}
<1>1. M \subseteq Nat /\ M # {}
  OBVIOUS
<1>2. \E x \in M : \A y \in M : x <= y
  <2> HIDE DEF M
  <2>1. QED BY <1>1, Least
<1>3. QED BY <1>2 DEF First

LEMMA ReleasedIs ==
  ASSUME NEW p, Sound(view[p].claims), OfInstance(view[p].claims, call[p].cc) # {}
  PROVE  /\ Released(p) \in view[p].claims /\ Released(p).cc = call[p].cc
         /\ \A c \in view[p].claims : c.cc = call[p].cc => c = Released(p)
<1>1. \A c \in OfInstance(view[p].claims, call[p].cc) :
        c.n \in Nat /\ c \in view[p].claims /\ c.cc = call[p].cc
  BY DEF OfInstance, Sound, ClaimRecord
<1>2. Released(p) \in OfInstance(view[p].claims, call[p].cc)
  BY <1>1, FirstIs DEF Released
<1>3. QED BY <1>1, <1>2 DEF Sound

\* What is admitted beside a list may join it.
LEMMA NewClaimFits ==
  ASSUME WellFormed, NEW p \in Proc, FileTypes,
         Sound(view[p].claims), Admits(call[p], view[p].claims),
         \A c \in view[p].claims : c.n < call[p].n
  PROVE  /\ Sound(view[p].claims \cup {NewClaim(p)})
         /\ NewClaim(p).n = call[p].n /\ NewClaim(p).cc = call[p].cc
<1> DEFINE e == NewClaim(p)
           r == call[p]
<1>1. /\ e.n = r.n /\ e.cc = r.cc /\ e.plan = r.plan /\ e.feature = r.feature /\ e.forced = r.force
      /\ e \in ClaimRecord
  <2>1. Agent(p) \in Agents
    BY DEF WellFormed, Agent, Proc
  <2>2. r \in CallRecord /\ sid[p] \in Nat
    BY DEF FileTypes
  <2>3. QED BY <2>1, <2>2 DEF NewClaim, CallRecord, ClaimRecord
<1>2. \A c \in view[p].claims : c.cc # e.cc
  BY <1>1 DEF Admits
<1>3. ASSUME Exclusive(e)
      PROVE  \A c \in view[p].claims : Apart(c, e)
  <2>1. ScopeConflicts(r, view[p].claims) = {}
    BY <1>1, <1>3 DEF Exclusive, Admits
  <2>2. QED BY <1>1, <1>3, <2>1 DEF Exclusive, ScopeConflicts, Apart
<1> HIDE DEF e
<1>4. QED BY <1>1, <1>2, <1>3, SoundAdd DEF e

LEMMA SavedIs ==
  ASSUME WellFormed, NEW p \in Proc, FileTypes, CallsInv, pc[p] # "idle"
  PROVE  /\ Listing(Saved(p)) /\ Saved(p).state = "whole"
         /\ \A c \in Saved(p).claims : c.n <= calls
         /\ view[p].claims = reported => Saved(p).claims = Reported(p)
<1> DEFINE v == view[p].claims
<1>1. Pending(p) /\ Sound(v) /\ call[p] \in CallRecord /\ calls \in Nat
  BY DEF CallsInv, Pending, Listing, FileTypes
<1>2. \A c \in v : c.n \in Nat /\ c.n <= calls
  <2>1. \A c \in v : c.n \in Nat /\ c.n < call[p].n /\ call[p].n \in Nat /\ call[p].n <= calls
    BY <1>1 DEF Pending, Sound, ClaimRecord, CallRecord
  <2>2. QED BY <1>1, <2>1
<1>3. /\ Sound(ClaimsAfter(p)) /\ \A c \in ClaimsAfter(p) : c.n <= calls
      /\ v = reported => ClaimsAfter(p) = Reported(p)
  <2>1. CASE call[p].kind = "claim"
    <3>1. ClaimsAfter(p) = v \cup {NewClaim(p)}
      BY <2>1 DEF ClaimsAfter
    <3>2. Sound(v \cup {NewClaim(p)}) /\ NewClaim(p).n <= calls
      BY <1>1, <2>1, NewClaimFits DEF Pending
    <3>3. Reported(p) = reported \cup {NewClaim(p)}
      BY <2>1 DEF Reported
    <3>4. QED BY <1>2, <3>1, <3>2, <3>3
  <2>2. CASE call[p].kind = "release"
    <3>1. ClaimsAfter(p) = v \ {Released(p)}
      BY <2>2 DEF ClaimsAfter
    <3>2. Sound(v \ {Released(p)})
      BY <1>1, SoundPart
    <3>3. Reported(p) = {c \in reported : c.cc # call[p].cc}
      BY <2>2 DEF Reported
    <3>4. \A c \in v : c.cc = call[p].cc <=> c = Released(p)
      BY <1>1, <2>2, ReleasedIs DEF Pending
    <3>5. QED BY <1>2, <3>1, <3>2, <3>3, <3>4
  <2>3. CASE call[p].kind \notin {"claim", "release"}
    <3>1. ClaimsAfter(p) = v /\ Reported(p) = reported
      BY <2>3 DEF ClaimsAfter, Reported
    <3>2. QED BY <1>1, <1>2, <3>1
  <2>4. QED BY <2>1, <2>2, <2>3
<1>4. QED BY <1>3 DEF Saved, Listing

\* Over the text of another, the claims are still its own, or none can be read.
LEMMA OverlaidIs ==
  ASSUME WellFormed, NEW p \in Proc, FileTypes, CallsInv, pc[p] # "idle",
         NEW f \in Overlaid(p)
  PROVE  Listing(f) /\ \A c \in f.claims : c.n <= calls
<1>1. /\ Sound(ClaimsAfter(p)) /\ \A c \in ClaimsAfter(p) : c.n <= calls
      /\ Listing(Saved(p)) /\ Saved(p).claims = ClaimsAfter(p)
  BY SavedIs DEF Listing, Saved
<1>2. CASE f = Saved(p)
  BY <1>1, <1>2
<1>3. CASE f # Saved(p)
  <2>1. PICK s \in {"whole", "broken"}, c \in Joined(CompletedAfter(p), file.completed) :
          f = [claims |-> IF s = "whole" THEN ClaimsAfter(p) ELSE {}, completed |-> c, state |-> s]
    BY <1>3 DEF Overlaid
  <2>2. /\ f = [claims |-> f.claims, completed |-> f.completed, state |-> f.state]
        /\ f.claims \in {ClaimsAfter(p), {}}
    BY <2>1
  <2>3. QED BY <1>1, <2>2 DEF Listing, Sound
<1>4. QED BY <1>2, <1>3

-----------------------------------------------------------------------------
(* Types. *)

LEMMA NoCallType == WellFormed => NoCall \in CallRecord
BY DEF WellFormed, NoCall, CallRecord

\* A request, numbered.
LEMMA Numbered ==
  ASSUME WellFormed, NEW p \in Proc, NEW r \in Asked(p), NEW n \in Nat,
         NEW s, s = [r EXCEPT !.n = n]
  PROVE  /\ s \in CallRecord /\ s.n = n /\ s.kind = r.kind /\ s.cc = r.cc /\ s.plan = r.plan
         /\ s.feature = r.feature /\ s.force = r.force
         /\ r.kind = "check" => p[2] = "hook"
<1>1. \/ p[2] = "cli" /\ r \in Request({"claim", "release"})
      \/ p[2] = "hook" /\ r \in Request({"check", "heartbeat", "cleanup"})
  BY DEF WellFormed, Asked, Proc
<1>2. QED BY <1>1 DEF Request, CallRecord, CallKinds

LEMMA Sessions ==
  ASSUME WellFormed, NEW s \in SessionFile
  PROVE  /\ [s EXCEPT !.whole = FALSE] \in SessionFile
         /\ [s EXCEPT !.age = Older(@)] \in SessionFile
<1>1. \A v \in BOOLEAN : [s EXCEPT !.whole = v] \in SessionFile
  BY DEF SessionFile
<1>2. Older(s.age) \in Nat
  BY DEF SessionFile, Older, WellFormed
<1>3. QED BY <1>1, <1>2 DEF SessionFile

LEMMA FileInitTypes == WellFormed /\ Init => FileTypes
BY NoCallType DEF Init, FileTypes, SessionFile, CallPlaces

LEMMA FileStepTypes ==
  ASSUME WellFormed, FileTypes, [Next]_vars
  PROVE  FileTypes'
<1> USE DEF FileTypes, CallPlaces
<1>0. NoCall \in CallRecord /\ \A p \in Proc : Agent(p) \in Agents
  BY NoCallType DEF WellFormed, Agent, Proc
<1>1. ASSUME NEW p \in Proc, Identify(p) PROVE FileTypes'
  <2>1. SessionId(p) \in Nat
    BY <1>0 DEF SessionId, SessionFile, CallRecord
  <2>2. QED BY <1>1, <2>1 DEF Identify, Goto
<1>2. ASSUME NEW p \in Proc, Stamp(p) PROVE FileTypes'
  <2>1. session' \in [Agents -> SessionFile]
    BY <1>0, <1>2, Sessions DEF Stamp
  <2>2. QED BY <1>2, <2>1 DEF Stamp, Goto, mine
<1>3. ASSUME NEW p \in Proc, Stamped(p) PROVE FileTypes'
  <2>1. session' \in [Agents -> SessionFile]
    <3>1. \A w \in BOOLEAN : [id |-> sid[p], age |-> 0, whole |-> w] \in SessionFile
      BY DEF SessionFile
    <3>2. QED BY <1>0, <1>3, <3>1 DEF Stamped
  <2>2. End(p) \/ Stay(p, "save") \/ Stay(p, "owner")
    BY <1>3 DEF Stamped
  <2>3. QED BY <1>0, <1>3, <2>1, <2>2 DEF Stamped, Stay, End, Goto, mine
<1>4. ASSUME NEW p \in Proc, CheckOwner(p) PROVE FileTypes'
  BY <1>0, <1>4 DEF CheckOwner, Stay, End, Goto, mine
<1>5. ASSUME NEW p \in Proc, CheckPlan(p) PROVE FileTypes'
  BY <1>0, <1>5 DEF CheckPlan, End, Goto
<1>6. ASSUME NEW p \in Proc, Truncate(p) PROVE FileTypes'
  BY <1>6 DEF Truncate, Goto, mine
<1>7. ASSUME NEW p \in Proc, Write(p) PROVE FileTypes'
  BY <1>0, <1>7 DEF Write, End, Goto
<1>8. ASSUME NEW p \in Proc, NEW r \in Asked(p), Invoke(p, r) PROVE FileTypes'
  <2>1. [r EXCEPT !.n = calls + 1] \in CallRecord
    BY Numbered
  <2>2. call' \in [Proc -> CallRecord]
    BY <1>8, <2>1 DEF Invoke
  <2>3. QED BY <1>8, <2>2 DEF Invoke, Goto
<1>9. ASSUME NEW a \in Agents, Die(a) PROVE FileTypes'
  BY <1>0, <1>9 DEF Die, Dies
<1>10. CASE Tick
  <2>1. \A a \in Agents : /\ session[a] \in SessionFile
                          /\ [session[a] EXCEPT !.age = Older(@)] \in SessionFile
    BY Sessions
  <2>2. session' \in [Agents -> SessionFile]
    BY <1>10, <2>1 DEF Tick
  <2>3. QED BY <1>10, <2>2 DEF Tick
<1>11. CASE UNCHANGED vars
  BY <1>11 DEF vars, mine
<1>12. ASSUME NEW p \in Proc, NEW r \in Asked(p), Refuse(p, r) PROVE FileTypes'
  BY <1>11, <1>12 DEF Refuse
<1>13. QED
  BY <1>1, <1>2, <1>3, <1>4, <1>5, <1>6, <1>7, <1>8, <1>9, <1>10, <1>11, <1>12 DEF Next, Step

-----------------------------------------------------------------------------
(* The calls. *)

\* The step leaves the call of q as it is, or ends it.
Keeps(q) == pc'[q] # "idle" => pc[q] # "idle" /\ view'[q] = view[q] /\ call'[q] = call[q]

LEMMA Others ==
  ASSUME FileTypes, NEW p \in Proc, NEW q \in Proc \ {p},
         Step(p) \/ \E r \in Asked(p) : Invoke(p, r) \/ Refuse(p, r)
  PROVE  pc'[q] = pc[q] /\ view'[q] = view[q] /\ call'[q] = call[q] /\ sid'[q] = sid[q]
<1> USE DEF FileTypes
<1>1. CASE Identify(p) \/ Stamp(p) \/ CheckPlan(p) \/ Truncate(p) \/ Write(p)
  BY <1>1 DEF Identify, Stamp, CheckPlan, Truncate, Write, End, Goto, mine
<1>2. CASE Stamped(p)
  <2>1. End(p) \/ Stay(p, "save") \/ Stay(p, "owner")
    BY <1>2 DEF Stamped
  <2>2. QED BY <2>1 DEF Stay, End, Goto, mine
<1>3. CASE CheckOwner(p)
  BY <1>3 DEF CheckOwner, Stay, End, Goto, mine
<1>4. CASE \E r \in Asked(p) : Invoke(p, r) \/ Refuse(p, r)
  BY <1>4 DEF Invoke, Refuse, Goto, vars, mine
<1>5. QED BY <1>1, <1>2, <1>3, <1>4 DEF Step

LEMMA Continues ==
  ASSUME FileTypes, NEW p \in Proc, Step(p)
  PROVE  Keeps(p) /\ calls' = calls
<1> USE DEF FileTypes
<1>1. CASE Identify(p) \/ Stamp(p) \/ CheckPlan(p) \/ Truncate(p) \/ Write(p)
  BY <1>1 DEF Identify, Stamp, CheckPlan, Truncate, Write, End, Goto, mine, Keeps
<1>2. CASE Stamped(p)
  <2>1. End(p) \/ Stay(p, "save") \/ Stay(p, "owner")
    BY <1>2 DEF Stamped
  <2>2. QED BY <1>2, <2>1 DEF Stamped, Stay, End, Goto, mine, Keeps
<1>3. CASE CheckOwner(p)
  BY <1>3 DEF CheckOwner, Stay, End, Goto, mine, Keeps
<1>4. QED BY <1>1, <1>2, <1>3 DEF Step

\* Time keeps the claims of a file, and so does a clean-up as it loads it.
LEMMA SameClaims ==
  ASSUME NEW f, Listing(f), NEW r
  PROVE  /\ Listing(AllOlder(f)) /\ AllOlder(f).claims = f.claims /\ AllOlder(f).state = f.state
         /\ Listing(Loaded(r, f)) /\ Loaded(r, f).claims = f.claims
<1>1. \A x : LET g == [f EXCEPT !.completed = x]
             IN  g = [claims |-> f.claims, completed |-> x, state |-> f.state]
  BY DEF Listing
<1>2. \A x : Listing([claims |-> f.claims, completed |-> x, state |-> f.state])
  BY DEF Listing
<1>3. \E x : AllOlder(f) = [claims |-> f.claims, completed |-> x, state |-> f.state]
  BY <1>1 DEF AllOlder
<1>4. \E x : Loaded(r, f) = [claims |-> f.claims, completed |-> x, state |-> f.state]
  BY <1>1 DEF Loaded, Listing
<1>5. QED BY <1>2, <1>3, <1>4

LEMMA StepCalls ==
  ASSUME WellFormed, FileTypes, FileInv, CallsInv, [Next]_vars
  PROVE  CallsInv'
<1> SUFFICES ASSUME NEW q \in Proc PROVE Pending(q)'
  BY DEF CallsInv
<1>0. Pending(q)
  BY DEF CallsInv
<1>1. ASSUME Keeps(q), calls' \in {calls, calls + 1} PROVE Pending(q)'
  <2>1. call[q].n <= calls => call[q].n <= calls'
    BY <1>1 DEF FileTypes, CallRecord
  <2>2. QED BY <1>0, <1>1, <2>1 DEF Pending, Keeps
<1>2. ASSUME NEW p \in Proc, Step(p) PROVE Pending(q)'
  BY <1>1, <1>2, Others, Continues DEF Keeps
<1>3. ASSUME NEW p \in Proc, NEW r \in Asked(p), Invoke(p, r) PROVE Pending(q)'
  <2>1. CASE q = p
    <3>1. PICK s \in {[r EXCEPT !.n = calls + 1]} : call'[p] = s
      BY <1>3 DEF Invoke, FileTypes
    <3>2. /\ s.n = calls + 1 /\ s.kind = r.kind /\ s.cc = r.cc /\ s.plan = r.plan
          /\ s.feature = r.feature /\ s.force = r.force
          /\ r.kind = "check" => p[2] = "hook"
      <4>1. calls + 1 \in Nat /\ s = [r EXCEPT !.n = calls + 1]
        BY DEF FileTypes
      <4>2. QED BY <4>1, Numbered
    <3>3. view'[p] = Loaded(r, file) /\ calls' = calls + 1 /\ GoesOn(r, file)
      BY <1>3 DEF Invoke, FileTypes
    <3>4. Listing(view'[p]) /\ view'[p].claims = file.claims
      BY <3>3, SameClaims DEF FileInv
    <3>5. \A c \in view'[p].claims : c.n < s.n
      BY <3>2, <3>4 DEF FileInv, Listing, Sound, ClaimRecord, FileTypes
    <3>6. s.kind = "claim" => Admits(s, view'[p].claims)
      <4>1. r.kind = "claim" => Admits(r, file.claims)
        BY <3>3 DEF GoesOn
      <4>2. QED BY <3>2, <3>4, <4>1 DEF Admits, DependenciesOk, ScopeConflicts
    <3>7. s.kind = "release" => OfInstance(view'[p].claims, s.cc) # {}
      BY <3>2, <3>3, <3>4 DEF GoesOn
    <3>8. s.n <= calls'
      BY <3>2, <3>3 DEF FileTypes
    <3>9. QED BY <2>1, <3>1, <3>2, <3>4, <3>5, <3>6, <3>7, <3>8 DEF Pending
  <2>2. CASE q # p
    BY <1>1, <1>3, <2>2, Others DEF Keeps, Invoke
  <2>3. QED BY <2>1, <2>2
<1>4. ASSUME NEW a \in Agents, Die(a) PROVE Pending(q)'
  BY <1>1, <1>4 DEF Die, Dies, Keeps
<1>5. CASE Tick
  <2>1. /\ pc'[q] = pc[q] /\ call'[q] = call[q] /\ calls' = calls
        /\ view'[q] = AllOlder(view[q])
    BY <1>5 DEF Tick
  <2>2. QED BY <1>0, <2>1, SameClaims DEF Pending
<1>6. CASE UNCHANGED vars
  BY <1>1, <1>6 DEF vars, mine, Keeps
<1>7. ASSUME NEW p \in Proc, NEW r \in Asked(p), Refuse(p, r) PROVE Pending(q)'
  BY <1>6, <1>7 DEF Refuse
<1>8. QED BY <1>2, <1>3, <1>4, <1>5, <1>6, <1>7 DEF Next

-----------------------------------------------------------------------------
(* The file. *)

\* Only saves and time change the file.
LEMMA FileStays ==
  ASSUME [Next]_vars, ~Tick, \A p \in Proc : ~Truncate(p) /\ ~Write(p)
  PROVE  file' = file /\ reported' = reported
<1>1. ASSUME NEW p \in Proc, Step(p) PROVE file' = file /\ reported' = reported
  BY <1>1 DEF Step, Identify, Stamp, Stamped, CheckOwner, CheckPlan, ghost
<1>2. ASSUME NEW p \in Proc, NEW r \in Asked(p), Invoke(p, r) \/ Refuse(p, r)
      PROVE  file' = file /\ reported' = reported
  BY <1>2 DEF Invoke, Refuse, vars, ghost
<1>3. ASSUME NEW a \in Agents, Die(a) PROVE file' = file /\ reported' = reported
  BY <1>3 DEF Die, Dies, ghost
<1>4. QED BY <1>1, <1>2, <1>3 DEF Next, vars, ghost

LEMMA CallsGrow == FileTypes /\ [Next]_vars => calls' \in {calls, calls + 1}
<1> SUFFICES ASSUME FileTypes, [Next]_vars PROVE calls' \in {calls, calls + 1}
  OBVIOUS
<1>1. ASSUME NEW p \in Proc, Step(p) \/ \E r \in Asked(p) : Invoke(p, r) \/ Refuse(p, r)
      PROVE  calls' \in {calls, calls + 1}
  BY <1>1, Continues DEF Invoke, Refuse, vars
<1>2. ASSUME NEW a \in Agents, Die(a) PROVE calls' = calls
  BY <1>2 DEF Die, Dies
<1>3. QED BY <1>1, <1>2 DEF Next, Tick, vars

LEMMA StepFile ==
  ASSUME WellFormed, FileTypes, FileInv, CallsInv, [Next]_vars
  PROVE  FileInv'
<1>0. \A n \in Nat : n <= calls => n <= calls'
  BY CallsGrow DEF FileTypes
<1>1. ASSUME Listing(file'), file'.claims \subseteq file.claims PROVE FileInv'
  BY <1>0, <1>1 DEF FileInv, Listing, Sound, ClaimRecord
<1>2. CASE Tick
  BY <1>1, <1>2, SameClaims DEF Tick, FileInv
<1>3. ASSUME NEW p \in Proc, Truncate(p) PROVE FileInv'
  BY <1>1, <1>3 DEF Truncate, Truncated, Listing, Sound
<1>4. ASSUME NEW p \in Proc, Write(p) PROVE FileInv'
  <2>1. file' \in Overlaid(p) /\ pc[p] # "idle" /\ calls' = calls
    BY <1>4 DEF Write, Overlaid
  <2>2. QED BY <2>1, OverlaidIs DEF FileInv
<1>5. CASE ~Tick /\ \A p \in Proc : ~Truncate(p) /\ ~Write(p)
  BY <1>1, <1>5, FileStays DEF FileInv
<1>6. QED BY <1>2, <1>3, <1>4, <1>5

-----------------------------------------------------------------------------
(* What was reported. *)

\* Who saves after a step saved before, unless the step is its Truncate.
LEMMA WhoSaves ==
  ASSUME FileTypes, [Next]_vars, NEW q \in Proc, pc'[q] = "saving"
  PROVE  pc[q] = "saving" \/ Truncate(q)
<1>1. ASSUME NEW p \in Proc, Step(p) \/ \E r \in Asked(p) : Invoke(p, r) \/ Refuse(p, r)
      PROVE  pc[q] = "saving" \/ Truncate(q)
  <2>1. CASE q # p
    BY <1>1, <2>1, Others
  <2>2. CASE /\ q = p
             /\ \/ Identify(p) \/ Stamp(p) \/ Stamped(p)
                \/ CheckOwner(p) \/ CheckPlan(p) \/ Write(p)
    BY <2>2 DEF Identify, Stamp, Stamped, CheckOwner, CheckPlan, Write,
         Stay, End, Goto, FileTypes
  <2>3. CASE q = p /\ \E r \in Asked(p) : Invoke(p, r) \/ Refuse(p, r)
    BY <2>3 DEF Invoke, Refuse, Goto, vars, FileTypes
  <2>4. QED BY <1>1, <2>1, <2>2, <2>3 DEF Step
<1>2. ASSUME NEW a \in Agents, Die(a) PROVE pc[q] = "saving"
  BY <1>2 DEF Die, Dies
<1>3. QED BY <1>1, <1>2 DEF Next, Tick, vars

LEMMA StepReports ==
  ASSUME WellFormed, FileTypes, FileInv, CallsInv, ReportsInv, [Next]_vars
  PROVE  ReportsInv'
<1> SUFFICES ASSUME ~raced' PROVE ReportsInv'
  BY DEF ReportsInv
<1>0. ~raced
  BY DEF Next, Step, Identify, Stamp, Stamped, CheckOwner, CheckPlan,
         Truncate, Write, Invoke, Refuse, Die, Tick, vars, ghost
<1>1. CASE Tick
  <2>1. /\ file'.claims = file.claims /\ file'.state = file.state /\ reported' = reported /\ pc' = pc
    BY <1>1, SameClaims DEF Tick, FileInv, ghost
  <2>2. \A p \in Proc : pc[p] = "saving" => view'[p].claims = view[p].claims
    BY <1>1, SameClaims DEF Tick, CallsInv, Pending
  <2>3. QED BY <1>0, <2>1, <2>2 DEF ReportsInv
<1>2. ASSUME NEW p \in Proc, Truncate(p) PROVE ReportsInv'
  <2>1. /\ file.state = "whole" /\ file.claims = view[p].claims /\ file'.state = "empty"
        /\ UNCHANGED <<view, reported>> /\ pc' = [pc EXCEPT ![p] = "saving"]
    BY <1>2 DEF Truncate, Truncated, Goto, mine
  <2>2. file.claims = reported /\ \A q \in Proc : pc[q] # "saving"
    BY <1>0, <2>1 DEF ReportsInv
  <2>3. \A q \in Proc : pc'[q] = "saving" => q = p
    BY <2>1, <2>2 DEF FileTypes
  <2>4. QED BY <2>1, <2>2, <2>3 DEF ReportsInv
<1>3. ASSUME NEW p \in Proc, Write(p) PROVE ReportsInv'
  <2>1. /\ file' = Saved(p) /\ reported' = Reported(p) /\ pc[p] = "saving" /\ pc'[p] = "idle"
    BY <1>3 DEF Write, End, Goto, FileTypes
  <2>2. view[p].claims = reported /\ \A q \in Proc \ {p} : pc[q] # "saving"
    BY <1>0, <2>1 DEF ReportsInv
  <2>3. \A q \in Proc : pc'[q] # "saving"
    BY <1>3, <2>1, <2>2, Others DEF Step
  <2>4. file'.claims = reported' /\ file'.state = "whole"
    BY <2>1, <2>2, SavedIs
  <2>5. QED BY <2>3, <2>4 DEF ReportsInv
<1>4. CASE ~Tick /\ \A p \in Proc : ~Truncate(p) /\ ~Write(p)
  <2>1. file' = file /\ reported' = reported
    BY <1>4, FileStays
  <2>2. \A p \in Proc : pc'[p] = "saving" => pc[p] = "saving"
    BY <1>4, WhoSaves
  <2>3. \A p \in Proc : pc'[p] = "saving" => view'[p] = view[p]
    <3>1. SUFFICES ASSUME NEW q \in Proc, pc'[q] = "saving" PROVE view'[q] = view[q]
      OBVIOUS
    <3>2. ASSUME NEW p \in Proc, Step(p) PROVE view'[q] = view[q]
      BY <3>1, <3>2, Others, Continues DEF Keeps
    <3>3. ASSUME NEW p \in Proc, NEW r \in Asked(p), Invoke(p, r) PROVE view'[q] = view[q]
      <4>1. q # p
        BY <2>2, <3>1, <3>3 DEF Invoke
      <4>2. QED BY <3>3, <4>1, Others
    <3>4. ASSUME NEW a \in Agents, Die(a) PROVE view'[q] = view[q]
      BY <3>1, <3>4 DEF Die, Dies
    <3>5. QED BY <1>4, <3>2, <3>3, <3>4 DEF Next, Refuse, vars, mine
  <2>4. QED BY <1>0, <2>1, <2>2, <2>3 DEF ReportsInv
<1>5. QED BY <1>1, <1>2, <1>3, <1>4

-----------------------------------------------------------------------------
(* Theorems. *)

LEMMA InitInv == WellFormed /\ Init => FileClaims
<1> SUFFICES ASSUME WellFormed, Init PROVE FileClaims
  OBVIOUS
<1>1. FileTypes
  BY FileInitTypes
<1>2. FileInv
  BY DEF Init, NoFile, Truncated, FileInv, Listing, Sound
<1>3. CallsInv /\ ReportsInv
  BY DEF Init, NoFile, Truncated, CallsInv, Pending, ReportsInv
<1>4. QED BY <1>1, <1>2, <1>3 DEF FileClaims

\* Every variable keeps its type; the lists of the file and of every process are sound;
\* and until saves overtake each other, one process saves, from what was reported.
THEOREM FileInvariance == Spec => []FileClaims
<1>1. FileClaims /\ [Next]_vars => FileClaims'
  BY ClaimsFileAssumption, FileStepTypes, StepFile, StepCalls, StepReports DEF FileClaims
<1>2. Init => FileClaims
  BY ClaimsFileAssumption, InitInv
<1>3. QED BY <1>1, <1>2, PTL DEF Spec

\* add_claim() refuses an instance its second claim on what it loaded, and save_yaml()
\* writes that before everything that may stick out of an older text: no race of the
\* agents makes the file list two.
THEOREM OneClaimEach == Spec => []OneClaimPerInstance
<1>1. FileClaims => OneClaimPerInstance
  BY DEF FileClaims, FileInv, Listing, Sound, OneClaimPerInstance
<1>2. QED BY <1>1, FileInvariance, PTL

\* In the same way, only --force and the shared feature let two claims of one plan or
\* feature into the file.
THEOREM ScopesAreExclusive == Spec => []ScopesExclusive
<1>1. FileClaims => ScopesExclusive
  BY DEF FileClaims, FileInv, Listing, Sound, Apart, ScopesExclusive
<1>2. QED BY <1>1, FileInvariance, PTL

\* Without a race or a death in a save, the file parses, and a claim is in it from its
\* report to that of its release.
THEOREM ReportsAreTrue == Spec => []ReportedClaimsListed
<1>1. FileClaims => ReportedClaimsListed
  BY DEF FileClaims, ReportsInv, ReportedClaimsListed
<1>2. QED BY <1>1, FileInvariance, PTL

-----------------------------------------------------------------------------
(* The owners of claims. *)

Shell(a) == <<a, "cli">>

\* The ids that an agent's processes may use.
Knows(a, i) ==
  i = session[a].id \/ \E p \in Proc : Agent(p) = a /\ i \in {sid[p], call[p].n}

\* Each call can make an id, and no agent uses another's.
IdsInv ==
  \A a \in Agents, i \in Nat \ {0} : Knows(a, i) =>
    i <= calls /\ \A b \in Agents : Knows(b, i) => a = b

\* An agent that runs one process at a time finds the session that the last one left.
SessionInv(a) ==
  /\ a \in dead => pc[Shell(a)] = "idle"
  /\ session[a].whole \/ a \in dead \/ pc[Shell(a)] = "stamping"
  /\ pc[Shell(a)] # "idle" => call[Shell(a)].n # 0
  /\ pc[Shell(a)] \in {"stamp", "stamping"} =>
       sid[Shell(a)] # 0 /\ session[a].id \in {0, sid[Shell(a)]}
  /\ pc[Shell(a)] \in {"save", "saving"} /\ call[Shell(a)].kind = "claim" =>
       sid[Shell(a)] # 0 /\ session[a].id = sid[Shell(a)]

\* Its claims carry that session.
Carries(a, c) == c.owner = a => c.session = session[a].id /\ c.session # 0
Signed(a, claims) == \A c \in claims : Carries(a, c)

SignedInv(a) ==
  /\ Signed(a, file.claims)
  /\ \A p \in Proc : pc[p] # "idle" => Signed(a, view[p].claims)

OwnersInv == IdsInv /\ \A a \in Agents \ Hooking : SessionInv(a) /\ SignedInv(a)

LEMMA Agents1 ==
  WellFormed => /\ \A p \in Proc : Agent(p) \in Agents
                /\ \A a \in Agents : Shell(a) \in Proc /\ Agent(Shell(a)) = a
                /\ \A p \in Proc : Agent(p) \notin Hooking => p = Shell(Agent(p))
BY DEF WellFormed, Agent, Proc, Shell

\* What a step of p does to the ids.
LEMMA StepIds ==
  ASSUME FileTypes, NEW p \in Proc, Step(p), Agent(p) \in Agents
  PROVE  /\ sid'[p] \in {sid[p], 0, session[Agent(p)].id, call[p].n}
         /\ call'[p].n \in {call[p].n, 0}
         /\ \A a \in Agents : \/ session'[a].id = session[a].id
                              \/ a = Agent(p) /\ session'[a].id = sid[p]
<1> USE DEF FileTypes
<1>0. NoCall.n = 0
  BY DEF NoCall
<1> DEFINE Quiet == sid'[p] \in {sid[p], 0} /\ call'[p] \in {call[p], NoCall}
           Same  == session' = session
<1>1. CASE Identify(p)
  <2>1. sid'[p] = SessionId(p) /\ call' = call /\ session' = session
    BY <1>1 DEF Identify
  <2>2. QED BY <2>1 DEF SessionId
<1>2. CASE Stamp(p)
  <2>1. \A s \in SessionFile : [s EXCEPT !.whole = FALSE].id = s.id
    BY DEF SessionFile
  <2>2. session' = [session EXCEPT ![Agent(p)] = [session[Agent(p)] EXCEPT !.whole = FALSE]]
        /\ sid' = sid /\ call' = call
    BY <1>2 DEF Stamp, mine
  <2>3. QED BY <2>1, <2>2
<1>3. CASE Stamped(p)
  <2>1. End(p) \/ Stay(p, "save") \/ Stay(p, "owner")
    BY <1>3 DEF Stamped
  <2>2. session' = [session EXCEPT ![Agent(p)] = [id |-> sid[p], age |-> 0, whole |-> TRUE]]
    BY <1>3 DEF Stamped
  <2>3. Quiet
    BY <2>1 DEF Stay, End, mine
  <2>4. QED BY <1>0, <2>2, <2>3
<1>4. CASE CheckOwner(p)
  <2>1. Quiet /\ Same
    BY <1>4 DEF CheckOwner, Stay, End, mine
  <2>2. QED BY <1>0, <2>1
<1>5. CASE CheckPlan(p) \/ Truncate(p) \/ Write(p)
  <2>1. Quiet /\ Same
    BY <1>5 DEF CheckPlan, Truncate, Write, End, mine
  <2>2. QED BY <1>0, <2>1
<1>6. QED BY <1>1, <1>2, <1>3, <1>4, <1>5 DEF Step

\* An id that is new to an agent is that of the call it makes.
LEMMA NewIds ==
  ASSUME WellFormed, FileTypes, [Next]_vars,
         NEW a \in Agents, NEW i \in Nat \ {0}, Knows(a, i)'
  PROVE  \/ Knows(a, i)
         \/ \E p \in Proc : Agent(p) = a /\ \E r \in Asked(p) : Invoke(p, r) /\ i = calls + 1
<1> USE DEF FileTypes
<1>0. NoCall.n = 0
  BY DEF NoCall
<1>1. ASSUME NEW p \in Proc, Step(p) PROVE Knows(a, i)
  <2>1. \A q \in Proc \ {p} : sid'[q] = sid[q] /\ call'[q] = call[q]
    BY <1>1, Others
  <2>2. QED BY <1>1, <2>1, StepIds, Agents1 DEF Knows
<1>2. ASSUME NEW p \in Proc, NEW r \in Asked(p), Invoke(p, r)
      PROVE  Knows(a, i) \/ (Agent(p) = a /\ i = calls + 1)
  <2>1. call'[p].n = calls + 1
    <3>1. call'[p] = [r EXCEPT !.n = calls + 1]
      BY <1>2 DEF Invoke
    <3>2. QED BY <3>1, Numbered
  <2>2. \A q \in Proc \ {p} : call'[q] = call[q]
    BY <1>2 DEF Invoke
  <2>3. session' = session /\ sid' = sid
    BY <1>2 DEF Invoke
  <2>4. QED BY <2>1, <2>2, <2>3 DEF Knows
<1>3. ASSUME NEW b \in Agents, Die(b) PROVE Knows(a, i)
  BY <1>0, <1>3 DEF Die, Dies, Knows
<1>4. CASE Tick
  <2>1. \A b \in Agents : session'[b].id = session[b].id
    BY <1>4 DEF Tick, SessionFile
  <2>2. QED BY <1>4, <2>1 DEF Tick, Knows
<1>5. ASSUME UNCHANGED vars PROVE Knows(a, i)
  <2>1. session' = session /\ sid' = sid /\ call' = call
    BY <1>5 DEF vars, mine
  <2>2. QED BY <2>1 DEF Knows
<1>6. ASSUME NEW p \in Proc, NEW r \in Asked(p), Refuse(p, r) PROVE Knows(a, i)
  BY <1>5, <1>6 DEF Refuse
<1>7. QED BY <1>1, <1>2, <1>3, <1>4, <1>5, <1>6 DEF Next

LEMMA StepIdsInv ==
  ASSUME WellFormed, FileTypes, IdsInv, [Next]_vars
  PROVE  IdsInv'
<1> SUFFICES ASSUME NEW a \in Agents, NEW i \in Nat \ {0}, Knows(a, i)'
             PROVE  i <= calls' /\ \A b \in Agents : Knows(b, i)' => a = b
  BY DEF IdsInv
<1>1. \A b \in Agents : Knows(b, i) => i <= calls
  BY DEF IdsInv
<1>2. calls \in Nat /\ ~(calls + 1 <= calls) /\ calls' \in {calls, calls + 1}
  BY CallsGrow DEF FileTypes
<1>3. \A p \in Proc : \A r \in Asked(p) : Invoke(p, r) => calls' = calls + 1
  BY DEF Invoke
<1>4. i <= calls'
  BY <1>1, <1>2, <1>3, NewIds
<1>5. ASSUME NEW b \in Agents, Knows(b, i)' PROVE a = b
  <2>1. CASE Knows(a, i)
    BY <1>1, <1>2, <1>5, <2>1, NewIds DEF IdsInv
  <2>2. CASE ~Knows(a, i)
    <3>1. PICK p \in Proc : Agent(p) = a /\ \E r \in Asked(p) : Invoke(p, r) /\ i = calls + 1
      BY <2>2, NewIds
    <3>2. ~Knows(b, i)
      BY <1>1, <1>2, <3>1
    <3>3. PICK q \in Proc : Agent(q) = b /\ \E r \in Asked(q) : Invoke(q, r)
      BY <1>5, <3>2, NewIds
    <3>4. p = q
      <4>1. SUFFICES ASSUME p # q PROVE FALSE
        OBVIOUS
      <4>2. pc[p] = "idle" /\ pc'[p] # "idle"
        BY <3>1 DEF Invoke, Goto, FileTypes
      <4>3. pc'[p] = pc[p]
        BY <3>3, <4>1, Others
      <4>4. QED BY <4>2, <4>3
    <3>5. QED BY <3>1, <3>3, <3>4
  <2>3. QED BY <2>1, <2>2
<1>6. QED BY <1>4, <1>5

\* Only its own steps and its death move the shell of an agent.
LEMMA ShellStays ==
  ASSUME WellFormed, FileTypes, NEW a \in Agents, NEW p \in Proc, Agent(p) # a,
         Step(p) \/ \E r \in Asked(p) : Invoke(p, r) \/ Refuse(p, r)
  PROVE  /\ pc'[Shell(a)] = pc[Shell(a)] /\ call'[Shell(a)] = call[Shell(a)]
         /\ sid'[Shell(a)] = sid[Shell(a)]
         /\ session'[a] = session[a] /\ dead' = dead
<1>1. Shell(a) \in Proc /\ Shell(a) # p
  BY Agents1
<1>2. session'[a] = session[a] /\ dead' = dead
  BY DEF Step, Identify, Stamp, Stamped, CheckOwner, CheckPlan, Truncate, Write,
         Invoke, Refuse, vars, mine, FileTypes
<1>3. QED BY <1>1, <1>2, Others

LEMMA StepSession ==
  ASSUME WellFormed, FileTypes, [Next]_vars, NEW a \in Agents \ Hooking, SessionInv(a)
  PROVE  SessionInv(a)'
<1> USE DEF FileTypes
<1> DEFINE p == Shell(a)
<1>0. p \in Proc /\ Agent(p) = a /\ p = Shell(a)
  BY Agents1
<1> HIDE DEF p
<1>1. ASSUME pc'[p] = pc[p], call'[p] = call[p], sid'[p] = sid[p],
             session'[a].id = session[a].id, session'[a].whole = session[a].whole, dead' = dead
      PROVE  SessionInv(a)'
  BY <1>0, <1>1 DEF SessionInv
<1>2. ASSUME NEW q \in Proc, Agent(q) # a,
             Step(q) \/ \E r \in Asked(q) : Invoke(q, r) \/ Refuse(q, r)
      PROVE  SessionInv(a)'
  BY <1>0, <1>1, <1>2, ShellStays
<1>3. CASE Identify(p)
  <2>1. /\ pc[p] = "identify" /\ pc'[p] = "stamp" /\ sid'[p] = SessionId(p)
        /\ session' = session /\ call' = call /\ dead' = dead
    BY <1>0, <1>3 DEF Identify, Goto
  <2>2. session[a].whole /\ call[p].n # 0 /\ a \notin dead
    BY <1>0, <2>1 DEF SessionInv
  <2>3. SessionId(p) # 0 /\ session[a].id \in {0, SessionId(p)}
    BY <1>0, <2>2 DEF SessionId
  <2>4. QED BY <1>0, <2>1, <2>2, <2>3 DEF SessionInv
<1>4. CASE Stamp(p)
  <2>1. /\ pc[p] = "stamp" /\ pc'[p] = "stamping" /\ sid' = sid /\ call' = call /\ dead' = dead
        /\ session'[a].id = session[a].id
    BY <1>0, <1>4, StepIds DEF Stamp, Goto, mine, SessionFile
  <2>2. QED BY <1>0, <2>1 DEF SessionInv
<1>5. CASE Stamped(p)
  <2>1. /\ pc[p] = "stamping" /\ dead' = dead
        /\ session'[a] = [id |-> sid[p], age |-> 0, whole |-> TRUE]
    BY <1>0, <1>5 DEF Stamped
  <2>2. End(p) \/ Stay(p, "save") \/ Stay(p, "owner")
    BY <1>5 DEF Stamped
  <2>3. \/ pc'[p] \in {"save", "owner"} /\ sid' = sid /\ call' = call
        \/ pc'[p] = "idle"
    BY <1>0, <2>2 DEF Stay, End, Goto, mine
  <2>4. QED BY <1>0, <2>1, <2>3 DEF SessionInv
<1>6. CASE CheckOwner(p)
  <2>1. /\ pc[p] = "owner" /\ call[p].kind = "release" /\ session' = session /\ dead' = dead
        /\ \/ pc'[p] = "save" /\ sid' = sid /\ call' = call
           \/ pc'[p] = "idle"
    BY <1>0, <1>6 DEF CheckOwner, Stay, End, Goto, mine
  <2>2. QED BY <1>0, <2>1 DEF SessionInv
<1>7. CASE CheckPlan(p) \/ Write(p)
  <2>1. /\ pc[p] # "idle" /\ pc[p] # "stamping" /\ pc'[p] = "idle"
        /\ session' = session /\ dead' = dead
    BY <1>0, <1>7 DEF CheckPlan, Write, End, Goto
  <2>2. QED BY <1>0, <2>1 DEF SessionInv
<1>8. CASE Truncate(p)
  <2>1. /\ pc[p] = "save" /\ pc'[p] = "saving" /\ sid' = sid /\ call' = call
        /\ session' = session /\ dead' = dead
    BY <1>0, <1>8 DEF Truncate, Goto, mine
  <2>2. QED BY <1>0, <2>1 DEF SessionInv
<1>9. ASSUME NEW r \in Asked(p), Invoke(p, r) PROVE SessionInv(a)'
  <2>1. \E s \in {[r EXCEPT !.n = calls + 1]} : call'[p] = s
    BY <1>0, <1>9 DEF Invoke
  <2>2. call'[p].n = calls + 1 /\ call'[p].kind = r.kind /\ calls + 1 # 0
    BY <1>0, <2>1, Numbered
  <2>3. /\ pc[p] = "idle" /\ a \notin dead /\ session' = session /\ dead' = dead
        /\ pc'[p] \in {"save", "identify"}
        /\ pc'[p] = "save" => r.kind \in {"cleanup", "release"}
    BY <1>0, <1>9 DEF Invoke, Goto
  <2>4. QED BY <1>0, <2>2, <2>3 DEF SessionInv
<1>10. CASE UNCHANGED vars
  BY <1>1, <1>10 DEF vars, mine
<1>11. ASSUME NEW r \in Asked(p), Refuse(p, r) PROVE SessionInv(a)'
  BY <1>10, <1>11 DEF Refuse
<1>12. ASSUME NEW b \in Agents, Die(b) PROVE SessionInv(a)'
  <2>1. session' = session /\ dead' = dead \cup {b}
    BY <1>12 DEF Die, Dies
  <2>2. CASE b = a
    <3>1. pc'[p] = "idle"
      BY <1>0, <1>12, <2>2 DEF Die
    <3>2. QED BY <1>0, <2>1, <2>2, <3>1 DEF SessionInv
  <2>3. CASE b # a
    <3>1. pc'[p] = pc[p] /\ call'[p] = call[p] /\ sid'[p] = sid[p]
      BY <1>0, <1>12, <2>3 DEF Die
    <3>2. a \in dead' <=> a \in dead
      BY <2>1, <2>3
    <3>3. QED BY <1>0, <2>1, <3>1, <3>2 DEF SessionInv
  <2>4. QED BY <2>2, <2>3
<1>13. CASE Tick
  <2>1. /\ pc' = pc /\ call' = call /\ sid' = sid /\ dead' = dead
        /\ session'[a].id = session[a].id /\ session'[a].whole = session[a].whole
    BY <1>13 DEF Tick, SessionFile
  <2>2. QED BY <1>1, <2>1
<1>14. ASSUME NEW q \in Proc, Agent(q) = a, Step(q) PROVE SessionInv(a)'
  <2>1. q = p
    BY <1>0, <1>14, Agents1
  <2>2. QED BY <1>3, <1>4, <1>5, <1>6, <1>7, <1>8, <1>14, <2>1 DEF Step
<1>15. ASSUME NEW q \in Proc, Agent(q) = a, NEW r \in Asked(q), Invoke(q, r) \/ Refuse(q, r)
       PROVE  SessionInv(a)'
  <2>1. q = p
    BY <1>0, <1>15, Agents1
  <2>2. QED BY <1>9, <1>11, <1>15, <2>1
<1>16. QED BY <1>2, <1>10, <1>12, <1>13, <1>14, <1>15 DEF Next

\* Once made, the session of such an agent is never replaced.
LEMMA SessionKept ==
  ASSUME WellFormed, FileTypes, [Next]_vars, NEW a \in Agents \ Hooking, SessionInv(a)
  PROVE  session'[a].id = session[a].id \/ session[a].id = 0
<1> USE DEF FileTypes
<1> DEFINE Kept == session'[a].id = session[a].id \/ session[a].id = 0
<1>1. ASSUME NEW p \in Proc, Stamp(p) \/ Stamped(p) PROVE Kept
  <2>1. CASE Agent(p) # a
    BY <1>1, <2>1 DEF Stamp, Stamped
  <2>2. CASE Agent(p) = a
    <3>1. p = Shell(a)
      BY <2>2, Agents1
    <3>2. pc[Shell(a)] = "stamping" => session[a].id \in {0, sid[p]}
      BY <3>1 DEF SessionInv
    <3>3. CASE Stamped(p)
      BY <2>2, <3>1, <3>2, <3>3 DEF Stamped
    <3>4. CASE Stamp(p)
      BY <2>2, <3>4 DEF Stamp, SessionFile
    <3>5. QED BY <1>1, <3>3, <3>4
  <2>3. QED BY <2>1, <2>2
<1>2. ASSUME NEW p \in Proc, Step(p), ~Stamp(p), ~Stamped(p) PROVE Kept
  BY <1>2 DEF Step, Identify, CheckOwner, CheckPlan, Truncate, Write
<1>3. ASSUME NEW p \in Proc, NEW r \in Asked(p), Invoke(p, r) \/ Refuse(p, r) PROVE Kept
  BY <1>3 DEF Invoke, Refuse, vars
<1>4. ASSUME NEW b \in Agents, Die(b) PROVE Kept
  BY <1>4 DEF Die
<1>5. CASE Tick
  BY <1>5 DEF Tick, SessionFile
<1>6. QED BY <1>1, <1>2, <1>3, <1>4, <1>5 DEF Next, vars

\* What a process writes is signed: its own claim with the session of its agent.
LEMMA SavesSigned ==
  ASSUME WellFormed, FileTypes, NEW a \in Agents \ Hooking, SessionInv(a), SignedInv(a),
         NEW p \in Proc, pc[p] = "saving"
  PROVE  Signed(a, ClaimsAfter(p))
<1>1. Signed(a, view[p].claims)
  BY DEF SignedInv
<1>2. CASE call[p].kind = "claim"
  <2>1. ClaimsAfter(p) = view[p].claims \cup {NewClaim(p)}
    BY <1>2 DEF ClaimsAfter
  <2>2. NewClaim(p).owner = Agent(p) /\ NewClaim(p).session = sid[p]
    BY DEF NewClaim
  <2>3. Agent(p) = a => sid[p] # 0 /\ session[a].id = sid[p]
    BY <1>2, Agents1 DEF SessionInv
  <2>4. Carries(a, NewClaim(p))
    BY <2>2, <2>3 DEF Carries
  <2>5. QED BY <1>1, <2>1, <2>4 DEF Signed
<1>3. CASE call[p].kind # "claim"
  BY <1>1, <1>3 DEF ClaimsAfter, Signed
<1>4. QED BY <1>2, <1>3

LEMMA StepSigned ==
  ASSUME WellFormed, FileTypes, FileInv, CallsInv, [Next]_vars,
         NEW a \in Agents \ Hooking, SessionInv(a), SignedInv(a)
  PROVE  SignedInv(a)'
<1> USE DEF FileTypes
<1>1. \A c : Carries(a, c) => Carries(a, c)'
  BY SessionKept DEF Carries
<1>2. \A c \in file'.claims : Carries(a, c)
  <2>0. \A c \in file.claims : Carries(a, c)
    BY DEF SignedInv, Signed
  <2>1. CASE Tick
    BY <2>0, <2>1, SameClaims DEF Tick, FileInv
  <2>2. ASSUME NEW p \in Proc, Truncate(p) PROVE file'.claims = {}
    BY <2>2 DEF Truncate, Truncated
  <2>3. ASSUME NEW p \in Proc, Write(p) PROVE \A c \in file'.claims : Carries(a, c)
    <3>1. file' \in Overlaid(p) /\ pc[p] = "saving"
      BY <2>3 DEF Write, Overlaid
    <3>2. file'.claims \subseteq ClaimsAfter(p)
      BY <3>1 DEF Overlaid, Saved
    <3>3. QED BY <3>1, <3>2, SavesSigned DEF Signed
  <2>4. CASE ~Tick /\ \A p \in Proc : ~Truncate(p) /\ ~Write(p)
    BY <2>0, <2>4, FileStays
  <2>5. QED BY <2>1, <2>2, <2>3, <2>4
<1>3. ASSUME NEW q \in Proc, pc'[q] # "idle" PROVE \A c \in view'[q].claims : Carries(a, c)
  <2>1. CASE Keeps(q)
    BY <1>3, <2>1 DEF Keeps, SignedInv, Signed
  <2>2. ASSUME NEW p \in Proc, Step(p) PROVE Keeps(q)
    BY <2>2, Others, Continues DEF Keeps
  <2>3. ASSUME NEW p \in Proc, NEW r \in Asked(p), Invoke(p, r), q # p PROVE Keeps(q)
    BY <2>3, Others DEF Keeps
  <2>4. ASSUME NEW r \in Asked(q), Invoke(q, r) PROVE \A c \in view'[q].claims : Carries(a, c)
    <3>1. view'[q] = Loaded(r, file)
      BY <2>4 DEF Invoke
    <3>2. view'[q].claims = file.claims
      BY <3>1, SameClaims DEF FileInv
    <3>3. QED BY <3>2 DEF SignedInv, Signed
  <2>5. ASSUME NEW b \in Agents, Die(b) PROVE Keeps(q)
    BY <2>5 DEF Die, Dies, Keeps
  <2>6. CASE Tick
    <3>1. pc'[q] = pc[q] /\ view'[q] = AllOlder(view[q])
      BY <2>6 DEF Tick
    <3>2. view'[q].claims = view[q].claims
      BY <1>3, <3>1, SameClaims DEF CallsInv, Pending
    <3>3. QED BY <1>3, <3>1, <3>2 DEF SignedInv, Signed
  <2>7. CASE UNCHANGED vars
    BY <2>1, <2>7 DEF vars, mine, Keeps
  <2>8. QED BY <2>1, <2>2, <2>3, <2>4, <2>5, <2>6, <2>7 DEF Next, Refuse
<1>4. QED BY <1>1, <1>2, <1>3 DEF SignedInv, Signed

\* No two agents have an id in common; an agent that runs one process at a time finds
\* its session again, and its claims carry it.
LEMMA OwnersInvariance == Spec => [](FileClaims /\ OwnersInv)
<1>1. Init => OwnersInv
  <2> SUFFICES ASSUME Init PROVE OwnersInv
    OBVIOUS
  <2>1. IdsInv
    BY ClaimsFileAssumption, Agents1 DEF Init, NoCall, IdsInv, Knows
  <2>2. ASSUME NEW a \in Agents \ Hooking PROVE SessionInv(a) /\ SignedInv(a)
    BY ClaimsFileAssumption, Agents1 DEF Init, NoFile, Truncated, SessionInv, SignedInv, Signed
  <2>3. QED BY <2>1, <2>2 DEF OwnersInv
<1>2. FileClaims /\ OwnersInv /\ [Next]_vars => OwnersInv'
  BY ClaimsFileAssumption, StepIdsInv, StepSession, StepSigned DEF FileClaims, OwnersInv
<1>3. QED BY <1>1, <1>2, FileInvariance, PTL DEF Spec

LEMMA ChecksOwner ==
  ASSUME FileTypes, [Next]_vars, NEW p \in Proc, pc[p] = "owner", pc'[p] = "save"
  PROVE  CheckOwner(p)
<1> USE DEF FileTypes
<1>1. ASSUME NEW q \in Proc, Step(q) \/ \E r \in Asked(q) : Invoke(q, r) \/ Refuse(q, r)
      PROVE  CheckOwner(p)
  <2>1. q = p
    BY <1>1, Others
  <2>2. CASE Step(p)
    BY <2>2 DEF Step, Identify, Stamp, Stamped, CheckPlan, Truncate, Write, End, Goto
  <2>3. QED BY <1>1, <2>1, <2>2 DEF Invoke, Refuse, vars
<1>2. ASSUME NEW b \in Agents, Die(b) PROVE FALSE
  BY <1>2 DEF Die
<1>3. QED BY <1>1, <1>2 DEF Next, Tick, vars

\* release_claim() lets a claim go that another agent made only if the owner has not
\* run the script for longer than the staleness limit, or its session file is being
\* written, provided that the owner runs one process at a time.
THEOREM OwnersKeepTheirClaims == Spec => OwnersKeepClaims
<1> DEFINE Good(p) == LET owner == Released(p).owner
                      IN  owner \notin Hooking \cup {Agent(p)} /\ session[owner].whole
                            => session[owner].age > Stale
<1>1. ASSUME FileClaims, OwnersInv, [Next]_vars,
             NEW p \in Proc, pc[p] = "owner", pc'[p] = "save"
      PROVE  Good(p)
  <2>1. CheckOwner(p) /\ FileTypes /\ Pending(p)
    BY <1>1, ChecksOwner DEF FileClaims, CallsInv
  <2>2. call[p].kind = "release" /\ Yields(p, Released(p))
    BY <1>1, <2>1 DEF CheckOwner, End, Goto, FileTypes
  <2>3. Released(p) \in view[p].claims /\ Released(p).owner \in Agents
    BY <1>1, <2>1, <2>2, ReleasedIs DEF Pending, Listing, Sound, ClaimRecord
  <2> DEFINE c == Released(p)
             o == Released(p).owner
  <2>4. ASSUME o \notin Hooking \cup {Agent(p)}, session[o].whole PROVE session[o].age > Stale
    <3>1. c.session = session[o].id /\ session[o].id # 0
      BY <1>1, <2>3, <2>4 DEF OwnersInv, SignedInv, Signed, Carries
    <3>2. session[o].id \in Nat \ {0} /\ Agent(p) \in Agents
      BY <2>1, <2>3, <3>1, ClaimsFileAssumption, Agents1 DEF FileTypes, SessionFile
    <3>3. c.session # sid[p]
      <4>1. SUFFICES ASSUME session[o].id = sid[p] PROVE FALSE
        BY <3>1
      <4>2. Knows(o, session[o].id) /\ Knows(Agent(p), session[o].id)
        BY <4>1 DEF Knows
      <4>3. QED BY <1>1, <2>3, <2>4, <3>2, <4>2 DEF OwnersInv, IdsInv
    <3>4. IsSessionStale(c.session)
      BY <2>2, <3>3 DEF Yields
    <3>5. QED BY <2>3, <2>4, <3>1, <3>4 DEF IsSessionStale
  <2>5. QED BY <2>4
<1>2. FileClaims /\ OwnersInv /\ [Next]_vars =>
        [\A p \in Proc : pc[p] = "owner" /\ pc'[p] = "save" => Good(p)]_vars
  BY <1>1
<1>3. QED BY <1>2, OwnersInvariance, PTL DEF Spec, OwnersKeepClaims

=============================================================================
