-------------------------- MODULE WorktreesProofs --------------------------
(***************************************************************************)
(* What the two worktree scripts keep, for any number of agents, paths,    *)
(* branches and areas: claims of one area keep creations apart, standing   *)
(* claims stop removals, and calls that do not cross lose no work.         *)
(***************************************************************************)
EXTENDS Worktrees, TLAPS

Label == {"idle", "target", "verify", "branch", "add", "inspect", "cleanup", "unbranch",
          "claims", "marker", "status", "remove", "retry"}

Call == [path : Paths, branch : Branches \cup {NoBranch}, area : Areas, force : BOOLEAN,
         created : BOOLEAN, unseen : BOOLEAN, stands : BOOLEAN]

GitType ==
  /\ tree \in [Paths -> [kind : {"absent", "files", "live"}, branch : Branches \cup {NoBranch}]]
  /\ ready \subseteq Paths

CallType == pc \in [Agents -> Label] /\ call \in [Agents -> Call]

Stores == claims \subseteq Claim /\ legacy \in [whole : BOOLEAN, paths : SUBSET Paths]

TypeOK == GitType /\ CallType /\ Stores

\* Where a creation is, and where a removal is that has passed its check of claims.
Creating == {"verify", "target", "branch", "add", "inspect", "cleanup", "unbranch"}
Passed   == {"marker", "status", "remove", "retry"}

\* An agent whose check of its claims stands has a claim of the area.
Standing(a) ==
  call[a].stands => \E c \in claims : c.agent = a /\ c.area = call[a].area

\* A removal that has passed the check of claims, and saw none come since, has
\* none to heed, in the store or in the file.
Unclaimed(a) ==
  pc[a] \in Passed /\ ~call[a].force /\ ~call[a].unseen =>
    /\ \A c \in claims : c.path # call[a].path
    /\ call[a].path \notin legacy.paths

\* Only forced removals retry, and those count as crossed.
Forced(a) ==
  /\ pc[a] \in Passed \cup {"claims"} /\ call[a].force => crossed
  /\ pc[a] = "retry" => call[a].force

\* A creation names a branch.
Named(a) == pc[a] \in Creating => call[a].branch # NoBranch

\* Sessions work in trees, each of a branch of its own.
Trees ==
  /\ \A p \in ready : tree[p].kind = "live"
  /\ \A p \in Paths : tree[p].kind = "live" <=> tree[p].branch # NoBranch
  /\ \A p \in Paths : tree[p].kind = "live" => tree[p].branch \in branches
  /\ \A p, q \in Paths : tree[p].branch = tree[q].branch /\ tree[p].branch # NoBranch => p = q
  /\ ahead \subseteq branches

Making(a) == pc[a] \in {"inspect", "cleanup"}

\* Unless calls crossed, the tree that a call has made is there, and no session
\* and no other call has taken it...
Own(a) ==
  Making(a) =>
    /\ tree[call[a].path].branch = call[a].branch
    /\ call[a].path \notin ready
    /\ \A o \in Agents : Making(o) /\ call[o].path = call[a].path => o = a

\* ...and nobody has committed to the branch that it made for it.
Fresh(a) ==
  /\ Making(a) /\ call[a].created => call[a].branch \notin ahead
  /\ pc[a] = "unbranch" => /\ call[a].branch \notin ahead
                           /\ \A p \in Paths : tree[p].branch # call[a].branch

ClaimsInv == \A a \in Agents : Standing(a) /\ Unclaimed(a)
CallsInv  == \A a \in Agents : Forced(a) /\ Named(a)
WorkInv   == Trees /\ (~crossed => \A a \in Agents : Own(a) /\ Fresh(a))
Inv       == TypeOK /\ ClaimsInv /\ ClaimsSeparateAgents /\ CallsInv /\ WorkInv

-----------------------------------------------------------------------------
(* Types. *)

LEMMA NoCallType ==
  /\ NoCall \in Call /\ NoCall.branch = NoBranch
  /\ NoCall.stands = FALSE /\ NoCall.force = FALSE /\ NoCall.unseen = FALSE /\ NoCall.created = FALSE
BY WorktreesAssumption DEF NoCall, Call

\* r, with some of its ghosts and created_branch set otherwise.
Like(r, s) ==
  /\ s \in Call /\ s.path = r.path /\ s.branch = r.branch /\ s.area = r.area /\ s.force = r.force

LEMMA CallFields ==
  ASSUME NEW r \in Call, NEW v \in BOOLEAN, NEW s
  PROVE  /\ s = [r EXCEPT !.stands = v] =>
              Like(r, s) /\ s.stands = v /\ s.unseen = r.unseen /\ s.created = r.created
         /\ s = [r EXCEPT !.unseen = v] =>
              Like(r, s) /\ s.stands = r.stands /\ s.unseen = v /\ s.created = r.created
         /\ s = [r EXCEPT !.created = v] =>
              Like(r, s) /\ s.stands = r.stands /\ s.unseen = r.unseen /\ s.created = v
BY DEF Call, Like

LEMMA NewCreation ==
  ASSUME NEW p \in Paths, NEW b \in Branches, NEW s,
         \/ s = [NoCall EXCEPT !.path = p, !.branch = b]
         \/ \E x \in Areas : s = [NoCall EXCEPT !.path = p, !.branch = b, !.area = x]
  PROVE  s \in Call /\ s.branch = b /\ ~s.stands
BY NoCallType DEF Call

LEMMA NewRemoval ==
  ASSUME NEW p \in Paths, NEW f \in BOOLEAN, NEW s, s = [NoCall EXCEPT !.path = p, !.force = f]
  PROVE  s \in Call /\ s.force = f /\ ~s.stands
BY NoCallType DEF Call

\* One call moves on: its agent goes to l, its record becomes r.
Turn(a, l, r) == pc' = [pc EXCEPT ![a] = l] /\ call' = [call EXCEPT ![a] = r]

LEMMA Turns ==
  ASSUME CallType, NEW a \in Agents, NEW l \in Label, NEW r \in Call, Turn(a, l, r)
  PROVE  /\ CallType' /\ pc'[a] = l /\ call'[a] = r
         /\ \A o \in Agents \ {a} : pc'[o] = pc[o] /\ call'[o] = call[o]
BY DEF Turn, CallType

\* A step of an agent, but for those that write in its record.
Follows(a, l) ==
  /\ l \in Passed <=> pc[a] \in Passed
  /\ l \in Creating <=> pc[a] \in Creating
  /\ l = "retry" => call[a].force
  /\ l # "claims"

LEMMA Edges ==
  ASSUME CallType, NEW a \in Agents,
         \/ Target(a) \/ Add(a) \/ AddFails(a) \/ Inspect(a) \/ Cleanup(a) \/ Unbranch(a)
         \/ CheckMarker(a) \/ CheckStatus(a) \/ GitRemove(a) \/ GitRemoveForced(a)
  PROVE  /\ \/ Turn(a, "idle", NoCall)
            \/ \E l \in Label : Turn(a, l, call[a]) /\ Follows(a, l)
         /\ UNCHANGED <<claims, legacy>>
<1>1. End(a) \/ \E l \in Label : Goto(a, l) /\ Follows(a, l)
  <2> USE DEF Label, Passed, Creating, Follows
  <2>1. CASE Target(a) \/ AddFails(a) \/ CheckMarker(a) \/ CheckStatus(a)
    BY <2>1 DEF Target, AddFails, CheckMarker, CheckStatus, Check
  <2>2. CASE Add(a) \/ Inspect(a)
    BY <2>2 DEF Add, Inspect
  <2>3. CASE Cleanup(a) \/ Unbranch(a)
    BY <2>3 DEF Cleanup, Unbranch
  <2>4. CASE GitRemove(a) \/ GitRemoveForced(a)
    BY <2>4 DEF GitRemove, GitRemoveForced, Retries
  <2>5. QED BY <2>1, <2>2, <2>3, <2>4
<1>2. UNCHANGED <<claims, legacy>>
  BY DEF Target, Add, AddFails, Inspect, Cleanup, Unbranch, CheckMarker, CheckStatus, GitRemove,
         GitRemoveForced, Check
<1>3. ASSUME NEW l \in Label, Goto(a, l) PROVE Turn(a, l, call[a])
  BY <1>3 DEF Goto, Turn, CallType
<1>4. End(a) => Turn(a, "idle", NoCall)
  BY DEF End, Turn
<1>5. QED BY <1>1, <1>2, <1>3, <1>4

\* The steps that do: the first check of a creation, the second, and that of a removal.
LEMMA Writes ==
  ASSUME CallType, NEW a \in Agents
  PROVE  /\ Verify(a) =>
              \/ Turn(a, "idle", NoCall)
              \/ \E v \in BOOLEAN : /\ Turn(a, "target", [call[a] EXCEPT !.stands = v])
                                    /\ ClaimVerified(a, call[a])
         /\ Branch(a) => \/ Turn(a, "idle", NoCall)
                         \/ \E v \in BOOLEAN : Turn(a, "add", [call[a] EXCEPT !.created = v])
         /\ CheckClaims(a) =>
              \/ Turn(a, "idle", NoCall)
              \/ \E v \in BOOLEAN : /\ Turn(a, "marker", [call[a] EXCEPT !.unseen = v])
                                    /\ ~Blocked(call[a]) /\ (~v => legacy.whole)
<1>1. Verify(a) =>
        \/ Turn(a, "idle", NoCall)
        \/ \E v \in BOOLEAN : /\ Turn(a, "target", [call[a] EXCEPT !.stands = v])
                              /\ ClaimVerified(a, call[a])
  BY DEF Verify, End, Turn
<1>2. ASSUME Branch(a)
      PROVE  \/ Turn(a, "idle", NoCall)
             \/ \E v \in BOOLEAN : Turn(a, "add", [call[a] EXCEPT !.created = v])
  BY <1>2 DEF Branch, End, Turn
<1>3. ASSUME CheckClaims(a)
      PROVE  \/ Turn(a, "idle", NoCall)
             \/ \E v \in BOOLEAN : /\ Turn(a, "marker", [call[a] EXCEPT !.unseen = v])
                                   /\ ~Blocked(call[a]) /\ (~v => legacy.whole)
  <2>1. CASE Blocked(call[a])
    BY <1>3, <2>1 DEF CheckClaims, End, Turn
  <2>2. CASE ~Blocked(call[a])
    <3>1. Turn(a, "marker", [call[a] EXCEPT !.unseen = ~legacy.whole])
      BY <1>3, <2>2 DEF CheckClaims, Turn
    <3>2. CASE legacy.whole
      <4>1. Turn(a, "marker", [call[a] EXCEPT !.unseen = FALSE])
        BY <3>1, <3>2
      <4>2. QED BY <2>2, <3>2, <4>1
    <3>3. CASE ~legacy.whole
      <4>1. Turn(a, "marker", [call[a] EXCEPT !.unseen = TRUE])
        BY <3>1, <3>3
      <4>2. QED BY <2>2, <4>1
    <3>4. QED BY <3>2, <3>3
  <2>3. QED BY <2>1, <2>2
<1>4. QED BY <1>1, <1>2, <1>3

\* The first steps of a call.
LEMMA Begins ==
  ASSUME CallType, NEW a \in Agents, NEW p \in Paths
  PROVE  /\ \A b \in Branches : Create(a, p, b) =>
              \E l \in {"target", "verify"}, r \in Call : Turn(a, l, r) /\ r.branch = b /\ ~r.stands
         /\ \A f \in BOOLEAN : Remove(a, p, f) =>
              \E r \in Call : Turn(a, "claims", r) /\ r.force = f /\ ~r.stands
<1>1. ASSUME NEW b \in Branches, Create(a, p, b)
      PROVE  \E l \in {"target", "verify"}, r \in Call : Turn(a, l, r) /\ r.branch = b /\ ~r.stands
  <2>1. PICK l \in {"target", "verify"}, r \in {call'[a]} :
          /\ Turn(a, l, r)
          /\ \/ r = [NoCall EXCEPT !.path = p, !.branch = b]
             \/ \E x \in Areas : r = [NoCall EXCEPT !.path = p, !.branch = b, !.area = x]
    BY <1>1 DEF Create, Turn, CallType
  <2>2. QED BY <2>1, NewCreation
<1>2. ASSUME NEW f \in BOOLEAN, Remove(a, p, f)
      PROVE  \E r \in Call : Turn(a, "claims", r) /\ r.force = f /\ ~r.stands
  <2>1. PICK r \in {[NoCall EXCEPT !.path = p, !.force = f]} : Turn(a, "claims", r)
    BY <1>2 DEF Remove, Turn
  <2>2. QED BY <2>1, NewRemoval
<1>3. QED BY <1>1, <1>2

\* A claim of a path comes: the removals that have passed their check have not seen it.
LEMMA Unseens ==
  ASSUME CallType, NEW p, Unseen(p), pc' = pc
  PROVE  /\ CallType'
         /\ \A o \in Agents :
              /\ Like(call[o], call'[o]) /\ call'[o].stands = call[o].stands /\ call'[o].created = call[o].created
              /\ call[o].unseen => call'[o].unseen
              /\ pc[o] \in Passed /\ call[o].path = p => call'[o].unseen
<1>1. \A o \in Agents :
        /\ Like(call[o], call'[o]) /\ call'[o].stands = call[o].stands /\ call'[o].created = call[o].created
        /\ call[o].unseen => call'[o].unseen
        /\ pc[o] \in Passed /\ call[o].path = p => call'[o].unseen
  <2> SUFFICES ASSUME NEW o \in Agents
      PROVE /\ Like(call[o], call'[o]) /\ call'[o].stands = call[o].stands /\ call'[o].created = call[o].created
            /\ call[o].unseen => call'[o].unseen
            /\ pc[o] \in Passed /\ call[o].path = p => call'[o].unseen
    OBVIOUS
  <2>1. call[o] \in Call
    BY DEF CallType
  <2>2. CASE pc[o] \in Passed /\ call[o].path = p
    <3>1. call'[o] = [call[o] EXCEPT !.unseen = TRUE]
      BY <2>2 DEF Unseen, Passed
    <3>2. QED BY <2>1, <3>1, CallFields
  <2>3. CASE ~(pc[o] \in Passed /\ call[o].path = p)
    BY <2>1, <2>3 DEF Unseen, Passed, Like
  <2>4. QED BY <2>2, <2>3
<1>2. call' \in [Agents -> Call]
  <2>1. \A o \in Agents : call'[o] \in Call
    BY <1>1 DEF Like
  <2>2. QED BY <2>1 DEF Unseen
<1>3. QED BY <1>1, <1>2 DEF CallType

\* A claim ends: its agent's check may no longer stand.
LEMMA Ended ==
  ASSUME CallType, NEW c \in Claim, EndClaim(c)
  PROVE  /\ CallType' /\ pc' = pc
         /\ \A o \in Agents : /\ Like(call[o], call'[o]) /\ call'[o].unseen = call[o].unseen
                              /\ call'[o].created = call[o].created /\ (call'[o].stands => call[o].stands)
         /\ c.agent \in Agents
         /\ call'[c.agent].stands =>
              \E d \in claims \ {c} : d.agent = c.agent /\ d.area = call[c.agent].area
<1> DEFINE a == c.agent
           v == call[a].stands /\ \E d \in claims \ {c} : d.agent = a /\ d.area = call[a].area
<1>1. a \in Agents /\ call[a] \in Call /\ v \in BOOLEAN /\ pc' = pc
  BY DEF Claim, CallType, EndClaim
<1>2. call' = [call EXCEPT ![a] = [call[a] EXCEPT !.stands = v]]
  BY DEF EndClaim
<1>3. v => call[a].stands /\ \E d \in claims \ {c} : d.agent = a /\ d.area = call[a].area
  OBVIOUS
<1> HIDE DEF v, a
<1> DEFINE r == [call[a] EXCEPT !.stands = v]
<1>4. Like(call[a], r) /\ r.stands = v /\ r.unseen = call[a].unseen /\ r.created = call[a].created
  BY <1>1, CallFields
<1>5. call' = [call EXCEPT ![a] = r]
  BY <1>2
<1> HIDE DEF r
<1>6. CallType' /\ call'[a] = r /\ \A o \in Agents \ {a} : call'[o] = call[o] /\ call[o] \in Call
  BY <1>1, <1>4, <1>5 DEF CallType, Like
<1>7. QED BY <1>1, <1>3, <1>4, <1>6 DEF Like, a

-----------------------------------------------------------------------------
(* Types. *)

LEMMA TreeTypes ==
  ASSUME NEW t \in {NoTree, [NoTree EXCEPT !.kind = "files"]}
  PROVE  /\ t \in [kind : {"absent", "files", "live"}, branch : Branches \cup {NoBranch}]
         /\ t.kind # "live" /\ t.branch = NoBranch
BY DEF NoTree

LEMMA InitTypes == Init => TypeOK
<1> SUFFICES ASSUME Init PROVE TypeOK
  OBVIOUS
<1>1. CallType /\ Stores
  BY NoCallType DEF Init, CallType, Stores, Label
<1>2. GitType
  BY TreeTypes DEF Init, GitType
<1>3. QED BY <1>1, <1>2 DEF TypeOK

\* What a step does to the calls...
LEMMA StepCalls == CallType /\ [Next]_vars => CallType'
<1> SUFFICES ASSUME CallType, [Next]_vars PROVE CallType'
  OBVIOUS
<1>1. ASSUME NEW a \in Agents, Step(a) PROVE CallType'
  <2>1. call[a] \in Call /\ NoCall \in Call
    BY NoCallType DEF CallType
  <2>2. \A v \in BOOLEAN : /\ [call[a] EXCEPT !.stands = v] \in Call /\ [call[a] EXCEPT !.unseen = v] \in Call
                           /\ [call[a] EXCEPT !.created = v] \in Call
    BY <2>1, CallFields DEF Like
  <2>3. PICK l \in Label, r \in Call : Turn(a, l, r)
    <3>1. CASE Verify(a) \/ Branch(a) \/ CheckClaims(a)
      BY <2>1, <2>2, <3>1, Writes DEF Label
    <3>2. CASE \/ Target(a) \/ Add(a) \/ AddFails(a) \/ Inspect(a) \/ Cleanup(a) \/ Unbranch(a)
               \/ CheckMarker(a) \/ CheckStatus(a) \/ GitRemove(a) \/ GitRemoveForced(a)
      BY <2>1, <3>2, Edges DEF Label
    <3>3. QED BY <1>1, <3>1, <3>2 DEF Step
  <2>4. QED BY <2>3, Turns
<1>2. ASSUME NEW a \in Agents, NEW p \in Paths,
             (\E b \in Branches : Create(a, p, b)) \/ \E f \in BOOLEAN : Remove(a, p, f)
      PROVE  CallType'
  <2>1. PICK l \in Label, r \in Call : Turn(a, l, r)
    BY <1>2, Begins DEF Label
  <2>2. QED BY <2>1, Turns
<1>3. ASSUME NEW p \in Paths, Edit(p) \/ Commit(p) \/ MarkerAges(p) PROVE CallType'
  BY <1>3 DEF Edit, Commit, MarkerAges, CallType
<1>4. ASSUME NEW p \in Paths, TearLegacy(p) \/ WriteLegacy(p) PROVE CallType'
  BY <1>4, Unseens DEF TearLegacy, WriteLegacy
<1>5. ASSUME NEW c \in Claim, MakeClaim(c) PROVE CallType'
  BY <1>5, Unseens DEF MakeClaim
<1>6. ASSUME NEW c \in Claim, EndClaim(c) PROVE CallType'
  BY <1>6, Ended
<1>7. CASE UNCHANGED vars
  BY <1>7 DEF vars, CallType
<1>8. QED
  BY <1>1, <1>2, <1>3, <1>4, <1>5, <1>6, <1>7 DEF Next

\* ...and to the trees.
LEMMA StepGit == CallType /\ GitType /\ [Next]_vars => GitType'
<1> SUFFICES ASSUME CallType, GitType, [Next]_vars PROVE GitType'
  OBVIOUS
<1> USE DEF GitType, git
<1>p. \A a \in Agents : call[a].path \in Paths
  BY DEF CallType, Call
<1>1. ASSUME NEW a \in Agents, Add(a)
      PROVE  GitType'
  BY <1>p, <1>1 DEF Add, CallType, Call
<1>2. ASSUME NEW a \in Agents, Inspect(a)
      PROVE  GitType'
  BY <1>p, <1>2 DEF Inspect, CallType, Call
<1>3. ASSUME NEW a \in Agents, Cleanup(a) \/ GitRemove(a) \/ GitRemoveForced(a)
      PROVE  GitType'
  BY <1>p, TreeTypes, <1>3 DEF Cleanup, GitRemove, GitRemoveForced, Gone
<1>4. ASSUME NEW a \in Agents, Verify(a) \/ Target(a) \/ Branch(a) \/ AddFails(a) \/ Unbranch(a)
                                 \/ CheckClaims(a) \/ CheckMarker(a) \/ CheckStatus(a)
      PROVE  GitType'
  BY <1>4 DEF Verify, Target, Branch, AddFails, Unbranch, CheckClaims, CheckMarker, CheckStatus, Check
<1>5. ASSUME NEW a \in Agents, NEW p \in Paths,
             (\E b \in Branches : Create(a, p, b)) \/ \E f \in BOOLEAN : Remove(a, p, f)
      PROVE  GitType'
  BY <1>5 DEF Create, Remove
<1>6. ASSUME NEW p \in Paths, Edit(p) \/ Commit(p) \/ MarkerAges(p) \/ TearLegacy(p) \/ WriteLegacy(p)
      PROVE  GitType'
  BY <1>6 DEF Edit, Commit, MarkerAges, TearLegacy, WriteLegacy
<1>7. ASSUME NEW c \in Claim, MakeClaim(c) \/ EndClaim(c)
      PROVE  GitType'
  BY <1>7 DEF MakeClaim, EndClaim
<1>8. CASE UNCHANGED vars
  BY <1>8 DEF vars
<1>9. QED
  BY <1>1, <1>2, <1>3, <1>4, <1>5, <1>6, <1>7, <1>8 DEF Next, Step

LEMMA StepTypes == TypeOK /\ [Next]_vars => TypeOK'
<1> SUFFICES ASSUME TypeOK, [Next]_vars PROVE Stores'
  BY StepCalls, StepGit DEF TypeOK
<1>1. CASE \E a \in Agents : Step(a)
  BY <1>1 DEF TypeOK, Stores, Step, Verify, Target, Branch, Add, AddFails, Inspect, Cleanup, Unbranch,
              CheckClaims, CheckMarker, CheckStatus, GitRemove, GitRemoveForced, Check
<1>2. ASSUME NEW p \in Paths, TearLegacy(p) \/ WriteLegacy(p) PROVE Stores'
  <2>1. claims' = claims
    BY <1>2 DEF TearLegacy, WriteLegacy
  <2>2. legacy' \in [whole : BOOLEAN, paths : SUBSET Paths]
    <3>1. \E w \in BOOLEAN, s \in SUBSET Paths : legacy = [whole |-> w, paths |-> s]
      BY DEF TypeOK, Stores
    <3>2. PICK s \in SUBSET Paths : legacy.paths = s
      BY <3>1
    <3>3. CASE WriteLegacy(p)
      BY <3>2, <3>3 DEF WriteLegacy
    <3>4. CASE TearLegacy(p)
      <4>1. \A v \in BOOLEAN : [legacy EXCEPT !.whole = v] \in [whole : BOOLEAN, paths : SUBSET Paths]
        BY <3>1
      <4>2. QED BY <3>4, <4>1 DEF TearLegacy
    <3>5. QED BY <1>2, <3>3, <3>4
  <2>3. QED BY <2>1, <2>2 DEF TypeOK, Stores
<1>3. ASSUME NEW c \in Claim, MakeClaim(c) \/ EndClaim(c) PROVE Stores'
  BY <1>3 DEF TypeOK, Stores, MakeClaim, EndClaim
<1>4. CASE \/ \E a \in Agents, p \in Paths : \/ \E b \in Branches : Create(a, p, b)
                                             \/ \E f \in BOOLEAN : Remove(a, p, f)
           \/ \E p \in Paths : Edit(p) \/ Commit(p) \/ MarkerAges(p)
           \/ UNCHANGED vars
  BY <1>4 DEF TypeOK, Stores, Create, Remove, Edit, Commit, MarkerAges, vars
<1>5. QED BY <1>1, <1>2, <1>3, <1>4 DEF Next

-----------------------------------------------------------------------------
(* Claims. *)

LEMMA StepClaims ==
  ASSUME TypeOK, ClaimsInv, [Next]_vars
  PROVE  ClaimsInv'
<1> SUFFICES ASSUME NEW o \in Agents PROVE Standing(o)' /\ Unclaimed(o)'
  BY DEF ClaimsInv
<1>t. CallType /\ NoCall \in Call /\ \A a \in Agents : call[a] \in Call
  BY NoCallType DEF TypeOK, CallType
<1>o. Standing(o) /\ Unclaimed(o)
  BY DEF ClaimsInv
<1>1. ASSUME UNCHANGED <<claims, legacy>>, pc'[o] = pc[o], call'[o] = call[o]
      PROVE  Standing(o)' /\ Unclaimed(o)'
  BY <1>1, <1>o DEF Standing, Unclaimed
<1>2. ASSUME NEW a \in Agents, NEW l \in Label \ Passed, NEW r \in Call, Turn(a, l, r), ~r.stands,
             UNCHANGED <<claims, legacy>>
      PROVE  Standing(o)' /\ Unclaimed(o)'
  <2>1. CASE o = a
    BY <1>t, <1>2, <2>1, Turns DEF Standing, Unclaimed, Passed
  <2>2. CASE o # a
    BY <1>t, <1>1, <1>2, <2>2, Turns
  <2>3. QED BY <2>1, <2>2
<1>3. ASSUME NEW a \in Agents, Turn(a, "idle", NoCall), UNCHANGED <<claims, legacy>>
      PROVE  Standing(o)' /\ Unclaimed(o)'
  BY <1>t, <1>2, <1>3, NoCallType DEF Label, Passed
<1>4. ASSUME NEW a \in Agents,
             \/ Target(a) \/ Add(a) \/ AddFails(a) \/ Inspect(a) \/ Cleanup(a) \/ Unbranch(a)
             \/ CheckMarker(a) \/ CheckStatus(a) \/ GitRemove(a) \/ GitRemoveForced(a)
      PROVE  Standing(o)' /\ Unclaimed(o)'
  <2>1. UNCHANGED <<claims, legacy>>
    BY <1>t, <1>4, Edges
  <2>2. ASSUME NEW l \in Label, Turn(a, l, call[a]), Follows(a, l)
        PROVE  Standing(o)' /\ Unclaimed(o)'
    <3>1. call'[o] = call[o] /\ (pc'[o] \in Passed => pc[o] \in Passed)
      BY <1>t, <2>2, Turns DEF Follows
    <3>2. QED BY <1>o, <2>1, <3>1 DEF Standing, Unclaimed, Passed
  <2>3. QED BY <1>t, <1>3, <1>4, <2>1, <2>2, Edges
<1>5. ASSUME NEW a \in Agents, Verify(a)
      PROVE  Standing(o)' /\ Unclaimed(o)'
  <2>1. UNCHANGED <<claims, legacy>>
    BY <1>5 DEF Verify
  <2>2. ASSUME NEW v \in BOOLEAN, Turn(a, "target", [call[a] EXCEPT !.stands = v]),
               ClaimVerified(a, call[a])
        PROVE  Standing(o)' /\ Unclaimed(o)'
    <3>1. PICK r \in {[call[a] EXCEPT !.stands = v]} : Like(call[a], r) /\ r \in Call
      BY <1>t, CallFields DEF Like
    <3>2. CASE o = a
      <4>1. pc'[o] = "target" /\ call'[o].area = call[a].area
        BY <1>t, <2>2, <3>1, <3>2, Turns DEF Label, Like
      <4>2. QED BY <2>1, <2>2, <3>2, <4>1 DEF Standing, Unclaimed, ClaimVerified, Passed
    <3>3. CASE o # a
      BY <1>t, <1>1, <2>1, <2>2, <3>1, <3>3, Turns DEF Label
    <3>4. QED BY <3>2, <3>3
  <2>3. QED BY <1>t, <1>3, <1>5, <2>1, <2>2, Writes
<1>6. ASSUME NEW a \in Agents, Branch(a)
      PROVE  Standing(o)' /\ Unclaimed(o)'
  <2>1. UNCHANGED <<claims, legacy>>
    BY <1>6 DEF Branch
  <2>2. ASSUME NEW v \in BOOLEAN, Turn(a, "add", [call[a] EXCEPT !.created = v])
        PROVE  Standing(o)' /\ Unclaimed(o)'
    <3>1. PICK r \in {[call[a] EXCEPT !.created = v]} :
                 r \in Call /\ Like(call[a], r) /\ r.stands = call[a].stands
      BY <1>t, CallFields DEF Like
    <3>2. CASE o = a
      <4>1. pc'[o] = "add" /\ call'[o].area = call[o].area /\ call'[o].stands = call[o].stands
        BY <1>t, <2>2, <3>1, <3>2, Turns DEF Label, Like
      <4>2. QED BY <1>o, <2>1, <4>1 DEF Standing, Unclaimed, Passed
    <3>3. CASE o # a
      BY <1>t, <1>1, <2>1, <2>2, <3>1, <3>3, Turns DEF Label
    <3>4. QED BY <3>2, <3>3
  <2>3. QED BY <1>t, <1>3, <1>6, <2>1, <2>2, Writes
<1>7. ASSUME NEW a \in Agents, CheckClaims(a)
      PROVE  Standing(o)' /\ Unclaimed(o)'
  <2>1. UNCHANGED <<claims, legacy>>
    BY <1>7 DEF CheckClaims
  <2>2. ASSUME NEW v \in BOOLEAN, Turn(a, "marker", [call[a] EXCEPT !.unseen = v]),
               ~Blocked(call[a]), ~v => legacy.whole
        PROVE  Standing(o)' /\ Unclaimed(o)'
    <3>1. PICK r \in {[call[a] EXCEPT !.unseen = v]} :
                 r \in Call /\ Like(call[a], r) /\ r.stands = call[a].stands /\ r.unseen = v
      BY <1>t, CallFields DEF Like
    <3>2. CASE o = a
      <4>1. /\ call'[o].area = call[o].area /\ call'[o].stands = call[o].stands
            /\ call'[o].path = call[o].path /\ call'[o].force = call[o].force /\ call'[o].unseen = v
        BY <1>t, <2>2, <3>1, <3>2, Turns DEF Label, Like
      <4>2. Standing(o)'
        BY <1>o, <2>1, <4>1 DEF Standing
      <4>3. QED BY <2>1, <2>2, <3>2, <4>1, <4>2 DEF Unclaimed, Blocked, WorktreeClaimed
    <3>3. CASE o # a
      BY <1>t, <1>1, <2>1, <2>2, <3>1, <3>3, Turns DEF Label
    <3>4. QED BY <3>2, <3>3
  <2>3. QED BY <1>t, <1>3, <1>7, <2>1, <2>2, Writes
<1>8. ASSUME NEW a \in Agents, NEW p \in Paths,
             (\E b \in Branches : Create(a, p, b)) \/ \E f \in BOOLEAN : Remove(a, p, f)
      PROVE  Standing(o)' /\ Unclaimed(o)'
  <2>1. UNCHANGED <<claims, legacy>>
    BY <1>8 DEF Create, Remove
  <2>2. PICK l \in Label \ Passed, r \in Call : Turn(a, l, r) /\ ~r.stands
    BY <1>t, <1>8, Begins DEF Label, Passed
  <2>3. QED BY <1>2, <2>1, <2>2
<1>9. ASSUME NEW p \in Paths, Edit(p) \/ Commit(p) \/ MarkerAges(p)
      PROVE  Standing(o)' /\ Unclaimed(o)'
  BY <1>1, <1>9 DEF Edit, Commit, MarkerAges
<1>10. ASSUME NEW p \in Paths, TearLegacy(p) \/ WriteLegacy(p)
       PROVE  Standing(o)' /\ Unclaimed(o)'
  <2>1. Unseen(p) /\ pc' = pc /\ claims' = claims
    BY <1>10 DEF TearLegacy, WriteLegacy
  <2>2. legacy'.paths \subseteq legacy.paths \cup {p}
    BY <1>10 DEF TypeOK, Stores, TearLegacy, WriteLegacy
  <2>3. QED BY <1>t, <1>o, <2>1, <2>2, Unseens DEF Standing, Unclaimed, Like, Passed
<1>11. ASSUME NEW c \in Claim, MakeClaim(c)
       PROVE  Standing(o)' /\ Unclaimed(o)'
  <2>1. Unseen(c.path) /\ pc' = pc /\ claims' = claims \cup {c} /\ legacy' = legacy
    BY <1>11 DEF MakeClaim
  <2>2. QED BY <1>t, <1>o, <2>1, Unseens DEF Standing, Unclaimed, Like, Passed
<1>12. ASSUME NEW c \in Claim, EndClaim(c)
       PROVE  Standing(o)' /\ Unclaimed(o)'
  <2>1. claims' = claims \ {c} /\ legacy' = legacy
    BY <1>12 DEF EndClaim
  <2>2. Unclaimed(o)'
    BY <1>t, <1>o, <1>12, <2>1, Ended DEF Unclaimed, Like
  <2>3. Standing(o)'
    BY <1>t, <1>o, <1>12, <2>1, Ended DEF Standing, Like
  <2>4. QED BY <2>2, <2>3
<1>13. CASE UNCHANGED vars
  BY <1>1, <1>13 DEF vars
<1>14. QED
  BY <1>4, <1>5, <1>6, <1>7, <1>8, <1>9, <1>10, <1>11, <1>12, <1>13 DEF Next, Step

\* The one step that makes a check stand is Verify, when no other agent has a claim
\* of the area: then, by Standing, no other check of it stands.
LEMMA StepApart ==
  ASSUME TypeOK, ClaimsInv, ClaimsSeparateAgents, [Next]_vars
  PROVE  ClaimsSeparateAgents'
<1>t. CallType /\ NoCall \in Call /\ (\A a \in Agents : call[a] \in Call) /\ ~NoCall.stands
  BY NoCallType DEF TypeOK, CallType
<1>1. ASSUME \A o \in Agents : call'[o].stands => call[o].stands /\ call'[o].area = call[o].area
      PROVE  ClaimsSeparateAgents'
  BY <1>1 DEF ClaimsSeparateAgents
<1>2. ASSUME NEW a \in Agents, NEW l \in Label, NEW r \in Call, Turn(a, l, r),
             r.stands => call[a].stands /\ r.area = call[a].area
      PROVE  ClaimsSeparateAgents'
  BY <1>t, <1>1, <1>2, Turns
<1>3. ASSUME NEW a \in Agents, Turn(a, "idle", NoCall)
      PROVE  ClaimsSeparateAgents'
  BY <1>t, <1>2, <1>3 DEF Label
<1>4. ASSUME NEW a \in Agents,
             \/ Target(a) \/ Add(a) \/ AddFails(a) \/ Inspect(a) \/ Cleanup(a) \/ Unbranch(a)
             \/ CheckMarker(a) \/ CheckStatus(a) \/ GitRemove(a) \/ GitRemoveForced(a)
      PROVE  ClaimsSeparateAgents'
  BY <1>t, <1>2, <1>3, <1>4, Edges
<1>5. ASSUME NEW a \in Agents, Verify(a)
      PROVE  ClaimsSeparateAgents'
  <2>1. ASSUME NEW v \in BOOLEAN, Turn(a, "target", [call[a] EXCEPT !.stands = v]),
               ClaimVerified(a, call[a])
        PROVE  ClaimsSeparateAgents'
    <3>1. PICK r \in {[call[a] EXCEPT !.stands = v]} : Like(call[a], r) /\ r \in Call
      BY <1>t, CallFields DEF Like
    <3>2. call'[a].area = call[a].area /\ \A o \in Agents \ {a} : call'[o] = call[o]
      BY <1>t, <2>1, <3>1, Turns DEF Label, Like
    <3>3. ASSUME NEW o \in Agents \ {a}, call[o].stands
          PROVE  call[o].area # call[a].area
      BY <2>1, <3>3 DEF ClaimsInv, Standing, ClaimVerified
    <3>4. QED BY <3>2, <3>3 DEF ClaimsSeparateAgents
  <2>2. QED BY <1>t, <1>3, <1>5, <2>1, Writes
<1>6. ASSUME NEW a \in Agents, Branch(a) \/ CheckClaims(a)
      PROVE  ClaimsSeparateAgents'
  <2>1. \A v \in BOOLEAN : \A r \in {[call[a] EXCEPT !.created = v], [call[a] EXCEPT !.unseen = v]} :
          r \in Call /\ r.stands = call[a].stands /\ r.area = call[a].area
    BY <1>t, CallFields DEF Like
  <2>2. QED BY <1>t, <1>2, <1>3, <1>6, <2>1, Writes DEF Label
<1>7. ASSUME NEW a \in Agents, NEW p \in Paths,
             (\E b \in Branches : Create(a, p, b)) \/ \E f \in BOOLEAN : Remove(a, p, f)
      PROVE  ClaimsSeparateAgents'
  <2>1. PICK l \in Label, r \in Call : Turn(a, l, r) /\ ~r.stands
    BY <1>t, <1>7, Begins DEF Label
  <2>2. QED BY <1>2, <2>1
<1>8. ASSUME NEW p \in Paths, Edit(p) \/ Commit(p) \/ MarkerAges(p)
      PROVE  ClaimsSeparateAgents'
  BY <1>1, <1>8 DEF Edit, Commit, MarkerAges
<1>9. ASSUME NEW p \in Paths, TearLegacy(p) \/ WriteLegacy(p)
      PROVE  ClaimsSeparateAgents'
  BY <1>t, <1>1, <1>9, Unseens DEF TearLegacy, WriteLegacy, Like
<1>10. ASSUME NEW c \in Claim, MakeClaim(c)
       PROVE  ClaimsSeparateAgents'
  BY <1>t, <1>1, <1>10, Unseens DEF MakeClaim, Like
<1>11. ASSUME NEW c \in Claim, EndClaim(c)
       PROVE  ClaimsSeparateAgents'
  BY <1>t, <1>1, <1>11, Ended DEF Like
<1>12. CASE UNCHANGED vars
  BY <1>1, <1>12 DEF vars
<1>13. QED
  BY <1>4, <1>5, <1>6, <1>7, <1>8, <1>9, <1>10, <1>11, <1>12 DEF Next, Step

-----------------------------------------------------------------------------
(* Work. *)

\* What was crossed stays so, and every step but those of an agent keeps its places.
LEMMA StepCrossed == crossed /\ [Next]_vars => crossed'
BY DEF Next, Step, Check, Verify, Target, Branch, Add, AddFails, Inspect, Cleanup, Unbranch, CheckClaims,
       CheckMarker, CheckStatus, GitRemove, GitRemoveForced, Create, Remove, Edit, Commit, MarkerAges,
       TearLegacy, WriteLegacy, MakeClaim, EndClaim, vars

\* A step that leaves records alone but for their ghosts.
LEMMA Others ==
  ASSUME CallType,
         \/ \E p \in Paths : Edit(p) \/ Commit(p) \/ MarkerAges(p) \/ TearLegacy(p) \/ WriteLegacy(p)
         \/ \E c \in Claim : MakeClaim(c) \/ EndClaim(c)
         \/ UNCHANGED vars
  PROVE  /\ pc' = pc
         /\ \A o \in Agents : Like(call[o], call'[o]) /\ call'[o].created = call[o].created
<1>1. CASE UNCHANGED vars \/ \E p \in Paths : Edit(p) \/ Commit(p) \/ MarkerAges(p)
  BY <1>1 DEF Edit, Commit, MarkerAges, vars, Like, CallType
<1>2. ASSUME NEW p \in Paths, TearLegacy(p) \/ WriteLegacy(p)
      PROVE  /\ pc' = pc
             /\ \A o \in Agents : Like(call[o], call'[o]) /\ call'[o].created = call[o].created
  <2>1. Unseen(p) /\ pc' = pc
    BY <1>2 DEF TearLegacy, WriteLegacy
  <2>2. QED BY <2>1, Unseens
<1>3. ASSUME NEW c \in Claim, MakeClaim(c)
      PROVE  /\ pc' = pc
             /\ \A o \in Agents : Like(call[o], call'[o]) /\ call'[o].created = call[o].created
  <2>1. Unseen(c.path) /\ pc' = pc
    BY <1>3 DEF MakeClaim
  <2>2. QED BY <2>1, Unseens
<1>4. QED BY <1>1, <1>2, <1>3, Ended

LEMMA StepCallsInv ==
  ASSUME TypeOK, CallsInv, [Next]_vars
  PROVE  CallsInv'
<1> SUFFICES ASSUME NEW o \in Agents PROVE Forced(o)' /\ Named(o)'
  BY DEF CallsInv
<1>t. CallType /\ NoCall \in Call /\ (\A a \in Agents : call[a] \in Call) /\ (crossed => crossed')
  BY NoCallType, StepCrossed DEF TypeOK, CallType
<1>o. Forced(o) /\ Named(o)
  BY DEF CallsInv
<1> USE DEF Forced, Named
<1>1. ASSUME pc'[o] = pc[o], Like(call[o], call'[o])
      PROVE  Forced(o)' /\ Named(o)'
  BY <1>t, <1>1, <1>o DEF Like
<1>2. ASSUME NEW a \in Agents, NEW l \in Label, NEW r \in Call, Turn(a, l, r),
             l \in Passed \cup {"claims"} /\ r.force => crossed', l = "retry" => r.force,
             l \in Creating => r.branch # NoBranch
      PROVE  Forced(o)' /\ Named(o)'
  <2>1. CASE o = a
    BY <1>t, <1>2, <2>1, Turns
  <2>2. CASE o # a
    BY <1>t, <1>1, <1>2, <2>2, Turns DEF Like
  <2>3. QED BY <2>1, <2>2
<1>3. ASSUME NEW a \in Agents, Turn(a, "idle", NoCall)
      PROVE  Forced(o)' /\ Named(o)'
  BY <1>t, <1>2, <1>3 DEF Label, Passed, Creating
<1>4. ASSUME NEW a \in Agents,
             \/ Target(a) \/ Add(a) \/ AddFails(a) \/ Inspect(a) \/ Cleanup(a) \/ Unbranch(a)
             \/ CheckMarker(a) \/ CheckStatus(a) \/ GitRemove(a) \/ GitRemoveForced(a)
      PROVE  Forced(o)' /\ Named(o)'
  <2>1. ASSUME NEW l \in Label, Turn(a, l, call[a]), Follows(a, l)
        PROVE  Forced(o)' /\ Named(o)'
    <3>1. Forced(a) /\ Named(a)
      BY DEF CallsInv
    <3>2. QED BY <1>t, <1>2, <2>1, <3>1 DEF Follows
  <2>2. QED BY <1>t, <1>3, <1>4, <2>1, Edges
<1>5. ASSUME NEW a \in Agents, NEW l \in {"target", "add", "marker"}, NEW r,
             Turn(a, l, r), Like(call[a], r),
             l \in Creating => pc[a] \in Creating, l = "marker" => pc[a] = "claims"
      PROVE  Forced(o)' /\ Named(o)'
  <2>1. Forced(a) /\ Named(a)
    BY DEF CallsInv
  <2>2. QED BY <1>t, <1>2, <1>5, <2>1 DEF Like, Label, Creating, Passed
<1>6. ASSUME NEW a \in Agents, Verify(a) \/ Branch(a) \/ CheckClaims(a)
      PROVE  Forced(o)' /\ Named(o)'
  <2>1. \A v \in BOOLEAN : /\ Like(call[a], [call[a] EXCEPT !.stands = v])
                           /\ Like(call[a], [call[a] EXCEPT !.created = v])
                           /\ Like(call[a], [call[a] EXCEPT !.unseen = v])
    BY <1>t, CallFields
  <2>2. CASE Verify(a) /\ pc[a] = "verify"
    BY <1>t, <1>3, <1>5, <2>1, <2>2, Writes DEF Creating
  <2>3. CASE Branch(a) /\ pc[a] = "branch"
    BY <1>t, <1>3, <1>5, <2>1, <2>3, Writes DEF Creating
  <2>4. CASE CheckClaims(a) /\ pc[a] = "claims"
    BY <1>t, <1>3, <1>5, <2>1, <2>4, Writes DEF Creating
  <2>5. QED BY <1>6, <2>2, <2>3, <2>4 DEF Verify, Branch, CheckClaims
<1>7. ASSUME NEW a \in Agents, NEW p \in Paths, NEW b \in Branches, Create(a, p, b)
      PROVE  Forced(o)' /\ Named(o)'
  <2>1. PICK l \in {"target", "verify"}, r \in Call : Turn(a, l, r) /\ r.branch = b
    BY <1>t, <1>7, Begins
  <2>2. b # NoBranch
    BY WorktreesAssumption
  <2>3. QED BY <1>2, <2>1, <2>2 DEF Label, Passed
<1>8. ASSUME NEW a \in Agents, NEW p \in Paths, NEW f \in BOOLEAN, Remove(a, p, f)
      PROVE  Forced(o)' /\ Named(o)'
  <2>1. PICK r \in Call : Turn(a, "claims", r) /\ r.force = f
    BY <1>t, <1>8, Begins
  <2>2. f => crossed'
    BY <1>8 DEF Remove
  <2>3. QED BY <1>2, <2>1, <2>2 DEF Label, Passed, Creating
<1>9. CASE \/ \E p \in Paths : Edit(p) \/ Commit(p) \/ MarkerAges(p) \/ TearLegacy(p) \/ WriteLegacy(p)
           \/ \E c \in Claim : MakeClaim(c) \/ EndClaim(c)
           \/ UNCHANGED vars
  BY <1>t, <1>1, <1>9, Others
<1>10. QED
  BY <1>4, <1>6, <1>7, <1>8, <1>9 DEF Next, Step

\* The calls are where they were, as far as their trees and branches go, but for
\* calls that have ended or go on to clean up.
Still(a) ==
  /\ Making(a)' => Making(a)
  /\ pc'[a] = "unbranch" => pc[a] = "unbranch"
  /\ pc'[a] # "idle" => Like(call[a], call'[a]) /\ call'[a].created = call[a].created

LEMMA Quiet ==
  ASSUME WorkInv, \A a \in Agents : Making(a)' \/ pc'[a] = "unbranch" => Still(a),
         UNCHANGED <<tree, branches, ahead, ready>>, crossed => crossed'
  PROVE  WorkInv'
<1>1. \A a \in Agents : pc'[a] = "idle" => ~Making(a)' /\ pc'[a] # "unbranch"
  BY DEF Making
<1>2. QED BY <1>1 DEF WorkInv, Trees, Own, Fresh, Still, Making, Like

\* The tree of a path goes, while no creation counts on it.
LEMMA TreeGoes ==
  ASSUME TypeOK, WorkInv, CallsInv, NEW p \in Paths, Gone(p), UNCHANGED <<branches, ahead>>,
         crossed => crossed',
         ~crossed' => \A a \in Agents : /\ Making(a)' => Making(a) /\ call[a].path # p
                                        /\ pc'[a] = "unbranch" => Fresh(a)',
         \A a \in Agents : Making(a)' => Like(call[a], call'[a]) /\ call'[a].created = call[a].created
  PROVE  WorkInv'
<1>1. /\ tree'[p] = NoTree /\ NoTree.kind = "absent" /\ NoTree.branch = NoBranch
      /\ \A q \in Paths \ {p} : tree'[q] = tree[q]
      /\ ready' = ready \ {p}
  BY DEF Gone, NoTree, TypeOK, GitType
<1>2. Trees'
  BY <1>1 DEF WorkInv, Trees, TypeOK, GitType
<1>3. ASSUME ~crossed', NEW a \in Agents PROVE Own(a)' /\ Fresh(a)'
  <2>1. CASE Making(a)'
    <3>1. /\ Making(a) /\ call[a].path # p /\ call[a].path \in Paths /\ Own(a) /\ Fresh(a)
          /\ call'[a].path = call[a].path /\ call'[a].branch = call[a].branch
          /\ call'[a].created = call[a].created
      BY <1>3, <2>1 DEF WorkInv, TypeOK, CallType, Call, Like
    <3>2. \A o \in Agents : Making(o)' => Making(o) /\ call'[o].path = call[o].path
      BY <1>3 DEF Like
    <3>3. Own(a)'
      BY <1>1, <3>1, <3>2 DEF Own
    <3>4. Fresh(a)'
      BY <2>1, <3>1 DEF Fresh, Making
    <3>5. QED BY <3>3, <3>4
  <2>2. CASE ~Making(a)'
    BY <1>3, <2>2 DEF Own, Fresh
  <2>3. QED BY <2>1, <2>2
<1>4. QED BY <1>2, <1>3 DEF WorkInv

\* git worktree add makes the tree of a path that has none, of a branch that no
\* tree has, and a new one if the call says so.
LEMMA AddWorks ==
  ASSUME TypeOK, CallsInv, WorkInv, NEW a \in Agents, Add(a)
  PROVE  WorkInv'
<1> DEFINE p == call[a].path
           b == call[a].branch
<1>1. /\ p \in Paths /\ pc'[a] = "inspect" /\ call' = call /\ b # NoBranch
      /\ \A o \in Agents \ {a} : pc'[o] = pc[o]
      /\ \A o \in Agents : call[o].branch # NoBranch \/ pc[o] \notin Creating
  BY DEF Add, Goto, TypeOK, CallType, Call, CallsInv, Named, Creating
<1>2. /\ tree[p].kind = "absent" /\ \A q \in Paths : tree[q].branch # b
      /\ call[a].created => b \notin branches
  BY DEF Add, Addable
<1>3. /\ tree'[p].kind = "live" /\ tree'[p].branch = b
      /\ \A q \in Paths \ {p} : tree'[q] = tree[q]
      /\ branches' = branches \cup {b} /\ ready' = ready /\ ahead' = ahead
      /\ \A o \in Agents \ {a} : pc[o] = "unbranch" /\ call[o].branch = b => crossed'
      /\ crossed => crossed'
  BY <1>1 DEF Add, TypeOK, GitType
<1> HIDE DEF p, b
<1>4. Trees /\ p \notin ready
  BY <1>2 DEF WorkInv, Trees
<1>5. Trees'
  BY <1>1, <1>2, <1>3, <1>4 DEF Trees, TypeOK, GitType
<1>6. ASSUME ~crossed', NEW o \in Agents PROVE Own(o)' /\ Fresh(o)'
  <2>1. \A x \in Agents : Own(x) /\ Fresh(x)
    BY <1>3, <1>6 DEF WorkInv
  <2>2. \A x \in Agents \ {a} : Making(x) => call[x].path # p /\ call[x].path \in Paths
    BY <1>1, <1>2, <1>4, <2>1 DEF Own, Trees, Making, Creating, TypeOK, CallType, Call
  <2>3. CASE o = a
    BY <1>1, <1>2, <1>3, <1>4, <2>2, <2>3 DEF Own, Fresh, Making, p, b, Trees
  <2>4. CASE o # a
    <3>1. Own(o)'
      BY <1>1, <1>3, <2>1, <2>2, <2>4 DEF Own, Making, p
    <3>2. Fresh(o)'
      BY <1>1, <1>3, <1>6, <2>1, <2>4 DEF Fresh, Making
    <3>3. QED BY <3>1, <3>2
  <2>5. QED BY <2>3, <2>4
<1>7. QED BY <1>5, <1>6 DEF WorkInv

\* A clean tree is reported created; nobody else is making it.
LEMMA InspectWorks ==
  ASSUME TypeOK, WorkInv, NEW a \in Agents, Inspect(a)
  PROVE  WorkInv'
<1> DEFINE p == call[a].path
<1>0. /\ UNCHANGED <<tree, branches, ahead>> /\ crossed' = crossed /\ Making(a)
      /\ p \in Paths /\ CallType
  BY DEF Inspect, git, Making, TypeOK, CallType, Call
<1>1. CASE Goto(a, "cleanup") /\ UNCHANGED ready
  <2>1. \A o \in Agents : Making(o)' \/ pc'[o] = "unbranch" => Still(o)
    BY <1>0, <1>1 DEF Goto, Still, Making, Like, CallType
  <2>2. QED BY <1>0, <1>1, <2>1, Quiet
<1>2. CASE End(a) /\ ready' \in {ready, ready \cup {p}} /\ (ready' # ready => tree[p].kind = "live")
  <2>1. /\ pc'[a] = "idle"
        /\ \A o \in Agents \ {a} : pc'[o] = pc[o] /\ call'[o] = call[o]
    BY <1>0, <1>2 DEF End, CallType
  <2>2. Trees'
    BY <1>0, <1>2 DEF WorkInv, Trees
  <2>3. ASSUME ~crossed', NEW o \in Agents PROVE Own(o)' /\ Fresh(o)'
    <3>1. CASE o = a
      BY <2>1, <3>1 DEF Own, Fresh, Making
    <3>2. CASE o # a
      <4>1. Own(a) /\ Own(o) /\ Fresh(o)
        BY <1>0, <2>3 DEF WorkInv
      <4>2. Making(o) => call[o].path # p
        BY <1>0, <3>2, <4>1 DEF Own
      <4>3. \A x \in Agents : Making(x)' => Making(x) /\ call'[x] = call[x]
        BY <2>1 DEF Making
      <4>4. Own(o)'
        BY <1>0, <1>2, <2>1, <3>2, <4>1, <4>2, <4>3 DEF Own
      <4>5. Fresh(o)'
        BY <1>0, <2>1, <3>2, <4>1 DEF Fresh, Making
      <4>6. QED BY <4>4, <4>5
    <3>3. QED BY <3>1, <3>2
  <2>4. QED BY <2>2, <2>3 DEF WorkInv
<1>3. QED BY <1>1, <1>2 DEF Inspect

\* The tree of a creation that failed goes; its branch has no commits.
LEMMA CleanupWorks ==
  ASSUME TypeOK, CallsInv, WorkInv, NEW a \in Agents, Cleanup(a)
  PROVE  WorkInv'
<1> DEFINE p == call[a].path
<1>0. /\ UNCHANGED <<branches, ahead>> /\ crossed' = crossed /\ pc[a] = "cleanup" /\ Making(a)
      /\ p \in Paths /\ CallType /\ call[a].branch # NoBranch
  BY DEF Cleanup, Making, TypeOK, CallType, Call, CallsInv, Named, Creating
<1>1. /\ pc'[a] \in {"idle", "unbranch"} /\ (pc'[a] = "unbranch" => call[a].created /\ call'[a] = call[a])
      /\ \A o \in Agents \ {a} : pc'[o] = pc[o] /\ call'[o] = call[o]
  BY <1>0 DEF Cleanup, DropsBranch, Goto, End, CallType
<1>2. \A o \in Agents : Making(o)' => o # a /\ Making(o) /\ call'[o] = call[o]
  BY <1>1 DEF Making
<1>3. \A o \in Agents : Making(o)' => Like(call[o], call'[o]) /\ call'[o].created = call[o].created
  BY <1>0, <1>2 DEF Like, CallType
<1>4. CASE tree[p].kind = "live"
  <2>1. Gone(p)
    BY <1>4 DEF Cleanup
  <2>2. ASSUME ~crossed', NEW o \in Agents
        PROVE  /\ Making(o)' => Making(o) /\ call[o].path # p
               /\ pc'[o] = "unbranch" => Fresh(o)'
    <3>1. Own(a) /\ Own(o) /\ Fresh(a) /\ Fresh(o) /\ Trees
      BY <1>0, <2>2 DEF WorkInv
    <3>2. Making(o)' => Making(o) /\ call[o].path # p
      BY <1>0, <1>2, <3>1 DEF Own
    <3>3. ASSUME pc'[o] = "unbranch" PROVE Fresh(o)'
      <4>1. /\ tree'[p].branch = NoBranch /\ \A q \in Paths \ {p} : tree'[q] = tree[q]
        BY <1>0, <2>1 DEF Gone, NoTree, TypeOK, GitType
      <4>2. CASE o = a
        <5>1. /\ tree[p].branch = call[a].branch /\ call[a].branch \notin ahead /\ call'[a] = call[a]
          BY <1>0, <1>1, <3>1, <3>3, <4>2 DEF Own, Fresh
        <5>2. \A q \in Paths \ {p} : tree[q].branch # call[a].branch
          BY <1>0, <3>1, <5>1 DEF Trees
        <5>3. \A q \in Paths : tree'[q].branch # call[a].branch
          BY <1>0, <4>1, <5>2
        <5>4. QED BY <1>0, <3>3, <4>2, <5>1, <5>3 DEF Fresh, Making
      <4>3. CASE o # a
        <5>1. /\ pc[o] = "unbranch" /\ call'[o] = call[o] /\ call[o].branch # NoBranch
          BY <1>1, <3>3, <4>3 DEF CallsInv, Named, Creating
        <5>2. /\ call[o].branch \notin ahead
              /\ \A q \in Paths : tree'[q].branch # call[o].branch
          BY <3>1, <4>1, <5>1 DEF Fresh
        <5>3. QED BY <1>0, <3>3, <5>1, <5>2 DEF Fresh, Making
      <4>4. QED BY <4>2, <4>3
    <3>4. QED BY <3>2, <3>3
  <2>3. QED BY <1>0, <1>3, <2>1, <2>2, TreeGoes
<1>5. CASE tree[p].kind # "live"
  <2>1. UNCHANGED <<tree, ready>>
    BY <1>5 DEF Cleanup
  <2>2. crossed
    BY <1>0, <1>5 DEF WorkInv, Trees, Own
  <2>3. QED BY <1>0, <2>1, <2>2 DEF WorkInv, Trees
<1>6. QED BY <1>4, <1>5

\* git branch -D: the branch has no commits of a session.
LEMMA UnbranchWorks ==
  ASSUME TypeOK, WorkInv, NEW a \in Agents, Unbranch(a)
  PROVE  WorkInv'
<1>1. /\ UNCHANGED <<tree, ready>> /\ crossed' = crossed /\ pc'[a] = "idle"
      /\ \A o \in Agents \ {a} : pc'[o] = pc[o] /\ call'[o] = call[o]
      /\ ahead' \subseteq ahead
      /\ \/ UNCHANGED <<branches, ahead>>
         \/ \E b \in {call[a].branch} : /\ \A p \in Paths : tree[p].branch # b
                                        /\ branches' = branches \ {b} /\ ahead' = ahead \ {b}
  BY DEF Unbranch, End, TypeOK, CallType
<1>2. Trees'
  BY <1>1 DEF WorkInv, Trees
<1>3. ASSUME ~crossed', NEW o \in Agents PROVE Own(o)' /\ Fresh(o)'
  <2>1. CASE o = a
    BY <1>1, <2>1 DEF Own, Fresh, Making
  <2>2. CASE o # a
    <3>1. Own(o) /\ Fresh(o)
      BY <1>1, <1>3 DEF WorkInv
    <3>2. QED BY <1>1, <2>2, <3>1 DEF Own, Fresh, Making
  <2>3. QED BY <2>1, <2>2
<1>4. QED BY <1>2, <1>3 DEF WorkInv

\* git worktree remove, forced or not.
LEMMA RemoveWorks ==
  ASSUME TypeOK, CallsInv, WorkInv, NEW a \in Agents, GitRemove(a) \/ GitRemoveForced(a)
  PROVE  WorkInv'
<1> DEFINE p == call[a].path
<1>0. /\ UNCHANGED <<branches, ahead>> /\ (crossed => crossed') /\ p \in Paths /\ CallType
      /\ pc[a] \in {"remove", "retry"} /\ pc'[a] \in {"idle", "retry"}
      /\ \A o \in Agents \ {a} : pc'[o] = pc[o] /\ call'[o] = call[o]
  <2>1. p \in Paths /\ CallType
    BY DEF TypeOK, CallType, Call
  <2>2. UNCHANGED <<branches, ahead>>
    BY DEF GitRemove, GitRemoveForced
  <2>3. crossed => crossed'
    BY StepCrossed DEF Next, Step
  <2>4. /\ pc[a] \in {"remove", "retry"}
        /\ \/ pc' = [pc EXCEPT ![a] = "idle"] /\ call' = [call EXCEPT ![a] = NoCall]
           \/ pc' = [pc EXCEPT ![a] = "retry"] /\ call' = call
    BY DEF GitRemove, GitRemoveForced, Goto, End
  <2>5. QED BY <2>1, <2>2, <2>3, <2>4 DEF CallType
<1>1. \A o \in Agents : Making(o)' \/ pc'[o] = "unbranch" => Still(o)
  BY <1>0 DEF Making, Still, Like, CallType
<1>2. CASE UNCHANGED <<tree, ready>>
  BY <1>0, <1>1, <1>2, Quiet
<1>3. CASE Gone(p) /\ (crossed' \/ p \in ready)
  <2>1. ASSUME ~crossed', NEW o \in Agents
        PROVE  /\ Making(o)' => Making(o) /\ call[o].path # p
               /\ pc'[o] = "unbranch" => Fresh(o)'
    <3>1. Own(o) /\ Fresh(o) /\ p \in ready
      BY <1>0, <1>3, <2>1 DEF WorkInv
    <3>2. Making(o)' => Making(o) /\ call[o].path # p
      BY <1>1, <3>1 DEF Own, Still
    <3>3. ASSUME pc'[o] = "unbranch" PROVE Fresh(o)'
      <4>1. tree'[p].branch = NoBranch /\ \A q \in Paths \ {p} : tree'[q] = tree[q]
        BY <1>0, <1>3 DEF Gone, NoTree, TypeOK, GitType
      <4>2. pc[o] = "unbranch" /\ call'[o] = call[o] /\ call[o].branch # NoBranch
        BY <1>0, <3>3 DEF CallsInv, Named, Creating
      <4>3. call[o].branch \notin ahead /\ \A q \in Paths : tree'[q].branch # call[o].branch
        BY <3>1, <4>1, <4>2 DEF Fresh
      <4>4. QED BY <1>0, <3>3, <4>2, <4>3 DEF Fresh, Making
    <3>4. QED BY <3>2, <3>3
  <2>2. \A o \in Agents : Making(o)' => Like(call[o], call'[o]) /\ call'[o].created = call[o].created
    BY <1>1 DEF Still, Making
  <2>3. QED BY <1>0, <1>3, <2>1, <2>2, TreeGoes
<1>4. CASE GitRemove(a)
  BY <1>2, <1>3, <1>4 DEF GitRemove
<1>5. CASE GitRemoveForced(a)
  <2>1. crossed
    BY <1>5 DEF GitRemoveForced, CallsInv, Forced, Passed
  <2>2. QED BY <1>0, <1>2, <1>3, <1>5, <2>1 DEF GitRemoveForced
<1>6. QED BY <1>4, <1>5

\* A commit goes to the branch of a tree that a session works in.
LEMMA CommitWorks ==
  ASSUME TypeOK, CallsInv, WorkInv, NEW p \in Paths, Commit(p)
  PROVE  WorkInv'
<1>1. /\ UNCHANGED <<tree, branches, pc, call, ready, crossed>> /\ p \in ready
      /\ ahead' = ahead \cup {tree[p].branch}
  BY DEF Commit
<1>2. tree[p].kind = "live" /\ tree[p].branch \in branches /\ tree[p].branch # NoBranch
  BY <1>1 DEF WorkInv, Trees
<1>3. Trees'
  BY <1>1, <1>2 DEF WorkInv, Trees
<1>4. ASSUME ~crossed', NEW o \in Agents PROVE Own(o)' /\ Fresh(o)'
  <2>1. Own(o) /\ Fresh(o) /\ Trees /\ call[o].path \in Paths
    BY <1>1, <1>4 DEF WorkInv, TypeOK, CallType, Call
  <2>2. Own(o)'
    BY <1>1, <2>1 DEF Own, Making
  <2>3. Making(o) => call[o].branch # tree[p].branch
    BY <1>1, <1>2, <2>1 DEF Own, Trees
  <2>4. Fresh(o)'
    BY <1>1, <2>1, <2>3 DEF Fresh, Making
  <2>5. QED BY <2>2, <2>4
<1>5. QED BY <1>3, <1>4 DEF WorkInv

LEMMA StepWork ==
  ASSUME TypeOK, CallsInv, WorkInv, [Next]_vars
  PROVE  WorkInv'
<1>t. CallType /\ NoCall \in Call /\ (\A a \in Agents : call[a] \in Call) /\ (crossed => crossed')
  BY NoCallType, StepCrossed DEF TypeOK, CallType
<1>1. ASSUME NEW a \in Agents, NEW l \in Label \ {"inspect", "cleanup", "unbranch"}, NEW r \in Call,
             Turn(a, l, r), UNCHANGED <<tree, branches, ahead, ready>>
      PROVE  WorkInv'
  <2>1. \A o \in Agents : Making(o)' \/ pc'[o] = "unbranch" => Still(o)
    BY <1>t, <1>1, Turns DEF Making, Still, Like
  <2>2. QED BY <1>t, <1>1, <2>1, Quiet
<1>2. ASSUME NEW a \in Agents, Verify(a) \/ Target(a) \/ Branch(a) \/ AddFails(a) \/ CheckClaims(a)
                                 \/ CheckMarker(a) \/ CheckStatus(a)
      PROVE  WorkInv'
  <2>1. UNCHANGED <<tree, branches, ahead, ready>>
    BY <1>2 DEF Verify, Target, Branch, AddFails, CheckClaims, CheckMarker, CheckStatus, Check, git
  <2>2. \A o \in Agents \ {a} : pc'[o] = pc[o] /\ call'[o] = call[o]
    BY <1>t, <1>2 DEF Verify, Target, Branch, AddFails, CheckClaims, CheckMarker, CheckStatus, Check, Goto,
                      End, CallType
  <2>3. pc'[a] \notin {"inspect", "cleanup", "unbranch"}
    BY <1>t, <1>2 DEF Verify, Target, Branch, AddFails, CheckClaims, CheckMarker, CheckStatus, Check, Goto,
                      End, CallType
  <2>4. \A o \in Agents : Making(o)' \/ pc'[o] = "unbranch" => Still(o)
    BY <1>t, <2>2, <2>3 DEF Making, Still, Like
  <2>5. QED BY <1>t, <2>1, <2>4, Quiet
<1>3. ASSUME NEW a \in Agents, NEW p \in Paths,
             (\E b \in Branches : Create(a, p, b)) \/ \E f \in BOOLEAN : Remove(a, p, f)
      PROVE  WorkInv'
  <2>1. PICK l \in {"target", "verify", "claims"}, r \in Call : Turn(a, l, r)
    BY <1>t, <1>3, Begins
  <2>2. UNCHANGED <<tree, branches, ahead, ready>>
    BY <1>3 DEF Create, Remove, git
  <2>3. QED BY <1>1, <2>1, <2>2 DEF Label
<1>4. CASE \/ \E p \in Paths : Edit(p) \/ MarkerAges(p) \/ TearLegacy(p) \/ WriteLegacy(p)
           \/ \E c \in Claim : MakeClaim(c) \/ EndClaim(c)
           \/ UNCHANGED vars
  <2>1. UNCHANGED <<tree, branches, ahead, ready>>
    BY <1>4 DEF Edit, MarkerAges, TearLegacy, WriteLegacy, MakeClaim, EndClaim, git, vars
  <2>2. \A o \in Agents : Still(o)
    BY <1>t, <1>4, Others DEF Still, Making
  <2>3. QED BY <1>t, <2>1, <2>2, Quiet
<1>5. QED
  BY <1>2, <1>3, <1>4, AddWorks, InspectWorks, CleanupWorks, UnbranchWorks, RemoveWorks, CommitWorks
  DEF Next, Step

\* What a step takes from the sessions: none of their trees with changes, none of
\* their commits.
LEMMA StepKeeps ==
  ASSUME TypeOK, CallsInv, WorkInv, [Next]_vars, ~crossed'
  PROVE  /\ \A p \in ready \cap dirty : tree'[p].kind = "live"
         /\ ahead \subseteq branches'
<1>t. ~crossed /\ Trees /\ (\A a \in Agents : Own(a) /\ Fresh(a)) /\ CallType /\ GitType
  BY StepCrossed DEF TypeOK, WorkInv
<1>l. (\A p \in ready \cap dirty : tree[p].kind = "live") /\ ahead \subseteq branches
  BY <1>t DEF Trees
<1>1. ASSUME branches \subseteq branches', NEW q \in Paths \ (ready \cap dirty),
             \A p \in Paths \ {q} : tree'[p] = tree[p]
      PROVE  (\A p \in ready \cap dirty : tree'[p].kind = "live") /\ ahead \subseteq branches'
  BY <1>t, <1>l, <1>1 DEF GitType
<1>2. ASSUME branches \subseteq branches', tree' = tree
      PROVE  (\A p \in ready \cap dirty : tree'[p].kind = "live") /\ ahead \subseteq branches'
  BY <1>l, <1>2
<1>3. ASSUME NEW a \in Agents, Add(a)
      PROVE  (\A p \in ready \cap dirty : tree'[p].kind = "live") /\ ahead \subseteq branches'
  <2>1. call[a].path \in Paths \ ready
    BY <1>t, <1>3 DEF Add, Addable, Trees, CallType, Call
  <2>2. branches \subseteq branches' /\ \A p \in Paths \ {call[a].path} : tree'[p] = tree[p]
    BY <1>t, <1>3 DEF Add, GitType
  <2>3. QED BY <1>1, <2>1, <2>2
<1>4. ASSUME NEW a \in Agents, Cleanup(a)
      PROVE  (\A p \in ready \cap dirty : tree'[p].kind = "live") /\ ahead \subseteq branches'
  <2>1. call[a].path \in Paths \ ready
    BY <1>t, <1>4 DEF Cleanup, Own, Making, CallType, Call
  <2>2. branches' = branches /\ \A p \in Paths \ {call[a].path} : tree'[p] = tree[p]
    BY <1>t, <1>4 DEF Cleanup, Gone, GitType
  <2>3. QED BY <1>1, <2>1, <2>2
<1>5. ASSUME NEW a \in Agents, Unbranch(a)
      PROVE  (\A p \in ready \cap dirty : tree'[p].kind = "live") /\ ahead \subseteq branches'
  <2>1. call[a].branch \notin ahead
    BY <1>t, <1>5 DEF Unbranch, Fresh
  <2>2. tree' = tree /\ branches \ {call[a].branch} \subseteq branches'
    BY <1>5 DEF Unbranch
  <2>3. QED BY <1>l, <2>1, <2>2
<1>6. ASSUME NEW a \in Agents, GitRemove(a)
      PROVE  (\A p \in ready \cap dirty : tree'[p].kind = "live") /\ ahead \subseteq branches'
  <2>1. branches' = branches /\ call[a].path \in Paths
    BY <1>t, <1>6 DEF GitRemove, CallType, Call
  <2>2. CASE call[a].path \notin dirty /\ Gone(call[a].path)
    <3>1. \A p \in Paths \ {call[a].path} : tree'[p] = tree[p]
      BY <1>t, <2>2 DEF Gone, GitType
    <3>2. QED BY <1>1, <2>1, <2>2, <3>1
  <2>3. CASE tree' = tree
    BY <1>2, <2>1, <2>3
  <2>4. QED BY <1>6, <2>2, <2>3 DEF GitRemove
<1>7. ASSUME NEW a \in Agents PROVE ~GitRemoveForced(a)
  BY <1>t DEF GitRemoveForced, CallsInv, Forced, Passed
<1>8. ASSUME NEW a \in Agents, Verify(a) \/ Target(a) \/ Branch(a) \/ AddFails(a) \/ Inspect(a)
                                 \/ CheckClaims(a) \/ CheckMarker(a) \/ CheckStatus(a)
      PROVE  (\A p \in ready \cap dirty : tree'[p].kind = "live") /\ ahead \subseteq branches'
  BY <1>2, <1>8 DEF Verify, Target, Branch, AddFails, Inspect, CheckClaims, CheckMarker, CheckStatus,
                    Check, git
<1>9. ASSUME NEW a \in Agents, NEW p \in Paths,
             (\E b \in Branches : Create(a, p, b)) \/ \E f \in BOOLEAN : Remove(a, p, f)
      PROVE  branches' = branches /\ tree' = tree
  BY <1>9 DEF Create, Remove, git
<1>10. CASE \/ \E p \in Paths : Edit(p) \/ Commit(p) \/ MarkerAges(p) \/ TearLegacy(p) \/ WriteLegacy(p)
            \/ \E c \in Claim : MakeClaim(c) \/ EndClaim(c)
            \/ UNCHANGED vars
  BY <1>2, <1>10 DEF Edit, Commit, MarkerAges, TearLegacy, WriteLegacy, MakeClaim, EndClaim, git, vars
<1>11. QED
  BY <1>2, <1>3, <1>4, <1>5, <1>6, <1>7, <1>8, <1>9, <1>10 DEF Next, Step

-----------------------------------------------------------------------------
(* Theorems. *)

LEMMA InitInv == Init => Inv
<1> SUFFICES ASSUME Init PROVE Inv
  OBVIOUS
<1>1. TypeOK
  BY InitTypes
<1>2. ClaimsInv /\ ClaimsSeparateAgents /\ CallsInv
  BY NoCallType DEF Init, ClaimsInv, ClaimsSeparateAgents, CallsInv, Standing, Unclaimed, Forced, Named,
                    Passed, Creating
<1>3. WorkInv
  <2>1. Trees
    BY TreeTypes DEF Init, Trees
  <2>2. \A a \in Agents : Own(a) /\ Fresh(a)
    BY DEF Init, Own, Fresh, Making
  <2>3. QED BY <2>1, <2>2 DEF WorkInv
<1>4. QED BY <1>1, <1>2, <1>3 DEF Inv

LEMMA StepInv == Inv /\ [Next]_vars => Inv'
BY StepTypes, StepClaims, StepApart, StepCallsInv, StepWork DEF Inv

\* The invariant of the two scripts, of git and of both stores of claims.
THEOREM Invariance == Spec => []Inv
BY InitInv, StepInv, PTL DEF Spec

\* verify_scoped_write_claim(): of two agents that are creating worktrees for one
\* area, the first lost its claims of the area before the second passed.
THEOREM ClaimsKeepAgentsApart == Spec => []ClaimsSeparateAgents
<1>1. Inv => ClaimsSeparateAgents
  BY DEF Inv
<1>2. QED BY <1>1, Invariance, PTL

\* check_worktree_claimed(): a claim of the worktree that stood, in a readable
\* store, since before the check stops its removal.
THEOREM ClaimsStopRemovals == Spec => ClaimsStopRemoval
<1>1. Inv /\ [Next]_vars =>
        \A a \in Agents :
          pc[a] = "remove" /\ tree[call[a].path].kind = "live" /\ tree'[call[a].path].kind = "absent"
            /\ ~call[a].force /\ ~call[a].unseen => ~WorktreeClaimed(call[a].path)
  BY DEF Inv, ClaimsInv, Unclaimed, WorktreeClaimed, Passed
<1>2. QED BY <1>1, Invariance, PTL DEF Spec, ClaimsStopRemoval

\* create_worktree() and remove_worktree(): calls that do not cross lose neither
\* the uncommitted changes nor the commits of a session.
THEOREM NoWorkIsLost == Spec => WorkKept
<1>1. Inv /\ [Next]_vars => (~crossed' => /\ \A p \in ready \cap dirty : tree'[p].kind = "live"
                                          /\ ahead \subseteq branches')
  BY StepKeeps DEF Inv
<1>2. QED BY <1>1, Invariance, PTL DEF Spec, WorkKept

=============================================================================
