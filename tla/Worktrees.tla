------------------------------ MODULE Worktrees ------------------------------
(***************************************************************************)
(* create_worktree.py and safe_worktree_remove.py.  Agents make and remove *)
(* git worktrees of one repository; a call checks the coordination claims, *)
(* the session marker and the state of the tree one after the other, and   *)
(* then runs git.  Git itself, the claims store and the editor hook that   *)
(* refreshes the marker are external: they are modelled by what the two    *)
(* scripts rely on.  A step is one git command or one check.               *)
(***************************************************************************)
EXTENDS Integers, FiniteSets

CONSTANTS Agents, Paths, Branches,
          NoBranch,            \* of a claim that names none; of a path without a tree
          Areas,               \* write paths: areas overlap when they are equal
          MaxCalls, MaxClaims  \* bounds: calls, claims made

ASSUME WorktreesAssumption ==
  NoBranch \notin Branches /\ Paths # {} /\ Areas # {} /\ MaxCalls \in Nat /\ MaxClaims \in Nat

VARIABLES tree,      \* what each path holds, and the branch it has checked out
          dirty,     \* paths whose tree has uncommitted changes
          marker,    \* paths whose session marker is less than 24 h old
          branches, ahead,  \* branches, and those with commits of a session
          claims,    \* active claims of the coordination store (claim_v2)
          legacy,    \* active-work.yaml: the worktrees its claims name, and whether it is whole
          pc, call,
          ready,     \* paths of trees that were reported created: a session works there
          calls, made,
          crossed    \* ghost: a removal was forced, or took the tree that a call
                     \* was creating, or a call took up a branch being cleaned up

git  == <<tree, dirty, marker, branches, ahead>>
vars == <<git, claims, legacy, pc, call, ready, calls, made, crossed>>

\* A path is "absent" when it holds no file, else it holds "files" or a "live" tree.
NoTree == [kind |-> "absent", branch |-> NoBranch]
Claim == [agent : Agents, area : Areas, branch : Branches \cup {NoBranch}, path : Paths, weak : BOOLEAN]

\* A call: --claim-write-path has an area, `created' is created_branch.  Ghosts:
\* `unseen', a claim of the path came, or was unreadable, after its check;
\* `stands', the agent's claims of the area have not all ended since theirs.
NoCall == [path |-> CHOOSE p \in Paths : TRUE, branch |-> NoBranch, area |-> CHOOSE x \in Areas : TRUE,
           force |-> FALSE, created |-> FALSE, unseen |-> FALSE, stands |-> FALSE]

Init ==
  /\ tree \in [Paths -> {NoTree, [NoTree EXCEPT !.kind = "files"]}]
  /\ dirty = {} /\ marker = {}
  /\ branches \in SUBSET Branches /\ ahead = branches
  /\ claims = {} /\ legacy = [whole |-> TRUE, paths |-> {}]
  /\ pc = [a \in Agents |-> "idle"] /\ call = [a \in Agents |-> NoCall]
  /\ ready = {} /\ calls = 0 /\ made = 0 /\ crossed = FALSE

Goto(a, l) == pc' = [pc EXCEPT ![a] = l] /\ UNCHANGED call
End(a)     == pc' = [pc EXCEPT ![a] = "idle"] /\ call' = [call EXCEPT ![a] = NoCall]

\* The check leads to the next one, or ends the call with a refusal.
Check(a, from, to, ok) ==
  /\ pc[a] = from
  /\ IF ok THEN Goto(a, to) ELSE End(a)
  /\ UNCHANGED <<git, claims, legacy, ready, calls, made, crossed>>

-----------------------------------------------------------------------------
(* create_worktree() *)

\* With --require-write-claim the claims are verified first.
Create(a, p, b) ==
  /\ pc[a] = "idle" /\ calls < MaxCalls
  /\ calls' = calls + 1
  /\ \/ /\ pc' = [pc EXCEPT ![a] = "target"]
        /\ call' = [call EXCEPT ![a] = [NoCall EXCEPT !.path = p, !.branch = b]]
     \/ /\ pc' = [pc EXCEPT ![a] = "verify"]
        /\ \E x \in Areas :
             call' = [call EXCEPT ![a] = [NoCall EXCEPT !.path = p, !.branch = b, !.area = x]]
  /\ UNCHANGED <<git, claims, legacy, ready, made, crossed>>

\* Mutated form: only the agent's own claims are looked at.
HoldsClaim(a, r) == \E c \in claims : c.agent = a /\ c.area = r.area /\ c.branch \in {NoBranch, r.branch}

\* verify_scoped_write_claim(): the agent has claims that cover the area, none of
\* them weak, and no claim of another agent overlaps.
ClaimVerified(a, r) ==
  LET matching == {c \in claims : c.agent = a /\ c.area = r.area /\ c.branch \in {NoBranch, r.branch}}
  IN /\ matching # {}
     /\ \A c \in matching : ~c.weak
     /\ \A c \in claims : c.agent # a => c.area # r.area

Verify(a) ==
  /\ pc[a] = "verify"
  /\ IF ClaimVerified(a, call[a])
     THEN pc' = [pc EXCEPT ![a] = "target"] /\ call' = [call EXCEPT ![a].stands = TRUE]
     ELSE End(a)
  /\ UNCHANGED <<git, claims, legacy, ready, calls, made, crossed>>

\* verify_clean_main_root() may refuse, then ensure_safe_target_path() does.
Target(a) == \E clean \in BOOLEAN :
               Check(a, "target", "branch", clean /\ tree[call[a].path].kind = "absent")

\* branch_exists(); an existing branch allows no --start-point.
Branch(a) ==
  LET r == call[a] IN
  /\ pc[a] = "branch"
  /\ \/ r.branch \in branches /\ End(a)
     \/ /\ pc' = [pc EXCEPT ![a] = "add"]
        /\ call' = [call EXCEPT ![a].created = r.branch \notin branches]
  /\ UNCHANGED <<git, claims, legacy, ready, calls, made, crossed>>

\* git worktree add refuses a path in use, a branch that is checked out, a new
\* branch that exists and an old one that does not.
Addable(r) ==
  /\ tree[r.path].kind = "absent"
  /\ r.created <=> r.branch \notin branches
  /\ \A p \in Paths : tree[p].branch # r.branch

\* A hook of the checkout may leave the new tree dirty.
Add(a) ==
  LET r == call[a] IN
  /\ pc[a] = "add" /\ Addable(r)
  /\ tree' = [tree EXCEPT ![r.path] = [kind |-> "live", branch |-> r.branch]]
  /\ dirty' = dirty \/ dirty' = dirty \cup {r.path}
  /\ branches' = branches \cup {r.branch}
  /\ crossed' = (crossed \/ \E o \in Agents \ {a} :
                   pc[o] \in {"cleanup", "unbranch"} /\ call[o].branch = r.branch)
  /\ Goto(a, "inspect")
  /\ UNCHANGED <<marker, ahead, claims, legacy, ready, calls, made>>

AddFails(a) == ~Addable(call[a]) /\ Check(a, "add", "idle", FALSE)

\* inspect_worktree_state(): a clean tree is reported created, another is cleaned
\* up unless --keep-failed-worktree; a status that fails raises, and leaves the tree.
Inspect(a) ==
  LET r == call[a]  live == tree[r.path].kind = "live" IN
  /\ pc[a] = "inspect"
  /\ \/ live /\ r.path \notin dirty /\ End(a) /\ ready' = ready \cup {r.path}
     \/ live /\ r.path \in dirty /\ Goto(a, "cleanup") /\ UNCHANGED ready
     \/ (~live \/ r.path \in dirty) /\ End(a) /\ UNCHANGED ready
  /\ UNCHANGED <<git, claims, legacy, calls, made, crossed>>

Gone(p) ==
  /\ tree' = [tree EXCEPT ![p] = NoTree]
  /\ dirty' = dirty \ {p} /\ marker' = marker \ {p} /\ ready' = ready \ {p}

\* Mutated form: the branch goes whether the call created it or not.
DropsAnyBranch(r) == TRUE

DropsBranch(r) == r.created

\* cleanup_failed_worktree(): git worktree remove --force; a path that is gone
\* already does not stop it...
Cleanup(a) ==
  LET r == call[a] IN
  /\ pc[a] = "cleanup"
  /\ IF tree[r.path].kind = "live" THEN Gone(r.path) ELSE UNCHANGED <<tree, dirty, marker, ready>>
  /\ IF DropsBranch(r) THEN Goto(a, "unbranch") ELSE End(a)
  /\ UNCHANGED <<branches, ahead, claims, legacy, calls, made, crossed>>

\* ...git branch -D, which refuses a branch that is checked out.
Unbranch(a) ==
  LET b == call[a].branch IN
  /\ pc[a] = "unbranch"
  /\ IF \A p \in Paths : tree[p].branch # b
     THEN branches' = branches \ {b} /\ ahead' = ahead \ {b}
     ELSE UNCHANGED <<branches, ahead>>
  /\ End(a)
  /\ UNCHANGED <<tree, dirty, marker, claims, legacy, ready, calls, made, crossed>>

-----------------------------------------------------------------------------
(* remove_worktree() *)

Remove(a, p, force) ==
  /\ pc[a] = "idle" /\ calls < MaxCalls /\ tree[p].kind # "absent"
  /\ calls' = calls + 1
  /\ call' = [call EXCEPT ![a] = [NoCall EXCEPT !.path = p, !.force = force]]
  /\ pc' = [pc EXCEPT ![a] = "claims"]
  /\ crossed' = (crossed \/ force)
  /\ UNCHANGED <<git, claims, legacy, ready, made>>

\* check_worktree_claimed(): the store first, then active-work.yaml; a text that
\* does not parse, or is being written, has no claims.
WorktreeClaimed(p) == (\E c \in claims : c.path = p) \/ (legacy.whole /\ p \in legacy.paths)

\* Mutated form: the coordination store is not asked.
BlockedByFile(r) == legacy.whole /\ r.path \in legacy.paths /\ ~r.force

Blocked(r) == WorktreeClaimed(r.path) /\ ~r.force

CheckClaims(a) ==
  LET r == call[a] IN
  /\ pc[a] = "claims"
  /\ IF Blocked(r) THEN End(a)
     ELSE /\ pc' = [pc EXCEPT ![a] = "marker"]
          /\ call' = [call EXCEPT ![a].unseen = ~legacy.whole]
  /\ UNCHANGED <<git, claims, legacy, ready, calls, made, crossed>>

CheckMarker(a) ==
  Check(a, "marker", "status", call[a].force \/ call[a].path \notin marker)

\* has_uncommitted_changes(): a status that fails counts as clean.
CheckStatus(a) ==
  \E fails \in BOOLEAN :
    Check(a, "status", "remove", call[a].force \/ fails \/ call[a].path \notin dirty)

Retries(r) == r.force

\* git worktree remove refuses a tree with uncommitted changes.
GitRemove(a) ==
  LET p == call[a].path IN
  /\ pc[a] = "remove"
  /\ \/ /\ tree[p].kind = "live" /\ p \notin dirty
        /\ Gone(p) /\ End(a)
        /\ crossed' = (crossed \/ p \notin ready)
     \/ /\ tree[p].kind # "live" \/ p \in dirty
        /\ IF Retries(call[a]) THEN Goto(a, "retry") ELSE End(a)
        /\ UNCHANGED <<tree, dirty, marker, ready, crossed>>
  /\ UNCHANGED <<branches, ahead, claims, legacy, calls, made>>

GitRemoveForced(a) ==
  LET p == call[a].path IN
  /\ pc[a] = "retry"
  /\ IF tree[p].kind = "live" THEN Gone(p) ELSE UNCHANGED <<tree, dirty, marker, ready>>
  /\ End(a)
  /\ UNCHANGED <<branches, ahead, claims, legacy, calls, made, crossed>>

-----------------------------------------------------------------------------
(* The sessions, and the two stores of claims *)

\* A session edits; the hook refreshes the marker.
Edit(p) ==
  /\ p \in ready /\ p \notin dirty
  /\ dirty' = dirty \cup {p} /\ marker' = marker \cup {p}
  /\ UNCHANGED <<tree, branches, ahead, claims, legacy, pc, call, ready, calls, made, crossed>>

Commit(p) ==
  /\ p \in ready \cap dirty
  /\ dirty' = dirty \ {p} /\ ahead' = ahead \cup {tree[p].branch}
  /\ UNCHANGED <<tree, marker, branches, claims, legacy, pc, call, ready, calls, made, crossed>>

MarkerAges(p) ==
  /\ p \in marker
  /\ marker' = marker \ {p}
  /\ UNCHANGED <<tree, dirty, branches, ahead, claims, legacy, pc, call, ready, calls, made, crossed>>

\* The ghost of every removal under way that has passed its check of claims.
Unseen(p) == call' = [a \in Agents |->
  IF pc[a] \in {"marker", "status", "remove", "retry"} /\ call[a].path = p
  THEN [call[a] EXCEPT !.unseen = TRUE] ELSE call[a]]

MakeClaim(c) ==
  /\ made < MaxClaims /\ c \notin claims
  /\ claims' = claims \cup {c} /\ made' = made + 1
  /\ Unseen(c.path)
  /\ UNCHANGED <<git, legacy, pc, ready, calls, crossed>>

EndClaim(c) ==
  /\ c \in claims
  /\ claims' = claims \ {c}
  /\ call' = [call EXCEPT ![c.agent].stands =
                @ /\ \E d \in claims \ {c} : d.agent = c.agent /\ d.area = call[c.agent].area]
  /\ UNCHANGED <<git, legacy, pc, ready, calls, made, crossed>>

\* add_claim(worktree_path=...) truncates and writes active-work.yaml.
TearLegacy(p) ==
  /\ legacy.whole /\ made < MaxClaims
  /\ legacy' = [legacy EXCEPT !.whole = FALSE] /\ made' = made + 1
  /\ Unseen(p)
  /\ UNCHANGED <<git, claims, pc, ready, calls, crossed>>

WriteLegacy(p) ==
  /\ ~legacy.whole
  /\ legacy' = [whole |-> TRUE, paths |-> legacy.paths \cup {p}]
  /\ Unseen(p)
  /\ UNCHANGED <<git, claims, pc, ready, calls, made, crossed>>

Step(a) == \/ Verify(a) \/ Target(a) \/ Branch(a) \/ Add(a) \/ AddFails(a) \/ Inspect(a)
           \/ Cleanup(a) \/ Unbranch(a) \/ CheckClaims(a) \/ CheckMarker(a) \/ CheckStatus(a)
           \/ GitRemove(a) \/ GitRemoveForced(a)

Next ==
  \/ \E a \in Agents : \/ Step(a)
                       \/ \E p \in Paths, b \in Branches : Create(a, p, b)
                       \/ \E p \in Paths, force \in BOOLEAN : Remove(a, p, force)
  \/ \E p \in Paths : Edit(p) \/ Commit(p) \/ MarkerAges(p) \/ TearLegacy(p) \/ WriteLegacy(p)
  \/ \E c \in Claim : MakeClaim(c) \/ EndClaim(c)

Spec == Init /\ [][Next]_vars

-----------------------------------------------------------------------------
(* Properties. *)

\* A session loses neither its uncommitted changes nor its commits to the creations
\* that fail and the removals that run beside it, unless a removal was forced,
\* or calls crossed on one path or branch.
WorkKept ==
  [][~crossed' =>
      /\ \A p \in ready \cap dirty : tree'[p].kind = "live"
      /\ ahead \subseteq branches']_vars

\* A removal that is not crossed respects the claims it could see: a claim of the
\* worktree that stood, in a readable store, since before the check stops it.
ClaimsStopRemoval ==
  [][\A a \in Agents :
      pc[a] = "remove" /\ tree[call[a].path].kind = "live" /\ tree'[call[a].path].kind = "absent"
        /\ ~call[a].force /\ ~call[a].unseen => ~WorktreeClaimed(call[a].path)]_vars

\* Scoped write claims keep agents apart: of two agents that are creating worktrees
\* for one area, the first lost its claims of the area before the second passed.
ClaimsSeparateAgents ==
  \A a, b \in Agents : call[a].stands /\ call[b].stands /\ call[a].area = call[b].area => a = b

=============================================================================
