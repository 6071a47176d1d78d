------------------------------ MODULE ClaimsFile ------------------------------
(***************************************************************************)
(* check_claims.py: agents claim plans and features in one YAML file.      *)
(* Every invocation of the script loads the whole file once, decides, and  *)
(* may truncate the file and write its list; nothing locks it.  A session  *)
(* file per agent tells whether the owner of a claim is still active.  An  *)
(* agent runs the script from its shell and, at the same time, from the    *)
(* hooks of its editor.  A step is one file access and what follows it:    *)
(* the text of the file fits the buffer of its stream, 8 KiB, and is       *)
(* written at once when the file is closed.                                *)
(*                                                                         *)
(* Assumed: no two agents share a session file (the code names it by SSE   *)
(* port or parent PID, which the system may reuse), the texts that one     *)
(* session stamps are of one length, and every claim has a session id (the *)
(* code lets anyone release or pass those of older versions, which have    *)
(* none).                                                                  *)
(***************************************************************************)
EXTENDS Integers, Sequences, FiniteSets, Crew

CONSTANTS Hooking,             \* the agents whose editor has the hooks
          Branches,            \* instance ids are branches
          Plans, Features,     \* features of meta/acceptance_gates
          Blockers,            \* the "Blocked By" line of each plan
          Complete,            \* plans whose status is complete
          Requests, Hooked,    \* what the agents' shells ask, and what their hooks do
          Stale, Day,          \* STALENESS_MINUTES and 24 h, in ticks
          LocalOffset,         \* local time minus UTC, in ticks
          Keep,                \* completions the file keeps
          MaxCalls, MaxDeaths  \* bounds: invocations, agents that die

\* A plan number is truthy; 0 is no plan, "none" no feature.  A call is numbered when
\* it is made.
Request(kinds) ==
  [kind : kinds, n : {0}, cc : Branches, plan : Plans \cup {0}, feature : Features \cup {"none"},
   force : BOOLEAN, validate : BOOLEAN]

WellFormed ==
  /\ Hooking \subseteq Agents /\ Plans \subseteq Nat \ {0} /\ "none" \notin Features
  /\ Branches # {} /\ Blockers \in [Plans -> SUBSET Plans]
  /\ Requests \subseteq Request({"claim", "release"})
  /\ Hooked \subseteq Request({"check", "heartbeat", "cleanup"})
  /\ Stale \in Nat /\ Day \in Nat /\ Stale <= Day /\ LocalOffset \in Int
  /\ Keep \in Nat \ {0} /\ MaxCalls \in Nat /\ MaxDeaths \in Nat

ASSUME ClaimsFileAssumption == WellFormed

VARIABLES file,      \* active-work.yaml: its claims, the ages of its completions,
                     \* and whether it is empty or does not parse
          session,   \* the session file of each agent, and how long ago it was stamped
          pc, call,  \* where each process is, and what it was asked
          view,      \* the file as the process loaded it
          sid,       \* the session id the process has obtained
          calls,
          raced,     \* ghost: a save has overtaken another, or a death has cut one
          reported   \* ghost: until then, the claims reported as made and not as released

mine  == <<call, view, sid>>
ghost == <<raced, reported>>
vars  == <<file, session, pc, mine, calls, dead, ghost>>

Proc == (Agents \X {"cli"}) \cup (Hooking \X {"hook"})

\* A claim is a record [cc, plan, feature, session], with its owner and whether it
\* was forced as ghosts.  The list of claims is the set of them in the order of n,
\* the call that made each: a call appends to what it has loaded.  A session id is
\* the number of the call that made it, 0 is none.  Ages are told apart up to the
\* greatest threshold.

\* open(path, "w") leaves an empty text, which yaml loads as no data.
Truncated == [claims |-> {}, completed |-> <<>>, state |-> "empty"]
NoFile    == [Truncated EXCEPT !.state = "whole"]
NoCall    == [kind |-> "none", n |-> 0, cc |-> CHOOSE b \in Branches : TRUE, plan |-> 0,
              feature |-> "none", force |-> FALSE, validate |-> FALSE]

Init ==
  /\ file = NoFile
  /\ session = [a \in Agents |-> [id |-> 0, age |-> 0, whole |-> TRUE]]
  /\ pc = [p \in Proc |-> "idle"] /\ call = [p \in Proc |-> NoCall]
  /\ view = [p \in Proc |-> NoFile] /\ sid = [p \in Proc |-> 0]
  /\ calls = 0 /\ dead = {}
  /\ raced = FALSE /\ reported = {}

Agent(p)   == p[1]
Goto(p, l) == pc' = [pc EXCEPT ![p] = l]
Stay(p, l) == Goto(p, l) /\ UNCHANGED mine

End(p) ==
  /\ Goto(p, "idle")
  /\ call' = [call EXCEPT ![p] = NoCall]
  /\ view' = [view EXCEPT ![p] = NoFile]
  /\ sid' = [sid EXCEPT ![p] = 0]

-----------------------------------------------------------------------------
(* Decisions on the loaded data *)

First(claims) == CHOOSE c \in claims : \A d \in claims : c.n <= d.n

\* Mutated form: plans are not compared.
FeatureConflicts(r, claims) ==
  {c \in claims : r.feature \notin {"none", "shared"} /\ r.feature = c.feature}

\* check_scope_conflict(): nothing conflicts with a claim of the shared feature,
\* whatever its plan.
ScopeConflicts(r, claims) ==
  IF r.feature = "shared" THEN {}
  ELSE {c \in claims : \/ r.plan # 0 /\ r.plan = c.plan
                       \/ r.feature # "none" /\ r.feature = c.feature}

\* check_plan_dependencies(): a plan without a file has no blockers.
DependenciesOk(r) == r.plan # 0 => Blockers[r.plan] \subseteq Complete

\* Mutated form: an instance may claim twice.
AdmitsAnyInstance(r, claims) ==
  r.force \/ (DependenciesOk(r) /\ ScopeConflicts(r, claims) = {})

\* add_claim(), up to the session: --force passes dependencies and conflicts,
\* not a second claim of the instance.
Admits(r, claims) ==
  /\ \A c \in claims : c.cc # r.cc
  /\ r.force \/ (DependenciesOk(r) /\ ScopeConflicts(r, claims) = {})

\* Mutated form: a session that is not found is not stale.
StaleWhenFound(id) ==
  \E a \in Agents : session[a].whole /\ session[a].id = id /\ session[a].age > Stale

\* is_session_stale(): a session that no file names is stale.
IsSessionStale(id) ==
  \A a \in Agents : session[a].whole /\ session[a].id = id => session[a].age > Stale

\* The claims of an instance; the code takes the first.
OfInstance(claims, cc) == {c \in claims : c.cc = cc}
Yields(p, c) == c.session = sid[p] \/ IsSessionStale(c.session)

\* cleanup_old_completed(): the stamp is UTC, the clock is local.
Recent(age) == age + LocalOffset <= Day

LastOf(s) == SubSeq(s, IF Len(s) > Keep THEN Len(s) - Keep + 1 ELSE 1, Len(s))

NewClaim(p) ==
  LET r == call[p]
  IN  [n |-> r.n, cc |-> r.cc, plan |-> r.plan, feature |-> r.feature, session |-> sid[p],
       owner |-> Agent(p), forced |-> r.force]

\* Mutated form: the first claim of the list goes, whoever's it is.
FirstListed(p) == First(view[p].claims)

\* The claim that a release removes.
Released(p) == First(OfInstance(view[p].claims, call[p].cc))

\* What the call writes.
ClaimsAfter(p) ==
  CASE call[p].kind = "claim"   -> view[p].claims \cup {NewClaim(p)}
    [] call[p].kind = "release" -> view[p].claims \ {Released(p)}
    [] OTHER                    -> view[p].claims

CompletedAfter(p) ==
  IF call[p].kind = "release" THEN LastOf(Append(view[p].completed, 0)) ELSE view[p].completed

Saved(p) == [claims |-> ClaimsAfter(p), completed |-> CompletedAfter(p), state |-> "whole"]

\* A beginning of the one list, and an end of the other.
Joined(s, t) ==
  {SubSeq(s, 1, i) \o SubSeq(t, j, Len(t)) : i \in 0..Len(s), j \in 1..(Len(t) + 1)}

\* Its text over one that another process has written since the file was opened: the
\* end of a longer one sticks out behind.  The claims come first and are those of p;
\* what sticks out runs on among the completions, or makes the text one that does not
\* parse.
Overlaid(p) ==
  {Saved(p)}
  \cup {[claims |-> IF s = "whole" THEN ClaimsAfter(p) ELSE {}, completed |-> c, state |-> s] :
          s \in {"whole", "broken"}, c \in Joined(CompletedAfter(p), file.completed)}

-----------------------------------------------------------------------------
(* main() *)

Asked(p) == IF p[2] = "cli" THEN Requests ELSE Hooked

\* The first checks, which need no session: load_yaml() raises on a text that does not
\* parse, whatever is asked.
GoesOn(r, f) ==
  CASE f.state = "broken"  -> FALSE
    [] r.kind = "claim"   -> Admits(r, f.claims)
    [] r.kind = "release" -> OfInstance(f.claims, r.cc) # {}
    [] r.kind = "cleanup" -> \E i \in DOMAIN f.completed : ~Recent(f.completed[i])
    [] OTHER              -> TRUE

\* What it goes on with: cleanup_old_completed() filters at once.
Loaded(r, f) ==
  IF r.kind = "cleanup" THEN [f EXCEPT !.completed = SelectSeq(@, Recent)] ELSE f

\* load_yaml(), before the arguments are looked at.  A call that these checks
\* refuse ends there.
Invoke(p, r) ==
  /\ pc[p] = "idle" /\ Agent(p) \notin dead /\ calls < MaxCalls
  /\ GoesOn(r, file)
  /\ calls' = calls + 1
  /\ call' = [call EXCEPT ![p] = [r EXCEPT !.n = calls + 1]]
  /\ view' = [view EXCEPT ![p] = Loaded(r, file)]
  /\ raced' = (raced \/ file.state # "whole")
  /\ Goto(p, IF r.kind = "cleanup" \/ (r.kind = "release" /\ r.force) THEN "save" ELSE "identify")
  /\ UNCHANGED <<file, session, sid, dead, reported>>

Refuse(p, r) ==
  /\ pc[p] = "idle" /\ Agent(p) \notin dead
  /\ ~GoesOn(r, file)
  /\ UNCHANGED vars

-----------------------------------------------------------------------------
(* Sessions *)

\* Mutated form: the file's id is not taken up again.
NewSession(p) == call[p].n

SessionId(p) ==
  LET s == session[Agent(p)] IN IF s.whole /\ s.id # 0 THEN s.id ELSE call[p].n

\* get_or_create_session(), or a heartbeat: the id of the agent's file, or a new one.
Identify(p) ==
  /\ pc[p] = "identify"
  /\ sid' = [sid EXCEPT ![p] = SessionId(p)]
  /\ Goto(p, "stamp")
  /\ UNCHANGED <<file, session, call, view, calls, dead, ghost>>

\* save_session(): open and truncate...
Stamp(p) ==
  /\ pc[p] = "stamp"
  /\ session' = [session EXCEPT ![Agent(p)].whole = FALSE]
  /\ Goto(p, "stamping")
  /\ UNCHANGED <<file, mine, calls, dead, ghost>>

\* ...then write.
Stamped(p) ==
  /\ pc[p] = "stamping"
  /\ session' = [session EXCEPT ![Agent(p)] = [id |-> sid[p], age |-> 0, whole |-> TRUE]]
  /\ CASE call[p].kind = "claim"     -> Stay(p, "save")
       [] call[p].kind = "heartbeat" -> End(p)
       [] OTHER                      -> Stay(p, "owner")
  /\ UNCHANGED <<file, calls, dead, ghost>>

\* release_claim(): the owner of the claim, or anyone when its session is stale.
\* validate_plan_for_completion() then runs the test suite, between load and save.
CheckOwner(p) ==
  LET c == Released(p) IN
  /\ pc[p] = "owner" /\ call[p].kind = "release"
  /\ \/ Yields(p, c) /\ Stay(p, "save")
     \/ ~Yields(p, c) /\ End(p)
     \/ Yields(p, c) /\ call[p].validate /\ c.plan # 0 /\ End(p)
  /\ UNCHANGED <<file, session, calls, dead, ghost>>

\* --check-plan-session: the answer is the exit status, of which nothing is kept.
CheckPlan(p) ==
  /\ pc[p] = "owner" /\ call[p].kind = "check"
  /\ End(p)
  /\ UNCHANGED <<file, session, calls, dead, ghost>>

-----------------------------------------------------------------------------
(* save_yaml() *)

Truncate(p) ==
  /\ pc[p] = "save"
  /\ file' = Truncated
  /\ raced' = (raced \/ file.state # "whole" \/ file.claims # view[p].claims)
  /\ Goto(p, "saving")
  /\ UNCHANGED <<session, mine, calls, dead, reported>>

\* What the agents have been told once the call has ended.
Reported(p) ==
  CASE call[p].kind = "claim"   -> reported \cup {NewClaim(p)}
    [] call[p].kind = "release" -> {c \in reported : c.cc # call[p].cc}
    [] OTHER -> reported

Write(p) ==
  /\ pc[p] = "saving"
  /\ IF file = Truncated THEN file' = Saved(p) ELSE file' \in Overlaid(p)
  /\ raced' = (raced \/ file # Truncated)
  /\ reported' = IF raced' THEN {} ELSE Reported(p)
  /\ End(p)
  /\ UNCHANGED <<session, calls, dead>>

-----------------------------------------------------------------------------
(* The world *)

Older(age)  == IF age > Day THEN age ELSE age + 1
AllOlder(f) == [f EXCEPT !.completed = [i \in DOMAIN @ |-> Older(@[i])]]

Tick ==
  /\ session' = [a \in Agents |-> IF session[a].id = 0 THEN session[a]
                                  ELSE [session[a] EXCEPT !.age = Older(@)]]
  /\ file' = AllOlder(file)
  /\ view' = [p \in Proc |-> AllOlder(view[p])]
  /\ UNCHANGED <<pc, call, sid, calls, dead, ghost>>

\* An agent dies with its processes; a file it was writing stays empty.
Die(a) ==
  LET ps == {p \in Proc : Agent(p) = a} IN
  /\ Cardinality(dead) < MaxDeaths /\ Dies(a)
  /\ pc' = [p \in Proc |-> IF p \in ps THEN "idle" ELSE pc[p]]
  /\ call' = [p \in Proc |-> IF p \in ps THEN NoCall ELSE call[p]]
  /\ view' = [p \in Proc |-> IF p \in ps THEN NoFile ELSE view[p]]
  /\ sid' = [p \in Proc |-> IF p \in ps THEN 0 ELSE sid[p]]
  /\ UNCHANGED <<file, session, calls, ghost>>

Step(p) == \/ Identify(p) \/ Stamp(p) \/ Stamped(p) \/ CheckOwner(p)
           \/ CheckPlan(p) \/ Truncate(p) \/ Write(p)

Next ==
  \/ \E p \in Proc : Step(p) \/ \E r \in Asked(p) : Invoke(p, r) \/ Refuse(p, r)
  \/ \E a \in Agents : Die(a)
  \/ Tick

Spec == Init /\ [][Next]_vars

\* Time passes.
FairSpec == Spec /\ WF_vars(Tick)

-----------------------------------------------------------------------------
(* Properties. *)

\* "already has an active claim": whatever saves overtake each other, however their
\* texts overlay, and whatever is forced, the file never lists two claims of one
\* instance, so that the release, which removes the first it finds, leaves none behind.
\* Claims may get lost, and the file may no longer parse: then it lists none.
OneClaimPerInstance ==
  \A c, d \in file.claims : c # d => c.cc # d.cc

Exclusive(c) == ~c.forced /\ c.feature # "shared"

\* "Each plan/feature can only be claimed by one instance": whatever saves overtake
\* each other, of two claims of one scope that the file lists, the later was
\* forced, or claims the shared feature.  Of claims that saves have lost it says nothing.
ScopesExclusive ==
  \A c, d \in file.claims :
    c.n < d.n /\ Exclusive(d) =>
      /\ d.plan # 0 => c.plan # d.plan
      /\ d.feature # "none" => c.feature # d.feature

\* What the lack of a lock costs is claims, and only then: as long as no save has
\* overtaken another, the file parses and lists the claims that were reported as made
\* and not as released, and no others.
ReportedClaimsListed ==
  ~raced => /\ file.state # "broken"
            /\ file.state = "whole" => file.claims = reported

\* The claim of an agent that died does not stand for ever: its session becomes
\* stale, also when the session file was lost or replaced.
DeadOwnerYields ==
  \A a \in Agents : a \in dead ~>
    [](\A c \in file.claims : c.owner = a => IsSessionStale(c.session))

\* release_claim(): "Only the session that created the claim can release it", others
\* once it is stale, or with --force.  The owner that a check finds stale has in
\* truth not run the script for so long, if its session file was whole at that moment
\* and if it runs one process at a time: two, that of a hook and that of the shell,
\* may replace each other's session, and strand the claims made under it.
OwnersKeepClaims ==
  [][\A p \in Proc : pc[p] = "owner" /\ pc'[p] = "save" =>
      LET owner == Released(p).owner
      IN  owner \notin Hooking \cup {Agent(p)} /\ session[owner].whole
            => session[owner].age > Stale]_vars

=============================================================================
