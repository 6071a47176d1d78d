----------------------------- MODULE ActiveWork -----------------------------
(***************************************************************************)
(* The active work of the coordination registry (plan_reservations.py), of *)
(* one project.  An operation holds the file's lock from its reading to    *)
(* its save (PlanRegistry models the lock), so that it is one step here,   *)
(* unless the save is cut short.  Every operation first drops the entries  *)
(* that have expired: an expired entry is the same as none.                *)
(***************************************************************************)
EXTENDS Integers, Crew

CONSTANTS LegacyOwners,     \* names that only legacy files have, as "legacy-worktree"
          Scopes, Files,
          LegacyClaims,     \* owner and scope of the claims in legacy files
          TTL,              \* the longest ttl_hours, in ticks
          MaxFaults         \* bound: saves that are cut short

Owners == Agents \cup LegacyOwners
Key    == Owners \X Scopes
Never  == TTL + 1           \* expires_at: None

ASSUME ActiveWorkAssumption ==
  /\ Agents \cap LegacyOwners = {} /\ LegacyClaims \subseteq Key
  /\ TTL \in Nat /\ MaxFaults \in Nat

VARIABLES work,      \* the entry of each owner and scope
          broken,    \* the registry does not parse: every operation raises
          legacy,    \* how long each claim of a legacy file is valid
          held,      \* how long each agent takes its claim to be valid
          faults,
          lost       \* ghost: a save has been cut short

fault    == <<broken, faults, lost>>
workVars == <<work, legacy, held, dead, fault>>

Left  == -1..Never
Entry == [left : Left, files : SUBSET Files]
None  == [left |-> -1, files |-> {}]

WorkInit ==
  /\ work = [k \in Key |-> None] /\ broken = FALSE
  /\ legacy \in [LegacyClaims -> {TTL, Never}]
  /\ held = [k \in Agents \X Scopes |-> -1]
  /\ dead = {} /\ faults = 0 /\ lost = FALSE

Listed(k) == work[k].left >= 0

-----------------------------------------------------------------------------
(* The end of locked_registry() *)

Save(w) == work' = w /\ UNCHANGED fault

\* The truncated file holds the first entries, or does not parse.
CutShort(w) ==
  /\ faults < MaxFaults
  /\ faults' = faults + 1 /\ lost' = TRUE /\ broken' \in BOOLEAN
  /\ \E kept \in SUBSET Key : work' = [k \in Key |-> IF k \in kept THEN w[k] ELSE None]

-----------------------------------------------------------------------------
(* The operations *)

\* Mutated form: only an entry of the agent's own kind is in the way.
ConflictsHeld(a, s) == \E o \in LegacyOwners : Listed(<<o, s>>)

Conflict(a, s) == \E o \in Owners \ {a} : Listed(<<o, s>>)

\* Mutated form: a renewal is a claim like the first.
ClaimedAnew(k, ttl) == [work EXCEPT ![k] = [left |-> ttl, files |-> {}]]

Claimed(k, ttl) == [work EXCEPT ![k].left = ttl]

\* claim_active_work(): a new claim, or a renewal that keeps the observed files.
Claim(a, s, ttl) ==
  /\ a \notin dead /\ ~broken /\ ~Conflict(a, s)
  /\ \/ Save(Claimed(<<a, s>>, ttl)) /\ held' = [held EXCEPT ![<<a, s>>] = ttl]
     \/ CutShort(Claimed(<<a, s>>, ttl)) /\ UNCHANGED held
  /\ UNCHANGED <<legacy, dead>>

\* The conflict is returned; the registry is saved all the same.
RefuseClaim(a, s) ==
  /\ a \notin dead /\ ~broken /\ Conflict(a, s)
  /\ Save(work) \/ CutShort(work)
  /\ UNCHANGED <<legacy, held, dead>>

\* release_active_work(): the agent asks no more, whatever the answer.
Release(a, s) ==
  /\ a \notin dead /\ ~broken
  /\ held' = [held EXCEPT ![<<a, s>>] = -1]
  /\ LET w == [work EXCEPT ![<<a, s>>] = None] IN Save(w) \/ CutShort(w)
  /\ UNCHANGED <<legacy, dead>>

\* observe_file()
Observe(a, s, f) ==
  /\ a \notin dead /\ ~broken /\ Listed(<<a, s>>)
  /\ LET w == [work EXCEPT ![<<a, s>>].files = @ \cup {f}] IN Save(w) \/ CutShort(w)
  /\ UNCHANGED <<legacy, held, dead>>

\* list_registry(), get_active_plan_number(), and the others that change nothing.
List ==
  /\ ~broken
  /\ Save(work) \/ CutShort(work)
  /\ UNCHANGED <<legacy, held, dead>>

\* Mutated form: a legacy claim takes the place of the owner's entry.
InLegacy(k) == k \in LegacyClaims

New(k) == k \in LegacyClaims /\ ~Listed(k)

\* ingest_legacy_state(): the files stay; only an entry of the same owner
\* keeps a claim out.
Ingest ==
  /\ ~broken
  /\ LET w == [k \in Key |-> IF New(k) THEN [left |-> legacy[k], files |-> {}] ELSE work[k]]
     IN Save(w) \/ CutShort(w)
  /\ UNCHANGED <<legacy, held, dead>>

\* Mutated form: an entry that expires now stays.
AgedToZero(left) == IF left \in {-1, 0, Never} THEN left ELSE left - 1

\* _prune_expired(): an entry goes once its time is over.
Aged(left) == IF left \in {-1, Never} THEN left ELSE left - 1

WorkAges ==
  /\ work' = [k \in Key |-> IF Aged(work[k].left) = -1 THEN None
                            ELSE [work[k] EXCEPT !.left = Aged(@)]]
  /\ held' = [k \in Agents \X Scopes |-> Aged(held[k])]
  /\ legacy' = [k \in LegacyClaims |-> Aged(legacy[k])]
  /\ UNCHANGED <<dead, fault>>

AgentDies(a) ==
  /\ Dies(a)
  /\ UNCHANGED <<work, legacy, held, fault>>

WorkNext ==
  \/ \E a \in Agents, s \in Scopes :
       \/ \E ttl \in 0..TTL : Claim(a, s, ttl)
       \/ RefuseClaim(a, s) \/ Release(a, s)
       \/ \E f \in Files : Observe(a, s, f)
  \/ List \/ Ingest \/ WorkAges
  \/ \E a \in Agents : AgentDies(a)

WorkSpec == WorkInit /\ [][WorkNext]_workVars

\* Time passes.
FairWorkSpec == WorkSpec /\ WF_workVars(WorkAges)

-----------------------------------------------------------------------------
(* Properties. *)

\* The type of the registry and of what the agents believe.
TypeOK ==
  /\ work \in [Key -> Entry] /\ broken \in BOOLEAN
  /\ legacy \in [LegacyClaims -> Left]
  /\ held \in [Agents \X Scopes -> -1..TTL]
  /\ dead \subseteq Agents /\ faults \in 0..MaxFaults /\ lost \in BOOLEAN

\* "So multiple local agents cannot silently diverge on active-work ownership":
\* until a save is cut short, no two agents take a claim of one scope to be
\* valid, whatever legacy claims were ingested between.
OneHolder ==
  ~lost => \A a, b \in Agents, s \in Scopes :
             held[<<a, s>>] >= 0 /\ held[<<b, s>>] >= 0 => a = b

\* Until a save is cut short, the agent that holds a scope is refused its renewal
\* only on account of a claim of a legacy file, and its entry stays in the
\* registry for as long as it relies on it.
HolderRenews ==
  ~lost => \A a \in Agents, s \in Scopes : held[<<a, s>>] >= 0 =>
             /\ work[<<a, s>>].left >= held[<<a, s>>]
             /\ \A o \in Owners \ {a} : Listed(<<o, s>>) => <<o, s>> \in LegacyClaims

\* observe_file(): renewals, ingests and the claims of others keep the files
\* observed under a claim as long as it is listed, unless a save is cut short.
ObservedKept ==
  [][\A k \in Key : Listed(k) /\ Listed(k)' /\ faults' = faults =>
       work[k].files \subseteq work'[k].files]_workVars

\* The work of an agent that died is not its own for ever: each of its claims
\* expires, except one that a legacy file gives without an end.
DeadWorkExpires ==
  \A a \in Agents, s \in Scopes :
    a \in dead ~> [](work[<<a, s>>].left \in {-1, Never})

=============================================================================
