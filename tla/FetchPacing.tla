---------------------------- MODULE FetchPacing ----------------------------
(***************************************************************************)
(* Per-domain pacing of one fetcher: _rate_limit_wait(), and the request   *)
(* and the retry after HTTP 429 around it.  The tasks are the coroutines   *)
(* that share an AsyncSourceFetcher: they switch at an await only, so what *)
(* stands between two awaits is one step.  With a single task this is the  *)
(* sequential SourceFetcher, whose code is the same without the awaits.    *)
(*                                                                         *)
(* Time is relative.  since[d] is the clock minus _last_request[d], up to  *)
(* Interval; a domain not yet in the table is as good as one long ago.     *)
(***************************************************************************)
EXTENDS Integers

CONSTANTS Tasks, Domains,
          Interval,      \* 1 / rate_limit_per_second; 0 when it is disabled
          MaxRetryAfter  \* bound: the longest wait a Retry-After header asks for

ASSUME IntervalAssumption == Interval \in Nat
ASSUME RetryAssumption    == MaxRetryAfter \in Nat
ASSUME DomainsAssumption  == Domains # {}

VARIABLES since,  \* time since the stamp of each domain
          pc,     \* what each task awaits
          dom,    \* the domain of its request
          left,   \* the rest of its sleep
          own     \* ghost: time since each task's last paced request to a domain

vars == <<since, pc, dom, left, own>>

Time  == 0..Interval
Label == {"idle", "pacing", "sent", "backoff", "resent"}

Init ==
  /\ since = [d \in Domains |-> Interval]
  /\ pc = [t \in Tasks |-> "idle"]
  /\ dom = [t \in Tasks |-> CHOOSE d \in Domains : TRUE]
  /\ left = [t \in Tasks |-> 0]
  /\ own = [t \in Tasks |-> [d \in Domains |-> Interval]]

Goto(t, l) == pc' = [pc EXCEPT ![t] = l]

\* Mutated form: the stamp is left to the answer, which never sets it.
NoStamp(d) == since

Stamped(d) == [since EXCEPT ![d] = 0]

Wait(d) == Interval - since[d]

\* The stamp is set and the request leaves: there is no await between them.
Fire(t, d) ==
  /\ since' = Stamped(d)
  /\ own' = [own EXCEPT ![t][d] = 0]
  /\ Goto(t, "sent")

\* fetch() reads the stamp: the wait is computed here and only slept later.
Arrive(t, d) ==
  /\ pc[t] = "idle"
  /\ dom' = [dom EXCEPT ![t] = d]
  /\ IF since[d] < Interval
     THEN /\ left' = [left EXCEPT ![t] = Wait(d)]
          /\ Goto(t, "pacing")
          /\ UNCHANGED <<since, own>>
     ELSE Fire(t, d) /\ UNCHANGED left

\* After the sleep the stamp is not read again.
Wake(t) ==
  /\ pc[t] = "pacing" /\ left[t] = 0
  /\ Fire(t, dom[t])
  /\ UNCHANGED <<dom, left>>

\* HTTP 429: the task sleeps as long as the header asks for...
RateLimited(t) ==
  /\ pc[t] = "sent"
  /\ \E w \in 0..MaxRetryAfter : left' = [left EXCEPT ![t] = w]
  /\ Goto(t, "backoff")
  /\ UNCHANGED <<since, dom, own>>

\* ...and asks again, past the pacing and without a stamp.
Resend(t) ==
  /\ pc[t] = "backoff" /\ left[t] = 0
  /\ Goto(t, "resent")
  /\ UNCHANGED <<since, dom, left, own>>

Return(t) ==
  /\ pc[t] \in {"sent", "resent"}
  /\ Goto(t, "idle")
  /\ UNCHANGED <<since, dom, left, own>>

\* A sleeping task is cancelled.
Cancel(t) ==
  /\ pc[t] \in {"pacing", "backoff"}
  /\ left' = [left EXCEPT ![t] = 0]
  /\ Goto(t, "idle")
  /\ UNCHANGED <<since, dom, own>>

Older(a) == IF a = Interval THEN Interval ELSE a + 1

\* A sleep lasts at least as long as it was asked to.
Tick ==
  /\ since' = [d \in Domains |-> Older(since[d])]
  /\ own' = [t \in Tasks |-> [d \in Domains |-> Older(own[t][d])]]
  /\ left' = [t \in Tasks |-> IF left[t] = 0 THEN 0 ELSE left[t] - 1]
  /\ UNCHANGED <<pc, dom>>

Next ==
  \/ \E t \in Tasks : \/ \E d \in Domains : Arrive(t, d)
                      \/ Wake(t) \/ RateLimited(t) \/ Resend(t) \/ Return(t) \/ Cancel(t)
  \/ Tick

Spec == Init /\ [][Next]_vars

-----------------------------------------------------------------------------
(* Properties. *)

\* The type of every variable of the fetcher's pacing.
TypeOK ==
  /\ since \in [Domains -> Time]
  /\ pc \in [Tasks -> Label] /\ dom \in [Tasks -> Domains]
  /\ left \in [Tasks -> Nat]
  /\ own \in [Tasks -> [Domains -> Time]]

Fires(t) == pc[t] \in {"idle", "pacing"} /\ pc'[t] = "sent"

\* One task's paced requests to a domain are at least Interval apart, however the
\* other tasks stamp and sleep meanwhile: a sequential caller gets the documented
\* rate (retries after a 429 aside), and n tasks at most n times that rate.
OwnRequestsSpaced ==
  [][\A t \in Tasks : Fires(t) => own[t][dom'[t]] = Interval]_vars

\* No task sleeps for pacing longer than the interval asks for, and what is left
\* of its sleep is all it lacks.
WaitIsEnough ==
  \A t \in Tasks : pc[t] = "pacing" =>
    left[t] <= Interval /\ own[t][dom[t]] + left[t] >= Interval

-----------------------------------------------------------------------------
(* What the documentation says, and the code does not do. *)

\* AsyncSourceFetcher, rate_limit_per_second: "Max requests/s per domain": a paced
\* request leaves no sooner than Interval after another one to its domain.
RequestsSpaced == [][\A t \in Tasks : Fires(t) =>
       \A u \in Tasks : own[u][dom'[t]] = Interval]_vars

=============================================================================
