-------------------------- MODULE AsyncFetchProofs ---------------------------
(***************************************************************************)
(* Per-domain pacing, alone and as the asynchronous fetcher uses it: a     *)
(* task's own paced requests are spaced, in the asynchronous fetch() too;  *)
(* and its coroutines share their metrics without losing a call.  For any  *)
(* tasks, domains, rates, statuses and bounds, and any Retry-After.        *)
(***************************************************************************)
EXTENDS AsyncFetch, SequenceTheorems, TLAPS

(* The pacing: FetchPacing. *)

\* The stamp of a domain is never older than a task's last request to it.
StampCovers == \A t \in Tasks : \A d \in Domains : since[d] <= own[t][d]

\* The inductive invariant: the spacing needs StampCovers where the stamp is
\* read, and WaitIsEnough where the sleep computed from it ends.
Inv == TypeOK /\ StampCovers /\ WaitIsEnough

LEMMA OlderIsTime == ASSUME NEW a \in Time PROVE Older(a) \in Time /\ Older(a) >= a
BY IntervalAssumption DEF Older, Time

LEMMA InitInv == Init => Inv
<1> SUFFICES ASSUME Init PROVE Inv
  OBVIOUS
<1>1. (CHOOSE d \in Domains : TRUE) \in Domains
  BY DomainsAssumption
<1>2. TypeOK
  BY <1>1, IntervalAssumption DEF Init, TypeOK, Time, Label
<1>3. StampCovers /\ WaitIsEnough
  BY IntervalAssumption DEF Init, StampCovers, WaitIsEnough
<1>4. QED BY <1>2, <1>3 DEF Inv

-----------------------------------------------------------------------------
\* A request: the stamp and the task's own clock restart together.
LEMMA FireInv ==
  ASSUME Inv, NEW t \in Tasks, NEW d \in Domains, Fire(t, d),
         dom' \in [Tasks -> Domains], left' = left,
         \A u \in Tasks : u # t => dom'[u] = dom[u]
  PROVE  Inv'
<1> USE DEF Inv, Fire, Goto, Stamped
<1>1. /\ since' \in [Domains -> Time] /\ pc' \in [Tasks -> Label] /\ left' \in [Tasks -> Nat]
      /\ own' \in [Tasks -> [Domains -> Time]]
  BY IntervalAssumption DEF TypeOK, Time, Label
<1>2. \A e \in Domains : since'[e] = IF e = d THEN 0 ELSE since[e]
  BY DEF TypeOK
<1>3. \A u \in Tasks : \A e \in Domains :
        own'[u][e] = IF u = t /\ e = d THEN 0 ELSE own[u][e]
  BY DEF TypeOK
<1>4. StampCovers'
  <2>1. ASSUME NEW u \in Tasks, NEW e \in Domains PROVE since'[e] <= own'[u][e]
    <3>1. since[e] <= own[u][e] /\ own[u][e] \in Time
      BY DEF StampCovers, TypeOK
    <3>2. QED BY <1>2, <1>3, <3>1, IntervalAssumption DEF Time
  <2>2. QED BY <2>1 DEF StampCovers
<1>5. WaitIsEnough'
  <2>1. ASSUME NEW u \in Tasks, pc'[u] = "pacing"
        PROVE  left'[u] <= Interval /\ own'[u][dom'[u]] + left'[u] >= Interval
    <3>1. u # t /\ pc[u] = "pacing"
      BY <2>1 DEF TypeOK
    <3>2. own'[u][dom'[u]] = own[u][dom[u]]
      BY <1>3, <3>1 DEF TypeOK
    <3>3. QED BY <3>1, <3>2 DEF WaitIsEnough
  <2>2. QED BY <2>1 DEF WaitIsEnough
<1>6. QED BY <1>1, <1>4, <1>5 DEF TypeOK

LEMMA ArriveInv ==
  ASSUME Inv, NEW t \in Tasks, NEW d \in Domains, Arrive(t, d)
  PROVE  Inv'
<1>1. /\ dom' \in [Tasks -> Domains] /\ dom'[t] = d
      /\ \A u \in Tasks : u # t => dom'[u] = dom[u]
  BY DEF Arrive, Inv, TypeOK
<1>2. CASE since[d] < Interval
  <2>1. /\ left' = [left EXCEPT ![t] = Interval - since[d]]
        /\ pc' = [pc EXCEPT ![t] = "pacing"] /\ since' = since /\ own' = own
    BY <1>2 DEF Arrive, Goto, Wait
  <2>2. since[d] \in Time /\ Interval - since[d] \in Nat
    BY <1>2, IntervalAssumption DEF Inv, TypeOK, Time
  <2>3. TypeOK'
    BY <1>1, <2>1, <2>2 DEF Inv, TypeOK, Label
  <2>4. StampCovers'
    BY <2>1 DEF Inv, StampCovers
  <2>5. ASSUME NEW u \in Tasks, pc'[u] = "pacing"
        PROVE  left'[u] <= Interval /\ own'[u][dom'[u]] + left'[u] >= Interval
    <3>1. CASE u = t
      <4>1. left'[u] = Interval - since[d] /\ own'[u][dom'[u]] = own[t][d]
        BY <1>1, <2>1, <3>1 DEF Inv, TypeOK
      <4>2. since[d] <= own[t][d] /\ own[t][d] \in Time
        BY DEF Inv, StampCovers, TypeOK
      <4>3. QED BY <2>2, <4>1, <4>2, IntervalAssumption DEF Time
    <3>2. CASE u # t
      <4>1. pc[u] = "pacing" /\ left'[u] = left[u] /\ own'[u][dom'[u]] = own[u][dom[u]]
        BY <1>1, <2>1, <2>5, <3>2 DEF Inv, TypeOK
      <4>2. QED BY <4>1 DEF Inv, WaitIsEnough
    <3>3. QED BY <3>1, <3>2
  <2>6. WaitIsEnough'
    BY <2>5 DEF WaitIsEnough
  <2>7. QED BY <2>3, <2>4, <2>6 DEF Inv
<1>3. CASE ~(since[d] < Interval)
  <2>1. Fire(t, d) /\ left' = left
    BY <1>3 DEF Arrive
  <2>2. QED BY <1>1, <2>1, FireInv
<1>4. QED BY <1>2, <1>3

LEMMA TickInv ==
  ASSUME Inv, Tick
  PROVE  Inv'
<1> USE DEF Inv
<1>1. TypeOK'
  <2>1. since' \in [Domains -> Time] /\ own' \in [Tasks -> [Domains -> Time]]
    BY OlderIsTime DEF Tick, TypeOK
  <2>2. \A t \in Tasks : (IF left[t] = 0 THEN 0 ELSE left[t] - 1) \in Nat
    <3>1. ASSUME NEW t \in Tasks PROVE (IF left[t] = 0 THEN 0 ELSE left[t] - 1) \in Nat
      <4>1. left[t] \in Nat
        BY DEF TypeOK
      <4>2. QED BY <4>1
    <3>2. QED BY <3>1
  <2>3. left' \in [Tasks -> Nat] /\ pc' = pc /\ dom' = dom
    BY <2>2 DEF Tick
  <2>4. QED BY <2>1, <2>3 DEF TypeOK
<1>2. ASSUME NEW t \in Tasks, NEW d \in Domains
      PROVE  since'[d] <= own'[t][d]
  <2>1. since'[d] = Older(since[d]) /\ own'[t][d] = Older(own[t][d])
    BY DEF Tick
  <2>2. since[d] \in Time /\ own[t][d] \in Time /\ since[d] <= own[t][d]
    BY DEF TypeOK, StampCovers
  <2>3. QED BY <2>1, <2>2, IntervalAssumption DEF Older, Time
<1>3. ASSUME NEW t \in Tasks, pc'[t] = "pacing"
      PROVE  left'[t] <= Interval /\ own'[t][dom'[t]] + left'[t] >= Interval
  <2>1. pc[t] = "pacing" /\ dom'[t] = dom[t] /\ dom[t] \in Domains
    BY <1>3 DEF Tick, TypeOK
  <2>2. /\ own'[t][dom[t]] = Older(own[t][dom[t]])
        /\ left'[t] = IF left[t] = 0 THEN 0 ELSE left[t] - 1
    BY <2>1 DEF Tick
  <2>3. own[t][dom[t]] \in Time /\ left[t] \in Nat
    BY <2>1 DEF TypeOK
  <2>4. left[t] <= Interval /\ own[t][dom[t]] + left[t] >= Interval
    BY <2>1 DEF WaitIsEnough
  <2>5. QED BY <2>1, <2>2, <2>3, <2>4, IntervalAssumption DEF Older, Time
<1>4. QED BY <1>1, <1>2, <1>3 DEF StampCovers, WaitIsEnough

\* The steps that touch neither the stamps nor a pacing sleep.
LEMMA QuietInv ==
  ASSUME Inv, NEW t \in Tasks, RateLimited(t) \/ Resend(t) \/ Return(t) \/ Cancel(t)
  PROVE  Inv'
<1> USE DEF Inv, RateLimited, Resend, Return, Cancel, Goto
<1>1. since' = since /\ own' = own /\ dom' = dom /\ pc' \in [Tasks -> Label]
  BY DEF TypeOK, Label
<1>2. left' \in [Tasks -> Nat]
  BY RetryAssumption DEF TypeOK
<1>3. \A u \in Tasks : pc'[u] = "pacing" => pc[u] = "pacing" /\ left'[u] = left[u]
  BY DEF TypeOK
<1>4. TypeOK'
  BY <1>1, <1>2 DEF TypeOK
<1>5. StampCovers' /\ WaitIsEnough'
  BY <1>1, <1>3 DEF StampCovers, WaitIsEnough
<1>6. QED BY <1>4, <1>5

-----------------------------------------------------------------------------
\* The pacing invariant holds in every state.
THEOREM Invariance == Spec => []Inv
<1>1. Init => Inv
  BY InitInv
<1>2. Inv /\ [Next]_vars => Inv'
  <2> SUFFICES ASSUME Inv, [Next]_vars PROVE Inv'
    OBVIOUS
  <2>1. ASSUME NEW t \in Tasks, NEW d \in Domains, Arrive(t, d) PROVE Inv'
    BY <2>1, ArriveInv
  <2>2. ASSUME NEW t \in Tasks, Wake(t) PROVE Inv'
    <3>1. dom[t] \in Domains /\ dom \in [Tasks -> Domains]
      BY DEF Inv, TypeOK
    <3>2. Fire(t, dom[t]) /\ dom' = dom /\ left' = left
      BY <2>2 DEF Wake
    <3>3. QED BY <3>1, <3>2, FireInv
  <2>3. ASSUME NEW t \in Tasks, RateLimited(t) \/ Resend(t) \/ Return(t) \/ Cancel(t)
        PROVE  Inv'
    BY <2>3, QuietInv
  <2>4. CASE Tick
    BY <2>4, TickInv
  <2>5. CASE UNCHANGED vars
    BY <2>5 DEF vars, Inv, TypeOK, StampCovers, WaitIsEnough
  <2>6. QED BY <2>1, <2>2, <2>3, <2>4, <2>5 DEF Next
<1>3. QED BY <1>1, <1>2, PTL DEF Spec

\* What is left of a pacing sleep always makes up for the time still lacking.
THEOREM WaitsAreEnough == Spec => []WaitIsEnough
<1>1. Inv => WaitIsEnough
  BY DEF Inv
<1>2. QED BY <1>1, Invariance, PTL

\* The paced requests of one task keep the documented rate.
THEOREM OwnRequestsAreSpaced == Spec => OwnRequestsSpaced
<1>1. Inv /\ [Next]_vars =>
        [\A t \in Tasks : Fires(t) => own[t][dom'[t]] = Interval]_vars
  <2> SUFFICES ASSUME Inv, Next, NEW t \in Tasks, Fires(t)
               PROVE  own[t][dom'[t]] = Interval
    OBVIOUS
  <2>1. CASE \E d \in Domains : Arrive(t, d)
    <3>1. PICK d \in Domains : Arrive(t, d)
      BY <2>1
    <3>2. dom'[t] = d /\ ~(since[d] < Interval)
      BY <3>1 DEF Arrive, Goto, Fires, Inv, TypeOK
    <3>3. since[d] <= own[t][d] /\ own[t][d] \in Time /\ since[d] \in Time
      BY DEF Inv, TypeOK, StampCovers
    <3>4. QED BY <3>2, <3>3, IntervalAssumption DEF Time
  <2>2. CASE Wake(t)
    <3>1. dom'[t] = dom[t] /\ dom[t] \in Domains /\ pc[t] = "pacing" /\ left[t] = 0
      BY <2>2 DEF Wake, Inv, TypeOK
    <3>2. own[t][dom[t]] + left[t] >= Interval /\ own[t][dom[t]] \in Time
      BY <3>1 DEF Inv, TypeOK, WaitIsEnough
    <3>3. QED BY <3>1, <3>2, IntervalAssumption DEF Time
  <2>3. CASE RateLimited(t) \/ Resend(t) \/ Return(t) \/ Cancel(t) \/ Tick
    BY <2>3 DEF RateLimited, Resend, Return, Cancel, Tick, Goto, Fires, Inv, TypeOK
  <2>4. CASE \E u \in Tasks \ {t} :
               (\E d \in Domains : Arrive(u, d)) \/ Wake(u) \/ RateLimited(u)
                 \/ Resend(u) \/ Return(u) \/ Cancel(u)
    <3>1. pc'[t] = pc[t]
      BY <2>4 DEF Arrive, Wake, RateLimited, Resend, Return, Cancel, Fire, Goto, Inv, TypeOK
    <3>2. QED BY <3>1 DEF Fires
  <2>5. QED BY <2>1, <2>2, <2>3, <2>4 DEF Next
<1>2. QED BY <1>1, Invariance, PTL DEF Spec, OwnRequestsSpaced

-----------------------------------------------------------------------------
(* The fetch: AsyncFetch. *)

\* The steps of fetch() that pace are those of FetchPacing; the others leave its
\* variables alone.
LEMMA StepPaces == [ANext]_<<vars, call>> => [Next]_vars
<1> SUFFICES ASSUME [ANext]_<<vars, call>> PROVE [Next]_vars
  OBVIOUS
<1>1. ASSUME NEW t \in Tasks, NEW d \in Domains, RefuseBlocked(t, d) \/ Request(t, d)
      PROVE  [Next]_vars
  BY <1>1 DEF RefuseBlocked, Request, Next
<1>2. ASSUME NEW t \in Tasks, Paced(t) \/ TooMany(t) \/ Retry(t) PROVE [Next]_vars
  BY <1>2 DEF Paced, TooMany, Retry, Next
<1>3. ASSUME NEW t \in Tasks, RequestFails(t) \/ RetryFails(t) \/ Answered(t) \/ Escape(t)
      PROVE  [Next]_vars
  BY <1>3 DEF RequestFails, RetryFails, Answered, Escape, Next
<1>4. ASSUME NEW t \in Tasks, NEW s \in Statuses, Refused(t, s) PROVE [Next]_vars
  BY <1>4 DEF Refused, Next
<1>5. ASSUME NEW t \in Tasks, NEW c \in Contents, Extract(t, c) PROVE [Next]_vars
  BY <1>5 DEF Extract
<1>6. CASE (Tick /\ UNCHANGED call) \/ UNCHANGED <<vars, call>>
  BY <1>6 DEF Next
<1>7. QED BY <1>1, <1>2, <1>3, <1>4, <1>5, <1>6 DEF ANext

\* The paced requests of one coroutine keep the documented rate, whatever fetch()
\* and extract() of the others do between its awaits.
THEOREM AsyncRequestsAreSpaced == ASpec => OwnRequestsSpaced
<1>1. AInit => Init
  BY DEF AInit
<1>2. ASpec => Spec
  BY <1>1, StepPaces, PTL DEF ASpec, Spec
<1>3. QED BY <1>2, OwnRequestsAreSpaced, PTL

-----------------------------------------------------------------------------
(* The metrics *)

MetricsOK ==
  metrics \in [Counter -> Nat] /\ calls \in Nat /\ ended \in Nat /\ CallsCountedOnce

\* A call that ends is counted under one counter; `retried' is none of them.
LEMMA CountedCall ==
  ASSUME MetricsOK, NEW c \in Counter \ {"retried"}, Bump(c), ended' = ended + 1, calls' \in Nat
  PROVE  MetricsOK'
<1>1. metrics' \in [Counter -> Nat]
  BY DEF MetricsOK, Bump
<1>2. \A k \in Counter : metrics'[k] = IF k = c THEN metrics[k] + 1 ELSE metrics[k]
  BY DEF MetricsOK, Bump
<1>3. \A k \in Counter : metrics[k] \in Nat
  BY DEF MetricsOK
<1>4. CASE c = "fetched"
  BY <1>1, <1>2, <1>3, <1>4 DEF MetricsOK, CallsCountedOnce, Counter
<1>5. CASE c = "skipped_blocked"
  BY <1>1, <1>2, <1>3, <1>5 DEF MetricsOK, CallsCountedOnce, Counter
<1>6. CASE c = "skipped_permanent"
  BY <1>1, <1>2, <1>3, <1>6 DEF MetricsOK, CallsCountedOnce, Counter
<1>7. CASE c = "failed"
  BY <1>1, <1>2, <1>3, <1>7 DEF MetricsOK, CallsCountedOnce, Counter
<1>8. QED BY <1>4, <1>5, <1>6, <1>7 DEF Counter

LEMMA StepCounts == MetricsOK /\ [ANext]_<<vars, call>> => MetricsOK'
<1> SUFFICES ASSUME MetricsOK, [ANext]_<<vars, call>> PROVE MetricsOK'
  OBVIOUS
<1>0. calls \in Nat /\ ended \in Nat
  BY DEF MetricsOK
<1>1. ASSUME NEW t \in Tasks, NEW d \in Domains, RefuseBlocked(t, d) PROVE MetricsOK'
  BY <1>0, <1>1, CountedCall DEF RefuseBlocked, Enter, Counter
<1>2. ASSUME NEW t \in Tasks, NEW d \in Domains, Request(t, d) PROVE MetricsOK'
  BY <1>0, <1>2 DEF Request, Enter, MetricsOK, CallsCountedOnce
<1>3. ASSUME NEW t \in Tasks, Paced(t) \/ TooMany(t) \/ Escape(t) PROVE MetricsOK'
  BY <1>3 DEF Paced, TooMany, Escape, Quiet, call, MetricsOK, CallsCountedOnce
<1>4. ASSUME NEW t \in Tasks, Retry(t) PROVE MetricsOK'
  <2>1. metrics' = [metrics EXCEPT !["retried"] = @ + 1] /\ calls' = calls /\ ended' = ended
    BY <1>4 DEF Retry, Bump, Quiet
  <2>2. QED BY <2>1 DEF MetricsOK, CallsCountedOnce, Counter
<1>5. ASSUME NEW t \in Tasks, RequestFails(t) \/ RetryFails(t) \/ Answered(t) PROVE MetricsOK'
  <2>1. (Bump("failed") \/ Bump("fetched")) /\ ended' = ended + 1 /\ calls' = calls
    BY <1>5 DEF RequestFails, RetryFails, Answered, BumpFetched, End
  <2>2. QED BY <1>0, <2>1, CountedCall DEF Counter
<1>6. ASSUME NEW t \in Tasks, NEW s \in Statuses, Refused(t, s) PROVE MetricsOK'
  <2>1. /\ Bump("failed") \/ Bump("skipped_permanent")
        /\ ended' = ended + 1 /\ calls' = calls
    BY <1>6 DEF Refused, End
  <2>2. QED BY <1>0, <2>1, CountedCall DEF Counter
<1>7. ASSUME NEW t \in Tasks, NEW c \in Contents, Extract(t, c) PROVE MetricsOK'
  BY <1>7 DEF Extract, MetricsOK, CallsCountedOnce
<1>8. CASE (Tick /\ UNCHANGED call) \/ UNCHANGED <<vars, call>>
  BY <1>8 DEF call, MetricsOK, CallsCountedOnce
<1>9. QED BY <1>1, <1>2, <1>3, <1>4, <1>5, <1>6, <1>7, <1>8 DEF ANext

\* The metrics the coroutines share count every call that ended, once.
THEOREM MetricsAddUp == ASpec => []CallsCountedOnce
<1>1. AInit => MetricsOK
  BY DEF AInit, MetricsOK, CallsCountedOnce, Counter
<1>2. MetricsOK => CallsCountedOnce
  BY DEF MetricsOK
<1>3. QED BY <1>1, <1>2, StepCounts, PTL DEF ASpec

-----------------------------------------------------------------------------
(* The rows *)

\* The rows an attempt may have.
Trace == {<<>>, <<"started">>, <<"started", "failed">>, <<"started", "succeeded">>,
          <<"started", "failed", "succeeded">>}

Both(s1, s2) == [a \in Attempt |-> IF a = "first" THEN s1 ELSE s2]

Rows(t, s1, s2) == rows[t]["first"] = s1 /\ rows[t]["retry"] = s2

\* What the rows of a call say where it stands: its attempts are opened and closed in
\* turn, and a call that ended has closed those it opened.
TaskRows(t) ==
  /\ pc[t] \in {"pacing", "sent"} => Rows(t, <<"started">>, <<>>)
  /\ pc[t] = "backoff" => Rows(t, <<"started", "failed">>, <<>>)
  /\ pc[t] = "resent"  => Rows(t, <<"started", "failed">>, <<"started">>)
  /\ pc[t] = "idle" /\ result[t] = "page" =>
       \/ Rows(t, <<"started", "succeeded">>, <<>>)
       \/ Rows(t, <<"started", "failed", "succeeded">>, <<"started", "succeeded">>)
  /\ pc[t] = "idle" /\ result[t] \in {"retryable", "permanent"} =>
       \/ Rows(t, <<"started", "failed">>, <<>>)
       \/ Rows(t, <<"started", "failed">>, <<"started", "failed">>)

RowsType ==
  /\ pc \in [Tasks -> Label] /\ result \in [Tasks -> Results]
  /\ rows \in [Tasks -> [Attempt -> Trace]]

RowsOK == RowsType /\ \A t \in Tasks : TaskRows(t)

\* A step of one task.
LEMMA OneTask ==
  ASSUME RowsOK, NEW t \in Tasks, RowsType', TaskRows(t)',
         \A u \in Tasks \ {t} : pc'[u] = pc[u] /\ result'[u] = result[u] /\ rows'[u] = rows[u]
  PROVE  RowsOK'
BY DEF RowsOK, TaskRows, Rows

\* The task t moves to l, with the rows s1 and s2 and the result r.
LEMMA Moves ==
  ASSUME RowsOK, NEW t \in Tasks, NEW l \in Label, NEW r \in Results,
         NEW s1 \in Trace, NEW s2 \in Trace,
         pc' = [pc EXCEPT ![t] = l], result' = [result EXCEPT ![t] = r],
         rows' = [rows EXCEPT ![t] = Both(s1, s2)]
  PROVE  /\ RowsType' /\ pc'[t] = l /\ result'[t] = r
         /\ rows'[t]["first"] = s1 /\ rows'[t]["retry"] = s2
         /\ \A u \in Tasks \ {t} :
              pc'[u] = pc[u] /\ result'[u] = result[u] /\ rows'[u] = rows[u]
<1>1. Both(s1, s2) \in [Attempt -> Trace]
  BY DEF Both
<1>2. Both(s1, s2)["first"] = s1 /\ Both(s1, s2)["retry"] = s2
  BY DEF Both, Attempt
<1>3. QED BY <1>1, <1>2 DEF RowsOK, RowsType

LEMMA AppendSecond == ASSUME NEW a, NEW b PROVE Append(<<a>>, b) = <<a, b>>
<1> DEFINE S == {a, b}
<1> a \in S /\ b \in S
  OBVIOUS
<1> HIDE DEF S
<1>1. Append(<<a>>, b) \in Seq(S) /\ <<a, b>> \in Seq(S)
  OBVIOUS
<1>2. Len(Append(<<a>>, b)) = 2 /\ Len(<<a, b>>) = 2
  OBVIOUS
<1>3. \A i \in 1..2 : Append(<<a>>, b)[i] = <<a, b>>[i]
  OBVIOUS
<1>4. QED BY <1>1, <1>2, <1>3, SeqEqual

LEMMA AppendThird == ASSUME NEW a, NEW b, NEW c PROVE Append(<<a, b>>, c) = <<a, b, c>>
<1> DEFINE S == {a, b, c}
<1> a \in S /\ b \in S /\ c \in S
  OBVIOUS
<1> HIDE DEF S
<1>1. Append(<<a, b>>, c) \in Seq(S) /\ <<a, b, c>> \in Seq(S)
  OBVIOUS
<1>2. Len(Append(<<a, b>>, c)) = 3 /\ Len(<<a, b, c>>) = 3
  OBVIOUS
<1>3. \A i \in 1..3 : Append(<<a, b>>, c)[i] = <<a, b, c>>[i]
  OBVIOUS
<1>4. QED BY <1>1, <1>2, <1>3, SeqEqual

LEMMA RowFacts ==
  /\ Append(<<"started">>, "failed") = <<"started", "failed">>
  /\ Append(<<"started">>, "succeeded") = <<"started", "succeeded">>
  /\ Append(<<"started", "failed">>, "succeeded") = <<"started", "failed", "succeeded">>
  /\ Append(<<>>, "started") = <<"started">>
<1>1. Append(<<"started">>, "failed") = <<"started", "failed">>
  BY AppendSecond
<1>2. Append(<<"started">>, "succeeded") = <<"started", "succeeded">>
  BY AppendSecond
<1>3. Append(<<"started", "failed">>, "succeeded") = <<"started", "failed", "succeeded">>
  BY AppendThird
<1>4. Append(<<>>, "started") = <<"started">>
  OBVIOUS
<1>5. QED BY <1>1, <1>2, <1>3, <1>4

LEMMA RowEnds ==
  /\ <<"started", "failed">>[Len(<<"started", "failed">>)] = "failed"
  /\ <<"started", "succeeded">>[Len(<<"started", "succeeded">>)] = "succeeded"
  /\ <<"started", "failed", "succeeded">>[Len(<<"started", "failed", "succeeded">>)] = "succeeded"
OBVIOUS

\* The rows of one attempt change.
LEMMA Emits ==
  ASSUME RowsType, NEW t \in Tasks, NEW s
  PROVE  /\ Emit(t, "first", s) =>
              rows' = [rows EXCEPT ![t] = Both(Append(rows[t]["first"], s), rows[t]["retry"])]
         /\ Emit(t, "retry", s) =>
              rows' = [rows EXCEPT ![t] = Both(rows[t]["first"], Append(rows[t]["retry"], s))]
<1>1. rows[t] \in [Attempt -> Trace]
  BY DEF RowsType
<1>2. [rows[t] EXCEPT !["first"] = Append(@, s)]
        = Both(Append(rows[t]["first"], s), rows[t]["retry"])
  BY <1>1 DEF Attempt, Both
<1>3. [rows[t] EXCEPT !["retry"] = Append(@, s)]
        = Both(rows[t]["first"], Append(rows[t]["retry"], s))
  BY <1>1 DEF Attempt, Both
<1>4. QED BY <1>2, <1>3 DEF Emit, RowsType

LEMMA EnterRows ==
  ASSUME RowsOK, NEW t \in Tasks, NEW d \in Domains, RefuseBlocked(t, d) \/ Request(t, d)
  PROVE  RowsOK'
<1>1. CASE RefuseBlocked(t, d)
  <2>1. /\ pc' = [pc EXCEPT ![t] = "idle"] /\ result' = [result EXCEPT ![t] = "permanent"]
        /\ rows' = [rows EXCEPT ![t] = Both(<<"started", "failed">>, <<>>)]
    BY <1>1 DEF RefuseBlocked, Enter, vars, RowsOK, RowsType, Both
  <2>2. /\ RowsType' /\ pc'[t] = "idle" /\ result'[t] = "permanent"
        /\ rows'[t]["first"] = <<"started", "failed">> /\ rows'[t]["retry"] = <<>>
        /\ \A u \in Tasks \ {t} :
             pc'[u] = pc[u] /\ result'[u] = result[u] /\ rows'[u] = rows[u]
    BY <2>1, Moves, ZenonT(30) DEF Label, Results, Trace
  <2>3. TaskRows(t)'
    BY <2>2 DEF TaskRows, Rows
  <2>4. QED BY <2>2, <2>3, OneTask
<1>2. CASE Request(t, d)
  <2>1. PICK l \in {"pacing", "sent"} : pc' = [pc EXCEPT ![t] = l]
    BY <1>2 DEF Request, Arrive, Fire, Goto
  <2>2. /\ result' = [result EXCEPT ![t] = "none"]
        /\ rows' = [rows EXCEPT ![t] = Both(<<"started">>, <<>>)]
    BY <1>2 DEF Request, Enter, Both
  <2>3. /\ RowsType' /\ pc'[t] = l /\ result'[t] = "none"
        /\ rows'[t]["first"] = <<"started">> /\ rows'[t]["retry"] = <<>>
        /\ \A u \in Tasks \ {t} :
             pc'[u] = pc[u] /\ result'[u] = result[u] /\ rows'[u] = rows[u]
    BY <2>1, <2>2, Moves, ZenonT(30) DEF Label, Results, Trace
  <2>4. TaskRows(t)'
    BY <2>3 DEF TaskRows, Rows
  <2>5. QED BY <2>3, <2>4, OneTask
<1>3. QED BY <1>1, <1>2

\* Paced and Escape: the rows are left as they are.
LEMMA SilentRows ==
  ASSUME RowsOK, NEW t \in Tasks, Paced(t) \/ Escape(t)
  PROVE  RowsOK'
<1>1. CASE Paced(t)
  <2>1. pc[t] = "pacing" /\ pc' = [pc EXCEPT ![t] = "sent"] /\ UNCHANGED <<rows, result>>
    BY <1>1 DEF Paced, Wake, Fire, Goto, call
  <2>2. RowsType' /\ TaskRows(t)'
    BY <2>1 DEF RowsOK, RowsType, TaskRows, Rows, Label
  <2>3. QED BY <2>1, <2>2, OneTask DEF RowsOK, RowsType
<1>2. CASE Escape(t)
  <2>1. /\ pc' = [pc EXCEPT ![t] = "idle"] /\ result' = [result EXCEPT ![t] = "cancelled"]
        /\ rows' = rows
    BY <1>2 DEF Escape, Cancel, Return, Goto
  <2>2. RowsType' /\ TaskRows(t)'
    BY <2>1 DEF RowsOK, RowsType, TaskRows, Label, Results
  <2>3. QED BY <2>1, <2>2, OneTask DEF RowsOK, RowsType
<1>3. QED BY <1>1, <1>2

\* The call goes on after HTTP 429.
LEMMA RetryRows ==
  ASSUME RowsOK, NEW t \in Tasks, TooMany(t) \/ Retry(t)
  PROVE  RowsOK'
<1>0. RowsType
  BY DEF RowsOK
<1>r. PICK r \in Results : result' = [result EXCEPT ![t] = r]
  BY <1>0 DEF TooMany, Retry, Quiet, RowsType
<1>1. CASE TooMany(t)
  <2>1. pc[t] = "sent" /\ pc' = [pc EXCEPT ![t] = "backoff"] /\ Emit(t, "first", "failed")
    BY <1>1 DEF TooMany, RateLimited, Goto
  <2>2. Rows(t, <<"started">>, <<>>)
    BY <2>1 DEF RowsOK, TaskRows
  <2>3. rows' = [rows EXCEPT ![t] = Both(<<"started", "failed">>, <<>>)]
    <3>1. rows[t]["first"] = <<"started">> /\ rows[t]["retry"] = <<>>
      BY <2>2 DEF Rows
    <3>2. rows' = [rows EXCEPT ![t] = Both(Append(<<"started">>, "failed"), <<>>)]
      BY <1>0, <2>1, <3>1, Emits
    <3>3. QED BY <3>2, RowFacts
  <2>4. /\ RowsType' /\ pc'[t] = "backoff"
        /\ rows'[t]["first"] = <<"started", "failed">> /\ rows'[t]["retry"] = <<>>
        /\ \A u \in Tasks \ {t} :
             pc'[u] = pc[u] /\ result'[u] = result[u] /\ rows'[u] = rows[u]
    BY <1>r, <2>1, <2>3, Moves, ZenonT(30) DEF Label, Trace
  <2>5. TaskRows(t)'
    BY <2>4 DEF TaskRows, Rows
  <2>6. QED BY <2>4, <2>5, OneTask
<1>2. CASE Retry(t)
  <2>1. pc[t] = "backoff" /\ pc' = [pc EXCEPT ![t] = "resent"] /\ Emit(t, "retry", "started")
    BY <1>2 DEF Retry, Resend, Goto
  <2>2. Rows(t, <<"started", "failed">>, <<>>)
    BY <2>1 DEF RowsOK, TaskRows
  <2>3. rows' = [rows EXCEPT ![t] = Both(<<"started", "failed">>, <<"started">>)]
    <3>1. rows[t]["first"] = <<"started", "failed">> /\ rows[t]["retry"] = <<>>
      BY <2>2 DEF Rows
    <3>2. rows' = [rows EXCEPT ![t] = Both(<<"started", "failed">>, Append(<<>>, "started"))]
      BY <1>0, <2>1, <3>1, Emits
    <3>3. QED BY <3>2, RowFacts
  <2>4. /\ RowsType' /\ pc'[t] = "resent"
        /\ rows'[t]["first"] = <<"started", "failed">> /\ rows'[t]["retry"] = <<"started">>
        /\ \A u \in Tasks \ {t} :
             pc'[u] = pc[u] /\ result'[u] = result[u] /\ rows'[u] = rows[u]
    BY <1>r, <2>1, <2>3, Moves, ZenonT(30) DEF Label, Trace
  <2>5. TaskRows(t)'
    BY <2>4 DEF TaskRows, Rows
  <2>6. QED BY <2>4, <2>5, OneTask
<1>3. QED BY <1>1, <1>2

\* The call fails, at its request or at its retry.
LEMMA FailedRows ==
  ASSUME RowsOK, NEW t \in Tasks,
         RequestFails(t) \/ RetryFails(t) \/ \E s \in Statuses : Refused(t, s)
  PROVE  RowsOK'
<1>0. RowsType
  BY DEF RowsOK
<1>1. PICK r \in {"retryable", "permanent"} : result' = [result EXCEPT ![t] = r]
  BY DEF RequestFails, RetryFails, Refused, End
<1>2. /\ pc' = [pc EXCEPT ![t] = "idle"]
      /\ \/ pc[t] = "sent" /\ Emit(t, "first", "failed")
         \/ pc[t] = "resent" /\ Emit(t, "retry", "failed")
  BY DEF RequestFails, RetryFails, Refused, Return, Goto, EmitRetryFailed
<1>3. PICK s2 \in {<<>>, <<"started", "failed">>} :
        rows' = [rows EXCEPT ![t] = Both(<<"started", "failed">>, s2)]
  <2>1. CASE pc[t] = "sent" /\ Emit(t, "first", "failed")
    <3>1. Rows(t, <<"started">>, <<>>)
      BY <2>1 DEF RowsOK, TaskRows
    <3>2. rows[t]["first"] = <<"started">> /\ rows[t]["retry"] = <<>>
      BY <3>1 DEF Rows
    <3>3. rows' = [rows EXCEPT ![t] = Both(Append(<<"started">>, "failed"), <<>>)]
      BY <1>0, <2>1, <3>2, Emits
    <3>4. rows' = [rows EXCEPT ![t] = Both(<<"started", "failed">>, <<>>)]
      BY <3>3, RowFacts
    <3>5. QED BY <3>4
  <2>2. CASE pc[t] = "resent" /\ Emit(t, "retry", "failed")
    <3>1. Rows(t, <<"started", "failed">>, <<"started">>)
      BY <2>2 DEF RowsOK, TaskRows
    <3>2. rows[t]["first"] = <<"started", "failed">> /\ rows[t]["retry"] = <<"started">>
      BY <3>1 DEF Rows
    <3>3. rows' = [rows EXCEPT ![t] =
                     Both(<<"started", "failed">>, Append(<<"started">>, "failed"))]
      BY <1>0, <2>2, <3>2, Emits
    <3>4. rows' = [rows EXCEPT ![t] = Both(<<"started", "failed">>, <<"started", "failed">>)]
      BY <3>3, RowFacts
    <3>5. QED BY <3>4
  <2>3. QED BY <1>2, <2>1, <2>2
<1>4. /\ RowsType' /\ pc'[t] = "idle" /\ result'[t] = r
      /\ rows'[t]["first"] = <<"started", "failed">> /\ rows'[t]["retry"] = s2
      /\ \A u \in Tasks \ {t} :
           pc'[u] = pc[u] /\ result'[u] = result[u] /\ rows'[u] = rows[u]
  <2>1. /\ "idle" \in Label /\ r \in Results
        /\ <<"started", "failed">> \in Trace /\ s2 \in Trace
    BY DEF Label, Results, Trace
  <2>2. pc' = [pc EXCEPT ![t] = "idle"]
    BY <1>2
  <2>3. QED BY <1>1, <1>3, <2>1, <2>2, Moves
<1>5. TaskRows(t)'
  BY <1>4 DEF TaskRows, Rows
<1>6. QED BY <1>4, <1>5, OneTask

LEMMA AnsweredRows == ASSUME RowsOK, NEW t \in Tasks, Answered(t) PROVE RowsOK'
<1>1. /\ pc[t] \in {"sent", "resent"} /\ pc' = [pc EXCEPT ![t] = "idle"]
      /\ result' = [result EXCEPT ![t] = "page"]
  BY DEF Answered, Return, Goto, End
<1>2. \/ /\ pc[t] = "sent" /\ rows[t]["first"] = <<"started">> /\ rows[t]["retry"] = <<>>
      \/ /\ pc[t] = "resent"
         /\ rows[t]["first"] = <<"started", "failed">> /\ rows[t]["retry"] = <<"started">>
  BY <1>1 DEF RowsOK, TaskRows, Rows
<1>3. rows' = [rows EXCEPT ![t] =
                 Both(Append(rows[t]["first"], "succeeded"),
                      IF pc[t] = "resent" THEN Append(rows[t]["retry"], "succeeded")
                                          ELSE rows[t]["retry"])]
  <2>1. [a \in Attempt |-> IF a = "first" \/ pc[t] = "resent"
                           THEN Append(rows[t][a], "succeeded") ELSE rows[t][a]]
        = Both(Append(rows[t]["first"], "succeeded"),
               IF pc[t] = "resent" THEN Append(rows[t]["retry"], "succeeded")
                                   ELSE rows[t]["retry"])
    BY DEF Attempt, Both
  <2>2. QED BY <2>1 DEF Answered, RowsOK, RowsType
<1>4. PICK s1 \in Trace, s2 \in Trace :
        /\ \/ s1 = <<"started", "succeeded">> /\ s2 = <<>>
           \/ s1 = <<"started", "failed", "succeeded">> /\ s2 = <<"started", "succeeded">>
        /\ rows' = [rows EXCEPT ![t] = Both(s1, s2)]
  BY <1>2, <1>3, RowFacts DEF Trace
<1>5. /\ RowsType' /\ pc'[t] = "idle" /\ result'[t] = "page"
      /\ rows'[t]["first"] = s1 /\ rows'[t]["retry"] = s2
      /\ \A u \in Tasks \ {t} :
           pc'[u] = pc[u] /\ result'[u] = result[u] /\ rows'[u] = rows[u]
  <2>1. "idle" \in Label /\ "page" \in Results
    BY DEF Label, Results
  <2>2. pc' = [pc EXCEPT ![t] = "idle"] /\ result' = [result EXCEPT ![t] = "page"]
    BY <1>1
  <2>3. rows' = [rows EXCEPT ![t] = Both(s1, s2)]
    BY <1>4
  <2>4. QED BY <2>1, <2>2, <2>3, Moves
<1>6. TaskRows(t)'
  BY <1>4, <1>5 DEF TaskRows, Rows
<1>7. QED BY <1>5, <1>6, OneTask

LEMMA StepRows == RowsOK /\ [ANext]_<<vars, call>> => RowsOK'
<1> SUFFICES ASSUME RowsOK, [ANext]_<<vars, call>> PROVE RowsOK'
  OBVIOUS
<1>1. CASE \E t \in Tasks, d \in Domains : RefuseBlocked(t, d) \/ Request(t, d)
  BY <1>1, EnterRows
<1>2. CASE \E t \in Tasks : Paced(t) \/ Escape(t)
  BY <1>2, SilentRows
<1>3. CASE \E t \in Tasks : TooMany(t) \/ Retry(t)
  BY <1>3, RetryRows
<1>4. CASE \E t \in Tasks : RequestFails(t) \/ RetryFails(t) \/ \E s \in Statuses : Refused(t, s)
  BY <1>4, FailedRows
<1>5. CASE \E t \in Tasks : Answered(t)
  BY <1>5, AnsweredRows
<1>6. CASE \/ \E t \in Tasks, c \in Contents : Extract(t, c)
           \/ Tick /\ UNCHANGED call
           \/ UNCHANGED <<vars, call>>
  <2>1. UNCHANGED <<pc, rows, result>>
    BY <1>6 DEF Extract, Tick, vars, call
  <2>2. QED BY <2>1 DEF RowsOK, RowsType, TaskRows, Rows
<1>7. QED BY <1>1, <1>2, <1>3, <1>4, <1>5, <1>6 DEF ANext

\* A call that ended has closed every attempt it opened, with its own verdict on
\* the last one.
THEOREM EveryAttemptIsClosed == ASpec => []AttemptsClosed
<1>1. AInit => RowsOK
  <2> SUFFICES ASSUME AInit PROVE RowsOK
    OBVIOUS
  <2>1. /\ pc = [t \in Tasks |-> "idle"] /\ result = [t \in Tasks |-> "none"]
        /\ rows = [t \in Tasks |-> [a \in Attempt |-> <<>>]]
    BY DEF AInit, Init
  <2>2. RowsType
    <3>1. "idle" \in Label /\ "none" \in Results /\ <<>> \in Trace
      BY DEF Label, Results, Trace
    <3>2. QED BY <2>1, <3>1 DEF RowsType
  <2>3. \A t \in Tasks : TaskRows(t)
    BY <2>1 DEF TaskRows
  <2>4. QED BY <2>2, <2>3 DEF RowsOK
<1>2. RowsOK => AttemptsClosed
  <2> SUFFICES ASSUME RowsOK, NEW t \in Tasks, pc[t] = "idle",
                      result[t] \notin {"none", "cancelled"}, NEW a \in Attempt,
                      rows[t][a] # <<>>
               PROVE  rows[t][a][Len(rows[t][a])]
                        = IF result[t] = "page" THEN "succeeded" ELSE "failed"
    BY DEF AttemptsClosed
  <2>1. CASE result[t] = "page"
    <3>1. /\ rows[t]["first"] \in {<<"started", "succeeded">>, <<"started", "failed", "succeeded">>}
          /\ rows[t]["retry"] \in {<<>>, <<"started", "succeeded">>}
      BY <2>1 DEF RowsOK, TaskRows, Rows
    <3>2. rows[t][a] \in {<<"started", "succeeded">>, <<"started", "failed", "succeeded">>}
      BY <3>1 DEF Attempt
    <3>3. QED BY <2>1, <3>2, RowEnds
  <2>2. CASE result[t] \in {"retryable", "permanent"}
    <3>1. /\ rows[t]["first"] = <<"started", "failed">>
          /\ rows[t]["retry"] \in {<<>>, <<"started", "failed">>}
      BY <2>2 DEF RowsOK, TaskRows, Rows
    <3>2. rows[t][a] = <<"started", "failed">>
      BY <3>1 DEF Attempt
    <3>3. QED BY <2>2, <3>2, RowEnds
  <2>3. QED BY <2>1, <2>2 DEF RowsOK, RowsType, Results
<1>3. QED BY <1>1, <1>2, StepRows, PTL DEF ASpec

=============================================================================
