------------------------- MODULE FetchExtractProofs -------------------------
(***************************************************************************)
(* What fetch() and extract() promise, for any statuses a peer may answer  *)
(* with, any contents of pages and any number of calls.                    *)
(***************************************************************************)
EXTENDS FetchExtract, SequenceTheorems, TLAPS

Route == {"direct", "crawl4ai", "jina"}

Blocked(p) == DetectAccessBlock(p) \in {"challenge_detected", "access_denied"}

\* Where a call stands: what it has sent and what it has seen say how far it has
\* climbed the ladder.
Ladder ==
  /\ pc = "request"    => sent.direct = 0 /\ ~captcha
  /\ pc = "retry"      => sent.direct = 1 /\ ~captcha
  /\ pc \in {"request", "retry"} => sent.crawl4ai = 0 /\ sent.jina = 0
  /\ pc = "crawl4ai"   => /\ cfg.antibot /\ Blocked(page) /\ ~captcha
                          /\ sent.crawl4ai = 0 /\ sent.jina = 0
  /\ pc = "jina"       => /\ cfg.jina /\ Blocked(page) /\ ~captcha /\ sent.jina = 0
                          /\ cfg.antibot => sent.crawl4ai = 1
  /\ captcha           => outcome.kind # "resource"
  /\ pc # "idle"       => outcome = Pending

\* The last row of an attempt that was opened is a verdict.
Closed(a) == rows[a] # <<>> => Last(rows[a]) \in {"failed", "succeeded"}

\* The direct requests a call has behind it are closed; the retry is not open yet.
Rows ==
  /\ pc = "request" => rows["retry"] = <<>>
  /\ pc = "retry"   => Closed("first")
  /\ pc \in {"crawl4ai", "jina", "unresolved"} => Closed("first") /\ Closed("retry")

\* How a resource was fetched names the browser that made its page, if any.
MethodNamesBrowser ==
  outcome.kind = "resource" =>
    /\ outcome.transport = "playwright" => outcome.fetch_method = "render_playwright"
    /\ outcome.transport = "crawl4ai"   => outcome.fetch_method = "crawl4ai"

FetchInv ==
  /\ TypeOK /\ Ladder /\ Rows /\ MethodNamesBrowser
  /\ ReturnedPageUnblocked /\ EscalationLadder /\ OutcomeCounted /\ EveryAttemptClosed

\* A page that is being rendered was found and has its own text to fall back on;
\* once an extraction is over, no fetch() runs until the user asks for another.
Extracting ==
  /\ extracting = "rendering" => /\ given.resource.kind = "resource" /\ doc.of = "page"
                                 /\ extractRows = <<"started">>
  /\ extracting = "no" /\ pc # "idle" => given.resource.kind # "resource"

ExtractInv == FetchInv /\ ExtractTypeOK /\ Extracting /\ ExtractionSettles /\ RenderedOnce

-----------------------------------------------------------------------------
(* What the helpers of the fetcher do.                                       *)

\* Four counters end a call; the other two do not.
LEMMA Bumped ==
  ASSUME metrics \in [Counter -> Nat], NEW c \in Counter, Bump(c)
  PROVE  /\ metrics' \in [Counter -> Nat]
         /\ c \in {"retried", "escalated"} => Ended(metrics)' = Ended(metrics)
         /\ c \notin {"retried", "escalated"} => Ended(metrics)' = Ended(metrics) + 1
BY DEF Bump, Ended, Counter

\* One request more by one route.
LEMMA Sent ==
  ASSUME sent \in [Route -> Nat], NEW r \in Route, Send(r)
  PROVE  /\ sent' \in [Route -> Nat]
         /\ sent'[r] = sent[r] + 1
         /\ \A q \in Route : q # r => sent'[q] = sent[q]
BY DEF Send

\* The row that ends an attempt is its last.
LEMMA LastOfAppend ==
  ASSUME NEW S, NEW s \in Seq(S), NEW x \in S
  PROVE  /\ Append(s, x) \in Seq(S) /\ Append(s, x) # <<>>
         /\ Last(Append(s, x)) = x
BY DEF Last

LEMMA TwoRows ==
  ASSUME NEW S, NEW x \in S, NEW y \in S
  PROVE  Append(<<x>>, y) = <<x, y>>
<1>1. PICK s : s = Append(<<x>>, y)
  OBVIOUS
<1>2. PICK t : t = <<x, y>>
  OBVIOUS
<1>3. s \in Seq(S) /\ Len(s) = 2 /\ s[1] = x /\ s[2] = y
  BY <1>1, AppendProperties
<1>4. t \in Seq(S) /\ Len(t) = 2 /\ t[1] = x /\ t[2] = y
  BY <1>2
<1>5. \A i \in 1..Len(s) : s[i] = t[i]
  BY <1>3, <1>4
<1>6. s = t
  BY <1>3, <1>4, <1>5, SeqEqual
<1>7. QED BY <1>1, <1>2, <1>6

LEMMA EmitsOne ==
  ASSUME rows \in [Attempt -> Seq(RowStatus)], NEW a \in Attempt,
         NEW x \in RowStatus, Emit(a, <<x>>)
  PROVE  /\ rows' \in [Attempt -> Seq(RowStatus)]
         /\ \A b \in Attempt : b # a => rows'[b] = rows[b]
         /\ rows'[a] # <<>> /\ Last(rows'[a]) = x
<1>1. rows' = [rows EXCEPT ![a] = rows[a] \o <<x>>]
  BY DEF Emit
<1>2. rows[a] \in Seq(RowStatus)
  OBVIOUS
<1>3. /\ rows[a] \o <<x>> \in Seq(RowStatus) /\ rows[a] \o <<x>> # <<>>
      /\ Last(rows[a] \o <<x>>) = x
  BY <1>2 DEF Last
<1>4. QED BY <1>1, <1>3

LEMMA EmitsTwo ==
  ASSUME rows \in [Attempt -> Seq(RowStatus)], NEW a \in Attempt,
         NEW x \in RowStatus, NEW y \in RowStatus, Emit(a, <<x, y>>)
  PROVE  /\ rows' \in [Attempt -> Seq(RowStatus)]
         /\ \A b \in Attempt : b # a => rows'[b] = rows[b]
         /\ rows'[a] # <<>> /\ Last(rows'[a]) = y
<1>1. rows' = [rows EXCEPT ![a] = rows[a] \o <<x, y>>]
  BY DEF Emit
<1>2. rows[a] \in Seq(RowStatus)
  OBVIOUS
<1>3. /\ rows[a] \o <<x, y>> \in Seq(RowStatus) /\ rows[a] \o <<x, y>> # <<>>
      /\ Last(rows[a] \o <<x, y>>) = y
  BY <1>2 DEF Last
<1>4. QED BY <1>1, <1>3

\* What classifying a page means.
LEMMA Classified ==
  ASSUME NEW p
  PROVE  /\ DetectAccessBlock(p) \in BlockReason \cup {"none"}
         /\ DetectAccessBlock(p) = "captcha_required" <=> p.marker = "captcha"
         /\ p \in Page => (DetectAccessBlock(p) = "none"
                             <=> p.marker = "none" /\ p.status # 403)
BY DEF DetectAccessBlock, BlockReason, Page, Marker

\* A call that ends is counted, or it is settled by a fallback or escapes.
LEMMA CountedOnce ==
  ASSUME TypeOK, OutcomeCounted, pc # "idle", pc' = "idle", before' = before,
         Ended(metrics)' = Ended(metrics) + 1
  PROVE  OutcomeCounted'
<1>1. Ended(metrics) \in Nat /\ before \in Nat
  BY DEF TypeOK, Ended, Counter
<1>2. Ended(metrics) - before = 0
  BY DEF OutcomeCounted
<1>3. Ended(metrics)' - before' = 1
  BY <1>1, <1>2
<1>4. QED BY <1>3 DEF OutcomeCounted

LEMMA NotCounted ==
  ASSUME TypeOK, OutcomeCounted, pc # "idle", before' = before,
         Ended(metrics)' = Ended(metrics),
         pc' = "idle" => outcome' = Escape \/ sent'.crawl4ai + sent'.jina # 0
  PROVE  OutcomeCounted'
<1>1. Ended(metrics)' - before' = 0
  BY DEF OutcomeCounted
<1>2. QED BY <1>1 DEF OutcomeCounted

\* What a call may return or raise.
LEMMA ErrorIsOutcome ==
  ASSUME NEW b \in BOOLEAN, NEW r \in BlockReason \cup {"none"}
  PROVE  FetchError(b, r) \in Outcome /\ FetchError(b, r).kind = "error"
BY DEF FetchError, Outcome

LEMMA ResourceIsOutcome ==
  ASSUME NEW m \in Method, NEW t \in Method, NEW p \in Page
  PROVE  Resource(m, t, p) \in Outcome /\ Resource(m, t, p).kind = "resource"
BY DEF Resource, Outcome

\* Giving up counts the call, closes its first attempt and raises an error.
LEMMA GivesUp ==
  ASSUME metrics \in [Counter -> Nat], rows \in [Attempt -> Seq(RowStatus)],
         NEW p, NEW reason \in BlockReason \cup {"none"}, GiveUp(p, reason)
  PROVE  /\ metrics' \in [Counter -> Nat]
         /\ Ended(metrics)' = Ended(metrics) + 1
         /\ rows' \in [Attempt -> Seq(RowStatus)]
         /\ \A b \in Attempt : b # "first" => rows'[b] = rows[b]
         /\ rows'["first"] # <<>> /\ Last(rows'["first"]) = "failed"
         /\ pc' = "idle" /\ outcome' \in Outcome /\ outcome'.kind = "error"
<1>1. PICK c \in {"failed", "skipped_permanent"} : Bump(c)
  BY DEF GiveUp
<1>2. metrics' \in [Counter -> Nat] /\ Ended(metrics)' = Ended(metrics) + 1
  BY <1>1, Bumped DEF Counter
<1>3. /\ rows' \in [Attempt -> Seq(RowStatus)]
      /\ \A b \in Attempt : b # "first" => rows'[b] = rows[b]
      /\ rows'["first"] # <<>> /\ Last(rows'["first"]) = "failed"
  BY EmitsOne DEF GiveUp, Attempt, RowStatus
<1>4. pc' = "idle" /\ outcome' \in Outcome /\ outcome'.kind = "error"
  BY DEF GiveUp, Finish, Outcome, FetchError
<1>5. QED BY <1>2, <1>3, <1>4

\* Where the ladder is entered: never for a CAPTCHA, nor for a route not enabled.
LEMMA FallbackChosen ==
  ASSUME NEW reason \in BlockReason
  PROVE  /\ FirstFallback(reason) \in {"crawl4ai", "jina", "unresolved"}
         /\ FirstFallback(reason) = "crawl4ai" => cfg.antibot /\ reason # "captcha_required"
         /\ FirstFallback(reason) = "jina" =>
              ~cfg.antibot /\ cfg.jina /\ reason # "captcha_required"
BY DEF FirstFallback, AfterCrawl4ai

-----------------------------------------------------------------------------
(* The induction over the steps of fetch().                                  *)

LEMMA FetchInit == Init => FetchInv
<1> SUFFICES ASSUME Init PROVE FetchInv
  OBVIOUS
<1> USE DEF Init
<1>1. TypeOK
  <2>1. metrics \in [Counter -> Nat] /\ rows \in [Attempt -> Seq(RowStatus)]
    BY DEF Counter, Attempt
  <2>2. outcome \in Outcome /\ calls \in 0..MaxCalls
    BY MaxCallsAssumption DEF Outcome, Pending
  <2>3. sent \in [{"direct", "crawl4ai", "jina"} -> Nat]
    OBVIOUS
  <2>4. QED BY <2>1, <2>2, <2>3 DEF TypeOK
<1>2. Ladder /\ Rows /\ EscalationLadder
  BY DEF Ladder, Rows, EscalationLadder
<1>3. MethodNamesBrowser /\ ReturnedPageUnblocked
  BY DEF MethodNamesBrowser, ReturnedPageUnblocked, Pending
<1>4. OutcomeCounted
  BY DEF OutcomeCounted, Ended, Counter
<1>5. EveryAttemptClosed
  BY DEF EveryAttemptClosed, Attempt, Pending
<1>6. QED BY <1>1, <1>2, <1>3, <1>4, <1>5 DEF FetchInv

LEMMA StepRefuseBlocked ==
  ASSUME FetchInv, NEW m \in {"auto", "always"}, RefuseBlocked(m)
  PROVE  FetchInv'
<1> USE DEF RefuseBlocked, NewCall, Finish, FetchInv
<1>1. /\ metrics' \in [Counter -> Nat]
      /\ Ended(metrics)' = Ended(metrics) + 1
  <2>1. metrics \in [Counter -> Nat] /\ "skipped_blocked" \in Counter /\ Bump("skipped_blocked")
    BY DEF TypeOK, Counter
  <2>2. QED BY <2>1, Bumped
<1>2. rows' \in [Attempt -> Seq(RowStatus)]
  BY DEF Attempt, RowStatus
<1>3. Ended(metrics) \in Nat
  BY DEF TypeOK, Ended, Counter
<1>4. outcome' \in Outcome /\ outcome'.kind = "error"
  BY DEF Outcome, FetchError
<1>5. TypeOK'
  <2>1. calls' \in 0..MaxCalls
    BY MaxCallsAssumption DEF TypeOK
  <2>2. sent' \in [{"direct", "crawl4ai", "jina"} -> Nat]
    OBVIOUS
  <2>3. QED BY <1>1, <1>2, <1>3, <1>4, <2>1, <2>2 DEF TypeOK
<1>6. Ladder' /\ Rows'
  BY <1>4 DEF Ladder, Rows, Attempt
<1>7. EscalationLadder'
  BY <1>4 DEF EscalationLadder
<1>8. MethodNamesBrowser' /\ ReturnedPageUnblocked'
  BY <1>4 DEF MethodNamesBrowser, ReturnedPageUnblocked
<1>9. OutcomeCounted'
  <2>1. Ended(metrics)' - before' = 1
    BY <1>1, <1>3
  <2>2. pc' = "idle"
    OBVIOUS
  <2>3. QED BY ONLY <2>1, <2>2 DEF OutcomeCounted
<1>10. EveryAttemptClosed'
  BY <1>4 DEF EveryAttemptClosed, Attempt, Last
<1>11. QED BY <1>5, <1>6, <1>7, <1>8, <1>9, <1>10

LEMMA StepStart ==
  ASSUME FetchInv, NEW m \in {"auto", "always"}, Start(m)
  PROVE  FetchInv'
<1> USE DEF Start, NewCall
<1>0. TypeOK
  BY DEF FetchInv
<1>1. rows' \in [Attempt -> Seq(RowStatus)]
  BY DEF Attempt, RowStatus
<1>2. Ended(metrics) \in Nat
  BY <1>0 DEF TypeOK, Ended, Counter
<1>3. Pending \in Outcome /\ Pending.kind = "pending"
  BY DEF Outcome, Pending
<1>4. TypeOK'
  <2>1. calls' \in 0..MaxCalls
    BY <1>0, MaxCallsAssumption DEF TypeOK
  <2>2. sent' \in [{"direct", "crawl4ai", "jina"} -> Nat]
    OBVIOUS
  <2>3. QED BY <1>0, <1>1, <1>2, <1>3, <2>1, <2>2 DEF TypeOK
<1>5. Ladder' /\ Rows'
  BY <1>3 DEF Ladder, Rows, Attempt
<1>6. EscalationLadder'
  BY DEF EscalationLadder
<1>7. MethodNamesBrowser' /\ ReturnedPageUnblocked'
  BY <1>3 DEF MethodNamesBrowser, ReturnedPageUnblocked
<1>8. OutcomeCounted'
  <2>1. pc' = "request" /\ Ended(metrics)' - before' = 0
    BY <1>2
  <2>2. QED BY ONLY <2>1 DEF OutcomeCounted
<1>9. EveryAttemptClosed'
  BY DEF EveryAttemptClosed
<1>10. QED BY <1>4, <1>5, <1>6, <1>7, <1>8, <1>9 DEF FetchInv

LEMMA StepRequestFails ==
  ASSUME FetchInv, RequestFails
  PROVE  FetchInv'
<1> USE DEF RequestFails, Finish
<1>0. TypeOK /\ Ladder /\ Rows /\ EscalationLadder /\ OutcomeCounted
  BY DEF FetchInv
<1>1. /\ metrics' \in [Counter -> Nat]
      /\ Ended(metrics)' = Ended(metrics) + 1
  BY <1>0, Bumped DEF TypeOK, Counter
<1>2. /\ rows' \in [Attempt -> Seq(RowStatus)]
      /\ \A b \in Attempt : b # "first" => rows'[b] = rows[b]
      /\ rows'["first"] # <<>> /\ Last(rows'["first"]) = "failed"
  BY <1>0, EmitsOne DEF TypeOK, Attempt, RowStatus
<1>3. /\ sent' \in [Route -> Nat] /\ sent'.direct = 1
      /\ sent'.crawl4ai = 0 /\ sent'.jina = 0
  BY <1>0, Sent DEF TypeOK, Route, Ladder
<1>4. outcome' \in Outcome /\ outcome'.kind = "error"
  BY DEF Outcome, FetchError
<1>5. TypeOK'
  BY <1>0, <1>1, <1>2, <1>3, <1>4 DEF TypeOK, Route
<1>6. Ladder'
  BY <1>0, <1>3, <1>4 DEF Ladder
<1>7. EscalationLadder'
  BY <1>3 DEF EscalationLadder
<1>8. Rows' /\ MethodNamesBrowser' /\ ReturnedPageUnblocked'
  BY <1>4 DEF Rows, MethodNamesBrowser, ReturnedPageUnblocked
<1>9. OutcomeCounted'
  BY <1>0, <1>1, CountedOnce
<1>10. EveryAttemptClosed'
  BY <1>0, <1>2, <1>4 DEF EveryAttemptClosed, Rows, Attempt
<1>11. QED BY <1>5, <1>6, <1>8, <1>9, <1>10, <1>7 DEF FetchInv

LEMMA StepRequestEscapes ==
  ASSUME FetchInv, RequestEscapes
  PROVE  FetchInv'
<1> USE DEF RequestEscapes, Finish
<1>0. /\ TypeOK /\ Ladder /\ Rows /\ MethodNamesBrowser /\ ReturnedPageUnblocked
      /\ EscalationLadder /\ OutcomeCounted /\ EveryAttemptClosed
  BY DEF FetchInv
<1>1. /\ sent' \in [Route -> Nat] /\ sent'.direct = 1
      /\ sent'.crawl4ai = 0 /\ sent'.jina = 0
  BY <1>0, Sent DEF TypeOK, Route, Ladder
<1>2. outcome' \in Outcome /\ outcome'.kind = "escape"
  BY DEF Outcome, Escape
<1>3. TypeOK'
  BY <1>0, <1>1, <1>2 DEF TypeOK, Route
<1>4. Ladder'
  BY <1>0, <1>2 DEF Ladder
<1>5. Rows' /\ MethodNamesBrowser' /\ ReturnedPageUnblocked'
  BY <1>2 DEF Rows, MethodNamesBrowser, ReturnedPageUnblocked
<1>6. EscalationLadder'
  BY <1>1 DEF EscalationLadder
<1>7. OutcomeCounted'
  BY <1>0, NotCounted
<1>8. EveryAttemptClosed'
  BY DEF EveryAttemptClosed
<1>9. QED BY <1>3, <1>4, <1>5, <1>6, <1>7, <1>8 DEF FetchInv

LEMMA StepRateLimited ==
  ASSUME FetchInv, NEW p \in Page, RateLimited(p)
  PROVE  FetchInv'
<1> USE DEF RateLimited
<1>0. /\ TypeOK /\ Ladder /\ Rows /\ MethodNamesBrowser /\ ReturnedPageUnblocked
      /\ EscalationLadder /\ OutcomeCounted /\ EveryAttemptClosed
  BY DEF FetchInv
<1>1. /\ sent' \in [Route -> Nat] /\ sent'.direct = 1
      /\ sent'.crawl4ai = 0 /\ sent'.jina = 0
  BY <1>0, Sent DEF TypeOK, Route, Ladder
<1>2. metrics' \in [Counter -> Nat] /\ Ended(metrics)' = Ended(metrics)
  BY <1>0, Bumped DEF TypeOK, Counter
<1>3. /\ Append(rows["first"], "failed") \in Seq(RowStatus)
      /\ Last(Append(rows["first"], "failed")) = "failed"
  BY <1>0, LastOfAppend DEF TypeOK, Attempt, RowStatus
<1>4. /\ rows' \in [Attempt -> Seq(RowStatus)] /\ Last(rows'["first"]) = "failed"
  <2>1. rows'["first"] = Append(rows["first"], "failed")
    BY <1>0 DEF TypeOK, Attempt
  <2>2. rows' \in [Attempt -> Seq(RowStatus)]
    <3>1. <<"started">> \in Seq(RowStatus)
      BY DEF RowStatus
    <3>2. QED BY <1>0, <1>3, <3>1 DEF TypeOK
  <2>3. QED BY <1>3, <2>1, <2>2
<1>5. TypeOK'
  BY <1>0, <1>1, <1>2, <1>4 DEF TypeOK, Route
<1>6. Ladder'
  BY <1>0, <1>1 DEF Ladder
<1>7. Rows'
  BY <1>4 DEF Rows, Closed
<1>8. MethodNamesBrowser' /\ ReturnedPageUnblocked'
  BY <1>0 DEF MethodNamesBrowser, ReturnedPageUnblocked
<1>9. EscalationLadder'
  BY <1>1 DEF EscalationLadder
<1>10. OutcomeCounted'
  BY <1>0, <1>2, NotCounted
<1>11. EveryAttemptClosed'
  BY DEF EveryAttemptClosed
<1>12. QED BY <1>5, <1>6, <1>7, <1>8, <1>9, <1>10, <1>11 DEF FetchInv

LEMMA StepRetryFails ==
  ASSUME FetchInv, NEW p \in Page \cup {NoPage}, RetryFails(p)
  PROVE  FetchInv'
<1> USE DEF RetryFails, Finish
<1>0. /\ TypeOK /\ Ladder /\ Rows /\ MethodNamesBrowser /\ ReturnedPageUnblocked
      /\ EscalationLadder /\ OutcomeCounted /\ EveryAttemptClosed
  BY DEF FetchInv
<1>1. /\ sent' \in [Route -> Nat] /\ sent'.direct = 2
      /\ sent'.crawl4ai = 0 /\ sent'.jina = 0
  BY <1>0, Sent DEF TypeOK, Route, Ladder
<1>2. metrics' \in [Counter -> Nat] /\ Ended(metrics)' = Ended(metrics) + 1
  BY <1>0, Bumped DEF TypeOK, Counter
<1>3. /\ rows' \in [Attempt -> Seq(RowStatus)]
      /\ \A b \in Attempt : b # "retry" => rows'[b] = rows[b]
      /\ rows'["retry"] # <<>> /\ Last(rows'["retry"]) = "failed"
  BY <1>0, EmitsOne DEF TypeOK, Attempt, RowStatus
<1>4. outcome' \in Outcome /\ outcome'.kind = "error"
  BY DEF Outcome, FetchError
<1>5. TypeOK'
  BY <1>0, <1>1, <1>2, <1>3, <1>4 DEF TypeOK, Route
<1>6. Ladder'
  BY <1>0, <1>4 DEF Ladder
<1>7. Rows' /\ MethodNamesBrowser' /\ ReturnedPageUnblocked'
  BY <1>4 DEF Rows, MethodNamesBrowser, ReturnedPageUnblocked
<1>8. EscalationLadder'
  BY <1>1 DEF EscalationLadder
<1>9. OutcomeCounted'
  BY <1>0, <1>2, CountedOnce
<1>10. EveryAttemptClosed'
  BY <1>0, <1>3, <1>4 DEF EveryAttemptClosed, Rows, Closed, Attempt
<1>11. QED BY <1>5, <1>6, <1>7, <1>8, <1>9, <1>10 DEF FetchInv

LEMMA StepCrawl4aiFails ==
  ASSUME FetchInv, Crawl4aiFails
  PROVE  FetchInv'
<1> USE DEF Crawl4aiFails
<1>0. /\ TypeOK /\ Ladder /\ Rows /\ MethodNamesBrowser /\ ReturnedPageUnblocked
      /\ EscalationLadder /\ OutcomeCounted /\ EveryAttemptClosed
  BY DEF FetchInv
<1>1. /\ sent' \in [Route -> Nat] /\ sent'.direct = sent.direct
      /\ sent'.crawl4ai = 1 /\ sent'.jina = 0
  BY <1>0, Sent DEF TypeOK, Route, Ladder
<1>2. metrics' \in [Counter -> Nat] /\ Ended(metrics)' = Ended(metrics)
  BY <1>0, Bumped DEF TypeOK, Counter
<1>3. /\ rows' \in [Attempt -> Seq(RowStatus)]
      /\ \A b \in Attempt : b # "crawl4ai" => rows'[b] = rows[b]
  <2>1. /\ rows \in [Attempt -> Seq(RowStatus)] /\ "crawl4ai" \in Attempt
        /\ "started" \in RowStatus /\ "failed" \in RowStatus
    BY <1>0 DEF TypeOK, Attempt, RowStatus
  <2>2. CASE Emit("crawl4ai", <<"started", "failed">>)
    BY <2>1, <2>2, EmitsTwo
  <2>3. CASE Emit("crawl4ai", <<"started">>)
    BY <2>1, <2>3, EmitsOne
  <2>4. QED BY <2>2, <2>3
<1>4. /\ pc' \in {"jina", "unresolved"}
      /\ pc' = "jina" => cfg.jina
      /\ outcome' = Pending /\ ~captcha
  BY <1>0 DEF AfterCrawl4ai, Ladder
<1>5. TypeOK'
  BY <1>0, <1>1, <1>2, <1>3, <1>4 DEF TypeOK, Route
<1>6. Ladder'
  BY <1>0, <1>1, <1>4 DEF Ladder
<1>7. Rows'
  BY <1>0, <1>3, <1>4 DEF Rows, Closed, Attempt
<1>8. MethodNamesBrowser' /\ ReturnedPageUnblocked'
  BY <1>0, <1>4 DEF MethodNamesBrowser, ReturnedPageUnblocked
<1>9. EscalationLadder'
  BY <1>0, <1>1 DEF EscalationLadder, Ladder, Blocked
<1>10. OutcomeCounted'
  BY <1>0, <1>1, <1>2, <1>4, NotCounted DEF Ladder
<1>11. EveryAttemptClosed'
  BY <1>0, <1>3, <1>4 DEF EveryAttemptClosed, Rows, Closed, Attempt
<1>12. QED BY <1>5, <1>6, <1>7, <1>8, <1>9, <1>10, <1>11 DEF FetchInv

LEMMA StepJinaRaises ==
  ASSUME FetchInv, NEW r \in BOOLEAN, JinaRaises(r)
  PROVE  FetchInv'
<1> USE DEF JinaRaises, Finish
<1>0. /\ TypeOK /\ Ladder /\ Rows /\ MethodNamesBrowser /\ ReturnedPageUnblocked
      /\ EscalationLadder /\ OutcomeCounted /\ EveryAttemptClosed
  BY DEF FetchInv
<1>1. /\ sent' \in [Route -> Nat] /\ sent'.direct = sent.direct
      /\ sent'.crawl4ai = sent.crawl4ai /\ sent'.jina = 1 /\ sent.crawl4ai \in Nat
  BY <1>0, Sent DEF TypeOK, Route, Ladder
<1>2. metrics' \in [Counter -> Nat] /\ Ended(metrics)' = Ended(metrics)
  BY <1>0, Bumped DEF TypeOK, Counter
<1>3. /\ rows' \in [Attempt -> Seq(RowStatus)]
      /\ \A b \in Attempt : b # "jina_reader" => rows'[b] = rows[b]
      /\ rows'["jina_reader"] # <<>> /\ Last(rows'["jina_reader"]) = "failed"
  BY <1>0, EmitsTwo DEF TypeOK, Attempt, RowStatus
<1>4. outcome' \in Outcome /\ outcome'.kind = "error"
  BY DEF Outcome, FetchError
<1>5. TypeOK'
  BY <1>0, <1>1, <1>2, <1>3, <1>4 DEF TypeOK, Route
<1>6. Ladder'
  BY <1>0, <1>1, <1>4 DEF Ladder
<1>7. Rows'
  BY <1>0, <1>3, <1>4 DEF Rows, Closed, Attempt
<1>8. MethodNamesBrowser' /\ ReturnedPageUnblocked'
  BY <1>0, <1>4 DEF MethodNamesBrowser, ReturnedPageUnblocked
<1>9. EscalationLadder'
  BY <1>0, <1>1 DEF EscalationLadder, Ladder, Blocked
<1>10. OutcomeCounted'
  BY <1>0, <1>1, <1>2, <1>4, NotCounted DEF Ladder
<1>11. EveryAttemptClosed'
  BY <1>0, <1>3, <1>4 DEF EveryAttemptClosed, Rows, Closed, Attempt
<1>12. QED BY <1>5, <1>6, <1>7, <1>8, <1>9, <1>10, <1>11 DEF FetchInv

LEMMA StepJinaBreaks ==
  ASSUME FetchInv, JinaBreaks
  PROVE  FetchInv'
<1> USE DEF JinaBreaks
<1>0. /\ TypeOK /\ Ladder /\ Rows /\ MethodNamesBrowser /\ ReturnedPageUnblocked
      /\ EscalationLadder /\ OutcomeCounted /\ EveryAttemptClosed
  BY DEF FetchInv
<1>1. /\ sent' \in [Route -> Nat] /\ sent'.direct = sent.direct
      /\ sent'.crawl4ai = sent.crawl4ai /\ sent'.jina = 1 /\ sent.crawl4ai \in Nat
  BY <1>0, Sent DEF TypeOK, Route, Ladder
<1>2. metrics' \in [Counter -> Nat] /\ Ended(metrics)' = Ended(metrics)
  BY <1>0, Bumped DEF TypeOK, Counter
<1>3. /\ rows' \in [Attempt -> Seq(RowStatus)]
      /\ \A b \in Attempt : b # "jina_reader" => rows'[b] = rows[b]
      /\ rows'["jina_reader"] # <<>> /\ Last(rows'["jina_reader"]) = "started"
  BY <1>0, EmitsOne DEF TypeOK, Attempt, RowStatus
<1>4. outcome' = Pending
  BY <1>0 DEF Ladder
<1>5. TypeOK'
  BY <1>0, <1>1, <1>2, <1>3, <1>4 DEF TypeOK, Route
<1>6. Ladder'
  BY <1>0, <1>1, <1>4 DEF Ladder
<1>7. Rows'
  BY <1>0, <1>3, <1>4 DEF Rows, Closed, Attempt
<1>8. MethodNamesBrowser' /\ ReturnedPageUnblocked'
  BY <1>0, <1>4 DEF MethodNamesBrowser, ReturnedPageUnblocked
<1>9. EscalationLadder'
  BY <1>0, <1>1 DEF EscalationLadder, Ladder, Blocked
<1>10. OutcomeCounted'
  BY <1>0, <1>1, <1>2, <1>4, NotCounted DEF Ladder
<1>11. EveryAttemptClosed'
  BY <1>0, <1>3, <1>4 DEF EveryAttemptClosed, Rows, Closed, Attempt
<1>12. QED BY <1>5, <1>6, <1>7, <1>8, <1>9, <1>10, <1>11 DEF FetchInv

LEMMA StepCrawl4aiReturns ==
  ASSUME FetchInv, NEW p \in Page, Crawl4aiReturns(p)
  PROVE  FetchInv'
<1> USE DEF Crawl4aiReturns, Finish
<1>0. /\ TypeOK /\ Ladder /\ Rows /\ MethodNamesBrowser /\ ReturnedPageUnblocked
      /\ EscalationLadder /\ OutcomeCounted /\ EveryAttemptClosed
  BY DEF FetchInv
<1>1. /\ sent' \in [Route -> Nat] /\ sent'.direct = sent.direct
      /\ sent'.crawl4ai = 1 /\ sent'.jina = 0
  BY <1>0, Sent DEF TypeOK, Route, Ladder
<1>2. metrics' \in [Counter -> Nat] /\ Ended(metrics)' = Ended(metrics)
  BY <1>0, Bumped DEF TypeOK, Counter
<1>3. /\ rows' \in [Attempt -> Seq(RowStatus)]
      /\ \A b \in Attempt : b # "crawl4ai" => rows'[b] = rows[b]
      /\ rows'["crawl4ai"] # <<>> /\ Last(rows'["crawl4ai"]) = "succeeded"
  BY <1>0, EmitsTwo DEF TypeOK, Attempt, RowStatus
<1>4. /\ DetectAccessBlock(p) \in BlockReason \cup {"none"}
      /\ DetectAccessBlock(p) = "none" => p.marker = "none" /\ p.status # 403
      /\ ~captcha
  BY <1>0, Classified DEF Ladder
<1>5. /\ captcha' \in BOOLEAN
      /\ captcha' => DetectAccessBlock(p) = "captcha_required"
      /\ outcome = Pending
  BY <1>0, <1>4 DEF Classify, Ladder
<1>6. /\ outcome' \in Outcome
      /\ outcome'.kind = "resource" =>
           outcome' = Resource("crawl4ai", "crawl4ai", p) /\ DetectAccessBlock(p) = "none"
      /\ pc' # "idle" => outcome' = Pending
      /\ captcha' => pc' = "idle"
  <2>1. CASE DetectAccessBlock(p) = "none"
    BY <1>5, <2>1, ResourceIsOutcome DEF Method
  <2>2. CASE DetectAccessBlock(p) = "captcha_required"
    <3>1. outcome' = FetchError(FALSE, "captcha_required") /\ pc' = "idle"
      BY <2>2
    <3>2. outcome' \in Outcome /\ outcome'.kind = "error"
      BY <3>1, ErrorIsOutcome DEF BlockReason
    <3>3. QED BY <3>1, <3>2
  <2>3. CASE DetectAccessBlock(p) \in {"challenge_detected", "access_denied"}
    <3>1. outcome' = outcome /\ (captcha' => FALSE)
      BY <1>5, <2>3
    <3>2. outcome' = Pending /\ outcome'.kind = "pending" /\ outcome' \in Outcome
      BY <1>0, <1>5, <3>1 DEF TypeOK, Pending
    <3>3. QED BY <3>1, <3>2
  <2>4. QED BY <1>4, <2>1, <2>2, <2>3 DEF BlockReason
<1>7. /\ pc' \in {"idle", "jina", "unresolved"}
      /\ pc' = "jina" => cfg.jina
  BY <1>0 DEF AfterCrawl4ai
<1>8. TypeOK'
  BY <1>0, <1>1, <1>2, <1>3, <1>5, <1>6, <1>7 DEF TypeOK, Route
<1>9. Ladder'
  BY <1>0, <1>1, <1>5, <1>6, <1>7 DEF Ladder
<1>10. Rows'
  BY <1>0, <1>3, <1>7 DEF Rows, Closed, Attempt
<1>11. MethodNamesBrowser' /\ ReturnedPageUnblocked'
  BY <1>4, <1>6 DEF MethodNamesBrowser, ReturnedPageUnblocked, Resource
<1>12. EscalationLadder'
  BY <1>0, <1>1 DEF EscalationLadder, Ladder, Blocked
<1>13. OutcomeCounted'
  BY <1>0, <1>1, <1>2, NotCounted
<1>14. EveryAttemptClosed'
  <2>1. \A a \in {"first", "retry"} :
          rows'[a] # <<>> => Last(rows'[a]) \in {"failed", "succeeded"}
    BY <1>0, <1>3 DEF Rows, Closed, Attempt
  <2>2. outcome'.kind = "resource" => outcome'.transport = "crawl4ai"
    BY ONLY <1>6 DEF Resource
  <2>3. QED BY ONLY <1>3, <2>1, <2>2 DEF EveryAttemptClosed
<1>15. QED BY <1>8, <1>9, <1>10, <1>11, <1>12, <1>13, <1>14 DEF FetchInv

LEMMA StepJinaReturns ==
  ASSUME FetchInv, NEW k \in Marker, JinaReturns(k)
  PROVE  FetchInv'
<1> USE DEF JinaReturns, Finish
<1>0. /\ TypeOK /\ Ladder /\ Rows /\ MethodNamesBrowser /\ ReturnedPageUnblocked
      /\ EscalationLadder /\ OutcomeCounted /\ EveryAttemptClosed
  BY DEF FetchInv
<1>1. /\ sent' \in [Route -> Nat] /\ sent'.direct = sent.direct
      /\ sent'.crawl4ai = sent.crawl4ai /\ sent'.jina = 1 /\ sent.crawl4ai \in Nat
  BY <1>0, Sent DEF TypeOK, Route, Ladder
<1>2. metrics' \in [Counter -> Nat] /\ Ended(metrics)' = Ended(metrics)
  BY <1>0, Bumped DEF TypeOK, Counter
<1>3. /\ rows' \in [Attempt -> Seq(RowStatus)]
      /\ \A b \in Attempt : b # "jina_reader" => rows'[b] = rows[b]
      /\ rows'["jina_reader"] # <<>> /\ Last(rows'["jina_reader"]) = "succeeded"
  BY <1>0, EmitsTwo DEF TypeOK, Attempt, RowStatus
<1>4. PICK p : p = [status |-> 200, marker |-> k]
  OBVIOUS
<1>5. p \in Page
  BY <1>4, StatusesAssumption DEF Page
<1>6. /\ DetectAccessBlock(p) \in BlockReason \cup {"none"}
      /\ DetectAccessBlock(p) = "none" => p.marker = "none" /\ p.status # 403
  BY <1>5, Classified
<1>7. /\ captcha' \in BOOLEAN
      /\ captcha' => DetectAccessBlock(p) = "captcha_required"
  BY <1>0, <1>4 DEF Ladder, Classify
<1>8. /\ outcome' \in Outcome
      /\ outcome'.kind = "resource" =>
           outcome' = Resource("jina_reader", "jina_reader", p) /\ DetectAccessBlock(p) = "none"
  <2>1. CASE DetectAccessBlock(p) = "none"
    BY <1>4, <1>5, <2>1, ResourceIsOutcome DEF Method
  <2>2. CASE DetectAccessBlock(p) # "none"
    <3>1. outcome' = FetchError(FALSE, DetectAccessBlock(p))
      BY <1>4, <2>2
    <3>2. outcome' \in Outcome /\ outcome'.kind = "error"
      BY <1>6, <3>1, ErrorIsOutcome
    <3>3. QED BY <3>2
  <2>3. QED BY <2>1, <2>2
<1>9. TypeOK'
  BY <1>0, <1>1, <1>2, <1>3, <1>7, <1>8 DEF TypeOK, Route
<1>10. pc' = "idle"
  OBVIOUS
<1>11. Ladder'
  BY <1>0, <1>1, <1>6, <1>7, <1>8, <1>10 DEF Ladder
<1>12. Rows'
  BY ONLY <1>10 DEF Rows
<1>13. MethodNamesBrowser' /\ ReturnedPageUnblocked'
  BY ONLY <1>6, <1>8 DEF MethodNamesBrowser, ReturnedPageUnblocked, Resource
<1>14. EscalationLadder'
  BY <1>0, <1>1 DEF EscalationLadder, Ladder, Blocked
<1>15. OutcomeCounted'
  <2>1. pc # "idle" /\ before' = before /\ sent'.crawl4ai + sent'.jina # 0
    BY <1>1
  <2>2. QED BY ONLY <1>0, <1>2, <2>1, NotCounted
<1>16. EveryAttemptClosed'
  <2>1. \A a \in {"first", "retry"} :
          rows'[a] # <<>> => Last(rows'[a]) \in {"failed", "succeeded"}
    BY <1>0, <1>3 DEF Rows, Closed, Attempt
  <2>2. outcome'.kind = "resource" => outcome'.transport = "jina_reader"
    BY ONLY <1>8 DEF Resource
  <2>3. QED BY ONLY <1>3, <2>1, <2>2 DEF EveryAttemptClosed
<1>17. QED BY <1>9, <1>11, <1>12, <1>13, <1>14, <1>15, <1>16 DEF FetchInv

LEMMA StepUnresolved ==
  ASSUME FetchInv, Unresolved
  PROVE  FetchInv'
<1> USE DEF Unresolved, Finish
<1>0. /\ TypeOK /\ Ladder /\ Rows /\ MethodNamesBrowser /\ ReturnedPageUnblocked
      /\ EscalationLadder /\ OutcomeCounted /\ EveryAttemptClosed
  BY DEF FetchInv
<1>1. DetectAccessBlock(page) \in BlockReason \cup {"none"}
  BY Classified
<1>2. /\ metrics' \in [Counter -> Nat] /\ Ended(metrics)' = Ended(metrics) + 1
      /\ rows' \in [Attempt -> Seq(RowStatus)]
      /\ Closed("first")' /\ Closed("retry")'
      /\ outcome' \in Outcome /\ outcome'.kind = "error" /\ pc' = "idle"
  <2>1. CASE IsSuccess(page)
    <3>1. metrics' \in [Counter -> Nat] /\ Ended(metrics)' = Ended(metrics) + 1
      BY <1>0, <2>1, Bumped DEF TypeOK, Counter
    <3>2. Closed("first")' /\ Closed("retry")'
      BY <1>0, <2>1 DEF Rows, Closed
    <3>3. outcome' \in Outcome /\ outcome'.kind = "error"
      BY <1>1, <2>1, ErrorIsOutcome
    <3>4. QED BY <1>0, <2>1, <3>1, <3>2, <3>3 DEF TypeOK
  <2>2. CASE ~IsSuccess(page)
    <3>1. /\ metrics \in [Counter -> Nat] /\ rows \in [Attempt -> Seq(RowStatus)]
          /\ GiveUp(page, DetectAccessBlock(page))
      BY <1>0, <2>2 DEF TypeOK
    <3>2. Closed("first") /\ Closed("retry")
      BY <1>0 DEF Rows
    <3>3. QED BY <1>1, <3>1, <3>2, GivesUp DEF Closed, Attempt
  <2>3. QED BY <2>1, <2>2
<1>3. TypeOK'
  BY <1>0, <1>2 DEF TypeOK
<1>4. Ladder'
  BY <1>0, <1>2 DEF Ladder
<1>5. Rows'
  BY <1>2 DEF Rows
<1>6. MethodNamesBrowser' /\ ReturnedPageUnblocked'
  BY <1>2 DEF MethodNamesBrowser, ReturnedPageUnblocked
<1>7. EscalationLadder'
  BY <1>0 DEF EscalationLadder
<1>8. OutcomeCounted'
  BY <1>0, <1>2, CountedOnce
<1>9. EveryAttemptClosed'
  BY <1>2 DEF EveryAttemptClosed, Closed
<1>10. QED BY <1>3, <1>4, <1>5, <1>6, <1>7, <1>8, <1>9 DEF FetchInv

LEMMA StepRefused ==
  ASSUME FetchInv, NEW p \in Page, Refused(p)
  PROVE  FetchInv'
<1> DEFINE reason == DetectAccessBlock(p)
<1>0. /\ TypeOK /\ Ladder /\ Rows /\ MethodNamesBrowser /\ ReturnedPageUnblocked
      /\ EscalationLadder /\ OutcomeCounted /\ EveryAttemptClosed
  BY DEF FetchInv
<1>1. /\ pc = "request" /\ page' = p
      /\ UNCHANGED <<cfg, mode, calls, before>>
  BY DEF Refused
<1>2. /\ sent' \in [Route -> Nat] /\ sent'.direct = 1
      /\ sent'.crawl4ai = 0 /\ sent'.jina = 0
  BY <1>0, Sent DEF Refused, TypeOK, Route, Ladder
<1>3. reason \in BlockReason \cup {"none"}
  BY Classified
<1>4. /\ captcha' \in BOOLEAN
      /\ captcha' => reason = "captcha_required"
  BY <1>0 DEF Refused, Classify, Ladder
<1> HIDE DEF reason
<1>5. /\ rows' \in [Attempt -> Seq(RowStatus)]
      /\ Closed("first")' /\ Closed("retry")'
      /\ metrics' \in [Counter -> Nat]
      /\ outcome' \in Outcome /\ outcome'.kind # "resource"
      /\ \/ /\ reason \in BlockReason
            /\ pc' = FirstFallback(reason) /\ outcome' = Pending
            /\ Ended(metrics)' = Ended(metrics)
         \/ pc' = "idle" /\ Ended(metrics)' = Ended(metrics) + 1
  <2>0. rows["retry"] = <<>>
    BY <1>0, <1>1 DEF Rows
  <2>1. CASE reason # "none" /\ (cfg.antibot \/ cfg.jina)
    <3>1. /\ Emit("first", <<"failed">>) /\ pc' = FirstFallback(reason)
          /\ UNCHANGED <<metrics, outcome>>
      BY <2>1 DEF Refused, reason
    <3>2. /\ rows' \in [Attempt -> Seq(RowStatus)]
          /\ Closed("first")' /\ Closed("retry")'
      BY <1>0, <2>0, <3>1, EmitsOne DEF TypeOK, Attempt, RowStatus, Closed
    <3>3. outcome' = Pending /\ outcome' \in Outcome /\ outcome'.kind # "resource"
      BY <1>0, <1>1, <3>1 DEF TypeOK, Ladder, Pending
    <3>4. metrics' \in [Counter -> Nat] /\ Ended(metrics)' = Ended(metrics)
      BY <1>0, <3>1 DEF TypeOK
    <3>5. QED BY <1>3, <2>1, <3>1, <3>2, <3>3, <3>4
  <2>2. CASE ~(reason # "none" /\ (cfg.antibot \/ cfg.jina))
    <3>1. GiveUp(p, reason)
      BY <2>2 DEF Refused, reason
    <3>2. QED BY <1>0, <1>3, <2>0, <3>1, GivesUp DEF TypeOK, Closed, Attempt
  <2>3. QED BY <2>1, <2>2
<1>6. pc' = "idle" \/ pc' \in {"crawl4ai", "jina", "unresolved"}
  BY <1>5, FallbackChosen
<1>7. TypeOK'
  BY <1>0, <1>1, <1>2, <1>4, <1>5, <1>6 DEF TypeOK, Route
<1>8. Ladder'
  <2>1. CASE pc' = "idle"
    BY <1>5, <2>1 DEF Ladder
  <2>2. CASE pc' # "idle"
    <3>1. /\ reason \in BlockReason
          /\ pc' = FirstFallback(reason) /\ outcome' = Pending
      BY <1>5, <2>2
    <3>2. Blocked(page)' <=> reason \in {"challenge_detected", "access_denied"}
      BY <1>1 DEF Blocked, reason
    <3>3. pc' \in {"crawl4ai", "jina"} => Blocked(page)' /\ ~captcha'
      BY <1>4, <3>1, <3>2, FallbackChosen DEF BlockReason
    <3>4. QED BY <1>1, <1>2, <1>5, <1>6, <2>2, <3>1, <3>3, FallbackChosen DEF Ladder
  <2>3. QED BY <2>1, <2>2
<1>9. Rows'
  BY <1>5, <1>6 DEF Rows, Closed
<1>10. MethodNamesBrowser' /\ ReturnedPageUnblocked'
  BY <1>5 DEF MethodNamesBrowser, ReturnedPageUnblocked
<1>11. EscalationLadder'
  BY <1>2 DEF EscalationLadder
<1>12. OutcomeCounted'
  <2>1. CASE pc' = "idle" /\ Ended(metrics)' = Ended(metrics) + 1
    BY <1>0, <1>1, <2>1, CountedOnce
  <2>2. CASE pc' # "idle" /\ Ended(metrics)' = Ended(metrics)
    BY <1>0, <1>1, <2>2, NotCounted
  <2>3. QED BY <1>5, <2>1, <2>2, FallbackChosen
<1>13. EveryAttemptClosed'
  BY <1>5 DEF EveryAttemptClosed, Closed
<1>14. QED BY <1>7, <1>8, <1>9, <1>10, <1>11, <1>12, <1>13 DEF FetchInv

LEMMA StepAnswered ==
  ASSUME FetchInv, NEW p \in Page, Answered(p)
  PROVE  FetchInv'
<1> DEFINE reason  == DetectAccessBlock(p)
           verdict == IF reason = "none" THEN "succeeded" ELSE "failed"
           method  == IF mode = "always" THEN "render_playwright" ELSE "httpx"
           transport == IF pc = "retry" THEN "httpx" ELSE Direct
<1>0. /\ TypeOK /\ Ladder /\ Rows /\ MethodNamesBrowser /\ ReturnedPageUnblocked
      /\ EscalationLadder /\ OutcomeCounted /\ EveryAttemptClosed
  BY DEF FetchInv
<1>1. /\ pc \in {"request", "retry"} /\ page' = p
      /\ UNCHANGED <<cfg, mode, calls, before>>
  BY DEF Answered
<1>2. /\ sent' \in [Route -> Nat] /\ sent'.direct \in 1..2
      /\ sent'.crawl4ai = 0 /\ sent'.jina = 0
  BY <1>0, Sent DEF Answered, TypeOK, Route, Ladder
<1>3. /\ reason \in BlockReason \cup {"none"}
      /\ reason = "none" => p.marker = "none" /\ p.status # 403
  BY Classified
<1>4. /\ captcha' \in BOOLEAN
      /\ captcha' => reason = "captcha_required"
  BY <1>0, <1>1 DEF Answered, Classify, Ladder
<1>5. /\ rows' \in [Attempt -> Seq(RowStatus)]
      /\ Closed("first")' /\ Closed("retry")'
  <2>1. /\ rows["first"] \in Seq(RowStatus) /\ rows["retry"] \in Seq(RowStatus)
        /\ verdict \in {"succeeded", "failed"} /\ verdict \in RowStatus
        /\ rows \in [Attempt -> Seq(RowStatus)]
    BY <1>0 DEF TypeOK, Attempt, RowStatus
  <2>2. /\ Append(rows["first"], verdict) \in Seq(RowStatus)
        /\ Last(Append(rows["first"], verdict)) = verdict
    BY <2>1, LastOfAppend
  <2>3. /\ Append(rows["retry"], "succeeded") \in Seq(RowStatus)
        /\ Last(Append(rows["retry"], "succeeded")) = "succeeded"
    BY <2>1, LastOfAppend DEF RowStatus
  <2>4. rows' = [rows EXCEPT !["first"] = Append(@, verdict),
                             !["retry"] = IF pc = "retry" THEN Append(@, "succeeded") ELSE @]
    BY DEF Answered
  <2>5. pc = "request" => rows["retry"] = <<>>
    BY <1>0, <1>1 DEF Rows
  <2> HIDE DEF verdict
  <2>6. /\ rows' \in [Attempt -> Seq(RowStatus)]
        /\ rows'["first"] = Append(rows["first"], verdict)
        /\ rows'["retry"] = IF pc = "retry" THEN Append(rows["retry"], "succeeded")
                                            ELSE rows["retry"]
    BY <2>1, <2>2, <2>3, <2>4 DEF Attempt
  <2>7. Closed("first")' /\ Closed("retry")'
    BY <1>1, <2>1, <2>2, <2>3, <2>5, <2>6 DEF Closed
  <2>8. QED BY <2>6, <2>7
<1>6. CASE reason = "none"
  <2>1. /\ Bump("fetched") /\ pc' = "idle"
        /\ outcome' = Resource(method, transport, p)
    BY <1>6 DEF Answered, Finish
  <2>2. metrics' \in [Counter -> Nat] /\ Ended(metrics)' = Ended(metrics) + 1
    BY <1>0, <2>1, Bumped DEF TypeOK, Counter
  <2>3. /\ method \in Method /\ transport \in Method
        /\ transport = "playwright" => method = "render_playwright"
        /\ transport \notin Attempt
    BY DEF Method, Direct, Attempt
  <2> HIDE DEF reason, verdict, method, transport
  <2>4. outcome' \in Outcome
    BY <2>1, <2>3, ResourceIsOutcome
  <2>5. /\ outcome'.page = p /\ outcome'.fetch_method = method
        /\ outcome'.transport = transport
    BY <2>1 DEF Resource
  <2>6. TypeOK'
    BY <1>0, <1>1, <1>2, <1>4, <1>5, <2>1, <2>2, <2>4 DEF TypeOK, Route
  <2>7. Ladder' /\ Rows'
    BY <1>4, <1>6, <2>1 DEF Ladder, Rows
  <2>8. MethodNamesBrowser' /\ ReturnedPageUnblocked'
    BY <1>3, <1>6, <2>3, <2>5 DEF MethodNamesBrowser, ReturnedPageUnblocked, Attempt
  <2>9. EscalationLadder'
    BY <1>2 DEF EscalationLadder
  <2>10. OutcomeCounted'
    BY <1>0, <1>1, <2>1, <2>2, CountedOnce
  <2>11. EveryAttemptClosed'
    BY <1>5, <2>3, <2>5 DEF EveryAttemptClosed, Closed
  <2>12. QED BY <2>6, <2>7, <2>8, <2>9, <2>10, <2>11 DEF FetchInv
<1>7. CASE reason # "none"
  <2>1. pc' = FirstFallback(reason) /\ UNCHANGED <<metrics, outcome>>
    BY <1>7 DEF Answered
  <2>2. outcome' = Pending
    BY <1>0, <1>1, <2>1 DEF Ladder
  <2>3. Blocked(page)' <=> reason \in {"challenge_detected", "access_denied"}
    BY <1>1 DEF Blocked
  <2>4. reason \in BlockReason
    BY <1>3, <1>7
  <2> HIDE DEF reason, verdict, method, transport
  <2>5. pc' \in {"crawl4ai", "jina", "unresolved"}
    BY <2>1, <2>4, FallbackChosen
  <2>6. TypeOK'
    BY <1>0, <1>1, <1>2, <1>4, <1>5, <2>1, <2>5 DEF TypeOK, Route
  <2>7. Ladder'
    <3>1. pc' \in {"crawl4ai", "jina"} => Blocked(page)' /\ ~captcha'
      BY <1>4, <2>1, <2>3, <2>4, FallbackChosen DEF BlockReason
    <3>2. outcome'.kind # "resource"
      BY <2>2 DEF Pending
    <3>3. QED BY <1>1, <1>2, <2>1, <2>2, <2>4, <2>5, <3>1, <3>2, FallbackChosen DEF Ladder
  <2>8. Rows'
    BY <1>5, <2>5 DEF Rows, Closed
  <2>9. MethodNamesBrowser' /\ ReturnedPageUnblocked'
    BY <2>2 DEF MethodNamesBrowser, ReturnedPageUnblocked, Pending
  <2>10. EscalationLadder'
    BY <1>2 DEF EscalationLadder
  <2>11. OutcomeCounted'
    BY <1>0, <1>1, <2>1, <2>5, NotCounted
  <2>12. EveryAttemptClosed'
    BY <2>5 DEF EveryAttemptClosed
  <2>13. QED BY <2>6, <2>7, <2>8, <2>9, <2>10, <2>11, <2>12 DEF FetchInv
<1>8. QED BY <1>6, <1>7

LEMMA FetchIsInductive == FetchInv /\ [Next]_vars => FetchInv'
<1> SUFFICES ASSUME FetchInv, [Next]_vars PROVE FetchInv'
  OBVIOUS
<1>1. CASE Call
  BY <1>1, StepRefuseBlocked, StepStart DEF Call
<1>2. CASE RequestFails \/ RequestEscapes
  BY <1>2, StepRequestFails, StepRequestEscapes
<1>3. ASSUME NEW p \in Page, RateLimited(p) \/ Refused(p) \/ Answered(p) \/ RetryFails(p)
      PROVE  FetchInv'
  BY <1>3, StepRateLimited, StepRefused, StepAnswered, StepRetryFails
<1>4. CASE RetryFails(NoPage)
  BY <1>4, StepRetryFails
<1>5. CASE Crawl4aiFails \/ \E p \in Page : Crawl4aiReturns(p)
  BY <1>5, StepCrawl4aiFails, StepCrawl4aiReturns
<1>6. CASE JinaBreaks \/ (\E k \in Marker : JinaReturns(k)) \/ (\E b \in BOOLEAN : JinaRaises(b))
  BY <1>6, StepJinaBreaks, StepJinaReturns, StepJinaRaises
<1>7. CASE Unresolved
  BY <1>7, StepUnresolved
<1>8. CASE UNCHANGED vars
  <2> USE <1>8 DEF vars
  <2>1. TypeOK'
    BY DEF FetchInv, TypeOK
  <2>2. Ladder' /\ Rows' /\ MethodNamesBrowser'
    BY DEF FetchInv, Ladder, Rows, Closed, MethodNamesBrowser
  <2>3. ReturnedPageUnblocked' /\ EscalationLadder'
    BY DEF FetchInv, ReturnedPageUnblocked, EscalationLadder
  <2>4. OutcomeCounted' /\ EveryAttemptClosed'
    BY DEF FetchInv, OutcomeCounted, EveryAttemptClosed
  <2>5. QED BY <2>1, <2>2, <2>3, <2>4 DEF FetchInv
<1>9. QED BY <1>1, <1>2, <1>3, <1>4, <1>5, <1>6, <1>7, <1>8 DEF Next, Progress

THEOREM FetchInvHolds == Spec => []FetchInv
BY FetchInit, FetchIsInductive, PTL DEF Spec

\* Every page that fetch() returns, whichever of the three transports produced it,
\* was classified first: it is no CAPTCHA, no challenge and no 403.
THEOREM ReturnedPagesAreUnblocked == Spec => []ReturnedPageUnblocked
<1>1. FetchInv => ReturnedPageUnblocked
  BY DEF FetchInv
<1>2. QED BY <1>1, FetchInvHolds, PTL

\* Two direct requests and one of each fallback at most; a fallback only if it is
\* enabled and the page blocked, the hosted reader after the local browser.
THEOREM LadderIsClimbedInOrder == Spec => []EscalationLadder
<1>1. FetchInv => EscalationLadder
  BY DEF FetchInv
<1>2. QED BY <1>1, FetchInvHolds, PTL

\* No call is counted twice, and none that the direct transport ended is missed.
THEOREM OutcomesAreCounted == Spec => []OutcomeCounted
<1>1. FetchInv => OutcomeCounted
  BY DEF FetchInv
<1>2. QED BY <1>1, FetchInvHolds, PTL

\* Unless an exception escapes, an ended call leaves no row of its direct requests
\* "started", and the row of the fallback whose page it returns says "succeeded".
THEOREM AttemptsAreClosed == Spec => []EveryAttemptClosed
<1>1. FetchInv => EveryAttemptClosed
  BY DEF FetchInv
<1>2. QED BY <1>1, FetchInvHolds, PTL

\* After a CAPTCHA page a call sends nothing more and returns no page.
LEMMA CaptchaStep ==
  FetchInv /\ [Next]_vars =>
    [captcha /\ captcha' /\ calls' = calls =>
       sent' = sent /\ outcome'.kind # "resource"]_vars
<1> SUFFICES ASSUME FetchInv, Next, captcha, calls' = calls
             PROVE  sent' = sent /\ outcome'.kind # "resource"
  OBVIOUS
<1>1. pc \in {"idle", "unresolved"} /\ calls \in Nat
  <2>1. /\ pc \in {"idle", "request", "retry", "crawl4ai", "jina", "unresolved"}
        /\ calls \in Nat
    BY MaxCallsAssumption DEF FetchInv, TypeOK
  <2>2. pc \notin {"request", "retry", "crawl4ai", "jina"}
    BY DEF FetchInv, Ladder
  <2>3. QED BY <2>1, <2>2
<1>2. ~Call
  <2>1. Call => calls' = calls + 1
    BY DEF Call, RefuseBlocked, Start, NewCall
  <2>2. QED BY <1>1, <2>1
<1>3. Progress
  BY <1>2 DEF Next
<1>4. Unresolved
  BY <1>1, <1>3 DEF Progress, RequestFails, RequestEscapes, RateLimited, Refused, Answered,
     RetryFails, Crawl4aiReturns, Crawl4aiFails, JinaReturns, JinaRaises, JinaBreaks
<1>5. sent' = sent
  BY <1>4 DEF Unresolved
<1>6. outcome' = FetchError(FALSE, DetectAccessBlock(page))
        \/ \E b : outcome' = FetchError(b, DetectAccessBlock(page))
  BY <1>4 DEF Unresolved, GiveUp, Finish
<1>7. QED BY <1>5, <1>6 DEF FetchError

THEOREM CaptchasFailClosed == Spec => CaptchaFailsClosed
<1>1. FetchInv /\ [Next]_vars =>
        [captcha /\ captcha' /\ calls' = calls =>
           sent' = sent /\ outcome'.kind # "resource"]_vars
  BY CaptchaStep
<1>2. QED BY <1>1, FetchInvHolds, PTL DEF Spec, CaptchaFailsClosed

-----------------------------------------------------------------------------
(* Extraction, and the fetch() inside it.                                    *)

\* What the extraction does to the fetcher is a step of fetch(), or none.
LEMMA ExtractStep == [ExtractNext]_<<vars, extra>> => [Next]_vars
<1> SUFFICES ASSUME [ExtractNext]_<<vars, extra>> PROVE [Next]_vars
  OBVIOUS
<1>1. CASE UserFetch \/ FetchStep
  BY <1>1 DEF UserFetch, FetchStep, Next
<1>2. ASSUME NEW c \in Contents, NEW m \in Methods, ExtractPage(c, m) PROVE [Next]_vars
  BY <1>2 DEF ExtractPage
<1>3. ASSUME NEW c \in Contents, NEW m \in Methods, ExtractShell(c, m) PROVE [Next]_vars
  BY <1>3 DEF ExtractShell, Next, Call
<1>4. ASSUME NEW c \in Contents, RenderSucceeds(c) PROVE [Next]_vars
  BY <1>4 DEF RenderSucceeds, EndRendering
<1>5. CASE RenderFails
  BY <1>5 DEF RenderFails, EndRendering
<1>6. CASE UNCHANGED <<vars, extra>>
  BY <1>6
<1>7. QED BY <1>1, <1>2, <1>3, <1>4, <1>5, <1>6 DEF ExtractNext, Extraction

\* extract() uses fetch() as its users do: everything proved of fetch() holds of
\* the two together, and of the fetch() that runs inside an extraction.
THEOREM ExtractionFetches == ExtractSpec => Spec
<1>1. ExtractInit => Init
  BY DEF ExtractInit
<1>2. QED BY <1>1, ExtractStep, PTL DEF ExtractSpec, Spec

LEMMA ProgressIsBusy == Progress => pc # "idle"
BY DEF Progress, RequestFails, RequestEscapes, RateLimited, Refused, Answered, RetryFails,
   Crawl4aiReturns, Crawl4aiFails, JinaReturns, JinaRaises, JinaBreaks, Unresolved

\* The documents of extract(): whose text they have.
LEMMA DocumentOf ==
  ASSUME NEW c, NEW m, NEW how
  PROVE  /\ X!ExtractText(c, m, how) \in X!Extractor
         /\ X!EmbeddedJson \in X!Documents /\ X!EmbeddedJson.of = "json"
         /\ \A used \in X!Extractor :
              /\ X!Document(c, used) \in X!Documents /\ X!Document(c, used).of = "page"
              /\ X!Rendered(used) \in X!Documents /\ X!Rendered(used).of = "rendering"
<1>1. X!ExtractText(c, m, how) \in X!Extractor
  BY DEF X!ExtractText, X!Extractor
<1>2. X!EmbeddedJson \in X!Documents /\ X!EmbeddedJson.of = "json"
  BY DEF X!EmbeddedJson, X!Documents
<1>3. ASSUME NEW used \in X!Extractor
      PROVE  /\ X!Document(c, used) \in X!Documents /\ X!Document(c, used).of = "page"
             /\ X!Rendered(used) \in X!Documents /\ X!Rendered(used).of = "rendering"
  BY <1>3 DEF X!Document, X!Rendered, X!Documents
<1>4. QED BY <1>1, <1>2, <1>3

LEMMA Outcomes ==
  /\ Pending \in Outcome /\ Pending.kind = "pending"
  /\ NoDoc.of = "none"
BY DEF Outcome, Pending, NoDoc

LEMMA ExtractBegins == ExtractInit => ExtractInv
<1> SUFFICES ASSUME ExtractInit PROVE ExtractInv
  OBVIOUS
<1>1. FetchInv /\ TypeOK
  BY FetchInit DEF ExtractInit, FetchInv
<1>2. /\ given.resource = Pending /\ given.method = "trafilatura"
      /\ extracting = "no" /\ pc = "idle"
  BY DEF ExtractInit, NoGiven, Init
<1>3. ExtractTypeOK
  BY <1>1, <1>2, Outcomes, FetchExtractAssumption DEF ExtractInit, ExtractTypeOK
<1>4. Extracting /\ ExtractionSettles /\ RenderedOnce
  BY <1>2, Outcomes DEF Extracting, ExtractionSettles, RenderedOnce
<1>5. QED BY <1>1, <1>3, <1>4 DEF ExtractInv

LEMMA ExtractIsInductive == ExtractInv /\ [ExtractNext]_<<vars, extra>> => ExtractInv'
<1> SUFFICES ASSUME ExtractInv, [ExtractNext]_<<vars, extra>> PROVE ExtractInv'
  OBVIOUS
<1>0. /\ FetchInv' /\ TypeOK' /\ outcome \in Outcome /\ MethodNamesBrowser
      /\ ExtractTypeOK /\ Extracting /\ ExtractionSettles /\ RenderedOnce
  BY ExtractStep, FetchIsInductive DEF ExtractInv, FetchInv, TypeOK
<1>1. CASE UserFetch
  <2>1. /\ extracting' = "no" /\ given' = NoGiven /\ doc' = NoDoc /\ extractRows' = <<>>
        /\ UNCHANGED <<autoRender, autoRendered>>
    BY <1>1 DEF UserFetch
  <2>2. given'.resource = Pending /\ given'.method \in Methods
    BY <2>1, FetchExtractAssumption DEF NoGiven
  <2>3. ExtractTypeOK'
    BY <1>0, <2>1, <2>2, Outcomes DEF ExtractTypeOK
  <2>4. Extracting' /\ ExtractionSettles' /\ RenderedOnce'
    BY <2>1, <2>2, Outcomes DEF Extracting, ExtractionSettles, RenderedOnce
  <2>5. QED BY <1>0, <2>3, <2>4 DEF ExtractInv
<1>2. CASE FetchStep
  <2>1. pc # "idle" /\ UNCHANGED extra
    BY <1>2, ProgressIsBusy DEF FetchStep
  <2>2. ExtractTypeOK'
    BY <1>0, <2>1 DEF ExtractTypeOK, extra
  <2>3. Extracting' /\ ExtractionSettles' /\ RenderedOnce'
    BY <1>0, <2>1 DEF Extracting, ExtractionSettles, RenderedOnce, extra
  <2>4. QED BY <1>0, <2>2, <2>3 DEF ExtractInv
<1>3. ASSUME NEW c \in Contents, NEW m \in Methods, ExtractPage(c, m) PROVE ExtractInv'
  <2>1. /\ extracting' = "no" /\ pc' = "idle" /\ outcome' = outcome
        /\ given' = [resource |-> outcome, method |-> m]
        /\ extractRows' = <<"started", "succeeded">>
        /\ UNCHANGED <<autoRender, autoRendered>>
    BY <1>3 DEF ExtractPage, Extracts, vars
  <2>2. doc' \in X!Documents /\ doc'.of \in {"page", "json"}
    BY <1>3, DocumentOf DEF ExtractPage, PageDocument
  <2>3. extractRows' \in Seq(RowStatus)
    BY <2>1 DEF RowStatus
  <2>4. ExtractTypeOK'
    BY <1>0, <2>1, <2>2, <2>3 DEF ExtractTypeOK
  <2>5. Extracting' /\ ExtractionSettles' /\ RenderedOnce'
    BY <2>1, <2>2, Outcomes DEF Extracting, ExtractionSettles, RenderedOnce
  <2>6. QED BY <1>0, <2>4, <2>5 DEF ExtractInv
<1>4. ASSUME NEW c \in Contents, NEW m \in Methods, ExtractShell(c, m) PROVE ExtractInv'
  <2>1. /\ extracting' = "rendering" /\ outcome.kind = "resource"
        /\ given' = [resource |-> outcome, method |-> m]
        /\ extractRows' = <<"started">>
        /\ UNCHANGED <<autoRender, autoRendered>>
    BY <1>4 DEF ExtractShell, Extracts
  <2>2. doc' \in X!Documents /\ doc'.of = "page"
    BY <1>4, DocumentOf DEF ExtractShell, PageDocument
  <2>3. extractRows' \in Seq(RowStatus)
    BY <2>1 DEF RowStatus
  <2>4. outcome.fetch_method \notin {"render_playwright", "crawl4ai"}
    BY <1>4 DEF ExtractShell, Shell, X!IsShell
  <2>5. ExtractTypeOK'
    BY <1>0, <2>1, <2>2, <2>3 DEF ExtractTypeOK
  <2>6. Extracting' /\ ExtractionSettles' /\ RenderedOnce'
    BY <1>0, <2>1, <2>2, <2>4, Outcomes
       DEF Extracting, ExtractionSettles, RenderedOnce, MethodNamesBrowser
  <2>7. QED BY <1>0, <2>5, <2>6 DEF ExtractInv
<1>5. ASSUME NEW d \in X!Documents, NEW n \in Nat, EndRendering(d, n),
             d.of # "none", d.of = "rendering" => outcome.kind = "resource"
      PROVE  ExtractInv'
  <2>1. /\ extracting' = "no" /\ doc' = d /\ autoRendered' = autoRendered + n
        /\ pc' = "idle" /\ outcome' = outcome
        /\ UNCHANGED <<autoRender, given>>
    BY <1>5 DEF EndRendering, vars
  <2>2. extractRows' = <<"started", "succeeded">>
    <3>1. extractRows = <<"started">> /\ extractRows' = Append(extractRows, "succeeded")
      BY <1>0, <1>5 DEF EndRendering, Extracting
    <3>2. Append(<<"started">>, "succeeded") = <<"started", "succeeded">>
      <4>1. "started" \in RowStatus /\ "succeeded" \in RowStatus
        BY DEF RowStatus
      <4>2. QED BY ONLY <4>1, TwoRows, Zenon
    <3>3. QED BY <3>1, <3>2
  <2>3. extractRows' \in Seq(RowStatus)
    BY <2>2 DEF RowStatus
  <2>4. ExtractTypeOK'
    BY <1>0, <2>1, <2>3 DEF ExtractTypeOK
  <2>5. Extracting' /\ ExtractionSettles' /\ RenderedOnce'
    BY <1>5, <2>1, <2>2, Outcomes DEF Extracting, ExtractionSettles, RenderedOnce
  <2>6. QED BY <1>0, <2>4, <2>5 DEF ExtractInv
<1>6. ASSUME NEW c \in Contents, RenderSucceeds(c) PROVE ExtractInv'
  BY <1>5, <1>6, DocumentOf DEF RenderSucceeds
<1>7. CASE RenderFails
  <2>1. EndRendering(doc, 0) /\ doc.of = "page"
    BY <1>0, <1>7 DEF RenderFails, KeepsText, EndRendering, Extracting
  <2>2. doc \in X!Documents
    BY <1>0, <2>1, Outcomes DEF ExtractTypeOK
  <2>3. QED BY <1>5, <2>1, <2>2
<1>8. CASE UNCHANGED <<vars, extra>>
  <2>1. ExtractTypeOK'
    BY <1>0, <1>8 DEF ExtractTypeOK, extra
  <2>2. Extracting' /\ ExtractionSettles' /\ RenderedOnce'
    BY <1>0, <1>8 DEF Extracting, ExtractionSettles, RenderedOnce, extra, vars
  <2>3. QED BY <1>0, <2>1, <2>2 DEF ExtractInv
<1>9. QED BY <1>1, <1>2, <1>3, <1>4, <1>6, <1>7, <1>8 DEF ExtractNext, Extraction

THEOREM ExtractInvHolds == ExtractSpec => []ExtractInv
BY ExtractBegins, ExtractIsInductive, PTL DEF ExtractSpec

\* Every variable of the fetcher and of the extraction keeps its type.
THEOREM ExtractTypes == ExtractSpec => []ExtractTypeOK
<1>1. ExtractInv => ExtractTypeOK
  BY DEF ExtractInv
<1>2. QED BY <1>1, ExtractInvHolds, PTL

\* extract() ends with a document and a closed row, whatever its rendering did.
THEOREM ExtractionsSettle == ExtractSpec => []ExtractionSettles
<1>1. ExtractInv => ExtractionSettles
  BY DEF ExtractInv
<1>2. QED BY <1>1, ExtractInvHolds, PTL

\* No page that a browser produced is rendered again.
THEOREM PagesAreRenderedOnce == ExtractSpec => []RenderedOnce
<1>1. ExtractInv => RenderedOnce
  BY DEF ExtractInv
<1>2. QED BY <1>1, ExtractInvHolds, PTL

=============================================================================
