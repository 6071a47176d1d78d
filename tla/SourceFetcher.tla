--------------------------- MODULE SourceFetcher ---------------------------
(***************************************************************************)
(* SourceFetcher.fetch: one direct request, one retry after HTTP 429, and  *)
(* the access-fallback ladder (Crawl4AI, then Jina Reader).  A behaviour   *)
(* is a sequence of fetch() calls on one fetcher; the network, the browser *)
(* and the hosted reader answer nondeterministically.  Per-domain pacing   *)
(* is the subject of FetchPacing.                                          *)
(***************************************************************************)
EXTENDS Integers, Sequences

CONSTANTS Statuses,   \* the HTTP statuses a peer may answer with
          MaxCalls    \* bound: fetch() calls made in one behaviour

\* 200 is also the status of every page the hosted reader returns.
ASSUME StatusesAssumption == Statuses \subseteq Nat /\ 200 \in Statuses
ASSUME MaxCallsAssumption == MaxCalls \in Nat

VARIABLES cfg,        \* enable_antibot and enable_jina_fallback
          pc,         \* what the current call waits for
          mode,       \* request.render_mode of the current call
          page,       \* the last page a direct transport returned
          rows,       \* tool-call rows emitted for each attempt id
          metrics,    \* FetchMetrics
          outcome,    \* what the last call returned or raised
          calls,      \* fetch() calls so far
          sent,       \* ghost: attempts the current call has made, by route
          captcha,    \* ghost: the current call has classified a CAPTCHA page
          before      \* ghost: outcome counters when the current call began

vars == <<cfg, pc, mode, page, rows, metrics, outcome, calls, sent, captcha, before>>

Marker      == {"none", "challenge", "captcha"}
Page        == [status : Statuses, marker : Marker]
BlockReason == {"access_denied", "challenge_detected", "captcha_required"}
Attempt     == {"first", "retry", "crawl4ai", "jina_reader"}
RowStatus   == {"started", "failed", "succeeded"}
Counter     == {"fetched", "skipped_blocked", "skipped_permanent",
                "failed", "retried", "escalated"}

NON_RETRYABLE_STATUS == {401, 403, 404, 410, 451}

\* response.raise_for_status() lets exactly the 2xx answers through.
IsSuccess(p) == p.status \in 200..299

\* Mutated form: only error answers are classified.
ClassifiesErrorsOnly(p) ==
  IF IsSuccess(p) THEN "none" ELSE "access_denied"

\* Markers win over the status, and a CAPTCHA marker over a challenge marker.
DetectAccessBlock(p) ==
  CASE p.marker = "captcha"   -> "captcha_required"
    [] p.marker = "challenge" -> "challenge_detected"
    [] OTHER                  -> IF p.status = 403 THEN "access_denied" ELSE "none"

NoPage   == [status |-> 0, marker |-> "none"]
Pending  == [kind |-> "pending"]
Escape   == [kind |-> "escape"]
Resource(method, transport, p) ==
  [kind |-> "resource", fetch_method |-> method, transport |-> transport, page |-> p]
FetchError(retryable, reason) ==
  [kind |-> "error", retryable |-> retryable, block_reason |-> reason]

Method == {"httpx", "playwright", "render_playwright", "crawl4ai", "jina_reader"}
Outcome ==
  {Pending, Escape}
    \cup [kind : {"resource"}, fetch_method : Method, transport : Method, page : Page]
    \cup [kind : {"error"}, retryable : BOOLEAN, block_reason : BlockReason \cup {"none"}]

Bump(c)      == metrics' = [metrics EXCEPT ![c] = @ + 1]
Emit(a, ss)  == rows' = [rows EXCEPT ![a] = @ \o ss]
Finish(o)    == outcome' = o /\ pc' = "idle"
Send(route)  == sent' = [sent EXCEPT ![route] = @ + 1]
Classify(r)  == captcha' = (captcha \/ r = "captcha_required")

\* The counters that say how a call ended.
Ended(m) == m.fetched + m.skipped_blocked + m.skipped_permanent + m.failed

\* Mutated forms: a CAPTCHA climbs the ladder like any challenge; the hosted
\* reader is tried before the local browser.
EscalatesCaptcha(reason) ==
  IF cfg.antibot THEN "crawl4ai" ELSE IF cfg.jina THEN "jina" ELSE "unresolved"
ReaderFirst(reason) ==
  CASE reason = "captcha_required" -> "unresolved"
    [] OTHER -> IF cfg.jina THEN "jina" ELSE IF cfg.antibot THEN "crawl4ai" ELSE "unresolved"

\* Where _fetch_access_fallback goes first for a block reason, and where it goes
\* when Crawl4AI did not settle the call; "unresolved" is its None result.
AfterCrawl4ai == IF cfg.jina THEN "jina" ELSE "unresolved"
FirstFallback(reason) ==
  IF reason = "captcha_required" THEN "unresolved"
  ELSE IF cfg.antibot THEN "crawl4ai" ELSE AfterCrawl4ai

Init ==
  /\ cfg \in [antibot : BOOLEAN, jina : BOOLEAN]
  /\ pc = "idle" /\ mode = "auto" /\ page = NoPage
  /\ rows = [a \in Attempt |-> <<>>]
  /\ metrics = [c \in Counter |-> 0]
  /\ outcome = Pending /\ calls = 0
  /\ sent = [direct |-> 0, crawl4ai |-> 0, jina |-> 0]
  /\ captcha = FALSE /\ before = 0

-----------------------------------------------------------------------------
(* Entering fetch(). *)

NewCall(m, ss) ==
  /\ pc = "idle" /\ calls < MaxCalls
  /\ calls' = calls + 1
  /\ mode' = m
  /\ page' = NoPage
  /\ rows' = [a \in Attempt |-> IF a = "first" THEN ss ELSE <<>>]
  /\ sent' = [direct |-> 0, crawl4ai |-> 0, jina |-> 0]
  /\ captcha' = FALSE
  /\ before' = Ended(metrics)
  /\ UNCHANGED cfg

\* The domain is in _blocked_domains: refused before any request.
RefuseBlocked(m) ==
  /\ NewCall(m, <<"started", "failed">>)
  /\ Bump("skipped_blocked")
  /\ Finish(FetchError(FALSE, "none"))

Start(m) ==
  /\ NewCall(m, <<"started">>)
  /\ pc' = "request"
  /\ outcome' = Pending
  /\ UNCHANGED metrics

-----------------------------------------------------------------------------
(* The first direct request: httpx, or Playwright when render_mode is always. *)

Direct == IF mode = "always" THEN "playwright" ELSE "httpx"

\* httpx.TimeoutException or another httpx.HTTPError.
RequestFails ==
  /\ pc = "request" /\ mode # "always"
  /\ Send("direct")
  /\ Bump("failed")
  /\ Emit("first", <<"failed">>)
  /\ Finish(FetchError(TRUE, "none"))
  /\ UNCHANGED <<cfg, mode, page, calls, captcha, before>>

\* An exception outside httpx.HTTPError (RenderError, InvalidURL) leaves fetch()
\* through no handler: nothing is counted and no row is emitted.
RequestEscapes ==
  /\ pc = "request"
  /\ Send("direct")
  /\ Finish(Escape)
  /\ UNCHANGED <<cfg, mode, page, rows, metrics, calls, captcha, before>>

\* HTTP 429: the attempt is closed, the fetcher sleeps and opens a retry.
RateLimited(p) ==
  /\ pc = "request" /\ p.status = 429
  /\ Send("direct")
  /\ page' = p
  /\ rows' = [rows EXCEPT !["first"] = Append(@, "failed"), !["retry"] = <<"started">>]
  /\ Bump("retried")
  /\ pc' = "retry"
  /\ UNCHANGED <<cfg, mode, outcome, calls, captcha, before>>

\* Mutated forms: only retryable answers are counted; the row is forgotten.
CountsRetryableOnly(p, reason) ==
  LET retryable == p.status \notin NON_RETRYABLE_STATUS
  IN  /\ IF retryable THEN Bump("failed") ELSE UNCHANGED metrics
      /\ Emit("first", <<"failed">>)
      /\ Finish(FetchError(retryable, reason))
EmitsNoRow(p, reason) ==
  LET retryable == p.status \notin NON_RETRYABLE_STATUS
  IN  /\ Bump(IF retryable THEN "failed" ELSE "skipped_permanent")
      /\ UNCHANGED rows
      /\ Finish(FetchError(retryable, reason))
\* No fallback resolved an error answer, or none was tried.
GiveUp(p, reason) ==
  LET retryable == p.status \notin NON_RETRYABLE_STATUS
  IN  /\ Bump(IF retryable THEN "failed" ELSE "skipped_permanent")
      /\ Emit("first", <<"failed">>)
      /\ Finish(FetchError(retryable, reason))

\* Any other error status.
Refused(p) ==
  LET reason == DetectAccessBlock(p)
  IN  /\ pc = "request" /\ ~IsSuccess(p) /\ p.status # 429
      /\ Send("direct")
      /\ page' = p
      /\ Classify(reason)
      /\ IF reason # "none" /\ (cfg.antibot \/ cfg.jina)
         THEN /\ Emit("first", <<"failed">>)
              /\ pc' = FirstFallback(reason)
              /\ UNCHANGED <<metrics, outcome>>
         ELSE GiveUp(p, reason)
      /\ UNCHANGED <<cfg, mode, calls, before>>

\* The retry goes through httpx whatever the render mode was.
RetryFails(p) ==
  /\ pc = "retry"
  /\ p = NoPage \/ ~IsSuccess(p)
  /\ Send("direct")
  /\ page' = p
  /\ Bump("failed")
  /\ Emit("retry", <<"failed">>)
  /\ Finish(FetchError(TRUE, "none"))
  /\ UNCHANGED <<cfg, mode, calls, captcha, before>>

\* A 2xx answer, to the request or to its retry, is still checked for an
\* interstitial before it is returned.
Answered(p) ==
  LET reason    == DetectAccessBlock(p)
      transport == IF pc = "retry" THEN "httpx" ELSE Direct
      verdict   == IF reason = "none" THEN "succeeded" ELSE "failed"
  IN  /\ pc \in {"request", "retry"} /\ IsSuccess(p)
      /\ Send("direct")
      /\ page' = p
      /\ Classify(reason)
      /\ rows' = [rows EXCEPT !["first"] = Append(@, verdict),
                              !["retry"] = IF pc = "retry" THEN Append(@, "succeeded") ELSE @]
      /\ IF reason = "none"
         THEN /\ Bump("fetched")
              /\ Finish(Resource(IF mode = "always" THEN "render_playwright" ELSE "httpx",
                                 transport, p))
         ELSE /\ pc' = FirstFallback(reason)
              /\ UNCHANGED <<metrics, outcome>>
      /\ UNCHANGED <<cfg, mode, calls, before>>

-----------------------------------------------------------------------------
(* The access-fallback ladder. *)

Crawl4aiReturns(p) ==
  LET reason == DetectAccessBlock(p)
  IN  /\ pc = "crawl4ai"
      /\ Send("crawl4ai")
      /\ Bump("escalated")
      /\ Emit("crawl4ai", <<"started", "succeeded">>)
      /\ Classify(reason)
      /\ \/ reason = "none" /\ Finish(Resource("crawl4ai", "crawl4ai", p))
         \/ reason = "captcha_required" /\ Finish(FetchError(FALSE, reason))
         \/ /\ reason \in {"challenge_detected", "access_denied"}
            /\ pc' = AfterCrawl4ai
            /\ UNCHANGED outcome
      /\ UNCHANGED <<cfg, mode, page, calls, before>>

\* Whatever it raises is logged and swallowed.  An optional crawl4ai that cannot be
\* imported raises before the inner try: its "started" row gets no verdict.
Crawl4aiFails ==
  /\ pc = "crawl4ai"
  /\ Send("crawl4ai")
  /\ Bump("escalated")
  /\ \E ss \in {<<"started", "failed">>, <<"started">>} : Emit("crawl4ai", ss)
  /\ pc' = AfterCrawl4ai
  /\ UNCHANGED <<cfg, mode, page, outcome, calls, captcha, before>>

\* The reader's resource always carries status 200.
JinaReturns(marker) ==
  LET p      == [status |-> 200, marker |-> marker]
      reason == DetectAccessBlock(p)
  IN  /\ pc = "jina"
      /\ Send("jina")
      /\ Bump("escalated")
      /\ Emit("jina_reader", <<"started", "succeeded">>)
      /\ Classify(reason)
      /\ Finish(IF reason = "none" THEN Resource("jina_reader", "jina_reader", p)
                                   ELSE FetchError(FALSE, reason))
      /\ UNCHANGED <<cfg, mode, page, calls, before>>

\* The reader's own FetchError ends the call: timeouts, 429 and 5xx are retryable.
JinaRaises(retryable) ==
  /\ pc = "jina"
  /\ Send("jina")
  /\ Bump("escalated")
  /\ Emit("jina_reader", <<"started", "failed">>)
  /\ Finish(FetchError(retryable, "none"))
  /\ UNCHANGED <<cfg, mode, page, calls, captcha, before>>

\* Any other exception of an injected reader is logged and swallowed.
JinaBreaks ==
  /\ pc = "jina"
  /\ Send("jina")
  /\ Bump("escalated")
  /\ Emit("jina_reader", <<"started">>)
  /\ pc' = "unresolved"
  /\ UNCHANGED <<cfg, mode, page, outcome, calls, captcha, before>>

\* _fetch_access_fallback returned None.
Unresolved ==
  LET reason == DetectAccessBlock(page)
  IN  /\ pc = "unresolved"
      /\ IF IsSuccess(page)
         THEN /\ Bump("skipped_permanent")
              /\ Finish(FetchError(FALSE, reason))
              /\ UNCHANGED rows
         ELSE GiveUp(page, reason)
      /\ UNCHANGED <<cfg, mode, page, calls, sent, captcha, before>>

-----------------------------------------------------------------------------
Call == \E m \in {"auto", "always"} : RefuseBlocked(m) \/ Start(m)

Progress ==
  \/ RequestFails \/ RequestEscapes
  \/ \E p \in Page : RateLimited(p) \/ Refused(p) \/ Answered(p) \/ RetryFails(p)
  \/ RetryFails(NoPage)
  \/ \E p \in Page : Crawl4aiReturns(p)
  \/ Crawl4aiFails
  \/ \E k \in Marker : JinaReturns(k)
  \/ \E b \in BOOLEAN : JinaRaises(b)
  \/ JinaBreaks \/ Unresolved

Next == Call \/ Progress

Spec == Init /\ [][Next]_vars

-----------------------------------------------------------------------------
(* Properties. *)

Last(s) == s[Len(s)]

\* The type of every variable of the fetcher.
TypeOK ==
  /\ cfg \in [antibot : BOOLEAN, jina : BOOLEAN]
  /\ pc \in {"idle", "request", "retry", "crawl4ai", "jina", "unresolved"}
  /\ mode \in {"auto", "always"}
  /\ page \in Page \cup {NoPage}
  /\ rows \in [Attempt -> Seq(RowStatus)]
  /\ metrics \in [Counter -> Nat]
  /\ outcome \in Outcome
  /\ calls \in 0..MaxCalls
  /\ sent \in [{"direct", "crawl4ai", "jina"} -> Nat]
  /\ captcha \in BOOLEAN
  /\ before \in Nat

\* Whatever transport produced it, a page fetch() returns is no interstitial:
\* it carries no CAPTCHA or challenge marker and is not a 403.  Three places
\* (the direct answer, Crawl4AI's page, the reader's page) have to classify it.
ReturnedPageUnblocked ==
  outcome.kind = "resource" =>
    outcome.page.marker = "none" /\ outcome.page.status # 403

\* fetch(): "Explicit CAPTCHA responses always fail closed": once the call has
\* classified a CAPTCHA page, no later step of it sends a request or returns a page.
CaptchaFailsClosed ==
  [][captcha /\ captcha' /\ calls' = calls =>
       sent' = sent /\ outcome'.kind # "resource"]_vars

\* The ladder: the site is asked at most twice and every fallback at most once;
\* a fallback runs only if it was enabled and the direct page was blocked, and
\* the hosted reader never runs before an enabled local browser was tried.
EscalationLadder ==
  /\ sent.direct <= 2 /\ sent.crawl4ai <= 1 /\ sent.jina <= 1
  /\ sent.crawl4ai = 1 => cfg.antibot
  /\ sent.jina = 1 => cfg.jina /\ (cfg.antibot => sent.crawl4ai = 1)
  /\ sent.crawl4ai + sent.jina > 0 =>
       DetectAccessBlock(page) \in {"challenge_detected", "access_denied"}

\* Accounting: no call is counted twice, and an ended call is counted once
\* unless a fallback settled it (a page or its own error, escalated only) or an
\* exception outside httpx.HTTPError escaped.
OutcomeCounted ==
  LET counted == Ended(metrics) - before
  IN  /\ counted \in 0..1
      /\ pc # "idle" => counted = 0
      /\ pc = "idle" /\ calls > 0 /\ outcome # Escape
           /\ sent.crawl4ai + sent.jina = 0 => counted = 1

\* Unless an exception escaped, whatever path an ended call took its direct
\* requests have a verdict as their last row, and the fallback whose page it
\* returned says "succeeded".  (A fallback that broke outside its handlers, on the
\* import of crawl4ai or a foreign exception of an injected reader, does keep an
\* open row: the call went on without it.)
EveryAttemptClosed ==
  pc = "idle" /\ outcome # Escape =>
    /\ \A a \in {"first", "retry"} :
         rows[a] # <<>> => Last(rows[a]) \in {"failed", "succeeded"}
    /\ outcome.kind = "resource" /\ outcome.transport \in Attempt =>
         /\ rows[outcome.transport] # <<>>
         /\ Last(rows[outcome.transport]) = "succeeded"

=============================================================================
