----------------------------- MODULE AsyncFetch -----------------------------
(***************************************************************************)
(* AsyncSourceFetcher: fetch() and extract() of the coroutines that share  *)
(* one fetcher.  The steps are those of FetchPacing, with what they return *)
(* or raise, count in the metrics that all coroutines share, and write in  *)
(* the tool-call rows of each call.  Unlike the synchronous fetcher this   *)
(* one classifies no interstitial, has no fallback and no browser.         *)
(***************************************************************************)
EXTENDS FetchPacing, Sequences

CONSTANTS Blocked,   \* blocked_domains
          Statuses,  \* the HTTP statuses a peer may answer with
          Contents,  \* what pages may contain
          AutoRender, \* enable_auto_render
          MaxCalls   \* bound: fetch() calls

X == INSTANCE Extraction

ASSUME AsyncAssumption ==
  /\ Blocked \subseteq Domains /\ Statuses \subseteq Nat \ {429}
  /\ Contents \subseteq X!Content /\ AutoRender \in BOOLEAN /\ MaxCalls \in Nat

VARIABLES rows,     \* the rows of each coroutine's call, by attempt
          result,   \* how its last call ended
          doc,      \* what it has extracted from the page
          metrics,  \* FetchMetrics
          calls,
          ended     \* ghost: how many calls returned or raised a FetchError

call == <<rows, result, doc, metrics, calls, ended>>

Attempt == {"first", "retry"}
Counter == {"fetched", "skipped_blocked", "skipped_permanent", "failed", "retried"}
Results == {"none", "page", "retryable", "permanent", "cancelled"}
NoDoc   == [of |-> "none"]

NON_RETRYABLE_STATUS == {401, 403, 404, 410, 451}

AInit ==
  /\ Init
  /\ rows = [t \in Tasks |-> [a \in Attempt |-> <<>>]]
  /\ result = [t \in Tasks |-> "none"] /\ doc = [t \in Tasks |-> NoDoc]
  /\ metrics = [c \in Counter |-> 0]
  /\ calls = 0 /\ ended = 0

Bump(c)        == metrics' = [metrics EXCEPT ![c] = @ + 1]
Emit(t, a, s)  == rows' = [rows EXCEPT ![t][a] = Append(@, s)]
Quiet          == UNCHANGED <<result, doc, calls, ended>>

\* The call ends: with a page, or with a FetchError.
End(t, r) ==
  /\ result' = [result EXCEPT ![t] = r]
  /\ ended' = ended + 1
  /\ UNCHANGED <<doc, calls>>

-----------------------------------------------------------------------------
(* fetch() *)

Enter(t, ss) ==
  /\ calls < MaxCalls /\ calls' = calls + 1
  /\ rows' = [rows EXCEPT ![t] = [a \in Attempt |-> IF a = "first" THEN ss ELSE <<>>]]
  /\ doc' = [doc EXCEPT ![t] = NoDoc]

RefuseBlocked(t, d) ==
  /\ pc[t] = "idle" /\ d \in Blocked
  /\ Enter(t, <<"started", "failed">>)
  /\ Bump("skipped_blocked")
  /\ result' = [result EXCEPT ![t] = "permanent"] /\ ended' = ended + 1
  /\ UNCHANGED vars

Request(t, d) ==
  /\ d \notin Blocked /\ Arrive(t, d)
  /\ Enter(t, <<"started">>)
  /\ result' = [result EXCEPT ![t] = "none"]
  /\ UNCHANGED <<metrics, ended>>

Paced(t) == Wake(t) /\ UNCHANGED call

\* httpx.TimeoutException or another httpx.HTTPError.
RequestFails(t) ==
  /\ pc[t] = "sent" /\ Return(t)
  /\ Bump("failed") /\ Emit(t, "first", "failed")
  /\ End(t, "retryable")

Refused(t, status) ==
  LET permanent == status \in NON_RETRYABLE_STATUS IN
  /\ status \notin 200..299
  /\ pc[t] = "sent" /\ Return(t)
  /\ Bump(IF permanent THEN "skipped_permanent" ELSE "failed") /\ Emit(t, "first", "failed")
  /\ End(t, IF permanent THEN "permanent" ELSE "retryable")

\* HTTP 429: the attempt is closed before the sleep...
TooMany(t) ==
  /\ RateLimited(t)
  /\ Emit(t, "first", "failed")
  /\ UNCHANGED metrics /\ Quiet

\* ...and the retry opened after it.
Retry(t) ==
  /\ Resend(t)
  /\ Bump("retried") /\ Emit(t, "retry", "started")
  /\ Quiet

\* Mutated form: the failure of the retry is left to the row of the request.
EmitFirst(t) == Emit(t, "first", "failed")

EmitRetryFailed(t) == Emit(t, "retry", "failed")

\* Any error answer to the retry is retryable, as is any httpx.HTTPError.
RetryFails(t) ==
  /\ pc[t] = "resent" /\ Return(t)
  /\ Bump("failed") /\ EmitRetryFailed(t)
  /\ End(t, "retryable")

\* Mutated form: a page that a retry has brought is not counted.
BumpFirst(t) == IF pc[t] = "sent" THEN Bump("fetched") ELSE UNCHANGED metrics

BumpFetched(t) == Bump("fetched")

\* A 2xx answer.  After a retry both rows of the call say "succeeded".
Answered(t) ==
  /\ \E status \in Statuses : status \in 200..299
  /\ Return(t)
  /\ BumpFetched(t)
  /\ rows' = [rows EXCEPT ![t] = [a \in Attempt |->
       IF a = "first" \/ pc[t] = "resent" THEN Append(@[a], "succeeded") ELSE @[a]]]
  /\ End(t, "page")

\* The task is cancelled at an await, or the request raises no httpx.HTTPError:
\* the exception passes through every handler.
Escape(t) ==
  /\ Cancel(t) \/ Return(t)
  /\ result' = [result EXCEPT ![t] = "cancelled"]
  /\ UNCHANGED <<rows, doc, metrics, calls, ended>>

-----------------------------------------------------------------------------
(* extract(), which awaits nothing *)

Extracted(c) ==
  IF AutoRender /\ X!IsShell(c, "httpx_async") /\ c.embedded THEN X!EmbeddedJson
  ELSE X!Document(c, X!ExtractText(c, "trafilatura", "httpx_async"))

Extract(t, c) ==
  /\ result[t] = "page" /\ pc[t] = "idle" /\ doc[t] = NoDoc
  /\ doc' = [doc EXCEPT ![t] = Extracted(c)]
  /\ UNCHANGED <<vars, rows, result, metrics, calls, ended>>

ANext ==
  \/ \E t \in Tasks :
       \/ \E d \in Domains : RefuseBlocked(t, d) \/ Request(t, d)
       \/ Paced(t) \/ RequestFails(t) \/ TooMany(t) \/ Retry(t) \/ RetryFails(t)
       \/ \E s \in Statuses : Refused(t, s)
       \/ Answered(t) \/ Escape(t)
       \/ \E c \in Contents : Extract(t, c)
  \/ Tick /\ UNCHANGED call

ASpec == AInit /\ [][ANext]_<<vars, call>>

-----------------------------------------------------------------------------
(* Properties. *)

\* However the coroutines interleave between their awaits, the shared metrics count
\* each call that returned or raised a FetchError once, and no other.
CallsCountedOnce ==
  metrics.fetched + metrics.skipped_blocked + metrics.skipped_permanent + metrics.failed
    = ended

\* Every attempt that was opened is closed when the call ends, unless it was
\* cancelled: the last row of each attempt is a verdict, and the verdict of the
\* last attempt is that of the call.
AttemptsClosed ==
  \A t \in Tasks : pc[t] = "idle" /\ result[t] \notin {"none", "cancelled"} =>
    LET verdict == IF result[t] = "page" THEN "succeeded" ELSE "failed"
        Last(s) == s[Len(s)]
    IN  \A a \in Attempt : rows[t][a] # <<>> => Last(rows[t][a]) = verdict

=============================================================================
