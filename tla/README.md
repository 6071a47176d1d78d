# open_web_retrieval: a verification development

TLA+ models of the parts of `open_web_retrieval` whose behaviour depends on
who does what in which order: the disk cache shared by processes, the throttle
and the token shared by threads, the fetchers with their pacing, their ladder of
fallbacks and their rendering of pages, the client that composes them with ten
search adapters, and the registries, claims and worktrees that the agents use
that work on the repository. TLC checks the models on small instances; TLAPS
proves their safety properties for every value of the constants.
`PROJECT.json` ties each definition to the lines it models and each property to
a mutated definition that violates it. Paths below are relative to the
repository's root unless they start with `client.py` and the like, which are in
`src/open_web_retrieval/`.

## 1. The system

| Component | State it keeps | Operations | Modelled by |
|---|---|---|---|
| `SourceFetcher` (`fetch_extract.py`, `adapters/jina.py`) | configuration, `FetchMetrics`, tool-call rows, `_last_request` per domain | `fetch`, `extract` | `SourceFetcher`, `FetchExtract`, `FetchPacing` |
| Extraction (both fetchers) | none | choice of an extractor, shell heuristic, embedded JSON, rendering | `Extraction`, `FetchExtract` |
| `AsyncSourceFetcher` (`async_fetch.py`) | the same, shared by coroutines | `fetch`, `extract` | `AsyncFetch` |
| `DiskCache` (`cache.py`) | one file and one lock file per key | `get`, `set`, `clear`, `evict_expired` | `DiskCache`, `CacheContract` |
| `ProviderThrottle` (`adapters/base.py`) | a semaphore, a pacing lock, `_next_allowed`; a process-wide registry of throttles | `hold`, `throttle_for`, `reset_provider_throttles`, `paced` | `ProviderThrottle` |
| Reddit adapter (`adapters/reddit.py`) | a bearer token and its expiry | `search`, `_access_token` | `PacedAdapters`, `SearchAdapters` |
| OpenAlex adapter (`adapters/openalex.py`) | none | `search` with bounded retry through the throttle | `PacedAdapters`, `SearchAdapters` |
| Other adapters and the tools (`adapters/*.py`) | none | one request, normalisation of its answer | `SearchAdapters` |
| `OpenWebRetrievalClient`, `AsyncOpenWebRetrievalClient` (`client.py`, `async_client.py`) | a search cache, a fetch cache, adapters, a fetcher | `search`, `retrieve` | `Retrieval` |
| Tool-call rows, search log (`observability.py`, `search_log.py`) | an append-only sink | `emit_tool_call`, `log_search` | rows in the fetchers; a log that fails in `Retrieval` |
| Models, exceptions, access alternatives | none | construction, a lookup table | validation of queries in `SearchAdapters` |
| Plan registry (`scripts/meta/plan_reservations.py`, `scripts/meta/create_plan.py`) | one YAML file, plan files, the plan index | reserve, consume, release, mark historical, `create_plan` | `PlanRegistry` |
| Active work (`scripts/meta/plan_reservations.py`) | claims in the same YAML file | claim, observe, release, ingest, list | `ActiveWork` |
| Claims (`scripts/meta/worktree-coordination/check_claims.py`) | `active-work.yaml`, session files; no lock | claim, release, clean up, heartbeat, check of a plan | `ClaimsFile` |
| Worktrees (`create_worktree.py`, `safe_worktree_remove.py`, same directory) | git's worktrees and branches | create, remove | `Worktrees` |
| Validators (`enforced_planning/`, `scripts/`), workbench | none of their own | reading and reporting | no: sequential, read-only |

**How they interact.** A client asks each provider of a query in turn. An
adapter takes a slot of its provider's throttle around its request. The hits go
into the search cache and into one merged list; `retrieve` takes each hit's
document from the fetch cache or from its fetcher, which paces requests per
domain, retries once after a 429 and climbs the ladder of fallbacks when the
page is an interstitial; extracting a page may call the fetcher again to render
it. Caches are directories, so clients in several processes share them. The
agents that develop the repository reserve plan numbers and claim active work in
one locked file, claim plans and features in another that is not locked, and
make and remove worktrees whose scripts look at both stores of claims.

**What is hard.**

- *Interleaving.* Processes between two system calls on a cache file; threads
  between the semaphore and the pacing lock, or between the test and the reading
  of a token; coroutines at an await; tasks that miss the same cache entry;
  agents that read and rewrite one file.
- *Stale reads.* A cache file is unlinked by name after it was read; a stamp is
  read before a sleep and written after it; the index is read steps before it
  is written; a worktree is checked, then removed; a cache key does not hold all
  of the query.
- *Failure in the middle.* A file is truncated, then written; a lock's holder
  dies; an undo runs after an error of the very operation that took effect; a
  rendering fails inside an extraction; the log fails while an error is logged.
- *Retries and timeouts.* A retry after a 429 neither repeats its request's
  transport nor takes part in the pacing; OpenAlex repeats a request that needs
  a slot of its own; sessions become stale while their owner is at work.
- *Limits.* The size bound of a cache evicted from several lists at a time; the
  semaphore at zero while its holders sleep.

`PROJECT.json` lists each of these at its line under `hazards`, with the
properties that would show it going wrong.

**What makes each component correct.**

| Component | Properties (safety unless said otherwise) |
|---|---|
| fetch | no interstitial is returned as a page; a CAPTCHA stops the ladder; the ladder's order and bounds; each call is counted once and leaves no attempt open |
| extract | it ends with a document whatever its rendering does; no page is rendered twice |
| pacing | requests to a domain are an interval apart (holds per task, not per domain, and not for the retry after a 429); the shared counters and rows of the asynchronous fetcher account for every call |
| cache | files are torn only under their writer's lock or after a cut write; a bounded size at rest; `get` returns what the last effective `set` of its key stored or nothing; every operation ends (liveness) |
| throttle, adapters | concurrency and spacing; a grant covers one request; a refused token is never used again; every search ends (liveness) |
| client | merged by priority without duplicates; a batch accounts for each hit; late answers and failing stores leave the other entries of the caches alone; hits fit the controls of their query (all but two of them) |
| plan registry | numbers are distinct; a call does all or nothing unless its index cannot be read or its undo fails; consumed is for good; every call ends (liveness); each created plan is in the index (does not hold) |
| active work | one holder of a scope, whose renewal only a legacy claim refuses; observed files stay; the work of the dead expires (liveness) |
| claims | one claim per instance and per scope, whatever saves overtake each other; only then is a reported claim lost; a dead owner yields (liveness); an active one keeps its claims from other agents, if it runs one process at a time and its session file is not being rewritten |
| worktrees | no work is lost to calls that do not cross; claims stop removals; claims of one area keep creations apart |

## 2. Modules

| Module | Role |
|---|---|
| `SourceFetcher` | `fetch()` as a state machine over what it waits for |
| `Extraction` | what `extract()` makes of a page: functions, used by both fetchers |
| `FetchExtract`, `MCFetchExtract`, `FetchExtractProofs` | `fetch()` and `extract()` together, one calling the other |
| `FetchPacing` | `_rate_limit_wait()` and the request around it |
| `AsyncFetch`, `MCAsyncFetch`, `AsyncFetchProofs` | the asynchronous fetcher, built on `FetchPacing` (the proofs are of both) |
| `CacheContract` | abstract: a register per key that may forget |
| `DiskCache`, `DiskCacheProofs` | the cache at the grain of system calls; implements `CacheContract` |
| `ProviderThrottle` | `hold()` at the grain of its blocking calls |
| `PacedAdapters`, `PacedAdaptersProofs` | the request loops of OpenAlex and Reddit over the throttle; implement it (the proofs are of both) |
| `Picks` | the elements of a sequence at some of its places, in order |
| `SearchAdapters` | what each adapter makes of a query and a response: functions |
| `Retrieval`, `MCRetrieval`, `RetrievalProofs` | `search()`, `retrieve()` and the tools, over `SearchAdapters`; the caches are taken as `CacheContract` describes them |
| `PlanRegistry`, `PlanRegistryProofs` | the locked registry and `create_plan()` around it |
| `Crew` | the agents, and which of them have died; used by both stores of claims |
| `ActiveWork`, `MCActiveWork` | the active-work half of the registry |
| `ClaimsFile`, `MCClaimsFile` | `check_claims.py`: the file without a lock, and the session files |
| `ClaimsProofs` | the proofs of both stores of claims, `ActiveWork` and `ClaimsFile` |
| `Worktrees`, `MCWorktrees`, `WorktreesProofs` | `create_worktree.py` and `safe_worktree_remove.py` over git |

In every module a step is what no other actor can tell apart: up to the next
blocking call for threads, up to the next await for coroutines, one system call
on a shared file or one git command for processes. *Ghost* variables and fields,
named in the declarations, record history for the properties; no guard reads
one. Definitions headed *Mutated form* are used by no specification: each is the
form of its neighbour that a plausible slip would give.

### SourceFetcher, Extraction, FetchExtract

`pc` is what the current call waits for: the direct `request`, the `retry`
after a 429, `crawl4ai`, the `jina` reader, or `unresolved`, the moment between
a ladder that ran out and the typed error. A page is a status and a marker;
`DetectAccessBlock` is the classification of `_detect_access_block_payload`
(CAPTCHA, then challenge, then 403). `rows` holds the rows of each attempt id,
`metrics` the counters.

A page's content is known by what the extractors tell apart: its type, whether
it is empty, yields little text, can be read by Trafilatura, has the signals of
a JavaScript shell, holds embedded JSON. `ExtractPage` is an extraction that
needs no rendering. `ExtractShell` begins a `fetch` with `render_mode` "always"
inside the extraction: all steps of `SourceFetcher` follow, its ladder included,
until `RenderSucceeds` or `RenderFails` takes the control back.

### FetchPacing and AsyncFetch

Time is relative: `since[d]` is the clock minus `_last_request[d]`, capped at
the interval, and `Tick` advances all clocks together and cannot pass a
sleeper's end. `Arrive` reads the stamp and computes the wait, as the code does
before its await; `Wake` stamps and sends. The retry after a 429 is `Resend`: it
is neither paced nor stamped, and `OwnRequestsSpaced` does not count it. One task
alone is the synchronous fetcher.
`AsyncFetch` adds to those steps what the coroutines share: `metrics`, the rows
of their calls, what each call returns or raises, and the extraction. `Escape`
is a cancellation at an await, or an exception that no handler expects.

### DiskCache and CacheContract

A file is absent, an envelope, or torn by the process that truncated it. `set`
is `SetOpen` (lock, truncate), `SetWrite` (or `SetFails`), `List`, a `Stat` for
each listed file, which raises when the file is gone by then, `Sort`,
`UnlinkListed`; `get` is `GetRead` under the lock and `GetCheck` after it, which
unlinks an expired file by name; `evict_expired` scans and purges without the
lock. A crash frees the dead process's locks and leaves its torn file.
`CacheContract` knows neither files nor locks nor time: sets begin, take effect
or are abandoned; keys are forgotten at any moment; a `get` asks for one key and
answers with what is remembered under that key at some moment of the call, or
with nothing. The refinement maps the register of a key to the value of its
envelope, and the phase of a `get` (asked, found, done) to where it is. An entry
removed by the wrong hand is a *forget* there: losing a fresh entry is
consistent with the contract.

### ProviderThrottle and PacedAdapters

`gap[g]` is `_next_allowed` minus the clock, at least zero. Throttles are
numbered, so a thread may still hold on to one that `reset_provider_throttles`
has forgotten: the limits are per throttle. `Interrupt` is an exception raised
in the thread at any step of `hold()`; it gives back the permit and the lock,
as the `with` blocks do.

`PacedAdapters` runs searches over it, all of OpenAlex or all of Reddit. `phase`
is where a search is between its requests. `FailsInTransit` goes round the retry
loop and asks for a slot again. Reddit's token is a number; `ChecksToken` tests
the field, `ReadsToken` reads it again, `StoresToken` and `StampsToken` are the
two assignments after a login (`StampFails` is an `expires_in` that is no number,
between them), `DropsToken` the one after a 401, which clears
whatever token is there by then.

### SearchAdapters and Retrieval

An adapter is a record of the points in which adapters differ: the combinations
of controls it refuses, the controls that reach its provider, whether it wants
credentials, what a malformed body or item leads to, which items it skips and
whether it skips before or after it counts to `top_k`. A query is known by its
providers and by the set of controls it uses; a response by its status, by how
far its body is usable, and by its items. `Ends` says how a search ends (hits, a
typed error, or an exception that is none), `HitsOf` what hits it has. The tools
of `adapters/tools.py` are queries with one provider and the controls that the
tool's signature has.

In `Retrieval` a task is a coroutine of the asynchronous client, or a thread or
process of the synchronous one; a call is interrupted between the cache lookup
and the answer (`Ask`, `ProviderAnswers`), and between the fetch and its
document (`Fetch`, `Fetched`). `ProviderBreaks` is an exception of an adapter
that is no `OpenWebRetrievalError`. Caches and log may fail wherever they are
used: `CacheBreaks` is the search cache's `get`, outside the `try`;
`StorageBreaks` its `set` or the log, before, while or after the entry is
written, where *while* leaves the key without the entry it had (`Spoil`), as
`SetFails` of `DiskCache` does; `FetchCacheBreaks` and `FetchStoreBreaks` are the
same of the fetch cache, inside the `try`. Each hit carries, as a ghost, the controls
that its answer depended on. Fetching is one step that succeeds or raises: the
ladder is the subject of `SourceFetcher`. `Forget` is expiry or eviction at any
time, which `CacheContract` allows. Both caches are taken to be configured.

### PlanRegistry

The YAML file is a table of entries, or `Broken` when it does not parse. A
locked block is `Enter` (lock, read, reconcile the lineage) and one of
`Reserve`, `Consume`, `Release`, which change the view and write it whole.
`SaveCutShort` is a block whose text is not written to the end: a prefix of the
entries is left, or a text that does not parse, and either the process dies or
the exception goes on into `create_plan`. The other steps are the system calls
of `create_plan` on the plan file and the index, truncation and write apart, and
its exception handler. `WritePlanFails` and `WriteIndexFails` are errors inside
the `try`, which lead to the handler; `Strands` is one that nothing handles, of
the read of the index before the `try` or in the handler itself: it ends the
call and leaves the reservation behind. `Pull` is a merge that brings plans of
`origin/master`, which an agent may or may not know of when it reserves.

### ActiveWork

An operation is one step, because it holds the lock that `PlanRegistry` models
from its reading to its save. `work[k].left` is how long the entry of an agent
and scope is valid, `held` how long the agent takes it to be: the two differ
after a save that was cut short, and where legacy files put entries into the
registry without asking. An entry whose time is over counts as none.

### ClaimsFile

Every invocation of `check_claims.py` loads the file, decides, and may truncate
and write it; the four steps `Invoke`, `CheckOwner`, `Truncate`, `Write` of
several processes interleave, also the shell and the editor hook of one agent.
The file is whole, empty (truncated, which loads as no claims) or broken (it
does not parse, and every invocation raises). A process that writes while
another's text is in the file it has opened lays its own over it (`Overlaid`):
what sticks out of a longer one runs on among the completions or breaks the
file. The text of a save is taken to fit the buffer of its stream, 8 KiB, and so
to be written at once. The list of claims is a set ordered by the number of the
call that made each, since a call appends to what it has loaded; a release
removes the first claim of its instance, as the code does, and not every one. A
session is a file too, truncated (`Stamp`) and written (`Stamped`). Time is the
age of sessions and completions. A death leaves whatever was being written. The
answer of `--check-plan-session` is an exit status, and the edit that its caller
then makes is not modelled. Assumed are a session file per agent (its name holds
an SSE port or a parent PID, which the system may reuse), texts of one length in
each, and a session id in every claim (those of older versions, which have none,
anyone may release). `raced` records that a save has overtaken another or was
cut short by a death, `reported` what the agents have been told until then.

### Worktrees

`Create` runs through `Verify`, `Target`, `Branch`, `Add`, `Inspect` and, if the
tree is not clean, `Cleanup` and `Unbranch`; `Remove` through `CheckClaims`,
`CheckMarker`, `CheckStatus`, `GitRemove` and `GitRemoveForced`. Git is external
and modelled by what it refuses. Sessions edit and commit in trees that were
reported created. Claims come and go in the store of `coordination_claims` and
in `active-work.yaml`, which is unreadable while it is written.

## 3. Runs

| Run | Instance | Shows |
|---|---|---|
| `fetcher` | 3 calls; statuses 200, 403, 404, 429 and 503; six contents; all configurations | the properties of `fetch` and `extract`, and their types |
| `cache` | 2 processes, 2 keys, `max_entries` 1, 3 operations, 1 tick, 1 fault | the cache's safety, its liveness and the refinement |
| `throttle` | 2 threads, limit 1, interval 2, 1 retry, 2 tokens, one reset | the throttle under the adapters, the token, and that searches end |
| `pacing` | 2 coroutines, 3 domains (one blocked), interval 2, `Retry-After` up to 1, 3 calls | spacing per task, shared counters and rows |
| `pacing_shared` | 2 tasks, 1 domain | **violation**: two tasks send together |
| `retrieval` | 2 tasks, 2 calls, 6 queries over 10 providers, 6 responses, 3 URLs, `top_k` 2 | the client's properties |
| `retrieval_hints` | 1 task, 2 queries that differ in their instruction | **violation**: hits of another query |
| `plans` | 2 agents, 2 calls, 2 titles, a legacy and a remote plan, 1 fault | the registry's safety and liveness |
| `plans_index` | 2 agents, 2 calls, no fault | **violation**: a created plan has no row |
| `work` | 2 agents, 1 scope, 2 legacy claims, time to live 2, 1 cut save | one holder, renewals, observed files, expiry |
| `claims` | 2 agents (one with hooks), 2 branches, 2 plans, 2 features, 3 calls, 1 death | the five properties of the claims |
| `worktrees` | 2 agents, 1 path, 2 branches, 2 areas, 3 calls, 2 claims | the three properties of the worktrees |

**The properties.** The comment above each one quotes what the code says of it.

| Run | Property | In short |
|---|---|---|
| `fetcher` | `ReturnedPageUnblocked` | no page `fetch` returns is an interstitial, whatever transport made it |
| | `EscalationLadder` | each fallback at most once, in order, and only after a block |
| | `OutcomeCounted`, `EveryAttemptClosed` | a call is counted once; its direct attempts end with a verdict, up to escaped exceptions |
| | `CaptchaFailsClosed` | after a CAPTCHA no request and no page |
| | `ExtractionSettles`, `RenderedOnce`, `ExtractTypeOK` | an extraction ends with a text it may have; no page is rendered twice |
| `cache` | `TornOnlyWhileWriting`, `SizeBoundedAtRest` | torn files and the size bound under concurrent writers and a crash |
| | `ImplementsContract`, `OperationsEnd` | the refinement of `CacheContract`: a `get` answers for its own key; nobody waits for a dead holder |
| `throttle` | `ConcurrencyCapped`, `GrantsSpaced`, `OneRequestPerGrant` | the limits, and that they hold of every request sent |
| | `RefusedTokenDropped`, `SearchEnds` | a refused token does not come back; searches end |
| `pacing` | `CallsCountedOnce`, `AttemptsClosed` | metrics and rows of interleaved coroutines |
| | `OwnRequestsSpaced` | the rate of one task's paced requests |
| `pacing_shared` | `RequestsSpaced` | the rate of a domain (violated) |
| `retrieval` | `MergedByPriority`, `BatchAccountsForHits` | the merged list, and the records of a batch |
| | `HitsFitTheControls`, `LateAnswersKeepCaches` | cached hits fit the query; late answers and failures take no entry but the one being stored |
| `retrieval_hints` | `HitsAnswerTheQuery` | the same with locale and instruction (violated) |
| `plans` | `NumbersDistinct`, `AllOrNothing`, `ConsumedForGood`, `CreateEnds` | reservations under crashes and cut saves |
| `plans_index` | `IndexListsPlans` | each created plan has its row (violated) |
| `work` | `OneHolder`, `HolderRenews` | one holder of a scope; only a legacy claim refuses its renewal |
| | `ObservedKept`, `DeadWorkExpires` | observed files outlast renewals and ingestions; expiry |
| `claims` | `OneClaimPerInstance`, `ScopesExclusive` | what an unlocked file still guarantees |
| | `ReportedClaimsListed` | what it does not: claims are lost, but only to a race or a death |
| | `OwnersKeepClaims`, `DeadOwnerYields` | active owners keep their claims, dead ones give way |
| `worktrees` | `ClaimsSeparateAgents` | of two creations in one area, the first had lost its claims |
| | `WorkKept`, `ClaimsStopRemoval` | uncrossed calls lose no work and heed standing claims |

**Why the bounds are enough.** Two processes, tasks or agents give every
pairwise race. `max_entries` 1 with two keys makes every second `set` evict.
Three cache operations allow a writer, its rival and a reader; one tick past a
zero time to live makes an entry expire between two steps. With one permit for
two threads one waits, a retry gives its permit away, and two tokens let one
thread log in while the other's refusal is on its way. Three fetch calls let an
extraction render a page after a call that left counters. Three URLs against a
`top_k` of 2 make the merged list longer than its cut; the responses are empty,
repeat a URL, overlap, hold items without a URL, undated, old or malformed, or
fail; every adapter occurs in a query, one of them not configured. In the plan
registry `MaxPlan` leaves a number for each call (an assumption of the module),
and the single fault is a crash at any step, a save cut short at any entry or an
error that nothing handles; plans and index rows may fail to be written any
number of times.
Claims of a plan, of a feature, of the shared feature and with `--force` meet
on two branches; three calls are two claims that race and a release. On one path
a creation, its rival and a removal cross in every order; agents and branches of
`worktrees` are interchangeable, so the run uses symmetry (it checks no liveness).
`MaxOps`, `MaxClock`, `MaxFaults`, `MaxCalls`, `MaxGens`, `MaxTokens`,
`MaxClaims`, `MaxDeaths`, `MaxPlan` and `MaxRetryAfter` appear only in guards
and in the ranges of choices. Where calls are bounded the system stops when they
are used up, so those configurations turn the deadlock check off; `throttle`,
`pacing_shared` and `work` never stop and keep it.

**Fairness.** It is assumed only where a liveness property is checked.
- Cache: weak fairness of each process's steps; strong fairness of taking a
  lock, because `flock(2)` queues its waiters and a lock that keeps being freed
  is eventually granted. Starting an operation and crashing are not fair.
- Throttle: weak fairness of time and of a thread that can run; strong fairness
  of the semaphore and of the lock, which wake a waiter at each release. A
  request is assumed to end (the adapters give httpx a timeout). Starting a
  search, interruptions and resets are not fair.
- Plan registry: the same as the cache, with agents for processes.
- Active work and claims: weak fairness of time alone. Nobody has to act for
  the work of a dead agent to expire.

## 4. Disagreements with the documentation

Each has a run whose property is the document's sentence; `findings` in
`PROJECT.json` quotes it.

1. `async_fetch.py:110`: the stamp is read before the sleep and written after
   it, so tasks that overlap are each paced but not with one another.
2. `client.py:217`: the cache key of a search lacks `locale` and
   `retrieval_instruction`. With a warm cache Brave even answers a query whose
   instruction it refuses (`adapters/brave.py:62`). `HitsFitTheControls` shows
   that no other control is mixed up.
3. `create_plan.py:152`: two concurrent calls each write the index they read
   before; one row is lost though both report success.

Seen while modelling, and without a run of their own:

- *Fetch.* The retry after a 429 waits for `Retry-After` alone, which the server
  may set to 0, and is not paced (`async_fetch.py:279`), although the rate is
  said to hold per domain (82). The retry after a 429 of a rendered request uses
  httpx, and its page is labelled `render_playwright` (`fetch_extract.py:897`).
  A 429 whose retry is answered 404 raises `retryable=True` (940, against the
  docstring at 757); an unresolved challenge on a 503 is retryable too (995). A
  `RenderError` leaves `fetch` with an open `started` row and no counter; so
  does a Crawl4AI that cannot be imported (670) with the row of that fallback.
- *Cache.* `evict_expired` unlinks by name without the lock and can remove an
  entry stored after the read (`cache.py:165`); eviction follows modification
  time, which `get` does not touch, so it is not LRU (143); `set` may raise
  `FileNotFoundError` out of the sort of its eviction and leave the directory
  above `max_entries`; `get` unlinks outside its lock (110-111).
- *Adapters.* Payloads of an unexpected shape raise untyped exceptions in Brave,
  Exa, Tavily, SearxNG, GitHub, X and Reddit, which `search` turns into a
  `RuntimeError` for the whole query. A query that lists OpenAlex beside another
  provider ends so too (`adapters/openalex.py:206`, `models.py:151`). Hits
  without a URL of the four web indexes reach `retrieve`. Brave and SearxNG
  ignore the domain filters without a word. X sends `since:` with today's
  date, whatever `recency_days` says (`adapters/x.py:73`). A comment there says the
  date is computed from it. Reddit reads its token twice
  (`adapters/reddit.py:72`) and may send `bearer None`; a late 401 drops a token
  another thread has just got (157).
- *Client.* `search` says that all providers were unavailable when one was
  missing and the others failed or had no hits (`client.py:357-362`); a
  provider's failure is not reported when another has hits. A record made from
  the fetch cache has no `fetched_resource`. An error of the search log while a
  provider's error is logged escapes as it is (340-349); an `OSError` of the
  cache or the log after an answer turns it into a `RuntimeError` (354).
- *Plan registry.* One that lost entries to a cut save gives their numbers
  again; a release has no owner check, so an agent that undoes then may release
  another's number; an undo that read the index while it was truncated empties
  it; an index that cannot be read (`create_plan.py:140`, outside the `try`)
  leaves the reservation behind, and so does an undo whose `unlink` or write of
  the index fails (169-170). `ingest_legacy_state` says "once" and puts a
  claim back each time, also one that has been released.
- *Claims.* Two saves at a time may leave a file that does not parse, on which
  every command then raises (`check_claims.py:622`) until somebody repairs it. A
  session file is truncated before it is written (157): read at that moment it
  names no session, its owner counts as stale, and another session may release
  the claim of an active owner without `--force`, contrary to 945. Two processes
  of one agent, its shell and a hook, may find no session and make one each; the
  later replaces the earlier, whose claims then count as stale.
  `cleanup_old_completed` compares UTC stamps with local time; a claim of the
  shared feature passes the check of its plan as well (`check_claims.py:332`).
- *Worktrees.* An unreadable `active-work.yaml` counts as no claims
  (`safe_worktree_remove.py:165`), and a `git status` that fails as a clean tree
  (64).

## 5. Proofs

| Module | Theorems | Inductive invariant |
|---|---|---|
| `PacedAdaptersProofs` | `TypeCorrect`, `PermitsAreConserved`, `ConcurrencyIsCapped`, `PacingIsExclusive`, `GrantsAreSpaced` (the throttle) | types; permits plus holders is the limit; whoever is pacing holds the lock; `gap + age` is the interval; a thread about to be granted has no gap left |
| | `AdaptersArePaced`, `SearchesAreCapped`, `SearchesAreSpaced`, `GrantsCoverRequests`, `RefusedTokensStayOut` | a holder has sent exactly one request; the tokens in use were issued, and one about to be stored was never refused and is no other thread's |
| `AsyncFetchProofs` | `WaitsAreEnough`, `OwnRequestsAreSpaced` (the pacing) | types; the stamp of a domain is never older than a task's last request to it; what is left of a sleep makes up what is lacking |
| | `AsyncRequestsAreSpaced`, `MetricsAddUp`, `EveryAttemptIsClosed` | the counters add up to the calls that ended; the rows of a call are those that its place in `fetch` allows |
| `FetchExtractProofs` | `ReturnedPagesAreUnblocked`, `LadderIsClimbedInOrder`, `OutcomesAreCounted`, `AttemptsAreClosed`, `CaptchasFailClosed` (`fetch`) | `FetchInv`: what was sent, the rows of each attempt and the classification of the page, at each place where the call waits |
| | `ExtractionFetches`, `ExtractTypes`, `ExtractionsSettle`, `PagesAreRenderedOnce` | `ExtractInv`: a page being rendered was found and has its own text; once an extraction is over, no `fetch` of its own runs |
| `DiskCacheProofs` | `TypeCorrect`, `FilesStayReadable` | types; a writer stores a numbered value and a checker has an envelope; a writer holds its key's lock and the file is its own or gone; nobody but a writer holds a lock |
| | `SizeIsBounded` | `Swept`: when the directory is too full, somebody is writing or still has enough files to unlink, or an eviction was cut short |
| | `CacheKeepsItsContract` | `Versions`: values are numbered by the `set` that wrote them, so that an envelope is never one of a `set` still pending |
| `RetrievalProofs` | `TypeCorrect`, `HitsAreMergedByPriority`, `BatchesAccountForHits`, `HitsFit`, `CachesAreKept` | the gathered hits are of the providers done so far, in their order, each ranked, and under the controls of its provider; the cached ones are too; the records are a prefix of an account of the result |
| `PlanRegistryProofs` | `TypeCorrect`, `NumbersAreDistinct`, `ConsumedIsForGood` | types; an agent in a block has the lock and what it read is still there, up to the lineage; each number in use has an entry, unless a cut save lost some |
| | `PlansAreAllOrNothing` | `Undisturbed`: a number that is reserved is that of the one agent which holds it, and the files are those of consumed numbers and of the agents between writing and consuming |
| `ClaimsProofs` | `TypeCorrect`, `ScopeHasOneHolder`, `HolderIsRenewed`, `ObservedFilesKept` | types; until a save is cut short, a holder's entry outlasts its lease and every other entry of the scope is a legacy one |
| | `FileInvariance`, `OneClaimEach`, `ScopesAreExclusive`, `ReportsAreTrue` (the claims file) | the file, overlaid or not, and what each process has loaded of it are sound lists; a loaded list is older than the call and has passed its checks; without a race one process saves, from what was reported |
| | `OwnersKeepTheirClaims` | `OwnersInv`: no two agents have a session id in common; one that runs one process at a time finds its session again, and its claims carry it |
| `WorktreesProofs` | `Invariance`, `ClaimsKeepAgentsApart`, `ClaimsStopRemovals`, `NoWorkIsLost` | types; a check that stands has a claim; a removal past its check has none it could have seen; unless calls crossed, the tree that a call is making is its own and its branch has no commits |

Each proof has the same shape: `Init => Inv`, one lemma for each kind of step
(types first, then each conjunct the step can disturb), `Inv /\ [Next]_vars =>
Inv'`, and a temporal theorem by PTL. The assumptions are those of the modules:
finitely many threads, natural bounds, HTTP statuses that are numbers, at least
one query, path, area and branch, a name for "nobody" that is not an actor,
requests that have the fields and the kinds of the command line. Why the
strengthenings are needed:

- *Throttle.* `TypeOK` is not inductive alone: that a release stays within the
  semaphore's limit follows from the count of holders. Spacing is about the
  time since the last grant, which the code does not keep; `gap + age =
  Interval` ties it to the timer it does keep.
- *Adapters.* `AdaptersArePaced` shows that a step of a search is a step of
  `hold()` or leaves the throttle alone; so the throttle's theorems hold of the
  adapters without a second proof. For the token, a thread between its login
  and `self._token = ...` carries a token that nobody has been refused yet:
  without that the store could bring a refused one back.
- *Pacing.* Another task may overwrite a stamp, but only with a later one; that
  is why a task's own spacing survives the race while the domain's does not.
  `AsyncRequestsAreSpaced` says the same of the asynchronous fetcher, whose steps
  are those of the pacing with the coroutines' shared data.
- *Fetcher.* The four properties of a call are about its end; what makes them
  true is decided several requests before, so the invariant says of each place
  in the ladder what has been sent, which attempts are open and how the page
  was classified. `ExtractionFetches` shows that `fetch` inside an extraction is
  `fetch`, so the proof is not repeated for `extract`.
- *Cache.* Unlinks ignore the lock, so "the file is the one the writer
  truncated" is false; "or gone" makes it inductive, since only `SetOpen`
  creates a file, and that takes the lock. The size bound holds although no
  process counts under a lock: each writer lists after its write, so the last
  one to list has seen every entry, and unlinking what is already gone does no
  harm. The refinement needs that a value is read while it is registered, or is
  one the call has already seen: `Versions` keeps what a reader holds among the
  values the abstract `get` may return.
- *Client.* The merged list is a `Pick` of the gathered hits at the places where
  a URL occurs first. The library's folds and `SelectSeq` say nothing to the
  provers, so `Pick` is a recursive function, and what it returns (the chosen
  elements, each once, in their order) is proved first, by induction over a set
  of numbers that is closed under successor.
- *Plan registry.* A reserved number is above every entry of the view under the
  lock, so what must survive from one block to the next is that every number
  in use still has its entry. For `AllOrNothing` each step of `create_plan`
  has to say which of entry, file and number are in place.
- *Active work.* Two entries of one scope may stand side by side after an
  ingestion; that at most one of them belongs to an agent that relies on it is
  what has to be carried along.
- *Claims.* Nothing locks the file, so an invariant cannot relate what a process
  has loaded to what the file holds by now. It need not: a save writes the whole
  list, and its claims come first in the text, so that the file, also one that
  another text sticks out of, holds one list that some process had loaded and
  checked, with its own claim added or removed, or does not parse. Such a list
  keeps claims apart whatever has happened to the file meanwhile; what a race
  loses is claims, and `ReportsInv` says that nothing else does. That a claim
  joined the list after the ones it was compared with follows from the numbers
  of the calls. The properties were once stated for calls without a race only;
  the proof showed that the condition is not needed. That an active owner keeps
  its claims rests on the session files instead: the id in a claim is still the
  one in its owner's file, and in no other, so a check that finds it stale has
  found that file old. The conditions of `OwnersKeepClaims` are needed: without
  either TLC finds the claim of an active owner released.
- *Worktrees.* A removal checks the claims several steps before it acts, so the
  invariant says of each place past the check that no claim has been there
  since, unless the ghost `unseen` records that one came. Work is safe because
  a session enters a tree only when its creation has ended (`Own`), and a
  creation that fails drops only a branch it has made, on which nobody else can
  have committed (`Fresh`) unless calls crossed.

Every invariant, action property and refinement that a passing run checks is
also proved. Only model-checked: all liveness (`OperationsEnd`, `SearchEnds`,
`CreateEnds`, `DeadWorkExpires`, `DeadOwnerYields`), since fairness and ENABLED
are outside what the proof system handles.

## 6. Not modelled, and why

The wire formats of the providers and the texts of hits; what an extractor finds
in a text; the HTTP libraries, git and the claims store of `coordination_claims`
(not part of the repository's sources here; `check_coordination_claims.py` only
delegates to it), which are taken by what the code
relies on; the counters of `DiskCache`, which nothing but `stats()` reads; the
construction and closing of clients; the parsing of the environment's limits;
SHA-256 collisions of cache keys; Windows, where `_file_lock` does nothing; the
listing and reporting commands of `check_claims.py`; the validators of
`enforced_planning/` and `scripts/`, whose risk is in parsing texts and which
one process runs to its end; the workbench, which only reads.

## 7. Plan

What is left, most valuable first.

1. The `coordination_claims` store as a module of its own, composed with
   `Worktrees`, once its source is at hand.
2. The search log's sessions and rows.
