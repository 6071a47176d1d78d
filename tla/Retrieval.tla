------------------------------ MODULE Retrieval ------------------------------
(***************************************************************************)
(* search() and retrieve() of the client: providers are asked in the order *)
(* of the query, their hits merged, and each hit fetched.  Several tasks   *)
(* (coroutines of the asynchronous client, threads or processes of the     *)
(* synchronous one) share the search cache and the fetch cache, and give   *)
(* way to each other where the code awaits a provider or a page.           *)
(*                                                                         *)
(* The caches behave as CacheContract says: atomic, and free to forget;    *)
(* where storage may fail, their calls also raise, and a set() that fails  *)
(* midway leaves a truncated file, which reads as no entry.                *)
(* All queries have one text; what tells them apart is the query record.   *)
(***************************************************************************)
EXTENDS SearchAdapters

CONSTANTS Tasks,
          Providers,    \* the provider names a query may list
          Configured,   \* those with an adapter
          Credentialed, \* those with credentials, where search() looks for them
          Queries,      \* the queries tasks may make
          Responses,    \* the responses of a provider
          StorageFails, \* whether the caches and the search log may fail
          MaxCalls      \* bound: calls made in one behaviour

\* SearchQuery.ensure_provider: a query lists at least one provider, each once.
ASSUME RetrievalAssumption ==
  /\ Configured \subseteq Providers /\ Providers \subseteq Names
  /\ Credentialed \subseteq Configured /\ Queries # {}
  /\ \A q \in Queries : /\ q.providers \in Seq(Providers) /\ q.providers # <<>>
                        /\ IsInjective(q.providers) /\ ValidQuery(q)
                        /\ q.op \in {"search", "retrieve", "tool"} /\ q.partial \in BOOLEAN
                        /\ q.op = "tool" => ToolQuery(q)
  /\ Responses \subseteq Response
  /\ StorageFails \in BOOLEAN /\ MaxCalls \in Nat

\* Mutated form: the domain filters are left out as well.
UnfilteredKey(p, q) == <<p, q.controls \ ({"locale", "instruction"} \cup Filters)>>

\* The key of the search cache leaves two controls out.
Key(p, q) == <<p, q.controls \ {"locale", "instruction"}>>
Keys      == UNION {{Key(p, q) : p \in Range(q.providers)} : q \in Queries}

VARIABLES searchCache,  \* the cached answer of each provider
          fetchCache,   \* the URLs whose extracted document is cached
          pc, query,    \* where each task is, and in which query
          todo,         \* the providers it has not dealt with
          combined,     \* combined_hits
          missing,      \* the providers without an adapter
          result,       \* what search() returned
          records,      \* the records of the batch so far
          outcome,      \* how its last call ended
          calls

caches == <<searchCache, fetchCache>>
vars == <<caches, pc, query, todo, combined, missing, result, records, outcome, calls>>

Hit    == [url : Urls \cup {NoUrl}, by : Providers, rank : 1..TopK, asked : SUBSET Controls]
Record == [url : Urls \cup {NoUrl}, kind : {"fetched", "cached", "error"}]

Init ==
  /\ searchCache = [k \in Keys |-> <<>>] /\ fetchCache = {}
  /\ pc = [t \in Tasks |-> "idle"] /\ query = [t \in Tasks |-> CHOOSE q \in Queries : TRUE]
  /\ todo = [t \in Tasks |-> <<>>] /\ combined = [t \in Tasks |-> <<>>]
  /\ missing = [t \in Tasks |-> {}] /\ result = [t \in Tasks |-> <<>>]
  /\ records = [t \in Tasks |-> <<>>] /\ outcome = [t \in Tasks |-> "none"]
  /\ calls = 0

Goto(t, l)  == pc' = [pc EXCEPT ![t] = l]
End(t, o)   == Goto(t, "idle") /\ outcome' = [outcome EXCEPT ![t] = o]
Take(t, hs) == /\ combined' = [combined EXCEPT ![t] = @ \o hs]
               /\ todo' = [todo EXCEPT ![t] = Tail(@)]
Add(t, k, kind) == records' = [records EXCEPT ![t] = Append(@, [url |-> k, kind |-> kind])]

\* The provider and the hit a task is dealing with.
Provider(t) == Head(todo[t])
Slot(t)     == Key(Provider(t), query[t])
NextUrl(t)  == result[t][Len(records[t]) + 1].url

-----------------------------------------------------------------------------
(* search() *)

StartCall(t, q) ==
  /\ pc[t] = "idle" /\ calls < MaxCalls
  /\ calls' = calls + 1
  /\ query' = [query EXCEPT ![t] = q]
  /\ todo' = [todo EXCEPT ![t] = q.providers]
  /\ combined' = [combined EXCEPT ![t] = <<>>]
  /\ missing' = [missing EXCEPT ![t] = {}]
  /\ result' = [result EXCEPT ![t] = <<>>]
  /\ records' = [records EXCEPT ![t] = <<>>]
  /\ outcome' = [outcome EXCEPT ![t] = "none"]
  /\ Goto(t, IF q.op = "tool" THEN "asked" ELSE "search")
  /\ UNCHANGED caches

\* The provider's answer to this query is in the cache.
UseCached(t) == Take(t, searchCache[Slot(t)])

SearchCached(t) ==
  /\ pc[t] = "search" /\ todo[t] # <<>>
  /\ searchCache[Slot(t)] # <<>>
  /\ UseCached(t)
  /\ UNCHANGED <<caches, pc, query, missing, result, records, outcome, calls>>

\* The cache's get() is outside the try block: its OSError ends the call.
CacheBreaks(t) ==
  /\ StorageFails /\ pc[t] = "search" /\ todo[t] # <<>>
  /\ End(t, "raised")
  /\ UNCHANGED <<caches, query, todo, combined, missing, result, records, calls>>

Uncached(t) == pc[t] = "search" /\ todo[t] # <<>> /\ searchCache[Slot(t)] = <<>>

NoAdapter(t) ==
  /\ Uncached(t) /\ Provider(t) \notin Configured
  /\ missing' = [missing EXCEPT ![t] = @ \cup {Provider(t)}]
  /\ Take(t, <<>>)
  /\ UNCHANGED <<caches, pc, query, result, records, outcome, calls>>

Ask(t) ==
  /\ Uncached(t) /\ Provider(t) \in Configured
  /\ Goto(t, "asked")
  /\ UNCHANGED <<caches, query, todo, combined, missing, result, records, outcome, calls>>

\* Mutated form: an empty answer replaces the entry.
StoresAny(t, hs) == searchCache' = [searchCache EXCEPT ![Slot(t)] = hs]

\* An answer with hits is cached, an empty one is not.
Store(t, hs) ==
  IF hs = <<>> THEN UNCHANGED searchCache
  ELSE searchCache' = [searchCache EXCEPT ![Slot(t)] = hs]

\* What the adapter makes of response r.
Answer(t, r)  == HitsOf(Provider(t), query[t], r)
Ending(t, r)  == Ends(Provider(t), query[t], r, Credentialed)
Asking(t)     == pc[t] = "asked" /\ query[t].op # "tool"
ToolRuns(t)   == pc[t] = "asked" /\ query[t].op = "tool"

ProviderAnswers(t, r) ==
  /\ Asking(t) /\ Ending(t, r) = "hits"
  /\ Store(t, Answer(t, r))
  /\ Take(t, Answer(t, r))
  /\ Goto(t, "search")
  /\ UNCHANGED <<fetchCache, query, missing, result, records, outcome, calls>>

\* An OpenWebRetrievalError of the adapter is noted, and the loop goes on.
ProviderFails(t, r) ==
  /\ Asking(t) /\ Ending(t, r) = "error"
  /\ Take(t, <<>>)
  /\ Goto(t, "search")
  /\ UNCHANGED <<caches, query, missing, result, records, outcome, calls>>

\* Any other exception of the adapter ends the call, whatever hits it has.
ProviderBreaks(t, r) ==
  /\ Asking(t) /\ Ending(t, r) = "leak"
  /\ End(t, "runtime_error")
  /\ UNCHANGED <<caches, query, todo, combined, missing, result, records, calls>>

\* A set() that fails midway has truncated the entry, whoever stored it.
Spoil(t) == searchCache' = [searchCache EXCEPT ![Slot(t)] = <<>>]

\* The cache or the search log fails: before, while or after an answer is stored,
\* or while an error is logged; the latter is outside the try block.
StorageBreaks(t, r) ==
  /\ StorageFails /\ Asking(t)
  /\ \/ /\ Ending(t, r) = "hits" /\ End(t, "runtime_error")
        /\ \/ UNCHANGED searchCache
           \/ Answer(t, r) # <<>> /\ Spoil(t)
           \/ Store(t, Answer(t, r))
     \/ Ending(t, r) = "error" /\ UNCHANGED searchCache /\ End(t, "raised")
  /\ UNCHANGED <<fetchCache, query, todo, combined, missing, result, records, calls>>

\* A tool asks its adapter and hands on what it gets: no cache, no merge.
ToolAnswers(t, r) ==
  /\ ToolRuns(t) /\ Ending(t, r) = "hits"
  /\ result' = [result EXCEPT ![t] = Answer(t, r)]
  /\ End(t, "hits")
  /\ UNCHANGED <<caches, query, todo, combined, missing, records, calls>>

ToolFails(t, r) ==
  /\ ToolRuns(t) /\ Ending(t, r) # "hits"
  /\ End(t, "raised")
  /\ UNCHANGED <<caches, query, todo, combined, missing, result, records, calls>>

\* Mutated form: the last occurrence is kept.
KeepsLast(hs) == Pick(hs, {i \in DOMAIN hs : \A j \in DOMAIN hs : hs[j].url = hs[i].url => j <= i})

\* The first hit of each URL, in the order of the hits.
Dedup(hs) == Pick(hs, {i \in DOMAIN hs : \A j \in DOMAIN hs : hs[j].url = hs[i].url => i <= j})

Merge(t) ==
  /\ pc[t] = "search" /\ todo[t] = <<>>
  /\ IF combined[t] = <<>>
     THEN /\ End(t, IF missing[t] # {} THEN "unavailable" ELSE "no_results")
          /\ UNCHANGED result
     ELSE /\ result' = [result EXCEPT ![t] = FirstK(Dedup(combined[t]))]
          /\ IF query[t].op = "search" THEN End(t, "hits")
             ELSE Goto(t, "retrieve") /\ UNCHANGED outcome
  /\ UNCHANGED <<caches, query, todo, combined, missing, records, calls>>

-----------------------------------------------------------------------------
(* retrieve(): the hits of search(), one after the other. *)

More(t) == pc[t] = "retrieve" /\ Len(records[t]) < Len(result[t])

FetchCached(t) ==
  /\ More(t) /\ NextUrl(t) \in fetchCache
  /\ Add(t, NextUrl(t), "cached")
  /\ UNCHANGED <<caches, pc, query, todo, combined, missing, result, outcome, calls>>

Fetch(t) ==
  /\ More(t) /\ NextUrl(t) \notin fetchCache
  /\ Goto(t, "fetch")
  /\ UNCHANGED <<caches, query, todo, combined, missing, result, records, outcome, calls>>

\* Fetched, extracted, stored; a hit without a URL cannot be.
Fetched(t) ==
  /\ pc[t] = "fetch" /\ NextUrl(t) # NoUrl
  /\ fetchCache' = fetchCache \cup {NextUrl(t)}
  /\ Add(t, NextUrl(t), "fetched")
  /\ Goto(t, "retrieve")
  /\ UNCHANGED <<searchCache, query, todo, combined, missing, result, outcome, calls>>

\* Mutated form: allow_partial is read the wrong way round.
SwapsPartial(t) ==
  IF ~query[t].partial
  THEN Add(t, NextUrl(t), "error") /\ Goto(t, "retrieve") /\ UNCHANGED outcome
  ELSE records' = [records EXCEPT ![t] = <<>>] /\ End(t, "raised")

\* An exception of the fetch, the extraction or the cache: a record of its own
\* when partial batches are allowed, else the end of the call and of its batch.
Failed(t) ==
  IF query[t].partial
  THEN Add(t, NextUrl(t), "error") /\ Goto(t, "retrieve") /\ UNCHANGED outcome
  ELSE records' = [records EXCEPT ![t] = <<>>] /\ End(t, "raised")

FetchFails(t) ==
  /\ pc[t] = "fetch"
  /\ Failed(t)
  /\ UNCHANGED <<caches, query, todo, combined, missing, result, calls>>

\* The fetch cache fails where it is read...
FetchCacheBreaks(t) ==
  /\ StorageFails /\ More(t)
  /\ Failed(t)
  /\ UNCHANGED <<caches, query, todo, combined, missing, result, calls>>

\* ...or written: before, while or after the document is stored.
FetchStoreBreaks(t) ==
  /\ StorageFails /\ pc[t] = "fetch" /\ NextUrl(t) # NoUrl
  /\ fetchCache' \in {fetchCache, fetchCache \ {NextUrl(t)}, fetchCache \cup {NextUrl(t)}}
  /\ Failed(t)
  /\ UNCHANGED <<searchCache, query, todo, combined, missing, result, calls>>

Return(t) ==
  /\ pc[t] = "retrieve" /\ Len(records[t]) = Len(result[t])
  /\ End(t, "batch")
  /\ UNCHANGED <<caches, query, todo, combined, missing, result, records, calls>>

\* A coroutine is cancelled where it awaits; a thread still asking a provider
\* goes on, but nobody takes its answer.
Cancel(t) ==
  /\ pc[t] \in {"asked", "fetch"}
  /\ End(t, "cancelled")
  /\ UNCHANGED <<caches, query, todo, combined, missing, result, records, calls>>

\* A cached entry expires or is evicted.
Forget ==
  /\ \/ \E k \in Keys : /\ searchCache[k] # <<>>
                        /\ searchCache' = [searchCache EXCEPT ![k] = <<>>]
                        /\ UNCHANGED fetchCache
     \/ \E u \in fetchCache : fetchCache' = fetchCache \ {u} /\ UNCHANGED searchCache
  /\ UNCHANGED <<pc, query, todo, combined, missing, result, records, outcome, calls>>

Step(t) ==
  \/ SearchCached(t) \/ CacheBreaks(t) \/ NoAdapter(t) \/ Ask(t) \/ Merge(t)
  \/ \E r \in Responses :
       \/ ProviderAnswers(t, r) \/ ProviderFails(t, r) \/ ProviderBreaks(t, r)
       \/ StorageBreaks(t, r) \/ ToolAnswers(t, r) \/ ToolFails(t, r)
  \/ FetchCached(t) \/ Fetch(t) \/ Fetched(t) \/ FetchFails(t)
  \/ FetchCacheBreaks(t) \/ FetchStoreBreaks(t) \/ Return(t)

Next ==
  \/ \E t \in Tasks : (\E q \in Queries : StartCall(t, q)) \/ Step(t) \/ Cancel(t)
  \/ Forget

Spec == Init /\ [][Next]_vars

-----------------------------------------------------------------------------
(* Properties. *)

\* The type of every variable of the client.
TypeOK ==
  /\ searchCache \in [Keys -> Seq(Hit)]
  /\ fetchCache \subseteq Urls
  /\ pc \in [Tasks -> {"idle", "search", "asked", "retrieve", "fetch"}]
  /\ query \in [Tasks -> Queries]
  /\ todo \in [Tasks -> Seq(Providers)]
  /\ combined \in [Tasks -> Seq(Hit)]
  /\ missing \in [Tasks -> SUBSET Providers]
  /\ result \in [Tasks -> Seq(Hit)]
  /\ records \in [Tasks -> Seq(Record)]
  /\ outcome \in [Tasks -> {"none", "hits", "batch", "unavailable", "no_results",
                            "runtime_error", "raised", "cancelled"}]
  /\ calls \in 0..MaxCalls

Urlset(hs) == {hs[i].url : i \in DOMAIN hs}
Rank(t, p) == CHOOSE i \in DOMAIN query[t].providers : query[t].providers[i] = p

\* "Dedup by URL across providers ... keep first occurrence (highest-ranked
\* provider)": whether their hits came from a cache or an adapter, the result
\* lists each URL once, under the first provider of the query that offered it,
\* in the order of the query's providers, and leaves none out below top_k.
MergedByPriority ==
  \A t \in Tasks : result[t] # <<>> /\ query[t].op # "tool" =>
    LET r == result[t] IN
      /\ Len(r) <= TopK
      /\ Len(r) < TopK => Urlset(r) = Urlset(combined[t])
      /\ \A i, j \in DOMAIN r : i < j =>
           /\ r[i].url # r[j].url /\ Rank(t, r[i].by) <= Rank(t, r[j].by)
           /\ r[i].by = r[j].by => r[i].rank < r[j].rank
      /\ \A i \in DOMAIN r, j \in DOMAIN combined[t] :
           combined[t][j].url = r[i].url => Rank(t, r[i].by) <= Rank(t, combined[t][j].by)

\* retrieve() accounts for its hits: while it runs and when it returns, the
\* i-th record is about the i-th hit, a returned batch has a record for each,
\* and only a partial batch has records of failures.
BatchAccountsForHits ==
  \A t \in Tasks :
    /\ Len(records[t]) <= Len(result[t])
    /\ \A i \in DOMAIN records[t] :
         /\ records[t][i].url = result[t][i].url
         /\ records[t][i].kind = "error" => query[t].partial
    /\ outcome[t] = "batch" => Len(records[t]) = Len(result[t])

\* Tasks that missed the same entry both ask and both store.  An answer that
\* comes late and empty, a failing provider or page, a cancellation take nothing
\* out of the caches: an entry is lost only when it is forgotten, or when a task
\* that was storing under that very key fails to, and reports so.
LateAnswersKeepCaches ==
  [][~Forget =>
       /\ \A k \in Keys : searchCache[k] # <<>> /\ searchCache'[k] = <<>> =>
            \E t \in Tasks : Asking(t) /\ Slot(t) = k /\ outcome'[t] = "runtime_error"
       /\ \A u \in fetchCache \ fetchCache' :
            \E t \in Tasks : pc[t] = "fetch" /\ NextUrl(t) = u /\ Failed(t)]_vars

\* A hit, found afresh or for an earlier query of another task, was found under
\* the filters, the recency limit, the depth and the corpus of the query it is
\* given for, as far as its provider honours them.
HitsFitTheControls ==
  \A t \in Tasks : \A i \in DOMAIN combined[t] :
    LET h == combined[t][i] IN
      h.asked \ {"locale", "instruction"}
        = (query[t].controls \cap Adapter[h.by].sends) \ {"locale", "instruction"}

-----------------------------------------------------------------------------
(* What the documentation says, and the code does not do. *)

\* _search_cache_key(): "Build a deterministic cache key for a search query +
\* provider": the hits of a query were found with the controls their provider
\* honours; the key leaves the locale and the retrieval instruction out.
HitsAnswerTheQuery ==
  \A t \in Tasks : \A i \in DOMAIN combined[t] :
    combined[t][i].asked = query[t].controls \cap Adapter[combined[t][i].by].sends

=============================================================================
