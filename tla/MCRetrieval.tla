----------------------------- MODULE MCRetrieval -----------------------------
(* Two tasks; a web index, two sites and a provider without an adapter;       *)
(* responses that are empty, repeat a URL, overlap, hold items to skip or to  *)
(* trip over, or fail.                                                        *)
EXTENDS Retrieval

MCItem(u, age, shape) == [url |-> u, age |-> age, shape |-> shape]
Good(u)     == MCItem(u, "new", "good")
Listed(is)  == [status |-> "ok", body |-> "list", items |-> is]
Bodied(b)   == [status |-> "ok", body |-> b, items |-> <<>>]

MCResponses ==
  {Listed(<<>>), Listed(<<Good("u1"), Good("u1")>>),
   Listed(<<Good(NoUrl), MCItem("u2", "old", "good"), Good("u1")>>),
   Listed(<<MCItem("u2", "undated", "good"), MCItem("u3", "new", "odd")>>),
   Bodied("odd_list"), [Bodied("no_json") EXCEPT !.status = "timeout"]}

MCListed == {Listed(<<>>), Listed(<<Good("u1"), Good("u2")>>)}

Query(ps, op, partial, controls) ==
  [providers |-> ps, op |-> op, partial |-> partial, controls |-> controls]

MCQueries ==
  {Query(<<"brave", "reddit">>, "retrieve", TRUE, {}),
   Query(<<"reddit", "searxng", "arxiv">>, "retrieve", FALSE, {"recency"}),
   Query(<<"exa", "github">>, "search", FALSE, {"instruction"}),
   Query(<<"exa", "tavily">>, "search", FALSE, {"deny"}),
   Query(<<"x", "hackernews">>, "search", TRUE, {}),
   Query(<<"openalex">>, "tool", FALSE, {"semantic"})}

MCHintQueries == {Query(<<"exa">>, "search", FALSE, c) : c \in {{}, {"instruction"}}}

=============================================================================
