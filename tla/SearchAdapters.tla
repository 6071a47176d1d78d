--------------------------- MODULE SearchAdapters ---------------------------
(***************************************************************************)
(* What the search() of each provider adapter makes of a query and of the  *)
(* provider's response: a list of hits, an OpenWebRetrievalError, or an    *)
(* exception that is none.  An adapter is a record of what it does where   *)
(* the adapters differ; the operators below say what the fields mean.      *)
(*                                                                         *)
(* A query is known by its providers and by the controls it sets.  A       *)
(* response is known by how far it is usable and by its items.             *)
(***************************************************************************)
EXTENDS Integers, Sequences, Functions, Picks

CONSTANTS Urls, NoUrl,   \* the URLs of items; an item may have none
          TopK           \* query.top_k

ASSUME AdaptersAssumption == TopK \in Nat \ {0} /\ NoUrl \notin Urls

Corpora  == {"general", "news", "academic", "company", "pdf", "github", "people",
             "personal_site", "financial_report"}
Detail   == {"summary", "chunks", "budget"}
Depth    == {"basic", "advanced"}
Filters  == {"allow", "deny"}
Modes    == {"semantic", "oql"}
Controls == Corpora \cup Detail \cup Depth \cup Filters \cup Modes
              \cup {"locale", "instruction", "recency"}

\* What SearchQuery and OpenAlexQuery validate of controls.
AtMostOne(S) == \A c, d \in S : c = d
ValidQuery(q) ==
  /\ q.controls \subseteq Controls
  /\ \A S \in {Corpora, Depth, Modes, {"summary", "chunks"}, {"summary", "budget"},
               {"oql", "recency"}} : AtMostOne(q.controls \cap S)
  /\ q.controls \cap Modes # {} => q.providers = <<"openalex">>

Item     == [url : Urls \cup {NoUrl}, age : {"new", "old", "undated"},
             shape : {"good", "odd", "no_mapping"}]
Response == [status : {"ok", "timeout", "unreachable", "refused", "error"},
             body : {"list", "no_json", "no_object", "no_list", "odd_list"},
             items : Seq(Item)]

-----------------------------------------------------------------------------
(* The adapters.  `refuses': the combinations of controls that raise          *)
(* CapabilityNotSupportedError.  `sends': the controls that reach the         *)
(* provider; those neither refused nor sent are ignored.  `login': search()   *)
(* raises ProviderUnavailableError without credentials.  `noObject',          *)
(* `noList', `oddList': what a JSON body that is no object, has no list of    *)
(* results, or something else in its place leads to.  `slices': the first     *)
(* top_k items are taken before any is skipped, and ranks are their           *)
(* positions.  `needsUrl': items without a URL are skipped.  `drops': the     *)
(* ages skipped when the query has a recency limit.  `oddItem': what an item  *)
(* with a field of another type leads to.                                     *)

\* What Brave, Exa, Tavily and SearxNG have in common.
WebIndex == [refuses |-> {{"instruction"}}, sends |-> {}, login |-> FALSE,
             noObject |-> "leak", noList |-> "hits", oddList |-> "error",
             slices |-> TRUE, needsUrl |-> FALSE, drops |-> {}, oddItem |-> "leak"]

Brave   == [WebIndex EXCEPT !.sends = {"locale", "recency"}]
SearxNG == [WebIndex EXCEPT !.sends = {"locale"}]

\* Every corpus of SearchQuery has an Exa category; a summary asks for no contents.
Exa == [WebIndex EXCEPT
          !.refuses = {},
          !.sends = (Controls \ Modes) \ {"locale", "general"}]

\* Depth is advanced unless asked otherwise or for a summary.
Tavily == [WebIndex EXCEPT
             !.refuses = @ \cup {{"advanced", "summary"}}
                           \cup {{c} : c \in Corpora \ {"general", "news"}},
             !.sends = Depth \cup Detail \cup Filters \cup {"recency", "news"}]

\* What the adapters of single sites have in common.
Site == [refuses |-> {{"instruction"}, {"allow"}, {"deny"}}, sends |-> {"recency"},
         login |-> FALSE, noObject |-> "error", noList |-> "error",
         oddList |-> "error", slices |-> FALSE, needsUrl |-> TRUE,
         drops |-> {}, oddItem |-> "clean"]

GitHub     == [Site EXCEPT !.login = TRUE, !.oddItem = "leak"]
HackerNews == Site

\* A feed without entries is an empty answer; what is no feed is an error.
Arxiv == [Site EXCEPT !.noList = "hits", !.drops = {"old", "undated"}]

\* What is no list of posts reads as no posts.  Of a recency limit only that there is
\* one is sent: the date after `since:' is today's, whatever recency_days says.
X == [Site EXCEPT !.login = TRUE, !.oddItem = "leak",
                  !.noObject = "hits", !.noList = "hits", !.oddList = "hits"]

\* The allowed domains are read as subreddits; undated posts are kept.
Reddit == [Site EXCEPT !.login = TRUE, !.oddItem = "leak",
                       !.refuses = {{"instruction"}, {"deny"}},
                       !.sends = {"allow", "recency"},
                       !.noObject = "hits", !.noList = "hits", !.oddList = "leak",
                       !.drops = {"old"}]

OpenAlex == [Site EXCEPT !.refuses = {{c} : c \in Controls \ (Modes \cup {"recency"})},
                         !.sends = Modes \cup {"recency"}]

Adapter == [brave |-> Brave, searxng |-> SearxNG, exa |-> Exa, tavily |-> Tavily,
            github |-> GitHub, hackernews |-> HackerNews, arxiv |-> Arxiv, x |-> X,
            reddit |-> Reddit, openalex |-> OpenAlex]
Names == DOMAIN Adapter

-----------------------------------------------------------------------------
(* The tools: one provider each, asked with the controls the tool knows.      *)

BraveTool    == {"recency", "locale"}
SearxNGTool  == {"recency", "locale"}
TavilyTool   == {"recency"} \cup Depth \cup Detail \cup Corpora \cup Filters
ExaTool      == {"recency"} \cup Depth \cup Detail \cup Corpora \cup Filters
OpenAlexTool == {"recency"} \cup Modes

Tool == [brave |-> BraveTool, searxng |-> SearxNGTool, tavily |-> TavilyTool,
         exa |-> ExaTool, openalex |-> OpenAlexTool]

ToolQuery(q) == \E p \in DOMAIN Tool : q.providers = <<p>> /\ q.controls \subseteq Tool[p]

-----------------------------------------------------------------------------
(* search(), of the adapter of provider p, for query q.                       *)

Refuses(p, q) == \E c \in Adapter[p].refuses : c \subseteq q.controls

LoggedOut(p, credentials) == Adapter[p].login /\ p \notin credentials

\* OpenAlex promotes the query to a model that validates its providers anew.
Unpromoted(p, q) == p = "openalex" /\ q.providers # <<"openalex">>

\* The items an adapter makes hits of, with their ranks, up to top_k.
FirstK(s) == SubSeq(s, 1, IF Len(s) < TopK THEN Len(s) ELSE TopK)

Skipped(p, q, i) ==
  \/ i.shape = "no_mapping"
  \/ Adapter[p].needsUrl /\ i.url = NoUrl
  \/ "recency" \in q.controls /\ i.age \in Adapter[p].drops

Ranked(s)  == [n \in DOMAIN s |-> [item |-> s[n], rank |-> n]]
Kept(p, q, items) == Pick(items, {n \in DOMAIN items : ~Skipped(p, q, items[n])})
Chosen(p, q, items) ==
  IF Adapter[p].slices
  THEN LET s == FirstK(items)
       IN  Pick(Ranked(s), {n \in DOMAIN s : ~Skipped(p, q, s[n])})
  ELSE Ranked(FirstK(Kept(p, q, items)))

\* What the body of a successful response leads to.
BodyLeadsTo(p, q, r) ==
  CASE r.body = "no_json"   -> "error"
    [] r.body = "no_object" -> Adapter[p].noObject
    [] r.body = "no_list"   -> Adapter[p].noList
    [] r.body = "odd_list"  -> Adapter[p].oddList
    [] r.body = "list"      ->
         IF /\ Adapter[p].oddItem = "leak"
            /\ \E n \in Range(Chosen(p, q, r.items)) : n.item.shape = "odd"
         THEN "leak" ELSE "hits"

\* How the search ends: nothing is sent for a query that is refused or has no
\* credentials, and every failed request is a typed error.
Ends(p, q, r, credentials) ==
  CASE Unpromoted(p, q)                            -> "leak"
    [] ~Unpromoted(p, q) /\ Refuses(p, q)          -> "error"
    [] ~Unpromoted(p, q) /\ ~Refuses(p, q)         ->
         IF LoggedOut(p, credentials) \/ r.status # "ok" THEN "error"
         ELSE BodyLeadsTo(p, q, r)

\* The hits of a usable response; `asked' is a ghost: the controls of the query
\* that the answer depends on.
HitsOf(p, q, r) ==
  IF r.body # "list" THEN <<>>
  ELSE LET c == Chosen(p, q, r.items)
       IN  [n \in DOMAIN c |-> [url |-> c[n].item.url, by |-> p, rank |-> c[n].rank,
                                asked |-> q.controls \cap Adapter[p].sends]]

=============================================================================
