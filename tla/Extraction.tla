----------------------------- MODULE Extraction -----------------------------
(***************************************************************************)
(* What extract() makes of a page, in both fetchers: which extractor is    *)
(* used, when a page is taken for the shell of a JavaScript application,   *)
(* and what replaces its text then.  Everything here is a function of the  *)
(* page; the browser that may render it again is FetchExtract's.           *)
(***************************************************************************)

Signal  == {"scripts", "mount_point", "noscript"}
Content == [type : {"html", "plain", "other"},
            empty : BOOLEAN,        \* no bytes
            short : BOOLEAN,        \* the text extracted has less than 500 characters
            readable : BOOLEAN,     \* Trafilatura is installed and finds text
            signals : SUBSET Signal,
            embedded : BOOLEAN]     \* __NEXT_DATA__ or __NUXT__ with JSON in it

Extractor == {"binary", "plain_text", "trafilatura", "fallback_strip"}

\* _extract_text(): a rendered page is never given to Trafilatura.
ExtractText(c, method, fetch_method) ==
  IF c.type # "html" /\ c.empty THEN "binary"
  ELSE IF c.type = "plain" THEN "plain_text"
  ELSE IF method = "trafilatura" /\ fetch_method # "render_playwright" /\ c.readable
       THEN "trafilatura" ELSE "fallback_strip"

\* _looks_like_js_shell(): any signal, but only of a page with little text.
LooksLikeJsShell(c) == ~c.empty /\ c.short /\ c.signals # {}

\* The shells that extract() looks behind: not what a browser has rendered.
IsShell(c, fetch_method) ==
  LooksLikeJsShell(c) /\ fetch_method \notin {"render_playwright", "crawl4ai"}

\* The document of the page itself, of the JSON embedded in it, and of the page
\* as rendered: `of' says whose text it has.
Document(c, used) ==
  [of |-> "page", method |-> used, rendered |-> FALSE,
   type |-> IF c.type = "html" THEN "html" ELSE IF used = "plain_text" THEN "text" ELSE "unknown"]
\* (Mutated form: a method that _diagnostic_fallback_path() does not know.)
UnknownMethod == [of |-> "json", method |-> "json", rendered |-> FALSE, type |-> "html"]
EmbeddedJson == [of |-> "json", method |-> "embedded_json", rendered |-> FALSE, type |-> "html"]
Rendered(used) == [of |-> "rendering", method |-> used, rendered |-> TRUE, type |-> "html"]

Documents ==
  [of : {"page", "json", "rendering"}, method : Extractor \cup {"embedded_json"},
   rendered : BOOLEAN, type : {"html", "text", "unknown"}]

=============================================================================
