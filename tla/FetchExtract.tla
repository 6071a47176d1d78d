---------------------------- MODULE FetchExtract ----------------------------
(***************************************************************************)
(* SourceFetcher.fetch and SourceFetcher.extract together.  The text of a  *)
(* page that looks like the shell of a JavaScript application is replaced  *)
(* by the JSON embedded in it, or else the page is fetched again, rendered *)
(* by a browser: a fetch() inside extract(), with its own retry, fallback  *)
(* ladder, rows and counters, whose every exception is swallowed.          *)
(***************************************************************************)
EXTENDS SourceFetcher

CONSTANTS Contents,   \* what pages may contain
          Methods     \* the extraction methods callers ask for

X == INSTANCE Extraction

ASSUME FetchExtractAssumption == Contents \subseteq X!Content /\ "trafilatura" \in Methods

VARIABLES autoRender,  \* enable_auto_render
          extracting,  \* where extract() is: "no", or inside the nested fetch()
          given,       \* the resource it was given, and the method
          doc,         \* its document; while it renders, the one it falls back on
          autoRendered,  \* metrics.auto_rendered
          extractRows    \* the tool-call rows of the extraction

extra == <<autoRender, extracting, given, doc, autoRendered, extractRows>>

NoDoc   == [of |-> "none"]
NoGiven == [resource |-> Pending, method |-> "trafilatura"]

ExtractInit ==
  /\ Init
  /\ autoRender \in BOOLEAN
  /\ extracting = "no" /\ given = NoGiven /\ doc = NoDoc
  /\ autoRendered = 0 /\ extractRows = <<>>

\* A call of the user, and the steps of any fetch().
UserFetch ==
  /\ extracting = "no" /\ Call
  /\ given' = NoGiven /\ doc' = NoDoc /\ extractRows' = <<>>
  /\ UNCHANGED <<autoRender, extracting, autoRendered>>

FetchStep == Progress /\ UNCHANGED extra

\* The user extracts what fetch() returned.
Extracts(c, m) ==
  /\ extracting = "no" /\ pc = "idle" /\ doc = NoDoc
  /\ outcome.kind = "resource"
  /\ given' = [resource |-> outcome, method |-> m]
  /\ UNCHANGED <<autoRender, autoRendered>>

PageDocument(c, m) == X!Document(c, X!ExtractText(c, m, outcome.fetch_method))

\* Mutated form: only what the browser of fetch() has rendered is left alone.
ShellUnlessRendered(c) ==
  autoRender /\ X!LooksLikeJsShell(c) /\ outcome.fetch_method # "render_playwright"

Shell(c) == autoRender /\ X!IsShell(c, outcome.fetch_method)

ExtractPage(c, m) ==
  /\ Extracts(c, m)
  /\ ~Shell(c) \/ c.embedded
  /\ doc' = IF Shell(c) THEN X!EmbeddedJson ELSE PageDocument(c, m)
  /\ extractRows' = <<"started", "succeeded">>
  /\ UNCHANGED <<vars, extracting>>

\* No JSON: a new request with render_mode "always".
ExtractShell(c, m) ==
  /\ Extracts(c, m)
  /\ Shell(c) /\ ~c.embedded
  /\ doc' = PageDocument(c, m)
  /\ extractRows' = <<"started">>
  /\ extracting' = "rendering"
  /\ Start("always")

\* The nested fetch() has ended, one way or another; an extraction that follows
\* the rendering never uses Trafilatura.
EndRendering(d, n) ==
  /\ extracting = "rendering" /\ pc = "idle"
  /\ extracting' = "no"
  /\ doc' = d
  /\ autoRendered' = autoRendered + n
  /\ extractRows' = Append(extractRows, "succeeded")
  /\ UNCHANGED <<vars, autoRender, given>>

RenderSucceeds(c) ==
  /\ outcome.kind = "resource"
  /\ EndRendering(X!Rendered(X!ExtractText(c, given.method, "render_playwright")), 1)

\* Mutated form: the exception leaves no document.
LosesText == NoDoc

KeepsText == doc

\* except Exception: FetchError, RenderError, whatever the nested fetch() raised.
RenderFails == outcome.kind \in {"error", "escape"} /\ EndRendering(KeepsText, 0)

Extraction ==
  \E c \in Contents : \/ \E m \in Methods : ExtractPage(c, m) \/ ExtractShell(c, m)
                      \/ RenderSucceeds(c)

ExtractNext == UserFetch \/ FetchStep \/ Extraction \/ RenderFails

ExtractSpec == ExtractInit /\ [][ExtractNext]_<<vars, extra>>

-----------------------------------------------------------------------------
(* Properties. *)

\* The type of every variable of the fetcher and of what extraction adds.
ExtractTypeOK ==
  /\ TypeOK
  /\ autoRender \in BOOLEAN /\ extracting \in {"no", "rendering"}
  /\ given.resource \in Outcome /\ given.method \in Methods
  /\ doc \in X!Documents \cup {NoDoc}
  /\ autoRendered \in Nat /\ extractRows \in Seq(RowStatus)

\* extract() returns a document whatever becomes of the rendering inside it: once it
\* has been given a page it never raises, and at its end its row is closed and
\* its text is that of the page given, of its JSON, or of a rendering that
\* fetch() did return.  (A RenderError leaves an open row of the nested fetch(),
\* but goes no further.)
ExtractionSettles ==
  given.resource.kind = "resource" =>
    /\ doc # NoDoc
    /\ extracting = "no" => /\ extractRows = <<"started", "succeeded">>
                            /\ doc.of = "rendering" => outcome.kind = "resource"

\* A page is rendered once: no page that a browser produced, in fetch() or in
\* Crawl4AI, is sent to a browser again by its extraction.
RenderedOnce ==
  extracting = "rendering" =>
    given.resource.transport \notin {"playwright", "crawl4ai"}

=============================================================================
