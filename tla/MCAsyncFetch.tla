---------------------------- MODULE MCAsyncFetch ----------------------------
(* Two coroutines, two domains and one that is blocked.  The contents: an article, a shell with JSON *)
(* in it and one without.                                                       *)
EXTENDS AsyncFetch

MCContents ==
  LET Article == [type |-> "html", empty |-> FALSE, short |-> FALSE, readable |-> TRUE,
                  signals |-> {}, embedded |-> FALSE]
      Shell   == [Article EXCEPT !.short = TRUE, !.signals = {"scripts"}]
  IN {Article, Shell, [Shell EXCEPT !.embedded = TRUE]}

=============================================================================
