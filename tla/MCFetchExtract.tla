--------------------------- MODULE MCFetchExtract ---------------------------
(* Two consecutive fetch() calls under every configuration, with one status of *)
(* each class fetch() tells apart; the second may be the one that an           *)
(* extraction makes.  The contents: an article, one that Trafilatura cannot    *)
(* read, a plain text, a shell with JSON in it and one without, and no bytes.  *)
EXTENDS FetchExtract

MCStatuses == {200, 403, 404, 429, 503}

MCContents ==
  LET Article == [type |-> "html", empty |-> FALSE, short |-> FALSE, readable |-> TRUE,
                  signals |-> {}, embedded |-> FALSE]
  IN {Article, [Article EXCEPT !.readable = FALSE, !.signals = {"scripts"}],
      [Article EXCEPT !.type = "plain", !.short = TRUE],
      [Article EXCEPT !.short = TRUE, !.signals = {"mount_point"}, !.embedded = TRUE],
      [Article EXCEPT !.short = TRUE, !.signals = {"noscript"}, !.readable = FALSE],
      [Article EXCEPT !.type = "other", !.empty = TRUE, !.short = TRUE, !.readable = FALSE]}

=============================================================================
