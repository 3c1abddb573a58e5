------------------------------ MODULE MCAttempt -----------------------------
(***************************************************************************)
(* Instance for TLC: every document the whitelists tell apart, PDFs up to  *)
(* two samples long, HTML nested three and four deep.                      *)
(***************************************************************************)
EXTENDS Attempt

Doc(ext, mime, size) ==
  [ext |-> ext, mime |-> mime, marker |-> mime = "octet", size |-> size]
In(cli, doc, pages, target, override, installed) ==
  [cli |-> cli, doc |-> doc, pages |-> pages, target |-> target,
   override |-> override, installed |-> installed]

\* The validation, the routing table and the converters against each other.
AnyDocument ==
  {Doc(e, m, 2) : e \in Extension, m \in MimeType \ {"empty"}}
  \cup {Doc(e, e, s) : e \in Extension \cap MimeType, s \in {0, 4}}
Tables ==
  {In(c, d, <<"text">>, "markdown", o, Tools) :
     c \in BOOLEAN, o \in {"", "ocr", "markitdown", "export-pdf", "unknown"},
     d \in AnyDocument}
  \cup {In(FALSE, d, <<>>, t, "", Tools) :
     t \in OutputFormat \ {"markdown"}, d \in AnyDocument}
  \cup {In(c, Doc(e, e, 2), <<"scan">>, "markdown", "", {"pandoc"}) :
     c \in BOOLEAN, e \in Extension \cap MimeType}

\* PDFs of which no page, one page or one page too many is unlike the others.
Odd(n, k, odd, rest) == [i \in 1..n |-> IF i = k THEN odd ELSE rest]
Pdfs ==
  {In(TRUE, Doc("pdf", "pdf", 2), p, "markdown", "", Tools) :
     p \in {Odd(n, k, x, y) : n \in 0..17, k \in {1, 9},
                              x, y \in {"text", "scan", "void"}}}
  \cup {In(FALSE, Doc("pdf", "pdf", 2), <<x, y>>, "markdown", "", Tools) :
           x, y \in {"text", "scan"}}

\* HTML: inline tags, blocks of two of them, blocks of two paragraphs.
Wrap(texts, tags) ==
  {<<tag>> \o t \o <<CloseOf[tag]>> : tag \in tags, t \in texts}
Join(texts) == {t \o u : t, u \in texts}
Plain == {<<>>, <<"a">>, <<"ok">>}
Inline ==
  Plain \cup Wrap(Plain, {"<span>"})
    \cup Wrap({<<"a">>}, {"<i>", "<toc>", "<ext>"})
Block == {"<q>", "<cell>", "<p>", "<span>", "<svg>"}
Html ==
  Wrap(Join(Inline), {"<p>", "<q>", "<div>", "<cell>", "<svg>", "<a>", "<u>"})
  \cup Wrap(Join(Wrap(Inline, {"<p>"})), {"<cell>", "<div>"})
  \cup Wrap({<<"a">> \o t : t \in Wrap(Wrap(Wrap({<<"ok">>}, Block), Block),
                                       Block)}, {"<q>", "<cell>"})
  \cup Join({<<"<b>", "a", "</b>">>, <<"<img>">>, <<"<img/>">>, <<"<br>">>,
             <<"<hr>">>, <<"<svg>", "<img>", "</svg>">>})

\* Damage: short texts, and one with ever more bad characters.
Damaged ==
  UNION {[1..n -> {"a", "#", "bad", "<br>"}] : n \in 0..3}
  \cup {[i \in 1..7 |-> IF i <= n THEN "bad" ELSE "a"] : n \in 0..7}

MCInputs == Tables \cup Pdfs
MCTexts(in) ==
  CASE in.doc = Doc("docx", "docx", 2) /\ in.override = "" ->
         IF in.cli THEN Html ELSE Damaged
    [] OTHER -> {<<>>, <<"a">>, <<"<br>">>}

=============================================================================
