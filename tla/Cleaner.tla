------------------------------ MODULE Cleaner -------------------------------
(***************************************************************************)
(* processors/markdown_cleaner.py: what is left of the HTML that the       *)
(* converters put into their Markdown.                                     *)
(*                                                                         *)
(* A text is a sequence of tokens: words, tags, and the marks the cleaner  *)
(* writes.  A tag stands for every tag its regular expression matches:     *)
(* "<i>" for the emphasis tags, "<u>" for the wrappers that are dropped,   *)
(* "<cell>" for the head of a table of one cell, "<q>" for the div of a    *)
(* quoted passage (it ends with "</div>" like any other), "<toc>" for an   *)
(* anchor into the book, "<ext>" for one to a web page, "<a>" for others.  *)
(* White space is layout and left out, as are the image paths (Media).     *)
(***************************************************************************)
EXTENDS Naturals, Sequences, FiniteSetsExt, SequencesExt

\* "ok" is one of the emoji that mark a call-out, "#" a heading, "bad" a
\* U+FFFD left by a wrong encoding.
Word == {"a", "b", "ok", "#", "bad"}
Mark == {">", "**", "*", "[", "]", "![]", "---"}
Open == {"<svg>", "<cell>", "<q>", "<div>", "<toc>", "<ext>", "<a>", "<span>",
         "<p>", "<b>", "<i>", "<u>"}
CloseOf == [t \in Open |->
  CASE t = "<svg>" -> "</svg>"
    [] t = "<cell>" -> "</cell>"
    [] t \in {"<q>", "<div>"} -> "</div>"
    [] t \in {"<toc>", "<ext>", "<a>"} -> "</a>"
    [] t = "<span>" -> "</span>"
    [] t = "<p>" -> "</p>"
    [] t = "<b>" -> "</b>"
    [] t = "<i>" -> "</i>"
    [] t = "<u>" -> "</u>"]
Close == {CloseOf[t] : t \in Open}
Tag == Open \cup Close \cup {"<img>", "<img/>", "<br>", "<hr>"}
Token == Word \cup Mark \cup Tag
Text == Seq(Token)

Without(t, tokens) ==
  FlattenSeq([i \in 1..Len(t) |-> IF t[i] \in tokens THEN <<>> ELSE <<t[i]>>])
Becomes(t, tokens, mark) ==
  [i \in 1..Len(t) |-> IF t[i] \in tokens THEN mark ELSE t[i]]

\* A match of <tag>.*?</tag> at p ends with the first of its close tags behind
\* it; 0 if there is none.
EndOf(t, p) ==
  LET ends == {k \in (p + 1)..Len(t) : t[k] = CloseOf[t[p]]}
  IN  IF ends = {} THEN 0 ELSE Min(ends)
Matches(t, p, tags) == t[p] \in tags /\ EndOf(t, p) > 0
Body(t, p) == SubSeq(t, p + 1, EndOf(t, p) - 1)

\* From the left, a match becomes what hit makes of its body, a token outside
\* of them what miss makes of it.
Scan(t, tags, hit, miss) ==
  LET from[p \in 1..Len(t) + 1] ==
        IF p > Len(t) THEN <<>>
        ELSE IF Matches(t, p, tags)
        THEN hit[Body(t, p)] \o from[EndOf(t, p) + 1]
        ELSE miss[t[p]] \o from[p + 1]
  IN  from[1]

\* re.sub and, without the blank ones, re.findall.
Sub(t, tags, rewrite) == Scan(t, tags, rewrite, [x \in Token |-> <<x>>])
Unwrap(t, tags) == Sub(t, tags, [body \in Text |-> body])
Bodies(t, tag) ==
  Scan(t, {tag}, [body \in Text |-> IF body = <<>> THEN <<>> ELSE <<body>>],
       [x \in Token |-> <<>>])

(***************************************************************************)
(* The passes                                                              *)
(***************************************************************************)

StripSvg == [t \in Text |-> Sub(t, {"<svg>"}, [body \in Text |-> <<>>])]

\* Mutated form: only the first line of a call-out is marked.
QuotedHeadOnly(head, rest) ==
  <<">", "**">> \o head \o <<"**">> \o FlattenSeq(rest)

\* A cell is a call-out if its first paragraph starts with an emoji; one
\* without paragraphs is left for the next pass.
Quoted(head, rest) ==
  <<">", "**">> \o head \o <<"**">>
    \o FlattenSeq([i \in 1..Len(rest) |-> <<">", ">">> \o rest[i]])
Callout == [body \in Text |->
  LET ps == Bodies(body, "<p>")
  IN  IF ps = <<>> THEN <<"<cell>">> \o body \o <<"</cell>">>
      ELSE IF ps[1][1] = "ok" THEN Quoted(ps[1], Tail(ps))
      ELSE FlattenSeq(ps)]
ConvertCallouts == [t \in Text |-> Sub(t, {"<cell>"}, Callout)]

StripTableScaffold == [t \in Text |-> Without(t, {"<cell>", "</cell>"})]

\* The lines of the quote are the spans; whatever else the div holds goes.
QuotedLines == [body \in Text |->
  LET spans == Bodies(body, "<span>")
  IN  FlattenSeq([i \in 1..Len(spans) |-> <<">">> \o spans[i]])]
ConvertQuotedDiv == [t \in Text |-> Sub(t, {"<q>"}, QuotedLines)]

TocAnchors == [t \in Text |-> Unwrap(t, {"<toc>"})]
ExternalAnchors ==
  [t \in Text |->
     Sub(t, {"<ext>"}, [body \in Text |-> <<"[">> \o body \o <<"]">>])]
OtherAnchors == [t \in Text |-> Unwrap(t, {"<toc>", "<ext>", "<a>"})]

RewriteAnchors == [t \in Text |-> OtherAnchors[ExternalAnchors[TocAnchors[t]]]]

\* Until none is left, then the tags that have lost their other half.  A round
\* that finds one takes two tokens, so that there are half as many rounds as
\* tokens.  (Empty spans are done first; the loop would take them too.)
StripSpans ==
  LET round == [t \in Text |-> Unwrap(t, {"<span>"})]
      Stable(t) ==
        LET after[n \in 0..Len(t)] ==
              IF n = 0 THEN t ELSE round[after[n - 1]]
        IN  after[Len(t) \div 2]
  IN  [t \in Text |-> Without(Stable(t), {"<span>", "</span>"})]

UnwrapParagraphs == [t \in Text |-> Unwrap(t, {"<p>"})]

StripDivs == [t \in Text |-> Without(t, {"<q>", "<div>", "</div>"})]

\* An image without a source goes.
ConvertImgTags ==
  [t \in Text |-> Becomes(Without(t, {"<img/>"}), {"<img>"}, "![]")]

StripResidualHtml ==
  LET Mapped(x) == CASE x \in {"<b>", "</b>"} -> "**"
                     [] x \in {"<i>", "</i>"} -> "*"
                     [] x = "<hr>" -> "---"
                     [] OTHER -> x
  IN  [t \in Text |-> Without([i \in 1..Len(t) |-> Mapped(t[i])],
                              {"<br>", "<u>", "</u>"})]

\* Mutated form: the spans go before the quoted passages.
SpansFirst ==
  <<StripSvg, ConvertCallouts, StripTableScaffold, StripSpans,
    ConvertQuotedDiv, RewriteAnchors, UnwrapParagraphs, StripDivs,
    ConvertImgTags, StripResidualHtml>>

\* The order matters.
Passes ==
  <<StripSvg, ConvertCallouts, StripTableScaffold, ConvertQuotedDiv,
    RewriteAnchors, StripSpans, UnwrapParagraphs, StripDivs, ConvertImgTags,
    StripResidualHtml>>

\* clean_markdown.
Clean(t) ==
  LET after[i \in 0..Len(Passes)] ==
        IF i = 0 THEN t ELSE Passes[i][after[i - 1]]
  IN  after[Len(Passes)]

(***************************************************************************)
(* The same by the nesting of the tags instead of by regular expressions.  *)
(***************************************************************************)

\* The tags open before each token of a text, <<"bad nesting">> for good once
\* a close tag meets another's open tag or a tag stands within its like.
OpenTags(t) ==
  LET Broken == <<"bad nesting">>
      Kind(tag) == IF tag = "<q>" THEN "<div>"
                   ELSE IF tag \in {"<toc>", "<ext>"} THEN "<a>" ELSE tag
      After(open, x) ==
        CASE open = Broken -> Broken
          [] x \in Open -> IF \E i \in DOMAIN open : Kind(open[i]) = Kind(x)
                           THEN Broken ELSE Append(open, x)
          [] x \in Close -> IF open # <<>> /\ CloseOf[Last(open)] = x
                            THEN Front(open) ELSE Broken
          [] OTHER -> open
      at[i \in 1..Len(t) + 1] ==
        IF i = 1 THEN <<>> ELSE After(at[i - 1], t[i - 1])
  IN  at
WellFormed(t) == OpenTags(t)[Len(t) + 1] = <<>>

\* A call-out keeps its paragraphs: what it opens before them is lost.
Lost(open, k) ==
  \E c, p \in DOMAIN open :
    c < k /\ k < p /\ open[c] = "<cell>" /\ open[p] = "<p>"

\* Drawings go, and what stands beside the lines of a quoted passage or beside
\* the paragraphs of a table cell.
Survives(t, i) ==
  LET open == OpenTags(t)[i]
      At(tag) == {k \in DOMAIN open : open[k] = tag /\ ~Lost(open, k)}
      Within(tag, line) == \E k \in At(tag), l \in At(line) : k < l
  IN  /\ \A k \in DOMAIN open : open[k] # "<svg>"
      /\ At("<q>") # {} => Within("<q>", "<span>")
      /\ At("<cell>") # {} =>
            \/ Within("<cell>", "<p>")
            \/ \A p \in 1..i : t[p] = "<cell>" /\ i < EndOf(t, p) =>
                 Bodies(StripSvg[Body(t, p)], "<p>") = <<>>

SurvivingWords(t) ==
  FlattenSeq([i \in 1..Len(t) |->
    IF t[i] \in Word /\ Survives(t, i) THEN <<t[i]>> ELSE <<>>])

\* What opens a line of a quotation: a paragraph of a call-out, which is a cell
\* whose first paragraph begins with an emoji (a blank mark parts the lines
\* after the first), and a span of a quoted passage.
Paragraphs(t, c) ==
  {p \in (c + 1)..EndOf(t, c) : t[p] = "<p>" /\ t[p + 1] # "</p>"}
QuoteMarks(t, i) ==
  LET open == OpenTags(t)[i]
      InCallout(c) == /\ t[c] = "<cell>" /\ i \in Paragraphs(t, c)
                      /\ t[Min(Paragraphs(t, c)) + 1] = "ok"
      Blank == \A k \in (i + 1)..(EndOf(t, i) - 1) :
                 t[k] \in {"<cell>", "</cell>"}
  IN  CASE t[i] = "<p>" /\ (\E c \in 1..i : InCallout(c)) ->
             IF \E c \in 1..i : InCallout(c) /\ i = Min(Paragraphs(t, c))
             THEN <<">">> ELSE <<">", ">">>
        [] t[i] = "<span>" /\ ~Blank /\ (\E k \in DOMAIN open :
             open[k] = "<q>" /\ ~Lost(open, k)) -> <<">">>
        [] OTHER -> <<>>

\* The words that survive, with the marks the nesting demands before them.
SurvivingLines(t) ==
  FlattenSeq([i \in 1..Len(t) |->
    CASE t[i] \in Word \cup {">"} /\ Survives(t, i) -> <<t[i]>>
      [] t[i] \in {"<p>", "<span>"} /\ Survives(t, i + 1) -> QuoteMarks(t, i)
      [] OTHER -> <<>>])

=============================================================================
