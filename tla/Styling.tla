------------------------------- MODULE Styling -------------------------------
(***************************************************************************)
(* How the body of a message is cut into styled spans (XEP-0393): lines,   *)
(* quotes, links, and in between what stands between two delimiters.  A    *)
(* character is a member of a small alphabet; "http" stands for one of the *)
(* schemes a link may begin with, "n" for the end of a line and "mono" for *)
(* the back quote.  Carriage returns, which lines() drops before the end   *)
(* of a line, are left out.                                                *)
(***************************************************************************)
EXTENDS Naturals, Sequences, FiniteSets, SequencesExt

CONSTANTS
  Alphabet, \* characters
  MaxLength \* bound: of a body

VARIABLES body

NL == "n"
Space == " "
Scheme == "http"
Delimiters == {"*", "_", "mono", "~"}
Brackets == [c \in {")", "]", ">"} |-> CASE c = ")" -> "(" [] c = "]" -> "[" [] c = ">" -> "<"]
TrailingPunct == {".", ","} \cup DOMAIN Brackets
Punctuation == Delimiters \cup TrailingPunct \cup {"(", "[", "<"}

Span(style, text) == [style |-> style, text |-> text]
Has(s, c) == \E i \in DOMAIN s : s[i] = c
From(s, i) == SubSeq(s, i, Len(s))
Prefix(s, i) == SubSeq(s, 1, i)
Least(S) == CHOOSE x \in S : \A y \in S : x <= y

\* The first place of S from i on, or the end of the text.
Until(s, i, S) == Least({j \in i .. Len(s) + 1 : j \in S \/ j = Len(s) + 1})

\* The loops of the parser go through a text once, from left to right: at place i
\* they push turn[i], and go on at place go[i].
Pushed(turn, go) ==
  LET from[i \in 1 .. Len(turn) + 1] ==
        IF i > Len(turn) THEN <<>> ELSE <<turn[i]>> \o from[go[i]]
  IN from[1]

-----------------------------------------------------------------------------
(* Links.                                                                    *)

\* strip_trailing_punct: what remains of a link, whose brackets may belong to it.
Strippable(url, k) ==
  /\ url[k] \in TrailingPunct
  /\ url[k] \in DOMAIN Brackets => ~Has(Prefix(url, k), Brackets[url[k]])

StripTrailingPunct(url) ==
  LET stops == {k \in 0..Len(url) : \A j \in k + 1 .. Len(url) : Strippable(url, j)}
  IN Prefix(url, Least(stops))

\* Up to the next blank.
Word(line, i) ==
  SubSeq(line, i, Until(line, i, {j \in DOMAIN line : line[j] = Space}) - 1)

\* (mutant) The search goes on where the blank was found.
SplitUrlsSkip(line) ==
  LET schemes == {i \in DOMAIN line : line[i] = Scheme}
      turn == [i \in DOMAIN line |->
                 IF i \in schemes THEN Span("Link", StripTrailingPunct(Word(line, i)))
                 ELSE Span("text", SubSeq(line, i, Until(line, i, schemes) - 1))]
  IN Pushed(turn, [i \in DOMAIN line |->
                     i + Len(IF i \in schemes THEN Word(line, i) ELSE turn[i].text)])

\* split_urls: a link goes from a scheme to the next blank, less its punctuation.
SplitUrls(line) ==
  LET schemes == {i \in DOMAIN line : line[i] = Scheme}
      turn == [i \in DOMAIN line |->
                 IF i \in schemes THEN Span("Link", StripTrailingPunct(Word(line, i)))
                 ELSE Span("text", SubSeq(line, i, Until(line, i, schemes) - 1))]
  IN Pushed(turn, [i \in DOMAIN line |-> i + Len(turn[i].text)])

-----------------------------------------------------------------------------
(* Delimiters.                                                               *)

\* Where a delimiter may open a span: after a blank or at the start, before
\* something else than a blank.
Opens(chars, i) ==
  /\ chars[i] \in Delimiters
  /\ i = 1 \/ chars[i - 1] = Space
  /\ i < Len(chars) /\ chars[i + 1] # Space

\* find_close: where a span from start on may end.
FindClose(chars, start) ==
  {p \in start + 1 .. Len(chars) :
     /\ chars[p] = chars[start - 1] /\ chars[p - 1] # Space
     /\ p = Len(chars) \/ chars[p + 1] \in Punctuation \cup {Space}}

\* parse_inline: spans do not nest, the first end counts, and what is between
\* them is plain.
ParseInline(chars) ==
  LET opens == {i \in DOMAIN chars : Opens(chars, i) /\ FindClose(chars, i + 1) # {}}
      close == [i \in opens |-> Least(FindClose(chars, i + 1))]
      turn == [i \in DOMAIN chars |->
                 IF i \in opens THEN Span(chars[i], SubSeq(chars, i + 1, close[i] - 1))
                 ELSE Span("Plain", SubSeq(chars, i, Until(chars, i, opens) - 1))]
  IN Pushed(turn, [i \in DOMAIN chars |->
                     IF i \in opens THEN close[i] + 1 ELSE Until(chars, i, opens)])

-----------------------------------------------------------------------------
(* Lines.                                                                    *)

IsQuote(line) == Len(line) >= 2 /\ line[1] = ">" /\ line[2] = Space

Segment(s) == IF s.style = "Link" THEN <<s>> ELSE ParseInline(s.text)

ParseLine(line) ==
  IF IsQuote(line) THEN <<Span("Quote", From(line, 3))>>
  ELSE LET urls == SplitUrls(line) IN FlattenSeq([i \in DOMAIN urls |-> Segment(urls[i])])

\* The lines of a text; what ends the last one is not a line of its own.
Lines(text) ==
  LET end == [i \in DOMAIN text |-> Until(text, i, {j \in DOMAIN text : text[j] = NL})]
  IN Pushed([i \in DOMAIN text |-> SubSeq(text, i, end[i] - 1)],
            [i \in DOMAIN text |-> IF end[i] > Len(text) THEN end[i] ELSE end[i] + 1])

\* The end of a line belongs to the span before it.
EndLine(spans) ==
  IF spans = <<>> THEN <<Span("Plain", <<NL>>)>>
  ELSE [spans EXCEPT ![Len(spans)].text = Append(@, NL)]

Parse(text) ==
  LET ls == Lines(text)
      upto[k \in 0 .. Len(ls)] ==
        IF k = 0 THEN <<>>
        ELSE (IF k > 1 THEN EndLine(upto[k - 1]) ELSE <<>>) \o ParseLine(ls[k])
  IN upto[Len(ls)]

-----------------------------------------------------------------------------

\* A body is typed character by character (ChatParts extends this module, so that
\* these have names of their own).
StylingInit == body = <<>>
Type(c) == Len(body) < MaxLength /\ body' = Append(body, c)
StylingNext == \E c \in Alphabet : Type(c)
StylingSpec == StylingInit /\ [][StylingNext]_body

-----------------------------------------------------------------------------

\* What a span shows of its line: the ends of lines come last.
OfLine(t) == Prefix(t, Least({k \in 0..Len(t) : \A j \in k + 1 .. Len(t) : t[j] = NL}))

\* The text a span was made from, and that of several.
Source(s) ==
  LET own  == OfLine(s.text)
      ends == From(s.text, Len(own) + 1)
  IN (CASE s.style \in Delimiters -> <<s.style>> \o own \o <<s.style>>
        [] s.style = "Quote" -> <<">", Space>> \o own
        [] OTHER -> own) \o ends

Text(spans) == FlattenSeq([i \in DOMAIN spans |-> Source(spans[i])])

\* Nothing of a message is lost or doubled when it is shown, whatever stands
\* beside whatever: the spans, with their delimiters, are the body, less one
\* end of line at its end.
NothingLost == Text(Parse(body)) = body \/ Append(Text(Parse(body)), NL) = body

\* Every scheme begins or is in a link or a quote, a link has no blank and no
\* loose punctuation at its end, and a span between delimiters is not empty and
\* has no blank at its ends: also where a link, a delimiter and a bracket meet.
SpansAreWhole ==
  \A i \in DOMAIN Parse(body) :
    LET s == Parse(body)[i]
        t == OfLine(s.text)
    IN /\ s.style = "Link" => t[1] = Scheme /\ ~Has(t, Space) /\ ~Strippable(t, Len(t))
       /\ s.style \in Delimiters =>
            t # <<>> /\ t[1] # Space /\ t[Len(t)] # Space
       /\ Has(t, Scheme) => s.style \in {"Link", "Quote"}
=============================================================================
