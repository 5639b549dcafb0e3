------------------------------- MODULE HtmlText -------------------------------
(***************************************************************************)
(* The texts of the tables on their way through the page: EscapeHtml and   *)
(* the markup around it in template.cpp, htmlspecialchars in the program   *)
(* it reproduces (public/index.php), and what a browser reads.             *)
(*                                                                         *)
(* A text is a sequence of tokens: a character that means something in     *)
(* HTML, the rest of a character reference, or another word.               *)
(***************************************************************************)
EXTENDS Naturals, Sequences, FiniteSets, SequencesExt

CONSTANTS
  Words,   \* other words
  MaxTexts \* bound on the length of both texts together

\* The character references that are written, or might be in a text.
Reference == [ r \in {"amp;", "lt;", "gt;", "quot;", "#39;", "#039;"} |->
  CASE r = "amp;" -> "&" [] r = "lt;" -> "<" [] r = "gt;" -> ">"
    [] r = "quot;" -> "\"" [] OTHER -> "'" ]

Tokens == Words \cup {"&", "<", ">", "\"", "'", "lt;", "#39;"}

VARIABLES
  first, second \* the classes in the menu, and in the rows of the table

textVars == <<first, second>>

HtmlInit == first = << >> /\ second = << >>

HtmlNext ==
  /\ Len(first) + Len(second) < MaxTexts
  /\ \E t \in Tokens :
       \/ first' = Append(first, t) /\ UNCHANGED second
       \/ second' = Append(second, t) /\ UNCHANGED first

-----------------------------------------------------------------------------
(* The programs. *)

\* Each character that has a reference is written as it.
Written(text, ref) ==
  FlattenSeq([ i \in DOMAIN text |->
    IF text[i] \in DOMAIN ref THEN <<"&", ref[text[i]]>> ELSE <<text[i]>> ])

\* Mutant: the quote, which only an attribute needs, is left as it is.
EscapeHtml_NoQuote(text) ==
  Written(text, [ c \in {"&", "<", ">", "'"} |->
    CASE c = "&" -> "amp;" [] c = "<" -> "lt;" [] c = ">" -> "gt;" [] c = "'" -> "#39;" ])

EscapeHtml(text) ==
  Written(text, [ c \in {"&", "<", ">", "\"", "'"} |->
    CASE c = "&" -> "amp;" [] c = "<" -> "lt;" [] c = ">" -> "gt;"
      [] c = "\"" -> "quot;" [] c = "'" -> "#39;" ])

htmlspecialchars(text) ==
  Written(text, [ c \in {"&", "<", ">", "\"", "'"} |->
    CASE c = "&" -> "amp;" [] c = "<" -> "lt;" [] c = ">" -> "gt;"
      [] c = "\"" -> "quot;" [] c = "'" -> "#039;" ])

\* An entry of the menu from a class, escaped, marked if it is filtered by.
Option(class, selected) ==
  <<"<", "option", "value=", "\"">> \o class \o <<"\"">>
    \o (IF selected THEN <<"selected">> ELSE << >>)
    \o <<">">> \o class \o <<"<", "/option", ">">>

RenderClassSelect(classes, escaped, filter) ==
  FlattenSeq([ i \in DOMAIN classes |-> Option(escaped[i], classes[i] = filter) ])

Cell(text) == <<"<", "td", ">">> \o text \o <<"<", "/td", ">">>

RenderRow(escaped) == FlattenSeq([ i \in DOMAIN escaped |-> Cell(escaped[i]) ])

-----------------------------------------------------------------------------
(* The browser. *)

\* The first place of a token from i on, or just after the end.
Find(m, t, i) ==
  CHOOSE p \in i .. (Len(m) + 1) :
    (p = Len(m) + 1 \/ m[p] = t) /\ \A k \in i .. (p - 1) : m[k] # t

\* Character references read back.
Plain(m) ==
  LET begins(i) == m[i] = "&" /\ i < Len(m) /\ m[i + 1] \in DOMAIN Reference
  IN  FlattenSeq([ i \in DOMAIN m |->
        IF begins(i) THEN <<Reference[m[i + 1]]>>
        ELSE IF i > 1 /\ begins(i - 1) THEN << >> ELSE <<m[i]>> ])

Between(m, a, b) == Plain(SubSeq(m, a + 1, b - 1))

\* The tags of m begin where it has "<".
Tags(m, name) == { p \in 1 .. (Len(m) - 1) : m[p] = "<" /\ m[p + 1] = name }

\* The end of a tag is the first ">" outside quotes.
ReadOption(m, p) ==
  LET open == Find(m, "\"", p)
      close == Find(m, "\"", open + 1)
      end == Find(m, ">", close)
  IN  [ value    |-> Between(m, open, close),
        selected |-> "selected" \in { m[i] : i \in close + 1 .. end - 1 },
        text     |-> Between(m, end, Find(m, "<", end)) ]

\* Places in their order.
InOrder(S) ==
  CHOOSE s \in [1 .. Cardinality(S) -> S] : \A i, j \in DOMAIN s : i < j => s[i] < s[j]

ReadMenu(m) ==
  LET at == InOrder(Tags(m, "option"))
  IN  [ i \in DOMAIN at |-> ReadOption(m, at[i]) ]

ReadRow(m) ==
  LET at == InOrder(Tags(m, "td"))
  IN  [ i \in DOMAIN at |-> Between(m, Find(m, ">", at[i]), Find(m, "<", at[i] + 1)) ]

-----------------------------------------------------------------------------
\* A browser reads the menu and the rows as the tables have them, whatever
\* their texts are: each class is shown as it is, would be submitted as it is,
\* and exactly the one filtered by is selected.  So it reads the PHP page.
TextsComeBack ==
  LET texts == <<first, second>>
      pages == { [ i \in 1 .. 2 |-> EscapeHtml(texts[i]) ],
                 [ i \in 1 .. 2 |-> htmlspecialchars(texts[i]) ] }
  IN  \A filter \in {first, second}, escaped \in pages :
        /\ ReadMenu(RenderClassSelect(texts, escaped, filter))
             = [ i \in 1 .. 2 |-> [ value |-> texts[i], selected |-> texts[i] = filter,
                                    text |-> texts[i] ] ]
        /\ ReadRow(RenderRow(escaped)) = texts
=============================================================================
