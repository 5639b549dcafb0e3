----------------------------- MODULE AcceptHeader -----------------------------
(***************************************************************************)
(* The Accept header of a request: parse_accept_header of cpp-httplib,     *)
(* which answers 400 in front of the page if it finds the header malformed.*)
(*                                                                         *)
(* A text is a sequence of tokens: a separator, a media type, the name of  *)
(* a parameter, or a number.                                               *)
(***************************************************************************)
EXTENDS Integers, Sequences
LOCAL INSTANCE SequencesExt
LOCAL INSTANCE FiniteSetsExt

CONSTANT MaxOffers \* bound on the entries of a header

Types     == {"text/html", "image/*", "*"}
NoType    == "text"
Numbers   == {"0", "0.5", "1", "2"}
Halves(n) == CASE n = "0" -> 0 [] n = "0.5" -> 1 [] n = "1" -> 2 [] OTHER -> 4

VARIABLES
  offers, \* the entries of the header, as sent
  spaced  \* whether a blank follows each comma

acceptVars == <<offers, spaced>>

-----------------------------------------------------------------------------
(* The client. *)

Entry(text, type, halves) ==
  [text |-> text, ok |-> TRUE, type |-> <<type>>, halves |-> halves]

WellFormed ==
  UNION { { Entry(<<t>>, t, 2),
            Entry(<<t, ";", "level", "=", "1">>, t, 2),
            Entry(<<t, ";", "q", "=", "0.5">>, t, 1),
            Entry(<<t, ";", " ", "q", "=", "0">>, t, 0),
            Entry(<<t, " ", ";", "q", "=", "1", ";", "level", "=", "2">>, t, 2),
            Entry(<<t, ";", "level", "=", "2", ";", "q", "=", "0.5">>, t, 1) }
          : t \in Types }

Malformed ==
  { [text |-> x, ok |-> FALSE] : x \in
      { <<NoType>>, <<NoType, ";", "q", "=", "1">>, <<";", "q", "=", "1">>,
        <<"text/html", ";", "q", "=">>, <<"text/html", ";", "q", "=", NoType>>,
        <<"text/html", ";", " ", "q", "=", "2">> } }

Empty == [text |-> << >>, ok |-> TRUE]

AcceptInit == offers = << >> /\ spaced \in BOOLEAN

AcceptNext ==
  /\ Len(offers) < MaxOffers
  /\ \E o \in WellFormed \cup Malformed \cup {Empty} : offers' = Append(offers, o)
  /\ UNCHANGED spaced

\* The value of the header: parse_header takes blanks off its ends.
Trim(s) ==
  LET kept == { i \in DOMAIN s : s[i] # " " }
  IN  IF kept = {} THEN << >> ELSE SubSeq(s, Min(kept), Max(kept))

Header ==
  LET comma == IF spaced THEN <<",", " ">> ELSE <<",">>
  IN  Trim(FlattenSeq([ i \in DOMAIN offers |->
        (IF i = 1 THEN << >> ELSE comma) \o offers[i].text ]))

-----------------------------------------------------------------------------
(* parse_accept_header *)

\* The first place of sub in s from i on; 0 for npos.
Find(s, sub, i) ==
  LET at == { p \in i .. (Len(s) - Len(sub) + 1) : SubSeq(s, p, p + Len(sub) - 1) = sub }
  IN  IF at = {} THEN 0 ELSE Min(at)

Before(s, d, i) == IF Find(s, d, i) = 0 THEN SubSeq(s, i, Len(s))
                   ELSE SubSeq(s, i, Find(s, d, i) - 1)

\* split: nothing is said of a part without text.
Split(s) ==
  LET cuts == SetToSortSeq({0, Len(s) + 1} \cup { i \in DOMAIN s : s[i] = "," }, <)
      parts == [ k \in 1 .. (Len(cuts) - 1) |-> Trim(SubSeq(s, cuts[k] + 1, cuts[k + 1] - 1)) ]
  IN  SelectSeq(parts, LAMBDA p : p # << >>)

\* Mutant: "; q=" is not looked for.
QualityAt_NoBlank(e) == Find(e, <<";", "q", "=">>, 1)

QualityAt(e) ==
  LET at == Find(e, <<";", "q", "=">>, 1)
  IN  IF at # 0 THEN at ELSE Find(e, <<";", " ", "q", "=">>, 1)

ReadEntry(e) ==
  LET q_pos == QualityAt(e)
      number == Trim(Before(e, <<";">>, Find(e, <<"=">>, q_pos) + 1))
      media == IF q_pos = 0 THEN e ELSE Trim(SubSeq(e, 1, q_pos - 1))
      type == Trim(Before(media, <<";">>, 1))
      halves == IF q_pos = 0 THEN 2 ELSE Halves(number[1])
  IN  IF \/ q_pos # 0 /\ (number = << >> \/ number[1] \notin Numbers)
         \/ type = << >> \/ type[1] \notin Types
      THEN [ok |-> FALSE]
      ELSE [ok |-> halves <= 2, type |-> type, halves |-> halves]

\* The media types in the order of preference.
Parse(s) ==
  LET entries == [ k \in DOMAIN Split(s) |-> ReadEntry(Split(s)[k]) ]
      preferred(a, b) == \/ entries[a].halves > entries[b].halves
                         \/ entries[a].halves = entries[b].halves /\ a < b
  IN  IF s = << >> THEN [ok |-> TRUE, types |-> << >>]
      ELSE IF \/ Head(s) = "," \/ Last(s) = "," \/ Find(s, <<",", ",">>, 1) # 0
              \/ \E k \in DOMAIN entries : ~ entries[k].ok
      THEN [ok |-> FALSE]
      ELSE [ok |-> TRUE,
            types |-> LET order == SetToSortSeq(DOMAIN entries, preferred)
                      IN  [ k \in DOMAIN order |-> entries[order[k]].type ]]

-----------------------------------------------------------------------------
\* A header is refused exactly if an entry is malformed, or an empty entry is
\* first, last or not set off by a blank; otherwise its media types are found,
\* those of higher quality first, and in their order among equals.  (A "Q", or
\* "q" behind two blanks, is not seen as a quality.)
PreferencesAsSent ==
  LET n == Len(offers)
      filled == SelectSeq(offers, LAMBDA o : o # Empty)
      of(h) == SelectSeq(filled, LAMBDA o : o.halves = h)
      typesOf(s) == [ k \in DOMAIN s |-> s[k].type ]
      broken == \E i \in 1 .. n :
                  \/ ~ offers[i].ok
                  \/ offers[i] = Empty /\ n > 1 /\ (~ spaced \/ i \in {1, n})
  IN  IF broken THEN ~ Parse(Header).ok
      ELSE Parse(Header) = [ok |-> TRUE, types |-> typesOf(of(2) \o of(1) \o of(0))]
=============================================================================
