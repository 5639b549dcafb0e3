------------------------------ MODULE ClassParam ------------------------------
(***************************************************************************)
(* From the class chosen in the menu to the classFilter HandleIndex gets:  *)
(* the form of template.cpp submitted by a browser, and the ways the query *)
(* string is taken apart: parse_query_text of cpp-httplib in scheme A      *)
(* (main_a.cpp), ParseClassParam in scheme D (main_d.cpp), and $_GET in    *)
(* the program they reproduce (public/index.php).                          *)
(*                                                                         *)
(* A text is a sequence of tokens.  A token is a character, or the word    *)
(* "class"; in a query string it may be percent-encoded.  Malformed        *)
(* percent sequences are left out.                                         *)
(***************************************************************************)
EXTENDS Integers, Sequences

CONSTANTS
  Chars,    \* characters a text is made of
  Safe,     \* those a form submission leaves as they are
  MaxName,  \* bounds on the lengths of
  MaxQuery, \* the two texts,
  MaxBoth   \* and of both together

Class     == "class"
Equals    == "="
Ampersand == "&"
Plus      == "+"
Space     == " "

CharsAssumption ==
  /\ {Class, Equals, Ampersand, Plus, Space} \subseteq Chars
  /\ Class \in Safe /\ Safe \subseteq Chars
  /\ Safe \cap {Equals, Ampersand, Plus, Space} = {}
  /\ MaxName \in Nat /\ MaxQuery \in Nat /\ MaxBoth \in Nat

VARIABLES
  name,  \* a class name, chosen in the menu
  query  \* a query string, typed in the address bar or part of a link

vars == <<name, query>>

Plain(c)   == [ch |-> c, encoded |-> FALSE]
Encoded(c) == [ch |-> c, encoded |-> TRUE]

\* A space in a request line would end the target.
Tokens == { Plain(c) : c \in Chars \ {Space} } \cup { Encoded(c) : c \in Chars }

Init == name = << >> /\ query = << >>

ExtendName ==
  /\ Len(name) < MaxName /\ Len(name) + Len(query) < MaxBoth
  /\ \E c \in Chars : name' = Append(name, Plain(c))
  /\ UNCHANGED query

ExtendQuery ==
  /\ Len(query) < MaxQuery /\ Len(name) + Len(query) < MaxBoth
  /\ \E t \in Tokens : query' = Append(query, t)
  /\ UNCHANGED name

Next == ExtendName \/ ExtendQuery

Spec == Init /\ [][Next]_vars

-----------------------------------------------------------------------------
\* The form: <select name="class">, method GET.
EncodeToken(t) ==
  IF t.ch \in Safe THEN t ELSE IF t.ch = Space THEN Plain(Plus) ELSE Encoded(t.ch)

Form(text) ==
  <<Plain(Class), Plain(Equals)>> \o [i \in DOMAIN text |-> EncodeToken(text[i])]

\* The first place of t in q from the place i on, or just after the end of q.
Find(q, t, i) ==
  CHOOSE p \in i .. (Len(q) + 1) :
    /\ p = Len(q) + 1 \/ q[p] = t
    /\ \A k \in i .. (p - 1) : q[k] # t

-----------------------------------------------------------------------------
(* Scheme A. *)

\* decode_path with plus as space.
Decode(q) ==
  [i \in DOMAIN q |-> IF q[i] = Plain(Plus) THEN Plain(Space) ELSE Plain(q[i].ch)]

\* Where the parts between ampersands begin.
PartStarts(q) ==
  { b \in 1 .. Len(q) : b = 1 \/ q[b - 1] = Plain(Ampersand) }

PartEnd(q, b) == Find(q, Plain(Ampersand), b)

\* A part is divided at its first "=", and its two sides are decoded.
Divide(q, b) ==
  LET part == SubSeq(q, b, PartEnd(q, b) - 1)
      at == Find(part, Plain(Equals), 1)
  IN  [ key   |-> Decode(SubSeq(part, 1, at - 1)),
        value |-> Decode(SubSeq(part, at + 1, Len(part))) ]

Named(q) == { b \in PartStarts(q) : Divide(q, b).key = <<Plain(Class)>> }

\* Mutant: the query string is decoded before it is split.
ParamValue_DecodesFirst(q) ==
  LET d == Decode(q)
      named == Named(d)
  IN  IF named = {} THEN << >>
      ELSE Divide(d, CHOOSE b \in named : \A c \in named : b <= c).value

\* get_param_value("class"): the first of the parameters of that name.
ParamValue(q) ==
  LET named == Named(q)
  IN  IF named = {} THEN << >>
      ELSE Divide(q, CHOOSE b \in named : \A c \in named : b <= c).value

-----------------------------------------------------------------------------
(* Scheme D. *)

\* Mutant: the value runs to the end of the query string.
ParseClassParam_ToEnd(q) ==
  LET found == { p \in 1 .. (Len(q) - 1) :
                   q[p] = Plain(Class) /\ q[p + 1] = Plain(Equals) }
      pos == 2 + CHOOSE p \in found : \A r \in found : p <= r
  IN  IF found = {} THEN << >> ELSE SubSeq(q, pos, Len(q))

\* ParseClassParam: what follows the first "class=" up to the next "&".
ParseClassParam(q) ==
  LET found == { p \in 1 .. (Len(q) - 1) :
                   q[p] = Plain(Class) /\ q[p + 1] = Plain(Equals) }
      pos == 2 + CHOOSE p \in found : \A r \in found : p <= r
  IN  IF found = {} THEN << >>
      ELSE SubSeq(q, pos, Find(q, Plain(Ampersand), pos) - 1)

-----------------------------------------------------------------------------
(* public/index.php. *)

Blank(text, i) == text[i] = Plain(Space)

LeftTrim(text) ==
  LET kept == { i \in DOMAIN text : ~ Blank(text, i) }
  IN  IF kept = {} THEN << >>
      ELSE SubSeq(text, CHOOSE i \in kept : \A k \in kept : i <= k, Len(text))

trim(text) ==
  LET kept == { i \in DOMAIN text : ~ Blank(text, i) }
  IN  IF kept = {} THEN << >>
      ELSE SubSeq(text, CHOOSE i \in kept : \A k \in kept : i <= k,
                        CHOOSE i \in kept : \A k \in kept : i >= k)

\* The parts that set $_GET['class']: blanks before a name do not count.
PhpNamed(q) == { b \in PartStarts(q) : LeftTrim(Divide(q, b).key) = <<Plain(Class)>> }

\* The last of them wins.
PhpParam(q) ==
  LET named == PhpNamed(q)
  IN  IF named = {} THEN << >>
      ELSE trim(Divide(q, CHOOSE b \in named : \A c \in named : b >= c).value)

-----------------------------------------------------------------------------
\* The class chosen in the menu is the class filtered by: in scheme A always,
\* whatever other parameters stand before it; in scheme D, which decodes
\* nothing, exactly if the form leaves all of its characters as they are,
\* whatever parameters follow; in PHP exactly if no blank is trimmed off.
ChosenReachesFilter ==
  LET last == query \o <<Plain(Ampersand)>> \o Form(name)
      first == Form(name) \o <<Plain(Ampersand)>> \o query
  IN  /\ Named(query) = {} => ParamValue(last) = name
      /\ ParseClassParam(first) = name <=> \A i \in DOMAIN name : name[i].ch \in Safe
      /\ PhpParam(last) = name <=> name = trim(name)

\* The schemes find the same filter in a query string without encoded
\* characters, where the word "class" is only the whole name of parameters
\* that have a value; and scheme A finds what PHP finds if one parameter at
\* most is "class", with no blanks around its name or value.
ProgramsAgree ==
  /\ (\A i \in DOMAIN query :
        /\ ~ query[i].encoded /\ query[i] # Plain(Plus)
        /\ query[i] = Plain(Class) =>
             i \in PartStarts(query) /\ i < Len(query) /\ query[i + 1] = Plain(Equals))
     => ParamValue(query) = ParseClassParam(query)
  /\ (\A b, c \in PhpNamed(query) :
        b = c /\ b \in Named(query) /\ trim(ParamValue(query)) = ParamValue(query))
     => ParamValue(query) = PhpParam(query)
=============================================================================
