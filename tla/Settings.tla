------------------------------- MODULE Settings -------------------------------
(***************************************************************************)
(* A setting on its way from the environment to app_a and to libpq:        *)
(* LoadDbConfig (config.cpp), the connection string of ConnectDb (dao.cpp) *)
(* and libpq's reading of it; before them, in scheme D, the file that      *)
(* Dockerfile.d writes and supervisord.conf has a shell read; and, next to *)
(* them, the password start.sh gives to the user it makes.                 *)
(*                                                                         *)
(* A text is a sequence of tokens: characters, the names of the settings,  *)
(* and "d", which stands for the default of a setting.  The characters     *)
(* that only a shell treats specially are left out.                        *)
(***************************************************************************)
EXTENDS Naturals, Sequences
LOCAL INSTANCE SequencesExt

CONSTANT MaxText \* bound on the length of the text

Blank     == " "
Quote     == "'"
Backslash == "\\"
Digit     == "7"
Letter    == "x"
Default   == <<"d">>
Signs     == {Blank, Quote, Backslash, "=", Digit, Letter}

\* In the order of the connection string.
Keys == <<"host", "port", "dbname", "user", "password">>

VARIABLES
  key,  \* the setting that is set in the environment
  value \* to this text

settingVars == <<key, value>>

SettingsInit == key \in Range(Keys) \cup {"http port"} /\ value = << >>

SettingsNext ==
  /\ Len(value) < MaxText
  /\ \E c \in Signs : value' = Append(value, c)
  /\ UNCHANGED key

-----------------------------------------------------------------------------
(* config.cpp, main_a.cpp and dao.cpp. *)

\* Mutant: a variable that is set is used, also if it is empty.
GetEnv_Empty(text) == text

GetEnv(text) == IF text = << >> THEN Default ELSE text

\* Digits after blanks, and 0 without any.
Atoi(text) ==
  LET from == { i \in DOMAIN text : \A k \in 1 .. (i - 1) : text[k] = Blank }
      digits == { i \in DOMAIN text :
                    \E b \in from : b <= i /\ \A k \in b .. i : text[k] = Digit }
  IN  IF digits = {} THEN <<"0">> ELSE [ i \in 1 .. Cardinality(digits) |-> Digit ]

GetEnvInt(text) == IF text = << >> THEN Default ELSE Atoi(text)

LoadDbConfig(env) ==
  [ k \in Range(Keys) |-> IF k = "port" THEN GetEnvInt(env[k]) ELSE GetEnv(env[k]) ]

\* The port of app_a, in main().
HttpPort(text) == IF text = << >> THEN Default ELSE Atoi(text)

ConnStr(config) ==
  FlattenSeq([ i \in DOMAIN Keys |->
    (IF i = 1 THEN << >> ELSE <<Blank>>) \o <<Keys[i], "=">> \o config[Keys[i]] ])

-----------------------------------------------------------------------------
(* libpq: "key = value" pairs; a value may stand in quotes, a backslash     *)
(* takes the next character as it is, and blanks around "=" do not count.  *)

Stored(s) ==
  IF Len(s.name) = 1 /\ s.name[1] \in Range(Keys)
  THEN [s EXCEPT !.got[s.name[1]] = s.text, !.name = << >>, !.text = << >>, !.at = "name"]
  ELSE [s EXCEPT !.at = "error"]

InName(s, c) ==
  CASE c = "=" -> [s EXCEPT !.at = "equals"]
    [] c = Blank /\ s.name = << >> -> s
    [] c = Blank -> [s EXCEPT !.at = "named"]
    [] OTHER -> [s EXCEPT !.name = Append(@, c)]

InText(s, c) ==
  CASE c = Blank -> Stored(s)
    [] c = Backslash -> [s EXCEPT !.at = "escape"]
    [] OTHER -> [s EXCEPT !.text = Append(@, c), !.at = "text"]

InQuotes(s, c) ==
  CASE c = Quote -> Stored(s)
    [] c = Backslash -> [s EXCEPT !.at = "quoted escape"]
    [] OTHER -> [s EXCEPT !.text = Append(@, c)]

ReadChar(s, c) ==
  CASE s.at = "name" -> InName(s, c)
    [] s.at = "named" -> IF c = Blank THEN s
                         ELSE [s EXCEPT !.at = IF c = "=" THEN "equals" ELSE "error"]
    [] s.at = "equals" -> IF c = Blank THEN s
                          ELSE IF c = Quote THEN [s EXCEPT !.at = "quotes"] ELSE InText(s, c)
    [] s.at = "text" -> InText(s, c)
    [] s.at = "escape" -> [s EXCEPT !.text = Append(@, c), !.at = "text"]
    [] s.at = "quotes" -> InQuotes(s, c)
    [] s.at = "quoted escape" -> [s EXCEPT !.text = Append(@, c), !.at = "quotes"]
    [] OTHER -> s

\* The settings of a connection string; no setting is "error".
Conninfo(str) ==
  LET none == [ k \in Range(Keys) |-> << >> ]
      s == FoldLeft(ReadChar, [at |-> "name", name |-> << >>, text |-> << >>, got |-> none], str)
      end == IF s.at \in {"equals", "text", "escape"} THEN Stored(s) ELSE s
  IN  IF end.at = "name" /\ end.name = << >> THEN end.got
      ELSE [ k \in Range(Keys) |-> <<"error">> ]

-----------------------------------------------------------------------------
(* The environment, and the scripts that hand it on. *)

Env(text) == [ k \in Range(Keys) |-> IF k = key THEN text ELSE << >> ]

\* What a shell that reads the line DB_...=text leaves in the variable.  What
\* follows a blank is a command, whose failure leaves the inherited text.
Word(text) ==
  LET step(s, c) ==
        CASE s.at = "text" /\ c = Quote -> [s EXCEPT !.at = "quotes"]
          [] s.at = "text" /\ c = Backslash -> [s EXCEPT !.at = "escape"]
          [] s.at = "text" /\ c = Blank -> [s EXCEPT !.at = "blanks"]
          [] s.at = "quotes" /\ c = Quote -> [s EXCEPT !.at = "text"]
          [] s.at = "escape" -> [s EXCEPT !.at = "text", !.text = Append(@, c)]
          [] s.at = "blanks" /\ c # Blank -> [s EXCEPT !.at = "command"]
          [] s.at \in {"blanks", "command"} -> s
          [] OTHER -> [s EXCEPT !.text = Append(@, c)]
      s == FoldLeft(step, [at |-> "text", text |-> << >>], text)
  IN  IF s.at \in {"text", "blanks"} THEN s.text ELSE text

\* PASSWORD '...' in SQL: a quote in the text must be doubled.
Literal(text) ==
  LET quoteAt == { i \in DOMAIN text : text[i] = Quote }
      before(i) == { k \in quoteAt : k <= i /\ \A j \in k .. i : j \in quoteAt }
      second == { i \in quoteAt : Cardinality(before(i)) % 2 = 0 }
  IN  IF \E i \in quoteAt \ second : i + 1 \notin second THEN <<"error">>
      ELSE FlattenSeq([ i \in DOMAIN text |-> IF i \in second THEN << >> ELSE <<text[i]>> ])

-----------------------------------------------------------------------------
\* Nothing but the setting itself may change on the way.
Arrives(text, sent) ==
  Conninfo(ConnStr(LoadDbConfig(Env(sent))))
    = [ k \in Range(Keys) |-> IF k = key /\ text # << >> THEN text ELSE Default ]

\* A port, of libpq or of app_a, is a number; what follows the number is dropped,
\* and what is no number is 0.  Any other setting arrives in scheme A exactly if
\* it has no blank and no backslash and does not begin with a quote; in scheme D
\* exactly if, besides, its quotes do not make pairs (an odd one has the shell
\* reject the line); and the user start.sh made has the password that app_a sends
\* exactly if it has no quote at all.  An empty setting is the default.  (A final
\* backslash joins two lines of the file of scheme D, and is left out there.)
SettingsArrive ==
  LET has(c) == \E i \in DOMAIN value : value[i] = c
      digits == \A i \in DOMAIN value : value[i] = Digit
      quotes == Cardinality({ i \in DOMAIN value : value[i] = Quote })
      bare == /\ ~ has(Blank) /\ ~ has(Backslash)
              /\ value # << >> => Head(value) # Quote
  IN  CASE key = "port" -> Arrives(value, value) <=> digits
      [] key = "http port" ->
           HttpPort(value) = (IF value = << >> THEN Default ELSE value) <=> digits
      [] OTHER ->
           /\ Arrives(value, value) <=> bare
           /\ (value = << >> \/ Last(value) # Backslash)
                => (Arrives(value, Word(value)) <=> bare /\ (quotes = 0 \/ quotes % 2 = 1))
           /\ key = "password" =>
                (Arrives(Literal(value), value) <=> bare /\ quotes = 0)
=============================================================================
