--------------------------- MODULE MCConversions ---------------------------
(***************************************************************************)
(* The parts of the program that turn one text or table into another: the  *)
(* report, a score, the class parameter, the texts of the page, a setting, *)
(* a Range and an Accept header, a form body and a body in chunks.         *)
(* They share nothing, so one run checks them side by side: turn says      *)
(* which of them a behaviour is of; the variables of the others are 0.     *)
(***************************************************************************)
EXTENDS GradeReport, Ranges

CONSTANTS
  Safe, Chars, MaxName, MaxQuery, MaxBoth, \* of ClassParam
  Words, MaxTexts,                         \* of HtmlText
  Bodies, MaxLine, MaxFiles                \* of Multipart

VARIABLES turn, score, name, query, first, second, key, value, offers, spaced,
          body, input, buf_, state_, inner, is_valid_, lines,
          chunks, fields, gap, silent, wire, reading, chunk_len, total_len,
          received, trailers

-----------------------------------------------------------------------------
\* Up to three students, two classes and the class with an empty name, one
\* name shared by all of them or not, a displayed subject and another.
MCIds        == {11, 12, 13}
MCTexts      == {0, 1, 2}
MCSubjects   == {"math", "art"}
MCkSubjects  == <<"math">>
MCSomePoints == {5950, 8500}

\* All scores near zero, near 100 and at the ends of NUMERIC(5,2).
Format == INSTANCE ScoreFormat WITH
  Ids <- {11}, Texts <- {0}, Subjects <- {"math"},
  SomePoints <- (-110 .. 110) \cup (9890 .. 10010) \cup (99890 .. 99999)
                  \cup (-99999 .. -99990)

Param == INSTANCE ClassParam

Page == INSTANCE HtmlText

Setting == INSTANCE Settings WITH MaxText <- 4

Accept == INSTANCE AcceptHeader WITH MaxOffers <- 3

\* Chunks that look like the end of a line, and like the end of the body.
Chunked == INSTANCE ChunkedBody WITH
  Datas <- {<<"x">>, <<"x", "x">>, <<"r", "n">>, <<"r", "n", "0", "r">>},
  MaxChunks <- 2, MaxPayload <- 6

\* Ranges inside the body, up to its end and past it, from it on, suffixes
\* shorter, as long and longer than it, and the two malformed forms.
MCSpecs ==
  { r \in (0 .. 2) \X (0 .. 3) : r[1] <= r[2] }
    \cup {<<1, -1>>, <<3, -1>>, <<-1, 0>>, <<-1, 1>>, <<-1, 3>>, <<-1, 4>>}
    \cup {<<-1, -1>>, <<2, 1>>}

\* Bodies of up to three parts.  The contents are what makes delimiters hard
\* to see: their beginnings, and beginnings of beginnings.
Contents ==
  { <<>>, <<"x">>, <<"r">>, <<"r", "n", "-">>, <<"r", "n", "-", "-">>,
    <<"r", "r", "n", "-", "-">>, <<"-", "-", "b", "r", "n">>,
    <<"r", "n", "r", "n", "-", "-">>, <<"x", "r", "n", "x", "n">> }

Lines == { <<>>, << <<"h">> >>, << <<"h">>, <<"h", "r">> >>, << <<"h">>, <<"g">> >> }

Parts(ls, cs) == [lines : ls, content : cs]

Simple == Parts({<< <<"h">> >>}, {<<>>, <<"x">>})

Sent(pre, ps, cuts) ==
  [preamble : pre, parts : ps, epilogue : {<<>>, <<"r", "n">>}, cut : cuts]

MCBodies ==
  Sent({<<>>, <<"-">>, <<"x", "r", "n">>}, {<<p>> : p \in Parts(Lines, Contents)},
       {0, 1, 2, 3, 6, 9})
    \cup Sent({<<>>}, {<<p, q>> : p \in Parts(Lines, Contents), q \in Simple}, 0 .. 2)
    \cup Sent({<<>>}, {<<p, q, r>> : p \in Simple, q \in Simple, r \in Simple}, {0})
    \cup Sent({<<>>}, {<< >>}, {0})

Form == INSTANCE Multipart

ASSUME Format!PointsAssumption
ASSUME TokensAssumption == Param!CharsAssumption
ASSUME FormsAssumption == Form!MultipartAssumption

-----------------------------------------------------------------------------
Turns == {"report", "score", "param", "text", "setting", "accept", "range",
          "form", "chunked"}

\* The variables of each; stage and parts are of Ranges and of Multipart.
paramVars == <<name, query>>
pageVars == <<first, second>>
envVars == <<key, value>>
offerVars == <<offers, spaced>>
headerVars == <<asked, size, ranges, next, overlaps, coalesced>>
formVars == <<body, input, buf_, state_, inner, is_valid_, lines>>
bothVars == <<stage, parts>>
pieceVars == <<chunks, fields, gap, silent, wire, reading, chunk_len, total_len,
               received, trailers>>

MCInit ==
  /\ turn \in Turns
  /\ IF turn = "report" THEN Init ELSE db = 0
  /\ IF turn = "score" THEN Format!Init ELSE score = 0
  /\ IF turn = "param" THEN Param!Init ELSE name = 0 /\ query = 0
  /\ IF turn = "text" THEN Page!HtmlInit ELSE first = 0 /\ second = 0
  /\ IF turn = "setting" THEN Setting!SettingsInit ELSE key = 0 /\ value = 0
  /\ IF turn = "accept" THEN Accept!AcceptInit ELSE offers = 0 /\ spaced = 0
  /\ CASE turn = "range" -> RangesInit
       [] turn = "form" -> Form!Init
       [] OTHER -> stage = 0 /\ parts = 0
  /\ turn # "range" => /\ asked = 0 /\ size = 0 /\ ranges = 0 /\ next = 0
                        /\ overlaps = 0 /\ coalesced = 0
  /\ turn # "form" => /\ body = 0 /\ input = 0 /\ buf_ = 0 /\ state_ = 0
                       /\ inner = 0 /\ is_valid_ = 0 /\ lines = 0
  /\ IF turn = "chunked" THEN Chunked!ChunkedInit
     ELSE /\ chunks = 0 /\ fields = 0 /\ gap = 0 /\ silent = 0 /\ wire = 0
          /\ reading = 0 /\ chunk_len = 0 /\ total_len = 0 /\ received = 0
          /\ trailers = 0

MCNext ==
  /\ UNCHANGED turn
  /\ turn # "report" => UNCHANGED db
  /\ turn # "score" => UNCHANGED score
  /\ turn # "param" => UNCHANGED paramVars
  /\ turn # "text" => UNCHANGED pageVars
  /\ turn # "setting" => UNCHANGED envVars
  /\ turn # "accept" => UNCHANGED offerVars
  /\ turn # "range" => UNCHANGED headerVars
  /\ turn # "form" => UNCHANGED formVars
  /\ turn \notin {"range", "form"} => UNCHANGED bothVars
  /\ turn # "chunked" => UNCHANGED pieceVars
  /\ \/ turn = "report" /\ Next
     \/ turn = "score" /\ Format!Update
     \/ turn = "param" /\ Param!Next
     \/ turn = "text" /\ Page!HtmlNext
     \/ turn = "setting" /\ Setting!SettingsNext
     \/ turn = "accept" /\ Accept!AcceptNext
     \/ turn = "range" /\ RangesNext
     \/ turn = "form" /\ Form!Next
     \/ turn = "chunked" /\ Chunked!ChunkedNext

all == <<turn, db, score, paramVars, pageVars, envVars, offerVars, headerVars,
         formVars, bothVars, pieceVars>>

MCSpec == MCInit /\ [][MCNext]_all

-----------------------------------------------------------------------------
\* The variables keep their types, and the keys of the schema hold.
TypesOK ==
  /\ turn = "report" => TypeOK
  /\ turn = "range" => RangesTypeOK
  /\ turn = "form" => Form!TypeOK

\* What QueryPivot returns, said without SQL, and the entries of the menu
\* divide the students (GradeReport).
ReportRight == turn = "report" => PivotCorrect /\ MenuDividesStudents

\* No score is shown as another, and all are shown as PHP shows them but
\* those with a single decimal (ScoreFormat).
ShownRight ==
  turn = "score" => Format!ShownExactly /\ Format!SameAsPhpButTenths

\* The class chosen in the menu is the one filtered by (ClassParam).
ChosenReachesFilter == turn = "param" => Param!ChosenReachesFilter

\* The three programs find the same filter (ClassParam).
ProgramsAgree == turn = "param" => Param!ProgramsAgree

\* The texts of the tables come back from the page as they are (HtmlText).
TextsComeBack == turn = "text" => Page!TextsComeBack

\* Which settings arrive at libpq, and which do not (Settings).
SettingsArrive == turn = "setting" => Setting!SettingsArrive

\* The media types of an Accept header, in their order (AcceptHeader).
PreferencesAsSent == turn = "accept" => Accept!PreferencesAsSent

\* The parts of a response lie inside the body, are the bytes that were asked
\* for, and are in the order of the body; a header is refused for a reason
\* (Ranges).
RangesAnswered ==
  turn = "range" => PartsFit /\ ServedAsAsked /\ PartsInOrder /\ RefusedForAReason

\* The parts of a form are the parts its sender put into it, nothing of a
\* delimiter is handed on before, and the form is accepted only if complete,
\* refused only for a reason (Multipart).
FormsAsSent ==
  turn = "form" => Form!PartsAsSent /\ Form!ContentIsPrefix /\ Form!AcceptedIfComplete

\* The data of the chunks of a body, whole or an error (ChunkedBody).
ChunksAsSent == turn = "chunked" => Chunked!ChunksAsSent
=============================================================================
