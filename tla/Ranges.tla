------------------------------- MODULE Ranges -------------------------------
(***************************************************************************)
(* The Range header of a request, from parse_range_header through          *)
(* range_error and coalesce_ranges to the parts that apply_ranges cuts out *)
(* of the page.  The loops of the code are the steps here.                 *)
(***************************************************************************)
EXTENDS Integers, Sequences, FiniteSets

CONSTANTS
  Lengths,    \* lengths a body may have
  Specs,      \* <<first, last>> as written; -1 where nothing is written
  MaxAsked,   \* how many of them a header has at most
  MaxRanges   \* CPPHTTPLIB_RANGE_MAX_COUNT

ASSUME RangesAssumption ==
  /\ Lengths \subseteq Nat
  /\ Specs \subseteq (Nat \cup {-1}) \X (Nat \cup {-1})
  /\ MaxAsked \in Nat /\ MaxRanges \in Nat

VARIABLES
  asked,      \* the ranges of the header, as written
  size,       \* res.body.size()
  stage,      \* "parse", "check", "sort", "coalesce", "apply", or the status
              \* of the response: "206" or "416"
  ranges,     \* req.ranges
  next,       \* the index the loop is at
  overlaps,   \* overwrapping_count
  coalesced,
  parts       \* <<offset, length>> of each part of the response

rangeVars == <<asked, size, stage, ranges, next, overlaps, coalesced, parts>>

Headers == UNION { [1 .. n -> Specs] : n \in 1 .. MaxAsked }

RangesInit ==
  /\ asked \in Headers
  /\ size \in Lengths
  /\ stage = "parse"
  /\ ranges = << >>
  /\ next = 1
  /\ overlaps = 0
  /\ coalesced = << >>
  /\ parts = << >>

Refuse ==
  /\ stage' = "416"
  /\ UNCHANGED <<asked, size, ranges, next, overlaps, coalesced, parts>>

-----------------------------------------------------------------------------
(* parse_range_header *)

Malformed(r) ==
  \/ r[1] = -1 /\ r[2] = -1
  \/ r[1] # -1 /\ r[2] # -1 /\ r[1] > r[2]

Parse ==
  /\ stage = "parse"
  /\ IF \E i \in DOMAIN asked : Malformed(asked[i])
     THEN Refuse
     ELSE /\ ranges' = asked
          /\ stage' = "check"
          /\ UNCHANGED <<asked, size, next, overlaps, coalesced, parts>>

-----------------------------------------------------------------------------
(* range_error *)

TooMany ==
  /\ stage = "check" /\ Len(ranges) > MaxRanges
  /\ Refuse

\* A suffix is turned round, and the last position brought inside the body.
Normal(r) ==
  LET first == IF r[1] = -1 THEN size - r[2] ELSE r[1]
      last  == IF r[1] = -1 \/ r[2] = -1 \/ r[2] >= size THEN size - 1 ELSE r[2]
  IN <<first, last>>

Fits(r) == 0 <= r[1] /\ r[1] <= r[2] /\ r[2] <= size - 1

Overlap(r, s) == ~ (r[2] < s[1] \/ r[1] > s[2])

\* One turn of the loop over the ranges: at most one overlap is counted.
CheckOne ==
  /\ stage = "check" /\ Len(ranges) <= MaxRanges /\ next <= Len(ranges)
  /\ LET r == Normal(ranges[next])
         more == IF \E i \in 1 .. next - 1 : Overlap(r, ranges[i]) THEN 1 ELSE 0
     IN IF ~ Fits(r) \/ overlaps + more > 2
        THEN Refuse
        ELSE /\ ranges' = [ranges EXCEPT ![next] = r]
             /\ overlaps' = overlaps + more
             /\ next' = next + 1
             /\ UNCHANGED <<asked, size, stage, coalesced, parts>>

Checked ==
  /\ stage = "check" /\ Len(ranges) <= MaxRanges /\ next > Len(ranges)
  /\ stage' = "sort"
  /\ UNCHANGED <<asked, size, ranges, next, overlaps, coalesced, parts>>

-----------------------------------------------------------------------------
(* coalesce_ranges *)

Ascending(s) == \A i, j \in DOMAIN s : i < j => s[i][1] <= s[j][1]

\* std::sort by first position: equal ones end in any order.
Sort ==
  /\ stage = "sort"
  /\ \E p \in [DOMAIN ranges -> DOMAIN ranges] :
       /\ \A i, j \in DOMAIN ranges : p[i] = p[j] => i = j
       /\ ranges' = [i \in DOMAIN ranges |-> ranges[p[i]]]
       /\ Ascending(ranges')
  /\ stage' = "coalesce"
  /\ next' = 1
  /\ UNCHANGED <<asked, size, overlaps, coalesced, parts>>

Join(prev, r) == <<prev[1], IF r[2] > prev[2] THEN r[2] ELSE prev[2]>>

\* Mutant: a range that begins at the last byte of the one before is not joined.
CoalesceOne_Inside ==
  /\ stage = "coalesce" /\ next <= Len(ranges)
  /\ LET r == ranges[next]
         n == Len(coalesced)
     IN coalesced' =
          IF n > 0 /\ r[1] < coalesced[n][2] /\ r # coalesced[n]
          THEN [coalesced EXCEPT ![n] = Join(@, r)]
          ELSE Append(coalesced, r)
  /\ next' = next + 1
  /\ UNCHANGED <<asked, size, stage, ranges, overlaps, parts>>

\* One turn of the loop: a range that touches the one before is joined to it,
\* unless it is the same.  The tests of range_error have been made already.
CoalesceOne ==
  /\ stage = "coalesce" /\ next <= Len(ranges)
  /\ LET r == ranges[next]
         n == Len(coalesced)
     IN coalesced' =
          IF n > 0 /\ r[1] <= coalesced[n][2] + 1 /\ r # coalesced[n]
          THEN [coalesced EXCEPT ![n] = Join(@, r)]
          ELSE Append(coalesced, r)
  /\ next' = next + 1
  /\ UNCHANGED <<asked, size, stage, ranges, overlaps, parts>>

Coalesced ==
  /\ stage = "coalesce" /\ next > Len(ranges)
  /\ ranges' = coalesced
  /\ stage' = "apply"
  /\ UNCHANGED <<asked, size, next, overlaps, coalesced, parts>>

-----------------------------------------------------------------------------
(* apply_ranges *)

\* get_range_offset_and_length.
OffsetAndLength(r) == <<r[1], r[2] - r[1] + 1>>

\* One part is the body, several are a multipart/byteranges body.
Apply ==
  /\ stage = "apply"
  /\ parts' = [i \in DOMAIN ranges |-> OffsetAndLength(ranges[i])]
  /\ stage' = "206"
  /\ UNCHANGED <<asked, size, ranges, next, overlaps, coalesced>>

RangesNext ==
  \/ Parse \/ TooMany \/ CheckOne \/ Checked
  \/ Sort \/ CoalesceOne \/ Coalesced \/ Apply

RangesSpec == RangesInit /\ [][RangesNext]_rangeVars

-----------------------------------------------------------------------------
(* Properties *)

RangesTypeOK ==
  /\ asked \in Headers
  /\ size \in Lengths
  /\ stage \in {"parse", "check", "sort", "coalesce", "apply", "206", "416"}
  /\ ranges \in Seq(Int \X Int) /\ coalesced \in Seq(Int \X Int)
  /\ parts \in Seq(Int \X Int)
  /\ next \in Nat \ {0} /\ overlaps \in 0 .. 2

\* Every part lies inside the body: the assertions of
\* get_range_offset_and_length (httplib.h:5912) and of apply_ranges hold, and
\* substr is never asked for more than there is.
PartsFit ==
  \A i \in DOMAIN parts :
    /\ parts[i][1] >= 0 /\ parts[i][2] > 0
    /\ parts[i][1] + parts[i][2] <= size

\* What a range as written asks for of a body of this size.
Wanted(r) ==
  { b \in 0 .. size - 1 :
      IF r[1] = -1 THEN b >= size - r[2]
      ELSE b >= r[1] /\ (r[2] = -1 \/ b <= r[2]) }

\* The parts hold the bytes that were asked for, all of them and no others,
\* however the ranges overlap, touch, repeat and are ordered.
ServedAsAsked ==
  stage = "206" =>
    UNION { Wanted(asked[i]) : i \in DOMAIN asked }
      = UNION { parts[i][1] .. parts[i][1] + parts[i][2] - 1 : i \in DOMAIN parts }

\* The parts are in the order of the body, and a byte is sent twice only in
\* ranges that begin alike.
PartsInOrder ==
  \A i, j \in DOMAIN parts :
    i < j => \/ parts[i][1] + parts[i][2] < parts[j][1]
             \/ parts[i][1] = parts[j][1] /\ parts[i][2] <= parts[j][2]

\* Ranges that can be served, do not overlap and are not too many are served.
RefusedForAReason ==
  stage = "416" =>
    \/ Len(asked) > MaxRanges
    \/ \E i \in DOMAIN asked :
         \/ Malformed(asked[i])
         \/ Wanted(asked[i]) = {}
         \/ asked[i][1] = -1 /\ asked[i][2] > size
    \/ \E i, j \in DOMAIN asked :
         i # j /\ Wanted(asked[i]) \cap Wanted(asked[j]) # {}
=============================================================================
