------------------------------ MODULE PiiColumn ------------------------------
(***************************************************************************)
(* The classifiers of shared/src/pii/classifiers.ts: what one value is     *)
(* taken for, and what a column is reported as once its samples were gone  *)
(* through one by one.                                                     *)
(*                                                                         *)
(* A value is what the regular expressions and checksums can tell of it:   *)
(* its shape, which they keep apart, and for a number its digits, whether  *)
(* each checksum holds and whether it reads as an Indian phone number.     *)
(***************************************************************************)
EXTENDS Integers, Sequences, SequencesExt

CONSTANTS
  Values,      \* the values a column may hold
  ColumnTypes, \* what column names may suggest, "NONE" included
  MaxSamples   \* bound on the samples of a column

VARIABLES
  suggested,   \* what classifyByColumnName makes of the name
  sampled,     \* how many samples were gone through
  counts,      \* how many were taken for each type
  firstValue,  \* the first sample
  firstMatch   \* the first one that was taken for some type

columnVars == <<suggested, sampled, counts, firstValue, firstMatch>>

-----------------------------------------------------------------------------
(* One value.                                                              *)

PiiTypes == <<"AADHAAR", "PAN", "PHONE", "EMAIL", "CREDIT_CARD", "UPI_ID", "NAME",
              "ADDRESS", "BANK_ACCOUNT">>
PiiType == ToSet(PiiTypes) \cup {"UNKNOWN"}

(* "provider" is a UPI handle that has the name of a mail provider in it;     *)
(* "address" is any other text with a single @ that is no valid e-mail and no *)
(* UPI handle.  `user' counts the characters before that @.                   *)
Value == [shape : {"email", "address", "pan", "number", "upi", "provider", "text"},
          size : Nat, user : Nat, verhoeff : BOOLEAN, luhn : BOOLEAN, indian : BOOLEAN]

(* split('@') leaves two parts. *)
OneAt(v) == v.shape \in {"email", "address", "upi", "provider"}

ASSUME ColumnAssumption ==
  /\ Values \subseteq Value /\ MaxSamples \in Nat
  /\ \A v \in Values : OneAt(v) => v.user < v.size

NoValue == [shape |-> "none", size |-> 0, user |-> 0,
            verhoeff |-> FALSE, luhn |-> FALSE, indian |-> FALSE]

(* The tests of classifySingleValue, in its order.  Spaces and dashes do not *)
(* count; a leading + leaves only the test for a phone number.  The last      *)
(* test of a UPI handle never fails: UPI_ID admits no dot after the @.        *)
Rules(v) ==
  <<[type |-> "EMAIL",       holds |-> v.shape = "email"],
    [type |-> "PAN",         holds |-> v.shape = "pan"],
    [type |-> "AADHAAR",     holds |-> v.shape = "number" /\ v.size = 12 /\ v.verhoeff],
    [type |-> "CREDIT_CARD", holds |-> v.shape = "number" /\ v.size \in 13..19 /\ v.luhn],
    [type |-> "PHONE",       holds |-> v.indian],
    [type |-> "UPI_ID",      holds |-> v.shape = "upi"]>>

classifySingleValue(v) ==
  LET hold == {i \in DOMAIN Rules(v) : Rules(v)[i].holds}
  IN  IF hold = {} THEN "UNKNOWN" ELSE Rules(v)[Min(hold)].type

LesserOf(m, n) == IF m < n THEN m ELSE n

(* Of what is before the @ the first and the last character are shown, of two *)
(* and of a single one the first; the @ and what is behind it are shown, too. *)
SplitMask(v) ==
  [shown |-> LesserOf(v.user, IF v.user > 2 THEN 2 ELSE 1) + (v.size - v.user), of |-> v.size]

(* A mask that leaves two characters at either end of any value. *)
MaskedEnds(v, type) ==
  IF type = "EMAIL" /\ OneAt(v) THEN SplitMask(v)
  ELSE [shown |-> IF v.size <= 4 THEN 0 ELSE 4, of |-> v.size]

(* maskSensitiveValue: how many characters of v it shows, and of how many.    *)
Masked(v, type) ==
  IF type = "EMAIL" /\ OneAt(v) THEN SplitMask(v)
  ELSE [shown |-> IF v.size <= 4 THEN 0 ELSE 2 * LesserOf(2, v.size \div 4), of |-> v.size]

-----------------------------------------------------------------------------
(* A column.                                                               *)

(* In the pass over the counts only more displaces the best so far. *)
Displaces(n, best) == n > best.count

(* The type with the most matches, UNKNOWN if no sample matched. *)
dominant ==
  LET best[i \in 0..Len(PiiTypes)] ==
        IF i = 0 THEN [type |-> "UNKNOWN", count |-> 0]
        ELSE LET sofar == best[i - 1]
                 n == counts[PiiTypes[i]]
             IN  IF Displaces(n, sofar) THEN [type |-> PiiTypes[i], count |-> n] ELSE sofar
  IN  best[Len(PiiTypes)]

(* Math.min(1.0, confidence + 0.15), in units of 1/100 of 1/n. *)
Boosted(c, boost) == LesserOf(100 * sampled, c + boost)

(* The integers nearest to n / m.  The double arithmetic of the code rounds   *)
(* an exact half now up, now down.                                            *)
Nearest(n, m) == {k \in 0..100 : -m <= 2 * (n - k * m) /\ 2 * (n - k * m) <= m}

(* What confidence * 100 is before it is rounded, times the samples. *)
Unrounded(best) ==
  IF suggested = best.type THEN Boosted(90 * best.count, 15 * sampled) ELSE 90 * best.count

(* A confidence that is cut off instead of rounded. *)
ConfidenceCut(best) == {Unrounded(best) \div sampled}

(* Math.round(confidence * 100). *)
Confidence(best) == Nearest(Unrounded(best), sampled)

(* What a column without samples, or without a match, is reported as. *)
ByName(c) ==
  {[piiType |-> IF suggested = "NONE" THEN "UNKNOWN" ELSE suggested,
    confidence |-> IF suggested = "NONE" THEN 0 ELSE c, matchCount |-> 0]}

ByValues(best) ==
  {[piiType |-> best.type, confidence |-> c, matchCount |-> best.count] : c \in Confidence(best)}

(* classifyColumnSample, confidence in hundredths: one report, or two where   *)
(* the confidence is half way between two.                                    *)
ColumnReports ==
  IF sampled = 0 THEN ByName(60)
  ELSE LET best == dominant
       IN  IF best.count > 0 THEN ByValues(best) ELSE ByName(65)

(* sampleMasked: the first match, masked as what it is, whatever the column   *)
(* is reported as; failing that the first sample, masked as what the name     *)
(* suggests.                                                                  *)
Previewed == IF firstMatch # NoValue THEN firstMatch ELSE firstValue

Preview ==
  IF firstMatch # NoValue THEN Masked(firstMatch, classifySingleValue(firstMatch))
  ELSE IF suggested # "NONE" /\ sampled > 0 THEN Masked(firstValue, suggested)
  ELSE [shown |-> 0, of |-> 0]

ColumnInit ==
  /\ suggested \in ColumnTypes
  /\ sampled = 0
  /\ counts = [t \in PiiType |-> 0]
  /\ firstValue = NoValue
  /\ firstMatch = NoValue

(* The loop of classifyColumnSample at its next sample. *)
ClassifySample(v) ==
  /\ sampled < MaxSamples
  /\ sampled' = sampled + 1
  /\ counts' = [counts EXCEPT ![classifySingleValue(v)] = @ + 1]
  /\ firstValue' = IF sampled = 0 THEN v ELSE firstValue
  /\ firstMatch' = IF firstMatch = NoValue /\ classifySingleValue(v) # "UNKNOWN" THEN v
                   ELSE firstMatch
  /\ UNCHANGED suggested

ColumnNext == \E v \in Values : ClassifySample(v)

-----------------------------------------------------------------------------
(* Properties.                                                             *)

(* The values outvote the name, and the report is sane: its type is the one   *)
(* most of the matching samples have, the first of PiiTypes among equals, or  *)
(* what the name suggests if none matched.  It is neither surer than sure nor, *)
(* once it names a type, not sure at all, except where the name does not      *)
(* suggest the type and at most one sample of 180 matched.                    *)
ReportIsJustified ==
  LET Rank(t) == CHOOSE i \in DOMAIN PiiTypes : PiiTypes[i] = t
      found == {t \in ToSet(PiiTypes) : counts[t] > 0}
  IN  /\ ColumnReports # {}
      /\ \A r \in ColumnReports :
        /\ IF found = {} THEN r.piiType = (IF suggested = "NONE" THEN "UNKNOWN" ELSE suggested)
           ELSE r.piiType = CHOOSE t \in found :
                  \A u \in found : counts[u] < counts[t]
                                      \/ (counts[u] = counts[t] /\ Rank(t) <= Rank(u))
        /\ r.confidence \in 0..100
        /\ r.confidence = 0 /\ r.piiType # "UNKNOWN" =>
             r.piiType # suggested /\ 0 < r.matchCount /\ 180 * r.matchCount <= sampled

(* What leaves the zone as a preview shows at most four characters and hides  *)
(* as many or more.  Only of a value with an @ that is an e-mail, or is in a  *)
(* column whose name promises e-mails, it shows what is behind the @ as well, *)
(* and then it hides all before the @ but two characters, and some of it      *)
(* unless there is but one.                                                   *)
PreviewHides ==
  LET m == Preview
      v == Previewed
      hidden == m.of - m.shown
  IN  \/ m.shown <= 4 /\ m.shown <= hidden
      \/ /\ OneAt(v) /\ "EMAIL" \in {suggested, classifySingleValue(v)}
         /\ hidden >= v.user - 2
         /\ hidden > 0 \/ v.user <= 1

(* README.md:56 says of e-mails and the rest that they never leave the        *)
(* enterprise, and line 57 that previews are masked: no preview shows all of  *)
(* what it masks.                                                             *)
PreviewIsPartial == Preview.of > 0 => Preview.shown < Preview.of
=============================================================================
