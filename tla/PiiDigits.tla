------------------------------ MODULE PiiDigits ------------------------------
(***************************************************************************)
(* The checksums of shared/src/pii: validateLuhn in luhn.ts, and           *)
(* validateVerhoeff and generateVerhoeffCheckDigit in verhoeff.ts.         *)
(*                                                                         *)
(* The three loops read a number from its last digit to its first.  Here   *)
(* they run side by side over two numbers: the one that was meant, and the *)
(* one that was typed, which has at most one slip: a wrong digit, or two   *)
(* neighbours swapped.  The tables repeat every eight digits and the sums  *)
(* are taken modulo 10, so the states of all lengths are few.              *)
(***************************************************************************)
EXTENDS Integers

CONSTANT MaxLength   \* bound on the digits of a number

ASSUME MaxLengthAssumption == MaxLength \in Nat

VARIABLES
  scheme,     \* which of the two checksums is run
  length,     \* how many digits were read
  sum,        \* c or sum % 10, over the digits meant
  typed,      \* the same over the digits typed
  slip,       \* history: how they differ
  key,        \* the last digit, the one that is meant to check the others
  generated   \* c of generateVerhoeffCheckDigit, over all digits but the last

digitsVars == <<scheme, length, sum, typed, slip, key, generated>>

-----------------------------------------------------------------------------
Digit == 0..9

(* The multiplication table d: that of the dihedral group, written out.      *)
d == [a \in Digit |-> [b \in Digit |->
       CASE a < 5 /\ b < 5   -> (a + b) % 5
         [] a < 5 /\ b >= 5  -> 5 + ((a + b) % 5)
         [] a >= 5 /\ b < 5  -> 5 + ((a - b) % 5)
         [] a >= 5 /\ b >= 5 -> (5 + a - b) % 5]]

(* The permutation table p, row by row. *)
PRows == <<<<0, 1, 2, 3, 4, 5, 6, 7, 8, 9>>, <<1, 5, 7, 6, 2, 8, 3, 0, 9, 4>>,
           <<5, 8, 0, 3, 7, 9, 6, 1, 4, 2>>, <<8, 9, 1, 6, 0, 4, 3, 5, 2, 7>>,
           <<9, 4, 5, 3, 1, 2, 6, 8, 7, 0>>, <<4, 2, 8, 6, 5, 7, 3, 9, 0, 1>>,
           <<2, 7, 9, 3, 8, 0, 6, 4, 1, 5>>, <<7, 0, 4, 6, 9, 1, 3, 2, 5, 8>>>>

(* The permutation of a checksum that weighs all places alike. *)
Unpermuted(i, x) == x

p(i, x) == PRows[(i % 8) + 1][x + 1]

inv == <<0, 4, 3, 2, 1, 5, 6, 7, 8, 9>>
Inverted(c) == inv[c + 1]

(* The doubling of a checksum that does not cast out nines. *)
DoubledOnly(i, x) == IF i % 2 = 0 THEN x ELSE 2 * x

(* Every second digit is doubled; 9 is taken from what exceeds 9. *)
Doubled(i, x) == IF i % 2 = 0 THEN x ELSE IF 2 * x > 9 THEN 2 * x - 9 ELSE 2 * x

(* One round of either validation, at digit i from the right. *)
Fed(c, i, x) == IF scheme = "VERHOEFF" THEN d[c][p(i, x)] ELSE (c + Doubled(i, x)) % 10

(* The round of the generator at the permutation of the validation. *)
GeneratedUnshifted(c, i, x) == d[c][p(i, x)]

(* One round of the generator, at digit i of the number without its check. *)
GeneratedWith(c, i, x) == d[c][p(i + 1, x)]

(* generateVerhoeffCheckDigit over what was read. *)
CheckDigit == Inverted(generated)

(* The two results over what was read, with sum c. *)
Validates(c) ==
  /\ c = 0
  /\ IF scheme = "VERHOEFF" THEN length > 0 ELSE length \in 2..19

-----------------------------------------------------------------------------
DigitsInit ==
  /\ scheme \in {"VERHOEFF", "LUHN"}
  /\ length = 0
  /\ sum = 0
  /\ typed = 0
  /\ slip = "NONE"
  /\ key = 0
  /\ generated = 0

(* The number goes on with x, and y was typed for it. *)
Read(x, y) ==
  /\ length < MaxLength
  /\ length' = length + 1
  /\ sum' = Fed(sum, length, x)
  /\ typed' = Fed(typed, length, y)
  /\ key' = IF length = 0 THEN x ELSE key
  /\ generated' = IF length = 0 THEN 0 ELSE GeneratedWith(generated, length - 1, x)
  /\ UNCHANGED scheme

ReadDigit(x) == Read(x, x) /\ UNCHANGED slip

MistypedDigit(x, y) ==
  /\ slip = "NONE" /\ x # y
  /\ Read(x, y)
  /\ slip' = "DIGIT"

(* x and, left of it, y were typed in the other order. *)
SwappedDigits(x, y) ==
  /\ slip = "NONE" /\ x # y
  /\ length + 1 < MaxLength
  /\ length' = length + 2
  /\ sum' = Fed(Fed(sum, length, x), length + 1, y)
  /\ typed' = Fed(Fed(typed, length, y), length + 1, x)
  /\ slip' = IF {x, y} = {0, 9} THEN "SWAP_09" ELSE "SWAP"
  /\ key' = IF length = 0 THEN x ELSE key
  /\ generated' = LET c == IF length = 0 THEN 0
                           ELSE GeneratedWith(generated, length - 1, x)
                  IN  GeneratedWith(c, length, y)
  /\ UNCHANGED scheme

DigitsNext ==
  \/ \E x \in Digit : ReadDigit(x)
  \/ \E x, y \in Digit : MistypedDigit(x, y)
  \/ \E x, y \in Digit : SwappedDigits(x, y)

-----------------------------------------------------------------------------
(* Properties.                                                             *)

(* A number validates exactly if its last digit is the one that              *)
(* generateVerhoeffCheckDigit makes of the others: two loops over shifted    *)
(* permutations, joined only by the tables d, p and inv.                     *)
GeneratedValidates ==
  scheme = "VERHOEFF" /\ length > 0 => (Validates(sum) <=> key = CheckDigit)

(* No wrong digit and no swap of neighbours makes one valid Aadhaar number of *)
(* another, or one valid card number of another, at whatever place it         *)
(* happens: except that Luhn is blind to 09 for 90.                           *)
SlipsAreNoticed ==
  slip # "NONE" /\ ~(scheme = "LUHN" /\ slip = "SWAP_09") =>
    ~(Validates(sum) /\ Validates(typed))
=============================================================================
