------------------------------ MODULE Numbering ------------------------------
(***************************************************************************)
(* Daily sequence numbers, as generateBookingNumber of the booking service *)
(* and generatePaymentNumber of the payment service produce them.          *)
(*                                                                         *)
(* A number is a date prefix followed by a sequence padded to four digits. *)
(* The prefix of one day is fixed here, so a number is its sequence, an    *)
(* integer; SeqLimit is the largest sequence that fits the padding, 9999   *)
(* in the code.  padStart does not shorten: the sequence after SeqLimit is *)
(* written with a fifth digit, sorts as a string below SeqLimit, and       *)
(* slice(-4) reads it back without its leading digit.                      *)
(***************************************************************************)
EXTENDS Integers

CONSTANT SeqLimit

ASSUME SeqLimitAssumption == SeqLimit \in Nat /\ SeqLimit >= 1

\* The one number past the padding.
Overflow == SeqLimit + 1

DailyNumbers == 1 .. Overflow

\* The first digits of a number, as many as the padding has.
Leading(n) == IF n <= SeqLimit THEN n ELSE n \div 10

\* The order of the numbers as strings (orderBy ... 'desc' reverses it).
Precedes(m, n) == \/ Leading(m) < Leading(n)
                  \/ Leading(m) = Leading(n) /\ m < n

\* parseInt(number.slice(-4)).
LastDigits(n) == IF n <= SeqLimit THEN n ELSE n - Overflow

\* findFirst under the prefix, ordered by the number, descending.
IsLast(last, numbers) == /\ last \in numbers
                         /\ \A n \in numbers : ~ Precedes(last, n)

\* n is what the generator returns when the table holds these numbers.
IsNextNumber(n, numbers) ==
    \/ numbers = {} /\ n = 1
    \/ \E last \in numbers : IsLast(last, numbers) /\ n = LastDigits(last) + 1

\* The numbers in use are 1, 2, ... without a gap.
WithoutGaps(numbers) == \A n \in numbers : \A m \in 1 .. n : m \in numbers
=============================================================================
