--------------------------- MODULE NumberingProofs ---------------------------
(***************************************************************************)
(* What the number generator returns, for every padding and every table    *)
(* whose numbers have no gap.                                              *)
(***************************************************************************)
EXTENDS Numbering, TLAPS

\* The last number, in the order of strings, is the largest one the padding
\* holds: the number with one digit more is never the last of a table that also
\* has its predecessor (orderBy bookingNumber 'desc').
LEMMA LastFitsPadding ==
    ASSUME NEW numbers \in SUBSET DailyNumbers, WithoutGaps(numbers),
           NEW last, IsLast(last, numbers)
    PROVE  last \in 1 .. SeqLimit
<1>1. last \in 1 .. Overflow
  BY DEF IsLast, DailyNumbers
<1>2. SUFFICES ASSUME last = Overflow PROVE FALSE
  BY <1>1, SeqLimitAssumption DEF Overflow
<1>3. SeqLimit \in numbers
  BY <1>2, SeqLimitAssumption DEF WithoutGaps, IsLast, Overflow
<1>4. Leading(last) < Leading(SeqLimit)
  BY <1>2, SeqLimitAssumption DEF Leading, Overflow
<1> QED
  BY <1>3, <1>4 DEF IsLast, Precedes

\* The generator returns a number of the day all of whose predecessors are in
\* use (generateBookingNumber and generatePaymentNumber).
THEOREM NextNumberHasPredecessors ==
    ASSUME NEW numbers \in SUBSET DailyNumbers, WithoutGaps(numbers),
           NEW n, IsNextNumber(n, numbers)
    PROVE  /\ n \in DailyNumbers
           /\ \A m \in 1 .. (n - 1) : m \in numbers
<1>1. CASE numbers = {} /\ n = 1
  BY <1>1, SeqLimitAssumption DEF DailyNumbers, Overflow
<1>2. ASSUME NEW last \in numbers, IsLast(last, numbers), n = LastDigits(last) + 1
      PROVE  /\ n \in DailyNumbers
             /\ \A m \in 1 .. (n - 1) : m \in numbers
  <2>1. last \in 1 .. SeqLimit
    BY <1>2, LastFitsPadding
  <2>2. n = last + 1
    BY <1>2, <2>1 DEF LastDigits
  <2>3. n \in DailyNumbers
    BY <2>1, <2>2, SeqLimitAssumption DEF DailyNumbers, Overflow
  <2>4. \A m \in 1 .. last : m \in numbers
    BY DEF WithoutGaps
  <2> QED
    BY <2>1, <2>2, <2>3, <2>4, SeqLimitAssumption
<1> QED
  BY <1>1, <1>2 DEF IsNextNumber

\* Adding a new number whose predecessors are in use leaves no gap (the insert
\* that passed the unique constraint).
LEMMA AddedNumberLeavesNoGap ==
    ASSUME NEW numbers \in SUBSET DailyNumbers, WithoutGaps(numbers),
           NEW n \in DailyNumbers, \A m \in 1 .. (n - 1) : m \in numbers
    PROVE  WithoutGaps(numbers \cup {n})
<1>1. \A m \in 1 .. n : m = n \/ m \in 1 .. (n - 1)
  BY SeqLimitAssumption DEF DailyNumbers, Overflow
<1> QED
  BY <1>1 DEF WithoutGaps
=============================================================================
