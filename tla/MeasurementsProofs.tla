------------------------- MODULE MeasurementsProofs -------------------------
(***************************************************************************)
(* Of any number of shutters, runs and answers, and whatever was lost      *)
(* between the rows and the file: a restart changes nothing that the house *)
(* goes by, which is a median of the last runs that count and is not moved *)
(* by one of them, and a curve goes as the answers say that it has not     *)
(* followed yet.                                                           *)
(***************************************************************************)
EXTENDS Measurements, FiniteSetTheorems, SequenceTheorems, NaturalsInduction, TLAPS

\* What the file says of a key, if anything.
Kept(k) == IF k \in DOMAIN file THEN file[k] ELSE [travel |-> {}, curve |-> 0]

\* The file has one travel time for a key, or none.
OneTravel ==
  \A k \in DOMAIN file : file[k].travel = {} \/ \E value : file[k].travel = {value}

\* A curve in the file is the sum of the answers that it followed last.
Summed == \A k \in Keys : Kept(k).curve = Clamp(told[k])

IInv == RestartChangesNothing /\ OneTravel /\ Summed

-----------------------------------------------------------------------------
(* The runs that count.                                                    *)

LEMMA LeastNatural ==
  ASSUME NEW S \in SUBSET Nat, S # {}
  PROVE  \E x \in S : \A y \in S : x <= y
<1>1. \E x \in S : \A y \in S : ~ (<<y, x>> \in OpToRel(<, Nat))
  BY NatLessThanWellFounded, WFMin
<1>2. PICK x \in S : \A y \in S : ~ (<<y, x>> \in OpToRel(<, Nat))
  BY <1>1
<1>3. \A y \in S : ~(y < x)
  BY <1>2 DEF OpToRel
<1>4. QED
  BY <1>3

\* valid is what Valid makes of the first n runs of a list, and of the first of those.
Collects(valid, list, n) ==
  valid = [i \in 0..n |->
             IF i = 0 THEN <<>>
             ELSE IF list[i] = Rejected THEN valid[i - 1] ELSE Append(valid[i - 1], list[i])]

LEMMA CollectsStep ==
  ASSUME NEW valid, NEW list, NEW n \in Nat, Collects(valid, list, n)
  PROVE  /\ DOMAIN valid = 0..n /\ valid[0] = <<>>
         /\ \A i \in 1..n : valid[i] = IF list[i] = Rejected THEN valid[i - 1]
                                       ELSE Append(valid[i - 1], list[i])
<1> DEFINE next(i) == IF i = 0 THEN <<>>
                      ELSE IF list[i] = Rejected THEN valid[i - 1]
                           ELSE Append(valid[i - 1], list[i])
<1>1. valid = [i \in 0..n |-> next(i)]
  BY DEF Collects
<1> HIDE DEF next
<1>2. DOMAIN valid = 0..n /\ \A i \in 0..n : valid[i] = next(i)
  BY <1>1
<1>3. 0 \in 0..n /\ \A i \in 1..n : i \in 0..n /\ i # 0
  OBVIOUS
<1>4. valid[0] = <<>>
  BY <1>2, <1>3 DEF next
<1>5. ASSUME NEW i \in 1..n
      PROVE  valid[i] = IF list[i] = Rejected THEN valid[i - 1]
                        ELSE Append(valid[i - 1], list[i])
  <2>1. i \in 0..n /\ i # 0
    BY <1>3
  <2>2. valid[i] = next(i)
    BY <1>2, <2>1
  <2>3. QED
    BY <2>1, <2>2, Zenon DEF next
<1>6. QED
  BY <1>2, <1>4, <1>5

LEMMA CollectsExists ==
  ASSUME NEW list, NEW n \in Nat
  PROVE  \E valid : Collects(valid, list, n)
<1> DEFINE S == {m \in Nat : ~\E valid : Collects(valid, list, m)}
<1>1. SUFFICES ASSUME S # {}
               PROVE  FALSE
  OBVIOUS
<1>2. PICK m \in S : \A y \in S : m <= y
  BY <1>1, LeastNatural
<1>3. CASE m = 0
  <2>1. Collects([i \in 0..0 |-> <<>>], list, 0)
    BY DEF Collects
  <2>2. QED
    BY <1>2, <1>3, <2>1
<1>4. CASE m # 0
  <2>1. m - 1 \in Nat /\ m - 1 \notin S
    BY <1>2, <1>4
  <2>2. PICK before : Collects(before, list, m - 1)
    BY <2>1
  <2> DEFINE last == IF list[m] = Rejected THEN before[m - 1]
                     ELSE Append(before[m - 1], list[m])
             valid == [i \in 0..m |-> IF i = m THEN last ELSE before[i]]
  <2>3. /\ before[0] = <<>>
        /\ \A i \in 1..(m - 1) : before[i] = IF list[i] = Rejected THEN before[i - 1]
                                             ELSE Append(before[i - 1], list[i])
    BY <2>1, <2>2, CollectsStep
  <2> HIDE DEF last
  <2>4. valid[0] = <<>> /\ valid[m] = last /\ \A i \in 0..(m - 1) : valid[i] = before[i]
    BY <1>4, <2>1, <2>3
  <2>5. ASSUME NEW i \in 0..m
        PROVE  valid[i] = IF i = 0 THEN <<>>
                          ELSE IF list[i] = Rejected THEN valid[i - 1]
                               ELSE Append(valid[i - 1], list[i])
    <3>1. CASE i = 0
      BY <2>4, <3>1
    <3>2. CASE i = m
      <4>1. valid[i] = last /\ valid[i - 1] = before[i - 1] /\ i # 0
        BY <1>4, <2>1, <2>4, <3>2
      <4> HIDE DEF valid
      <4>2. QED
        BY <3>2, <4>1 DEF last
    <3>3. CASE i # 0 /\ i # m
      <4>1. i \in 1..(m - 1) /\ i - 1 \in 0..(m - 1) /\ i \in 0..(m - 1)
        BY <2>1, <3>3
      <4>2. valid[i] = before[i] /\ valid[i - 1] = before[i - 1]
        BY <2>4, <4>1
      <4> HIDE DEF valid
      <4>3. QED
        BY <2>3, <3>3, <4>1, <4>2
    <3>4. QED
      BY <3>1, <3>2, <3>3
  <2>6. valid = [i \in 0..m |-> valid[i]]
    OBVIOUS
  <2> HIDE DEF valid
  <2>7. Collects(valid, list, m)
    BY <2>5, <2>6 DEF Collects
  <2>8. QED
    BY <1>2, <2>7
<1>5. QED
  BY <1>3, <1>4

\* What is made of the first runs does not depend on those behind them.
LEMMA CollectsSame ==
  ASSUME NEW list, NEW n \in Nat, NEW valid, Collects(valid, list, n),
         NEW longer, NEW m \in Nat, NEW more, Collects(more, longer, m),
         n <= m, \A i \in 1..n : longer[i] = list[i]
  PROVE  \A i \in 0..n : more[i] = valid[i]
<1> DEFINE S == {i \in 0..n : more[i] # valid[i]}
<1>1. SUFFICES ASSUME S # {}
               PROVE  FALSE
  OBVIOUS
<1>2. S \in SUBSET Nat
  OBVIOUS
<1>3. PICK i \in S : \A j \in S : i <= j
  BY <1>1, <1>2, LeastNatural
<1>4. i # 0
  BY CollectsStep
<1>5. i \in 1..n /\ i \in 1..m /\ i - 1 \in 0..n /\ i - 1 \notin S
  BY <1>3, <1>4
<1>6. more[i - 1] = valid[i - 1] /\ longer[i] = list[i]
  BY <1>5
<1>7. /\ valid[i] = IF list[i] = Rejected THEN valid[i - 1] ELSE Append(valid[i - 1], list[i])
      /\ more[i] = IF longer[i] = Rejected THEN more[i - 1] ELSE Append(more[i - 1], longer[i])
  BY <1>5, CollectsStep
<1>8. QED
  BY <1>6, <1>7

LEMMA ValidCollects ==
  ASSUME NEW list, Len(list) \in Nat
  PROVE  \E valid : Collects(valid, list, Len(list)) /\ Valid(list) = valid[Len(list)]
<1> DEFINE valid == CHOOSE valid : Collects(valid, list, Len(list))
<1>1. Collects(valid, list, Len(list))
  BY CollectsExists
<1>2. Valid(list) = valid[Len(list)]
  BY DEF Valid, Collects
<1>3. QED
  BY <1>1, <1>2

\* Of nothing nothing counts.
LEMMA ValidOfNone == Valid(<<>>) = <<>>
<1>1. Len(<<>>) = 0
  OBVIOUS
<1>2. PICK valid : Collects(valid, <<>>, 0) /\ Valid(<<>>) = valid[0]
  BY <1>1, ValidCollects
<1>3. QED
  BY <1>2, CollectsStep

\* A run that counts comes behind those before it, and any other changes nothing.
LEMMA ValidOfMore ==
  ASSUME NEW T, NEW list \in Seq(T), NEW run \in T
  PROVE  Valid(Append(list, run)) =
           IF run = Rejected THEN Valid(list) ELSE Append(Valid(list), run)
<1> DEFINE n == Len(list)
           longer == Append(list, run)
<1>1. /\ n \in Nat /\ Len(longer) = n + 1 /\ longer[n + 1] = run
      /\ \A i \in 1..n : longer[i] = list[i]
  BY AppendProperties
<1>2. PICK valid : Collects(valid, list, n) /\ Valid(list) = valid[n]
  BY <1>1, ValidCollects
<1> HIDE DEF longer, n
<1>3. PICK more : Collects(more, longer, n + 1) /\ Valid(longer) = more[n + 1]
  <2>1. Len(longer) \in Nat
    BY <1>1
  <2>2. QED
    BY <1>1, <2>1, ValidCollects
<1>4. n \in Nat /\ n + 1 \in Nat /\ n <= n + 1 /\ n \in 0..n /\ n + 1 \in 1..(n + 1)
  BY <1>1
<1>5. more[n] = valid[n]
  BY <1>1, <1>2, <1>3, <1>4, CollectsSame
<1>6. more[n + 1] = IF longer[n + 1] = Rejected THEN more[(n + 1) - 1]
                    ELSE Append(more[(n + 1) - 1], longer[n + 1])
  BY <1>3, <1>4, CollectsStep
<1>7. (n + 1) - 1 = n
  BY <1>4
<1>8. QED
  BY <1>1, <1>2, <1>3, <1>5, <1>6, <1>7 DEF longer

\* Those that count took some time each.
LEMMA ValidIsAList ==
  ASSUME NEW list \in Seq(Totals \cup {Rejected})
  PROVE  Valid(list) \in Seq(Totals)
<1>1. Len(list) \in Nat /\ \A i \in 1..Len(list) : list[i] \in Totals \cup {Rejected}
  BY ElementOfSeq, LenProperties
<1>2. PICK valid : Collects(valid, list, Len(list)) /\ Valid(list) = valid[Len(list)]
  BY <1>1, ValidCollects
<1> DEFINE S == {i \in 0..Len(list) : valid[i] \notin Seq(Totals)}
<1>3. ASSUME S # {}
      PROVE  FALSE
  <2>1. S \in SUBSET Nat
    BY <1>1
  <2>2. PICK i \in S : \A j \in S : i <= j
    BY <1>3, <2>1, LeastNatural
  <2>3. valid[0] \in Seq(Totals)
    BY <1>1, <1>2, CollectsStep, EmptySeq
  <2>4. i \in 1..Len(list) /\ i - 1 \in 0..Len(list) /\ i - 1 \notin S
    BY <1>1, <2>1, <2>2, <2>3
  <2>5. valid[i - 1] \in Seq(Totals)
    BY <2>4
  <2>6. valid[i] = IF list[i] = Rejected THEN valid[i - 1] ELSE Append(valid[i - 1], list[i])
    BY <1>1, <1>2, <2>4, CollectsStep
  <2>7. list[i] \in Totals \/ list[i] = Rejected
    BY <1>1, <2>4
  <2>8. valid[i] \in Seq(Totals)
    BY <2>5, <2>6, <2>7, AppendProperties
  <2>9. QED
    BY <2>2, <2>8
<1>4. Len(list) \in 0..Len(list)
  BY <1>1
<1>5. QED
  BY <1>2, <1>3, <1>4

-----------------------------------------------------------------------------
(* Their median.                                                           *)

Shorter(list, i) == {j \in DOMAIN list : list[j] < list[i]}
Longer(list, i) == {j \in DOMAIN list : list[j] > list[i]}
Low(list) == {j \in DOMAIN list : 2 * Cardinality(Shorter(list, j)) <= Len(list)}
Middle(list) == {list[i] : i \in {j \in DOMAIN list :
                   /\ 2 * Cardinality(Shorter(list, j)) <= Len(list)
                   /\ 2 * Cardinality(Longer(list, j)) <= Len(list)}}

\* What is counted is some of the runs.
LEMMA SomeOfThem ==
  ASSUME NEW list \in Seq(Nat), NEW S, S \subseteq DOMAIN list
  PROVE  /\ Len(list) \in Nat /\ DOMAIN list = 1..Len(list)
         /\ IsFiniteSet(S) /\ Cardinality(S) \in Nat /\ Cardinality(S) <= Len(list)
<1>1. Len(list) \in Nat /\ DOMAIN list = 1..Len(list)
  BY LenProperties
<1>2. /\ IsFiniteSet(1..Len(list))
      /\ Cardinality(1..Len(list)) = IF 1 > Len(list) THEN 0 ELSE Len(list) - 1 + 1
  BY <1>1, 1 \in Int, Len(list) \in Int, FS_Interval, Zenon
<1>3. Cardinality(1..Len(list)) = Len(list)
  BY <1>1, <1>2
<1>4. QED
  BY <1>1, <1>2, <1>3, FS_Subset, FS_CardinalityType

\* Some run has at most half of them below it.
LEMMA LowIsNotEmpty ==
  ASSUME NEW list \in Seq(Nat), list # <<>>
  PROVE  Low(list) # {}
<1>1. Len(list) \in Nat \ {0} /\ DOMAIN list = 1..Len(list) /\ \A i \in DOMAIN list : list[i] \in Nat
  BY EmptySeq, LenProperties, ElementOfSeq
<1> DEFINE values == {list[i] : i \in DOMAIN list}
<1>2. values \in SUBSET Nat /\ list[1] \in values
  BY <1>1
<1>3. PICK x \in values : \A y \in values : x <= y
  BY <1>2, LeastNatural
<1>4. PICK i \in DOMAIN list : list[i] = x
  BY <1>3
<1>5. Shorter(list, i) = {}
  <2>1. \A j \in DOMAIN list : list[i] <= list[j]
    BY <1>3, <1>4
  <2>2. \A j \in DOMAIN list : ~(list[j] < list[i])
    BY <1>1, <2>1
  <2>3. QED
    BY <2>2 DEF Shorter
<1>6. 2 * Cardinality(Shorter(list, i)) <= Len(list)
  BY <1>1, <1>5, FS_EmptySet
<1>7. QED
  BY <1>6 DEF Low

\* Of those runs one is the longest.
LEMMA HighestOfTheLow ==
  ASSUME NEW list \in Seq(Nat), list # <<>>
  PROVE  \E i \in Low(list) : \A j \in Low(list) : list[j] <= list[i]
<1>1. Len(list) \in Nat /\ DOMAIN list = 1..Len(list) /\ \A i \in DOMAIN list : list[i] \in Nat
  BY LenProperties, ElementOfSeq
<1>2. \A i \in DOMAIN list : /\ IsFiniteSet(Shorter(list, i))
                             /\ Cardinality(Shorter(list, i)) \in Nat
                             /\ Cardinality(Shorter(list, i)) <= Len(list)
  <2>1. ASSUME NEW i \in DOMAIN list
        PROVE  Shorter(list, i) \subseteq DOMAIN list
    BY DEF Shorter
  <2>2. QED
    BY <2>1, SomeOfThem
<1>3. Low(list) # {} /\ Low(list) \subseteq DOMAIN list
  BY LowIsNotEmpty DEF Low
<1> DEFINE S == {Len(list) - Cardinality(Shorter(list, i)) : i \in Low(list)}
<1>4. S \in SUBSET Nat /\ S # {}
  BY <1>1, <1>2, <1>3
<1>5. PICK x \in S : \A y \in S : x <= y
  BY <1>4, LeastNatural
<1>6. PICK i \in Low(list) : x = Len(list) - Cardinality(Shorter(list, i))
  BY <1>5
<1>7. ASSUME NEW j \in Low(list), list[i] < list[j]
      PROVE  FALSE
  <2>1. i \in DOMAIN list /\ j \in DOMAIN list
    BY <1>3
  <2>2. i \notin Shorter(list, i)
    BY <1>1, <2>1 DEF Shorter
  <2>3. Shorter(list, i) \cup {i} \in SUBSET Shorter(list, j)
    BY <1>1, <1>7, <2>1 DEF Shorter
  <2>4. Cardinality(Shorter(list, i) \cup {i}) = Cardinality(Shorter(list, i)) + 1
    BY <1>2, <2>1, <2>2, FS_AddElement
  <2>5. Cardinality(Shorter(list, i) \cup {i}) <= Cardinality(Shorter(list, j))
    BY <1>2, <2>1, <2>3, FS_Subset
  <2>6. x <= Len(list) - Cardinality(Shorter(list, j))
    BY <1>5
  <2>7. QED
    BY <1>1, <1>2, <1>6, <2>1, <2>4, <2>5, <2>6
<1>8. QED
  <2>1. \A j \in Low(list) : list[j] <= list[i]
    BY <1>1, <1>3, <1>7
  <2>2. QED
    BY <2>1

\* That one has at most half of them above it too.
LEMMA HighestIsInTheMiddle ==
  ASSUME NEW list \in Seq(Nat), NEW i \in Low(list),
         \A j \in Low(list) : list[j] <= list[i]
  PROVE  2 * Cardinality(Longer(list, i)) <= Len(list)
<1>1. Len(list) \in Nat /\ DOMAIN list = 1..Len(list) /\ \A k \in DOMAIN list : list[k] \in Nat
  BY LenProperties, ElementOfSeq
<1>2. i \in DOMAIN list
  BY DEF Low
<1>3. /\ Longer(list, i) \subseteq DOMAIN list
      /\ Cardinality(Longer(list, i)) \in Nat
  <2>1. Longer(list, i) \subseteq DOMAIN list
    BY DEF Longer
  <2>2. QED
    BY <2>1, SomeOfThem
<1>4. SUFFICES ASSUME 2 * Cardinality(Longer(list, i)) > Len(list)
               PROVE  FALSE
  BY <1>1, <1>3
<1>5. Longer(list, i) # {}
  <2>1. Cardinality(Longer(list, i)) # 0
    BY <1>1, <1>3, <1>4
  <2>2. QED
    BY <2>1, FS_EmptySet
<1> DEFINE values == {list[j] : j \in Longer(list, i)}
<1>6. values \in SUBSET Nat /\ values # {}
  BY <1>1, <1>3, <1>5
<1>7. PICK x \in values : \A y \in values : x <= y
  BY <1>6, LeastNatural
<1>8. PICK j \in Longer(list, i) : x = list[j]
  BY <1>7
<1>9. j \in DOMAIN list /\ list[j] > list[i]
  BY <1>3 DEF Longer
<1>10. Shorter(list, j) \cap Longer(list, i) = {}
  <2>1. ASSUME NEW k \in Shorter(list, j), k \in Longer(list, i)
        PROVE  FALSE
    <3>1. k \in DOMAIN list /\ list[k] < list[j]
      BY DEF Shorter
    <3>2. list[j] <= list[k]
      BY <1>7, <1>8, <2>1
    <3>3. QED
      BY <1>1, <1>9, <3>1, <3>2
  <2>2. QED
    BY <2>1
<1>11. Shorter(list, j) \subseteq DOMAIN list
  BY DEF Shorter
<1>12. Cardinality(Shorter(list, j)) \in Nat
  BY <1>11, SomeOfThem
<1>13. IsFiniteSet(DOMAIN list) /\ Cardinality(DOMAIN list) <= Len(list)
  BY SomeOfThem
<1>14. ~(Cardinality(Shorter(list, j)) + Cardinality(Longer(list, i)) > Len(list))
  <2>1. ~(Cardinality(Shorter(list, j)) + Cardinality(Longer(list, i))
            > Cardinality(DOMAIN list))
    BY <1>3, <1>10, <1>11, <1>13, FS_MajoritiesIntersect
  <2>2. Cardinality(DOMAIN list) \in Nat
    BY <1>13, FS_CardinalityType
  <2>3. QED
    BY <1>1, <1>3, <1>12, <1>13, <2>1, <2>2
<1>15. 2 * Cardinality(Shorter(list, j)) <= Len(list)
  BY <1>1, <1>3, <1>4, <1>12, <1>14
<1>16. j \in Low(list)
  BY <1>9, <1>15 DEF Low
<1>17. QED
  BY <1>1, <1>2, <1>9, <1>16

\* The two in the middle exist, and neither has more than half beyond it.
LEMMA TwoInTheMiddle ==
  ASSUME NEW list \in Seq(Nat), list # <<>>
  PROVE  \E p, q \in DOMAIN list :
           /\ TwiceMedian(list) = list[p] + list[q] /\ list[p] <= list[q]
           /\ 2 * Cardinality(Longer(list, p)) <= Len(list)
           /\ 2 * Cardinality(Shorter(list, q)) <= Len(list)
<1>1. \A i \in DOMAIN list : list[i] \in Nat
  BY LenProperties, ElementOfSeq
<1> DEFINE middle == Middle(list)
           least == CHOOSE x \in middle : \A y \in middle : x <= y
           most == CHOOSE x \in middle : \A y \in middle : x >= y
<1>2. TwiceMedian(list) = least + most
  BY DEF TwiceMedian, Middle, Shorter, Longer
<1>3. middle \in SUBSET Nat
  BY <1>1 DEF Middle
<1>4. PICK i \in Low(list) : \A j \in Low(list) : list[j] <= list[i]
  BY HighestOfTheLow
<1>5. /\ i \in DOMAIN list /\ 2 * Cardinality(Shorter(list, i)) <= Len(list)
      /\ 2 * Cardinality(Longer(list, i)) <= Len(list)
  BY <1>4, HighestIsInTheMiddle DEF Low
<1>6. list[i] \in middle
  BY <1>5 DEF Middle
<1>7. \A y \in middle : list[i] >= y
  BY <1>1, <1>4, <1>5 DEF Middle, Low
<1>8. least \in middle /\ \A y \in middle : least <= y
  <2>1. \E x \in middle : \A y \in middle : x <= y
    BY <1>3, <1>6, LeastNatural
  <2>2. QED
    BY <2>1
<1>9. most \in middle /\ \A y \in middle : most >= y
  BY <1>6, <1>7
<1>10. least <= most
  BY <1>8, <1>9
<1>11. PICK p \in DOMAIN list : /\ least = list[p]
                                /\ 2 * Cardinality(Longer(list, p)) <= Len(list)
  BY <1>8 DEF Middle
<1>12. PICK q \in DOMAIN list : /\ most = list[q]
                                /\ 2 * Cardinality(Shorter(list, q)) <= Len(list)
  BY <1>9 DEF Middle
<1>13. QED
  BY <1>2, <1>10, <1>11, <1>12

\* What the program takes for the median is one, and takes some time.
LEMMA MedianIsOne ==
  ASSUME NEW list \in Seq(Nat \ {0}), list # <<>>
  PROVE  TwiceMedian(list) \in Nat \ {0} /\ Median(TwiceMedian(list), list)
<1>1. list \in Seq(Nat)
  BY SeqMonotonic
<1>2. \A i \in DOMAIN list : list[i] \in Nat \ {0}
  BY LenProperties, ElementOfSeq
<1>3. PICK p, q \in DOMAIN list :
        /\ TwiceMedian(list) = list[p] + list[q] /\ list[p] <= list[q]
        /\ 2 * Cardinality(Longer(list, p)) <= Len(list)
        /\ 2 * Cardinality(Shorter(list, q)) <= Len(list)
  BY <1>1, TwoInTheMiddle
<1> DEFINE twice == TwiceMedian(list)
           below == {i \in DOMAIN list : 2 * list[i] < twice}
           above == {i \in DOMAIN list : 2 * list[i] > twice}
<1>4. twice \in Nat \ {0}
  BY <1>2, <1>3
<1>5. below \in SUBSET Shorter(list, q) /\ above \in SUBSET Longer(list, p)
  BY <1>2, <1>3 DEF Shorter, Longer
<1>6. Shorter(list, q) \subseteq DOMAIN list /\ Longer(list, p) \subseteq DOMAIN list
  BY DEF Shorter, Longer
<1>7. /\ IsFiniteSet(Shorter(list, q)) /\ IsFiniteSet(Longer(list, p)) /\ Len(list) \in Nat
      /\ Cardinality(Shorter(list, q)) \in Nat /\ Cardinality(Longer(list, p)) \in Nat
  BY <1>1, <1>6, SomeOfThem
<1> HIDE DEF below, above
<1>8. /\ Cardinality(below) \in Nat /\ Cardinality(below) <= Cardinality(Shorter(list, q))
      /\ Cardinality(above) \in Nat /\ Cardinality(above) <= Cardinality(Longer(list, p))
  BY <1>5, <1>7, FS_Subset, FS_CardinalityType
<1>9. 2 * Cardinality(below) <= Len(list) /\ 2 * Cardinality(above) <= Len(list)
  BY <1>3, <1>7, <1>8
<1>10. QED
  BY <1>4, <1>9 DEF Median, below, above

\* The recent ones are those that MeasuredIsRecentMedian speaks of.
LEMMA RecentAreTheLast ==
  ASSUME NEW list \in Seq(Totals \cup {Rejected})
  PROVE  LET valid == Valid(list)
             first == IF Len(valid) > Retain THEN Len(valid) - Retain ELSE 0
             last == [i \in 1..(Len(valid) - first) |-> valid[first + i]]
         IN  /\ Recent(list) = last /\ Recent(list) \in Seq(Totals)
             /\ Len(Recent(list)) = Len(valid) - first
             /\ Recent(list) = <<>> <=> valid = <<>>
<1> DEFINE valid == Valid(list)
           first == IF Len(valid) > Retain THEN Len(valid) - Retain ELSE 0
           last == [i \in 1..(Len(valid) - first) |-> valid[first + i]]
<1>1. Retain \in Nat \ {0}
  BY MeasurementAssumption DEF MeasurementAssumption
<1>2. valid \in Seq(Totals)
  BY ValidIsAList
<1>3. Len(valid) \in Nat /\ \A i \in 1..Len(valid) : valid[i] \in Totals
  BY <1>2, LenProperties, ElementOfSeq
<1>4. Recent(list) = SubSeq(valid, first + 1, Len(valid))
  <2>1. (IF Len(valid) > Retain THEN Len(valid) - Retain + 1 ELSE 1) = first + 1
    BY <1>1, <1>3
  <2> HIDE DEF first, valid
  <2>2. LastOf(valid) = SubSeq(valid, first + 1, Len(valid))
    BY <2>1 DEF LastOf
  <2>3. QED
    BY <2>2 DEF Recent, valid
<1>5. first \in Nat /\ first <= Len(valid) /\ (first = Len(valid) => Len(valid) = 0)
  BY <1>1, <1>3
<1>6. Len(valid) = 0 <=> valid = <<>>
  BY <1>2, EmptySeq
<1> HIDE DEF valid, first
<1>7. \A i \in (first + 1)..Len(valid) : valid[i] \in Totals
  BY <1>3, <1>5
<1>8. /\ Recent(list) \in Seq(Totals)
      /\ Len(Recent(list)) = IF first + 1 <= Len(valid) THEN Len(valid) - (first + 1) + 1 ELSE 0
      /\ \A i \in 1..(Len(valid) - (first + 1) + 1) :
           Recent(list)[i] = valid[(first + 1) + i - 1]
  <2>1. first + 1 \in Int /\ Len(valid) \in Int
    BY <1>3, <1>5
  <2>2. QED
    BY <1>4, <1>7, <2>1, SubSeqProperties
<1>9. Len(Recent(list)) = Len(valid) - first
  BY <1>3, <1>5, <1>8
<1>10. \A i \in 1..(Len(valid) - first) : Recent(list)[i] = valid[first + i]
  BY <1>3, <1>5, <1>8
<1>11. Recent(list) = last
  <2>1. Recent(list) = [i \in 1..Len(Recent(list)) |-> Recent(list)[i]]
    BY <1>8, LenProperties
  <2>2. QED
    BY <1>9, <1>10, <2>1
<1>12. Recent(list) = <<>> <=> valid = <<>>
  BY <1>3, <1>5, <1>6, <1>8, <1>9, EmptySeq
<1>13. QED
  BY <1>8, <1>9, <1>11, <1>12 DEF valid, first

\* As long as there are not more than are retained, all of them are recent.
LEMMA AllAreRecent ==
  ASSUME NEW list \in Seq(Totals \cup {Rejected}), Len(Valid(list)) <= Retain
  PROVE  Recent(list) = Valid(list)
<1> DEFINE valid == Valid(list)
           first == IF Len(valid) > Retain THEN Len(valid) - Retain ELSE 0
           last == [i \in 1..(Len(valid) - first) |-> valid[first + i]]
<1>1. valid \in Seq(Totals) /\ Retain \in Nat
  BY ValidIsAList, MeasurementAssumption DEF MeasurementAssumption
<1>2. Len(valid) \in Nat /\ valid = [i \in 1..Len(valid) |-> valid[i]]
  BY <1>1, LenProperties
<1>3. Recent(list) = last
  BY RecentAreTheLast
<1> HIDE DEF valid
<1>4. first = 0
  BY <1>1, <1>2 DEF valid
<1>5. last = [i \in 1..Len(valid) |-> valid[i]]
  BY <1>2, <1>4
<1>6. QED
  BY <1>2, <1>3, <1>5 DEF valid

\* A travel time that follows from the runs of a list, if any of them counts.
Follows(travel, list) ==
  /\ travel = {} <=> Valid(list) = <<>>
  /\ \A twice \in travel : Median(twice, Recent(list))

LEMMA NothingFollows == Follows({}, <<>>)
BY ValidOfNone DEF Follows

\* A run that does not count changes nothing ...
LEMMA RejectedFollows ==
  ASSUME NEW list \in Seq(Totals \cup {Rejected}), NEW travel, Follows(travel, list)
  PROVE  Follows(travel, Append(list, Rejected))
<1>1. Valid(Append(list, Rejected)) = Valid(list)
  BY ValidOfMore
<1>2. QED
  BY <1>1 DEF Follows, Recent

\* ... and behind one that does the median is taken anew.
LEMMA DerivedFollows ==
  ASSUME NEW list \in Seq(Totals \cup {Rejected}), NEW run \in Totals
  PROVE  LET twice == TwiceMedian(Recent(Append(list, run)))
         IN  twice \in Nat \ {0} /\ Follows({twice}, Append(list, run))
<1> DEFINE longer == Append(list, run)
<1>1. Totals \subseteq Nat \ {0} /\ run # Rejected
  BY MeasurementAssumption DEF MeasurementAssumption, Rejected
<1>2. longer \in Seq(Totals \cup {Rejected})
  BY AppendProperties
<1>3. Valid(list) \in Seq(Totals) /\ Valid(longer) = Append(Valid(list), run)
  BY <1>1, ValidIsAList, ValidOfMore
<1>4. Valid(longer) # <<>>
  BY <1>3, AppendProperties
<1> HIDE DEF longer
<1>5. Recent(longer) \in Seq(Totals) /\ Recent(longer) # <<>>
  BY <1>2, <1>4, RecentAreTheLast
<1>6. Recent(longer) \in Seq(Nat \ {0})
  BY <1>1, <1>5, SeqMonotonic
<1>7. /\ TwiceMedian(Recent(longer)) \in Nat \ {0}
      /\ Median(TwiceMedian(Recent(longer)), Recent(longer))
  BY <1>5, <1>6, MedianIsOne
<1>8. QED
  BY <1>4, <1>7 DEF Follows, longer

-----------------------------------------------------------------------------
(* What everything is.                                                     *)

LEMMA EmptyIsTable == \A K, V : IsTable(EmptyTable, K, V)
BY DEF IsTable, EmptyTable

LEMMA PutIsTable ==
  ASSUME NEW f, NEW K, NEW V, IsTable(f, K, V), NEW k \in K, NEW v \in V
  PROVE  IsTable(Put(f, k, v), K, V)
BY DEF IsTable, Put

LEMMA DropIsTable ==
  ASSUME NEW f, NEW K, NEW V, IsTable(f, K, V), NEW k
  PROVE  IsTable(Drop(f, k), K, V)
BY DEF IsTable, Drop

LEMMA OnlyIsTable ==
  ASSUME NEW f, NEW K, NEW V, IsTable(f, K, V), NEW w
  PROVE  IsTable(Only(f, w), K, V)
BY DEF IsTable, Only

Shapes == CurveMin..CurveMax

LEMMA ShapesHold ==
  /\ 0 \in Shapes
  /\ \A n \in Int : Clamp(n) \in Shapes
<1>1. CurveMin \in Int /\ CurveMax \in Int /\ CurveMin < 0 /\ 0 < CurveMax
  BY MeasurementAssumption DEF MeasurementAssumption
<1>2. QED
  BY <1>1 DEF Shapes, Clamp

LEMMA FlushedIsTable ==
  ASSUME NEW values, IsTable(values, Keys, Nat \ {0}),
         NEW shapes, IsTable(shapes, Keys, Shapes)
  PROVE  IsTable(Flushed(values, shapes), Keys, Entry)
<1> DEFINE keys == DOMAIN values \cup {x \in DOMAIN shapes : shapes[x] # 0}
           entry(k) == [travel |-> IF k \in DOMAIN values THEN {values[k]} ELSE {},
                        curve |-> IF k \in DOMAIN shapes THEN shapes[k] ELSE 0]
<1>1. Flushed(values, shapes) = [k \in keys |-> entry(k)]
  BY DEF Flushed
<1>2. keys \subseteq Keys
  BY DEF IsTable
<1>3. ASSUME NEW k \in keys
      PROVE  entry(k) \in Entry
  <2>1. (IF k \in DOMAIN values THEN {values[k]} ELSE {}) \in SUBSET (Nat \ {0})
    BY DEF IsTable
  <2>2. (IF k \in DOMAIN shapes THEN shapes[k] ELSE 0) \in Shapes
    BY ShapesHold DEF IsTable
  <2>3. QED
    BY <2>1, <2>2 DEF Entry, Shapes
<1> HIDE DEF keys, entry
<1>4. QED
  BY <1>1, <1>2, <1>3 DEF IsTable

RowsTyped ==
  /\ runs \in [Keys -> Seq(Totals \cup {Rejected})]
  /\ answers \in [Keys -> Int]

StoredTyped ==
  /\ up \in BOOLEAN
  /\ IsTable(file, Keys, Entry)
  /\ IsTable(cache, Keys, Nat \ {0})
  /\ IsTable(curves, Keys, Shapes)

OpenTyped ==
  /\ IsTable(active, Windows, [direction : Directions, disturbed : BOOLEAN])
  /\ IsTable(check, Windows, Directions)
  /\ behind \subseteq Keys /\ told \in [Keys -> Int]

LEMMA TypeParts == TypeOK <=> RowsTyped /\ StoredTyped /\ OpenTyped
BY DEF TypeOK, RowsTyped, StoredTyped, OpenTyped, Shapes

LEMMA TypePartsAfter == RowsTyped' /\ StoredTyped' /\ OpenTyped' => TypeOK'
BY DEF TypeOK, RowsTyped, StoredTyped, OpenTyped, Shapes

LEMMA WritesTyped ==
  ASSUME StoredTyped, NEW values, NEW shapes, Writes(values, shapes),
         IsTable(values, Keys, Nat \ {0}), IsTable(shapes, Keys, Shapes)
  PROVE  StoredTyped'
BY FlushedIsTable DEF Writes, StoredTyped

LEMMA DiesTyped ==
  ASSUME StoredTyped, OpenTyped, NEW what, Dies(what), what \subseteq Keys
  PROVE  StoredTyped' /\ OpenTyped'
BY EmptyIsTable DEF Dies, StoredTyped, OpenTyped

\* Where runs and answers are taken from the rows of a shutter they are still rows.
LEMMA NoRowsTyped ==
  ASSUME RowsTyped, NEW w
  PROVE  /\ NoRuns(w) \in [Keys -> Seq(Totals \cup {Rejected})]
         /\ Cleared(answers, w) \in [Keys -> Int]
BY EmptySeq DEF RowsTyped, NoRuns, Cleared

LEMMA RecordTyped ==
  ASSUME TypeOK, NEW k \in Keys, NEW run \in Totals \cup {Rejected},
         NEW crash \in BOOLEAN, Record(k, run, crash), UNCHANGED answers,
         ~crash => /\ check' = check
                   /\ active' = active \/ \E w \in Windows : active' = Drop(active, w)
  PROVE  TypeOK'
<1>1. /\ runs' = [runs EXCEPT ![k] = Append(runs[k], run)]
      /\ RowsTyped /\ StoredTyped /\ OpenTyped
  BY TypeParts DEF Record
<1>2. runs[k] \in Seq(Totals \cup {Rejected})
  BY <1>1 DEF RowsTyped
<1>3. Append(runs[k], run) \in Seq(Totals \cup {Rejected})
  BY <1>2, AppendProperties
<1>4. RowsTyped' /\ runs'[k] = Append(runs[k], run)
  BY <1>1, <1>3 DEF RowsTyped
<1>5. CASE crash
  <2> DEFINE what == IF run = Rejected THEN {} ELSE {k}
  <2>1. Dies(what) /\ what \subseteq Keys
    BY <1>5 DEF Record
  <2> HIDE DEF what
  <2>2. StoredTyped' /\ OpenTyped'
    BY <1>1, <2>1, DiesTyped
  <2>3. QED
    BY <1>4, <2>2, TypePartsAfter
<1>6. CASE ~crash
  <2>1. OpenTyped'
    <3>1. behind' \subseteq behind /\ check' = check /\ told' = told
      BY <1>6 DEF Record
    <3>2. IsTable(active', Windows, [direction : Directions, disturbed : BOOLEAN])
      BY <1>1, <1>6, DropIsTable DEF OpenTyped
    <3>3. QED
      BY <1>1, <3>1, <3>2 DEF OpenTyped
  <2>2. StoredTyped'
    <3>1. CASE run = Rejected
      BY <1>1, <1>6, <3>1 DEF Record, StoredTyped, memory
    <3>2. CASE run # Rejected
      <4> DEFINE twice == TwiceMedian(Recent(runs'[k]))
      <4>1. Writes(Put(cache, k, twice), curves)
        BY <1>6, <3>2 DEF Record
      <4>2. twice \in Nat \ {0}
        BY <1>2, <1>4, <3>2, DerivedFollows
      <4> HIDE DEF twice
      <4>3. IsTable(Put(cache, k, twice), Keys, Nat \ {0}) /\ IsTable(curves, Keys, Shapes)
        BY <1>1, <4>2, PutIsTable DEF StoredTyped
      <4>4. QED
        BY <1>1, <4>1, <4>3, WritesTyped
    <3>3. QED
      BY <3>1, <3>2
  <2>3. QED
    BY <1>4, <2>1, <2>2, TypePartsAfter
<1>7. QED
  BY <1>5, <1>6

\* A measured run ends.
LEMMA MeasuringTyped ==
  ASSUME TypeOK, NEW crash \in BOOLEAN, Measuring(crash)
  PROVE  TypeOK'
<1>1. ASSUME NEW total \in Totals, NEW late \in BOOLEAN, NEW w \in Windows,
             MarkArrived(w, late, total, crash)
      PROVE  TypeOK'
  <2> DEFINE k == <<w, active[w].direction>>
             run == IF ~active[w].disturbed /\ Counts(late, total, Established(k))
                    THEN total ELSE Rejected
  <2>1. Record(k, run, crash) /\ answers' = answers /\ w \in DOMAIN active
        /\ (~crash => active' = Drop(active, w) /\ check' = check)
    BY <1>1 DEF MarkArrived
  <2>2. k \in Keys
    BY <2>1 DEF TypeOK, IsTable, Keys
  <2>3. run \in Totals \cup {Rejected}
    OBVIOUS
  <2> HIDE DEF k, run
  <2>4. QED
    BY <2>1, <2>2, <2>3, RecordTyped
<1>2. ASSUME NEW total \in Totals, NEW late \in BOOLEAN, NEW k \in Keys,
             Confirm(k, late, total, crash)
      PROVE  TypeOK'
  <2> DEFINE run == IF Counts(late, total, Established(k)) THEN total ELSE Rejected
  <2>1. /\ Record(k, run, crash) /\ answers' = answers
        /\ ~crash => active' = active /\ check' = check
    BY <1>2 DEF Confirm
  <2>2. run \in Totals \cup {Rejected}
    OBVIOUS
  <2> HIDE DEF run
  <2>3. QED
    BY <2>1, <2>2, RecordTyped
<1>3. QED
  BY <1>1, <1>2 DEF Measuring

LEMMA AbandonTyped ==
  ASSUME TypeOK, NEW crash \in BOOLEAN, NEW w \in Windows, Abandon(w, crash)
  PROVE  TypeOK'
<1> DEFINE k == <<w, active[w].direction>>
<1>1. /\ Record(k, Rejected, crash) /\ answers' = answers /\ w \in DOMAIN active
      /\ ~crash => active' = Drop(active, w) /\ check' = check
  BY DEF Abandon
<1>2. k \in Keys
  BY <1>1 DEF TypeOK, IsTable, Keys
<1> HIDE DEF k
<1>3. QED
  BY <1>1, <1>2, RecordTyped

LEMMA AnswerTyped ==
  ASSUME TypeOK, NEW crash \in BOOLEAN, NEW w \in Windows, NEW by \in {-1, 0, 1},
         Answer(w, by, crash)
  PROVE  TypeOK'
<1> DEFINE k == <<w, check[w]>>
<1>1. /\ w \in DOMAIN check /\ runs' = runs
      /\ answers' = [answers EXCEPT ![k] = answers[k] + by]
      /\ IF crash THEN Dies({})
         ELSE /\ Writes(cache, Put(curves, k, Clamp(answers'[k])))
              /\ check' = Drop(check, w)
              /\ told' = [told EXCEPT ![k] = answers'[k]]
              /\ active' = active /\ behind' = behind
  BY DEF Answer
<1>2. k \in Keys
  BY <1>1 DEF TypeOK, IsTable, Keys
<1> HIDE DEF k
<1>3. RowsTyped /\ StoredTyped /\ OpenTyped
  BY TypeParts
<1>4. RowsTyped' /\ answers'[k] \in Int
  BY <1>1, <1>2, <1>3 DEF RowsTyped
<1>5. CASE crash
  <2>1. Dies({})
    BY <1>1, <1>5
  <2>2. QED
    BY <1>3, <1>4, <2>1, DiesTyped, TypePartsAfter
<1>6. CASE ~crash
  <2> DEFINE shapes == Put(curves, k, Clamp(answers'[k]))
  <2>1. IsTable(shapes, Keys, Shapes) /\ IsTable(cache, Keys, Nat \ {0})
    BY <1>2, <1>3, <1>4, ShapesHold, PutIsTable DEF StoredTyped
  <2>2. Writes(cache, shapes)
    BY <1>1, <1>6
  <2> HIDE DEF shapes
  <2>3. StoredTyped'
    BY <1>3, <2>1, <2>2, WritesTyped
  <2>4. told' \in [Keys -> Int]
    BY <1>1, <1>3, <1>4, <1>6 DEF OpenTyped
  <2>5. OpenTyped'
    BY <1>1, <1>3, <1>6, <2>4, DropIsTable DEF OpenTyped
  <2>6. QED
    BY <1>4, <2>3, <2>5, TypePartsAfter
<1>7. QED
  BY <1>5, <1>6

LEMMA DiscardTyped ==
  ASSUME TypeOK, NEW w \in Windows,
         \/ \E crash \in BOOLEAN : ClearChecks(w, crash)
         \/ Clear(w)
         \/ \E answersToo \in BOOLEAN : ClearCut(w, answersToo)
  PROVE  TypeOK'
<1>1. RowsTyped /\ StoredTyped /\ OpenTyped
  BY TypeParts
<1>2. \A keys \in SUBSET Keys : InFile(keys) \subseteq Keys
  BY DEF InFile
<1>3. Both(w) \in SUBSET Keys
  BY DEF Both, Keys
<1>4. RowsTyped' /\ Cleared(told, w) \in [Keys -> Int]
  BY <1>1, NoRowsTyped DEF RowsTyped, OpenTyped, Cleared, ClearChecks, Clear, ClearCut
<1>5. ASSUME NEW what \in SUBSET InFile(Both(w)), Dies(what)
      PROVE  StoredTyped' /\ OpenTyped'
  BY <1>1, <1>2, <1>3, <1>5, DiesTyped
<1>6. ASSUME NEW values, IsTable(values, Keys, Nat \ {0}), Writes(values, Only(curves, w))
      PROVE  StoredTyped'
  BY <1>1, <1>6, OnlyIsTable, WritesTyped DEF StoredTyped
<1>7. ASSUME NEW crash \in BOOLEAN, ClearChecks(w, crash)
      PROVE  StoredTyped' /\ OpenTyped'
  <2>1. CASE crash
    <3>1. PICK what \in SUBSET InFile(Both(w)) : Dies(what)
      BY <1>7, <2>1 DEF ClearChecks
    <3>2. QED
      BY <1>5, <3>1
  <2>2. CASE ~crash
    <3>1. /\ Writes(cache, Only(curves, w)) /\ behind' \subseteq behind
          /\ check' = Drop(check, w) /\ active' = active /\ told' = Cleared(told, w)
      BY <1>7, <2>2 DEF ClearChecks
    <3>2. StoredTyped'
      BY <1>1, <1>6, <3>1 DEF StoredTyped
    <3>3. QED
      BY <1>1, <1>4, <3>1, <3>2, DropIsTable DEF OpenTyped
  <2>3. QED
    BY <2>1, <2>2
<1>8. ASSUME Clear(w)
      PROVE  StoredTyped' /\ OpenTyped'
  <2>1. /\ Writes(Only(cache, w), Only(curves, w)) /\ behind' \subseteq behind
        /\ check' = check /\ active' = active /\ told' = Cleared(told, w)
    BY <1>8 DEF Clear
  <2>2. StoredTyped'
    BY <1>1, <1>6, <2>1, OnlyIsTable DEF StoredTyped
  <2>3. QED
    BY <1>1, <1>4, <2>1, <2>2 DEF OpenTyped
<1>9. ASSUME NEW answersToo \in BOOLEAN, ClearCut(w, answersToo)
      PROVE  StoredTyped' /\ OpenTyped'
  <2>1. PICK what \in SUBSET InFile(Both(w)) : Dies(what)
    BY <1>9 DEF ClearCut
  <2>2. QED
    BY <1>5, <2>1
<1>10. StoredTyped' /\ OpenTyped'
  BY <1>7, <1>8, <1>9
<1>11. QED
  BY <1>4, <1>10, TypePartsAfter

LEMMA BootTyped ==
  ASSUME TypeOK, Boot
  PROVE  TypeOK'
<1>1. /\ up' = TRUE /\ curves' = [k \in DOMAIN file |-> file[k].curve]
      /\ cache' = [k \in {x \in DOMAIN file : file[x].travel # {}} |->
                     CHOOSE value \in file[k].travel : TRUE]
      /\ UNCHANGED <<runs, answers, file, active, check, behind, told>>
  BY DEF Boot, rows
<1>2. RowsTyped /\ StoredTyped /\ OpenTyped
  BY TypeParts
<1>3. /\ DOMAIN file \subseteq Keys
      /\ \A k \in DOMAIN file : /\ file[k].travel \in SUBSET (Nat \ {0})
                                /\ file[k].curve \in Shapes
  BY <1>2 DEF StoredTyped, IsTable, Entry, Shapes
<1>4. IsTable(curves', Keys, Shapes)
  BY <1>1, <1>3 DEF IsTable
<1>5. IsTable(cache', Keys, Nat \ {0})
  BY <1>1, <1>3 DEF IsTable
<1>6. StoredTyped'
  BY <1>1, <1>2, <1>4, <1>5 DEF StoredTyped
<1>7. QED
  BY <1>1, <1>2, <1>6, TypePartsAfter DEF RowsTyped, OpenTyped

LEMMA OthersTyped ==
  ASSUME TypeOK, \/ \E k \in Keys : StartRun(k) \/ StartCheck(k)
                 \/ \E w \in Windows : HearsContrary(w) \/ Abort(w)
                 \/ Crash \/ LoseFile
                 \/ UNCHANGED vars
  PROVE  TypeOK'
<1>1. RowsTyped /\ StoredTyped /\ OpenTyped
  BY TypeParts
<1>2. ASSUME NEW k \in Keys, StartRun(k)
      PROVE  TypeOK'
  <2>1. /\ active' = Put(active, k[1], [direction |-> k[2], disturbed |-> FALSE])
        /\ check' = Drop(check, k[1])
        /\ UNCHANGED <<up, runs, answers, file, cache, curves, behind, told>>
    BY <1>2 DEF StartRun, rows, memory
  <2>2. k[1] \in Windows /\ [direction |-> k[2], disturbed |-> FALSE]
                              \in [direction : Directions, disturbed : BOOLEAN]
    BY DEF Keys
  <2>3. OpenTyped'
    BY <1>1, <2>1, <2>2, PutIsTable, DropIsTable DEF OpenTyped
  <2>4. QED
    BY <1>1, <2>1, <2>3, TypePartsAfter DEF RowsTyped, StoredTyped, OpenTyped
<1>3. ASSUME NEW k \in Keys, StartCheck(k)
      PROVE  TypeOK'
  <2>1. /\ check' = Put(check, k[1], k[2])
        /\ UNCHANGED <<up, runs, answers, file, cache, curves, active, behind, told>>
    BY <1>3 DEF StartCheck, rows, memory
  <2>2. OpenTyped'
    BY <1>1, <2>1, PutIsTable DEF OpenTyped, Keys
  <2>3. QED
    BY <1>1, <2>1, <2>2, TypePartsAfter DEF RowsTyped, StoredTyped, OpenTyped
<1>4. ASSUME NEW w \in Windows, HearsContrary(w)
      PROVE  TypeOK'
  <2>1. /\ w \in DOMAIN active /\ active' = [active EXCEPT ![w].disturbed = TRUE]
        /\ UNCHANGED <<up, runs, answers, file, cache, curves, check, behind, told>>
    BY <1>4 DEF HearsContrary, rows, memory
  <2>2. IsTable(active', Windows, [direction : Directions, disturbed : BOOLEAN])
    BY <1>1, <2>1 DEF OpenTyped, IsTable
  <2>3. QED
    BY <1>1, <2>1, <2>2, TypePartsAfter DEF RowsTyped, StoredTyped, OpenTyped
<1>5. ASSUME NEW w \in Windows, Abort(w)
      PROVE  TypeOK'
  <2>1. /\ active' = Drop(active, w)
        /\ UNCHANGED <<up, runs, answers, file, cache, curves, check, behind, told>>
    BY <1>5 DEF Abort, rows, memory
  <2>2. OpenTyped'
    BY <1>1, <2>1, DropIsTable DEF OpenTyped
  <2>3. QED
    BY <1>1, <2>1, <2>2, TypePartsAfter DEF RowsTyped, StoredTyped, OpenTyped
<1>6. Crash => TypeOK'
  <2>1. Crash => Dies({}) /\ UNCHANGED <<runs, answers>>
    BY DEF Crash, rows
  <2>2. QED
    BY <1>1, <2>1, DiesTyped, TypePartsAfter DEF RowsTyped, StoredTyped, OpenTyped
<1>7. LoseFile => TypeOK'
  <2>1. LoseFile => /\ file' = EmptyTable /\ behind' = behind \cup InFile(Keys)
                    /\ told' = [k \in Keys |-> 0]
                    /\ UNCHANGED <<up, runs, answers, cache, curves, active, check>>
    BY DEF LoseFile, rows, memory
  <2>2. InFile(Keys) \subseteq Keys
    BY DEF InFile
  <2>3. QED
    BY <1>1, <2>1, <2>2, EmptyIsTable, TypePartsAfter DEF RowsTyped, StoredTyped, OpenTyped
<1>8. UNCHANGED vars => TypeOK'
  BY DEF TypeOK, vars, rows, memory
<1>9. QED
  BY <1>2, <1>3, <1>4, <1>5, <1>6, <1>7, <1>8

LEMMA TypesStay ==
  ASSUME TypeOK, [Next]_vars
  PROVE  TypeOK'
BY MeasuringTyped, AbandonTyped, AnswerTyped, DiscardTyped, BootTyped, OthersTyped DEF Next

-----------------------------------------------------------------------------
(* The file.                                                               *)

\* _flush() writes what memory says of every key.
LEMMA WritesKept ==
  ASSUME NEW values, NEW shapes, Writes(values, shapes)
  PROVE  /\ RestartChangesNothing' /\ OneTravel' /\ cache' = values /\ curves' = shapes
         /\ up' = up
         /\ \A k \in Keys :
              /\ Kept(k)'.travel = IF k \in DOMAIN values THEN {values[k]} ELSE {}
              /\ Kept(k)'.curve = IF k \in DOMAIN shapes THEN shapes[k] ELSE 0
<1>1. /\ cache' = values /\ curves' = shapes /\ file' = Flushed(values, shapes) /\ up' = up
  BY DEF Writes
<1>2. DOMAIN file' = DOMAIN values \cup {x \in DOMAIN shapes : shapes[x] # 0}
  BY <1>1 DEF Flushed
<1>3. \A k \in DOMAIN file' :
        /\ file'[k].travel = IF k \in DOMAIN values THEN {values[k]} ELSE {}
        /\ file'[k].curve = IF k \in DOMAIN shapes THEN shapes[k] ELSE 0
  BY <1>1 DEF Flushed
<1>4. OneTravel'
  BY <1>3 DEF OneTravel
<1>5. ASSUME NEW k \in Keys
      PROVE  /\ Kept(k)'.travel = Established(k)'
             /\ Kept(k)'.curve = CurveOf(k)'
             /\ Kept(k)'.travel = IF k \in DOMAIN values THEN {values[k]} ELSE {}
             /\ Kept(k)'.curve = IF k \in DOMAIN shapes THEN shapes[k] ELSE 0
  BY <1>1, <1>2, <1>3 DEF Kept, Established, CurveOf
<1>6. RestartChangesNothing'
  BY <1>5 DEF RestartChangesNothing, Kept
<1>7. QED
  BY <1>1, <1>4, <1>5, <1>6

\* Nobody reads memory after the end of the process, and the file stays.
LEMMA DiesKeeps ==
  ASSUME IInv, NEW what, Dies(what)
  PROVE  IInv'
<1>1. ~up' /\ file' = file /\ told' = told
  BY DEF Dies
<1>2. RestartChangesNothing' /\ OneTravel' /\ Summed'
  BY <1>1 DEF IInv, RestartChangesNothing, OneTravel, Summed, Kept
<1>3. QED
  BY <1>2 DEF IInv

\* Written, with curves that are what they followed.
LEMMA WritesKeeps ==
  ASSUME NEW values, NEW shapes, Writes(values, shapes),
         \A k \in Keys : (IF k \in DOMAIN shapes THEN shapes[k] ELSE 0) = Clamp(told'[k])
  PROVE  IInv'
<1>1. /\ RestartChangesNothing' /\ OneTravel'
      /\ \A k \in Keys : Kept(k)'.curve = IF k \in DOMAIN shapes THEN shapes[k] ELSE 0
  BY WritesKept
<1>2. Summed'
  BY <1>1 DEF Summed
<1>3. QED
  BY <1>1, <1>2 DEF IInv

\* While the process runs memory says the same as the file.
LEMMA CurveFollowed ==
  ASSUME IInv, up, NEW k \in Keys
  PROVE  CurveOf(k) = Clamp(told[k])
BY DEF IInv, RestartChangesNothing, Summed, Kept

\* Of no answers the sum is neutral.
LEMMA ClampNeutral == Clamp(0) = 0
BY MeasurementAssumption DEF MeasurementAssumption, Clamp

\* Clamped, nothing moves further than it did, nor the other way.
LEMMA ClampFollows ==
  ASSUME NEW m \in Int, NEW n \in Int
  PROVE  LET move == Clamp(n) - Clamp(m)
         IN  move # 0 => IF move > 0 THEN move <= n - m ELSE n - m <= move
<1>1. CurveMin \in Int /\ CurveMax \in Int /\ CurveMin < 0 /\ 0 < CurveMax
  BY MeasurementAssumption DEF MeasurementAssumption
<1>2. QED
  BY <1>1 DEF Clamp

\* Where memory and file stay, so does what is said of them.
LEMMA StillKeeps ==
  ASSUME IInv, UNCHANGED <<up, file, cache, curves, told>>
  PROVE  IInv'
BY DEF IInv, RestartChangesNothing, OneTravel, Summed, Kept, Established, CurveOf

-----------------------------------------------------------------------------
(* Every step.                                                             *)

LEMMA RecordKeeps ==
  ASSUME IInv, up, NEW k, NEW run, NEW crash \in BOOLEAN, Record(k, run, crash)
  PROVE  IInv'
<1>1. CASE crash
  BY <1>1, DiesKeeps DEF Record
<1>2. CASE ~crash /\ run = Rejected
  <2>1. UNCHANGED <<up, file, cache, curves, told>>
    BY <1>2 DEF Record, memory
  <2>2. QED
    BY <2>1, StillKeeps
<1>3. CASE ~crash /\ run # Rejected
  <2>1. PICK values : Writes(values, curves) /\ told' = told
    BY <1>3 DEF Record
  <2>2. \A x \in Keys : CurveOf(x) = Clamp(told'[x])
    BY <2>1, CurveFollowed
  <2>3. QED
    BY <2>1, <2>2, WritesKeeps DEF CurveOf
<1>4. QED
  BY <1>1, <1>2, <1>3

LEMMA AnswerKeeps ==
  ASSUME TypeOK, IInv, NEW w \in Windows, NEW by \in {-1, 0, 1}, NEW crash \in BOOLEAN,
         Answer(w, by, crash)
  PROVE  IInv'
<1> DEFINE k == <<w, check[w]>>
<1>1. /\ up /\ k \in Keys
      /\ IF crash THEN Dies({})
         ELSE /\ Writes(cache, Put(curves, k, Clamp(answers'[k])))
              /\ told' = [told EXCEPT ![k] = answers'[k]]
  BY DEF Answer, Keys, TypeOK, IsTable
<1> HIDE DEF k
<1>2. CASE crash
  BY <1>1, <1>2, DiesKeeps
<1>3. CASE ~crash
  <2> DEFINE shapes == Put(curves, k, Clamp(answers'[k]))
  <2>1. Writes(cache, shapes)
    BY <1>1, <1>3
  <2>2. told'[k] = answers'[k] /\ \A x \in Keys \ {k} : told'[x] = told[x]
    BY <1>1, <1>3 DEF TypeOK
  <2>3. /\ k \in DOMAIN shapes /\ shapes[k] = Clamp(answers'[k])
        /\ \A x \in Keys \ {k} : (IF x \in DOMAIN shapes THEN shapes[x] ELSE 0) = CurveOf(x)
    BY DEF Put, CurveOf
  <2> HIDE DEF shapes
  <2>4. \A x \in Keys : CurveOf(x) = Clamp(told[x])
    BY <1>1, CurveFollowed
  <2>5. \A x \in Keys : (IF x \in DOMAIN shapes THEN shapes[x] ELSE 0) = Clamp(told'[x])
    BY <2>2, <2>3, <2>4
  <2>6. QED
    BY <2>1, <2>5, WritesKeeps
<1>4. QED
  BY <1>2, <1>3

\* The answers about a shutter are discarded, with its measurements or without.
LEMMA ClearedKeeps ==
  ASSUME IInv, up, NEW w \in Windows, NEW values, Writes(values, Only(curves, w)),
         told' = Cleared(told, w)
  PROVE  IInv'
<1> DEFINE shapes == Only(curves, w)
<1>1. \A k \in Keys : (IF k \in DOMAIN shapes THEN shapes[k] ELSE 0)
                        = IF k \in Both(w) THEN 0 ELSE CurveOf(k)
  BY DEF Only, CurveOf
<1>2. Writes(values, shapes)
  OBVIOUS
<1> HIDE DEF shapes
<1>3. \A k \in Keys : told'[k] = IF k \in Both(w) THEN 0 ELSE told[k]
  BY DEF Cleared, Both, Keys
<1>4. \A k \in Keys : CurveOf(k) = Clamp(told[k])
  BY CurveFollowed
<1>5. \A k \in Keys : (IF k \in DOMAIN shapes THEN shapes[k] ELSE 0) = Clamp(told'[k])
  BY <1>1, <1>3, <1>4, ClampNeutral
<1>6. QED
  BY <1>2, <1>5, WritesKeeps

LEMMA DiscardKeeps ==
  ASSUME IInv, NEW w \in Windows,
         \/ \E crash \in BOOLEAN : ClearChecks(w, crash)
         \/ Clear(w)
         \/ \E answersToo \in BOOLEAN : ClearCut(w, answersToo)
  PROVE  IInv'
<1>1. ASSUME NEW crash \in BOOLEAN, ClearChecks(w, crash)
      PROVE  IInv'
  <2>1. CASE crash
    BY <1>1, <2>1, DiesKeeps DEF ClearChecks
  <2>2. CASE ~crash
    <3>1. up /\ Writes(cache, Only(curves, w)) /\ told' = Cleared(told, w)
      BY <1>1, <2>2 DEF ClearChecks
    <3>2. QED
      BY <3>1, ClearedKeeps
  <2>3. QED
    BY <2>1, <2>2
<1>2. ASSUME Clear(w)
      PROVE  IInv'
  <2>1. up /\ Writes(Only(cache, w), Only(curves, w)) /\ told' = Cleared(told, w)
    BY <1>2 DEF Clear
  <2>2. QED
    BY <2>1, ClearedKeeps
<1>3. ASSUME NEW answersToo \in BOOLEAN, ClearCut(w, answersToo)
      PROVE  IInv'
  BY <1>3, DiesKeeps DEF ClearCut
<1>4. QED
  BY <1>1, <1>2, <1>3

\* What the file lost is neutral.
LEMMA LoseFileKeeps ==
  ASSUME IInv, LoseFile
  PROVE  IInv'
<1>1. ~up' /\ file' = EmptyTable /\ \A k \in Keys : told'[k] = 0
  BY DEF LoseFile
<1>2. DOMAIN file' = {}
  BY <1>1 DEF EmptyTable
<1>3. RestartChangesNothing' /\ OneTravel' /\ Summed'
  BY <1>1, <1>2, ClampNeutral DEF RestartChangesNothing, OneTravel, Summed, Kept
<1>4. QED
  BY <1>3 DEF IInv

\* _load_measured() reads back all that memory had to say.
LEMMA BootKeeps ==
  ASSUME IInv, Boot
  PROVE  IInv'
<1>1. /\ curves' = [k \in DOMAIN file |-> file[k].curve]
      /\ cache' = [k \in {x \in DOMAIN file : file[x].travel # {}} |->
                     CHOOSE value \in file[k].travel : TRUE]
      /\ UNCHANGED <<file, told>>
  BY DEF Boot, rows
<1>2. ASSUME NEW k \in Keys
      PROVE  Established(k)' = Kept(k).travel /\ CurveOf(k)' = Kept(k).curve
  <2>1. CASE k \notin DOMAIN file
    BY <1>1, <2>1 DEF Established, CurveOf, Kept
  <2>2. CASE k \in DOMAIN file /\ file[k].travel = {}
    BY <1>1, <2>2 DEF Established, CurveOf, Kept
  <2>3. CASE k \in DOMAIN file /\ file[k].travel # {}
    <3>1. PICK value : file[k].travel = {value}
      BY <2>3 DEF IInv, OneTravel
    <3>2. cache'[k] = value /\ k \in DOMAIN cache' /\ k \in DOMAIN curves'
      BY <1>1, <2>3, <3>1
    <3>3. QED
      BY <1>1, <2>3, <3>1, <3>2 DEF Established, CurveOf, Kept
  <2>4. QED
    BY <2>1, <2>2, <2>3
<1>3. RestartChangesNothing' /\ OneTravel' /\ Summed'
  BY <1>1, <1>2 DEF IInv, RestartChangesNothing, OneTravel, Summed, Kept
<1>4. QED
  BY <1>3 DEF IInv

\* Nothing else moves a file or a curve.
LEMMA OthersKeep ==
  ASSUME IInv, \/ \E k \in Keys : StartRun(k) \/ StartCheck(k)
               \/ \E w \in Windows : HearsContrary(w) \/ Abort(w)
               \/ Crash
               \/ UNCHANGED vars
  PROVE  IInv'
<1>1. CASE Crash
  BY <1>1, DiesKeeps DEF Crash
<1>2. CASE ~Crash
  <2>1. UNCHANGED <<up, file, cache, curves, told>>
    BY <1>2 DEF StartRun, StartCheck, HearsContrary, Abort, vars, rows, memory
  <2>2. QED
    BY <2>1, StillKeeps
<1>3. QED
  BY <1>1, <1>2

LEMMA InitKeeps == Init => IInv
BY ClampNeutral DEF Init, IInv, RestartChangesNothing, OneTravel, Summed, Kept,
   Established, CurveOf, EmptyTable

LEMMA NextKeeps ==
  ASSUME TypeOK, IInv, [Next]_vars
  PROVE  IInv'
<1>1. ASSUME NEW crash \in BOOLEAN, Measuring(crash)
      PROVE  IInv'
  BY <1>1, RecordKeeps DEF Measuring, MarkArrived, Confirm
<1>2. ASSUME NEW crash \in BOOLEAN, NEW w \in Windows, Abandon(w, crash)
      PROVE  IInv'
  BY <1>2, RecordKeeps DEF Abandon
<1>3. QED
  BY <1>1, <1>2, AnswerKeeps, DiscardKeeps, LoseFileKeeps, BootKeeps, OthersKeep DEF Next

\* While the process runs, what a curve follows is what it followed or all answers.
LEMMA FollowsAllOrNone ==
  ASSUME TypeOK, [Next]_vars, up, up', NEW k \in Keys
  PROVE  told'[k] \in {told[k], answers'[k]}
<1>1. told \in [Keys -> Int]
  BY DEF TypeOK
<1>2. ASSUME NEW crash \in BOOLEAN, Measuring(crash) \/ \E w \in Windows : Abandon(w, crash)
      PROVE  told' = told
  <2>1. ASSUME NEW x, NEW run, Record(x, run, crash)
        PROVE  told' = told
    BY <2>1 DEF Record, Dies
  <2>2. QED
    BY <1>2, <2>1 DEF Measuring, MarkArrived, Confirm, Abandon
<1>3. ASSUME NEW w \in Windows, NEW by \in {-1, 0, 1}, NEW crash \in BOOLEAN,
             Answer(w, by, crash)
      PROVE  told'[k] \in {told[k], answers'[k]}
  <2> DEFINE x == <<w, check[w]>>
  <2>1. told' = told \/ told' = [told EXCEPT ![x] = answers'[x]]
    BY <1>3 DEF Answer, Dies
  <2> HIDE DEF x
  <2>2. QED
    BY <1>1, <2>1
<1>4. ASSUME NEW w \in Windows, Clear(w) \/ \E crash \in BOOLEAN : ClearChecks(w, crash)
      PROVE  told'[k] \in {told[k], answers'[k]}
  <2>1. answers' = Cleared(answers, w) /\ (told' = told \/ told' = Cleared(told, w))
    BY <1>4 DEF Clear, ClearChecks, Dies
  <2>2. QED
    BY <2>1 DEF Cleared
<1>5. ASSUME NEW w \in Windows, NEW answersToo \in BOOLEAN, ClearCut(w, answersToo)
      PROVE  FALSE
  BY <1>5 DEF ClearCut, Dies
<1>6. LoseFile => FALSE
  BY DEF LoseFile
<1>7. ASSUME \/ \E x \in Keys : StartRun(x) \/ StartCheck(x)
             \/ \E w \in Windows : HearsContrary(w) \/ Abort(w)
             \/ Crash \/ Boot \/ UNCHANGED vars
      PROVE  told' = told
  BY <1>7 DEF StartRun, StartCheck, HearsContrary, Abort, Crash, Dies, Boot, vars
<1>8. QED
  BY <1>2, <1>3, <1>4, <1>5, <1>6, <1>7 DEF Next

\* A curve moves no further than the answers say that it had not followed yet.
LEMMA CurveMoves ==
  ASSUME TypeOK, IInv, TypeOK', IInv', [Next]_vars, up, up', NEW k \in Keys
  PROVE  LET move == CurveOf(k)' - CurveOf(k)
             said == answers'[k] - told[k]
         IN  move # 0 => /\ told'[k] = answers'[k]
                         /\ IF move > 0 THEN move <= said ELSE said <= move
<1>1. CurveOf(k) = Clamp(told[k])
  BY CurveFollowed
<1>2. CurveOf(k)' = Clamp(told'[k])
  BY DEF IInv, RestartChangesNothing, Summed, Kept
<1>3. told[k] \in Int /\ told'[k] \in Int /\ answers'[k] \in Int
  BY DEF TypeOK
<1>4. \A n \in Int : Clamp(n) \in Int
  BY ShapesHold DEF Shapes
<1>5. CASE told'[k] = told[k]
  BY <1>1, <1>2, <1>3, <1>4, <1>5
<1>6. CASE told'[k] = answers'[k]
  BY <1>1, <1>2, <1>3, <1>6, ClampFollows
<1>7. QED
  BY <1>5, <1>6, FollowsAllOrNone

-----------------------------------------------------------------------------
(* The median is kept.                                                     *)

\* What the file has followed is the median of the recent runs that count.
MedianKept ==
  \A k \in Keys : k \notin behind => Follows(Kept(k).travel, runs[k])

LEMMA DiesFollows ==
  ASSUME NEW what, Dies(what),
         \A k \in Keys : k \notin behind \cup what
                           => Follows(Kept(k).travel, runs'[k])
  PROVE  MedianKept'
<1>1. file' = file /\ behind' = behind \cup what
  BY DEF Dies
<1>2. QED
  BY <1>1 DEF MedianKept, Kept

LEMMA WritesFollows ==
  ASSUME NEW values, NEW shapes, Writes(values, shapes),
         \A k \in Keys : k \notin behind' =>
           Follows(IF k \in DOMAIN values THEN {values[k]} ELSE {}, runs'[k])
  PROVE  MedianKept'
<1>1. \A k \in Keys : Kept(k)'.travel = IF k \in DOMAIN values THEN {values[k]} ELSE {}
  BY WritesKept
<1>2. QED
  BY <1>1 DEF MedianKept

\* While the process runs the same is true of what memory says.
LEMMA EstablishedFollows ==
  ASSUME IInv, MedianKept, up, NEW k \in Keys, k \notin behind
  PROVE  Follows(IF k \in DOMAIN cache THEN {cache[k]} ELSE {}, runs[k])
BY DEF IInv, RestartChangesNothing, MedianKept, Kept, Established

LEMMA RecordFollows ==
  ASSUME TypeOK, IInv, MedianKept, up, NEW k \in Keys, NEW run \in Totals \cup {Rejected},
         NEW crash \in BOOLEAN, Record(k, run, crash)
  PROVE  MedianKept'
<1>1. runs[k] \in Seq(Totals \cup {Rejected}) /\ runs \in [Keys -> Seq(Totals \cup {Rejected})]
  BY DEF TypeOK
<1>2. runs' = [runs EXCEPT ![k] = Append(runs[k], run)]
  BY DEF Record
<1>3. runs'[k] = Append(runs[k], run) /\ \A x \in Keys \ {k} : runs'[x] = runs[x]
  BY <1>1, <1>2
<1>4. CASE run = Rejected
  <2>1. ASSUME NEW x \in Keys, NEW travel, Follows(travel, runs[x])
        PROVE  Follows(travel, runs'[x])
    BY <1>1, <1>3, <1>4, <2>1, RejectedFollows
  <2>2. CASE crash
    <3>1. Dies({})
      BY <1>4, <2>2 DEF Record
    <3>2. \A x \in Keys : x \notin behind \cup {} => Follows(Kept(x).travel, runs'[x])
      BY <2>1 DEF MedianKept
    <3>3. QED
      BY <3>1, <3>2, DiesFollows
  <2>3. CASE ~crash
    <3>1. file' = file /\ behind' = behind
      BY <1>4, <2>3 DEF Record
    <3>2. \A x \in Keys : x \notin behind => Follows(Kept(x).travel, runs'[x])
      BY <2>1 DEF MedianKept
    <3>3. QED
      BY <3>1, <3>2 DEF MedianKept, Kept
  <2>4. QED
    BY <2>2, <2>3
<1>5. CASE run # Rejected /\ crash
  <2>1. Dies({k})
    BY <1>5 DEF Record
  <2>2. \A x \in Keys : x \notin behind \cup {k}
                          => Follows(Kept(x).travel, runs'[x])
    BY <1>3 DEF MedianKept
  <2>3. QED
    BY <2>1, <2>2, DiesFollows
<1>6. CASE run # Rejected /\ ~crash
  <2> DEFINE twice == TwiceMedian(Recent(runs'[k]))
             values == Put(cache, k, twice)
  <2>1. Writes(values, curves) /\ behind' = behind \ {k}
    BY <1>6 DEF Record
  <2>2. Follows({twice}, runs'[k])
    BY <1>1, <1>3, <1>6, DerivedFollows
  <2> HIDE DEF twice
  <2>3. /\ k \in DOMAIN values /\ values[k] = twice
        /\ \A x \in Keys \ {k} : (IF x \in DOMAIN values THEN {values[x]} ELSE {})
                                   = IF x \in DOMAIN cache THEN {cache[x]} ELSE {}
    BY DEF Put
  <2> HIDE DEF values
  <2>4. ASSUME NEW x \in Keys, x \notin behind'
        PROVE  Follows(IF x \in DOMAIN values THEN {values[x]} ELSE {}, runs'[x])
    <3>1. CASE x = k
      BY <2>2, <2>3, <3>1
    <3>2. CASE x # k
      <4>1. x \notin behind
        BY <2>1, <2>4, <3>2
      <4>2. Follows(IF x \in DOMAIN cache THEN {cache[x]} ELSE {}, runs[x])
        BY <4>1, EstablishedFollows
      <4>3. QED
        BY <1>3, <2>3, <3>2, <4>2
    <3>3. QED
      BY <3>1, <3>2
  <2>5. QED
    BY <2>1, <2>4, WritesFollows
<1>7. QED
  BY <1>4, <1>5, <1>6

LEMMA AnswerFollows ==
  ASSUME IInv, MedianKept, NEW w \in Windows, NEW by \in {-1, 0, 1},
         NEW crash \in BOOLEAN, Answer(w, by, crash)
  PROVE  MedianKept'
<1>1. /\ up /\ runs' = runs
      /\ IF crash THEN Dies({})
         ELSE behind' = behind /\ \E shapes : Writes(cache, shapes)
  BY DEF Answer
<1>2. CASE crash
  BY <1>1, <1>2, DiesFollows DEF MedianKept
<1>3. CASE ~crash
  <2>1. PICK shapes : Writes(cache, shapes)
    BY <1>1, <1>3
  <2>2. ASSUME NEW x \in Keys, x \notin behind'
        PROVE  Follows(IF x \in DOMAIN cache THEN {cache[x]} ELSE {}, runs'[x])
    BY <1>1, <1>3, <2>2, EstablishedFollows
  <2>3. QED
    BY <2>1, <2>2, WritesFollows
<1>4. QED
  BY <1>2, <1>3

\* What the file never said of a key need not be discarded.
LEMMA NotInFileEither ==
  ASSUME NEW keys \in SUBSET Keys, NEW k \in keys, k \notin InFile(keys)
  PROVE  Kept(k).travel = {}
BY DEF InFile, Kept

LEMMA ClearChecksFollows ==
  ASSUME IInv, MedianKept, NEW w \in Windows, NEW crash \in BOOLEAN, ClearChecks(w, crash)
  PROVE  MedianKept'
<1>1. /\ up /\ runs' = runs
      /\ IF crash THEN Dies({}) ELSE Writes(cache, Only(curves, w)) /\ behind' = behind
  BY DEF ClearChecks
<1>2. CASE crash
  BY <1>1, <1>2, DiesFollows DEF MedianKept
<1>3. CASE ~crash
  <2> DEFINE shapes == Only(curves, w)
  <2>1. Writes(cache, shapes) /\ behind' = behind
    BY <1>1, <1>3
  <2> HIDE DEF shapes
  <2>2. \A x \in Keys : x \notin behind' =>
          Follows(IF x \in DOMAIN cache THEN {cache[x]} ELSE {}, runs'[x])
    BY <1>1, <2>1, EstablishedFollows
  <2>3. QED
    BY <2>1, <2>2, WritesFollows
<1>4. QED
  BY <1>2, <1>3

LEMMA ClearFollows ==
  ASSUME IInv, MedianKept, NEW w \in Windows, Clear(w)
  PROVE  MedianKept'
<1> DEFINE values == Only(cache, w)
           shapes == Only(curves, w)
<1>1. /\ up /\ runs' = NoRuns(w) /\ Writes(values, shapes)
      /\ behind' = behind \ Both(w)
  BY DEF Clear
<1>2. /\ \A x \in Keys : runs'[x] = IF x \in Both(w) THEN <<>> ELSE runs[x]
      /\ \A x \in Keys : (IF x \in DOMAIN values THEN {values[x]} ELSE {})
                           = IF x \in DOMAIN cache /\ x \notin Both(w) THEN {cache[x]} ELSE {}
  BY <1>1 DEF NoRuns, Only, Both, Keys
<1> HIDE DEF values, shapes
<1>3. ASSUME NEW x \in Keys, x \notin behind'
      PROVE  Follows(IF x \in DOMAIN values THEN {values[x]} ELSE {}, runs'[x])
  <2>1. CASE x \in Both(w)
    BY <1>2, <2>1, NothingFollows
  <2>2. CASE x \notin Both(w)
    <3>1. x \notin behind
      BY <1>1, <1>3, <2>2
    <3>2. Follows(IF x \in DOMAIN cache THEN {cache[x]} ELSE {}, runs[x])
      BY <1>1, <3>1, EstablishedFollows
    <3>3. QED
      BY <1>2, <2>2, <3>2
  <2>3. QED
    BY <2>1, <2>2
<1>4. QED
  BY <1>1, <1>3, WritesFollows

LEMMA ClearCutFollows ==
  ASSUME MedianKept, NEW w \in Windows, NEW answersToo \in BOOLEAN, ClearCut(w, answersToo)
  PROVE  MedianKept'
<1> DEFINE what == InFile(Both(w))
<1>1. Dies(what) /\ runs' = NoRuns(w)
  BY DEF ClearCut
<1>2. \A x \in Keys : runs'[x] = IF x \in Both(w) THEN <<>> ELSE runs[x]
  BY <1>1 DEF NoRuns, Both, Keys
<1>3. Both(w) \in SUBSET Keys
  BY DEF Both, Keys
<1>4. ASSUME NEW x \in Keys, x \notin behind \cup what
      PROVE  Follows(Kept(x).travel, runs'[x])
  <2>1. CASE x \in Both(w)
    <3>1. x \notin InFile(Both(w))
      BY <1>4
    <3>2. Kept(x).travel = {}
      BY <1>3, <2>1, <3>1, NotInFileEither
    <3>3. QED
      BY <1>2, <2>1, <3>2, NothingFollows
  <2>2. CASE x \notin Both(w)
    BY <1>2, <1>4, <2>2 DEF MedianKept
  <2>3. QED
    BY <2>1, <2>2
<1> HIDE DEF what
<1>5. QED
  BY <1>1, <1>4, DiesFollows

LEMMA LoseFileFollows ==
  ASSUME MedianKept, LoseFile
  PROVE  MedianKept'
<1>1. file' = EmptyTable /\ behind' = behind \cup InFile(Keys) /\ runs' = runs
  BY DEF LoseFile, rows
<1>2. \A k \in Keys : Kept(k)'.travel = {}
  BY <1>1 DEF Kept, EmptyTable
<1>3. ASSUME NEW k \in Keys, k \notin behind'
      PROVE  Follows(Kept(k)'.travel, runs'[k])
  <2>1. k \notin InFile(Keys) /\ Follows(Kept(k).travel, runs[k])
    BY <1>1, <1>3 DEF MedianKept
  <2>2. Kept(k).travel = {}
    BY <2>1, NotInFileEither
  <2>3. QED
    BY <1>1, <1>2, <2>1, <2>2
<1>4. QED
  BY <1>3 DEF MedianKept

\* Nothing else touches a row of a run or the file.
LEMMA OthersFollow ==
  ASSUME MedianKept, \/ \E k \in Keys : StartRun(k) \/ StartCheck(k)
                     \/ \E w \in Windows : HearsContrary(w) \/ Abort(w)
                     \/ Crash \/ Boot
                     \/ UNCHANGED vars
  PROVE  MedianKept'
<1>1. UNCHANGED <<file, runs, behind, told>>
  BY DEF StartRun, StartCheck, HearsContrary, Abort, Crash, Dies, Boot, vars, rows
<1>2. QED
  BY <1>1 DEF MedianKept, Kept

LEMMA MeasuringFollows ==
  ASSUME TypeOK, IInv, MedianKept, NEW crash \in BOOLEAN,
         Measuring(crash) \/ \E w \in Windows : Abandon(w, crash)
  PROVE  MedianKept'
<1>1. \A w \in DOMAIN active : <<w, active[w].direction>> \in Keys
  BY DEF TypeOK, IsTable, Keys
<1>2. ASSUME NEW total \in Totals, NEW late \in BOOLEAN, NEW w \in Windows,
             MarkArrived(w, late, total, crash)
      PROVE  \E k \in Keys, run \in Totals \cup {Rejected} : up /\ Record(k, run, crash)
  <2> DEFINE k == <<w, active[w].direction>>
             run == IF ~active[w].disturbed /\ Counts(late, total, Established(k))
                    THEN total ELSE Rejected
  <2>1. up /\ Record(k, run, crash) /\ w \in DOMAIN active
    BY <1>2 DEF MarkArrived
  <2>2. k \in Keys /\ run \in Totals \cup {Rejected}
    BY <1>1, <2>1
  <2> HIDE DEF k, run
  <2>3. QED
    BY <2>1, <2>2
<1>3. ASSUME NEW total \in Totals, NEW late \in BOOLEAN, NEW k \in Keys,
             Confirm(k, late, total, crash)
      PROVE  \E run \in Totals \cup {Rejected} : up /\ Record(k, run, crash)
  BY <1>3 DEF Confirm
<1>4. ASSUME NEW w \in Windows, Abandon(w, crash)
      PROVE  \E k \in Keys : up /\ Record(k, Rejected, crash)
  BY <1>1, <1>4 DEF Abandon
<1>5. \E k \in Keys, run \in Totals \cup {Rejected} : up /\ Record(k, run, crash)
  BY <1>2, <1>3, <1>4 DEF Measuring
<1>6. QED
  BY <1>5, RecordFollows

LEMMA MedianStays ==
  ASSUME TypeOK, IInv, MedianKept, [Next]_vars
  PROVE  MedianKept'
BY MeasuringFollows, AnswerFollows, ClearChecksFollows, ClearFollows, ClearCutFollows,
   LoseFileFollows, OthersFollow DEF Next

\* Only a run that counts moves a travel time, or discarding them.
LEMMA EstablishedMoves ==
  ASSUME TypeOK, [Next]_vars, up, up', NEW k \in Keys, Established(k)' # Established(k)
  PROVE  \/ runs'[k] = <<>>
         \/ /\ \E run \in Totals : runs'[k] = Append(runs[k], run)
            /\ k \notin behind'
<1>1. cache' # cache
  BY DEF Established
<1>2. ASSUME NEW x \in Keys, NEW run \in Totals \cup {Rejected}, NEW crash \in BOOLEAN,
             Record(x, run, crash)
      PROVE  /\ \E y \in Totals : runs'[k] = Append(runs[k], y)
             /\ k \notin behind'
  <2>1. ~crash /\ run # Rejected
    BY <1>1, <1>2 DEF Record, Dies, memory
  <2>2. \E twice : cache' = Put(cache, x, twice)
    BY <1>2, <2>1 DEF Record, Writes
  <2>3. x = k
    BY <2>2 DEF Established, Put
  <2>4. runs'[k] = Append(runs[k], run) /\ behind' = behind \ {k}
    BY <1>2, <2>1, <2>3 DEF Record, TypeOK
  <2>5. QED
    BY <2>1, <2>4
<1>3. \A w \in DOMAIN active : <<w, active[w].direction>> \in Keys
  BY DEF TypeOK, IsTable, Keys
<1>4. ASSUME NEW crash \in BOOLEAN, Measuring(crash) \/ \E w \in Windows : Abandon(w, crash)
      PROVE  \E x \in Keys, run \in Totals \cup {Rejected} : Record(x, run, crash)
  BY <1>3, <1>4 DEF Measuring, MarkArrived, Confirm, Abandon
<1>5. ASSUME NEW w \in Windows, Clear(w)
      PROVE  runs'[k] = <<>>
  <2>1. cache' = Only(cache, w) /\ runs' = NoRuns(w)
    BY <1>5 DEF Clear, Writes
  <2>2. k \in Both(w)
    BY <2>1 DEF Established, Only
  <2>3. QED
    BY <2>1, <2>2 DEF NoRuns, Both
<1>6. ASSUME NEW w \in Windows, NEW crash \in BOOLEAN,
             ClearChecks(w, crash) \/ \E by \in {-1, 0, 1} : Answer(w, by, crash)
      PROVE  FALSE
  BY <1>1, <1>6 DEF ClearChecks, Answer, Writes, Dies
<1>7. ASSUME \/ \E x \in Keys : StartRun(x) \/ StartCheck(x)
             \/ \E w \in Windows : HearsContrary(w) \/ Abort(w)
             \/ \E w \in Windows, answersToo \in BOOLEAN : ClearCut(w, answersToo)
             \/ Crash \/ LoseFile \/ Boot \/ UNCHANGED vars
      PROVE  FALSE
  BY <1>1, <1>7 DEF StartRun, StartCheck, HearsContrary, Abort, ClearCut, Crash, Dies,
     LoseFile, Boot, vars, memory
<1>8. QED
  BY <1>2, <1>4, <1>5, <1>6, <1>7 DEF Next

-----------------------------------------------------------------------------

LEMMA Starts == Init => TypeOK /\ IInv /\ MedianKept
<1>1. ASSUME Init
      PROVE  TypeOK
  <2>1. EmptyTable \in [{} -> {}] /\ \A K, V : IsTable(EmptyTable, K, V)
    BY EmptyIsTable DEF EmptyTable
  <2>2. <<>> \in Seq(Totals \cup {Rejected})
    BY EmptySeq
  <2>3. QED
    BY <1>1, <2>1, <2>2 DEF Init, TypeOK
<1>2. ASSUME Init
      PROVE  MedianKept
  <2>1. ASSUME NEW k \in Keys
        PROVE  Kept(k).travel = {} /\ runs[k] = <<>>
    BY <1>2 DEF Init, Kept, EmptyTable
  <2>2. QED
    BY <2>1, NothingFollows DEF MedianKept
<1>3. QED
  BY <1>1, <1>2, InitKeeps

LEMMA Invariance == Spec => [](TypeOK /\ IInv /\ MedianKept)
<1>1. TypeOK /\ IInv /\ MedianKept /\ [Next]_vars => (TypeOK /\ IInv /\ MedianKept)'
  BY TypesStay, NextKeeps, MedianStays
<1>2. QED
  BY <1>1, Starts, PTL DEF Spec

\* Rows, file and memory hold what they should: a travel time takes some time, a
\* curve is within its limits, and whatever is open is about a shutter of the house.
THEOREM TypeCorrect == Spec => []TypeOK
BY Invariance, PTL

\* calibration.toml says what memory says, for any number of shutters and runs and
\* in whatever order they were measured, answered about and discarded.
THEOREM RestartsChangeNothing == Spec => []RestartChangesNothing
<1>1. IInv => RestartChangesNothing
  BY DEF IInv
<1>2. QED
  BY <1>1, Invariance, PTL

\* FR-013, FR-021, for any number of runs and any number of them retained: what the
\* house goes by is a median of the last runs that count, whichever were rejected,
\* discarded or lost in between.
THEOREM MeasuredIsMedian == Spec => []MeasuredIsRecentMedian
<1>1. ASSUME TypeOK, IInv, MedianKept, up, NEW k \in Keys, k \notin behind
      PROVE  LET valid == Valid(runs[k])
                 first == IF Len(valid) > Retain THEN Len(valid) - Retain ELSE 0
                 last == [i \in 1..(Len(valid) - first) |-> valid[first + i]]
             IN  /\ k \in DOMAIN cache <=> valid # <<>>
                 /\ k \in DOMAIN cache => Median(cache[k], last)
  <2> DEFINE valid == Valid(runs[k])
             first == IF Len(valid) > Retain THEN Len(valid) - Retain ELSE 0
             last == [i \in 1..(Len(valid) - first) |-> valid[first + i]]
  <2>1. Follows(IF k \in DOMAIN cache THEN {cache[k]} ELSE {}, runs[k])
    BY <1>1, EstablishedFollows
  <2>2. runs[k] \in Seq(Totals \cup {Rejected})
    BY <1>1 DEF TypeOK
  <2>3. Recent(runs[k]) = last
    BY <2>2, RecentAreTheLast
  <2> HIDE DEF last
  <2>4. k \in DOMAIN cache <=> valid # <<>>
    BY <2>1 DEF Follows
  <2>5. k \in DOMAIN cache => Median(cache[k], last)
    BY <2>1, <2>3 DEF Follows
  <2>6. QED
    BY <2>4, <2>5 DEF last
<1>2. TypeOK /\ IInv /\ MedianKept => MeasuredIsRecentMedian
  BY <1>1 DEF MeasuredIsRecentMedian
<1>3. QED
  BY <1>2, Invariance, PTL

\* Of two that agree and at most one more, every median is what the two say.
LEMMA TwoThatAgree ==
  ASSUME NEW list \in Seq(Totals), Len(list) \in {2, 3}, list[1] = list[2],
         NEW twice \in Nat, Median(twice, list)
  PROVE  twice = 2 * list[1]
<1> DEFINE below == {i \in DOMAIN list : 2 * list[i] < twice}
           above == {i \in DOMAIN list : 2 * list[i] > twice}
<1>1. DOMAIN list = 1..Len(list) /\ list[1] \in Nat
  <2>1. DOMAIN list = 1..Len(list) /\ 1 \in 1..Len(list)
    BY LenProperties
  <2>2. list[1] \in Totals /\ Totals \subseteq Nat
    BY <2>1, ElementOfSeq, MeasurementAssumption DEF MeasurementAssumption
  <2>3. QED
    BY <2>1, <2>2
<1>2. 2 * Cardinality(below) <= Len(list) /\ 2 * Cardinality(above) <= Len(list)
  BY DEF Median
<1>3. IsFiniteSet(1..Len(list))
  BY FS_Interval
<1>4. below \in SUBSET (1..Len(list)) /\ above \in SUBSET (1..Len(list))
  BY <1>1
<1>5. Cardinality({1, 2}) = 2 /\ IsFiniteSet({1, 2})
  <2>1. {1, 2} = {1} \cup {2} /\ 2 \notin {1}
    OBVIOUS
  <2>2. IsFiniteSet({1}) /\ Cardinality({1}) = 1
    BY FS_Singleton
  <2>3. /\ IsFiniteSet({1} \cup {2})
        /\ Cardinality({1} \cup {2}) = IF 2 \in {1} THEN Cardinality({1}) ELSE Cardinality({1}) + 1
    BY <2>2, FS_AddElement, Zenon
  <2>4. IsFiniteSet({1} \cup {2}) /\ Cardinality({1} \cup {2}) = 1 + 1
    BY <2>1, <2>2, <2>3, Zenon
  <2>5. IsFiniteSet({1, 2}) /\ Cardinality({1, 2}) = 1 + 1
    BY <2>1, <2>4, Zenon
  <2>6. QED
    BY <2>5
<1>6. ASSUME NEW S \in SUBSET (1..Len(list)), 2 * Cardinality(S) <= Len(list)
      PROVE  ~({1, 2} \subseteq S)
  <2>1. IsFiniteSet(S) /\ Cardinality(S) \in Nat
    BY <1>3, FS_Subset, FS_CardinalityType
  <2>2. {1, 2} \subseteq S => 2 <= Cardinality(S)
    BY <1>5, <2>1, FS_Subset
  <2>3. ~(2 <= Cardinality(S))
    <3> DEFINE n == Len(list)
    <3>1. n \in {2, 3} /\ 2 * Cardinality(S) <= n
      BY <1>6
    <3> HIDE DEF n
    <3>2. QED
      BY <2>1, <3>1
  <2>4. QED
    BY <2>2, <2>3
<1>7. ~(2 * list[1] < twice)
  <2>1. 2 * list[1] < twice => {1, 2} \subseteq below
    BY <1>1
  <2> HIDE DEF below
  <2>2. QED
    BY <1>2, <1>4, <1>6, <2>1
<1>8. ~(2 * list[1] > twice)
  <2>1. 2 * list[1] > twice => {1, 2} \subseteq above
    BY <1>1
  <2> HIDE DEF above
  <2>2. QED
    BY <1>2, <1>4, <1>6, <2>1
<1>9. QED
  BY <1>1, <1>7, <1>8

LEMMA OneMore ==
  ASSUME NEW two \in Seq(Totals), Len(two) = 2, NEW run \in Totals
  PROVE  /\ Append(two, run) \in Seq(Totals) /\ Len(Append(two, run)) = 3
         /\ Append(two, run)[1] = two[1] /\ Append(two, run)[2] = two[2]
<1>1. 1 \in 1..Len(two) /\ 2 \in 1..Len(two)
  OBVIOUS
<1>2. QED
  BY <1>1, AppendProperties

\* After two runs that agree one more moves nothing.
LEMMA NotDragged ==
  ASSUME Retain > 2, TypeOK, IInv, MedianKept, MedianKept', IInv', TypeOK', up, up',
         NEW k \in Keys, k \notin behind, k \notin behind',
         NEW run \in Totals, runs'[k] = Append(runs[k], run),
         Len(Valid(runs[k])) = 2, Valid(runs[k])[1] = Valid(runs[k])[2]
  PROVE  Established(k)' = Established(k)
<1> DEFINE valid == Valid(runs[k])
           longer == Valid(runs'[k])
<1>1. /\ Retain \in Nat /\ Totals \subseteq Nat /\ run # Rejected
      /\ runs[k] \in Seq(Totals \cup {Rejected}) /\ runs'[k] \in Seq(Totals \cup {Rejected})
      /\ \A x \in DOMAIN cache : cache[x] \in Nat
      /\ \A x \in DOMAIN cache' : cache'[x] \in Nat
  BY MeasurementAssumption DEF TypeOK, IsTable, MeasurementAssumption, Rejected
<1>2. /\ valid \in Seq(Totals) /\ Len(valid) = 2 /\ valid[1] = valid[2]
      /\ longer = Append(valid, run)
  BY <1>1, ValidIsAList, ValidOfMore
<1> HIDE DEF valid, longer
<1>3. /\ longer \in Seq(Totals) /\ Len(longer) = 3
      /\ longer[1] = valid[1] /\ longer[2] = valid[2]
  BY <1>2, OneMore
<1>4. Recent(runs[k]) = valid
  <2>1. Len(valid) <= Retain
    BY <1>1, <1>2
  <2>2. QED
    BY <1>1, <2>1, AllAreRecent DEF valid
<1>5. Recent(runs'[k]) = longer
  <2>1. Len(longer) <= Retain
    BY <1>1, <1>3
  <2>2. QED
    BY <1>1, <2>1, AllAreRecent DEF longer
<1>6. valid # <<>> /\ longer # <<>>
  BY <1>2, <1>3, EmptySeq
<1>7. k \in DOMAIN cache /\ Median(cache[k], valid)
  BY <1>4, <1>6, EstablishedFollows DEF Follows, valid
<1>8. k \in DOMAIN cache' /\ Median(cache'[k], longer)
  <2>1. Follows(Established(k)', runs'[k])
    BY DEF IInv, RestartChangesNothing, MedianKept, Kept
  <2>2. QED
    BY <1>5, <1>6, <2>1 DEF Follows, longer, Established
<1>9. cache[k] = 2 * valid[1]
  BY <1>1, <1>2, <1>7, TwoThatAgree
<1>10. cache'[k] = 2 * longer[1]
  BY <1>1, <1>2, <1>3, <1>8, TwoThatAgree
<1>11. QED
  BY <1>3, <1>7, <1>8, <1>9, <1>10 DEF Established

\* FR-013, wherever more than two runs are retained: a third run does not move what
\* two before it agree on, however long it took.
THEOREM OneRunNeverDrags ==
  ASSUME Retain > 2
  PROVE  Spec => OneRunDoesNotDrag
<1>1. ASSUME TypeOK, IInv, MedianKept, TypeOK', IInv', MedianKept', [Next]_vars,
             NEW k \in Keys, Established(k)' # Established(k), up, up',
             k \notin behind
      PROVE  \/ Len(runs'[k]) <= Len(runs[k])
             \/ LET valid == Valid(runs[k])
                IN  Len(valid) # 2 \/ valid[1] # valid[2]
  <2>1. CASE runs'[k] = <<>>
    <3>1. Len(runs[k]) \in Nat /\ Len(runs'[k]) = 0
      BY <1>1, <2>1, LenProperties, EmptySeq DEF TypeOK
    <3>2. QED
      BY <3>1
  <2>2. CASE /\ \E run \in Totals : runs'[k] = Append(runs[k], run)
             /\ k \notin behind'
    BY <1>1, <2>2, NotDragged
  <2>3. QED
    BY <1>1, <2>1, <2>2, EstablishedMoves
<1>2. TypeOK /\ IInv /\ MedianKept /\ (TypeOK /\ IInv /\ MedianKept)' /\ [Next]_vars =>
        [\A k \in Keys :
           Established(k)' # Established(k) /\ up /\ up' /\ k \notin behind =>
             \/ Len(runs'[k]) <= Len(runs[k])
             \/ LET valid == Valid(runs[k])
                IN  Len(valid) # 2 \/ valid[1] # valid[2]]_vars
  BY <1>1
<1>3. QED
  BY <1>2, Invariance, PTL DEF Spec, OneRunDoesNotDrag

\* FR-024, for any clamp and any number of answers: a curve goes the way that the
\* answers say and no further than they said since it followed them last, which is one
\* step for each answer; after a crash or the loss of the file it makes up for those
\* that it had not followed.
THEOREM CurvesFollow == Spec => AnswersMoveTheirWay
<1>1. TypeOK /\ IInv /\ (TypeOK /\ IInv)' /\ [Next]_vars =>
        [\A k \in Keys :
           LET move == CurveOf(k)' - CurveOf(k)
               said == answers'[k] - told[k]
           IN  up /\ up' /\ move # 0 =>
                 /\ told'[k] = answers'[k]
                 /\ IF move > 0 THEN move <= said ELSE said <= move]_vars
  BY CurveMoves
<1>2. QED
  BY <1>1, Invariance, PTL DEF Spec, AnswersMoveTheirWay
=============================================================================
