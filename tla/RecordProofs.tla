---------------------------- MODULE RecordProofs ----------------------------
(***************************************************************************)
(* Theorems of ConsumerOutputs for records of any length and content: what *)
(* the decoders make of the bits of a record, what of it reaches the paths *)
(* of the Signal K server and the rows of the web application.             *)
(*                                                                         *)
(* TLC changes the bits of four sample records; here they are any bits.    *)
(***************************************************************************)
EXTENDS ConsumerOutputs, FiniteSetTheorems, SequenceTheorems,
        WellFoundedInduction, TLAPS

----------------------------------------------------------------------------
(* Numbers.                                                                *)

\* The theorem on well-founded orderings in place of an induction: a set of numbers
\* has a least one.
LEMMA LeastNumber ==
  ASSUME NEW M \in SUBSET Nat, M # {}
  PROVE  \E m \in M : \A i \in M : m <= i
<1>1. PICK m \in M : \A i \in M : ~(<<i, m>> \in OpToRel(<, Nat))
  BY NatLessThanWellFounded, WFMin
<1>2. \A i \in M : ~(i < m)
  BY <1>1 DEF OpToRel
<1> QED
  BY <1>2

Bits == Seq({0, 1})

\* The function in NumberWith is there: a position from which it is defined has one
\* before it from which it is, too.
LEMMA FromExists ==
  ASSUME NEW bits, NEW top, NEW length \in Nat \ {0}
  PROVE  \E from : from = [i \in 1..length |->
                             IF i = length THEN top ELSE bits[i] + 2 * from[i + 1]]
<1> DEFINE M == {k \in 1..length : \E from : from = [i \in k..length |->
                             IF i = length THEN top ELSE bits[i] + 2 * from[i + 1]]}
<1>1. M \in SUBSET Nat /\ length \in M
  <2> DEFINE last == [i \in length..length |-> top]
  <2>1. last = [i \in length..length |->
                  IF i = length THEN top ELSE bits[i] + 2 * last[i + 1]]
    OBVIOUS
  <2> HIDE DEF last
  <2>2. length \in M
    BY <2>1
  <2>3. M \subseteq 1..length
    OBVIOUS
  <2> HIDE DEF M
  <2> QED
    BY <2>2, <2>3
<1>2. PICK m \in M : \A k \in M : m <= k
  <2> HIDE DEF M
  <2> QED
    BY <1>1, LeastNumber
<1>3. PICK from : from = [i \in m..length |->
                             IF i = length THEN top ELSE bits[i] + 2 * from[i + 1]]
  OBVIOUS
<1>4. CASE m = 1
  BY <1>3, <1>4
<1>5. CASE m # 1
  <2> DEFINE further == [i \in m - 1..length |->
                           IF i = m - 1 THEN bits[i] + 2 * from[m] ELSE from[i]]
  <2>1. m \in 1..length /\ m - 1 \in 1..length
    BY <1>5
  <2>2. \A i \in m - 1..length : further[i]
          = IF i = length THEN top ELSE bits[i] + 2 * further[i + 1]
    <3> SUFFICES ASSUME NEW i \in m - 1..length
                 PROVE  further[i] = IF i = length THEN top
                                     ELSE bits[i] + 2 * further[i + 1]
      OBVIOUS
    <3>1. CASE i = m - 1
      <4>1. i # length /\ i + 1 = m /\ i + 1 \in m - 1..length /\ i + 1 # m - 1
        BY <2>1, <3>1
      <4> QED
        BY <3>1, <4>1
    <3>2. CASE i # m - 1
      <4>1. i \in m..length /\ (i # length => i + 1 \in m - 1..length /\ i + 1 # m - 1)
        BY <2>1, <3>2
      <4>2. from[i] = IF i = length THEN top ELSE bits[i] + 2 * from[i + 1]
        BY <1>3, <4>1
      <4> QED
        BY <3>2, <4>1, <4>2
    <3> QED
      BY <3>1, <3>2
  <2>3. further = [i \in m - 1..length |->
                     IF i = length THEN top ELSE bits[i] + 2 * further[i + 1]]
    <3>1. \A i \in m - 1..length : further[i] =
            [j \in m - 1..length |->
               IF j = length THEN top ELSE bits[j] + 2 * further[j + 1]][i]
      BY <2>2
    <3>2. further = [i \in m - 1..length |-> further[i]]
      OBVIOUS
    <3> HIDE DEF further
    <3> QED
      BY <2>2, <3>2
  <2>4. m - 1 \in M
    <3> HIDE DEF further
    <3> QED
      BY <2>1, <2>3
  <2> QED
    BY <1>2, <2>1, <2>4
<1> QED
  BY <1>4, <1>5

\* What NumberWith answers: the first of some whole numbers, each made of a bit and
\* twice the next.
LEMMA NumberIs ==
  ASSUME NEW bits \in Bits, bits # <<>>, NEW top \in Int
  PROVE  \E from \in [1..Len(bits) -> Int] :
           /\ NumberWith(bits, top) = from[1]
           /\ from[Len(bits)] = top
           /\ \A i \in 1..Len(bits) - 1 : from[i] = bits[i] + 2 * from[i + 1]
<1> DEFINE length == Len(bits)
           from == CHOOSE f : f = [i \in 1..length |->
                             IF i = length THEN top ELSE bits[i] + 2 * f[i + 1]]
<1>1. length \in Nat \ {0} /\ \A i \in 1..length : bits[i] \in Int
  BY EmptySeq, LenProperties, ElementOfSeq DEF Bits
<1>2. NumberWith(bits, top) = from[1]
  BY DEF NumberWith
<1> HIDE DEF length
<1>3. from = [i \in 1..length |->
                IF i = length THEN top ELSE bits[i] + 2 * from[i + 1]]
  BY <1>1, FromExists
<1> HIDE DEF from
<1>4. /\ \A i \in 1..length :
           from[i] = IF i = length THEN top ELSE bits[i] + 2 * from[i + 1]
      /\ DOMAIN from = 1..length
  BY <1>3
<1> DEFINE M == {k \in 1..length : \A i \in k..length : from[i] \in Int}
<1>5. M \in SUBSET Nat /\ length \in M
  BY <1>1, <1>4
<1>6. PICK m \in M : \A k \in M : m <= k
  <2> HIDE DEF M
  <2> QED
    BY <1>5, LeastNumber
<1>7. m = 1
  <2> SUFFICES ASSUME m # 1 PROVE FALSE
    OBVIOUS
  <2>1. m \in 1..length /\ m - 1 \in 1..length /\ m - 1 # length /\ from[m] \in Int
    BY <1>1
  <2>2. from[m - 1] = bits[m - 1] + 2 * from[m]
    BY <1>1, <1>4, <2>1
  <2>3. from[m - 1] \in Int
    BY <1>1, <2>1, <2>2
  <2>4. m - 1 \in M
    BY <2>1, <2>3
  <2> QED
    BY <1>6, <2>1, <2>4
<1>8. from \in [1..length -> Int]
  <2>1. \A i \in 1..length : from[i] \in Int
    BY <1>7
  <2>2. from = [i \in 1..length |-> from[i]]
    BY <1>3, <1>4
  <2> QED
    BY <2>1, <2>2
<1>9. /\ from[length] = top
      /\ \A i \in 1..length - 1 : from[i] = bits[i] + 2 * from[i + 1]
  BY <1>1, <1>4
<1> QED
  BY <1>2, <1>8, <1>9 DEF length

\* A number without a sign is not negative.
LEMMA NumberIsNatural ==
  ASSUME NEW bits \in Bits, bits # <<>>
  PROVE  Number(bits) \in Nat
<1> DEFINE length == Len(bits)
<1>1. length \in Nat \ {0} /\ \A i \in 1..length : bits[i] \in {0, 1}
  BY EmptySeq, LenProperties, ElementOfSeq DEF Bits
<1>2. PICK from \in [1..length -> Int] :
        /\ Number(bits) = from[1]
        /\ from[length] = bits[length]
        /\ \A i \in 1..length - 1 : from[i] = bits[i] + 2 * from[i + 1]
  BY <1>1, NumberIs DEF Number
<1> HIDE DEF length
<1> DEFINE M == {k \in 1..length : from[k] \in Nat}
<1>3. M \in SUBSET Nat /\ length \in M
  BY <1>1, <1>2
<1>4. PICK m \in M : \A k \in M : m <= k
  <2> HIDE DEF M
  <2> QED
    BY <1>3, LeastNumber
<1>5. m = 1
  <2> SUFFICES ASSUME m # 1 PROVE FALSE
    OBVIOUS
  <2>1. m \in 1..length /\ m - 1 \in 1..length - 1 /\ from[m] \in Nat
    BY <1>1
  <2>2. from[m - 1] = bits[m - 1] + 2 * from[m]
    BY <1>1, <1>2, <2>1
  <2>3. m - 1 \in 1..length /\ bits[m - 1] \in {0, 1}
    BY <1>1, <2>1
  <2>4. from[m - 1] \in Nat
    BY <2>1, <2>2, <2>3
  <2>5. m - 1 \in M
    BY <2>3, <2>4
  <2> QED
    BY <1>4, <2>1, <2>5
<1> QED
  BY <1>2, <1>5

\* The powers of two of the widths in use.
Powers == {0, 1, 2, 3, 4, 5, 6, 7, 8, 9, 10, 11, 12, 13, 14, 15, 16, 17, 18, 19, 20}

LEMMA PowersDouble ==
  \A i \in Powers : 2^i \in Nat \ {0} /\ 2^(i + 1) = 2 * 2^i
<1> SUFFICES ASSUME NEW i \in Powers PROVE 2^i \in Nat \ {0} /\ 2^(i + 1) = 2 * 2^i
  OBVIOUS
<1>0. CASE i = 0 BY <1>0
<1>1. CASE i = 1 BY <1>1
<1>2. CASE i = 2 BY <1>2
<1>3. CASE i = 3 BY <1>3
<1>4. CASE i = 4 BY <1>4
<1>5. CASE i = 5 BY <1>5
<1>6. CASE i = 6 BY <1>6
<1>7. CASE i = 7 BY <1>7
<1>8. CASE i = 8 BY <1>8
<1>9. CASE i = 9 BY <1>9
<1>10. CASE i = 10 BY <1>10
<1>11. CASE i = 11 BY <1>11
<1>12. CASE i = 12 BY <1>12
<1>13. CASE i = 13 BY <1>13
<1>14. CASE i = 14 BY <1>14
<1>15. CASE i = 15 BY <1>15
<1>16. CASE i = 16 BY <1>16
<1>17. CASE i = 17 BY <1>17
<1>18. CASE i = 18 BY <1>18
<1>19. CASE i = 19 BY <1>19
<1>20. CASE i = 20 BY <1>20
<1> QED
  BY <1>0, <1>1, <1>2, <1>3, <1>4, <1>5, <1>6, <1>7, <1>8, <1>9, <1>10, <1>11,
     <1>12, <1>13, <1>14, <1>15, <1>16, <1>17, <1>18, <1>19, <1>20 DEF Powers

\* Halving takes the lowest bit off a number, a negative one too.
LEMMA HalvingTwice ==
  ASSUME NEW n \in Int, NEW i \in Powers
  PROVE  /\ n \div 2^i \in Int /\ n \div 2^(i + 1) = (n \div 2^i) \div 2
         /\ n \div 2^i = BitOf(n, i) + 2 * (n \div 2^(i + 1))
         /\ BitOf(n, i) \in {0, 1}
<1> DEFINE power == 2^i
           half == n \div power
<1>1. power \in Nat \ {0} /\ 2^(i + 1) = 2 * power
  BY PowersDouble
<1>2. n \div 2^(i + 1) = n \div (2 * power)
  BY <1>1
<1> HIDE DEF power
<1>3. half \in Int /\ n \div (2 * power) = half \div 2
  BY <1>1
<1>4. BitOf(n, i) = half % 2
  BY DEF BitOf, power
<1> HIDE DEF half
<1>5. half = (half % 2) + 2 * (half \div 2) /\ half % 2 \in {0, 1}
  BY <1>3
<1> QED
  BY <1>2, <1>3, <1>4, <1>5 DEF half, power

LEMMA ABitAndTwice ==
  ASSUME NEW b \in {0, 1}, NEW c \in {0, 1}, NEW n \in Int, NEW k \in Int,
         b + 2 * n = c + 2 * k
  PROVE  b = c /\ n = k
OBVIOUS

\* A number is another exactly when their bits are the same below the last, and what
\* is left of the other there is what the last bit counts.
LEMMA BitsOfNumber ==
  ASSUME NEW bits \in Bits, bits # <<>>, Len(bits) <= 22,
         NEW top \in Int, NEW n \in Int
  PROVE  NumberWith(bits, top) = n <=>
           /\ n \div 2^(Len(bits) - 1) = top
           /\ \A i \in 1..Len(bits) - 1 : bits[i] = BitOf(n, i - 1)
<1> DEFINE length == Len(bits)
<1>1. length \in Nat \ {0} /\ length <= 22 /\ \A i \in 1..length : bits[i] \in {0, 1}
  BY EmptySeq, LenProperties, ElementOfSeq DEF Bits
<1>2. PICK from \in [1..length -> Int] :
        /\ NumberWith(bits, top) = from[1]
        /\ from[length] = top
        /\ \A i \in 1..length - 1 : from[i] = bits[i] + 2 * from[i + 1]
  BY NumberIs
<1> HIDE DEF length
<1> DEFINE rest(i) == n \div 2^(i - 1)
<1>3. \A i \in 1..length - 1 : i - 1 \in Powers /\ (i - 1) + 1 = i
  BY <1>1 DEF Powers
<1>4. rest(1) = n
  <2>1. 2^0 = 1 /\ 1 - 1 = 0
    OBVIOUS
  <2> QED
    BY <2>1
<1>5. \A i \in 1..length - 1 :
        /\ rest(i) = BitOf(n, i - 1) + 2 * rest(i + 1)
        /\ BitOf(n, i - 1) \in {0, 1} /\ rest(i + 1) \in Int
  <2> SUFFICES ASSUME NEW i \in 1..length - 1
               PROVE  /\ rest(i) = BitOf(n, i - 1) + 2 * rest(i + 1)
                      /\ BitOf(n, i - 1) \in {0, 1} /\ rest(i + 1) \in Int
    OBVIOUS
  <2>1. i - 1 \in Powers /\ (i - 1) + 1 = i /\ (i + 1) - 1 = i
    BY <1>1, <1>3
  <2>2. /\ n \div 2^(i - 1) = BitOf(n, i - 1) + 2 * (n \div 2^i)
        /\ BitOf(n, i - 1) \in {0, 1}
    BY <2>1, HalvingTwice
  <2>3. n \div 2^i \in Int
    <3>1. n \div 2^(i - 1) \in Int /\ n \div 2^i = (n \div 2^(i - 1)) \div 2
      BY <2>1, HalvingTwice
    <3> QED
      BY <3>1
  <2> QED
    BY <2>1, <2>2, <2>3
<1> HIDE DEF rest
<1>6. ASSUME from[1] = n
      PROVE  /\ rest(length) = top
             /\ \A i \in 1..length - 1 : bits[i] = BitOf(n, i - 1)
  <2> DEFINE M == {k \in 1..length : from[k] # rest(k)}
  <2>1. M = {}
    <3> SUFFICES ASSUME M # {} PROVE FALSE
      OBVIOUS
    <3>1. M \in SUBSET Nat
      BY <1>1
    <3>2. PICK m \in M : \A k \in M : m <= k
      <4> HIDE DEF M
      <4> QED
        BY <3>1, LeastNumber
    <3>3. m # 1 /\ m \in 1..length /\ from[m] # rest(m)
      BY <1>4, <1>6
    <3>4. m - 1 \in 1..length - 1 /\ m - 1 \in 1..length /\ (m - 1) + 1 = m
      BY <1>1, <3>3
    <3>5. from[m - 1] = rest(m - 1)
      BY <3>2, <3>4
    <3>6. /\ bits[m - 1] + 2 * from[m] = BitOf(n, (m - 1) - 1) + 2 * rest(m)
          /\ BitOf(n, (m - 1) - 1) \in {0, 1} /\ rest(m) \in Int
      BY <1>2, <1>5, <3>4, <3>5
    <3>7. bits[m - 1] \in {0, 1} /\ from[m] \in Int
      BY <1>1, <1>2, <3>3, <3>4
    <3>8. from[m] = rest(m)
      BY <3>6, <3>7, ABitAndTwice
    <3> QED
      BY <3>3, <3>8
  <2>2. \A k \in 1..length : from[k] = rest(k)
    BY <2>1
  <2>3. ASSUME NEW i \in 1..length - 1 PROVE bits[i] = BitOf(n, i - 1)
    <3>1. i \in 1..length /\ i + 1 \in 1..length
      BY <1>1
    <3>2. /\ bits[i] + 2 * from[i + 1] = BitOf(n, i - 1) + 2 * rest(i + 1)
          /\ BitOf(n, i - 1) \in {0, 1} /\ rest(i + 1) \in Int
      BY <1>2, <1>5, <2>2, <3>1
    <3>3. bits[i] \in {0, 1} /\ from[i + 1] \in Int
      BY <1>1, <1>2, <3>1
    <3> QED
      BY <3>2, <3>3, ABitAndTwice
  <2> QED
    BY <1>1, <1>2, <2>2, <2>3
<1>7. ASSUME rest(length) = top,
             \A i \in 1..length - 1 : bits[i] = BitOf(n, i - 1)
      PROVE  from[1] = n
  <2> DEFINE M == {k \in 1..length : from[k] = rest(k)}
  <2>1. M \in SUBSET Nat /\ length \in M
    BY <1>1, <1>2, <1>7
  <2>2. PICK m \in M : \A k \in M : m <= k
    <3> HIDE DEF M
    <3> QED
      BY <2>1, LeastNumber
  <2>3. m = 1
    <3> SUFFICES ASSUME m # 1 PROVE FALSE
      OBVIOUS
    <3>1. m \in 1..length /\ m - 1 \in 1..length - 1 /\ m - 1 \in 1..length
          /\ (m - 1) + 1 = m /\ from[m] = rest(m)
      BY <1>1
    <3>2. from[m - 1] = rest(m - 1)
      BY <1>2, <1>5, <1>7, <3>1
    <3> QED
      BY <1>1, <2>2, <3>1, <3>2
  <2> QED
    BY <1>4, <2>3
<1>8. NumberWith(bits, top) = n <=>
        /\ rest(length) = top
        /\ \A i \in 1..length - 1 : bits[i] = BitOf(n, i - 1)
  BY <1>2, <1>6, <1>7
<1> QED
  BY <1>8 DEF length, rest

\* A number without a sign is one that fits its bits exactly when its bits are the
\* same; so is a signed one, whose last bit is then zero unless it is negative.
LEMMA SameNumberSameBits ==
  ASSUME NEW bits \in Bits, bits # <<>>, Len(bits) <= 22, NEW n \in Nat
  PROVE  /\ n \div 2^(Len(bits) - 1) \in {0, 1} =>
              (Number(bits) = n <=> \A i \in 1..Len(bits) : bits[i] = BitOf(n, i - 1))
         /\ n \div 2^(Len(bits) - 1) = 0 =>
              (SignedNumber(bits) = n
                <=> \A i \in 1..Len(bits) : bits[i] = BitOf(n, i - 1))
<1> DEFINE length == Len(bits)
           rest == n \div 2^(length - 1)
           below == \A i \in 1..length - 1 : bits[i] = BitOf(n, i - 1)
<1>1. length \in Nat \ {0} /\ length <= 22 /\ \A i \in 1..length : bits[i] \in {0, 1}
  BY EmptySeq, LenProperties, ElementOfSeq DEF Bits
<1>2. bits[length] \in {0, 1} /\ -bits[length] \in Int
  BY <1>1
<1>3. Number(bits) = n <=> rest = bits[length] /\ below
  BY <1>2, BitsOfNumber DEF Number
<1>4. SignedNumber(bits) = n <=> rest = -bits[length] /\ below
  <2> DEFINE top == -bits[length]
  <2>1. SignedNumber(bits) = NumberWith(bits, top) /\ top \in Int
    BY <1>2 DEF SignedNumber
  <2> HIDE DEF top
  <2>2. NumberWith(bits, top) = n <=> rest = top /\ below
    BY <2>1, BitsOfNumber
  <2> QED
    BY <2>1, <2>2 DEF top
<1>5. rest \in {0, 1} => BitOf(n, length - 1) = rest
  <2>1. BitOf(n, length - 1) = rest % 2
    BY DEF BitOf
  <2> HIDE DEF rest
  <2> QED
    BY <2>1
<1>6. (\A i \in 1..length : bits[i] = BitOf(n, i - 1))
        <=> below /\ bits[length] = BitOf(n, length - 1)
  <2> HIDE DEF length
  <2> QED
    BY <1>1
<1> HIDE DEF below, rest, length
<1>7. rest \in {0, 1} => (Number(bits) = n <=> below /\ bits[length] = BitOf(n, length - 1))
  BY <1>3, <1>5
<1>8. rest = 0 => (SignedNumber(bits) = n <=> below /\ bits[length] = BitOf(n, length - 1))
  BY <1>2, <1>4, <1>5
<1> QED
  BY <1>6, <1>7, <1>8 DEF rest, length

----------------------------------------------------------------------------
(* Reading a field.                                                        *)

\* What readBits() takes from a record: the bits of the field, or nothing.
LEMMA ReadBitsIs ==
  ASSUME NEW record \in Bits, NEW start \in Nat, NEW width \in Nat \ {0}
  PROVE  LET bits == ReadBits(record, start, width)
         IN /\ start + width > Len(record) => bits = <<>>
            /\ start + width <= Len(record) =>
                 /\ bits \in Bits /\ bits # <<>> /\ Len(bits) = width
                 /\ \A i \in 1..width : bits[i] = record[start + i]
<1>1. Len(record) \in Nat /\ \A i \in 1..Len(record) : record[i] \in {0, 1}
  BY LenProperties, ElementOfSeq DEF Bits
<1>2. CASE start + width > Len(record)
  BY <1>1, <1>2 DEF ReadBits
<1>3. CASE start + width <= Len(record)
  <2> DEFINE bits == SubSeq(record, start + 1, start + width)
  <2>1. ReadBits(record, start, width) = bits
    BY <1>1, <1>3 DEF ReadBits
  <2>2. \A i \in start + 1..start + width : record[i] \in {0, 1}
    BY <1>1, <1>3
  <2>3. /\ bits \in Seq({0, 1}) /\ Len(bits) = width
        /\ \A i \in 1..width : bits[i] = record[start + i]
    <3>1. /\ start + 1 \in Int /\ start + width \in Int /\ start + 1 <= start + width
          /\ (start + width) - (start + 1) + 1 = width
      OBVIOUS
    <3>2. /\ bits \in Seq({0, 1})
          /\ Len(bits) = (start + width) - (start + 1) + 1
          /\ \A i \in 1..(start + width) - (start + 1) + 1 :
               bits[i] = record[(start + 1) + i - 1]
      BY <2>2, <3>1, SubSeqProperties DEF Bits
    <3>3. \A i \in 1..width : (start + 1) + i - 1 = start + i
      OBVIOUS
    <3> HIDE DEF bits
    <3> QED
      BY <3>1, <3>2, <3>3
  <2>4. bits # <<>>
    <3> HIDE DEF bits
    <3> QED
      BY <2>3, EmptySeq
  <2> HIDE DEF bits
  <2> QED
    BY <1>1, <1>3, <2>1, <2>3, <2>4 DEF Bits
<1> QED
  BY <1>1, <1>2, <1>3

----------------------------------------------------------------------------
(* The layouts.                                                            *)

Kinds == {"flags", "unsigned", "signed", "allOnes", "cell", "aux", "auxNoMid"}

\* The bits of a field can say the number that is reserved in it; a signed field
\* says it as a positive number.
Says(width, n) == width \in 1..22 /\ n \in Nat /\ n \div 2^(width - 1) \in {0, 1}
SaysSigned(width, n) == width \in 1..22 /\ n \in Nat /\ n \div 2^(width - 1) = 0

IsField(f) ==
  /\ DOMAIN f = {"kind", "name", "start", "width", "na", "step", "zero"}
  /\ f.kind \in Kinds /\ f.start \in Nat /\ f.width \in Nat \ {0} /\ f.na \in Nat
  /\ f.step \in Int /\ f.zero \in Int
  /\ f.kind \in {"unsigned", "allOnes", "cell"} => Says(f.width, f.na)
  /\ f.kind = "signed" => SaysSigned(f.width, f.na)
  /\ f.kind = "cell" => f.na = \h7F
  /\ f.kind \in {"aux", "auxNoMid"} => f.width = 18

\* Each number that is reserved somewhere.
LEMMA ReservedNumbers ==
  /\ Says(8, 255) /\ Says(16, \hFFFF) /\ Says(9, \h1FF) /\ Says(22, \h3FFFFF)
  /\ Says(20, \hFFFFF) /\ Says(10, \h3FF) /\ Says(15, \h7FFF) /\ Says(11, \h7FF)
  /\ Says(7, \h7F) /\ Says(12, \hFFF) /\ Says(4, 15) /\ Says(14, \h3FFF)
  /\ Says(2, 3) /\ SaysSigned(16, \h7FFF) /\ SaysSigned(19, \h3FFFF)
<1>1. /\ 2^7 = 128 /\ 2^15 = 32768 /\ 2^8 = 256 /\ 2^21 = 2097152 /\ 2^19 = 524288
      /\ 2^9 = 512 /\ 2^14 = 16384 /\ 2^10 = 1024 /\ 2^6 = 64 /\ 2^11 = 2048
      /\ 2^3 = 8 /\ 2^13 = 8192 /\ 2^1 = 2 /\ 2^18 = 262144
  OBVIOUS
<1> QED
  BY <1>1 DEF Says, SaysSigned

\* What the constructors of fields make.
LEMMA FlagsIs ==
  ASSUME NEW name, NEW start \in Nat, NEW width \in Nat \ {0}
  PROVE  IsField(Flags(name, start, width))
BY DEF Flags, Field, IsField, Kinds

LEMMA UnsignedIs ==
  ASSUME NEW name, NEW start \in Nat, NEW width \in Nat \ {0}, NEW na \in Nat,
         Says(width, na)
  PROVE  IsField(Unsigned(name, start, width, na))
BY DEF Unsigned, Field, IsField, Kinds

LEMMA SignedIs ==
  ASSUME NEW name, NEW start \in Nat, NEW na \in Nat, SaysSigned(16, na)
  PROVE  IsField(Signed(name, start, na))
BY DEF Signed, Field, IsField, Kinds

LEMMA CelsiusIs ==
  ASSUME NEW name, NEW start \in Nat
  PROVE  IsField(Celsius(name, start))
<1>1. IsField(Unsigned(name, start, 7, \h7F))
  BY ReservedNumbers, UnsignedIs
<1> QED
  BY <1>1 DEF Celsius, IsField, Unsigned, Field

LEMMA UnsignedInStepsIs ==
  ASSUME NEW name, NEW start \in Nat, NEW width \in Nat \ {0}, NEW na \in Nat,
         Says(width, na), NEW n \in Int
  PROVE  IsField(InSteps(n, Unsigned(name, start, width, na)))
<1>1. IsField(Unsigned(name, start, width, na))
  BY UnsignedIs
<1> QED
  BY <1>1 DEF InSteps, IsField

LEMMA SignedInStepsIs ==
  ASSUME NEW name, NEW start \in Nat, NEW na \in Nat, SaysSigned(16, na), NEW n \in Int
  PROVE  IsField(InSteps(n, Signed(name, start, na)))
<1>1. IsField(Signed(name, start, na))
  BY SignedIs
<1> QED
  BY <1>1 DEF InSteps, IsField

LEMMA FieldIs ==
  ASSUME NEW name, NEW start \in Nat, NEW width \in Nat \ {0}, NEW na \in Nat
  PROVE  /\ SaysSigned(width, na) => IsField(Field("signed", name, start, width, na))
         /\ Says(width, na) => IsField(Field("allOnes", name, start, width, na))
         /\ na = \h7F /\ Says(width, na) => IsField(Field("cell", name, start, width, na))
         /\ width = 18 => /\ IsField(Field("aux", name, start, width, na))
                          /\ IsField(Field("auxNoMid", name, start, width, na))
BY DEF Field, IsField, Kinds

LEMMA SolarChargerFields == \A f \in SolarCharger : IsField(f)
BY ReservedNumbers, FlagsIs, UnsignedIs, SignedIs, CelsiusIs,
   UnsignedInStepsIs, SignedInStepsIs, FieldIs
DEF SolarCharger

LEMMA BatteryMonitorFields == \A f \in BatteryMonitor : IsField(f)
BY ReservedNumbers, FlagsIs, UnsignedIs, SignedIs, CelsiusIs,
   UnsignedInStepsIs, SignedInStepsIs, FieldIs
DEF BatteryMonitor

LEMMA InverterFields == \A f \in Inverter : IsField(f)
BY ReservedNumbers, FlagsIs, UnsignedIs, SignedIs, CelsiusIs,
   UnsignedInStepsIs, SignedInStepsIs, FieldIs
DEF Inverter, StateAndName

LEMMA DcDcConverterFields == \A f \in DcDcConverter : IsField(f)
BY ReservedNumbers, FlagsIs, UnsignedIs, SignedIs, CelsiusIs,
   UnsignedInStepsIs, SignedInStepsIs, FieldIs
DEF DcDcConverter

LEMMA SmartLithiumFields == \A f \in SmartLithium : IsField(f)
BY ReservedNumbers, FlagsIs, UnsignedIs, SignedIs, CelsiusIs,
   UnsignedInStepsIs, SignedInStepsIs, FieldIs
DEF SmartLithium

LEMMA InverterRsFields == \A f \in InverterRs : IsField(f)
BY ReservedNumbers, FlagsIs, UnsignedIs, SignedIs, CelsiusIs,
   UnsignedInStepsIs, SignedInStepsIs, FieldIs
DEF InverterRs, StateAndName, ErrorAndName

LEMMA BatteryProtectFields == \A f \in BatteryProtect : IsField(f)
BY ReservedNumbers, FlagsIs, UnsignedIs, SignedIs, CelsiusIs,
   UnsignedInStepsIs, SignedInStepsIs, FieldIs
DEF BatteryProtect, StateAndName, ErrorAndName

LEMMA LynxSmartBmsFields == \A f \in LynxSmartBms : IsField(f)
BY ReservedNumbers, FlagsIs, UnsignedIs, SignedIs, CelsiusIs,
   UnsignedInStepsIs, SignedInStepsIs, FieldIs
DEF LynxSmartBms

LEMMA MultiRsFields == \A f \in MultiRs : IsField(f)
BY ReservedNumbers, FlagsIs, UnsignedIs, SignedIs, CelsiusIs,
   UnsignedInStepsIs, SignedInStepsIs, FieldIs
DEF MultiRs, MultiRsWith, StateAndName, ErrorAndName

LEMMA VeBusFields == \A f \in VeBus : IsField(f)
BY ReservedNumbers, FlagsIs, UnsignedIs, SignedIs, CelsiusIs,
   UnsignedInStepsIs, SignedInStepsIs, FieldIs
DEF VeBus, StateAndName

LEMMA DcEnergyMeterFields == \A f \in DcEnergyMeter : IsField(f)
BY ReservedNumbers, FlagsIs, UnsignedIs, SignedIs, CelsiusIs,
   UnsignedInStepsIs, SignedInStepsIs, FieldIs
DEF DcEnergyMeter

LEMMA OrionXsFields == \A f \in OrionXs : IsField(f)
BY ReservedNumbers, FlagsIs, UnsignedIs, SignedIs, CelsiusIs,
   UnsignedInStepsIs, SignedInStepsIs, FieldIs
DEF OrionXs, StateAndName, ErrorAndName

----------------------------------------------------------------------------
(* The places of the fields.                                               *)

IsAt(f, start, width) == f.start = start /\ f.width = width

LEMMA FieldIsAt ==
  ASSUME NEW kind, NEW name, NEW start \in Nat, NEW width \in Nat, NEW na \in Nat
  PROVE  IsAt(Field(kind, name, start, width, na), start, width)
BY DEF Field, IsAt

LEMMA FlagsIsAt ==
  ASSUME NEW name, NEW start \in Nat, NEW width \in Nat
  PROVE  IsAt(Flags(name, start, width), start, width)
BY FieldIsAt DEF Flags

LEMMA UnsignedIsAt ==
  ASSUME NEW name, NEW start \in Nat, NEW width \in Nat, NEW na \in Nat
  PROVE  IsAt(Unsigned(name, start, width, na), start, width)
BY FieldIsAt DEF Unsigned

LEMMA SignedIsAt ==
  ASSUME NEW name, NEW start \in Nat, NEW na \in Nat
  PROVE  IsAt(Signed(name, start, na), start, 16)
BY FieldIsAt DEF Signed

LEMMA UnsignedInStepsIsAt ==
  ASSUME NEW name, NEW start \in Nat, NEW width \in Nat, NEW na \in Nat, NEW n \in Int
  PROVE  IsAt(InSteps(n, Unsigned(name, start, width, na)), start, width)
BY DEF Unsigned, Field, IsAt, InSteps

LEMMA SignedInStepsIsAt ==
  ASSUME NEW name, NEW start \in Nat, NEW na \in Nat, NEW n \in Int
  PROVE  IsAt(InSteps(n, Signed(name, start, na)), start, 16)
BY DEF Signed, Field, IsAt, InSteps

LEMMA CelsiusIsAt ==
  ASSUME NEW name, NEW start \in Nat
  PROVE  IsAt(Celsius(name, start), start, 7)
BY DEF Celsius, Unsigned, Field, IsAt

LEMMA SolarChargerPlaces ==
  \A f \in SolarCharger :
    \/ IsAt(f, 0, 8) \/ IsAt(f, 8, 8) \/ IsAt(f, 16, 16)
    \/ IsAt(f, 32, 16) \/ IsAt(f, 48, 16) \/ IsAt(f, 64, 16)
    \/ IsAt(f, 80, 9)
BY FieldIsAt, FlagsIsAt, UnsignedIsAt, SignedIsAt, CelsiusIsAt, UnsignedInStepsIsAt,
   SignedInStepsIsAt
DEF SolarCharger

LEMMA BatteryMonitorPlaces ==
  \A f \in BatteryMonitor :
    \/ IsAt(f, 0, 16) \/ IsAt(f, 16, 16) \/ IsAt(f, 32, 16)
    \/ IsAt(f, 48, 18) \/ IsAt(f, 66, 22) \/ IsAt(f, 88, 20)
    \/ IsAt(f, 108, 10)
BY FieldIsAt, FlagsIsAt, UnsignedIsAt, SignedIsAt, CelsiusIsAt, UnsignedInStepsIsAt,
   SignedInStepsIsAt
DEF BatteryMonitor

LEMMA InverterPlaces ==
  \A f \in Inverter :
    \/ IsAt(f, 0, 8) \/ IsAt(f, 8, 16) \/ IsAt(f, 24, 16)
    \/ IsAt(f, 40, 16) \/ IsAt(f, 56, 15) \/ IsAt(f, 71, 11)
BY FieldIsAt, FlagsIsAt, UnsignedIsAt, SignedIsAt, CelsiusIsAt, UnsignedInStepsIsAt,
   SignedInStepsIsAt
DEF Inverter, StateAndName

LEMMA DcDcConverterPlaces ==
  \A f \in DcDcConverter :
    \/ IsAt(f, 0, 8) \/ IsAt(f, 8, 8) \/ IsAt(f, 16, 16)
    \/ IsAt(f, 32, 16) \/ IsAt(f, 48, 32)
BY FieldIsAt, FlagsIsAt, UnsignedIsAt, SignedIsAt, CelsiusIsAt, UnsignedInStepsIsAt,
   SignedInStepsIsAt
DEF DcDcConverter

LEMMA SmartLithiumPlaces ==
  \A f \in SmartLithium :
    \/ IsAt(f, 0, 32) \/ IsAt(f, 32, 16) \/ IsAt(f, 48, 7)
    \/ IsAt(f, 55, 7) \/ IsAt(f, 62, 7) \/ IsAt(f, 69, 7)
    \/ IsAt(f, 76, 7) \/ IsAt(f, 83, 7) \/ IsAt(f, 90, 7)
    \/ IsAt(f, 97, 7) \/ IsAt(f, 104, 12) \/ IsAt(f, 116, 4)
    \/ IsAt(f, 120, 7)
BY FieldIsAt, FlagsIsAt, UnsignedIsAt, SignedIsAt, CelsiusIsAt, UnsignedInStepsIsAt,
   SignedInStepsIsAt
DEF SmartLithium

LEMMA InverterRsPlaces ==
  \A f \in InverterRs :
    \/ IsAt(f, 0, 8) \/ IsAt(f, 8, 8) \/ IsAt(f, 16, 16)
    \/ IsAt(f, 32, 16) \/ IsAt(f, 48, 16) \/ IsAt(f, 64, 16)
    \/ IsAt(f, 80, 16)
BY FieldIsAt, FlagsIsAt, UnsignedIsAt, SignedIsAt, CelsiusIsAt, UnsignedInStepsIsAt,
   SignedInStepsIsAt
DEF InverterRs, StateAndName, ErrorAndName

LEMMA BatteryProtectPlaces ==
  \A f \in BatteryProtect :
    \/ IsAt(f, 0, 8) \/ IsAt(f, 16, 8) \/ IsAt(f, 8, 8)
    \/ IsAt(f, 24, 16) \/ IsAt(f, 40, 16) \/ IsAt(f, 56, 16)
    \/ IsAt(f, 72, 16) \/ IsAt(f, 88, 32)
BY FieldIsAt, FlagsIsAt, UnsignedIsAt, SignedIsAt, CelsiusIsAt, UnsignedInStepsIsAt,
   SignedInStepsIsAt
DEF BatteryProtect, StateAndName, ErrorAndName

LEMMA LynxSmartBmsPlaces ==
  \A f \in LynxSmartBms :
    \/ IsAt(f, 0, 8) \/ IsAt(f, 8, 16) \/ IsAt(f, 24, 16)
    \/ IsAt(f, 40, 16) \/ IsAt(f, 56, 16) \/ IsAt(f, 72, 18)
    \/ IsAt(f, 90, 10) \/ IsAt(f, 100, 20) \/ IsAt(f, 120, 7)
BY FieldIsAt, FlagsIsAt, UnsignedIsAt, SignedIsAt, CelsiusIsAt, UnsignedInStepsIsAt,
   SignedInStepsIsAt
DEF LynxSmartBms

LEMMA MultiRsPlaces ==
  \A f \in MultiRs :
    \/ IsAt(f, 0, 8) \/ IsAt(f, 8, 8) \/ IsAt(f, 16, 16)
    \/ IsAt(f, 32, 14) \/ IsAt(f, 46, 2) \/ IsAt(f, 48, 16)
    \/ IsAt(f, 64, 16) \/ IsAt(f, 80, 16) \/ IsAt(f, 96, 16)
BY FieldIsAt, FlagsIsAt, UnsignedIsAt, SignedIsAt, CelsiusIsAt, UnsignedInStepsIsAt,
   SignedInStepsIsAt
DEF MultiRs, MultiRsWith, StateAndName, ErrorAndName

LEMMA VeBusPlaces ==
  \A f \in VeBus :
    \/ IsAt(f, 0, 8) \/ IsAt(f, 8, 8) \/ IsAt(f, 16, 16)
    \/ IsAt(f, 32, 14) \/ IsAt(f, 46, 2) \/ IsAt(f, 48, 19)
    \/ IsAt(f, 67, 19) \/ IsAt(f, 86, 2) \/ IsAt(f, 88, 7)
    \/ IsAt(f, 95, 7)
BY FieldIsAt, FlagsIsAt, UnsignedIsAt, SignedIsAt, CelsiusIsAt, UnsignedInStepsIsAt,
   SignedInStepsIsAt
DEF VeBus, StateAndName

LEMMA DcEnergyMeterPlaces ==
  \A f \in DcEnergyMeter :
    \/ IsAt(f, 0, 16) \/ IsAt(f, 16, 16) \/ IsAt(f, 32, 16)
    \/ IsAt(f, 48, 18) \/ IsAt(f, 66, 22)
BY FieldIsAt, FlagsIsAt, UnsignedIsAt, SignedIsAt, CelsiusIsAt, UnsignedInStepsIsAt,
   SignedInStepsIsAt
DEF DcEnergyMeter

LEMMA OrionXsPlaces ==
  \A f \in OrionXs :
    \/ IsAt(f, 0, 8) \/ IsAt(f, 8, 8) \/ IsAt(f, 16, 16)
    \/ IsAt(f, 32, 16) \/ IsAt(f, 48, 16) \/ IsAt(f, 64, 16)
    \/ IsAt(f, 80, 32)
BY FieldIsAt, FlagsIsAt, UnsignedIsAt, SignedIsAt, CelsiusIsAt, UnsignedInStepsIsAt,
   SignedInStepsIsAt
DEF OrionXs, StateAndName, ErrorAndName

\* Two fields lie apart unless they start at the same bit.
Apart(f, g) ==
  f.start = g.start \/ f.start + f.width <= g.start \/ g.start + g.width <= f.start

LEMMA SolarChargerApart == \A f, g \in SolarCharger : Apart(f, g)
BY SolarChargerPlaces DEF IsAt, Apart

LEMMA BatteryMonitorApart == \A f, g \in BatteryMonitor : Apart(f, g)
BY BatteryMonitorPlaces DEF IsAt, Apart

LEMMA InverterApart == \A f, g \in Inverter : Apart(f, g)
BY InverterPlaces DEF IsAt, Apart

LEMMA DcDcConverterApart == \A f, g \in DcDcConverter : Apart(f, g)
BY DcDcConverterPlaces DEF IsAt, Apart

LEMMA SmartLithiumApart == \A f, g \in SmartLithium : Apart(f, g)
BY SmartLithiumPlaces DEF IsAt, Apart

LEMMA InverterRsApart == \A f, g \in InverterRs : Apart(f, g)
BY InverterRsPlaces DEF IsAt, Apart

LEMMA BatteryProtectApart == \A f, g \in BatteryProtect : Apart(f, g)
BY BatteryProtectPlaces DEF IsAt, Apart

LEMMA LynxSmartBmsApart == \A f, g \in LynxSmartBms : Apart(f, g)
BY LynxSmartBmsPlaces DEF IsAt, Apart

LEMMA MultiRsApart == \A f, g \in MultiRs : Apart(f, g)
BY MultiRsPlaces DEF IsAt, Apart

LEMMA VeBusApart == \A f, g \in VeBus : Apart(f, g)
BY VeBusPlaces DEF IsAt, Apart

LEMMA DcEnergyMeterApart == \A f, g \in DcEnergyMeter : Apart(f, g)
BY DcEnergyMeterPlaces DEF IsAt, Apart

LEMMA OrionXsApart == \A f, g \in OrionXs : Apart(f, g)
BY OrionXsPlaces DEF IsAt, Apart

LEMMA LayoutOf ==
  /\ DOMAIN Layouts = {1, 2, 3, 4, 5, 6, 9, 10, 11, 12, 13, 15}
  /\ FieldsOf(1) = SolarCharger
  /\ FieldsOf(2) = BatteryMonitor
  /\ FieldsOf(3) = Inverter
  /\ FieldsOf(4) = DcDcConverter
  /\ FieldsOf(5) = SmartLithium
  /\ FieldsOf(6) = InverterRs
  /\ FieldsOf(9) = BatteryProtect
  /\ FieldsOf(10) = LynxSmartBms
  /\ FieldsOf(11) = MultiRs
  /\ FieldsOf(12) = VeBus
  /\ FieldsOf(13) = DcEnergyMeter
  /\ FieldsOf(15) = OrionXs
BY DEF FieldsOf, Layouts

\* What holds of the fields of every layout holds of the fields of a record.
LEMMA FieldsAreFields == \A t \in DOMAIN Layouts : \A f \in FieldsOf(t) : IsField(f)
<1>1. \A t \in {1, 2, 3, 4, 5, 6} : \A f \in FieldsOf(t) : IsField(f)
  BY LayoutOf, SolarChargerFields, BatteryMonitorFields, InverterFields,
     DcDcConverterFields, SmartLithiumFields, InverterRsFields
<1>2. \A t \in {9, 10, 11, 12, 13, 15} : \A f \in FieldsOf(t) : IsField(f)
  BY LayoutOf, BatteryProtectFields, LynxSmartBmsFields, MultiRsFields,
     VeBusFields, DcEnergyMeterFields, OrionXsFields
<1> QED
  BY <1>1, <1>2, LayoutOf

LEMMA FieldsLieApart ==
  \A t \in DOMAIN Layouts : \A f, g \in FieldsOf(t) : Apart(f, g)
<1>1. \A t \in {1, 2, 3, 4, 5, 6} : \A f, g \in FieldsOf(t) : Apart(f, g)
  BY LayoutOf, SolarChargerApart, BatteryMonitorApart, InverterApart,
     DcDcConverterApart, SmartLithiumApart, InverterRsApart
<1>2. \A t \in {9, 10, 11, 12, 13, 15} : \A f, g \in FieldsOf(t) : Apart(f, g)
  BY LayoutOf, BatteryProtectApart, LynxSmartBmsApart, MultiRsApart,
     VeBusApart, DcEnergyMeterApart, OrionXsApart
<1> QED
  BY <1>1, <1>2, LayoutOf

----------------------------------------------------------------------------
(* A record in the air.                                                    *)

\* The value of a field is made of its bits alone.
LEMMA ValueOfBits ==
  ASSUME NEW f, NEW record, NEW other,
         ReadBits(record, f.start, f.width) = ReadBits(other, f.start, f.width)
  PROVE  Value(f, record) = Value(f, other)
BY DEF Value

LEMMA NoBitsNoValue ==
  ASSUME NEW f, NEW record, ReadBits(record, f.start, f.width) = <<>>
  PROVE  Value(f, record) = <<>>
BY DEF Value

\* What is left of a record has the readings that it still covers, unchanged.
LEMMA CutShortFieldIsNull ==
  ASSUME NEW f, IsField(f), NEW record \in Bits, NEW length \in 0..Len(record),
         Value(f, SubSeq(record, 1, length)) # Value(f, record)
  PROVE  Value(f, SubSeq(record, 1, length)) = <<>>
<1> DEFINE rest == SubSeq(record, 1, length)
<1>1. f.start \in Nat /\ f.width \in Nat \ {0} /\ Len(record) \in Nat
  BY LenProperties DEF IsField, Bits
<1>2. /\ rest \in Bits /\ Len(rest) = length
      /\ \A i \in 1..length : rest[i] = record[i]
  <2>1. \A i \in 1..length : record[i] \in {0, 1}
    BY <1>1, ElementOfSeq DEF Bits
  <2>2. /\ rest \in Seq({0, 1})
        /\ Len(rest) = IF 1 <= length THEN length - 1 + 1 ELSE 0
        /\ \A i \in 1..length - 1 + 1 : rest[i] = record[1 + i - 1]
    BY <2>1, SubSeqProperties
  <2>3. length - 1 + 1 = length /\ \A i \in 1..length : 1 + i - 1 = i
    OBVIOUS
  <2> HIDE DEF rest
  <2> QED
    BY <2>2, <2>3 DEF Bits
<1> HIDE DEF rest
<1>3. CASE f.start + f.width > length
  BY <1>1, <1>2, <1>3, ReadBitsIs, NoBitsNoValue DEF rest
<1>4. CASE f.start + f.width <= length
  <2> DEFINE bits == ReadBits(record, f.start, f.width)
             others == ReadBits(rest, f.start, f.width)
  <2>1. f.start + f.width <= Len(record) /\ f.start + f.width <= Len(rest)
    BY <1>1, <1>2, <1>4
  <2>2. /\ bits \in Bits /\ Len(bits) = f.width
        /\ \A i \in 1..f.width : bits[i] = record[f.start + i]
    BY <1>1, <2>1, ReadBitsIs
  <2>3. /\ others \in Bits /\ Len(others) = f.width
        /\ \A i \in 1..f.width : others[i] = rest[f.start + i]
    BY <1>1, <1>2, <2>1, ReadBitsIs
  <2> HIDE DEF bits, others
  <2>4. \A i \in 1..f.width : bits[i] = others[i]
    <3>1. \A i \in 1..f.width : f.start + i \in 1..length
      BY <1>1, <1>4
    <3> QED
      BY <1>2, <2>2, <2>3, <3>1
  <2>5. bits = others
    BY <2>2, <2>3, <2>4, SeqEqual DEF Bits
  <2> QED
    BY <2>5, ValueOfBits DEF bits, others, rest
<1> QED
  BY <1>1, <1>3, <1>4

\* A bit that changes, changes the value of the fields that have it and of no other.
LEMMA BitOfField ==
  ASSUME NEW f, IsField(f), NEW record \in Bits, NEW b \in 1..Len(record),
         Value(f, [record EXCEPT ![b] = 1 - @]) # Value(f, record)
  PROVE  b \in f.start + 1..f.start + f.width
<1> DEFINE next == [record EXCEPT ![b] = 1 - @]
<1>1. /\ f.start \in Nat /\ f.width \in Nat \ {0} /\ Len(record) \in Nat
      /\ record[b] \in {0, 1} /\ DOMAIN record = 1..Len(record)
  BY LenProperties, ElementOfSeq DEF IsField, Bits
<1>2. /\ next \in Bits /\ Len(next) = Len(record)
      /\ \A i \in 1..Len(record) : i # b => next[i] = record[i]
  BY <1>1, ExceptSeq DEF Bits
<1> HIDE DEF next
<1> SUFFICES ASSUME b \notin f.start + 1..f.start + f.width PROVE FALSE
  OBVIOUS
<1> DEFINE bits == ReadBits(record, f.start, f.width)
           others == ReadBits(next, f.start, f.width)
<1>3. CASE f.start + f.width > Len(record)
  <2>1. bits = <<>> /\ others = <<>>
    BY <1>1, <1>2, <1>3, ReadBitsIs
  <2> QED
    BY <2>1, NoBitsNoValue DEF next
<1>4. CASE f.start + f.width <= Len(record)
  <2>1. /\ bits \in Bits /\ Len(bits) = f.width
        /\ \A i \in 1..f.width : bits[i] = record[f.start + i]
    BY <1>1, <1>4, ReadBitsIs
  <2>2. /\ others \in Bits /\ Len(others) = f.width
        /\ \A i \in 1..f.width : others[i] = next[f.start + i]
    BY <1>1, <1>2, <1>4, ReadBitsIs
  <2> HIDE DEF bits, others
  <2>3. \A i \in 1..f.width : bits[i] = others[i]
    <3>1. \A i \in 1..f.width : f.start + i \in 1..Len(record) /\ f.start + i # b
      BY <1>1, <1>4
    <3> QED
      BY <1>2, <2>1, <2>2, <3>1
  <2>4. bits = others
    BY <2>1, <2>2, <2>3, SeqEqual DEF Bits
  <2> QED
    BY <2>4, ValueOfBits DEF bits, others, next
<1> QED
  BY <1>1, <1>3, <1>4

\* The record is one of a known device, of whole bytes.
RecordTypes ==
  /\ type \in DOMAIN Layouts
  /\ data \in Bits /\ Len(data) % 8 = 0

LEMMA SamplesAreRecords ==
  \A record \in Samples : record \in Bits /\ Len(record) = 8 * MaxBytes
<1> DEFINE length == 8 * MaxBytes
<1>1. length \in Nat
  BY RecordsAssumption
<1> HIDE DEF length
<1>2. \A record \in [1..length -> {0, 1}] : record \in Bits /\ Len(record) = length
  <2> SUFFICES ASSUME NEW record \in [1..length -> {0, 1}]
               PROVE  record \in Seq({0, 1}) /\ Len(record) = length
    BY DEF Bits
  <2>1. record \in Seq({0, 1})
    BY <1>1, SeqDef
  <2> QED
    BY <1>1, <2>1, LenProperties
<1>3. \A b \in 1..length : b % 2 \in {0, 1}
  BY <1>1
<1>4. Samples \subseteq [1..length -> {0, 1}]
  BY <1>3 DEF Samples, Unavailable, length
<1> QED
  BY <1>2, <1>4 DEF length

LEMMA RecordTypesKept ==
  RecordTypes /\ [OutputsNext]_outputVars => RecordTypes'
<1> SUFFICES ASSUME RecordTypes, [OutputsNext]_outputVars PROVE RecordTypes'
  OBVIOUS
<1>1. Len(data) \in Nat /\ MaxBytes \in Nat /\ 8 * MaxBytes % 8 = 0
  <2>1. Len(data) \in Nat
    BY LenProperties DEF RecordTypes, Bits
  <2> QED
    BY <2>1, RecordsAssumption
<1>2. CASE Advertise
  <2>1. type' = type
    BY <1>2 DEF Advertise
  <2>2. PICK record \in (IF IsWhole THEN Samples ELSE {data}) : data' = record
    BY <1>2 DEF Advertise
  <2>3. data' \in Bits /\ Len(data') % 8 = 0
    BY <1>1, <2>2, SamplesAreRecords DEF RecordTypes
  <2> QED
    BY <2>1, <2>3 DEF RecordTypes
<1>3. ASSUME NEW b \in 1..8 * MaxBytes, ChangeBit(b) PROVE RecordTypes'
  <2>1. /\ type' = type /\ data' = [data EXCEPT ![b] = 1 - @]
        /\ Len(data) = 8 * MaxBytes
    BY <1>3 DEF ChangeBit, IsWhole
  <2>2. 1 - data[b] \in {0, 1} /\ b \in 1..Len(data)
    BY <2>1, ElementOfSeq DEF RecordTypes, Bits
  <2>3. data' \in Bits /\ Len(data') = Len(data)
    BY <2>1, <2>2, ExceptSeq DEF RecordTypes, Bits
  <2> QED
    BY <2>1, <2>3 DEF RecordTypes
<1>4. CASE CutShort
  <2>1. type' = type /\ data # <<>> /\ data' = SubSeq(data, 1, Len(data) - 8)
    BY <1>4 DEF CutShort
  <2>2. Len(data) - 8 \in Nat /\ Len(data) >= 8
    <3>1. Len(data) # 0
      BY <2>1, EmptySeq DEF RecordTypes, Bits
    <3> QED
      BY <1>1, <3>1 DEF RecordTypes
  <2>3. data' \in Bits /\ Len(data') = Len(data) - 8
    <3> DEFINE length == Len(data) - 8
    <3>1. \A i \in 1..length : data[i] \in {0, 1}
      BY <1>1, ElementOfSeq DEF RecordTypes, Bits
    <3>2. length \in Nat /\ data' = SubSeq(data, 1, length)
      BY <2>1, <2>2
    <3> HIDE DEF length
    <3>3. /\ data' \in Seq({0, 1})
          /\ Len(data') = IF 1 <= length THEN length - 1 + 1 ELSE 0
      BY <3>1, <3>2, SubSeqProperties
    <3>4. Len(data') = length /\ data' \in Bits
      BY <3>2, <3>3 DEF Bits
    <3> QED
      BY <3>4 DEF length
  <2>4. \A n \in Nat : n % 8 = 0 => (n - 8) % 8 = 0
    OBVIOUS
  <2>5. Len(data') % 8 = 0
    BY <1>1, <2>3, <2>4 DEF RecordTypes
  <2> QED
    BY <2>1, <2>3, <2>5 DEF RecordTypes
<1>5. CASE \/ Restart \/ Reach \/ UNCHANGED outputVars
           \/ \E r \in Requests : Refresh(r) \/ Answer(r) \/ Render(r) \/ GoOffline(r)
  <2>1. UNCHANGED <<type, data>>
    BY <1>5 DEF Restart, Reach, Refresh, Answer, Render, GoOffline, FetchStep,
                outputVars, vars
  <2> QED
    BY <2>1 DEF RecordTypes
<1> QED
  BY <1>2, <1>3, <1>4, <1>5 DEF OutputsNext, Examine, Next

\* The device's record keeps being one.
THEOREM RecordsAreRecords == OutputsSpec => []RecordTypes
<1>1. OutputsInit => RecordTypes
  <2> SUFFICES ASSUME OutputsInit PROVE RecordTypes
    OBVIOUS
  <2>1. type \in DOMAIN Layouts /\ data \in Samples
    BY DEF OutputsInit, Init
  <2>2. data \in Bits /\ Len(data) = 8 * MaxBytes
    BY <2>1, SamplesAreRecords
  <2>3. Len(data) % 8 = 0
    BY <2>2, RecordsAssumption
  <2> QED
    BY <2>1, <2>2, <2>3 DEF RecordTypes
<1> QED
  BY <1>1, RecordTypesKept, PTL DEF OutputsSpec

\* One bit belongs to one reading, in every record: two readings that a changed bit
\* changes start at the same bit.
THEOREM ReadingsShareNoBits == OutputsSpec => OneReadingPerBit
<1>1. RecordTypes /\ [OutputsNext]_outputVars
        => [changed' # changed =>
              \A f, g \in {f \in Fields : Value(f, data') # Value(f, data)} :
                f.start = g.start]_vars
  <2> SUFFICES ASSUME RecordTypes, [OutputsNext]_outputVars, changed' # changed,
                      NEW f \in Fields, Value(f, data') # Value(f, data),
                      NEW g \in Fields, Value(g, data') # Value(g, data)
               PROVE  f.start = g.start
    OBVIOUS
  <2>1. PICK b \in 1..8 * MaxBytes : ChangeBit(b)
    BY DEF OutputsNext, Advertise, Examine, Next, CutShort, Restart, Reach, Refresh,
           Answer, Render, GoOffline, FetchStep, outputVars, vars
  <2>2. data' = [data EXCEPT ![b] = 1 - @] /\ b \in 1..Len(data)
    BY <2>1 DEF ChangeBit, IsWhole
  <2>3. IsField(f) /\ IsField(g) /\ Apart(f, g)
    BY FieldsAreFields, FieldsLieApart DEF Fields, RecordTypes
  <2>4. b \in f.start + 1..f.start + f.width /\ b \in g.start + 1..g.start + g.width
    BY <2>2, <2>3, BitOfField DEF RecordTypes
  <2>5. f.start \in Nat /\ f.width \in Nat /\ g.start \in Nat /\ g.width \in Nat
    BY <2>3 DEF IsField
  <2> QED
    BY <2>3, <2>4, <2>5 DEF Apart
<1> QED
  BY <1>1, RecordsAreRecords, PTL DEF OutputsSpec, OneReadingPerBit

\* No reading is made up from bits that are not there, wherever a record is cut.
THEOREM MissingBitsAreNull == OutputsSpec => CutShortIsNull
<1>1. RecordTypes /\ [OutputsNext]_outputVars
        => [CutShort => \A f \in Fields :
              Value(f, data') # Value(f, data) => Value(f, data') = <<>>]_vars
  <2> SUFFICES ASSUME RecordTypes, CutShort, NEW f \in Fields,
                      Value(f, data') # Value(f, data)
               PROVE  Value(f, data') = <<>>
    OBVIOUS
  <2>1. data' = SubSeq(data, 1, Len(data) - 8) /\ data # <<>>
    BY DEF CutShort
  <2>2. Len(data) - 8 \in 0..Len(data)
    <3>1. Len(data) \in Nat /\ Len(data) # 0
      BY <2>1, LenProperties, EmptySeq DEF RecordTypes, Bits
    <3> QED
      BY <3>1 DEF RecordTypes
  <2>3. IsField(f)
    BY FieldsAreFields DEF Fields, RecordTypes
  <2> QED
    BY <2>1, <2>2, <2>3, CutShortFieldIsNull DEF RecordTypes
<1> QED
  BY <1>1, RecordsAreRecords, PTL DEF OutputsSpec, CutShortIsNull

----------------------------------------------------------------------------
(* What is not available.                                                  *)

\* valueUnless() and its relations: null exactly for the reserved number.
LEMMA NullOrNot ==
  ASSUME NEW f, HasNA(f), NEW record,
         ReadBits(record, f.start, f.width) # <<>>
  PROVE  LET bits == ReadBits(record, f.start, f.width)
         IN /\ f.kind \in {"unsigned", "allOnes"} =>
                 (Value(f, record) = <<>> <=> Number(bits) = f.na)
            /\ f.kind = "signed" => (Value(f, record) = <<>> <=> SignedNumber(bits) = f.na)
            /\ f.kind = "cell" => (Value(f, record) = <<>> <=> Number(bits) = \h7F)
<1> DEFINE bits == ReadBits(record, f.start, f.width)
<1>1. \A n : <<n>> # <<>>
  OBVIOUS
<1>2. CASE f.kind = "unsigned"
  <2>1. Value(f, record) = IF ValueUnless(Number(bits), f.na) = <<>> THEN <<>>
          ELSE << f.zero + f.step * ValueUnless(Number(bits), f.na)[1] >>
    BY <1>2 DEF Value
  <2> HIDE DEF bits
  <2> QED
    BY <1>2, <2>1 DEF ValueUnless, bits
<1>3. CASE f.kind = "signed"
  <2>1. Value(f, record) = IF ValueUnless(SignedNumber(bits), f.na) = <<>> THEN <<>>
          ELSE << f.zero + f.step * ValueUnless(SignedNumber(bits), f.na)[1] >>
    BY <1>3 DEF Value
  <2> HIDE DEF bits
  <2> QED
    BY <1>3, <2>1 DEF ValueUnless, bits
<1>4. CASE f.kind = "allOnes"
  <2>1. Value(f, record) = SignedUnlessAllOnes(bits, f.na)
    BY <1>4 DEF Value
  <2> HIDE DEF bits
  <2> QED
    BY <1>4, <2>1 DEF SignedUnlessAllOnes, bits
<1>5. CASE f.kind = "cell"
  <2>1. Value(f, record) = CellVoltage(Number(bits))
    BY <1>5 DEF Value
  <2> HIDE DEF bits
  <2>2. CellVoltage(Number(bits)) = <<>> <=> Number(bits) = \h7F
    <3> DEFINE n == Number(bits)
    <3> HIDE DEF n
    <3>1. CellVoltage(n) = <<>> <=> n = \h7F
      BY DEF CellVoltage
    <3> QED
      BY <3>1 DEF n
  <2> QED
    BY <1>5, <2>1, <2>2 DEF bits
<1> QED
  BY <1>2, <1>3, <1>4, <1>5 DEF HasNA

\* A reading is null exactly when its bits are not all there or are those of the
\* reserved number, whatever the layout, the sign and the rest of the record.
LEMMA ReservedIsNull ==
  ASSUME NEW f, IsField(f), HasNA(f), NEW record \in Bits
  PROVE  Value(f, record) = <<>> <=>
           \/ f.start + f.width > Len(record)
           \/ \A i \in 1..f.width : record[f.start + i] = BitOf(f.na, i - 1)
<1> DEFINE bits == ReadBits(record, f.start, f.width)
<1>1. f.start \in Nat /\ f.width \in Nat \ {0} /\ Len(record) \in Nat /\ f.na \in Nat
  BY LenProperties DEF IsField, Bits
<1>2. CASE f.start + f.width > Len(record)
  BY <1>1, <1>2, ReadBitsIs, NoBitsNoValue
<1>3. CASE f.start + f.width <= Len(record)
  <2>1. /\ bits \in Bits /\ bits # <<>> /\ Len(bits) = f.width
        /\ \A i \in 1..f.width : bits[i] = record[f.start + i]
    BY <1>1, <1>3, ReadBitsIs
  <2>2. /\ f.kind \in {"unsigned", "allOnes"} =>
             (Value(f, record) = <<>> <=> Number(bits) = f.na)
        /\ f.kind = "signed" => (Value(f, record) = <<>> <=> SignedNumber(bits) = f.na)
        /\ f.kind = "cell" => (Value(f, record) = <<>> <=> Number(bits) = \h7F)
    BY <2>1, NullOrNot
  <2> HIDE DEF bits
  <2> DEFINE same == \A i \in 1..f.width : bits[i] = BitOf(f.na, i - 1)
  <2>3. ASSUME Says(f.width, f.na) PROVE Number(bits) = f.na <=> same
    <3>1. Len(bits) <= 22 /\ f.na \div 2^(Len(bits) - 1) \in {0, 1}
      <4>1. Says(Len(bits), f.na)
        BY <2>1, <2>3
      <4>2. \A w \in Nat : Says(w, f.na) => w <= 22 /\ f.na \div 2^(w - 1) \in {0, 1}
        BY DEF Says
      <4> QED
        BY <1>1, <2>1, <4>1, <4>2
    <3>2. Number(bits) = f.na <=> \A i \in 1..Len(bits) : bits[i] = BitOf(f.na, i - 1)
      BY <1>1, <2>1, <3>1, SameNumberSameBits
    <3> QED
      BY <2>1, <3>2
  <2>4. ASSUME SaysSigned(f.width, f.na) PROVE SignedNumber(bits) = f.na <=> same
    <3>1. Len(bits) <= 22 /\ f.na \div 2^(Len(bits) - 1) = 0
      <4>1. SaysSigned(Len(bits), f.na)
        BY <2>1, <2>4
      <4>2. \A w \in Nat : SaysSigned(w, f.na) => w <= 22 /\ f.na \div 2^(w - 1) = 0
        BY DEF SaysSigned
      <4> QED
        BY <1>1, <2>1, <4>1, <4>2
    <3>2. SignedNumber(bits) = f.na
            <=> \A i \in 1..Len(bits) : bits[i] = BitOf(f.na, i - 1)
      BY <1>1, <2>1, <3>1, SameNumberSameBits
    <3> QED
      BY <2>1, <3>2
  <2>5. Value(f, record) = <<>> <=> same
    <3>1. CASE f.kind \in {"unsigned", "allOnes"}
      <4>1. Says(f.width, f.na)
        BY <3>1 DEF IsField
      <4> QED
        BY <2>2, <2>3, <3>1, <4>1
    <3>2. CASE f.kind = "signed"
      <4>1. SaysSigned(f.width, f.na)
        BY <3>2 DEF IsField
      <4> QED
        BY <2>2, <2>4, <3>2, <4>1
    <3>3. CASE f.kind = "cell"
      <4>1. Says(f.width, f.na) /\ f.na = \h7F
        BY <3>3 DEF IsField
      <4> QED
        BY <2>2, <2>3, <3>3, <4>1
    <3> QED
      BY <3>1, <3>2, <3>3 DEF HasNA
  <2>6. same <=> \A i \in 1..f.width : record[f.start + i] = BitOf(f.na, i - 1)
    BY <2>1
  <2> HIDE DEF same
  <2> QED
    BY <1>1, <1>3, <2>5, <2>6
<1> QED
  BY <1>1, <1>2, <1>3

\* No valid reading of any record is taken for a missing one, and no missing one for
\* valid: for all bits, and for all twelve layouts.
THEOREM OnlyReservedIsNull == OutputsSpec => []NotAvailableIsNull
<1>1. RecordTypes => NotAvailableIsNull
  BY FieldsAreFields, ReservedIsNull DEF RecordTypes, NotAvailableIsNull, Fields
<1> QED
  BY <1>1, RecordsAreRecords, PTL

----------------------------------------------------------------------------
(* The paths of the Signal K server.                                       *)

\* The path builders of the record types.
LEMMA BuildersOf ==
  /\ DOMAIN PathBuilders = {1, 2, 3, 4, 5, 6, 10, 15}
  /\ PathBuilders[1] = solarChargerCandidates
  /\ PathBuilders[2] = batteryMonitorCandidates
  /\ PathBuilders[3] = inverterCandidates
  /\ PathBuilders[4] = dcDcConverterCandidates
  /\ PathBuilders[5] = smartLithiumCandidates
  /\ PathBuilders[6] = inverterRsCandidates
  /\ PathBuilders[10] = lynxCandidates
  /\ PathBuilders[15] = orionCandidates
BY DEF PathBuilders

\* Two candidates for one path would overwrite one another.
OnePathEach(candidates) == \A c, d \in candidates : c.path = d.path => c = d

LEMMA SolarChargerPaths == OnePathEach(solarChargerCandidates)
BY DEF OnePathEach, solarChargerCandidates, ChargerState, Solar, To, ToAs

LEMMA BatteryMonitorPaths == OnePathEach(batteryMonitorCandidates \union {SecondaryVoltage})
BY DEF OnePathEach, batteryMonitorCandidates, SecondaryVoltage, To, ToAs

LEMMA InverterPaths == OnePathEach(inverterCandidates)
BY DEF OnePathEach, inverterCandidates, To, ToAs

LEMMA DcDcConverterPaths == OnePathEach(dcDcConverterCandidates)
BY DEF OnePathEach, dcDcConverterCandidates, ChargerState, Charger, To, ToAs

LEMMA SmartLithiumPaths == OnePathEach(smartLithiumCandidates)
BY DEF OnePathEach, smartLithiumCandidates, To, ToAs

LEMMA InverterRsPaths == OnePathEach(inverterRsCandidates)
BY DEF OnePathEach, inverterRsCandidates, To, ToAs

LEMMA LynxPaths == OnePathEach(lynxCandidates)
BY DEF OnePathEach, lynxCandidates, To, ToAs

LEMMA OrionPaths == OnePathEach(orionCandidates)
BY DEF OnePathEach, orionCandidates, ChargerState, Charger, To, ToAs

\* Each path some record publishes is one of the server's.
LEMMA BuilderPathsAreThere ==
  ASSUME NEW t \in DOMAIN PathBuilders, NEW c \in PathBuilders[t]
  PROVE  c.path \in AllPaths
<1>1. c.path \in {d.path : d \in PathBuilders[t]}
  OBVIOUS
<1> QED
  BY <1>1 DEF AllPaths

\* No two candidates of a record have one path.
LEMMA CandidatesPaths ==
  ASSUME NEW t, NEW record, NEW secondary
  PROVE  /\ OnePathEach(Candidates(t, record, secondary))
         /\ \A c \in Candidates(t, record, secondary) : c.path \in AllPaths
<1> DEFINE builder == IF t \in DOMAIN PathBuilders THEN PathBuilders[t] ELSE {}
<1>1. /\ Candidates(t, record, secondary) \subseteq builder \union {SecondaryVoltage}
      /\ t # 2 => Candidates(t, record, secondary) \subseteq builder
  BY DEF Candidates
<1>2. OnePathEach({}) /\ \A S : \A T \in SUBSET S : OnePathEach(S) => OnePathEach(T)
  BY DEF OnePathEach
<1>3. t # 2 => OnePathEach(builder)
  BY <1>2, BuildersOf, SolarChargerPaths, InverterPaths, DcDcConverterPaths,
     SmartLithiumPaths, InverterRsPaths, LynxPaths, OrionPaths
<1>4. t = 2 => OnePathEach(builder \union {SecondaryVoltage})
  BY BuildersOf, BatteryMonitorPaths
<1>5. \A c \in builder \union {SecondaryVoltage} : c.path \in AllPaths
  <2>1. SecondaryVoltage.path \in AllPaths
    BY DEF AllPaths
  <2> QED
    BY <2>1, BuilderPathsAreThere
<1> HIDE DEF builder
<1> QED
  BY <1>1, <1>2, <1>3, <1>4, <1>5

\* A candidate with a value, and what it becomes on its path.
Published(t, record, secondary) ==
  {c \in Candidates(t, record, secondary) : Measurement(t, record, c.name) # <<>>}
OnPath(t, record, c) == << Convert(c.as, Measurement(t, record, c.name)[1]) >>

\* measurementDelta() publishes each candidate with a value, and nothing else.
LEMMA DeltaIs ==
  ASSUME NEW t, NEW record, NEW secondary
  PROVE  /\ DOMAIN MeasurementDelta(t, record, secondary)
              = {c.path : c \in Published(t, record, secondary)}
         /\ \A c \in Published(t, record, secondary) :
              MeasurementDelta(t, record, secondary)[c.path] = OnPath(t, record, c)
<1> DEFINE published == Published(t, record, secondary)
           of(path) == CHOOSE c \in published : c.path = path
<1>1. MeasurementDelta(t, record, secondary) =
        [path \in {c.path : c \in published} |-> OnPath(t, record, of(path))]
  BY DEF MeasurementDelta, IsPublished, Published, OnPath
<1>2. \A c, d \in published : c.path = d.path => c = d
  BY CandidatesPaths DEF OnePathEach, Published
<1> HIDE DEF published
<1>3. \A c \in published : of(c.path) = c
  BY <1>2
<1> HIDE DEF of
<1>4. \A c \in published : c.path \in {d.path : d \in published}
  OBVIOUS
<1>5. /\ DOMAIN MeasurementDelta(t, record, secondary) = {c.path : c \in published}
      /\ \A c \in published :
           MeasurementDelta(t, record, secondary)[c.path] = OnPath(t, record, c)
  BY <1>1, <1>3, <1>4
<1> QED
  BY <1>5 DEF published

\* After a record, a path has what the record says on it, or what it had before.
LEMMA AcceptedPaths ==
  ASSUME NEW record, Accepts(record, paths)
  PROVE  /\ \A c \in Published(type, record, secondaryBattery) :
              paths'[c.path] = OnPath(type, record, c)
         /\ \A path \in AllPaths :
              \/ paths'[path] = paths[path]
              \/ \E c \in Published(type, record, secondaryBattery) :
                   c.path = path /\ paths'[path] = OnPath(type, record, c)
<1> DEFINE published == Published(type, record, secondaryBattery)
           delta == MeasurementDelta(type, record, secondaryBattery)
<1>1. paths' = [path \in AllPaths |-> IF path \in DOMAIN delta THEN delta[path]
                                                              ELSE paths[path]]
  BY DEF Accepts
<1>2. /\ DOMAIN delta = {c.path : c \in published}
      /\ \A c \in published : delta[c.path] = OnPath(type, record, c)
  BY DeltaIs
<1>3. \A c \in published : c.path \in AllPaths
  BY CandidatesPaths DEF Published
<1> HIDE DEF delta, published
<1>4. \A c \in published : c.path \in DOMAIN delta
  BY <1>2
<1>5. /\ \A c \in published : paths'[c.path] = OnPath(type, record, c)
      /\ \A path \in AllPaths :
           \/ paths'[path] = paths[path]
           \/ \E c \in published : c.path = path /\ paths'[path] = OnPath(type, record, c)
  BY <1>1, <1>2, <1>3, <1>4
<1> QED
  BY <1>5 DEF published

\* A device's server state changes when a record of it is accepted, and when the
\* plugin starts anew.
LEMMA ServerSteps ==
  ASSUME [OutputsNext]_outputVars
  PROVE  /\ type' = type /\ secondaryBattery' = secondaryBattery
         /\ \/ Accepts(data', paths) /\ Advertise
            \/ status' = Empty /\ paths' = paths
            \/ status' = status /\ paths' = paths
BY DEF OutputsNext, Advertise, Examine, Next, ChangeBit, CutShort, Restart, Reach,
       Refresh, Answer, Render, GoOffline, FetchStep, outputVars, vars, serverVars

----------------------------------------------------------------------------
(* What a path can hold.                                                   *)

\* How a field reads its number.
Reads(f, kind, name, step, zero) ==
  f.kind = kind /\ f.name = name /\ f.step = step /\ f.zero = zero

LEMMA FieldReads ==
  ASSUME NEW kind, NEW name, NEW start \in Nat, NEW width \in Nat, NEW na \in Nat
  PROVE  Reads(Field(kind, name, start, width, na), kind, name, 1, 0)
BY DEF Field, Reads

LEMMA FlagsReads ==
  ASSUME NEW name, NEW start \in Nat, NEW width \in Nat
  PROVE  Reads(Flags(name, start, width), "flags", name, 1, 0)
BY FieldReads DEF Flags

LEMMA UnsignedReads ==
  ASSUME NEW name, NEW start \in Nat, NEW width \in Nat, NEW na \in Nat
  PROVE  Reads(Unsigned(name, start, width, na), "unsigned", name, 1, 0)
BY FieldReads DEF Unsigned

LEMMA SignedReads ==
  ASSUME NEW name, NEW start \in Nat, NEW na \in Nat
  PROVE  Reads(Signed(name, start, na), "signed", name, 1, 0)
BY FieldReads DEF Signed

LEMMA UnsignedInStepsReads ==
  ASSUME NEW name, NEW start \in Nat, NEW width \in Nat, NEW na \in Nat, NEW n \in Int
  PROVE  Reads(InSteps(n, Unsigned(name, start, width, na)), "unsigned", name, n, 0)
BY DEF Unsigned, Field, Reads, InSteps

LEMMA SignedInStepsReads ==
  ASSUME NEW name, NEW start \in Nat, NEW na \in Nat, NEW n \in Int
  PROVE  Reads(InSteps(n, Signed(name, start, na)), "signed", name, n, 0)
BY DEF Signed, Field, Reads, InSteps

LEMMA CelsiusReads ==
  ASSUME NEW name, NEW start \in Nat
  PROVE  Reads(Celsius(name, start), "unsigned", name, 1, -40)
BY DEF Celsius, Unsigned, Field, Reads

\* The readings that the paths of a limited range come from.
LEMMA LimitedReadings ==
  /\ \A f \in BatteryMonitor :
       /\ f.name # "temperature_k"
       /\ f.name = "aux" => f.kind = "aux"
       /\ f.name = "consumed_ah" => Reads(f, "unsigned", "consumed_ah", -1, 0)
  /\ \E f \in BatteryMonitor : f.name = "aux"
  /\ \E f \in BatteryMonitor : f.name = "consumed_ah"
<1>1. \A f \in BatteryMonitor :
       /\ f.name # "temperature_k"
       /\ f.name = "aux" => f.kind = "aux"
       /\ f.name = "consumed_ah" => Reads(f, "unsigned", "consumed_ah", -1, 0)
  BY FieldReads, FlagsReads, UnsignedReads, SignedReads, UnsignedInStepsReads,
     SignedInStepsReads, CelsiusReads
  DEF BatteryMonitor, Reads
<1>2. Field("aux", "aux", 48, 18, \h7FFF) \in BatteryMonitor
  BY DEF BatteryMonitor
<1>3. InSteps(-1, Unsigned("consumed_ah", 88, 20, \hFFFFF)) \in BatteryMonitor
  BY DEF BatteryMonitor
<1> QED
  BY <1>1, <1>2, <1>3, FieldReads, UnsignedInStepsReads DEF Reads

LEMMA SmartLithiumTemperature ==
  /\ \A f \in SmartLithium :
       f.name = "temperature_c" => Reads(f, "unsigned", "temperature_c", 1, -40)
  /\ \E f \in SmartLithium : f.name = "temperature_c"
<1>1. \A i \in 1..8 : Cells[i] # "temperature_c"
  BY DEF Cells
<1>2. \A f \in SmartLithium :
       f.name = "temperature_c" => Reads(f, "unsigned", "temperature_c", 1, -40)
  BY <1>1, FieldReads, FlagsReads, UnsignedReads, SignedReads, UnsignedInStepsReads,
     SignedInStepsReads, CelsiusReads
  DEF SmartLithium, Reads
<1>3. Celsius("temperature_c", 120) \in SmartLithium
  BY DEF SmartLithium
<1> QED
  BY <1>2, <1>3, CelsiusReads DEF Reads

LEMMA LynxTemperature ==
  /\ \A f \in LynxSmartBms :
       f.name = "temperature_c" => Reads(f, "unsigned", "temperature_c", 1, -40)
  /\ \E f \in LynxSmartBms : f.name = "temperature_c"
<1>1. \A f \in LynxSmartBms :
       f.name = "temperature_c" => Reads(f, "unsigned", "temperature_c", 1, -40)
  BY FieldReads, FlagsReads, UnsignedReads, SignedReads, UnsignedInStepsReads,
     SignedInStepsReads, CelsiusReads
  DEF LynxSmartBms, Reads
<1>2. Celsius("temperature_c", 120) \in LynxSmartBms
  BY DEF LynxSmartBms
<1> QED
  BY <1>1, <1>2, CelsiusReads DEF Reads

\* A state of charge has ten bits, all ones when it is not available.
IsCharge(f) == /\ Reads(f, "unsigned", "state_of_charge_percent", 100, 0)
               /\ f.width = 10 /\ f.na = \h3FF

LEMMA TenBitsAreCharge ==
  ASSUME NEW start \in Nat
  PROVE  IsCharge(InSteps(100, Unsigned("state_of_charge_percent", start, 10, \h3FF)))
BY DEF IsCharge, Unsigned, Field, Reads, InSteps

LEMMA ChargeFields ==
  ASSUME NEW t \in {2, 10}
  PROVE  /\ \A f \in FieldsOf(t) : f.name = "state_of_charge_percent" => IsCharge(f)
         /\ \E f \in FieldsOf(t) : f.name = "state_of_charge_percent"
<1>1. \A f \in BatteryMonitor : f.name = "state_of_charge_percent" => IsCharge(f)
  <2>1. \A f \in BatteryMonitor : f.name = "state_of_charge_percent" =>
          f = InSteps(100, Unsigned("state_of_charge_percent", 108, 10, \h3FF))
    BY FieldReads, FlagsReads, UnsignedReads, SignedReads, UnsignedInStepsReads,
       SignedInStepsReads, CelsiusReads
    DEF BatteryMonitor, Reads
  <2> QED
    BY <2>1, TenBitsAreCharge
<1>2. \A f \in LynxSmartBms : f.name = "state_of_charge_percent" => IsCharge(f)
  <2>1. \A f \in LynxSmartBms : f.name = "state_of_charge_percent" =>
          f = InSteps(100, Unsigned("state_of_charge_percent", 90, 10, \h3FF))
    BY FieldReads, FlagsReads, UnsignedReads, SignedReads, UnsignedInStepsReads,
       SignedInStepsReads, CelsiusReads
    DEF LynxSmartBms, Reads
  <2> QED
    BY <2>1, TenBitsAreCharge
<1>3. /\ InSteps(100, Unsigned("state_of_charge_percent", 108, 10, \h3FF))
           \in BatteryMonitor
      /\ InSteps(100, Unsigned("state_of_charge_percent", 90, 10, \h3FF))
           \in LynxSmartBms
  BY DEF BatteryMonitor, LynxSmartBms
<1>4. \A f : IsCharge(f) => f.name = "state_of_charge_percent"
  BY DEF IsCharge, Reads
<1> QED
  BY <1>1, <1>2, <1>3, <1>4, TenBitsAreCharge, LayoutOf

\* A number without a sign fits its bits.
Fits(n, width) == n \in Nat /\ n \div 2^(width - 1) \in {0, 1}

LEMMA NumberFits ==
  ASSUME NEW bits \in Bits, bits # <<>>, Len(bits) <= 22
  PROVE  Fits(Number(bits), Len(bits))
<1> DEFINE number == Number(bits)
           top == bits[Len(bits)]
<1>1. number \in Nat
  BY NumberIsNatural
<1>2. top \in {0, 1}
  BY EmptySeq, LenProperties, ElementOfSeq DEF Bits
<1>3. NumberWith(bits, top) = number
  BY DEF Number
<1> HIDE DEF number, top
<1>4. number \div 2^(Len(bits) - 1) = top
  BY <1>1, <1>2, <1>3, BitsOfNumber
<1>5. Fits(number, Len(bits))
  BY <1>1, <1>2, <1>4 DEF Fits
<1> QED
  BY <1>5 DEF number

\* The value of a number without a sign.
LEMMA UnsignedValue ==
  ASSUME NEW f, IsField(f), f.kind = "unsigned", NEW record \in Bits
  PROVE  \/ Value(f, record) = <<>>
         \/ \E n \in Nat : /\ Fits(n, f.width) /\ n # f.na
                           /\ Value(f, record) = << f.zero + f.step * n >>
<1> DEFINE bits == ReadBits(record, f.start, f.width)
<1>1. bits # <<>> => bits \in Bits /\ Len(bits) = f.width /\ f.width <= 22
  <2>1. f.start \in Nat /\ f.width \in Nat \ {0} /\ Len(record) \in Nat
    BY LenProperties DEF IsField, Bits
  <2>2. Says(f.width, f.na)
    BY DEF IsField
  <2>3. f.width <= 22
    BY <2>2 DEF Says
  <2>4. bits # <<>> => f.start + f.width <= Len(record)
    BY <2>1, ReadBitsIs
  <2>5. f.start + f.width <= Len(record) => bits \in Bits /\ Len(bits) = f.width
    BY <2>1, ReadBitsIs
  <2> QED
    BY <2>3, <2>4, <2>5
<1>2. bits = <<>> => Value(f, record) = <<>>
  BY NoBitsNoValue
<1>3. bits # <<>> => \/ Value(f, record) = <<>>
                     \/ /\ Value(f, record) = << f.zero + f.step * Number(bits) >>
                        /\ Number(bits) # f.na
  <2> SUFFICES ASSUME bits # <<>>
               PROVE  \/ Value(f, record) = <<>>
                      \/ /\ Value(f, record) = << f.zero + f.step * Number(bits) >>
                         /\ Number(bits) # f.na
    OBVIOUS
  <2>1. Value(f, record) = IF ValueUnless(Number(bits), f.na) = <<>> THEN <<>>
          ELSE << f.zero + f.step * ValueUnless(Number(bits), f.na)[1] >>
    BY DEF Value
  <2> HIDE DEF bits
  <2> QED
    BY <2>1 DEF ValueUnless
<1> HIDE DEF bits
<1>4. bits # <<>> => Fits(Number(bits), f.width)
  BY <1>1, NumberFits
<1> QED
  BY <1>2, <1>3, <1>4 DEF Fits

LEMMA NotEmpty ==
  ASSUME NEW bits \in Bits, Len(bits) # 0
  PROVE  bits # <<>>
BY EmptySeq

\* The selector of the aux field is one of four.
LEMMA TwoBits ==
  ASSUME NEW bits \in Bits, Len(bits) = 2
  PROVE  Number(bits) \in 0..3
<1>1. bits # <<>> /\ bits[1] \in {0, 1} /\ bits[2] \in {0, 1}
  <2>1. bits # <<>>
    BY NotEmpty
  <2> QED
    BY <2>1, ElementOfSeq DEF Bits
<1>2. PICK from \in [1..Len(bits) -> Int] :
        /\ Number(bits) = from[1]
        /\ from[Len(bits)] = bits[Len(bits)]
        /\ \A i \in 1..Len(bits) - 1 : from[i] = bits[i] + 2 * from[i + 1]
  <2>1. bits[Len(bits)] \in Int
    BY <1>1
  <2> QED
    BY <1>1, <2>1, NumberIs DEF Number
<1>3. from[1] = bits[1] + 2 * from[2] /\ from[2] = bits[2]
  BY <1>2
<1> QED
  BY <1>1, <1>2, <1>3

\* The third reading on the aux input is there when its selector says 2.
LEMMA AuxReadingIs ==
  ASSUME NEW n \in 0..3, NEW value
  PROVE  AuxReading("temperature_k", << n, value >>) = IF n = 2 THEN value ELSE <<>>
<1> DEFINE aux == << n, value >>
<1>1. aux # <<>> /\ aux[1] = n /\ aux[2] = value
  OBVIOUS
<1>2. \A i \in 1..3 : AuxNames[i] = "temperature_k" <=> i = 3
  BY DEF AuxNames
<1>3. (aux[1] < 3 /\ AuxNames[aux[1] + 1] = "temperature_k") <=> n = 2
  <2> HIDE DEF aux
  <2> QED
    BY <1>1, <1>2
<1>4. "temperature_k" # "aux_input"
  OBVIOUS
<1>5. AuxReading("temperature_k", aux) = IF n = 2 THEN value ELSE <<>>
  <2> HIDE DEF aux
  <2> QED
    BY <1>1, <1>3, <1>4, Zenon DEF AuxReading
<1> QED
  BY <1>5

\* The temperature on the aux input is an unsigned number of kelvins.
LEMMA AuxTemperature ==
  ASSUME NEW f, IsField(f), f.kind = "aux", NEW record \in Bits
  PROVE  LET value == AuxReading("temperature_k", Value(f, record))
         IN value = <<>> \/ \E n \in Nat : value = <<n>>
<1> DEFINE bits == ReadBits(record, f.start, f.width)
           raw == SubSeq(bits, 1, 16)
           selector == Number(SubSeq(bits, 17, 18))
<1>1. CASE bits = <<>>
  BY <1>1, NoBitsNoValue DEF AuxReading
<1>2. CASE bits # <<>>
  <2>1. bits \in Bits /\ Len(bits) = 18
    <3>1. f.start \in Nat /\ f.width \in Nat \ {0} /\ Len(record) \in Nat
      BY LenProperties DEF IsField, Bits
    <3>2. f.start + f.width <= Len(record)
      BY <1>2, <3>1, ReadBitsIs
    <3>3. bits \in Bits /\ Len(bits) = f.width
      BY <3>1, <3>2, ReadBitsIs
    <3> QED
      BY <3>3 DEF IsField
  <2>2. Value(f, record) = AuxInput(bits, TRUE)
    BY <1>2 DEF Value
  <2> HIDE DEF bits
  <2>3. \A i \in 1..18 : bits[i] \in {0, 1}
    BY <2>1, ElementOfSeq DEF Bits
  <2>4. raw \in Bits /\ raw # <<>>
    <3>1. raw \in Seq({0, 1}) /\ Len(raw) = 16
      <4>1. \A i \in 1..16 : bits[i] \in {0, 1}
        BY <2>3
      <4>2. /\ raw \in Seq({0, 1})
            /\ Len(raw) = IF 1 <= 16 THEN 16 - 1 + 1 ELSE 0
        BY <4>1, SubSeqProperties
      <4> QED
        BY <4>2
    <3> HIDE DEF raw
    <3>2. raw \in Bits /\ Len(raw) # 0
      BY <3>1 DEF Bits
    <3>3. raw # <<>>
      BY <3>2, NotEmpty
    <3> QED
      BY <3>2, <3>3
  <2>5. selector \in 0..3
    <3> DEFINE two == SubSeq(bits, 17, 18)
    <3>1. \A i \in 17..18 : bits[i] \in {0, 1}
      BY <2>3
    <3>2. /\ two \in Seq({0, 1})
          /\ Len(two) = IF 17 <= 18 THEN 18 - 17 + 1 ELSE 0
      BY <3>1, SubSeqProperties
    <3> HIDE DEF two
    <3>3. Len(two) = 2 /\ two \in Bits
      BY <3>2 DEF Bits
    <3> QED
      BY <3>3, TwoBits DEF two
  <2>6. Number(raw) \in Nat
    BY <2>4, NumberIsNatural
  <2> DEFINE aux == AuxInput(bits, TRUE)
             signed == ValueUnless(SignedNumber(raw), \h7FFF)
             unsigned == ValueUnless(Number(raw), \hFFFF)
             voltage == << 0, signed >>
             middle == << 1, unsigned >>
             kelvins == << 2, unsigned >>
             nothing == << 3, <<>> >>
  <2>7. aux = CASE selector = 0 -> voltage [] selector = 1 -> middle
                [] selector = 2 -> kelvins [] selector = 3 -> nothing
    BY DEF AuxInput
  <2>11. unsigned = <<>> \/ \E n \in Nat : unsigned = <<n>>
    BY <2>6 DEF ValueUnless
  <2> HIDE DEF raw, selector, aux, voltage, middle, kelvins, nothing, signed, unsigned
  <2>8. /\ selector = 0 => aux = voltage
        /\ selector = 1 => aux = middle
        /\ selector = 2 => aux = kelvins
        /\ selector = 3 => aux = nothing
    BY <2>5, <2>7
  <2>9. CASE selector \in {0, 1, 3}
    <3>1. \E n \in {0, 1, 3} : \E value : aux = << n, value >>
      BY <2>8, <2>9 DEF voltage, middle, nothing
    <3>2. AuxReading("temperature_k", aux) = <<>>
      BY <3>1, AuxReadingIs
    <3> QED
      BY <2>2, <3>2 DEF aux
  <2>10. CASE selector = 2
    <3>1. aux = << 2, unsigned >>
      BY <2>8, <2>10 DEF kelvins
    <3>2. AuxReading("temperature_k", aux) = unsigned
      BY <3>1, AuxReadingIs
    <3>3. AuxReading("temperature_k", Value(f, record)) = unsigned
      BY <2>2, <3>2 DEF aux
    <3> QED
      BY <2>11, <3>3
  <2> QED
    BY <2>5, <2>9, <2>10
<1> QED
  BY <1>1, <1>2

\* The candidates of the paths with a limited range.
LEMMA LimitedPaths ==
  ASSUME NEW t, NEW record, NEW secondary, NEW c \in Candidates(t, record, secondary)
  PROVE  /\ c.path = "batteries.temperature" =>
              \/ t = 2 /\ c.as = "is" /\ c.name = "temperature_k"
              \/ t \in {5, 10} /\ c.as = "kelvin" /\ c.name = "temperature_c"
         /\ c.path = "batteries.capacity.dischargeSinceFull" =>
              t = 2 /\ c.as = "coulombs" /\ c.name = "consumed_ah"
         /\ c.path = "batteries.capacity.stateOfCharge" =>
              t \in {2, 10} /\ c.as = "ratio" /\ c.name = "state_of_charge_percent"
         /\ c.path \in ModePaths => c.as = "mode"
<1> DEFINE Holds(d) ==
      /\ d.path = "batteries.temperature" =>
           \/ t = 2 /\ d.as = "is" /\ d.name = "temperature_k"
           \/ t \in {5, 10} /\ d.as = "kelvin" /\ d.name = "temperature_c"
      /\ d.path = "batteries.capacity.dischargeSinceFull" =>
           t = 2 /\ d.as = "coulombs" /\ d.name = "consumed_ah"
      /\ d.path = "batteries.capacity.stateOfCharge" =>
           t \in {2, 10} /\ d.as = "ratio" /\ d.name = "state_of_charge_percent"
      /\ d.path \in ModePaths => d.as = "mode"
<1>1. Holds(SecondaryVoltage)
  BY DEF SecondaryVoltage, To, ModePaths
<1>2. CASE t \in {1, 4, 15}
  <2>1. \A d \in solarChargerCandidates \union dcDcConverterCandidates
                \union orionCandidates : Holds(d)
    BY DEF solarChargerCandidates, dcDcConverterCandidates, orionCandidates,
               ChargerState, Solar, Charger, To, ToAs, ModePaths
  <2> QED
    BY <1>1, <1>2, <2>1, BuildersOf DEF Candidates
<1>3. CASE t = 2
  <2>1. \A d \in batteryMonitorCandidates : Holds(d)
    BY <1>3 DEF batteryMonitorCandidates, To, ToAs, ModePaths
  <2> QED
    BY <1>1, <1>3, <2>1, BuildersOf DEF Candidates
<1>4. CASE t \in {3, 6}
  <2>1. \A d \in inverterCandidates \union inverterRsCandidates : Holds(d)
    BY DEF inverterCandidates, inverterRsCandidates, To, ToAs, ModePaths
  <2> QED
    BY <1>1, <1>4, <2>1, BuildersOf DEF Candidates
<1>5. CASE t \in {5, 10}
  <2>1. t = 5 => \A d \in smartLithiumCandidates : Holds(d)
    BY DEF smartLithiumCandidates, To, ToAs, ModePaths
  <2>2. t = 10 => \A d \in lynxCandidates : Holds(d)
    BY DEF lynxCandidates, To, ToAs, ModePaths
  <2> QED
    BY <1>1, <1>5, <2>1, <2>2, BuildersOf DEF Candidates
<1>6. t \in DOMAIN PathBuilders
  BY <1>1, BuildersOf DEF Candidates
<1> QED
  BY <1>2, <1>3, <1>4, <1>5, <1>6, BuildersOf

\* The measurements that these paths are made of.
LEMMA KelvinsOnAux ==
  ASSUME NEW record \in Bits
  PROVE  LET value == Measurement(2, record, "temperature_k")
         IN value = <<>> \/ \E n \in Nat : value = <<n>>
<1> DEFINE aux == {f \in BatteryMonitor : f.name = "aux"}
           field == CHOOSE f \in aux : TRUE
<1>1. {f \in BatteryMonitor : f.name = "temperature_k"} = {} /\ aux # {}
  BY LimitedReadings
<1>2. field \in aux
  BY <1>1
<1>3. IsField(field) /\ field.kind = "aux"
  BY <1>2, LimitedReadings, BatteryMonitorFields
<1>4. Measurement(2, record, "temperature_k") =
        AuxReading("temperature_k", Value(field, record))
  BY <1>1, LayoutOf DEF Measurement
<1> HIDE DEF field
<1> QED
  BY <1>3, <1>4, AuxTemperature

LEMMA NamedReading ==
  ASSUME NEW t \in DOMAIN Layouts, NEW name, NEW step \in Int, NEW zero \in Int,
         NEW record \in Bits,
         \A f \in FieldsOf(t) : f.name = name => Reads(f, "unsigned", name, step, zero),
         \E f \in FieldsOf(t) : f.name = name
  PROVE  LET value == Measurement(t, record, name)
         IN \/ value = <<>>
            \/ \E n \in Nat, f \in FieldsOf(t) :
                 /\ f.name = name /\ Fits(n, f.width) /\ n # f.na
                 /\ value = << zero + step * n >>
<1> DEFINE named == {f \in FieldsOf(t) : f.name = name}
           field == CHOOSE f \in named : TRUE
<1>1. field \in named /\ named # {}
  OBVIOUS
<1>6. field \in FieldsOf(t) /\ field.name = name
  BY <1>1
<1>2. Measurement(t, record, name) = Value(field, record)
  BY <1>1 DEF Measurement
<1>3. IsField(field) /\ Reads(field, "unsigned", name, step, zero)
  BY <1>1, FieldsAreFields
<1> HIDE DEF field, named
<1>4. field.kind = "unsigned" /\ field.step = step /\ field.zero = zero
  BY <1>3 DEF Reads
<1>5. \/ Value(field, record) = <<>>
      \/ \E n \in Nat : /\ Fits(n, field.width) /\ n # field.na
                        /\ Value(field, record) = << field.zero + field.step * n >>
  BY <1>3, <1>4, UnsignedValue
<1> QED
  BY <1>2, <1>4, <1>5, <1>6

LEMMA CelsiusReading ==
  ASSUME NEW t \in {5, 10}, NEW record \in Bits
  PROVE  LET value == Measurement(t, record, "temperature_c")
         IN value = <<>> \/ \E n \in Nat : value = << -40 + n >>
<1>1. /\ t \in DOMAIN Layouts
      /\ \A f \in FieldsOf(t) :
           f.name = "temperature_c" => Reads(f, "unsigned", "temperature_c", 1, -40)
      /\ \E f \in FieldsOf(t) : f.name = "temperature_c"
  BY LayoutOf, SmartLithiumTemperature, LynxTemperature
<1> DEFINE value == Measurement(t, record, "temperature_c")
<1>2. value = <<>> \/ \E n \in Nat : value = << -40 + 1 * n >>
  BY <1>1, NamedReading
<1> HIDE DEF value
<1>3. value = <<>> \/ \E n \in Nat : value = << -40 + n >>
  BY <1>2
<1> QED
  BY <1>3 DEF value

LEMMA ConsumedReading ==
  ASSUME NEW record \in Bits
  PROVE  LET value == Measurement(2, record, "consumed_ah")
         IN value = <<>> \/ \E n \in Nat : value = << -n >>
<1>1. /\ 2 \in DOMAIN Layouts
      /\ \A f \in FieldsOf(2) :
           f.name = "consumed_ah" => Reads(f, "unsigned", "consumed_ah", -1, 0)
      /\ \E f \in FieldsOf(2) : f.name = "consumed_ah"
  BY LayoutOf, LimitedReadings
<1> DEFINE value == Measurement(2, record, "consumed_ah")
<1>2. value = <<>> \/ \E n \in Nat : value = << 0 + (-1) * n >>
  BY <1>1, NamedReading
<1> HIDE DEF value
<1>3. value = <<>> \/ \E n \in Nat : value = << -n >>
  BY <1>2
<1> QED
  BY <1>3 DEF value

\* Nothing, or tenths of a percent in 0.001 %.
IsPercentage(value) == value = <<>> \/ \E n \in 0..1022 : value = << 100 * n >>

LEMMA ChargeReading ==
  ASSUME NEW t \in {2, 10}, NEW record \in Bits
  PROVE  IsPercentage(Measurement(t, record, "state_of_charge_percent"))
<1>1. /\ t \in DOMAIN Layouts
      /\ \A f \in FieldsOf(t) : f.name = "state_of_charge_percent" =>
           Reads(f, "unsigned", "state_of_charge_percent", 100, 0)
      /\ \E f \in FieldsOf(t) : f.name = "state_of_charge_percent"
  BY LayoutOf, ChargeFields DEF IsCharge
<1> DEFINE value == Measurement(t, record, "state_of_charge_percent")
<1>2. \/ value = <<>>
      \/ \E n \in Nat, f \in FieldsOf(t) :
           /\ f.name = "state_of_charge_percent" /\ Fits(n, f.width) /\ n # f.na
           /\ value = << 0 + 100 * n >>
  BY <1>1, NamedReading
<1> HIDE DEF value
<1>3. \/ value = <<>>
      \/ \E n \in Nat : Fits(n, 10) /\ n # \h3FF /\ value = << 0 + 100 * n >>
  BY <1>2, ChargeFields DEF IsCharge
<1>4. \A n \in Nat : Fits(n, 10) /\ n # \h3FF => n \in 0..1022
  <2>1. 2^(10 - 1) = 512
    OBVIOUS
  <2> QED
    BY <2>1 DEF Fits
<1>5. CASE value = <<>>
  BY <1>5 DEF IsPercentage, value
<1>6. CASE value # <<>>
  <2>1. PICK n \in Nat : Fits(n, 10) /\ n # \h3FF /\ value = << 0 + 100 * n >>
    BY <1>3, <1>6
  <2>2. n \in 0..1022
    BY <1>4, <2>1
  <2>3. 0 + 100 * n = 100 * n
    OBVIOUS
  <2>4. value = << 100 * n >>
    BY <2>1, <2>3
  <2>5. IsPercentage(value)
    BY <2>2, <2>4 DEF IsPercentage
  <2> QED
    BY <2>5 DEF value
<1> QED
  BY <1>5, <1>6

\* Conversions keep to the range of their path.
LEMMA Conversions ==
  /\ \A n \in Int : Convert("ratio", 100 * n) = n
  /\ \A n \in Nat : Convert("is", n) >= 0
  /\ \A n \in Nat : Convert("kelvin", -40 + n) >= 0
  /\ \A n \in Nat : Convert("coulombs", -n) >= 0
  /\ \A n : Convert("mode", n) \in {"bulk", "acceptance", "overcharge", "float",
                                    "equalize", "unknown", "other"}
<1>1. /\ \A n : Convert("is", n) = n
      /\ \A n : Convert("kelvin", n) = 100 * n + 27315
      /\ \A n : Convert("coulombs", n) = -360 * n
      /\ \A n : Convert("mode", n) = ChargingMode(n)
      /\ \A n : Convert("ratio", n) = n \div 100
  BY DEF Convert
<1>2. \A n : ChargingMode(n) \in {"bulk", "acceptance", "overcharge", "float",
                                  "equalize", "unknown", "other"}
  BY DEF ChargingMode
<1>3. /\ \A n \in Nat : 100 * (-40 + n) + 27315 >= 0
      /\ \A n \in Nat : -360 * (-n) >= 0
      /\ \A n \in Int : (100 * n) \div 100 = n
  OBVIOUS
<1> QED
  BY <1>1, <1>2, <1>3

\* One value on its path, in range.
InRange(path, value) ==
  /\ path \in {"batteries.temperature", "batteries.capacity.dischargeSinceFull"} =>
       value >= 0
  /\ path = "batteries.capacity.stateOfCharge" => 0 <= value /\ value <= 1022
  /\ path \in ModePaths =>
       value \in {"bulk", "acceptance", "overcharge", "float", "equalize", "unknown",
                 "other"}

LimitedPath == {"batteries.temperature", "batteries.capacity.dischargeSinceFull",
                "batteries.capacity.stateOfCharge"} \union ModePaths

\* A published value is in the range of its path.
LEMMA PublishedInRange ==
  ASSUME NEW t \in DOMAIN Layouts, NEW record \in Bits, NEW secondary,
         NEW c \in Published(t, record, secondary)
  PROVE  InRange(c.path, OnPath(t, record, c)[1])
<1> DEFINE value == Measurement(t, record, c.name)
<1>1. c \in Candidates(t, record, secondary) /\ value # <<>>
  BY DEF Published
<1>2. OnPath(t, record, c)[1] = Convert(c.as, value[1])
  BY DEF OnPath
<1>3. CASE c.path = "batteries.temperature"
  <2>1. CASE t = 2 /\ c.as = "is" /\ c.name = "temperature_k"
    <3>1. PICK n \in Nat : value = <<n>>
      BY <1>1, <2>1, KelvinsOnAux
    <3>2. value[1] = n
      BY <3>1
    <3>3. OnPath(t, record, c)[1] >= 0
      BY <1>2, <2>1, <3>2, Conversions
    <3> QED
      BY <1>3, <3>3 DEF InRange, ModePaths
  <2>2. CASE t \in {5, 10} /\ c.as = "kelvin" /\ c.name = "temperature_c"
    <3>1. PICK n \in Nat : value = << -40 + n >>
      BY <1>1, <2>2, CelsiusReading
    <3>2. value[1] = -40 + n
      BY <3>1
    <3>3. OnPath(t, record, c)[1] >= 0
      BY <1>2, <2>2, <3>2, Conversions
    <3> QED
      BY <1>3, <3>3 DEF InRange, ModePaths
  <2> QED
    BY <1>1, <1>3, <2>1, <2>2, LimitedPaths
<1>4. CASE c.path = "batteries.capacity.dischargeSinceFull"
  <2>1. t = 2 /\ c.as = "coulombs" /\ c.name = "consumed_ah"
    BY <1>1, <1>4, LimitedPaths
  <2>2. PICK n \in Nat : value = << -n >>
    BY <1>1, <2>1, ConsumedReading
  <2>3. value[1] = -n
    BY <2>2
  <2>4. OnPath(t, record, c)[1] >= 0
    BY <1>2, <2>1, <2>3, Conversions
  <2> QED
    BY <1>4, <2>4 DEF InRange, ModePaths
<1>5. CASE c.path = "batteries.capacity.stateOfCharge"
  <2>1. t \in {2, 10} /\ c.as = "ratio" /\ c.name = "state_of_charge_percent"
    BY <1>1, <1>5, LimitedPaths
  <2> DEFINE charge == Measurement(t, record, "state_of_charge_percent")
  <2>2. value = charge
    BY <2>1
  <2>3. IsPercentage(charge)
    BY <2>1, ChargeReading
  <2> HIDE DEF charge, value
  <2>4. PICK n \in 0..1022 : value = << 100 * n >>
    BY <1>1, <2>2, <2>3 DEF IsPercentage
  <2>5. value[1] = 100 * n
    BY <2>4
  <2>6. Convert("ratio", 100 * n) = n
    BY Conversions
  <2>7. OnPath(t, record, c)[1] = n
    BY <1>2, <2>1, <2>5, <2>6
  <2> QED
    BY <1>5, <2>7 DEF InRange, ModePaths
<1>6. CASE c.path \in ModePaths
  <2>1. c.as = "mode"
    BY <1>1, <1>6, LimitedPaths
  <2>2. OnPath(t, record, c)[1] \in {"bulk", "acceptance", "overcharge", "float",
                                    "equalize", "unknown", "other"}
    BY <1>2, <2>1, Conversions
  <2> QED
    BY <1>6, <2>2 DEF InRange, ModePaths
<1> QED
  BY <1>3, <1>4, <1>5, <1>6 DEF InRange

\* The paths of a limited range are some record's.
LEMMA LimitedPathsAreThere == LimitedPath \subseteq AllPaths
<1>1. \A t \in DOMAIN PathBuilders : \A c \in PathBuilders[t] : c.path \in AllPaths
  BY BuilderPathsAreThere
<1>2. /\ To("batteries.temperature", "temperature_k") \in PathBuilders[2]
      /\ ToAs("coulombs", "batteries.capacity.dischargeSinceFull", "consumed_ah")
           \in PathBuilders[2]
      /\ ToAs("ratio", "batteries.capacity.stateOfCharge", "state_of_charge_percent")
           \in PathBuilders[2]
  BY BuildersOf DEF batteryMonitorCandidates
<1>3. /\ ToAs("mode", "solar.chargingMode", "charge_state") \in PathBuilders[1]
      /\ ToAs("mode", "chargers.chargingMode", "state_name") \in PathBuilders[4]
  BY BuildersOf DEF solarChargerCandidates, dcDcConverterCandidates, ChargerState,
                    Solar, Charger
<1>4. \A path, name, as : To(path, name).path = path /\ ToAs(as, path, name).path = path
  BY DEF To, ToAs
<1> QED
  BY <1>1, <1>2, <1>3, <1>4, BuildersOf DEF LimitedPath, ModePaths

\* Whatever bits a record has, what reaches Signal K is in the range of its path.
THEOREM ValuesInRange == OutputsSpec => []InSignalKRange
<1> DEFINE Ranges == \A path \in LimitedPath :
                       paths[path] # <<>> => InRange(path, paths[path][1])
<1>1. Ranges <=> InSignalKRange
  BY DEF InRange, LimitedPath, ModePaths, InSignalKRange
<1>2. OutputsInit => Ranges
  BY LimitedPathsAreThere DEF OutputsInit
<1>3. Ranges /\ RecordTypes /\ RecordTypes' /\ [OutputsNext]_outputVars => Ranges'
  <2> SUFFICES ASSUME Ranges, RecordTypes, RecordTypes', [OutputsNext]_outputVars,
                      NEW path \in LimitedPath, paths'[path] # <<>>
               PROVE  InRange(path, paths'[path][1])
    OBVIOUS
  <2>1. CASE paths'[path] = paths[path]
    BY <2>1
  <2>2. CASE paths'[path] # paths[path]
    <3>1. Accepts(data', paths)
      BY <2>2, ServerSteps
    <3>2. PICK c \in Published(type, data', secondaryBattery) :
            c.path = path /\ paths'[path] = OnPath(type, data', c)
      BY <2>2, <3>1, AcceptedPaths, LimitedPathsAreThere
    <3> QED
      BY <3>2, PublishedInRange DEF RecordTypes
  <2> QED
    BY <2>1, <2>2
<1> HIDE DEF Ranges
<1> QED
  BY <1>1, <1>2, <1>3, RecordsAreRecords, PTL DEF OutputsSpec

\* Which readings are converted, and how.
IsConverted(c) ==
  \/ c.as = "kelvin" /\ c.name = "temperature_c"
  \/ c.as = "coulombs" /\ c.name = "consumed_ah"
  \/ c.as = "ratio" /\ c.name = "state_of_charge_percent"
  \/ /\ c.as = (IF c.path \in ModePaths THEN "mode" ELSE "is")
     /\ c.name \notin {"temperature_c", "consumed_ah", "state_of_charge_percent"}

LEMMA CandidatesAreConverted ==
  ASSUME NEW t, NEW record, NEW secondary, NEW c \in Candidates(t, record, secondary)
  PROVE  IsConverted(c) /\ (c.name = "state_of_charge_percent" => t \in {2, 10})
<1> DEFINE Holds(d) ==
      IsConverted(d) /\ (d.name = "state_of_charge_percent" => t \in {2, 10})
<1>1. Holds(SecondaryVoltage)
  BY DEF SecondaryVoltage, To, ModePaths, IsConverted
<1>2. CASE t \in {1, 4, 15}
  <2>1. \A d \in solarChargerCandidates \union dcDcConverterCandidates
                \union orionCandidates : Holds(d)
    BY DEF solarChargerCandidates, dcDcConverterCandidates, orionCandidates,
           ChargerState, Solar, Charger, To, ToAs, ModePaths, IsConverted
  <2> QED
    BY <1>1, <1>2, <2>1, BuildersOf DEF Candidates
<1>3. CASE t \in {2, 5, 10}
  <2>1. t # 5 => \A d \in batteryMonitorCandidates \union lynxCandidates : Holds(d)
    BY <1>3 DEF batteryMonitorCandidates, lynxCandidates, To, ToAs, ModePaths,
                IsConverted
  <2>2. \A d \in smartLithiumCandidates : Holds(d)
    BY DEF smartLithiumCandidates, To, ToAs, ModePaths, IsConverted
  <2> QED
    BY <1>1, <1>3, <2>1, <2>2, BuildersOf DEF Candidates
<1>4. CASE t \in {3, 6}
  <2>1. \A d \in inverterCandidates \union inverterRsCandidates : Holds(d)
    BY DEF inverterCandidates, inverterRsCandidates, To, ToAs, ModePaths, IsConverted
  <2> QED
    BY <1>1, <1>4, <2>1, BuildersOf DEF Candidates
<1>5. t \in {1, 2, 3, 4, 5, 6, 10, 15} \/ c = SecondaryVoltage
  BY BuildersOf DEF Candidates
<1> QED
  BY <1>1, <1>2, <1>3, <1>4, <1>5

\* What a reading becomes on its path means what the reading says.
LEMMA PathMeansReading ==
  ASSUME NEW t \in DOMAIN Layouts, NEW record \in Bits, NEW secondary,
         NEW c \in Published(t, record, secondary)
  PROVE  Means(c.path, c.name, Measurement(t, record, c.name)[1],
               OnPath(t, record, c)[1])
<1> DEFINE value == Measurement(t, record, c.name)
<1>1. c \in Candidates(t, record, secondary) /\ value # <<>>
  BY DEF Published
<1>2. OnPath(t, record, c)[1] = Convert(c.as, value[1])
  BY DEF OnPath
<1>3. /\ IsConverted(c)
      /\ c.name = "state_of_charge_percent" => t \in {2, 10}
  BY <1>1, CandidatesAreConverted
<1>4. c.name = "state_of_charge_percent" => 100 * Convert("ratio", value[1]) = value[1]
  <2> SUFFICES ASSUME c.name = "state_of_charge_percent"
               PROVE  100 * Convert("ratio", value[1]) = value[1]
    OBVIOUS
  <2> DEFINE charge == Measurement(t, record, "state_of_charge_percent")
  <2>1. IsPercentage(charge)
    BY <1>3, ChargeReading
  <2>2. value = charge
    OBVIOUS
  <2> HIDE DEF charge, value
  <2>3. PICK n \in 0..1022 : value = << 100 * n >>
    BY <1>1, <2>1, <2>2 DEF IsPercentage
  <2>4. value[1] = 100 * n
    BY <2>3
  <2>5. Convert("ratio", 100 * n) = n
    BY Conversions
  <2> QED
    BY <2>4, <2>5
<1>5. \A n : /\ Convert("is", n) = n /\ Convert("mode", n) = ChargingMode(n)
             /\ Convert("kelvin", n) = 100 * n + 27315
             /\ Convert("coulombs", n) = -360 * n
  BY DEF Convert
<1> HIDE DEF value
<1>6. Means(c.path, c.name, value[1], Convert(c.as, value[1]))
  <2>1. CASE c.as = "kelvin" /\ c.name = "temperature_c"
    BY <1>5, <2>1 DEF Means
  <2>2. CASE c.as = "coulombs" /\ c.name = "consumed_ah"
    BY <1>5, <2>2 DEF Means
  <2>3. CASE c.as = "ratio" /\ c.name = "state_of_charge_percent"
    BY <1>4, <2>3 DEF Means
  <2>4. CASE /\ c.as = (IF c.path \in ModePaths THEN "mode" ELSE "is")
             /\ c.name \notin {"temperature_c", "consumed_ah",
                               "state_of_charge_percent"}
    BY <1>5, <2>4 DEF Means
  <2> QED
    BY <1>3, <2>1, <2>2, <2>3, <2>4 DEF IsConverted
<1> QED
  BY <1>2, <1>6 DEF value

\* What the Signal K server shows means what the status says, for every record and
\* every sequence of records and restarts.
THEOREM PathsAgree == OutputsSpec => []PathsAgreeWithStatus
<1>1. OutputsInit => PathsAgreeWithStatus
  BY DEF OutputsInit, PathsAgreeWithStatus
<1>2. PathsAgreeWithStatus /\ RecordTypes' /\ [OutputsNext]_outputVars
        => PathsAgreeWithStatus'
  <2> SUFFICES ASSUME PathsAgreeWithStatus, RecordTypes', [OutputsNext]_outputVars
               PROVE  PathsAgreeWithStatus'
    OBVIOUS
  <2>1. CASE Accepts(data', paths) /\ Advertise
    <3>1. status' = data' /\ type' = type /\ secondaryBattery' = secondaryBattery
      BY <2>1, ServerSteps DEF Accepts
    <3>2. \A c \in Published(type, data', secondaryBattery) :
            /\ paths'[c.path] = OnPath(type, data', c)
            /\ Means(c.path, c.name, Measurement(type, data', c.name)[1],
                     OnPath(type, data', c)[1])
      BY <2>1, <3>1, AcceptedPaths, PathMeansReading DEF RecordTypes
    <3>3. \A c : OnPath(type, data', c) # <<>>
      BY DEF OnPath
    <3> QED
      BY <3>1, <3>2, <3>3 DEF PathsAgreeWithStatus, Published
  <2>2. CASE status' = Empty
    BY <2>2 DEF PathsAgreeWithStatus
  <2>3. CASE status' = status /\ paths' = paths
    <3>1. type' = type /\ secondaryBattery' = secondaryBattery
      BY ServerSteps
    <3> QED
      BY <2>3, <3>1 DEF PathsAgreeWithStatus
  <2> QED
    BY <2>1, <2>2, <2>3, ServerSteps
<1> QED
  BY <1>1, <1>2, RecordsAreRecords, PTL DEF OutputsSpec

\* The names of the fields of each layout.
LEMMA SolarChargerNames ==
  \A f \in SolarCharger :
    f.name \in {"charge_state", "charger_error", "battery_voltage_v",
               "battery_charging_current_a", "yield_today_j", "solar_power_w",
               "external_device_load_a"}
BY FieldReads, FlagsReads, UnsignedReads, SignedReads, UnsignedInStepsReads,
   SignedInStepsReads, CelsiusReads
DEF SolarCharger, Reads

LEMMA BatteryMonitorNames ==
  \A f \in BatteryMonitor :
    f.name \in {"time_to_go_s", "battery_voltage_v", "alarm_reason", "aux",
               "battery_current_a", "consumed_ah", "state_of_charge_percent"}
BY FieldReads, FlagsReads, UnsignedReads, SignedReads, UnsignedInStepsReads,
   SignedInStepsReads, CelsiusReads
DEF BatteryMonitor, Reads

LEMMA InverterNames ==
  \A f \in Inverter :
    f.name \in {"state", "state_name", "alarm_reason", "battery_voltage_v",
               "ac_apparent_power_va", "ac_voltage_v", "ac_current_a"}
BY FieldReads, FlagsReads, UnsignedReads, SignedReads, UnsignedInStepsReads,
   SignedInStepsReads, CelsiusReads
DEF Inverter, StateAndName, Reads

LEMMA DcDcConverterNames ==
  \A f \in DcDcConverter :
    f.name \in {"state", "state_name", "error", "error_name", "input_voltage_v",
               "output_voltage_v", "off_reason"}
BY FieldReads, FlagsReads, UnsignedReads, SignedReads, UnsignedInStepsReads,
   SignedInStepsReads, CelsiusReads
DEF DcDcConverter, Reads

LEMMA SmartLithiumNames ==
  \A f \in SmartLithium :
    f.name \in {"bms_flags", "error_flags", "battery_voltage_v", "balancer_status",
               "temperature_c"}
              \union {Cells[i] : i \in 1..8}
BY FieldReads, FlagsReads, UnsignedReads, SignedReads, UnsignedInStepsReads,
   SignedInStepsReads, CelsiusReads
DEF SmartLithium, Reads

LEMMA InverterRsNames ==
  \A f \in InverterRs :
    f.name \in {"state", "state_name", "battery_voltage_v", "battery_current_a",
               "solar_power_w", "yield_today_j", "ac_out_power_w", "error",
               "error_name"}
BY FieldReads, FlagsReads, UnsignedReads, SignedReads, UnsignedInStepsReads,
   SignedInStepsReads, CelsiusReads
DEF InverterRs, StateAndName, ErrorAndName, Reads

LEMMA BatteryProtectNames ==
  \A f \in BatteryProtect :
    f.name \in {"state", "state_name", "output_state", "alarm_reason",
               "warning_reason", "input_voltage_v", "output_voltage_v",
               "off_reason", "error", "error_name"}
BY FieldReads, FlagsReads, UnsignedReads, SignedReads, UnsignedInStepsReads,
   SignedInStepsReads, CelsiusReads
DEF BatteryProtect, StateAndName, ErrorAndName, Reads

LEMMA LynxSmartBmsNames ==
  \A f \in LynxSmartBms :
    f.name \in {"error", "time_to_go_s", "battery_voltage_v", "battery_current_a",
               "io_status", "warnings_alarms", "state_of_charge_percent",
               "consumed_ah", "temperature_c"}
BY FieldReads, FlagsReads, UnsignedReads, SignedReads, UnsignedInStepsReads,
   SignedInStepsReads, CelsiusReads
DEF LynxSmartBms, Reads

LEMMA MultiRsNames ==
  \A f \in MultiRs :
    f.name \in {"state", "state_name", "battery_current_a", "battery_voltage_v",
               "active_ac_input", "active_ac_power_w", "ac_out_power_w",
               "solar_power_w", "yield_today_j", "error", "error_name"}
BY FieldReads, FlagsReads, UnsignedReads, SignedReads, UnsignedInStepsReads,
   SignedInStepsReads, CelsiusReads
DEF MultiRs, MultiRsWith, StateAndName, ErrorAndName, Reads

LEMMA VeBusNames ==
  \A f \in VeBus :
    f.name \in {"state", "state_name", "ve_bus_error", "battery_current_a",
               "battery_voltage_v", "active_ac_input", "active_ac_power_w",
               "ac_out_power_w", "alarm", "temperature_c", "state_of_charge_percent"}
BY FieldReads, FlagsReads, UnsignedReads, SignedReads, UnsignedInStepsReads,
   SignedInStepsReads, CelsiusReads
DEF VeBus, StateAndName, Reads

LEMMA DcEnergyMeterNames ==
  \A f \in DcEnergyMeter :
    f.name \in {"bmv_monitor_mode", "battery_voltage_v", "alarm_reason", "aux",
               "battery_current_a"}
BY FieldReads, FlagsReads, UnsignedReads, SignedReads, UnsignedInStepsReads,
   SignedInStepsReads, CelsiusReads
DEF DcEnergyMeter, Reads

LEMMA OrionXsNames ==
  \A f \in OrionXs :
    f.name \in {"state", "state_name", "output_voltage_v", "output_current_a",
               "input_voltage_v", "input_current_a", "off_reason", "error",
               "error_name"}
BY FieldReads, FlagsReads, UnsignedReads, SignedReads, UnsignedInStepsReads,
   SignedInStepsReads, CelsiusReads
DEF OrionXs, StateAndName, ErrorAndName, Reads

\* What a path builder looks for is in the layout of its record.
LEMMA SolarChargerIsPublished ==
  \A c \in solarChargerCandidates : \E f \in SolarCharger : f.name = c.name
<1>1. \A c \in solarChargerCandidates :
        c.name \in {"charge_state",
               "charger_error", "battery_voltage_v", "battery_charging_current_a",
               "solar_power_w", "yield_today_j", "external_device_load_a"}
  BY DEF solarChargerCandidates, ChargerState, Solar, To, ToAs
<1>2. /\ Unsigned("charge_state", 0, 8, 255) \in SolarCharger
      /\ Unsigned("charger_error", 8, 8, 255) \in SolarCharger
      /\ Signed("battery_voltage_v", 16, \h7FFF) \in SolarCharger
      /\ InSteps(100, Signed("battery_charging_current_a", 32, \h7FFF)) \in SolarCharger
      /\ Unsigned("solar_power_w", 64, 16, \hFFFF) \in SolarCharger
      /\ InSteps(36, Unsigned("yield_today_j", 48, 16, \hFFFF)) \in SolarCharger
      /\ InSteps(100, Unsigned("external_device_load_a", 80, 9, \h1FF)) \in SolarCharger
  BY DEF SolarCharger
<1> QED
  BY <1>1, <1>2, FieldReads, FlagsReads, UnsignedReads, SignedReads, UnsignedInStepsReads,
   SignedInStepsReads, CelsiusReads
  DEF Reads

LEMMA BatteryMonitorIsPublished ==
  \A c \in batteryMonitorCandidates :
    c.name = "temperature_k" \/ \E f \in BatteryMonitor : f.name = c.name
<1>1. \A c \in batteryMonitorCandidates :
        c.name \in {"battery_voltage_v",
               "battery_current_a", "state_of_charge_percent", "time_to_go_s",
               "consumed_ah", "temperature_k"}
  BY DEF batteryMonitorCandidates, To, ToAs
<1>2. /\ Signed("battery_voltage_v", 16, \h7FFF) \in BatteryMonitor
      /\ Field("allOnes", "battery_current_a", 66, 22, \h3FFFFF) \in BatteryMonitor
      /\ InSteps(100, Unsigned("state_of_charge_percent", 108, 10, \h3FF))
           \in BatteryMonitor
      /\ InSteps(60, Unsigned("time_to_go_s", 0, 16, \hFFFF)) \in BatteryMonitor
      /\ InSteps(-1, Unsigned("consumed_ah", 88, 20, \hFFFFF)) \in BatteryMonitor
  BY DEF BatteryMonitor
<1> QED
  BY <1>1, <1>2, FieldReads, FlagsReads, UnsignedReads, SignedReads, UnsignedInStepsReads,
   SignedInStepsReads, CelsiusReads
  DEF Reads

LEMMA InverterIsPublished ==
  \A c \in inverterCandidates : \E f \in Inverter : f.name = c.name
<1>1. \A c \in inverterCandidates :
        c.name \in {"battery_voltage_v",
               "ac_voltage_v", "ac_current_a", "ac_apparent_power_va"}
  BY DEF inverterCandidates, To
<1>2. /\ Signed("battery_voltage_v", 24, \h7FFF) \in Inverter
      /\ Unsigned("ac_voltage_v", 56, 15, \h7FFF) \in Inverter
      /\ InSteps(100, Unsigned("ac_current_a", 71, 11, \h7FF)) \in Inverter
      /\ Unsigned("ac_apparent_power_va", 40, 16, \hFFFF) \in Inverter
  BY DEF Inverter, StateAndName
<1> QED
  BY <1>1, <1>2, FieldReads, FlagsReads, UnsignedReads, SignedReads, UnsignedInStepsReads,
   SignedInStepsReads, CelsiusReads
  DEF Reads

LEMMA DcDcConverterIsPublished ==
  \A c \in dcDcConverterCandidates : \E f \in DcDcConverter : f.name = c.name
<1>1. \A c \in dcDcConverterCandidates :
        c.name \in {"output_voltage_v",
               "input_voltage_v", "state_name", "error_name"}
  BY DEF dcDcConverterCandidates, ChargerState, Charger, To, ToAs
<1>2. /\ Signed("output_voltage_v", 32, \h7FFF) \in DcDcConverter
      /\ Unsigned("input_voltage_v", 16, 16, \hFFFF) \in DcDcConverter
      /\ Unsigned("state_name", 0, 8, 255) \in DcDcConverter
      /\ Unsigned("error_name", 8, 8, 255) \in DcDcConverter
  BY DEF DcDcConverter
<1> QED
  BY <1>1, <1>2, FieldReads, FlagsReads, UnsignedReads, SignedReads, UnsignedInStepsReads,
   SignedInStepsReads, CelsiusReads
  DEF Reads

LEMMA SmartLithiumIsPublished ==
  \A c \in smartLithiumCandidates : \E f \in SmartLithium : f.name = c.name
<1>1. \A c \in smartLithiumCandidates :
        c.name \in {"battery_voltage_v",
               "temperature_c"}
  BY DEF smartLithiumCandidates, To, ToAs
<1>2. /\ Unsigned("battery_voltage_v", 104, 12, \hFFF) \in SmartLithium
      /\ Celsius("temperature_c", 120) \in SmartLithium
  BY DEF SmartLithium
<1> QED
  BY <1>1, <1>2, FieldReads, FlagsReads, UnsignedReads, SignedReads, UnsignedInStepsReads,
   SignedInStepsReads, CelsiusReads
  DEF Reads

LEMMA InverterRsIsPublished ==
  \A c \in inverterRsCandidates : \E f \in InverterRs : f.name = c.name
<1>1. \A c \in inverterRsCandidates :
        c.name \in {"battery_voltage_v",
               "battery_current_a", "ac_out_power_w"}
  BY DEF inverterRsCandidates, To
<1>2. /\ Signed("battery_voltage_v", 16, \h7FFF) \in InverterRs
      /\ InSteps(100, Signed("battery_current_a", 32, \h7FFF)) \in InverterRs
      /\ Signed("ac_out_power_w", 80, \h7FFF) \in InverterRs
  BY DEF InverterRs, StateAndName, ErrorAndName
<1> QED
  BY <1>1, <1>2, FieldReads, FlagsReads, UnsignedReads, SignedReads, UnsignedInStepsReads,
   SignedInStepsReads, CelsiusReads
  DEF Reads

LEMMA LynxSmartBmsIsPublished ==
  \A c \in lynxCandidates : \E f \in LynxSmartBms : f.name = c.name
<1>1. \A c \in lynxCandidates :
        c.name \in {"battery_voltage_v",
               "battery_current_a", "state_of_charge_percent", "time_to_go_s",
               "temperature_c"}
  BY DEF lynxCandidates, To, ToAs
<1>2. /\ Signed("battery_voltage_v", 24, \h7FFF) \in LynxSmartBms
      /\ InSteps(100, Signed("battery_current_a", 40, \h7FFF)) \in LynxSmartBms
      /\ InSteps(100, Unsigned("state_of_charge_percent", 90, 10, \h3FF))
           \in LynxSmartBms
      /\ InSteps(60, Unsigned("time_to_go_s", 8, 16, \hFFFF)) \in LynxSmartBms
      /\ Celsius("temperature_c", 120) \in LynxSmartBms
  BY DEF LynxSmartBms
<1> QED
  BY <1>1, <1>2, FieldReads, FlagsReads, UnsignedReads, SignedReads, UnsignedInStepsReads,
   SignedInStepsReads, CelsiusReads
  DEF Reads

LEMMA OrionXsIsPublished ==
  \A c \in orionCandidates : \E f \in OrionXs : f.name = c.name
<1>1. \A c \in orionCandidates :
        c.name \in {"output_voltage_v",
               "output_current_a", "input_voltage_v", "input_current_a",
               "state_name", "error_name"}
  BY DEF orionCandidates, ChargerState, Charger, To, ToAs
<1>2. /\ Signed("output_voltage_v", 16, \h7FFF) \in OrionXs
      /\ InSteps(100, Signed("output_current_a", 32, \h7FFF)) \in OrionXs
      /\ Unsigned("input_voltage_v", 48, 16, \hFFFF) \in OrionXs
      /\ InSteps(100, Unsigned("input_current_a", 64, 16, \hFFFF)) \in OrionXs
      /\ Unsigned("state_name", 0, 8, 255) \in OrionXs
      /\ Unsigned("error_name", 8, 8, 255) \in OrionXs
  BY DEF OrionXs, StateAndName, ErrorAndName
<1> QED
  BY <1>1, <1>2, FieldReads, FlagsReads, UnsignedReads, SignedReads, UnsignedInStepsReads,
   SignedInStepsReads, CelsiusReads
  DEF Reads

----------------------------------------------------------------------------
(* The rows of the web application.                                        *)

\* A row of these looks at the reading.
Shown(rows, name) ==
  \E row \in rows : DOMAIN row \subseteq Nat /\ \E i \in DOMAIN row : row[i] = name

\* A row shows each name in it.
LEMMA RowsShow ==
  ASSUME NEW rows
  PROVE  /\ \A name : <<name>> \in rows => Shown(rows, name)
         /\ State \in rows => Shown(rows, "state") /\ Shown(rows, "state_name")
         /\ Error \in rows => Shown(rows, "error") /\ Shown(rows, "error_name")
         /\ << "error_name", "ve_bus_error" >> \in rows =>
              Shown(rows, "error_name") /\ Shown(rows, "ve_bus_error")
         /\ Cells \in rows => \A i \in 1..8 : Shown(rows, Cells[i])
<1>1. ASSUME NEW name, <<name>> \in rows PROVE Shown(rows, name)
  <2> DEFINE row == <<name>>
  <2>1. DOMAIN row = {1} /\ row[1] = name
    OBVIOUS
  <2> HIDE DEF row
  <2> QED
    BY <1>1, <2>1 DEF Shown, row
<1>2. ASSUME NEW one, NEW other, << one, other >> \in rows
      PROVE  Shown(rows, one) /\ Shown(rows, other)
  <2> DEFINE row == << one, other >>
  <2>1. DOMAIN row = {1, 2} /\ row[1] = one /\ row[2] = other
    OBVIOUS
  <2>2. row \in rows
    BY <1>2
  <2> HIDE DEF row
  <2> QED
    BY <2>1, <2>2 DEF Shown
<1>3. DOMAIN Cells = 1..8
  BY DEF Cells
<1>4. ASSUME Cells \in rows, NEW i \in 1..8 PROVE Shown(rows, Cells[i])
  BY <1>3, <1>4 DEF Shown
<1> QED
  BY <1>1, <1>2, <1>4 DEF State, Error

\* The first of a row that is not null.
LEMMA RowHasValue ==
  ASSUME NEW row, DOMAIN row \subseteq Nat, NEW i \in DOMAIN row, NEW t, NEW record,
         Measurement(t, record, row[i]) # <<>>
  PROVE  RowValue(row, t, record) # <<>>
<1> DEFINE given == {k \in DOMAIN row : Measurement(t, record, row[k]) # <<>>}
<1>1. given \in SUBSET Nat /\ given # {}
  OBVIOUS
<1> HIDE DEF given
<1>2. Min(given) \in given
  BY <1>1, LeastNumber DEF Min
<1>3. Measurement(t, record, row[Min(given)]) # <<>>
  BY <1>2 DEF given
<1>4. RowValue(row, t, record) = Measurement(t, record, row[Min(given)])
  BY <1>1 DEF RowValue, given
<1> QED
  BY <1>3, <1>4

\* The rows of each record type.
LEMMA RowsOf ==
  /\ MeasurementFields(1) = SolarRows
  /\ MeasurementFields(2) = BatteryRows /\ MeasurementFields(13) = BatteryRows
  /\ MeasurementFields(3) = {State} \union Plain({"battery_voltage_v", "ac_voltage_v",
       "ac_current_a", "ac_apparent_power_va", "alarm_reason"})
  /\ MeasurementFields(4) = {State, Error} \union Plain({"input_voltage_v",
       "output_voltage_v", "off_reason"})
  /\ MeasurementFields(5) = {Cells} \union Plain({"battery_voltage_v",
       "temperature_c", "balancer_status", "bms_flags", "error_flags"})
  /\ MeasurementFields(6) = {State, Error} \union Plain({"battery_voltage_v",
       "battery_current_a", "solar_power_w", "yield_today_j", "ac_out_power_w"})
  /\ MeasurementFields(9) = {State, Error} \union Plain({"output_state",
       "input_voltage_v", "output_voltage_v", "alarm_reason", "warning_reason",
       "off_reason"})
  /\ MeasurementFields(10) = Plain({"battery_voltage_v", "battery_current_a",
       "state_of_charge_percent", "temperature_c", "time_to_go_s", "consumed_ah",
       "error", "io_status", "warnings_alarms"})
  /\ MeasurementFields(11) = MultiRows /\ MeasurementFields(12) = MultiRows
  /\ MeasurementFields(15) = {State, Error} \union Plain({"input_voltage_v",
       "input_current_a", "output_voltage_v", "output_current_a", "off_reason"})
BY DEF MeasurementFields

\* The readings of a record are those of its fields, and what its aux field is.
AuxReadings == {"aux_input", "aux_voltage_v", "mid_voltage_v", "temperature_k"}

LEMMA NamesOf ==
  ASSUME NEW t, NEW S, \A f \in FieldsOf(t) : f.name \in S
  PROVE  /\ Names(t) \subseteq S \union AuxReadings
         /\ "aux" \notin S => Names(t) \subseteq S
<1> DEFINE names == {f.name : f \in FieldsOf(t)}
<1>1. names \subseteq S
  OBVIOUS
<1>2. {AuxNames[i] : i \in 1..3} \subseteq AuxReadings /\ "aux_input" \in AuxReadings
  BY DEF AuxNames, AuxReadings
<1>3. Names(t) = names \union (IF "aux" \in names
                               THEN {"aux_input"} \union {AuxNames[i] : i \in 1..3}
                               ELSE {})
  BY DEF Names
<1> HIDE DEF names
<1> QED
  BY <1>1, <1>2, <1>3

\* Each reading of a record is in a row of its type.
LEMMA SolarChargerShown ==
  \A name \in Names(1) \ NotShown(1) : Shown(MeasurementFields(1), name)
<1>1. \A name \in {"charge_state", "charger_error", "battery_voltage_v",
               "battery_charging_current_a", "yield_today_j", "solar_power_w",
               "external_device_load_a"} :
        <<name>> \in MeasurementFields(1)
  BY RowsOf DEF Plain, SolarRows
<1> DEFINE names == {"charge_state", "charger_error", "battery_voltage_v",
                         "battery_charging_current_a", "yield_today_j",
                         "solar_power_w", "external_device_load_a"}
<1>3. \A f \in FieldsOf(1) : f.name \in names
  BY LayoutOf, SolarChargerNames
<1>4. Names(1) \subseteq names
  <2>1. "aux" \notin names
    OBVIOUS
  <2> HIDE DEF names
  <2> QED
    BY <1>3, <2>1, NamesOf
<1> QED
  BY <1>1, <1>4, RowsShow DEF NotShown

LEMMA BatteryMonitorShown ==
  \A name \in Names(2) \ NotShown(2) : Shown(MeasurementFields(2), name)
<1>1. \A name \in {"time_to_go_s", "battery_voltage_v", "alarm_reason",
               "battery_current_a", "consumed_ah", "state_of_charge_percent",
               "aux_input", "aux_voltage_v", "mid_voltage_v", "temperature_k"} :
        <<name>> \in MeasurementFields(2)
  BY RowsOf DEF Plain, BatteryRows
<1> DEFINE names == {"time_to_go_s", "battery_voltage_v", "alarm_reason", "aux",
                         "battery_current_a", "consumed_ah",
                         "state_of_charge_percent"}
<1>3. \A f \in FieldsOf(2) : f.name \in names
  BY LayoutOf, BatteryMonitorNames
<1>4. Names(2) \subseteq names \union AuxReadings
  <2> HIDE DEF names
  <2> QED
    BY <1>3, NamesOf
<1> QED
  BY <1>1, <1>4, RowsShow DEF NotShown, AuxReadings

LEMMA InverterShown ==
  \A name \in Names(3) \ NotShown(3) : Shown(MeasurementFields(3), name)
<1>1. \A name \in {"alarm_reason", "battery_voltage_v", "ac_apparent_power_va",
               "ac_voltage_v", "ac_current_a"} :
        <<name>> \in MeasurementFields(3)
  BY RowsOf DEF Plain
<1>2. State \in MeasurementFields(3)
  BY RowsOf
<1> DEFINE names == {"state", "state_name", "alarm_reason", "battery_voltage_v",
                         "ac_apparent_power_va", "ac_voltage_v", "ac_current_a"}
<1>3. \A f \in FieldsOf(3) : f.name \in names
  BY LayoutOf, InverterNames
<1>4. Names(3) \subseteq names
  <2>1. "aux" \notin names
    OBVIOUS
  <2> HIDE DEF names
  <2> QED
    BY <1>3, <2>1, NamesOf
<1> QED
  BY <1>1, <1>2, <1>4, RowsShow DEF NotShown

LEMMA DcDcConverterShown ==
  \A name \in Names(4) \ NotShown(4) : Shown(MeasurementFields(4), name)
<1>1. \A name \in {"input_voltage_v", "output_voltage_v", "off_reason"} :
        <<name>> \in MeasurementFields(4)
  BY RowsOf DEF Plain
<1>2. State \in MeasurementFields(4) /\ Error \in MeasurementFields(4)
  BY RowsOf
<1> DEFINE names == {"state", "state_name", "error", "error_name",
                         "input_voltage_v", "output_voltage_v", "off_reason"}
<1>3. \A f \in FieldsOf(4) : f.name \in names
  BY LayoutOf, DcDcConverterNames
<1>4. Names(4) \subseteq names
  <2>1. "aux" \notin names
    OBVIOUS
  <2> HIDE DEF names
  <2> QED
    BY <1>3, <2>1, NamesOf
<1> QED
  BY <1>1, <1>2, <1>4, RowsShow DEF NotShown

LEMMA SmartLithiumShown ==
  \A name \in Names(5) \ NotShown(5) : Shown(MeasurementFields(5), name)
<1>1. \A name \in {"bms_flags", "error_flags", "battery_voltage_v",
               "balancer_status", "temperature_c"} :
        <<name>> \in MeasurementFields(5)
  BY RowsOf DEF Plain
<1>2. Cells \in MeasurementFields(5)
  BY RowsOf
<1> DEFINE names == {"bms_flags", "error_flags", "battery_voltage_v",
                         "balancer_status", "temperature_c"}
                        \union {Cells[i] : i \in 1..8}
<1>3. \A f \in FieldsOf(5) : f.name \in names
  BY LayoutOf, SmartLithiumNames
<1>4. Names(5) \subseteq names
  <2>1. "aux" \notin names
    BY DEF Cells
  <2> HIDE DEF names
  <2> QED
    BY <1>3, <2>1, NamesOf
<1> QED
  BY <1>1, <1>2, <1>4, RowsShow DEF NotShown

LEMMA InverterRsShown ==
  \A name \in Names(6) \ NotShown(6) : Shown(MeasurementFields(6), name)
<1>1. \A name \in {"battery_voltage_v", "battery_current_a", "solar_power_w",
               "yield_today_j", "ac_out_power_w"} :
        <<name>> \in MeasurementFields(6)
  BY RowsOf DEF Plain
<1>2. State \in MeasurementFields(6) /\ Error \in MeasurementFields(6)
  BY RowsOf
<1> DEFINE names == {"state", "state_name", "battery_voltage_v",
                         "battery_current_a", "solar_power_w", "yield_today_j",
                         "ac_out_power_w", "error", "error_name"}
<1>3. \A f \in FieldsOf(6) : f.name \in names
  BY LayoutOf, InverterRsNames
<1>4. Names(6) \subseteq names
  <2>1. "aux" \notin names
    OBVIOUS
  <2> HIDE DEF names
  <2> QED
    BY <1>3, <2>1, NamesOf
<1> QED
  BY <1>1, <1>2, <1>4, RowsShow DEF NotShown

LEMMA BatteryProtectShown ==
  \A name \in Names(9) \ NotShown(9) : Shown(MeasurementFields(9), name)
<1>1. \A name \in {"output_state", "alarm_reason", "warning_reason",
               "input_voltage_v", "output_voltage_v", "off_reason"} :
        <<name>> \in MeasurementFields(9)
  BY RowsOf DEF Plain
<1>2. State \in MeasurementFields(9) /\ Error \in MeasurementFields(9)
  BY RowsOf
<1> DEFINE names == {"state", "state_name", "output_state", "alarm_reason",
                         "warning_reason", "input_voltage_v", "output_voltage_v",
                         "off_reason", "error", "error_name"}
<1>3. \A f \in FieldsOf(9) : f.name \in names
  BY LayoutOf, BatteryProtectNames
<1>4. Names(9) \subseteq names
  <2>1. "aux" \notin names
    OBVIOUS
  <2> HIDE DEF names
  <2> QED
    BY <1>3, <2>1, NamesOf
<1> QED
  BY <1>1, <1>2, <1>4, RowsShow DEF NotShown

LEMMA LynxSmartBmsShown ==
  \A name \in Names(10) \ NotShown(10) : Shown(MeasurementFields(10), name)
<1>1. \A name \in {"error", "time_to_go_s", "battery_voltage_v",
               "battery_current_a", "io_status", "warnings_alarms",
               "state_of_charge_percent", "consumed_ah", "temperature_c"} :
        <<name>> \in MeasurementFields(10)
  BY RowsOf DEF Plain
<1> DEFINE names == {"error", "time_to_go_s", "battery_voltage_v",
                         "battery_current_a", "io_status", "warnings_alarms",
                         "state_of_charge_percent", "consumed_ah", "temperature_c"}
<1>3. \A f \in FieldsOf(10) : f.name \in names
  BY LayoutOf, LynxSmartBmsNames
<1>4. Names(10) \subseteq names
  <2>1. "aux" \notin names
    OBVIOUS
  <2> HIDE DEF names
  <2> QED
    BY <1>3, <2>1, NamesOf
<1> QED
  BY <1>1, <1>4, RowsShow DEF NotShown

LEMMA MultiRsShown ==
  \A name \in Names(11) \ NotShown(11) : Shown(MeasurementFields(11), name)
<1>1. \A name \in {"battery_current_a", "battery_voltage_v", "active_ac_input",
               "active_ac_power_w", "ac_out_power_w", "solar_power_w",
               "yield_today_j"} :
        <<name>> \in MeasurementFields(11)
  BY RowsOf DEF Plain, MultiRows
<1>2. /\ State \in MeasurementFields(11)
      /\ << "error_name", "ve_bus_error" >> \in MeasurementFields(11)
  BY RowsOf DEF MultiRows
<1> DEFINE names == {"state", "state_name", "battery_current_a",
                         "battery_voltage_v", "active_ac_input",
                         "active_ac_power_w", "ac_out_power_w", "solar_power_w",
                         "yield_today_j", "error", "error_name"}
<1>3. \A f \in FieldsOf(11) : f.name \in names
  BY LayoutOf, MultiRsNames
<1>4. Names(11) \subseteq names
  <2>1. "aux" \notin names
    OBVIOUS
  <2> HIDE DEF names
  <2> QED
    BY <1>3, <2>1, NamesOf
<1> QED
  BY <1>1, <1>2, <1>4, RowsShow DEF NotShown

LEMMA VeBusShown ==
  \A name \in Names(12) \ NotShown(12) : Shown(MeasurementFields(12), name)
<1>1. \A name \in {"battery_current_a", "battery_voltage_v", "active_ac_input",
               "active_ac_power_w", "ac_out_power_w", "alarm", "temperature_c",
               "state_of_charge_percent"} :
        <<name>> \in MeasurementFields(12)
  BY RowsOf DEF Plain, MultiRows
<1>2. /\ State \in MeasurementFields(12)
      /\ << "error_name", "ve_bus_error" >> \in MeasurementFields(12)
  BY RowsOf DEF MultiRows
<1> DEFINE names == {"state", "state_name", "ve_bus_error", "battery_current_a",
                         "battery_voltage_v", "active_ac_input",
                         "active_ac_power_w", "ac_out_power_w", "alarm",
                         "temperature_c", "state_of_charge_percent"}
<1>3. \A f \in FieldsOf(12) : f.name \in names
  BY LayoutOf, VeBusNames
<1>4. Names(12) \subseteq names
  <2>1. "aux" \notin names
    OBVIOUS
  <2> HIDE DEF names
  <2> QED
    BY <1>3, <2>1, NamesOf
<1> QED
  BY <1>1, <1>2, <1>4, RowsShow DEF NotShown

LEMMA DcEnergyMeterShown ==
  \A name \in Names(13) \ NotShown(13) : Shown(MeasurementFields(13), name)
<1>1. \A name \in {"battery_voltage_v", "alarm_reason", "battery_current_a",
               "aux_input", "aux_voltage_v", "mid_voltage_v", "temperature_k"} :
        <<name>> \in MeasurementFields(13)
  BY RowsOf DEF Plain, BatteryRows
<1> DEFINE names == {"bmv_monitor_mode", "battery_voltage_v", "alarm_reason",
                         "aux", "battery_current_a"}
<1>3. \A f \in FieldsOf(13) : f.name \in names
  BY LayoutOf, DcEnergyMeterNames
<1>4. Names(13) \subseteq names \union AuxReadings
  <2> HIDE DEF names
  <2> QED
    BY <1>3, NamesOf
<1> QED
  BY <1>1, <1>4, RowsShow DEF NotShown, AuxReadings

LEMMA OrionXsShown ==
  \A name \in Names(15) \ NotShown(15) : Shown(MeasurementFields(15), name)
<1>1. \A name \in {"output_voltage_v", "output_current_a", "input_voltage_v",
               "input_current_a", "off_reason"} :
        <<name>> \in MeasurementFields(15)
  BY RowsOf DEF Plain
<1>2. State \in MeasurementFields(15) /\ Error \in MeasurementFields(15)
  BY RowsOf
<1> DEFINE names == {"state", "state_name", "output_voltage_v", "output_current_a",
                         "input_voltage_v", "input_current_a", "off_reason",
                         "error", "error_name"}
<1>3. \A f \in FieldsOf(15) : f.name \in names
  BY LayoutOf, OrionXsNames
<1>4. Names(15) \subseteq names
  <2>1. "aux" \notin names
    OBVIOUS
  <2> HIDE DEF names
  <2> QED
    BY <1>3, <2>1, NamesOf
<1> QED
  BY <1>1, <1>2, <1>4, RowsShow DEF NotShown

\* The three tables agree on the names of the readings, for every record.
THEOREM TablesAgree == OutputsSpec => []EveryReadingHasAPlace
<1>1. \A t \in DOMAIN Layouts : \A name \in Names(t) \ NotShown(t) :
        Shown(MeasurementFields(t), name)
  <2>1. \A t \in {1, 2, 3, 4, 5, 6} : \A name \in Names(t) \ NotShown(t) :
          Shown(MeasurementFields(t), name)
    BY SolarChargerShown, BatteryMonitorShown, InverterShown, DcDcConverterShown,
       SmartLithiumShown, InverterRsShown
  <2>2. \A t \in {9, 10, 11, 12, 13, 15} : \A name \in Names(t) \ NotShown(t) :
          Shown(MeasurementFields(t), name)
    BY BatteryProtectShown, LynxSmartBmsShown, MultiRsShown, VeBusShown,
       DcEnergyMeterShown, OrionXsShown
  <2> QED
    BY <2>1, <2>2, LayoutOf
<1>2. ASSUME NEW t \in DOMAIN PathBuilders, NEW c \in PathBuilders[t]
      PROVE  c.name \in Names(t)
  <2>1. \A f \in FieldsOf(t) : f.name \in Names(t)
    BY DEF Names
  <2>2. CASE t \in {1, 3, 4, 5}
    BY <2>1, <2>2, BuildersOf, LayoutOf, SolarChargerIsPublished, InverterIsPublished,
       DcDcConverterIsPublished, SmartLithiumIsPublished
  <2>3. CASE t \in {6, 10, 15}
    BY <2>1, <2>3, BuildersOf, LayoutOf, InverterRsIsPublished, LynxSmartBmsIsPublished,
       OrionXsIsPublished
  <2>4. CASE t = 2
    <3>1. "temperature_k" \in Names(2)
      <4>1. AuxNames[3] = "temperature_k" /\ 3 \in 1..3
        BY DEF AuxNames
      <4>2. "temperature_k" \in {AuxNames[i] : i \in 1..3}
        BY <4>1
      <4>3. "aux" \in {f.name : f \in FieldsOf(2)}
        BY LimitedReadings, LayoutOf
      <4> QED
        BY <4>2, <4>3 DEF Names
    <3> QED
      BY <2>1, <2>4, <3>1, BuildersOf, LayoutOf, BatteryMonitorIsPublished
  <2> QED
    BY <2>2, <2>3, <2>4, BuildersOf
<1>3. RecordTypes => EveryReadingHasAPlace
  <2> SUFFICES ASSUME RecordTypes, NEW name \in Names(type) \ NotShown(type),
                      Measurement(type, data, name) # <<>>
               PROVE  \E row \in MeasurementFields(type) :
                        /\ name \in {row[i] : i \in DOMAIN row}
                        /\ RowValue(row, type, data) # <<>>
    BY <1>2 DEF EveryReadingHasAPlace
  <2>1. PICK row \in MeasurementFields(type) :
          DOMAIN row \subseteq Nat /\ \E i \in DOMAIN row : row[i] = name
    BY <1>1 DEF RecordTypes, Shown
  <2>2. PICK i \in DOMAIN row : row[i] = name
    BY <2>1
  <2>3. RowValue(row, type, data) # <<>>
    BY <2>1, <2>2, RowHasValue
  <2> QED
    BY <2>2, <2>3
<1> QED
  BY <1>3, RecordsAreRecords, PTL

=============================================================================
