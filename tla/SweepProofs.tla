---------------------------- MODULE SweepProofs ----------------------------
(***************************************************************************)
(* Proofs about Sweep, for every number of addresses, sequence numbers,    *)
(* sockets, ranges, ports and slots.                                       *)
(***************************************************************************)
EXTENDS Sweep, FiniteSetTheorems, WellFoundedInduction, TLAPS

-----------------------------------------------------------------------------
(* The sizes of ranges.                                                    *)

LEMMA LeastExists ==
  ASSUME NEW S \in SUBSET Nat, S # {}
  PROVE  \E m \in S : \A k \in S : m <= k
<1>1. \E m \in S : \A k \in S : ~ (k < m)
  <2>1. PICK m \in S : \A k \in S : ~ (<<k, m>> \in OpToRel(<, Nat))
    BY NatLessThanWellFounded, WFMin
  <2>2. ASSUME NEW k \in S PROVE ~ (k < m)
    BY <2>1 DEF OpToRel
  <2> QED
    BY <2>2, Zenon
<1> QED
  BY <1>1

Doubles(f, n) ==
  /\ f \in [0 .. n -> Nat \ {0}] /\ f[0] = 1
  /\ \A k \in 1 .. n : f[k] = 2 * f[k - 1]

LEMMA DoublesExists == \A n \in Nat : \E f : Doubles(f, n)
<1> DEFINE Bad == {n \in Nat : ~ \E f : Doubles(f, n)}
<1>1. Doubles([k \in 0 .. 0 |-> 1], 0)
  BY DEF Doubles
<1>2. ASSUME NEW n \in Nat, NEW old, Doubles(old, n) PROVE \E f : Doubles(f, n + 1)
  <2> DEFINE f == [k \in 0 .. n + 1 |-> IF k = n + 1 THEN 2 * old[n] ELSE old[k]]
  <2>1. old[n] \in Nat \ {0} /\ \A k \in 0 .. n : old[k] \in Nat \ {0}
    BY <1>2 DEF Doubles
  <2>2. f \in [0 .. n + 1 -> Nat \ {0}]
    BY <2>1
  <2>3. f[0] = 1 /\ \A k \in 1 .. n : f[k] = 2 * f[k - 1]
    BY <1>2 DEF Doubles
  <2>4. f[n + 1] = 2 * f[(n + 1) - 1]
    OBVIOUS
  <2> HIDE DEF f
  <2>5. Doubles(f, n + 1)
    BY <2>2, <2>3, <2>4 DEF Doubles
  <2> QED
    BY <2>5
<1> SUFFICES ASSUME Bad # {} PROVE FALSE
  OBVIOUS
<1>3. PICK m \in Bad : \A k \in Bad : m <= k
  <2>1. Bad \in SUBSET Nat
    OBVIOUS
  <2> HIDE DEF Bad
  <2> QED
    BY <2>1, LeastExists
<1>4. m # 0
  BY <1>1
<1>5. m - 1 \in Nat /\ m - 1 \notin Bad /\ (m - 1) + 1 = m
  BY <1>3, <1>4
<1>6. PICK old : Doubles(old, m - 1)
  BY <1>5
<1> QED
  BY <1>2, <1>5, <1>6

LEMMA TotalDoubles == Doubles(Total, Width)
<1>1. PICK f : Doubles(f, Width)
  BY DoublesExists, WidthAssumption
<1>2. f = [n \in 0 .. Width |-> IF n = 0 THEN 1 ELSE 2 * f[n - 1]]
  <2>1. \A n \in 0 .. Width : f[n] = IF n = 0 THEN 1 ELSE 2 * f[n - 1]
    BY <1>1, WidthAssumption DEF Doubles
  <2>2. f = [n \in 0 .. Width |-> f[n]]
    BY <1>1 DEF Doubles
  <2> QED
    BY <2>1, <2>2
<1>3. Total = [n \in 0 .. Width |-> IF n = 0 THEN 1 ELSE 2 * Total[n - 1]]
  BY <1>2, Zenon DEF Total
<1>4. \A n \in 0 .. Width : Total[n] = IF n = 0 THEN 1 ELSE 2 * Total[n - 1]
  BY <1>3
<1> HIDE DEF Total
<1> DEFINE Bad == {n \in 0 .. Width : Total[n] \notin Nat \ {0}}
<1>5. Bad = {}
  <2> SUFFICES ASSUME Bad # {} PROVE FALSE
    OBVIOUS
  <2>1. PICK m \in Bad : \A k \in Bad : m <= k
    <3>1. Bad \in SUBSET Nat
      BY WidthAssumption
    <3> HIDE DEF Bad
    <3> QED
      BY <3>1, LeastExists
  <2>2. m # 0
    BY <1>4, WidthAssumption
  <2>3. m - 1 \in 0 .. Width /\ m - 1 \notin Bad
    BY <2>1, <2>2, WidthAssumption
  <2> QED
    BY <1>4, <2>2, <2>3
<1>6. Total \in [0 .. Width -> Nat \ {0}]
  BY <1>3, <1>5
<1> QED
  BY <1>4, <1>6, WidthAssumption DEF Doubles

\* How the sizes compare with 2, where a range has its own first and last address.
LEMMA TotalSize ==
  ASSUME NEW bits \in 0 .. Width
  PROVE  /\ Total[bits] \in Nat \ {0}
         /\ bits < 2 => Total[bits] <= 2
         /\ bits >= 2 => Total[bits] > 2
<1>0. bits \in Nat /\ Width \in Nat
  BY WidthAssumption
<1>1. Total[bits] \in Nat \ {0}
  BY TotalDoubles DEF Doubles
<1>2. bits = 0 => Total[bits] = 1
  BY TotalDoubles DEF Doubles
<1>3. ASSUME bits >= 1
      PROVE  /\ Total[bits] = 2 * Total[bits - 1] /\ Total[bits - 1] \in Nat \ {0}
             /\ bits - 1 = 0 => Total[bits - 1] = 1
  <2>1. bits \in 1 .. Width /\ bits - 1 \in 0 .. Width
    BY <1>0, <1>3
  <2> QED
    BY <2>1, TotalDoubles DEF Doubles
<1>4. ASSUME bits >= 2
      PROVE  Total[bits - 1] = 2 * Total[bits - 2] /\ Total[bits - 2] \in Nat \ {0}
  <2>1. bits - 1 \in 1 .. Width /\ bits - 2 \in 0 .. Width /\ (bits - 1) - 1 = bits - 2
    BY <1>0, <1>4
  <2> QED
    BY <2>1, TotalDoubles DEF Doubles
<1>5. CASE bits = 0
  BY <1>2, <1>5
<1>6. CASE bits = 1
  BY <1>3, <1>6
<1>7. CASE bits >= 2
  <2>1. Total[bits] = 2 * Total[bits - 1] /\ Total[bits - 1] = 2 * Total[bits - 2]
        /\ Total[bits - 2] \in Nat \ {0}
    BY <1>3, <1>4, <1>7
  <2> QED
    BY <2>1, <1>7, <1>0
<1> QED
  BY <1>0, <1>5, <1>6, <1>7

\* The sizes divide one another.
LEMMA TotalDivides ==
  ASSUME NEW bits \in 0 .. Width
  PROVE  \E c \in Nat : Total[Width] = Total[bits] * c
<1>0. bits \in Nat /\ Width \in Nat
  BY WidthAssumption
<1>1. Total[bits] \in Nat
  BY TotalDoubles DEF Doubles
<1> DEFINE Divides(m) == \E c \in Nat : Total[m] = Total[bits] * c
           Bad == {m \in bits .. Width : ~ Divides(m)}
<1>2. Bad = {}
  <2> SUFFICES ASSUME Bad # {} PROVE FALSE
    OBVIOUS
  <2>1. PICK m \in Bad : \A k \in Bad : m <= k
    <3>1. Bad \in SUBSET Nat
      BY <1>0
    <3> HIDE DEF Bad
    <3> QED
      BY <3>1, LeastExists
  <2>2. Divides(bits)
    <3>1. Total[bits] = Total[bits] * 1 /\ 1 \in Nat
      BY <1>1
    <3> QED
      BY <3>1
  <2>3. m \in Nat /\ m # bits
    BY <1>0, <2>2
  <2>4. m - 1 \in bits .. Width /\ m - 1 \notin Bad /\ m \in 1 .. Width
    BY <1>0, <2>1, <2>3
  <2>5. PICK c \in Nat : Total[m - 1] = Total[bits] * c
    BY <2>4
  <2>6. Total[m] = 2 * Total[m - 1]
    BY <2>4, TotalDoubles DEF Doubles
  <2>7. Total[m] = Total[bits] * (2 * c) /\ 2 * c \in Nat
    BY <1>1, <2>5, <2>6
  <2>8. Divides(m)
    BY <2>7
  <2> QED
    BY <2>8
<1>3. Width \in bits .. Width
  BY <1>0
<1> QED
  BY <1>2, <1>3

LEMMA Division ==
  ASSUME NEW a \in Nat, NEW n \in Nat \ {0}
  PROVE  a \div n \in Nat /\ a % n \in 0 .. n - 1 /\ a = n * (a \div n) + (a % n)
<1>1. a \div n \in Nat
  OBVIOUS
<1>2. a % n \in 0 .. n - 1
  OBVIOUS
<1>3. a = n * (a \div n) + (a % n)
  OBVIOUS
<1> QED
  BY <1>1, <1>2, <1>3

LEMMA Quotient ==
  ASSUME NEW a \in Nat, NEW n \in Nat \ {0}, NEW q \in Nat
  PROVE  a \div n = q <=> n * q <= a /\ a < n * q + n
<1>1. ASSUME n * q <= a, a < n * q + n PROVE a \div n = q
  BY <1>1
<1>2. ASSUME a \div n = q PROVE n * q <= a /\ a < n * q + n
  BY <1>2, Division
<1> QED
  BY <1>1, <1>2

\* The first address of a range, and that the range ends within the address space.
LEMMA MaskedAddress ==
  ASSUME NEW a \in Nat, NEW n \in Nat \ {0}
  PROVE  a - (a % n) = n * (a \div n) /\ n * (a \div n) \in Nat
<1>1. n * (a \div n) \in Nat /\ a % n \in Int
  BY Division
<1> QED
  BY <1>1, Division

LEMMA RangeFits ==
  ASSUME NEW n \in Nat \ {0}, NEW c \in Nat, NEW a \in Nat, a < n * c
  PROVE  n * (a \div n) + n <= n * c
<1> DEFINE q == a \div n
<1>1. q \in Nat /\ n * q <= a
  <2>1. n * (a \div n) \in Int
    BY Division
  <2> QED
    BY Division, <2>1
<1> HIDE DEF q
<1>2. q < c
  <2> SUFFICES ASSUME c <= q PROVE FALSE
    BY <1>1
  <2>1. n * c <= n * q
    BY <1>1
  <2> QED
    BY <1>1, <2>1
<1>3. q + 1 <= c
  BY <1>1, <1>2
<1>4. n * (q + 1) <= n * c
  BY <1>1, <1>3
<1>5. n * (q + 1) = n * q + n
  BY <1>1
<1> QED
  BY <1>4, <1>5 DEF q

-----------------------------------------------------------------------------
(* The list of a range.                                                    *)

Fewer(m, n) == IF m <= n THEN m ELSE n

\* How many of the first i addresses are usable, up to the cap.
Count(i, bits) ==
  Fewer(IF bits < 2 THEN i ELSE IF i = 0 THEN 0 ELSE IF i = Total[bits] THEN i - 2 ELSE i - 1,
        MaxHostsPerSubnet)

\* The list after i rounds: the usable addresses from the first on.
Listed(start, i, bits) ==
  [k \in 1 .. Count(i, bits) |-> start + (IF bits < 2 THEN 0 ELSE 1) + (k - 1)]

LEMMA CountSteps ==
  ASSUME NEW bits \in 0 .. Width, NEW i \in 1 .. Total[bits]
  PROVE  /\ Count(i - 1, bits) \in Nat
         /\ Count(i, bits) =
              IF Count(i - 1, bits) < MaxHostsPerSubnet /\ Usable(i - 1, bits)
              THEN Count(i - 1, bits) + 1 ELSE Count(i - 1, bits)
         /\ Count(i - 1, bits) < MaxHostsPerSubnet /\ Usable(i - 1, bits) =>
              (IF bits < 2 THEN 0 ELSE 1) + Count(i - 1, bits) = i - 1
<1>1. bits \in Nat /\ MaxHostsPerSubnet \in Nat /\ i \in Nat /\ Total[bits] \in Nat
  BY TotalSize, WidthAssumption
<1>2. CASE bits < 2
  BY <1>1, <1>2 DEF Count, Fewer, Usable
<1>3. CASE bits >= 2
  BY <1>1, <1>3, TotalSize DEF Count, Fewer, Usable
<1> QED
  BY <1>1, <1>2, <1>3

\* Each round of the loop adds the next usable address, until the cap.
LEMMA ListedSteps ==
  ASSUME NEW start \in Nat, NEW bits \in 0 .. Width, NEW i \in 1 .. Total[bits]
  PROVE  Listed(start, i, bits) =
           IF Len(Listed(start, i - 1, bits)) < MaxHostsPerSubnet /\ Usable(i - 1, bits)
           THEN Append(Listed(start, i - 1, bits), start + (i - 1))
           ELSE Listed(start, i - 1, bits)
<1> DEFINE skip == IF bits < 2 THEN 0 ELSE 1
           n == Count(i - 1, bits)
           before == Listed(start, i - 1, bits)
<1>1. skip \in Nat /\ n \in Nat /\ i \in Nat /\ Total[bits] \in Nat
  BY CountSteps, TotalSize
<1>2. before = [k \in 1 .. n |-> start + skip + (k - 1)]
  BY DEF Listed
<1>3. Len(before) = n /\ before \in Seq(Nat)
  <2> HIDE DEF before, n, skip
  <2> QED
    BY <1>1, <1>2
<1>4. CASE n < MaxHostsPerSubnet /\ Usable(i - 1, bits)
  <2>1. Count(i, bits) = n + 1 /\ start + skip + n = start + (i - 1)
    BY <1>1, <1>4, CountSteps
  <2>2. Listed(start, i, bits) = [k \in 1 .. n + 1 |-> start + skip + (k - 1)]
    BY <2>1 DEF Listed
  <2> HIDE DEF before, n, skip
  <2>3. Append(before, start + (i - 1)) = [k \in 1 .. n + 1 |-> start + skip + (k - 1)]
    <3> DEFINE longer == [k \in 1 .. n + 1 |-> start + skip + (k - 1)]
               more == Append(before, start + (i - 1))
    <3>1. more \in Seq(Nat) /\ Len(more) = n + 1
      BY <1>1, <1>3
    <3>2. longer \in Seq(Nat) /\ Len(longer) = n + 1
      BY <1>1
    <3>3. ASSUME NEW k \in 1 .. n + 1 PROVE more[k] = longer[k]
      <4>1. CASE k = n + 1
        BY <1>1, <1>3, <2>1, <4>1
      <4>2. CASE k # n + 1
        <5>1. k \in 1 .. n
          BY <1>1, <4>2
        <5>2. more[k] = before[k]
          BY <1>3, <5>1
        <5> QED
          BY <1>1, <1>2, <5>1, <5>2
      <4> QED
        BY <4>1, <4>2
    <3> HIDE DEF more, longer
    <3>4. more = longer
      BY <3>1, <3>2, <3>3
    <3> QED
      BY <3>4 DEF more, longer
  <2> QED
    BY <1>3, <1>4, <2>2, <2>3 DEF before, n
<1>5. CASE ~ (n < MaxHostsPerSubnet /\ Usable(i - 1, bits))
  <2>1. Count(i, bits) = n
    BY <1>5, CountSteps
  <2>2. Listed(start, i, bits) = before
    BY <2>1 DEF Listed
  <2> HIDE DEF n
  <2> QED
    BY <1>3, <1>5, <2>2
<1> QED
  BY <1>4, <1>5

\* What ExpandIPv4 returns, without the loop.
LEMMA ExpandsTo ==
  ASSUME NEW ip \in Nat, NEW bits \in 0 .. Width
  PROVE  ExpandIPv4(ip, bits) =
           Listed(Total[bits] * (ip \div Total[bits]), Total[bits], bits)
<1> DEFINE total == Total[bits]
           start == ip - (ip % total)
           round(i, f) == IF i = 0 THEN <<>>
                          ELSE IF Len(f[i - 1]) < MaxHostsPerSubnet /\ Usable(i - 1, bits)
                               THEN Append(f[i - 1], start + (i - 1)) ELSE f[i - 1]
           out == CHOOSE f : f = [i \in 0 .. total |-> round(i, f)]
           lists == [i \in 0 .. total |-> Listed(start, i, bits)]
<1>1. total \in Nat \ {0} /\ start \in Nat /\ start = total * (ip \div total)
  BY TotalSize, MaskedAddress
<1>2. Listed(start, 0, bits) = <<>>
  <2>1. Count(0, bits) = 0
    <3>1. MaxHostsPerSubnet \in Nat /\ bits \in Nat
      BY WidthAssumption
    <3> QED
      BY <3>1 DEF Count, Fewer
  <2>2. 1 .. 0 = {}
    OBVIOUS
  <2>3. Listed(start, 0, bits) = [k \in 1 .. 0 |-> start + (IF bits < 2 THEN 0 ELSE 1) + (k - 1)]
    BY <2>1 DEF Listed
  <2> QED
    BY <2>2, <2>3
<1>3. \A i \in 1 .. total :
        /\ i - 1 \in 0 .. total
        /\ Listed(start, i, bits) = IF Len(Listed(start, i - 1, bits)) < MaxHostsPerSubnet
                                       /\ Usable(i - 1, bits)
                                    THEN Append(Listed(start, i - 1, bits), start + (i - 1))
                                    ELSE Listed(start, i - 1, bits)
  <2> SUFFICES ASSUME NEW i \in 1 .. total
               PROVE  /\ i - 1 \in 0 .. total
                      /\ Listed(start, i, bits) =
                           IF Len(Listed(start, i - 1, bits)) < MaxHostsPerSubnet
                              /\ Usable(i - 1, bits)
                           THEN Append(Listed(start, i - 1, bits), start + (i - 1))
                           ELSE Listed(start, i - 1, bits)
    OBVIOUS
  <2>1. i - 1 \in 0 .. total
    BY <1>1
  <2> HIDE DEF start
  <2> QED
    BY <1>1, <2>1, ListedSteps
<1>4. ExpandIPv4(ip, bits) = out[total]
  BY DEF ExpandIPv4
<1> HIDE DEF start, total
<1>5. lists = [i \in 0 .. total |-> round(i, lists)]
  <2>1. ASSUME NEW i \in 0 .. total PROVE Listed(start, i, bits) = round(i, lists)
    <3>1. CASE i = 0
      BY <1>2, <3>1
    <3>2. CASE i # 0
      <4>1. i \in 1 .. total /\ lists[i - 1] = Listed(start, i - 1, bits)
        BY <1>1, <1>3, <3>2
      <4> HIDE DEF lists
      <4> QED
        BY <1>3, <3>2, <4>1
    <3> QED
      BY <3>1, <3>2
  <2> HIDE DEF round
  <2> QED
    BY <2>1
<1>6. out = [i \in 0 .. total |-> round(i, out)]
  <2> HIDE DEF round, lists
  <2> QED
    BY <1>5
<1> HIDE DEF out
<1> DEFINE Bad == {i \in 0 .. total : out[i] # Listed(start, i, bits)}
<1>7. Bad = {}
  <2> SUFFICES ASSUME Bad # {} PROVE FALSE
    OBVIOUS
  <2>1. PICK m \in Bad : \A i \in Bad : m <= i
    <3>1. Bad \in SUBSET Nat
      OBVIOUS
    <3> HIDE DEF Bad
    <3> QED
      BY <3>1, LeastExists
  <2>2. m \in 0 .. total /\ out[m] # Listed(start, m, bits) /\ out[m] = round(m, out)
    BY <1>6
  <2>3. m # 0
    BY <1>2, <2>2
  <2>4. m \in 1 .. total /\ m - 1 \in 0 .. total /\ m - 1 \notin Bad
    BY <1>1, <2>1, <2>2, <2>3
  <2>5. out[m - 1] = Listed(start, m - 1, bits)
    BY <2>4
  <2> QED
    BY <1>3, <2>2, <2>3, <2>4, <2>5
<1> QED
  BY <1>1, <1>4, <1>7 DEF total

\* ExpandIPv4 lists the usable addresses of the range up to the cap, for every
\* range of an address space of any width.
LEMMA EveryRangeHolds == EveryRange
<1> SUFFICES ASSUME NEW ip \in 0 .. Total[Width] - 1, NEW bits \in 0 .. Width
             PROVE  Expected(ExpandIPv4(ip, bits), ip, bits)
  BY DEF EveryRange
<1> DEFINE size == Total[bits]
           skip == IF bits < 2 THEN 0 ELSE 1
           first == size * (ip \div size)
           n == Count(size, bits)
           list == ExpandIPv4(ip, bits)
           block == {a \in 0 .. Total[Width] - 1 : a \div size = ip \div size}
           hosts == IF size <= 2 THEN block
                    ELSE {a \in block : a % size # 0 /\ a % size # (size - 1)}
           listed == {list[i] : i \in DOMAIN list}
           usable == Fewer(size, MaxHostsPerSubnet)
<1>1. /\ size \in Nat \ {0} /\ skip \in {0, 1} /\ MaxHostsPerSubnet \in Nat /\ bits \in Nat
      /\ skip = 0 <=> size <= 2
  BY TotalSize, WidthAssumption
<1>2. Total[Width] \in Nat
  BY TotalSize, WidthAssumption
<1>3. ip \in Nat /\ ip \div size \in Nat /\ first \in Nat
  <2>1. ip \in Nat
    BY <1>2
  <2> HIDE DEF size
  <2> QED
    BY <1>1, <2>1, Division, MaskedAddress
<1>4. first + size <= Total[Width]
  <2>1. PICK c \in Nat : Total[Width] = size * c
    BY TotalDivides
  <2>2. ip < size * c
    BY <1>2, <2>1
  <2> HIDE DEF size
  <2> QED
    BY <1>1, <1>3, <2>1, <2>2, RangeFits
<1>5. n \in Nat /\ n = Fewer(size - 2 * skip, MaxHostsPerSubnet) /\ size - 2 * skip \in Nat
  BY <1>1, TotalSize DEF Count, Fewer
<1>6. list = [k \in 1 .. n |-> first + skip + (k - 1)]
  BY <1>3, ExpandsTo DEF Listed
<1>7. block = first .. first + size - 1
  <2>1. ASSUME NEW a \in 0 .. Total[Width] - 1
        PROVE  a \in block <=> first <= a /\ a < first + size
    <3>1. a \in Nat
      BY <1>2
    <3>2. a \div size = ip \div size <=> first <= a /\ a < first + size
      <4> HIDE DEF size
      <4> QED
        BY <1>1, <1>3, <3>1, Quotient
    <3> QED
      BY <3>2
  <2> HIDE DEF block, first, size
  <2>2. block \subseteq 0 .. Total[Width] - 1
    BY DEF block
  <2>3. ASSUME NEW a \in first .. first + size - 1 PROVE a \in block
    <3>1. a \in 0 .. Total[Width] - 1 /\ first <= a /\ a < first + size
      BY <1>1, <1>2, <1>3, <1>4, <2>3
    <3> QED
      BY <2>1, <3>1
  <2>4. ASSUME NEW a \in block PROVE a \in first .. first + size - 1
    <3>1. a \in 0 .. Total[Width] - 1 /\ first <= a /\ a < first + size
      BY <2>1, <2>2
    <3> QED
      BY <1>1, <1>2, <1>3, <3>1
  <2> QED
    BY <2>3, <2>4
<1>8. hosts = first + skip .. first + size - 1 - skip
  <2>1. CASE size <= 2
    BY <1>1, <1>3, <1>7, <2>1
  <2>2. CASE size > 2
    <3>1. ASSUME NEW a \in block PROVE a % size = a - first
      <4>1. a \in Nat /\ a \div size = ip \div size
        BY <1>2
      <4>2. a = size * (ip \div size) + (a % size) /\ a % size \in Nat
        <5>1. a = size * (a \div size) + (a % size) /\ a % size \in 0 .. size - 1
          <6> HIDE DEF size
          <6> QED
            BY <1>1, <4>1, Division
        <5> HIDE DEF size
        <5> QED
          BY <1>1, <4>1, <5>1
      <4> HIDE DEF size
      <4> QED
        BY <1>3, <4>1, <4>2
    <3>2. hosts = {a \in block : a - first # 0 /\ a - first # size - 1}
      <4>1. hosts = {a \in block : a % size # 0 /\ a % size # (size - 1)}
        BY <1>1, <2>2
      <4> HIDE DEF hosts, block
      <4> QED
        BY <3>1, <4>1
    <3>3. skip = 1
      BY <1>1, <2>2
    <3> HIDE DEF hosts, first, size, skip, block
    <3> QED
      BY <1>1, <1>3, <1>7, <3>2, <3>3
  <2> QED
    BY <1>1, <2>1, <2>2
<1> HIDE DEF hosts, block, first, size, skip, n, list
<1>9. listed = first + skip .. first + skip + n - 1
  <2>1. DOMAIN list = 1 .. n /\ \A k \in 1 .. n : list[k] = first + skip + (k - 1)
    BY <1>6
  <2>2. ASSUME NEW a \in first + skip .. first + skip + n - 1 PROVE a \in listed
    <3>1. a - first - skip + 1 \in 1 .. n
          /\ first + skip + ((a - first - skip + 1) - 1) = a
      BY <1>1, <1>3, <1>5
    <3> QED
      BY <2>1, <3>1
  <2>3. ASSUME NEW a \in listed PROVE a \in first + skip .. first + skip + n - 1
    <3>1. PICK k \in 1 .. n : a = first + skip + (k - 1)
      BY <2>1
    <3> QED
      BY <1>1, <1>3, <1>5, <3>1
  <2> QED
    BY <2>2, <2>3
<1>10. Len(list) = n
  BY <1>5, <1>6
<1> HIDE DEF listed
<1>11. Cardinality(listed) = n /\ IsFiniteSet(listed)
  <2> DEFINE low == first + skip
             high == first + skip + n - 1
  <2>1. low \in Int /\ high \in Int /\ high - low + 1 = n /\ (low > high => n = 0)
    BY <1>1, <1>3, <1>5
  <2>2. listed = low .. high
    BY <1>9
  <2> HIDE DEF low, high
  <2>3. IsFiniteSet(low .. high)
        /\ Cardinality(low .. high) = IF low > high THEN 0 ELSE high - low + 1
    BY <2>1, FS_Interval
  <2> QED
    BY <2>1, <2>2, <2>3
<1>12. listed \subseteq hosts
  <2>1. n <= size - 2 * skip
    BY <1>1, <1>5 DEF Fewer
  <2> QED
    BY <1>1, <1>3, <1>5, <1>8, <1>9, <2>1
<1>13. n = MaxHostsPerSubnet \/ hosts = listed
  <2>1. n = MaxHostsPerSubnet \/ n = size - 2 * skip
    BY <1>5 DEF Fewer
  <2> QED
    BY <1>1, <1>3, <1>5, <1>8, <1>9, <2>1
<1>14. hosts = listed \/ n < Cardinality(hosts)
  <2>1. IsFiniteSet(hosts)
    <3>1. first + skip \in Int /\ first + size - 1 - skip \in Int
      BY <1>1, <1>3
    <3> QED
      BY <1>8, <3>1, FS_Interval
  <2>2. Cardinality(hosts) \in Nat /\ Cardinality(listed) <= Cardinality(hosts)
        /\ (Cardinality(listed) = Cardinality(hosts) => hosts = listed)
    BY <1>12, <2>1, FS_Subset, FS_CardinalityType
  <2> QED
    BY <1>5, <1>11, <2>2
<1> QED
  BY <1>10, <1>11, <1>12, <1>13, <1>14 DEF Expected, hosts, block, listed, list, size

\* The list of a range names every address once, and only addresses of the instance.
LEMMA ListOnce ==
  ASSUME NEW r \in Ranges
  PROVE  /\ Lists[r] \in Seq(Addresses)
         /\ \A i, j \in DOMAIN Lists[r] : Lists[r][i] = Lists[r][j] => i = j
<1>1. r[1] \in Nat /\ r[2] \in 0 .. Width
  BY RangeAssumption, WidthAssumption, TotalSize
<1> DEFINE n == Count(Total[r[2]], r[2])
           start == Total[r[2]] * (r[1] \div Total[r[2]]) + (IF r[2] < 2 THEN 0 ELSE 1)
<1>2. n \in Nat /\ start \in Nat
  <2>1. Total[r[2]] \in Nat \ {0} /\ r[2] \in Nat /\ (r[2] >= 2 => Total[r[2]] > 2)
    BY <1>1, TotalSize, WidthAssumption
  <2>2. Total[r[2]] * (r[1] \div Total[r[2]]) \in Nat
    BY <1>1, <2>1, MaskedAddress
  <2> QED
    BY <2>1, <2>2, WidthAssumption DEF Count, Fewer
<1>3. Lists[r] = [k \in 1 .. n |-> start + (k - 1)]
  BY <1>1, ExpandsTo DEF Lists, Listed
<1> HIDE DEF n, start
<1>4. DOMAIN Lists[r] = 1 .. n /\ \A i \in 1 .. n : Lists[r][i] = start + (i - 1)
  BY <1>3
<1>5. Lists[r] \in [1 .. n -> Addresses]
  BY <1>3, <1>4, AddressesAssumption
<1>6. Lists[r] \in Seq(Addresses)
  BY <1>2, <1>5
<1> QED
  BY <1>2, <1>4, <1>6

-----------------------------------------------------------------------------
(* Types.                                                                  *)

LEMMA NextNumber == ASSUME NEW n \in Nat PROVE (n + 1) % SeqSpace \in 0 .. SeqSpace - 1
  BY SeqSpaceAssumption

LEMMA InitType == Init => TypeOK
<1>1. 0 \in 0 .. SeqSpace - 1 /\ 0 \in 0 .. MaxOthers
  BY SeqSpaceAssumption, OthersAssumption
<1>2. ASSUME Init PROVE PingerTypeOK
  <2>1. listening \in BOOLEAN
    BY <1>2, Zenon DEF Init, PingerInit
  <2> QED
    BY <1>1, <1>2, <2>1 DEF Init, PingerInit, PingerTypeOK
<1>3. ASSUME Init PROVE TypeOK
  <2>1. /\ probe \in [Addresses -> [DiscoveryPorts -> Stages]]
        /\ caller \in [Addresses -> {"off", "running", "ended"}]
        /\ icmp \in [Addresses -> Stages]
        /\ found \in [Addresses -> BOOLEAN]
    BY <1>3 DEF Init, Stages
  <2>2. range \in Ranges /\ next = 1 /\ alive = {} /\ hits = {} /\ returned = FALSE
    BY <1>3 DEF Init
  <2>3. PingerTypeOK
    BY <1>2, <1>3
  <2>4. next \in Nat \ {0} /\ alive \subseteq Addresses /\ hits \subseteq Addresses
    BY <2>2
  <2> QED
    BY <2>1, <2>2, <2>3, <2>4, Zenon DEF TypeOK
<1> QED
  BY <1>3

LEMMA ProbeType ==
  ASSUME TypeOK, NEW a \in Addresses, NEW p \in DiscoveryPorts, NEW stage \in Stages
  PROVE  [probe EXCEPT ![a][p] = stage] \in [Addresses -> [DiscoveryPorts -> Stages]]
<1>1. [probe[a] EXCEPT ![p] = stage] \in [DiscoveryPorts -> Stages]
  BY DEF TypeOK
<1> QED
  BY <1>1 DEF TypeOK

LEMMA NextType == TypeOK /\ [Next]_vars => TypeOK'
<1> SUFFICES ASSUME TypeOK, [Next]_vars PROVE TypeOK'
  OBVIOUS
<1> USE DEF TypeOK, PingerTypeOK, Stages
<1>1. CASE StartHost
  <2>1. ips[next] \in Addresses
    BY <1>1, ListOnce DEF StartHost, ips
  <2>2. [p \in DiscoveryPorts |-> "running"] \in [DiscoveryPorts -> Stages]
    OBVIOUS
  <2>3. probe' \in [Addresses -> [DiscoveryPorts -> Stages]]
    BY <1>1, <2>1, <2>2, Zenon DEF StartHost
  <2>4. /\ caller' \in [Addresses -> {"off", "running", "ended"}]
        /\ icmp' \in [Addresses -> Stages]
        /\ at' \in [Addresses -> {"idle", "called", "registered", "waiting", "leaving",
                                "done"}]
    BY <1>1, <2>1 DEF StartHost
  <2> QED
    BY <1>1, <2>3, <2>4 DEF StartHost
<1>2. CASE Return
  BY <1>2 DEF Return, pinger
<1>3. ASSUME NEW a \in Addresses, Register(a), UNCHANGED sweep PROVE TypeOK'
  BY <1>3, NextNumber DEF Register, Holding, sweep
<1>4. ASSUME NEW a \in Addresses, Write(a), UNCHANGED sweep PROVE TypeOK'
  <2>1. sent' \subseteq Addresses \X (0 .. SeqSpace - 1)
    BY <1>4 DEF Write
  <2>2. at' \in [Addresses -> {"idle", "called", "registered", "waiting", "leaving",
                            "done"}]
    BY <1>4 DEF Write
  <2> QED
    BY <1>4, <2>1, <2>2 DEF Write, sweep
<1>5. ASSUME NEW a \in Addresses, Select(a), UNCHANGED sweep PROVE TypeOK'
  BY <1>5 DEF Select, sweep
<1>6. ASSUME NEW a \in Addresses, PingReturns(a) PROVE TypeOK'
  BY <1>6, SeqSpaceAssumption DEF PingReturns, Leave, Forget
<1>7. ASSUME NEW a \in Addresses, NEW p \in DiscoveryPorts, ProbeTCP(a, p) PROVE TypeOK'
  <2>1. probe' \in [Addresses -> [DiscoveryPorts -> Stages]]
    <3>1. PICK stage \in Stages : probe' = [probe EXCEPT ![a][p] = stage]
      BY <1>7 DEF ProbeTCP
    <3> QED
      BY <3>1, ProbeType
  <2> QED
    BY <1>7, <2>1 DEF ProbeTCP, pings
<1>8. ASSUME NEW a \in Addresses, Report(a) PROVE TypeOK'
  <2>1. found' \in [Addresses -> BOOLEAN]
    BY <1>8, Zenon DEF Report
  <2>2. probe' \in [Addresses -> [DiscoveryPorts -> Stages]]
    <3>1. CASE probe' = probe
      BY <3>1
    <3>2. CASE \E p \in DiscoveryPorts : probe' = [probe EXCEPT ![a][p] = "ended"]
      <4>1. PICK p \in DiscoveryPorts : probe' = [probe EXCEPT ![a][p] = "ended"]
        BY <3>2
      <4>2. "ended" \in Stages
        OBVIOUS
      <4> QED
        BY <4>1, <4>2, ProbeType
    <3> QED
      BY <1>8, <3>1, <3>2 DEF Report
  <2>3. icmp' \in [Addresses -> Stages]
    BY <1>8 DEF Report
  <2> QED
    BY <1>8, <2>1, <2>2, <2>3 DEF Report, pinger
<1>9. ASSUME NEW a \in Addresses, Judge(a) PROVE TypeOK'
  BY <1>9 DEF Judge, pinger
<1>10. ASSUME NEW ip \in Addresses, NEW n \in DOMAIN waiters, NEW ours \in BOOLEAN,
              Read(ip, n, ours), UNCHANGED sweep PROVE TypeOK'
  BY <1>10 DEF Read, pings, sweep
<1>11. ASSUME Deliver, UNCHANGED sweep PROVE TypeOK'
  <2>1. token' \in [Addresses -> BOOLEAN]
    BY <1>11, Zenon DEF Deliver
  <2> QED
    BY <1>11, <2>1 DEF Deliver, sweep
<1>12. ASSUME ReadFails, UNCHANGED sweep PROVE TypeOK'
  BY <1>12 DEF ReadFails, pings, sweep
<1>13. ASSUME OtherPing, UNCHANGED sweep PROVE TypeOK'
  BY <1>13, NextNumber, OthersAssumption DEF OtherPing, Holding, sweep
<1>14. CASE UNCHANGED vars
  BY <1>14 DEF vars
<1> QED
  BY <1>1, <1>2, <1>3, <1>4, <1>5, <1>6, <1>7, <1>8, <1>9, <1>10, <1>11, <1>12,
     <1>13, <1>14 DEF Next, Goroutine, PingStep, ReaderStep

\* Numbers, channels and stages keep their types (ICMPPinger, isAlive).
THEOREM TypeCorrect == Spec => []TypeOK
  BY InitType, NextType, PTL DEF Spec

-----------------------------------------------------------------------------
(* The goroutines of an address.                                           *)

\* isAlive runs only for an address of the list that was started.
StartedOnly ==
  \A a \in Addresses :
    caller[a] # "off" => \E i \in 1 .. next - 1 : i \in DOMAIN ips /\ ips[i] = a

\* Before isAlive starts nothing runs for its address, and the goroutine of the
\* ping runs exactly as long as the ping.
InStep ==
  \A a \in Addresses :
    /\ caller[a] = "off" =>
         /\ at[a] = "idle" /\ icmp[a] = "off" /\ a \notin alive
         /\ \A p \in DiscoveryPorts : probe[a][p] = "off"
    /\ icmp[a] = "running" <=>
         at[a] \in {"called", "registered", "waiting", "leaving"}

Order == TypeOK /\ StartedOnly /\ InStep

\* The address StartHost takes is one nothing runs for.
LEMMA StartsFresh ==
  ASSUME Order, StartHost
  PROVE  ips[next] \in Addresses /\ caller[ips[next]] = "off"
<1>1. ips[next] \in Addresses
  BY ListOnce DEF Order, TypeOK, StartHost, ips
<1>2. \A i \in DOMAIN ips : ips[i] = ips[next] => i = next
  BY ListOnce DEF Order, TypeOK, StartHost, ips
<1> QED
  BY <1>1, <1>2 DEF Order, StartedOnly, TypeOK

LEMMA InitOrder == Init => StartedOnly /\ InStep
  BY DEF Init, PingerInit, StartedOnly, InStep

LEMMA NextOrder == Order /\ [Next]_vars => StartedOnly' /\ InStep'
<1> SUFFICES ASSUME Order, [Next]_vars PROVE StartedOnly' /\ InStep'
  OBVIOUS
<1>1. TypeOK /\ StartedOnly /\ InStep
  BY DEF Order
<1> USE <1>1 DEF TypeOK, PingerTypeOK, Stages
<1>2. CASE StartHost
  <2> DEFINE b == ips[next]
  <2>1. b \in Addresses /\ caller[b] = "off" /\ next \in DOMAIN ips
    BY <1>2, StartsFresh DEF StartHost
  <2>2. StartedOnly'
    <3>1. ips' = ips /\ next' = next + 1 /\ caller' = [caller EXCEPT ![b] = "running"]
      BY <1>2 DEF StartHost, ips
    <3> HIDE DEF b
    <3> SUFFICES ASSUME NEW a \in Addresses, caller'[a] # "off"
                 PROVE  \E i \in 1 .. next' - 1 : i \in DOMAIN ips /\ ips[i] = a
      BY <3>1 DEF StartedOnly
    <3>2. CASE a = b
      BY <2>1, <3>1, <3>2 DEF b
    <3>3. CASE a # b
      <4>1. PICK i \in 1 .. next - 1 : i \in DOMAIN ips /\ ips[i] = a
        BY <3>1, <3>3, <2>1 DEF StartedOnly
      <4> QED
        BY <4>1, <3>1
    <3> QED
      BY <3>2, <3>3
  <2>3. InStep'
    <3>1. /\ caller' = [caller EXCEPT ![b] = "running"]
          /\ probe' = [probe EXCEPT ![b] = [p \in DiscoveryPorts |-> "running"]]
          /\ icmp' = [icmp EXCEPT ![b] = IF socket = "none" THEN "ended" ELSE "running"]
          /\ at' = [at EXCEPT ![b] = IF socket = "none" THEN "done" ELSE "called"]
          /\ alive' = alive
      BY <1>2 DEF StartHost
    <3> HIDE DEF b
    <3> QED
      BY <2>1, <3>1 DEF InStep
  <2> QED
    BY <2>2, <2>3
<1>3. CASE ~ StartHost
  <2>1. ips' = ips /\ next' = next
    BY <1>3 DEF Next, Goroutine, PingStep, ReaderStep, Return, PingReturns, ProbeTCP,
                Report, Judge, sweep, vars, ips
  <2>2. \A a \in Addresses : caller'[a] = "off" <=> caller[a] = "off"
    BY <1>3 DEF Next, Goroutine, PingStep, ReaderStep, Return, PingReturns, ProbeTCP,
                Report, Judge, sweep, vars
  <2>3. StartedOnly'
    BY <2>1, <2>2 DEF StartedOnly
  <2>4. InStep'
    <3>1. CASE Return \/ UNCHANGED vars
      BY <3>1 DEF Return, pinger, vars, InStep
    <3>2. ASSUME NEW a \in Addresses, PingStep(a), UNCHANGED sweep PROVE InStep'
      BY <3>2 DEF PingStep, Register, Write, Select, sweep, InStep
    <3>3. ASSUME NEW a \in Addresses, PingReturns(a) PROVE InStep'
      BY <3>3 DEF PingReturns, Leave, Forget, InStep
    <3>4. ASSUME NEW a \in Addresses, NEW p \in DiscoveryPorts, ProbeTCP(a, p)
          PROVE  InStep'
      <4>1. caller[a] # "off"
        BY <3>4 DEF ProbeTCP, InStep
      <4>2. PICK stage \in Stages : probe' = [probe EXCEPT ![a][p] = stage]
        BY <3>4 DEF ProbeTCP
      <4>3. \A b \in Addresses \ {a} : probe'[b] = probe[b]
        BY <4>2
      <4>4. icmp' = icmp /\ at' = at /\ caller' = caller /\ alive' = alive
        BY <3>4 DEF ProbeTCP, pings
      <4> SUFFICES ASSUME NEW b \in Addresses
                   PROVE  /\ caller[b] = "off" =>
                               /\ at[b] = "idle" /\ icmp[b] = "off" /\ b \notin alive
                               /\ \A q \in DiscoveryPorts : probe'[b][q] = "off"
                          /\ icmp[b] = "running" <=>
                               at[b] \in {"called", "registered", "waiting", "leaving"}
        BY <4>4 DEF InStep
      <4>5. CASE b = a
        BY <4>1, <4>5, Zenon DEF InStep
      <4>6. CASE b # a
        <5>1. probe'[b] = probe[b]
          BY <4>3, <4>6
        <5> QED
          BY <5>1 DEF InStep
      <4> QED
        BY <4>5, <4>6
    <3>5. ASSUME NEW a \in Addresses, Report(a) PROVE InStep'
      BY <3>5 DEF Report, pinger, InStep
    <3>6. ASSUME NEW a \in Addresses, Judge(a) PROVE InStep'
      <4>1. /\ caller[a] = "running" /\ caller' = [caller EXCEPT ![a] = "ended"]
            /\ \A b \in Addresses \ {a} : b \in alive' => b \in alive
        BY <3>6 DEF Judge
      <4>2. icmp' = icmp /\ at' = at /\ probe' = probe
        BY <3>6 DEF Judge, pinger
      <4> QED
        BY <4>1, <4>2 DEF InStep
    <3>7. ASSUME ReaderStep \/ OtherPing, UNCHANGED sweep PROVE InStep'
      BY <3>7 DEF ReaderStep, Read, Deliver, ReadFails, OtherPing, pings, sweep, InStep
    <3> QED
      BY <1>3, <3>1, <3>2, <3>3, <3>4, <3>5, <3>6, <3>7 DEF Next, Goroutine
  <2> QED
    BY <2>3, <2>4
<1> QED
  BY <1>2, <1>3

LEMMA OrderHolds == Spec => []Order
<1>1. Init => Order
  BY InitType, InitOrder DEF Order
<1>2. Order /\ [Next]_vars => Order'
  BY NextType, NextOrder DEF Order
<1> QED
  BY <1>1, <1>2, PTL DEF Spec

\* Every address before the next one was started: nothing in the list is skipped.
Probed ==
  /\ \A i \in 1 .. next - 1 : i \in DOMAIN ips
  /\ \A i \in DOMAIN ips : i < next => caller[ips[i]] # "off"

LEMMA InitProbed == Init => Probed
<1> SUFFICES ASSUME Init PROVE Probed
  OBVIOUS
<1>1. ips \in Seq(Addresses)
  BY ListOnce DEF Init, ips
<1> QED
  BY <1>1 DEF Init, Probed

LEMMA NextProbed == Order /\ Probed /\ [Next]_vars => Probed'
<1> SUFFICES ASSUME Order, Probed, [Next]_vars PROVE Probed'
  OBVIOUS
<1>1. /\ next \in Nat \ {0} /\ caller \in [Addresses -> {"off", "running", "ended"}]
      /\ ips \in Seq(Addresses)
  BY ListOnce DEF Order, TypeOK, ips
<1>2. CASE StartHost
  <2>1. /\ next \in DOMAIN ips /\ next' = next + 1 /\ ips' = ips
        /\ caller' = [caller EXCEPT ![ips[next]] = "running"]
    BY <1>2 DEF StartHost, ips
  <2>2. \A i \in 1 .. next' - 1 : i = next \/ i \in 1 .. next - 1
    BY <1>1, <2>1
  <2>3. \A i \in DOMAIN ips : i < next' => i = next \/ i < next
    BY <1>1, <2>1
  <2> QED
    BY <1>1, <2>1, <2>2, <2>3 DEF Probed
<1>3. ASSUME NEW a \in Addresses, Judge(a) PROVE Probed'
  <2>1. /\ next' = next /\ ips' = ips /\ caller[a] = "running"
        /\ caller' = [caller EXCEPT ![a] = "ended"]
    BY <1>3 DEF Judge, ips
  <2> QED
    BY <1>1, <2>1 DEF Probed
<1>4. CASE ~ StartHost /\ ~ \E a \in Addresses : Judge(a)
  <2>1. next' = next /\ caller' = caller /\ ips' = ips
    BY <1>4 DEF Next, Goroutine, PingReturns, ProbeTCP, Report, Return, sweep, vars, ips
  <2> QED
    BY <2>1 DEF Probed
<1> QED
  BY <1>2, <1>3, <1>4

\* For every width of the addresses, every cap and every range: what ExpandIPv4
\* lists is the usable part of the range, and the pool starts an address exactly
\* when its turn in the list has come (ExpandIPv4, scanSubnetTCP).
THEOREM RangeCoveredHolds == Spec => []RangeCovered
<1>1. Order /\ Probed => RangeCovered
  <2> SUFFICES ASSUME Order, Probed PROVE RangeCovered
    OBVIOUS
  <2>1. /\ StartedOnly /\ \A i \in 1 .. next - 1 : i \in DOMAIN ips /\ i < next
        /\ caller \in [Addresses -> {"off", "running", "ended"}]
    BY DEF Order, TypeOK, Probed
  <2>2. \A a \in Addresses :
          caller[a] = "off" <=> \A i \in 1 .. next - 1 : ips[i] # a
    BY <2>1 DEF Probed, StartedOnly
  <2> QED
    BY <2>2, EveryRangeHolds DEF RangeCovered
<1> QED
  BY <1>1, InitProbed, NextProbed, OrderHolds, PTL DEF Spec

-----------------------------------------------------------------------------
(* Sequence numbers.                                                       *)

\* Two pings with the same number are both known to share it.
SharersKnown ==
  \A a, b \in Addresses :
    InFlight(a) /\ InFlight(b) /\ number[a] = number[b] /\ a # b =>
      a \in shared /\ b \in shared

Numbers == WaitersExact /\ SharersKnown

LEMMA InitNumbers == Init => Numbers
  BY NobodyAssumption DEF Init, PingerInit, Numbers, WaitersExact, SharersKnown, InFlight

\* Steps that neither register a ping nor end one.
LEMMA SameNumbers ==
  ASSUME TypeOK, Numbers, number' = number, waiters' = waiters, shared' = shared,
         \A a \in Addresses : InFlight(a)' <=> InFlight(a)
  PROVE  Numbers'
<1>1. SharersKnown'
  BY DEF Numbers, SharersKnown
<1>2. WaitersExact'
  BY DEF Numbers, WaitersExact, TypeOK, PingerTypeOK
<1> QED
  BY <1>1, <1>2 DEF Numbers

LEMMA NextNumbers == Order /\ Numbers /\ [Next]_vars => Numbers'
<1> SUFFICES ASSUME Order, Numbers, [Next]_vars PROVE Numbers'
  OBVIOUS
<1>1. TypeOK /\ InStep
  BY DEF Order
<1> USE <1>1, NobodyAssumption DEF TypeOK, PingerTypeOK
<1>2. CASE StartHost
  <2> DEFINE b == ips[next]
  <2>1. b \in Addresses /\ at[b] = "idle"
    BY <1>2, StartsFresh DEF InStep
  <2>2. /\ at' = [at EXCEPT ![b] = IF socket = "none" THEN "done" ELSE "called"]
        /\ number' = number /\ waiters' = waiters /\ shared' = shared
    BY <1>2 DEF StartHost
  <2> HIDE DEF b
  <2>3. \A a \in Addresses : InFlight(a)' <=> InFlight(a)
    BY <2>1, <2>2 DEF InFlight
  <2> QED
    BY <2>2, <2>3, SameNumbers
<1>3. ASSUME NEW a \in Addresses, Register(a) PROVE Numbers'
  <2> DEFINE n == (seq + 1) % SeqSpace
  <2>1. /\ n \in 0 .. SeqSpace - 1 /\ ~ InFlight(a)
        /\ waiters' = [waiters EXCEPT ![n] = a] /\ number' = [number EXCEPT ![a] = n]
        /\ shared' = IF Holding(n) = {} THEN shared ELSE shared \cup Holding(n) \cup {a}
        /\ InFlight(a)' /\ \A b \in Addresses \ {a} : InFlight(b)' <=> InFlight(b)
    BY <1>3, NextNumber DEF Register, InFlight
  <2> HIDE DEF n
  <2>2. \A b \in Addresses \ {a} : InFlight(b) /\ number[b] = n => b \in shared' /\ a \in shared'
    BY <2>1 DEF Holding
  <2>3. SharersKnown'
    BY <2>1, <2>2 DEF Numbers, SharersKnown
  <2>4. WaitersExact'
    BY <2>1, <2>2 DEF Numbers, WaitersExact
  <2> QED
    BY <2>3, <2>4 DEF Numbers
<1>4. ASSUME NEW a \in Addresses, Write(a) \/ Select(a) PROVE Numbers'
  <2>1. /\ number' = number /\ waiters' = waiters /\ shared' = shared
        /\ \A b \in Addresses : InFlight(b)' <=> InFlight(b)
    BY <1>4 DEF Write, Select, InFlight
  <2> QED
    BY <2>1, SameNumbers
<1>5. ASSUME NEW a \in Addresses, PingReturns(a) PROVE Numbers'
  <2>1. /\ waiters' = [waiters EXCEPT ![number[a]] = Nobody]
        /\ number' = [number EXCEPT ![a] = 0] /\ shared' = shared \ {a}
        /\ InFlight(a) /\ ~ InFlight(a)'
        /\ \A b \in Addresses \ {a} : InFlight(b)' <=> InFlight(b)
    BY <1>5 DEF PingReturns, Leave, Forget, InFlight
  <2>2. SharersKnown'
    BY <2>1 DEF Numbers, SharersKnown
  <2>3. WaitersExact'
    BY <2>1 DEF Numbers, WaitersExact, SharersKnown
  <2> QED
    BY <2>2, <2>3 DEF Numbers
<1>6. CASE OtherPing
  <2> DEFINE n == (seq + 1) % SeqSpace
  <2>1. /\ n \in 0 .. SeqSpace - 1
        /\ waiters' = [waiters EXCEPT ![n] = Nobody] /\ number' = number
        /\ shared' = shared \cup Holding(n)
        /\ \A b \in Addresses : InFlight(b)' <=> InFlight(b)
    BY <1>6, NextNumber DEF OtherPing, InFlight
  <2> HIDE DEF n
  <2>2. SharersKnown'
    BY <2>1 DEF Numbers, SharersKnown
  <2>3. WaitersExact'
    <3>1. ASSUME NEW a \in Addresses, InFlight(a)', a \notin shared'
          PROVE  waiters'[number'[a]] = a
      BY <2>1, <3>1 DEF Numbers, WaitersExact, Holding
    <3>2. ASSUME NEW k \in DOMAIN waiters, waiters'[k] # Nobody
          PROVE  waiters'[k] \in Addresses /\ InFlight(waiters'[k]) /\ number[waiters'[k]] = k
      BY <2>1, <3>2 DEF Numbers, WaitersExact
    <3>3. DOMAIN waiters' = DOMAIN waiters
      BY <2>1
    <3> QED
      BY <2>1, <3>1, <3>2, <3>3 DEF WaitersExact
  <2> QED
    BY <2>2, <2>3 DEF Numbers
<1>7. CASE \/ Return \/ ReaderStep \/ UNCHANGED vars
           \/ \E a \in Addresses : \/ Report(a) \/ Judge(a)
                                   \/ \E p \in DiscoveryPorts : ProbeTCP(a, p)
  <2>1. /\ number' = number /\ waiters' = waiters /\ shared' = shared /\ at' = at
    BY <1>7 DEF Return, ReaderStep, Read, Deliver, ReadFails, Report, Judge, ProbeTCP,
                pinger, pings, vars
  <2> QED
    BY <2>1, SameNumbers DEF InFlight
<1> QED
  BY <1>2, <1>3, <1>4, <1>5, <1>6, <1>7 DEF Next, Goroutine, PingStep

\* For any number of sequence numbers and of pings at once, a ping in flight is
\* found by its reply unless its number came round, and none leaves an entry
\* behind (ICMPPinger.Ping and its deferred delete).
THEOREM WaitersExactHolds == Spec => []WaitersExact
<1>1. Order /\ Numbers /\ [Next]_vars => Numbers'
  BY NextNumbers
<1>2. Numbers => WaitersExact
  BY DEF Numbers
<1> QED
  BY <1>1, <1>2, InitNumbers, OrderHolds, PTL DEF Spec

-----------------------------------------------------------------------------
(* Verdicts.                                                               *)

\* A reply is on its way to a ping, or has counted for one, only if it came from
\* the address of that ping.
RepliesGenuine ==
  /\ reader # Nobody => reader \in heard
  /\ \A a \in Addresses : token[a] \/ ok[a] => a \in heard

\* Positive probes are hits, and hits have been heard of.
HitsGenuine ==
  /\ hits \subseteq heard
  /\ alive \subseteq hits
  /\ \A a \in Addresses :
       /\ found[a] => a \in hits
       /\ icmp[a] = "positive" => a \in hits
       /\ \A p \in DiscoveryPorts : probe[a][p] = "positive" => a \in hits

\* A hit reaches the verdict: until isAlive has judged, the value is in the
\* channel or a probe is about to put it there.
HitsCount ==
  \A a \in Addresses :
    /\ caller[a] = "off" => a \notin hits
    /\ caller[a] = "running" /\ a \in hits =>
         \/ found[a] \/ icmp[a] = "positive"
         \/ \E p \in DiscoveryPorts : probe[a][p] = "positive"
    /\ caller[a] = "ended" /\ a \notin alive => a \notin hits /\ Closed(a)

Verdicts == RepliesGenuine /\ HitsGenuine /\ HitsCount

LEMMA InitVerdicts == Init => Verdicts
  BY DEF Init, PingerInit, Verdicts, RepliesGenuine, HitsGenuine, HitsCount

LEMMA NextReplies == Order /\ RepliesGenuine /\ [Next]_vars => RepliesGenuine'
<1> SUFFICES ASSUME Order, RepliesGenuine, [Next]_vars PROVE RepliesGenuine'
  OBVIOUS
<1> USE DEF RepliesGenuine
<1>1. TypeOK
  BY DEF Order
<1> USE <1>1 DEF TypeOK, PingerTypeOK
<1>2. ASSUME NEW a \in Addresses, Select(a) PROVE RepliesGenuine'
  BY <1>2 DEF Select
<1>3. ASSUME NEW a \in Addresses, PingReturns(a) PROVE RepliesGenuine'
  BY <1>3 DEF PingReturns, Leave, Forget
<1>4. ASSUME NEW ip \in Addresses, NEW n \in DOMAIN waiters, NEW ours \in BOOLEAN,
             Read(ip, n, ours)
      PROVE  RepliesGenuine'
  <2>1. reader' # Nobody => reader' = ip /\ ours
    BY <1>4 DEF Read, Accepted, Delivered
  <2> QED
    BY <1>4, <2>1 DEF Read, pings
<1>5. CASE Deliver
  <2>1. reader \in heard /\ reader \in Addresses
    BY <1>5 DEF Deliver
  <2> QED
    BY <1>5, <2>1 DEF Deliver
<1>6. ASSUME NEW a \in Addresses, NEW p \in DiscoveryPorts, ProbeTCP(a, p)
      PROVE  RepliesGenuine'
  BY <1>6 DEF ProbeTCP, pings
<1>7. CASE \/ StartHost \/ Return \/ ReadFails \/ OtherPing \/ UNCHANGED vars
           \/ \E a \in Addresses : Register(a) \/ Write(a) \/ Report(a) \/ Judge(a)
  <2>1. reader' = reader /\ heard' = heard /\ token' = token /\ ok' = ok
    BY <1>7 DEF StartHost, Return, ReadFails, OtherPing, Register, Write, Report, Judge,
                pings, pinger, vars
  <2> QED
    BY <2>1
<1> QED
  BY <1>2, <1>3, <1>4, <1>5, <1>6, <1>7 DEF Next, Goroutine, PingStep, ReaderStep

\* Every other step leaves verdicts alone.
LEMMA SameHits ==
  ASSUME HitsGenuine, HitsCount, heard \subseteq heard', hits' = hits, alive' = alive,
         found' = found, icmp' = icmp, probe' = probe, caller' = caller
  PROVE  HitsGenuine' /\ HitsCount'
  BY DEF HitsGenuine, HitsCount, Closed

LEMMA NextHits == Order /\ Verdicts /\ [Next]_vars => HitsGenuine' /\ HitsCount'
<1> SUFFICES ASSUME Order, Verdicts, [Next]_vars PROVE HitsGenuine' /\ HitsCount'
  OBVIOUS
<1>1. TypeOK /\ InStep /\ RepliesGenuine /\ HitsGenuine /\ HitsCount
  BY DEF Order, Verdicts
<1> USE <1>1 DEF TypeOK, PingerTypeOK, Stages
<1>2. CASE StartHost
  <2> DEFINE b == ips[next]
  <2>1. b \in Addresses /\ caller[b] = "off"
    BY <1>2, StartsFresh
  <2>2. /\ caller' = [caller EXCEPT ![b] = "running"]
        /\ probe' = [probe EXCEPT ![b] = [p \in DiscoveryPorts |-> "running"]]
        /\ icmp' = [icmp EXCEPT ![b] = IF socket = "none" THEN "ended" ELSE "running"]
        /\ heard' = heard /\ found' = found /\ alive' = alive /\ hits' = hits
    BY <1>2 DEF StartHost
  <2> HIDE DEF b
  <2>3. HitsGenuine'
    BY <2>1, <2>2 DEF HitsGenuine
  <2>4. HitsCount'
    BY <2>1, <2>2 DEF HitsCount, Closed
  <2> QED
    BY <2>3, <2>4
<1>3. ASSUME NEW a \in Addresses, PingReturns(a) PROVE HitsGenuine' /\ HitsCount'
  <2>1. /\ at[a] = "leaving" /\ icmp[a] = "running" /\ caller[a] # "off"
        /\ ok[a] => a \in heard
    BY <1>3 DEF PingReturns, Leave, InStep, RepliesGenuine
  <2>2. caller[a] = "ended" => a \in alive
    BY <2>1 DEF HitsCount, Closed
  <2>3. /\ icmp' = [icmp EXCEPT ![a] = IF ok[a] THEN "positive" ELSE "ended"]
        /\ hits' = IF ok[a] THEN hits \cup {a} ELSE hits
        /\ caller' = caller /\ probe' = probe /\ found' = found /\ alive' = alive
        /\ heard' = heard
    BY <1>3 DEF PingReturns, Leave, Forget
  <2>4. HitsGenuine'
    BY <2>1, <2>3 DEF HitsGenuine
  <2>5. HitsCount'
    BY <2>1, <2>2, <2>3 DEF HitsCount, Closed
  <2> QED
    BY <2>4, <2>5
<1>4. ASSUME NEW a \in Addresses, NEW p \in DiscoveryPorts, ProbeTCP(a, p)
      PROVE  HitsGenuine' /\ HitsCount'
  <2>1. probe[a][p] = "running" /\ caller[a] # "off"
    BY <1>4 DEF ProbeTCP, InStep
  <2>2. caller[a] = "ended" => a \in alive
    BY <2>1 DEF HitsCount, Closed
  <2>3. /\ icmp' = icmp /\ caller' = caller /\ found' = found /\ alive' = alive
        /\ \/ /\ probe' = [probe EXCEPT ![a][p] = "positive"]
              /\ heard' = heard \cup {a} /\ hits' = hits \cup {a}
           \/ /\ probe' = [probe EXCEPT ![a][p] = "ended"]
              /\ heard' = heard /\ hits' = hits
    BY <1>4 DEF ProbeTCP
  <2>4. \A b \in Addresses, q \in DiscoveryPorts :
          b # a \/ q # p => probe'[b][q] = probe[b][q]
    BY <2>3
  <2>5. CASE probe'[a][p] = "positive" /\ heard' = heard \cup {a} /\ hits' = hits \cup {a}
    <3>1. HitsGenuine'
      BY <2>3, <2>4, <2>5 DEF HitsGenuine
    <3>2. HitsCount'
      BY <2>1, <2>2, <2>3, <2>4, <2>5 DEF HitsCount, Closed
    <3> QED
      BY <3>1, <3>2
  <2>6. CASE probe'[a][p] = "ended" /\ heard' = heard /\ hits' = hits
    <3>1. HitsGenuine'
      BY <2>3, <2>4, <2>6 DEF HitsGenuine
    <3>2. HitsCount'
      <4>1. ASSUME caller[a] = "running", a \in hits, ~ found[a], icmp[a] # "positive"
            PROVE  \E q \in DiscoveryPorts : probe'[a][q] = "positive"
        <5>1. PICK q \in DiscoveryPorts : probe[a][q] = "positive"
          BY <4>1 DEF HitsCount
        <5> QED
          BY <5>1, <2>1, <2>4
      <4>2. \A b \in Addresses \ {a} : \A q \in DiscoveryPorts : probe'[b][q] = probe[b][q]
        BY <2>4
      <4>3. \A b \in Addresses \ {a} : Closed(b)' <=> Closed(b)
        BY <4>2, <2>3 DEF Closed
      <4> SUFFICES ASSUME NEW b \in Addresses
                   PROVE  /\ caller[b] = "off" => b \notin hits
                          /\ caller[b] = "running" /\ b \in hits =>
                               \/ found[b] \/ icmp[b] = "positive"
                               \/ \E q \in DiscoveryPorts : probe'[b][q] = "positive"
                          /\ caller[b] = "ended" /\ b \notin alive =>
                               b \notin hits /\ Closed(b)'
        BY <2>3, <2>6 DEF HitsCount
      <4>4. CASE b = a
        BY <2>1, <2>2, <4>1, <4>4
      <4>5. CASE b # a
        BY <4>2, <4>3, <4>5 DEF HitsCount
      <4> QED
        BY <4>4, <4>5
    <3> QED
      BY <3>1, <3>2
  <2> QED
    BY <2>3, <2>5, <2>6
<1>5. ASSUME NEW a \in Addresses, Report(a) PROVE HitsGenuine' /\ HitsCount'
  <2>1. a \in hits
    BY <1>5 DEF Report, HitsGenuine
  <2>2. caller[a] # "off" /\ (caller[a] = "ended" => a \in alive)
    BY <2>1 DEF HitsCount
  <2>3. /\ found' = [found EXCEPT ![a] = caller[a] # "ended"]
        /\ caller' = caller /\ alive' = alive /\ hits' = hits /\ heard' = heard
        /\ \/ icmp' = [icmp EXCEPT ![a] = "ended"] /\ probe' = probe
           \/ /\ icmp' = icmp
              /\ \E p \in DiscoveryPorts : probe' = [probe EXCEPT ![a][p] = "ended"]
    BY <1>5 DEF Report, pinger
  <2>4. HitsGenuine'
    BY <2>1, <2>3 DEF HitsGenuine
  <2>5. /\ \A b \in Addresses \ {a} :
             probe'[b] = probe[b] /\ icmp'[b] = icmp[b] /\ found'[b] = found[b]
        /\ caller[a] = "running" => found'[a]
    BY <2>3
  <2>6. HitsCount'
    BY <2>1, <2>2, <2>3, <2>5 DEF HitsCount, Closed
  <2> QED
    BY <2>4, <2>6
<1>6. ASSUME NEW a \in Addresses, Judge(a) PROVE HitsGenuine' /\ HitsCount'
  <2>1. /\ caller[a] = "running" /\ caller' = [caller EXCEPT ![a] = "ended"]
        /\ found' = [found EXCEPT ![a] = FALSE]
        /\ \/ found[a] /\ alive' = alive \cup {a}
           \/ Closed(a) /\ ~ found[a] /\ alive' = alive
        /\ icmp' = icmp /\ probe' = probe /\ hits' = hits /\ heard' = heard
    BY <1>6 DEF Judge, Verdict, pinger
  <2>2. HitsGenuine'
    BY <2>1 DEF HitsGenuine
  <2>3. Closed(a) /\ ~ found[a] => a \notin hits
    BY <2>1 DEF HitsCount, Closed
  <2>4. HitsCount'
    BY <2>1, <2>3 DEF HitsCount, Closed
  <2> QED
    BY <2>2, <2>4
<1>7. CASE \/ Return \/ UNCHANGED vars
           \/ UNCHANGED sweep
              /\ \/ ReaderStep \/ OtherPing \/ \E a \in Addresses : PingStep(a)
  <2>1. heard \subseteq heard' /\ UNCHANGED <<hits, alive, found, icmp, probe, caller>>
    BY <1>7 DEF Return, ReaderStep, Read, Deliver, ReadFails, OtherPing, PingStep,
                Register, Write, Select, sweep, pinger, vars
  <2> QED
    BY <2>1, SameHits
<1> QED
  BY <1>2, <1>3, <1>4, <1>5, <1>6, <1>7 DEF Next, Goroutine

LEMMA VerdictsHold == Spec => []Verdicts
<1>1. Order /\ Verdicts /\ [Next]_vars => Verdicts'
  BY NextReplies, NextHits DEF Verdicts
<1> QED
  BY <1>1, InitVerdicts, OrderHolds, PTL DEF Spec

\* For any number of pings, ports and slots, nothing is taken for alive that has
\* not answered this program (readLoop's match by number and source).
THEOREM AliveWasHeardHolds == Spec => []AliveWasHeard
<1>1. Verdicts => AliveWasHeard
  BY DEF Verdicts, RepliesGenuine, HitsGenuine, AliveWasHeard
<1> QED
  BY <1>1, VerdictsHold, PTL

\* And nothing is taken for silent that has (isAlive's found and done).
THEOREM SilentIsSilentHolds == Spec => []SilentIsSilent
<1>1. Verdicts => SilentIsSilent
  BY DEF Verdicts, HitsCount, SilentIsSilent
<1> QED
  BY <1>1, VerdictsHold, PTL

-----------------------------------------------------------------------------
(* The census.                                                             *)

LEMMA InitCensus == Init => Result!Init
  BY ListOnce DEF Init, PingerInit, Result!Init, Sought, ips

LEMMA NextCensus ==
  Order /\ Verdicts /\ [Next]_vars => [Result!Next]_(Result!census)
<1> SUFFICES ASSUME Order, Verdicts, [Next]_vars PROVE [Result!Next]_(Result!census)
  OBVIOUS
<1>1. TypeOK /\ StartedOnly /\ HitsGenuine
  BY DEF Order, Verdicts
<1> USE <1>1 DEF TypeOK, PingerTypeOK
<1>2. CASE StartHost
  <2>1. ips[next] \in Addresses /\ caller[ips[next]] = "off"
    BY <1>2, StartsFresh
  <2>2. Sought' = Sought /\ alive' = alive /\ heard' = heard
    BY <1>2, <2>1 DEF StartHost, Sought, ips
  <2> QED
    BY <2>2 DEF Result!census
<1>3. ASSUME NEW a \in Addresses, Judge(a) PROVE Result!Next
  <2>1. /\ caller[a] = "running" /\ caller' = [caller EXCEPT ![a] = "ended"]
        /\ alive' = alive \/ (a \in heard /\ alive' = alive \cup {a})
        /\ heard' = heard /\ ips' = ips
    BY <1>3 DEF Judge, Verdict, pinger, HitsGenuine, ips
  <2>2. a \in Sought
    <3>1. PICK i \in DOMAIN ips : ips[i] = a
      BY <2>1 DEF StartedOnly
    <3> QED
      BY <2>1, <3>1 DEF Sought
  <2>3. Sought' = Sought \ {a}
    BY <2>1 DEF Sought
  <2> QED
    BY <2>1, <2>2, <2>3 DEF Result!Next, Result!Judge
<1>4. CASE ~ StartHost /\ ~ \E a \in Addresses : Judge(a)
  <2>1. /\ caller' = caller /\ alive' = alive /\ ips' = ips
        /\ heard' = heard \/ \E a \in Addresses : heard' = heard \cup {a}
    BY <1>4 DEF Next, Goroutine, PingStep, Register, Write, Select, PingReturns, Leave,
                Forget, ProbeTCP, Report, Return, ReaderStep, Read, Deliver, ReadFails,
                OtherPing, sweep, pinger, pings, vars, ips
  <2>2. Sought' = Sought
    BY <2>1 DEF Sought
  <2> QED
    BY <2>1, <2>2 DEF Result!Next, Result!Hear, Result!census
<1> QED
  BY <1>2, <1>3, <1>4

\* Every step of a sweep is a step of a census or leaves its variables alone;
\* that it is fair as well is left to the runs.
THEOREM SweepIsCensusStepwise == Spec => Result!Init /\ [][Result!Next]_(Result!census)
<1>1. Order /\ Verdicts /\ [Next]_vars => [Result!Next]_(Result!census)
  BY NextCensus
<1> QED
  BY <1>1, InitCensus, OrderHolds, VerdictsHold, PTL DEF Spec

=============================================================================
