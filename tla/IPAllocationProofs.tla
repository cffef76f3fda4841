------------------------- MODULE IPAllocationProofs -------------------------
(***************************************************************************)
(* Proofs about the address allocator, for CIDRs of every size and every   *)
(* set of used addresses: sortIPs sorts, getNextAvailableIP returns the    *)
(* least free address, and the allocator implements IPPool.                *)
(***************************************************************************)
EXTENDS IPAllocation, FiniteSetTheorems, FunctionTheorems, SequenceTheorems,
        TLAPS

-----------------------------------------------------------------------------
(* CIDRs                                                                   *)

\* The network and the broadcast address enclose the written address, so a
\* CIDR has exactly c.size addresses and the excluded ones are among them.
LEMMA CIDRBounds ==
  ASSUME NEW c, IsCIDR(c)
  PROVE  /\ Network(c) \in Nat
         /\ Broadcast(c) \in Nat
         /\ Broadcast(c) = Network(c) + c.size - 1
         /\ Base(c) \in Addresses(c)
         /\ Broadcast(c) \in Addresses(c)
         /\ Addresses(c) \subseteq Nat
  BY DEF IsCIDR, Network, Broadcast, Addresses, Base

\* A CIDR is a finite set of c.size addresses.
LEMMA CIDRSize ==
  ASSUME NEW c, IsCIDR(c)
  PROVE  IsFiniteSet(Addresses(c)) /\ Cardinality(Addresses(c)) = c.size
<1>1. Network(c) \in Int /\ Broadcast(c) \in Int /\ c.size \in Nat /\ c.size > 0
  BY CIDRBounds DEF IsCIDR
<1>2. Broadcast(c) - Network(c) + 1 = c.size /\ ~(Network(c) > Broadcast(c))
  BY <1>1, CIDRBounds
<1> QED
  BY <1>1, <1>2, FS_Interval DEF Addresses

-----------------------------------------------------------------------------
(* sortIPs                                                                 *)

\* Of two elements of a finite set of numbers the greater has the greater
\* rank, and ranks are smaller than the size of the set.
LEMMA RankOrder ==
  ASSUME NEW S \in SUBSET Nat, IsFiniteSet(S)
  PROVE  /\ \A a \in S : Rank(S, a) \in 0..(Cardinality(S) - 1)
         /\ \A a, b \in S : a < b => Rank(S, a) < Rank(S, b)
<1> DEFINE Below(a) == {b \in S : b < a}
<1>1. ASSUME NEW a \in S
      PROVE  /\ IsFiniteSet(Below(a))
             /\ Cardinality(Below(a)) \in Nat
             /\ Cardinality(Below(a)) < Cardinality(S)
  <2>1. Below(a) \in SUBSET S /\ Below(a) # S
    <3>1. a \notin Below(a)
      OBVIOUS
    <3> QED
      BY <3>1
  <2>2. Cardinality(S) \in Nat
    BY FS_CardinalityType
  <2>3. /\ IsFiniteSet(Below(a)) 
        /\ Cardinality(Below(a)) <= Cardinality(S)
        /\ Cardinality(S) = Cardinality(Below(a)) => S = Below(a)
    BY <2>1, FS_Subset
  <2>4. Cardinality(Below(a)) \in Nat
    BY <2>3, FS_CardinalityType
  <2> QED
    BY <2>1, <2>2, <2>3, <2>4
<1>2. ASSUME NEW a \in S, NEW b \in S, a < b
      PROVE  Cardinality(Below(a)) < Cardinality(Below(b))
  <2>1. Below(a) \in SUBSET Below(b)
    <3> SUFFICES ASSUME NEW x \in S, x < a PROVE x < b
      OBVIOUS
    <3>1. x \in Nat /\ a \in Nat /\ b \in Nat
      OBVIOUS
    <3> QED
      BY <1>2, <3>1
  <2>2. a \in Below(b) /\ a \notin Below(a)
    BY <1>2
  <2>3. /\ Cardinality(Below(a)) <= Cardinality(Below(b))
        /\ Cardinality(Below(b)) = Cardinality(Below(a)) => Below(b) = Below(a)
    BY <1>1, <2>1, FS_Subset
  <2>4. Cardinality(Below(a)) # Cardinality(Below(b))
    BY <2>2, <2>3
  <2> QED
    BY <1>1, <2>3, <2>4
<1>3. Cardinality(S) \in Nat
  BY FS_CardinalityType
<1> QED
  BY <1>1, <1>2, <1>3 DEF Rank

\* sortIPs returns the elements of its argument, in increasing order.
LEMMA SortIPsSorts ==
  ASSUME NEW S \in SUBSET Nat, IsFiniteSet(S)
  PROVE  /\ SortIPs(S) \in Seq(S)
         /\ StrictlyIncreasing(SortIPs(S))
         /\ Range(SortIPs(S)) = S
<1> DEFINE n == Cardinality(S)
           rank == [a \in S |-> Rank(S, a)]
           s == SortIPs(S)
<1>1. n \in Nat
  BY FS_CardinalityType
<1>2. rank \in Injection(S, 0..(n - 1))
  <2>1. rank \in [S -> 0..(n - 1)]
    BY RankOrder
  <2>2. \A a, b \in S : rank[a] = rank[b] => a = b
    <3> SUFFICES ASSUME NEW a \in S, NEW b \in S, a # b
                 PROVE  Rank(S, a) # Rank(S, b)
      OBVIOUS
    <3>1. a < b \/ b < a
      OBVIOUS
    <3>2. Rank(S, a) \in Int /\ Rank(S, b) \in Int
      BY RankOrder, <1>1
    <3> QED
      BY <3>1, <3>2, RankOrder
  <2> QED
    BY <2>1, <2>2, Fun_IsInj
<1>3. rank \in Surjection(S, 0..(n - 1))
  <2>1. IsFiniteSet(0..(n - 1)) /\ Cardinality(0..(n - 1)) = n
    <3>1. 0 \in Int /\ n - 1 \in Int
      BY <1>1
    <3>2. /\ IsFiniteSet(0..(n - 1))
          /\ Cardinality(0..(n - 1)) = IF 0 > n - 1 THEN 0 ELSE (n - 1) - 0 + 1
      BY <3>1, FS_Interval
    <3>3. (IF 0 > n - 1 THEN 0 ELSE (n - 1) - 0 + 1) = n
      BY <1>1
    <3> QED
      BY <3>2, <3>3
  <2> QED
    BY <1>2, <1>1, <2>1, FS_Injection
<1>4. \A i \in 1..n : \E a \in S : Rank(S, a) = i - 1
  <2> TAKE i \in 1..n
  <2>1. i - 1 \in 0..(n - 1)
    BY <1>1
  <2> QED
    BY <1>3, <2>1 DEF Surjection
<1>5. \A i \in 1..n : s[i] \in S /\ Rank(S, s[i]) = i - 1
  BY <1>4 DEF SortIPs
<1>6. DOMAIN s = 1..n /\ s \in Seq(S) /\ Len(s) = n
  <2>1. s \in [1..n -> S]
    BY <1>5 DEF SortIPs
  <2> QED
    BY <1>1, <2>1
<1>7. StrictlyIncreasing(s)
  <2> SUFFICES ASSUME NEW i \in 1..n, NEW j \in 1..n, i < j
               PROVE  s[i] < s[j]
    BY <1>6 DEF StrictlyIncreasing
  <2>1. s[i] \in S /\ s[j] \in S /\ Rank(S, s[i]) < Rank(S, s[j])
    BY <1>1, <1>5
  <2>2. ~(s[j] < s[i]) /\ s[i] # s[j]
    <3>1. Rank(S, s[i]) \in Int /\ Rank(S, s[j]) \in Int
      BY <1>1, <1>5
    <3>2. s[j] < s[i] => Rank(S, s[j]) < Rank(S, s[i])
      BY <2>1, RankOrder
    <3> QED
      BY <2>1, <3>1, <3>2
  <2>3. s[i] \in Nat /\ s[j] \in Nat
    BY <2>1
  <2> QED
    BY <2>2, <2>3
<1>8. Range(s) = S
  <2>1. Range(s) \subseteq S
    BY <1>5, <1>6 DEF Range
  <2>2. ASSUME NEW a \in S PROVE a \in Range(s)
    <3> DEFINE i == Rank(S, a) + 1
    <3>1. i \in 1..n /\ Rank(S, a) = i - 1
      BY <1>1, RankOrder
    <3>2. s[i] \in S /\ Rank(S, s[i]) = Rank(S, a)
      BY <1>5, <3>1
    <3>3. s[i] = a
      BY <1>2, <3>2 DEF Injection, IsInjective
    <3> QED
      BY <1>6, <3>1, <3>3 DEF Range
  <2> QED
    BY <2>1, <2>2
<1> QED
  BY <1>6, <1>7, <1>8

-----------------------------------------------------------------------------
(* getNextAvailableIP                                                      *)

\* Insertion at position i shifts the rest of the slice by one.
LEMMA InsertProperties ==
  ASSUME NEW A, NEW s \in Seq(A), NEW i \in 1..Len(s), NEW ip \in A
  PROVE  /\ Insert(s, i, ip) \in Seq(A)
         /\ Len(Insert(s, i, ip)) = Len(s) + 1
         /\ \A j \in 1..(Len(s) + 1) :
              Insert(s, i, ip)[j] = IF j < i THEN s[j]
                                    ELSE IF j = i THEN ip ELSE s[j - 1]
         /\ Range(Insert(s, i, ip)) = Range(s) \cup {ip}
<1> DEFINE front == SubSeq(s, 1, i - 1)
           back  == SubSeq(s, i, Len(s))
           t     == Insert(s, i, ip)
<1>1. /\ front \in Seq(A) /\ Len(front) = i - 1
      /\ \A j \in 1..(i - 1) : front[j] = s[j]
  OBVIOUS
<1>2. /\ back \in Seq(A) /\ Len(back) = Len(s) - i + 1
      /\ \A j \in 1..(Len(s) - i + 1) : back[j] = s[i + j - 1]
  OBVIOUS
<1>3. t = (front \o <<ip>>) \o back
  BY DEF Insert, InsertAt
<1> DEFINE left == front \o <<ip>>
<1> HIDE DEF front, back, t
<1>4. /\ left \in Seq(A) /\ Len(left) = i
      /\ \A j \in 1..i : left[j] = IF j < i THEN s[j] ELSE ip
  <2>1. <<ip>> \in Seq(A) /\ Len(<<ip>>) = 1 /\ <<ip>>[1] = ip
    OBVIOUS
  <2> QED
    BY <1>1, <2>1, ConcatProperties
<1> HIDE DEF left
<1>5. t \in Seq(A) /\ Len(t) = Len(s) + 1
  <2>1. left \o back \in Seq(A) /\ Len(left \o back) = Len(left) + Len(back)
    BY <1>2, <1>4, ConcatProperties
  <2> QED
    BY <1>2, <1>3, <1>4, <2>1 DEF left
<1>6. \A j \in 1..(Len(s) + 1) :
         t[j] = IF j < i THEN s[j] ELSE IF j = i THEN ip ELSE s[j - 1]
  <2> TAKE j \in 1..(Len(s) + 1)
  <2>1. CASE j <= i
    BY <1>2, <1>3, <1>4, <2>1 DEF left
  <2>2. CASE j > i
    <3>1. j - i \in 1..(Len(s) - i + 1)
      BY <2>2
    <3>2. t[j] = back[j - i]
      BY <1>2, <1>3, <1>4, <2>2 DEF left
    <3>3. back[j - i] = s[j - 1]
      BY <1>2, <3>1
    <3> QED
      BY <2>2, <3>2, <3>3
  <2> QED
    BY <2>1, <2>2
<1>7. Range(t) = Range(s) \cup {ip}
  <2>1. DOMAIN t = 1..(Len(s) + 1) /\ DOMAIN s = 1..Len(s)
    BY <1>5
  <2>2. Range(t) \subseteq Range(s) \cup {ip}
    BY <1>6, <2>1 DEF Range
  <2>3. ip \in Range(t)
    <3>1. t[i] = ip
      BY <1>6
    <3> QED
      BY <2>1, <3>1 DEF Range
  <2>4. ASSUME NEW j \in 1..Len(s) PROVE s[j] \in Range(t)
    <3>1. CASE j < i
      BY <1>6, <2>1, <3>1 DEF Range
    <3>2. CASE j >= i
      <4>1. j + 1 \in 1..(Len(s) + 1) /\ t[j + 1] = s[j]
        BY <1>6, <3>2
      <4> QED
        BY <2>1, <4>1 DEF Range
    <3> QED
      BY <3>1, <3>2
  <2> QED
    BY <2>1, <2>2, <2>3, <2>4 DEF Range
<1> QED
  BY <1>5, <1>6, <1>7 DEF t

\* The first gap of a sorted slice is where the least free address belongs:
\* everything before it is smaller, everything from it on is greater.
LEMMA GapIsFirstFree ==
  ASSUME NEW c, IsCIDR(c), NEW s \in Seq(Addresses(c)), StrictlyIncreasing(s),
         NEW i \in FirstGap(c, s)
  PROVE  /\ i \in 1..Len(s)
         /\ AddressAt(c, i) \in FirstFree(c, Range(s))
         /\ \A j \in 1..Len(s) : IF j < i THEN s[j] < AddressAt(c, i)
                                          ELSE AddressAt(c, i) < s[j]
<1> DEFINE ip == AddressAt(c, i)
<1>1. i \in 1..Len(s) /\ s[i] # ip
  BY DEF FirstGap, Gaps
<1>2. \A j \in 1..Len(s) : s[j] \in Nat /\ Network(c) <= s[j] /\ s[j] <= Broadcast(c)
  BY CIDRBounds DEF Addresses
<1>3. \A j \in 1..Len(s) : j < i => s[j] = AddressAt(c, j)
  BY <1>1 DEF FirstGap, Gaps
<1>4. ip \in Nat /\ Network(c) \in Nat /\ Broadcast(c) \in Nat
  BY <1>1, CIDRBounds DEF AddressAt
<1>5. ip < s[i]
  <2>1. CASE i = 1
    BY <1>1, <1>2, <1>4, <2>1 DEF AddressAt
  <2>2. CASE i > 1
    <3>1. i - 1 \in 1..Len(s) /\ s[i - 1] = AddressAt(c, i - 1)
      BY <1>1, <1>3, <2>2
    <3>2. s[i - 1] < s[i]
      BY <1>1, <2>2, <3>1 DEF StrictlyIncreasing
    <3> QED
      BY <1>1, <1>2, <1>4, <3>1, <3>2 DEF AddressAt
  <2> QED
    BY <1>1, <2>1, <2>2
<1>6. \A j \in 1..Len(s) : IF j < i THEN s[j] < ip ELSE ip < s[j]
  <2> TAKE j \in 1..Len(s)
  <2>1. CASE j < i
    BY <1>1, <1>3, <1>4, <2>1 DEF AddressAt
  <2>2. CASE j >= i
    <3>1. j = i \/ s[i] < s[j]
      BY <1>1, <2>2 DEF StrictlyIncreasing
    <3> QED
      BY <1>1, <1>2, <1>4, <1>5, <2>2, <3>1
  <2> QED
    BY <1>1, <2>1, <2>2
<1>7. ip \notin Range(s)
  BY <1>2, <1>4, <1>6 DEF Range
<1>8. ip \in Addresses(c)
  BY <1>1, <1>2, <1>4, <1>5 DEF Addresses, AddressAt
<1>9. ASSUME NEW b \in Free(c, Range(s)) PROVE ip <= b
  <2>1. b \in Nat /\ Network(c) <= b /\ b \notin Range(s)
    BY <1>4 DEF Free, Addresses
  <2>2. SUFFICES ASSUME b < ip PROVE FALSE
    BY <1>4, <2>1
  <2> DEFINE j == b - Network(c) + 1
  <2>3. j \in 1..Len(s) /\ j < i
    BY <1>1, <1>4, <2>1, <2>2 DEF AddressAt
  <2>4. s[j] = b
    BY <1>3, <1>4, <2>1, <2>3 DEF AddressAt
  <2> QED
    BY <2>1, <2>3, <2>4 DEF Range
<1> QED
  BY <1>1, <1>6, <1>7, <1>8, <1>9 DEF FirstFree, Free

\* The length test is exact: a sorted slice as long as the CIDR holds every
\* address of it.
LEMMA LengthTestExact ==
  ASSUME NEW c, IsCIDR(c), NEW s \in Seq(Addresses(c)), StrictlyIncreasing(s),
         NoMoreIPs(c, s)
  PROVE  Free(c, Range(s)) = {}
<1>1. s \in [1..Len(s) -> Addresses(c)] /\ Len(s) \in Nat
  OBVIOUS
<1>2. s \in Injection(1..Len(s), Addresses(c))
  <2>1. \A i, j \in 1..Len(s) : s[i] = s[j] => i = j
    <3> SUFFICES ASSUME NEW i \in 1..Len(s), NEW j \in 1..Len(s), i # j
                 PROVE  s[i] # s[j]
      OBVIOUS
    <3>1. s[i] \in Nat /\ s[j] \in Nat
      BY CIDRBounds
    <3>2. i < j \/ j < i
      OBVIOUS
    <3> QED
      BY <3>1, <3>2 DEF StrictlyIncreasing
  <2> QED
    BY <1>1, <2>1, Fun_IsInj
<1>3. Cardinality(1..Len(s)) = Cardinality(Addresses(c))
  <2>1. c.size \in Nat
    BY DEF IsCIDR
  <2>2. Cardinality(1..Len(s)) = IF 1 > Len(s) THEN 0 ELSE Len(s) - 1 + 1
    BY <1>1, FS_Interval
  <2>3. (IF 1 > Len(s) THEN 0 ELSE Len(s) - 1 + 1) = Len(s)
    BY <1>1
  <2> QED
    BY <2>1, <2>2, <2>3, CIDRSize DEF NoMoreIPs
<1>4. s \in Surjection(1..Len(s), Addresses(c))
  BY <1>2, <1>3, CIDRSize, FS_Injection
<1> QED
  BY <1>1, <1>4 DEF Surjection, Free, Range

\* A gapless slice that holds the broadcast address is a full one: the end
\* of the loop ("we should never get here") is not reached.
LEMMA NoGapMeansFull ==
  ASSUME NEW c, IsCIDR(c), NEW s \in Seq(Addresses(c)),
         Broadcast(c) \in Range(s), Gaps(c, s) = {}
  PROVE  NoMoreIPs(c, s)
<1>1. \A i \in 1..Len(s) : s[i] = Network(c) + i - 1 /\ s[i] <= Broadcast(c)
  BY CIDRBounds DEF Gaps, AddressAt, Addresses
<1>2. PICK k \in 1..Len(s) : s[k] = Broadcast(c)
  BY DEF Range
<1>3. Network(c) \in Nat /\ c.size \in Nat /\ Broadcast(c) = Network(c) + c.size - 1
  BY CIDRBounds DEF IsCIDR
<1>4. k = c.size
  BY <1>1, <1>2, <1>3
<1>5. Len(s) \in 1..Len(s) /\ Len(s) \in Nat
  BY <1>2
<1>6. Len(s) <= c.size
  BY <1>1, <1>3, <1>5
<1> QED
  BY <1>2, <1>4, <1>5, <1>6 DEF NoMoreIPs

-----------------------------------------------------------------------------
(* The allocator                                                           *)

\* The inductive invariant: the three invariants together.  GivenUsable
\* needs SliceSorted to know that the address of a gap is in nobody's use.
AllocationInv == TypeOK /\ SliceSorted /\ GivenUsable

\* The slice the loop starts from is sorted and holds the used addresses.
LEMMA InitInv == Init => AllocationInv
<1> SUFFICES ASSUME Init PROVE AllocationInv
  OBVIOUS
<1> DEFINE S == taken \cup AlwaysExcluded(cidr)
<1>1. IsCIDR(cidr)
  BY CIDRsAssumption DEF Init
<1>2. S \in SUBSET Addresses(cidr) /\ S \in SUBSET Nat
  BY <1>1, CIDRBounds DEF Init, AlwaysExcluded
<1>3. IsFiniteSet(S)
  BY <1>1, <1>2, CIDRSize, FS_Subset
<1>4. /\ assigned \in Seq(S) /\ StrictlyIncreasing(assigned)
      /\ Range(assigned) = S
  BY <1>2, <1>3, SortIPsSorts DEF Init
<1>5. given = << >> /\ Range(given) = {} /\ Len(given) = 0
  BY DEF Init, Range
<1>6. TypeOK
  BY <1>2, <1>4, <1>5, SeqMonotonic DEF Init, TypeOK
<1> QED
  BY <1>4, <1>5, <1>6 DEF AllocationInv, SliceSorted, GivenUsable

\* A hand-out takes the least free address of the CIDR.
LEMMA HandOut ==
  ASSUME AllocationInv, NextAvailableIP
  PROVE  \E ip \in FirstFree(cidr, Range(assigned)) :
           /\ given' = Append(given, ip)
           /\ assigned' \in Seq(Addresses(cidr))
           /\ StrictlyIncreasing(assigned')
           /\ Range(assigned') = Range(assigned) \cup {ip}
<1>1. IsCIDR(cidr)
  BY CIDRsAssumption DEF AllocationInv, TypeOK
<1>2. PICK i \in FirstGap(cidr, assigned) :
         /\ assigned' = Insert(assigned, i, AddressAt(cidr, i))
         /\ given' = Append(given, AddressAt(cidr, i))
  BY DEF NextAvailableIP
<1> DEFINE ip == AddressAt(cidr, i)
<1>3. assigned \in Seq(Addresses(cidr)) /\ StrictlyIncreasing(assigned)
  BY DEF AllocationInv, TypeOK, SliceSorted
<1>4. /\ i \in 1..Len(assigned)
      /\ ip \in FirstFree(cidr, Range(assigned))
      /\ \A j \in 1..Len(assigned) : IF j < i THEN assigned[j] < ip
                                              ELSE ip < assigned[j]
  BY <1>1, <1>3, GapIsFirstFree
<1>5. ip \in Addresses(cidr)
  BY <1>4 DEF FirstFree, Free
<1> HIDE DEF ip
<1>6. /\ assigned' \in Seq(Addresses(cidr))
      /\ Len(assigned') = Len(assigned) + 1
      /\ \A j \in 1..(Len(assigned) + 1) :
           assigned'[j] = IF j < i THEN assigned[j]
                          ELSE IF j = i THEN ip ELSE assigned[j - 1]
      /\ Range(assigned') = Range(assigned) \cup {ip}
  BY <1>2, <1>3, <1>4, <1>5, InsertProperties DEF ip
<1>7. StrictlyIncreasing(assigned')
  <2> SUFFICES ASSUME NEW j \in 1..(Len(assigned) + 1),
                      NEW k \in 1..(Len(assigned) + 1), j < k
               PROVE  assigned'[j] < assigned'[k]
    BY <1>6 DEF StrictlyIncreasing
  <2>1. \A m \in 1..Len(assigned) : assigned[m] \in Nat
    BY <1>1, <1>3, CIDRBounds
  <2>2. CASE k < i
    BY <1>3, <1>4, <1>6, <2>2 DEF StrictlyIncreasing
  <2>3. CASE k = i
    BY <1>4, <1>6, <2>3
  <2>4. CASE i < k /\ j < i
    <3>1. j \in 1..Len(assigned) /\ k - 1 \in 1..Len(assigned) /\ j < k - 1
      BY <1>4, <2>4
    <3>2. assigned'[j] = assigned[j] /\ assigned'[k] = assigned[k - 1]
      BY <1>4, <1>6, <2>4
    <3> QED
      BY <1>3, <3>1, <3>2 DEF StrictlyIncreasing
  <2>5. CASE j = i
    <3>1. k - 1 \in 1..Len(assigned) /\ ~(k - 1 < i)
      BY <1>4, <2>5
    <3> QED
      BY <1>4, <1>6, <2>5, <3>1
  <2>6. CASE i < j
    <3>1. /\ j - 1 \in 1..Len(assigned) /\ k - 1 \in 1..Len(assigned)
          /\ j - 1 < k - 1
      BY <1>4, <2>6
    <3>2. assigned'[j] = assigned[j - 1] /\ assigned'[k] = assigned[k - 1]
      BY <1>4, <1>6, <2>6
    <3> QED
      BY <1>3, <3>1, <3>2 DEF StrictlyIncreasing
  <2> QED
    BY <1>4, <2>2, <2>3, <2>4, <2>5, <2>6
<1> QED
  BY <1>2, <1>4, <1>6, <1>7 DEF ip

\* Every step of the loop keeps the slice sorted and the hand-outs usable.
LEMMA StepInv == AllocationInv /\ [Next]_vars => AllocationInv'
<1> SUFFICES ASSUME AllocationInv, [Next]_vars PROVE AllocationInv'
  OBVIOUS
<1>1. CASE NextAvailableIP
  <2>1. PICK ip \in FirstFree(cidr, Range(assigned)) :
          /\ given' = Append(given, ip)
          /\ assigned' \in Seq(Addresses(cidr))
          /\ StrictlyIncreasing(assigned')
          /\ Range(assigned') = Range(assigned) \cup {ip}
    BY <1>1, HandOut
  <2>2. ip \in Addresses(cidr) /\ ip \notin Range(assigned)
    BY DEF FirstFree, Free
  <2>3. cidr' = cidr /\ taken' = taken /\ outcome' = outcome
    BY <1>1 DEF NextAvailableIP
  <2>4. /\ given \in Seq(Addresses(cidr)) /\ given' \in Seq(Addresses(cidr))
        /\ Len(given') = Len(given) + 1 /\ given'[Len(given) + 1] = ip
        /\ \A i \in 1..Len(given) : given'[i] = given[i]
    BY <2>1, <2>2 DEF AllocationInv, TypeOK
  <2>5. Range(given') = Range(given) \cup {ip}
    BY <2>4 DEF Range
  <2>6. TypeOK'
    BY <2>1, <2>3, <2>4 DEF AllocationInv, TypeOK
  <2>7. SliceSorted'
    BY <2>1, <2>3, <2>5 DEF AllocationInv, SliceSorted, AlwaysExcluded
  <2>8. GivenUsable'
    <3>1. ip \notin taken \cup AlwaysExcluded(cidr) \cup Range(given)
      BY <2>2 DEF AllocationInv, SliceSorted
    <3>2. \A i \in 1..Len(given) : given[i] # ip
      BY <2>4, <3>1 DEF Range
    <3>3. \A i, j \in 1..Len(given') : given'[i] = given'[j] => i = j
      BY <2>4, <3>2 DEF AllocationInv, GivenUsable
    <3>4. Range(given') \cap (taken' \cup AlwaysExcluded(cidr')) = {}
      BY <2>3, <2>5, <3>1 DEF AllocationInv, GivenUsable, AlwaysExcluded
    <3> QED
      BY <3>3, <3>4 DEF GivenUsable
  <2> QED
    BY <2>6, <2>7, <2>8 DEF AllocationInv
<1>2. CASE NoAvailableIP \/ UNCHANGED vars
  <2>1. UNCHANGED <<cidr, taken, assigned, given>>
    BY <1>2 DEF NoAvailableIP, vars
  <2>2. outcome' \in {"running", "exhausted", "never_get_here"}
    BY <1>2 DEF NoAvailableIP, vars, AllocationInv, TypeOK
  <2> QED
    BY <2>1, <2>2 DEF AllocationInv, TypeOK, SliceSorted, GivenUsable
<1> QED
  BY <1>1, <1>2 DEF Next

\* For CIDRs of every size: the addresses in use, in the slice and handed out
\* by getNextAvailableIP are addresses of the CIDR, and every call ends in one
\* of its results.
THEOREM AllocationTypes == Spec => []TypeOK
<1>1. AllocationInv => TypeOK
  BY DEF AllocationInv
<1> QED
  BY <1>1, InitInv, StepInv, PTL DEF Spec

\* For CIDRs of every size and every set of used addresses: the slice that
\* getNextAvailableIP scans and inserts into stays sorted and complete.
THEOREM SliceStaysSorted == Spec => []SliceSorted
<1>1. AllocationInv => SliceSorted
  BY DEF AllocationInv
<1> QED
  BY <1>1, InitInv, StepInv, PTL DEF Spec

\* For CIDRs of every size: no address in use or always excluded is handed
\* out, and none is handed out twice in a cycle.
THEOREM HandOutsUsable == Spec => []GivenUsable
<1>1. AllocationInv => GivenUsable
  BY DEF AllocationInv
<1> QED
  BY <1>1, InitInv, StepInv, PTL DEF Spec

\* The initial slice stands for a pool of addresses.
LEMMA InitPool == Init => Pool!Init
<1> SUFFICES ASSUME Init PROVE Pool!Init
  OBVIOUS
<1>1. Addresses(cidr) \subseteq Nat
  BY CIDRsAssumption, CIDRBounds DEF Init
<1> QED
  BY <1>1 DEF Init, Pool!Init, Free

\* A call of getNextAvailableIP takes the least address of the pool or
\* refuses because the pool is empty.
LEMMA StepPool == AllocationInv /\ [Next]_vars => [Pool!Next]_(Pool!vars)
<1> SUFFICES ASSUME AllocationInv, [Next]_vars PROVE [Pool!Next]_(Pool!vars)
  OBVIOUS
<1>1. CASE NextAvailableIP
  <2>1. PICK ip \in FirstFree(cidr, Range(assigned)) :
          /\ given' = Append(given, ip)
          /\ Range(assigned') = Range(assigned) \cup {ip}
    BY <1>1, HandOut
  <2>2. outcome = "running" /\ outcome' = outcome /\ cidr' = cidr
    BY <1>1 DEF NextAvailableIP
  <2>3. /\ ip \in Free(cidr, Range(assigned))
        /\ \A b \in Free(cidr, Range(assigned)) : ip <= b
    BY DEF FirstFree
  <2>4. Free(cidr, Range(assigned))' = Free(cidr, Range(assigned)) \ {ip}
    BY <2>1, <2>2 DEF Free, Addresses, Network, Broadcast
  <2>5. Pool!Take
    BY <2>1, <2>2, <2>3, <2>4 DEF Pool!Take
  <2> QED
    BY <2>5 DEF Pool!Next
<1>2. CASE NoAvailableIP
  <2>1. IsCIDR(cidr) /\ assigned \in Seq(Addresses(cidr))
    BY CIDRsAssumption DEF AllocationInv, TypeOK
  <2>2. StrictlyIncreasing(assigned) /\ Broadcast(cidr) \in Range(assigned)
    BY DEF AllocationInv, SliceSorted, AlwaysExcluded
  <2>3. NoMoreIPs(cidr, assigned)
    BY <1>2, <2>1, <2>2, NoGapMeansFull DEF NoAvailableIP
  <2>4. Free(cidr, Range(assigned)) = {}
    BY <2>1, <2>2, <2>3, LengthTestExact
  <2>5. /\ outcome = "running" /\ outcome' = "exhausted"
        /\ UNCHANGED <<cidr, assigned, given>>
    BY <1>2, <2>3 DEF NoAvailableIP
  <2>6. Pool!Refuse
    BY <2>4, <2>5 DEF Pool!Refuse
  <2> QED
    BY <2>6 DEF Pool!Next
<1>3. CASE UNCHANGED vars
  BY <1>3 DEF vars, Pool!vars
<1> QED
  BY <1>1, <1>2, <1>3 DEF Next

\* The allocator implements the pool for CIDRs of every size and every set
\* of used addresses: the least free address is handed out, an error means
\* that no address is free, and "we should never get here" never happens.
THEOREM AllocatorImplementsPool == Spec => PoolSpec
  BY InitInv, StepInv, InitPool, StepPool, PTL DEF Spec, PoolSpec, Pool!Spec
=============================================================================
