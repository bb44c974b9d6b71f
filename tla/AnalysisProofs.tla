--------------------------- MODULE AnalysisProofs ---------------------------
(***************************************************************************)
(* What the pages may rely on, for any stores, answers, word lists, prices *)
(* and days: what the outlier rule leaves of a group, what sorting by      *)
(* price makes of it, what a label says of a title; and from these the     *)
(* invariants of the tables that grow day by day.                          *)
(***************************************************************************)
EXTENDS Prices, FiniteSetTheorems, WellFoundedInduction, TLAPS

(* A store's rows, of which all that matters is that no price is negative. *)
Priced(Row) == \A row \in Row : row.price \in Nat

CheapestFirst(offers) == \A m, n \in DOMAIN offers : m <= n => offers[m].price <= offers[n].price

(* The middle positions of a group are positions of it, one not after the   *)
(* other: what the median of statistics.median is taken from.               *)
LEMMA Middle ==
  ASSUME NEW size \in Nat \ {0}
  PROVE  /\ (size + 1) \div 2 \in 1..size
         /\ size \div 2 + 1 \in 1..size
         /\ (size + 1) \div 2 <= size \div 2 + 1
OBVIOUS

(* The offer on the upper side of the middle is never out of line: the      *)
(* median is at most its price and at least half of it.                     *)
LEMMA UpperMiddleStays ==
  ASSUME NEW Row, Priced(Row),
         NEW offers \in Seq(Row), offers # <<>>, CheapestFirst(offers)
  PROVE  LET upper == Len(offers) \div 2 + 1
         IN  upper \in DOMAIN offers /\ ~FarFrom(offers[upper].price, DoubleMedian(Prices(offers)))
<1> DEFINE size == Len(offers)
           lower == (size + 1) \div 2
           upper == size \div 2 + 1
<1>1. size \in Nat \ {0} /\ DOMAIN offers = 1..size
  OBVIOUS
<1>2. lower \in 1..size /\ upper \in 1..size /\ lower <= upper
  BY <1>1, Middle
<1>3. offers[lower].price \in Nat /\ offers[upper].price \in Nat
  BY <1>1, <1>2 DEF Priced
<1>4. offers[lower].price <= offers[upper].price
  BY <1>1, <1>2 DEF CheapestFirst
<1>5. Len(Prices(offers)) = size /\ \A n \in 1..size : Prices(offers)[n] = offers[n].price
  BY <1>1 DEF Prices
<1>6. DoubleMedian(Prices(offers)) = offers[lower].price + offers[upper].price
  BY <1>1, <1>2, <1>5 DEF DoubleMedian
<1> QED
  BY <1>1, <1>2, <1>3, <1>4, <1>6 DEF FarFrom

(* What report.py's render_tier relies on when it takes the first offer     *)
(* that is no outlier: however many stores, at whatever prices, a group     *)
(* keeps an offer that is not flagged.                                      *)
THEOREM GroupKeepsAnOffer ==
  ASSUME NEW Row, Priced(Row),
         NEW offers \in Seq(Row), offers # <<>>, CheapestFirst(offers)
  PROVE  \E n \in DOMAIN FlagOutliers(offers) : ~FlagOutliers(offers)[n].outlier
<1> DEFINE upper == Len(offers) \div 2 + 1
<1>1. upper \in DOMAIN offers /\ ~FarFrom(offers[upper].price, DoubleMedian(Prices(offers)))
  BY UpperMiddleStays
<1>2. upper \in DOMAIN FlagOutliers(offers) /\ FlagOutliers(offers)[upper].outlier = FALSE
  BY <1>1 DEF FlagOutliers, Offer
<1> QED
  BY <1>2

-----------------------------------------------------------------------------
(* A set of naturals that is not empty has a smallest one. *)
LEMMA Smallest ==
  ASSUME NEW S \in SUBSET Nat, S # {}
  PROVE  \E n \in S : \A m \in S : n <= m
<1>1. PICK n \in S : \A m \in S : ~ (<<m, n>> \in OpToRel(<, Nat))
  BY WFMin, NatLessThanWellFounded, Zenon
<1>2. \A m \in S : n <= m
  <2> TAKE m \in S
  <2>1. ~ (m < n)
    BY <1>1 DEF OpToRel
  <2> QED BY <2>1
<1> QED BY <1>2

(* Of offers, or rows, one asks no more than any other. *)
LEMMA Cheapest ==
  ASSUME NEW T, Priced(T), T # {}
  PROVE  \E c \in T : \A a \in T : c.price <= a.price
<1> DEFINE P == {a.price : a \in T}
<1>1. P \in SUBSET Nat /\ P # {}
  BY DEF Priced
<1>2. PICK p \in P : \A q \in P : p <= q
  <2> HIDE DEF P
  <2> QED BY <1>1, Smallest
<1>3. PICK c \in T : c.price = p
  BY <1>2
<1> QED BY <1>2, <1>3

(* A list of n members of T in which every two stand as R has them. *)
Sorts(list, T, R, n) ==
  /\ list \in [1..n -> T]
  /\ \A k, m \in 1..n : k < m => <<list[k], list[m]>> \in R

(* Whatever is left of T to sort, one of it may stand first. *)
HasFirsts(T, R) == \A U \in SUBSET T : U # {} => \E c \in U : \A a \in U \ {c} : <<c, a>> \in R

(* A finite set whose subsets have firsts can be sorted: put the first      *)
(* before the others, sorted.                                               *)
LEMMA SortedExists ==
  ASSUME NEW S, IsFiniteSet(S), NEW R, HasFirsts(S, R)
  PROVE  \E list : Sorts(list, S, R, Cardinality(S))
<1> DEFINE Bad == {n \in Nat : \E T \in SUBSET S : Cardinality(T) = n /\ ~ \E list : Sorts(list, T, R, n)}
<1>1. SUFFICES ASSUME Bad # {} PROVE FALSE
  <2>1. Cardinality(S) \in Nat /\ Cardinality(S) \notin Bad
    BY <1>1, FS_CardinalityType
  <2> QED BY <2>1
<1>2. PICK n \in Bad : \A m \in Bad : n <= m
  <2>1. Bad \in SUBSET Nat
    OBVIOUS
  <2> HIDE DEF Bad
  <2> QED BY <1>1, <2>1, Smallest
<1>3. n \in Nat
  OBVIOUS
<1>4. PICK T \in SUBSET S : Cardinality(T) = n /\ ~ \E list : Sorts(list, T, R, n)
  OBVIOUS
<1>5. IsFiniteSet(T)
  BY FS_Subset
<1>6. n # 0
  <2> SUFFICES ASSUME n = 0 PROVE \E list : Sorts(list, T, R, n)
    BY <1>4
  <2>1. Sorts([k \in 1..0 |-> k], T, R, 0)
    BY DEF Sorts
  <2> QED BY <2>1
<1>7. PICK c \in T : \A a \in T \ {c} : <<c, a>> \in R
  <2>1. T # {}
    BY <1>4, <1>5, <1>6, FS_EmptySet
  <2> QED BY <2>1 DEF HasFirsts
<1> DEFINE rest == T \ {c}
<1>8. Cardinality(rest) = n - 1 /\ rest \in SUBSET S /\ n - 1 \in Nat /\ n - 1 \notin Bad
  <2>1. Cardinality(rest) = n - 1
    BY <1>4, <1>5, FS_RemoveElement
  <2>2. n - 1 \in Nat /\ ~ (n <= n - 1)
    BY <1>3, <1>6
  <2>3. n - 1 \notin Bad
    <3> HIDE DEF Bad
    <3> QED BY <1>2, <2>2
  <2> QED BY <2>1, <2>2, <2>3
<1>9. PICK list : Sorts(list, rest, R, n - 1)
  BY <1>8
<1> DEFINE longer == [k \in 1..n |-> IF k = 1 THEN c ELSE list[k - 1]]
<1>10. \A k \in 1..n : k # 1 => k - 1 \in 1..(n - 1) /\ longer[k] = list[k - 1] /\ longer[k] \in rest
  <2> TAKE k \in 1..n
  <2> HAVE k # 1
  <2>1. k - 1 \in 1..(n - 1)
    BY <1>3
  <2> QED BY <1>9, <2>1 DEF Sorts
<1>11. longer[1] = c /\ 1 \in 1..n
  BY <1>3, <1>6
<1>12. longer \in [1..n -> T]
  BY <1>10, <1>11
<1>13. ASSUME NEW k \in 1..n, NEW m \in 1..n, k < m
       PROVE  <<longer[k], longer[m]>> \in R
  <2> HIDE DEF longer
  <2>1. m # 1 /\ longer[m] \in rest /\ longer[m] = list[m - 1] /\ m - 1 \in 1..(n - 1)
    BY <1>10, <1>13
  <2>2. CASE k = 1
    BY <1>7, <1>11, <2>1, <2>2
  <2>3. CASE k # 1
    <3>1. longer[k] = list[k - 1] /\ k - 1 \in 1..(n - 1) /\ k - 1 < m - 1
      BY <1>3, <1>10, <1>13, <2>1, <2>3
    <3> QED BY <1>9, <2>1, <3>1 DEF Sorts
  <2> QED BY <2>2, <2>3
<1> HIDE DEF longer
<1> QED BY <1>4, <1>12, <1>13 DEF Sorts

(* Sorted is such a list; where nothing stands before itself it holds every *)
(* member, once.                                                            *)
LEMMA SortedSorts ==
  ASSUME NEW S, IsFiniteSet(S), NEW R, HasFirsts(S, R), \A a \in S : <<a, a>> \notin R
  PROVE  /\ Sorts(Sorted(S, R), S, R, Cardinality(S))
         /\ Sorted(S, R) \in Seq(S) /\ Len(Sorted(S, R)) = Cardinality(S)
         /\ \A a \in S : \E n \in 1..Cardinality(S) : Sorted(S, R)[n] = a
<1> DEFINE size == Cardinality(S)
           list == Sorted(S, R)
           Is(l) == \A m, n \in DOMAIN l : m < n => <<l[m], l[n]>> \in R
<1>1. size \in Nat
  BY FS_CardinalityType
<1>2. PICK l : Sorts(l, S, R, size)
  BY SortedExists
<1>3. l \in [1..size -> S] /\ Is(l)
  BY <1>2 DEF Sorts
<1>4. list = CHOOSE x \in [1..size -> S] : Is(x)
  BY DEF Sorted
<1>5. list \in [1..size -> S] /\ Is(list)
  <2> HIDE DEF Is, size, list
  <2> QED BY <1>3, <1>4
<1> HIDE DEF list
<1>6. list \in Seq(S) /\ Len(list) = size /\ DOMAIN list = 1..size
  BY <1>1, <1>5
<1>7. \A m, n \in 1..size : list[m] = list[n] => m = n
  <2> SUFFICES ASSUME NEW m \in 1..size, NEW n \in 1..size, list[m] = list[n], m < n
               PROVE  FALSE
    BY <1>1
  <2> QED BY <1>5, <1>6
<1> DEFINE seen == {list[n] : n \in 1..size}
<1>8. list \in Injection(1..size, seen) /\ list \in Surjection(1..size, seen)
  <2>1. list \in [1..size -> seen]
    BY <1>5
  <2> QED BY <1>7, <2>1 DEF Injection, IsInjective, Surjection
<1>9. Cardinality(seen) = size
  <2> HIDE DEF seen
  <2>1. IsFiniteSet(1..size) /\ Cardinality(1..size) = size
    BY <1>1, FS_Interval
  <2> QED BY <1>8, <2>1, FS_Surjection
<1>10. seen = S
  <2>1. seen \subseteq S
    BY <1>5
  <2> HIDE DEF seen
  <2> QED BY <1>9, <2>1, FS_Subset
<1>11. Sorts(list, S, R, size)
  BY <1>5, <1>6 DEF Sorts
<1>12. \A a \in S : \E n \in 1..size : list[n] = a
  BY <1>10
<1> QED BY <1>6, <1>11, <1>12 DEF list

(* What sorting a group by price gives, whichever way it breaks the ties. *)
LEMMA ByPriceSorts ==
  ASSUME NEW kept, IsFiniteSet(kept), Priced(kept)
  PROVE  /\ ByPrice(kept) \in Seq(kept) /\ Len(ByPrice(kept)) = Cardinality(kept)
         /\ CheapestFirst(ByPrice(kept))
<1> DEFINE size == Cardinality(kept)
           InOrder == {pair \in kept \X kept : pair[1] # pair[2] /\ pair[1].price <= pair[2].price}
           list == ByPrice(kept)
<1>1. HasFirsts(kept, InOrder)
  <2> SUFFICES ASSUME NEW U \in SUBSET kept, U # {}
               PROVE  \E c \in U : \A a \in U \ {c} : <<c, a>> \in InOrder
    BY DEF HasFirsts
  <2>1. PICK c \in U : \A a \in U : c.price <= a.price
    BY Cheapest DEF Priced
  <2> QED BY <2>1
<1>2. \A a \in kept : <<a, a>> \notin InOrder
  OBVIOUS
<1>3. list = Sorted(kept, InOrder)
  BY DEF ByPrice
<1>4. Sorts(list, kept, InOrder, size) /\ list \in Seq(kept) /\ Len(list) = size
  <2> HIDE DEF InOrder, list
  <2> QED BY <1>1, <1>2, <1>3, SortedSorts
<1> HIDE DEF list
<1>5. CheapestFirst(list)
  <2> SUFFICES ASSUME NEW m \in 1..size, NEW n \in 1..size, m <= n
               PROVE  list[m].price <= list[n].price
    BY <1>4 DEF CheapestFirst
  <2>0. size \in Nat
    BY FS_CardinalityType
  <2>1. CASE m = n
    BY <1>4, <2>1 DEF Priced, Sorts
  <2>2. CASE m < n
    BY <1>4, <2>2 DEF Sorts
  <2> QED BY <2>0, <2>1, <2>2
<1> QED BY <1>4, <1>5 DEF list

-----------------------------------------------------------------------------
(* A set has at most as many members as the interval whose numbers name all *)
(* of them.                                                                 *)
LEMMA AtMost ==
  ASSUME NEW a \in Int, NEW b \in Int, a <= b + 1, NEW f, NEW B, \A x \in B : \E k \in a..b : f[k] = x
  PROVE  Cardinality(B) \in Nat /\ Cardinality(B) <= b - a + 1
<1> DEFINE K == {k \in a..b : f[k] \in B}
           name == [k \in K |-> f[k]]
<1>1. IsFiniteSet(a..b) /\ Cardinality(a..b) = b - a + 1
  BY FS_Interval
<1>2. IsFiniteSet(K) /\ Cardinality(K) <= Cardinality(a..b)
  BY <1>1, FS_Subset
<1>3. name \in Surjection(K, B)
  BY DEF Surjection
<1>4. IsFiniteSet(B) /\ Cardinality(B) <= Cardinality(K)
  <2> HIDE DEF K, name
  <2> QED BY <1>2, <1>3, FS_Surjection
<1> HIDE DEF K
<1> QED BY <1>1, <1>2, <1>4, FS_CardinalityType

SureOf(offers) == {n \in DOMAIN offers : ~offers[n].outlier}

(* The positions that contribute: those that are not flagged, in order. *)
LEMMA ContributingInOrder ==
  ASSUME NEW size \in Nat, NEW offers, DOMAIN offers = 1..size
  PROVE  LET c == Contributing(offers)
         IN  /\ c \in Seq(SureOf(offers)) /\ Len(c) = Cardinality(SureOf(offers))
             /\ \A k, m \in 1..Len(c) : k < m => c[k] < c[m]
             /\ \A n \in SureOf(offers) : \E k \in 1..Len(c) : c[k] = n
<1> DEFINE sure == SureOf(offers)
           R == {pair \in sure \X sure : pair[1] < pair[2]}
           c == Contributing(offers)
<1>1. sure \subseteq 1..size
  BY DEF SureOf
<1>2. IsFiniteSet(sure)
  BY <1>1, FS_Interval, FS_Subset
<1> HIDE DEF sure
<1>3. HasFirsts(sure, R)
  <2> SUFFICES ASSUME NEW U \in SUBSET sure, U # {}
               PROVE  \E n \in U : \A a \in U \ {n} : <<n, a>> \in R
    BY DEF HasFirsts
  <2>1. U \in SUBSET Nat
    BY <1>1
  <2>2. PICK n \in U : \A a \in U : n <= a
    BY <2>1, Smallest
  <2> QED BY <2>1, <2>2
<1>4. \A a \in sure : <<a, a>> \notin R
  BY <1>1
<1>5. c = Sorted(sure, R)
  BY DEF Contributing, sure, SureOf
<1>6. \A k, m : <<k, m>> \in R => k < m
  OBVIOUS
<1>7. /\ Sorts(c, sure, R, Cardinality(sure)) /\ c \in Seq(sure) /\ Len(c) = Cardinality(sure)
      /\ \A a \in sure : \E n \in 1..Cardinality(sure) : c[n] = a
  <2> HIDE DEF R, c
  <2> QED BY <1>2, <1>3, <1>4, <1>5, SortedSorts
<1>8. \A k, m \in 1..Len(c) : k < m => c[k] < c[m]
  <2> HIDE DEF R, c
  <2> QED BY <1>6, <1>7 DEF Sorts
<1> QED BY <1>7, <1>8 DEF sure

(* The two in the middle of an odd group are one, of an even group          *)
(* neighbours, with as many before as after.                                *)
LEMMA MiddleOf ==
  ASSUME NEW size \in Nat \ {0}
  PROVE  LET lower == (size + 1) \div 2
             upper == size \div 2 + 1
         IN  /\ lower \in 1..size /\ upper \in 1..size
             /\ lower <= upper /\ upper <= lower + 1
             /\ 2 * (upper - 1) <= size /\ 2 * (size - lower) <= size
             /\ size % 2 = 1 => lower = upper
OBVIOUS

(* What fair_price takes, if two stores contribute, is a doubled median of  *)
(* the offers that are not flagged.                                         *)
LEMMA MedianIsMiddle ==
  ASSUME NEW size \in Nat, NEW offers, DOMAIN offers = 1..size, CheapestFirst(offers),
         \A n \in 1..size : offers[n].price \in Nat, FairPrice(offers) # NoPrice
  PROVE  IsMedian(FairPrice(offers), offers)
<1> DEFINE sure == SureOf(offers)
           c == Contributing(offers)
           count == Len(c)
           lo == (count + 1) \div 2
           hi == count \div 2 + 1
           below(price) == {n \in sure : offers[n].price < price}
           above(price) == {n \in sure : offers[n].price > price}
<1>1. /\ c \in Seq(sure) /\ count = Cardinality(sure)
      /\ \A k, m \in 1..count : k < m => c[k] < c[m]
      /\ \A n \in sure : \E k \in 1..count : c[k] = n
  BY ContributingInOrder
<1>2. sure \subseteq 1..size
  BY DEF SureOf
<1> HIDE DEF sure, c
<1>3. /\ count \in Nat \ {0} /\ DOMAIN c = 1..count
      /\ FairPrice(offers) = DoubleMedian([n \in 1..count |-> offers[c[n]].price])
  <2>1. count \in Nat /\ DOMAIN c = 1..count
    BY <1>1
  <2>2. ~(count <= 1)
    BY DEF FairPrice, c
  <2> QED BY <2>1, <2>2 DEF FairPrice, c
<1>4. /\ lo \in 1..count /\ hi \in 1..count
      /\ lo <= hi /\ hi <= lo + 1
      /\ 2 * (hi - 1) <= count /\ 2 * (count - lo) <= count
      /\ count % 2 = 1 => lo = hi
  BY <1>3, MiddleOf
<1>5. FairPrice(offers) = offers[c[lo]].price + offers[c[hi]].price
  <2> DEFINE prices == [n \in 1..count |-> offers[c[n]].price]
  <2>1. Len(prices) = count
    BY <1>3
  <2>2. DoubleMedian(prices) = prices[lo] + prices[hi]
    BY <2>1 DEF DoubleMedian
  <2> QED BY <1>3, <1>4, <2>2
<1> HIDE DEF lo, hi
<1>6. \A k \in 1..count : c[k] \in sure /\ c[k] \in 1..size /\ offers[c[k]].price \in Nat
  <2> TAKE k \in 1..count
  <2>1. c[k] \in sure
    BY <1>1, <1>3
  <2> QED BY <1>2, <2>1
<1>7. ASSUME NEW k \in 1..count, NEW m \in 1..count, k <= m
      PROVE  offers[c[k]].price <= offers[c[m]].price
  <2>1. c[k] <= c[m]
    BY <1>1, <1>3, <1>6, <1>7
  <2> QED BY <1>6, <2>1 DEF CheapestFirst
<1>8. ASSUME NEW m \in 1..count
      PROVE  /\ Cardinality(below(offers[c[m]].price)) \in Nat
             /\ Cardinality(below(offers[c[m]].price)) <= m - 1
  <2>1. \A n \in below(offers[c[m]].price) : \E k \in 1..m - 1 : c[k] = n
    <3> TAKE n \in below(offers[c[m]].price)
    <3>1. PICK k \in 1..count : c[k] = n
      BY <1>1
    <3>2. ~(m <= k)
      BY <1>6, <1>7, <3>1
    <3> QED BY <1>3, <3>1, <3>2
  <2> DEFINE before == below(offers[c[m]].price)
             first == 1
             last == m - 1
  <2>2. m \in Nat \ {0} /\ first \in Int /\ last \in Int /\ first <= last + 1
    BY <1>3
  <2> HIDE DEF before, count
  <2>3. \A n \in before : \E k \in first..last : c[k] = n
    BY <2>1 DEF before
  <2> HIDE DEF first, last
  <2>4. Cardinality(before) \in Nat /\ Cardinality(before) <= last - first + 1
    BY <2>2, <2>3, AtMost
  <2>5. last - first + 1 = m - 1
    BY <2>2 DEF first, last
  <2> QED BY <2>4, <2>5 DEF before
<1>9. ASSUME NEW m \in 1..count
      PROVE  /\ Cardinality(above(offers[c[m]].price)) \in Nat
             /\ Cardinality(above(offers[c[m]].price)) <= count - m
  <2>1. \A n \in above(offers[c[m]].price) : \E k \in m + 1..count : c[k] = n
    <3> TAKE n \in above(offers[c[m]].price)
    <3>1. PICK k \in 1..count : c[k] = n
      BY <1>1
    <3>2. ~(k <= m)
      <4>1. offers[c[m]].price < offers[c[k]].price
        BY <1>6, <3>1
      <4>2. k <= m => offers[c[k]].price <= offers[c[m]].price
        BY <1>7
      <4> HIDE DEF count
      <4> QED BY <1>6, <4>1, <4>2
    <3> QED BY <1>3, <3>1, <3>2
  <2> DEFINE after == above(offers[c[m]].price)
             first == m + 1
  <2>2. m \in Nat \ {0} /\ first \in Int /\ count \in Int /\ first <= count + 1
    BY <1>3
  <2> HIDE DEF after, count
  <2>3. \A n \in after : \E k \in first..count : c[k] = n
    BY <2>1 DEF after
  <2> HIDE DEF first
  <2>4. Cardinality(after) \in Nat /\ Cardinality(after) <= count - first + 1
    BY <2>2, <2>3, AtMost
  <2>5. count - first + 1 = count - m
    BY <2>2 DEF first
  <2> QED BY <2>4, <2>5 DEF after
<1>10. ASSUME NEW n \in sure
       PROVE  ~(offers[c[lo]].price < offers[n].price /\ offers[n].price < offers[c[hi]].price)
  <2>1. PICK k \in 1..count : c[k] = n
    BY <1>1
  <2>2. k <= lo \/ hi <= k
    BY <1>3, <1>4
  <2> QED BY <1>4, <1>6, <1>7, <2>1, <2>2
<1> DEFINE B(m) == Cardinality(below(offers[c[m]].price))
           A(m) == Cardinality(above(offers[c[m]].price))
<1>11. 2 * B(hi) <= count /\ 2 * A(lo) <= count /\ B(lo) < count - A(hi)
  <2>1. B(hi) \in Nat /\ B(lo) \in Nat /\ A(hi) \in Nat /\ A(lo) \in Nat
        /\ B(hi) <= hi - 1 /\ B(lo) <= lo - 1 /\ A(hi) <= count - hi /\ A(lo) <= count - lo
    BY <1>4, <1>8, <1>9
  <2> HIDE DEF A, B, count
  <2>2. count \in Nat /\ lo \in Int /\ hi \in Int /\ lo <= hi
        /\ 2 * (hi - 1) <= count /\ 2 * (count - lo) <= count
    BY <1>3, <1>4
  <2> QED BY <2>1, <2>2
<1>12. c[lo] \in sure /\ c[hi] \in sure /\ offers[c[lo]].price <= offers[c[hi]].price
  BY <1>4, <1>6, <1>7
<1>13. count % 2 = 1 => offers[c[lo]].price = offers[c[hi]].price
  BY <1>4
<1> HIDE DEF count
<1> QED BY <1>1, <1>5, <1>10, <1>11, <1>12, <1>13 DEF IsMedian, sure, SureOf

-----------------------------------------------------------------------------
(* The telling words of a query are some of its words, and finitely many;   *)
(* a title that has as many of them as there are has them all.              *)
LEMMA TellingWords ==
  ASSUME NEW query \in Seq(Word), NEW title
  PROVE  /\ Significant(query) \subseteq DOMAIN query
         /\ Cardinality(Significant(query)) \in Nat
         /\ Cardinality(Hits(query, title)) \in Nat
         /\ Cardinality(Hits(query, title)) <= Cardinality(Significant(query))
         /\ Cardinality(Hits(query, title)) = Cardinality(Significant(query))
              => Hits(query, title) = Significant(query)
<1>1. Significant(query) \subseteq DOMAIN query
  BY DEF Significant
<1>2. IsFiniteSet(Significant(query))
  <2>1. IsFiniteSet(1..Len(query))
    BY FS_Interval
  <2> QED BY <1>1, <2>1, FS_Subset
<1>3. Hits(query, title) \subseteq Significant(query)
  BY DEF Hits
<1> QED BY <1>1, <1>2, <1>3, FS_Subset, FS_CardinalityType

(* A share of the telling words has one label, and the best one is for all. *)
LEMMA CoveredIsLabel ==
  ASSUME NEW query \in Seq(Word), NEW title
  PROVE  /\ Covered(query, title) \in Label
         /\ Covered(query, title) = "match" => Hits(query, title) = Significant(query)
<1> DEFINE matched == Cardinality(Hits(query, title))
           wanted == Cardinality(Significant(query))
<1>1. matched \in Nat /\ wanted \in Nat /\ matched <= wanted
  BY TellingWords
<1>2. Covered(query, title) = CASE matched = wanted -> "match"
        [] matched < wanted /\ 2 * matched >= wanted -> "low_confidence"
        [] 2 * matched < wanted  -> "reject"
  BY DEF Covered
<1> HIDE DEF matched, wanted
<1>3. CASE matched = wanted
  <2>1. Covered(query, title) = "match"
    BY <1>1, <1>2, <1>3
  <2> QED BY <1>3, <2>1, TellingWords DEF Label, matched, wanted
<1>4. CASE matched < wanted /\ 2 * matched >= wanted
  BY <1>1, <1>2, <1>4 DEF Label
<1>5. CASE matched # wanted /\ 2 * matched < wanted
  <2>1. Covered(query, title) = "reject"
    BY <1>1, <1>2, <1>5
  <2> QED BY <2>1 DEF Label
<1> QED BY <1>1, <1>3, <1>4, <1>5

(* The early rejections of classify. *)
Rejected(query, title, kind) ==
  \/ query = <<>> \/ title = <<>>
  \/ kind = "phone" /\ PhonePartWords(query, title) # {}
  \/ ModelMissing(query, title)
  \/ Accessories(query, title) # {} /\ ~StrongPartMatch(query, title, kind)

(* The three ways a title gets its label. *)
LEMMA WaysToLabel ==
  ASSUME NEW query, NEW title, NEW kind
  PROVE  /\ Rejected(query, title, kind) => Classify(query, title, kind) = "reject"
         /\ ~Rejected(query, title, kind) =>
              Classify(query, title, kind) =
                IF Accessories(query, title) \cup Ambiguous(query, title) # {}
                THEN "low_confidence" ELSE Covered(query, title)
BY DEF Classify, Rejected

(* Every title gets one of the three labels. *)
LEMMA ClassifyIsLabel ==
  ASSUME NEW query \in Seq(Word), NEW title, NEW kind
  PROVE  Classify(query, title, kind) \in Label
BY WaysToLabel, CoveredIsLabel DEF Label

(* A title whose label is "match" says everything a sure listing must say. *)
LEMMA MatchIsSure ==
  ASSUME NEW query \in Seq(Word), NEW title, NEW kind, Classify(query, title, kind) = "match"
  PROVE  Sure(query, title, kind)
<1>1. /\ ~Rejected(query, title, kind) /\ Accessories(query, title) \cup Ambiguous(query, title) = {}
      /\ Hits(query, title) = Significant(query)
  BY WaysToLabel, CoveredIsLabel
<1>2. ToSet(query) \cap ModelNumbers \subseteq ToSet(title)
  BY <1>1 DEF Rejected, ModelMissing
<1>3. ToSet(title) \cap (HARD_REJECT \cup SOFT) \subseteq ToSet(query)
  BY <1>1 DEF Accessories, Ambiguous, Unasked
<1>4. kind = "phone" => ToSet(title) \cap PART_WORDS \subseteq ToSet(query)
  BY <1>1 DEF Rejected, PhonePartWords, Unasked
<1>5. ASSUME NEW n \in Significant(query)
      PROVE  \/ query[n] \in ToSet(title)
             \/ query[n] \notin ModelNumbers /\ \E v \in ToSet(title) : <<query[n], v>> \in Alike
  <2>1. query[n] \in ToSet(title) \/ \E v \in ToSet(title) : <<query[n], v>> \in Alike
    BY <1>1 DEF Hits
  <2>2. query[n] \in ToSet(query)
    BY TellingWords DEF ToSet
  <2> QED BY <1>2, <2>1, <2>2
<1> QED BY <1>2, <1>3, <1>4, <1>5 DEF Sure

(* Nothing that a part search rejects is kept by a phone search, and what a *)
(* phone search keeps has no accessory's name, so that it is labelled alike.*)
LEMMA PhoneStandsLower ==
  ASSUME NEW query \in Seq(Word), NEW title
  PROVE  Standing(Classify(query, title, "phone")) <= Standing(Classify(query, title, "part"))
<1>1. \A kind : Classify(query, title, kind) \in Label
  BY ClassifyIsLabel
<1>2. \A label \in Label : Standing(label) \in 0..2
  BY DEF Label, Standing
<1>3. CASE Rejected(query, title, "phone")
  <2>1. Standing(Classify(query, title, "phone")) = 0
    BY <1>3, WaysToLabel DEF Standing
  <2> QED BY <1>1, <1>2, <2>1
<1>4. CASE ~Rejected(query, title, "phone")
  <2>1. ~Rejected(query, title, "part")
    BY <1>4 DEF Rejected, StrongPartMatch
  <2>2. Classify(query, title, "phone") = Classify(query, title, "part")
    BY <1>4, <2>1, WaysToLabel
  <2> QED BY <1>1, <1>2, <2>2
<1> QED BY <1>3, <1>4

-----------------------------------------------------------------------------
(* What a finite set is mapped to is finite. *)
LEMMA FiniteImage ==
  ASSUME NEW S, IsFiniteSet(S), NEW f, DOMAIN f = S
  PROVE  IsFiniteSet({f[x] : x \in S})
<1> DEFINE T == {f[x] : x \in S}
           onto == [x \in S |-> f[x]]
<1>1. onto \in Surjection(S, T)
  BY DEF Surjection
<1> QED BY <1>1, FS_Surjection

(* Stored rows are finitely many, and each has the label its title gets,    *)
(* whenever it was stored.                                                  *)
PricesInv ==
  /\ TypeOK
  /\ IsFiniteSet(rows)
  /\ \A r \in rows : r.relevance = Classify(Query, r.title, ItemKind) /\ r.price # 0

(* The rows of an answer: of the row's type, of the day and the store asked,*)
(* labelled by their titles, and no two under one id.                       *)
LEMMA LabelledRows ==
  ASSUME today \in Day, NEW s \in Source, NEW answer \in Answers[today][s]
  PROVE  /\ Labelled(s, answer) \subseteq StoredRow
         /\ \A r, q \in Labelled(s, answer) : SameKey(r, q) => r = q
         /\ IsFiniteSet(Labelled(s, answer))
         /\ \A r \in Labelled(s, answer) : r.relevance = Classify(Query, r.title, ItemKind) /\ r.price # 0
<1> DEFINE row(l) == [source |-> s, id |-> l.id, day |-> today, title |-> l.title, price |-> l.price,
                      relevance |-> Classify(Query, l.title, ItemKind)]
<1>1. /\ Query \in Seq(Word)
      /\ \A l \in answer : l.price \in Nat \ {0} /\ l.title \in Seq(Word)
      /\ IsFiniteSet(answer)
      /\ \A l, m \in answer : l.id = m.id => l = m
  BY PricesAssumption
<1>2. Labelled(s, answer) = {row(l) : l \in answer}
  BY DEF Labelled
<1>3. \A l \in answer : l.id \in Id
  BY DEF Id
<1>4. ASSUME NEW l \in answer
      PROVE  row(l) \in StoredRow
  BY <1>1, <1>3, ClassifyIsLabel DEF StoredRow
<1>5. \A r, q \in Labelled(s, answer) : SameKey(r, q) => r = q
  BY <1>1, <1>2 DEF SameKey
<1>6. IsFiniteSet(Labelled(s, answer))
  <2> DEFINE rowOf == [l \in answer |-> row(l)]
  <2>1. {rowOf[l] : l \in answer} = Labelled(s, answer)
    BY <1>2
  <2>2. DOMAIN rowOf = answer
    OBVIOUS
  <2> HIDE DEF rowOf
  <2> QED BY <1>1, <2>1, <2>2, FiniteImage
<1>7. \A r \in Labelled(s, answer) : r.relevance = Classify(Query, r.title, ItemKind) /\ r.price # 0
  BY <1>1, <1>2
<1>8. Labelled(s, answer) \subseteq StoredRow
  <2> HIDE DEF row
  <2> QED BY <1>2, <1>4
<1> QED BY <1>5, <1>6, <1>7, <1>8

(* Nothing is stored at the start. *)
LEMMA PricesInit == Init => PricesInv
<1> SUFFICES ASSUME Init PROVE PricesInv
  OBVIOUS
<1>1. TypeOK
  BY PricesAssumption DEF Init, TypeOK, Day
<1> QED BY <1>1, FS_EmptySet DEF Init, PricesInv

(* Answers add rows of the day and the next day adds none. *)
LEMMA PricesStep == PricesInv /\ [Next]_vars => PricesInv'
<1> SUFFICES ASSUME PricesInv, [Next]_vars PROVE PricesInv'
  OBVIOUS
<1> USE DEF PricesInv
<1>1. ASSUME NEW s \in Source, StoreAnswers(s) PROVE PricesInv'
  <2>1. PICK answer \in Answers[today][s] :
          rows' = rows \cup {r \in Labelled(s, answer) : \A q \in rows : ~SameKey(r, q)}
    BY <1>1 DEF StoreAnswers
  <2>2. today' = today /\ today \in Day
    BY <1>1 DEF StoreAnswers, TypeOK
  <2> DEFINE new == {r \in Labelled(s, answer) : \A q \in rows : ~SameKey(r, q)}
  <2>3. new \subseteq Labelled(s, answer)
    OBVIOUS
  <2>4. \A r \in rows, q \in new : ~SameKey(r, q) /\ ~SameKey(q, r)
    BY DEF SameKey
  <2>5. rows' = rows \cup new
    BY <2>1
  <2> HIDE DEF new
  <2>6. IsFiniteSet(rows')
    BY <2>2, <2>3, <2>5, LabelledRows, FS_Subset, FS_Union
  <2>7. \A r, q \in rows' : SameKey(r, q) => r = q
    BY <2>2, <2>3, <2>4, <2>5, LabelledRows DEF TypeOK
  <2>8. rows' \subseteq StoredRow
    BY <2>2, <2>3, <2>5, LabelledRows DEF TypeOK
  <2>9. TypeOK'
    BY <2>2, <2>7, <2>8 DEF TypeOK, SameKey
  <2> QED BY <2>2, <2>3, <2>5, <2>6, <2>9, LabelledRows
<1>2. CASE NextDay
  <2>1. today' \in Day
    BY <1>2, PricesAssumption DEF NextDay, TypeOK, Day
  <2>2. rows' = rows
    BY <1>2 DEF NextDay
  <2> QED BY <2>1, <2>2 DEF TypeOK, SameKey
<1>3. CASE UNCHANGED vars
  BY <1>3 DEF vars, TypeOK, SameKey
<1> QED BY <1>1, <1>2, <1>3 DEF Next

(* The invariant holds throughout. *)
LEMMA PricesInvariant == Spec => []PricesInv
BY PricesInit, PricesStep, PTL DEF Spec

(* Whatever the stores answer, and however often they are asked, the table  *)
(* holds one row for each store, listing and day, with a price and a label. *)
THEOREM PricesAreTyped == Spec => []TypeOK
<1>1. PricesInv => TypeOK
  BY DEF PricesInv
<1> QED BY <1>1, PricesInvariant, PTL

(* Of any stored listing, classify's label for a phone item never stands    *)
(* above the one for a part item.                                           *)
THEOREM PhonesAreStricter == Spec => []PhoneIsStricter
<1>1. PricesInv => PhoneIsStricter
  <2>1. Query \in Seq(Word)
    BY PricesAssumption
  <2> QED BY <2>1, PhoneStandsLower DEF PhoneIsStricter
<1> QED BY <1>1, PricesInvariant, PTL

-----------------------------------------------------------------------------
(* The rows a page gets of a day are finitely many, each one of the stored  *)
(* rows of that day, which has the same store, price and label.             *)
LEMMA RowsOfADay ==
  ASSUME PricesInv, NEW day
  PROVE  /\ IsFiniteSet(RowsOf(day)) /\ Priced(RowsOf(day)) /\ \A row \in RowsOf(day) : row.price # 0
         /\ \A row \in RowsOf(day) : \E r \in rows :
              /\ r.day = day /\ r.source = row.source /\ r.price = row.price
              /\ r.relevance = row.relevance /\ LabelTier(r.title) = row.tier
<1> DEFINE ofDay == {q \in rows : q.day = day}
           seen(r) == [source |-> r.source, tier |-> LabelTier(r.title), price |-> r.price, relevance |-> r.relevance]
           read == {seen(r) : r \in ofDay}
<1>1. RowsOf(day) \subseteq read
  BY DEF RowsOf, Relevant
<1>2. IsFiniteSet(read)
  <2> DEFINE see == [r \in ofDay |-> seen(r)]
  <2>1. {see[r] : r \in ofDay} = read /\ DOMAIN see = ofDay
    OBVIOUS
  <2>2. IsFiniteSet(ofDay)
    BY FS_Subset DEF PricesInv
  <2> HIDE DEF see, ofDay, read
  <2> QED BY <2>1, <2>2, FiniteImage
<1>3. \A r \in rows : r.price \in Nat \ {0}
  BY DEF PricesInv, TypeOK, StoredRow
<1>4. \A row \in read : row.price \in Nat \ {0}
  BY <1>3
<1>5. \A row \in read : \E r \in rows :
              /\ r.day = day /\ r.source = row.source /\ r.price = row.price
              /\ r.relevance = row.relevance /\ LabelTier(r.title) = row.tier
  OBVIOUS
<1> HIDE DEF read
<1> QED BY <1>1, <1>2, <1>4, <1>5, FS_Subset DEF Priced

(* An analysis of a day's rows is the flagged list of some of them, which   *)
(* are of the tier, at least one, sorted by price.                          *)
LEMMA AnalysisOfRows ==
  ASSUME PricesInv, NEW day, NEW tier, NEW offers \in AnalyzeTier(RowsOf(day), tier)
  PROVE  \E kept \in SUBSET RowsOf(day) :
           /\ kept # {} /\ IsFiniteSet(kept) /\ Priced(kept)
           /\ \A row \in kept : row.tier = tier
           /\ offers = FlagOutliers(ByPrice(kept))
<1>1. PICK kept \in PerStore(RowsOf(day), tier) \ {{}} : offers = FlagOutliers(ByPrice(kept))
  BY DEF AnalyzeTier
<1>2. kept # {} /\ kept \subseteq RowsOf(day) /\ \A row \in kept : row.tier = tier
  BY <1>1 DEF PerStore, CheapestRows
<1>3. IsFiniteSet(kept) /\ Priced(kept)
  BY <1>2, RowsOfADay, FS_Subset DEF Priced
<1> QED BY <1>1, <1>2, <1>3

(* On no day does a page show, or the report take, a group of offers that   *)
(* are all flagged: render_tier always finds one.                           *)
THEOREM NoGroupIsAllOutliers == Spec => []NeverAllOutliers
<1>1. PricesInv => NeverAllOutliers
  <2> SUFFICES ASSUME PricesInv, NEW tier, NEW offers \in Shown(tier)
               PROVE  \E n \in DOMAIN offers : ~offers[n].outlier
    BY DEF NeverAllOutliers, Analyses
  <2>1. PICK kept \in SUBSET RowsOf(LatestDay) :
          kept # {} /\ IsFiniteSet(kept) /\ Priced(kept) /\ offers = FlagOutliers(ByPrice(kept))
    BY AnalysisOfRows DEF Shown
  <2>2. /\ ByPrice(kept) \in Seq(kept) /\ Len(ByPrice(kept)) = Cardinality(kept)
        /\ CheapestFirst(ByPrice(kept))
    BY <2>1, ByPriceSorts
  <2>3. ByPrice(kept) # <<>>
    BY <2>1, <2>2, FS_EmptySet
  <2> QED BY <2>1, <2>2, <2>3, GroupKeepsAnOffer
<1> QED BY <1>1, PricesInvariant, PTL

(* What margins_for takes of a tier, if anything, is an unflagged offer     *)
(* whose label is "match".                                                  *)
LEMMA BestIsTrustworthy ==
  ASSUME NEW offers, DOMAIN offers \subseteq Nat, Trustworthy(offers) # {}
  PROVE  \E n \in Trustworthy(offers) : Best(offers) = offers[n]
<1>1. Trustworthy(offers) \in SUBSET Nat
  BY DEF Trustworthy
<1>2. \E n \in Trustworthy(offers) : \A m \in Trustworthy(offers) : n <= m
  BY <1>1, Smallest
<1> QED BY <1>2 DEF Best

(* A margin is reckoned with a part that a store really offers on the day   *)
(* shown, in the tier it is shown for, under a sure title, at a price that  *)
(* is not out of line with the other stores'.                               *)
THEOREM MarginsRestOnSure == Spec => []MarginRestsOnSure
<1>1. PricesInv => MarginRestsOnSure
  <2> SUFFICES ASSUME PricesInv, NEW tier, NEW offers \in Shown(tier), Trustworthy(offers) # {}
               PROVE  LET best == Best(offers)
                      IN  /\ \E r \in rows :
                               /\ r.day = LatestDay /\ r.source = best.source /\ r.price = best.price
                               /\ LabelTier(r.title) = tier /\ Sure(Query, r.title, ItemKind)
                          /\ Len(offers) >= MIN_STORES_FOR_OUTLIERS
                               => ~FarFrom(best.price, DoubleMedian(Prices(offers)))
    BY DEF MarginRestsOnSure
  <2>1. PICK kept \in SUBSET RowsOf(LatestDay) :
          /\ kept # {} /\ IsFiniteSet(kept) /\ Priced(kept)
          /\ \A row \in kept : row.tier = tier
          /\ offers = FlagOutliers(ByPrice(kept))
    BY AnalysisOfRows DEF Shown
  <2> DEFINE sorted == ByPrice(kept)
  <2>2. sorted \in Seq(kept)
    BY <2>1, ByPriceSorts
  <2> HIDE DEF sorted
  <2>3. /\ DOMAIN offers = 1..Len(sorted) /\ DOMAIN sorted = 1..Len(sorted) /\ Len(offers) = Len(sorted)
        /\ \A n \in DOMAIN offers :
             offers[n] = Offer(sorted[n], Len(sorted) >= MIN_STORES_FOR_OUTLIERS
                                            /\ FarFrom(sorted[n].price, DoubleMedian(Prices(sorted))))
    BY <2>1, <2>2 DEF FlagOutliers, sorted
  <2>4. PICK n \in Trustworthy(offers) : Best(offers) = offers[n]
    BY <2>3, BestIsTrustworthy
  <2>5. n \in DOMAIN offers /\ ~offers[n].outlier /\ offers[n].relevance = "match"
    BY <2>4 DEF Trustworthy
  <2>6. /\ offers[n].source = sorted[n].source /\ offers[n].price = sorted[n].price
        /\ offers[n].relevance = sorted[n].relevance
        /\ offers[n].outlier = (Len(sorted) >= MIN_STORES_FOR_OUTLIERS
                                  /\ FarFrom(sorted[n].price, DoubleMedian(Prices(sorted))))
    BY <2>3, <2>5 DEF Offer
  <2>7. sorted[n] \in kept /\ sorted[n] \in RowsOf(LatestDay) /\ sorted[n].tier = tier
    BY <2>1, <2>2, <2>3, <2>5
  <2>8. PICK r \in rows : /\ r.day = LatestDay /\ r.source = sorted[n].source /\ r.price = sorted[n].price
                          /\ r.relevance = sorted[n].relevance /\ LabelTier(r.title) = sorted[n].tier
    BY <2>7, RowsOfADay
  <2>9. Sure(Query, r.title, ItemKind)
    <3>1. Classify(Query, r.title, ItemKind) = "match" /\ Query \in Seq(Word)
      BY <2>5, <2>6, <2>8, PricesAssumption DEF PricesInv
    <3> QED BY <3>1, MatchIsSure
  <2>10. Prices(offers) = Prices(sorted)
    <3>1. \A k \in DOMAIN offers : offers[k].price = sorted[k].price
      BY <2>3 DEF Offer
    <3> QED BY <2>3, <3>1 DEF Prices
  <2> QED BY <2>3, <2>4, <2>5, <2>6, <2>7, <2>8, <2>9, <2>10
<1> QED BY <1>1, PricesInvariant, PTL

-----------------------------------------------------------------------------
(* The offers of an analysis: at least one, the cheapest first, each at a   *)
(* price.                                                                   *)
LEMMA OffersInOrder ==
  ASSUME PricesInv, NEW day, NEW tier, NEW offers \in AnalyzeTier(RowsOf(day), tier)
  PROVE  \E size \in Nat \ {0} :
           /\ DOMAIN offers = 1..size /\ CheapestFirst(offers)
           /\ \A n \in 1..size : offers[n].price \in Nat \ {0}
<1>1. PICK kept \in SUBSET RowsOf(day) :
        kept # {} /\ IsFiniteSet(kept) /\ Priced(kept) /\ offers = FlagOutliers(ByPrice(kept))
  BY AnalysisOfRows
<1> DEFINE sorted == ByPrice(kept)
           size == Cardinality(kept)
<1>2. sorted \in Seq(kept) /\ Len(sorted) = size /\ CheapestFirst(sorted)
  BY <1>1, ByPriceSorts
<1>3. size \in Nat \ {0}
  BY <1>1, FS_CardinalityType, FS_EmptySet
<1> HIDE DEF sorted, size
<1>4. DOMAIN sorted = 1..size /\ \A n \in 1..size : sorted[n] \in kept
  BY <1>2
<1>5. DOMAIN offers = 1..size /\ \A n \in 1..size : offers[n].price = sorted[n].price
  BY <1>1, <1>4 DEF FlagOutliers, Offer, sorted
<1>6. \A row \in kept : row.price \in Nat \ {0}
  BY <1>1, RowsOfADay DEF Priced
<1>7. CheapestFirst(offers)
  BY <1>2, <1>4, <1>5 DEF CheapestFirst
<1> QED BY <1>3, <1>4, <1>5, <1>6, <1>7

(* Whenever a page shows a fair price it is the median of the offers that   *)
(* are not flagged, whatever the stores ask and however ties were broken.   *)
THEOREM FairPricesAreMedians == Spec => []FairPriceIsMedian
<1>1. PricesInv => FairPriceIsMedian
  <2> SUFFICES ASSUME PricesInv, NEW tier, NEW offers \in Shown(tier), FairPrice(offers) # NoPrice
               PROVE  IsMedian(FairPrice(offers), offers)
    BY DEF FairPriceIsMedian, Analyses
  <2>1. offers \in AnalyzeTier(RowsOf(LatestDay), tier)
    BY DEF Shown
  <2>2. PICK size \in Nat \ {0} : /\ DOMAIN offers = 1..size /\ CheapestFirst(offers)
                                  /\ \A n \in 1..size : offers[n].price \in Nat \ {0}
    BY <2>1, OffersInOrder
  <2> QED BY <2>2, MedianIsMiddle
<1> QED BY <1>1, PricesInvariant, PTL

(* A tier that has rows on a day has an analysis. *)
LEMMA TierIsAnalyzed ==
  ASSUME PricesInv, NEW day, NEW tier \in TiersOf(day)
  PROVE  AnalyzeTier(RowsOf(day), tier) # {}
<1> DEFINE ofTier == {r \in RowsOf(day) : r.tier = tier}
           cheapest == CheapestRows(RowsOf(day), tier)
           pick(s) == CHOOSE r \in cheapest : r.source = s
           kept == {pick(s) : s \in {r.source : r \in cheapest}}
<1>1. ofTier # {} /\ Priced(ofTier)
  BY RowsOfADay DEF TiersOf, Priced
<1>2. cheapest # {}
  <2>1. PICK c \in ofTier : \A a \in ofTier : c.price <= a.price
    <3> HIDE DEF ofTier
    <3> QED BY <1>1, Cheapest
  <2>2. c \in cheapest
    BY <2>1 DEF CheapestRows
  <2> QED BY <2>2
<1> HIDE DEF cheapest
<1>3. \A s \in {r.source : r \in cheapest} : pick(s) \in cheapest /\ pick(s).source = s
  OBVIOUS
<1>4. kept \in PerStore(RowsOf(day), tier) /\ kept # {}
  <2>1. kept \subseteq cheapest /\ kept # {}
    <3>1. PICK r \in cheapest : TRUE
      BY <1>2
    <3>2. pick(r.source) \in kept
      BY <3>1
    <3>3. kept \subseteq cheapest
      BY <1>3
    <3> HIDE DEF kept
    <3> QED BY <3>2, <3>3
  <2>2. {r.source : r \in kept} = {r.source : r \in cheapest}
    BY <1>3
  <2>3. \A r, q \in kept : r.source = q.source => r = q
    BY <1>3
  <2> HIDE DEF kept
  <2> QED BY <2>1, <2>2, <2>3 DEF PerStore, cheapest
<1> HIDE DEF kept
<1> QED BY <1>4 DEF AnalyzeTier

(* A day's fair price, where there is one, is more than nothing. *)
LEMMA FairPriceOnIs ==
  ASSUME PricesInv, NEW day, NEW tier
  PROVE  FairPriceOn(tier, day) = NoPrice \/ FairPriceOn(tier, day) \in Nat \ {0}
<1>1. SUFFICES ASSUME tier \in TiersOf(day), FairPriceOn(tier, day) # NoPrice
               PROVE  FairPriceOn(tier, day) \in Nat \ {0}
  BY DEF FairPriceOn
<1>2. PICK offers \in AnalyzeTier(RowsOf(day), tier) : FairPriceOn(tier, day) = FairPrice(offers)
  BY <1>1, TierIsAnalyzed DEF FairPriceOn
<1>3. PICK size \in Nat \ {0} : /\ DOMAIN offers = 1..size /\ CheapestFirst(offers)
                                /\ \A n \in 1..size : offers[n].price \in Nat \ {0}
  BY OffersInOrder
<1>4. IsMedian(FairPrice(offers), offers)
  BY <1>1, <1>2, <1>3, MedianIsMiddle
<1>5. PICK low \in DOMAIN offers, high \in DOMAIN offers : FairPrice(offers) = offers[low].price + offers[high].price
  BY <1>4 DEF IsMedian
<1> QED BY <1>2, <1>3, <1>5

(* The days on which rows were stored are days of the calendar. *)
LEMMA StoredDaysAreDays == ASSUME PricesInv PROVE StoredDays \subseteq 0..LastDay /\ LastDay \in Nat
BY PricesAssumption DEF PricesInv, TypeOK, StoredRow, StoredDays, Day

(* The days in reach of a target, each of them, the nearest first and of    *)
(* two as near the earlier.                                                 *)
LEMMA NearestFirstIs ==
  ASSUME PricesInv, NEW target \in Int
  PROVE  LET days == NearestFirst(target)
         IN  /\ days \in Seq(InReach(target))
             /\ \A k, m \in 1..Len(days) : k < m => Nearer(target, days[k], days[m])
             /\ \A d \in InReach(target) : \E n \in 1..Len(days) : days[n] = d
<1> DEFINE reach == InReach(target)
           R == {pair \in reach \X reach : Nearer(target, pair[1], pair[2])}
           days == NearestFirst(target)
<1>1. reach \subseteq 0..LastDay /\ LastDay \in Nat
  BY StoredDaysAreDays DEF InReach
<1>2. IsFiniteSet(reach)
  <2>1. IsFiniteSet(0..LastDay)
    BY <1>1, FS_Interval
  <2> HIDE DEF reach
  <2> QED BY <1>1, <2>1, FS_Subset
<1> HIDE DEF reach
<1>3. HasFirsts(reach, R)
  <2> SUFFICES ASSUME NEW U \in SUBSET reach, U # {}
               PROVE  \E d \in U : \A e \in U \ {d} : <<d, e>> \in R
    BY DEF HasFirsts
  <2> DEFINE rank(d) == 2 * Gap(d, target) + (IF d < target THEN 0 ELSE 1)
             ranks == {rank(d) : d \in U}
  <2>1. U \subseteq Nat
    BY <1>1
  <2>2. \A d \in U : rank(d) \in Nat
    BY <2>1 DEF Gap
  <2>3. ranks \in SUBSET Nat /\ ranks # {}
    BY <2>2
  <2>4. PICK r \in ranks : \A q \in ranks : r <= q
    <3> HIDE DEF ranks
    <3> QED BY <2>3, Smallest
  <2>5. PICK d \in U : r = rank(d)
    OBVIOUS
  <2>6. \A e \in U : rank(d) <= rank(e)
    BY <2>4, <2>5
  <2>7. \A e \in U \ {d} : Nearer(target, d, e)
    BY <2>1, <2>6 DEF Nearer, Gap
  <2> QED BY <2>7
<1>4. \A a \in reach : <<a, a>> \notin R
  BY <1>1 DEF Nearer, Gap
<1>5. days = Sorted(reach, R)
  BY DEF NearestFirst, reach
<1>6. \A k, m : <<k, m>> \in R => Nearer(target, k, m)
  OBVIOUS
<1> HIDE DEF R, days
<1>7. /\ Sorts(days, reach, R, Cardinality(reach)) /\ days \in Seq(reach) /\ Len(days) = Cardinality(reach)
      /\ \A a \in reach : \E n \in 1..Cardinality(reach) : days[n] = a
  BY <1>2, <1>3, <1>4, <1>5, SortedSorts
<1>8. \A k, m \in 1..Len(days) : k < m => Nearer(target, days[k], days[m])
  BY <1>6, <1>7 DEF Sorts
<1> QED BY <1>7, <1>8 DEF reach, days

(* _nearest_fair_price finds the nearest day in reach that has a fair price *)
(* and none only if there is none.                                          *)
LEMMA NearestFairPriceIs ==
  ASSUME PricesInv, NEW target \in Int, NEW tier
  PROVE  LET priced  == {d \in InReach(target) : FairPriceOn(tier, d) # NoPrice}
             nearest == NearestFairPrice(tier, target)
         IN  /\ nearest = NoDay => priced = {}
             /\ nearest # NoDay => nearest \in priced /\ \A d \in priced : ~Nearer(target, d, nearest)
<1> DEFINE reach == InReach(target)
           days == NearestFirst(target)
           hits == {n \in DOMAIN days : FairPriceOn(tier, days[n]) # NoPrice}
           first == CHOOSE n \in hits : \A m \in hits : n <= m
           nearest == NearestFairPrice(tier, target)
<1>1. /\ days \in Seq(reach) /\ DOMAIN days = 1..Len(days) /\ Len(days) \in Nat
      /\ \A k, m \in 1..Len(days) : k < m => Nearer(target, days[k], days[m])
      /\ \A d \in reach : \E n \in 1..Len(days) : days[n] = d
  BY NearestFirstIs
<1>2. reach \subseteq Nat
  BY StoredDaysAreDays DEF InReach
<1>3. nearest = IF hits = {} THEN NoDay ELSE days[first]
  BY DEF NearestFairPrice
<1> HIDE DEF reach, days, nearest
<1>4. CASE hits = {}
  <2>1. \A d \in reach : FairPriceOn(tier, d) = NoPrice
    BY <1>1, <1>4
  <2> QED BY <1>3, <1>4, <2>1 DEF reach, nearest
<1>5. CASE hits # {}
  <2>1. hits \in SUBSET Nat
    BY <1>1
  <2>2. \E n \in hits : \A m \in hits : n <= m
    <3> HIDE DEF hits
    <3> QED BY <1>5, <2>1, Smallest
  <2>3. first \in hits /\ \A m \in hits : first <= m
    <3> HIDE DEF hits
    <3> QED BY <2>2
  <2> HIDE DEF first
  <2>4. first \in 1..Len(days) /\ days[first] \in reach /\ FairPriceOn(tier, days[first]) # NoPrice
    BY <1>1, <2>3
  <2>5. nearest = days[first] /\ nearest # NoDay
    BY <1>2, <1>3, <1>5, <2>4 DEF NoDay
  <2>6. ASSUME NEW d \in reach, FairPriceOn(tier, d) # NoPrice
        PROVE  ~Nearer(target, d, nearest)
    <3>1. PICK n \in 1..Len(days) : days[n] = d
      BY <1>1
    <3>2. first <= n
      BY <1>1, <2>3, <2>6, <3>1
    <3>3. first = n \/ Nearer(target, nearest, d)
      BY <1>1, <2>4, <2>5, <3>1, <3>2
    <3>4. d \in Nat /\ nearest \in Nat
      BY <1>2, <2>4, <2>5
    <3> QED BY <2>5, <3>1, <3>3, <3>4 DEF Nearer, Gap
  <2> QED BY <2>4, <2>5, <2>6 DEF reach, nearest
<1> QED BY <1>4, <1>5

(* The latest day is a day, or there is none. *)
LEMMA LatestIsInt == ASSUME PricesInv PROVE LatestDay \in Int
<1>1. CASE StoredDays = {}
  BY <1>1 DEF LatestDay, NoDay
<1>2. CASE StoredDays # {}
  <2>1. StoredDays \subseteq 0..LastDay /\ LastDay \in Nat
    BY StoredDaysAreDays
  <2> DEFINE left == {LastDay - d : d \in StoredDays}
  <2>2. left \in SUBSET Nat /\ left # {}
    <3>1. \A d \in StoredDays : LastDay - d \in Nat
      BY <2>1
    <3> QED BY <1>2, <3>1
  <2>3. PICK l \in left : \A m \in left : l <= m
    <3> HIDE DEF left
    <3> QED BY <2>2, Smallest
  <2>4. PICK d \in StoredDays : l = LastDay - d
    OBVIOUS
  <2>5. \A e \in StoredDays : e <= d
    BY <2>1, <2>3, <2>4
  <2>6. LatestDay \in StoredDays
    BY <1>2, <2>5 DEF LatestDay
  <2> QED BY <2>1, <2>6
<1> QED BY <1>1, <1>2

(* A trend compares with the nearest day in reach that has a fair price, if *)
(* any has, and its arrow points where the price went.                      *)
THEOREM TrendsAreNearest == Spec => []TrendIsNearest
<1>1. PricesInv => TrendIsNearest
  <2> SUFFICES ASSUME PricesInv, NEW t \in TiersOf(LatestDay), NEW w \in TREND_WINDOWS
               PROVE  LET d      == LatestDay
                          point  == TrendPoint(t, d, w)
                          priced == {e \in InReach(d - w) : FairPriceOn(t, e) # NoPrice}
                      IN  /\ point.direction # "none" =>
                               /\ point.compared \in priced
                               /\ \A e \in priced : ~Nearer(d - w, e, point.compared)
                               /\ LET change == FairPriceOn(t, d) - FairPriceOn(t, point.compared)
                                  IN  CASE point.direction = "up"   -> change > 0
                                        [] point.direction = "down" -> change < 0
                                        [] point.direction = "="    -> 100 * Gap(change, 0) < FairPriceOn(t, point.compared)
                          /\ point.direction = "none" => priced = {} \/ FairPriceOn(t, d) = NoPrice
    BY DEF TrendIsNearest
  <2> DEFINE d == LatestDay
             point == TrendPoint(t, d, w)
             target == d - w
             priced == {e \in InReach(target) : FairPriceOn(t, e) # NoPrice}
             nearest == NearestFairPrice(t, target)
             now == FairPriceOn(t, d)
             past == FairPriceOn(t, nearest)
  <2>1. target \in Int
    BY LatestIsInt, PricesAssumption
  <2>2. /\ nearest = NoDay => priced = {}
        /\ nearest # NoDay => nearest \in priced /\ \A e \in priced : ~Nearer(target, e, nearest)
    <3> HIDE DEF target
    <3> QED BY <2>1, NearestFairPriceIs
  <2>3. now = NoPrice \/ now \in Nat \ {0}
    BY FairPriceOnIs
  <2>4. point = IF now = NoPrice \/ nearest = NoDay
                THEN [compared |-> NoDay, direction |-> "none"]
                ELSE [compared |-> nearest,
                      direction |-> IF Flat(now, past) THEN "=" ELSE IF now > past THEN "up" ELSE "down"]
    BY DEF TrendPoint
  <2>5. CASE now = NoPrice \/ nearest = NoDay
    <3>1. point.direction = "none"
      BY <2>4, <2>5
    <3> HIDE DEF point, priced
    <3> QED BY <2>2, <2>5, <3>1 DEF point, priced
  <2>6. CASE now # NoPrice /\ nearest # NoDay
    <3>1. now \in Nat \ {0} /\ past \in Nat \ {0}
      <4>1. past # NoPrice
        BY <2>2, <2>6
      <4> QED BY <2>3, <2>6, <4>1, FairPriceOnIs
    <3>2. /\ point.compared = nearest
          /\ point.direction = IF Flat(now, past) THEN "=" ELSE IF now > past THEN "up" ELSE "down"
      BY <2>4, <2>6
    <3> HIDE DEF point, priced, nearest, now, past
    <3>3. CASE Flat(now, past)
      <4>1. 100 * Gap(now - past, 0) < past
        BY <3>1, <3>3 DEF Flat, Gap
      <4> QED BY <2>2, <2>6, <3>2, <3>3, <4>1 DEF point, priced, now, past
    <3>4. CASE ~Flat(now, past) /\ now > past
      <4>1. now - past > 0
        BY <3>1, <3>4
      <4> QED BY <2>2, <2>6, <3>2, <3>4, <4>1 DEF point, priced, now, past
    <3>5. CASE ~Flat(now, past) /\ ~(now > past)
      <4>1. now - past < 0
        BY <3>1, <3>5 DEF Flat, Gap
      <4> QED BY <2>2, <2>6, <3>2, <3>5, <4>1 DEF point, priced, now, past
    <3> QED BY <3>3, <3>4, <3>5
  <2> QED BY <2>5, <2>6
<1> QED BY <1>1, PricesInvariant, PTL

=============================================================================
