---------------------------- MODULE AdaptersProofs ----------------------------
(***************************************************************************)
(* What holds of the adapters whatever the store, the slugs, the budget    *)
(* and the caps are: the types, every safety invariant the run of the      *)
(* adapters checks, and the spacing of the attempts.                       *)
(*                                                                         *)
(* First the lists: what filtering and sorting them gives, by induction on *)
(* their length.  From these the order of the crawl (CandidatesAre) and    *)
(* the pages of a search (RegularGrows).  Then the inductive invariant,    *)
(* one lemma per step, and the theorems.                                   *)
(***************************************************************************)
EXTENDS Adapters, FiniteSetTheorems, WellFoundedInduction, TLAPS

(* Induction over the naturals, for a set instead of a formula. *)
Inductive(S) == 0 \in S /\ \A n \in Nat : n \in S => n + 1 \in S

(* An inductive set holds every natural number: otherwise the smallest one *)
(* it misses is neither 0 nor the successor of one it holds.               *)
LEMMA AllNaturals ==
  ASSUME NEW S, Inductive(S)
  PROVE  Nat \subseteq S
<1>1. SUFFICES ASSUME Nat \ S # {} PROVE FALSE
  OBVIOUS
<1>2. PICK n \in Nat \ S : \A m \in Nat \ S : ~ (<<m, n>> \in OpToRel(<, Nat))
  BY <1>1, WFMin, NatLessThanWellFounded, Zenon
<1>n. n \in Nat /\ n \notin S
  BY <1>2, Zenon
<1>3. 0 \in S
  BY DEF Inductive
<1>4. n # 0 /\ n - 1 \in Nat
  BY <1>n, <1>3
<1>5. n - 1 \in S
  <2> SUFFICES ASSUME n - 1 \notin S PROVE FALSE
    OBVIOUS
  <2>1. ~ (n - 1 < n)
    BY <1>2, <1>n, <1>4 DEF OpToRel
  <2> QED BY <2>1, <1>4
<1>6. (n - 1) + 1 \in S
  BY <1>4, <1>5 DEF Inductive
<1> QED BY <1>n, <1>4, <1>6

(* kept is the function by which Kept filters the first N of the list. *)
KeptTo(list, S, kept, N) ==
  kept = [n \in 0..N |->
            IF n = 0 THEN <<>>
            ELSE IF list[n] \in S THEN Append(kept[n - 1], list[n])
            ELSE kept[n - 1]]

(* The function by which Kept filters a list exists, for lists of any length. *)
LEMMA KeptToExists ==
  ASSUME NEW list, NEW S, NEW N \in Nat
  PROVE  \E kept : KeptTo(list, S, kept, N)
<1> DEFINE Good == {n \in Nat : \E kept : KeptTo(list, S, kept, n)}
<1>1. 0 \in Good
  <2> DEFINE k == [n \in 0..0 |-> <<>>]
  <2>1. KeptTo(list, S, k, 0)
    BY DEF KeptTo
  <2> QED BY <2>1
<1>2. ASSUME NEW n \in Nat, n \in Good PROVE n + 1 \in Good
  <2>1. PICK k : KeptTo(list, S, k, n)
    BY <1>2
  <2> DEFINE l == [m \in 0..n + 1 |->
                     IF m <= n THEN k[m]
                     ELSE IF list[m] \in S THEN Append(k[n], list[m]) ELSE k[n]]
  <2>2. \A m \in 0..n : l[m] = k[m]
    OBVIOUS
  <2>3. \A m \in 0..n + 1 : l[m] = IF m = 0 THEN <<>>
            ELSE IF list[m] \in S THEN Append(l[m - 1], list[m])
            ELSE l[m - 1]
    <3> TAKE m \in 0..n + 1
    <3>1. CASE m = n + 1
      BY <3>1, <2>2, n \in 0..n + 1, n \in 0..n, m - 1 = n, m # 0, ~(m <= n)
    <3>2. CASE m \in 0..n
      <4>1. k[m] = IF m = 0 THEN <<>>
            ELSE IF list[m] \in S THEN Append(k[m - 1], list[m])
            ELSE k[m - 1]
        BY <3>2, <2>1 DEF KeptTo
      <4>2. m # 0 => l[m - 1] = k[m - 1]
        BY <3>2, <2>2
      <4> HIDE DEF l
      <4> QED BY <3>2, <4>1, <4>2, <2>2
    <3> QED BY <3>1, <3>2
  <2>4. KeptTo(list, S, l, n + 1)
    BY <2>3 DEF KeptTo
  <2> QED BY <2>4
<1> HIDE DEF Good
<1>3. Nat \subseteq Good
  BY <1>1, <1>2, AllNaturals DEF Inductive
<1> QED BY <1>3 DEF Good

(* Kept is the last value of that function. *)
LEMMA KeptIs ==
  ASSUME NEW list, NEW S, Len(list) \in Nat
  PROVE  \E kept : KeptTo(list, S, kept, Len(list)) /\ Kept(list, S) = kept[Len(list)]
<1> DEFINE Is(kept) == kept = [n \in 0..Len(list) |->
            IF n = 0 THEN <<>>
            ELSE IF list[n] \in S THEN Append(kept[n - 1], list[n])
            ELSE kept[n - 1]]
<1>0. PICK k : KeptTo(list, S, k, Len(list))
  BY KeptToExists, Zenon
<1>1. Is(k)
  BY <1>0 DEF KeptTo
<1>2. Is(CHOOSE kept : Is(kept))
  BY <1>1, Zenon
<1>3. Kept(list, S) = (CHOOSE kept : Is(kept))[Len(list)]
  BY Zenon DEF Kept
<1> QED BY <1>2, <1>3, Zenon DEF KeptTo

(* out is what the first N of the list have in S, and f says where it was. *)
Picks(list, S, out, f, N) ==
  /\ Len(out) \in 0..N
  /\ f \in [1..Len(out) -> 1..N]
  /\ \A n \in 1..Len(out) : out[n] = list[f[n]] /\ out[n] \in S
  /\ \A m, n \in 1..Len(out) : m < n => f[m] < f[n]
  /\ \A m \in 1..N : list[m] \in S => \E n \in 1..Len(out) : f[n] = m

(* Kept picks the members of S, all of them and in order. *)
LEMMA KeptPicks ==
  ASSUME NEW T, NEW list \in Seq(T), NEW S
  PROVE  /\ Kept(list, S) \in Seq(T \cap S)
         /\ \E f : Picks(list, S, Kept(list, S), f, Len(list))
<1>1. PICK k : KeptTo(list, S, k, Len(list)) /\ Kept(list, S) = k[Len(list)]
  BY KeptIs
<1> DEFINE Good == {n \in Nat : n <= Len(list) =>
                      k[n] \in Seq(T \cap S) /\ \E f : Picks(list, S, k[n], f, n)}
<1>2. 0 \in Good
  <2>1. k[0] = <<>>
    BY <1>1 DEF KeptTo
  <2>2. Picks(list, S, <<>>, <<>>, 0)
    BY DEF Picks
  <2>3. <<>> \in Seq(T \cap S)
    OBVIOUS
  <2>4. k[0] \in Seq(T \cap S) /\ \E f : Picks(list, S, k[0], f, 0)
    BY <2>1, <2>2, <2>3, Zenon
  <2> QED BY <2>4
<1>3. ASSUME NEW n \in Nat, n \in Good PROVE n + 1 \in Good
  <2> SUFFICES ASSUME n + 1 <= Len(list)
               PROVE  k[n + 1] \in Seq(T \cap S) /\ \E f : Picks(list, S, k[n + 1], f, n + 1)
    OBVIOUS
  <2>1. k[n] \in Seq(T \cap S) /\ \E f : Picks(list, S, k[n], f, n)
    BY <1>3
  <2>2. PICK f : Picks(list, S, k[n], f, n)
    BY <2>1
  <2>3. k[n + 1] = IF list[n + 1] \in S THEN Append(k[n], list[n + 1]) ELSE k[n]
    <3>1. n + 1 \in 0..Len(list) /\ n + 1 # 0 /\ (n + 1) - 1 = n
      OBVIOUS
    <3>2. k[n + 1] = IF n + 1 = 0 THEN <<>>
                     ELSE IF list[n + 1] \in S THEN Append(k[(n + 1) - 1], list[n + 1])
                     ELSE k[(n + 1) - 1]
      BY <1>1, <3>1, Zenon DEF KeptTo
    <3> QED BY <3>1, <3>2
  <2>4. CASE list[n + 1] \in S
    <3> DEFINE g == [m \in 1..Len(k[n]) + 1 |-> IF m <= Len(k[n]) THEN f[m] ELSE n + 1]
    <3>1. list[n + 1] \in T
      OBVIOUS
    <3>2. k[n + 1] \in Seq(T \cap S) /\ Len(k[n + 1]) = Len(k[n]) + 1
      BY <2>1, <2>3, <2>4, <3>1
    <3>3. \A m \in 1..Len(k[n]) : k[n + 1][m] = k[n][m]
      BY <2>1, <2>3, <2>4, <3>1
    <3>4. k[n + 1][Len(k[n]) + 1] = list[n + 1]
      BY <2>1, <2>3, <2>4, <3>1
    <3> DEFINE L == Len(k[n])
    <3>L. L \in Nat /\ L <= n
      BY <2>1, <2>2 DEF Picks
    <3>5. Len(k[n + 1]) \in 0..n + 1
      BY <2>2, <3>2 DEF Picks
    <3>6. g \in [1..Len(k[n + 1]) -> 1..n + 1]
      BY <2>2, <3>2, <3>L DEF Picks
    <3>7. \A m \in 1..Len(k[n + 1]) : k[n + 1][m] = list[g[m]] /\ k[n + 1][m] \in S
      <4> TAKE m \in 1..Len(k[n + 1])
      <4>1. CASE m \in 1..L
        BY <4>1, <2>2, <3>3, <3>2, <3>L DEF Picks
      <4>2. CASE m = L + 1
        BY <4>2, <2>4, <3>4, <3>2, <3>L
      <4> QED BY <4>1, <4>2, <3>2, <3>L
    <3>8. \A l, m \in 1..Len(k[n + 1]) : l < m => g[l] < g[m]
      <4> TAKE l, m \in 1..Len(k[n + 1])
      <4> HAVE l < m
      <4>1. CASE m \in 1..L
        BY <4>1, <2>2, <3>2, <3>L DEF Picks
      <4>2. CASE m = L + 1
        <5>1. l \in 1..L /\ f[l] \in 1..n
          BY <4>2, <2>2, <3>2, <3>L DEF Picks
        <5> QED BY <5>1, <4>2, <3>2, <3>L
      <4> QED BY <4>1, <4>2, <3>2, <3>L
    <3>9. \A m \in 1..n + 1 : list[m] \in S => \E l \in 1..Len(k[n + 1]) : g[l] = m
      <4> SUFFICES ASSUME NEW m \in 1..n + 1, list[m] \in S
                   PROVE  \E l \in 1..Len(k[n + 1]) : g[l] = m
        OBVIOUS
      <4>1. CASE m = n + 1
        <5>1. L + 1 \in 1..Len(k[n + 1]) /\ g[L + 1] = m
          BY <4>1, <3>2, <3>L
        <5> QED BY <5>1
      <4>2. CASE m \in 1..n
        <5>1. PICK l \in 1..L : f[l] = m
          BY <4>2, <2>2 DEF Picks
        <5>2. l \in 1..Len(k[n + 1]) /\ g[l] = m
          BY <5>1, <3>2, <3>L
        <5> QED BY <5>2
      <4> QED BY <4>1, <4>2
    <3> HIDE DEF g, L
    <3>10. Picks(list, S, k[n + 1], g, n + 1)
      BY <3>5, <3>6, <3>7, <3>8, <3>9 DEF Picks
    <3> QED BY <3>2, <3>10
  <2>5. CASE list[n + 1] \notin S
    <3>1. Picks(list, S, k[n], f, n + 1)
      BY <2>2, <2>5 DEF Picks
    <3> QED BY <3>1, <2>1, <2>3, <2>5
  <2> QED BY <2>4, <2>5
<1> HIDE DEF Good
<1>4. Nat \subseteq Good
  BY <1>2, <1>3, AllNaturals DEF Inductive
<1>5. Len(list) \in Good
  BY <1>4
<1> QED BY <1>1, <1>5 DEF Good

-----------------------------------------------------------------------------
(* R holds the pairs of U in order, and any two are. *)
StrictOrder(R, U) ==
  /\ \A a \in U : <<a, a>> \notin R
  /\ \A a, b \in U : a # b => <<a, b>> \in R \/ <<b, a>> \in R
  /\ \A a, b, c \in U : <<a, b>> \in R /\ <<b, c>> \in R => <<a, c>> \in R

(* The list is in the order R. *)
Ascending(list, R) == \A m, n \in 1..Len(list) : m < n => <<list[m], list[n]>> \in R

(* A finite set that is not empty has a last member. *)
LEMMA Greatest ==
  ASSUME NEW U, NEW R, StrictOrder(R, U), NEW S \in SUBSET U, IsFiniteSet(S), S # {}
  PROVE  \E g \in S : \A a \in S \ {g} : <<a, g>> \in R
<1> DEFINE Last(T, g) == g \in T /\ \A a \in T \ {g} : <<a, g>> \in R
           Good == {n \in Nat : \A T \in SUBSET U :
                      IsFiniteSet(T) /\ Cardinality(T) = n + 1 => \E g : Last(T, g)}
<1>1. 0 \in Good
  <2> SUFFICES ASSUME NEW T \in SUBSET U, IsFiniteSet(T), Cardinality(T) = 1
               PROVE  \E g : Last(T, g)
    OBVIOUS
  <2>1. PICK g : T = {g}
    BY FS_Singleton
  <2>2. Last(T, g)
    BY <2>1
  <2> QED BY <2>2
<1>2. ASSUME NEW n \in Nat, n \in Good PROVE n + 1 \in Good
  <2> SUFFICES ASSUME NEW T \in SUBSET U, IsFiniteSet(T), Cardinality(T) = (n + 1) + 1
               PROVE  \E g : Last(T, g)
    OBVIOUS
  <2>1. PICK x : x \in T
    BY FS_EmptySet
  <2>2. IsFiniteSet(T \ {x}) /\ Cardinality(T \ {x}) = n + 1
    BY <2>1, FS_RemoveElement
  <2>3. PICK g : Last(T \ {x}, g)
    BY <1>2, <2>2
  <2>4. CASE <<g, x>> \in R
    <3>1. Last(T, x)
      BY <2>1, <2>3, <2>4 DEF StrictOrder
    <3> QED BY <3>1
  <2>5. CASE <<x, g>> \in R
    <3>1. Last(T, g)
      BY <2>1, <2>3, <2>5 DEF StrictOrder
    <3> QED BY <3>1
  <2> QED BY <2>1, <2>3, <2>4, <2>5 DEF StrictOrder
<1> HIDE DEF Good
<1>3. Nat \subseteq Good
  BY <1>1, <1>2, AllNaturals DEF Inductive
<1>4. Cardinality(S) \in Nat /\ Cardinality(S) # 0
  BY FS_CardinalityType, FS_EmptySet
<1>5. Cardinality(S) - 1 \in Good /\ (Cardinality(S) - 1) + 1 = Cardinality(S)
  BY <1>3, <1>4
<1> QED BY <1>5 DEF Good

(* A finite set can be sorted. *)
LEMMA SortedExists ==
  ASSUME NEW U, NEW R, StrictOrder(R, U), NEW S \in SUBSET U, IsFiniteSet(S)
  PROVE  \E list \in [1..Cardinality(S) -> S] :
           \A m, n \in DOMAIN list : m < n => <<list[m], list[n]>> \in R
<1> DEFINE Sorts(list, T, n) ==
             /\ list \in [1..n -> T]
             /\ \A k, m \in 1..n : k < m => <<list[k], list[m]>> \in R
           Good == {n \in Nat : \A T \in SUBSET U :
                      IsFiniteSet(T) /\ Cardinality(T) = n => \E list : Sorts(list, T, n)}
<1>1. 0 \in Good
  <2> SUFFICES ASSUME NEW T \in SUBSET U, IsFiniteSet(T), Cardinality(T) = 0
               PROVE  \E list : Sorts(list, T, 0)
    OBVIOUS
  <2>1. Sorts([k \in 1..0 |-> k], T, 0)
    OBVIOUS
  <2> QED BY <2>1
<1>2. ASSUME NEW n \in Nat, n \in Good PROVE n + 1 \in Good
  <2> SUFFICES ASSUME NEW T \in SUBSET U, IsFiniteSet(T), Cardinality(T) = n + 1
               PROVE  \E list : Sorts(list, T, n + 1)
    OBVIOUS
  <2>1. T # {}
    BY FS_EmptySet
  <2>2. PICK g \in T : \A a \in T \ {g} : <<a, g>> \in R
    BY <2>1, Greatest
  <2>3. IsFiniteSet(T \ {g}) /\ Cardinality(T \ {g}) = n
    <3>1. IsFiniteSet(T \ {g}) /\ Cardinality(T \ {g}) = Cardinality(T) - 1
      BY FS_RemoveElement
    <3> QED BY <3>1
  <2>4. PICK list : Sorts(list, T \ {g}, n)
    BY <1>2, <2>3
  <2>5. Sorts([k \in 1..n + 1 |-> IF k <= n THEN list[k] ELSE g], T, n + 1)
    BY <2>2, <2>4
  <2> QED BY <2>5
<1> HIDE DEF Good
<1>3. Nat \subseteq Good
  BY <1>1, <1>2, AllNaturals DEF Inductive
<1>4. Cardinality(S) \in Good
  BY <1>3, FS_CardinalityType
<1>5. PICK list : Sorts(list, S, Cardinality(S))
  BY <1>4 DEF Good
<1> QED BY <1>5

(* Sorted lists the members of a finite set, in order. *)
LEMMA SortedSorts ==
  ASSUME NEW U, NEW R, StrictOrder(R, U), NEW S \in SUBSET U, IsFiniteSet(S)
  PROVE  /\ Sorted(S, R) \in Seq(S)
         /\ Ascending(Sorted(S, R), R)
         /\ \A a \in S : \E n \in 1..Len(Sorted(S, R)) : Sorted(S, R)[n] = a
<1> DEFINE N == Cardinality(S)
           list == Sorted(S, R)
<1>1. N \in Nat
  BY FS_CardinalityType
<1>2. list \in [1..N -> S] /\ \A m, n \in 1..N : m < n => <<list[m], list[n]>> \in R
  <2> DEFINE Is(l) == \A m, n \in DOMAIN l : m < n => <<l[m], l[n]>> \in R
  <2>1. \E l \in [1..N -> S] : Is(l)
    BY SortedExists, Zenon
  <2>2. list = CHOOSE l \in [1..N -> S] : Is(l)
    BY Zenon DEF Sorted
  <2>3. list \in [1..N -> S] /\ Is(list)
    BY <2>1, <2>2, Zenon
  <2> HIDE DEF list
  <2> QED BY <2>3
<1> HIDE DEF list, N
<1>3. list \in Seq(S) /\ Len(list) = N
  BY <1>1, <1>2
<1>4. Ascending(list, R)
  BY <1>2, <1>3 DEF Ascending
<1> DEFINE seen == {list[n] : n \in 1..N}
<1>5. list \in Bijection(1..N, seen)
  <2>1. list \in [1..N -> seen]
    BY <1>2
  <2>2. \A m, n \in 1..N : list[m] = list[n] => m = n
    <3> SUFFICES ASSUME NEW m \in 1..N, NEW n \in 1..N, list[m] = list[n], m # n PROVE FALSE
      OBVIOUS
    <3>1. m < n \/ n < m
      BY <1>1
    <3>2. list[m] \in U /\ <<list[m], list[m]>> \notin R
      BY <1>2 DEF StrictOrder
    <3> QED BY <1>2, <3>1, <3>2
  <2> QED BY <2>1, <2>2 DEF Bijection, Injection, Surjection, IsInjective
<1>6. Cardinality(seen) = N
  <2> HIDE DEF seen
  <2>1. ExistsBijection(1..N, seen)
    BY <1>5 DEF ExistsBijection
  <2>2. IsFiniteSet(1..N) /\ Cardinality(1..N) = N
    BY <1>1, FS_Interval
  <2> QED BY <2>1, <2>2, FS_Bijection
<1>7. seen = S
  BY <1>2, <1>6, FS_Subset DEF N
<1> QED BY <1>3, <1>4, <1>7 DEF list

-----------------------------------------------------------------------------
(* The list holds the members of F, and nothing else. *)
Holds(list, F) ==
  /\ list \in Seq(F)
  /\ \A c \in F : \E n \in 1..Len(list) : list[n] = c

(* A sorted list stays sorted when it is filtered. *)
LEMMA KeptHolds ==
  ASSUME NEW F, NEW R, NEW S, NEW list, Holds(list, F), Ascending(list, R)
  PROVE  Holds(Kept(list, S), F \cap S) /\ Ascending(Kept(list, S), R)
<1> DEFINE out == Kept(list, S)
<1>1. list \in Seq(F)
  BY DEF Holds
<1>2. out \in Seq(F \cap S) /\ \E f : Picks(list, S, out, f, Len(list))
  BY <1>1, KeptPicks
<1>3. PICK f : Picks(list, S, out, f, Len(list))
  BY <1>2
<1> HIDE DEF out
<1>4. ASSUME NEW c \in F \cap S PROVE \E n \in 1..Len(out) : out[n] = c
  <2>1. PICK m \in 1..Len(list) : list[m] = c
    BY DEF Holds
  <2>2. PICK n \in 1..Len(out) : f[n] = m
    BY <2>1, <1>3 DEF Picks
  <2> QED BY <2>1, <2>2, <1>3 DEF Picks
<1>5. Ascending(out, R)
  <2> SUFFICES ASSUME NEW m \in 1..Len(out), NEW n \in 1..Len(out), m < n
               PROVE  <<out[m], out[n]>> \in R
    BY DEF Ascending
  <2>1. f[m] \in 1..Len(list) /\ f[n] \in 1..Len(list) /\ f[m] < f[n]
    BY <1>3 DEF Picks
  <2>2. out[m] = list[f[m]] /\ out[n] = list[f[n]]
    BY <1>3 DEF Picks
  <2> QED BY <2>1, <2>2 DEF Ascending
<1> QED BY <1>2, <1>4, <1>5 DEF Holds, out

(* Two sorted lists, the members of the first before those of the second, *)
(* make one.                                                              *)
LEMMA JoinHolds ==
  ASSUME NEW A, NEW B, NEW R, NEW p, NEW q,
         Holds(p, A), Holds(q, B), Ascending(p, R), Ascending(q, R),
         \A a \in A, b \in B : <<a, b>> \in R
  PROVE  Holds(p \o q, A \cup B) /\ Ascending(p \o q, R)
<1>1. p \in Seq(A) /\ q \in Seq(B) /\ Len(p) \in Nat /\ Len(q) \in Nat
  BY DEF Holds
<1>2. p \o q \in Seq(A \cup B) /\ Len(p \o q) = Len(p) + Len(q)
  BY <1>1
<1>3. \A n \in 1..Len(p) : (p \o q)[n] = p[n] /\ p[n] \in A
  BY <1>1
<1>4. \A n \in 1..Len(q) : (p \o q)[Len(p) + n] = q[n] /\ q[n] \in B
  BY <1>1
<1> DEFINE r == p \o q
<1> HIDE DEF r
<1>5. ASSUME NEW c \in A \cup B PROVE \E n \in 1..Len(r) : r[n] = c
  <2>1. CASE c \in A
    <3>1. PICK n \in 1..Len(p) : p[n] = c
      BY <2>1 DEF Holds
    <3> QED BY <3>1, <1>1, <1>2, <1>3 DEF r
  <2>2. CASE c \in B
    <3>1. PICK n \in 1..Len(q) : q[n] = c
      BY <2>2 DEF Holds
    <3>2. Len(p) + n \in 1..Len(r) /\ r[Len(p) + n] = c
      BY <3>1, <1>1, <1>2, <1>4 DEF r
    <3> QED BY <3>2
  <2> QED BY <2>1, <2>2
<1>6. Ascending(r, R)
  <2> SUFFICES ASSUME NEW m \in 1..Len(r), NEW n \in 1..Len(r), m < n
               PROVE  <<r[m], r[n]>> \in R
    BY DEF Ascending
  <2>0. \A k \in 1..Len(r) : k \in 1..Len(p) \/ (k - Len(p) \in 1..Len(q) /\ k = Len(p) + (k - Len(p)))
    BY <1>1, <1>2 DEF r
  <2>1. CASE n \in 1..Len(p)
    <3>1. m \in 1..Len(p)
      BY <2>1
    <3> QED BY <2>1, <3>1, <1>3 DEF Ascending, r
  <2>2. CASE n - Len(p) \in 1..Len(q)
    <3>1. r[n] = q[n - Len(p)] /\ r[n] \in B
      BY <2>2, <1>1, <1>4, n = Len(p) + (n - Len(p)) DEF r
    <3>2. CASE m \in 1..Len(p)
      BY <3>1, <3>2, <1>3 DEF r
    <3>3. CASE m - Len(p) \in 1..Len(q)
      <4>1. r[m] = q[m - Len(p)]
        BY <3>3, <1>1, <1>4, m = Len(p) + (m - Len(p)) DEF r
      <4>2. m - Len(p) < n - Len(p)
        BY <1>1
      <4> QED BY <2>2, <3>1, <3>3, <4>1, <4>2 DEF Ascending
    <3> QED BY <2>0, <3>2, <3>3
  <2> QED BY <2>0, <2>1, <2>2
<1> QED BY <1>2, <1>5, <1>6 DEF Holds, r

-----------------------------------------------------------------------------
(* The number of slugs configured. *)
Slugs == Len(PriorityCategories)

(* A set of numbers that is not empty has a least one. *)
LEMMA LeastOf ==
  ASSUME NEW S \in SUBSET Nat, S # {}
  PROVE  \E n \in S : \A m \in S : n <= m
<1>1. PICK n \in S : \A m \in S : ~ (<<m, n>> \in OpToRel(<, Nat))
  BY WFMin, NatLessThanWellFounded, Zenon
<1>2. \A m \in S : n <= m
  <2> TAKE m \in S
  <2>1. ~ (m < n)
    BY <1>1 DEF OpToRel
  <2>2. n \in S
    BY <1>1, Zenon
  <2> QED BY <2>1, <2>2
<1>3. n \in S
  BY <1>1, Zenon
<1> QED BY <1>2, <1>3

(* The rank of a category is the place of the first slug that matches it. *)
LEMMA RankIs ==
  ASSUME NEW c \in Category
  PROVE  /\ Rank(c) \in 1..Slugs + 1
         /\ Rank(c) <= Slugs => Matches(PriorityCategories[Rank(c)], c)
         /\ \A n \in 1..Slugs : Matches(PriorityCategories[n], c) => Rank(c) <= n
<1> DEFINE slugs == {n \in DOMAIN PriorityCategories : Matches(PriorityCategories[n], c)}
<1>1. Slugs \in Nat /\ slugs \subseteq 1..Slugs
  BY CrawlAssumption DEF Slugs
<1>2. CASE slugs = {}
  <2>1. Rank(c) = Slugs + 1
    BY <1>2 DEF Rank, Slugs
  <2>2. \A n \in 1..Slugs : ~Matches(PriorityCategories[n], c)
    BY <1>2, CrawlAssumption DEF Slugs
  <2> QED BY <1>1, <2>1, <2>2
<1>3. CASE slugs # {}
  <2>1. \E n \in slugs : \A m \in slugs : n <= m
    <3>1. slugs \in SUBSET Nat
      BY <1>1
    <3> HIDE DEF slugs
    <3> QED BY <3>1, <1>3, LeastOf
  <2>2. Rank(c) = CHOOSE n \in slugs : \A m \in slugs : n <= m
    BY <1>3 DEF Rank
  <2>3. Rank(c) \in slugs /\ \A m \in slugs : Rank(c) <= m
    BY <2>1, <2>2
  <2> QED BY <1>1, <2>3, CrawlAssumption DEF Slugs
<1> QED BY <1>2, <1>3

(* The order of the crawl: rank, and within a rank breadth. *)
ByRank ==
  {pair \in Category \X Category :
     \/ Rank(pair[1]) < Rank(pair[2])
     \/ Rank(pair[1]) = Rank(pair[2]) /\ pair \in Broader}

(* Breadth, and the name within a breadth, order the categories. *)
LEMMA BroaderOrders == StrictOrder(Broader, Category)
BY CrawlAssumption DEF StrictOrder, Broader

(* So does their rank, with breadth within a rank. *)
LEMMA RankOrders == StrictOrder(ByRank, Category)
<1>1. \A c \in Category : Rank(c) \in Int
  BY RankIs, CrawlAssumption DEF Slugs
<1> QED BY <1>1, BroaderOrders DEF StrictOrder, ByRank

(* split is the function by which the first N slugs move their categories. *)
Moved(split, ordered, N) ==
  split = [n \in 0..N |->
             IF n = 0 THEN [front |-> <<>>, remaining |-> ordered]
             ELSE MoveToFront(split[n - 1], PriorityCategories[n])]

(* The function by which the slugs move their categories exists, for any *)
(* number of slugs.                                                      *)
LEMMA MovedExists ==
  ASSUME NEW ordered, NEW N \in Nat
  PROVE  \E split : Moved(split, ordered, N)
<1> DEFINE Good == {n \in Nat : \E split : Moved(split, ordered, n)}
<1>1. 0 \in Good
  <2>1. Moved([n \in 0..0 |-> [front |-> <<>>, remaining |-> ordered]], ordered, 0)
    BY DEF Moved
  <2> QED BY <2>1
<1>2. ASSUME NEW n \in Nat, n \in Good PROVE n + 1 \in Good
  <2>1. PICK k : Moved(k, ordered, n)
    BY <1>2
  <2> DEFINE l == [m \in 0..n + 1 |->
                     IF m <= n THEN k[m] ELSE MoveToFront(k[n], PriorityCategories[m])]
  <2>2. \A m \in 0..n : l[m] = k[m]
    OBVIOUS
  <2>3. \A m \in 0..n + 1 :
          l[m] = IF m = 0 THEN [front |-> <<>>, remaining |-> ordered]
                 ELSE MoveToFront(l[m - 1], PriorityCategories[m])
    <3> TAKE m \in 0..n + 1
    <3>1. CASE m = n + 1
      BY <3>1, <2>2, n \in 0..n + 1, n \in 0..n, m - 1 = n, m # 0, ~(m <= n)
    <3>2. CASE m \in 0..n
      <4>1. k[m] = IF m = 0 THEN [front |-> <<>>, remaining |-> ordered]
                   ELSE MoveToFront(k[m - 1], PriorityCategories[m])
        BY <3>2, <2>1 DEF Moved
      <4>2. m # 0 => l[m - 1] = k[m - 1]
        BY <3>2, <2>2
      <4> HIDE DEF l
      <4> QED BY <3>2, <4>1, <4>2, <2>2
    <3> QED BY <3>1, <3>2
  <2>4. Moved(l, ordered, n + 1)
    BY <2>3 DEF Moved
  <2> QED BY <2>4
<1> HIDE DEF Good
<1>3. Nat \subseteq Good
  BY <1>1, <1>2, AllNaturals DEF Inductive
<1> QED BY <1>3 DEF Good

(* Prioritized joins the two halves of the last value of that function. *)
LEMMA PrioritizedIs ==
  ASSUME NEW ordered
  PROVE  \E split : /\ Moved(split, ordered, Slugs)
                    /\ Prioritized(ordered) = split[Slugs].front \o split[Slugs].remaining
<1> DEFINE Is(split) == split = [n \in 0..Len(PriorityCategories) |->
             IF n = 0 THEN [front |-> <<>>, remaining |-> ordered]
             ELSE MoveToFront(split[n - 1], PriorityCategories[n])]
<1>0. PICK k : Moved(k, ordered, Slugs)
  BY MovedExists, CrawlAssumption DEF Slugs
<1>1. Is(k)
  BY <1>0 DEF Moved, Slugs
<1>2. Is(CHOOSE split : Is(split))
  BY <1>1, Zenon
<1> DEFINE s == CHOOSE split : Is(split)
<1>3. Prioritized(ordered) = s[Slugs].front \o s[Slugs].remaining
  BY Zenon DEF Prioritized, Slugs
<1>4. Moved(s, ordered, Slugs)
  <2> HIDE DEF s
  <2> QED BY <1>2, Zenon DEF Moved, Slugs, s
<1> HIDE DEF s
<1> QED BY <1>3, <1>4

(* The categories the first n slugs match. *)
Ranked(F, n) == {c \in F : Rank(c) <= n}

(* Slug after slug, the categories of a broad-first list come in the order *)
(* of their rank, and none is lost.                                        *)
LEMMA PrioritizedHolds ==
  ASSUME NEW F \in SUBSET Category, NEW ordered,
         Holds(ordered, F), Ascending(ordered, Broader)
  PROVE  Holds(Prioritized(ordered), F) /\ Ascending(Prioritized(ordered), ByRank)
<1>1. PICK s : /\ Moved(s, ordered, Slugs)
               /\ Prioritized(ordered) = s[Slugs].front \o s[Slugs].remaining
  BY PrioritizedIs
<1>P. Slugs \in Nat
  BY CrawlAssumption DEF Slugs
<1>r. \A c \in F : Rank(c) \in 1..Slugs + 1
  BY RankIs
<1> DEFINE OK(n) == /\ Holds(s[n].front, Ranked(F, n))
                    /\ Ascending(s[n].front, ByRank)
                    /\ Holds(s[n].remaining, F \ Ranked(F, n))
                    /\ Ascending(s[n].remaining, Broader)
           Good == {n \in Nat : n <= Slugs => OK(n)}
<1>2. 0 \in Good
  <2>1. s[0] = [front |-> <<>>, remaining |-> ordered]
    BY <1>1, <1>P DEF Moved
  <2>2. Ranked(F, 0) = {}
    BY <1>r, <1>P DEF Ranked
  <2>3. Holds(<<>>, {}) /\ Ascending(<<>>, ByRank)
    BY DEF Holds, Ascending
  <2>4. F \ Ranked(F, 0) = F
    BY <2>2
  <2>5. s[0].front = <<>> /\ s[0].remaining = ordered
    BY <2>1
  <2>6. OK(0)
    BY <2>2, <2>3, <2>4, <2>5
  <2> QED BY <2>6
<1>3. ASSUME NEW n \in Nat, n \in Good PROVE n + 1 \in Good
  <2> SUFFICES ASSUME n + 1 <= Slugs PROVE OK(n + 1)
    OBVIOUS
  <2>1. OK(n)
    BY <1>3, <1>P
  <2> DEFINE matched == {c \in Category : Matches(PriorityCategories[n + 1], c)}
             new == Kept(s[n].remaining, matched)
             rest == Kept(s[n].remaining, Category \ matched)
             ahead == F \ Ranked(F, n)
  <2>2. s[n + 1] = MoveToFront(s[n], PriorityCategories[n + 1])
    <3>1. n + 1 \in 0..Slugs /\ n + 1 # 0 /\ (n + 1) - 1 = n
      BY <1>P
    <3>2. s[n + 1] = IF n + 1 = 0 THEN [front |-> <<>>, remaining |-> ordered]
                     ELSE MoveToFront(s[(n + 1) - 1], PriorityCategories[n + 1])
      BY <1>1, <3>1, Zenon DEF Moved
    <3> QED BY <3>1, <3>2
  <2>3. s[n + 1].front = s[n].front \o new /\ s[n + 1].remaining = rest
    <3>1. s[n + 1] = [front |-> s[n].front \o new, remaining |-> rest]
      BY <2>2, Zenon DEF MoveToFront
    <3> HIDE DEF new, rest
    <3> QED BY <3>1
  <2>4. Holds(new, ahead \cap matched) /\ Ascending(new, Broader)
    BY <2>1, KeptHolds
  <2>5. Holds(rest, ahead \cap (Category \ matched)) /\ Ascending(rest, Broader)
    BY <2>1, KeptHolds
  <2>6. \A c \in F : c \in ahead \cap matched <=> Rank(c) = n + 1
    <3> TAKE c \in F
    <3>1. CASE Rank(c) = n + 1
      BY <3>1, RankIs DEF Ranked
    <3>2. CASE c \in ahead \cap matched
      <4>1. Rank(c) > n /\ Rank(c) <= n + 1
        BY <3>2, <1>r, <1>P, RankIs DEF Ranked
      <4> QED BY <4>1, <1>r, <1>P, <3>2
    <3> QED BY <3>1, <3>2
  <2>7. ahead \cap matched = {c \in F : Rank(c) = n + 1}
    BY <2>6
  <2>8. ahead \cap (Category \ matched) = F \ Ranked(F, n + 1)
    <3>1. \A c \in F : c \in ahead /\ c \notin matched <=> Rank(c) > n + 1
      <4> TAKE c \in F
      <4>1. c \in ahead <=> Rank(c) > n
        BY <1>r, <1>P DEF Ranked
      <4>2. Rank(c) \in Int
        BY <1>r, <1>P
      <4> HIDE DEF ahead, matched
      <4> QED BY <2>6, <4>1, <4>2
    <3>2. \A c \in F : Rank(c) > n + 1 <=> c \notin Ranked(F, n + 1)
      BY <1>r, <1>P DEF Ranked
    <3> QED BY <3>1, <3>2
  <2>9. Ranked(F, n) \cup (ahead \cap matched) = Ranked(F, n + 1)
    <3>1. \A c \in F : Rank(c) <= n \/ Rank(c) = n + 1 <=> Rank(c) <= n + 1
      BY <1>r, <1>P
    <3> QED BY <2>7, <3>1 DEF Ranked
  <2> HIDE DEF new, rest, matched, ahead
  <2>10. Ascending(new, ByRank)
    <3> SUFFICES ASSUME NEW k \in 1..Len(new), NEW m \in 1..Len(new), k < m
                 PROVE  <<new[k], new[m]>> \in ByRank
      BY DEF Ascending
    <3>1. new[k] \in ahead \cap matched /\ new[m] \in ahead \cap matched
      BY <2>4 DEF Holds
    <3>2. Rank(new[k]) = Rank(new[m]) /\ new[k] \in Category /\ new[m] \in Category
      BY <3>1, <2>7
    <3>3. <<new[k], new[m]>> \in Broader
      BY <2>4 DEF Ascending
    <3> QED BY <3>2, <3>3 DEF ByRank
  <2>11. \A a \in Ranked(F, n), b \in ahead \cap matched : <<a, b>> \in ByRank
    BY <2>7, <1>r, <1>P DEF Ranked, ByRank
  <2>12. Holds(s[n + 1].front, Ranked(F, n + 1)) /\ Ascending(s[n + 1].front, ByRank)
    <3>1. Holds(s[n].front, Ranked(F, n)) /\ Ascending(s[n].front, ByRank)
      BY <2>1
    <3>2. /\ Holds(s[n].front \o new, Ranked(F, n) \cup (ahead \cap matched))
          /\ Ascending(s[n].front \o new, ByRank)
      BY <3>1, <2>4, <2>10, <2>11, JoinHolds, Zenon
    <3> QED BY <2>3, <2>9, <3>2, Zenon
  <2> QED BY <2>3, <2>5, <2>8, <2>12
<1> HIDE DEF Good
<1>4. Nat \subseteq Good
  BY <1>2, <1>3, AllNaturals DEF Inductive
<1>5. OK(Slugs)
  BY <1>4, <1>P DEF Good
<1> DEFINE last == s[Slugs].remaining
           behind == F \ Ranked(F, Slugs)
<1>l. Holds(last, behind) /\ Ascending(last, Broader)
  BY <1>5
<1>b. \A c \in behind : c \in Category /\ Rank(c) = Slugs + 1
  BY <1>r, <1>P DEF Ranked
<1>f. Holds(s[Slugs].front, Ranked(F, Slugs)) /\ Ascending(s[Slugs].front, ByRank)
  BY <1>5
<1>7. \A a \in Ranked(F, Slugs), b \in behind : <<a, b>> \in ByRank
  BY <1>r, <1>P DEF Ranked, ByRank
<1>8. Ranked(F, Slugs) \cup behind = F
  BY DEF Ranked
<1> HIDE DEF last, behind, OK
<1>6. Ascending(last, ByRank)
  <2> SUFFICES ASSUME NEW k \in 1..Len(last), NEW m \in 1..Len(last), k < m
               PROVE  <<last[k], last[m]>> \in ByRank
    BY DEF Ascending
  <2>1. last[k] \in behind /\ last[m] \in behind
    BY <1>l DEF Holds
  <2>2. Rank(last[k]) = Rank(last[m]) /\ last[k] \in Category /\ last[m] \in Category
    BY <2>1, <1>b
  <2>3. <<last[k], last[m]>> \in Broader
    BY <1>l DEF Ascending
  <2> QED BY <2>2, <2>3 DEF ByRank
<1>9. Holds(s[Slugs].front \o last, Ranked(F, Slugs) \cup behind) /\ Ascending(s[Slugs].front \o last, ByRank)
  BY <1>f, <1>l, <1>6, <1>7, JoinHolds, Zenon
<1> QED BY <1>1, <1>8, <1>9 DEF last

(* What the crawl is to visit, of the categories F it found. *)
LEMMA CandidatesAre ==
  ASSUME NEW F \in SUBSET Category
  PROVE  /\ Candidates(F) \in Seq(F)
         /\ \A n \in 1..Len(Candidates(F)) : Allows(Candidates(F)[n])
         /\ Ascending(Candidates(F), ByRank)
         /\ Cardinality(F) <= MAX_CANDIDATES =>
              \A d \in F : Allows(d) => \E n \in 1..Len(Candidates(F)) : Candidates(F)[n] = d
         /\ \A d \in F, n \in 1..Len(Candidates(F)) :
              Allows(d) /\ <<d, Candidates(F)[n]>> \in ByRank =>
                \E m \in 1..n : Candidates(F)[m] = d
<1> DEFINE ordered == Prioritized(Sorted(F, Broader))
           capped  == FirstOf(ordered, MAX_CANDIDATES)
           L       == Candidates(F)
           Cap     == IF Len(ordered) < MAX_CANDIDATES THEN Len(ordered) ELSE MAX_CANDIDATES
<1>1. IsFiniteSet(F)
  BY CrawlAssumption, FS_Subset
<1>2. Holds(Sorted(F, Broader), F) /\ Ascending(Sorted(F, Broader), Broader)
  BY <1>1, BroaderOrders, SortedSorts DEF Holds
<1>3. Holds(ordered, F) /\ Ascending(ordered, ByRank)
  BY <1>2, PrioritizedHolds
<1>4. L = Kept(capped, Allowed)
  BY DEF Candidates
<1> HIDE DEF ordered, L
<1>5. ordered \in Seq(F) /\ Len(ordered) \in Nat /\ MAX_CANDIDATES \in Nat
  BY <1>3, CrawlAssumption DEF Holds
<1>6. Cap \in 0..Len(ordered) /\ capped = SubSeq(ordered, 1, Cap)
  BY <1>5 DEF FirstOf
<1> HIDE DEF Cap, capped
<1>7. capped \in Seq(F) /\ Len(capped) = Cap /\ \A n \in 1..Cap : capped[n] = ordered[n]
  BY <1>5, <1>6
<1> DEFINE G == {ordered[n] : n \in 1..Cap}
<1>8. Holds(capped, G) /\ Ascending(capped, ByRank)
  <2>1. \A n \in 1..Len(capped) : capped[n] \in G
    BY <1>7
  <2>2. capped \in Seq(G)
    <3>1. capped = [n \in 1..Cap |-> capped[n]] /\ Cap \in Nat
      BY <1>5, <1>6, <1>7
    <3>2. capped \in [1..Cap -> G]
      BY <1>7, <2>1, <3>1
    <3> HIDE DEF G
    <3> QED BY <3>1, <3>2
  <2>3. Ascending(capped, ByRank)
    BY <1>3, <1>5, <1>6, <1>7 DEF Ascending
  <2> QED BY <1>5, <1>6, <1>7, <2>2, <2>3 DEF Holds
<1>g. G \subseteq F
  BY <1>5, <1>6
<1> HIDE DEF G
<1>9. Holds(L, G \cap Allowed) /\ Ascending(L, ByRank)
  BY <1>4, <1>8, KeptHolds
<1>10. L \in Seq(G \cap Allowed) /\ Len(L) \in Nat
  BY <1>9 DEF Holds
<1>11. L \in Seq(F) /\ \A n \in 1..Len(L) : Allows(L[n])
  BY <1>10, <1>g DEF Allowed
<1>12. ASSUME Cardinality(F) <= MAX_CANDIDATES, NEW d \in F, Allows(d)
       PROVE  \E n \in 1..Len(L) : L[n] = d
  <2>1. Len(ordered) <= Cardinality(F)
    <3>1. \A m, n \in 1..Len(ordered) : ordered[m] = ordered[n] => m = n
      <4> SUFFICES ASSUME NEW m \in 1..Len(ordered), NEW n \in 1..Len(ordered),
                          ordered[m] = ordered[n], m # n
                   PROVE  FALSE
        OBVIOUS
      <4>1. m < n \/ n < m
        BY <1>5
      <4>2. ordered[m] \in Category /\ <<ordered[m], ordered[m]>> \notin ByRank
        BY <1>5, RankOrders DEF StrictOrder
      <4> QED BY <1>3, <4>1, <4>2 DEF Ascending
    <3>2. ordered \in Injection(1..Len(ordered), F)
      BY <1>5, <3>1 DEF Injection, IsInjective
    <3>3. IsFiniteSet(1..Len(ordered)) /\ Cardinality(1..Len(ordered)) = Len(ordered)
      <4> DEFINE k == Len(ordered)
      <4>1. k \in Nat
        BY <1>5
      <4> HIDE DEF k
      <4>2. IsFiniteSet(1..k) /\ Cardinality(1..k) = k
        BY <4>1, FS_Interval
      <4> QED BY <4>2 DEF k
    <3> QED BY <1>1, <3>2, <3>3, FS_Injection DEF ExistsInjection
  <2>2. Cap = Len(ordered)
    BY <1>1, <1>5, <1>12, <2>1, FS_CardinalityType DEF Cap
  <2>3. PICK n \in 1..Len(ordered) : ordered[n] = d
    BY <1>3 DEF Holds
  <2>4. d \in G \cap Allowed
    BY <1>12, <2>2, <2>3 DEF G, Allowed
  <2> QED BY <1>9, <2>4 DEF Holds
<1>13. ASSUME NEW d \in F, NEW n \in 1..Len(L), Allows(d), <<d, L[n]>> \in ByRank
       PROVE  \E m \in 1..n : L[m] = d
  <2>1. L[n] \in G /\ L[n] \in F
    BY <1>10, <1>g
  <2>2. PICK p \in 1..Cap : ordered[p] = L[n]
    BY <2>1 DEF G
  <2>3. PICK q \in 1..Len(ordered) : ordered[q] = d
    BY <1>3 DEF Holds
  <2>4. ~ (<<L[n], d>> \in ByRank) /\ L[n] # d
    BY <1>13, <2>1, RankOrders DEF StrictOrder
  <2>5. q < p
    <3>1. CASE p < q
      BY <1>3, <1>6, <2>2, <2>3, <2>4, <3>1 DEF Ascending
    <3> QED BY <3>1, <2>2, <2>3, <2>4, <1>6
  <2>6. d \in G \cap Allowed
    BY <2>2, <2>3, <2>5, <1>6, <1>13 DEF G, Allowed
  <2>7. PICK m \in 1..Len(L) : L[m] = d
    BY <1>9, <2>6 DEF Holds
  <2>8. m <= n
    BY <1>9, <1>10, <2>4, <2>7 DEF Ascending
  <2> QED BY <1>10, <2>7, <2>8
<1> QED BY <1>9, <1>11, <1>12, <1>13 DEF L

-----------------------------------------------------------------------------
(* The stages in which a call is open. *)
Working == {"robots", "maps", "home", "token", "pages"}

(* The categories the crawl is to visit. *)
Plan == Candidates(found)

(* The sitemaps the crawl reads in all. *)
MapsToRead == Len(SitemapsToRead)

(* The call in hand is the one the stage waits for; between fetches none is *)
(* open.                                                                    *)
CallOK ==
  /\ at = "idle" => url = NoUrl /\ sent = 0 /\ fetches = 0 /\ robots = NoRobots
  /\ at # "idle" => url # NoUrl /\ fetches > 0
  /\ at \in {"returned", "failed"} => reply # "pending"
  /\ at = "robots" => url = RobotsUrl /\ robots = NoRobots
  /\ at \in {"maps", "home", "token", "pages", "returned"} => robots # NoRobots
  /\ reply = "refused" => url \in site.gone
  /\ sent > 0 => made

(* The types of what a crawl keeps. *)
CrawlTyped ==
  /\ maps \in Seq(MapUrl)
  /\ found \in SUBSET Category
  /\ order \in Seq(Category)
  /\ page \in Nat
  /\ previous \in (SUBSET Product) \cup {NoPage}
  /\ pages_fetched \in 0..MaxCatalogPages
  /\ budget_exhausted \in BOOLEAN
  /\ listings \in SUBSET Product
  /\ catalog \in (SUBSET Product) \cup {NoCatalog}
  /\ catalog_skipped \in Nat

(* What a crawl has when it has not read a page yet. *)
Unread ==
  /\ page = 0 \/ at = "pages"
  /\ previous = NoPage
  /\ pages_fetched = 0
  /\ ~budget_exhausted
  /\ listings = {} /\ catalog = NoCatalog /\ catalog_skipped = 0
  /\ reported = 0 /\ skipped = 0

CrawlStages ==
  /\ at \in {"idle", "robots", "maps", "home", "pages", "returned", "failed"}
  /\ at \in {"idle", "robots", "maps", "home"} => Unread /\ crawled = {}
  /\ at \in {"idle", "robots"} => found = {}
  /\ maps \in Seq(MapUrl \ Unfit)
  /\ at = "maps" => maps # <<>> /\ url = Head(maps) /\ Len(maps) <= MapsToRead
  /\ at = "home" => url = HomeUrl
  /\ at = "pages" =>
       /\ catalog = NoCatalog /\ reported = 0 /\ skipped = 0 /\ ~budget_exhausted
       /\ pages_fetched < MaxCatalogPages
       /\ page > 0
  /\ at = "returned" => catalog # NoCatalog /\ reported = catalog_skipped
  /\ at = "failed" => catalog = NoCatalog

(* The categories visited are the first of the plan, the one at hand the    *)
(* last of them, and what is left the rest.                                 *)
OnPlan ==
  \/ crawled = {} /\ at # "pages"
  \/ \E i \in 1..Len(Plan) :
       /\ crawled = {Plan[j] : j \in 1..i}
       /\ at = "pages" => order = SubSeq(Plan, i, Len(Plan)) /\ url = Plan[i]

(* The products of the first pages of a category. *)
HasPages(c, before, S) ==
  \A n \in DOMAIN site.pages[c] : n < before => Ids(site.pages[c][n]) \subseteq S

Whole(c, S) == HasPages(c, Len(site.pages[c]) + 1, S)

(* Of the categories that turn their pages as they should, those behind are *)
(* whole, and the one at hand is up to the page asked for.                  *)
ReadOn ==
  /\ at = "pages" /\ Cardinality(found) <= MAX_CANDIDATES =>
       \A c \in found : Allows(c) /\ OrderlyPages(c) =>
         (\E n \in 1..Len(order) : order[n] = c) \/ Whole(c, listings)
  /\ at = "pages" /\ OrderlyPages(url) =>
       /\ HasPages(url, page, listings)
       /\ page = 1 => previous = NoPage
       /\ page > 1 /\ page - 1 <= Len(site.pages[url]) => previous = Ids(site.pages[url][page - 1])

(* The invariant of a crawl. *)
CrawlInv ==
  /\ CrawlStages
  /\ OnPlan
  /\ ReadOn
  /\ FullCrawlIsWhole

(* A search: what it has of the store, and of the cursor. *)
SearchStages ==
  /\ crawled = {} /\ catalog = NoCatalog
  /\ at \in {"idle", "robots", "token", "pages", "returned", "failed"}
  /\ at \in {"token", "pages", "returned"} => Needed \cap robots = {}
  /\ at \in {"robots", "token"} => fetches = 1 /\ cursor = FirstCursor /\ got = <<>> /\ ~token
  /\ at = "idle" => ~token
  /\ at = "token" => platform = "wix" /\ url = TokenUrl
  /\ at = "pages" => url = Api
  /\ at \in {"pages", "returned"} /\ platform = "wix" => token
  /\ at = "pages" => IF platform = "wix" THEN cursor < MAX_PAGES * PerPage
                     ELSE cursor \in 1..MAX_PAGES

(* The first n products of the store, the malformed ones left out. *)
Regular(n) == Kept([k \in 1..n |-> k], Nat \ site.odd)

(* A store that pages as its API says has served the first Start products.  *)
SearchHas ==
  Paginates =>
    /\ at = "pages" => Start \in 0..site.size /\ got = Regular(Start)
    /\ at = "returned" => got = Regular(site.size)
    /\ too_many => site.size >= MAX_PAGES * PerPage

(* The invariant of a search. *)
SearchInv == SearchStages /\ SearchHas

(* The calls begun so far, the one in hand included. *)
Calls ==
  CASE at = "robots" -> 1
    [] at = "maps" -> 2 + MapsToRead - Len(maps)
    [] at = "home" -> 2 + MapsToRead
    [] at = "token" -> 2
    [] at = "pages" ->
         CASE platform = "tiendanube"  -> 3 + MapsToRead + pages_fetched
           [] platform = "woocommerce" -> 1 + MAX_PAGES * (fetches - 1) + cursor
           [] platform = "wix"         -> 3 + MAX_PAGES * PerPage * (fetches - 1) + cursor

(* The requests of the call in hand, while it is open: those of the failed  *)
(* attempts, and the hops of the attempt at hand.                           *)
Tried == attempt * (MAX_REDIRECTS + 1) + hops

(* Every call but the one in hand took at most its retries and redirects.   *)
SentOK ==
  /\ at \in Working =>
       /\ Calls \in 1..MaxCalls
       /\ sent <= PerCall * (Calls - 1) + (IF reply = "pending" THEN Tried ELSE PerCall)
  /\ RequestsBounded

(* The types, without the history of the crawl. *)
AdaptersTyped ==
  /\ AdapterTypeOK
  /\ site \in Sites[platform]
  /\ CrawlTyped
  /\ token \in BOOLEAN
  /\ cursor \in Nat
  /\ too_many \in BOOLEAN

(* The inductive invariant. *)
AdaptersInv ==
  /\ AdaptersTyped
  /\ CallOK
  /\ SentOK
  /\ platform = "tiendanube" => CrawlInv
  /\ platform # "tiendanube" => SearchInv

(* 2^n is the number of subsets of n things, and so a positive number. *)
LEMMA PowersArePositive == ASSUME NEW n \in Nat PROVE 2^n \in Nat \ {0}
<1>1. IsFiniteSet(1..n) /\ Cardinality(1..n) = n
  BY FS_Interval
<1>2. IsFiniteSet(SUBSET (1..n)) /\ Cardinality(SUBSET (1..n)) = 2^n
  BY <1>1, FS_SUBSET
<1>3. {} \in SUBSET (1..n)
  OBVIOUS
<1> QED BY <1>2, <1>3, FS_CardinalityType, FS_EmptySet

(* More calls are more requests. *)
LEMMA Mono ==
  ASSUME NEW k \in Nat, NEW a \in Int, NEW b \in Int, a <= b
  PROVE  k * a <= k * b
OBVIOUS

(* A number of calls that are over, and those to come. *)
LEMMA Between ==
  ASSUME NEW k \in Nat, NEW a \in Int, NEW b \in Int, NEW c \in Int, a + 1 <= b, b <= c
  PROVE  k * a <= k * (b - 1) /\ k * (b - 1) <= k * c
<1>1. b - 1 \in Int /\ a <= b - 1 /\ b - 1 <= c
  OBVIOUS
<1> QED BY <1>1, Mono

(* The constants. *)
LEMMA Constants ==
  /\ MAX_RETRIES \in Nat /\ MAX_REDIRECTS \in Nat /\ PerCall \in Nat \ {0}
  /\ COURTESY_DELAY \in Nat /\ MaxFetches \in Nat
  /\ MaxCatalogPages \in Nat \ {0} /\ MAX_SITEMAPS \in Nat /\ MAX_CANDIDATES \in Nat
  /\ PerPage \in Nat \ {0} /\ MAX_PAGES \in Nat \ {0}
  /\ MAX_PAGES * PerPage \in Nat \ {0}
  /\ RobotsUrl \in Url /\ NoUrl \notin Url
  /\ Category \in SUBSET Url /\ MapUrl \in SUBSET Url /\ HomeUrl \in Url
  /\ Api \in Url /\ TokenUrl \in Url
<1>1. \A a, b \in Nat \ {0} : a * b \in Nat \ {0}
  OBVIOUS
<1>2. PerCall \in Nat \ {0}
  <2>1. MAX_RETRIES + 1 \in Nat \ {0} /\ MAX_REDIRECTS + 1 \in Nat \ {0}
    BY ClientAssumption
  <2> QED BY <1>1, <2>1 DEF PerCall
<1> QED BY <1>1, <1>2, ClientAssumption, AdapterAssumption, CrawlAssumption, PagingAssumption

(* What a Tiendanube store serves. *)
LEMMA CrawledStore ==
  ASSUME site \in Sites[platform], platform = "tiendanube"
  PROVE  /\ site.disallowed \in SUBSET Url
         /\ site.maps \in Seq(MapUrl)
         /\ \A u \in (MapUrl \ Unfit) \cup {HomeUrl} : site.linked[u] \subseteq Category
         /\ IsPage(site.fallback)
         /\ \A c \in Category : /\ Len(site.pages[c]) \in Nat
                                /\ DOMAIN site.pages[c] = 1..Len(site.pages[c])
                                /\ \A n \in 1..Len(site.pages[c]) : IsPage(site.pages[c][n])
BY SitesAssumption DEF Platform

(* What a store with a search API serves. *)
LEMMA SearchedStore ==
  ASSUME site \in Sites[platform], platform \in Platform, platform # "tiendanube"
  PROVE  /\ site.disallowed \in SUBSET Url
         /\ site.size \in Nat /\ site.serves \in Nat \ {0}
         /\ platform = "wix" => site.total \in Nat
BY SitesAssumption DEF Platform

(* The bound on the calls, platform by platform. *)
LEMMA BoundIs ==
  /\ platform = "tiendanube" => MaxCalls = 2 + MAX_SITEMAPS + MaxCatalogPages
  /\ platform = "woocommerce" => MaxCalls = 1 + MAX_PAGES * fetches
  /\ platform = "wix" => MaxCalls = 2 + MAX_PAGES * PerPage * fetches
BY DEF MaxCalls

(* The calls, stage by stage. *)
LEMMA CallsAre ==
  /\ at = "robots" => Calls = 1
  /\ at = "maps" => Calls = 2 + MapsToRead - Len(maps)
  /\ at = "home" => Calls = 2 + MapsToRead
  /\ at = "token" => Calls = 2
  /\ at = "pages" =>
       /\ platform = "tiendanube" => Calls = 3 + MapsToRead + pages_fetched
       /\ platform = "woocommerce" => Calls = 1 + MAX_PAGES * (fetches - 1) + cursor
       /\ platform = "wix" => Calls = 3 + MAX_PAGES * PerPage * (fetches - 1) + cursor
BY DEF Calls

(* The crawl reads a few fit sitemaps. *)
LEMMA SitemapsFew ==
  ASSUME site \in Sites[platform], platform = "tiendanube"
  PROVE  /\ SitemapsToRead \in Seq(MapUrl \ Unfit)
         /\ MapsToRead \in 0..MAX_SITEMAPS /\ MapsToRead = Len(SitemapsToRead)
<1> DEFINE fit == Kept(site.maps, MapUrl \ Unfit)
           N == IF Len(fit) < MAX_SITEMAPS THEN Len(fit) ELSE MAX_SITEMAPS
<1>1. site.maps \in Seq(MapUrl)
  BY CrawledStore
<1>2. fit \in Seq(MapUrl \cap (MapUrl \ Unfit))
  BY <1>1, KeptPicks
<1>3. MapUrl \cap (MapUrl \ Unfit) = MapUrl \ Unfit
  OBVIOUS
<1>4. SitemapsToRead = SubSeq(fit, 1, N)
  BY DEF SitemapsToRead, FirstOf
<1> HIDE DEF fit
<1>5. fit \in Seq(MapUrl \ Unfit) /\ Len(fit) \in Nat /\ MAX_SITEMAPS \in Nat
  BY <1>2, <1>3, Constants
<1>6. N \in 0..Len(fit) /\ N \in 0..MAX_SITEMAPS
  BY <1>5
<1> HIDE DEF N
<1>7. SubSeq(fit, 1, N) \in Seq(MapUrl \ Unfit) /\ Len(SubSeq(fit, 1, N)) = N
  BY <1>5, <1>6
<1> QED BY <1>4, <1>6, <1>7 DEF MapsToRead

(* The invariant holds when the adapter is made. *)
LEMMA InitInv == ASSUME Init PROVE AdaptersInv
<1> USE DEF Init, ClientInit, AdapterInit, CrawlInit, PagingInit
<1>1. AdaptersTyped
  <2>1. AdapterTypeOK
    <3>1. 0 \in 0..MaxFetches /\ 0 \in 0..MAX_RETRIES /\ 0 \in 0..MAX_REDIRECTS
      BY Constants
    <3>2. ClientTypeOK
      BY <3>1 DEF ClientTypeOK, Reply
    <3>3. platform \in Platform /\ at \in Stage /\ fetches \in 0..MaxFetches /\ skipped \in Nat /\ reported \in Nat
      BY <3>1 DEF Stage
    <3> QED BY <3>2, <3>3 DEF AdapterTypeOK
  <2>2. CrawlTyped
    <3>1. 0 \in 0..MaxCatalogPages
      BY Constants
    <3>2. maps \in Seq(MapUrl) /\ order \in Seq(Category)
      OBVIOUS
    <3> QED BY <3>1, <3>2 DEF CrawlTyped
  <2> QED BY <2>1, <2>2 DEF AdaptersTyped
<1>2. CallOK
  BY DEF CallOK
<1>3. SentOK
  <2>1. platform \in Platform /\ fetches = 0 /\ sent = 0
    OBVIOUS
  <2>2. MaxCalls \in Nat
    BY <2>1, BoundIs, Constants DEF Platform
  <2>3. 0 <= PerCall * MaxCalls
    BY <2>2, Constants
  <2> QED BY <2>1, <2>3 DEF SentOK, Working, RequestsBounded
<1>4. platform = "tiendanube" => CrawlInv
  BY DEF CrawlInv, CrawlStages, Unread, OnPlan, ReadOn, FullCrawlIsWhole
<1>5. platform # "tiendanube" => SearchInv
  <2>1. platform # "tiendanube" => SearchStages
    BY DEF SearchStages
  <2>2. SearchHas
    BY DEF SearchHas
  <2> QED BY <2>1, <2>2 DEF SearchInv
<1> QED BY <1>1, <1>2, <1>3, <1>4, <1>5 DEF AdaptersInv

-----------------------------------------------------------------------------
(* What the types say of what the proofs reason about most. *)
LEMMA TypedFacts ==
  ASSUME AdaptersTyped
  PROVE  /\ attempt \in 0..MAX_RETRIES /\ attempt \in Nat /\ sent \in Nat
         /\ hops \in 0..MAX_REDIRECTS
         /\ fetches \in 0..MaxFetches /\ fetches \in Nat /\ reply \in Reply /\ at \in Stage
         /\ platform \in Platform /\ site \in Sites[platform] /\ cursor \in Nat
         /\ pages_fetched \in Nat /\ MaxCalls \in Nat
<1>1. platform \in Platform /\ fetches \in Nat
  BY Constants DEF AdaptersTyped, AdapterTypeOK
<1>2. \A n \in Nat : MAX_PAGES * n \in Nat /\ MAX_PAGES * PerPage * n \in Nat
  <2>1. \A a, b \in Nat : a * b \in Nat
    OBVIOUS
  <2> QED BY <2>1, Constants
<1>3. MaxCalls \in Nat
  <2>1. CASE platform = "tiendanube"
    BY <2>1, BoundIs, Constants
  <2>2. CASE platform = "woocommerce"
    BY <2>2, <1>1, <1>2, BoundIs
  <2>3. CASE platform = "wix"
    BY <2>3, <1>1, <1>2, BoundIs
  <2> QED BY <1>1, <2>1, <2>2, <2>3 DEF Platform
<1> QED BY <1>3, Constants DEF AdaptersTyped, AdapterTypeOK, ClientTypeOK, CrawlTyped

(* An attempt has room for one more request, a retry for all of its own. *)
LEMMA TriedFits ==
  ASSUME AdaptersTyped
  PROVE  /\ Tried \in Nat
         /\ Tried + 1 <= PerCall
         /\ Tried + 1 <= (attempt + 1) * (MAX_REDIRECTS + 1)
<1> DEFINE H == MAX_REDIRECTS + 1
<1>1. attempt \in 0..MAX_RETRIES /\ attempt \in Nat /\ hops \in 0..MAX_REDIRECTS
      /\ MAX_RETRIES \in Nat /\ MAX_REDIRECTS \in Nat /\ H \in Nat
  BY TypedFacts, Constants
<1>2. attempt * H \in Nat /\ (attempt + 1) * H = attempt * H + H
  BY <1>1
<1>3. H * (attempt + 1) <= H * (MAX_RETRIES + 1)
  BY <1>1, Mono
<1>4. (attempt + 1) * H <= PerCall
  BY <1>1, <1>3 DEF PerCall
<1> DEFINE t == attempt * H
           n == (attempt + 1) * H
<1>5. t \in Nat /\ n = t + H /\ n <= PerCall /\ PerCall \in Nat
  BY <1>2, <1>4, Constants
<1>6. Tried = t + hops
  BY DEF Tried
<1> HIDE DEF t, n
<1>7. Tried \in Nat /\ Tried + 1 <= n /\ Tried + 1 <= PerCall
  BY <1>1, <1>5, <1>6
<1> QED BY <1>7 DEF n

(* What is sent during a call stays within the calls it counts. *)
LEMMA SentStays ==
  ASSUME AdaptersTyped, SentOK, at \in Working
  PROVE  /\ Calls \in Int
         /\ sent <= PerCall * Calls
         /\ reply = "pending" => sent <= PerCall * Calls - PerCall + Tried
<1>1. Calls \in Int /\ sent \in Int /\ Tried \in Nat /\ Tried + 1 <= PerCall /\ PerCall \in Nat
  BY TypedFacts, TriedFits, Constants DEF SentOK
<1> DEFINE K == PerCall
<1>2. K * (Calls - 1) = K * Calls - K
  BY <1>1
<1>3. sent <= K * (Calls - 1) + (IF reply = "pending" THEN Tried ELSE K)
  BY DEF SentOK
<1>4. K * Calls \in Int /\ Tried <= K /\ K \in Int
  BY <1>1
<1> DEFINE a == K * (Calls - 1)
           b == K * Calls
<1>5. a = b - K /\ b \in Int
  BY <1>2, <1>4
<1>6. sent <= a + (IF reply = "pending" THEN Tried ELSE K)
  BY <1>3
<1> HIDE DEF a, b
<1>7. sent <= b /\ (reply = "pending" => sent <= b - K + Tried)
  BY <1>1, <1>4, <1>5, <1>6
<1> QED BY <1>1, <1>7 DEF b

(* The next call begins. *)
LEMMA NextCall ==
  ASSUME AdaptersTyped, SentOK, at \in Working, sent' = sent, at' \in Working,
         reply' = "pending", attempt' = 0, hops' = 0, Calls' \in Int, MaxCalls' \in Int,
         Calls + 1 <= Calls', Calls' <= MaxCalls', 0 <= Calls
  PROVE  SentOK'
<1> DEFINE K == PerCall
<1>1. Calls \in Int /\ sent <= K * Calls /\ sent \in Int /\ K \in Nat
  BY SentStays, TypedFacts, Constants
<1>2. K * Calls <= K * (Calls' - 1) /\ K * (Calls' - 1) <= K * MaxCalls'
  <2> HIDE DEF K
  <2>1. Calls \in Int
    BY <1>1
  <2> QED BY <1>1, <2>1, Between, Zenon
<1>4. K * (Calls' - 1) \in Int /\ K * MaxCalls' \in Int /\ K * Calls \in Int
  BY <1>1
<1> DEFINE a == K * Calls
           b == K * (Calls' - 1)
           c == K * MaxCalls'
<1>5. sent <= a /\ a <= b /\ b <= c /\ a \in Int /\ b \in Int /\ c \in Int
  BY <1>1, <1>2, <1>4
<1> HIDE DEF a, b, c
<1>6. sent <= b + 0 /\ sent <= c
  BY <1>1, <1>5
<1>7. sent' <= PerCall * (Calls' - 1) + (IF reply' = "pending" THEN Tried' ELSE PerCall)
  <2>1. Tried' = 0
    BY Constants DEF Tried
  <2> QED BY <1>6, <2>1 DEF b
<1>8. Calls' \in 1..MaxCalls'
  BY <1>1
<1> QED BY <1>6, <1>7, <1>8 DEF SentOK, RequestsBounded, c

(* The call in hand is answered or fails, and none follows. *)
LEMMA NoCallFollows ==
  ASSUME AdaptersTyped, SentOK, sent' = sent, at' \notin Working,
         platform' = platform, fetches' = fetches
  PROVE  SentOK'
<1>1. MaxCalls' = MaxCalls
  BY DEF MaxCalls
<1> QED BY <1>1 DEF SentOK, RequestsBounded

(* What was read stays read while the crawl does not move. *)
LEMMA ReadOnStays ==
  ASSUME ReadOn, UNCHANGED <<site, robots, at, url, order, page, previous, found, listings>>
  PROVE  ReadOn'
<1>1. \A c : OrderlyPages(c)' = OrderlyPages(c)
  BY DEF OrderlyPages
<1>2. \A c, n, S : HasPages(c, n, S)' = HasPages(c, n, S)
  BY DEF HasPages
<1>3. \A c, S : Whole(c, S)' = Whole(c, S)
  BY DEF Whole, HasPages
<1>4. \A c : Allows(c)' = Allows(c)
  BY DEF Allows
<1>5. (Cardinality(found) <= MAX_CANDIDATES)' = (Cardinality(found) <= MAX_CANDIDATES)
  OBVIOUS
<1> QED BY <1>1, <1>2, <1>3, <1>4, <1>5 DEF ReadOn

(* One attempt of a call keeps the invariant. *)
LEMMA AttemptInv ==
  ASSUME AdaptersInv, Attempt,
         UNCHANGED <<at, fetches, skipped, reported, crawlVars, pagingVars, site, platform>>
  PROVE  AdaptersInv'
<1> USE DEF crawlVars, pagingVars
<1>0. AdaptersTyped /\ CallOK /\ SentOK
  BY DEF AdaptersInv
<1>1. Send /\ reply = "pending" /\ url # NoUrl /\ url' = url /\ robots' = robots /\ sent' = sent + 1 /\ made' = TRUE
  BY DEF Attempt, Answered, Redirected, Retry, GivesUp, OutOfRetries, TooManyRedirects, ResponseTooLarge, Send
<1>2. waited' \in Nat
  <2>1. attempt \in Nat /\ COURTESY_DELAY \in Nat
    BY <1>0, TypedFacts, Constants
  <2>2. \/ waited' = 0
        \/ waited' = (IF attempt > 0 THEN 2^attempt ELSE 0) + (IF made THEN COURTESY_DELAY ELSE 0)
    BY <1>1 DEF Send, Pause
  <2>3. 2^attempt \in Nat
    BY <2>1, PowersArePositive
  <2> QED BY <2>1, <2>2, <2>3
<1>3. /\ attempt' \in 0..MAX_RETRIES
      /\ hops' \in 0..MAX_REDIRECTS
      /\ reply' \in Reply
      /\ reply' = "refused" => url \in site.gone
      /\ reply' = "pending" => \/ attempt' = attempt /\ hops' = hops + 1
                               \/ attempt' = attempt + 1 /\ hops' = 0
  BY <1>0, TypedFacts, Constants
  DEF Attempt, Answered, Redirected, Retry, GivesUp, OutOfRetries, TooManyRedirects, ResponseTooLarge, Send, Reply
<1>4. at \in Working
  BY <1>0, <1>1, TypedFacts DEF CallOK, Stage, Working
<1>5. AdaptersTyped'
  <2>1. ClientTypeOK'
    BY <1>0, <1>1, <1>2, <1>3, TypedFacts DEF AdaptersTyped, AdapterTypeOK, ClientTypeOK
  <2>2. CrawlTyped'
    BY <1>0 DEF AdaptersTyped, CrawlTyped
  <2> QED BY <1>0, <2>1, <2>2 DEF AdaptersTyped, AdapterTypeOK
<1>6. CallOK'
  BY <1>0, <1>1, <1>3, <1>4 DEF CallOK, Working
<1>7. SentOK'
  <2>1. Calls' = Calls /\ MaxCalls' = MaxCalls
    BY DEF Calls, MaxCalls, MapsToRead, SitemapsToRead
  <2> DEFINE K == PerCall
  <2>2. /\ Calls \in 1..MaxCalls /\ MaxCalls \in Nat /\ K \in Nat
        /\ sent \in Int /\ Tried \in Nat /\ Tried + 1 <= K
        /\ sent <= K * (Calls - 1) + Tried
    BY <1>0, <1>1, <1>4, TypedFacts, TriedFits, Constants DEF SentOK
  <2>3. K * (Calls - 1) = K * Calls - K /\ K * Calls <= K * MaxCalls
    BY <2>2, Mono
  <2>4. K * (Calls - 1) \in Int /\ K * Calls \in Int /\ K * MaxCalls \in Int
    BY <2>2
  <2> DEFINE a == K * (Calls - 1)
             b == K * Calls
             c == K * MaxCalls
  <2>5. sent <= a + Tried /\ a = b - K /\ b <= c /\ a \in Int /\ b \in Int /\ c \in Int
    BY <2>2, <2>3, <2>4
  <2> HIDE DEF a, b, c
  <2>6. /\ sent + 1 <= a + (IF reply' = "pending" THEN Tried' ELSE K)
        /\ sent + 1 <= c
    <3>1. sent \in Int /\ K \in Nat /\ Tried \in Int /\ Tried + 1 <= K
      BY <2>2
    <3>2. reply' = "pending" => Tried' \in Int /\ Tried + 1 <= Tried'
      <4>1. attempt \in Nat /\ hops \in Nat /\ MAX_REDIRECTS \in Nat
        BY <1>0, TypedFacts, Constants
      <4>2. CASE attempt' = attempt /\ hops' = hops + 1
        <5>1. attempt * (MAX_REDIRECTS + 1) \in Nat
          BY <4>1
        <5>2. Tried' = attempt * (MAX_REDIRECTS + 1) + (hops + 1)
          BY <4>2 DEF Tried
        <5> QED BY <4>1, <5>1, <5>2 DEF Tried
      <4>3. CASE attempt' = attempt + 1 /\ hops' = 0
        <5>1. Tried' = (attempt + 1) * (MAX_REDIRECTS + 1) + 0 /\ (attempt + 1) * (MAX_REDIRECTS + 1) \in Nat
          BY <4>1, <4>3 DEF Tried
        <5> QED BY <1>0, <5>1, TriedFits
      <4> QED BY <1>3, <4>2, <4>3
    <3> HIDE DEF K
    <3> QED BY <2>5, <3>1, <3>2
  <2> QED BY <1>1, <1>4, <2>1, <2>2, <2>6 DEF SentOK, RequestsBounded, a, c, Working
<1>8. platform = "tiendanube" => CrawlInv'
  <2>1. Plan' = Plan /\ MapsToRead' = MapsToRead
    BY <1>1 DEF Plan, Candidates, Allowed, Allows, MapsToRead, SitemapsToRead
  <2>2. CrawlStages => CrawlStages'
    BY <1>1, <2>1 DEF CrawlStages, Unread
  <2>3. OnPlan => OnPlan'
    BY <1>1, <2>1 DEF OnPlan
  <2>4. ReadOn => ReadOn'
    BY <1>1, ReadOnStays
  <2>5. FullCrawlIsWhole => FullCrawlIsWhole'
    BY <1>1 DEF FullCrawlIsWhole, OrderlyPages, Allows
  <2> QED BY <2>2, <2>3, <2>4, <2>5 DEF AdaptersInv, CrawlInv
<1>9. platform # "tiendanube" => SearchInv'
  <2>1. SearchStages => SearchStages'
    BY <1>1 DEF SearchStages, Needed, FirstCursor
  <2>2. SearchHas => SearchHas'
    BY DEF SearchHas, Paginates, Start, PageSize, Regular
  <2> QED BY <2>1, <2>2 DEF AdaptersInv, SearchInv
<1> QED BY <1>5, <1>6, <1>7, <1>8, <1>9 DEF AdaptersInv

(* So does a client that gives up. *)
LEMMA GaveUpInv ==
  ASSUME AdaptersInv, ClientGaveUp, UNCHANGED <<crawlVars, pagingVars, site, platform>>
  PROVE  AdaptersInv'
<1> USE DEF crawlVars, pagingVars, ClientGaveUp, Raise, NoCall
<1>0. AdaptersTyped /\ CallOK /\ SentOK
  BY DEF AdaptersInv
<1>1. AdaptersTyped'
  BY <1>0 DEF AdaptersTyped, AdapterTypeOK, ClientTypeOK, CrawlTyped, Stage
<1>2. CallOK'
  BY <1>0 DEF CallOK
<1>3. SentOK'
  BY <1>0, NoCallFollows DEF Working
<1>4. platform = "tiendanube" => CrawlInv'
  <2> SUFFICES ASSUME platform = "tiendanube" PROVE CrawlInv'
    OBVIOUS
  <2>0. CrawlInv
    BY DEF AdaptersInv
  <2>1. Plan' = Plan
    BY DEF Plan, Candidates, Allowed, Allows
  <2>2. CrawlStages'
    BY <2>0 DEF CrawlInv, CrawlStages, Unread
  <2>3. OnPlan'
    BY <2>0, <2>1 DEF CrawlInv, OnPlan
  <2>4. ReadOn'
    BY DEF ReadOn
  <2>5. FullCrawlIsWhole'
    BY <2>0 DEF CrawlInv, FullCrawlIsWhole, OrderlyPages, Allows
  <2> QED BY <2>2, <2>3, <2>4, <2>5 DEF CrawlInv
<1>5. platform # "tiendanube" => SearchInv'
  <2> SUFFICES ASSUME platform # "tiendanube" PROVE SearchInv'
    OBVIOUS
  <2>0. SearchInv
    BY DEF AdaptersInv
  <2>1. SearchStages'
    BY <2>0 DEF SearchInv, SearchStages
  <2>2. SearchHas'
    BY <2>0 DEF SearchInv, SearchHas, Paginates
  <2> QED BY <2>1, <2>2 DEF SearchInv
<1> QED BY <1>1, <1>2, <1>3, <1>4, <1>5 DEF AdaptersInv

-----------------------------------------------------------------------------
(* One step of the function by which Kept filters. *)
LEMMA KeptStep ==
  ASSUME NEW list, NEW S, NEW N \in Nat, NEW k, KeptTo(list, S, k, N)
  PROVE  \A n \in 0..N - 1 :
           k[n + 1] = IF list[n + 1] \in S THEN Append(k[n], list[n + 1]) ELSE k[n]
<1> TAKE n \in 0..N - 1
<1>1. n + 1 \in 0..N /\ n + 1 # 0 /\ (n + 1) - 1 = n
  OBVIOUS
<1>2. k[n + 1] = IF n + 1 = 0 THEN <<>>
                 ELSE IF list[n + 1] \in S THEN Append(k[(n + 1) - 1], list[n + 1])
                 ELSE k[(n + 1) - 1]
  BY <1>1, Zenon DEF KeptTo
<1> QED BY <1>1, <1>2

(* Its values are lists. *)
LEMMA KeptTyped ==
  ASSUME NEW T, NEW list \in Seq(T), NEW S, NEW k, KeptTo(list, S, k, Len(list))
  PROVE  \A n \in 0..Len(list) : k[n] \in Seq(T)
<1> DEFINE Good == {n \in Nat : n <= Len(list) => k[n] \in Seq(T)}
<1>L. Len(list) \in Nat
  OBVIOUS
<1>Z. k[0] = <<>>
  BY <1>L DEF KeptTo
<1>S. \A n \in 0..Len(list) - 1 :
        k[n + 1] = IF list[n + 1] \in S THEN Append(k[n], list[n + 1]) ELSE k[n]
  BY <1>L, KeptStep
<1>1. 0 \in Good
  <2>1. <<>> \in Seq(T)
    OBVIOUS
  <2> QED BY <1>Z, <2>1
<1>2. ASSUME NEW n \in Nat, n \in Good PROVE n + 1 \in Good
  <2> SUFFICES ASSUME n + 1 <= Len(list) PROVE k[n + 1] \in Seq(T)
    OBVIOUS
  <2>1. k[n] \in Seq(T) /\ list[n + 1] \in T
    BY <1>2
  <2>2. k[n + 1] = IF list[n + 1] \in S THEN Append(k[n], list[n + 1]) ELSE k[n]
    BY <1>L, <1>S
  <2> QED BY <2>1, <2>2
<1> HIDE DEF Good
<1>3. Nat \subseteq Good
  BY <1>1, <1>2, AllNaturals DEF Inductive
<1> QED BY <1>3 DEF Good

(* Filtering two lists one after the other is filtering their concatenation. *)
LEMMA KeptJoins ==
  ASSUME NEW T, NEW p \in Seq(T), NEW q \in Seq(T), NEW S
  PROVE  Kept(p \o q, S) = Kept(p, S) \o Kept(q, S)
<1>app. ASSUME NEW x \in Seq(T), NEW y \in Seq(T), NEW z \in T
      PROVE  Append(x \o y, z) = x \o Append(y, z)
  <2>1. Len(x) \in Nat /\ Len(y) \in Nat
    OBVIOUS
  <2> DEFINE u == Append(x \o y, z)
             v == x \o Append(y, z)
  <2>2. u \in Seq(T) /\ v \in Seq(T) /\ Len(u) = Len(x) + Len(y) + 1 /\ Len(v) = Len(x) + Len(y) + 1
    OBVIOUS
  <2>3. \A n \in 1..Len(x) + Len(y) + 1 : u[n] = v[n]
    <3> TAKE n \in 1..Len(x) + Len(y) + 1
    <3>1. CASE n \in 1..Len(x)
      BY <3>1
    <3>2. CASE n \in Len(x) + 1..Len(x) + Len(y)
      BY <3>2
    <3>3. CASE n = Len(x) + Len(y) + 1
      BY <3>3
    <3>4. n \in 1..Len(x) \/ n \in Len(x) + 1..Len(x) + Len(y) \/ n = Len(x) + Len(y) + 1
      <4> DEFINE a == Len(x)
                 b == Len(y)
      <4>1. a \in Nat /\ b \in Nat /\ n \in 1..a + b + 1
        BY <2>1
      <4> HIDE DEF a, b
      <4>2. n \in 1..a \/ n \in a + 1..a + b \/ n = a + b + 1
        BY <4>1
      <4> QED BY <4>2 DEF a, b
    <3> HIDE DEF u, v
    <3> QED BY <3>1, <3>2, <3>3, <3>4
  <2> HIDE DEF u, v
  <2>4. u = v
    BY <2>1, <2>2, <2>3
  <2> QED BY <2>4 DEF u, v
<1> DEFINE r == p \o q
           N == Len(p)
           K == Len(q)
<1>1. r \in Seq(T) /\ Len(r) = N + K /\ N \in Nat /\ K \in Nat
  OBVIOUS
<1>2. \A n \in 1..N : r[n] = p[n]
  OBVIOUS
<1>3. \A n \in 1..K : r[N + n] = q[n]
  OBVIOUS
<1> HIDE DEF r
<1>4. PICK a : KeptTo(p, S, a, N) /\ Kept(p, S) = a[N]
  BY KeptIs
<1>5. PICK b : KeptTo(q, S, b, K) /\ Kept(q, S) = b[K]
  BY KeptIs
<1>6. PICK c : KeptTo(r, S, c, N + K) /\ Kept(r, S) = c[N + K]
  <2>1. PICK c : KeptTo(r, S, c, Len(r)) /\ Kept(r, S) = c[Len(r)]
    BY <1>1, KeptIs
  <2> QED BY <1>1, <2>1
<1>ta. \A n \in 0..N : a[n] \in Seq(T)
  BY <1>4, KeptTyped
<1>tb. \A n \in 0..K : b[n] \in Seq(T)
  BY <1>5, KeptTyped
<1>q. \A n \in 1..K : q[n] \in T
  OBVIOUS
<1> HIDE DEF N, K
<1>NK. N + K \in Nat
  BY <1>1
<1>za. a[0] = <<>>
  BY <1>1, <1>NK, <1>4 DEF KeptTo
<1>sa. \A n \in 0..N - 1 :
        a[n + 1] = IF p[n + 1] \in S THEN Append(a[n], p[n + 1]) ELSE a[n]
  BY <1>1, <1>NK, <1>4, KeptStep
<1>zb. b[0] = <<>>
  BY <1>1, <1>NK, <1>5 DEF KeptTo
<1>sb. \A n \in 0..K - 1 :
        b[n + 1] = IF q[n + 1] \in S THEN Append(b[n], q[n + 1]) ELSE b[n]
  BY <1>1, <1>NK, <1>5, KeptStep
<1>zc. c[0] = <<>>
  BY <1>1, <1>NK, <1>6 DEF KeptTo
<1>sc. \A n \in 0..(N + K) - 1 :
        c[n + 1] = IF r[n + 1] \in S THEN Append(c[n], r[n + 1]) ELSE c[n]
  BY <1>1, <1>NK, <1>6, KeptStep
<1> DEFINE First == {n \in Nat : n <= N => c[n] = a[n]}
<1>7. Nat \subseteq First
  <2>1. 0 \in First
    BY <1>za, <1>zc
  <2>2. ASSUME NEW n \in Nat, n \in First PROVE n + 1 \in First
    BY <1>1, <2>2, <1>sa, <1>sc, <1>2
  <2> HIDE DEF First
  <2> QED BY <2>1, <2>2, AllNaturals DEF Inductive
<1>8. c[N] = a[N]
  BY <1>1, <1>7
<1> DEFINE Then == {n \in Nat : n <= K => c[N + n] = a[N] \o b[n]}
<1>9. Nat \subseteq Then
  <2>0. a[N] \in Seq(T)
    BY <1>1, <1>ta
  <2>1. 0 \in Then
    <3>1. a[N] \o <<>> = a[N]
      BY <2>0
    <3>2. N + 0 = N
      BY <1>1
    <3> QED BY <1>8, <1>zb, <3>1, <3>2
  <2>2. ASSUME NEW n \in Nat, n \in Then PROVE n + 1 \in Then
    <3>1. ASSUME n + 1 <= K PROVE c[N + (n + 1)] = a[N] \o b[n + 1]
      <4>0. n <= K /\ n \in 0..K
        BY <1>1, <3>1
      <4>1. c[N + n] = a[N] \o b[n] /\ b[n] \in Seq(T)
        BY <4>0, <2>2, <1>tb
      <4>2. c[(N + n) + 1] = IF r[(N + n) + 1] \in S THEN Append(c[N + n], r[(N + n) + 1]) ELSE c[N + n]
        <5>1. N + n \in 0..(N + K) - 1
          BY <1>1, <3>1
        <5> QED BY <5>1, <1>sc
      <4>3. (N + n) + 1 = N + (n + 1) /\ r[N + (n + 1)] = q[n + 1]
        BY <1>1, <1>3, <3>1
      <4>4. b[n + 1] = IF q[n + 1] \in S THEN Append(b[n], q[n + 1]) ELSE b[n]
        BY <1>1, <1>sb, <3>1
      <4>5. q[n + 1] \in T
        BY <1>1, <1>q, <3>1
      <4> DEFINE x == a[N]
                 y == b[n]
                 z == q[n + 1]
      <4>6. x \in Seq(T) /\ y \in Seq(T) /\ z \in T
        BY <2>0, <4>1, <4>5
      <4> HIDE DEF x, y, z
      <4>7. Append(x \o y, z) = x \o Append(y, z)
        BY <4>6, <1>app
      <4>8. Append(a[N] \o b[n], q[n + 1]) = a[N] \o Append(b[n], q[n + 1])
        BY <4>7 DEF x, y, z
      <4> QED BY <4>1, <4>2, <4>3, <4>4, <4>8
    <3>2. n + 1 \in Nat
      OBVIOUS
    <3> QED BY <3>1, <3>2, Zenon
  <2> HIDE DEF Then
  <2> QED BY <2>1, <2>2, AllNaturals DEF Inductive
<1>10. c[N + K] = a[N] \o b[K]
  <2>1. K \in Nat /\ K <= K
    BY <1>1
  <2> HIDE DEF Then
  <2>2. K \in Then
    BY <1>9, <2>1
  <2> QED BY <2>1, <2>2 DEF Then
<1> QED BY <1>4, <1>5, <1>6, <1>10 DEF r

(* No product comes before the first. *)
LEMMA RegularZero == Regular(0) = <<>>
<1> DEFINE e == [k \in 1..0 |-> k]
<1>1. e \in Seq(Nat) /\ Len(e) = 0
  OBVIOUS
<1> HIDE DEF e
<1>2. Kept(e, Nat \ site.odd) \in Seq(Nat \cap (Nat \ site.odd))
  BY <1>1, KeptPicks
<1>3. \E f : Picks(e, Nat \ site.odd, Kept(e, Nat \ site.odd), f, Len(e))
  BY <1>1, KeptPicks
<1>4. Len(Kept(e, Nat \ site.odd)) = 0
  BY <1>1, <1>3 DEF Picks
<1>5. Kept(e, Nat \ site.odd) = <<>>
  BY <1>2, <1>4
<1> QED BY <1>5 DEF Regular, e

(* A page continues the products where the one before it left off. *)
LEMMA RegularGrows ==
  ASSUME NEW n \in Nat, NEW m \in Nat
  PROVE  Regular(n) \o Kept([k \in 1..m |-> n + k], Nat \ site.odd) = Regular(n + m)
<1> DEFINE p == [k \in 1..n |-> k]
           q == [k \in 1..m |-> n + k]
           r == [k \in 1..n + m |-> k]
<1>1. p \in Seq(Nat) /\ q \in Seq(Nat) /\ Len(p) = n /\ Len(q) = m
  OBVIOUS
<1>2. p \o q = r
  <2>1. Len(p \o q) = n + m /\ p \o q \in Seq(Nat)
    BY <1>1
  <2>2. \A k \in 1..n + m : (p \o q)[k] = k
    <3> TAKE k \in 1..n + m
    <3>1. CASE k \in 1..n
      BY <3>1
    <3>2. CASE k \in n + 1..n + m
      BY <3>2
    <3> QED BY <3>1, <3>2
  <2>3. r \in Seq(Nat) /\ Len(r) = n + m
    OBVIOUS
  <2>4. \A k \in 1..n + m : r[k] = k
    OBVIOUS
  <2> HIDE DEF p, q, r
  <2> QED BY <2>1, <2>2, <2>3, <2>4, SMTT(30)
<1> HIDE DEF p, q, r
<1>3. Kept(p \o q, Nat \ site.odd) = Kept(p, Nat \ site.odd) \o Kept(q, Nat \ site.odd)
  BY <1>1, KeptJoins
<1> QED BY <1>2, <1>3 DEF Regular, p, q, r

-----------------------------------------------------------------------------
(* A call begins, after at most b calls. *)
LEMMA CallBegins ==
  ASSUME AdaptersTyped, NEW b \in Nat, sent <= PerCall * b, sent' = sent,
         at' \in Working, reply' = "pending", attempt' = 0, hops' = 0, Calls' \in Int, MaxCalls' \in Int,
         b + 1 <= Calls', Calls' <= MaxCalls'
  PROVE  SentOK'
<1> DEFINE K == PerCall
<1>1. Calls' \in Int /\ sent <= K * b /\ sent \in Int /\ K \in Nat
  BY TypedFacts, Constants
<1>2. K * b <= K * (Calls' - 1) /\ K * (Calls' - 1) <= K * MaxCalls'
  <2> HIDE DEF K
  <2>1. b \in Int
    BY <1>1
  <2> QED BY <1>1, <2>1, Between, Zenon
<1>4. K * (Calls' - 1) \in Int /\ K * MaxCalls' \in Int /\ K * b \in Int
  BY <1>1
<1> DEFINE x == K * b
           y == K * (Calls' - 1)
           z == K * MaxCalls'
<1>5. sent <= x /\ x <= y /\ y <= z /\ x \in Int /\ y \in Int /\ z \in Int
  BY <1>1, <1>2, <1>4
<1> HIDE DEF x, y, z
<1>6. sent <= y + 0 /\ sent <= z
  BY <1>1, <1>5
<1>7. sent' <= PerCall * (Calls' - 1) + (IF reply' = "pending" THEN Tried' ELSE PerCall)
  <2>1. Tried' = 0
    BY Constants DEF Tried
  <2> QED BY <1>6, <2>1 DEF y
<1>8. Calls' \in 1..MaxCalls'
  BY <1>1
<1> QED BY <1>6, <1>7, <1>8 DEF SentOK, RequestsBounded, z

(* A page of the search: where it starts and how far it goes. *)
LEMMA ServedIs ==
  ASSUME AdaptersTyped, platform # "tiendanube",
         platform = "woocommerce" => cursor > 0
  PROVE  /\ PageSize \in Nat \ {0} /\ PageSize <= PerPage
         /\ Start \in Nat
         /\ Len(Served) \in Nat /\ Len(Served) <= PageSize
         /\ Served = [n \in 1..Len(Served) |-> Start + n]
         /\ Start <= site.size =>
              /\ Start + Len(Served) <= site.size
              /\ Len(Served) = PageSize \/ Start + Len(Served) = site.size
<1>1. site.size \in Nat /\ site.serves \in Nat \ {0} /\ cursor \in Nat /\ PerPage \in Nat \ {0}
  BY TypedFacts, SearchedStore, Constants
<1>2. PageSize \in Nat \ {0} /\ PageSize <= PerPage
  BY <1>1 DEF PageSize
<1>3. Start \in Nat
  <2>1. \A a, b \in Nat : a * b \in Nat
    OBVIOUS
  <2>2. platform = "woocommerce" => cursor - 1 \in Nat
    BY <1>1
  <2> QED BY <1>1, <1>2, <2>1, <2>2, TypedFacts DEF Start, Platform
<1> DEFINE last == IF Start + PageSize < site.size THEN Start + PageSize ELSE site.size
           L == IF last < Start THEN 0 ELSE last - Start
<1>4. Served = [n \in 1..L |-> Start + n]
  BY DEF Served
<1>5. L \in Nat /\ L <= PageSize
  BY <1>1, <1>2, <1>3
<1>6. Start <= site.size => Start + L <= site.size /\ (L = PageSize \/ Start + L = site.size)
  BY <1>1, <1>2, <1>3
<1> HIDE DEF L
<1>7. Len(Served) = L
  BY <1>4, <1>5
<1> QED BY <1>2, <1>3, <1>4, <1>5, <1>6, <1>7

-----------------------------------------------------------------------------
(* What a step of a search leaves alone. *)
SearchFrame == /\ UNCHANGED <<maps, found, order, page, previous, pages_fetched, budget_exhausted,
                              listings, catalog, catalog_skipped, crawled>>
               /\ UNCHANGED <<site, platform>>
               /\ UNCHANGED <<made, sent, waited>>

(* The types after a step of a search. *)
LEMMA SearchKeeps ==
  ASSUME AdaptersTyped, SearchFrame, platform # "tiendanube",
         robots' \in (SUBSET Url) \cup {NoRobots}, url' \in Url \cup {NoUrl},
         attempt' \in 0..MAX_RETRIES, hops' \in 0..MAX_REDIRECTS, reply' \in Reply, at' \in Stage,
         fetches' \in 0..MaxFetches, skipped' \in Nat, reported' \in Nat,
         token' \in BOOLEAN, cursor' \in Nat, too_many' \in BOOLEAN
  PROVE  AdaptersTyped'
<1> USE DEF SearchFrame
<1>1. CrawlTyped'
  BY DEF AdaptersTyped, CrawlTyped
<1>2. ClientTypeOK'
  BY DEF AdaptersTyped, AdapterTypeOK, ClientTypeOK
<1> QED BY <1>1, <1>2 DEF AdaptersTyped, AdapterTypeOK

(* How many calls a search has begun. *)
LEMMA SearchCalls ==
  ASSUME AdaptersTyped, platform # "tiendanube", fetches > 0
  PROVE  /\ MAX_PAGES * (fetches - 1) \in Nat /\ MAX_PAGES * PerPage * (fetches - 1) \in Nat
         /\ platform = "woocommerce" => MaxCalls = 1 + MAX_PAGES * (fetches - 1) + MAX_PAGES
         /\ platform = "wix" => MaxCalls = 2 + MAX_PAGES * PerPage * (fetches - 1) + MAX_PAGES * PerPage
<1>1. fetches - 1 \in Nat /\ fetches = (fetches - 1) + 1
  BY TypedFacts
<1>2. \A k \in Nat \ {0}, b \in Nat : k * b \in Nat /\ k * (b + 1) = k * b + k
  OBVIOUS
<1>3. MAX_PAGES \in Nat \ {0} /\ MAX_PAGES * PerPage \in Nat \ {0}
  BY Constants
<1> DEFINE K == MAX_PAGES * PerPage
           f == fetches - 1
<1>4. fetches = f + 1 /\ f \in Nat /\ K \in Nat \ {0}
  BY <1>1, <1>3
<1>5. platform = "woocommerce" => MaxCalls = 1 + MAX_PAGES * fetches
  BY BoundIs
<1>6. platform = "wix" => MaxCalls = 2 + K * fetches
  BY BoundIs
<1> HIDE DEF K, f
<1>7. /\ MAX_PAGES * f \in Nat /\ K * f \in Nat
      /\ MAX_PAGES * fetches = MAX_PAGES * f + MAX_PAGES
      /\ K * fetches = K * f + K
  BY <1>2, <1>3, <1>4
<1>8. /\ platform = "woocommerce" => MaxCalls = 1 + MAX_PAGES * f + MAX_PAGES
      /\ platform = "wix" => MaxCalls = 2 + K * f + K
  BY <1>3, <1>4, <1>5, <1>6, <1>7
<1> QED BY <1>7, <1>8 DEF K, f

(* A search starts at the store's first product. *)
LEMMA FirstStart ==
  ASSUME site' = site, platform' = platform, platform # "tiendanube", AdaptersTyped,
         cursor' = IF platform = "wix" THEN 0 ELSE 1
  PROVE  Start' = 0
<1>1. PageSize' \in Nat
  BY TypedFacts, SearchedStore, Constants DEF PageSize
<1>2. (1 - 1) * PageSize' = 0
  <2> \A k \in Nat : (1 - 1) * k = 0
    OBVIOUS
  <2> QED BY <1>1
<1> QED BY <1>2 DEF Start

(* A search begins: robots.txt is asked for, or a page. *)
LEMMA StartSearchInv ==
  ASSUME AdaptersInv, StartSearch, platform # "tiendanube", SearchFrame
  PROVE  AdaptersInv'
<1> USE DEF SearchFrame, StartSearch, Begin, AskStore, Await, Ask, Raise, NoCall
<1>0. AdaptersTyped /\ CallOK /\ SentOK /\ SearchInv
  BY DEF AdaptersInv
<1>1. platform \in {"woocommerce", "wix"}
  BY <1>0, TypedFacts DEF Platform
<1>2. AdaptersTyped'
  <2>1. fetches' \in 0..MaxFetches
    BY <1>0, TypedFacts, Constants
  <2>2. robots' = robots /\ robots \in (SUBSET Url) \cup {NoRobots}
    BY <1>0 DEF AdaptersTyped, AdapterTypeOK, ClientTypeOK
  <2>3. url' \in Url \cup {NoUrl} /\ attempt' \in 0..MAX_RETRIES /\ hops' \in 0..MAX_REDIRECTS /\ reply' \in Reply
    BY <1>0, Constants DEF AdaptersTyped, AdapterTypeOK, ClientTypeOK, Reply
  <2>4. cursor' \in Nat /\ skipped' \in Nat /\ reported' \in Nat /\ at' \in Stage
    BY <1>0 DEF FirstCursor, AdaptersTyped, AdapterTypeOK, Stage
  <2>5. token' \in BOOLEAN /\ too_many' \in BOOLEAN
    BY <1>0 DEF AdaptersTyped
  <2> QED BY <1>0, <2>1, <2>2, <2>3, <2>4, <2>5, SearchKeeps
<1>3. CASE at = "idle"
  <2>1. robots = NoRobots /\ sent = 0 /\ fetches = 0
    BY <1>0, <1>3 DEF CallOK
  <2>2. at' = "robots" /\ url' = RobotsUrl /\ attempt' = 0 /\ hops' = 0 /\ reply' = "pending" /\ fetches' = 1
    BY <2>1
  <2>3. CallOK'
    BY <1>0, <2>1, <2>2, Constants DEF CallOK
  <2>4. SentOK'
    <3>1. Calls' = 1 /\ MaxCalls' \in Nat /\ 1 <= MaxCalls'
      <4>1. Calls' = 1
        BY <2>2 DEF Calls
      <4>2. fetches' > 0 /\ fetches' - 1 = 0
        BY <2>2
      <4>3. MAX_PAGES * 0 = 0 /\ MAX_PAGES * PerPage * 0 = 0
        BY Constants
      <4>4. MAX_PAGES * fetches' = MAX_PAGES /\ MAX_PAGES * PerPage * fetches' = MAX_PAGES * PerPage
        BY <2>2, Constants
      <4>5. MaxCalls' = IF platform = "woocommerce" THEN 1 + MAX_PAGES ELSE 2 + MAX_PAGES * PerPage
        BY <1>1, <4>4 DEF MaxCalls
      <4> DEFINE K == MAX_PAGES * PerPage
      <4>6. K \in Nat /\ MAX_PAGES \in Nat
        BY Constants
      <4>7. MaxCalls' = IF platform = "woocommerce" THEN 1 + MAX_PAGES ELSE 2 + K
        BY <4>5
      <4> HIDE DEF K
      <4> QED BY <4>1, <4>6, <4>7
    <3>2. sent <= PerCall * 0
      BY <2>1, Constants
    <3> QED BY <1>0, <2>2, <3>1, <3>2, CallBegins DEF Working
  <2>5. SearchInv'
    <3>1. SearchStages'
      BY <1>0, <1>3, <2>2 DEF SearchInv, SearchStages, FirstCursor, Needed
    <3>2. SearchHas'
      BY <1>0, <2>2 DEF SearchInv, SearchHas, Paginates
    <3> QED BY <3>1, <3>2 DEF SearchInv
  <2> QED BY <1>2, <2>3, <2>4, <2>5 DEF AdaptersInv
<1>4. CASE at = "returned"
  <2>1. robots # NoRobots /\ robots' = robots /\ Needed \cap robots' = {}
    BY <1>0, <1>4 DEF CallOK, SearchInv, SearchStages, Needed
  <2>2. platform = "wix" => token
    BY <1>0, <1>4 DEF SearchInv, SearchStages
  <2>3. at' = "pages" /\ url' = Api /\ attempt' = 0 /\ hops' = 0 /\ reply' = "pending"
    BY <2>1, <2>2 DEF Needed
  <2>4. CallOK'
    BY <1>0, <1>4, <2>1, <2>3, Constants, TypedFacts DEF CallOK
  <2>5. SentOK'
    <3>1. fetches' > 0 /\ fetches' - 1 = fetches /\ fetches \in Nat
      BY <1>0, TypedFacts
    <3> DEFINE K == MAX_PAGES * PerPage
               a == MAX_PAGES * fetches
               b == K * fetches
    <3>2. /\ platform = "woocommerce" => Calls' = 1 + a + 1
          /\ platform = "wix" => Calls' = 3 + b + 0
      BY <2>3, <3>1 DEF Calls, FirstCursor
    <3>3. /\ platform = "woocommerce" => MaxCalls = 1 + a
          /\ platform = "wix" => MaxCalls = 2 + b
      BY BoundIs
    <3>4. K \in Nat \ {0} /\ MAX_PAGES \in Nat \ {0}
      BY Constants
    <3>5. a \in Nat /\ b \in Nat /\ MAX_PAGES * fetches' = a + MAX_PAGES /\ K * fetches' = b + K
      <4> HIDE DEF K
      <4> QED BY <3>1, <3>4
    <3>6. /\ platform = "woocommerce" => MaxCalls' = 1 + a + MAX_PAGES
          /\ platform = "wix" => MaxCalls' = 2 + b + K
      <4>1. /\ platform = "woocommerce" => MaxCalls' = 1 + MAX_PAGES * fetches'
            /\ platform = "wix" => MaxCalls' = 2 + K * fetches'
        BY DEF MaxCalls
      <4> HIDE DEF K, a, b
      <4> QED BY <3>5, <4>1, <3>4
    <3> HIDE DEF K, a, b
    <3>7. MaxCalls \in Nat /\ MaxCalls + 1 <= Calls' /\ Calls' <= MaxCalls' /\ Calls' \in Int /\ MaxCalls' \in Int
      BY <1>1, <3>2, <3>3, <3>4, <3>5, <3>6
    <3>8. sent <= PerCall * MaxCalls
      BY <1>0 DEF SentOK, RequestsBounded
    <3> QED BY <1>0, <2>3, <3>7, <3>8, CallBegins DEF Working
  <2>6. SearchInv'
    <3>0. MAX_PAGES \in Nat \ {0} /\ MAX_PAGES * PerPage \in Nat \ {0}
      BY Constants
    <3>1. SearchStages'
      <4>1. IF platform' = "wix" THEN cursor' < MAX_PAGES * PerPage ELSE cursor' \in 1..MAX_PAGES
        BY <3>0 DEF FirstCursor
      <4> QED BY <1>0, <1>1, <2>1, <2>2, <2>3, <4>1 DEF SearchInv, SearchStages, Needed
    <3>2. SearchHas'
      <4>1. Start' = 0
        BY <1>0, FirstStart DEF FirstCursor
      <4>2. Regular(0)' = <<>>
        <5>1. Regular(0)' = Regular(0)
          BY DEF Regular
        <5> QED BY <5>1, RegularZero
      <4>3. 0 \in 0..site.size
        BY <1>0, TypedFacts, SearchedStore
      <4>4. too_many' /\ Paginates' => site'.size >= MAX_PAGES * PerPage
        BY <1>0 DEF SearchInv, SearchHas, Paginates
      <4> QED BY <2>3, <4>1, <4>2, <4>3, <4>4 DEF SearchHas
    <3> QED BY <3>1, <3>2 DEF SearchInv
  <2> QED BY <1>2, <2>4, <2>5, <2>6 DEF AdaptersInv
<1> QED BY <1>3, <1>4

(* robots.txt was read. *)
LEMMA RobotsLoaded ==
  ASSUME AdaptersTyped, LoadRobots
  PROVE  robots' \in SUBSET Url /\ robots' # NoRobots
<1>1. site.disallowed \in SUBSET Url
  BY TypedFacts, SitesAssumption
<1>2. robots' \in SUBSET Url
  BY <1>1 DEF LoadRobots
<1> QED BY <1>2, ClientAssumption

(* The calls a search has begun are within the bound. *)
LEMMA SearchStarts ==
  ASSUME AdaptersTyped, platform # "tiendanube", fetches = 1
  PROVE  /\ platform = "woocommerce" => MaxCalls >= 2
         /\ platform = "wix" => MaxCalls >= 3
         /\ at = "pages" /\ platform = "woocommerce" => Calls = 1 + cursor
         /\ at = "pages" /\ platform = "wix" => Calls = 3 + cursor
<1> DEFINE K == MAX_PAGES * PerPage
<1>1. fetches > 0 /\ fetches - 1 = 0
  OBVIOUS
<1>2. K \in Nat \ {0} /\ MAX_PAGES \in Nat \ {0}
  BY Constants
<1>3. \A k \in Nat : k * 0 = 0
  OBVIOUS
<1>4. MAX_PAGES * 0 = 0 /\ K * 0 = 0
  <2> HIDE DEF K
  <2> QED BY <1>2, <1>3
<1>5. /\ platform = "woocommerce" => MaxCalls = 1 + 0 + MAX_PAGES
      /\ platform = "wix" => MaxCalls = 2 + 0 + K
  BY <1>1, <1>4, SearchCalls
<1>6. at = "pages" => /\ platform = "woocommerce" => Calls = 1 + 0 + cursor
                      /\ platform = "wix" => Calls = 3 + 0 + cursor
  BY <1>1, <1>4, CallsAre
<1> HIDE DEF K
<1>7. cursor \in Nat
  BY TypedFacts
<1> QED BY <1>2, <1>5, <1>6, <1>7

(* The search learns what robots.txt disallows. *)
LEMMA CheckRobotsInv ==
  ASSUME AdaptersInv, CheckRobots, platform # "tiendanube", SearchFrame
  PROVE  AdaptersInv'
<1> USE DEF SearchFrame, CheckRobots, Response, LoadRobots, AskStore, Await, Ask, Raise, NoCall, pagingVars
<1>0. AdaptersTyped /\ CallOK /\ SentOK /\ SearchInv
  BY DEF AdaptersInv
<1>1. platform \in {"woocommerce", "wix"}
  BY <1>0, TypedFacts DEF Platform
<1>2. /\ robots' \in SUBSET Url /\ robots' # NoRobots
      /\ fetches = 1 /\ cursor = FirstCursor /\ got = <<>> /\ ~token
  BY <1>0, RobotsLoaded DEF SearchInv, SearchStages
<1>3. AdaptersTyped'
  <2>1. url' \in Url \cup {NoUrl} /\ attempt' \in 0..MAX_RETRIES /\ hops' \in 0..MAX_REDIRECTS /\ reply' \in Reply
    BY <1>0, Constants DEF AdaptersTyped, AdapterTypeOK, ClientTypeOK, Reply
  <2>2. /\ cursor' \in Nat /\ skipped' \in Nat /\ reported' \in Nat /\ at' \in Stage /\ fetches' \in 0..MaxFetches
        /\ token' \in BOOLEAN /\ too_many' \in BOOLEAN
    BY <1>0 DEF AdaptersTyped, AdapterTypeOK, Stage
  <2> QED BY <1>0, <1>2, <2>1, <2>2, SearchKeeps
<1>4. CallOK'
  BY <1>0, <1>2, Constants DEF CallOK
<1>5. CASE Needed \cap robots' # {}
  <2>1. at' = "failed"
    BY <1>5
  <2>2. SentOK'
    BY <1>0, <2>1, NoCallFollows DEF Working
  <2>3. SearchStages'
    BY <1>0, <2>1 DEF SearchInv, SearchStages
  <2>4. SearchHas'
    BY <1>0, <2>1 DEF SearchInv, SearchHas, Paginates
  <2> QED BY <1>3, <1>4, <2>2, <2>3, <2>4 DEF AdaptersInv, SearchInv
<1>6. CASE Needed \cap robots' = {} /\ platform = "wix"
  <2>1. at' = "token" /\ url' = TokenUrl /\ attempt' = 0 /\ hops' = 0 /\ reply' = "pending"
    BY <1>2, <1>6
  <2>2. SentOK'
    <3>1. Calls = 1 /\ Calls' = 2
      BY <2>1, CallsAre DEF Calls
    <3>2. MaxCalls' = MaxCalls /\ MaxCalls >= 3 /\ MaxCalls \in Nat
      BY <1>0, <1>2, <1>6, SearchStarts, TypedFacts DEF MaxCalls
    <3> QED BY <1>0, <2>1, <3>1, <3>2, NextCall DEF Working
  <2>3. SearchStages'
    BY <1>0, <1>2, <1>6, <2>1 DEF SearchInv, SearchStages, FirstCursor, Needed
  <2>4. SearchHas'
    BY <1>0, <2>1 DEF SearchInv, SearchHas, Paginates
  <2> QED BY <1>3, <1>4, <2>2, <2>3, <2>4 DEF AdaptersInv, SearchInv
<1>7. CASE Needed \cap robots' = {} /\ platform = "woocommerce"
  <2>1. at' = "pages" /\ url' = Api /\ attempt' = 0 /\ hops' = 0 /\ reply' = "pending"
    BY <1>2, <1>7
  <2>2. SentOK'
    <3>1. Calls = 1 /\ Calls' = 2
      <4>1. Calls' = 1 + MAX_PAGES * (1 - 1) + 1
        BY <1>2, <1>7, <2>1 DEF Calls, FirstCursor
      <4>2. \A k \in Nat : 1 + k * (1 - 1) + 1 = 2
        OBVIOUS
      <4> QED BY <4>1, <4>2, CallsAre, Constants
    <3>2. MaxCalls' = MaxCalls /\ MaxCalls >= 2 /\ MaxCalls \in Nat
      BY <1>0, <1>2, <1>7, SearchStarts, TypedFacts DEF MaxCalls
    <3> QED BY <1>0, <2>1, <3>1, <3>2, NextCall DEF Working
  <2>3. SearchStages'
    <3>1. cursor' \in 1..MAX_PAGES
      BY <1>2, <1>7, Constants DEF FirstCursor
    <3> QED BY <1>0, <1>2, <1>7, <2>1, <3>1 DEF SearchInv, SearchStages, Needed
  <2>4. SearchHas'
    <3>1. Start' = 0
      BY <1>0, <1>2, <1>7, FirstStart DEF FirstCursor
    <3>2. Regular(0)' = <<>>
      BY RegularZero DEF Regular
    <3>3. 0 \in 0..site.size
      BY <1>0, TypedFacts, SearchedStore
    <3> QED BY <1>0, <1>2, <2>1, <3>1, <3>2, <3>3 DEF SearchInv, SearchHas, Paginates
  <2> QED BY <1>3, <1>4, <2>2, <2>3, <2>4 DEF AdaptersInv, SearchInv
<1> QED BY <1>1, <1>5, <1>6, <1>7

(* The storefront hands out its token. *)
LEMMA ReadTokenInv ==
  ASSUME AdaptersInv, ReadToken, platform # "tiendanube", SearchFrame
  PROVE  AdaptersInv'
<1> USE DEF SearchFrame, ReadToken, Response, Await, Ask
<1>0. AdaptersTyped /\ CallOK /\ SentOK /\ SearchInv
  BY DEF AdaptersInv
<1>1. platform = "wix" /\ Needed \cap robots = {} /\ fetches = 1 /\ cursor = 0 /\ got = <<>>
  BY <1>0 DEF SearchInv, SearchStages, FirstCursor
<1>2. at' = "pages" /\ url' = Api /\ attempt' = 0 /\ hops' = 0 /\ reply' = "pending"
  OBVIOUS
<1>3. AdaptersTyped'
  <2>1. url' \in Url \cup {NoUrl} /\ attempt' \in 0..MAX_RETRIES /\ hops' \in 0..MAX_REDIRECTS /\ reply' \in Reply
    BY Constants DEF Reply
  <2>2. /\ cursor' \in Nat /\ skipped' \in Nat /\ reported' \in Nat /\ at' \in Stage /\ fetches' \in 0..MaxFetches
        /\ token' \in BOOLEAN /\ too_many' \in BOOLEAN /\ robots' \in (SUBSET Url) \cup {NoRobots}
    BY <1>0 DEF AdaptersTyped, AdapterTypeOK, ClientTypeOK, Stage
  <2> QED BY <1>0, <2>1, <2>2, SearchKeeps
<1>4. CallOK'
  BY <1>0, Constants DEF CallOK
<1>5. SentOK'
  <2>1. Calls = 2 /\ Calls' = 3
    <3>1. Calls' = 3 + MAX_PAGES * PerPage * (1 - 1) + 0
      BY <1>1, <1>2 DEF Calls
    <3>2. \A k \in Nat : 3 + k * (1 - 1) + 0 = 3
      OBVIOUS
    <3> QED BY <3>1, <3>2, CallsAre, Constants
  <2>2. MaxCalls' = MaxCalls /\ MaxCalls >= 3 /\ MaxCalls \in Nat
    BY <1>0, <1>1, SearchStarts, TypedFacts DEF MaxCalls
  <2> QED BY <1>0, <1>2, <2>1, <2>2, NextCall DEF Working
<1>6. SearchStages'
  BY <1>0, <1>1, <1>2, Constants DEF SearchInv, SearchStages, Needed
<1>7. SearchHas'
  <2>1. Start' = 0
    BY <1>0, <1>1 DEF Start
  <2>2. Regular(0)' = <<>>
    BY RegularZero DEF Regular
  <2>3. 0 \in 0..site.size
    BY <1>0, TypedFacts, SearchedStore
  <2> QED BY <1>0, <1>1, <1>2, <2>1, <2>2, <2>3 DEF SearchInv, SearchHas, Paginates
<1> QED BY <1>3, <1>4, <1>5, <1>6, <1>7 DEF AdaptersInv, SearchInv

(* A response that cannot be read ends the search. *)
LEMMA BadResponseInv ==
  ASSUME AdaptersInv, BadResponse, platform # "tiendanube", SearchFrame
  PROVE  AdaptersInv'
<1> USE DEF SearchFrame, BadResponse, Response, Raise, NoCall, pagingVars
<1>0. AdaptersTyped /\ CallOK /\ SentOK /\ SearchInv
  BY DEF AdaptersInv
<1>1. AdaptersTyped'
  BY <1>0, SearchKeeps DEF AdaptersTyped, AdapterTypeOK, ClientTypeOK, Stage
<1>2. CallOK'
  BY <1>0 DEF CallOK
<1>3. SentOK'
  BY <1>0, NoCallFollows DEF Working
<1>4. SearchStages'
  BY <1>0 DEF SearchInv, SearchStages
<1>5. SearchHas'
  BY <1>0 DEF SearchInv, SearchHas, Paginates
<1> QED BY <1>1, <1>2, <1>3, <1>4, <1>5 DEF AdaptersInv, SearchInv

-----------------------------------------------------------------------------
(* A page of a search, parsed: what it adds continues the products in order. *)
LEMMA PageParsed ==
  ASSUME AdaptersTyped, SearchInv, at = "pages", platform # "tiendanube", Parse(Served)
  PROVE  /\ skipped' \in Nat
         /\ Paginates => got' = Regular(Start + Len(Served))
<1>0. platform \in {"woocommerce", "wix"} /\ (platform = "woocommerce" => cursor > 0)
  BY TypedFacts, Constants DEF SearchInv, SearchStages, Platform
<1>1. /\ Start \in Nat /\ Len(Served) \in Nat
      /\ Served = [n \in 1..Len(Served) |-> Start + n]
  BY <1>0, ServedIs
<1> DEFINE S == Served
           L == Len(Served)
           bad == {n \in DOMAIN S : S[n] \in site.odd}
<1>2. skipped' \in Nat
  <2>1. DOMAIN S = 1..L
    BY <1>1
  <2>2. IsFiniteSet(1..L)
    <3>1. L \in Nat
      BY <1>1
    <3> HIDE DEF L
    <3> QED BY <3>1, FS_Interval
  <2>3. IsFiniteSet(bad) /\ Cardinality(bad) \in Nat
    <3>1. bad \subseteq 1..L
      BY <2>1
    <3> HIDE DEF bad, L
    <3> QED BY <2>2, <3>1, FS_Subset, FS_CardinalityType
  <2>4. skipped' = skipped + Cardinality(bad)
    BY DEF Parse
  <2>5. skipped \in Nat
    BY DEF AdaptersTyped, AdapterTypeOK
  <2> HIDE DEF bad
  <2> QED BY <2>3, <2>4, <2>5
<1>3. ASSUME Paginates PROVE got' = Regular(Start + Len(Served))
  <2>1. got = Regular(Start)
    BY <1>3 DEF SearchInv, SearchHas
  <2>2. got' = got \o Kept(S, Nat \ site.odd)
    BY DEF Parse
  <2>3. Kept(S, Nat \ site.odd) = Kept([k \in 1..L |-> Start + k], Nat \ site.odd)
    BY <1>1
  <2>4. Regular(Start) \o Kept([k \in 1..L |-> Start + k], Nat \ site.odd) = Regular(Start + L)
    BY <1>1, RegularGrows
  <2> QED BY <2>1, <2>2, <2>3, <2>4
<1> QED BY <1>2, <1>3

(* A store of s products has s / b pages of b. *)
LEMMA LastPage ==
  ASSUME NEW s \in Nat, NEW b \in Nat \ {0}, NEW c \in Nat, (s + b - 1) \div b <= c
  PROVE  s <= c * b
<1> DEFINE q == (s + b - 1) \div b
           r == (s + b - 1) % b
<1>1. s + b - 1 \in Nat
  OBVIOUS
<1>2. q \in Int /\ r \in 0..b - 1 /\ s + b - 1 = b * q + r
  BY <1>1
<1> HIDE DEF q, r
<1>3. s <= b * q
  <2> DEFINE x == b * q
  <2>1. x \in Int
    BY <1>2
  <2>2. s + b - 1 = x + r
    BY <1>2
  <2> HIDE DEF x
  <2>3. s <= x
    BY <1>2, <2>1, <2>2
  <2> QED BY <2>3 DEF x
<1>4. b * q <= b * c
  BY <1>2, Mono DEF q
<1>5. b * c = c * b /\ b * q \in Int /\ b * c \in Int
  BY <1>2
<1> DEFINE x == b * q
           y == b * c
<1>6. s <= x /\ x <= y /\ x \in Int /\ y \in Int
  BY <1>3, <1>4, <1>5
<1> HIDE DEF x, y
<1>7. s <= y
  BY <1>6
<1> QED BY <1>5, <1>7 DEF y

(* A page of a WooCommerce store was read. *)
LEMMA ReadWooPageInv ==
  ASSUME AdaptersInv, ReadWooPage, platform # "tiendanube", SearchFrame
  PROVE  AdaptersInv'
<1> USE DEF SearchFrame, Response
<1>0. AdaptersTyped /\ CallOK /\ SentOK /\ SearchInv
  BY DEF AdaptersInv
<1>a. /\ platform = "woocommerce" /\ at = "pages" /\ reply \in {"ok", "refused"}
      /\ Parse(Served) /\ robots' = robots /\ fetches' = fetches /\ token' = token
  BY DEF ReadWooPage
<1>b. \/ /\ at' = "returned" /\ NoCall /\ reported' = reported + skipped'
         /\ cursor' = cursor /\ too_many' = too_many
         /\ Len(Served) < PerPage \/ (site.counts /\ cursor >= TotalPages)
      \/ /\ at' = "failed" /\ NoCall /\ reported' = reported
         /\ cursor' = cursor + 1 /\ too_many' = TRUE
         /\ ~ (Len(Served) < PerPage) /\ cursor + 1 > MAX_PAGES
      \/ /\ at' = "pages" /\ Ask(Api) /\ reported' = reported
         /\ cursor' = cursor + 1 /\ too_many' = too_many
         /\ ~ (Len(Served) < PerPage) /\ ~ (cursor + 1 > MAX_PAGES)
  BY Zenon DEF ReadWooPage, Return, TooMany, Raise, NextPage, Await
<1>c. cursor \in 1..MAX_PAGES /\ url = Api /\ Needed \cap robots = {} /\ fetches > 0 /\ fetches \in Nat
      /\ MAX_PAGES \in Nat \ {0} /\ PerPage \in Nat \ {0}
  BY <1>0, <1>a, TypedFacts, Constants DEF SearchInv, SearchStages, CallOK
<1>d. skipped' \in Nat /\ (Paginates => got' = Regular(Start + Len(Served)))
  BY <1>0, <1>a, PageParsed
<1>1. AdaptersTyped'
  <2>1. url' \in Url \cup {NoUrl} /\ attempt' \in 0..MAX_RETRIES /\ hops' \in 0..MAX_REDIRECTS /\ reply' \in Reply
    BY <1>0, <1>b, Constants DEF AdaptersTyped, AdapterTypeOK, ClientTypeOK, Reply, NoCall, Ask
  <2>0. reported \in Nat /\ too_many \in BOOLEAN /\ skipped' \in Nat
    BY <1>0, <1>d DEF AdaptersTyped, AdapterTypeOK
  <2>4. reported' \in Nat /\ cursor' \in Nat /\ at' \in Stage
    BY <1>b, <1>c, <2>0 DEF Stage
  <2>5. too_many' \in BOOLEAN
    BY <1>b, <2>0, Zenon
  <2>2. reported' \in Nat /\ cursor' \in Nat /\ at' \in Stage /\ too_many' \in BOOLEAN
    BY <2>4, <2>5
  <2>3. robots' \in (SUBSET Url) \cup {NoRobots} /\ fetches' \in 0..MaxFetches /\ token' \in BOOLEAN
    BY <1>0, <1>a DEF AdaptersTyped, AdapterTypeOK, ClientTypeOK
  <2> QED BY <1>0, <1>d, <2>1, <2>2, <2>3, SearchKeeps
<1>2. CallOK'
  BY <1>0, <1>a, <1>b, Constants DEF CallOK, NoCall, Ask
<1>3. SentOK'
  <2>1. CASE at' \notin Working
    BY <1>0, <1>a, <2>1, NoCallFollows
  <2>2. CASE at' = "pages"
    <3> DEFINE x == MAX_PAGES * (fetches - 1)
    <3>1. x \in Nat /\ MaxCalls = 1 + x + MAX_PAGES /\ MaxCalls' = MaxCalls
      BY <1>0, <1>a, <1>c, SearchCalls DEF MaxCalls
    <3>2. Calls = 1 + x + cursor
      BY <1>a, CallsAre
    <3>3. Calls' = 1 + x + (cursor + 1) /\ cursor + 1 <= MAX_PAGES
      BY <1>a, <1>b, <1>c, <2>2 DEF Calls
    <3>4. attempt' = 0 /\ hops' = 0 /\ reply' = "pending"
      BY <1>b, <2>2 DEF Ask
    <3> HIDE DEF x
    <3>5. Calls + 1 <= Calls' /\ Calls' <= MaxCalls' /\ 0 <= Calls /\ Calls' \in Int /\ MaxCalls' \in Int
      BY <1>c, <3>1, <3>2, <3>3
    <3> QED BY <1>0, <1>a, <2>2, <3>4, <3>5, NextCall DEF Working
  <2> QED BY <1>b, <2>1, <2>2 DEF Working
<1>4. SearchStages'
  BY <1>0, <1>a, <1>b, <1>c DEF SearchInv, SearchStages, Needed, Ask
<1>5. SearchHas'
  <2> SUFFICES ASSUME Paginates
               PROVE  /\ at' = "pages" => Start' \in 0..site.size /\ got' = Regular(Start')
                      /\ at' = "returned" => got' = Regular(site.size)
                      /\ too_many' => site.size >= MAX_PAGES * PerPage
    <3>1. Paginates' = Paginates /\ \A n : Regular(n)' = Regular(n')
      BY DEF Paginates, Regular
    <3> QED BY <3>1 DEF SearchHas, Paginates, Regular
  <2>1. ~site.stuck /\ site.serves >= PerPage /\ site.size \in Nat /\ site.serves \in Nat
    BY <1>0, <1>a, TypedFacts, SearchedStore DEF Paginates
  <2>2. PageSize = PerPage
    BY <1>c, <2>1 DEF PageSize
  <2>3. Start = (cursor - 1) * PerPage
    BY <1>a, <2>1, <2>2 DEF Start
  <2>4. Start + PerPage = cursor * PerPage
    <3>1. \A a, b \in Nat : (a - 1) * b + b = a * b
      OBVIOUS
    <3>2. cursor \in Nat /\ PerPage \in Nat
      BY <1>c
    <3> QED BY <2>3, <3>1, <3>2
  <2>5. Start \in 0..site.size
    BY <1>0, <1>a DEF SearchInv, SearchHas
  <2> DEFINE L == Len(Served)
  <2>6. /\ L \in Nat /\ L <= PerPage /\ Start + L <= site.size
        /\ L = PerPage \/ Start + L = site.size
    <3>1. Start <= site.size
      BY <2>1, <2>5
    <3> QED BY <1>0, <1>a, <1>c, <2>2, <3>1, ServedIs
  <2>7. got' = Regular(Start + L)
    BY <1>d
  <2>8. CASE at' = "returned"
    <3>1. Start + L = site.size
      <4>1. CASE L < PerPage
        BY <1>c, <2>6, <4>1
      <4>2. CASE cursor >= TotalPages
        <5>1. (site.size + PerPage - 1) \div PerPage <= cursor
          <6>1. TotalPages = (site.size + PerPage - 1) \div PerPage
            BY <2>2 DEF TotalPages
          <6>2. TotalPages \in Int
            BY <6>1, <2>1, <1>c
          <6> QED BY <4>2, <6>1, <6>2, <1>c
        <5>2. cursor \in Nat
          BY <1>c
        <5>3. site.size <= cursor * PerPage
          BY <1>c, <2>1, <5>1, <5>2, LastPage
        <5>4. site.size <= Start + PerPage
          BY <2>4, <5>3
        <5> HIDE DEF L
        <5> QED BY <1>c, <2>1, <2>5, <2>6, <5>4
      <4> QED BY <1>b, <2>8, <4>1, <4>2
    <3>2. too_many' = too_many
      BY <1>b, <2>8
    <3> QED BY <1>0, <2>7, <2>8, <3>1, <3>2 DEF SearchInv, SearchHas
  <2>9. CASE at' = "failed"
    <3>1. L = PerPage /\ cursor = MAX_PAGES
      BY <1>b, <1>c, <2>6, <2>9
    <3>2. Start + PerPage <= site.size
      BY <2>6, <3>1
    <3> QED BY <2>4, <2>9, <3>1, <3>2
  <2>10. CASE at' = "pages"
    <3>1. L = PerPage /\ cursor' = cursor + 1 /\ too_many' = too_many
      BY <1>b, <1>c, <2>6, <2>10
    <3>2. Start' = ((cursor + 1) - 1) * PerPage
      <4>1. PageSize' = PerPage
        BY <2>2 DEF PageSize
      <4> QED BY <4>1, <3>1, <1>a, <2>1 DEF Start
    <3>3. Start' = Start + PerPage
      <4>1. (cursor + 1) - 1 = cursor
        BY <1>c
      <4> QED BY <2>4, <3>2, <4>1
    <3>4. Start' \in 0..site.size
      BY <1>c, <2>1, <2>5, <2>6, <3>1, <3>3
    <3> QED BY <1>0, <2>7, <2>10, <3>1, <3>3, <3>4 DEF SearchInv, SearchHas
  <2> QED BY <1>b, <2>8, <2>9, <2>10
<1> QED BY <1>1, <1>2, <1>3, <1>4, <1>5, <1>a DEF AdaptersInv, SearchInv

(* A page of a Wix store was read. *)
LEMMA ReadWixPageInv ==
  ASSUME AdaptersInv, ReadWixPage, platform # "tiendanube", SearchFrame
  PROVE  AdaptersInv'
<1> USE DEF SearchFrame, Response
<1> DEFINE K == MAX_PAGES * PerPage
           L == Len(Served)
<1>0. AdaptersTyped /\ CallOK /\ SentOK /\ SearchInv
  BY DEF AdaptersInv
<1>a. /\ platform = "wix" /\ at = "pages" /\ reply \in {"ok", "refused"}
      /\ Parse(Served) /\ robots' = robots /\ fetches' = fetches /\ token' = token
      /\ cursor' = cursor + L
  BY DEF ReadWixPage
<1>b. \/ /\ at' = "returned" /\ NoCall /\ reported' = reported + skipped' /\ too_many' = too_many
         /\ cursor' >= site.total \/ Served = <<>>
      \/ /\ at' = "failed" /\ NoCall /\ reported' = reported /\ too_many' = TRUE
         /\ cursor' >= K
      \/ /\ at' = "pages" /\ Ask(Api) /\ reported' = reported /\ too_many' = too_many
         /\ ~ (cursor' >= K) /\ Served # <<>>
  BY Zenon DEF ReadWixPage, Return, TooMany, Raise, NextPage, Await
<1>c. /\ cursor \in Nat /\ cursor < K /\ url = Api /\ Needed \cap robots = {} /\ token
      /\ fetches > 0 /\ fetches \in Nat
      /\ K \in Nat \ {0}
  BY <1>0, <1>a, TypedFacts, Constants DEF SearchInv, SearchStages, CallOK
<1>d. skipped' \in Nat /\ (Paginates => got' = Regular(Start + L))
  BY <1>0, <1>a, PageParsed
<1>s. Served = [n \in 1..L |-> Start + n]
  BY <1>0, <1>a, ServedIs
<1>e. /\ PageSize \in Nat \ {0} /\ L \in Nat
      /\ Start <= site.size => Start + L <= site.size /\ (L = PageSize \/ Start + L = site.size)
  BY <1>0, <1>a, ServedIs
<1>f. Served # <<>> => L > 0
  <2>1. L = 0 => Served = [n \in 1..0 |-> Start + n]
    BY <1>s
  <2>2. [n \in 1..0 |-> Start + n] = <<>>
    OBVIOUS
  <2>3. L = 0 => Served = <<>>
    BY <2>1, <2>2
  <2>4. L \in Nat
    BY <1>e
  <2> HIDE DEF L
  <2> QED BY <2>3, <2>4
<1>n. cursor' \in Nat
  <2>1. cursor' = cursor + L /\ L \in Nat /\ cursor \in Nat
    BY <1>a, <1>c, <1>e
  <2> HIDE DEF L
  <2> QED BY <2>1
<1>1. AdaptersTyped'
  <2>1. url' \in Url \cup {NoUrl} /\ attempt' \in 0..MAX_RETRIES /\ hops' \in 0..MAX_REDIRECTS /\ reply' \in Reply
    BY <1>0, <1>b, Constants DEF AdaptersTyped, AdapterTypeOK, ClientTypeOK, Reply, NoCall, Ask
  <2>0. reported \in Nat /\ too_many \in BOOLEAN /\ skipped' \in Nat
    BY <1>0, <1>d DEF AdaptersTyped, AdapterTypeOK
  <2>4. reported' \in Nat /\ at' \in Stage
    BY <1>b, <2>0 DEF Stage
  <2>5. too_many' \in BOOLEAN
    BY <1>b, <2>0, Zenon
  <2>2. reported' \in Nat /\ at' \in Stage /\ too_many' \in BOOLEAN
    BY <2>4, <2>5
  <2>3. robots' \in (SUBSET Url) \cup {NoRobots} /\ fetches' \in 0..MaxFetches /\ token' \in BOOLEAN
    BY <1>0, <1>a DEF AdaptersTyped, AdapterTypeOK, ClientTypeOK
  <2> QED BY <1>0, <1>d, <1>n, <2>1, <2>2, <2>3, SearchKeeps
<1>2. CallOK'
  BY <1>0, <1>a, <1>b, Constants DEF CallOK, NoCall, Ask
<1>3. SentOK'
  <2>1. CASE at' \notin Working
    BY <1>0, <1>a, <2>1, NoCallFollows
  <2>2. CASE at' = "pages"
    <3> DEFINE x == K * (fetches - 1)
    <3>1. x \in Nat /\ MaxCalls = 2 + x + K /\ MaxCalls' = MaxCalls
      BY <1>0, <1>a, <1>c, SearchCalls DEF MaxCalls
    <3>2. Calls = 3 + x + cursor
      BY <1>a, CallsAre
    <3>3. Calls' = 3 + x + cursor'
      BY <1>a, <2>2 DEF Calls
    <3>4. attempt' = 0 /\ hops' = 0 /\ reply' = "pending" /\ ~ (cursor' >= K) /\ L > 0
      BY <1>b, <1>f, <2>2 DEF Ask
    <3>6. cursor' = cursor + L /\ L \in Nat
      BY <1>a, <1>e
    <3> HIDE DEF x, K, L
    <3>5. Calls + 1 <= Calls' /\ Calls' <= MaxCalls' /\ 0 <= Calls /\ Calls' \in Int /\ MaxCalls' \in Int
      BY <1>c, <1>n, <3>1, <3>2, <3>3, <3>4, <3>6
    <3> QED BY <1>0, <1>a, <2>2, <3>4, <3>5, NextCall DEF Working
  <2> QED BY <1>b, <2>1, <2>2 DEF Working
<1>4. SearchStages'
  <2>1. at' = "pages" => cursor' < K
    <3> HIDE DEF K
    <3> QED BY <1>b, <1>c, <1>n
  <2> QED BY <1>0, <1>a, <1>b, <1>c, <2>1 DEF SearchInv, SearchStages, Needed, Ask
<1>5. SearchHas'
  <2> SUFFICES ASSUME Paginates
               PROVE  /\ at' = "pages" => Start' \in 0..site.size /\ got' = Regular(Start')
                      /\ at' = "returned" => got' = Regular(site.size)
                      /\ too_many' => site.size >= MAX_PAGES * PerPage
    <3>1. Paginates' = Paginates
      BY DEF Paginates
    <3> QED BY <3>1 DEF SearchHas, Paginates, Regular
  <2>1. ~site.stuck /\ site.total = site.size /\ site.size \in Nat
    BY <1>0, <1>a, TypedFacts, SearchedStore DEF Paginates
  <2>2. Start = cursor /\ Start' = cursor'
    BY <1>a, <2>1 DEF Start
  <2>3. Start \in 0..site.size /\ (too_many => site.size >= K)
    BY <1>0, <1>a DEF SearchInv, SearchHas
  <2>4. cursor' = Start + L /\ cursor' <= site.size /\ (L = PageSize \/ cursor' = site.size)
    <3>1. cursor' = cursor + L /\ L \in Nat /\ PageSize \in Nat
      BY <1>a, <1>e
    <3>2. Start <= site.size => Start + L <= site.size /\ (L = PageSize \/ Start + L = site.size)
      BY <1>e
    <3> HIDE DEF L
    <3> QED BY <2>1, <2>2, <2>3, <3>1, <3>2
  <2>5. got' = Regular(cursor')
    BY <1>d, <2>4
  <2>6. CASE at' = "returned"
    <3>1. cursor' = site.size
      <4>1. CASE cursor' >= site.total
        BY <1>n, <2>1, <2>4, <4>1
      <4>2. CASE Served = <<>>
        <5>1. L = 0
          BY <4>2
        <5> QED BY <1>e, <2>4, <5>1
      <4> QED BY <1>b, <2>6, <4>1, <4>2
    <3> QED BY <1>b, <2>3, <2>5, <2>6, <3>1
  <2>7. CASE at' = "failed"
    <3>1. site.size >= K
      <4>1. cursor' >= K
        BY <1>b, <2>7
      <4> HIDE DEF K
      <4> QED BY <1>c, <1>n, <2>1, <2>4, <4>1
    <3> QED BY <2>7, <3>1
  <2>8. CASE at' = "pages"
    BY <1>b, <1>n, <2>1, <2>2, <2>3, <2>4, <2>5, <2>8
  <2> QED BY <1>b, <2>6, <2>7, <2>8
<1> QED BY <1>1, <1>2, <1>3, <1>4, <1>5, <1>a DEF AdaptersInv, SearchInv

-----------------------------------------------------------------------------
(* What a step of a crawl leaves alone. *)
CrawlFrame == UNCHANGED <<token, cursor, got, too_many, site, platform, made, sent, waited>>

(* The types after a step of a crawl. *)
LEMMA CrawlKeeps ==
  ASSUME AdaptersTyped, CrawlFrame,
         robots' \in (SUBSET Url) \cup {NoRobots}, url' \in Url \cup {NoUrl},
         attempt' \in 0..MAX_RETRIES, hops' \in 0..MAX_REDIRECTS, reply' \in Reply, at' \in Stage,
         fetches' \in 0..MaxFetches, skipped' \in Nat, reported' \in Nat, CrawlTyped'
  PROVE  AdaptersTyped'
<1> USE DEF CrawlFrame
<1>1. ClientTypeOK'
  BY DEF AdaptersTyped, AdapterTypeOK, ClientTypeOK
<1> QED BY <1>1 DEF AdaptersTyped, AdapterTypeOK

(* The kept catalog serves a fetch. *)
LEMMA CacheHitInv ==
  ASSUME AdaptersInv, CacheHit, platform = "tiendanube", CrawlFrame
  PROVE  AdaptersInv'
<1> USE DEF CrawlFrame, CacheHit, Begin, Return, NoCall, crawlVars
<1>0. AdaptersTyped /\ CallOK /\ SentOK /\ CrawlInv
  BY DEF AdaptersInv
<1>1. at = "returned"
  BY <1>0 DEF CrawlInv, CrawlStages, Unread
<1>2. AdaptersTyped'
  <2>1. fetches' \in 0..MaxFetches
    BY <1>0, TypedFacts, Constants
  <2>2. reported \in Nat /\ skipped' = 0
    BY <1>0 DEF AdaptersTyped, AdapterTypeOK
  <2>3. CrawlTyped'
    BY <1>0 DEF AdaptersTyped, CrawlTyped
  <2>4. /\ robots' \in (SUBSET Url) \cup {NoRobots} /\ url' \in Url \cup {NoUrl}
        /\ attempt' \in 0..MAX_RETRIES /\ hops' \in 0..MAX_REDIRECTS /\ reply' \in Reply
    BY <1>0 DEF AdaptersTyped, AdapterTypeOK, ClientTypeOK
  <2> QED BY <1>0, <2>1, <2>2, <2>3, <2>4, CrawlKeeps DEF Stage
<1>3. CallOK'
  BY <1>0, <1>1, TypedFacts DEF CallOK
<1>4. SentOK'
  <2>1. MaxCalls' = MaxCalls
    BY DEF MaxCalls
  <2> QED BY <1>0, <2>1 DEF SentOK, RequestsBounded, Working
<1>5. CrawlInv'
  <2>1. Plan' = Plan /\ MapsToRead' = MapsToRead
    BY DEF Plan, Candidates, Allowed, Allows, MapsToRead, SitemapsToRead
  <2>2. CrawlStages'
    <3>1. reported' = catalog_skipped
      BY <1>0, <1>1 DEF CrawlInv, CrawlStages, AdaptersTyped, AdapterTypeOK
    <3> QED BY <1>0, <1>1, <3>1 DEF CrawlInv, CrawlStages
  <2>3. OnPlan'
    BY <1>0, <1>1, <2>1 DEF CrawlInv, OnPlan
  <2>4. ReadOn'
    BY DEF ReadOn
  <2>5. FullCrawlIsWhole'
    BY <1>0 DEF CrawlInv, FullCrawlIsWhole, OrderlyPages, Allows
  <2> QED BY <2>2, <2>3, <2>4, <2>5 DEF CrawlInv
<1> QED BY <1>2, <1>3, <1>4, <1>5 DEF AdaptersInv

(* The crawl begins with robots.txt. *)
LEMMA StartCrawlInv ==
  ASSUME AdaptersInv, StartCrawl, platform = "tiendanube", CrawlFrame
  PROVE  AdaptersInv'
<1> USE DEF CrawlFrame, StartCrawl, Begin, Await, Ask, crawlVars
<1>0. AdaptersTyped /\ CallOK /\ SentOK /\ CrawlInv
  BY DEF AdaptersInv
<1>1. at = "idle"
  BY <1>0 DEF CrawlInv, CrawlStages
<1>2. AdaptersTyped'
  <2>1. fetches' \in 0..MaxFetches
    BY <1>0, TypedFacts, Constants
  <2>2. reported' \in Nat /\ skipped' = 0
    BY <1>0 DEF AdaptersTyped, AdapterTypeOK
  <2>3. CrawlTyped'
    BY <1>0 DEF AdaptersTyped, CrawlTyped
  <2>4. /\ robots' \in (SUBSET Url) \cup {NoRobots} /\ url' \in Url \cup {NoUrl}
        /\ attempt' \in 0..MAX_RETRIES /\ hops' \in 0..MAX_REDIRECTS /\ reply' \in Reply
    BY <1>0, Constants DEF AdaptersTyped, AdapterTypeOK, ClientTypeOK, Reply
  <2> QED BY <1>0, <2>1, <2>2, <2>3, <2>4, CrawlKeeps DEF Stage
<1>3. CallOK'
  BY <1>0, <1>1, TypedFacts, Constants DEF CallOK
<1>4. SentOK'
  <2>1. Calls' = 1
    BY DEF Calls
  <2>2. MaxCalls' \in Nat /\ 1 <= MaxCalls'
    BY Constants DEF MaxCalls
  <2>3. sent <= PerCall * 0
    BY <1>0, <1>1, Constants DEF CallOK
  <2> QED BY <1>0, <2>1, <2>2, <2>3, CallBegins DEF Working
<1>5. CrawlInv'
  <2>2. CrawlStages'
    BY <1>0, <1>1 DEF CrawlInv, CrawlStages, Unread
  <2>3. OnPlan'
    BY <1>0, <1>1 DEF CrawlInv, CrawlStages, OnPlan
  <2>4. ReadOn'
    BY DEF ReadOn
  <2>5. FullCrawlIsWhole'
    BY DEF FullCrawlIsWhole
  <2> QED BY <2>2, <2>3, <2>4, <2>5 DEF CrawlInv
<1> QED BY <1>2, <1>3, <1>4, <1>5 DEF AdaptersInv

(* While the crawl discovers its categories, it has read no page. *)
LEMMA Discovers ==
  ASSUME CrawlInv, AdaptersTyped, at \in {"robots", "maps", "home"}
  PROVE  /\ crawled = {} /\ page = 0 /\ previous = NoPage /\ pages_fetched = 0
         /\ budget_exhausted = FALSE /\ listings = {} /\ catalog = NoCatalog
         /\ catalog_skipped = 0 /\ reported = 0 /\ skipped = 0
BY DEF CrawlInv, CrawlStages, Unread, AdaptersTyped, CrawlTyped

(* A step of the discovery: the next call is of a sitemap or the homepage. *)
LEMMA DiscoveryGoesOn ==
  ASSUME AdaptersInv, platform = "tiendanube", CrawlFrame, Discovering,
         at \in {"robots", "maps", "home"}, reply \in {"ok", "refused"},
         robots' \in SUBSET Url, robots' # NoRobots,
         maps' \in Seq(MapUrl \ Unfit), found' \in SUBSET Category,
         UNCHANGED <<order, page, crawled>>,
         \/ at' = "maps" /\ Ask(Head(maps')) /\ maps' # <<>> /\ Len(maps') <= MapsToRead
         \/ at' = "home" /\ Ask(HomeUrl),
         Calls \in Int, Calls + 1 <= Calls', Calls' <= 2 + MapsToRead, Calls' \in Int
  PROVE  AdaptersInv'
<1> USE DEF CrawlFrame, Discovering, Ask
<1>0. AdaptersTyped /\ CallOK /\ SentOK /\ CrawlInv
  BY DEF AdaptersInv
<1>1. /\ crawled = {} /\ page = 0 /\ previous = NoPage /\ pages_fetched = 0
      /\ budget_exhausted = FALSE /\ listings = {} /\ catalog = NoCatalog
      /\ catalog_skipped = 0 /\ reported = 0 /\ skipped = 0
  BY <1>0, Discovers
<1>2. maps' # <<>> => Head(maps') \in MapUrl
  OBVIOUS
<1>3. url' \in Url /\ attempt' = 0 /\ hops' = 0 /\ reply' = "pending"
  BY <1>2, Constants
<1>4. AdaptersTyped'
  <2>1. CrawlTyped'
    <3>1. maps' \in Seq(MapUrl)
      OBVIOUS
    <3> QED BY <1>0, <3>1 DEF AdaptersTyped, CrawlTyped
  <2>2. /\ attempt' \in 0..MAX_RETRIES /\ hops' \in 0..MAX_REDIRECTS /\ reply' \in Reply /\ at' \in Stage
        /\ fetches' \in 0..MaxFetches /\ skipped' \in Nat /\ reported' \in Nat
    BY <1>0, <1>3, Constants DEF AdaptersTyped, AdapterTypeOK, Reply, Stage
  <2> QED BY <1>0, <1>3, <2>1, <2>2, CrawlKeeps
<1>5. CallOK'
  BY <1>0, <1>3, Constants DEF CallOK
<1>6. SentOK'
  <2>1. MaxCalls' \in Int /\ Calls' <= MaxCalls'
    <3>1. MaxCalls' = 2 + MAX_SITEMAPS + MaxCatalogPages
      BY DEF MaxCalls
    <3>2. MapsToRead \in 0..MAX_SITEMAPS
      BY <1>0, SitemapsFew DEF AdaptersTyped
    <3> QED BY <3>1, <3>2, Constants
  <2>2. 0 <= Calls
    BY <1>0 DEF SentOK, Working
  <2> QED BY <1>0, <1>3, <2>1, <2>2, NextCall DEF Working
<1>7. CrawlInv'
  <2>1. MapsToRead' = MapsToRead
    BY DEF MapsToRead, SitemapsToRead
  <2>2. CrawlStages'
    BY <1>0, <1>1, <1>3, <2>1 DEF CrawlStages, Unread
  <2>3. OnPlan'
    BY <1>1 DEF OnPlan
  <2>4. ReadOn' /\ FullCrawlIsWhole'
    BY <1>1 DEF ReadOn, FullCrawlIsWhole
  <2> QED BY <2>2, <2>3, <2>4 DEF CrawlInv
<1> QED BY <1>4, <1>5, <1>6, <1>7 DEF AdaptersInv

(* The discovery is over. *)
LEMMA StartPagesInv ==
  ASSUME AdaptersInv, platform = "tiendanube", CrawlFrame, Discovering,
         at \in {"maps", "home"}, reply \in {"ok", "refused"}, robots' = robots,
         maps' \in Seq(MapUrl \ Unfit), found' \in SUBSET Category, StartPages(found')
  PROVE  AdaptersInv'
<1> USE DEF CrawlFrame, Discovering, Ask
<1>0. AdaptersTyped /\ CallOK /\ SentOK /\ CrawlInv
  BY DEF AdaptersInv
<1>1. /\ crawled = {} /\ page = 0 /\ previous = NoPage /\ pages_fetched = 0
      /\ budget_exhausted = FALSE /\ listings = {} /\ catalog = NoCatalog
      /\ catalog_skipped = 0 /\ reported = 0 /\ skipped = 0
  BY <1>0, Discovers
<1>r. robots \in SUBSET Url /\ robots # NoRobots
  BY <1>0 DEF CallOK, AdaptersTyped, AdapterTypeOK, ClientTypeOK
<1> DEFINE C == Candidates(found')
<1>2. C \in Seq(found') /\ Plan' = C
  <2>1. Plan' = C
    BY DEF Plan, Candidates, Allowed, Allows
  <2> QED BY <2>1, CandidatesAre
<1>s. order' = C
  BY DEF StartPages
<1>m. MapsToRead' = MapsToRead /\ MapsToRead \in 0..MAX_SITEMAPS
  BY <1>0, SitemapsFew DEF MapsToRead, SitemapsToRead, AdaptersTyped
<1>n. maps' \in Seq(MapUrl)
  OBVIOUS
<1>3. CASE C = <<>>
  <2>1. at' = "failed" /\ UNCHANGED <<url, attempt, hops, reply, page, crawled>>
    BY <1>3 DEF StartPages, Raise, NoCall
  <2>2. AdaptersTyped'
    <3>1. CrawlTyped'
      BY <1>0, <1>1, <1>2, <1>n, <1>s, <2>1 DEF AdaptersTyped, CrawlTyped
    <3> QED BY <1>0, <2>1, <3>1, CrawlKeeps DEF AdaptersTyped, AdapterTypeOK, ClientTypeOK, Stage
  <2>3. CallOK'
    BY <1>0, <2>1 DEF CallOK
  <2>4. SentOK'
    BY <1>0, <2>1, NoCallFollows DEF Working
  <2>5. CrawlInv'
    BY <1>0, <1>1, <2>1 DEF CrawlInv, CrawlStages, Unread, OnPlan, ReadOn, FullCrawlIsWhole
  <2> QED BY <2>2, <2>3, <2>4, <2>5 DEF AdaptersInv
<1>4. CASE C # <<>>
  <2>1. /\ at' = "pages" /\ url' = Head(C) /\ attempt' = 0 /\ hops' = 0 /\ reply' = "pending"
        /\ page' = 1 /\ crawled' = {Head(C)}
    BY <1>4 DEF StartPages, Await
  <2> HIDE DEF C
  <2>2. Len(C) > 0 /\ Len(C) \in Nat /\ Head(C) = C[1] /\ C[1] \in found' /\ C \in Seq(Category)
    BY <1>2, <1>4
  <2>3. AdaptersTyped'
    <3>1. CrawlTyped'
      <4>1. 0 \in 0..MaxCatalogPages
        BY Constants
      <4> QED BY <1>0, <1>1, <1>n, <1>s, <2>1, <2>2, <4>1 DEF CrawlTyped
    <3>2. url' \in Url
      BY <2>1, <2>2, Constants
    <3>3. /\ attempt' \in 0..MAX_RETRIES /\ hops' \in 0..MAX_REDIRECTS /\ reply' \in Reply /\ at' \in Stage
          /\ fetches' \in 0..MaxFetches /\ skipped' \in Nat /\ reported' \in Nat
      BY <1>0, <2>1, Constants DEF AdaptersTyped, AdapterTypeOK, Reply, Stage
    <3> QED BY <1>0, <1>r, <3>1, <3>2, <3>3, CrawlKeeps
  <2>4. CallOK'
    <3>1. url' # NoUrl
      BY <2>1, <2>2, Constants
    <3> QED BY <1>0, <1>r, <2>1, <3>1 DEF CallOK
  <2>5. SentOK'
    <3>1. Calls' = 3 + MapsToRead + 0
      BY <1>1, <1>m, <2>1 DEF Calls
    <3>2. MaxCalls' = 2 + MAX_SITEMAPS + MaxCatalogPages
      BY DEF MaxCalls
    <3>3. Calls \in Int /\ Calls <= 2 + MapsToRead /\ 0 <= Calls
      <4>1. Calls \in 1..MaxCalls
        BY <1>0 DEF SentOK, Working
      <4>2. CASE at = "maps"
        <5>1. Calls = 2 + MapsToRead - Len(maps) /\ Len(maps) \in Nat
          BY <1>0, <4>2, CallsAre DEF CrawlInv, CrawlStages
        <5> QED BY <1>m, <4>1, <5>1
      <4>3. CASE at = "home"
        BY <1>m, <4>1, <4>3, CallsAre
      <4> QED BY <4>2, <4>3
    <3> QED BY <1>0, <1>m, <2>1, <3>1, <3>2, <3>3, Constants, NextCall DEF Working
  <2>6. CrawlStages'
    BY <1>1, <2>1, <1>0, Constants DEF CrawlInv, CrawlStages, Unread
  <2>7. OnPlan'
    <3>1. SubSeq(C, 1, Len(C)) = C
      BY <1>2, <2>2
    <3>2. {C[j] : j \in 1..1} = {C[1]} /\ 1 \in 1..Len(C)
      BY <2>2
    <3> QED BY <1>2, <1>s, <2>1, <2>2, <3>1, <3>2 DEF OnPlan
  <2>8. ReadOn'
    <3>1. ASSUME Cardinality(found') <= MAX_CANDIDATES, NEW c \in found', Allows(c)
          PROVE  \E n \in 1..Len(order') : order'[n] = c
      BY <1>s, <3>1, CandidatesAre DEF C
    <3>2. ASSUME OrderlyPages(url)' PROVE HasPages(url, page, listings)'
      <4>1. url' \in Category
        BY <2>1, <2>2
      <4>2. DOMAIN site.pages[url'] = 1..Len(site.pages[url']) /\ Len(site.pages[url']) \in Nat
        BY <1>0, <4>1, CrawledStore DEF AdaptersTyped
      <4>3. \A n \in DOMAIN site.pages[url'] : ~ (n < 1)
        BY <4>2
      <4> QED BY <2>1, <4>3 DEF HasPages
    <3> QED BY <1>1, <2>1, <3>1, <3>2 DEF ReadOn, Allows
  <2>9. FullCrawlIsWhole'
    BY <1>1 DEF FullCrawlIsWhole
  <2> QED BY <2>3, <2>4, <2>5, <2>6, <2>7, <2>8, <2>9 DEF AdaptersInv, CrawlInv
<1> QED BY <1>3, <1>4

(* robots.txt was read, and names sitemaps or none. *)
LEMMA ReadRobotsInv ==
  ASSUME AdaptersInv, ReadRobots, platform = "tiendanube", CrawlFrame
  PROVE  AdaptersInv'
<1> USE DEF ReadRobots, Response, Await
<1>0. AdaptersTyped /\ CrawlInv
  BY DEF AdaptersInv
<1>1. robots' \in SUBSET Url /\ robots' # NoRobots
  BY <1>0, RobotsLoaded
<1>2. SitemapsToRead \in Seq(MapUrl \ Unfit) /\ MapsToRead \in 0..MAX_SITEMAPS /\ MapsToRead = Len(SitemapsToRead)
  BY <1>0, SitemapsFew DEF AdaptersTyped
<1>3. maps' = SitemapsToRead /\ found' = {}
  BY DEF Discover
<1>4. Calls = 1
  BY CallsAre
<1>5. CASE SitemapsToRead # <<>>
  <2>1. at' = "maps" /\ Ask(Head(maps')) /\ UNCHANGED <<order, page, crawled>>
    BY <1>3, <1>5 DEF Discover
  <2>2. MapsToRead' = MapsToRead /\ Calls' = 2 + MapsToRead - Len(maps')
    BY <2>1 DEF Calls, MapsToRead, SitemapsToRead, CrawlFrame
  <2>3. Calls' = 2 /\ Len(maps') <= MapsToRead /\ MapsToRead > 0
    BY <1>2, <1>3, <1>5, <2>2
  <2> QED BY <1>1, <1>2, <1>3, <1>4, <1>5, <2>1, <2>3, DiscoveryGoesOn
<1>6. CASE SitemapsToRead = <<>>
  <2>1. at' = "home" /\ Ask(HomeUrl) /\ UNCHANGED <<order, page, crawled>>
    BY <1>3, <1>6 DEF Discover
  <2>2. MapsToRead = 0 /\ MapsToRead' = MapsToRead /\ Calls' = 2 + MapsToRead
    BY <1>2, <1>6, <2>1 DEF Calls, MapsToRead, SitemapsToRead, CrawlFrame
  <2> QED BY <1>1, <1>2, <1>3, <1>4, <2>1, <2>2, DiscoveryGoesOn
<1> QED BY <1>5, <1>6

(* A sitemap was read. *)
LEMMA ReadSitemapInv ==
  ASSUME AdaptersInv, ReadSitemap, platform = "tiendanube", CrawlFrame
  PROVE  AdaptersInv'
<1> USE DEF ReadSitemap, Response, Await
<1>0. AdaptersTyped /\ CallOK /\ CrawlInv
  BY DEF AdaptersInv
<1>1. robots' = robots /\ robots' \in SUBSET Url /\ robots' # NoRobots
  BY <1>0 DEF CallOK, AdaptersTyped, AdapterTypeOK, ClientTypeOK
<1>2. MapsToRead \in 0..MAX_SITEMAPS /\ MapsToRead' = MapsToRead
  BY <1>0, SitemapsFew DEF AdaptersTyped, MapsToRead, SitemapsToRead, CrawlFrame
<1>3. maps \in Seq(MapUrl \ Unfit) /\ maps # <<>> /\ Len(maps) <= MapsToRead
  BY <1>0 DEF CrawlInv, CrawlStages
<1>4. Head(maps) \in MapUrl \ Unfit /\ Tail(maps) \in Seq(MapUrl \ Unfit)
      /\ Len(maps) \in Nat /\ Len(Tail(maps)) = Len(maps) - 1
  BY <1>3
<1> DEFINE categories == found \cup (IF reply = "ok" THEN site.linked[Head(maps)] ELSE {})
<1>5. categories \in SUBSET Category
  <2>1. site.linked[Head(maps)] \subseteq Category
    BY <1>0, <1>4, CrawledStore DEF AdaptersTyped
  <2> QED BY <1>0, <2>1 DEF AdaptersTyped, CrawlTyped
<1>6. maps' = Tail(maps) /\ found' = categories
  BY DEF Discover
<1>7. Calls = 2 + MapsToRead - Len(maps) /\ Calls \in Int
  BY <1>2, <1>4, CallsAre
<1> HIDE DEF categories
<1>8. CASE Tail(maps) # <<>>
  <2>1. at' = "maps" /\ Ask(Head(maps')) /\ UNCHANGED <<order, page, crawled>>
    BY <1>6, <1>8 DEF Discover
  <2>2. Calls' = 2 + MapsToRead - Len(maps')
    BY <1>2, <2>1 DEF Calls
  <2>3. Calls' = Calls + 1 /\ Len(maps') <= MapsToRead /\ Calls' <= 2 + MapsToRead
    BY <1>2, <1>3, <1>4, <1>6, <1>7, <2>2
  <2> QED BY <1>1, <1>2, <1>4, <1>5, <1>6, <1>7, <1>8, <2>1, <2>3, DiscoveryGoesOn
<1>9. CASE Tail(maps) = <<>> /\ categories = {}
  <2>1. at' = "home" /\ Ask(HomeUrl) /\ UNCHANGED <<order, page, crawled>>
    BY <1>6, <1>9 DEF Discover, categories
  <2>2. Calls' = 2 + MapsToRead
    BY <1>2, <2>1 DEF Calls
  <2>3. Len(maps) >= 1
    BY <1>3, <1>4
  <2>4. Calls + 1 <= Calls' /\ Calls' <= 2 + MapsToRead /\ Calls' \in Int
    BY <1>2, <1>4, <1>7, <2>2, <2>3
  <2> QED BY <1>1, <1>2, <1>4, <1>5, <1>6, <1>7, <2>1, <2>4, DiscoveryGoesOn
<1>10. CASE Tail(maps) = <<>> /\ categories # {}
  <2>1. StartPages(found')
    BY <1>6, <1>10 DEF Discover, categories
  <2> QED BY <1>1, <1>4, <1>5, <1>6, <2>1, StartPagesInv
<1> QED BY <1>8, <1>9, <1>10

(* The homepage was read. *)
LEMMA ReadHomeInv ==
  ASSUME AdaptersInv, ReadHome, platform = "tiendanube", CrawlFrame
  PROVE  AdaptersInv'
<1> USE DEF ReadHome, Response
<1>0. AdaptersTyped /\ CrawlInv
  BY DEF AdaptersInv
<1>1. maps' \in Seq(MapUrl \ Unfit)
  BY <1>0 DEF CrawlInv, CrawlStages
<1>2. found' \in SUBSET Category
  <2>1. site.linked[HomeUrl] \subseteq Category
    BY <1>0, CrawledStore DEF AdaptersTyped
  <2> QED BY <2>1
<1> QED BY <1>1, <1>2, StartPagesInv

-----------------------------------------------------------------------------
(* What a page holds: finitely many products. *)
LEMMA BlocksAre ==
  ASSUME AdaptersTyped, platform = "tiendanube", Head(order) \in Category, page > 0
  PROVE  Ids(Blocks) \in SUBSET Product /\ Malformed(Blocks) \in Nat
<1> DEFINE c == Head(order)
<1>1. page \in Nat /\ Len(site.pages[c]) \in Nat /\ IsPage(site.fallback)
      /\ \A n \in 1..Len(site.pages[c]) : IsPage(site.pages[c][n])
  BY CrawledStore DEF AdaptersTyped, CrawlTyped
<1>2. CASE reply = "ok"
  <2>1. IsPage(Shown(c, page))
    BY <1>1, <1>2 DEF Shown
  <2>2. Blocks = Shown(c, page)
    BY <1>2 DEF Blocks
  <2>3. IsFiniteSet(Blocks) /\ \A b \in Blocks : b.ext \in Product
    BY <2>1, <2>2 DEF IsPage
  <2> QED BY <2>3, FS_Subset, FS_CardinalityType DEF Ids, Malformed
<1>3. CASE reply # "ok"
  <2>1. Blocks = {}
    BY <1>3 DEF Blocks
  <2> QED BY <2>1, FS_EmptySet DEF Ids, Malformed
<1> QED BY <1>2, <1>3

(* A category that turns its pages as it should ends after its last page. *)
LEMMA LastPageRead ==
  ASSUME AdaptersTyped, CallOK, CrawlInv, platform = "tiendanube",
         at = "pages", reply \in {"ok", "refused"}, url \in Category, Head(order) = url,
         OrderlyPages(url)
  PROVE  /\ CategoryEnds => Whole(url, listings)
         /\ ~CategoryEnds => /\ HasPages(url, page + 1, listings \cup Ids(Blocks))
                             /\ page <= Len(site.pages[url]) => Ids(Blocks) = Ids(site.pages[url][page])
<1> DEFINE pages == site.pages[url]
<1>1. /\ Len(pages) \in Nat /\ DOMAIN pages = 1..Len(pages)
      /\ \A n \in 1..Len(pages) : IsPage(pages[n])
  BY CrawledStore DEF AdaptersTyped
<1>2. page \in Nat /\ page > 0
  BY DEF CrawlInv, CrawlStages, AdaptersTyped, CrawlTyped
<1>3. reply = "ok"
  BY DEF CallOK, OrderlyPages
<1>4. /\ HasPages(url, page, listings)
      /\ page = 1 => previous = NoPage
      /\ page > 1 /\ page - 1 <= Len(pages) => previous = Ids(pages[page - 1])
  BY DEF CrawlInv, ReadOn
<1>5. page <= Len(pages) => Blocks = pages[page]
  BY <1>3 DEF Blocks, Shown
<1>6. ASSUME CategoryEnds PROVE page > Len(pages)
  <2> SUFFICES ASSUME page <= Len(pages) PROVE FALSE
    BY <1>1, <1>2
  <2>1. page \in 1..Len(pages) /\ Blocks = pages[page]
    BY <1>1, <1>2, <1>5
  <2>2. Blocks # {}
    BY <1>1, <2>1 DEF OrderlyPages
  <2>3. Ids(Blocks) # {} /\ Ids(Blocks) = previous
    BY <1>6, <2>2 DEF CategoryEnds
  <2>4. CASE page = 1
    <3>1. Ids(Blocks) \in SUBSET Product
      BY <1>1, <2>1 DEF IsPage, Ids
    <3> QED BY <1>4, <2>3, <2>4, <3>1, CrawlAssumption
  <2>5. CASE page > 1
    <3>1. previous = Ids(pages[page - 1]) /\ page \in 2..Len(pages)
      BY <1>1, <1>2, <1>4, <2>1, <2>5
    <3>2. Ids(pages[page]) # Ids(pages[page - 1]) \/ Ids(pages[page]) = {}
      BY <3>1 DEF OrderlyPages
    <3> QED BY <2>1, <2>3, <3>1, <3>2
  <2> QED BY <1>2, <2>4, <2>5
<1>7. ASSUME CategoryEnds PROVE Whole(url, listings)
  BY <1>1, <1>2, <1>4, <1>6, <1>7 DEF Whole, HasPages
<1>8. HasPages(url, page + 1, listings \cup Ids(Blocks))
  <2> SUFFICES ASSUME NEW n \in DOMAIN pages, n < page + 1
               PROVE  Ids(pages[n]) \subseteq listings \cup Ids(Blocks)
    BY DEF HasPages
  <2>1. CASE n < page
    BY <1>4, <2>1 DEF HasPages
  <2>2. CASE n = page
    BY <1>1, <1>5, <2>2
  <2> QED BY <1>1, <1>2, <2>1, <2>2
<1> QED BY <1>5, <1>7, <1>8

(* A page adds to the listings, and takes none away. *)
LEMMA WholeStays ==
  ASSUME NEW c, NEW S, NEW T, S \subseteq T
  PROVE  /\ Whole(c, S) => Whole(c, T)
         /\ \A n : HasPages(c, n, S) => HasPages(c, n, T)
BY DEF Whole, HasPages

(* The plan at hand. *)
LEMMA OnPlanAt ==
  ASSUME AdaptersTyped, CrawlInv, at = "pages"
  PROVE  \E i \in 1..Len(Plan) :
           /\ crawled = {Plan[j] : j \in 1..i}
           /\ order = SubSeq(Plan, i, Len(Plan)) /\ url = Plan[i] /\ Head(order) = Plan[i]
           /\ order # <<>> /\ Plan[i] \in found /\ url \in Category
           /\ Len(order) = Len(Plan) - i + 1
           /\ Tail(order) = SubSeq(Plan, i + 1, Len(Plan))
           /\ Len(Tail(order)) = Len(Plan) - i
           /\ Tail(order) # <<>> <=> i < Len(Plan)
           /\ i < Len(Plan) => Head(Tail(order)) = Plan[i + 1] /\ Plan[i + 1] \in found
           /\ \A n \in 2..Len(order) : order[n] = Tail(order)[n - 1]
<1>1. Plan \in Seq(found) /\ found \in SUBSET Category
  BY CandidatesAre DEF Plan, AdaptersTyped, CrawlTyped
<1>2. PICK i \in 1..Len(Plan) :
        crawled = {Plan[j] : j \in 1..i} /\ order = SubSeq(Plan, i, Len(Plan)) /\ url = Plan[i]
  BY DEF CrawlInv, OnPlan
<1> DEFINE p == Plan
           o == SubSeq(p, i, Len(p))
<1>3. p \in Seq(found) /\ i \in 1..Len(p) /\ Len(p) \in Nat
  BY <1>1
<1>4. order = o /\ p[i] \in found /\ url = p[i]
  BY <1>1, <1>2
<1> HIDE DEF p
<1>5. /\ o \in Seq(found) /\ Len(o) = Len(p) - i + 1 /\ o # <<>>
      /\ Head(o) = p[i]
  <2>1. o \in Seq(found) /\ Len(o) = Len(p) - i + 1
    BY <1>3
  <2>2. o[1] = p[i]
    BY <1>3
  <2>3. Len(p) - i + 1 > 0
    BY <1>3
  <2> HIDE DEF o
  <2> QED BY <2>1, <2>2, <2>3
<1>6. Tail(o) = SubSeq(p, i + 1, Len(p)) /\ Len(Tail(o)) = Len(p) - i
  <2>1. Tail(o) \in Seq(found) /\ Len(Tail(o)) = Len(p) - i
    BY <1>3, <1>5
  <2> DEFINE q == SubSeq(p, i + 1, Len(p))
  <2>2. q \in Seq(found) /\ Len(q) = Len(p) - i
    BY <1>3
  <2>3. \A n \in 1..Len(p) - i : Tail(o)[n] = p[i + n] /\ q[n] = p[i + n]
    BY <1>3
  <2> DEFINE t == Tail(o)
  <2> HIDE DEF t, q, o
  <2>4. t = q
    <3>1. Len(p) - i \in Nat
      BY <1>3
    <3>2. t \in Seq(found) /\ Len(t) = Len(p) - i
      BY <2>1 DEF t
    <3>3. \A n \in 1..Len(p) - i : t[n] = q[n]
      BY <2>3 DEF t
    <3> QED BY <2>2, <3>1, <3>2, <3>3
  <2> QED BY <2>1, <2>4 DEF t, q
<1>7. Tail(o) # <<>> <=> i < Len(p)
  <2>1. Tail(o) # <<>> <=> Len(Tail(o)) # 0
    BY <1>5
  <2> HIDE DEF o
  <2> QED BY <1>3, <1>6, <2>1
<1>8. i < Len(p) => Head(Tail(o)) = p[i + 1] /\ p[i + 1] \in found
  BY <1>3, <1>6
<1>9. \A n \in 2..Len(o) : o[n] = Tail(o)[n - 1]
  BY <1>3
<1>10. url \in Category
  BY <1>1, <1>4
<1> QED BY <1>2, <1>3, <1>4, <1>5, <1>6, <1>7, <1>8, <1>9, <1>10 DEF p

(* A page of a category was read. *)
LEMMA ReadPageInv ==
  ASSUME AdaptersInv, ReadPage, platform = "tiendanube", CrawlFrame
  PROVE  AdaptersInv'
<1> USE DEF CrawlFrame
<1>0. AdaptersTyped /\ CallOK /\ SentOK /\ CrawlInv
  BY DEF AdaptersInv
<1> DEFINE B == Ids(Blocks)
<1>a. /\ at = "pages" /\ reply \in {"ok", "refused"}
      /\ pages_fetched' = pages_fetched + 1
      /\ catalog_skipped' = catalog_skipped + Malformed(Blocks)
      /\ UNCHANGED <<robots, fetches, maps, found>>
  BY DEF ReadPage, Response
<1>b. \/ /\ CategoryEnds /\ order' = Tail(order) /\ page' = 1
         /\ previous' = NoPage /\ listings' = listings
      \/ /\ ~CategoryEnds /\ order' = order /\ page' = page + 1
         /\ previous' = B /\ listings' = listings \cup B
  BY DEF ReadPage
<1>c. \/ /\ order' = <<>> \/ pages_fetched' >= MaxCatalogPages
         /\ budget_exhausted' = (order' # <<>>)
         /\ catalog' = listings' /\ skipped' = catalog_skipped'
         /\ at' = "returned" /\ NoCall /\ reported' = reported + skipped'
         /\ crawled' = crawled
      \/ /\ order' # <<>> /\ ~ (pages_fetched' >= MaxCatalogPages)
         /\ at' = "pages" /\ Ask(Head(order'))
         /\ crawled' = crawled \cup {Head(order')}
         /\ UNCHANGED <<skipped, reported, budget_exhausted, catalog>>
  BY DEF ReadPage, GoOn, Finish, Return, Await
<1>d. /\ catalog = NoCatalog /\ reported = 0 /\ skipped = 0 /\ budget_exhausted = FALSE
      /\ pages_fetched < MaxCatalogPages /\ page > 0 /\ page \in Nat
      /\ maps \in Seq(MapUrl \ Unfit)
  BY <1>0, <1>a DEF CrawlInv, CrawlStages, AdaptersTyped, CrawlTyped
<1>e. PICK i \in 1..Len(Plan) :
           /\ crawled = {Plan[j] : j \in 1..i}
           /\ order = SubSeq(Plan, i, Len(Plan)) /\ url = Plan[i] /\ Head(order) = Plan[i]
           /\ order # <<>> /\ Plan[i] \in found /\ url \in Category
           /\ Len(order) = Len(Plan) - i + 1
           /\ Tail(order) = SubSeq(Plan, i + 1, Len(Plan))
           /\ Len(Tail(order)) = Len(Plan) - i
           /\ Tail(order) # <<>> <=> i < Len(Plan)
           /\ i < Len(Plan) => Head(Tail(order)) = Plan[i + 1] /\ Plan[i + 1] \in found
           /\ \A n \in 2..Len(order) : order[n] = Tail(order)[n - 1]
  BY <1>0, <1>a, OnPlanAt
<1>p. Plan' = Plan /\ MapsToRead' = MapsToRead /\ MaxCalls' = MaxCalls /\ Len(Plan) \in Nat
  <2>1. Plan' = Plan /\ MapsToRead' = MapsToRead /\ MaxCalls' = MaxCalls
    BY <1>a DEF Plan, Candidates, Allowed, Allows, MapsToRead, SitemapsToRead, MaxCalls
  <2>2. Plan \in Seq(found)
    BY <1>0, CandidatesAre DEF Plan, AdaptersTyped, CrawlTyped
  <2> QED BY <2>1, <2>2
<1>f. B \in SUBSET Product /\ Malformed(Blocks) \in Nat
  BY <1>0, <1>d, <1>e, BlocksAre
<1>o. order \in Seq(Category) /\ found \in SUBSET Category
  BY <1>0 DEF AdaptersTyped, CrawlTyped
<1> HIDE DEF B
<1>t. Tail(order) \in Seq(Category) /\ Len(Tail(order)) = Len(order) - 1 /\ Len(order) \in Nat
  <2>1. order # <<>>
    BY <1>e
  <2> QED BY <1>o, <2>1
<1>g. order' # <<>> => Head(order') \in Category
  BY <1>b, <1>e, <1>o
<1>1. AdaptersTyped'
  <2>0. listings \in SUBSET Product /\ catalog_skipped \in Nat /\ pages_fetched \in 0..MaxCatalogPages
    BY <1>0 DEF AdaptersTyped, CrawlTyped
  <2>1. listings' \in SUBSET Product /\ catalog_skipped' \in Nat /\ page' \in Nat
        /\ previous' \in (SUBSET Product) \cup {NoPage} /\ pages_fetched' \in 0..MaxCatalogPages
    BY <1>a, <1>b, <1>d, <1>f, <2>0, Constants
  <2>2. order' \in Seq(Category)
    BY <1>b, <1>t, <1>o
  <2>3. catalog' \in (SUBSET Product) \cup {NoCatalog}
    BY <1>c, <1>d, <2>1
  <2>4. budget_exhausted' \in BOOLEAN
    BY <1>c, <1>d
  <2>5. CrawlTyped'
    BY <1>0, <1>a, <2>1, <2>2, <2>3, <2>4 DEF AdaptersTyped, CrawlTyped
  <2>6. url' \in Url \cup {NoUrl} /\ attempt' \in 0..MAX_RETRIES /\ hops' \in 0..MAX_REDIRECTS /\ reply' \in Reply
    BY <1>0, <1>c, <1>g, Constants DEF AdaptersTyped, AdapterTypeOK, ClientTypeOK, Reply, NoCall, Ask
  <2>7. at' \in Stage /\ skipped' \in Nat /\ reported' \in Nat
    BY <1>c, <1>d, <2>1 DEF Stage
  <2>8. robots' \in (SUBSET Url) \cup {NoRobots} /\ fetches' \in 0..MaxFetches
    BY <1>0, <1>a DEF AdaptersTyped, AdapterTypeOK, ClientTypeOK
  <2> QED BY <1>0, <2>5, <2>6, <2>7, <2>8, CrawlKeeps
<1>2. CallOK'
  BY <1>0, <1>a, <1>c, <1>g, Constants DEF CallOK, NoCall, Ask
<1>3. SentOK'
  <2>1. CASE at' \notin Working
    BY <1>0, <1>a, <2>1, NoCallFollows
  <2>2. CASE at' = "pages"
    <3>1. Calls = 3 + MapsToRead + pages_fetched
      BY <1>a, CallsAre
    <3>2. Calls' = 3 + MapsToRead + pages_fetched'
      BY <1>p, <2>2 DEF Calls
    <3>3. MaxCalls = 2 + MAX_SITEMAPS + MaxCatalogPages
      BY BoundIs
    <3>4. MapsToRead \in 0..MAX_SITEMAPS /\ pages_fetched \in Nat
      BY <1>0, SitemapsFew, TypedFacts
    <3>5. attempt' = 0 /\ hops' = 0 /\ reply' = "pending" /\ ~ (pages_fetched' >= MaxCatalogPages)
      BY <1>c, <2>2 DEF Ask
    <3>6. /\ Calls + 1 <= Calls' /\ Calls' <= MaxCalls' /\ 0 <= Calls
          /\ Calls' \in Int /\ MaxCalls' \in Int
      BY <1>a, <1>p, <3>1, <3>2, <3>3, <3>4, <3>5, Constants
    <3> QED BY <1>0, <1>a, <2>2, <3>5, <3>6, NextCall DEF Working
  <2> QED BY <1>c, <2>1, <2>2 DEF Working
<1>4. CrawlStages'
  <2>1. at' = "returned" => catalog' # NoCatalog /\ reported' = catalog_skipped'
    <3>1. listings' \in SUBSET Product /\ catalog_skipped' \in Nat
      BY <1>1 DEF AdaptersTyped, CrawlTyped
    <3>2. listings' # NoCatalog
      BY <3>1, CrawlAssumption
    <3>4. skipped' \in Nat
      BY <1>1 DEF AdaptersTyped, AdapterTypeOK
    <3>5. \A k \in Nat : 0 + k = k
      OBVIOUS
    <3>3. 0 + skipped' = skipped'
      BY <3>4, <3>5, Zenon
    <3> QED BY <1>c, <1>d, <3>2, <3>3
  <2>2. at' = "pages" =>
          /\ catalog' = NoCatalog /\ reported' = 0 /\ skipped' = 0 /\ ~budget_exhausted'
          /\ pages_fetched' < MaxCatalogPages /\ page' > 0
    <3>1. pages_fetched' \in Nat /\ page' \in Nat
      BY <1>1 DEF AdaptersTyped, CrawlTyped
    <3>2. page' > 0
      BY <1>b, <1>d
    <3> QED BY <1>c, <1>d, <3>1, <3>2, Constants
  <2>3. at' \in {"pages", "returned"}
    BY <1>c
  <2> QED BY <1>a, <1>d, <2>1, <2>2, <2>3 DEF CrawlStages, Unread
<1>5. OnPlan'
  <2>1. CASE at' = "returned"
    <3>1. crawled' = crawled
      BY <1>c, <2>1
    <3> QED BY <1>e, <1>p, <2>1, <3>1 DEF OnPlan
  <2>2. CASE at' = "pages" /\ CategoryEnds
    <3>1. /\ order' = Tail(order) /\ order' # <<>>
          /\ url' = Head(order') /\ crawled' = crawled \cup {Head(order')}
      BY <1>b, <1>c, <2>2 DEF Ask
    <3>2. i < Len(Plan) /\ Head(order') = Plan[i + 1] /\ order' = SubSeq(Plan, i + 1, Len(Plan))
      BY <1>e, <3>1
    <3>3. crawled' = {Plan[j] : j \in 1..i + 1}
      BY <1>e, <3>1, <3>2
    <3>4. i + 1 \in 1..Len(Plan)
      BY <1>p, <3>2
    <3> QED BY <1>p, <3>1, <3>2, <3>3, <3>4 DEF OnPlan
  <2>3. CASE at' = "pages" /\ ~CategoryEnds
    <3>1. /\ order' = order
          /\ url' = Head(order') /\ crawled' = crawled \cup {Head(order')}
      BY <1>b, <1>c, <2>3 DEF Ask
    <3>2. crawled' = crawled /\ url' = Plan[i]
      <4>1. i \in 1..i
        BY <1>p
      <4>2. Plan[i] \in crawled
        BY <1>e, <4>1
      <4> QED BY <1>e, <3>1, <4>2
    <3> QED BY <1>e, <1>p, <3>1, <3>2 DEF OnPlan
  <2> QED BY <1>c, <2>1, <2>2, <2>3
<1>6. OrderlyPages(url) =>
        /\ CategoryEnds => Whole(url, listings)
        /\ ~CategoryEnds => /\ HasPages(url, page + 1, listings \cup B)
                            /\ page <= Len(site.pages[url]) => B = Ids(site.pages[url][page])
  BY <1>0, <1>a, <1>e, LastPageRead DEF B
<1>7. \A c : Whole(c, listings) => Whole(c, listings')
  BY <1>b, WholeStays
<1>8. ASSUME Cardinality(found) <= MAX_CANDIDATES, NEW c \in found, Allows(c), OrderlyPages(c)
      PROVE  (\E n \in 1..Len(order') : order'[n] = c) \/ Whole(c, listings')
  <2>1. (\E n \in 1..Len(order) : order[n] = c) \/ Whole(c, listings)
    BY <1>0, <1>8, <1>a DEF CrawlInv, ReadOn
  <2>2. CASE Whole(c, listings)
    BY <1>7, <2>2
  <2>3. CASE ~CategoryEnds
    BY <1>7, <2>1, <1>b, <2>3
  <2>4. CASE CategoryEnds /\ \E n \in 1..Len(order) : order[n] = c
    <3>1. PICK n \in 1..Len(order) : order[n] = c
      BY <2>4
    <3>2. CASE n = 1
      <4>1. order[1] = Head(order)
        BY <1>e, <1>o
      <4> QED BY <1>6, <1>7, <1>8, <1>e, <2>4, <3>1, <3>2, <4>1
    <3>3. CASE n \in 2..Len(order)
      <4>1. order' = Tail(order) /\ order'[n - 1] = c
        BY <1>b, <1>e, <2>4, <3>1, <3>3
      <4>2. Len(order') = Len(order) - 1 /\ Len(order) \in Nat
        BY <1>t, <4>1
      <4>3. n - 1 \in 1..Len(order')
        BY <3>3, <4>2
      <4> QED BY <4>1, <4>3
    <3>4. Len(order) \in Nat
      BY <1>o
    <3> QED BY <3>1, <3>2, <3>3, <3>4
  <2> QED BY <2>1, <2>2, <2>3, <2>4
<1>9. ReadOn'
  <2>1. ASSUME at' = "pages", OrderlyPages(url')
        PROVE  /\ HasPages(url', page', listings')
               /\ page' = 1 => previous' = NoPage
               /\ page' > 1 /\ page' - 1 <= Len(site.pages[url']) =>
                    previous' = Ids(site.pages[url'][page' - 1])
    <3>1. CASE CategoryEnds
      <4>1. page' = 1 /\ previous' = NoPage
        BY <1>b, <3>1
      <4>2. url' \in Category
        BY <1>c, <1>g, <2>1 DEF Ask
      <4>3. DOMAIN site.pages[url'] = 1..Len(site.pages[url']) /\ Len(site.pages[url']) \in Nat
        BY <1>0, <4>2, CrawledStore DEF AdaptersTyped
      <4>4. \A n \in DOMAIN site.pages[url'] : ~ (n < 1)
        BY <4>3
      <4> QED BY <4>1, <4>4 DEF HasPages
    <3>2. CASE ~CategoryEnds
      <4>1. url' = url /\ page' = page + 1 /\ previous' = B /\ listings' = listings \cup B
        BY <1>b, <1>c, <1>e, <2>1, <3>2 DEF Ask
      <4>2. /\ HasPages(url, page + 1, listings \cup B)
            /\ page <= Len(site.pages[url]) => B = Ids(site.pages[url][page])
        BY <1>6, <2>1, <3>2, <4>1
      <4>3. page' # 1 /\ page' - 1 = page
        BY <1>d, <4>1
      <4> QED BY <4>1, <4>2, <4>3
    <3> QED BY <3>1, <3>2
  <2>2. site' = site /\ found' = found /\ robots' = robots
    BY <1>a
  <2> QED BY <1>8, <2>1, <2>2 DEF ReadOn, OrderlyPages, Whole, HasPages, Allows
<1>10. FullCrawlIsWhole'
  <2>1. CASE at' = "pages"
    BY <1>c, <1>d, <2>1 DEF FullCrawlIsWhole
  <2>2. CASE at' = "returned" /\ order' = <<>>
    <3>1. ASSUME Cardinality(found) <= MAX_CANDIDATES, NEW c \in found, Allows(c), OrderlyPages(c)
          PROVE  \A n \in DOMAIN site.pages[c] : Ids(site.pages[c][n]) \subseteq catalog'
      <4>1. Whole(c, listings')
        <5>1. Len(order') = 0
          BY <2>2
        <5> QED BY <1>8, <3>1, <5>1
      <4>2. catalog' = listings'
        BY <1>c, <2>2
      <4>3. DOMAIN site.pages[c] = 1..Len(site.pages[c]) /\ Len(site.pages[c]) \in Nat
        BY <1>0, <1>o, CrawledStore DEF AdaptersTyped
      <4>4. \A n \in DOMAIN site.pages[c] : n < Len(site.pages[c]) + 1
        BY <4>3
      <4> QED BY <4>1, <4>2, <4>4 DEF Whole, HasPages
    <3> QED BY <1>a, <3>1 DEF FullCrawlIsWhole, OrderlyPages, Allows
  <2>3. CASE at' = "returned" /\ order' # <<>>
    <3>1. budget_exhausted'
      BY <1>c, <2>3
    <3> QED BY <3>1 DEF FullCrawlIsWhole
  <2> QED BY <1>c, <2>1, <2>2, <2>3
<1> QED BY <1>1, <1>2, <1>3, <1>4, <1>5, <1>9, <1>10 DEF AdaptersInv, CrawlInv

-----------------------------------------------------------------------------
(* Every step keeps the invariant. *)
LEMMA NextInv == ASSUME AdaptersInv, Next PROVE AdaptersInv'
<1>0. platform \in Platform /\ UNCHANGED <<site, platform>>
  BY TypedFacts DEF AdaptersInv, Next
<1>1. CASE Attempt /\ UNCHANGED <<at, fetches, skipped, reported, crawlVars, pagingVars>>
  BY <1>0, <1>1, AttemptInv DEF crawlVars, pagingVars
<1>2. CASE ClientGaveUp /\ UNCHANGED <<crawlVars, pagingVars>>
  BY <1>0, <1>2, GaveUpInv
<1>3. CASE platform = "tiendanube" /\ CrawlStep /\ UNCHANGED pagingVars
  <2>1. UNCHANGED <<token, cursor, got, too_many>>
    BY <1>3 DEF pagingVars
  <2>2. CASE CacheHit
    BY <1>0, <1>3, <2>1, <2>2, CacheHitInv DEF CrawlFrame, CacheHit
  <2>3. CASE StartCrawl
    BY <1>0, <1>3, <2>1, <2>3, StartCrawlInv DEF CrawlFrame, StartCrawl
  <2>4. CASE ReadRobots
    BY <1>0, <1>3, <2>1, <2>4, ReadRobotsInv DEF CrawlFrame, ReadRobots, Discovering
  <2>5. CASE ReadSitemap
    BY <1>0, <1>3, <2>1, <2>5, ReadSitemapInv DEF CrawlFrame, ReadSitemap, Discovering
  <2>6. CASE ReadHome
    BY <1>0, <1>3, <2>1, <2>6, ReadHomeInv DEF CrawlFrame, ReadHome, Discovering
  <2>7. CASE ReadPage
    BY <1>0, <1>3, <2>1, <2>7, ReadPageInv DEF CrawlFrame, ReadPage
  <2> QED BY <1>3, <2>2, <2>3, <2>4, <2>5, <2>6, <2>7 DEF CrawlStep
<1>4. CASE platform # "tiendanube" /\ PagingStep /\ UNCHANGED crawlVars
  <2>1. UNCHANGED <<maps, found, order, page, previous, pages_fetched, budget_exhausted,
                    listings, catalog, catalog_skipped, crawled>>
    BY <1>4 DEF crawlVars
  <2>2. CASE StartSearch
    BY <1>0, <1>4, <2>1, <2>2, StartSearchInv DEF SearchFrame, StartSearch
  <2>3. CASE CheckRobots
    BY <1>0, <1>4, <2>1, <2>3, CheckRobotsInv DEF SearchFrame, CheckRobots
  <2>4. CASE ReadToken
    BY <1>0, <1>4, <2>1, <2>4, ReadTokenInv DEF SearchFrame, ReadToken
  <2>5. CASE BadResponse
    BY <1>0, <1>4, <2>1, <2>5, BadResponseInv DEF SearchFrame, BadResponse
  <2>6. CASE ReadWooPage
    BY <1>0, <1>4, <2>1, <2>6, ReadWooPageInv DEF SearchFrame, ReadWooPage
  <2>7. CASE ReadWixPage
    BY <1>0, <1>4, <2>1, <2>7, ReadWixPageInv DEF SearchFrame, ReadWixPage
  <2> QED BY <1>4, <2>2, <2>3, <2>4, <2>5, <2>6, <2>7 DEF PagingStep
<1> QED BY <1>1, <1>2, <1>3, <1>4 DEF Next

(* And so does no step. *)
LEMMA StutterInv == ASSUME AdaptersInv, UNCHANGED vars PROVE AdaptersInv'
<1> USE DEF vars, clientVars, adapterVars, crawlVars, pagingVars
<1>1. Plan' = Plan /\ MapsToRead' = MapsToRead /\ MaxCalls' = MaxCalls
  BY DEF Plan, Candidates, Allowed, Allows, MapsToRead, SitemapsToRead, MaxCalls
<1>2. Calls' = Calls
  BY <1>1 DEF Calls
<1>3. AdaptersTyped'
  <2>1. ClientTypeOK' /\ CrawlTyped'
    BY DEF AdaptersInv, AdaptersTyped, AdapterTypeOK, ClientTypeOK, CrawlTyped
  <2> QED BY <2>1 DEF AdaptersInv, AdaptersTyped, AdapterTypeOK
<1>4. CallOK' /\ SentOK'
  BY <1>1, <1>2 DEF AdaptersInv, CallOK, SentOK, RequestsBounded, Tried, Working
<1>5. CrawlInv => CrawlInv'
  <2>1. CrawlStages => CrawlStages'
    BY <1>1 DEF CrawlStages, Unread
  <2>2. OnPlan => OnPlan'
    BY <1>1 DEF OnPlan
  <2>3. ReadOn => ReadOn'
    BY ReadOnStays
  <2>4. FullCrawlIsWhole => FullCrawlIsWhole'
    BY DEF FullCrawlIsWhole, OrderlyPages, Allows
  <2> QED BY <2>1, <2>2, <2>3, <2>4 DEF CrawlInv
<1>6. SearchInv => SearchInv'
  <2>1. SearchStages => SearchStages'
    BY DEF SearchStages, Needed, FirstCursor
  <2>2. SearchHas => SearchHas'
    BY DEF SearchHas, Paginates, Start, PageSize, Regular
  <2> QED BY <2>1, <2>2 DEF SearchInv
<1> QED BY <1>3, <1>4, <1>5, <1>6 DEF AdaptersInv

(* The invariant holds in every state an adapter reaches. *)
THEOREM AdaptersInductive == Spec => []AdaptersInv
<1>1. Init => AdaptersInv
  BY InitInv
<1>2. AdaptersInv /\ [Next]_vars => AdaptersInv'
  BY NextInv, StutterInv
<1> QED BY <1>1, <1>2, PTL DEF Spec

(* The variables keep their types, whatever the store serves. *)
THEOREM TypesCorrect == Spec => []TypeOK
<1>1. AdaptersInv => TypeOK
  <2> SUFFICES ASSUME AdaptersInv PROVE TypeOK
    OBVIOUS
  <2>1. AdaptersTyped
    BY DEF AdaptersInv
  <2>2. crawled \subseteq Category
    <3>1. CASE platform = "tiendanube"
      <4>1. Plan \in Seq(Category)
        BY <2>1, CandidatesAre DEF Plan, AdaptersTyped, CrawlTyped
      <4>2. OnPlan
        BY <3>1 DEF AdaptersInv, CrawlInv
      <4> HIDE DEF Plan
      <4>3. ASSUME NEW i \in 1..Len(Plan) PROVE {Plan[j] : j \in 1..i} \subseteq Category
        BY <4>1
      <4> QED BY <4>2, <4>3 DEF OnPlan
    <3>2. CASE platform # "tiendanube"
      BY <3>2 DEF AdaptersInv, SearchInv, SearchStages
    <3> QED BY <3>1, <3>2
  <2> QED BY <2>1, <2>2 DEF TypeOK, AdaptersTyped, CrawlTyped
<1> QED BY <1>1, AdaptersInductive, PTL

(* However often fetch is called and whatever the store answers, the store is *)
(* sent no more requests than the retries and the caps allow.                 *)
THEOREM RequestsStayBounded == Spec => []RequestsBounded
<1>1. AdaptersInv => RequestsBounded
  BY DEF AdaptersInv, SentOK
<1> QED BY <1>1, AdaptersInductive, PTL

(* A category page, the API and the token page are asked for only with *)
(* robots.txt read and allowing them.                                  *)
THEOREM OnlyAllowedPages == Spec => []PagesAllowed
<1>1. AdaptersInv => PagesAllowed
  <2> SUFFICES ASSUME AdaptersInv, at \in {"pages", "token"} PROVE robots # NoRobots /\ Allows(url)
    BY DEF PagesAllowed
  <2>0. AdaptersTyped /\ robots # NoRobots
    BY DEF AdaptersInv, CallOK
  <2>1. CASE platform = "tiendanube"
    <3>1. at = "pages" /\ OnPlan
      BY <2>1 DEF AdaptersInv, CrawlInv, CrawlStages
    <3>2. PICK i \in 1..Len(Plan) : url = Plan[i]
      BY <3>1 DEF OnPlan
    <3>3. Allows(Plan[i])
      BY <2>0, CandidatesAre DEF Plan, AdaptersTyped, CrawlTyped
    <3> QED BY <2>0, <3>2, <3>3
  <2>2. CASE platform # "tiendanube"
    <3>1. url \in Needed /\ Needed \cap robots = {}
      BY <2>2 DEF AdaptersInv, SearchInv, SearchStages, Needed
    <3> QED BY <2>0, <3>1 DEF Allows
  <2> QED BY <2>1, <2>2
<1> QED BY <1>1, AdaptersInductive, PTL

(* What a budget or the cap cuts off is what mattered least. *)
THEOREM BestCategoriesFirst == Spec => []BestFirst
<1>1. AdaptersInv => BestFirst
  <2> SUFFICES ASSUME AdaptersInv, NEW c \in crawled, NEW d \in found, Allows(d),
                      Rank(d) < Rank(c) \/ (Rank(d) = Rank(c) /\ Len(d) < Len(c))
               PROVE  d \in crawled
    BY DEF BestFirst
  <2>0. AdaptersTyped /\ found \in SUBSET Category
    BY DEF AdaptersInv, AdaptersTyped, CrawlTyped
  <2>1. CASE platform = "tiendanube"
    <3>1. PICK i \in 1..Len(Plan) : crawled = {Plan[j] : j \in 1..i}
      BY <2>1 DEF AdaptersInv, CrawlInv, OnPlan
    <3>2. Plan \in Seq(found) /\
          \A e \in found, n \in 1..Len(Plan) :
              Allows(e) /\ <<e, Plan[n]>> \in ByRank =>
                \E m \in 1..n : Plan[m] = e
      BY <2>0, CandidatesAre DEF Plan
    <3> HIDE DEF Plan
    <3>3. PICK n \in 1..i : c = Plan[n]
      BY <3>1
    <3>4. n \in 1..Len(Plan) /\ c \in Category /\ d \in Category
      BY <2>0, <3>2, <3>3
    <3>5. <<d, c>> \in ByRank
      BY <3>4 DEF ByRank, Broader
    <3>6. PICK m \in 1..n : Plan[m] = d
      BY <3>2, <3>3, <3>4, <3>5
    <3>7. m \in 1..i
      BY <3>2, <3>4
    <3> QED BY <3>1, <3>6, <3>7
  <2>2. CASE platform # "tiendanube"
    BY <2>2 DEF AdaptersInv, SearchInv, SearchStages
  <2> QED BY <2>1, <2>2
<1> QED BY <1>1, AdaptersInductive, PTL

(* A crawl that says it was not cut short has every product on sale of every *)
(* orderly category it may visit.                                            *)
THEOREM FullCrawlsAreWhole == Spec => []FullCrawlIsWhole
<1>1. AdaptersInv => FullCrawlIsWhole
  BY DEF AdaptersInv, CrawlInv, SearchInv, SearchStages, FullCrawlIsWhole
<1> QED BY <1>1, AdaptersInductive, PTL

(* A malformed product of the crawl is reported by one fetch only. *)
THEOREM SkipsReported == Spec => []SkipsReportedOnce
<1>1. AdaptersInv => SkipsReportedOnce
  BY DEF AdaptersInv, CrawlInv, CrawlStages, SkipsReportedOnce
<1> QED BY <1>1, AdaptersInductive, PTL

(* A search of a store that pages as its API says returns every product, once *)
(* and in order.                                                              *)
THEOREM SearchesAreWhole == Spec => []SearchIsWhole
<1>1. AdaptersInv => SearchIsWhole
  BY DEF AdaptersInv, SearchInv, SearchHas, SearchIsWhole, Regular
<1> QED BY <1>1, AdaptersInductive, PTL

(* No attempt of a client but its first goes out less than the courtesy     *)
(* delay after the request before it, be that another attempt or a hop.     *)
THEOREM EveryAttemptIsSpaced == Spec => AttemptsSpaced
<1>1. ASSUME AdaptersInv, [Next]_vars, ~ UNCHANGED clientVars, sent' # sent, sent > 0, hops = 0
      PROVE  waited' >= COURTESY_DELAY
  <2>1. Next
    BY <1>1 DEF vars, clientVars
  <2>2. Attempt
    BY <1>1, <2>1 DEF Next, ClientGaveUp, CrawlStep, CacheHit, StartCrawl, ReadRobots, ReadSitemap,
                      ReadHome, Discovering, ReadPage, PagingStep, StartSearch, CheckRobots,
                      ReadToken, BadResponse, ReadWooPage, ReadWixPage
  <2>3. waited' = (IF attempt > 0 THEN 2^attempt ELSE 0) + COURTESY_DELAY
    <3>1. made
      BY <1>1 DEF AdaptersInv, CallOK
    <3>2. waited' = Pause
      BY <2>2 DEF Attempt, Answered, Redirected, Retry, GivesUp, OutOfRetries, TooManyRedirects,
                  ResponseTooLarge, Send
    <3> QED BY <1>1, <3>1, <3>2 DEF Pause
  <2>4. attempt \in Nat /\ 2^attempt \in Nat /\ COURTESY_DELAY \in Nat
    BY <1>1, TypedFacts, PowersArePositive, Constants DEF AdaptersInv
  <2> QED BY <2>3, <2>4
<1>2. AdaptersInv /\ [Next]_vars => [sent' # sent /\ sent > 0 /\ hops = 0 => waited' >= COURTESY_DELAY]_clientVars
  BY <1>1
<1> QED BY <1>2, AdaptersInductive, PTL DEF Spec, AttemptsSpaced

=============================================================================
