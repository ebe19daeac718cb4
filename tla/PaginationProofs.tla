-------------------------- MODULE PaginationProofs --------------------------
(***************************************************************************)
(* What holds of a walk over a listing, for every finite set of keys,      *)
(* every limit, filter and number of changes: types, that a finished walk  *)
(* met every key that stayed, that records, events and audit entries come  *)
(* once, and that a page of listFilteredPage is what a reader of its code  *)
(* would say it is.  First what List and the two page cutters compute,     *)
(* then the inductive invariant of the walk.                               *)
(***************************************************************************)
EXTENDS Pagination, FiniteSetTheorems, SequenceTheorems, TLAPS

-----------------------------------------------------------------------------
(* The list of a set.                                                      *)

Below(b, k) == {j \in b : j < k}

(* A key has a place in its set, and a greater key a greater one.          *)
LEMMA RankBounds ==
  ASSUME NEW b \in SUBSET Nat, IsFiniteSet(b), NEW k \in b
  PROVE  Rank(b, k) \in 0 .. Cardinality(b) - 1
<1>1. Below(b, k) \in SUBSET (b \ {k})
  BY DEF Below
<1>2. IsFiniteSet(b \ {k}) /\ Cardinality(b \ {k}) = Cardinality(b) - 1
  BY FS_RemoveElement
<1>3. IsFiniteSet(Below(b, k)) /\ Rank(b, k) <= Cardinality(b) - 1
  BY <1>1, <1>2, FS_Subset DEF Rank, Below
<1>4. Rank(b, k) \in Nat /\ Cardinality(b) \in Nat
  BY <1>3, FS_CardinalityType DEF Rank, Below
<1> QED BY <1>3, <1>4

LEMMA RankGrows ==
  ASSUME NEW b \in SUBSET Nat, IsFiniteSet(b), NEW j \in b, NEW k \in b, j < k
  PROVE  Rank(b, j) < Rank(b, k)
<1>1. IsFiniteSet(Below(b, j)) /\ IsFiniteSet(Below(b, k))
  BY FS_Subset DEF Below
<1>2. j \notin Below(b, j) /\ Below(b, j) \cup {j} \in SUBSET Below(b, k)
  <2>1. ASSUME NEW m \in Below(b, j) PROVE m \in Below(b, k)
    <3>1. m \in b /\ m \in Nat /\ m < j /\ j \in Nat /\ k \in Nat
      BY DEF Below
    <3>2. m < k
      BY <3>1
    <3> QED BY <3>1, <3>2 DEF Below
  <2>2. j \in Below(b, k) /\ ~ (j < j)
    BY DEF Below
  <2> QED BY <2>1, <2>2 DEF Below
<1>3. Cardinality(Below(b, j) \cup {j}) = Rank(b, j) + 1
  BY <1>1, <1>2, FS_AddElement DEF Rank, Below
<1>4. Rank(b, j) + 1 <= Rank(b, k)
  BY <1>1, <1>2, <1>3, FS_Subset DEF Rank, Below
<1>5. Rank(b, j) \in Nat /\ Rank(b, k) \in Nat
  BY <1>1, FS_CardinalityType DEF Rank, Below
<1> QED BY <1>4, <1>5

(* Each position has a key: ranks are as many as keys, and all different.  *)
LEMMA RankOnto ==
  ASSUME NEW b \in SUBSET Nat, IsFiniteSet(b), NEW i \in 1 .. Cardinality(b)
  PROVE  \E k \in b : Rank(b, k) = i - 1
<1> DEFINE n == Cardinality(b)
           T == 0 .. n - 1
           f == [k \in b |-> Rank(b, k)]
<1>0. n \in Nat
  BY FS_CardinalityType
<1>1. IsFiniteSet(T) /\ Cardinality(T) = n
  <2>1. 0 \in Int /\ n - 1 \in Int /\ (IF 0 > n - 1 THEN 0 ELSE n - 1 - 0 + 1) = n
    BY <1>0
  <2> QED BY <2>1, FS_Interval
<1>2. f \in [b -> T]
  BY RankBounds
<1>3. f \in Injection(b, T)
  <2> SUFFICES ASSUME NEW j \in b, NEW k \in b, f[j] = f[k] PROVE j = k
    BY <1>2 DEF Injection, IsInjective
  <2> QED BY RankBounds, RankGrows
<1>4. f \in Surjection(b, T)
  BY <1>1, <1>3, FS_Injection
<1>5. i - 1 \in T
  BY <1>0
<1> QED BY <1>4, <1>5 DEF Surjection

(* A list is ascending and has the keys of its set, each once.             *)
LEMMA ListElements ==
  ASSUME NEW b \in SUBSET Nat, IsFiniteSet(b), NEW i \in 1 .. Cardinality(b)
  PROVE  List(b)[i] \in b /\ Rank(b, List(b)[i]) = i - 1
<1>1. List(b)[i] = CHOOSE k \in b : Rank(b, k) = i - 1
  BY DEF List
<1> QED BY <1>1, RankOnto

(* It is a function on its positions, ascending, and leaves out no key.    *)
LEMMA ListProperties ==
  ASSUME NEW b \in SUBSET Nat, IsFiniteSet(b)
  PROVE  /\ List(b) \in Seq(b)
         /\ Len(List(b)) = Cardinality(b) /\ Cardinality(b) \in Nat
         /\ \A i, j \in 1 .. Cardinality(b) : i < j => List(b)[i] < List(b)[j]
         /\ \A k \in b : \E i \in 1 .. Cardinality(b) : List(b)[i] = k
<1>0. Cardinality(b) \in Nat
  BY FS_CardinalityType
<1>1. List(b) \in [1 .. Cardinality(b) -> b]
  <2>1. List(b) = [i \in 1 .. Cardinality(b) |-> List(b)[i]]
    BY DEF List
  <2> QED BY <2>1, ListElements
<1>2. List(b) \in Seq(b) /\ Len(List(b)) = Cardinality(b)
  BY <1>0, <1>1
<1>3. ASSUME NEW i \in 1 .. Cardinality(b), NEW j \in 1 .. Cardinality(b), i < j
      PROVE  List(b)[i] < List(b)[j]
  <2>1. /\ List(b)[i] \in b /\ List(b)[j] \in b
        /\ Rank(b, List(b)[i]) = i - 1 /\ Rank(b, List(b)[j]) = j - 1
    BY ListElements
  <2>2. \A x, y \in b : Rank(b, x) < Rank(b, y) => ~ (x = y) /\ ~ (y < x)
    <3> SUFFICES ASSUME NEW x \in b, NEW y \in b, Rank(b, x) < Rank(b, y), x = y \/ y < x
                 PROVE  FALSE
      OBVIOUS
    <3>1. Rank(b, x) \in Nat /\ Rank(b, y) \in Nat
      BY <1>0, RankBounds
    <3> QED BY <3>1, RankGrows
  <2>3. i - 1 < j - 1
    BY <1>0, <1>3
  <2>4. List(b)[i] \in Nat /\ List(b)[j] \in Nat
    BY <2>1
  <2> QED BY <2>1, <2>2, <2>3, <2>4
<1>4. ASSUME NEW k \in b PROVE \E i \in 1 .. Cardinality(b) : List(b)[i] = k
  <2>1. PICK r \in Nat : r = Rank(b, k) /\ r + 1 \in 1 .. Cardinality(b)
    BY <1>0, RankBounds
  <2>2. PICK x \in b : x = List(b)[r + 1] /\ Rank(b, x) = r
    <3>1. List(b)[r + 1] \in b /\ Rank(b, List(b)[r + 1]) = r + 1 - 1
      BY <2>1, ListElements
    <3>2. r + 1 - 1 = r
      OBVIOUS
    <3> QED BY <3>1, <3>2
  <2>3. ~ (x < k) /\ ~ (k < x)
    BY <2>1, <2>2, RankGrows
  <2> QED BY <2>1, <2>2, <2>3
<1> QED BY <1>0, <1>2, <1>3, <1>4

(* Only one sequence is ascending and has these keys.                      *)
LEMMA ListUnique ==
  ASSUME NEW b \in SUBSET Nat, IsFiniteSet(b), NEW n \in Nat, NEW s \in [1 .. n -> b],
         \A i, j \in 1 .. n : i < j => s[i] < s[j],
         \A k \in b : \E i \in 1 .. n : s[i] = k
  PROVE  n = Cardinality(b) /\ s = List(b)
<1>1. ASSUME NEW i \in 1 .. n, NEW j \in 1 .. n, s[i] = s[j] PROVE i = j
  <2>1. \A x \in b : ~ (x < x)
    OBVIOUS
  <2>2. s[i] \in b /\ s[j] \in b
    OBVIOUS
  <2>3. ~ (s[i] < s[j]) /\ ~ (s[j] < s[i])
    BY <1>1, <2>1, <2>2
  <2> QED BY <2>3
<1>2. s \in Bijection(1 .. n, b)
  BY <1>1 DEF Bijection, Injection, Surjection, IsInjective
<1>3. Cardinality(b) = n
  BY <1>2, FS_CountingElements DEF ExistsBijection
<1>4. ASSUME NEW i \in 1 .. n PROVE s[i] = List(b)[i]
  <2> DEFINE t == [j \in 1 .. i - 1 |-> s[j]]
  <2>1. t \in [1 .. i - 1 -> Below(b, s[i])]
    BY DEF Below
  <2>2. ASSUME NEW k \in Below(b, s[i]) PROVE \E j \in 1 .. i - 1 : t[j] = k
    <3>1. PICK j \in 1 .. n : s[j] = k
      BY DEF Below
    <3>2. k < s[i] /\ k \in Nat /\ s[i] \in Nat
      BY DEF Below
    <3>3. j < i
      BY <3>1, <3>2
    <3> QED BY <3>1, <3>3
  <2>3. t \in Bijection(1 .. i - 1, Below(b, s[i]))
    BY <1>1, <2>1, <2>2 DEF Bijection, Injection, Surjection, IsInjective
  <2>4. Rank(b, s[i]) = i - 1
    BY <2>3, FS_CountingElements DEF ExistsBijection, Rank, Below
  <2>5. PICK x \in b : x = List(b)[i] /\ Rank(b, x) = i - 1
    BY <1>3, ListElements
  <2>6. PICK y \in b : y = s[i] /\ Rank(b, y) = i - 1
    BY <2>4
  <2>7. ~ (x < y) /\ ~ (y < x)
    BY <2>5, <2>6, RankGrows
  <2> QED BY <2>5, <2>6, <2>7
<1>5. List(b) \in [1 .. n -> b]
  BY <1>3, ListProperties
<1> QED BY <1>3, <1>4, <1>5

(* The first n of a list.                                                  *)
LEMMA TakeProperties ==
  ASSUME NEW S, NEW s \in Seq(S), NEW n \in Nat
  PROVE  /\ Take(s, n) \in Seq(S)
         /\ Len(Take(s, n)) = IF Len(s) < n THEN Len(s) ELSE n
         /\ \A i \in 1 .. Len(Take(s, n)) : Take(s, n)[i] = s[i]
<1> DEFINE m == IF Len(s) < n THEN Len(s) ELSE n
<1>1. m \in Nat /\ m <= Len(s)
  OBVIOUS
<1>2. \A i \in 1 .. m : s[i] \in S
  BY <1>1
<1>3. /\ SubSeq(s, 1, m) \in Seq(S) /\ Len(SubSeq(s, 1, m)) = IF 1 <= m THEN m - 1 + 1 ELSE 0
      /\ \A i \in 1 .. m - 1 + 1 : SubSeq(s, 1, m)[i] = s[1 + i - 1]
  BY <1>1, <1>2, SubSeqProperties
<1>4. Take(s, n) = SubSeq(s, 1, m)
  BY DEF Take
<1> HIDE DEF m
<1>5. Len(Take(s, n)) = m /\ \A i \in 1 .. m : Take(s, n)[i] = s[i]
  BY <1>1, <1>3, <1>4
<1> QED BY <1>3, <1>4, <1>5 DEF m

(* The first n keys of a set are ascending, and none up to the last of     *)
(* them is left out; when they are fewer than n, none is left out at all.  *)
FirstOf(b, t, n) ==
  /\ t \in Seq(b) /\ Len(t) \in 0 .. n
  /\ \A i, j \in 1 .. Len(t) : i < j => t[i] < t[j]
  /\ \A k \in b : t = <<>> \/ Len(t) < n \/ k <= t[Len(t)] => \E i \in 1 .. Len(t) : t[i] = k

(* Take and List cut the first keys of a set: bbolt.go:109-152.            *)
LEMMA FirstKeys ==
  ASSUME NEW b \in SUBSET Nat, IsFiniteSet(b), NEW n \in Nat \ {0}
  PROVE  FirstOf(b, Take(List(b), n), n)
<1> DEFINE t == Take(List(b), n)
           s == List(b)
           c == Cardinality(b)
<1>1. /\ s \in Seq(b) /\ Len(s) = c /\ c \in Nat
      /\ \A i, j \in 1 .. c : i < j => s[i] < s[j]
      /\ \A k \in b : \E i \in 1 .. c : s[i] = k
  BY ListProperties
<1> HIDE DEF s, c
<1>2. /\ t \in Seq(b) /\ Len(t) = IF c < n THEN c ELSE n
      /\ \A i \in 1 .. Len(t) : t[i] = s[i]
  BY <1>1, TakeProperties DEF s
<1> HIDE DEF t
<1>3. Len(t) \in 0 .. n /\ Len(t) <= c
  BY <1>1, <1>2
<1>4. ASSUME NEW k \in b, t = <<>> \/ Len(t) < n \/ k <= t[Len(t)]
      PROVE  \E i \in 1 .. Len(t) : t[i] = k
  <2>1. PICK i \in 1 .. c : s[i] = k
    BY <1>1
  <2>2. CASE i <= Len(t)
    BY <1>2, <1>3, <2>1, <2>2
  <2>3. CASE ~ (i <= Len(t))
    <3>1. Len(t) = n
      BY <1>1, <1>2, <2>3
    <3>2. Len(t) \in 1 .. c /\ Len(t) < i /\ t # <<>>
      BY <1>1, <1>3, <2>3, <3>1
    <3>3. t[Len(t)] < k
      BY <1>1, <1>2, <2>1, <3>2
    <3>4. t[Len(t)] \in b
      BY <1>2, <1>3, <3>2, ElementOfSeq
    <3>5. \A x, y \in b : x < y => ~ (y <= x)
      OBVIOUS
    <3>6. ~ (k <= t[Len(t)])
      BY <3>3, <3>4, <3>5
    <3> QED BY <1>4, <3>1, <3>2, <3>6
  <2> QED BY <1>3, <2>2, <2>3
<1>5. \A i, j \in 1 .. Len(t) : i < j => t[i] < t[j]
  BY <1>1, <1>2, <1>3
<1> QED BY <1>2, <1>3, <1>4, <1>5 DEF t, FirstOf

-----------------------------------------------------------------------------
(* The page of listFilteredPage.                                           *)

(* The keys it can give: those that match, behind the cursor if that is    *)
(* found.                                                                  *)
Found(b, c, f) == c \in b /\ MatchesFilter(c, f)
Rest(b, c, f) == {k \in b : MatchesFilter(k, f) /\ (Found(b, c, f) => c < k)}

(* listFilteredPage starts at the first key behind a cursor it finds, and  *)
(* at the first key of all otherwise: handlers.go:555-568.                 *)
LEMMA StartBehind ==
  ASSUME NEW b \in SUBSET Nat, IsFiniteSet(b), NEW c, NEW f
  PROVE  /\ Start(List(b), c, f) \in Nat \ {0}
         /\ \A i \in 1 .. Cardinality(b) :
              i >= Start(List(b), c, f) <=> (Found(b, c, f) => c < List(b)[i])
<1> DEFINE s == List(b)
           n == Cardinality(b)
           Hit(i) == s[i] = c
<1>1. /\ s \in [1 .. n -> b] /\ DOMAIN s = 1 .. n /\ n \in Nat
      /\ \A i, j \in 1 .. n : i < j => s[i] < s[j]
      /\ \A k \in b : \E i \in 1 .. n : s[i] = k
  BY ListProperties
<1>2. Start(s, c, f) = (IF c \in ToSet(s) /\ MatchesFilter(c, f)
                        THEN CHOOSE i \in DOMAIN s : Hit(i) ELSE 0) + 1
  BY DEF Start, CursorAt
<1> HIDE DEF s, n
<1>3. c \in ToSet(s) <=> c \in b
  BY <1>1 DEF ToSet
<1>4. CASE Found(b, c, f)
  <2>1. PICK m \in 1 .. n : m = CHOOSE i \in DOMAIN s : Hit(i)
    BY <1>1, <1>4 DEF Found
  <2>2. s[m] = c
    BY <1>1, <1>4, <2>1 DEF Found
  <2>3. Start(s, c, f) = m + 1
    BY <1>2, <1>3, <1>4, <2>1 DEF Found
  <2>4. ASSUME NEW i \in 1 .. n PROVE i >= m + 1 <=> c < s[i]
    <3>1. s[i] \in b /\ c \in b /\ (\A x, y \in b : x < y => ~ (y < x)) /\ (\A x \in b : ~ (x < x))
      BY <1>1, <1>4 DEF Found
    <3>2. CASE i >= m + 1
      BY <1>1, <2>2, <3>2
    <3>3. CASE i = m
      BY <2>2, <3>1, <3>3
    <3>4. CASE i < m
      <4>1. s[i] < c
        BY <1>1, <2>2, <3>4
      <4>2. ~ (c < s[i])
        BY <3>1, <4>1
      <4>3. ~ (i >= m + 1)
        BY <3>4, <1>1
      <4> QED BY <4>2, <4>3
    <3> QED BY <1>1, <3>2, <3>3, <3>4
  <2> QED BY <1>4, <2>3, <2>4 DEF s, n
<1>5. CASE ~ Found(b, c, f)
  <2>1. Start(s, c, f) = 1
    BY <1>2, <1>3, <1>5 DEF Found
  <2> QED BY <1>1, <1>5, <2>1 DEF s, n
<1> QED BY <1>4, <1>5

(* The positions it collects are those of the first n keys of Rest.        *)
LEMMA FilteredKeys ==
  ASSUME NEW b \in SUBSET Nat, IsFiniteSet(b), NEW c, NEW n \in Nat, NEW f
  PROVE  FilteredPage(b, c, n, f).keys = Take(List(Rest(b, c, f)), n)
<1> DEFINE s == List(b)
           st == Start(s, c, f)
           P == {i \in st .. Len(s) : MatchesFilter(s[i], f)}
           R == Rest(b, c, f)
           p == Cardinality(P)
           H == List(P)
           hits == Take(H, n)
           out == [i \in DOMAIN hits |-> s[hits[i]]]
           g == [i \in 1 .. p |-> s[H[i]]]
           t == Take(List(R), n)
<1>1. /\ s \in [1 .. Len(s) -> b] /\ Len(s) \in Nat /\ Len(s) = Cardinality(b)
      /\ \A i, j \in 1 .. Len(s) : i < j => s[i] < s[j]
      /\ \A k \in b : \E i \in 1 .. Len(s) : s[i] = k
  BY ListProperties
<1>2. /\ st \in Nat \ {0}
      /\ \A i \in 1 .. Len(s) : i >= st <=> (Found(b, c, f) => c < s[i])
  BY <1>1, StartBehind
<1>3. FilteredPage(b, c, n, f).keys = out
  BY DEF FilteredPage, Hits
<1> HIDE DEF s, st
<1>4. P \in SUBSET (1 .. Len(s)) /\ P \in SUBSET Nat /\ IsFiniteSet(P)
  <2>1. IsFiniteSet(1 .. Len(s)) /\ P \in SUBSET (1 .. Len(s))
    BY <1>1, <1>2, FS_Interval
  <2> QED BY <2>1, FS_Subset
<1>5. R \in SUBSET b /\ R \in SUBSET Nat /\ IsFiniteSet(R)
  BY FS_Subset DEF Rest
<1> HIDE DEF P, R
<1>6. /\ H \in Seq(P) /\ Len(H) = p /\ p \in Nat
      /\ \A i, j \in 1 .. p : i < j => H[i] < H[j]
      /\ \A k \in P : \E i \in 1 .. p : H[i] = k
  BY <1>4, ListProperties
<1> HIDE DEF H, p
<1>7. /\ hits \in Seq(P) /\ Len(hits) = IF Len(H) < n THEN Len(H) ELSE n
      /\ \A i \in 1 .. Len(hits) : hits[i] = H[i]
  BY <1>6, TakeProperties
<1> HIDE DEF hits
<1>8. g \in [1 .. p -> R]
  <2> SUFFICES ASSUME NEW i \in 1 .. p PROVE s[H[i]] \in R
    OBVIOUS
  <2>1. H[i] \in P
    BY <1>6
  <2> QED BY <1>1, <1>2, <1>4, <2>1 DEF Rest, P, R
<1>9. \A i, j \in 1 .. p : i < j => g[i] < g[j]
  <2> SUFFICES ASSUME NEW i \in 1 .. p, NEW j \in 1 .. p, i < j PROVE s[H[i]] < s[H[j]]
    OBVIOUS
  <2>1. H[i] \in P /\ H[j] \in P /\ H[i] < H[j]
    BY <1>6
  <2>2. H[i] \in 1 .. Len(s) /\ H[j] \in 1 .. Len(s)
    BY <1>4, <2>1
  <2> QED BY <1>1, <2>1, <2>2
<1>10. ASSUME NEW k \in R PROVE \E i \in 1 .. p : g[i] = k
  <2>1. k \in b /\ MatchesFilter(k, f) /\ (Found(b, c, f) => c < k)
    BY DEF Rest, R
  <2>2. PICK j \in 1 .. Len(s) : s[j] = k
    BY <1>1, <2>1
  <2>3. j \in P
    BY <1>1, <1>2, <2>1, <2>2 DEF P
  <2> QED BY <1>6, <2>2, <2>3
<1>11. p = Cardinality(R) /\ g = List(R)
  BY <1>5, <1>6, <1>8, <1>9, <1>10, ListUnique
<1>12. /\ t \in Seq(R) /\ Len(t) = IF p < n THEN p ELSE n
       /\ \A i \in 1 .. Len(t) : t[i] = List(R)[i]
  <2>1. List(R) \in Seq(R) /\ Len(List(R)) = p
    BY <1>5, <1>11, ListProperties
  <2> QED BY <2>1, TakeProperties
<1> HIDE DEF t, g
<1>13. Len(t) \in Nat /\ Len(t) <= p /\ Len(hits) = Len(t)
  BY <1>6, <1>7, <1>12
<1>14. DOMAIN hits = 1 .. Len(t) /\ t \in [1 .. Len(t) -> R]
  BY <1>7, <1>12, <1>13
<1>15. ASSUME NEW i \in 1 .. Len(t) PROVE s[hits[i]] = t[i]
  <2>1. i \in 1 .. p /\ hits[i] = H[i] /\ t[i] = g[i]
    BY <1>6, <1>7, <1>11, <1>12, <1>13
  <2> QED BY <2>1 DEF g
<1>16. out = t
  BY <1>14, <1>15
<1> QED BY <1>3, <1>16 DEF t, R

(* It gives a next_cursor when a key that matches follows its last one.    *)
LEMMA FilteredNext ==
  ASSUME NEW b \in SUBSET Nat, IsFiniteSet(b), NEW c, NEW n \in Nat, NEW f,
         NEW p, p = FilteredPage(b, c, n, f)
  PROVE  p.next = IF p.keys # <<>> /\ \E k \in b : MatchesFilter(k, f) /\ p.keys[Len(p.keys)] < k
                  THEN p.keys[Len(p.keys)] ELSE None
<1> DEFINE s == List(b)
           R == Rest(b, c, f)
           out == p.keys
           last == out[Len(out)]
<1>1. /\ DOMAIN s = 1 .. Len(s) /\ Len(s) \in Nat /\ \A i \in 1 .. Len(s) : s[i] \in b
      /\ \A i, j \in 1 .. Len(s) : i < j => s[i] < s[j]
      /\ \A k \in b : \E i \in 1 .. Len(s) : s[i] = k
  BY ListProperties
<1>2. R \in SUBSET b /\ R \in SUBSET Nat /\ IsFiniteSet(R)
  BY FS_Subset DEF Rest
<1>3. p.next = IF out # <<>> /\ HasMore(out, s, f, n) THEN Last(out) ELSE None
  BY DEF FilteredPage
<1>4. out \in Seq(R)
  <2>1. List(R) \in Seq(R)
    BY <1>2, ListProperties
  <2> QED BY <2>1, FilteredKeys, TakeProperties
<1> HIDE DEF s, R, out
<1>5. ASSUME out # <<>> PROVE HasMore(out, s, f, n) <=> \E k \in b : MatchesFilter(k, f) /\ last < k
  <2>1. last \in b /\ Last(out) = last
    <3>1. Len(out) \in 1 .. Len(out)
      BY <1>4, <1>5
    <3> QED BY <1>2, <1>4, <3>1, ElementOfSeq DEF Last
  <2>2. PICK i \in 1 .. Len(s) : s[i] = last
    BY <1>1, <2>1
  <2>3. \A x, y \in b : x < y => ~ (x = y) /\ ~ (y < x)
    OBVIOUS
  <2>4. ASSUME NEW j \in 1 .. Len(s) PROVE last < s[j] <=> i < j
    <3>1. i < j \/ i = j \/ j < i
      BY <1>1
    <3> QED BY <1>1, <2>1, <2>2, <2>3, <3>1
  <2>5. ASSUME NEW j \in 1 .. Len(s), s[j] = last PROVE j = i
    <3>1. s[j] \in b /\ s[i] \in b /\ s[j] = s[i] /\ (i < j \/ i = j \/ j < i)
      BY <1>1, <2>2, <2>5
    <3>2. ~ (s[i] < s[j]) /\ ~ (s[j] < s[i])
      BY <2>3, <3>1
    <3> QED BY <1>1, <3>1, <3>2
  <2>6. ASSUME HasMore(out, s, f, n) PROVE \E k \in b : MatchesFilter(k, f) /\ last < k
    <3>1. PICK m \in 1 .. Len(s), j \in 1 .. Len(s) :
            m < j /\ s[m] = last /\ MatchesFilter(s[j], f)
      BY <1>1, <2>1, <2>6 DEF HasMore
    <3> QED BY <1>1, <2>4, <2>5, <3>1
  <2>7. ASSUME NEW k \in b, MatchesFilter(k, f), last < k PROVE HasMore(out, s, f, n)
    <3>1. PICK j \in 1 .. Len(s) : s[j] = k
      BY <1>1
    <3>2. i < j /\ MatchesFilter(s[j], f) /\ s[i] = Last(out)
      BY <2>1, <2>2, <2>4, <2>7, <3>1
    <3> QED BY <1>1, <3>2 DEF HasMore
  <2> QED BY <2>6, <2>7
<1>6. CASE out = <<>>
  BY <1>3, <1>6 DEF out
<1>7. CASE out # <<>>
  BY <1>3, <1>5, <1>7 DEF out, Last
<1> QED BY <1>6, <1>7

-----------------------------------------------------------------------------
(* What a page is worth: of the keys on offer it has those up to its       *)
(* next_cursor, or all if there is none, in ascending order.               *)
PageOf(b, p, n) ==
  /\ p.keys \in Seq(b) /\ Len(p.keys) \in 0 .. n
  /\ \A i, j \in 1 .. Len(p.keys) : i < j => p.keys[i] < p.keys[j]
  /\ p.next # None => p.keys # <<>> /\ p.next = p.keys[Len(p.keys)]
  /\ \A k \in b : p.next = None \/ k <= p.next => \E i \in 1 .. Len(p.keys) : p.keys[i] = k

(* BBoltStore.ListPage is worth a page of the keys behind its cursor.      *)
LEMMA StorePageOf ==
  ASSUME NEW b \in SUBSET Nat, IsFiniteSet(b), NEW c, NEW n \in Nat \ {0}, NEW p, p = StorePage(b, c, n)
  PROVE  PageOf({k \in b : After(k, c)}, p, n)
<1> DEFINE B == {k \in b : After(k, c)}
           t == Take(List(B), n)
<1>1. B \in SUBSET Nat /\ IsFiniteSet(B)
  BY FS_Subset
<1> HIDE DEF B
<1>2. p.keys = t /\ p.next = IF Len(t) < n THEN None ELSE t[Len(t)]
  BY DEF StorePage, NextCursor, Last, B
<1>3. FirstOf(B, t, n)
  BY <1>1, FirstKeys
<1> HIDE DEF t
<1>4. /\ t \in Seq(B) /\ Len(t) \in 0 .. n
      /\ \A i, j \in 1 .. Len(t) : i < j => t[i] < t[j]
      /\ \A k \in B : t = <<>> \/ Len(t) < n \/ k <= t[Len(t)] => \E i \in 1 .. Len(t) : t[i] = k
  BY <1>3 DEF FirstOf
<1>5. ~ (Len(t) < n) => t # <<>>
  BY <1>4
<1>6. CASE Len(t) < n
  BY <1>2, <1>4, <1>6 DEF PageOf, B
<1>7. CASE ~ (Len(t) < n)
  <2>1. p.next = t[Len(t)] /\ t # <<>>
    BY <1>2, <1>5, <1>7
  <2>2. t[Len(t)] \in Nat
    <3>1. Len(t) \in 1 .. Len(t)
      BY <1>4, <2>1
    <3> QED BY <1>1, <1>4, <3>1, ElementOfSeq
  <2>3. p.next # None
    BY <2>1, <2>2, PaginationAssumption
  <2> QED BY <1>2, <1>4, <2>1, <2>3 DEF PageOf, B
<1> QED BY <1>6, <1>7

(* And listFilteredPage a page of the keys that match behind its own.      *)
LEMMA FilteredPageOf ==
  ASSUME NEW b \in SUBSET Nat, IsFiniteSet(b), NEW c, NEW n \in Nat \ {0}, NEW f,
         NEW p, p = FilteredPage(b, c, n, f)
  PROVE  PageOf(Rest(b, c, f), p, n)
<1> DEFINE R == Rest(b, c, f)
           t == p.keys
<1>1. R \in SUBSET Nat /\ R \in SUBSET b /\ IsFiniteSet(R)
  BY FS_Subset DEF Rest
<1>2. p.next = IF t # <<>> /\ \E k \in b : MatchesFilter(k, f) /\ t[Len(t)] < k
               THEN t[Len(t)] ELSE None
  BY FilteredNext
<1>3. t = Take(List(R), n)
  BY FilteredKeys
<1> HIDE DEF t
<1>0. FirstOf(R, t, n)
  BY <1>1, <1>3, FirstKeys
<1> HIDE DEF R
<1>4. /\ t \in Seq(R) /\ Len(t) \in 0 .. n
      /\ \A i, j \in 1 .. Len(t) : i < j => t[i] < t[j]
      /\ \A k \in R : t = <<>> \/ Len(t) < n \/ k <= t[Len(t)] => \E i \in 1 .. Len(t) : t[i] = k
  BY <1>0 DEF FirstOf
<1>5. ASSUME NEW k \in R, p.next = None \/ k <= p.next, t # <<>> PROVE k <= t[Len(t)]
  <2>1. t[Len(t)] \in R
    <3>1. Len(t) \in 1 .. Len(t)
      BY <1>4, <1>5
    <3> QED BY <1>4, <3>1, ElementOfSeq
  <2>2. CASE t[Len(t)] < k
    <3>1. k \in b /\ MatchesFilter(k, f)
      BY DEF R, Rest
    <3>2. p.next = t[Len(t)]
      BY <1>2, <1>5, <2>2, <3>1
    <3>3. p.next # None
      BY <1>1, <2>1, <3>2, PaginationAssumption
    <3> QED BY <1>5, <3>2, <3>3
  <2>3. CASE ~ (t[Len(t)] < k)
    <3>1. \A x, y \in R : ~ (x < y) => y <= x
      BY <1>1
    <3> QED BY <2>1, <2>3, <3>1
  <2> QED BY <2>2, <2>3
<1>6. ASSUME NEW k \in R, p.next = None \/ k <= p.next PROVE \E i \in 1 .. Len(t) : t[i] = k
  <2>1. t = <<>> \/ k <= t[Len(t)]
    BY <1>5, <1>6
  <2> QED BY <1>4, <2>1
<1> QED BY <1>2, <1>4, <1>6 DEF PageOf, t, R

-----------------------------------------------------------------------------
(* The inductive invariant of a walk.                                      *)

Ascending(s) == \A i, j \in DOMAIN s : i < j => s[i] < s[j]

UpTo(s, k) == \A i \in DOMAIN s : s[i] <= k

(* A walk begins with nothing, and only a walk over records has a page of  *)
(* keys whose records it reads.                                            *)
Starts ==
  /\ client = "new" => seen = <<>> /\ cursor = None
  /\ client = "loading" => listing = "records"

(* A key that stayed is never behind the walk unless it was met: behind    *)
(* the cursor between two requests, behind the next one while records are  *)
(* read, where it may still be among the keys to read.                     *)
NothingSkipped ==
  /\ client = "asking" =>
       \A k \in stable \cap Wanted : cursor # None /\ k <= cursor => k \in ToSet(seen)
  /\ client = "loading" =>
       \A k \in stable : next = None \/ k <= next => k \in ToSet(seen) \cup ToSet(page)

(* What was seen is ascending and ends at the cursor.  The cursor of events*)
(* and audit entries is found again: nothing deletes it.                   *)
InOrder ==
  listing # "artifacts" =>
    /\ Ascending(seen)
    /\ client = "asking" => IF cursor = None THEN seen = <<>> ELSE UpTo(seen, cursor)
    /\ client = "asking" /\ cursor # None /\ listing # "records" =>
         Found(bucket, cursor, filter)
    /\ client = "loading" =>
         /\ Ascending(page)
         /\ \A i \in DOMAIN seen, j \in DOMAIN page : seen[i] < page[j]
         /\ next # None => UpTo(seen, next) /\ UpTo(page, next)

IInv == TypeOK /\ Starts /\ NothingSkipped /\ WalkComplete /\ InOrder

-----------------------------------------------------------------------------
(* Sequences of keys.                                                      *)

(* A bucket is a finite set of numbers, and no key is the empty cursor.    *)
LEMMA Bounded ==
  ASSUME TypeOK
  PROVE  bucket \in SUBSET Nat /\ IsFiniteSet(bucket) /\ None \notin Keys
BY PaginationAssumption, FS_Subset DEF TypeOK

(* parseLimit: a limit that is not refused is between 1 and MaxLimit.      *)
LEMMA LimitBounds ==
  ASSUME NEW n \in Limits, ~ BadLimit(n)
  PROVE  Limit(n) \in 1 .. MaxLimit /\ Limit(n) \in Nat \ {0}
<1>1. CASE n = None
  BY <1>1, PaginationAssumption DEF Limit
<1>2. CASE n # None /\ n > MaxLimit
  <2>1. Limit(n) = MaxLimit
    BY <1>2 DEF Limit
  <2> QED BY <2>1, PaginationAssumption
<1>3. CASE n # None /\ ~ (n > MaxLimit)
  <2>1. Limit(n) = n
    BY <1>3 DEF Limit
  <2>2. n \in Nat /\ ~ (n < 1)
    BY <1>3, PaginationAssumption DEF BadLimit
  <2> QED BY <1>3, <2>1, <2>2, PaginationAssumption
<1> QED BY <1>1, <1>2, <1>3

(* A page, in the terms of the invariant.                                  *)
Fits(b, p) ==
  /\ p.keys \in Seq(Keys) /\ Len(p.keys) <= MaxLimit
  /\ \A i \in DOMAIN p.keys : p.keys[i] \in b
  /\ p.next \in Keys \cup {None}
  /\ Ascending(p.keys)
  /\ p.next # None => p.next \in b /\ UpTo(p.keys, p.next)
  /\ \A k \in b : p.next = None \/ k <= p.next => k \in ToSet(p.keys)

(* Both page cutters give such pages.                                      *)
LEMMA PageFits ==
  ASSUME NEW b \in SUBSET Keys, NEW n \in 1 .. MaxLimit, NEW p, PageOf(b, p, n)
  PROVE  Fits(b, p)
<1> DEFINE t == p.keys
<1>0. Keys \subseteq Nat /\ MaxLimit \in Nat /\ n \in Nat /\ n <= MaxLimit
  BY PaginationAssumption
<1>1. /\ t \in Seq(b) /\ Len(t) \in 0 .. n
      /\ \A i, j \in 1 .. Len(t) : i < j => t[i] < t[j]
      /\ p.next # None => t # <<>> /\ p.next = t[Len(t)]
      /\ \A k \in b : p.next = None \/ k <= p.next => \E i \in 1 .. Len(t) : t[i] = k
  BY DEF PageOf
<1> HIDE DEF t
<1>2. DOMAIN t = 1 .. Len(t) /\ t \in Seq(Keys) /\ Len(t) <= MaxLimit /\ \A i \in 1 .. Len(t) : t[i] \in b
  <2>1. \A i \in 1 .. Len(t) : t[i] \in b
    BY <1>1, ElementOfSeq
  <2>2. Len(t) \in Nat /\ Len(t) <= MaxLimit
    BY <1>0, <1>1
  <2>3. t = [i \in 1 .. Len(t) |-> t[i]]
    BY <1>1
  <2> QED BY <2>1, <2>2, <2>3
<1>3. Ascending(t)
  BY <1>1, <1>2 DEF Ascending
<1>4. ASSUME p.next # None PROVE p.next \in b /\ UpTo(t, p.next)
  <2>1. Len(t) \in 1 .. Len(t) /\ p.next = t[Len(t)]
    BY <1>1, <1>4
  <2>2. ASSUME NEW i \in 1 .. Len(t) PROVE t[i] <= t[Len(t)]
    <3>1. i = Len(t) \/ i < Len(t)
      BY <2>1
    <3>2. \A x, y \in b : x < y \/ x = y => x <= y
      BY <1>0
    <3> QED BY <1>1, <1>2, <2>1, <3>1, <3>2
  <2> QED BY <1>2, <2>1, <2>2 DEF UpTo
<1>5. \A k \in b : p.next = None \/ k <= p.next => k \in ToSet(t)
  BY <1>1, <1>2 DEF ToSet
<1>6. p.next \in Keys \cup {None}
  BY <1>4
<1> QED BY <1>2, <1>3, <1>4, <1>5, <1>6 DEF Fits, t

(* What two sequences of keys give one after the other.                    *)
LEMMA Joined ==
  ASSUME NEW s \in Seq(Keys), NEW t \in Seq(Keys)
  PROVE  /\ s \o t \in Seq(Keys)
         /\ ToSet(s \o t) = ToSet(s) \cup ToSet(t)
         /\ Ascending(s) /\ Ascending(t) /\ (\A i \in DOMAIN s, j \in DOMAIN t : s[i] < t[j])
              => Ascending(s \o t)
         /\ \A c : UpTo(s, c) /\ UpTo(t, c) => UpTo(s \o t, c)
<1> DEFINE u == s \o t
<1>1. /\ u \in Seq(Keys) /\ DOMAIN s = 1 .. Len(s) /\ DOMAIN t = 1 .. Len(t)
      /\ Len(s) \in Nat /\ Len(t) \in Nat /\ DOMAIN u = 1 .. (Len(s) + Len(t))
      /\ \A i \in 1 .. Len(s) : u[i] = s[i]
      /\ \A j \in 1 .. Len(t) : u[Len(s) + j] = t[j]
  OBVIOUS
<1> HIDE DEF u
<1>2. ASSUME NEW m \in DOMAIN u
      PROVE  \/ m \in 1 .. Len(s) /\ u[m] = s[m]
             \/ \E j \in 1 .. Len(t) : m = Len(s) + j /\ u[m] = t[j]
  <2>1. CASE m <= Len(s)
    BY <1>1, <2>1
  <2>2. CASE ~ (m <= Len(s))
    <3>1. m - Len(s) \in 1 .. Len(t) /\ m = Len(s) + (m - Len(s))
      BY <1>1, <2>2
    <3> QED BY <1>1, <3>1
  <2> QED BY <2>1, <2>2
<1>3. ToSet(u) = ToSet(s) \cup ToSet(t)
  <2>1. ASSUME NEW x \in ToSet(u) PROVE x \in ToSet(s) \cup ToSet(t)
    BY <1>1, <1>2 DEF ToSet
  <2>2. ASSUME NEW x \in ToSet(s) PROVE x \in ToSet(u)
    <3>1. PICK i \in 1 .. Len(s) : s[i] = x
      BY <1>1 DEF ToSet
    <3>2. i \in DOMAIN u /\ u[i] = x
      BY <1>1, <3>1
    <3> QED BY <3>2 DEF ToSet
  <2>3. ASSUME NEW x \in ToSet(t) PROVE x \in ToSet(u)
    <3>1. PICK j \in 1 .. Len(t) : t[j] = x
      BY <1>1 DEF ToSet
    <3>2. Len(s) + j \in DOMAIN u /\ u[Len(s) + j] = x
      BY <1>1, <3>1
    <3> QED BY <3>2 DEF ToSet
  <2> QED BY <2>1, <2>2, <2>3
<1>4. ASSUME Ascending(s), Ascending(t), \A i \in DOMAIN s, j \in DOMAIN t : s[i] < t[j],
             NEW i \in DOMAIN u, NEW j \in DOMAIN u, i < j
      PROVE  u[i] < u[j]
  <2>1. CASE j \in 1 .. Len(s) /\ u[j] = s[j]
    <3>1. i \in 1 .. Len(s) /\ u[i] = s[i]
      BY <1>1, <1>4, <2>1
    <3> QED BY <1>1, <1>4, <2>1, <3>1 DEF Ascending
  <2>2. ASSUME NEW y \in 1 .. Len(t), j = Len(s) + y, u[j] = t[y] PROVE u[i] < u[j]
    <3>1. CASE i \in 1 .. Len(s) /\ u[i] = s[i]
      BY <1>1, <1>4, <2>2, <3>1
    <3>2. ASSUME NEW x \in 1 .. Len(t), i = Len(s) + x, u[i] = t[x] PROVE u[i] < u[j]
      <4>1. x < y
        BY <1>1, <1>4, <2>2, <3>2
      <4> QED BY <1>1, <1>4, <2>2, <3>2, <4>1 DEF Ascending
    <3> QED BY <1>2, <3>1, <3>2
  <2> QED BY <1>2, <2>1, <2>2
<1>5. ASSUME NEW c, UpTo(s, c), UpTo(t, c) PROVE UpTo(u, c)
  BY <1>1, <1>2, <1>5 DEF UpTo
<1> QED BY <1>1, <1>3, <1>4, <1>5 DEF u, Ascending

(* The empty sequence is ascending and below every cursor.                 *)
LEMMA Nothing ==
  ASSUME NEW c
  PROVE  Ascending(<<>>) /\ UpTo(<<>>, c) /\ ToSet(<<>>) = {} /\ DOMAIN <<>> = {}
<1>1. DOMAIN <<>> = {}
  OBVIOUS
<1> QED BY <1>1 DEF Ascending, UpTo, ToSet

-----------------------------------------------------------------------------
(* Every step keeps the invariant.                                         *)

(* The order of keys, for the provers that know no arithmetic.             *)
LEMMA KeysAreNumbers ==
  /\ Keys \subseteq Nat /\ None \notin Keys
  /\ \A x, y \in Keys : x < y \/ y <= x
  /\ \A x, y, z \in Keys : x <= y /\ y < z => x < z
  /\ \A x, y, z \in Keys : x <= y /\ y < z => x <= z
  /\ \A x, y \in Keys : x < y => x <= y
<1>1. Keys \subseteq Nat /\ None \notin Nat
  BY PaginationAssumption
<1>2. /\ \A x, y \in Nat : x < y \/ y <= x
      /\ \A x, y, z \in Nat : x <= y /\ y < z => x < z
      /\ \A x, y, z \in Nat : x <= y /\ y < z => x <= z
      /\ \A x, y \in Nat : x < y => x <= y
  OBVIOUS
<1> QED BY <1>1, <1>2

(* A page of events, artifacts or audit entries: what it adds to seen is   *)
(* behind all that was seen, and skips no key up to its next_cursor.       *)
LEMMA AskFilteredStep ==
  ASSUME IInv, NEW n \in Limits, AskFiltered(n)
  PROVE  IInv'
<1> DEFINE R == Rest(bucket, cursor, filter)
<1>1. PICK p : /\ p = FilteredPage(bucket, cursor, Limit(n), filter)
               /\ seen' = seen \o p.keys /\ Follow(p.next)
  BY DEF AskFiltered
<1>2. /\ listing # "records" /\ client = "asking" /\ ~ BadLimit(n)
      /\ UNCHANGED <<listing, bucket, filter, page, next, stable, changes>>
  BY DEF AskFiltered
<1>3. TypeOK /\ Starts /\ NothingSkipped /\ InOrder
  BY DEF IInv
<1>4. Limit(n) \in 1 .. MaxLimit /\ Limit(n) \in Nat \ {0}
  BY <1>2, LimitBounds
<1>5. R \in SUBSET Keys /\ R \in SUBSET bucket
  BY <1>3 DEF Rest, TypeOK
<1>6. PageOf(R, p, Limit(n))
  BY <1>1, <1>3, <1>4, Bounded, FilteredPageOf
<1>7. Fits(R, p)
  BY <1>4, <1>5, <1>6, PageFits
<1> HIDE DEF R
<1>8. /\ p.keys \in Seq(Keys) /\ p.next \in Keys \cup {None}
      /\ \A i \in DOMAIN p.keys : p.keys[i] \in R
      /\ Ascending(p.keys)
      /\ p.next # None => p.next \in R /\ UpTo(p.keys, p.next)
      /\ \A k \in R : p.next = None \/ k <= p.next => k \in ToSet(p.keys)
  BY <1>7 DEF Fits
<1>9. cursor' = p.next /\ client' = IF p.next = None THEN "done" ELSE "asking"
  BY <1>1 DEF Follow
<1>10. seen \in Seq(Keys) /\ cursor \in Keys \cup {None} /\ stable \subseteq bucket /\ bucket \subseteq Keys
  BY <1>3 DEF TypeOK
<1>11. seen' \in Seq(Keys) /\ ToSet(seen') = ToSet(seen) \cup ToSet(p.keys)
  BY <1>1, <1>8, <1>10, Joined
<1>12. TypeOK'
  BY <1>2, <1>3, <1>8, <1>9, <1>11 DEF TypeOK, Listings
<1>13. Starts'
  BY <1>9 DEF Starts
<1>14. ASSUME NEW k \in stable \cap Wanted, p.next = None \/ k <= p.next PROVE k \in ToSet(seen')
  <2>1. k \in bucket /\ k \in Keys /\ MatchesFilter(k, filter)
    BY <1>2, <1>10 DEF Wanted
  <2>2. CASE k \in R
    BY <1>8, <1>11, <1>14, <2>2
  <2>3. CASE k \notin R
    <3>1. cursor \in bucket /\ ~ (cursor < k)
      BY <2>1, <2>3 DEF R, Rest, Found
    <3>2. cursor \in Keys /\ cursor # None /\ k <= cursor
      BY <1>10, <2>1, <3>1, KeysAreNumbers
    <3> QED BY <1>2, <1>3, <1>11, <3>2 DEF NothingSkipped
  <2> QED BY <2>2, <2>3
<1>15. Wanted' = Wanted
  BY <1>2 DEF Wanted, MatchesFilter, Plain
<1>16. NothingSkipped'
  BY <1>2, <1>9, <1>14, <1>15 DEF NothingSkipped
<1>17. WalkComplete'
  BY <1>2, <1>9, <1>14, <1>15 DEF WalkComplete
<1>18. ASSUME listing # "artifacts"
       PROVE  \A i \in DOMAIN seen, j \in DOMAIN p.keys : seen[i] < p.keys[j]
  <2> SUFFICES ASSUME NEW i \in DOMAIN seen, NEW j \in DOMAIN p.keys PROVE seen[i] < p.keys[j]
    OBVIOUS
  <2>1. cursor # None /\ seen[i] <= cursor
    BY <1>2, <1>3, <1>18, Nothing DEF InOrder, UpTo
  <2>2. Found(bucket, cursor, filter)
    BY <1>2, <1>3, <1>18, <2>1 DEF InOrder
  <2>3. p.keys[j] \in R
    BY <1>8
  <2>4. cursor < p.keys[j]
    BY <2>2, <2>3 DEF R, Rest
  <2>5. seen[i] \in Keys /\ cursor \in Keys /\ p.keys[j] \in Keys
    BY <1>5, <1>10, <2>1, <2>3
  <2> QED BY <2>1, <2>4, <2>5, KeysAreNumbers
<1>19. ASSUME listing # "artifacts", p.next # None PROVE UpTo(seen, p.next)
  <2> SUFFICES ASSUME NEW i \in DOMAIN seen PROVE seen[i] <= p.next
    BY DEF UpTo
  <2>1. cursor # None /\ seen[i] <= cursor
    BY <1>2, <1>3, <1>19, Nothing DEF InOrder, UpTo
  <2>2. Found(bucket, cursor, filter) /\ p.next \in R
    BY <1>2, <1>3, <1>8, <1>19, <2>1 DEF InOrder
  <2>3. cursor < p.next
    BY <2>2 DEF R, Rest
  <2>4. seen[i] \in Keys /\ cursor \in Keys /\ p.next \in Keys
    BY <1>8, <1>10, <1>19, <2>1
  <2> QED BY <2>1, <2>3, <2>4, KeysAreNumbers
<1>20. InOrder'
  <2> SUFFICES ASSUME listing # "artifacts" PROVE InOrder'
    BY <1>2 DEF InOrder
  <2>1. Ascending(seen) /\ Ascending(p.keys)
    BY <1>3, <1>8 DEF InOrder
  <2>2. Ascending(seen')
    <3>1. Ascending(seen \o p.keys)
      BY <1>8, <1>10, <1>18, <2>1, Joined
    <3> QED BY <1>1, <3>1 DEF Ascending
  <2>3. p.next # None => UpTo(seen', p.next)
    BY <1>1, <1>8, <1>10, <1>19, Joined
  <2>4. p.next # None => Found(bucket, p.next, filter)
    BY <1>8 DEF R, Rest, Found
  <2>5. (client' = "asking") => (cursor' # None) /\ UpTo(seen', cursor') /\ Found(bucket, cursor', filter)
    BY <1>9, <2>3, <2>4
  <2>6. Found(bucket, cursor', filter) => Found(bucket, cursor, filter)'
    BY <1>2 DEF Found, MatchesFilter, Plain
  <2>7. client' # "loading"
    BY <1>9
  <2> QED BY <1>2, <2>2, <2>5, <2>6, <2>7 DEF InOrder, Ascending, UpTo
<1> QED BY <1>12, <1>13, <1>16, <1>17, <1>20 DEF IInv

(* A page of keys: the ones to read are behind all that was seen.          *)
LEMMA AskStoreStep ==
  ASSUME IInv, NEW n \in Limits, AskStore(n)
  PROVE  IInv'
<1> DEFINE B == {k \in bucket : After(k, cursor)}
<1>1. PICK p : p = StorePage(bucket, cursor, Limit(n)) /\ page' = p.keys /\ next' = p.next
  BY DEF AskStore
<1>2. /\ listing = "records" /\ client = "asking" /\ ~ BadLimit(n) /\ client' = "loading"
      /\ UNCHANGED <<listing, bucket, filter, cursor, seen, stable, changes>>
  BY DEF AskStore
<1>3. TypeOK /\ Starts /\ NothingSkipped /\ InOrder
  BY DEF IInv
<1>4. Limit(n) \in 1 .. MaxLimit /\ Limit(n) \in Nat \ {0}
  BY <1>2, LimitBounds
<1>5. B \in SUBSET Keys /\ B \in SUBSET bucket
  BY <1>3 DEF TypeOK
<1>6. PageOf(B, p, Limit(n))
  BY <1>1, <1>3, <1>4, Bounded, StorePageOf
<1>7. Fits(B, p)
  BY <1>4, <1>5, <1>6, PageFits
<1> HIDE DEF B
<1>8. /\ page' \in Seq(Keys) /\ Len(page') <= MaxLimit /\ next' \in Keys \cup {None}
      /\ \A i \in DOMAIN page' : page'[i] \in B
      /\ Ascending(page')
      /\ next' # None => next' \in B /\ UpTo(page', next')
      /\ \A k \in B : next' = None \/ k <= next' => k \in ToSet(page')
  BY <1>1, <1>7 DEF Fits
<1>9. seen \in Seq(Keys) /\ cursor \in Keys \cup {None} /\ stable \subseteq bucket /\ bucket \subseteq Keys
  BY <1>3 DEF TypeOK
<1>10. TypeOK'
  BY <1>2, <1>3, <1>8 DEF TypeOK, Listings
<1>11. Starts'
  BY <1>2 DEF Starts
<1>12. NothingSkipped'
  <2> SUFFICES ASSUME NEW k \in stable, next' = None \/ k <= next'
               PROVE  k \in ToSet(seen) \cup ToSet(page')
    BY <1>2 DEF NothingSkipped
  <2>1. k \in bucket /\ k \in Keys
    BY <1>9
  <2>2. CASE k \in B
    BY <1>8, <2>2
  <2>3. CASE k \notin B
    <3>1. cursor # None /\ ~ (k > cursor)
      BY <2>1, <2>3 DEF B, After
    <3>2. k <= cursor
      BY <1>9, <2>1, <3>1, KeysAreNumbers
    <3>3. k \in Wanted
      BY <1>2, <2>1 DEF Wanted
    <3> QED BY <1>2, <1>3, <3>1, <3>2, <3>3 DEF NothingSkipped
  <2> QED BY <2>2, <2>3
<1>13. WalkComplete'
  BY <1>2 DEF WalkComplete
<1>14. ASSUME NEW i \in DOMAIN seen, NEW k \in B PROVE seen[i] < k
  <2>1. cursor # None /\ seen[i] <= cursor
    BY <1>2, <1>3, Nothing DEF InOrder, UpTo
  <2>2. cursor < k /\ k \in Keys /\ cursor \in Keys /\ seen[i] \in Keys
    BY <1>5, <1>9, <2>1, KeysAreNumbers DEF B, After
  <2> QED BY <2>1, <2>2, KeysAreNumbers
<1>15. ASSUME next' # None PROVE UpTo(seen, next')
  <2> SUFFICES ASSUME NEW i \in DOMAIN seen PROVE seen[i] <= next'
    BY DEF UpTo
  <2>1. seen[i] < next' /\ seen[i] \in Keys /\ next' \in Keys
    BY <1>8, <1>9, <1>14, <1>15
  <2> QED BY <2>1, KeysAreNumbers
<1>16. InOrder'
  <2>1. Ascending(seen)
    BY <1>2, <1>3 DEF InOrder
  <2>2. \A i \in DOMAIN seen, j \in DOMAIN page' : seen[i] < page'[j]
    BY <1>8, <1>14
  <2> QED BY <1>2, <1>8, <1>15, <2>1, <2>2 DEF InOrder, Ascending, UpTo
<1> QED BY <1>10, <1>11, <1>12, <1>13, <1>16 DEF IInv

(* One record is read, or left out because it was deleted: then it did     *)
(* not stay.                                                               *)
LEMMA LoadRecordStep ==
  ASSUME IInv, LoadRecord
  PROVE  IInv'
<1> DEFINE h == Head(page)
<1>1. /\ client = "loading" /\ page # <<>> /\ page' = Tail(page)
      /\ seen' = IF h \in bucket THEN seen \o <<h>> ELSE seen
      /\ UNCHANGED <<listing, bucket, client, filter, cursor, next, stable, changes>>
  <2>1. Append(seen, h) = seen \o <<h>>
    BY DEF IInv, TypeOK
  <2> QED BY <2>1 DEF LoadRecord
<1>2. TypeOK /\ Starts /\ NothingSkipped /\ InOrder
  BY DEF IInv
<1>3. /\ page \in Seq(Keys) /\ seen \in Seq(Keys) /\ next \in Keys \cup {None}
      /\ stable \subseteq bucket /\ bucket \subseteq Keys /\ listing = "records"
      /\ Len(page) <= MaxLimit /\ MaxLimit \in Nat
  BY <1>1, <1>2, PaginationAssumption DEF TypeOK, Starts
<1>4. /\ page' \in Seq(Keys) /\ Len(page') = Len(page) - 1 /\ Len(page) \in Nat \ {0}
      /\ DOMAIN page = 1 .. Len(page) /\ DOMAIN page' = 1 .. Len(page) - 1
      /\ h = page[1] /\ h \in Keys
      /\ \A i \in 1 .. Len(page) - 1 : page'[i] = page[i + 1] /\ i + 1 \in 1 .. Len(page)
      /\ 1 \in 1 .. Len(page)
  BY <1>1, <1>3
<1>5. ToSet(page) \subseteq {h} \cup ToSet(page')
  <2> SUFFICES ASSUME NEW i \in 1 .. Len(page), page[i] # h PROVE page[i] \in ToSet(page')
    BY <1>4 DEF ToSet
  <2>1. i - 1 \in 1 .. Len(page) - 1 /\ (i - 1) + 1 = i
    BY <1>4
  <2>2. page[i] = page'[i - 1]
    BY <1>4, <2>1
  <2> QED BY <1>4, <2>1, <2>2 DEF ToSet
<1>6. /\ <<h>> \in Seq(Keys) /\ DOMAIN <<h>> = {1} /\ <<h>>[1] = h
      /\ ToSet(<<h>>) = {h}
  <2>1. <<h>> \in Seq(Keys) /\ DOMAIN <<h>> = {1} /\ <<h>>[1] = h
    BY <1>4
  <2> QED BY <2>1 DEF ToSet
<1> HIDE DEF h
<1>7. seen' \in Seq(Keys) /\ ToSet(seen') = ToSet(seen) \cup ({h} \cap bucket)
  <2>1. seen \o <<h>> \in Seq(Keys) /\ ToSet(seen \o <<h>>) = ToSet(seen) \cup {h}
    BY <1>3, <1>6, Joined
  <2>2. CASE h \in bucket
    <3>1. ToSet(seen') = ToSet(seen \o <<h>>)
      BY <1>1, <2>2 DEF ToSet
    <3> QED BY <1>1, <2>1, <2>2, <3>1
  <2>3. CASE h \notin bucket
    <3>1. ToSet(seen') = ToSet(seen)
      BY <1>1, <2>3 DEF ToSet
    <3> QED BY <1>1, <1>3, <2>3, <3>1
  <2> QED BY <2>2, <2>3
<1>8. TypeOK'
  <2>1. Len(page') <= MaxLimit
    BY <1>3, <1>4
  <2> QED BY <1>1, <1>2, <1>4, <1>7, <2>1 DEF TypeOK, Listings
<1>9. Starts'
  BY <1>1, <1>3 DEF Starts
<1>10. NothingSkipped'
  <2> SUFFICES ASSUME NEW k \in stable, next = None \/ k <= next
               PROVE  k \in ToSet(seen') \cup ToSet(page')
    BY <1>1 DEF NothingSkipped
  <2>1. k \in ToSet(seen) \cup ToSet(page)
    BY <1>1, <1>2 DEF NothingSkipped
  <2> QED BY <1>3, <1>5, <1>7, <2>1
<1>11. WalkComplete'
  BY <1>1 DEF WalkComplete
<1>12. /\ Ascending(seen) /\ Ascending(page)
       /\ \A i \in DOMAIN seen, j \in DOMAIN page : seen[i] < page[j]
       /\ next # None => UpTo(seen, next) /\ UpTo(page, next)
  BY <1>1, <1>2, <1>3 DEF InOrder
<1>13. Ascending(page')
  <2> SUFFICES ASSUME NEW i \in 1 .. Len(page) - 1, NEW j \in 1 .. Len(page) - 1, i < j
               PROVE  page'[i] < page'[j]
    BY <1>4 DEF Ascending
  <2>1. i + 1 < j + 1
    BY <1>4
  <2> QED BY <1>4, <1>12, <2>1 DEF Ascending
<1>14. \A j \in DOMAIN page' : h < page'[j]
  <2> SUFFICES ASSUME NEW j \in 1 .. Len(page) - 1 PROVE h < page'[j]
    BY <1>4
  <2>1. 1 < j + 1
    BY <1>4
  <2> QED BY <1>4, <1>12, <2>1 DEF Ascending
<1>15. \A i \in DOMAIN seen, j \in DOMAIN page' : seen[i] < page'[j]
  BY <1>4, <1>12
<1>16. next # None => UpTo(page', next) /\ UpTo(<<h>>, next)
  BY <1>4, <1>6, <1>12 DEF UpTo
<1>17. CASE h \notin bucket
  <2>1. seen' = seen
    BY <1>1, <1>17
  <2> QED BY <1>1, <1>8, <1>9, <1>10, <1>11, <1>12, <1>13, <1>15, <1>16, <2>1
        DEF IInv, InOrder, Ascending, UpTo
<1>18. CASE h \in bucket
  <2>1. seen' = seen \o <<h>>
    BY <1>1, <1>18
  <2>2. Ascending(<<h>>)
    <3>1. \A x \in {1}, y \in {1} : ~ (x < y)
      OBVIOUS
    <3> QED BY <1>6, <3>1 DEF Ascending
  <2>3. \A i \in DOMAIN seen, j \in DOMAIN <<h>> : seen[i] < <<h>>[j]
    BY <1>4, <1>6, <1>12
  <2>4. Ascending(seen \o <<h>>) /\ (next # None => UpTo(seen \o <<h>>, next))
    BY <1>3, <1>6, <1>12, <1>16, <2>2, <2>3, Joined
  <2>5. Ascending(seen') /\ (next # None => UpTo(seen', next))
    BY <2>1, <2>4 DEF Ascending, UpTo
  <2>6. ASSUME NEW i \in DOMAIN seen', NEW j \in DOMAIN page' PROVE seen'[i] < page'[j]
    <3>1. seen'[i] \in ToSet(seen')
      BY DEF ToSet
    <3>2. CASE seen'[i] = h
      BY <1>14, <3>2
    <3>3. CASE seen'[i] # h
      <4>1. seen'[i] \in ToSet(seen)
        BY <1>7, <3>1, <3>3
      <4>2. PICK m \in DOMAIN seen : seen[m] = seen'[i]
        BY <4>1 DEF ToSet
      <4> QED BY <1>15, <4>2
    <3> QED BY <3>2, <3>3
  <2> QED BY <1>1, <1>8, <1>9, <1>10, <1>11, <1>13, <1>16, <2>5, <2>6
        DEF IInv, InOrder, Ascending, UpTo
<1> QED BY <1>17, <1>18

(* The last record was read: the page's next_cursor becomes the cursor.    *)
LEMMA AnswerStep ==
  ASSUME IInv, Answer
  PROVE  IInv'
<1>1. /\ client = "loading" /\ page = <<>>
      /\ cursor' = next /\ client' = IF next = None THEN "done" ELSE "asking"
      /\ UNCHANGED <<listing, bucket, filter, page, next, seen, stable, changes>>
  BY DEF Answer, Follow
<1>2. TypeOK /\ Starts /\ NothingSkipped /\ InOrder
  BY DEF IInv
<1>3. TypeOK'
  BY <1>1, <1>2 DEF TypeOK, Listings
<1>4. Starts'
  BY <1>1 DEF Starts
<1>5. listing = "records"
  BY <1>1, <1>2 DEF Starts
<1>6. \A k \in stable : next = None \/ k <= next => k \in ToSet(seen)
  BY <1>1, <1>2, Nothing DEF NothingSkipped
<1>7. NothingSkipped'
  BY <1>1, <1>6 DEF NothingSkipped
<1>8. WalkComplete'
  BY <1>1, <1>6 DEF WalkComplete
<1>9. Ascending(seen) /\ (next # None => UpTo(seen, next))
  BY <1>1, <1>2, <1>5 DEF InOrder
<1>10. InOrder'
  BY <1>1, <1>5, <1>9 DEF InOrder, Ascending, UpTo
<1> QED BY <1>3, <1>4, <1>7, <1>8, <1>10 DEF IInv

(* A walk begins with a cursor behind which there is nothing.              *)
LEMMA BeginStep ==
  ASSUME IInv, Begin
  PROVE  IInv'
<1>1. /\ client = "new" /\ filter' \in Filters /\ client' \in {"refused", "asking"} /\ stable' = bucket
      /\ UNCHANGED <<listing, bucket, cursor, page, next, seen, changes>>
  BY DEF Begin
<1>2. TypeOK /\ cursor = None /\ seen = <<>>
  BY <1>1 DEF IInv, Starts
<1>3. TypeOK'
  BY <1>1, <1>2 DEF TypeOK, Listings
<1>4. Starts' /\ NothingSkipped' /\ WalkComplete'
  BY <1>1, <1>2 DEF Starts, NothingSkipped, WalkComplete
<1>5. Ascending(seen')
  BY <1>1, <1>2, Nothing
<1>6. InOrder'
  BY <1>1, <1>2, <1>5 DEF InOrder, Ascending
<1> QED BY <1>3, <1>4, <1>6 DEF IInv

(* A refused walk asks for nothing more.                                   *)
LEMMA AskBadlyStep ==
  ASSUME IInv, NEW n \in Limits, AskBadly(n)
  PROVE  IInv'
<1>1. /\ client' = "refused"
      /\ UNCHANGED <<listing, bucket, filter, cursor, page, next, seen, stable, changes>>
  BY DEF AskBadly
<1>2. TypeOK'
  BY <1>1 DEF IInv, TypeOK, Listings
<1>3. Starts' /\ NothingSkipped' /\ WalkComplete' /\ InOrder'
  BY <1>1 DEF IInv, Starts, NothingSkipped, WalkComplete, InOrder, Ascending
<1> QED BY <1>2, <1>3 DEF IInv

(* A key added or removed while the walk is under way.                     *)
LEMMA ChangeStep ==
  ASSUME IInv, NEW k \in Keys, Add(k) \/ Delete(k)
  PROVE  IInv'
<1>1. /\ changes < MaxChanges /\ changes' = changes + 1
      /\ bucket' \subseteq bucket \cup {k} /\ stable' \subseteq bucket' /\ stable' \subseteq stable
      /\ UNCHANGED <<listing, client, filter, cursor, page, next, seen>>
  BY DEF Add, Delete, IInv, TypeOK
<1>2. listing \in {"events", "audit"} => bucket \subseteq bucket'
  BY DEF Add, Delete, Removable
<1>3. TypeOK /\ Starts /\ NothingSkipped /\ WalkComplete /\ InOrder
  BY DEF IInv
<1>4. TypeOK'
  <2>1. changes' \in 0 .. MaxChanges
    BY <1>1, <1>3, PaginationAssumption DEF TypeOK
  <2> QED BY <1>1, <1>3, <2>1 DEF TypeOK, Listings
<1>5. Wanted' = Wanted
  BY <1>1 DEF Wanted, MatchesFilter, Plain
<1>6. Starts'
  BY <1>1, <1>3 DEF Starts
<1>7. ToSet(seen)' = ToSet(seen) /\ ToSet(page)' = ToSet(page)
  BY <1>1 DEF ToSet
<1>8. NothingSkipped'
  BY <1>1, <1>3, <1>5, <1>7 DEF NothingSkipped
<1>9. WalkComplete'
  BY <1>1, <1>3, <1>5, <1>7 DEF WalkComplete
<1>10. InOrder'
  <2>1. ASSUME listing # "artifacts", listing # "records", Found(bucket, cursor, filter)
        PROVE  Found(bucket, cursor, filter)'
    <3>1. listing \in {"events", "audit"}
      BY <1>3, <2>1 DEF TypeOK, Listings
    <3> QED BY <1>1, <1>2, <2>1, <3>1 DEF Found, MatchesFilter, Plain
  <2>2. SUFFICES ASSUME listing # "artifacts" PROVE InOrder'
    BY <1>1 DEF InOrder
  <2>3. /\ Ascending(seen) /\ (client = "asking" => IF cursor = None THEN seen = <<>> ELSE UpTo(seen, cursor))
        /\ client = "loading" =>
             /\ Ascending(page)
             /\ \A i \in DOMAIN seen, j \in DOMAIN page : seen[i] < page[j]
             /\ next # None => UpTo(seen, next) /\ UpTo(page, next)
    BY <1>3, <2>2 DEF InOrder
  <2>4. (client = "asking" /\ cursor # None /\ listing # "records") => Found(bucket, cursor, filter)'
    BY <1>3, <2>1, <2>2 DEF InOrder
  <2> QED BY <1>1, <2>3, <2>4 DEF InOrder, Ascending, UpTo
<1> QED BY <1>4, <1>6, <1>8, <1>9, <1>10 DEF IInv

(* Every step of a walk, and every change beside it, keeps the invariant.  *)
LEMMA InvariantStep == ASSUME IInv, [Next]_vars PROVE IInv'
<1>1. CASE Begin
  BY <1>1, BeginStep
<1>2. CASE \E n \in Limits : AskBadly(n)
  BY <1>2, AskBadlyStep
<1>3. CASE Walk
  BY <1>3, AskFilteredStep, AskStoreStep, LoadRecordStep, AnswerStep DEF Walk
<1>4. CASE \E k \in Keys : Add(k) \/ Delete(k)
  BY <1>4, ChangeStep
<1>5. CASE UNCHANGED vars
  <2>1. UNCHANGED <<listing, bucket, client, filter, cursor, page, next, seen, stable, changes>>
    BY <1>5 DEF vars
  <2> QED BY <2>1 DEF IInv, TypeOK, Listings, Starts, NothingSkipped, WalkComplete, InOrder, Wanted,
            Found, MatchesFilter, Plain, Ascending, UpTo, ToSet
<1> QED BY <1>1, <1>2, <1>3, <1>4, <1>5 DEF Next, Stopped

(* The invariant holds of every walk: handlers.go:543-606 and              *)
(* bbolt.go:109-152, with the changes between two requests.                *)
THEOREM InvariantHolds ==
  Spec => []IInv
<1>1. Init => IInv
  <2> SUFFICES ASSUME Init PROVE IInv
    OBVIOUS
  <2>1. seen = <<>> /\ page = <<>> /\ client = "new" /\ cursor = None /\ stable = {}
    BY DEF Init
  <2>2. TypeOK
    <3>1. <<>> \in Seq(Keys) /\ Len(<<>>) = 0 /\ 0 <= MaxLimit /\ 0 \in 0 .. MaxChanges
      BY PaginationAssumption
    <3> QED BY <3>1 DEF Init, TypeOK
  <2>3. Starts /\ NothingSkipped /\ WalkComplete
    BY <2>1 DEF Starts, NothingSkipped, WalkComplete
  <2>4. InOrder
    BY <2>1, Nothing DEF InOrder
  <2> QED BY <2>2, <2>3, <2>4 DEF IInv
<1>2. IInv /\ [Next]_vars => IInv'
  BY InvariantStep
<1> QED BY <1>1, <1>2, PTL DEF Spec

-----------------------------------------------------------------------------
(* The results.                                                            *)

(* Type correctness: the state of a walk over a listing, handlers.go and   *)
(* bbolt.go, is never outside the types.                                   *)
THEOREM TypeCorrect ==
  Spec => []TypeOK
<1>1. IInv => TypeOK
  BY DEF IInv
<1> QED BY <1>1, InvariantHolds, PTL

(* A walk that came to its end has met every key that was there all along, *)
(* whatever was added and removed between its pages and its reads:         *)
(* handlers.go:543-606, bbolt.go:109-152.                                  *)
THEOREM WalksAreComplete ==
  Spec => []WalkComplete
<1>1. IInv => WalkComplete
  BY DEF IInv
<1> QED BY <1>1, InvariantHolds, PTL

(* No page of records, events or audit entries repeats a key of an earlier *)
(* one: handlers.go:544, store.go:20-21.                                   *)
THEOREM KeysComeOnce ==
  Spec => []NoRepeats
<1>1. IInv => NoRepeats
  BY DEF IInv, InOrder, NoRepeats, Ascending
<1> QED BY <1>1, InvariantHolds, PTL

(* A page of listFilteredPage, whose cursor is in the list, is the first   *)
(* keys behind it that match, and has a next_cursor exactly when another   *)
(* one follows.                                                            *)
IsWindow(b, c, n, f) ==
  LET fits == {k \in b : MatchesFilter(k, f)}
      rest == {k \in fits : c # None => k > c}
      p == FilteredPage(b, c, n, f)
  IN  c \in fits \cup {None} =>
        /\ p.keys = Take(List(rest), n)
        /\ p.next = None <=> rest \subseteq ToSet(p.keys)
        /\ p.next # None => p.next = Last(p.keys)

(* It is so for every finite bucket, filter, limit and cursor, whether a   *)
(* walk of the model meets them or not: handlers.go:543-606.               *)
THEOREM PageIsWindow ==
  ASSUME NEW b \in SUBSET Nat, IsFiniteSet(b), NEW f, NEW n \in Nat \ {0}, NEW c
  PROVE  IsWindow(b, c, n, f)
<1> DEFINE fits == {k \in b : MatchesFilter(k, f)}
           rest == {k \in fits : c # None => k > c}
           p == FilteredPage(b, c, n, f)
<1> SUFFICES ASSUME c \in fits \cup {None}
             PROVE  /\ p.keys = Take(List(rest), n)
                    /\ p.next = None <=> rest \subseteq ToSet(p.keys)
                    /\ p.next # None => p.next = Last(p.keys)
  BY DEF IsWindow
<1> DEFINE t == p.keys
<1>1. rest = Rest(b, c, f)
  <2>1. Found(b, c, f) <=> c # None
    BY PaginationAssumption DEF Found
  <2> QED BY <2>1 DEF Rest
<1>2. t = Take(List(rest), n)
  BY <1>1, FilteredKeys
<1>3. PageOf(rest, p, n)
  BY <1>1, FilteredPageOf
<1>4. p.next = IF t # <<>> /\ \E k \in b : MatchesFilter(k, f) /\ t[Len(t)] < k
               THEN t[Len(t)] ELSE None
  BY FilteredNext
<1> HIDE DEF t, p
<1>5. /\ t \in Seq(rest) /\ DOMAIN t = 1 .. Len(t) /\ Len(t) \in Nat
      /\ \A i, j \in 1 .. Len(t) : i < j => t[i] < t[j]
      /\ p.next # None => t # <<>> /\ p.next = t[Len(t)]
      /\ \A k \in rest : p.next = None \/ k <= p.next => \E i \in 1 .. Len(t) : t[i] = k
      /\ \A i \in 1 .. Len(t) : t[i] \in rest
  BY <1>3, ElementOfSeq DEF PageOf, t
<1>6. rest \subseteq Nat /\ rest \subseteq b
  OBVIOUS
<1>7. ASSUME p.next = None PROVE rest \subseteq ToSet(t)
  BY <1>5, <1>7 DEF ToSet
<1>8. ASSUME p.next # None PROVE ~ (rest \subseteq ToSet(t))
  <2>1. PICK k \in b : MatchesFilter(k, f) /\ t[Len(t)] < k
    BY <1>4, <1>8
  <2>2. Len(t) \in 1 .. Len(t) /\ t[Len(t)] \in rest
    BY <1>5, <1>8
  <2>3. k \in rest
    <3>1. c # None => c < t[Len(t)] /\ c \in b
      BY <2>2
    <3>2. \A x, y, z \in b : x < y /\ y < z => x < z
      OBVIOUS
    <3>3. c # None => c < k
      BY <1>6, <2>1, <2>2, <3>1, <3>2
    <3> QED BY <2>1, <3>3
  <2>4. ASSUME NEW i \in 1 .. Len(t) PROVE t[i] # k
    <3>1. i < Len(t) \/ i = Len(t)
      <4>1. Len(t) \in Nat
        BY <1>5
      <4> QED BY <4>1
    <3>2. t[i] < t[Len(t)] \/ t[i] = t[Len(t)]
      BY <1>5, <2>2, <3>1
    <3>3. \A x, y, z \in b : ((x < y \/ x = y) /\ y < z) => x # z
      OBVIOUS
    <3>4. t[i] \in b /\ t[Len(t)] \in b
      BY <1>5, <1>6, <2>2
    <3> QED BY <2>1, <3>2, <3>3, <3>4
  <2> QED BY <1>5, <2>3, <2>4 DEF ToSet
<1>9. Last(t) = t[Len(t)]
  BY DEF Last
<1> QED BY <1>2, <1>5, <1>7, <1>8, <1>9 DEF t

(* So it is for every bucket a walk comes upon, every filter, limit and    *)
(* cursor: handlers.go:543-606.                                            *)
THEOREM PagesAreWindows ==
  Spec => []FilteredPageIsWindow
<1>1. IInv => FilteredPageIsWindow
  <2> SUFFICES ASSUME IInv, NEW f \in Filters, NEW n \in 1 .. MaxLimit,
                      NEW c \in bucket \cup {None}
               PROVE  IsWindow(bucket, c, n, f)
    BY DEF FilteredPageIsWindow, IsWindow
  <2>1. bucket \in SUBSET Nat /\ IsFiniteSet(bucket) /\ n \in Nat \ {0}
    BY Bounded, PaginationAssumption DEF IInv
  <2> QED BY <2>1, PageIsWindow
<1> QED BY <1>1, InvariantHolds, PTL

-----------------------------------------------------------------------------
(* Nothing but what was asked for: with completeness, what a finished walk *)
(* has met is between what stayed and what the filter admits.              *)
OnlyWanted == ToSet(seen) \subseteq Wanted

(* A page of listFilteredPage, or a record that is read, adds what the     *)
(* filter admits; the filter of a walk does not change.                    *)
LEMMA StepOnlyWanted ==
  ASSUME IInv, OnlyWanted, [Next]_vars
  PROVE  OnlyWanted'
<1>0. seen \in Seq(Keys) /\ bucket \subseteq Keys /\ seen' \in Seq(Keys)
  <2>1. IInv'
    BY InvariantStep
  <2> QED BY <2>1 DEF IInv, TypeOK
<1>1. CASE listing' = listing /\ listing = "records"
  BY <1>0, <1>1 DEF OnlyWanted, Wanted, ToSet
<1>2. CASE UNCHANGED <<listing, filter, seen>>
  BY <1>2 DEF OnlyWanted, Wanted, MatchesFilter, Plain, ToSet
<1>3. CASE Begin
  <2>1. seen' = <<>>
    BY <1>3 DEF Begin, IInv, Starts
  <2> QED BY <2>1 DEF OnlyWanted, ToSet
<1>4. ASSUME NEW n \in Limits, AskFiltered(n) PROVE OnlyWanted'
  <2>1. PICK p : p = FilteredPage(bucket, cursor, Limit(n), filter) /\ seen' = seen \o p.keys
    BY <1>4 DEF AskFiltered
  <2>2. ~ BadLimit(n) /\ listing' = listing /\ filter' = filter /\ listing # "records"
    BY <1>4 DEF AskFiltered
  <2>3. Limit(n) \in 1 .. MaxLimit /\ Limit(n) \in Nat \ {0}
    BY <2>2, LimitBounds
  <2>4. PageOf(Rest(bucket, cursor, filter), p, Limit(n))
    BY <2>1, <2>3, Bounded, FilteredPageOf DEF IInv
  <2>5. Rest(bucket, cursor, filter) \in SUBSET Keys
    BY <1>0 DEF Rest
  <2>6. p.keys \in Seq(Keys) /\ \A i \in DOMAIN p.keys : p.keys[i] \in Rest(bucket, cursor, filter)
    BY <2>3, <2>4, <2>5, PageFits DEF Fits
  <2>7. ToSet(seen') = ToSet(seen) \cup ToSet(p.keys)
    BY <1>0, <2>1, <2>6, Joined
  <2>8. ToSet(p.keys) \subseteq {k \in Keys : MatchesFilter(k, filter)}
    BY <1>0, <2>6 DEF ToSet, Rest
  <2>9. Wanted' = Wanted /\ Wanted = {k \in Keys : MatchesFilter(k, filter)}
    BY <2>2 DEF Wanted, MatchesFilter, Plain
  <2> QED BY <2>7, <2>8, <2>9 DEF OnlyWanted
<1>5. CASE (\E n \in Limits : AskStore(n)) \/ LoadRecord
  BY <1>1, <1>5 DEF AskStore, LoadRecord, IInv, Starts
<1>6. CASE (\E n \in Limits : AskBadly(n)) \/ Answer \/ (\E k \in Keys : Add(k) \/ Delete(k)) \/ Stopped
  BY <1>2, <1>6 DEF AskBadly, Answer, Add, Delete, Stopped, vars
<1>7. CASE UNCHANGED vars
  BY <1>2, <1>7 DEF vars
<1> QED BY <1>3, <1>4, <1>5, <1>6, <1>7 DEF Next, Walk

(* No walk over events, artifacts or audit entries is given a key its      *)
(* filter does not admit: handlers.go:505-541.                             *)
THEOREM NothingUnwanted ==
  Spec => []OnlyWanted
<1>1. Init => OnlyWanted
  BY Nothing DEF Init, OnlyWanted
<1>2. IInv /\ OnlyWanted /\ [Next]_vars => OnlyWanted'
  BY StepOnlyWanted
<1> QED BY <1>1, <1>2, InvariantHolds, PTL DEF Spec

(* An audit listing with since_ns or until_ns is empty, whatever the bucket*)
(* holds and whatever the bounds: keyNS, handlers.go:505-520, reads no time*)
(* from a key "<ns>-<seq>.json".                                           *)
THEOREM BoundedAuditIsEmpty ==
  Spec => [](listing = "audit" /\ HasBounds(filter) => seen = <<>>)
<1>1. IInv /\ OnlyWanted /\ listing = "audit" /\ HasBounds(filter) => seen = <<>>
  <2> SUFFICES ASSUME IInv, OnlyWanted, listing = "audit", HasBounds(filter), seen # <<>>
               PROVE  FALSE
    OBVIOUS
  <2>1. Wanted = {}
    BY DEF Wanted, MatchesFilter, Plain
  <2>2. seen \in Seq(Keys)
    BY DEF IInv, TypeOK
  <2>3. 1 \in DOMAIN seen
    BY <2>2
  <2> QED BY <2>1, <2>3 DEF OnlyWanted, ToSet
<1> QED BY <1>1, InvariantHolds, NothingUnwanted, PTL

=============================================================================
