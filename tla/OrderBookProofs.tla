--------------------------- MODULE OrderBookProofs ---------------------------
(***************************************************************************)
(* OrderBook and MarketDataHandler, for every set of ids, prices and       *)
(* quantities, every capacity and every hash function.                     *)
(***************************************************************************)
EXTENDS MarketDataHandler, FlatTableProofs, SequenceTheorems

-----------------------------------------------------------------------------
(***************************************************************************)
(* Sequences: an element more, an element less, an element replaced.       *)
(***************************************************************************)
LEMMA Concatenated ==
  ASSUME NEW T, NEW p \in Seq(T), NEW q \in Seq(T), NEW n \in Nat, n = Len(p) + Len(q)
  PROVE  /\ p \o q \in Seq(T)
         /\ Len(p \o q) = n
         /\ \A j \in 1 .. n : j <= Len(p) => (p \o q)[j] = p[j]
         /\ \A j \in 1 .. n : j > Len(p) => (p \o q)[j] = q[j - Len(p)]
BY ConcatProperties

\* vector::erase, element by element.
LEMMA RemoveAtIs ==
  ASSUME NEW T, NEW s \in Seq(T), NEW i \in DOMAIN s
  PROVE  /\ RemoveAt(s, i) \in Seq(T)
         /\ Len(RemoveAt(s, i)) = Len(s) - 1
         /\ \A j \in 1 .. Len(s) - 1 : RemoveAt(s, i)[j] = IF j < i THEN s[j] ELSE s[j + 1]
<1> DEFINE n == Len(s)
           p == SubSeq(s, 1, i - 1)
           q == SubSeq(s, i + 1, Len(s))
           r == RemoveAt(s, i)
<1>1. n \in Nat /\ i \in Nat /\ 1 <= i /\ i <= n
  OBVIOUS
<1>2. p \in Seq(T) /\ Len(p) = i - 1 /\ \A j \in 1 .. i - 1 : p[j] = s[j]
  BY <1>1
<1>3. q \in Seq(T) /\ Len(q) = n - i /\ \A j \in 1 .. n - i : q[j] = s[i + j]
  BY <1>1
<1>4. r = p \o q
  BY DEF RemoveAt
<1> HIDE DEF n, p, q, r
<1>5. n - 1 \in Nat /\ n - 1 = Len(p) + Len(q)
  BY <1>1, <1>2, <1>3
<1>6. /\ r \in Seq(T) /\ Len(r) = n - 1
      /\ \A j \in 1 .. n - 1 : j <= i - 1 => r[j] = p[j]
      /\ \A j \in 1 .. n - 1 : j > i - 1 => r[j] = q[j - (i - 1)]
  <2> PICK m : m = n - 1
    OBVIOUS
  <2>1. m \in Nat /\ m = Len(p) + Len(q) /\ p \in Seq(T) /\ q \in Seq(T)
    BY <1>2, <1>3, <1>5
  <2>2. /\ p \o q \in Seq(T) /\ Len(p \o q) = m
        /\ \A j \in 1 .. m : j <= Len(p) => (p \o q)[j] = p[j]
        /\ \A j \in 1 .. m : j > Len(p) => (p \o q)[j] = q[j - Len(p)]
    BY ONLY <2>1, Concatenated
  <2>3. Len(p) = i - 1
    BY <1>2
  <2> QED
    BY ONLY <1>4, <2>2, <2>3, m = n - 1
<1>7. ASSUME NEW j \in 1 .. n - 1
      PROVE  r[j] = IF j < i THEN s[j] ELSE s[j + 1]
  <2>1. CASE j < i
    BY <1>1, <1>2, <1>6, <2>1
  <2>2. CASE ~(j < i)
    <3>1. j - (i - 1) \in 1 .. n - i /\ i + (j - (i - 1)) = j + 1
      BY <1>1, <2>2
    <3>2. r[j] = q[j - (i - 1)]
      BY <1>1, <1>6, <2>2
    <3> QED
      BY <1>3, <2>2, <3>1, <3>2
  <2> QED
    BY <2>1, <2>2
<1> QED
  BY <1>6, <1>7 DEF n, r

\* vector::insert, element by element.
LEMMA InsertAtIs ==
  ASSUME NEW T, NEW s \in Seq(T), NEW i \in 1 .. Len(s) + 1, NEW e \in T
  PROVE  /\ InsertAt(s, i, e) \in Seq(T)
         /\ Len(InsertAt(s, i, e)) = Len(s) + 1
         /\ \A j \in 1 .. Len(s) + 1 :
              InsertAt(s, i, e)[j] = IF j < i THEN s[j] ELSE IF j = i THEN e ELSE s[j - 1]
<1> DEFINE n == Len(s)
           p == SubSeq(s, 1, i - 1)
           m == <<e>>
           q == SubSeq(s, i, Len(s))
           pm == p \o m
           r == InsertAt(s, i, e)
<1>1. n \in Nat /\ i \in Nat /\ 1 <= i /\ i <= n + 1
  OBVIOUS
<1>2. p \in Seq(T) /\ Len(p) = i - 1 /\ \A j \in 1 .. i - 1 : p[j] = s[j]
  BY <1>1
<1>3. q \in Seq(T) /\ Len(q) = n - i + 1 /\ \A j \in 1 .. n - i + 1 : q[j] = s[i + j - 1]
  BY <1>1
<1>4. m \in Seq(T) /\ Len(m) = 1 /\ m[1] = e
  OBVIOUS
<1>5. r = pm \o q
  BY DEF InsertAt
<1>6. pm = p \o m
  OBVIOUS
<1> HIDE DEF n, p, m, q, pm, r
<1>7. i \in Nat /\ i = Len(p) + Len(m)
  BY <1>1, <1>2, <1>4
<1>8. /\ pm \in Seq(T) /\ Len(pm) = i
      /\ \A j \in 1 .. i : j <= i - 1 => pm[j] = p[j]
      /\ \A j \in 1 .. i : j > i - 1 => pm[j] = m[j - (i - 1)]
  <2>0. p \in Seq(T) /\ m \in Seq(T)
    BY <1>2, <1>4
  <2>1. /\ p \o m \in Seq(T) /\ Len(p \o m) = i
        /\ \A j \in 1 .. i : j <= Len(p) => (p \o m)[j] = p[j]
        /\ \A j \in 1 .. i : j > Len(p) => (p \o m)[j] = m[j - Len(p)]
    BY ONLY <2>0, <1>7, Concatenated
  <2> QED
    BY ONLY <1>2, <1>6, <2>1
<1>9. n + 1 \in Nat /\ n + 1 = Len(pm) + Len(q)
  BY <1>1, <1>3, <1>8
<1>10. /\ r \in Seq(T) /\ Len(r) = n + 1
       /\ \A j \in 1 .. n + 1 : j <= i => r[j] = pm[j]
       /\ \A j \in 1 .. n + 1 : j > i => r[j] = q[j - i]
  <2>0. pm \in Seq(T) /\ q \in Seq(T)
    BY <1>3, <1>8
  <2>1. /\ pm \o q \in Seq(T) /\ Len(pm \o q) = n + 1
        /\ \A j \in 1 .. n + 1 : j <= Len(pm) => (pm \o q)[j] = pm[j]
        /\ \A j \in 1 .. n + 1 : j > Len(pm) => (pm \o q)[j] = q[j - Len(pm)]
    BY ONLY <2>0, <1>9, Concatenated
  <2> QED
    BY ONLY <1>5, <1>8, <2>1
<1>11. ASSUME NEW j \in 1 .. n + 1
       PROVE  r[j] = IF j < i THEN s[j] ELSE IF j = i THEN e ELSE s[j - 1]
  <2>1. CASE j < i
    BY <1>1, <1>2, <1>8, <1>10, <2>1
  <2>2. CASE j = i
    <3>1. r[j] = pm[j] /\ pm[j] = m[j - (i - 1)] /\ j - (i - 1) = 1
      BY <1>1, <1>8, <1>10, <2>2
    <3> QED
      BY <1>4, <2>2, <3>1
  <2>3. CASE j > i
    <3>1. j - i \in 1 .. n - i + 1 /\ i + (j - i) - 1 = j - 1
      BY <1>1, <2>3
    <3>2. r[j] = q[j - i]
      BY <1>1, <1>10, <2>3
    <3> QED
      BY <1>1, <1>3, <2>3, <3>1, <3>2
  <2> QED
    BY <1>1, <2>1, <2>2, <2>3
<1> QED
  BY <1>10, <1>11 DEF n, r

-----------------------------------------------------------------------------
(***************************************************************************)
(* The level vectors.                                                      *)
(***************************************************************************)
SortedBy(side, lv) ==
  \A i, j \in DOMAIN lv : i < j => Better(side, lv[i].price, lv[j].price)

\* The comparators of add_order are strict linear orders of prices.
LEMMA BetterOrders ==
  ASSUME NEW side, NEW a \in Prices, NEW b \in Prices, NEW c \in Prices
  PROVE  /\ ~Better(side, a, a)
         /\ Better(side, a, b) /\ Better(side, b, c) => Better(side, a, c)
         /\ Better(side, a, b) \/ a = b \/ Better(side, b, a)
         /\ ~(Better(side, a, b) /\ Better(side, b, a))
<1>1. a \in Nat /\ b \in Nat /\ c \in Nat
  BY PriceAssumption
<1> QED
  BY <1>1 DEF Better

\* The place of a price among sorted levels.
PlaceOf(side, lv, price, i) ==
  /\ i \in 1 .. Len(lv) + 1
  /\ \A j \in DOMAIN lv : j < i <=> Better(side, lv[j].price, price)

\* A set of indices closed downwards is an initial segment as long as it has
\* members.
LEMMA PrefixLength ==
  ASSUME NEW n \in Nat, NEW D, D \subseteq 1 .. n,
         \A j, k \in 1 .. n : j < k /\ k \in D => j \in D
  PROVE  Cardinality(D) \in 0 .. n /\ \A j \in 1 .. n : j \in D <=> j < 1 + Cardinality(D)
<1>1. \E m \in 0 .. n : D = 1 .. m
  <2>1. CASE D = 1 .. n
    BY <2>1
  <2>2. CASE D # 1 .. n
    <3> DEFINE B == (1 .. n) \ D
    <3>1. B \subseteq Nat /\ B # {}
      <4>1. \E b \in 1 .. n : b \notin D
        BY <2>2
      <4> QED
        BY <4>1
    <3>2. PICK b \in B : \A k \in B : b <= k
      <4> HIDE DEF B
      <4> QED
        BY <3>1, LeastNatural
    <3>3. b \in 1 .. n /\ b \notin D
      OBVIOUS
    <3>4. ASSUME NEW k \in 1 .. n
          PROVE  k \in D <=> k <= b - 1
      <4>1. CASE k < b
        BY <3>2, <3>3, <4>1
      <4>2. CASE k = b
        BY <3>3, <4>2
      <4>3. CASE k > b
        BY <3>3, <4>3
      <4> QED
        BY <3>3, <4>1, <4>2, <4>3
    <3>5. D = 1 .. b - 1
      <4>1. \A k \in 1 .. b - 1 : k \in 1 .. n /\ k \in D
        BY <3>3, <3>4
      <4>2. \A k \in D : k \in 1 .. b - 1
        BY <3>3, <3>4
      <4> QED
        BY <4>1, <4>2
    <3> QED
      BY <3>3, <3>5
  <2> QED
    BY <2>1, <2>2
<1>2. PICK m \in 0 .. n : D = 1 .. m
  BY <1>1
<1>3. Cardinality(D) = m
  BY <1>2, FS_Interval
<1> QED
  BY <1>2, <1>3

\* lower_bound yields the place before which all levels are better and from
\* which none is.
LEMMA LowerBoundIs ==
  ASSUME levels \in [Sides -> Seq(Level)], NEW side \in Sides, NEW price \in Prices,
         SortedBy(side, levels[side])
  PROVE  PlaceOf(side, levels[side], price, LowerBound(side, price))
<1> DEFINE lv == levels[side]
           D == {i \in DOMAIN lv : Better(side, lv[i].price, price)}
<1>1. lv \in Seq(Level) /\ Len(lv) \in Nat /\ DOMAIN lv = 1 .. Len(lv)
  OBVIOUS
<1>2. LowerBound(side, price) = 1 + Cardinality(D)
  BY DEF LowerBound
<1>3. \A j \in 1 .. Len(lv) : j \in D <=> Better(side, lv[j].price, price)
  BY <1>1
<1>4. D \subseteq 1 .. Len(lv)
  BY <1>1
<1>5. SortedBy(side, lv) /\ \A j \in 1 .. Len(lv) : lv[j].price \in Prices
  <2> HIDE DEF D
  <2>1. \A j \in 1 .. Len(lv) : lv[j] \in Level
    BY <1>1
  <2> HIDE DEF lv
  <2>2. \A j \in 1 .. Len(lv) : lv[j].price \in Prices
    BY <2>1 DEF Level
  <2> QED
    BY <2>2 DEF lv
<1> HIDE DEF lv, D
<1>6. ASSUME NEW j \in 1 .. Len(lv), NEW k \in 1 .. Len(lv), j < k, k \in D
      PROVE  j \in D
  <2>1. Better(side, lv[j].price, lv[k].price) /\ Better(side, lv[k].price, price)
    BY <1>1, <1>3, <1>5, <1>6 DEF SortedBy
  <2>2. Better(side, lv[j].price, price)
    BY <1>5, <2>1, BetterOrders
  <2> QED
    BY <1>3, <2>2
<1>7. /\ Cardinality(D) \in 0 .. Len(lv)
      /\ \A j \in 1 .. Len(lv) : j \in D <=> j < 1 + Cardinality(D)
  BY ONLY <1>1, <1>4, <1>6, PrefixLength
<1>8. 1 + Cardinality(D) \in 1 .. Len(lv) + 1
  BY <1>1, <1>7
<1> QED
  BY <1>1, <1>2, <1>3, <1>7, <1>8 DEF PlaceOf, lv

\* find_or_insert over any sorted vector.
LEMMA FindOrInsertIs ==
  ASSUME levels \in [Sides -> Seq(Level)], NEW side \in Sides, NEW price \in Prices,
         SortedBy(side, levels[side])
  PROVE  LET old == levels[side]
             new == FindOrInsert(side, price)
             i   == LowerBound(side, price)
         IN  /\ new \in Seq(Level) /\ SortedBy(side, new)
             /\ i \in DOMAIN new /\ new[i].price = price
             /\ \/ i \in DOMAIN old /\ new = old
                \/ /\ \A k \in DOMAIN old : old[k].price # price
                   /\ new[i] = EmptyLevel(price)
                   /\ Len(new) = Len(old) + 1
                   /\ \A k \in DOMAIN new :
                        new[k] = IF k < i THEN old[k] ELSE IF k = i THEN EmptyLevel(price)
                                                                    ELSE old[k - 1]
<1> DEFINE lv  == levels[side]
           i   == LowerBound(side, price)
           new == FindOrInsert(side, price)
<1>1. lv \in Seq(Level) /\ Len(lv) \in Nat /\ DOMAIN lv = 1 .. Len(lv)
  OBVIOUS
<1>2. i \in 1 .. Len(lv) + 1 /\ \A j \in DOMAIN lv : j < i <=> Better(side, lv[j].price, price)
  BY LowerBoundIs DEF PlaceOf
<1>3. SortedBy(side, lv) /\ \A j \in 1 .. Len(lv) : lv[j].price \in Prices
  <2> HIDE DEF i, new
  <2>1. \A j \in 1 .. Len(lv) : lv[j] \in Level
    BY <1>1
  <2> HIDE DEF lv
  <2>2. \A j \in 1 .. Len(lv) : lv[j].price \in Prices
    BY <2>1 DEF Level
  <2> QED
    BY <2>2 DEF lv
<1>4. new = IF i \in DOMAIN lv /\ lv[i].price = price THEN lv
                                                      ELSE InsertAt(lv, i, EmptyLevel(price))
  BY DEF FindOrInsert
<1> HIDE DEF lv, i, new
<1>5. CASE i \in DOMAIN lv /\ lv[i].price = price
  BY <1>1, <1>3, <1>4, <1>5 DEF lv, i, new
<1>6. CASE ~(i \in DOMAIN lv /\ lv[i].price = price)
  <2>1. EmptyLevel(price) \in Level /\ EmptyLevel(price).price = price
    BY DEF EmptyLevel, Level, Pointer
  <2>2. /\ new \in Seq(Level) /\ Len(new) = Len(lv) + 1
        /\ \A k \in 1 .. Len(lv) + 1 :
             new[k] = IF k < i THEN lv[k] ELSE IF k = i THEN EmptyLevel(price) ELSE lv[k - 1]
    <3> PICK e : e = EmptyLevel(price)
      OBVIOUS
    <3>1. new = InsertAt(lv, i, e)
      BY ONLY <1>4, <1>6, e = EmptyLevel(price)
    <3>2. lv \in Seq(Level) /\ i \in 1 .. Len(lv) + 1 /\ e \in Level
      BY <1>1, <1>2, <2>1
    <3>3. /\ InsertAt(lv, i, e) \in Seq(Level) /\ Len(InsertAt(lv, i, e)) = Len(lv) + 1
          /\ \A k \in 1 .. Len(lv) + 1 :
               InsertAt(lv, i, e)[k] = IF k < i THEN lv[k] ELSE IF k = i THEN e ELSE lv[k - 1]
      BY ONLY <3>2, InsertAtIs
    <3> QED
      BY ONLY <3>1, <3>3, e = EmptyLevel(price)
  <2>3. DOMAIN new = 1 .. Len(lv) + 1
    BY <1>1, <2>2
  <2>4. ASSUME NEW k \in DOMAIN lv
        PROVE  /\ k < i => Better(side, lv[k].price, price)
               /\ k >= i => Better(side, price, lv[k].price)
    <3>1. CASE k < i
      BY <1>1, <1>2, <3>1
    <3>2. CASE k = i
      <4>1. ~Better(side, lv[k].price, price) /\ lv[k].price # price
        BY <1>1, <1>2, <1>6, <3>2
      <4> QED
        BY <1>1, <1>2, <1>3, <3>2, <4>1, BetterOrders
    <3>3. CASE k > i
      <4>1. i \in DOMAIN lv /\ ~Better(side, lv[i].price, price) /\ lv[i].price # price
        BY <1>1, <1>2, <1>6, <3>3
      <4>2. Better(side, price, lv[i].price) /\ Better(side, lv[i].price, lv[k].price)
        BY <1>1, <1>3, <3>3, <4>1, BetterOrders DEF SortedBy
      <4>3. Better(side, price, lv[k].price)
        BY <1>1, <1>3, <4>1, <4>2, BetterOrders
      <4> QED
        BY <1>1, <1>2, <3>3, <4>3
    <3> QED
      BY <1>1, <1>2, <3>1, <3>2, <3>3
  <2>5. SortedBy(side, new)
    <3> SUFFICES ASSUME NEW j \in 1 .. Len(lv) + 1, NEW k \in 1 .. Len(lv) + 1, j < k
                 PROVE  Better(side, new[j].price, new[k].price)
      BY <2>3 DEF SortedBy
    <3>0. j \in Nat /\ k \in Nat /\ i \in Nat
      BY <1>1, <1>2
    <3>1. CASE k < i
      <4>1. j \in DOMAIN lv /\ k \in DOMAIN lv
        BY <1>1, <1>2, <3>0, <3>1
      <4>2. new[j] = lv[j] /\ new[k] = lv[k]
        BY <2>2, <3>0, <3>1
      <4> QED
        BY <1>3, <4>1, <4>2 DEF SortedBy
    <3>2. CASE k = i
      <4>1. j \in DOMAIN lv /\ j < i
        BY <1>1, <1>2, <3>0, <3>2
      <4>2. new[j] = lv[j] /\ new[k].price = price
        BY <2>1, <2>2, <3>0, <3>2
      <4> QED
        BY <2>4, <4>1, <4>2
    <3>3. CASE k > i /\ j < i
      <4>1. j \in DOMAIN lv /\ k - 1 \in DOMAIN lv /\ j < k - 1
        BY <1>1, <1>2, <3>0, <3>3
      <4>2. new[j] = lv[j] /\ new[k] = lv[k - 1]
        BY <2>2, <3>0, <3>3
      <4> QED
        BY <1>3, <4>1, <4>2 DEF SortedBy
    <3>4. CASE k > i /\ j = i
      <4>1. k - 1 \in DOMAIN lv /\ k - 1 >= i
        BY <1>1, <1>2, <3>0, <3>4
      <4>2. new[j].price = price /\ new[k] = lv[k - 1]
        BY <2>1, <2>2, <3>0, <3>4
      <4> QED
        BY <2>4, <4>1, <4>2
    <3>5. CASE k > i /\ j > i
      <4>1. j - 1 \in DOMAIN lv /\ k - 1 \in DOMAIN lv /\ j - 1 < k - 1
        BY <1>1, <1>2, <3>0, <3>5
      <4>2. new[j] = lv[j - 1] /\ new[k] = lv[k - 1]
        BY <2>2, <3>0, <3>5
      <4> QED
        BY <1>3, <4>1, <4>2 DEF SortedBy
    <3> QED
      BY <3>0, <3>1, <3>2, <3>3, <3>4, <3>5
  <2>6. \A k \in DOMAIN lv : lv[k].price # price
    BY <1>1, <1>2, <1>3, <2>4, BetterOrders
  <2>7. i \in DOMAIN new /\ new[i] = EmptyLevel(price)
    BY <1>1, <1>2, <2>2, <2>3
  <2> QED
    BY <2>1, <2>2, <2>3, <2>5, <2>6, <2>7 DEF lv, i, new
<1> QED
  BY <1>5, <1>6

\* Changing a level's list keeps the vector sorted.
LEMMA SortedReplace ==
  ASSUME NEW side, NEW lv \in Seq(Level), SortedBy(side, lv), NEW i \in DOMAIN lv,
         NEW level \in Level, level.price = lv[i].price
  PROVE  LET new == [lv EXCEPT ![i] = level]
         IN  /\ new \in Seq(Level) /\ Len(new) = Len(lv) /\ DOMAIN new = DOMAIN lv
             /\ \A j \in DOMAIN lv : new[j] = IF j = i THEN level ELSE lv[j]
             /\ SortedBy(side, new)
<1> DEFINE new == [lv EXCEPT ![i] = level]
<1>1. /\ new \in Seq(Level) /\ Len(new) = Len(lv) /\ DOMAIN new = DOMAIN lv
      /\ \A j \in DOMAIN lv : new[j] = IF j = i THEN level ELSE lv[j]
  BY ExceptSeq
<1> HIDE DEF new
<1>2. SortedBy(side, new)
  BY <1>1 DEF SortedBy
<1> QED
  BY <1>1, <1>2 DEF new

\* Removing a level keeps it sorted.
LEMMA SortedRemove ==
  ASSUME NEW side, NEW lv \in Seq(Level), SortedBy(side, lv), NEW i \in DOMAIN lv
  PROVE  LET new == RemoveAt(lv, i)
         IN  /\ new \in Seq(Level) /\ Len(new) = Len(lv) - 1 /\ DOMAIN new = 1 .. Len(lv) - 1
             /\ \A j \in DOMAIN new : new[j] = IF j < i THEN lv[j] ELSE lv[j + 1]
             /\ SortedBy(side, new)
<1> DEFINE new == RemoveAt(lv, i)
<1>1. /\ new \in Seq(Level) /\ Len(new) = Len(lv) - 1
      /\ \A j \in 1 .. Len(lv) - 1 : new[j] = IF j < i THEN lv[j] ELSE lv[j + 1]
  BY RemoveAtIs
<1> HIDE DEF new
<1>2. DOMAIN new = 1 .. Len(lv) - 1 /\ Len(lv) \in Nat /\ DOMAIN lv = 1 .. Len(lv) /\ i \in Nat
  BY <1>1
<1>3. SortedBy(side, new)
  <2> SUFFICES ASSUME NEW j \in 1 .. Len(lv) - 1, NEW k \in 1 .. Len(lv) - 1, j < k
               PROVE  Better(side, new[j].price, new[k].price)
    BY <1>2 DEF SortedBy
  <2> DEFINE at(m) == IF m < i THEN m ELSE m + 1
  <2>1. at(j) \in DOMAIN lv /\ at(k) \in DOMAIN lv /\ at(j) < at(k)
    BY <1>2
  <2>2. new[j] = lv[at(j)] /\ new[k] = lv[at(k)]
    BY <1>1, <1>2
  <2> HIDE DEF at
  <2> QED
    BY <2>1, <2>2 DEF SortedBy
<1> QED
  BY <1>1, <1>2, <1>3 DEF new

-----------------------------------------------------------------------------
(***************************************************************************)
(* Links.  A shift leaves pointers behind that lead to slots whose order   *)
(* has moved or gone, but only ever to slots that have held an order.      *)
(***************************************************************************)
\* The slots that hold, or once held, an order.
Used(table) == {i \in Slots : table[i].order \in Order}

\* Where a pointer may lead.
Reachable(table) == Used(table) \cup {Null}

LinkedInside(table) ==
  \A i \in Used(table) :
    table[i].order.next \in Reachable(table) /\ table[i].order.prev \in Reachable(table)

\* What every operation keeps of the table, even once a shift has left stale
\* pointers behind.
GoodTable(table) ==
  /\ table \in [Slots -> Slot] /\ Keyed(table)
  /\ Occupied(table) \subseteq Used(table)
  /\ LinkedInside(table)

\* u differs from t in next and prev pointers only.
Relinked(t, u) ==
  /\ u \in [Slots -> Slot] /\ SameKeys(t, u) /\ Used(u) = Used(t)
  /\ \A i \in Used(t) : /\ u[i].order.side = t[i].order.side
                        /\ u[i].order.price = t[i].order.price
                        /\ u[i].order.remaining = t[i].order.remaining

\* A pointer is a slot or null.
LEMMA PointerIs == Pointer = Slots \cup {Null}
BY DEF Pointer, Slots

\* set_next changes the forward link of one order, if any.
LEMMA SetNextIs ==
  ASSUME NEW t \in [Slots -> Slot], NEW p \in Reachable(t), NEW q \in Pointer
  PROVE  LET u == SetNext(t, p, q)
         IN  /\ Relinked(t, u)
             /\ \A i \in Used(t) : /\ u[i].order.next = IF i = p THEN q ELSE t[i].order.next
                                   /\ u[i].order.prev = t[i].order.prev
<1>1. CASE p = Null
  <2>1. SetNext(t, p, q) = t /\ \A i \in Used(t) : i # p
    BY <1>1, NullAssumption DEF SetNext, Used
  <2> QED
    BY <2>1 DEF Relinked, SameKeys
<1>2. CASE p # Null
  <2> DEFINE u == [t EXCEPT ![p].order.next = q]
             o == [t[p].order EXCEPT !.next = q]
  <2>1. p \in Slots /\ t[p].order \in Order /\ t[p] \in Slot
    BY <1>2 DEF Used, Reachable
  <2>2. /\ o \in Order /\ o.next = q /\ o.prev = t[p].order.prev /\ o.side = t[p].order.side
        /\ o.price = t[p].order.price /\ o.remaining = t[p].order.remaining
    BY <2>1 DEF Order
  <2>3. /\ u[p].order = o /\ u[p].key = t[p].key /\ u[p].occupied = t[p].occupied
        /\ u[p] \in Slot
    <3> HIDE DEF o
    <3>1. u[p] = [t[p] EXCEPT !.order = o]
      BY <2>1 DEF o
    <3> QED
      BY <2>1, <2>2, <3>1, OrdersAssumption DEF Slot
  <2>4. \A i \in Slots \ {p} : u[i] = t[i]
    BY <2>1
  <2>5. u \in [Slots -> Slot]
    <3>1. u = [i \in Slots |-> u[i]]
      BY <2>1
    <3>2. \A i \in Slots : u[i] \in Slot
      BY <2>3, <2>4
    <3> HIDE DEF u
    <3> QED
      BY <3>1, <3>2
  <2>6. SetNext(t, p, q) = u
    BY <1>2 DEF SetNext
  <2> HIDE DEF u, o
  <2>7. SameKeys(t, u) /\ Used(u) = Used(t)
    BY <2>1, <2>2, <2>3, <2>4 DEF SameKeys, Used
  <2>8. \A i \in Used(t) : i \in Slots
    BY DEF Used
  <2> QED
    BY <2>2, <2>3, <2>4, <2>5, <2>6, <2>7, <2>8 DEF Relinked
<1> QED
  BY <1>1, <1>2

\* set_prev changes the backward link of one order, if any.
LEMMA SetPrevIs ==
  ASSUME NEW t \in [Slots -> Slot], NEW p \in Reachable(t), NEW q \in Pointer
  PROVE  LET u == SetPrev(t, p, q)
         IN  /\ Relinked(t, u)
             /\ \A i \in Used(t) : /\ u[i].order.prev = IF i = p THEN q ELSE t[i].order.prev
                                   /\ u[i].order.next = t[i].order.next
<1>1. CASE p = Null
  <2>1. SetPrev(t, p, q) = t /\ \A i \in Used(t) : i # p
    BY <1>1, NullAssumption DEF SetPrev, Used
  <2> QED
    BY <2>1 DEF Relinked, SameKeys
<1>2. CASE p # Null
  <2> DEFINE u == [t EXCEPT ![p].order.prev = q]
             o == [t[p].order EXCEPT !.prev = q]
  <2>1. p \in Slots /\ t[p].order \in Order /\ t[p] \in Slot
    BY <1>2 DEF Used, Reachable
  <2>2. /\ o \in Order /\ o.prev = q /\ o.next = t[p].order.next /\ o.side = t[p].order.side
        /\ o.price = t[p].order.price /\ o.remaining = t[p].order.remaining
    BY <2>1 DEF Order
  <2>3. /\ u[p].order = o /\ u[p].key = t[p].key /\ u[p].occupied = t[p].occupied
        /\ u[p] \in Slot
    <3> HIDE DEF o
    <3>1. u[p] = [t[p] EXCEPT !.order = o]
      BY <2>1 DEF o
    <3> QED
      BY <2>1, <2>2, <3>1, OrdersAssumption DEF Slot
  <2>4. \A i \in Slots \ {p} : u[i] = t[i]
    BY <2>1
  <2>5. u \in [Slots -> Slot]
    <3>1. u = [i \in Slots |-> u[i]]
      BY <2>1
    <3>2. \A i \in Slots : u[i] \in Slot
      BY <2>3, <2>4
    <3> HIDE DEF u
    <3> QED
      BY <3>1, <3>2
  <2>6. SetPrev(t, p, q) = u
    BY <1>2 DEF SetPrev
  <2> HIDE DEF u, o
  <2>7. SameKeys(t, u) /\ Used(u) = Used(t)
    BY <2>1, <2>2, <2>3, <2>4 DEF SameKeys, Used
  <2>8. \A i \in Used(t) : i \in Slots
    BY DEF Used
  <2> QED
    BY <2>2, <2>3, <2>4, <2>5, <2>6, <2>7, <2>8 DEF Relinked
<1> QED
  BY <1>1, <1>2

\* Relinking twice is relinking.
LEMMA RelinkedTrans ==
  ASSUME NEW t, NEW u, NEW v, Relinked(t, u), Relinked(u, v)
  PROVE  Relinked(t, v)
BY DEF Relinked, SameKeys

\* What Linked makes of a table and a level.
LinkedBy(t, level, p, u, new) ==
  /\ Relinked(t, u)
  /\ \A i \in Used(t) :
       /\ u[i].order.next = IF i = p THEN Null
                            ELSE IF level.head # Null /\ i = level.tail THEN p
                            ELSE t[i].order.next
       /\ u[i].order.prev = IF i = p
                            THEN IF level.head = Null THEN Null ELSE level.tail
                            ELSE t[i].order.prev
  /\ new = [price |-> level.price,
            head  |-> IF level.head = Null THEN p ELSE level.head,
            tail  |-> p]

\* What Unlinked makes of a table and a level.
UnlinkedBy(t, level, p, u, new) ==
  LET before == t[p].order.prev
      after  == t[p].order.next
  IN  /\ Relinked(t, u)
      /\ \A i \in Used(t) :
           /\ u[i].order.next = IF i = before THEN after ELSE t[i].order.next
           /\ u[i].order.prev = IF i = after THEN before ELSE t[i].order.prev
      /\ new = [price |-> level.price,
                head  |-> IF before = Null THEN after ELSE level.head,
                tail  |-> IF after = Null THEN before ELSE level.tail]

\* PriceLevel::add_order puts an order behind the tail.
LEMMA LinkedIs ==
  ASSUME NEW t \in [Slots -> Slot], NEW p \in Used(t), NEW level \in Level,
         level.head = Null \/ level.tail \in Used(t)
  PROVE  LinkedBy(t, level, p, Linked(t, level, p).table, Linked(t, level, p).level)
<1>1. p \in Slots /\ p # Null /\ p \in Reachable(t) /\ p \in Pointer /\ Null \in Pointer
  BY NullAssumption, PointerIs DEF Used, Reachable
<1>2. CASE level.head = Null
  <2> DEFINE a == SetNext(t, p, Null)
             b == SetPrev(a, p, Null)
  <2>1. /\ Relinked(t, a)
        /\ \A i \in Used(t) : /\ a[i].order.next = IF i = p THEN Null ELSE t[i].order.next
                              /\ a[i].order.prev = t[i].order.prev
    BY ONLY <1>1, t \in [Slots -> Slot], SetNextIs
  <2>2. Linked(t, level, p).table = b
    BY <1>1, <1>2 DEF Linked, SetNext, SetPrev
  <2>3. Linked(t, level, p).level = [price |-> level.price, head |-> p, tail |-> p]
    BY <1>2 DEF Linked, Level
  <2> HIDE DEF a
  <2>4. a \in [Slots -> Slot] /\ Used(a) = Used(t) /\ p \in Reachable(a)
    BY <1>1, <2>1 DEF Relinked, Reachable
  <2>5. /\ Relinked(a, b)
        /\ \A i \in Used(a) : /\ b[i].order.prev = IF i = p THEN Null ELSE a[i].order.prev
                              /\ b[i].order.next = a[i].order.next
    BY ONLY <1>1, <2>4, SetPrevIs
  <2> HIDE DEF b
  <2>6. Relinked(t, b)
    BY <2>1, <2>5, RelinkedTrans
  <2> QED
    BY <1>2, <2>1, <2>2, <2>3, <2>4, <2>5, <2>6 DEF LinkedBy
<1>3. CASE level.head # Null
  <2> DEFINE last == level.tail
             a == SetNext(t, last, p)
             b == SetPrev(a, p, last)
             c == SetNext(b, p, Null)
  <2>0. last \in Slots /\ last # Null /\ last \in Reachable(t) /\ last \in Pointer
    BY <1>3, NullAssumption, PointerIs DEF Used, Reachable
  <2>1. /\ Relinked(t, a)
        /\ \A i \in Used(t) : /\ a[i].order.next = IF i = last THEN p ELSE t[i].order.next
                              /\ a[i].order.prev = t[i].order.prev
    <3> HIDE DEF last
    <3> QED
      BY ONLY <1>1, <2>0, t \in [Slots -> Slot], SetNextIs
  <2>2. Linked(t, level, p).table = c
    BY <1>1, <1>3, <2>0 DEF Linked, SetNext, SetPrev
  <2>3. Linked(t, level, p).level = [price |-> level.price, head |-> level.head, tail |-> p]
    BY <1>3 DEF Linked, Level
  <2> HIDE DEF a
  <2>4. a \in [Slots -> Slot] /\ Used(a) = Used(t) /\ p \in Reachable(a)
    BY <1>1, <2>1 DEF Relinked, Reachable
  <2>5. /\ Relinked(a, b)
        /\ \A i \in Used(a) : /\ b[i].order.prev = IF i = p THEN last ELSE a[i].order.prev
                              /\ b[i].order.next = a[i].order.next
    <3> HIDE DEF last
    <3> QED
      BY ONLY <1>1, <2>0, <2>4, SetPrevIs
  <2> HIDE DEF b
  <2>6. b \in [Slots -> Slot] /\ Used(b) = Used(t) /\ p \in Reachable(b)
    BY <1>1, <2>4, <2>5 DEF Relinked, Reachable
  <2>7. /\ Relinked(b, c)
        /\ \A i \in Used(b) : /\ c[i].order.next = IF i = p THEN Null ELSE b[i].order.next
                              /\ c[i].order.prev = b[i].order.prev
    BY ONLY <1>1, <2>6, SetNextIs
  <2> HIDE DEF c
  <2>8. Relinked(t, c)
    BY <2>1, <2>5, <2>7, RelinkedTrans
  <2> QED
    BY <1>3, <2>1, <2>2, <2>3, <2>4, <2>5, <2>6, <2>7, <2>8 DEF LinkedBy
<1> QED
  BY <1>2, <1>3

\* PriceLevel::remove_order joins the two neighbours of an order.
LEMMA UnlinkedIs ==
  ASSUME NEW t \in [Slots -> Slot], LinkedInside(t), NEW p \in Used(t), NEW level \in Level
  PROVE  UnlinkedBy(t, level, p, Unlinked(t, level, p).table, Unlinked(t, level, p).level)
<1> DEFINE before == t[p].order.prev
           after  == t[p].order.next
           a == SetNext(t, before, after)
           b == SetPrev(a, after, before)
<1>1. /\ before \in Reachable(t) /\ after \in Reachable(t)
      /\ before \in Pointer /\ after \in Pointer
  BY PointerIs DEF LinkedInside, Reachable, Used
<1>2. Unlinked(t, level, p).table = b
  BY DEF Unlinked
<1>3. Unlinked(t, level, p).level =
        [price |-> level.price,
         head  |-> IF before = Null THEN after ELSE level.head,
         tail  |-> IF after = Null THEN before ELSE level.tail]
  BY DEF Unlinked, Level
<1> HIDE DEF before, after
<1>4. /\ Relinked(t, a)
      /\ \A i \in Used(t) : /\ a[i].order.next = IF i = before THEN after ELSE t[i].order.next
                            /\ a[i].order.prev = t[i].order.prev
  BY ONLY <1>1, t \in [Slots -> Slot], SetNextIs
<1> HIDE DEF a
<1>5. a \in [Slots -> Slot] /\ Used(a) = Used(t) /\ after \in Reachable(a)
  BY <1>1, <1>4 DEF Relinked, Reachable
<1>6. /\ Relinked(a, b)
      /\ \A i \in Used(a) : /\ b[i].order.prev = IF i = after THEN before ELSE a[i].order.prev
                            /\ b[i].order.next = a[i].order.next
  BY ONLY <1>1, <1>5, SetPrevIs
<1> HIDE DEF b
<1>7. Relinked(t, b)
  BY <1>4, <1>6, RelinkedTrans
<1> QED
  BY <1>2, <1>3, <1>4, <1>5, <1>6, <1>7 DEF before, after, UnlinkedBy

\* Relinking neither stores nor erases anything.
LEMMA RelinkedOccupied ==
  ASSUME NEW t, NEW u, Relinked(t, u)
  PROVE  /\ Occupied(u) = Occupied(t)
         /\ Keyed(t) => Keyed(u)
BY DEF Relinked, SameKeys, Occupied, Keyed

\* add_order of a level keeps every link inside the slots ever used.
LEMMA LinkedGood ==
  ASSUME NEW t, GoodTable(t), NEW p \in Used(t), NEW level,
         level.head = Null \/ level.tail \in Used(t),
         NEW u, NEW new, LinkedBy(t, level, p, u, new)
  PROVE  GoodTable(u)
<1>1. u \in [Slots -> Slot] /\ Used(u) = Used(t) /\ Occupied(u) = Occupied(t) /\ Keyed(u)
  BY RelinkedOccupied DEF GoodTable, Relinked, LinkedBy
<1>2. LinkedInside(u)
  BY <1>1 DEF GoodTable, LinkedInside, Reachable, LinkedBy
<1> QED
  BY <1>1, <1>2 DEF GoodTable

\* So does remove_order, even of an order whose links are stale.
LEMMA UnlinkedGood ==
  ASSUME NEW t, GoodTable(t), NEW p \in Used(t), NEW level,
         NEW u, NEW new, UnlinkedBy(t, level, p, u, new)
  PROVE  GoodTable(u)
<1>1. u \in [Slots -> Slot] /\ Used(u) = Used(t) /\ Occupied(u) = Occupied(t) /\ Keyed(u)
  BY RelinkedOccupied DEF GoodTable, Relinked, UnlinkedBy
<1>2. LinkedInside(u)
  BY <1>1 DEF GoodTable, LinkedInside, Reachable, UnlinkedBy
<1> QED
  BY <1>1, <1>2 DEF GoodTable

\* Erasing keeps it too: the shift copies links and vacates a slot but never
\* clears one.
LEMMA EraseGood ==
  ASSUME NEW t, GoodTable(t), NEW i \in Occupied(t)
  PROVE  /\ GoodTable(EraseAt(t, i))
         /\ Used(t) \subseteq Used(EraseAt(t, i))
         /\ Cardinality(Occupied(EraseAt(t, i))) = Cardinality(Occupied(t)) - 1
<1> DEFINE mid == [t EXCEPT ![i].occupied = FALSE]
           I == {at \in Shifting : GoodTable(at.table) /\ Used(mid) \subseteq Used(at.table)}
<1>1. i \in Slots /\ t \in [Slots -> Slot] /\ Keyed(t)
  BY DEF Occupied, GoodTable
<1>2. /\ mid \in [Slots -> Slot] /\ Keyed(mid) /\ ~mid[i].occupied
      /\ mid[i].order = t[i].order /\ \A j \in Slots \ {i} : mid[j] = t[j]
      /\ Occupied(mid) = Occupied(t) \ {i}
  BY <1>1, VacateIs
<1>3. EraseAt(t, i) = BackwardShift(mid, i)
  BY DEF EraseAt
<1> HIDE DEF mid
<1>4. \A j \in Slots : mid[j].order = t[j].order
  BY <1>2
<1>5. Used(mid) = Used(t)
  BY <1>4 DEF Used
<1>6. GoodTable(mid)
  <2>1. LinkedInside(mid)
    BY <1>4, <1>5 DEF GoodTable, LinkedInside, Reachable, Used
  <2> QED
    BY <1>2, <1>5, <2>1 DEF GoodTable
<1>7. ASSUME NEW at \in I, ~ShiftEnds(at)
      PROVE  ShiftStep(at) \in I
  <2> DEFINE new == Moved(at.table, at.cur, at.hole)
  <2>1. ShiftStep(at) \in Shifting
    BY <1>7, StepShifting
  <2>2. /\ at.hole \in Slots /\ at.cur \in Slots /\ at.table \in [Slots -> Slot]
        /\ at.cur # at.hole /\ at.table[at.cur].occupied /\ Keyed(at.table)
        /\ ~at.table[at.hole].occupied
    BY <1>7, CurIsNotHole DEF Shifting
  <2>3. /\ new \in [Slots -> Slot] /\ new[at.hole] = at.table[at.cur] /\ ~new[at.cur].occupied
        /\ \A j \in Slots \ {at.cur, at.hole} : new[j] = at.table[j]
    BY ONLY <2>2, MovedIs
  <2>4. new[at.cur].order = at.table[at.cur].order
    BY <2>2 DEF Moved, Slot
  <2>5. Keyed(new)
    BY ONLY <2>2, MoveKeeps
  <2> HIDE DEF new
  <2>6. at.cur \in Used(at.table)
    BY <2>2 DEF GoodTable, Occupied
  <2>7. Used(new) = Used(at.table) \cup {at.hole}
    BY <2>2, <2>3, <2>4, <2>6 DEF Used
  <2>8. Occupied(new) \subseteq Used(new)
    BY <2>2, <2>3, <2>6, <2>7 DEF GoodTable, Occupied
  <2>9. LinkedInside(new)
    <3>1. LinkedInside(at.table)
      BY DEF GoodTable
    <3>2. ASSUME NEW j \in Used(new)
          PROVE  \E k \in Used(at.table) : new[j].order = at.table[k].order
      BY <2>2, <2>3, <2>4, <2>6, <2>7 DEF Used
    <3> QED
      BY <2>7, <3>1, <3>2 DEF LinkedInside, Reachable
  <2>10. GoodTable(new) /\ Used(mid) \subseteq Used(new)
    BY <2>3, <2>5, <2>7, <2>8, <2>9 DEF GoodTable
  <2> QED
    BY <1>7, <2>1, <2>10, StepCases DEF new
<1>8. [table |-> mid, hole |-> i, cur |-> After(i)] \in I
  BY <1>1, <1>2, <1>6, StartShifting
<1>9. I \in SUBSET Shifting
  OBVIOUS
<1>10. \E at \in I : ShiftEnds(at) /\ BackwardShift(mid, i) = at.table
  <2> HIDE DEF I
  <2> QED
    BY ONLY <1>7, <1>8, <1>9, ShiftRule
<1>11. Cardinality(Occupied(EraseAt(t, i))) = Cardinality(Occupied(t)) - 1
  BY <1>1, EraseKeeps
<1> QED
  BY <1>3, <1>5, <1>10, <1>11

-----------------------------------------------------------------------------
(***************************************************************************)
(* The book, whatever the hash function.                                   *)
(***************************************************************************)
GoodLevels(table, lv) ==
  /\ lv \in Seq(Level)
  /\ \A i \in DOMAIN lv : lv[i].head \in Used(table) /\ lv[i].tail \in Used(table)

GoodBook(table, lvls) ==
  /\ GoodTable(table)
  /\ lvls \in [Sides -> Seq(Level)]
  /\ \A side \in Sides : SortedBy(side, lvls[side]) /\ GoodLevels(table, lvls[side])

\* The inductive invariant for any hash function.
BookInv ==
  /\ GoodBook(slots, levels)
  /\ size = Cardinality(Occupied(slots))
  /\ spinning \in BOOLEAN

\* Heads and tails stay inside the slots used when more slots are.
LEMMA GoodLevelsGrow ==
  ASSUME NEW t, NEW u, Used(t) \subseteq Used(u), NEW lv, GoodLevels(t, lv)
  PROVE  GoodLevels(u, lv)
BY DEF GoodLevels

\* An exchange of one side's levels.
LEMMA GoodBookUpdate ==
  ASSUME NEW t, NEW lvls, GoodBook(t, lvls), NEW u, GoodTable(u), Used(t) \subseteq Used(u),
         NEW side \in Sides, NEW lv, SortedBy(side, lv), GoodLevels(u, lv)
  PROVE  GoodBook(u, [lvls EXCEPT ![side] = lv])
<1> DEFINE new == [lvls EXCEPT ![side] = lv]
<1>1. /\ lvls \in [Sides -> Seq(Level)] /\ lv \in Seq(Level)
  BY DEF GoodBook, GoodLevels
<1>2. new \in [Sides -> Seq(Level)] /\ \A s \in Sides : new[s] = IF s = side THEN lv ELSE lvls[s]
  BY <1>1
<1> HIDE DEF new
<1>3. \A s \in Sides : SortedBy(s, new[s]) /\ GoodLevels(u, new[s])
  BY <1>2, GoodLevelsGrow DEF GoodBook
<1> QED
  BY <1>2, <1>3 DEF GoodBook, new

\* So does the whole book.
LEMMA GoodBookKeep ==
  ASSUME NEW t, NEW lvls, GoodBook(t, lvls), NEW u, GoodTable(u), Used(t) \subseteq Used(u)
  PROVE  GoodBook(u, lvls)
BY GoodLevelsGrow DEF GoodBook

\* Storing a new order writes one slot.
LEMMA InsertGood ==
  ASSUME NEW t, GoodTable(t), NEW id \in Keys, NEW o \in Order, ProbeEnds(t, id),
         o.next = Null, o.prev = Null
  PROVE  LET u == Inserted(t, id, o)
             p == ProbeSlot(t, id)
         IN  /\ GoodTable(u) /\ Used(u) = Used(t) \cup {p} /\ p \in Used(u)
             /\ Occupied(u) = Occupied(t) \cup {p}
             /\ u[p].key = id /\ u[p].order = o
             /\ \A i \in Slots \ {p} : u[i] = t[i]
<1> DEFINE u == Inserted(t, id, o)
           p == ProbeSlot(t, id)
<1>1. t \in [Slots -> Slot] /\ Keyed(t) /\ o \in Orders
  BY OrdersAssumption DEF GoodTable
<1>2. /\ u \in [Slots -> Slot] /\ Keyed(u)
      /\ u[p].occupied /\ u[p].key = id /\ u[p].order = o
      /\ \A i \in Slots \ {p} : u[i] = t[i]
      /\ Occupied(u) = Occupied(t) \cup {p}
  BY <1>1, InsertKeeps
<1>3. p \in Slots
  BY ProbeIs DEF StopsAt
<1> HIDE DEF u, p
<1>4. Used(u) = Used(t) \cup {p} /\ p \in Used(u)
  BY <1>2, <1>3 DEF Used
<1>5. LinkedInside(u)
  BY <1>2, <1>4 DEF GoodTable, LinkedInside, Reachable, Used
<1> QED
  BY <1>2, <1>4, <1>5 DEF GoodTable, u, p

\* The constructor of Order leaves null links.
LEMMA NewOrderIs ==
  ASSUME NEW side \in Sides, NEW price \in Prices, NEW qty \in Quantities
  PROVE  /\ NewOrder(side, price, qty) \in Order
         /\ NewOrder(side, price, qty).next = Null /\ NewOrder(side, price, qty).prev = Null
BY QuantityAssumption DEF NewOrder, Order, Pointer

\* find_or_insert, and the link of the new order at the end of its level.
LEMMA AddLevels ==
  ASSUME NEW t, GoodTable(t), GoodBook(slots, levels), Used(slots) \subseteq Used(t),
         NEW side \in Sides, NEW price \in Prices, NEW p \in Used(t)
  PROVE  LET lv     == FindOrInsert(side, price)
             i      == LowerBound(side, price)
             linked == Linked(t, lv[i], p)
         IN  /\ LinkedBy(t, lv[i], p, linked.table, linked.level)
             /\ GoodTable(linked.table) /\ Used(linked.table) = Used(t)
             /\ SortedBy(side, [lv EXCEPT ![i] = linked.level])
             /\ GoodLevels(linked.table, [lv EXCEPT ![i] = linked.level])
<1> DEFINE old == levels[side]
           lv == FindOrInsert(side, price)
           i  == LowerBound(side, price)
           u  == Linked(t, lv[i], p).table
           level == Linked(t, lv[i], p).level
<1>1. /\ levels \in [Sides -> Seq(Level)] /\ SortedBy(side, old) /\ GoodLevels(slots, old)
      /\ old \in Seq(Level)
  BY DEF GoodBook
<1>2. /\ lv \in Seq(Level) /\ SortedBy(side, lv)
      /\ i \in DOMAIN lv /\ lv[i].price = price
      /\ \/ i \in DOMAIN old /\ lv = old
         \/ /\ \A k \in DOMAIN old : old[k].price # price
            /\ lv[i] = EmptyLevel(price)
            /\ Len(lv) = Len(old) + 1
            /\ \A k \in DOMAIN lv :
                 lv[k] = IF k < i THEN old[k] ELSE IF k = i THEN EmptyLevel(price)
                                                           ELSE old[k - 1]
  BY ONLY <1>1, side \in Sides, price \in Prices, FindOrInsertIs
<1> HIDE DEF lv, i, old
<1>3. \A k \in DOMAIN lv : k # i => lv[k].head \in Used(t) /\ lv[k].tail \in Used(t)
  <2> SUFFICES ASSUME NEW k \in DOMAIN lv, k # i
               PROVE  \E j \in DOMAIN old : lv[k] = old[j]
    BY <1>1 DEF GoodLevels
  <2>1. CASE lv = old
    BY <2>1
  <2>2. CASE /\ Len(lv) = Len(old) + 1
             /\ \A m \in DOMAIN lv :
                  lv[m] = IF m < i THEN old[m] ELSE IF m = i THEN EmptyLevel(price)
                                                            ELSE old[m - 1]
    <3>1. /\ DOMAIN lv = 1 .. Len(lv) /\ DOMAIN old = 1 .. Len(old) /\ Len(old) \in Nat
          /\ i \in DOMAIN lv
      BY <1>1, <1>2
    <3>2. CASE k < i
      <4>1. lv[k] = old[k] /\ k \in DOMAIN old
        BY <2>2, <3>1, <3>2
      <4> QED
        BY <4>1
    <3>3. CASE k > i
      <4>1. lv[k] = old[k - 1] /\ k - 1 \in DOMAIN old
        BY <2>2, <3>1, <3>3
      <4> QED
        BY <4>1
    <3> QED
      BY <3>1, <3>2, <3>3
  <2> QED
    BY <1>2, <2>1, <2>2
<1>4. lv[i] \in Level /\ (lv[i].head = Null \/ lv[i].tail \in Used(t))
  <2>1. lv[i] \in Level
    BY <1>2, ElementOfSeq
  <2>2. CASE lv[i] = EmptyLevel(price)
    BY <2>1, <2>2 DEF EmptyLevel
  <2>3. CASE i \in DOMAIN old /\ lv = old
    BY <1>1, <2>1, <2>3 DEF GoodLevels
  <2> QED
    BY <1>2, <2>2, <2>3
<1>5. LinkedBy(t, lv[i], p, u, level)
  <2>1. t \in [Slots -> Slot]
    BY DEF GoodTable
  <2> QED
    BY ONLY <1>4, <2>1, p \in Used(t), LinkedIs
<1> HIDE DEF u, level
<1>6. GoodTable(u)
  BY ONLY <1>4, <1>5, p \in Used(t), GoodTable(t), LinkedGood
<1>7. Used(u) = Used(t)
  BY <1>5 DEF LinkedBy, Relinked
<1>8. /\ level \in Level /\ level.price = lv[i].price
      /\ level.head \in Used(u) /\ level.tail \in Used(u)
  <2>1. level = [price |-> lv[i].price,
                 head |-> IF lv[i].head = Null THEN p ELSE lv[i].head, tail |-> p]
    BY <1>5 DEF LinkedBy
  <2>2. lv[i].head = Null \/ lv[i].head \in Used(t)
    <3>1. CASE lv[i] = EmptyLevel(price)
      BY <3>1 DEF EmptyLevel
    <3>2. CASE i \in DOMAIN old /\ lv = old
      BY <1>1, <3>2 DEF GoodLevels
    <3> QED
      BY <1>2, <3>1, <3>2
  <2>3. p \in Pointer
    BY PointerIs DEF Used
  <2> QED
    BY <1>4, <1>7, <2>1, <2>2, <2>3 DEF Level
<1>9. /\ [lv EXCEPT ![i] = level] \in Seq(Level)
      /\ DOMAIN [lv EXCEPT ![i] = level] = DOMAIN lv
      /\ \A j \in DOMAIN lv : [lv EXCEPT ![i] = level][j] = IF j = i THEN level ELSE lv[j]
      /\ SortedBy(side, [lv EXCEPT ![i] = level])
  BY <1>2, <1>8, SortedReplace
<1>10. GoodLevels(u, [lv EXCEPT ![i] = level])
  BY <1>3, <1>7, <1>8, <1>9 DEF GoodLevels
<1> QED
  BY <1>5, <1>6, <1>7, <1>9, <1>10 DEF lv, i, u, level

\* OrderBook::add_order keeps the invariant.
LEMMA AddOrderInv ==
  ASSUME BookInv, NEW id \in Keys, NEW side \in Sides, NEW price \in Prices,
         NEW qty \in Quantities, AddOrder(id, side, price, qty)
  PROVE  BookInv'
<1> DEFINE p   == ProbeSlot(slots, id)
           t   == Inserted(slots, id, NewOrder(side, price, qty))
           lv  == FindOrInsert(side, price)
           i   == LowerBound(side, price)
           u   == Linked(t, lv[i], p).table
           new == Linked(t, lv[i], p).level
<1>1. /\ ProbeEnds(slots, id) /\ Find(slots, id) = Null
      /\ slots' = u /\ levels' = [levels EXCEPT ![side] = [lv EXCEPT ![i] = new]]
      /\ size' = size + 1 /\ spinning' = spinning
  BY DEF AddOrder, Found
<1>2. GoodBook(slots, levels) /\ GoodTable(slots) /\ size = Cardinality(Occupied(slots))
  BY DEF BookInv, GoodBook
<1>3. NewOrder(side, price, qty) \in Order /\ NewOrder(side, price, qty) \in Orders
  BY NewOrderIs, OrdersAssumption
<1>4. /\ GoodTable(t) /\ Used(t) = Used(slots) \cup {p} /\ p \in Used(t)
  BY <1>1, <1>2, <1>3, NewOrderIs, InsertGood
<1>5. Cardinality(Occupied(t)) = size + 1
  BY <1>1, <1>2, <1>3, InsertCounts DEF GoodTable
<1> HIDE DEF t, p
<1>6. /\ LinkedBy(t, lv[i], p, u, new) /\ GoodTable(u) /\ Used(u) = Used(t)
      /\ SortedBy(side, [lv EXCEPT ![i] = new]) /\ GoodLevels(u, [lv EXCEPT ![i] = new])
  <2>1. Used(slots) \subseteq Used(t)
    BY <1>4
  <2> QED
    BY ONLY <1>2, <1>4, <2>1, side \in Sides, price \in Prices, AddLevels
<1> HIDE DEF u, new, lv, i
<1>7. Occupied(u) = Occupied(t)
  BY <1>6, RelinkedOccupied DEF LinkedBy
<1>8. GoodBook(u, [levels EXCEPT ![side] = [lv EXCEPT ![i] = new]])
  BY <1>2, <1>4, <1>6, GoodBookUpdate
<1> QED
  BY <1>1, <1>5, <1>7, <1>8 DEF BookInv

\* The level that cancel_order searches for is a level of the order's price.
LEMMA MinOfNaturals ==
  ASSUME NEW lv \in Seq(Level), NEW price, LevelsOf(lv, price) # {}
  PROVE  /\ Min(LevelsOf(lv, price)) \in DOMAIN lv
         /\ lv[Min(LevelsOf(lv, price))].price = price
<1> DEFINE at == LevelsOf(lv, price)
<1>1. at \subseteq Nat /\ at # {}
  BY DEF LevelsOf
<1>2. Min(at) \in at
  <2> HIDE DEF at
  <2> QED
    BY <1>1, MinIs
<1> QED
  BY <1>2 DEF LevelsOf

\* The level an order is unlinked from: it goes when its list is empty.
Shrunk(lv, i, level) == IF level.head = Null THEN RemoveAt(lv, i) ELSE [lv EXCEPT ![i] = level]

\* A level left without orders is removed, another one replaced.
LEMMA ShrunkGood ==
  ASSUME NEW t, NEW side, NEW lv, SortedBy(side, lv), GoodLevels(t, lv), NEW i \in DOMAIN lv,
         NEW level \in Level, level.price = lv[i].price,
         level.head # Null => level.head \in Used(t) /\ level.tail \in Used(t)
  PROVE  SortedBy(side, Shrunk(lv, i, level)) /\ GoodLevels(t, Shrunk(lv, i, level))
<1>1. lv \in Seq(Level) /\ Len(lv) \in Nat /\ DOMAIN lv = 1 .. Len(lv)
  BY DEF GoodLevels
<1>2. CASE level.head = Null
  <2> DEFINE new == RemoveAt(lv, i)
  <2>1. /\ new \in Seq(Level) /\ DOMAIN new = 1 .. Len(lv) - 1
        /\ \A j \in DOMAIN new : new[j] = IF j < i THEN lv[j] ELSE lv[j + 1]
        /\ SortedBy(side, new)
    BY <1>1, SortedRemove
  <2> HIDE DEF new
  <2>2. \A j \in DOMAIN new : \E k \in DOMAIN lv : new[j] = lv[k]
    <3> SUFFICES ASSUME NEW j \in DOMAIN new
                 PROVE  \E k \in DOMAIN lv : new[j] = lv[k]
      OBVIOUS
    <3>1. j \in DOMAIN lv /\ j + 1 \in DOMAIN lv
      BY <1>1, <2>1
    <3> QED
      BY <2>1, <3>1
  <2>3. GoodLevels(t, new)
    BY <2>1, <2>2 DEF GoodLevels
  <2> QED
    BY <1>2, <2>1, <2>3 DEF Shrunk, new
<1>3. CASE level.head # Null
  <2> DEFINE new == [lv EXCEPT ![i] = level]
  <2>1. /\ new \in Seq(Level) /\ DOMAIN new = DOMAIN lv
        /\ \A j \in DOMAIN lv : new[j] = IF j = i THEN level ELSE lv[j]
        /\ SortedBy(side, new)
    BY <1>1, SortedReplace
  <2> HIDE DEF new
  <2>2. GoodLevels(t, new)
    BY <1>3, <2>1 DEF GoodLevels
  <2> QED
    BY <1>3, <2>1, <2>2 DEF Shrunk, new
<1> QED
  BY <1>2, <1>3

\* cancel_order's body over any table that holds the id where find said.
LEMMA RemoveOrderGood ==
  ASSUME NEW t, GoodBook(t, levels), NEW id \in Keys, ProbeEnds(t, id),
         NEW p, p = Find(t, id), p # Null, RemoveOrder(t, id, p)
  PROVE  /\ GoodBook(slots', levels')
         /\ Cardinality(Occupied(slots')) = Cardinality(Occupied(t)) - 1
<1> DEFINE o  == t[p].order
           lv == levels[o.side]
           at == LevelsOf(lv, o.price)
           i  == Min(at)
           u  == Unlinked(t, lv[i], p).table
           new == Unlinked(t, lv[i], p).level
<1>1. GoodTable(t) /\ t \in [Slots -> Slot] /\ LinkedInside(t) /\ levels \in [Sides -> Seq(Level)]
  BY DEF GoodBook, GoodTable
<1>2. p \in Occupied(t) /\ p \in Used(t) /\ p \in Slots /\ o \in Order
  BY <1>1, FindIs DEF GoodTable, Used, Occupied
<1>3. o.side \in Sides /\ lv \in Seq(Level) /\ SortedBy(o.side, lv) /\ GoodLevels(t, lv)
  <2>1. o.side \in Sides
    BY <1>2 DEF Order
  <2> QED
    BY <1>1, <2>1 DEF GoodBook
<1>4. CASE at = {}
  <2>1. slots' = Erased(t, id) /\ levels' = levels
    BY <1>4 DEF RemoveOrder
  <2>2. Erased(t, id) = EraseAt(t, p)
    BY DEF Erased
  <2>3. /\ GoodTable(EraseAt(t, p)) /\ Used(t) \subseteq Used(EraseAt(t, p))
        /\ Cardinality(Occupied(EraseAt(t, p))) = Cardinality(Occupied(t)) - 1
    BY ONLY <1>1, <1>2, EraseGood
  <2> QED
    BY <2>1, <2>2, <2>3, GoodBookKeep
<1>5. CASE at # {}
  <2>1. slots' = Erased(u, id) /\ levels' = [levels EXCEPT ![o.side] = Shrunk(lv, i, new)]
    BY <1>5 DEF RemoveOrder, Shrunk
  <2>2. i \in DOMAIN lv /\ lv[i].price = o.price /\ lv[i] \in Level
    BY <1>3, <1>5, MinOfNaturals
  <2> HIDE DEF i, at, lv
  <2>3. UnlinkedBy(t, lv[i], p, u, new)
    BY ONLY <1>1, <1>2, <2>2, UnlinkedIs
  <2> HIDE DEF u, new
  <2>4. GoodTable(u)
    BY ONLY <1>1, <1>2, <2>3, UnlinkedGood
  <2>5. Relinked(t, u) /\ SameKeys(t, u) /\ Used(u) = Used(t) /\ Occupied(u) = Occupied(t)
    BY <2>3, RelinkedOccupied DEF UnlinkedBy, Relinked
  <2>6. ProbeEnds(u, id) /\ Find(u, id) = p
    BY <2>5, SameKeysSameProbe, SameKeysSameFind
  <2>7. Erased(u, id) = EraseAt(u, p)
    BY <2>6 DEF Erased
  <2>8. /\ GoodTable(EraseAt(u, p)) /\ Used(u) \subseteq Used(EraseAt(u, p))
        /\ Cardinality(Occupied(EraseAt(u, p))) = Cardinality(Occupied(u)) - 1
    <3>1. p \in Occupied(u)
      BY <1>2, <2>5
    <3> QED
      BY ONLY <2>4, <3>1, EraseGood
  <2>9. /\ new \in Level /\ new.price = lv[i].price
        /\ new.head # Null => new.head \in Used(t) /\ new.tail \in Used(t)
    <3>1. new = [price |-> lv[i].price,
                 head |-> IF o.prev = Null THEN o.next ELSE lv[i].head,
                 tail |-> IF o.next = Null THEN o.prev ELSE lv[i].tail]
      BY <2>3 DEF UnlinkedBy
    <3>2. o.prev \in Reachable(t) /\ o.next \in Reachable(t) /\ o.prev \in Pointer /\ o.next \in Pointer
      BY <1>1, <1>2 DEF LinkedInside, Order
    <3>3. lv[i].head \in Used(t) /\ lv[i].tail \in Used(t)
      BY <1>3, <2>2 DEF GoodLevels
    <3> QED
      BY <2>2, <3>1, <3>2, <3>3 DEF Level, Reachable
  <2>10. SortedBy(o.side, Shrunk(lv, i, new)) /\ GoodLevels(t, Shrunk(lv, i, new))
    BY ONLY <1>3, <2>2, <2>9, ShrunkGood
  <2>11. GoodLevels(EraseAt(u, p), Shrunk(lv, i, new))
    BY <2>5, <2>8, <2>10, GoodLevelsGrow
  <2>12. GoodBook(EraseAt(u, p), [levels EXCEPT ![o.side] = Shrunk(lv, i, new)])
    BY <1>3, <2>5, <2>8, <2>10, <2>11, GoodBookUpdate
  <2> QED
    BY <2>1, <2>5, <2>7, <2>8, <2>12
<1> QED
  BY <1>4, <1>5

\* cancel_order keeps the invariant.
LEMMA CancelOrderInv ==
  ASSUME BookInv, NEW id \in Keys, CancelOrder(id)
  PROVE  BookInv'
BY RemoveOrderGood DEF BookInv, CancelOrder, Found

\* What an execution leaves of an order's quantity.
Left(id, qty) == slots[Found(id)].order.remaining - Executed(id, qty)

\* An execution takes no more than is open.
LEMMA LeftIs ==
  ASSUME BookInv, NEW id \in Keys, NEW qty \in Quantities,
         ProbeEnds(slots, id), Found(id) # Null
  PROVE  LET open == slots[Found(id)].order.remaining
         IN  /\ open \in 0 .. QtyModulus - 1 /\ Left(id, qty) \in 0 .. QtyModulus - 1
             /\ Executed(id, qty) = IF qty <= open THEN qty ELSE open
             /\ Left(id, qty) = IF qty <= open THEN open - qty ELSE 0
<1> DEFINE open == slots[Found(id)].order.remaining
<1>1. Found(id) \in Used(slots)
  BY FindIs DEF Found, BookInv, GoodBook, GoodTable
<1>2. open \in 0 .. QtyModulus - 1 /\ qty \in 0 .. QtyModulus - 1
  BY <1>1, QuantityAssumption DEF Used, Order
<1> HIDE DEF open
<1>3. Min({qty, open}) \in {qty, open} /\ \A n \in {qty, open} : Min({qty, open}) <= n
  <2>1. {qty, open} \subseteq Nat /\ {qty, open} # {}
    BY <1>2, QuantityAssumption
  <2> QED
    BY ONLY <2>1, MinIs
<1>4. Min({qty, open}) = IF qty <= open THEN qty ELSE open
  BY <1>2, <1>3, QuantityAssumption
<1>5. Executed(id, qty) = Min({qty, open}) /\ Left(id, qty) = open - Executed(id, qty)
  BY DEF Executed, open, Left
<1> QED
  BY <1>2, <1>4, <1>5, QuantityAssumption DEF open

Filled(t, p, left) == [t EXCEPT ![p].order.remaining = left]

\* Reducing the open quantity changes neither links nor ids.
LEMMA FilledGood ==
  ASSUME NEW t, GoodTable(t), NEW p \in Used(t), NEW left \in 0 .. QtyModulus - 1
  PROVE  /\ GoodTable(Filled(t, p, left)) /\ SameKeys(t, Filled(t, p, left))
         /\ Used(Filled(t, p, left)) = Used(t) /\ Occupied(Filled(t, p, left)) = Occupied(t)
         /\ Filled(t, p, left)[p].order.remaining = left
         /\ \A i \in Slots \ {p} : Filled(t, p, left)[i] = t[i]
         /\ \A i \in Slots : /\ Filled(t, p, left)[i].order.side = t[i].order.side
                             /\ Filled(t, p, left)[i].order.price = t[i].order.price
                             /\ Filled(t, p, left)[i].order.next = t[i].order.next
                             /\ Filled(t, p, left)[i].order.prev = t[i].order.prev
<1> DEFINE u == [t EXCEPT ![p].order.remaining = left]
           o == [t[p].order EXCEPT !.remaining = left]
<1>1. p \in Slots /\ t[p].order \in Order /\ t[p] \in Slot /\ t \in [Slots -> Slot]
  BY DEF Used, GoodTable
<1>2. /\ o \in Order /\ o.next = t[p].order.next /\ o.prev = t[p].order.prev
      /\ o.side = t[p].order.side /\ o.price = t[p].order.price /\ o.remaining = left
  BY <1>1 DEF Order
<1>3. /\ u[p].order = o /\ u[p].key = t[p].key /\ u[p].occupied = t[p].occupied
      /\ u[p] \in Slot
  <2> HIDE DEF o
  <2>1. u[p] = [t[p] EXCEPT !.order = o]
    BY <1>1 DEF o
  <2> QED
    BY <1>1, <1>2, <2>1, OrdersAssumption DEF Slot
<1>4. \A i \in Slots \ {p} : u[i] = t[i]
  BY <1>1
<1>5. u \in [Slots -> Slot]
  <2>1. u = [i \in Slots |-> u[i]]
    BY <1>1
  <2>2. \A i \in Slots : u[i] \in Slot
    BY <1>1, <1>3, <1>4
  <2> HIDE DEF u
  <2> QED
    BY <2>1, <2>2
<1> HIDE DEF u, o
<1>6. SameKeys(t, u) /\ Used(u) = Used(t) /\ Occupied(u) = Occupied(t) /\ Keyed(u)
  BY <1>1, <1>2, <1>3, <1>4 DEF SameKeys, Used, Occupied, Keyed, GoodTable
<1>7. LinkedInside(u)
  BY <1>1, <1>2, <1>3, <1>4, <1>6 DEF GoodTable, LinkedInside, Reachable, Used
<1>8. /\ u[p].order.remaining = left
      /\ \A i \in Slots : /\ u[i].order.side = t[i].order.side
                          /\ u[i].order.price = t[i].order.price
                          /\ u[i].order.next = t[i].order.next
                          /\ u[i].order.prev = t[i].order.prev
  BY <1>2, <1>3, <1>4
<1>9. Filled(t, p, left) = u
  BY DEF Filled, u
<1> QED
  BY <1>4, <1>5, <1>6, <1>7, <1>8, <1>9 DEF GoodTable

\* execute_order keeps the invariant.
LEMMA ExecuteOrderInv ==
  ASSUME BookInv, NEW id \in Keys, NEW qty \in Quantities, ExecuteOrder(id, qty)
  PROVE  BookInv'
<1> DEFINE p    == Found(id)
           left == Left(id, qty)
           t    == Filled(slots, p, left)
<1>1. /\ ProbeEnds(slots, id) /\ p # Null /\ spinning' = spinning
      /\ IF left = 0 THEN RemoveOrder(t, id, p) /\ size' = size - 1
                     ELSE slots' = t /\ levels' = levels /\ size' = size
  BY DEF ExecuteOrder, Left, Filled
<1>2. GoodBook(slots, levels) /\ GoodTable(slots) /\ size = Cardinality(Occupied(slots))
      /\ p \in Used(slots) /\ p = Find(slots, id)
  BY <1>1, FindIs DEF BookInv, GoodBook, GoodTable, Found
<1>3. left \in 0 .. QtyModulus - 1
  BY <1>1, LeftIs
<1>4. /\ GoodTable(t) /\ SameKeys(slots, t) /\ Used(t) = Used(slots)
      /\ Occupied(t) = Occupied(slots)
  <2> HIDE DEF p, left
  <2> QED
    BY <1>2, <1>3, FilledGood
<1> HIDE DEF p, left, t
<1>5. GoodBook(t, levels)
  BY <1>2, <1>4, GoodBookKeep
<1>6. ProbeEnds(t, id) /\ Find(t, id) = p
  BY <1>1, <1>2, <1>4, SameKeysSameProbe, SameKeysSameFind
<1>7. CASE left = 0
  <2>1. RemoveOrder(t, id, p) /\ size' = size - 1
    BY <1>1, <1>7
  <2>2. /\ GoodBook(slots', levels')
        /\ Cardinality(Occupied(slots')) = Cardinality(Occupied(t)) - 1
    BY ONLY <1>1, <1>5, <1>6, <2>1, id \in Keys, RemoveOrderGood
  <2> QED
    BY <1>1, <1>2, <1>4, <2>1, <2>2 DEF BookInv
<1>8. CASE left # 0
  BY <1>1, <1>2, <1>4, <1>5, <1>8 DEF BookInv
<1> QED
  BY <1>7, <1>8

\* The book of the constructor.
LEMMA EmptyBook ==
  /\ GoodBook(EmptyTable, [side \in Sides |-> <<>>])
  /\ Cardinality(Occupied(EmptyTable)) = 0 /\ Settled(EmptyTable)
  /\ Occupied(EmptyTable) = {}
<1>1. EmptyTable \in [Slots -> Slot] /\ \A i \in Slots : ~EmptyTable[i].occupied
  BY DEF EmptyTable, EmptySlot, Slot
<1>2. Occupied(EmptyTable) = {}
  BY <1>1 DEF Occupied
<1>3. Cardinality(Occupied(EmptyTable)) = 0
  BY <1>2, FS_EmptySet
<1>4. LinkedInside(EmptyTable)
  BY OrdersAssumption DEF LinkedInside, Reachable, Used, EmptyTable, EmptySlot, ZeroOrder
<1>5. GoodTable(EmptyTable)
  BY <1>1, <1>2, <1>4 DEF GoodTable, Keyed
<1>6. [side \in Sides |-> <<>>] \in [Sides -> Seq(Level)]
  OBVIOUS
<1>7. \A side \in Sides : SortedBy(side, <<>>) /\ GoodLevels(EmptyTable, <<>>)
  BY DEF SortedBy, GoodLevels
<1> QED
  BY <1>2, <1>3, <1>5, <1>6, <1>7 DEF GoodBook, Settled

\* The constructor establishes the invariant.
LEMMA InitBookInv == Init => BookInv
BY EmptyBook DEF Init, BookInv

\* A probe without end changes nothing else.
LEMMA ProbeForeverInv ==
  ASSUME BookInv, NEW id \in Keys, ProbeForever(id)
  PROVE  BookInv'
BY DEF BookInv, ProbeForever

\* Nor does a stuttering step.
LEMMA IdleBookInv ==
  ASSUME BookInv, UNCHANGED bookVars
  PROVE  BookInv'
BY DEF BookInv, bookVars

\* Every method keeps the invariant.
LEMMA StepBookInv == BookInv /\ [Next]_bookVars => BookInv'
<1> SUFFICES ASSUME BookInv, [Next]_bookVars
             PROVE  BookInv'
  OBVIOUS
<1>1. ASSUME NEW id \in Keys, NEW side \in Sides, NEW price \in Prices, NEW qty \in Quantities,
             AddOrder(id, side, price, qty)
      PROVE  BookInv'
  BY <1>1, AddOrderInv
<1>2. ASSUME NEW id \in Keys, CancelOrder(id)
      PROVE  BookInv'
  BY <1>2, CancelOrderInv
<1>3. ASSUME NEW id \in Keys, NEW qty \in Quantities, ExecuteOrder(id, qty)
      PROVE  BookInv'
  BY <1>3, ExecuteOrderInv
<1>4. ASSUME NEW id \in Keys, ProbeForever(id)
      PROVE  BookInv'
  BY <1>4, ProbeForeverInv
<1>5. CASE UNCHANGED bookVars
  BY <1>5, IdleBookInv
<1> QED
  BY <1>1, <1>2, <1>3, <1>4, <1>5 DEF Next, Spin

\* A book of any capacity, with any hash function, stale pointers included,
\* keeps its levels sorted, each with a head and a tail in slots that hold
\* orders, and counts its entries.
THEOREM BookInvariant == Spec => []BookInv
BY InitBookInv, StepBookInv, PTL DEF Spec

\* What the invariant says of the properties of book_collide.
LEMMA BookInvImplies == BookInv => TypeOK /\ LevelsSorted /\ NoEmptyLevel
<1> SUFFICES ASSUME BookInv
             PROVE  TypeOK /\ LevelsSorted /\ NoEmptyLevel
  OBVIOUS
<1>1. TypeOK
  BY OccupiedFinite DEF BookInv, GoodBook, GoodTable, TypeOK
<1>2. LevelsSorted
  BY DEF BookInv, GoodBook, SortedBy, LevelsSorted
<1>3. NoEmptyLevel
  BY NullAssumption DEF BookInv, GoodBook, GoodLevels, NoEmptyLevel, Used
<1> QED
  BY <1>1, <1>2, <1>3

(* Types: no pointer ever leaves the table, no quantity its width.         *)
THEOREM BookTyped == Spec => []TypeOK
BY BookInvariant, BookInvImplies, PTL

(* The price vectors stay strictly sorted, whatever collides.              *)
THEOREM BookLevelsSorted == Spec => []LevelsSorted
BY BookInvariant, BookInvImplies, PTL

(* Every level has a head and a tail to dereference, whatever collides.    *)
THEOREM BookNoEmptyLevel == Spec => []NoEmptyLevel
BY BookInvariant, BookInvImplies, PTL

-----------------------------------------------------------------------------
(***************************************************************************)
(* Lists.  level threads q through table when the pointers from its head   *)
(* lead through the slots of q in order, and those from its tail back.     *)
(***************************************************************************)
Threads(table, level, q) ==
  /\ Len(q) > 0
  /\ level.head = q[1] /\ level.tail = q[Len(q)]
  /\ \A n \in 1 .. Len(q) :
       /\ table[q[n]].order.next = IF n = Len(q) THEN Null ELSE q[n + 1]
       /\ table[q[n]].order.prev = IF n = 1 THEN Null ELSE q[n - 1]

NoRepeats(q) == \A m, n \in 1 .. Len(q) : q[m] = q[n] => m = n

\* A queue of different slots is no longer than the table.
LEMMA QueueFits ==
  ASSUME NEW q \in Seq(Slots), NoRepeats(q)
  PROVE  Len(q) \in 0 .. Capacity
<1>1. Len(q) \in Nat /\ DOMAIN q = 1 .. Len(q)
  OBVIOUS
<1>2. IsFiniteSet(1 .. Len(q)) /\ Cardinality(1 .. Len(q)) = Len(q)
  BY <1>1, FS_Interval
<1>3. IsFiniteSet(Slots) /\ Cardinality(Slots) = Capacity
  BY CapacityPositive, FS_Interval DEF Slots
<1>4. q \in Injection(1 .. Len(q), Slots)
  BY <1>1 DEF NoRepeats, Injection, IsInjective
<1>5. Cardinality(1 .. Len(q)) <= Cardinality(Slots)
  BY <1>3, <1>4, FS_Injection DEF ExistsInjection
<1> QED
  BY <1>1, <1>2, <1>3, <1>5, CapacityPositive

\* The equation that NodeAt's node solves.
Follows(node, table, level) ==
  node = [n \in Nat |-> IF n = 0
                        THEN level.head
                        ELSE IF node[n - 1] = Null THEN Null
                                                   ELSE table[node[n - 1]].order.next]

\* The walk along a list exists.
LEMMA NodeAtFollows ==
  ASSUME NEW table, NEW level, \E node : Follows(node, table, level)
  PROVE  \E node : /\ Follows(node, table, level)
                   /\ NodeAt(table, level) = [n \in 0 .. Capacity |-> node[n]]
<1> DEFINE node[n \in Nat] ==
             IF n = 0
             THEN level.head
             ELSE LET last == node[n - 1]
                  IN  IF last = Null THEN Null ELSE table[last].order.next
<1>1. node = CHOOSE f : Follows(f, table, level)
  BY Zenon DEF Follows
<1>2. NodeAt(table, level) = [n \in 0 .. Capacity |-> node[n]]
  BY Zenon DEF NodeAt
<1> HIDE DEF node
<1>3. Follows(node, table, level)
  BY <1>1, Zenon
<1> QED
  BY <1>2, <1>3, Zenon

\* A walk that follows a level's pointers visits the queue it threads.
LEMMA WalkIs ==
  ASSUME NEW table, NEW level, NEW q \in Seq(Slots), NoRepeats(q), Threads(table, level, q)
  PROVE  WalkEnds(table, level) /\ Walk(table, level) = q
<1> DEFINE N == Len(q)
           stop == [n \in Nat |-> IF n < N THEN q[n + 1] ELSE Null]
<1>1. N \in 0 .. Capacity /\ N \in Nat /\ N > 0
  BY QueueFits DEF Threads
<1>2. \A n \in 1 .. N : q[n] \in Slots /\ q[n] # Null
  BY NullAssumption
<1>3. Follows(stop, table, level)
  <2> SUFFICES ASSUME NEW n \in Nat
               PROVE  stop[n] = IF n = 0
                                THEN level.head
                                ELSE IF stop[n - 1] = Null THEN Null
                                                           ELSE table[stop[n - 1]].order.next
    BY DEF Follows
  <2>1. CASE n = 0
    BY <1>1, <2>1 DEF Threads
  <2>2. CASE n # 0 /\ n <= N
    <3>1. n - 1 \in Nat /\ stop[n - 1] = q[n] /\ n \in 1 .. N
      BY <1>1, <2>2
    <3>2. table[q[n]].order.next = IF n = N THEN Null ELSE q[n + 1]
      BY <3>1 DEF Threads
    <3>3. stop[n] = IF n = N THEN Null ELSE q[n + 1]
      BY <1>1, <2>2
    <3> QED
      BY <1>2, <2>2, <3>1, <3>2, <3>3
  <2>3. CASE n > N
    <3>1. n - 1 \in Nat /\ stop[n - 1] = Null /\ stop[n] = Null
      BY <1>1, <2>3
    <3> QED
      BY <1>1, <2>3, <3>1
  <2> QED
    BY <1>1, <2>1, <2>2, <2>3
<1>4. PICK node : /\ Follows(node, table, level)
                  /\ NodeAt(table, level) = [n \in 0 .. Capacity |-> node[n]]
  BY <1>3, NodeAtFollows
<1> HIDE DEF stop
<1>5. \A n \in Nat : node[n] = stop[n]
  <2> DEFINE S == {n \in Nat : node[n] = stop[n]}
  <2>1. 0 \in S
    BY <1>3, <1>4 DEF Follows
  <2>2. ASSUME NEW n \in Nat, n \in S
        PROVE  n + 1 \in S
    <3>1. n + 1 \in Nat /\ n + 1 # 0 /\ (n + 1) - 1 = n /\ node[n] = stop[n]
      BY <2>2
    <3>2. node[n + 1] = IF node[n] = Null THEN Null ELSE table[node[n]].order.next
      BY <1>4, <3>1 DEF Follows
    <3>3. stop[n + 1] = IF stop[n] = Null THEN Null ELSE table[stop[n]].order.next
      BY <1>3, <3>1 DEF Follows
    <3> QED
      BY <3>1, <3>2, <3>3
  <2> HIDE DEF S
  <2>3. Nat \subseteq S
    BY <2>1, <2>2, InductionOnNat
  <2> QED
    BY <2>3 DEF S
<1>6. \A n \in 0 .. Capacity : NodeAt(table, level)[n] = IF n < N THEN q[n + 1] ELSE Null
  BY <1>4, <1>5, CapacityPositive DEF stop
<1>7. WalkEnds(table, level)
  BY <1>1, <1>6, CapacityPositive DEF WalkEnds
<1>8. {m \in DOMAIN NodeAt(table, level) : NodeAt(table, level)[m] # Null} = 0 .. N - 1
  <2>1. DOMAIN NodeAt(table, level) = 0 .. Capacity
    BY <1>4
  <2>2. ASSUME NEW m \in 0 .. Capacity
        PROVE  NodeAt(table, level)[m] # Null <=> m \in 0 .. N - 1
    <3>1. m < N => m + 1 \in 1 .. N
      BY <1>1, CapacityPositive
    <3> QED
      BY <1>1, <1>2, <1>6, <3>1, CapacityPositive
  <2>3. 0 .. N - 1 \subseteq 0 .. Capacity
    BY <1>1, CapacityPositive
  <2> QED
    BY <2>1, <2>2, <2>3
<1>9. Cardinality(0 .. N - 1) = N
  BY <1>1, FS_Interval
<1>10. Walk(table, level) = [n \in 1 .. N |-> NodeAt(table, level)[n - 1]]
  BY <1>8, <1>9 DEF Walk
<1>11. \A n \in 1 .. N : NodeAt(table, level)[n - 1] = q[n]
  BY <1>1, <1>6, CapacityPositive
<1>12. Walk(table, level) = [n \in 1 .. N |-> q[n]]
  BY <1>10, <1>11
<1>13. q = [n \in 1 .. N |-> q[n]]
  OBVIOUS
<1> QED
  BY <1>7, <1>12, <1>13

\* The slots of the orders stored for one side and price.
OrdersIn(table, side, price) ==
  {i \in Occupied(table) : table[i].order.side = side /\ table[i].order.price = price}

\* q holds the stored orders of one side and price, each once.
Queued(table, side, price, q) ==
  /\ q \in Seq(Slots) /\ NoRepeats(q)
  /\ \A i \in Slots : i \in OrdersIn(table, side, price) <=> \E n \in 1 .. Len(q) : q[n] = i

\* Q is the queues that the levels thread through table.
Represents(table, lvls, Q) ==
  /\ Q \in [Sides -> [Prices -> Seq(Slots)]]
  /\ \A side \in Sides, price \in Prices :
       /\ Queued(table, side, price, Q[side][price])
       /\ Q[side][price] # <<>> => \E i \in DOMAIN lvls[side] : lvls[side][i].price = price
  /\ \A side \in Sides : \A i \in DOMAIN lvls[side] :
       Threads(table, lvls[side][i], Q[side][lvls[side][i].price])

\* A list whose members keep their links stays a list.
LEMMA ThreadsKeep ==
  ASSUME NEW t, NEW u, NEW level, NEW q \in Seq(Slots), Threads(t, level, q),
         \A n \in 1 .. Len(q) : /\ u[q[n]].order.next = t[q[n]].order.next
                                /\ u[q[n]].order.prev = t[q[n]].order.prev
  PROVE  Threads(u, level, q)
BY DEF Threads

\* The queue with p behind it.
LEMMA ThreadsAppend ==
  ASSUME NEW t, NEW u, NEW level, NEW q \in Seq(Slots), NEW p \in Slots, NoRepeats(q),
         IF level.head = Null THEN q = <<>> ELSE Threads(t, level, q),
         \A n \in 1 .. Len(q) :
           /\ q[n] # p
           /\ u[q[n]].order.next = IF level.head # Null /\ q[n] = level.tail
                                   THEN p ELSE t[q[n]].order.next
           /\ u[q[n]].order.prev = t[q[n]].order.prev,
         u[p].order.next = Null,
         u[p].order.prev = IF level.head = Null THEN Null ELSE level.tail,
         NEW new, new.head = IF level.head = Null THEN p ELSE level.head, new.tail = p
  PROVE  Threads(u, new, Append(q, p)) /\ NoRepeats(Append(q, p))
<1> DEFINE r == Append(q, p)
<1>1. /\ Len(q) \in Nat /\ Len(r) = Len(q) + 1 /\ r[Len(q) + 1] = p
      /\ \A n \in 1 .. Len(q) : r[n] = q[n]
  BY AppendProperties
<1> HIDE DEF r
<1>2. NoRepeats(r)
  BY <1>1 DEF NoRepeats
<1>3. CASE level.head = Null
  <2>1. Len(q) = 0
    BY <1>3
  <2> QED
    BY <1>1, <1>2, <1>3, <2>1 DEF Threads, r
<1>4. CASE level.head # Null
  <2>1. /\ Len(q) > 0 /\ level.head = q[1] /\ level.tail = q[Len(q)]
        /\ \A n \in 1 .. Len(q) :
             /\ t[q[n]].order.next = IF n = Len(q) THEN Null ELSE q[n + 1]
             /\ t[q[n]].order.prev = IF n = 1 THEN Null ELSE q[n - 1]
    BY <1>4 DEF Threads
  <2>2. \A n \in 1 .. Len(q) : q[n] = level.tail <=> n = Len(q)
    BY <1>1, <2>1 DEF NoRepeats
  <2>3. new.head = r[1] /\ new.tail = r[Len(r)]
    BY <1>1, <1>4, <2>1
  <2>4. ASSUME NEW n \in 1 .. Len(r)
        PROVE  /\ u[r[n]].order.next = IF n = Len(r) THEN Null ELSE r[n + 1]
               /\ u[r[n]].order.prev = IF n = 1 THEN Null ELSE r[n - 1]
    <3>1. CASE n = Len(q) + 1
      <4>1. r[n] = p /\ n = Len(r) /\ n # 1 /\ r[n - 1] = q[Len(q)]
        BY <1>1, <2>1, <3>1
      <4> QED
        BY <1>4, <2>1, <4>1
    <3>2. CASE n = Len(q)
      <4>1. r[n] = q[n] /\ n # Len(r) /\ r[n + 1] = p /\ n \in 1 .. Len(q)
        BY <1>1, <2>1, <3>2
      <4>2. n # 1 => r[n - 1] = q[n - 1]
        BY <1>1, <2>1, <3>2
      <4> QED
        BY <1>4, <2>1, <2>2, <3>2, <4>1, <4>2
    <3>3. CASE n < Len(q)
      <4>1. r[n] = q[n] /\ n # Len(r) /\ r[n + 1] = q[n + 1] /\ n \in 1 .. Len(q) /\ n # Len(q)
        BY <1>1, <2>1, <3>3
      <4>2. n # 1 => r[n - 1] = q[n - 1]
        BY <1>1, <2>1, <3>3
      <4> QED
        BY <1>4, <2>1, <2>2, <4>1, <4>2
    <3> QED
      BY <1>1, <3>1, <3>2, <3>3
  <2> QED
    BY <1>1, <1>2, <2>3, <2>4 DEF Threads, r
<1> QED
  BY <1>3, <1>4

\* The neighbours in q of its k-th slot lead past it in u.
ClosesGap(t, u, q, k) ==
  \A n \in 1 .. Len(q) : n # k =>
    /\ u[q[n]].order.next = IF q[n] = t[q[k]].order.prev
                            THEN t[q[k]].order.next ELSE t[q[n]].order.next
    /\ u[q[n]].order.prev = IF q[n] = t[q[k]].order.next
                            THEN t[q[k]].order.prev ELSE t[q[n]].order.prev

\* The queue without the slot at its k-th place.
LEMMA ThreadsRemove ==
  ASSUME NEW t, NEW u, NEW level, NEW q \in Seq(Slots), NEW k \in 1 .. Len(q), NoRepeats(q),
         Threads(t, level, q), ClosesGap(t, u, q, k),
         NEW new,
         new.head = IF t[q[k]].order.prev = Null THEN t[q[k]].order.next ELSE level.head,
         new.tail = IF t[q[k]].order.next = Null THEN t[q[k]].order.prev ELSE level.tail
  PROVE  /\ NoRepeats(RemoveAt(q, k))
         /\ new.head = Null => RemoveAt(q, k) = <<>>
         /\ new.head # Null => Threads(u, new, RemoveAt(q, k))
<1> DEFINE r == RemoveAt(q, k)
           N == Len(q)
           old(n) == IF n < k THEN n ELSE n + 1
<1>1. /\ N \in Nat /\ N > 0 /\ k \in Nat /\ 1 <= k /\ k <= N
      /\ r \in Seq(Slots) /\ Len(r) = N - 1
      /\ \A n \in 1 .. N - 1 : r[n] = IF n < k THEN q[n] ELSE q[n + 1]
  BY RemoveAtIs DEF Threads
<1>2. /\ level.head = q[1] /\ level.tail = q[N]
      /\ \A n \in 1 .. N :
           /\ t[q[n]].order.next = IF n = N THEN Null ELSE q[n + 1]
           /\ t[q[n]].order.prev = IF n = 1 THEN Null ELSE q[n - 1]
           /\ q[n] # Null
  BY NullAssumption DEF Threads
<1>4. \A m, n \in 1 .. N : q[m] = q[n] => m = n
  BY DEF NoRepeats
<1> HIDE DEF r, N
<1>3. \A n \in 1 .. N - 1 : old(n) \in 1 .. N /\ old(n) # k /\ r[n] = q[old(n)]
  BY <1>1
<1>5. NoRepeats(r)
  <2> SUFFICES ASSUME NEW m \in 1 .. N - 1, NEW n \in 1 .. N - 1, r[m] = r[n]
               PROVE  m = n
    BY <1>1 DEF NoRepeats
  <2>1. old(m) = old(n)
    BY <1>3, <1>4
  <2> QED
    BY <1>1, <2>1
<1>6. CASE N = 1
  <2>1. k = 1 /\ Len(r) = 0 /\ r = <<>>
    BY <1>1, <1>6
  <2>2. t[q[k]].order.prev = Null /\ t[q[k]].order.next = Null
    BY <1>1, <1>2, <1>6, <2>1
  <2>3. new.head = Null
    BY <2>2
  <2> QED
    BY <1>5, <2>1, <2>3 DEF r
<1>7. CASE N > 1
  <2>1. /\ t[q[k]].order.prev = IF k = 1 THEN Null ELSE q[k - 1]
        /\ t[q[k]].order.next = IF k = N THEN Null ELSE q[k + 1]
    BY <1>1, <1>2
  <2>2. new.head = r[1] /\ r[1] # Null
    <3>1. CASE k = 1
      <4>1. r[1] = q[2] /\ 2 \in 1 .. N /\ k # N /\ k + 1 = 2
        BY <1>1, <1>7, <3>1
      <4> QED
        BY <1>2, <2>1, <3>1, <4>1
    <3>2. CASE k # 1
      <4>1. r[1] = q[1] /\ k - 1 \in 1 .. N /\ 1 \in 1 .. N
        BY <1>1, <1>7, <3>2
      <4> QED
        BY <1>2, <2>1, <3>2, <4>1
    <3> QED
      BY <3>1, <3>2
  <2>3. new.tail = r[Len(r)]
    <3>1. CASE k = N
      <4>1. r[N - 1] = q[N - 1] /\ k # 1 /\ k - 1 = N - 1
        BY <1>1, <1>7, <3>1
      <4> QED
        BY <1>1, <1>2, <2>1, <3>1, <4>1
    <3>2. CASE k # N
      <4>1. r[N - 1] = q[N] /\ k + 1 \in 1 .. N
        BY <1>1, <1>7, <3>2
      <4> QED
        BY <1>1, <1>2, <2>1, <3>2, <4>1
    <3> QED
      BY <3>1, <3>2
  <2>4. \A m \in 1 .. N : k # 1 => (q[m] = q[k - 1] <=> m = k - 1)
    BY <1>1, <1>4
  <2>5. \A m \in 1 .. N : k # N => (q[m] = q[k + 1] <=> m = k + 1)
    BY <1>1, <1>4
  <2>6. \A m \in 1 .. N : m # k =>
          /\ u[q[m]].order.next = IF k # 1 /\ m = k - 1 THEN t[q[k]].order.next
                                                        ELSE t[q[m]].order.next
          /\ u[q[m]].order.prev = IF k # N /\ m = k + 1 THEN t[q[k]].order.prev
                                                        ELSE t[q[m]].order.prev
    BY <1>2, <2>1, <2>4, <2>5 DEF N, ClosesGap
  <2>7. ASSUME NEW n \in 1 .. N - 1
        PROVE  /\ u[r[n]].order.next = IF n = N - 1 THEN Null ELSE r[n + 1]
               /\ u[r[n]].order.prev = IF n = 1 THEN Null ELSE r[n - 1]
    <3>0. n \in Nat /\ 1 <= n /\ n <= N - 1
      BY <1>1
    <3>1. CASE n < k - 1
      <4>1. /\ r[n] = q[n] /\ r[n + 1] = q[n + 1] /\ n \in 1 .. N /\ n # k /\ n # k - 1
            /\ n # k + 1 /\ n # N /\ n # N - 1
        BY <1>1, <3>0, <3>1
      <4>2. n # 1 => r[n - 1] = q[n - 1]
        BY <1>1, <3>0, <3>1
      <4>3. /\ u[q[n]].order.next = t[q[n]].order.next
            /\ u[q[n]].order.prev = t[q[n]].order.prev
        BY <2>6, <4>1
      <4>4. /\ t[q[n]].order.next = q[n + 1]
            /\ t[q[n]].order.prev = IF n = 1 THEN Null ELSE q[n - 1]
        BY <1>2, <4>1
      <4> QED
        BY <4>1, <4>2, <4>3, <4>4
    <3>2. CASE n = k - 1
      <4>1. /\ r[n] = q[n] /\ n \in 1 .. N /\ n # k /\ k # 1 /\ n # k + 1
            /\ (n = N - 1 <=> k = N)
        BY <1>1, <3>0, <3>2
      <4>2. n # 1 => r[n - 1] = q[n - 1]
        BY <1>1, <3>0, <3>2
      <4>3. n # N - 1 => r[n + 1] = q[k + 1]
        BY <1>1, <3>0, <3>2
      <4>4. u[q[n]].order.next = t[q[k]].order.next /\ u[q[n]].order.prev = t[q[n]].order.prev
        BY <2>6, <3>2, <4>1
      <4> QED
        BY <1>2, <2>1, <4>1, <4>2, <4>3, <4>4
    <3>3. CASE n = k
      <4>1. /\ r[n] = q[n + 1] /\ n + 1 \in 1 .. N /\ n + 1 # k /\ k # N /\ n + 1 # k - 1
            /\ n + 1 = k + 1 /\ (n = N - 1 <=> n + 1 = N)
        BY <1>1, <3>0, <3>3
      <4>2. n # 1 => r[n - 1] = q[k - 1]
        BY <1>1, <3>0, <3>3
      <4>3. n # N - 1 => r[n + 1] = q[(n + 1) + 1]
        BY <1>1, <3>0, <3>3
      <4>4. /\ u[q[n + 1]].order.next = t[q[n + 1]].order.next
            /\ u[q[n + 1]].order.prev = t[q[k]].order.prev
        BY <2>6, <4>1
      <4>5. t[q[n + 1]].order.next = IF n + 1 = N THEN Null ELSE q[(n + 1) + 1]
        BY <1>2, <4>1
      <4> QED
        BY <2>1, <3>3, <4>1, <4>2, <4>3, <4>4, <4>5
    <3>4. CASE n > k
      <4>0. k \in Nat /\ N \in Nat /\ 1 <= k /\ k <= N
        BY <1>1
      <4>1. /\ n + 1 \in 1 .. N /\ n + 1 # k /\ n + 1 # k - 1
            /\ n + 1 # k + 1 /\ (n = N - 1 <=> n + 1 = N) /\ n # 1 /\ n + 1 # 1
        BY ONLY <3>0, <3>4, <4>0
      <4>2. r[n] = q[n + 1] /\ r[n - 1] = q[(n + 1) - 1]
        <5>1. /\ n \in 1 .. N - 1 /\ n - 1 \in 1 .. N - 1 /\ ~(n < k) /\ ~(n - 1 < k)
              /\ (n - 1) + 1 = (n + 1) - 1
          BY ONLY <3>0, <3>4, <4>0
        <5>2. \A m \in 1 .. N - 1 : ~(m < k) => r[m] = q[m + 1]
          BY ONLY <1>1
        <5>3. r[n - 1] = q[(n - 1) + 1]
          BY ONLY <5>1, <5>2
        <5> QED
          BY ONLY <5>1, <5>2, <5>3
      <4>3. n # N - 1 => r[n + 1] = q[(n + 1) + 1]
        <5>1. n # N - 1 => n + 1 \in 1 .. N - 1 /\ ~(n + 1 < k)
          BY ONLY <3>0, <3>4, <4>0
        <5>2. \A m \in 1 .. N - 1 : ~(m < k) => r[m] = q[m + 1]
          BY ONLY <1>1
        <5> QED
          BY ONLY <5>1, <5>2
      <4>4. /\ u[q[n + 1]].order.next = t[q[n + 1]].order.next
            /\ u[q[n + 1]].order.prev = t[q[n + 1]].order.prev
        BY <2>6, <4>1
      <4>5. /\ t[q[n + 1]].order.next = IF n + 1 = N THEN Null ELSE q[(n + 1) + 1]
            /\ t[q[n + 1]].order.prev = q[(n + 1) - 1]
        BY <1>2, <4>1
      <4> QED
        BY <4>1, <4>2, <4>3, <4>4, <4>5
    <3> QED
      BY <1>1, <3>0, <3>1, <3>2, <3>3, <3>4
  <2>8. Threads(u, new, r) /\ new.head # Null
    BY <1>1, <1>7, <2>2, <2>3, <2>7 DEF Threads
  <2> QED
    BY <1>5, <2>8 DEF r
<1> QED
  BY <1>1, <1>6, <1>7

\* u is t with the order of id in slot p.
Added(t, u, p, id, side, price, qty) ==
  /\ p \in Slots /\ p \notin Occupied(t) /\ Occupied(u) = Occupied(t) \cup {p}
  /\ u[p].key = id /\ u[p].order.remaining = qty
  /\ u[p].order.side = side /\ u[p].order.price = price
  /\ \A i \in Occupied(t) : /\ u[i].key = t[i].key
                            /\ u[i].order.remaining = t[i].order.remaining
                            /\ u[i].order.side = t[i].order.side
                            /\ u[i].order.price = t[i].order.price

\* u is t without the order in slot p.
Removed(t, u, p) ==
  /\ p \in Occupied(t) /\ Occupied(u) = Occupied(t) \ {p}
  /\ \A i \in Occupied(u) : /\ u[i].key = t[i].key
                            /\ u[i].order.remaining = t[i].order.remaining
                            /\ u[i].order.side = t[i].order.side
                            /\ u[i].order.price = t[i].order.price

\* The queues with one of them exchanged.
LEMMA QueueExchanged ==
  ASSUME NEW Q \in [Sides -> [Prices -> Seq(Slots)]], NEW side \in Sides, NEW price \in Prices,
         NEW q \in Seq(Slots)
  PROVE  /\ [Q EXCEPT ![side][price] = q] \in [Sides -> [Prices -> Seq(Slots)]]
         /\ \A s \in Sides, c \in Prices :
              [Q EXCEPT ![side][price] = q][s][c] =
                IF s = side /\ c = price THEN q ELSE Q[s][c]
OBVIOUS

\* A member of a queue is a stored order of its side and price.
LEMMA QueuedAt ==
  ASSUME NEW t, NEW side, NEW price, NEW q, Queued(t, side, price, q), NEW n \in 1 .. Len(q)
  PROVE  /\ q[n] \in Occupied(t) /\ q[n] \in Slots
         /\ t[q[n]].order.side = side /\ t[q[n]].order.price = price
<1>1. q[n] \in Slots
  BY DEF Queued
<1>2. q[n] \in OrdersIn(t, side, price)
  BY <1>1 DEF Queued
<1> QED
  BY <1>1, <1>2 DEF OrdersIn

\* The new order's queue grows at its end.
LEMMA QueuedAppend ==
  ASSUME NEW t, NEW u, NEW p, NEW id, NEW side, NEW price, NEW qty,
         Added(t, u, p, id, side, price, qty),
         NEW q, Queued(t, side, price, q)
  PROVE  Queued(u, side, price, Append(q, p))
<1> DEFINE r == Append(q, p)
<1>1. q \in Seq(Slots) /\ p \in Slots /\ Len(q) \in Nat
  BY DEF Queued, Added
<1>2. /\ r \in Seq(Slots) /\ Len(r) = Len(q) + 1 /\ r[Len(q) + 1] = p
      /\ \A n \in 1 .. Len(q) : r[n] = q[n]
  BY <1>1, AppendProperties
<1> HIDE DEF r
<1>3. \A n \in 1 .. Len(q) : q[n] # p
  BY QueuedAt DEF Added
<1>4. NoRepeats(r)
  BY <1>1, <1>2, <1>3 DEF NoRepeats, Queued
<1>5. ASSUME NEW i \in Slots
      PROVE  i \in OrdersIn(u, side, price) <=> i = p \/ i \in OrdersIn(t, side, price)
  BY DEF OrdersIn, Added
<1>6. ASSUME NEW i \in Slots
      PROVE  (\E n \in 1 .. Len(r) : r[n] = i) <=> i = p \/ \E n \in 1 .. Len(q) : q[n] = i
  <2>1. ASSUME NEW n \in 1 .. Len(r), r[n] = i, i # p
        PROVE  \E m \in 1 .. Len(q) : q[m] = i
    <3>1. n \in 1 .. Len(q)
      BY <1>1, <1>2, <2>1
    <3> QED
      BY <1>2, <2>1, <3>1
  <2>2. Len(q) + 1 \in 1 .. Len(r) /\ \A n \in 1 .. Len(q) : n \in 1 .. Len(r)
    BY <1>1, <1>2
  <2> QED
    BY <1>2, <2>1, <2>2
<1>7. \A i \in Slots : i \in OrdersIn(t, side, price) <=> \E n \in 1 .. Len(q) : q[n] = i
  BY DEF Queued
<1> QED
  BY <1>2, <1>4, <1>5, <1>6, <1>7 DEF Queued, r

\* The other queues are what they were.
LEMMA QueuedElsewhere ==
  ASSUME NEW t, NEW u, NEW p, NEW id, NEW side, NEW price, NEW qty,
         Added(t, u, p, id, side, price, qty),
         NEW s, NEW c, ~(s = side /\ c = price), NEW q, Queued(t, s, c, q)
  PROVE  Queued(u, s, c, q)
<1>1. OrdersIn(u, s, c) = OrdersIn(t, s, c)
  BY DEF OrdersIn, Added
<1> QED
  BY <1>1 DEF Queued

\* u is t with p linked behind the last order of level.
LinksBehind(t, u, level, p) ==
  /\ \A j \in Occupied(t) :
       /\ u[j].order.next = IF level.head # Null /\ j = level.tail THEN p ELSE t[j].order.next
       /\ u[j].order.prev = t[j].order.prev
  /\ u[p].order.next = Null
  /\ u[p].order.prev = IF level.head = Null THEN Null ELSE level.tail

\* lv is the levels old with, at i, one of the price, whether it was there or not.
HasLevel(old, lv, i, price) ==
  /\ i \in DOMAIN lv /\ lv[i].price = price
  /\ \/ lv = old
     \/ /\ \A k \in DOMAIN old : old[k].price # price
        /\ lv[i].head = Null
        /\ \A k \in DOMAIN lv : k # i => \E j \in DOMAIN old : lv[k] = old[j]
        /\ \A j \in DOMAIN old : \E k \in DOMAIN lv : lv[k] = old[j]

\* Adding an order keeps a queue per level, threaded through the table.
LEMMA RepresentsAdd ==
  ASSUME NEW t, NEW lvls \in [Sides -> Seq(Level)], NEW Q, Represents(t, lvls, Q),
         NEW side \in Sides, NEW price \in Prices, NEW u, NEW p, NEW id, NEW qty,
         Added(t, u, p, id, side, price, qty),
         NEW lv \in Seq(Level), SortedBy(side, lv), NEW i, HasLevel(lvls[side], lv, i, price),
         LinksBehind(t, u, lv[i], p),
         NEW new \in Level, new.price = price,
         new.head = IF lv[i].head = Null THEN p ELSE lv[i].head, new.tail = p
  PROVE  Represents(u, [lvls EXCEPT ![side] = [lv EXCEPT ![i] = new]],
                    [Q EXCEPT ![side][price] = Append(Q[side][price], p)])
<1> DEFINE q    == Q[side][price]
           r    == Append(q, p)
           nQ   == [Q EXCEPT ![side][price] = r]
           nlv  == [lv EXCEPT ![i] = new]
           nlvs == [lvls EXCEPT ![side] = nlv]
<1>0. /\ i \in DOMAIN lv /\ lv[i].price = price
      /\ \/ lv = lvls[side]
         \/ /\ \A k \in DOMAIN lvls[side] : lvls[side][k].price # price
            /\ lv[i].head = Null
            /\ \A k \in DOMAIN lv : k # i => \E j \in DOMAIN lvls[side] : lv[k] = lvls[side][j]
            /\ \A j \in DOMAIN lvls[side] : \E k \in DOMAIN lv : lv[k] = lvls[side][j]
  BY DEF HasLevel
<1>0a. /\ \A j \in Occupied(t) :
            /\ u[j].order.next = IF lv[i].head # Null /\ j = lv[i].tail
                                 THEN p ELSE t[j].order.next
            /\ u[j].order.prev = t[j].order.prev
       /\ u[p].order.next = Null
       /\ u[p].order.prev = IF lv[i].head = Null THEN Null ELSE lv[i].tail
  BY DEF LinksBehind
<1>1. /\ Q \in [Sides -> [Prices -> Seq(Slots)]]
      /\ q \in Seq(Slots) /\ Queued(t, side, price, q) /\ NoRepeats(q) /\ p \in Slots
  BY DEF Represents, Queued, Added
<1>2. r \in Seq(Slots) /\ r # <<>>
  <2> HIDE DEF q
  <2> QED
    BY ONLY <1>1, AppendProperties
<1>3. /\ nQ \in [Sides -> [Prices -> Seq(Slots)]]
      /\ \A s \in Sides, c \in Prices :
           nQ[s][c] = IF s = side /\ c = price THEN r ELSE Q[s][c]
  <2> HIDE DEF q, r
  <2> QED
    BY <1>1, <1>2, QueueExchanged
<1>4. /\ nlv \in Seq(Level) /\ DOMAIN nlv = DOMAIN lv /\ SortedBy(side, nlv)
      /\ \A j \in DOMAIN lv : nlv[j] = IF j = i THEN new ELSE lv[j]
  BY <1>0, SortedReplace
<1>5. \A s \in Sides : nlvs[s] = IF s = side THEN nlv ELSE lvls[s]
  OBVIOUS
<1>6. IF lv[i].head = Null THEN q = <<>> ELSE Threads(t, lv[i], q)
  <2>1. CASE lv = lvls[side]
    <3>1. Threads(t, lv[i], q)
      BY <1>0, <2>1 DEF Represents
    <3>2. lv[i].head # Null
      BY <1>1, <3>1, NullAssumption DEF Threads
    <3> QED
      BY <3>1, <3>2
  <2>2. CASE (\A k \in DOMAIN lvls[side] : lvls[side][k].price # price) /\ lv[i].head = Null
    BY <2>2 DEF Represents
  <2> QED
    BY <1>0, <2>1, <2>2
<1>7. \A n \in 1 .. Len(q) : q[n] \in Occupied(t) /\ q[n] # p
  BY <1>1, QueuedAt DEF Added
<1> HIDE DEF q, r, nQ, nlv, nlvs
<1>8. Threads(u, new, r)
  <2>1. \A n \in 1 .. Len(q) :
          /\ q[n] # p
          /\ u[q[n]].order.next = IF lv[i].head # Null /\ q[n] = lv[i].tail
                                  THEN p ELSE t[q[n]].order.next
          /\ u[q[n]].order.prev = t[q[n]].order.prev
    BY <1>0a, <1>7
  <2>2. /\ u[p].order.next = Null
        /\ u[p].order.prev = IF lv[i].head = Null THEN Null ELSE lv[i].tail
        /\ new.head = IF lv[i].head = Null THEN p ELSE lv[i].head
        /\ new.tail = p
    BY <1>0a
  <2>3. Threads(u, new, Append(q, p))
    BY ONLY <1>1, <1>6, <2>1, <2>2, ThreadsAppend
  <2> QED
    BY <2>3 DEF r
<1>9. ASSUME NEW s \in Sides, NEW c \in Prices
      PROVE  /\ Queued(u, s, c, nQ[s][c])
             /\ nQ[s][c] # <<>> => \E j \in DOMAIN nlvs[s] : nlvs[s][j].price = c
  <2>1. CASE s = side /\ c = price
    <3>1. Queued(u, side, price, r)
      BY <1>1, QueuedAppend DEF r
    <3>2. nlv[i].price = price
      BY <1>0, <1>4
    <3> QED
      BY <1>0, <1>3, <1>4, <1>5, <2>1, <3>1, <3>2
  <2>2. CASE ~(s = side /\ c = price)
    <3>1. nQ[s][c] = Q[s][c] /\ Queued(t, s, c, Q[s][c])
      BY <1>3, <2>2 DEF Represents
    <3>2. Queued(u, s, c, Q[s][c])
      BY <2>2, <3>1, QueuedElsewhere
    <3>3. ASSUME Q[s][c] # <<>>
          PROVE  \E j \in DOMAIN nlvs[s] : nlvs[s][j].price = c
      <4>1. PICK j \in DOMAIN lvls[s] : lvls[s][j].price = c
        BY <3>3 DEF Represents
      <4>2. CASE s # side
        BY <1>5, <4>1, <4>2
      <4>3. CASE s = side
        <5>1. PICK k \in DOMAIN lv : lv[k] = lvls[s][j]
          BY <1>0, <4>1, <4>3
        <5>2. k # i
          BY <1>0, <2>2, <4>1, <4>3, <5>1
        <5>3. nlv[k].price = c /\ k \in DOMAIN nlv
          BY <1>4, <4>1, <5>1, <5>2
        <5> QED
          BY <1>5, <4>3, <5>3
      <4> QED
        BY <4>2, <4>3
    <3> QED
      BY <3>1, <3>2, <3>3
  <2> QED
    BY <2>1, <2>2
<1>10. ASSUME NEW s \in Sides, NEW level \in Level, level.price \in Prices,
              Threads(t, level, Q[s][level.price]), ~(s = side /\ level.price = price)
       PROVE  Threads(u, level, nQ[s][level.price])
  <2> DEFINE m == Q[s][level.price]
  <2>1. m \in Seq(Slots) /\ Queued(t, s, level.price, m) /\ nQ[s][level.price] = m
    BY <1>1, <1>3, <1>10 DEF Represents
  <2> HIDE DEF m
  <2>2. ASSUME NEW n \in 1 .. Len(m)
        PROVE  /\ u[m[n]].order.next = t[m[n]].order.next
               /\ u[m[n]].order.prev = t[m[n]].order.prev
    <3>1. m[n] \in Occupied(t) /\ t[m[n]].order.side = s /\ t[m[n]].order.price = level.price
      BY <2>1, QueuedAt
    <3>2. ~(lv[i].head # Null /\ m[n] = lv[i].tail)
      <4> SUFFICES ASSUME lv[i].head # Null, m[n] = lv[i].tail
                   PROVE  FALSE
        OBVIOUS
      <4>1. lv[i].tail = q[Len(q)] /\ Len(q) \in 1 .. Len(q)
        BY <1>1, <1>6 DEF Threads
      <4>2. t[lv[i].tail].order.side = side /\ t[lv[i].tail].order.price = price
        BY <1>1, <4>1, QueuedAt
      <4> QED
        BY <1>10, <3>1, <4>2
    <3> QED
      BY <1>0a, <3>1, <3>2
  <2> QED
    BY <1>10, <2>1, <2>2, ThreadsKeep DEF m
<1>11. ASSUME NEW s \in Sides, NEW j \in DOMAIN nlvs[s]
       PROVE  Threads(u, nlvs[s][j], nQ[s][nlvs[s][j].price])
  <2>1. CASE s # side
    <3>1. nlvs[s][j] = lvls[s][j] /\ j \in DOMAIN lvls[s] /\ lvls[s] \in Seq(Level)
      BY <1>5, <2>1
    <3>2. lvls[s][j] \in Level /\ Threads(t, lvls[s][j], Q[s][lvls[s][j].price])
      BY <3>1 DEF Represents
    <3>3. lvls[s][j].price \in Prices
      BY <3>2 DEF Level
    <3> QED
      BY <1>10, <2>1, <3>1, <3>2, <3>3
  <2>2. CASE s = side /\ j = i
    <3>1. nlvs[s][j] = new
      BY <1>4, <1>5, <2>2
    <3> QED
      BY <1>3, <1>8, <2>2, <3>1
  <2>3. CASE s = side /\ j # i
    <3>1. nlvs[s][j] = lv[j] /\ j \in DOMAIN lv /\ lv[j] \in Level
      BY <1>4, <1>5, <2>3
    <3>2. lv[j].price \in Prices /\ lv[i].price \in Prices
      BY <1>0, <3>1 DEF Level
    <3>3. lv[j].price # price
      <4>1. j \in Nat /\ i \in Nat
        BY <1>0, <3>1
      <4>2. j < i \/ i < j
        BY <2>3, <4>1
      <4>3. Better(side, lv[j].price, lv[i].price) \/ Better(side, lv[i].price, lv[j].price)
        BY <1>0, <3>1, <4>2 DEF SortedBy
      <4> QED
        BY <1>0, <3>2, <4>3, BetterOrders
    <3>4. \E k \in DOMAIN lvls[side] : lv[j] = lvls[side][k]
      BY <1>0, <2>3, <3>1
    <3>5. Threads(t, lv[j], Q[s][lv[j].price])
      BY <2>3, <3>4 DEF Represents
    <3> QED
      BY <1>10, <2>3, <3>1, <3>2, <3>3, <3>5
  <2> QED
    BY <2>1, <2>2, <2>3
<1> QED
  BY <1>3, <1>9, <1>11 DEF Represents, nQ, nlvs, nlv, r, q

\* The queue of an order that leaves closes up.
LEMMA QueuedRemove ==
  ASSUME NEW t, NEW u, NEW p, Removed(t, u, p), NEW side, NEW price,
         NEW q, Queued(t, side, price, q), NEW k \in 1 .. Len(q), q[k] = p
  PROVE  Queued(u, side, price, RemoveAt(q, k))
<1> DEFINE r == RemoveAt(q, k)
           N == Len(q)
<1>1. q \in Seq(Slots) /\ NoRepeats(q) /\ N \in Nat /\ k \in DOMAIN q /\ k \in 1 .. N
  BY DEF Queued
<1>2. /\ r \in Seq(Slots) /\ Len(r) = N - 1
      /\ \A n \in 1 .. N - 1 : r[n] = IF n < k THEN q[n] ELSE q[n + 1]
  BY <1>1, RemoveAtIs
<1>3. \A m, n \in 1 .. N : q[m] = q[n] => m = n
  BY <1>1 DEF NoRepeats
<1> HIDE DEF r, N
<1>4. NoRepeats(r)
  <2> SUFFICES ASSUME NEW m \in 1 .. N - 1, NEW n \in 1 .. N - 1, r[m] = r[n]
               PROVE  m = n
    BY <1>2 DEF NoRepeats
  <2> DEFINE old(x) == IF x < k THEN x ELSE x + 1
  <2>1. old(m) \in 1 .. N /\ old(n) \in 1 .. N /\ r[m] = q[old(m)] /\ r[n] = q[old(n)]
    BY <1>1, <1>2
  <2>2. old(m) = old(n)
    BY <1>3, <2>1
  <2> QED
    BY <1>1, <2>2
<1>5. ASSUME NEW i \in Slots
      PROVE  i \in OrdersIn(u, side, price) <=> i # p /\ i \in OrdersIn(t, side, price)
  BY DEF OrdersIn, Removed
<1>6. ASSUME NEW i \in Slots
      PROVE  (\E n \in 1 .. Len(r) : r[n] = i) <=> i # p /\ \E n \in 1 .. N : q[n] = i
  <2>1. ASSUME NEW n \in 1 .. Len(r), r[n] = i
        PROVE  i # p /\ \E m \in 1 .. N : q[m] = i
    <3> DEFINE m == IF n < k THEN n ELSE n + 1
    <3>1. m \in 1 .. N /\ m # k /\ q[m] = i
      BY <1>1, <1>2, <2>1
    <3> HIDE DEF m
    <3> QED
      BY <1>1, <1>3, <3>1
  <2>2. ASSUME NEW m \in 1 .. N, q[m] = i, i # p
        PROVE  \E n \in 1 .. Len(r) : r[n] = i
    <3>1. CASE m < k
      <4>1. m \in 1 .. Len(r) /\ r[m] = i
        BY <1>1, <1>2, <2>2, <3>1
      <4> QED
        BY <4>1
    <3>2. CASE m > k
      <4>1. m - 1 \in 1 .. Len(r) /\ ~(m - 1 < k) /\ (m - 1) + 1 = m
        BY <1>1, <1>2, <3>2
      <4>2. r[m - 1] = i
        BY <1>2, <2>2, <4>1
      <4> QED
        BY <4>1, <4>2
    <3>3. m # k
      BY <2>2
    <3> QED
      BY <1>1, <3>1, <3>2, <3>3
  <2> QED
    BY <2>1, <2>2
<1>7. \A i \in Slots : i \in OrdersIn(t, side, price) <=> \E n \in 1 .. N : q[n] = i
  BY DEF Queued, N
<1> QED
  BY <1>2, <1>4, <1>5, <1>6, <1>7 DEF Queued, r

\* The other queues are what they were.
LEMMA QueuedStays ==
  ASSUME NEW t, NEW u, NEW p, Removed(t, u, p), NEW s, NEW c, p \notin OrdersIn(t, s, c),
         NEW q, Queued(t, s, c, q)
  PROVE  Queued(u, s, c, q)
<1>1. OrdersIn(u, s, c) = OrdersIn(t, s, c)
  BY DEF OrdersIn, Removed
<1> QED
  BY <1>1 DEF Queued

\* u is t with p unlinked from its neighbours.
LinksPast(t, u, p) ==
  \A j \in Occupied(u) :
    /\ u[j].order.next = IF j = t[p].order.prev THEN t[p].order.next ELSE t[j].order.next
    /\ u[j].order.prev = IF j = t[p].order.next THEN t[p].order.prev ELSE t[j].order.prev

\* new is level with p unlinked.
LevelPast(t, level, new, p) ==
  /\ new \in Level /\ new.price = level.price
  /\ new.head = IF t[p].order.prev = Null THEN t[p].order.next ELSE level.head
  /\ new.tail = IF t[p].order.next = Null THEN t[p].order.prev ELSE level.tail

\* The queues Q, p taken from its place in one of them, are those of u and lvls.
RepresentsWithout(u, lvls, Q, side, price, p) ==
  \E k \in 1 .. Len(Q[side][price]) :
    /\ Q[side][price][k] = p
    /\ Represents(u, lvls, [Q EXCEPT ![side][price] = RemoveAt(Q[side][price], k)])

\* Removing an order keeps a queue per level, and no level for an empty queue.
LEMMA RepresentsRemove ==
  ASSUME NEW t, NEW lvls \in [Sides -> Seq(Level)], NEW Q, Represents(t, lvls, Q),
         NEW side \in Sides, NEW price \in Prices, NEW u, NEW p, Removed(t, u, p),
         t[p].order.side = side, t[p].order.price = price,
         SortedBy(side, lvls[side]),
         NEW i \in DOMAIN lvls[side], lvls[side][i].price = price,
         LinksPast(t, u, p),
         NEW new, LevelPast(t, lvls[side][i], new, p)
  PROVE  RepresentsWithout(u, [lvls EXCEPT ![side] = Shrunk(lvls[side], i, new)],
                           Q, side, price, p)
<1> DEFINE q  == Q[side][price]
           lv == lvls[side]
<1>1. /\ Q \in [Sides -> [Prices -> Seq(Slots)]]
      /\ q \in Seq(Slots) /\ Queued(t, side, price, q) /\ NoRepeats(q)
      /\ p \in Occupied(t) /\ p \in Slots
  BY DEF Represents, Queued, Removed, Occupied
<1>2. PICK k \in 1 .. Len(q) : q[k] = p
  BY <1>1 DEF Queued, OrdersIn
<1> DEFINE r    == RemoveAt(q, k)
           nQ   == [Q EXCEPT ![side][price] = r]
           nlv  == Shrunk(lv, i, new)
           nlvs == [lvls EXCEPT ![side] = nlv]
<1>3. r \in Seq(Slots)
  <2> HIDE DEF q
  <2>1. k \in DOMAIN q
    BY <1>1
  <2> QED
    BY <1>1, <2>1, RemoveAtIs
<1>4. /\ nQ \in [Sides -> [Prices -> Seq(Slots)]]
      /\ \A s \in Sides, c \in Prices :
           nQ[s][c] = IF s = side /\ c = price THEN r ELSE Q[s][c]
  <2> HIDE DEF q, r
  <2> QED
    BY <1>1, <1>3, QueueExchanged
<1>5. \A s \in Sides : nlvs[s] = IF s = side THEN nlv ELSE lvls[s]
  OBVIOUS
<1>6. /\ lv \in Seq(Level) /\ lv[i].price = price /\ i \in DOMAIN lv /\ SortedBy(side, lv)
      /\ Threads(t, lv[i], q)
  BY DEF Represents
<1>7. \A n \in 1 .. Len(q) : q[n] \in Occupied(t)
  BY <1>1, QueuedAt
<1>8. /\ new.head = IF t[p].order.prev = Null THEN t[p].order.next ELSE lv[i].head
      /\ new.tail = IF t[p].order.next = Null THEN t[p].order.prev ELSE lv[i].tail
      /\ new \in Level /\ new.price = price
  BY DEF LevelPast
<1> HIDE DEF q, r, nQ, nlv, nlvs, lv
<1>9. /\ new.head = Null => r = <<>>
      /\ new.head # Null => Threads(u, new, r)
  <2>1. ClosesGap(t, u, q, k)
    <3>1. ASSUME NEW n \in 1 .. Len(q), n # k
          PROVE  q[n] \in Occupied(u)
      BY <1>1, <1>2, <1>7, <3>1 DEF Removed, NoRepeats
    <3> QED
      BY <1>2, <3>1 DEF ClosesGap, LinksPast
  <2>2. /\ new.head = IF t[q[k]].order.prev = Null THEN t[q[k]].order.next ELSE lv[i].head
        /\ new.tail = IF t[q[k]].order.next = Null THEN t[q[k]].order.prev ELSE lv[i].tail
    BY <1>2, <1>8
  <2>3. k \in 1 .. Len(q)
    OBVIOUS
  <2>4. /\ new.head = Null => RemoveAt(q, k) = <<>>
        /\ new.head # Null => Threads(u, new, RemoveAt(q, k))
    BY ONLY <1>1, <1>6, <2>1, <2>2, <2>3, ThreadsRemove
  <2> QED
    BY <2>4 DEF r
<1>10. /\ nlv \in Seq(Level)
       /\ new.head # Null => /\ DOMAIN nlv = DOMAIN lv
                             /\ \A j \in DOMAIN lv : nlv[j] = IF j = i THEN new ELSE lv[j]
       /\ new.head = Null => /\ DOMAIN nlv = 1 .. Len(lv) - 1
                             /\ \A j \in DOMAIN nlv : nlv[j] = IF j < i THEN lv[j] ELSE lv[j + 1]
  <2>1. CASE new.head = Null
    BY <1>6, <2>1, SortedRemove DEF Shrunk, nlv
  <2>2. CASE new.head # Null
    BY <1>6, <1>8, <2>2, SortedReplace DEF Shrunk, nlv
  <2> QED
    BY <2>1, <2>2
\* Every level but the i-th stays, and so does its price.
<1>11. ASSUME NEW j \in DOMAIN lv, j # i
       PROVE  lv[j].price # price /\ \E m \in DOMAIN nlv : nlv[m] = lv[j]
  <2>1. j \in Nat /\ i \in Nat /\ Len(lv) \in Nat /\ DOMAIN lv = 1 .. Len(lv)
    BY <1>6
  <2>2. lv[j].price # price
    <3>1. j < i \/ i < j
      BY <1>11, <2>1
    <3>2. Better(side, lv[j].price, lv[i].price) \/ Better(side, lv[i].price, lv[j].price)
      BY <1>6, <3>1 DEF SortedBy
    <3>3. lv[j] \in Level /\ lv[i] \in Level
      BY <1>6
    <3> QED
      BY <1>6, <3>2, <3>3, BetterOrders DEF Level
  <2>3. CASE new.head # Null
    BY <1>10, <1>11, <2>2, <2>3
  <2>4. CASE new.head = Null /\ j < i
    <3>1. j \in DOMAIN nlv /\ nlv[j] = lv[j]
      BY <1>6, <1>10, <2>1, <2>4
    <3> QED
      BY <2>2, <3>1
  <2>5. CASE new.head = Null /\ j > i
    <3>1. j - 1 \in DOMAIN nlv /\ ~(j - 1 < i) /\ (j - 1) + 1 = j
      BY <1>6, <1>10, <2>1, <2>5
    <3>2. nlv[j - 1] = lv[j]
      BY <1>10, <2>5, <3>1
    <3> QED
      BY <2>2, <3>1, <3>2
  <2> QED
    BY <1>11, <2>1, <2>3, <2>4, <2>5
\* Every level there is, is the i-th or was there.
<1>12. ASSUME NEW m \in DOMAIN nlv
       PROVE  \/ nlv[m] = new /\ new.head # Null
              \/ \E j \in DOMAIN lv : j # i /\ nlv[m] = lv[j]
  <2>1. i \in Nat /\ Len(lv) \in Nat /\ DOMAIN lv = 1 .. Len(lv) /\ i \in 1 .. Len(lv)
    BY <1>6
  <2>2. CASE new.head # Null
    BY <1>10, <2>2
  <2>3. CASE new.head = Null
    <3>1. CASE m < i
      <4>1. m \in DOMAIN lv /\ m # i /\ nlv[m] = lv[m]
        BY <1>10, <2>1, <2>3, <3>1
      <4> QED
        BY <4>1
    <3>2. CASE ~(m < i)
      <4>1. m + 1 \in DOMAIN lv /\ m + 1 # i /\ nlv[m] = lv[m + 1]
        BY <1>10, <2>1, <2>3, <3>2
      <4> QED
        BY <4>1
    <3> QED
      BY <3>1, <3>2
  <2> QED
    BY <2>2, <2>3
<1>13. ASSUME NEW s \in Sides, NEW c \in Prices
       PROVE  /\ Queued(u, s, c, nQ[s][c])
              /\ nQ[s][c] # <<>> => \E j \in DOMAIN nlvs[s] : nlvs[s][j].price = c
  <2>1. CASE s = side /\ c = price
    <3>1. Queued(u, side, price, r)
      BY <1>1, <1>2, QueuedRemove DEF r
    <3>2. r # <<>> => i \in DOMAIN nlv /\ nlv[i].price = price
      BY <1>6, <1>8, <1>9, <1>10
    <3> QED
      BY <1>4, <1>5, <2>1, <3>1, <3>2
  <2>2. CASE ~(s = side /\ c = price)
    <3>1. nQ[s][c] = Q[s][c] /\ Queued(t, s, c, Q[s][c])
      BY <1>4, <2>2 DEF Represents
    <3>2. Queued(u, s, c, Q[s][c])
      <4>1. p \notin OrdersIn(t, s, c)
        BY <2>2 DEF OrdersIn
      <4> QED
        BY <3>1, <4>1, QueuedStays
    <3>3. ASSUME Q[s][c] # <<>>
          PROVE  \E j \in DOMAIN nlvs[s] : nlvs[s][j].price = c
      <4>1. PICK j \in DOMAIN lvls[s] : lvls[s][j].price = c
        BY <3>3 DEF Represents
      <4>2. CASE s # side
        BY <1>5, <4>1, <4>2
      <4>3. CASE s = side
        <5>1. j \in DOMAIN lv /\ lv[j].price = c /\ j # i
          BY <1>6, <2>2, <4>1, <4>3 DEF lv
        <5>2. PICK m \in DOMAIN nlv : nlv[m] = lv[j]
          BY <1>11, <5>1
        <5> QED
          BY <1>5, <4>3, <5>1, <5>2
      <4> QED
        BY <4>2, <4>3
    <3> QED
      BY <3>1, <3>2, <3>3
  <2> QED
    BY <2>1, <2>2
<1>14. ASSUME NEW s \in Sides, NEW level \in Level, level.price \in Prices,
              Threads(t, level, Q[s][level.price]), ~(s = side /\ level.price = price)
       PROVE  Threads(u, level, nQ[s][level.price])
  <2> DEFINE m == Q[s][level.price]
  <2>1. m \in Seq(Slots) /\ Queued(t, s, level.price, m) /\ nQ[s][level.price] = m
    BY <1>1, <1>4, <1>14 DEF Represents
  <2> HIDE DEF m
  <2>2. ASSUME NEW n \in 1 .. Len(m)
        PROVE  /\ u[m[n]].order.next = t[m[n]].order.next
               /\ u[m[n]].order.prev = t[m[n]].order.prev
    <3>1. m[n] \in Occupied(t) /\ t[m[n]].order.side = s /\ t[m[n]].order.price = level.price
      BY <2>1, QueuedAt
    <3>2. m[n] \in Occupied(u)
      BY <1>14, <3>1 DEF Removed
    \* The neighbours of p are of its side and price.
    <3>3. m[n] # t[p].order.prev
      <4> SUFFICES ASSUME m[n] = t[p].order.prev
                   PROVE  FALSE
        OBVIOUS
      <4>1. t[p].order.prev = IF k = 1 THEN Null ELSE q[k - 1]
        BY <1>2, <1>6 DEF Threads
      <4>2. k # 1 /\ m[n] = q[k - 1]
        BY <3>1, <4>1, NullAssumption DEF Occupied
      <4>3. k - 1 \in 1 .. Len(q)
        BY <1>1, <4>2
      <4>4. t[m[n]].order.side = side /\ t[m[n]].order.price = price
        BY <1>1, <4>2, <4>3, QueuedAt
      <4> QED
        BY <1>14, <3>1, <4>4
    <3>4. m[n] # t[p].order.next
      <4> SUFFICES ASSUME m[n] = t[p].order.next
                   PROVE  FALSE
        OBVIOUS
      <4>1. t[p].order.next = IF k = Len(q) THEN Null ELSE q[k + 1]
        BY <1>2, <1>6 DEF Threads
      <4>2. k # Len(q) /\ m[n] = q[k + 1]
        BY <3>1, <4>1, NullAssumption DEF Occupied
      <4>3. k + 1 \in 1 .. Len(q)
        BY <1>1, <4>2
      <4>4. t[m[n]].order.side = side /\ t[m[n]].order.price = price
        BY <1>1, <4>2, <4>3, QueuedAt
      <4> QED
        BY <1>14, <3>1, <4>4
    <3> QED
      BY <3>2, <3>3, <3>4 DEF LinksPast
  <2> QED
    BY <1>14, <2>1, <2>2, ThreadsKeep DEF m
<1>15. ASSUME NEW s \in Sides, NEW m \in DOMAIN nlvs[s]
       PROVE  Threads(u, nlvs[s][m], nQ[s][nlvs[s][m].price])
  <2>1. CASE s # side
    <3>1. nlvs[s][m] = lvls[s][m] /\ m \in DOMAIN lvls[s] /\ lvls[s] \in Seq(Level)
      BY <1>5, <2>1
    <3>2. lvls[s][m] \in Level /\ Threads(t, lvls[s][m], Q[s][lvls[s][m].price])
      BY <3>1 DEF Represents
    <3>3. lvls[s][m].price \in Prices
      BY <3>2 DEF Level
    <3> QED
      BY <1>14, <2>1, <3>1, <3>2, <3>3
  <2>2. CASE s = side
    <3>1. nlvs[s][m] = nlv[m] /\ m \in DOMAIN nlv
      BY <1>5, <2>2
    <3>2. CASE nlv[m] = new /\ new.head # Null
      BY <1>4, <1>8, <1>9, <2>2, <3>1, <3>2
    <3>3. ASSUME NEW j \in DOMAIN lv, j # i, nlv[m] = lv[j]
          PROVE  Threads(u, nlvs[s][m], nQ[s][nlvs[s][m].price])
      <4>1. lv[j] \in Level /\ lv[j].price # price
        BY <1>6, <1>11, <3>3
      <4>2. Threads(t, lv[j], Q[s][lv[j].price])
        BY <2>2, <3>3 DEF Represents, lv
      <4>3. lv[j].price \in Prices
        BY <4>1 DEF Level
      <4> QED
        BY <1>14, <2>2, <3>1, <3>3, <4>1, <4>2, <4>3
    <3> QED
      BY <1>12, <3>1, <3>2, <3>3
  <2> QED
    BY <2>1, <2>2
<1>16. Represents(u, nlvs, nQ)
  BY <1>4, <1>13, <1>15 DEF Represents
<1> QED
  BY <1>2, <1>16 DEF nQ, nlvs, nlv, lv, r, q, RepresentsWithout

-----------------------------------------------------------------------------
(***************************************************************************)
(* The operations over ids that do not collide.  No shift moves an order,  *)
(* so the pointers into the table stay what the lists made them: there are *)
(* queues that the levels thread through it.                               *)
(***************************************************************************)
ListInv(ids) ==
  /\ Settled(slots) /\ StoredIn(slots, ids)
  /\ \E Q : Represents(slots, levels, Q)

\* find_or_insert yields a sorted vector with a level of the price.
LEMMA FindOrInsertKeeps ==
  ASSUME levels \in [Sides -> Seq(Level)], NEW side \in Sides, NEW price \in Prices,
         SortedBy(side, levels[side]),
         NEW lv, lv = FindOrInsert(side, price), NEW i, i = LowerBound(side, price)
  PROVE  /\ lv \in Seq(Level) /\ SortedBy(side, lv)
         /\ HasLevel(levels[side], lv, i, price)
<1> DEFINE old == levels[side]
<1>1. /\ lv \in Seq(Level) /\ SortedBy(side, lv)
      /\ i \in DOMAIN lv /\ lv[i].price = price
      /\ \/ i \in DOMAIN old /\ lv = old
         \/ /\ \A k \in DOMAIN old : old[k].price # price
            /\ lv[i] = EmptyLevel(price)
            /\ Len(lv) = Len(old) + 1
            /\ \A k \in DOMAIN lv :
                 lv[k] = IF k < i THEN old[k] ELSE IF k = i THEN EmptyLevel(price)
                                                           ELSE old[k - 1]
  BY FindOrInsertIs
<1>2. old \in Seq(Level)
  OBVIOUS
<1> HIDE DEF old
<1>3. ASSUME lv[i] = EmptyLevel(price), Len(lv) = Len(old) + 1,
             \A k \in DOMAIN lv :
               lv[k] = IF k < i THEN old[k] ELSE IF k = i THEN EmptyLevel(price) ELSE old[k - 1]
      PROVE  /\ lv[i].head = Null
             /\ \A k \in DOMAIN lv : k # i => \E j \in DOMAIN old : lv[k] = old[j]
             /\ \A j \in DOMAIN old : \E k \in DOMAIN lv : lv[k] = old[j]
  <2>1. /\ Len(old) \in Nat /\ DOMAIN old = 1 .. Len(old) /\ DOMAIN lv = 1 .. Len(old) + 1
        /\ i \in 1 .. Len(old) + 1
    BY <1>1, <1>2, <1>3
  <2>2. lv[i].head = Null
    BY <1>3 DEF EmptyLevel
  <2>3. ASSUME NEW k \in DOMAIN lv, k # i
        PROVE  \E j \in DOMAIN old : lv[k] = old[j]
    <3>1. CASE k < i
      <4>1. k \in DOMAIN old /\ lv[k] = old[k]
        BY <1>3, <2>1, <3>1
      <4> QED
        BY <4>1
    <3>2. CASE k > i
      <4>1. k - 1 \in DOMAIN old /\ lv[k] = old[k - 1]
        BY <1>3, <2>1, <3>2
      <4> QED
        BY <4>1
    <3> QED
      BY <2>1, <2>3, <3>1, <3>2
  <2>4. ASSUME NEW j \in DOMAIN old
        PROVE  \E k \in DOMAIN lv : lv[k] = old[j]
    <3>1. CASE j < i
      <4>1. j \in DOMAIN lv /\ lv[j] = old[j]
        BY <1>3, <2>1, <3>1
      <4> QED
        BY <4>1
    <3>2. CASE j >= i
      <4>1. j + 1 \in DOMAIN lv /\ ~(j + 1 < i) /\ j + 1 # i /\ (j + 1) - 1 = j
        BY <2>1, <3>2
      <4>2. lv[j + 1] = old[j]
        BY <1>3, <4>1
      <4> QED
        BY <4>1, <4>2
    <3> QED
      BY <2>1, <3>1, <3>2
  <2> QED
    BY <2>2, <2>3, <2>4
<1> QED
  BY <1>1, <1>3 DEF old, HasLevel

\* add_order of an id with a slot of its own adds one order and appends it to
\* its queue.
LEMMA AddOrderEffect ==
  ASSUME BookInv, NEW id \in Keys, NEW side \in Sides, NEW price \in Prices,
         NEW qty \in Quantities, AddOrder(id, side, price, qty),
         NEW ids, ids \subseteq Keys, CollisionFree(ids), id \in ids,
         Settled(slots), StoredIn(slots, ids), NEW Q, Represents(slots, levels, Q)
  PROVE  /\ Added(slots, slots', Natural(id), id, side, price, qty)
         /\ Settled(slots') /\ StoredIn(slots', ids)
         /\ Represents(slots', levels',
                       [Q EXCEPT ![side][price] = Append(Q[side][price], Natural(id))])
<1> DEFINE p   == ProbeSlot(slots, id)
           o   == NewOrder(side, price, qty)
           t   == Inserted(slots, id, o)
           lv  == FindOrInsert(side, price)
           i   == LowerBound(side, price)
           u   == Linked(t, lv[i], p).table
           new == Linked(t, lv[i], p).level
<1>1. /\ ProbeEnds(slots, id) /\ Find(slots, id) = Null
      /\ slots' = u /\ levels' = [levels EXCEPT ![side] = [lv EXCEPT ![i] = new]]
  BY DEF AddOrder, Found
<1>2. /\ GoodBook(slots, levels) /\ GoodTable(slots) /\ levels \in [Sides -> Seq(Level)]
      /\ SortedBy(side, levels[side]) /\ Keyed(slots) /\ Occupied(slots) \subseteq Used(slots)
  BY DEF BookInv, GoodBook, GoodTable
<1>3. /\ o \in Order /\ o.next = Null /\ o.prev = Null
      /\ o.side = side /\ o.price = price /\ o.remaining = qty
  BY NewOrderIs DEF NewOrder
<1>4. p = Natural(id) /\ ~slots[p].occupied /\ p \in Slots
  <2>1. p = Natural(id)
    BY <1>2, SettledProbe
  <2>2. ~slots[p].occupied
    BY <1>1, FindIs
  <2> QED
    BY <2>1, <2>2, NaturalIsSlot
<1> HIDE DEF o
<1>5. /\ GoodTable(t) /\ Used(t) = Used(slots) \cup {p} /\ p \in Used(t)
      /\ Occupied(t) = Occupied(slots) \cup {p}
      /\ t[p].key = id /\ t[p].order = o
      /\ \A j \in Slots \ {p} : t[j] = slots[j]
  BY <1>1, <1>2, <1>3, InsertGood
<1> HIDE DEF t, p
<1>6. LinkedBy(t, lv[i], p, u, new)
  <2>1. Used(slots) \subseteq Used(t)
    BY <1>5
  <2> QED
    BY ONLY <1>2, <1>5, <2>1, side \in Sides, price \in Prices, AddLevels
<1>7. /\ lv \in Seq(Level) /\ SortedBy(side, lv) /\ HasLevel(levels[side], lv, i, price)
  BY <1>2, FindOrInsertKeeps
<1> HIDE DEF u, new, lv, i
<1>8. /\ u \in [Slots -> Slot] /\ SameKeys(t, u) /\ Used(u) = Used(t)
      /\ Occupied(u) = Occupied(slots) \cup {p}
      /\ \A j \in Used(t) : /\ u[j].order.side = t[j].order.side
                            /\ u[j].order.price = t[j].order.price
                            /\ u[j].order.remaining = t[j].order.remaining
  BY <1>5, <1>6, RelinkedOccupied DEF LinkedBy, Relinked
<1>9. p \notin Occupied(slots) /\ \A j \in Occupied(slots) : j \in Slots \ {p} /\ j \in Used(t)
  BY <1>2, <1>4, <1>5 DEF Occupied
<1>10. \A j \in Slots : u[j].key = t[j].key
  BY <1>8 DEF SameKeys
<1>11. Added(slots, u, p, id, side, price, qty)
  BY <1>3, <1>4, <1>5, <1>8, <1>9, <1>10 DEF Added
<1>12. Settled(u) /\ StoredIn(u, ids)
  BY <1>4, <1>11 DEF Added, Settled, NaturalOf, StoredIn
<1>13. LinksBehind(slots, u, lv[i], p)
  BY <1>5, <1>6, <1>9 DEF LinkedBy, LinksBehind
<1>14. /\ new \in Level /\ new.price = price /\ new.tail = p
       /\ new.head = IF lv[i].head = Null THEN p ELSE lv[i].head
  <2>1. new = [price |-> price, head |-> IF lv[i].head = Null THEN p ELSE lv[i].head, tail |-> p]
    BY <1>6, <1>7 DEF LinkedBy, HasLevel
  <2>2. p \in Pointer /\ lv[i] \in Level
    BY <1>4, <1>7, PointerIs DEF HasLevel
  <2> QED
    BY <2>1, <2>2 DEF Level
<1>15. Represents(u, [levels EXCEPT ![side] = [lv EXCEPT ![i] = new]],
                  [Q EXCEPT ![side][price] = Append(Q[side][price], p)])
  <2>1. Represents(slots, levels, Q) /\ side \in Sides /\ price \in Prices
    OBVIOUS
  <2> QED
    BY ONLY <1>2, <1>7, <1>11, <1>13, <1>14, <2>1, RepresentsAdd
<1> QED
  BY <1>1, <1>4, <1>11, <1>12, <1>15

\* The common end of cancel_order and a full execution removes one order from
\* its queue.
LEMMA RemoveOrderEffect ==
  ASSUME NEW t, GoodBook(t, levels), Settled(t), NEW id \in Keys, ProbeEnds(t, id),
         NEW p, p = Find(t, id), p # Null, NEW Q, Represents(t, levels, Q), RemoveOrder(t, id, p)
  PROVE  /\ Removed(t, slots', p) /\ Settled(slots') /\ p = Natural(id) /\ t[p].key = id
         /\ t[p].order.side \in Sides /\ t[p].order.price \in Prices
         /\ RepresentsWithout(slots', levels', Q, t[p].order.side, t[p].order.price, p)
<1> DEFINE o  == t[p].order
           lv == levels[o.side]
           at == LevelsOf(lv, o.price)
           i  == Min(at)
           u  == Unlinked(t, lv[i], p).table
           new == Unlinked(t, lv[i], p).level
           w  == [u EXCEPT ![p].occupied = FALSE]
<1>1. GoodTable(t) /\ t \in [Slots -> Slot] /\ LinkedInside(t) /\ levels \in [Sides -> Seq(Level)]
      /\ Keyed(t) /\ Occupied(t) \subseteq Used(t)
  BY DEF GoodBook, GoodTable
<1>2. /\ p \in Occupied(t) /\ p \in Used(t) /\ p \in Slots /\ o \in Order
      /\ t[p].key = id /\ p = Natural(id)
  BY <1>1, FindIs, SettledHolds DEF Used, Occupied
<1>3. /\ o.side \in Sides /\ o.price \in Prices /\ lv \in Seq(Level)
      /\ SortedBy(o.side, lv) /\ GoodLevels(t, lv)
  <2>1. o.side \in Sides /\ o.price \in Prices
    BY <1>2 DEF Order
  <2> QED
    BY <1>1, <2>1 DEF GoodBook
<1>4. at # {}
  <2>1. Queued(t, o.side, o.price, Q[o.side][o.price]) /\ p \in OrdersIn(t, o.side, o.price)
    BY <1>2, <1>3 DEF Represents, OrdersIn
  <2>2. Q[o.side][o.price] # <<>>
    <3>1. \E n \in 1 .. Len(Q[o.side][o.price]) : Q[o.side][o.price][n] = p
      BY <1>2, <2>1 DEF Queued
    <3> QED
      BY <3>1
  <2>3. \E j \in DOMAIN lv : lv[j].price = o.price
    BY <1>3, <2>2 DEF Represents
  <2> QED
    BY <2>3 DEF LevelsOf
<1>5. slots' = Erased(u, id) /\ levels' = [levels EXCEPT ![o.side] = Shrunk(lv, i, new)]
  BY <1>4 DEF RemoveOrder, Shrunk
<1>6. i \in DOMAIN lv /\ lv[i].price = o.price /\ lv[i] \in Level
  BY <1>3, <1>4, MinOfNaturals
<1> HIDE DEF i, at
<1>7. UnlinkedBy(t, lv[i], p, u, new)
  <2> HIDE DEF lv
  <2> QED
    BY ONLY <1>1, <1>2, <1>6, UnlinkedIs
<1> HIDE DEF u, new
<1>8. /\ u \in [Slots -> Slot] /\ SameKeys(t, u) /\ Occupied(u) = Occupied(t) /\ Keyed(u)
      /\ \A j \in Used(t) : /\ u[j].order.side = t[j].order.side
                            /\ u[j].order.price = t[j].order.price
                            /\ u[j].order.remaining = t[j].order.remaining
                            /\ u[j].order.next = IF j = o.prev THEN o.next ELSE t[j].order.next
                            /\ u[j].order.prev = IF j = o.next THEN o.prev ELSE t[j].order.prev
  BY <1>1, <1>7, RelinkedOccupied DEF UnlinkedBy, Relinked
<1>9. Find(u, id) = p
  BY <1>8, SameKeysSameFind
<1>10. Settled(u)
  BY <1>8 DEF Settled, NaturalOf, SameKeys, Occupied
<1>11. Erased(u, id) = w
  <2>1. Erased(u, id) = EraseAt(u, p)
    BY <1>9 DEF Erased
  <2> QED
    BY <1>2, <1>8, <1>10, <2>1, SettledErase
<1>12. /\ \A j \in Slots \ {p} : w[j] = u[j]
       /\ Occupied(w) = Occupied(t) \ {p}
  <2>1. /\ \A j \in Slots \ {p} : w[j] = u[j]
        /\ Occupied(w) = Occupied(u) \ {p}
    BY <1>2, <1>8, VacateIs
  <2> QED
    BY <1>8, <2>1
<1> HIDE DEF w
<1>13. \A j \in Occupied(w) : j \in Slots /\ j # p /\ w[j] = u[j] /\ j \in Used(t) /\ u[j].key = t[j].key
  BY <1>1, <1>8, <1>12 DEF Occupied, SameKeys
<1>14. Removed(t, w, p) /\ Settled(w)
  BY <1>2, <1>8, <1>12, <1>13 DEF Removed, Settled, NaturalOf
<1>15. LinksPast(t, w, p)
  BY <1>8, <1>13 DEF LinksPast
<1>16. /\ new \in Level /\ new.price = o.price
       /\ new.head = IF o.prev = Null THEN o.next ELSE lv[i].head
       /\ new.tail = IF o.next = Null THEN o.prev ELSE lv[i].tail
  <2>1. new = [price |-> lv[i].price,
               head |-> IF o.prev = Null THEN o.next ELSE lv[i].head,
               tail |-> IF o.next = Null THEN o.prev ELSE lv[i].tail]
    BY <1>7 DEF UnlinkedBy
  <2>2. o.prev \in Pointer /\ o.next \in Pointer
    BY <1>2 DEF Order
  <2> QED
    BY <1>6, <2>1, <2>2 DEF Level
<1>17. LevelPast(t, lv[i], new, p)
  BY <1>6, <1>16 DEF LevelPast
<1>18. RepresentsWithout(w, [levels EXCEPT ![o.side] = Shrunk(lv, i, new)],
                         Q, o.side, o.price, p)
  <2>1. Represents(t, levels, Q) /\ t[p].order.side = o.side /\ t[p].order.price = o.price
    OBVIOUS
  <2> DEFINE side  == o.side
             price == o.price
  <2>2. /\ side \in Sides /\ price \in Prices /\ SortedBy(side, levels[side])
        /\ i \in DOMAIN levels[side] /\ levels[side][i].price = price
        /\ t[p].order.side = side /\ t[p].order.price = price
        /\ LevelPast(t, levels[side][i], new, p) /\ lv = levels[side]
    BY <1>3, <1>6, <1>17, <2>1
  <2> HIDE DEF side, price, o, lv
  <2>3. RepresentsWithout(w, [levels EXCEPT ![side] = Shrunk(levels[side], i, new)],
                          Q, side, price, p)
    BY ONLY <1>1, <1>14, <1>15, <2>1, <2>2, RepresentsRemove
  <2> QED
    BY <2>2, <2>3 DEF side, price
<1> QED
  BY <1>2, <1>3, <1>5, <1>11, <1>14, <1>18

\* So does cancel_order,
LEMMA CancelOrderEffect ==
  ASSUME BookInv, NEW id \in Keys, CancelOrder(id), Settled(slots),
         NEW Q, Represents(slots, levels, Q)
  PROVE  LET p == Natural(id)
         IN  /\ p \in Occupied(slots) /\ slots[p].key = id /\ Found(id) = p
             /\ Removed(slots, slots', p) /\ Settled(slots')
             /\ slots[p].order.side \in Sides /\ slots[p].order.price \in Prices
             /\ RepresentsWithout(slots', levels', Q, slots[p].order.side,
                                  slots[p].order.price, p)
<1>1. /\ GoodBook(slots, levels) /\ ProbeEnds(slots, id)
      /\ Found(id) # Null /\ RemoveOrder(slots, id, Found(id))
  BY DEF CancelOrder, BookInv
<1> DEFINE p == Found(id)
<1>2. p = Find(slots, id)
  BY DEF Found
<1> HIDE DEF p
<1>3. /\ Removed(slots, slots', p) /\ Settled(slots') /\ p = Natural(id) /\ slots[p].key = id
      /\ slots[p].order.side \in Sides /\ slots[p].order.price \in Prices
      /\ RepresentsWithout(slots', levels', Q, slots[p].order.side, slots[p].order.price, p)
  <2>1. p # Null /\ RemoveOrder(slots, id, p) /\ Settled(slots) /\ Represents(slots, levels, Q)
    BY <1>1 DEF p
  <2> QED
    BY ONLY <1>1, <1>2, <2>1, id \in Keys, RemoveOrderEffect
<1> QED
  BY <1>3 DEF p, Removed

\* A fill changes no list.
LEMMA FilledEffect ==
  ASSUME NEW t, GoodTable(t), Settled(t), NEW p \in Used(t), NEW left \in 0 .. QtyModulus - 1,
         NEW lvls \in [Sides -> Seq(Level)], NEW Q, Represents(t, lvls, Q)
  PROVE  /\ Settled(Filled(t, p, left)) /\ Represents(Filled(t, p, left), lvls, Q)
         /\ \A i \in Slots : /\ Filled(t, p, left)[i].order.side = t[i].order.side
                             /\ Filled(t, p, left)[i].order.price = t[i].order.price
<1> DEFINE u == Filled(t, p, left)
<1>1. /\ SameKeys(t, u) /\ Occupied(u) = Occupied(t)
      /\ \A i \in Slots : /\ u[i].order.side = t[i].order.side
                          /\ u[i].order.price = t[i].order.price
                          /\ u[i].order.next = t[i].order.next
                          /\ u[i].order.prev = t[i].order.prev
  BY FilledGood
<1> HIDE DEF u
<1>3. \A i \in Slots : /\ u[i].order.side = t[i].order.side /\ u[i].order.price = t[i].order.price
                       /\ u[i].order.next = t[i].order.next /\ u[i].order.prev = t[i].order.prev
                       /\ u[i].key = t[i].key
  BY <1>1 DEF SameKeys
<1>4. Settled(u)
  BY <1>1, <1>3 DEF Settled, NaturalOf, Occupied
<1>5. \A side, price : OrdersIn(u, side, price) = OrdersIn(t, side, price)
  BY <1>1, <1>3 DEF OrdersIn, Occupied
<1>6. \A side, price, q : Queued(t, side, price, q) => Queued(u, side, price, q)
  BY <1>5 DEF Queued
<1>7. ASSUME NEW level, NEW q \in Seq(Slots), Threads(t, level, q)
      PROVE  Threads(u, level, q)
  BY <1>3, <1>7, ThreadsKeep
<1>8. \A side \in Sides : \A i \in DOMAIN lvls[side] :
        Threads(u, lvls[side][i], Q[side][lvls[side][i].price])
  <2> SUFFICES ASSUME NEW side \in Sides, NEW i \in DOMAIN lvls[side]
               PROVE  Threads(u, lvls[side][i], Q[side][lvls[side][i].price])
    OBVIOUS
  <2> DEFINE level == lvls[side][i]
             q     == Q[side][level.price]
  <2>1. Threads(t, level, q)
    BY DEF Represents
  <2>2. q \in Seq(Slots)
    <3>1. lvls[side] \in Seq(Level)
      OBVIOUS
    <3>2. level \in Level
      BY <3>1
    <3>3. level.price \in Prices
      BY <3>2 DEF Level
    <3> HIDE DEF level
    <3> QED
      BY <3>3 DEF Represents
  <2> HIDE DEF q, level
  <2> QED
    BY <1>7, <2>1, <2>2 DEF q, level
<1> QED
  BY <1>3, <1>4, <1>6, <1>8 DEF Represents, u

\* and execute_order, or it lowers the open quantity.
LEMMA ExecuteOrderEffect ==
  ASSUME BookInv, NEW id \in Keys, NEW qty \in Quantities, ExecuteOrder(id, qty), Settled(slots),
         NEW Q, Represents(slots, levels, Q)
  PROVE  LET p == Natural(id)
         IN  /\ p \in Occupied(slots) /\ slots[p].key = id /\ Found(id) = p
             /\ Settled(slots') /\ slots[p].order.remaining # 0
             /\ slots[p].order.side \in Sides /\ slots[p].order.price \in Prices
             /\ Left(id, qty) = 0 =>
                  /\ Removed(slots, slots', p) /\ size' = size - 1
                  /\ RepresentsWithout(slots', levels', Q, slots[p].order.side,
                                       slots[p].order.price, p)
             /\ Left(id, qty) # 0 =>
                  /\ slots' = Filled(slots, p, Left(id, qty)) /\ UNCHANGED <<levels, size>>
                  /\ Represents(slots', levels', Q)
<1> DEFINE p    == Found(id)
           left == Left(id, qty)
           t    == Filled(slots, p, left)
<1>1. /\ ProbeEnds(slots, id) /\ p # Null /\ slots[p].order.remaining # 0
      /\ IF left = 0 THEN RemoveOrder(t, id, p) /\ size' = size - 1
                     ELSE slots' = t /\ levels' = levels /\ size' = size
  BY DEF ExecuteOrder, Left, Filled
<1>2. /\ GoodBook(slots, levels) /\ GoodTable(slots) /\ Keyed(slots) /\ p \in Occupied(slots)
      /\ p \in Used(slots) /\ p = Find(slots, id) /\ slots[p].key = id
  BY <1>1, FindIs DEF BookInv, GoodBook, GoodTable, Found
<1>3. p = Natural(id)
  BY <1>2, SettledHolds
<1>4. left \in 0 .. QtyModulus - 1
  BY <1>1, LeftIs
<1>5. slots[p].order.side \in Sides /\ slots[p].order.price \in Prices
  BY <1>2 DEF Used, Order
<1>6. /\ GoodTable(t) /\ SameKeys(slots, t) /\ Used(t) = Used(slots)
      /\ Occupied(t) = Occupied(slots) /\ \A i \in Slots \ {p} : t[i] = slots[i]
  <2> HIDE DEF p, left
  <2> QED
    BY <1>2, <1>4, FilledGood
<1>7. /\ Settled(t) /\ Represents(t, levels, Q)
      /\ t[p].order.side = slots[p].order.side /\ t[p].order.price = slots[p].order.price
  <2>1. Settled(slots) /\ Represents(slots, levels, Q) /\ p \in Slots
        /\ levels \in [Sides -> Seq(Level)]
    BY <1>2 DEF Used, GoodBook
  <2> HIDE DEF p, left
  <2> QED
    BY <1>2, <1>4, <2>1, FilledEffect
<1> HIDE DEF p, left, t
<1>8. GoodBook(t, levels)
  BY <1>2, <1>6, GoodBookKeep
<1>9. ProbeEnds(t, id) /\ Find(t, id) = p
  BY <1>1, <1>2, <1>6, SameKeysSameProbe, SameKeysSameFind
<1>10. CASE left = 0
  <2>1. RemoveOrder(t, id, p) /\ size' = size - 1
    BY <1>1, <1>10
  <2>2. /\ Removed(t, slots', p) /\ Settled(slots')
        /\ RepresentsWithout(slots', levels', Q, t[p].order.side, t[p].order.price, p)
    BY ONLY <1>1, <1>7, <1>8, <1>9, <2>1, id \in Keys, RemoveOrderEffect
  <2>3. Removed(slots, slots', p)
    BY <1>2, <1>6, <2>2 DEF Removed, Occupied
  <2> QED
    BY <1>1, <1>2, <1>3, <1>5, <1>7, <1>10, <2>1, <2>2, <2>3 DEF p, left
<1>11. CASE left # 0
  <2>1. slots' = t /\ levels' = levels /\ size' = size
    BY <1>1, <1>11
  <2> QED
    BY <1>1, <1>2, <1>3, <1>5, <1>7, <1>11, <2>1 DEF p, left, t
<1> QED
  BY <1>10, <1>11

\* add_order keeps the queues.
LEMMA AddListInv ==
  ASSUME BookInv, NEW ids, ids \subseteq Keys, CollisionFree(ids), ListInv(ids),
         NEW id \in ids, NEW side \in Sides, NEW price \in Prices,
         NEW qty \in Quantities, AddOrder(id, side, price, qty)
  PROVE  ListInv(ids)'
<1>1. PICK Q : Represents(slots, levels, Q)
  BY DEF ListInv
<1>2. id \in Keys /\ Settled(slots) /\ StoredIn(slots, ids)
  BY DEF ListInv
<1>3. /\ Settled(slots') /\ StoredIn(slots', ids)
      /\ Represents(slots', levels', [Q EXCEPT ![side][price] = Append(Q[side][price], Natural(id))])
  BY <1>1, <1>2, AddOrderEffect
<1> QED
  BY <1>3 DEF ListInv

\* No id is stored by a removal.
LEMMA RemovedStored ==
  ASSUME NEW t, NEW u, NEW p, Removed(t, u, p), NEW ids, StoredIn(t, ids)
  PROVE  StoredIn(u, ids)
BY DEF Removed, StoredIn

\* cancel_order keeps the queues.
LEMMA CancelListInv ==
  ASSUME BookInv, NEW ids, ListInv(ids), NEW id \in Keys, CancelOrder(id)
  PROVE  ListInv(ids)'
<1>1. PICK Q : Represents(slots, levels, Q)
  BY DEF ListInv
<1>2. Settled(slots) /\ StoredIn(slots, ids)
  BY DEF ListInv
<1>3. /\ Removed(slots, slots', Natural(id)) /\ Settled(slots')
      /\ \E side, price : RepresentsWithout(slots', levels', Q, side, price, Natural(id))
  BY <1>1, <1>2, CancelOrderEffect
<1>4. \E P : Represents(slots', levels', P)
  BY <1>3 DEF RepresentsWithout
<1> QED
  BY <1>2, <1>3, <1>4, RemovedStored DEF ListInv

\* execute_order keeps them.
LEMMA ExecuteListInv ==
  ASSUME BookInv, NEW ids, ListInv(ids), NEW id \in Keys, NEW qty \in Quantities,
         ExecuteOrder(id, qty)
  PROVE  ListInv(ids)'
<1>1. PICK Q : Represents(slots, levels, Q)
  BY DEF ListInv
<1>2. Settled(slots) /\ StoredIn(slots, ids)
  BY DEF ListInv
<1> DEFINE p == Natural(id)
<1>3. /\ Settled(slots') /\ p \in Occupied(slots)
      /\ Left(id, qty) = 0 =>
           /\ Removed(slots, slots', p)
           /\ \E side, price : RepresentsWithout(slots', levels', Q, side, price, p)
      /\ Left(id, qty) # 0 =>
           slots' = Filled(slots, p, Left(id, qty)) /\ Represents(slots', levels', Q)
  BY <1>1, <1>2, ExecuteOrderEffect
<1>4. \E P : Represents(slots', levels', P)
  BY <1>3 DEF RepresentsWithout
<1>5. StoredIn(slots', ids)
  <2>1. CASE Left(id, qty) = 0
    BY <1>2, <1>3, <2>1, RemovedStored
  <2>2. CASE Left(id, qty) # 0
    <3>1. GoodTable(slots) /\ p \in Used(slots) /\ Left(id, qty) \in 0 .. QtyModulus - 1
      <4>1. ProbeEnds(slots, id) /\ Found(id) # Null
        BY DEF ExecuteOrder
      <4>2. Left(id, qty) \in 0 .. QtyModulus - 1
        BY <4>1, LeftIs
      <4> QED
        BY <1>3, <4>2 DEF BookInv, GoodBook, GoodTable
    <3>2. SameKeys(slots, slots') /\ Occupied(slots') = Occupied(slots)
      BY <1>3, <2>2, <3>1, FilledGood
    <3> QED
      BY <1>2, <3>2 DEF StoredIn, SameKeys, Occupied
  <2> QED
    BY <2>1, <2>2
<1> QED
  BY <1>3, <1>4, <1>5 DEF ListInv

EmptyLevels == [side \in Sides |-> <<>>]

EmptyQueues == [side \in Sides |-> [price \in Prices |-> <<>>]]

\* The empty table stands for empty queues.
LEMMA EmptyRepresents ==
  /\ Settled(EmptyTable) /\ Occupied(EmptyTable) = {}
  /\ Represents(EmptyTable, EmptyLevels, EmptyQueues)
<1>1. Occupied(EmptyTable) = {} /\ Settled(EmptyTable)
  BY EmptyBook
<1>2. EmptyQueues \in [Sides -> [Prices -> Seq(Slots)]] /\ <<>> \in Seq(Slots)
  BY DEF EmptyQueues
<1>3. \A side \in Sides, price \in Prices : Queued(EmptyTable, side, price, <<>>)
  BY <1>1, <1>2 DEF Queued, NoRepeats, OrdersIn
<1>4. \A side \in Sides : EmptyLevels[side] = <<>> /\ DOMAIN EmptyLevels[side] = {}
  BY DEF EmptyLevels
<1>5. \A side \in Sides, price \in Prices : EmptyQueues[side][price] = <<>>
  BY DEF EmptyQueues
<1> QED
  BY <1>1, <1>2, <1>3, <1>4, <1>5 DEF Represents

\* So do the book of the constructor and that of reset.
LEMMA EmptyListInv ==
  ASSUME NEW ids, slots = EmptyTable, levels = EmptyLevels
  PROVE  ListInv(ids)
BY EmptyRepresents DEF ListInv, StoredIn

\* With ids that do not collide every method keeps the queues.
LEMMA StepListInv ==
  ASSUME CollisionFree(Keys), BookInv, ListInv(Keys), [Next]_bookVars
  PROVE  ListInv(Keys)'
<1>1. ASSUME NEW id \in Keys, NEW side \in Sides, NEW price \in Prices, NEW qty \in Quantities,
             AddOrder(id, side, price, qty)
      PROVE  ListInv(Keys)'
  BY <1>1, AddListInv
<1>2. ASSUME NEW id \in Keys, CancelOrder(id)
      PROVE  ListInv(Keys)'
  BY <1>2, CancelListInv
<1>3. ASSUME NEW id \in Keys, NEW qty \in Quantities, ExecuteOrder(id, qty)
      PROVE  ListInv(Keys)'
  BY <1>3, ExecuteListInv
<1>4. CASE UNCHANGED <<slots, levels>>
  BY <1>4 DEF ListInv
<1> QED
  BY <1>1, <1>2, <1>3, <1>4 DEF Next, Spin, ProbeForever, bookVars

\* level is the list of its queue in Q.
ListsQueue(t, side, level, Q) ==
  LET q == Q[side][level.price]
  IN  /\ level.price \in Prices /\ q \in Seq(Slots) /\ NoRepeats(q)
      /\ Queued(t, side, level.price, q) /\ Threads(t, level, q)
      /\ WalkEnds(t, level) /\ Walk(t, level) = q

\* A level's walk visits its queue and ends.
LEMMA LevelQueue ==
  ASSUME NEW t, NEW lvls \in [Sides -> Seq(Level)], NEW Q, Represents(t, lvls, Q),
         NEW side \in Sides, NEW i \in DOMAIN lvls[side]
  PROVE  ListsQueue(t, side, lvls[side][i], Q)
<1> DEFINE level == lvls[side][i]
           q     == Q[side][level.price]
<1>1. level \in Level
  <2>1. lvls[side] \in Seq(Level)
    OBVIOUS
  <2> QED
    BY <2>1
<1>2. level.price \in Prices
  BY <1>1 DEF Level
<1>3. Threads(t, level, q)
  BY DEF Represents
<1> HIDE DEF level
<1>4. Queued(t, side, level.price, q)
  BY <1>2 DEF Represents
<1>5. q \in Seq(Slots) /\ NoRepeats(q)
  BY <1>4 DEF Queued
<1> HIDE DEF q
<1> QED
  BY <1>2, <1>3, <1>4, <1>5, WalkIs DEF level, q, ListsQueue

\* Hence lists and orders match,
LEMMA ListsMatch ==
  ASSUME BookInv, NEW ids, ListInv(ids)
  PROVE  ListsMatchOrders
<1>1. PICK Q : Represents(slots, levels, Q)
  BY DEF ListInv
<1> SUFFICES ASSUME NEW side \in Sides, NEW i \in DOMAIN levels[side]
             PROVE  LET level == levels[side][i]
                        walk  == Walk(slots, level)
                    IN  /\ WalkEnds(slots, level)
                        /\ ToSet(walk) = OrdersAt(side, level.price)
                        /\ level.tail = walk[Len(walk)]
                        /\ \A n \in DOMAIN walk :
                             slots[walk[n]].order.prev = IF n = 1 THEN Null ELSE walk[n - 1]
  BY Zenon DEF ListsMatchOrders
<1> DEFINE level == levels[side][i]
           q     == Q[side][level.price]
<1>0. levels \in [Sides -> Seq(Level)]
  BY DEF BookInv, GoodBook
<1>2. /\ q \in Seq(Slots) /\ Queued(slots, side, level.price, q) /\ Threads(slots, level, q)
      /\ WalkEnds(slots, level) /\ Walk(slots, level) = q
  <2>1. ListsQueue(slots, side, level, Q)
    BY <1>0, <1>1, LevelQueue
  <2> QED
    BY <2>1 DEF ListsQueue
<1> HIDE DEF q, level
<1>3. ToSet(q) = OrdersAt(side, level.price)
  <2>1. OrdersAt(side, level.price) = OrdersIn(slots, side, level.price)
    BY DEF OrdersAt, OrdersIn
  <2>2. OrdersIn(slots, side, level.price) \subseteq Slots
    BY DEF OrdersIn, Occupied
  <2>3. \A s : s \in ToSet(q) <=> \E n \in 1 .. Len(q) : q[n] = s
    BY <1>2 DEF ToSet
  <2>4. \A s \in ToSet(q) : s \in Slots
    BY <1>2, <2>3
  <2> QED
    BY <1>2, <2>1, <2>2, <2>3, <2>4 DEF Queued
<1>4. /\ level.tail = q[Len(q)]
      /\ \A n \in 1 .. Len(q) : slots[q[n]].order.prev = IF n = 1 THEN Null ELSE q[n - 1]
  BY <1>2 DEF Threads
<1>5. DOMAIN q = 1 .. Len(q)
  BY <1>2
<1> QED
  BY <1>2, <1>3, <1>4, <1>5 DEF level

\* and the first level has the best price.
LEMMA BestPrices ==
  ASSUME BookInv, NEW ids, ListInv(ids)
  PROVE  TopOfBook
<1>1. PICK Q : Represents(slots, levels, Q)
  BY DEF ListInv
<1> SUFFICES ASSUME NEW side \in Sides
             PROVE  LET quoted == {slots[i].order.price :
                                     i \in {j \in Occupied(slots) : slots[j].order.side = side}}
                    IN  IF quoted = {}
                        THEN BestPrice(side) = Null
                        ELSE BestPrice(side) = IF side = "Buy" THEN Max(quoted) ELSE Min(quoted)
  BY Zenon DEF TopOfBook
<1> DEFINE quoted == {slots[i].order.price :
                        i \in {j \in Occupied(slots) : slots[j].order.side = side}}
           lv == levels[side]
<1>2. /\ lv \in Seq(Level) /\ SortedBy(side, lv) /\ Occupied(slots) \subseteq Used(slots)
      /\ Len(lv) \in Nat /\ DOMAIN lv = 1 .. Len(lv)
  BY DEF BookInv, GoodBook, GoodTable
\* A price is quoted when it has a level.
<1>3. ASSUME NEW c \in quoted
      PROVE  \E i \in DOMAIN lv : lv[i].price = c
  <2>1. PICK j \in Occupied(slots) : slots[j].order.side = side /\ slots[j].order.price = c
    OBVIOUS
  <2>2. c \in Prices /\ j \in Slots
    BY <1>2, <2>1 DEF Used, Order
  <2>3. j \in OrdersIn(slots, side, c)
    BY <2>1 DEF OrdersIn
  <2>4. \E n \in 1 .. Len(Q[side][c]) : Q[side][c][n] = j
    BY <1>1, <2>2, <2>3 DEF Represents, Queued
  <2>5. Q[side][c] # <<>>
    BY <2>4
  <2> QED
    BY <1>1, <2>2, <2>5 DEF Represents
<1>4. ASSUME NEW i \in DOMAIN lv
      PROVE  lv[i].price \in quoted /\ lv[i].price \in Prices
  <2> DEFINE level == lv[i]
             q     == Q[side][level.price]
  <2>1. level.price \in Prices /\ Queued(slots, side, level.price, q) /\ Threads(slots, level, q)
        /\ q \in Seq(Slots)
    <3>1. ListsQueue(slots, side, level, Q)
      BY <1>1, LevelQueue DEF BookInv, GoodBook
    <3> QED
      BY <3>1 DEF ListsQueue
  <2> HIDE DEF level, q, quoted, lv
  <2>2. 1 \in 1 .. Len(q)
    BY <2>1 DEF Threads
  <2>3. /\ q[1] \in Occupied(slots) /\ slots[q[1]].order.side = side
        /\ slots[q[1]].order.price = level.price
    BY <2>1, <2>2, QueuedAt
  <2>4. level.price \in quoted
    BY <2>3 DEF quoted
  <2> QED
    BY <2>1, <2>4 DEF level
<1>5. quoted \subseteq Nat
  BY <1>3, <1>4, PriceAssumption
<1> HIDE DEF quoted
<1>6. CASE lv = <<>>
  <2>1. quoted = {}
    BY <1>2, <1>3, <1>6
  <2> QED
    BY <1>6, <2>1 DEF BestPrice, quoted
<1>7. CASE lv # <<>>
  <2>1. 1 \in DOMAIN lv /\ BestPrice(side) = lv[1].price
    BY <1>2, <1>7 DEF BestPrice
  <2> DEFINE best == lv[1].price
  <2>2. best \in quoted
    BY <1>4, <2>1
  <2>3. ASSUME NEW c \in quoted
        PROVE  IF side = "Buy" THEN best >= c ELSE best <= c
    <3>1. PICK i \in DOMAIN lv : lv[i].price = c
      BY <1>3
    <3>2. i = 1 \/ 1 < i
      BY <1>2
    <3>3. c \in Nat /\ best \in Nat
      BY <1>5, <2>2
    <3>4. 1 < i => Better(side, best, c)
      BY <1>2, <2>1, <3>1 DEF SortedBy
    <3> QED
      BY <3>1, <3>2, <3>3, <3>4 DEF Better
  <2> HIDE DEF best
  <2>4. CASE side = "Buy"
    <3>1. \A c \in quoted : best >= c
      BY <2>3, <2>4
    <3>2. Max(quoted) \in quoted /\ \A c \in quoted : Max(quoted) >= c
      BY <2>2, <3>1, Zenon DEF Max
    <3>3. Max(quoted) = best
      <4>1. best >= Max(quoted) /\ Max(quoted) >= best
        BY ONLY <2>2, <3>1, <3>2
      <4>2. best \in Nat /\ Max(quoted) \in Nat
        BY ONLY <1>5, <2>2, <3>2
      <4> QED
        BY ONLY <4>1, <4>2
    <3> QED
      BY <2>1, <2>2, <2>4, <3>3 DEF best, quoted
  <2>5. CASE side # "Buy"
    <3>1. \A c \in quoted : best <= c
      BY <2>3, <2>5
    <3>2. Min(quoted) \in quoted /\ \A c \in quoted : Min(quoted) <= c
      BY <2>2, <3>1, Zenon DEF Min
    <3>3. Min(quoted) = best
      <4>1. best <= Min(quoted) /\ Min(quoted) <= best
        BY ONLY <2>2, <3>1, <3>2
      <4>2. best \in Nat /\ Min(quoted) \in Nat
        BY ONLY <1>5, <2>2, <3>2
      <4> QED
        BY ONLY <4>1, <4>2
    <3> QED
      BY <2>1, <2>2, <2>5, <3>3 DEF best, quoted
  <2> QED
    BY <2>4, <2>5
<1> QED
  BY <1>6, <1>7

(* Over ids that do not collide, the pointers of every level lead through  *)
(* exactly its stored orders and back, whatever is added, cancelled and    *)
(* executed in whatever order.                                             *)
THEOREM BookListsMatchOrders ==
  ASSUME CollisionFree(Keys)
  PROVE  Spec => []ListsMatchOrders
<1>1. Init => ListInv(Keys)
  BY EmptyListInv DEF Init, EmptyLevels
<1>2. BookInv /\ ListInv(Keys) /\ [Next]_bookVars => ListInv(Keys)'
  BY StepListInv
<1>3. BookInv /\ ListInv(Keys) => ListsMatchOrders
  BY ListsMatch
<1> QED
  BY <1>1, <1>2, <1>3, BookInvariant, PTL DEF Spec

(* Over ids that do not collide, best_bid and best_ask quote the best      *)
(* price that an order is stored at.                                       *)
THEOREM BookTopOfBook ==
  ASSUME CollisionFree(Keys)
  PROVE  Spec => []TopOfBook
<1>1. Init => ListInv(Keys)
  BY EmptyListInv DEF Init, EmptyLevels
<1>2. BookInv /\ ListInv(Keys) /\ [Next]_bookVars => ListInv(Keys)'
  BY StepListInv
<1>3. BookInv /\ ListInv(Keys) => TopOfBook
  BY BestPrices
<1> QED
  BY <1>1, <1>2, <1>3, BookInvariant, PTL DEF Spec

-----------------------------------------------------------------------------
(***************************************************************************)
(* Sums over finite sets.  The folds of the library take the elements in   *)
(* an order of their own; Total is the sum that any element may be split   *)
(* off of, and what the folds compute.                                     *)
(***************************************************************************)
FoldStep(g, base, op, c, s) == IF s = {} THEN base ELSE op[c[s]][g[s \ {c[s]}]]

FoldsBy(g, base, op, c, S) == g = [s \in SUBSET S |-> FoldStep(g, base, op, c, s)]

\* c[s] is an element of s.
Picks(c, S) == \A s \in SUBSET S : s # {} => c[s] \in s

\* Subsets of a finite set, and those that lack one element.
LEMMA SubsetSizes ==
  ASSUME NEW S, IsFiniteSet(S), NEW s \in SUBSET S
  PROVE  /\ IsFiniteSet(s) /\ Cardinality(s) \in Nat /\ Cardinality(s) <= Cardinality(S)
         /\ Cardinality(s) = 0 <=> s = {}
         /\ \A x \in s : s \ {x} \in SUBSET S /\ Cardinality(s \ {x}) = Cardinality(s) - 1
<1>1. IsFiniteSet(s) /\ Cardinality(s) <= Cardinality(S)
  BY FS_Subset
<1>2. Cardinality(s) \in Nat /\ (Cardinality(s) = 0 <=> s = {})
  BY <1>1, FS_CardinalityType, FS_EmptySet
<1>3. \A x \in s : Cardinality(s \ {x}) = Cardinality(s) - 1
  BY <1>1, FS_RemoveElement
<1> QED
  BY <1>1, <1>2, <1>3

\* The recursion over the subsets of a finite set has a solution.
LEMMA FoldExists ==
  ASSUME NEW S, IsFiniteSet(S), NEW V, NEW base \in V, NEW op \in [S -> [V -> V]],
         NEW c, Picks(c, S)
  PROVE  \E g \in [SUBSET S -> V] : FoldsBy(g, base, op, c, S)
<1> DEFINE Body(g, s) == FoldStep(g, base, op, c, s)
           Upto(g, n) == \A s \in SUBSET S : Cardinality(s) <= n => g[s] = Body(g, s)
           T == {n \in Nat : \E g \in [SUBSET S -> V] : Upto(g, n)}
<1>1. 0 \in T
  <2> DEFINE g == [s \in SUBSET S |-> base]
  <2>1. g \in [SUBSET S -> V]
    OBVIOUS
  <2>2. ASSUME NEW s \in SUBSET S, Cardinality(s) <= 0
        PROVE  g[s] = Body(g, s)
    <3>1. s = {}
      BY <2>2, SubsetSizes
    <3> QED
      BY <3>1 DEF FoldStep
  <2> HIDE DEF g, Body
  <2> QED
    BY <2>1, <2>2
<1>2. ASSUME NEW n \in Nat, n \in T
      PROVE  n + 1 \in T
  <2>1. PICK f \in [SUBSET S -> V] : Upto(f, n)
    BY <1>2, Zenon
  <2> DEFINE g == [s \in SUBSET S |-> IF Cardinality(s) <= n THEN f[s] ELSE Body(f, s)]
  <2>2. \A s \in SUBSET S : Body(f, s) \in V
    <3> SUFFICES ASSUME NEW s \in SUBSET S
                 PROVE  Body(f, s) \in V
      OBVIOUS
    <3>1. CASE s = {}
      BY <3>1 DEF FoldStep
    <3>2. CASE s # {}
      <4>1. c[s] \in S /\ s \ {c[s]} \in SUBSET S
        BY <3>2 DEF Picks
      <4>2. op[c[s]] \in [V -> V] /\ f[s \ {c[s]}] \in V
        BY <4>1
      <4> QED
        BY <3>2, <4>2 DEF FoldStep
    <3> QED
      BY <3>1, <3>2
  <2> HIDE DEF Body
  <2>3. g \in [SUBSET S -> V]
    BY <2>2
  <2>4. /\ \A s \in SUBSET S : Cardinality(s) <= n => g[s] = f[s]
        /\ \A s \in SUBSET S : ~(Cardinality(s) <= n) => g[s] = Body(f, s)
    OBVIOUS
  <2> HIDE DEF g
  <2>5. ASSUME NEW s \in SUBSET S, Cardinality(s) <= n + 1
        PROVE  Body(g, s) = Body(f, s)
    <3>1. CASE s = {}
      BY <3>1 DEF Body, FoldStep
    <3>2. CASE s # {}
      <4>1. c[s] \in s
        BY <3>2 DEF Picks
      <4>2. s \ {c[s]} \in SUBSET S /\ Cardinality(s \ {c[s]}) = Cardinality(s) - 1
            /\ Cardinality(s) \in Nat
        BY <4>1, SubsetSizes
      <4>3. Cardinality(s \ {c[s]}) <= n
        BY <2>5, <4>2
      <4>4. g[s \ {c[s]}] = f[s \ {c[s]}]
        BY <2>4, <4>2, <4>3
      <4> QED
        BY <4>4 DEF Body, FoldStep
    <3> QED
      BY <3>1, <3>2
  <2>6. ASSUME NEW s \in SUBSET S, Cardinality(s) <= n + 1
        PROVE  g[s] = Body(g, s)
    <3>1. Cardinality(s) \in Nat
      BY SubsetSizes
    <3>2. CASE Cardinality(s) <= n
      BY <2>1, <2>4, <2>5, <2>6, <3>2
    <3>3. CASE ~(Cardinality(s) <= n)
      BY <2>4, <2>5, <2>6, <3>3
    <3> QED
      BY <3>2, <3>3
  <2>7. n + 1 \in Nat
    OBVIOUS
  <2>8. Upto(g, n + 1)
    BY <2>6
  <2> QED
    BY <2>3, <2>7, <2>8
<1>3. Cardinality(S) \in T
  <2>1. Cardinality(S) \in Nat
    BY FS_CardinalityType
  <2>2. 0 \in T /\ \A n \in Nat : n \in T => n + 1 \in T
    BY <1>1, <1>2
  <2> HIDE DEF T
  <2>3. Nat \subseteq T
    BY <2>2, InductionOnNat
  <2> QED
    BY <2>1, <2>3
<1>4. PICK g \in [SUBSET S -> V] : Upto(g, Cardinality(S))
  BY <1>3, Zenon
<1>5. \A s \in SUBSET S : g[s] = FoldStep(g, base, op, c, s)
  BY <1>4, SubsetSizes
<1>6. g = [s \in SUBSET S |-> g[s]]
  OBVIOUS
<1>7. FoldsBy(g, base, op, c, S)
  BY <1>5, <1>6, Zenon DEF FoldsBy
<1> QED
  BY <1>7

\* The sums of w over the subsets of S.
Totals(g, w, S) ==
  /\ g \in [SUBSET S -> Nat] /\ g[{}] = 0
  /\ \A s \in SUBSET S : \A x \in s : g[s] = g[s \ {x}] + w[x]

Total(w, S) == (CHOOSE g : Totals(g, w, S))[S]

\* If some element can be split off each sum, any can.
LEMMA SplitAnywhere ==
  ASSUME NEW S, IsFiniteSet(S), NEW w, \A x \in S : w[x] \in Nat, NEW g \in [SUBSET S -> Nat],
         g[{}] = 0,
         \A s \in SUBSET S : s # {} => \E x \in s : g[s] = g[s \ {x}] + w[x]
  PROVE  Totals(g, w, S)
<1> DEFINE T == {n \in Nat : \A s \in SUBSET S : Cardinality(s) = n =>
                               \A x \in s : g[s] = g[s \ {x}] + w[x]}
<1>1. 0 \in T
  BY SubsetSizes
<1>2. ASSUME NEW n \in Nat, n \in T
      PROVE  n + 1 \in T
  <2>n. n + 1 \in Nat
    OBVIOUS
  <2> SUFFICES ASSUME NEW s \in SUBSET S, Cardinality(s) = n + 1, NEW x \in s
               PROVE  g[s] = g[s \ {x}] + w[x]
    BY <2>n, Zenon
  <2>1. PICK y \in s : g[s] = g[s \ {y}] + w[y]
    OBVIOUS
  <2>2. CASE x = y
    BY <2>1, <2>2
  <2>3. CASE x # y
    <3> DEFINE a == s \ {x}
               b == s \ {y}
               d == s \ {x, y}
    <3>1. /\ a \in SUBSET S /\ b \in SUBSET S /\ d \in SUBSET S
          /\ y \in a /\ x \in b /\ a \ {y} = d /\ b \ {x} = d
      BY <2>3
    <3>2. Cardinality(a) = n /\ Cardinality(b) = n
      <4>1. Cardinality(s) - 1 = n
        OBVIOUS
      <4> QED
        BY <4>1, SubsetSizes
    <3> HIDE DEF a, b, d
    <3>3. g[a] = g[d] + w[y] /\ g[b] = g[d] + w[x]
      <4>1. \A r \in SUBSET S : Cardinality(r) = n => \A z \in r : g[r] = g[r \ {z}] + w[z]
        BY <1>2, Zenon
      <4>2. g[a] = g[a \ {y}] + w[y]
        BY ONLY <3>1, <3>2, <4>1, Zenon
      <4>3. g[b] = g[b \ {x}] + w[x]
        BY ONLY <3>1, <3>2, <4>1, Zenon
      <4> QED
        BY ONLY <3>1, <4>2, <4>3
    <3>4. g[d] \in Nat /\ w[x] \in Nat /\ w[y] \in Nat
      BY <3>1
    <3>5. g[s] = g[b] + w[y]
      BY <2>1 DEF b
    <3>6. g[s] = g[a] + w[x]
      BY <3>3, <3>4, <3>5
    <3> QED
      BY <3>6 DEF a
  <2> QED
    BY <2>2, <2>3
<1>3. 0 \in T /\ \A n \in Nat : n \in T => n + 1 \in T
  BY <1>1, <1>2
<1>4. Nat \subseteq T
  <2> HIDE DEF T
  <2> QED
    BY <1>3, InductionOnNat
<1>5. ASSUME NEW s \in SUBSET S
      PROVE  \A x \in s : g[s] = g[s \ {x}] + w[x]
  <2>1. Cardinality(s) \in Nat
    BY SubsetSizes
  <2>2. PICK n \in Nat : n = Cardinality(s)
    BY <2>1
  <2>3. n \in T
    BY <1>4
  <2> QED
    BY <2>2, <2>3, Zenon
<1> QED
  BY <1>5 DEF Totals

\* Sums over the same elements are the same.
LEMMA TotalsUnique ==
  ASSUME NEW S, IsFiniteSet(S), NEW w, NEW g, Totals(g, w, S),
         NEW R, NEW v, NEW h, Totals(h, v, R),
         NEW s \in SUBSET S, s \subseteq R, \A x \in s : w[x] = v[x]
  PROVE  g[s] = h[s]
<1> DEFINE T == {n \in Nat : \A r \in SUBSET s : Cardinality(r) = n => g[r] = h[r]}
<1>1. IsFiniteSet(s)
  BY SubsetSizes
<1>2. 0 \in T
  <2> SUFFICES ASSUME NEW r \in SUBSET s, Cardinality(r) = 0
               PROVE  g[r] = h[r]
    OBVIOUS
  <2>1. r = {}
    BY <1>1, SubsetSizes
  <2> QED
    BY <2>1 DEF Totals
<1>3. ASSUME NEW n \in Nat, n \in T
      PROVE  n + 1 \in T
  <2> SUFFICES ASSUME NEW r \in SUBSET s, Cardinality(r) = n + 1
               PROVE  g[r] = h[r]
    OBVIOUS
  <2>1. r # {}
    BY <1>1, SubsetSizes
  <2>2. PICK x \in r : TRUE
    BY <2>1
  <2>3. r \ {x} \in SUBSET s /\ Cardinality(r \ {x}) = n
    <3>1. Cardinality(r) - 1 = n
      OBVIOUS
    <3> QED
      BY <1>1, <3>1, SubsetSizes
  <2>4. g[r \ {x}] = h[r \ {x}]
    BY <1>3, <2>3
  <2>5. r \in SUBSET S /\ r \in SUBSET R /\ w[x] = v[x]
    OBVIOUS
  <2>6. g[r] = g[r \ {x}] + w[x] /\ h[r] = h[r \ {x}] + v[x]
    BY <2>5 DEF Totals
  <2> QED
    BY <2>4, <2>5, <2>6
<1>4. 0 \in T /\ \A n \in Nat : n \in T => n + 1 \in T
  BY <1>2, <1>3
<1>5. Nat \subseteq T
  <2> HIDE DEF T
  <2> QED
    BY <1>4, InductionOnNat
<1> QED
  BY <1>1, <1>5, FS_CardinalityType

\* Total is the sum,
LEMMA TotalIs ==
  ASSUME NEW S, IsFiniteSet(S), NEW w, NEW g, Totals(g, w, S)
  PROVE  Total(w, S) = g[S]
<1> PICK h : h = CHOOSE f : Totals(f, w, S)
  OBVIOUS
<1>1. Totals(h, w, S)
  OBVIOUS
<1>2. h[S] = g[S]
  BY <1>1, TotalsUnique
<1> QED
  BY <1>2 DEF Total

\* it exists,
LEMMA TotalsExist ==
  ASSUME NEW S, IsFiniteSet(S), NEW w, \A x \in S : w[x] \in Nat
  PROVE  \E g : Totals(g, w, S)
<1> DEFINE c == [s \in SUBSET S |-> CHOOSE x \in s : TRUE]
           op == [x \in S |-> [a \in Nat |-> a + w[x]]]
<1>1. Picks(c, S)
  BY DEF Picks
<1>2. op \in [S -> [Nat -> Nat]]
  OBVIOUS
<1>3. \A x \in S : \A a \in Nat : op[x][a] = a + w[x]
  OBVIOUS
<1> HIDE DEF c, op
<1>0. 0 \in Nat
  OBVIOUS
<1>4. PICK g \in [SUBSET S -> Nat] : FoldsBy(g, 0, op, c, S)
  <2>1. \E g \in [SUBSET S -> Nat] : FoldsBy(g, 0, op, c, S)
    BY ONLY <1>0, <1>1, <1>2, FoldExists, IsFiniteSet(S), Zenon
  <2> QED
    BY <2>1
<1>5. \A s \in SUBSET S : g[s] = FoldStep(g, 0, op, c, s)
  BY <1>4, Zenon DEF FoldsBy
<1>6. g[{}] = 0
  BY <1>5 DEF FoldStep
<1>7. ASSUME NEW s \in SUBSET S, s # {}
      PROVE  \E x \in s : g[s] = g[s \ {x}] + w[x]
  <2>1. c[s] \in s /\ c[s] \in S /\ s \ {c[s]} \in SUBSET S
    BY <1>1, <1>7 DEF Picks
  <2>2. g[s \ {c[s]}] \in Nat
    BY <2>1
  <2>3. g[s] = op[c[s]][g[s \ {c[s]}]]
    BY <1>5, <1>7 DEF FoldStep
  <2> QED
    BY <1>3, <2>1, <2>2, <2>3
<1> QED
  BY <1>6, <1>7, SplitAnywhere

\* and any element can be split off.
LEMMA TotalSplit ==
  ASSUME NEW S, IsFiniteSet(S), NEW w, \A x \in S : w[x] \in Nat
  PROVE  /\ Total(w, S) \in Nat /\ Total(w, {}) = 0
         /\ \A x \in S : Total(w, S) = Total(w, S \ {x}) + w[x]
<1>1. PICK g : Totals(g, w, S)
  BY TotalsExist
<1>2. Total(w, S) = g[S] /\ g[S] \in Nat
  BY <1>1, TotalIs DEF Totals
<1>3. ASSUME NEW s \in SUBSET S
      PROVE  Total(w, s) = g[s]
  <2>1. IsFiniteSet(s)
    BY SubsetSizes
  <2>2. PICK h : Totals(h, w, s)
    BY <2>1, TotalsExist
  <2>3. h[s] = g[s]
    BY <1>1, <2>1, <2>2, TotalsUnique
  <2> QED
    BY <2>1, <2>2, <2>3, TotalIs
<1> QED
  BY <1>1, <1>2, <1>3 DEF Totals

\* and it looks at nothing but the summands.
LEMMA TotalAgrees ==
  ASSUME NEW S, IsFiniteSet(S), NEW w, \A x \in S : w[x] \in Nat, NEW v, \A x \in S : w[x] = v[x]
  PROVE  Total(w, S) = Total(v, S)
<1>1. PICK g : Totals(g, w, S)
  BY TotalsExist
<1>2. PICK h : Totals(h, v, S)
  BY TotalsExist
<1>3. g[S] = h[S]
  BY <1>1, <1>2, TotalsUnique
<1> QED
  BY <1>1, <1>2, <1>3, TotalIs

\* A remainder may be taken of a summand first.
LEMMA ModOfSum ==
  ASSUME NEW m \in Nat, m > 0, NEW a \in Nat, NEW b \in Nat
  PROVE  ((a % m) + b) % m = (a + b) % m
<1> PICK q : q = a \div m
  OBVIOUS
<1> PICK r : r = a % m
  OBVIOUS
<1>1. q \in Nat /\ r \in 0 .. m - 1 /\ a = (m * q) + r
  OBVIOUS
<1> PICK p : p = (r + b) \div m
  OBVIOUS
<1> PICK s : s = (r + b) % m
  OBVIOUS
<1>2. p \in Nat /\ s \in 0 .. m - 1 /\ r + b = (m * p) + s
  BY <1>1
<1>3. a + b = (m * (q + p)) + s
  <2>1. a + b = (m * q) + ((m * p) + s)
    BY <1>1, <1>2
  <2>2. m * (q + p) = (m * q) + (m * p)
    BY <1>1, <1>2
  <2> QED
    BY <1>1, <1>2, <2>1, <2>2
<1>4. (a + b) % m = s
  <2>1. q + p \in Nat
    BY <1>1, <1>2
  <2> PICK k \in Nat : k = q + p
    BY <2>1
  <2>2. a + b = (m * k) + s
    BY <1>3
  <2>3. ((m * k) + s) % m = s
    BY ONLY <1>2, m \in Nat, m > 0
  <2> QED
    BY <2>2, <2>3
<1> QED
  BY <1>4

-----------------------------------------------------------------------------
\* A fold stays among its values.
LEMMA FoldTyped ==
  ASSUME NEW S, IsFiniteSet(S), NEW V, NEW g, g[{}] \in V,
         \A s \in SUBSET S : s # {} => \E x \in s : g[s \ {x}] \in V => g[s] \in V
  PROVE  \A s \in SUBSET S : g[s] \in V
<1> DEFINE T == {n \in Nat : \A s \in SUBSET S : Cardinality(s) = n => g[s] \in V}
<1>1. 0 \in T
  BY SubsetSizes
<1>2. ASSUME NEW n \in Nat, n \in T
      PROVE  n + 1 \in T
  <2>n. n + 1 \in Nat
    OBVIOUS
  <2> SUFFICES ASSUME NEW s \in SUBSET S, Cardinality(s) = n + 1
               PROVE  g[s] \in V
    BY <2>n, Zenon
  <2>1. s # {}
    BY SubsetSizes
  <2>2. PICK x \in s : g[s \ {x}] \in V => g[s] \in V
    BY <2>1
  <2>3. s \ {x} \in SUBSET S /\ Cardinality(s \ {x}) = n
    <3>1. Cardinality(s) - 1 = n
      OBVIOUS
    <3> QED
      BY <3>1, SubsetSizes
  <2> QED
    BY <1>2, <2>2, <2>3
<1>3. 0 \in T /\ \A n \in Nat : n \in T => n + 1 \in T
  BY <1>1, <1>2
<1>4. Nat \subseteq T
  <2> HIDE DEF T
  <2> QED
    BY <1>3, InductionOnNat
<1> SUFFICES ASSUME NEW s \in SUBSET S
             PROVE  g[s] \in V
  OBVIOUS
<1>5. PICK n \in Nat : n = Cardinality(s)
  BY SubsetSizes
<1>6. n \in T
  BY <1>4
<1> QED
  BY <1>5, <1>6, Zenon

\* The equation that SumFunctionOnSet's fold solves.
SumEq(g, w, S) ==
  g = [s \in SUBSET S |-> IF s = {} THEN 0
                          ELSE LET x == CHOOSE x \in s : TRUE
                               IN  w[x] + g[s \ {x}]]

\* SumFunctionOnSet is the sum.
LEMMA SumIs ==
  ASSUME NEW S, IsFiniteSet(S), NEW w, \A x \in S : w[x] \in Nat
  PROVE  SumFunctionOnSet(w, S) = Total(w, S)
<1>1. IsFiniteSet(S) /\ \A x \in S : w[x] \in Nat
  OBVIOUS
<1>2. \E g : SumEq(g, w, S)
  <2> DEFINE c == [s \in SUBSET S |-> CHOOSE x \in s : TRUE]
             op == [x \in S |-> [a \in Nat |-> a + w[x]]]
  <2>0. 0 \in Nat
    OBVIOUS
  <2>1. Picks(c, S)
    BY DEF Picks
  <2>2. op \in [S -> [Nat -> Nat]]
    BY <1>1
  <2>3. \A x \in S : \A a \in Nat : op[x][a] = a + w[x]
    OBVIOUS
  <2>4. \A s \in SUBSET S : c[s] = CHOOSE x \in s : TRUE
    OBVIOUS
  <2> HIDE DEF c, op
  <2>5. \E g \in [SUBSET S -> Nat] : FoldsBy(g, 0, op, c, S)
    BY ONLY <1>1, <2>0, <2>1, <2>2, FoldExists
  <2>6. PICK g \in [SUBSET S -> Nat] : FoldsBy(g, 0, op, c, S)
    BY <2>5
  <2>7. ASSUME NEW s \in SUBSET S
        PROVE  g[s] = IF s = {} THEN 0
                      ELSE LET x == CHOOSE x \in s : TRUE
                           IN  w[x] + g[s \ {x}]
    <3>1. g[s] = FoldStep(g, 0, op, c, s)
      BY <2>6, Zenon DEF FoldsBy
    <3>2. CASE s = {}
      BY <3>1, <3>2 DEF FoldStep
    <3>3. CASE s # {}
      <4>1. c[s] \in s /\ c[s] \in S /\ s \ {c[s]} \in SUBSET S
        BY <2>1, <3>3 DEF Picks
      <4>2. g[s \ {c[s]}] \in Nat
        BY <4>1
      <4>3. g[s] = op[c[s]][g[s \ {c[s]}]]
        BY <3>1, <3>3 DEF FoldStep
      <4>4. g[s] = g[s \ {c[s]}] + w[c[s]] /\ w[c[s]] \in Nat
        BY ONLY <1>1, <2>3, <4>1, <4>2, <4>3, Zenon
      <4>5. g[s] = w[c[s]] + g[s \ {c[s]}]
        BY ONLY <4>2, <4>4
      <4> QED
        BY <2>4, <3>3, <4>5, Zenon
    <3> QED
      BY <3>2, <3>3
  <2>8. g = [s \in SUBSET S |-> g[s]]
    OBVIOUS
  <2>9. SumEq(g, w, S)
    BY ONLY <2>7, <2>8, Zenon DEF SumEq
  <2> QED
    BY <2>9
<1>3. PICK g : g = CHOOSE f : SumEq(f, w, S)
  OBVIOUS
<1>4. SumEq(g, w, S)
  BY <1>2, <1>3, Zenon
<1>5. SumFunctionOnSet(w, S) = g[S]
  <2>1. SumFunctionOnSet(w, S) = (CHOOSE f : SumEq(f, w, S))[S]
    BY Zenon DEF SumFunctionOnSet, FoldFunctionOnSet, MapThenFoldSet, SumEq
  <2> QED
    BY <1>3, <2>1
<1>6. g[{}] = 0
  <2>1. {} \in SUBSET S
    OBVIOUS
  <2> QED
    BY ONLY <1>4, <2>1, Zenon DEF SumEq
<1>7. ASSUME NEW s \in SUBSET S, s # {}
      PROVE  \E x \in s : g[s] = w[x] + g[s \ {x}]
  <2> PICK x : x = CHOOSE y \in s : TRUE
    OBVIOUS
  <2>1. x \in s
    BY <1>7
  <2>2. g[s] = w[x] + g[s \ {x}]
    BY ONLY <1>4, <1>7, x = CHOOSE y \in s : TRUE, Zenon DEF SumEq
  <2> QED
    BY <1>1, <2>1, <2>2
<1>8. g \in [SUBSET S -> Nat]
  <2>1. g = [s \in SUBSET S |-> g[s]]
    BY <1>4, Zenon DEF SumEq
  <2>2. \A s \in SUBSET S : s # {} => \E x \in s : g[s \ {x}] \in Nat => g[s] \in Nat
    <3> SUFFICES ASSUME NEW s \in SUBSET S, s # {}
                 PROVE  \E x \in s : g[s \ {x}] \in Nat => g[s] \in Nat
      OBVIOUS
    <3>1. PICK x \in s : g[s] = w[x] + g[s \ {x}]
      BY <1>7
    <3>2. g[s \ {x}] \in Nat => g[s] \in Nat
      BY <1>1, <3>1
    <3> QED
      BY <3>2
  <2>3. g[{}] \in Nat
    BY <1>6
  <2>4. \A s \in SUBSET S : g[s] \in Nat
    BY ONLY <1>1, <2>2, <2>3, FoldTyped, Zenon
  <2> QED
    BY <2>1, <2>4
<1>9. ASSUME NEW s \in SUBSET S, s # {}
      PROVE  \E x \in s : g[s] = g[s \ {x}] + w[x]
  <2>1. PICK x \in s : g[s] = w[x] + g[s \ {x}]
    BY <1>7, <1>9
  <2>2. w[x] \in Nat /\ g[s \ {x}] \in Nat
    BY <1>1, <1>8
  <2>3. g[s] = g[s \ {x}] + w[x]
    BY ONLY <2>1, <2>2
  <2> QED
    BY <2>3
<1>10. Totals(g, w, S)
  BY <1>1, <1>6, <1>8, <1>9, SplitAnywhere
<1> QED
  BY <1>1, <1>5, <1>10, TotalIs

\* What is left of the order in each slot.
LeftIn(table) == [i \in Slots |-> table[i].order.remaining]

\* SumRemaining is the sum of what is left.
LEMMA SumRemainingIs ==
  ASSUME NEW S \in SUBSET Slots, \A i \in S : LeftIn(slots)[i] \in Nat
  PROVE  SumRemaining(S) = Total(LeftIn(slots), S)
<1> DEFINE v == [i \in S |-> slots[i].order.remaining]
<1>1. IsFiniteSet(S)
  <2>1. IsFiniteSet(Slots)
    BY CapacityPositive, FS_Interval DEF Slots
  <2> QED
    BY <2>1, FS_Subset
<1>2. \A i \in S : v[i] = LeftIn(slots)[i] /\ v[i] \in Nat
  BY DEF LeftIn
<1>3. SumRemaining(S) = SumFunctionOnSet(v, S)
  BY DEF SumRemaining
<1> HIDE DEF v
<1>4. SumFunctionOnSet(v, S) = Total(v, S)
  BY <1>1, <1>2, SumIs
<1>5. Total(v, S) = Total(LeftIn(slots), S)
  BY <1>1, <1>2, TotalAgrees
<1> QED
  BY <1>3, <1>4, <1>5

\* The equation that TotalQty's fold solves.
LeftEq(g, t, q) ==
  g = [s \in SUBSET DOMAIN q |-> IF s = {} THEN 0
                                 ELSE LET x == Max(s)
                                      IN  (g[s \ {x}] + t[q[x]].order.remaining) % QtyModulus]

\* The slots among the first k of a queue.
FirstOf(q, k) == {q[n] : n \in 1 .. k}

\* Max picks an element of every nonempty set of positions.
LEMMA MaxPicks ==
  ASSUME NEW n \in Nat, NEW s \in SUBSET (1 .. n), s # {}
  PROVE  Max(s) \in s /\ \A k \in s : k <= Max(s)
<1>1. s \subseteq 0 .. n
  OBVIOUS
<1> QED
  BY <1>1, MaxIsGreatest

\* The fold solves it.
LEMMA LeftExists ==
  ASSUME NEW t, NEW q \in Seq(Slots), \A i \in Slots : i \in FirstOf(q, Len(q)) => LeftIn(t)[i] \in Nat
  PROVE  \E g : LeftEq(g, t, q)
<1> DEFINE S == DOMAIN q
           c == [s \in SUBSET S |-> Max(s)]
           op == [x \in S |-> [a \in Nat |-> (a + LeftIn(t)[q[x]]) % QtyModulus]]
<1>0. 0 \in Nat
  OBVIOUS
<1>1. S = 1 .. Len(q) /\ Len(q) \in Nat /\ IsFiniteSet(S)
  <2>1. S = 1 .. Len(q) /\ Len(q) \in Nat
    OBVIOUS
  <2> QED
    BY <2>1, FS_Interval
<1>2. Picks(c, S)
  BY <1>1, MaxPicks DEF Picks
<1>3. \A x \in S : q[x] \in Slots /\ LeftIn(t)[q[x]] \in Nat /\ LeftIn(t)[q[x]] = t[q[x]].order.remaining
  <2> SUFFICES ASSUME NEW x \in S
               PROVE  q[x] \in Slots /\ LeftIn(t)[q[x]] \in Nat
                      /\ LeftIn(t)[q[x]] = t[q[x]].order.remaining
    OBVIOUS
  <2>1. q[x] \in Slots
    OBVIOUS
  <2>2. q[x] \in FirstOf(q, Len(q))
    BY <1>1 DEF FirstOf
  <2> QED
    BY <2>1, <2>2 DEF LeftIn
<1>4. op \in [S -> [Nat -> Nat]]
  <2>1. ASSUME NEW x \in S, NEW a \in Nat
        PROVE  (a + LeftIn(t)[q[x]]) % QtyModulus \in Nat
    <3> PICK b \in Nat : b = a + LeftIn(t)[q[x]]
      BY <1>3
    <3>1. b % QtyModulus \in Nat
      BY QuantityAssumption
    <3> QED
      BY <3>1
  <2> QED
    BY <2>1
<1>5. \A x \in S : \A a \in Nat : op[x][a] = (a + LeftIn(t)[q[x]]) % QtyModulus
  OBVIOUS
<1>6. \A s \in SUBSET S : c[s] = Max(s)
  OBVIOUS
<1> HIDE DEF c, op
<1>7. \E g \in [SUBSET S -> Nat] : FoldsBy(g, 0, op, c, S)
  BY ONLY <1>0, <1>1, <1>2, <1>4, FoldExists
<1>8. PICK g \in [SUBSET S -> Nat] : FoldsBy(g, 0, op, c, S)
  BY <1>7
<1>9. ASSUME NEW s \in SUBSET S
      PROVE  g[s] = IF s = {} THEN 0
                    ELSE LET x == Max(s)
                         IN  (g[s \ {x}] + t[q[x]].order.remaining) % QtyModulus
  <2>1. g[s] = FoldStep(g, 0, op, c, s)
    BY <1>8, Zenon DEF FoldsBy
  <2>2. CASE s = {}
    BY <2>1, <2>2 DEF FoldStep
  <2>3. CASE s # {}
    <3>1. c[s] \in s /\ c[s] \in S /\ s \ {c[s]} \in SUBSET S
      BY <1>2, <2>3 DEF Picks
    <3>2. g[s \ {c[s]}] \in Nat
      BY <3>1
    <3>3. g[s] = op[c[s]][g[s \ {c[s]}]]
      BY <2>1, <2>3 DEF FoldStep
    <3>4. g[s] = (g[s \ {c[s]}] + t[q[c[s]]].order.remaining) % QtyModulus
      BY ONLY <1>3, <1>5, <3>1, <3>2, <3>3, Zenon
    <3> QED
      BY ONLY <1>6, <2>3, <3>4, s \in SUBSET S, Zenon
  <2> QED
    BY <2>2, <2>3
<1>10. g = [s \in SUBSET DOMAIN q |-> g[s]]
  OBVIOUS
<1>11. LeftEq(g, t, q)
  BY ONLY <1>9, <1>10, Zenon DEF LeftEq
<1> QED
  BY <1>11

\* The sum a level quotes is that of its queue, to the width of a quantity.
LEMMA TotalQtyIs ==
  ASSUME NEW t, NEW level, NEW q \in Seq(Slots), NoRepeats(q), Walk(t, level) = q,
         \A i \in Slots : i \in FirstOf(q, Len(q)) => LeftIn(t)[i] \in Nat
  PROVE  TotalQty(t, level) = Total(LeftIn(t), FirstOf(q, Len(q))) % QtyModulus
<1> PICK w : w = LeftIn(t)
  OBVIOUS
<1>1. PICK g : g = CHOOSE f : LeftEq(f, t, q)
  OBVIOUS
<1>2. LeftEq(g, t, q)
  BY <1>1, LeftExists, Zenon
<1>3. TotalQty(t, level) = g[DOMAIN q]
  <2>1. TotalQty(t, level) = (CHOOSE f : LeftEq(f, t, Walk(t, level)))[DOMAIN Walk(t, level)]
    BY Zenon DEF TotalQty, FoldLeft, MapThenFoldSet, LeftEq
  <2> QED
    BY <1>1, <2>1
<1>4. DOMAIN q = 1 .. Len(q) /\ Len(q) \in Nat
  OBVIOUS
<1>5. \A n \in 1 .. Len(q) : /\ q[n] \in Slots /\ w[q[n]] \in Nat
                             /\ w[q[n]] = t[q[n]].order.remaining
  <2> SUFFICES ASSUME NEW n \in 1 .. Len(q)
               PROVE  q[n] \in Slots /\ w[q[n]] \in Nat /\ w[q[n]] = t[q[n]].order.remaining
    OBVIOUS
  <2>1. q[n] \in Slots /\ q[n] \in FirstOf(q, Len(q))
    BY <1>4 DEF FirstOf
  <2> QED
    BY <2>1 DEF LeftIn
<1> PICK N \in Nat : N = Len(q)
  BY <1>4
<1> DEFINE T == {k \in Nat : k <= N => g[1 .. k] = Total(w, FirstOf(q, k)) % QtyModulus}
<1>6. 0 \in T
  <2>1. 1 .. 0 = {} /\ {} \in SUBSET DOMAIN q
    OBVIOUS
  <2>2. g[{}] = 0
    BY ONLY <1>2, <2>1, Zenon DEF LeftEq
  <2>3. FirstOf(q, 0) = {}
    BY ONLY <2>1, Zenon DEF FirstOf
  <2>4. Total(w, {}) = 0
    BY FS_EmptySet, TotalSplit
  <2>5. 0 % QtyModulus = 0
    BY QuantityAssumption
  <2> QED
    BY <2>1, <2>2, <2>3, <2>4, <2>5
<1>7. ASSUME NEW k \in Nat, k \in T
      PROVE  k + 1 \in T
  <2>n. k + 1 \in Nat
    OBVIOUS
  <2> SUFFICES ASSUME k + 1 <= N
               PROVE  g[1 .. k + 1] = Total(w, FirstOf(q, k + 1)) % QtyModulus
    BY <2>n
  <2> PICK s : s = 1 .. k + 1
    OBVIOUS
  <2> PICK x : x = q[k + 1]
    OBVIOUS
  <2>1. g[1 .. k] = Total(w, FirstOf(q, k)) % QtyModulus
    BY <1>7
  <2>2. s \in SUBSET DOMAIN q /\ s # {} /\ s \ {k + 1} = 1 .. k /\ s \in SUBSET (1 .. N)
    <3>1. s \subseteq 1 .. N /\ k + 1 \in s
      OBVIOUS
    <3>2. (1 .. k + 1) \ {k + 1} = 1 .. k
      OBVIOUS
    <3> QED
      BY <1>4, <3>1, <3>2
  <2>3. Max(s) = k + 1
    <3>1. Max(s) \in s /\ \A j \in s : j <= Max(s)
      BY <2>2, MaxPicks
    <3>2. k + 1 \in s
      OBVIOUS
    <3> QED
      BY <3>1, <3>2
  <2>4. g[s] = (g[s \ {k + 1}] + t[q[k + 1]].order.remaining) % QtyModulus
    BY ONLY <1>2, <2>2, <2>3, Zenon DEF LeftEq
  <2>5. w[x] \in Nat /\ w[x] = t[x].order.remaining
    BY <1>5
  <2> DEFINE F == FirstOf(q, k + 1)
  <2>6. x \in F /\ F \ {x} = FirstOf(q, k)
    <3>1. \A j \in 1 .. k : q[j] # q[k + 1]
      BY DEF NoRepeats
    <3>2. \A y : y \in F <=> y = x \/ y \in FirstOf(q, k)
      BY DEF FirstOf
    <3>3. x \notin FirstOf(q, k)
      BY <3>1 DEF FirstOf
    <3> HIDE DEF F
    <3> QED
      BY <3>2, <3>3
  <2>7. IsFiniteSet(F) /\ \A y \in F : w[y] \in Nat
    <3>1. F \subseteq Slots /\ \A y \in F : w[y] \in Nat
      BY <1>5 DEF FirstOf
    <3>2. IsFiniteSet(Slots)
      BY CapacityPositive, FS_Interval DEF Slots
    <3> QED
      BY <3>1, <3>2, FS_Subset
  <2> HIDE DEF F
  <2>8. Total(w, F) = Total(w, FirstOf(q, k)) + w[x]
    BY <2>6, <2>7, TotalSplit
  <2>9. Total(w, FirstOf(q, k)) \in Nat
    <3>1. IsFiniteSet(F \ {x}) /\ \A y \in F \ {x} : w[y] \in Nat
      BY <2>7, FS_Subset
    <3> QED
      BY <2>6, <3>1, TotalSplit
  <2> PICK a \in Nat : a = Total(w, FirstOf(q, k))
    BY <2>9
  <2> PICK b \in Nat : b = w[x]
    BY <2>5
  <2>10. QtyModulus \in Nat /\ QtyModulus > 0
    BY QuantityAssumption
  <2>11. ((a % QtyModulus) + b) % QtyModulus = (a + b) % QtyModulus
    BY ONLY <2>10, ModOfSum
  <2>12. g[s] = ((a % QtyModulus) + b) % QtyModulus
    BY ONLY <2>1, <2>2, <2>4, <2>5, a = Total(w, FirstOf(q, k)), b = w[x], x = q[k + 1], Zenon
  <2>13. Total(w, F) = a + b
    BY <2>8
  <2> QED
    BY <2>11, <2>12, <2>13 DEF F
<1>8. 0 \in T /\ \A k \in Nat : k \in T => k + 1 \in T
  BY <1>6, <1>7
<1>9. Nat \subseteq T
  <2> HIDE DEF T
  <2> QED
    BY <1>8, InductionOnNat
<1>10. g[1 .. N] = Total(w, FirstOf(q, N)) % QtyModulus
  BY <1>9
<1> QED
  BY <1>3, <1>4, <1>10

\* What a price quotes is the sum of the orders stored at it.
LEMMA QuoteIs ==
  ASSUME BookInv, NEW ids, ListInv(ids), NEW side \in Sides, NEW price \in Prices
  PROVE  /\ SumRemaining(OrdersAt(side, price)) \in Nat
         /\ QtyAt(side, price) = SumRemaining(OrdersAt(side, price)) % QtyModulus
<1> DEFINE S == OrdersAt(side, price)
           w == LeftIn(slots)
           at == LevelsOf(levels[side], price)
<1>1. PICK Q : Represents(slots, levels, Q)
  BY DEF ListInv
<1>2. levels \in [Sides -> Seq(Level)] /\ levels[side] \in Seq(Level)
  BY DEF BookInv, GoodBook
<1>3. S \in SUBSET Slots /\ \A i \in S : w[i] \in Nat
  <2>1. Occupied(slots) \subseteq Used(slots) /\ Occupied(slots) \subseteq Slots
    BY DEF BookInv, GoodBook, GoodTable, Occupied
  <2>2. \A i \in Used(slots) : slots[i].order.remaining \in 0 .. QtyModulus - 1
    BY DEF Used, Order
  <2>3. QtyModulus \in Nat
    BY QuantityAssumption
  <2>4. S \subseteq Occupied(slots)
    BY DEF OrdersAt
  <2> QED
    BY <2>1, <2>2, <2>3, <2>4 DEF LeftIn
<1>4. IsFiniteSet(S)
  <2>1. IsFiniteSet(Slots)
    BY CapacityPositive, FS_Interval DEF Slots
  <2> QED
    BY <1>3, <2>1, FS_Subset
<1>5. SumRemaining(S) = Total(w, S)
  <2> HIDE DEF S
  <2> QED
    BY <1>3, SumRemainingIs
<1>6. Total(w, S) \in Nat
  <2> HIDE DEF S, w
  <2> QED
    BY <1>3, <1>4, TotalSplit
<1>7. /\ Queued(slots, side, price, Q[side][price]) /\ Q[side][price] \in Seq(Slots)
      /\ NoRepeats(Q[side][price])
      /\ Q[side][price] # <<>> => at # {}
  BY <1>1 DEF Represents, Queued, LevelsOf
<1> PICK q : q = Q[side][price]
  OBVIOUS
<1>8. FirstOf(q, Len(q)) = S
  <2>1. S = OrdersIn(slots, side, price)
    BY DEF OrdersAt, OrdersIn
  <2>2. \A i : i \in FirstOf(q, Len(q)) <=> \E n \in 1 .. Len(q) : q[n] = i
    BY DEF FirstOf
  <2>3. \A n \in 1 .. Len(q) : q[n] \in Slots
    BY <1>7
  <2> HIDE DEF S
  <2> QED
    BY <1>3, <1>7, <2>1, <2>2, <2>3 DEF Queued
<1>9. CASE at = {}
  <2>1. q = <<>>
    BY <1>7, <1>9
  <2>2. S = {}
    <3>1. Len(q) = 0 /\ 1 .. 0 = {}
      BY <2>1
    <3>2. FirstOf(q, 0) = {}
      BY <3>1, Zenon DEF FirstOf
    <3> QED
      BY <1>8, <3>1, <3>2
  <2>3. Total(w, {}) = 0
    BY FS_EmptySet, TotalSplit
  <2>4. 0 % QtyModulus = 0
    BY QuantityAssumption
  <2>5. QtyAt(side, price) = 0
    BY <1>9 DEF QtyAt
  <2> QED
    BY <1>5, <1>6, <2>2, <2>3, <2>4, <2>5
<1>10. CASE at # {}
  <2> PICK i : i = Min(at)
    OBVIOUS
  <2>1. i \in DOMAIN levels[side] /\ levels[side][i].price = price
    BY <1>2, <1>10, MinOfNaturals
  <2> PICK level : level = levels[side][i]
    OBVIOUS
  <2>2. Walk(slots, level) = q
    <3>1. ListsQueue(slots, side, level, Q)
      BY <1>1, <1>2, <2>1, LevelQueue
    <3> QED
      BY <2>1, <3>1 DEF ListsQueue
  <2>3. \A j \in Slots : j \in FirstOf(q, Len(q)) => LeftIn(slots)[j] \in Nat
    BY <1>3, <1>8
  <2>4. TotalQty(slots, level) = Total(LeftIn(slots), FirstOf(q, Len(q))) % QtyModulus
    BY ONLY <1>7, <2>2, <2>3, q = Q[side][price], TotalQtyIs
  <2>5. QtyAt(side, price) = TotalQty(slots, level)
    BY <1>10 DEF QtyAt
  <2> QED
    BY <1>5, <1>6, <1>8, <2>4, <2>5
<1> QED
  BY <1>9, <1>10

(* Over ids that do not collide, the quantity quoted at a price is the sum *)
(* of the orders stored at it, to the width of a quantity.                 *)
THEOREM BookQuotesSums ==
  ASSUME CollisionFree(Keys)
  PROVE  Spec => []QtySumsToWidth
<1>1. Init => ListInv(Keys)
  BY EmptyListInv DEF Init, EmptyLevels
<1>2. BookInv /\ ListInv(Keys) /\ [Next]_bookVars => ListInv(Keys)'
  BY StepListInv
<1>3. BookInv /\ ListInv(Keys) => QtySumsToWidth
  BY QuoteIs DEF QtySumsToWidth
<1> QED
  BY <1>1, <1>2, <1>3, BookInvariant, PTL DEF Spec

(* It is the sum itself at all times at which every such sum is one that a *)
(* quantity can express.                                                   *)
THEOREM BookSumsOrders ==
  ASSUME CollisionFree(Keys)
  PROVE  Spec => [](SumsFit => QtySumsOrders)
<1>1. Init => ListInv(Keys)
  BY EmptyListInv DEF Init, EmptyLevels
<1>2. BookInv /\ ListInv(Keys) /\ [Next]_bookVars => ListInv(Keys)'
  BY StepListInv
<1>3. BookInv /\ ListInv(Keys) => (SumsFit => QtySumsOrders)
  <2> SUFFICES ASSUME BookInv, ListInv(Keys), SumsFit,
                      NEW side \in Sides, NEW price \in Prices
               PROVE  QtyAt(side, price) = SumRemaining(OrdersAt(side, price))
    BY Zenon DEF QtySumsOrders
  <2> PICK n : n = SumRemaining(OrdersAt(side, price))
    OBVIOUS
  <2>1. n \in Nat /\ QtyAt(side, price) = n % QtyModulus
    BY QuoteIs
  <2>2. n < QtyModulus
    BY DEF SumsFit
  <2>3. n % QtyModulus = n
    BY ONLY <2>1, <2>2, QuantityAssumption
  <2> QED
    BY <2>1, <2>3
<1> QED
  BY <1>1, <1>2, <1>3, BookInvariant, PTL DEF Spec

-----------------------------------------------------------------------------
(***************************************************************************)
(* The open quantities.                                                    *)
(***************************************************************************)
Open(table, id) == IF Holds(table, id) THEN table[Natural(id)].order.remaining ELSE Null

\* The open quantity of an id the book holds is a number, of another one none.
LEMMA OpenTyped ==
  ASSUME NEW t, Occupied(t) \subseteq Used(t), NEW id \in Keys
  PROVE  /\ Holds(t, id) => /\ Natural(id) \in Occupied(t) /\ Open(t, id) \in 0 .. QtyModulus - 1
                            /\ Open(t, id) # Null
         /\ ~Holds(t, id) => Open(t, id) = Null
<1>1. Natural(id) \in Slots
  BY NaturalIsSlot
<1>2. CASE Holds(t, id)
  <2>1. Natural(id) \in Occupied(t) /\ t[Natural(id)].order \in Order
    BY <1>1, <1>2 DEF Holds, Occupied, Used
  <2>2. Open(t, id) \in 0 .. QtyModulus - 1
    BY <1>2, <2>1 DEF Open, Order
  <2>3. Open(t, id) \in Nat
    BY <2>2, QuantityAssumption
  <2> QED
    BY <1>2, <2>1, <2>2, <2>3, NullIsNoNumber
<1> QED
  BY <1>2 DEF Open

\* Adding an order opens its quantity and no other.
LEMMA AddedOpen ==
  ASSUME NEW t, NEW u, NEW id \in Keys, NEW side, NEW price, NEW qty,
         Added(t, u, Natural(id), id, side, price, qty), NEW k \in Keys
  PROVE  Open(u, k) = IF k = id THEN qty ELSE Open(t, k)
<1>1. Natural(k) \in Slots
  BY NaturalIsSlot
<1>2. CASE Natural(k) = Natural(id)
  BY <1>1, <1>2 DEF Added, Open, Holds, Occupied
<1>3. CASE Natural(k) # Natural(id)
  BY <1>1, <1>3 DEF Added, Open, Holds, Occupied
<1> QED
  BY <1>2, <1>3

\* Removing an order closes its quantity and no other.
LEMMA RemovedOpen ==
  ASSUME NEW t, NEW u, NEW id \in Keys, Removed(t, u, Natural(id)), t[Natural(id)].key = id,
         NEW k \in Keys
  PROVE  Open(u, k) = IF k = id THEN Null ELSE Open(t, k)
<1>1. Natural(k) \in Slots
  BY NaturalIsSlot
<1>2. CASE Natural(k) = Natural(id)
  BY <1>1, <1>2 DEF Removed, Open, Holds, Occupied
<1>3. CASE Natural(k) # Natural(id)
  BY <1>1, <1>3 DEF Removed, Open, Holds, Occupied
<1> QED
  BY <1>2, <1>3

\* An execution changes the quantity of its order and no other.
LEMMA FilledOpen ==
  ASSUME NEW t, GoodTable(t), NEW id \in Keys, Holds(t, id), Natural(id) \in Used(t),
         NEW left \in 0 .. QtyModulus - 1, NEW k \in Keys
  PROVE  Open(Filled(t, Natural(id), left), k) = IF k = id THEN left ELSE Open(t, k)
<1> DEFINE p == Natural(id)
           u == Filled(t, p, left)
<1>1. /\ SameKeys(t, u) /\ u[p].order.remaining = left
      /\ \A i \in Slots \ {p} : u[i] = t[i]
  <2> HIDE DEF p
  <2> QED
    BY FilledGood DEF p
<1> HIDE DEF u
<1>2. Natural(k) \in Slots
  BY NaturalIsSlot
<1> HIDE DEF p
<1>3. Holds(u, k) = Holds(t, k)
  BY <1>1, <1>2 DEF Holds, SameKeys
<1>4. CASE Natural(k) = p
  <2>1. Holds(t, k) => k = id
    BY <1>4 DEF Holds, p
  <2>2. (Holds(t, id) /\ Holds(u, id)) \/ k # id
    BY <1>3
  <2> QED
    BY <1>1, <1>3, <1>4, <2>1, <2>2 DEF Open, p, u
<1>5. CASE Natural(k) # p
  <2>1. k # id
    BY <1>5 DEF p
  <2> QED
    BY <1>1, <1>2, <1>3, <1>5, <2>1 DEF Open, p, u
<1> QED
  BY <1>4, <1>5

-----------------------------------------------------------------------------
(***************************************************************************)
(* What the handler's calls open and close.  Only announced ids are ever   *)
(* stored.                                                                 *)
(***************************************************************************)
StoredInv == BookInv /\ ListInv(Announced)

\* The effect of an execution on the open quantity of its order: nothing where
\* nothing is open.
Spent(open, shares) == IF open = 0 THEN open ELSE Less(open, shares)

\* What StoredInv says of the table.
LEMMA StoredTable ==
  ASSUME StoredInv
  PROVE  Occupied(slots) \subseteq Used(slots) /\ Keyed(slots) /\ Settled(slots) /\ GoodTable(slots)
BY DEF StoredInv, ListInv, BookInv, GoodBook, GoodTable

\* A lookup tells whether and how much of an order is open.
LEMMA LookupOpen ==
  ASSUME StoredInv, NEW id \in Keys, ProbeEnds(slots, id)
  PROVE  /\ Found(id) = Null <=> Open(slots, id) = Null
         /\ Found(id) # Null => Open(slots, id) = slots[Found(id)].order.remaining
<1>1. Found(id) = IF Holds(slots, id) THEN Natural(id) ELSE Null
  BY StoredTable, SettledFind DEF Found
<1>2. Natural(id) # Null
  BY NaturalIsSlot, NullAssumption
<1>3. (Holds(slots, id) => Open(slots, id) # Null) /\ (~Holds(slots, id) => Open(slots, id) = Null)
  BY StoredTable, OpenTyped
<1> QED
  BY <1>1, <1>2, <1>3 DEF Open

\* The property's view of what is open is this one.
LEMMA RestsIsOpen ==
  ASSUME StoredInv, NEW id \in Keys
  PROVE  Rests(id, Open(slots, id))
<1> DEFINE S == {j \in Occupied(slots) : slots[j].key = id}
<1>1. CASE Holds(slots, id)
  <2>1. Natural(id) \in Occupied(slots) /\ slots[Natural(id)].key = id /\ Open(slots, id) # Null
    BY <1>1, StoredTable, OpenTyped DEF Holds
  <2>2. \A j \in Occupied(slots) : slots[j].key = id => j = Natural(id)
    BY StoredTable, SettledHolds
  <2>3. S = {Natural(id)}
    BY <2>1, <2>2
  <2>4. Opened(id) = {slots[Natural(id)].order.remaining}
    BY <2>3 DEF Opened
  <2> QED
    BY <1>1, <2>1, <2>4 DEF Rests, Open
<1>2. CASE ~Holds(slots, id)
  <2>1. S = {}
    BY <1>2, StoredTable, SettledHolds
  <2>2. Opened(id) = {} /\ Open(slots, id) = Null
    BY <1>2, <2>1, StoredTable, OpenTyped DEF Opened
  <2> QED
    BY <2>2 DEF Rests
<1> QED
  BY <1>1, <1>2

\* An add that is entered opens its shares,
LEMMA AddOpens ==
  ASSUME CollisionFree(Announced), StoredInv, NEW id \in Announced, NEW side \in Sides,
         NEW price \in Prices, NEW shares \in Quantities, AddOrder(id, side, price, shares)
  PROVE  /\ StoredInv' /\ Open(slots, id) = Null
         /\ \A k \in Keys : Open(slots', k) = IF k = id THEN shares ELSE Open(slots, k)
<1>1. id \in Keys /\ Announced \subseteq Keys
  BY AnnouncedAssumption
<1>2. StoredInv'
  BY <1>1, AddOrderInv, AddListInv DEF StoredInv
<1>3. Open(slots, id) = Null
  BY <1>1, LookupOpen DEF AddOrder
<1>4. Added(slots, slots', Natural(id), id, side, price, shares)
  <2>1. PICK Q : Represents(slots, levels, Q)
    BY DEF StoredInv, ListInv
  <2> QED
    BY <1>1, <2>1, AddOrderEffect DEF StoredInv, ListInv
<1> QED
  BY <1>1, <1>2, <1>3, <1>4, AddedOpen

\* a cancel closes what is open,
LEMMA CancelOpens ==
  ASSUME StoredInv, NEW id \in Keys, CancelOrder(id)
  PROVE  /\ StoredInv'
         /\ \A k \in Keys : Open(slots', k) = IF k = id THEN Null ELSE Open(slots, k)
<1>1. StoredInv'
  BY CancelOrderInv, CancelListInv DEF StoredInv
<1>2. Removed(slots, slots', Natural(id)) /\ slots[Natural(id)].key = id
  <2>1. PICK Q : Represents(slots, levels, Q)
    BY DEF StoredInv, ListInv
  <2> QED
    BY <2>1, CancelOrderEffect DEF StoredInv, ListInv
<1> QED
  BY <1>1, <1>2, RemovedOpen

\* an execution takes its shares off, and tells if it executed any,
LEMMA ExecuteOpens ==
  ASSUME StoredInv, NEW id \in Keys, NEW shares \in Quantities, ExecuteOrder(id, shares)
  PROVE  /\ StoredInv'
         /\ \A k \in Keys :
              Open(slots', k) = IF k = id THEN Spent(Open(slots, id), shares) ELSE Open(slots, k)
         /\ Open(slots, id) # 0
         /\ ~(Executed(id, shares) > 0) => Spent(Open(slots, id), shares) = Open(slots, id)
<1> DEFINE p    == Natural(id)
           open == slots[p].order.remaining
           left == Left(id, shares)
<1>1. StoredInv'
  BY ExecuteOrderInv, ExecuteListInv DEF StoredInv
<1>2. /\ p \in Occupied(slots) /\ slots[p].key = id /\ Found(id) = p /\ open # 0
      /\ left = 0 => Removed(slots, slots', p)
      /\ left # 0 => slots' = Filled(slots, p, left)
  <2>1. PICK Q : Represents(slots, levels, Q)
    BY DEF StoredInv, ListInv
  <2> QED
    BY <2>1, ExecuteOrderEffect DEF StoredInv, ListInv
<1>3. /\ open \in 0 .. QtyModulus - 1 /\ left \in 0 .. QtyModulus - 1
      /\ Executed(id, shares) = IF shares <= open THEN shares ELSE open
      /\ left = IF shares <= open THEN open - shares ELSE 0
  <2>1. ProbeEnds(slots, id) /\ Found(id) # Null /\ BookInv
    BY DEF ExecuteOrder, StoredInv
  <2> QED
    BY <1>2, <2>1, LeftIs
<1>4. Holds(slots, id) /\ p \in Used(slots) /\ GoodTable(slots)
  BY <1>2, StoredTable DEF Holds, Occupied
<1>5. Open(slots, id) = open
  BY <1>4 DEF Open
<1> HIDE DEF left, open
<1>6. \A k \in Keys : Open(slots', k) = IF k = id THEN IF left = 0 THEN Null ELSE left
                                                  ELSE Open(slots, k)
  <2>1. CASE left = 0
    BY <1>2, <2>1, RemovedOpen
  <2>2. CASE left # 0
    BY <1>2, <1>3, <1>4, <2>2, FilledOpen
  <2> QED
    BY <2>1, <2>2
<1>7. shares \in Nat /\ open \in Nat /\ open # 0 /\ open # Null
  BY <1>2, <1>3, QuantityAssumption, NullIsNoNumber DEF open
<1>8. Spent(open, shares) = IF left = 0 THEN Null ELSE left
  BY <1>3, <1>7 DEF Spent, Less
<1>9. ~(Executed(id, shares) > 0) => left = open
  BY <1>3, <1>7
<1> QED
  BY <1>1, <1>5, <1>6, <1>7, <1>8, <1>9

\* and nothing else opens or closes anything.
LEMMA NothingOpens ==
  ASSUME StoredInv, UNCHANGED <<slots, levels, size>>, spinning' \in BOOLEAN
  PROVE  StoredInv' /\ \A k \in Keys : Open(slots', k) = Open(slots, k)
BY DEF StoredInv, BookInv, ListInv

\* A step that changes nothing of the book changes nothing of it.
LEMMA BookVarsStay ==
  ASSUME StoredInv, UNCHANGED bookVars
  PROVE  StoredInv' /\ \A k \in Keys : Open(slots', k) = Open(slots, k)
<1>1. UNCHANGED <<slots, levels, size>> /\ spinning' \in BOOLEAN
  BY DEF bookVars, StoredInv, BookInv
<1> QED
  BY <1>1, NothingOpens

\* The empty book is one of them,
LEMMA EmptyStored ==
  /\ Init => StoredInv
  /\ StoredInv /\ slots' = EmptyTable /\ size' = 0 /\ levels' = [side \in Sides |-> <<>>]
       /\ spinning' = spinning => StoredInv'
<1>1. Init => StoredInv
  BY InitBookInv, EmptyListInv DEF Init, StoredInv, EmptyLevels
<1>2. ASSUME StoredInv, slots' = EmptyTable, size' = 0, levels' = [side \in Sides |-> <<>>],
             spinning' = spinning
      PROVE  StoredInv'
  <2>1. levels' = EmptyLevels
    BY <1>2 DEF EmptyLevels
  <2>2. GoodBook(EmptyTable, EmptyLevels) /\ Cardinality(Occupied(EmptyTable)) = 0
    BY EmptyBook DEF EmptyLevels
  <2>3. BookInv'
    BY <1>2, <2>1, <2>2 DEF BookInv, StoredInv
  <2>4. ListInv(Announced)'
    BY <1>2, <2>1, EmptyRepresents DEF ListInv, StoredIn
  <2> QED
    BY <2>3, <2>4 DEF StoredInv
<1> QED
  BY <1>1, <1>2

\* and nothing is open in it.
LEMMA EmptyOpens == \A id \in Keys : Open(EmptyTable, id) = Null
<1>1. \A id \in Keys : ~EmptyTable[Natural(id)].occupied
  BY NaturalIsSlot DEF EmptyTable, EmptySlot
<1> QED
  BY <1>1 DEF Open, Holds

-----------------------------------------------------------------------------
(***************************************************************************)
(* The subscriber of the handler's events.  It is right about the orders   *)
(* that have not led it astray.                                            *)
(***************************************************************************)
MirrorInv ==
  /\ StoredInv
  /\ mirror = [id \in Keys |-> mirror[id]]
  /\ \A id \in Keys \ astray : mirror[id] = Open(slots, id)

\* The invariant implies the property.
LEMMA MirrorMatches ==
  ASSUME MirrorInv
  PROVE  MirrorMatchesBook
BY RestsIsOpen DEF MirrorInv, MirrorMatchesBook, Agrees

\* An event about one order changes the beliefs about it and no other.
LEMMA MirrorFollows ==
  ASSUME MirrorInv, StoredInv', NEW id \in Keys, NEW open, NEW closed,
         \A k \in Keys : Open(slots', k) = IF k = id THEN closed ELSE Open(slots, k),
         mirror' = [mirror EXCEPT ![id] = open],
         astray' \in {astray \ {id}, astray},
         id \in astray' \/ open = closed
  PROVE  MirrorInv'
<1>1. \A k \in Keys : mirror'[k] = IF k = id THEN open ELSE mirror[k]
  BY DEF MirrorInv
<1>2. mirror' = [k \in Keys |-> mirror'[k]]
  BY DEF MirrorInv
<1>3. \A k \in Keys \ astray' : mirror'[k] = Open(slots', k)
  BY <1>1 DEF MirrorInv
<1> QED
  BY <1>2, <1>3 DEF MirrorInv

\* The event of an add tells the subscriber what the book did.
LEMMA MirrorAdd ==
  ASSUME CollisionFree(Announced), MirrorInv, NEW id \in Announced, NEW side \in Sides,
         NEW price \in Prices, NEW shares \in Quantities, AddOrder(id, side, price, shares),
         mirror' = [mirror EXCEPT ![id] = shares], astray' = astray \ {id}
  PROVE  MirrorInv'
<1>1. id \in Keys
  BY AnnouncedAssumption
<1> QED
  BY <1>1, AddOpens, MirrorFollows DEF MirrorInv

\* So does that of a delete,
LEMMA MirrorDelete ==
  ASSUME MirrorInv, NEW id \in Keys, CancelOrder(id), mirror' = Forgotten(id),
         astray' = astray \ {id}
  PROVE  MirrorInv'
BY CancelOpens, MirrorFollows DEF MirrorInv, Forgotten

\* that of a cancel, if it cancels all that the subscriber believes in,
LEMMA MirrorCancel ==
  ASSUME MirrorInv, NEW id \in Keys, NEW shares, CancelOrder(id), mirror' = Reduced(id, shares),
         astray' = IF Less(mirror[id], shares) = Null THEN astray \ {id} ELSE astray \cup {id}
  PROVE  MirrorInv'
<1> PICK open : open = Less(mirror[id], shares)
  OBVIOUS
<1>1. mirror' = [mirror EXCEPT ![id] = open]
  BY DEF Reduced
<1>2. /\ StoredInv'
      /\ \A k \in Keys : Open(slots', k) = IF k = id THEN Null ELSE Open(slots, k)
  BY CancelOpens DEF MirrorInv
<1>3. CASE open = Null
  BY <1>1, <1>2, <1>3, MirrorFollows
<1>4. CASE open # Null
  <2>1. \A k \in Keys : mirror'[k] = IF k = id THEN open ELSE mirror[k]
    BY <1>1 DEF MirrorInv
  <2>2. mirror' = [k \in Keys |-> mirror'[k]]
    BY <1>1 DEF MirrorInv
  <2>3. \A k \in Keys \ astray' : mirror'[k] = Open(slots', k)
    BY <1>2, <1>4, <2>1 DEF MirrorInv
  <2> QED
    BY <1>2, <2>2, <2>3 DEF MirrorInv
<1> QED
  BY <1>3, <1>4

\* that of an execution,
LEMMA MirrorExecute ==
  ASSUME MirrorInv, NEW id \in Keys, NEW shares \in Quantities, ExecuteOrder(id, shares),
         IF Executed(id, shares) > 0 THEN mirror' = Reduced(id, shares) ELSE mirror' = mirror,
         astray' = astray
  PROVE  MirrorInv'
<1> PICK spent : spent = Spent(Open(slots, id), shares)
  OBVIOUS
<1>1. /\ StoredInv' /\ Open(slots, id) # 0
      /\ \A k \in Keys : Open(slots', k) = IF k = id THEN spent ELSE Open(slots, k)
      /\ ~(Executed(id, shares) > 0) => spent = Open(slots, id)
  BY ExecuteOpens DEF MirrorInv
<1>2. CASE Executed(id, shares) > 0
  <2> PICK open : open = Less(mirror[id], shares)
    OBVIOUS
  <2>1. mirror' = [mirror EXCEPT ![id] = open]
    BY <1>2 DEF Reduced
  <2>2. id \in astray \/ open = spent
    BY <1>1 DEF MirrorInv, Spent
  <2> QED
    BY <1>1, <2>1, <2>2, MirrorFollows
<1>3. CASE ~(Executed(id, shares) > 0)
  <2>1. \A k \in Keys : Open(slots', k) = Open(slots, k)
    BY <1>1, <1>3
  <2>2. mirror' = mirror
    BY <1>3
  <2> QED
    BY <1>1, <2>1, <2>2 DEF MirrorInv
<1> QED
  BY <1>2, <1>3

\* that of a replacement, but for the new order,
LEMMA MirrorReplace ==
  ASSUME MirrorInv, NEW id \in Keys, NEW newId \in Keys, NEW shares,
         CancelOrder(id) \/ (Unknown(id) /\ UNCHANGED bookVars),
         mirror' = [mirror EXCEPT ![id] = Null, ![newId] = shares],
         astray' = (astray \ {id}) \cup {newId}
  PROVE  MirrorInv'
<1>1. /\ StoredInv'
      /\ \A k \in Keys : Open(slots', k) = IF k = id THEN Null ELSE Open(slots, k)
  <2>1. CASE CancelOrder(id)
    BY <2>1, CancelOpens DEF MirrorInv
  <2>2. CASE Unknown(id) /\ UNCHANGED bookVars
    BY <2>2, BookVarsStay, LookupOpen DEF MirrorInv, Unknown
  <2> QED
    BY <2>1, <2>2
<1>2. /\ \A k \in Keys : k # newId => mirror'[k] = IF k = id THEN Null ELSE mirror[k]
      /\ mirror' = [k \in Keys |-> mirror'[k]]
  BY DEF MirrorInv
<1>3. \A k \in Keys \ astray' : k # newId /\ (k \in astray => k = id)
  OBVIOUS
<1>4. \A k \in Keys \ astray' : mirror'[k] = Open(slots', k)
  BY <1>1, <1>2, <1>3 DEF MirrorInv
<1> QED
  BY <1>1, <1>2, <1>4 DEF MirrorInv

\* and the silence when a message changes nothing.
LEMMA MirrorStay ==
  ASSUME MirrorInv, UNCHANGED <<slots, levels, size, mirror, astray>>, spinning' \in BOOLEAN
  PROVE  MirrorInv'
BY NothingOpens DEF MirrorInv

\* reset empties both.
LEMMA MirrorReset ==
  ASSUME MirrorInv, Reset
  PROVE  MirrorInv'
<1>1. slots' = EmptyTable /\ mirror' = [id \in Keys |-> Null]
  BY DEF Reset
<1>2. StoredInv'
  BY EmptyStored DEF Reset, MirrorInv
<1> QED
  BY <1>1, <1>2, EmptyOpens DEF MirrorInv

\* Every message keeps the mirror.
LEMMA MirrorStep ==
  ASSUME CollisionFree(Announced), MirrorInv, [HandlerNext]_handlerVars
  PROVE  MirrorInv'
<1>0. spinning \in BOOLEAN
  BY DEF MirrorInv, StoredInv, BookInv
<1>1. ASSUME NEW id \in Announced, NEW side \in Sides, NEW price \in Prices,
             NEW shares \in Quantities, ProcessAddOrder(id, side, price, shares)
      PROVE  MirrorInv'
  BY <1>0, <1>1, MirrorAdd, MirrorStay DEF ProcessAddOrder, Fires, Silent, bookVars
<1>2. ASSUME NEW id \in Keys, NEW shares \in Quantities, ProcessExecuteOrder(id, shares)
      PROVE  MirrorInv'
  <2>1. CASE /\ ExecuteOrder(id, shares)
             /\ IF Executed(id, shares) > 0
                THEN Fires("ORDER_EXECUTED", Reduced(id, shares), astray)
                ELSE Silent
    BY <2>1, MirrorExecute DEF Fires, Silent
  <2>2. CASE UNCHANGED bookVars /\ Silent
    BY <1>0, <2>2, MirrorStay DEF Silent, bookVars
  <2> QED
    BY <1>2, <2>1, <2>2 DEF ProcessExecuteOrder
<1>3. ASSUME NEW id \in Keys, NEW shares, ProcessCancelOrder(id, shares)
      PROVE  MirrorInv'
  BY <1>0, <1>3, MirrorCancel, MirrorStay DEF ProcessCancelOrder, Fires, Silent, bookVars
<1>4. ASSUME NEW id \in Keys, ProcessDeleteOrder(id)
      PROVE  MirrorInv'
  BY <1>0, <1>4, MirrorDelete, MirrorStay DEF ProcessDeleteOrder, Fires, Silent, bookVars
<1>5. ASSUME NEW id \in Keys, NEW newId \in Keys, NEW shares, NEW price,
             ProcessReplaceOrder(id, newId, shares, price)
      PROVE  MirrorInv'
  BY <1>5, MirrorReplace DEF ProcessReplaceOrder, Fires
<1>6. CASE ProcessTrade
  BY <1>0, <1>6, MirrorStay DEF ProcessTrade, Fires, bookVars
<1>7. CASE Reject
  BY <1>0, <1>7, MirrorStay DEF Reject, Silent, bookVars
<1>8. ASSUME NEW id \in Keys, ProcessForever(id)
      PROVE  MirrorInv'
  BY <1>8, MirrorStay DEF ProcessForever, ProbeForever, Silent
<1>9. CASE HandlerSpin \/ UNCHANGED handlerVars
  BY <1>0, <1>9, MirrorStay DEF HandlerSpin, Spin, handlerVars, bookVars
<1>10. CASE Reset
  BY <1>10, MirrorReset
<1> QED
  BY <1>1, <1>2, <1>3, <1>4, <1>5, <1>6, <1>7, <1>8, <1>9, <1>10 DEF HandlerNext

\* A new subscriber and an empty book agree.
LEMMA MirrorStart == HandlerInit => MirrorInv
BY EmptyStored, EmptyOpens DEF HandlerInit, Init, MirrorInv

(* A subscriber that applies every event by the fields of its message      *)
(* agrees with the book on all orders but those of which the last event    *)
(* was a partial cancel or a replacement by them; after duplicates,        *)
(* partial and over-executions, re-used ids and resets, when the announced *)
(* ids do not collide; ids that were never announced may collide with      *)
(* them, and run a lookup into a full table.                               *)
THEOREM HandlerMirrorMatchesBook ==
  ASSUME CollisionFree(Announced)
  PROVE  HandlerSpec => []MirrorMatchesBook
<1>1. MirrorInv /\ [HandlerNext]_handlerVars => MirrorInv'
  BY MirrorStep
<1>2. MirrorInv => MirrorMatchesBook
  BY MirrorMatches
<1> QED
  BY <1>1, <1>2, MirrorStart, PTL DEF HandlerSpec

-----------------------------------------------------------------------------
(***************************************************************************)
(* Types of the handler.  They need no hash: the book keeps its own, and   *)
(* what a subscriber holds never grows beyond the width of a quantity.     *)
(***************************************************************************)
Held == (0 .. QtyModulus - 1) \cup {Null}

CountsInv ==
  /\ total \in 0 .. MaxMessages /\ processed \in 0 .. total
  /\ event \in EventTypes \cup {"none"}
  /\ mirror \in [Keys -> Held] /\ astray \subseteq Keys

HandlerInv == BookInv /\ CountsInv

\* A message that fires an event.
LEMMA FireCounted ==
  ASSUME CountsInv, Counted, NEW type \in EventTypes, NEW open \in [Keys -> Held],
         NEW adrift, adrift \subseteq Keys, Fires(type, open, adrift)
  PROVE  CountsInv'
<1>1. total' \in 0 .. MaxMessages /\ processed' \in 0 .. total'
  BY MaxMessagesAssumption DEF CountsInv, Counted, Fires
<1> QED
  BY <1>1 DEF CountsInv, Fires

\* A message that fires none.
LEMMA SilenceCounted ==
  ASSUME CountsInv, Counted, Silent
  PROVE  CountsInv'
<1>1. total' \in 0 .. MaxMessages /\ processed' \in 0 .. total'
  BY MaxMessagesAssumption DEF CountsInv, Counted, Silent
<1> QED
  BY <1>1 DEF CountsInv, Silent

\* A step that counts nothing.
LEMMA CountsIdle ==
  ASSUME CountsInv, UNCHANGED <<total, processed, event, mirror, astray>>
  PROVE  CountsInv'
BY DEF CountsInv

\* What is left of a quantity held.
LEMMA LessHeld ==
  ASSUME NEW open \in Held, NEW shares \in Quantities
  PROVE  Less(open, shares) \in Held
<1>1. CASE open = Null \/ open <= shares
  BY <1>1 DEF Less, Held
<1>2. CASE ~(open = Null \/ open <= shares)
  <2>1. Less(open, shares) = open - shares
    BY <1>2 DEF Less
  <2>2. open \in 0 .. QtyModulus - 1
    BY <1>2 DEF Held
  <2>3. shares \in Nat /\ QtyModulus \in Nat
    BY QuantityAssumption
  <2>4. open - shares \in 0 .. QtyModulus - 1
    BY <1>2, <2>2, <2>3
  <2> QED
    BY <2>1, <2>4 DEF Held
<1> QED
  BY <1>1, <1>2

\* What a subscriber holds after an event.
LEMMA HeldStays ==
  ASSUME CountsInv
  PROVE  /\ \A id \in Keys, shares \in Quantities :
              /\ [mirror EXCEPT ![id] = shares] \in [Keys -> Held]
              /\ Reduced(id, shares) \in [Keys -> Held]
              /\ \A k \in Keys : [mirror EXCEPT ![k] = Null, ![id] = shares] \in [Keys -> Held]
         /\ \A id \in Keys : Forgotten(id) \in [Keys -> Held]
         /\ mirror \in [Keys -> Held]
         /\ astray \subseteq Keys
<1>1. mirror \in [Keys -> Held] /\ Null \in Held /\ Quantities \subseteq Held
  BY QuantityAssumption DEF CountsInv, Held
<1>2. ASSUME NEW id \in Keys, NEW shares \in Quantities
      PROVE  Reduced(id, shares) \in [Keys -> Held]
  <2>1. Less(mirror[id], shares) \in Held
    BY <1>1, LessHeld
  <2> QED
    BY <1>1, <2>1 DEF Reduced
<1>3. ASSUME NEW id \in Keys, NEW k \in Keys, NEW shares \in Quantities
      PROVE  [mirror EXCEPT ![k] = Null, ![id] = shares] \in [Keys -> Held]
  BY <1>1
<1> QED
  BY <1>1, <1>2, <1>3 DEF Forgotten, CountsInv

\* Every message is a step of the book, or none.
LEMMA HandlerBookStep ==
  ASSUME BookInv, [HandlerNext]_handlerVars
  PROVE  BookInv'
<1>1. [Next]_bookVars => BookInv'
  BY StepBookInv
<1>2. CASE Reset
  <2>1. /\ slots' = EmptyTable /\ levels' = EmptyLevels /\ size' = 0 /\ spinning' = spinning
    BY <1>2 DEF Reset, EmptyLevels
  <2>2. GoodBook(EmptyTable, EmptyLevels) /\ Cardinality(Occupied(EmptyTable)) = 0
    BY EmptyBook DEF EmptyLevels
  <2> QED
    BY <2>1, <2>2 DEF BookInv
<1>3. ASSUME NEW id \in Announced, NEW side \in Sides, NEW price \in Prices,
             NEW shares \in Quantities, ProcessAddOrder(id, side, price, shares)
      PROVE  [Next]_bookVars
  BY <1>3, AnnouncedAssumption DEF ProcessAddOrder, Next
<1>4. ASSUME NEW id \in Keys, NEW shares \in Quantities,
             ProcessExecuteOrder(id, shares) \/ ProcessCancelOrder(id, shares)
      PROVE  [Next]_bookVars
  BY <1>4 DEF ProcessExecuteOrder, ProcessCancelOrder, Next
<1>5. ASSUME NEW id \in Keys, NEW newId, NEW shares, NEW price,
             ProcessDeleteOrder(id) \/ ProcessReplaceOrder(id, newId, shares, price)
      PROVE  [Next]_bookVars
  BY <1>5 DEF ProcessDeleteOrder, ProcessReplaceOrder, Next
<1>6. ASSUME NEW id \in Keys, ProcessForever(id)
      PROVE  [Next]_bookVars
  BY <1>6 DEF ProcessForever, Next
<1>7. CASE ProcessTrade \/ Reject \/ HandlerSpin \/ UNCHANGED handlerVars
  BY <1>1, <1>7 DEF ProcessTrade, Reject, HandlerSpin, Spin, handlerVars
<1> QED
  BY <1>1, <1>2, <1>3, <1>4, <1>5, <1>6, <1>7 DEF HandlerNext

\* Every message keeps the types of what the handler counts and tells.
LEMMA HandlerCountsStep ==
  ASSUME CountsInv, [HandlerNext]_handlerVars
  PROVE  CountsInv'
<1> USE HeldStays DEF EventTypes
<1>1. ASSUME NEW id \in Announced, NEW side \in Sides, NEW price \in Prices,
             NEW shares \in Quantities, ProcessAddOrder(id, side, price, shares)
      PROVE  CountsInv'
  <2>1. id \in Keys /\ astray \ {id} \subseteq Keys
    BY AnnouncedAssumption
  <2>2. [mirror EXCEPT ![id] = shares] \in [Keys -> Held]
    BY <2>1
  <2> QED
    BY <1>1, <2>1, <2>2, FireCounted, SilenceCounted DEF ProcessAddOrder
<1>2. ASSUME NEW id \in Keys, NEW shares \in Quantities, ProcessExecuteOrder(id, shares)
      PROVE  CountsInv'
  BY <1>2, FireCounted, SilenceCounted DEF ProcessExecuteOrder
<1>3. ASSUME NEW id \in Keys, NEW shares \in Quantities, ProcessCancelOrder(id, shares)
      PROVE  CountsInv'
  <2> DEFINE adrift == IF Less(mirror[id], shares) = Null THEN astray \ {id} ELSE astray \cup {id}
  <2>1. adrift \subseteq Keys /\ Reduced(id, shares) \in [Keys -> Held]
    OBVIOUS
  <2>2. Counted /\ (Fires("ORDER_CANCELLED", Reduced(id, shares), adrift) \/ Silent)
    BY <1>3 DEF ProcessCancelOrder
  <2> HIDE DEF adrift
  <2> QED
    BY <2>1, <2>2, FireCounted, SilenceCounted
<1>4. ASSUME NEW id \in Keys, ProcessDeleteOrder(id)
      PROVE  CountsInv'
  BY <1>4, FireCounted, SilenceCounted DEF ProcessDeleteOrder
<1>5. ASSUME NEW id \in Keys, NEW newId \in Keys, NEW shares \in Quantities, NEW price,
             ProcessReplaceOrder(id, newId, shares, price)
      PROVE  CountsInv'
  <2>1. /\ (astray \ {id}) \cup {newId} \subseteq Keys
        /\ [mirror EXCEPT ![id] = Null, ![newId] = shares] \in [Keys -> Held]
    OBVIOUS
  <2> QED
    BY <1>5, <2>1, FireCounted DEF ProcessReplaceOrder
<1>6. CASE ProcessTrade
  BY <1>6, FireCounted DEF ProcessTrade
<1>7. CASE Reject \/ \E id \in Keys : ProcessForever(id)
  BY <1>7, SilenceCounted DEF Reject, ProcessForever
<1>8. CASE HandlerSpin \/ UNCHANGED handlerVars
  BY <1>8, CountsIdle DEF HandlerSpin, handlerVars
<1>9. CASE Reset
  BY <1>9, MaxMessagesAssumption DEF Reset, CountsInv, Held
<1> QED
  BY <1>1, <1>2, <1>3, <1>4, <1>5, <1>6, <1>7, <1>8, <1>9 DEF HandlerNext

\* Both together.
LEMMA HandlerStep ==
  ASSUME HandlerInv, [HandlerNext]_handlerVars
  PROVE  HandlerInv'
BY HandlerBookStep, HandlerCountsStep DEF HandlerInv

\* The book is empty at the start, and nothing was counted.
LEMMA HandlerStart == HandlerInit => HandlerInv
BY InitBookInv, MaxMessagesAssumption DEF HandlerInit, HandlerInv, CountsInv, Held

\* The invariant gives the types.
LEMMA HandlerInvTyped == HandlerInv => HandlerTypeOK
<1> SUFFICES ASSUME HandlerInv
             PROVE  HandlerTypeOK
  OBVIOUS
<1>1. TypeOK
  BY BookInvImplies DEF HandlerInv
<1>2. processed \in 0 .. MaxMessages
  BY MaxMessagesAssumption DEF HandlerInv, CountsInv
<1> QED
  BY <1>1, <1>2 DEF HandlerInv, CountsInv, Held, HandlerTypeOK

(* No more messages count as processed than were counted (a reset between  *)
(* two messages included), and the book and what a subscriber holds keep   *)
(* their types, whatever collides.                                         *)
THEOREM HandlerTyped == HandlerSpec => []HandlerTypeOK
<1>1. HandlerInv /\ [HandlerNext]_handlerVars => HandlerInv'
  BY HandlerStep
<1> QED
  BY <1>1, HandlerStart, HandlerInvTyped, PTL DEF HandlerSpec

-----------------------------------------------------------------------------
(***************************************************************************)
(* Price-time priority.  The keys in the queues that the levels thread     *)
(* through the table are the queues of LimitOrderBook.                     *)
(***************************************************************************)
KeysOf(t, q) == [n \in 1 .. Len(q) |-> t[q[n]].key]

KeyQueues(t, Q) == [side \in Sides |-> [price \in Prices |-> KeysOf(t, Q[side][price])]]

OwedBy(t) == [id \in Keys |-> IF Open(t, id) = Null THEN 0 ELSE Open(t, id)]

\* IdsAt of any table and any levels.
IdsIn(t, lvls, side, price) ==
  LET at   == LevelsOf(lvls[side], price)
      walk == Walk(t, lvls[side][Min(at)])
  IN  IF at = {} THEN <<>> ELSE [n \in DOMAIN walk |-> t[walk[n]].key]

\* The ids read from the levels of a side and price are those of its queue.
LEMMA IdsInIs ==
  ASSUME NEW t, NEW lvls \in [Sides -> Seq(Level)], NEW Q, Represents(t, lvls, Q),
         NEW side \in Sides, NEW price \in Prices
  PROVE  IdsIn(t, lvls, side, price) = KeysOf(t, Q[side][price])
<1> DEFINE at == LevelsOf(lvls[side], price)
           q  == Q[side][price]
<1>1. lvls[side] \in Seq(Level)
  OBVIOUS
<1>2. CASE at = {}
  <2>1. q = <<>>
    BY <1>2 DEF LevelsOf, Represents
  <2>2. KeysOf(t, q) = <<>>
    BY <2>1 DEF KeysOf
  <2> QED
    BY <1>2, <2>2 DEF IdsIn
<1>3. CASE at # {}
  <2> DEFINE i == Min(at)
  <2>1. i \in DOMAIN lvls[side] /\ lvls[side][i].price = price
    BY <1>1, <1>3, MinOfNaturals
  <2>2. IdsIn(t, lvls, side, price) =
          [n \in DOMAIN Walk(t, lvls[side][i]) |-> t[Walk(t, lvls[side][i])[n]].key]
    BY <1>3 DEF IdsIn
  <2> HIDE DEF i, at, q
  <2> DEFINE level == lvls[side][i]
             queue == Q[side][level.price]
  <2>3. queue \in Seq(Slots) /\ Walk(t, level) = queue
    <3>1. ListsQueue(t, side, level, Q)
      BY <2>1, LevelQueue
    <3> QED
      BY <3>1 DEF ListsQueue
  <2>4. queue = q
    BY <2>1 DEF q
  <2> HIDE DEF level, queue
  <2>5. Walk(t, level) = q /\ DOMAIN q = 1 .. Len(q)
    BY <2>3, <2>4
  <2> QED
    BY <2>2, <2>5 DEF KeysOf, level, q
<1> QED
  BY <1>2, <1>3

\* The ids along a queue, element by element.
LEMMA KeysOfIs ==
  ASSUME NEW t, NEW q \in Seq(Slots), NEW T, \A n \in 1 .. Len(q) : t[q[n]].key \in T
  PROVE  /\ KeysOf(t, q) \in Seq(T) /\ Len(KeysOf(t, q)) = Len(q)
         /\ \A n \in 1 .. Len(q) : KeysOf(t, q)[n] = t[q[n]].key
<1> DEFINE N == Len(q)
<1>1. N \in Nat
  OBVIOUS
<1>2. KeysOf(t, q) \in [1 .. N -> T]
  BY DEF KeysOf
<1> HIDE DEF N
<1>3. KeysOf(t, q) \in Seq(T) /\ Len(KeysOf(t, q)) = N
  BY <1>1, <1>2
<1> QED
  BY <1>3 DEF KeysOf, N

\* G is F, with v for one side and price.
Exchanged(F, G, side, price, v) == G = [F EXCEPT ![side][price] = v]

\* The queues after an exchange of one of them that leaves the other keys alone.
LEMMA KeyQueuesExchanged ==
  ASSUME NEW t, NEW u, NEW Q \in [Sides -> [Prices -> Seq(Slots)]], NEW side \in Sides,
         NEW price \in Prices, NEW q \in Seq(Slots), NEW P, Exchanged(Q, P, side, price, q),
         \A s \in Sides, c \in Prices : ~(s = side /\ c = price) =>
           \A n \in 1 .. Len(Q[s][c]) : u[Q[s][c][n]].key = t[Q[s][c][n]].key
  PROVE  Exchanged(KeyQueues(t, Q), KeyQueues(u, P), side, price, KeysOf(u, q))
<1> DEFINE before == KeyQueues(t, Q)
           after  == KeyQueues(u, P)
           v      == KeysOf(u, q)
<1>1. \A s \in Sides, c \in Prices : P[s][c] = IF s = side /\ c = price THEN q ELSE Q[s][c]
  BY QueueExchanged DEF Exchanged
<1>2. ASSUME NEW s \in Sides, NEW c \in Prices, ~(s = side /\ c = price)
      PROVE  KeysOf(u, P[s][c]) = KeysOf(t, Q[s][c])
  BY <1>1, <1>2 DEF KeysOf
<1>3. KeysOf(u, P[side][price]) = v
  BY <1>1
<1>4. /\ before = [s \in Sides |-> before[s]] /\ after = [s \in Sides |-> after[s]]
      /\ \A s \in Sides : /\ before[s] = [c \in Prices |-> KeysOf(t, Q[s][c])]
                           /\ after[s] = [c \in Prices |-> KeysOf(u, P[s][c])]
  BY DEF KeyQueues
<1> HIDE DEF before, after, v
<1>5. \A s \in Sides : s # side => after[s] = before[s]
  BY <1>2, <1>4
<1>6. after[side] = [before[side] EXCEPT ![price] = v]
  <2>1. \A c \in Prices : KeysOf(u, P[side][c]) = IF c = price THEN v ELSE KeysOf(t, Q[side][c])
    BY <1>2, <1>3
  <2> QED
    BY <1>4, <2>1
<1>7. after = [before EXCEPT ![side] = [before[side] EXCEPT ![price] = v]]
  BY <1>4, <1>5, <1>6
<1> QED
  BY <1>7 DEF Exchanged, before, after, v

\* An id rests in a queue when the table holds it, and then in one place.
LEMMA KeyQueued ==
  ASSUME NEW t, Settled(t), Occupied(t) \subseteq Used(t), NEW lvls, NEW Q, Represents(t, lvls, Q),
         NEW id \in Keys
  PROVE  Holds(t, id) <=>
           \E side \in Sides, price \in Prices : id \in ToSet(KeyQueues(t, Q)[side][price])
<1>1. \A side \in Sides, price \in Prices :
        /\ KeyQueues(t, Q)[side][price] = KeysOf(t, Q[side][price])
        /\ Queued(t, side, price, Q[side][price])
  BY DEF KeyQueues, Represents
<1>2. ASSUME NEW side \in Sides, NEW price \in Prices, id \in ToSet(KeyQueues(t, Q)[side][price])
      PROVE  Holds(t, id)
  <2> DEFINE q == Q[side][price]
  <2>1. Queued(t, side, price, q) /\ id \in ToSet(KeysOf(t, q))
    BY <1>1, <1>2
  <2> HIDE DEF q
  <2>2. PICK n \in 1 .. Len(q) : t[q[n]].key = id
    BY <2>1 DEF ToSet, KeysOf
  <2>3. q[n] \in Occupied(t)
    BY <2>1, QueuedAt
  <2> QED
    BY <2>2, <2>3, SettledHolds
<1>3. ASSUME Holds(t, id)
      PROVE  \E side \in Sides, price \in Prices : id \in ToSet(KeyQueues(t, Q)[side][price])
  <2> DEFINE p     == Natural(id)
             side  == t[p].order.side
             price == t[p].order.price
             q     == Q[side][price]
  <2>1. p \in Occupied(t) /\ p \in Slots /\ t[p].key = id
    BY <1>3, NaturalIsSlot DEF Holds, Occupied
  <2>2. side \in Sides /\ price \in Prices
    BY <2>1 DEF Used, Order
  <2>3. p \in OrdersIn(t, side, price)
    BY <2>1 DEF OrdersIn
  <2> HIDE DEF side, price, p
  <2>4. PICK n \in 1 .. Len(q) : q[n] = p
    BY <1>1, <2>1, <2>2, <2>3 DEF Queued
  <2>5. KeyQueues(t, Q)[side][price] = KeysOf(t, q)
    BY <1>1, <2>2
  <2>6. id \in ToSet(KeysOf(t, q))
    BY <2>1, <2>4 DEF ToSet, KeysOf
  <2> QED
    BY <2>2, <2>5, <2>6
<1> QED
  BY <1>2, <1>3
\* A table and its levels as LimitOrderBook sees them.
ShownQueue(t, lvls) == [side \in Sides |-> [price \in Prices |-> IdsIn(t, lvls, side, price)]]

ShownRemaining(t) ==
  [id \in Keys |-> IF Find(t, id) = Null THEN 0 ELSE t[Find(t, id)].order.remaining]

\* A book whose lists are queues Q and whose entries lie in their natural slots.
Faithful(t, lvls, Q) ==
  /\ GoodTable(t) /\ Settled(t) /\ StoredIn(t, Keys)
  /\ lvls \in [Sides -> Seq(Level)] /\ Represents(t, lvls, Q)

\* What the book shows through its lists is what the queues say.
LEMMA ShownIs ==
  ASSUME CollisionFree(Keys), NEW t, NEW lvls, NEW Q, Faithful(t, lvls, Q)
  PROVE  ShownQueue(t, lvls) = KeyQueues(t, Q) /\ ShownRemaining(t) = OwedBy(t)
<1>1. /\ lvls \in [Sides -> Seq(Level)] /\ Keyed(t) /\ Occupied(t) \subseteq Used(t)
      /\ Settled(t) /\ StoredIn(t, Keys) /\ Represents(t, lvls, Q)
  BY DEF Faithful, GoodTable
<1>2. ASSUME NEW side \in Sides, NEW price \in Prices
      PROVE  IdsIn(t, lvls, side, price) = KeysOf(t, Q[side][price])
  BY <1>1, IdsInIs
<1>3. ASSUME NEW id \in Keys
      PROVE  (IF Find(t, id) = Null THEN 0 ELSE t[Find(t, id)].order.remaining) =
               IF Open(t, id) = Null THEN 0 ELSE Open(t, id)
  <2>1. ProbeEnds(t, id)
    BY <1>1, SettledProbe
  <2>2. Find(t, id) = IF Holds(t, id) THEN Natural(id) ELSE Null
    BY <1>1, <2>1, SettledFind
  <2>3. Natural(id) \in Slots /\ Null \notin Slots
    BY NaturalIsSlot, NullAssumption
  <2>4. Holds(t, id) => Open(t, id) # Null
    BY <1>1, OpenTyped
  <2> QED
    BY <2>2, <2>3, <2>4 DEF Open
<1> QED
  BY <1>2, <1>3 DEF KeyQueues, OwedBy, ShownQueue, ShownRemaining

\* What a new order changes in the queues and quantities.
LEMMA AddedShown ==
  ASSUME NEW t, NEW u, NEW lvls, NEW Q, Faithful(t, lvls, Q), NEW id \in Keys,
         NEW side \in Sides, NEW price \in Prices, NEW qty \in Nat,
         Added(t, u, Natural(id), id, side, price, qty)
  PROVE  /\ KeyQueues(u, [Q EXCEPT ![side][price] = Append(Q[side][price], Natural(id))]) =
              [KeyQueues(t, Q) EXCEPT ![side][price] = Append(KeyQueues(t, Q)[side][price], id)]
         /\ OwedBy(u) = [OwedBy(t) EXCEPT ![id] = qty]
         /\ ~\E s \in Sides, c \in Prices : id \in ToSet(KeyQueues(t, Q)[s][c])
<1> DEFINE q == Q[side][price]
           p == Natural(id)
           r == Append(q, p)
<1>1. /\ Occupied(t) \subseteq Used(t) /\ Settled(t) /\ Represents(t, lvls, Q)
      /\ Q \in [Sides -> [Prices -> Seq(Slots)]] /\ q \in Seq(Slots) /\ p \in Slots
  BY NaturalIsSlot DEF Faithful, GoodTable, Represents
<1>2. \A s \in Sides, c \in Prices : \A n \in 1 .. Len(Q[s][c]) : Q[s][c][n] \in Occupied(t)
  BY <1>1, QueuedAt DEF Represents
<1>3. \A s \in Sides, c \in Prices : \A n \in 1 .. Len(Q[s][c]) :
        u[Q[s][c][n]].key = t[Q[s][c][n]].key
  BY <1>2 DEF Added
<1>4. /\ Len(q) \in Nat /\ r \in Seq(Slots) /\ Len(r) = Len(q) + 1 /\ r[Len(q) + 1] = p
      /\ \A n \in 1 .. Len(q) : r[n] = q[n]
  BY <1>1, AppendProperties
<1>5. KeysOf(u, r) = Append(KeysOf(t, q), id)
  <2> DEFINE K    == KeysOf(t, q)
             T    == {t[q[n]].key : n \in 1 .. Len(q)} \cup {id}
             more == Append(K, id)
  <2>1. u[p].key = id /\ \A n \in 1 .. Len(q) : u[q[n]].key = t[q[n]].key
    BY <1>3 DEF Added
  <2>2. id \in T /\ \A n \in 1 .. Len(q) : t[q[n]].key \in T
    OBVIOUS
  <2> HIDE DEF T, q
  <2>3. K \in Seq(T) /\ Len(K) = Len(q) /\ \A n \in 1 .. Len(q) : K[n] = t[q[n]].key
    BY <1>1, <2>2, KeysOfIs
  <2> HIDE DEF K, r
  <2>4. /\ more \in Seq(T) /\ Len(more) = Len(q) + 1 /\ more[Len(q) + 1] = id
        /\ \A n \in 1 .. Len(q) : more[n] = K[n]
    BY <2>2, <2>3, AppendProperties
  <2> HIDE DEF more
  <2>5. \A n \in 1 .. Len(q) + 1 : u[r[n]].key = more[n]
    BY <1>4, <2>1, <2>3, <2>4
  <2>6. KeysOf(u, r) = [n \in 1 .. Len(q) + 1 |-> u[r[n]].key]
    BY <1>4 DEF KeysOf
  <2>7. more = [n \in 1 .. Len(q) + 1 |-> more[n]]
    BY <2>4
  <2> QED
    BY <2>5, <2>6, <2>7 DEF more, K
<1>6. KeyQueues(t, Q)[side][price] = KeysOf(t, q)
  BY DEF KeyQueues
<1> DEFINE P == [Q EXCEPT ![side][price] = r]
<1>7. Exchanged(KeyQueues(t, Q), KeyQueues(u, P), side, price, KeysOf(u, r))
  <2>1. Exchanged(Q, P, side, price, r)
    BY DEF Exchanged
  <2> HIDE DEF P, r, q
  <2> QED
    BY <1>1, <1>3, <1>4, <2>1, KeyQueuesExchanged
<1>8. OwedBy(u) = [OwedBy(t) EXCEPT ![id] = qty]
  <2>1. \A k \in Keys : Open(u, k) = IF k = id THEN qty ELSE Open(t, k)
    BY AddedOpen
  <2>2. qty # Null
    BY NullIsNoNumber
  <2> QED
    BY <2>1, <2>2 DEF OwedBy
<1>9. ~Holds(t, id)
  BY <1>1 DEF Added, Holds, Occupied
<1>10. ~\E s \in Sides, c \in Prices : id \in ToSet(KeyQueues(t, Q)[s][c])
  BY <1>1, <1>9, KeyQueued
<1> QED
  BY <1>5, <1>6, <1>7, <1>8, <1>10 DEF Exchanged

\* Q without p at k in the queue of side and price.
QueuesWithout(Q, side, price, k) ==
  [Q EXCEPT ![side][price] = RemoveAt(Q[side][price], k)]

\* In the step from t and Q to u and P, id leaves the k-th place of a queue.
LeavesPlace(t, Q, u, P, id, side, price, k) ==
  /\ KeyQueues(u, P) =
       [KeyQueues(t, Q) EXCEPT ![side][price] = RemoveAt(KeyQueues(t, Q)[side][price], k)]
  /\ OwedBy(u) = [OwedBy(t) EXCEPT ![id] = 0]
  /\ k \in DOMAIN KeyQueues(t, Q)[side][price] /\ KeyQueues(t, Q)[side][price][k] = id

\* What an order that leaves changes in the queues and quantities.
LEMMA RemovedShown ==
  ASSUME NEW t, NEW u, NEW lvls, NEW Q, Faithful(t, lvls, Q), NEW id \in Keys,
         Removed(t, u, Natural(id)), t[Natural(id)].key = id,
         NEW side \in Sides, NEW price \in Prices, NEW k \in 1 .. Len(Q[side][price]),
         Q[side][price][k] = Natural(id),
         NEW lvls2, Represents(u, lvls2, QueuesWithout(Q, side, price, k))
  PROVE  LeavesPlace(t, Q, u, QueuesWithout(Q, side, price, k), id, side, price, k)
<1> DEFINE q == Q[side][price]
           p == Natural(id)
           r == RemoveAt(q, k)
           P == QueuesWithout(Q, side, price, k)
<1>1. /\ Q \in [Sides -> [Prices -> Seq(Slots)]] /\ q \in Seq(Slots)
      /\ DOMAIN q = 1 .. Len(q) /\ Len(q) \in Nat
  BY DEF Faithful, Represents
<1>2. /\ r \in Seq(Slots) /\ Len(r) = Len(q) - 1
      /\ \A j \in 1 .. Len(q) - 1 : r[j] = IF j < k THEN q[j] ELSE q[j + 1]
  BY <1>1, RemoveAtIs
<1>3. P = [Q EXCEPT ![side][price] = r]
  BY DEF QueuesWithout
<1> HIDE DEF r, P
<1>4. \A s \in Sides, c \in Prices : P[s][c] = IF s = side /\ c = price THEN r ELSE Q[s][c]
  BY <1>1, <1>2, <1>3, QueueExchanged
<1>5. \A s \in Sides, c \in Prices : Queued(u, s, c, P[s][c])
  BY DEF Represents, P
<1>6. \A s \in Sides, c \in Prices : \A n \in 1 .. Len(P[s][c]) : P[s][c][n] \in Occupied(u)
  BY <1>5, QueuedAt
<1>7. \A s \in Sides, c \in Prices : \A n \in 1 .. Len(P[s][c]) :
        u[P[s][c][n]].key = t[P[s][c][n]].key
  BY <1>6 DEF Removed
<1>8. KeysOf(u, r) = RemoveAt(KeysOf(t, q), k)
  <2> DEFINE K    == KeysOf(t, q)
             T    == {t[q[n]].key : n \in 1 .. Len(q)}
             less == RemoveAt(K, k)
  <2>1. K \in Seq(T) /\ Len(K) = Len(q) /\ \A n \in 1 .. Len(q) : K[n] = t[q[n]].key
    <3>1. \A n \in 1 .. Len(q) : t[q[n]].key \in T
      OBVIOUS
    <3> HIDE DEF T, q
    <3> QED
      BY <1>1, <3>1, KeysOfIs
  <2> HIDE DEF K, T
  <2>2. k \in DOMAIN K
    BY <1>1, <2>1
  <2>3. /\ less \in Seq(T) /\ Len(less) = Len(K) - 1
        /\ \A j \in 1 .. Len(K) - 1 : less[j] = IF j < k THEN K[j] ELSE K[j + 1]
    BY ONLY <2>1, <2>2, RemoveAtIs
  <2> HIDE DEF less
  <2>4. \A j \in 1 .. Len(q) - 1 : u[r[j]].key = t[r[j]].key
    BY <1>2, <1>4, <1>7
  <2>5. ASSUME NEW j \in 1 .. Len(q) - 1
        PROVE  u[r[j]].key = less[j]
    <3>1. j \in 1 .. Len(q) /\ j + 1 \in 1 .. Len(q)
      BY <1>1
    <3>2. u[r[j]].key = t[r[j]].key
      BY <2>4
    <3>3. CASE j < k
      BY <1>2, <2>1, <2>3, <3>1, <3>2, <3>3
    <3>4. CASE ~(j < k)
      BY <1>2, <2>1, <2>3, <3>1, <3>2, <3>4
    <3> QED
      BY <3>3, <3>4
  <2>6. KeysOf(u, r) = [n \in 1 .. Len(q) - 1 |-> u[r[n]].key]
    BY <1>2 DEF KeysOf
  <2>7. less = [n \in 1 .. Len(q) - 1 |-> less[n]]
    BY <2>1, <2>3
  <2> QED
    BY <2>5, <2>6, <2>7 DEF less, K
<1>9. KeyQueues(t, Q)[side][price] = KeysOf(t, q)
  BY DEF KeyQueues
<1>10. Exchanged(KeyQueues(t, Q), KeyQueues(u, P), side, price, KeysOf(u, r))
  <2>1. \A s \in Sides, c \in Prices : ~(s = side /\ c = price) =>
          \A n \in 1 .. Len(Q[s][c]) : u[Q[s][c][n]].key = t[Q[s][c][n]].key
    BY <1>4, <1>7
  <2>2. Exchanged(Q, P, side, price, r)
    BY <1>3 DEF Exchanged
  <2> HIDE DEF q
  <2> QED
    BY <1>1, <1>2, <2>1, <2>2, KeyQueuesExchanged
<1>11. OwedBy(u) = [OwedBy(t) EXCEPT ![id] = 0]
  <2>1. \A j \in Keys : Open(u, j) = IF j = id THEN Null ELSE Open(t, j)
    BY RemovedOpen
  <2> QED
    BY <2>1 DEF OwedBy
<1>12. k \in DOMAIN KeysOf(t, q) /\ KeysOf(t, q)[k] = id
  BY <1>1 DEF KeysOf
<1> QED
  BY <1>8, <1>9, <1>10, <1>11, <1>12 DEF P, Exchanged, LeavesPlace
\* In a book with such queues each list shows its queue.
LEMMA FaithfulBook ==
  ASSUME BookInv, NEW Q, Settled(slots), StoredIn(slots, Keys), Represents(slots, levels, Q)
  PROVE  Faithful(slots, levels, Q)
BY DEF BookInv, GoodBook, Faithful

\* The refinement mapping of Book, in this state and in the next.
LEMMA ShownBook ==
  /\ RestingIds = ShownQueue(slots, levels) /\ OpenQuantities = ShownRemaining(slots)
  /\ RestingIds' = ShownQueue(slots', levels') /\ OpenQuantities' = ShownRemaining(slots')
BY DEF RestingIds, OpenQuantities, IdsAt, IdsIn, ShownQueue, ShownRemaining, Found

\* add_order is the abstract book's Add,
LEMMA AddIsAdd ==
  ASSUME CollisionFree(Keys), BookInv, ListInv(Keys), BookInv',
         NEW id \in Keys, NEW side \in Sides, NEW price \in Prices,
         NEW qty \in Quantities, AddOrder(id, side, price, qty)
  PROVE  Book!Add(id, side, price, qty)
<1>1. PICK Q : Represents(slots, levels, Q)
  BY DEF ListInv
<1> DEFINE P == [Q EXCEPT ![side][price] = Append(Q[side][price], Natural(id))]
<1>2. Settled(slots) /\ StoredIn(slots, Keys) /\ Faithful(slots, levels, Q)
  BY <1>1, FaithfulBook DEF ListInv
<1>3. /\ Added(slots, slots', Natural(id), id, side, price, qty)
      /\ Settled(slots') /\ StoredIn(slots', Keys) /\ Represents(slots', levels', P)
  BY <1>1, <1>2, AddOrderEffect
<1>4. Faithful(slots', levels', P)
  BY <1>3 DEF BookInv, GoodBook, Faithful
<1>5. /\ ShownQueue(slots, levels) = KeyQueues(slots, Q)
      /\ ShownRemaining(slots) = OwedBy(slots)
      /\ ShownQueue(slots', levels') = KeyQueues(slots', P)
      /\ ShownRemaining(slots') = OwedBy(slots')
  <2> HIDE DEF P
  <2> QED
    BY <1>2, <1>4, ShownIs
<1>6. qty \in Nat
  BY QuantityAssumption
<1>7. /\ KeyQueues(slots', P) =
           [KeyQueues(slots, Q) EXCEPT ![side][price] = Append(KeyQueues(slots, Q)[side][price], id)]
      /\ OwedBy(slots') = [OwedBy(slots) EXCEPT ![id] = qty]
      /\ ~\E s \in Sides, c \in Prices : id \in ToSet(KeyQueues(slots, Q)[s][c])
  BY ONLY <1>2, <1>3, <1>6, id \in Keys, side \in Sides, price \in Prices, AddedShown
<1>8. size' = size + 1
  BY DEF AddOrder
<1>9. /\ RestingIds = KeyQueues(slots, Q) /\ RestingIds' = KeyQueues(slots', P)
      /\ OpenQuantities = OwedBy(slots) /\ OpenQuantities' = OwedBy(slots')
  BY <1>5, ShownBook
<1> HIDE DEF P
<1>10. /\ RestingIds' = [RestingIds EXCEPT ![side][price] = Append(RestingIds[side][price], id)]
       /\ OpenQuantities' = [OpenQuantities EXCEPT ![id] = qty]
       /\ ~\E s \in Sides, c \in Prices : id \in ToSet(RestingIds[s][c])
  BY <1>7, <1>9
<1> QED
  BY <1>8, <1>10 DEF Book!Add, Book!Resting, Book!RestsAt, Book!ToSet, ToSet

\* An order that leaves the book leaves LimitOrderBook.
LEMMA RemovalIsLeave ==
  ASSUME CollisionFree(Keys), BookInv, ListInv(Keys), BookInv', NEW id \in Keys,
         NEW Q, Represents(slots, levels, Q),
         Removed(slots, slots', Natural(id)), slots[Natural(id)].key = id, Settled(slots'),
         NEW side \in Sides, NEW price \in Prices,
         RepresentsWithout(slots', levels', Q, side, price, Natural(id)),
         size' = size - 1
  PROVE  Book!Leave(id)
<1>1. PICK k \in 1 .. Len(Q[side][price]) :
        /\ Q[side][price][k] = Natural(id)
        /\ Represents(slots', levels', QueuesWithout(Q, side, price, k))
  BY DEF RepresentsWithout, QueuesWithout
<1> DEFINE P == QueuesWithout(Q, side, price, k)
<1>2. Faithful(slots, levels, Q)
  BY FaithfulBook DEF ListInv
<1>3. Represents(slots', levels', P) /\ StoredIn(slots', Keys)
  BY <1>1, RemovedStored DEF ListInv
<1>4. Faithful(slots', levels', P)
  BY <1>3 DEF BookInv, GoodBook, Faithful
<1> HIDE DEF P
<1>5. /\ ShownQueue(slots, levels) = KeyQueues(slots, Q)
      /\ ShownRemaining(slots) = OwedBy(slots)
      /\ ShownQueue(slots', levels') = KeyQueues(slots', P)
      /\ ShownRemaining(slots') = OwedBy(slots')
  BY <1>2, <1>4, ShownIs
<1>6. /\ KeyQueues(slots', P) =
           [KeyQueues(slots, Q) EXCEPT ![side][price] = RemoveAt(KeyQueues(slots, Q)[side][price], k)]
      /\ OwedBy(slots') = [OwedBy(slots) EXCEPT ![id] = 0]
      /\ k \in DOMAIN KeyQueues(slots, Q)[side][price] /\ KeyQueues(slots, Q)[side][price][k] = id
  <2>1. LeavesPlace(slots, Q, slots', P, id, side, price, k)
    BY <1>1, <1>2, RemovedShown DEF P
  <2> QED
    BY <2>1 DEF LeavesPlace
<1>7. /\ RestingIds = KeyQueues(slots, Q) /\ RestingIds' = KeyQueues(slots', P)
      /\ OpenQuantities = OwedBy(slots) /\ OpenQuantities' = OwedBy(slots')
  BY <1>5, ShownBook
<1>8. /\ RestingIds' = [RestingIds EXCEPT ![side][price] = RemoveAt(RestingIds[side][price], k)]
      /\ OpenQuantities' = [OpenQuantities EXCEPT ![id] = 0]
      /\ k \in DOMAIN RestingIds[side][price] /\ RestingIds[side][price][k] = id
  BY <1>6, <1>7
<1> QED
  BY <1>8 DEF Book!Leave, Book!RemoveAt, RemoveAt

\* cancel_order its Leave,
LEMMA CancelIsLeave ==
  ASSUME CollisionFree(Keys), BookInv, ListInv(Keys), BookInv', NEW id \in Keys, CancelOrder(id)
  PROVE  Book!Leave(id)
<1>1. PICK Q : Represents(slots, levels, Q)
  BY DEF ListInv
<1> DEFINE p == Natural(id)
<1>2. Settled(slots)
  BY DEF ListInv
<1>3. /\ slots[p].key = id /\ Removed(slots, slots', p) /\ Settled(slots')
      /\ \E side \in Sides, price \in Prices :
           RepresentsWithout(slots', levels', Q, side, price, p)
  BY <1>1, <1>2, CancelOrderEffect
<1>4. size' = size - 1
  BY DEF CancelOrder
<1> QED
  BY <1>1, <1>3, <1>4, RemovalIsLeave

\* An execution is a Fill or, when nothing is left, an Exhaust.
LEMMA ExecuteIsFill ==
  ASSUME CollisionFree(Keys), BookInv, ListInv(Keys), BookInv', NEW id \in Keys,
         NEW qty \in Quantities, ExecuteOrder(id, qty)
  PROVE  Book!Fill(id, qty) \/ Book!Exhaust(id, qty)
<1>1. PICK Q : Represents(slots, levels, Q)
  BY DEF ListInv
<1> DEFINE p    == Natural(id)
           open == slots[p].order.remaining
           left == Left(id, qty)
<1>2. Settled(slots) /\ StoredIn(slots, Keys) /\ Faithful(slots, levels, Q)
  BY <1>1, FaithfulBook DEF ListInv
<1>3. /\ p \in Occupied(slots) /\ slots[p].key = id /\ Found(id) = p
      /\ Settled(slots') /\ open # 0
      /\ left = 0 =>
           /\ Removed(slots, slots', p) /\ size' = size - 1
           /\ \E side \in Sides, price \in Prices :
                RepresentsWithout(slots', levels', Q, side, price, p)
      /\ left # 0 =>
           /\ slots' = Filled(slots, p, left) /\ UNCHANGED <<levels, size>>
           /\ Represents(slots', levels', Q)
  BY <1>1, <1>2, ExecuteOrderEffect
<1>4. ProbeEnds(slots, id) /\ Found(id) # Null
  BY DEF ExecuteOrder
<1>5. /\ open \in 0 .. QtyModulus - 1 /\ left \in 0 .. QtyModulus - 1
      /\ left = IF qty <= open THEN open - qty ELSE 0
  BY <1>3, <1>4, LeftIs
<1>6. qty \in Nat /\ open \in Nat /\ open > 0
  BY <1>3, <1>5, QuantityAssumption
<1>7. Holds(slots, id)
  BY <1>3 DEF Holds, Occupied
<1>8. ShownQueue(slots, levels) = KeyQueues(slots, Q) /\ ShownRemaining(slots) = OwedBy(slots)
  BY <1>2, ShownIs
<1>9. RestingIds = KeyQueues(slots, Q) /\ OpenQuantities = OwedBy(slots)
  BY <1>8, ShownBook
<1>10. GoodTable(slots) /\ Occupied(slots) \subseteq Used(slots)
  BY DEF BookInv, GoodBook, GoodTable
<1>11. OpenQuantities[id] = open
  <2>1. Open(slots, id) = open /\ open # Null
    BY <1>6, <1>7, NullIsNoNumber DEF Open
  <2> QED
    BY <1>9, <2>1 DEF OwedBy
<1>12. CASE left = 0
  <2>1. Book!Leave(id)
    BY <1>1, <1>3, <1>12, RemovalIsLeave
  <2>2. qty >= open
    BY <1>5, <1>6, <1>12
  <2> QED
    BY <1>6, <1>11, <2>1, <2>2 DEF Book!Exhaust
<1>13. CASE left # 0
  <2>1. /\ slots' = Filled(slots, p, left) /\ levels' = levels /\ size' = size
        /\ Represents(slots', levels', Q)
    BY <1>3, <1>13
  <2>2. qty < open /\ left = open - qty
    BY <1>5, <1>6, <1>13
  <2>3. p \in Used(slots)
    BY <1>3, <1>10
  <2>4. /\ SameKeys(slots, slots') /\ Occupied(slots') = Occupied(slots)
        /\ \A i \in Slots : slots'[i].key = slots[i].key
    BY <1>5, <1>10, <2>1, <2>3, FilledGood DEF SameKeys
  <2>5. StoredIn(slots', Keys)
    BY <1>2, <2>4 DEF StoredIn, Occupied
  <2>6. Faithful(slots', levels', Q)
    BY <1>3, <2>1, <2>5 DEF BookInv, GoodBook, Faithful
  <2>7. RestingIds' = KeyQueues(slots', Q) /\ OpenQuantities' = OwedBy(slots')
    <3>1. ShownQueue(slots', levels') = KeyQueues(slots', Q)
          /\ ShownRemaining(slots') = OwedBy(slots')
      BY <2>6, ShownIs
    <3> QED
      BY <3>1, ShownBook
  <2>8. KeyQueues(slots', Q) = KeyQueues(slots, Q)
    <3>1. ASSUME NEW side \in Sides, NEW price \in Prices
          PROVE  KeysOf(slots', Q[side][price]) = KeysOf(slots, Q[side][price])
      <4>1. Q[side][price] \in Seq(Slots)
        BY <1>1 DEF Represents
      <4> QED
        BY <2>4, <4>1 DEF KeysOf
    <3> QED
      BY <3>1 DEF KeyQueues
  <2>9. OwedBy(slots') = [OwedBy(slots) EXCEPT ![id] = @ - qty]
    <3>1. \A k \in Keys : Open(slots', k) = IF k = id THEN left ELSE Open(slots, k)
      BY <1>5, <1>7, <1>10, <2>1, <2>3, FilledOpen
    <3>2. left \in Nat /\ left # Null
      BY <1>5, QuantityAssumption, NullIsNoNumber
    <3>3. OwedBy(slots)[id] = open
      BY <1>9, <1>11
    <3> HIDE DEF left, open
    <3> QED
      BY <2>2, <3>1, <3>2, <3>3 DEF OwedBy
  <2>10. /\ qty < OpenQuantities[id]
         /\ OpenQuantities' = [OpenQuantities EXCEPT ![id] = @ - qty]
         /\ RestingIds' = RestingIds /\ size' = size
    BY <1>9, <1>11, <2>1, <2>2, <2>7, <2>8, <2>9
  <2>11. \E side \in Sides, price \in Prices : id \in ToSet(RestingIds[side][price])
    <3>1. \E side \in Sides, price \in Prices : id \in ToSet(KeyQueues(slots, Q)[side][price])
      BY <1>1, <1>2, <1>7, <1>10, KeyQueued
    <3> QED
      BY <1>9, <3>1
  <2> QED
    BY <2>10, <2>11 DEF Book!Fill, Book!Resting, Book!RestsAt, Book!ToSet, ToSet
<1> QED
  BY <1>12, <1>13

\* The empty book.
LEMMA InitIsInit == CollisionFree(Keys) /\ Init => Book!Init
<1> SUFFICES ASSUME CollisionFree(Keys), Init
             PROVE  Book!Init
  OBVIOUS
<1>1. /\ slots = EmptyTable /\ levels = EmptyLevels /\ size = 0
  BY DEF Init, EmptyLevels
<1>2. GoodTable(slots) /\ levels \in [Sides -> Seq(Level)]
  BY InitBookInv DEF BookInv, GoodBook
<1>3. /\ Settled(slots) /\ Occupied(slots) = {} /\ Represents(slots, levels, EmptyQueues)
  BY <1>1, EmptyRepresents
<1>4. Faithful(slots, levels, EmptyQueues)
  BY <1>2, <1>3 DEF Faithful, StoredIn
<1>5. RestingIds = KeyQueues(slots, EmptyQueues) /\ OpenQuantities = OwedBy(slots)
  BY <1>4, ShownIs, ShownBook
<1>6. KeyQueues(slots, EmptyQueues) = [side \in Sides |-> [price \in Prices |-> <<>>]]
  BY DEF KeyQueues, EmptyQueues, KeysOf
<1>7. OwedBy(slots) = [id \in Keys |-> 0]
  <2>1. \A id \in Keys : Open(slots, id) = Null
    BY <1>3, NaturalIsSlot DEF Open, Holds, Occupied
  <2> QED
    BY <2>1 DEF OwedBy
<1> QED
  BY <1>1, <1>5, <1>6, <1>7 DEF Book!Init

\* A step that leaves the book alone.
LEMMA StayIsStutter ==
  ASSUME UNCHANGED <<slots, size, levels>>
  PROVE  UNCHANGED Book!vars
BY ShownBook DEF Book!vars

\* and every method one of its steps or none.
LEMMA StepIsStep ==
  ASSUME CollisionFree(Keys), BookInv, ListInv(Keys), BookInv', [Next]_bookVars
  PROVE  [Book!Next]_Book!vars
<1>1. ASSUME NEW id \in Keys, NEW side \in Sides, NEW price \in Prices, NEW qty \in Quantities,
             AddOrder(id, side, price, qty)
      PROVE  Book!Next
  BY <1>1, AddIsAdd DEF Book!Next
<1>2. ASSUME NEW id \in Keys, CancelOrder(id)
      PROVE  Book!Next
  BY <1>2, CancelIsLeave DEF Book!Next
<1>3. ASSUME NEW id \in Keys, NEW qty \in Quantities, ExecuteOrder(id, qty)
      PROVE  Book!Next
  BY <1>3, ExecuteIsFill DEF Book!Next
<1>4. CASE UNCHANGED <<slots, size, levels>>
  BY <1>4, StayIsStutter
<1> QED
  BY <1>1, <1>2, <1>3, <1>4 DEF Next, Spin, ProbeForever, bookVars

(* Over ids that do not collide, the book is a price-time priority book:   *)
(* whatever is added, cancelled and executed, orders rest in queues in     *)
(* the order of their arrival and leave none but their own place, and      *)
(* every operation is one step of LimitOrderBook.                          *)
THEOREM BookImplementsLimitOrderBook ==
  ASSUME CollisionFree(Keys)
  PROVE  Spec => ImplementsLimitOrderBook
<1>1. Init => ListInv(Keys)
  BY EmptyListInv DEF Init, EmptyLevels
<1>2. BookInv /\ ListInv(Keys) /\ [Next]_bookVars => ListInv(Keys)'
  BY StepListInv
<1>3. Init => Book!Init
  BY InitIsInit
<1>4. BookInv /\ BookInv' /\ ListInv(Keys) /\ [Next]_bookVars => [Book!Next]_Book!vars
  BY StepIsStep
<1> QED
  BY <1>1, <1>2, <1>3, <1>4, BookInvariant, PTL DEF Spec, ImplementsLimitOrderBook, Book!Spec

===============================================================================
