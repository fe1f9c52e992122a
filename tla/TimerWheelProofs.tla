--------------------------- MODULE TimerWheelProofs ---------------------------
(***************************************************************************)
(* TimerWheel for every interval, every number of buckets and every number *)
(* of timers.                                                              *)
(***************************************************************************)
EXTENDS TimerWheel, SequenceTheorems, TLAPS

Timers(w) == UNION {ToSet(w[b]) : b \in Buckets}

Ids(w) == {timer.id : timer \in Timers(w)}

InPlace(w) ==
  \A b \in Buckets : \A i \in DOMAIN w[b] : Bucket(w[b][i].expire) = b

OneNode(w) ==
  \A b, c \in Buckets : \A i \in DOMAIN w[b], j \in DOMAIN w[c] :
    w[b][i].id = w[c][j].id => b = c /\ i = j

Good(w) == w \in [Buckets -> Seq(Timer)] /\ InPlace(w) /\ OneNode(w)

(* What tick has walked of the bucket it scans is not due yet.             *)
Walking ==
  /\ ticking # "idle" =>
       /\ currentTick <= until
       /\ \A i \in DOMAIN Scanned : i < at => Scanned[i].expire > until
  /\ ticking = "callback" => at \in DOMAIN Scanned

Fates ==
  /\ nextId # 0
  /\ Ids(wheels) \cup fired \cup cancelled \cup cleared = 1 .. nextId - 1
  /\ Ids(wheels) \cap fired = {} /\ Ids(wheels) \cap cancelled = {}
  /\ Ids(wheels) \cap cleared = {} /\ fired \cap cancelled = {}
  /\ fired \cap cleared = {} /\ cancelled \cap cleared = {}

(* Since a timer could first have fired, its bucket has not been scanned.  *)
NoVisitMissed ==
  \A timer \in Timers(wheels) : \A v \in Nat :
    v % Interval = 0 /\ timer.due <= v /\ v < currentTick => Bucket(v) # Bucket(timer.expire)

ExpiryBeforeDue == \A timer \in Timers(wheels) : timer.expire <= timer.due

TimerInv ==
  /\ TypeOK /\ Good(wheels) /\ Walking /\ Fates /\ NoVisitMissed /\ ExpiryBeforeDue

-----------------------------------------------------------------------------
(***************************************************************************)
(* Buckets and boundaries.                                                 *)
(***************************************************************************)
LEMMA Constants ==
  Interval \in Nat /\ Interval > 0 /\ WheelSize \in Nat /\ WheelSize > 0
BY IntervalAssumption, WheelSizeAssumption

\* Quotient and remainder are natural numbers that make up the dividend,
LEMMA Division ==
  ASSUME NEW n \in Nat, NEW m \in Nat, m > 0
  PROVE  /\ n \div m \in Nat /\ n % m \in 0 .. m - 1
         /\ n = m * (n \div m) + (n % m)
OBVIOUS

\* and the only ones.
LEMMA DivisionIs ==
  ASSUME NEW n \in Nat, NEW m \in Nat, m > 0, NEW q \in Nat, NEW r \in 0 .. m - 1,
         n = m * q + r
  PROVE  n \div m = q /\ n % m = r
<1> m \in Nat \ {0}
  OBVIOUS
<1> QED
  OBVIOUS

(* What is left to a residue b.                                            *)
LEMMA Residue ==
  ASSUME NEW a \in Nat, NEW m \in Nat, m > 0, NEW b \in 0 .. m - 1
  PROVE  \E d \in 0 .. m - 1 : (a + d) % m = b
<1> DEFINE q == a \div m
           r == a % m
<1>1. q \in Nat /\ r \in 0 .. m - 1 /\ a = m * q + r
  BY Division
<1> HIDE DEF q, r
<1>2. CASE r <= b
  <2>1. b - r \in 0 .. m - 1 /\ a + (b - r) \in Nat
    BY <1>1, <1>2
  <2>2. a + (b - r) = m * q + b
    BY <1>1
  <2>3. (a + (b - r)) % m = b
    BY <1>1, <2>1, <2>2, DivisionIs
  <2> QED
    BY <2>1, <2>3
<1>3. CASE r > b
  <2>1. (b + m) - r \in 0 .. m - 1 /\ a + ((b + m) - r) \in Nat
    BY <1>1, <1>3
  <2>2. m * (q + 1) = m * q + m /\ m * q \in Nat
    BY <1>1
  <2>3. a + ((b + m) - r) = m * (q + 1) + b
    BY <1>1, <2>2
  <2>4. (a + ((b + m) - r)) % m = b
    BY <1>1, <2>1, <2>3, DivisionIs
  <2> QED
    BY <2>1, <2>4
<1> QED
  BY <1>1, <1>2, <1>3

\* A time has a bucket.
LEMMA BucketTyped == ASSUME NEW time \in Nat PROVE Bucket(time) \in Buckets
<1>1. time \div Interval \in Nat
  BY Constants, Division
<1> QED
  BY <1>1, Constants, Division DEF Bucket, Buckets

(* Two boundaries less than an interval apart are one.                     *)
LEMMA BoundariesApart ==
  ASSUME NEW c \in Nat, NEW v \in Nat, c % Interval = 0, v % Interval = 0, v < c + Interval
  PROVE  v <= c
<1> DEFINE a == v \div Interval
           b == c \div Interval
<1>1. a \in Nat /\ b \in Nat /\ v = Interval * a /\ c = Interval * b
  BY Constants, Division
<1> HIDE DEF a, b
<1>2. ASSUME a > b
      PROVE  FALSE
  <2>1. a >= b + 1
    BY <1>1, <1>2
  <2>2. Interval * a >= Interval * (b + 1)
    BY <1>1, <2>1, Constants
  <2>3. Interval * (b + 1) = Interval * b + Interval
    BY <1>1, Constants
  <2> QED
    BY <1>1, <2>2, <2>3, Constants
<1>3. a <= b
  BY <1>1, <1>2
<1> QED
  BY <1>1, <1>3, Constants

\* One interval behind a boundary is the next.
LEMMA BoundaryFollows ==
  ASSUME NEW c \in Nat, c % Interval = 0
  PROVE  (c + Interval) % Interval = 0
<1>1. c = Interval * (c \div Interval) /\ c \div Interval \in Nat
  BY Constants, Division
<1>2. c + Interval = Interval * (c \div Interval + 1)
  BY <1>1, Constants
<1> DEFINE q == c \div Interval + 1
<1>3. q \in Nat /\ c + Interval = Interval * q + 0 /\ c + Interval \in Nat
  BY <1>1, <1>2, Constants
<1> HIDE DEF q
<1> QED
  BY <1>3, Constants, DivisionIs

(* Every revolution that begins at a time passes every bucket.             *)
LEMMA RevolutionVisits ==
  ASSUME NEW time \in Nat, NEW b \in Buckets
  PROVE  \E v \in Nat : /\ v % Interval = 0 /\ Bucket(v) = b
                        /\ time <= v /\ v < time + Interval * WheelSize
<1> DEFINE m == (time + (Interval - 1)) \div Interval
<1>1. m \in Nat /\ time <= Interval * m /\ Interval * m < time + Interval
  <2> DEFINE up == time + (Interval - 1)
             r  == up % Interval
  <2>1. up \in Nat /\ up = time + (Interval - 1)
    BY Constants
  <2>2. m \in Nat /\ r \in 0 .. Interval - 1 /\ up = Interval * m + r
    BY <2>1, Constants, Division
  <2> HIDE DEF m, up, r
  <2>3. Interval * m \in Nat
    BY <2>2, Constants
  <2> QED
    BY <2>1, <2>2, <2>3, Constants
<1> HIDE DEF m
<1>2. PICK d \in 0 .. WheelSize - 1 : (m + d) % WheelSize = b
  BY <1>1, Constants, Residue DEF Buckets
<1> DEFINE n == m + d
           v == Interval * n
<1>3. n \in Nat /\ d \in Nat
  <2>1. d \in Nat
    BY Constants
  <2> QED
    BY <1>1, <2>1
<1>4. v \in Nat /\ v % Interval = 0 /\ v \div Interval = n
  <2> HIDE DEF n
  <2>1. v \in Nat /\ v = Interval * n + 0
    BY <1>3, Constants
  <2> QED
    BY <2>1, <1>3, Constants, DivisionIs
<1>5. Bucket(v) = b
  BY <1>2, <1>4 DEF Bucket
<1>6. v = Interval * m + Interval * d
  BY <1>1, <1>2, Constants
<1>7. Interval * d <= Interval * (WheelSize - 1)
  BY <1>2, Constants
<1>8. Interval * (WheelSize - 1) = Interval * WheelSize - Interval
  BY Constants
<1>9. Interval * d \in Nat /\ Interval * WheelSize \in Nat /\ Interval * m \in Nat
  BY <1>1, <1>2, Constants
<1> HIDE DEF v
<1>10. time <= v /\ v < time + Interval * WheelSize
  BY <1>1, <1>4, <1>6, <1>7, <1>8, <1>9, Constants
<1> QED
  BY <1>4, <1>5, <1>10

-----------------------------------------------------------------------------
(***************************************************************************)
(* Lists: a node more, a node less.                                        *)
(***************************************************************************)
LEMMA Concatenated ==
  ASSUME NEW T, NEW p \in Seq(T), NEW q \in Seq(T), NEW n \in Nat, n = Len(p) + Len(q)
  PROVE  /\ p \o q \in Seq(T)
         /\ Len(p \o q) = n
         /\ \A j \in 1 .. n : j <= Len(p) => (p \o q)[j] = p[j]
         /\ \A j \in 1 .. n : j > Len(p) => (p \o q)[j] = q[j - Len(p)]
BY ConcatProperties

\* A sequence without one of its members.
LEMMA RemoveAtIs ==
  ASSUME NEW T, NEW s \in Seq(T), NEW i \in DOMAIN s
  PROVE  /\ RemoveAt(s, i) \in Seq(T)
         /\ Len(RemoveAt(s, i)) = Len(s) - 1
         /\ \A j \in 1 .. Len(s) - 1 : RemoveAt(s, i)[j] = IF j < i THEN s[j] ELSE s[j + 1]
<1> DEFINE n == Len(s)
           p == SubSeq(s, 1, i - 1)
           q == SubSeq(s, i + 1, Len(s))
           r == RemoveAt(s, i)
<1>1. n \in Nat /\ i \in Nat /\ 1 <= i /\ i <= n
  OBVIOUS
<1>2. p \in Seq(T) /\ Len(p) = i - 1 /\ \A j \in 1 .. i - 1 : p[j] = s[j]
  BY <1>1
<1>3. q \in Seq(T) /\ Len(q) = n - i /\ \A j \in 1 .. n - i : q[j] = s[i + j]
  BY <1>1
<1>4. r = p \o q
  BY DEF RemoveAt
<1> HIDE DEF n, p, q, r
<1>5. n - 1 \in Nat /\ n - 1 = Len(p) + Len(q)
  BY <1>1, <1>2, <1>3
<1>6. /\ r \in Seq(T) /\ Len(r) = n - 1
      /\ \A j \in 1 .. n - 1 : j <= i - 1 => r[j] = p[j]
      /\ \A j \in 1 .. n - 1 : j > i - 1 => r[j] = q[j - (i - 1)]
  <2> PICK m : m = n - 1
    OBVIOUS
  <2>1. m \in Nat /\ m = Len(p) + Len(q) /\ p \in Seq(T) /\ q \in Seq(T)
    BY <1>2, <1>3, <1>5
  <2>2. /\ p \o q \in Seq(T) /\ Len(p \o q) = m
        /\ \A j \in 1 .. m : j <= Len(p) => (p \o q)[j] = p[j]
        /\ \A j \in 1 .. m : j > Len(p) => (p \o q)[j] = q[j - Len(p)]
    BY ONLY <2>1, Concatenated
  <2>3. Len(p) = i - 1
    BY <1>2
  <2> QED
    BY ONLY <1>4, <2>2, <2>3, m = n - 1
<1>7. ASSUME NEW j \in 1 .. n - 1
      PROVE  r[j] = IF j < i THEN s[j] ELSE s[j + 1]
  <2>1. CASE j < i
    BY <1>1, <1>2, <1>6, <2>1
  <2>2. CASE ~(j < i)
    <3>1. j - (i - 1) \in 1 .. n - i /\ i + (j - (i - 1)) = j + 1
      BY <1>1, <2>2
    <3>2. r[j] = q[j - (i - 1)]
      BY <1>1, <1>6, <2>2
    <3> QED
      BY <1>3, <2>2, <3>1, <3>2
  <2> QED
    BY <2>1, <2>2
<1> QED
  BY <1>6, <1>7 DEF n, r

\* The timers of a wheel are those of its buckets.
LEMMA TimersOf ==
  ASSUME NEW w, NEW timer
  PROVE  timer \in Timers(w) <=>
           \E b \in Buckets : \E i \in DOMAIN w[b] : timer = w[b][i]
BY DEF Timers, ToSet

\* They are timers, under their ids.
LEMMA TimersTyped ==
  ASSUME NEW w \in [Buckets -> Seq(Timer)], NEW timer \in Timers(w)
  PROVE  timer \in Timer /\ timer.id \in Ids(w)
<1>1. PICK b \in Buckets : \E i \in DOMAIN w[b] : timer = w[b][i]
  BY TimersOf
<1>2. w[b] \in Seq(Timer)
  OBVIOUS
<1> QED
  BY <1>1, <1>2 DEF Ids

\* An empty wheel is good.
LEMMA EmptyWheel == Good([b \in Buckets |-> <<>>]) /\ Timers([b \in Buckets |-> <<>>]) = {}
<1> DEFINE w == [b \in Buckets |-> <<>>]
<1>1. \A b \in Buckets : w[b] = <<>> /\ w[b] \in Seq(Timer) /\ DOMAIN w[b] = {}
  OBVIOUS
<1>2. w \in [Buckets -> Seq(Timer)]
  BY <1>1
<1> HIDE DEF w
<1>3. Good(w) /\ Timers(w) = {}
  BY <1>1, <1>2, TimersOf DEF Good, InPlace, OneNode
<1> QED
  BY <1>3 DEF w

(* emplace_back                                                            *)
LEMMA PlacedGood ==
  ASSUME NEW w, Good(w), NEW timer \in Timer, timer.id \notin Ids(w)
  PROVE  LET v == PlacedIn(w, timer)
         IN  /\ Good(v)
             /\ Timers(v) = Timers(w) \cup {timer}
             /\ Ids(v) = Ids(w) \cup {timer.id}
             /\ \A b \in Buckets : \A i \in DOMAIN w[b] : i \in DOMAIN v[b] /\ v[b][i] = w[b][i]
<1> DEFINE c == Bucket(timer.expire)
           v == PlacedIn(w, timer)
<1>1. w \in [Buckets -> Seq(Timer)]
  BY DEF Good
<1>2. c \in Buckets
  BY BucketTyped DEF Timer
<1>3. v = [w EXCEPT ![c] = Append(w[c], timer)]
  BY DEF PlacedIn
<1> HIDE DEF c, v
<1>4. /\ w[c] \in Seq(Timer) /\ v[c] = Append(w[c], timer)
      /\ \A b \in Buckets \ {c} : v[b] = w[b]
  BY <1>1, <1>2, <1>3
<1>5. /\ Len(w[c]) \in Nat /\ DOMAIN w[c] = 1 .. Len(w[c]) /\ DOMAIN v[c] = 1 .. Len(w[c]) + 1
      /\ \A i \in DOMAIN w[c] : v[c][i] = w[c][i]
      /\ v[c][Len(w[c]) + 1] = timer
      /\ v[c] \in Seq(Timer)
  BY <1>4
<1>6. v \in [Buckets -> Seq(Timer)]
  BY <1>1, <1>2, <1>3, <1>5
<1>7. \A b \in Buckets : \A i \in DOMAIN w[b] : i \in DOMAIN v[b] /\ v[b][i] = w[b][i]
  BY <1>4, <1>5
<1>8. \A b \in Buckets : \A i \in DOMAIN v[b] :
        \/ i \in DOMAIN w[b] /\ v[b][i] = w[b][i]
        \/ b = c /\ i = Len(w[c]) + 1 /\ v[b][i] = timer
  BY <1>4, <1>5
<1>9. Timers(v) = Timers(w) \cup {timer}
  <2>1. timer \in Timers(v)
    <3>1. Len(w[c]) + 1 \in DOMAIN v[c]
      BY <1>5
    <3> QED
      BY <1>2, <1>5, <3>1, TimersOf
  <2>2. ASSUME NEW t \in Timers(w)
        PROVE  t \in Timers(v)
    <3>1. PICK b \in Buckets : \E i \in DOMAIN w[b] : t = w[b][i]
      BY TimersOf
    <3> QED
      BY <1>7, <3>1, TimersOf
  <2>3. ASSUME NEW t \in Timers(v)
        PROVE  t \in Timers(w) \cup {timer}
    <3>0. PICK b \in Buckets : \E i \in DOMAIN v[b] : t = v[b][i]
      BY TimersOf
    <3>1. PICK i \in DOMAIN v[b] : t = v[b][i]
      BY <3>0
    <3> QED
      BY <1>8, <3>1, TimersOf
  <2> QED
    BY <2>1, <2>2, <2>3
<1>10. Ids(v) = Ids(w) \cup {timer.id}
  BY <1>9 DEF Ids
<1>11. InPlace(v)
  <2> SUFFICES ASSUME NEW b \in Buckets, NEW i \in DOMAIN v[b]
               PROVE  Bucket(v[b][i].expire) = b
    BY DEF InPlace
  <2> QED
    BY <1>8 DEF Good, InPlace, c
<1>12. OneNode(v)
  <2> SUFFICES ASSUME NEW b \in Buckets, NEW d \in Buckets,
                      NEW i \in DOMAIN v[b], NEW j \in DOMAIN v[d], v[b][i].id = v[d][j].id
               PROVE  b = d /\ i = j
    BY DEF OneNode
  <2>1. \A a \in Buckets : \A k \in DOMAIN w[a] : w[a][k].id # timer.id
    BY TimersOf DEF Ids
  <2> QED
    BY <1>8, <2>1 DEF Good, OneNode
<1>13. Good(v)
  BY <1>6, <1>11, <1>12 DEF Good
<1> QED
  BY <1>7, <1>9, <1>10, <1>13 DEF v

(* erase                                                                   *)
Erased(w, c, k) == [w EXCEPT ![c] = RemoveAt(@, k)]

\* Erasing a node leaves a good wheel that lacks its id.
LEMMA RemovedGood ==
  ASSUME NEW w, Good(w), NEW c \in Buckets, NEW k \in DOMAIN w[c]
  PROVE  LET v == Erased(w, c, k)
         IN  /\ Good(v)
             /\ Timers(v) \subseteq Timers(w)
             /\ Ids(v) = Ids(w) \ {w[c][k].id}
             /\ w[c][k].id \in Ids(w)
             /\ \A b \in Buckets \ {c} : v[b] = w[b]
             /\ \A i \in DOMAIN v[c] : v[c][i] = IF i < k THEN w[c][i] ELSE w[c][i + 1]
             /\ DOMAIN v[c] = 1 .. Len(w[c]) - 1
<1> DEFINE v == Erased(w, c, k)
           at0(b, i) == IF b = c /\ i >= k THEN i + 1 ELSE i
<1>1. w \in [Buckets -> Seq(Timer)] /\ w[c] \in Seq(Timer)
  BY DEF Good
<1>2. v[c] = RemoveAt(w[c], k) /\ \A b \in Buckets \ {c} : v[b] = w[b]
  BY <1>1 DEF Erased
<1>3. /\ v[c] \in Seq(Timer) /\ Len(v[c]) = Len(w[c]) - 1
      /\ \A i \in 1 .. Len(w[c]) - 1 : v[c][i] = IF i < k THEN w[c][i] ELSE w[c][i + 1]
  BY <1>1, <1>2, RemoveAtIs
<1>4. v \in [Buckets -> Seq(Timer)]
  BY <1>1, <1>2, <1>3 DEF Erased
<1> HIDE DEF v
<1>5. DOMAIN v[c] = 1 .. Len(w[c]) - 1 /\ DOMAIN w[c] = 1 .. Len(w[c]) /\ Len(w[c]) \in Nat
  BY <1>1, <1>3
<1>6. \A b \in Buckets : \A i \in DOMAIN v[b] :
        at0(b, i) \in DOMAIN w[b] /\ v[b][i] = w[b][at0(b, i)] /\ ~(b = c /\ at0(b, i) = k)
  BY <1>2, <1>3, <1>5
<1>7. \A b \in Buckets : \A i, j \in DOMAIN v[b] : at0(b, i) = at0(b, j) => i = j
  <2> SUFFICES ASSUME NEW b \in Buckets, NEW i \in DOMAIN v[b], NEW j \in DOMAIN v[b],
                      at0(b, i) = at0(b, j)
               PROVE  i = j
    OBVIOUS
  <2>1. i \in Nat /\ j \in Nat
    BY <1>4
  <2> QED
    BY <1>5, <2>1
<1>8. Timers(v) \subseteq Timers(w)
  <2> SUFFICES ASSUME NEW t \in Timers(v)
               PROVE  t \in Timers(w)
    OBVIOUS
  <2>0. PICK b \in Buckets : \E i \in DOMAIN v[b] : t = v[b][i]
    BY TimersOf
  <2>1. PICK i \in DOMAIN v[b] : t = v[b][i]
    BY <2>0
  <2> QED
    BY <1>6, <2>1, TimersOf
<1>9. w[c][k].id \in Ids(w)
  BY TimersOf DEF Ids
<1>10. w[c][k].id \notin Ids(v)
  <2> SUFFICES ASSUME NEW t \in Timers(v), t.id = w[c][k].id
               PROVE  FALSE
    BY DEF Ids
  <2>0. PICK b \in Buckets : \E i \in DOMAIN v[b] : t = v[b][i]
    BY TimersOf
  <2>1. PICK i \in DOMAIN v[b] : t = v[b][i]
    BY <2>0
  <2> QED
    BY <1>6, <2>1 DEF Good, OneNode
<1>11. ASSUME NEW t \in Timers(w), t.id # w[c][k].id
       PROVE  t \in Timers(v)
  <2>0. PICK b \in Buckets : \E i \in DOMAIN w[b] : t = w[b][i]
    BY TimersOf
  <2>1. PICK i \in DOMAIN w[b] : t = w[b][i]
    BY <2>0
  <2>2. CASE b # c
    BY <1>2, <2>1, <2>2, TimersOf
  <2>3. CASE b = c /\ i < k
    <3>1. i \in DOMAIN v[c] /\ v[c][i] = t
      BY <1>3, <1>5, <2>1, <2>3
    <3> QED
      BY <3>1, TimersOf
  <2>4. CASE b = c /\ i > k
    <3>1. i - 1 \in DOMAIN v[c] /\ v[c][i - 1] = t
      <4>1. i - 1 \in 1 .. Len(w[c]) - 1 /\ ~(i - 1 < k) /\ (i - 1) + 1 = i
        BY <1>5, <2>1, <2>4
      <4> QED
        BY <1>3, <1>5, <2>1, <2>4, <4>1
    <3> QED
      BY <3>1, TimersOf
  <2>5. ~(b = c /\ i = k)
    BY <1>11, <2>1
  <2> QED
    BY <1>5, <2>1, <2>2, <2>3, <2>4, <2>5
<1>12. Ids(v) = Ids(w) \ {w[c][k].id}
  BY <1>8, <1>10, <1>11 DEF Ids
<1>13. InPlace(v)
  BY <1>6 DEF Good, InPlace
<1>14. OneNode(v)
  <2> SUFFICES ASSUME NEW b \in Buckets, NEW d \in Buckets,
                      NEW i \in DOMAIN v[b], NEW j \in DOMAIN v[d], v[b][i].id = v[d][j].id
               PROVE  b = d /\ i = j
    BY DEF OneNode
  <2>1. b = d /\ at0(b, i) = at0(d, j)
    BY <1>6 DEF Good, OneNode
  <2> HIDE DEF at0
  <2> QED
    BY <1>7, <2>1
<1>15. Good(v)
  BY <1>4, <1>13, <1>14 DEF Good
<1> QED
  BY <1>2, <1>3, <1>5, <1>8, <1>9, <1>12, <1>15 DEF v

-----------------------------------------------------------------------------
(***************************************************************************)
(* TimerInv is inductive.                                                  *)
(***************************************************************************)
LEMMA Typed ==
  ASSUME TimerInv
  PROVE  /\ wheels \in [Buckets -> Seq(Timer)] /\ currentTick \in Nat /\ nextId \in Nat \ {0}
         /\ nextId < TimerIds /\ TimerIds \in Nat
         /\ until \in Nat /\ at \in Nat \ {0}
         /\ Bucket(currentTick) \in Buckets /\ Scanned \in Seq(Timer)
         /\ DOMAIN Scanned = 1 .. Len(Scanned) /\ Len(Scanned) \in Nat
         /\ nextId \notin Ids(wheels)
<1>1. TypeOK
  BY DEF TimerInv
<1>2. Bucket(currentTick) \in Buckets
  BY <1>1, BucketTyped DEF TypeOK
<1>3. Scanned \in Seq(Timer)
  BY <1>1, <1>2 DEF TypeOK, Scanned
<1>4. nextId \in Nat \ {0} /\ nextId < TimerIds /\ TimerIds \in Nat
  BY <1>1, TimerIdsAssumption DEF TimerInv, TypeOK, Fates
<1>5. nextId \notin Ids(wheels)
  BY <1>4 DEF TimerInv, Fates
<1> QED
  BY <1>1, <1>2, <1>3, <1>4, <1>5 DEF TypeOK

\* An id that does not come round is the next.
LEMMA IdFollows ==
  ASSUME TimerInv, IdAfter >= nextId
  PROVE  IdAfter = nextId + 1 /\ nextId + 1 \in 0 .. TimerIds - 1
<1>1. nextId \in Nat /\ nextId > 0 /\ nextId < TimerIds /\ TimerIds \in Nat
  BY Typed
<1>2. CASE nextId + 1 < TimerIds
  <2>1. nextId + 1 \in 0 .. TimerIds - 1 /\ nextId + 1 \in Nat /\ TimerIds > 0
    BY <1>1, <1>2
  <2>2. nextId + 1 = TimerIds * 0 + (nextId + 1)
    BY <1>1
  <2> QED
    BY <2>1, <2>2, <1>1, DivisionIs DEF IdAfter
<1>3. CASE ~(nextId + 1 < TimerIds)
  <2>1. nextId + 1 = TimerIds /\ 0 \in 0 .. TimerIds - 1 /\ TimerIds > 0
    BY <1>1, <1>3
  <2>2. TimerIds = TimerIds * 1 + 0
    BY <1>1
  <2>3. TimerIds % TimerIds = 0
    BY <1>1, <2>1, <2>2, DivisionIs
  <2> QED
    BY <1>1, <2>1, <2>3 DEF IdAfter
<1> QED
  BY <1>2, <1>3

(* A new timer could not have fired before.                                *)
LEMMA NewTimerIs ==
  ASSUME TimerInv, NEW expire \in Nat, NEW recurs \in BOOLEAN, NEW period \in Nat
  PROVE  LET timer == NewTimer(expire, recurs, period)
         IN  /\ timer \in Timer /\ timer.id = nextId
             /\ timer.due >= currentTick /\ timer.expire <= timer.due
<1>1. currentTick \in Nat /\ nextId \in 0 .. TimerIds - 1
  BY Typed DEF TimerInv, TypeOK
<1> QED
  BY <1>1 DEF NewTimer, Timer

\* The invariant holds of a new wheel.
LEMMA TimerInit == Init => TimerInv
<1> SUFFICES ASSUME Init
             PROVE  TimerInv
  OBVIOUS
<1>1. Good(wheels) /\ Timers(wheels) = {}
  BY EmptyWheel DEF Init
<1>2. Ids(wheels) = {}
  BY <1>1 DEF Ids
<1>3. 0 % Interval = 0
  BY Constants
<1>4. TypeOK
  BY <1>1, <1>3, TimerIdsAssumption DEF Init, TypeOK, Good
<1>5. Fates /\ Walking
  BY <1>2 DEF Init, Fates, Walking
<1>6. NoVisitMissed /\ ExpiryBeforeDue
  BY <1>1 DEF NoVisitMissed, ExpiryBeforeDue
<1> QED
  BY <1>1, <1>4, <1>5, <1>6 DEF TimerInv

\* A timer placed in the bucket of its time keeps it;
LEMMA PlaceKeeps ==
  ASSUME TimerInv, NEW timer \in Timer, timer.id = nextId,
         timer.due >= currentTick, timer.expire <= timer.due, Place(timer),
         nextId' >= nextId
  PROVE  TimerInv'
<1> USE Typed
<1>0. nextId' = nextId + 1 /\ nextId' \in 0 .. TimerIds - 1
  BY IdFollows DEF Place
<1>1. /\ wheels' = PlacedIn(wheels, timer) /\ nextId' = nextId + 1
      /\ UNCHANGED <<currentTick, ticking, until, at, fired, cancelled, cleared>>
      /\ ticking \in {"idle", "callback"}
  BY <1>0 DEF Place, history, AppRuns
<1>2. /\ Good(wheels')
      /\ Timers(wheels') = Timers(wheels) \cup {timer}
      /\ Ids(wheels') = Ids(wheels) \cup {nextId}
      /\ \A b \in Buckets : \A i \in DOMAIN wheels[b] :
           i \in DOMAIN wheels'[b] /\ wheels'[b][i] = wheels[b][i]
  BY <1>1, PlacedGood DEF TimerInv
<1>3. TypeOK'
  BY <1>0, <1>1, <1>2 DEF TimerInv, TypeOK, Good
<1>4. Fates'
  BY <1>1, <1>2 DEF TimerInv, Fates
<1>5. Walking'
  <2>1. CASE ticking = "idle"
    BY <1>1, <2>1 DEF Walking
  <2>2. CASE ticking = "callback"
    <3>1. at \in DOMAIN Scanned /\ \A i \in 1 .. at : i \in DOMAIN Scanned
      BY <2>2 DEF TimerInv, Walking
    <3>2. \A i \in 1 .. at : i \in DOMAIN Scanned' /\ Scanned'[i] = Scanned[i]
      BY <1>1, <1>2, <3>1 DEF Scanned
    <3>3. Scanned' \in Seq(Timer)
      BY <1>1, <1>2 DEF Good, Scanned
    <3>4. \A i \in DOMAIN Scanned' : i < at => i \in 1 .. at
      BY <3>3
    <3>5. at \in 1 .. at
      OBVIOUS
    <3> QED
      BY <1>1, <2>2, <3>1, <3>2, <3>4, <3>5 DEF TimerInv, Walking
  <2> QED
    BY <1>1, <2>1, <2>2
<1>6. NoVisitMissed'
  <2> SUFFICES ASSUME NEW t \in Timers(wheels'), NEW v \in Nat,
                      v % Interval = 0, t.due <= v, v < currentTick
               PROVE  Bucket(v) # Bucket(t.expire)
    BY <1>1 DEF NoVisitMissed
  <2>1. t # timer
    BY DEF Timer
  <2> QED
    BY <1>2, <2>1 DEF TimerInv, NoVisitMissed
<1>7. ExpiryBeforeDue'
  BY <1>2 DEF TimerInv, ExpiryBeforeDue
<1> QED
  BY <1>2, <1>3, <1>4, <1>5, <1>6, <1>7 DEF TimerInv

\* so does each way of scheduling one,
LEMMA ScheduleKeeps ==
  ASSUME TimerInv, nextId' >= nextId,
         \/ \E duration \in Durations : Schedule(duration)
         \/ \E time \in Times : ScheduleAt(time)
         \/ \E period \in Intervals : ScheduleRecurring(period)
  PROVE  TimerInv'
<1> USE Typed
<1>1. Durations \subseteq Nat /\ Times \subseteq Nat /\ Intervals \subseteq Nat
  BY TimesAssumption
<1>2. ASSUME NEW expire \in Nat, NEW recurs \in BOOLEAN, NEW period \in Nat,
             Place(NewTimer(expire, recurs, period))
      PROVE  TimerInv'
  BY <1>2, NewTimerIs, PlaceKeeps
<1>3. ASSUME NEW duration \in Durations, Schedule(duration)
      PROVE  TimerInv'
  <2>1. currentTick + duration \in Nat /\ 0 \in Nat
    BY <1>1
  <2> QED
    BY <1>2, <1>3, <2>1 DEF Schedule
<1>4. ASSUME NEW time \in Times, ScheduleAt(time)
      PROVE  TimerInv'
  BY <1>1, <1>2, <1>4 DEF ScheduleAt
<1>5. ASSUME NEW period \in Intervals, ScheduleRecurring(period)
      PROVE  TimerInv'
  <2>1. currentTick + period \in Nat /\ period \in Nat
    BY <1>1
  <2> QED
    BY <1>2, <1>5, <2>1 DEF ScheduleRecurring
<1> QED
  BY <1>3, <1>4, <1>5

\* a cancel,
LEMMA CancelKeeps ==
  ASSUME TimerInv, NEW id, Cancel(id)
  PROVE  TimerInv'
<1> USE Typed
<1>1. PICK b \in Buckets : \E i \in DOMAIN wheels[b] :
        /\ wheels[b][i].id = id
        /\ ~Running(b, i)
        /\ wheels' = [wheels EXCEPT ![b] = RemoveAt(@, i)]
        /\ at' = PositionWithout(b, i)
  BY DEF Cancel
<1>2. PICK i \in DOMAIN wheels[b] :
        /\ wheels[b][i].id = id
        /\ ~Running(b, i)
        /\ wheels' = [wheels EXCEPT ![b] = RemoveAt(@, i)]
        /\ at' = PositionWithout(b, i)
  BY <1>1
<1>0. i \in DOMAIN wheels[b]
  OBVIOUS
<1>3. /\ UNCHANGED <<currentTick, nextId, ticking, until, fired, cleared>>
      /\ cancelled' = cancelled \cup {id}
      /\ ticking \in {"idle", "callback"}
  BY DEF Cancel, AppRuns
<1>4. /\ Good(wheels')
      /\ Timers(wheels') \subseteq Timers(wheels)
      /\ Ids(wheels') = Ids(wheels) \ {id} /\ id \in Ids(wheels)
      /\ \A c \in Buckets \ {b} : wheels'[c] = wheels[c]
      /\ \A j \in DOMAIN wheels'[b] :
           wheels'[b][j] = IF j < i THEN wheels[b][j] ELSE wheels[b][j + 1]
      /\ DOMAIN wheels'[b] = 1 .. Len(wheels[b]) - 1
  <2>1. Good(wheels) /\ wheels' = Erased(wheels, b, i)
    BY <1>2 DEF TimerInv, Erased
  <2>2. wheels[b][i].id = id
    BY <1>2
  <2> QED
    BY ONLY <2>1, <2>2, <1>0, b \in Buckets, RemovedGood
<1>5. i \in 1 .. Len(wheels[b]) /\ Len(wheels[b]) \in Nat
  <2>1. wheels[b] \in Seq(Timer)
    OBVIOUS
  <2> QED
    BY <2>1
<1>6. at' \in Nat \ {0}
  BY <1>2, <1>5 DEF PositionWithout
<1>7. TypeOK'
  <2>1. id \in 0 .. TimerIds - 1
    BY <1>4 DEF TimerInv, Fates
  <2> QED
    BY <1>3, <1>4, <1>6, <2>1 DEF TimerInv, TypeOK, Good
<1>8. Fates'
  BY <1>3, <1>4 DEF TimerInv, Fates
<1>9. Walking'
  <2>1. CASE ticking = "idle"
    BY <1>3, <2>1 DEF Walking
  <2>2. CASE ticking = "callback" /\ b # Bucket(currentTick)
    <3>1. at' = at /\ Scanned' = Scanned
      BY <1>2, <1>3, <1>4, <2>2 DEF PositionWithout, Scanned
    <3> QED
      BY <1>3, <3>1 DEF TimerInv, Walking
  <2>3. CASE ticking = "callback" /\ b = Bucket(currentTick)
    <3>1. /\ at \in 1 .. Len(Scanned) /\ i # at
          /\ currentTick <= until
          /\ \A j \in DOMAIN Scanned : j < at => Scanned[j].expire > until
      BY <1>2, <2>3 DEF TimerInv, Walking, Running
    <3>2. /\ DOMAIN Scanned' = 1 .. Len(Scanned) - 1
          /\ \A j \in DOMAIN Scanned' :
               Scanned'[j] = IF j < i THEN Scanned[j] ELSE Scanned[j + 1]
          /\ i \in 1 .. Len(Scanned)
      BY <1>3, <1>4, <1>5, <2>3 DEF Scanned
    <3>3. at' = IF i < at THEN at - 1 ELSE at
      BY <1>2, <2>3 DEF PositionWithout
    <3>4. at' \in DOMAIN Scanned'
      BY <3>1, <3>2, <3>3
    <3>5. ASSUME NEW j \in DOMAIN Scanned', j < at'
          PROVE  Scanned'[j].expire > until
      <4>1. CASE j < i
        <5>1. j \in DOMAIN Scanned /\ j < at
          BY <3>1, <3>2, <3>3, <3>5, <4>1
        <5> QED
          BY <3>1, <3>2, <4>1, <5>1
      <4>2. CASE ~(j < i)
        <5>1. j + 1 \in DOMAIN Scanned /\ j + 1 < at
          BY <3>1, <3>2, <3>3, <3>5, <4>2
        <5> QED
          BY <3>1, <3>2, <4>2, <5>1
      <4> QED
        BY <4>1, <4>2
    <3> QED
      BY <1>3, <3>1, <3>4, <3>5 DEF Walking
  <2> QED
    BY <1>3, <2>1, <2>2, <2>3
<1>10. NoVisitMissed' /\ ExpiryBeforeDue'
  BY <1>3, <1>4 DEF TimerInv, NoVisitMissed, ExpiryBeforeDue
<1> QED
  BY <1>4, <1>7, <1>8, <1>9, <1>10 DEF TimerInv

\* a clear
LEMMA ClearKeeps == TimerInv /\ Clear => TimerInv'
<1> SUFFICES ASSUME TimerInv, Clear
             PROVE  TimerInv'
  OBVIOUS
<1>1. /\ ticking = "idle" /\ currentTick' = 0
      /\ wheels' = [b \in Buckets |-> <<>>]
      /\ UNCHANGED <<nextId, ticking, until, at, fired, cancelled>>
  BY DEF Clear
<1>2. cleared' = cleared \cup Ids(wheels)
  BY DEF Clear, Pending, Timers, Ids
<1>3. Good(wheels') /\ Timers(wheels') = {} /\ Ids(wheels') = {}
  BY <1>1, EmptyWheel DEF Ids
<1>4. 0 % Interval = 0
  BY Constants
<1>5. TypeOK'
  <2>1. ASSUME NEW id \in 1 .. nextId - 1
        PROVE  id \in 0 .. TimerIds - 1
    <3>1. nextId \in Nat /\ nextId < TimerIds /\ TimerIds \in Nat
      BY Typed
    <3> QED
      BY ONLY <3>1, id \in 1 .. nextId - 1
  <2>2. Ids(wheels) \subseteq 0 .. TimerIds - 1
    BY <2>1 DEF TimerInv, Fates
  <2> QED
    BY <1>1, <1>2, <1>3, <1>4, <2>2 DEF TimerInv, TypeOK, Good
<1>6. Fates'
  BY <1>1, <1>2, <1>3 DEF TimerInv, Fates
<1>7. Walking' /\ NoVisitMissed' /\ ExpiryBeforeDue'
  BY <1>1, <1>3 DEF Walking, NoVisitMissed, ExpiryBeforeDue
<1> QED
  BY <1>3, <1>5, <1>6, <1>7 DEF TimerInv

(* tick enters, fires or passes a node.                                    *)
LEMMA WalkKeeps ==
  ASSUME TimerInv, (\E now \in Times : Tick(now)) \/ Fire \/ Skip
  PROVE  TimerInv'
<1> USE Typed
<1>1. UNCHANGED <<wheels, currentTick, nextId, fired, cancelled, cleared>>
  BY DEF Tick, Fire, Skip, history
<1>2. Good(wheels') /\ Fates' /\ NoVisitMissed' /\ ExpiryBeforeDue'
  BY <1>1 DEF TimerInv, Fates, NoVisitMissed, ExpiryBeforeDue
<1>3. Scanned' = Scanned
  BY <1>1 DEF Scanned
<1>4. TypeOK' /\ Walking'
  <2>1. ASSUME NEW now \in Times, Tick(now)
        PROVE  TypeOK' /\ Walking'
    <3>1. /\ until' = now /\ at' = 1 /\ now \in Nat
          /\ ticking' = IF currentTick <= now THEN "scan" ELSE "idle"
      BY <2>1, TimesAssumption DEF Tick
    <3>2. TypeOK'
      BY <1>1, <3>1 DEF TimerInv, TypeOK
    <3> QED
      BY <1>1, <1>3, <3>1, <3>2 DEF Walking
  <2>2. CASE Fire
    <3>1. ticking = "scan" /\ at \in DOMAIN Scanned /\ ticking' = "callback"
          /\ UNCHANGED <<until, at>>
      BY <2>2 DEF Fire
    <3> QED
      BY <1>1, <1>3, <3>1 DEF TimerInv, TypeOK, Walking
  <2>3. CASE Skip
    <3>1. ticking = "scan" /\ at \in DOMAIN Scanned /\ Scanned[at].expire > until
          /\ at' = at + 1 /\ UNCHANGED <<until, ticking>>
      BY <2>3 DEF Skip
    <3>2. TypeOK'
      BY <1>1, <3>1 DEF TimerInv, TypeOK
    <3>3. ASSUME NEW i \in DOMAIN Scanned, i < at + 1
          PROVE  Scanned[i].expire > until
      <4>1. i < at \/ i = at
        BY <3>3
      <4> QED
        BY <3>1, <4>1 DEF TimerInv, Walking
    <3> QED
      BY <1>1, <1>3, <3>1, <3>2, <3>3 DEF TimerInv, Walking
  <2> QED
    BY <2>1, <2>2, <2>3
<1> QED
  BY <1>2, <1>4 DEF TimerInv

\* and the return of a callback.
LEMMA CallbackReturnsKeeps == TimerInv /\ CallbackReturns /\ nextId' >= nextId => TimerInv'
<1> SUFFICES ASSUME TimerInv, CallbackReturns, nextId' >= nextId
             PROVE  TimerInv'
  OBVIOUS
<1> USE Typed
<1> DEFINE c     == Bucket(currentTick)
           timer == Scanned[at]
           next  == NewTimer(currentTick + timer.period, TRUE, timer.period)
           again == timer.recurs
           w     == IF again THEN PlacedIn(wheels, next) ELSE wheels
<1>0. /\ nextId' = IF again THEN nextId + 1 ELSE nextId
      /\ nextId' \in 0 .. TimerIds - 1
  <2>1. nextId' = IF again THEN IdAfter ELSE nextId
    BY DEF CallbackReturns
  <2> QED
    BY <2>1, IdFollows
<1>1. /\ ticking = "callback" /\ ticking' = "scan"
      /\ wheels' = [w EXCEPT ![c] = RemoveAt(@, at)]
      /\ nextId' = IF again THEN nextId + 1 ELSE nextId
      /\ fired' = fired \cup {timer.id}
      /\ UNCHANGED <<currentTick, until, at, cancelled, cleared>>
  BY <1>0 DEF CallbackReturns
<1>2. /\ at \in DOMAIN Scanned /\ timer \in Timer /\ currentTick <= until
      /\ \A i \in DOMAIN Scanned : i < at => Scanned[i].expire > until
  BY <1>1 DEF TimerInv, Walking
<1>3. currentTick + timer.period \in Nat /\ timer.period \in Nat
  <2> HIDE DEF timer
  <2>1. timer.period \in Nat
    BY ONLY <1>2 DEF Timer
  <2> QED
    BY <2>1
<1>4. /\ next \in Timer /\ next.id = nextId
      /\ next.due >= currentTick /\ next.expire <= next.due
  BY <1>3, NewTimerIs
<1> HIDE DEF next
<1>5. /\ Good(w)
      /\ Timers(w) \subseteq Timers(wheels) \cup {next}
      /\ Ids(w) = Ids(wheels) \cup (IF again THEN {nextId} ELSE {})
      /\ \A i \in DOMAIN Scanned : i \in DOMAIN w[c] /\ w[c][i] = Scanned[i]
  <2>1. CASE again
    BY <1>4, <2>1, PlacedGood DEF TimerInv, Scanned
  <2>2. CASE ~again
    BY <2>2 DEF TimerInv, Scanned
  <2> QED
    BY <2>1, <2>2
<1> HIDE DEF w, again, timer
<1>6. at \in DOMAIN w[c] /\ w[c][at] = timer
  BY <1>2, <1>5 DEF timer
<1>7. /\ Good(wheels')
      /\ Timers(wheels') \subseteq Timers(w)
      /\ Ids(wheels') = Ids(w) \ {timer.id} /\ timer.id \in Ids(w)
      /\ \A i \in DOMAIN wheels'[c] :
           wheels'[c][i] = IF i < at THEN w[c][i] ELSE w[c][i + 1]
      /\ DOMAIN wheels'[c] = 1 .. Len(w[c]) - 1
  <2>1. wheels' = Erased(w, c, at)
    BY <1>1 DEF Erased
  <2>2. c \in Buckets
    OBVIOUS
  <2> QED
    BY ONLY <1>5, <1>6, <2>1, <2>2, RemovedGood
<1>8. timer.id \in Ids(wheels)
  <2>1. timer \in Timers(wheels)
    BY <1>2, TimersOf DEF timer, Scanned
  <2> QED
    BY <2>1 DEF Ids
<1>9. timer.id \in 1 .. nextId - 1
  BY <1>8 DEF TimerInv, Fates
<1>10. TypeOK'
  <2>1. timer.id \in 0 .. TimerIds - 1
    BY <1>9
  <2> QED
    BY <1>0, <1>1, <1>7, <2>1 DEF TimerInv, TypeOK, Good
<1>11. Fates'
  <2>1. Ids(wheels') = (Ids(wheels) \ {timer.id}) \cup (IF again THEN {nextId} ELSE {})
    BY <1>5, <1>7, <1>9
  <2>2. nextId \in Nat \ {0} /\ 1 .. nextId = (1 .. nextId - 1) \cup {nextId}
    OBVIOUS
  <2>3. nextId \notin 1 .. nextId - 1
    BY <2>2
  <2>4. Ids(wheels) \cup fired \cup cancelled \cup cleared = 1 .. nextId - 1
    BY DEF TimerInv, Fates
  <2>5. 1 .. nextId' - 1 = (1 .. nextId - 1) \cup (IF again THEN {nextId} ELSE {})
    BY <1>1, <2>2
  <2>6. Ids(wheels') \cup fired' \cup cancelled' \cup cleared' = 1 .. nextId' - 1
    BY <1>1, <1>8, <2>1, <2>4, <2>5
  <2> QED
    <3>1. nextId \notin fired' /\ nextId \notin cancelled' /\ nextId \notin cleared'
      BY <1>1, <1>8, <2>3, <2>4
    <3>2. /\ Ids(wheels) \cap fired = {} /\ Ids(wheels) \cap cancelled = {}
          /\ Ids(wheels) \cap cleared = {} /\ fired \cap cancelled = {}
          /\ fired \cap cleared = {} /\ cancelled \cap cleared = {}
      BY DEF TimerInv, Fates
    <3>3. /\ Ids(wheels') \cap fired' = {} /\ Ids(wheels') \cap cancelled' = {}
          /\ Ids(wheels') \cap cleared' = {}
      BY <1>1, <1>8, <2>1, <3>1, <3>2
    <3>4. /\ fired' \cap cancelled' = {} /\ fired' \cap cleared' = {}
          /\ cancelled' \cap cleared' = {}
      BY <1>1, <1>8, <3>2
    <3> QED
      <4>1. nextId' # 0
        BY <1>1
      <4> QED
        BY <2>6, <3>3, <3>4, <4>1 DEF Fates
<1>12. Walking'
  <2> SUFFICES ASSUME NEW i \in DOMAIN wheels'[c], i < at
               PROVE  wheels'[c][i].expire > until
    BY <1>1, <1>2 DEF Walking, Scanned
  <2>1. i \in DOMAIN Scanned
    BY <1>2, <1>7
  <2> QED
    BY <1>2, <1>5, <1>7, <2>1
<1>13. NoVisitMissed'
  <2> SUFFICES ASSUME NEW t \in Timers(wheels'), NEW v \in Nat,
                      v % Interval = 0, t.due <= v, v < currentTick
               PROVE  Bucket(v) # Bucket(t.expire)
    BY <1>1 DEF NoVisitMissed
  <2>1. t # next
    BY <1>4 DEF Timer
  <2> QED
    BY <1>5, <1>7, <2>1 DEF TimerInv, NoVisitMissed
<1>14. ExpiryBeforeDue'
  BY <1>4, <1>5, <1>7 DEF TimerInv, ExpiryBeforeDue
<1> QED
  BY <1>7, <1>10, <1>11, <1>12, <1>13, <1>14 DEF TimerInv

(* The bucket left behind holds no timer that was due.                     *)
LEMMA NextBucketKeeps == TimerInv /\ NextBucket => TimerInv'
<1> SUFFICES ASSUME TimerInv, NextBucket
             PROVE  TimerInv'
  OBVIOUS
<1> USE Typed, Constants
<1>1. /\ ticking = "scan" /\ at \notin DOMAIN Scanned
      /\ currentTick' = currentTick + Interval /\ at' = 1
      /\ ticking' = IF currentTick + Interval <= until THEN "scan" ELSE "idle"
      /\ UNCHANGED <<wheels, nextId, until, fired, cancelled, cleared>>
  BY DEF NextBucket, history
<1>2. currentTick % Interval = 0
  BY DEF TimerInv, TypeOK
<1>3. TypeOK'
  BY <1>1, <1>2, BoundaryFollows DEF TimerInv, TypeOK
<1>4. Good(wheels') /\ Fates' /\ ExpiryBeforeDue'
  BY <1>1 DEF TimerInv, Fates, ExpiryBeforeDue
<1>5. Scanned' \in Seq(Timer)
  BY <1>1, <1>3, BucketTyped DEF TypeOK, Scanned
<1>6. Walking'
  <2>1. \A i \in DOMAIN Scanned' : ~(i < 1)
    BY <1>5
  <2> QED
    BY <1>1, <2>1 DEF Walking
<1>7. NoVisitMissed'
  <2> SUFFICES ASSUME NEW t \in Timers(wheels), NEW v \in Nat,
                      v % Interval = 0, t.due <= v, v < currentTick + Interval,
                      Bucket(v) = Bucket(t.expire)
               PROVE  FALSE
    BY <1>1 DEF NoVisitMissed
  <2>1. v <= currentTick
    BY <1>2, BoundariesApart
  <2>2. v = currentTick
    BY <2>1 DEF TimerInv, NoVisitMissed
  <2>3. PICK b \in Buckets : \E i \in DOMAIN wheels[b] : t = wheels[b][i]
    BY TimersOf
  <2>4. PICK i \in DOMAIN wheels[b] : t = wheels[b][i]
    BY <2>3
  <2>5. b = Bucket(currentTick)
    BY <2>2, <2>4 DEF TimerInv, Good, InPlace
  <2>6. i \in DOMAIN Scanned /\ t = Scanned[i]
    BY <2>4, <2>5 DEF Scanned
  <2>7. i < at
    BY <1>1, <2>6
  <2>8. t.expire > until /\ currentTick <= until
    BY <1>1, <2>6, <2>7 DEF TimerInv, Walking
  <2>9. t.expire <= t.due
    BY DEF TimerInv, ExpiryBeforeDue
  <2>10. t.expire \in Nat /\ t.due \in Nat
    BY TimersTyped DEF Timer
  <2> QED
    BY <2>2, <2>8, <2>9, <2>10
<1> QED
  BY <1>3, <1>4, <1>6, <1>7 DEF TimerInv

\* Every step keeps the invariant that does not bring an id round.
LEMMA TimerNext == TimerInv /\ [Next]_vars /\ [nextId' >= nextId]_nextId => TimerInv'
<1> SUFFICES ASSUME TimerInv, [Next]_vars, [nextId' >= nextId]_nextId
             PROVE  TimerInv'
  OBVIOUS
<1>0. nextId' >= nextId
  BY Typed
<1>1. ASSUME NEW id, Cancel(id)
      PROVE  TimerInv'
  BY <1>1, CancelKeeps
<1>2. CASE Clear
  BY <1>2, ClearKeeps
<1>3. CASE CallbackReturns
  BY <1>0, <1>3, CallbackReturnsKeeps
<1>4. CASE NextBucket
  BY <1>4, NextBucketKeeps
<1>5. CASE UNCHANGED vars
  BY <1>5 DEF vars, history, TimerInv, TypeOK, Fates, Walking, Scanned, NoVisitMissed,
              ExpiryBeforeDue
<1> QED
  BY <1>0, <1>1, <1>2, <1>3, <1>4, <1>5, ScheduleKeeps, WalkKeeps DEF Next

\* It holds always.
LEMMA TimerInvHolds == Spec /\ NoIdReused => []TimerInv
BY TimerInit, TimerNext, PTL DEF Spec, NoIdReused

-----------------------------------------------------------------------------
(***************************************************************************)
(* Theorems.                                                               *)
(***************************************************************************)

(* Whatever callbacks schedule and cancel while tick walks their list, a   *)
(* timer waits in the bucket of its expiry, or has fired, or was           *)
(* cancelled, or was cleared: one of these and never two.                  *)
THEOREM NeverLost == Spec /\ NoIdReused => []NothingLost
<1>1. TimerInv => NothingLost
  <2> SUFFICES ASSUME TimerInv
               PROVE  NothingLost
    OBVIOUS
  <2>1. {timer.id : timer \in Pending} = Ids(wheels)
    BY DEF Pending, Ids, Timers
  <2> DEFINE fates == <<Ids(wheels), fired, cancelled, cleared>>
  <2>2. UNION {fates[i] : i \in DOMAIN fates} = 1 .. nextId - 1
    <3>1. UNION {fates[i] : i \in DOMAIN fates} = Ids(wheels) \cup fired \cup cancelled \cup cleared
      <4>1. DOMAIN fates = {1, 2, 3, 4}
        OBVIOUS
      <4>2. /\ fates[1] = Ids(wheels) /\ fates[2] = fired
            /\ fates[3] = cancelled /\ fates[4] = cleared
        OBVIOUS
      <4> HIDE DEF fates
      <4> QED
        BY <4>1, <4>2
    <3> QED
      BY <3>1 DEF TimerInv, Fates
  <2>3. \A i, j \in DOMAIN fates : i # j => fates[i] \cap fates[j] = {}
    BY DEF TimerInv, Fates
  <2>4. ASSUME NEW b \in Buckets, NEW timer \in ToSet(wheels[b])
        PROVE  b = Bucket(timer.expire)
    <3>1. PICK i \in DOMAIN wheels[b] : timer = wheels[b][i]
      BY <2>4 DEF ToSet
    <3> QED
      BY <3>1 DEF TimerInv, Good, InPlace
  <2> QED
    BY <2>1, <2>2, <2>3, <2>4 DEF NothingLost
<1> QED
  BY <1>1, TimerInvHolds, PTL

(* A timer set for a tick boundary that had not passed fires in the first  *)
(* tick that reaches it: no tick leaves its bucket with it behind.         *)
THEOREM OnTime == Spec /\ NoIdReused => []BoundaryTimersOnTime
<1>1. TimerInv => BoundaryTimersOnTime
  <2> SUFFICES ASSUME TimerInv, NEW timer \in Timers(wheels),
                      timer.due = timer.expire, timer.expire % Interval = 0
               PROVE  timer.expire >= currentTick
    BY DEF BoundaryTimersOnTime, Pending, Timers
  <2>1. timer.expire \in Nat /\ currentTick \in Nat
    BY Typed, TimersTyped DEF Timer
  <2>2. ~(timer.expire < currentTick)
    BY <2>1 DEF TimerInv, NoVisitMissed
  <2> QED
    BY <2>1, <2>2
<1> QED
  BY <1>1, TimerInvHolds, PTL

(* No timer waits for more than one revolution of the wheel after it could *)
(* first have fired, whatever its expiry and however far tick jumps.       *)
THEOREM LateByOneRevolution == Spec /\ NoIdReused => []LateByAtMostOneRevolution
<1>1. TimerInv => LateByAtMostOneRevolution
  <2> SUFFICES ASSUME TimerInv, NEW timer \in Timers(wheels)
               PROVE  currentTick <= timer.due + Interval * WheelSize
    BY DEF LateByAtMostOneRevolution, Pending, Timers
  <2>1. timer.expire \in Nat /\ timer.due \in Nat /\ currentTick \in Nat
    BY Typed, TimersTyped DEF Timer
  <2>2. Bucket(timer.expire) \in Buckets
    BY <2>1, BucketTyped
  <2>3. PICK v \in Nat : /\ v % Interval = 0 /\ Bucket(v) = Bucket(timer.expire)
                         /\ timer.due <= v /\ v < timer.due + Interval * WheelSize
    BY <2>1, <2>2, RevolutionVisits
  <2>4. ~(v < currentTick)
    BY <2>3 DEF TimerInv, NoVisitMissed
  <2>5. Interval * WheelSize \in Nat
    BY Constants
  <2> QED
    BY <2>1, <2>3, <2>4, <2>5
<1> QED
  BY <1>1, TimerInvHolds, PTL

(* Every node of every bucket is a timer, the current tick is a tick       *)
(* boundary, and what fired, was cancelled or was cleared had been given   *)
(* an id before: the bookkeeping that the other theorems rest on.          *)
THEOREM TimersStayTyped == Spec /\ NoIdReused => []TypeOK
<1>1. TimerInv => TypeOK
  BY DEF TimerInv
<1> QED
  BY <1>1, TimerInvHolds, PTL

=============================================================================
