---------------------------- MODULE SpscQueueProofs ----------------------------
(***************************************************************************)
(* Theorems about SpscQueue for every ring size N, every set of elements   *)
(* and every number of pushes.                                             *)
(***************************************************************************)
EXTENDS SpscQueue, TLAPS

-----------------------------------------------------------------------------
(***************************************************************************)
(* Arithmetic modulo the size of the ring.                                 *)
(***************************************************************************)

(* Division with remainder: what % means in (t + 1) % N.                   *)
LEMMA DivMod ==
  ASSUME NEW m \in Nat \ {0}, NEW a \in Nat
  PROVE  \E q \in Nat, r \in 0 .. m - 1 : a = m * q + r /\ a % m = r
<1>1. /\ a \div m \in Nat
      /\ a % m \in 0 .. m - 1
      /\ a = (m * (a \div m)) + (a % m)
  OBVIOUS
<1> QED BY <1>1

(* A remainder below the modulus is the remainder.                         *)
LEMMA ModOf ==
  ASSUME NEW m \in Nat \ {0}, NEW q \in Nat, NEW r \in 0 .. m - 1
  PROVE  (m * q + r) % m = r
OBVIOUS

(* No positive multiple of m is below m.                                   *)
LEMMA NoMultiple ==
  ASSUME NEW m \in Nat \ {0}, NEW d \in Int, m * d < m
  PROVE  m * d <= 0
<1>1. d < 1
  OBVIOUS
<1> QED BY <1>1

(* Fewer than m consecutive elements occupy different slots of the ring.   *)
LEMMA ModInjective ==
  ASSUME NEW m \in Nat \ {0}, NEW a \in Nat, NEW b \in Nat, a < b, b - a < m
  PROVE  a % m # b % m
<1> SUFFICES ASSUME a % m = b % m
             PROVE  FALSE
  OBVIOUS
<1>1. PICK p \in Nat, r \in 0 .. m - 1 : a = m * p + r /\ a % m = r
  BY DivMod
<1>2. PICK q \in Nat, s \in 0 .. m - 1 : b = m * q + s /\ b % m = s
  BY DivMod
<1>3. b - a = m * (q - p)
  BY <1>1, <1>2
<1> QED BY <1>3, NoMultiple

(* Advancing an index and wrapping commute.                                *)
LEMMA ModSuccessor ==
  ASSUME NEW m \in Nat \ {0}, NEW a \in Nat
  PROVE  ((a % m) + 1) % m = (a + 1) % m
<1>1. PICK q \in Nat, r \in 0 .. m - 1 : a = m * q + r /\ a % m = r
  BY DivMod
<1>2. CASE r + 1 < m
  <2>1. (m * q + (r + 1)) % m = r + 1
    BY <1>2, ModOf
  <2>2. (m * 0 + (r + 1)) % m = r + 1
    BY <1>2, ModOf
  <2> QED BY <1>1, <2>1, <2>2
<1>3. CASE r + 1 = m
  <2>1. (m * (q + 1) + 0) % m = 0
    BY ModOf
  <2>2. (m * 1 + 0) % m = 0
    BY ModOf
  <2>3. a + 1 = m * (q + 1) + 0
    BY <1>1, <1>3
  <2> QED BY <1>1, <1>3, <2>1, <2>2, <2>3
<1> QED BY <1>1, <1>2, <1>3

(* The slots of the elements: in range, successive and distinct within N.  *)
LEMMA SlotOfRange ==
  ASSUME NEW n \in Nat \ {0}
  PROVE  SlotOf(n) \in Indices
BY NAssumption DEF SlotOf, Indices

(* After(i) is the slot of the next element.                               *)
LEMMA SlotOfNext ==
  ASSUME NEW n \in Nat \ {0}
  PROVE  After(SlotOf(n)) = SlotOf(n + 1)
<1>1. n - 1 \in Nat
  OBVIOUS
<1>2. (((n - 1) % N) + 1) % N = ((n - 1) + 1) % N
  BY ONLY <1>1, NAssumption, ModSuccessor, Zenon
<1>3. (n - 1) + 1 = (n + 1) - 1
  OBVIOUS
<1> QED BY <1>2, <1>3 DEF After, SlotOf

(* Fewer than N elements apart, two elements occupy different slots.       *)
LEMMA SlotOfDiffers ==
  ASSUME NEW a \in Nat \ {0}, NEW b \in Nat \ {0}, a < b, b - a < N
  PROVE  SlotOf(a) # SlotOf(b)
<1>1. a - 1 \in Nat /\ b - 1 \in Nat /\ a - 1 < b - 1 /\ (b - 1) - (a - 1) < N
  BY NAssumption
<1>2. (a - 1) % N # (b - 1) % N
  BY ONLY <1>1, NAssumption, ModInjective, Zenon
<1> QED BY <1>2 DEF SlotOf

-----------------------------------------------------------------------------
(* The empty ring satisfies the invariant.                                 *)
LEMMA InitIInv == Init => IInv
<1> SUFFICES ASSUME Init PROVE IInv
  OBVIOUS
<1> USE NAssumption DEF Init
<1>0. 0 \in Indices /\ SlotOf(1) = 0
  BY DEF Indices, SlotOf
<1>1. TypeOK
  BY <1>0 DEF TypeOK
<1>2. IndicesWrap
  BY <1>0 DEF IndicesWrap
<1>3. HistoriesMatch /\ ViewsSafe /\ WaitingIntact /\ ReadsReleased /\ Fifo
  BY DEF HistoriesMatch, ViewsSafe, WaitingIntact, ReadsReleased, Fifo, Indices
<1> QED BY <1>1, <1>2, <1>3 DEF IInv

(* What every step relies on: positive lengths and indices in range.       *)
LEMMA Facts ==
  ASSUME IInv
  PROVE  /\ Len(head) \in Nat \ {0} /\ Len(tail) \in Nat \ {0}
         /\ Len(sent) \in Nat /\ Len(received) \in Nat
         /\ headSeen \in Nat /\ tailSeen \in Nat /\ N \in Nat
         /\ Len(head) <= Len(tail) /\ Len(tail) - Len(head) <= N - 1
         /\ Latest(head) = SlotOf(Len(head)) /\ Latest(tail) = SlotOf(Len(tail))
<1>1. Len(head) \in Nat /\ Len(tail) \in Nat /\ Len(sent) \in Nat /\ Len(received) \in Nat
  <2>1. /\ head \in Seq(Indices) /\ tail \in Seq(Indices)
        /\ sent \in Seq(Elements) /\ received \in Seq(Elements \cup {NoElement})
    BY DEF IInv, TypeOK
  <2> QED BY ONLY <2>1
<1>2. headSeen \in 1 .. Len(head) /\ tailSeen \in 1 .. Len(tail)
  BY DEF IInv, TypeOK
<1>a. Len(head) <= Len(tail) /\ Len(tail) - Len(head) <= N - 1
  <2>1. Len(head) <= tailSeen /\ Len(tail) - headSeen <= N - 1
    BY DEF IInv, ViewsSafe
  <2> QED BY ONLY <1>1, <1>2, <2>1, NAssumption
<1>3. Latest(head) = SlotOf(Len(head)) /\ Latest(tail) = SlotOf(Len(tail))
  BY <1>1, <1>2 DEF IInv, IndicesWrap, Latest
<1> QED BY <1>1, <1>2, <1>a, <1>3, NAssumption

(* A push refused by a full ring changes only what the producer has seen.  *)
LEMMA PushFullIInv ==
  ASSUME IInv, NEW seen \in 1 .. Len(head), PushFull(seen)
  PROVE  IInv'
<1>1. /\ headSeen' = seen /\ headSynced' = seen /\ headSeen <= seen /\ pushing = "idle"
      /\ UNCHANGED <<ptr, pushing, t, ele, tail, written, sent,
                     popping, h, out, tailSeen, tailSynced, head, read, received>>
  BY DEF IInv, TypeOK, PushFull, LoadHead, SyncedByAcquire, popVars
<1>2. TypeOK'
  <2>1. headSeen' \in 1 .. Len(head') /\ headSynced' \in 1 .. headSeen'
    BY <1>1, Facts
  <2> QED BY <1>1, <2>1 DEF IInv, TypeOK
<1>3. ViewsSafe'
  <2>1. Len(tail) - seen <= N - 1
    <3>1. Len(tail) - headSeen <= N - 1
      BY DEF IInv, ViewsSafe
    <3> QED BY <1>1, <3>1, Facts
  <2> QED BY <1>1, <2>1 DEF IInv, ViewsSafe, SlotOf
<1>4. IndicesWrap' /\ HistoriesMatch' /\ WaitingIntact' /\ ReadsReleased' /\ Fifo'
  BY <1>1 DEF IInv, IndicesWrap, HistoriesMatch, WaitingIntact, ReadsReleased, Fifo, SlotOf
<1> QED BY <1>2, <1>3, <1>4 DEF IInv

(* A push that finds the ring not full in its view has room: the index it  *)
(* saw differs from the one after its own, so fewer than N - 1 elements    *)
(* separate them.                                                          *)
LEMMA RoomSeen ==
  ASSUME IInv, NEW seen \in headSeen .. Len(head), ~Full(Latest(tail), head[seen])
  PROVE  Len(tail) - seen < N - 1
<1> DEFINE last == Len(tail)
<1>1. /\ seen \in Nat \ {0} /\ last \in Nat \ {0} /\ last - seen <= N - 1
      /\ N \in Nat \ {0} /\ seen \in 1 .. Len(head)
  <2>1. last - headSeen <= N - 1 /\ headSeen \in 1 .. Len(head)
    BY DEF IInv, TypeOK, ViewsSafe
  <2> QED BY <2>1, Facts, NAssumption
<1>2. SlotOf(last + 1) # SlotOf(seen)
  <2>1. head[seen] = SlotOf(seen)
    BY <1>1 DEF IInv, IndicesWrap
  <2>2. After(Latest(tail)) = SlotOf(last + 1)
    BY <1>1, Facts, SlotOfNext
  <2> QED BY <2>1, <2>2 DEF Full
<1>3. ASSUME last - seen = N - 1
      PROVE  SlotOf(last + 1) = SlotOf(seen)
  <2> HIDE DEF last
  <2>1. seen - 1 \in Nat
    BY <1>1
  <2>2. PICK q \in Nat, r \in 0 .. N - 1 : seen - 1 = N * q + r /\ (seen - 1) % N = r
    BY ONLY <2>1, NAssumption, DivMod
  <2>3. last = N * (q + 1) + r
    <3>1. last = N + (N * q + r)
      BY <1>1, <1>3, <2>2
    <3>2. N * (q + 1) = N * q + N /\ N * q \in Int
      BY NAssumption
    <3> QED BY <3>1, <3>2, NAssumption
  <2>4. (N * (q + 1) + r) % N = r
    <3>1. q + 1 \in Nat
      OBVIOUS
    <3> QED BY <3>1, NAssumption, ModOf, Zenon
  <2>5. (last + 1) - 1 = last
    BY <1>1
  <2> QED BY <2>2, <2>3, <2>4, <2>5 DEF SlotOf
<1> HIDE DEF last
<1>4. last - seen # N - 1
  BY <1>2, <1>3
<1>5. last - seen < N - 1
  BY <1>1, <1>4
<1> QED BY <1>5 DEF last

(* A push that begins has room in its view (RoomSeen).                     *)
LEMMA PushBeginIInv ==
  ASSUME IInv, NEW e \in Elements, NEW seen \in 1 .. Len(head), PushBegin(e, seen)
  PROVE  IInv'
<1>1. /\ headSeen' = seen /\ headSynced' = seen /\ seen \in headSeen .. Len(head)
      /\ pushing = "idle" /\ pushing' = "write" /\ ele' = e
      /\ t' = Latest(tail) /\ ~Full(Latest(tail), head[seen])
      /\ UNCHANGED <<ptr, tail, written, sent,
                     popping, h, out, tailSeen, tailSynced, head, read, received>>
  BY DEF PushBegin, LoadHead, SyncedByAcquire, popVars
<1>2. t' = SlotOf(Len(tail)) /\ t' \in Indices
  BY <1>1, Facts, SlotOfRange
<1>3. TypeOK'
  <2>1. headSeen' \in 1 .. Len(head') /\ headSynced' \in 1 .. headSeen'
    BY <1>1, Facts
  <2> QED BY <1>1, <1>2, <2>1 DEF IInv, TypeOK
<1>4. ViewsSafe'
  <2>1. Len(tail) - seen < N - 1
    BY <1>1, RoomSeen
  <2>2. Len(tail) - seen <= N - 1
    BY <2>1, Facts
  <2> QED BY <1>1, <1>2, <2>1, <2>2 DEF IInv, ViewsSafe, SlotOf
<1>5. IndicesWrap' /\ HistoriesMatch' /\ WaitingIntact' /\ ReadsReleased' /\ Fifo'
  BY <1>1 DEF IInv, IndicesWrap, HistoriesMatch, WaitingIntact, ReadsReleased, Fifo, SlotOf
<1> QED BY <1>3, <1>4, <1>5 DEF IInv

(* The slot written is none of those still waiting to be popped.           *)
LEMMA PushWriteIInv ==
  ASSUME IInv, PushWrite
  PROVE  IInv'
<1> USE NAssumption, Facts DEF PushWrite, popVars
<1>1. TypeOK'
  BY DEF IInv, TypeOK, WaitingIntact
<1>2. IndicesWrap' /\ HistoriesMatch' /\ ViewsSafe' /\ ReadsReleased' /\ Fifo'
  BY DEF IInv, IndicesWrap, HistoriesMatch, ViewsSafe, ReadsReleased, Fifo, SlotOf
<1>3. WaitingIntact'
  <2>1. t = SlotOf(Len(tail)) /\ t \in Indices
    BY DEF IInv, TypeOK, ViewsSafe
  <2>2. ASSUME NEW n \in Len(head) .. Len(tail) - 1
        PROVE  SlotOf(n) # t /\ SlotOf(n) \in Indices
    <3>1. n \in Nat \ {0} /\ n < Len(tail) /\ Len(tail) - n < N
      OBVIOUS
    <3> QED BY <2>1, <3>1, SlotOfDiffers, SlotOfRange
  <2>3. ASSUME NEW n \in Len(head) .. Len(tail) - 1
        PROVE  ptr'[SlotOf(n)] = ptr[SlotOf(n)] /\ written'[SlotOf(n)] = written[SlotOf(n)]
    BY <2>2 DEF IInv, TypeOK
  <2>4. ptr'[t] = ele /\ written'[t] = Len(tail)
    BY <2>1 DEF IInv, TypeOK
  <2> QED BY <2>3, <2>4 DEF IInv, WaitingIntact, SlotOf
<1> QED BY <1>1, <1>2, <1>3 DEF IInv

(* The release store of push appends the written element to the waiting.   *)
LEMMA PushPublishIInv ==
  ASSUME IInv, PushPublish
  PROVE  IInv'
<1>1. /\ pushing = "publish" /\ pushing' = "idle"
      /\ tail' = Append(tail, After(t)) /\ sent' = Append(sent, ele)
      /\ UNCHANGED <<ptr, t, ele, headSeen, headSynced, written,
                     popping, h, out, tailSeen, tailSynced, head, read, received>>
  BY DEF PushPublish, popVars
<1>2. /\ t = SlotOf(Len(tail)) /\ ele \in Elements /\ ptr[t] = ele /\ written[t] = Len(tail)
      /\ Len(tail) - headSeen < N - 1 /\ Len(sent) = Len(tail) - 1
      /\ tail \in Seq(Indices) /\ sent \in Seq(Elements)
  BY <1>1 DEF IInv, TypeOK, ViewsSafe, WaitingIntact, HistoriesMatch
<1>3. After(t) = SlotOf(Len(tail) + 1) /\ After(t) \in Indices
  <2>1. Len(tail) \in Nat \ {0} /\ Len(tail) + 1 \in Nat \ {0}
    BY Facts
  <2>2. After(SlotOf(Len(tail))) = SlotOf(Len(tail) + 1)
    BY ONLY <2>1, SlotOfNext, Zenon
  <2>3. SlotOf(Len(tail) + 1) \in Indices
    BY ONLY <2>1, SlotOfRange, Zenon
  <2> QED BY <1>2, <2>2, <2>3
<1>4. /\ tail' \in Seq(Indices) /\ Len(tail') = Len(tail) + 1
      /\ tail'[Len(tail) + 1] = After(t)
      /\ \A n \in 1 .. Len(tail) : tail'[n] = tail[n]
  BY <1>1, <1>2, <1>3
<1>5. /\ sent' \in Seq(Elements) /\ Len(sent') = Len(sent) + 1
      /\ sent'[Len(sent) + 1] = ele
      /\ \A n \in 1 .. Len(sent) : sent'[n] = sent[n]
  BY <1>1, <1>2
<1>6. TypeOK'
  <2>1. tailSeen' \in 1 .. Len(tail')
    BY <1>1, <1>4, Facts DEF IInv, TypeOK
  <2> QED BY <1>1, <1>4, <1>5, <2>1 DEF IInv, TypeOK
<1>7. IndicesWrap'
  <2>1. ASSUME NEW n \in 1 .. Len(tail')
        PROVE  tail'[n] = SlotOf(n)
    <3>1. CASE n = Len(tail) + 1
      BY <1>3, <1>4, <3>1
    <3>2. CASE n \in 1 .. Len(tail)
      BY <1>4, <3>2 DEF IInv, IndicesWrap
    <3> QED BY <1>4, <3>1, <3>2, Facts
  <2> QED BY <1>1, <2>1 DEF IInv, IndicesWrap, SlotOf
<1>8. HistoriesMatch'
  BY <1>1, <1>2, <1>4, <1>5, Facts DEF IInv, HistoriesMatch
<1>9. ViewsSafe'
  <2>1. Len(tail') - headSeen' <= N - 1
    BY <1>1, <1>2, <1>4, Facts
  <2> QED BY <1>1, <2>1 DEF IInv, ViewsSafe, SlotOf
<1>10. WaitingIntact'
  <2>1. ASSUME NEW n \in Len(head) .. Len(tail)
        PROVE  ptr[SlotOf(n)] = sent'[n] /\ written[SlotOf(n)] = n
    <3>1. CASE n = Len(tail)
      BY <1>2, <1>5, <3>1, Facts
    <3>2. CASE n \in Len(head) .. Len(tail) - 1
      <4>1. n \in 1 .. Len(sent)
        BY <1>2, <3>2, Facts
      <4> QED BY <1>5, <3>2, <4>1 DEF IInv, WaitingIntact
    <3> QED BY <3>1, <3>2, Facts
  <2>2. Len(head) .. Len(tail') - 1 = Len(head) .. Len(tail)
    BY <1>4, Facts
  <2>3. popping = "release" => out = sent'[Len(head)]
    <3> SUFFICES ASSUME popping = "release"
                 PROVE  out = sent'[Len(head)]
      OBVIOUS
    <3>1. out = sent[Len(head)] /\ Len(head) < tailSeen /\ tailSeen \in 1 .. Len(tail)
      BY DEF IInv, TypeOK, WaitingIntact, ViewsSafe
    <3>2. Len(head) \in 1 .. Len(sent)
      BY <1>2, <3>1, Facts
    <3> QED BY <1>5, <3>1, <3>2
  <2> QED BY <1>1, <2>1, <2>2, <2>3 DEF IInv, WaitingIntact, SlotOf
<1>11. ReadsReleased'
  BY <1>1 DEF IInv, ReadsReleased, SlotOf
<1>12. Fifo'
  BY <1>1, <1>5, Facts DEF IInv, Fifo
<1> QED BY <1>6, <1>7, <1>8, <1>9, <1>10, <1>11, <1>12 DEF IInv

(* A pop of an empty ring changes only what the consumer has seen.         *)
LEMMA PopEmptyIInv ==
  ASSUME IInv, NEW seen \in 1 .. Len(tail), PopEmpty(seen)
  PROVE  IInv'
<1>1. /\ tailSeen' = seen /\ tailSynced' = seen /\ seen \in tailSeen .. Len(tail)
      /\ popping = "idle"
      /\ UNCHANGED <<ptr, pushing, t, ele, headSeen, headSynced, tail, written, sent,
                     popping, h, out, head, read, received>>
  BY DEF PopEmpty, LoadTail, SyncedByAcquire, pushVars
<1>2. TypeOK'
  <2>1. tailSeen' \in 1 .. Len(tail') /\ tailSynced' \in 1 .. tailSeen'
    BY <1>1, Facts
  <2> QED BY <1>1, <2>1 DEF IInv, TypeOK
<1>3. ViewsSafe'
  <2>1. Len(head) <= seen
    BY <1>1, Facts DEF IInv, ViewsSafe
  <2> QED BY <1>1, <2>1 DEF IInv, ViewsSafe, SlotOf
<1>4. IndicesWrap' /\ HistoriesMatch' /\ WaitingIntact' /\ ReadsReleased' /\ Fifo'
  BY <1>1 DEF IInv, IndicesWrap, HistoriesMatch, WaitingIntact, ReadsReleased, Fifo, SlotOf
<1> QED BY <1>2, <1>3, <1>4 DEF IInv

(* A pop that finds the ring not empty in its view has an element to read: *)
(* the store it saw is beyond the one its own index stands for.            *)
LEMMA PopBeginIInv ==
  ASSUME IInv, NEW seen \in 1 .. Len(tail), PopBegin(seen)
  PROVE  IInv'
<1>1. /\ tailSeen' = seen /\ tailSynced' = seen /\ seen \in tailSeen .. Len(tail)
      /\ popping = "idle" /\ popping' = "read" /\ h' = Latest(head)
      /\ tail[seen] # Latest(head)
      /\ UNCHANGED <<ptr, pushing, t, ele, headSeen, headSynced, tail, written, sent,
                     out, head, read, received>>
  BY DEF PopBegin, LoadTail, SyncedByAcquire, Empty, pushVars
<1>2. h' = SlotOf(Len(head)) /\ h' \in Indices
  BY <1>1, Facts, SlotOfRange
<1>3. TypeOK'
  <2>1. tailSeen' \in 1 .. Len(tail') /\ tailSynced' \in 1 .. tailSeen'
    BY <1>1, Facts
  <2> QED BY <1>1, <1>2, <2>1 DEF IInv, TypeOK
<1>4. ViewsSafe'
  <2>1. Len(head) <= tailSeen
    BY DEF IInv, ViewsSafe
  <2>2. tail[seen] = SlotOf(seen) /\ Latest(head) = SlotOf(Len(head))
    BY Facts DEF IInv, IndicesWrap
  <2>3. seen # Len(head)
    BY <1>1, <2>2
  <2>4. Len(head) < seen
    BY <1>1, <2>1, <2>3, Facts
  <2>5. Len(head) <= seen
    BY <2>4, Facts
  <2> QED BY <1>1, <1>2, <2>4, <2>5 DEF IInv, ViewsSafe, SlotOf
<1>5. IndicesWrap' /\ HistoriesMatch' /\ WaitingIntact' /\ ReadsReleased' /\ Fifo'
  BY <1>1 DEF IInv, IndicesWrap, HistoriesMatch, WaitingIntact, ReadsReleased, Fifo, SlotOf
<1> QED BY <1>3, <1>4, <1>5 DEF IInv

(* The slot a pop reads holds the oldest element not yet released.         *)
LEMMA PopReadIInv ==
  ASSUME IInv, PopRead
  PROVE  IInv'
<1>1. /\ popping = "read" /\ popping' = "release" /\ out' = ptr[h]
      /\ read' = [read EXCEPT ![h] = Len(head)]
      /\ UNCHANGED <<ptr, pushing, t, ele, headSeen, headSynced, tail, written, sent,
                     h, tailSeen, tailSynced, head, received>>
  BY DEF PopRead, pushVars
<1>2. /\ h = SlotOf(Len(head)) /\ h \in Indices
      /\ read \in [Indices -> Nat] /\ ptr \in [Indices -> Elements \cup {NoElement}]
  BY <1>1 DEF IInv, TypeOK, ViewsSafe
<1>3. out' = sent[Len(head)]
  <2>1. Len(head) < tailSeen /\ tailSeen \in 1 .. Len(tail)
    BY <1>1 DEF IInv, TypeOK, ViewsSafe
  <2>2. Len(head) \in Len(head) .. Len(tail) - 1
    BY <2>1, Facts
  <2> QED BY <1>1, <1>2, <2>2 DEF IInv, WaitingIntact
<1>4. TypeOK'
  <2>1. out' \in Elements \cup {NoElement} /\ read' \in [Indices -> Nat]
    BY <1>1, <1>2, Facts
  <2> QED BY <1>1, <2>1 DEF IInv, TypeOK
<1>5. WaitingIntact'
  BY <1>1, <1>3 DEF IInv, WaitingIntact, SlotOf
<1>6. ReadsReleased'
  <2>1. ASSUME NEW i \in Indices, read'[i] # 0
        PROVE  /\ SlotOf(read'[i]) = i
               /\ read'[i] <= Len(head)
               /\ read'[i] = Len(head) => popping' = "release"
    <3>1. CASE i = h
      BY <1>1, <1>2, <3>1, Facts
    <3>2. CASE i # h
      BY <1>1, <1>2, <2>1, <3>2 DEF IInv, ReadsReleased
    <3> QED BY <3>1, <3>2
  <2> QED BY <1>1, <2>1 DEF ReadsReleased, SlotOf
<1>7. IndicesWrap' /\ HistoriesMatch' /\ ViewsSafe' /\ Fifo'
  BY <1>1 DEF IInv, IndicesWrap, HistoriesMatch, ViewsSafe, Fifo, SlotOf
<1> QED BY <1>4, <1>5, <1>6, <1>7 DEF IInv

(* The release store of pop hands over the oldest waiting element.         *)
LEMMA PopReleaseIInv ==
  ASSUME IInv, PopRelease
  PROVE  IInv'
<1>1. /\ popping = "release" /\ popping' = "idle"
      /\ head' = Append(head, After(h)) /\ received' = Append(received, out)
      /\ UNCHANGED <<ptr, pushing, t, ele, headSeen, headSynced, tail, written, sent,
                     h, out, tailSeen, tailSynced, read>>
  BY DEF PopRelease, pushVars
<1>2. /\ h = SlotOf(Len(head)) /\ out = sent[Len(head)] /\ Len(head) < tailSeen
      /\ tailSeen \in 1 .. Len(tail) /\ Len(received) = Len(head) - 1
      /\ Len(sent) = Len(tail) - 1
      /\ head \in Seq(Indices) /\ received \in Seq(Elements \cup {NoElement})
      /\ out \in Elements \cup {NoElement}
  BY <1>1 DEF IInv, TypeOK, ViewsSafe, WaitingIntact, HistoriesMatch
<1>3. After(h) = SlotOf(Len(head) + 1) /\ After(h) \in Indices
  <2>1. Len(head) \in Nat \ {0} /\ Len(head) + 1 \in Nat \ {0}
    BY Facts
  <2>2. After(SlotOf(Len(head))) = SlotOf(Len(head) + 1)
    BY ONLY <2>1, SlotOfNext, Zenon
  <2>3. SlotOf(Len(head) + 1) \in Indices
    BY ONLY <2>1, SlotOfRange, Zenon
  <2> QED BY <1>2, <2>2, <2>3
<1>4. /\ head' \in Seq(Indices) /\ Len(head') = Len(head) + 1
      /\ head'[Len(head) + 1] = After(h)
      /\ \A n \in 1 .. Len(head) : head'[n] = head[n]
  BY <1>1, <1>2, <1>3
<1>5. /\ received' \in Seq(Elements \cup {NoElement}) /\ Len(received') = Len(received) + 1
      /\ received'[Len(received) + 1] = out
      /\ \A n \in 1 .. Len(received) : received'[n] = received[n]
  BY <1>1, <1>2
<1>6. TypeOK'
  <2>1. headSeen' \in 1 .. Len(head')
    BY <1>1, <1>4, Facts DEF IInv, TypeOK
  <2> QED BY <1>1, <1>4, <1>5, <2>1 DEF IInv, TypeOK
<1>7. IndicesWrap'
  <2>1. ASSUME NEW n \in 1 .. Len(head')
        PROVE  head'[n] = SlotOf(n)
    <3>1. CASE n = Len(head) + 1
      BY <1>3, <1>4, <3>1
    <3>2. CASE n \in 1 .. Len(head)
      BY <1>4, <3>2 DEF IInv, IndicesWrap
    <3> QED BY <1>4, <3>1, <3>2, Facts
  <2> QED BY <1>1, <2>1 DEF IInv, IndicesWrap, SlotOf
<1>8. HistoriesMatch'
  BY <1>1, <1>2, <1>4, <1>5, Facts DEF IInv, HistoriesMatch
<1>9. ViewsSafe'
  <2>1. Len(head') <= tailSeen'
    BY <1>1, <1>2, <1>4, Facts
  <2> QED BY <1>1, <2>1 DEF IInv, ViewsSafe, SlotOf
<1>10. WaitingIntact'
  <2>1. ASSUME NEW n \in Len(head) + 1 .. Len(tail) - 1
        PROVE  ptr[SlotOf(n)] = sent[n] /\ written[SlotOf(n)] = n
    <3>1. n \in Len(head) .. Len(tail) - 1
      BY <2>1, Facts
    <3> QED BY <3>1 DEF IInv, WaitingIntact
  <2> QED BY <1>1, <1>4, <2>1 DEF IInv, WaitingIntact, SlotOf
<1>11. ReadsReleased'
  <2>1. ASSUME NEW i \in Indices, read[i] # 0
        PROVE  SlotOf(read[i]) = i /\ read[i] <= Len(head') /\ read[i] # Len(head')
    <3>1. SlotOf(read[i]) = i /\ read[i] <= Len(head) /\ read[i] \in Nat
      BY <2>1 DEF IInv, TypeOK, ReadsReleased
    <3> QED BY <1>4, <3>1, Facts
  <2> QED BY <1>1, <2>1 DEF ReadsReleased, SlotOf
<1>12. Fifo'
  <2>1. ASSUME NEW n \in 1 .. Len(received')
        PROVE  received'[n] = sent[n]
    <3>1. CASE n = Len(received) + 1
      BY <1>2, <1>5, <3>1, Facts
    <3>2. CASE n \in 1 .. Len(received)
      BY <1>5, <3>2 DEF IInv, Fifo
    <3> QED BY <1>5, <3>1, <3>2, Facts
  <2>2. Len(received') <= Len(sent)
    BY <1>2, <1>5, Facts
  <2> QED BY <1>1, <2>1, <2>2 DEF Fifo
<1> QED BY <1>6, <1>7, <1>8, <1>9, <1>10, <1>11, <1>12 DEF IInv

-----------------------------------------------------------------------------
(* Every step of push and pop keeps the invariant.                         *)
LEMMA NextIInv == IInv /\ [Next]_vars => IInv'
<1> SUFFICES ASSUME IInv, [Next]_vars
             PROVE  IInv'
  OBVIOUS
<1>1. ASSUME NEW seen \in 1 .. Len(head), Push(seen)
      PROVE  IInv'
  BY <1>1, PushFullIInv, PushBeginIInv, PushWriteIInv, PushPublishIInv DEF Push
<1>2. ASSUME NEW seen \in 1 .. Len(tail), Pop(seen)
      PROVE  IInv'
  BY <1>2, PopEmptyIInv, PopBeginIInv, PopReadIInv, PopReleaseIInv DEF Pop
<1>3. ASSUME UNCHANGED vars
      PROVE  IInv'
  BY <1>3 DEF vars, pushVars, popVars, IInv, TypeOK, IndicesWrap, HistoriesMatch,
              ViewsSafe, WaitingIntact, ReadsReleased, Fifo, SlotOf
<1> QED BY <1>1, <1>2, <1>3 DEF Next

(* The inductive invariant holds throughout every behaviour of the queue.  *)
THEOREM IInvInvariant == Spec => []IInv
BY InitIInv, NextIInv, PTL DEF Spec

(* Every variable of push and pop keeps its type, indices in range.        *)
THEOREM TypeCorrect == Spec => []TypeOK
<1>1. IInv => TypeOK
  BY DEF IInv
<1> QED BY <1>1, IInvInvariant, PTL

(* Elements come out of pop in the order push accepted them, none lost and *)
(* none twice.                                                             *)
THEOREM FifoOrder == Spec => []Fifo
<1>1. IInv => Fifo
  BY DEF IInv
<1> QED BY <1>1, IInvInvariant, PTL

(* The ring holds at most N - 1 elements, the one being written included:  *)
(* a full ring is never mistaken for an empty one.                         *)
THEOREM CapacityRespected == Spec => []NeverOverfull
<1>1. IInv => NeverOverfull
  <2> SUFFICES ASSUME IInv
               PROVE  NeverOverfull
    OBVIOUS
  <2>1. headSeen \in 1 .. Len(head)
    BY DEF IInv, TypeOK
  <2>2. CASE pushing = "idle"
    BY <2>2, Facts, NAssumption DEF NeverOverfull, InFlight
  <2>3. CASE pushing # "idle"
    <3>1. Len(tail) - headSeen < N - 1
      BY <2>3 DEF IInv, ViewsSafe
    <3> QED BY <2>1, <2>3, <3>1, Facts, NAssumption DEF NeverOverfull, InFlight
  <2> QED BY <2>2, <2>3
<1> QED BY <1>1, IInvInvariant, PTL

(* A push is refused exactly when the value of head_ it saw leaves no room, *)
(* a pop exactly when the value of tail_ it saw leaves nothing to read.    *)
THEOREM VerdictsRight == Spec => []RefusalsJustified
<1>1. ASSUME IInv, NEW seen \in headSeen .. Len(head)
      PROVE  Full(Latest(tail), head[seen]) <=> Len(tail) - seen = N - 1
  <2> DEFINE last == Len(tail)
  <2>1. /\ seen \in Nat \ {0} /\ last \in Nat \ {0} /\ seen \in 1 .. Len(head)
        /\ seen <= last /\ last - seen <= N - 1
    <3>1. last - headSeen <= N - 1 /\ headSeen \in 1 .. Len(head)
      BY <1>1 DEF IInv, TypeOK, ViewsSafe
    <3> QED BY <1>1, <3>1, Facts, NAssumption
  <2>2. head[seen] = SlotOf(seen) /\ After(Latest(tail)) = SlotOf(last + 1)
    <3>1. head[seen] = SlotOf(seen)
      BY <1>1, <2>1 DEF IInv, IndicesWrap
    <3>2. After(Latest(tail)) = SlotOf(last + 1)
      BY <1>1, <2>1, Facts, SlotOfNext
    <3> QED BY <3>1, <3>2
  <2>3. ASSUME last - seen # N - 1
        PROVE  ~Full(Latest(tail), head[seen])
    <3> HIDE DEF last
    <3>1. /\ last + 1 \in Nat \ {0} /\ seen < last + 1 /\ (last + 1) - seen < N
      BY <2>1, <2>3, NAssumption
    <3>2. SlotOf(seen) # SlotOf(last + 1)
      BY <2>1, <3>1, SlotOfDiffers
    <3> QED BY <2>2, <3>2 DEF Full
  <2>4. ASSUME last - seen = N - 1, ~Full(Latest(tail), head[seen])
        PROVE  FALSE
    <3>1. last - seen < N - 1
      BY <1>1, <2>4, RoomSeen
    <3> QED BY <2>1, <2>4, <3>1, NAssumption
  <2> QED BY <2>3, <2>4
<1>2. ASSUME IInv, NEW seen \in tailSeen .. Len(tail)
      PROVE  Empty(tail[seen], Latest(head)) <=> seen = Len(head)
  <2>1. /\ Len(head) <= tailSeen /\ tailSeen \in 1 .. Len(tail)
        /\ Len(head) \in Nat \ {0} /\ Len(tail) \in Nat \ {0}
        /\ Len(tail) - Len(head) <= N - 1 /\ N \in Nat
    BY <1>2, Facts DEF IInv, TypeOK, ViewsSafe
  <2>2. seen \in 1 .. Len(tail) /\ Len(head) <= seen /\ seen - Len(head) < N
    BY <1>2, <2>1
  <2>3. tail[seen] = SlotOf(seen) /\ Latest(head) = SlotOf(Len(head))
    BY <1>2, <2>2, Facts DEF IInv, IndicesWrap
  <2>4. seen # Len(head) => SlotOf(Len(head)) # SlotOf(seen)
    BY <2>1, <2>2, SlotOfDiffers
  <2> QED BY <2>3, <2>4 DEF Empty
<1>3. IInv => RefusalsJustified
  BY <1>1, <1>2 DEF RefusalsJustified
<1> QED BY <1>3, IInvInvariant, PTL

(* The release and acquire accesses of head_ and tail_ order every two     *)
(* conflicting accesses to a slot.  A slot about to be written was last    *)
(* read at least N elements ago, more than the producer's view lags; the   *)
(* slot about to be read was last written for the element being popped.    *)
THEOREM RaceFree == Spec => []NoDataRace
<1>1. IInv => NoDataRace
  <2> SUFFICES ASSUME IInv
               PROVE  NoDataRace
    OBVIOUS
  <2>1. ASSUME pushing = "write", read[t] # 0
        PROVE  read[t] + 1 <= headSynced
    <3>1. /\ t = SlotOf(Len(tail)) /\ t \in Indices /\ read[t] \in Nat \ {0}
          /\ Len(tail) - headSeen < N - 1 /\ headSynced = headSeen
          /\ headSeen \in 1 .. Len(head)
      BY <2>1 DEF IInv, TypeOK, ViewsSafe
    <3>2. SlotOf(read[t]) = t /\ read[t] <= Len(head)
      BY <2>1, <3>1 DEF IInv, ReadsReleased
    <3>3. read[t] # Len(tail)
      <4>1. ASSUME read[t] = Len(tail)
            PROVE  FALSE
        <5>1. read[t] = Len(head)
          BY <3>2, <4>1, Facts
        <5>2. popping = "release"
          BY <2>1, <3>1, <5>1 DEF IInv, ReadsReleased
        <5>3. Len(head) < tailSeen /\ tailSeen \in 1 .. Len(tail)
          BY <5>2 DEF IInv, TypeOK, ViewsSafe
        <5> QED BY <4>1, <5>1, <5>3, Facts
      <4> QED BY <4>1
    <3>4. read[t] < Len(tail)
      BY <3>1, <3>2, <3>3, Facts
    <3>5. ~(Len(tail) - read[t] < N)
      BY <3>1, <3>2, <3>4, SlotOfDiffers, Facts
    <3> QED BY <3>1, <3>5, Facts
  <2>2. ASSUME popping = "read"
        PROVE  written[h] # 0 /\ written[h] + 1 <= tailSynced
    <3>1. /\ h = SlotOf(Len(head)) /\ Len(head) < tailSeen
          /\ tailSynced = tailSeen /\ tailSeen \in 1 .. Len(tail)
      BY <2>2 DEF IInv, TypeOK, ViewsSafe
    <3>2. Len(head) \in Len(head) .. Len(tail) - 1
      BY <3>1, Facts
    <3>3. written[h] = Len(head)
      BY <3>1, <3>2 DEF IInv, WaitingIntact
    <3> QED BY <3>1, <3>3, Facts
  <2> QED BY <2>1, <2>2 DEF NoDataRace
<1> QED BY <1>1, IInvInvariant, PTL

-----------------------------------------------------------------------------
(* Every step of the two threads is a step of the bounded FIFO or leaves   *)
(* it as it is.                                                            *)
LEMMA NextImplements == IInv /\ [Next]_vars => [Queue!Next]_(Queue!vars)
<1> SUFFICES ASSUME IInv, [Next]_vars
             PROVE  [Queue!Next]_(Queue!vars)
  OBVIOUS
<1> USE DEF Queue!vars, Queue!Next
<1>1. CASE PushPublish
  <2>1. sent' = Append(sent, ele) /\ received' = received /\ pushing = "publish"
    BY <1>1 DEF PushPublish, popVars
  <2>2. /\ ele \in Elements /\ Len(tail) - headSeen < N - 1 /\ headSeen \in 1 .. Len(head)
        /\ Len(sent) = Len(tail) - 1 /\ Len(received) = Len(head) - 1
    BY <2>1 DEF IInv, TypeOK, ViewsSafe, WaitingIntact, HistoriesMatch
  <2>3. Len(sent) - Len(received) < N - 1
    BY <2>2, Facts
  <2> QED BY <2>1, <2>2, <2>3 DEF Queue!Enqueue, Queue!Waiting
<1>2. CASE PopRelease
  <2>1. received' = Append(received, out) /\ sent' = sent /\ popping = "release"
    BY <1>2 DEF PopRelease, pushVars
  <2>2. /\ out = sent[Len(head)] /\ Len(head) < tailSeen /\ tailSeen \in 1 .. Len(tail)
        /\ Len(sent) = Len(tail) - 1 /\ Len(received) = Len(head) - 1
    BY <2>1 DEF IInv, TypeOK, ViewsSafe, WaitingIntact, HistoriesMatch
  <2>3. Len(sent) - Len(received) > 0 /\ Len(received) + 1 = Len(head)
    BY <2>2, Facts
  <2> QED BY <2>1, <2>2, <2>3 DEF Queue!Dequeue, Queue!Waiting
<1>3. CASE ~PushPublish /\ ~PopRelease
  <2>1. UNCHANGED <<sent, received>>
    BY <1>3 DEF Next, Push, Pop, PushFull, PushBegin, PushWrite, PopEmpty, PopBegin,
                PopRead, vars, pushVars, popVars
  <2> QED BY <2>1
<1> QED BY <1>1, <1>2, <1>3

(* SpscQueue implements the bounded FIFO of N - 1 elements.                *)
THEOREM Implementation == Spec => ImplementsBoundedFifo
<1>1. Init => Queue!Init
  BY DEF Init, Queue!Init
<1> QED BY <1>1, NextImplements, IInvInvariant, PTL
        DEF Spec, ImplementsBoundedFifo, Queue!Spec

=============================================================================
