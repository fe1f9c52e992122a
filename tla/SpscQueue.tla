------------------------------ MODULE SpscQueue ------------------------------
(***************************************************************************)
(* SpscQueue<T, N> (core/ring_buffer.hpp): push on one thread, pop on      *)
(* another, under the C++ memory model.                                    *)
(*                                                                         *)
(* An atomic is its modification order, the sequence of the values stored  *)
(* in it.  A thread reads its own index from the end of that order.  A     *)
(* load of the other thread's index may return any value from the last one *)
(* this thread has seen on.  An acquire load of a release store also       *)
(* synchronises with it: what the storing thread did before happens before *)
(* what the loading thread does next.  The slots of ptr are plain memory:  *)
(* two accesses, one of them a write, that nothing orders are a data race. *)
(***************************************************************************)
EXTENDS Integers, Sequences

CONSTANTS
  N,          \* slots of the ring
  Elements,   \* what is pushed
  NoElement,  \* a default-constructed T
  MaxPushes   \* bound on the elements pushed in a behaviour

ASSUME NAssumption         == N \in Nat \ {0}
ASSUME MaxPushesAssumption == MaxPushes \in Nat

Indices == 0 .. N - 1

VARIABLES
  ptr,        \* the slots
  head,       \* modification order of head_, stored by the consumer
  tail,       \* modification order of tail_, stored by the producer
  headSeen,   \* position in head of the value the producer loaded last
  tailSeen,   \* position in tail of the value the consumer loaded last
  headSynced, \* position in head of the store the producer synchronised with
  tailSynced, \* position in tail of the store the consumer synchronised with
  pushing, t, ele,   \* the producer inside push
  popping, h, out,   \* the consumer inside pop
  written,    \* written[i]: which push wrote slot i last, 0 if none
  read,       \* read[i]: which pop read slot i last, 0 if none
  sent,       \* the elements whose push returned true
  received    \* the elements pop returned

pushVars == <<pushing, t, ele, headSeen, headSynced, tail, written, sent>>
popVars  == <<popping, h, out, tailSeen, tailSynced, head, read, received>>

vars == <<ptr, pushVars, popVars>>

TypeOK ==
  /\ ptr \in [Indices -> Elements \cup {NoElement}]
  /\ head \in Seq(Indices)
  /\ tail \in Seq(Indices)
  /\ headSeen \in 1 .. Len(head)
  /\ tailSeen \in 1 .. Len(tail)
  /\ headSynced \in 1 .. headSeen
  /\ tailSynced \in 1 .. tailSeen
  /\ pushing \in {"idle", "write", "publish"}
  /\ popping \in {"idle", "read", "release"}
  /\ t \in Indices
  /\ h \in Indices
  /\ ele \in Elements \cup {NoElement}
  /\ out \in Elements \cup {NoElement}
  /\ written \in [Indices -> Nat]
  /\ read \in [Indices -> Nat]
  /\ sent \in Seq(Elements)
  /\ received \in Seq(Elements \cup {NoElement})

-----------------------------------------------------------------------------
Latest(order) == order[Len(order)]

\* (i + 1) % N
After(i) == (i + 1) % N

\* The test push returns false on: one slot always stays free.
FullWithoutWrap(tailIndex, headIndex) == tailIndex + 1 = headIndex

Full(tailIndex, headIndex) == After(tailIndex) = headIndex

EmptyWithoutWrap(tailIndex, headIndex) == tailIndex <= headIndex

Empty(tailIndex, headIndex) == tailIndex = headIndex

\* The store a thread has synchronised with after loading position seen.
SyncedByRelaxed(synced, seen) == synced

SyncedByAcquire(synced, seen) == seen

Init ==
  /\ ptr = [i \in Indices |-> NoElement]
  /\ head = <<0>> /\ tail = <<0>>
  /\ headSeen = 1 /\ tailSeen = 1
  /\ headSynced = 1 /\ tailSynced = 1
  /\ pushing = "idle" /\ t = 0 /\ ele = NoElement
  /\ popping = "idle" /\ h = 0 /\ out = NoElement
  /\ written = [i \in Indices |-> 0]
  /\ read = [i \in Indices |-> 0]
  /\ sent = <<>> /\ received = <<>>

-----------------------------------------------------------------------------
(***************************************************************************)
(* push.  The relaxed load of tail_ reads the thread's own last store.     *)
(***************************************************************************)
LoadHead(seen) ==
  /\ pushing = "idle"
  /\ seen \in headSeen .. Len(head)
  /\ headSeen' = seen
  /\ headSynced' = SyncedByAcquire(headSynced, seen)

PushFull(seen) ==
  /\ LoadHead(seen)
  /\ Full(Latest(tail), head[seen])
  /\ UNCHANGED <<ptr, pushing, t, ele, tail, written, sent, popVars>>

PushBegin(e, seen) ==
  /\ Len(sent) < MaxPushes
  /\ LoadHead(seen)
  /\ ~Full(Latest(tail), head[seen])
  /\ pushing' = "write"
  /\ t' = Latest(tail)
  /\ ele' = e
  /\ UNCHANGED <<ptr, tail, written, sent, popVars>>

PushWrite ==
  /\ pushing = "write"
  /\ ptr' = [ptr EXCEPT ![t] = ele]
  /\ written' = [written EXCEPT ![t] = Len(tail)]
  /\ pushing' = "publish"
  /\ UNCHANGED <<t, ele, headSeen, headSynced, tail, sent, popVars>>

PushPublish ==
  /\ pushing = "publish"
  /\ tail' = Append(tail, After(t))
  /\ sent' = Append(sent, ele)
  /\ pushing' = "idle"
  /\ UNCHANGED <<ptr, t, ele, headSeen, headSynced, written, popVars>>

-----------------------------------------------------------------------------
(***************************************************************************)
(* pop.  The relaxed load of head_ reads the thread's own last store.      *)
(***************************************************************************)
LoadTail(seen) ==
  /\ popping = "idle"
  /\ seen \in tailSeen .. Len(tail)
  /\ tailSeen' = seen
  /\ tailSynced' = SyncedByAcquire(tailSynced, seen)

PopEmpty(seen) ==
  /\ LoadTail(seen)
  /\ Empty(tail[seen], Latest(head))
  /\ UNCHANGED <<popping, h, out, head, read, received, ptr, pushVars>>

PopBegin(seen) ==
  /\ LoadTail(seen)
  /\ ~Empty(tail[seen], Latest(head))
  /\ popping' = "read"
  /\ h' = Latest(head)
  /\ UNCHANGED <<out, head, read, received, ptr, pushVars>>

PopRead ==
  /\ popping = "read"
  /\ out' = ptr[h]
  /\ read' = [read EXCEPT ![h] = Len(head)]
  /\ popping' = "release"
  /\ UNCHANGED <<h, tailSeen, tailSynced, head, received, ptr, pushVars>>

PopRelease ==
  /\ popping = "release"
  /\ head' = Append(head, After(h))
  /\ received' = Append(received, out)
  /\ popping' = "idle"
  /\ UNCHANGED <<h, out, tailSeen, tailSynced, read, ptr, pushVars>>

-----------------------------------------------------------------------------
Push(seen) ==
  \/ PushFull(seen)
  \/ \E e \in Elements : PushBegin(e, seen)
  \/ PushWrite
  \/ PushPublish

Pop(seen) ==
  \/ PopEmpty(seen)
  \/ PopBegin(seen)
  \/ PopRead
  \/ PopRelease

Next ==
  \/ \E seen \in 1 .. Len(head) : Push(seen)
  \/ \E seen \in 1 .. Len(tail) : Pop(seen)

Spec == Init /\ [][Next]_vars

-----------------------------------------------------------------------------
(***************************************************************************)
(* Properties.                                                             *)
(***************************************************************************)

(* The write of ptr[t] comes after the pop that last read that slot, and   *)
(* the read of ptr[h] after the push that last wrote it: this thread has   *)
(* synchronised with the release store that follows that access.           *)
(* Element n is published at position n + 1 of tail and released at        *)
(* position n + 1 of head.                                                 *)
NoDataRace ==
  /\ pushing = "write" => read[t] = 0 \/ read[t] + 1 <= headSynced
  /\ popping = "read" => written[h] # 0 /\ written[h] + 1 <= tailSynced

(* What is popped is what was pushed, in order, nothing lost or repeated.  *)
Fifo ==
  /\ Len(received) <= Len(sent)
  /\ \A n \in 1 .. Len(received) : received[n] = sent[n]

(* Whichever value of the other side's index a thread may still see, the   *)
(* verdict it comes to is right by that value: push is refused exactly if  *)
(* it leaves N - 1 elements in flight, pop exactly if it leaves none.  No  *)
(* refusal is spurious, no acceptance premature, at any wrap.              *)
RefusalsJustified ==
  /\ \A seen \in headSeen .. Len(head) :
       Full(Latest(tail), head[seen]) <=> Len(tail) - seen = N - 1
  /\ \A seen \in tailSeen .. Len(tail) :
       Empty(tail[seen], Latest(head)) <=> seen = Len(head)

(* An N-slot ring never holds more than N - 1 elements, the one being      *)
(* written included: the write index never catches up with the read index, *)
(* which would make a full ring look empty.                                *)
InFlight == Len(tail) - Len(head) + (IF pushing = "idle" THEN 0 ELSE 1)

NeverOverfull == InFlight <= N - 1

(***************************************************************************)
(* The inductive invariant.  Element n travels through slot (n - 1) % N;   *)
(* push stores the index after it at position n + 1 of tail, pop at        *)
(* position n + 1 of head.                                                 *)
(***************************************************************************)
SlotOf(n) == (n - 1) % N

IndicesWrap ==
  /\ \A n \in 1 .. Len(head) : head[n] = SlotOf(n)
  /\ \A n \in 1 .. Len(tail) : tail[n] = SlotOf(n)

HistoriesMatch ==
  /\ Len(sent) = Len(tail) - 1
  /\ Len(received) = Len(head) - 1

\* What a thread last saw of the other's index still leaves it room to
\* write, or something to read.
ViewsSafe ==
  /\ headSynced = headSeen /\ tailSynced = tailSeen
  /\ Len(head) <= tailSeen
  /\ Len(tail) - headSeen <= N - 1
  /\ pushing # "idle" => t = SlotOf(Len(tail)) /\ Len(tail) - headSeen < N - 1
  /\ popping # "idle" => h = SlotOf(Len(head)) /\ Len(head) < tailSeen

\* Every element not yet released is intact in its slot.
WaitingIntact ==
  /\ \A n \in Len(head) .. Len(tail) - 1 :
       ptr[SlotOf(n)] = sent[n] /\ written[SlotOf(n)] = n
  /\ pushing # "idle" => ele \in Elements
  /\ pushing = "publish" => ptr[t] = ele /\ written[t] = Len(tail)
  /\ popping = "release" => out = sent[Len(head)]

ReadsReleased ==
  \A i \in Indices : read[i] # 0 =>
    /\ SlotOf(read[i]) = i
    /\ read[i] <= Len(head)
    /\ read[i] = Len(head) => popping = "release"

(* The queue's inductive invariant: its type, the five parts above and     *)
(* FIFO order.                                                             *)
IInv ==
  /\ TypeOK
  /\ IndicesWrap
  /\ HistoriesMatch
  /\ ViewsSafe
  /\ WaitingIntact
  /\ ReadsReleased
  /\ Fifo

(* push and pop are the ends of a FIFO with room for N - 1 elements, push  *)
(* taking effect at its release store and pop at its own.                  *)
Queue == INSTANCE BoundedFifo WITH Room <- N - 1

ImplementsBoundedFifo == Queue!Spec

=============================================================================
