------------------------------ MODULE TimerWheel ------------------------------
(***************************************************************************)
(* TimerWheel (core/timer_wheel.hpp): a single ring of buckets.  tick is   *)
(* not one action: it walks the buckets and calls back into application    *)
(* code, which may schedule and cancel on the same wheel before tick goes  *)
(* on.  One action per iteration of its loops and per method a callback    *)
(* may call.                                                               *)
(*                                                                         *)
(* A callback that cancels its own timer, clears the wheel or calls tick   *)
(* would pull the list node from under tick's iterator: the model's        *)
(* callbacks do none of these.                                             *)
(***************************************************************************)
EXTENDS Integers, FiniteSets, Sequences, SequencesExt

CONSTANTS
  Interval,    \* TICK_INTERVAL_NS
  WheelSize,   \* wheel_size_
  Durations,   \* arguments of schedule
  Times,       \* arguments of schedule_at and of tick: the bound on time
  Intervals,   \* arguments of schedule_recurring
  TimerIds,    \* the values of a TimerId: 2^64
  MaxTimers    \* bound on the ids the application draws, and on what is pending

ASSUME IntervalAssumption  == Interval \in Nat \ {0}
ASSUME WheelSizeAssumption == WheelSize \in Nat \ {0}
ASSUME TimerIdsAssumption  == TimerIds \in Nat /\ TimerIds > 1
ASSUME TimesAssumption     == Durations \cup Times \cup Intervals \subseteq Nat

Buckets == 0 .. WheelSize - 1

VARIABLES
  wheels,        \* wheels_: a sequence of timers per bucket
  currentTick,   \* current_tick_
  nextId,        \* next_timer_id_
  ticking,       \* "idle", "scan" inside tick, "callback" inside a callback of it
  until,         \* current_time_ns of the tick that runs, or of the last one
  at,            \* position of it in the bucket that tick scans
  fired,         \* ids whose callback has returned
  cancelled,     \* ids cancel has found
  cleared        \* ids that clear dropped

history == <<fired, cancelled, cleared>>
vars    == <<wheels, currentTick, nextId, ticking, until, at, history>>

\* TimerNode.  recurs says that the callback is schedule_recurring's wrapper,
\* which captures period; due is the first tick at which the wheel could fire
\* the timer.
Timer == [id : 0 .. TimerIds - 1, expire : Nat, recurs : BOOLEAN, period : Nat, due : Nat]

TypeOK ==
  /\ wheels \in [Buckets -> Seq(Timer)]
  /\ currentTick \in Nat /\ currentTick % Interval = 0
  /\ nextId \in 0 .. TimerIds - 1
  /\ ticking \in {"idle", "scan", "callback"}
  /\ until \in Nat
  /\ at \in Nat \ {0}
  /\ fired \cup cancelled \cup cleared \subseteq 0 .. TimerIds - 1

Init ==
  /\ wheels = [b \in Buckets |-> <<>>]
  /\ currentTick = 0
  /\ nextId = 1
  /\ ticking = "idle"
  /\ until = 0
  /\ at = 1
  /\ fired = {} /\ cancelled = {} /\ cleared = {}

-----------------------------------------------------------------------------
Bucket(time) == (time \div Interval) % WheelSize

Scanned == wheels[Bucket(currentTick)]

Pending == UNION {ToSet(wheels[b]) : b \in Buckets}

NewTimer(expire, recurs, period) ==
  [id |-> nextId, expire |-> expire, recurs |-> recurs, period |-> period,
   due |-> IF expire < currentTick THEN currentTick ELSE expire]

\* next_timer_id_++
IdAfter == (nextId + 1) % TimerIds

PlacedOneBucketOn(w, timer) ==
  [w EXCEPT ![(Bucket(timer.expire) + 1) % WheelSize] = Append(@, timer)]

PlacedIn(w, timer) == [w EXCEPT ![Bucket(timer.expire)] = Append(@, timer)]

\* The application calls the wheel between ticks and from its callbacks.
AppRuns == ticking \in {"idle", "callback"}

Place(timer) ==
  /\ AppRuns
  /\ nextId <= MaxTimers /\ Cardinality(Pending) < MaxTimers
  /\ wheels' = PlacedIn(wheels, timer)
  /\ nextId' = IdAfter
  /\ UNCHANGED <<currentTick, ticking, until, at, history>>

Schedule(duration) ==
  Place(NewTimer(currentTick + duration, FALSE, 0))

ScheduleAt(time) ==
  Place(NewTimer(time, FALSE, 0))

ScheduleRecurring(period) ==
  Place(NewTimer(currentTick + period, TRUE, period))

-----------------------------------------------------------------------------
\* Position i of bucket b is the node tick's iterator stands on.
Running(b, i) == ticking = "callback" /\ b = Bucket(currentTick) /\ i = at

\* Erasing an earlier node of the scanned list leaves the iterator where it
\* is, one position nearer to the beginning.
PositionWithout(b, i) ==
  IF ticking = "callback" /\ b = Bucket(currentTick) /\ i < at THEN at - 1 ELSE at

\* An id that is not found returns false and changes nothing.
Cancel(id) ==
  /\ AppRuns
  /\ \E b \in Buckets : \E i \in DOMAIN wheels[b] :
       /\ wheels[b][i].id = id
       /\ ~Running(b, i)
       /\ wheels' = [wheels EXCEPT ![b] = RemoveAt(@, i)]
       /\ at' = PositionWithout(b, i)
  /\ cancelled' = cancelled \cup {id}
  /\ UNCHANGED <<currentTick, nextId, ticking, until, fired, cleared>>

Clear ==
  /\ ticking = "idle"
  /\ wheels' = [b \in Buckets |-> <<>>]
  /\ currentTick' = 0
  /\ cleared' = cleared \cup {timer.id : timer \in Pending}
  /\ UNCHANGED <<nextId, ticking, until, at, fired, cancelled>>

-----------------------------------------------------------------------------
(***************************************************************************)
(* tick, of any time: after clear it begins at 0 again.                    *)
(***************************************************************************)
Tick(now) ==
  /\ ticking = "idle"
  /\ until' = now
  /\ ticking' = IF currentTick <= now THEN "scan" ELSE "idle"
  /\ at' = 1
  /\ UNCHANGED <<wheels, currentTick, nextId, history>>

Fire ==
  /\ ticking = "scan"
  /\ at \in DOMAIN Scanned
  /\ Scanned[at].expire <= until
  /\ ticking' = "callback"
  /\ UNCHANGED <<wheels, currentTick, nextId, until, at, history>>

Skip ==
  /\ ticking = "scan"
  /\ at \in DOMAIN Scanned
  /\ Scanned[at].expire > until
  /\ at' = at + 1
  /\ UNCHANGED <<wheels, currentTick, nextId, ticking, until, history>>

\* The wrapper of a recurring timer schedules the next occurrence, under a
\* new id, before tick erases the node that fired.
CallbackReturnsAndSkips ==
  /\ ticking = "callback"
  /\ LET timer == Scanned[at]
         next  == NewTimer(currentTick + timer.period, TRUE, timer.period)
         w     == IF timer.recurs THEN PlacedIn(wheels, next) ELSE wheels
     IN  /\ wheels' = [w EXCEPT ![Bucket(currentTick)] = RemoveAt(@, at)]
         /\ nextId' = IF timer.recurs THEN IdAfter ELSE nextId
         /\ fired' = fired \cup {timer.id}
  /\ ticking' = "scan"
  /\ at' = at + 1
  /\ UNCHANGED <<currentTick, until, cancelled, cleared>>

CallbackReturnsAndKeeps ==
  /\ ticking = "callback"
  /\ LET timer == Scanned[at]
         next  == NewTimer(currentTick + timer.period, TRUE, timer.period)
     IN  /\ wheels' = IF timer.recurs THEN PlacedIn(wheels, next) ELSE wheels
         /\ nextId' = IF timer.recurs THEN IdAfter ELSE nextId
         /\ fired' = fired \cup {timer.id}
  /\ ticking' = "scan"
  /\ at' = at + 1
  /\ UNCHANGED <<currentTick, until, cancelled, cleared>>

CallbackReturns ==
  /\ ticking = "callback"
  /\ LET timer == Scanned[at]
         next  == NewTimer(currentTick + timer.period, TRUE, timer.period)
         w     == IF timer.recurs THEN PlacedIn(wheels, next) ELSE wheels
     IN  /\ wheels' = [w EXCEPT ![Bucket(currentTick)] = RemoveAt(@, at)]
         /\ nextId' = IF timer.recurs THEN IdAfter ELSE nextId
         /\ fired' = fired \cup {timer.id}
  /\ ticking' = "scan"
  /\ UNCHANGED <<currentTick, until, at, cancelled, cleared>>

NextBucketToNow ==
  /\ ticking = "scan"
  /\ at \notin DOMAIN Scanned
  /\ currentTick' = until + Interval
  /\ ticking' = "idle"
  /\ at' = 1
  /\ UNCHANGED <<wheels, nextId, until, history>>

NextBucket ==
  /\ ticking = "scan"
  /\ at \notin DOMAIN Scanned
  /\ currentTick' = currentTick + Interval
  /\ ticking' = IF currentTick + Interval <= until THEN "scan" ELSE "idle"
  /\ at' = 1
  /\ UNCHANGED <<wheels, nextId, until, history>>

Next ==
  \/ \E duration \in Durations : Schedule(duration)
  \/ \E time \in Times : ScheduleAt(time)
  \/ \E period \in Intervals : ScheduleRecurring(period)
  \/ \E id \in {timer.id : timer \in Pending} : Cancel(id)
  \/ Clear
  \/ \E now \in Times : Tick(now)
  \/ Fire \/ Skip \/ CallbackReturns \/ NextBucket

Spec == Init /\ [][Next]_vars

\* Once entered, tick runs on, and callbacks return.
FairSpec == Spec /\ WF_vars(Fire \/ Skip \/ CallbackReturns \/ NextBucket)

-----------------------------------------------------------------------------
(***************************************************************************)
(* Properties.                                                             *)
(***************************************************************************)

(* A timer waits, or has fired, or was cancelled, or was cleared: exactly  *)
(* one of these, whatever callbacks schedule and cancel while tick walks   *)
(* the list they change, as long as the ids do not come round (NoIdReused).*)
NothingLost ==
  LET waiting == {timer.id : timer \in Pending}
      fates   == <<waiting, fired, cancelled, cleared>>
  IN  /\ UNION {fates[i] : i \in DOMAIN fates} = 1 .. nextId - 1
      /\ \A i, j \in DOMAIN fates : i # j => fates[i] \cap fates[j] = {}
      /\ \A b \in Buckets : \A timer \in ToSet(wheels[b]) : b = Bucket(timer.expire)

\* 64 bits of ids last.
NoIdReused == [][nextId' >= nextId]_nextId

(* A timer set for a tick boundary not yet passed fires in the first tick  *)
(* that reaches it.                                                        *)
BoundaryTimersOnTime ==
  ticking = "idle" =>
    \A timer \in Pending :
      timer.due = timer.expire /\ timer.expire % Interval = 0 =>
        timer.expire >= currentTick

(* No timer waits for more than one revolution of the wheel after it could *)
(* first have fired.                                                       *)
LateByAtMostOneRevolution ==
  \A timer \in Pending : currentTick <= timer.due + Interval * WheelSize

(* Tick is listed at timer_wheel.hpp:14 among the operations with "Time    *)
(* complexity: O(1) for insertion, deletion, and tick operations": at      *)
(* least, it returns.                                                      *)
EveryTickReturns == ticking # "idle" ~> ticking = "idle"

(* timer_wheel.hpp:121 says tick will "Advance time and execute expired    *)
(* timers": of those set for a time not yet passed, none expired is left   *)
(* when it returns.                                                        *)
ExpiredTimersFire ==
  [][ticking = "scan" /\ ticking' = "idle" =>
       \A timer \in Pending' : timer.due = timer.expire => timer.expire > until]_vars

=============================================================================
