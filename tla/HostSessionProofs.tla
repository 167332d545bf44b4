-------------------------- MODULE HostSessionProofs --------------------------
(***************************************************************************)
(* Proofs about HostSession for every configuration of the media clock and  *)
(* every limit of the scheduler below it.                                   *)
(***************************************************************************)
EXTENDS HostSession, EventSchedulerProofs

\* The tick of k that its clock has recorded is in the scheduler.
Planned(k) == clockEvent[k] \in DOMAIN eventKeys

MediaTypeOK ==
    /\ running \in BOOLEAN /\ sameRun \in BOOLEAN
    /\ clockEvent \in [Kind -> Nat] /\ deadline \in [Kind -> Nat] /\ nth \in [Kind -> Nat]
    /\ phase \in [Kind -> Nat] /\ \A k \in Kind : phase[k] < cadence[k].denominator
    /\ \A i \in DOMAIN handler : handler[i] \in [kind : Kind, fresh : BOOLEAN]
    /\ handling \in Kind \cup {NoKind}
    /\ clockPc \in {"idle", "start_video", "start_audio", "return", "unwind"}
    /\ anchor \in Nat

\* Who is on the stack: a handler only in a callback, an advance only below
\* consume_loop(), and inject() only above neither.
StackInv ==
    /\ handling # NoKind => pc = "callback"
    /\ clockPc \in {"return", "unwind"} => pc = "callback"
    /\ pc \in {"loop", "observer"} => clockPc = "idle"
    /\ pc \in {"loop", "callback"} => loopPc = "advancing"
    /\ sessionPc = "resuming" => pc = "caller" /\ loopPc = "no"
    /\ pc = "caller" /\ clockPc # "idle" => sessionPc = "resuming"

\* The clock's own records and the scheduler name the same ticks.  An id the
\* clock still holds after a reset can not come back as another event.
RecordInv ==
    /\ \A i \in DOMAIN handler :
          i \in DOMAIN eventKeys /\ handler[i].fresh /\ clockEvent[handler[i].kind] = i
    /\ \A k \in Kind : clockEvent[k] < nextEventId
    /\ \A k \in Kind : Planned(k) => /\ clockEvent[k] \in DOMAIN handler
                                     /\ handler[clockEvent[k]].kind = k
    /\ ~running => DOMAIN handler = {}

\* Both cadences or none, with what start() and a failing handler go through.
PairInv ==
    /\ clockPc \in {"idle", "return"} => (Alive("video") <=> Alive("audio"))
    /\ clockPc = "start_video" => ~Planned("video") /\ ~Planned("audio")
    /\ clockPc = "start_audio" => Planned("video") /\ ~Planned("audio")
    /\ clockPc \in {"start_video", "start_audio"} => running /\ ~sameRun
    /\ clockPc = "unwind" => ~running

\* The interval of k in units of its denominator: a whole number.
Interval(k) == cadence[k].base * cadence[k].denominator + cadence[k].remainder

\* Deadline and phase together are the exact rational time of the n-th tick.
CadenceInv ==
    /\ running => \A k \in Kind :
          /\ deadline[k] >= anchor
          /\ (deadline[k] - anchor) * cadence[k].denominator + phase[k] = nth[k] * Interval(k)
    /\ \A k \in Kind : Planned(k) => eventKeys[clockEvent[k]] = <<deadline[k], clockEvent[k]>>

SessionInv ==
    /\ SessionAgrees
    /\ pacedCycle \in Nat /\ saves \in Nat
    /\ sessionPc = "resuming" => pacer = "running" /\ session # "Shutdown"
    /\ handling # NoKind => session = "Running"

\* A chunk in progress stays between its start and what is left of the loop.
LoopInv ==
    /\ left \in Nat /\ before \in Nat /\ goal \in Cycle
    /\ loopPc = "chunk" => currentCycle + left = goal
    /\ loopPc = "advancing" =>
          /\ before + left = goal
          /\ before <= currentCycle /\ currentCycle <= goal
          /\ advanceInProgress => effectiveTarget <= goal

HostInv ==
    /\ TimeInv
    /\ MediaTypeOK
    /\ StackInv
    /\ RecordInv
    /\ PairInv
    /\ CadenceInv
    /\ SessionInv
    /\ LoopInv

-----------------------------------------------------------------------------
(* The arithmetic of a cadence.                                             *)

\* Division with a rest.
LEMMA Division ==
    ASSUME NEW x \in Nat, NEW c \in Nat \ {0}
    PROVE  /\ x % c \in 0 .. (c - 1)
           /\ x \div c \in Nat
           /\ x = c * (x \div c) + (x % c)
OBVIOUS

\* The quotient is unique.
LEMMA Quotient ==
    ASSUME NEW x \in Nat, NEW q \in Nat, NEW r \in Nat, NEW c \in Nat \ {0},
           r < c, x = q * c + r
    PROVE  x \div c = q
OBVIOUS

\* make_cadence splits the interval without losing any of it.
LEMMA MakeCadence ==
    ASSUME NEW u \in Nat \ {0}, NEW s \in Nat \ {0}
    PROVE  LET m == make_cadence(u, s) IN
           /\ m.base \in Nat /\ m.remainder \in Nat /\ m.denominator = s
           /\ m.remainder < s
           /\ m.base * s + m.remainder = u * CyclesPerSecond
<1> DEFINE w == CyclesPerSecond \div s
           x == CyclesPerSecond % s
           p == x * u
           q == p \div s
           r == p % s
<1>1. CyclesPerSecond \in Nat
  BY MediaClockAssumption
<1>2. w \in Nat /\ x \in Nat /\ CyclesPerSecond = s * w + x
  BY <1>1, Division
<1>3. p \in Nat
  BY <1>2
<1> HIDE DEF p
<1>4. q \in Nat /\ r \in Nat /\ r < s /\ p = s * q + r
  BY <1>3, Division
<1>5. /\ make_cadence(u, s).base = w * u + q
      /\ make_cadence(u, s).remainder = r
      /\ make_cadence(u, s).denominator = s
  BY DEF make_cadence, p
<1> HIDE DEF w, x, q, r
<1>6. (w * u + q) * s + r = u * (s * w + x)
  BY <1>2, <1>4 DEF p
<1>7. w * u + q \in Nat
  BY <1>2, <1>4
<1> QED
  BY <1>2, <1>4, <1>5, <1>6, <1>7, Zenon

LEMMA CadenceFacts ==
    /\ \A k \in Kind :
          /\ cadence[k].base \in Nat /\ cadence[k].remainder \in Nat
          /\ cadence[k].denominator \in Nat \ {0}
          /\ cadence[k].remainder < cadence[k].denominator
          /\ Interval(k) \in Nat
    /\ Interval("video") = CyclesPerSecond /\ cadence["video"].denominator = FrameRate
    /\ Interval("audio") = FramesPerBuffer * CyclesPerSecond
    /\ cadence["audio"].denominator = SampleRate
<1>1. /\ CyclesPerSecond \in Nat \ {0} /\ FrameRate \in Nat \ {0}
      /\ SampleRate \in Nat \ {0} /\ FramesPerBuffer \in Nat \ {0}
  BY MediaClockAssumption
<1>2. /\ cadence["video"] = make_cadence(1, FrameRate)
      /\ cadence["audio"] = make_cadence(FramesPerBuffer, SampleRate)
  BY DEF cadence, Kind
<1>3. LET m == cadence["video"] IN
      /\ m.base \in Nat /\ m.remainder \in Nat /\ m.denominator = FrameRate
      /\ m.remainder < FrameRate
      /\ m.base * FrameRate + m.remainder = 1 * CyclesPerSecond
  BY <1>1, <1>2, MakeCadence
<1>4. LET m == cadence["audio"] IN
      /\ m.base \in Nat /\ m.remainder \in Nat /\ m.denominator = SampleRate
      /\ m.remainder < SampleRate
      /\ m.base * SampleRate + m.remainder = FramesPerBuffer * CyclesPerSecond
  BY <1>1, <1>2, MakeCadence
<1>5. FramesPerBuffer * CyclesPerSecond \in Nat /\ 1 * CyclesPerSecond = CyclesPerSecond
  BY <1>1
<1>6. Interval("video") = CyclesPerSecond /\ Interval("audio") = FramesPerBuffer * CyclesPerSecond
  BY <1>3, <1>4, <1>5, Zenon DEF Interval
<1> QED
  BY <1>1, <1>3, <1>4, <1>5, <1>6, Zenon DEF Kind

\* One step of advance_deadline(): deadline and phase move by one interval.
LEMMA OneInterval ==
    ASSUME NEW k \in Kind, MediaTypeOK
    PROVE  /\ NextPhase(k) \in Nat /\ NextPhase(k) < cadence[k].denominator
           /\ NextDeadline(k) \in Nat /\ NextDeadline(k) >= deadline[k]
           /\ NextDeadline(k) * cadence[k].denominator + NextPhase(k)
                = deadline[k] * cadence[k].denominator + phase[k] + Interval(k)
<1> DEFINE b == cadence[k].base
           r == cadence[k].remainder
           n == cadence[k].denominator
           d == deadline[k]
           f == phase[k]
<1>1. /\ b \in Nat /\ r \in Nat /\ n \in Nat \ {0} /\ r < n
      /\ d \in Nat /\ f \in Nat /\ f < n
  BY CadenceFacts, Zenon DEF MediaTypeOK
<1>2. Interval(k) = b * n + r
  BY DEF Interval
<1>3. CASE Carries(k)
  <2>1. f >= n - r /\ r # 0
    BY <1>3 DEF Carries
  <2>2. NextPhase(k) = f - (n - r) /\ NextDeadline(k) = d + b + 1
    BY <1>3 DEF NextPhase, NextDeadline
  <2> HIDE DEF b, r, n, d, f
  <2>3. (d + b + 1) * n + (f - (n - r)) = d * n + f + (b * n + r)
    BY <1>1
  <2> QED
    BY <1>1, <1>2, <2>1, <2>2, <2>3 DEF b, r, n, d, f
<1>4. CASE ~Carries(k)
  <2>1. r = 0 \/ f < n - r
    BY <1>1, <1>4 DEF Carries
  <2>2. NextPhase(k) = f + r /\ NextDeadline(k) = d + b + 0
    BY <1>4 DEF NextPhase, NextDeadline
  <2> HIDE DEF b, r, n, d, f
  <2>3. (d + b + 0) * n + (f + r) = d * n + f + (b * n + r)
    BY <1>1
  <2> QED
    BY <1>1, <1>2, <2>1, <2>2, <2>3 DEF b, r, n, d, f
<1> QED
  BY <1>3, <1>4, Zenon

\* The same relative to the start of the run: the n-th tick stays exact.
LEMMA NextTickExact ==
    ASSUME NEW k \in Kind, MediaTypeOK, deadline[k] >= anchor,
           (deadline[k] - anchor) * cadence[k].denominator + phase[k] = nth[k] * Interval(k)
    PROVE  /\ NextDeadline(k) >= anchor
           /\ (NextDeadline(k) - anchor) * cadence[k].denominator + NextPhase(k)
                = (nth[k] + 1) * Interval(k)
<1> DEFINE n == cadence[k].denominator
           d == deadline[k]
           e == NextDeadline(k)
           i == Interval(k)
<1>1. /\ n \in Nat /\ d \in Nat /\ e \in Nat /\ i \in Nat /\ anchor \in Nat /\ nth[k] \in Nat
      /\ phase[k] \in Nat /\ NextPhase(k) \in Nat
      /\ e >= d /\ e * n + NextPhase(k) = d * n + phase[k] + i
  BY OneInterval, CadenceFacts, Zenon DEF MediaTypeOK
<1>2. d >= anchor /\ (d - anchor) * n + phase[k] = nth[k] * i
  OBVIOUS
<1> HIDE DEF n, d, e, i
<1>3. e >= anchor
  BY <1>1, <1>2
<1>4. (e - anchor) * n + NextPhase(k) = (d - anchor) * n + phase[k] + i
  BY <1>1
<1>5. (nth[k] + 1) * i = nth[k] * i + i
  BY <1>1
<1>6. (e - anchor) * n + NextPhase(k) = (nth[k] + 1) * i
  BY <1>2, <1>4, <1>5, Zenon
<1> QED
  BY <1>3, <1>6, Zenon DEF n, e, i

-----------------------------------------------------------------------------
(* The scheduler below: every step is one call of it, except that stop() is  *)
(* two calls of cancel().                                                    *)

LEMMA StopKeepsTime ==
    ASSUME TimeInv, StopBody
    PROVE  TimeInv'
<1>1. QueueInv
  BY DEF TimeInv
<1>2. /\ DOMAIN eventKeys' = DOMAIN eventKeys \ Recorded
      /\ \A i \in DOMAIN eventKeys' : eventKeys'[i] = eventKeys[i]
      /\ events' = events \ {eventKeys[i] : i \in Recorded}
  BY DEF StopBody
<1>3. \A i \in DOMAIN eventKeys : eventKeys[i][2] = i
  BY <1>1 DEF QueueInv, IndexesAgree
<1>4. IndexesAgree'
  <2>1. events' = {eventKeys'[i] : i \in DOMAIN eventKeys'}
    <3>1. ASSUME NEW e \in events' PROVE e \in {eventKeys'[i] : i \in DOMAIN eventKeys'}
      <4>1. PICK i \in DOMAIN eventKeys : e = eventKeys[i]
        BY <1>1, <1>2, Zenon DEF QueueInv, IndexesAgree
      <4>2. i \notin Recorded
        BY <1>2, <4>1
      <4> QED
        BY <1>2, <4>1, <4>2, Zenon
    <3>2. ASSUME NEW i \in DOMAIN eventKeys' PROVE eventKeys'[i] \in events'
      <4>1. eventKeys'[i] = eventKeys[i] /\ i \in DOMAIN eventKeys /\ i \notin Recorded
        BY <1>2
      <4>2. eventKeys[i] \in events
        BY <1>1, <4>1 DEF QueueInv, IndexesAgree
      <4>3. \A j \in Recorded : j \in DOMAIN eventKeys /\ eventKeys[j] # eventKeys[i]
        BY <1>3, <4>1 DEF Recorded
      <4> QED
        BY <1>2, <4>1, <4>2, <4>3, Zenon
    <3> QED
      BY <3>1, <3>2
  <2>2. \A i \in DOMAIN eventKeys' : eventKeys'[i][2] = i
    BY <1>2, <1>3
  <2> QED
    BY <2>1, <2>2 DEF IndexesAgree
<1>5. TypeOK'
  BY <1>1, <1>2, Zenon DEF QueueInv, TypeOK, StopBody, observerVars, clockVars, controlVars, localVars
<1>6. QueueInv'
  BY <1>1, <1>2, <1>4, <1>5, Zenon DEF QueueInv, StopBody, NothingInThePast, AdvanceFlagExact,
     IdsIssued, PreparedValid, clockVars, controlVars, localVars
<1> QED
  BY <1>2, <1>6, SameTime, Zenon DEF StopBody, clockVars, controlVars, localVars

LEMMA TickIsCall ==
    ASSUME HostInv, NEW k \in Kind, schedule(k)
    PROVE  /\ Next /\ UNCHANGED clockVars
           /\ NextDeadline(k) \in Cycle /\ ScheduleAt(NextDeadline(k))
<1>1. NextDeadline(k) \in Cycle /\ ScheduleAt(NextDeadline(k))
  BY OneInterval DEF HostInv, schedule, CanSchedule, Cycle
<1> QED
  BY <1>1, Zenon DEF Next, ClientCall, ScheduleAt

\* A step of the session seen from the scheduler.
SchedulerCall ==
    /\ [Next]_vars
    /\ advanceInProgress => UNCHANGED guestBudget
    /\ resetGeneration' \in {resetGeneration, resetGeneration + 1}
    /\ ~advanceInProgress /\ UNCHANGED resetGeneration => UNCHANGED currentCycle

LEMMA DispatchIsCall ==
    ASSUME HostInv, NEW key \in events, DispatchEvent(key)
    PROVE  SchedulerCall
<1>1. advanceInProgress
  BY Zenon DEF DispatchEvent, HostInv, TimeInv, QueueInv, AdvanceFlagExact
<1> QED
  BY <1>1, Zenon DEF SchedulerCall, DispatchEvent, Next, AdvanceStep

LEMMA EndOfEventIsCall ==
    ASSUME CallbackReturns \/ CallbackThrows
    PROVE  SchedulerCall
BY Zenon DEF SchedulerCall, CallbackReturns, CallbackThrows, LeaveAdvance, Next, clockVars

\* A chunk ends within the guest clock's range.
LEMMA ChunkIsCall ==
    ASSUME HostInv, ConsumeChunk
    PROVE  /\ SchedulerCall
           /\ Chunk \in Nat /\ Chunk <= left /\ currentCycle \in Nat
           /\ currentCycle + Chunk \in Cycle /\ currentCycle + Chunk <= goal
<1>1. /\ currentCycle \in Nat /\ left \in Nat /\ goal \in Cycle /\ currentCycle + left = goal
      /\ LoopQuantum \in Nat
  BY HostSessionAssumption DEF HostInv, LoopInv, ConsumeChunk, TimeInv, QueueInv, TypeOK, Cycle
<1>2. Chunk \in Nat /\ Chunk <= left
  BY <1>1 DEF Chunk
<1>3. currentCycle + Chunk \in Cycle /\ currentCycle + Chunk <= goal
  BY <1>1, <1>2, SchedulerAssumption DEF Cycle
<1>4. Next
  <2>1. EventBudget \in 0 .. MaxEventBudget
    BY HostSessionAssumption, SchedulerAssumption
  <2>2. AdvanceTo(currentCycle + Chunk, EventBudget)
    BY DEF ConsumeChunk
  <2> QED
    BY <1>3, <2>1, <2>2, Zenon DEF Next, ClientCall
<1>5. UNCHANGED clockVars
  BY DEF ConsumeChunk, AdvanceTo
<1> QED
  BY <1>1, <1>2, <1>3, <1>4, <1>5, Zenon DEF SchedulerCall, clockVars

\* The guest clock and the number of resets are naturals, before and after a step.
LEMMA ClockTyped ==
    ASSUME TimeInv
    PROVE  currentCycle \in Nat /\ resetGeneration \in Nat
<1>1. currentCycle \in Cycle /\ resetGeneration \in 0 .. MaxGeneration
  BY Zenon DEF TimeInv, QueueInv, TypeOK
<1> QED
  BY <1>1, SchedulerAssumption DEF Cycle

LEMMA ClockTypedNext ==
    ASSUME TimeInv'
    PROVE  currentCycle' \in Nat /\ resetGeneration' \in Nat
<1>1. currentCycle' \in Cycle /\ resetGeneration' \in 0 .. MaxGeneration
  BY Zenon DEF TimeInv, QueueInv, TypeOK, Cycle
<1> QED
  BY <1>1, SchedulerAssumption DEF Cycle

LEMMA SchedulerStep ==
    ASSUME HostInv, [SessionNext]_allVars
    PROVE  StopBody \/ SchedulerCall
<1>1. CASE UNCHANGED vars
  BY <1>1 DEF SchedulerCall, vars, clockVars
<1>2. CASE StartStep
  BY <1>2, TickIsCall, Zenon DEF StartStep, StartSchedules, StartThrows, SchedulerCall, clockVars
<1>3. CASE TickBegins \/ \E key \in events : DeviceEventBegins(key)
  BY <1>3, DispatchIsCall, Zenon DEF TickBegins, HandlerBegins, DeviceEventBegins
<1>4. CASE TickEnds \/ DeviceEventEnds
  BY <1>4, EndOfEventIsCall, Zenon DEF TickEnds, HandlerReturns, HandlerUnwinds, DeviceEventEnds
<1>5. CASE AdvanceStops
  <2>1. advanceInProgress
    BY <1>5, Zenon DEF AdvanceStops, EventBudgetExhausted, ReachTarget, HostInv, TimeInv, QueueInv,
       AdvanceFlagExact
  <2> QED
    BY <1>5, <2>1, Zenon DEF AdvanceStops, EventBudgetExhausted, ReachTarget, SchedulerCall, Next,
       AdvanceStep, clockVars
<1>6. CASE ManualResetReturns
  BY <1>6, Zenon DEF ManualResetReturns, ResetReturns, SchedulerCall, Next, clockVars
<1>7. CASE ConsumeChunk
  BY <1>7, ChunkIsCall
<1>8. CASE InjectResumeFails \/ Shutdown
  <2>1. pc = "caller" /\ ShutdownBody
    BY <1>8, Zenon DEF InjectResumeFails, Shutdown, ShutdownBody, Outside, HostInv, StackInv
  <2>2. Clear
    BY <2>1, Zenon DEF ShutdownBody, Clear, ClientRuns
  <2> QED
    BY <2>2, Zenon DEF SchedulerCall, Clear, Next, ClientCall, clockVars
<1>9. CASE \E k \in Kind : TickCallbackReturns(k) \/ TickCallbackThrows(k)
  BY <1>1, <1>9, TickIsCall, Zenon DEF TickCallbackReturns, TickCallbackThrows, HandlerPlans,
     HandlerSkips, HandlerCannotPlan, HandlerCatches, SchedulerCall, clockVars
<1>10. CASE CallbackCallsClock \/ InjectResume \/ InjectPause
  BY <1>1, <1>10, Zenon DEF CallbackCallsClock, start, stop, ResetClock, StartBody, InjectResume,
     InjectPause
<1>11. ASSUME NEW c \in Cycle, DeviceSchedules(c) PROVE SchedulerCall
  BY <1>11, Zenon DEF DeviceSchedules, ScheduleAt, SchedulerCall, Next, ClientCall, clockVars
<1>12. ASSUME NEW b \in GuestBudgets, SetBudget(b) PROVE SchedulerCall
  <2>1. b \in Cycle /\ SetGuestCycleBudget(b) /\ pc = "caller"
    BY <1>12, HostSessionAssumption DEF SetBudget, Outside
  <2>2. ~advanceInProgress
    BY <2>1, Zenon DEF HostInv, TimeInv, QueueInv, AdvanceFlagExact
  <2> QED
    BY <2>1, <2>2, Zenon DEF SetGuestCycleBudget, SchedulerCall, Next, ClientCall
<1>13. CASE ManualReset
  <2>1. resetGeneration \in Nat
    BY ClockTyped DEF HostInv
  <2> QED
    BY <1>13, <2>1 DEF ManualReset, Reset, SchedulerCall, Next, ClientCall
<1>14. CASE InjectResumeDone \/ InjectController \/ Ended \/ UNCHANGED allVars
  BY <1>1, <1>14, Zenon DEF InjectResumeDone, InjectController, Ended, allVars
<1>15. CASE \/ ConsumeReturns \/ ConsumeThrows \/ ConsumeLoopReturns
            \/ \E g \in ConsumeSizes : consume_loop(g)
  BY <1>1, <1>15, Zenon DEF ConsumeReturns, ConsumeThrows, ConsumeLoopReturns, consume_loop
<1> QED
  BY <1>1, <1>2, <1>3, <1>4, <1>5, <1>6, <1>7, <1>8, <1>9, <1>10, <1>11, <1>12, <1>13, <1>14, <1>15,
     Zenon DEF SessionNext, RuntimeStep, CallbackEnds

\* The guest clock keeps its invariant and goes back only in a manual reset.
LEMMA GuestClockStep ==
    ASSUME HostInv, [SessionNext]_allVars
    PROVE  /\ TimeInv'
           /\ currentCycle \in Nat /\ currentCycle' \in Nat
           /\ UNCHANGED resetGeneration => currentCycle <= currentCycle'
           /\ resetGeneration \in Nat /\ resetGeneration <= resetGeneration'
<1>1. TimeInv
  BY DEF HostInv
<1>2. CASE StopBody
  <2>1. UNCHANGED currentCycle /\ UNCHANGED resetGeneration
    BY <1>2, Zenon DEF StopBody, clockVars
  <2> QED
    BY <1>1, <1>2, <2>1, StopKeepsTime, ClockTyped
<1>3. CASE SchedulerCall
  <2>1. TimeStepOK
    BY <1>1, <1>3, TimeStep, Zenon DEF SchedulerCall
  <2>2. /\ currentCycle \in Nat /\ currentCycle' \in Nat
        /\ resetGeneration \in Nat /\ resetGeneration' \in Nat
    BY <1>1, <2>1, ClockTyped, ClockTypedNext, Zenon DEF TimeStepOK
  <2> QED
    BY <1>3, <2>1, <2>2 DEF TimeStepOK, SchedulerCall
<1> QED
  BY <1>2, <1>3, SchedulerStep, Zenon

-----------------------------------------------------------------------------
(* The media clock: one lemma per kind of step.                             *)

ClockInv == MediaTypeOK /\ RecordInv /\ PairInv /\ CadenceInv

LEMMA PendingIds ==
    ASSUME HostInv
    PROVE  /\ nextEventId \in Nat \ {0}
           /\ \A i \in DOMAIN eventKeys : i \in Nat \ {0} /\ i < nextEventId
<1>1. QueueInv
  BY DEF HostInv, TimeInv
<1>2. \A i \in DOMAIN eventKeys : i \in EventId /\ eventKeys[i] \in events /\ eventKeys[i][2] = i
  BY <1>1, Zenon DEF QueueInv, TypeOK, IndexesAgree
<1> QED
  BY <1>1, <1>2, SchedulerAssumption DEF QueueInv, TypeOK, IdsIssued, EventId

\* A step that does not touch the clock or the pending events.
LEMMA ClockUntouched ==
    ASSUME ClockInv, UNCHANGED <<mediaVars, eventKeys, nextEventId>>
    PROVE  ClockInv'
BY Zenon DEF ClockInv, MediaTypeOK, RecordInv, PairInv, CadenceInv, Planned, Alive, PlansNext, mediaVars

\* stop(), alone or within reset(), start(), a handler or the session's shutdown.
LEMMA SilenceKeepsClock ==
    ASSUME HostInv, DOMAIN handler' = {}, TimeInv',
           clockEvent' = [k \in Kind |-> NoEvent], running' = FALSE, sameRun' = FALSE,
           phase' \in [Kind -> Nat], \A k \in Kind : phase'[k] < cadence[k].denominator,
           deadline' \in [Kind -> Nat],
           handling' \in Kind \cup {NoKind}, clockPc' \in {"idle", "return", "unwind"},
           UNCHANGED <<anchor, nth>>
    PROVE  ClockInv'
<1>1. nextEventId' \in Nat \ {0} /\ \A i \in DOMAIN eventKeys' : i \in Nat \ {0}
  BY SchedulerAssumption DEF TimeInv, QueueInv, TypeOK, EventId
<1>2. \A k \in Kind : clockEvent'[k] = 0 /\ clockEvent'[k] \notin DOMAIN eventKeys'
  BY <1>1 DEF NoEvent
<1>3. clockEvent' \in [Kind -> Nat]
  BY DEF NoEvent
<1>4. MediaTypeOK'
  BY <1>3, Zenon DEF MediaTypeOK, HostInv
<1>5. RecordInv'
  BY <1>1, <1>2 DEF RecordInv, Planned
<1>6. PairInv'
  BY <1>2, Zenon DEF PairInv, Planned, Alive, PlansNext, Kind
<1>7. CadenceInv'
  BY <1>2, Zenon DEF CadenceInv, Planned
<1> QED
  BY <1>4, <1>5, <1>6, <1>7, Zenon DEF ClockInv

\* The two cancel() calls of stop() reach every pending tick.
LEMMA StopSilences ==
    ASSUME HostInv, StopBody
    PROVE  /\ DOMAIN handler' = {} /\ running' = FALSE /\ sameRun' = FALSE
           /\ clockEvent' = [k \in Kind |-> NoEvent] /\ UNCHANGED <<anchor, nth>>
<1>1. \A i \in DOMAIN handler : i \in Recorded
  BY DEF HostInv, RecordInv, MediaTypeOK, Recorded
<1>2. DOMAIN eventKeys' = DOMAIN eventKeys \ Recorded
  BY DEF StopBody
<1>3. DOMAIN handler' = DOMAIN handler \cap DOMAIN eventKeys'
  BY Zenon DEF StopBody, BumpGeneration, StillPending
<1> QED
  BY <1>1, <1>2, <1>3, Zenon DEF StopBody, BumpGeneration

LEMMA ShutdownSilences ==
    ASSUME HostInv, ShutdownBody
    PROVE  /\ DOMAIN handler' = {} /\ running' = FALSE /\ sameRun' = FALSE
           /\ clockEvent' = [k \in Kind |-> NoEvent]
           /\ UNCHANGED <<anchor, nth, phase, deadline, handling, clockPc>>
<1>1. DOMAIN eventKeys' = {}
  BY DEF ShutdownBody, NoKeys
<1>2. DOMAIN handler' = DOMAIN handler \cap DOMAIN eventKeys'
  BY Zenon DEF ShutdownBody, BumpGeneration, StillPending
<1> QED
  BY <1>1, <1>2, Zenon DEF ShutdownBody, BumpGeneration

\* A schedule_video() or schedule_audio() that throws leaves well-typed values.
LEMMA FailedTickTyped ==
    ASSUME HostInv, NEW k \in Kind, ScheduleFails(k)
    PROVE  /\ phase' \in [Kind -> Nat] /\ \A j \in Kind : phase'[j] < cadence[j].denominator
           /\ deadline' \in [Kind -> Nat]
<1>1. NextPhase(k) \in Nat /\ NextPhase(k) < cadence[k].denominator /\ NextDeadline(k) \in Nat
  BY OneInterval, Zenon DEF HostInv
<1>2. /\ phase' = [phase EXCEPT ![k] = NextPhase(k)]
      /\ \E d \in {deadline[k], NextDeadline(k)} : deadline' = [deadline EXCEPT ![k] = d]
  BY Zenon DEF ScheduleFails
<1> QED
  BY <1>1, <1>2 DEF HostInv, MediaTypeOK

LEMMA ResetTyped ==
    ASSUME HostInv
    PROVE  /\ [k \in Kind |-> 0] \in [Kind -> Nat]
           /\ \A j \in Kind : [k \in Kind |-> 0][j] < cadence[j].denominator
           /\ [k \in Kind |-> currentCycle] \in [Kind -> Nat] /\ currentCycle \in Nat
<1>1. currentCycle \in Nat
  BY ClockTyped DEF HostInv
<1>2. \A j \in Kind : 0 < cadence[j].denominator
  BY CadenceFacts
<1> QED
  BY <1>1, <1>2

\* start() up to schedule_video().
LEMMA StartKeepsClock ==
    ASSUME HostInv, StartBody
    PROVE  ClockInv'
<1>1. DOMAIN handler = {} /\ DOMAIN handler' = {}
  BY Zenon DEF HostInv, RecordInv, StartBody, BumpGeneration
<1>2. \A k \in Kind : ~Planned(k) /\ ~Planned(k)'
  BY <1>1, Zenon DEF HostInv, RecordInv, Planned, StartBody, vars, queueVars
<1>3. /\ running' = TRUE /\ sameRun' = FALSE /\ clockPc' = "start_video"
      /\ phase' = [k \in Kind |-> 0] /\ deadline' = [k \in Kind |-> currentCycle]
      /\ anchor' = currentCycle /\ nth' = [k \in Kind |-> 0]
      /\ UNCHANGED <<clockEvent, handling, nextEventId>>
  BY Zenon DEF StartBody, BumpGeneration, vars, queueVars
<1>4. MediaTypeOK'
  BY <1>1, <1>3, ResetTyped, Zenon DEF HostInv, MediaTypeOK
<1>5. RecordInv'
  BY <1>1, <1>2, <1>3, Zenon DEF HostInv, RecordInv
<1>6. PairInv'
  BY <1>2, <1>3, Zenon DEF PairInv, Kind
<1>7. CadenceInv'
  <2>1. \A k \in Kind : Interval(k) \in Nat /\ cadence[k].denominator \in Nat
    BY CadenceFacts, Zenon
  <2>2. currentCycle \in Nat
    BY ResetTyped
  <2>3. \A k \in Kind : /\ deadline'[k] >= anchor'
                        /\ (deadline'[k] - anchor') * cadence[k].denominator + phase'[k]
                             = nth'[k] * Interval(k)
    BY <1>3, <2>1, <2>2
  <2> QED
    BY <1>2, <2>3, Zenon DEF CadenceInv, Interval
<1> QED
  BY <1>4, <1>5, <1>6, <1>7, Zenon DEF ClockInv

\* schedule_video() or schedule_audio() when k has nothing pending.
LEMMA TickKeepsRecords ==
    ASSUME HostInv, NEW k \in Kind, schedule(k), running, ~Planned(k),
           UNCHANGED <<handling, sameRun>>,
           clockPc' \in {"idle", "start_audio", "return"}
    PROVE  /\ MediaTypeOK' /\ RecordInv' /\ CadenceInv'
           /\ Planned(k)' /\ running'
           /\ \A j \in Kind \ {k} : Planned(j)' <=> Planned(j)
<1>1. /\ nextEventId \in Nat \ {0} /\ nextEventId' = nextEventId + 1
      /\ \A i \in DOMAIN eventKeys : i \in Nat \ {0} /\ i < nextEventId
  BY PendingIds, Zenon DEF schedule, ScheduleAt
<1>2. /\ NextPhase(k) \in Nat /\ NextPhase(k) < cadence[k].denominator
      /\ NextDeadline(k) \in Nat
  BY OneInterval, Zenon DEF HostInv
<1>3. /\ phase' = [phase EXCEPT ![k] = NextPhase(k)]
      /\ deadline' = [deadline EXCEPT ![k] = NextDeadline(k)]
      /\ clockEvent' = [clockEvent EXCEPT ![k] = nextEventId]
      /\ nth' = [nth EXCEPT ![k] = nth[k] + 1]
      /\ running' = running /\ anchor' = anchor
  BY Zenon DEF schedule
<1>4. /\ clockEvent \in [Kind -> Nat] /\ deadline \in [Kind -> Nat] /\ nth \in [Kind -> Nat]
      /\ phase \in [Kind -> Nat] /\ \A j \in Kind : phase[j] < cadence[j].denominator
  BY Zenon DEF HostInv, MediaTypeOK
<1>5. /\ DOMAIN eventKeys' = DOMAIN eventKeys \cup {nextEventId}
      /\ eventKeys'[nextEventId] = <<NextDeadline(k), nextEventId>>
      /\ \A i \in DOMAIN eventKeys : eventKeys'[i] = eventKeys[i]
  BY <1>1 DEF schedule, ScheduleAt
<1>6. /\ DOMAIN handler' = DOMAIN handler \cup {nextEventId}
      /\ handler'[nextEventId] = [kind |-> k, fresh |-> TRUE]
      /\ \A i \in DOMAIN handler : i # nextEventId /\ handler'[i] = handler[i]
  <2>1. \A i \in DOMAIN handler : i # nextEventId
    BY <1>1 DEF HostInv, RecordInv
  <2> QED
    BY <2>1, Zenon DEF schedule
<1>7. /\ \A j \in Kind \ {k} : clockEvent'[j] = clockEvent[j] /\ clockEvent[j] # nextEventId
      /\ clockEvent'[k] = nextEventId
  BY <1>1, <1>3, <1>4 DEF HostInv, RecordInv
<1>8. \A i \in DOMAIN handler : handler[i].kind # k
  BY Zenon DEF HostInv, RecordInv, Planned
<1>9. MediaTypeOK'
  <2>1. /\ clockEvent' \in [Kind -> Nat] /\ deadline' \in [Kind -> Nat]
        /\ nth' \in [Kind -> Nat] /\ phase' \in [Kind -> Nat]
    BY <1>1, <1>2, <1>3, <1>4
  <2>2. \A j \in Kind : phase'[j] < cadence[j].denominator
    BY <1>2, <1>3, <1>4, Zenon
  <2>3. \A i \in DOMAIN handler' : handler'[i] \in [kind : Kind, fresh : BOOLEAN]
    <3>1. [kind |-> k, fresh |-> TRUE] \in [kind : Kind, fresh : BOOLEAN]
      OBVIOUS
    <3>2. \A i \in DOMAIN handler : handler[i] \in [kind : Kind, fresh : BOOLEAN]
      BY Zenon DEF HostInv, MediaTypeOK
    <3> QED
      BY <1>6, <3>1, <3>2, Zenon
  <2> QED
    BY <1>3, <2>1, <2>2, <2>3, Zenon DEF HostInv, MediaTypeOK
<1>10. Planned(k)' /\ running' /\ \A j \in Kind \ {k} : Planned(j)' <=> Planned(j)
  BY <1>3, <1>5, <1>7, Zenon DEF Planned
<1>11. RecordInv'
  <2>1. \A i \in DOMAIN handler' :
           i \in DOMAIN eventKeys' /\ handler'[i].fresh /\ clockEvent'[handler'[i].kind] = i
    BY <1>5, <1>6, <1>7, <1>8 DEF HostInv, RecordInv, MediaTypeOK
  <2>2. \A j \in Kind : clockEvent'[j] < nextEventId'
    BY <1>1, <1>4, <1>7 DEF HostInv, RecordInv
  <2>3. \A j \in Kind : Planned(j)' => /\ clockEvent'[j] \in DOMAIN handler'
                                       /\ handler'[clockEvent'[j]].kind = j
    BY <1>6, <1>7, <1>10 DEF HostInv, RecordInv
  <2> QED
    BY <1>3, <2>1, <2>2, <2>3, Zenon DEF RecordInv
<1>12. CadenceInv'
  <2>1. \A j \in Kind :
           /\ deadline'[j] >= anchor
           /\ (deadline'[j] - anchor) * cadence[j].denominator + phase'[j]
                = nth'[j] * Interval(j)
    <3> TAKE j \in Kind
    <3>1. CASE j = k
      <4>1. /\ deadline[k] >= anchor
            /\ (deadline[k] - anchor) * cadence[k].denominator + phase[k] = nth[k] * Interval(k)
        BY Zenon DEF HostInv, CadenceInv
      <4>2. deadline'[k] = NextDeadline(k) /\ phase'[k] = NextPhase(k) /\ nth'[k] = nth[k] + 1
        BY <1>3, <1>4, Zenon
      <4> QED
        BY <3>1, <4>1, <4>2, NextTickExact, Zenon DEF HostInv
    <3>2. CASE j # k
      <4>1. deadline'[j] = deadline[j] /\ phase'[j] = phase[j] /\ nth'[j] = nth[j]
        BY <1>3, <1>4, <3>2, Zenon
      <4> QED
        BY <4>1, Zenon DEF HostInv, CadenceInv
    <3> QED
      BY <3>1, <3>2, Zenon
  <2>2. \A j \in Kind : Planned(j)' => eventKeys'[clockEvent'[j]] = <<deadline'[j], clockEvent'[j]>>
    <3> TAKE j \in Kind
    <3>1. CASE j = k
      BY <1>3, <1>4, <1>5, <1>7, <3>1, Zenon
    <3>2. CASE j # k
      BY <1>3, <1>4, <1>5, <1>7, <1>10, <3>2, Zenon DEF HostInv, CadenceInv, Planned
    <3> QED
      BY <3>1, <3>2, Zenon
  <2> QED
    BY <1>3, <2>1, <2>2, Zenon DEF CadenceInv, Interval
<1> QED
  BY <1>9, <1>10, <1>11, <1>12, Zenon

LEMMA StartSchedulesKeepsClock ==
    ASSUME HostInv, NEW k \in Kind, StartSchedules(k)
    PROVE  ClockInv'
<1>1. /\ ~Planned(k) /\ running /\ ~sameRun /\ schedule(k) /\ UNCHANGED <<handling, sameRun>>
      /\ clockPc' = IF k = "video" THEN "start_audio" ELSE "idle"
  BY DEF HostInv, PairInv, StartSchedules, Kind
<1>2. /\ MediaTypeOK' /\ RecordInv' /\ CadenceInv' /\ Planned(k)' /\ running'
      /\ \A j \in Kind \ {k} : Planned(j)' <=> Planned(j)
  BY <1>1, TickKeepsRecords, Zenon
<1>3. PairInv'
  <2>1. CASE k = "video"
    BY <1>1, <1>2, <2>1 DEF HostInv, PairInv, StartSchedules, Kind
  <2>2. CASE k = "audio"
    <3>1. Planned("video")' /\ Planned("audio")'
      BY <1>2, <2>2, Zenon DEF HostInv, PairInv, StartSchedules, Kind
    <3> QED
      BY <1>1, <2>2, <3>1, Zenon DEF PairInv, Alive, Planned
  <2> QED
    BY <2>1, <2>2 DEF Kind
<1> QED
  BY <1>2, <1>3, Zenon DEF ClockInv

\* The handler plans the successor of its own tick; the other cadence has one.
LEMMA HandlerPlansKeepsClock ==
    ASSUME HostInv, NEW k \in Kind, HandlerPlans(k)
    PROVE  ClockInv'
<1>1. /\ clockEvent[k] = 0 /\ running /\ schedule(k) /\ UNCHANGED <<handling, sameRun>>
      /\ clockPc = "idle" /\ handling = k /\ clockPc' = "return" /\ PlansNext(k)
  BY DEF HandlerPlans, PlansNext, NoEvent
<1>2. ~Planned(k)
  BY <1>1, PendingIds, Zenon DEF Planned
<1>3. /\ MediaTypeOK' /\ RecordInv' /\ CadenceInv' /\ Planned(k)' /\ running'
      /\ \A j \in Kind \ {k} : Planned(j)' <=> Planned(j)
  BY <1>1, <1>2, TickKeepsRecords, Zenon
<1>4. \A j \in Kind \ {k} : Planned(j)
  BY <1>1 DEF HostInv, PairInv, Alive, Planned, Kind
<1>5. PairInv'
  BY <1>1, <1>3, <1>4, Zenon DEF PairInv, Alive, Planned, Kind
<1> QED
  BY <1>3, <1>5, Zenon DEF ClockInv

\* The scheduler calls a tick; no stale one is left to call.
LEMMA HandlerBeginsKeepsClock ==
    ASSUME HostInv, NEW key \in events, HandlerBegins(key)
    PROVE  /\ ClockInv'
           /\ handling' \in Kind /\ running
<1> DEFINE id == key[2]
<1>0. PICK k \in Kind : k = handler[id].kind
  BY Zenon DEF HandlerBegins, HostInv, MediaTypeOK
<1>1. /\ id \in DOMAIN handler /\ handler[id].fresh /\ clockEvent[k] = id
      /\ id \in DOMAIN eventKeys
  BY <1>0, Zenon DEF HandlerBegins, HostInv, RecordInv
<1>2. /\ pc = "loop" /\ clockPc = "idle" /\ handling = NoKind /\ running
  BY <1>1, Zenon DEF HandlerBegins, DispatchEvent, HostInv, StackInv, RecordInv
<1>3. /\ DOMAIN eventKeys' = DOMAIN eventKeys \ {id}
      /\ \A i \in DOMAIN eventKeys' : eventKeys'[i] = eventKeys[i]
      /\ nextEventId' = nextEventId
  BY Zenon DEF HandlerBegins, DispatchEvent, RemoveFromIndex
<1>4. /\ clockEvent' = [clockEvent EXCEPT ![k] = NoEvent]
      /\ handling' = k /\ sameRun' = TRUE /\ clockPc' = "idle"
      /\ UNCHANGED <<running, phase, deadline, anchor, nth>>
  BY <1>0, <1>1, Zenon DEF HandlerBegins
<1>5. /\ DOMAIN handler' = DOMAIN handler \ {id}
      /\ \A i \in DOMAIN handler' : handler'[i] = handler[i]
  BY <1>3, Zenon DEF HandlerBegins, StillPending, HostInv, RecordInv
<1>6. /\ clockEvent \in [Kind -> Nat] /\ clockEvent'[k] = 0
      /\ \A j \in Kind \ {k} : clockEvent'[j] = clockEvent[j]
  BY <1>1, <1>4, Zenon DEF HostInv, MediaTypeOK, NoEvent
<1>7. \A i \in DOMAIN handler : i # id => handler[i].kind # k
  BY <1>1 DEF HostInv, RecordInv
<1>8. Alive("video") /\ Alive("audio") /\ \A j \in Kind : Planned(j)
  BY <1>1, <1>2, Zenon DEF HostInv, PairInv, Alive, Planned, Kind, NoKind
<1>9. ~Planned(k)' /\ \A j \in Kind \ {k} : clockEvent[j] # id /\ Planned(j)'
  <2>1. 0 \notin DOMAIN eventKeys
    BY PendingIds
  <2>2. \A j \in Kind \ {k} : clockEvent[j] # id
    BY <1>0, <1>8, Zenon DEF HostInv, RecordInv
  <2> QED
    BY <1>3, <1>6, <1>8, <2>1, <2>2, Zenon DEF Planned
<1> HIDE DEF id
<1>10. MediaTypeOK'
  <2>1. clockEvent' \in [Kind -> Nat]
    BY <1>4, <1>6, Zenon DEF NoEvent
  <2>2. \A i \in DOMAIN handler' : handler'[i] \in [kind : Kind, fresh : BOOLEAN]
    BY <1>5, Zenon DEF HostInv, MediaTypeOK
  <2> QED
    BY <1>1, <1>4, <2>1, <2>2, Zenon DEF HostInv, MediaTypeOK, cadence, make_cadence
<1>11. RecordInv'
  <2>1. \A i \in DOMAIN handler' :
           i \in DOMAIN eventKeys' /\ handler'[i].fresh /\ clockEvent'[handler'[i].kind] = i
    BY <1>3, <1>5, <1>6, <1>7 DEF HostInv, RecordInv, MediaTypeOK
  <2>2. \A j \in Kind : clockEvent'[j] < nextEventId'
    BY <1>3, <1>6, PendingIds DEF HostInv, RecordInv
  <2>3. \A j \in Kind : Planned(j)' => /\ clockEvent'[j] \in DOMAIN handler'
                                       /\ handler'[clockEvent'[j]].kind = j
    BY <1>5, <1>6, <1>8, <1>9 DEF HostInv, RecordInv
  <2> QED
    BY <1>2, <1>4, <2>1, <2>2, <2>3, Zenon DEF RecordInv
<1>12. PairInv'
  <2>1. \A j \in Kind : Alive(j)'
    BY <1>2, <1>4, <1>6, <1>9, Zenon DEF Alive, Planned, PlansNext, NoEvent
  <2> QED
    BY <1>4, <2>1, Zenon DEF PairInv, Kind
<1>13. CadenceInv'
  <2>1. \A j \in Kind : Planned(j)' => eventKeys'[clockEvent'[j]] = <<deadline'[j], clockEvent'[j]>>
    BY <1>3, <1>4, <1>6, <1>8, <1>9, Zenon DEF HostInv, CadenceInv, Planned
  <2> QED
    BY <1>4, <2>1, Zenon DEF HostInv, CadenceInv, Interval
<1> QED
  BY <1>1, <1>2, <1>4, <1>10, <1>11, <1>12, <1>13, Zenon DEF ClockInv

\* The rest of a handler that plans nothing, and its return.
LEMMA HandlerSkipsKeepsClock ==
    ASSUME HostInv, NEW k \in Kind, HandlerSkips(k)
    PROVE  ClockInv'
<1>1. /\ clockPc = "idle" /\ handling = k /\ clockPc' = "return" /\ ~PlansNext(k)
      /\ UNCHANGED <<eventKeys, nextEventId, running, clockEvent, phase, deadline, handler,
                     handling, sameRun, anchor, nth>>
  BY DEF HandlerSkips, vars, queueVars
<1>2. MediaTypeOK' /\ RecordInv' /\ CadenceInv'
  BY <1>1, Zenon DEF HostInv, MediaTypeOK, RecordInv, CadenceInv, Planned, Interval
<1>3. PairInv'
  BY <1>1, Zenon DEF HostInv, PairInv, Alive, Planned, Kind
<1> QED
  BY <1>2, <1>3 DEF ClockInv

LEMMA LeaveHandlerKeepsClock ==
    ASSUME HostInv, LeaveHandler, UNCHANGED <<eventKeys, nextEventId>>,
           clockPc \in {"return", "unwind"}
    PROVE  ClockInv'
<1>1. MediaTypeOK' /\ RecordInv' /\ CadenceInv'
  BY Zenon DEF HostInv, LeaveHandler, MediaTypeOK, RecordInv, CadenceInv, Planned, Interval
<1>2. UNCHANGED <<eventKeys, clockEvent>> /\ clockPc' = "idle" /\ sameRun' = FALSE
  BY DEF LeaveHandler
<1>3. Planned("video") <=> Planned("audio")
  <2>1. CASE clockPc = "return"
    BY <2>1, Zenon DEF HostInv, PairInv, Alive, Planned
  <2>2. CASE clockPc = "unwind"
    BY <2>2, Zenon DEF HostInv, PairInv, RecordInv, Kind
  <2> QED
    BY <2>1, <2>2
<1>4. PairInv'
  BY <1>2, <1>3, Zenon DEF PairInv, Alive, Planned, PlansNext
<1> QED
  BY <1>1, <1>4 DEF ClockInv

\* Another device's event comes or goes: never under an id the clock holds.
LEMMA OtherEventKeepsClock ==
    ASSUME HostInv, UNCHANGED mediaVars, nextEventId' \in Nat, nextEventId <= nextEventId',
           \A k \in Kind : clockEvent[k] \in DOMAIN eventKeys' <=> Planned(k),
           \A i \in DOMAIN handler : i \in DOMAIN eventKeys',
           \A i \in DOMAIN handler : eventKeys'[i] = eventKeys[i]
    PROVE  ClockInv'
<1>1. MediaTypeOK'
  BY Zenon DEF HostInv, MediaTypeOK, mediaVars
<1>2. RecordInv'
  <2>1. \A k \in Kind : clockEvent[k] \in Nat /\ clockEvent[k] < nextEventId /\ nextEventId \in Nat
    BY PendingIds, Zenon DEF HostInv, RecordInv, MediaTypeOK
  <2> QED
    BY <2>1 DEF HostInv, RecordInv, mediaVars, Planned
<1>3. PairInv'
  BY Zenon DEF HostInv, PairInv, mediaVars, Planned, Alive, PlansNext, Kind
<1>4. CadenceInv'
  BY Zenon DEF HostInv, CadenceInv, RecordInv, mediaVars, Planned, Interval
<1> QED
  BY <1>1, <1>2, <1>3, <1>4, Zenon DEF ClockInv

LEMMA DeviceSchedulesKeepsClock ==
    ASSUME HostInv, NEW c \in Cycle, DeviceSchedules(c)
    PROVE  ClockInv'
<1>1. /\ UNCHANGED mediaVars /\ nextEventId' = nextEventId + 1
      /\ DOMAIN eventKeys' = DOMAIN eventKeys \cup {nextEventId}
      /\ \A i \in DOMAIN eventKeys : i # nextEventId => eventKeys'[i] = eventKeys[i]
  BY Zenon DEF DeviceSchedules, ScheduleAt
<1>2. /\ nextEventId \in Nat
      /\ \A k \in Kind : clockEvent[k] # nextEventId
      /\ \A i \in DOMAIN handler : i \in DOMAIN eventKeys /\ i # nextEventId
  <2>1. /\ \A k \in Kind : clockEvent[k] \in Nat /\ clockEvent[k] < nextEventId
        /\ \A i \in DOMAIN handler : i \in DOMAIN eventKeys
    BY Zenon DEF HostInv, RecordInv, MediaTypeOK
  <2> QED
    BY <2>1, PendingIds
<1>3. /\ \A k \in Kind : clockEvent[k] \in DOMAIN eventKeys' <=> Planned(k)
      /\ \A i \in DOMAIN handler : i \in DOMAIN eventKeys' /\ eventKeys'[i] = eventKeys[i]
  BY <1>1, <1>2, Zenon DEF Planned
<1> QED
  BY <1>1, <1>2, <1>3, OtherEventKeepsClock

LEMMA DeviceEventBeginsKeepsClock ==
    ASSUME HostInv, NEW key \in events, DeviceEventBegins(key)
    PROVE  ClockInv'
<1>1. /\ UNCHANGED <<mediaVars, nextEventId>>
      /\ DOMAIN eventKeys' = DOMAIN eventKeys \ {key[2]}
      /\ \A i \in DOMAIN eventKeys' : eventKeys'[i] = eventKeys[i]
      /\ key[2] \notin DOMAIN handler
  BY Zenon DEF DeviceEventBegins, DispatchEvent, RemoveFromIndex, Foreign
<1>2. \A i \in DOMAIN handler : i \in DOMAIN eventKeys
  BY DEF HostInv, RecordInv
<1>3. \A k \in Kind : Planned(k) => clockEvent[k] \in DOMAIN handler
  BY Zenon DEF HostInv, RecordInv
<1>4. \A k \in Kind : clockEvent[k] \in DOMAIN eventKeys' <=> Planned(k)
  BY <1>1, <1>3, Zenon DEF Planned
<1>5. nextEventId \in Nat
  BY PendingIds
<1> QED
  BY <1>1, <1>2, <1>4, <1>5, OtherEventKeepsClock

\* A manual reset discards every tick: the clock keeps running_ and its ids, but
\* both cadences have ended.
LEMMA ManualResetKeepsClock ==
    ASSUME HostInv, ManualReset
    PROVE  ClockInv'
<1>1. DOMAIN eventKeys' = {} /\ nextEventId' = nextEventId
  BY Zenon DEF ManualReset, Reset, NoKeys, IdsAfterReset
<1>2. /\ DOMAIN handler' = {} /\ clockPc = "idle" /\ pc = "caller"
      /\ UNCHANGED <<running, clockEvent, phase, deadline, handling, sameRun, clockPc,
                     anchor, nth>>
  BY <1>1, Zenon DEF ManualReset, StillPending, Outside
<1>3. handling = NoKind
  BY <1>2, Zenon DEF HostInv, StackInv
<1>4. MediaTypeOK'
  BY <1>2, Zenon DEF HostInv, MediaTypeOK, cadence, make_cadence
<1>5. RecordInv'
  BY <1>1, <1>2, Zenon DEF HostInv, RecordInv, Planned
<1>6. PairInv'
  BY <1>1, <1>2, <1>3, Zenon DEF PairInv, Alive, Planned, NoKind
<1>7. CadenceInv'
  BY <1>1, <1>2, Zenon DEF HostInv, CadenceInv, Planned, Interval, cadence, make_cadence
<1> QED
  BY <1>4, <1>5, <1>6, <1>7, Zenon DEF ClockInv

LEMMA StopKeepsClock ==
    ASSUME HostInv, StopBody, [SessionNext]_allVars,
           phase' \in [Kind -> Nat], \A k \in Kind : phase'[k] < cadence[k].denominator,
           deadline' \in [Kind -> Nat], UNCHANGED handling,
           clockPc' \in {"idle", "return", "unwind"}
    PROVE  ClockInv'
<1>1. TimeInv'
  BY GuestClockStep, Zenon
<1>2. handling' \in Kind \cup {NoKind}
  BY Zenon DEF HostInv, MediaTypeOK
<1> QED
  BY <1>1, <1>2, StopSilences, SilenceKeepsClock, Zenon

LEMMA ClockStep ==
    ASSUME HostInv, [SessionNext]_allVars
    PROVE  ClockInv'
<1> USE DEF ClockInv
<1>0. ClockInv /\ phase \in [Kind -> Nat] /\ deadline \in [Kind -> Nat]
      /\ \A k \in Kind : phase[k] < cadence[k].denominator
  BY Zenon DEF HostInv, MediaTypeOK
<1>1. CASE UNCHANGED <<mediaVars, eventKeys, nextEventId>>
  BY <1>0, <1>1, ClockUntouched, Zenon
<1>2. ASSUME NEW k \in Kind, StartSchedules(k) PROVE ClockInv'
  BY <1>2, StartSchedulesKeepsClock, Zenon
<1>3. ASSUME NEW k \in Kind, StartThrows(k) PROVE ClockInv'
  BY <1>3, FailedTickTyped, StopKeepsClock, Zenon DEF StartThrows
<1>4. ASSUME NEW key \in events, HandlerBegins(key) PROVE ClockInv'
  BY <1>4, HandlerBeginsKeepsClock, Zenon
<1>5. CASE TickEnds
  BY <1>5, LeaveHandlerKeepsClock, Zenon DEF TickEnds, HandlerReturns, HandlerUnwinds, CallbackReturns,
     CallbackThrows, LeaveAdvance, queueVars
<1>6. ASSUME NEW key \in events, DeviceEventBegins(key) PROVE ClockInv'
  BY <1>6, DeviceEventBeginsKeepsClock, Zenon
<1>7. CASE InjectResumeFails \/ Shutdown
  <2>1. ShutdownBody /\ clockPc = "idle"
    BY <1>7, Zenon DEF InjectResumeFails, Shutdown, ShutdownBody, Outside
  <2>2. TimeInv' /\ handling \in Kind \cup {NoKind}
    BY GuestClockStep, Zenon DEF HostInv, MediaTypeOK
  <2> QED
    BY <1>0, <2>1, <2>2, ShutdownSilences, SilenceKeepsClock, Zenon
<1>8. ASSUME NEW k \in Kind, TickCallbackReturns(k) PROVE ClockInv'
  <2>1. CASE HandlerPlans(k)
    BY <2>1, HandlerPlansKeepsClock, Zenon
  <2>2. CASE HandlerSkips(k)
    BY <2>2, HandlerSkipsKeepsClock, Zenon
  <2>3. CASE HandlerCannotPlan(k)
    BY <2>3, FailedTickTyped, StopKeepsClock, Zenon DEF HandlerCannotPlan
  <2> QED
    BY <1>8, <2>1, <2>2, <2>3, Zenon DEF TickCallbackReturns
<1>9. ASSUME NEW k \in Kind, TickCallbackThrows(k) PROVE ClockInv'
  BY <1>0, <1>9, StopKeepsClock, Zenon DEF TickCallbackThrows, HandlerCatches
<1>10. CASE CallbackCallsClock
  <2>1. CASE start
    BY <2>1, StartKeepsClock, Zenon DEF start
  <2>2. CASE stop
    BY <1>0, <2>2, StopKeepsClock, Zenon DEF stop, ClientMayCall
  <2>3. CASE ResetClock
    BY <2>3, ResetTyped, StopKeepsClock, Zenon DEF ResetClock, ClientMayCall
  <2> QED
    BY <1>10, <2>1, <2>2, <2>3, Zenon DEF CallbackCallsClock
<1>11. CASE InjectResume
  BY <1>1, <1>11, StartKeepsClock, Zenon DEF InjectResume, vars, queueVars
<1>12. CASE InjectPause
  BY <1>0, <1>12, StopKeepsClock, Zenon DEF InjectPause, Outside
<1>13. ASSUME NEW c \in Cycle, DeviceSchedules(c) PROVE ClockInv'
  BY <1>13, DeviceSchedulesKeepsClock, Zenon
<1>14. CASE ManualReset
  BY <1>14, ManualResetKeepsClock, Zenon
<1>15. CASE DeviceEventEnds \/ AdvanceStops \/ ManualResetReturns \/ ConsumeChunk
            \/ \E b \in GuestBudgets : SetBudget(b)
  BY <1>1, <1>15, Zenon DEF DeviceEventEnds, AdvanceStops, ManualResetReturns, ConsumeChunk, SetBudget,
     CallbackReturns, CallbackThrows, LeaveAdvance, EventBudgetExhausted, ReachTarget,
     ResetReturns, AdvanceTo, SetGuestCycleBudget, queueVars
<1>16. CASE InjectResumeDone \/ ConsumeReturns \/ ConsumeThrows \/ ConsumeLoopReturns
            \/ InjectController \/ Ended \/ (\E g \in ConsumeSizes : consume_loop(g))
            \/ UNCHANGED allVars
  BY <1>1, <1>16, Zenon DEF InjectResumeDone, ConsumeReturns, ConsumeThrows, ConsumeLoopReturns,
     InjectController, Ended, consume_loop, allVars, vars, queueVars
<1> QED
  BY <1>2, <1>3, <1>4, <1>5, <1>6, <1>7, <1>8, <1>9, <1>10, <1>11, <1>12, <1>13, <1>14,
     <1>15, <1>16, Zenon DEF SessionNext, RuntimeStep, CallbackEnds, StartStep, TickBegins

-----------------------------------------------------------------------------
(* The stack, the session and the loop around the clock.                    *)

LEMMA StackStep ==
    ASSUME HostInv, [SessionNext]_allVars
    PROVE  StackInv'
<1> USE DEF StackInv
<1>0. StackInv
  BY DEF HostInv
<1>1. CASE StartStep \/ CallbackCallsClock
  <2>1. UNCHANGED <<pc, handling, loopPc, sessionPc>>
    BY <1>1, Zenon DEF StartStep, StartSchedules, StartThrows, schedule, ScheduleAt, StopBody,
       CallbackCallsClock, start, stop, ResetClock, StartBody, sessionVars, loopVars, vars,
       controlVars
  <2>2. /\ pc \notin {"loop", "observer"}
        /\ clockPc' \in {"idle", "start_video", "start_audio"}
        /\ pc = "caller" => clockPc # "idle"
    BY <1>0, <1>1, Zenon DEF StartStep, StartSchedules, StartThrows, CallbackCallsClock, start, stop,
       ResetClock, StartBody, ClientMayCall
  <2> QED
    BY <1>0, <2>1, <2>2, Zenon
<1>2. CASE TickBegins
  <2>1. PICK key \in events : HandlerBegins(key)
    BY <1>2 DEF TickBegins
  <2>2. pc = "loop" /\ pc' = "callback" /\ clockPc' \in {"idle", "return"}
        /\ UNCHANGED <<loopPc, sessionPc>>
    BY <1>2, <2>1, Zenon DEF TickBegins, HandlerBegins, DispatchEvent, sessionVars, loopVars
  <2> QED
    BY <1>0, <2>2, Zenon
<1>3. CASE TickEnds
  BY <1>0, <1>3, Zenon DEF TickEnds, HandlerReturns, HandlerUnwinds, CallbackReturns, CallbackThrows,
     LeaveAdvance, LeaveHandler, LeaveLoop, sessionVars, loopVars
<1>4. CASE \E key \in events : DeviceEventBegins(key)
  BY <1>0, <1>4, Zenon DEF DeviceEventBegins, DispatchEvent, mediaVars, sessionVars, loopVars
<1>5. CASE AdvanceStops
  BY <1>0, <1>5, Zenon DEF AdvanceStops, EventBudgetExhausted, ReachTarget, LeaveAdvance, mediaVars,
     sessionVars
<1>6. CASE ManualResetReturns
  BY <1>0, <1>6, Zenon DEF ManualResetReturns, ResetReturns, mediaVars, sessionVars, loopVars
<1>7. CASE InjectResumeDone \/ InjectController \/ Ended \/ UNCHANGED allVars
  BY <1>0, <1>7, Zenon DEF InjectResumeDone, InjectController, Ended, allVars, vars, controlVars,
     mediaVars, sessionVars, loopVars
<1>8. CASE InjectResumeFails \/ Shutdown
  BY <1>0, <1>8, Zenon DEF InjectResumeFails, Shutdown, ShutdownBody, Outside, controlVars, loopVars
<1>9. CASE ConsumeChunk
  BY <1>0, <1>9, Zenon DEF ConsumeChunk, AdvanceTo, mediaVars, sessionVars, HostInv
<1>10. CASE ConsumeReturns \/ ConsumeThrows \/ ConsumeLoopReturns
  <2>1. pc \notin {"loop", "callback"}
    BY <1>0, <1>10, Zenon DEF ConsumeReturns, ConsumeThrows, ConsumeLoopReturns
  <2>2. UNCHANGED <<pc, handling, clockPc, sessionPc>> /\ sessionPc # "resuming"
    BY <1>0, <1>10, Zenon DEF ConsumeReturns, ConsumeThrows, ConsumeLoopReturns, vars, controlVars,
       mediaVars, sessionVars
  <2> QED
    BY <1>0, <2>1, <2>2, Zenon
<1>11. CASE \E k \in Kind : TickCallbackReturns(k) \/ TickCallbackThrows(k)
  <2>1. pc = "callback" /\ UNCHANGED <<pc, handling, loopPc, sessionPc>>
    BY <1>11, Zenon DEF TickCallbackReturns, TickCallbackThrows, HandlerPlans, HandlerSkips,
       HandlerCannotPlan, HandlerCatches, schedule, ScheduleAt, StopBody, vars, controlVars,
       sessionVars, loopVars
  <2> QED
    BY <1>0, <2>1, Zenon
<1>12. CASE DeviceEventEnds
  BY <1>0, <1>12, Zenon DEF DeviceEventEnds, CallbackReturns, CallbackThrows, LeaveAdvance, LeaveLoop,
     mediaVars, sessionVars, loopVars
<1>13. CASE InjectResume
  <2>1. /\ pc = "caller" /\ loopPc = "no" /\ UNCHANGED <<pc, handling, loopPc>>
        /\ clockPc = "idle"
        /\ \/ clockPc' = "idle"
           \/ clockPc' = "start_video" /\ sessionPc' = "resuming"
    BY <1>13, Zenon DEF InjectResume, Outside, StartBody, vars, controlVars, mediaVars, loopVars
  <2> QED
    BY <1>0, <2>1, Zenon
<1>14. CASE InjectPause
  BY <1>0, <1>14, Zenon DEF InjectPause, StopBody, controlVars, loopVars
<1>15. CASE \E g \in ConsumeSizes : consume_loop(g)
  BY <1>0, <1>15, Zenon DEF consume_loop, Outside, vars, controlVars, mediaVars, sessionVars
<1>16. CASE \E c \in Cycle : DeviceSchedules(c)
  BY <1>0, <1>16, Zenon DEF DeviceSchedules, ScheduleAt, controlVars, mediaVars, sessionVars, loopVars
<1>17. CASE \E b \in GuestBudgets : SetBudget(b)
  BY <1>0, <1>17, Zenon DEF SetBudget, SetGuestCycleBudget, controlVars, mediaVars, sessionVars, loopVars
<1>18. CASE ManualReset
  BY <1>0, <1>18, Zenon DEF ManualReset, Outside, Reset, sessionVars, loopVars
<1> QED
  BY <1>1, <1>2, <1>3, <1>4, <1>5, <1>6, <1>7, <1>8, <1>9, <1>10, <1>11, <1>12, <1>13, <1>14,
     <1>15, <1>16, <1>17, <1>18, Zenon DEF SessionNext, RuntimeStep, CallbackEnds

\* The pacer's cycle stays behind a clock that does not go back.
LEMMA PacedStep ==
    ASSUME HostInv, [SessionNext]_allVars, pacedCycle' \in {pacedCycle, currentCycle}
    PROVE  pacedCycle' \in Nat /\ (resetGeneration' = 0 => ~(currentCycle' < pacedCycle'))
<1>1. /\ currentCycle \in Nat /\ currentCycle' \in Nat /\ resetGeneration \in Nat
      /\ UNCHANGED resetGeneration => currentCycle <= currentCycle'
      /\ resetGeneration <= resetGeneration'
  BY GuestClockStep
<1>2. pacedCycle \in Nat /\ (resetGeneration = 0 => ~(currentCycle < pacedCycle))
  BY DEF HostInv, SessionInv, SessionAgrees, Regresses
<1>3. pacedCycle' \in Nat
  BY <1>1, <1>2, Zenon
<1>4. ASSUME resetGeneration' = 0 PROVE ~(currentCycle' < pacedCycle')
  <2>1. resetGeneration = 0
    BY <1>1, <1>4
  <2> QED
    BY <1>1, <1>2, <1>4, <2>1
<1> QED
  BY <1>3, <1>4

LEMMA SessionStep ==
    ASSUME HostInv, [SessionNext]_allVars
    PROVE  SessionInv'
<1> USE DEF SessionInv, SessionAgrees, Regresses
<1>0. /\ SessionInv /\ StackInv /\ MediaTypeOK
  BY DEF HostInv
<1>1. CASE UNCHANGED <<sessionVars, pacerVars, running, handling>>
  BY <1>0, <1>1, PacedStep, Zenon DEF sessionVars, pacerVars
<1>2. CASE StartStep
  <2>0. PICK k \in Kind : StartSchedules(k) \/ StartThrows(k)
    BY <1>2, Zenon DEF StartStep
  <2>1. UNCHANGED <<sessionVars, pacerVars>> /\ UNCHANGED handling /\ (running' => running)
    <3>1. UNCHANGED <<sessionVars, pacerVars>>
      BY <1>2, Zenon DEF StartStep
    <3>2. CASE StartSchedules(k)
      BY <3>1, <3>2, Zenon DEF StartSchedules, schedule
    <3>3. CASE StartThrows(k)
      BY <3>1, <3>3, Zenon DEF StartThrows, StopBody
    <3> QED
      BY <2>0, <3>2, <3>3, Zenon
  <2>2. pacedCycle' \in Nat /\ (resetGeneration' = 0 => ~(currentCycle' < pacedCycle'))
    BY <2>1, PacedStep, Zenon DEF pacerVars
  <2> QED
    BY <1>0, <2>1, <2>2, Zenon DEF sessionVars, pacerVars
<1>3. CASE TickBegins
  <2>1. PICK key \in events : HandlerBegins(key)
    BY <1>3 DEF TickBegins
  <2>2. running /\ UNCHANGED <<running, sessionVars, pacerVars>>
    BY <1>3, <2>1, HandlerBeginsKeepsClock, Zenon DEF TickBegins, HandlerBegins
  <2>3. pc = "loop"
    BY <2>1, Zenon DEF HandlerBegins, DispatchEvent
  <2>4. session = "Running"
    BY <1>0, <2>2, <2>3, Zenon DEF StackInv
  <2> QED
    BY <1>0, <2>2, <2>4, PacedStep, Zenon DEF sessionVars, pacerVars
<1>4. CASE TickEnds
  BY <1>0, <1>4, PacedStep DEF TickEnds, HandlerReturns, HandlerUnwinds, LeaveHandler,
     sessionVars, pacerVars
<1>5. CASE InjectResumeDone
  BY <1>0, <1>5, PacedStep, Zenon DEF InjectResumeDone, mediaVars, pacerVars
<1>6. CASE InjectResumeFails \/ Shutdown
  <2>1. ShutdownBody /\ pc = "caller"
    BY <1>0, <1>6, Zenon DEF InjectResumeFails, Shutdown, ShutdownBody, Outside, StackInv
  <2>2. handling' = NoKind
    BY <1>0, <2>1, Zenon DEF StackInv, ShutdownBody
  <2> QED
    BY <1>0, <2>1, <2>2, PacedStep DEF ShutdownBody
<1>7. ASSUME NEW k \in Kind, TickCallbackReturns(k) PROVE SessionInv'
  <2>1. UNCHANGED <<sessionVars, handling, pacer>> /\ (running' => running)
    BY <1>7 DEF TickCallbackReturns, HandlerPlans, HandlerSkips, HandlerCannotPlan, schedule,
       StopBody, Pace, pacerVars
  <2>2. pacedCycle' \in {pacedCycle, currentCycle}
    BY <1>7, Zenon DEF TickCallbackReturns, Pace, pacerVars
  <2> QED
    BY <1>0, <2>1, <2>2, PacedStep, Zenon DEF sessionVars
<1>8. ASSUME NEW k \in Kind, TickCallbackThrows(k) PROVE SessionInv'
  BY <1>0, <1>8, PacedStep, Zenon DEF TickCallbackThrows, HandlerCatches, StopBody, sessionVars, pacerVars
<1>9. CASE CallbackCallsClock
  <2>1. session = "Running" /\ UNCHANGED <<sessionVars, pacerVars, handling>>
    BY <1>0, <1>9, Zenon DEF CallbackCallsClock, start, stop, ResetClock, StartBody
  <2> QED
    BY <1>0, <2>1, PacedStep, Zenon DEF sessionVars, pacerVars
<1>10. CASE InjectResume
  <2>1. /\ session # "Shutdown" /\ pacer' = "running" /\ pacedCycle' = currentCycle
        /\ UNCHANGED <<saves, handling>> /\ handling = NoKind /\ sessionPc = "idle"
        /\ \/ session' = "Running" /\ UNCHANGED sessionPc
           \/ sessionPc' = "resuming" /\ UNCHANGED session
    BY <1>0, <1>10, Zenon DEF InjectResume, Outside, ResumePacer, StartBody, mediaVars, StackInv
  <2> QED
    BY <1>0, <2>1, PacedStep, Zenon
<1>11. CASE InjectPause
  <2>1. /\ session' = "Paused" /\ session # "Shutdown" /\ UNCHANGED <<saves, handling, sessionPc>>
        /\ handling = NoKind /\ sessionPc = "idle" /\ running' = FALSE
        /\ pacer' \in {pacer, "paused"} /\ pacedCycle' \in {pacedCycle, currentCycle}
    BY <1>0, <1>11, Zenon DEF InjectPause, Outside, PausePacer, StopBody, StackInv
  <2> QED
    BY <1>0, <2>1, PacedStep, Zenon
<1>12. CASE InjectController
  BY <1>1, <1>0, <1>12, PacedStep, Zenon DEF InjectController, mediaVars, pacerVars
<1>13. CASE ManualReset
  BY <1>1, <1>13, Zenon DEF ManualReset
<1>14. CASE UNCHANGED <<mediaVars, sessionVars, pacerVars>>
  BY <1>1, <1>14, Zenon DEF mediaVars
<1> QED
  BY <1>2, <1>3, <1>4, <1>5, <1>6, <1>7, <1>8, <1>9, <1>10, <1>11, <1>12, <1>13, <1>14, Zenon
     DEF SessionNext, RuntimeStep, CallbackEnds, DeviceEventBegins, AdvanceStops,
         ManualResetReturns, ConsumeChunk, ConsumeReturns, ConsumeThrows, ConsumeLoopReturns,
         DeviceEventEnds, Ended, consume_loop, DeviceSchedules, SetBudget, allVars

\* An advance in progress moves the clock forward, up to its target.
LEMMA AdvanceKeepsLoop ==
    ASSUME HostInv, [SessionNext]_allVars, advanceInProgress, UNCHANGED resetGeneration,
           UNCHANGED <<loopPc, left, before, goal>>,
           advanceInProgress' => UNCHANGED effectiveTarget,
           ~advanceInProgress' => currentCycle' \in {currentCycle, effectiveTarget}
    PROVE  LoopInv'
<1>1. /\ currentCycle \in Nat /\ currentCycle' \in Nat /\ currentCycle <= currentCycle'
      /\ TimeInv'
  BY GuestClockStep, Zenon
<1>2. /\ left \in Nat /\ before \in Nat /\ goal \in Nat /\ goal \in Cycle
      /\ loopPc = "advancing" /\ before + left = goal
      /\ before <= currentCycle /\ currentCycle <= goal /\ effectiveTarget <= goal
      /\ effectiveTarget \in Nat
  BY SchedulerAssumption DEF HostInv, LoopInv, StackInv, TimeInv, QueueInv, AdvanceFlagExact,
     TypeOK, Cycle
<1>3. currentCycle' <= goal
  <2>1. CASE advanceInProgress'
    BY <1>1, <1>2, <2>1 DEF TimeInv
  <2>2. CASE ~advanceInProgress'
    BY <1>1, <1>2, <2>2, Zenon
  <2> QED
    BY <2>1, <2>2, Zenon
<1>4. before <= currentCycle'
  BY <1>1, <1>2
<1> QED
  BY <1>2, <1>3, <1>4, Zenon DEF LoopInv

LEMMA LeaveLoopInv ==
    ASSUME LeaveLoop
    PROVE  LoopInv'
BY SchedulerAssumption DEF LeaveLoop, LoopInv, Cycle

LEMMA LoopStep ==
    ASSUME HostInv, [SessionNext]_allVars
    PROVE  LoopInv'
<1>0. LoopInv
  BY DEF HostInv
<1>1. CASE UNCHANGED <<loopVars, currentCycle, advanceInProgress, effectiveTarget>>
  BY <1>0, <1>1, Zenon DEF LoopInv, loopVars
<1>2. CASE UNCHANGED <<loopVars, clockVars, controlVars>>
  BY <1>1, <1>2, Zenon DEF clockVars, controlVars, localVars
<1>3. CASE UNCHANGED <<vars, loopVars>>
  BY <1>2, <1>3, Zenon DEF vars
<1>4. CASE StartStep \/ CallbackCallsClock \/ \E k \in Kind : TickCallbackThrows(k)
  BY <1>2, <1>3, <1>4, Zenon DEF StartStep, StartSchedules, StartThrows, schedule, ScheduleAt, StopBody,
     CallbackCallsClock, start, stop, ResetClock, StartBody, TickCallbackThrows, HandlerCatches
<1>5. CASE \E k \in Kind : TickCallbackReturns(k)
  BY <1>2, <1>3, <1>5, Zenon DEF TickCallbackReturns, HandlerPlans, HandlerSkips, HandlerCannotPlan,
     schedule, ScheduleAt, StopBody
<1>6. CASE TickBegins \/ \E key \in events : DeviceEventBegins(key)
  <2>1. PICK key \in events : DispatchEvent(key) /\ UNCHANGED loopVars
    BY <1>6, Zenon DEF TickBegins, HandlerBegins, DeviceEventBegins
  <2>2. advanceInProgress
    BY <2>1, Zenon DEF DispatchEvent, HostInv, TimeInv, QueueInv, AdvanceFlagExact
  <2> QED
    BY <2>1, <2>2, AdvanceKeepsLoop, Zenon DEF DispatchEvent, loopVars
<1>7. CASE TickEnds \/ DeviceEventEnds
  BY <1>1, <1>7, LeaveLoopInv, Zenon DEF TickEnds, HandlerReturns, HandlerUnwinds, DeviceEventEnds,
     CallbackReturns, clockVars, localVars
<1>8. CASE AdvanceStops
  <2>1. advanceInProgress
    BY <1>8, Zenon DEF AdvanceStops, EventBudgetExhausted, ReachTarget, HostInv, TimeInv, QueueInv,
       AdvanceFlagExact
  <2> QED
    BY <1>8, <2>1, AdvanceKeepsLoop, Zenon DEF AdvanceStops, EventBudgetExhausted, ReachTarget,
       LeaveAdvance, clockVars
<1>9. CASE ManualResetReturns
  BY <1>1, <1>9, Zenon DEF ManualResetReturns, ResetReturns, clockVars, localVars
<1>10. CASE InjectResumeDone \/ InjectController \/ Ended \/ UNCHANGED allVars
  BY <1>3, <1>10, Zenon DEF InjectResumeDone, InjectController, Ended, allVars
<1>11. CASE InjectResumeFails \/ Shutdown
  BY <1>2, <1>11, Zenon DEF InjectResumeFails, Shutdown, ShutdownBody
<1>12. CASE InjectResume \/ InjectPause
  BY <1>2, <1>3, <1>12, Zenon DEF InjectResume, InjectPause, StartBody, StopBody
<1>13. ASSUME NEW g \in ConsumeSizes, consume_loop(g) PROVE LoopInv'
  <2>1. /\ left' = g /\ goal' = currentCycle + g /\ loopPc' = "chunk" /\ g <= MaxCycle - currentCycle
        /\ UNCHANGED <<before, currentCycle>>
    BY <1>13, Zenon DEF consume_loop, vars, clockVars
  <2>2. g \in Nat /\ currentCycle \in Nat /\ MaxCycle \in Nat /\ before \in Nat
    <3>1. currentCycle \in Nat /\ before \in Nat
      BY <1>0, ClockTyped, Zenon DEF LoopInv, HostInv
    <3> QED
      BY <3>1, HostSessionAssumption, SchedulerAssumption, Zenon
  <2> QED
    BY <2>1, <2>2 DEF LoopInv, Cycle
<1>14. CASE ConsumeChunk
  <2>1. /\ Chunk \in Nat /\ currentCycle \in Nat /\ currentCycle + Chunk <= goal
        /\ left \in Nat /\ goal \in Cycle /\ currentCycle + left = goal
    BY <1>0, <1>14, ChunkIsCall, Zenon DEF LoopInv, ConsumeChunk
  <2>2. /\ before' = currentCycle /\ UNCHANGED <<left, goal, currentCycle>>
        /\ loopPc' = "advancing" /\ effectiveTarget' = EffectiveTarget(currentCycle + Chunk)
    BY <1>14, Zenon DEF ConsumeChunk, AdvanceTo, clockVars
  <2>3. guestBudget \in Nat /\ goal \in Nat
    <3>1. guestBudget \in Cycle /\ goal \in Cycle
      BY Zenon DEF HostInv, LoopInv, TimeInv, QueueInv, TypeOK
    <3> QED
      BY <3>1, SchedulerAssumption DEF Cycle
  <2>4. effectiveTarget' <= goal
    BY <2>1, <2>2, <2>3 DEF EffectiveTarget
  <2> QED
    BY <2>1, <2>2, <2>3, <2>4 DEF LoopInv
<1>15. CASE ConsumeReturns
  <2>1. /\ loopPc' = "chunk" /\ left' = left - (currentCycle - before)
        /\ UNCHANGED <<currentCycle, before, goal>>
    BY <1>15, Zenon DEF ConsumeReturns, Consumed, vars, clockVars
  <2>2. /\ left \in Nat /\ before \in Nat /\ goal \in Cycle /\ before + left = goal
        /\ before <= currentCycle /\ currentCycle <= goal
    BY <1>0, <1>15, Zenon DEF LoopInv, ConsumeReturns
  <2>3. currentCycle \in Nat
    BY ClockTyped DEF HostInv
  <2> QED
    BY <2>1, <2>2, <2>3 DEF LoopInv
<1>16. CASE ConsumeThrows \/ ConsumeLoopReturns
  BY <1>16, LeaveLoopInv, Zenon DEF ConsumeThrows, ConsumeLoopReturns
<1>17. CASE \E c \in Cycle : DeviceSchedules(c)
  BY <1>2, <1>17, Zenon DEF DeviceSchedules, ScheduleAt
<1>18. CASE \E b \in GuestBudgets : SetBudget(b)
  BY <1>1, <1>18, Zenon DEF SetBudget, SetGuestCycleBudget, controlVars, localVars
<1>19. CASE ManualReset
  BY <1>0, <1>19, Zenon DEF ManualReset, Outside, LoopInv, loopVars
<1> QED
  BY <1>4, <1>5, <1>6, <1>7, <1>8, <1>9, <1>10, <1>11, <1>12, <1>13, <1>14, <1>15, <1>16,
     <1>17, <1>18, <1>19, Zenon DEF SessionNext, RuntimeStep, CallbackEnds

-----------------------------------------------------------------------------
LEMMA HostInit == SessionInit => HostInv
<1> SUFFICES ASSUME SessionInit PROVE HostInv
  OBVIOUS
<1> USE DEF SessionInit, ClockInit
<1>1. TimeInv
  BY TimeInit, Zenon
<1>2. DOMAIN eventKeys = {} /\ nextEventId = 1 /\ currentCycle = 0
  BY Zenon DEF Init, NoKeys
<1>3. MediaTypeOK
  <2>1. \A k \in Kind : 0 < cadence[k].denominator
    BY CadenceFacts
  <2> QED
    BY <2>1, Zenon DEF MediaTypeOK, NoEvent, NoKind
<1>4. RecordInv /\ PairInv
  BY <1>2 DEF RecordInv, PairInv, Planned, Alive, NoEvent, NoKind
<1>5. CadenceInv
  BY <1>2, Zenon DEF CadenceInv, Planned
<1>6. StackInv
  BY Zenon DEF Init, StackInv
<1>7. SessionInv
  BY <1>2 DEF SessionInv, SessionAgrees, Regresses
<1>8. LoopInv
  BY SchedulerAssumption DEF LoopInv, Cycle
<1> QED
  BY <1>1, <1>3, <1>4, <1>5, <1>6, <1>7, <1>8, Zenon DEF HostInv

LEMMA HostStep == HostInv /\ [SessionNext]_allVars => HostInv'
BY GuestClockStep, ClockStep, StackStep, SessionStep, LoopStep, Zenon DEF HostInv, ClockInv

LEMMA SpecHostInv == SessionSpec => []HostInv
BY HostInit, HostStep, PTL DEF SessionSpec

\* The media path is never half active, through every restart, exception,
\* exhausted id and manual reset: DreamcastMediaClock's two cadences live and end
\* together, a stopped clock leaves nothing pending, stop() reaches every tick.
THEOREM MediaNeverHalfActive == SessionSpec => []NeverHalfActive
<1>1. HostInv => NeverHalfActive
  BY Zenon DEF HostInv, PairInv, RecordInv, NeverHalfActive
<1> QED
  BY <1>1, SpecHostInv, PTL

\* For every clock frequency and rate, the n-th tick of advance_deadline() is at
\* start + floor(n * interval): the phase carries exactly what the division lost.
THEOREM TicksExact == SessionSpec => []TicksOnTime
<1>1. HostInv => TicksOnTime
  <2> SUFFICES ASSUME HostInv, NEW k \in Kind, clockEvent[k] \in DOMAIN eventKeys
               PROVE  eventKeys[clockEvent[k]] = <<ExactDeadline(k), clockEvent[k]>>
    BY DEF TicksOnTime
  <2>1. running
    BY Zenon DEF HostInv, RecordInv, Planned
  <2> DEFINE q == deadline[k] - anchor
             f == phase[k]
             n == cadence[k].denominator
  <2>2. /\ deadline[k] >= anchor /\ q * n + f = nth[k] * Interval(k)
        /\ eventKeys[clockEvent[k]] = <<deadline[k], clockEvent[k]>>
    BY <2>1, Zenon DEF HostInv, CadenceInv, Planned
  <2>3. /\ deadline[k] \in Nat /\ anchor \in Nat /\ nth[k] \in Nat /\ f \in Nat /\ f < n
        /\ n \in Nat \ {0} /\ Interval(k) \in Nat
    BY CadenceFacts, Zenon DEF HostInv, MediaTypeOK
  <2>4. q \in Nat /\ deadline[k] = anchor + q
    BY <2>2, <2>3
  <2> HIDE DEF q, f, n
  <2>5. nth[k] * Interval(k) \in Nat
    BY <2>3
  <2>6. (nth[k] * Interval(k)) \div n = q
    BY <2>2, <2>3, <2>4, <2>5, Quotient, Zenon
  <2>7. ExactDeadline(k) = anchor + ((nth[k] * Interval(k)) \div n)
    <3>1. CASE k = "video"
      BY <3>1, CadenceFacts, Zenon DEF ExactDeadline, n
    <3>2. CASE k = "audio"
      <4>1. FramesPerBuffer \in Nat /\ CyclesPerSecond \in Nat
        BY MediaClockAssumption
      <4>2. nth[k] * FramesPerBuffer * CyclesPerSecond = nth[k] * (FramesPerBuffer * CyclesPerSecond)
        BY <2>3, <4>1
      <4> QED
        BY <3>2, <4>2, CadenceFacts, Zenon DEF ExactDeadline, n
    <3> QED
      BY <3>1, <3>2, Zenon DEF Kind
  <2> QED
    BY <2>2, <2>4, <2>6, <2>7, Zenon
<1> QED
  BY <1>1, SpecHostInv, PTL

\* HostRuntimeSession, DreamcastMediaClock and HostPacer agree on who runs, the
\* storage is saved once, and without a manual reset no pacing call finds the
\* guest clock behind.
THEOREM SessionConsistent == SessionSpec => []SessionAgrees
<1>1. HostInv => SessionAgrees
  BY DEF HostInv, SessionInv
<1> QED
  BY <1>1, SpecHostInv, PTL

\* consume_loop() neither loses nor invents guest cycles, and what it has left
\* never wraps below zero.
THEOREM CyclesNeverLost == SessionSpec => [](CyclesAccounted /\ left >= 0)
<1>1. HostInv => CyclesAccounted /\ left >= 0
  BY DEF HostInv, LoopInv, CyclesAccounted
<1> QED
  BY <1>1, SpecHostInv, PTL

\* stop() cancels by recorded id, and a recorded id that is pending is a tick.
LEMMA StopKeepsForeign ==
    ASSUME HostInv, StopBody, NEW i \in Foreign
    PROVE  i \in DOMAIN eventKeys'
<1>1. \A k \in Kind : clockEvent[k] \in DOMAIN eventKeys => clockEvent[k] \in DOMAIN handler
  BY Zenon DEF HostInv, RecordInv, Planned
<1>2. i \notin Recorded
  BY <1>1 DEF Recorded, Foreign
<1> QED
  BY <1>2, Zenon DEF StopBody, Foreign

LEMMA ScheduleKeepsForeign ==
    ASSUME NEW c, ScheduleAt(c), NEW i \in Foreign
    PROVE  i \in DOMAIN eventKeys'
BY DEF ScheduleAt, Foreign

\* An event is removed from the queue by being the one that fires.
LEMMA DispatchKeepsForeign ==
    ASSUME HostInv, NEW key \in events, DispatchEvent(key), NEW i \in Foreign
    PROVE  i \in DOMAIN eventKeys' \/ lastFired' = eventKeys[i]
<1>1. PICK j \in DOMAIN eventKeys : key = eventKeys[j] /\ key[2] = j
  BY Zenon DEF HostInv, TimeInv, QueueInv, IndexesAgree
<1>2. lastFired' = key /\ eventKeys' = [n \in DOMAIN eventKeys \ {key[2]} |-> eventKeys[n]]
  BY Zenon DEF DispatchEvent, RemoveFromIndex
<1>3. CASE i = j
  BY <1>1, <1>2, <1>3, Zenon
<1>4. CASE i # j
  BY <1>1, <1>2, <1>4, Zenon DEF Foreign
<1> QED
  BY <1>3, <1>4, Zenon

LEMMA ForeignStep ==
    ASSUME HostInv, [SessionNext]_allVars, NEW i \in Foreign
    PROVE  \/ i \in DOMAIN eventKeys'
           \/ lastFired' = eventKeys[i]
           \/ resetGeneration' # resetGeneration
           \/ session # "Shutdown" /\ session' = "Shutdown"
<1>1. CASE UNCHANGED eventKeys
  BY <1>1 DEF Foreign
<1>2. CASE UNCHANGED vars \/ UNCHANGED queueVars
  BY <1>1, <1>2, Zenon DEF vars, queueVars
<1>3. CASE StopBody
  BY <1>3, StopKeepsForeign, Zenon
<1>4. CASE \E c : ScheduleAt(c)
  BY <1>4, ScheduleKeepsForeign, Zenon
<1>5. CASE \E key \in events : DispatchEvent(key)
  BY <1>5, DispatchKeepsForeign, Zenon
<1>6. CASE ShutdownBody
  BY <1>6, Zenon DEF ShutdownBody
<1>7. CASE StartStep \/ CallbackCallsClock \/ \E k \in Kind : TickCallbackThrows(k)
  BY <1>2, <1>3, <1>4, <1>7, Zenon DEF StartStep, StartSchedules, StartThrows, schedule,
     CallbackCallsClock, start, stop, ResetClock, StartBody, TickCallbackThrows, HandlerCatches
<1>8. CASE \E k \in Kind : TickCallbackReturns(k)
  BY <1>2, <1>3, <1>4, <1>8, Zenon DEF TickCallbackReturns, HandlerPlans, HandlerSkips,
     HandlerCannotPlan, schedule
<1>9. CASE TickBegins \/ \E key \in events : DeviceEventBegins(key)
  BY <1>5, <1>9, Zenon DEF TickBegins, HandlerBegins, DeviceEventBegins
<1>10. CASE TickEnds \/ DeviceEventEnds
  BY <1>2, <1>10, Zenon DEF TickEnds, HandlerReturns, HandlerUnwinds, DeviceEventEnds,
     CallbackReturns, CallbackThrows, LeaveAdvance
<1>11. CASE AdvanceStops \/ ManualResetReturns \/ ConsumeChunk
  BY <1>2, <1>11, Zenon DEF AdvanceStops, EventBudgetExhausted, ReachTarget, ManualResetReturns,
     ResetReturns, LeaveAdvance, ConsumeChunk, AdvanceTo
<1>12. CASE \/ InjectResumeDone \/ InjectController \/ Ended \/ UNCHANGED allVars
            \/ ConsumeReturns \/ ConsumeThrows \/ ConsumeLoopReturns
            \/ \E g \in ConsumeSizes : consume_loop(g)
  BY <1>2, <1>12, Zenon DEF InjectResumeDone, InjectController, Ended, allVars, ConsumeReturns,
     ConsumeThrows, ConsumeLoopReturns, consume_loop
<1>13. CASE InjectResumeFails \/ Shutdown
  BY <1>6, <1>13, Zenon DEF InjectResumeFails, Shutdown
<1>14. CASE InjectResume \/ InjectPause
  BY <1>2, <1>3, <1>14, Zenon DEF InjectResume, InjectPause, StartBody
<1>15. CASE \E c \in Cycle : DeviceSchedules(c)
  BY <1>4, <1>15, Zenon DEF DeviceSchedules
<1>16. CASE \E b \in GuestBudgets : SetBudget(b)
  BY <1>2, <1>16, Zenon DEF SetBudget, SetGuestCycleBudget
<1>17. CASE ManualReset
  <2>1. resetGeneration \in Nat
    BY ClockTyped, Zenon DEF HostInv
  <2> QED
    BY <1>17, <2>1 DEF ManualReset, Reset
<1> QED
  BY <1>7, <1>8, <1>9, <1>10, <1>11, <1>12, <1>13, <1>14, <1>15, <1>16, <1>17, Zenon
     DEF SessionNext, RuntimeStep, CallbackEnds

\* stop(), reset() and a failing handler cancel by the ids the clock recorded,
\* stale ones included, and never take an event of another device with them.
THEOREM ForeignEventsSurvive == SessionSpec => ForeignEventsKept
<1>1. HostInv /\ [SessionNext]_allVars =>
        [\A i \in Foreign :
            \/ i \in DOMAIN eventKeys'
            \/ lastFired' = eventKeys[i]
            \/ resetGeneration' # resetGeneration
            \/ session # "Shutdown" /\ session' = "Shutdown"]_allVars
  BY ForeignStep
<1> QED
  BY <1>1, SpecHostInv, PTL DEF SessionSpec, ForeignEventsKept

=============================================================================
