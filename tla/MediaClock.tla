----------------------------- MODULE MediaClock -----------------------------
(***************************************************************************)
(* katana::runtime::DreamcastMediaClock on top of EventScheduler: a video   *)
(* and an audio cadence, each one scheduler event that plans its successor  *)
(* after its callback.  The callbacks are the client's and may start, stop  *)
(* or reset the clock that is calling them.                                 *)
(*                                                                          *)
(* generation_ is only ever compared with the value a handler captured, so  *)
(* the module keeps the outcome of the comparison (`fresh`) instead of the  *)
(* number.  The tick counters, which only number the ticks, are left out.   *)
(***************************************************************************)
EXTENDS EventScheduler

CONSTANTS
    CyclesPerSecond,    \* MediaClockConfig::guest_cycles_per_second
    FrameRate,          \* frame_rate
    SampleRate,         \* audio_sample_rate
    FramesPerBuffer     \* audio_frames_per_buffer

VARIABLES
    running,        \* running_
    clockEvent,     \* video_event_ and audio_event_, NoEvent for nullopt
    phase,          \* Cadence::phase of both
    deadline,       \* Cadence::deadline of both
    handler,        \* pending clock events: id -> [kind, fresh]
    handling,       \* the kind whose handler is on the stack, or NoKind
    sameRun,        \* its captured generation still is generation_
    clockPc,        \* where start() or the handler is, "idle" in client code
    anchor,         \* history: the cycle of the last start()
    nth             \* history: events of each kind planned since then

mediaVars == <<running, clockEvent, phase, deadline, handler, handling, sameRun,
               clockPc, anchor, nth>>

Kind == {"video", "audio"}
NoKind == "none"
NoEvent == 0

\* make_cadence: the interval in guest cycles, split into a whole number of
\* cycles and a rest over the denominator.
make_cadence(unitsPerTick, unitsPerSecond) ==
    LET whole == CyclesPerSecond \div unitsPerSecond
        product == (CyclesPerSecond % unitsPerSecond) * unitsPerTick
    IN  [base        |-> whole * unitsPerTick + product \div unitsPerSecond,
         remainder   |-> product % unitsPerSecond,
         denominator |-> unitsPerSecond]

cadence == [k \in Kind |-> IF k = "video" THEN make_cadence(1, FrameRate)
                                          ELSE make_cadence(FramesPerBuffer, SampleRate)]

\* What make_cadence and the constructor demand of a configuration.
ASSUME MediaClockAssumption ==
    /\ {CyclesPerSecond, FrameRate, SampleRate, FramesPerBuffer} \subseteq Nat \ {0}
    /\ \A k \in Kind : cadence[k].base # 0

ClockInit ==
    /\ running = FALSE
    /\ clockEvent = [k \in Kind |-> NoEvent]
    /\ phase = [k \in Kind |-> 0] /\ deadline = [k \in Kind |-> 0]
    /\ handler = [i \in {} |-> [kind |-> NoKind, fresh |-> FALSE]]
    /\ handling = NoKind /\ sameRun = FALSE /\ clockPc = "idle"
    /\ anchor = 0 /\ nth = [k \in Kind |-> 0]

\* The client runs: outside an advance, or in a callback the clock called.
ClientMayCall == pc \in {"caller", "callback"} /\ clockPc = "idle"

\* Of the handlers only those of pending events are kept.
StillPending(h) == [i \in DOMAIN h \cap DOMAIN eventKeys' |-> h[i]]

-----------------------------------------------------------------------------
(* advance_deadline, schedule_video and schedule_audio.                     *)

\* The rest that does not make up a cycle yet is carried in the phase.
Carries(k) ==
    /\ cadence[k].remainder # 0
    /\ phase[k] >= cadence[k].denominator - cadence[k].remainder
NextPhase(k) ==
    IF Carries(k) THEN phase[k] - (cadence[k].denominator - cadence[k].remainder)
                  ELSE phase[k] + cadence[k].remainder

\* As if the rest of the division were dropped.
DriftingDeadline(k) == deadline[k] + cadence[k].base

NextDeadline(k) == deadline[k] + cadence[k].base + (IF Carries(k) THEN 1 ELSE 0)

\* advance_deadline() does not overflow and schedule_at() accepts.
CanSchedule(k) == NextDeadline(k) <= MaxCycle /\ MayScheduleAt(NextDeadline(k))

\* What a schedule_video() or schedule_audio() that throws has changed: the
\* deadline only if it did not overflow.
ScheduleFails(k) ==
    /\ ~CanSchedule(k)
    /\ phase' = [phase EXCEPT ![k] = NextPhase(k)]
    /\ deadline' = [deadline EXCEPT ![k] = IF NextDeadline(k) > MaxCycle THEN deadline[k]
                                           ELSE NextDeadline(k)]

\* schedule_video() or schedule_audio().
schedule(k) ==
    /\ CanSchedule(k)
    /\ ScheduleAt(NextDeadline(k))
    /\ phase' = [phase EXCEPT ![k] = NextPhase(k)]
    /\ deadline' = [deadline EXCEPT ![k] = NextDeadline(k)]
    /\ clockEvent' = [clockEvent EXCEPT ![k] = nextEventId]
    /\ handler' = [i \in DOMAIN handler \cup {nextEventId} |->
                      IF i = nextEventId THEN [kind |-> k, fresh |-> TRUE] ELSE handler[i]]
    /\ nth' = [nth EXCEPT ![k] = nth[k] + 1]
    /\ UNCHANGED <<running, anchor>>

-----------------------------------------------------------------------------
(* start, stop and reset.                                                   *)

\* The scheduler events that the two cancel() calls of stop() remove.
Recorded == {clockEvent[k] : k \in Kind} \cap DOMAIN eventKeys

\* ++generation_: no captured generation equals it any more.
BumpGeneration(h) ==
    /\ handler' = [i \in DOMAIN h |-> [kind |-> h[i].kind, fresh |-> FALSE]]
    /\ sameRun' = FALSE

StopBody ==
    /\ events' = events \ {eventKeys[i] : i \in Recorded}
    /\ eventKeys' = [i \in DOMAIN eventKeys \ Recorded |-> eventKeys[i]]
    /\ BumpGeneration(StillPending(handler))
    /\ clockEvent' = [k \in Kind |-> NoEvent]
    /\ running' = FALSE
    /\ UNCHANGED <<nextEventId, observerVars, clockVars, controlVars, prepared,
                   lastFired, anchor, nth>>

\* start() up to schedule_video(); while running_ it returns at once.
StartBody ==
    /\ ~running
    /\ BumpGeneration(handler)
    /\ running' = TRUE
    /\ phase' = [k \in Kind |-> 0]
    /\ deadline' = [k \in Kind |-> currentCycle]
    /\ clockPc' = "start_video"
    /\ anchor' = currentCycle /\ nth' = [k \in Kind |-> 0]
    /\ UNCHANGED <<vars, clockEvent, handling>>

start == ClientMayCall /\ StartBody

StartSchedules(k) ==
    /\ clockPc = (IF k = "video" THEN "start_video" ELSE "start_audio")
    /\ schedule(k)
    /\ clockPc' = (IF k = "video" THEN "start_audio" ELSE "idle")
    /\ UNCHANGED <<handling, sameRun>>

\* A cadence that cannot be planned: start() stops the other one and throws.
StartThrows(k) ==
    /\ clockPc = (IF k = "video" THEN "start_video" ELSE "start_audio")
    /\ ScheduleFails(k)
    /\ StopBody
    /\ clockPc' = "idle"
    /\ UNCHANGED handling

stop ==
    /\ ClientMayCall
    /\ StopBody
    /\ UNCHANGED <<phase, deadline, handling, clockPc>>

\* DreamcastMediaClock::reset()
ResetClock ==
    /\ ClientMayCall
    /\ StopBody
    /\ phase' = [k \in Kind |-> 0]
    /\ deadline' = [k \in Kind |-> currentCycle]
    /\ UNCHANGED <<handling, clockPc>>

-----------------------------------------------------------------------------
(* handle_video and handle_audio.                                           *)

\* The scheduler calls a clock event: the handler up to the client's callback.
\* A handler of another generation does nothing.
HandlerBegins(key) ==
    /\ key[2] \in DOMAIN handler
    /\ DispatchEvent(key)
    /\ LET h == handler[key[2]] IN
        /\ clockEvent' = IF h.fresh THEN [clockEvent EXCEPT ![h.kind] = NoEvent]
                                    ELSE clockEvent
        /\ handling' = IF h.fresh THEN h.kind ELSE NoKind
        /\ sameRun' = h.fresh
        /\ clockPc' = IF h.fresh THEN "idle" ELSE "return"
    /\ handler' = StillPending(handler)
    /\ UNCHANGED <<running, phase, deadline, anchor, nth>>

\* As if the handler did not look at what its callback did to the clock.
PlansWhateverHappened(k) == running

\* After the callback: plan the next tick unless the callback stopped or
\* restarted the clock.
PlansNext(k) == sameRun /\ running /\ clockEvent[k] = NoEvent

HandlerPlans(k) ==
    /\ pc = "callback" /\ clockPc = "idle" /\ handling = k
    /\ PlansNext(k)
    /\ schedule(k)
    /\ clockPc' = "return"
    /\ UNCHANGED <<handling, sameRun>>

HandlerSkips(k) ==
    /\ pc = "callback" /\ clockPc = "idle" /\ handling = k
    /\ ~PlansNext(k)
    /\ clockPc' = "return"
    /\ UNCHANGED <<vars, running, clockEvent, phase, deadline, handler, handling,
                   sameRun, anchor, nth>>

\* The next tick cannot be planned: caught, both cadences stopped, rethrown.
HandlerCannotPlan(k) ==
    /\ pc = "callback" /\ clockPc = "idle" /\ handling = k
    /\ PlansNext(k)
    /\ ScheduleFails(k)
    /\ StopBody
    /\ clockPc' = "unwind"
    /\ UNCHANGED handling

\* The client's callback throws: caught, both cadences stopped, rethrown.
HandlerCatches(k) ==
    /\ pc = "callback" /\ clockPc = "idle" /\ handling = k
    /\ StopBody
    /\ clockPc' = "unwind"
    /\ UNCHANGED <<phase, deadline, handling>>

\* Back into advance_to().
LeaveHandler ==
    /\ handling' = NoKind /\ sameRun' = FALSE
    /\ clockPc' = "idle"
    /\ UNCHANGED <<running, clockEvent, phase, deadline, handler, anchor, nth>>

HandlerReturns == clockPc = "return" /\ CallbackReturns /\ LeaveHandler
HandlerUnwinds == clockPc = "unwind" /\ CallbackThrows /\ LeaveHandler

=============================================================================
