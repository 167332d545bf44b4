---------------------------- MODULE HostSession -----------------------------
(***************************************************************************)
(* What drives the guest clock and the media clock in a running port:       *)
(*   - SchedulerSafepoints::consume_loop() advances the scheduler in chunks; *)
(*   - HostPacer, called by the video tick, ties guest cycles to host time;  *)
(*   - HostRuntimeSession starts, pauses and shuts down clock and pacer and  *)
(*     has the storage saved once;                                          *)
(*   - other devices plan events of their own;                              *)
(*   - a manual reset of the guest CPU resets the scheduler underneath.      *)
(* Host time is abstracted: a pacing call may fail for any of its host-time  *)
(* reasons.  Audio output and input are host I/O and are left out.          *)
(***************************************************************************)
EXTENDS MediaClock

CONSTANTS
    LoopQuantum,    \* SchedulerSafepoints::loop_quantum_
    EventBudget,    \* SchedulerSafepoints::event_budget_
    ConsumeSizes,   \* the guest cycles passed to a consume_loop()
    GuestBudgets,   \* the guest-cycle budgets a port may be given
    MaxForeign      \* most pending events of other devices

ASSUME HostSessionAssumption ==
    /\ LoopQuantum \in Nat \ {0}
    /\ EventBudget \in 1 .. MaxEventBudget
    /\ ConsumeSizes \subseteq Nat /\ GuestBudgets \subseteq Cycle /\ MaxForeign \in Nat

VARIABLES
    session,        \* HostRuntimeSession::state_
    sessionPc,      \* "resuming" while inject() is inside media_clock_.start()
    lastEventCycle, \* HostRuntimeSession::last_guest_cycle_
    saves,          \* calls of the shutdown callback
    pacer,          \* HostPacer: "new", "running", "paused" or "shutdown"
    pacedCycle,     \* HostPacer::last_guest_cycle_
    loopPc,         \* where consume_loop() is: "no", "chunk" or "advancing"
    left,           \* its guest_cycles, still to be consumed
    before, target, \* locals of consume_loop() and of consume()
    status,         \* SchedulerAdvanceResult::status
    goal            \* history: the cycle at which consume_loop() must return

sessionVars == <<session, sessionPc, lastEventCycle, saves>>
pacerVars == <<pacer, pacedCycle>>
loopVars == <<loopPc, left, before, target, status, goal>>
allVars == <<vars, mediaVars, sessionVars, pacerVars, loopVars>>

SessionInit ==
    /\ Init /\ ClockInit
    /\ session = "Paused" /\ sessionPc = "idle" /\ lastEventCycle = 0 /\ saves = 0
    /\ pacer = "new" /\ pacedCycle = 0
    /\ loopPc = "no" /\ left = 0 /\ before = 0 /\ target = 0 /\ status = "none"
    /\ goal = 0

\* The guest loop runs, between two blocks: nothing of the runtime is on the
\* stack.  The shutdown of the session ends the loop.
Outside ==
    /\ pc = "caller" /\ clockPc = "idle" /\ sessionPc = "idle" /\ loopPc = "no"
    /\ session # "Shutdown"

-----------------------------------------------------------------------------
(* HostPacer.                                                               *)

Regresses(c) == c < pacedCycle

\* pause() returns at once unless the pacer runs.
PauseFails == pacer = "running" /\ Regresses(currentCycle)
PausePacer ==
    /\ pacer' = IF pacer = "running" THEN "paused" ELSE pacer
    /\ pacedCycle' = IF pacer = "running" THEN currentCycle ELSE pacedCycle

ResumeFails == pacer # "new" /\ Regresses(currentCycle)
ResumePacer == pacer' = "running" /\ pacedCycle' = currentCycle

\* pace(), the body of the video callback.
Pace ==
    IF pacer = "running" THEN /\ ~Regresses(currentCycle)
                              /\ pacedCycle' = currentCycle
                              /\ UNCHANGED pacer
                         ELSE UNCHANGED pacerVars

-----------------------------------------------------------------------------
(* HostRuntimeSession.                                                      *)

\* As if a second shutdown were not recognised.
ShutdownEveryTime ==
    /\ events' = {} /\ eventKeys' = NoKeys
    /\ BumpGeneration(StillPending(handler))
    /\ clockEvent' = [k \in Kind |-> NoEvent]
    /\ running' = FALSE
    /\ session' = "Shutdown" /\ sessionPc' = "idle"
    /\ saves' = saves + 1
    /\ pacer' = "shutdown"
    /\ UNCHANGED <<lastEventCycle, nextEventId, observerVars, clockVars, controlVars, prepared,
                   lastFired, phase, deadline, handling, clockPc, anchor, nth,
                   pacedCycle, loopVars>>

\* shutdown(): stop the clock, clear the scheduler, stop the pacer, save.
ShutdownBody ==
    /\ session # "Shutdown"
    /\ events' = {} /\ eventKeys' = NoKeys
    /\ BumpGeneration(StillPending(handler))
    /\ clockEvent' = [k \in Kind |-> NoEvent]
    /\ running' = FALSE
    /\ session' = "Shutdown" /\ sessionPc' = "idle"
    /\ saves' = saves + 1
    /\ pacer' = "shutdown"
    /\ UNCHANGED <<lastEventCycle, nextEventId, observerVars, clockVars, controlVars, prepared,
                   lastFired, phase, deadline, handling, clockPc, anchor, nth,
                   pacedCycle, loopVars>>

\* The exported port stamps an event with the scheduler's current cycle.
EventAccepted == currentCycle >= lastEventCycle

\* inject() of Resume or FocusGained, up to media_clock_.start().
InjectResume ==
    /\ Outside /\ EventAccepted /\ ~ResumeFails
    /\ lastEventCycle' = currentCycle
    /\ ResumePacer
    /\ IF running
       THEN session' = "Running" /\ UNCHANGED <<vars, mediaVars, sessionPc>>
       ELSE StartBody /\ sessionPc' = "resuming" /\ UNCHANGED session
    /\ UNCHANGED <<saves, loopVars>>

InjectResumeDone ==
    /\ sessionPc = "resuming" /\ clockPc = "idle" /\ running
    /\ session' = "Running" /\ sessionPc' = "idle"
    /\ UNCHANGED <<vars, mediaVars, lastEventCycle, saves, pacerVars, loopVars>>

\* inject() of Pause or FocusLost.
InjectPause ==
    /\ Outside /\ EventAccepted /\ ~PauseFails
    /\ lastEventCycle' = currentCycle
    /\ StopBody
    /\ PausePacer
    /\ session' = "Paused"
    /\ UNCHANGED <<sessionPc, saves, phase, deadline, handling, clockPc, loopVars>>

\* inject() of a controller state, which goes to the input replay.
InjectController ==
    /\ Outside /\ EventAccepted
    /\ lastEventCycle' = currentCycle
    /\ UNCHANGED <<vars, mediaVars, session, sessionPc, saves, pacerVars, loopVars>>

\* media_clock_.start() threw: inject() shuts the session down and rethrows.
InjectResumeFails ==
    /\ sessionPc = "resuming" /\ clockPc = "idle" /\ ~running
    /\ ShutdownBody

\* inject() of Shutdown, host.shutdown(), the destructor, and every inject()
\* that throws: an event out of order, a pacing error, audio or host time.
Shutdown == (Outside \/ session = "Shutdown") /\ ShutdownBody

\* The port has left its guest loop.
Ended == session = "Shutdown" /\ UNCHANGED allVars

-----------------------------------------------------------------------------
(* SchedulerSafepoints.                                                     *)

consume_loop(g) ==
    /\ Outside
    /\ g <= MaxCycle - currentCycle
    /\ left' = g /\ goal' = currentCycle + g
    /\ loopPc' = "chunk"
    /\ UNCHANGED <<vars, mediaVars, sessionVars, pacerVars, before, target, status>>

Chunk == IF left < LoopQuantum THEN left ELSE LoopQuantum

\* consume() up to the end of advance_to().
ConsumeChunk ==
    /\ loopPc = "chunk" /\ left # 0
    /\ AdvanceTo(currentCycle + Chunk, EventBudget)
    /\ before' = currentCycle /\ target' = currentCycle + Chunk
    /\ loopPc' = "advancing"
    /\ UNCHANGED <<mediaVars, sessionVars, pacerVars, left, status, goal>>

AdvanceStops ==
    /\ \/ EventBudgetExhausted /\ status' = "EventBudgetExhausted"
       \/ ReachTarget /\ status' = (IF effectiveTarget = target THEN "ReachedTarget"
                                    ELSE "GuestCycleBudgetExhausted")
    /\ UNCHANGED <<mediaVars, sessionVars, pacerVars, loopPc, left, before, target, goal>>

Consumed == currentCycle - before

\* As if a chunk were always consumed whole.
ConsumeWholeChunk ==
    /\ loopPc = "advancing" /\ pc = "caller"
    /\ status # "GuestCycleBudgetExhausted"
    /\ ~(Consumed = 0 /\ status = "EventBudgetExhausted")
    /\ left' = left - Chunk
    /\ loopPc' = "chunk"
    /\ UNCHANGED <<vars, mediaVars, sessionVars, pacerVars, before, target, status, goal>>

\* As if an exhausted guest-cycle budget were not an error.
ConsumeIgnoresGuestBudget ==
    /\ loopPc = "advancing" /\ pc = "caller"
    /\ ~(Consumed = 0 /\ status = "EventBudgetExhausted")
    /\ left' = left - Consumed
    /\ loopPc' = "chunk"
    /\ UNCHANGED <<vars, mediaVars, sessionVars, pacerVars, before, target, status, goal>>

\* The rest of the turn: only what the clock really advanced is consumed.
ConsumeReturns ==
    /\ loopPc = "advancing" /\ pc = "caller"
    /\ status # "GuestCycleBudgetExhausted"
    /\ ~(Consumed = 0 /\ status = "EventBudgetExhausted")
    /\ left' = left - Consumed
    /\ loopPc' = "chunk"
    /\ UNCHANGED <<vars, mediaVars, sessionVars, pacerVars, before, target, status, goal>>

LeaveLoop ==
    /\ loopPc' = "no" /\ left' = 0 /\ before' = 0 /\ target' = 0 /\ goal' = 0
    /\ status' = "none"

\* No guest cycles left to spend, or no progress within the event budget.
ConsumeThrows ==
    /\ loopPc = "advancing" /\ pc = "caller"
    /\ \/ status = "GuestCycleBudgetExhausted"
       \/ Consumed = 0 /\ status = "EventBudgetExhausted"
    /\ LeaveLoop
    /\ UNCHANGED <<vars, mediaVars, sessionVars, pacerVars>>

ConsumeLoopReturns ==
    /\ loopPc = "chunk" /\ left = 0
    /\ LeaveLoop
    /\ UNCHANGED <<vars, mediaVars, sessionVars, pacerVars>>

-----------------------------------------------------------------------------
(* The callbacks, other devices and the manual reset.                       *)

Foreign == DOMAIN eventKeys \ DOMAIN handler

\* A tick callback may call the clock that called it.
CallbackCallsClock ==
    /\ pc = "callback" /\ handling # NoKind
    /\ start \/ stop \/ ResetClock
    /\ UNCHANGED <<sessionVars, pacerVars, loopVars>>

StartStep ==
    /\ \E k \in Kind : StartSchedules(k) \/ StartThrows(k)
    /\ UNCHANGED <<sessionVars, pacerVars, loopVars>>

TickBegins ==
    /\ \E key \in events : HandlerBegins(key)
    /\ UNCHANGED <<sessionVars, pacerVars, loopVars>>

\* The callback is over; a video callback has paced the host.
TickCallbackReturns(k) ==
    /\ HandlerPlans(k) \/ HandlerSkips(k) \/ HandlerCannotPlan(k)
    /\ IF k = "video" THEN Pace ELSE UNCHANGED pacerVars
    /\ UNCHANGED <<sessionVars, loopVars>>

TickCallbackThrows(k) ==
    /\ HandlerCatches(k)
    /\ UNCHANGED <<sessionVars, pacerVars, loopVars>>

TickEnds ==
    /\ \/ HandlerReturns /\ UNCHANGED loopVars
       \/ HandlerUnwinds /\ LeaveLoop
    /\ UNCHANGED <<sessionVars, pacerVars>>

DeviceSchedules(c) ==
    /\ \/ Outside
       \/ pc = "callback" /\ handling = NoKind /\ clockPc = "idle"
    /\ Cardinality(Foreign) < MaxForeign
    /\ ScheduleAt(c)
    /\ UNCHANGED <<mediaVars, sessionVars, pacerVars, loopVars>>

DeviceEventBegins(key) ==
    /\ key[2] \in Foreign
    /\ DispatchEvent(key)
    /\ UNCHANGED <<mediaVars, sessionVars, pacerVars, loopVars>>

DeviceEventEnds ==
    /\ handling = NoKind /\ clockPc = "idle"
    /\ \/ CallbackReturns /\ UNCHANGED loopVars
       \/ CallbackThrows /\ LeaveLoop
    /\ UNCHANGED <<mediaVars, sessionVars, pacerVars>>

\* The manual reset of the guest CPU resets the scheduler; neither the media
\* clock nor the session observes it.
ManualReset ==
    /\ Outside
    /\ Reset
    /\ handler' = StillPending(handler)
    /\ UNCHANGED <<running, clockEvent, phase, deadline, handling, sameRun, clockPc,
                   anchor, nth, sessionVars, pacerVars, loopVars>>

ManualResetReturns ==
    /\ ResetReturns
    /\ UNCHANGED <<mediaVars, sessionVars, pacerVars, loopVars>>

SetBudget(b) ==
    /\ Outside
    /\ SetGuestCycleBudget(b)
    /\ UNCHANGED <<mediaVars, sessionVars, pacerVars, loopVars>>

RuntimeStep ==
    \/ StartStep \/ TickBegins \/ TickEnds
    \/ \E key \in events : DeviceEventBegins(key)
    \/ AdvanceStops \/ ManualResetReturns
    \/ InjectResumeDone \/ InjectResumeFails
    \/ ConsumeChunk \/ ConsumeReturns \/ ConsumeThrows \/ ConsumeLoopReturns

CallbackEnds ==
    \/ \E k \in Kind : TickCallbackReturns(k) \/ TickCallbackThrows(k)
    \/ DeviceEventEnds

SessionNext ==
    \/ RuntimeStep
    \/ CallbackEnds
    \/ CallbackCallsClock
    \/ InjectResume \/ InjectPause \/ InjectController \/ Shutdown \/ Ended
    \/ \E g \in ConsumeSizes : consume_loop(g)
    \/ \E c \in Cycle : DeviceSchedules(c)
    \/ \E b \in GuestBudgets : SetBudget(b)
    \/ ManualReset

\* The runtime's own code runs on, and every callback ends although it may
\* call back into the clock any number of times before it does.
SessionSpec ==
    /\ SessionInit /\ [][SessionNext]_allVars
    /\ WF_allVars(RuntimeStep)
    /\ SF_allVars(CallbackEnds)

-----------------------------------------------------------------------------
(* Properties.                                                              *)

\* The cadence k has its next tick pending, or its handler will plan it.
Alive(k) ==
    \/ clockEvent[k] \in DOMAIN eventKeys
    \/ handling = k /\ clockPc = "idle" /\ PlansNext(k)

\* The media path is never half active, through restarts inside callbacks,
\* exceptions, exhausted ids and manual resets: outside start() both cadences
\* are alive or neither is, a stopped clock has nothing pending, and each
\* pending clock event is the recorded one, so that stop() can reach it.
NeverHalfActive ==
    /\ clockPc \in {"idle", "return"} => (Alive("video") <=> Alive("audio"))
    /\ ~running => DOMAIN handler = {}
    /\ \A i \in DOMAIN handler : handler[i].fresh /\ clockEvent[handler[i].kind] = i

\* The n-th tick of a run is planned for start + floor(n * interval) with the
\* exact rational interval: the phase carries what integer division loses.
ExactDeadline(k) ==
    anchor + IF k = "video"
             THEN (nth[k] * CyclesPerSecond) \div FrameRate
             ELSE (nth[k] * FramesPerBuffer * CyclesPerSecond) \div SampleRate
TicksOnTime ==
    \A k \in Kind : clockEvent[k] \in DOMAIN eventKeys =>
                        eventKeys[clockEvent[k]] = <<ExactDeadline(k), clockEvent[k]>>

\* The clock keeps ids of events that a manual reset has discarded.  Whatever
\* it cancels with them, an event of another device leaves the scheduler only
\* by being dispatched, by a manual reset or by the session's shutdown.
ForeignEventsKept ==
    [][\A i \in Foreign :
        \/ i \in DOMAIN eventKeys'
        \/ lastFired' = eventKeys[i]
        \/ resetGeneration' # resetGeneration
        \/ session # "Shutdown" /\ session' = "Shutdown"]_allVars

\* Session, clock and pacer agree: the clock runs only in a running session,
\* a running session paces, a shut-down one has stopped both and had the
\* storage saved exactly once.  Without a manual reset no pacing call ever
\* finds the guest clock behind the cycle it paced last.
SessionAgrees ==
    /\ running => session = "Running" \/ sessionPc = "resuming"
    /\ session = "Running" => pacer = "running"
    /\ session = "Shutdown" <=> pacer = "shutdown"
    /\ saves = (IF session = "Shutdown" THEN 1 ELSE 0)
    /\ resetGeneration = 0 => ~Regresses(currentCycle)

\* consume_loop() neither loses nor invents guest cycles: between two chunks
\* the clock is exactly as far from the goal as there are cycles left, also
\* after an advance that the event budget cut short.
CyclesAccounted == loopPc = "chunk" => currentCycle + left = goal

\* consume_loop() ends: it returns or throws, whatever the callbacks plan.
ConsumeLoopEnds == loopPc # "no" ~> loopPc = "no"

=============================================================================
