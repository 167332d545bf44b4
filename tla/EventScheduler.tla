--------------------------- MODULE EventScheduler ---------------------------
(***************************************************************************)
(* katana::runtime::EventScheduler: the guest-cycle clock and the ordered   *)
(* set of pending events on which every modelled Dreamcast device runs.     *)
(* It has no threads.  What makes it hard is reentrancy: an event callback  *)
(* runs inside advance_to() and may itself schedule, cancel, clear, or set  *)
(* the guest-cycle budget, and a reset observer runs inside reset().  A     *)
(* step of this module is one API call, one turn of the advance loop, or    *)
(* one observer notification.  A call that throws before it changes         *)
(* anything is not a step, and the diagnostics (processed_event_count_, the  *)
(* replay log, the crash capsule, the status word of an advance) are left   *)
(* out: no decision of the scheduler reads them.                            *)
(***************************************************************************)
EXTENDS Integers, FiniteSets

CONSTANTS
    MaxCycle,           \* numeric_limits<uint64_t>::max() of the guest clock
    MaxEventId,         \* numeric_limits<SchedulerEventId>::max()
    MaxObserverId,      \* numeric_limits<SchedulerResetObserverId>::max()
    MaxGeneration,      \* numeric_limits of reset_generation_
    MaxEventBudget,     \* largest per-advance event budget a caller passes
    MaxPrepared,        \* most events in one passive restore
    MaxRestores,        \* most PreparedPassiveRestore objects alive at once
    BudgetFromCallback  \* may an event callback call set_guest_cycle_budget?

ASSUME SchedulerAssumption ==
    /\ MaxCycle \in Nat
    /\ MaxEventId \in Nat \ {0}
    /\ MaxObserverId \in Nat \ {0}
    /\ MaxGeneration \in Nat
    /\ MaxEventBudget \in Nat
    /\ MaxPrepared \in Nat
    /\ MaxRestores \in Nat
    /\ BudgetFromCallback \in BOOLEAN

VARIABLES
    currentCycle,       \* current_cycle_
    nextEventId,        \* next_event_id_
    events,             \* keys of events_: pairs <<deadline, id>>
    eventKeys,          \* event_keys_: id -> key
    resetGeneration,    \* reset_generation_
    guestBudget,        \* guest_cycle_budget_, NoBudget for nullopt
    advanceInProgress,  \* advance_in_progress_
    observers,          \* ids in reset_observers_
    nextObserverId,     \* next_reset_observer_id_
    pc,                 \* who runs: the caller, the loop, a callback, reset()
    effectiveTarget,    \* locals of the advance_to() in progress: its capped target,
    eventBudget,        \*   its event budget,
    processed,          \*   and the events it has dispatched
    toNotify,           \* the observers reset() copied and has yet to call
    prepared,           \* outstanding PreparedPassiveRestore objects
    lastFired           \* history: key of the last event of this time line

queueVars == <<events, eventKeys, nextEventId>>
observerVars == <<observers, nextObserverId>>
clockVars == <<currentCycle, resetGeneration, guestBudget>>
localVars == <<effectiveTarget, eventBudget, processed>>
controlVars == <<advanceInProgress, pc, localVars, toNotify>>
vars == <<queueVars, observerVars, clockVars, controlVars, prepared, lastFired>>

Cycle == 0 .. MaxCycle
EventId == 1 .. MaxEventId
EventKey == Cycle \X EventId
NoBudget == 0
\* A restore of n events: the deadline of the i-th is deadline[i].
Restore(n) == [cycle : Cycle, expectedNextId : EventId, expectedBudget : Cycle,
               size : {n}, deadline : [1 .. n -> Cycle]]
Prepared == UNION {Restore(n) : n \in 0 .. MaxPrepared}

\* The order of std::map<EventKey, ...>: by deadline, then by id.
KeyLess(a, b) == a[1] < b[1] \/ (a[1] = b[1] /\ a[2] < b[2])

NoKeys == [i \in {} |-> <<0, 0>>]

\* Every variable stays in its type; clock, ids and generations within 64 bits.
TypeOK ==
    /\ currentCycle \in Cycle
    /\ nextEventId \in EventId
    /\ events \subseteq EventKey
    /\ DOMAIN eventKeys \subseteq EventId
    /\ \A i \in DOMAIN eventKeys : eventKeys[i] \in EventKey
    /\ resetGeneration \in 0 .. MaxGeneration
    /\ guestBudget \in Cycle
    /\ advanceInProgress \in BOOLEAN
    /\ observers \subseteq 1 .. MaxObserverId
    /\ nextObserverId \in 1 .. MaxObserverId
    /\ pc \in {"caller", "loop", "callback", "observer", "terminated"}
    /\ effectiveTarget \in Cycle
    /\ eventBudget \in 0 .. MaxEventBudget
    /\ processed \in 0 .. MaxEventBudget
    /\ toNotify \subseteq 1 .. MaxObserverId
    /\ prepared \subseteq Prepared
    /\ lastFired \in Cycle \X (0 .. MaxEventId)

Init ==
    /\ currentCycle = 0 /\ resetGeneration = 0
    /\ guestBudget = NoBudget
    /\ nextEventId = 1 /\ events = {} /\ eventKeys = NoKeys
    /\ observers = {} /\ nextObserverId = 1
    /\ advanceInProgress = FALSE /\ pc = "caller"
    /\ effectiveTarget = 0 /\ eventBudget = 0 /\ processed = 0
    /\ toNotify = {}
    /\ prepared = {} /\ lastFired = <<0, 0>>

\* Code outside the scheduler runs here and may call its API.
ClientRuns == pc \in {"caller", "callback", "observer"}

-----------------------------------------------------------------------------
(* Planning and cancelling.                                                 *)

MayScheduleAtAnyTime(c) == nextEventId # MaxEventId
MayScheduleAt(c) == c >= currentCycle /\ nextEventId # MaxEventId

ScheduleAt(c) ==
    /\ ClientRuns
    /\ MayScheduleAt(c)
    /\ events' = events \cup {<<c, nextEventId>>}
    /\ eventKeys' = [i \in DOMAIN eventKeys \cup {nextEventId} |->
                        IF i = nextEventId THEN <<c, nextEventId>> ELSE eventKeys[i]]
    /\ nextEventId' = nextEventId + 1
    /\ UNCHANGED <<observerVars, clockVars, controlVars, prepared, lastFired>>

ScheduleAfter(d) == d <= MaxCycle - currentCycle /\ ScheduleAt(currentCycle + d)

ScheduleAtOrNow(c) ==
    ScheduleAt(IF c < currentCycle THEN currentCycle ELSE c)

KeepInIndex(id) == eventKeys
RemoveFromIndex(id) == [i \in DOMAIN eventKeys \ {id} |-> eventKeys[i]]

Cancel(id) ==
    /\ ClientRuns
    /\ id \in DOMAIN eventKeys
    /\ events' = events \ {eventKeys[id]}
    /\ eventKeys' = RemoveFromIndex(id)
    /\ UNCHANGED <<nextEventId, observerVars, clockVars, controlVars, prepared,
                   lastFired>>

Clear ==
    /\ ClientRuns
    /\ events' = {} /\ eventKeys' = NoKeys
    /\ UNCHANGED <<nextEventId, observerVars, clockVars, controlVars, prepared,
                   lastFired>>

AddResetObserver ==
    /\ ClientRuns
    /\ nextObserverId # MaxObserverId
    /\ observers' = observers \cup {nextObserverId}
    /\ nextObserverId' = nextObserverId + 1
    /\ UNCHANGED <<queueVars, clockVars, controlVars, prepared, lastFired>>

RemoveResetObserver(o) ==
    /\ ClientRuns
    /\ o \in observers
    /\ observers' = observers \ {o}
    /\ UNCHANGED <<queueVars, nextObserverId, clockVars, controlVars, prepared,
                   lastFired>>

-----------------------------------------------------------------------------
(* The guest-cycle budget.                                                  *)

\* set_guest_cycle_budget does not look at advance_in_progress_.
SetGuestCycleBudget(b) ==
    /\ \/ pc \in {"caller", "observer"}
       \/ pc = "callback" /\ BudgetFromCallback
    /\ b # NoBudget
    /\ guestBudget \in {NoBudget, b}
    /\ guestBudget = NoBudget => currentCycle = 0
    /\ b >= currentCycle
    /\ guestBudget' = b
    /\ UNCHANGED <<queueVars, observerVars, currentCycle, resetGeneration,
                   controlVars, prepared, lastFired>>

TrySetGuestCycleBudgetAfterCurrentCycle(d) ==
    /\ ClientRuns
    /\ ~advanceInProgress
    /\ guestBudget = NoBudget
    /\ d # 0 /\ d <= MaxCycle - currentCycle
    /\ guestBudget' = currentCycle + d
    /\ UNCHANGED <<queueVars, observerVars, currentCycle, resetGeneration,
                   controlVars, prepared, lastFired>>

-----------------------------------------------------------------------------
(* advance_to, advance_by and the events they dispatch.                     *)

EffectiveTarget(c) ==
    IF guestBudget # NoBudget /\ guestBudget < c THEN guestBudget ELSE c

AdvanceTo(c, n) ==
    /\ pc = "caller"
    /\ ~advanceInProgress
    /\ c >= currentCycle
    /\ advanceInProgress' = TRUE
    /\ pc' = "loop"
    /\ effectiveTarget' = EffectiveTarget(c)
    /\ eventBudget' = n
    /\ processed' = 0
    /\ UNCHANGED <<queueVars, observerVars, clockVars, toNotify, prepared, lastFired>>

AdvanceBy(d, n) == d <= MaxCycle - currentCycle /\ AdvanceTo(currentCycle + d, n)

\* events_.begin()
EarliestByCycleOnly(k) == k \in events /\ \A o \in events : k[1] <= o[1]
IsFirst(k) == k \in events /\ \A o \in events \ {k} : KeyLess(k, o)

\* The loop condition: events_.begin()->first.first <= effective_target.
EventDue == \E k \in events : k[1] <= effectiveTarget

\* One turn of the loop up to the call of the callback.
DispatchEvent(k) ==
    /\ pc = "loop"
    /\ EventDue
    /\ IsFirst(k)
    /\ processed # eventBudget
    /\ events' = events \ {k}
    /\ eventKeys' = RemoveFromIndex(k[2])
    /\ currentCycle' = k[1]
    /\ processed' = processed + 1
    /\ pc' = "callback"
    /\ lastFired' = k
    /\ UNCHANGED <<nextEventId, observerVars, resetGeneration, guestBudget,
                   advanceInProgress, effectiveTarget, eventBudget, toNotify, prepared>>

CallbackReturns ==
    /\ pc = "callback"
    /\ pc' = "loop"
    /\ UNCHANGED <<queueVars, observerVars, clockVars, advanceInProgress, localVars,
                   toNotify, prepared, lastFired>>

LeaveAdvance ==
    /\ advanceInProgress' = FALSE
    /\ pc' = "caller"
    /\ effectiveTarget' = 0 /\ eventBudget' = 0 /\ processed' = 0
    /\ UNCHANGED <<queueVars, observerVars, toNotify, prepared, lastFired>>

\* The exception propagates; AdvanceGuard lowers the flag while unwinding.
CallbackThrowsUnguarded ==
    /\ pc = "callback"
    /\ pc' = "caller"
    /\ UNCHANGED <<queueVars, observerVars, clockVars, advanceInProgress, localVars,
                   toNotify, prepared, lastFired>>

CallbackThrows ==
    /\ pc = "callback"
    /\ LeaveAdvance
    /\ UNCHANGED clockVars

EventBudgetExhausted ==
    /\ pc = "loop"
    /\ EventDue
    /\ processed = eventBudget
    /\ LeaveAdvance
    /\ UNCHANGED clockVars

\* Nothing is due any more: ReachedTarget or GuestCycleBudgetExhausted.
ReachTarget ==
    /\ pc = "loop"
    /\ ~EventDue
    /\ currentCycle' = effectiveTarget
    /\ LeaveAdvance
    /\ UNCHANGED <<resetGeneration, guestBudget>>

-----------------------------------------------------------------------------
(* reset and the two passive restores.                                      *)

\* reset() does not touch next_event_id_.
RestartedIds == 1
IdsAfterReset == nextEventId

\* reset() up to its first observer; toNotify is the copied observer vector.
Reset ==
    /\ pc = "caller"
    /\ ~advanceInProgress
    /\ resetGeneration # MaxGeneration
    /\ events' = {} /\ eventKeys' = NoKeys
    /\ currentCycle' = 0
    /\ resetGeneration' = resetGeneration + 1
    /\ nextEventId' = IdsAfterReset
    /\ toNotify' = observers
    /\ pc' = "observer"
    /\ lastFired' = <<0, 0>>
    /\ UNCHANGED <<observerVars, guestBudget, advanceInProgress, localVars, prepared>>

\* Observers run in id order; one that throws does not stop the next.
NotifyObserver(o) ==
    /\ pc = "observer"
    /\ o \in toNotify /\ \A p \in toNotify : o <= p
    /\ toNotify' = toNotify \ {o}
    /\ UNCHANGED <<queueVars, observerVars, clockVars, advanceInProgress, pc, localVars,
                   prepared, lastFired>>

ResetReturns ==
    /\ pc = "observer"
    /\ toNotify = {}
    /\ pc' = "caller"
    /\ UNCHANGED <<queueVars, observerVars, clockVars, advanceInProgress, localVars,
                   toNotify, prepared, lastFired>>

AnyCycle(c) == TRUE
WithinBudget(c) == guestBudget # NoBudget => c <= guestBudget

RestoreTimePassive(c) ==
    /\ pc = "caller"
    /\ ~advanceInProgress
    /\ WithinBudget(c)
    /\ events' = {} /\ eventKeys' = NoKeys
    /\ currentCycle' = c
    /\ lastFired' = <<0, 0>>
    /\ UNCHANGED <<nextEventId, observerVars, resetGeneration,
                   guestBudget, controlVars, prepared>>

PreparePassiveRestore(r) ==
    /\ pc = "caller"
    /\ Cardinality(prepared) < MaxRestores
    /\ ~advanceInProgress
    /\ WithinBudget(r.cycle)
    /\ r.size <= MaxEventId - nextEventId
    /\ \A i \in 1 .. r.size : r.deadline[i] >= r.cycle
    /\ r.expectedNextId = nextEventId
    /\ r.expectedBudget = guestBudget
    /\ prepared' = prepared \cup {r}
    /\ UNCHANGED <<queueVars, observerVars, clockVars, controlVars, lastFired>>

CommitUnchecked(r) == ~advanceInProgress
CommitAllowed(r) ==
    /\ ~advanceInProgress
    /\ nextEventId = r.expectedNextId
    /\ guestBudget = r.expectedBudget

\* The i-th restored event has id expectedNextId + i - 1.
RestoredKey(r, id) == <<r.deadline[id - r.expectedNextId + 1], id>>
RestoredIds(r) == r.expectedNextId .. r.expectedNextId + r.size - 1

CommitPreparedPassiveRestore(r) ==
    /\ pc = "caller"
    /\ r \in prepared
    /\ CommitAllowed(r)
    /\ events' = {RestoredKey(r, id) : id \in RestoredIds(r)}
    /\ eventKeys' = [id \in RestoredIds(r) |-> RestoredKey(r, id)]
    /\ currentCycle' = r.cycle
    /\ nextEventId' = r.expectedNextId + r.size
    /\ prepared' = prepared \ {r}
    /\ lastFired' = <<0, 0>>
    /\ UNCHANGED <<observerVars, resetGeneration, guestBudget,
                   controlVars>>

\* A stale PreparedPassiveRestore ends the process: std::terminate.
CommitTerminates(r) ==
    /\ pc = "caller"
    /\ r \in prepared
    /\ ~CommitAllowed(r)
    /\ pc' = "terminated"
    /\ UNCHANGED <<queueVars, observerVars, clockVars, advanceInProgress, localVars,
                   toNotify, prepared, lastFired>>

Terminated == pc = "terminated" /\ UNCHANGED vars

-----------------------------------------------------------------------------
AdvanceStep ==
    \/ \E k \in events : DispatchEvent(k)
    \/ EventBudgetExhausted
    \/ ReachTarget

ClientCall ==
    \/ \E c \in Cycle : \/ ScheduleAt(c)
                        \/ ScheduleAfter(c)
                        \/ ScheduleAtOrNow(c)
                        \/ SetGuestCycleBudget(c)
                        \/ TrySetGuestCycleBudgetAfterCurrentCycle(c)
                        \/ RestoreTimePassive(c)
    \/ \E c \in Cycle, n \in 0 .. MaxEventBudget : AdvanceTo(c, n) \/ AdvanceBy(c, n)
    \/ \E id \in EventId : Cancel(id)
    \/ Clear
    \/ Reset
    \/ AddResetObserver
    \/ \E o \in observers : RemoveResetObserver(o)
    \/ \E r \in Prepared : PreparePassiveRestore(r)
    \/ \E r \in prepared : CommitPreparedPassiveRestore(r) \/ CommitTerminates(r)

Next ==
    \/ ClientCall
    \/ AdvanceStep
    \/ CallbackReturns
    \/ CallbackThrows
    \/ \E o \in toNotify : NotifyObserver(o)
    \/ ResetReturns
    \/ Terminated

Spec == Init /\ [][Next]_vars

\* advance_to is straight-line code, and callbacks and observers return.
Fairness ==
    /\ WF_vars(AdvanceStep)
    /\ WF_vars(CallbackReturns)
    /\ WF_vars(\E o \in toNotify : NotifyObserver(o))
    /\ WF_vars(ResetReturns)

FairSpec == Spec /\ Fairness

-----------------------------------------------------------------------------
(* Properties.                                                              *)

\* events_ and event_keys_ describe the same events: what cancel() can reach
\* is exactly what advance_to() will dispatch, whatever mix of calls, thrown
\* callbacks and restores came before.
IndexesAgree ==
    /\ events = {eventKeys[i] : i \in DOMAIN eventKeys}
    /\ \A i \in DOMAIN eventKeys : eventKeys[i][2] = i

\* No pending event lies before the clock, also in the middle of an advance
\* and after a restore or an advance cut short by either budget.
NothingInThePast == \A k \in events : k[1] >= currentCycle

\* The clock never passes the guest-cycle budget, so the unsigned difference
\* remaining_guest_cycles() returns never wraps.
BudgetRespected == guestBudget # NoBudget => currentCycle <= guestBudget

\* advance_in_progress_ is up exactly while advance_to() is on the stack.
AdvanceFlagExact == advanceInProgress <=> pc \in {"loop", "callback"}

\* Between resets and restores events fire in strictly increasing (deadline,
\* id) order, callbacks that plan more events for the current cycle included.
FiredInOrder ==
    [][pc = "loop" /\ pc' = "callback" => KeyLess(lastFired, lastFired')]_vars

\* The clock of a running advance never steps back.
ClockMonotone == [][advanceInProgress => currentCycle' >= currentCycle]_vars

\* An id that was handed out and is no longer pending never becomes pending
\* again, and no id is handed out twice, across resets and restores: a device
\* may keep a stale id and cancel it without hitting somebody else's event.
IdsNeverReturn ==
    [][/\ nextEventId' >= nextEventId
       /\ \A id \in 1 .. nextEventId - 1 :
            id \notin DOMAIN eventKeys => id \notin DOMAIN eventKeys']_vars

\* Every advance_to() gives control back to its caller, however many events
\* its callbacks plan, and lowers the flag so that the next one is accepted.
AdvanceReturns == advanceInProgress ~> ~advanceInProgress

=============================================================================
