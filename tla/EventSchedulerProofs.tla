------------------------ MODULE EventSchedulerProofs ------------------------
(***************************************************************************)
(* Proofs about EventScheduler for every value of its limits.               *)
(***************************************************************************)
EXTENDS EventScheduler, TLAPS

\* A restore that is still outstanding was validated when it was prepared.
PreparedValid ==
    \A r \in prepared :
        /\ r.expectedNextId + r.size <= MaxEventId
        /\ \A i \in 1 .. r.size : r.deadline[i] >= r.cycle
        /\ r.expectedBudget # NoBudget => r.cycle <= r.expectedBudget

\* Pending ids have been handed out.
IdsIssued == \A k \in events : k[2] < nextEventId

\* What holds whoever sets the budget, and when.
QueueInv ==
    /\ TypeOK
    /\ IndexesAgree
    /\ NothingInThePast
    /\ AdvanceFlagExact
    /\ IdsIssued
    /\ PreparedValid
    /\ processed <= eventBudget

\* What a restored event set looks like, from its record.
LEMMA PreparedFields ==
    ASSUME NEW r \in Prepared
    PROVE  /\ r.cycle \in Cycle
           /\ r.expectedNextId \in EventId
           /\ r.expectedBudget \in Cycle
           /\ r.size \in 0 .. MaxPrepared
           /\ \A i \in 1 .. r.size : r.deadline[i] \in Cycle
<1>1. PICK n \in 0 .. MaxPrepared : r \in Restore(n)
  BY DEF Prepared
<1> QED
  BY <1>1 DEF Restore

\* A committed restore yields well-typed keys with fresh, consecutive ids.
LEMMA RestoredKeys ==
    ASSUME NEW r \in Prepared, r.expectedNextId + r.size <= MaxEventId,
           NEW id \in RestoredIds(r)
    PROVE  /\ id \in EventId
           /\ id - r.expectedNextId + 1 \in 1 .. r.size
           /\ RestoredKey(r, id) \in EventKey
           /\ RestoredKey(r, id)[1] = r.deadline[id - r.expectedNextId + 1]
           /\ RestoredKey(r, id)[2] = id
           /\ id < r.expectedNextId + r.size
<1>1. /\ r.expectedNextId \in Nat /\ r.expectedNextId >= 1
      /\ r.size \in Nat
  BY PreparedFields, SchedulerAssumption DEF EventId
<1>2. id \in EventId /\ id - r.expectedNextId + 1 \in 1 .. r.size
  BY <1>1, SchedulerAssumption DEF RestoredIds, EventId
<1>3. r.deadline[id - r.expectedNextId + 1] \in Cycle
  BY <1>2, PreparedFields
<1> QED
  BY <1>1, <1>2, <1>3 DEF RestoredKey, EventKey, RestoredIds

\* Removing one event from both indexes keeps them in step.
LEMMA IndexRemoval ==
    ASSUME QueueInv, NEW id \in DOMAIN eventKeys,
           events' = events \ {eventKeys[id]}, eventKeys' = RemoveFromIndex(id)
    PROVE  /\ events' \subseteq EventKey
           /\ DOMAIN eventKeys' \subseteq EventId
           /\ \A i \in DOMAIN eventKeys' : eventKeys'[i] \in EventKey
           /\ IndexesAgree'
<1>1. /\ DOMAIN eventKeys' = DOMAIN eventKeys \ {id}
      /\ \A i \in DOMAIN eventKeys' : eventKeys'[i] = eventKeys[i]
  BY DEF RemoveFromIndex
<1>2. \A i \in DOMAIN eventKeys : eventKeys[i][2] = i
  BY DEF QueueInv, IndexesAgree
<1>3. events' = {eventKeys'[i] : i \in DOMAIN eventKeys'}
  BY <1>1, <1>2 DEF QueueInv, IndexesAgree
<1> QED
  BY <1>1, <1>2, <1>3 DEF QueueInv, TypeOK, IndexesAgree

\* The invariant holds of a fresh scheduler.
LEMMA QueueInit == Init => QueueInv
<1> SUFFICES ASSUME Init PROVE QueueInv
  OBVIOUS
<1>1. DOMAIN eventKeys = {} /\ events = {} /\ prepared = {}
  BY DEF Init, NoKeys
<1>2. TypeOK
  <2>1. /\ 0 \in Cycle /\ 1 \in EventId /\ 1 \in 1 .. MaxObserverId
        /\ 0 \in 0 .. MaxGeneration /\ 0 \in 0 .. MaxEventBudget /\ 0 \in 0 .. MaxEventId
    BY SchedulerAssumption DEF Cycle, EventId
  <2>2. advanceInProgress \in BOOLEAN
    BY DEF Init
  <2> QED
    BY <1>1, <2>1, <2>2 DEF Init, TypeOK, NoBudget
<1>3. IndexesAgree
  BY <1>1 DEF IndexesAgree
<1>4. AdvanceFlagExact /\ processed <= eventBudget
  BY DEF Init, AdvanceFlagExact
<1> QED
  BY <1>1, <1>2, <1>3, <1>4 DEF QueueInv, NothingInThePast, IdsIssued, PreparedValid

\* schedule_at, and with it schedule_after and schedule_at_or_now.
LEMMA ScheduleKeepsQueue ==
    ASSUME QueueInv, NEW c \in Cycle, ScheduleAt(c)
    PROVE  QueueInv'
<1> USE SchedulerAssumption DEF QueueInv
<1>1. /\ nextEventId \in EventId /\ nextEventId + 1 \in EventId
      /\ <<c, nextEventId>> \in EventKey
  BY DEF ScheduleAt, MayScheduleAt, TypeOK, EventId, EventKey
<1>2. nextEventId \notin DOMAIN eventKeys
  BY DEF IdsIssued, IndexesAgree, TypeOK, EventId
<1>3. /\ DOMAIN eventKeys' = DOMAIN eventKeys \cup {nextEventId}
      /\ eventKeys'[nextEventId] = <<c, nextEventId>>
      /\ \A i \in DOMAIN eventKeys : eventKeys'[i] = eventKeys[i]
  BY <1>2 DEF ScheduleAt
<1>4. IndexesAgree'
  <2>1. events' = {eventKeys[i] : i \in DOMAIN eventKeys} \cup {<<c, nextEventId>>}
    BY DEF ScheduleAt, IndexesAgree
  <2>2. \A i \in DOMAIN eventKeys' : eventKeys'[i][2] = i
    BY <1>3 DEF IndexesAgree
  <2>3. events' = {eventKeys'[i] : i \in DOMAIN eventKeys'}
    BY <1>3, <2>1, Zenon
  <2> QED
    BY <2>2, <2>3 DEF IndexesAgree
<1>5. TypeOK'
  BY <1>1, <1>3 DEF ScheduleAt, TypeOK, observerVars, clockVars, controlVars, localVars
<1>6. NothingInThePast' /\ AdvanceFlagExact' /\ PreparedValid'
  BY DEF ScheduleAt, MayScheduleAt, NothingInThePast, AdvanceFlagExact, PreparedValid,
         clockVars, controlVars, localVars
<1>7. IdsIssued'
  BY <1>1 DEF ScheduleAt, IdsIssued, TypeOK, EventId, EventKey
<1> QED
  BY <1>4, <1>5, <1>6, <1>7 DEF ScheduleAt, controlVars, localVars

\* cancel.
LEMMA CancelKeepsQueue ==
    ASSUME QueueInv, NEW id \in EventId, Cancel(id)
    PROVE  QueueInv'
<1>1. /\ id \in DOMAIN eventKeys
      /\ events' = events \ {eventKeys[id]}
      /\ eventKeys' = RemoveFromIndex(id)
  BY DEF Cancel
<1>2. /\ events' \subseteq EventKey /\ DOMAIN eventKeys' \subseteq EventId
      /\ \A i \in DOMAIN eventKeys' : eventKeys'[i] \in EventKey
      /\ IndexesAgree'
  BY <1>1, IndexRemoval
<1>3. TypeOK'
  BY <1>2 DEF QueueInv, TypeOK, Cancel, observerVars, clockVars, controlVars, localVars
<1> QED
  BY <1>1, <1>2, <1>3 DEF QueueInv, Cancel, NothingInThePast, AdvanceFlagExact, IdsIssued,
     PreparedValid, clockVars, controlVars, localVars

\* One dispatch of the advance loop.
LEMMA DispatchKeepsQueue ==
    ASSUME QueueInv, NEW k \in events, DispatchEvent(k)
    PROVE  QueueInv'
<1>1. /\ k[2] \in DOMAIN eventKeys /\ eventKeys[k[2]] = k
      /\ k \in EventKey /\ k[1] \in Cycle /\ k[2] \in EventId
  BY DEF QueueInv, IndexesAgree, TypeOK, EventKey
<1>2. /\ events' = events \ {eventKeys[k[2]]}
      /\ eventKeys' = RemoveFromIndex(k[2])
  BY <1>1 DEF DispatchEvent
<1>3. /\ events' \subseteq EventKey /\ DOMAIN eventKeys' \subseteq EventId
      /\ \A i \in DOMAIN eventKeys' : eventKeys'[i] \in EventKey
      /\ IndexesAgree'
  BY <1>1, <1>2, IndexRemoval
<1>4. /\ processed' \in 0 .. MaxEventBudget /\ processed' <= eventBudget'
      /\ lastFired' \in Cycle \X (0 .. MaxEventId)
  BY <1>1, SchedulerAssumption
     DEF QueueInv, TypeOK, DispatchEvent, EventId, EventKey
<1>5. TypeOK'
  BY <1>1, <1>3, <1>4 DEF QueueInv, TypeOK, DispatchEvent, observerVars
<1>6. NothingInThePast'
  <2> SUFFICES ASSUME NEW o \in events' PROVE o[1] >= currentCycle'
    BY DEF NothingInThePast
  <2>1. o \in events \ {k} /\ o[1] \in Cycle
    BY DEF DispatchEvent, QueueInv, TypeOK, EventKey
  <2>2. KeyLess(k, o)
    BY <2>1 DEF DispatchEvent, IsFirst
  <2> QED
    BY <1>1, <2>1, <2>2, SchedulerAssumption DEF DispatchEvent, KeyLess, Cycle
<1> QED
  BY <1>3, <1>4, <1>5, <1>6 DEF QueueInv, DispatchEvent, AdvanceFlagExact, IdsIssued, PreparedValid

\* commit_prepared_passive_restore.
LEMMA CommitKeepsQueue ==
    ASSUME QueueInv, NEW r \in prepared, CommitPreparedPassiveRestore(r)
    PROVE  QueueInv'
<1>1. /\ r \in Prepared /\ r.expectedNextId + r.size <= MaxEventId
      /\ \A i \in 1 .. r.size : r.deadline[i] >= r.cycle
  BY DEF QueueInv, TypeOK, PreparedValid
<1>2. /\ DOMAIN eventKeys' = RestoredIds(r)
      /\ \A id \in RestoredIds(r) : eventKeys'[id] = RestoredKey(r, id)
      /\ events' = {RestoredKey(r, id) : id \in RestoredIds(r)}
  BY DEF CommitPreparedPassiveRestore
<1>3. IndexesAgree'
  BY <1>1, <1>2, RestoredKeys DEF IndexesAgree
<1>4. nextEventId' \in EventId /\ currentCycle' \in Cycle
  BY <1>1, PreparedFields, SchedulerAssumption
     DEF CommitPreparedPassiveRestore, EventId
<1>5. /\ events' \subseteq EventKey /\ DOMAIN eventKeys' \subseteq EventId
      /\ \A i \in DOMAIN eventKeys' : eventKeys'[i] \in EventKey
  BY <1>1, <1>2, RestoredKeys
<1>6. lastFired' \in Cycle \X (0 .. MaxEventId)
  BY SchedulerAssumption DEF CommitPreparedPassiveRestore, Cycle
<1>7. TypeOK'
  BY <1>4, <1>5, <1>6
     DEF QueueInv, TypeOK, CommitPreparedPassiveRestore, observerVars, controlVars, localVars
<1>8. NothingInThePast' /\ IdsIssued'
  BY <1>1, <1>2, RestoredKeys DEF CommitPreparedPassiveRestore, NothingInThePast, IdsIssued
<1> QED
  BY <1>3, <1>7, <1>8 DEF QueueInv, CommitPreparedPassiveRestore, AdvanceFlagExact,
     PreparedValid, controlVars, localVars

\* clear, and the emptying that reset and restore_time_passive begin with.
LEMMA EmptyQueue ==
    ASSUME events' = {}, eventKeys' = NoKeys
    PROVE  /\ DOMAIN eventKeys' = {}
           /\ IndexesAgree' /\ NothingInThePast' /\ IdsIssued'
<1>1. DOMAIN eventKeys' = {}
  BY DEF NoKeys
<1> QED
  BY <1>1 DEF IndexesAgree, NothingInThePast, IdsIssued

\* The invariant is inductive.
LEMMA QueueStep == QueueInv /\ [Next]_vars => QueueInv'
<1> SUFFICES ASSUME QueueInv, [Next]_vars PROVE QueueInv'
  OBVIOUS
<1> USE SchedulerAssumption
<1>1. CASE UNCHANGED vars
  BY <1>1 DEF QueueInv, TypeOK, IndexesAgree, NothingInThePast, AdvanceFlagExact,
     IdsIssued, PreparedValid, vars, queueVars, observerVars, clockVars, controlVars, localVars
<1>2. ASSUME NEW c \in Cycle, ScheduleAt(c) PROVE QueueInv'
  BY <1>2, ScheduleKeepsQueue
<1>3. ASSUME NEW c \in Cycle, ScheduleAfter(c) PROVE QueueInv'
  <2>1. currentCycle + c \in Cycle
    BY <1>3 DEF ScheduleAfter, QueueInv, TypeOK, Cycle
  <2> QED
    BY <1>3, <2>1, ScheduleKeepsQueue DEF ScheduleAfter
<1>4. ASSUME NEW c \in Cycle, ScheduleAtOrNow(c) PROVE QueueInv'
  BY <1>4, ScheduleKeepsQueue DEF ScheduleAtOrNow, QueueInv, TypeOK
<1>5. ASSUME NEW c \in Cycle,
             SetGuestCycleBudget(c) \/ TrySetGuestCycleBudgetAfterCurrentCycle(c)
      PROVE  QueueInv'
  <2>1. /\ guestBudget' \in Cycle
        /\ UNCHANGED <<queueVars, observerVars, currentCycle, resetGeneration, controlVars,
                       prepared, lastFired>>
    BY <1>5 DEF SetGuestCycleBudget, TrySetGuestCycleBudgetAfterCurrentCycle, QueueInv,
       TypeOK, Cycle
  <2> QED
    BY <2>1 DEF QueueInv, TypeOK, IndexesAgree, NothingInThePast, AdvanceFlagExact, IdsIssued,
       PreparedValid, queueVars, observerVars, controlVars, localVars
<1>6. ASSUME NEW c \in Cycle, RestoreTimePassive(c) PROVE QueueInv'
  <2>1. lastFired' \in Cycle \X (0 .. MaxEventId)
    BY <1>6 DEF RestoreTimePassive, Cycle
  <2> QED
    BY <1>6, <2>1, EmptyQueue DEF RestoreTimePassive, QueueInv, TypeOK, AdvanceFlagExact,
       PreparedValid, observerVars, controlVars, localVars
<1>7. ASSUME NEW c \in Cycle, NEW n \in 0 .. MaxEventBudget, AdvanceTo(c, n)
      PROVE  QueueInv'
  <2>1. effectiveTarget' \in Cycle /\ eventBudget' = n /\ processed' = 0
    BY <1>7 DEF AdvanceTo, EffectiveTarget, QueueInv, TypeOK
  <2>2. TypeOK'
    BY <1>7, <2>1 DEF AdvanceTo, QueueInv, TypeOK, queueVars, observerVars, clockVars
  <2>3. AdvanceFlagExact'
    BY <1>7 DEF AdvanceTo, AdvanceFlagExact
  <2> QED
    BY <1>7, <2>1, <2>2, <2>3 DEF AdvanceTo, QueueInv, IndexesAgree, NothingInThePast,
       IdsIssued, PreparedValid, queueVars, clockVars
<1>8. ASSUME NEW c \in Cycle, NEW n \in 0 .. MaxEventBudget, AdvanceBy(c, n)
      PROVE  QueueInv'
  <2>1. currentCycle + c \in Cycle
    BY <1>8 DEF AdvanceBy, QueueInv, TypeOK, Cycle
  <2> QED
    BY <1>7, <1>8, <2>1 DEF AdvanceBy
<1>9. ASSUME NEW id \in EventId, Cancel(id) PROVE QueueInv'
  BY <1>9, CancelKeepsQueue
<1>10. CASE Clear
  BY <1>10, EmptyQueue DEF Clear, QueueInv, TypeOK, AdvanceFlagExact, PreparedValid,
     observerVars, clockVars, controlVars, localVars
<1>11. CASE Reset
  <2>1. lastFired' \in Cycle \X (0 .. MaxEventId) /\ resetGeneration' \in 0 .. MaxGeneration
    BY <1>11 DEF Reset, QueueInv, TypeOK, Cycle
  <2>2. AdvanceFlagExact'
    BY <1>11 DEF Reset, QueueInv, AdvanceFlagExact
  <2>3. TypeOK'
    BY <1>11, <2>1, EmptyQueue DEF Reset, IdsAfterReset, QueueInv, TypeOK, observerVars,
       localVars, Cycle
  <2> QED
    BY <1>11, <2>2, <2>3, EmptyQueue DEF Reset, QueueInv, PreparedValid, observerVars, localVars
<1>12. CASE AddResetObserver
  BY <1>12 DEF AddResetObserver, QueueInv, TypeOK, IndexesAgree, NothingInThePast,
     AdvanceFlagExact, IdsIssued, PreparedValid, queueVars, clockVars, controlVars, localVars
<1>13. ASSUME NEW o \in observers, RemoveResetObserver(o) PROVE QueueInv'
  BY <1>13 DEF RemoveResetObserver, QueueInv, TypeOK, IndexesAgree, NothingInThePast,
     AdvanceFlagExact, IdsIssued, PreparedValid, queueVars, clockVars, controlVars, localVars
<1>14. ASSUME NEW r \in Prepared, PreparePassiveRestore(r) PROVE QueueInv'
  <2>1. PreparedValid'
    BY <1>14, PreparedFields
       DEF PreparePassiveRestore, QueueInv, TypeOK, PreparedValid, WithinBudget, EventId
  <2> QED
    BY <1>14, <2>1 DEF PreparePassiveRestore, QueueInv, TypeOK, IndexesAgree,
       NothingInThePast, AdvanceFlagExact, IdsIssued, queueVars, observerVars, clockVars,
       controlVars, localVars
<1>15. ASSUME NEW r \in prepared, CommitPreparedPassiveRestore(r) PROVE QueueInv'
  BY <1>15, CommitKeepsQueue
<1>16. ASSUME NEW r \in prepared, CommitTerminates(r) PROVE QueueInv'
  <2>1. AdvanceFlagExact'
    BY <1>16 DEF CommitTerminates, QueueInv, AdvanceFlagExact
  <2> QED
    BY <1>16, <2>1 DEF CommitTerminates, QueueInv, TypeOK, IndexesAgree, NothingInThePast,
       IdsIssued, PreparedValid, queueVars, observerVars, clockVars, localVars
<1>17. ASSUME NEW k \in events, DispatchEvent(k) PROVE QueueInv'
  BY <1>17, DispatchKeepsQueue
<1>18. CASE EventBudgetExhausted \/ CallbackThrows
  <2>1. LeaveAdvance /\ UNCHANGED clockVars
    BY <1>18 DEF EventBudgetExhausted, CallbackThrows
  <2>2. AdvanceFlagExact' /\ advanceInProgress' \in BOOLEAN
    BY <2>1 DEF LeaveAdvance, AdvanceFlagExact
  <2>3. TypeOK'
    BY <2>1, <2>2 DEF LeaveAdvance, QueueInv, TypeOK, queueVars, observerVars, clockVars, Cycle
  <2> QED
    BY <2>1, <2>2, <2>3 DEF LeaveAdvance, QueueInv, IndexesAgree, NothingInThePast, IdsIssued,
       PreparedValid, queueVars, clockVars
<1>19. CASE ReachTarget
  <2>1. AdvanceFlagExact' /\ advanceInProgress' \in BOOLEAN
    BY <1>19 DEF ReachTarget, LeaveAdvance, AdvanceFlagExact
  <2>2. TypeOK'
    BY <1>19, <2>1 DEF ReachTarget, LeaveAdvance, QueueInv, TypeOK, queueVars, observerVars, Cycle
  <2>3. NothingInThePast'
    BY <1>19 DEF ReachTarget, LeaveAdvance, EventDue, QueueInv, TypeOK, NothingInThePast,
       queueVars, EventKey, Cycle
  <2> QED
    BY <1>19, <2>1, <2>2, <2>3 DEF ReachTarget, LeaveAdvance, QueueInv, IndexesAgree, IdsIssued,
       PreparedValid, queueVars
<1>20. CASE CallbackReturns
  BY <1>20 DEF CallbackReturns, QueueInv, TypeOK, IndexesAgree, NothingInThePast,
     AdvanceFlagExact, IdsIssued, PreparedValid, queueVars, observerVars, clockVars, localVars
<1>21. ASSUME NEW o \in toNotify, NotifyObserver(o) PROVE QueueInv'
  BY <1>21 DEF NotifyObserver, QueueInv, TypeOK, IndexesAgree, NothingInThePast,
     AdvanceFlagExact, IdsIssued, PreparedValid, queueVars, observerVars, clockVars, localVars
<1>22. CASE ResetReturns
  <2>1. AdvanceFlagExact'
    BY <1>22 DEF ResetReturns, QueueInv, AdvanceFlagExact
  <2> QED
    BY <1>22, <2>1 DEF ResetReturns, QueueInv, TypeOK, IndexesAgree, NothingInThePast,
       IdsIssued, PreparedValid, queueVars, observerVars, clockVars, localVars
<1>23. CASE Terminated
  BY <1>1, <1>23 DEF Terminated
<1> QED
  BY <1>1, <1>2, <1>3, <1>4, <1>5, <1>6, <1>7, <1>8, <1>9, <1>10, <1>11, <1>12, <1>13,
     <1>14, <1>15, <1>16, <1>17, <1>18, <1>19, <1>20, <1>21, <1>22, <1>23
     DEF Next, ClientCall, AdvanceStep

\* Whatever callers, callbacks and observers do: the two indexes of pending
\* events agree, no event is left behind the clock, and advance_in_progress_
\* is exact.
THEOREM QueueSafe ==
    Spec => [](TypeOK /\ IndexesAgree /\ NothingInThePast /\ AdvanceFlagExact)
<1>1. QueueInv => TypeOK /\ IndexesAgree /\ NothingInThePast /\ AdvanceFlagExact
  BY DEF QueueInv
<1> QED
  BY <1>1, QueueInit, QueueStep, PTL DEF Spec

-----------------------------------------------------------------------------
(* Ids.                                                                     *)

\* Only schedule_at and a committed restore add ids, both from nextEventId on.
LEMMA OnlyFreshIds ==
    ASSUME QueueInv, [Next]_vars
    PROVE  /\ \A id \in DOMAIN eventKeys' : id \in DOMAIN eventKeys \/ id >= nextEventId
           /\ nextEventId' >= nextEventId
<1> USE SchedulerAssumption
<1>0. nextEventId \in Nat
  BY DEF QueueInv, TypeOK, EventId
<1>1. CASE \E c \in Nat : ScheduleAt(c)
  BY <1>0, <1>1 DEF ScheduleAt
<1>2. CASE \E id \in EventId : Cancel(id)
  BY <1>0, <1>2 DEF Cancel, RemoveFromIndex
<1>3. CASE \E k \in events : DispatchEvent(k)
  BY <1>0, <1>3 DEF DispatchEvent, RemoveFromIndex
<1>4. CASE \E r \in prepared : CommitPreparedPassiveRestore(r)
  <2>1. PICK r \in prepared : CommitPreparedPassiveRestore(r)
    BY <1>4
  <2>2. /\ DOMAIN eventKeys' = RestoredIds(r) /\ nextEventId = r.expectedNextId
        /\ r \in Prepared /\ nextEventId' = r.expectedNextId + r.size
    BY <2>1 DEF CommitPreparedPassiveRestore, CommitAllowed, QueueInv, TypeOK
  <2> QED
    BY <1>0, <2>2, PreparedFields DEF RestoredIds
<1>5. CASE eventKeys' = NoKeys /\ UNCHANGED nextEventId
  BY <1>0, <1>5 DEF NoKeys
<1>6. CASE UNCHANGED <<eventKeys, nextEventId>>
  BY <1>0, <1>6
<1>7. \/ \E c \in Nat : ScheduleAt(c)
      \/ \E id \in EventId : Cancel(id)
      \/ \E k \in events : DispatchEvent(k)
      \/ \E r \in prepared : CommitPreparedPassiveRestore(r)
      \/ eventKeys' = NoKeys /\ UNCHANGED nextEventId
      \/ UNCHANGED <<eventKeys, nextEventId>>
  <2>1. currentCycle \in Nat /\ Cycle \subseteq Nat
    BY DEF QueueInv, TypeOK, Cycle
  <2>2. CASE \E c \in Cycle : ScheduleAt(c) \/ ScheduleAfter(c) \/ ScheduleAtOrNow(c)
    BY <2>1, <2>2 DEF ScheduleAfter, ScheduleAtOrNow
  <2>3. CASE \E c \in Cycle : \/ SetGuestCycleBudget(c)
                               \/ TrySetGuestCycleBudgetAfterCurrentCycle(c)
                               \/ RestoreTimePassive(c)
    BY <2>3 DEF SetGuestCycleBudget, TrySetGuestCycleBudgetAfterCurrentCycle,
       RestoreTimePassive, queueVars
  <2>4. CASE \E c \in Cycle, n \in 0 .. MaxEventBudget : AdvanceTo(c, n) \/ AdvanceBy(c, n)
    BY <2>4 DEF AdvanceTo, AdvanceBy, queueVars
  <2>5. CASE Clear \/ Reset
    BY <2>5 DEF Clear, Reset, IdsAfterReset
  <2>6. CASE \/ AddResetObserver \/ \E o \in observers : RemoveResetObserver(o)
             \/ \E o \in toNotify : NotifyObserver(o)
             \/ ResetReturns
    BY <2>6 DEF AddResetObserver, RemoveResetObserver, NotifyObserver, ResetReturns, queueVars
  <2>7. CASE \/ \E r \in Prepared : PreparePassiveRestore(r)
             \/ \E r \in prepared : CommitTerminates(r)
    BY <2>7 DEF PreparePassiveRestore, CommitTerminates, queueVars
  <2>8. CASE EventBudgetExhausted \/ ReachTarget \/ CallbackReturns \/ CallbackThrows
    BY <2>8 DEF EventBudgetExhausted, ReachTarget, CallbackReturns, CallbackThrows,
       LeaveAdvance, queueVars
  <2>9. CASE Terminated \/ UNCHANGED vars
    BY <2>9 DEF Terminated, vars, queueVars
  <2> QED
    BY <2>2, <2>3, <2>4, <2>5, <2>6, <2>7, <2>8, <2>9 DEF Next, ClientCall, AdvanceStep
<1> QED
  BY <1>1, <1>2, <1>3, <1>4, <1>5, <1>6, <1>7

\* An id that left the scheduler never comes back, resets and committed
\* restores included.
THEOREM IdsStayRetired == Spec => IdsNeverReturn
<1>1. QueueInv /\ [Next]_vars =>
        [/\ nextEventId' >= nextEventId
         /\ \A id \in 1 .. nextEventId - 1 :
              id \notin DOMAIN eventKeys => id \notin DOMAIN eventKeys']_vars
  <2> SUFFICES ASSUME QueueInv, [Next]_vars, NEW id \in 1 .. nextEventId - 1,
                      id \notin DOMAIN eventKeys
               PROVE  id \notin DOMAIN eventKeys'
    BY OnlyFreshIds
  <2>1. nextEventId \in Nat
    BY SchedulerAssumption DEF QueueInv, TypeOK, EventId
  <2> QED
    BY <2>1, OnlyFreshIds
<1> QED
  BY <1>1, QueueInit, QueueStep, PTL DEF Spec, IdsNeverReturn

-----------------------------------------------------------------------------
(* Time.  These results need a budget that is not set from a callback.      *)

\* The clock is between the last event fired and the target of the advance,
\* the target is within the budget, and what is pending comes after what fired.
TimeInv ==
    /\ QueueInv
    /\ BudgetRespected
    /\ advanceInProgress => /\ currentCycle <= effectiveTarget
                            /\ guestBudget # NoBudget => effectiveTarget <= guestBudget
    /\ lastFired[1] <= currentCycle
    /\ lastFired[2] < nextEventId
    /\ \A k \in events : KeyLess(lastFired, k)

LEMMA TimeInit == Init => TimeInv
BY QueueInit, SchedulerAssumption DEF Init, TimeInv, BudgetRespected, NoBudget

\* schedule_at adds a key after everything that has fired.
LEMMA ScheduleKeepsTime ==
    ASSUME TimeInv, NEW c \in Cycle, ScheduleAt(c)
    PROVE  TimeInv'
<1>1. QueueInv'
  BY ScheduleKeepsQueue DEF TimeInv
<1>2. /\ c \in Nat /\ currentCycle \in Nat /\ nextEventId \in Nat
      /\ lastFired[1] \in Nat /\ lastFired[2] \in Nat
  BY SchedulerAssumption DEF TimeInv, QueueInv, TypeOK, Cycle, EventId
<1>3. KeyLess(lastFired, <<c, nextEventId>>)
  BY <1>2 DEF TimeInv, ScheduleAt, MayScheduleAt, KeyLess
<1>4. UNCHANGED <<currentCycle, guestBudget, advanceInProgress, effectiveTarget, lastFired>>
  BY DEF ScheduleAt, clockVars, controlVars, localVars
<1>5. \A k \in events' : KeyLess(lastFired', k)
  BY <1>3, <1>4 DEF TimeInv, ScheduleAt, KeyLess
<1> QED
  BY <1>1, <1>2, <1>4, <1>5 DEF TimeInv, ScheduleAt, BudgetRespected

\* The first event of the map is after the last one fired and before the rest.
LEMMA DispatchKeepsTime ==
    ASSUME TimeInv, NEW k \in events, DispatchEvent(k)
    PROVE  TimeInv' /\ currentCycle' >= currentCycle /\ KeyLess(lastFired, lastFired')
<1>1. QueueInv'
  BY DispatchKeepsQueue DEF TimeInv
<1>2. /\ k[1] \in Nat /\ k[2] \in Nat /\ effectiveTarget \in Nat /\ guestBudget \in Nat
      /\ \A o \in events : o[1] \in Nat
  BY SchedulerAssumption DEF TimeInv, QueueInv, TypeOK, EventKey, Cycle, EventId
<1>3. k[1] <= effectiveTarget
  <2>1. PICK o \in events : o[1] <= effectiveTarget
    BY DEF DispatchEvent, EventDue
  <2> QED
    BY <1>2, <2>1 DEF DispatchEvent, IsFirst, KeyLess
<1>4. advanceInProgress
  BY DEF DispatchEvent, TimeInv, QueueInv, AdvanceFlagExact
<1>5. /\ currentCycle' = k[1] /\ lastFired' = k
      /\ UNCHANGED <<guestBudget, advanceInProgress, effectiveTarget, nextEventId>>
  BY DEF DispatchEvent
<1>6. \A o \in events' : KeyLess(lastFired', o)
  BY <1>5 DEF DispatchEvent, IsFirst
<1>7. k[2] < nextEventId /\ k[1] >= currentCycle
  BY DEF TimeInv, QueueInv, IdsIssued, NothingInThePast
<1>8. BudgetRespected'
  BY <1>2, <1>3, <1>4, <1>5 DEF TimeInv, BudgetRespected
<1>9. TimeInv'
  BY <1>1, <1>2, <1>3, <1>4, <1>5, <1>6, <1>7, <1>8 DEF TimeInv
<1> QED
  BY <1>5, <1>7, <1>9 DEF TimeInv

\* A step that keeps the time variables and adds no event keeps TimeInv.
LEMMA SameTime ==
    ASSUME TimeInv, QueueInv', events' \subseteq events,
           UNCHANGED <<currentCycle, guestBudget, nextEventId, lastFired>>,
           advanceInProgress' => advanceInProgress /\ UNCHANGED effectiveTarget
    PROVE  TimeInv'
BY DEF TimeInv, BudgetRespected, KeyLess

\* A new time line (reset, restore, commit) starts before every event.
LEMMA NewTimeLine ==
    ASSUME QueueInv', BudgetRespected', ~advanceInProgress', lastFired' = <<0, 0>>
    PROVE  TimeInv'
<1>1. /\ currentCycle' \in Nat /\ nextEventId' \in Nat \ {0}
      /\ \A k \in events' : k[1] \in Nat /\ k[2] \in Nat \ {0}
  BY SchedulerAssumption DEF QueueInv, TypeOK, EventKey, Cycle, EventId
<1> QED
  BY <1>1 DEF TimeInv, KeyLess

\* What one step does to the time line.
TimeStepOK ==
    /\ TimeInv'
    /\ advanceInProgress => currentCycle' >= currentCycle
    /\ pc = "loop" /\ pc' = "callback" => KeyLess(lastFired, lastFired')

LEMMA TimeStep ==
    ASSUME TimeInv, [Next]_vars, advanceInProgress => UNCHANGED guestBudget
    PROVE  TimeStepOK
<1>1. QueueInv /\ QueueInv'
  BY QueueStep DEF TimeInv
<1>2. currentCycle \in Nat /\ guestBudget \in Nat /\ effectiveTarget \in Nat
  BY <1>1, SchedulerAssumption DEF QueueInv, TypeOK, Cycle
<1>3. advanceInProgress <=> pc \in {"loop", "callback"}
  BY <1>1 DEF QueueInv, AdvanceFlagExact
<1>4. CASE \E c \in Cycle : ScheduleAt(c) \/ ScheduleAfter(c) \/ ScheduleAtOrNow(c)
  <2>1. PICK d \in Cycle : ScheduleAt(d)
    <3>1. \A c \in Cycle : ScheduleAfter(c) => currentCycle + c \in Cycle
      BY <1>1, SchedulerAssumption DEF ScheduleAfter, QueueInv, TypeOK, Cycle
    <3> QED
      BY <1>1, <1>4, <3>1 DEF ScheduleAfter, ScheduleAtOrNow, QueueInv, TypeOK
  <2> QED
    BY <1>2, <2>1, ScheduleKeepsTime DEF TimeStepOK, ScheduleAt, clockVars, controlVars
<1>5. CASE \E c \in Cycle : \/ SetGuestCycleBudget(c)
                             \/ TrySetGuestCycleBudgetAfterCurrentCycle(c)
  <2>1. PICK c \in Cycle : \/ SetGuestCycleBudget(c)
                          \/ TrySetGuestCycleBudgetAfterCurrentCycle(c)
    BY <1>5
  <2>2. guestBudget' >= currentCycle
    BY <1>2, <2>1, SchedulerAssumption
       DEF SetGuestCycleBudget, TrySetGuestCycleBudgetAfterCurrentCycle, Cycle
  <2>3. UNCHANGED <<queueVars, observerVars, currentCycle, resetGeneration, controlVars,
                   prepared, lastFired>>
    BY <2>1 DEF SetGuestCycleBudget, TrySetGuestCycleBudgetAfterCurrentCycle
  <2>4. CASE ~advanceInProgress
    BY <1>1, <1>2, <2>2, <2>3, <2>4 DEF TimeStepOK, TimeInv, BudgetRespected, KeyLess,
       queueVars, controlVars
  <2>5. CASE advanceInProgress
    BY <1>1, <1>2, <2>3, <2>5, SameTime DEF TimeStepOK, queueVars, controlVars, localVars
  <2> QED
    BY <2>4, <2>5
<1>6. CASE \E c \in Cycle : RestoreTimePassive(c)
  BY <1>1, <1>6, NewTimeLine DEF TimeStepOK, RestoreTimePassive, WithinBudget, BudgetRespected,
     controlVars
<1>7. CASE \E c \in Cycle, n \in 0 .. MaxEventBudget : AdvanceTo(c, n) \/ AdvanceBy(c, n)
  <2>1. PICK c \in Nat, n \in 0 .. MaxEventBudget : AdvanceTo(c, n)
    BY <1>2, <1>7, SchedulerAssumption DEF AdvanceBy, Cycle
  <2>2. /\ currentCycle <= effectiveTarget'
        /\ guestBudget # NoBudget => effectiveTarget' <= guestBudget
    BY <1>2, <2>1 DEF AdvanceTo, EffectiveTarget, TimeInv, BudgetRespected
  <2> QED
    BY <1>1, <1>2, <2>1, <2>2 DEF AdvanceTo, TimeStepOK, TimeInv, BudgetRespected, KeyLess,
       queueVars, clockVars
<1>8. CASE (\E id \in EventId : Cancel(id)) \/ Clear
  BY <1>1, <1>2, <1>8, SameTime DEF Cancel, Clear, TimeStepOK, clockVars, controlVars, localVars
<1>9. CASE Reset
  <2>1. BudgetRespected'
    BY <1>1, <1>9, SchedulerAssumption DEF Reset, BudgetRespected, QueueInv, TypeOK, Cycle
  <2> QED
    BY <1>1, <1>9, <2>1, NewTimeLine DEF Reset, TimeStepOK
<1>10. CASE AddResetObserver \/ \E o \in observers : RemoveResetObserver(o)
  BY <1>1, <1>2, <1>10, SameTime DEF AddResetObserver, RemoveResetObserver, TimeStepOK,
     queueVars, clockVars, controlVars, localVars
<1>11. CASE \E r \in Prepared : PreparePassiveRestore(r)
  BY <1>1, <1>2, <1>11, SameTime DEF PreparePassiveRestore, TimeStepOK, queueVars, clockVars,
     controlVars, localVars
<1>12. CASE \E r \in prepared : CommitPreparedPassiveRestore(r)
  <2>1. PICK r \in prepared : CommitPreparedPassiveRestore(r)
    BY <1>12
  <2>2. BudgetRespected'
    BY <1>1, <2>1 DEF CommitPreparedPassiveRestore, CommitAllowed, BudgetRespected, QueueInv,
       PreparedValid
  <2> QED
    BY <1>1, <2>1, <2>2, NewTimeLine DEF CommitPreparedPassiveRestore, CommitAllowed,
       TimeStepOK, controlVars
<1>13. CASE \E r \in prepared : CommitTerminates(r)
  BY <1>1, <1>2, <1>13, SameTime DEF CommitTerminates, TimeStepOK, queueVars, clockVars, localVars
<1>14. CASE \E k \in events : DispatchEvent(k)
  BY <1>14, DispatchKeepsTime DEF TimeStepOK
<1>15. CASE EventBudgetExhausted \/ CallbackThrows
  BY <1>1, <1>2, <1>15, SameTime DEF EventBudgetExhausted, CallbackThrows, LeaveAdvance,
     TimeStepOK, queueVars, clockVars
<1>16. CASE ReachTarget
  <2>1. /\ advanceInProgress /\ ~advanceInProgress' /\ currentCycle' = effectiveTarget
        /\ UNCHANGED <<guestBudget, events, nextEventId, lastFired>> /\ pc' = "caller"
    BY <1>3, <1>16 DEF ReachTarget, LeaveAdvance, queueVars
  <2>2. /\ currentCycle <= effectiveTarget
        /\ guestBudget # NoBudget => effectiveTarget <= guestBudget
    BY <2>1 DEF TimeInv
  <2>3. lastFired[1] \in Nat
    BY <1>1, SchedulerAssumption DEF QueueInv, TypeOK, Cycle
  <2> QED
    BY <1>1, <1>2, <2>1, <2>2, <2>3 DEF TimeStepOK, TimeInv, BudgetRespected, KeyLess
<1>17. CASE CallbackReturns \/ ResetReturns \/ \E o \in toNotify : NotifyObserver(o)
  BY <1>1, <1>2, <1>17, SameTime DEF CallbackReturns, ResetReturns, NotifyObserver, TimeStepOK,
     queueVars, clockVars, localVars
<1>18. CASE Terminated \/ UNCHANGED vars
  BY <1>1, <1>2, <1>18, SameTime DEF Terminated, TimeStepOK, vars, queueVars, clockVars,
     controlVars, localVars
<1> QED
  BY <1>4, <1>5, <1>6, <1>7, <1>8, <1>9, <1>10, <1>11, <1>12, <1>13, <1>14, <1>15, <1>16,
     <1>17, <1>18 DEF Next, ClientCall, AdvanceStep

\* The only call that changes the budget during an advance is the one from a
\* callback.
LEMMA BudgetFixedInAdvance ==
    ASSUME BudgetFromCallback = FALSE, TimeInv, [Next]_vars
    PROVE  advanceInProgress => UNCHANGED guestBudget
<1> SUFFICES ASSUME advanceInProgress, guestBudget' # guestBudget PROVE FALSE
  OBVIOUS
<1>1. pc \in {"loop", "callback"}
  BY DEF TimeInv, QueueInv, AdvanceFlagExact
<1>2. ~ \E c \in Cycle : \/ SetGuestCycleBudget(c)
                         \/ TrySetGuestCycleBudgetAfterCurrentCycle(c)
  BY <1>1 DEF SetGuestCycleBudget, TrySetGuestCycleBudgetAfterCurrentCycle
<1>3. ~ClientCall
  BY <1>1, <1>2 DEF ClientCall, ScheduleAt, ScheduleAfter, ScheduleAtOrNow, RestoreTimePassive,
     AdvanceTo, AdvanceBy, Cancel, Clear, Reset, AddResetObserver, RemoveResetObserver,
     PreparePassiveRestore, CommitPreparedPassiveRestore, CommitTerminates, clockVars
<1>4. ~AdvanceStep
  BY DEF AdvanceStep, DispatchEvent, EventBudgetExhausted, ReachTarget, clockVars
<1> QED
  BY <1>3, <1>4 DEF Next, CallbackReturns, CallbackThrows, NotifyObserver, ResetReturns,
     Terminated, vars, clockVars

\* When no callback sets the budget the clock stays within it, so that
\* remaining_guest_cycles() never wraps.
THEOREM BudgetSafe ==
    ASSUME BudgetFromCallback = FALSE
    PROVE  Spec => []BudgetRespected
<1>1. TimeInv /\ [Next]_vars => TimeInv'
  BY TimeStep, BudgetFixedInAdvance DEF TimeStepOK
<1>2. TimeInv => BudgetRespected
  BY DEF TimeInv
<1> QED
  BY <1>1, <1>2, TimeInit, PTL DEF Spec

\* Events fire in strictly increasing (deadline, id) order within a time line,
\* and the clock of an advance never steps back.
THEOREM TimeSafe ==
    ASSUME BudgetFromCallback = FALSE
    PROVE  Spec => FiredInOrder /\ ClockMonotone
<1>1. TimeInv /\ [Next]_vars => TimeInv'
  BY TimeStep, BudgetFixedInAdvance DEF TimeStepOK
<1>2. TimeInv /\ [Next]_vars =>
        /\ [pc = "loop" /\ pc' = "callback" => KeyLess(lastFired, lastFired')]_vars
        /\ [advanceInProgress => currentCycle' >= currentCycle]_vars
  BY TimeStep, BudgetFixedInAdvance DEF TimeStepOK
<1> QED
  BY <1>1, <1>2, TimeInit, PTL DEF Spec, FiredInOrder, ClockMonotone
=============================================================================
