------------------------- MODULE InterruptPathProofs -------------------------
(***************************************************************************)
(* SkipIsSound and ImplementsDelivery for every set of sources, lines, ASIC *)
(* events and levels.  The inductive invariant says, for each cache of the   *)
(* path, what it equals while its dirty flag or epoch says it is current.   *)
(***************************************************************************)
EXTENDS InterruptPath, TLAPS

\* The external lines follow the ASIC's registers.
LinesCurrent == external = LinesOf(asicPending, asicMask)

\* The router's sample is current unless a flag says otherwise.
SampleCurrent == ~sourcesDirty /\ ~portDirty => sampled = device

\* The controller mirrors the router's sample unless flag or epoch say otherwise.
ControllerCurrent == ~portDirty /\ ~routerMoved => controller = Routed(sampled)

\* A guard that saw no move of the router's epoch was prepared, or outlived a
\* synchronization, after the last move.
GuardEpochCurrent == guard.valid /\ ~guard.routerMoved => ~routerMoved

\* A guard that saw no move of the controller's epoch still knows whether its
\* status register admits something.
GuardVerdictCurrent ==
    guard.valid /\ ~guard.acceptable /\ ~guard.controllerMoved
        => guard.sr.blocked \/ \A r \in controller : ~(r[2] > guard.sr.imask)

IInv ==
    /\ TypeOK
    /\ LinesCurrent /\ SampleCurrent /\ ControllerCurrent
    /\ GuardEpochCurrent /\ GuardVerdictCurrent

USE InterruptAssumption

\* Whatever the flags say, after synchronize_interrupt_sources_if_needed() the
\* router's sample is the devices' state and the controller mirrors it.
LEMMA SynchronizedIsCurrent ==
    ASSUME IInv
    PROVE  SampledAfter = device /\ ControllerAfter = Routed(device)
<1>1. CASE NeedsSynchronize
    BY <1>1 DEF SampledAfter, ControllerAfter
<1>2. CASE ~NeedsSynchronize
    <2>1. ~portDirty /\ ~routerMoved /\ Sample = sampled
        BY <1>2 DEF NeedsSynchronize, EpochMovesOnRead
    <2>2. sampled = device
        BY <2>1 DEF IInv, SampleCurrent, Sample
    <2>3. controller = Routed(sampled)
        BY <2>1 DEF IInv, ControllerCurrent
    <2> QED
        BY <1>2, <2>1, <2>2, <2>3 DEF SampledAfter, ControllerAfter
<1> QED
    BY <1>1, <1>2

\* A synchronize() publishes requests of known sources with levels in range.
LEMMA RoutedTyped ==
    ASSUME TypeOK
    PROVE  Routed(device) \subseteq Source \X Level
<1>1. \A s \in device \cup scif : s \in Polled \cup Scif /\ level[s] \in Level
    BY DEF TypeOK, Levels
<1>2. \A l \in external : l \in Line /\ LineLevel[l] \in Level
    BY DEF TypeOK
<1> QED
    BY <1>1, <1>2 DEF Routed, Source

\* What the devices and the ASIC assert is what a synchronize() publishes.
LEMMA AssertedIsRouted ==
    ASSUME IInv
    PROVE  TrulyAsserted = Routed(device)
BY DEF IInv, LinesCurrent, TrulyAsserted, Routed

-----------------------------------------------------------------------------
(* The initial state, and one lemma per group of actions.                   *)

\* The port starts with every cache marked stale.
LEMMA InitInv == Init => IInv
<1> SUFFICES ASSUME Init PROVE IInv
    OBVIOUS
<1>1. guard \in Guard
    BY DEF Init, NoGuard, Guard, StatusRegister, Level
<1>2. TypeOK
    BY <1>1 DEF Init, TypeOK, AllZero, Unmasked, Levels, Level
<1>3. LinesCurrent
    BY DEF Init, LinesCurrent, LinesOf, Unmasked
<1> QED
    BY <1>2, <1>3 DEF Init, IInv, SampleCurrent, ControllerCurrent, GuardEpochCurrent,
        GuardVerdictCurrent, NoGuard

\* A move of the router's epoch that accompanies every change of what
\* synchronize() would publish keeps the four caches current.
LEMMA EpochStep ==
    ASSUME IInv, NEW moves \in BOOLEAN, EpochMoves(moves),
           ~moves => UNCHANGED <<level, scif, external>>,
           UNCHANGED <<sampled, controller>>,
           portDirty' = portDirty \/ portDirty' = TRUE
    PROVE  /\ guard' \in Guard /\ routerMoved' \in BOOLEAN
           /\ ControllerCurrent' /\ GuardEpochCurrent' /\ GuardVerdictCurrent'
<1>1. guard \in Guard /\ routerMoved \in BOOLEAN /\ portDirty \in BOOLEAN
    BY DEF IInv, TypeOK
<1>2. /\ guard' \in Guard
      /\ guard'.valid = guard.valid /\ guard'.acceptable = guard.acceptable
      /\ guard'.controllerMoved = guard.controllerMoved /\ guard'.sr = guard.sr
      /\ guard'.routerMoved <=> guard.routerMoved \/ moves
    BY <1>1 DEF EpochMoves, Guard
<1>3. routerMoved' \in BOOLEAN /\ (routerMoved' <=> routerMoved \/ moves)
    BY <1>1 DEF EpochMoves
<1>4. ControllerCurrent'
    BY <1>3 DEF IInv, ControllerCurrent, Routed
<1>5. GuardEpochCurrent'
    BY <1>2, <1>3 DEF IInv, GuardEpochCurrent
<1>6. GuardVerdictCurrent'
    BY <1>2 DEF IInv, GuardVerdictCurrent
<1> QED
    BY <1>2, <1>3, <1>4, <1>5, <1>6

\* Registers, devices and ASIC events: what changes a source.
LEMMA SourceStep ==
    ASSUME IInv,
           \/ \E flags \in SUBSET Polled : DeviceMmio(flags)
           \/ \E flags \in SUBSET Scif : ScifPending(flags)
           \/ \E levels \in GuestLevels : PriorityWrite(levels)
    PROVE  IInv'
<1>1. ASSUME NEW flags \in SUBSET Polled, DeviceMmio(flags) PROVE IInv'
    <2>1. TypeOK' /\ SampleCurrent'
        BY <1>1 DEF DeviceMmio, Mmio, IInv, TypeOK, SampleCurrent, asicVars, srVars
    <2>2. LinesCurrent' /\ ControllerCurrent'
        BY <1>1 DEF DeviceMmio, IInv, LinesCurrent, ControllerCurrent, Routed, asicVars, LinesOf
    <2>3. GuardEpochCurrent' /\ GuardVerdictCurrent'
        BY <1>1 DEF DeviceMmio, IInv, GuardEpochCurrent, GuardVerdictCurrent
    <2> QED
        BY <2>1, <2>2, <2>3 DEF IInv
<1>2. ASSUME NEW flags \in SUBSET Scif, ScifPending(flags) PROVE IInv'
    <2>1. /\ guard' \in Guard /\ routerMoved' \in BOOLEAN
          /\ ControllerCurrent' /\ GuardEpochCurrent' /\ GuardVerdictCurrent'
        BY <1>2, EpochStep, Zenon DEF ScifPending
    <2>2. TypeOK'
        BY <1>2, <2>1, Zenon DEF ScifPending, MaybeMmio, Mmio, IInv, TypeOK, asicVars, srVars
    <2>3. LinesCurrent' /\ SampleCurrent'
        BY <1>2 DEF ScifPending, MaybeMmio, Mmio, IInv, LinesCurrent, LinesOf, SampleCurrent,
            asicVars
    <2> QED
        BY <2>1, <2>2, <2>3 DEF IInv
<1>3. ASSUME NEW levels \in GuestLevels, PriorityWrite(levels) PROVE IInv'
    <2>1. /\ guard' \in Guard /\ routerMoved' \in BOOLEAN
          /\ ControllerCurrent' /\ GuardEpochCurrent' /\ GuardVerdictCurrent'
        BY <1>3, EpochStep, Zenon DEF PriorityWrite
    <2>2. TypeOK'
        BY <1>3, <2>1 DEF PriorityWrite, Mmio, IInv, TypeOK, asicVars, srVars
    <2>3. LinesCurrent' /\ SampleCurrent'
        BY <1>3 DEF PriorityWrite, Mmio, IInv, LinesCurrent, LinesOf, SampleCurrent, asicVars
    <2> QED
        BY <2>1, <2>2, <2>3 DEF IInv
<1> QED
    BY <1>1, <1>2, <1>3

\* Every step of the ASIC synchronizes its lines.
LEMMA AsicStep ==
    ASSUME IInv, SynchronizeLines,
           asicPending' \subseteq AsicEvent, asicMask' \in [Line -> SUBSET AsicEvent],
           UNCHANGED <<device, level, scif, sampled, controller, portDirty, srVars>>,
           MaybeMmio
    PROVE  IInv'
<1>1. /\ guard' \in Guard /\ routerMoved' \in BOOLEAN
      /\ ControllerCurrent' /\ GuardEpochCurrent' /\ GuardVerdictCurrent'
    BY EpochStep, Zenon DEF SynchronizeLines
<1>2. external' \subseteq Line /\ LinesCurrent'
    BY DEF SynchronizeLines, LinesOf, LinesCurrent
<1>3. TypeOK'
    BY <1>1, <1>2, Zenon DEF IInv, TypeOK, srVars, MaybeMmio, Mmio
<1>4. SampleCurrent'
    BY DEF IInv, SampleCurrent, MaybeMmio, Mmio
<1> QED
    BY <1>1, <1>2, <1>3, <1>4 DEF IInv

\* The handlers that touch the ASIC, and the advance that runs events.
LEMMA AsicSteps ==
    ASSUME IInv,
           \/ \E e \in AsicEvent : AsicRaise(e)
           \/ \E events \in SUBSET AsicEvent :
                AsicAcknowledge(events) \/ \E l \in Line : AsicMaskWrite(l, events)
           \/ \E flags \in SUBSET Polled, serial \in SUBSET Scif, raised \in SUBSET AsicEvent :
                Advance(flags, serial, raised)
    PROVE  IInv'
<1> USE DEF IInv, TypeOK
<1>1. ASSUME NEW e \in AsicEvent, AsicRaise(e) PROVE IInv'
    BY <1>1, AsicStep DEF AsicRaise
<1>2. ASSUME NEW events \in SUBSET AsicEvent, AsicAcknowledge(events) PROVE IInv'
    BY <1>2, AsicStep DEF AsicAcknowledge, MaybeMmio
<1>3. ASSUME NEW events \in SUBSET AsicEvent, NEW l \in Line, AsicMaskWrite(l, events)
      PROVE IInv'
    BY <1>3, AsicStep DEF AsicMaskWrite, MaybeMmio
<1>4. ASSUME NEW flags \in SUBSET Polled, NEW serial \in SUBSET Scif,
             NEW raised \in SUBSET AsicEvent, Advance(flags, serial, raised)
      PROVE IInv'
    <2>1. /\ guard' \in Guard /\ routerMoved' \in BOOLEAN
          /\ ControllerCurrent' /\ GuardEpochCurrent' /\ GuardVerdictCurrent'
        BY <1>4, EpochStep, Zenon DEF Advance
    <2>2. external' \subseteq Line /\ LinesCurrent'
        BY <1>4 DEF Advance, LinesOf, LinesCurrent
    <2>3. TypeOK'
        BY <1>4, <2>1, <2>2, Zenon DEF Advance, srVars
    <2>4. SampleCurrent'
        BY <1>4 DEF Advance, SampleCurrent
    <2> QED
        BY <2>1, <2>2, <2>3, <2>4
<1> QED
    BY <1>1, <1>2, <1>3, <1>4, Zenon

\* Status register and reset.
LEMMA CpuStep ==
    ASSUME IInv,
           (\E sr \in GuestSr : WriteStatusRegister(sr)) \/ ManualReset
    PROVE  IInv'
<1>1. ASSUME NEW sr \in GuestSr, WriteStatusRegister(sr) PROVE IInv'
    <2>1. TypeOK'
        BY <1>1 DEF WriteStatusRegister, IInv, TypeOK, asicVars, StatusRegister
    <2>2. LinesCurrent' /\ SampleCurrent' /\ ControllerCurrent'
        BY <1>1 DEF WriteStatusRegister, IInv, LinesCurrent, SampleCurrent, ControllerCurrent,
            Routed, LinesOf, asicVars
    <2>3. GuardEpochCurrent' /\ GuardVerdictCurrent'
        BY <1>1 DEF WriteStatusRegister, IInv, GuardEpochCurrent, GuardVerdictCurrent
    <2> QED
        BY <2>1, <2>2, <2>3 DEF IInv
<1>2. ASSUME ManualReset PROVE IInv'
    <2>1. guard \in Guard
        BY SMTT(30) DEF IInv, TypeOK
    <2>2. PICK refused \in BOOLEAN :
            guard' = [guard EXCEPT !.routerMoved = TRUE,
                        !.controllerMoved = guard.controllerMoved \/ controller # {},
                        !.schedulerReset = guard.schedulerReset \/ ~refused]
        BY <1>2, Zenon DEF ManualReset
    <2>3. guard' \in Guard
        BY <2>1, <2>2, ZenonT(30) DEF Guard
    <2>4. guard'.routerMoved = TRUE /\ controller' = {} /\ routerMoved' = TRUE
        BY <1>2, <2>1, <2>2, Zenon DEF Guard, ManualReset
    <2>5. TypeOK'
        <3>1. level' \in Levels /\ asicMask' \in [Line -> SUBSET AsicEvent] /\ imask' \in Level
            <4>1. level' = AllZero /\ asicMask' = Unmasked /\ imask' = MaxLevel
                BY <1>2, Zenon DEF ManualReset
            <4>2. AllZero \in Levels /\ MaxLevel \in Level
                BY DEF AllZero, Levels, Level
            <4>3. Unmasked \in [Line -> SUBSET AsicEvent]
                BY SMTT(30) DEF Unmasked
            <4> QED
                BY <4>1, <4>2, <4>3
        <3>2. device' \subseteq Polled /\ sampled' \subseteq Polled /\ portDirty' \in BOOLEAN
            BY <1>2, ZenonT(30) DEF ManualReset, IInv, TypeOK
        <3>3. /\ scif' = {} /\ external' = {} /\ asicPending' = {} /\ controller' = {}
              /\ sourcesDirty' = TRUE /\ routerMoved' = TRUE /\ blocked' = TRUE
            BY <1>2, ZenonT(30) DEF ManualReset
        <3> QED
            BY <2>3, <3>1, <3>2, <3>3 DEF TypeOK
    <2>6. LinesCurrent'
        BY <1>2, ZenonT(30) DEF ManualReset, LinesCurrent, LinesOf, Unmasked
    <2>7. SampleCurrent' /\ ControllerCurrent'
        BY <1>2, Zenon DEF ManualReset, SampleCurrent, ControllerCurrent
    <2>8. GuardEpochCurrent' /\ GuardVerdictCurrent'
        BY <2>4 DEF GuardEpochCurrent, GuardVerdictCurrent
    <2> QED
        BY <2>5, <2>6, <2>7, <2>8 DEF IInv
<1> QED
    BY <1>1, <1>2

\* What synchronize() leaves, whether or not a request was accepted.
LEMMA SynchronizeStep ==
    ASSUME IInv, NEW result, Synchronize(result), result \subseteq Routed(device),
           blocked' \in BOOLEAN, imask' \in Level, guard' \in Guard,
           \/ portDirty' = TRUE
           \/ portDirty' = FALSE /\ result = Routed(device)
    PROVE  /\ TypeOK' /\ LinesCurrent' /\ SampleCurrent' /\ ControllerCurrent'
           /\ GuardEpochCurrent'
<1>1. SampledAfter = device
    BY SynchronizedIsCurrent
<1>2. Routed(device) \subseteq Source \X Level
    BY RoutedTyped DEF IInv
<1>3. TypeOK'
    BY <1>1, <1>2, Zenon DEF Synchronize, IInv, TypeOK, asicVars
<1>4. LinesCurrent'
    BY DEF Synchronize, IInv, LinesCurrent, LinesOf, asicVars
<1>5. SampleCurrent' /\ ControllerCurrent'
    BY <1>1 DEF Synchronize, SampleCurrent, ControllerCurrent, Routed
<1>6. GuardEpochCurrent'
    BY DEF Synchronize, GuardEpochCurrent
<1> QED
    BY <1>3, <1>4, <1>5, <1>6

\* The poll, with and without an accepted interrupt.
LEMMA PollStep ==
    ASSUME IInv, PollAccepts \/ PollInVain
    PROVE  IInv'
<1>1. guard \in Guard /\ blocked \in BOOLEAN /\ imask \in Level
    BY DEF IInv, TypeOK
<1>2. ControllerAfter = Routed(device)
    BY SynchronizedIsCurrent
<1>3. CASE PollAccepts
    <2>1. PICK r \in ControllerAfter :
            /\ Synchronize(ControllerAfter \ {r})
            /\ guard' = [guard EXCEPT
                    !.routerMoved = guard.routerMoved \/ SampledAfter # sampled,
                    !.controllerMoved = TRUE]
        BY <1>3, Zenon DEF PollAccepts
    <2>2. guard' \in Guard /\ guard'.controllerMoved = TRUE
        BY <1>1, <2>1, Zenon DEF Guard
    <2>3. blocked' = TRUE /\ imask' = imask /\ portDirty' = TRUE
        BY <1>3 DEF PollAccepts, AcceptedMarks
    <2>4. /\ TypeOK' /\ LinesCurrent' /\ SampleCurrent' /\ ControllerCurrent'
          /\ GuardEpochCurrent'
        BY <1>1, <1>2, <2>1, <2>2, <2>3, SynchronizeStep
    <2>5. GuardVerdictCurrent'
        BY <2>2 DEF GuardVerdictCurrent
    <2> QED
        BY <2>4, <2>5 DEF IInv
<1>4. CASE PollInVain
    <2>1. /\ Synchronize(ControllerAfter) /\ GuardSees(ControllerAfter)
          /\ portDirty' = FALSE /\ blocked' = blocked /\ imask' = imask
        BY <1>4 DEF PollInVain, srVars
    <2>2. /\ guard' \in Guard
          /\ guard'.valid = guard.valid /\ guard'.acceptable = guard.acceptable
          /\ guard'.sr = guard.sr
          /\ guard'.controllerMoved <=> guard.controllerMoved \/ ControllerAfter # controller
        BY <1>1, <2>1, Zenon DEF GuardSees, Guard
    <2>3. /\ TypeOK' /\ LinesCurrent' /\ SampleCurrent' /\ ControllerCurrent'
          /\ GuardEpochCurrent'
        BY <1>1, <1>2, <2>1, <2>2, SynchronizeStep, Zenon
    <2>4. controller' = ControllerAfter
        BY <2>1 DEF Synchronize
    <2>5. GuardVerdictCurrent'
        BY <2>2, <2>4 DEF IInv, GuardVerdictCurrent
    <2> QED
        BY <2>3, <2>5 DEF IInv
<1> QED
    BY <1>3, <1>4

\* Preparing, dropping and asking the chain guard.
LEMMA GuardStep ==
    ASSUME IInv, PrepareGuard \/ DropGuard \/ AskGuard
    PROVE  IInv'
<1>1. guard \in Guard /\ blocked \in BOOLEAN /\ imask \in Level
    BY DEF IInv, TypeOK
<1>2. CASE PrepareGuard
    <2>1. ControllerAfter = Routed(device)
        BY SynchronizedIsCurrent
    <2>2. /\ Synchronize(ControllerAfter)
          /\ portDirty' = FALSE /\ blocked' = blocked /\ imask' = imask
        BY <1>2 DEF PrepareGuard, srVars
    <2>3. Sr \in StatusRegister
        BY <1>1 DEF Sr, StatusRegister
    <2>4. CanAccept(ControllerAfter) \in BOOLEAN
        BY DEF CanAccept
    <2>5. guard' = [valid |-> TRUE, acceptable |-> CanAccept(ControllerAfter), sr |-> Sr,
                    routerMoved |-> FALSE, controllerMoved |-> FALSE, schedulerReset |-> FALSE]
        BY <1>2 DEF PrepareGuard
    <2>6. guard' \in Guard
        BY <2>3, <2>4, <2>5 DEF Guard
    <2>7. /\ TypeOK' /\ LinesCurrent' /\ SampleCurrent' /\ ControllerCurrent'
          /\ GuardEpochCurrent'
        BY <1>1, <2>1, <2>2, <2>6, SynchronizeStep, Zenon
    <2>8. controller' = ControllerAfter
        BY <2>2 DEF Synchronize
    <2>9. GuardVerdictCurrent'
        BY <2>5, <2>8, Zenon DEF GuardVerdictCurrent, CanAccept, Sr
    <2> QED
        BY <2>7, <2>9 DEF IInv
<1>3. CASE DropGuard
    <2>1. guard' = NoGuard /\ guard' \in Guard
        BY <1>3 DEF DropGuard, NoGuard, Guard, StatusRegister, Level
    <2>2. TypeOK'
        BY <1>3, <2>1 DEF DropGuard, IInv, TypeOK, asicVars, srVars
    <2>3. LinesCurrent' /\ SampleCurrent' /\ ControllerCurrent'
        BY <1>3 DEF DropGuard, IInv, LinesCurrent, LinesOf, SampleCurrent, ControllerCurrent,
            Routed, asicVars
    <2>4. GuardEpochCurrent' /\ GuardVerdictCurrent'
        BY <2>1 DEF GuardEpochCurrent, GuardVerdictCurrent, NoGuard
    <2> QED
        BY <2>2, <2>3, <2>4 DEF IInv
<1>4. CASE AskGuard /\ ~GuardReadsEpoch
    <2>1. UNCHANGED <<device, level, scif, external, sampled, sourcesDirty, asicPending, asicMask,
                      controller, portDirty, routerMoved, guard, blocked, imask>>
        BY <1>4 DEF AskGuard, asicVars, srVars
    <2>2. TypeOK' /\ LinesCurrent' /\ SampleCurrent' /\ ControllerCurrent'
        BY <2>1 DEF IInv, TypeOK, LinesCurrent, LinesOf, SampleCurrent, ControllerCurrent, Routed
    <2>3. GuardEpochCurrent' /\ GuardVerdictCurrent'
        BY <2>1 DEF IInv, GuardEpochCurrent, GuardVerdictCurrent
    <2> QED
        BY <2>2, <2>3 DEF IInv
<1>5. CASE AskGuard /\ GuardReadsEpoch
    <2>1. /\ sampled' = Sample /\ sourcesDirty' = FALSE /\ EpochMoves(EpochMovesOnRead)
          /\ UNCHANGED <<device, level, scif, external, asicPending, asicMask, controller,
                         portDirty, blocked, imask>>
        BY <1>5 DEF AskGuard, asicVars, srVars
    <2>2. ~portDirty /\ Sample = device
        BY <1>5 DEF GuardReadsEpoch, IInv, SampleCurrent, Sample
    <2>3. EpochMovesOnRead \in BOOLEAN
        BY DEF EpochMovesOnRead
    <2>4. /\ guard' \in Guard
          /\ guard'.valid = guard.valid /\ guard'.acceptable = guard.acceptable
          /\ guard'.controllerMoved = guard.controllerMoved /\ guard'.sr = guard.sr
          /\ guard'.routerMoved <=> guard.routerMoved \/ EpochMovesOnRead
        BY <1>1, <2>1, <2>3 DEF EpochMoves, Guard
    <2>5. routerMoved \in BOOLEAN /\ routerMoved' = (routerMoved \/ EpochMovesOnRead)
        BY <2>1 DEF IInv, TypeOK, EpochMoves
    <2>6. TypeOK'
        BY <2>1, <2>2, <2>4, <2>5, Zenon DEF IInv, TypeOK
    <2>7. LinesCurrent' /\ SampleCurrent'
        BY <2>1, <2>2 DEF IInv, LinesCurrent, LinesOf, SampleCurrent
    <2>8. ControllerCurrent'
        BY <2>1, <2>2, <2>5, Zenon DEF IInv, ControllerCurrent, Routed, EpochMovesOnRead
    <2>9. GuardEpochCurrent' /\ GuardVerdictCurrent'
        BY <2>1, <2>4, <2>5 DEF IInv, GuardEpochCurrent, GuardVerdictCurrent
    <2> QED
        BY <2>6, <2>7, <2>8, <2>9 DEF IInv
<1> QED
    BY <1>2, <1>3, <1>4, <1>5

-----------------------------------------------------------------------------
(* Skipping a synchronization is sound.                                     *)

\* No handler leaves a cache stale without a mark: IInv is inductive.
LEMMA NextInv == IInv /\ [Next]_vars => IInv'
<1> SUFFICES ASSUME IInv, [Next]_vars PROVE IInv'
    OBVIOUS
<1>1. CASE UNCHANGED vars
    <2>1. TypeOK' /\ LinesCurrent' /\ SampleCurrent' /\ ControllerCurrent'
        BY <1>1, SMTT(30) DEF vars, asicVars, srVars, IInv, TypeOK, LinesCurrent, LinesOf, SampleCurrent,
            ControllerCurrent, Routed
    <2>2. GuardEpochCurrent' /\ GuardVerdictCurrent'
        BY <1>1 DEF vars, asicVars, srVars, IInv, GuardEpochCurrent, GuardVerdictCurrent
    <2> QED
        BY <2>1, <2>2 DEF IInv
<1>2. CASE Next
    BY <1>2, SourceStep, AsicSteps, CpuStep, PollStep, GuardStep DEF Next
<1> QED
    BY <1>1, <1>2

\* Router, controller and chain guard are current, or known not to be, for ever.
THEOREM AlwaysIInv == Spec => []IInv
BY InitInv, NextInv, PTL DEF Spec

\* The early return of synchronize_interrupt_sources_if_needed() never leaves
\* the controller behind the devices, whatever devices, lines and levels exist.
THEOREM SkipSafe == Spec => []SkipIsSound
<1>1. IInv => SkipIsSound
    <2> SUFFICES ASSUME IInv PROVE SkipIsSound
        OBVIOUS
    <2>1. ~NeedsSynchronize => controller = Routed(device)
        BY SynchronizedIsCurrent DEF ControllerAfter
    <2> QED
        BY <2>1 DEF SkipIsSound, IInv, LinesCurrent
<1> QED
    BY <1>1, AlwaysIInv, PTL

-----------------------------------------------------------------------------
(* The cached path implements the uncached delivery.                        *)

\* A step that is no safepoint maps to a step of the environment.
LEMMA EnvironmentStep ==
    ASSUME IInv', outcome' = NoSafepoint
    PROVE  Uncached!Environment
<1>1. TrulyAsserted' = Routed(device)'
    BY AssertedIsRouted, IInv' DEF IInv, LinesCurrent, TrulyAsserted, Routed
<1>2. Routed(device)' \subseteq Source \X Level
    <2>1. \A s \in (device \cup scif)' : s \in Polled \cup Scif /\ level'[s] \in Level
        BY DEF IInv, TypeOK, Levels
    <2>2. \A l \in external' : l \in Line /\ LineLevel[l] \in Level
        BY DEF IInv, TypeOK
    <2> QED
        BY <2>1, <2>2 DEF Routed, Source
<1>3. blocked' \in BOOLEAN /\ imask' \in Level
    BY DEF IInv, TypeOK
<1> QED
    BY <1>1, <1>2, <1>3 DEF Uncached!Environment, Uncached!NoSafepoint, NoSafepoint, Level

\* A poll that accepts maps to the acceptance of the highest admitted source.
LEMMA AcceptStep ==
    ASSUME IInv, PollAccepts
    PROVE  Uncached!Accept
<1>1. ControllerAfter = TrulyAsserted
    BY SynchronizedIsCurrent, AssertedIsRouted
<1>2. TrulyAsserted \subseteq Source \X Level
    BY AssertedIsRouted, RoutedTyped DEF IInv
<1>3. PICK r \in TrulyAsserted :
        /\ IsHighest(TrulyAsserted, r)
        /\ Synchronize(TrulyAsserted \ {r})
        /\ outcome' = Accepted(r[1])
    BY <1>1, Zenon DEF PollAccepts
<1>4. PICK o \in TrulyAsserted : ~blocked /\ o[2] > imask
    BY <1>1 DEF PollAccepts, CanAccept
<1>5. r[2] \in Int /\ o[2] \in Int /\ imask \in Int
    BY <1>2 DEF Level, IInv, TypeOK
<1>6. r \in Uncached!Admitted
    BY <1>3, <1>4, <1>5 DEF IsHighest, Uncached!Admitted
<1>7. \A q \in Uncached!Admitted : q[2] < r[2] \/ (q[2] = r[2] /\ q[1] >= r[1])
    BY <1>3 DEF IsHighest, Uncached!Admitted
<1>8. TrulyAsserted' = TrulyAsserted
    BY <1>3 DEF Synchronize, TrulyAsserted, LinesOf, asicVars
<1> QED
    BY <1>3, <1>6, <1>7, <1>8 DEF PollAccepts, Uncached!Accept, Uncached!Accepted, Accepted

\* A poll in vain, and a block chained under a guard that holds, map to going
\* on while nothing is admitted.
LEMMA InVainStep ==
    ASSUME IInv, PollInVain
    PROVE  Uncached!GoOn(Uncached!Nothing)
<1>1. ControllerAfter = TrulyAsserted
    BY SynchronizedIsCurrent, AssertedIsRouted
<1>2. Uncached!Admitted = {}
    BY <1>1 DEF PollInVain, CanAccept, Uncached!Admitted
<1>3. TrulyAsserted' = TrulyAsserted
    BY SMTT(30) DEF PollInVain, Synchronize, TrulyAsserted, LinesOf, asicVars
<1> QED
    BY <1>2, <1>3 DEF PollInVain, srVars, Uncached!GoOn, Uncached!Nothing, Nothing

\* A guard is asked: it lets a block chain only while nothing is admitted.
LEMMA ChainedStep ==
    ASSUME IInv, AskGuard, GuardHolds
    PROVE  Uncached!GoOn(Uncached!Chained)
<1>1. /\ guard.valid /\ ~guard.acceptable /\ ~portDirty
      /\ ~guard.routerMoved /\ ~guard.controllerMoved
      /\ guard.sr = Sr /\ Sample = sampled
    BY DEF GuardHolds, GuardReadsEpoch, EpochMovesOnRead
<1>2. ~routerMoved
    BY <1>1 DEF IInv, GuardEpochCurrent
<1>3. controller = TrulyAsserted
    <2>1. ~NeedsSynchronize
        BY <1>1, <1>2 DEF NeedsSynchronize, EpochMovesOnRead
    <2> QED
        BY <2>1, SynchronizedIsCurrent, AssertedIsRouted DEF ControllerAfter
<1>4. blocked \/ \A r \in controller : ~(r[2] > imask)
    BY <1>1 DEF IInv, GuardVerdictCurrent, Sr
<1>5. Uncached!Admitted = {}
    BY <1>3, <1>4 DEF Uncached!Admitted
<1>6. TrulyAsserted' = TrulyAsserted
    BY DEF AskGuard, TrulyAsserted, LinesOf, asicVars
<1>7. outcome' = Chained
    BY DEF AskGuard
<1> QED
    BY <1>5, <1>6, <1>7 DEF AskGuard, srVars, Uncached!GoOn, Uncached!Chained, Chained

\* The interrupt path with all its caches delivers exactly what the uncached
\* specification delivers: the highest admitted source, and nothing only if
\* there is none.
THEOREM DeliveryImplemented == Spec => ImplementsDelivery
<1>1. Init => Uncached!DeliveryInit
    BY DEF Init, Uncached!DeliveryInit, TrulyAsserted, LinesOf, NoSafepoint,
        Uncached!NoSafepoint
<1>2. IInv /\ IInv' /\ [Next]_vars => [Uncached!DeliveryNext]_(Uncached!deliveryVars)
    <2> SUFFICES ASSUME IInv, IInv', [Next]_vars
                 PROVE  [Uncached!DeliveryNext]_(Uncached!deliveryVars)
        OBVIOUS
    <2>1. CASE UNCHANGED vars
        BY <2>1 DEF vars, asicVars, srVars, Uncached!deliveryVars, TrulyAsserted, LinesOf
    <2>2. CASE outcome' = NoSafepoint
        BY <2>2, EnvironmentStep DEF Uncached!DeliveryNext
    <2>3. CASE PollAccepts
        BY <2>3, AcceptStep DEF Uncached!DeliveryNext
    <2>4. CASE PollInVain
        BY <2>4, InVainStep DEF Uncached!DeliveryNext
    <2>5. CASE AskGuard /\ GuardHolds
        BY <2>5, ChainedStep, SMTT(30) DEF Uncached!DeliveryNext
    <2>6. ASSUME Next PROVE outcome' = NoSafepoint \/ PollAccepts \/ PollInVain
                              \/ (AskGuard /\ GuardHolds)
        BY <2>6, Zenon DEF Next, DeviceMmio, ScifPending, PriorityWrite, AsicRaise, AsicAcknowledge,
            AsicMaskWrite, Advance, WriteStatusRegister, ManualReset, PrepareGuard, DropGuard,
            AskGuard
    <2> QED
        BY <2>1, <2>2, <2>3, <2>4, <2>5, <2>6
<1> QED
    BY <1>1, <1>2, AlwaysIInv, PTL DEF Spec, ImplementsDelivery, Uncached!Delivery

=============================================================================
