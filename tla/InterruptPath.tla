---------------------------- MODULE InterruptPath ----------------------------
(***************************************************************************)
(* The way of an interrupt from a device to the CPU of an exported port:     *)
(*   DreamcastSystemAsic -> three external lines                            *)
(*   TMU, RTC, DMAC      -> polled flags    > PlatformInterruptRouter        *)
(*   SCIF                -> latched flags                                   *)
(*   -> InterruptController -> accept at a safepoint, or chaining past it.   *)
(* Every arrow is cached.  The router samples the polled flags only if it    *)
(* was told that they may have changed, the port copies the router into the  *)
(* controller only if the router's epoch moved or the port is dirty, and a   *)
(* chain of compiled blocks skips safepoints as long as its guard holds.     *)
(* Epochs are compared for equality only, so the module keeps whether an     *)
(* epoch moved since it was read.  There is one thread.                     *)
(***************************************************************************)
EXTENDS Integers, FiniteSets

CONSTANTS
    Polled,         \* ids of the sources the router polls (TMU, RTC, DMAC)
    Surviving,      \* the polled sources a manual reset leaves alone (RTC alarm, carry)
    Scif,           \* ids of the sources of the serial interface
    Line,           \* ids of the external lines
    LineLevel,      \* external_levels: Line -> level
    AsicEvent,      \* event bits of the system ASIC
    MaxLevel,       \* 15
    GuestLevels,    \* the level assignments the guest programs
    GuestSr         \* the values of SR the guest loads, [blocked, imask]

Level == 0 .. MaxLevel
Source == Polled \cup Scif \cup Line
Levels == [Polled \cup Scif -> Level]
StatusRegister == [blocked : BOOLEAN, imask : Level]

ASSUME InterruptAssumption ==
    /\ Polled \subseteq Nat /\ Scif \subseteq Nat /\ Line \subseteq Nat
    /\ Surviving \subseteq Polled
    /\ Polled \cap Scif = {} /\ (Polled \cup Scif) \cap Line = {}
    /\ MaxLevel \in Nat
    /\ LineLevel \in [Line -> Level]
    /\ GuestLevels \subseteq Levels /\ GuestSr \subseteq StatusRegister

VARIABLES
    device,         \* the polled flags as the devices have them now
    level,          \* the router's level of each programmable source
    scif,           \* scif_pending_
    external,       \* external_pending_
    sampled,        \* device_pending_state_
    sourcesDirty,   \* device_sources_dirty_
    asicPending,    \* DreamcastSystemAsic::pending_
    asicMask,       \* masks_ of each line
    controller,     \* InterruptController::pending_: set of <<source, level>>
    portDirty,      \* the port's interrupt_sources_dirty_
    routerMoved,    \* source_epoch_ # synchronized_interrupt_router_epoch_
    guard,          \* StaticAotChainGuard: [valid, acceptable, sr,
                    \*   routerMoved, controllerMoved, schedulerReset]
    blocked, imask, \* SR.BL and SR.IMASK
    outcome         \* history: what the last safepoint did

asicVars == <<asicPending, asicMask>>
srVars == <<blocked, imask>>
vars == <<device, level, scif, external, sampled, sourcesDirty, asicVars, controller,
          portDirty, routerMoved, guard, srVars, outcome>>

\* Outcomes of a safepoint.
NoSafepoint == <<>>
Accepted(s) == <<"accepted", s>>
Nothing == <<"nothing">>
Chained == <<"chained">>

AllZero == [s \in Polled \cup Scif |-> 0]
Unmasked == [l \in Line |-> {}]
Guard == [valid : BOOLEAN, acceptable : BOOLEAN, routerMoved : BOOLEAN,
          controllerMoved : BOOLEAN, schedulerReset : BOOLEAN, sr : StatusRegister]
NoGuard == [valid |-> FALSE, acceptable |-> FALSE, routerMoved |-> FALSE,
            controllerMoved |-> FALSE, schedulerReset |-> FALSE,
            sr |-> [blocked |-> FALSE, imask |-> 0]]

\* What synchronize() publishes for a state of the polled flags.
Routed(flags) ==
    {<<s, level[s]>> : s \in flags \cup scif} \cup {<<l, LineLevel[l]>> : l \in external}

Init ==
    /\ device = {} /\ sampled = {} /\ sourcesDirty = TRUE
    /\ level = AllZero /\ scif = {} /\ external = {}
    /\ asicPending = {} /\ asicMask = Unmasked
    /\ controller = {}
    /\ portDirty = TRUE /\ routerMoved = TRUE
    /\ guard = NoGuard
    /\ blocked = TRUE /\ imask = MaxLevel
    /\ outcome = NoSafepoint

-----------------------------------------------------------------------------
(* Epochs.  Both readers of the router's epoch learn that it moved.         *)

EpochMoves(moves) ==
    /\ routerMoved' = (routerMoved \/ moves)
    /\ guard' = [guard EXCEPT !.routerMoved = guard.routerMoved \/ moves]

\* source_epoch() samples the polled flags if they may have changed.
Sample == IF sourcesDirty THEN device ELSE sampled
EpochMovesOnRead == Sample # sampled

-----------------------------------------------------------------------------
(* What changes a source.                                                   *)

\* synchronize_lines(): a line is asserted if an unmasked event is pending.
LinesOf(pending, mask) == {l \in Line : pending \cap mask[l] # {}}
SynchronizeLines ==
    /\ external' = LinesOf(asicPending', asicMask')
    /\ EpochMoves(external' # external)

\* As if an MMIO access did not tell the router.
MmioSilent == UNCHANGED sourcesDirty

\* Every MMIO access ends with mark_device_sources_dirty().
Mmio == sourcesDirty' = TRUE

\* A handler that is also called by host input or firmware calls.
MaybeMmio == Mmio \/ UNCHANGED sourcesDirty

\* The guest acknowledges, starts or reprograms a polled device.
DeviceMmio(flags) ==
    /\ device' = flags
    /\ Mmio
    /\ outcome' = NoSafepoint
    /\ UNCHANGED <<level, scif, external, sampled, asicVars, controller, portDirty,
                   routerMoved, guard, srVars>>

\* set_scif_pending, from the SCIF's registers or an injected byte or break.
ScifPending(flags) ==
    /\ scif' = flags
    /\ EpochMoves(flags # scif)
    /\ MaybeMmio
    /\ outcome' = NoSafepoint
    /\ UNCHANGED <<device, level, external, sampled, asicVars, controller, portDirty, srVars>>

\* DreamcastSystemAsic::write to a pending register ...
AsicAcknowledge(events) ==
    /\ asicPending' = asicPending \ events
    /\ UNCHANGED asicMask
    /\ SynchronizeLines
    /\ Mmio
    /\ outcome' = NoSafepoint
    /\ UNCHANGED <<device, level, scif, sampled, controller, portDirty, srVars>>

\* ... and to the mask of a line.
AsicMaskWrite(l, events) ==
    /\ asicMask' = [asicMask EXCEPT ![l] = events]
    /\ UNCHANGED asicPending
    /\ SynchronizeLines
    /\ Mmio
    /\ outcome' = NoSafepoint
    /\ UNCHANGED <<device, level, scif, sampled, controller, portDirty, srVars>>

\* DreamcastSystemAsic::raise from the guest's own code path.
AsicRaise(e) ==
    /\ asicPending' = asicPending \cup {e}
    /\ UNCHANGED asicMask
    /\ SynchronizeLines
    /\ MaybeMmio
    /\ outcome' = NoSafepoint
    /\ UNCHANGED <<device, level, scif, sampled, controller, portDirty, srVars>>

\* Sh4InterruptRegisters::write_priority_*: set_tmu_level and its siblings.
PriorityWrite(levels) ==
    /\ level' = levels
    /\ EpochMoves(levels # level)
    /\ Mmio
    /\ outcome' = NoSafepoint
    /\ UNCHANGED <<device, scif, external, sampled, asicVars, controller, portDirty, srVars>>

\* advance_by() ran events: callbacks changed devices, ended a transmission of
\* the SCIF and raised ASIC events.
Advance(flags, serial, raised) ==
    /\ device' = flags
    /\ scif' = serial
    /\ asicPending' = asicPending \cup raised
    /\ UNCHANGED asicMask
    /\ external' = LinesOf(asicPending', asicMask')
    /\ EpochMoves(external' # external \/ serial # scif)
    /\ portDirty' = TRUE
    /\ outcome' = NoSafepoint
    /\ UNCHANGED <<level, sampled, sourcesDirty, controller, srVars>>

\* The guest writes SR, or returns from an exception.
WriteStatusRegister(sr) ==
    /\ blocked' = sr.blocked /\ imask' = sr.imask
    /\ outcome' = NoSafepoint
    /\ UNCHANGED <<device, level, scif, external, sampled, sourcesDirty, asicVars, controller,
                   portDirty, routerMoved, guard>>

\* The manual reset of the guest CPU: scheduler (which may refuse), controller,
\* router, priorities, polled devices, SCIF and ASIC.
ManualReset ==
    /\ controller' = {}
    /\ level' = AllZero /\ scif' = {} /\ external' = {}
    /\ device' = device \cap Surviving
    /\ asicPending' = {} /\ asicMask' = Unmasked
    /\ sourcesDirty' = TRUE
    /\ routerMoved' = TRUE
    /\ \E refused \in BOOLEAN :
        guard' = [guard EXCEPT !.routerMoved = TRUE,
                    !.controllerMoved = guard.controllerMoved \/ controller # {},
                    !.schedulerReset = guard.schedulerReset \/ ~refused]
    /\ blocked' = TRUE /\ imask' = MaxLevel
    /\ outcome' = NoSafepoint
    /\ UNCHANGED <<sampled, portDirty>>

-----------------------------------------------------------------------------
(* The safepoint: poll_interrupt().                                         *)

\* synchronize_interrupt_sources_if_needed()
NeedsSynchronize == portDirty \/ routerMoved \/ EpochMovesOnRead
SampledAfter == IF NeedsSynchronize THEN device ELSE Sample
ControllerAfter == IF NeedsSynchronize THEN Routed(device) ELSE controller

\* can_accept() and the choice of accept_pending_interrupt().
CanAccept(requests) == ~blocked /\ \E r \in requests : r[2] > imask
IsHighest(requests, r) ==
    \A o \in requests : o[2] < r[2] \/ (o[2] = r[2] /\ o[1] >= r[1])

\* What both the poll and the guard do to router and controller.
Synchronize(result) ==
    /\ sampled' = SampledAfter
    /\ sourcesDirty' = FALSE
    /\ routerMoved' = FALSE
    /\ controller' = result
    /\ UNCHANGED <<device, level, scif, external, asicVars>>

\* The guard sees the epochs move.
GuardSees(result) ==
    guard' = [guard EXCEPT !.routerMoved = guard.routerMoved \/ SampledAfter # sampled,
                           !.controllerMoved = guard.controllerMoved \/ result # controller]

\* As if accepting a request also ended its cause.
AcceptedForgets == portDirty' = FALSE

\* The accepted source may still be asserted and must be mirrored again.
AcceptedMarks == portDirty' = TRUE

PollAccepts ==
    /\ CanAccept(ControllerAfter)
    /\ \E r \in ControllerAfter :
        /\ IsHighest(ControllerAfter, r)
        /\ Synchronize(ControllerAfter \ {r})
        /\ guard' = [guard EXCEPT !.routerMoved = guard.routerMoved \/ SampledAfter # sampled,
                                  !.controllerMoved = TRUE]
        /\ outcome' = Accepted(r[1])
    /\ AcceptedMarks
    /\ blocked' = TRUE
    /\ UNCHANGED imask

PollInVain ==
    /\ ~CanAccept(ControllerAfter)
    /\ Synchronize(ControllerAfter)
    /\ GuardSees(ControllerAfter)
    /\ portDirty' = FALSE
    /\ outcome' = Nothing
    /\ UNCHANGED srVars

-----------------------------------------------------------------------------
(* Chaining past the safepoint.                                             *)

Sr == [blocked |-> blocked, imask |-> imask]

\* prepare_static_aot_chain_guard(): a block that may not chain leaves no guard.
PrepareGuard ==
    /\ Synchronize(ControllerAfter)
    /\ guard' = [valid |-> TRUE, acceptable |-> CanAccept(ControllerAfter), sr |-> Sr,
                 routerMoved |-> FALSE, controllerMoved |-> FALSE, schedulerReset |-> FALSE]
    /\ portDirty' = FALSE
    /\ outcome' = NoSafepoint
    /\ UNCHANGED srVars

DropGuard ==
    /\ guard' = NoGuard
    /\ outcome' = NoSafepoint
    /\ UNCHANGED <<device, level, scif, external, sampled, sourcesDirty, asicVars, controller,
                   portDirty, routerMoved, srVars>>

\* static_aot_chain_guard_rejection(), as far as interrupts go: it reads the
\* router's epoch only after the cheaper tests passed.
GuardReadsEpoch ==
    guard.valid /\ ~guard.schedulerReset /\ ~guard.acceptable /\ ~portDirty
GuardHolds ==
    /\ GuardReadsEpoch
    /\ ~guard.routerMoved /\ ~EpochMovesOnRead /\ ~guard.controllerMoved
    /\ guard.sr = Sr

AskGuard ==
    /\ outcome' = IF GuardHolds THEN Chained ELSE NoSafepoint
    /\ IF GuardReadsEpoch
       THEN /\ sampled' = Sample /\ sourcesDirty' = FALSE
            /\ EpochMoves(EpochMovesOnRead)
       ELSE UNCHANGED <<sampled, sourcesDirty, routerMoved, guard>>
    /\ UNCHANGED <<device, level, scif, external, asicVars, controller, portDirty, srVars>>

-----------------------------------------------------------------------------
Next ==
    \/ \E flags \in SUBSET Polled : DeviceMmio(flags)
    \/ \E flags \in SUBSET Scif : ScifPending(flags)
    \/ \E levels \in GuestLevels : PriorityWrite(levels)
    \/ \E e \in AsicEvent : AsicRaise(e)
    \/ \E events \in SUBSET AsicEvent :
        AsicAcknowledge(events) \/ \E l \in Line : AsicMaskWrite(l, events)
    \/ \E flags \in SUBSET Polled, serial \in SUBSET Scif, raised \in SUBSET AsicEvent :
        Advance(flags, serial, raised)
    \/ \E sr \in GuestSr : WriteStatusRegister(sr)
    \/ ManualReset
    \/ PollAccepts \/ PollInVain
    \/ PrepareGuard \/ DropGuard \/ AskGuard

Spec == Init /\ [][Next]_vars

-----------------------------------------------------------------------------
(* Properties                                                               *)

\* The variables have the types of the fields they model.
TypeOK ==
    /\ device \subseteq Polled /\ sampled \subseteq Polled /\ sourcesDirty \in BOOLEAN
    /\ level \in Levels /\ scif \subseteq Scif /\ external \subseteq Line
    /\ asicPending \subseteq AsicEvent /\ asicMask \in [Line -> SUBSET AsicEvent]
    /\ controller \subseteq Source \X Level
    /\ portDirty \in BOOLEAN /\ routerMoved \in BOOLEAN
    /\ guard \in Guard
    /\ blocked \in BOOLEAN /\ imask \in Level

\* Whenever synchronize_interrupt_sources_if_needed() would return early, the
\* controller already holds exactly what a full synchronize() would publish,
\* and the external lines are those of the ASIC's registers: no path by which
\* a device, a register or a reset changes a source escapes the two dirty
\* flags and the epoch.
SkipIsSound ==
    /\ external = LinesOf(asicPending, asicMask)
    /\ ~NeedsSynchronize => controller = Routed(device)

\* Polling and chaining deliver what the uncached specification delivers: the
\* highest source really asserted by a device or by an unmasked ASIC event, and
\* nothing, or a chained block, only when none is admitted by BL and IMASK.
TrulyAsserted ==
    {<<s, level[s]>> : s \in device \cup scif}
        \cup {<<l, LineLevel[l]>> : l \in LinesOf(asicPending, asicMask)}
Uncached == INSTANCE InterruptDelivery WITH asserted <- TrulyAsserted
ImplementsDelivery == Uncached!Delivery

=============================================================================
