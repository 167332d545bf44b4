-------------------------- MODULE AudioCommandQueue --------------------------
(***************************************************************************)
(* katana::runtime::NativePortAudioCommandQueue: the lock-free ring of       *)
(* commands from the guest thread to the audio thread, and the slots in      *)
(* which the audio thread acknowledges them.  The producer side is           *)
(* begin_produce, publish, abort and read_ack; the consumer side is          *)
(* begin_consume, the three ways to finish a lease, and fail_terminal.       *)
(*                                                                         *)
(* As in FrameQueue, a step is one access to a shared atomic, loads of a     *)
(* variable only the loading thread writes join the step before them, and    *)
(* moved[t] says whether event_epoch_ moved since t loaded it.  The stamps   *)
(* and sizes of a command are either acceptable or not.  Where in the        *)
(* payload slab a command lies is AudioPayloadRing's subject; of it only     *)
(* this matters here: a ring with commands outstanding may be too full, a    *)
(* drained one never is.  A queue with enabled = false, which answers every  *)
(* call without touching anything, is left out.                              *)
(***************************************************************************)
EXTENDS Integers, Sequences, FiniteSetsExt

CONSTANTS
    Thread,           \* the threads that call the queue
    Callers,          \* Callers[s]: those that use side s of it
    ShutdownCallers,  \*   or call request_shutdown(), notify_consumer_event()
    MaxCommands,      \* config_.maximum_commands
    AckSlot,          \* the indices of acks_
    MaxSequence,      \* numeric_limits<uint64_t>::max() of a command sequence
    Result,           \* the results the consumer reports
    ClientErrors      \* may a client present bad commands, results or calls?

Side == {"producer", "consumer"}
NoThread == "no thread"
NoAck == "no ack slot"

ASSUME AudioCommandQueueAssumption ==
    /\ Callers \in [Side -> SUBSET Thread]
    /\ ShutdownCallers \subseteq Thread
    /\ NoThread \notin Thread /\ NoAck \notin AckSlot
    /\ MaxCommands \in Nat \ {0} /\ MaxSequence \in Nat \ {0}
    /\ Result \subseteq {"Completed", "Cancelled", "Failed"}
    /\ ClientErrors \in BOOLEAN

VARIABLES
    lifecycle,       \* lifecycle_
    slots,           \* commands_[i]: state, command_sequence, ack_slot
    acks,            \* acks_[i]: state, value.command_sequence
    position,        \* producer_position_, consumer_position_
    nextSequence,    \* next_command_sequence_, 0 once used up
    finalised,       \* completed_ + cancelled_ + failed_commands_
    leaseActive,     \* producer_lease_active_, consumer_lease_active_
    boundThread,     \* producer_thread_identity_, consumer_thread_identity_
    errorClaimed,    \* first_error_claimed_
    errorPublished,  \* first_error_published_
    firstError,      \* first_error_
    lease,           \* the lease object of each side: none, held or cancelled
    awaited,         \* the command the client awaits the acknowledgement of
    pc,              \* <<call, step>>: where each thread is,
    local,           \*   and the locals of its call
    moved            \* has event_epoch_ moved since the thread loaded it?

queueVars == <<slots, acks, position, nextSequence, finalised>>
ownerVars == <<leaseActive, boundThread>>
errorVars == <<errorClaimed, errorPublished, firstError>>
clientVars == <<lease, awaited>>
vars == <<lifecycle, queueVars, ownerVars, errorVars, clientVars, pc, local, moved>>

Lifecycle == {"Running", "Draining", "Stopped", "Failed"}
Status == {"Completed", "Cancelled", "Failed"}
Error == {"None", "ProducerThreadViolation", "ConsumerThreadViolation",
          "CommandSequenceExhausted", "ClientError"}
Slot == 0 .. MaxCommands - 1
Position == 0 .. MaxSequence
SlotState == {"Free", "Writing", "Ready", "Reading", "Cancelled"}
AckState == {"Free", "Pending"} \cup Status

SlotOf(s) == position[s] % MaxCommands
ThreadViolation(s) == IF s = "producer" THEN "ProducerThreadViolation"
                                        ELSE "ConsumerThreadViolation"

IdleLabel == <<"client", "idle">>
NotifyLabel == <<"client", "notify">>
NoLocals == [then |-> IdleLabel,   \* where the call goes once its lease is lowered
             ret |-> IdleLabel,    \* where publish_error() returns to
             wait |-> FALSE,       \* is it a wait_* call?
             ack |-> NoAck,        \* the acknowledgement slot it is about
             raised |-> "None",    \* the error it publishes
             seen |-> "Free",      \* the slot state it loaded, or its result
             from |-> 0, to |-> 0] \* what cancel_ready_commands() has yet to scan

Init ==
    /\ lifecycle = "Running"
    /\ slots = [i \in Slot |-> [state |-> "Free", sequence |-> 0, ack |-> NoAck]]
    /\ acks = [a \in AckSlot |-> [state |-> "Free", sequence |-> 0]]
    /\ position = [s \in Side |-> 0]
    /\ nextSequence = 1
    /\ finalised = 0
    /\ leaseActive = [s \in Side |-> FALSE]
    /\ boundThread = [s \in Side |-> NoThread]
    /\ errorClaimed = FALSE /\ errorPublished = FALSE /\ firstError = "None"
    /\ lease = [s \in Side |-> "none"]
    /\ awaited = [a \in AckSlot |-> 0]
    /\ pc = [t \in Thread |-> IdleLabel]
    /\ local = [t \in Thread |-> NoLocals]
    /\ moved = [t \in Thread |-> TRUE]

-----------------------------------------------------------------------------
(* Control.                                                                 *)

At(t, call, step) == pc[t] = <<call, step>>
Idle(t) == pc[t] = IdleLabel

\* On to a label, with new locals; the locals of a call end with it.
GoWith(t, label, new) ==
    /\ pc' = [pc EXCEPT ![t] = label]
    /\ local' = [local EXCEPT ![t] =
                    IF label[1] = "client" THEN NoLocals ELSE new]
Go(t, call, step) == GoWith(t, <<call, step>>, local[t])
Finish(t) == GoWith(t, IdleLabel, NoLocals)

\* A try_begin_* without a lease gives control to its wait_begin_* caller, if any.
RefusedLabel(t, s) == IF local[t].wait THEN <<s, "refused">> ELSE IdleLabel
Refuse(t, s) == GoWith(t, RefusedLabel(t, s), local[t])

\* The lease is lowered next, and then the call goes on at then.
LowerThen(t, s, then) ==
    GoWith(t, <<s, "lower">>, [local[t] EXCEPT !.then = then])

\* publish_error(error, ...), then on to back: an exception, or the caller.
Raise(t, error, back) ==
    GoWith(t, <<"error", "claim">>, [local[t] EXCEPT !.raised = error, !.ret = back])

OnlyReads ==
    UNCHANGED <<lifecycle, queueVars, ownerVars, errorVars, clientVars, moved>>

\* event_epoch_.fetch_add() and notify_all().
NotifyAll ==
    /\ moved' = [u \in Thread |-> TRUE]
    /\ UNCHANGED <<lifecycle, queueVars, ownerVars, errorVars, clientVars>>

LoadEpoch(t) ==
    /\ moved' = [moved EXCEPT ![t] = FALSE]
    /\ UNCHANGED <<lifecycle, queueVars, ownerVars, errorVars, clientVars>>

SetSlot(i, state) ==
    /\ slots' = [slots EXCEPT ![i].state = state]
    /\ UNCHANGED <<lifecycle, acks, position, nextSequence, finalised, ownerVars,
                   errorVars, moved>>

-----------------------------------------------------------------------------
(* publish_error(): the first thread to claim the record fills it and fails  *)
(* the queue; every caller cancels the commands that are ready.             *)

ErrorClaim(t) ==
    /\ At(t, "error", "claim")
    /\ errorClaimed' = TRUE
    /\ IF errorClaimed
          THEN Go(t, "error", "from") /\ UNCHANGED firstError
          ELSE Go(t, "error", "publish") /\ firstError' = local[t].raised
    /\ UNCHANGED <<lifecycle, queueVars, ownerVars, errorPublished, clientVars, moved>>

ErrorPublish(t) ==
    /\ At(t, "error", "publish")
    /\ errorPublished' = TRUE
    /\ Go(t, "error", "fail")
    /\ UNCHANGED <<lifecycle, queueVars, ownerVars, errorClaimed, firstError,
                   clientVars, moved>>

ErrorFails(t) ==
    /\ At(t, "error", "fail")
    /\ lifecycle' = "Failed"
    /\ Go(t, "error", "from")
    /\ UNCHANGED <<queueVars, ownerVars, errorVars, clientVars, moved>>

\* cancel_ready_commands(): the two positions, then a compare-exchange a slot.
CancelFrom(t) ==
    /\ At(t, "error", "from")
    /\ GoWith(t, <<"error", "to">>,
              [local[t] EXCEPT !.from = position["consumer"]])
    /\ OnlyReads

CancelTo(t) ==
    /\ At(t, "error", "to")
    /\ IF position["producer"] <= local[t].from
          THEN Go(t, "error", "notify")
          ELSE GoWith(t, <<"error", "cancel">>,
                  [local[t] EXCEPT !.to =
                      IF position["producer"] - local[t].from > MaxCommands
                      THEN local[t].from + MaxCommands ELSE position["producer"]])
    /\ OnlyReads

CancelReady(t) ==
    LET i == local[t].from % MaxCommands IN
    /\ At(t, "error", "cancel")
    /\ SetSlot(i, IF slots[i].state = "Ready" THEN "Cancelled" ELSE slots[i].state)
    /\ GoWith(t, <<"error", IF local[t].from + 1 = local[t].to THEN "notify"
                                                               ELSE "cancel">>,
              [local[t] EXCEPT !.from = @ + 1])
    /\ UNCHANGED clientVars

ErrorNotify(t) ==
    At(t, "error", "notify") /\ NotifyAll /\ GoWith(t, local[t].ret, local[t])

PublishError(t) ==
    \/ ErrorClaim(t) \/ ErrorPublish(t) \/ ErrorFails(t)
    \/ CancelFrom(t) \/ CancelTo(t) \/ CancelReady(t) \/ ErrorNotify(t)

-----------------------------------------------------------------------------
(* try_begin_*() and wait_begin_*(), and what both sides share.             *)

\* try_begin_*_impl() starts with *_thread_allowed().  A thread that is bound stays
\* bound, and its test joins the step before.
Entry(t, s) ==
    <<s, CASE boundThread[s] # t  -> "bind"
           [] s = "producer"      -> "lifecycle"
           [] s = "consumer"      -> "lease">>

\* A waiting caller loads the epoch before anything else.
StartCall(t, s, ack, wait) ==
    /\ GoWith(t, Entry(t, s), [NoLocals EXCEPT !.wait = wait, !.ack = ack])
    /\ IF wait THEN LoadEpoch(t) ELSE OnlyReads

\* A client waits to produce only with an acknowledgement slot it reserved.
BeginProduce(t, ack, wait) ==
    /\ Idle(t) /\ t \in Callers["producer"]
    /\ lease["producer"] = "none" \/ ClientErrors
    /\ wait /\ ack # NoAck => awaited[ack] = 0
    /\ StartCall(t, "producer", ack, wait)

BeginConsume(t, wait) ==
    /\ Idle(t) /\ t \in Callers["consumer"]
    /\ lease["consumer"] = "none" \/ ClientErrors
    /\ StartCall(t, "consumer", NoAck, wait)

\* *_thread_allowed(): the compare-exchange of the identity decides.
BindThread(t, s, label) ==
    /\ IF boundThread[s] \in {NoThread, t}
          THEN boundThread' = [boundThread EXCEPT ![s] = t] /\ GoWith(t, label, local[t])
          ELSE UNCHANGED boundThread /\ Raise(t, ThreadViolation(s), IdleLabel)
    /\ UNCHANGED <<lifecycle, queueVars, leaseActive, errorVars, clientVars, moved>>

Bind(t, s) ==
    /\ At(t, s, "bind")
    /\ BindThread(t, s, <<s, IF s = "producer" THEN "lifecycle" ELSE "lease">>)

\* The producer's only look at the lifecycle; a closed queue throws.
ProduceLifecycle(t) ==
    /\ At(t, "producer", "lifecycle")
    /\ IF lifecycle = "Running" THEN Go(t, "producer", "lease") ELSE Finish(t)
    /\ OnlyReads

TakeLease(t, s) ==
    /\ At(t, s, "lease")
    /\ leaseActive' = [leaseActive EXCEPT ![s] = TRUE]
    /\ IF leaseActive[s] THEN Raise(t, "ClientError", IdleLabel)
                         ELSE Go(t, s, "slot")
    /\ UNCHANGED <<lifecycle, queueVars, boundThread, errorVars, clientVars, moved>>

LowerLease(t, s) ==
    /\ At(t, s, "lower")
    /\ leaseActive' = [leaseActive EXCEPT ![s] = FALSE]
    /\ GoWith(t, local[t].then, [local[t] EXCEPT !.then = IdleLabel])
    /\ UNCHANGED <<lifecycle, queueVars, boundThread, errorVars, clientVars, moved>>

\* publish() and the three ways to finish both end by moving the position.
Advance(t, s) ==
    /\ At(t, s, "advance")
    /\ position' = [position EXCEPT ![s] = @ + 1]
    /\ LowerThen(t, s, NotifyLabel)
    /\ UNCHANGED <<lifecycle, slots, acks, nextSequence, finalised, ownerVars, errorVars,
                   clientVars, moved>>

\* event_epoch_.wait() returns; the epoch is loaded again and the call retried.
Wake(t, s) == At(t, s, "sleep") /\ moved[t] /\ LoadEpoch(t) /\ GoWith(t, Entry(t, s), local[t])

FinalSilent(t) == pc[t] = NotifyLabel /\ OnlyReads /\ Finish(t)
FinalNotify(t) == pc[t] = NotifyLabel /\ NotifyAll /\ Finish(t)

BothSides(t) ==
    \/ \E s \in Side : \/ Bind(t, s) \/ TakeLease(t, s) \/ LowerLease(t, s)
                       \/ Advance(t, s) \/ Wake(t, s)
    \/ FinalNotify(t)

-----------------------------------------------------------------------------
(* try_begin_produce_impl() past the lease, publish() and abort().           *)

\* A bad target, size, acknowledgement slot or stamp.
RejectCommand(t) ==
    /\ ClientErrors
    /\ At(t, "producer", "slot")
    /\ GoWith(t, <<"producer", "lower">>,
              [local[t] EXCEPT !.then = <<"error", "claim">>,
                               !.raised = "ClientError"])
    /\ OnlyReads

ClaimSlot(t) ==
    LET i == SlotOf("producer") IN
    /\ At(t, "producer", "slot")
    /\ IF slots[i].state = "Free"
          THEN SetSlot(i, "Writing") /\ Go(t, "producer", "ring") /\ UNCHANGED clientVars
          ELSE LowerThen(t, "producer", RefusedLabel(t, "producer")) /\ OnlyReads

\* Payload room: certain when no command is outstanding.
ReservePayload(t) ==
    /\ At(t, "producer", "ring")
    /\ \/ Go(t, "producer", "ack")
       \/ /\ position["producer"] # position["consumer"]
          /\ GoWith(t, <<"producer", "unclaim">>,
                    [local[t] EXCEPT !.then = RefusedLabel(t, "producer")])
    /\ OnlyReads

AckPending(a) == a # NoAck /\ acks[a].state = "Pending"
AckBusy(a) == a # NoAck /\ acks[a].state # "Free"

\* The acknowledgement slot, then the sequence number, which may be used up.
ReserveAck(t) ==
    LET a == local[t].ack
        i == SlotOf("producer")
        busy == AckBusy(a) IN
    /\ At(t, "producer", "ack")
    /\ acks' = [b \in AckSlot |-> IF b = a /\ ~busy
                                  THEN [state |-> "Pending", sequence |-> 0] ELSE acks[b]]
    /\ \/ /\ busy
          /\ GoWith(t, <<"producer", "unclaim">>,
                    [local[t] EXCEPT !.then = RefusedLabel(t, "producer")])
          /\ UNCHANGED <<slots, lease>>
       \/ /\ ~busy /\ nextSequence = 0
          /\ GoWith(t, <<"producer", "unack">>,
                    [local[t] EXCEPT !.then = <<"error", "claim">>,
                                     !.raised = "CommandSequenceExhausted"])
          /\ UNCHANGED <<slots, lease>>
       \/ /\ ~busy /\ nextSequence # 0
          /\ slots' = [slots EXCEPT ![i].sequence = 0, ![i].ack = a]
          /\ lease' = [lease EXCEPT !["producer"] = "held"]
          /\ Finish(t)
    /\ UNCHANGED <<lifecycle, position, nextSequence, finalised, ownerVars, errorVars,
                   awaited, moved>>

\* Undo, in the order of the code: acknowledgement slot, command slot, lease.
FreeAck(t) ==
    /\ At(t, "producer", "unack")
    /\ acks' = [a \in AckSlot |-> IF a = local[t].ack
                                  THEN [acks[a] EXCEPT !.state = "Free"] ELSE acks[a]]
    /\ Go(t, "producer", "unclaim")
    /\ UNCHANGED <<lifecycle, slots, position, nextSequence, finalised, ownerVars, errorVars,
                   clientVars, moved>>

SlotKept(t) == At(t, "producer", "unclaim") /\ Go(t, "producer", "lower") /\ OnlyReads
FreeSlot(t) ==
    /\ At(t, "producer", "unclaim")
    /\ SetSlot(SlotOf("producer"), "Free")
    /\ Go(t, "producer", "lower")
    /\ UNCHANGED clientVars

\* wait_begin_produce() between two tries.
ProduceRefused(t) ==
    /\ At(t, "producer", "refused")
    /\ IF lifecycle = "Running" THEN Go(t, "producer", "sleep") ELSE Finish(t)
    /\ OnlyReads

SequenceAfter == IF nextSequence = MaxSequence THEN 0 ELSE nextSequence + 1

\* publish(): the sequence is assigned and the slot made Ready.  Nothing looks
\* at the lifecycle again.
Publish(t) ==
    LET i == SlotOf("producer")
        a == slots[i].ack IN
    /\ Idle(t) /\ t = boundThread["producer"]
    /\ lease["producer"] = "held"
    /\ lease' = [lease EXCEPT !["producer"] = "none"]
    /\ slots' = [slots EXCEPT ![i].state = "Ready", ![i].sequence = nextSequence]
    /\ acks' = [b \in AckSlot |-> IF b = a THEN [acks[b] EXCEPT !.sequence = nextSequence]
                                           ELSE acks[b]]
    /\ awaited' = [b \in AckSlot |-> IF b = a THEN nextSequence ELSE awaited[b]]
    /\ nextSequence' = SequenceAfter
    /\ Go(t, "producer", "advance")
    /\ UNCHANGED <<lifecycle, position, finalised, ownerVars, errorVars, moved>>

\* abort(), or the destructor of the lease.
Abort(t) ==
    /\ Idle(t) /\ t = boundThread["producer"]
    /\ lease["producer"] = "held"
    /\ lease' = [lease EXCEPT !["producer"] = "none"]
    /\ GoWith(t, <<"producer", "unack">>,
              [NoLocals EXCEPT !.then = NotifyLabel, !.ack = slots[SlotOf("producer")].ack])
    /\ UNCHANGED <<lifecycle, queueVars, ownerVars, errorVars, awaited, moved>>

Produce(t) ==
    \/ ProduceLifecycle(t) \/ RejectCommand(t) \/ ClaimSlot(t) \/ ReservePayload(t)
    \/ ReserveAck(t) \/ FreeAck(t) \/ FreeSlot(t) \/ ProduceRefused(t)

-----------------------------------------------------------------------------
(* try_begin_consume_impl() past the lease, and the ends of a read lease.    *)

ExamineSlot(t) ==
    LET state == slots[SlotOf("consumer")].state IN
    /\ At(t, "consumer", "slot")
    /\ IF state \in {"Ready", "Cancelled"}
          THEN GoWith(t, <<"consumer", "claim">>, [local[t] EXCEPT !.seen = state])
          ELSE LowerThen(t, "consumer", <<"consumer", "draining">>)
    /\ OnlyReads

\* An empty queue that drains is stopped, by a plain store.
SeesDraining(t) ==
    /\ At(t, "consumer", "draining")
    /\ IF lifecycle = "Draining" THEN Go(t, "consumer", "drained")
                                 ELSE Refuse(t, "consumer")
    /\ OnlyReads

DrainedUnseen(t) ==
    At(t, "consumer", "drained") /\ Go(t, "consumer", "stop") /\ OnlyReads
SeesDrained(t) ==
    /\ At(t, "consumer", "drained")
    /\ IF position["consumer"] = position["producer"] THEN Go(t, "consumer", "stop")
                                                      ELSE Refuse(t, "consumer")
    /\ OnlyReads

Stop(t) ==
    /\ At(t, "consumer", "stop")
    /\ lifecycle' = "Stopped"
    /\ Go(t, "consumer", "stopped")
    /\ UNCHANGED <<queueVars, ownerVars, errorVars, clientVars, moved>>

StopNotify(t) == At(t, "consumer", "stopped") /\ NotifyAll /\ Refuse(t, "consumer")

\* The slot may have been cancelled since it was examined.
ClaimCommand(t) ==
    LET i == SlotOf("consumer") IN
    /\ At(t, "consumer", "claim")
    /\ IF slots[i].state = local[t].seen
          THEN /\ SetSlot(i, "Reading")
               /\ lease' = [lease EXCEPT !["consumer"] =
                                IF local[t].seen = "Cancelled" THEN "cancelled" ELSE "held"]
               /\ UNCHANGED awaited
               /\ Finish(t)
          ELSE LowerThen(t, "consumer", RefusedLabel(t, "consumer")) /\ OnlyReads

\* wait_begin_consume() between two tries; a closed queue ends the consumer.
ConsumeRefused(t) ==
    /\ At(t, "consumer", "refused")
    /\ Go(t, IF lifecycle = "Stopped" THEN "client" ELSE "consumer",
             CASE lifecycle = "Stopped" -> "closed"
               [] lifecycle = "Failed" -> "positions"
               [] OTHER -> "sleep")
    /\ OnlyReads

ConsumePositions(t) ==
    /\ At(t, "consumer", "positions")
    /\ IF position["consumer"] >= position["producer"] THEN Go(t, "client", "closed")
                                                       ELSE Go(t, "consumer", "sleep")
    /\ OnlyReads

\* complete(), cancel() or fail(); a cancelled command is never completed.
FinishLease(t, status) ==
    /\ Idle(t) /\ t = boundThread["consumer"]
    /\ lease["consumer"] # "none"
    /\ lease["consumer"] = "cancelled" => status # "Completed"
    /\ lease' = [lease EXCEPT !["consumer"] = "none"]
    /\ GoWith(t, <<"consumer", "finalize">>, [NoLocals EXCEPT !.seen = status])
    /\ UNCHANGED <<lifecycle, queueVars, ownerVars, errorVars, awaited, moved>>

\* A result that is too big or has no status, and a lease that is destroyed.
BadFinish(t) ==
    /\ ClientErrors
    /\ Idle(t) /\ t = boundThread["consumer"]
    /\ lease["consumer"] # "none"
    /\ lease' = [lease EXCEPT !["consumer"] = "none"]
    /\ GoWith(t, <<"error", "claim">>,
              [NoLocals EXCEPT !.seen = "Failed", !.raised = "ClientError",
                               !.ret = <<"consumer", "finalize">>])
    /\ UNCHANGED <<lifecycle, queueVars, ownerVars, errorVars, awaited, moved>>

\* finalize_consumer(): acknowledgement and accounts, slot, position, lease.
Finalize(t) ==
    LET i == SlotOf("consumer")
        a == slots[i].ack IN
    /\ At(t, "consumer", "finalize")
    /\ acks' = [b \in AckSlot |->
                  IF b = a THEN [state |-> local[t].seen, sequence |-> slots[i].sequence]
                           ELSE acks[b]]
    /\ finalised' = finalised + 1
    /\ GoWith(t, <<"consumer", "release">>, NoLocals)
    /\ UNCHANGED <<lifecycle, slots, position, nextSequence, ownerVars, errorVars,
                   clientVars, moved>>

ReleaseSlot(t) ==
    /\ At(t, "consumer", "release")
    /\ SetSlot(SlotOf("consumer"), "Free")
    /\ Go(t, "consumer", "advance")
    /\ UNCHANGED clientVars

Consume(t) ==
    \/ ExamineSlot(t) \/ SeesDraining(t) \/ SeesDrained(t) \/ Stop(t) \/ StopNotify(t)
    \/ ClaimCommand(t) \/ ConsumeRefused(t) \/ ConsumePositions(t)
    \/ Finalize(t) \/ ReleaseSlot(t)

-----------------------------------------------------------------------------
(* try_read_ack() and wait_read_ack(): the epoch, the acknowledgement, and,  *)
(* once woken, the lifecycle.                                               *)

BeginReadAck(t, a, wait) ==
    /\ Idle(t) /\ t \in Callers["producer"]
    /\ awaited[a] # 0
    /\ lease["producer"] = "none" \/ ClientErrors
    /\ GoWith(t, <<"ack", "bind">>, [NoLocals EXCEPT !.wait = wait, !.ack = a])
    /\ OnlyReads

AckBind(t) == At(t, "ack", "bind") /\ BindThread(t, "producer", <<"ack", "epoch">>)

AckEpoch(t) == At(t, "ack", "epoch") /\ LoadEpoch(t) /\ Go(t, "ack", "state")

\* Only this thread frees the slot, so its compare-exchange joins the load.
AckRead(t) ==
    LET a == local[t].ack IN
    /\ At(t, "ack", "state")
    /\ IF acks[a].state \in Status /\ acks[a].sequence = awaited[a]
          THEN /\ acks' = [acks EXCEPT ![a].state = "Free"]
               /\ awaited' = [awaited EXCEPT ![a] = 0]
               /\ GoWith(t, NotifyLabel, local[t])
          ELSE /\ IF local[t].wait /\ acks[a].state \notin Status
                     THEN Go(t, "ack", "sleep") ELSE Finish(t)
               /\ UNCHANGED <<acks, awaited>>
    /\ UNCHANGED <<lifecycle, slots, position, nextSequence, finalised, ownerVars, errorVars,
                   lease, moved>>

AckWake(t) == At(t, "ack", "sleep") /\ moved[t] /\ Go(t, "ack", "lifecycle") /\ OnlyReads

\* The reader gives up, and its client forgets the command.
GiveUp(t) ==
    /\ awaited' = [awaited EXCEPT ![local[t].ack] = 0]
    /\ Finish(t)
    /\ UNCHANGED <<lifecycle, queueVars, ownerVars, errorVars, lease, moved>>

AckLifecycle(t) ==
    /\ At(t, "ack", "lifecycle")
    /\ IF lifecycle = "Stopped" THEN GiveUp(t)
       ELSE /\ Go(t, "ack", IF lifecycle = "Failed" THEN "positions" ELSE "epoch")
            /\ OnlyReads

AckPositions(t) ==
    /\ At(t, "ack", "positions")
    /\ IF position["consumer"] >= position["producer"] THEN GiveUp(t)
       ELSE Go(t, "ack", "epoch") /\ OnlyReads

ReadAck(t) ==
    \/ AckBind(t) \/ AckEpoch(t) \/ AckRead(t) \/ AckWake(t)
    \/ AckLifecycle(t) \/ AckPositions(t)

-----------------------------------------------------------------------------
(* request_shutdown(), notify_consumer_event() and fail_terminal().          *)

\* Either client may call it, also with a lease in hand: the guest thread when a
\* facade ends, the audio thread when a command it executes fails to set one up.
RequestShutdown(t) ==
    /\ Idle(t) /\ t \in ShutdownCallers
    /\ lifecycle' = IF lifecycle = "Running" THEN "Draining" ELSE lifecycle
    /\ GoWith(t, NotifyLabel, NoLocals)
    /\ UNCHANGED <<queueVars, ownerVars, errorVars, clientVars, moved>>

NotifyConsumerEvent(t) == Idle(t) /\ t \in ShutdownCallers /\ NotifyAll
                              /\ UNCHANGED <<pc, local>>

FailTerminal(t) ==
    /\ ClientErrors
    /\ Idle(t) /\ t \in Callers["consumer"]
    /\ IF boundThread["consumer"] \in {NoThread, t}
          THEN /\ boundThread' = [boundThread EXCEPT !["consumer"] = t]
               /\ Raise(t, "ClientError", IdleLabel)
          ELSE UNCHANGED boundThread /\ Raise(t, "ConsumerThreadViolation", IdleLabel)
    /\ UNCHANGED <<lifecycle, queueVars, leaseActive, errorVars, clientVars, moved>>

-----------------------------------------------------------------------------

\* The client's choices, and the steps of a call that has begun.
Client(t) ==
    \/ \E wait \in BOOLEAN :
        \/ \E a \in AckSlot \cup {NoAck} : BeginProduce(t, a, wait)
        \/ BeginConsume(t, wait)
        \/ \E a \in AckSlot : BeginReadAck(t, a, wait)
    \/ Publish(t) \/ Abort(t)
    \/ \E status \in Result : FinishLease(t, status)
    \/ BadFinish(t) \/ RequestShutdown(t) \/ NotifyConsumerEvent(t) \/ FailTerminal(t)

Inner(t) == BothSides(t) \/ Produce(t) \/ Consume(t) \/ ReadAck(t) \/ PublishError(t)

Next == \E t \in Thread : Client(t) \/ Inner(t)

Spec == Init /\ [][Next]_vars

\* A thread inside a call keeps running, a lease object is ended sooner or later,
\* and the audio thread loops on the consumer side until it is told to stop; the
\* last two are strong, because either thread may make other calls in between.
Fairness ==
    /\ \A t \in Thread : WF_vars(Inner(t))
    /\ \A t \in Callers["producer"] : SF_vars(Publish(t) \/ Abort(t))
    /\ \A t \in Callers["consumer"] :
        /\ SF_vars(\E status \in Result : FinishLease(t, status))
        /\ SF_vars(\E wait \in BOOLEAN : BeginConsume(t, wait))

FairSpec == Spec /\ Fairness

-----------------------------------------------------------------------------
(* Properties.                                                              *)

\* Every variable stays in its type; positions and accounts within 64 bits.
TypeOK ==
    /\ lifecycle \in Lifecycle
    /\ slots \in [Slot -> [state : SlotState, sequence : Position,
                           ack : AckSlot \cup {NoAck}]]
    /\ acks \in [AckSlot -> [state : AckState, sequence : Position]]
    /\ position \in [Side -> Position]
    /\ nextSequence \in Position
    /\ finalised \in Position
    /\ leaseActive \in [Side -> BOOLEAN]
    /\ boundThread \in [Side -> Thread \cup {NoThread}]
    /\ errorClaimed \in BOOLEAN /\ errorPublished \in BOOLEAN
    /\ firstError \in Error
    /\ lease \in [Side -> {"none", "held", "cancelled"}]
    /\ awaited \in [AckSlot -> Position]
    /\ moved \in [Thread -> BOOLEAN]

\* A slot is Writing exactly while the producer fills or gives back a lease, and
\* Reading exactly while the consumer has one: neither side ever works on a slot
\* of the other, and no refused, aborted, abandoned or failed lease leaks one.
SlotOwnership ==
    /\ {i \in Slot : slots[i].state = "Writing"} =
           IF \/ lease["producer"] = "held"
              \/ \E t \in Thread, step \in {"ring", "ack", "unack", "unclaim"} :
                    At(t, "producer", step)
           THEN {SlotOf("producer")} ELSE {}
    /\ {i \in Slot : slots[i].state = "Reading"} =
           IF \/ lease["consumer"] # "none"
              \/ \E t \in Thread : \/ local[t].ret = <<"consumer", "finalize">>
                                      /\ pc[t][1] = "error"
                                   \/ At(t, "consumer", "finalize")
                                   \/ At(t, "consumer", "release")
           THEN {SlotOf("consumer")} ELSE {}

\* What a client awaits in an acknowledgement slot is answered there, under its
\* own sequence number, from the moment the command is finalised and not before:
\* no two commands ever share the slot and no answer is overwritten.
AckAnswersItsCommand ==
    \A a \in AckSlot : awaited[a] # 0 =>
        /\ acks[a].sequence = awaited[a]
        /\ acks[a].state \in Status <=> awaited[a] <= finalised
        /\ acks[a].state # "Free"

\* A command is in the channel once the producer's position has passed it, or the
\* consumer has taken it, which may come first.
Taken == IF slots[SlotOf("consumer")].state = "Reading" THEN position["consumer"] + 1
                                                        ELSE position["consumer"]
Submitted == Max({position["producer"], Taken, finalised})

\* The producer has seen a running queue and has neither submitted nor given up.
Admitted ==
    \/ lease["producer"] = "held"
    \/ \E t \in Thread :
        \/ \E step \in {"lease", "slot", "ring", "ack"} : At(t, "producer", step)
        \/ At(t, "producer", "advance") /\ Submitted = position["producer"]

\* A failure shows once it is stored, and stays: that the consumer's plain store of
\* Stopped may overwrite it makes no difference to a client, who finds the queue
\* closed.  The queue counts as stopped from the test of the two positions on.
ChannelStatus ==
    IF errorPublished /\ \A t \in Thread : ~At(t, "error", "fail") THEN "failed"
    ELSE IF lifecycle = "Stopped" \/ \E t \in Thread : At(t, "consumer", "stop") THEN "stopped"
    ELSE IF lifecycle = "Draining" THEN "closing" ELSE "open"

Channel == INSTANCE CommandChannel WITH
    Capacity <- MaxCommands,
    submitted <- Submitted,
    pending <- [n \in 1 .. Submitted - finalised |->
                    slots[(finalised + n - 1) % MaxCommands].sequence],
    delivered <- finalised,
    status <- ChannelStatus,
    admitted <- Admitted

\* Commands form a bounded FIFO channel: each is finalised at most once and in
\* order.  Whoever shuts the queue down, it stops only when nothing is in it, and
\* after the shutdown request at most one command still enters it: the one the
\* producer was admitted for before.
ImplementsChannel == Channel!ChannelSpec

\* After a worker failure the consumer must "cancel every later ready command":
\* once it has been told that the failed queue is closed, no command is Ready.
NoneLeftReady ==
    lifecycle = "Failed" /\ (\E t \in Thread : At(t, "client", "closed"))
        => \A i \in Slot : slots[i].state # "Ready"

\* A caller asleep in wait_read_ack() on slot a of a queue that the consumer has not
\* found drained.
AwaitsInTime(t, a) ==
    /\ At(t, "ack", "sleep") /\ local[t].ack = a
    /\ lifecycle \in {"Running", "Draining"}
    /\ \A u \in Thread : ~At(u, "consumer", "stop")

\* Such a caller returns, and not because it gave up on a command that nobody has
\* finished: by then the answer has been published, whoever shuts the queue down.
AckArrives ==
    \A t \in Callers["producer"], a \in AckSlot :
        AwaitsInTime(t, a) ~> Idle(t) /\ acks[a].state # "Pending"

\* A producer asleep in wait_begin_produce() returns, with a lease or refused.
ProducerReturns == \A t \in Callers["producer"] : At(t, "producer", "sleep") ~> Idle(t)

\* A shutdown request is answered: the consumer drains and stops the queue, unless
\* it fails first.
DrainEnds == lifecycle = "Draining" ~> lifecycle \in {"Stopped", "Failed"}

=============================================================================
