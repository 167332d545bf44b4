----------------------------- MODULE FrameQueue -----------------------------
(***************************************************************************)
(* katana::runtime::NativePortFrameQueue: the lock-free queue of two frame  *)
(* arenas between the guest thread, which records a frame under a write     *)
(* lease, and the render (or audio) thread, which reads it under a read     *)
(* lease.  Any thread may ask it to shut down, and any thread may find      *)
(* itself reporting the first error.                                        *)
(*                                                                         *)
(* A step is one access to a shared atomic, so that every interleaving of   *)
(* the real threads is a behaviour (the orders the code uses make its       *)
(* atomics sequentially consistent for the patterns it relies on).  Loads   *)
(* of a variable that only the loading thread writes join the step before   *)
(* them.  event_epoch_ is unbounded; all its waiters ask is whether it      *)
(* moved since they loaded it, which is what moved[t] records.  What a      *)
(* frame contains is left out: an append either succeeds, which no one else *)
(* can see, or fails the lease.                                             *)
(***************************************************************************)
EXTENDS Integers, Sequences

CONSTANTS
    Thread,           \* the threads that call the queue
    Callers,          \* Callers[m][s]: those that use side s of it in mode m,
    ShutdownCallers,  \*   call request_shutdown(),
    SnapshotCallers,  \*   or call snapshot()
    Depth,            \* native_port_frame_queue_depth
    MaxFrames,        \* numeric_limits<uint64_t>::max() of the positions
    ClientErrors      \* may a client fail its lease or report an error?

Side == {"producer", "consumer"}
NoThread == "no thread"

ASSUME FrameQueueAssumption ==
    /\ DOMAIN Callers \subseteq {"ParallelSpsc", "SerialReference"}
    /\ \A m \in DOMAIN Callers : Callers[m] \in [Side -> SUBSET Thread]
    /\ ShutdownCallers \subseteq Thread /\ SnapshotCallers \subseteq Thread
    /\ NoThread \notin Thread
    /\ ClientErrors \in BOOLEAN
    /\ Depth \in Nat \ {0} /\ MaxFrames \in Nat

VARIABLES
    threadingMode,  \* config_.threading_mode, chosen with the queue
    lifecycle,      \* lifecycle_
    arenaState,     \* arenas_[i].state
    arenaSequence,  \* arenas_[i].sequence
    position,       \* producer_position_, consumer_position_
    leaseActive,    \* producer_lease_active_, consumer_lease_active_
    boundThread,    \* producer_thread_token_, consumer_thread_token_
    errorClaimed,   \* first_error_claimed_
    errorReady,     \* first_error_ready_
    firstError,     \* first_error_
    lease,          \* sequence of the lease object of each side, 0 for none
    pc,             \* <<call, step>>: where each thread is,
    ret,            \*   where its inner call returns to,
    waiting,        \*   whether the call is a wait_begin_* one,
    held,           \*   the sequence of the lease it finishes,
    raised,         \*   the error it publishes,
    seen,           \*   the position has_consumer_work() has loaded,
    moved,          \* has event_epoch_ moved since the thread loaded it?
    view            \* the snapshot a thread is putting together

arenaVars == <<arenaState, arenaSequence>>
queueVars == <<arenaVars, position, leaseActive, boundThread>>
errorVars == <<errorClaimed, errorReady, firstError>>
locals == <<ret, waiting, held, raised, seen>>
vars == <<lifecycle, queueVars, errorVars, lease, pc, locals, moved, view>>

Lifecycle == {"Disabled", "Running", "Draining", "Stopped", "Failed"}
Closed == {"Disabled", "Stopped", "Failed"}
Error == {"None", "ProducerThreadViolation", "ConsumerThreadViolation",
          "ThreadDomainOverlap", "ProducerLeaseOverlap", "ConsumerLeaseOverlap",
          "SequenceViolation", "ClientError"}
Arena == 0 .. Depth - 1
Position == 0 .. MaxFrames
NoView == [lifecycle |-> "Running", error |-> "None", completed |-> 0,
           submitted |-> 0]

ArenaOf(sequence) == (sequence - 1) % Depth
Other(s) == IF s = "producer" THEN "consumer" ELSE "producer"
ThreadViolation(s) == IF s = "producer" THEN "ProducerThreadViolation"
                                        ELSE "ConsumerThreadViolation"
LeaseOverlap(s) == IF s = "producer" THEN "ProducerLeaseOverlap"
                                     ELSE "ConsumerLeaseOverlap"

Init ==
    /\ threadingMode \in DOMAIN Callers
    /\ lifecycle \in {"Disabled", "Running"}
    /\ arenaState = [a \in Arena |-> "Free"]
    /\ arenaSequence = [a \in Arena |-> 0]
    /\ position = [s \in Side |-> 0]
    /\ leaseActive = [s \in Side |-> FALSE]
    /\ boundThread = [s \in Side |-> NoThread]
    /\ errorClaimed = FALSE /\ errorReady = FALSE /\ firstError = "None"
    /\ lease = [s \in Side |-> 0]
    /\ pc = [t \in Thread |-> <<"client", "idle">>]
    /\ ret = [t \in Thread |-> <<"client", "idle">>]
    /\ waiting = [t \in Thread |-> FALSE]
    /\ held = [t \in Thread |-> 0]
    /\ raised = [t \in Thread |-> "None"]
    /\ seen = [t \in Thread |-> 0]
    /\ moved = [t \in Thread |-> TRUE]
    /\ view = [t \in Thread |-> NoView]

-----------------------------------------------------------------------------
(* Control: jumps, the two inner calls and notify_state_change().           *)

At(t, call, step) == pc[t] = <<call, step>>
Idle(t) == At(t, "client", "idle")

\* On to a step of the same call; the locals of a call end with it.
Go(t, call, step) ==
    /\ pc' = [pc EXCEPT ![t] = <<call, step>>]
    /\ IF step # "idle" THEN UNCHANGED locals
       ELSE /\ ret' = [ret EXCEPT ![t] = <<"client", "idle">>]
            /\ waiting' = [waiting EXCEPT ![t] = FALSE]
            /\ held' = [held EXCEPT ![t] = 0]
            /\ raised' = [raised EXCEPT ![t] = "None"]
            /\ seen' = [seen EXCEPT ![t] = 0]
Finish(t) == Go(t, "client", "idle")
Return(t) == Go(t, ret[t][1], ret[t][2])

\* A try_begin_* without a lease gives control to its wait_begin_* caller, if any.
RefusedLabel(t, s) == IF waiting[t] THEN <<s, "refused">> ELSE <<"client", "idle">>
Refuse(t, s) == Go(t, RefusedLabel(t, s)[1], RefusedLabel(t, s)[2])

\* maybe_publish_stopped(), then on to back.
MaybeStop(t, back) ==
    /\ pc' = [pc EXCEPT ![t] = <<"stop", "draining">>]
    /\ ret' = [ret EXCEPT ![t] = back]
    /\ UNCHANGED <<waiting, held, raised, seen>>

\* publish_error(error, ...), then on to back.
Raise(t, error, back) ==
    /\ pc' = [pc EXCEPT ![t] = <<"error", "claim">>]
    /\ ret' = [ret EXCEPT ![t] = back]
    /\ raised' = [raised EXCEPT ![t] = error]
    /\ UNCHANGED <<waiting, held, seen>>

\* A step that only loads, and decides where the call goes on.
OnlyReads == UNCHANGED <<lifecycle, queueVars, errorVars, lease, moved, view>>

NotifyStateChange ==
    /\ moved' = [u \in Thread |-> TRUE]
    /\ UNCHANGED <<lifecycle, queueVars, errorVars, lease, view>>

LowerLease(s) ==
    /\ leaseActive' = [leaseActive EXCEPT ![s] = FALSE]
    /\ UNCHANGED <<lifecycle, arenaVars, position, boundThread, errorVars, lease,
                   moved, view>>

-----------------------------------------------------------------------------
(* maybe_publish_stopped(): five loads and a compare-exchange, any of which  *)
(* may be separated from the next by steps of the other threads.            *)

StopUnless(t, step, blocked, next) ==
    /\ At(t, "stop", step)
    /\ IF blocked THEN Return(t) ELSE Go(t, "stop", next)
    /\ OnlyReads

StopSeesDraining(t) == StopUnless(t, "draining", lifecycle # "Draining", "producer")
StopSeesNoProducer(t) ==
    StopUnless(t, "producer", leaseActive["producer"], "consumer")
StopSeesNoConsumer(t) ==
    StopUnless(t, "consumer", leaseActive["consumer"], "completed")

\* has_consumer_work() loads the consumer position first.
StopLoadsCompleted(t) ==
    /\ At(t, "stop", "completed")
    /\ pc' = [pc EXCEPT ![t] = <<"stop", "work">>]
    /\ seen' = [seen EXCEPT ![t] = position["consumer"]]
    /\ UNCHANGED <<ret, waiting, held, raised>>
    /\ OnlyReads

StopIgnoresWork(t) == StopUnless(t, "work", FALSE, "publish")
StopSeesNoWork(t) ==
    StopUnless(t, "work", seen[t] < position["producer"], "publish")

StopPublish(t) ==
    /\ At(t, "stop", "publish")
    /\ IF lifecycle = "Draining"
          THEN lifecycle' = "Stopped" /\ Go(t, "stop", "notify")
          ELSE UNCHANGED lifecycle /\ Return(t)
    /\ UNCHANGED <<queueVars, errorVars, lease, moved, view>>

StopNotify(t) == At(t, "stop", "notify") /\ NotifyStateChange /\ Return(t)

MaybePublishStopped(t) ==
    \/ StopSeesDraining(t) \/ StopSeesNoProducer(t) \/ StopSeesNoConsumer(t)
    \/ StopLoadsCompleted(t) \/ StopSeesNoWork(t)
    \/ StopPublish(t) \/ StopNotify(t)

-----------------------------------------------------------------------------
(* publish_error(): the first thread to claim the mailbox fills it; the      *)
(* others wait until it is readable.                                        *)

ErrorClaim(t) ==
    /\ At(t, "error", "claim")
    /\ \/ /\ lifecycle = "Disabled"
          /\ Return(t)
          /\ UNCHANGED errorVars
       \/ /\ lifecycle # "Disabled" /\ ~errorClaimed
          /\ errorClaimed' = TRUE /\ firstError' = raised[t]
          /\ Go(t, "error", "lifecycle")
          /\ UNCHANGED errorReady
       \/ /\ lifecycle # "Disabled" /\ errorClaimed
          /\ Go(t, "error", "wait")
          /\ UNCHANGED errorVars
    /\ UNCHANGED <<lifecycle, queueVars, lease, moved, view>>

ErrorFails(t) ==
    /\ At(t, "error", "lifecycle")
    /\ lifecycle' = "Failed"
    /\ Go(t, "error", "ready")
    /\ UNCHANGED <<queueVars, errorVars, lease, moved, view>>

ErrorReady(t) ==
    /\ At(t, "error", "ready")
    /\ errorReady' = TRUE
    /\ Go(t, "error", "notify")
    /\ UNCHANGED <<lifecycle, queueVars, errorClaimed, firstError, lease, moved, view>>

ErrorNotify(t) == At(t, "error", "notify") /\ NotifyStateChange /\ Return(t)

ErrorWait(t) == At(t, "error", "wait") /\ errorReady /\ Return(t) /\ OnlyReads

PublishError(t) ==
    \/ ErrorClaim(t) \/ ErrorFails(t) \/ ErrorReady(t) \/ ErrorNotify(t)
    \/ ErrorWait(t)

-----------------------------------------------------------------------------
(* try_begin_produce(), wait_begin_produce() and their consumer twins.       *)

HasConsumerWork == position["consumer"] < position["producer"]
CapacityOneTooMany ==
    /\ position["producer"] >= position["consumer"]
    /\ position["producer"] - position["consumer"] <= Depth
HasProducerCapacity ==
    /\ position["producer"] >= position["consumer"]
    /\ position["producer"] - position["consumer"] < Depth
Available(s) == IF s = "producer" THEN HasProducerCapacity ELSE HasConsumerWork

\* A draining queue still admits its consumer.
Admits(s) == IF s = "producer" THEN lifecycle = "Running" ELSE lifecycle \notin Closed

\* A serial client, its own other side, waits only when it cannot block.
Begin(t, s, wait) ==
    /\ Idle(t) /\ t \in Callers[threadingMode][s]
    /\ threadingMode = "SerialReference" /\ wait => Available(s)
    /\ pc' = [pc EXCEPT ![t] = <<s, "lifecycle">>]
    /\ waiting' = [waiting EXCEPT ![t] = wait]
    /\ UNCHANGED <<ret, held, raised, seen>>
    /\ OnlyReads

TryLifecycle(t, s) ==
    /\ At(t, s, "lifecycle")
    /\ IF Admits(s) THEN Go(t, s, "bind") ELSE Refuse(t, s)
    /\ OnlyReads

\* bind_*_thread(): the compare-exchange of the token decides.
Bind(t, s) ==
    /\ At(t, s, "bind")
    /\ IF threadingMode # "SerialReference" /\ boundThread[Other(s)] = t
          THEN Raise(t, "ThreadDomainOverlap", RefusedLabel(t, s)) /\ UNCHANGED boundThread
       ELSE IF boundThread[s] \notin {NoThread, t}
          THEN Raise(t, ThreadViolation(s), RefusedLabel(t, s)) /\ UNCHANGED boundThread
       ELSE /\ boundThread' = [boundThread EXCEPT ![s] = t]
            /\ Go(t, s, IF boundThread[s] = t THEN "lease" ELSE "bound")
    /\ UNCHANGED <<lifecycle, arenaVars, position, leaseActive, errorVars, lease, moved,
                   view>>

Bound(t, s) == At(t, s, "bound") /\ NotifyStateChange /\ Go(t, s, "lease")

TakeLease(t, s) ==
    /\ At(t, s, "lease")
    /\ leaseActive' = [leaseActive EXCEPT ![s] = TRUE]
    /\ IF leaseActive[s] THEN Raise(t, LeaseOverlap(s), RefusedLabel(t, s))
                         ELSE Go(t, s, "recheck")
    /\ UNCHANGED <<lifecycle, arenaVars, position, boundThread, errorVars, lease,
                   moved, view>>

\* The lifecycle is read again now that the lease keeps Stopped away.
Recheck(t, s) ==
    /\ At(t, s, "recheck")
    /\ Go(t, s, IF Admits(s) THEN "examine" ELSE "rollback")
    /\ OnlyReads

\* Only the producer, giving its lease back, sees to a pending stop.
Rollback(t, s) ==
    /\ At(t, s, "rollback")
    /\ LowerLease(s)
    /\ IF s = "producer" THEN MaybeStop(t, RefusedLabel(t, s)) ELSE Refuse(t, s)

Examine(t, s) ==
    /\ At(t, s, "examine")
    /\ Go(t, s, IF ~Available(s) THEN "nothing"
                ELSE IF s = "producer" /\ position[s] = MaxFrames THEN "alarm"
                ELSE "claim")
    /\ OnlyReads

\* A full queue lowers the lease and does nothing else; an empty one may stop.
Nothing(t, s) ==
    /\ At(t, s, "nothing")
    /\ LowerLease(s)
    /\ IF s = "producer" THEN Refuse(t, s) ELSE MaybeStop(t, RefusedLabel(t, s))

\* The producer's compare-exchange, then its plain store of the sequence.
ClaimFree(t) ==
    LET next == position["producer"] + 1 IN
    /\ At(t, "producer", "claim")
    /\ IF arenaState[ArenaOf(next)] = "Free"
          THEN /\ arenaState' = [arenaState EXCEPT ![ArenaOf(next)] = "Writing"]
               /\ arenaSequence' = [arenaSequence EXCEPT ![ArenaOf(next)] = next]
               /\ lease' = [lease EXCEPT !["producer"] = next]
               /\ Finish(t)
          ELSE Go(t, "producer", "alarm") /\ UNCHANGED <<arenaVars, lease>>
    /\ UNCHANGED <<lifecycle, position, leaseActive, boundThread, errorVars, moved,
                   view>>

\* The consumer's moves the arena even when its sequence then disagrees.
ClaimReady(t) ==
    LET next == position["consumer"] + 1 IN
    /\ At(t, "consumer", "claim")
    /\ IF arenaState[ArenaOf(next)] = "Ready"
          THEN arenaState' = [arenaState EXCEPT ![ArenaOf(next)] = "Reading"]
          ELSE UNCHANGED arenaState
    /\ IF arenaState[ArenaOf(next)] = "Ready" /\ arenaSequence[ArenaOf(next)] = next
          THEN lease' = [lease EXCEPT !["consumer"] = next] /\ Finish(t)
          ELSE UNCHANGED lease /\ Go(t, "consumer", "alarm")
    /\ UNCHANGED <<lifecycle, arenaSequence, position, leaseActive, boundThread,
                   errorVars, moved, view>>

Alarm(t, s) ==
    /\ At(t, s, "alarm")
    /\ LowerLease(s)
    /\ Raise(t, "SequenceViolation", RefusedLabel(t, s))

\* wait_begin_*() between two tries.
Refused(t, s) ==
    /\ At(t, s, "refused")
    /\ IF Admits(s) THEN Go(t, s, "epoch") ELSE Finish(t)
    /\ OnlyReads

LoadEpoch(t, s) ==
    /\ At(t, s, "epoch")
    /\ moved' = [moved EXCEPT ![t] = FALSE]
    /\ Go(t, s, "again")
    /\ UNCHANGED <<lifecycle, queueVars, errorVars, lease, view>>

Again(t, s) ==
    /\ At(t, s, "again")
    /\ IF Available(s) THEN Go(t, s, "lifecycle")
       ELSE IF s = "producer" THEN Go(t, s, "sleep")
       ELSE MaybeStop(t, <<s, "stopped">>)
    /\ OnlyReads

Stopped(t) ==
    /\ At(t, "consumer", "stopped")
    /\ IF lifecycle = "Stopped" THEN Finish(t) ELSE Go(t, "consumer", "sleep")
    /\ OnlyReads

\* event_epoch_.wait(epoch) returns once the epoch has moved.
Awake(t, s) == At(t, s, "sleep") /\ moved[t] /\ Go(t, s, "lifecycle") /\ OnlyReads

BeginLease(t) ==
    \/ \E s \in Side :
        \/ TryLifecycle(t, s) \/ Bind(t, s) \/ Bound(t, s) \/ TakeLease(t, s)
        \/ Recheck(t, s) \/ Rollback(t, s) \/ Examine(t, s) \/ Nothing(t, s)
        \/ Alarm(t, s) \/ Refused(t, s) \/ LoadEpoch(t, s) \/ Again(t, s)
        \/ Awake(t, s)
    \/ ClaimFree(t) \/ ClaimReady(t) \/ Stopped(t)

-----------------------------------------------------------------------------
(* The end of a lease: publish(), complete(), abort(), fail(), or the       *)
(* destructor.  A thread other than the bound one has its lease rejected,    *)
(* which is fail_*() with the error of a thread violation.                  *)

\* The calling thread takes the lease object and jumps into the queue.
UseLease(t, s, step, error) ==
    /\ Idle(t) /\ t \in Callers[threadingMode][s]
    /\ lease[s] # 0
    /\ lease' = [lease EXCEPT ![s] = 0]
    /\ held' = [held EXCEPT ![t] = lease[s]]
    /\ raised' = [raised EXCEPT ![t] =
                    IF boundThread[s] = t THEN error ELSE ThreadViolation(s)]
    /\ pc' = [pc EXCEPT ![t] = <<s, IF boundThread[s] = t THEN step ELSE "fail">>]
    /\ UNCHANGED <<lifecycle, queueVars, errorVars, ret, waiting, seen, moved, view>>

\* publish() or complete(), a failing append, and what the destructor does.
Commit(t, s) == UseLease(t, s, "check", "SequenceViolation")
FailLease(t, s) == ClientErrors /\ UseLease(t, s, "fail", "ClientError")
Abort(t) == UseLease(t, "producer", "abort", "None")

\* The arena of the lease t finishes is still in the state the lease gave it.
StillIn(t, state) ==
    /\ arenaSequence[ArenaOf(held[t])] = held[t]
    /\ arenaState[ArenaOf(held[t])] = state

\* A frame recorded while the queue left Running is not published.
CommitCheck(t, s) ==
    /\ At(t, s, "check")
    /\ Go(t, s, IF leaseActive[s] /\ held[t] = position[s] + 1
                   /\ IF s = "producer" THEN lifecycle = "Running" /\ StillIn(t, "Writing")
                                        ELSE StillIn(t, "Reading")
                THEN "commit" ELSE IF s = "producer" THEN "abort" ELSE "fail")
    /\ OnlyReads

SetArena(t, state) ==
    /\ arenaState' = [arenaState EXCEPT ![ArenaOf(held[t])] = state]
    /\ UNCHANGED <<lifecycle, arenaSequence, position, leaseActive, boundThread,
                   errorVars, lease, moved, view>>

FreeArena(t, s) ==
    IF StillIn(t, IF s = "producer" THEN "Writing" ELSE "Reading")
    THEN SetArena(t, "Free") ELSE OnlyReads

CommitArena(t, s) ==
    /\ At(t, s, "commit")
    /\ SetArena(t, IF s = "producer" THEN "Ready" ELSE "Free")
    /\ Go(t, s, "lower")

CommitLower(t, s) == At(t, s, "lower") /\ LowerLease(s) /\ Go(t, s, "position")

CommitPosition(t, s) ==
    /\ At(t, s, "position")
    /\ position' = [position EXCEPT ![s] = held[t]]
    /\ IF s = "producer" THEN Go(t, "client", "notify")
                         ELSE MaybeStop(t, <<"client", "notify">>)
    /\ UNCHANGED <<lifecycle, arenaVars, leaseActive, boundThread, errorVars, lease,
                   moved, view>>

AbortKeepsArena(t) ==
    /\ At(t, "producer", "abort")
    /\ Go(t, "producer", "aborted")
    /\ OnlyReads
AbortArena(t) ==
    /\ At(t, "producer", "abort")
    /\ FreeArena(t, "producer")
    /\ Go(t, "producer", "aborted")

AbortWithoutStop(t) == At(t, "producer", "aborted") /\ LowerLease("producer") /\ Finish(t)
AbortLower(t) ==
    /\ At(t, "producer", "aborted")
    /\ LowerLease("producer")
    /\ MaybeStop(t, <<"client", "notify">>)

FailArena(t, s) == At(t, s, "fail") /\ FreeArena(t, s) /\ Go(t, s, "failed")

FailLower(t, s) ==
    /\ At(t, s, "failed")
    /\ LowerLease(s)
    /\ Raise(t, raised[t], <<"client", "idle">>)

\* The notify_state_change() that ends publish, abort, complete and shutdown.
FinalSilent(t) == At(t, "client", "notify") /\ Finish(t) /\ OnlyReads
FinalNotify(t) == At(t, "client", "notify") /\ NotifyStateChange /\ Finish(t)

EndLease(t) ==
    \/ \E s \in Side :
        \/ CommitCheck(t, s) \/ CommitArena(t, s) \/ CommitLower(t, s)
        \/ CommitPosition(t, s) \/ FailArena(t, s) \/ FailLower(t, s)
    \/ AbortArena(t) \/ AbortLower(t) \/ FinalNotify(t)

-----------------------------------------------------------------------------
(* request_shutdown(), report_producer_error(), report_consumer_error().     *)

\* The compare-exchange loop ends in Draining or finds the queue past Running.
RequestShutdown(t) ==
    /\ Idle(t) /\ t \in ShutdownCallers
    /\ lifecycle \in {"Running", "Draining"}
    /\ lifecycle' = "Draining"
    /\ MaybeStop(t, <<"client", "notify">>)
    /\ UNCHANGED <<queueVars, errorVars, lease, moved, view>>

ReportError(t) ==
    /\ ClientErrors
    /\ Idle(t) /\ \E s \in Side : t \in Callers[threadingMode][s]
    /\ Raise(t, "ClientError", <<"client", "idle">>)
    /\ OnlyReads

-----------------------------------------------------------------------------
(* snapshot() loads one field after the other and starts over when the epoch *)
(* moved meanwhile.                                                         *)

Observe(t, step, next, field, value) ==
    /\ At(t, "snapshot", step)
    /\ view' = [view EXCEPT ![t] = [view[t] EXCEPT ![field] = value]]
    /\ Go(t, "snapshot", next)
    /\ UNCHANGED <<lifecycle, queueVars, errorVars, lease, moved>>

TakeSnapshot(t) ==
    Idle(t) /\ t \in SnapshotCallers /\ Go(t, "snapshot", "epoch") /\ OnlyReads

SnapshotEpoch(t) ==
    /\ At(t, "snapshot", "epoch")
    /\ moved' = [moved EXCEPT ![t] = FALSE]
    /\ view' = [view EXCEPT ![t] = NoView]
    /\ Go(t, "snapshot", "lifecycle")
    /\ UNCHANGED <<lifecycle, queueVars, errorVars, lease>>

SnapshotLifecycle(t) == Observe(t, "lifecycle", "claimed", "lifecycle", lifecycle)

SnapshotClaimed(t) ==
    /\ At(t, "snapshot", "claimed")
    /\ Go(t, "snapshot", IF errorClaimed THEN "ready" ELSE "completed")
    /\ OnlyReads

\* A claimed error that is not readable yet is waited for, then all is redone.
SnapshotReady(t) ==
    /\ At(t, "snapshot", "ready")
    /\ Go(t, "snapshot", IF errorReady THEN "error" ELSE "wait")
    /\ OnlyReads

SnapshotWait(t) ==
    At(t, "snapshot", "wait") /\ errorReady /\ Go(t, "snapshot", "epoch") /\ OnlyReads

SnapshotError(t) == Observe(t, "error", "again", "error", firstError)
SnapshotKeepsLifecycle(t) ==
    Observe(t, "again", "completed", "lifecycle", view[t].lifecycle)
SnapshotLifecycleAgain(t) == Observe(t, "again", "completed", "lifecycle", lifecycle)
SnapshotCompleted(t) ==
    Observe(t, "completed", "submitted", "completed", position["consumer"])
SnapshotSubmitted(t) ==
    Observe(t, "submitted", "verify", "submitted", position["producer"])

\* queue_full_rejections_, checked like the epoch, may start it over as well.
SnapshotVerify(t) ==
    /\ At(t, "snapshot", "verify")
    /\ \/ /\ ~moved[t] /\ view[t].completed <= view[t].submitted
          /\ Go(t, "snapshot", "return")
       \/ Go(t, "snapshot", "epoch")
    /\ OnlyReads

SnapshotReturn(t) ==
    /\ At(t, "snapshot", "return")
    /\ view' = [view EXCEPT ![t] = NoView]
    /\ Finish(t)
    /\ UNCHANGED <<lifecycle, queueVars, errorVars, lease, moved>>

Snapshot(t) ==
    \/ SnapshotEpoch(t) \/ SnapshotLifecycle(t) \/ SnapshotClaimed(t)
    \/ SnapshotReady(t) \/ SnapshotWait(t) \/ SnapshotError(t)
    \/ SnapshotLifecycleAgain(t) \/ SnapshotCompleted(t) \/ SnapshotSubmitted(t)
    \/ SnapshotVerify(t) \/ SnapshotReturn(t)

-----------------------------------------------------------------------------

\* The client's choices, and the steps of a call that has begun.
Client(t) ==
    \/ \E s \in Side :
        \/ \E wait \in BOOLEAN : Begin(t, s, wait)
        \/ Commit(t, s) \/ FailLease(t, s)
    \/ Abort(t) \/ RequestShutdown(t) \/ ReportError(t) \/ TakeSnapshot(t)

Inner(t) ==
    \/ BeginLease(t) \/ EndLease(t) \/ MaybePublishStopped(t) \/ PublishError(t)
    \/ Snapshot(t)

Next == UNCHANGED threadingMode /\ \E t \in Thread : Client(t) \/ Inner(t)

Spec == Init /\ [][Next]_<<threadingMode, vars>>

\* A thread inside a call keeps running, a lease object does not live forever
\* (its destructor ends it), and the consumer thread loops on the consumer side.
Fairness ==
    \A t \in Thread :
        /\ WF_vars(Inner(t))
        /\ SF_vars(Commit(t, "producer") \/ Abort(t))
        /\ SF_vars(Commit(t, "consumer") \/ FailLease(t, "consumer"))
        /\ SF_vars(lease["consumer"] = 0 /\ Begin(t, "consumer", TRUE))

FairSpec == Spec /\ Fairness

-----------------------------------------------------------------------------
(* Properties.                                                              *)

\* Every variable stays in its type; positions stay within 64 bits.
TypeOK ==
    /\ lifecycle \in Lifecycle
    /\ arenaState \in [Arena -> {"Free", "Writing", "Ready", "Reading"}]
    /\ arenaSequence \in [Arena -> Position]
    /\ position \in [Side -> Position]
    /\ leaseActive \in [Side -> BOOLEAN]
    /\ boundThread \in [Side -> Thread \cup {NoThread}]
    /\ errorClaimed \in BOOLEAN /\ errorReady \in BOOLEAN
    /\ firstError \in Error
    /\ lease \in [Side -> Position]
    /\ waiting \in [Thread -> BOOLEAN] /\ moved \in [Thread -> BOOLEAN]
    /\ held \in [Thread -> Position] /\ seen \in [Thread -> Position]
    /\ raised \in [Thread -> Error]

\* The sequences of the leases of side s whose holder may still touch the arena.
InArena(s) ==
    ({lease[s]} \cup {held[t] : t \in {u \in Thread :
        \E step \in {"check", "commit", "abort", "fail"} : At(u, s, step)}}) \ {0}

\* An arena is in state Writing exactly while one write lease may touch it and
\* Reading exactly while one read lease may: the two never share an arena, and
\* no abort, failure or rejection of a foreign thread leaks one.
ArenaOwnership ==
    \A a \in Arena :
        /\ arenaState[a] = "Writing" <=> arenaSequence[a] \in InArena("producer")
        /\ arenaState[a] = "Reading" <=> arenaSequence[a] \in InArena("consumer")
        /\ \A n \in InArena("producer") \cup InArena("consumer") :
                ArenaOf(n) = a => arenaSequence[a] = n

\* SequenceViolation is the queue's own consistency alarm.  It sounds only when
\* the 64-bit positions are used up, never because two threads interleaved.
NoFalseAlarm ==
    firstError = "SequenceViolation" => position["producer"] = MaxFrames

\* "Shutdown weckte leeren Consumer nicht deterministisch" must not happen: when
\* every other thread is done, no consumer sleeps on in a drained queue that was
\* asked to shut down.
SleeperIsStopped ==
    \A t \in Thread :
        (/\ At(t, "consumer", "sleep") /\ ~moved[t]
         /\ \A u \in Thread \ {t} : Idle(u)
         /\ position["producer"] = position["consumer"] /\ lease["producer"] = 0)
            => lifecycle # "Draining"

\* The frames between the two positions are the abstract channel's content, so
\* the queue is a FIFO channel that loses, duplicates and reorders nothing.
Channel == INSTANCE FrameChannel WITH
    Capacity <- Depth,
    submitted <- position["producer"],
    pending <- [i \in 1 .. position["producer"] - position["consumer"] |->
                    arenaSequence[ArenaOf(position["consumer"] + i)]],
    delivered <- position["consumer"],
    status <- CASE lifecycle = "Stopped" -> "stopped"
                [] lifecycle = "Failed" -> "failed"
                [] OTHER -> "open"

ImplementsChannel == Channel!ChannelSpec

\* A snapshot "can never expose a completed error mailbox with a pre-error
\* lifecycle", nor Failed without its error, nor more completed than submitted.
SnapshotCoherent ==
    \A t \in Thread : At(t, "snapshot", "return") =>
        /\ view[t].completed <= view[t].submitted
        /\ view[t].error # "None" <=> view[t].lifecycle = "Failed"

\* A shutdown request is answered: draining ends in Stopped (or a failure).
DrainEnds == lifecycle = "Draining" ~> lifecycle \in {"Stopped", "Failed"}

\* A published frame is consumed, unless the queue fails first.
FramesDelivered ==
    \A n \in 1 .. MaxFrames :
        position["producer"] >= n ~> (position["consumer"] >= n \/ lifecycle = "Failed")

\* A producer asleep in wait_begin_produce() is always woken.
ProducerWoken ==
    \A t \in Thread : At(t, "producer", "sleep") ~> ~At(t, "producer", "sleep")

=============================================================================
