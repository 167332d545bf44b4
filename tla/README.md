# Verification of KatanaRecomp

KatanaRecomp translates Dreamcast (SH-4) programs ahead of time into native PC
programs. This directory holds TLA+ models of the parts of its runtime whose
correctness depends on the order in which things happen, the TLC runs that check
them on small instances, and TLAPS proofs that hold for every instance.

## 1. The system

| Part | Lines | What it is | State here |
|---|---|---|---|
| `src/src/runtime`, `src/include/katana/runtime` | 136,000 | what a translated program links against | core modelled |
| `src/src/analysis`, `src/include/katana/analysis` | 88,000 | abstract interpretation of SH-4 code | its work executor modelled |
| `src/src/codegen`, `cli`, `app`, `agent`, `gui` | 111,000 | emission, export, caches, user interfaces | the interrupt and chaining code it emits modelled |
| `src/src/ir`, `decoder`, `io`, `platform`, `testing`, `phase9` | 16,000 | intermediate code, formats, tables, test drivers | not modelled |

Within the runtime the parts that carry state over many steps are:

* **Time.** `EventScheduler` is the one guest clock and event queue. The media
  clock, the timers, both DMA engines, the optical drive, the Maple bus and AICA plan
  their completions on it and register reset observers; `SchedulerSafepoints`
  advances it from interpreted code; `HostRuntimeSession` starts, pauses and ends it
  all, and `HostPacer` ties it to host time.
* **Interrupts.** The system ASIC, the router and `InterruptController` carry what
  devices report to the CPU. Every stage is cached, and chains of compiled blocks skip
  the safepoints at which the CPU would look.
* **Threads.** In a native port the guest thread hands frames to a render thread
  through `NativePortFrameQueue` and commands to an audio thread through
  `NativePortAudioCommandQueue`, which the audio execution domain drives. Lanes of
  data-parallel work go through `RuntimeParallelExecutor`. The analysis, before there
  is a port, runs on the `ParallelWorkExecutor` of `analysis/parallel_work.hpp`.
* **Storage.** `PersistentImage` keeps flash and VMU in files that must survive a
  crash; `DreamcastMutableStorage` pairs two of them; the native save provider keeps
  volumes with generations.
* **Code.** The block registry, the invalidation of written code and the caches of
  indirect dispatch agree through generations.
* **Everything else**: memory and instruction semantics, rendering, sound synthesis,
  decoding, formats, reports.

`PROJECT.json` lists every part with its status and, if it is not modelled, the
reason, and the hazards of the code at the lines where they bite.

## 2. Modules

| Module | Models | Kind |
|---|---|---|
| `EventScheduler` | `scheduler.cpp`, `scheduler.hpp` | component |
| `EventSchedulerProofs` | | theorems about it |
| `MediaClock` | `media_clock.cpp`, on top of `EventScheduler` | component |
| `HostSession` | `host_runtime.cpp` (session, pacer), `scheduler_safepoint.cpp`, the manual reset | composition with `MediaClock` |
| `HostSessionProofs` | | theorems about both |
| `InterruptPath` | `interrupt.cpp`, `platform_interrupt.cpp`, `system_asic.cpp`, polling and chaining in `port_export.cpp` | component |
| `MCInterruptPath` | | the instance of its run |
| `InterruptDelivery` | what the interrupt path promises | abstract specification |
| `InterruptPathProofs` | | theorems about it |
| `AnalysisExecutor` | `analysis/parallel_work.hpp` | component |
| `MCAnalysisExecutor` | | the instance of its run |
| `FrameQueue` | `native_port_frame_queue.cpp`, `.hpp` | component |
| `MCFrameQueue` | | which thread does what in the runs |
| `FrameQueueInvariant` | | its inductive invariant, and the steps that move no frame |
| `FrameQueueProofs` | | the other steps, and the ownership of arenas |
| `FrameQueueChannelProofs` | | snapshots, and the refinement of `FrameChannel` |
| `AudioCommandQueue` | `native_port_audio_command_queue.cpp`, `.hpp` | component |
| `MCAudioCommandQueue` | | which thread does what in the runs |
| `AudioPayloadRing` | the payload slab of the same files | component |
| `AudioPayloadRingProofs` | | theorems about it |
| `FrameChannel`, `CommandChannel` | what the two queues promise | abstract specifications |
| `PersistentImage` | `persistent_storage.cpp`, `.hpp` | component |
| `PersistentImageProofs` | | theorems about it |

Every variable carries, in the comment beside it, the member or local of the code it
stands for; `PROJECT.json` maps every definition to its lines. A definition whose name
suggests an error (`StopIgnoresWork`, `SkipsSync`, `FinalSilent`, ...) directly in
front of the one it resembles is a deliberately wrong variant. No specification uses
it; replacing the right one by it shows that a property can fail.

### EventScheduler

One step is an API call, one turn of the loop of `advance_to()`, the return or the
exception of a callback, or one call of a reset observer. While `pc` is `"callback"`
the client calls that the code accepts from a callback are enabled too: that is the
reentrancy. `events` and `eventKeys` are the two indexes `events_` and `event_keys_`.
A call that throws before it changes anything is not a step. A
`PreparedPassiveRestore` is an object that outlives the call that made it, so that it
can become stale; committing a stale one ends in `std::terminate`, which is the state
`"terminated"`.

### MediaClock and HostSession

`MediaClock` extends the scheduler: each cadence is one pending scheduler event, and
its handler runs where the scheduler calls back. `clockPc` says where `start()` or a
handler is; `"idle"` inside a callback means that the client's callback runs, which may
start, stop or reset the clock that calls it, and may throw. `generation_` is only
compared with the value a handler captured, so `fresh` and `sameRun` keep the outcome.
The arithmetic of `make_cadence` and `advance_deadline` is modelled as it is.

`HostSession` adds what drives the clock: `consume_loop()` chunk by chunk, the session
with `inject()` and `shutdown()`, the guest-cycle side of the pacer, one other device,
a guest-cycle budget, and the manual reset of the guest CPU, which resets the scheduler
underneath the clock without telling it. Host time may fail any pacing call. An
`inject()` that fails ends in `Shutdown`, as its catch block does.

### InterruptPath and InterruptDelivery

One thread; a step is a device or register change, an advance of the scheduler, a
manual reset, a poll, or the preparation or test of a chain guard. `device` is what the
polled devices report now, `sampled` what the router read last, `controller` what the
CPU would see. The epochs are compared for equality only, so `routerMoved` and the
fields of `guard` keep whether an epoch moved since it was read.

`InterruptDelivery` has no cache: a safepoint accepts the highest source that is really
asserted and admitted by SR, and goes on, polled or chained, only if there is none.
`ImplementsDelivery` maps `asserted` to the devices' own flags and the ASIC's registers.

### AnalysisExecutor

A step is one critical section of `queue_mutex_`, of a group's completion mutex, or one
atomic access or notification between them. `enqueue()` notifies after it has given up
the mutex: `signalling` holds the threads that are in between. `add_drain()` joins the
`enqueue()` that follows it; nobody waits for the group before its last lane is queued.
A worker that found its wait predicate false holds the
queue's mutex until it sleeps (`"checked"`), so a notification sent without the mutex
can fall into that gap. `stack[w]` is the call stack of a worker that helps while a
nested batch runs. Priorities, ageing, leases, the quantum after which a lane yields and
the destructor are modelled; a task keeps how often it was passed over instead of the
value of the dispatch clock.

### FrameQueue and AudioCommandQueue

One step is one access to a shared atomic. `pc[t] = <<call, step>>` says where a
thread is, so that every interleaving of the real threads is a behaviour of the model.
Two simplifications are exact: a load of a variable that no other thread can change any
more (its own, or the identity it is bound to) joins the step before it, and
`event_epoch_`, of which waiters only ask whether it moved since they loaded it, becomes
the Boolean `moved[t]`. Calls that share code
(`try_begin_produce` and `try_begin_consume`, `publish_write` and `complete_read`) are
one definition with the side as parameter.

In `FrameQueue` the variable `threadingMode` is the configured mode: two threads
(`ParallelSpsc`), or one thread with both leases open (`SerialReference`). In
`AudioCommandQueue` the bytes of a payload are left out; the model admits a refusal
for lack of room only while a command is outstanding, and `AudioPayloadRing` shows
that this is what the byte ring does (`DrainedAdmits`).

**Assumption: sequential consistency.** The models interleave atomic accesses; weaker
outcomes of acquire and release are not modelled, so the results do not cover a
store that is overtaken by a later load of another variable.

### FrameChannel and CommandChannel

Bounded FIFO channels with `Submit`, `Deliver`, `Stop` only when empty, and `Fail`. Each
queue is shown to implement its channel by a refinement mapping written next to it
(`Channel == INSTANCE ... WITH ...`, property `ImplementsChannel`). For frames the two
positions delimit the content.

The audio queue tests its lifecycle once, at line 591, before it takes a lease, and
publishes at line 867 whatever has happened since. `CommandChannel` says so: the producer
is admitted while the channel is open, and an admission outlives `Close`, `Stop` and
`Fail`. After a shutdown at most one command enters, the one admitted before. A command
counts as submitted when the producer moves its position or the consumer claims the
slot, whichever is first, because the consumer may finish a command before the producer
has moved its position. The queue counts as stopped from the test of the positions
(line 822) that precedes the store of Stopped.

### PersistentImage

One step is one operation on the file system; between any two the process may die
(`Crash`), an operation may fail, or a stored file may go bad (`GoesBad`). `publish()`
runs in two situations, inside `load()` and inside `save()`, told apart by `opening`.

**Assumption: the file system.** Renames and removals are atomic and become durable in
the order in which they were made; the content of a file is certain only after
`fsync`. The code does not synchronise the directory, so on a file system that
reorders renames across a crash the results do not apply.

## 3. Runs

Every run is exhaustive on its instance.

| Run | Question | Properties |
|---|---|---|
| `scheduler_calls` | Do clock, queue, ids and budget stay right under reentrant calls, throwing callbacks, observers, resets and restores that became stale, and does every advance return? | `IndexesAgree` `BudgetRespected` `FiredInOrder` `ClockMonotone` `IdsNeverReturn` `AdvanceReturns` |
| `host_session` | Scheduler, media clock, safepoints, pacer, session and another device together: is the media path ever half active, late or out of step, does anybody lose events or cycles, does `consume_loop()` end? | `NeverHalfActive` `TicksOnTime` `SessionAgrees` `CyclesAccounted` `ForeignEventsKept` `ConsumeLoopEnds` |
| `interrupt_path` | Do the caches ever hide, delay or invent an interrupt? | `SkipIsSound` `ImplementsDelivery` |
| `frame_queue_pair` | Guest and render thread, or one thread alone, with aborted and failed leases, shutdown and snapshots: is it the channel? | `ArenaOwnership` `NoFalseAlarm` `SleeperIsStopped` `SnapshotCoherent` `ImplementsChannel` |
| `frame_queue_live` | Is any wake-up lost? | `DrainEnds` `FramesDelivered` `ProducerWoken` |
| `frame_queue_owner_wake` | *Violation:* a shutdown from a third thread while a full queue is tested is never completed. | `SleeperIsStopped` |
| `audio_queue_pair` | Guest and audio thread, two slots, bad commands, failures, and shutdown by either thread: is it the channel? | `SlotOwnership` `AckAnswersItsCommand` `ImplementsChannel` |
| `audio_queue_live` | One slot, reused by every command, no failures, shutdown by either thread: is any wake-up lost? | `AckArrives` `ProducerReturns` `DrainEnds` |
| `audio_payload_ring` | Do payload regions stay disjoint, aligned and available? | `RegionsDisjoint` `CursorsConsistent` `DrainedAdmits` |
| `audio_queue_late_ready` | *Violation:* a command published behind the cancellation scan of a failed queue stays Ready for ever. | `NoneLeftReady` |
| `persistent_image` | Crashes, failed operations and bad files at every step of open() and save(). | `LastSaveSurvives` `CleanMeansSaved` `NoSilentReset` |
| `analysis_executor` | Nested batches under a memory budget, yielding lanes, helping waiters and the destructor: is a lane, a batch or a wake-up lost? | `BatchComplete` `DrainsAccounted` `NoReentry` `NeverAllAsleep` `BatchesReturn` `ExecutorEnds` |

### Bounds

The overflow tests of the code compare with `numeric_limits`. In the models those
limits are small constants, so the tests are reached and the overflow paths run.

* Scheduler: two event ids and one observer (the last value of a counter is never handed
  out), cycles 0 to 2, one outstanding and one committed restore. Two events can share a
  deadline, a callback of one can plan the other, the ids run out, and a prepared restore
  becomes stale. That a callback plans a third event while two share a deadline is left
  to the theorems and to `host_session`.
* Host session: 5 guest cycles per second, 3 frames and 4 samples, 2 samples per
  buffer: intervals of 5/3 and 5/2 cycles, so that both cadences carry a rest and tick
  at the same cycle at the end of the range. Six ids, so that a restarted clock runs
  out of them halfway through `start()` and in a handler; three cycles consumed in
  chunks of two; an event budget of two; one guest-cycle budget; one manual reset.
* Interrupt path: one polled source, one serial source, one line with one ASIC event,
  two level assignments and two values of SR. Each cache has one source that only it
  stands in front of; sources tie and outrank each other. The theorems cover any number.
* Analysis executor: three workers, one client, a batch of three items, the first two of
  which nest a batch, memory for three leases of which admission keeps one free, so that
  both lanes of the outer batch nest at the same time. Lanes yield after
  each item, and a nested task ages past an outer one after two dispatches.
* Frame queue: the real depth, two arenas, and three frames, so that an arena is used
  twice and the last position is reached. The live run uses two.
* Audio queue: two slots and two commands, with all errors and results; one slot and two
  commands, so that a slot and an acknowledgement slot are reused, without client errors
  and with the results Completed and Cancelled, which no liveness property tells from
  Failed.
* Payload ring: 7 bytes, alignment 3, three commands. The capacity is no multiple of
  the alignment, so that every kind of padding occurs, and cursors go around six times.
* Persistent image: three contents, which tells the last, the one before and another
  apart; two temporary names, so that they run out; two bad files, so that both copies
  can be bad; two failed operations, so that a failing undo follows a failing rename.

`CHECK_DEADLOCK FALSE` is set where the system may really stop: an image neither of
whose copies decodes refuses to open for good, a failed or stopped audio queue leaves its
clients with nothing to do (and possibly asleep: `audio_queue_late_ready`, and the stopped
queue of section 5), and the cursors of the payload ring end at their bound.

### Fairness

* Scheduler: the loop of `advance_to()`, callbacks and observers make progress (weak
  fairness). Nothing is assumed of the callers; callbacks may plan as many events as
  there are ids.
* Host session: the runtime's own steps are weakly fair. That a callback ends is strong
  fairness, because a callback may call back into the clock before it does. Nothing is
  assumed of the guest, the devices or the host.
* Analysis executor: every thread is strongly fair. A lane that yields is queued and may
  be taken again at once, so another thread can find the queue's mutex taken each time
  it looks; the assumption is that a mutex is not withheld from a waiting thread for
  ever, and that items return. With weak fairness `BatchesReturn` fails that way.
* Queues: a thread inside a call keeps running (weak fairness on each thread's steps; a
  sleeping thread has no step until it is notified). A lease object is ended, because
  its destructor ends it, and the consumer thread loops over `begin_consume`, because
  `worker_main` and the render loop do. These two are strong: the holder of a lease, and
  the consumer between two rounds, may make other calls in between, and each of them
  disables the step for a while. A producer is not obliged to produce.

## 4. Proofs

Proofs hold for all values of the constants that satisfy the named assumptions, which
only say that numbers are numbers and that `Source` is a content.

**EventSchedulerProofs** (assumption `SchedulerAssumption`).

* `QueueInv` adds two facts to what is to be shown. `IdsIssued`: a pending id has been
  handed out, without which the id of a new event could be in use. `PreparedValid`: an
  outstanding restore is one that the code would accept, without which its commit could
  put events before the clock. One step per action, with lemmas for scheduling,
  dispatching and committing.
* `QueueSafe`: types, `IndexesAgree`, `NothingInThePast`, `AdvanceFlagExact`.
  `IdsStayRetired`: `IdsNeverReturn`.
* `TimeInv` adds that a running advance has not passed its target nor its target the
  budget, and that everything pending is later, in the order of keys, than the last
  event fired. It is inductive only if callbacks do not set the budget, which is the
  hypothesis `BudgetFromCallback = FALSE` of the theorems (see section 5).
* `BudgetSafe`: `BudgetRespected`. `TimeSafe`: `FiredInOrder` and `ClockMonotone`.

**InterruptPathProofs** (assumption `InterruptAssumption`).

* `IInv` says, beside the types, what each cache equals while it counts as current.
  `LinesCurrent`: the external lines are those of the ASIC's registers. `SampleCurrent`:
  unless the port or the router is marked dirty, the router's sample is what the devices
  report. `ControllerCurrent`: unless the port is dirty or the epoch moved, the
  controller holds what a synchronization would publish for the sample.
  `GuardEpochCurrent`: if the router's epoch did not move for the guard, it did not move
  for the port either. `GuardVerdictCurrent`: if the controller's epoch did not move for
  a guard that found nothing acceptable, its SR still admits nothing.
  None is inductive alone: the guard's rests on the controller's, that on the sample's.
* `SkipSafe`: `SkipIsSound`. `DeliveryImplemented`: the refinement `ImplementsDelivery`,
  with one step per kind of abstract step. `AlwaysIInv`: the invariant itself.

**PersistentImageProofs** (assumption `PersistentImageAssumption`).

* `IInv` has four parts beside the types. `Progress`: where `publish()` is determines
  what its locals and its temporary file are (synchronised and of the working content
  from the removal of the old copy on; no primary when the new one is installed).
  `Contents`: the primary is always of the last publication and the recovery copy of
  the last or the last but one, and of the last whenever it is the only one. `Whole`:
  while nothing went bad both files decode. `Clean`: a publication from `save()` runs
  with the dirty flag up.
* `SaveSurvives`: `LastSaveSurvives`. `CleanIsSaved`: `CleanMeansSaved`.
  `NeverStartsOver`: the action property `NoSilentReset`, also with bad files.

**HostSessionProofs** (assumptions `SchedulerAssumption`, `MediaClockAssumption`,
`HostSessionAssumption`). The scheduler's part is not proved again: every step of the
session is either `StopBody` or a step of `EventScheduler` (`SchedulerStep`), so
`TimeInv` carries over.

* `HostInv` is `TimeInv` and seven more. `StackInv`: who can be on the stack below whom.
  `RecordInv`: the ids that the clock recorded and the ticks pending are the same, and an
  id kept across a reset is below every id still to come. `PairInv`: both cadences are
  alive or neither, with what `start()` and a failing handler pass through. `CadenceInv`:
  deadline and phase together are the exact rational time of the n-th tick. `SessionInv`
  and `LoopInv`: session, pacer and `consume_loop()`.
* `MediaNeverHalfActive`: `NeverHalfActive`. `TicksExact`: `TicksOnTime`, which rests on
  lemmas about `make_cadence` and `advance_deadline` for every frequency and rate.
  `SessionConsistent`: `SessionAgrees`. `CyclesNeverLost`: `CyclesAccounted`.
  `ForeignEventsSurvive`: the action property `ForeignEventsKept`.

**AudioPayloadRingProofs** (assumption `AudioPayloadRingAssumption`).

* `IInv` says that the commands outstanding lie in the unwrapped byte stream one after the
  other between the two cursors, each aligned, none across the end of the slab; that two
  of them overlap nowhere in the slab follows because the stream in use is no longer than
  the capacity.
* `PayloadsNeverOverlap`: `RegionsDisjoint`. `CursorsStayConsistent`: `CursorsConsistent`.
  `DrainedRingAdmits`: the action property `DrainedAdmits`.

**FrameQueueInvariant, FrameQueueProofs, FrameQueueChannelProofs** (assumption
`FrameQueueAssumption`), for any set of threads on each side.

* `IInv` has four parts. `ThreadTyped`: types and labels. `OwnInv`: who answers for the
  lease of a side, one thread at most, and never while a lease object exists.
  `PositionInv`: the positions are at most the depth apart, and a thread about to claim
  has seen room. `ArenaInv`: what the state and sequence of an arena say, in terms of the
  positions and of the thread that writes, publishes, reads or completes.
* `ArenasOwned`: `ArenaOwnership`. `SnapshotsCoherent`: `SnapshotCoherent`, from
  `ErrorInv` (claimed, filled, failed and ready in this order) and `ViewInv` (what a
  snapshot has loaded so far fits together).
* `QueueIsChannel`: the refinement `ImplementsChannel`, under the hypothesis
  `ProducerShutsDown`: whoever may call `request_shutdown()` is the one thread that
  publishes, as in `frame_queue_pair`. `native_port_graphics.cpp` calls it from the
  guest thread that publishes (lines 7082, 7848, 7860), and from the render thread only
  after the guest's last command (8179) or when the queue has stopped or failed (7964).
  The hypothesis cannot be dropped: with a third thread that shuts
  down TLC finds the frame that appears in a stopped queue (section 5). `DrainInv` is the
  part that needs it: once the queue drains nobody is between the check of `publish()`
  and its store of the position, and each load of `maybe_publish_stopped()` stays true.

**Only model-checked.** Of the frame queue `NoFalseAlarm` and `SleeperIsStopped`; the
audio command queue; the analysis executor, whose models of a call stack and of a queue
are sequences of unbounded length; and all liveness (fairness and ENABLED are beyond the
prover).

## 5. Where text and code disagree

Two disagreements have a run that exhibits them; `PROJECT.json` quotes the texts.

* `frame_queue_owner_wake`: `native_port_frame_queue.cpp:582`.
* `audio_queue_late_ready`: `native_port_audio_command_queue.cpp:1088`.

Further ones were met while modelling and follow from the models without a run.

* `scheduler.cpp:442` lets a callback at cycle 0 set a guest-cycle budget that the
  running advance does not see; the next advance then moves the clock back to it. With
  `BudgetFromCallback = TRUE` in `EventScheduler_calls.cfg`, `BudgetRespected` and then
  `ClockMonotone` fail so.
* `DreamcastMediaClock` does not observe a scheduler reset. After a manual reset it still
  says it is running, nothing is pending, and `start()` returns at once, so that ticks
  resume only after a pause and a resume. `HostPacer` keeps its last guest cycle too: a
  pause or resume before the clock has passed it fails, and shuts the session down.
* `analysis/parallel_work.hpp:390` says that nested batches cannot deadlock even with a
  single worker. That rests on the callers: when the leases of waiting outer lanes use
  up the budget, no nested lane can be taken. The latent AOT analysis keeps headroom for
  it (`latent_aot_registry.cpp:12957`), which the instance models; with
  `Headroom = 0` and `Capacity = 1` TLC reports that deadlock.
* `analysis/parallel_work.hpp:622` returns from `help_until()` before the batch is done
  if the executor is stopping and its queue is empty. No task nests a batch while the
  executor is destroyed, in the repository or in the model.
* `native_port_frame_queue.cpp:812` lowers the producer's lease before line 813 stores
  the position. A shutdown by a third thread in between publishes Stopped, and the
  frame appears in a stopped queue; the header (line 258) says published frames remain
  consumable. With shutdown on the producer's own thread, as in `frame_queue_pair`,
  `ImplementsChannel`, whose channel stops only when empty, holds.
* `native_port_audio_command_queue.cpp:591` is the producer's only test of the lifecycle.
  Commands that the audio thread executes may shut the domain down from that thread
  (`native_port_audio.cpp:545`, `567`; `native_port_audio_execution_domain.cpp:1048`
  says that it may be first). If that happens while the guest is between line 591 and
  line 867, the consumer finds the positions equal and stores Stopped, and the guest then
  publishes a Ready command into a stopped queue. Nobody executes or cancels it, although
  `native_port_audio.cpp:564` says that the consumer drains or cancels, and a
  `wait_read_ack` for it that begins after the notification of line 826 sleeps with no
  step of the queue left to wake it. With deadlock checking on in
  `MCAudioCommandQueue_live.cfg` TLC reports that state. `ImplementsChannel` allows the
  command, and says that there is at most one; `AckArrives` is therefore about callers
  that sleep before the consumer has found the queue drained.
* `native_port_audio_command_queue.cpp:823` stores Stopped where a compare-exchange would
  be needed: a Failed stored since line 820 is overwritten. That takes a shutdown by the
  audio thread while the guest raises an error, or a third thread. `ChannelStatus`
  keeps "failed" in this case; the recorded first error is not lost.
* `native_port_audio_command_queue.cpp:1177` tests the lifecycle before it looks at the
  acknowledgement again, so `wait_read_ack` may return empty-handed from a stopped or
  failed queue although the answer is there. `AckArrives` says that the acknowledgement
  is no longer pending when the caller returns, not that this call has taken it along.
* `SCHEDULER.md` line 27 says `reset()` restores the ids; the code keeps counting, and
  `IdsNeverReturn` relies on it.
* `persistent_storage.cpp:249` takes any failure to read the primary as a reason to
  publish the older recovery copy over it, and line 377 removes a valid recovery copy
  without looking at the primary that takes its place. A file that goes bad, or a read
  error that passes, can so cost the newest valid copy. `NoSilentReset` bounds the loss.
* `persistent_storage.cpp:170`: temporary files of crashed publications are never
  removed; after 1024 of them nothing can be saved.

## 6. Not modelled

The reasons for each part are in `PROJECT.json`. In short: pure data transformation
(instructions, pixels, samples, formats, text), where the difficulty is in the data
and not in the order of steps; and the parts of section 7, which are planned. Of the
modelled parts, diagnostics, the bytes of payloads, destructors and refusals without
effect are left out, and further:

* Media clock: tick counters and the overflow of the count of emitted frames.
* Host session: host time as a number, audio output, the input replay, reports and
  replay events of a safepoint. `consume_loop()` is called by tests, `consume()` by the
  interpreter as well.
* Interrupt path: passive restores and the game-entry handoff; the ASIC's event history,
  its sequence numbers and DMA triggers; an MMIO handler that throws after a change; an
  exception out of an advance; `PlatformInterruptRouter::accept()`, which only tests
  call; the cycle limits and code generations of the chain guard.
* Analysis executor: activity counters, which of several errors is rethrown, the critical
  prefix in a descriptor, spurious wake-ups, a submission that throws, threads that
  cannot be started.
* Frame queue: a third thread that uses a side, or a lease, that is not its own. `FrameQueue`
  has the refusals; no run has such a thread but for shutdown.

## 7. Plan

In this order, each with its own type invariant, safety, and mutants:

1. `ParallelExecutor` of the runtime: semaphore, batch pointer, lanes. Every lane once,
   no lane of another batch, `run()` returns.
2. `AudioExecutionDomain` on `AudioCommandQueue`: stamps, acknowledgement reservations,
   worker shutdown and join; the queue through `CommandChannel` plus acknowledgements.
3. `Timers` and `Sh4Dmac` on `EventScheduler` and in front of `InterruptPath`: one
   planned event per channel, stale events after register writes and resets.
4. `GdromController`: packet phases with a completion pending across abort, reset and
   media change.
5. `BlockRegistry`: generations of blocks, pages and address spaces; a guard that is
   current denotes the block that an uncached lookup would find.
6. `MutableStorage` (two `PersistentImage` instances) and the native save provider.

Proofs, in this order: `SlotOwnership`, `AckAnswersItsCommand` and the refinement of
`CommandChannel` by `AudioCommandQueue`; `DrainsAccounted` of the executor; the registry's
refinement.

Runs stay small: an instance with two actors and two or three of each resource, chosen
so that something is reused and something runs out.
