-------------------------- MODULE AnalysisExecutor --------------------------
(***************************************************************************)
(* ParallelWorkExecutor and parallel_analysis_for(), the worker pool that  *)
(* every phase of the analysis shares (analysis/parallel_work.hpp).        *)
(*                                                                         *)
(* A batch (ParallelWorkGroup) of n items is drained by min(n, workers)    *)
(* lanes.  A lane is a task of the queue: it takes items from the group's  *)
(* shared counter until its quantum is used up, then yields and is queued  *)
(* again.  A task holds a lease on the memory budget while it runs.  An    *)
(* item may itself start a batch; its worker then helps the queue until    *)
(* that batch is done, so that a worker has a stack of tasks.  A client    *)
(* thread, which is no worker, just sleeps.                                *)
(*                                                                         *)
(* Each client runs one batch, some of whose items nest a second one.      *)
(* When all are back the owner submits one more task without waiting for   *)
(* it, and destroys the executor.  No reclaimer of memory is installed     *)
(* (no code of the repository installs one), so that the calls of          *)
(* run_memory_reclaimer() have no effect.                                  *)
(***************************************************************************)
EXTENDS Integers, Sequences, FiniteSets, SequencesExt, FiniteSetsExt

CONSTANTS
    Worker,          \* the executor's threads
    Client,          \* other threads, each with a batch of its own
    OuterItems,      \* items of a client's batch
    Nesting,         \* those that run a nested batch
    NestedItems,     \* items of a nested batch
    Rank,            \* "outer", "nested", "detached" -> priority, 0 first
    Bytes,           \* the same -> transient_bytes
    Throughput,      \* the last priority
    Capacity,        \* of the memory budget
    Headroom,        \* memory a wave of outer lanes must leave to nested work
    Quantum,         \* items a lane may take before it yields
    AgingQuantum     \* fairness_dispatch_quantum, 32 in the code

ASSUME ExecutorAssumption ==
    /\ IsFiniteSet(Worker) /\ Worker # {}
    /\ IsFiniteSet(Client) /\ Client # {}
    /\ OuterItems \in Nat \ {0} /\ Nesting \subseteq 1..OuterItems
    /\ NestedItems \in Nat \ {0}
    /\ Throughput \in Nat /\ Capacity \in Nat
    /\ Headroom \in Nat /\ Bytes["outer"] + Headroom <= Capacity
    /\ \A l \in {"outer", "nested", "detached"} :
        /\ Rank[l] \in 0..Throughput
        /\ Bytes[l] \in 0..Capacity
    /\ Quantum \in Nat \ {0} /\ AgingQuantum \in Nat \ {0}

VARIABLES
    tasks,           \* tasks_: the queued tasks, oldest ticket first
    used,            \* used_ of the memory budget
    stopping,        \* stopping_
    next,            \* next_item_ of every group
    remaining,       \* remaining_drains_ of every group
    finished,        \* the items of every group whose work has returned
    stack,           \* the tasks on each worker's call stack
    pc,              \* where each worker is
    signalling,      \* the threads between the lock of enqueue() and its notify_one()
    client,          \* lanes each client has submitted; one more: its batch returned
    owner,           \* where the thread is that destroys the executor
    cancelled        \* the tasks the destructor took out of the queue

queueVars == <<tasks, signalling>>
groupVars == <<next, remaining, finished>>
vars == <<tasks, used, stopping, next, remaining, finished, stack, pc, signalling, client,
          owner, cancelled>>

-----------------------------------------------------------------------------
(* The groups: <<c>> is the batch of client c, <<c, i>> the one that its    *)
(* item i nests, and <<>> the task submitted just before the destructor.    *)

Detached == <<>>
Outer(c) == <<c>>
Group == {Detached} \cup {Outer(c) : c \in Client} \cup (Client \X Nesting)

Kind(g) == CASE Len(g) = 0 -> "detached" [] Len(g) = 1 -> "outer" [] Len(g) = 2 -> "nested"

\* The detached task returns Yield once, like a batch of two items with one lane.
ItemCount(g) == CASE Len(g) = 0 -> Quantum + 1 [] Len(g) = 1 -> OuterItems [] Len(g) = 2 -> NestedItems

\* maximum_local_jobs: the latent analysis admits only as many leased lanes as leave
\* the headroom free; other callers pass the number of workers.
MaximumLocalJobs(g) ==
    IF Kind(g) = "outer" /\ Bytes["outer"] # 0
    THEN Max({1, (Capacity - Headroom) \div Bytes["outer"]})
    ELSE Cardinality(Worker)

Lanes(g) ==
    IF g = Detached THEN 1 ELSE Min({ItemCount(g), MaximumLocalJobs(g), Cardinality(Worker)})

\* The descriptor parallel_analysis_for completes.
Fanout(g) == ItemCount(g)
Cost(g) == 1 + ((ItemCount(g) - 1) \div Lanes(g))
TaskBytes(g) == Bytes[Kind(g)]

\* The value of client[c] when parallel_analysis_for has returned to client c.
Returned(c) == Lanes(Outer(c)) + 1

TheOwner == "owner"

(* A queued task keeps how many dispatches it has waited for, counted as    *)
(* far as ageing looks at it.                                               *)
MostWaited(g) == Rank[Kind(g)] * AgingQuantum
Task == UNION {[group : {g}, waited : 0..MostWaited(g)] : g \in Group}

Frame == [group : Group, taken : 0..Quantum, item : Nat, lanes : Nat, yields : BOOLEAN]

TypeOK ==
    /\ tasks \in Seq(Task)
    /\ used \in 0..Capacity
    /\ stopping \in BOOLEAN
    /\ next \in [Group -> Nat]
    /\ remaining \in [Group -> Nat]
    /\ finished \in [Group -> SUBSET Nat]
    /\ stack \in [Worker -> Seq(Frame)]
    /\ pc \in [Worker -> {"take", "check", "checked", "asleep", "drain", "submit", "item",
                          "release", "requeue", "complete", "notify", "exited"}]
    /\ signalling \subseteq Worker \cup Client \cup {TheOwner}
    /\ \A c \in Client : client[c] \in 0..Returned(c)
    /\ owner \in {"uses", "submitted", "cancels", "gone"}
    /\ cancelled \in Seq(Task)

Init ==
    /\ tasks = <<>> /\ used = 0 /\ stopping = FALSE
    /\ next = [g \in Group |-> 0]
    /\ remaining = [g \in Group |-> 0]
    /\ finished = [g \in Group |-> {}]
    /\ stack = [w \in Worker |-> <<>>]
    /\ pc = [w \in Worker |-> "take"]
    /\ client = [c \in Client |-> 0]
    /\ signalling = {}
    /\ owner = "uses" /\ cancelled = <<>>

-----------------------------------------------------------------------------
(* The queue.  queue_mutex_ is held across a step only by a worker that     *)
(* has found its wait predicate false and has not gone to sleep yet.        *)

QueueFree == \A w \in Worker : pc[w] # "checked"

AllNotified(p) == [w \in Worker |-> IF p[w] = "asleep" THEN "check" ELSE p[w]]

\* As if notify_one() were forgotten.
NoneNotified(p, q) == q = p

\* notify_one(): any one of the sleeping threads, if there is one.
OneNotified(p, q) ==
    LET asleep == {w \in Worker : p[w] = "asleep"} IN
    IF asleep = {} THEN q = p ELSE \E w \in asleep : q = [p EXCEPT ![w] = "check"]

\* enqueue() by thread x, under the lock; what follows is NotifyOne(x).
enqueue(x, g) ==
    /\ QueueFree
    /\ tasks' = Append(tasks, [group |-> g, waited |-> 0])
    /\ signalling' = signalling \cup {x}

\* higher_priority() for two tasks of the same class that ageing has not promoted.
Precedes ==
    {gh \in Group \X Group :
        LET g == gh[1]
            h == gh[2]
            class == Rank[Kind(g)] IN
        /\ class # Throughput
        /\ IF class = Throughput - 1 /\ Cost(g) # Cost(h) THEN Cost(g) < Cost(h)
           ELSE \/ Fanout(g) > Fanout(h)
                \/ Fanout(g) = Fanout(h) /\ Cost(g) < Cost(h)}

AgedRank(t) == Rank[Kind(t.group)] - t.waited \div AgingQuantum
Promoted(t) == t.waited >= AgingQuantum

\* higher_priority(), but for the ticket.
HigherPriority(t, u) ==
    \/ AgedRank(t) < AgedRank(u)
    \/ /\ AgedRank(t) = AgedRank(u)
       /\ ~Promoted(u)
       /\ Promoted(t) \/ <<t.group, u.group>> \in Precedes

Runnable(queue) == {i \in DOMAIN queue : TaskBytes(queue[i].group) <= Capacity - used}

\* The task take_runnable_locked() removes; the position stands for the ticket.
IsBest(queue, i) ==
    \A j \in Runnable(queue) \ {i} :
        \/ HigherPriority(queue[i], queue[j])
        \/ i < j /\ ~HigherPriority(queue[j], queue[i])

\* What ++dispatch_clock_ means for the tasks that stay.
Aged(queue) ==
    [i \in DOMAIN queue |->
        [queue[i] EXCEPT !.waited = Min({queue[i].waited + 1, MostWaited(queue[i].group)})]]

Top(w) == stack[w][Len(stack[w])]
Below(w) == SubSeq(stack[w], 1, Len(stack[w]) - 1)
SetTop(w, f) == stack' = [stack EXCEPT ![w] = Append(Below(w), f)]

\* The group whose end a helping worker waits for.
NestedGroup(f) == <<f.group[1], f.item>>
Helping(w) == stack[w] # <<>>
\* As if a batch were done when its last item has been handed out.
AllHandedOut(g) == next[g] >= ItemCount(g)

Done(g) == remaining[g] = 0
WaitOver(w) == Helping(w) /\ Done(NestedGroup(Top(w)))

-----------------------------------------------------------------------------
(* A worker between tasks, in worker_loop() or in help_until().             *)

\* take_runnable_locked() and the first steps of execute_task(): the lease is
\* taken under the lock.
Take(w) ==
    /\ pc[w] = "take" /\ QueueFree /\ ~WaitOver(w)
    /\ \E i \in Runnable(tasks) :
        /\ IsBest(tasks, i)
        /\ tasks' = RemoveAt(Aged(tasks), i)
        /\ used' = used + TaskBytes(tasks[i].group)
        /\ stack' = [stack EXCEPT ![w] = Append(@, [group |-> tasks[i].group, taken |-> 0,
                                                    item |-> 0, lanes |-> 0, yields |-> FALSE])]
    /\ pc' = [pc EXCEPT ![w] = "drain"]
    /\ UNCHANGED <<signalling, stopping, groupVars, client, owner, cancelled>>

\* No task fits the budget: the lock is given up before the wait takes it again.
TakeNothing(w) ==
    /\ pc[w] = "take" /\ QueueFree /\ ~WaitOver(w)
    /\ Runnable(tasks) = {}
    /\ pc' = [pc EXCEPT ![w] = IF ~Helping(w) /\ stopping /\ tasks = <<>> THEN "exited" ELSE "check"]
    /\ UNCHANGED <<queueVars, used, stopping, groupVars, stack, client, owner, cancelled>>

\* The wait predicate, and the tests before and after the wait.
Check(w) ==
    /\ pc[w] = "check" /\ QueueFree /\ ~WaitOver(w)
    /\ pc' = [pc EXCEPT ![w] =
                CASE ~Helping(w) /\ stopping /\ tasks = <<>> -> "exited"
                  [] Runnable(tasks) # {} \/ stopping        -> "take"
                  [] OTHER                                   -> "checked"]
    /\ UNCHANGED <<queueVars, used, stopping, groupVars, stack, client, owner, cancelled>>

Sleep(w) ==
    /\ pc[w] = "checked"
    /\ pc' = [pc EXCEPT ![w] = "asleep"]
    /\ UNCHANGED <<queueVars, used, stopping, groupVars, stack, client, owner, cancelled>>

-----------------------------------------------------------------------------
(* drain_quantum(): a worker with a task on top of its stack.               *)

\* As if a lane could be entered whatever is on the stack.
NeverActive(w) == FALSE

\* parallel_work_group_is_active()
IsActive(w) == \E i \in 1..(Len(stack[w]) - 1) : stack[w][i].group = Top(w).group

Leave(w, yields) ==
    /\ SetTop(w, [Top(w) EXCEPT !.yields = yields])
    /\ pc' = [pc EXCEPT ![w] = "release"]

DrainNext(w) ==
    LET f == Top(w)
        g == f.group IN
    /\ pc[w] = "drain"
    /\ \/ /\ IsActive(w)
          /\ Leave(w, TRUE)
          /\ UNCHANGED next
       \/ /\ ~IsActive(w) /\ f.taken = Quantum
          /\ Leave(w, next[g] < ItemCount(g))
          /\ UNCHANGED next
       \/ /\ ~IsActive(w) /\ f.taken < Quantum
          /\ next' = [next EXCEPT ![g] = @ + 1]
          /\ IF next[g] >= ItemCount(g)
             THEN Leave(w, FALSE)
             ELSE /\ SetTop(w, [f EXCEPT !.item = next[g] + 1, !.lanes = 0])
                  /\ pc' = [pc EXCEPT ![w] = IF Kind(g) = "outer" /\ next[g] + 1 \in Nesting
                                             THEN "submit" ELSE "item"]
    /\ UNCHANGED <<queueVars, used, stopping, remaining, finished, client, owner, cancelled>>

ItemOver(w) ==
    LET f == Top(w) IN
    /\ finished' = [finished EXCEPT ![f.group] = @ \cup {f.item}]
    /\ SetTop(w, [f EXCEPT !.taken = @ + 1])
    /\ pc' = [pc EXCEPT ![w] = "drain"]
    /\ UNCHANGED <<queueVars, used, stopping, next, remaining, client, owner, cancelled>>

\* An item that nests nothing returns, or throws: errors_ keeps that.
ItemReturns(w) == pc[w] = "item" /\ ItemOver(w)

\* parallel_analysis_for() on a worker: one lane more; then it helps.  add_drain()
\* joins the enqueue, as nobody waits for the group before its last lane is in.
SubmitLane(w) ==
    LET f == Top(w)
        n == NestedGroup(f) IN
    /\ pc[w] = "submit"
    /\ remaining' = [remaining EXCEPT ![n] = @ + 1]
    /\ enqueue(w, n)
    /\ SetTop(w, [f EXCEPT !.lanes = @ + 1])
    /\ pc' = [pc EXCEPT ![w] = IF f.lanes + 1 = Lanes(n) THEN "take" ELSE "submit"]
    /\ UNCHANGED <<used, stopping, next, finished, client, owner, cancelled>>

\* help_until() returns, and with it the nested batch and the item.
HelpReturns(w) ==
    /\ pc[w] \in {"take", "check"} /\ QueueFree
    /\ WaitOver(w)
    /\ ItemOver(w)

-----------------------------------------------------------------------------
(* The end of execute_task().                                               *)

\* The lease is released, and everybody notified, without the queue's lock:
\* a worker that has just found its predicate false misses it.
Release(w) ==
    /\ pc[w] = "release"
    /\ used' = used - TaskBytes(Top(w).group)
    /\ pc' = [AllNotified(pc) EXCEPT ![w] = IF Top(w).yields THEN "requeue" ELSE "complete"]
    /\ UNCHANGED <<queueVars, stopping, groupVars, stack, client, owner, cancelled>>

\* As if the error of enqueue() did not reach the completion.
RequeueOrForget(w) ==
    /\ pc[w] = "requeue" /\ QueueFree
    /\ stack' = [stack EXCEPT ![w] = Below(w)]
    /\ IF stopping THEN UNCHANGED queueVars ELSE enqueue(w, Top(w).group)
    /\ pc' = [pc EXCEPT ![w] = "take"]
    /\ UNCHANGED <<used, stopping, groupVars, client, owner, cancelled>>

\* enqueue() of a continuation; an executor that is stopping throws, and the
\* completion gets that error.
Requeue(w) ==
    /\ pc[w] = "requeue" /\ QueueFree
    /\ IF stopping
       THEN /\ pc' = [pc EXCEPT ![w] = "complete"]
            /\ UNCHANGED <<tasks, stack, signalling>>
       ELSE /\ enqueue(w, Top(w).group)
            /\ stack' = [stack EXCEPT ![w] = Below(w)]
            /\ pc' = [pc EXCEPT ![w] = "take"]
    /\ UNCHANGED <<used, stopping, groupVars, client, owner, cancelled>>

\* complete_drain(): under completion_mutex_, not under the queue's.
CompleteDrain(w) ==
    LET g == Top(w).group IN
    /\ pc[w] = "complete"
    /\ remaining' = [remaining EXCEPT ![g] = @ - 1]
    /\ stack' = [stack EXCEPT ![w] = Below(w)]
    /\ pc' = [pc EXCEPT ![w] = IF remaining[g] = 1 /\ g # Detached THEN "notify" ELSE "take"]
    /\ UNCHANGED <<queueVars, used, stopping, next, finished, client, owner, cancelled>>

\* As if notify_waiters() did not pass through the lock.
NotifyUnlocked(w) ==
    /\ pc[w] = "notify"
    /\ pc' = [AllNotified(pc) EXCEPT ![w] = "take"]
    /\ UNCHANGED <<queueVars, used, stopping, groupVars, stack, client, owner, cancelled>>

\* notify_waiters() passes through the lock, so that it comes either before a
\* waiter tests its predicate or after it sleeps.
NotifyWaiters(w) ==
    /\ pc[w] = "notify" /\ QueueFree
    /\ pc' = [AllNotified(pc) EXCEPT ![w] = "take"]
    /\ UNCHANGED <<queueVars, used, stopping, groupVars, stack, client, owner, cancelled>>

-----------------------------------------------------------------------------
(* The other threads.                                                       *)

ClientSubmitsLane(c) ==
    /\ client[c] < Lanes(Outer(c))
    /\ client' = [client EXCEPT ![c] = @ + 1]
    /\ remaining' = [remaining EXCEPT ![Outer(c)] = @ + 1]
    /\ enqueue(c, Outer(c))
    /\ UNCHANGED <<used, stopping, next, finished, stack, pc, owner, cancelled>>

\* wait() of a thread that is no worker: the counter changes under the mutex of
\* completion_, so that the notification cannot be lost.
ClientReturns(c) ==
    /\ client[c] = Lanes(Outer(c))
    /\ Done(Outer(c))
    /\ client' = [client EXCEPT ![c] = Returned(c)]
    /\ UNCHANGED <<queueVars, used, stopping, groupVars, stack, pc, owner, cancelled>>

OwnerSubmits ==
    /\ owner = "uses"
    /\ \A c \in Client : client[c] = Returned(c)
    /\ owner' = "submitted"
    /\ remaining' = [remaining EXCEPT ![Detached] = @ + 1]
    /\ enqueue(TheOwner, Detached)
    /\ UNCHANGED <<used, stopping, next, finished, stack, pc, client, cancelled>>

\* As if the destructor woke one worker only.
DestroyNotifiesOne ==
    /\ owner = "submitted" /\ QueueFree
    /\ owner' = "cancels"
    /\ stopping' = TRUE
    /\ cancelled' = tasks /\ tasks' = <<>>
    /\ OneNotified(pc, pc')
    /\ UNCHANGED <<signalling, used, groupVars, stack, client>>

\* ~ParallelWorkExecutor(): the flag and the swap are under the lock.
Destroy ==
    /\ owner = "submitted" /\ QueueFree
    /\ owner' = "cancels"
    /\ stopping' = TRUE
    /\ cancelled' = tasks /\ tasks' = <<>>
    /\ pc' = AllNotified(pc)
    /\ UNCHANGED <<signalling, used, groupVars, stack, client>>

CancelTask ==
    /\ owner = "cancels" /\ cancelled # <<>>
    /\ cancelled' = Tail(cancelled)
    /\ remaining' = [remaining EXCEPT ![Head(cancelled).group] = @ - 1]
    /\ UNCHANGED <<queueVars, used, stopping, next, finished, stack, pc, client, owner>>

Joined ==
    /\ owner = "cancels" /\ cancelled = <<>>
    /\ \A w \in Worker : pc[w] = "exited"
    /\ owner' = "gone"
    /\ UNCHANGED <<queueVars, used, stopping, groupVars, stack, pc, client, cancelled>>

Gone == owner = "gone" /\ UNCHANGED vars

\* The end of enqueue(), which has given up the lock.
NotifyOne(x) ==
    /\ x \in signalling
    /\ signalling' = signalling \ {x}
    /\ OneNotified(pc, pc')
    /\ UNCHANGED <<tasks, used, stopping, groupVars, stack, client, owner, cancelled>>

WorkerStep(w) ==
    \/ NotifyOne(w)
    \/ /\ w \notin signalling
       /\ \/ Take(w) \/ TakeNothing(w) \/ Check(w) \/ Sleep(w)
          \/ DrainNext(w) \/ ItemReturns(w) \/ SubmitLane(w) \/ HelpReturns(w)
          \/ Release(w) \/ Requeue(w) \/ CompleteDrain(w) \/ NotifyWaiters(w)

ClientStep(c) ==
    \/ NotifyOne(c)
    \/ c \notin signalling /\ (ClientSubmitsLane(c) \/ ClientReturns(c))

OwnerStep ==
    \/ NotifyOne(TheOwner)
    \/ TheOwner \notin signalling /\ (OwnerSubmits \/ Destroy \/ CancelTask \/ Joined)

Next ==
    \/ \E w \in Worker : WorkerStep(w)
    \/ \E c \in Client : ClientStep(c)
    \/ OwnerStep
    \/ Gone

(* Threads are scheduled and items return.  Strong fairness because of the  *)
(* queue's mutex: a lane that yields and is taken again at once makes other  *)
(* threads come and go at the mutex, and one that waits for it must get it   *)
(* in the end.                                                               *)
Spec ==
    /\ Init /\ [][Next]_vars
    /\ \A w \in Worker : SF_vars(WorkerStep(w))
    /\ \A c \in Client : SF_vars(ClientStep(c))
    /\ SF_vars(OwnerStep)

-----------------------------------------------------------------------------
(* Properties.                                                              *)

\* The tasks that are on the workers' stacks.
OnStack == {x \in Worker \X (1..(2 * Cardinality(Group))) : x[2] \in DOMAIN stack[x[1]]}
GroupAt(x) == stack[x[1]][x[2]].group

\* parallel_analysis_for() returns to a client, or to the item that nested the
\* batch, only when the work of every item has returned: wait() counts the lanes,
\* not the items.
BatchComplete ==
    \A c \in Client :
        /\ client[c] = Returned(c) => finished[Outer(c)] = 1..OuterItems
        /\ \A i \in Nesting \cap finished[Outer(c)] : finished[<<c, i>>] = 1..NestedItems

\* No lane is lost or completed twice: remaining_drains_ counts exactly the tasks
\* that are queued, on a stack, or taken out by the destructor, also when a lane
\* yields into an executor that is stopping.
DrainsAccounted ==
    \A g \in Group :
        remaining[g] = Cardinality({i \in DOMAIN tasks : tasks[i].group = g})
                     + Cardinality({i \in DOMAIN cancelled : cancelled[i].group = g})
                     + Cardinality({x \in OnStack : GroupAt(x) = g})

\* A worker that helps while it waits never runs an item of a batch that is on
\* its stack already: the stack is not deeper than the batches are nested.
NoReentry ==
    \A w \in Worker : \A i, j \in DOMAIN stack[w] :
        i < j /\ stack[w][i].group = stack[w][j].group => stack[w][j].item = 0

\* The notification of a released lease can be lost, because it is sent without
\* the lock; but the workers never all sleep while a queued task fits the budget,
\* unless the thread that queued it is just about to wake one of them.
NeverAllAsleep ==
    Runnable(tasks) # {} => signalling # {} \/ \E w \in Worker : pc[w] # "asleep"

\* Every batch returns, nested ones included, whatever the order in which the
\* workers take tasks, sleep and wake.
BatchesReturn == \A c \in Client : <>(client[c] = Returned(c))

\* Once the clients are done the destructor returns, whatever the last task does
\* meanwhile: every worker wakes, leaves its loop and is joined.
ExecutorEnds == (\A c \in Client : client[c] = Returned(c)) ~> owner = "gone"

=============================================================================
