------------------------- MODULE FrameQueueInvariant -------------------------
(***************************************************************************)
(* The inductive invariant of NativePortFrameQueue, for any number of       *)
(* threads, arenas and frames, and the steps that keep it because they      *)
(* leave every arena alone.  The others are in FrameQueueProofs.            *)
(***************************************************************************)
EXTENDS FrameQueue, TLAPS

-----------------------------------------------------------------------------
(* The inductive invariant.                                                 *)

\* The steps of side s that only the bound thread reaches.
BoundSteps ==
    {"bound", "lease", "recheck", "rollback", "examine", "nothing", "claim", "alarm",
     "check", "commit", "lower", "position", "abort", "aborted"}

\* The steps at which a thread answers for the lease of its side.
HoldSteps ==
    {"recheck", "rollback", "examine", "nothing", "claim", "alarm",
     "check", "commit", "lower", "abort", "aborted", "fail", "failed"}

\* Where publish_error() and maybe_publish_stopped() return to.
Back ==
    {<<"client", "idle">>, <<"client", "notify">>, <<"consumer", "stopped">>,
     <<"producer", "refused">>, <<"consumer", "refused">>}

\* Those at which it may touch the arena, and those after it committed it.
ArenaSteps == {"check", "commit", "abort", "fail"}
AfterSteps == {"lower", "position"}

In(t, s, steps) == pc[t][1] = s /\ pc[t][2] \in steps
Holds(t, s) == In(t, s, HoldSteps)

\* Every thread is at a label <<call, step>>.
Labelled == pc = [t \in Thread |-> <<pc[t][1], pc[t][2]>>]

ThreadTyped ==
    /\ TypeOK
    /\ threadingMode \in DOMAIN Callers
    /\ Labelled
    /\ ret \in [Thread -> Back]

\* A lease is in one pair of hands: the lease object's or one thread's.  Nobody
\* has it while the bound thread moves the position.
OwnInv ==
    /\ \A t \in Thread, s \in Side : In(t, s, BoundSteps) => boundThread[s] = t
    /\ \A t \in Thread, s \in Side : Holds(t, s) => leaseActive[s] /\ lease[s] = 0
    /\ \A t, u \in Thread, s \in Side : Holds(t, s) /\ Holds(u, s) => t = u
    /\ \A s \in Side : lease[s] # 0 => leaseActive[s]
    /\ \A t \in Thread, s \in Side : In(t, s, {"position"}) => ~leaseActive[s]

Published == position["producer"]
Completed == position["consumer"]

PositionInv ==
    /\ Completed <= Published /\ Published <= Completed + Depth
    /\ \A t \in Thread : In(t, "producer", {"claim"}) =>
            Published < Completed + Depth /\ Published < MaxFrames
    /\ \A t \in Thread : In(t, "consumer", {"claim"}) => Completed < Published

\* The arenas of the frames in transit.
TransitInv ==
    /\ \A a \in Arena : arenaSequence[a] # 0 => ArenaOf(arenaSequence[a]) = a
    /\ \A n \in Completed + 1 .. Published :
            /\ arenaSequence[ArenaOf(n)] = n
            /\ n # Completed + 1 => arenaState[ArenaOf(n)] = "Ready"

\* Whom the state of an arena speaks of.
StateInv ==
    \A a \in Arena :
        /\ arenaState[a] = "Ready" =>
                \/ arenaSequence[a] \in Completed + 1 .. Published
                \/ /\ arenaSequence[a] = Published + 1
                   /\ \E t \in Thread : In(t, "producer", AfterSteps)
        /\ arenaState[a] = "Writing" => arenaSequence[a] \in InArena("producer")
        /\ arenaState[a] = "Reading" => arenaSequence[a] \in InArena("consumer")

\* The arena of the next frame, while a thread writes or publishes it,
ProducerInv ==
    /\ \A n \in InArena("producer") :
            /\ n = Published + 1 /\ Published < Completed + Depth /\ Published < MaxFrames
            /\ arenaSequence[ArenaOf(n)] = n /\ arenaState[ArenaOf(n)] = "Writing"
    /\ \A t \in Thread : In(t, "producer", AfterSteps) =>
            /\ held[t] = Published + 1 /\ Published < Completed + Depth
            /\ Published < MaxFrames
            /\ arenaSequence[ArenaOf(Published + 1)] = Published + 1
            /\ arenaState[ArenaOf(Published + 1)] = "Ready"

\* and that of the oldest one, while a thread reads or completes it.
ConsumerInv ==
    /\ \A n \in InArena("consumer") :
            /\ n = Completed + 1 /\ Completed < Published
            /\ arenaState[ArenaOf(n)] = "Reading"
    /\ \A t \in Thread : In(t, "consumer", AfterSteps) =>
            /\ held[t] = Completed + 1 /\ Completed < Published
            /\ arenaState[ArenaOf(Completed + 1)] = "Free"

HeldInv == \A t \in Thread, s \in Side : In(t, s, ArenaSteps) => held[t] # 0

ArenaInv == TransitInv /\ StateInv /\ ProducerInv /\ ConsumerInv /\ HeldInv

IInv == ThreadTyped /\ OwnInv /\ PositionInv /\ ArenaInv

-----------------------------------------------------------------------------
(* Arenas.                                                                  *)

USE FrameQueueAssumption

LEMMA ArenaOfType ==
    ASSUME NEW n \in Nat, n # 0
    PROVE  ArenaOf(n) \in Arena
BY DEF ArenaOf, Arena

\* Fewer than Depth frames apart, two frames have different arenas.
LEMMA ArenasDiffer ==
    ASSUME NEW m \in Nat, NEW n \in Nat, m # 0, m < n, n - m < Depth
    PROVE  ArenaOf(m) # ArenaOf(n)
<1> DEFINE x == m - 1
           y == n - 1
           p == x \div Depth
           q == y \div Depth
           r == x % Depth
           w == y % Depth
<1>1. /\ x \in Nat /\ y \in Nat /\ x < y /\ y - x < Depth
      /\ ArenaOf(m) = r /\ ArenaOf(n) = w
  BY DEF ArenaOf
<1> HIDE DEF x, y
<1>2. p \in Int /\ r \in 0 .. Depth - 1 /\ x = Depth * p + r
  BY <1>1
<1>3. q \in Int /\ w \in 0 .. Depth - 1 /\ y = Depth * q + w
  BY <1>1
<1> HIDE DEF p, q, r, w
<1> SUFFICES ASSUME r = w PROVE FALSE
  BY <1>1, Zenon
<1>4. Depth * q - Depth * p > 0 /\ Depth * q - Depth * p < Depth
  BY <1>1, <1>2, <1>3
<1>5. CASE q <= p
  <2>1. Depth * q <= Depth * p
    BY <1>2, <1>3, <1>5
  <2> QED
    BY <1>2, <1>3, <1>4, <2>1
<1>6. CASE q >= p + 1
  <2>1. Depth * q >= Depth * (p + 1) /\ Depth * (p + 1) = Depth * p + Depth
    BY <1>2, <1>3, <1>6
  <2> QED
    BY <1>2, <1>3, <1>4, <2>1
<1> QED
  BY <1>2, <1>3, <1>5, <1>6

-----------------------------------------------------------------------------
(* Control.                                                                 *)

\* Only t moves, to label; a call that goes on keeps its locals.
Jump(t, label) ==
    /\ pc' = [pc EXCEPT ![t] = label]
    /\ ret' \in [Thread -> Back] /\ waiting' \in [Thread -> BOOLEAN]
    /\ held' \in [Thread -> Position] /\ seen' \in [Thread -> Position]
    /\ raised' \in [Thread -> Error]
    /\ \A u \in Thread \ {t} : /\ held'[u] = held[u] /\ seen'[u] = seen[u]
                               /\ raised'[u] = raised[u] /\ ret'[u] = ret[u]
    /\ label[2] # "idle" => held'[t] = held[t]

LEMMA GoJumps ==
    ASSUME ThreadTyped, NEW t \in Thread, NEW call, NEW step, Go(t, call, step)
    PROVE  /\ Jump(t, <<call, step>>)
           /\ raised'[t] \in {raised[t], "None"} /\ (step # "idle" => raised'[t] = raised[t])
<1> USE DEF ThreadTyped, TypeOK
<1>1. CASE step # "idle"
  BY <1>1, Zenon DEF Go, Jump, locals
<1>2. CASE step = "idle"
  <2>1. <<"client", "idle">> \in Back /\ 0 \in Position /\ "None" \in Error
    BY DEF Back, Position, Error
  <2>2. /\ ret' = [ret EXCEPT ![t] = <<"client", "idle">>]
        /\ waiting' = [waiting EXCEPT ![t] = FALSE]
        /\ held' = [held EXCEPT ![t] = 0]
        /\ raised' = [raised EXCEPT ![t] = "None"]
        /\ seen' = [seen EXCEPT ![t] = 0]
        /\ pc' = [pc EXCEPT ![t] = <<call, step>>]
    BY <1>2, Zenon DEF Go
  <2>3. ret' \in [Thread -> Back] /\ waiting' \in [Thread -> BOOLEAN]
    BY <2>1, <2>2, Zenon
  <2>4. held' \in [Thread -> Position] /\ seen' \in [Thread -> Position]
    BY <2>1, <2>2, Zenon
  <2>5. raised' \in [Thread -> Error] /\ raised'[t] = "None"
    BY <2>1, <2>2, Zenon
  <2>6. \A u \in Thread \ {t} : /\ held'[u] = held[u] /\ seen'[u] = seen[u]
                                 /\ raised'[u] = raised[u] /\ ret'[u] = ret[u]
    BY <2>2, Zenon
  <2> QED
    BY <1>2, <2>2, <2>3, <2>4, <2>5, <2>6, Zenon DEF Jump
<1> QED
  BY <1>1, <1>2, Zenon

LEMMA RefusedBack ==
    ASSUME NEW t, NEW s \in Side
    PROVE  RefusedLabel(t, s) \in {<<s, "refused">>, <<"client", "idle">>} \cap Back
BY Zenon DEF RefusedLabel, Back, Side

LEMMA BackIsPair ==
    ASSUME NEW label \in Back
    PROVE  label = <<label[1], label[2]>>
<1>1. label \in {<<"client", "idle">>, <<"client", "notify">>, <<"consumer", "stopped">>,
                 <<"producer", "refused">>, <<"consumer", "refused">>}
  BY Zenon DEF Back
<1> QED
  BY <1>1

LEMMA ReturnJumps ==
    ASSUME ThreadTyped, NEW t \in Thread, Return(t)
    PROVE  /\ Jump(t, ret[t]) /\ ret[t] \in Back
           /\ raised'[t] \in {raised[t], "None"}
<1>1. ret[t] \in Back
  BY Zenon DEF ThreadTyped
<1>2. ret[t] = <<ret[t][1], ret[t][2]>>
  BY <1>1, BackIsPair, Zenon
<1>3. /\ Jump(t, <<ret[t][1], ret[t][2]>>) /\ raised'[t] \in {raised[t], "None"}
  BY GoJumps, Zenon DEF Return
<1> QED
  BY <1>1, <1>2, <1>3, Zenon DEF Jump

LEMMA RefuseJumps ==
    ASSUME ThreadTyped, NEW t \in Thread, NEW s \in Side, Refuse(t, s)
    PROVE  /\ Jump(t, RefusedLabel(t, s))
           /\ raised'[t] \in {raised[t], "None"}
<1>1. RefusedLabel(t, s) = <<RefusedLabel(t, s)[1], RefusedLabel(t, s)[2]>>
  BY RefusedBack
<1>2. /\ Jump(t, <<RefusedLabel(t, s)[1], RefusedLabel(t, s)[2]>>)
      /\ raised'[t] \in {raised[t], "None"}
  BY GoJumps, Zenon DEF Refuse
<1> QED
  BY <1>1, <1>2, Zenon DEF Jump

LEMMA FinishJumps ==
    ASSUME ThreadTyped, NEW t \in Thread, Finish(t)
    PROVE  Jump(t, <<"client", "idle">>)
BY GoJumps, Zenon DEF Finish

LEMMA MaybeStopJumps ==
    ASSUME ThreadTyped, NEW t \in Thread, NEW back \in Back, MaybeStop(t, back)
    PROVE  Jump(t, <<"stop", "draining">>) /\ raised'[t] = raised[t] /\ ret'[t] = back
BY Zenon DEF MaybeStop, Jump, ThreadTyped, TypeOK

LEMMA RaiseJumps ==
    ASSUME ThreadTyped, NEW t \in Thread, NEW back \in Back, NEW error \in Error,
           Raise(t, error, back)
    PROVE  Jump(t, <<"error", "claim">>) /\ raised'[t] = error /\ ret'[t] = back
BY Zenon DEF Raise, Jump, ThreadTyped, TypeOK

\* A label that has nothing to do with a lease.
Outside(label) == label[1] \in Side => label[2] \notin BoundSteps \cup HoldSteps

\* A step of t that leaves arenas, positions and leases alone.
Quiet(t) ==
    /\ UNCHANGED <<queueVars, lease>>
    /\ \A u \in Thread \ {t} : pc'[u] = pc[u] /\ held'[u] = held[u]
    /\ \/ Outside(pc[t]) /\ Outside(pc'[t])
       \/ \E s \in Side :
            \/ pc[t] = <<s, "bound">> /\ pc'[t] = <<s, "lease">>
            \/ pc[t] = <<s, "recheck">> /\ pc'[t] \in {<<s, "examine">>, <<s, "rollback">>}
            \/ pc[t] = <<s, "examine">> /\ pc'[t] \in {<<s, "nothing">>, <<s, "alarm">>}
            \/ /\ pc[t] = <<s, "examine">> /\ pc'[t] = <<s, "claim">>
               /\ Available(s) /\ (s = "producer" => position[s] # MaxFrames)
            \/ /\ pc[t] = <<s, "check">>
               /\ pc'[t] \in {<<s, "commit">>, <<s, "abort">>, <<s, "fail">>}
               /\ held'[t] = held[t]

LEMMA JumpTyped ==
    ASSUME ThreadTyped, NEW t \in Thread, NEW label, label = <<label[1], label[2]>>, Jump(t, label)
    PROVE  /\ Labelled' /\ pc'[t] = label
           /\ \A u \in Thread \ {t} : pc'[u] = pc[u]
BY Zenon DEF ThreadTyped, Jump, Labelled

LEMMA BackOutside ==
    ASSUME NEW label \in Back
    PROVE  Outside(label)
<1>1. label \in {<<"client", "idle">>, <<"client", "notify">>, <<"consumer", "stopped">>,
                 <<"producer", "refused">>, <<"consumer", "refused">>}
  BY Zenon DEF Back
<1> USE DEF Outside, BoundSteps, HoldSteps, Side
<1>2. CASE label = <<"client", "idle">>
  BY <1>2
<1>3. CASE label = <<"client", "notify">>
  BY <1>3
<1>4. CASE label = <<"consumer", "stopped">>
  BY <1>4
<1>5. CASE label \in {<<"producer", "refused">>, <<"consumer", "refused">>}
  BY <1>5
<1> QED
  BY <1>1, <1>2, <1>3, <1>4, <1>5, Zenon

LEMMA InArenaIs ==
    ASSUME Labelled
    PROVE  \A s \in Side : \A n : n \in InArena(s) <=>
              /\ n # 0
              /\ n = lease[s] \/ \E u \in Thread : In(u, s, ArenaSteps) /\ held[u] = n
<1>1. \A u \in Thread, s \in Side : (\E step \in ArenaSteps : At(u, s, step)) <=> In(u, s, ArenaSteps)
  BY DEF At, In, Labelled
<1> QED
  BY <1>1, Zenon DEF InArena, ArenaSteps

LEMMA InArenaWillBe ==
    ASSUME Labelled'
    PROVE  \A s \in Side : \A n : n \in InArena(s)' <=>
              /\ n # 0
              /\ n = lease'[s] \/ \E u \in Thread : In(u, s, ArenaSteps)' /\ held'[u] = n
<1>1. \A u \in Thread, s \in Side : (\E step \in ArenaSteps : At(u, s, step))' <=> In(u, s, ArenaSteps)'
  BY DEF At, In, Labelled
<1> QED
  BY <1>1, Zenon DEF InArena, ArenaSteps

\* A quiet step changes neither arenas nor leases nor who answers for them.
LEMMA QuietKeepsLabels ==
    ASSUME NEW t \in Thread, Quiet(t)
    PROVE  \A u \in Thread, s \in Side :
              /\ In(u, s, BoundSteps)' => In(u, s, BoundSteps)
              /\ Holds(u, s)' => Holds(u, s)
              /\ In(u, s, {"position"})' => In(u, s, {"position"})
              /\ In(u, s, AfterSteps)' <=> In(u, s, AfterSteps)
              /\ In(u, s, ArenaSteps)' <=> In(u, s, ArenaSteps)
              /\ In(u, s, AfterSteps) \/ In(u, s, ArenaSteps) => held'[u] = held[u]
              /\ In(u, s, {"claim"})' => \/ In(u, s, {"claim"})
                                         \/ Available(s) /\ (s = "producer" => position[s] # MaxFrames)
<1> SUFFICES ASSUME NEW s \in Side
             PROVE  /\ In(t, s, BoundSteps)' => In(t, s, BoundSteps)
                    /\ Holds(t, s)' => Holds(t, s)
                    /\ In(t, s, {"position"})' => In(t, s, {"position"})
                    /\ In(t, s, AfterSteps)' <=> In(t, s, AfterSteps)
                    /\ In(t, s, ArenaSteps)' <=> In(t, s, ArenaSteps)
                    /\ In(t, s, AfterSteps) \/ In(t, s, ArenaSteps) => held'[t] = held[t]
                    /\ In(t, s, {"claim"})' => \/ In(t, s, {"claim"})
                                               \/ Available(s) /\ (s = "producer" => position[s] # MaxFrames)
  BY DEF Quiet, In, Holds
<1> USE DEF In, Holds, BoundSteps, HoldSteps, AfterSteps, ArenaSteps
<1>1. CASE Outside(pc[t]) /\ Outside(pc'[t])
  BY <1>1, Zenon DEF Outside
<1>2. CASE ~(Outside(pc[t]) /\ Outside(pc'[t]))
  BY <1>2 DEF Quiet
<1> QED
  BY <1>1, <1>2, Zenon

LEMMA QuietKeepsOwners ==
    ASSUME IInv, NEW t \in Thread, Quiet(t)
    PROVE  OwnInv'
<1>1. UNCHANGED <<boundThread, leaseActive, lease>>
  BY Zenon DEF Quiet, queueVars
<1> QED
  BY <1>1, QuietKeepsLabels DEF IInv, OwnInv

LEMMA QuietKeepsPositions ==
    ASSUME IInv, NEW t \in Thread, Quiet(t)
    PROVE  PositionInv'
<1>1. position["producer"] \in 0 .. MaxFrames /\ position["consumer"] \in 0 .. MaxFrames
  BY Zenon DEF IInv, ThreadTyped, TypeOK, Position, Side
<1>2. UNCHANGED position
  BY Zenon DEF Quiet, queueVars
<1>3. \A u \in Thread, s \in Side :
        In(u, s, {"claim"})' => \/ In(u, s, {"claim"})
                                \/ Available(s) /\ (s = "producer" => position[s] # MaxFrames)
  BY QuietKeepsLabels, Zenon
<1> QED
  BY <1>1, <1>2, <1>3 DEF IInv, PositionInv, Side, Published, Completed, Available,
     HasProducerCapacity, HasConsumerWork

LEMMA QuietKeepsArenas ==
    ASSUME IInv, NEW t \in Thread, Quiet(t), Labelled'
    PROVE  ArenaInv'
<1>1. \A u \in Thread, s \in Side : In(u, s, AfterSteps)' <=> In(u, s, AfterSteps)
  BY QuietKeepsLabels, Zenon
<1>2. \A u \in Thread, s \in Side : In(u, s, ArenaSteps)' <=> In(u, s, ArenaSteps)
  BY QuietKeepsLabels, Zenon
<1>3. \A u \in Thread, s \in Side :
        In(u, s, AfterSteps) \/ In(u, s, ArenaSteps) => held'[u] = held[u]
  BY QuietKeepsLabels, Zenon
<1>4. UNCHANGED <<arenaState, arenaSequence, position, lease>>
  BY Zenon DEF Quiet, queueVars, arenaVars
<1>5. \A s \in Side : InArena(s)' = InArena(s)
  <2> SUFFICES ASSUME NEW s \in Side PROVE \A n : n \in InArena(s)' <=> n \in InArena(s)
    BY Zenon
  <2>1. \A n : (\E u \in Thread : In(u, s, ArenaSteps)' /\ held'[u] = n) <=>
               (\E u \in Thread : In(u, s, ArenaSteps) /\ held[u] = n)
    BY <1>2, <1>3, Zenon
  <2> QED
    BY <1>4, <2>1, InArenaIs, InArenaWillBe, Zenon DEF IInv, ThreadTyped
<1> QED
  BY <1>1, <1>2, <1>3, <1>4, <1>5
     DEF IInv, ArenaInv, TransitInv, StateInv, ProducerInv, ConsumerInv, HeldInv, Published,
         Completed, Side

\* Steps away from every lease.
LEMMA CalmStep ==
    ASSUME IInv, NEW t \in Thread, UNCHANGED <<threadingMode, queueVars, lease>>,
           NEW label, label = <<label[1], label[2]>>, Jump(t, label),
           Outside(pc[t]), Outside(label),
           lifecycle' \in Lifecycle, errorClaimed' \in BOOLEAN, errorReady' \in BOOLEAN,
           firstError' \in Error, moved' \in [Thread -> BOOLEAN]
    PROVE  IInv'
<1>1. Labelled' /\ pc'[t] = label /\ \A u \in Thread \ {t} : pc'[u] = pc[u]
  BY JumpTyped, Zenon DEF IInv
<1>2. Quiet(t)
  BY <1>1, Zenon DEF Quiet, Jump
<1>3. ThreadTyped'
  BY <1>1, Zenon DEF IInv, ThreadTyped, TypeOK, Jump, queueVars, arenaVars
<1> QED
  BY <1>1, <1>2, <1>3, QuietKeepsOwners, QuietKeepsPositions, QuietKeepsArenas, Zenon DEF IInv

\* Steps of a thread that answers for a lease, and leaves it as it is.
LEMMA LeaseStep ==
    ASSUME IInv, NEW t \in Thread, UNCHANGED <<threadingMode, lease, lifecycle, errorVars>>,
           moved' \in [Thread -> BOOLEAN],
           NEW label, label = <<label[1], label[2]>>, Jump(t, label), Quiet(t)
    PROVE  IInv'
<1>1. Labelled' /\ pc'[t] = label /\ \A u \in Thread \ {t} : pc'[u] = pc[u]
  BY JumpTyped, Zenon DEF IInv
<1>2. UNCHANGED queueVars
  BY Zenon DEF Quiet
<1>3. ThreadTyped'
  BY <1>1, <1>2, Zenon DEF IInv, ThreadTyped, TypeOK, Jump, queueVars, arenaVars, errorVars
<1> QED
  BY <1>1, <1>3, QuietKeepsOwners, QuietKeepsPositions, QuietKeepsArenas, Zenon DEF IInv

LEMMA OutsideCalls ==
    ASSUME NEW call \in {"client", "stop", "error", "snapshot"}, NEW step
    PROVE  Outside(<<call, step>>)
BY DEF Outside, Side

LEMMA OutsideSides ==
    ASSUME NEW s \in Side,
           NEW step \in {"lifecycle", "bind", "refused", "epoch", "again", "sleep", "stopped"}
    PROVE  Outside(<<s, step>>)
BY Zenon DEF Outside, Side, BoundSteps, HoldSteps

LEMMA NotifyTyped ==
    ASSUME IInv
    PROVE  /\ lifecycle \in Lifecycle /\ errorClaimed \in BOOLEAN /\ errorReady \in BOOLEAN
           /\ firstError \in Error /\ moved \in [Thread -> BOOLEAN]
           /\ [u \in Thread |-> TRUE] \in [Thread -> BOOLEAN]
           /\ \A t \in Thread : [moved EXCEPT ![t] = FALSE] \in [Thread -> BOOLEAN]
           /\ \A t \in Thread : raised[t] \in Error
BY Zenon DEF IInv, ThreadTyped, TypeOK

\* A call of the shared helpers goes on outside, or returns there.
LEMMA ReturnCalm ==
    ASSUME IInv, NEW t \in Thread, UNCHANGED <<threadingMode, queueVars, lease>>,
           NEW call \in {"client", "stop", "error", "snapshot"}, NEW step, At(t, call, step),
           Return(t) \/ \E next : Go(t, call, next),
           lifecycle' \in Lifecycle, errorClaimed' \in BOOLEAN, errorReady' \in BOOLEAN,
           firstError' \in Error, moved' \in [Thread -> BOOLEAN]
    PROVE  IInv'
<1>1. Outside(pc[t])
  BY OutsideCalls DEF At
<1>2. CASE Return(t)
  BY <1>1, <1>2, ReturnJumps, BackIsPair, BackOutside, CalmStep, Zenon DEF IInv
<1>3. ASSUME NEW next, Go(t, call, next) PROVE IInv'
  <2>1. Jump(t, <<call, next>>)
    BY <1>3, GoJumps, Zenon DEF IInv
  <2> QED
    BY <1>1, <2>1, OutsideCalls, CalmStep, Zenon
<1> QED
  BY <1>2, <1>3, Zenon

LEMMA StopCalm ==
    ASSUME IInv, NEW t \in Thread, UNCHANGED threadingMode, MaybePublishStopped(t)
    PROVE  IInv'
<1> USE NotifyTyped DEF errorVars
<1>1. CASE StopSeesDraining(t)
  BY <1>1, ReturnCalm, Zenon DEF StopSeesDraining, StopUnless, OnlyReads
<1>2. CASE StopSeesNoProducer(t)
  BY <1>2, ReturnCalm, Zenon DEF StopSeesNoProducer, StopUnless, OnlyReads
<1>3. CASE StopSeesNoConsumer(t)
  BY <1>3, ReturnCalm, Zenon DEF StopSeesNoConsumer, StopUnless, OnlyReads
<1>4. CASE StopLoadsCompleted(t)
  <2>1. position["consumer"] \in Position
    BY Zenon DEF IInv, ThreadTyped, TypeOK, Side
  <2>2. Jump(t, <<"stop", "work">>)
    <3>1. /\ pc' = [pc EXCEPT ![t] = <<"stop", "work">>]
          /\ seen' = [seen EXCEPT ![t] = position["consumer"]]
          /\ UNCHANGED <<ret, waiting, held, raised>>
      BY <1>4, Zenon DEF StopLoadsCompleted
    <3>2. seen \in [Thread -> Position] /\ seen'[t] = position["consumer"]
      BY <3>1, Zenon DEF IInv, ThreadTyped, TypeOK
    <3> QED
      BY <2>1, <3>1, <3>2, Zenon DEF Jump, IInv, ThreadTyped, TypeOK
  <2> QED
    BY <1>4, <2>2, OutsideCalls, CalmStep DEF StopLoadsCompleted, OnlyReads, At
<1>5. CASE StopSeesNoWork(t)
  BY <1>5, ReturnCalm, Zenon DEF StopSeesNoWork, StopUnless, OnlyReads
<1>6. CASE StopPublish(t)
  BY <1>6, ReturnCalm, Zenon DEF StopPublish, Lifecycle
<1>7. CASE StopNotify(t)
  BY <1>7, ReturnCalm, Zenon DEF StopNotify, NotifyStateChange
<1> QED
  BY <1>1, <1>2, <1>3, <1>4, <1>5, <1>6, <1>7, Zenon DEF MaybePublishStopped

LEMMA ErrorCalm ==
    ASSUME IInv, NEW t \in Thread, UNCHANGED threadingMode, PublishError(t)
    PROVE  IInv'
<1> USE NotifyTyped DEF errorVars
<1>1. CASE ErrorClaim(t)
  BY <1>1, ReturnCalm, Zenon DEF ErrorClaim
<1>2. CASE ErrorFails(t)
  BY <1>2, ReturnCalm, Zenon DEF ErrorFails, Lifecycle
<1>3. CASE ErrorReady(t)
  BY <1>3, ReturnCalm, Zenon DEF ErrorReady
<1>4. CASE ErrorNotify(t)
  BY <1>4, ReturnCalm, Zenon DEF ErrorNotify, NotifyStateChange
<1>5. CASE ErrorWait(t)
  BY <1>5, ReturnCalm, Zenon DEF ErrorWait, OnlyReads
<1> QED
  BY <1>1, <1>2, <1>3, <1>4, <1>5, Zenon DEF PublishError

LEMMA SnapshotCalm ==
    ASSUME IInv, NEW t \in Thread, UNCHANGED threadingMode, Snapshot(t)
    PROVE  IInv'
<1> USE NotifyTyped DEF errorVars
<1>1. ASSUME NEW step, NEW next, NEW field, NEW value, Observe(t, step, next, field, value)
      PROVE  IInv'
  BY <1>1, ReturnCalm, Zenon DEF Observe
<1>2. CASE SnapshotEpoch(t)
  BY <1>2, ReturnCalm, Zenon DEF SnapshotEpoch
<1>3. CASE SnapshotLifecycle(t) \/ SnapshotError(t) \/ SnapshotLifecycleAgain(t)
           \/ SnapshotCompleted(t) \/ SnapshotSubmitted(t)
  BY <1>1, <1>3, Zenon DEF SnapshotLifecycle, SnapshotError, SnapshotLifecycleAgain, SnapshotCompleted,
     SnapshotSubmitted
<1>4. CASE SnapshotClaimed(t) \/ SnapshotReady(t) \/ SnapshotWait(t) \/ SnapshotVerify(t)
  BY <1>4, ReturnCalm DEF SnapshotClaimed, SnapshotReady, SnapshotWait, SnapshotVerify, OnlyReads
<1>5. CASE SnapshotReturn(t)
  <2>1. Jump(t, <<"client", "idle">>)
    BY <1>5, FinishJumps, Zenon DEF SnapshotReturn, IInv
  <2> QED
    BY <1>5, <2>1, OutsideCalls, CalmStep DEF SnapshotReturn, At
<1> QED
  BY <1>2, <1>3, <1>4, <1>5, Zenon DEF Snapshot

\* The steps of try_begin_* and wait_begin_* that leave the lease alone.
LEMMA BeginCalm ==
    ASSUME IInv, NEW t \in Thread, UNCHANGED threadingMode, NEW s \in Side,
           \/ TryLifecycle(t, s) \/ Refused(t, s) \/ LoadEpoch(t, s) \/ Again(t, s)
           \/ Awake(t, s) \/ Stopped(t)
    PROVE  IInv'
<1> USE NotifyTyped DEF errorVars
<1>0. /\ "consumer" \in Side /\ ThreadTyped
      /\ \A r \in Side : <<r, "stopped">> \in Back \/ r = "producer"
  BY Zenon DEF IInv, Side, Back
<1>1. ASSUME NEW r \in Side, NEW from \in {"lifecycle", "refused", "epoch", "again", "sleep", "stopped"},
             At(t, r, from),
             UNCHANGED <<queueVars, errorVars, lifecycle, lease>>, moved' \in [Thread -> BOOLEAN],
             NEW label, label = <<label[1], label[2]>>, Jump(t, label), Outside(label)
      PROVE  IInv'
  <2>1. Outside(<<r, from>>) /\ pc[t] = <<r, from>>
    BY <1>1, OutsideSides, Zenon DEF At
  <2>2. Outside(pc[t])
    BY <2>1, Zenon
  <2> QED
    BY <1>1, <2>2, CalmStep, Zenon
<1>2. ASSUME NEW r \in Side, NEW from \in {"lifecycle", "refused", "epoch", "again", "sleep", "stopped"},
             At(t, r, from),
             UNCHANGED <<queueVars, errorVars, lifecycle, lease>>, moved' \in [Thread -> BOOLEAN],
             NEW step \in {"lifecycle", "bind", "refused", "epoch", "again", "sleep", "stopped"},
             Go(t, r, step)
      PROVE  IInv'
  <2>1. Jump(t, <<r, step>>)
    BY <1>0, <1>2, GoJumps, Zenon
  <2>2. Outside(<<r, step>>)
    BY OutsideSides, Zenon
  <2> QED
    BY <1>1, <1>2, <2>1, <2>2
<1>3. ASSUME NEW r \in Side, NEW from \in {"lifecycle", "refused", "epoch", "again", "sleep", "stopped"},
             At(t, r, from), OnlyReads, Finish(t)
      PROVE  IInv'
  BY <1>0, <1>1, <1>3, FinishJumps, OutsideCalls, Zenon DEF OnlyReads
<1>4. CASE TryLifecycle(t, s)
  <2>1. CASE Refuse(t, s)
    <3>1. Jump(t, RefusedLabel(t, s)) /\ RefusedLabel(t, s) \in Back
      BY <1>0, <2>1, RefuseJumps, RefusedBack, Zenon
    <3> QED
      BY <1>1, <1>4, <3>1, BackIsPair, BackOutside, Zenon DEF TryLifecycle, OnlyReads
  <2> QED
    BY <1>2, <1>4, <2>1, Zenon DEF TryLifecycle, OnlyReads
<1>5. CASE Refused(t, s)
  BY <1>2, <1>3, <1>5, Zenon DEF Refused, OnlyReads
<1>6. CASE LoadEpoch(t, s)
  BY <1>2, <1>6, Zenon DEF LoadEpoch
<1>7. CASE Again(t, s)
  <2>1. CASE s = "consumer" /\ MaybeStop(t, <<s, "stopped">>)
    <3>1. Jump(t, <<"stop", "draining">>)
      BY <1>0, <2>1, MaybeStopJumps, Zenon
    <3> QED
      BY <1>1, <1>7, <3>1, OutsideCalls, Zenon DEF Again, OnlyReads
  <2> QED
    BY <1>2, <1>7, <2>1, Zenon DEF Again, OnlyReads, Side
<1>8. CASE Awake(t, s)
  BY <1>2, <1>8, Zenon DEF Awake, OnlyReads
<1>9. CASE Stopped(t)
  BY <1>0, <1>2, <1>3, <1>9, Zenon DEF Stopped, OnlyReads
<1> QED
  BY <1>4, <1>5, <1>6, <1>7, <1>8, <1>9, Zenon

\* The steps that only look at what the lease protects.
LEMMA LookCalm ==
    ASSUME IInv, NEW t \in Thread, UNCHANGED threadingMode, NEW s \in Side,
           Bound(t, s) \/ Recheck(t, s) \/ Examine(t, s) \/ CommitCheck(t, s)
    PROVE  IInv'
<1> USE NotifyTyped DEF errorVars
<1>0. ThreadTyped
  BY Zenon DEF IInv
<1>1. ASSUME NEW step, Go(t, s, step), UNCHANGED <<queueVars, lease>>
      PROVE  /\ Jump(t, <<s, step>>) /\ pc'[t] = <<s, step>>
             /\ \A u \in Thread \ {t} : pc'[u] = pc[u] /\ held'[u] = held[u]
             /\ step # "idle" => held'[t] = held[t]
  <2>1. Jump(t, <<s, step>>)
    BY <1>0, <1>1, GoJumps, Zenon
  <2> QED
    BY <1>0, <2>1, JumpTyped, Zenon DEF Jump
<1>2. CASE Bound(t, s)
  <2>1. Go(t, s, "lease") /\ pc[t] = <<s, "bound">> /\ UNCHANGED <<queueVars, lease, lifecycle, errorVars>>
        /\ moved' \in [Thread -> BOOLEAN]
    BY <1>2, Zenon DEF Bound, NotifyStateChange, At
  <2>2. Quiet(t)
    BY <1>1, <2>1, Zenon DEF Quiet
  <2> QED
    BY <1>1, <2>1, <2>2, LeaseStep, Zenon
<1>3. CASE Recheck(t, s)
  <2>1. PICK step \in {"examine", "rollback"} : Go(t, s, step)
    BY <1>3, Zenon DEF Recheck
  <2>2. pc[t] = <<s, "recheck">> /\ UNCHANGED <<queueVars, lease, lifecycle, errorVars, moved>>
    BY <1>3, Zenon DEF Recheck, OnlyReads, At
  <2>3. Quiet(t)
    BY <1>1, <2>1, <2>2, Zenon DEF Quiet
  <2> QED
    BY <1>1, <2>1, <2>2, <2>3, LeaseStep, Zenon
<1>4. CASE Examine(t, s)
  <2>1. PICK step \in {"nothing", "alarm", "claim"} :
            /\ Go(t, s, step)
            /\ step = "claim" => Available(s) /\ (s = "producer" => position[s] # MaxFrames)
    BY <1>4, Zenon DEF Examine
  <2>2. pc[t] = <<s, "examine">> /\ UNCHANGED <<queueVars, lease, lifecycle, errorVars, moved>>
    BY <1>4, Zenon DEF Examine, OnlyReads, At
  <2>3. /\ pc'[t] = <<s, step>>
        /\ \A u \in Thread \ {t} : pc'[u] = pc[u] /\ held'[u] = held[u]
    BY <1>1, <2>1, <2>2, Zenon
  <2>4. \/ pc'[t] \in {<<s, "nothing">>, <<s, "alarm">>}
        \/ pc'[t] = <<s, "claim">> /\ Available(s) /\ (s = "producer" => position[s] # MaxFrames)
    BY <2>1, <2>3, Zenon
  <2>6. Quiet(t)
    BY <2>2, <2>3, <2>4, Zenon DEF Quiet
  <2> QED
    BY <1>1, <2>1, <2>2, <2>6, LeaseStep, Zenon
<1>5. CASE CommitCheck(t, s)
  <2>1. PICK step \in {"commit", "abort", "fail"} : Go(t, s, step)
    BY <1>5, Zenon DEF CommitCheck
  <2>2. pc[t] = <<s, "check">> /\ UNCHANGED <<queueVars, lease, lifecycle, errorVars, moved>>
    BY <1>5, Zenon DEF CommitCheck, OnlyReads, At
  <2>3. /\ pc'[t] = <<s, step>> /\ held'[t] = held[t]
        /\ \A u \in Thread \ {t} : pc'[u] = pc[u] /\ held'[u] = held[u]
    BY <1>1, <2>1, <2>2, Zenon
  <2>4. pc'[t] \in {<<s, "commit">>, <<s, "abort">>, <<s, "fail">>}
    BY <2>1, <2>3, Zenon
  <2>5. Quiet(t)
    BY <2>2, <2>3, <2>4, Zenon DEF Quiet
  <2> QED
    BY <1>1, <2>1, <2>2, <2>5, LeaseStep, Zenon
<1> QED
  BY <1>2, <1>3, <1>4, <1>5, Zenon

\* A client enters a call without its lease, or a call ends.
LEMMA CallCalm ==
    ASSUME IInv, NEW t \in Thread, UNCHANGED threadingMode,
           \/ \E s \in Side, wait \in BOOLEAN : Begin(t, s, wait)
           \/ RequestShutdown(t) \/ ReportError(t) \/ TakeSnapshot(t) \/ FinalNotify(t)
    PROVE  IInv'
<1> USE NotifyTyped DEF errorVars
<1>0. ThreadTyped /\ <<"client", "notify">> \in Back /\ <<"client", "idle">> \in Back
      /\ "ClientError" \in Error /\ "Draining" \in Lifecycle
  BY Zenon DEF IInv, Back, Error, Lifecycle
<1>1. ASSUME NEW s \in Side, NEW wait \in BOOLEAN, Begin(t, s, wait) PROVE IInv'
  <2>1. Jump(t, <<s, "lifecycle">>)
    BY <1>0, <1>1, Zenon DEF Begin, Jump, ThreadTyped, TypeOK
  <2>2. Outside(pc[t])
    BY <1>1, OutsideCalls DEF Begin, Idle, At
  <2>3. Outside(<<s, "lifecycle">>)
    BY OutsideSides, Zenon
  <2> QED
    BY <1>1, <2>1, <2>2, <2>3, CalmStep, Zenon DEF Begin, OnlyReads
<1>2. CASE RequestShutdown(t)
  <2>1. Jump(t, <<"stop", "draining">>)
    BY <1>0, <1>2, MaybeStopJumps, Zenon DEF RequestShutdown
  <2> QED
    BY <1>0, <1>2, <2>1, OutsideCalls, CalmStep DEF RequestShutdown, Idle, At
<1>3. CASE ReportError(t)
  <2>1. Jump(t, <<"error", "claim">>)
    BY <1>0, <1>3, RaiseJumps, Zenon DEF ReportError
  <2> QED
    BY <1>3, <2>1, OutsideCalls, CalmStep DEF ReportError, OnlyReads, Idle, At
<1>4. CASE TakeSnapshot(t)
  <2>1. Jump(t, <<"snapshot", "epoch">>)
    BY <1>0, <1>4, GoJumps, Zenon DEF TakeSnapshot
  <2> QED
    BY <1>4, <2>1, OutsideCalls, CalmStep DEF TakeSnapshot, OnlyReads, Idle, At
<1>5. CASE FinalNotify(t)
  <2>1. Jump(t, <<"client", "idle">>)
    BY <1>0, <1>5, FinishJumps, Zenon DEF FinalNotify
  <2> QED
    BY <1>5, <2>1, OutsideCalls, CalmStep DEF FinalNotify, NotifyStateChange, At
<1> QED
  BY <1>1, <1>2, <1>3, <1>4, <1>5

-----------------------------------------------------------------------------
(* The steps that take and lower a lease.                                   *)

\* Arenas and positions are as before, and so is what the leases may touch.
LEMMA SameArenas ==
    ASSUME IInv, UNCHANGED <<arenaVars, position>>,
           \A u \in Thread, s \in Side :
              /\ In(u, s, AfterSteps)' <=> In(u, s, AfterSteps)
              /\ In(u, s, AfterSteps) => held'[u] = held[u]
              /\ In(u, s, ArenaSteps)' => held'[u] # 0
              /\ In(u, s, {"claim"})' => In(u, s, {"claim"}),
           \A s \in Side : InArena(s)' = InArena(s)
    PROVE  PositionInv' /\ ArenaInv'
<1>1. UNCHANGED <<arenaState, arenaSequence, position>>
  BY Zenon DEF arenaVars
<1>2. PositionInv'
  BY <1>1, Zenon DEF IInv, PositionInv, Published, Completed, Side
<1>3. ArenaInv'
  BY <1>1 DEF IInv, ArenaInv, TransitInv, StateInv, ProducerInv, ConsumerInv, HeldInv,
              Published, Completed, Side
<1> QED
  BY <1>2, <1>3, Zenon

\* t is where it was with its arena.
LEMMA ArenasUntouched ==
    ASSUME IInv, NEW t \in Thread, UNCHANGED <<arenaVars, position, lease>>, Labelled',
           \A u \in Thread \ {t} : pc'[u] = pc[u] /\ held'[u] = held[u],
           \A s \in Side :
              /\ In(t, s, AfterSteps)' <=> In(t, s, AfterSteps)
              /\ In(t, s, ArenaSteps)' <=> In(t, s, ArenaSteps)
              /\ In(t, s, AfterSteps) \/ In(t, s, ArenaSteps) => held'[t] = held[t]
              /\ ~In(t, s, {"claim"})'
    PROVE  PositionInv' /\ ArenaInv'
<1>1. \A u \in Thread, s \in Side : In(u, s, AfterSteps)' <=> In(u, s, AfterSteps)
  BY DEF In
<1>2. \A u \in Thread, s \in Side : In(u, s, ArenaSteps)' <=> In(u, s, ArenaSteps)
  BY Zenon DEF In
<1>3. \A u \in Thread, s \in Side :
        In(u, s, AfterSteps) \/ In(u, s, ArenaSteps) => held'[u] = held[u]
  BY Zenon DEF In
<1>4. \A u \in Thread, s \in Side : In(u, s, {"claim"})' => In(u, s, {"claim"})
  BY Zenon DEF In
<1>5. \A s \in Side : InArena(s)' = InArena(s)
  <2> SUFFICES ASSUME NEW s \in Side PROVE \A n : n \in InArena(s)' <=> n \in InArena(s)
    BY Zenon
  <2>1. \A n : (\E u \in Thread : In(u, s, ArenaSteps)' /\ held'[u] = n) <=>
               (\E u \in Thread : In(u, s, ArenaSteps) /\ held[u] = n)
    BY <1>2, <1>3, Zenon
  <2> QED
    BY <2>1, InArenaIs, InArenaWillBe DEF IInv, ThreadTyped
<1>6. \A u \in Thread, s \in Side : In(u, s, ArenaSteps) => held[u] # 0
  BY Zenon DEF IInv, ArenaInv, HeldInv
<1> QED
  BY <1>1, <1>2, <1>3, <1>4, <1>5, <1>6, SameArenas, Zenon

\* t goes to label with arenas, positions and lease objects as they are.
LEMMA HandoverStep ==
    ASSUME IInv, NEW t \in Thread,
           UNCHANGED <<threadingMode, lifecycle, arenaVars, position, errorVars, lease, moved>>,
           leaseActive' \in [Side -> BOOLEAN], boundThread' \in [Side -> Thread \cup {NoThread}],
           NEW label, label = <<label[1], label[2]>>, Jump(t, label),
           \A s \in Side : /\ ~In(t, s, ArenaSteps)
                           /\ label[1] = s => label[2] \notin ArenaSteps \cup {"claim"}
                           /\ label[1] = s /\ label[2] \in AfterSteps <=> In(t, s, AfterSteps),
           label[2] = "idle" => \A s \in Side : ~In(t, s, AfterSteps)
    PROVE  /\ ThreadTyped' /\ PositionInv' /\ ArenaInv'
           /\ pc'[t] = label /\ \A u \in Thread \ {t} : pc'[u] = pc[u]
<1>1. Labelled' /\ pc'[t] = label /\ \A u \in Thread \ {t} : pc'[u] = pc[u]
  BY JumpTyped, Zenon DEF IInv
<1>2. ThreadTyped'
  BY <1>1, Zenon DEF IInv, ThreadTyped, TypeOK, Jump, arenaVars, errorVars
<1>3. \A s \in Side :
        /\ In(t, s, AfterSteps)' <=> In(t, s, AfterSteps)
        /\ In(t, s, ArenaSteps)' <=> In(t, s, ArenaSteps)
        /\ ~In(t, s, {"claim"})'
  BY <1>1, Zenon DEF In
<1>4. \A s \in Side : In(t, s, AfterSteps) \/ In(t, s, ArenaSteps) => held'[t] = held[t]
  BY Zenon DEF Jump
<1>5. \A u \in Thread \ {t} : pc'[u] = pc[u] /\ held'[u] = held[u]
  BY <1>1, Zenon DEF Jump
<1> QED
  BY <1>1, <1>2, <1>3, <1>4, <1>5, ArenasUntouched, Zenon

LEMMA BindKeepsIInv ==
    ASSUME IInv, NEW t \in Thread, UNCHANGED threadingMode, NEW s \in Side, Bind(t, s)
    PROVE  IInv'
<1>0. /\ ThreadTyped /\ RefusedLabel(t, s) \in Back
      /\ ThreadViolation(s) \in Error /\ "ThreadDomainOverlap" \in Error
      /\ pc[t] = <<s, "bind">>
  BY RefusedBack, Zenon DEF IInv, ThreadViolation, Error, Bind, At
<1>1. PICK label \in {<<"error", "claim">>, <<s, "lease">>, <<s, "bound">>} :
        /\ Jump(t, label)
        /\ \/ boundThread' = boundThread /\ label = <<"error", "claim">>
           \/ /\ boundThread[s] \in {NoThread, t}
              /\ boundThread' = [boundThread EXCEPT ![s] = t]
  <2>1. CASE UNCHANGED boundThread /\ \/ Raise(t, "ThreadDomainOverlap", RefusedLabel(t, s))
                                      \/ Raise(t, ThreadViolation(s), RefusedLabel(t, s))
    <3>1. Jump(t, <<"error", "claim">>)
      BY <1>0, <2>1, RaiseJumps, Zenon
    <3> QED
      BY <2>1, <3>1, Zenon
  <2>2. CASE /\ boundThread[s] \in {NoThread, t}
             /\ boundThread' = [boundThread EXCEPT ![s] = t]
             /\ Go(t, s, IF boundThread[s] = t THEN "lease" ELSE "bound")
    <3>1. Jump(t, <<s, "lease">>) \/ Jump(t, <<s, "bound">>)
      BY <1>0, <2>2, GoJumps, Zenon
    <3> QED
      BY <2>2, <3>1, Zenon
  <2> QED
    BY <2>1, <2>2, Zenon DEF Bind
<1>2. /\ UNCHANGED <<lifecycle, arenaVars, position, leaseActive, errorVars, lease, moved>>
      /\ leaseActive \in [Side -> BOOLEAN] /\ boundThread \in [Side -> Thread \cup {NoThread}]
      /\ boundThread' \in [Side -> Thread \cup {NoThread}]
  BY <1>0, <1>1 DEF Bind, ThreadTyped, TypeOK
<1>3. /\ ThreadTyped' /\ PositionInv' /\ ArenaInv'
      /\ pc'[t] = label /\ \A u \in Thread \ {t} : pc'[u] = pc[u]
  BY <1>0, <1>1, <1>2, HandoverStep DEF In, ArenaSteps, AfterSteps, Side
<1>4. \A r \in Side :
        /\ ~Holds(t, r)' /\ ~In(t, r, {"position"})'
        /\ In(t, r, BoundSteps)' => boundThread'[r] = t
  BY <1>0, <1>1, <1>2, <1>3 DEF In, Holds, BoundSteps, HoldSteps, Side
<1>5. \A r \in Side, u \in Thread \ {t} :
        /\ Holds(u, r)' <=> Holds(u, r)
        /\ In(u, r, {"position"})' <=> In(u, r, {"position"})
        /\ In(u, r, BoundSteps)' <=> In(u, r, BoundSteps)
  BY <1>3, Zenon DEF In, Holds
<1>6. \A r \in Side, u \in Thread \ {t} : boundThread[r] = u => boundThread'[r] = u
  BY <1>1, <1>2, FrameQueueAssumption
<1>7. OwnInv'
  BY <1>2, <1>4, <1>5, <1>6 DEF IInv, OwnInv
<1> QED
  BY <1>3, <1>7, Zenon DEF IInv

LEMMA TakeLeaseKeepsIInv ==
    ASSUME IInv, NEW t \in Thread, UNCHANGED threadingMode, NEW s \in Side, TakeLease(t, s)
    PROVE  IInv'
<1>0. /\ ThreadTyped /\ RefusedLabel(t, s) \in Back /\ LeaseOverlap(s) \in Error
      /\ pc[t] = <<s, "lease">>
  BY RefusedBack, Zenon DEF IInv, LeaseOverlap, Error, TakeLease, At
<1>1. PICK label \in {<<"error", "claim">>, <<s, "recheck">>} :
        /\ Jump(t, label)
        /\ label = <<"error", "claim">> <=> leaseActive[s]
  <2>1. CASE leaseActive[s]
    <3>1. Jump(t, <<"error", "claim">>)
      BY <1>0, <2>1, RaiseJumps, Zenon DEF TakeLease
    <3> QED
      BY <2>1, <3>1, Zenon
  <2>2. CASE ~leaseActive[s]
    <3>1. Jump(t, <<s, "recheck">>)
      BY <1>0, <2>2, GoJumps, Zenon DEF TakeLease
    <3> QED
      BY <2>2, <3>1, Zenon DEF Side
  <2> QED
    BY <2>1, <2>2, Zenon
<1>2. /\ UNCHANGED <<lifecycle, arenaVars, position, boundThread, errorVars, lease, moved>>
      /\ leaseActive \in [Side -> BOOLEAN] /\ boundThread \in [Side -> Thread \cup {NoThread}]
      /\ leaseActive' = [leaseActive EXCEPT ![s] = TRUE]
      /\ leaseActive' \in [Side -> BOOLEAN]
  BY <1>0, Zenon DEF TakeLease, ThreadTyped, TypeOK
<1>3. /\ ThreadTyped' /\ PositionInv' /\ ArenaInv'
      /\ pc'[t] = label /\ \A u \in Thread \ {t} : pc'[u] = pc[u]
  BY <1>0, <1>1, <1>2, HandoverStep DEF In, ArenaSteps, AfterSteps, Side
<1>4. \A r \in Side :
        /\ ~In(t, r, {"position"})'
        /\ In(t, r, BoundSteps)' => In(t, r, BoundSteps)
        /\ Holds(t, r)' => r = s /\ ~leaseActive[s]
  BY <1>0, <1>1, <1>3 DEF In, Holds, BoundSteps, HoldSteps, Side
<1>5. \A r \in Side, u \in Thread \ {t} :
        /\ Holds(u, r)' <=> Holds(u, r)
        /\ In(u, r, {"position"})' <=> In(u, r, {"position"})
        /\ In(u, r, BoundSteps)' <=> In(u, r, BoundSteps)
  BY <1>3, Zenon DEF In, Holds
<1>6. In(t, s, BoundSteps) /\ \A u \in Thread : In(u, s, {"position"}) => In(u, s, BoundSteps)
  BY <1>0 DEF In, BoundSteps
<1>7. \A u \in Thread \ {t} : ~In(u, s, {"position"})
  BY <1>6, Zenon DEF IInv, OwnInv
<1>8. OwnInv'
  BY <1>2, <1>4, <1>5, <1>7 DEF IInv, OwnInv
<1> QED
  BY <1>3, <1>8, Zenon DEF IInv

\* Whoever answers for the lease lowers it, and keeps nothing of it.
LEMMA LowerKeepsIInv ==
    ASSUME IInv, NEW t \in Thread, UNCHANGED threadingMode, NEW s \in Side,
           NEW from \in {"rollback", "nothing", "alarm", "lower", "aborted", "failed"},
           pc[t] = <<s, from>>, LowerLease(s),
           NEW label, label = <<label[1], label[2]>>, Jump(t, label),
           \/ from # "lower" /\ Outside(label)
           \/ from = "lower" /\ label = <<s, "position">>
    PROVE  IInv'
<1>1. /\ UNCHANGED <<lifecycle, arenaVars, position, boundThread, errorVars, lease, moved>>
      /\ leaseActive \in [Side -> BOOLEAN] /\ boundThread \in [Side -> Thread \cup {NoThread}]
      /\ leaseActive' = [leaseActive EXCEPT ![s] = FALSE]
      /\ leaseActive' \in [Side -> BOOLEAN]
  BY Zenon DEF LowerLease, IInv, ThreadTyped, TypeOK
<1>2. \A r \in Side :
        /\ ~In(t, r, ArenaSteps)
        /\ label[1] = r => label[2] \notin ArenaSteps \cup {"claim"}
        /\ label[1] = r /\ label[2] \in AfterSteps <=> In(t, r, AfterSteps)
  BY DEF In, ArenaSteps, AfterSteps, Outside, BoundSteps, HoldSteps, Side
<1>3. label[2] = "idle" => \A r \in Side : ~In(t, r, AfterSteps)
  BY DEF In, AfterSteps
<1>4. /\ ThreadTyped' /\ PositionInv' /\ ArenaInv'
      /\ pc'[t] = label /\ \A u \in Thread \ {t} : pc'[u] = pc[u]
  BY <1>1, <1>2, <1>3, HandoverStep, Zenon
<1>5. \A r \in Side :
        /\ ~Holds(t, r)'
        /\ In(t, r, {"position"})' => r = s
        /\ In(t, r, BoundSteps)' => In(t, r, BoundSteps)
  BY <1>4 DEF In, Holds, Outside, BoundSteps, HoldSteps, Side
<1>6. \A r \in Side, u \in Thread \ {t} :
        /\ Holds(u, r)' <=> Holds(u, r)
        /\ In(u, r, {"position"})' <=> In(u, r, {"position"})
        /\ In(u, r, BoundSteps)' <=> In(u, r, BoundSteps)
  BY <1>4, Zenon DEF In, Holds
<1>7. Holds(t, s)
  BY DEF In, Holds, HoldSteps
<1>8. OwnInv'
  BY <1>1, <1>5, <1>6, <1>7 DEF IInv, OwnInv
<1> QED
  BY <1>4, <1>8, Zenon DEF IInv

LEMMA LowersKeepIInv ==
    ASSUME IInv, NEW t \in Thread, UNCHANGED threadingMode, NEW s \in Side,
           \/ Rollback(t, s) \/ Nothing(t, s) \/ Alarm(t, s) \/ CommitLower(t, s)
           \/ AbortLower(t) \/ FailLower(t, s)
    PROVE  IInv'
<1>0. /\ ThreadTyped /\ RefusedLabel(t, s) \in Back /\ "producer" \in Side
      /\ <<"client", "notify">> \in Back /\ <<"client", "idle">> \in Back
      /\ raised[t] \in Error /\ "SequenceViolation" \in Error
  BY RefusedBack, Zenon DEF IInv, ThreadTyped, TypeOK, Error, Back, Side
<1>1. ASSUME MaybeStop(t, RefusedLabel(t, s)) \/ MaybeStop(t, <<"client", "notify">>)
      PROVE  Jump(t, <<"stop", "draining">>) /\ Outside(<<"stop", "draining">>)
  BY <1>0, <1>1, MaybeStopJumps, OutsideCalls, Zenon
<1>2. ASSUME Refuse(t, s)
      PROVE  /\ Jump(t, RefusedLabel(t, s)) /\ Outside(RefusedLabel(t, s))
             /\ RefusedLabel(t, s) = <<RefusedLabel(t, s)[1], RefusedLabel(t, s)[2]>>
  BY <1>0, <1>2, RefuseJumps, BackOutside, BackIsPair, Zenon
<1>3. Outside(<<"error", "claim">>)
  BY OutsideCalls, Zenon
<1>4. CASE Rollback(t, s)
  BY <1>1, <1>2, <1>4, LowerKeepsIInv, Zenon DEF Rollback, At
<1>5. CASE Nothing(t, s)
  BY <1>1, <1>2, <1>5, LowerKeepsIInv, Zenon DEF Nothing, At
<1>6. CASE Alarm(t, s)
  <2>1. Jump(t, <<"error", "claim">>)
    BY <1>0, <1>6, RaiseJumps, Zenon DEF Alarm
  <2> QED
    BY <1>3, <1>6, <2>1, LowerKeepsIInv, Zenon DEF Alarm, At
<1>7. CASE CommitLower(t, s)
  <2>1. Jump(t, <<s, "position">>)
    BY <1>0, <1>7, GoJumps, Zenon DEF CommitLower
  <2> QED
    BY <1>7, <2>1, LowerKeepsIInv, Zenon DEF CommitLower, At
<1>8. CASE AbortLower(t)
  BY <1>0, <1>1, <1>8, LowerKeepsIInv, Zenon DEF AbortLower, At
<1>9. CASE FailLower(t, s)
  <2>1. Jump(t, <<"error", "claim">>)
    BY <1>0, <1>9, RaiseJumps, Zenon DEF FailLower
  <2> QED
    BY <1>3, <1>9, <2>1, LowerKeepsIInv, Zenon DEF FailLower, At
<1> QED
  BY <1>4, <1>5, <1>6, <1>7, <1>8, <1>9, Zenon

-----------------------------------------------------------------------------
(* The steps that move a lease or an arena.                                 *)

\* The thread that answers for a lease is alone with it.
LEMMA Alone ==
    ASSUME IInv, NEW t \in Thread, NEW s \in Side, Holds(t, s) \/ In(t, s, {"position"})
    PROVE  /\ lease[s] = 0
           /\ \A u \in Thread \ {t} : ~Holds(u, s) /\ ~In(u, s, {"position"})
           /\ \A u \in Thread \ {t} : ~In(u, s, ArenaSteps) /\ ~In(u, s, AfterSteps)
                                      /\ ~In(u, s, {"claim"})
<1>1. /\ lease[s] = 0
      /\ \A u \in Thread \ {t} : ~Holds(u, s) /\ ~In(u, s, {"position"})
  BY DEF IInv, OwnInv, In, Holds, BoundSteps
<1> QED
  BY <1>1, Zenon DEF In, Holds, HoldSteps, ArenaSteps, AfterSteps

LEMMA Frames ==
    ASSUME IInv
    PROVE  /\ Published \in Nat /\ Completed \in Nat /\ Completed <= Published
           /\ Published <= Completed + Depth /\ Published <= MaxFrames
           /\ ArenaOf(Published + 1) \in Arena /\ ArenaOf(Completed + 1) \in Arena
           /\ \A n \in Completed + 1 .. Published : n \in Nat /\ n # 0 /\ ArenaOf(n) \in Arena
<1>1. position["producer"] \in 0 .. MaxFrames /\ position["consumer"] \in 0 .. MaxFrames
  BY Zenon DEF IInv, ThreadTyped, TypeOK, Position, Side
<1>2. /\ Published \in Nat /\ Completed \in Nat /\ Completed <= Published
      /\ Published <= Completed + Depth /\ Published <= MaxFrames
  BY <1>1 DEF IInv, PositionInv, Published, Completed
<1> HIDE DEF Published, Completed
<1>3. ArenaOf(Published + 1) \in Arena /\ ArenaOf(Completed + 1) \in Arena
  <2>1. Published + 1 \in Nat /\ Published + 1 # 0 /\ Completed + 1 \in Nat /\ Completed + 1 # 0
    BY <1>2
  <2> QED
    BY <2>1, ArenaOfType
<1>4. \A n \in Completed + 1 .. Published : n \in Nat /\ n # 0 /\ ArenaOf(n) \in Arena
  BY <1>2, ArenaOfType
<1> QED
  BY <1>2, <1>3, <1>4, Zenon

\* Unless the queue is full the next frame's arena is none in transit.
LEMMA NextArenaIsNew ==
    ASSUME IInv, Published < Completed + Depth
    PROVE  \A n \in Completed + 1 .. Published : ArenaOf(n) # ArenaOf(Published + 1)
<1> SUFFICES ASSUME NEW n \in Completed + 1 .. Published PROVE ArenaOf(n) # ArenaOf(Published + 1)
  OBVIOUS
<1>1. Published \in Nat /\ Completed \in Nat
  BY Frames, Zenon
<1> HIDE DEF Published, Completed
<1>2. /\ n \in Nat /\ n # 0 /\ Published + 1 \in Nat /\ n < Published + 1
      /\ (Published + 1) - n < Depth
  BY <1>1
<1> QED
  BY <1>2, ArenasDiffer, Zenon

\* The oldest frame shares its arena with no later one in transit.
LEMMA OldestIsAlone ==
    ASSUME IInv
    PROVE  \A n \in Completed + 2 .. Published : ArenaOf(n) # ArenaOf(Completed + 1)
<1> SUFFICES ASSUME NEW n \in Completed + 2 .. Published PROVE ArenaOf(n) # ArenaOf(Completed + 1)
  OBVIOUS
<1>1. Published \in Nat /\ Completed \in Nat /\ Published <= Completed + Depth
  BY Frames, Zenon
<1> HIDE DEF Published, Completed
<1>2. /\ n \in Nat /\ Completed + 1 \in Nat /\ Completed + 1 # 0 /\ Completed + 1 < n
      /\ n - (Completed + 1) < Depth
  BY <1>1
<1> QED
  BY <1>2, ArenasDiffer, Zenon

\* A thread that takes over the lease object takes over its arena.
LEMMA UseLeaseKeepsIInv ==
    ASSUME IInv, NEW t \in Thread, UNCHANGED threadingMode, NEW s \in Side,
           NEW step \in {"check", "abort", "fail"}, NEW error \in Error,
           UseLease(t, s, step, error)
    PROVE  IInv'
<1>1. /\ pc[t] = <<"client", "idle">> /\ lease[s] # 0
      /\ lease' = [lease EXCEPT ![s] = 0]
      /\ held' = [held EXCEPT ![t] = lease[s]]
      /\ UNCHANGED <<lifecycle, queueVars, errorVars, ret, waiting, seen, moved>>
  BY Zenon DEF UseLease, Idle, At
<1>2. PICK x \in {"check", "abort", "fail"} :
        /\ pc' = [pc EXCEPT ![t] = <<s, x>>]
        /\ x # "fail" => boundThread[s] = t
  <2>1. CASE boundThread[s] = t
    BY <2>1, Zenon DEF UseLease
  <2>2. CASE boundThread[s] # t
    BY <2>2, Zenon DEF UseLease
  <2> QED
    BY <2>1, <2>2, Zenon
<1>3. raised' \in [Thread -> Error]
  BY Zenon DEF UseLease, ThreadViolation, Error, IInv, ThreadTyped, TypeOK
<1>4. /\ lease \in [Side -> Position] /\ held \in [Thread -> Position] /\ 0 \in Position
      /\ lease[s] \in Position
  BY DEF IInv, ThreadTyped, TypeOK, Position
<1>5. lease' \in [Side -> Position] /\ held' \in [Thread -> Position] /\ held'[t] = lease[s]
      /\ \A u \in Thread \ {t} : held'[u] = held[u]
  BY <1>1, <1>4, Zenon
<1>6. Labelled' /\ pc'[t] = <<s, x>> /\ \A u \in Thread \ {t} : pc'[u] = pc[u]
  BY <1>2, Zenon DEF Labelled, IInv, ThreadTyped
<1>7. ThreadTyped'
  BY <1>1, <1>3, <1>5, <1>6, Zenon DEF IInv, ThreadTyped, TypeOK, queueVars, arenaVars, errorVars
<1>8. leaseActive[s] /\ \A u \in Thread : ~Holds(u, s)
  BY <1>1, Zenon DEF IInv, OwnInv
<1>9. OwnInv'
  <2>1. \A r \in Side :
          /\ ~In(t, r, {"position"})'
          /\ In(t, r, BoundSteps)' => boundThread[r] = t
          /\ Holds(t, r)' => r = s
    BY <1>2, <1>6 DEF In, Holds, BoundSteps, HoldSteps
  <2>2. \A r \in Side, u \in Thread \ {t} :
          /\ Holds(u, r)' <=> Holds(u, r)
          /\ In(u, r, {"position"})' <=> In(u, r, {"position"})
          /\ In(u, r, BoundSteps)' <=> In(u, r, BoundSteps)
    BY <1>6, Zenon DEF In, Holds
  <2>3. /\ UNCHANGED <<boundThread, leaseActive>>
        /\ lease'[s] = 0 /\ \A r \in Side \ {s} : lease'[r] = lease[r]
    BY <1>1, <1>4, Zenon DEF queueVars
  <2> QED
    BY <1>8, <2>1, <2>2, <2>3 DEF IInv, OwnInv
<1>10. \A u \in Thread, r \in Side :
         /\ In(u, r, AfterSteps)' <=> In(u, r, AfterSteps)
         /\ In(u, r, AfterSteps) => held'[u] = held[u]
         /\ In(u, r, {"claim"})' => In(u, r, {"claim"})
         /\ In(u, r, ArenaSteps)' <=> (In(u, r, ArenaSteps) \/ (u = t /\ r = s))
         /\ ~In(t, r, ArenaSteps)
  BY <1>1, <1>2, <1>5, <1>6 DEF In, AfterSteps, ArenaSteps, Side
<1>11. \A u \in Thread, r \in Side : In(u, r, ArenaSteps)' => held'[u] # 0
  BY <1>1, <1>5, <1>10, Zenon DEF IInv, ArenaInv, HeldInv
<1>12. \A r \in Side : InArena(r)' = InArena(r)
  <2> SUFFICES ASSUME NEW r \in Side PROVE \A n : n \in InArena(r)' <=> n \in InArena(r)
    BY Zenon
  <2>1. \A u \in Thread : ~In(u, s, ArenaSteps)
    BY <1>8, Zenon DEF Holds, In, HoldSteps, ArenaSteps
  <2>2. CASE r = s
    <3>1. \A n : (\E u \in Thread : In(u, s, ArenaSteps)' /\ held'[u] = n) <=> n = lease[s]
      BY <1>5, <1>10, <2>1, Zenon
    <3>2. lease'[s] = 0
      BY <1>1, <1>4, Zenon
    <3> QED
      BY <1>6, <2>1, <2>2, <3>1, <3>2, InArenaIs, InArenaWillBe DEF IInv, ThreadTyped
  <2>3. CASE r # s
    <3>1. \A n : (\E u \in Thread : In(u, r, ArenaSteps)' /\ held'[u] = n) <=>
                 (\E u \in Thread : In(u, r, ArenaSteps) /\ held[u] = n)
      BY <1>5, <1>10, <2>3, Zenon
    <3>2. lease'[r] = lease[r]
      BY <1>1, <1>4, <2>3, Zenon
    <3> QED
      BY <1>6, <3>1, <3>2, InArenaIs, InArenaWillBe DEF IInv, ThreadTyped
  <2> QED
    BY <2>2, <2>3, Zenon
<1>13. PositionInv' /\ ArenaInv'
  BY <1>1, <1>10, <1>11, <1>12, SameArenas, Zenon DEF queueVars
<1> QED
  BY <1>7, <1>9, <1>13, Zenon DEF IInv

=============================================================================
