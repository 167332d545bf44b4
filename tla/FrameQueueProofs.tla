-------------------------- MODULE FrameQueueProofs --------------------------
(***************************************************************************)
(* Proofs about NativePortFrameQueue, for any number of threads, arenas and *)
(* frames: the steps that move an arena or a position keep the invariant,   *)
(* and what follows from it.                                                *)
(***************************************************************************)
EXTENDS FrameQueueInvariant

-----------------------------------------------------------------------------
(* What a step on an arena leaves alone.                                    *)

\* Side r and its threads notice nothing of the step.
Apart(r) ==
    /\ InArena(r)' = InArena(r)
    /\ \A u \in Thread :
        /\ In(u, r, ArenaSteps)' => held'[u] # 0
        /\ In(u, r, AfterSteps)' <=> In(u, r, AfterSteps)
        /\ In(u, r, AfterSteps) => held'[u] = held[u]
        /\ In(u, r, {"claim"})' => In(u, r, {"claim"})

\* Only arena a changes, to the given state and sequence.
Touches(a, state, sequence) ==
    /\ arenaState' = [arenaState EXCEPT ![a] = state]
    /\ arenaSequence' = [arenaSequence EXCEPT ![a] = sequence]
    /\ UNCHANGED <<threadingMode, lifecycle, position, leaseActive, boundThread, errorVars, moved>>

LEMMA Sides ==
    /\ "producer" \in Side /\ "consumer" \in Side /\ Side = {"producer", "consumer"}
    /\ Other("producer") = "consumer" /\ Other("consumer") = "producer"
BY DEF Side, Other

\* Threads of the other side stay where they are, and so does its lease.
LEMMA StaysApart ==
    ASSUME IInv, NEW t \in Thread, NEW s \in Side, NEW label, label = <<label[1], label[2]>>,
           pc[t][1] = s, label[1] \in {s, "client", "stop"}, Jump(t, label),
           lease'[Other(s)] = lease[Other(s)]
    PROVE  Apart(Other(s)) /\ Labelled' /\ pc'[t] = label /\ \A u \in Thread \ {t} : pc'[u] = pc[u]
<1> DEFINE r == Other(s)
<1>1. Labelled' /\ pc'[t] = label /\ \A u \in Thread \ {t} : pc'[u] = pc[u]
  BY JumpTyped, Zenon DEF IInv
<1>2. r \in Side /\ r # s /\ r \notin {"client", "stop"}
  BY DEF Side, Other
<1> HIDE DEF r
<1>3. \A u \in Thread :
        /\ In(u, r, ArenaSteps)' <=> In(u, r, ArenaSteps)
        /\ In(u, r, AfterSteps)' <=> In(u, r, AfterSteps)
        /\ In(u, r, {"claim"})' <=> In(u, r, {"claim"})
        /\ In(u, r, ArenaSteps) \/ In(u, r, AfterSteps) => held'[u] = held[u]
  BY <1>1, <1>2 DEF In, Jump
<1>4. \A u \in Thread : In(u, r, ArenaSteps) => held[u] # 0
  BY <1>2, Zenon DEF IInv, ArenaInv, HeldInv
<1>5. InArena(r)' = InArena(r)
  <2>1. lease'[r] = lease[r]
    BY DEF r
  <2>2. \A n : (\E u \in Thread : In(u, r, ArenaSteps)' /\ held'[u] = n) <=>
               (\E u \in Thread : In(u, r, ArenaSteps) /\ held[u] = n)
    BY <1>3, Zenon
  <2>3. \A n : n \in InArena(r)' <=> n \in InArena(r)
    BY <1>1, <1>2, <2>1, <2>2, InArenaIs, InArenaWillBe DEF IInv, ThreadTyped
  <2> QED
    BY <2>3, Zenon
<1>6. Apart(r)
  BY <1>3, <1>4, <1>5, Zenon DEF Apart
<1> QED
  BY <1>1, <1>6, Zenon DEF r

\* A change of the next frame's arena is nothing to the frames in transit.
LEMMA ProducerTouches ==
    ASSUME IInv, Published < Completed + Depth, NEW state,
           Touches(ArenaOf(Published + 1), state, Published + 1), Apart("consumer")
    PROVE  TransitInv' /\ ConsumerInv' /\ Published' = Published /\ Completed' = Completed
<1> DEFINE a == ArenaOf(Published + 1)
<1>1. Published' = Published /\ Completed' = Completed
  BY DEF Touches, Published, Completed
<1>2. /\ Published \in Nat /\ Completed \in Nat /\ a \in Arena
      /\ \A n \in Completed + 1 .. Published : ArenaOf(n) # a /\ ArenaOf(n) \in Arena
  BY Frames, NextArenaIsNew, Zenon
<1>3. Completed < Published => Completed + 1 \in Completed + 1 .. Published
  BY <1>2
<1> HIDE DEF a
<1>4. /\ \A b \in Arena \ {a} : arenaState'[b] = arenaState[b] /\ arenaSequence'[b] = arenaSequence[b]
      /\ arenaSequence'[a] = Published + 1
  BY <1>2, Zenon DEF Touches, IInv, ThreadTyped, TypeOK, a
<1>5. TransitInv'
  BY <1>1, <1>2, <1>4, Zenon DEF IInv, ArenaInv, TransitInv, a
<1>6. ConsumerInv'
  BY <1>1, <1>2, <1>3, <1>4, Zenon DEF IInv, ArenaInv, ConsumerInv, Apart
<1> QED
  BY <1>1, <1>5, <1>6, Zenon

\* A change of the oldest frame's arena is nothing to the later ones.
LEMMA ConsumerTouches ==
    ASSUME IInv, Completed < Published, NEW state,
           Touches(ArenaOf(Completed + 1), state, Completed + 1), Apart("producer")
    PROVE  TransitInv' /\ ProducerInv' /\ Published' = Published /\ Completed' = Completed
<1> DEFINE a == ArenaOf(Completed + 1)
<1>1. Published' = Published /\ Completed' = Completed
  BY DEF Touches, Published, Completed
<1>2. /\ Published \in Nat /\ Completed \in Nat /\ a \in Arena /\ ArenaOf(Published + 1) \in Arena
      /\ Completed + 1 \in Completed + 1 .. Published
      /\ \A n \in Completed + 1 .. Published :
            n # Completed + 1 => ArenaOf(n) # a /\ ArenaOf(n) \in Arena
  <2>1. \A n \in Completed + 1 .. Published : n # Completed + 1 => n \in Completed + 2 .. Published
    BY Frames
  <2> QED
    BY <2>1, Frames, OldestIsAlone
<1>3. Published < Completed + Depth => ArenaOf(Published + 1) # a
  BY <1>2, NextArenaIsNew, Zenon
<1> HIDE DEF a
<1>4. /\ \A b \in Arena \ {a} : arenaState'[b] = arenaState[b]
      /\ arenaSequence' = arenaSequence
  <2>1. arenaSequence[a] = Completed + 1
    BY <1>2, Zenon DEF IInv, ArenaInv, TransitInv, a
  <2> QED
    BY <1>2, <2>1, Zenon DEF Touches, IInv, ThreadTyped, TypeOK, a
<1>5. TransitInv'
  BY <1>1, <1>2, <1>4, Zenon DEF IInv, ArenaInv, TransitInv, a
<1>6. ProducerInv'
  BY <1>1, <1>2, <1>3, <1>4, Zenon DEF IInv, ArenaInv, ProducerInv, Apart
<1> QED
  BY <1>1, <1>5, <1>6, Zenon

-----------------------------------------------------------------------------
(* A thread gets its lease object.                                          *)

\* Without a lease object nothing of a side is in an arena but what its holder has.
LEMMA NobodyInArena ==
    ASSUME IInv, NEW t \in Thread, NEW s \in Side, Holds(t, s) \/ In(t, s, {"position"}),
           ~In(t, s, ArenaSteps)
    PROVE  InArena(s) = {} /\ \A u \in Thread : ~In(u, s, ArenaSteps)
<1>1. \A u \in Thread : ~In(u, s, ArenaSteps)
  BY Alone
<1>2. \A n : n \notin InArena(s)
  BY <1>1, Alone, InArenaIs, Zenon DEF IInv, ThreadTyped
<1> QED
  BY <1>1, <1>2, Zenon

LEMMA ClaimAlarmKeepsIInv ==
    ASSUME IInv, NEW t \in Thread, NEW s \in Side, pc[t] = <<s, "claim">>,
           UNCHANGED <<threadingMode, lifecycle, queueVars, errorVars, lease, moved>>,
           Go(t, s, "alarm")
    PROVE  IInv'
<1>1. Jump(t, <<s, "alarm">>)
  BY GoJumps, Zenon DEF IInv
<1>2. /\ leaseActive' \in [Side -> BOOLEAN] /\ boundThread' \in [Side -> Thread \cup {NoThread}]
  BY Zenon DEF queueVars, IInv, ThreadTyped, TypeOK
<1>3. /\ ThreadTyped' /\ PositionInv' /\ ArenaInv'
      /\ pc'[t] = <<s, "alarm">> /\ \A u \in Thread \ {t} : pc'[u] = pc[u]
  BY <1>1, <1>2, HandoverStep DEF In, ArenaSteps, AfterSteps, Side, queueVars
<1>4. OwnInv'
  <2>1. \A u \in Thread \ {t}, r \in Side : /\ In(u, r, BoundSteps)' <=> In(u, r, BoundSteps)
                                            /\ Holds(u, r)' <=> Holds(u, r)
                                            /\ In(u, r, {"position"})' <=> In(u, r, {"position"})
    BY <1>3, Zenon DEF In, Holds
  <2>2. \A r \in Side : /\ In(t, r, BoundSteps)' <=> In(t, r, BoundSteps)
                        /\ Holds(t, r)' <=> Holds(t, r)
                        /\ ~In(t, r, {"position"})'
    BY <1>3 DEF In, Holds, BoundSteps, HoldSteps
  <2> QED
    BY <2>1, <2>2 DEF IInv, OwnInv, queueVars
<1> QED
  BY <1>3, <1>4, Zenon DEF IInv

LEMMA Claims ==
    ASSUME IInv, NEW t \in Thread, NEW s \in Side, pc[t] = <<s, "claim">>, NEW n \in Position, n # 0,
           NEW a \in Arena, NEW state \in {"Writing", "Reading"}, Touches(a, state, n),
           lease' = [lease EXCEPT ![s] = n], Finish(t)
    PROVE  /\ OwnInv' /\ ThreadTyped' /\ Apart(Other(s))
           /\ InArena(s) = {} /\ InArena(s)' = {n}
           /\ \A u \in Thread : /\ ~In(u, s, AfterSteps) /\ ~In(u, s, AfterSteps)'
                                /\ ~In(u, s, {"claim"})' /\ ~In(u, s, ArenaSteps)'
<1>1. Jump(t, <<"client", "idle">>)
  BY FinishJumps DEF IInv
<1>2. lease' \in [Side -> Position] /\ lease'[s] = n /\ lease'[Other(s)] = lease[Other(s)]
  BY Zenon DEF IInv, ThreadTyped, TypeOK, Other, Side
<1>3. /\ Apart(Other(s)) /\ Labelled' /\ pc'[t] = <<"client", "idle">>
      /\ \A u \in Thread \ {t} : pc'[u] = pc[u]
  BY <1>1, <1>2, StaysApart
<1>4. Holds(t, s) /\ ~In(t, s, ArenaSteps) /\ ~In(t, s, AfterSteps)
  BY DEF Holds, In, HoldSteps, ArenaSteps, AfterSteps
<1>5. \A u \in Thread \ {t} : /\ ~Holds(u, s) /\ ~In(u, s, {"position"}) /\ ~In(u, s, AfterSteps)
                              /\ ~In(u, s, {"claim"}) /\ ~In(u, s, ArenaSteps)
  BY <1>4, Alone, Zenon
<1>6. \A u \in Thread : ~In(u, s, AfterSteps)' /\ ~In(u, s, {"claim"})' /\ ~In(u, s, ArenaSteps)'
  BY <1>3, <1>5 DEF In, Side
<1>7. InArena(s)' = {n}
  <2>1. \A m : m \in InArena(s)' <=> m = n
    BY <1>2, <1>3, <1>6, InArenaWillBe, Zenon
  <2> QED
    BY <2>1
<1>8. leaseActive[s] /\ lease \in [Side -> Position]
  BY <1>4, Zenon DEF IInv, OwnInv, ThreadTyped, TypeOK
<1>9. OwnInv'
  <2>1. \A u \in Thread \ {t}, r \in Side : /\ In(u, r, BoundSteps)' <=> In(u, r, BoundSteps)
                                            /\ Holds(u, r)' <=> Holds(u, r)
                                            /\ In(u, r, {"position"})' <=> In(u, r, {"position"})
    BY <1>3, Zenon DEF In, Holds
  <2>2. \A r \in Side : ~In(t, r, BoundSteps)' /\ ~Holds(t, r)' /\ ~In(t, r, {"position"})'
    BY <1>3 DEF In, Holds, Side
  <2>3. \A r \in Side : lease'[r] = IF r = s THEN n ELSE lease[r]
    BY <1>8, Zenon
  <2> QED
    BY <1>5, <1>8, <2>1, <2>2, <2>3 DEF IInv, OwnInv, Touches
<1>10. ThreadTyped'
  BY <1>1, <1>2, <1>3, Zenon DEF IInv, ThreadTyped, TypeOK, Touches, Jump, errorVars
<1> QED
  BY <1>3, <1>4, <1>5, <1>6, <1>7, <1>9, <1>10, NobodyInArena, Zenon

LEMMA ClaimFreeKeepsIInv ==
    ASSUME IInv, NEW t \in Thread, UNCHANGED threadingMode, ClaimFree(t)
    PROVE  IInv'
<1> DEFINE n == Published + 1
           a == ArenaOf(n)
<1>1. pc[t] = <<"producer", "claim">>
  BY DEF ClaimFree, At
<1>2. /\ Published < Completed + Depth /\ Published < MaxFrames /\ a \in Arena
      /\ n \in Position /\ n # 0
  <2>1. Published < Completed + Depth /\ Published < MaxFrames
    BY <1>1 DEF IInv, PositionInv, In
  <2> QED
    BY <2>1, Frames, FrameQueueAssumption DEF Position
<1>3. CASE arenaState[a] # "Free"
  BY <1>1, <1>3, ClaimAlarmKeepsIInv, Sides, Zenon DEF ClaimFree, Published, queueVars, arenaVars
<1>4. CASE arenaState[a] = "Free"
  <2>1. Touches(a, "Writing", n) /\ lease' = [lease EXCEPT !["producer"] = n] /\ Finish(t)
    BY <1>4, Zenon DEF ClaimFree, Published, Touches
  <2>2. /\ OwnInv' /\ ThreadTyped' /\ Apart("consumer")
        /\ InArena("producer") = {} /\ InArena("producer")' = {n}
        /\ \A u \in Thread : /\ ~In(u, "producer", AfterSteps) /\ ~In(u, "producer", AfterSteps)'
                             /\ ~In(u, "producer", {"claim"})' /\ ~In(u, "producer", ArenaSteps)'
    BY <1>1, <1>2, <2>1, Claims, Sides, Zenon
  <2>3. TransitInv' /\ ConsumerInv' /\ Published' = Published /\ Completed' = Completed
    BY <1>2, <2>1, <2>2, ProducerTouches, Zenon
  <2> HIDE DEF n, a
  <2>4. /\ arenaState'[a] = "Writing" /\ arenaSequence'[a] = n
        /\ \A b \in Arena \ {a} : arenaState'[b] = arenaState[b] /\ arenaSequence'[b] = arenaSequence[b]
    BY <1>2, <2>1, Zenon DEF Touches, IInv, ThreadTyped, TypeOK
  <2>5. PositionInv'
    BY <2>2, <2>3, Zenon DEF IInv, PositionInv, Apart
  <2>6. StateInv'
    BY <2>2, <2>3, <2>4, Zenon DEF IInv, ArenaInv, StateInv, Apart
  <2>7. ProducerInv'
    BY <1>2, <2>2, <2>3, <2>4, Zenon DEF ProducerInv, n, a
  <2>8. HeldInv'
    BY <2>2, Sides, Zenon DEF HeldInv, Apart
  <2> QED
    BY <2>2, <2>3, <2>5, <2>6, <2>7, <2>8, Zenon DEF IInv, ArenaInv
<1> QED
  BY <1>3, <1>4, Zenon

LEMMA ClaimReadyKeepsIInv ==
    ASSUME IInv, NEW t \in Thread, UNCHANGED threadingMode, ClaimReady(t)
    PROVE  IInv'
<1> DEFINE n == Completed + 1
           a == ArenaOf(n)
<1>1. pc[t] = <<"consumer", "claim">>
  BY Zenon DEF ClaimReady, At
<1>2. Completed < Published /\ a \in Arena /\ n \in Position /\ n # 0
  <2>1. Completed < Published
    BY <1>1 DEF IInv, PositionInv, In
  <2> QED
    BY <2>1, Frames, FrameQueueAssumption DEF Position
<1>3. arenaSequence[a] = n
  <2>1. n \in Completed + 1 .. Published
    BY <1>2, Frames
  <2> QED
    BY <2>1, Zenon DEF IInv, ArenaInv, TransitInv
<1>4. CASE arenaState[a] # "Ready"
  BY <1>1, <1>4, ClaimAlarmKeepsIInv, Sides, Zenon DEF ClaimReady, Completed, queueVars, arenaVars
<1>5. CASE arenaState[a] = "Ready"
  <2>1. Touches(a, "Reading", n) /\ lease' = [lease EXCEPT !["consumer"] = n] /\ Finish(t)
    BY <1>2, <1>3, <1>5, Zenon DEF ClaimReady, Completed, Touches, IInv, ThreadTyped, TypeOK
  <2>2. /\ OwnInv' /\ ThreadTyped' /\ Apart("producer")
        /\ InArena("consumer") = {} /\ InArena("consumer")' = {n}
        /\ \A u \in Thread : /\ ~In(u, "consumer", AfterSteps) /\ ~In(u, "consumer", AfterSteps)'
                             /\ ~In(u, "consumer", {"claim"})' /\ ~In(u, "consumer", ArenaSteps)'
    BY <1>1, <1>2, <2>1, Claims, Sides, Zenon
  <2>3. TransitInv' /\ ProducerInv' /\ Published' = Published /\ Completed' = Completed
    BY <1>2, <2>1, <2>2, ConsumerTouches, Zenon
  <2> HIDE DEF n, a
  <2>4. /\ arenaState'[a] = "Reading" /\ arenaSequence'[a] = n
        /\ \A b \in Arena \ {a} : arenaState'[b] = arenaState[b] /\ arenaSequence'[b] = arenaSequence[b]
    BY <1>2, <2>1, Zenon DEF Touches, IInv, ThreadTyped, TypeOK
  <2>5. PositionInv'
    BY <2>2, <2>3, Zenon DEF IInv, PositionInv, Apart
  <2>6. StateInv'
    BY <2>2, <2>3, <2>4, Zenon DEF IInv, ArenaInv, StateInv, Apart
  <2>7. ConsumerInv'
    BY <1>2, <2>2, <2>3, <2>4, Zenon DEF ConsumerInv, n, a
  <2>8. HeldInv'
    BY <2>2, Sides, Zenon DEF HeldInv, Apart
  <2> QED
    BY <2>2, <2>3, <2>5, <2>6, <2>7, <2>8, Zenon DEF IInv, ArenaInv
<1> QED
  BY <1>4, <1>5, Zenon

-----------------------------------------------------------------------------
(* A thread lets its arena go.                                              *)

LEMMA Leaves ==
    ASSUME IInv, NEW t \in Thread, NEW s \in Side, NEW step \in {"lower", "aborted", "failed"},
           In(t, s, ArenaSteps), step # "failed" => In(t, s, BoundSteps),
           UNCHANGED <<leaseActive, boundThread, lease>>, Jump(t, <<s, step>>)
    PROVE  /\ OwnInv' /\ Labelled' /\ Apart(Other(s)) /\ held'[t] = held[t]
           /\ InArena(s) = {held[t]} /\ InArena(s)' = {}
           /\ \A u \in Thread : /\ ~In(u, s, AfterSteps) /\ ~In(u, s, {"claim"})'
                                /\ ~In(u, s, ArenaSteps)'
                                /\ In(u, s, AfterSteps)' <=> (u = t /\ step = "lower")
<1>1. /\ Apart(Other(s)) /\ Labelled' /\ pc'[t] = <<s, step>>
      /\ \A u \in Thread \ {t} : pc'[u] = pc[u]
  BY StaysApart, Zenon DEF In
<1>2. held'[t] = held[t] /\ held[t] # 0
  BY Zenon DEF Jump, IInv, ArenaInv, HeldInv
<1>3. Holds(t, s) /\ ~In(t, s, AfterSteps)
  BY Zenon DEF Holds, In, HoldSteps, ArenaSteps, AfterSteps
<1>4. /\ lease[s] = 0
      /\ \A u \in Thread \ {t} : /\ ~In(u, s, ArenaSteps) /\ ~In(u, s, AfterSteps)
                                 /\ ~In(u, s, {"claim"})
  BY <1>3, Alone, Zenon
<1>5. \A u \in Thread : /\ ~In(u, s, {"claim"})' /\ ~In(u, s, ArenaSteps)'
                        /\ In(u, s, AfterSteps)' <=> (u = t /\ step = "lower")
  BY <1>1, <1>4 DEF In, ArenaSteps, AfterSteps
<1>6. OwnInv'
  <2>1. \A u \in Thread \ {t}, r \in Side : /\ In(u, r, BoundSteps)' <=> In(u, r, BoundSteps)
                                            /\ Holds(u, r)' <=> Holds(u, r)
                                            /\ In(u, r, {"position"})' <=> In(u, r, {"position"})
    BY <1>1, Zenon DEF In, Holds
  <2>2. \A r \in Side : /\ In(t, r, BoundSteps)' => r = s /\ step # "failed"
                        /\ Holds(t, r)' => r = s
                        /\ ~In(t, r, {"position"})'
    BY <1>1 DEF In, Holds, BoundSteps
  <2> QED
    BY <1>3, <2>1, <2>2 DEF IInv, OwnInv
<1>7. InArena(s) = {held[t]}
  <2>1. \A n : n \in InArena(s) <=> n = held[t]
    BY <1>2, <1>4, InArenaIs DEF IInv, ThreadTyped
  <2> QED
    BY <2>1
<1>8. InArena(s)' = {}
  <2>1. \A n : n \notin InArena(s)'
    BY <1>1, <1>4, <1>5, InArenaWillBe, Zenon
  <2> QED
    BY <2>1
<1> QED
  BY <1>1, <1>2, <1>3, <1>4, <1>5, <1>6, <1>7, <1>8, Zenon

LEMMA ProducerLeavesArena ==
    ASSUME IInv, NEW t \in Thread, UNCHANGED threadingMode,
           NEW step \in {"lower", "aborted", "failed"},
           In(t, "producer", ArenaSteps), step # "failed" => In(t, "producer", BoundSteps),
           SetArena(t, IF step = "lower" THEN "Ready" ELSE "Free"),
           Jump(t, <<"producer", step>>)
    PROVE  IInv'
<1> DEFINE n == Published + 1
           a == ArenaOf(n)
           state == IF step = "lower" THEN "Ready" ELSE "Free"
<1>1. /\ OwnInv' /\ Labelled' /\ Apart("consumer") /\ held'[t] = held[t]
      /\ InArena("producer") = {held[t]} /\ InArena("producer")' = {}
      /\ \A u \in Thread : /\ ~In(u, "producer", AfterSteps) /\ ~In(u, "producer", {"claim"})'
                           /\ ~In(u, "producer", ArenaSteps)'
                           /\ In(u, "producer", AfterSteps)' <=> (u = t /\ step = "lower")
  BY Leaves, Sides DEF SetArena
<1>2. /\ held[t] = n /\ Published < Completed + Depth /\ Published < MaxFrames
      /\ arenaSequence[a] = n
  BY <1>1, Zenon DEF IInv, ArenaInv, ProducerInv
<1>3. a \in Arena /\ Published \in Nat /\ n # 0
  BY Frames
<1>4. state \in {"Ready", "Free"} /\ (step = "lower" <=> state = "Ready")
  OBVIOUS
<1>5. Touches(a, state, n) /\ arenaState' = [arenaState EXCEPT ![a] = state]
  BY <1>2, <1>3, Zenon DEF SetArena, Touches, IInv, ThreadTyped, TypeOK
<1>6. TransitInv' /\ ConsumerInv' /\ Published' = Published /\ Completed' = Completed
  BY <1>1, <1>2, <1>5, ProducerTouches, Zenon
<1> HIDE DEF n, a, state
<1>7. /\ arenaState' \in [Arena -> {"Free", "Writing", "Ready", "Reading"}]
      /\ arenaState'[a] = state /\ \A b \in Arena \ {a} : arenaState'[b] = arenaState[b]
      /\ arenaSequence' = arenaSequence
  BY <1>3, <1>4, <1>5, Zenon DEF SetArena, IInv, ThreadTyped, TypeOK
<1>8. ThreadTyped'
  BY <1>1, <1>7, Zenon DEF SetArena, IInv, ThreadTyped, TypeOK, Jump, errorVars
<1>9. PositionInv'
  BY <1>1, <1>6, Zenon DEF IInv, PositionInv, Apart
<1>10. StateInv'
  <2>1. \A b \in Arena : arenaState[b] = "Writing" => b = a
    <3>1. \A b \in Arena : arenaState[b] = "Writing" => arenaSequence[b] = n
      BY <1>1, <1>2, Zenon DEF IInv, ArenaInv, StateInv
    <3> QED
      BY <1>3, <3>1 DEF IInv, ArenaInv, TransitInv, a
  <2>2. step = "lower" => \E u \in Thread : In(u, "producer", AfterSteps)'
    BY <1>1, Zenon
  <2> QED
    BY <1>1, <1>2, <1>4, <1>6, <1>7, <2>1, <2>2, Zenon DEF IInv, ArenaInv, StateInv, Apart, n
<1>11. ProducerInv'
  BY <1>1, <1>2, <1>4, <1>6, <1>7, Zenon DEF ProducerInv, n, a
<1>12. HeldInv'
  BY <1>1, Sides, Zenon DEF HeldInv, Apart
<1> QED
  BY <1>1, <1>6, <1>8, <1>9, <1>10, <1>11, <1>12, Zenon DEF IInv, ArenaInv

LEMMA ConsumerLeavesArena ==
    ASSUME IInv, NEW t \in Thread, UNCHANGED threadingMode,
           NEW step \in {"lower", "failed"},
           In(t, "consumer", ArenaSteps), step # "failed" => In(t, "consumer", BoundSteps),
           SetArena(t, "Free"), Jump(t, <<"consumer", step>>)
    PROVE  IInv'
<1> DEFINE n == Completed + 1
           a == ArenaOf(n)
<1>1. /\ OwnInv' /\ Labelled' /\ Apart("producer") /\ held'[t] = held[t]
      /\ InArena("consumer") = {held[t]} /\ InArena("consumer")' = {}
      /\ \A u \in Thread : /\ ~In(u, "consumer", AfterSteps) /\ ~In(u, "consumer", {"claim"})'
                           /\ ~In(u, "consumer", ArenaSteps)'
                           /\ In(u, "consumer", AfterSteps)' <=> (u = t /\ step = "lower")
  BY Leaves, Sides DEF SetArena
<1>2. held[t] = n /\ Completed < Published
  BY <1>1, Zenon DEF IInv, ArenaInv, ConsumerInv
<1>3. a \in Arena /\ Completed \in Nat /\ n # 0 /\ n \in Completed + 1 .. Published
  BY <1>2, Frames
<1>4. arenaSequence[a] = n
  BY <1>3, Zenon DEF IInv, ArenaInv, TransitInv
<1>5. Touches(a, "Free", n) /\ arenaState' = [arenaState EXCEPT ![a] = "Free"]
  BY <1>2, <1>3, <1>4, Zenon DEF SetArena, Touches, IInv, ThreadTyped, TypeOK
<1>6. TransitInv' /\ ProducerInv' /\ Published' = Published /\ Completed' = Completed
  BY <1>1, <1>2, <1>5, ConsumerTouches, Zenon
<1> HIDE DEF n, a
<1>7. /\ arenaState' \in [Arena -> {"Free", "Writing", "Ready", "Reading"}]
      /\ arenaState'[a] = "Free" /\ \A b \in Arena \ {a} : arenaState'[b] = arenaState[b]
      /\ arenaSequence' = arenaSequence
  BY <1>3, <1>5, Zenon DEF SetArena, IInv, ThreadTyped, TypeOK
<1>8. ThreadTyped'
  BY <1>1, <1>7, Zenon DEF SetArena, IInv, ThreadTyped, TypeOK, Jump, errorVars
<1>9. PositionInv'
  BY <1>1, <1>6, Zenon DEF IInv, PositionInv, Apart
<1>10. StateInv'
  <2>1. \A b \in Arena : arenaState[b] = "Reading" => b = a
    <3>1. \A b \in Arena : arenaState[b] = "Reading" => arenaSequence[b] = n
      BY <1>1, <1>2, Zenon DEF IInv, ArenaInv, StateInv
    <3> QED
      BY <1>3, <3>1 DEF IInv, ArenaInv, TransitInv, a
  <2> QED
    BY <1>1, <1>6, <1>7, <2>1, Zenon DEF IInv, ArenaInv, StateInv, Apart
<1>11. ConsumerInv'
  BY <1>1, <1>2, <1>6, <1>7, Zenon DEF ConsumerInv, n, a
<1>12. HeldInv'
  BY <1>1, Sides, Zenon DEF HeldInv, Apart
<1> QED
  BY <1>1, <1>6, <1>8, <1>9, <1>10, <1>11, <1>12, Zenon DEF IInv, ArenaInv

\* Whoever finishes a lease finds its arena as the lease left it.
LEMMA StillThere ==
    ASSUME IInv, NEW t \in Thread, NEW s \in Side, In(t, s, ArenaSteps)
    PROVE  StillIn(t, IF s = "producer" THEN "Writing" ELSE "Reading")
<1>1. held[t] \in InArena(s)
  BY InArenaIs, Zenon DEF IInv, ThreadTyped, ArenaInv, HeldInv
<1>2. CASE s = "producer"
  BY <1>1, <1>2, Zenon DEF IInv, ArenaInv, ProducerInv, StillIn
<1>3. CASE s = "consumer"
  <2>1. held[t] = Completed + 1 /\ Completed < Published /\ arenaState[ArenaOf(held[t])] = "Reading"
    BY <1>1, <1>3, Zenon DEF IInv, ArenaInv, ConsumerInv
  <2>2. held[t] \in Completed + 1 .. Published
    BY <2>1, Frames
  <2>3. arenaSequence[ArenaOf(held[t])] = held[t]
    BY <2>2, Zenon DEF IInv, ArenaInv, TransitInv
  <2> QED
    BY <1>3, <2>1, <2>3, Zenon DEF StillIn
<1> QED
  BY <1>2, <1>3, Zenon DEF Side

LEMMA ArenaStepsKeepIInv ==
    ASSUME IInv, NEW t \in Thread, UNCHANGED threadingMode, NEW s \in Side,
           CommitArena(t, s) \/ FailArena(t, s) \/ (s = "producer" /\ AbortArena(t))
    PROVE  IInv'
<1>1. CASE CommitArena(t, s)
  <2>1. /\ pc[t] = <<s, "commit">> /\ SetArena(t, IF s = "producer" THEN "Ready" ELSE "Free")
        /\ Jump(t, <<s, "lower">>)
    BY <1>1, GoJumps, Zenon DEF CommitArena, At, IInv
  <2>2. In(t, s, ArenaSteps) /\ In(t, s, BoundSteps)
    BY <2>1 DEF In, ArenaSteps, BoundSteps
  <2> QED
    BY <2>1, <2>2, ProducerLeavesArena, ConsumerLeavesArena, Zenon DEF Side
<1>2. CASE FailArena(t, s)
  <2>1. /\ pc[t] = <<s, "fail">> /\ FreeArena(t, s) /\ Jump(t, <<s, "failed">>)
    BY <1>2, GoJumps, Zenon DEF FailArena, At, IInv
  <2>2. In(t, s, ArenaSteps)
    BY <2>1 DEF In, ArenaSteps
  <2>3. SetArena(t, "Free")
    BY <2>1, <2>2, StillThere, Zenon DEF FreeArena
  <2> QED
    BY <2>1, <2>2, <2>3, ProducerLeavesArena, ConsumerLeavesArena, Zenon DEF Side
<1>3. CASE s = "producer" /\ AbortArena(t)
  <2>1. /\ pc[t] = <<"producer", "abort">> /\ FreeArena(t, "producer")
        /\ Jump(t, <<"producer", "aborted">>)
    BY <1>3, GoJumps, Zenon DEF AbortArena, At, IInv
  <2>2. In(t, "producer", ArenaSteps) /\ In(t, "producer", BoundSteps)
    BY <2>1 DEF In, ArenaSteps, BoundSteps
  <2>3. SetArena(t, "Free")
    BY <1>3, <2>1, <2>2, StillThere, Zenon DEF FreeArena
  <2> QED
    BY <2>1, <2>2, <2>3, ProducerLeavesArena, Zenon
<1> QED
  BY <1>1, <1>2, <1>3, Zenon

-----------------------------------------------------------------------------
(* A thread moves the position.                                             *)

\* The store of the position is the last a call has to do with its frame.
LEMMA PositionStored ==
    ASSUME IInv, NEW t \in Thread, NEW s \in Side, UNCHANGED threadingMode, CommitPosition(t, s)
    PROVE  /\ OwnInv' /\ ThreadTyped' /\ Apart(Other(s))
           /\ arenaState' = arenaState /\ arenaSequence' = arenaSequence
           /\ held[t] = position[s] + 1 /\ In(t, s, AfterSteps)
           /\ position'[s] = held[t] /\ position'[Other(s)] = position[Other(s)]
           /\ InArena(s) = {} /\ InArena(s)' = {}
           /\ \A u \in Thread : /\ ~In(u, s, AfterSteps)' /\ ~In(u, s, {"claim"})'
                                /\ ~In(u, s, ArenaSteps)'
<1>1. /\ pc[t] = <<s, "position">>
      /\ position' = [position EXCEPT ![s] = held[t]]
      /\ UNCHANGED <<lifecycle, arenaVars, leaseActive, boundThread, errorVars, lease, moved>>
  BY DEF CommitPosition, At
<1>2. PICK label \in {<<"client", "notify">>, <<"stop", "draining">>} : Jump(t, label)
  BY GoJumps, MaybeStopJumps, Zenon DEF CommitPosition, IInv, Back
<1>3. label = <<label[1], label[2]>> /\ label[1] \in {"client", "stop"} /\ label[1] \notin Side
  BY <1>2 DEF Side
<1>4. /\ Apart(Other(s)) /\ Labelled' /\ pc'[t] = label /\ \A u \in Thread \ {t} : pc'[u] = pc[u]
  BY <1>1, <1>2, <1>3, StaysApart
<1>5. In(t, s, {"position"}) /\ In(t, s, AfterSteps) /\ ~In(t, s, ArenaSteps)
  BY <1>1 DEF In, AfterSteps, ArenaSteps
<1>6. /\ lease[s] = 0 /\ InArena(s) = {}
      /\ \A u \in Thread \ {t} : /\ ~In(u, s, ArenaSteps) /\ ~In(u, s, AfterSteps)
                                 /\ ~In(u, s, {"claim"})
  BY <1>5, Alone, NobodyInArena, Zenon
<1>7. \A u \in Thread : /\ ~In(u, s, AfterSteps)' /\ ~In(u, s, {"claim"})'
                        /\ ~In(u, s, ArenaSteps)'
  BY <1>3, <1>4, <1>6, Zenon DEF In
<1>8. InArena(s)' = {}
  <2>1. \A n : n \notin InArena(s)'
    BY <1>1, <1>4, <1>6, <1>7, InArenaWillBe, Zenon
  <2> QED
    BY <2>1
<1>9. held[t] = position[s] + 1
  BY <1>5, Zenon DEF IInv, ArenaInv, ProducerInv, ConsumerInv, Published, Completed, Side
<1>10. /\ position' \in [Side -> Position] /\ position'[s] = held[t]
       /\ position'[Other(s)] = position[Other(s)]
  BY <1>1, Zenon DEF IInv, ThreadTyped, TypeOK, Other, Side
<1>11. ThreadTyped'
  BY <1>1, <1>2, <1>4, <1>10, Zenon DEF IInv, ThreadTyped, TypeOK, Jump, errorVars, arenaVars
<1>12. OwnInv'
  <2>1. \A u \in Thread \ {t}, r \in Side : /\ In(u, r, BoundSteps)' <=> In(u, r, BoundSteps)
                                            /\ Holds(u, r)' <=> Holds(u, r)
                                            /\ In(u, r, {"position"})' <=> In(u, r, {"position"})
    BY <1>4, Zenon DEF In, Holds
  <2>2. \A r \in Side : ~In(t, r, BoundSteps)' /\ ~Holds(t, r)' /\ ~In(t, r, {"position"})'
    BY <1>3, <1>4, Zenon DEF In, Holds
  <2> QED
    BY <1>1, <2>1, <2>2 DEF IInv, OwnInv
<1>13. arenaState' = arenaState /\ arenaSequence' = arenaSequence
  BY <1>1, Zenon DEF arenaVars
<1> QED
  BY <1>4, <1>5, <1>6, <1>7, <1>8, <1>9, <1>10, <1>11, <1>12, <1>13, Zenon

LEMMA PublishKeepsIInv ==
    ASSUME IInv, NEW t \in Thread, UNCHANGED threadingMode, CommitPosition(t, "producer")
    PROVE  IInv'
<1>1. /\ OwnInv' /\ ThreadTyped' /\ Apart("consumer")
      /\ arenaState' = arenaState /\ arenaSequence' = arenaSequence
      /\ Published' = Published + 1 /\ Completed' = Completed /\ In(t, "producer", AfterSteps)
      /\ InArena("producer") = {} /\ InArena("producer")' = {}
      /\ \A u \in Thread : /\ ~In(u, "producer", AfterSteps)' /\ ~In(u, "producer", {"claim"})'
                           /\ ~In(u, "producer", ArenaSteps)'
  BY PositionStored, Sides, Zenon DEF Published, Completed
<1>2. /\ Published < Completed + Depth
      /\ arenaSequence[ArenaOf(Published + 1)] = Published + 1
      /\ arenaState[ArenaOf(Published + 1)] = "Ready"
  BY <1>1, Zenon DEF IInv, ArenaInv, ProducerInv
<1>3. /\ Published \in Nat /\ Completed \in Nat /\ Completed <= Published
      /\ \A n \in Completed + 1 .. Published + 1 :
            n = Published + 1 \/ n \in Completed + 1 .. Published
      /\ \A n \in Completed + 1 .. Published : n \in Completed + 1 .. Published + 1
      /\ Published + 1 \in Completed + 1 .. Published + 1
  BY Frames
<1>4. PositionInv'
  <2>1. \A u \in Thread : In(u, "consumer", {"claim"})' => Completed < Published
    BY <1>1, Zenon DEF IInv, PositionInv, Apart
  <2> QED
    BY <1>1, <1>2, <1>3, <2>1, FrameQueueAssumption DEF PositionInv
<1>5. TransitInv'
  BY <1>1, <1>2, <1>3, Zenon DEF IInv, ArenaInv, TransitInv
<1>6. StateInv'
  BY <1>1, <1>3, Zenon DEF IInv, ArenaInv, StateInv, Apart
<1>7. ProducerInv'
  BY <1>1, Zenon DEF ProducerInv
<1>8. ConsumerInv'
  BY <1>1, <1>3 DEF IInv, ArenaInv, ConsumerInv, Apart
<1>9. HeldInv'
  BY <1>1, Sides, Zenon DEF HeldInv, Apart
<1> QED
  BY <1>1, <1>4, <1>5, <1>6, <1>7, <1>8, <1>9, Zenon DEF IInv, ArenaInv

LEMMA CompleteKeepsIInv ==
    ASSUME IInv, NEW t \in Thread, UNCHANGED threadingMode, CommitPosition(t, "consumer")
    PROVE  IInv'
<1>1. /\ OwnInv' /\ ThreadTyped' /\ Apart("producer")
      /\ arenaState' = arenaState /\ arenaSequence' = arenaSequence
      /\ Published' = Published /\ Completed' = Completed + 1 /\ In(t, "consumer", AfterSteps)
      /\ InArena("consumer") = {} /\ InArena("consumer")' = {}
      /\ \A u \in Thread : /\ ~In(u, "consumer", AfterSteps)' /\ ~In(u, "consumer", {"claim"})'
                           /\ ~In(u, "consumer", ArenaSteps)'
  BY PositionStored, Sides, Zenon DEF Published, Completed
<1>2. Completed < Published /\ arenaState[ArenaOf(Completed + 1)] = "Free"
  BY <1>1, Zenon DEF IInv, ArenaInv, ConsumerInv
<1>3. /\ Published \in Nat /\ Completed \in Nat /\ Published <= Completed + Depth
      /\ \A n \in (Completed + 1) + 1 .. Published : n \in Completed + 1 .. Published /\ n # Completed + 1
      /\ \A n \in Completed + 1 .. Published :
            n # 0 /\ (n = Completed + 1 \/ n \in (Completed + 1) + 1 .. Published)
  BY Frames
<1>4. PositionInv'
  <2>1. \A u \in Thread : In(u, "producer", {"claim"})' =>
            Published < Completed + Depth /\ Published < MaxFrames
    BY <1>1, Zenon DEF IInv, PositionInv, Apart
  <2> QED
    BY <1>1, <1>2, <1>3, <2>1, FrameQueueAssumption DEF PositionInv
<1>5. TransitInv'
  BY <1>1, <1>3, Zenon DEF IInv, ArenaInv, TransitInv
<1>6. StateInv'
  <2>1. \A a \in Arena : arenaState[a] = "Ready" /\ arenaSequence[a] \in Completed + 1 .. Published =>
            arenaSequence[a] \in (Completed + 1) + 1 .. Published
    BY <1>2, <1>3, Zenon DEF IInv, ArenaInv, TransitInv
  <2> QED
    BY <1>1, <2>1, Zenon DEF IInv, ArenaInv, StateInv, Apart
<1>7. Published < Completed + Depth => Published < (Completed + 1) + Depth
  BY <1>3, FrameQueueAssumption
<1>8. ProducerInv'
  BY <1>1, <1>7, Zenon DEF IInv, ArenaInv, ProducerInv, Apart
<1>9. ConsumerInv'
  BY <1>1, Zenon DEF ConsumerInv
<1>10. HeldInv'
  BY <1>1, Sides, Zenon DEF HeldInv, Apart
<1> QED
  BY <1>1, <1>4, <1>5, <1>6, <1>8, <1>9, <1>10, Zenon DEF IInv, ArenaInv

-----------------------------------------------------------------------------
(* Arenas have one owner.                                                   *)

LEMMA InitIInv ==
    ASSUME Init
    PROVE  IInv
<1>1. /\ \A t \in Thread : pc[t] = <<"client", "idle">>
      /\ \A s \in Side : lease[s] = 0 /\ ~leaseActive[s]
      /\ position["producer"] = 0 /\ position["consumer"] = 0
      /\ \A a \in Arena : arenaState[a] = "Free" /\ arenaSequence[a] = 0
  BY DEF Init, Side
<1>2. \A t \in Thread, s \in Side : pc[t][1] # s
  BY <1>1 DEF Side
<1>3. Labelled
  BY DEF Init, Labelled
<1>4. 0 \in Position /\ "None" \in Error /\ <<"client", "idle">> \in Back
  BY FrameQueueAssumption DEF Position, Error, Back
<1>5. ThreadTyped
  <2>1. /\ arenaSequence \in [Arena -> Position] /\ position \in [Side -> Position]
        /\ lease \in [Side -> Position] /\ held \in [Thread -> Position]
        /\ seen \in [Thread -> Position]
    BY <1>4, Zenon DEF Init
  <2>2. /\ raised \in [Thread -> Error] /\ ret \in [Thread -> Back]
        /\ firstError \in Error /\ lifecycle \in Lifecycle
    BY <1>4, Zenon DEF Init, Lifecycle
  <2>3. /\ arenaState \in [Arena -> {"Free", "Writing", "Ready", "Reading"}]
        /\ leaseActive \in [Side -> BOOLEAN] /\ boundThread \in [Side -> Thread \cup {NoThread}]
        /\ errorClaimed \in BOOLEAN /\ errorReady \in BOOLEAN
        /\ waiting \in [Thread -> BOOLEAN] /\ moved \in [Thread -> BOOLEAN]
        /\ threadingMode \in DOMAIN Callers
    BY Zenon DEF Init
  <2> QED
    BY <1>3, <2>1, <2>2, <2>3, Zenon DEF ThreadTyped, TypeOK
<1>6. OwnInv
  BY <1>1, <1>2, Zenon DEF OwnInv, In, Holds
<1>7. PositionInv
  BY <1>1, <1>2, FrameQueueAssumption DEF PositionInv, In, Published, Completed, Side
<1>8. \A s \in Side : InArena(s) = {}
  <2> SUFFICES ASSUME NEW s \in Side PROVE \A n : n \notin InArena(s)
    OBVIOUS
  <2> QED
    BY <1>1, <1>2, <1>3, InArenaIs DEF In
<1>9. ArenaInv
  <2>1. Completed + 1 .. Published = {}
    BY <1>1 DEF Published, Completed
  <2> QED
    BY <1>1, <1>2, <1>8, <2>1, Zenon
    DEF ArenaInv, TransitInv, StateInv, ProducerInv, ConsumerInv, HeldInv, In, Side
<1> QED
  BY <1>5, <1>6, <1>7, <1>9, Zenon DEF IInv

LEMMA BeginKeepsIInv ==
    ASSUME IInv, NEW t \in Thread, UNCHANGED threadingMode, BeginLease(t)
    PROVE  IInv'
<1>1. CASE ClaimFree(t) \/ ClaimReady(t)
  BY <1>1, ClaimFreeKeepsIInv, ClaimReadyKeepsIInv, Zenon
<1>2. CASE Stopped(t)
  BY <1>2, BeginCalm, Zenon DEF Side
<1>3. ASSUME NEW s \in Side,
             \/ TryLifecycle(t, s) \/ Refused(t, s) \/ LoadEpoch(t, s) \/ Again(t, s)
             \/ Awake(t, s)
      PROVE  IInv'
  BY <1>3, BeginCalm, Zenon
<1>4. ASSUME NEW s \in Side, Bound(t, s) \/ Recheck(t, s) \/ Examine(t, s)
      PROVE  IInv'
  BY <1>4, LookCalm, Zenon
<1>5. ASSUME NEW s \in Side, Bind(t, s) \/ TakeLease(t, s)
      PROVE  IInv'
  BY <1>5, BindKeepsIInv, TakeLeaseKeepsIInv, Zenon
<1>6. ASSUME NEW s \in Side, Rollback(t, s) \/ Nothing(t, s) \/ Alarm(t, s)
      PROVE  IInv'
  BY <1>6, LowersKeepIInv, Zenon
<1> QED
  BY <1>1, <1>2, <1>3, <1>4, <1>5, <1>6, Zenon DEF BeginLease

LEMMA EndKeepsIInv ==
    ASSUME IInv, NEW t \in Thread, UNCHANGED threadingMode, EndLease(t)
    PROVE  IInv'
<1>1. CASE AbortArena(t)
  BY <1>1, ArenaStepsKeepIInv, Zenon DEF Side
<1>2. CASE AbortLower(t)
  BY <1>2, LowersKeepIInv, Zenon DEF Side
<1>3. CASE FinalNotify(t)
  BY <1>3, CallCalm, Zenon
<1>4. ASSUME NEW s \in Side, CommitCheck(t, s)
      PROVE  IInv'
  BY <1>4, LookCalm, Zenon
<1>5. ASSUME NEW s \in Side, CommitArena(t, s) \/ FailArena(t, s)
      PROVE  IInv'
  BY <1>5, ArenaStepsKeepIInv, Zenon
<1>6. ASSUME NEW s \in Side, CommitLower(t, s) \/ FailLower(t, s)
      PROVE  IInv'
  BY <1>6, LowersKeepIInv, Zenon
<1>7. ASSUME NEW s \in Side, CommitPosition(t, s)
      PROVE  IInv'
  BY <1>7, PublishKeepsIInv, CompleteKeepsIInv, Zenon DEF Side
<1> QED
  BY <1>1, <1>2, <1>3, <1>4, <1>5, <1>6, <1>7, Zenon DEF EndLease

LEMMA ClientKeepsIInv ==
    ASSUME IInv, NEW t \in Thread, UNCHANGED threadingMode, Client(t)
    PROVE  IInv'
<1>0. "SequenceViolation" \in Error /\ "ClientError" \in Error /\ "None" \in Error
      /\ "producer" \in Side
  BY DEF Error, Side
<1>1. ASSUME NEW s \in Side, \E wait \in BOOLEAN : Begin(t, s, wait)
      PROVE  IInv'
  BY <1>1, CallCalm, Zenon
<1>2. ASSUME NEW s \in Side, Commit(t, s)
      PROVE  IInv'
  BY <1>0, <1>2, UseLeaseKeepsIInv, Zenon DEF Commit
<1>3. ASSUME NEW s \in Side, FailLease(t, s)
      PROVE  IInv'
  BY <1>0, <1>3, UseLeaseKeepsIInv, Zenon DEF FailLease
<1>4. CASE Abort(t)
  BY <1>0, <1>4, UseLeaseKeepsIInv, Zenon DEF Abort
<1>5. CASE RequestShutdown(t) \/ ReportError(t) \/ TakeSnapshot(t)
  BY <1>5, CallCalm, Zenon
<1> QED
  BY <1>1, <1>2, <1>3, <1>4, <1>5, Zenon DEF Client

LEMMA StutterKeepsIInv ==
    ASSUME IInv, UNCHANGED <<threadingMode, vars>>
    PROVE  IInv'
<1>1. /\ UNCHANGED <<threadingMode, lifecycle, arenaState, arenaSequence, position, leaseActive>>
      /\ UNCHANGED <<boundThread, errorClaimed, errorReady, firstError, lease, pc>>
      /\ UNCHANGED <<ret, waiting, held, raised, seen, moved>>
  BY DEF vars, queueVars, arenaVars, errorVars, locals
<1>2. ThreadTyped'
  BY <1>1, Zenon DEF IInv, ThreadTyped, TypeOK, Labelled
<1>3. OwnInv' /\ PositionInv'
  BY <1>1, Zenon DEF IInv, OwnInv, PositionInv, In, Holds, Published, Completed
<1>4. ArenaInv'
  <2>1. \A s \in Side : InArena(s)' = InArena(s)
    BY <1>1, Zenon DEF InArena, At
  <2>2. TransitInv' /\ StateInv'
    BY <1>1, <2>1, Sides, Zenon DEF IInv, ArenaInv, TransitInv, StateInv, In, Published, Completed
  <2>3. ProducerInv' /\ ConsumerInv' /\ HeldInv'
    BY <1>1, <2>1, Sides, Zenon DEF IInv, ArenaInv, ProducerInv, ConsumerInv, HeldInv, In, Published,
       Completed
  <2> QED
    BY <2>2, <2>3, Zenon DEF ArenaInv
<1> QED
  BY <1>2, <1>3, <1>4, Zenon DEF IInv

LEMMA Inductive ==
    ASSUME IInv, [Next]_<<threadingMode, vars>>
    PROVE  IInv'
<1>1. CASE UNCHANGED <<threadingMode, vars>>
  BY <1>1, StutterKeepsIInv, Zenon
<1>2. ASSUME UNCHANGED threadingMode, NEW t \in Thread, Client(t)
      PROVE  IInv'
  BY <1>2, ClientKeepsIInv, Zenon
<1>3. ASSUME UNCHANGED threadingMode, NEW t \in Thread, Inner(t)
      PROVE  IInv'
  BY <1>3, BeginKeepsIInv, EndKeepsIInv, StopCalm, ErrorCalm, SnapshotCalm, Zenon DEF Inner
<1> QED
  BY <1>1, <1>2, <1>3, Zenon DEF Next

LEMMA SpecIInv == Spec => []IInv
<1>1. Init => IInv
  BY InitIInv
<1>2. IInv /\ [Next]_<<threadingMode, vars>> => IInv'
  BY Inductive
<1> QED
  BY <1>1, <1>2, PTL DEF Spec

LEMMA IInvGivesOwnership ==
    ASSUME IInv
    PROVE  ArenaOwnership
<1> SUFFICES ASSUME NEW a \in Arena
             PROVE  /\ arenaState[a] = "Writing" <=> arenaSequence[a] \in InArena("producer")
                    /\ arenaState[a] = "Reading" <=> arenaSequence[a] \in InArena("consumer")
                    /\ \A n \in InArena("producer") \cup InArena("consumer") :
                            ArenaOf(n) = a => arenaSequence[a] = n
  BY DEF ArenaOwnership
<1>1. \A n \in InArena("producer") :
        n # 0 /\ arenaSequence[ArenaOf(n)] = n /\ arenaState[ArenaOf(n)] = "Writing"
  BY Zenon DEF IInv, ArenaInv, ProducerInv, InArena
<1>2. \A n \in InArena("consumer") :
        n # 0 /\ arenaSequence[ArenaOf(n)] = n /\ arenaState[ArenaOf(n)] = "Reading"
  <2> SUFFICES ASSUME NEW n \in InArena("consumer")
               PROVE  n # 0 /\ arenaSequence[ArenaOf(n)] = n /\ arenaState[ArenaOf(n)] = "Reading"
    OBVIOUS
  <2>1. n = Completed + 1 /\ Completed < Published /\ arenaState[ArenaOf(n)] = "Reading"
    BY Zenon DEF IInv, ArenaInv, ConsumerInv
  <2>2. n # 0 /\ n \in Completed + 1 .. Published
    BY <2>1, Frames
  <2> QED
    BY <2>1, <2>2, Zenon DEF IInv, ArenaInv, TransitInv
<1>3. arenaSequence[a] # 0 => ArenaOf(arenaSequence[a]) = a
  BY DEF IInv, ArenaInv, TransitInv
<1>4. /\ arenaState[a] = "Writing" => arenaSequence[a] \in InArena("producer")
      /\ arenaState[a] = "Reading" => arenaSequence[a] \in InArena("consumer")
  BY Zenon DEF IInv, ArenaInv, StateInv
<1> QED
  BY <1>1, <1>2, <1>3, <1>4, Zenon

\* For any threads on either side, any mode, depth and number of frames: an
\* arena is Writing exactly while one write lease may touch it and Reading
\* exactly while one read lease may (try_begin_*, publish, complete, abort,
\* fail_*, the rejection of a foreign thread).
THEOREM ArenasOwned == Spec => []ArenaOwnership
<1>1. IInv => ArenaOwnership
  BY IInvGivesOwnership
<1> QED
  BY <1>1, SpecIInv, PTL

=============================================================================
