---------------------- MODULE FrameQueueChannelProofs ----------------------
(***************************************************************************)
(* Proofs about what the clients of NativePortFrameQueue see, for any number *)
(* of threads, arenas and frames: the snapshots, and the channel the queue   *)
(* is to them.                                                              *)
(***************************************************************************)
EXTENDS FrameQueueProofs

-----------------------------------------------------------------------------
(* The error mailbox and the snapshots.                                     *)

\* The mailbox: claimed before Failed, readable after it, filled only once.
ErrorInv ==
    /\ errorClaimed <=> firstError # "None"
    /\ lifecycle = "Failed" => errorClaimed
    /\ errorReady => lifecycle = "Failed"
    /\ \A t \in Thread :
        /\ In(t, "error", {"lifecycle"}) => errorClaimed
        /\ In(t, "error", {"ready"}) => lifecycle = "Failed"
        /\ In(t, "error", {"claim"}) => raised[t] # "None"
        /\ \A s \in Side : In(t, s, {"check", "fail", "failed"}) => raised[t] # "None"

View == [lifecycle : Lifecycle, error : Error, completed : Position, submitted : Position]

\* What a snapshot has loaded so far fits together.
ViewInv ==
    /\ view \in [Thread -> View]
    /\ \A t \in Thread :
        /\ In(t, "snapshot", {"lifecycle"}) => view[t].error = "None"
        /\ In(t, "snapshot", {"claimed"}) =>
                view[t].error = "None" /\ (view[t].lifecycle = "Failed" => lifecycle = "Failed")
        /\ In(t, "snapshot", {"error", "again"}) => errorReady
        /\ In(t, "snapshot", {"again"}) => view[t].error # "None"
        /\ In(t, "snapshot", {"completed", "submitted", "verify", "return"}) =>
                (view[t].error # "None" <=> view[t].lifecycle = "Failed")
        /\ In(t, "snapshot", {"return"}) => view[t].completed <= view[t].submitted

\* Neither side is entered by a thread that does not call for it.
Stays(t, call, back) ==
    \A s \in Side : s \in {call, back[1]} =>
        s \in {pc[t][1], ret[t][1]} \/ t \in Callers[threadingMode][s]

\* What a jump of t to a label must satisfy besides.
Passes(t, call, step) ==
    /\ call = "error" => step \in {"claim", "wait"}
    /\ call = "snapshot" => step \in {"epoch", "ready", "wait"}
    /\ call = "stop" => step = "draining" \/ pc[t][1] = "stop"
    /\ call = "producer" /\ step = "commit" => lifecycle = "Running"
    /\ call = "producer" /\ step \in {"lower", "position"} =>
            pc[t] \in {<<"producer", "commit">>, <<"producer", "lower">>}

\* A step that leaves the mailbox and the views alone and fails nothing.
Plain(t) ==
    /\ UNCHANGED <<errorVars, view>>
    /\ lifecycle' = lifecycle \/ ("Failed" \notin {lifecycle, lifecycle'})
    /\ \A u \in Thread \ {t} : /\ pc'[u] = pc[u] /\ raised'[u] = raised[u]
                               /\ ret'[u] = ret[u] /\ seen'[u] = seen[u]
    /\ Passes(t, pc'[t][1], pc'[t][2]) /\ Stays(t, pc'[t][1], ret'[t])
    /\ pc'[t][1] = "error" /\ pc'[t][2] = "claim" => raised'[t] # "None"
    /\ pc'[t][1] \in Side /\ pc'[t][2] \in {"check", "fail", "failed"} => raised'[t] # "None"

LEMMA PlainKeeps ==
    ASSUME ErrorInv, ViewInv, NEW t \in Thread, Plain(t)
    PROVE  ErrorInv' /\ ViewInv'
<1>1. ErrorInv'
  BY DEF Plain, Passes, ErrorInv, In, errorVars
<1>2. ViewInv'
  BY DEF Plain, Passes, ErrorInv, ViewInv, In, errorVars
<1> QED
  BY <1>1, <1>2, Zenon

LEMMA JumpPlain ==
    ASSUME ThreadTyped, NEW t \in Thread, NEW label, label = <<label[1], label[2]>>, Jump(t, label),
           UNCHANGED <<errorVars, view>>,
           lifecycle' = lifecycle \/ ("Failed" \notin {lifecycle, lifecycle'}),
           Passes(t, label[1], label[2]), Stays(t, label[1], ret'[t]),
           label[1] = "error" /\ label[2] = "claim" => raised'[t] # "None",
           label[1] \in Side => label[2] \notin {"check", "fail", "failed"}
    PROVE  Plain(t)
<1>1. pc'[t] = label /\ \A u \in Thread \ {t} : pc'[u] = pc[u]
  BY JumpTyped, Zenon
<1>2. \A u \in Thread \ {t} : raised'[u] = raised[u] /\ ret'[u] = ret[u] /\ seen'[u] = seen[u]
  BY Zenon DEF Jump
<1> QED
  BY <1>1, <1>2, Zenon DEF Plain

LEMMA GoesTo ==
    ASSUME ThreadTyped, NEW t \in Thread, NEW call, NEW step, Go(t, call, step)
    PROVE  /\ pc'[t] = <<call, step>>
           /\ step # "idle" => raised'[t] = raised[t] /\ ret'[t] = ret[t]
           /\ ret'[t] \in {ret[t], <<"client", "idle">>}
           /\ \A u \in Thread \ {t} : /\ pc'[u] = pc[u] /\ raised'[u] = raised[u]
                                      /\ ret'[u] = ret[u] /\ seen'[u] = seen[u]
<1>1. Jump(t, <<call, step>>) /\ (step # "idle" => raised'[t] = raised[t])
  BY GoJumps
<1>2. pc'[t] = <<call, step>> /\ \A u \in Thread \ {t} : pc'[u] = pc[u]
  BY <1>1, JumpTyped, Zenon
<1>3. ret'[t] \in {ret[t], <<"client", "idle">>} /\ (step # "idle" => ret'[t] = ret[t])
  BY DEF Go, locals, ThreadTyped
<1> QED
  BY <1>1, <1>2, <1>3, Zenon DEF Jump

LEMMA BackLabel ==
    ASSUME NEW label \in Back
    PROVE  /\ label = <<label[1], label[2]>> /\ label[1] \notin {"error", "snapshot", "stop"}
           /\ label[2] \notin {"check", "fail", "failed", "commit", "lower", "position"}
BY DEF Back

LEMMA GoPlain ==
    ASSUME ThreadTyped, NEW t \in Thread, NEW call, NEW step, UNCHANGED <<errorVars, view>>,
           lifecycle' = lifecycle \/ ("Failed" \notin {lifecycle, lifecycle'}),
           Go(t, call, step), call \notin Side \/ call = pc[t][1], Passes(t, call, step),
           ~(call = "error" /\ step = "claim"),
           call \in Side /\ step \in {"check", "fail", "failed"} => raised[t] # "None"
    PROVE  Plain(t)
<1>1. Stays(t, call, ret'[t])
  BY GoesTo DEF Stays, Side
<1> QED
  BY <1>1, GoesTo DEF Plain, Side

LEMMA BackPlain ==
    ASSUME ThreadTyped, NEW t \in Thread, UNCHANGED <<errorVars, view>>,
           lifecycle' = lifecycle \/ ("Failed" \notin {lifecycle, lifecycle'}),
           NEW label \in Back, label[1] \notin Side \/ label[1] \in {pc[t][1], ret[t][1]},
           Go(t, label[1], label[2])
    PROVE  Plain(t)
<1>1. /\ label = <<label[1], label[2]>> /\ label[1] \notin {"error", "snapshot", "stop"}
      /\ label[2] \notin {"check", "fail", "failed", "commit", "lower", "position"}
  BY BackLabel, Zenon
<1>2. Stays(t, label[1], ret'[t])
  BY GoesTo DEF Stays, Side
<1> QED
  BY <1>1, <1>2, GoesTo DEF Plain, Passes

\* Return, Refuse and maybe_publish_stopped().
LEMMA ReturnPlain ==
    ASSUME ThreadTyped, NEW t \in Thread, UNCHANGED <<errorVars, view>>,
           lifecycle' = lifecycle \/ ("Failed" \notin {lifecycle, lifecycle'}),
           \/ Return(t)
           \/ \E s \in Side : pc[t][1] = s /\ Refuse(t, s)
           \/ \E back \in Back : (back[1] \notin Side \/ back[1] = pc[t][1]) /\ MaybeStop(t, back)
    PROVE  Plain(t)
<1>1. CASE Return(t)
  BY <1>1, BackPlain, Zenon DEF Return, ThreadTyped
<1>2. ASSUME NEW s \in Side, pc[t][1] = s, Refuse(t, s)
      PROVE  Plain(t)
  <2>1. RefusedLabel(t, s) \in Back /\ RefusedLabel(t, s)[1] \in {s, "client"}
    BY RefusedBack
  <2> QED
    BY <1>2, <2>1, BackPlain, Zenon DEF Refuse, Side
<1>3. ASSUME NEW back \in Back, back[1] \notin Side \/ back[1] = pc[t][1], MaybeStop(t, back)
      PROVE  Plain(t)
  <2>1. Jump(t, <<"stop", "draining">>) /\ ret'[t] = back
    BY <1>3, MaybeStopJumps, Zenon
  <2>2. Stays(t, "stop", ret'[t]) /\ Passes(t, "stop", "draining")
    BY <1>3, <2>1, Zenon DEF Stays, Passes, Side
  <2> QED
    BY <2>1, <2>2, JumpPlain, Zenon DEF Side
<1> QED
  BY <1>1, <1>2, <1>3, Zenon

LEMMA RaisePlain ==
    ASSUME ThreadTyped, NEW t \in Thread, NEW back \in Back, back[1] \notin Side \/ back[1] = pc[t][1],
           NEW error \in Error \ {"None"}, UNCHANGED <<lifecycle, errorVars, view>>,
           Raise(t, error, back)
    PROVE  Plain(t)
<1>1. Jump(t, <<"error", "claim">>) /\ ret'[t] = back /\ raised'[t] = error
  BY RaiseJumps, Zenon
<1>2. Stays(t, "error", ret'[t]) /\ Passes(t, "error", "claim")
  BY <1>1, Zenon DEF Stays, Passes, Side
<1> QED
  BY <1>1, <1>2, JumpPlain, Zenon DEF Side

LEMMA BeginPlain ==
    ASSUME ThreadTyped, NEW t \in Thread, BeginLease(t)
    PROVE  Plain(t)
<1>0. /\ "ThreadDomainOverlap" \in Error \ {"None"} /\ "SequenceViolation" \in Error \ {"None"}
      /\ \A s : ThreadViolation(s) \in Error \ {"None"} /\ LeaseOverlap(s) \in Error \ {"None"}
  BY DEF Error, ThreadViolation, LeaseOverlap
<1>1. \A s \in Side : RefusedLabel(t, s) \in Back /\ RefusedLabel(t, s)[1] \in {s, "client"}
  BY RefusedBack
<1>2. "client" \notin Side /\ \A s \in Side : s \notin {"error", "snapshot", "stop"}
  BY DEF Side
<1>3. ASSUME NEW s \in Side, pc[t][1] = s, UNCHANGED <<lifecycle, errorVars, view>>,
             NEW step \in {"lifecycle", "bind", "bound", "lease", "recheck", "examine", "rollback", "nothing",
                           "alarm", "claim", "epoch", "again", "sleep"}, Go(t, s, step)
      PROVE  Plain(t)
  <2>1. Passes(t, s, step) /\ step \notin {"check", "fail", "failed"}
    BY <1>2, <1>3, Zenon DEF Passes
  <2> QED
    BY <1>2, <1>3, <2>1, GoPlain, Zenon
<1>4. ASSUME UNCHANGED <<lifecycle, errorVars, view>>, Go(t, "client", "idle")
      PROVE  Plain(t)
  BY <1>2, <1>4, GoPlain, Zenon DEF Passes
<1>5. ASSUME NEW s \in Side, TryLifecycle(t, s) \/ Refused(t, s) \/ Recheck(t, s) \/ Examine(t, s)
      PROVE  Plain(t)
  <2>1. UNCHANGED <<lifecycle, errorVars, view>> /\ pc[t][1] = s
    BY <1>5 DEF TryLifecycle, Refused, Recheck, Examine, OnlyReads, At
  <2>2. \/ Refuse(t, s) \/ Go(t, "client", "idle")
        \/ \E step \in {"bind", "epoch", "examine", "rollback", "nothing", "alarm", "claim"} : Go(t, s, step)
    BY <1>5, Zenon DEF TryLifecycle, Refused, Recheck, Examine, Finish
  <2> QED
    BY <1>3, <1>4, <2>1, <2>2, ReturnPlain, Zenon
<1>6. ASSUME NEW s \in Side, Bound(t, s) \/ LoadEpoch(t, s) \/ Awake(t, s)
      PROVE  Plain(t)
  <2>1. UNCHANGED <<lifecycle, errorVars, view>> /\ pc[t][1] = s
    BY <1>6 DEF Bound, LoadEpoch, Awake, OnlyReads, NotifyStateChange, At
  <2>2. \E step \in {"lease", "again", "lifecycle"} : Go(t, s, step)
    BY <1>6, Zenon DEF Bound, LoadEpoch, Awake
  <2> QED
    BY <1>3, <2>1, <2>2, Zenon
<1>7. ASSUME NEW s \in Side, Again(t, s)
      PROVE  Plain(t)
  <2>1. UNCHANGED <<lifecycle, errorVars, view>> /\ pc[t][1] = s
    BY <1>7 DEF Again, OnlyReads, At
  <2>2. CASE \E step \in {"lifecycle", "sleep"} : Go(t, s, step)
    BY <1>3, <2>1, <2>2, Zenon
  <2>3. CASE s = "consumer" /\ MaybeStop(t, <<s, "stopped">>)
    BY <2>1, <2>3, ReturnPlain, Zenon DEF Back
  <2> QED
    BY <1>7, <2>2, <2>3, Zenon DEF Again, Side
<1>8. ASSUME NEW s \in Side, Bind(t, s) \/ TakeLease(t, s)
      PROVE  Plain(t)
  <2>1. UNCHANGED <<lifecycle, errorVars, view>> /\ pc[t][1] = s
    BY <1>8 DEF Bind, TakeLease, At
  <2>2. CASE \E error \in Error \ {"None"} : Raise(t, error, RefusedLabel(t, s))
    BY <1>1, <1>2, <2>1, <2>2, RaisePlain, Zenon
  <2>3. CASE \E step \in {"lease", "bound", "recheck"} : Go(t, s, step)
    BY <1>3, <2>1, <2>3, Zenon
  <2> QED
    BY <1>0, <1>8, <2>2, <2>3, Zenon DEF Bind, TakeLease
<1>9. ASSUME NEW s \in Side, Rollback(t, s) \/ Nothing(t, s) \/ Alarm(t, s)
      PROVE  Plain(t)
  <2>1. UNCHANGED <<lifecycle, errorVars, view>> /\ pc[t][1] = s
    BY <1>9 DEF Rollback, Nothing, Alarm, LowerLease, At
  <2>2. Refuse(t, s) \/ MaybeStop(t, RefusedLabel(t, s)) \/ Raise(t, "SequenceViolation", RefusedLabel(t, s))
    BY <1>9, Zenon DEF Rollback, Nothing, Alarm
  <2> QED
    BY <1>0, <1>1, <1>2, <2>1, <2>2, ReturnPlain, RaisePlain, Zenon
<1>10. CASE ClaimFree(t) \/ ClaimReady(t)
  <2>1. UNCHANGED <<lifecycle, errorVars, view>>
    BY <1>10, Zenon DEF ClaimFree, ClaimReady
  <2>2. Go(t, "client", "idle") \/ \E s \in Side : pc[t][1] = s /\ Go(t, s, "alarm")
    BY <1>10 DEF ClaimFree, ClaimReady, Finish, Side, At
  <2> QED
    BY <1>3, <1>4, <2>1, <2>2, Zenon
<1>11. CASE Stopped(t)
  <2>1. /\ UNCHANGED <<lifecycle, errorVars, view>> /\ pc[t][1] = "consumer"
        /\ Go(t, "client", "idle") \/ Go(t, "consumer", "sleep")
    BY <1>11 DEF Stopped, OnlyReads, Finish, At
  <2> QED
    BY <1>3, <1>4, <2>1, Zenon DEF Side
<1> QED
  BY <1>5, <1>6, <1>7, <1>8, <1>9, <1>10, <1>11, Zenon DEF BeginLease

LEMMA EndPlain ==
    ASSUME ThreadTyped, ErrorInv, NEW t \in Thread, EndLease(t)
    PROVE  Plain(t)
<1>1. "client" \notin Side /\ \A s \in Side : s \notin {"error", "snapshot", "stop"}
  BY DEF Side
<1>2. <<"client", "idle">> \in Back /\ <<"client", "notify">> \in Back
  BY DEF Back
<1>3. ASSUME NEW s \in Side, CommitCheck(t, s) \/ CommitArena(t, s) \/ CommitLower(t, s) \/ FailArena(t, s)
      PROVE  Plain(t)
  <2>1. UNCHANGED <<lifecycle, errorVars, view>> /\ pc[t][1] = s
    BY <1>3 DEF CommitCheck, CommitArena, CommitLower, FailArena, FreeArena, SetArena, LowerLease, OnlyReads, At
  <2>2. \/ \E step \in {"commit", "abort", "lower", "position"} : Go(t, s, step) /\ Passes(t, s, step)
        \/ /\ \E step \in {"fail", "failed"} : Go(t, s, step)
           /\ \E step \in {"check", "fail"} : pc[t] = <<s, step>>
    BY <1>1, <1>3, Zenon DEF CommitCheck, CommitArena, CommitLower, FailArena, At, Passes
  <2>3. CASE \E step \in {"commit", "abort", "lower", "position"} : Go(t, s, step) /\ Passes(t, s, step)
    BY <1>1, <2>1, <2>3, GoPlain, Zenon
  <2>4. CASE /\ \E step \in {"fail", "failed"} : Go(t, s, step)
             /\ \E step \in {"check", "fail"} : pc[t] = <<s, step>>
    <3>1. raised[t] # "None" /\ \A step \in {"fail", "failed"} : Passes(t, s, step)
      BY <1>1, <2>4 DEF ErrorInv, In, Passes
    <3> QED
      BY <1>1, <2>1, <2>4, <3>1, GoPlain, Zenon
  <2> QED
    BY <2>2, <2>3, <2>4, Zenon
<1>4. ASSUME UNCHANGED <<lifecycle, errorVars, view>>, NEW step \in {"idle", "notify"}, Go(t, "client", step)
      PROVE  Plain(t)
  BY <1>1, <1>4, GoPlain, Zenon DEF Passes
<1>5. ASSUME UNCHANGED <<lifecycle, errorVars, view>>, MaybeStop(t, <<"client", "notify">>)
      PROVE  Plain(t)
  BY <1>1, <1>2, <1>5, ReturnPlain, Zenon
<1>6. ASSUME NEW s \in Side, CommitPosition(t, s)
      PROVE  Plain(t)
  BY <1>4, <1>5, <1>6, Zenon DEF CommitPosition
<1>7. ASSUME NEW s \in Side, FailLower(t, s)
      PROVE  Plain(t)
  <2>1. /\ UNCHANGED <<lifecycle, errorVars, view>> /\ pc[t] = <<s, "failed">>
        /\ Raise(t, raised[t], <<"client", "idle">>)
    BY <1>7, Zenon DEF FailLower, LowerLease, At
  <2>2. raised[t] \in Error \ {"None"}
    BY <2>1 DEF ErrorInv, In, ThreadTyped, TypeOK
  <2> QED
    BY <1>1, <1>2, <2>1, <2>2, RaisePlain, Zenon
<1>8. CASE AbortArena(t)
  <2>1. /\ UNCHANGED <<lifecycle, errorVars, view>> /\ pc[t][1] = "producer"
        /\ Go(t, "producer", "aborted")
    BY <1>8 DEF AbortArena, FreeArena, SetArena, OnlyReads, At
  <2> QED
    BY <2>1, GoPlain, Zenon DEF Passes
<1>9. CASE AbortLower(t) \/ FinalNotify(t)
  BY <1>4, <1>5, <1>9, Zenon DEF AbortLower, FinalNotify, LowerLease, NotifyStateChange, Finish
<1> QED
  BY <1>3, <1>6, <1>7, <1>8, <1>9, Zenon DEF EndLease

LEMMA StopPlain ==
    ASSUME ThreadTyped, NEW t \in Thread, MaybePublishStopped(t)
    PROVE  Plain(t)
<1>1. pc[t][1] = "stop"
  BY DEF MaybePublishStopped, StopSeesDraining, StopSeesNoProducer, StopSeesNoConsumer,
         StopLoadsCompleted, StopSeesNoWork, StopUnless, StopPublish, StopNotify, At
<1>2. CASE StopLoadsCompleted(t)
  BY <1>1, <1>2, Zenon DEF StopLoadsCompleted, OnlyReads, Plain, Passes, Stays, ThreadTyped, TypeOK, Labelled, Side
<1>3. CASE ~StopLoadsCompleted(t)
  <2>1. /\ UNCHANGED <<errorVars, view>> /\ (lifecycle' = lifecycle \/ "Failed" \notin {lifecycle, lifecycle'})
        /\ \/ Return(t)
           \/ \E step \in {"producer", "consumer", "completed", "publish", "notify"} : Go(t, "stop", step)
    BY <1>3, Zenon DEF MaybePublishStopped, StopSeesDraining, StopSeesNoProducer, StopSeesNoConsumer,
                StopSeesNoWork, StopUnless, StopPublish, StopNotify, OnlyReads, NotifyStateChange
  <2>2. \A step : Passes(t, "stop", step)
    BY <1>1 DEF Passes
  <2> QED
    BY <2>1, <2>2, GoPlain, ReturnPlain, Zenon DEF Side
<1> QED
  BY <1>2, <1>3, Zenon

LEMMA ClientPlain ==
    ASSUME ThreadTyped, NEW t \in Thread, Client(t)
    PROVE  Plain(t)
<1>0. /\ \A s : ThreadViolation(s) \in Error \ {"None"}
      /\ "SequenceViolation" \in Error \ {"None"} /\ "ClientError" \in Error \ {"None"}
      /\ <<"client", "idle">> \in Back /\ <<"client", "notify">> \in Back
  BY DEF Error, ThreadViolation, Back
<1>1. ASSUME NEW s \in Side, \E wait \in BOOLEAN : Begin(t, s, wait)
      PROVE  Plain(t)
  BY <1>1 DEF Begin, OnlyReads, Plain, Passes, Stays, ThreadTyped, Labelled, Side
<1>2. ASSUME NEW s \in Side, NEW step \in {"check", "fail", "abort"}, NEW error \in Error,
             step # "abort" => error # "None", UseLease(t, s, step, error)
      PROVE  Plain(t)
  <2>1. /\ UNCHANGED <<lifecycle, errorVars, view, ret, seen>> /\ t \in Callers[threadingMode][s]
        /\ pc' = [pc EXCEPT ![t] = <<s, IF boundThread[s] = t THEN step ELSE "fail">>]
        /\ raised' = [raised EXCEPT ![t] = IF boundThread[s] = t THEN error ELSE ThreadViolation(s)]
    BY <1>2, Zenon DEF UseLease
  <2> QED
    BY <1>0, <1>2, <2>1, Zenon DEF Plain, Passes, Stays, ThreadTyped, TypeOK, Labelled, Side
<1>3. ASSUME NEW s \in Side, Commit(t, s) \/ FailLease(t, s)
      PROVE  Plain(t)
  BY <1>0, <1>2, <1>3, Zenon DEF Commit, FailLease
<1>4. CASE Abort(t)
  BY <1>2, <1>4, Zenon DEF Abort, Side, Error
<1>5. CASE RequestShutdown(t)
  <2>1. /\ UNCHANGED <<errorVars, view>> /\ "Failed" \notin {lifecycle, lifecycle'}
        /\ MaybeStop(t, <<"client", "notify">>)
    BY <1>5 DEF RequestShutdown
  <2> QED
    BY <1>0, <2>1, ReturnPlain, Zenon DEF Side
<1>6. CASE ReportError(t)
  <2>1. UNCHANGED <<lifecycle, errorVars, view>> /\ Raise(t, "ClientError", <<"client", "idle">>)
    BY <1>6, Zenon DEF ReportError, OnlyReads
  <2> QED
    BY <1>0, <2>1, RaisePlain, Zenon DEF Side
<1>7. CASE TakeSnapshot(t)
  <2>1. UNCHANGED <<lifecycle, errorVars, view>> /\ Go(t, "snapshot", "epoch")
    BY <1>7 DEF TakeSnapshot, OnlyReads
  <2> QED
    BY <2>1, GoPlain, Zenon DEF Side, Passes
<1> QED
  BY <1>1, <1>3, <1>4, <1>5, <1>6, <1>7, Zenon DEF Client

LEMMA ErrorKeepsViews ==
    ASSUME ThreadTyped, ErrorInv, ViewInv, NEW t \in Thread, PublishError(t)
    PROVE  ErrorInv' /\ ViewInv'
<1>1. CASE ErrorNotify(t) \/ ErrorWait(t)
  <2>1. UNCHANGED <<lifecycle, errorVars, view>> /\ Return(t)
    BY <1>1, Zenon DEF ErrorNotify, ErrorWait, OnlyReads, NotifyStateChange
  <2> QED
    BY <2>1, ReturnPlain, PlainKeeps, Zenon
<1>2. CASE ErrorClaim(t) /\ UNCHANGED errorVars
  <2>1. UNCHANGED <<lifecycle, errorVars, view>> /\ (Return(t) \/ Go(t, "error", "wait"))
    BY <1>2, Zenon DEF ErrorClaim, ErrorInv, errorVars
  <2>2. Plain(t)
    BY <2>1, ReturnPlain, GoPlain, Zenon DEF Side, Passes
  <2> QED
    BY <2>2, PlainKeeps, Zenon
<1>3. ASSUME NEW step \in {"lifecycle", "ready", "notify"}, Go(t, "error", step)
      PROVE  /\ pc'[t] = <<"error", step>> /\ raised'[t] = raised[t]
             /\ \A u \in Thread \ {t} : pc'[u] = pc[u] /\ raised'[u] = raised[u]
  BY <1>3, GoesTo, SMTT(30)
<1>4. CASE ErrorClaim(t) /\ ~UNCHANGED errorVars
  <2>1. /\ pc[t] = <<"error", "claim">> /\ errorClaimed' = TRUE /\ firstError' = raised[t]
        /\ Go(t, "error", "lifecycle") /\ UNCHANGED <<errorReady, lifecycle, view>>
    BY <1>4, Zenon DEF ErrorClaim, At
  <2>2. raised[t] # "None"
    BY <2>1 DEF ErrorInv, In
  <2> QED
    BY <1>3, <2>1, <2>2 DEF ErrorInv, ViewInv, In, Side
<1>5. CASE ErrorFails(t)
  <2>1. /\ pc[t] = <<"error", "lifecycle">> /\ lifecycle' = "Failed"
        /\ Go(t, "error", "ready") /\ UNCHANGED <<errorClaimed, errorReady, firstError, view>>
    BY <1>5, Zenon DEF ErrorFails, At, errorVars
  <2> QED
    BY <1>3, <2>1, SMTT(30) DEF ErrorInv, ViewInv, In, Side
<1>6. CASE ErrorReady(t)
  <2>1. /\ pc[t] = <<"error", "ready">> /\ errorReady' = TRUE
        /\ Go(t, "error", "notify") /\ UNCHANGED <<errorClaimed, lifecycle, firstError, view>>
    BY <1>6, Zenon DEF ErrorReady, At
  <2> QED
    BY <1>3, <2>1 DEF ErrorInv, ViewInv, In, Side
<1> QED
  BY <1>1, <1>2, <1>4, <1>5, <1>6, Zenon DEF PublishError

\* One field of t's view is loaded.
LEMMA Observed ==
    ASSUME ThreadTyped, ViewInv, NEW t \in Thread, NEW next, next # "idle", NEW seenView \in View,
           Go(t, "snapshot", next), view' = [view EXCEPT ![t] = seenView],
           UNCHANGED <<lifecycle, errorVars>>
    PROVE  /\ pc'[t] = <<"snapshot", next>> /\ raised'[t] = raised[t]
           /\ \A u \in Thread \ {t} : pc'[u] = pc[u] /\ raised'[u] = raised[u] /\ view'[u] = view[u]
           /\ view' \in [Thread -> View] /\ view'[t] = seenView
BY GoesTo DEF ViewInv

LEMMA SnapshotKeepsViews ==
    ASSUME ThreadTyped, ErrorInv, ViewInv, NEW t \in Thread, Snapshot(t)
    PROVE  ErrorInv' /\ ViewInv'
<1>0. /\ lifecycle \in Lifecycle /\ firstError \in Error
      /\ position["producer"] \in Position /\ position["consumer"] \in Position
  BY DEF ThreadTyped, TypeOK, Side
<1>1. ASSUME NEW call, NEW step, Go(t, call, step)
      PROVE  /\ pc'[t] = <<call, step>>
             /\ \A u \in Thread \ {t} : pc'[u] = pc[u] /\ raised'[u] = raised[u]
  BY <1>1, GoesTo, SMTT(30)
<1>2. CASE SnapshotEpoch(t) \/ SnapshotReturn(t)
  <2>1. /\ UNCHANGED <<lifecycle, errorVars>> /\ view' = [view EXCEPT ![t] = NoView]
        /\ Go(t, "snapshot", "lifecycle") \/ Go(t, "client", "idle")
    BY <1>2, Zenon DEF SnapshotEpoch, SnapshotReturn, Finish
  <2>2. NoView \in View /\ NoView.error = "None"
    BY FrameQueueAssumption DEF NoView, View, Lifecycle, Error, Position
  <2>3. view' \in [Thread -> View] /\ view'[t] = NoView /\ \A u \in Thread \ {t} : view'[u] = view[u]
    BY <2>1, <2>2, Zenon DEF ViewInv
  <2> QED
    BY <1>1, <2>1, <2>2, <2>3, SMTT(30) DEF ErrorInv, ViewInv, In, Side, errorVars
<1>3. CASE SnapshotLifecycle(t)
  <2>1. /\ UNCHANGED <<lifecycle, errorVars>> /\ pc[t] = <<"snapshot", "lifecycle">>
        /\ pc'[t] = <<"snapshot", "claimed">> /\ raised'[t] = raised[t]
        /\ \A u \in Thread \ {t} : pc'[u] = pc[u] /\ raised'[u] = raised[u] /\ view'[u] = view[u]
        /\ view' \in [Thread -> View] /\ view'[t].lifecycle = lifecycle /\ view'[t].error = view[t].error
    <3>1. /\ pc[t] = <<"snapshot", "lifecycle">> /\ UNCHANGED <<lifecycle, errorVars>>
          /\ Go(t, "snapshot", "claimed")
          /\ view' = [view EXCEPT ![t] = [view[t] EXCEPT !["lifecycle"] = lifecycle]]
      BY <1>3, Zenon DEF SnapshotLifecycle, Observe, At
    <3> DEFINE v == [view[t] EXCEPT !["lifecycle"] = lifecycle]
    <3>2. v \in View /\ v.lifecycle = lifecycle /\ v.error = view[t].error
      BY <1>0, Zenon DEF ViewInv, View
    <3> QED
      BY <3>1, <3>2, Observed, Zenon
  <2> QED
    BY <2>1 DEF ErrorInv, ViewInv, In, Side, errorVars
<1>4. CASE SnapshotClaimed(t) \/ SnapshotReady(t) \/ SnapshotWait(t) \/ SnapshotVerify(t)
  <2>1. UNCHANGED <<lifecycle, errorVars, view>>
    BY <1>4, Zenon DEF SnapshotClaimed, SnapshotReady, SnapshotWait, SnapshotVerify, OnlyReads
  <2>2. \/ \E step \in {"epoch", "ready", "wait"} : Go(t, "snapshot", step)
        \/ pc[t] = <<"snapshot", "claimed">> /\ ~errorClaimed /\ Go(t, "snapshot", "completed")
        \/ errorReady /\ Go(t, "snapshot", "error")
        \/ /\ pc[t] = <<"snapshot", "verify">> /\ view[t].completed <= view[t].submitted
           /\ Go(t, "snapshot", "return")
    BY <1>4, Zenon DEF SnapshotClaimed, SnapshotReady, SnapshotWait, SnapshotVerify, At
  <2>3. CASE \E step \in {"epoch", "ready", "wait"} : Go(t, "snapshot", step)
    BY <2>1, <2>3, GoPlain, PlainKeeps, Zenon DEF Side, Passes
  <2>4. CASE pc[t] = <<"snapshot", "claimed">> /\ ~errorClaimed /\ Go(t, "snapshot", "completed")
    BY <1>1, <2>1, <2>4, SMTT(30) DEF ErrorInv, ViewInv, In, Side, errorVars
  <2>5. CASE errorReady /\ Go(t, "snapshot", "error")
    BY <1>1, <2>1, <2>5, SMTT(30) DEF ErrorInv, ViewInv, In, Side, errorVars
  <2>6. CASE /\ pc[t] = <<"snapshot", "verify">> /\ view[t].completed <= view[t].submitted
             /\ Go(t, "snapshot", "return")
    BY <1>1, <2>1, <2>6, SMTT(30) DEF ErrorInv, ViewInv, In, Side, errorVars
  <2> QED
    BY <2>2, <2>3, <2>4, <2>5, <2>6, Zenon
<1>5. CASE SnapshotError(t)
  <2>1. /\ UNCHANGED <<lifecycle, errorVars>> /\ pc[t] = <<"snapshot", "error">>
        /\ pc'[t] = <<"snapshot", "again">> /\ raised'[t] = raised[t]
        /\ \A u \in Thread \ {t} : pc'[u] = pc[u] /\ raised'[u] = raised[u] /\ view'[u] = view[u]
        /\ view' \in [Thread -> View] /\ view'[t].error = firstError
    <3>1. /\ pc[t] = <<"snapshot", "error">> /\ UNCHANGED <<lifecycle, errorVars>>
          /\ Go(t, "snapshot", "again")
          /\ view' = [view EXCEPT ![t] = [view[t] EXCEPT !["error"] = firstError]]
      BY <1>5, Zenon DEF SnapshotError, Observe, At
    <3> DEFINE v == [view[t] EXCEPT !["error"] = firstError]
    <3>2. v \in View /\ v.lifecycle = view[t].lifecycle /\ v.error = firstError
      BY <1>0, Zenon DEF ViewInv, View
    <3> QED
      BY <3>1, <3>2, Observed, Zenon
  <2> QED
    BY <2>1 DEF ErrorInv, ViewInv, In, Side, errorVars
<1>6. CASE SnapshotLifecycleAgain(t)
  <2>1. /\ UNCHANGED <<lifecycle, errorVars>> /\ pc[t] = <<"snapshot", "again">>
        /\ pc'[t] = <<"snapshot", "completed">> /\ raised'[t] = raised[t]
        /\ \A u \in Thread \ {t} : pc'[u] = pc[u] /\ raised'[u] = raised[u] /\ view'[u] = view[u]
        /\ view' \in [Thread -> View] /\ view'[t].lifecycle = lifecycle /\ view'[t].error = view[t].error
    <3>1. /\ pc[t] = <<"snapshot", "again">> /\ UNCHANGED <<lifecycle, errorVars>>
          /\ Go(t, "snapshot", "completed")
          /\ view' = [view EXCEPT ![t] = [view[t] EXCEPT !["lifecycle"] = lifecycle]]
      BY <1>6, Zenon DEF SnapshotLifecycleAgain, Observe, At
    <3> DEFINE v == [view[t] EXCEPT !["lifecycle"] = lifecycle]
    <3>2. v \in View /\ v.lifecycle = lifecycle /\ v.error = view[t].error
      BY <1>0, Zenon DEF ViewInv, View
    <3> QED
      BY <3>1, <3>2, Observed, Zenon
  <2> QED
    BY <2>1 DEF ErrorInv, ViewInv, In, Side, errorVars
<1>7. ASSUME NEW v \in View, v.lifecycle = view[t].lifecycle, v.error = view[t].error,
             In(t, "snapshot", {"completed", "submitted"}), NEW step \in {"submitted", "verify"},
             Go(t, "snapshot", step), view' = [view EXCEPT ![t] = v], UNCHANGED <<lifecycle, errorVars>>
      PROVE  ErrorInv' /\ ViewInv'
  <2>1. /\ pc'[t] = <<"snapshot", step>> /\ raised'[t] = raised[t]
        /\ \A u \in Thread \ {t} : pc'[u] = pc[u] /\ raised'[u] = raised[u] /\ view'[u] = view[u]
        /\ view' \in [Thread -> View] /\ view'[t] = v
    BY <1>7, Observed, Zenon
  <2> QED
    BY <1>7, <2>1 DEF ErrorInv, ViewInv, In, Side, errorVars
<1>8. CASE SnapshotCompleted(t)
  <2> DEFINE v == [view[t] EXCEPT !["completed"] = position["consumer"]]
  <2>1. v \in View /\ v.lifecycle = view[t].lifecycle /\ v.error = view[t].error
    BY <1>0, Zenon DEF ViewInv, View
  <2>2. /\ In(t, "snapshot", {"completed", "submitted"}) /\ Go(t, "snapshot", "submitted")
        /\ view' = [view EXCEPT ![t] = v] /\ UNCHANGED <<lifecycle, errorVars>>
    BY <1>8 DEF SnapshotCompleted, Observe, At, In
  <2> QED
    BY <1>7, <2>1, <2>2, Zenon
<1>9. CASE SnapshotSubmitted(t)
  <2> DEFINE v == [view[t] EXCEPT !["submitted"] = position["producer"]]
  <2>1. v \in View /\ v.lifecycle = view[t].lifecycle /\ v.error = view[t].error
    BY <1>0, Zenon DEF ViewInv, View
  <2>2. /\ In(t, "snapshot", {"completed", "submitted"}) /\ Go(t, "snapshot", "verify")
        /\ view' = [view EXCEPT ![t] = v] /\ UNCHANGED <<lifecycle, errorVars>>
    BY <1>9 DEF SnapshotSubmitted, Observe, At, In
  <2> QED
    BY <1>7, <2>1, <2>2, Zenon
<1> QED
  BY <1>2, <1>3, <1>4, <1>5, <1>6, <1>8, <1>9, Zenon DEF Snapshot

LEMMA SpecViews == Spec => [](ErrorInv /\ ViewInv)
<1>1. Init => ErrorInv /\ ViewInv
  <2>1. NoView \in View
    BY FrameQueueAssumption DEF NoView, View, Lifecycle, Error, Position
  <2> QED
    BY <2>1, FrameQueueAssumption DEF Init, ErrorInv, ViewInv, In, Side
<1>2. IInv /\ ErrorInv /\ ViewInv /\ [Next]_<<threadingMode, vars>> => (ErrorInv /\ ViewInv)'
  <2> SUFFICES ASSUME IInv, ErrorInv, ViewInv, [Next]_<<threadingMode, vars>>
               PROVE  ErrorInv' /\ ViewInv'
    OBVIOUS
  <2>1. CASE UNCHANGED <<threadingMode, vars>>
    BY <2>1, Zenon DEF vars, locals, errorVars, ErrorInv, ViewInv, In
  <2>2. ASSUME NEW t \in Thread, Client(t) \/ BeginLease(t) \/ EndLease(t) \/ MaybePublishStopped(t)
        PROVE  ErrorInv' /\ ViewInv'
    <3>1. Plain(t)
      BY <2>2, ClientPlain, BeginPlain, EndPlain, StopPlain, Zenon DEF IInv
    <3> QED
      BY <3>1, PlainKeeps, Zenon
  <2>3. ASSUME NEW t \in Thread, PublishError(t) \/ Snapshot(t)
        PROVE  ErrorInv' /\ ViewInv'
    BY <2>3, ErrorKeepsViews, SnapshotKeepsViews, Zenon DEF IInv
  <2> QED
    BY <2>1, <2>2, <2>3, Zenon DEF Next, Inner
<1> QED
  BY <1>1, <1>2, SpecIInv, PTL DEF Spec

\* Whatever the interleaving with publish_error() and the positions' stores, a
\* snapshot() that returns names an error exactly when it says Failed, and no
\* more frames completed than submitted.
THEOREM SnapshotsCoherent == Spec => []SnapshotCoherent
<1>1. ViewInv => SnapshotCoherent
  BY DEF ViewInv, SnapshotCoherent, In, At
<1> QED
  BY <1>1, SpecViews, PTL

-----------------------------------------------------------------------------
(* The queue is a channel.                                                  *)

\* Only the thread that produces asks for the shutdown, as the guest thread does.
ProducerShutsDown ==
    \A m \in DOMAIN Callers : \A t \in Callers[m]["producer"], u \in ShutdownCallers : t = u

SideInv ==
    \A t \in Thread, s \in Side : s \in {pc[t][1], ret[t][1]} => t \in Callers[threadingMode][s]

\* What a stopping thread has seen still holds when it publishes Stopped.
DrainInv ==
    /\ lifecycle \in {"Draining", "Stopped"} =>
            \A t \in Thread : ~In(t, "producer", {"commit", "lower", "position"})
    /\ \A t \in Thread :
        /\ In(t, "stop", {"producer", "consumer", "completed", "work", "publish"}) =>
                lifecycle \in {"Draining", "Stopped", "Failed"}
        /\ In(t, "stop", {"work"}) => seen[t] <= Completed
        /\ In(t, "stop", {"publish"}) /\ lifecycle = "Draining" => Published = Completed

\* What every step does to the control state.
Walks(t) ==
    /\ \A u \in Thread \ {t} : pc'[u] = pc[u] /\ ret'[u] = ret[u] /\ seen'[u] = seen[u]
    /\ Stays(t, pc'[t][1], ret'[t])
    /\ In(t, "stop", {"producer", "consumer", "completed", "work", "publish"})' => pc[t][1] = "stop"
    /\ In(t, "producer", {"commit"})' => lifecycle = "Running"
    /\ In(t, "producer", {"lower", "position"})' => In(t, "producer", {"commit", "lower"})

LEMMA StepWalks ==
    ASSUME ThreadTyped, ErrorInv, NEW t \in Thread, Client(t) \/ Inner(t)
    PROVE  Walks(t)
<1>1. Plain(t) => Walks(t)
  BY DEF Plain, Passes, Walks, In
<1>2. ASSUME NEW call \in {"error", "snapshot", "client"}, NEW step, Go(t, call, step)
      PROVE  Walks(t)
  <2>1. Stays(t, call, ret'[t])
    BY <1>2, GoesTo DEF Stays, Side
  <2> QED
    BY <1>2, <2>1, GoesTo, SMTT(30) DEF Walks, In
<1>3. ASSUME PublishError(t)
      PROVE  Plain(t) \/ \E step : Go(t, "error", step)
  <2>1. CASE Return(t)
    <3>1. CASE ErrorClaim(t) \/ ErrorNotify(t) \/ ErrorWait(t)
      <4>1. UNCHANGED <<lifecycle, view>> /\ (UNCHANGED errorVars \/ \E step : Go(t, "error", step))
        BY <3>1, Zenon DEF ErrorClaim, ErrorNotify, ErrorWait, OnlyReads, NotifyStateChange
      <4> QED
        BY <2>1, <4>1, ReturnPlain, Zenon
    <3>2. CASE ErrorFails(t) \/ ErrorReady(t)
      BY <3>2, Zenon DEF ErrorFails, ErrorReady
    <3> QED
      BY <1>3, <3>1, <3>2, Zenon DEF PublishError
  <2>2. CASE ~Return(t)
    BY <1>3, <2>2, Zenon DEF PublishError, ErrorClaim, ErrorFails, ErrorReady, ErrorNotify, ErrorWait
  <2> QED
    BY <2>1, <2>2, Zenon
<1>4. ASSUME Snapshot(t)
      PROVE  \E call \in {"snapshot", "client"} : \E step : Go(t, call, step)
  BY <1>4, Zenon DEF Snapshot, SnapshotEpoch, SnapshotLifecycle, SnapshotClaimed, SnapshotReady, SnapshotWait,
              SnapshotError, SnapshotLifecycleAgain, SnapshotCompleted, SnapshotSubmitted, SnapshotVerify,
              SnapshotReturn, Observe, Finish
<1> QED
  BY <1>1, <1>2, <1>3, <1>4, ClientPlain, BeginPlain, EndPlain, StopPlain, Zenon DEF Inner

\* Only these steps move a position or the lifecycle.
LEMMA WhoMoves ==
    ASSUME NEW t \in Thread, Client(t) \/ Inner(t)
    PROVE  /\ UNCHANGED position \/ \E s \in Side : CommitPosition(t, s)
           /\ UNCHANGED lifecycle \/ RequestShutdown(t) \/ StopPublish(t) \/ ErrorFails(t)
<1>1. CASE Client(t)
  BY <1>1, Zenon DEF Client, Begin, Commit, FailLease, Abort, UseLease, RequestShutdown, ReportError,
              TakeSnapshot, OnlyReads, queueVars
<1>2. CASE BeginLease(t)
  BY <1>2, Zenon DEF BeginLease, TryLifecycle, Bind, Bound, TakeLease, Recheck, Rollback, Examine, Nothing,
              Alarm, Refused, LoadEpoch, Again, Awake, ClaimFree, ClaimReady, Stopped, OnlyReads,
              NotifyStateChange, LowerLease, queueVars
<1>3. CASE EndLease(t)
  BY <1>3, Zenon DEF EndLease, CommitCheck, CommitArena, CommitLower, CommitPosition, FailArena, FailLower,
              AbortArena, AbortLower, FinalNotify, FreeArena, SetArena, OnlyReads, NotifyStateChange,
              LowerLease, queueVars
<1>4. CASE MaybePublishStopped(t)
  BY <1>4, Zenon DEF MaybePublishStopped, StopSeesDraining, StopSeesNoProducer, StopSeesNoConsumer,
              StopLoadsCompleted, StopSeesNoWork, StopUnless, StopPublish, StopNotify, OnlyReads,
              NotifyStateChange, queueVars
<1>5. CASE PublishError(t)
  BY <1>5, Zenon DEF PublishError, ErrorClaim, ErrorFails, ErrorReady, ErrorNotify, ErrorWait, OnlyReads,
              NotifyStateChange, queueVars
<1>6. CASE Snapshot(t)
  BY <1>6, Zenon DEF Snapshot, SnapshotEpoch, SnapshotLifecycle, SnapshotClaimed, SnapshotReady, SnapshotWait,
              SnapshotError, SnapshotLifecycleAgain, SnapshotCompleted, SnapshotSubmitted, SnapshotVerify,
              SnapshotReturn, Observe, OnlyReads, queueVars
<1> QED
  BY <1>1, <1>2, <1>3, <1>4, <1>5, <1>6, Zenon DEF Inner

\* How the positions move.
LEMMA PositionsMove ==
    ASSUME IInv, NEW t \in Thread, UNCHANGED threadingMode, Client(t) \/ Inner(t)
    PROVE  \/ Published' = Published /\ Completed' = Completed
           \/ /\ Published' = Published + 1 /\ Completed' = Completed /\ In(t, "producer", {"position"})
              /\ Published < Completed + Depth /\ UNCHANGED lifecycle /\ pc'[t][1] # "stop"
           \/ /\ Published' = Published /\ Completed' = Completed + 1 /\ Completed < Published
              /\ UNCHANGED lifecycle /\ ~In(t, "stop", {"publish"})
<1>1. CASE UNCHANGED position
  BY <1>1, Zenon DEF Published, Completed
<1>2. CASE CommitPosition(t, "producer")
  <2>1. /\ pc[t] = <<"producer", "position">> /\ UNCHANGED lifecycle /\ Go(t, "client", "notify")
    BY <1>2, Zenon DEF CommitPosition, At
  <2>2. Published' = Published + 1 /\ Completed' = Completed /\ In(t, "producer", AfterSteps)
    BY <1>2, PositionStored, Sides, Zenon DEF Published, Completed
  <2>3. Published < Completed + Depth
    BY <2>2, Zenon DEF IInv, ArenaInv, ProducerInv
  <2> QED
    BY <2>1, <2>2, <2>3, GoesTo, SMTT(30) DEF In, IInv
<1>3. CASE CommitPosition(t, "consumer")
  <2>1. pc[t] = <<"consumer", "position">> /\ UNCHANGED lifecycle
    BY <1>3, Zenon DEF CommitPosition, At
  <2>2. Published' = Published /\ Completed' = Completed + 1 /\ In(t, "consumer", AfterSteps)
    BY <1>3, PositionStored, Sides, Zenon DEF Published, Completed
  <2>3. Completed < Published
    BY <2>2, Zenon DEF IInv, ArenaInv, ConsumerInv
  <2> QED
    BY <2>1, <2>2, <2>3, Zenon DEF In
<1> QED
  BY <1>1, <1>2, <1>3, WhoMoves, Zenon DEF Side

\* How the lifecycle moves.
LEMMA LifecycleMoves ==
    ASSUME ThreadTyped, NEW t \in Thread, Client(t) \/ Inner(t)
    PROVE  \/ lifecycle' = lifecycle
           \/ /\ lifecycle' = "Draining" /\ lifecycle \in {"Running", "Draining"} /\ UNCHANGED position
              /\ t \in ShutdownCallers /\ pc'[t] = <<"stop", "draining">>
           \/ /\ lifecycle' = "Stopped" /\ lifecycle = "Draining" /\ UNCHANGED position
              /\ In(t, "stop", {"publish"})
           \/ lifecycle' = "Failed" /\ UNCHANGED position
<1>1. CASE RequestShutdown(t)
  BY <1>1, Zenon DEF RequestShutdown, MaybeStop, queueVars, ThreadTyped, Labelled
<1>2. CASE StopPublish(t)
  BY <1>2 DEF StopPublish, In, At, queueVars
<1>3. CASE ErrorFails(t)
  BY <1>3, Zenon DEF ErrorFails, queueVars
<1> QED
  BY <1>1, <1>2, <1>3, WhoMoves, Zenon

\* Nothing but maybe_publish_stopped() goes on from within it.
LEMMA StopIsStop ==
    ASSUME ThreadTyped, NEW t \in Thread, Client(t) \/ Inner(t), pc[t][1] = "stop"
    PROVE  MaybePublishStopped(t)
<1>0. \A call, step : At(t, call, step) => call = "stop"
  BY DEF At
<1>1. ~Client(t)
  BY <1>0, Zenon DEF Client, Begin, Commit, FailLease, Abort, UseLease, RequestShutdown, ReportError, TakeSnapshot, Idle
<1>2. ~BeginLease(t)
  BY <1>0, Zenon DEF BeginLease, TryLifecycle, Bind, Bound, TakeLease, Recheck, Rollback, Examine, Nothing, Alarm,
         Refused, LoadEpoch, Again, Awake, ClaimFree, ClaimReady, Stopped, Side
<1>3. ~EndLease(t)
  BY <1>0, Zenon DEF EndLease, CommitCheck, CommitArena, CommitLower, CommitPosition, FailArena, FailLower,
         AbortArena, AbortLower, FinalNotify, Side
<1>4. ~PublishError(t)
  BY <1>0, Zenon DEF PublishError, ErrorClaim, ErrorFails, ErrorReady, ErrorNotify, ErrorWait
<1>5. ~Snapshot(t)
  BY <1>0, Zenon DEF Snapshot, SnapshotEpoch, SnapshotLifecycle, SnapshotClaimed, SnapshotReady, SnapshotWait,
         SnapshotError, SnapshotLifecycleAgain, SnapshotCompleted, SnapshotSubmitted, SnapshotVerify,
         SnapshotReturn, Observe
<1> QED
  BY <1>1, <1>2, <1>3, <1>4, <1>5, Zenon DEF Inner

\* The five loads, one after the other.
LEMMA StopLoads ==
    ASSUME ThreadTyped, DrainInv, NEW t \in Thread, MaybePublishStopped(t),
           Published \in Nat, Completed \in Nat, Completed <= Published
    PROVE  /\ In(t, "stop", {"producer", "consumer", "completed", "work", "publish"})' =>
                lifecycle \in {"Draining", "Stopped", "Failed"}
           /\ In(t, "stop", {"work"})' => seen'[t] = Completed
           /\ In(t, "stop", {"publish"})' => Published = Completed
<1>1. CASE Return(t)
  <2>1. pc'[t] = ret[t] /\ ret[t][1] # "stop"
    BY <1>1, ReturnJumps, BackLabel, JumpTyped, Zenon
  <2> QED
    BY <2>1, Zenon DEF In
<1>2. CASE StopLoadsCompleted(t)
  BY <1>2 DEF StopLoadsCompleted, At, In, DrainInv, Completed, ThreadTyped, TypeOK, Labelled
<1>3. CASE StopSeesDraining(t) /\ ~Return(t)
  <2>1. lifecycle = "Draining" /\ Go(t, "stop", "producer")
    BY <1>3, Zenon DEF StopSeesDraining, StopUnless
  <2> QED
    BY <2>1, GoesTo DEF In
<1>4. CASE (StopSeesNoProducer(t) \/ StopSeesNoConsumer(t)) /\ ~Return(t)
  <2>1. In(t, "stop", {"producer", "consumer"}) /\ (Go(t, "stop", "consumer") \/ Go(t, "stop", "completed"))
    BY <1>4, SMTT(30) DEF StopSeesNoProducer, StopSeesNoConsumer, StopUnless, At, In
  <2> QED
    BY <2>1, GoesTo, SMTT(30) DEF In, DrainInv
<1>5. CASE StopSeesNoWork(t) /\ ~Return(t)
  <2>1. In(t, "stop", {"work"}) /\ Go(t, "stop", "publish") /\ ~(seen[t] < Published)
    BY <1>5 DEF StopSeesNoWork, StopUnless, At, In, Published
  <2>2. seen[t] \in Nat
    BY FrameQueueAssumption DEF ThreadTyped, TypeOK, Position
  <2>3. Published = Completed
    BY <2>1, <2>2, SMTT(30) DEF DrainInv
  <2> QED
    BY <2>1, <2>3, GoesTo, SMTT(30) DEF In, DrainInv
<1>6. CASE (StopPublish(t) \/ StopNotify(t)) /\ ~Return(t)
  <2>1. Go(t, "stop", "notify")
    BY <1>6, Zenon DEF StopPublish, StopNotify
  <2> QED
    BY <2>1, GoesTo DEF In
<1> QED
  BY <1>1, <1>2, <1>3, <1>4, <1>5, <1>6, SMTT(30) DEF MaybePublishStopped

LEMMA DrainStep ==
    ASSUME ProducerShutsDown, IInv, ErrorInv, SideInv, DrainInv, NEW t \in Thread,
           UNCHANGED threadingMode, Client(t) \/ Inner(t)
    PROVE  SideInv' /\ DrainInv'
<1> DEFINE Late == {"Draining", "Stopped", "Failed"}
           Beyond == {"producer", "consumer", "completed", "work", "publish"}
<1>1. ThreadTyped /\ Walks(t)
  BY StepWalks, Zenon DEF IInv
<1>2. SideInv'
  BY <1>1, Zenon DEF Walks, Stays, SideInv
<1>3. \/ lifecycle' = lifecycle
      \/ /\ lifecycle' = "Draining" /\ lifecycle \in {"Running", "Draining"} /\ UNCHANGED position
         /\ t \in ShutdownCallers /\ pc'[t] = <<"stop", "draining">>
      \/ /\ lifecycle' = "Stopped" /\ lifecycle = "Draining" /\ UNCHANGED position
         /\ In(t, "stop", {"publish"})
      \/ lifecycle' = "Failed" /\ UNCHANGED position
  BY <1>1, LifecycleMoves, Zenon
<1>4. ASSUME lifecycle' \in {"Draining", "Stopped"}, NEW u \in Thread
      PROVE  ~In(u, "producer", {"commit", "lower", "position"})'
  <2>1. CASE lifecycle \in {"Draining", "Stopped"}
    BY <1>1, <2>1, Zenon DEF DrainInv, Walks, In
  <2>2. CASE lifecycle \notin {"Draining", "Stopped"}
    <3>1. t \in ShutdownCallers /\ pc'[t] = <<"stop", "draining">>
      BY <1>3, <1>4, <2>2, Zenon
    <3>2. In(u, "producer", {"commit", "lower", "position"}) => u = t
      BY <3>1, Zenon DEF ProducerShutsDown, SideInv, In, Side, IInv, ThreadTyped
    <3> QED
      BY <1>1, <3>1, <3>2 DEF Walks, In
  <2> QED
    BY <2>1, <2>2, Zenon
<1>5. /\ Published \in Nat /\ Completed \in Nat /\ Completed <= Published
  BY Frames, Zenon
<1>6. \/ Published' = Published /\ Completed' = Completed
      \/ /\ Published' = Published + 1 /\ Completed' = Completed /\ In(t, "producer", {"position"})
         /\ Published < Completed + Depth /\ UNCHANGED lifecycle /\ pc'[t][1] # "stop"
      \/ /\ Published' = Published /\ Completed' = Completed + 1 /\ Completed < Published
         /\ UNCHANGED lifecycle /\ ~In(t, "stop", {"publish"})
  BY PositionsMove, Zenon
<1>7. lifecycle \in Late => lifecycle' \in Late
  BY <1>3, Zenon
<1>8. ASSUME NEW u \in Thread, u # t
      PROVE  /\ In(u, "stop", Beyond)' => lifecycle' \in Late
             /\ In(u, "stop", {"work"})' => seen'[u] <= Completed'
             /\ In(u, "stop", {"publish"})' /\ lifecycle' = "Draining" => Published' = Completed'
  <2>1. \A steps : In(u, "stop", steps)' <=> In(u, "stop", steps)
    BY <1>1, <1>8, Zenon DEF Walks, In
  <2>2. seen'[u] = seen[u] /\ seen[u] \in Nat
    BY <1>1, <1>8, FrameQueueAssumption, SMTT(30) DEF Walks, ThreadTyped, TypeOK, Position
  <2>3. In(u, "stop", {"publish"}) => In(u, "stop", Beyond)
    BY DEF In
  <2>4. In(u, "stop", {"publish"}) /\ lifecycle' = "Draining" => lifecycle = "Draining"
    BY <1>3, <2>3, Zenon DEF DrainInv
  <2>5. lifecycle = "Draining" => ~In(t, "producer", {"position"})
    BY Zenon DEF DrainInv, In
  <2>6. In(u, "stop", Beyond)' => lifecycle' \in Late
    BY <1>7, <2>1, Zenon DEF DrainInv
  <2>7. In(u, "stop", {"work"})' => seen'[u] <= Completed'
    <3>1. In(u, "stop", {"work"}) => seen[u] <= Completed
      BY Zenon DEF DrainInv
    <3> QED
      BY <1>5, <1>6, <2>1, <2>2, <3>1, SMTT(30)
  <2>8. In(u, "stop", {"publish"})' /\ lifecycle' = "Draining" => Published' = Completed'
    <3>1. In(u, "stop", {"publish"}) /\ lifecycle = "Draining" => Published = Completed
      BY Zenon DEF DrainInv
    <3> QED
      BY <1>5, <1>6, <2>1, <2>4, <2>5, <3>1, SMTT(30)
  <2> QED
    BY <2>6, <2>7, <2>8, Zenon
<1>9. /\ In(t, "stop", Beyond)' => lifecycle' \in Late
      /\ In(t, "stop", {"work"})' => seen'[t] <= Completed'
      /\ In(t, "stop", {"publish"})' => Published' = Completed'
  <2>1. SUFFICES ASSUME In(t, "stop", Beyond)'
                 PROVE  /\ lifecycle' \in Late
                        /\ In(t, "stop", {"work"})' => seen'[t] <= Completed'
                        /\ In(t, "stop", {"publish"})' => Published' = Completed'
    BY Zenon DEF In
  <2>2. MaybePublishStopped(t)
    BY <1>1, <2>1, StopIsStop, Zenon DEF Walks
  <2>3. UNCHANGED position
    BY <2>2, Zenon DEF MaybePublishStopped, StopSeesDraining, StopSeesNoProducer, StopSeesNoConsumer,
           StopLoadsCompleted, StopSeesNoWork, StopUnless, StopPublish, StopNotify, OnlyReads,
           NotifyStateChange, queueVars
  <2>4. Published' = Published /\ Completed' = Completed
    BY <2>3, Zenon DEF Published, Completed
  <2>5. /\ lifecycle \in Late
        /\ In(t, "stop", {"work"})' => seen'[t] = Completed
        /\ In(t, "stop", {"publish"})' => Published = Completed
    BY <1>1, <1>5, <2>1, <2>2, StopLoads, Zenon
  <2> QED
    BY <1>5, <1>7, <2>4, <2>5, SMTT(30)
<1>10. DrainInv'
  BY <1>4, <1>8, <1>9, Zenon DEF DrainInv
<1> QED
  BY <1>2, <1>10, Zenon

\* The frames c+1 .. p.
Run(c, p) == [i \in 1 .. p - c |-> c + i]

LEMMA SameSequence ==
    ASSUME NEW q \in Seq(Nat), NEW r \in Seq(Nat), Len(q) = Len(r),
           \A i \in 1 .. Len(q) : q[i] = r[i]
    PROVE  q = r
BY SMTT(30)

LEMMA RunIsQueue ==
    ASSUME NEW c \in Nat, NEW p \in Nat, c <= p
    PROVE  /\ Run(c, p) \in Seq(Nat) /\ Len(Run(c, p)) = p - c
           /\ Run(c, p + 1) = Append(Run(c, p), p + 1)
           /\ c = p => Run(c, p) = <<>>
           /\ c < p => /\ Run(c, p) # <<>> /\ Head(Run(c, p)) = c + 1
                       /\ Tail(Run(c, p)) = Run(c + 1, p)
<1>1. p - c \in Nat /\ \A i \in 1 .. p - c : c + i \in Nat
  OBVIOUS
<1>2. Run(c, p) \in Seq(Nat) /\ Len(Run(c, p)) = p - c /\ DOMAIN Run(c, p) = 1 .. p - c
  BY <1>1 DEF Run
<1>3. Run(c, p + 1) = Append(Run(c, p), p + 1)
  BY <1>1, <1>2 DEF Run
<1>4. c = p => Run(c, p) = <<>>
  BY <1>2
<1>5. ASSUME c < p
      PROVE  Run(c, p) # <<>> /\ Head(Run(c, p)) = c + 1 /\ Tail(Run(c, p)) = Run(c + 1, p)
  <2>1. Run(c, p) # <<>> /\ Head(Run(c, p)) = c + 1
    BY <1>1, <1>2, <1>5 DEF Run
  <2>2. /\ Tail(Run(c, p)) \in Seq(Nat) /\ Len(Tail(Run(c, p))) = (p - c) - 1
        /\ \A i \in 1 .. (p - c) - 1 : Tail(Run(c, p))[i] = Run(c, p)[i + 1]
    BY <1>2, <2>1
  <2>3. /\ Run(c + 1, p) \in Seq(Nat) /\ Len(Run(c + 1, p)) = (p - c) - 1
        /\ \A i \in 1 .. (p - c) - 1 : Run(c + 1, p)[i] = Run(c, p)[i + 1]
    BY <1>5 DEF Run
  <2>4. Tail(Run(c, p)) = Run(c + 1, p)
    BY <2>2, <2>3, SameSequence, Zenon
  <2> QED
    BY <2>1, <2>4, Zenon
<1> QED
  BY <1>2, <1>3, <1>4, <1>5, Zenon

\* Between the positions lie the frames in order.
LEMMA InTransit ==
    ASSUME NEW c \in Nat, NEW p \in Nat, NEW sequence, \A n \in c + 1 .. p : sequence[ArenaOf(n)] = n
    PROVE  [i \in 1 .. p - c |-> sequence[ArenaOf(c + i)]] = Run(c, p)
<1>1. \A i \in 1 .. p - c : c + i \in c + 1 .. p
  OBVIOUS
<1>2. \A i \in 1 .. p - c : sequence[ArenaOf(c + i)] = c + i
  BY <1>1, Zenon
<1> QED
  BY <1>2, Zenon DEF Run

Pending ==
    [i \in 1 .. Published - Completed |-> arenaSequence[ArenaOf(Completed + i)]]

Status == CASE lifecycle = "Stopped" -> "stopped"
            [] lifecycle = "Failed" -> "failed"
            [] OTHER -> "open"

\* The channel's actions in these terms.
LEMMA ChannelStep ==
    ASSUME \/ /\ Status # "stopped" /\ Len(Pending) < Depth /\ Published' = Published + 1
              /\ Pending' = Append(Pending, Published') /\ UNCHANGED <<Completed, Status>>
           \/ /\ Pending # <<>> /\ Completed' = Head(Pending) /\ Pending' = Tail(Pending)
              /\ UNCHANGED <<Published, Status>>
           \/ /\ Status = "open" /\ Pending = <<>> /\ Status' = "stopped"
              /\ UNCHANGED <<Published, Pending, Completed>>
           \/ Status' = "failed" /\ UNCHANGED <<Published, Pending, Completed>>
           \/ UNCHANGED <<Published, Pending, Completed, Status>>
    PROVE  [Channel!ChannelNext]_(Channel!channelVars)
BY Zenon DEF Pending, Status, Published, Completed, Channel!ChannelNext, Channel!channelVars,
       Channel!Submit, Channel!Deliver, Channel!Stop, Channel!Fail

LEMMA StepRefines ==
    ASSUME IInv, IInv', DrainInv, NEW t \in Thread, UNCHANGED threadingMode, Client(t) \/ Inner(t)
    PROVE  [Channel!ChannelNext]_(Channel!channelVars)
<1>1. Published \in Nat /\ Completed \in Nat /\ Completed <= Published
  BY Frames, Zenon
<1>2. \/ Published' = Published /\ Completed' = Completed
      \/ /\ Published' = Published + 1 /\ Completed' = Completed /\ In(t, "producer", {"position"})
         /\ Published < Completed + Depth /\ UNCHANGED lifecycle /\ pc'[t][1] # "stop"
      \/ /\ Published' = Published /\ Completed' = Completed + 1 /\ Completed < Published
         /\ UNCHANGED lifecycle /\ ~In(t, "stop", {"publish"})
  BY PositionsMove, Zenon
<1>3. Published' \in Nat /\ Completed' \in Nat
  BY <1>1, <1>2
<1>4. Pending = Run(Completed, Published)
  <2>1. \A n \in Completed + 1 .. Published : arenaSequence[ArenaOf(n)] = n
    BY Zenon DEF IInv, ArenaInv, TransitInv
  <2> QED
    BY <1>1, <2>1, InTransit, Zenon DEF Pending
<1>5. Pending' = Run(Completed', Published')
  <2>1. \A n \in Completed' + 1 .. Published' : arenaSequence'[ArenaOf(n)] = n
    BY Zenon DEF IInv, ArenaInv, TransitInv, ArenaOf
  <2> QED
    BY <1>3, <2>1, InTransit, Zenon DEF Pending, ArenaOf
<1>6. /\ Len(Pending) = Published - Completed
      /\ Run(Completed, Published + 1) = Append(Pending, Published + 1)
      /\ Completed = Published => Pending = <<>>
      /\ Completed < Published => /\ Pending # <<>> /\ Head(Pending) = Completed + 1
                                  /\ Tail(Pending) = Run(Completed + 1, Published)
  BY <1>1, <1>4, RunIsQueue, Zenon
<1>7. UNCHANGED lifecycle => UNCHANGED Status
  BY DEF Status
<1>8. CASE Published' = Published + 1 /\ Completed' = Completed
  <2>1. In(t, "producer", {"position"}) /\ UNCHANGED lifecycle /\ Published < Completed + Depth
    BY <1>1, <1>2, <1>8
  <2>2. Status # "stopped"
    BY <2>1, Zenon DEF DrainInv, In, Status
  <2>3. Len(Pending) < Depth
    BY <1>1, <1>6, <2>1, FrameQueueAssumption
  <2> QED
    BY <1>5, <1>6, <1>7, <1>8, <2>1, <2>2, <2>3, ChannelStep, Zenon
<1>9. CASE Published' = Published /\ Completed' = Completed + 1
  <2>1. Completed < Published /\ UNCHANGED lifecycle
    BY <1>1, <1>2, <1>9, SMTT(30)
  <2> QED
    BY <1>5, <1>6, <1>7, <1>9, <2>1, ChannelStep, Zenon
<1>10. CASE Published' = Published /\ Completed' = Completed
  <2>1. UNCHANGED Pending
    BY <1>4, <1>5, <1>10, Zenon
  <2>2. CASE UNCHANGED Status
    BY <1>10, <2>1, <2>2, ChannelStep, Zenon
  <2>3. CASE lifecycle' = "Stopped" /\ lifecycle = "Draining" /\ In(t, "stop", {"publish"})
    <3>1. Status = "open" /\ Status' = "stopped" /\ Pending = <<>>
      BY <1>6, <2>3, Zenon DEF Status, DrainInv
    <3> QED
      BY <1>10, <2>1, <3>1, ChannelStep, Zenon
  <2>4. CASE lifecycle' = "Failed"
    BY <1>10, <2>1, <2>4, ChannelStep, Zenon DEF Status
  <2>5. CASE lifecycle' = "Draining" /\ lifecycle \in {"Running", "Draining"}
    BY <1>10, <2>1, <2>5, ChannelStep, Zenon DEF Status
  <2> QED
    BY <1>7, <2>2, <2>3, <2>4, <2>5, LifecycleMoves, SMTT(30) DEF IInv
<1> QED
  BY <1>2, <1>8, <1>9, <1>10, Zenon

\* begin_publish() ... publish() and begin_consume() ... complete(), from any
\* number of threads with at most one lease a side: to its clients the queue is
\* a bounded channel that hands every frame over once, in order, and stops only
\* when it is empty, provided the thread that publishes is the one that calls
\* request_shutdown().
THEOREM QueueIsChannel ==
    ASSUME ProducerShutsDown
    PROVE  Spec => ImplementsChannel
<1>1. Init => SideInv /\ DrainInv
  BY DEF Init, SideInv, DrainInv, In, Side
<1>2. Init => Channel!ChannelInit
  BY DEF Init, Side, Channel!ChannelInit
<1>3. /\ IInv /\ ErrorInv /\ SideInv /\ DrainInv /\ [Next]_<<threadingMode, vars>>
      => (SideInv /\ DrainInv)'
  <2>1. SideInv /\ DrainInv /\ UNCHANGED <<threadingMode, vars>> => (SideInv /\ DrainInv)'
    BY Zenon DEF vars, locals, queueVars, SideInv, DrainInv, In, Published, Completed
  <2> QED
    BY <2>1, DrainStep, Zenon DEF Next
<1>4. /\ IInv /\ IInv' /\ DrainInv /\ [Next]_<<threadingMode, vars>>
      => [Channel!ChannelNext]_(Channel!channelVars)
  <2>1. UNCHANGED <<threadingMode, vars>> => UNCHANGED Channel!channelVars
    BY DEF vars, queueVars, arenaVars, Channel!channelVars
  <2> QED
    BY <2>1, StepRefines, Zenon DEF Next
<1> QED
  BY <1>1, <1>2, <1>3, <1>4, SpecIInv, SpecViews, PTL DEF Spec, ImplementsChannel, Channel!ChannelSpec

=============================================================================
