---------------------------- MODULE MCFrameQueue ----------------------------
(***************************************************************************)
(* Which threads use which side of the frame queue in its model-checked     *)
(* instances: the guest thread produces and the render thread consumes, or  *)
(* one thread does everything.                                              *)
(***************************************************************************)
EXTENDS FrameQueue

TwoThreads == [s \in Side |-> IF s = "producer" THEN {"guest"} ELSE {"render"}]
OneThread == [s \in Side |-> {"guest"}]

Parallel == [m \in {"ParallelSpsc"} |-> TwoThreads]
BothModes == [m \in {"ParallelSpsc", "SerialReference"} |->
                 IF m = "ParallelSpsc" THEN TwoThreads ELSE OneThread]
=============================================================================
