------------------------ MODULE MCAudioCommandQueue ------------------------
(***************************************************************************)
(* Which threads use which side of the audio command queue in its           *)
(* model-checked instances.                                                 *)
(***************************************************************************)
EXTENDS AudioCommandQueue

TwoThreads == [s \in Side |-> IF s = "producer" THEN {"guest"} ELSE {"audio"}]

=============================================================================
