---------------------------- MODULE FrameChannel ----------------------------
(***************************************************************************)
(* What the native-port frame queue promises its two clients: a bounded     *)
(* channel that hands frames over in the order of their sequence numbers,   *)
(* each at most once, and that stops only when it is drained.  Arenas,      *)
(* leases, wake-ups and the error mailbox are not visible here.             *)
(***************************************************************************)
EXTENDS Naturals, Sequences

CONSTANT Capacity

VARIABLES
    submitted,  \* frames handed over by the producer so far
    pending,    \* the frames in transit, oldest first
    delivered,  \* the last frame the consumer completed
    status      \* "open", "stopped" (drained) or "failed"

channelVars == <<submitted, pending, delivered, status>>

ChannelInit ==
    /\ submitted = 0 /\ pending = <<>> /\ delivered = 0
    /\ status = "open"

Submit ==
    /\ status # "stopped"
    /\ Len(pending) < Capacity
    /\ submitted' = submitted + 1
    /\ pending' = Append(pending, submitted')
    /\ UNCHANGED <<delivered, status>>

Deliver ==
    /\ pending # <<>>
    /\ delivered' = Head(pending)
    /\ pending' = Tail(pending)
    /\ UNCHANGED <<submitted, status>>

Stop ==
    /\ status = "open"
    /\ pending = <<>>
    /\ status' = "stopped"
    /\ UNCHANGED <<submitted, pending, delivered>>

Fail ==
    /\ status' = "failed"
    /\ UNCHANGED <<submitted, pending, delivered>>

ChannelNext == Submit \/ Deliver \/ Stop \/ Fail

ChannelSpec == ChannelInit /\ [][ChannelNext]_channelVars

=============================================================================
