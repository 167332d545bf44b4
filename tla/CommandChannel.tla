--------------------------- MODULE CommandChannel ---------------------------
(***************************************************************************)
(* What the audio command queue promises its two clients: a bounded channel *)
(* that hands commands over in the order of their sequence numbers, each at  *)
(* most once.  The producer is admitted before it submits, and only to an    *)
(* open channel; whatever becomes of the channel meanwhile, the admission    *)
(* stands.  A channel that is closed stops only when it is drained.  Slots,  *)
(* leases, positions and wake-ups of the implementation are not visible.     *)
(***************************************************************************)
EXTENDS Naturals, Sequences

CONSTANT Capacity

VARIABLES
    submitted,  \* commands handed over by the producer so far
    pending,    \* the commands in transit, oldest first
    delivered,  \* the last command the consumer has finished
    status,     \* "open", "closing", "stopped" (drained) or "failed"
    admitted    \* may the producer submit a command?

channelVars == <<submitted, pending, delivered, status, admitted>>

ChannelInit ==
    /\ submitted = 0 /\ pending = <<>> /\ delivered = 0
    /\ status = "open" /\ admitted = FALSE

Admit ==
    /\ status = "open"
    /\ admitted' = TRUE
    /\ UNCHANGED <<submitted, pending, delivered, status>>

Withdraw ==
    /\ admitted' = FALSE
    /\ UNCHANGED <<submitted, pending, delivered, status>>

Submit ==
    /\ admitted
    /\ Len(pending) < Capacity
    /\ submitted' = submitted + 1
    /\ pending' = Append(pending, submitted')
    /\ admitted' = FALSE
    /\ UNCHANGED <<delivered, status>>

Deliver ==
    /\ pending # <<>>
    /\ delivered' = Head(pending)
    /\ pending' = Tail(pending)
    /\ UNCHANGED <<submitted, status, admitted>>

Close ==
    /\ status = "open"
    /\ status' = "closing"
    /\ UNCHANGED <<submitted, pending, delivered, admitted>>

Stop ==
    /\ status = "closing"
    /\ pending = <<>>
    /\ status' = "stopped"
    /\ UNCHANGED <<submitted, pending, delivered, admitted>>

Fail ==
    /\ status' = "failed"
    /\ UNCHANGED <<submitted, pending, delivered, admitted>>

ChannelNext == Admit \/ Withdraw \/ Submit \/ Deliver \/ Close \/ Stop \/ Fail

ChannelSpec == ChannelInit /\ [][ChannelNext]_channelVars

=============================================================================
