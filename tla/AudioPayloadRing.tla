--------------------------- MODULE AudioPayloadRing ---------------------------
(***************************************************************************)
(* The payload slab of NativePortAudioCommandQueue: a byte ring in which     *)
(* every command reserves one contiguous, aligned region when its write      *)
(* lease is taken and gives it back when it is finalised.  The two cursors   *)
(* count bytes for ever and are reduced modulo the capacity; a region that   *)
(* would cross the end is moved to the start, which costs padding.           *)
(*                                                                         *)
(* The producer reads the consumer's cursor (LoadCursor) before it reads     *)
(* the consumer's command position and decides (Reserve); the consumer gives *)
(* a region back (ReleasePayload) before it moves that position (Retire).    *)
(***************************************************************************)
EXTENDS Integers, Sequences

CONSTANTS
    Capacity,     \* config_.maximum_payload_bytes
    Alignment,    \* native_port_audio_command_queue_payload_alignment
    MaxCommands,  \* config_.maximum_commands
    MaxCursor     \* bound on the cursors, 64 bits wide in the code

ASSUME AudioPayloadRingAssumption ==
    /\ Capacity \in Nat \ {0} /\ Alignment \in Nat \ {0}
    /\ MaxCommands \in Nat \ {0} /\ MaxCursor \in Nat

VARIABLES
    producerPayload,  \* producer_payload_position_
    consumerPayload,  \* consumer_payload_position_
    live,             \* the published commands, oldest first
    released,         \* has the oldest one given its region back?
    open,             \* the command of the write lease, if there is one
    request,          \* the locals of try_begin_produce_impl()
    overflow          \* PayloadReservationOverflow was raised

vars == <<producerPayload, consumerPayload, live, released, open, request, overflow>>

NoRegion == [begin |-> -1, size |-> 0, reserved |-> 0]
NoRequest == [size |-> -1, seen |-> 0, drained |-> FALSE]
Size == 0 .. Capacity

Init ==
    /\ producerPayload = 0 /\ consumerPayload = 0
    /\ live = <<>> /\ released = FALSE
    /\ open = NoRegion
    /\ request = NoRequest
    /\ overflow = FALSE

-----------------------------------------------------------------------------
AlignmentPadding(offset) == (Alignment - (offset % Alignment)) % Alignment

PaddingUnwrapped(offset, size) == IF size = 0 THEN 0 ELSE AlignmentPadding(offset)
Padding(offset, size) ==
    IF size = 0 THEN 0
    ELSE IF offset + AlignmentPadding(offset) + size <= Capacity
         THEN AlignmentPadding(offset) ELSE Capacity - offset

\* drained records, for DrainedAdmits, whether a command was outstanding.
LoadCursor(size) ==
    /\ request = NoRequest /\ open = NoRegion /\ ~overflow
    /\ Len(live) < MaxCommands
    /\ producerPayload + 2 * Capacity <= MaxCursor
    /\ request' = [size |-> size, seen |-> consumerPayload, drained |-> live = <<>>]
    /\ UNCHANGED <<producerPayload, consumerPayload, live, released, open, overflow>>

\* An empty ring that lacks logical room starts over at a ring boundary.
NeverRebases(offset) == FALSE
Rebases(offset) ==
    /\ request.size # 0
    /\ producerPayload = request.seen
    /\ live = <<>>
    /\ Padding(offset, request.size) + request.size > Capacity

Reserve ==
    LET offset == producerPayload % Capacity
        rebase == IF Rebases(offset) THEN Capacity - offset ELSE 0
        producer == producerPayload + rebase
        consumer == request.seen + rebase
        padding == IF Rebases(offset) THEN 0 ELSE Padding(offset, request.size)
        reserved == padding + request.size IN
    /\ request # NoRequest
    /\ \/ /\ producerPayload < request.seen \/ producerPayload - request.seen > Capacity
          /\ overflow' = TRUE
          /\ UNCHANGED <<producerPayload, consumerPayload, open>>
       \/ /\ producerPayload \in request.seen .. request.seen + Capacity
          /\ consumerPayload' = IF Rebases(offset) THEN consumer ELSE consumerPayload
          /\ IF reserved > Capacity \/ producer - consumer > Capacity - reserved
                THEN producerPayload' = producer /\ UNCHANGED open
                ELSE /\ producerPayload' = producer + reserved
                     /\ open' = [begin |-> producer + padding, size |-> request.size,
                                 reserved |-> reserved]
          /\ UNCHANGED overflow
    /\ request' = NoRequest
    /\ UNCHANGED <<live, released>>

Publish ==
    /\ open # NoRegion
    /\ live' = Append(live, open)
    /\ open' = NoRegion
    /\ UNCHANGED <<producerPayload, consumerPayload, released, request, overflow>>

\* The reservation is given back whole, the padding before the payload included.
Abort ==
    /\ open # NoRegion
    /\ producerPayload' = open.begin - (open.reserved - open.size)
    /\ open' = NoRegion
    /\ UNCHANGED <<consumerPayload, live, released, request, overflow>>

\* payload_begin lies behind the padding: adding the reservation would count the
\* padding twice.
CountsPaddingTwice ==
    /\ live # <<>> /\ ~released
    /\ consumerPayload' = Head(live).begin + Head(live).reserved
    /\ released' = TRUE
    /\ UNCHANGED <<producerPayload, live, open, request, overflow>>
ReleasePayload ==
    /\ live # <<>> /\ ~released
    /\ consumerPayload' = Head(live).begin + Head(live).size
    /\ released' = TRUE
    /\ UNCHANGED <<producerPayload, live, open, request, overflow>>

Retire ==
    /\ released
    /\ live' = Tail(live)
    /\ released' = FALSE
    /\ UNCHANGED <<producerPayload, consumerPayload, open, request, overflow>>

Next ==
    \/ \E size \in Size : LoadCursor(size)
    \/ Reserve \/ Publish \/ Abort \/ ReleasePayload \/ Retire

Spec == Init /\ [][Next]_vars

-----------------------------------------------------------------------------
(* Properties.                                                              *)

\* Every variable stays in its type.
TypeOK ==
    /\ producerPayload \in 0 .. MaxCursor /\ consumerPayload \in 0 .. MaxCursor
    /\ \A i \in 1 .. Len(live) : live[i].begin \in 0 .. MaxCursor /\ live[i].size \in Size
    /\ released \in BOOLEAN /\ overflow \in BOOLEAN
    /\ open = NoRegion \/ (open.begin \in 0 .. MaxCursor /\ open.size \in Size)
    /\ request = NoRequest \/ (request.size \in Size /\ request.seen \in 0 .. MaxCursor)

\* The regions someone may still read or write, with their place in the slab.
InUse == [i \in (IF released THEN 2 ELSE 1) .. Len(live) + 1 |->
            IF i <= Len(live) THEN live[i] ELSE open]
Offset(region) == region.begin % Capacity

\* "no live lease or payload can reference the discarded" bytes: every payload
\* lies contiguous and aligned within the slab, and no two that are in use
\* overlap, whatever was wrapped, aborted, released or rebased in between.
RegionsDisjoint ==
    \A i \in DOMAIN InUse : InUse[i].size > 0 =>
        /\ Offset(InUse[i]) + InUse[i].size <= Capacity
        /\ Offset(InUse[i]) % Alignment = 0
        /\ \A j \in DOMAIN InUse : InUse[j].size > 0 /\ i # j =>
              \/ Offset(InUse[i]) + InUse[i].size <= Offset(InUse[j])
              \/ Offset(InUse[j]) + InUse[j].size <= Offset(InUse[i])

\* The cursors never run apart by more than the ring or past each other, so
\* PayloadReservationOverflow, the ring's own consistency alarm, never sounds.
CursorsConsistent ==
    /\ consumerPayload <= producerPayload
    /\ producerPayload - consumerPayload <= Capacity
    /\ ~overflow

\* "make a drained ring appear occupied" must not happen: a request that found no
\* command outstanding is granted, up to the whole capacity.
DrainedAdmits ==
    [][request # NoRequest /\ request' = NoRequest /\ request.drained
          => open' # NoRegion]_vars

=============================================================================
