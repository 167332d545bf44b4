-------------------------- MODULE InterruptDelivery --------------------------
(***************************************************************************)
(* What the interrupt path of an exported port promises, without any of its *)
(* caches: at a safepoint the CPU accepts the highest asserted source that  *)
(* its status register admits, and execution goes on without one, by        *)
(* polling in vain or by chaining to the next block, only if there is none. *)
(***************************************************************************)
EXTENDS Integers

CONSTANTS
    Source,         \* InterruptSource ids
    MaxLevel        \* 15, the highest interrupt level

VARIABLES
    asserted,       \* set of <<source, level>>: the level of each asserted source
    blocked,        \* SR.BL
    imask,          \* SR.IMASK
    outcome         \* what the last safepoint did: see below

deliveryVars == <<asserted, blocked, imask, outcome>>

NoSafepoint == <<>>
Accepted(s) == <<"accepted", s>>
Nothing == <<"nothing">>
Chained == <<"chained">>

DeliveryInit ==
    /\ asserted = {}
    /\ blocked \in BOOLEAN /\ imask \in 0 .. MaxLevel
    /\ outcome = NoSafepoint

Admitted == {r \in asserted : ~blocked /\ r[2] > imask}

\* Devices, registers and the status register change in any way.
Environment ==
    /\ asserted' \in SUBSET (Source \X (0 .. MaxLevel))
    /\ blocked' \in BOOLEAN /\ imask' \in 0 .. MaxLevel
    /\ outcome' = NoSafepoint

\* The highest level wins, among equals the lowest source id.
Accept ==
    \E r \in Admitted :
        /\ \A o \in Admitted : o[2] < r[2] \/ (o[2] = r[2] /\ o[1] >= r[1])
        /\ outcome' = Accepted(r[1])
        /\ blocked' = TRUE
        /\ UNCHANGED <<asserted, imask>>

GoOn(word) ==
    /\ Admitted = {}
    /\ outcome' = word
    /\ UNCHANGED <<asserted, blocked, imask>>

DeliveryNext == Environment \/ Accept \/ GoOn(Nothing) \/ GoOn(Chained)

Delivery == DeliveryInit /\ [][DeliveryNext]_deliveryVars

=============================================================================
