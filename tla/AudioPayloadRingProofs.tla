----------------------- MODULE AudioPayloadRingProofs -----------------------
(***************************************************************************)
(* Proofs about AudioPayloadRing for every capacity, alignment and number   *)
(* of commands.                                                             *)
(***************************************************************************)
EXTENDS AudioPayloadRing, SequenceTheorems, TLAPS

Region == [begin : Nat, size : Size, reserved : Nat]
Request == [size : Size, seen : Nat, drained : BOOLEAN]

\* The logical bytes a region occupies, its padding included, end where its
\* payload ends.
Start(r) == r.begin - (r.reserved - r.size)
End(r) == r.begin + r.size

\* A payload lies in one piece and aligned within the slab.
Placed(r) ==
    /\ r.size <= r.reserved
    /\ r.size > 0 => /\ Offset(r) + r.size <= Capacity
                     /\ Offset(r) % Alignment = 0

\* Where the region behind the published ones begins.
Frontier == IF open = NoRegion THEN producerPayload ELSE Start(open)

Typed ==
    /\ producerPayload \in Nat /\ consumerPayload \in Nat
    /\ live \in Seq(Region)
    /\ released \in BOOLEAN /\ overflow \in BOOLEAN
    /\ open = NoRegion \/ open \in Region
    /\ request = NoRequest \/ request \in Request

\* The regions in use follow each other between the two cursors.
Chain ==
    /\ \A i \in 1 .. Len(live) : Placed(live[i]) /\ 0 <= Start(live[i])
    /\ \A i, j \in 1 .. Len(live) : i < j => End(live[i]) <= Start(live[j])
    /\ \A i \in 1 .. Len(live) : End(live[i]) <= Frontier
    /\ live = <<>> => ~released /\ consumerPayload = Frontier
    /\ live # <<>> => End(live[Len(live)]) = Frontier
    /\ live # <<>> /\ ~released => consumerPayload <= Start(live[1])
    /\ released => consumerPayload = End(live[1])
    /\ open # NoRegion => /\ Placed(open) /\ 0 <= Start(open)
                          /\ End(open) = producerPayload

\* A producer between its two reads of the consumer's side has no lease open,
\* and what it read may be old but not wrong.
Pending ==
    request # NoRequest =>
        /\ open = NoRegion
        /\ request.seen <= consumerPayload
        /\ producerPayload <= request.seen + Capacity
        /\ request.drained => live = <<>> /\ request.seen = producerPayload
        /\ producerPayload + 2 * Capacity <= MaxCursor

IInv ==
    /\ Typed
    /\ Chain
    /\ Pending
    /\ producerPayload <= MaxCursor
    /\ CursorsConsistent

-----------------------------------------------------------------------------
(* Arithmetic of the ring.                                                  *)

\* Division with a rest.
LEMMA Division ==
    ASSUME NEW x \in Nat, NEW c \in Nat \ {0}
    PROVE  /\ x % c \in 0 .. (c - 1)
           /\ x \div c \in Nat
           /\ x = c * (x \div c) + (x % c)
OBVIOUS

\* Quotient and rest are unique.
LEMMA Remainder ==
    ASSUME NEW x \in Nat, NEW q \in Nat, NEW r \in Nat, NEW c \in Nat \ {0},
           r < c, x = c * q + r
    PROVE  x % c = r
OBVIOUS

\* A position of a later turn is at least one whole turn further.
LEMMA NextTurn ==
    ASSUME NEW a \in Nat, NEW b \in Nat, NEW c \in Nat \ {0}, a < b
    PROVE  c * a + c <= c * b
<1>1. PICK k \in Nat : b = a + 1 + k
  OBVIOUS
<1>2. c * b = c * a + c + c * k
  BY <1>1
<1>3. c * k >= 0
  OBVIOUS
<1> QED
  BY <1>2, <1>3

\* The distance to the end of the current turn leads to the next multiple.
LEMMA RoundUp ==
    ASSUME NEW x \in Nat, NEW c \in Nat \ {0}
    PROVE  (x + (c - (x % c))) % c = 0
<1> DEFINE y == x + (c - (x % c))
           t == (x \div c) + 1
<1>1. y \in Nat /\ t \in Nat /\ y = c * t + 0
  BY Division
<1> HIDE DEF y, t
<1>2. y % c = 0
  BY <1>1, Remainder
<1> QED
  BY <1>2 DEF y

\* AlignmentPadding is short and leads to an aligned offset.
LEMMA PaddingAligns ==
    ASSUME NEW x \in Nat
    PROVE  /\ AlignmentPadding(x) \in Nat
           /\ (x + AlignmentPadding(x)) % Alignment = 0
<1> DEFINE a == Alignment
           r == x % a
           q == x \div a
<1>1. a \in Nat \ {0}
  BY AudioPayloadRingAssumption
<1>2. r \in 0 .. (a - 1) /\ q \in Nat /\ x = a * q + r
  BY <1>1, Division, Zenon
<1>3. CASE r = 0
  <2>1. (a - r) % a = 0
    BY <1>1, <1>3, Remainder
  <2> QED
    BY <1>1, <1>2, <1>3, <2>1 DEF AlignmentPadding
<1>4. CASE r # 0
  <2>1. (a - r) % a = a - r
    BY <1>1, <1>2, <1>4, Remainder
  <2>2. (x + (a - r)) % a = 0
    BY <1>1, RoundUp
  <2> QED
    BY <1>1, <1>2, <2>1, <2>2 DEF AlignmentPadding
<1> QED
  BY <1>3, <1>4

\* Where a reservation at a cursor puts its payload.
LEMMA PaddingPlaces ==
    ASSUME NEW p \in Nat, NEW size \in Size \ {0}
    PROVE  LET padding == Padding(p % Capacity, size)
               begin == p + padding IN
           /\ padding \in Nat
           /\ (begin % Capacity) + size <= Capacity
           /\ (begin % Capacity) % Alignment = 0
<1> DEFINE c == Capacity
           o == p % c
           q == p \div c
           a == AlignmentPadding(o)
<1>1. c \in Nat \ {0} /\ size \in Nat /\ size > 0 /\ size <= c
  BY AudioPayloadRingAssumption DEF Size
<1>2. o \in 0 .. (c - 1) /\ q \in Nat /\ p = c * q + o
  BY <1>1, Division, Zenon
<1>3. a \in Nat /\ (o + a) % Alignment = 0
  BY <1>2, PaddingAligns
<1>4. CASE o + a + size <= c
  <2>1. Padding(o, size) = a
    BY <1>1, <1>4 DEF Padding
  <2>2. p + a = c * q + (o + a) /\ o + a < c /\ o + a \in Nat /\ p + a \in Nat
    BY <1>1, <1>2, <1>3, <1>4
  <2>3. (p + a) % c = o + a
    <3> DEFINE y == p + a
               w == o + a
    <3>1. q \in Nat /\ y \in Nat /\ w \in Nat /\ w < c /\ y = c * q + w
      BY <1>2, <2>2
    <3> HIDE DEF y, w, q
    <3>2. y % c = w
      BY <1>1, <3>1, Remainder
    <3> QED
      BY <3>2 DEF y, w
  <2> QED
    BY <1>1, <1>3, <1>4, <2>1, <2>3
<1>5. CASE ~(o + a + size <= c)
  <2>1. Padding(o, size) = c - o
    BY <1>1, <1>5 DEF Padding
  <2>2. (p + (c - o)) % c = 0
    BY <1>1, RoundUp
  <2>3. 0 % Alignment = 0
    BY AudioPayloadRingAssumption, Remainder
  <2> QED
    BY <1>1, <1>2, <2>1, <2>2, <2>3
<1> QED
  BY <1>4, <1>5

\* A rebased reservation starts at the beginning of the slab.
LEMMA RebasePlaces ==
    ASSUME NEW p \in Nat
    PROVE  /\ Capacity - (p % Capacity) \in 1 .. Capacity
           /\ (p + (Capacity - (p % Capacity))) % Capacity = 0
           /\ 0 % Alignment = 0
<1>1. Capacity \in Nat \ {0}
  BY AudioPayloadRingAssumption
<1>2. p % Capacity \in 0 .. (Capacity - 1)
  BY <1>1, Division
<1>3. (p + (Capacity - (p % Capacity))) % Capacity = 0
  BY <1>1, RoundUp
<1>4. 0 % Alignment = 0
  BY AudioPayloadRingAssumption, Remainder
<1> QED
  BY <1>1, <1>2, <1>3, <1>4

\* A region ends behind its payload, which begins behind its padding.
LEMMA RegionBounds ==
    ASSUME NEW r \in Region, Placed(r)
    PROVE  /\ Start(r) \in Int /\ End(r) \in Nat /\ r.begin \in Nat
           /\ Start(r) <= r.begin /\ r.begin <= End(r) /\ Start(r) <= End(r)
BY AudioPayloadRingAssumption DEF Placed, Start, End, Region, Size

\* Two regions that follow each other within one capacity do not overlap in
\* the slab, provided that neither crosses its end.
LEMMA ApartInSlab ==
    ASSUME NEW r \in Region, NEW s \in Region,
           r.size > 0, s.size > 0,
           Offset(r) + r.size <= Capacity, Offset(s) + s.size <= Capacity,
           End(r) <= s.begin, End(s) - r.begin <= Capacity
    PROVE  \/ Offset(r) + r.size <= Offset(s)
           \/ Offset(s) + s.size <= Offset(r)
<1> DEFINE c == Capacity
           q == r.begin \div c
           t == s.begin \div c
<1>1. c \in Nat \ {0} /\ r.begin \in Nat /\ s.begin \in Nat /\ r.size \in Nat /\ s.size \in Nat
  BY AudioPayloadRingAssumption DEF Region, Size
<1>2. /\ Offset(r) \in Nat /\ q \in Nat /\ r.begin = c * q + Offset(r) /\ Offset(r) < c
      /\ Offset(s) \in Nat /\ t \in Nat /\ s.begin = c * t + Offset(s) /\ Offset(s) < c
  <2>1. r.begin % c \in 0 .. (c - 1) /\ q \in Nat /\ r.begin = c * q + (r.begin % c)
    BY <1>1, Division, Zenon
  <2>2. s.begin % c \in 0 .. (c - 1) /\ t \in Nat /\ s.begin = c * t + (s.begin % c)
    BY <1>1, Division, Zenon
  <2> HIDE DEF q, t
  <2> QED
    BY <1>1, <2>1, <2>2 DEF Offset
<1>3. CASE q = t
  BY <1>1, <1>2, <1>3 DEF End
<1>4. CASE q < t
  <2>1. c * q + c <= c * t
    BY <1>1, <1>2, <1>4, NextTurn
  <2> QED
    BY <1>1, <1>2, <2>1 DEF End
<1>5. CASE t < q
  <2>1. c * t + c <= c * q
    BY <1>1, <1>2, <1>5, NextTurn
  <2> QED
    BY <1>1, <1>2, <2>1 DEF End
<1> QED
  BY <1>2, <1>3, <1>4, <1>5

-----------------------------------------------------------------------------
(* The invariant is inductive: one lemma per action.                        *)

USE AudioPayloadRingAssumption

LEMMA InitIInv == Init => IInv
<1> SUFFICES ASSUME Init PROVE IInv
  OBVIOUS
<1>1. Typed
  BY EmptySeq, Zenon DEF Init, Typed
<1>2. Chain
  BY DEF Init, Chain, Frontier
<1>3. Pending /\ CursorsConsistent /\ producerPayload <= MaxCursor
  BY DEF Init, Pending, CursorsConsistent
<1> QED
  BY <1>1, <1>2, <1>3 DEF IInv

\* The frontier lies between the two cursors.
LEMMA FrontierBetweenCursors ==
    ASSUME IInv
    PROVE  /\ Frontier \in Nat
           /\ consumerPayload <= Frontier /\ Frontier <= producerPayload
<1>1. producerPayload \in Nat /\ consumerPayload \in Nat /\ consumerPayload <= producerPayload
  BY DEF IInv, Typed, CursorsConsistent
<1>2. Frontier \in Nat /\ Frontier <= producerPayload
  <2>1. CASE open = NoRegion
    BY <1>1, <2>1 DEF Frontier
  <2>2. CASE open # NoRegion
    <3>1. /\ open \in Region /\ Placed(open) /\ End(open) = producerPayload
          /\ 0 <= Start(open)
      BY <2>2 DEF IInv, Typed, Chain
    <3> QED
      BY <2>2, <3>1, RegionBounds DEF Frontier
  <2> QED
    BY <2>1, <2>2
<1>3. consumerPayload <= Frontier
  <2>1. CASE live = <<>>
    BY <1>1, <2>1 DEF IInv, Chain
  <2>2. CASE live # <<>>
    <3>1. /\ live \in Seq(Region) /\ Len(live) \in Nat \ {0} /\ live[1] \in Region
          /\ 1 \in 1 .. Len(live)
      BY <2>2, EmptySeq, ElementOfSeq DEF IInv, Typed
    <3>2. /\ End(live[1]) \in Nat /\ Start(live[1]) \in Int
          /\ Start(live[1]) <= End(live[1]) /\ End(live[1]) <= Frontier
      BY <3>1, RegionBounds DEF IInv, Chain
    <3>3. consumerPayload <= End(live[1])
      BY <1>1, <2>2, <3>2 DEF IInv, Chain
    <3> QED
      BY <1>1, <1>2, <3>2, <3>3
  <2> QED
    BY <2>1, <2>2
<1> QED
  BY <1>2, <1>3

\* The producer's first read starts a request; what it saw is the present.
LEMMA LoadCursorKeepsIInv ==
    ASSUME IInv, NEW size \in Size, LoadCursor(size)
    PROVE  IInv'
<1> USE DEF IInv, LoadCursor
<1>1. Typed'
  BY DEF Typed, Request
<1>2. Chain'
  BY DEF Chain, Frontier, Start, End, Placed, Offset
<1>3. Pending'
  BY DEF Pending, Typed, Chain, Frontier, CursorsConsistent
<1> QED
  BY <1>1, <1>2, <1>3 DEF CursorsConsistent

\* A pending request never meets the consistency alarm.
LEMMA ReserveIsConsistent ==
    ASSUME IInv, Reserve
    PROVE  /\ request \in Request /\ open = NoRegion
           /\ producerPayload \in request.seen .. request.seen + Capacity
           /\ UNCHANGED overflow
<1>1. request \in Request /\ open = NoRegion
  BY DEF IInv, Typed, Pending, Reserve
<1>2. producerPayload \in request.seen .. request.seen + Capacity
  BY <1>1 DEF IInv, Typed, Pending, Reserve, CursorsConsistent, Request
<1>3. ~(producerPayload < request.seen \/ producerPayload - request.seen > Capacity)
  BY <1>1, <1>2 DEF IInv, Typed, Request
<1> QED
  BY <1>1, <1>2, <1>3 DEF Reserve

\* The frontier moves by the rebase alone, which the consumer's cursor follows,
\* and a lease that is granted begins there.
LEMMA ReserveMoves ==
    ASSUME IInv, Reserve
    PROVE  \E rebase \in 0 .. Capacity :
             /\ rebase # 0 => live = <<>> /\ consumerPayload = producerPayload
             /\ consumerPayload' = consumerPayload + rebase
             /\ \/ open' = NoRegion /\ producerPayload' = producerPayload + rebase
                \/ /\ open' \in Region /\ Placed(open')
                   /\ open'.reserved <= Capacity
                   /\ Start(open') = producerPayload + rebase
                   /\ End(open') = producerPayload'
                   /\ producerPayload' - consumerPayload' <= Capacity
<1> DEFINE offset == producerPayload % Capacity
           size == request.size
<1>1. /\ request \in Request /\ open = NoRegion
      /\ producerPayload \in request.seen .. request.seen + Capacity
  BY ReserveIsConsistent
<1>2. /\ size \in Size /\ request.seen \in Nat /\ producerPayload \in Nat /\ consumerPayload \in Nat
      /\ request.seen <= consumerPayload /\ consumerPayload <= producerPayload
  BY <1>1 DEF IInv, Typed, Pending, Request, Reserve, CursorsConsistent
<1>3. ~(producerPayload < request.seen \/ producerPayload - request.seen > Capacity)
  BY <1>1, <1>2
<1>4. CASE Rebases(offset)
  <2> DEFINE rebase == Capacity - offset
             region == [begin |-> producerPayload + rebase, size |-> size, reserved |-> size]
  <2>1. /\ rebase \in 1 .. Capacity
        /\ (producerPayload + rebase) % Capacity = 0 /\ 0 % Alignment = 0
    BY <1>2, RebasePlaces
  <2>2. /\ live = <<>> /\ producerPayload = request.seen /\ consumerPayload = producerPayload
        /\ size > 0
    BY <1>2, <1>4 DEF Rebases, Size
  <2>3. /\ consumerPayload' = request.seen + rebase
        /\ \/ producerPayload' = producerPayload + rebase /\ open' = NoRegion
           \/ /\ producerPayload' = producerPayload + rebase + (0 + size)
              /\ open' = [begin |-> producerPayload + rebase + 0, size |-> size,
                          reserved |-> 0 + size]
    BY <1>1, <1>3, <1>4 DEF Reserve
  <2> HIDE DEF rebase
  <2>4. CASE producerPayload' = producerPayload + rebase /\ open' = NoRegion
    BY <1>2, <2>1, <2>2, <2>3, <2>4
  <2>5. CASE /\ producerPayload' = producerPayload + rebase + (0 + size)
             /\ open' = [begin |-> producerPayload + rebase + 0, size |-> size,
                         reserved |-> 0 + size]
    <3>1. open' = region
      BY <1>2, <2>1, <2>5 DEF Size
    <3>2. region \in Region /\ Placed(region)
      BY <1>2, <2>1 DEF Region, Placed, Offset, Size
    <3>3. /\ region.reserved <= Capacity
          /\ Start(region) = producerPayload + rebase
          /\ End(region) = producerPayload + rebase + size
      BY <1>2, <2>1 DEF Start, End, Size
    <3>4. /\ producerPayload' = producerPayload + rebase + size
          /\ consumerPayload' = consumerPayload + rebase
          /\ producerPayload' - consumerPayload' <= Capacity
      <4>1. producerPayload \in Nat /\ rebase \in Nat /\ size \in 0 .. Capacity
        BY <1>2, <2>1 DEF Size
      <4>2. producerPayload' = producerPayload + rebase + size
        BY <2>5, <4>1
      <4>3. consumerPayload' = producerPayload + rebase
        BY <2>2, <2>3
      <4>4. consumerPayload' = consumerPayload + rebase
        BY <2>2, <4>3
      <4> HIDE DEF size
      <4>5. producerPayload' - consumerPayload' <= Capacity
        BY <4>1, <4>2, <4>3
      <4> QED
        BY <4>2, <4>4, <4>5
    <3> HIDE DEF region
    <3>5. /\ open' \in Region /\ Placed(open')
          /\ open'.reserved <= Capacity
          /\ Start(open') = producerPayload + rebase
          /\ End(open') = producerPayload'
      BY <3>1, <3>2, <3>3, <3>4
    <3>6. rebase \in 0 .. Capacity
      BY <2>1
    <3> QED
      BY <2>2, <3>4, <3>5, <3>6
  <2> QED
    BY <2>3, <2>4, <2>5
<1>5. CASE ~Rebases(offset)
  <2> DEFINE padding == Padding(offset, size)
             reserved == padding + size
             region == [begin |-> producerPayload + padding, size |-> size,
                        reserved |-> reserved]
  <2>1. /\ padding \in Nat
        /\ size > 0 => /\ ((producerPayload + padding) % Capacity) + size <= Capacity
                       /\ ((producerPayload + padding) % Capacity) % Alignment = 0
    <3>1. CASE size = 0
      BY <3>1 DEF Padding
    <3>2. CASE size # 0
      BY <1>2, <3>2, PaddingPlaces, SMTT(30)
    <3> QED
      BY <3>1, <3>2
  <2>2. /\ consumerPayload' = consumerPayload
        /\ \/ producerPayload' = producerPayload + 0 /\ open' = NoRegion
           \/ /\ ~(reserved > Capacity \/ (producerPayload + 0) - (request.seen + 0) > Capacity - reserved)
              /\ producerPayload' = producerPayload + 0 + reserved
              /\ open' = [begin |-> producerPayload + 0 + padding, size |-> size,
                          reserved |-> reserved]
    BY <1>1, <1>3, <1>5 DEF Reserve
  <2> HIDE DEF padding
  <2>3. CASE producerPayload' = producerPayload + 0 /\ open' = NoRegion
    BY <1>2, <2>2, <2>3
  <2>4. CASE /\ ~(reserved > Capacity \/ (producerPayload + 0) - (request.seen + 0) > Capacity - reserved)
             /\ producerPayload' = producerPayload + 0 + reserved
             /\ open' = [begin |-> producerPayload + 0 + padding, size |-> size,
                         reserved |-> reserved]
    <3>1. open' = region
      BY <1>2, <2>1, <2>4 DEF Size
    <3>2. region \in Region /\ Placed(region)
      BY <1>2, <2>1 DEF Region, Placed, Offset, Size
    <3>3. /\ region.reserved <= Capacity
          /\ Start(region) = producerPayload + 0
          /\ End(region) = producerPayload + reserved
      <4>1. padding \in Nat /\ size \in 0 .. Capacity /\ reserved <= Capacity
        BY <1>2, <2>1, <2>4 DEF Size
      <4>2. /\ region.begin = producerPayload + padding
            /\ region.size = size /\ region.reserved = padding + size
        OBVIOUS
      <4> HIDE DEF size, region
      <4> QED
        BY <1>2, <4>1, <4>2 DEF Start, End
    <3>4. /\ producerPayload' = producerPayload + reserved
          /\ consumerPayload' = consumerPayload + 0
          /\ producerPayload' - consumerPayload' <= Capacity
      <4>1. padding \in Nat /\ size \in 0 .. Capacity
        BY <1>2, <2>1 DEF Size
      <4>2. producerPayload' = producerPayload + 0 + (padding + size)
        BY <2>4
      <4>3. ~((producerPayload + 0) - (request.seen + 0) > Capacity - (padding + size))
        BY <2>4
      <4> HIDE DEF size
      <4> QED
        BY <1>2, <2>2, <4>1, <4>2, <4>3
    <3> HIDE DEF region
    <3>5. /\ open' \in Region /\ Placed(open')
          /\ open'.reserved <= Capacity
          /\ Start(open') = producerPayload + 0
          /\ End(open') = producerPayload'
      BY <3>1, <3>2, <3>3, <3>4
    <3>6. 0 \in 0 .. Capacity
      OBVIOUS
    <3> QED
      BY <3>4, <3>5, <3>6
  <2> QED
    BY <2>2, <2>3, <2>4
<1> QED
  BY <1>4, <1>5

LEMMA ReserveKeepsIInv ==
    ASSUME IInv, Reserve
    PROVE  IInv'
<1>1. /\ request \in Request /\ open = NoRegion
      /\ request' = NoRequest
      /\ UNCHANGED <<live, released, overflow>>
  BY ReserveIsConsistent, Zenon DEF Reserve
<1>2. PICK rebase \in 0 .. Capacity :
         /\ rebase # 0 => live = <<>> /\ consumerPayload = producerPayload
         /\ consumerPayload' = consumerPayload + rebase
         /\ \/ open' = NoRegion /\ producerPayload' = producerPayload + rebase
            \/ /\ open' \in Region /\ Placed(open')
               /\ open'.reserved <= Capacity
               /\ Start(open') = producerPayload + rebase
               /\ End(open') = producerPayload'
               /\ producerPayload' - consumerPayload' <= Capacity
  BY ReserveMoves
<1>3. /\ producerPayload \in Nat /\ consumerPayload \in Nat /\ live \in Seq(Region)
      /\ released \in BOOLEAN /\ overflow \in BOOLEAN /\ ~overflow
      /\ consumerPayload <= producerPayload /\ producerPayload - consumerPayload <= Capacity
      /\ producerPayload + 2 * Capacity <= MaxCursor
  BY <1>1 DEF IInv, Typed, CursorsConsistent, Pending, Reserve
<1>4. NoRegion \notin Region
  BY DEF NoRegion, Region
<1>5. Frontier' = producerPayload + rebase /\ Frontier = producerPayload
  BY <1>1, <1>2, <1>4 DEF Frontier
<1>6. /\ producerPayload' \in Nat /\ producerPayload + rebase <= producerPayload'
      /\ producerPayload' <= MaxCursor
  <2>1. CASE open' = NoRegion /\ producerPayload' = producerPayload + rebase
    BY <1>3, <2>1
  <2>2. CASE /\ open' \in Region /\ Placed(open')
             /\ open'.reserved <= Capacity
             /\ Start(open') = producerPayload + rebase
             /\ End(open') = producerPayload'
    BY <1>3, <2>2, SMTT(30) DEF Start, End, Placed, Region, Size
  <2> QED
    BY <1>2, <2>1, <2>2
<1>7. Typed'
  <2>1. consumerPayload' \in Nat
    BY <1>2, <1>3
  <2>2. open' = NoRegion \/ open' \in Region
    BY <1>2
  <2> QED
    BY <1>1, <1>3, <1>6, <2>1, <2>2 DEF Typed
<1>8. Chain'
  <2>1. CASE rebase = 0
    <3>1. Frontier' = Frontier /\ consumerPayload' = consumerPayload
      BY <1>2, <1>3, <1>5, <2>1
    <3>2. open' # NoRegion => Placed(open') /\ 0 <= Start(open') /\ End(open') = producerPayload'
      BY <1>2, <1>3
    <3> QED
      BY <1>1, <3>1, <3>2 DEF Chain, IInv
  <2>2. CASE rebase # 0
    <3>1. live = <<>> /\ ~released /\ consumerPayload' = Frontier'
      BY <1>2, <1>3, <1>5, <2>2 DEF IInv, Chain
    <3>2. open' # NoRegion => Placed(open') /\ 0 <= Start(open') /\ End(open') = producerPayload'
      BY <1>2, <1>3
    <3> QED
      BY <1>1, <3>1, <3>2 DEF Chain
  <2> QED
    BY <2>1, <2>2
<1>9. CursorsConsistent'
  <2>1. consumerPayload' <= producerPayload'
    BY <1>2, <1>3, <1>6
  <2>2. producerPayload' - consumerPayload' <= Capacity
    BY <1>2, <1>3
  <2> QED
    BY <1>1, <1>3, <2>1, <2>2 DEF CursorsConsistent
<1> QED
  BY <1>1, <1>6, <1>7, <1>8, <1>9 DEF IInv, Pending

LEMMA PublishKeepsIInv ==
    ASSUME IInv, Publish
    PROVE  IInv'
<1>1. /\ open \in Region /\ request = NoRequest /\ live \in Seq(Region)
      /\ producerPayload \in Nat /\ consumerPayload \in Nat
  BY DEF IInv, Typed, Pending, Publish
<1>2. /\ live' \in Seq(Region) /\ Len(live') = Len(live) + 1 /\ Len(live) \in Nat
      /\ \A i \in 1 .. Len(live) : live'[i] = live[i] /\ live[i] \in Region
      /\ live'[Len(live')] = open /\ live' # <<>>
  BY <1>1, AppendProperties, LenProperties, ElementOfSeq DEF Publish
<1>3. Frontier = Start(open) /\ Frontier' = producerPayload /\ End(open) = producerPayload
  BY DEF Frontier, IInv, Chain, Publish
<1>4. Start(open) <= End(open) /\ Start(open) \in Int
  BY <1>1 DEF IInv, Chain, Placed, Start, End, Region, Size, Publish
<1>5. Typed'
  BY <1>1, <1>2 DEF IInv, Typed, Publish
<1>6. Chain'
  <2>1. \A i \in 1 .. Len(live') : Placed(live'[i]) /\ 0 <= Start(live'[i])
    BY <1>2 DEF IInv, Chain, Publish
  <2>2. \A i, j \in 1 .. Len(live') : i < j => End(live'[i]) <= Start(live'[j])
    BY <1>2, <1>3 DEF IInv, Chain
  <2>3. \A i \in 1 .. Len(live') : End(live'[i]) <= Frontier'
    <3> SUFFICES ASSUME NEW i \in 1 .. Len(live')
                 PROVE  End(live'[i]) <= Frontier'
      OBVIOUS
    <3>1. CASE i = Len(live')
      BY <1>1, <1>2, <1>3, <3>1
    <3>2. CASE i # Len(live')
      <4>1. i \in 1 .. Len(live) /\ live'[i] = live[i] /\ live[i] \in Region
        BY <1>2, <3>2
      <4>2. End(live[i]) <= Start(open) /\ End(live[i]) \in Nat
        BY <1>3, <4>1 DEF IInv, Chain, End, Region, Size
      <4> QED
        BY <1>1, <1>3, <1>4, <4>1, <4>2
    <3> QED
      BY <3>1, <3>2
  <2>4. End(live'[Len(live')]) = Frontier'
    BY <1>2, <1>3
  <2>5. ~released' => consumerPayload' <= Start(live'[1])
    <3>1. CASE live = <<>>
      <4>1. live'[1] = open /\ consumerPayload' = Start(open)
        BY <1>2, <1>3, <3>1 DEF IInv, Chain, Publish
      <4> QED
        BY <1>4, <4>1
    <3>2. CASE live # <<>>
      <4>1. live'[1] = live[1]
        BY <1>1, <1>2, <3>2, EmptySeq
      <4> QED
        BY <3>2, <4>1 DEF IInv, Chain, Publish
    <3> QED
      BY <3>1, <3>2
  <2>6. released' => consumerPayload' = End(live'[1])
    <3> SUFFICES ASSUME released PROVE consumerPayload' = End(live'[1])
      BY DEF Publish
    <3>1. live # <<>>
      BY DEF IInv, Chain
    <3>2. live'[1] = live[1]
      BY <1>1, <1>2, <3>1, EmptySeq
    <3> QED
      BY <3>2 DEF IInv, Chain, Publish
  <2> QED
    BY <1>2, <2>1, <2>2, <2>3, <2>4, <2>5, <2>6 DEF Chain, Publish
<1> QED
  BY <1>1, <1>5, <1>6 DEF IInv, Pending, CursorsConsistent, Publish

\* Aborting puts the producer back to the frontier, padding included.
LEMMA AbortKeepsIInv ==
    ASSUME IInv, Abort
    PROVE  IInv'
<1>1. /\ open \in Region /\ request = NoRequest
      /\ producerPayload \in Nat /\ consumerPayload \in Nat
  BY DEF IInv, Typed, Pending, Abort
<1>2. /\ Frontier = Start(open) /\ Frontier' = Start(open)
      /\ producerPayload' = Start(open) /\ End(open) = producerPayload
  BY DEF Frontier, IInv, Chain, Abort, Start
<1>3. Start(open) \in Nat /\ Start(open) <= producerPayload
  BY <1>1, <1>2 DEF IInv, Chain, Placed, Start, End, Region, Size, Abort
<1>4. Typed'
  BY <1>1, <1>2, <1>3 DEF IInv, Typed, Abort
<1>5. Chain'
  BY <1>2 DEF IInv, Chain, Abort
<1>6. consumerPayload <= Start(open)
  BY <1>2, FrontierBetweenCursors
<1>7. CursorsConsistent' /\ producerPayload' <= MaxCursor
  BY <1>1, <1>2, <1>3, <1>6 DEF IInv, CursorsConsistent, Abort
<1> QED
  BY <1>1, <1>4, <1>5, <1>7 DEF IInv, Pending, Abort

\* Giving a region back moves the consumer to its end, which is not beyond the
\* next region's start.
LEMMA ReleasePayloadKeepsIInv ==
    ASSUME IInv, ReleasePayload
    PROVE  IInv'
<1>1. /\ live \in Seq(Region) /\ Len(live) \in Nat \ {0} /\ live[1] \in Region
      /\ Head(live) = live[1] /\ 1 \in 1 .. Len(live)
      /\ producerPayload \in Nat /\ consumerPayload \in Nat
  BY EmptySeq, ElementOfSeq DEF IInv, Typed, ReleasePayload
<1>2. consumerPayload' = End(live[1]) /\ live # <<>> /\ ~released
  BY <1>1 DEF ReleasePayload, End
<1>3. /\ Start(live[1]) \in Int /\ End(live[1]) \in Nat /\ Start(live[1]) <= End(live[1])
      /\ consumerPayload <= Start(live[1]) /\ End(live[1]) <= Frontier
  BY <1>1, <1>2, RegionBounds DEF IInv, Chain
<1>4. Frontier \in Nat /\ Frontier <= producerPayload /\ Frontier' = Frontier
  BY FrontierBetweenCursors DEF Frontier, ReleasePayload, Start
<1>5. consumerPayload <= consumerPayload' /\ consumerPayload' <= producerPayload
  BY <1>1, <1>2, <1>3, <1>4
<1>6. Typed'
  BY <1>2, <1>3 DEF IInv, Typed, ReleasePayload
<1>7. Chain'
  BY <1>2, <1>4 DEF IInv, Chain, ReleasePayload
<1>8. CursorsConsistent'
  BY <1>1, <1>2, <1>3, <1>5 DEF IInv, CursorsConsistent, ReleasePayload
<1>9. Pending'
  <2> SUFFICES ASSUME request # NoRequest
               PROVE  /\ request.seen <= consumerPayload'
                      /\ ~request.drained
    BY <1>2 DEF IInv, Pending, ReleasePayload
  <2>1. request \in Request /\ request.seen <= consumerPayload /\ request.seen \in Nat
    BY DEF IInv, Typed, Pending, Request
  <2>2. ~request.drained
    BY <1>2 DEF IInv, Pending
  <2> QED
    BY <1>1, <1>2, <1>3, <1>5, <2>1, <2>2
<1> QED
  BY <1>6, <1>7, <1>8, <1>9 DEF IInv, ReleasePayload

LEMMA RetireKeepsIInv ==
    ASSUME IInv, Retire
    PROVE  IInv'
<1>1. /\ live # <<>> /\ live \in Seq(Region) /\ Len(live) \in Nat \ {0}
      /\ consumerPayload = End(live[1])
  BY EmptySeq DEF IInv, Typed, Chain, Retire
<1>2. /\ live' \in Seq(Region) /\ Len(live') = Len(live) - 1
      /\ \A i \in 1 .. Len(live') : live'[i] = live[i + 1]
      /\ live' = <<>> <=> Len(live) = 1
  <2>1. live' = Tail(live)
    BY DEF Retire
  <2>2. live' \in Seq(Region) /\ Len(live') = Len(live) - 1
    BY <1>1, <2>1, HeadTailProperties
  <2>3. \A i \in 1 .. Len(live') : live'[i] = live[i + 1]
    BY <1>1, <2>1, <2>2, HeadTailProperties
  <2>4. live' = <<>> <=> Len(live') = 0
    BY <2>2, EmptySeq, Zenon
  <2> QED
    BY <1>1, <2>2, <2>3, <2>4
<1>3. Frontier' = Frontier
  BY DEF Frontier, Retire, Start
<1>4. Typed'
  BY <1>2, Zenon DEF IInv, Typed, Retire
<1>5. Chain'
  <2>0. \A i \in 1 .. Len(live') : i + 1 \in 1 .. Len(live) /\ live'[i] = live[i + 1]
    BY <1>1, <1>2
  <2>1. \A i \in 1 .. Len(live') : Placed(live'[i]) /\ 0 <= Start(live'[i])
    BY <2>0 DEF IInv, Chain
  <2>2. \A i, j \in 1 .. Len(live') : i < j => End(live'[i]) <= Start(live'[j])
    <3> SUFFICES ASSUME NEW i \in 1 .. Len(live'), NEW j \in 1 .. Len(live'), i < j
                 PROVE  End(live'[i]) <= Start(live'[j])
      OBVIOUS
    <3>1. End(live[i + 1]) <= Start(live[j + 1])
      BY <2>0 DEF IInv, Chain
    <3> QED
      BY <2>0, <3>1
  <2>3. \A i \in 1 .. Len(live') : End(live'[i]) <= Frontier'
    BY <1>3, <2>0 DEF IInv, Chain
  <2>4. live' = <<>> => consumerPayload' = Frontier'
    BY <1>1, <1>2, <1>3 DEF IInv, Chain, Retire
  <2>5. live' # <<>> => End(live'[Len(live')]) = Frontier' /\ consumerPayload' <= Start(live'[1])
    <3> SUFFICES ASSUME live' # <<>>
                 PROVE  End(live'[Len(live')]) = Frontier' /\ consumerPayload' <= Start(live'[1])
      OBVIOUS
    <3>1. /\ Len(live') \in 1 .. Len(live') /\ live'[Len(live')] = live[Len(live)]
          /\ 1 \in 1 .. Len(live') /\ live'[1] = live[2] /\ 2 \in 1 .. Len(live)
          /\ 1 \in 1 .. Len(live)
      BY <1>1, <1>2
    <3>2. End(live[1]) <= Start(live[2])
      BY <3>1 DEF IInv, Chain
    <3> QED
      BY <1>1, <1>3, <3>1, <3>2 DEF IInv, Chain, Retire
  <2> QED
    BY <2>1, <2>2, <2>3, <2>4, <2>5 DEF IInv, Chain, Retire, Placed, Start, End, Offset
<1>6. Pending'
  BY <1>1 DEF IInv, Pending, Retire
<1> QED
  BY <1>4, <1>5, <1>6 DEF IInv, CursorsConsistent, Retire

LEMMA Inductive == IInv /\ [Next]_vars => IInv'
<1> SUFFICES ASSUME IInv, [Next]_vars PROVE IInv'
  BY SMTT(30)
<1>1. CASE UNCHANGED vars
  BY <1>1 DEF vars, IInv, Typed, Chain, Pending, CursorsConsistent, Frontier, Placed, Start, End, Offset
<1>2. ASSUME NEW size \in Size, LoadCursor(size) PROVE IInv'
  BY <1>2, LoadCursorKeepsIInv
<1>3. CASE Reserve
  BY <1>3, ReserveKeepsIInv
<1>4. CASE Publish
  BY <1>4, PublishKeepsIInv
<1>5. CASE Abort
  BY <1>5, AbortKeepsIInv
<1>6. CASE ReleasePayload
  BY <1>6, ReleasePayloadKeepsIInv
<1>7. CASE Retire
  BY <1>7, RetireKeepsIInv
<1> QED
  BY <1>1, <1>2, <1>3, <1>4, <1>5, <1>6, <1>7 DEF Next

-----------------------------------------------------------------------------
(* The properties follow from the invariant.                                *)

\* A payload in use lies between the cursors.
LEMMA UsedBetweenCursors ==
    ASSUME IInv, NEW i \in DOMAIN InUse, InUse[i].size > 0
    PROVE  /\ InUse[i] \in Region /\ Placed(InUse[i])
           /\ consumerPayload <= InUse[i].begin /\ End(InUse[i]) <= producerPayload
<1>1. /\ live \in Seq(Region) /\ Len(live) \in Nat
      /\ producerPayload \in Nat /\ consumerPayload \in Nat
      /\ i \in (IF released THEN 2 ELSE 1) .. Len(live) + 1
  BY LenProperties DEF IInv, Typed, InUse
<1>2. CASE i <= Len(live)
  <2>1. /\ InUse[i] = live[i] /\ i \in 1 .. Len(live) /\ 1 \in 1 .. Len(live)
        /\ live # <<>>
    BY <1>1, <1>2 DEF InUse
  <2>2. /\ live[i] \in Region /\ Placed(live[i]) /\ live[1] \in Region /\ Placed(live[1])
        /\ End(live[i]) <= Frontier
    BY <1>1, <2>1, ElementOfSeq DEF IInv, Chain
  <2>3. /\ End(live[i]) \in Nat /\ Start(live[i]) \in Int /\ live[i].begin \in Nat
        /\ Start(live[i]) <= live[i].begin
        /\ End(live[1]) \in Nat /\ Start(live[1]) \in Int /\ Start(live[1]) <= End(live[1])
    BY <2>2, RegionBounds
  <2>4. consumerPayload <= Start(live[i])
    <3>1. CASE i = 1
      BY <1>1, <2>1, <3>1 DEF IInv, Chain
    <3>2. CASE i # 1
      <4>1. End(live[1]) <= Start(live[i])
        BY <2>1, <3>2 DEF IInv, Chain
      <4>2. consumerPayload <= End(live[1])
        BY <1>1, <2>1, <2>3 DEF IInv, Chain
      <4> QED
        BY <1>1, <2>3, <4>1, <4>2
    <3> QED
      BY <3>1, <3>2
  <2> QED
    BY <1>1, <2>1, <2>2, <2>3, <2>4, FrontierBetweenCursors, SMTT(30)
<1>3. CASE ~(i <= Len(live))
  <2>1. InUse[i] = open
    BY <1>1, <1>3 DEF InUse
  <2>2. open # NoRegion
    BY <2>1 DEF NoRegion
  <2>3. /\ open \in Region /\ Placed(open) /\ End(open) = producerPayload
        /\ Frontier = Start(open)
    BY <2>2 DEF IInv, Typed, Chain, Frontier
  <2> QED
    BY <1>1, <2>1, <2>3, RegionBounds, FrontierBetweenCursors
<1> QED
  BY <1>2, <1>3

\* The payloads in use follow each other.
LEMMA UsedInOrder ==
    ASSUME IInv, NEW i \in DOMAIN InUse, NEW j \in DOMAIN InUse, i < j,
           InUse[i].size > 0, InUse[j].size > 0
    PROVE  End(InUse[i]) <= InUse[j].begin
<1>1. /\ Len(live) \in Nat
      /\ i \in 1 .. Len(live) /\ j \in 1 .. Len(live) + 1 /\ InUse[i] = live[i]
  BY LenProperties DEF IInv, Typed, InUse
<1>2. /\ InUse[i] \in Region /\ Placed(InUse[i])
      /\ InUse[j] \in Region /\ Placed(InUse[j])
  BY UsedBetweenCursors
<1>3. End(InUse[i]) <= Start(InUse[j])
  <2>1. CASE j <= Len(live)
    <3>1. InUse[j] = live[j] /\ j \in 1 .. Len(live)
      BY <1>1, <2>1 DEF InUse
    <3> QED
      BY <1>1, <3>1 DEF IInv, Chain
  <2>2. CASE ~(j <= Len(live))
    <3>1. InUse[j] = open
      BY <1>1, <2>2 DEF InUse
    <3>2. Frontier = Start(open)
      BY <3>1 DEF Frontier, NoRegion
    <3> QED
      BY <1>1, <3>1, <3>2 DEF IInv, Chain
  <2> QED
    BY <2>1, <2>2
<1> QED
  BY <1>2, <1>3, RegionBounds

LEMMA IInvSeparates == IInv => RegionsDisjoint
<1> SUFFICES ASSUME IInv, NEW i \in DOMAIN InUse, InUse[i].size > 0
             PROVE  /\ Offset(InUse[i]) + InUse[i].size <= Capacity
                    /\ Offset(InUse[i]) % Alignment = 0
                    /\ \A j \in DOMAIN InUse : InUse[j].size > 0 /\ i # j =>
                          \/ Offset(InUse[i]) + InUse[i].size <= Offset(InUse[j])
                          \/ Offset(InUse[j]) + InUse[j].size <= Offset(InUse[i])
  BY DEF RegionsDisjoint
<1>1. Offset(InUse[i]) + InUse[i].size <= Capacity /\ Offset(InUse[i]) % Alignment = 0
  BY UsedBetweenCursors DEF Placed
<1>2. ASSUME NEW k \in DOMAIN InUse, NEW l \in DOMAIN InUse, k < l,
             InUse[k].size > 0, InUse[l].size > 0
      PROVE  \/ Offset(InUse[k]) + InUse[k].size <= Offset(InUse[l])
             \/ Offset(InUse[l]) + InUse[l].size <= Offset(InUse[k])
  <2> DEFINE r == InUse[k]
             s == InUse[l]
  <2>1. /\ r \in Region /\ Placed(r) /\ consumerPayload <= r.begin
        /\ s \in Region /\ Placed(s) /\ End(s) <= producerPayload
    BY <1>2, UsedBetweenCursors
  <2>2. End(r) <= s.begin
    BY <1>2, UsedInOrder
  <2>3. r.begin \in Nat /\ End(s) \in Nat
    BY <2>1, RegionBounds
  <2>4. End(s) - r.begin <= Capacity
    BY <2>1, <2>3 DEF IInv, Typed, CursorsConsistent
  <2> HIDE DEF r, s
  <2>5. r.size > 0 /\ s.size > 0
    BY <1>2 DEF r, s
  <2>6. Offset(r) + r.size <= Capacity /\ Offset(s) + s.size <= Capacity
    BY <2>1, <2>5 DEF Placed
  <2>7. \/ Offset(r) + r.size <= Offset(s)
        \/ Offset(s) + s.size <= Offset(r)
    BY <2>1, <2>2, <2>4, <2>5, <2>6, ApartInSlab
  <2> QED
    BY <2>7 DEF r, s
<1>3. DOMAIN InUse \subseteq Int
  BY LenProperties DEF IInv, Typed, InUse
<1>4. ASSUME NEW j \in DOMAIN InUse, InUse[j].size > 0, i # j
      PROVE  \/ Offset(InUse[i]) + InUse[i].size <= Offset(InUse[j])
             \/ Offset(InUse[j]) + InUse[j].size <= Offset(InUse[i])
  <2>1. i < j \/ j < i
    BY <1>3, <1>4
  <2> QED
    BY <1>2, <1>4, <2>1
<1> QED
  BY <1>1, <1>4

\* A request that found the ring drained is granted, with or without a rebase.
LEMMA DrainedIsGranted ==
    ASSUME IInv, Reserve, request.drained
    PROVE  open' # NoRegion
<1> DEFINE offset == producerPayload % Capacity
           size == request.size
           padding == Padding(offset, size)
<1>1. /\ request \in Request /\ request # NoRequest
      /\ producerPayload \in request.seen .. request.seen + Capacity
  BY ReserveIsConsistent, Zenon DEF Reserve
<1>2. /\ live = <<>> /\ request.seen = producerPayload
      /\ producerPayload \in Nat /\ size \in 0 .. Capacity
  BY <1>1 DEF IInv, Typed, Pending, Request, Size
<1>3. ~(producerPayload < request.seen \/ producerPayload - request.seen > Capacity)
  BY <1>1, <1>2
<1>4. CASE Rebases(offset)
  <2> DEFINE rebase == Capacity - offset
  <2>1. rebase \in 1 .. Capacity
    BY <1>2, RebasePlaces
  <2>2. \/ /\ 0 + size > Capacity \/ (producerPayload + rebase) - (request.seen + rebase) > Capacity - (0 + size)
        \/ open' = [begin |-> producerPayload + rebase + 0, size |-> size, reserved |-> 0 + size]
    BY <1>1, <1>3, <1>4 DEF Reserve
  <2> HIDE DEF rebase, size
  <2>3. ~(0 + size > Capacity \/ (producerPayload + rebase) - (request.seen + rebase) > Capacity - (0 + size))
    BY <1>2, <2>1
  <2>4. open'.begin = producerPayload + rebase + 0
    BY <2>2, <2>3
  <2> QED
    BY <1>2, <2>1, <2>4 DEF NoRegion
<1>5. CASE ~Rebases(offset)
  <2>1. padding \in Nat /\ padding + size <= Capacity
    <3>1. CASE size = 0
      BY <1>2, <3>1 DEF Padding
    <3>2. CASE size # 0
      <4>1. padding \in Nat
        BY <1>2, <3>2, PaddingPlaces, Zenon DEF Size
      <4>2. ~(padding + size > Capacity)
        BY <1>2, <1>5, <3>2 DEF Rebases
      <4> QED
        BY <1>2, <4>1, <4>2
    <3> QED
      BY <3>1, <3>2
  <2>2. \/ padding + size > Capacity
        \/ (producerPayload + 0) - (request.seen + 0) > Capacity - (padding + size)
        \/ open' = [begin |-> producerPayload + 0 + padding, size |-> size,
                    reserved |-> padding + size]
    BY <1>1, <1>3, <1>5 DEF Reserve
  <2> HIDE DEF padding, size
  <2>3. ~(\/ padding + size > Capacity
          \/ (producerPayload + 0) - (request.seen + 0) > Capacity - (padding + size))
    BY <1>2, <2>1
  <2>4. open'.begin = producerPayload + 0 + padding
    BY <2>2, <2>3
  <2> QED
    BY <1>2, <2>1, <2>4 DEF NoRegion
<1> QED
  BY <1>4, <1>5, SMTT(30)

-----------------------------------------------------------------------------
LEMMA SpecIInv == Spec => []IInv
BY InitIInv, Inductive, PTL DEF Spec

\* No two payloads in use overlap in the slab, and each is aligned and in one
\* piece: what try_begin_produce_impl() reserves, commits, aborts and rebases and
\* finalize() gives back never collide.
THEOREM PayloadsNeverOverlap == Spec => []RegionsDisjoint
BY SpecIInv, IInvSeparates, PTL

\* The two payload cursors stay within one capacity of each other, in order, so
\* PayloadReservationOverflow is never raised.
THEOREM CursorsStayConsistent == Spec => []CursorsConsistent
<1>1. IInv => CursorsConsistent
  BY DEF IInv
<1> QED
  BY <1>1, SpecIInv, PTL

\* A request of try_begin_produce_impl() that found no command outstanding gets its
\* payload, up to the whole capacity, wherever in the slab the cursors stand.
THEOREM DrainedRingAdmits == Spec => DrainedAdmits
<1>1. IInv /\ [Next]_vars
        => [request # NoRequest /\ request' = NoRequest /\ request.drained
              => open' # NoRegion]_vars
  <2> SUFFICES ASSUME IInv, [Next]_vars,
                      request # NoRequest, request' = NoRequest, request.drained
               PROVE  open' # NoRegion \/ UNCHANGED vars
    OBVIOUS
  <2>1. CASE Reserve
    BY <2>1, DrainedIsGranted
  <2>2. CASE ~Reserve
    BY <2>2 DEF Next, LoadCursor, Publish, Abort, ReleasePayload, Retire, vars
  <2> QED
    BY <2>1, <2>2
<1> QED
  BY <1>1, SpecIInv, PTL DEF Spec, DrainedAdmits

=============================================================================
