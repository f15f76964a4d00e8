------------------------ MODULE NetlinkFramingProofs ------------------------
(***************************************************************************)
(* Theorems about NetlinkFraming, for every buffer length and every set of *)
(* well-formed datagrams.                                                  *)
(***************************************************************************)
EXTENDS NetlinkFraming, SequenceTheorems, TLAPS

USE DEF NLMSG_HDRLEN, NLMSG_ALIGNTO

(***************************************************************************)
(* nlmAlignOf rounds up, by less than the alignment.                       *)
(***************************************************************************)
LEMMA AlignFacts ==
    ASSUME NEW n \in Nat
    PROVE  nlmAlignOf(n) \in Nat /\ nlmAlignOf(n) >= n /\ nlmAlignOf(n) < n + 4
BY DEF nlmAlignOf

\* A header's length does not change what the alignment adds.
LEMMA AlignHeader ==
    ASSUME NEW n \in Nat
    PROVE  nlmAlignOf(16 + n) = 16 + n <=> nlmAlignOf(n) = n
BY DEF nlmAlignOf

\* The buffer holds two headers, and text read as a length exceeds it.
LEMMA SizeFacts == BufLen \in Nat /\ BufLen >= 32 /\ TextLen \in Nat /\ TextLen > BufLen
BY FramingAssumption

(***************************************************************************)
(* The invariant. While a loop cuts a datagram, pos is where its next      *)
(* message starts. Each slice lies where its message lies, and the message *)
(* was received whole; a slice that DeleteAllRules may send back ends no   *)
(* later than the next message begins. What has not been used is still in  *)
(* the buffer. A loop that goes through the datagram has got past no       *)
(* message that is off the end, and a loop that panicked is at one.        *)
(***************************************************************************)
M == dgram.messages

Cut ==
    /\ Len(msgs) <= Len(M)
    /\ \A i \in 1..Len(msgs) :
         /\ msgs[i].at = M[i].start + NLMSG_HDRLEN
         /\ msgs[i].len >= M[i].size
         /\ loop = "Parse" => msgs[i].len <= Extent(M[i])
         /\ Whole(M[i])
         /\ loop \in Collectors => ~OffTheEnd(M[i])

Position ==
    /\ M # <<>> /\ next = 1 /\ err = "nil" /\ pos <= dgram.nr
    /\ Len(msgs) < Len(M) => pos = M[Len(msgs) + 1].start
    /\ Len(msgs) = Len(M) => /\ pos = M[Len(M)].start + nlmAlignOf(LenOf(M[Len(M)]))
                             /\ M[1].kind = "event" => loop \in Collectors

Held == \A i \in next..Len(M) : \A c \in Payload(M[i]) : c < BufLen => i \in rb[c]

Stuck == \E i \in 1..Len(M) : M[i].start = pos /\ OffTheEnd(M[i])

FrameInv ==
    /\ TypeOK
    /\ Cut /\ Held
    /\ phase = "parse" => Position
    /\ phase = "panic" => Stuck
    /\ AllDelivered

\* The messages of a well-formed datagram: their sizes, and what their headers say.
LEMMA DatagramMessages ==
    ASSUME NEW d, WellFormed(d), NEW i \in 1..Len(d.messages)
    PROVE  /\ d.messages[i].kind \in {"event", "reply"} /\ d.messages[i].size \in Nat /\ d.messages[i].start \in Nat
           /\ LenOf(d.messages[i]) \in Nat /\ LenOf(d.messages[i]) >= 16
           /\ Extent(d.messages[i]) \in Nat /\ Extent(d.messages[i]) >= 16 + d.messages[i].size
           /\ d.messages[i].kind = "event" =>
                i = 1 /\ Len(d.messages) = 1 /\ 16 + d.messages[i].size <= BufLen
<1> DEFINE N == d.messages
<1> DEFINE R == [kind: {"event", "reply"}, size: Nat, start: Nat]
<1>1. N \in Seq(R)
  BY DEF WellFormed
<1>2. DOMAIN N = 1..Len(N) /\ Len(N) \in Nat /\ \A k \in 1..Len(N) : N[k] \in R
  <2> HIDE DEF R
  <2> QED BY <1>1, ElementOfSeq
<1>3. N[i].kind = "event" => Len(N) = 1 /\ N[i].size >= 16 /\ 16 + N[i].size <= BufLen
  <2>1. i \in DOMAIN d.messages
    BY <1>2
  <2> QED BY <2>1 DEF WellFormed
<1>4. N[i].kind \in {"event", "reply"} /\ N[i].size \in Nat /\ N[i].start \in Nat
  BY <1>2
<1>5. LenOf(N[i]) \in Nat /\ LenOf(N[i]) >= 16
  BY <1>3, <1>4 DEF LenOf
<1>6. Extent(N[i]) \in Nat /\ Extent(N[i]) >= 16 + N[i].size
  <2>1. CASE N[i].kind = "event"
    BY <1>4, <2>1 DEF Extent
  <2>2. CASE N[i].kind = "reply"
    <3>1. 16 + N[i].size \in Nat
      BY <1>4
    <3> QED BY <1>4, <2>2, <3>1, AlignFacts, Zenon DEF Extent
  <2> QED BY <1>4, <2>1, <2>2
<1>7. N[i].kind = "event" => i = 1 /\ Len(N) = 1 /\ 16 + N[i].size <= BufLen
  <2>1. Len(N) = 1 => i = 1
    OBVIOUS
  <2> QED BY <1>3, <2>1
<1> QED BY <1>4, <1>5, <1>6, <1>7

\* The messages lie one after the other, and what is received ends in the last.
LEMMA DatagramOrder ==
    ASSUME NEW d, WellFormed(d)
    PROVE  /\ Len(d.messages) \in Nat /\ DOMAIN d.messages = 1..Len(d.messages)
           /\ d.nr \in Nat /\ d.nr <= BufLen
           /\ d.messages = <<>> <=> Len(d.messages) = 0
           /\ d.messages = <<>> => d.nr < 16
           /\ d.messages # <<>> => d.messages[1].start = 0
           /\ \A i \in 1..Len(d.messages) :
                /\ i = Len(d.messages) => \/ d.nr = Received(d.messages[i].start + Extent(d.messages[i]))
                                          \/ d.nr = Received(d.messages[i].start + 16 + d.messages[i].size)
                /\ i < Len(d.messages) => d.messages[i + 1].start = d.messages[i].start + Extent(d.messages[i])
                /\ \A j \in (i + 1)..Len(d.messages) : d.messages[i].start + Extent(d.messages[i]) <= d.messages[j].start
<1> DEFINE N == d.messages
<1> DEFINE R == [kind: {"event", "reply"}, size: Nat, start: Nat]
<1>1. /\ N \in Seq(R) /\ d.nr \in Nat /\ d.nr <= BufLen
      /\ N = <<>> => d.nr < 16
  BY DEF WellFormed
<1>2. DOMAIN N = 1..Len(N) /\ Len(N) \in Nat /\ (N = <<>> <=> Len(N) = 0)
  <2> HIDE DEF R
  <2> QED BY <1>1, EmptySeq
<1>3. ASSUME NEW i \in DOMAIN d.messages
      PROVE  LET m == d.messages[i]
             IN /\ i = 1 => m.start = 0
                /\ i = Len(d.messages) => \/ d.nr = Received(m.start + Extent(m))
                                          \/ d.nr = Received(m.start + 16 + m.size)
                /\ i < Len(d.messages) => d.messages[i + 1].start = m.start + Extent(m)
                /\ \A j \in (i + 1)..Len(d.messages) :
                     m.start + Extent(m) <= d.messages[j].start
  BY Zenon DEF WellFormed
<1>4. N # <<>> => N[1].start = 0
  BY <1>2, <1>3
<1> QED BY <1>1, <1>2, <1>3, <1>4, Zenon

\* A datagram with a message has at least a header, and an event is received whole.
LEMMA DatagramReceived ==
    ASSUME NEW d, WellFormed(d), d.messages # <<>>
    PROVE  /\ d.nr >= 16
           /\ d.messages[1].kind = "event" => d.nr = 16 + d.messages[1].size
           /\ d.nr <= d.messages[Len(d.messages)].start + Extent(d.messages[Len(d.messages)])
<1> USE SizeFacts
<1> DEFINE n == Len(d.messages)
           s == d.messages[n].start
           e == Extent(d.messages[n])
           z == d.messages[n].size
<1>1. n \in Nat /\ n \in 1..n /\ d.nr \in Nat /\ d.messages[1].start = 0
  BY DatagramOrder
<1>2. d.nr = Received(s + e) \/ d.nr = Received(s + 16 + z)
  BY <1>1, DatagramOrder
<1>3. s \in Nat /\ e \in Nat /\ z \in Nat /\ e >= 16 + z
  BY <1>1, DatagramMessages, SMTT(30)
<1>4. ASSUME d.messages[1].kind = "event"
      PROVE  n = 1 /\ s = 0 /\ e = 16 + z /\ 16 + z <= BufLen
  <2>1. 1 \in 1..n
    BY <1>1
  <2>2. n = 1 /\ 16 + d.messages[1].size <= BufLen
    BY <1>4, <2>1, DatagramMessages, SMTT(30)
  <2>3. Extent(d.messages[1]) = 16 + d.messages[1].size
    BY <1>4 DEF Extent
  <2> QED BY <1>1, <2>2, <2>3
<1>5. d.messages[1].kind = "event" => d.nr = 16 + d.messages[1].size
  <2> SUFFICES ASSUME d.messages[1].kind = "event" PROVE d.nr = 16 + d.messages[n].size
    BY <1>4
  <2>1. s = 0 /\ e = 16 + z /\ 16 + z <= BufLen
    BY <1>4
  <2> HIDE DEF s, e, n
  <2> QED BY <1>2, <1>3, <2>1 DEF Received
<1> HIDE DEF n, s, e, z
<1>6. d.nr >= 16 /\ d.nr <= s + e
  BY <1>2, <1>3 DEF Received
<1> QED BY <1>5, <1>6 DEF n, s, e

\* The same of the datagram at hand.
LEMMA MessageFacts ==
    ASSUME TypeOK, NEW i \in 1..Len(M)
    PROVE  /\ M[i].kind \in {"event", "reply"} /\ M[i].size \in Nat /\ M[i].start \in Nat
           /\ LenOf(M[i]) \in Nat /\ LenOf(M[i]) >= 16
           /\ Extent(M[i]) \in Nat /\ Extent(M[i]) >= 16 + M[i].size
           /\ M[i].kind = "event" => i = 1 /\ Len(M) = 1 /\ 16 + M[i].size <= BufLen
BY DatagramMessages DEF TypeOK, M

\* The messages of the datagram at hand lie one behind the other.
LEMMA OrderFacts ==
    ASSUME TypeOK
    PROVE  /\ Len(M) \in Nat /\ DOMAIN M = 1..Len(M)
           /\ dgram.nr \in Nat /\ dgram.nr <= BufLen
           /\ M = <<>> <=> Len(M) = 0
           /\ M = <<>> => dgram.nr < 16
           /\ M # <<>> => M[1].start = 0
           /\ \A i \in 1..Len(M) :
                /\ i < Len(M) => M[i + 1].start = M[i].start + Extent(M[i])
                /\ \A j \in (i + 1)..Len(M) : M[i].start + Extent(M[i]) <= M[j].start
BY DatagramOrder DEF TypeOK, M

\* What was received of the datagram at hand.
LEMMA ReceivedFacts ==
    ASSUME TypeOK, M # <<>>
    PROVE  /\ dgram.nr >= 16
           /\ M[1].kind = "event" => dgram.nr = 16 + M[1].size
           /\ dgram.nr <= M[Len(M)].start + Extent(M[Len(M)])
BY DatagramReceived DEF TypeOK, M

\* Only a reply is followed by another message.
LEMMA FollowedByMessage ==
    ASSUME TypeOK, NEW i \in 1..Len(M), i < Len(M)
    PROVE  M[i].kind = "reply"
<1> DEFINE n == Len(M)
           k == M[i].kind
<1>1. n \in Nat /\ i \in 1..n /\ i < n /\ k \in {"event", "reply"} /\ (k = "event" => n = 1)
  BY OrderFacts, MessageFacts
<1> HIDE DEF n, k
<1>2. n # 1
  BY <1>1
<1> QED BY <1>1, <1>2 DEF k

\* The header at the start of a message is that message's, and none follows the last.
LEMMA HeaderFacts ==
    ASSUME TypeOK
    PROVE  /\ \A i \in 1..Len(M) : pos = M[i].start => HeaderLens = {LenOf(M[i])}
           /\ (\A i \in 1..Len(M) : pos # M[i].start) => HeaderLens = {TextLen}
<1> DEFINE here == {i \in DOMAIN M : M[i].start = pos}
<1>1. HeaderLens = IF here = {} THEN {TextLen} ELSE {LenOf(M[i]) : i \in here}
  BY DEF HeaderLens, M
<1>2. DOMAIN M = 1..Len(M) /\ Len(M) \in Nat
  BY OrderFacts
<1>3. ASSUME NEW i \in 1..Len(M), NEW j \in 1..Len(M), i < j
      PROVE  M[i].start # M[j].start
  <2>1. M[i].start + Extent(M[i]) <= M[j].start
    <3>1. j \in (i + 1)..Len(M)
      BY <1>2, <1>3
    <3>2. \A k \in (i + 1)..Len(M) : M[i].start + Extent(M[i]) <= M[k].start
      BY OrderFacts
    <3> QED BY <3>1, <3>2
  <2>2. M[i].start \in Nat /\ M[j].start \in Nat /\ Extent(M[i]) \in Nat /\ Extent(M[i]) >= 16
    <3>1. M[i].size \in Nat /\ Extent(M[i]) \in Nat /\ Extent(M[i]) >= 16 + M[i].size
      BY MessageFacts
    <3> QED BY <3>1, MessageFacts, SMTT(30)
  <2> QED BY <2>1, <2>2
<1>4. ASSUME NEW i \in 1..Len(M), pos = M[i].start
      PROVE  here = {i}
  <2>1. \A j \in 1..Len(M) : j # i => M[j].start # M[i].start
    BY <1>2, <1>3
  <2> QED BY <1>2, <1>4, <2>1
<1>5. (\A i \in 1..Len(M) : pos # M[i].start) => here = {}
  BY <1>2
<1> HIDE DEF here
<1> QED BY <1>1, <1>4, <1>5

\* The slices delivered have places and lengths.
LEMMA SliceFacts ==
    ASSUME TypeOK
    PROVE  Len(msgs) \in Nat /\ \A i \in 1..Len(msgs) : msgs[i].at \in Nat /\ msgs[i].len \in Nat
<1> DEFINE R == [at: Nat, len: Nat]
<1>1. msgs \in Seq(R)
  BY DEF TypeOK
<1>2. Len(msgs) \in Nat /\ \A i \in 1..Len(msgs) : msgs[i] \in R
  <2> HIDE DEF R
  <2> QED BY <1>1, ElementOfSeq
<1> QED BY <1>2

\* When a message was not received whole, none behind it was.
LEMMA NoneBehind ==
    ASSUME TypeOK, NEW k \in 1..Len(M), ~Whole(M[k]), NEW j \in k..Len(M)
    PROVE  ~Whole(M[j])
<1>1. Len(M) \in Nat /\ dgram.nr \in Nat
  BY OrderFacts
<1>2. CASE j = k
  BY <1>2
<1>3. CASE j # k
  <2>1. j \in (k + 1)..Len(M) /\ j \in 1..Len(M)
    BY <1>1, <1>3
  <2> DEFINE a == M[k].start
             e == Extent(M[k])
             z == M[k].size
             b == M[j].start
             y == M[j].size
  <2>2. a + e <= b
    BY <2>1, OrderFacts
  <2>3. a \in Nat /\ e \in Nat /\ z \in Nat /\ e >= 16 + z /\ b \in Nat /\ y \in Nat
    BY <2>1, MessageFacts
  <2>4. ~(a + 16 + z <= dgram.nr)
    BY DEF Whole
  <2> HIDE DEF a, e, z, b, y
  <2>5. ~(b + 16 + y <= dgram.nr)
    BY <1>1, <2>2, <2>3, <2>4
  <2> QED BY <2>5 DEF Whole, b, y
<1> QED BY <1>2, <1>3

(***************************************************************************)
(* The steps.                                                              *)
(***************************************************************************)
LEMMA RecvfromInv ==
    ASSUME FrameInv, NEW l \in Loops, NEW d \in Datagrams, Recvfrom(l, d)
    PROVE  FrameInv'
<1> USE FramingAssumption
<1>1. WellFormed(d) /\ dgram' = d
  BY DEF Recvfrom
<1>2. TypeOK'
  <2>1. rb' \in [0..(BufLen - 1) -> SUBSET Nat]
    <3>1. DOMAIN d.messages \subseteq Nat
      BY <1>1, DatagramOrder
    <3> QED BY <3>1 DEF Recvfrom
  <2>2. msgs' \in Seq([at: Nat, len: Nat])
    BY EmptySeq DEF Recvfrom
  <2> QED BY <1>1, <2>1, <2>2 DEF Recvfrom, TypeOK
<1>3. Len(msgs') = 0 /\ next' = 1 /\ err' = "nil" /\ pos' = 0
  BY DEF Recvfrom
<1>4. Cut'
  BY <1>1, <1>3, DatagramOrder DEF Cut, M
<1>5. Held'
  <2> SUFFICES ASSUME NEW i \in 1..Len(d.messages), NEW c \in Payload(d.messages[i]), c < BufLen
               PROVE  i \in rb'[c]
    BY <1>1, <1>3 DEF Held, M
  <2>1. c \in 0..(BufLen - 1)
    <3>1. d.messages[i].start \in Nat /\ d.messages[i].size \in Nat
      BY <1>1, DatagramMessages, SMTT(30)
    <3> QED BY <3>1 DEF Payload
  <2>2. i \in DOMAIN d.messages
    BY <1>1, DatagramOrder
  <2> QED BY <2>1, <2>2 DEF Recvfrom
<1>6. phase' = "parse" => Position'
  <2> SUFFICES ASSUME ~(d.nr < 16)
               PROVE  Position'
    BY DEF Recvfrom
  <2>1. /\ d.messages # <<>> /\ Len(d.messages) # 0 /\ Len(d.messages) \in Nat
        /\ d.messages[1].start = 0 /\ d.nr \in Nat
    BY <1>1, DatagramOrder
  <2> QED BY <1>1, <1>3, <2>1 DEF Position, M
<1>7. phase' # "panic" /\ (phase' = "use" => d.nr < 16)
  BY DEF Recvfrom
<1>8. AllDelivered'
  <2>1. d.nr \in Nat
    BY <1>1, DatagramOrder
  <2> QED BY <1>1, <1>7, <2>1 DEF AllDelivered
<1> QED BY <1>2, <1>4, <1>5, <1>6, <1>7, <1>8 DEF FrameInv

\* In a loop that has not seen the last message, b starts with the header of the next
\* one, if it has a header at all, and the header fits if the message was received
\* whole; after the last no header follows, or one that does not fit.
LEMMA NextHeader ==
    ASSUME FrameInv, phase = "parse"
    PROVE  /\ rest \in Nat
           /\ Len(msgs) < Len(M) =>
                /\ Len(msgs) + 1 \in 1..Len(M) /\ pos = M[Len(msgs) + 1].start
                /\ HeaderLens = {LenOf(M[Len(msgs) + 1])}
                /\ Whole(M[Len(msgs) + 1]) => rest >= 16
                /\ BadHeader(LenOf(M[Len(msgs) + 1])) <=> ~Whole(M[Len(msgs) + 1])
           /\ Len(msgs) = Len(M) => rest < 16 \/ \A h \in HeaderLens : BadHeader(h)
<1> USE SizeFacts
<1>1. /\ TypeOK /\ Position /\ Cut /\ M # <<>>
      /\ Len(M) \in Nat \ {0} /\ Len(msgs) \in Nat /\ dgram.nr \in Nat /\ dgram.nr <= BufLen
      /\ pos \in Nat
  BY OrderFacts, SliceFacts DEF FrameInv, Position, TypeOK
<1>2. rest \in Nat
  BY <1>1 DEF rest, Position
<1>3. ASSUME Len(msgs) < Len(M)
      PROVE  /\ Len(msgs) + 1 \in 1..Len(M) /\ pos = M[Len(msgs) + 1].start
             /\ HeaderLens = {LenOf(M[Len(msgs) + 1])}
             /\ Whole(M[Len(msgs) + 1]) => rest >= 16
             /\ BadHeader(LenOf(M[Len(msgs) + 1])) <=> ~Whole(M[Len(msgs) + 1])
  <2> DEFINE i == Len(msgs) + 1
             a == M[i].start
             z == M[i].size
             h == LenOf(M[i])
  <2>1. i \in 1..Len(M) /\ pos = a
    BY <1>1, <1>3 DEF Position
  <2> HIDE DEF i
  <2>2. M[i].kind \in {"event", "reply"} /\ z \in Nat /\ a \in Nat /\ h \in Nat /\ h >= 16
    BY <1>1, <2>1, MessageFacts
  <2>3. HeaderLens = {h}
    BY <1>1, <2>1, HeaderFacts
  <2>4. rest = dgram.nr - a
    BY <2>1 DEF rest
  <2>5. Whole(M[i]) <=> a + 16 + z <= dgram.nr
    BY DEF Whole
  <2>6. BadHeader(h) <=> h < 16 \/ h > rest
    BY DEF BadHeader
  <2>7. BadHeader(h) <=> ~Whole(M[i])
    <3>1. CASE M[i].kind = "reply"
      <4>1. h = 16 + z
        BY <3>1 DEF LenOf
      <4> HIDE DEF a, z, h
      <4> QED BY <1>1, <2>2, <2>4, <2>5, <2>6, <4>1, SMTT(30)
    <3>2. CASE M[i].kind = "event"
      <4>1. h = z /\ i = 1
        BY <1>1, <2>1, <3>2, MessageFacts DEF LenOf
      <4>2. a = 0 /\ dgram.nr = 16 + z
        BY <1>1, <3>2, <4>1, OrderFacts, ReceivedFacts
      <4> HIDE DEF a, z, h
      <4> QED BY <1>1, <2>2, <2>4, <2>5, <2>6, <4>1, <4>2
    <3> QED BY <2>2, <3>1, <3>2
  <2>8. Whole(M[i]) => rest >= 16
    <3> HIDE DEF a, z
    <3> QED BY <1>1, <2>2, <2>4, <2>5
  <2> QED BY <2>1, <2>3, <2>7, <2>8 DEF i
<1>4. ASSUME Len(msgs) = Len(M), ~(rest < 16)
      PROVE  \A h \in HeaderLens : BadHeader(h)
  <2> DEFINE i == Len(M)
  <2>1. i \in 1..Len(M) /\ pos = M[i].start + nlmAlignOf(LenOf(M[i]))
    BY <1>1, <1>4 DEF Position
  <2>2. dgram.nr <= M[i].start + Extent(M[i])
    BY <1>1, ReceivedFacts
  <2> HIDE DEF i
  <2>3. /\ M[i].kind \in {"event", "reply"} /\ M[i].size \in Nat /\ M[i].start \in Nat
        /\ LenOf(M[i]) \in Nat /\ LenOf(M[i]) >= 16
        /\ Extent(M[i]) \in Nat
        /\ M[i].kind = "event" => i = 1 /\ Len(M) = 1
    BY <1>1, <2>1, MessageFacts
  <2>4. CASE M[i].kind = "reply"
    <3>1. Extent(M[i]) = nlmAlignOf(LenOf(M[i]))
      BY <2>4 DEF Extent, LenOf
    <3>2. rest = dgram.nr - (M[i].start + Extent(M[i]))
      BY <2>1, <3>1 DEF rest
    <3> DEFINE t == M[i].start + Extent(M[i])
    <3>3. t \in Nat /\ dgram.nr <= t /\ rest = dgram.nr - t
      BY <2>2, <2>3, <3>2
    <3> HIDE DEF t
    <3> QED BY <1>1, <1>4, <3>3
  <2>5. CASE M[i].kind = "event"
    <3>1. i = 1 /\ Len(M) = 1 /\ M[1].start = 0
      <4>1. i = 1 /\ Len(M) = 1
        BY <2>3, <2>5
      <4>2. M # <<>> /\ M[1].start = 0
        BY <1>1, OrderFacts
      <4> QED BY <4>1, <4>2
    <3>2. nlmAlignOf(LenOf(M[i])) \in Nat /\ nlmAlignOf(LenOf(M[i])) >= 16
      BY <2>3, AlignFacts
    <3>3. \A k \in 1..Len(M) : pos # M[k].start
      <4>1. pos # 0
        BY <2>1, <2>3, <3>2
      <4>2. \A k \in 1..Len(M) : k = 1
        BY <3>1
      <4> QED BY <3>1, <4>1, <4>2
    <3>4. HeaderLens = {TextLen}
      BY <1>1, <3>3, HeaderFacts
    <3>5. rest \in Int /\ rest <= BufLen
      BY <1>1 DEF rest
    <3> QED BY <3>4, <3>5 DEF BadHeader
  <2> QED BY <2>3, <2>4, <2>5
<1> QED BY <1>2, <1>3, <1>4

\* The loop ends behind the last message that was received whole.
LEMMA ParseEndsInv ==
    ASSUME FrameInv, ParseEnds
    PROVE  FrameInv'
<1> USE SizeFacts
<1>1. /\ phase = "parse" /\ phase' = "use" /\ err' \in {"nil", "error"}
      /\ UNCHANGED <<loop, rb, dgram, pos, msgs, next>>
  BY DEF ParseEnds, Stop
<1>2. /\ Position /\ Cut /\ TypeOK /\ M # <<>>
      /\ Len(msgs) \in Nat /\ Len(M) \in Nat /\ Len(M) # 0 /\ rest \in Nat /\ dgram.nr \in Nat
  BY <1>1, OrderFacts, SliceFacts, NextHeader DEF FrameInv, Position
<1>3. Len(msgs) < Len(M) => ~Whole(M[Len(msgs) + 1])
  <2> SUFFICES ASSUME Len(msgs) < Len(M), Whole(M[Len(msgs) + 1]) PROVE FALSE
    OBVIOUS
  <2>1. /\ rest >= 16 /\ HeaderLens = {LenOf(M[Len(msgs) + 1])}
        /\ ~BadHeader(LenOf(M[Len(msgs) + 1]))
    BY <1>1, NextHeader
  <2> QED BY <1>2, <2>1 DEF ParseEnds
<1>4. ASSUME NEW i \in 1..Len(M)
      PROVE  i <= Len(msgs) <=> Whole(M[i])
  <2>1. CASE i <= Len(msgs)
    <3>1. i \in 1..Len(msgs)
      BY <1>2, <2>1
    <3> QED BY <1>2, <2>1, <3>1 DEF Cut
  <2>2. CASE ~(i <= Len(msgs))
    <3>1. Len(msgs) < Len(M) /\ Len(msgs) + 1 \in 1..Len(M) /\ i \in (Len(msgs) + 1)..Len(M)
      BY <1>2, <2>2
    <3> QED BY <1>2, <1>3, <2>2, <3>1, NoneBehind
  <2> QED BY <2>1, <2>2
<1>5. loop \in Collectors => (err' = "error" <=> loop = "Parse" /\ msgs = <<>>)
  <2>1. CASE rest < 16
    <3>1. err' = "nil"
      BY <1>2, <2>1 DEF ParseEnds, Stop
    <3>2. msgs # <<>>
      <4> SUFFICES ASSUME Len(msgs) = 0 PROVE FALSE
        OBVIOUS
      <4>1. pos = 0
        BY <1>2, OrderFacts DEF Position
      <4>2. dgram.nr >= 16
        BY <1>2, ReceivedFacts
      <4> QED BY <1>2, <2>1, <4>1, <4>2 DEF rest
    <3> QED BY <3>1, <3>2
  <2>2. CASE ~(rest < 16)
    <3>1. err' = IF loop = "Raw" \/ (loop = "Parse" /\ msgs # <<>>) THEN "nil" ELSE "error"
      BY <2>2 DEF ParseEnds, Stop
    <3> QED BY <3>1 DEF Collectors
  <2> QED BY <2>1, <2>2
<1>6. TypeOK'
  BY <1>1, <1>2 DEF TypeOK
<1>7. AllDelivered'
  <2>1. /\ Len(msgs) <= Len(M) /\ DOMAIN M = 1..Len(M)
    BY <1>2, OrderFacts, SMTT(30) DEF Cut
  <2> QED BY <1>1, <1>4, <1>5, <2>1 DEF AllDelivered, M, Whole
<1>8. Cut' /\ Held'
  BY <1>1, <1>2 DEF FrameInv, Cut, Held, M, Whole, OffTheEnd
<1> QED BY <1>1, <1>6, <1>7, <1>8 DEF FrameInv

\* A header that fits is that of the next message, which was received whole.
LEMMA AtMessage ==
    ASSUME FrameInv, AtHeader, NEW h \in HeaderLens, ~BadHeader(h)
    PROVE  /\ Len(msgs) < Len(M) /\ Len(msgs) + 1 \in 1..Len(M)
           /\ HeaderLens = {h} /\ h = LenOf(M[Len(msgs) + 1]) /\ Whole(M[Len(msgs) + 1])
           /\ pos = M[Len(msgs) + 1].start
<1>1. phase = "parse" /\ rest >= 16
  BY DEF AtHeader
<1>2. Len(msgs) \in Nat /\ Len(M) \in Nat /\ Len(msgs) <= Len(M) /\ rest \in Nat
  BY <1>1, OrderFacts, SliceFacts, NextHeader DEF FrameInv, Cut
<1>3. Len(msgs) < Len(M)
  <2> SUFFICES ASSUME Len(msgs) = Len(M) PROVE FALSE
    BY <1>2
  <2>1. rest < 16 \/ \A g \in HeaderLens : BadHeader(g)
    BY <1>1, NextHeader
  <2> QED BY <1>1, <1>2, <2>1
<1>4. /\ Len(msgs) + 1 \in 1..Len(M) /\ pos = M[Len(msgs) + 1].start
      /\ HeaderLens = {LenOf(M[Len(msgs) + 1])}
      /\ BadHeader(LenOf(M[Len(msgs) + 1])) <=> ~Whole(M[Len(msgs) + 1])
  BY <1>1, <1>3, NextHeader
<1>5. h = LenOf(M[Len(msgs) + 1])
  BY <1>4
<1> QED BY <1>3, <1>4, <1>5

\* The arithmetic of cutting a reply of z bytes at p, whose aligned length is a: the
\* slice of d bytes is no shorter than the payload, and leaves a buffer of B bytes only
\* where the workaround takes the length for one that does not count the header.
LEMMA SliceArithmetic ==
    ASSUME NEW B \in Nat, NEW nr \in Nat, NEW p \in Nat, NEW z \in Nat, NEW a \in Nat,
           NEW l \in {"Parse", "Raw", "Reply", "Status"}, NEW d, NEW r, NEW h,
           nr <= B, p + 16 + z <= nr, r = nr - p, h = 16 + z, a >= h,
           d = IF l = "Reply" \/ r - 16 = h THEN r - 16
               ELSE IF l # "Raw" /\ a = h THEN h ELSE h - 16
    PROVE  /\ d \in Nat /\ d >= z /\ (l = "Parse" => d <= a)
           /\ ~(p + 16 + d <= B) => l \in {"Parse", "Status"} /\ a = h /\ p + a + 16 > B
           /\ l = "Parse" /\ a = h /\ p + a + 16 > B => ~(p + 16 + d <= B)
           /\ ~(a <= r) <=> nr < p + a
<1>1. CASE l = "Reply" \/ r - 16 = h
  <2>1. d = nr - p - 16
    BY <1>1
  <2>2. l # "Reply" => nr - p - 16 = 16 + z
    BY <1>1
  <2> QED BY <2>1, <2>2
<1>2. CASE ~(l = "Reply" \/ r - 16 = h) /\ l # "Raw" /\ a = h
  <2>1. d = 16 + z
    BY <1>2
  <2> QED BY <1>2, <2>1
<1>3. CASE ~(l = "Reply" \/ r - 16 = h) /\ ~(l # "Raw" /\ a = h)
  <2>1. d = z
    BY <1>3, SMTT(30)
  <2> QED BY <1>3, <2>1
<1> QED BY <1>1, <1>2, <1>3

\* The slice cut off holds the payload, and one of ParseAuditNetlinkMessage ends before
\* the next message does. It, or what is skipped, is out of range for a message off the
\* end only, and for those always in the loops that go on.
LEMMA DataFacts ==
    ASSUME FrameInv, NEW i \in 1..Len(M), pos = M[i].start, Whole(M[i])
    PROVE  LET m == M[i]
               h == LenOf(m)
           IN /\ DataLen(h) \in Nat /\ DataLen(h) >= m.size
              /\ loop = "Parse" => DataLen(h) <= Extent(m)
              /\ nlmAlignOf(h) \in Nat
              /\ m.kind = "reply" => nlmAlignOf(h) = Extent(m)
              /\ ~DataInRange(h) \/ ~SkipInRange(h) => OffTheEnd(m)
              /\ loop \in Collectors /\ DataInRange(h) /\ SkipInRange(h) => ~OffTheEnd(m)
<1> USE SizeFacts
<1> DEFINE m == M[i]
           h == LenOf(m)
           z == m.size
           e == Extent(m)
           Goal == /\ DataLen(h) \in Nat /\ DataLen(h) >= z
                   /\ loop = "Parse" => DataLen(h) <= e
                   /\ nlmAlignOf(h) \in Nat
                   /\ m.kind = "reply" => nlmAlignOf(h) = e
                   /\ ~DataInRange(h) \/ ~SkipInRange(h) => OffTheEnd(m)
                   /\ loop \in Collectors /\ DataInRange(h) /\ SkipInRange(h) => ~OffTheEnd(m)
<1> SUFFICES Goal
  OBVIOUS
<1>1. TypeOK /\ dgram.nr \in Nat /\ dgram.nr <= BufLen /\ M # <<>> /\ loop \in Loops
  <2>1. TypeOK
    BY DEF FrameInv
  <2> QED BY <2>1, OrderFacts DEF TypeOK
<1>2. /\ m.kind \in {"event", "reply"} /\ z \in Nat /\ pos \in Nat
      /\ h \in Nat /\ h >= 16 /\ e \in Nat /\ e >= 16 + z
  BY <1>1, MessageFacts
<1>3. rest = dgram.nr - pos /\ pos + 16 + z <= dgram.nr
  BY DEF rest, Whole
<1>4. nlmAlignOf(h) \in Nat /\ nlmAlignOf(h) >= h /\ nlmAlignOf(h) < h + 4
  BY <1>2, AlignFacts, Zenon
<1>5. /\ DataInRange(h) <=> pos + 16 + DataLen(h) <= BufLen
      /\ SkipInRange(h) <=> nlmAlignOf(h) <= rest
  BY DEF DataInRange, SkipInRange
<1>6. CASE m.kind = "reply"
  <2>1. h = 16 + z /\ e = nlmAlignOf(h)
    BY <1>6 DEF LenOf, Extent
  <2>2. nlmAlignOf(h) = h <=> nlmAlignOf(z) = z
    BY <1>2, <2>1, AlignHeader, Zenon
  <2>3. OffTheEnd(m) <=> \/ dgram.nr < pos + e
                         \/ /\ loop \in {"Parse", "Status"} /\ nlmAlignOf(z) = z
                            /\ pos + e + 16 > BufLen
    BY <1>6 DEF OffTheEnd
  <2>4. DataLen(h) = IF loop = "Reply" \/ rest - 16 = h THEN rest - 16
                     ELSE IF loop # "Raw" /\ nlmAlignOf(h) = h THEN h ELSE h - 16
    BY DEF DataLen
  <2>5. loop \in {"Parse", "Raw", "Reply", "Status"}
    BY <1>1 DEF Loops, Collectors, Waiters
  <2> HIDE DEF h, e, z, m
  <2>6. BufLen \in Nat
    OBVIOUS
  <2>7. /\ DataLen(h) \in Nat /\ DataLen(h) >= z /\ (loop = "Parse" => DataLen(h) <= nlmAlignOf(h))
        /\ ~(pos + 16 + DataLen(h) <= BufLen) =>
             loop \in {"Parse", "Status"} /\ nlmAlignOf(h) = h /\ pos + nlmAlignOf(h) + 16 > BufLen
        /\ loop = "Parse" /\ nlmAlignOf(h) = h /\ pos + nlmAlignOf(h) + 16 > BufLen =>
             ~(pos + 16 + DataLen(h) <= BufLen)
        /\ ~(nlmAlignOf(h) <= rest) <=> dgram.nr < pos + nlmAlignOf(h)
    <3> DEFINE nr == dgram.nr
               d == DataLen(h)
               a == nlmAlignOf(h)
               r == rest
    <3>1. /\ BufLen \in Nat /\ nr \in Nat /\ pos \in Nat /\ z \in Nat /\ a \in Nat
          /\ nr <= BufLen /\ pos + 16 + z <= nr /\ r = nr - pos /\ h = 16 + z /\ a >= h
      BY <1>1, <1>2, <1>3, <1>4, <2>1, <2>6, Zenon
    <3>2. d = IF loop = "Reply" \/ r - 16 = h THEN r - 16
              ELSE IF loop # "Raw" /\ a = h THEN h ELSE h - 16
      BY <2>4
    <3> HIDE DEF nr, d, a, r
    <3>3. /\ d \in Nat /\ d >= z /\ (loop = "Parse" => d <= a)
          /\ ~(pos + 16 + d <= BufLen) => loop \in {"Parse", "Status"} /\ a = h /\ pos + a + 16 > BufLen
          /\ loop = "Parse" /\ a = h /\ pos + a + 16 > BufLen => ~(pos + 16 + d <= BufLen)
          /\ ~(a <= r) <=> nr < pos + a
      BY ONLY <2>5, <3>1, <3>2, SliceArithmetic
    <3> QED BY <3>3 DEF nr, d, a, r
  <2>8. ~SkipInRange(h) <=> dgram.nr < pos + e
    BY <1>3, <1>5, <2>1, <2>7, Zenon
  <2>9. /\ ~DataInRange(h) => loop \in {"Parse", "Status"} /\ nlmAlignOf(h) = h /\ pos + e + 16 > BufLen
        /\ loop = "Parse" /\ nlmAlignOf(h) = h /\ pos + e + 16 > BufLen => ~DataInRange(h)
    BY <1>5, <2>1, <2>7, Zenon
  <2>10. loop \in Collectors /\ loop \in {"Parse", "Status"} => loop = "Parse"
    BY DEF Collectors
  <2>11. /\ loop = "Parse" => DataLen(h) <= e
         /\ nlmAlignOf(h) = e
    BY <2>1, <2>7, Zenon
  <2> QED BY <1>4, <2>2, <2>3, <2>7, <2>8, <2>9, <2>10, <2>11, Zenon
<1>7. CASE m.kind = "event"
  <2>1. h = z /\ e = 16 + z /\ ~OffTheEnd(m)
    BY <1>7 DEF LenOf, Extent, OffTheEnd
  <2>2. pos = 0 /\ dgram.nr = 16 + z
    <3>1. i = 1
      BY <1>1, <1>7, MessageFacts
    <3> QED BY <1>1, <1>7, <3>1, OrderFacts, ReceivedFacts
  <2> HIDE DEF h, e, z, m
  <2>3. DataLen(h) = h
    <3>1. rest - 16 = h
      BY <1>2, <1>3, <2>1, <2>2
    <3> QED BY <3>1 DEF DataLen
  <2>4. DataInRange(h) /\ SkipInRange(h)
    BY <1>1, <1>2, <1>3, <1>4, <1>5, <2>1, <2>2, <2>3
  <2>5. DataLen(h) \in Nat /\ DataLen(h) >= z /\ DataLen(h) <= e
    BY <1>2, <2>1, <2>3
  <2> QED BY <1>4, <1>7, <2>1, <2>4, <2>5
<1> QED BY <1>2, <1>6, <1>7

\* One more slice is delivered, at the place of its message.
LEMMA DeliversCut ==
    ASSUME FrameInv, AtHeader, NEW h \in HeaderLens, ~BadHeader(h), Delivers(h),
           UNCHANGED <<loop, dgram>>,
           loop \in Collectors => DataInRange(h) /\ SkipInRange(h)
    PROVE  /\ Cut' /\ msgs' \in Seq([at: Nat, len: Nat])
           /\ Len(msgs') = Len(msgs) + 1
<1> USE SizeFacts
<1> DEFINE i == Len(msgs) + 1
           m == M[i]
           new == [at |-> pos + 16, len |-> DataLen(h)]
<1>1. TypeOK /\ Cut /\ Len(msgs) \in Nat /\ Len(M) \in Nat /\ pos \in Nat
  BY OrderFacts, SliceFacts DEF FrameInv, TypeOK
<1>2. i \in 1..Len(M) /\ h = LenOf(m) /\ Whole(m) /\ pos = m.start
  BY AtMessage
<1>3. /\ DataLen(h) \in Nat /\ DataLen(h) >= m.size
      /\ loop = "Parse" => DataLen(h) <= Extent(m)
      /\ loop \in Collectors => ~OffTheEnd(m)
  BY <1>2, DataFacts
<1>4. msgs' = Append(msgs, new)
  BY DEF Delivers
<1>5. /\ msgs' \in Seq([at: Nat, len: Nat])
      /\ Len(msgs') = i /\ msgs'[i] = new
      /\ \A k \in 1..Len(msgs) : msgs'[k] = msgs[k]
  <2> DEFINE R == [at: Nat, len: Nat]
  <2>1. new \in R
    BY <1>1, <1>3
  <2>2. msgs \in Seq(R)
    BY <1>1 DEF TypeOK
  <2> HIDE DEF R, new
  <2>3. /\ msgs' \in Seq(R) /\ Len(msgs') = Len(msgs) + 1 /\ msgs'[Len(msgs) + 1] = new
        /\ \A k \in 1..Len(msgs) : msgs'[k] = msgs[k]
    BY <1>4, <2>1, <2>2, AppendProperties
  <2> QED BY <2>3 DEF R
<1> DEFINE Good(k) == /\ msgs'[k].at = M[k].start + 16
                      /\ msgs'[k].len >= M[k].size
                      /\ loop = "Parse" => msgs'[k].len <= Extent(M[k])
                      /\ Whole(M[k])
                      /\ loop \in Collectors => ~OffTheEnd(M[k])
<1>6. ASSUME NEW k \in 1..Len(msgs')
      PROVE  Good(k)
  <2>1. CASE k = i
    <3>1. msgs'[k].at = pos + 16 /\ msgs'[k].len = DataLen(h)
      BY <1>5, <2>1
    <3> QED BY <1>2, <1>3, <2>1, <3>1
  <2>2. CASE k # i
    <3>1. k \in 1..Len(msgs)
      BY <1>1, <1>5, <2>2
    <3>2. msgs'[k] = msgs[k]
      BY <1>5, <3>1, SMTT(30)
    <3> QED BY <1>1, <3>1, <3>2 DEF Cut
  <2> QED BY <2>1, <2>2
<1>7. Len(msgs') <= Len(M)
  BY <1>2, <1>5
<1>8. Cut'
  BY <1>6, <1>7, SMTT(30) DEF Cut, M, Whole, OffTheEnd
<1> QED BY <1>5, <1>8

\* One more message is cut off, and the next one starts behind it.
LEMMA ParseOneInv ==
    ASSUME FrameInv, ParseOne
    PROVE  FrameInv'
<1> USE SizeFacts
<1> DEFINE i == Len(msgs) + 1
           m == M[i]
<1>1. /\ AtHeader /\ GoesOn /\ phase = "parse" /\ phase' = "parse"
      /\ UNCHANGED <<loop, rb, dgram, next, err>>
  BY DEF ParseOne, AtHeader
<1>2. PICK h \in HeaderLens :
        /\ ~BadHeader(h) /\ DataInRange(h) /\ SkipInRange(h)
        /\ Delivers(h) /\ Advance(h)
  BY DEF ParseOne
<1>3. /\ TypeOK /\ Position /\ Held /\ Len(msgs) \in Nat /\ Len(M) \in Nat
      /\ pos \in Nat /\ dgram.nr \in Nat
  BY <1>1, OrderFacts, SliceFacts DEF FrameInv, TypeOK
<1>4. Cut' /\ msgs' \in Seq([at: Nat, len: Nat]) /\ Len(msgs') = i
  BY <1>1, <1>2, DeliversCut
<1>5. i \in 1..Len(M) /\ h = LenOf(m) /\ Whole(m) /\ pos = m.start
  BY <1>1, <1>2, AtMessage
<1>6. nlmAlignOf(h) \in Nat /\ (m.kind = "reply" => nlmAlignOf(h) = Extent(m))
  BY <1>5, DataFacts
<1>7. pos' = pos + nlmAlignOf(h)
  BY <1>2 DEF Advance
<1>8. pos' \in Nat /\ pos' <= dgram.nr
  <2>1. nlmAlignOf(h) <= dgram.nr - pos
    BY <1>2 DEF SkipInRange, rest
  <2> HIDE DEF m, i
  <2> QED BY <1>3, <1>6, <1>7, <2>1
<1>9. TypeOK'
  BY <1>1, <1>3, <1>4, <1>8 DEF TypeOK
<1>10. Held'
  BY <1>1, <1>3 DEF Held, M
<1>11. Position'
  <2>1. M # <<>> /\ next' = 1 /\ err' = "nil"
    BY <1>1, <1>3 DEF Position
  <2>2. ASSUME i < Len(M)
        PROVE  pos' = M[i + 1].start
    <3>1. m.kind = "reply"
      BY <1>3, <1>5, <2>2, FollowedByMessage
    <3>2. M[i + 1].start = M[i].start + Extent(M[i])
      BY <1>3, <1>5, <2>2, OrderFacts
    <3>3. nlmAlignOf(h) = Extent(m)
      BY <1>6, <3>1
    <3> QED BY <1>5, <1>7, <3>2, <3>3
  <2>3. i = Len(M) => pos' = M[Len(M)].start + nlmAlignOf(LenOf(M[Len(M)]))
    BY <1>5, <1>7
  <2>4. M[1].kind = "event" => loop' \in Collectors
    BY <1>1, <1>3 DEF GoesOn, M, TypeOK, Loops
  <2>5. M' = M /\ dgram' = dgram /\ Len(msgs') = i
    BY <1>1, <1>4 DEF M
  <2> HIDE DEF i, m
  <2> QED BY <1>8, <2>1, <2>2, <2>3, <2>4, <2>5 DEF Position
<1> QED BY <1>1, <1>4, <1>9, <1>10, <1>11 DEF FrameInv, AllDelivered

\* auditGetReply and AuditIsEnabled return with one more slice.
LEMMA AnswerInv ==
    ASSUME FrameInv, Answer
    PROVE  FrameInv'
<1>1. /\ AtHeader /\ loop \in Waiters /\ phase' = "use"
      /\ UNCHANGED <<loop, rb, dgram, pos, next, err>>
  BY DEF Answer
<1>2. PICK h \in HeaderLens : ~BadHeader(h) /\ Delivers(h)
  BY DEF Answer
<1>3. loop \notin Collectors
  BY <1>1 DEF Collectors, Waiters
<1>4. Cut' /\ msgs' \in Seq([at: Nat, len: Nat])
  BY <1>1, <1>2, <1>3, DeliversCut
<1>5. TypeOK' /\ Held'
  BY <1>1, <1>4 DEF FrameInv, TypeOK, Held, M
<1> QED BY <1>1, <1>3, <1>4, <1>5 DEF FrameInv, AllDelivered

\* A panic happens at a message that is off the end.
LEMMA PanicInv ==
    ASSUME FrameInv, Panic
    PROVE  FrameInv'
<1>1. /\ AtHeader /\ phase' = "panic"
      /\ UNCHANGED <<loop, rb, dgram, pos, msgs, next, err>>
  BY DEF Panic
<1>2. PICK h \in HeaderLens : ~BadHeader(h) /\ (~DataInRange(h) \/ ~SkipInRange(h))
  BY DEF Panic
<1>3. PICK i \in 1..Len(M) : h = LenOf(M[i]) /\ Whole(M[i]) /\ pos = M[i].start
  BY <1>1, <1>2, AtMessage, SMTT(30)
<1>4. OffTheEnd(M[i])
  BY <1>2, <1>3, DataFacts, SMTT(30)
<1>5. Stuck'
  BY <1>1, <1>3, <1>4, SMTT(30) DEF Stuck, M, OffTheEnd, Whole
<1>6. TypeOK' /\ Held' /\ Cut'
  BY <1>1, Zenon DEF FrameInv, TypeOK, Held, M, Cut, Whole, OffTheEnd
<1> QED BY <1>1, <1>5, <1>6 DEF FrameInv, AllDelivered

\* What Use and SendBack have in common.
LEMMA NextMessage ==
    ASSUME FrameInv, next \in 1..Len(msgs), next' = next + 1, phase' = phase, phase = "use",
           UNCHANGED <<loop, dgram, pos, msgs, err>>,
           rb' \in [0..(BufLen - 1) -> SUBSET Nat], Held'
    PROVE  FrameInv'
<1>1. TypeOK'
  BY DEF FrameInv, TypeOK
<1>2. Cut'
  BY DEF FrameInv, Cut, M, Whole, OffTheEnd
<1>3. AllDelivered'
  BY DEF FrameInv, AllDelivered, Whole
<1> QED BY <1>1, <1>2, <1>3 DEF FrameInv

\* Using a message changes no cell of the buffer.
LEMMA UseInv ==
    ASSUME FrameInv, Use
    PROVE  FrameInv'
<1>1. next \in 1..Len(msgs) /\ rb \in [0..(BufLen - 1) -> SUBSET Nat] /\ next \in Nat
  BY SliceFacts DEF Use, FrameInv, TypeOK
<1>2. Held'
  <2>1. Len(M) \in Nat
    BY OrderFacts DEF FrameInv
  <2>2. \A i \in (next + 1)..Len(M) : i \in next..Len(M)
    BY <1>1, <2>1
  <2> QED BY <2>2 DEF Use, FrameInv, Held, M
<1> QED BY <1>1, <1>2, NextMessage DEF Use

\* The request lies before the payload of every message still to be used.
LEMMA SendBackInv ==
    ASSUME FrameInv, SendBack
    PROVE  FrameInv'
<1> USE SizeFacts
<1>1. /\ TypeOK /\ Cut /\ Held
      /\ Len(msgs) \in Nat /\ Len(M) \in Nat /\ next \in Nat /\ next \in 1..Len(msgs)
      /\ next \in 1..Len(M)
  <2>1. TypeOK /\ Cut /\ Held
    BY DEF FrameInv
  <2>2. Len(msgs) \in Nat /\ Len(M) \in Nat /\ next \in Nat \ {0}
    BY <2>1, SliceFacts, OrderFacts DEF TypeOK
  <2>3. next <= Len(msgs) /\ Len(msgs) <= Len(M)
    BY <2>1 DEF SendBack, Cut
  <2> QED BY <2>1, <2>2, <2>3
<1> DEFINE size == 16 + msgs[next].len
           written == IF size <= BufLen THEN size ELSE 16
<1>2. rb' = [c \in 0..(BufLen - 1) |-> IF c < written THEN {} ELSE rb[c]]
  BY DEF SendBack
<1>3. /\ msgs[next].len \in Nat /\ msgs[next].len <= Extent(M[next])
  BY <1>1, SliceFacts DEF Cut, SendBack
<1>4. /\ written \in Nat /\ written <= 16 + Extent(M[next])
      /\ M[next].start \in Nat /\ Extent(M[next]) \in Nat
  <2>1. M[next].start \in Nat /\ Extent(M[next]) \in Nat
    BY <1>1, MessageFacts
  <2> QED BY <1>3, <2>1
<1> HIDE DEF written
<1>5. rb' \in [0..(BufLen - 1) -> SUBSET Nat]
  BY <1>1, <1>2 DEF TypeOK
<1>6. Held'
  <2>1. /\ M' = M /\ next' = next + 1
    BY DEF SendBack, M
  <2> SUFFICES ASSUME NEW i \in (next + 1)..Len(M), NEW c \in Payload(M[i]), c < BufLen
               PROVE  i \in rb'[c]
    BY <2>1 DEF Held
  <2>2. i \in 1..Len(M) /\ i \in next..Len(M)
    BY <1>1
  <2>3. M[next].start + Extent(M[next]) <= M[i].start
    BY <1>1, OrderFacts
  <2> DEFINE a == M[i].start
             z == M[i].size
             s == M[next].start
             x == Extent(M[next])
  <2>4. a \in Nat /\ z \in Nat
    BY <1>1, <2>2, MessageFacts
  <2>5. c \in (a + 16)..(a + 16 + z - 1)
    BY DEF Payload
  <2>6. s + x <= a /\ s \in Nat /\ x \in Nat /\ written \in Nat /\ written <= 16 + x
    BY <1>4, <2>3
  <2> HIDE DEF a, z, s, x
  <2>7. c \in 0..(BufLen - 1) /\ ~(c < written)
    <3>1. c \in 0..(BufLen - 1) /\ c >= a + 16
      BY <2>4, <2>5
    <3>2. a + 16 >= written
      BY <2>4, <2>6
    <3> QED BY <2>4, <2>6, <3>1, <3>2
  <2>8. i \in rb[c]
    BY <1>1, <2>2 DEF Held
  <2> QED BY <1>2, <2>7, <2>8
<1>7. /\ next' = next + 1 /\ phase' = phase /\ phase = "use"
      /\ UNCHANGED <<loop, dgram, pos, msgs, err>>
  BY DEF SendBack
<1> QED BY <1>1, <1>5, <1>6, <1>7, NextMessage

\* Between calls there is no datagram.
LEMMA NothingHeld ==
    ASSUME loop = "Parse", phase = "idle", rb = [c \in 0..(BufLen - 1) |-> {}],
           dgram = NoDatagram, pos = 0, msgs = <<>>, next = 1, err = "nil"
    PROVE  FrameInv
<1> USE SizeFacts
<1>1. M = <<>> /\ Len(M) = 0 /\ Len(msgs) = 0 /\ dgram.nr = 0
  BY DEF M, NoDatagram
<1>2. WellFormed(dgram)
  <2>1. dgram.messages = <<>> /\ dgram.nr = 0
    BY DEF NoDatagram
  <2>2. <<>> \in Seq([kind: {"event", "reply"}, size: Nat, start: Nat]) /\ DOMAIN <<>> = {}
    OBVIOUS
  <2> QED BY <2>1, <2>2 DEF WellFormed
<1>3. TypeOK
  BY <1>2 DEF TypeOK, Loops, Collectors
<1> QED BY <1>1, <1>3 DEF FrameInv, Cut, Held, AllDelivered

\* When the messages are used nothing is claimed of the buffer.
LEMMA DoneInv ==
    ASSUME FrameInv, Done
    PROVE  FrameInv'
<1> USE SizeFacts
<1>1. M' = <<>> /\ Len(M') = 0 /\ Len(msgs') = 0
  BY DEF Done, M, NoDatagram
<1>2. WellFormed(NoDatagram)
  <2>1. NoDatagram.messages = <<>> /\ NoDatagram.nr = 0
    BY DEF NoDatagram
  <2>2. <<>> \in Seq([kind: {"event", "reply"}, size: Nat, start: Nat]) /\ DOMAIN <<>> = {}
    OBVIOUS
  <2> QED BY <2>1, <2>2 DEF WellFormed
<1>3. TypeOK'
  BY <1>2 DEF TypeOK, Loops, Collectors, Done
<1> QED BY <1>1, <1>3 DEF FrameInv, Cut, Held, Done, AllDelivered

(***************************************************************************)
(* FrameInv is an invariant: the cutting loops, and the requests written   *)
(* over the buffer they cut, keep it.                                      *)
(***************************************************************************)
THEOREM FramingInvariant == Spec => []FrameInv
<1>1. Init => FrameInv
  BY NothingHeld DEF Init
<1>2. FrameInv /\ [Next]_vars => FrameInv'
  <2> SUFFICES ASSUME FrameInv, [Next]_vars
               PROVE  FrameInv'
    BY PTL
  <2>1. CASE UNCHANGED vars
    BY <2>1, SMTT(30) DEF vars, FrameInv, TypeOK, Cut, Held, Position, Stuck, AllDelivered, M, Whole, OffTheEnd
  <2>2. CASE Next
    BY <2>2, RecvfromInv, ParseEndsInv, ParseOneInv, AnswerInv, PanicInv, UseInv,
       SendBackInv, DoneInv DEF Next
  <2> QED BY <2>1, <2>2
<1> QED BY <1>1, <1>2, PTL DEF Spec

(***************************************************************************)
(* The loops panic exactly at the replies that are off the end: received   *)
(* without their padding, or of an aligned length with less than a header  *)
(* of buffer behind them. Every other datagram is cut within range, for    *)
(* every buffer length, padded or not, cut off by Recvfrom or not.         *)
(***************************************************************************)
THEOREM PanicsAreOffTheEnd == Spec => []PanicsExactlyOffTheEnd
<1>1. FrameInv => PanicsExactlyOffTheEnd
  <2> SUFFICES ASSUME FrameInv PROVE PanicsExactlyOffTheEnd
    OBVIOUS
  <2>1. TypeOK /\ DOMAIN M = 1..Len(M) /\ Len(M) \in Nat /\ dgram.nr \in Nat
    BY OrderFacts DEF FrameInv
  <2>2. phase = "panic" => \E i \in DOMAIN M : M[i].start = pos /\ OffTheEnd(M[i])
    BY <2>1 DEF FrameInv, Stuck
  <2>3. ASSUME phase = "use", loop \in Collectors, NEW i \in DOMAIN M
        PROVE  ~OffTheEnd(M[i])
    <3>1. dgram.nr >= 16
      BY <2>1, <2>3, ReceivedFacts
    <3>2. i <= Len(msgs) <=> Whole(M[i])
      BY <2>3, <3>1 DEF FrameInv, AllDelivered, M
    <3>3. CASE i <= Len(msgs)
      <4>1. i \in 1..Len(msgs)
        BY <2>1, <3>3, SliceFacts
      <4> QED BY <2>3, <4>1 DEF FrameInv, Cut
    <3>4. CASE ~Whole(M[i])
      BY <3>4 DEF OffTheEnd
    <3> QED BY <3>2, <3>3, <3>4, SMTT(30)
  <2> QED BY <2>2, <2>3 DEF PanicsExactlyOffTheEnd, M
<1> QED BY <1>1, FramingInvariant, PTL

(***************************************************************************)
(* A slice of s.rb holds the payload of its message until its caller has   *)
(* used it, although DeleteAllRules writes its requests over s.rb.         *)
(***************************************************************************)
THEOREM SlicesHoldPayloads == Spec => []PayloadIntact
<1>1. FrameInv => PayloadIntact
  <2> SUFFICES ASSUME FrameInv, NEW i \in next..Len(msgs)
               PROVE  /\ i \in DOMAIN dgram.messages
                      /\ msgs[i].at = dgram.messages[i].start + 16
                      /\ msgs[i].len >= dgram.messages[i].size
                      /\ \A c \in Payload(dgram.messages[i]) : i \in rb[c]
    BY SMTT(30) DEF PayloadIntact
  <2>1. /\ Len(msgs) \in Nat /\ Len(M) \in Nat /\ next \in Nat \ {0} /\ Len(msgs) <= Len(M)
        /\ DOMAIN M = 1..Len(M)
    BY SliceFacts, OrderFacts, SMTT(30) DEF FrameInv, TypeOK, Cut
  <2>2. i \in 1..Len(msgs) /\ i \in next..Len(M) /\ i \in DOMAIN M /\ i \in 1..Len(M)
    BY <2>1
  <2>3. Whole(M[i]) /\ msgs[i].at = M[i].start + 16 /\ msgs[i].len >= M[i].size
    BY <2>2 DEF FrameInv, Cut
  <2>4. ASSUME NEW c \in Payload(M[i])
        PROVE  c < BufLen
    <3> DEFINE a == M[i].start
               z == M[i].size
    <3>1. a \in Nat /\ z \in Nat /\ dgram.nr \in Nat /\ dgram.nr <= BufLen /\ BufLen \in Nat
      BY <2>2, MessageFacts, OrderFacts, SizeFacts, SMTT(30) DEF FrameInv
    <3>2. a + 16 + z <= dgram.nr /\ c \in (a + 16)..(a + 16 + z - 1)
      BY <2>3 DEF Whole, Payload
    <3> HIDE DEF a, z
    <3> QED BY <3>1, <3>2
  <2> QED BY <2>2, <2>3, <2>4 DEF FrameInv, Held, M
<1> QED BY <1>1, FramingInvariant, PTL

(***************************************************************************)
(* ParseAuditNetlinkMessage and the raw loop deliver each message of the   *)
(* datagram that was received whole and nothing else, and the former       *)
(* reports an error exactly when it delivers nothing.                      *)
(***************************************************************************)
THEOREM EveryMessageDelivered == Spec => []AllDelivered
<1>1. FrameInv => AllDelivered
  BY DEF FrameInv
<1> QED BY <1>1, FramingInvariant, PTL
=============================================================================
