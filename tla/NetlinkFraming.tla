--------------------------- MODULE NetlinkFraming ---------------------------
(***************************************************************************)
(* The framing of netlink messages in the receive buffer of a connection   *)
(* (libaudit.go, audit_events.go): Recvfrom fills s.rb, one of four loops  *)
(* cuts it into messages, and what they deliver are slices of s.rb, not    *)
(* copies. Send writes its request into the same s.rb, and DeleteAllRules  *)
(* does so while it still holds messages of the datagram it is reading.    *)
(*                                                                         *)
(* Contents are abstracted to their origin: rb[c] is the set of messages   *)
(* of the present datagram whose payload has a byte in cell c.             *)
(*                                                                         *)
(* The kernel is external. A reply's header holds its length with the      *)
(* header, and the next message starts at the alignment; the last one may  *)
(* come without its padding. An event's header holds the length of its     *)
(* payload alone ("sometimes kernel reponse have length of header ==       *)
(* length of data appended", libaudit.go:204); an event comes alone in its *)
(* datagram and has at most MAX_AUDIT_MESSAGE_LENGTH bytes. Replies have   *)
(* no such limit: Recvfrom cuts a longer datagram off at the buffer's end. *)
(***************************************************************************)
EXTENDS Integers, Sequences

CONSTANTS
    BufLen,     \* len(s.rb), NLMSG_HDRLEN + MAX_AUDIT_MESSAGE_LENGTH in the code
    Datagrams,  \* the datagrams the kernel may send
    TextLen     \* four characters of an event's text, read as a length

NLMSG_HDRLEN == 16
NLMSG_ALIGNTO == 4
nlmAlignOf(n) == ((n + NLMSG_ALIGNTO - 1) \div NLMSG_ALIGNTO) * NLMSG_ALIGNTO

LenOf(m) == IF m.kind = "event" THEN m.size ELSE NLMSG_HDRLEN + m.size
Extent(m) == IF m.kind = "event" THEN NLMSG_HDRLEN + m.size ELSE nlmAlignOf(NLMSG_HDRLEN + m.size)
Payload(m) == (m.start + NLMSG_HDRLEN)..(m.start + NLMSG_HDRLEN + m.size - 1)

\* What Recvfrom returns for a datagram of n bytes.
Received(n) == IF n <= BufLen THEN n ELSE BufLen

\* Messages follow one another from the start of the datagram, of which nr bytes are
\* received; a datagram without messages is too short for a header.
WellFormed(d) ==
    /\ d.messages \in Seq([kind: {"event", "reply"}, size: Nat, start: Nat])
    /\ d.nr \in Nat /\ d.nr <= BufLen
    /\ d.messages = <<>> => d.nr < NLMSG_HDRLEN
    /\ \A i \in DOMAIN d.messages :
         LET m == d.messages[i]
         IN /\ m.kind = "event" => /\ Len(d.messages) = 1
                                  /\ m.size >= NLMSG_HDRLEN /\ NLMSG_HDRLEN + m.size <= BufLen
            /\ i = 1 => m.start = 0
            /\ i = Len(d.messages) => \/ d.nr = Received(m.start + Extent(m))
                                     \/ d.nr = Received(m.start + NLMSG_HDRLEN + m.size)
            /\ i < Len(d.messages) => d.messages[i + 1].start = m.start + Extent(m)
            /\ \A j \in (i + 1)..Len(d.messages) : m.start + Extent(m) <= d.messages[j].start

ASSUME FramingAssumption ==
    /\ BufLen \in Nat /\ BufLen >= 2 * NLMSG_HDRLEN
    /\ \A d \in Datagrams : WellFormed(d)
    /\ TextLen \in Nat /\ TextLen > BufLen

VARIABLES
    loop,   \* the loop that reads, one of Loops
    phase,  \* "idle", "parse" (cutting the datagram), "use" (of its messages), "panic"
    rb,     \* s.rb
    dgram,  \* the datagram received last
    pos,    \* where b starts in rb; len(b) is dgram.nr - pos
    msgs,   \* the slices of rb delivered: [at, len]
    next,   \* in use: the first message not yet used
    err     \* the error returned: "nil" or "error"

vars == <<loop, phase, rb, dgram, pos, msgs, next, err>>

\* ParseAuditNetlinkMessage and the loop of GetRawAuditMessages go through all of a
\* datagram; auditGetReply and AuditIsEnabled return at the message they wait for.
Collectors == {"Parse", "Raw"}
Waiters == {"Reply", "Status"}
Loops == Collectors \cup Waiters
-----------------------------------------------------------------------------
\* Receive and ReceiveNoParse. A datagram too short for a header is reported with
\* errors.Wrap of a nil error, which is nil.
Recvfrom(l, d) ==
    /\ phase = "idle"
    /\ loop' = l
    /\ dgram' = d
    /\ rb' = [c \in 0..(BufLen - 1) |-> {i \in DOMAIN d.messages : c \in Payload(d.messages[i])}]
    /\ pos' = 0
    /\ msgs' = <<>>
    /\ next' = 1
    /\ err' = "nil"
    /\ phase' = IF d.nr < NLMSG_HDRLEN THEN "use" ELSE "parse"

\* len(b)
rest == dgram.nr - pos

\* h.Len of the header that b starts with: past the end of an event it is text.
HeaderLens ==
    LET here == {i \in DOMAIN dgram.messages : dgram.messages[i].start = pos}
    IN IF here = {} THEN {TextLen} ELSE {LenOf(dgram.messages[i]) : i \in here}

\* Mutated form of BadHeader: the length is not compared with what was received.
BadHeaderShort(h) == h < NLMSG_HDRLEN

BadHeader(h) == h < NLMSG_HDRLEN \/ h > rest

\* Mutated forms of DataLen: no workaround; the header is taken off twice, as it would be
\* by the raw loop if it did so after it has moved past the header.
DataNoWorkaround(h) == h - NLMSG_HDRLEN
DataTwiceStripped(h) == h - 2 * NLMSG_HDRLEN

\* The length of the data, with the workaround for a header that does not count
\* itself. The raw loop has already moved b past the header, and compares what the
\* alignment leaves without it, which never equals h. auditGetReply does not cut dbuf.
DataLen(h) ==
    IF loop = "Reply" \/ rest - NLMSG_HDRLEN = h THEN rest - NLMSG_HDRLEN
    ELSE IF loop # "Raw" /\ nlmAlignOf(h) = h THEN h ELSE h - NLMSG_HDRLEN

\* The slice dbuf[:n] may reach to the capacity of dbuf, that is to the end of rb,
\* b[dlen:] to the end of b.
DataInRange(h) == pos + NLMSG_HDRLEN + DataLen(h) <= BufLen
SkipInRange(h) == nlmAlignOf(h) <= rest

Stop(e) ==
    /\ phase' = "use"
    /\ err' = e
    /\ UNCHANGED <<loop, rb, dgram, pos, msgs, next>>

\* The loop condition fails, or the header does not fit: ParseAuditNetlinkMessage
\* drops the error if it has a message already, the raw loop breaks, auditGetReply
\* and AuditIsEnabled return it.
ParseEnds ==
    /\ phase = "parse"
    /\ \/ rest < NLMSG_HDRLEN /\ Stop("nil")
       \/ /\ rest >= NLMSG_HDRLEN
          /\ \E h \in HeaderLens :
               /\ BadHeader(h)
               /\ Stop(IF loop = "Raw" \/ (loop = "Parse" /\ msgs # <<>>) THEN "nil" ELSE "error")

\* Mutated form of Advance: the unaligned length is skipped.
AdvanceUnaligned(h) == pos' = pos + h

Advance(h) == pos' = pos + nlmAlignOf(h)

\* The loop condition holds: b starts with a header.
AtHeader == phase = "parse" /\ rest >= NLMSG_HDRLEN

Delivers(h) == msgs' = Append(msgs, [at |-> pos + NLMSG_HDRLEN, len |-> DataLen(h)])

\* A loop goes on behind a message, but auditGetReply and AuditIsEnabled not behind an
\* event, whose sequence number is never the awaited one.
GoesOn == ~(loop \in Waiters /\ dgram.messages[1].kind = "event")

\* One message is cut off, and the loop goes on with the next.
ParseOne ==
    /\ AtHeader /\ GoesOn
    /\ \E h \in HeaderLens :
         /\ ~BadHeader(h) /\ DataInRange(h) /\ SkipInRange(h)
         /\ Delivers(h)
         /\ Advance(h)
    /\ UNCHANGED <<loop, phase, rb, dgram, next, err>>

\* auditGetReply and AuditIsEnabled return at a message, and skip nothing.
Answer ==
    /\ AtHeader /\ loop \in Waiters
    /\ \E h \in HeaderLens : ~BadHeader(h) /\ DataInRange(h) /\ Delivers(h)
    /\ phase' = "use"
    /\ UNCHANGED <<loop, rb, dgram, pos, next, err>>

\* A slice expression is out of range, and the program ends. (At b[dlen:] the message
\* was already appended or passed on, which no caller sees any more.)
Panic ==
    /\ AtHeader
    /\ \E h \in HeaderLens :
         ~BadHeader(h) /\ (~DataInRange(h) \/ (GoesOn /\ ~SkipInRange(h)))
    /\ phase' = "panic"
    /\ UNCHANGED <<loop, rb, dgram, pos, msgs, next, err>>
-----------------------------------------------------------------------------
\* The caller goes on to the next message.
Use ==
    /\ phase = "use"
    /\ err = "nil"
    /\ next <= Len(msgs)
    /\ next' = next + 1
    /\ UNCHANGED <<loop, phase, rb, dgram, pos, msgs, err>>

\* DeleteAllRules sends the data of the message back: it copies the data, and then
\* ToWireFormat writes header and copy over the start of s.rb. A request longer than
\* s.rb is moved by append to memory of its own, once the header is written.
SendBack ==
    /\ phase = "use"
    /\ loop = "Parse" /\ err = "nil"
    /\ next <= Len(msgs)
    /\ LET size == NLMSG_HDRLEN + msgs[next].len
           written == IF size <= BufLen THEN size ELSE NLMSG_HDRLEN
       IN rb' = [c \in 0..(BufLen - 1) |-> IF c < written THEN {} ELSE rb[c]]
    /\ next' = next + 1
    /\ UNCHANGED <<loop, phase, dgram, pos, msgs, err>>

NoDatagram == [messages |-> <<>>, nr |-> 0]

\* All messages are used, or the caller returned before that. The local variables go
\* out of scope, and what rb holds is nobody's any more.
Done ==
    /\ phase = "use"
    /\ phase' = "idle"
    /\ loop' = "Parse"
    /\ rb' = [c \in 0..(BufLen - 1) |-> {}]
    /\ dgram' = NoDatagram
    /\ pos' = 0
    /\ msgs' = <<>>
    /\ next' = 1
    /\ err' = "nil"

Init ==
    /\ loop = "Parse"
    /\ phase = "idle"
    /\ rb = [c \in 0..(BufLen - 1) |-> {}]
    /\ dgram = NoDatagram
    /\ pos = 0
    /\ msgs = <<>>
    /\ next = 1
    /\ err = "nil"

Next ==
    \/ \E l \in Loops, d \in Datagrams : Recvfrom(l, d)
    \/ ParseEnds
    \/ ParseOne
    \/ Answer
    \/ Panic
    \/ Use
    \/ SendBack
    \/ Done

Spec == Init /\ [][Next]_vars
-----------------------------------------------------------------------------
TypeOK ==
    /\ loop \in Loops
    /\ phase \in {"idle", "parse", "use", "panic"}
    /\ rb \in [0..(BufLen - 1) -> SUBSET Nat]
    /\ WellFormed(dgram)
    /\ pos \in Nat
    /\ msgs \in Seq([at: Nat, len: Nat])
    /\ next \in Nat \ {0}
    /\ err \in {"nil", "error"}

\* All of the message was received.
Whole(m) == m.start + NLMSG_HDRLEN + m.size <= dgram.nr

\* A reply that was received, but is cut with a slice expression out of range: without
\* its padding, or so close to the end of the buffer that the workaround for events,
\* which adds a header's length to every reply of an aligned length, leaves the buffer.
OffTheEnd(m) ==
    /\ m.kind = "reply" /\ Whole(m)
    /\ \/ dgram.nr < m.start + Extent(m)
       \/ /\ loop \in {"Parse", "Status"} /\ nlmAlignOf(m.size) = m.size
          /\ m.start + Extent(m) + NLMSG_HDRLEN > BufLen

\* The loops panic at no other message: not at events up to the size of the buffer, not
\* at the text behind an event that is taken for a header, not at a message that was
\* cut off by Recvfrom. And ParseAuditNetlinkMessage and the raw loop get past none such.
PanicsExactlyOffTheEnd ==
    /\ phase = "panic" =>
         \E i \in DOMAIN dgram.messages :
            dgram.messages[i].start = pos /\ OffTheEnd(dgram.messages[i])
    /\ phase = "use" /\ loop \in Collectors =>
         \A i \in DOMAIN dgram.messages : ~OffTheEnd(dgram.messages[i])

\* The i-th slice delivered holds the payload of the i-th message of the datagram,
\* from its first byte to its last, until the caller has used it: also while
\* DeleteAllRules writes its DEL requests over the buffer the slices lie in.
PayloadIntact ==
    phase = "use" => \A i \in next..Len(msgs) :
        /\ i \in DOMAIN dgram.messages
        /\ msgs[i].at = dgram.messages[i].start + NLMSG_HDRLEN
        /\ msgs[i].len >= dgram.messages[i].size
        /\ \A c \in Payload(dgram.messages[i]) : i \in rb[c]

\* ParseAuditNetlinkMessage and the raw loop deliver the messages that were received
\* whole, and nothing else, although the end of an event is taken for a header and the
\* end of a long datagram is missing. ParseAuditNetlinkMessage reports a datagram of which
\* it delivers nothing. (A datagram too short for a header never reaches the loops.)
AllDelivered ==
    phase = "use" /\ loop \in Collectors /\ dgram.nr >= NLMSG_HDRLEN =>
        /\ Len(msgs) <= Len(dgram.messages)
        /\ \A i \in DOMAIN dgram.messages : i <= Len(msgs) <=> Whole(dgram.messages[i])
        /\ err = "error" <=> loop = "Parse" /\ msgs = <<>>
=============================================================================
