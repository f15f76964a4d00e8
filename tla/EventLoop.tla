----------------------------- MODULE EventLoop -----------------------------
(***************************************************************************)
(* The goroutines that receive audit events (audit_events.go), on the      *)
(* socket of one NetlinkConnection, together with goroutines that make     *)
(* control calls on the same connection and wait in auditGetReply.         *)
(*                                                                         *)
(* A message is abstracted to what the loops tell apart:                   *)
(*   event    an audit event that ParseAuditEvent parses, of a named type  *)
(*   broken   an audit event of a named type that it does not parse        *)
(*   unknown  an audit event of a type without a name                      *)
(*   reply    the answer to a GET or LIST request, not to be parsed        *)
(*   end      NLMSG_DONE: no name, and not to be parsed                    *)
(*   ack      NLMSG_ERROR with code 0                                      *)
(*   refusal  NLMSG_ERROR with another code                                *)
(* Events have types above AUDIT_FIRST_USER_MSG (AuditControl has the      *)
(* others).                                                                *)
(* The messages of a datagram lie in the buffer it was received in. Loops  *)
(* with a buffer of their own keep them; GetRawAuditMessages and           *)
(* auditGetReply use s.rb, where the next datagram one of them receives,   *)
(* or the next request, overwrites what the other has not handled yet.     *)
(* A datagram is a sequence of messages; NetlinkFraming is about how it is *)
(* cut. The kernel and the program that uses the library are external.     *)
(***************************************************************************)
EXTENDS Integers, Sequences, FiniteSets

CONSTANTS
    Goroutines,  \* goroutines that use the connection
    Runs,        \* [Goroutines -> function the goroutine runs]
    Datagrams,   \* shapes of the datagrams the kernel sends unasked
    RecvTimeout, \* whether SetsockRecvTO has set a receive timeout
    Faults,      \* whether Recvfrom may also fail for other reasons (EINTR, say)
    MaxSent,     \* bound on the number of messages the kernel sends
    MaxCalls,    \* bound on the control calls of one goroutine
    MaxSignals,  \* bound on the number of values sent on the done channel
    QueueCap     \* capacity of the receive queue, in datagrams

Kinds == {"event", "broken", "unknown", "reply", "end", "ack", "refusal"}
WithDone == {"GetRawAuditMessages", "GetAuditMessages"}
Forever == {"GetAuditEvents", "GetRawAuditEvents"}

ASSUME LoopAssumption ==
    /\ IsFiniteSet(Goroutines)
    /\ Runs \in [Goroutines -> WithDone \cup Forever \cup {"auditGetReply"}]
    /\ Datagrams \subseteq Seq(Kinds)
    /\ RecvTimeout \in BOOLEAN /\ Faults \in BOOLEAN
    /\ MaxSent \in Nat /\ MaxCalls \in Nat /\ MaxSignals \in Nat /\ QueueCap \in Nat \ {0}

Loops == {g \in Goroutines : Runs[g] # "auditGetReply"}
Callers == Goroutines \ Loops
DoneLoops == {g \in Goroutines : Runs[g] \in WithDone}
UsesRb == {g \in Goroutines : Runs[g] \in {"GetRawAuditMessages", "auditGetReply"}}

\* At most one goroutine uses s.rb.
Exclusive == Cardinality(UsesRb) <= 1

VARIABLES
    pc,       \* per goroutine: "idle", "select", "recv", "deliver" or "returned"
    msgs,     \* per goroutine: the messages of its datagram still to be handled
    calls,    \* per goroutine: the callbacks made, or the outcomes of its calls
    signals,  \* values on the done channel, those of blocked senders included
    closed,   \* the done channel is closed
    queue,    \* the receive queue
    overrun,  \* the pending ENOBUFS
    asked,    \* requests the kernel has not answered
    sent,     \* history: the kinds of the messages produced; the index is their id
    lost,     \* history: ids of messages that found the queue full
    dropped   \* history: ids of messages auditGetReply returned without looking at

Ids(s) == {s[i].id : i \in DOMAIN s}

chan == <<signals, closed>>
wire == <<queue, overrun, asked, sent, lost>>
vars == <<pc, msgs, calls, chan, wire, dropped>>
-----------------------------------------------------------------------------
(* The loops *)

\* Mutated form of Select: the done channel is not looked at.
SelectDefault(g) ==
    /\ g \in Loops /\ pc[g] = "select"
    /\ pc' = [pc EXCEPT ![g] = "recv"]
    /\ UNCHANGED <<msgs, calls, chan, wire, dropped>>

\* Mutated form of Select: a closed channel is drained further.
SelectDrains(g) ==
    /\ g \in Loops /\ pc[g] = "select"
    /\ IF g \in DoneLoops /\ (closed \/ signals > 0)
       THEN pc' = [pc EXCEPT ![g] = "returned"] /\ signals' = signals - 1
       ELSE pc' = [pc EXCEPT ![g] = "recv"] /\ UNCHANGED signals
    /\ UNCHANGED <<msgs, calls, closed, wire, dropped>>

\* select: the default case is taken only if nothing can be received from done.
Select(g) ==
    /\ g \in Loops /\ pc[g] = "select"
    /\ \/ /\ g \in DoneLoops /\ (closed \/ signals > 0)
          /\ pc' = [pc EXCEPT ![g] = "returned"]
          /\ signals' = IF signals > 0 THEN signals - 1 ELSE 0
       \/ /\ g \notin DoneLoops \/ (~closed /\ signals = 0)
          /\ pc' = [pc EXCEPT ![g] = "recv"]
          /\ UNCHANGED signals
    /\ UNCHANGED <<msgs, calls, closed, wire, dropped>>

\* Where a goroutine is after a datagram.
Again(g) == IF g \in Loops THEN "select" ELSE "idle"

\* g writes the messages d into its buffer. Another goroutine that is cutting the same
\* buffer goes on at its own place in it: it finds some end of d, or no message at all.
Overwrite(g, d) ==
    \E k \in [Goroutines -> 0..Len(d)] :
        msgs' = [h \in Goroutines |->
                   IF h = g /\ pc[h] = "recv" THEN d
                   ELSE IF {g, h} \subseteq UsesRb /\ pc[h] = "deliver" /\ h # g
                        THEN SubSeq(d, k[h] + 1, Len(d))
                        ELSE msgs[h]]

\* Mutated form of Receive: the datagram stays in the queue, as with MSG_PEEK.
ReceivePeeks(g) ==
    /\ pc[g] = "recv"
    /\ ~overrun /\ queue # <<>>
    /\ Overwrite(g, Head(queue))
    /\ pc' = [pc EXCEPT ![g] = "deliver"]
    /\ UNCHANGED <<calls, chan, wire, dropped>>

Receive(g) ==
    /\ pc[g] = "recv"
    /\ ~overrun /\ queue # <<>>
    /\ queue' = Tail(queue)
    /\ Overwrite(g, Head(queue))
    /\ pc' = [pc EXCEPT ![g] = "deliver"]
    /\ UNCHANGED <<calls, chan, overrun, asked, sent, lost, dropped>>

Failing == overrun \/ (RecvTimeout /\ queue = <<>>) \/ Faults

\* Mutated form of ReceiveFails: auditGetReply tries again.
ReceiveRetries(g) ==
    /\ pc[g] = "recv" /\ Failing
    /\ overrun' = FALSE
    /\ pc' = [pc EXCEPT ![g] = IF g \in Loops THEN "select" ELSE "recv"]
    /\ UNCHANGED <<msgs, calls, chan, queue, asked, sent, lost, dropped>>

\* Recvfrom fails. The loops drop the error and go on; auditGetReply returns it.
ReceiveFails(g) ==
    /\ pc[g] = "recv" /\ Failing
    /\ overrun' = FALSE
    /\ pc' = [pc EXCEPT ![g] = Again(g)]
    /\ calls' = IF g \in Loops THEN calls
                ELSE [calls EXCEPT ![g] = Append(@, [id |-> 0, out |-> "error"])]
    /\ UNCHANGED <<msgs, chan, queue, asked, sent, lost, dropped>>

\* The kinds that f passes on as events. NewAuditEvent looks for an unknown type after
\* String()[6:] has cut off the start of the name it looks for, and never finds it.
Understood(f) ==
    CASE f = "GetRawAuditMessages" -> {"event", "broken", "unknown", "reply", "end"}
      [] f = "GetRawAuditEvents" -> {"event", "broken", "reply"}
      [] OTHER -> {"event", "unknown"}

\* Mutated form of Handled: auditGetReply does not look at the code of NLMSG_ERROR.
HandledAnyCode(f, k) ==
    CASE f = "auditGetReply" -> <<IF k \in {"reply", "end"} THEN "error" ELSE "nil">>
      [] f # "auditGetReply" /\ k \in {"ack", "refusal"} ->
           (IF k = "refusal" THEN <<"error">> ELSE <<>>)
             \o (IF f = "GetRawAuditEvents" THEN <<"empty">> ELSE <<>>)
      [] OTHER -> <<IF k \in Understood(f) THEN "event" ELSE "error">>

\* What f does with a message of kind k: the callbacks it makes, in order, with an
\* event, an error or neither; of auditGetReply, what it returns. GetRawAuditEvents
\* makes a callback after it has dealt with NLMSG_ERROR as well.
Handled(f, k) ==
    CASE f = "auditGetReply" -> <<IF k \in {"reply", "end", "refusal"} THEN "error" ELSE "nil">>
      [] f # "auditGetReply" /\ k \in {"ack", "refusal"} ->
           (IF k = "refusal" THEN <<"error">> ELSE <<>>)
             \o (IF f = "GetRawAuditEvents" THEN <<"empty">> ELSE <<>>)
      [] OTHER -> <<IF k \in Understood(f) THEN "event" ELSE "error">>

Report(g, m) ==
    LET outs == Handled(Runs[g], m.kind)
    IN calls' = [calls EXCEPT ![g] = @ \o [i \in DOMAIN outs |-> [id |-> m.id, out |-> outs[i]]]]

\* Mutated form of Deliver: the done channel is looked at after every message.
DeliverUnlessDone(g) ==
    /\ pc[g] = "deliver"
    /\ msgs[g] # <<>> /\ Report(g, Head(msgs[g]))
    /\ msgs' = [msgs EXCEPT ![g] = IF g \in Callers \/ closed THEN <<>> ELSE Tail(@)]
    /\ pc' = [pc EXCEPT ![g] = IF msgs'[g] = <<>> THEN Again(g) ELSE @]
    /\ UNCHANGED <<chan, wire, dropped>>

\* One message is handled, or the datagram is done with. auditGetReply returns at the
\* first message, and what else the datagram holds is dropped.
Deliver(g) ==
    /\ pc[g] = "deliver"
    /\ \/ /\ msgs[g] # <<>>
          /\ Report(g, Head(msgs[g]))
          /\ msgs' = [msgs EXCEPT ![g] = IF g \in Callers THEN <<>> ELSE Tail(@)]
          /\ dropped' = dropped \cup {n \in Ids(Tail(msgs[g])) : g \in Callers /\ n # 0}
          /\ pc' = [pc EXCEPT ![g] = IF msgs'[g] = <<>> THEN Again(g) ELSE @]
       \/ /\ msgs[g] = <<>>
          /\ pc' = [pc EXCEPT ![g] = IF g \in Loops THEN "select" ELSE "recv"]
          /\ UNCHANGED <<msgs, calls, dropped>>
    /\ UNCHANGED <<chan, wire>>
-----------------------------------------------------------------------------
(* Control calls *)

\* What a request looks like to a loop that finds it in s.rb: a message of a named type
\* that is no event.
Request == [id |-> 0, kind |-> "reply"]

\* A setter, or a call that adds or deletes one rule, up to auditGetReply.
SendRequest(g) ==
    /\ g \in Callers /\ pc[g] = "idle"
    /\ Len(calls[g]) < MaxCalls
    /\ pc' = [pc EXCEPT ![g] = "recv"]
    /\ asked' = asked + 1
    /\ Overwrite(g, <<Request>>)
    /\ UNCHANGED <<calls, chan, queue, overrun, sent, lost, dropped>>
-----------------------------------------------------------------------------
(* The kernel and the program (external) *)

\* A datagram of the given kinds: its messages are numbered, and lost if the queue is full.
Enqueue(kinds) ==
    LET d == [i \in DOMAIN kinds |-> [id |-> Len(sent) + i, kind |-> kinds[i]]]
    IN /\ sent' = sent \o kinds
       /\ \/ Len(queue) < QueueCap /\ queue' = Append(queue, d) /\ UNCHANGED <<overrun, lost>>
          \/ /\ Len(queue) >= QueueCap /\ UNCHANGED queue
             /\ overrun' = TRUE
             /\ lost' = lost \cup {d[i].id : i \in DOMAIN d}

KernelSends ==
    /\ \E d \in Datagrams : Len(sent) + Len(d) <= MaxSent /\ Enqueue(d)
    /\ UNCHANGED <<pc, msgs, calls, chan, asked, dropped>>

\* A request that was overwritten in s.rb before it was sent may have no answer.
KernelAnswers ==
    /\ asked > 0
    /\ asked' = asked - 1
    /\ \/ \E k \in {"ack", "refusal"} : Enqueue(<<k>>)
       \/ ~Exclusive /\ UNCHANGED <<queue, overrun, sent, lost>>
    /\ UNCHANGED <<pc, msgs, calls, chan, dropped>>

\* The program signals the loops that have a done channel, or closes the channel.
Signal ==
    /\ ~closed
    /\ \/ signals < MaxSignals /\ signals' = signals + 1 /\ UNCHANGED closed
       \/ closed' = TRUE /\ UNCHANGED signals
    /\ UNCHANGED <<pc, msgs, calls, wire, dropped>>
-----------------------------------------------------------------------------
Init ==
    /\ pc = [g \in Goroutines |-> Again(g)]
    /\ msgs = [g \in Goroutines |-> <<>>]
    /\ calls = [g \in Goroutines |-> <<>>]
    /\ signals = 0 /\ closed = FALSE
    /\ queue = <<>> /\ overrun = FALSE
    /\ asked = 0 /\ sent = <<>> /\ lost = {}
    /\ dropped = {}

Step(g) == Select(g) \/ Receive(g) \/ ReceiveFails(g) \/ Deliver(g)

Next ==
    \/ \E g \in Goroutines : Step(g) \/ SendRequest(g)
    \/ KernelSends
    \/ KernelAnswers
    \/ Signal

Spec == Init /\ [][Next]_vars

\* No goroutine is descheduled for ever, and the kernel answers requests. Nothing
\* obliges the kernel to send events or the program to signal or to make a call.
FairSpec ==
    /\ Spec
    /\ \A g \in Goroutines : WF_vars(Step(g))
    /\ WF_vars(KernelAnswers)
-----------------------------------------------------------------------------
(* Properties *)

Message == [id: 0..Len(sent), kind: Kinds]

TypeOK ==
    /\ pc \in [Goroutines -> {"idle", "select", "recv", "deliver", "returned"}]
    /\ msgs \in [Goroutines -> Seq(Message)]
    /\ calls \in [Goroutines -> Seq([id: 0..Len(sent), out: {"event", "error", "empty", "nil"}])]
    /\ signals \in 0..MaxSignals /\ closed \in BOOLEAN
    /\ queue \in Seq(Seq(Message)) /\ overrun \in BOOLEAN
    /\ asked \in Nat /\ sent \in Seq(Kinds) /\ lost \subseteq 1..Len(sent)
    /\ dropped \subseteq 1..Len(sent)

Queued == UNION {Ids(queue[i]) : i \in DOMAIN queue}
Held == UNION {Ids(msgs[g]) : g \in {h \in Goroutines : pc[h] = "deliver"}}
Told(g, out) == {calls[g][i].id : i \in {j \in DOMAIN calls[g] : calls[g][j].out = out}}

\* However the goroutines take turns, no message is handled by two of them or twice by
\* one, and each loop makes its callbacks in the order in which the kernel sent the
\* messages, as long as s.rb is not shared.
DeliveredOnce ==
    Exclusive =>
      /\ \A g, h \in Goroutines : g # h => Ids(calls[g]) \cap Ids(calls[h]) \subseteq {0}
      /\ \A g \in Goroutines : \A n \in Ids(calls[g]) \ {0} :
           Cardinality({i \in DOMAIN calls[g] : calls[g][i].id = n}) = Len(Handled(Runs[g], sent[n]))
      /\ \A g \in Loops : \A i, j \in DOMAIN calls[g] : i < j => calls[g][i].id <= calls[g][j].id

\* As long as s.rb is not shared, a message the queue had room for waits there, is in the
\* hands of a running goroutine, was handed to a callback or ended a control call, unless
\* it was an acknowledgement or came in a datagram that a control call took: none is
\* dropped because a loop is told to stop.
NothingLost ==
    Exclusive => \A n \in DOMAIN sent :
        sent[n] # "ack" =>
            n \in Queued \cup Held \cup lost \cup dropped \cup UNION {Ids(calls[g]) : g \in Goroutines}

\* A refusal that the queue had room for is not passed over in silence, as long as s.rb
\* is not shared: it becomes the error of a control call, its own or another, or of a
\* callback.
RefusalReported ==
    Exclusive => \A n \in DOMAIN sent :
        sent[n] = "refusal" =>
            n \in Queued \cup Held \cup lost \cup UNION {Told(g, "error") : g \in Goroutines}

\* "It will return when a signal is received on the done channel" (audit_events.go:195):
\* once the channel is closed, or holds a value for each of them, the loops return.
StopsWhenTold ==
    \A g \in DoneLoops :
        closed \/ signals >= Cardinality(DoneLoops) ~> pc[g] = "returned"

\* A control call returns, also when a loop on the same connection takes its
\* acknowledgement off the socket.
CallsReturn == \A g \in Callers : pc[g] # "idle" ~> pc[g] = "idle"
=============================================================================
