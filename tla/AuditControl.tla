---------------------------- MODULE AuditControl ----------------------------
(***************************************************************************)
(* The control side of libaudit-go: every exported call that sends a       *)
(* netlink request to the audit subsystem and waits for its answer, run by *)
(* one goroutine on one NetlinkConnection (libaudit.go, rules.go).         *)
(*                                                                         *)
(* A call is modelled by the requests it has still to send (todo) and by   *)
(* the receive loop it is in (pc):                                         *)
(*   idle     no call is running; result is what the last one returned     *)
(*   open     about to send the LIST or GET request of the call            *)
(*   work     between two acknowledged requests                            *)
(*   ack      in auditGetReply                                             *)
(*   status   in the loop of AuditIsEnabled                                *)
(*   list     in the loop of ListAllRules                                  *)
(*   dellist  in the loop of DeleteAllRules                                *)
(*                                                                         *)
(* The kernel is not part of the repository. It is modelled from how the   *)
(* code uses it: requests are handled in order, each request carries       *)
(* NLM_F_ACK and is acknowledged, the answer to GET and LIST follows the   *)
(* acknowledgement ("request ack from kernel", libaudit.go:492), and audit *)
(* events reach the socket registered by AuditSetPID. Every datagram holds *)
(* one message.                                                            *)
(***************************************************************************)
EXTENDS Integers, Sequences, FiniteSets

CONSTANTS
    Rules,         \* audit rules, compared as compareAuditRule does
    NoRule,        \* the rule of a message that carries none
    LWRules,       \* rules whose printed form holds "key=lw_" or "-k lw_"
    Unsendable,    \* entries SetRules cannot build, and rules of the entry filter
    Values,        \* values of the fields of auditStatus
    SockPid,       \* port id of the socket, as GetPID returns it
    ReplyPid,      \* port id in GET and LIST replies: SockPid or 0
    ExistsErr,     \* error number acknowledging an ADD of a rule already there
    Refusals,      \* error numbers of the other refusals
    EventTypes,    \* types of the audit events the kernel emits
    Operations,    \* the calls the program makes
    Faults,        \* whether Send, GetPID, Recvfrom and the parsers may fail
    OtherProcess,  \* whether another process changes the rules as well
    MaxSeq,        \* bound on the sequence numbers used (2^32 - 1 in the code)
    QueueCap       \* capacity of the socket's receive queue, in messages

NLMSG_ERROR == 2
NLMSG_DONE == 3
AUDIT_GET == 1000
AUDIT_SET == 1001
AUDIT_ADD_RULE == 1011
AUDIT_DEL_RULE == 1012
AUDIT_LIST_RULES == 1013
AUDIT_FIRST_USER_MSG == 1100

StatusFields == {"enabled", "failure", "pid", "rate", "backlog"}
Status == [StatusFields -> Values]

Setters == {"AuditSetEnabled", "AuditSetPID", "AuditSetRateLimit",
            "AuditSetBacklogLimit", "AuditSetFlags"}
Calls == Setters \cup {"SetRules", "CleanupRules", "RemoveStaleLWAuditRules",
                       "AuditIsEnabled", "ListAllRules", "DeleteAllRules"}

ASSUME ConstantsAssumption ==
    /\ NoRule \notin Rules
    /\ LWRules \subseteq Rules
    /\ Unsendable \subseteq Rules
    /\ 0 \in Values /\ Values \subseteq Nat
    /\ SockPid \in Nat \ {0}
    /\ ReplyPid \in {0, SockPid}
    /\ ExistsErr \in {17, -17}
    /\ Refusals \subseteq Int \ {0, 17} /\ Refusals # {}
    /\ EventTypes \subseteq {t \in Nat : t > AUDIT_GET}
                              \ {AUDIT_SET, AUDIT_ADD_RULE, AUDIT_DEL_RULE,
                                 AUDIT_LIST_RULES}
    /\ Operations \subseteq Calls
    /\ Faults \in BOOLEAN /\ OtherProcess \in BOOLEAN
    /\ MaxSeq \in Nat
    /\ QueueCap \in Nat \ {0}

VARIABLES
    sequenceNumber, \* the package-level counter
    pc, op, todo,   \* where the call is, its name, the requests it has left
    cur,            \* wb.Header.Seq of the request being waited for
    got,            \* ruleArray; in DeleteAllRules the rules sent back for deletion
    err, delFailure,\* the variables of those names
    result, stat,   \* what the call returned
    inbox,          \* requests sent and not yet handled by the kernel
    queue,          \* the socket's receive queue
    overrun,        \* the pending ENOBUFS of a queue that overflowed
    owed,           \* replies the kernel has still to queue
    krules, kstatus,\* the kernel's rules and status
    first,          \* history: sequenceNumber when the call began
    accepted,       \* history: its requests the kernel accepted
    seen,           \* history: what request cur found in the kernel
    refused         \* history: the call has read a refusal

client == <<sequenceNumber, pc, op, todo, cur, got, err, delFailure, result,
            stat, first, refused>>
kernel == <<owed, krules, kstatus, accepted, seen>>
vars == <<client, kernel, inbox, queue, overrun>>
-----------------------------------------------------------------------------
(* Messages *)

SetRequest(f, v) == [type |-> AUDIT_SET, rule |-> NoRule, field |-> f, value |-> v]
RuleRequest(t, r) == [type |-> t, rule |-> r, field |-> "enabled", value |-> 0]

Requests ==
    {q \in [type: {AUDIT_GET, AUDIT_SET, AUDIT_ADD_RULE, AUDIT_DEL_RULE, AUDIT_LIST_RULES},
            rule: Rules \cup {NoRule}, field: StatusFields, value: Values] :
       q.type \in {AUDIT_ADD_RULE, AUDIT_DEL_RULE} => q.rule \in Rules}

NoStatus == [f \in StatusFields |-> 0]

Message(t, n, p) ==
    [type |-> t, seq |-> n, pid |-> p, code |-> 0, rule |-> NoRule, status |-> NoStatus]
Ack(n, e) == [Message(NLMSG_ERROR, n, SockPid) EXCEPT !.code = e]
RuleReply(n, r) == [Message(AUDIT_LIST_RULES, n, ReplyPid) EXCEPT !.rule = r]
StatusReply(n, s) == [Message(AUDIT_GET, n, ReplyPid) EXCEPT !.status = s]
DoneReply(n) == Message(NLMSG_DONE, n, ReplyPid)
Event(t) == Message(t, 0, 0)

Messages ==
    {m \in [type: Nat, seq: Nat, pid: Nat, code: Int, rule: Rules \cup {NoRule},
            status: Status] :
       m.type = AUDIT_LIST_RULES => m.rule \in Rules}

\* auditGetReply takes 17 for EEXIST and treats it as success.
Tolerated(e) == e = 0 \/ e = 17
-----------------------------------------------------------------------------
(* Sending *)

RoomFor(n) == sequenceNumber + n <= MaxSeq

\* newNetlinkAuditRequest takes the next number; Send puts the request on the wire.
NextSeq == sequenceNumber + 1
Send(q) == inbox' = Append(inbox, [q |-> q, seq |-> NextSeq])

\* The end of one request of a call that waits for acknowledgements: the caller's
\* err, and the delFailure of CleanupRules.
RoundEnds(e) ==
    /\ pc' = "work"
    /\ err' = e
    /\ delFailure' = (delFailure \/ e = "error")
    /\ UNCHANGED <<op, result, stat, first>>

\* The loop of the call goes on with the next message.
Continue == UNCHANGED <<pc, op, err, delFailure, result, first>>

Return(e) ==
    /\ pc' = "idle"
    /\ result' = e
    /\ UNCHANGED <<op, err, delFailure, first>>
-----------------------------------------------------------------------------
(* Starting a call *)

Begin(name, where, reqs) ==
    /\ pc = "idle"
    /\ name \in Operations
    /\ RoomFor(1 + Cardinality(Rules))
    /\ pc' = where
    /\ op' = name
    /\ todo' = reqs
    /\ got' = {}
    /\ err' = "nil"
    /\ delFailure' = FALSE
    /\ result' = "none"
    /\ stat' = NoStatus
    /\ first' = sequenceNumber
    /\ refused' = FALSE
    /\ accepted' = {}
    /\ seen' = [handled |-> FALSE, rules |-> {}, status |-> NoStatus]
    /\ UNCHANGED <<sequenceNumber, cur, owed, krules, kstatus, inbox, queue, overrun>>

AuditSetEnabled(v) == Begin("AuditSetEnabled", "work", {SetRequest("enabled", v)})
AuditSetPID(v) == Begin("AuditSetPID", "work", {SetRequest("pid", v)})
AuditSetRateLimit(v) == Begin("AuditSetRateLimit", "work", {SetRequest("rate", v)})
AuditSetBacklogLimit(v) == Begin("AuditSetBacklogLimit", "work", {SetRequest("backlog", v)})
AuditSetFlags(v) == Begin("AuditSetFlags", "work", {SetRequest("failure", v)})

\* The entries of the configuration, in an order of its own choosing: the keys of
\* a Go map come in random order, and the lists below them are the caller's.
SetRules(S) ==
    Begin("SetRules", "work", {RuleRequest(AUDIT_ADD_RULE, r) : r \in S})

\* Deletes the rules of ruleArray whose key starts with lw_.
RemoveStaleLWAuditRules(S) ==
    Begin("RemoveStaleLWAuditRules", "work",
          {RuleRequest(AUDIT_DEL_RULE, r) : r \in S \cap LWRules})

\* Lists first; todo is ruleDeleteArray until the listing is complete.
CleanupRules(S) ==
    Begin("CleanupRules", "open", {RuleRequest(AUDIT_DEL_RULE, r) : r \in S})

AuditIsEnabled == Begin("AuditIsEnabled", "open", {})
ListAllRules == Begin("ListAllRules", "open", {})
DeleteAllRules == Begin("DeleteAllRules", "open", {})
-----------------------------------------------------------------------------
(* Acknowledged requests *)

\* auditAddRuleData, auditDeleteRuleData and the body of the setters up to the
\* call of auditGetReply. GetPID is called after the request has been sent. The
\* ruleArray of SetRules is returned only if every request succeeds, so that the
\* rule may be appended to it here.
SendOne(q) ==
    \/ /\ q.rule \in Unsendable
       /\ RoundEnds("error")
       /\ UNCHANGED <<sequenceNumber, cur, inbox>>
    \/ /\ q.rule \notin Unsendable
       /\ sequenceNumber' = NextSeq
       /\ cur' = NextSeq
       /\ \/ Send(q) /\ pc' = "ack" /\ UNCHANGED <<op, err, delFailure, result, stat, first>>
          \/ Faults /\ (Send(q) \/ UNCHANGED inbox) /\ RoundEnds("error")

SendRequest ==
    /\ pc = "work"
    /\ err = "nil" \/ op = "CleanupRules"
    /\ \E q \in todo : /\ SendOne(q)
                       /\ todo' = todo \ {q}
                       /\ got' = got \cup {r \in {q.rule} : op = "SetRules"}
    /\ UNCHANGED <<refused, kernel, queue, overrun>>

\* The return statements of the calls that wait for acknowledgements. CleanupRules
\* goes on after an error and wraps the err of its last deletion, which wraps to
\* nil when that deletion succeeded.
ReturnFromWork ==
    /\ pc = "work"
    /\ todo = {} \/ (err = "error" /\ op # "CleanupRules")
    /\ Return(IF op = "CleanupRules" /\ ~delFailure THEN "nil" ELSE err)
    /\ UNCHANGED <<sequenceNumber, todo, cur, got, stat, refused, kernel, inbox,
                   queue, overrun>>
-----------------------------------------------------------------------------
(* Receiving *)

\* Receive and ReceiveNoParse fail: Recvfrom reports the overflow of the queue, a
\* timeout set by SetsockRecvTO or another error and consumes nothing; or the datagram
\* is consumed and its header or payload does not parse.
ReceiveFails ==
    /\ \/ (overrun \/ Faults) /\ UNCHANGED queue
       \/ Faults /\ ~overrun /\ queue # <<>> /\ queue' = Tail(queue)
    /\ overrun' = FALSE
    /\ UNCHANGED refused

msg == Head(queue)

Receive ==
    /\ ~overrun
    /\ queue # <<>>
    /\ queue' = Tail(queue)
    /\ refused' = (refused \/ (msg.type = NLMSG_ERROR /\ ~Tolerated(msg.code)))
    /\ UNCHANGED overrun

\* Mutated form of AcceptsReply: any acknowledgement will do.
AcceptsAnyAck(m) == m.type \in {NLMSG_DONE, NLMSG_ERROR, AUDIT_GET}

\* auditGetReply ends without an error. A message with another sequence number is
\* taken for the reply when it is an event, or an acknowledgement of another request.
AcceptsReply(m) ==
    \/ m.seq # cur /\ m.type > AUDIT_FIRST_USER_MSG
    \/ m.seq # cur /\ m.type = NLMSG_ERROR /\ Tolerated(m.code)
    \/ /\ m.seq = cur /\ m.pid = SockPid
       /\ \/ m.type \in {NLMSG_DONE, AUDIT_GET}
          \/ m.type = NLMSG_ERROR /\ Tolerated(m.code)

SkipsReply(m) ==
    /\ m.seq = cur /\ m.pid = SockPid
    /\ m.type \notin {NLMSG_DONE, AUDIT_GET, NLMSG_ERROR}

AuditGetReply ==
    /\ pc = "ack"
    /\ \/ ReceiveFails /\ RoundEnds("error")
       \/ Receive /\ AcceptsReply(msg) /\ RoundEnds("nil")
       \/ Receive /\ SkipsReply(msg) /\ Continue /\ UNCHANGED stat
       \/ Receive /\ ~AcceptsReply(msg) /\ ~SkipsReply(msg) /\ RoundEnds("error")
    /\ UNCHANGED <<sequenceNumber, todo, cur, got, kernel, inbox>>
-----------------------------------------------------------------------------
(* AuditIsEnabled, ListAllRules and DeleteAllRules *)

\* CleanupRules drops the error of ListAllRules, and the rules with it.
ListEnds(e) ==
    \/ /\ op = "CleanupRules"
       /\ pc' = "work"
       /\ err' = e
       /\ todo' = {q \in todo : e = "nil" /\ q.rule \in got}
       /\ UNCHANGED <<op, delFailure, result, first>>
    \/ op # "CleanupRules" /\ Return(e) /\ UNCHANGED todo

\* The LIST or GET request. AuditIsEnabled does not call GetPID.
SendQuery ==
    /\ pc = "open"
    /\ sequenceNumber' = NextSeq
    /\ cur' = NextSeq
    /\ LET q == RuleRequest(IF op = "AuditIsEnabled" THEN AUDIT_GET ELSE AUDIT_LIST_RULES,
                            NoRule)
       IN \/ /\ Send(q)
             /\ pc' = CASE op = "AuditIsEnabled" -> "status"
                        [] op = "DeleteAllRules" -> "dellist"
                        [] OTHER -> "list"
             /\ UNCHANGED <<op, todo, err, delFailure, result, first>>
          \/ /\ Faults
             /\ (op # "AuditIsEnabled" /\ Send(q)) \/ UNCHANGED inbox
             /\ ListEnds("error")
    /\ UNCHANGED <<got, stat, refused, kernel, queue, overrun>>

\* Mutated forms of SkipsStatus: a refusal is passed over; the acknowledgement ends
\* the loop.
SkipsRefusal(m) == m.type \notin {NLMSG_DONE, AUDIT_GET}
SkipsNoAck(m) == m.type \notin {NLMSG_DONE, NLMSG_ERROR, AUDIT_GET}

\* Everything but the status, the end of a dump and a refusal is passed over,
\* the acknowledgement of the request included.
SkipsStatus(m) ==
    \/ m.type \notin {NLMSG_DONE, NLMSG_ERROR, AUDIT_GET}
    \/ m.type = NLMSG_ERROR /\ m.code = 0

\* Mutated form of AuditIsEnabledLoop: the sequence number is not compared.
AnyStatusLoop ==
    /\ pc = "status"
    /\ \/ ReceiveFails /\ Return("error") /\ UNCHANGED stat
       \/ Receive /\ msg.type = AUDIT_GET /\ Return("nil") /\ stat' = msg.status
       \/ Receive /\ SkipsStatus(msg) /\ Continue /\ UNCHANGED stat
    /\ UNCHANGED <<sequenceNumber, todo, cur, got, kernel, inbox>>

AuditIsEnabledLoop ==
    /\ pc = "status"
    /\ \/ ReceiveFails /\ Return("error") /\ UNCHANGED stat
       \/ Receive /\ msg.seq # cur /\ Return("error") /\ UNCHANGED stat
       \/ /\ Receive /\ msg.seq = cur
          /\ \/ msg.type = AUDIT_GET /\ Return("nil") /\ stat' = msg.status
             \/ SkipsStatus(msg) /\ Continue /\ UNCHANGED stat
             \/ /\ msg.type # AUDIT_GET /\ ~SkipsStatus(msg)
                /\ Return("minus1") /\ UNCHANGED stat
    /\ UNCHANGED <<sequenceNumber, todo, cur, got, kernel, inbox>>

\* Mutated form of BadListing: the sequence number is not compared.
OnlyBadCode(m) == (m.pid > 0 /\ m.pid # SockPid) \/ (m.type = NLMSG_ERROR /\ m.code # 0)

\* The checks after which both list loops give up.
BadListing(m) ==
    \/ m.seq # cur
    \/ m.pid > 0 /\ m.pid # SockPid
    \/ m.type = NLMSG_ERROR /\ m.code # 0

ListAllRulesLoop ==
    /\ pc = "list"
    /\ \/ ReceiveFails /\ ListEnds("error") /\ UNCHANGED got
       \/ Receive /\ BadListing(msg) /\ ListEnds("error") /\ UNCHANGED got
       \/ /\ Receive /\ ~BadListing(msg)
          /\ \/ msg.type = NLMSG_DONE /\ ListEnds("nil") /\ UNCHANGED got
             \/ /\ msg.type = AUDIT_LIST_RULES
                /\ got' = got \cup {msg.rule}
                /\ Continue /\ UNCHANGED todo
             \/ /\ msg.type \notin {NLMSG_DONE, AUDIT_LIST_RULES}
                /\ Continue /\ UNCHANGED <<todo, got>>
    /\ UNCHANGED <<sequenceNumber, cur, stat, kernel, inbox>>

\* Mutated forms of SendsBack: the sequence number is not advanced; the error of Send
\* is ignored.
SendsBackOldSeq ==
    /\ Send(RuleRequest(AUDIT_DEL_RULE, msg.rule))
    /\ got' = got \cup {msg.rule}
    /\ Continue /\ UNCHANGED sequenceNumber
SendsBackUnchecked ==
    /\ sequenceNumber' = NextSeq
    /\ \/ Send(RuleRequest(AUDIT_DEL_RULE, msg.rule)) /\ got' = got \cup {msg.rule}
       \/ Faults /\ UNCHANGED <<got, inbox>>
    /\ Continue

\* A rule of the listing is sent back in a DEL request, whose acknowledgement is
\* never waited for.
SendsBack ==
    /\ sequenceNumber' = NextSeq
    /\ \/ /\ Send(RuleRequest(AUDIT_DEL_RULE, msg.rule))
          /\ got' = got \cup {msg.rule}
          /\ Continue
       \/ Faults /\ Return("error") /\ UNCHANGED <<got, inbox>>

DeleteAllRulesLoop ==
    /\ pc = "dellist"
    /\ \/ Receive /\ ~BadListing(msg) /\ msg.type = AUDIT_LIST_RULES /\ SendsBack
       \/ /\ \/ ReceiveFails /\ Return("error")
             \/ Receive /\ BadListing(msg) /\ Return("error")
             \/ Receive /\ ~BadListing(msg) /\ msg.type = NLMSG_DONE /\ Return("nil")
             \/ /\ Receive /\ ~BadListing(msg)
                /\ msg.type \notin {NLMSG_DONE, AUDIT_LIST_RULES}
                /\ Continue
          /\ UNCHANGED <<sequenceNumber, got, inbox>>
    /\ UNCHANGED <<todo, cur, stat, kernel>>
-----------------------------------------------------------------------------
(* The kernel (external) *)

Outcomes(q) ==
    CASE q.type = AUDIT_ADD_RULE /\ q.rule \in krules -> {ExistsErr}
      [] q.type = AUDIT_DEL_RULE /\ q.rule \notin krules -> Refusals
      [] OTHER -> {0} \cup Refusals

Replies(q, n) ==
    CASE q.type = AUDIT_LIST_RULES -> {RuleReply(n, r) : r \in krules} \cup {DoneReply(n)}
      [] q.type = AUDIT_GET -> {StatusReply(n, kstatus)}
      [] OTHER -> {}

\* The effect of handling request q, number n, with outcome e; the acknowledgement is
\* lost when the receive queue is full, and the next Recvfrom reports that.
Handle(q, n, e) ==
    /\ krules' = CASE e = 0 /\ q.type = AUDIT_ADD_RULE -> krules \cup {q.rule}
                   [] e = 0 /\ q.type = AUDIT_DEL_RULE -> krules \ {q.rule}
                   [] OTHER -> krules
    /\ kstatus' = IF e = 0 /\ q.type = AUDIT_SET
                  THEN [kstatus EXCEPT ![q.field] = q.value] ELSE kstatus
    /\ owed' = owed \cup (IF e = 0 THEN Replies(q, n) ELSE {})
    /\ accepted' = accepted \cup {k \in {n} : k > first /\ Tolerated(e)}
    /\ seen' = IF n = cur /\ n > first
               THEN [handled |-> TRUE, rules |-> krules, status |-> kstatus] ELSE seen
    /\ \/ Len(queue) < QueueCap /\ queue' = Append(queue, Ack(n, e)) /\ UNCHANGED overrun
       \/ Len(queue) >= QueueCap /\ overrun' = TRUE /\ UNCHANGED queue

KernelHandle ==
    /\ inbox # <<>>
    /\ inbox' = Tail(inbox)
    /\ \E e \in Outcomes(Head(inbox).q) : Handle(Head(inbox).q, Head(inbox).seq, e)
    /\ UNCHANGED client

\* Queues a reply. NLMSG_DONE comes after the rules of its listing; the kernel waits
\* while the queue is full.
KernelReply ==
    /\ Len(queue) < QueueCap
    /\ \E m \in owed :
         /\ m.type = NLMSG_DONE => \A x \in owed : x.seq = m.seq => x = m
         /\ queue' = Append(queue, m)
         /\ owed' = owed \ {m}
    /\ UNCHANGED <<client, krules, kstatus, accepted, seen, inbox, overrun>>

\* An audit event, once a program is registered for them.
KernelEvent ==
    /\ kstatus["pid"] # 0
    /\ Len(queue) < QueueCap
    /\ \E t \in EventTypes : queue' = Append(queue, Event(t))
    /\ UNCHANGED <<client, kernel, inbox, overrun>>

\* Another process (auditctl, say) adds or deletes a rule.
OtherProcessStep ==
    /\ OtherProcess
    /\ \E r \in Rules : krules' \in {krules \cup {r}, krules \ {r}}
    /\ UNCHANGED <<client, owed, kstatus, accepted, seen, inbox, queue, overrun>>
-----------------------------------------------------------------------------
Init ==
    /\ sequenceNumber = 0
    /\ pc = "idle"
    /\ op = "none"
    /\ todo = {}
    /\ cur = 0
    /\ got = {}
    /\ err = "nil"
    /\ delFailure = FALSE
    /\ result = "none"
    /\ stat = NoStatus
    /\ inbox = <<>>
    /\ queue = <<>>
    /\ overrun = FALSE
    /\ owed = {}
    /\ krules \in SUBSET Rules
    /\ kstatus = NoStatus
    /\ first = 0
    /\ accepted = {}
    /\ seen = [handled |-> FALSE, rules |-> {}, status |-> NoStatus]
    /\ refused = FALSE

StartCall ==
    \/ \E v \in Values : \/ AuditSetEnabled(v)
                         \/ AuditSetPID(v)
                         \/ AuditSetRateLimit(v)
                         \/ AuditSetBacklogLimit(v)
                         \/ AuditSetFlags(v)
    \/ \E S \in SUBSET Rules : \/ SetRules(S)
                               \/ CleanupRules(S)
                               \/ RemoveStaleLWAuditRules(S)
    \/ AuditIsEnabled
    \/ ListAllRules
    \/ DeleteAllRules

ClientStep ==
    \/ SendRequest
    \/ ReturnFromWork
    \/ AuditGetReply
    \/ SendQuery
    \/ AuditIsEnabledLoop
    \/ ListAllRulesLoop
    \/ DeleteAllRulesLoop

Next ==
    \/ StartCall
    \/ ClientStep
    \/ KernelHandle
    \/ KernelReply
    \/ KernelEvent
    \/ OtherProcessStep

Spec == Init /\ [][Next]_vars

\* A running call is not descheduled for ever, and the kernel handles what it
\* receives. Nothing obliges the program to make a call or the kernel to emit events.
FairSpec ==
    /\ Spec
    /\ WF_vars(ClientStep)
    /\ WF_vars(KernelHandle)
    /\ WF_vars(KernelReply)
-----------------------------------------------------------------------------
(* Properties *)

Loops == {"status", "list", "dellist"}

CallType ==
    /\ sequenceNumber \in Nat /\ cur \in 0..sequenceNumber /\ first \in 0..sequenceNumber
    /\ pc \in {"idle", "open", "work", "ack"} \cup Loops
    /\ op \in Calls \cup {"none"}
    /\ todo \subseteq Requests
    /\ op = "SetRules" => \A q \in todo : q.type = AUDIT_ADD_RULE
    /\ got \subseteq Rules
    /\ err \in {"nil", "error"}
    /\ result \in {"none", "nil", "error", "minus1"}
    /\ stat \in Status
FlagType == delFailure \in BOOLEAN /\ overrun \in BOOLEAN /\ refused \in BOOLEAN
WireType ==
    /\ inbox \in Seq([q: Requests, seq: 1..sequenceNumber])
    /\ queue \in Seq(Messages)
    /\ owed \subseteq Messages
KernelType ==
    /\ krules \subseteq Rules /\ kstatus \in Status
    /\ accepted \subseteq 1..sequenceNumber
    /\ seen \in [handled: BOOLEAN, rules: SUBSET Rules, status: Status]
TypeOK == CallType /\ FlagType /\ WireType /\ KernelType

Returned(call, value) == pc = "idle" /\ op = call /\ result = value

\* A ListAllRules that returns no error returns the rules the kernel held at the one
\* moment it handled the request: nothing is missing, nothing of an older listing or
\* of a change made meanwhile is mixed in, whatever late messages, events, timeouts
\* and overflows came before.
ListIsSnapshot ==
    Returned("ListAllRules", "nil") => seen.handled /\ got = seen.rules

\* A state other than -1 that AuditIsEnabled returns is the state the kernel was in
\* when it handled this very request, never that of an earlier, timed-out one.
StatusIsHonest ==
    Returned("AuditIsEnabled", "nil") => seen.handled /\ stat = seen.status

\* A DeleteAllRules that returns no error has sent the kernel a DEL request for every
\* rule that was loaded when the kernel handled the listing, and for no other.
DeleteAllCoversListing ==
    Returned("DeleteAllRules", "nil") => seen.handled /\ got = seen.rules

\* A refusal that a call reads from the socket, its own or another's, is never
\* reported as success (auditGetReply and the loops turn it into an error, or into
\* -1). CleanupRules is apart: see CleanupReportsFailures.
NoRefusalSwallowed ==
    pc = "idle" /\ refused /\ op # "CleanupRules" => result # "nil"

\* A call that returns no error has had each of its requests accepted by the kernel:
\* the acknowledgements it read were its own. (Of CleanupRules and of a -1 nothing is
\* claimed.)
SuccessMeansApplied ==
    pc = "idle" /\ result = "nil" /\ op # "CleanupRules"
        => (first + 1)..sequenceNumber \subseteq accepted

\* Between calls nothing of an earlier call is left on the connection, neither a
\* request to be handled nor a message to be read: the next call starts afresh.
QuietBetweenCalls ==
    pc \in {"idle", "open", "work"} => inbox = <<>> /\ queue = <<>> /\ owed = {}

\* SetRules "sets them in kernel" (rules.go:522): after a SetRules that returned no
\* error, and once the kernel has handled what was sent to it, every rule of the
\* configuration is loaded.
SetRulesInForce ==
    Returned("SetRules", "nil") /\ inbox = <<>> => got \subseteq krules

\* "Some of the Audit Cleanup Rules failed" (rules.go:126): a CleanupRules that returns
\* no error has had each of its deletions accepted by the kernel. Its first request is
\* the listing, of which nothing is claimed here.
CleanupReportsFailures ==
    Returned("CleanupRules", "nil") => (first + 2)..sequenceNumber \subseteq accepted

\* Every call returns: no receive loop waits for a message that will not come.
CallsReturn == pc # "idle" ~> pc = "idle"
=============================================================================
