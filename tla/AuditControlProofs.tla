------------------------- MODULE AuditControlProofs -------------------------
(***************************************************************************)
(* Type correctness of AuditControl, for every set of rules, every          *)
(* environment (events, faults, another process) and every bound.          *)
(***************************************************************************)
EXTENDS AuditControl, SequenceTheorems, TLAPS

USE DEF NLMSG_ERROR, NLMSG_DONE, AUDIT_GET, AUDIT_SET, AUDIT_ADD_RULE,
        AUDIT_DEL_RULE, AUDIT_LIST_RULES, AUDIT_FIRST_USER_MSG

(***************************************************************************)
(* The constructors of requests and messages build requests and messages.  *)
(***************************************************************************)
LEMMA RequestTypes ==
    /\ \A f \in StatusFields, v \in Values : SetRequest(f, v) \in Requests
    /\ \A t \in {AUDIT_ADD_RULE, AUDIT_DEL_RULE}, r \in Rules : RuleRequest(t, r) \in Requests
    /\ \A t \in {AUDIT_GET, AUDIT_LIST_RULES} : RuleRequest(t, NoRule) \in Requests
BY ConstantsAssumption DEF SetRequest, RuleRequest, Requests, StatusFields

\* The status of a message that carries none is a status.
LEMMA NoStatusType == NoStatus \in Status
BY ConstantsAssumption DEF NoStatus, Status

\* The fields of the messages the kernel builds.
LEMMA MessageFields ==
    /\ \A t, n, p : Message(t, n, p) =
         [type |-> t, seq |-> n, pid |-> p, code |-> 0, rule |-> NoRule, status |-> NoStatus]
    /\ \A n, e : Ack(n, e) =
         [type |-> 2, seq |-> n, pid |-> SockPid, code |-> e, rule |-> NoRule, status |-> NoStatus]
    /\ \A n, r : RuleReply(n, r) =
         [type |-> 1013, seq |-> n, pid |-> ReplyPid, code |-> 0, rule |-> r, status |-> NoStatus]
    /\ \A n, s : StatusReply(n, s) =
         [type |-> 1000, seq |-> n, pid |-> ReplyPid, code |-> 0, rule |-> NoRule, status |-> s]
BY DEF Message, Ack, RuleReply, StatusReply

\* What the kernel builds are messages.
LEMMA MessageTypes ==
    /\ \A n \in Nat, e \in Int : Ack(n, e) \in Messages
    /\ \A n \in Nat, r \in Rules : RuleReply(n, r) \in Messages
    /\ \A n \in Nat, s \in Status : StatusReply(n, s) \in Messages
    /\ \A n \in Nat : DoneReply(n) \in Messages
    /\ \A t \in EventTypes : Event(t) \in Messages
BY MessageFields, NoStatusType, ConstantsAssumption DEF Messages, DoneReply, Event

\* The replies to GET and LIST are messages.
LEMMA RepliesType ==
    ASSUME NEW q \in Requests, NEW n \in Nat, krules \subseteq Rules, kstatus \in Status
    PROVE  Replies(q, n) \subseteq Messages
BY MessageTypes DEF Replies

(***************************************************************************)
(* A request that is sent, and a message that is queued or taken, keep the *)
(* queues well typed.                                                      *)
(***************************************************************************)
LEMMA InboxGrows ==
    ASSUME CallType, WireType, NEW q \in Requests, Send(q) \/ UNCHANGED inbox,
           sequenceNumber' = NextSeq
    PROVE  inbox' \in Seq([q: Requests, seq: 1..sequenceNumber'])
<1> DEFINE S == [q: Requests, seq: 1..sequenceNumber']
<1>1. sequenceNumber \in Nat /\ sequenceNumber' = sequenceNumber + 1
  BY DEF CallType, NextSeq
<1> DEFINE R == [q: Requests, seq: 1..sequenceNumber]
<1>2. R \subseteq S
  BY <1>1
<1>3. inbox \in Seq(R)
  BY DEF WireType
<1>4. [q |-> q, seq |-> NextSeq] \in S
  BY <1>1 DEF NextSeq
<1>5. inbox \in Seq(S) => Append(inbox, [q |-> q, seq |-> NextSeq]) \in Seq(S)
  <2> HIDE DEF S
  <2> QED BY <1>4
<1>6. inbox \in Seq(S)
  <2> HIDE DEF R, S
  <2> QED BY <1>2, <1>3, SeqMonotonic
<1> QED BY <1>5, <1>6, Zenon DEF Send

\* A message taken off the queue is a message, and the rest stays a queue of them.
LEMMA ReceiveType ==
    ASSUME WireType, FlagType, Receive
    PROVE  /\ queue' \in Seq(Messages)
           /\ overrun' \in BOOLEAN /\ refused' \in BOOLEAN
           /\ msg \in Messages
<1>1. queue' \in Seq(Messages) /\ msg \in Messages
  BY HeadTailProperties DEF WireType, Receive, msg
<1>2. overrun' \in BOOLEAN /\ refused' \in BOOLEAN
  BY DEF FlagType, Receive
<1> QED BY <1>1, <1>2

\* A receive that fails leaves a queue of messages.
LEMMA ReceiveFailsType ==
    ASSUME WireType, FlagType, ReceiveFails
    PROVE  queue' \in Seq(Messages) /\ overrun' \in BOOLEAN /\ refused' \in BOOLEAN
<1>1. queue' \in Seq(Messages)
  <2>1. queue \in Seq(Messages)
    BY DEF WireType
  <2>2. queue' = queue \/ (queue # <<>> /\ queue' = Tail(queue))
    BY DEF ReceiveFails
  <2> QED BY <2>1, <2>2, HeadTailProperties
<1>2. overrun' \in BOOLEAN /\ refused' \in BOOLEAN
  BY Zenon DEF FlagType, ReceiveFails
<1> QED BY <1>1, <1>2

(***************************************************************************)
(* Every step keeps the types: first the starts of calls, then the steps   *)
(* of a running call, then those of the kernel.                            *)
(***************************************************************************)
LEMMA BeginType ==
    ASSUME TypeOK, NEW name \in Calls, NEW where \in {"open", "work"},
           NEW reqs \in SUBSET Requests, Begin(name, where, reqs),
           name = "SetRules" => \A q \in reqs : q.type = AUDIT_ADD_RULE
    PROVE  TypeOK'
<1>1. CallType'
  BY NoStatusType DEF TypeOK, CallType, Begin
<1>2. FlagType'
  BY Zenon DEF TypeOK, FlagType, Begin
<1>3. WireType'
  BY DEF TypeOK, WireType, Begin
<1>4. KernelType'
  BY NoStatusType DEF TypeOK, KernelType, Begin
<1> QED BY <1>1, <1>2, <1>3, <1>4 DEF TypeOK

\* The start of a call: one case per exported function.
LEMMA StartCallType == ASSUME TypeOK, StartCall PROVE TypeOK'
<1>1. ASSUME NEW v \in Values,
             \/ AuditSetEnabled(v) \/ AuditSetPID(v) \/ AuditSetRateLimit(v)
             \/ AuditSetBacklogLimit(v) \/ AuditSetFlags(v)
      PROVE  TypeOK'
  <2>1. /\ {SetRequest("enabled", v)} \in SUBSET Requests
        /\ {SetRequest("pid", v)} \in SUBSET Requests
        /\ {SetRequest("rate", v)} \in SUBSET Requests
        /\ {SetRequest("backlog", v)} \in SUBSET Requests
        /\ {SetRequest("failure", v)} \in SUBSET Requests
    BY RequestTypes DEF StatusFields
  <2> QED BY <1>1, <2>1, BeginType DEF AuditSetEnabled, AuditSetPID, AuditSetRateLimit,
             AuditSetBacklogLimit, AuditSetFlags, Calls, Setters
<1>2. ASSUME NEW S \in SUBSET Rules,
             SetRules(S) \/ CleanupRules(S) \/ RemoveStaleLWAuditRules(S)
      PROVE  TypeOK'
  <2>1. /\ {RuleRequest(AUDIT_ADD_RULE, r) : r \in S} \in SUBSET Requests
        /\ {RuleRequest(AUDIT_DEL_RULE, r) : r \in S} \in SUBSET Requests
        /\ {RuleRequest(AUDIT_DEL_RULE, r) : r \in S \cap LWRules} \in SUBSET Requests
    BY RequestTypes
  <2>2. \A q \in {RuleRequest(AUDIT_ADD_RULE, r) : r \in S} : q.type = AUDIT_ADD_RULE
    BY DEF RuleRequest
  <2>3. /\ "SetRules" \in Calls /\ "CleanupRules" \in Calls /\ "RemoveStaleLWAuditRules" \in Calls
        /\ "CleanupRules" # "SetRules" /\ "RemoveStaleLWAuditRules" # "SetRules"
    BY DEF Calls
  <2> DEFINE add == {RuleRequest(AUDIT_ADD_RULE, r) : r \in S}
             del == {RuleRequest(AUDIT_DEL_RULE, r) : r \in S}
             stale == {RuleRequest(AUDIT_DEL_RULE, r) : r \in S \cap LWRules}
  <2>4. \/ Begin("SetRules", "work", add) \/ Begin("CleanupRules", "open", del)
        \/ Begin("RemoveStaleLWAuditRules", "work", stale)
    BY <1>2 DEF SetRules, CleanupRules, RemoveStaleLWAuditRules
  <2>5. add \in SUBSET Requests /\ del \in SUBSET Requests /\ stale \in SUBSET Requests
    BY <2>1
  <2>6. \A q \in add : q.type = AUDIT_ADD_RULE
    BY <2>2
  <2> HIDE DEF add, del, stale
  <2>7. CASE Begin("SetRules", "work", add)
    BY <2>3, <2>5, <2>6, <2>7, BeginType
  <2>8. CASE Begin("CleanupRules", "open", del)
    BY <2>3, <2>5, <2>8, BeginType
  <2>9. CASE Begin("RemoveStaleLWAuditRules", "work", stale)
    BY <2>3, <2>5, <2>9, BeginType
  <2> QED BY <2>4, <2>7, <2>8, <2>9
<1>3. ASSUME AuditIsEnabled \/ ListAllRules \/ DeleteAllRules
      PROVE  TypeOK'
  <2>1. PICK name \in {"AuditIsEnabled", "ListAllRules", "DeleteAllRules"} : Begin(name, "open", {})
    BY <1>3 DEF AuditIsEnabled, ListAllRules, DeleteAllRules
  <2>2. name \in Calls /\ name # "SetRules" /\ {} \in SUBSET Requests
    BY DEF Calls
  <2> QED BY <2>1, <2>2, BeginType
<1> QED BY <1>1, <1>2, <1>3 DEF StartCall

\* Sending an acknowledged request keeps the types.
LEMMA SendRequestType == ASSUME TypeOK, SendRequest PROVE TypeOK'
<1>1. PICK q \in todo : /\ SendOne(q)
                        /\ todo' = todo \ {q}
                        /\ got' = got \cup {r \in {q.rule} : op = "SetRules"}
  BY DEF SendRequest
<1>2. q \in Requests /\ sequenceNumber \in Nat
  BY DEF TypeOK, CallType
<1>3. sequenceNumber' \in {sequenceNumber, sequenceNumber + 1}
  BY <1>1 DEF SendOne, NextSeq
<1>4. got' \subseteq Rules
  BY <1>1, <1>2 DEF TypeOK, CallType, Requests
<1>5. CallType'
  <2>1. /\ pc' \in {"work", "ack"} /\ err' \in {"nil", "error"}
        /\ UNCHANGED <<op, result, stat, first>>
    BY <1>1 DEF SendOne, RoundEnds, TypeOK, CallType
  <2>2. cur' \in 0..sequenceNumber'
    BY <1>1 DEF SendOne, NextSeq, TypeOK, CallType
  <2> QED BY <1>1, <1>2, <1>3, <1>4, <2>1, <2>2 DEF TypeOK, CallType
<1>6. FlagType'
  BY <1>1, Zenon DEF SendRequest, SendOne, RoundEnds, TypeOK, FlagType
<1>7. WireType'
  <2>1. inbox' \in Seq([q: Requests, seq: 1..sequenceNumber'])
    BY <1>1, <1>2, InboxGrows, Zenon DEF SendOne, TypeOK, WireType
  <2> QED BY <2>1 DEF SendRequest, kernel, TypeOK, WireType
<1>8. KernelType'
  BY <1>2, <1>3 DEF SendRequest, kernel, TypeOK, KernelType
<1> QED BY <1>5, <1>6, <1>7, <1>8 DEF TypeOK

\* So does the return of a call that waits for acknowledgements.
LEMMA ReturnFromWorkType == ASSUME TypeOK, ReturnFromWork PROVE TypeOK'
<1>1. CallType'
  BY DEF ReturnFromWork, Return, TypeOK, CallType
<1>2. FlagType'
  BY Zenon DEF ReturnFromWork, Return, TypeOK, FlagType
<1>3. WireType' /\ KernelType'
  BY DEF ReturnFromWork, kernel, TypeOK, WireType, KernelType
<1> QED BY <1>1, <1>2, <1>3 DEF TypeOK

\* So does an iteration of auditGetReply.
LEMMA AuditGetReplyType == ASSUME TypeOK, AuditGetReply PROVE TypeOK'
<1>1. /\ queue' \in Seq(Messages) /\ overrun' \in BOOLEAN /\ refused' \in BOOLEAN
  BY ReceiveType, ReceiveFailsType DEF AuditGetReply, TypeOK
<1>2. CallType'
  BY DEF AuditGetReply, RoundEnds, Continue, TypeOK, CallType
<1>3. FlagType'
  BY <1>1, Zenon DEF AuditGetReply, RoundEnds, Continue, TypeOK, FlagType
<1>4. WireType' /\ KernelType'
  BY <1>1 DEF AuditGetReply, kernel, TypeOK, WireType, KernelType
<1> QED BY <1>2, <1>3, <1>4 DEF TypeOK

\* So does the sending of a GET or LIST request.
LEMMA SendQueryType == ASSUME TypeOK, SendQuery PROVE TypeOK'
<1> DEFINE q == RuleRequest(IF op = "AuditIsEnabled" THEN AUDIT_GET ELSE AUDIT_LIST_RULES,
                            NoRule)
<1>1. /\ sequenceNumber' = NextSeq /\ cur' = NextSeq
      /\ Send(q) \/ UNCHANGED inbox
      /\ sequenceNumber \in Nat
  BY DEF SendQuery, TypeOK, CallType
<1>2. CallType'
  <2>1. /\ pc' \in {"idle", "work"} \cup Loops
        /\ UNCHANGED <<op, first>> /\ todo' \subseteq todo
        /\ err' \in {"nil", "error"} /\ result' \in {"none", "nil", "error", "minus1"}
    BY DEF SendQuery, ListEnds, Return, TypeOK, CallType, Loops
  <2> QED BY <1>1, <2>1 DEF SendQuery, NextSeq, TypeOK, CallType
<1>3. FlagType'
  BY Zenon DEF SendQuery, ListEnds, Return, TypeOK, FlagType
<1>4. WireType'
  <2>1. q \in Requests
    BY RequestTypes
  <2>2. inbox' \in Seq([q: Requests, seq: 1..sequenceNumber'])
    <3> HIDE DEF q
    <3>1. CallType /\ WireType
      BY DEF TypeOK
    <3> QED BY <1>1, <2>1, <3>1, InboxGrows, Zenon
  <2> QED BY <2>2 DEF SendQuery, kernel, TypeOK, WireType
<1>5. KernelType'
  BY <1>1 DEF SendQuery, NextSeq, kernel, TypeOK, KernelType
<1> QED BY <1>2, <1>3, <1>4, <1>5 DEF TypeOK

\* So does an iteration of the loop of AuditIsEnabled.
LEMMA AuditIsEnabledLoopType == ASSUME TypeOK, AuditIsEnabledLoop PROVE TypeOK'
<1>1. queue' \in Seq(Messages) /\ overrun' \in BOOLEAN /\ refused' \in BOOLEAN
  BY ReceiveType, ReceiveFailsType DEF AuditIsEnabledLoop, TypeOK
<1>2. stat' \in Status
  <2>1. CASE Receive
    BY <2>1, ReceiveType DEF AuditIsEnabledLoop, TypeOK, CallType, Messages
  <2>2. CASE UNCHANGED stat
    BY <2>2 DEF TypeOK, CallType
  <2> QED BY <2>1, <2>2 DEF AuditIsEnabledLoop
<1>3. CallType'
  BY <1>2 DEF AuditIsEnabledLoop, Return, Continue, TypeOK, CallType
<1>4. FlagType'
  BY <1>1 DEF AuditIsEnabledLoop, Return, Continue, TypeOK, FlagType
<1>5. WireType' /\ KernelType'
  BY <1>1 DEF AuditIsEnabledLoop, kernel, TypeOK, WireType, KernelType
<1> QED BY <1>3, <1>4, <1>5 DEF TypeOK

\* So does an iteration of the loop of ListAllRules.
LEMMA ListAllRulesLoopType == ASSUME TypeOK, ListAllRulesLoop PROVE TypeOK'
<1>1. queue' \in Seq(Messages) /\ overrun' \in BOOLEAN /\ refused' \in BOOLEAN
  BY ReceiveType, ReceiveFailsType DEF ListAllRulesLoop, TypeOK
<1>2. got' \subseteq Rules
  <2>1. CASE UNCHANGED got
    BY <2>1 DEF TypeOK, CallType
  <2>2. CASE Receive /\ msg.type = AUDIT_LIST_RULES /\ got' = got \cup {msg.rule}
    BY <2>2, ReceiveType DEF TypeOK, CallType, Messages
  <2> QED BY <2>1, <2>2 DEF ListAllRulesLoop
<1>3. CallType'
  <2>1. /\ pc' \in {"idle", "work", "list"}
        /\ UNCHANGED <<op, first>> /\ todo' \subseteq todo
        /\ err' \in {"nil", "error"} /\ result' \in {"none", "nil", "error", "minus1"}
    BY DEF ListAllRulesLoop, ListEnds, Return, Continue, TypeOK, CallType
  <2> QED BY <1>2, <2>1 DEF ListAllRulesLoop, TypeOK, CallType, Loops
<1>4. FlagType'
  BY <1>1 DEF ListAllRulesLoop, ListEnds, Return, Continue, TypeOK, FlagType
<1>5. WireType' /\ KernelType'
  BY <1>1 DEF ListAllRulesLoop, kernel, TypeOK, WireType, KernelType
<1> QED BY <1>3, <1>4, <1>5 DEF TypeOK

\* So does an iteration of the loop of DeleteAllRules, which also sends.
LEMMA DeleteAllRulesLoopType == ASSUME TypeOK, DeleteAllRulesLoop PROVE TypeOK'
<1>1. queue' \in Seq(Messages) /\ overrun' \in BOOLEAN /\ refused' \in BOOLEAN
  BY ReceiveType, ReceiveFailsType DEF DeleteAllRulesLoop, TypeOK
<1>2. /\ sequenceNumber \in Nat
      /\ sequenceNumber' \in {sequenceNumber, sequenceNumber + 1}
      /\ got' \subseteq Rules
      /\ inbox' \in Seq([q: Requests, seq: 1..sequenceNumber'])
  <2>1. CASE UNCHANGED <<sequenceNumber, got, inbox>>
    BY <2>1 DEF TypeOK, CallType, WireType
  <2>2. CASE Receive /\ msg.type = AUDIT_LIST_RULES /\ SendsBack
    <3>1. msg.rule \in Rules
      BY <2>2, ReceiveType DEF TypeOK, Messages
    <3>2. RuleRequest(AUDIT_DEL_RULE, msg.rule) \in Requests
      BY <3>1, RequestTypes
    <3>3. inbox' \in Seq([q: Requests, seq: 1..sequenceNumber'])
      <4>1. Send(RuleRequest(AUDIT_DEL_RULE, msg.rule)) \/ UNCHANGED inbox
        BY <2>2 DEF SendsBack
      <4>2. sequenceNumber' = NextSeq
        BY <2>2 DEF SendsBack
      <4>3. CallType /\ WireType
        BY DEF TypeOK
      <4> DEFINE q == RuleRequest(AUDIT_DEL_RULE, msg.rule)
      <4>4. q \in Requests /\ (Send(q) \/ UNCHANGED inbox)
        BY <3>2, <4>1
      <4> HIDE DEF q
      <4> QED BY <4>2, <4>3, <4>4, InboxGrows, Zenon
    <3> QED BY <2>2, <3>1, <3>3 DEF SendsBack, NextSeq, TypeOK, CallType
  <2> QED BY <2>1, <2>2 DEF DeleteAllRulesLoop
<1>3. CallType'
  <2>1. /\ pc' \in {"idle", "dellist"} /\ UNCHANGED <<op, first, err>>
        /\ result' \in {"none", "nil", "error", "minus1"}
    BY DEF DeleteAllRulesLoop, SendsBack, Return, Continue, TypeOK, CallType
  <2> QED BY <1>2, <2>1 DEF DeleteAllRulesLoop, TypeOK, CallType, Loops
<1>4. FlagType'
  BY <1>1 DEF DeleteAllRulesLoop, SendsBack, Return, Continue, TypeOK, FlagType
<1>5. WireType' /\ KernelType'
  BY <1>1, <1>2 DEF DeleteAllRulesLoop, kernel, TypeOK, WireType, KernelType
<1> QED BY <1>3, <1>4, <1>5 DEF TypeOK

\* A message appended to the queue leaves a queue of messages.
LEMMA QueueGrows ==
    ASSUME WireType, NEW m \in Messages, queue' = Append(queue, m)
    PROVE  queue' \in Seq(Messages)
BY AppendProperties DEF WireType

\* Handling a request keeps the types, whatever its outcome.
LEMMA HandleType ==
    ASSUME TypeOK, NEW q \in Requests, NEW n \in 1..sequenceNumber, NEW e \in Int,
           Handle(q, n, e)
    PROVE  /\ KernelType' \/ sequenceNumber' # sequenceNumber
           /\ queue' \in Seq(Messages) /\ overrun' \in BOOLEAN
           /\ owed' \subseteq Messages
<1>1. n \in Nat /\ krules \subseteq Rules /\ kstatus \in Status /\ q.value \in Values
  BY DEF TypeOK, CallType, KernelType, Requests
<1>2. queue' \in Seq(Messages)
  <2>1. Ack(n, e) \in Messages
    BY <1>1, MessageTypes
  <2> QED BY <2>1, QueueGrows DEF Handle, TypeOK, WireType
<1>3. overrun' \in BOOLEAN
  BY Zenon DEF Handle, TypeOK, FlagType
<1>4. owed' \subseteq Messages
  BY <1>1, RepliesType DEF Handle, TypeOK, WireType
<1>5. ASSUME sequenceNumber' = sequenceNumber PROVE KernelType'
  <2>1. krules' \subseteq Rules
    BY <1>1 DEF Handle, Requests
  <2>2. kstatus' \in Status
    <3>1. kstatus' = [kstatus EXCEPT ![q.field] = q.value] \/ kstatus' = kstatus
      BY DEF Handle
    <3> QED BY <1>1, <3>1 DEF Status
  <2>3. accepted' \subseteq 1..sequenceNumber
    BY DEF Handle, TypeOK, KernelType
  <2>4. seen' \in [handled: BOOLEAN, rules: SUBSET Rules, status: Status]
    BY <1>1 DEF Handle, TypeOK, KernelType
  <2> QED BY <1>5, <2>1, <2>2, <2>3, <2>4 DEF KernelType
<1> QED BY <1>2, <1>3, <1>4, <1>5

\* Error numbers are integers.
LEMMA OutcomesType == ASSUME NEW q PROVE Outcomes(q) \subseteq Int
BY ConstantsAssumption DEF Outcomes

\* The kernel takes the oldest request and handles it.
LEMMA KernelHandleType == ASSUME TypeOK, KernelHandle PROVE TypeOK'
<1> DEFINE R == [q: Requests, seq: 1..sequenceNumber]
<1>1. Head(inbox) \in R /\ inbox' \in Seq(R)
  <2>1. inbox \in Seq(R) /\ inbox # <<>> /\ inbox' = Tail(inbox)
    BY DEF KernelHandle, TypeOK, WireType
  <2> HIDE DEF R
  <2> QED BY <2>1, HeadTailProperties
<1>2. PICK e \in Int : Handle(Head(inbox).q, Head(inbox).seq, e)
  BY OutcomesType, SMTT(20) DEF KernelHandle
<1>3. /\ KernelType' \/ sequenceNumber' # sequenceNumber
      /\ queue' \in Seq(Messages) /\ overrun' \in BOOLEAN
      /\ owed' \subseteq Messages
  <2>1. Head(inbox).q \in Requests /\ Head(inbox).seq \in 1..sequenceNumber
    BY <1>1
  <2> QED BY <1>2, <2>1, HandleType
<1>4. UNCHANGED client
  BY DEF KernelHandle
<1>5. CallType'
  BY <1>4 DEF client, TypeOK, CallType
<1>6. FlagType'
  BY <1>3, <1>4 DEF client, TypeOK, FlagType
<1>7. WireType'
  BY <1>1, <1>3, <1>4 DEF client, WireType
<1>8. KernelType'
  BY <1>3, <1>4 DEF client
<1> QED BY <1>5, <1>6, <1>7, <1>8 DEF TypeOK

\* Replies, events and other processes keep the types.
LEMMA OtherKernelStepsType ==
    ASSUME TypeOK, KernelReply \/ KernelEvent \/ OtherProcessStep
    PROVE  TypeOK'
<1>1. UNCHANGED <<client, kstatus, accepted, seen, inbox, overrun>>
  BY DEF KernelReply, KernelEvent, OtherProcessStep, kernel
<1>2. queue' \in Seq(Messages) /\ owed' \subseteq Messages
  <2>1. CASE KernelReply
    BY <2>1, QueueGrows DEF KernelReply, TypeOK, WireType
  <2>2. CASE KernelEvent
    BY <2>2, QueueGrows, MessageTypes DEF KernelEvent, kernel, TypeOK, WireType
  <2>3. CASE OtherProcessStep
    BY <2>3 DEF OtherProcessStep, TypeOK, WireType
  <2> QED BY <2>1, <2>2, <2>3
<1>3. krules' \subseteq Rules
  BY DEF KernelReply, KernelEvent, OtherProcessStep, kernel, TypeOK, KernelType
<1>4. CallType'
  BY <1>1 DEF client, TypeOK, CallType
<1>5. FlagType'
  BY <1>1 DEF client, TypeOK, FlagType
<1>6. WireType' /\ KernelType'
  BY <1>1, <1>2, <1>3 DEF client, TypeOK, WireType, KernelType
<1> QED BY <1>4, <1>5, <1>6 DEF TypeOK

(***************************************************************************)
(* Type correctness: the variables of the calls, of the wire and of the    *)
(* kernel keep their types, so that no call waits for a sequence number    *)
(* that newNetlinkAuditRequest has not issued, and no request reaches the  *)
(* kernel with one.                                                        *)
(***************************************************************************)
THEOREM TypeCorrect == Spec => []TypeOK
<1>1. Init => TypeOK
  <2> SUFFICES ASSUME Init PROVE TypeOK
    OBVIOUS
  <2>1. CallType
    BY NoStatusType DEF Init, CallType
  <2>2. FlagType
    BY Zenon DEF Init, FlagType
  <2>3. WireType
    BY EmptySeq DEF Init, WireType
  <2>4. KernelType
    BY NoStatusType DEF Init, KernelType
  <2> QED BY <2>1, <2>2, <2>3, <2>4 DEF TypeOK
<1>2. TypeOK /\ [Next]_vars => TypeOK'
  <2> SUFFICES ASSUME TypeOK, [Next]_vars PROVE TypeOK'
    OBVIOUS
  <2>1. CASE UNCHANGED vars
    <3>1. CallType'
      BY <2>1 DEF vars, client, TypeOK, CallType
    <3>2. FlagType'
      BY <2>1, Zenon DEF vars, client, TypeOK, FlagType
    <3>3. WireType' /\ KernelType'
      BY <2>1 DEF vars, client, kernel, TypeOK, WireType, KernelType
    <3> QED BY <3>1, <3>2, <3>3 DEF TypeOK
  <2>2. CASE ClientStep
    BY <2>2, SendRequestType, ReturnFromWorkType, AuditGetReplyType, SendQueryType,
       AuditIsEnabledLoopType, ListAllRulesLoopType, DeleteAllRulesLoopType DEF ClientStep
  <2> QED BY <2>1, <2>2, StartCallType, KernelHandleType, OtherKernelStepsType DEF Next
<1> QED BY <1>1, <1>2, PTL DEF Spec
=============================================================================
