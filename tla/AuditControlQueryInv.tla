------------------------ MODULE AuditControlQueryInv ------------------------
(***************************************************************************)
(* The inductive invariant of the three queries of AuditControl, and that  *)
(* the steps of the calls of libaudit.go and rules.go keep it.             *)
(***************************************************************************)
EXTENDS AuditControlProofs

USE DEF NLMSG_ERROR, NLMSG_DONE, AUDIT_GET, AUDIT_SET, AUDIT_ADD_RULE,
        AUDIT_DEL_RULE, AUDIT_LIST_RULES, AUDIT_FIRST_USER_MSG

(***************************************************************************)
(* The inductive invariant behind the three queries. A number is issued    *)
(* once, the inbox holds numbers in the order they were issued, and until  *)
(* the kernel has handled the request a loop waits for, nothing that is in *)
(* transit bears its number. From then on what the loop has collected and  *)
(* what is in transit make up the kernel's rules at that moment, and       *)
(* NLMSG_DONE comes last.                                                  *)
(***************************************************************************)
Queued == {queue[i] : i \in 1..Len(queue)}
InTransit == Queued \cup owed
Answers(t) == {m \in InTransit : m.seq = cur /\ m.type = t}
Unread == {m.rule : m \in Answers(AUDIT_LIST_RULES)}
CurNotSent == \A i \in 1..Len(inbox) : inbox[i].seq # cur

CallShape ==
    /\ pc = "open" => /\ op \in {"AuditIsEnabled", "ListAllRules", "DeleteAllRules", "CleanupRules"}
                      /\ cur <= first /\ ~seen.handled /\ got = {}
    /\ pc = "status" => op = "AuditIsEnabled"
    /\ pc = "list" => op \in {"ListAllRules", "CleanupRules"}
    /\ pc = "dellist" => op = "DeleteAllRules"
    /\ pc \in {"work", "ack"} => op \notin {"AuditIsEnabled", "ListAllRules", "DeleteAllRules"}
Numbers ==
    /\ \A i, j \in 1..Len(inbox) : i < j => inbox[i].seq < inbox[j].seq
    /\ \A m \in InTransit : m.seq <= sequenceNumber
Awaited ==
    pc \in Loops =>
        /\ cur > first
        /\ ~seen.handled => got = {} /\ \A m \in InTransit : m.seq # cur
        /\ seen.handled => CurNotSent
        /\ \A m \in Answers(AUDIT_GET) : m.status = seen.status
DoneIsLast ==
    pc \in {"list", "dellist"} =>
        \A i \in 1..Len(queue) :
            queue[i].seq = cur /\ queue[i].type = NLMSG_DONE =>
                /\ \A m \in owed : m.seq = cur => m.type # AUDIT_LIST_RULES
                /\ \A j \in (i + 1)..Len(queue) :
                     queue[j].seq = cur => queue[j].type # AUDIT_LIST_RULES
Collected ==
    pc \in {"list", "dellist"} /\ Answers(NLMSG_DONE) # {} => got \cup Unread = seen.rules
Outcome ==
    /\ Returned("ListAllRules", "nil") \/ Returned("DeleteAllRules", "nil")
         => seen.handled /\ got = seen.rules /\ CurNotSent
    /\ Returned("AuditIsEnabled", "nil") => seen.handled /\ stat = seen.status /\ CurNotSent
QueryInv == CallShape /\ Numbers /\ Awaited /\ DoneIsLast /\ Collected /\ Outcome

\* What is left of the queue is what was there, one place further on.
LEMMA QueueShrinks ==
    ASSUME TypeOK, queue # <<>>, queue' = Tail(queue)
    PROVE  /\ msg \in Queued /\ msg = queue[1] /\ msg \in Messages
           /\ Queued' \subseteq Queued /\ Queued \subseteq Queued' \cup {msg}
           /\ Len(queue') = Len(queue) - 1 /\ Len(queue) \in Nat \ {0}
           /\ \A i \in 1..Len(queue') : queue'[i] = queue[i + 1]
<1>1. queue \in Seq(Messages)
  BY DEF TypeOK, WireType
<1>2. /\ Len(queue') = Len(queue) - 1 /\ Len(queue) \in Nat \ {0}
      /\ \A i \in 1..Len(queue') : queue'[i] = queue[i + 1]
      /\ msg = queue[1] /\ msg \in Messages
  BY <1>1, HeadTailProperties, EmptySeq DEF msg
<1>3. msg \in Queued
  BY <1>2 DEF Queued
<1>4. Queued' \subseteq Queued
  BY <1>2 DEF Queued
<1>5. Queued \subseteq Queued' \cup {msg}
  <2> SUFFICES ASSUME NEW i \in 1..Len(queue), queue[i] # msg
               PROVE  \E k \in 1..Len(queue') : queue[i] = queue'[k]
    BY DEF Queued
  <2>1. i - 1 \in 1..Len(queue')
    BY <1>2
  <2>2. queue'[i - 1] = queue[(i - 1) + 1] /\ (i - 1) + 1 = i
    BY <1>2, <2>1
  <2> QED BY <2>1, <2>2
<1> QED BY <1>2, <1>3, <1>4, <1>5

\* What was in the queue stays in its place when a message is appended.
LEMMA QueueAppended ==
    ASSUME TypeOK, NEW m \in Messages, queue' = Append(queue, m)
    PROVE  /\ Queued' = Queued \cup {m}
           /\ Len(queue) \in Nat /\ Len(queue') = Len(queue) + 1
           /\ \A i \in 1..Len(queue) : queue'[i] = queue[i]
           /\ queue'[Len(queue) + 1] = m
<1>1. queue \in Seq(Messages)
  BY DEF TypeOK, WireType
<1>2. /\ Len(queue) \in Nat /\ Len(queue') = Len(queue) + 1
      /\ \A i \in 1..Len(queue) : queue'[i] = queue[i]
      /\ queue'[Len(queue) + 1] = m
  BY <1>1, AppendProperties
<1> QED BY <1>2 DEF Queued

\* Requests on the wire have numbers up to sequenceNumber.
LEMMA InboxElements ==
    ASSUME TypeOK
    PROVE  /\ Len(inbox) \in Nat
           /\ \A i \in 1..Len(inbox) : inbox[i].seq \in 1..sequenceNumber
<1> DEFINE R == [q: Requests, seq: 1..sequenceNumber]
<1>1. inbox \in Seq(R)
  BY DEF TypeOK, WireType
<1>2. Len(inbox) \in Nat /\ \A i \in 1..Len(inbox) : inbox[i] \in R
  <2> HIDE DEF R
  <2> QED BY <1>1, ElementOfSeq
<1> QED BY <1>2

\* What was in the inbox stays in its place when a request is appended.
LEMMA InboxAppended ==
    ASSUME TypeOK, NEW q, Send(q)
    PROVE  /\ Len(inbox') = Len(inbox) + 1
           /\ \A i \in 1..Len(inbox) : inbox'[i] = inbox[i]
           /\ inbox'[Len(inbox) + 1].seq = sequenceNumber + 1
<1>1. inbox \in Seq([q: Requests, seq: 1..sequenceNumber])
  BY DEF TypeOK, WireType
<1>2. DOMAIN inbox = 1..Len(inbox) /\ Len(inbox) \in Nat
  BY <1>1
<1> QED BY <1>1 DEF Send, NextSeq

(***************************************************************************)
(* Parts of the invariant that many steps keep for the same reason.        *)
(***************************************************************************)
LEMMA NumbersKept ==
    ASSUME TypeOK, Numbers, InTransit' \subseteq InTransit,
           \/ inbox' = inbox /\ sequenceNumber' \in {sequenceNumber, NextSeq}
           \/ (\E q : Send(q)) /\ sequenceNumber' = NextSeq
    PROVE  Numbers'
<1>1. sequenceNumber \in Nat /\ sequenceNumber' \in {sequenceNumber, sequenceNumber + 1}
  BY DEF TypeOK, CallType, NextSeq
<1>2. \A m \in InTransit : m.seq \in Nat
  <2>1. \A i \in 1..Len(queue) : queue[i] \in Messages
    BY ElementOfSeq DEF TypeOK, WireType
  <2> QED BY <2>1 DEF InTransit, Queued, TypeOK, WireType, Messages
<1>3. \A m \in InTransit' : m.seq <= sequenceNumber'
  BY <1>1, <1>2 DEF Numbers
<1>4. \A i, j \in 1..Len(inbox') : i < j => inbox'[i].seq < inbox'[j].seq
  <2>1. CASE inbox' = inbox
    BY <2>1 DEF Numbers
  <2>2. CASE \E q : Send(q)
    BY <1>1, <2>2, InboxAppended, InboxElements DEF Numbers
  <2> QED BY <2>1, <2>2
<1> QED BY <1>3, <1>4 DEF Numbers

\* Outside the receive loops of queries the invariant says nothing of replies.
LEMMA OutsideLoops ==
    ASSUME pc' \notin Loops
    PROVE  Awaited' /\ DoneIsLast' /\ Collected'
BY DEF Awaited, DoneIsLast, Collected, Loops

\* A call that returns an error, or no query, has no outcome to vouch for.
LEMMA NoOutcome ==
    ASSUME pc' # "idle" \/ result' # "nil"
               \/ op' \notin {"AuditIsEnabled", "ListAllRules", "DeleteAllRules"}
    PROVE  Outcome'
BY DEF Outcome, Returned

(***************************************************************************)
(* Steps outside the receive loops of the queries.                         *)
(***************************************************************************)
LEMMA BeginInv ==
    ASSUME TypeOK, QueryInv, NEW name, NEW where, NEW reqs, Begin(name, where, reqs),
           \/ where = "work" /\ name \notin {"AuditIsEnabled", "ListAllRules", "DeleteAllRules"}
           \/ where = "open" /\ name \in {"AuditIsEnabled", "ListAllRules", "DeleteAllRules",
                                          "CleanupRules"}
    PROVE  QueryInv'
<1>1. CallShape'
  BY DEF Begin, CallShape, TypeOK, CallType
<1>2. Numbers'
  BY DEF Begin, QueryInv, Numbers, InTransit, Queued
<1>3. Awaited' /\ DoneIsLast' /\ Collected' /\ Outcome'
  BY OutsideLoops, NoOutcome DEF Begin, Loops
<1> QED BY <1>1, <1>2, <1>3 DEF QueryInv

\* A new call waits for nothing yet.
LEMMA StartCallInv == ASSUME TypeOK, QueryInv, StartCall PROVE QueryInv'
<1>1. ASSUME NEW v, \/ AuditSetEnabled(v) \/ AuditSetPID(v) \/ AuditSetRateLimit(v)
                    \/ AuditSetBacklogLimit(v) \/ AuditSetFlags(v)
      PROVE  QueryInv'
  BY <1>1, BeginInv DEF AuditSetEnabled, AuditSetPID, AuditSetRateLimit,
     AuditSetBacklogLimit, AuditSetFlags
<1>2. ASSUME NEW S, SetRules(S) \/ CleanupRules(S) \/ RemoveStaleLWAuditRules(S)
      PROVE  QueryInv'
  BY <1>2, BeginInv DEF SetRules, CleanupRules, RemoveStaleLWAuditRules
<1>3. ASSUME AuditIsEnabled \/ ListAllRules \/ DeleteAllRules
      PROVE  QueryInv'
  BY <1>3, BeginInv DEF AuditIsEnabled, ListAllRules, DeleteAllRules
<1> QED BY <1>1, <1>2, <1>3 DEF StartCall

\* An acknowledged request is no query.
LEMMA SendRequestInv == ASSUME TypeOK, QueryInv, SendRequest PROVE QueryInv'
<1>1. PICK q \in todo : SendOne(q)
  BY DEF SendRequest
<1>2. pc' \in {"work", "ack"} /\ op' = op /\ pc = "work"
  BY <1>1 DEF SendRequest, SendOne, RoundEnds
<1>3. CallShape'
  BY <1>2 DEF QueryInv, CallShape
<1>4. Numbers'
  <2>1. InTransit' = InTransit
    BY DEF SendRequest, kernel, InTransit, Queued
  <2>2. \/ inbox' = inbox /\ sequenceNumber' \in {sequenceNumber, NextSeq}
        \/ Send(q) /\ sequenceNumber' = NextSeq
    BY <1>1 DEF SendOne
  <2> QED BY <2>1, <2>2, NumbersKept DEF QueryInv
<1>5. Awaited' /\ DoneIsLast' /\ Collected' /\ Outcome'
  BY <1>2, OutsideLoops, NoOutcome DEF Loops
<1> QED BY <1>3, <1>4, <1>5 DEF QueryInv

\* A call that waits for acknowledgements returns.
LEMMA ReturnFromWorkInv == ASSUME TypeOK, QueryInv, ReturnFromWork PROVE QueryInv'
<1>1. pc' = "idle" /\ op' = op /\ pc = "work"
  BY DEF ReturnFromWork, Return
<1>2. CallShape'
  BY <1>1 DEF CallShape
<1>3. Numbers'
  BY DEF ReturnFromWork, kernel, QueryInv, Numbers, InTransit, Queued
<1>4. Awaited' /\ DoneIsLast' /\ Collected'
  BY <1>1, OutsideLoops DEF Loops
<1>5. Outcome'
  BY <1>1, NoOutcome DEF QueryInv, CallShape
<1> QED BY <1>2, <1>3, <1>4, <1>5 DEF QueryInv

\* What every receive does to the messages in transit.
LEMMA ReceiveShrinks ==
    ASSUME TypeOK, Receive \/ ReceiveFails, owed' = owed
    PROVE  InTransit' \subseteq InTransit
<1>1. queue' = queue \/ (queue # <<>> /\ queue' = Tail(queue))
  BY DEF Receive, ReceiveFails
<1>2. Queued' \subseteq Queued
  BY <1>1, QueueShrinks DEF Queued
<1> QED BY <1>2 DEF InTransit

\* auditGetReply takes a message that no query waits for.
LEMMA AuditGetReplyInv == ASSUME TypeOK, QueryInv, AuditGetReply PROVE QueryInv'
<1>1. pc' \in {"work", "ack"} /\ op' = op /\ pc = "ack"
  BY DEF AuditGetReply, RoundEnds, Continue
<1>2. CallShape'
  BY <1>1 DEF QueryInv, CallShape
<1>3. Numbers'
  BY ReceiveShrinks, NumbersKept DEF AuditGetReply, kernel, QueryInv
<1>4. Awaited' /\ DoneIsLast' /\ Collected' /\ Outcome'
  BY <1>1, OutsideLoops, NoOutcome DEF Loops
<1> QED BY <1>2, <1>3, <1>4 DEF QueryInv

(***************************************************************************)
(* A query starts with nothing in transit that bears its number.           *)
(***************************************************************************)
LEMMA SendQueryInv == ASSUME TypeOK, QueryInv, SendQuery PROVE QueryInv'
<1>1. /\ pc = "open" /\ op' = op /\ got' = got /\ seen' = seen /\ first' = first
      /\ cur' = sequenceNumber + 1 /\ sequenceNumber \in Nat
      /\ first \in 0..sequenceNumber
      /\ InTransit' = InTransit
      /\ pc' \in {"idle", "work"} \cup Loops
  BY DEF SendQuery, ListEnds, Return, NextSeq, kernel, TypeOK, CallType, Loops, InTransit, Queued
<1>2. /\ op \in {"AuditIsEnabled", "ListAllRules", "DeleteAllRules", "CleanupRules"}
      /\ ~seen.handled /\ got = {}
  BY <1>1 DEF QueryInv, CallShape
<1>3. CallShape'
  BY <1>1, <1>2 DEF SendQuery, ListEnds, Return, CallShape
<1>4. Numbers'
  BY <1>1, NumbersKept DEF SendQuery, QueryInv
<1>5. \A m \in InTransit' : m.seq # cur'
  <2>1. \A m \in InTransit : m.seq <= sequenceNumber
    BY DEF QueryInv, Numbers
  <2> QED BY <1>1, <2>1
<1>6. Awaited'
  BY <1>1, <1>2, <1>5 DEF Awaited, Answers
<1>7. DoneIsLast'
  BY <1>5 DEF DoneIsLast, InTransit, Queued
<1>8. Collected'
  BY <1>5 DEF Collected, Answers
<1>9. Outcome'
  <2>1. pc' # "idle" \/ result' # "nil"
    BY DEF SendQuery, ListEnds, Return
  <2> QED BY <2>1, NoOutcome
<1> QED BY <1>3, <1>4, <1>6, <1>7, <1>8, <1>9 DEF QueryInv

(***************************************************************************)
(* The receive loops. A loop that goes on has taken one message from the   *)
(* queue and, if it was a rule of its listing, has added it to got.        *)
(***************************************************************************)
LEMMA LoopGoesOn ==
    ASSUME TypeOK, QueryInv, pc \in Loops, Receive,
           UNCHANGED <<pc, op, cur, first, seen, owed>>,
           \/ inbox' = inbox /\ sequenceNumber' = sequenceNumber
           \/ (\E q : Send(q)) /\ sequenceNumber' = NextSeq,
           \/ msg.seq = cur /\ msg.type = AUDIT_LIST_RULES /\ got' = got \cup {msg.rule}
           \/ msg.type # AUDIT_LIST_RULES /\ got' = got
           \/ pc = "status" /\ got' = got
    PROVE  QueryInv'
<1>1. /\ msg \in Queued /\ msg = queue[1]
      /\ Queued' \subseteq Queued /\ Queued \subseteq Queued' \cup {msg}
      /\ Len(queue') = Len(queue) - 1 /\ Len(queue) \in Nat \ {0}
      /\ \A i \in 1..Len(queue') : queue'[i] = queue[i + 1]
  BY QueueShrinks DEF Receive
<1>2. InTransit' \subseteq InTransit /\ InTransit \subseteq InTransit' \cup {msg}
  BY <1>1 DEF InTransit
<1>3. CallShape'
  BY DEF QueryInv, CallShape, Loops
<1>4. Numbers'
  BY <1>2, NumbersKept DEF QueryInv
<1>5. Awaited'
  <2>1. CurNotSent => CurNotSent'
    <3>1. CASE inbox' = inbox
      BY <3>1 DEF CurNotSent
    <3>2. CASE \E q : Send(q)
      BY <3>2, InboxAppended, InboxElements DEF CurNotSent, TypeOK, CallType
    <3> QED BY <3>1, <3>2
  <2>2. ~seen.handled => got' = {}
    BY <1>1 DEF QueryInv, Awaited, InTransit
  <2>3. cur > first /\ (seen.handled => CurNotSent)
    BY DEF QueryInv, Awaited
  <2>4. ~seen.handled => \A m \in InTransit' : m.seq # cur
    BY <1>2 DEF QueryInv, Awaited
  <2>5. \A m \in Answers(AUDIT_GET)' : m.status = seen.status
    BY <1>2 DEF QueryInv, Awaited, Answers
  <2> QED BY <2>1, <2>2, <2>3, <2>4, <2>5 DEF Awaited
<1>6. DoneIsLast'
  <2> SUFFICES ASSUME pc \in {"list", "dellist"}, NEW i \in 1..Len(queue'),
                      queue'[i].seq = cur, queue'[i].type = NLMSG_DONE
               PROVE  /\ \A m \in owed : m.seq = cur => m.type # AUDIT_LIST_RULES
                      /\ \A j \in (i + 1)..Len(queue') :
                           queue'[j].seq = cur => queue'[j].type # AUDIT_LIST_RULES
    BY DEF DoneIsLast
  <2>1. i + 1 \in 1..Len(queue) /\ queue[i + 1].seq = cur /\ queue[i + 1].type = NLMSG_DONE
    BY <1>1
  <2>2. /\ \A m \in owed : m.seq = cur => m.type # AUDIT_LIST_RULES
        /\ \A j \in ((i + 1) + 1)..Len(queue) :
             queue[j].seq = cur => queue[j].type # AUDIT_LIST_RULES
    BY <2>1 DEF QueryInv, DoneIsLast
  <2>3. ASSUME NEW j \in (i + 1)..Len(queue'), queue'[j].seq = cur
        PROVE  queue'[j].type # AUDIT_LIST_RULES
    <3>1. j + 1 \in ((i + 1) + 1)..Len(queue) /\ queue'[j] = queue[j + 1]
      BY <1>1
    <3> QED BY <2>2, <2>3, <3>1
  <2> QED BY <2>2, <2>3
<1>7. Collected'
  <2> SUFFICES ASSUME pc \in {"list", "dellist"}, Answers(NLMSG_DONE)' # {}
               PROVE  got' \cup Unread' = seen.rules
    BY DEF Collected
  <2>1. got \cup Unread = seen.rules
    BY <1>2 DEF QueryInv, Collected, Answers
  <2>2. CASE msg.seq = cur /\ msg.type = AUDIT_LIST_RULES /\ got' = got \cup {msg.rule}
    <3>1. Answers(AUDIT_LIST_RULES)' \subseteq Answers(AUDIT_LIST_RULES)
      BY <1>2 DEF Answers
    <3>2. Answers(AUDIT_LIST_RULES) \subseteq Answers(AUDIT_LIST_RULES)' \cup {msg}
      BY <1>2 DEF Answers
    <3>3. msg \in Answers(AUDIT_LIST_RULES)
      BY <1>1, <2>2 DEF Answers, InTransit
    <3>4. Unread' \subseteq Unread /\ Unread \subseteq Unread' \cup {msg.rule} /\ msg.rule \in Unread
      BY <3>1, <3>2, <3>3 DEF Unread
    <3> QED BY <2>1, <2>2, <3>4
  <2>3. CASE msg.type # AUDIT_LIST_RULES /\ got' = got
    <3>1. Answers(AUDIT_LIST_RULES)' = Answers(AUDIT_LIST_RULES)
      BY <1>2, <2>3 DEF Answers
    <3> QED BY <2>1, <2>3, <3>1 DEF Unread
  <2> QED BY <2>2, <2>3
<1>8. Outcome'
  BY NoOutcome DEF Loops
<1> QED BY <1>3, <1>4, <1>5, <1>6, <1>7, <1>8 DEF QueryInv

\* A query that gives up with an error vouches for nothing.
LEMMA LoopEnds ==
    ASSUME TypeOK, QueryInv, pc \in Loops, Receive \/ ReceiveFails,
           pc' \in {"idle", "work"}, op' = op, owed' = owed,
           pc' = "work" => op = "CleanupRules",
           \/ inbox' = inbox /\ sequenceNumber' \in {sequenceNumber, NextSeq}
           \/ (\E q : Send(q)) /\ sequenceNumber' = NextSeq
    PROVE  CallShape' /\ Numbers' /\ Awaited' /\ DoneIsLast' /\ Collected'
<1>1. CallShape'
  BY DEF CallShape
<1>2. Numbers'
  BY ReceiveShrinks, NumbersKept DEF QueryInv
<1>3. Awaited' /\ DoneIsLast' /\ Collected'
  BY OutsideLoops DEF Loops
<1> QED BY <1>1, <1>2, <1>3

\* At NLMSG_DONE the listing is complete.
LEMMA ListingComplete ==
    ASSUME TypeOK, QueryInv, pc \in {"list", "dellist"}, Receive, msg.seq = cur,
           msg.type = NLMSG_DONE
    PROVE  seen.handled /\ got = seen.rules /\ CurNotSent
<1>1. msg \in InTransit /\ msg = queue[1] /\ Len(queue) \in Nat \ {0}
  BY QueueShrinks DEF Receive, InTransit
<1>2. seen.handled /\ CurNotSent
  BY <1>1 DEF QueryInv, Awaited, Loops
<1>3. got \cup Unread = seen.rules
  BY <1>1 DEF QueryInv, Collected, Answers
<1>4. Answers(AUDIT_LIST_RULES) = {}
  <2>1. /\ \A m \in owed : m.seq = cur => m.type # AUDIT_LIST_RULES
        /\ \A j \in (1 + 1)..Len(queue) : queue[j].seq = cur => queue[j].type # AUDIT_LIST_RULES
    BY <1>1 DEF QueryInv, DoneIsLast
  <2>2. \A j \in 1..Len(queue) : queue[j].seq = cur => queue[j].type # AUDIT_LIST_RULES
    BY <1>1, <2>1
  <2> QED BY <2>1, <2>2 DEF Answers, InTransit, Queued
<1>5. Unread = {}
  BY <1>4 DEF Unread
<1> QED BY <1>2, <1>3, <1>5

\* The status returned is that in the reply to this request.
LEMMA AuditIsEnabledLoopInv == ASSUME TypeOK, QueryInv, AuditIsEnabledLoop PROVE QueryInv'
<1>1. /\ pc = "status" /\ pc \in Loops /\ op' = op
      /\ UNCHANGED <<sequenceNumber, inbox, got, cur, first, seen, owed>>
  BY DEF AuditIsEnabledLoop, Return, Continue, kernel, Loops
<1>2. CASE Receive /\ Continue
  BY <1>1, <1>2, LoopGoesOn DEF Continue
<1>3. ASSUME NEW e, Receive \/ ReceiveFails, Return(e), e # "nil"
      PROVE  QueryInv'
  <2>1. Outcome'
    BY <1>3, NoOutcome DEF Return
  <2> QED BY <1>1, <1>3, <2>1, LoopEnds DEF Return, QueryInv
<1>4. ASSUME Receive, msg.seq = cur, msg.type = AUDIT_GET, Return("nil"), stat' = msg.status
      PROVE  QueryInv'
  <2>1. msg \in InTransit
    BY <1>4, QueueShrinks DEF Receive, InTransit
  <2>2. seen.handled /\ CurNotSent /\ msg.status = seen.status
    BY <1>1, <1>4, <2>1 DEF QueryInv, Awaited, Answers
  <2>3. op = "AuditIsEnabled"
    BY <1>1 DEF QueryInv, CallShape
  <2>4. Outcome'
    BY <1>1, <1>4, <2>2, <2>3 DEF Outcome, Returned, CurNotSent
  <2> QED BY <1>1, <1>4, <2>4, LoopEnds DEF Return, QueryInv
<1> QED BY <1>2, <1>3, <1>4 DEF AuditIsEnabledLoop

\* A rule moves from the queue to the listing; NLMSG_DONE finds none left.
LEMMA ListAllRulesLoopInv == ASSUME TypeOK, QueryInv, ListAllRulesLoop PROVE QueryInv'
<1>1. /\ pc = "list" /\ pc \in Loops /\ op' = op
      /\ UNCHANGED <<sequenceNumber, inbox, cur, first, seen, owed>>
  BY DEF ListAllRulesLoop, ListEnds, Return, Continue, kernel, Loops
<1>2. CASE Receive /\ ~BadListing(msg) /\ Continue
  BY <1>1, <1>2, LoopGoesOn DEF ListAllRulesLoop, ListEnds, Return, Continue, BadListing
<1>3. ASSUME Receive \/ ReceiveFails, ListEnds("error")
      PROVE  QueryInv'
  <2>1. /\ pc' \in {"idle", "work"} /\ (pc' = "work" => op = "CleanupRules")
        /\ pc' # "idle" \/ result' # "nil"
    BY <1>3 DEF ListEnds, Return
  <2> QED BY <1>1, <1>3, <2>1, LoopEnds, NoOutcome DEF QueryInv
<1>4. ASSUME Receive, ~BadListing(msg), msg.type = NLMSG_DONE, ListEnds("nil"), got' = got
      PROVE  QueryInv'
  <2>1. pc' \in {"idle", "work"} /\ (pc' = "work" => op = "CleanupRules")
    BY <1>4 DEF ListEnds, Return
  <2>2. seen.handled /\ got = seen.rules /\ CurNotSent
    BY <1>1, <1>4, ListingComplete DEF BadListing
  <2>3. op # "AuditIsEnabled"
    BY <1>1 DEF QueryInv, CallShape
  <2>4. Outcome'
    BY <1>1, <1>4, <2>2, <2>3 DEF Outcome, Returned, CurNotSent
  <2> QED BY <1>1, <1>4, <2>1, <2>4, LoopEnds DEF QueryInv
<1> QED BY <1>2, <1>3, <1>4 DEF ListAllRulesLoop

\* A rule moves from the queue to those sent back; NLMSG_DONE finds none left.
LEMMA DeleteAllRulesLoopInv == ASSUME TypeOK, QueryInv, DeleteAllRulesLoop PROVE QueryInv'
<1>1. /\ pc = "dellist" /\ pc \in Loops /\ op' = op
      /\ UNCHANGED <<cur, first, seen, owed>>
  BY DEF DeleteAllRulesLoop, SendsBack, Return, Continue, kernel, Loops
<1>2. CASE /\ Receive /\ ~BadListing(msg) /\ msg.type # AUDIT_LIST_RULES /\ Continue
           /\ UNCHANGED <<sequenceNumber, got, inbox>>
  BY <1>1, <1>2, LoopGoesOn DEF Continue
<1>3. CASE Receive /\ ~BadListing(msg) /\ msg.type = AUDIT_LIST_RULES /\ SendsBack
  <2>1. CASE Continue /\ got' = got \cup {msg.rule} /\ Send(RuleRequest(AUDIT_DEL_RULE, msg.rule))
    BY <1>1, <1>3, <2>1, LoopGoesOn DEF SendsBack, Continue, BadListing
  <2>2. CASE Return("error") /\ inbox' = inbox
    <3>1. Outcome'
      BY <2>2, NoOutcome DEF Return
    <3> QED BY <1>1, <1>3, <2>2, <3>1, LoopEnds DEF SendsBack, Return, QueryInv
  <2> QED BY <1>3, <2>1, <2>2 DEF SendsBack
<1>4. ASSUME Receive \/ ReceiveFails, Return("error"), UNCHANGED <<sequenceNumber, inbox>>
      PROVE  QueryInv'
  <2>1. Outcome'
    BY <1>4, NoOutcome DEF Return
  <2> QED BY <1>1, <1>4, <2>1, LoopEnds DEF Return, QueryInv
<1>5. ASSUME Receive, ~BadListing(msg), msg.type = NLMSG_DONE, Return("nil"),
             UNCHANGED <<sequenceNumber, got, inbox>>
      PROVE  QueryInv'
  <2>1. seen.handled /\ got = seen.rules /\ CurNotSent
    BY <1>1, <1>5, ListingComplete DEF BadListing
  <2>2. op = "DeleteAllRules"
    BY <1>1 DEF QueryInv, CallShape
  <2>3. Outcome'
    BY <1>1, <1>5, <2>1, <2>2 DEF Outcome, Returned, CurNotSent
  <2> QED BY <1>1, <1>5, <2>3, LoopEnds DEF Return, QueryInv
<1> QED BY <1>2, <1>3, <1>4, <1>5 DEF DeleteAllRulesLoop
=============================================================================
