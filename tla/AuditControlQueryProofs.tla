---------------------- MODULE AuditControlQueryProofs ----------------------
(***************************************************************************)
(* The answers of the three queries of AuditControl: what ListAllRules,    *)
(* AuditIsEnabled and DeleteAllRules make of the kernel's replies, for     *)
(* every set of rules, every environment and every bound. The kernel's     *)
(* steps keep the invariant of AuditControlQueryInv, and it implies the    *)
(* properties.                                                             *)
(***************************************************************************)
EXTENDS AuditControlQueryInv

USE DEF NLMSG_ERROR, NLMSG_DONE, AUDIT_GET, AUDIT_SET, AUDIT_ADD_RULE,
        AUDIT_DEL_RULE, AUDIT_LIST_RULES, AUDIT_FIRST_USER_MSG

(***************************************************************************)
(* The kernel's steps. A request that is handled puts messages in transit  *)
(* that bear its number and no others.                                     *)
(***************************************************************************)
LEMMA RepliesFields ==
    ASSUME NEW q, NEW n, NEW m \in Replies(q, n)
    PROVE  /\ m.seq = n
           /\ m.type = AUDIT_LIST_RULES => q.type = AUDIT_LIST_RULES /\ m.rule \in krules
           /\ m.type = NLMSG_DONE => q.type = AUDIT_LIST_RULES
           /\ m.type = AUDIT_GET => m.status = kstatus
<1>1. CASE q.type = AUDIT_LIST_RULES
  BY <1>1, MessageFields DEF Replies, DoneReply
<1>2. CASE q.type = AUDIT_GET
  BY <1>2, MessageFields DEF Replies
<1> QED BY <1>1, <1>2 DEF Replies

\* What is left of the inbox is what was there, one place further on.
LEMMA InboxShrinks ==
    ASSUME TypeOK, inbox # <<>>, inbox' = Tail(inbox)
    PROVE  /\ Head(inbox) = inbox[1] /\ Len(inbox) \in Nat \ {0}
           /\ Head(inbox).q \in Requests /\ Head(inbox).seq \in 1..sequenceNumber
           /\ Len(inbox') = Len(inbox) - 1
           /\ \A i \in 1..Len(inbox') : inbox'[i] = inbox[i + 1]
<1> DEFINE R == [q: Requests, seq: 1..sequenceNumber]
<1>1. inbox \in Seq(R)
  BY DEF TypeOK, WireType
<1>2. /\ Head(inbox) = inbox[1] /\ Len(inbox) \in Nat \ {0} /\ Head(inbox) \in R
      /\ Len(inbox') = Len(inbox) - 1
      /\ \A i \in 1..Len(inbox') : inbox'[i] = inbox[i + 1]
  <2> HIDE DEF R
  <2> QED BY <1>1, HeadTailProperties, EmptySeq
<1> QED BY <1>2

\* When the kernel handles the awaited request, all its rules become owed.
LEMMA KernelHandleInv == ASSUME TypeOK, QueryInv, KernelHandle PROVE QueryInv'
<1> DEFINE q == Head(inbox).q
           n == Head(inbox).seq
<1>1. PICK e \in Int : Handle(q, n, e)
  BY OutcomesType DEF KernelHandle
<1>2. /\ Head(inbox) = inbox[1] /\ Len(inbox) \in Nat \ {0}
      /\ q \in Requests /\ n \in 1..sequenceNumber
      /\ Len(inbox') = Len(inbox) - 1
      /\ \A i \in 1..Len(inbox') : inbox'[i] = inbox[i + 1]
  BY InboxShrinks DEF KernelHandle
<1>3. /\ UNCHANGED <<sequenceNumber, pc, op, cur, got, result, stat, first>>
      /\ sequenceNumber \in Nat /\ n \in Nat /\ cur \in Nat
  BY <1>2 DEF KernelHandle, client, TypeOK, CallType
<1>4. n = inbox[1].seq /\ 1 \in 1..Len(inbox)
  BY <1>2
<1> HIDE DEF q, n
<1>5. /\ Queued' = Queued \/ Queued' = Queued \cup {Ack(n, e)}
      /\ \A i \in 1..Len(queue') : queue'[i].type \in {NLMSG_DONE, AUDIT_LIST_RULES} =>
           i \in 1..Len(queue) /\ queue'[i] = queue[i]
  <2>1. CASE queue' = Append(queue, Ack(n, e))
    <3>1. Ack(n, e) \in Messages /\ Ack(n, e).type = NLMSG_ERROR
      BY <1>3, MessageTypes, MessageFields
    <3>2. /\ Queued' = Queued \cup {Ack(n, e)}
          /\ Len(queue) \in Nat /\ Len(queue') = Len(queue) + 1
          /\ \A i \in 1..Len(queue) : queue'[i] = queue[i]
          /\ queue'[Len(queue) + 1] = Ack(n, e)
      BY <2>1, <3>1, QueueAppended
    <3>3. \A i \in 1..Len(queue') : i = Len(queue) + 1 \/ i \in 1..Len(queue)
      BY <3>2
    <3> QED BY <3>1, <3>2, <3>3
  <2>2. CASE queue' = queue
    BY <2>2 DEF Queued
  <2> QED BY <1>1, <2>1, <2>2 DEF Handle
<1> DEFINE acks == Queued' \ Queued
<1>6. PICK answers \in SUBSET Replies(q, n) :
        owed' = owed \cup answers /\ (answers = {} \/ answers = Replies(q, n))
  BY <1>1 DEF Handle
<1>7. /\ InTransit' = InTransit \cup acks \cup answers
      /\ \A m \in acks : m.seq = n /\ m.type = NLMSG_ERROR
      /\ \A m \in answers : m.seq = n
  BY <1>5, <1>6, MessageFields, RepliesFields DEF InTransit
<1> HIDE DEF acks
<1>8. CurNotSent => n # cur
  BY <1>4 DEF CurNotSent
<1>9. n # cur \/ n <= first => seen' = seen
  BY <1>1, <1>3 DEF Handle, TypeOK, CallType
<1>10. CurNotSent => CurNotSent'
  BY <1>2, <1>3 DEF CurNotSent
<1>11. CallShape'
  BY <1>3, <1>9 DEF QueryInv, CallShape, TypeOK, CallType
<1>12. Numbers'
  <2>1. \A m \in InTransit' : m.seq <= sequenceNumber'
    BY <1>2, <1>3, <1>7 DEF QueryInv, Numbers
  <2>2. \A i, j \in 1..Len(inbox') : i < j => inbox'[i].seq < inbox'[j].seq
    BY <1>2 DEF QueryInv, Numbers
  <2> QED BY <2>1, <2>2 DEF Numbers
<1>13. Outcome'
  BY <1>3, <1>8, <1>9, <1>10 DEF QueryInv, Outcome, Returned
<1>14. ASSUME pc \in Loops, n # cur
       PROVE  Awaited' /\ DoneIsLast' /\ Collected'
  <2>1. \A m \in InTransit' : m.seq = cur => m \in InTransit
    BY <1>7, <1>14
  <2>2. \A t : Answers(t)' = Answers(t)
    BY <1>3, <1>7, <2>1 DEF Answers
  <2>3. Awaited'
    <3>1. /\ cur > first
          /\ ~seen.handled => got = {} /\ \A m \in InTransit : m.seq # cur
          /\ seen.handled => CurNotSent'
          /\ \A m \in Answers(AUDIT_GET) : m.status = seen.status
      BY <1>10, <1>14 DEF QueryInv, Awaited
    <3> QED BY <1>3, <1>9, <1>14, <2>1, <2>2, <3>1 DEF Awaited
  <2>4. DoneIsLast'
    <3>1. \A m \in owed' : m.seq = cur => m \in owed
      BY <1>6, <1>7, <1>14
    <3> QED BY <1>3, <1>5, <3>1 DEF QueryInv, DoneIsLast
  <2>5. Collected'
    <3>1. Unread' = Unread
      BY <2>2 DEF Unread
    <3> QED BY <1>3, <1>9, <1>14, <2>2, <3>1 DEF QueryInv, Collected
  <2> QED BY <2>3, <2>4, <2>5
<1>15. ASSUME pc \in Loops, n = cur
       PROVE  Awaited' /\ DoneIsLast' /\ Collected'
  <2>1. ~seen.handled /\ got = {} /\ (\A m \in InTransit : m.seq # cur) /\ cur > first
    BY <1>8, <1>15 DEF QueryInv, Awaited
  <2>2. seen' = [handled |-> TRUE, rules |-> krules, status |-> kstatus]
    BY <1>1, <1>15, <2>1 DEF Handle
  <2>3. \A t : t # NLMSG_ERROR => Answers(t)' = {m \in answers : m.type = t}
    BY <1>3, <1>7, <1>15, <2>1 DEF Answers
  <2>4. Awaited'
    <3>1. CurNotSent'
      <4>1. \A i \in 1..Len(inbox') : i + 1 \in 1..Len(inbox) /\ inbox'[i] = inbox[i + 1]
        BY <1>2
      <4>2. \A i \in 1..Len(inbox') : inbox[1].seq < inbox[i + 1].seq
        BY <1>4, <4>1 DEF QueryInv, Numbers
      <4> QED BY <1>3, <1>4, <1>15, <4>1, <4>2 DEF CurNotSent
    <3>2. \A m \in Answers(AUDIT_GET)' : m.status = kstatus
      BY <1>6, <2>3, RepliesFields
    <3> QED BY <1>3, <2>1, <2>2, <3>1, <3>2 DEF Awaited
  <2>5. DoneIsLast'
    <3>1. \A i \in 1..Len(queue') : queue'[i].type = NLMSG_DONE => queue'[i].seq # cur
      BY <1>5, <2>1 DEF InTransit, Queued
    <3> QED BY <1>3, <3>1 DEF DoneIsLast
  <2>6. Collected'
    <3> SUFFICES ASSUME Answers(NLMSG_DONE)' # {} PROVE Unread' = krules
      BY <1>3, <2>1, <2>2 DEF Collected
    <3>1. q.type = AUDIT_LIST_RULES /\ answers = Replies(q, n)
      BY <1>6, <2>3, RepliesFields
    <3>2. answers = {RuleReply(n, r) : r \in krules} \cup {DoneReply(n)}
      BY <3>1 DEF Replies
    <3>3. Answers(AUDIT_LIST_RULES)' = {RuleReply(n, r) : r \in krules}
      <4>1. DoneReply(n).type = NLMSG_DONE
        BY MessageFields DEF DoneReply
      <4>2. \A r \in krules : RuleReply(n, r).type = AUDIT_LIST_RULES
        BY MessageFields
      <4> QED BY <2>3, <3>2, <4>1, <4>2
    <3>4. \A r : RuleReply(n, r).rule = r
      BY MessageFields
    <3> QED BY <3>3, <3>4 DEF Unread
  <2> QED BY <2>4, <2>5, <2>6
<1>16. pc \notin Loops => Awaited' /\ DoneIsLast' /\ Collected'
  BY <1>3, OutsideLoops
<1> QED BY <1>11, <1>12, <1>13, <1>14, <1>15, <1>16 DEF QueryInv

\* Steps that only move or add messages, none of them with the number of a loop.
LEMMA KernelReplyInv == ASSUME TypeOK, QueryInv, KernelReply PROVE QueryInv'
<1>1. PICK m \in owed : /\ m.type = NLMSG_DONE => \A x \in owed : x.seq = m.seq => x = m
                        /\ queue' = Append(queue, m)
                        /\ owed' = owed \ {m}
  BY DEF KernelReply
<1>2. UNCHANGED <<sequenceNumber, pc, op, cur, got, result, stat, first, seen, inbox>>
  BY DEF KernelReply, client
<1>3. m \in Messages
  BY DEF TypeOK, WireType
<1>4. /\ Queued' = Queued \cup {m}
      /\ Len(queue) \in Nat /\ Len(queue') = Len(queue) + 1
      /\ \A i \in 1..Len(queue) : queue'[i] = queue[i]
      /\ queue'[Len(queue) + 1] = m
  BY <1>1, <1>3, QueueAppended
<1>5. InTransit' = InTransit
  BY <1>1, <1>4 DEF InTransit
<1>6. Answers(AUDIT_GET)' = Answers(AUDIT_GET) /\ Unread' = Unread
      /\ Answers(NLMSG_DONE)' = Answers(NLMSG_DONE) /\ (CurNotSent' <=> CurNotSent)
  BY <1>2, <1>5 DEF Answers, Unread, CurNotSent
<1>7. CallShape' /\ Numbers' /\ Awaited' /\ Collected' /\ Outcome'
  BY <1>2, <1>5, <1>6 DEF QueryInv, CallShape, Numbers, Awaited, Collected, Outcome, Returned
<1>8. DoneIsLast'
  <2> SUFFICES ASSUME pc \in {"list", "dellist"}, NEW i \in 1..Len(queue'),
                      queue'[i].seq = cur, queue'[i].type = NLMSG_DONE
               PROVE  /\ \A x \in owed' : x.seq = cur => x.type # AUDIT_LIST_RULES
                      /\ \A j \in (i + 1)..Len(queue') :
                           queue'[j].seq = cur => queue'[j].type # AUDIT_LIST_RULES
    BY <1>2 DEF DoneIsLast
  <2>1. CASE i \in 1..Len(queue)
    <3>1. /\ \A x \in owed : x.seq = cur => x.type # AUDIT_LIST_RULES
          /\ \A j \in (i + 1)..Len(queue) : queue[j].seq = cur => queue[j].type # AUDIT_LIST_RULES
      BY <1>4, <2>1 DEF QueryInv, DoneIsLast
    <3>2. \A j \in (i + 1)..Len(queue') : j = Len(queue) + 1 \/ j \in (i + 1)..Len(queue)
      BY <1>4, <2>1
    <3>3. \A j \in (i + 1)..Len(queue) : queue'[j] = queue[j]
      BY <1>4, <2>1
    <3> QED BY <1>1, <1>4, <3>1, <3>2, <3>3
  <2>2. CASE i = Len(queue) + 1
    BY <1>1, <1>4, <2>2
  <2> QED BY <1>4, <2>1, <2>2
<1> QED BY <1>7, <1>8 DEF QueryInv

\* An event has the number 0, which no query waits for.
LEMMA KernelEventInv == ASSUME TypeOK, QueryInv, KernelEvent PROVE QueryInv'
<1>1. PICK t \in EventTypes : queue' = Append(queue, Event(t))
  BY DEF KernelEvent
<1>2. UNCHANGED <<sequenceNumber, pc, op, cur, got, result, stat, first, seen, inbox, owed>>
  BY DEF KernelEvent, client, kernel
<1>3. /\ Event(t) \in Messages /\ Event(t).seq = 0
      /\ Event(t).type \notin {NLMSG_DONE, AUDIT_LIST_RULES, AUDIT_GET}
  BY MessageTypes, MessageFields, ConstantsAssumption DEF Event
<1>4. /\ Queued' = Queued \cup {Event(t)}
      /\ Len(queue) \in Nat /\ Len(queue') = Len(queue) + 1
      /\ \A i \in 1..Len(queue) : queue'[i] = queue[i]
      /\ queue'[Len(queue) + 1] = Event(t)
  BY <1>1, <1>3, QueueAppended
<1>5. InTransit' = InTransit \cup {Event(t)}
  BY <1>2, <1>4 DEF InTransit
<1>6. /\ \A k \in {NLMSG_DONE, AUDIT_LIST_RULES, AUDIT_GET} : Answers(k)' = Answers(k)
      /\ Unread' = Unread /\ (CurNotSent' <=> CurNotSent)
  BY <1>2, <1>3, <1>5 DEF Answers, Unread, CurNotSent
<1>7. CallShape' /\ Collected' /\ Outcome'
  BY <1>2, <1>6 DEF QueryInv, CallShape, Collected, Outcome, Returned
<1>8. Numbers'
  BY <1>2, <1>3, <1>5 DEF QueryInv, Numbers, TypeOK, CallType
<1>9. Awaited'
  BY <1>2, <1>3, <1>5, <1>6 DEF QueryInv, Awaited, TypeOK, CallType
<1>10. DoneIsLast'
  <2>1. \A i \in 1..Len(queue') : queue'[i].type \in {NLMSG_DONE, AUDIT_LIST_RULES} =>
          i \in 1..Len(queue) /\ queue'[i] = queue[i]
    <3>1. \A i \in 1..Len(queue') : i = Len(queue) + 1 \/ i \in 1..Len(queue)
      BY <1>4
    <3> QED BY <1>3, <1>4, <3>1
  <2> QED BY <1>2, <2>1 DEF QueryInv, DoneIsLast
<1> QED BY <1>7, <1>8, <1>9, <1>10 DEF QueryInv

\* A step that changes nothing keeps the invariant.
LEMMA QueryInvStutters ==
    ASSUME QueryInv, OtherProcessStep \/ UNCHANGED vars
    PROVE  QueryInv'
<1>1. UNCHANGED <<sequenceNumber, pc, op, cur, got, result, stat, first, seen, inbox, queue, owed>>
  BY DEF OtherProcessStep, vars, client, kernel
<1>2. InTransit' = InTransit /\ Unread' = Unread /\ (CurNotSent' <=> CurNotSent)
  BY <1>1 DEF InTransit, Queued, Unread, Answers, CurNotSent
<1>3. Answers(AUDIT_GET)' = Answers(AUDIT_GET) /\ Answers(NLMSG_DONE)' = Answers(NLMSG_DONE)
  BY <1>1, <1>2 DEF Answers
<1> QED BY <1>1, <1>2, <1>3 DEF QueryInv, CallShape, Numbers, Awaited, DoneIsLast,
           Collected, Outcome, Returned

(***************************************************************************)
(* The invariant holds of every behaviour of the calls of libaudit.go and  *)
(* rules.go.                                                               *)
(***************************************************************************)
THEOREM QueryInvariant == Spec => []QueryInv
<1>1. Init => QueryInv
  <2> SUFFICES ASSUME Init PROVE QueryInv
    OBVIOUS
  <2>1. Queued = {} /\ owed = {} /\ Len(inbox) = 0
    BY DEF Init, Queued
  <2>2. CallShape /\ Awaited /\ DoneIsLast /\ Collected /\ Outcome
    BY DEF Init, CallShape, Awaited, DoneIsLast, Collected, Outcome, Returned, Loops
  <2>3. Numbers
    BY <2>1 DEF Numbers, InTransit
  <2> QED BY <2>2, <2>3 DEF QueryInv
<1>2. TypeOK /\ QueryInv /\ [Next]_vars => QueryInv'
  <2> SUFFICES ASSUME TypeOK, QueryInv, [Next]_vars PROVE QueryInv'
    OBVIOUS
  <2>1. CASE ClientStep
    BY <2>1, SendRequestInv, ReturnFromWorkInv, AuditGetReplyInv, SendQueryInv,
       AuditIsEnabledLoopInv, ListAllRulesLoopInv, DeleteAllRulesLoopInv DEF ClientStep
  <2> QED BY <2>1, StartCallInv, KernelHandleInv, KernelReplyInv, KernelEventInv,
             QueryInvStutters DEF Next
<1> QED BY <1>1, <1>2, TypeCorrect, PTL DEF Spec

(***************************************************************************)
(* What ListAllRules returns without an error is what the kernel held when *)
(* it handled the request: for any number of rules, calls, late answers,   *)
(* events, overruns of the queue and failures of the system calls.         *)
(***************************************************************************)
THEOREM ListingIsSnapshot == Spec => []ListIsSnapshot
<1>1. QueryInv => ListIsSnapshot
  BY DEF QueryInv, Outcome, ListIsSnapshot
<1> QED BY <1>1, QueryInvariant, PTL

(***************************************************************************)
(* A status that AuditIsEnabled returns is the kernel's when it handled    *)
(* that request.                                                           *)
(***************************************************************************)
THEOREM StatusIsThatOfTheRequest == Spec => []StatusIsHonest
<1>1. QueryInv => StatusIsHonest
  BY DEF QueryInv, Outcome, StatusIsHonest
<1> QED BY <1>1, QueryInvariant, PTL

(***************************************************************************)
(* A DeleteAllRules that returns no error has sent back for deletion the   *)
(* rules the kernel held when it handled the listing.                      *)
(***************************************************************************)
THEOREM DeleteAllSendsBackListing == Spec => []DeleteAllCoversListing
<1>1. QueryInv => DeleteAllCoversListing
  BY DEF QueryInv, Outcome, DeleteAllCoversListing
<1> QED BY <1>1, QueryInvariant, PTL
=============================================================================
