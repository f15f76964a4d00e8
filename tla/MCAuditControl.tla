--------------------------- MODULE MCAuditControl ---------------------------
(***************************************************************************)
(* Instances of AuditControl for TLC. Two rules are enough to have a       *)
(* listing of several messages, with deletions among them; the sequence    *)
(* numbers bound how many requests, hence calls, a behaviour has.          *)
(***************************************************************************)
EXTENDS AuditControl, TLC

\* AUDIT_USER_AUTH lies on the wrong side of the test for events in auditGetReply
\* (Type > AUDIT_FIRST_USER_MSG), AUDIT_SYSCALL on the right one.
EventKinds == {1100, 1300}
NoEvents == {}

\* The kernel sends negative error numbers.
EPERM == {-1}
EEXIST == -17

Queries == {"AuditIsEnabled", "ListAllRules", "DeleteAllRules", "AuditSetPID"}
Acknowledged == Calls \ {"DeleteAllRules"}
Mixed == {"AuditSetPID", "SetRules", "CleanupRules", "DeleteAllRules", "AuditIsEnabled"}
DeleteThenSet == {"DeleteAllRules", "SetRules"}
SettersOnly == {"AuditSetPID", "AuditSetEnabled"}
OnlyCleanup == {"CleanupRules"}

RuleSymmetry == Permutations(Rules)
=============================================================================
