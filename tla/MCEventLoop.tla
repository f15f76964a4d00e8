---------------------------- MODULE MCEventLoop ----------------------------
(***************************************************************************)
(* Instances of EventLoop for TLC: which goroutine runs what, and which    *)
(* datagrams arrive.                                                       *)
(***************************************************************************)
EXTENDS EventLoop, TLC

CONSTANTS g1, g2, g3

OwnBuffers == g1 :> "GetAuditMessages" @@ g2 :> "GetRawAuditEvents" @@ g3 :> "auditGetReply"
SharedSocket == g1 :> "GetAuditMessages" @@ g2 :> "GetRawAuditMessages" @@ g3 :> "auditGetReply"
OneLoop == g1 :> "GetAuditMessages"

\* An event, the end of a listing with its last rule, and a datagram too short
\* to hold a message.
Mixture == {<<"event">>, <<"reply", "end">>, <<>>}
Events == {<<"event">>}
Traffic == {<<"event">>, <<"reply", "end">>}
=============================================================================
