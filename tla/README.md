# A verification project for libaudit-go

libaudit-go talks to the Linux audit subsystem over a netlink socket: it sets
the status of the subsystem, adds, lists and deletes rules, and receives audit
events. This directory holds TLA+ models of its parts, the TLC runs that check
them on small instances, and proofs, checked by TLAPS, that hold for every
instance.

## The system

| part | state | operations | what makes it hard |
|---|---|---|---|
| control calls (`libaudit.go`) | the package counter `sequenceNumber`, the socket | `AuditSetEnabled`, `AuditSetPID`, `AuditSetRateLimit`, `AuditSetBacklogLimit`, `AuditSetFlags`, `AuditIsEnabled`, all over `auditGetReply` or a loop of its own | replies come late, or belong to a request that was given up; events arrive on the socket that waits for an acknowledgement; the queue overruns |
| rule administration (`rules.go`) | the same | `ListAllRules`, `DeleteAllRules`, `CleanupRules`, `RemoveStaleLWAuditRules`, `auditAddRuleData`, `auditDeleteRuleData` | several requests per call, any of which may fail; `DeleteAllRules` sends while it receives and never reads the acknowledgements |
| framing (`libaudit.go`, `audit_events.go`) | the buffer `s.rb` | `Receive`, `ReceiveNoParse`, `ParseAuditNetlinkMessage`, `netlinkMessageHeaderAndData`, `ToWireFormat` | alignment; headers of events that leave out their own length; messages are slices of the buffer that `Send` writes to |
| event loops (`audit_events.go`) | the loop's place in a datagram, the done channel | `GetAuditEvents`, `GetRawAuditEvents`, `GetRawAuditMessages`, `GetAuditMessages` | several goroutines on one socket, two kinds of which share one buffer; being told to stop while waiting or while messages are left |
| rule construction (`rules.go`) | the package variables `auditPermAdded`, `auditSyscallAdded`; the rule being built | `SetRules`, `setActionAndFilters`, `auditRuleFieldPairData`, `auditRuleSyscallData`, the watch functions | variables that outlive a rule and a call; stopping half-way; fields checked against a list that is set later; one buffer for all strings of a rule |
| rule printing (`rules.go`) | none | `printRule`, `keyMatch`, `isWatch`, ... | cutting `Buf` by the lengths in `Values` |
| parser (`parser.go`) | place in the message | `ParseAuditEvent`, `getSpaceSlice` | ends of tokens and of the message |
| interpretation (`interpret.go`), tables (`headers`, `lookup_tables.go`) | none | `interpretField` and printers | none that involves state |

The control calls and the rule administration use the framing to read the
socket; `SetRules` builds a rule and hands it to `auditAddRuleData`; the event
loops compete with the control calls for the messages of the socket, and some
of them for the buffer. `PROJECT.json` lists the hazards with their lines and
the properties that cover them.

## The modules

**AuditControl** is the control side: one goroutine, one connection, any
sequence of calls. A call is described by the requests it has left (`todo`), the
receive loop it is in (`pc`), the number it waits for (`cur`) and the local
variables `err`, `delFailure` and `ruleArray` (`got`). The five setters,
`SetRules` and the two calls that delete single rules differ in their requests
only and share `SendRequest`, `AuditGetReply` and `ReturnFromWork`;
`AuditIsEnabled`, `ListAllRules` (also inside `CleanupRules`) and
`DeleteAllRules` have their own loops. A rule is a model value: what
`compareAuditRule` tells apart is different, what holds an `lw_` key is in
`LWRules`. `ListAllRules` and `SetRules` use sequences of rules, the model
uses sets: a kernel holds a rule once.
The kernel is external. It handles requests in order, acknowledges each (every
request carries `NLM_F_ACK`), queues the replies to GET and LIST later and in
any order except that `NLMSG_DONE` ends a listing, may refuse anything, sends
events once a program is registered, and loses an acknowledgement when the queue
is full, which the next `Recvfrom` reports. Acknowledgements carry negative
error numbers, so that the test of `auditGetReply` for 17 is never met by an
existing rule (`ExistsErr` may be either). `first`, `accepted`, `seen` and
`refused` are history variables.

**NetlinkFraming** is one connection's buffer. `Recvfrom` fills it with a
datagram; `ParseOne`, `ParseEnds`, `Answer` and `Panic` are the outcomes of an
iteration of one of four loops: `Parse` is `ParseAuditNetlinkMessage`, `Raw` the
loop of `GetRawAuditMessages`, which go through a datagram to its end; `Reply` is
that of `auditGetReply`, `Status` that of `AuditIsEnabled`, which return at the
message they wait for (`Answer`). A slice expression that is out of range ends
the program (`Panic`). Then the caller uses the messages, and `DeleteAllRules`
sends each back, which overwrites the start of the buffer. The contents of the
buffer are abstracted to the message a byte belongs to.
Of the datagrams the model assumes (`WellFormed`) that messages follow one
another at aligned places. The last may come with its padding or without, and
replies may have any size: what exceeds `s.rb` is cut off by `Recvfrom`, wherever
that is in a message. Of events it assumes that they come alone, carry a time
stamp and so have a header's length of text at least, and no more than
`MAX_AUDIT_MESSAGE_LENGTH`, the room that `s.rb` has for them.

**EventLoop** has goroutines that run one of the four event loops or make
control calls, over one receive queue. Messages have a kind (an event that
parses or does not or has no name, a reply, the end of a listing, an
acknowledgement, a refusal) and a number. `GetRawAuditMessages` and the control
calls share `s.rb`: whoever writes to it changes what the others still have to
read (`Overwrite`; where in the new contents they go on is left open). `Handled`
says which callbacks a loop makes for a message.

**RuleBuilder** is `SetRules`: the sections of the configuration in the order
that a Go map yields, their entries, their fields, the key, and the sending. A
rule holds the fields set so far with their values, the strings in `Buf` and
the system calls in `Mask`. Whether the kernel takes a rule is left open here;
`AuditControl` has the exchange. The configuration is the CONSTANT `Configs`.

The `MC` modules define the instances; `AuditControlProofs`,
`AuditControlQueryInv`, `AuditControlQueryProofs`, `NetlinkFramingProofs` and
`RuleBuilderProofs` hold the theorems.

## The runs

| run | question |
|---|---|
| `queries` | Are listings, states and mass deletions those of the request made, whatever arrives late, fails or is changed by another process? |
| `clean` | On a socket without events, faults and `DeleteAllRules`, does success mean that the kernel accepted every request, and does a call leave nothing behind? |
| `live` | Does every call return, and is a refusal that was read ever taken for success? |
| `framing` | At which messages do the loops panic; are payloads whole and all messages delivered that were received whole? |
| `loops` | Is every message handled once, in order, and none dropped; does a refusal reach someone? |
| `shared` | Do loops stop when told to and calls return although they take each other's messages and share a buffer? |
| `rules` | Is each rule sent the one that its entry describes, and does success mean all of them? |
| `stale_ack`, `event_as_reply`, `cleanup`, `blocked_done`, `missing_path` | violated: see below |

Bounds. `AuditControl`: two rules (a listing of several messages, one rule left
after another is deleted); sequence numbers up to 5 or 6, that is two to five
calls, enough for a call to meet the leftovers of an earlier one; a queue of 2
or 3 messages, which a listing with its acknowledgement fills. A state of the
status has two values. `queries` uses symmetry on the rules, which no property
orders. `NetlinkFraming`: up to three replies, with sizes around the alignment
and the header (0, 1, 4, 18, 20) and one that exceeds the buffer (60), with and
without padding behind the last, events around multiples of four and around the
end of the buffer, in a buffer of 70 bytes: batches end before its end, at it,
less than a header before it and behind it. `EventLoop`: three messages of the kernel's
own and one or two calls, three goroutines, a queue of two datagrams.
`RuleBuilder`: configurations with up to two entries of each kind, one after
the other in any number of calls, room for four fields, one word of system
calls, and one field of every kind of value in every list. In all of them the
bounds of counters are guards of the actions that count (`MaxSeq`, `MaxSent`,
`MaxCalls`, `MaxSignals`, `QueueCap`).

Deadlock is not checked where the program may stop: no call is left within
`MaxSeq`, all loops have returned, or `SetRules` or a framing loop has panicked.

Fairness. `AuditControl`: a running call takes its next step (Go's scheduler),
and the kernel handles and answers what it was sent. Nothing obliges the program
to call or the kernel to send events. `EventLoop`: each goroutine takes its
steps and the kernel answers requests; nothing obliges anyone to signal. In
`shared` a receive timeout is set, without which neither property holds.

### What the code does and its documentation does not say

* `stale_ack`: `DeleteAllRules` leaves acknowledgements on the socket, and
  `auditGetReply` accepts one with another sequence number. A `SetRules` that
  follows succeeds though the kernel refused its rule.
* `event_as_reply`: `auditGetReply` takes an audit event for the
  acknowledgement.
* `cleanup`: `CleanupRules` wraps the error of its last deletion, which is nil if
  that one succeeded: the run has a refused deletion and then an accepted one.
* `blocked_done`: without a receive timeout, a loop that waits does not see the
  done channel.
* `missing_path`: a file rule without a path ends `SetRules` with `nil, nil`.

These were met as well, and are part of the models; they take one step and
have no run:

* the workaround for short headers (`libaudit.go:202`) also applies to replies
  whose length is a multiple of four, and lengthens their data (`DataLen`). For
  such a reply that ends less than a header before the end of `s.rb` the longer
  slice is out of range, and `ParseAuditNetlinkMessage` and `AuditIsEnabled`
  panic (lines 207 and 478). All four loops panic when they skip a last reply that
  came without its padding (line 213). These are the only panics:
  `PanicsExactlyOffTheEnd`. The code relies on the kernel to pad, and to send
  replies that are shorter than `s.rb` by a header or more;
* a message that `Recvfrom` cut off is dropped without an error if the datagram
  has another before it (`libaudit.go:197`; `AllDelivered` states what is
  delivered);
* a datagram shorter than a header gives `errors.Wrap(nil, ...)`, no error
  (`libaudit.go:292` and `310`; `Recvfrom`), although the message says "message
  length shorter than expected";
* `CleanupRules` drops the error of its listing (`rules.go:113`; `ListEnds`), then
  deletes nothing and returns nil;
* errors of `Receive` are not passed to the callbacks (`audit_events.go:205`,
  documented otherwise on line 193; `ReceiveFails`);
* `GetRawAuditEvents` makes an empty callback for an acknowledgement
  (`audit_events.go:111`; `Handled`);
* an unknown message type is not recognised by `NewAuditEvent`, since
  `parser.go:234` cuts off the prefix it looks for (`Understood`);
* `auditSyscallAdded` is reset per section, not per rule (`rules.go:610`), so
  that a later rule may do without a system call, as one of the test
  configuration does (`rules_test.go:42-59`; `SyscallRule`, `FirstHasSyscall`). Its
  key is then accepted on the strength of an earlier rule's system call, which
  the comment on `rules.go:334` leaves open;
* the check of `filetype` (`rules.go:409`) refuses the entry list and no other,
  though its message says "can only be used with exit and entry filter list";
  as `setActionAndFilters` turns entry into exit, it refuses nothing
  (`FilterAllows`);
* the prepend flag is overwritten before a rule is sent (`rules.go:502`;
  `ToSend`);
* a watch on `/` has its path trimmed to the empty one (`rules.go:793`; `Watch`).

## The proofs

For every value of the constants that satisfies the named assumptions
(`ConstantsAssumption`, `FramingAssumption`, `BuilderAssumption`: types of the
constants, datagrams as described above, limits that leave room for a watch):

* **AuditControlProofs**: `TypeCorrect`, one lemma per action.
* **AuditControlQueryProofs**: `ListingIsSnapshot`, `StatusIsThatOfTheRequest`,
  `DeleteAllSendsBackListing`, from the invariant of **AuditControlQueryInv**
  (which has the lemmas for the client's steps). The properties speak
  of the moment a call returns; the invariant `QueryInv` follows a query from its
  start. No number above `sequenceNumber` is on the wire (`Numbers`), so that
  whatever has the number `cur` answers this request (`Awaited`); its rules are
  split between those still owed, those queued and those collected
  (`Collected`), `NLMSG_DONE` comes behind them all in the queue (`DoneIsLast`),
  and so at `NLMSG_DONE` what was collected is what the kernel held (`Outcome`).
* **NetlinkFramingProofs**: `PanicsAreOffTheEnd`, `SlicesHoldPayloads`,
  `EveryMessageDelivered`. `FrameInv` ties `pos` to the start of the next
  message, each slice to its message, which was received whole and is not off the
  end, and says that what has not been used is still in the buffer: a request
  that sends message i back is no longer than where message i + 1 begins plus a
  header, hence ends before its payload. That a header fits exactly when its
  message was received whole (`NextHeader`) gives both what is delivered and
  that nothing else is taken for a message; `DataFacts` compares the lengths cut
  off with the ends of buffer and datagram.
* **RuleBuilderProofs**: `BuilderTypes`, `BufferFollowsFields`,
  `FieldsStayInRange`, `ExitFieldsStayOnExitList`. `BuilderInv` carries what
  holds of a rule while it is built, in particular that a rule whose filter is
  not exit has no field for exit only, up to the moment it is sent, when its
  flags become the filter; the rules sent keep it.

Only model-checked: liveness (`CallsReturn`, `StopsWhenTold`), which needs
fairness; the event loops; `SuccessMeansApplied` and `QuietBetweenCalls`, which
hold in an environment without events and faults; `SuccessMeansAll` and
`FirstHasSyscall`.

## Not modelled

Rule printing, the parser and the interpretation of fields (text); `Close` and
the descriptor after it; two goroutines in `SetRules` at once; the byte layout of
`toWireFormat` and `struc.Unpack`; `GetPID` and the JSON decoder other than by
their failing; the wrap-around of `sequenceNumber`, which takes 2^32 requests.
The tables in `headers` and the vendored libraries are external.

## Plan

1. Rule printing over the rules of `RuleBuilder`: `printRule`, `keyMatch` and
   `isWatch` cut `Buf` as `auditRuleFieldPairData` filled it.
2. The parser over tokens: it ends, and every token of a message goes to one
   field. With it the dispatch of `interpretField` on the type of a field, and
   the flag decoders of `interpret.go` (a value is the union of the names printed
   for it and of the bits no name covers).
3. `Close` while a loop runs, and a descriptor that is used again; two callers of
   `SetRules` on the package variables.
4. An abstract service (a call takes effect at one moment between its start
   and its return) which `AuditControl` implements in the environment of `clean`.
5. Theorems: `DeliveredOnce` and `NothingLost` of `EventLoop`; `FirstHasSyscall`;
   `NoRefusalSwallowed`.
