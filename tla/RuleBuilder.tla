---------------------------- MODULE RuleBuilder ----------------------------
(***************************************************************************)
(* How SetRules (rules.go) turns a configuration into AuditRuleData and    *)
(* adds them to the kernel, one entry after the other, under the package   *)
(* variables auditPermAdded and auditSyscallAdded, which outlive the call. *)
(*                                                                         *)
(* A value of the configuration is a record: its JSON type, the length it  *)
(* has as a string, the number it is or is looked up as, and whether the   *)
(* lookup (of a user, a message type, a file type, the letters rwxa)       *)
(* knows it. A rule holds FieldCount fields; Buf is the sequence of the    *)
(* strings appended to it, each with the index of the field it is for, and *)
(* Mask the set of the system calls whose bits are set.                    *)
(* The configuration has the JSON types that SetRules asserts, and every   *)
(* syscall rule has "actions"; the acknowledged exchange with the kernel   *)
(* is the subject of AuditControl and either succeeds or fails here.       *)
(***************************************************************************)
EXTENDS Integers, Sequences, FiniteSets

CONSTANTS
    Configs,            \* the configurations SetRules is called with
    AUDIT_MAX_FIELDS,
    AUDIT_BITMASK_SIZE,
    AUDIT_MAX_KEY_LEN,
    PATH_MAX

Uids == {"uid", "euid", "suid", "fsuid", "auid", "loginuid", "obj_uid", "obj_gid"}
Watches == {"path", "dir"}
ObjStrings == {"obj_user", "obj_role", "obj_type", "obj_lev_low", "obj_lev_high"}
Strings ==
    Watches \cup ObjStrings
      \cup {"subj_user", "subj_role", "subj_type", "subj_sen", "subj_clr", "key"}
ExitOnly == {"exit", "perm", "devmajor", "inode", "success"} \cup Watches \cup ObjStrings

\* The fields that take a number only.
Numbers ==
    {"gid", "egid", "sgid", "fsgid", "exit", "arch", "a0", "a1", "a2", "a3", "devmajor",
     "devminor", "inode", "success", "ppid", "pers", "field_compare"}

\* headers.FieldMap, without "pid": its id is 0, which stands for an unknown name.
FieldMap == Uids \cup Strings \cup Numbers \cup {"msgtype", "perm", "filetype"}

Names == FieldMap \cup {"pid", "unknown"}
Ops == {"eq", "nt_eq", "gt", "lt", "gt_or_eq", "lt_or_eq", "and", "and_eq", "unknown"}
Actions == {"never", "possible", "always"}
Filters == {"task", "entry", "exit", "user", "exclude"}
Words == Actions \cup Filters \cup {"unknown"}

\* An entry of "syscalls" is the number SysMapX64 has for the name, or one of these: the
\* name has none, or the entry is no string.
NotFound == -1
NotString == -2

Value == [type: {"number", "string", "other", "none"}, len: Nat, num: Nat, ok: BOOLEAN]
None == [type |-> "none", len |-> 0, num |-> 0, ok |-> FALSE]
Path == [len: Nat, ok: BOOLEAN, trimmed: Nat, stat: {"file", "dir", "absent", "error"}]
FileEntry == [path: Path, permission: Value, key: Value]
SyscallEntry ==
    [syscalls: Seq(Int), actions: Seq(Words), key: Value, prepend: BOOLEAN,
     fields: Seq([name: Names, op: Ops, value: Value])]
Config ==
    [strict_path_check: BOOLEAN, file_rules: Seq(FileEntry), syscall_rules: Seq(SyscallEntry)]

ASSUME BuilderAssumption ==
    /\ \A c \in Configs : c \in Config
    /\ AUDIT_MAX_FIELDS \in Nat /\ AUDIT_MAX_FIELDS > 2
    /\ AUDIT_BITMASK_SIZE \in Nat \ {0}
    /\ AUDIT_MAX_KEY_LEN \in Nat /\ PATH_MAX \in Nat /\ AUDIT_MAX_KEY_LEN <= PATH_MAX

VARIABLES
    auditPermAdded, auditSyscallAdded,
    pc,         \* "idle", "section", "entry", "fields", "key" or "add"
    config,     \* the configuration of the call
    sections,   \* its sections still to be gone through, in the order a map yields
    section,    \* the section at hand
    entries,    \* its entries still to be added, the one at hand first
    rule,       \* ruleData
    filter, action,
    fields,     \* the fields of the entry still to be set
    ruleArray,
    result,     \* of the last call: "none" while it runs, "nil", "error" or "panic"
    added       \* history: the rules the kernel took in this call, with their entries

globals == <<auditPermAdded, auditSyscallAdded>>
place == <<config, sections, section>>
vars == <<globals, pc, place, entries, rule, filter, action, fields, ruleArray, result, added>>
-----------------------------------------------------------------------------
(* Fields *)

\* Mutated form of FilterAllows: the fallthrough case loses its check of the list.
FilterAllowsWatches(name, op, flags) ==
    /\ flags = "exclude" => name = "msgtype"
    /\ name \in ExitOnly \ (Watches \cup ObjStrings) => flags = "exit"
    /\ name \in {"arch", "inode"} => op \in {"eq", "nt_eq"}

\* The fields the switch lets through with the operator op in a rule of the list flags.
\* The check of filetype refuses the entry list alone, which FilterOf never yields; its
\* message ("can only be used with exit and entry filter list") says the opposite.
FilterAllows(name, op, flags) ==
    /\ flags = "exclude" => name = "msgtype"
    /\ name \in ExitOnly => flags = "exit"
    /\ name = "msgtype" => flags \in {"exclude", "user"}
    /\ name = "ppid" => flags \in {"exit", "entry"}
    /\ name = "filetype" => flags # "entry"
    /\ name \in {"arch", "inode"} => op \in {"eq", "nt_eq"}
    /\ name = "perm" => op = "eq"

\* A perm that is no string is let through as well, and its value stays 0.
ValueAllowed(name, v) ==
    CASE name \in Numbers -> v.type = "number"
      [] name \in Strings ->
           v.type = "string" /\ v.len <= (IF name = "key" THEN AUDIT_MAX_KEY_LEN ELSE PATH_MAX)
      [] name = "perm" -> v.type = "string" => v.len <= 4 /\ v.ok
      [] name = "filetype" -> v.type = "string" /\ v.ok
      [] OTHER -> v.type = "number" \/ (v.type = "string" /\ v.ok)

\* The machine in AUDIT_ARCH_X86_64, without the flag bits above it.
AUDIT_ARCH_X86_64 == 62

\* Every arch is taken for that of X64 machines.
ValueSet(name, v) ==
    CASE name \in Strings -> v.len
      [] name = "perm" /\ v.type # "string" -> 0
      [] name = "arch" -> AUDIT_ARCH_X86_64
      [] OTHER -> v.num

\* Mutated form of RoomForField: FieldCount is compared with AUDIT_MAX_FIELDS.
RoomForOneMore(r) == Len(r.fields) <= AUDIT_MAX_FIELDS

RoomForField(r) == Len(r.fields) < AUDIT_MAX_FIELDS - 1

\* Mutated form of Accepted: a name that is not in the map is let through.
AcceptedUnknown(r, v, op, name, flags) ==
    RoomForField(r) /\ FilterAllows(name, op, flags) /\ ValueAllowed(name, v)

Accepted(r, v, op, name, flags) ==
    /\ RoomForField(r)
    /\ name \in FieldMap
    /\ FilterAllows(name, op, flags)
    /\ name = "key" => auditSyscallAdded \/ auditPermAdded
    /\ name = "arch" => auditSyscallAdded
    /\ ValueAllowed(name, v)

\* Mutated form of WithField: only a watch has its string in Buf.
WithFieldNoString(r, v, op, name) ==
    [r EXCEPT
      !.fields = Append(@, [name |-> name, op |-> op, value |-> ValueSet(name, v)]),
      !.buf = IF name \in Watches THEN Append(@, [field |-> Len(r.fields) + 1, len |-> v.len]) ELSE @]

WithField(r, v, op, name) ==
    [r EXCEPT
      !.fields = Append(@, [name |-> name, op |-> op, value |-> ValueSet(name, v)]),
      !.buf = IF name \in Strings THEN Append(@, [field |-> Len(r.fields) + 1, len |-> v.len]) ELSE @]

\* A watch counts as a permission as soon as its filter is right, even if the value is
\* then refused.
PermAdded(r, v, op, name, flags) ==
    \/ auditPermAdded
    \/ name \in Watches /\ RoomForField(r) /\ flags = "exit"
    \/ name = "perm" /\ v.type = "string" /\ Accepted(r, v, op, name, flags)

\* SetRules returns without a rule array.
Fail(r) ==
    /\ pc' = "idle"
    /\ result' = r
    /\ ruleArray' = <<>>

auditRuleFieldPairData(v, op, name, flags, next) ==
    /\ auditPermAdded' = PermAdded(rule, v, op, name, flags)
    /\ \/ /\ Accepted(rule, v, op, name, flags)
          /\ rule' = WithField(rule, v, op, name)
          /\ pc' = next
          /\ UNCHANGED <<result, ruleArray>>
       \/ ~Accepted(rule, v, op, name, flags) /\ Fail("error") /\ UNCHANGED rule
    /\ UNCHANGED auditSyscallAdded
-----------------------------------------------------------------------------
(* Watches *)

EmptyRule == [flags |-> {}, action |-> "unset", mask |-> {}, fields |-> <<>>, buf |-> <<>>]
auditWord(nr) == nr \div 32
AllSyscalls == {nr \in 0..(32 * AUDIT_BITMASK_SIZE - 1) : auditWord(nr) < AUDIT_BITMASK_SIZE - 1}

\* checkPath, and what os.Stat says of the path without its trailing slashes.
PathAccepted(p, strict) ==
    /\ p.len < PATH_MAX /\ p.ok
    /\ p.stat # "error"
    /\ p.stat = "absent" => ~strict

\* With a permission, auditUpdateWatchPerms changes that of the field set before.
Watch(p, perm) ==
    [flags |-> {"exit"}, action |-> "always", mask |-> AllSyscalls,
     fields |-> <<[name |-> IF p.stat = "dir" THEN "dir" ELSE "path", op |-> "eq", value |-> p.trimmed],
                  [name |-> "perm", op |-> "eq", value |-> IF perm = None THEN 15 ELSE perm.num]>>,
     buf |-> <<[field |-> 1, len |-> p.trimmed]>>]

PermsAccepted(perm) == perm = None \/ (perm.len <= 4 /\ perm.ok)
-----------------------------------------------------------------------------
(* SetRules *)

\* A call, with its variables declared anew.
SetRules ==
    /\ pc = "idle" /\ result # "panic"
    /\ config' \in Configs
    /\ sections' = {"file_rules", "syscall_rules"}
    /\ section' = "file_rules" /\ entries' = <<>>
    /\ rule' = EmptyRule /\ filter' = "unset" /\ action' = "unset" /\ fields' = <<>>
    /\ pc' = "section" /\ result' = "none" /\ ruleArray' = <<>> /\ added' = <<>>
    /\ UNCHANGED globals

\* Mutated form of SyscallAddedAtStart: the variable is reset by the caller only.
SyscallAddedKept == auditSyscallAdded

SyscallAddedAtStart == FALSE

\* The next key of the configuration, or the end of it. Other keys have no effect.
Section ==
    /\ pc = "section"
    /\ \/ \E k \in sections :
             /\ sections' = sections \ {k}
             /\ section' = k
             /\ entries' = config[k]
             /\ auditSyscallAdded' = SyscallAddedAtStart
             /\ pc' = "entry"
             /\ UNCHANGED result
       \/ /\ sections = {}
          /\ pc' = "idle" /\ result' = "nil"
          /\ UNCHANGED <<auditSyscallAdded, sections, section, entries>>
    /\ UNCHANGED <<auditPermAdded, config, rule, filter, action, fields, ruleArray, added>>

SectionEnds ==
    /\ pc = "entry" /\ entries = <<>>
    /\ pc' = "section"
    /\ UNCHANGED <<globals, place, entries, rule, filter, action, fields, ruleArray, result, added>>

\* A file rule up to its key. An entry without a path ends the call: err, which is
\* wrapped, is nil.
FileRule ==
    /\ pc = "entry" /\ section = "file_rules" /\ entries # <<>>
    /\ LET e == Head(entries)
           good == PathAccepted(e.path, config.strict_path_check) /\ PermsAccepted(e.permission)
       IN \/ /\ e.path.len = 0
             /\ Fail("nil")
             /\ UNCHANGED <<auditSyscallAdded, rule, filter, action, fields>>
          \/ /\ e.path.len > 0
             /\ auditSyscallAdded' = TRUE
             /\ \/ /\ good
                   /\ rule' = Watch(e.path, e.permission)
                   /\ filter' = "exit" /\ action' = "always" /\ fields' = <<>>
                   /\ pc' = "key"
                   /\ UNCHANGED <<result, ruleArray>>
                \/ ~good /\ Fail("error") /\ UNCHANGED <<rule, filter, action, fields>>
    /\ UNCHANGED <<auditPermAdded, place, entries, added>>

\* setActionAndFilters: the last word of each kind counts, "entry" stands for exit.
LastWord(words, S, default) ==
    LET I == {i \in DOMAIN words : words[i] \in S}
    IN IF I = {} THEN default ELSE words[CHOOSE i \in I : \A j \in I : j <= i]

ActionOf(words) == LastWord(words, Actions, "unset")
FilterOf(words) ==
    LET w == LastWord(words, Filters, "unset")
    IN IF w = "entry" THEN "exit" ELSE w

\* Mutated form of NewRule: ruleData is declared outside the loop.
KeepsRule == rule

NewRule == EmptyRule

\* A syscall rule up to its fields. The first entry of "syscalls" that is no string, or
\* whose word is outside of the mask, ends the call.
SyscallRule ==
    /\ pc = "entry" /\ section = "syscall_rules" /\ entries # <<>>
    /\ LET e == Head(entries)
           known == {i \in DOMAIN e.syscalls : e.syscalls[i] \notin {NotFound, NotString}}
           bad == {i \in DOMAIN e.syscalls :
                     \/ e.syscalls[i] = NotString
                     \/ i \in known /\ auditWord(e.syscalls[i]) >= AUDIT_BITMASK_SIZE - 1}
       IN /\ auditSyscallAdded' = (auditSyscallAdded \/ \E i \in known : \A j \in bad : i < j)
          /\ \/ /\ bad = {} /\ auditSyscallAdded'
                /\ rule' = [NewRule EXCEPT !.mask = @ \cup {e.syscalls[i] : i \in known}]
                /\ filter' = FilterOf(e.actions) /\ action' = ActionOf(e.actions)
                /\ fields' = e.fields
                /\ pc' = "fields"
                /\ UNCHANGED <<result, ruleArray>>
             \/ /\ bad # {} \/ ~auditSyscallAdded'
                /\ Fail("error")
                /\ UNCHANGED <<rule, filter, action, fields>>
    /\ UNCHANGED <<auditPermAdded, place, entries, added>>

Field ==
    /\ pc = "fields"
    /\ \/ /\ fields # <<>>
          /\ LET f == Head(fields) IN auditRuleFieldPairData(f.value, f.op, f.name, filter, "fields")
          /\ fields' = Tail(fields)
       \/ /\ fields = <<>> /\ pc' = "key"
          /\ UNCHANGED <<globals, rule, fields, result, ruleArray>>
    /\ UNCHANGED <<place, entries, filter, action, added>>

Key ==
    /\ pc = "key"
    /\ LET key == Head(entries).key
       IN \/ key # None /\ auditRuleFieldPairData(key, "eq", "key", "unset", "add")
          \/ key = None /\ pc' = "add" /\ UNCHANGED <<globals, rule, result, ruleArray>>
    /\ UNCHANGED <<place, entries, filter, action, fields, added>>

\* Flags as they are when auditAddRuleData is called.
Prepended(r, e) ==
    IF section = "syscall_rules" /\ e.prepend THEN [r EXCEPT !.flags = @ \cup {"prepend"}] ELSE r

\* auditAddRuleData overwrites the flags and the action.
ToSend(r) == [r EXCEPT !.flags = {filter}, !.action = action]

\* The rule is sent. If the exchange fails, the kernel may have taken the rule or not.
\* The message for an entry without a filter is made from two of its actions.
AddRule ==
    /\ pc = "add"
    /\ LET e == Head(entries)
           r == ToSend(Prepended(rule, e))
           taken == Append(added, [section |-> section, entry |-> e, rule |-> r])
       IN \/ /\ filter # "unset"
             /\ rule' = r /\ ruleArray' = Append(ruleArray, r) /\ added' = taken
             /\ entries' = Tail(entries) /\ pc' = "entry"
             /\ UNCHANGED result
          \/ /\ filter # "unset"
             /\ rule' = r /\ added' \in {added, taken}
             /\ Fail("error")
             /\ UNCHANGED entries
          \/ /\ filter = "unset"
             /\ Fail(IF Len(e.actions) < 2 THEN "panic" ELSE "error")
             /\ UNCHANGED <<rule, entries, added>>
    /\ UNCHANGED <<globals, place, filter, action, fields>>

Init ==
    /\ auditPermAdded = FALSE /\ auditSyscallAdded = FALSE
    /\ pc = "idle" /\ result = "none"
    /\ config \in Configs /\ sections = {} /\ section = "file_rules" /\ entries = <<>>
    /\ rule = EmptyRule /\ filter = "unset" /\ action = "unset" /\ fields = <<>>
    /\ ruleArray = <<>> /\ added = <<>>

Next == SetRules \/ Section \/ SectionEnds \/ FileRule \/ SyscallRule \/ Field \/ Key \/ AddRule

Spec == Init /\ [][Next]_vars
-----------------------------------------------------------------------------
(* Properties *)

FieldSet == [name: FieldMap, op: Ops, value: Nat]
Rule ==
    [flags: SUBSET (Filters \cup {"prepend"}), action: Actions \cup {"unset"}, mask: SUBSET Int, fields: Seq(FieldSet),
     buf: Seq([field: Nat, len: Nat])]

TypeOK ==
    /\ auditPermAdded \in BOOLEAN /\ auditSyscallAdded \in BOOLEAN
    /\ pc \in {"idle", "section", "entry", "fields", "key", "add"}
    /\ config \in Configs
    /\ sections \subseteq {"file_rules", "syscall_rules"} /\ section \in {"file_rules", "syscall_rules"}
    /\ entries \in Seq(FileEntry) \cup Seq(SyscallEntry)
    /\ rule \in Rule
    /\ filter \in Filters \cup {"unset"} /\ action \in Actions \cup {"unset"}
    /\ fields \in Seq([name: Names, op: Ops, value: Value])
    /\ ruleArray \in Seq(Rule)
    /\ result \in {"none", "nil", "error", "panic"}

\* Buf holds the strings of the string fields, in the order of the fields, and nothing
\* else: the i-th string the kernel cuts out of Buf by the lengths in Values is the one
\* meant for the i-th string field.
BufferMatches(r) ==
    /\ \A i \in DOMAIN r.fields : r.fields[i].name \in Strings =>
         \E k \in DOMAIN r.buf : r.buf[k] = [field |-> i, len |-> r.fields[i].value]
    /\ \A k \in DOMAIN r.buf :
         r.buf[k].field \in DOMAIN r.fields /\ r.fields[r.buf[k].field].name \in Strings
    /\ \A j, k \in DOMAIN r.buf : j < k => r.buf[j].field < r.buf[k].field

\* Every rule the kernel is sent, and the one being built, has such a buffer.
StringsInOrder == BufferMatches(rule) /\ \A i \in DOMAIN added : BufferMatches(added[i].rule)

\* FieldCount stays below the size of the arrays, whatever the configuration lists: no
\* field is set out of their range, the key that comes last included.
FieldsFit == Len(rule.fields) < AUDIT_MAX_FIELDS

\* A field that works only on the exit list is in no rule of another list. The list is
\* known only when the rule is sent, long after the fields have been checked.
ExitFieldsOnExitList ==
    \A i \in DOMAIN added : added[i].rule.flags # {"exit"} =>
        \A k \in DOMAIN added[i].rule.fields : added[i].rule.fields[k].name \notin ExitOnly

\* The fields of an entry as the configuration writes them: name and what it sets.
KeyFields(key) ==
    IF key = None THEN <<>> ELSE <<[name |-> "key", op |-> "eq", value |-> key.len]>>
FileFields(e) ==
    <<[name |-> IF e.path.stat = "dir" THEN "dir" ELSE "path", op |-> "eq", value |-> e.path.trimmed],
      [name |-> "perm", op |-> "eq", value |-> IF e.permission = None THEN 15 ELSE e.permission.num]>>
SyscallFields(e) ==
    [i \in DOMAIN e.fields |->
       [name |-> e.fields[i].name, op |-> e.fields[i].op,
        value |-> ValueSet(e.fields[i].name, e.fields[i].value)]]

FromFile(r, e) == r.fields = FileFields(e) \o KeyFields(e.key) /\ r.mask = AllSyscalls
FromSyscall(r, e) ==
    /\ r.fields = SyscallFields(e) \o KeyFields(e.key)
    /\ r.mask = {nr \in AllSyscalls : \E i \in DOMAIN e.syscalls : e.syscalls[i] = nr}

\* When SetRules returns nil, the rules it returns are those of all the entries, each
\* with the fields and the system calls of its own entry and of no other, section by
\* section in the order of the configuration, and they are what the kernel took.
SuccessMeansAll ==
    pc = "idle" /\ result = "nil" =>
        LET f == Len(config.file_rules)
            s == Len(config.syscall_rules)
        IN /\ ruleArray = [i \in DOMAIN added |-> added[i].rule]
           /\ Len(ruleArray) = f + s
           /\ \E d \in {<<0, f>>, <<s, 0>>} :
                /\ \A i \in 1..f : FromFile(ruleArray[d[1] + i], config.file_rules[i])
                /\ \A i \in 1..s : FromSyscall(ruleArray[d[2] + i], config.syscall_rules[i])

\* "one or more syscalls not found" (rules.go:683): what the file rules, or an earlier
\* call, left in the package variables does not let a section of syscall rules start
\* with a rule that names no known system call. A later rule may do without one, as in
\* rules_test.go:42-59: auditSyscallAdded is reset for the section, not for the rule.
FirstHasSyscall ==
    LET I == {i \in DOMAIN added : added[i].section = "syscall_rules"}
    IN \A i \in I : (\A j \in I : i <= j) => added[i].rule.mask # {}
=============================================================================
