--------------------------- MODULE MCRuleBuilder ---------------------------
(* Configurations for RuleBuilder: what an entry may be, alone and after others. *)
EXTENDS RuleBuilder

Number(n) == [type |-> "number", len |-> 0, num |-> n, ok |-> TRUE]
String(l, n, known) == [type |-> "string", len |-> l, num |-> n, ok |-> known]
Other == [type |-> "other", len |-> 0, num |-> 0, ok |-> FALSE]
PathTo(l, t, stat) == [len |-> l, ok |-> TRUE, trimmed |-> t, stat |-> stat]

File(p, perm, key) == [path |-> p, permission |-> perm, key |-> key]
Call(nrs, words, fs, key, prep) ==
    [syscalls |-> nrs, actions |-> words, fields |-> fs, key |-> key, prepend |-> prep]
FieldOf(n, op, v) == [name |-> n, op |-> op, value |-> v]
Of(strict, fs, ss) == [strict_path_check |-> strict, file_rules |-> fs, syscall_rules |-> ss]

KeyWord == String(2, 0, TRUE)
AlwaysExit == <<"always", "exit">>
Dir == FieldOf("dir", "eq", String(3, 0, TRUE))
Perm == FieldOf("perm", "eq", String(1, 1, TRUE))
Uid == FieldOf("uid", "gt", Number(7))

\* File rules: a directory, a file with a permission and a key, an absent path, and
\* ones that are refused.
FileRules ==
    {File(PathTo(3, 2, "dir"), None, None), File(PathTo(2, 2, "file"), String(2, 6, TRUE), KeyWord),
     File(PathTo(1, 0, "absent"), None, KeyWord), File(PathTo(2, 2, "error"), None, KeyWord),
     File(PathTo(4, 4, "file"), None, None), File(PathTo(2, 2, "file"), String(5, 6, TRUE), None),
     File(PathTo(2, 2, "file"), None, String(3, 0, TRUE))}
WithoutPath == File(PathTo(0, 0, "absent"), None, None)

\* Syscall rules: with and without system calls, with strings in several places, as many
\* fields as there is room for, one more, one list or none, an entry that is no string.
SyscallRules ==
    {Call(<<0, 31>>, AlwaysExit, <<>>, KeyWord, FALSE), Call(<<NotFound>>, AlwaysExit, <<Uid>>, KeyWord, FALSE),
     Call(<<>>, <<"exit", "never">>, <<Dir, Perm>>, None, FALSE),
     Call(<<NotFound, 5>>, <<"entry", "always">>, <<Dir, Uid, Dir>>, KeyWord, TRUE),
     Call(<<1>>, AlwaysExit, <<Dir, Uid, Dir, Perm>>, KeyWord, FALSE),
     Call(<<1>>, AlwaysExit, <<Dir, Uid, Dir, Perm, Uid>>, None, FALSE),
     Call(<<1, 32>>, AlwaysExit, <<>>, None, FALSE), Call(<<1, NotString>>, AlwaysExit, <<>>, None, FALSE),
     Call(<<1>>, <<"always", "never">>, <<>>, None, FALSE)}

Short(S) == {<<>>} \cup {<<x>> : x \in S} \cup {<<x, y>> : x, y \in S}

\* One field in a rule of each list, followed by a key.
OneField ==
    {<<Call(<<1>>, <<"always", list>>, <<FieldOf(n, op, v)>>, KeyWord, FALSE)>> :
        list \in {"exit", "user", "task", "exclude"}, op \in {"eq", "gt"},
        n \in {"uid", "gid", "exit", "msgtype", "obj_user", "path", "subj_user", "arch", "perm",
               "filetype", "a0", "inode", "success", "ppid", "pid", "key"},
        v \in {Number(3), String(2, 4, TRUE), String(5, 0, FALSE), Other}}

ManyConfigs ==
    {Of(TRUE, f, <<>>) : f \in Short(FileRules)} \cup {Of(FALSE, <<>>, s) : s \in Short(SyscallRules)}
      \cup {Of(FALSE, <<f>>, <<s>>) : f \in FileRules, s \in SyscallRules}
      \cup {Of(FALSE, <<>>, s) : s \in OneField}

PathMissing == {Of(FALSE, <<f, WithoutPath>>, <<>>) : f \in FileRules}
=============================================================================
