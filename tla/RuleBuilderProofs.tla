------------------------- MODULE RuleBuilderProofs -------------------------
(***************************************************************************)
(* Theorems about RuleBuilder, for every set of configurations and every   *)
(* value of the limits.                                                    *)
(***************************************************************************)
EXTENDS RuleBuilder, SequenceTheorems, WellFoundedInduction, TLAPS

NoExitFields(r) == \A k \in DOMAIN r.fields : r.fields[k].name \notin ExitOnly

\* What is kept of a rule from its first field on.
GoodRule(r) ==
    /\ r \in Rule
    /\ BufferMatches(r)
    /\ Len(r.fields) < AUDIT_MAX_FIELDS

\* A rule whose fields are being set respects the list it will be sent to.
Building == pc \in {"fields", "key", "add"}

\* The invariant. That a rule in added suits its list follows from what was known of the
\* same rule, and of filter, while it was built.
Sent(x) ==
    /\ GoodRule(x.rule)
    /\ x.rule.flags # {"exit"} => NoExitFields(x.rule)

EntryType ==
    /\ section = "file_rules" => entries \in Seq(FileEntry)
    /\ section = "syscall_rules" => entries \in Seq(SyscallEntry)
    /\ Building => entries # <<>>

BuilderInv ==
    /\ TypeOK /\ EntryType
    /\ GoodRule(rule)
    /\ Building /\ filter # "exit" => NoExitFields(rule)
    /\ added \in Seq({x \in [section: {"file_rules", "syscall_rules"},
                             entry: FileEntry \cup SyscallEntry, rule: Rule] : Sent(x)})

(***************************************************************************)
(* A set of positions of a sequence has a last one, so that LastWord is    *)
(* one of the words or the default.                                        *)
(***************************************************************************)
LEMMA LastPosition ==
    ASSUME NEW n \in Nat, NEW I \in SUBSET (1..n), I # {}
    PROVE  \E i \in I : \A j \in I : j <= i
<1> DEFINE T == {n - i : i \in I}
<1>1. T \subseteq Nat /\ T # {}
  <2>1. \A i \in I : n - i \in Nat /\ n - i \in T
    OBVIOUS
  <2>2. PICK i \in I : TRUE
    BY Zenon
  <2> QED BY <2>1, <2>2
<1>2. PICK x \in T : \A y \in T : ~ (<<y, x>> \in OpToRel(<, Nat))
  <2> HIDE DEF T
  <2> QED BY <1>1, NatLessThanWellFounded, WFMin
<1>3. \A y \in T : ~ (y < x)
  BY <1>1, <1>2, Zenon DEF OpToRel
<1>4. PICK i \in I : x = n - i
  OBVIOUS
<1>5. ASSUME NEW j \in I PROVE j <= i
  <2>1. n - j \in T
    OBVIOUS
  <2>2. ~ (n - j < n - i)
    BY <1>3, <1>4, <2>1, Zenon
  <2> QED BY <2>2
<1> QED BY <1>5

\* The word that setActionAndFilters settles on is of its kind or unset.
LEMMA LastWordType ==
    ASSUME NEW words \in Seq(Words), NEW S, NEW default
    PROVE  LastWord(words, S, default) \in S \cup {default}
<1> DEFINE I == {i \in DOMAIN words : words[i] \in S}
<1>1. CASE I = {}
  BY <1>1 DEF LastWord
<1>2. CASE I # {}
  <2>1. I \in SUBSET (1..Len(words)) /\ Len(words) \in Nat
    BY LenProperties
  <2>2. \E i \in I : \A j \in I : j <= i
    <3> HIDE DEF I
    <3> QED BY <1>2, <2>1, LastPosition, Zenon
  <2> DEFINE c == CHOOSE i \in I : \A j \in I : j <= i
  <2>3. c \in I
    <3> HIDE DEF I
    <3> QED BY <2>2
  <2>4. words[c] \in S
    <3> HIDE DEF c
    <3> QED BY <2>3
  <2>5. LastWord(words, S, default) = words[c]
    BY <1>2 DEF LastWord
  <2> QED BY <2>4, <2>5
<1> QED BY <1>1, <1>2

(***************************************************************************)
(* The rules that are built: the empty one, a watch, and a good rule with  *)
(* one more field.                                                         *)
(***************************************************************************)
LEMMA NoFieldsGood ==
    ASSUME NEW r, NEW S \in SUBSET Int,
           r = [flags |-> {}, action |-> "unset", mask |-> S, fields |-> <<>>, buf |-> <<>>]
    PROVE  GoodRule(r) /\ NoExitFields(r)
<1>1. r \in Rule
  <2>1. <<>> \in Seq(FieldSet) /\ <<>> \in Seq([field: Nat, len: Nat])
    OBVIOUS
  <2> QED BY <2>1 DEF Rule
<1>2. DOMAIN r.fields = {} /\ DOMAIN r.buf = {} /\ Len(r.fields) = 0
  <2>1. r.fields = <<>> /\ r.buf = <<>>
    OBVIOUS
  <2> QED BY <2>1
<1> QED BY <1>1, <1>2, BuilderAssumption DEF GoodRule, BufferMatches, NoExitFields

\* A rule just declared is in order.
LEMMA EmptyRuleGood == GoodRule(EmptyRule)
BY NoFieldsGood DEF EmptyRule

\* Setting bits of the mask touches no field.
LEMMA SyscallsGood ==
    ASSUME NEW S \in SUBSET Int
    PROVE  /\ GoodRule([EmptyRule EXCEPT !.mask = @ \cup S])
           /\ NoExitFields([EmptyRule EXCEPT !.mask = @ \cup S])
<1> DEFINE r == [EmptyRule EXCEPT !.mask = @ \cup S]
<1>1. EmptyRule.mask \cup S = S
  BY DEF EmptyRule
<1>2. r = [EmptyRule EXCEPT !.mask = S]
  BY <1>1
<1> HIDE DEF r
<1>3. r = [flags |-> {}, action |-> "unset", mask |-> S, fields |-> <<>>, buf |-> <<>>]
  BY <1>2, Zenon DEF EmptyRule
<1>4. GoodRule(r) /\ NoExitFields(r)
  BY <1>3, NoFieldsGood
<1> QED BY <1>4 DEF r

\* The rule that auditAddWatchDir makes is in order: its path is its only string.
LEMMA WatchGood ==
    ASSUME NEW p \in Path, NEW perm \in Value
    PROVE  GoodRule(Watch(p, perm))
<1> DEFINE w == Watch(p, perm)
           a == [name |-> IF p.stat = "dir" THEN "dir" ELSE "path", op |-> "eq", value |-> p.trimmed]
           b == [name |-> "perm", op |-> "eq", value |-> IF perm = None THEN 15 ELSE perm.num]
           s == [field |-> 1, len |-> p.trimmed]
<1>1. /\ w = [flags |-> {"exit"}, action |-> "always", mask |-> AllSyscalls,
              fields |-> <<a, b>>, buf |-> <<s>>]
      /\ w.fields = <<a, b>> /\ w.buf = <<s>>
  BY DEF Watch
<1>2. a \in FieldSet /\ a.name \in Strings /\ a.value = p.trimmed
  <2>1. p.trimmed \in Nat
    BY DEF Path
  <2>2. a.name \in Watches /\ a.value = p.trimmed /\ a.op = "eq"
    BY DEF Watches
  <2>3. Watches \subseteq Strings /\ Strings \subseteq FieldMap
    BY DEF FieldMap, Strings
  <2>4. a = [name |-> a.name, op |-> a.op, value |-> a.value]
    OBVIOUS
  <2>5. "eq" \in Ops
    BY DEF Ops
  <2> HIDE DEF a
  <2> QED BY <2>1, <2>2, <2>3, <2>4, <2>5 DEF FieldSet
<1>3. b \in FieldSet /\ b.name \notin Strings
  <2>1. (IF perm = None THEN 15 ELSE perm.num) \in Nat
    BY DEF Value
  <2>2. "perm" \in FieldMap /\ "perm" \notin Strings /\ "eq" \in Ops
    BY DEF FieldMap, Strings, Watches, ObjStrings, Ops
  <2> QED BY <2>1, <2>2 DEF FieldSet
<1>4. s \in [field: Nat, len: Nat]
  BY DEF Path
<1>5. AllSyscalls \subseteq Int
  BY BuilderAssumption DEF AllSyscalls
<1>6. w \in Rule
  <2> HIDE DEF a, b, s
  <2>1. <<a, b>> \in Seq(FieldSet)
    BY <1>2, <1>3
  <2>2. <<s>> \in Seq([field: Nat, len: Nat])
    BY <1>4
  <2>3. {"exit"} \in SUBSET (Filters \cup {"prepend"}) /\ "always" \in Actions
    BY DEF Filters, Actions
  <2> HIDE DEF w
  <2> QED BY <1>1, <1>5, <2>1, <2>2, <2>3 DEF Rule
<1>7. BufferMatches(w)
  <2> HIDE DEF w, a, b
  <2>1. DOMAIN w.fields = {1, 2} /\ DOMAIN w.buf = {1} /\ w.fields[1] = a /\ w.fields[2] = b
    BY <1>1
  <2>2. w.buf[1] = s /\ s.field = 1
    BY <1>1
  <2>3. w.buf[1] = [field |-> 1, len |-> a.value]
    BY <1>2, <2>2
  <2> HIDE DEF s
  <2> QED BY <1>2, <1>3, <2>1, <2>2, <2>3 DEF BufferMatches
<1>8. Len(w.fields) = 2
  BY <1>1
<1> QED BY <1>6, <1>7, <1>8, BuilderAssumption DEF GoodRule

\* A field set by auditRuleFieldPairData has its string at the end of Buf.
LEMMA WithFieldGood ==
    ASSUME NEW r, GoodRule(r), NEW v \in Value, NEW op \in Ops, NEW name \in Names, NEW flags,
           Accepted(r, v, op, name, flags)
    PROVE  /\ GoodRule(WithField(r, v, op, name))
           /\ flags # "exit" /\ NoExitFields(r) => NoExitFields(WithField(r, v, op, name))
<1> DEFINE F == Seq(FieldSet)
           C == [field: Nat, len: Nat]
           x == [name |-> name, op |-> op, value |-> ValueSet(name, v)]
           c == [field |-> Len(r.fields) + 1, len |-> v.len]
           w == WithField(r, v, op, name)
<1>1. r.fields \in Seq(FieldSet) /\ r.buf \in Seq(C) /\ Len(r.fields) \in Nat /\ r \in Rule
  BY DEF GoodRule, Rule
<1>2. x \in FieldSet
  <2>1. v.len \in Nat /\ v.num \in Nat
    BY DEF Value
  <2>2. ValueSet(name, v) \in Nat
    BY <2>1 DEF ValueSet, AUDIT_ARCH_X86_64
  <2>3. name \in FieldMap
    BY DEF Accepted
  <2> QED BY <2>2, <2>3 DEF FieldSet
<1>3. c \in C
  BY <1>1 DEF Value
<1>4. /\ w.fields = Append(r.fields, x)
      /\ w.buf = IF name \in Strings THEN Append(r.buf, c) ELSE r.buf
      /\ w = [r EXCEPT !.fields = w.fields, !.buf = w.buf]
      /\ w.flags = r.flags /\ w.action = r.action /\ w.mask = r.mask
  <2> HIDE DEF x, c
  <2> DEFINE fs == Append(r.fields, x)
             bs == IF name \in Strings THEN Append(r.buf, c) ELSE r.buf
  <2>1. w = [r EXCEPT !.fields = fs, !.buf = bs]
    BY DEF WithField, x, c
  <2> HIDE DEF w, fs, bs
  <2>2. w.fields = fs /\ w.buf = bs /\ w.flags = r.flags /\ w.action = r.action /\ w.mask = r.mask
    BY <1>1, <2>1 DEF Rule
  <2> QED BY <2>1, <2>2 DEF fs, bs
<1> HIDE DEF x, c, w
<1>5. w.fields \in Seq(FieldSet) /\ w.buf \in Seq(C)
  <2> HIDE DEF C
  <2>1. Append(r.fields, x) \in Seq(FieldSet) /\ Append(r.buf, c) \in Seq(C)
    BY <1>1, <1>2, <1>3
  <2> QED BY <1>1, <1>4, <2>1
<1>6. w \in Rule
  <2> HIDE DEF C
  <2> QED BY <1>1, <1>4, <1>5, Zenon DEF Rule, C
<1>7. /\ Len(w.fields) = Len(r.fields) + 1 /\ DOMAIN w.fields = 1..(Len(r.fields) + 1)
      /\ DOMAIN r.fields = 1..Len(r.fields)
      /\ \A i \in 1..Len(r.fields) : w.fields[i] = r.fields[i]
      /\ w.fields[Len(r.fields) + 1] = x
  BY <1>1, <1>2, <1>4
<1>8. Len(w.fields) < AUDIT_MAX_FIELDS
  BY <1>1, <1>7, BuilderAssumption, SMTT(30) DEF Accepted, RoomForField
<1>9. BufferMatches(w)
  <2> DEFINE n == Len(r.fields)
             m == Len(r.buf)
             Chunk(i, l) == [field |-> i, len |-> l]
  <2>1. m \in Nat /\ n \in Nat /\ DOMAIN r.buf = 1..m /\ DOMAIN r.fields = 1..n
    BY <1>1, LenProperties, SMTT(30)
  <2>2. /\ \A i \in 1..n : r.fields[i].name \in Strings =>
             \E k \in 1..m : r.buf[k] = Chunk(i, r.fields[i].value)
        /\ \A k \in 1..m : r.buf[k].field \in 1..n /\ r.fields[r.buf[k].field].name \in Strings
        /\ \A j, k \in 1..m : j < k => r.buf[j].field < r.buf[k].field
    BY <2>1, SMTT(30) DEF GoodRule, BufferMatches
  <2>3. x.name = name
    BY DEF x
  <2>4. c.field = n + 1 /\ (name \in Strings => c = Chunk(n + 1, x.value))
    <3>1. "perm" \notin Strings /\ "arch" \notin Strings
      BY DEF Strings, Watches, ObjStrings
    <3>2. name \in Strings => ValueSet(name, v) = v.len
      BY <3>1 DEF ValueSet
    <3>3. c.field = n + 1
      BY DEF c
    <3>4. x.value = ValueSet(name, v)
      BY DEF x
    <3>5. c = Chunk(n + 1, v.len)
      BY DEF c
    <3> QED BY <3>2, <3>3, <3>4, <3>5
  <2>5. /\ name \notin Strings => w.buf = r.buf
        /\ name \in Strings =>
             /\ DOMAIN w.buf = 1..(m + 1)
             /\ \A k \in 1..m : w.buf[k] = r.buf[k]
             /\ w.buf[m + 1] = c
    <3> HIDE DEF C
    <3> QED BY <1>1, <1>3, <1>4
  <2>6. DOMAIN w.buf = IF name \in Strings THEN 1..(m + 1) ELSE 1..m
    BY <2>1, <2>5
  <2>7. /\ DOMAIN w.fields = 1..(n + 1) /\ w.fields[n + 1] = x
        /\ \A i \in 1..n : w.fields[i] = r.fields[i]
    BY <1>7
  <2>8. \A k \in 1..m : w.buf[k] = r.buf[k]
    BY <2>5
  <2>9. 1..m \subseteq DOMAIN w.buf
    BY <2>1, <2>6
  <2> HIDE DEF n, m, Chunk
  <2>10. ASSUME NEW i \in DOMAIN w.fields, w.fields[i].name \in Strings
         PROVE  \E k \in DOMAIN w.buf : w.buf[k] = Chunk(i, w.fields[i].value)
    <3>1. CASE i \in 1..n
      <4>1. PICK k \in 1..m : r.buf[k] = Chunk(i, r.fields[i].value)
        BY <2>2, <2>7, <2>10, <3>1
      <4> QED BY <2>7, <2>8, <2>9, <3>1, <4>1, SMTT(30)
    <3>2. CASE i = n + 1
      <4>1. name \in Strings /\ w.buf[m + 1] = Chunk(i, w.fields[i].value)
        <5>1. name \in Strings
          BY <2>3, <2>7, <2>10, <3>2
        <5>2. w.buf[m + 1] = c
          BY <2>5, <5>1
        <5>3. c = Chunk(n + 1, x.value) /\ w.fields[n + 1] = x
          BY <2>4, <2>7, <5>1
        <5> QED BY <3>2, <5>1, <5>2, <5>3
      <4>2. m + 1 \in DOMAIN w.buf
        BY <2>1, <2>6, <4>1, SMTT(30)
      <4> QED BY <4>1, <4>2
    <3> QED BY <2>1, <2>7, <3>1, <3>2
  <2>11. ASSUME NEW k \in DOMAIN w.buf
         PROVE  /\ w.buf[k].field \in DOMAIN w.fields
                /\ w.fields[w.buf[k].field].name \in Strings
                /\ w.buf[k].field = IF k \in 1..m THEN r.buf[k].field ELSE n + 1
    <3>1. CASE k \in 1..m
      <4>1. r.buf[k].field \in 1..n /\ r.fields[r.buf[k].field].name \in Strings
        BY <2>2, <3>1
      <4>2. w.buf[k] = r.buf[k] /\ w.fields[r.buf[k].field] = r.fields[r.buf[k].field]
        BY <2>7, <2>8, <3>1, <4>1, SMTT(30)
      <4>3. r.buf[k].field \in DOMAIN w.fields
        BY <2>1, <2>7, <4>1
      <4> QED BY <3>1, <4>1, <4>2, <4>3, SMTT(30)
    <3>2. CASE k \notin 1..m
      <4>1. name \in Strings /\ k = m + 1
        BY <2>1, <2>6, <3>2
      <4>2. w.buf[k] = c
        BY <2>5, <4>1
      <4>3. w.buf[k].field = n + 1
        BY <2>4, <4>2
      <4> QED BY <2>1, <2>3, <2>7, <3>2, <4>1, <4>3
    <3> QED BY <3>1, <3>2
  <2>12. ASSUME NEW j \in DOMAIN w.buf, NEW k \in DOMAIN w.buf, j < k
         PROVE  w.buf[j].field < w.buf[k].field
    <3>1. j \in 1..m
      BY <2>1, <2>6, <2>12, SMTT(30)
    <3>2. w.buf[j].field = r.buf[j].field /\ r.buf[j].field \in 1..n
      BY <2>2, <2>8, <3>1, SMTT(30)
    <3>3. CASE k \in 1..m
      BY <2>2, <2>8, <2>12, <3>1, <3>3
    <3>4. CASE k \notin 1..m
      <4>1. w.buf[k].field = n + 1
        BY <2>11, <3>4
      <4> QED BY <2>1, <3>2, <4>1
    <3> QED BY <3>3, <3>4
  <2> QED BY <2>10, <2>11, <2>12 DEF BufferMatches, Chunk
<1>10. ASSUME flags # "exit", NoExitFields(r) PROVE NoExitFields(w)
  <2>1. x.name = name /\ name \notin ExitOnly
    BY <1>10 DEF x, Accepted, FilterAllows
  <2> QED BY <1>1, <1>7, <1>10, <2>1, SMTT(30) DEF NoExitFields
<1> QED BY <1>6, <1>8, <1>9, <1>10 DEF GoodRule, w

(***************************************************************************)
(* Every step keeps the invariant: Rules is the part of it that is about   *)
(* the rules, the others are types.                                        *)
(***************************************************************************)
Taken == {x \in [section: {"file_rules", "syscall_rules"},
                 entry: FileEntry \cup SyscallEntry, rule: Rule] : Sent(x)}

Rules ==
    /\ GoodRule(rule)
    /\ Building /\ filter # "exit" => NoExitFields(rule)
    /\ added \in Seq(Taken)

\* The invariant in three parts.
LEMMA InvSplit == BuilderInv <=> TypeOK /\ EntryType /\ Rules
BY DEF BuilderInv, Rules, Taken

\* The types of what a configuration holds.
LEMMA ConfigTypes ==
    ASSUME NEW c \in Configs
    PROVE  c.file_rules \in Seq(FileEntry) /\ c.syscall_rules \in Seq(SyscallEntry)
BY BuilderAssumption DEF Config

\* The first and the others of a sequence that is not empty.
LEMMA HeadTail ==
    ASSUME NEW S, NEW s \in Seq(S), s # <<>>
    PROVE  Head(s) \in S /\ Tail(s) \in Seq(S)
OBVIOUS

\* The package variables start false, and no rule has been sent.
LEMMA InitStep == Init => BuilderInv
<1> SUFFICES ASSUME Init PROVE BuilderInv
  OBVIOUS
<1>1. GoodRule(EmptyRule)
  BY EmptyRuleGood
<1>2. Rules
  BY <1>1 DEF Rules, Init, Building
<1>3. TypeOK
  <2>1. rule \in Rule
    BY <1>1 DEF Init, GoodRule
  <2>2. entries \in Seq(FileEntry) /\ fields \in Seq([name: Names, op: Ops, value: Value])
    BY DEF Init
  <2>3. ruleArray \in Seq(Rule)
    BY DEF Init
  <2> QED BY <2>1, <2>2, <2>3, Zenon DEF Init, TypeOK
<1>4. EntryType
  BY DEF Init, EntryType, Building
<1> QED BY <1>2, <1>3, <1>4, InvSplit

\* A call starts with its variables declared anew.
LEMMA SetRulesStep ==
    ASSUME BuilderInv, SetRules PROVE BuilderInv'
<1>1. GoodRule(EmptyRule)
  BY EmptyRuleGood
<1>2. Rules'
  BY <1>1 DEF Rules, SetRules, Building
<1>3. TypeOK'
  <2>1. rule' \in Rule
    BY <1>1 DEF SetRules, GoodRule
  <2> QED BY <2>1 DEF SetRules, TypeOK, BuilderInv, globals
<1>4. EntryType'
  BY DEF SetRules, EntryType, Building
<1> QED BY <1>2, <1>3, <1>4, InvSplit, PTL

\* A section is entered, or the call returns.
LEMMA SectionStep ==
    ASSUME BuilderInv, Section PROVE BuilderInv'
<1>0. TypeOK /\ EntryType /\ Rules
  BY InvSplit
<1>1. Rules'
  BY <1>0 DEF Rules, Section, Building
<1>2. ASSUME NEW k \in sections, entries' = config[k], section' = k
      PROVE  /\ k \in {"file_rules", "syscall_rules"}
             /\ k = "file_rules" => entries' \in Seq(FileEntry)
             /\ k = "syscall_rules" => entries' \in Seq(SyscallEntry)
  BY <1>0, <1>2, ConfigTypes DEF TypeOK
<1>3. EntryType'
  BY <1>0, <1>2 DEF Section, EntryType, Building
<1>4. TypeOK'
  BY <1>0, <1>2, Zenon DEF Section, SyscallAddedAtStart, TypeOK
<1> QED BY <1>1, <1>3, <1>4, InvSplit, PTL

\* A section is left.
LEMMA SectionEndsStep ==
    ASSUME BuilderInv, SectionEnds PROVE BuilderInv'
<1>0. TypeOK /\ EntryType /\ Rules
  BY InvSplit
<1>1. Rules'
  BY <1>0 DEF Rules, SectionEnds, Building
<1>2. EntryType'
  BY <1>0 DEF SectionEnds, EntryType, Building, place
<1>3. TypeOK'
  BY <1>0 DEF SectionEnds, TypeOK, globals, place
<1> QED BY <1>1, <1>2, <1>3, InvSplit, PTL

\* A watch is set up, or the call ends.
LEMMA FileRuleStep ==
    ASSUME BuilderInv, FileRule PROVE BuilderInv'
<1>0. TypeOK /\ EntryType /\ Rules
  BY InvSplit
<1> DEFINE e == Head(entries)
<1>1. e \in FileEntry /\ entries # <<>>
  BY <1>0, HeadTail DEF FileRule, EntryType
<1>2. e.path \in Path /\ e.permission \in Value
  BY <1>1 DEF FileEntry
<1>3. /\ UNCHANGED <<auditPermAdded, config, sections, section, entries, added>>
      /\ \/ /\ pc' = "idle" /\ ruleArray' = <<>> /\ result' \in {"nil", "error"}
            /\ UNCHANGED <<rule, filter, action, fields>>
         \/ /\ rule' = Watch(e.path, e.permission) /\ pc' = "key"
            /\ filter' = "exit" /\ action' = "always" /\ fields' = <<>>
            /\ UNCHANGED <<result, ruleArray>>
      /\ auditSyscallAdded' \in {auditSyscallAdded, TRUE}
  BY Zenon DEF FileRule, Fail, place
<1>4. GoodRule(Watch(e.path, e.permission))
  <2> HIDE DEF e
  <2> QED BY <1>2, WatchGood
<1> HIDE DEF e
<1>5. GoodRule(rule')
  BY <1>0, <1>3, <1>4 DEF Rules
<1>6. Rules'
  BY <1>0, <1>3, <1>5 DEF Rules, Building
<1>7. EntryType'
  BY <1>0, <1>1, <1>3 DEF EntryType, Building
<1>8. TypeOK'
  <2>1. rule' \in Rule
    BY <1>5 DEF GoodRule
  <2>2. ruleArray' \in Seq(Rule) /\ fields' \in Seq([name: Names, op: Ops, value: Value])
    <3> DEFINE Q == [name: Names, op: Ops, value: Value]
    <3>1. ruleArray \in Seq(Rule) /\ fields \in Seq(Q)
      BY <1>0 DEF TypeOK
    <3>2. <<>> \in Seq(Rule) /\ <<>> \in Seq(Q)
      OBVIOUS
    <3> HIDE DEF Q
    <3>3. ruleArray' \in Seq(Rule)
      BY <1>3, <3>1, <3>2, Zenon
    <3>4. fields' \in Seq(Q)
      BY <1>3, <3>1, <3>2, Zenon
    <3> QED BY <3>3, <3>4 DEF Q
  <2>3. filter' \in Filters \cup {"unset"} /\ action' \in Actions \cup {"unset"}
    BY <1>0, <1>3 DEF TypeOK, Filters, Actions
  <2>4. auditPermAdded' \in BOOLEAN /\ auditSyscallAdded' \in BOOLEAN
    <3>1. auditPermAdded \in BOOLEAN /\ auditSyscallAdded \in BOOLEAN
      BY <1>0, Zenon DEF TypeOK
    <3>2. auditPermAdded' \in {auditPermAdded, TRUE} /\ auditSyscallAdded' \in {auditSyscallAdded, TRUE}
      BY <1>3, ZenonT(40)
    <3> QED BY <3>1, <3>2, Zenon
  <2> QED BY <1>0, <1>3, <2>1, <2>2, <2>3, <2>4 DEF TypeOK
<1> QED BY <1>6, <1>7, <1>8, InvSplit, PTL

\* A syscall rule starts without fields, or the call ends.
LEMMA SyscallRuleStep ==
    ASSUME BuilderInv, SyscallRule PROVE BuilderInv'
<1>0. TypeOK /\ EntryType /\ Rules
  BY InvSplit
<1> DEFINE e == Head(entries)
           S == {e.syscalls[i] : i \in {i \in DOMAIN e.syscalls : e.syscalls[i] \notin {NotFound, NotString}}}
           w == [EmptyRule EXCEPT !.mask = @ \cup S]
<1>1. e \in SyscallEntry /\ entries # <<>>
  BY <1>0, HeadTail DEF SyscallRule, EntryType
<1>2. /\ e.actions \in Seq(Words) /\ e.syscalls \in Seq(Int)
      /\ e.fields \in Seq([name: Names, op: Ops, value: Value])
  BY <1>1, SMTT(30) DEF SyscallEntry
<1>3. /\ UNCHANGED <<auditPermAdded, config, sections, section, entries, added>>
      /\ auditSyscallAdded' \in BOOLEAN
      /\ \/ /\ pc' = "idle" /\ ruleArray' = <<>> /\ result' = "error"
            /\ UNCHANGED <<rule, filter, action, fields>>
         \/ /\ rule' = w /\ pc' = "fields"
            /\ filter' = FilterOf(e.actions) /\ action' = ActionOf(e.actions) /\ fields' = e.fields
            /\ UNCHANGED <<result, ruleArray>>
  BY Zenon DEF SyscallRule, Fail, place, NewRule
<1>4. GoodRule(w) /\ NoExitFields(w)
  <2>1. S \in SUBSET Int
    BY <1>2
  <2> HIDE DEF S
  <2> QED BY <2>1, SyscallsGood
<1>5. /\ FilterOf(e.actions) \in Filters \cup {"unset"}
      /\ ActionOf(e.actions) \in Actions \cup {"unset"}
  <2> HIDE DEF e
  <2>1. /\ LastWord(e.actions, Filters, "unset") \in Filters \cup {"unset"}
        /\ LastWord(e.actions, Actions, "unset") \in Actions \cup {"unset"}
    BY <1>2, LastWordType
  <2>2. "exit" \in Filters
    BY DEF Filters
  <2> QED BY <2>1, <2>2 DEF FilterOf, ActionOf
<1> HIDE DEF e, S, w
<1>6. GoodRule(rule')
  BY <1>0, <1>3, <1>4 DEF Rules
<1>7. Rules'
  BY <1>0, <1>3, <1>4, <1>6 DEF Rules, Building
<1>8. EntryType'
  BY <1>0, <1>1, <1>3 DEF EntryType, Building
<1>9. TypeOK'
  <2>1. rule' \in Rule
    BY <1>6 DEF GoodRule
  <2>2. ruleArray' \in Seq(Rule) /\ fields' \in Seq([name: Names, op: Ops, value: Value])
    <3> DEFINE Q == [name: Names, op: Ops, value: Value]
    <3>1. ruleArray \in Seq(Rule) /\ fields \in Seq(Q)
      BY <1>0 DEF TypeOK
    <3>2. <<>> \in Seq(Rule) /\ <<>> \in Seq(Q)
      OBVIOUS
    <3> HIDE DEF Q
    <3>3. ruleArray' \in Seq(Rule)
      BY <1>3, <3>1, <3>2, Zenon
    <3>4. fields' \in Seq(Q)
      BY <1>2, <1>3, <3>1, <3>2 DEF Q
    <3> QED BY <3>3, <3>4 DEF Q
  <2>3. filter' \in Filters \cup {"unset"} /\ action' \in Actions \cup {"unset"}
    BY <1>0, <1>3, <1>5 DEF TypeOK
  <2>4. auditPermAdded' \in BOOLEAN /\ auditSyscallAdded' \in BOOLEAN
    BY <1>0, <1>3 DEF TypeOK
  <2> QED BY <1>0, <1>3, <2>1, <2>2, <2>3, <2>4 DEF TypeOK
<1> QED BY <1>7, <1>8, <1>9, InvSplit, PTL

\* auditRuleFieldPairData, with the list of the rule or, for the key, with none.
LEMMA FieldPairStep ==
    ASSUME BuilderInv, NEW v \in Value, NEW op \in Ops, NEW name \in Names, NEW flags,
           flags # "exit" \/ filter = "exit", NEW next,
           auditRuleFieldPairData(v, op, name, flags, next), Building
    PROVE  /\ GoodRule(rule') /\ (filter # "exit" => NoExitFields(rule'))
           /\ auditPermAdded' \in BOOLEAN /\ auditSyscallAdded' = auditSyscallAdded
           /\ \/ pc' = next /\ UNCHANGED <<result, ruleArray>>
              \/ pc' = "idle" /\ result' = "error" /\ ruleArray' = <<>>
<1>0. GoodRule(rule) /\ (filter # "exit" => NoExitFields(rule)) /\ TypeOK
  BY DEF BuilderInv
<1>1. auditPermAdded' \in BOOLEAN
  <2>1. auditPermAdded' = PermAdded(rule, v, op, name, flags)
    BY DEF auditRuleFieldPairData
  <2>2. auditPermAdded \in BOOLEAN
    BY <1>0 DEF TypeOK
  <2>3. PermAdded(rule, v, op, name, flags) \in BOOLEAN
    BY <2>2 DEF PermAdded
  <2> QED BY <2>1, <2>3
<1>2. CASE Accepted(rule, v, op, name, flags)
  <2>1. rule' = WithField(rule, v, op, name) /\ pc' = next /\ UNCHANGED <<result, ruleArray>>
    BY <1>2 DEF auditRuleFieldPairData
  <2>2. /\ GoodRule(WithField(rule, v, op, name))
        /\ flags # "exit" /\ NoExitFields(rule) => NoExitFields(WithField(rule, v, op, name))
    BY <1>0, <1>2, WithFieldGood
  <2> QED BY <1>0, <1>1, <2>1, <2>2 DEF auditRuleFieldPairData
<1>3. CASE ~Accepted(rule, v, op, name, flags)
  BY <1>0, <1>1, <1>3 DEF auditRuleFieldPairData, Fail
<1> QED BY <1>2, <1>3

\* A field is checked against the filter that the rule will be sent to.
LEMMA FieldStep ==
    ASSUME BuilderInv, Field PROVE BuilderInv'
<1> DEFINE Q == [name: Names, op: Ops, value: Value]
<1>0. TypeOK /\ EntryType /\ Rules /\ Building /\ fields \in Seq(Q)
  BY InvSplit DEF Field, Building, TypeOK
<1>1. UNCHANGED <<config, sections, section, entries, filter, action, added>>
  BY DEF Field, place
<1>2. CASE fields # <<>>
  <2> DEFINE f == Head(fields)
  <2>1. f \in Q /\ Tail(fields) \in Seq(Q)
    <3> HIDE DEF Q
    <3> QED BY <1>0, <1>2, HeadTail
  <2>2. f.value \in Value /\ f.op \in Ops /\ f.name \in Names
    BY <2>1
  <2>3. auditRuleFieldPairData(f.value, f.op, f.name, filter, "fields") /\ fields' = Tail(fields)
    BY <1>2 DEF Field
  <2> HIDE DEF f
  <2>4. /\ GoodRule(rule') /\ (filter # "exit" => NoExitFields(rule'))
        /\ auditPermAdded' \in BOOLEAN /\ auditSyscallAdded' = auditSyscallAdded
        /\ \/ pc' = "fields" /\ UNCHANGED <<result, ruleArray>>
           \/ pc' = "idle" /\ result' = "error" /\ ruleArray' = <<>>
    BY <1>0, <2>2, <2>3, FieldPairStep
  <2>5. Rules'
    BY <1>0, <1>1, <2>4 DEF Rules, Building
  <2>6. EntryType'
    BY <1>0, <1>1, <2>4 DEF EntryType, Building
  <2>7. TypeOK'
    <3>1. rule' \in Rule
      BY <2>4 DEF GoodRule
    <3>2. ruleArray' \in Seq(Rule)
      <4>1. ruleArray \in Seq(Rule)
        BY <1>0 DEF TypeOK
      <4>2. <<>> \in Seq(Rule)
        OBVIOUS
      <4>3. ruleArray' = <<>> \/ ruleArray' = ruleArray
        BY <2>4
      <4> QED BY <4>1, <4>2, <4>3, Zenon
    <3>3. fields' \in Seq([name: Names, op: Ops, value: Value])
      BY <2>1, <2>3
    <3>4. auditPermAdded' \in BOOLEAN /\ auditSyscallAdded' \in BOOLEAN
      BY <1>0, <2>4 DEF TypeOK
    <3> QED BY <1>0, <1>1, <2>4, <3>1, <3>2, <3>3, <3>4 DEF TypeOK
  <2> QED BY <2>5, <2>6, <2>7, InvSplit, PTL
<1>3. CASE fields = <<>>
  <2>1. pc' = "key" /\ UNCHANGED <<auditPermAdded, auditSyscallAdded, rule, fields, result, ruleArray>>
    BY <1>3 DEF Field, globals
  <2>2. Rules'
    BY <1>0, <1>1, <2>1 DEF Rules, Building
  <2>3. EntryType'
    BY <1>0, <1>1, <2>1 DEF EntryType, Building
  <2>4. TypeOK'
    BY <1>0, <1>1, <2>1 DEF TypeOK
  <2> QED BY <2>2, <2>3, <2>4, InvSplit, PTL
<1> QED BY <1>2, <1>3

\* The key is for every list.
LEMMA KeyStep ==
    ASSUME BuilderInv, Key PROVE BuilderInv'
<1> DEFINE key == Head(entries).key
<1>0. TypeOK /\ EntryType /\ Rules /\ Building
  BY InvSplit DEF Key, Building
<1>1. UNCHANGED <<config, sections, section, entries, filter, action, fields, added>>
  BY DEF Key, place
<1>2. key \in Value
  <2>1. CASE section = "file_rules"
    <3>1. Head(entries) \in FileEntry
      BY <1>0, <2>1, HeadTail DEF EntryType
    <3> QED BY <3>1 DEF FileEntry
  <2>2. CASE section = "syscall_rules"
    <3>1. Head(entries) \in SyscallEntry
      BY <1>0, <2>2, HeadTail DEF EntryType
    <3> QED BY <3>1 DEF SyscallEntry
  <2> QED BY <1>0, <2>1, <2>2 DEF TypeOK
<1>3. /\ GoodRule(rule') /\ (filter # "exit" => NoExitFields(rule'))
      /\ auditPermAdded' \in BOOLEAN /\ auditSyscallAdded' = auditSyscallAdded
      /\ \/ pc' = "add" /\ UNCHANGED <<result, ruleArray>>
         \/ pc' = "idle" /\ result' = "error" /\ ruleArray' = <<>>
  <2>1. CASE key # None
    <3>1. auditRuleFieldPairData(key, "eq", "key", "unset", "add")
      BY <2>1 DEF Key
    <3>2. "eq" \in Ops /\ "key" \in Names
      BY DEF Ops, Names, FieldMap, Strings
    <3> HIDE DEF key
    <3> QED BY <1>0, <1>2, <3>1, <3>2, FieldPairStep
  <2>2. CASE key = None
    <3>1. pc' = "add" /\ UNCHANGED <<auditPermAdded, auditSyscallAdded, rule, result, ruleArray>>
      BY <2>2 DEF Key, globals
    <3>2. GoodRule(rule) /\ (filter # "exit" => NoExitFields(rule))
      BY <1>0 DEF Rules
    <3>3. auditPermAdded \in BOOLEAN
      BY <1>0 DEF TypeOK
    <3> QED BY <3>1, <3>2, <3>3
  <2> QED BY <2>1, <2>2
<1> HIDE DEF key
<1>4. Rules'
  BY <1>0, <1>1, <1>3 DEF Rules, Building
<1>5. EntryType'
  BY <1>0, <1>1, <1>3 DEF EntryType, Building
<1>6. TypeOK'
  <2>1. rule' \in Rule
    BY <1>3 DEF GoodRule
  <2>2. ruleArray' \in Seq(Rule)
    <3>1. ruleArray \in Seq(Rule)
      BY <1>0 DEF TypeOK
    <3>2. <<>> \in Seq(Rule)
      OBVIOUS
    <3>3. ruleArray' = <<>> \/ ruleArray' = ruleArray
      BY <1>3
    <3> QED BY <3>1, <3>2, <3>3, Zenon
  <2>3. auditPermAdded' \in BOOLEAN /\ auditSyscallAdded' \in BOOLEAN
    BY <1>0, <1>3, SMTT(30) DEF TypeOK
  <2> QED BY <1>0, <1>1, <1>3, <2>1, <2>2, <2>3 DEF TypeOK
<1> QED BY <1>4, <1>5, <1>6, InvSplit, PTL

\* Sending a rule changes nothing but its flags and its action.
LEMMA SentGood ==
    ASSUME NEW r, GoodRule(r), NEW e, filter \in Filters, action \in Actions \cup {"unset"},
           filter # "exit" => NoExitFields(r)
    PROVE  /\ GoodRule(ToSend(Prepended(r, e)))
           /\ ToSend(Prepended(r, e)).flags # {"exit"} => NoExitFields(ToSend(Prepended(r, e)))
           /\ filter # "exit" => NoExitFields(ToSend(Prepended(r, e)))
<1> DEFINE w == ToSend(Prepended(r, e))
<1>1. r \in Rule
  BY DEF GoodRule
<1>2. w = [flags |-> {filter}, action |-> action, mask |-> r.mask, fields |-> r.fields, buf |-> r.buf]
  <2> DEFINE p == Prepended(r, e)
             S == r.flags \cup {"prepend"}
  <2>1. p = r \/ p = [r EXCEPT !.flags = S]
    BY DEF Prepended
  <2> HIDE DEF S
  <2>2. DOMAIN p = {"flags", "action", "mask", "fields", "buf"}
        /\ p.mask = r.mask /\ p.fields = r.fields /\ p.buf = r.buf /\ p = [i \in DOMAIN p |-> p[i]]
    BY <1>1, <2>1 DEF Rule
  <2>3. w = [p EXCEPT !.flags = {filter}, !.action = action]
    BY DEF ToSend
  <2> HIDE DEF p, w
  <2> QED BY <2>2, <2>3, Zenon
<1> HIDE DEF w
<1>3. w.flags = {filter} /\ w.fields = r.fields /\ w.buf = r.buf
  BY <1>2
<1>4. w \in Rule
  <2>1. {filter} \in SUBSET (Filters \cup {"prepend"})
    BY SMTT(30)
  <2> QED BY <1>1, <1>2, <2>1 DEF Rule
<1>5. GoodRule(w)
  BY <1>3, <1>4 DEF GoodRule, BufferMatches
<1>6. filter # "exit" => NoExitFields(w)
  BY <1>3 DEF NoExitFields
<1>7. w.flags # {"exit"} => filter # "exit"
  BY <1>3
<1> QED BY <1>5, <1>6, <1>7 DEF w

\* A rule is sent with the filter its fields were checked against.
LEMMA AddRuleStep ==
    ASSUME BuilderInv, AddRule PROVE BuilderInv'
<1> DEFINE e == Head(entries)
           r == ToSend(Prepended(rule, e))
           x == [section |-> section, entry |-> e, rule |-> r]
<1>0. TypeOK /\ EntryType /\ Rules /\ Building
  BY InvSplit DEF AddRule, Building
<1>1. UNCHANGED <<auditPermAdded, auditSyscallAdded, config, sections, section, filter, action, fields>>
  BY DEF AddRule, globals, place
<1>2. CASE filter = "unset"
  <2>1. /\ UNCHANGED <<rule, entries, added>>
        /\ pc' = "idle" /\ result' \in {"panic", "error"} /\ ruleArray' = <<>>
    BY <1>2 DEF AddRule, Fail
  <2>2. Rules'
    BY <1>0, <1>1, <2>1 DEF Rules, Building
  <2>3. EntryType'
    BY <1>0, <1>1, <2>1 DEF EntryType, Building
  <2>4. TypeOK'
    BY <1>0, <1>1, <2>1, SMTT(30) DEF TypeOK
  <2> QED BY <2>2, <2>3, <2>4, InvSplit, PTL
<1>3. CASE filter # "unset"
  <2>1. /\ rule' = r
        /\ \/ /\ ruleArray' = Append(ruleArray, r) /\ added' = Append(added, x)
              /\ entries' = Tail(entries) /\ pc' = "entry" /\ result' = result
           \/ /\ added' \in {added, Append(added, x)} /\ entries' = entries
              /\ pc' = "idle" /\ result' = "error" /\ ruleArray' = <<>>
    BY <1>3 DEF AddRule, Fail
  <2>2. /\ section = "file_rules" => e \in FileEntry /\ Tail(entries) \in Seq(FileEntry)
        /\ section = "syscall_rules" => e \in SyscallEntry /\ Tail(entries) \in Seq(SyscallEntry)
        /\ section \in {"file_rules", "syscall_rules"}
    BY <1>0, HeadTail DEF EntryType, TypeOK
  <2> HIDE DEF e
  <2>3. filter \in Filters /\ action \in Actions \cup {"unset"}
    BY <1>0, <1>3, SMTT(30) DEF TypeOK
  <2>4. GoodRule(r) /\ (r.flags # {"exit"} => NoExitFields(r))
    BY <1>0, <2>3, SentGood DEF Rules
  <2>5. r \in Rule
    BY <2>4 DEF GoodRule
  <2> HIDE DEF r
  <2>6. x \in Taken
    <3>1. x.rule = r
      OBVIOUS
    <3>2. x \in [section: {"file_rules", "syscall_rules"}, entry: FileEntry \cup SyscallEntry, rule: Rule]
      BY <2>2, <2>5
    <3> HIDE DEF x
    <3> QED BY <2>4, <3>1, <3>2 DEF Taken, Sent
  <2> HIDE DEF x
  <2>7. Rules'
    <3>1. added' \in Seq(Taken)
      BY <1>0, <2>1, <2>6, SMTT(30) DEF Rules
    <3> QED BY <2>1, <2>4, <3>1 DEF Rules, Building
  <2>8. EntryType'
    BY <1>0, <1>1, <2>1, <2>2, Zenon DEF EntryType, Building
  <2>9. TypeOK'
    <3>1. ruleArray' \in Seq(Rule)
      <4>1. ruleArray \in Seq(Rule)
        BY <1>0 DEF TypeOK
      <4>2. <<>> \in Seq(Rule)
        OBVIOUS
      <4>3. ruleArray' = <<>> \/ ruleArray' = ruleArray \/ ruleArray' = Append(ruleArray, r)
        BY <2>1
      <4>4. Append(ruleArray, r) \in Seq(Rule)
        BY <2>5, <4>1, AppendProperties
      <4> QED BY <4>1, <4>2, <4>3, <4>4, Zenon
    <3>2. entries' \in Seq(FileEntry) \cup Seq(SyscallEntry)
      BY <1>1, <2>2, <2>8 DEF EntryType
    <3> QED BY <1>0, <1>1, <2>1, <2>5, <3>1, <3>2 DEF TypeOK
  <2> QED BY <2>7, <2>8, <2>9, InvSplit, PTL
<1> QED BY <1>2, <1>3

\* A step that changes nothing keeps the invariant.
LEMMA Stutter ==
    ASSUME BuilderInv, UNCHANGED vars PROVE BuilderInv'
<1>0. TypeOK /\ EntryType /\ Rules
  BY InvSplit
<1>1. Rules' /\ EntryType'
  BY <1>0 DEF Rules, EntryType, Building, vars, globals, place
<1>2. TypeOK'
  BY <1>0 DEF TypeOK, vars, globals, place
<1> QED BY <1>1, <1>2, InvSplit, PTL

(***************************************************************************)
(* The invariant holds of SetRules for every configuration, whatever       *)
(* earlier calls left in auditPermAdded and auditSyscallAdded.             *)
(***************************************************************************)
THEOREM BuilderInvariant == Spec => []BuilderInv
<1>1. BuilderInv /\ [Next]_vars => BuilderInv'
  BY SetRulesStep, SectionStep, SectionEndsStep, FileRuleStep, SyscallRuleStep, FieldStep,
     KeyStep, AddRuleStep, Stutter DEF Next
<1> QED BY <1>1, InitStep, PTL DEF Spec

(***************************************************************************)
(* Type correctness of SetRules and the rules it builds.                   *)
(***************************************************************************)
THEOREM BuilderTypes == Spec => []TypeOK
<1>1. BuilderInv => TypeOK
  BY DEF BuilderInv
<1> QED BY <1>1, BuilderInvariant, PTL

(***************************************************************************)
(* In every rule that auditRuleFieldPairData and auditAddWatchDir build,   *)
(* Buf holds the strings of the string fields, in their order.             *)
(***************************************************************************)
THEOREM BufferFollowsFields == Spec => []StringsInOrder
<1>1. BuilderInv => StringsInOrder
  <2> SUFFICES ASSUME BuilderInv PROVE StringsInOrder
    OBVIOUS
  <2>1. Rules
    BY InvSplit
  <2>2. ASSUME NEW i \in DOMAIN added PROVE BufferMatches(added[i].rule)
    <3>1. added[i] \in Taken
      BY <2>1 DEF Rules
    <3> QED BY <3>1 DEF Taken, Sent, GoodRule
  <2>3. BufferMatches(rule)
    BY <2>1 DEF Rules, GoodRule
  <2> QED BY <2>2, <2>3 DEF StringsInOrder
<1> QED BY <1>1, BuilderInvariant, PTL

(***************************************************************************)
(* FieldCount stays below AUDIT_MAX_FIELDS: no field is set outside the    *)
(* arrays of AuditRuleData.                                                *)
(***************************************************************************)
THEOREM FieldsStayInRange == Spec => []FieldsFit
<1>1. BuilderInv => FieldsFit
  BY DEF BuilderInv, GoodRule, FieldsFit
<1> QED BY <1>1, BuilderInvariant, PTL

(***************************************************************************)
(* A field that auditRuleFieldPairData admits on the exit list only is in  *)
(* no rule that auditAddRuleData sends to another list.                    *)
(***************************************************************************)
THEOREM ExitFieldsStayOnExitList == Spec => []ExitFieldsOnExitList
<1>1. BuilderInv => ExitFieldsOnExitList
  <2> SUFFICES ASSUME BuilderInv, NEW i \in DOMAIN added, added[i].rule.flags # {"exit"}
               PROVE  NoExitFields(added[i].rule)
    BY DEF ExitFieldsOnExitList, NoExitFields
  <2>1. added[i] \in Taken
    BY InvSplit DEF Rules
  <2> QED BY <2>1 DEF Taken, Sent
<1> QED BY <1>1, BuilderInvariant, PTL

=============================================================================
