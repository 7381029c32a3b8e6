---------------------------- MODULE MCPolicyEval ----------------------------
(***************************************************************************)
(* Policies, options and contexts for model checking PolicyEval.           *)
(***************************************************************************)
EXTENDS PolicyEval

Leaf(type, field, operand, holds, negate) ==
  [type |-> type, field |-> field, operand |-> operand, holds |-> holds, negate |-> negate,
   values |-> TRUE, nested |-> <<>>, op |-> "other"]
Plain(type, operand, holds) == Leaf(type, "known", operand, holds, FALSE)
Listed(type, op, values, holds) ==
  [Plain(type, "good", holds) EXCEPT !.op = op, !.values = values]
Logic(op, nested, negate) ==
  [Leaf("logical", "empty", "good", TRUE, negate) EXCEPT !.op = op, !.nested = nested]

Hit == Plain("contains", "good", TRUE)
Miss == Leaf("field_match", "attribute", "good", TRUE, TRUE)
Bad == Plain("range", "bad", TRUE)

Do(type) == <<[type |-> type, terminal |-> FALSE]>>
Final(type) == <<[type |-> type, terminal |-> TRUE]>>
R(conditions, actions) == [conditions |-> conditions, actions |-> actions, enabled |-> TRUE]

\* Rules that differ in how their conditions come out.
DenyRules == {R(c, Do("deny")) : c \in
  {<<>>, <<Miss>>, <<Hit, Bad>>, <<Miss, Bad>>, <<Plain("regex", "bad", TRUE)>>,
   <<Leaf("contains", "unknown", "good", TRUE, FALSE)>>, <<Plain("unsupported", "good", TRUE)>>,
   <<Listed("in_list", "in", TRUE, TRUE)>>, <<Listed("in_list", "not_in", TRUE, TRUE)>>,
   <<Listed("in_list", "not_in", FALSE, FALSE)>>, <<Listed("in_list", "other", FALSE, FALSE)>>,
   <<Listed("contains", "in", FALSE, TRUE)>>, <<Plain("regex", "empty", TRUE)>>,
   <<Plain("contains", "bad", TRUE)>>, <<Plain("external_call", "good", TRUE)>>,
   <<Logic("and", <<Hit, Bad>>, FALSE)>>, <<Logic("or", <<Hit, Bad>>, FALSE)>>,
   <<Logic("or", <<Miss, Miss>>, TRUE)>>, <<Logic("not", <<Miss>>, FALSE)>>,
   <<Logic("xor", <<Hit>>, FALSE)>>, <<Logic("and", <<Plain("semantic", "good", TRUE)>>, FALSE)>>,
   <<Logic("and", <<>>, FALSE)>>}}

\* Rules that differ in what they do.
OtherRules ==
  {R(<<>>, Do("warn")), R(<<Hit>>, Final("warn")), R(<<>>, Do("require_approval")),
   R(<<>>, Do("audit")), R(<<Plain("semantic", "good", TRUE)>>, Do("audit")),
   R(<<>>, Final("allow") \o Do("deny")), [R(<<>>, Do("deny")) EXCEPT !.enabled = FALSE],
   R(<<>>, <<>>)}
FewRules == OtherRules \cup {R(<<>>, Do("deny")), R(<<Bad>>, Do("deny"))}

P(priority, rules) ==
  [priority |-> priority, active |-> TRUE, identified |-> TRUE, scope |-> NoScope, rules |-> rules]
Scoped(p, all, tools, roles) ==
  [p EXCEPT !.scope = [all |-> all, tools |-> tools, roles |-> roles, workflow |-> {},
                       phase |-> {}, model |-> {}]]

Ctx == [tools |-> {"t1"}, roles |-> {"r1", "r2"}, workflow |-> {"w"}, phase |-> {"pre"},
        model |-> {"m"}]
MCContexts == {Ctx, [Ctx EXCEPT !.tools = {"t2"}, !.roles = {}]}

Deny == P(1, <<R(<<>>, Do("deny"))>>)

MCInitialSets ==
  {<<P(1, <<r>>)>> : r \in DenyRules \cup OtherRules}
  \cup {<<P(1, <<r, s>>)>> : r \in FewRules, s \in FewRules}
  \cup {<<P(1, <<r>>), P(q, <<s>>)>> : r \in FewRules, s \in FewRules, q \in {1, 2}}
  \cup {<<P(1, <<R(<<>>, Do(a))>>), P(1, <<R(<<>>, Do(b))>>), P(2, <<s>>)>> :
          a \in {"deny", "warn"}, b \in {"require_approval", "deny"}, s \in FewRules}
  \cup {<<>>, <<P(1, <<>>)>>, <<[Deny EXCEPT !.active = FALSE]>>,
        <<[Deny EXCEPT !.identified = FALSE]>>,
        <<Scoped(Deny, TRUE, {"t9"}, {})>>, <<Scoped(Deny, FALSE, {"t1", "t3"}, {"r2"})>>,
        <<Scoped(Deny, FALSE, {}, {"r1"})>>, <<Scoped(Deny, FALSE, {"t2"}, {"r1"})>>}

MCPolicySets == {<<>>, <<Deny, P(2, <<R(<<>>, Do("warn"))>>)>>,
                 <<P(1, <<R(<<Plain("regex", "bad", TRUE)>>, Do("deny"))>>)>>}

\* A valid set: validation does not look at the type of a condition.
UnsupportedSets == {<<P(1, <<R(<<Plain("unsupported", "good", TRUE)>>, Do("deny"))>>)>>}

MCOptions == [strict : BOOLEAN, stopOnDeny : BOOLEAN, external : BOOLEAN]
StrictOptions == [strict : {TRUE}, stopOnDeny : {TRUE}, external : {FALSE}]
=============================================================================
