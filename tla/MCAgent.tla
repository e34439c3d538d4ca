------------------------------- MODULE MCAgent ------------------------------
(***************************************************************************)
(* One call that passes all kinds of arguments to all kinds of tools; one  *)
(* call that gets or computes all kinds of values; and two calls at a time *)
(* that ask a human, with every choice of threads and ids.                 *)
(***************************************************************************)
EXTENDS AgentProperties

CONSTANTS c1, c2

MCCalls == {c1, c2}

----------------------------------------------------------------------------
Tool(name, origin, fields, hidden, keys, listed, shown, optional, gated) ==
    [name |-> name, origin |-> origin, fields |-> fields, hidden |-> hidden,
     keys |-> keys, listed |-> listed, shown |-> shown, optional |-> optional,
     gated |-> gated]

Search(origin) ==
    Tool("search", origin, <<"query", "limit">>, {}, {}, {"query"}, {"limit"},
         {"limit"}, FALSE)

\* Injected by type, injected by annotation, without defaults in its schema,
\* with a parameter of its own called state, with a name that is no identifier
\* among its parameters or for its own, gated
ReadFile == Tool("read_file", "bound", <<"runtime", "query", "limit">>,
                 {"runtime"}, {"runtime"}, {"query"}, {"limit"}, {"limit"}, FALSE)
Legacy == Tool("legacy", "given", <<"query", "state", "tool_call_id", "limit">>,
               {"state", "tool_call_id"}, {}, {"query", "limit"}, {}, {}, FALSE)
Remote == Tool("remote", "bound", <<"query", "limit">>, {}, {}, {}, {},
               {"limit"}, FALSE)
Chat   == Tool("chat", "given", <<"query", "state">>, {}, {}, {"query"}, {},
               {}, FALSE)
Dashed == Tool("dashed", "given", <<"query", "page-size">>, {}, {}, {"query"},
               {"page-size"}, {"page-size"}, FALSE)
Unspelt == Tool("list-files", "given", <<"query">>, {}, {}, {"query"}, {}, {},
                FALSE)
Approve == Tool("approve", "bound", <<"query", "limit">>, {}, {}, {"query"},
                {"limit"}, {"limit"}, TRUE)
Self == Tool("eval_python", "bound", <<"code", "runtime">>, {"runtime"},
             {"runtime"}, {"code"}, {}, {}, FALSE)

Given(tool) == [by_name |-> FALSE, name |-> tool.name, tool |-> tool]
ByName(n)   == [by_name |-> TRUE, name |-> n]

\* An optional parameter before a required one, and a keyword for a parameter
Grep == Tool("grep", "given", <<"limit", "query">>, {}, {}, {"query"}, {"limit"},
             {"limit"}, FALSE)
Mail == Tool("mail", "given", <<"from", "query">>, {}, {}, {"from", "query"}, {},
             {}, FALSE)

MCNonIdentifiers == {"page-size", "list-files"}
MCKeywords == {"from", "import"}

MCBindings ==
    {<<Self, ReadFile, Search("bound"), Remote, Approve>>, <<ReadFile, Self>>}

Setup(ptc, type_check, system_prompt) ==
    [ptc |-> ptc, type_check |-> type_check, system_prompt |-> system_prompt]

AllTools ==
    <<Given(Search("given")), Given(Legacy), Given(Chat), Given(Dashed),
      Given(Unspelt),
      ByName("read_file"), ByName("remote"), ByName("approve"),
      ByName("eval_python")>>

\* The last ones have a tool whose def is no Python
MCSetups ==
    {Setup(AllTools, type_check, TRUE) : type_check \in BOOLEAN}
    \cup
    {Setup(<<ByName("search"), Given(Legacy), ByName("approve")>>, TRUE, FALSE),
     Setup(<<Given(Search("older")), Given(Search("given")), ByName("search"),
             ByName("approve")>>, TRUE, TRUE)}
    \cup
    {Setup(<<Given(Search("given")), Given(t)>>, TRUE, TRUE) : t \in {Grep, Mail}}

----------------------------------------------------------------------------
Names == {"search", "read_file", "legacy", "remote", "chat", "dashed",
          "approve", "eval_python", "unlisted"}

Passed == {"query", "limit", "state", "runtime"}

HostCalls ==
    [args : {SubSeq(<<"a", "b", "c">>, 1, n) : n \in 0..3},
     kwargs : UNION {[K -> {"k"}] : K \in {L \in SUBSET Passed : Cardinality(L) < 3}}]

OneCall == [args |-> <<"a">>, kwargs |-> <<>>]

\* Leaves, and trees of one and two levels
Leaves == {None, Leaf("int", "1"), Leaf("str", "1"), Leaf("str", "$set"),
           Leaf("bytes", "1"), Leaf("odd", "thing")}

Keyable == {Leaf("int", "1"), Leaf("str", "1"), Leaf("str", "$set"),
            Node("tuple", <<Leaf("int", "1")>>)}

Over(S) ==
    UNION {{Node(k, <<v>>) : k \in {"list", "tuple", "set", "frozenset"}} : v \in S}
       \cup {Node("dict", <<Pair(k, v)>>) : k \in S \cap Keyable, v \in S}
       \cup {[Node("object", <<Pair(Leaf("str", "1"), v)>>) EXCEPT !.text = "1"]
                : v \in S}

Small == {Leaf("int", "1"), Leaf("str", "1"), Node("list", <<Leaf("int", "1")>>),
          Node("tuple", <<Leaf("int", "1")>>), Node("set", <<Leaf("int", "1")>>),
          Node("dict", <<Pair(Leaf("int", "1"), Leaf("int", "1"))>>),
          Leaf("bytes", "1")}

\* Dicts with a type: a text block, a block of another kind, and one of the
\* tool's own; and lists with them
Typed(type) ==
    Node("dict", <<Pair(Leaf("str", "type"), Leaf("str", type)),
                   Pair(Leaf("str", "text"), Leaf("str", "1"))>>)

Blocks == {Typed(type) : type \in {"text", "image", "folder"}}

BlockTexts == {Leaf("str", t) : t \in {"type", "text", "image", "folder"}}

Trees ==
    {Node("list", <<>>), Node("json", <<Leaf("int", "1")>>),
     Node("list", <<Leaf("str", "1"), Leaf("str", "$set")>>)}
       \cup Leaves \cup Over(Leaves) \cup Over(Small)
       \cup BlockTexts \cup Blocks \cup {Node("list", <<b>>) : b \in Blocks}
       \cup {Node("list", <<b, d>>) :
                b \in Blocks, d \in Blocks \cup {Leaf("str", "1"), Leaf("int", "1")}}

MCValues == Trees \cup UNION {Parts(v) : v \in Trees}

MCHeight[v \in MCValues] ==
    IF v.items = <<>> THEN 0
    ELSE 1 + Max({MCHeight[v.items[i]] : i \in DOMAIN v.items})

Whole == {v \in MCValues : v.kind # "pair"}

Request(thread, id, name, call, how, value, final) ==
    [issued |-> TRUE, thread |-> thread, id |-> id, name |-> name,
     call |-> call, how |-> how, value |-> value, final |-> final]

Absent ==
    [Request(NoThread, NoId, "search", OneCall, "value", None, None)
        EXCEPT !.issued = FALSE]

Alone(r) == c1 :> r @@ c2 :> Absent

Asking ==
    {Request(thread, id, "approve", OneCall, "value", None, None) :
        thread \in {NoThread, "t1"}, id \in {NoId, "i1", "i2"}}

\* Tool call ids are unique within a thread
Apart(r, s) == r.id = NoId \/ r.id # s.id \/ r.thread # s.thread

MCScenarios ==
    {Alone(Request("t1", "i1", n, call, "value", None, None)) :
        n \in Names, call \in HostCalls}
    \cup {Alone(Request("t1", "i1", "search", OneCall, how, v, None)) :
             how \in {"value", "artifact", "failed", "command"}, v \in Whole}
    \cup {Alone(Request("t1", "i1", "search", OneCall, "value", None, v)) :
             v \in Whole}
    \cup {c1 :> p[1] @@ c2 :> p[2] :
             p \in {q \in Asking \X Asking : Apart(q[1], q[2])}}
=============================================================================
