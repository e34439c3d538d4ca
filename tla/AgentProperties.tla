--------------------------- MODULE AgentProperties --------------------------
(***************************************************************************)
(* What must hold of every call, however many run and whatever tools,      *)
(* arguments and values they are about.                                    *)
(***************************************************************************)
EXTENDS AgentCalls

(***************************************************************************)
(* Arguments                                                               *)
(***************************************************************************)
Invoked(c) == received[c] # NotInvoked

\* No positional value stands for a parameter with the name of an injected one
PositionsOrdinary(call, tool) ==
    \A i \in DOMAIN call.args \cap DOMAIN Args(tool) :
        Args(tool)[i] \notin INJECTED_PARAM_NAMES

\* The schema shows a default for every parameter that may be left out
DefaultsShown(tool) == tool.optional \subseteq tool.shown \ tool.listed

\* The code was checked against the signature of the tool that was invoked
CheckedFor(c) ==
    /\ Invoked(c) /\ checked[c] # Unchecked
    /\ Running(c).name \in DOMAIN checked[c]
    /\ checked[c][Running(c).name] = Signature(HostTool(c))

Ordinarily(args) == Restrict(args, DOMAIN args \ INJECTED_PARAM_NAMES)

\* A call that has passed the static check reaches its tool with each value in
\* the parameter where Python would put it, nothing lost, and under the names
\* that are not injected nothing added.  _visible_parameters and
\* _normalize_call_args read the schema separately and agree, but for calls with
\* a positional value for a parameter called state, config or the like, which
\* only the first one counts (_tool_rendering.py 15-37, 147-181).
ArgumentsArrive ==
    \A c \in Calls :
        CheckedFor(c) /\ PositionsOrdinary(Running(c).call, HostTool(c)) =>
            /\ Binds(Running(c).call, Args(HostTool(c)), HostTool(c).optional)
            /\ Ordinarily(received[c])
                  = Ordinarily(Bound(Running(c).call, Args(HostTool(c))))

\* The checker has refused a call that the tool would take.  "Stubs only ever
\* under-constrain, never reject valid calls", says the code of itself
\* (_tool_rendering.py 72-73).
ValidCallRefused(c) ==
    /\ result[c] = Failure("TypeCheckError")
    /\ request[c].name \in DOMAIN tools[c]
    /\ Binds(request[c].call, Args(tools[c][request[c].name]),
             tools[c][request[c].name].optional)

\* It happens only if the stubs of some tool are no Python or the
\* schema of its own tool hides a default (_tool_rendering.py 36, 85-113).
ValidCallsPass ==
    \A c \in Calls : ValidCallRefused(c) =>
        \/ ~ StubsParse(checked[c])
        \/ ~ DefaultsShown(tools[c][request[c].name])

\* "Sandbox code can never forge these values", and every slot for the live
\* runtime, its state or its store is filled, whichever way the tool declares
\* it, with the static check and without (README 105, _bridge.py 49-94).
InjectedAreLive ==
    \A c \in Calls : Invoked(c) =>
        /\ \A p \in DOMAIN received[c] \cap INJECTED_PARAM_NAMES :
              received[c][p] \in {Live, OwnCallId}
        /\ (HostTool(c).keys \cup HostTool(c).hidden)
              \cap {"runtime", "state", "store"} \subseteq DOMAIN received[c]

----------------------------------------------------------------------------
(***************************************************************************)
(* Records                                                                 *)
(***************************************************************************)
\* A call only ever resumes its own frozen VM, although all calls share a
\* store, and threads without an id a namespace (_hitl_snapshot.py 21-36).
OwnRecords == \A c \in Calls : record[c] # NoRecord => record[c].owner = c

\* When every call has returned, no record is left in the store (README 149).
StoreCleaned ==
    (\A c \in Calls : at[c] \in {"unused", "done"}) => store = <<>>

----------------------------------------------------------------------------
(***************************************************************************)
(* What the model is told                                                  *)
(***************************************************************************)
Entries(n) == {i \in DOMAIN setup.ptc : setup.ptc[i].name = n}

Called(list, n) == {t \in ToSet(list) : t.name = n}

\* The model call showed the tool of this name, if any, that the leg finds bound,
\* and it is the only one.
SameTool(c, n) ==
    /\ Called(prompt[c].request_tools, n) = Called(bound[c], n)
    /\ \A t, u \in Called(bound[c], n) : t = u

\* The model knows what its code calls, in every leg: under each name that ptc
\* gives once, the prompt shows the signature of the tool that the leg runs, and
\* none if it runs none.  A tool given at construction is shown and run whatever
\* is bound; one with a deferred name is looked up twice, in the tools of the
\* request and in those of each leg, and may have been replaced in between
\* (middleware 142-167, 225-247, 304-317, _tool_rendering.py 116-128).
ToldTruthfully ==
    \A c \in Calls : at[c] \notin {"unused", "model", "start"} =>
        \A n \in Allowlist(setup.ptc) \ {"eval_python"} :
            /\ Cardinality(Entries(n)) = 1
            /\ n \in DeferredNames(setup.ptc) =>
                  setup.system_prompt /\ SameTool(c, n)
            => {t \in prompt[c].schemas : t.name = n}
                  = {tools[c][m] : m \in DOMAIN tools[c] \cap {n}}

----------------------------------------------------------------------------
(***************************************************************************)
(* Values                                                                  *)
(***************************************************************************)
\* The tool has returned a value that json.dumps accepts.
Returned(c) == Invoked(c) /\ Running(c).how = "value" /\ Dumps[Running(c).value]

\* ... and the code has got it as JSON has it, whether the tool returned the value
\* itself or its JSON text.
Arrived(c) ==
    LET v == Running(c).value
    IN  got[c] = IF v.kind = "json" THEN v.items[1] ELSE JsonForm[v]

\* What a tool returns reaches the code as JSON has it, unless it is a list that
\* LangChain takes for content blocks: one of texts, of dicts with the type of a
\* block, or of nothing (_bridge.py 137-145).
ReturnsArrive ==
    \A c \in Calls : Returned(c) => Arrived(c) \/ IsBlocks(Running(c).value)

CONSTANT Depth   \* to which a result is looked into

ASSUME DepthAssumption == Depth \in Nat

Within(v) ==
    LET level[d \in 0..Depth] ==
           IF d = 0 THEN {v} ELSE UNION {Parts(p) : p \in level[d - 1]}
    IN  UNION {level[d] : d \in 0..Depth}

PlainJson(v) ==
    \A p \in Within(v) :
        /\ p.kind \in Scalars \cup {"list", "tuple", "dict", "pair"}
        /\ p.kind = "pair" => p.items[1].kind \in Scalars

HasTagKey(v) ==
    v.kind = "dict" /\ \E p \in Parts(v) : p.items[1].kind = "str"
                                              /\ p.items[1].text \in Tags

\* A dict that looks like a tagged value, or a value known by its repr only
Ambiguous[v \in Values] ==
    v.kind = "odd" \/ HasTagKey(v) \/ \E i \in DOMAIN v.items : Ambiguous[v.items[i]]

Transported(v) == IF Dumps[v] THEN JsonForm[v] ELSE Tagged[v]

\* Every result can be written as JSON.  One that json.dumps accepts is left alone,
\* and one that it does not accept is told apart from every other result: "tagged
\* natural form ... lossless, self-describing, and always serializable" (helpers
\* 40-59, README 322), dicts with a tag for a key and values known by their repr
\* only apart.
ResultsSurvive ==
    \A c \in Calls : at[c] = "done" /\ result[c].error = "none" =>
        LET v == Running(c).final
            r == result[c].result
        IN  /\ PlainJson(r)
            /\ Dumps[v] => r = v
            /\ ~ Dumps[v] /\ ~ Ambiguous[v] =>
                  \A w \in Values : Transported(w) = r => w = v \/ Ambiguous[w]
=============================================================================
