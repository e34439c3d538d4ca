---------------------------- MODULE CallBoundary ----------------------------
(***************************************************************************)
(* What crosses the boundary between sandbox code and a host tool: the     *)
(* tools of the allowlist and what the model is told about them            *)
(* (monty_code_interpreter_middleware.py), the stubs that calls are        *)
(* checked against and the arguments they are turned into                  *)
(* (_tool_rendering.py), and what is injected, and handed back (_bridge.py *)
(* and helpers).  There is no state here: module AgentCalls has it.        *)
(*                                                                         *)
(* A tool is what introspection shows of it (external):                    *)
(*   name, origin   origin tells tools of one name apart                   *)
(*   fields         the fields of its input schema, in declaration order   *)
(*   hidden         those that LangChain fills in, absent from tool.args   *)
(*   keys           tool._injected_args_keys                               *)
(*   listed, shown  parameters that the JSON schema lists as required, and *)
(*                  those whose property carries a default                 *)
(*   optional       parameters that the tool really can do without         *)
(*   gated          it asks a human before it acts                         *)
(* A call is [args |-> the positional values, kwargs |-> the named ones].  *)
(***************************************************************************)
EXTENDS ResultConversion, SequencesExt

CONSTANTS NonIdentifiers,  \* names of tools and parameters that are none
          Keywords         \* identifiers that Python keeps for itself

INJECTED_PARAM_NAMES ==
    {"runtime", "state", "store", "tool_call_id", "config", "context",
     "stream_writer"}

(***************************************************************************)
(* SelectSeq and @@ for the provers, which do not know them: a sequence    *)
(* without the members of S, and a dict updated with the entries of f.     *)
(***************************************************************************)
Without(seq, S) ==
    LET kept[i \in 0..Len(seq)] ==
           IF i = 0 THEN <<>>
           ELSE IF seq[i] \in S THEN kept[i - 1]
           ELSE Append(kept[i - 1], seq[i])
    IN  kept[Len(seq)]

Merge(f, g) ==
    [x \in DOMAIN f \cup DOMAIN g |-> IF x \in DOMAIN f THEN f[x] ELSE g[x]]

Entry(key, value, present) == [k \in {l \in {key} : present} |-> value]

\* tool.args: what is left of the input schema for the model to fill in
Args(tool) == Without(tool.fields, tool.hidden)

----------------------------------------------------------------------------
(***************************************************************************)
(* Mistakes one could make here, see MontyDriver.                          *)
(***************************************************************************)
\* positional arguments are matched with the whole input schema
FieldsWithHidden(tool) == tool.fields

\* keywords are taken as they come
StripNothing(kwargs) == kwargs

\* a default does not make a parameter optional
EveryParameterRequired(tool, p) == TRUE

\* a ToolMessage's text is handed over as it is
ExtractUndecoded(message) ==
    IF message.kind # "message" \/ message.status = "error"
    THEN Raised
    ELSE IF message.artifact # None THEN message.artifact
    ELSE TextOf(message.content)

\* a bound tool takes the place of the one given at construction
ResolveBoundFirst(bound, ptc) ==
    LET taken == {t \in ToSet(bound) : t.name # "eval_python"}
        given == {e.tool : e \in {f \in ToSet(ptc) : ~ f.by_name}}
        allowed == {e.name : e \in ToSet(ptc)}
        pick(n) == IF \E t \in taken : t.name = n
                   THEN CHOOSE t \in taken : t.name = n
                   ELSE CHOOSE t \in given : t.name = n
    IN  [n \in {t.name : t \in {u \in taken : u.name \in allowed} \cup given} |->
            pick(n)]

----------------------------------------------------------------------------
(***************************************************************************)
(* The allowlist.  An entry of ptc is a tool, or the name of one that is   *)
(* to be looked up among the tools bound in the leg.                       *)
(***************************************************************************)
Allowlist(ptc) == {e.name : e \in ToSet(ptc)}

DeferredNames(ptc) == {e.name : e \in {f \in ToSet(ptc) : f.by_name}}

\* A dict by name: of two tools with one name the later stays
PtcTools(ptc) ==
    LET places(n) == {i \in DOMAIN ptc : ~ ptc[i].by_name /\ ptc[i].name = n}
    IN  [n \in {e.name : e \in {f \in ToSet(ptc) : ~ f.by_name}} |->
            ptc[Max(places(n))].tool]

FirstNamed(bound, n) ==
    bound[Min({i \in DOMAIN bound : bound[i].name = n})]

\* eval_python is no host tool of itself, and of bound tools the first counts
ResolveHostTools(bound, ptc) ==
    LET given == Restrict(PtcTools(ptc), DOMAIN PtcTools(ptc) \ {"eval_python"})
        found == ({t.name : t \in ToSet(bound)} \cap Allowlist(ptc))
                    \ ({"eval_python"} \cup DOMAIN given)
    IN  Merge(given, [n \in found |-> FirstNamed(bound, n)])

----------------------------------------------------------------------------
(***************************************************************************)
(* What the model is told: signatures, in the system prompt                *)
(***************************************************************************)
IsRequired(tool, p) == p \in tool.listed \/ p \notin tool.shown

Optional(tool) == {p \in ToSet(Args(tool)) : ~ IsRequired(tool, p)}

\* Schemas of the tools given; and, unless the system prompt is switched off,
\* of the tools in the request of the model call that have a deferred name
PromptedTools(request_tools, ptc, system_prompt) ==
    Range(PtcTools(ptc))
       \cup {t \in ToSet(request_tools) :
                system_prompt /\ t.name \in DeferredNames(ptc)}

----------------------------------------------------------------------------
(***************************************************************************)
(* The static check                                                        *)
(***************************************************************************)
\* Python's rules for a call of a function with these parameters, whose
\* optional ones may be left out
Binds(call, params, optional) ==
    LET filled == {params[i] : i \in DOMAIN params \cap DOMAIN call.args}
    IN  /\ Len(call.args) <= Len(params)
        /\ DOMAIN call.kwargs \subseteq ToSet(params) \ filled
        /\ ToSet(params) \ (filled \cup DOMAIN call.kwargs) \subseteq optional

\* ... and the values they get
Bound(call, params) ==
    Merge(call.kwargs,
          [p \in {params[i] : i \in DOMAIN call.args} |->
              call.args[CHOOSE i \in DOMAIN params : params[i] = p]])

\* The parameters in the order of the schema, the optional ones with "= ..."
Signature(tool) ==
    [any |-> FALSE, params |-> Args(tool), optional |-> Optional(tool)]

\* One def for each allowlisted name that is an identifier.  A name that is not
\* resolved, or with a parameter that is no identifier, takes anything.
RenderTypeStubs(host_tools, ptc) ==
    [n \in Allowlist(ptc) \ NonIdentifiers |->
        IF n \notin DOMAIN host_tools THEN [any |-> TRUE]
        ELSE IF ToSet(Args(host_tools[n])) \cap NonIdentifiers # {}
        THEN [any |-> TRUE]
        ELSE Signature(host_tools[n])]

\* Python accepts the def: nothing in it has the name of a keyword, and no
\* parameter with a default is followed by one without
IsPython(name, stub) ==
    /\ name \notin Keywords
    /\ stub.any \/
          /\ ToSet(stub.params) \cap Keywords = {}
          /\ \A i, j \in DOMAIN stub.params :
                i < j /\ stub.params[i] \in stub.optional
                    => stub.params[j] \in stub.optional

StubsParse(stubs) == \A n \in DOMAIN stubs : IsPython(n, stubs[n])

\* The checker's verdict (external).  The stubs are one text: a def in it that is
\* no Python breaks them all.
TypeChecks(name, call, stubs) ==
    /\ StubsParse(stubs) /\ name \in DOMAIN stubs
    /\ stubs[name].any \/ Binds(call, stubs[name].params, stubs[name].optional)

----------------------------------------------------------------------------
(***************************************************************************)
(* Arguments                                                               *)
(***************************************************************************)
VisibleSchemaFields(tool) ==
    Without(Args(tool), INJECTED_PARAM_NAMES)

StripInjected(kwargs) == Restrict(kwargs, DOMAIN kwargs \ INJECTED_PARAM_NAMES)

\* Keywords win; positional values without a slot are collected under "args"
NormalizeCallArgs(call, tool) ==
    LET slots == VisibleSchemaFields(tool)
        filled == {slots[i] : i \in DOMAIN slots \cap DOMAIN call.args}
        extra == SubSeq(call.args, Len(slots) + 1, Len(call.args))
    IN  Merge(StripInjected(call.kwargs),
              Merge(Entry("args", extra, Len(call.args) > Len(slots)),
                    [p \in filled |->
                        call.args[CHOOSE i \in DOMAIN slots : slots[i] = p]]))

\* Values only the live ToolRuntime has
Live == "live"
OwnCallId == "eval_python:"

InjectedArgsFor(tool) ==
    LET names == tool.keys
                    \cup ((ToSet(tool.fields) \ ToSet(Args(tool)))
                             \cap INJECTED_PARAM_NAMES)
    IN  [n \in names \cap {"runtime", "state", "store"} |-> Live]

\* LangChain itself fills in the id of the call (external), which says
\* eval_python
BuildToolCall(tool, kwargs) ==
    Merge(InjectedArgsFor(tool),
          Merge(kwargs,
                Entry("tool_call_id", OwnCallId, "tool_call_id" \in tool.hidden)))

----------------------------------------------------------------------------
(***************************************************************************)
(* What a tool returns                                                     *)
(***************************************************************************)
\* LangChain puts the outcome of a tool into a ToolMessage (external): texts
\* and lists of content blocks as they are, other values as JSON
ContentOf(v) ==
    IF IsText(v) \/ IsBlocks(v) THEN v
    ELSE IF Dumps[v] THEN JsonText(v)
    ELSE Leaf("str", "repr")

ToolOutcome(how, v) ==
    [kind |-> IF how = "command" THEN "command" ELSE "message",
     status |-> IF how = "failed" THEN "error" ELSE "success",
     content |-> IF how = "artifact" THEN Leaf("str", "summary") ELSE ContentOf(v),
     artifact |-> IF how = "artifact" THEN v ELSE None]

\* A Command and an error message become exceptions in the sandbox
ExtractToolOutput(message) ==
    IF message.kind # "message" \/ message.status = "error"
    THEN Raised
    ELSE IF message.artifact # None THEN message.artifact
    ELSE DeserializeReturnValue(TextOf(message.content))
=============================================================================
