----------------------------- MODULE AgentCalls -----------------------------
(***************************************************************************)
(* Several eval_python calls of one agent, from one conversation thread or *)
(* from many, over the one store they share: what MontyCodeInterpreter-    *)
(* Middleware sets up, and the way of each call from its code to the       *)
(* message with its result.  The driver's own steps are MontyDriver's;     *)
(* here the code of a call makes one plain host call and computes a value. *)
(***************************************************************************)
EXTENDS CallBoundary

CONSTANTS Calls,      \* eval_python calls, one tool call of the model each
          Setups,     \* ways the middleware is constructed
          Bindings,   \* what request.tools and runtime.tools may be
          Scenarios,  \* the requests under consideration, call by call
          NoThread, NoId, NoRecord

(***************************************************************************)
(* A request:                                                              *)
(*   issued       the model makes this call at all                         *)
(*   thread, id   thread_id of the configuration, tool_call_id             *)
(*   name, call   the host call that the code makes                        *)
(*   how, value   how the tool ends and what it returns, see ToolOutcome   *)
(*   final        the value of the final expression                        *)
(***************************************************************************)
VARIABLES
    setup,     \* the middleware: ptc, type_check, system_prompt
    request,   \* what each call is
    at,        \* how far it is
    prompt,    \* the model call it comes from: the tools of its request, and
               \* those whose signature it was given
    bound,     \* the tools bound to the agent in its latest leg
    tools,     \* its driver's _host_tools
    record,    \* what its leg loaded
    answered,  \* a human has answered its question
    checked,   \* the stubs its code was checked against
    received,  \* what its host tool was invoked with
    got,       \* what its code was given
    result,    \* what it returned
    store

vars == <<setup, request, at, prompt, bound, tools, record, answered, checked,
          received, got, result, store>>

Stages == {"unused", "model", "start", "load", "check", "call", "paused",
           "finish", "delete", "done"}

NoPrompt == [request_tools |-> <<>>, schemas |-> {}]
Unchecked == <<>>
NotInvoked == <<>>
Nothing == Leaf("nothing", "yet")

\* EvalPythonResult: an error, or the value of the code
Failure(type) == [error |-> type, result |-> None]
Success(value) == [error |-> "none", result |-> value]
NoResult == Failure("unfinished")

(***************************************************************************)
(* LangChain's tool call ids are unique within a thread (external); a      *)
(* thread without an id shares its name with none.                         *)
(***************************************************************************)
ASSUME IdsAssumption ==
    \A r \in Scenarios : \A c, d \in Calls :
        c # d /\ r[c].id # NoId /\ r[c].id = r[d].id =>
            /\ r[c].thread # r[d].thread
            /\ "default" \notin {r[c].thread, r[d].thread}

(***************************************************************************)
(* Lists are lists; the fields of a schema are the keys of a dict, what    *)
(* LangChain hides is among them, and a default that the schema shows is   *)
(* one the tool has (external); entries of ptc go by the names of their    *)
(* tools (middleware 131-134).  Code calls by names that it can spell;     *)
(* what a tool returns and what the code ends in are values.               *)
(***************************************************************************)
IsList(s) == s \in Seq(ToSet(s))

GivenIn(ptc) == {e \in ToSet(ptc) : ~ e.by_name}

GivenTools(s) == {e.tool : e \in GivenIn(s.ptc)}

KnownTools == (UNION {ToSet(b) : b \in Bindings})
                 \cup (UNION {GivenTools(s) : s \in Setups})

ASSUME ListsAssumption ==
    /\ \A b \in Bindings : IsList(b)
    /\ \A s \in Setups : IsList(s.ptc)
    /\ \A t \in KnownTools : IsList(t.fields)
    /\ \A r \in Scenarios : \A c \in Calls : IsList(r[c].call.args)

ASSUME SchemasAssumption ==
    \A t \in KnownTools : /\ IsInjective(t.fields)
                          /\ t.hidden \subseteq ToSet(t.fields)
                          /\ t.shown \ t.listed \subseteq t.optional

ASSUME SetupsAssumption ==
    \A s \in Setups : \A e \in GivenIn(s.ptc) : e.name = e.tool.name

ASSUME RequestsAssumption ==
    \A r \in Scenarios : \A c \in Calls :
        /\ r[c].name \notin NonIdentifiers \cup Keywords
        /\ r[c].value \in Values /\ r[c].final \in Values /\ ~ IsPair(r[c].final)

----------------------------------------------------------------------------
\* A mistake: one namespace for all threads
NamespaceForAll(c) == "default"

\* A mistake: only a call that ends well cleans up
DeleteOnSuccess(c) == record[c] # NoRecord /\ result[c].error = "none"

Namespace(c) ==
    IF request[c].thread = NoThread THEN "default" ELSE request[c].thread

Key(c) == <<Namespace(c), request[c].id>>

\* A record is the frozen VM, so it goes on with the code of its owner
Record(c) == [owner |-> c, request |-> request[c]]

ASSUME NoRecordAssumption ==
    \A r \in Scenarios : \A c \in Calls : NoRecord # [owner |-> c, request |-> r[c]]

PersistRecord(c) ==
    store' = IF request[c].id = NoId THEN store
             ELSE [k \in DOMAIN store \cup {Key(c)} |->
                      IF k = Key(c) THEN Record(c) ELSE store[k]]

LoadedRecord(c) ==
    IF request[c].id # NoId /\ Key(c) \in DOMAIN store THEN store[Key(c)]
                                                       ELSE NoRecord

----------------------------------------------------------------------------
Init ==
    /\ setup \in Setups
    /\ request \in Scenarios
    /\ at = [c \in Calls |-> IF request[c].issued THEN "model" ELSE "unused"]
    /\ prompt = [c \in Calls |-> NoPrompt]
    /\ bound = [c \in Calls |-> <<>>]
    /\ tools = [c \in Calls |-> <<>>]
    /\ record = [c \in Calls |-> NoRecord]
    /\ answered = [c \in Calls |-> FALSE]
    /\ checked = [c \in Calls |-> Unchecked]
    /\ received = [c \in Calls |-> NotInvoked]
    /\ got = [c \in Calls |-> Nothing]
    /\ result = [c \in Calls |-> NoResult]
    /\ store = <<>>

Goto(c, stage) == at' = [at EXCEPT ![c] = stage]

\* The model call that makes this call.  The tools of its request need not be
\* those that a leg finds bound.
AmendModelRequest(c) ==
    /\ at[c] = "model" /\ Goto(c, "start")
    /\ \E b \in Bindings :
          prompt' = [prompt EXCEPT ![c] =
             [request_tools |-> b,
              schemas |-> PromptedTools(b, setup.ptc, setup.system_prompt)]]
    /\ UNCHANGED <<setup, request, bound, tools, record, answered, checked,
                   received, got, result, store>>

\* _make_driver, for every leg anew
StartLeg(c) ==
    /\ at[c] = "start" /\ Goto(c, "load")
    /\ \E b \in Bindings :
          /\ bound' = [bound EXCEPT ![c] = b]
          /\ tools' = [tools EXCEPT ![c] = ResolveHostTools(b, setup.ptc)]
    /\ UNCHANGED <<setup, request, prompt, record, answered, checked, received,
                   got, result, store>>

LoadRecord(c) ==
    /\ at[c] = "load" /\ Goto(c, "check")
    /\ record' = [record EXCEPT ![c] = LoadedRecord(c)]
    /\ UNCHANGED <<setup, request, prompt, bound, tools, answered, checked,
                   received, got, result, store>>

\* What the leg runs: a frozen VM, else the code of the call
Running(c) == IF record[c] = NoRecord THEN request[c] ELSE record[c].request

\* Code is checked when it is fed, not when it is revived
MustCheck(c) == record[c] = NoRecord /\ setup.type_check

CheckTypes(c) ==
    /\ at[c] = "check"
    /\ LET stubs == RenderTypeStubs(tools[c], setup.ptc)
       IN  /\ checked' = IF MustCheck(c) THEN [checked EXCEPT ![c] = stubs]
                                         ELSE checked
           /\ IF MustCheck(c) /\ ~ TypeChecks(request[c].name, request[c].call, stubs)
              THEN /\ result' = [result EXCEPT ![c] = Failure("TypeCheckError")]
                   /\ Goto(c, "delete")
              ELSE Goto(c, "call") /\ UNCHANGED result
    /\ UNCHANGED <<setup, request, prompt, bound, tools, record, answered,
                   received, got, store>>

HostTool(c) == tools[c][Running(c).name]

RejectCall(c) ==
    /\ at[c] = "call" /\ Running(c).name \notin DOMAIN tools[c]
    /\ got' = [got EXCEPT ![c] = Raised] /\ Goto(c, "finish")
    /\ UNCHANGED <<setup, request, prompt, bound, tools, record, answered,
                   checked, received, result, store>>

Interrupt(c) ==
    /\ at[c] = "call" /\ Running(c).name \in DOMAIN tools[c]
    /\ HostTool(c).gated /\ ~ answered[c]
    /\ PersistRecord(c) /\ Goto(c, "paused")
    /\ UNCHANGED <<setup, request, prompt, bound, tools, record, answered,
                   checked, received, got, result>>

HumanAnswers(c) ==
    /\ at[c] = "paused" /\ Goto(c, "start")
    /\ answered' = [answered EXCEPT ![c] = TRUE]
    /\ UNCHANGED <<setup, request, prompt, bound, tools, record, checked,
                   received, got, result, store>>

InvokeTool(c) ==
    /\ at[c] = "call" /\ Running(c).name \in DOMAIN tools[c]
    /\ HostTool(c).gated => answered[c]
    /\ received' = [received EXCEPT ![c] =
          BuildToolCall(HostTool(c), NormalizeCallArgs(Running(c).call, HostTool(c)))]
    /\ got' = [got EXCEPT ![c] =
          ExtractToolOutput(ToolOutcome(Running(c).how, Running(c).value))]
    /\ Goto(c, "finish")
    /\ UNCHANGED <<setup, request, prompt, bound, tools, record, answered,
                   checked, result, store>>

\* An exception that the code does not catch, or the value in JSON-safe form
Complete(c) ==
    /\ at[c] = "finish" /\ Goto(c, "delete")
    /\ result' = [result EXCEPT ![c] =
          IF got[c] = Raised THEN Failure("RuntimeError")
                             ELSE Success(JsonableOutput(Running(c).final))]
    /\ UNCHANGED <<setup, request, prompt, bound, tools, record, answered,
                   checked, received, got, store>>

\* Only a leg that resumed a record deletes it
Deletes(c) == record[c] # NoRecord

Return(c) ==
    /\ at[c] = "delete" /\ Goto(c, "done")
    /\ store' = IF Deletes(c) THEN Restrict(store, DOMAIN store \ {Key(c)})
                              ELSE store
    /\ UNCHANGED <<setup, request, prompt, bound, tools, record, answered,
                   checked, received, got, result>>

AllDone == (\A c \in Calls : at[c] \in {"unused", "done"}) /\ UNCHANGED vars

Step(c) ==
    \/ AmendModelRequest(c) \/ StartLeg(c) \/ LoadRecord(c) \/ CheckTypes(c)
    \/ RejectCall(c) \/ Interrupt(c) \/ HumanAnswers(c) \/ InvokeTool(c)
    \/ Complete(c) \/ Return(c)

Next == (\E c \in Calls : Step(c)) \/ AllDone

Spec == Init /\ [][Next]_vars
=============================================================================
