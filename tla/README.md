# eval_python, modelled in TLA+

`langchain-monty` gives an agent one tool, `eval_python`: the model writes a
Python snippet, the Monty interpreter runs it in a sandbox, and the snippet may
call allowlisted LangChain tools ("host tools") as functions. This directory
holds a TLA+ model of what happens during one such call, under the sync and the
async driver, and of what several calls of one agent share; the TLC runs that
check it on small instances; and proofs, checked by TLAPS, of its main
properties for any snippet, tools and budget.

Paths below are relative to `src/langchain_monty/` of the repository.

## 1. The system

| Component | State | Operations | Talks to |
|---|---|---|---|
| Driver, `middleware/_driver.py` | per pass: `defer`, `deferred`, `executed_any`, `host_calls`, `stdout_prefix`, `interrupts_answered`, `pending_answer`, the captured stdout | `run_sync` / `run_async`, `_drive_*`, `_pass_*`, `_finish_pass` | the Monty pool and session, the bridge, the record helpers |
| HITL record, `middleware/_hitl_snapshot.py`, `models/langchain_store_monty_snapshot.py` | one record per call in the LangGraph store: frozen VM, stdout, host calls, interrupts answered | persist, load, delete; `_burn_answered_interrupts` | the store, `interrupt()` |
| Bridge, `middleware/_bridge.py` | none | invoke a host tool with the runtime injected; turn its outcome into a sandbox value or exception; let `GraphInterrupt` through | host tools |
| Middleware, `middleware/monty_code_interpreter_middleware.py` | allowlist, limits, budget, rendered stubs, deferred tool names | resolve host tools per call, build the driver, render the prompt | agent, driver |
| Rendering, `middleware/_tool_rendering.py` | none | type stubs from JSON schemas, positional arguments to keywords | middleware, driver |
| Result conversion, `helpers/__init__.py` | none | Monty values to JSON-like values, tagged where JSON has no equivalent | driver |
| Models, `models/eval_result.py`, `models/limits.py` | none | result and error payloads; limits renamed for Monty | driver |
| Monty (external) | the sandbox VM | `feed_start`, `load_snapshot`, `resume`, `dump` | driver |
| LangGraph and the human (external) | recorded resume values, checkpoints | run and replay the task, `interrupt()`, resume | all of them |

**How a call runs.** LangGraph executes the tool; we call one such execution a
*leg*. A leg looks for a record. Without one it makes a *deferred pass*: each
host call is answered with a future and none is executed until the sandbox
awaits. If the snippet turns out to use plain calls (an error while futures are
outstanding, or the end of the code with futures never awaited) and nothing has
been executed, a second, *eager pass* runs the code from the top and executes
each call on the spot. If a host tool calls `interrupt()`, an eager pass
freezes the VM into the record and lets the `GraphInterrupt` through; the graph
pauses, a human answers, and LangGraph replays the task: the next leg. It finds
the record, calls `interrupt()` as often as answers have been consumed before
(positional matching would otherwise hand it the wrong answer), revives the VM
and re-invokes the interrupted tool. A leg that ends with a result deletes the
record it resumed from.

**What is hard about it.**

- The restart must never repeat a side effect, and must happen exactly when the
  deferred pass has reported nothing real.
- Answers are matched by position over replays that skip part of the code.
  `interrupts_answered` in the record is the only thing that keeps them aligned.
- Budget, stdout and counters live in locals that start afresh in every pass
  and are carried by the record.
- Every store failure is swallowed. Legs can die between any two steps, also
  between deleting the record and checkpointing the result.
- Awaited batches mix futures resolved, futures outstanding and interrupts.
  Under `ainvoke` the calls of a batch are concurrent tasks. A question that
  escapes from one of them ends the leg and leaves the others running.
- The schema of a tool is read in four places: for the prompt, for the stub, for
  positional arguments and for injection. They have to agree.
- A deferred name is resolved twice, among the tools of the model's request for
  the prompt and among those of the runtime for each leg. The two lists are not
  the same object and may differ.

`PROJECT.json` lists each of these as a hazard, at its line, with the
properties that watch it.

## 2. What makes each component correct

- **Driver.** A leg runs no host call twice (`OncePerLeg`); a successful result
  has dropped none (`NoCallDropped`); its dictionary of deferred calls is
  exactly what the sandbox still waits for (`DeferredMirrorsFutures`); every leg
  ends (`LegsEnd`); with plain code it behaves like one run from top to bottom
  (`ImplementsContract`, `DeferralIsTransparent`).
- **Record.** Nothing runs twice over the legs (`RunsOnce`); budget and output
  span pauses (`BudgetSpansLegs`, `StdoutOnce`); a paused call is on file and
  counted correctly (`PausedOnRecord`); the record goes with the call
  (`RecordGone`).
- **Positional answers.** Each answer reaches the call that asked
  (`AnswersReachTheirCalls`), and the burn never asks by itself
  (`BurnNeverSurfaces`).
- **Async driver.** A gather loses and doubles no task (`BatchAccounted`), each
  awaited call is given what its own tool came to (`OwnResults`), in no leg does
  anything but a question leave a task running (`OnlyQuestionsStray`), answers
  match unless one gather asks twice (`AnswersInTurn`), and with either driver a leg keeps what is
  promised about futures (`ImplementsFutures`).
- **Rendering and bridge.** The static check refuses a valid call only if some
  stub is no Python or the schema hides a default (`ValidCallsPass`), a checked
  call reaches its tool as Python would bind it, unless it passes a value by
  position to a parameter named like an injected one (`ArgumentsArrive`), injected
  values are live and cannot be passed from code (`InjectedAreLive`), and what the
  tool returns reaches the code, unless LangChain takes it for content blocks
  (`ReturnsArrive`).
- **Middleware.** The signatures in the prompt are those of the tools that the
  code then calls, as long as a deferred name stands for one tool in the request
  and in the leg (`ToldTruthfully`).
- **Result conversion.** Every result is JSON, a value that `json.dumps` accepts
  is left alone, and other values can be told apart (`ResultsSurvive`).
- **Store shared by calls.** A call resumes only its own frozen VM
  (`OwnRecords`) and leaves nothing behind (`StoreCleaned`).

## 3. Modules

| Module | Models | Remarks |
|---|---|---|
| `SandboxVM` | Monty as the driver sees it (external) | code is a sequence of instructions; a host call's `use` says what the code does with the result |
| `Faults` | what may go wrong, rationed | a run names kinds and a number |
| `HitlStore` | the record and its three helpers | one call has one key, so one cell |
| `InterruptLedger` | `interrupt()` (external) | an answer is represented by the question it answers |
| `DriverState` | constants and variables | |
| `MontyDriver` | `run_sync` and all it calls, LangGraph and the human around it | the composition: one action per step of the code |
| `DriverProperties` | the type invariant, safety, action and liveness properties | |
| `EvalContract` | the abstract specification: one plain run, each gated call asked once | no passes, legs or records |
| `DriverRefinesContract` | the refinement mapping | |
| `AsyncDriver` | `run_async`: the batch under `asyncio.gather`; composes with `MontyDriver`, a driver chosen for each leg | what the drivers share is shared |
| `AsyncProperties` | its properties and the mapping to `FutureContract` | |
| `FutureContract` | abstract specification: futures owed, tools run, results delivered | for every call style, order left open |
| `ResultConversion` | `helpers`: `jsonable_output`, `_tagged`, `deserialize_return_value` | values are trees with a `Height`; each recursion is a step and a function |
| `CallBoundary` | allowlist, resolution, stubs, argument normalisation, injection, output extraction | operators without state |
| `AgentCalls` | several calls over one store, each from its code to its message; composes the two modules above | the code of a call makes one host call |
| `AgentProperties` | its properties | |
| `DriverInvariants`, `AsyncInvariants` | the inductive invariants of the proofs | |
| `MontyDriverProofs` | theorems about the sync driver | |
| `AnswerProofs` | answers reach the calls that asked | for both drivers |
| `AsyncProofs` | theorems about both drivers | with the refinement of `FutureContract` |
| `CarriedProofs` | what is carried through restarts, records and pauses: output, calls, budget | most for both drivers |
| `TransparencyProofs` | the refinement of `EvalContract` | for both drivers |
| `AgentProofs` | theorems about calls sharing a store, and about what crosses from the code to a tool | |
| `ValueProofs` | theorems about values: what a tool returns, what the code ends in | for values of any depth |
| `Recursion` | least members, induction, and that recursions define functions | the step of a recursion is a constant, which its user instantiates |
| `MCPlain`, `MCPauses`, `MCStyles`, `MCPolling`, `MCAgent` | snippets, tools, calls and values for TLC | |

**State.** `phase` is where the leg stands in `run_sync`; `record`, `defer`,
`deferred`, `executed_any`, `host_calls`, `stdout_prefix`,
`interrupts_answered`, `pending_answer` are the code's locals of the same
names; `stdout` is the `CollectString` of the pass; `results` is
the dictionary of a batch, in which each payload says whose tool it comes from,
`settled` its keys, and `vm.given` what every awaited future was resumed with;
`store` is the record on file; `answers` and
`counter` are LangGraph's resume values and its per-task index. `ran`,
`legRan` and `deliveries` are history and no guard reads them.

`AsyncDriver` adds `driver`, the entry point of the leg; the tasks of the open
gather, `waiting` (not begun, or not yet at their `interrupt()`), `granted` (past
it) and `finished` (what they came to, in order); and `strays`, tasks a raised
gather left behind. `crowded` is history.

`AgentCalls` keeps, for each call, how far it is (`at`) and what its leg
resolved, loaded, checked, handed over and got; `prompt` is what the model was
shown before it wrote the code, the tools of its request and the schemas taken
from them; `store` maps keys to records.

**Actions.** `StartLeg`, `LoadRecord`, `OpenPool`, `FeedStart`/`LoadSnapshot`
enter a leg. `Sandbox` is the interpreter running to its next snapshot;
`LookUpName`, `ServiceOs`, `RejectCall`, `OverBudget`, `DeferCall`, `EagerCall`,
`EagerInterrupt`, `BatchCall`, `BatchInterrupt`, `ResumeBatch` are the branches of
the loop in `_pass_sync`. `RetryAfterError`, `ReportError`, `RetryUnawaited` and
`FinishPass` end a pass, `DeleteRecord`, `Commit` and `Pause` a leg. The
failures (`PoolFails`, `CheckoutFails`, `LoadFails`, `LimitExceeded`,
`EagerCallFailsEarly`, `Crash`, and a failing branch in each store helper) draw
on `faults`. The actions are as coarse as the points at which the process can
die or the outside can tell a difference.

In `AsyncDriver`, `InEitherDriver` takes `MontyDriver`'s actions over; with
`driver = "async"` a `FutureSnapshot` is handled by `StartTasks` (the dictionary
entries are popped, every listed id starts as an error), `TaskAsks`, `TaskActs`
and `GatherRaises` for any task in any order, and `GatherReturns`. `StrayEnds`
and `CrashAll` end strays. A stray's work is not added to `ran`: no leg sees it.

In `AgentCalls` one action is one stage of a call: `AmendModelRequest` is the
model call, with any of the bindings for the tools of its request; `StartLeg`
resolves the tools anew, among those of any binding, `LoadRecord`, `CheckTypes`, `RejectCall`, `Interrupt`,
`HumanAnswers`, `InvokeTool`, `Complete`, `Return`. Stages of different calls
interleave.

**Abstractions.** A snippet is a straight list of instructions; a loop is one
instruction that repeats a call until its n-th real result. Of a
value the driver's modules keep whose tool it comes from and whether it was
raised; the driver looks at nothing else. A syntax or type error at `feed_start` is a
snippet that raises at once. Text is a sequence of the places of the prints.
A static check looks at names and arity only. A value in `ResultConversion` is
a tree without cycles.

**Assumptions about what is not in the repository.** A future equals no
ordinary value and has no length or attribute, so using it as a value raises;
awaiting a non-future raises; Monty raises for a name without a value and for
an OS call the handler declined; `dump`/`load_snapshot` preserve the machine.
Whether `pending_call_ids` lists every unresolved future or only the awaited
ones is left open: it is part of the snippet (`use = "all"`), and the runs and
proofs cover both. `interrupt()` is positional per task, its counter starts at 0 in each
leg, and a replay after a crash keeps the recorded answers. A host tool asks at
most once, before it acts: the repository's README (line 153) excludes others.
`asyncio.gather` without `return_exceptions` raises the first exception and does
not cancel the other tasks. `pending_call_ids` is in ascending order, the order in
which the calls were deferred, which matters to the sync driver only: it executes
a batch in the order of this list. Tool call ids are unique within a thread
(`IdsAssumption`), no parameter of a tool is called `args`, the fields of a schema
are distinct, and slots that LangChain injects have their usual names. LangChain
takes a text as it is, and so a list, empty or not, of texts and of dicts whose
`type` is one of its content blocks; it writes everything else as JSON.
`ToolMessage.text` joins the texts of such a list, those of its `text` blocks
included, and leaves the rest out; what several texts joined look like is not
represented. A stub that is no valid Python, with a keyword among its names or a
parameter without a default after one with a default, breaks the whole text of
stubs, and the checker then refuses all code: `_tool_rendering.py` 105 says the
former of parameters that are no identifiers, the only ones it guards against.
Code calls names that it can spell (`RequestsAssumption`); a tool whose name is no
identifier gets no stub, as in lines 96-97.

## 4. Runs

| Run | Question | Bounds |
|---|---|---|
| `plain` | does plain code behave like one run (`ImplementsContract`), with nothing run twice, nothing dropped, budget and output carried over pauses? types | every snippet of ≤ 3 statements out of 10 kinds, and of ≤ 5 out of 4 kinds that pause, print or act; budget 3; no faults |
| `styles` | mixed, awaited and polling calls, each leg under either driver: nothing repeated in a leg or dropped, futures mirrored, tasks accounted for, own results, the contract of futures kept, every leg ends | ≤ 3 statements out of 11 kinds; ≤ 4 out of 5 awaited kinds that end in an await and ask at most twice; budget 3; no faults |
| `replays` | do answers, pauses and the record stay in step when legs are cut short? | ≤ 4 statements, any 2 of crash, limit, refused worker, refused snapshot |
| `late_crashes` | are answers still matched when a leg is replayed after its record is deleted, or with a record nobody deleted? | ≤ 4 statements, any 2 of crash at any step, pool, delete |
| `everything` | what survives any three faults | ≤ 3 statements, plain and awaited, sync driver; any 3 of all 11 kinds |
| `no_store` | plain LangGraph replay in every style and with either driver: are answers matched without a record, and is the contract of futures kept? | ≤ 3 statements out of 11 kinds; one crash, late crash, unstarted pool or refused worker |
| `agent` | does a call reach its tool as written, do values come back, does the model know what it calls, do calls keep apart? | 44 ways to pass arguments × 9 names × 6 setups × 2 bindings for the model call and, independently, 2 for each leg; about 140 values, nested twice, among them lists of content blocks; pairs of calls that ask, with every choice of one thread or none and two ids or none |
| `polling`, `lost_write`, `orphaned_record`, `broken_snapshot`, `concurrent_questions` | expected violations, section 5 | ≤ 3 statements, ≤ 1 fault |

What the faults and bounds are for. Passes share nothing but the record, so
what can go wrong over pauses needs a pass before the pause, one after it, and
a later question for an answer to be displaced to: three gated calls, which
every passing run of the driver allows. A budget of 3 is reached, exceeded and carried over a pause
within these lengths. A second fault is needed to hit the recovery from the
first; `everything` has a third because `BurnRaises` needs a tool that fails
early and two crashes. The tools are one of each kind the driver can tell
apart: a plain one, a gated one (which is also resolved late, by name), a
failing one and one outside the allowlist. One gated tool is enough because an
answer is identified by the call, not by the tool. The smallest batch with
every interleaving that matters has three tasks: two that ask and one that runs
on as a stray, which `styles` allows under a budget of 3. In `agent` the tools
are one for each way of declaring injected parameters, defaults and names, and
call lists go one beyond the longest signature; two levels of nesting let every
kind of value occur within every other. `replays`,
`late_crashes` and `no_store` leave out the faults under which one of their
properties fails: each of these is the subject of section 5 or excluded by the
hypotheses of section 6.

Deadlock is checked everywhere: only committed calls stop, by the stuttering
steps `Finished` and `AllDone`.

**Fairness.** `FairSpec` adds weak fairness of `Leg`, the disjunction of what
goes on by itself once LangGraph has started a leg: the driver is one thread
that is never blocked on anything but the sandbox and the host tools, and the
sandbox has a time limit. There is no fairness of `HumanAnswers` (nobody owes
an answer) or of any fault; a leg may therefore end in `paused` for good, and
`LegsEnd` allows it. That host tools return is an assumption: nothing in the
code bounds them.

`FairAsyncSpec` has the same for `AsyncLeg`, which includes the steps of the
tasks: the event loop runs whatever can go on, one task at a time. One weak
fairness condition for all of them is enough, because a gather has finitely many
tasks and each step uses one up. Strays get no fairness: their loop may be
gone.

## 5. Where code and documents disagree

Five runs show a sentence of the repository's README that the code does not
keep. All five are ordinary failures or ordinary code, and the details are in
`PROJECT.json`.

- `polling`: "transparently restarts in eager mode". A loop that ends on a
  tool's result never ends on a future; the deferred pass counts its calls and
  returns `IterationBudgetExceeded` before any host tool has run. Only errors
  raised by Monty lead to the eager pass, the budget's early return does not.
  The same return refuses straight code with too many calls before the first of
  them acts. `EvalContract` permits that (`Refuse`) when the calls would all be
  made; when an earlier one fails and nothing catches it, plain execution ends
  there, in the tool's error, and the refusal is again one that a restart would
  have avoided. In the run `plain` the failing calls are caught.
- `lost_write`: "Persistence failures degrade silently to the replay model". A
  leg that starts afresh with answers on file does not count the ones it
  consumes; the record of its next pause is too low, and the next leg hands an
  old answer to a later question.
- `orphaned_record`: "The snapshot record is deleted from the store when the
  call finishes". Not when the pool does not start in a resumed leg.
- `broken_snapshot`: "never to a broken run". A record that parses but whose
  bytes the worker refuses ends the call with an error.
- `concurrent_questions`: "both behave identically under `invoke` and
  `ainvoke`". When two gated calls are awaited together, the order of their
  questions is the order in which the tasks get there, which a replay need not
  repeat. The run needs no fault. Nothing else about gathers mixes answers up:
  that is `AnswersInTurn`, which `AnswersMatchedInBoth` proves.

Met on the way, not shown by a run of its own, and reflected in what the
properties leave out:

- "stubs only ever under-constrain, never reject valid calls"
  (`_tool_rendering.py` 72-73) is not so, for two reasons. A schema may list an
  optional parameter before a required one, or a parameter with the name of a
  Python keyword, and the code guards only against names that are no
  identifiers. The stub is then no Python, and since all stubs are one text,
  valid calls of every tool are refused; the run `agent` has two setups with such
  a tool beside a harmless one. And a parameter whose default does not appear in
  the JSON schema counts as required. `ValidCallsPass` says that there is no third
  reason, which `NoValidCallIsRefused` proves.
- "Return `str` (a JSON-encoded payload) or a plain Python type (`list`, `dict`,
  ...)" (repository's README, line 189). A list of texts reaches the code as one
  text, an empty list as the empty text, and of a list of dicts that have the
  `type` of a content block only the texts are left. `ReturnsArrive` is about all
  other values.
- "`max_stack_depth` and `max_suspensions` are the two fields `None` does not make
  unlimited" (line 280). The description of `eval_python` says `unlimited` of the
  former.
- `README.md` 322 calls the tag of a dataclass `$dataclass`; the code writes
  `$object`.
- "Wall-clock budget per eval_python call" (`limits.py` 28) is a budget per
  session, and a restart or a resumed leg has a session of its own.
- A positional value for a parameter called `state`, `config` or the like is
  checked against that parameter, which then does not count when the call is
  normalised: the value moves to the next one. `ArgumentsArrive` is about calls
  without such values (`PositionsOrdinary`).
- A deferred name may stand for one tool when the prompt is rendered and for
  another when the code runs, for two of one name, or for none in either place;
  and without a system prompt the model never reads its signature.
  `ToldTruthfully` says of names where this does not happen (`SameTool`) that the
  prompt is right; the code does nothing to notice the rest, and with
  `type_check` a call that fits only the old signature is refused.

The first cause of `lost_write` also shows up after a failing read, a tool that
fails before it asks, a tool that is not bound on resume, and a crash after the
record was deleted in a leg that ended in an infrastructure error. The theorems
exclude these by their hypotheses (`TurnsKept`, section 6).

## 6. What is proved

All theorems hold for every value of the constants. Those about `Spec`
(`MontyDriver`) and `AsyncSpec` are for any set of snippets of any length, any
tools, budget, fault kinds and number of faults, with or without a store, unless
a hypothesis says otherwise; those about `AgentCalls` for any number of calls,
setups, tools and requests. The constants' assumptions are those named in the
modules, which TLC evaluates in every run of a module that extends theirs. For
the drivers they are `ProgramsAreCode`, `FaultsAssumption`, `StoreAssumption` and
`ToolsAssumption`. For `AgentCalls` they are `IdsAssumption`, `NoRecordAssumption`;
`ValuesAssumption` and `HeightAssumption` (values are finite trees, put together
as Python puts lists, dicts and objects together); `RequestsAssumption` (tools
return values, code ends in one and calls names that it can spell); `ListsAssumption` (bindings, `ptc`, fields and positional
arguments are sequences); `SchemasAssumption` (fields are distinct, what LangChain hides from the
model is among them, and a default shown in the listed schema is one
the parameter has); and `SetupsAssumption` (an object in `ptc` goes by the name
of its tool).

| Theorem | States | Hypotheses | Invariant |
|---|---|---|---|
| `TypeCorrect` | `Spec => []TypeOK` | none | `TypeOK` |
| `FuturesMirrored` | `Spec => []DeferredMirrorsFutures` | none | `FuturesInv` |
| `RestartIsSafe` | `Spec => OncePerLeg` | none | `CallsInv` on top of `FuturesInv` |
| `NothingLeftBehind` | `Spec => []RecordGone` | `CleanupKept`: pool, get and delete do not fail | `RecordInv` |
| `AnswersMatched`, `BurnIsSilent` | `Spec => []AnswersReachTheirCalls`, `[]BurnNeverSurfaces` | `TurnsKept` (below) | `TurnsInv` and `SyncBatchInv` on top of `OutputInv` |
| `AnswersMatchedInBoth` | `AsyncSpec => []AnswersInTurn` | `TurnsKept` | `AsyncTurnsInv` on top of `AsyncInv`, `OutputInv` and `AccountsInv` |
| `PausesAreRecorded` | `Spec => []PausedOnRecord` | `PlainCode` (no await), a store and `TurnsKept` | the same |
| `EachLineOnce`, `EachLineOnceInBoth` | `Spec => []StdoutOnce`, `AsyncSpec => []StdoutOnce` | none | `OutputInv` on top of `FuturesInv` |
| `NoCallIsDropped`, `NoCallIsDroppedInBoth` | `Spec => []NoCallDropped`, `AsyncSpec => []NoCallDropped` | `ToolsKept`: no early failure, no unbound tool | `CallsMadeInv` on top of `OutputInv` |
| `ToolsRunOnce`, `BudgetIsForTheCall` | `Spec => []RunsOnce`, `[]BudgetSpansLegs` | `PlainCode` and `RunsKept` (a store; no failing put or get, no crash) | `RunsInv` on top of `FuturesInv` |
| `DriversAgree` | `AsyncSpec => Spec` | `PlainCode` | `OutputInv` on top of `AsyncInv` |
| `DriverIsTransparent`, `DriverIsTransparentInBoth` | `Spec => ImplementsContract`, `AsyncSpec => ImplementsContract` | `StraightCode` (no await; allowlisted calls are not in loops; calls of failing tools are caught) and `NothingFails` (a store; no fault but a failing delete) | `CourseInv` on top of `OutputInv`, `AnswersInv` and `RunsInv` |
| `FuturesMirroredInBoth`, `RestartIsSafeInBoth` | `AsyncSpec => []DeferredMirrorsFutures`, `OncePerLeg` | none | `AsyncInv`: the above and `TasksInv` |
| `OnlyQuestionsLeaveStrays` | `AsyncSpec => OnlyQuestionsStray` | none | `AsyncInv`: `TasksInv` |
| `EachCallItsOwnResult` | `AsyncSpec => OwnResults` | none | `OutcomesInv` on top of `AsyncInv` |
| `EachCallOneTask` | `AsyncSpec => []BatchAccounted` | none | `AccountsInv` |
| `BothKeepTheContract` | `AsyncSpec => ImplementsFutures` | none | `AsyncInv` |
| `NoCallResumesAnother`, `EveryCallCleansUp` | `[]OwnRecords`, `[]StoreCleaned` for `AgentCalls` | none beyond the assumptions | `RecordsInv` |
| `CheckedCallsArrive`, `NoValidCallIsRefused`, `NothingIsForged` | `[]ArgumentsArrive`, `[]ValidCallsPass`, `[]InjectedAreLive` for `AgentCalls` | none beyond the assumptions | `CrossingInv` on top of `RecordsInv` |
| `EveryReturnArrives` | `[]ReturnsArrive` for `AgentCalls` | none beyond the assumptions | `HandedBackInv` on top of `CrossingInv` |
| `EveryResultSurvives` | `[]ResultsSurvive` for `AgentCalls`, with any `Depth` | none beyond the assumptions | `HandedBackInv` on top of `CrossingInv` |
| `PromptIsTrue` | `[]ToldTruthfully` for `AgentCalls` | none beyond the assumptions | `PromptInv` on top of `CrossingInv` |

`TurnsKept` leaves out the faults that lose count, with or without await in the
code. No tool fails before it asks and none is unbound in a later leg; a limit
may strike plain code only, since it can end a replay on the way to questions
that have been answered; and with a store no put or get fails, and a late crash
does not come together with a refused worker, a snapshot that cannot be loaded or
a limit, each of which can delete the record of a call that has more to ask. None of
it can be dropped: with any one of these faults, or of these pairs, let in, TLC
finds an answer given to another call; `lost_write` (section 5) is such a run.

The arguments:

- *Futures.* `DeferredMirrorsFutures` alone says nothing about a VM that comes
  out of a record. Records are only written in eager passes, which have no
  futures (`Frozen`), and outside an await nothing is pending.
- *Calls.* That an acting call has not acted before in this leg follows from
  the order of places: everything that ran or is deferred lies before the place
  the sandbox is at, what ran and what is deferred are disjoint, and a deferred
  pass that has executed nothing has run nothing, which is the state the restart
  begins from.
- *Record.* From the read on, the leg's `record` is what is on file, so the
  leg that returns knows whether there is something to delete.
- *Answers.* LangGraph hands answers out by position, so what has to be shown is
  that position and call belong together in every leg. The code alone fixes
  which questions it asks and in which order (`Questions`, `Precedes`), whatever
  earlier legs did: if the code has an await that finds something to wait for
  (`Batched`), they are those of its batches, batch by batch; if not, all passes
  that ask are eager, and they are the gated calls before the place where
  an eager pass stops or the budget ends. The order is total (`QuestionsInOrder`),
  and so a question is known by those before it (`OneTurn`). `LedgerInv` says
  that the questions before the n-th answer's are those of the first n - 1
  answers, and that the question being asked comes after all that are
  answered. `PassInv` says where a pass can be: the instructions before
  it stop no pass of its mode, it has the futures, and has kept the results, that the
  code gives it there, and the questions it has passed are those of the first
  `counter` answers. So a call that takes an answer takes its own
  (`NextAnswerFits`).
- *Answers and the record.* With a store a pass may instead come out of a record,
  which `OnFile` says is at a question, with the questions before it counted and
  all of them answered. Without a record either nothing has been answered or
  everything has (`AllAsked`): that is what a late crash leaves when it strikes
  between the deletion and the checkpoint, and the leg then replays the code from
  its start, takes all answers by position and asks nothing. A late crash with a record
  that nobody deleted resumes there again. `Counted` is the same for the
  running pass: it
  keeps the burn from asking, and a frozen pass has counted what was answered.
  With no late crash and plain code `AnswersInv` says more, and more simply: the
  record is frozen at a gated call and either counts all answers or all but the
  last, which is then the answer to this very call (`Consistent`), and LangGraph's
  counter equals `interrupts_answered` (`InStep`). The transparency theorem
  builds on it.
- *Answers in a batch.* The sync driver settles a batch in the order of its calls
  (`SyncBatchInv`), so the answered ones are those that come first
  (`BatchTurn`). The tasks of a gather run in any order, but as long as at most one of
  them asks, that one is next in turn: nothing else of its batch takes an answer
  (`AsyncTurnsInv`). A gather with two that ask is the finding
  `concurrent_questions`.
- *Output.* What a pass prints is what lies before the place it is at. `OutputInv`
  states this for the running VM, for the record and for the prefix taken from
  it, so the text of a result is a prefix of the code's lines and a revived
  pass goes on where the record ends.
- *Calls made.* Every allowlisted call behind the sandbox has acted in some leg
  or is still owed as a future, also in a record; at the end of the code nothing
  is owed, or the pass does not report success. For the async driver the calls of
  an open gather count as owed.
- *Runs and budget.* What ran in any leg is behind the running pass and was
  counted by it, and the same holds of the record for the leg that will come out
  of it (`Accounted`). A crash is excluded because a leg that ran a call and died
  has recorded neither: the call runs again in the replay, which the
  repository's README (line 153) announces.
- *Transparency.* The one run of `EvalContract` is a function of the number of
  instructions executed (`Execution`), and straight code executes each of them
  once. `CourseInv` says that a pass which is about to execute an instruction
  is where the one run comes after the instructions before it: the prefix and the
  pass's own text are its output, `host_calls` the number of its calls, and in an
  eager pass what ran, in whichever leg, are exactly these calls. The record
  says the same of the place it is frozen at, with every answer behind it, so the
  next call of the one run is the one that asks. A deferred pass of
  straight code has run nothing, and is thrown away as soon as it has deferred a
  call; hence the restart begins the one run anew. Each step is then matched: an
  eager call acts, a pause asks, an answer grants and a committed result
  finishes or, when the budget ended a deferred pass that had run nothing,
  refuses. That the ideal run's steps exist at all, and that it stays where it
  is once it is over, is by induction over their number. Failing code is covered
  where the code catches the failure or the failure is the code's own.
- *Both drivers.* Code without await never reaches a gather (`OutputInv`: a
  sandbox that awaits is at an await), and all else is shared; so the theorems
  about `Spec` for such code hold of `AsyncSpec`.
- *Tasks.* What the drivers share are steps of `MontyDriver`, so its invariants
  need no second proof for them (`SharedSteps`); only the five steps of a gather
  do. `TasksInv` says what a task in flight is: settled, popped from the
  dictionary, not run in this leg, and begun with `executed_any` set, so that no
  restart can follow.
- *Outcomes.* What `results` holds differs between the drivers: the sync one enters
  what a tool came to as soon as it has ended, the async one an error for every
  call, which `GatherReturns` overwrites with the payloads of the tasks. `OutcomesInv`
  states each, and that `finished` has exactly the outcomes of the calls whose task
  has ended, each with its own id. A resume waits for all of them, so what it hands
  to the sandbox is, for each id, what the tool of that call came to. That the code
  goes on or fails accordingly needs that it only holds futures that are pending
  (`FuturesInv`).
- *Contract.* Every step is matched with one of `FutureContract`'s: a deferred
  call promises, an acting one runs, a resumed batch delivers, and calls owed
  are forgotten only by a restart before anything ran or at the end of the leg.
  That a delivered call has acted is `settled \subseteq Unended \cup legRan`.
- *Strays.* Only a raised gather adds to `strays`. Tasks run only while the sandbox
  waits for them (`TasksInv`), and no step to a result is taken while it
  waits. So no leg returns while a task is running, in whichever leg
  and after however many answers.
- *Shared store.* No two calls with an id have a key in common (`KeysDiffer`,
  from `IdsAssumption` and the way a namespace is formed), so what is on file
  under a call's key is its own record, and from the read on a leg knows whether
  there is something to delete.
- *Arguments.* `CrossingInv` says which tool a call has been checked against,
  refused by, or handed to: in every leg it is what resolution finds under the
  name. Of a refused call it also keeps the stubs, which all have to be Python for
  the refusal to be about the call's own. The rest is about the operators, for lists of any length. `Without`
  keeps the parameters in order (`WithoutIsLast`, `KeptExists`, by induction on
  the length), and those in front of the first it removes keep their places
  (`WithoutKeepsFront`), so positional values meet the same parameters in the stub, in
  the normalisation and in Python's binding (`Signature`, `BoundAsPassed`); and what
  is injected is written last, over anything passed under the same name (`Slots`).
- *Prompt.* From the model call on, the schemas shown are those of the tools of its
  request (`PromptInv`), and the tools of a leg are those resolution finds in its own
  list. A name that `ptc` gives once has one entry (`OneEntry`). If this is a tool, the
  prompt shows it and every leg finds it, whatever is bound (`GivenStays`); if it is a
  deferred name, both look it up, and under `SameTool` what the prompt shows
  is what the leg takes first of its list (`BoundIsFound`).
- *Values.* `HandedBackInv` says that what a call has `got` and what it
  returned are the bridge's and `jsonable_output`'s answers for the request it
  made. The rest is about values. A returned value survives because JSON's form
  of it is taken once, by LangChain or by the tool (`JsonForm` is a fixed point
  on what a JSON text holds). That a result is plain JSON to any depth is shown with
  sets closed under parts (`Closed`, `Plainly`): what `json.dumps` accepts is in one,
  and so is everything `_tagged` makes (`DumpedIsPlain`, `TaggedIsPlain`). That
  a tagged result is that of no other value is an induction over the height of
  the value: equal tagged forms have the same kind, since a tag is the only
  key of its dict and no key of the code's own dicts (`OneTagged`, `SameKind`),
  and then equal parts (`TaggedApart`). What is sent as it is may not look like a
  tagged value either (`JsonApart`).

The library's induction theorems take an operator as a parameter and cannot be
used. Where a proof needs induction it takes the least element of a set of
counterexamples, which `WFMin` gives without one (`LeastNumber`, `Induction`,
`HeightInduction` in `Recursion`). To the provers `f[x \in S] == e` is
`CHOOSE f : f = [x \in S |-> e]`, so a recursion says nothing until such a function
is shown to exist. `RecursionExists` does this for any step that looks at lower
arguments only. The step is a constant operator of `Recursion`, and a module that
has a recursion instantiates it with its own step, which gives what a
theorem with an operator for a parameter would.

## 7. What is only model-checked

- `LegsEnd`: liveness under fairness is out of the prover's reach.
- `ImplementsContract` for plain code that `StraightCode` excludes. It is not
  true of all of it: a loop that waits for a result, and a failure that the code
  does not catch, can be told apart from a plain run (section 5, `polling`).
- What the theorems exclude by hypotheses and the runs do not: `styles` checks
  `NoCallDropped` for mixed code as the theorem does, and `everything` checks
  `StdoutOnce` and `OncePerLeg` under all faults, as proved. `RunsOnce` and
  `BudgetSpansLegs` do not hold for awaited code that pauses, which replays its
  calls.

## 8. What is not modelled

- Wording: prompts, tracebacks, messages, `attempted_code`, the limits in the
  description of `eval_python`. It has no state.
- The annotations in stubs. What a checker makes of types is not this code's.
- How much of a limit a session has used. It is Monty's state; a limit is a
  fault that may strike at any step.
- Values that contain themselves.
- Exceptions other than `MontyError` raised in a pass, by a bug of the driver or a
  callback. They are reported as the leg's error like those of the session, and
  never lead to the eager pass.
- A host tool that fails before it asks (the fault `early`) inside a batch. Outside
  of one it is `EagerCallFailsEarly`.
- Faults in `AgentCalls`, and calls there that ask more than once. `AgentCalls` is
  about what calls share and what crosses the boundary; a single call under faults
  and over many pauses is `MontyDriver`'s subject.
- What a stray does after its leg has ended. The repository's README (line 153)
  announces that awaited tools run again in a replay.
