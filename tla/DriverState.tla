---------------------------- MODULE DriverState -----------------------------
(***************************************************************************)
(* The constants and variables of MontyDriver: one eval_python call, the   *)
(* locals of the pass that is running, and what the properties remember.   *)
(***************************************************************************)
EXTENDS HitlStore, InterruptLedger

CONSTANTS HostTools,      \* the allowlisted tools a healthy leg resolves
          DeferredNames,  \* those given by name, taken from runtime.tools
          Gated,          \* tools that call interrupt() once before they act
          Failing,        \* tools that raise after that
          Budget          \* iteration_budget

ASSUME ToolsAssumption ==
    /\ HostTools \subseteq Tools
    /\ DeferredNames \subseteq HostTools
    /\ Gated \subseteq HostTools
    /\ Failing \subseteq HostTools
    /\ Budget \in Nat

VARIABLES
    phase,                \* where the leg is, see Phases
    hostTools,            \* self._host_tools
    record,               \* what run_sync loaded
    outcome,              \* the EvalPythonResult
    \* the locals of _pass_sync
    defer, deferred, executed_any, host_calls, stdout_prefix,
    interrupts_answered, pending_answer,
    results,              \* of the batch: the payload of each call in it
    \* history, read by the properties only
    ran,                  \* host calls whose tool acted, in order
    legRan,               \* those of this leg
    deliveries            \* <<call, whose answer it was given>>

Phases == {"start", "load", "pool", "begin", "pass", "delete",
           "returned", "raised", "paused", "committed"}

Errors == {"unfinished", "none", "MontyError", "IterationBudgetExceeded",
           "UnawaitedHostCallError", "HostError"}

Results == [error : Errors, stdout : Seq(Nat)]

Unfinished == [error |-> "unfinished", stdout |-> <<>>]

ErrorResult(type) == [error |-> type, stdout |-> <<>>]

\* The calls of the batch that have a result, and the RuntimeError for an id that
\* the driver does not know
settled == DOMAIN results

NoHostCall == [of |-> <<0, 0>>, raised |-> TRUE]

NoResults == [s \in {} |-> NoHostCall]

sandboxVars == <<prog, vm, stdout>>
ledgerVars  == <<answers, counter, asked>>
passVars    == <<defer, deferred, executed_any, host_calls, stdout_prefix,
                 interrupts_answered, pending_answer, results>>
history     == <<ran, legRan, deliveries>>
vars == <<phase, hostTools, record, outcome, store, faults,
          sandboxVars, ledgerVars, passVars, history>>
=============================================================================
