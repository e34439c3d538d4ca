---------------------------- MODULE MontyDriver -----------------------------
(***************************************************************************)
(* One eval_python call, driven by the sync driver of                      *)
(* middleware/_driver.py, from the model's tool call to the result that    *)
(* LangGraph commits.  A leg is one execution of the tool by LangGraph:    *)
(* run_sync.  A leg makes one pass when it resumes a record, else a        *)
(* deferred pass and perhaps an eager one; it ends with a result or with a *)
(* GraphInterrupt, after which a human answers and the next leg starts.    *)
(***************************************************************************)
EXTENDS DriverState

(***************************************************************************)
(* Mistakes one could make in the driver.  Each operator is a wrong form   *)
(* of the definition it is named after and no definition uses it;          *)
(* PROJECT.json pairs it with a property that is violated when the wrong   *)
(* form is put in place of the right one.                                  *)
(***************************************************************************)

\* the interrupt counter of LangGraph survives into the next leg
StartLegKeepsCounter ==
    /\ phase = "start"
    /\ phase' = "load" /\ legRan' = {}
    /\ hostTools' = HostTools /\ NoFault
    /\ UNCHANGED <<record, outcome, store, sandboxVars, ledgerVars,
                   passVars, ran, deliveries>>

\* a replay that does not look for its record
LoadRecordSkipped ==
    /\ phase = "load" /\ phase' = "pool"
    /\ record' = NoRecord
    /\ UNCHANGED <<hostTools, outcome, store, faults, sandboxVars,
                   ledgerVars, passVars, history>>

\* only a result without an error cleans up
AfterResultOnSuccess ==
    IF record # NoRecord /\ outcome'.error = "none" THEN "delete"
                                                    ELSE "returned"

\* the resumed call's interrupt() starts from the first answer
BurnSkipped == UNCHANGED counter

\* the session of the deferred pass is used again by the eager one
FreshPassKeepsStdout ==
    /\ deferred' = {} /\ executed_any' = FALSE
    /\ results' = NoResults
    /\ UNCHANGED stdout

FreshPassKeepsDeferred ==
    /\ UNCHANGED deferred /\ executed_any' = FALSE
    /\ results' = NoResults
    /\ stdout' = <<>>

\* interrupts_answered stays what the record said
AnswerNotCounted ==
    /\ UNCHANGED interrupts_answered
    /\ pending_answer' = FALSE

\* the budget starts again after a pause; the text before an earlier pause is
\* lost; a call is taken back twice; the question is taken for answered
PausedRecordBudgetReset ==
    [vm |-> vm, stdout |-> stdout_prefix \o stdout, host_calls |-> 0,
     interrupts_answered |-> interrupts_answered]

PausedRecordDropsPrefix ==
    [vm |-> vm, stdout |-> stdout, host_calls |-> host_calls' - 1,
     interrupts_answered |-> interrupts_answered]

PausedRecordUncountsTwice ==
    [vm |-> vm, stdout |-> stdout_prefix \o stdout,
     host_calls |-> host_calls' - 2,
     interrupts_answered |-> interrupts_answered]

PausedRecordCountsQuestion ==
    [vm |-> vm, stdout |-> stdout_prefix \o stdout,
     host_calls |-> host_calls' - 1,
     interrupts_answered |-> interrupts_answered + 1]

\* the restart forgets to switch modes
RestartStillDeferred ==
    /\ phase' = "begin"
    /\ UNCHANGED <<hostTools, record, outcome, store, faults, sandboxVars,
                   ledgerVars, passVars, history>>

\* every error is put down to deferral; or none is; or after a batch, too
AlwaysSymptom == TRUE
NeverSymptom == FALSE
SymptomAfterBatch == defer /\ deferred # {}

\* a deferred pass that reaches the end is taken for a complete run
FinishPassUnchecked ==
    /\ phase = "pass" /\ vm.at = "complete"
    /\ outcome' = [error |-> "none", stdout |-> stdout_prefix \o stdout]
    /\ phase' = IF record = NoRecord THEN "returned" ELSE "delete"
    /\ UNCHANGED <<hostTools, record, store, faults, sandboxVars, ledgerVars,
                   passVars, history>>

----------------------------------------------------------------------------
(***************************************************************************)
(* The call begins: LangGraph has the code, and nothing has been done.     *)
(***************************************************************************)

Init ==
    /\ prog \in Programs
    /\ vm = FreshVM /\ stdout = <<>>
    /\ store = NoRecord /\ faults = MaxFaults
    /\ answers = <<>> /\ counter = 0 /\ asked = NoQuestion
    /\ phase = "start" /\ hostTools = HostTools
    /\ record = NoRecord /\ outcome = Unfinished
    /\ defer = FALSE /\ deferred = {} /\ executed_any = FALSE
    /\ host_calls = 0 /\ stdout_prefix = <<>>
    /\ interrupts_answered = 0 /\ pending_answer = FALSE
    /\ results = NoResults
    /\ ran = <<>> /\ legRan = {} /\ deliveries = {}

----------------------------------------------------------------------------
(***************************************************************************)
(* Entering a leg                                                          *)
(***************************************************************************)
StartLeg ==
    /\ phase = "start"
    /\ phase' = "load" /\ counter' = 0 /\ legRan' = {}
    /\ \/ hostTools' = HostTools /\ NoFault
       \/ \E t \in DeferredNames : hostTools' = HostTools \ {t} /\ Fault("unbind")
    /\ UNCHANGED <<record, outcome, store, sandboxVars, answers, asked,
                   passVars, ran, deliveries>>

LoadRecord ==
    /\ phase = "load"
    /\ load_hitl_record(record')
    /\ phase' = "pool"
    /\ UNCHANGED <<hostTools, outcome, sandboxVars, ledgerVars, passVars,
                   history>>

\* A leg without a record starts with the deferred pass, else resumes eagerly
OpenPool ==
    /\ phase = "pool"
    /\ defer' = (record = NoRecord)
    /\ phase' = "begin"
    /\ UNCHANGED <<hostTools, record, outcome, store, faults, sandboxVars,
                   ledgerVars, deferred, executed_any, host_calls,
                   stdout_prefix, interrupts_answered, pending_answer,
                   results, history>>

\* The outer except of run_sync: an error result, and nothing else
PoolFails ==
    /\ phase = "pool" /\ Fault("pool")
    /\ outcome' = ErrorResult("HostError")
    /\ phase' = "returned"
    /\ UNCHANGED <<hostTools, record, store, sandboxVars, ledgerVars,
                   passVars, history>>

\* Where run_sync goes with a result: a resumed leg deletes its record
AfterResult == IF record = NoRecord THEN "returned" ELSE "delete"

Return(result) == outcome' = result /\ phase' = AfterResult

CheckoutFails ==
    /\ phase = "begin" /\ Fault("checkout")
    /\ Return(ErrorResult("HostError"))
    /\ UNCHANGED <<hostTools, record, store, sandboxVars, ledgerVars,
                   passVars, history>>

\* Fresh locals and a fresh session for every pass
FreshPass ==
    /\ deferred' = {} /\ executed_any' = FALSE
    /\ results' = NoResults
    /\ stdout' = <<>>

FeedStart ==
    /\ phase = "begin" /\ record = NoRecord
    /\ phase' = "pass"
    /\ FreshPass
    /\ host_calls' = 0 /\ stdout_prefix' = <<>>
    /\ interrupts_answered' = 0 /\ pending_answer' = FALSE
    /\ vm' = FreshVM
    /\ UNCHANGED <<hostTools, record, outcome, store, faults, prog,
                   ledgerVars, defer, history>>

\* _burn_answered_interrupts returns, the counter past the answered ones
BurnAnsweredInterrupts ==
    /\ counter + record.interrupts_answered <= Len(answers)
    /\ counter' = counter + record.interrupts_answered

LoadSnapshot ==
    /\ phase = "begin" /\ record # NoRecord
    /\ BurnAnsweredInterrupts
    /\ phase' = "pass"
    /\ FreshPass
    /\ host_calls' = record.host_calls /\ stdout_prefix' = record.stdout
    /\ interrupts_answered' = record.interrupts_answered
    /\ pending_answer' = TRUE
    /\ vm' = record.vm
    /\ UNCHANGED <<hostTools, record, outcome, store, faults, prog, answers,
                   asked, defer, history>>

\* Too few answers on file: the burn itself asks the human
BurnRaises ==
    /\ phase = "begin" /\ record # NoRecord
    /\ counter + record.interrupts_answered > Len(answers)
    /\ asked' = Placeholder /\ phase' = "raised"
    /\ UNCHANGED <<hostTools, record, outcome, store, faults, sandboxVars,
                   answers, counter, passVars, history>>

LoadFails ==
    /\ phase = "begin" /\ record # NoRecord /\ Fault("load")
    /\ BurnAnsweredInterrupts
    /\ Return(ErrorResult("HostError"))
    /\ UNCHANGED <<hostTools, record, store, sandboxVars, answers, asked,
                   passVars, history>>

----------------------------------------------------------------------------
(***************************************************************************)
(* The loop of _pass_sync: the sandbox runs to its next snapshot, and each *)
(* kind of snapshot is dispatched.                                         *)
(***************************************************************************)
InPass == phase = "pass"

Sandbox ==
    /\ InPass /\ VmStep
    /\ UNCHANGED <<phase, hostTools, record, outcome, store, faults, prog,
                   ledgerVars, passVars, history>>

LimitExceeded ==
    /\ InPass /\ vm.at = "run" /\ Fault("limit")
    /\ vm' = [vm EXCEPT !.at = "error"]
    /\ UNCHANGED <<phase, hostTools, record, outcome, store, prog, stdout,
                   ledgerVars, passVars, history>>

\* NameLookupSnapshot, resumed without a value: a NameError in the sandbox
LookUpName ==
    /\ InPass /\ vm.at = "name"
    /\ vm' = Throw(vm)
    /\ UNCHANGED <<phase, hostTools, record, outcome, store, faults, prog,
                   stdout, ledgerVars, passVars, history>>

\* _os_result; Monty raises what the handler declined
ServiceOs ==
    /\ InPass /\ vm.at = "os"
    /\ vm' = IF Code(vm).use = "serviced" THEN Advance(vm) ELSE Throw(vm)
    /\ UNCHANGED <<phase, hostTools, record, outcome, store, faults, prog,
                   stdout, ledgerVars, passVars, history>>

Tool == Code(vm).tool

RejectCall ==
    /\ InPass /\ vm.at = "call" /\ Tool \notin hostTools
    /\ pending_answer' = FALSE
    /\ vm' = Throw(vm)
    /\ UNCHANGED <<phase, hostTools, record, outcome, store, faults, prog,
                   stdout, ledgerVars, defer, deferred, executed_any,
                   host_calls, stdout_prefix, interrupts_answered, results,
                   history>>

\* A host call that is let through is counted before anything else
HostCall ==
    /\ InPass /\ vm.at = "call" /\ Tool \in hostTools
    /\ host_calls' = host_calls + 1

OverBudget ==
    /\ HostCall /\ host_calls' > Budget
    /\ Return(ErrorResult("IterationBudgetExceeded"))
    /\ UNCHANGED <<hostTools, record, store, faults, sandboxVars, ledgerVars,
                   defer, deferred, executed_any, stdout_prefix,
                   interrupts_answered, pending_answer, results, history>>

DeferCall ==
    /\ HostCall /\ host_calls' <= Budget /\ defer
    /\ deferred' = deferred \cup {Site(vm)}
    /\ vm' = ReturnFuture(vm)
    /\ UNCHANGED <<phase, hostTools, record, outcome, store, faults, prog,
                   stdout, ledgerVars, defer, executed_any, stdout_prefix,
                   interrupts_answered, pending_answer, results, history>>

\* The call's own interrupt() has an answer to return, or it makes none
MayAct(tool) == tool \in Gated => Answered

\* The tool takes its answer, if it asks for one, and does its work
Act(tool, site) ==
    /\ ran' = Append(ran, site)
    /\ legRan' = legRan \cup {site}
    /\ IF tool \in Gated
       THEN /\ counter' = counter + 1
            /\ deliveries' = deliveries \cup {<<site, NextAnswer>>}
       ELSE UNCHANGED <<counter, deliveries>>
    /\ UNCHANGED <<answers, asked>>

\* A resumed call that completed has used up the answer it was paused for
AnswerConsumed ==
    /\ interrupts_answered' = IF pending_answer THEN interrupts_answered + 1
                                                ELSE interrupts_answered
    /\ pending_answer' = FALSE

EagerCall ==
    /\ HostCall /\ host_calls' <= Budget /\ ~ defer
    /\ MayAct(Tool) /\ Act(Tool, Site(vm))
    /\ AnswerConsumed
    /\ vm' = IF Tool \in Failing THEN Throw(vm) ELSE ReturnValue(vm)
    /\ UNCHANGED <<phase, hostTools, record, outcome, store, faults, prog,
                   stdout, defer, deferred, executed_any, stdout_prefix,
                   results>>

\* The tool raises before it reaches interrupt(): no answer is taken
EagerCallFailsEarly ==
    /\ HostCall /\ host_calls' <= Budget /\ ~ defer
    /\ Fault("early")
    /\ AnswerConsumed
    /\ vm' = Throw(vm)
    /\ UNCHANGED <<phase, hostTools, record, outcome, store, prog, stdout,
                   ledgerVars, defer, deferred, executed_any, stdout_prefix,
                   results, history>>

\* The paused VM and the pass's accumulators, this call not counted
PausedRecord ==
    [vm |-> vm, stdout |-> stdout_prefix \o stdout,
     host_calls |-> host_calls' - 1,
     interrupts_answered |-> interrupts_answered]

EagerInterrupt ==
    /\ HostCall /\ host_calls' <= Budget /\ ~ defer
    /\ ~ MayAct(Tool)
    /\ asked' = Site(vm)
    /\ persist_hitl_record(PausedRecord)
    /\ phase' = "raised"
    /\ UNCHANGED <<hostTools, record, outcome, sandboxVars, answers, counter,
                   defer, deferred, executed_any, stdout_prefix,
                   interrupts_answered, pending_answer, results, history>>

----------------------------------------------------------------------------
(***************************************************************************)
(* A FutureSnapshot: the sync driver runs the batch one call at a time, in *)
(* the order of the call ids, and resumes with all the results.            *)
(***************************************************************************)
Batch == InPass /\ vm.at = "await"

\* s is the next call of the batch
NextPending(s) ==
    /\ s \in vm.pending \ settled
    /\ \A t \in vm.pending \ settled : t = s \/ Earlier(s, t)

ToolAt(s) == prog[s[1]].tool

\* What the tool of a call comes to
CameTo(s) == [of |-> s, raised |-> ToolAt(s) \in Failing]

\* An id the driver never deferred gets a RuntimeError as its result
BatchCall ==
    /\ Batch
    /\ \E s \in vm.pending :
          /\ NextPending(s)
          /\ s \in deferred => MayAct(ToolAt(s))
          /\ deferred' = deferred \ {s}
          /\ executed_any' = (executed_any \/ s \in deferred)
          /\ results' = [t \in settled \cup {s} |->
                            IF t # s THEN results[t]
                            ELSE IF s \in deferred THEN CameTo(s)
                            ELSE NoHostCall]
          /\ IF s \in deferred THEN Act(ToolAt(s), s)
                               ELSE UNCHANGED <<ledgerVars, history>>
    /\ UNCHANGED <<phase, hostTools, record, outcome, store, faults,
                   sandboxVars, defer, host_calls, stdout_prefix,
                   interrupts_answered, pending_answer>>

\* The GraphInterrupt leaves the pass; nothing is persisted for a batch
BatchInterrupt ==
    /\ Batch
    /\ \E s \in vm.pending :
          /\ NextPending(s)
          /\ s \in deferred /\ ~ MayAct(ToolAt(s))
          /\ asked' = s
          /\ deferred' = deferred \ {s}
    /\ executed_any' = TRUE
    /\ phase' = "raised"
    /\ UNCHANGED <<hostTools, record, outcome, store, faults, sandboxVars,
                   answers, counter, defer, host_calls, stdout_prefix,
                   interrupts_answered, pending_answer, results, history>>

ResumeBatch ==
    /\ Batch /\ vm.pending \subseteq settled
    /\ vm' = ResolveFutures(vm, results)
    /\ results' = NoResults
    /\ UNCHANGED <<phase, hostTools, record, outcome, store, faults, prog,
                   stdout, ledgerVars, defer, deferred, executed_any,
                   host_calls, stdout_prefix, interrupts_answered,
                   pending_answer, history>>

----------------------------------------------------------------------------
(***************************************************************************)
(* The end of a pass                                                       *)
(***************************************************************************)
RestartEagerly ==
    /\ phase' = "begin" /\ defer' = FALSE
    /\ UNCHANGED <<hostTools, record, outcome, store, faults, sandboxVars,
                   ledgerVars, deferred, executed_any, host_calls,
                   stdout_prefix, interrupts_answered, pending_answer,
                   results, history>>

\* A MontyError may be a symptom of deferral, if no host tool ran
SymptomOfDeferral == defer /\ deferred # {} /\ ~ executed_any

RetryAfterError ==
    /\ InPass /\ vm.at = "error" /\ SymptomOfDeferral
    /\ RestartEagerly

ReportError ==
    /\ InPass /\ vm.at = "error" /\ ~ SymptomOfDeferral
    /\ Return(ErrorResult("MontyError"))
    /\ UNCHANGED <<hostTools, record, store, faults, sandboxVars, ledgerVars,
                   passVars, history>>

\* _finish_pass
RetryUnawaited ==
    /\ InPass /\ vm.at = "complete" /\ deferred # {} /\ ~ executed_any
    /\ RestartEagerly

FinishPass ==
    /\ InPass /\ vm.at = "complete"
    /\ \/ /\ deferred # {} /\ executed_any
          /\ Return(ErrorResult("UnawaitedHostCallError"))
       \/ /\ deferred = {}
          /\ Return([error |-> "none", stdout |-> stdout_prefix \o stdout])
    /\ UNCHANGED <<hostTools, record, store, faults, sandboxVars, ledgerVars,
                   passVars, history>>

DeleteRecord ==
    /\ phase = "delete"
    /\ delete_hitl_record
    /\ phase' = "returned"
    /\ UNCHANGED <<hostTools, record, outcome, sandboxVars, ledgerVars,
                   passVars, history>>

----------------------------------------------------------------------------
(***************************************************************************)
(* LangGraph and the human (external)                                      *)
(***************************************************************************)
Environment ==
    UNCHANGED <<hostTools, record, store, sandboxVars, counter, passVars,
                history>>

Commit ==
    /\ phase = "returned" /\ phase' = "committed"
    /\ Environment /\ UNCHANGED <<outcome, faults, answers, asked>>

Pause ==
    /\ phase = "raised" /\ phase' = "paused"
    /\ Environment /\ UNCHANGED <<outcome, faults, answers, asked>>

HumanAnswers ==
    /\ phase = "paused" /\ phase' = "start"
    /\ answers' = Append(answers, asked) /\ asked' = NoQuestion
    /\ Environment /\ UNCHANGED <<outcome, faults>>

\* The process dies before the leg's end is checkpointed
Crash ==
    /\ \/ phase \notin {"start", "paused", "returned", "committed"}
          /\ Fault("crash")
       \/ phase = "returned" /\ Fault("late_crash")
    /\ phase' = "start"
    /\ asked' = NoQuestion /\ outcome' = Unfinished
    /\ Environment /\ UNCHANGED answers

Finished == phase = "committed" /\ UNCHANGED vars

----------------------------------------------------------------------------
Enter == StartLeg \/ LoadRecord \/ OpenPool \/ FeedStart \/ LoadSnapshot
            \/ BurnRaises

EntryFails == PoolFails \/ CheckoutFails \/ LoadFails

Dispatch ==
    \/ LookUpName \/ ServiceOs
    \/ RejectCall \/ OverBudget \/ DeferCall \/ EagerCall \/ EagerInterrupt
    \/ BatchCall \/ BatchInterrupt \/ ResumeBatch

EndPass == RetryAfterError \/ ReportError \/ RetryUnawaited \/ FinishPass

\* What runs by itself once LangGraph starts a leg
Leg == Enter \/ Sandbox \/ Dispatch \/ EndPass \/ DeleteRecord
          \/ Commit \/ Pause

Next == Leg \/ EntryFails \/ LimitExceeded \/ EagerCallFailsEarly
           \/ HumanAnswers \/ Crash \/ Finished

Spec == Init /\ [][Next]_vars

\* A leg keeps going; nobody owes an answer, and no fault has to strike
FairSpec == Spec /\ WF_vars(Leg)
=============================================================================
