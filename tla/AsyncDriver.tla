----------------------------- MODULE AsyncDriver ----------------------------
(***************************************************************************)
(* One eval_python call whose legs LangGraph runs through either entry     *)
(* point: run_sync (invoke) or run_async (ainvoke).  The two drivers share *)
(* every step except what they do with a FutureSnapshot: run_async makes   *)
(* one task of each deferred call, lets them run concurrently under        *)
(* asyncio.gather, and hands all the results over when the last has ended. *)
(* When a GraphInterrupt escapes from a task, gather re-raises it at once  *)
(* and does not cancel the others: they outlive the leg as strays.         *)
(***************************************************************************)
EXTENDS DriverProperties, SequencesExt, FiniteSetsExt

VARIABLES
    driver,    \* the entry point of this leg
    waiting,   \* tasks of the batch that have not asked or acted yet
    granted,   \* those whose interrupt() has returned, and that have not acted
    finished,  \* what the others returned, in the order in which they ended
    strays,    \* calls whose task was still running when its gather raised
    crowded    \* history: a gather has held more than one gated call

taskVars  == <<waiting, granted, finished>>
asyncVars == <<driver, taskVars, strays, crowded, vars>>

Drivers == {"sync", "async"}

NoTasks == waiting = {} /\ granted = {} /\ finished = <<>>

ClearTasks == waiting' = {} /\ granted' = {} /\ finished' = <<>>

----------------------------------------------------------------------------
(***************************************************************************)
(* Mistakes one could make in the async driver, see MontyDriver.           *)
(***************************************************************************)

\* results are paired with the ids in the order in which the tasks ended
OverwrittenByPosition ==
    LET place(s) == Cardinality({t \in vm.pending : Earlier(t, s)}) + 1
    IN  [s \in settled |->
            IF place(s) > Len(finished) THEN results[s]
                                        ELSE finished[place(s)].payload]

\* the first result will do; the calls stay in the dictionary; the driver does
\* not notice that tasks ran; every listed id gets a task
AnyTaskEnded == waiting \cup granted = {} \/ finished # <<>>
PopNothing == UNCHANGED deferred
NotNoticed == UNCHANGED executed_any
PopTwice == vm.pending \cup deferred

\* an exception of a task is not made a result: it escapes from the gather
RunDeferredUncaught(s) ==
    IF ToolAt(s) \in Failing
    THEN /\ strays' = strays \cup ((waiting \cup granted) \ {s})
         /\ ClearTasks
         /\ Return(ErrorResult("HostError"))
    ELSE /\ waiting' = waiting \ {s} /\ granted' = granted \ {s}
         /\ finished' = Append(finished, [call |-> s, payload |-> CameTo(s)])
         /\ UNCHANGED <<strays, phase, outcome>>

----------------------------------------------------------------------------
AsyncInit ==
    /\ Init
    /\ driver = "sync"
    /\ NoTasks /\ strays = {} /\ crowded = FALSE

\* LangGraph is called with invoke or with ainvoke, for each leg anew
ChooseDriver ==
    /\ StartLeg /\ driver' \in Drivers
    /\ UNCHANGED <<taskVars, strays, crowded>>

(***************************************************************************)
(* What the async driver does exactly as the sync one.                     *)
(***************************************************************************)
RunAsync == LoadRecord \/ OpenPool \/ DeleteRecord

PassAsync ==
    \/ FeedStart \/ LoadSnapshot \/ BurnRaises
    \/ Sandbox \/ LookUpName \/ ServiceOs
    \/ RejectCall \/ OverBudget \/ DeferCall \/ EagerCall \/ EagerInterrupt

\* _finish_pass, the except MontyError and _drive_async
EndPassAsync == EndPass

SyncBatch == driver = "sync" /\ (BatchCall \/ BatchInterrupt \/ ResumeBatch)

InEitherDriver ==
    /\ RunAsync \/ PassAsync \/ EndPassAsync \/ SyncBatch \/ Commit \/ Pause
    /\ UNCHANGED <<driver, taskVars, strays, crowded>>

----------------------------------------------------------------------------
(***************************************************************************)
(* An AsyncFutureSnapshot                                                  *)
(***************************************************************************)
AsyncBatch == Batch /\ driver = "async"

\* The calls that get a task, and what is left in the dictionary
Popped == vm.pending \cap deferred
PopAll == deferred' = deferred \ vm.pending
Noticed == executed_any' = (executed_any \/ Popped # {})

\* Every id has a result from the start: an error, which its task overwrites
StartTasks ==
    /\ AsyncBatch /\ settled = {}
    /\ waiting' = Popped /\ PopAll /\ Noticed
    /\ results' = [s \in vm.pending |-> NoHostCall]
    /\ crowded' = (crowded \/ Cardinality({s \in Popped : ToolAt(s) \in Gated}) > 1)
    /\ UNCHANGED <<phase, hostTools, record, outcome, store, faults,
                   sandboxVars, ledgerVars, defer, host_calls, stdout_prefix,
                   interrupts_answered, pending_answer, history, driver,
                   granted, finished, strays>>

\* A task that got as far as its interrupt() takes the next answer there is,
\* whoever it was meant for
TaskAsks(s) ==
    /\ AsyncBatch /\ s \in waiting
    /\ ToolAt(s) \in Gated /\ Answered
    /\ waiting' = waiting \ {s} /\ granted' = granted \cup {s}
    /\ counter' = counter + 1
    /\ deliveries' = deliveries \cup {<<s, NextAnswer>>}
    /\ UNCHANGED <<phase, hostTools, record, outcome, store, faults,
                   sandboxVars, answers, asked, passVars, ran, legRan,
                   driver, finished, strays, crowded>>

\* _run_deferred: the result, or the exception as a result, goes with its id
RunDeferred(s) ==
    /\ waiting' = waiting \ {s} /\ granted' = granted \ {s}
    /\ finished' = Append(finished, [call |-> s, payload |-> CameTo(s)])
    /\ UNCHANGED <<strays, phase, outcome>>

TaskActs(s) ==
    /\ AsyncBatch
    /\ s \in granted \/ (s \in waiting /\ ToolAt(s) \notin Gated)
    /\ ran' = Append(ran, s) /\ legRan' = legRan \cup {s}
    /\ RunDeferred(s)
    /\ UNCHANGED <<hostTools, record, store, faults, sandboxVars, ledgerVars,
                   passVars, deliveries, driver, crowded>>

\* gather raises the first GraphInterrupt.  Of the other tasks, those that
\* have yet to ask will find no answer either, and nobody looks at them; the
\* rest run on.
GatherRaises(s) ==
    /\ AsyncBatch /\ s \in waiting
    /\ ToolAt(s) \in Gated /\ ~ Answered
    /\ asked' = s /\ phase' = "raised"
    /\ strays' = strays \cup granted \cup {t \in waiting : ToolAt(t) \notin Gated}
    /\ ClearTasks
    /\ UNCHANGED <<hostTools, record, outcome, store, faults, sandboxVars,
                   answers, counter, passVars, history, driver, crowded>>

AllTasksEnded == waiting \cup granted = {}

\* What a task returned goes over the pre-filled error under the id it carries
Overwritten ==
    [s \in settled |->
        IF \E f \in ToSet(finished) : f.call = s
        THEN (CHOOSE f \in ToSet(finished) : f.call = s).payload
        ELSE results[s]]

GatherReturns ==
    /\ AsyncBatch /\ settled # {} /\ AllTasksEnded
    /\ vm' = ResolveFutures(vm, Overwritten)
    /\ results' = NoResults /\ ClearTasks
    /\ UNCHANGED <<phase, hostTools, record, outcome, store, faults, prog,
                   stdout, ledgerVars, defer, deferred, executed_any,
                   host_calls, stdout_prefix, interrupts_answered,
                   pending_answer, history, driver, strays, crowded>>

TaskStep ==
    \/ StartTasks \/ GatherReturns
    \/ \E s \in vm.pending : TaskAsks(s) \/ TaskActs(s) \/ GatherRaises(s)

----------------------------------------------------------------------------
\* A stray does its work, or is cancelled with its event loop; no leg sees it
StrayEnds ==
    /\ \E s \in strays : strays' = strays \ {s}
    /\ UNCHANGED <<driver, taskVars, crowded, vars>>

\* The process dies with all its tasks, running or stray
CrashAll ==
    /\ Crash /\ ClearTasks /\ strays' = {}
    /\ UNCHANGED <<driver, crowded>>

FromOutside ==
    /\ EntryFails \/ LimitExceeded \/ EagerCallFailsEarly \/ HumanAnswers
          \/ Finished
    /\ UNCHANGED <<driver, taskVars, strays, crowded>>

AsyncLeg == ChooseDriver \/ InEitherDriver \/ TaskStep

AsyncNext == AsyncLeg \/ StrayEnds \/ CrashAll \/ FromOutside

AsyncSpec == AsyncInit /\ [][AsyncNext]_asyncVars

\* The event loop runs every task that can go on, and host tools return
FairAsyncSpec == AsyncSpec /\ WF_asyncVars(AsyncLeg)
=============================================================================
