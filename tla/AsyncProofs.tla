----------------------------- MODULE AsyncProofs ----------------------------
(***************************************************************************)
(* What holds of a call whose legs are run by either driver, with every    *)
(* interleaving of the tasks of a batch: for all snippets, tools, budgets  *)
(* and faults.  The steps that the drivers share keep what                 *)
(* MontyDriverProofs shows of them.                                        *)
(***************************************************************************)
EXTENDS AsyncInvariants, MontyDriverProofs, FiniteSetTheorems

USE DEF sandboxVars, ledgerVars, passVars, history, vars, settled, NoResults

(***************************************************************************)
(* The steps                                                               *)
(***************************************************************************)
Shared == ChooseDriver \/ InEitherDriver \/ FromOutside \/ CrashAll \/ StrayEnds

\* What both drivers do is a step of MontyDriver.
LEMMA SharedSteps == Shared => [Next]_vars
<1>1. ChooseDriver => Next
  BY DEF ChooseDriver, Next, Leg, Enter
<1>2. InEitherDriver => Next
  BY DEF InEitherDriver, RunAsync, PassAsync, EndPassAsync, SyncBatch, Next,
         Leg, Enter, Dispatch
<1>3. FromOutside => Next
  BY DEF FromOutside, Next
<1>4. CrashAll => Next
  BY DEF CrashAll, Next
<1>5. StrayEnds => UNCHANGED vars
  BY DEF StrayEnds
<1>6. QED
  BY <1>1, <1>2, <1>3, <1>4, <1>5 DEF Shared

LEMMA StepKinds ==
    ASSUME [AsyncNext]_asyncVars
    PROVE  \/ Shared
           \/ StartTasks
           \/ \E s \in vm.pending : TaskAsks(s)
           \/ \E s \in vm.pending : TaskActs(s)
           \/ \E s \in vm.pending : GatherRaises(s)
           \/ GatherReturns
           \/ UNCHANGED asyncVars
BY DEF AsyncNext, AsyncLeg, TaskStep, Shared

----------------------------------------------------------------------------
(***************************************************************************)
(* Types, futures and calls                                                *)
(***************************************************************************)
\* What goes over the pre-filled errors are payloads.
LEMMA OverwrittenTyped ==
    ASSUME TypeOK, ReturnsTyped, vm.pending \subseteq settled
    PROVE  \A s \in vm.pending : Overwritten[s] \in Payloads
<1> SUFFICES ASSUME NEW s \in vm.pending PROVE Overwritten[s] \in Payloads
  OBVIOUS
<1>1. s \in settled /\ results[s] \in Payloads
  BY PayloadsTyped
<1>2. \A f \in ToSet(finished) : f.payload \in Payloads
  <2> DEFINE S == [call : Sites, payload : Payloads]
  <2>1. finished \in Seq(S)
    BY DEF ReturnsTyped
  <2>2. \A f \in S : f.payload \in Payloads
    OBVIOUS
  <2> HIDE DEF S
  <2>3. QED
    BY <2>1, <2>2 DEF ToSet
<1>3. CASE \E f \in ToSet(finished) : f.call = s
  <2> DEFINE f == CHOOSE f \in ToSet(finished) : f.call = s
  <2>1. f \in ToSet(finished)
    BY <1>3
  <2>2. Overwritten[s] = f.payload
    BY <1>1, <1>3 DEF Overwritten
  <2>3. QED
    BY <1>2, <2>1, <2>2
<1>4. CASE ~ \E f \in ToSet(finished) : f.call = s
  BY <1>1, <1>4 DEF Overwritten
<1>5. QED
  BY <1>3, <1>4

\* A batch whose tasks have all ended is settled as a whole.
LEMMA AllSettled ==
    ASSUME TasksInv, GatherReturns
    PROVE  /\ phase = "pass" /\ vm.at = "await" /\ driver = "async"
           /\ settled = vm.pending
BY DEF GatherReturns, AsyncBatch, Batch, InPass, TasksInv

LEMMA AsyncTypes ==
    TypeOK /\ TasksInv /\ ReturnsTyped /\ [AsyncNext]_asyncVars => TypeOK'
<1> SUFFICES ASSUME TypeOK, TasksInv, ReturnsTyped, [AsyncNext]_asyncVars
             PROVE  TypeOK'
  OBVIOUS
<1>1. vm \in VMs /\ vm.pending \subseteq Sites
  BY DEF TypeOK, VMs
<1>2. CASE Shared \/ UNCHANGED asyncVars
  BY <1>2, SharedSteps, TypeStep DEF asyncVars
<1>3. CASE StartTasks
  <2>1. executed_any' \in BOOLEAN
    BY <1>3, Zenon DEF StartTasks, Noticed
  <2>2. settled' \subseteq Sites /\ results' \in [settled' -> Payloads]
    BY <1>1, <1>3 DEF StartTasks, NoHostCall, Payloads, Sites
  <2>3. QED
    BY <1>1, <1>3, <2>1, <2>2 DEF StartTasks, PopAll, TypeOK
<1>4. ASSUME NEW s \in vm.pending, TaskAsks(s) PROVE TypeOK'
  <2>1. NextAnswer \in Sites
    BY <1>4 DEF TaskAsks, Answered, NextAnswer, TypeOK
  <2>2. QED
    BY <1>1, <1>4, <2>1 DEF TaskAsks, AsyncBatch, Batch, InPass, TypeOK
<1>5. ASSUME NEW s \in vm.pending, TaskActs(s) PROVE TypeOK'
  BY <1>1, <1>5 DEF TaskActs, RunDeferred, TypeOK
<1>6. ASSUME NEW s \in vm.pending, GatherRaises(s) PROVE TypeOK'
  BY <1>1, <1>6 DEF GatherRaises, TypeOK, Phases
<1>7. CASE GatherReturns
  <2>1. vm' \in VMs
    BY <1>1, <1>7, AllSettled, OverwrittenTyped, MachineOps DEF GatherReturns
  <2>2. QED
    BY <1>7, <2>1, NoneSettled DEF GatherReturns, TypeOK
<1>8. QED
  BY <1>2, <1>3, <1>4, <1>5, <1>6, <1>7, StepKinds

LEMMA AsyncFutures ==
    TypeOK /\ FuturesInv /\ TasksInv /\ ReturnsTyped /\ [AsyncNext]_asyncVars
        => FuturesInv'
<1> SUFFICES ASSUME TypeOK, FuturesInv, TasksInv, ReturnsTyped,
                    [AsyncNext]_asyncVars
             PROVE  FuturesInv'
  OBVIOUS
<1>1. vm \in VMs
  BY DEF TypeOK
<1>2. CASE Shared \/ UNCHANGED asyncVars
  BY <1>2, SharedSteps, FuturesStep DEF asyncVars
<1>3. CASE StartTasks
  BY <1>3 DEF StartTasks, AsyncBatch, Batch, InPass, PopAll, FuturesInv,
              Frozen, DeferredMirrorsFutures
<1>4. ASSUME NEW s \in vm.pending, TaskAsks(s) \/ TaskActs(s)
      PROVE  FuturesInv'
  BY <1>4 DEF TaskAsks, TaskActs, RunDeferred, FuturesInv, Frozen,
              DeferredMirrorsFutures
<1>5. ASSUME NEW s \in vm.pending, GatherRaises(s) PROVE FuturesInv'
  BY <1>5 DEF GatherRaises, FuturesInv, Frozen, DeferredMirrorsFutures
<1>6. CASE GatherReturns
  <2>1. /\ settled = vm.pending
        /\ \A s \in vm.pending : Overwritten[s] \in Payloads
    BY <1>6, AllSettled, OverwrittenTyped
  <2>2. QED
    BY <1>1, <1>6, <2>1, BatchAnswered
    DEF GatherReturns, AsyncBatch, Batch, InPass, FuturesInv, Frozen,
        DeferredMirrorsFutures
<1>7. QED
  BY <1>2, <1>3, <1>4, <1>5, <1>6, StepKinds

LEMMA AsyncCalls ==
    /\ TypeOK /\ FuturesInv /\ CallsInv /\ TasksInv /\ ReturnsTyped
    /\ [AsyncNext]_asyncVars
    => CallsInv'
<1> SUFFICES ASSUME TypeOK, FuturesInv, CallsInv, TasksInv, ReturnsTyped,
                    [AsyncNext]_asyncVars
             PROVE  CallsInv'
  OBVIOUS
<1>1. vm \in VMs /\ legRan \subseteq Sites /\ deferred \subseteq Sites
         /\ vm.pending \subseteq Sites
  BY DEF TypeOK, VMs
<1>2. CASE Shared \/ UNCHANGED asyncVars
  BY <1>2, SharedSteps, CallsStep DEF asyncVars
<1>3. CASE StartTasks
  BY <1>3 DEF StartTasks, AsyncBatch, Batch, InPass, PopAll, Noticed, CallsInv
<1>4. ASSUME NEW s \in vm.pending, TaskAsks(s) PROVE CallsInv'
  BY <1>4 DEF TaskAsks, AsyncBatch, Batch, InPass, CallsInv, Site
<1>5. ASSUME NEW s \in vm.pending, TaskActs(s) PROVE CallsInv'
  <2>1. /\ s \in Unended /\ legRan' = legRan \cup {s}
        /\ UNCHANGED <<phase, vm, defer, deferred, executed_any>>
    BY <1>5 DEF TaskActs, RunDeferred, Unended
  <2>2. QED
    BY <1>5, <2>1, SMTT(30)
    DEF TaskActs, AsyncBatch, Batch, InPass, TasksInv, CallsInv, Site
<1>6. ASSUME NEW s \in vm.pending, GatherRaises(s) PROVE CallsInv'
  BY <1>6 DEF GatherRaises, CallsInv
<1>7. CASE GatherReturns
  <2>1. MovesOn(vm, vm')
    BY <1>1, <1>7, AllSettled, OverwrittenTyped, ResumeMovesOn
    DEF GatherReturns
  <2>2. QED
    BY <1>1, <1>7, <2>1 DEF GatherReturns, AsyncBatch, Batch, InPass, MovesOn,
                            CallsInv
<1>8. QED
  BY <1>2, <1>3, <1>4, <1>5, <1>6, <1>7, StepKinds

----------------------------------------------------------------------------
(***************************************************************************)
(* Tasks                                                                   *)
(***************************************************************************)
\* While the sandbox waits for futures, only its batch goes on.
LEMMA OnlyTheBatch ==
    ASSUME phase = "pass", vm.at = "await",
           ChooseDriver \/ InEitherDriver \/ FromOutside
    PROVE  SyncBatch /\ driver' = driver
<1>1. ~ ChooseDriver
  BY DEF ChooseDriver, StartLeg
<1>2. InEitherDriver => SyncBatch
  <2>1. ~ (RunAsync \/ Commit \/ Pause)
    BY DEF RunAsync, LoadRecord, OpenPool, DeleteRecord, Commit, Pause
  <2>2. ~ PassAsync
    BY DEF PassAsync, FeedStart, LoadSnapshot, BurnRaises, Sandbox, VmStep,
           VmPrint, VmRaise, VmSuspend, VmAwait, VmComplete, Running,
           LookUpName, ServiceOs, RejectCall, OverBudget, DeferCall, EagerCall,
           EagerInterrupt, HostCall
  <2>3. ~ EndPassAsync
    BY DEF EndPassAsync, EndPass, RetryAfterError, ReportError, RetryUnawaited,
           FinishPass
  <2>4. QED
    BY <2>1, <2>2, <2>3 DEF InEitherDriver
<1>3. ~ FromOutside
  BY DEF FromOutside, EntryFails, PoolFails, CheckoutFails, LoadFails,
         LimitExceeded, EagerCallFailsEarly, HostCall, HumanAnswers, Finished
<1>4. QED
  BY <1>1, <1>2, <1>3 DEF InEitherDriver

LEMMA NothingElseGoesOn ==
    ASSUME AsyncBatchOpen
    PROVE  ~ (ChooseDriver \/ InEitherDriver \/ FromOutside)
BY OnlyTheBatch DEF AsyncBatchOpen, SyncBatch

\* A pass that goes on without a batch has settled nothing.
LEMMA NothingSettled ==
    ASSUME FuturesInv, ChooseDriver \/ InEitherDriver \/ FromOutside,
           phase' = "pass"
    PROVE  /\ prog' = prog
           /\ \/ results' = NoResults
              \/ /\ settled = {} /\ results' = results
                 /\ phase = "pass" /\ driver' = driver
              \/ SyncBatch /\ BatchCall
<1>0. phase = "pass" /\ vm.at # "await" => settled = {}
  BY DEF FuturesInv, DeferredMirrorsFutures
<1>1. CASE ChooseDriver
  BY <1>1 DEF ChooseDriver, StartLeg
<1>2. CASE FromOutside
  BY <1>0, <1>2 DEF FromOutside, EntryFails, PoolFails, CheckoutFails,
      LoadFails, LimitExceeded, EagerCallFailsEarly, HostCall, InPass,
      HumanAnswers, Finished, Return, AfterResult
<1>3. CASE InEitherDriver
  <2>1. CASE RunAsync \/ Commit \/ Pause \/ EndPassAsync
    BY <2>1 DEF RunAsync, LoadRecord, OpenPool, DeleteRecord, Commit, Pause,
        EndPassAsync, EndPass, RetryAfterError, ReportError, RetryUnawaited,
        FinishPass, RestartEagerly, Return, AfterResult
  <2>2. CASE SyncBatch
    BY <2>2 DEF SyncBatch, BatchCall, BatchInterrupt, ResumeBatch
  <2>3. CASE PassAsync
    BY <1>0, <1>3, <2>3 DEF InEitherDriver, PassAsync, FeedStart, LoadSnapshot,
        FreshPass, BurnRaises, Sandbox, VmStep, VmPrint, VmRaise, VmSuspend,
        VmAwait, VmComplete, Running, LookUpName, ServiceOs, RejectCall,
        OverBudget, DeferCall, EagerCall, EagerInterrupt, HostCall, InPass,
        Return, AfterResult
  <2>4. QED
    BY <1>3, <2>1, <2>2, <2>3 DEF InEitherDriver
<1>4. QED
  BY <1>1, <1>2, <1>3

LEMMA ReturnsInit == AsyncInit => ReturnsTyped
BY DEF AsyncInit, NoTasks, ReturnsTyped

LEMMA CameToTyped == ASSUME NEW s \in Sites PROVE CameTo(s) \in Payloads
BY DEF CameTo, Payloads

LEMMA ReturnsStep ==
    TypeOK /\ ReturnsTyped /\ [AsyncNext]_asyncVars => ReturnsTyped'
<1> SUFFICES ASSUME TypeOK, ReturnsTyped, [AsyncNext]_asyncVars
             PROVE  ReturnsTyped'
  OBVIOUS
<1>1. CASE finished' = finished \/ finished' = <<>>
  <2>1. CASE finished' = finished
    BY <2>1, Zenon DEF ReturnsTyped
  <2>2. CASE finished' = <<>>
    BY <2>2 DEF ReturnsTyped
  <2>3. QED
    BY <1>1, <2>1, <2>2
<1>2. ASSUME NEW s \in vm.pending, TaskActs(s) PROVE ReturnsTyped'
  <2> DEFINE e == [call |-> s, payload |-> CameTo(s)]
  <2>1. e \in [call : Sites, payload : Payloads]
    BY CameToTyped DEF TypeOK, VMs
  <2>2. finished' = Append(finished, e)
    BY <1>2 DEF TaskActs, RunDeferred
  <2>3. QED
    BY <2>1, <2>2 DEF ReturnsTyped
<1>3. QED
  BY <1>1, <1>2, StepKinds
  DEF Shared, ChooseDriver, InEitherDriver, FromOutside, CrashAll, ClearTasks,
      StrayEnds, StartTasks, TaskAsks, GatherRaises, GatherReturns, taskVars,
      asyncVars

LEMMA TasksInit == AsyncInit => TasksInv
BY DEF AsyncInit, NoTasks, Init, TasksInv, Unended

LEMMA TasksStep ==
    TypeOK /\ FuturesInv /\ CallsInv /\ TasksInv /\ [AsyncNext]_asyncVars
        => TasksInv'
<1> SUFFICES ASSUME TypeOK, FuturesInv, CallsInv, TasksInv,
                    [AsyncNext]_asyncVars
             PROVE  TasksInv'
  OBVIOUS
<1> USE DEF TasksInv, Unended
<1>1. phase = "pass" => settled \subseteq vm.pending /\ vm.pending \subseteq Sites
  BY DEF FuturesInv, DeferredMirrorsFutures, TypeOK, VMs
<1>2. CASE UNCHANGED asyncVars \/ StrayEnds
  BY <1>2 DEF asyncVars, taskVars, StrayEnds, AsyncBatchOpen, Site
<1>3. CASE CrashAll
  BY <1>3 DEF CrashAll, ClearTasks, Crash
<1>4. CASE ChooseDriver \/ InEitherDriver \/ FromOutside
  <2>1. Unended = {} /\ Unended' = {}
    BY <1>4, NothingElseGoesOn
    DEF ChooseDriver, InEitherDriver, FromOutside, taskVars
  <2>2. CASE SyncBatch /\ BatchCall
    <3>1. PICK s \in vm.pending : BatchCall!2!(s)
      BY <2>2 DEF BatchCall
    <3>2. s \in deferred
      BY <2>2, <3>1 DEF BatchCall, Batch, InPass, NextPending, FuturesInv,
                        DeferredMirrorsFutures
    <3>3. settled' = settled \cup {s} /\ legRan' = legRan \cup {s}
      BY <3>1, <3>2 DEF Act
    <3>4. phase = "pass" /\ phase' = "pass" /\ driver = "sync" /\ driver' = driver
      BY <1>4, <2>2 DEF SyncBatch, BatchCall, Batch, InPass, ChooseDriver,
          StartLeg, InEitherDriver, FromOutside
    <3>5. QED
      BY <2>1, <3>3, <3>4
  <2>3. CASE phase' = "pass" => settled' = {}
    BY <2>1, <2>3
  <2>4. QED
    BY <1>4, <2>2, <2>3, NothingSettled
<1>5. CASE StartTasks
  <2>1. /\ AsyncBatchOpen /\ AsyncBatchOpen' /\ granted' = {}
        /\ waiting' = vm.pending \cap deferred
        /\ deferred' = deferred \ vm.pending /\ settled' = vm.pending
        /\ executed_any' = (executed_any \/ waiting' # {})
        /\ UNCHANGED <<phase, vm, driver, legRan>>
    BY <1>5 DEF StartTasks, AsyncBatch, Batch, InPass, Popped, PopAll, Noticed,
                AsyncBatchOpen
  <2>2. vm.pending \subseteq deferred
    BY <1>5, <2>1 DEF StartTasks, AsyncBatchOpen, FuturesInv,
                      DeferredMirrorsFutures
  <2>3. \A s \in deferred : s \notin legRan /\ Earlier(s, Site(vm))
    BY <2>1 DEF AsyncBatchOpen, CallsInv
  <2>4. Site(vm)' = Site(vm)
    BY <2>1 DEF Site
  <2>5. QED
    BY <2>1, <2>2, <2>3, <2>4
<1>6. ASSUME NEW s \in vm.pending, TaskAsks(s) PROVE TasksInv'
  <2>1. Unended' = Unended
    BY <1>6 DEF TaskAsks
  <2>2. QED
    BY <1>6, <2>1 DEF TaskAsks, AsyncBatch, Batch, InPass, AsyncBatchOpen, Site
<1>7. ASSUME NEW s \in vm.pending, TaskActs(s) PROVE TasksInv'
  <2>1. /\ s \in Unended /\ Unended' = Unended \ {s}
        /\ legRan' = legRan \cup {s}
    BY <1>7 DEF TaskActs, RunDeferred
  <2>2. QED
    BY <1>7, <2>1 DEF TaskActs, RunDeferred, AsyncBatch, Batch, InPass,
                      AsyncBatchOpen, Site
<1>8. ASSUME NEW s \in vm.pending, GatherRaises(s) PROVE TasksInv'
  BY <1>8 DEF GatherRaises, ClearTasks
<1>9. CASE GatherReturns
  BY <1>9 DEF GatherReturns, ClearTasks
<1>10. QED
  BY <1>2, <1>3, <1>4, <1>5, <1>6, <1>7, <1>8, <1>9, StepKinds DEF Shared

----------------------------------------------------------------------------
(***************************************************************************)
(* The theorems                                                            *)
(***************************************************************************)
AsyncInv == TypeOK /\ FuturesInv /\ CallsInv /\ TasksInv /\ ReturnsTyped

LEMMA AsyncInvariant == AsyncSpec => []AsyncInv
<1>1. AsyncInit => AsyncInv
  BY TypeInit, FuturesInit, CallsInit, TasksInit, ReturnsInit
  DEF AsyncInit, AsyncInv
<1>2. AsyncInv /\ [AsyncNext]_asyncVars => AsyncInv'
  BY AsyncTypes, AsyncFutures, AsyncCalls, TasksStep, ReturnsStep DEF AsyncInv
<1>3. QED
  BY <1>1, <1>2, PTL DEF AsyncSpec

\* Whichever driver runs each leg and however the tasks of a batch interleave,
\* the deferred dictionary is the sandbox's futures less those of the batch
\* in progress (_driver.py 338-355).
THEOREM FuturesMirroredInBoth == AsyncSpec => []DeferredMirrorsFutures
<1>1. AsyncInv => DeferredMirrorsFutures
  BY DEF AsyncInv, FuturesInv
<1>2. QED
  BY <1>1, AsyncInvariant, PTL

\* A call acts when the sandbox is at it, when the sync driver takes it from
\* its dictionary, or when its task does; each of them only once.
LEMMA ActsOnceInBoth ==
    AsyncInv /\ [AsyncNext]_asyncVars
        => [ran' # ran => ran'[Len(ran')] \notin legRan]_vars
<1> SUFFICES ASSUME AsyncInv, [AsyncNext]_asyncVars
             PROVE  [ran' # ran => ran'[Len(ran')] \notin legRan]_vars
  OBVIOUS
<1> USE DEF AsyncInv
<1>1. CASE Shared \/ UNCHANGED asyncVars
  BY <1>1, SharedSteps, ActsOnce DEF asyncVars
<1>2. CASE StartTasks \/ GatherReturns
  BY <1>2 DEF StartTasks, GatherReturns
<1>3. ASSUME NEW s \in vm.pending, TaskAsks(s) \/ GatherRaises(s)
      PROVE  ran' = ran
  BY <1>3 DEF TaskAsks, GatherRaises
<1>4. ASSUME NEW s \in vm.pending, TaskActs(s)
      PROVE  ran'[Len(ran')] \notin legRan
  <2>1. ran' = Append(ran, s) /\ s \notin legRan
    BY <1>4 DEF TaskActs, TasksInv, Unended
  <2>2. s \in Sites /\ ran \in Seq(Sites)
    BY <1>4 DEF TypeOK, VMs
  <2>3. QED
    BY <2>1, <2>2
<1>5. QED
  BY <1>1, <1>2, <1>3, <1>4, StepKinds

\* Neither the eager restart nor a gather, whatever its tasks do, runs the tool
\* of one host call twice in a leg (_driver.py 276-281 and 338-355).
THEOREM RestartIsSafeInBoth == AsyncSpec => OncePerLeg
BY AsyncInvariant, ActsOnceInBoth, PTL DEF AsyncSpec, OncePerLeg

----------------------------------------------------------------------------
\* A step that ends a leg with a result is none of a batch.
LEMMA StraysStep ==
    AsyncInv /\ [AsyncNext]_asyncVars
        => [ /\ strays' \subseteq strays \/ phase' = "raised"
             /\ phase' \in {"delete", "returned"} => waiting \cup granted = {}
           ]_asyncVars
<1> SUFFICES ASSUME AsyncInv, [AsyncNext]_asyncVars, ~ UNCHANGED asyncVars
             PROVE  /\ strays' \subseteq strays \/ phase' = "raised"
                    /\ phase' \in {"delete", "returned"}
                          => waiting \cup granted = {}
  OBVIOUS
<1> USE DEF AsyncInv
<1>0. ~ AsyncBatchOpen => waiting \cup granted = {}
  BY DEF TasksInv, Unended
<1>1. CASE CrashAll
  BY <1>1 DEF CrashAll, Crash
<1>2. CASE StrayEnds
  <2>1. strays' \subseteq strays /\ phase' = phase
    BY <1>2 DEF StrayEnds
  <2>2. QED
    BY <1>0, <2>1 DEF AsyncBatchOpen
<1>3. CASE ChooseDriver \/ InEitherDriver \/ FromOutside
  <2>1. strays' = strays
    BY <1>3 DEF ChooseDriver, InEitherDriver, FromOutside
  <2>2. QED
    BY <1>0, <1>3, <2>1, NothingElseGoesOn
<1>4. CASE StartTasks \/ GatherReturns \/ \E s \in vm.pending : TaskAsks(s)
  BY <1>4 DEF StartTasks, GatherReturns, TaskAsks, AsyncBatch, Batch, InPass
<1>5. ASSUME NEW s \in vm.pending, TaskActs(s)
      PROVE  strays' = strays /\ phase' = "pass"
  BY <1>5 DEF TaskActs, RunDeferred, AsyncBatch, Batch, InPass
<1>6. ASSUME NEW s \in vm.pending, GatherRaises(s) PROVE phase' = "raised"
  BY <1>6 DEF GatherRaises
<1>7. QED
  BY <1>1, <1>2, <1>3, <1>4, <1>5, <1>6, StepKinds DEF Shared

\* A host tool is left running behind the driver's back only by a question, in
\* whichever leg: never by a result, an error, a limit or the death of the
\* process; and a leg that returns leaves no task (_driver.py 354, 481-499).
THEOREM OnlyQuestionsLeaveStrays == AsyncSpec => OnlyQuestionsStray
BY AsyncInvariant, StraysStep, PTL DEF AsyncSpec, OnlyQuestionsStray

----------------------------------------------------------------------------
(***************************************************************************)
(* What the sandbox is given for the calls of a batch: in either driver,   *)
(* and in whatever order the tasks end, each call gets what its own tool   *)
(* came to.                                                                *)
(***************************************************************************)
\* What one more task has come to is kept with the rest.
LEMMA OneMore ==
    ASSUME NEW S, NEW f \in Seq(S), NEW e \in S
    PROVE  /\ Append(f, e) \in Seq(S)
           /\ ToSet(Append(f, e)) = ToSet(f) \cup {e}
<1>1. /\ Append(f, e) \in Seq(S) /\ Len(Append(f, e)) = Len(f) + 1
      /\ Len(f) \in Nat /\ Append(f, e)[Len(f) + 1] = e
      /\ \A i \in 1..Len(f) : Append(f, e)[i] = f[i]
  OBVIOUS
<1>2. DOMAIN f = 1..Len(f) /\ DOMAIN Append(f, e) = 1..(Len(f) + 1)
  BY <1>1
<1>3. ToSet(Append(f, e)) \subseteq ToSet(f) \cup {e}
  BY <1>1, <1>2 DEF ToSet
<1>4. ToSet(f) \subseteq ToSet(Append(f, e)) /\ e \in ToSet(Append(f, e))
  BY <1>1, <1>2 DEF ToSet
<1>5. QED
  BY <1>1, <1>3, <1>4

LEMMA OutcomesInit == AsyncInit => OutcomesInv
BY DEF AsyncInit, NoTasks, Init, Drivers, OutcomesInv, AsyncBatchOpen

LEMMA OutcomesStep ==
    AsyncInv /\ OutcomesInv /\ [AsyncNext]_asyncVars => OutcomesInv'
<1> SUFFICES ASSUME AsyncInv, OutcomesInv, [AsyncNext]_asyncVars
             PROVE  OutcomesInv'
  OBVIOUS
<1> USE DEF AsyncInv, OutcomesInv
<1>0. prog' = prog => \A t : Outcome(t)' = Outcome(t) /\ CameTo(t)' = CameTo(t)
  BY DEF Outcome, CameTo, ToolAt
<1>1. CASE UNCHANGED asyncVars \/ StrayEnds
  BY <1>0, <1>1 DEF asyncVars, taskVars, StrayEnds, AsyncBatchOpen, Unended
<1>2. CASE CrashAll
  BY <1>2 DEF CrashAll, ClearTasks, Crash, AsyncBatchOpen
<1>3. CASE ChooseDriver \/ InEitherDriver \/ FromOutside
  <2>1. /\ ~ AsyncBatchOpen /\ finished' = finished /\ finished = <<>>
        /\ Unended' = Unended /\ driver' \in Drivers
    BY <1>3, NothingElseGoesOn
    DEF ChooseDriver, InEitherDriver, FromOutside, taskVars, Unended
  <2>2. CASE phase' # "pass"
    BY <2>1, <2>2 DEF AsyncBatchOpen
  <2>3. CASE SyncBatch /\ BatchCall
    <3>1. PICK s \in vm.pending : BatchCall!2!(s)
      BY <2>3 DEF BatchCall
    <3>2. /\ phase = "pass" /\ vm.at = "await" /\ prog' = prog
          /\ driver = "sync" /\ driver' = driver
      BY <1>3, <2>3, OnlyTheBatch DEF SyncBatch, BatchCall, Batch, InPass
    <3>3. s \in deferred /\ settled' = settled \cup {s}
      BY <3>1, <3>2 DEF NextPending, FuturesInv, DeferredMirrorsFutures
    <3>4. results' = [t \in settled \cup {s} |->
                         IF t # s THEN results[t] ELSE CameTo(s)]
      BY <3>1, <3>3
    <3>6. results = [t \in settled |-> CameTo(t)]
      BY <3>2
    <3>7. results' = [t \in settled' |-> CameTo(t)]
      BY <3>3, <3>4, <3>6
    <3>8. QED
      BY <1>0, <2>1, <3>2, <3>7 DEF AsyncBatchOpen
  <2>4. CASE phase' = "pass" /\ results' = NoResults
    BY <2>1, <2>4 DEF AsyncBatchOpen, ToSet
  <2>5. CASE /\ settled = {} /\ results' = results
             /\ phase = "pass" /\ phase' = "pass"
    BY <2>4, <2>5
  <2>6. QED
    BY <1>3, <2>2, <2>3, <2>4, <2>5, NothingSettled
<1>4. CASE StartTasks
  <2>1. /\ AsyncBatchOpen /\ AsyncBatchOpen' /\ driver' = driver
        /\ phase = "pass" /\ phase' = "pass" /\ driver = "async"
        /\ settled = {} /\ results' = [s \in vm.pending |-> NoHostCall]
        /\ waiting' = vm.pending \cap deferred /\ finished' = finished
    BY <1>4 DEF StartTasks, AsyncBatch, Batch, InPass, Popped, AsyncBatchOpen
  <2>2. settled' \subseteq Unended'
    BY <2>1 DEF AsyncBatchOpen, FuturesInv, DeferredMirrorsFutures, Unended
  <2>3. ToSet(finished) = {}
    BY <2>1
  <2>4. QED
    BY <2>1, <2>2, <2>3
<1>5. ASSUME NEW s \in vm.pending, TaskAsks(s) PROVE OutcomesInv'
  <2>1. Unended' = Unended
    BY <1>5 DEF TaskAsks, Unended
  <2>2. QED
    BY <1>0, <1>5, <2>1 DEF TaskAsks, AsyncBatch, Batch, InPass,
                            AsyncBatchOpen
<1>6. ASSUME NEW s \in vm.pending, TaskActs(s) PROVE OutcomesInv'
  <2>1. /\ AsyncBatchOpen /\ AsyncBatchOpen' /\ driver' = driver
        /\ phase = "pass" /\ driver = "async"
        /\ finished' = Append(finished, Outcome(s))
        /\ s \in Unended /\ Unended' = Unended \ {s}
        /\ UNCHANGED <<results, prog>>
    BY <1>6 DEF TaskActs, RunDeferred, AsyncBatch, Batch, InPass,
                AsyncBatchOpen, Unended, Outcome
  <2>2. s \in settled /\ Outcome(s) \in [call : Sites, payload : Payloads]
    <3>1. s \in settled /\ s \in Sites
      BY <1>6, <2>1 DEF TasksInv, TypeOK, VMs
    <3>2. QED
      BY <3>1, CameToTyped DEF Outcome
  <2>3. ToSet(finished') = ToSet(finished) \cup {Outcome(s)}
    <3> DEFINE S == [call : Sites, payload : Payloads]
    <3>1. finished \in Seq(S) /\ Outcome(s) \in S
      BY <2>2 DEF ReturnsTyped
    <3> HIDE DEF S
    <3>2. /\ Append(finished, Outcome(s)) \in Seq(S)
          /\ ToSet(Append(finished, Outcome(s)))
                = ToSet(finished) \cup {Outcome(s)}
      BY <3>1, OneMore
    <3>3. QED
      BY <2>1, <3>2 DEF S
  <2>4. \A t : Outcome(t)' = Outcome(t)
    BY <1>0, <2>1
  <2>5. ToSet(finished') = {Outcome(t) : t \in settled' \ Unended'}
    BY <2>1, <2>2, <2>3
  <2>6. QED
    BY <2>1, <2>3, <2>4, <2>5
<1>7. ASSUME NEW s \in vm.pending, GatherRaises(s) PROVE OutcomesInv'
  BY <1>7 DEF GatherRaises, ClearTasks, AsyncBatchOpen
<1>8. CASE GatherReturns
  <2>1. phase = "pass" /\ vm \in VMs
    BY <1>8 DEF GatherReturns, AsyncBatch, Batch, InPass, TypeOK
  <2>2. vm'.at # "await"
    BY <1>8, <2>1, AllSettled, OverwrittenTyped, BatchAnswered
    DEF GatherReturns
  <2>3. QED
    BY <1>8, <2>1, <2>2 DEF GatherReturns, ClearTasks, AsyncBatchOpen
<1>9. QED
  BY <1>1, <1>2, <1>3, <1>4, <1>5, <1>6, <1>7, <1>8, StepKinds DEF Shared

----------------------------------------------------------------------------
\* The dictionary that goes with a resume has what each tool came to.
Own == [s \in vm.pending |-> CameTo(s)]

LEMMA OverwrittenOwn ==
    ASSUME AsyncInv, OutcomesInv, GatherReturns PROVE Overwritten = Own
<1>1. AsyncBatchOpen /\ settled = vm.pending /\ Unended = {}
  BY AllSettled
  DEF AsyncInv, GatherReturns, AllTasksEnded, AsyncBatchOpen, Unended
<1>2. ToSet(finished) = {Outcome(s) : s \in vm.pending}
  BY <1>1 DEF OutcomesInv
<1>3. \A s \in vm.pending :
         /\ Outcome(s) \in ToSet(finished)
         /\ Outcome(s).call = s /\ Outcome(s).payload = CameTo(s)
  BY <1>2, Zenon DEF Outcome
<1>4. \A f \in ToSet(finished) : \E s \in vm.pending : f = Outcome(s)
  BY <1>2, Zenon
<1>5. ASSUME NEW s \in vm.pending PROVE Overwritten[s] = CameTo(s)
  <2> DEFINE f == CHOOSE f \in ToSet(finished) : f.call = s
  <2>1. f \in ToSet(finished) /\ f.call = s
    BY <1>3
  <2>2. f = Outcome(s)
    BY <1>3, <1>4, <2>1
  <2>3. Overwritten[s] = f.payload
    BY <1>1, <2>1 DEF Overwritten
  <2>4. QED
    BY <1>3, <2>2, <2>3
<1>6. QED
  BY <1>1, <1>5 DEF Overwritten, Own

\* Resuming a batch is the only step that moves a waiting sandbox.
LEMMA ResumedWithOwn ==
    ASSUME AsyncInv, OutcomesInv, [AsyncNext]_asyncVars,
           phase = "pass", vm.at = "await", vm' # vm
    PROVE  vm' = ResolveFutures(vm, Own)
<1> USE DEF AsyncInv, OutcomesInv
<1>1. settled \subseteq vm.pending
  BY DEF FuturesInv, DeferredMirrorsFutures
<1>2. CASE Shared
  <2>1. ~ CrashAll /\ ~ StrayEnds
    BY DEF CrashAll, Crash, Environment, StrayEnds
  <2>2. driver = "sync" /\ ResumeBatch
    BY <1>2, <2>1, OnlyTheBatch
    DEF Shared, SyncBatch, BatchCall, BatchInterrupt
  <2>3. results = [s \in settled |-> CameTo(s)] /\ settled = vm.pending
    BY <1>1, <2>2 DEF ResumeBatch
  <2>4. QED
    BY <2>2, <2>3 DEF ResumeBatch, Own
<1>3. CASE GatherReturns
  BY <1>3, OverwrittenOwn DEF GatherReturns
<1>4. CASE \/ StartTasks \/ UNCHANGED asyncVars
           \/ \E s \in vm.pending : TaskAsks(s) \/ TaskActs(s) \/ GatherRaises(s)
  BY <1>4 DEF StartTasks, TaskAsks, TaskActs, GatherRaises, asyncVars
<1>5. QED
  BY <1>2, <1>3, <1>4, StepKinds

LEMMA OwnResultsStep ==
    AsyncInv /\ OutcomesInv /\ [AsyncNext]_asyncVars
        => [ phase = "pass" /\ vm.at = "await" /\ vm' # vm =>
                /\ vm'.given = vm.given \cup {<<s, CameTo(s)>> : s \in vm.pending}
                /\ vm'.at = "error" => \E s \in vm.held : ToolAt(s) \in Failing
                /\ vm'.at # "error" =>
                      Code(vm).catch \/ \A s \in vm.held : ToolAt(s) \notin Failing
           ]_asyncVars
<1> SUFFICES ASSUME AsyncInv, OutcomesInv, [AsyncNext]_asyncVars,
                    phase = "pass", vm.at = "await", vm' # vm
    PROVE  /\ vm'.given = vm.given \cup {<<s, CameTo(s)>> : s \in vm.pending}
           /\ vm'.at = "error" => \E s \in vm.held : ToolAt(s) \in Failing
           /\ vm'.at # "error" =>
                 Code(vm).catch \/ \A s \in vm.held : ToolAt(s) \notin Failing
  OBVIOUS
<1> DEFINE w == Resolved(vm, Own)
<1>1. vm \in VMs /\ vm.pending \subseteq Sites /\ vm.held \subseteq vm.pending
  BY DEF AsyncInv, TypeOK, VMs, FuturesInv
<1>2. \A s \in vm.pending : Own[s] = CameTo(s) /\ CameTo(s) \in Payloads
  BY <1>1, CameToTyped DEF Own
<1>3. /\ w \in VMs /\ w.pc = vm.pc
      /\ w.given = vm.given \cup {<<s, CameTo(s)>> : s \in vm.pending}
  BY <1>1, <1>2, ResolvedTyped
<1>4. vm' = IF \E s \in vm.held : CameTo(s).raised THEN Throw(w) ELSE Advance(w)
  BY <1>1, <1>2, ResumedWithOwn DEF ResolveFutures, Resolved
<1>5. \A s \in vm.held : CameTo(s).raised <=> ToolAt(s) \in Failing
  BY DEF CameTo
<1> HIDE DEF w
<1>6. /\ Advance(w).given = w.given /\ Advance(w).at = "run"
      /\ Throw(w).given = w.given
      /\ Throw(w).at = IF Code(vm).catch THEN "run" ELSE "error"
  BY <1>3 DEF Advance, Throw, Code, VMs
<1>7. QED
  BY <1>3, <1>4, <1>5, <1>6

\* For every snippet, tool set and interleaving: an awaited call gives the code
\* what its own tool came to, an error exactly if that tool raised
\* (_driver.py 345-357).
THEOREM EachCallItsOwnResult == AsyncSpec => OwnResults
<1>1. AsyncSpec => []OutcomesInv
  BY AsyncInvariant, OutcomesInit, OutcomesStep, PTL DEF AsyncSpec
<1>2. QED
  BY <1>1, AsyncInvariant, OwnResultsStep, PTL DEF AsyncSpec, OwnResults

----------------------------------------------------------------------------
(***************************************************************************)
(* The tasks of a batch                                                    *)
(***************************************************************************)
\* What the tasks that ended have come to is known call by call.
LEMMA EndedCalls ==
    ASSUME OutcomesInv
    PROVE  FinishedCalls = IF AsyncBatchOpen THEN settled \ Unended ELSE {}
<1>1. CASE AsyncBatchOpen
  <2>1. ToSet(finished) = {Outcome(s) : s \in settled \ Unended}
    BY <1>1 DEF OutcomesInv
  <2>2. \A s : Outcome(s).call = s
    BY DEF Outcome
  <2>3. QED
    BY <1>1, <2>1, <2>2 DEF FinishedCalls
<1>2. CASE ~ AsyncBatchOpen
  <2>1. finished = <<>>
    BY <1>2 DEF OutcomesInv
  <2>2. ToSet(finished) = {}
    BY <2>1 DEF ToSet
  <2>3. QED
    BY <1>2, <2>2 DEF FinishedCalls
<1>3. QED
  BY <1>1, <1>2

\* Without a task that ended there is nothing to count.
LEMMA NoneEnded ==
    ASSUME finished = <<>>
    PROVE  IsFiniteSet(FinishedCalls) /\ Cardinality(FinishedCalls) = Len(finished)
<1>1. FinishedCalls = {} /\ Len(finished) = 0
  BY DEF FinishedCalls, ToSet
<1>2. QED
  BY <1>1, FS_EmptySet

LEMMA AccountsInit == AsyncInit => AccountsInv
<1> SUFFICES ASSUME AsyncInit PROVE AccountsInv
  OBVIOUS
<1>1. finished = <<>> /\ waiting = {} /\ strays = {}
  BY DEF AsyncInit, NoTasks
<1>2. crowded \in BOOLEAN
  BY Zenon DEF AsyncInit
<1>3. QED
  BY <1>1, <1>2, NoneEnded DEF AccountsInv

LEMMA AccountsStep ==
    AsyncInv /\ OutcomesInv /\ AccountsInv /\ [AsyncNext]_asyncVars
        => AccountsInv'
<1> SUFFICES ASSUME AsyncInv, OutcomesInv, AccountsInv, [AsyncNext]_asyncVars
             PROVE  AccountsInv'
  OBVIOUS
<1> USE DEF AccountsInv
<1>0. waiting \subseteq Sites /\ granted \subseteq Sites /\ vm.pending \subseteq Sites
  BY DEF AsyncInv, TasksInv, TypeOK, VMs, Unended
<1>1. CASE UNCHANGED asyncVars \/ ChooseDriver \/ InEitherDriver \/ FromOutside
  <2>1. UNCHANGED <<taskVars, strays, crowded>>
    BY <1>1 DEF asyncVars, ChooseDriver, InEitherDriver, FromOutside
  <2>2. crowded' \in BOOLEAN
    BY <2>1, Zenon
  <2>3. QED
    BY <2>1, <2>2 DEF taskVars, FinishedCalls
<1>2. CASE StrayEnds
  <2>1. UNCHANGED <<taskVars, crowded>> /\ strays' \subseteq strays
    BY <1>2 DEF StrayEnds
  <2>2. crowded' \in BOOLEAN
    BY <2>1, Zenon
  <2>3. QED
    BY <2>1, <2>2 DEF taskVars, FinishedCalls
<1>3. CASE CrashAll \/ GatherReturns \/ \E s \in vm.pending : GatherRaises(s)
  <2>1. finished' = <<>> /\ waiting' = {} /\ crowded' = crowded
    BY <1>3 DEF CrashAll, GatherReturns, GatherRaises, ClearTasks
  <2>2. crowded' \in BOOLEAN
    BY <2>1, Zenon
  <2>3. strays' \subseteq strays \cup granted \cup waiting
    BY <1>3 DEF CrashAll, GatherReturns, GatherRaises
  <2>4. (IsFiniteSet(FinishedCalls) /\ Cardinality(FinishedCalls) = Len(finished))'
    <3>1. FinishedCalls' = {} /\ Len(finished') = 0
      BY <2>1 DEF FinishedCalls, ToSet
    <3>2. QED
      BY <3>1, FS_EmptySet
  <2>5. QED
    BY <1>0, <2>1, <2>2, <2>3, <2>4
<1>4. CASE StartTasks
  <2>1. crowded' \in BOOLEAN
    BY <1>4, Zenon DEF StartTasks
  <2>2. granted = {}
    <3>1. AsyncBatchOpen /\ settled = {}
      BY <1>4 DEF StartTasks, AsyncBatch, Batch, InPass, AsyncBatchOpen
    <3>2. QED
      BY <3>1 DEF AsyncInv, TasksInv, Unended
  <2>3. QED
    BY <1>4, <2>1, <2>2 DEF StartTasks, FinishedCalls
<1>5. ASSUME NEW s \in vm.pending, TaskAsks(s) PROVE AccountsInv'
  <2>1. crowded' \in BOOLEAN
    BY <1>5, Zenon DEF TaskAsks
  <2>2. QED
    BY <1>5, <2>1 DEF TaskAsks, FinishedCalls
<1>6. ASSUME NEW s \in vm.pending, TaskActs(s) PROVE AccountsInv'
  <2>1. /\ AsyncBatchOpen /\ finished' = Append(finished, Outcome(s))
        /\ waiting' \subseteq waiting /\ granted' \subseteq granted
        /\ s \in Unended /\ UNCHANGED <<strays, crowded>>
    BY <1>6 DEF TaskActs, RunDeferred, AsyncBatch, Batch, InPass,
                AsyncBatchOpen, Unended, Outcome
  <2>2. crowded' \in BOOLEAN
    BY <2>1, Zenon
  <2>3. s \notin FinishedCalls
    BY <2>1, EndedCalls
  <2>4. FinishedCalls' = FinishedCalls \cup {s} /\ Len(finished') = Len(finished) + 1
    <3> DEFINE S == [call : Sites, payload : Payloads]
    <3>1. finished \in Seq(S) /\ Outcome(s) \in S
      <4>1. s \in Sites
        BY DEF AsyncInv, TypeOK, VMs
      <4>2. QED
        BY <4>1, CameToTyped DEF AsyncInv, ReturnsTyped, Outcome
    <3> HIDE DEF S
    <3>2. /\ ToSet(Append(finished, Outcome(s)))
                = ToSet(finished) \cup {Outcome(s)}
          /\ Len(Append(finished, Outcome(s))) = Len(finished) + 1
      BY <3>1, OneMore
    <3>3. Outcome(s).call = s
      BY DEF Outcome
    <3>4. QED
      BY <2>1, <3>2, <3>3 DEF FinishedCalls
  <2>5. IsFiniteSet(FinishedCalls') /\ Cardinality(FinishedCalls') = Len(finished')
    BY <2>3, <2>4, FS_AddElement
  <2>6. QED
    BY <2>1, <2>2, <2>5
<1>7. QED
  BY <1>1, <1>2, <1>3, <1>4, <1>5, <1>6, StepKinds DEF Shared

\* Whatever FutureSnapshot lists and however the tasks of a gather interleave,
\* each call of the batch is with one task or has ended, once
\* (_driver.py 338-355).
THEOREM EachCallOneTask == AsyncSpec => []BatchAccounted
<1>1. AsyncSpec => [](OutcomesInv /\ AccountsInv)
  BY AsyncInvariant, OutcomesInit, OutcomesStep, AccountsInit, AccountsStep, PTL
  DEF AsyncSpec
<1>2. AsyncInv /\ OutcomesInv /\ AccountsInv => BatchAccounted
  <2> SUFFICES ASSUME AsyncInv, OutcomesInv, AccountsInv PROVE BatchAccounted
    OBVIOUS
  <2>1. FinishedCalls = IF AsyncBatchOpen THEN settled \ Unended ELSE {}
    BY EndedCalls
  <2>2. Unended \subseteq settled
    BY DEF AsyncInv, TasksInv
  <2>3. finished \in Seq([call : Sites, payload : Payloads])
    BY DEF AsyncInv, ReturnsTyped
  <2>4. /\ driver \in Drivers /\ crowded \in BOOLEAN /\ strays \subseteq Sites
        /\ waiting \cap granted = {}
        /\ Cardinality(FinishedCalls) = Len(finished)
    BY Zenon DEF OutcomesInv, AccountsInv
  <2>5. /\ FinishedCalls \cap (waiting \cup granted) = {}
        /\ phase = "pass" /\ vm.at = "await" /\ driver = "async" =>
              waiting \cup granted \cup FinishedCalls = settled
    BY <2>1, <2>2 DEF Unended, AsyncBatchOpen
  <2>6. QED
    BY <2>3, <2>4, <2>5, Zenon DEF BatchAccounted
<1>3. QED
  BY <1>1, <1>2, AsyncInvariant, PTL

----------------------------------------------------------------------------
(***************************************************************************)
(* Both drivers implement FutureContract, however the tasks of a batch     *)
(* interleave: every step of AsyncDriver is a step of the contract or      *)
(* changes nothing in it.                                                  *)
(***************************************************************************)
OwedCalls  == IF phase = "pass" THEN vm.futures ELSE {}
ActedCalls == IF Working THEN legRan ELSE {}

ContractKept == [Futures!Next]_(Futures!vars)

(***************************************************************************)
(* The contract's actions, in the driver's terms                           *)
(***************************************************************************)
LEMMA ContractStutters ==
    UNCHANGED <<Working, OwedCalls, ActedCalls>> => ContractKept
BY DEF ContractKept, Futures!vars, OwedCalls, ActedCalls

LEMMA OutsidePass == ~ Working /\ ~ Working' => ContractKept
BY ContractStutters DEF Working, OwedCalls, ActedCalls

LEMMA PassEnds == Working /\ ~ Working' => ContractKept
BY DEF ContractKept, Futures!Next, Futures!End, Working

LEMMA CallPromised ==
    ASSUME Working, Working', ActedCalls' = ActedCalls,
           NEW s, s \notin OwedCalls \cup ActedCalls, OwedCalls' = OwedCalls \cup {s}
    PROVE  ContractKept
BY DEF ContractKept, Futures!Next, Futures!Promise, OwedCalls, ActedCalls

LEMMA CallRuns ==
    ASSUME Working, Working', OwedCalls' = OwedCalls,
           NEW s, s \notin ActedCalls, ActedCalls' = ActedCalls \cup {s}
    PROVE  ContractKept
BY DEF ContractKept, Futures!Next, Futures!Run, OwedCalls, ActedCalls

LEMMA ResultsDelivered ==
    ASSUME Working, Working', ActedCalls' = ActedCalls,
           OwedCalls' \subseteq OwedCalls, OwedCalls \ OwedCalls' \subseteq ActedCalls
    PROVE  ContractKept
BY DEF ContractKept, Futures!Next, Futures!Deliver, OwedCalls, ActedCalls

LEMMA PassStartsAgain ==
    ASSUME Working, Working', ActedCalls = {}, ActedCalls' = {}, OwedCalls' = {}
    PROVE  ContractKept
BY DEF ContractKept, Futures!Next, Futures!StartAgain, OwedCalls, ActedCalls

----------------------------------------------------------------------------
(***************************************************************************)
(* The driver's actions                                                    *)
(***************************************************************************)
\* What goes on within a pass, outside of batches
LEMMA PassKeepsContract ==
    ASSUME AsyncInv, AsyncInv', PassAsync, phase = "pass", phase' = "pass"
    PROVE  ContractKept
<1> USE DEF AsyncInv
<1>1. /\ vm.at # "await" /\ settled = {} /\ settled' = {}
      /\ OwedCalls = deferred /\ OwedCalls' = deferred'
      /\ Working /\ Working' /\ ActedCalls = legRan /\ ActedCalls' = legRan'
  <2>1. vm.at # "await" /\ settled' = settled
    BY DEF PassAsync, FeedStart, LoadSnapshot, BurnRaises, Sandbox, VmStep,
           VmPrint, VmRaise, VmSuspend, VmAwait, VmComplete, Running,
           LookUpName, ServiceOs, RejectCall, OverBudget, DeferCall, EagerCall,
           EagerInterrupt, HostCall
  <2>2. settled = {}
    BY <2>1 DEF FuturesInv, DeferredMirrorsFutures
  <2>3. deferred = vm.futures /\ deferred' = vm'.futures
    BY <2>1, <2>2 DEF FuturesInv, DeferredMirrorsFutures, TypeOK, VMs
  <2>4. QED
    BY <2>1, <2>2, <2>3 DEF OwedCalls, ActedCalls, Working
<1>2. CASE DeferCall
  <2>1. /\ deferred' = deferred \cup {Site(vm)} /\ legRan' = legRan
        /\ vm.at = "call"
    BY <1>2 DEF DeferCall, HostCall
  <2>2. Site(vm) \notin deferred \cup legRan
    <3>1. vm \in VMs /\ ~ Earlier(Site(vm), Site(vm))
      BY SMTT(30) DEF TypeOK, Earlier, Site, VMs
    <3>2. QED
      BY <2>1, <3>1 DEF CallsInv
  <2>3. QED
    BY <1>1, <2>1, <2>2, CallPromised
<1>3. CASE EagerCall
  <2>1. /\ deferred' = deferred /\ legRan' = legRan \cup {Site(vm)}
        /\ vm.at = "call"
    BY <1>3 DEF EagerCall, HostCall, Act
  <2>2. Site(vm) \notin legRan
    <3>1. vm \in VMs /\ ~ Earlier(Site(vm), Site(vm))
      BY SMTT(30) DEF TypeOK, Earlier, Site, VMs
    <3>2. QED
      BY <2>1, <3>1 DEF CallsInv
  <2>3. QED
    BY <1>1, <2>1, <2>2, CallRuns
<1>4. CASE ~ DeferCall /\ ~ EagerCall
  <2>1. deferred' = deferred /\ legRan' = legRan
    BY <1>4 DEF PassAsync, FeedStart, LoadSnapshot, BurnRaises, Sandbox,
           LookUpName, ServiceOs, RejectCall, OverBudget, EagerInterrupt
  <2>2. QED
    BY <1>1, <2>1, ContractStutters
<1>5. QED
  BY <1>2, <1>3, <1>4

\* The sync driver's batch: one call after the other, then all the results
LEMMA BatchKeepsContract ==
    ASSUME AsyncInv, SyncBatch
    PROVE  ContractKept
<1> USE DEF AsyncInv
<1>1. phase = "pass" /\ Working /\ OwedCalls = vm.futures /\ ActedCalls = legRan
  BY DEF SyncBatch, BatchCall, BatchInterrupt, ResumeBatch, Batch, InPass,
         Working, OwedCalls, ActedCalls
<1>2. CASE BatchCall
  <2>1. PICK s \in vm.pending : BatchCall!2!(s)
    BY <1>2 DEF BatchCall
  <2>2. s \in deferred
    BY <1>1, <2>1 DEF NextPending, FuturesInv, DeferredMirrorsFutures
  <2>3. legRan' = legRan \cup {s} /\ s \notin legRan
    BY <1>1, <2>1, <2>2 DEF Act, CallsInv
  <2>4. Working' /\ OwedCalls' = OwedCalls /\ ActedCalls' = legRan'
    BY <1>1, <1>2 DEF BatchCall, Working, OwedCalls, ActedCalls
  <2>5. QED
    BY <1>1, <2>3, <2>4, CallRuns
<1>3. CASE BatchInterrupt
  BY <1>1, <1>3, PassEnds DEF BatchInterrupt, Working
<1>4. CASE ResumeBatch
  <2>1. vm.pending \subseteq legRan
    BY <1>1, <1>4 DEF ResumeBatch, SyncBatch, TasksInv, AsyncBatchOpen
  <2>2. OwedCalls' = vm.futures \ vm.pending /\ Working' /\ ActedCalls' = ActedCalls
    BY <1>1, <1>4, BatchAnswered
    DEF ResumeBatch, TypeOK, OwedCalls, ActedCalls, Working
  <2>3. QED
    BY <1>1, <2>1, <2>2, ResultsDelivered
<1>5. QED
  BY <1>2, <1>3, <1>4 DEF SyncBatch

\* Starting again, when nothing has run
LEMMA EndKeepsContract ==
    ASSUME AsyncInv, EndPass
    PROVE  ContractKept
<1> USE DEF AsyncInv
<1>1. phase = "pass" /\ Working
  BY DEF EndPass, RetryAfterError, ReportError, RetryUnawaited, FinishPass,
         InPass, Working
<1>2. CASE RetryAfterError \/ RetryUnawaited
  <2>1. deferred # {} /\ ~ executed_any /\ phase' = "begin" /\ legRan' = legRan
    BY <1>2 DEF RetryAfterError, RetryUnawaited, RestartEagerly,
                SymptomOfDeferral
  <2>2. legRan = {}
    BY <1>1, <2>1 DEF CallsInv, FuturesInv, DeferredMirrorsFutures
  <2>3. QED
    BY <1>1, <2>1, <2>2, PassStartsAgain DEF Working, OwedCalls, ActedCalls
<1>3. CASE ReportError \/ FinishPass
  BY <1>1, <1>3, PassEnds DEF ReportError, FinishPass, Return, AfterResult, Working
<1>4. QED
  BY <1>2, <1>3 DEF EndPass

\* Entering a pass, and leaving it other than by its end
LEMMA EntryKeepsContract ==
    ASSUME AsyncInv, FeedStart \/ LoadSnapshot
    PROVE  ContractKept
<1>1. phase = "begin" /\ phase' = "pass" /\ legRan' = legRan
  BY DEF FeedStart, LoadSnapshot
<1>2. vm'.futures = {}
  BY DEF FeedStart, LoadSnapshot, FreshVM, AsyncInv, FuturesInv, Frozen
<1>3. QED
  BY <1>1, <1>2, ContractStutters DEF Working, OwedCalls, ActedCalls

LEMMA SharedKeepContract ==
    ASSUME AsyncInv, AsyncInv', Shared
    PROVE  ContractKept
<1>1. CASE StrayEnds
  BY <1>1, ContractStutters DEF StrayEnds, Working, OwedCalls, ActedCalls
<1>2. CASE CrashAll
  BY <1>2, PassEnds, OutsidePass DEF CrashAll, Crash, Working
<1>3. CASE ChooseDriver
  BY <1>3, OutsidePass DEF ChooseDriver, StartLeg, Working
<1>4. CASE RunAsync
  <2>1. CASE LoadRecord \/ DeleteRecord
    BY <2>1, OutsidePass DEF LoadRecord, DeleteRecord, Working
  <2>2. CASE OpenPool
    <3>1. /\ ~ Working /\ Working' /\ OwedCalls' = {} /\ ActedCalls' = {}
      BY <2>2 DEF OpenPool, Working, OwedCalls, ActedCalls, AsyncInv, CallsInv
    <3>2. QED
      BY <3>1 DEF ContractKept, Futures!Next, Futures!Begin, OwedCalls, ActedCalls
  <2>3. QED
    BY <1>4, <2>1, <2>2 DEF RunAsync
<1>5. CASE PassAsync
  <2>1. CASE FeedStart \/ LoadSnapshot
    BY <2>1, EntryKeepsContract
  <2>2. CASE BurnRaises
    BY <2>2, PassEnds DEF BurnRaises, Working
  <2>3. CASE PassAsync /\ phase = "pass"
    <3>1. CASE phase' = "pass"
      BY <2>3, <3>1, PassKeepsContract
    <3>2. CASE phase' # "pass"
      <4>1. ~ Working'
        BY <2>3, <3>2 DEF PassAsync, FeedStart, LoadSnapshot, BurnRaises,
           Sandbox, LookUpName, ServiceOs, RejectCall, OverBudget, DeferCall,
           EagerCall, EagerInterrupt, Return, AfterResult, Working
      <4>2. QED
        BY <2>3, <4>1, PassEnds DEF Working
    <3>3. QED
      BY <3>1, <3>2
  <2>4. QED
    BY <1>5, <2>1, <2>2, <2>3
    DEF PassAsync, Sandbox, LookUpName, ServiceOs, RejectCall, OverBudget,
        DeferCall, EagerCall, EagerInterrupt, HostCall, InPass
<1>6. CASE EndPassAsync
  BY <1>6, EndKeepsContract DEF EndPassAsync
<1>7. CASE SyncBatch
  BY <1>7, BatchKeepsContract
<1>8. CASE Commit \/ Pause \/ HumanAnswers \/ Finished
  BY <1>8, OutsidePass DEF Commit, Pause, HumanAnswers, Finished, Working
<1>9. CASE EntryFails
  BY <1>9, PassEnds, OutsidePass
  DEF EntryFails, PoolFails, CheckoutFails, LoadFails, Return, AfterResult,
      Working
<1>10. CASE LimitExceeded \/ EagerCallFailsEarly
  <2>1. /\ phase = "pass" /\ phase' = "pass" /\ vm.at # "await"
        /\ UNCHANGED <<deferred, settled, legRan>>
    BY <1>10 DEF LimitExceeded, EagerCallFailsEarly, HostCall, InPass
  <2>2. vm'.futures = vm.futures
    BY <2>1 DEF AsyncInv, FuturesInv, DeferredMirrorsFutures, TypeOK, VMs
  <2>3. QED
    BY <2>1, <2>2, ContractStutters DEF Working, OwedCalls, ActedCalls
<1>11. QED
  BY <1>1, <1>2, <1>3, <1>4, <1>5, <1>6, <1>7, <1>8, <1>9, <1>10
  DEF Shared, InEitherDriver, FromOutside

----------------------------------------------------------------------------
(***************************************************************************)
(* The async batch, and the theorem                                        *)
(***************************************************************************)
LEMMA ContractStep ==
    AsyncInv /\ AsyncInv' /\ [AsyncNext]_asyncVars => ContractKept
<1> SUFFICES ASSUME AsyncInv, AsyncInv', [AsyncNext]_asyncVars PROVE ContractKept
  OBVIOUS
<1> USE DEF AsyncInv
<1>1. CASE Shared
  BY <1>1, SharedKeepContract
<1>2. CASE UNCHANGED asyncVars
  BY <1>2, ContractStutters DEF asyncVars, Working, OwedCalls, ActedCalls
<1>3. CASE StartTasks
  BY <1>3, ContractStutters DEF StartTasks, Working, OwedCalls, ActedCalls
<1>4. ASSUME NEW s \in vm.pending, TaskAsks(s) PROVE ContractKept
  BY <1>4, ContractStutters DEF TaskAsks, Working, OwedCalls, ActedCalls
<1>5. ASSUME NEW s \in vm.pending, TaskActs(s) PROVE ContractKept
  <2>1. /\ phase = "pass" /\ phase' = "pass" /\ vm' = vm
        /\ legRan' = legRan \cup {s} /\ s \notin legRan
    BY <1>5 DEF TaskActs, RunDeferred, AsyncBatch, Batch, InPass, TasksInv,
                Unended
  <2>2. QED
    BY <2>1, CallRuns DEF Working, OwedCalls, ActedCalls
<1>6. ASSUME NEW s \in vm.pending, GatherRaises(s) PROVE ContractKept
  BY <1>6, PassEnds DEF GatherRaises, AsyncBatch, Batch, InPass, Working
<1>7. CASE GatherReturns
  <2>1. phase = "pass" /\ phase' = "pass" /\ legRan' = legRan
    BY <1>7 DEF GatherReturns, AsyncBatch, Batch, InPass
  <2>2. vm.pending \subseteq legRan
    BY <1>7, <2>1 DEF GatherReturns, AsyncBatch, AllTasksEnded, TasksInv, Unended
  <2>3. vm'.futures = vm.futures \ vm.pending
    <3>1. \A s \in vm.pending : Overwritten[s] \in Payloads
      BY <1>7, AllSettled, OverwrittenTyped
    <3>2. QED
      BY <1>7, <3>1, BatchAnswered DEF GatherReturns, TypeOK
  <2>4. QED
    BY <2>1, <2>2, <2>3, ResultsDelivered DEF Working, OwedCalls, ActedCalls
<1>8. QED
  BY <1>1, <1>2, <1>3, <1>4, <1>5, <1>6, <1>7, StepKinds

LEMMA ContractInit == AsyncInit => Futures!Init
BY DEF AsyncInit, Init, Futures!Init, Working

\* Either driver implements FutureContract: no tool runs twice in a leg, no
\* result is handed over before its tool has run, and calls that are owed to
\* the sandbox are forgotten only at the leg's end or when nothing has run
\* (_driver.py 276-281, 338-358, 405-408, 474-477).
THEOREM BothKeepTheContract == AsyncSpec => ImplementsFutures
<1>1. AsyncInv /\ AsyncInv' /\ [AsyncNext]_asyncVars
         => [Futures!Next]_(Futures!vars)
  BY ContractStep DEF ContractKept
<1>2. QED
  BY <1>1, ContractInit, AsyncInvariant, PTL
  DEF AsyncSpec, ImplementsFutures, Futures!Spec
=============================================================================
