---------------------------- MODULE CarriedProofs ---------------------------
(***************************************************************************)
(* What a call keeps over its legs, whatever strikes between them: what    *)
(* the code has printed, the calls it has made, and what these count       *)
(* against the budget.                                                     *)
(***************************************************************************)
EXTENDS AsyncProofs

USE DEF sandboxVars, ledgerVars, passVars, history, vars, settled, NoResults

----------------------------------------------------------------------------
(***************************************************************************)
(* Output                                                                  *)
(***************************************************************************)
\* An answer of the driver takes the sandbox to the next instruction at most.
LEMMA OneInstructionOn ==
    ASSUME NEW v \in VMs
    PROVE  \A w \in {Advance(v), Throw(v), ReturnValue(v), ReturnFuture(v)} :
              /\ w.at \in {"run", "error"}
              /\ w.pc = v.pc \/ w.pc = v.pc + 1
<1>1. \A u \in VMs : \A w \in {Advance(u), LoopAgain(u), Throw(u)} :
         w.at \in {"run", "error"} /\ (w.pc = u.pc \/ w.pc = u.pc + 1)
  BY DEF Advance, LoopAgain, Throw, VMs
<1>2. Keep(v) \in VMs /\ Keep(v).pc = v.pc
  BY MachineOps DEF Keep, VMs
<1>3. CASE TRUE
  <2> DEFINE f == [v EXCEPT !.futures = @ \cup {Site(v)}]
  <2>1. f \in VMs /\ f.pc = v.pc /\ Site(f) = Site(v)
    BY MachineOps DEF Site, VMs
  <2>2. Keep(f) \in VMs /\ Keep(f).pc = v.pc
    BY <2>1, MachineOps DEF Keep, VMs
  <2>3. ReturnFuture(v) \in {LoopAgain(f), Advance(Keep(f)), Throw(f), Advance(f)}
    BY DEF ReturnFuture
  <2>4. ReturnValue(v) \in {LoopAgain(v), Advance(Keep(v)), Advance(v)}
    BY DEF ReturnValue
  <2> HIDE DEF f
  <2>5. QED
    BY <1>1, <1>2, <2>1, <2>2, <2>3, <2>4
<1>4. QED
  BY <1>3

\* So does the end of a batch.
LEMMA BatchOneOn ==
    ASSUME NEW v \in VMs, NEW payloads,
           \A s \in v.pending : payloads[s] \in Payloads
    PROVE  /\ ResolveFutures(v, payloads).at \in {"run", "error"}
           /\ \/ ResolveFutures(v, payloads).pc = v.pc
              \/ ResolveFutures(v, payloads).pc = v.pc + 1
BY ResolvedTyped, ResolvedGoesOn, OneInstructionOn

\* Only a print changes what has been printed.
LEMMA ShowsMore ==
    ASSUME NEW text \in Seq(Nat), NEW pc \in DOMAIN prog, prog \in Seq(Instrs),
           Shows(text, pc)
    PROVE  /\ prog[pc].op # "print" => Shows(text, pc + 1)
           /\ prog[pc].op = "print" => Shows(Append(text, pc), pc + 1)
<1> DEFINE Printed(q) == {i \in DOMAIN prog : i < q /\ prog[i].op = "print"}
           more == Append(text, pc)
<1>1. pc \in Nat /\ DOMAIN prog \subseteq Nat
  OBVIOUS
<1>2. CASE prog[pc].op # "print"
  <2>1. Printed(pc + 1) = Printed(pc)
    BY <1>1, <1>2
  <2>2. QED
    BY <1>2, <2>1 DEF Shows
<1>3. CASE prog[pc].op = "print"
  <2>1. Printed(pc + 1) = Printed(pc) \cup {pc}
    BY <1>1, <1>3
  <2>2. /\ DOMAIN text = 1..Len(text) /\ Len(text) \in Nat
        /\ DOMAIN more = 1..(Len(text) + 1)
        /\ more[Len(text) + 1] = pc
        /\ \A i \in DOMAIN text : more[i] = text[i]
    BY <1>1
  <2>3. {more[i] : i \in DOMAIN more} = {text[i] : i \in DOMAIN text} \cup {pc}
    <3> HIDE DEF more
    <3>1. \A i \in DOMAIN more : i \in DOMAIN text \/ i = Len(text) + 1
      BY <2>2
    <3>2. DOMAIN text \subseteq DOMAIN more /\ Len(text) + 1 \in DOMAIN more
      BY <2>2
    <3>3. QED
      BY <2>2, <3>1, <3>2
  <2>4. \A i \in DOMAIN text : text[i] < pc
    BY DEF Shows
  <2>5. \A i, j \in DOMAIN text : i < j => text[i] < text[j]
    BY DEF Shows
  <2>6. \A i, j \in DOMAIN more : i < j => more[i] < more[j]
    BY <2>2, <2>4, <2>5
  <2>7. QED
    BY <1>3, <2>1, <2>3, <2>6 DEF Shows
<1>4. QED
  BY <1>2, <1>3

LEMMA StillShows ==
    ASSUME prog' = prog
    PROVE  \A text, pc : Shows(text, pc)' <=> Shows(text, pc)
BY DEF Shows

\* Text and records are left alone, and the leg is not in a pass (any more).
LEMMA OutputKept ==
    ASSUME OutputInv, phase' # "pass", UNCHANGED <<store, record, prog>>,
           outcome' = outcome \/ outcome'.error # "none"
    PROVE  OutputInv'
BY StillShows DEF OutputInv, StdoutOnce, RecordShows, AtItsCode, Code

LEMMA OutputUntouched ==
    ASSUME OutputInv, UNCHANGED <<phase, store, record, outcome, sandboxVars,
                                  stdout_prefix>>
    PROVE  OutputInv'
BY DEF OutputInv, StdoutOnce, RecordShows, AtItsCode, Code, Shows

\* The sandbox is answered, or stopped.
LEMMA OutputGoesOn ==
    ASSUME TypeOK, OutputInv, phase = "pass",
           \/ vm.at \in {"name", "os", "call", "await"}
           \/ vm'.pc = vm.pc,
           vm'.at \in {"run", "error"}, vm'.pc = vm.pc \/ vm'.pc = vm.pc + 1,
           UNCHANGED <<phase, store, record, outcome, prog, stdout,
                       stdout_prefix>>
    PROVE  OutputInv'
<1>1. prog \in Seq(Instrs) /\ stdout_prefix \o stdout \in Seq(Nat)
         /\ vm.pc \in Nat /\ Len(prog) \in Nat
  BY ProgramsAreCode DEF TypeOK, VMs
<1>2. Shows(stdout_prefix \o stdout, vm'.pc) /\ vm'.pc <= Len(prog) + 1
  <2>1. CASE vm'.pc = vm.pc
    BY <2>1 DEF OutputInv, StdoutOnce, AtItsCode
  <2>2. CASE vm'.pc = vm.pc + 1 /\ vm'.pc # vm.pc
    <3>1. vm.pc \in DOMAIN prog /\ prog[vm.pc].op # "print"
      BY <2>2 DEF OutputInv, AtItsCode, Code
    <3>2. Shows(stdout_prefix \o stdout, vm.pc)
      BY DEF OutputInv, StdoutOnce
    <3>3. Shows(stdout_prefix \o stdout, vm.pc + 1)
      BY <1>1, <3>1, <3>2, ShowsMore
    <3>4. vm.pc + 1 <= Len(prog) + 1
      BY <1>1, <3>1
    <3>5. QED
      BY <2>2, <3>3, <3>4
  <2>3. QED
    BY <2>1, <2>2
<1>3. AtItsCode(vm)'
  BY <1>2 DEF AtItsCode
<1>4. QED
  BY <1>2, <1>3, StillShows
  DEF OutputInv, StdoutOnce, RecordShows, AtItsCode, Code

LEMMA OutputInit == Init => OutputInv
<1> SUFFICES ASSUME Init PROVE OutputInv
  OBVIOUS
<1>1. store = NoRecord /\ record = NoRecord /\ phase = "start"
         /\ outcome.error = "unfinished"
  BY DEF Init, Unfinished
<1>2. QED
  BY <1>1 DEF OutputInv, RecordShows, StdoutOnce

LEMMA OutputStep ==
    TypeOK /\ FuturesInv /\ OutputInv /\ [Next]_vars => OutputInv'
<1> SUFFICES ASSUME TypeOK, FuturesInv, OutputInv, [Next]_vars
             PROVE  OutputInv'
  OBVIOUS
<1>1. /\ vm \in VMs /\ prog \in Seq(Instrs) /\ Len(prog) \in Nat
      /\ stdout_prefix \in Seq(Nat) /\ stdout \in Seq(Nat)
      /\ vm.pc \in Nat \ {0} /\ DOMAIN prog = 1..Len(prog)
  BY ProgramsAreCode DEF TypeOK, VMs
<1>2. ErrorResult("HostError").error # "none"
         /\ ErrorResult("MontyError").error # "none"
         /\ ErrorResult("IterationBudgetExceeded").error # "none"
         /\ ErrorResult("UnawaitedHostCallError").error # "none"
         /\ Unfinished.error # "none"
  BY DEF ErrorResult, Unfinished
<1>2a. stdout_prefix \o stdout \in Seq(Nat)
  BY <1>1
<1>3. CASE StartLeg \/ OpenPool \/ BurnRaises \/ RetryAfterError
             \/ RetryUnawaited \/ BatchInterrupt \/ Commit \/ Pause
             \/ HumanAnswers
  BY <1>3, OutputKept
  DEF StartLeg, OpenPool, BurnRaises, RetryAfterError, RetryUnawaited,
      RestartEagerly, BatchInterrupt, Commit, Pause, HumanAnswers, Environment
<1>4. CASE EntryFails \/ OverBudget \/ ReportError \/ Crash
  <2>1. phase' # "pass"
    BY <1>4 DEF EntryFails, PoolFails, CheckoutFails, LoadFails, OverBudget,
                ReportError, Crash, Return, AfterResult
  <2>2. outcome'.error # "none"
    BY <1>2, <1>4 DEF EntryFails, PoolFails, CheckoutFails, LoadFails,
                OverBudget, ReportError, Crash, Return
  <2>3. UNCHANGED <<store, record, prog>>
    BY <1>4 DEF EntryFails, PoolFails, CheckoutFails, LoadFails, OverBudget,
                ReportError, Crash, Environment
  <2>4. QED
    BY <2>1, <2>2, <2>3, OutputKept
<1>5. CASE LoadRecord
  <2>1. phase' # "pass" /\ outcome' = outcome /\ UNCHANGED <<store, prog>>
        /\ record' \in {store, NoRecord}
    BY <1>5 DEF LoadRecord, load_hitl_record
  <2>2. QED
    BY <2>1, StillShows
    DEF OutputInv, StdoutOnce, RecordShows, AtItsCode, Code
<1>6. CASE DeleteRecord
  <2>1. phase' # "pass" /\ outcome' = outcome /\ UNCHANGED <<record, prog>>
        /\ store' \in {store, NoRecord}
    BY <1>6 DEF DeleteRecord, delete_hitl_record
  <2>2. QED
    BY <2>1, StillShows
    DEF OutputInv, StdoutOnce, RecordShows, AtItsCode, Code
<1>7. CASE FeedStart
  <2>1. /\ stdout_prefix' = <<>> /\ stdout' = <<>> /\ vm' = FreshVM
        /\ UNCHANGED <<store, record, outcome, prog>>
    BY <1>7 DEF FeedStart, FreshPass
  <2>2. vm'.pc = 1 /\ vm'.at = "run"
    BY <2>1 DEF FreshVM
  <2>3. Shows(<<>>, 1)
    BY <1>1 DEF Shows
  <2>4. stdout_prefix' \o stdout' = <<>>
    BY <2>1
  <2>5. AtItsCode(vm)'
    BY <1>1, <2>1, <2>2 DEF AtItsCode
  <2>6. QED
    BY <2>1, <2>2, <2>3, <2>4, <2>5, StillShows
    DEF OutputInv, StdoutOnce, RecordShows, AtItsCode, Code
<1>8. CASE LoadSnapshot
  <2>1. /\ stdout_prefix' = record.stdout /\ stdout' = <<>> /\ vm' = record.vm
        /\ UNCHANGED <<store, record, outcome, prog>> /\ record # NoRecord
    BY <1>8 DEF LoadSnapshot, FreshPass
  <2>2. record.stdout \in Seq(Nat) /\ vm'.at = "call"
    BY <2>1 DEF TypeOK, Records, FuturesInv, Frozen
  <2>3. stdout_prefix' \o stdout' = record.stdout
    BY <2>1, <2>2
  <2>4. AtItsCode(vm)' /\ Shows(record.stdout, vm'.pc)
    BY <2>1 DEF OutputInv, RecordShows, AtItsCode, Code
  <2>5. QED
    BY <2>1, <2>2, <2>3, <2>4, StillShows
    DEF OutputInv, StdoutOnce, RecordShows, AtItsCode, Code
<1>9. CASE Sandbox
  <2>1. phase = "pass" /\ UNCHANGED <<phase, store, record, outcome, prog,
                                      stdout_prefix>>
    BY <1>9 DEF Sandbox, InPass
  <2>2. CASE VmPrint
    <3>1. /\ vm.pc \in DOMAIN prog /\ prog[vm.pc].op = "print"
          /\ vm' = Advance(vm) /\ stdout' = Append(stdout, vm.pc)
      BY <1>1, <2>2 DEF VmPrint, Running, Code
    <3>2. vm'.pc = vm.pc + 1 /\ vm'.at = "run"
      BY <1>1, <3>1 DEF Advance, VMs
    <3>3. stdout_prefix \o Append(stdout, vm.pc)
             = Append(stdout_prefix \o stdout, vm.pc)
      BY <1>1
    <3>4. Shows(Append(stdout_prefix \o stdout, vm.pc), vm.pc + 1)
      <4>1. Shows(stdout_prefix \o stdout, vm.pc)
        BY <2>1 DEF OutputInv, StdoutOnce
      <4>2. QED
        BY <1>1, <1>2a, <3>1, <4>1, ShowsMore
    <3>5. AtItsCode(vm)'
      <4>1. vm.pc + 1 <= Len(prog) + 1
        BY <1>1, <3>1
      <4>2. QED
        BY <2>1, <3>2, <4>1 DEF AtItsCode
    <3>6. QED
      BY <2>1, <3>1, <3>2, <3>3, <3>4, <3>5, StillShows
      DEF OutputInv, StdoutOnce, RecordShows, AtItsCode, Code
  <2>3. CASE VmRaise \/ VmAwait
    <3>1. /\ vm.pc \in DOMAIN prog /\ stdout' = stdout
          /\ prog[vm.pc].op \in {"raise", "await"}
      BY <1>1, <2>3 DEF VmRaise, VmAwait, Running, Code
    <3>2. \/ vm'.at \in {"run", "error"} /\ vm'.pc \in {vm.pc, vm.pc + 1}
          \/ vm'.at = "await" /\ vm'.pc = vm.pc /\ prog[vm.pc].op = "await"
      <4>1. [vm EXCEPT !.held = {}] \in VMs /\ [vm EXCEPT !.held = {}].pc = vm.pc
        BY <1>1 DEF VMs
      <4>2. CASE vm' = Throw(vm) \/ vm' = Advance(vm)
                   \/ vm' = Throw([vm EXCEPT !.held = {}])
        BY <1>1, <4>1, <4>2, OneInstructionOn
      <4>3. CASE vm' = [vm EXCEPT !.at = "await",
                                  !.pending = IF Code(vm).use = "all"
                                              THEN vm.futures ELSE vm.held]
                   /\ VmAwait
        BY <1>1, <4>3 DEF VMs, VmAwait, Code
      <4>4. QED
        BY <2>3, <4>2, <4>3 DEF VmRaise, VmAwait
    <3>3. Shows(stdout_prefix \o stdout, vm'.pc)
      <4>1. Shows(stdout_prefix \o stdout, vm.pc)
        BY <2>1 DEF OutputInv, StdoutOnce
      <4>2. Shows(stdout_prefix \o stdout, vm.pc + 1)
        BY <1>1, <1>2a, <3>1, <4>1, ShowsMore
      <4>3. QED
        BY <3>2, <4>1, <4>2
    <3>4. AtItsCode(vm)'
      BY <1>1, <2>1, <3>1, <3>2 DEF AtItsCode, Code
    <3>5. QED
      BY <2>1, <3>1, <3>2, <3>3, <3>4, StillShows
      DEF OutputInv, StdoutOnce, RecordShows, AtItsCode, Code
  <2>4. CASE VmSuspend \/ VmComplete
    <3>1. vm'.pc = vm.pc /\ stdout' = stdout
      BY <1>1, <2>4 DEF VmSuspend, VmComplete, VMs
    <3>2. AtItsCode(vm)'
      <4>1. vm'.pc <= Len(prog) + 1
        BY <2>1, <3>1 DEF OutputInv, AtItsCode
      <4>2. \/ VmSuspend /\ vm'.at = Code(vm).op /\ vm.pc \in DOMAIN prog
            \/ vm'.at = "complete"
        BY <1>1, <2>4 DEF VmSuspend, VmComplete, Running, VMs
      <4>3. QED
        BY <2>1, <3>1, <4>1, <4>2 DEF AtItsCode, Code
    <3>3. vm'.at = "complete" => vm'.pc = Len(prog) + 1
      BY <1>1, <2>1, <2>4 DEF OutputInv, AtItsCode, VmSuspend, VmComplete,
                              Running, Code, VMs
    <3>4. QED
      BY <2>1, <3>1, <3>2, <3>3, StillShows
      DEF OutputInv, StdoutOnce, RecordShows, AtItsCode, Code
  <2>5. QED
    BY <1>9, <2>2, <2>3, <2>4 DEF Sandbox, VmStep
<1>10. CASE LimitExceeded
  <2>1. vm'.at = "error" /\ vm'.pc = vm.pc
    BY <1>1, <1>10 DEF LimitExceeded, VMs
  <2>2. QED
    BY <1>10, <2>1, OutputGoesOn DEF LimitExceeded, InPass
<1>11. CASE LookUpName \/ ServiceOs \/ RejectCall \/ DeferCall \/ EagerCall
              \/ EagerCallFailsEarly \/ ResumeBatch
  <2>1. /\ vm'.at \in {"run", "error"}
        /\ vm'.pc = vm.pc \/ vm'.pc = vm.pc + 1
    <3>1. CASE ResumeBatch
      BY <1>1, <3>1, PayloadsTyped, BatchOneOn DEF ResumeBatch
    <3>2. CASE ~ ResumeBatch
      <4>1. vm' \in {Advance(vm), Throw(vm), ReturnValue(vm), ReturnFuture(vm)}
        BY <1>11, <3>2
        DEF LookUpName, ServiceOs, RejectCall, DeferCall, EagerCall,
            EagerCallFailsEarly
      <4>2. QED
        BY <1>1, <4>1, OneInstructionOn
    <3>3. QED
      BY <3>1, <3>2
  <2>2. /\ phase = "pass" /\ vm.at \in {"name", "os", "call", "await"}
        /\ UNCHANGED <<phase, store, record, outcome, prog, stdout,
                       stdout_prefix>>
    BY <1>11
    DEF LookUpName, ServiceOs, RejectCall, DeferCall, EagerCall,
        EagerCallFailsEarly, ResumeBatch, HostCall, Batch, InPass
  <2>3. QED
    BY <2>1, <2>2, OutputGoesOn
<1>12. CASE EagerInterrupt
  <2>1. /\ phase = "pass" /\ phase' # "pass" /\ UNCHANGED <<record, prog, outcome>>
        /\ store' \in {store, PausedRecord}
    BY <1>12 DEF EagerInterrupt, persist_hitl_record, HostCall, InPass
  <2>2. PausedRecord.vm = vm /\ PausedRecord.stdout = stdout_prefix \o stdout
    BY DEF PausedRecord
  <2>3. CASE store' = PausedRecord
    <3>1. store'.vm = vm /\ store'.stdout = stdout_prefix \o stdout
      BY <2>2, <2>3
    <3>2. AtItsCode(vm) /\ Shows(stdout_prefix \o stdout, vm.pc)
      BY <2>1 DEF OutputInv, StdoutOnce
    <3>3. RecordShows(store)'
      BY <2>1, <3>1, <3>2, StillShows DEF RecordShows, AtItsCode, Code
    <3>4. QED
      BY <2>1, <3>3, StillShows
      DEF OutputInv, StdoutOnce, RecordShows, AtItsCode, Code
  <2>4. CASE store' = store
    BY <2>1, <2>4, OutputKept
  <2>5. QED
    BY <2>1, <2>3, <2>4
<1>13. CASE BatchCall
  BY <1>13, OutputUntouched DEF BatchCall
<1>14. CASE FinishPass
  <2>1. /\ phase = "pass" /\ vm.at = "complete" /\ phase' # "pass"
        /\ UNCHANGED <<store, record, prog>>
        /\ \/ outcome'.error # "none"
           \/ outcome' = [error |-> "none", stdout |-> stdout_prefix \o stdout]
    BY <1>2, <1>14 DEF FinishPass, InPass, Return, AfterResult
  <2>2. Shows(stdout_prefix \o stdout, Len(prog) + 1)
    BY <2>1 DEF OutputInv, StdoutOnce
  <2>3. CASE outcome' = [error |-> "none", stdout |-> stdout_prefix \o stdout]
    <3>1. outcome'.stdout = stdout_prefix \o stdout
      BY <2>3
    <3>2. QED
      BY <2>1, <2>2, <3>1, StillShows
      DEF OutputInv, StdoutOnce, RecordShows, AtItsCode, Code
  <2>4. CASE outcome'.error # "none"
    BY <2>1, <2>4, OutputKept
  <2>5. QED
    BY <2>1, <2>3, <2>4
<1>15. CASE UNCHANGED vars
  BY <1>15, OutputUntouched
<1>16. QED
  BY <1>3, <1>4, <1>5, <1>6, <1>7, <1>8, <1>9, <1>10, <1>11, <1>12, <1>13,
     <1>14, <1>15
  DEF Next, Leg, Enter, Dispatch, EndPass, Finished

LEMMA AsyncOutput ==
    AsyncInv /\ OutputInv /\ [AsyncNext]_asyncVars => OutputInv'
<1> SUFFICES ASSUME AsyncInv, OutputInv, [AsyncNext]_asyncVars
             PROVE  OutputInv'
  OBVIOUS
<1> USE DEF AsyncInv
<1>1. CASE Shared \/ UNCHANGED asyncVars
  BY <1>1, SharedSteps, OutputStep DEF asyncVars
<1>2. CASE StartTasks \/ \E s \in vm.pending : TaskAsks(s) \/ TaskActs(s)
  BY <1>2, OutputUntouched DEF StartTasks, TaskAsks, TaskActs, RunDeferred
<1>3. ASSUME NEW s \in vm.pending, GatherRaises(s) PROVE OutputInv'
  BY <1>3, OutputKept DEF GatherRaises
<1>4. CASE GatherReturns
  <2>1. /\ vm \in VMs /\ vm' = ResolveFutures(vm, Overwritten)
        /\ \A s \in vm.pending : Overwritten[s] \in Payloads
    BY <1>4, AllSettled, OverwrittenTyped DEF GatherReturns, TypeOK
  <2>2. vm'.at \in {"run", "error"} /\ (vm'.pc = vm.pc \/ vm'.pc = vm.pc + 1)
    BY <2>1, BatchOneOn
  <2>3. QED
    BY <1>4, <2>2, OutputGoesOn DEF GatherReturns, AsyncBatch, Batch, InPass
<1>5. QED
  BY <1>1, <1>2, <1>3, <1>4, StepKinds

\* Whatever the snippet's style, the budget and the faults: what a pass and a
\* result show is what the code printed, each line once and in order, over all
\* restarts, pauses and revived records (_driver.py 267 and 540-551).
THEOREM EachLineOnce == Spec => []StdoutOnce
<1>1. Spec => []OutputInv
  BY TypeInit, TypeStep, FuturesInit, FuturesStep, OutputInit, OutputStep, PTL
  DEF Spec
<1>2. OutputInv => StdoutOnce
  BY DEF OutputInv
<1>3. QED
  BY <1>1, <1>2, PTL

\* The same when either driver runs the legs.
THEOREM EachLineOnceInBoth == AsyncSpec => []StdoutOnce
<1>1. AsyncInit => OutputInv
  BY OutputInit DEF AsyncInit
<1>2. OutputInv => StdoutOnce
  BY DEF OutputInv
<1>3. QED
  BY <1>1, <1>2, AsyncInvariant, AsyncOutput, PTL DEF AsyncSpec

----------------------------------------------------------------------------
(***************************************************************************)
(* No call is dropped                                                      *)
(***************************************************************************)
\* What has run stays on record.
RanGrows == ran' = ran \/ \E s \in Sites : ran' = Append(ran, s)

LEMMA ActedForGood ==
    ASSUME ran \in Seq(Sites), RanGrows
    PROVE  /\ \A i : HasActed(i) => HasActed(i)'
           /\ {ran[k] : k \in DOMAIN ran} \subseteq {ran'[k] : k \in DOMAIN ran'}
<1>1. \A k \in DOMAIN ran : k \in DOMAIN ran' /\ ran'[k] = ran[k]
  BY DEF RanGrows
<1>2. QED
  BY <1>1 DEF HasActed

LEMMA OneMoreActed ==
    ASSUME ran \in Seq(Sites), NEW s \in Sites, ran' = Append(ran, s)
    PROVE  /\ RanGrows /\ HasActed(s[1])'
           /\ s \in {ran'[k] : k \in DOMAIN ran'}
<1>1. Len(ran) + 1 \in DOMAIN ran' /\ ran'[Len(ran) + 1] = s
  OBVIOUS
<1>2. QED
  BY <1>1 DEF RanGrows, HasActed

\* A step to a place before which every call has acted or is a future
LEMMA MadeGoesOn ==
    ASSUME TypeOK, CallsMadeInv, RanGrows,
           legRan' \subseteq {ran'[k] : k \in DOMAIN ran'},
           UNCHANGED <<hostTools, store, record, outcome, prog>>,
           phase' = "pass" /\ vm'.at # "error" =>
              \A i \in DOMAIN prog : i < vm'.pc /\ Allowed(i) =>
                  HasActed(i)' \/ \E s \in vm'.futures : s[1] = i
    PROVE  CallsMadeInv'
<1>1. \A i : HasActed(i) => HasActed(i)'
  BY ActedForGood DEF TypeOK
<1>2. RecordMade(store)' /\ RecordMade(record)'
  BY <1>1 DEF CallsMadeInv, RecordMade, Allowed
<1>3. NoCallDropped'
  BY <1>1 DEF CallsMadeInv, NoCallDropped, HasActed
<1>4. QED
  BY <1>2, <1>3 DEF CallsMadeInv, Allowed

\* The leg ends, or has not got to a pass.
LEMMA MadeKept ==
    ASSUME CallsMadeInv, phase' # "pass", hostTools' = HostTools,
           UNCHANGED <<prog, ran>>, legRan' \subseteq legRan,
           store' \in {store, NoRecord}, record' \in {record, store, NoRecord},
           outcome' = outcome \/ outcome'.error # "none"
    PROVE  CallsMadeInv'
<1>1. RecordMade(store)' /\ RecordMade(record)'
  BY DEF CallsMadeInv, RecordMade, Allowed, HasActed
<1>2. QED
  BY <1>1 DEF CallsMadeInv, NoCallDropped

LEMMA MadeInit == Init => CallsMadeInv
<1> SUFFICES ASSUME Init PROVE CallsMadeInv
  OBVIOUS
<1>1. /\ store = NoRecord /\ record = NoRecord /\ phase = "start"
      /\ outcome.error = "unfinished" /\ hostTools = HostTools /\ legRan = {}
  BY DEF Init, Unfinished
<1>2. QED
  BY <1>1 DEF CallsMadeInv, RecordMade, NoCallDropped

\* A batch is handed over when its calls have acted.
BatchActed == ResumeBatch => settled \subseteq legRan

LEMMA MadeStep ==
    ASSUME ToolsKept, TypeOK, FuturesInv, OutputInv, CallsMadeInv, BatchActed,
           [Next]_vars
    PROVE  CallsMadeInv'
<1>1. /\ vm \in VMs /\ vm.pc \in Nat /\ ran \in Seq(Sites)
      /\ prog \in Seq(Instrs) /\ DOMAIN prog = 1..Len(prog)
      /\ Len(prog) \in Nat /\ hostTools = HostTools
  BY ProgramsAreCode DEF TypeOK, VMs, CallsMadeInv
<1>2. \A i : HasActed(i) => \E k \in DOMAIN ran : ran[k][1] = i
  BY DEF HasActed
<1>3. /\ ErrorResult("HostError").error # "none"
      /\ ErrorResult("MontyError").error # "none"
      /\ ErrorResult("IterationBudgetExceeded").error # "none"
      /\ ErrorResult("UnawaitedHostCallError").error # "none"
      /\ Unfinished.error # "none"
  BY DEF ErrorResult, Unfinished
<1>4. CASE StartLeg
  <2>1. hostTools' = HostTools
    BY <1>4 DEF StartLeg, ToolsKept, Fault
  <2>2. QED
    BY <1>4, <2>1, MadeKept DEF StartLeg
<1>5. CASE LoadRecord
  <2>1. record' \in {store, NoRecord}
    BY <1>5 DEF LoadRecord, load_hitl_record
  <2>2. QED
    BY <1>1, <1>5, <2>1, MadeKept DEF LoadRecord, load_hitl_record
<1>6. CASE DeleteRecord
  <2>1. store' \in {store, NoRecord}
    BY <1>6 DEF DeleteRecord, delete_hitl_record
  <2>2. QED
    BY <1>1, <1>6, <2>1, MadeKept DEF DeleteRecord
<1>7. CASE OpenPool \/ BurnRaises \/ RetryAfterError \/ RetryUnawaited
             \/ BatchInterrupt \/ Commit \/ Pause \/ HumanAnswers
  <2>1. /\ phase' # "pass"
        /\ UNCHANGED <<hostTools, store, record, outcome, prog, ran, legRan>>
    BY <1>7
    DEF OpenPool, BurnRaises, RetryAfterError, RetryUnawaited, RestartEagerly,
        BatchInterrupt, Commit, Pause, HumanAnswers, Environment
  <2>2. QED
    BY <1>1, <2>1, MadeKept
<1>8. CASE EntryFails \/ OverBudget \/ ReportError \/ Crash
  <2>1. phase' # "pass"
    BY <1>8 DEF EntryFails, PoolFails, CheckoutFails, LoadFails, OverBudget,
                ReportError, Crash, Return, AfterResult
  <2>2. outcome'.error # "none"
    BY <1>3, <1>8 DEF EntryFails, PoolFails, CheckoutFails, LoadFails,
                OverBudget, ReportError, Crash, Return
  <2>3. UNCHANGED <<hostTools, store, record, prog, ran, legRan>>
    BY <1>8 DEF EntryFails, PoolFails, CheckoutFails, LoadFails, OverBudget,
                ReportError, Crash, Environment
  <2>4. QED
    BY <1>1, <2>1, <2>2, <2>3, MadeKept
<1>9. CASE FeedStart
  <2>1. /\ vm'.pc = 1
        /\ UNCHANGED <<hostTools, store, record, outcome, prog, ran, legRan>>
    BY <1>9 DEF FeedStart, FreshVM
  <2>2. QED
    BY <1>1, <2>1, MadeGoesOn DEF RanGrows, CallsMadeInv
<1>10. CASE LoadSnapshot
  <2>1. /\ vm' = record.vm /\ record # NoRecord
        /\ UNCHANGED <<hostTools, store, record, outcome, prog, ran, legRan>>
    BY <1>10 DEF LoadSnapshot
  <2>2. \A i \in DOMAIN prog : i < vm'.pc /\ Allowed(i) => HasActed(i)'
    BY <2>1 DEF CallsMadeInv, RecordMade, HasActed
  <2>3. QED
    BY <1>1, <2>1, <2>2, MadeGoesOn DEF RanGrows, CallsMadeInv
<1>11. CASE Sandbox \/ LimitExceeded \/ LookUpName \/ ServiceOs \/ RejectCall
  <2>1. /\ phase = "pass" /\ vm.at # "error"
        /\ UNCHANGED <<hostTools, store, record, outcome, prog, ran, legRan>>
    BY <1>11
    DEF Sandbox, LimitExceeded, LookUpName, ServiceOs, RejectCall, InPass,
        VmStep, VmPrint, VmRaise, VmSuspend, VmAwait, VmComplete, Running
  <2>2. /\ vm'.futures = vm.futures
        /\ \/ vm'.at = "error" \/ vm'.pc = vm.pc
           \/ vm'.pc = vm.pc + 1 /\ (vm.pc \in DOMAIN prog => ~ Allowed(vm.pc))
    <3>1. CASE VmPrint \/ VmRaise \/ LookUpName \/ ServiceOs \/ RejectCall
      <4>1. vm' = Advance(vm) \/ vm' = Throw(vm)
        BY <3>1 DEF VmPrint, VmRaise, LookUpName, ServiceOs, RejectCall
      <4>2. vm.pc \in DOMAIN prog => ~ Allowed(vm.pc)
        BY <1>1, <2>1, <3>1
        DEF VmPrint, VmRaise, LookUpName, ServiceOs, RejectCall, Tool, Code,
            Allowed, OutputInv, AtItsCode
      <4>3. QED
        BY <1>1, <4>1, <4>2, OneInstructionOn, GoingOn
    <3>2. CASE VmSuspend \/ VmComplete \/ LimitExceeded
      BY <1>1, <3>2 DEF VmSuspend, VmComplete, LimitExceeded, VMs
    <3>3. CASE VmAwait
      <4>1. ~ Allowed(vm.pc)
        BY <3>3 DEF VmAwait, Code, Allowed
      <4>2. /\ [vm EXCEPT !.held = {}] \in VMs
            /\ [vm EXCEPT !.held = {}].pc = vm.pc
            /\ [vm EXCEPT !.held = {}].futures = vm.futures
        BY <1>1 DEF VMs
      <4>3. CASE vm' = Advance(vm) \/ vm' = Throw([vm EXCEPT !.held = {}])
        <5>1. PICK u \in VMs : /\ vm' = Advance(u) \/ vm' = Throw(u)
                               /\ u.pc = vm.pc /\ u.futures = vm.futures
          BY <1>1, <4>2, <4>3
        <5>2. vm'.pc = u.pc \/ vm'.pc = u.pc + 1
          BY <5>1, OneInstructionOn
        <5>3. vm'.futures = u.futures
          BY <5>1, GoingOn
        <5>4. QED
          BY <4>1, <5>1, <5>2, <5>3
      <4>4. CASE vm' = [vm EXCEPT !.at = "await",
                                  !.pending = IF Code(vm).use = "all"
                                              THEN vm.futures ELSE vm.held]
        BY <1>1, <4>4 DEF VMs
      <4>5. QED
        BY <3>3, <4>3, <4>4 DEF VmAwait
    <3>4. QED
      BY <1>11, <3>1, <3>2, <3>3 DEF Sandbox, VmStep
  <2>3. vm'.at # "error" =>
           \A i \in DOMAIN prog : i < vm'.pc /\ Allowed(i) =>
              HasActed(i)' \/ \E s \in vm'.futures : s[1] = i
    <3>1. \A i : HasActed(i)' <=> HasActed(i)
      BY <2>1 DEF HasActed
    <3>2. QED
      BY <1>1, <2>1, <2>2, <3>1 DEF CallsMadeInv
  <2>4. QED
    BY <2>1, <2>3, MadeGoesOn DEF RanGrows, CallsMadeInv
<1>12. CASE DeferCall
  <2>1. /\ phase = "pass" /\ vm.at = "call" /\ vm' = ReturnFuture(vm)
        /\ UNCHANGED <<hostTools, store, record, outcome, prog, ran, legRan>>
    BY <1>12 DEF DeferCall, HostCall, InPass
  <2>2. /\ vm'.futures = vm.futures \cup {Site(vm)}
        /\ vm'.pc = vm.pc \/ vm'.pc = vm.pc + 1
    BY <1>1, <2>1, AnsweredLater, OneInstructionOn
  <2>3. \A i \in DOMAIN prog : i < vm'.pc /\ Allowed(i) =>
           HasActed(i)' \/ \E s \in vm'.futures : s[1] = i
    <3>1. \A i : HasActed(i)' <=> HasActed(i)
      BY <2>1 DEF HasActed
    <3>2. Site(vm)[1] = vm.pc
      BY DEF Site
    <3>3. QED
      BY <1>1, <2>1, <2>2, <3>1, <3>2 DEF CallsMadeInv
  <2>4. QED
    BY <2>1, <2>3, MadeGoesOn DEF RanGrows, CallsMadeInv
<1>13. CASE EagerCall
  <2>1. /\ phase = "pass" /\ vm.at = "call" /\ ~ defer
        /\ ran' = Append(ran, Site(vm)) /\ legRan' = legRan \cup {Site(vm)}
        /\ vm' \in {Throw(vm), ReturnValue(vm)}
        /\ UNCHANGED <<hostTools, store, record, outcome, prog>>
    BY <1>13 DEF EagerCall, HostCall, InPass, Act
  <2>2. Site(vm) \in Sites /\ Site(vm)[1] = vm.pc
    BY <1>1, MachineOps DEF Site
  <2>2a. /\ vm'.pc = vm.pc \/ vm'.pc = vm.pc + 1
         /\ vm'.futures = vm.futures
    <3>1. vm'.pc = vm.pc \/ vm'.pc = vm.pc + 1
      BY <1>1, <2>1, OneInstructionOn
    <3>2. vm'.futures = vm.futures
      BY <1>1, <2>1, AnsweredAtOnce
    <3>3. QED
      BY <3>1, <3>2
  <2>3. /\ RanGrows /\ \E k \in DOMAIN ran' : ran'[k][1] = Site(vm)[1]
        /\ Site(vm) \in {ran'[k] : k \in DOMAIN ran'}
    <3> DEFINE s == Site(vm)
    <3>1. s \in Sites /\ ran' = Append(ran, s)
      BY <2>1, <2>2
    <3> HIDE DEF s
    <3>2. RanGrows /\ s \in {ran'[k] : k \in DOMAIN ran'}
             /\ \E k \in DOMAIN ran' : ran'[k][1] = s[1]
      BY <1>1, <3>1, OneMoreActed DEF HasActed
    <3>3. QED
      BY <3>2 DEF s
  <2>4. /\ \A i : HasActed(i) => HasActed(i)'
        /\ legRan' \subseteq {ran'[k] : k \in DOMAIN ran'}
    BY <1>1, <2>1, <2>3, ActedForGood DEF CallsMadeInv
  <2>5. \A i \in DOMAIN prog : i < vm'.pc /\ Allowed(i) =>
           HasActed(i)' \/ \E s \in vm'.futures : s[1] = i
    <3>1. \A i : HasActed(i)' <=> \E k \in DOMAIN ran' : ran'[k][1] = i
      BY DEF HasActed
    <3>2. \E k \in DOMAIN ran' : ran'[k][1] = vm.pc
      BY <2>2, <2>3
    <3>3. QED
      BY <1>1, <2>1, <2>2a, <2>4, <3>1, <3>2 DEF CallsMadeInv
  <2>6. QED
    BY <2>1, <2>3, <2>4, <2>5, MadeGoesOn
<1>14. ~ EagerCallFailsEarly
  BY DEF EagerCallFailsEarly, Fault, ToolsKept
<1>15. CASE EagerInterrupt
  <2>1. /\ phase = "pass" /\ phase' # "pass" /\ vm.at = "call" /\ ~ defer
        /\ UNCHANGED <<hostTools, record, outcome, prog, ran, legRan>>
        /\ store' \in {store, PausedRecord}
    BY <1>15 DEF EagerInterrupt, persist_hitl_record, HostCall, InPass
  <2>2. CASE store' = PausedRecord
    <3>1. store'.vm = vm
      BY <2>2 DEF PausedRecord
    <3>2. \A i \in DOMAIN prog : i < vm.pc /\ Allowed(i) => HasActed(i)
      BY <2>1 DEF CallsMadeInv, FuturesInv, DeferredMirrorsFutures
    <3>3. RecordMade(store)' /\ RecordMade(record)'
      BY <2>1, <3>1, <3>2 DEF CallsMadeInv, RecordMade, Allowed, HasActed
    <3>4. QED
      BY <2>1, <3>3 DEF CallsMadeInv, NoCallDropped
  <2>3. CASE store' = store
    BY <1>1, <2>1, <2>3, MadeKept
  <2>4. QED
    BY <2>1, <2>2, <2>3
<1>16. CASE BatchCall
  <2>1. PICK s \in vm.pending : BatchCall!2!(s)
    BY <1>16 DEF BatchCall
  <2>2. /\ phase = "pass" /\ vm.at = "await"
        /\ UNCHANGED <<phase, hostTools, store, record, outcome, prog, vm>>
    BY <1>16 DEF BatchCall, Batch, InPass
  <2>3. s \in deferred /\ s \in Sites
    BY <2>1, <2>2 DEF NextPending, FuturesInv, DeferredMirrorsFutures, TypeOK, VMs
  <2>4. ran' = Append(ran, s) /\ legRan' = legRan \cup {s}
    BY <2>1, <2>3 DEF Act
  <2>5. /\ RanGrows /\ \A i : HasActed(i) => HasActed(i)'
        /\ legRan' \subseteq {ran'[k] : k \in DOMAIN ran'}
    BY <1>1, <2>3, <2>4, OneMoreActed, ActedForGood DEF CallsMadeInv
  <2>6. QED
    BY <2>2, <2>5, MadeGoesOn DEF CallsMadeInv
<1>17. CASE ResumeBatch
  <2>1. /\ phase = "pass" /\ vm.at = "await" /\ vm.pending \subseteq legRan
        /\ vm' = ResolveFutures(vm, results)
        /\ \A s \in vm.pending : results[s] \in Payloads
        /\ UNCHANGED <<hostTools, store, record, outcome, prog, ran, legRan>>
    BY <1>17, PayloadsTyped DEF ResumeBatch, Batch, InPass, BatchActed
  <2>2. /\ vm'.pc = vm.pc \/ vm'.pc = vm.pc + 1
        /\ vm'.futures = vm.futures \ vm.pending
    BY <1>1, <2>1, BatchOneOn, BatchAnswered
  <2>3. /\ \A s \in vm.pending : HasActed(s[1])
        /\ \A i : HasActed(i)' <=> HasActed(i)
    BY <2>1 DEF CallsMadeInv, HasActed
  <2>4. ~ Allowed(vm.pc)
    BY <2>1 DEF OutputInv, AtItsCode, Code, Allowed
  <2>5. \A i \in DOMAIN prog : i < vm'.pc /\ Allowed(i) =>
           HasActed(i)' \/ \E s \in vm'.futures : s[1] = i
    BY <1>1, <2>1, <2>2, <2>3, <2>4 DEF CallsMadeInv
  <2>6. QED
    BY <2>1, <2>5, MadeGoesOn DEF RanGrows, CallsMadeInv
<1>18. CASE FinishPass
  <2>1. /\ phase = "pass" /\ vm.at = "complete" /\ phase' # "pass"
        /\ UNCHANGED <<hostTools, store, record, prog, ran, legRan>>
        /\ \/ outcome'.error # "none"
           \/ deferred = {}
    BY <1>3, <1>18 DEF FinishPass, InPass, Return, AfterResult
  <2>2. CASE outcome'.error # "none"
    BY <1>1, <2>1, <2>2, MadeKept
  <2>3. CASE deferred = {}
    <3>1. vm.futures = {} /\ vm.pc = Len(prog) + 1
      BY <2>1, <2>3 DEF FuturesInv, DeferredMirrorsFutures, OutputInv
    <3>2. \A i \in DOMAIN prog : Allowed(i) => HasActed(i)
      BY <1>1, <2>1, <3>1 DEF CallsMadeInv
    <3>3. NoCallDropped'
      BY <1>1, <2>1, <3>2 DEF NoCallDropped, Allowed, HasActed
    <3>4. QED
      BY <2>1, <3>3 DEF CallsMadeInv, RecordMade, Allowed, HasActed
  <2>4. QED
    BY <2>1, <2>2, <2>3
<1>19. CASE UNCHANGED vars
  BY <1>19, MadeGoesOn DEF RanGrows, CallsMadeInv, HasActed
<1>20. QED
  BY <1>4, <1>5, <1>6, <1>7, <1>8, <1>9, <1>10, <1>11, <1>12, <1>13, <1>14,
     <1>15, <1>16, <1>17, <1>18, <1>19
  DEF Next, Leg, Enter, Dispatch, EndPass, Finished

\* The sync driver settles a call by running its tool.
SettledInv == phase = "pass" => settled \subseteq legRan

LEMMA SettledStep ==
    TypeOK /\ FuturesInv /\ SettledInv /\ [Next]_vars => SettledInv'
<1> SUFFICES ASSUME TypeOK, FuturesInv, SettledInv, [Next]_vars
             PROVE  SettledInv'
  OBVIOUS
<1> USE DEF SettledInv
<1>0. phase = "pass" /\ vm.at # "await" => settled = {}
  BY DEF FuturesInv, DeferredMirrorsFutures
<1>1. CASE phase' # "pass" \/ settled' = {}
  BY <1>1
<1>2. CASE Enter \/ EntryFails \/ EndPass \/ DeleteRecord \/ Commit \/ Pause
             \/ HumanAnswers \/ Crash
  BY <1>1, <1>2
  DEF Enter, StartLeg, LoadRecord, OpenPool, FeedStart, LoadSnapshot, FreshPass,
      BurnRaises, EntryFails, PoolFails, CheckoutFails, LoadFails, EndPass,
      RetryAfterError, RetryUnawaited, RestartEagerly, ReportError, FinishPass,
      DeleteRecord, Commit, Pause, HumanAnswers, Crash, Return, AfterResult
<1>3. CASE Sandbox \/ LimitExceeded \/ LookUpName \/ ServiceOs \/ RejectCall
             \/ OverBudget \/ DeferCall \/ EagerCall \/ EagerCallFailsEarly
             \/ EagerInterrupt
  <2>1. phase = "pass" /\ vm.at # "await" /\ settled' = settled
    BY <1>3
    DEF Sandbox, LimitExceeded, LookUpName, ServiceOs, RejectCall, OverBudget,
        DeferCall, EagerCall, EagerCallFailsEarly, EagerInterrupt, HostCall,
        InPass, VmStep, VmPrint, VmRaise, VmSuspend, VmAwait, VmComplete, Running
  <2>2. QED
    BY <1>0, <1>1, <2>1
<1>4. CASE BatchCall
  <2>1. PICK s \in vm.pending : BatchCall!2!(s)
    BY <1>4 DEF BatchCall
  <2>2. phase = "pass" /\ s \in deferred
    BY <1>4, <2>1 DEF BatchCall, Batch, InPass, NextPending, FuturesInv,
                      DeferredMirrorsFutures
  <2>3. settled' = settled \cup {s} /\ legRan' = legRan \cup {s}
    BY <2>1, <2>2 DEF Act
  <2>4. QED
    BY <2>2, <2>3
<1>5. CASE BatchInterrupt \/ ResumeBatch
  BY <1>5 DEF BatchInterrupt, ResumeBatch
<1>6. CASE UNCHANGED vars
  BY <1>6
<1>7. QED
  BY <1>2, <1>3, <1>4, <1>5, <1>6 DEF Next, Leg, Dispatch, Finished

\* If every leg has all its tools and none fails before it acts, then whatever
\* else strikes and whatever the snippet's style, a result without an error
\* hides no host call (_driver.py 405-408, 462-478).
THEOREM NoCallIsDropped == ToolsKept => (Spec => []NoCallDropped)
<1> SUFFICES ASSUME ToolsKept PROVE Spec => []NoCallDropped
  OBVIOUS
<1> DEFINE Inv == TypeOK /\ FuturesInv /\ OutputInv /\ SettledInv /\ CallsMadeInv
<1>1. Init => Inv
  BY TypeInit, FuturesInit, OutputInit, MadeInit DEF Init, SettledInv
<1>2. Inv /\ [Next]_vars => Inv'
  <2> SUFFICES ASSUME Inv, [Next]_vars PROVE Inv'
    OBVIOUS
  <2>1. BatchActed
    BY DEF BatchActed, ResumeBatch, Batch, InPass, SettledInv
  <2>2. CallsMadeInv'
    BY <2>1, MadeStep
  <2>3. QED
    BY <2>2, TypeStep, FuturesStep, OutputStep, SettledStep
<1>3. Inv => NoCallDropped
  BY DEF CallsMadeInv
<1>4. QED
  BY <1>1, <1>2, <1>3, PTL DEF Spec

LEMMA AsyncMade ==
    ASSUME ToolsKept, AsyncInv, OutputInv, CallsMadeInv, [AsyncNext]_asyncVars
    PROVE  CallsMadeInv'
<1> USE DEF AsyncInv
<1>0. ran \in Seq(Sites) /\ hostTools = HostTools /\ vm \in VMs
         /\ vm.pending \subseteq Sites
  BY DEF TypeOK, VMs, CallsMadeInv
<1>1. CASE Shared \/ UNCHANGED asyncVars
  <2>1. BatchActed
    <3>1. CASE ResumeBatch /\ driver = "sync"
      BY <3>1 DEF BatchActed, ResumeBatch, Batch, InPass, TasksInv,
                  AsyncBatchOpen
    <3>2. CASE ResumeBatch /\ driver # "sync"
      <4>1. phase = "pass" /\ vm.at = "await" /\ vm'.at # "await"
        BY <1>0, <3>2, PayloadsTyped, BatchAnswered
        DEF ResumeBatch, Batch, InPass
      <4>2. ~ CrashAll /\ ~ StrayEnds /\ vm' # vm
        BY <3>2, <4>1 DEF CrashAll, Crash, Environment, StrayEnds
      <4>3. ~ SyncBatch
        BY <3>2 DEF SyncBatch
      <4>4. QED
        BY <1>1, <4>1, <4>2, <4>3, OnlyTheBatch DEF Shared, asyncVars
    <3>3. QED
      BY <3>1, <3>2 DEF BatchActed
  <2>2. [Next]_vars
    BY <1>1, SharedSteps DEF asyncVars
  <2>3. QED
    BY <2>1, <2>2, MadeStep
<1>2. ASSUME NEW s \in vm.pending, TaskAsks(s) PROVE CallsMadeInv'
  BY <1>2, MadeGoesOn DEF TaskAsks, RanGrows, CallsMadeInv, HasActed
<1>3. ASSUME NEW s \in vm.pending, TaskActs(s) PROVE CallsMadeInv'
  <2>1. /\ ran' = Append(ran, s) /\ legRan' = legRan \cup {s} /\ s \in Sites
        /\ UNCHANGED <<phase, hostTools, store, record, outcome, prog, vm>>
    BY <1>0, <1>3 DEF TaskActs, RunDeferred
  <2>2. /\ RanGrows /\ \A i : HasActed(i) => HasActed(i)'
        /\ legRan' \subseteq {ran'[k] : k \in DOMAIN ran'}
    BY <1>0, <2>1, OneMoreActed, ActedForGood DEF CallsMadeInv
  <2>3. QED
    BY <2>1, <2>2, MadeGoesOn DEF CallsMadeInv
<1>4. ASSUME NEW s \in vm.pending, GatherRaises(s) PROVE CallsMadeInv'
  BY <1>0, <1>4, MadeKept DEF GatherRaises
<1>5. CASE StartTasks
  BY <1>5, MadeGoesOn DEF StartTasks, RanGrows, CallsMadeInv, HasActed
<1>6. CASE GatherReturns
  <2>1. /\ phase = "pass" /\ vm.at = "await" /\ vm.pending \subseteq legRan
        /\ vm' = ResolveFutures(vm, Overwritten) /\ vm.pc \in Nat
        /\ \A s \in vm.pending : Overwritten[s] \in Payloads
        /\ UNCHANGED <<hostTools, store, record, outcome, prog, ran, legRan>>
    BY <1>0, <1>6, AllSettled, OverwrittenTyped DEF GatherReturns, AsyncBatch, Batch, InPass, AllTasksEnded,
                      TasksInv, Unended, VMs
  <2>2. /\ vm'.pc = vm.pc \/ vm'.pc = vm.pc + 1
        /\ vm'.futures = vm.futures \ vm.pending
    BY <1>0, <2>1, BatchOneOn, BatchAnswered
  <2>3. /\ \A s \in vm.pending : HasActed(s[1])
        /\ \A i : HasActed(i)' <=> HasActed(i)
    BY <2>1 DEF CallsMadeInv, HasActed
  <2>4. ~ Allowed(vm.pc) /\ DOMAIN prog \subseteq Nat
    BY <2>1, ProgramsAreCode DEF OutputInv, AtItsCode, Code, Allowed, TypeOK
  <2>5. \A i \in DOMAIN prog : i < vm'.pc /\ Allowed(i) =>
           HasActed(i)' \/ \E s \in vm'.futures : s[1] = i
    BY <2>1, <2>2, <2>3, <2>4 DEF CallsMadeInv
  <2>6. QED
    BY <2>1, <2>5, MadeGoesOn DEF RanGrows, CallsMadeInv
<1>7. QED
  BY <1>1, <1>2, <1>3, <1>4, <1>5, <1>6, StepKinds

\* The same when either driver runs the legs, in every interleaving of the
\* tasks of a batch.
THEOREM NoCallIsDroppedInBoth == ToolsKept => (AsyncSpec => []NoCallDropped)
<1> SUFFICES ASSUME ToolsKept PROVE AsyncSpec => []NoCallDropped
  OBVIOUS
<1>1. AsyncInit => OutputInv /\ CallsMadeInv
  BY OutputInit, MadeInit DEF AsyncInit
<1>2. AsyncInv /\ OutputInv /\ CallsMadeInv /\ [AsyncNext]_asyncVars
         => CallsMadeInv'
  BY AsyncMade
<1>3. CallsMadeInv => NoCallDropped
  BY DEF CallsMadeInv
<1>4. QED
  BY <1>1, <1>2, <1>3, AsyncInvariant, AsyncOutput, PTL DEF AsyncSpec

----------------------------------------------------------------------------
(***************************************************************************)
(* Once only, and within the budget                                        *)
(***************************************************************************)
LEMMA RunsInit == Init => RunsInv
<1> SUFFICES ASSUME Init PROVE RunsInv
  OBVIOUS
<1>1. /\ phase = "start" /\ store = NoRecord /\ ran = <<>> /\ Budget \in Nat
  BY ToolsAssumption DEF Init
<1>2. QED
  BY <1>1 DEF RunsInv, RunsOnce, BudgetSpansLegs

\* A call later than all that ran is a new one.
LEMMA OneMoreRun ==
    ASSUME ran \in Seq(Sites), RunsOnce, NEW s \in Sites,
           \A k \in DOMAIN ran : Earlier(ran[k], s), ran' = Append(ran, s)
    PROVE  /\ RunsOnce' /\ Len(ran') = Len(ran) + 1
           /\ \A k \in DOMAIN ran' : ran'[k] = s \/ Earlier(ran'[k], s)
<1>1. /\ DOMAIN ran = 1..Len(ran) /\ DOMAIN ran' = 1..(Len(ran) + 1)
      /\ Len(ran) \in Nat /\ ran'[Len(ran) + 1] = s
      /\ \A k \in DOMAIN ran : ran'[k] = ran[k] /\ ran[k] \in Sites
      /\ Len(ran') = Len(ran) + 1
  OBVIOUS
<1>2. ~ Earlier(s, s)
  BY DEF Earlier, Sites
<1>3. RunsOnce'
  BY <1>1, <1>2 DEF RunsOnce
<1>4. QED
  BY <1>1, <1>3

\* Steps of a pass that make no call leave what ran behind the sandbox.
LEMMA StillAccounted ==
    ASSUME TypeOK, Accounted(vm, host_calls), vm.at # "error",
           MovesOn(vm, vm') \/ Site(vm') = Site(vm), vm' \in VMs,
           host_calls' \in Nat, host_calls' >= host_calls, ran' = ran
    PROVE  Accounted(vm, host_calls)'
<1>1. /\ ran \in Seq(Sites) /\ Len(ran) \in Nat /\ host_calls \in Nat
      /\ \A k \in DOMAIN ran : ran[k] \in Sites
  BY DEF TypeOK
<1>2. Len(ran') <= host_calls'
  BY <1>1 DEF Accounted
<1>3. vm'.at # "error" => \A k \in DOMAIN ran : Earlier(ran[k], Site(vm'))
  BY <1>1 DEF Accounted, MovesOn
<1>4. QED
  BY <1>2, <1>3 DEF Accounted, Site

LEMMA RunsStep ==
    PlainCode /\ RunsKept /\ TypeOK /\ FuturesInv /\ RunsInv /\ [Next]_vars
        => RunsInv'
<1> SUFFICES ASSUME PlainCode, RunsKept, TypeOK, FuturesInv, RunsInv,
                    [Next]_vars
             PROVE  RunsInv'
  OBVIOUS
<1> DEFINE Between == {"start", "load", "pool", "begin", "raised", "paused"}
<1>1. /\ vm \in VMs /\ Site(vm) \in Sites /\ ran \in Seq(Sites)
      /\ Len(ran) \in Nat /\ host_calls \in Nat /\ Budget \in Nat
  <2>1. vm \in VMs
    BY DEF TypeOK
  <2>2. Site(vm) \in Sites
    BY <2>1, MachineOps
  <2>3. QED
    BY <2>1, <2>2, ToolsAssumption DEF TypeOK
<1>2. RunsOnce /\ BudgetSpansLegs
  BY DEF RunsInv
<1>3. ran' = ran => RunsOnce' /\ BudgetSpansLegs'
  BY <1>2 DEF RunsOnce, BudgetSpansLegs
\* Between the legs, and up to the pass of a leg
<1>4. CASE /\ phase \in Between /\ phase' \in Between
           /\ phase' \in {"pool", "begin"} => record' = store
           /\ phase' = "begin" /\ defer' => record' = NoRecord
           /\ UNCHANGED <<store, ran>>
  BY <1>3, <1>4 DEF RunsInv, Accounted, Site
<1>5. CASE StartLeg \/ OpenPool \/ BurnRaises \/ Pause \/ HumanAnswers
  BY <1>4, <1>5 DEF StartLeg, OpenPool, BurnRaises, Pause, HumanAnswers,
                    Environment, RunsInv
<1>6. CASE LoadRecord
  <2>1. record' = store /\ store' = store
    BY <1>6 DEF LoadRecord, load_hitl_record, Fault, RunsKept
  <2>2. QED
    BY <1>4, <1>6, <2>1 DEF LoadRecord
\* The leg's end with a result
<1>7. CASE /\ phase' \notin Between /\ phase' # "pass" /\ ran' = ran
  BY <1>3, <1>7 DEF RunsInv
<1>8. CASE EntryFails \/ OverBudget \/ ReportError \/ FinishPass
             \/ DeleteRecord \/ Commit
  BY <1>7, <1>8
  DEF EntryFails, PoolFails, CheckoutFails, LoadFails, OverBudget, ReportError,
      FinishPass, DeleteRecord, Commit, Return, AfterResult, Environment
<1>9. ~ Crash
  BY DEF Crash, Fault, RunsKept
\* A pass begins
<1>10. CASE FeedStart
  <2>1. ran = <<>>
    BY <1>10 DEF FeedStart, RunsInv
  <2>2. /\ vm'.at = "run" /\ host_calls' = 0 /\ phase' = "pass"
        /\ UNCHANGED <<store, record, defer, ran>>
    BY <1>10 DEF FeedStart, FreshVM
  <2>3. QED
    BY <1>3, <1>10, <2>1, <2>2 DEF FeedStart, RunsInv, Accounted
<1>11. CASE LoadSnapshot
  <2>1. record = store /\ record # NoRecord /\ vm' = record.vm
           /\ host_calls' = record.host_calls /\ phase = "begin" /\ phase' = "pass"
           /\ UNCHANGED <<store, record, defer, ran>>
    BY <1>11 DEF LoadSnapshot, RunsInv
  <2>2. Accounted(record.vm, record.host_calls) /\ ~ defer
    BY <2>1 DEF RunsInv
  <2>3. Accounted(vm, host_calls)'
    BY <2>1, <2>2 DEF Accounted, Site
  <2>4. vm'.at # "await"
    BY <2>1 DEF FuturesInv, Frozen
  <2>5. QED
    BY <1>3, <2>1, <2>2, <2>3, <2>4 DEF RunsInv
\* Steps of a pass in which nothing runs
<1>12. CASE /\ phase = "pass" /\ vm.at # "error" /\ vm'.at # "await"
            /\ MovesOn(vm, vm') \/ Site(vm') = Site(vm)
            /\ host_calls' \in {host_calls, host_calls + 1}
            /\ UNCHANGED <<phase, store, record, defer, ran>>
  <2>1. vm' \in VMs /\ host_calls' \in Nat /\ host_calls' >= host_calls
    BY <1>1, <1>12, TypeStep DEF TypeOK
  <2>2. ~ defer => Accounted(vm, host_calls)'
    BY <1>12, <2>1, StillAccounted DEF RunsInv
  <2>3. QED
    BY <1>3, <1>12, <2>2 DEF RunsInv
<1>13. CASE Sandbox
  <2>1. vm.at = "run" /\ vm'.at # "await"
    BY <1>13, SandboxNeverWaits DEF Sandbox
  <2>2. MovesOn(vm, vm') \/ Site(vm') = Site(vm)
    BY <1>1, <1>13, SandboxMovesOn DEF Sandbox
  <2>3. QED
    BY <1>12, <1>13, <2>1, <2>2 DEF Sandbox, InPass
<1>14. CASE LimitExceeded
  <2>1. vm'.at = "error" /\ Site(vm') = Site(vm) /\ vm.at = "run"
    BY <1>1, <1>14 DEF LimitExceeded, Site, VMs
  <2>2. QED
    BY <1>12, <1>14, <2>1 DEF LimitExceeded, InPass
<1>15. CASE LookUpName \/ ServiceOs \/ RejectCall \/ DeferCall
              \/ EagerCallFailsEarly
  <2>1. /\ phase = "pass" /\ vm.at # "error"
        /\ host_calls' \in {host_calls, host_calls + 1}
        /\ UNCHANGED <<phase, store, record, defer, ran>>
    BY <1>15
    DEF LookUpName, ServiceOs, RejectCall, DeferCall, EagerCallFailsEarly,
        HostCall, InPass
  <2>2. vm' \in {Advance(vm), Throw(vm), ReturnFuture(vm)}
    BY <1>15
    DEF LookUpName, ServiceOs, RejectCall, DeferCall, EagerCallFailsEarly
  <2>3. vm'.at # "await" /\ MovesOn(vm, vm')
    BY <1>1, <2>2, OneInstructionOn, AnswersMoveOn
  <2>4. QED
    BY <1>12, <2>1, <2>3
<1>16. CASE EagerCall
  <2>1. /\ phase = "pass" /\ vm.at = "call" /\ ~ defer
        /\ host_calls' = host_calls + 1 /\ host_calls' <= Budget
        /\ ran' = Append(ran, Site(vm)) /\ vm' \in {Throw(vm), ReturnValue(vm)}
        /\ UNCHANGED <<phase, store, record, defer>>
    BY <1>16 DEF EagerCall, HostCall, InPass, Act
  <2>2. Len(ran) <= host_calls /\ \A k \in DOMAIN ran : Earlier(ran[k], Site(vm))
    BY <2>1 DEF RunsInv, Accounted
  <2>3. /\ RunsOnce' /\ Len(ran') = Len(ran) + 1
        /\ \A k \in DOMAIN ran' : ran'[k] = Site(vm) \/ Earlier(ran'[k], Site(vm))
    <3> DEFINE s == Site(vm)
    <3>1. s \in Sites /\ ran' = Append(ran, s)
             /\ \A k \in DOMAIN ran : Earlier(ran[k], s)
      BY <1>1, <2>1, <2>2
    <3> HIDE DEF s
    <3>2. /\ RunsOnce' /\ Len(ran') = Len(ran) + 1
          /\ \A k \in DOMAIN ran' : ran'[k] = s \/ Earlier(ran'[k], s)
      BY <1>1, <1>2, <3>1, OneMoreRun
    <3>3. QED
      BY <3>2 DEF s
  <2>4. vm'.at # "await" /\ MovesOn(vm, vm')
    BY <1>1, <2>1, OneInstructionOn, AnswersMoveOn
  <2>5. ran' \in Seq(Sites)
    BY <1>1, <2>1
  <2>6. vm'.at # "error" => \A k \in DOMAIN ran' : Earlier(ran'[k], Site(vm'))
    BY <2>3, <2>4, <2>5 DEF MovesOn
  <2>7. Len(ran') <= host_calls' /\ Len(ran') <= Budget
    BY <1>1, <2>1, <2>2, <2>3
  <2>8. QED
    BY <2>1, <2>3, <2>4, <2>6, <2>7
    DEF RunsInv, Accounted, BudgetSpansLegs, Site
<1>17. CASE EagerInterrupt
  <2>1. /\ phase = "pass" /\ phase' = "raised" /\ vm.at = "call" /\ ~ defer
        /\ store' = PausedRecord /\ host_calls' = host_calls + 1
        /\ UNCHANGED <<vm, ran>>
    BY <1>17 DEF EagerInterrupt, persist_hitl_record, HostCall, InPass, Fault,
                 RunsKept
  <2>2. store'.vm = vm /\ store'.host_calls = host_calls
    BY <1>1, <2>1 DEF PausedRecord
  <2>3. Accounted(vm, host_calls) /\ store' # NoRecord
    <3>1. PausedRecord \in Records
      BY <1>17 DEF EagerInterrupt, HostCall, PausedRecord, Records, TypeOK
    <3>2. QED
      BY <2>1, <3>1, StoreAssumption DEF RunsInv
  <2>4. Accounted(store.vm, store.host_calls)'
    BY <2>1, <2>2, <2>3 DEF Accounted, Site
  <2>5. QED
    BY <1>3, <2>1, <2>3, <2>4 DEF RunsInv
<1>18. ~ BatchCall /\ ~ BatchInterrupt /\ ~ ResumeBatch
  BY DEF BatchCall, BatchInterrupt, ResumeBatch, Batch, InPass, RunsInv
<1>19. CASE RetryAfterError \/ RetryUnawaited
  <2>1. phase = "pass" /\ deferred # {} /\ RestartEagerly
    BY <1>19 DEF RetryAfterError, RetryUnawaited, SymptomOfDeferral, InPass
  <2>2. defer
    BY <2>1 DEF FuturesInv, DeferredMirrorsFutures
  <2>3. record = NoRecord /\ store = record /\ ran = <<>>
    BY <2>1, <2>2 DEF RunsInv
  <2>4. QED
    BY <1>3, <2>1, <2>3 DEF RestartEagerly, RunsInv
<1>20. CASE UNCHANGED vars
  BY <1>3, <1>20 DEF RunsInv, Accounted, Site
<1>21. QED
  BY <1>5, <1>6, <1>8, <1>9, <1>10, <1>11, <1>13, <1>14, <1>15, <1>16, <1>17,
     <1>18, <1>19, <1>20
  DEF Next, Leg, Enter, Dispatch, EndPass, Finished

LEMMA RunsAlways == PlainCode /\ RunsKept => (Spec => []RunsInv)
<1> SUFFICES ASSUME PlainCode, RunsKept PROVE Spec => []RunsInv
  OBVIOUS
<1>1. TypeOK /\ FuturesInv /\ RunsInv /\ [Next]_vars => RunsInv'
  BY RunsStep
<1>2. QED
  BY <1>1, TypeInit, TypeStep, FuturesInit, FuturesStep, RunsInit, PTL DEF Spec

\* Plain calls, a store that keeps every record, a process that lives: over any
\* pauses, limits, tools that fail or are missing, no host call acts twice
\* (README 149 "host tools that already ran are not re-invoked").
THEOREM ToolsRunOnce == PlainCode /\ RunsKept => (Spec => []RunsOnce)
<1>1. RunsInv => RunsOnce
  BY DEF RunsInv
<1>2. QED
  BY <1>1, RunsAlways, PTL

\* Under the same conditions no more calls act over all the legs than the
\* iteration budget allows (README 149 "the iteration budget keeps counting").
THEOREM BudgetIsForTheCall == PlainCode /\ RunsKept => (Spec => []BudgetSpansLegs)
<1>1. RunsInv => BudgetSpansLegs
  BY DEF RunsInv
<1>2. QED
  BY <1>1, RunsAlways, PTL

----------------------------------------------------------------------------
(***************************************************************************)
(* Code without an await                                                   *)
(***************************************************************************)
LEMMA SameSteps ==
    ASSUME PlainCode, TypeOK, OutputInv, [AsyncNext]_asyncVars
    PROVE  [Next]_vars
<1>1. prog \in Programs
  BY DEF TypeOK
<1>2. ~ Batch
  BY <1>1 DEF PlainCode, OutputInv, AtItsCode, Code, Batch, InPass
<1>3. ~ StartTasks /\ ~ GatherReturns
  BY <1>2 DEF StartTasks, GatherReturns, AsyncBatch
<1>4. \A s \in vm.pending : ~ TaskAsks(s) /\ ~ TaskActs(s) /\ ~ GatherRaises(s)
  BY <1>2 DEF TaskAsks, TaskActs, GatherRaises, AsyncBatch
<1>5. CASE Shared
  BY <1>5, SharedSteps
<1>6. CASE UNCHANGED asyncVars
  BY <1>6 DEF asyncVars
<1>7. QED
  BY <1>3, <1>4, <1>5, <1>6, StepKinds

\* On code that awaits nothing, run_async does what run_sync does, whatever
\* fails and whichever of them each leg is given to: what is proved of the one
\* holds of the other.
THEOREM DriversAgree == PlainCode => (AsyncSpec => Spec)
<1> SUFFICES ASSUME PlainCode PROVE AsyncSpec => Spec
  OBVIOUS
<1>1. AsyncInit => Init /\ OutputInv
  BY OutputInit DEF AsyncInit
<1>2. AsyncInv => TypeOK
  BY DEF AsyncInv
<1>3. TypeOK /\ OutputInv /\ [AsyncNext]_asyncVars => [Next]_vars
  BY SameSteps
<1>4. QED
  BY <1>1, <1>2, <1>3, AsyncInvariant, AsyncOutput, PTL DEF AsyncSpec, Spec
=============================================================================
