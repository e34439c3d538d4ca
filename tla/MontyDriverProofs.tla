------------------------- MODULE MontyDriverProofs --------------------------
(***************************************************************************)
(* Facts about MontyDriver that hold for every choice of its constants:    *)
(* any set of snippets, tools and faults, any budget.                      *)
(***************************************************************************)
EXTENDS DriverInvariants, TLAPS

----------------------------------------------------------------------------
(***************************************************************************)
(* The sandbox                                                             *)
(***************************************************************************)

\* The machine whose futures have come to something
Resolved(v, payloads) ==
    [v EXCEPT !.futures = @ \ v.pending, !.pending = {}, !.held = {},
              !.given = @ \cup {<<s, payloads[s]>> : s \in v.pending}]

LEMMA ResolvedTyped ==
    ASSUME NEW v \in VMs, NEW payloads,
           \A s \in v.pending : payloads[s] \in Payloads
    PROVE  /\ Resolved(v, payloads) \in VMs
           /\ Resolved(v, payloads).futures = v.futures \ v.pending
           /\ Resolved(v, payloads).pending = {}
           /\ Resolved(v, payloads).held = {}
           /\ Resolved(v, payloads).pc = v.pc
           /\ Resolved(v, payloads).iter = v.iter
           /\ Resolved(v, payloads).given
                  = v.given \cup {<<s, payloads[s]>> : s \in v.pending}
<1>1. {<<s, payloads[s]>> : s \in v.pending} \subseteq Sites \X Payloads
  BY DEF VMs
<1>2. QED
  BY <1>1 DEF Resolved, VMs

LEMMA ResolvedGoesOn ==
    ASSUME NEW v, NEW payloads
    PROVE  ResolveFutures(v, payloads) \in {Advance(Resolved(v, payloads)),
                                           Throw(Resolved(v, payloads))}
BY DEF ResolveFutures, Resolved

\* What the driver hands to the sandbox, and what the sandbox does by itself,
\* leaves a virtual machine behind.
LEMMA MachineOps ==
    ASSUME NEW v \in VMs
    PROVE  /\ Site(v) \in Sites
           /\ Advance(v) \in VMs /\ Throw(v) \in VMs
           /\ ReturnValue(v) \in VMs /\ ReturnFuture(v) \in VMs
           /\ \A payloads : (\A s \in v.pending : payloads[s] \in Payloads)
                  => ResolveFutures(v, payloads) \in VMs
<1>1. Site(v) \in Sites
  BY DEF VMs, Site, Sites
<1>2. ASSUME NEW w \in VMs
      PROVE  /\ Advance(w) \in VMs /\ LoopAgain(w) \in VMs
             /\ Throw(w) \in VMs
  <2>0. w.pc + 1 \in Nat \ {0} /\ w.iter + 1 \in Nat
    BY DEF VMs
  <2>1. Advance(w) \in VMs
    BY <2>0 DEF VMs, Modes, Advance
  <2>2. LoopAgain(w) \in VMs
    BY <2>0 DEF VMs, Modes, LoopAgain
  <2>3. [w EXCEPT !.at = "error"] \in VMs
    BY DEF VMs, Modes
  <2>4. QED
    BY <2>1, <2>2, <2>3 DEF Throw
<1>3. ASSUME NEW w \in VMs, Site(v) = Site(w)
      PROVE  Keep(w) \in VMs
  BY <1>3, <1>1 DEF VMs, Keep
<1>4. ReturnValue(v) \in VMs
  BY <1>2, <1>3 DEF ReturnValue
<1>5. ReturnFuture(v) \in VMs
  <2>1. DEFINE w == [v EXCEPT !.futures = @ \cup {Site(v)}]
  <2>2. w \in VMs /\ Site(w) = Site(v)
    BY <1>1 DEF VMs, Site
  <2>3. QED
    BY <1>2, <1>3, <2>2 DEF ReturnFuture
<1>6. ASSUME NEW payloads, \A s \in v.pending : payloads[s] \in Payloads
      PROVE  ResolveFutures(v, payloads) \in VMs
  <2>1. Resolved(v, payloads) \in VMs
    BY <1>6, ResolvedTyped
  <2>2. QED
    BY <1>2, <2>1, ResolvedGoesOn
<1>7. QED
  BY <1>1, <1>2, <1>4, <1>5, <1>6

\* The sandbox's own steps keep to the virtual machines.
LEMMA MachineSteps ==
    ASSUME vm \in VMs, stdout \in Seq(Nat), VmStep
    PROVE  vm' \in VMs /\ stdout' \in Seq(Nat)
<1>1. CASE VmPrint
  BY <1>1, MachineOps, SMTT(30) DEF VmPrint, VMs
<1>2. CASE VmRaise
  BY <1>2, MachineOps DEF VmRaise
<1>3. CASE VmSuspend
  BY <1>3 DEF VmSuspend, VMs, Modes
<1>4. CASE VmAwait
  <2>1. [vm EXCEPT !.held = {}] \in VMs
    BY DEF VMs
  <2>2. CASE vm' = Advance(vm) \/ vm' = Throw([vm EXCEPT !.held = {}])
    BY <1>4, <2>1, <2>2, MachineOps DEF VmAwait
  <2>3. CASE vm' = [vm EXCEPT !.at = "await",
                              !.pending = IF Code(vm).use = "all"
                                          THEN vm.futures ELSE vm.held]
    BY <1>4, <2>3 DEF VmAwait, VMs, Modes
  <2>4. QED
    BY <1>4, <2>2, <2>3 DEF VmAwait
<1>5. CASE VmComplete
  BY <1>5 DEF VmComplete, VMs, Modes
<1>6. QED
  BY <1>1, <1>2, <1>3, <1>4, <1>5 DEF VmStep

----------------------------------------------------------------------------
(***************************************************************************)
(* Types                                                                   *)
(***************************************************************************)
USE DEF sandboxVars, ledgerVars, passVars, history, vars, settled, NoResults

\* A result, wherever it is returned, is one.
LEMMA ReturnTyped ==
    ASSUME NEW result \in Results, Return(result)
    PROVE  outcome' \in Results /\ phase' \in Phases
BY DEF Return, AfterResult, Phases

LEMMA ErrorResultTyped ==
    ASSUME NEW type \in Errors PROVE ErrorResult(type) \in Results
BY DEF ErrorResult, Results

\* A tool that acts takes an answer that exists.
LEMMA ActTyped ==
    ASSUME TypeOK, NEW tool, NEW site \in Sites, MayAct(tool), Act(tool, site)
    PROVE  /\ ran' \in Seq(Sites) /\ legRan' \in SUBSET Sites
           /\ counter' \in Nat /\ deliveries' \in SUBSET (Sites \X Sites)
           /\ answers' \in Seq(Sites) /\ asked' \in Sites
<1>1. CASE tool \in Gated
  <2>1. NextAnswer \in Sites
    BY <1>1 DEF MayAct, Answered, NextAnswer, TypeOK
  <2>2. QED
    BY <1>1, <2>1 DEF Act, TypeOK
<1>2. CASE tool \notin Gated
  BY <1>2 DEF Act, TypeOK
<1>3. QED
  BY <1>1, <1>2

LEMMA NoneSettled ==
    /\ results = NoResults => settled = {} /\ results \in [settled -> Payloads]
    /\ results' = NoResults => settled' = {} /\ results' \in [settled' -> Payloads]
    /\ results' = results => settled' = settled
BY DEF NoResults, settled

\* A batch that is settled has a payload for each call.
LEMMA PayloadsTyped ==
    ASSUME TypeOK, vm.pending \subseteq settled
    PROVE  \A s \in vm.pending : results[s] \in Payloads
BY DEF TypeOK

LEMMA TypeInit == Init => TypeOK
<1>1. FreshVM \in VMs
  BY DEF FreshVM, VMs, Modes
<1>2. NoQuestion \in Sites /\ Unfinished \in Results
  BY DEF NoQuestion, Sites, Unfinished, Results, Errors
<1>3. ASSUME Init
      PROVE  defer \in BOOLEAN /\ executed_any \in BOOLEAN
                /\ pending_answer \in BOOLEAN
  BY <1>3, Zenon DEF Init
<1>4. ASSUME Init
      PROVE  /\ prog \in Programs /\ vm \in VMs /\ stdout \in Seq(Nat)
             /\ store \in Records \cup {NoRecord} /\ faults \in Nat
             /\ answers \in Seq(Sites) /\ counter \in Nat /\ asked \in Sites
             /\ phase \in Phases /\ hostTools \in SUBSET HostTools
             /\ record \in Records \cup {NoRecord} /\ outcome \in Results
             /\ deferred \in SUBSET Sites
             /\ host_calls \in Nat /\ stdout_prefix \in Seq(Nat)
             /\ interrupts_answered \in Nat
             /\ settled \subseteq Sites /\ results \in [settled -> Payloads]
             /\ ran \in Seq(Sites) /\ legRan \in SUBSET Sites
             /\ deliveries \in SUBSET (Sites \X Sites)
  BY <1>4, <1>1, <1>2, NoneSettled, FaultsAssumption DEF Init, Phases
<1>5. QED
  BY <1>3, <1>4, Zenon DEF TypeOK

LEMMA TypeStep == TypeOK /\ [Next]_vars => TypeOK'
<1> SUFFICES ASSUME TypeOK, [Next]_vars PROVE TypeOK'
  OBVIOUS
<1> USE DEF Phases
<1>1. /\ Site(vm) \in Sites
      /\ Advance(vm) \in VMs /\ Throw(vm) \in VMs
      /\ ReturnValue(vm) \in VMs /\ ReturnFuture(vm) \in VMs
      /\ FreshVM \in VMs
  <2>1. vm \in VMs
    BY DEF TypeOK
  <2>2. QED
    BY <2>1, MachineOps DEF FreshVM, VMs, Modes
<1>2. NoQuestion \in Sites /\ Placeholder \in Sites /\ Unfinished \in Results
  BY DEF NoQuestion, Placeholder, Sites, Unfinished, Results, Errors
<1>3. ASSUME NEW kind, Fault(kind) PROVE faults' \in Nat
  BY <1>3 DEF Fault, TypeOK
<1>4. /\ ErrorResult("HostError") \in Results
      /\ ErrorResult("MontyError") \in Results
      /\ ErrorResult("IterationBudgetExceeded") \in Results
      /\ ErrorResult("UnawaitedHostCallError") \in Results
  BY ErrorResultTyped DEF Errors
<1>5. CASE StartLeg
  BY <1>5, <1>3 DEF StartLeg, TypeOK, NoFault
<1>6. CASE LoadRecord
  BY <1>6, <1>3 DEF LoadRecord, load_hitl_record, TypeOK, NoFault
<1>7. CASE OpenPool
  BY <1>7 DEF OpenPool, TypeOK
<1>8. CASE FeedStart
  <2>1. executed_any' \in BOOLEAN /\ pending_answer' \in BOOLEAN
    BY <1>8, Zenon DEF FeedStart, FreshPass
  <2>2. QED
    BY <1>8, <1>1, <2>1 DEF FeedStart, FreshPass, TypeOK
<1>9. CASE LoadSnapshot
  <2>1. record \in Records
    BY <1>9 DEF LoadSnapshot, TypeOK
  <2>2. executed_any' \in BOOLEAN /\ pending_answer' \in BOOLEAN
    BY <1>9, Zenon DEF LoadSnapshot, FreshPass
  <2>3. QED
    BY <1>9, <2>1, <2>2 DEF LoadSnapshot, BurnAnsweredInterrupts, FreshPass,
                      TypeOK, Records
<1>10. CASE BurnRaises
  BY <1>10, <1>2 DEF BurnRaises, TypeOK
<1>11. CASE Sandbox
  BY <1>11, MachineSteps DEF Sandbox, TypeOK
<1>12. CASE LookUpName \/ ServiceOs
  BY <1>12, <1>1 DEF LookUpName, ServiceOs, TypeOK
<1>13. CASE RejectCall
  BY <1>13, <1>1 DEF RejectCall, TypeOK
<1>14. CASE OverBudget
  BY <1>14, <1>4, ReturnTyped DEF OverBudget, HostCall, TypeOK
<1>15. CASE DeferCall
  BY <1>15, <1>1 DEF DeferCall, HostCall, TypeOK
<1>16. CASE EagerCall
  <2>1. /\ ran' \in Seq(Sites) /\ legRan' \in SUBSET Sites
        /\ counter' \in Nat /\ deliveries' \in SUBSET (Sites \X Sites)
        /\ answers' \in Seq(Sites) /\ asked' \in Sites
    BY <1>16, <1>1, ActTyped DEF EagerCall
  <2>2. interrupts_answered' \in Nat /\ pending_answer' \in BOOLEAN
    <3>1. pending_answer' \in BOOLEAN
      BY <1>16, Zenon DEF EagerCall, AnswerConsumed
    <3>2. interrupts_answered' \in {interrupts_answered, interrupts_answered + 1}
      BY <1>16, Zenon DEF EagerCall, AnswerConsumed
    <3>3. QED
      BY <3>1, <3>2 DEF TypeOK
  <2>3. QED
    BY <1>16, <1>1, <2>1, <2>2 DEF EagerCall, HostCall, TypeOK
<1>17. CASE EagerInterrupt
  <2>1. PausedRecord \in Records
    BY <1>17 DEF EagerInterrupt, HostCall, PausedRecord, Records, TypeOK
  <2>2. QED
    BY <1>17, <1>1, <1>3, <2>1 DEF EagerInterrupt, persist_hitl_record,
                                   HostCall, TypeOK, NoFault
<1>18. CASE BatchCall
  <2>1. PICK s \in vm.pending : BatchCall!2!(s)
    BY <1>18 DEF BatchCall
  <2>2. s \in Sites
    BY <2>1 DEF TypeOK, VMs
  <2>3. /\ ran' \in Seq(Sites) /\ legRan' \in SUBSET Sites
        /\ counter' \in Nat /\ deliveries' \in SUBSET (Sites \X Sites)
        /\ answers' \in Seq(Sites) /\ asked' \in Sites
    <3>1. CASE s \in deferred
      BY <2>1, <2>2, <3>1, ActTyped
    <3>2. CASE s \notin deferred
      BY <2>1, <3>2 DEF TypeOK
    <3>3. QED
      BY <3>1, <3>2
  <2>4. /\ settled' \subseteq Sites /\ results' \in [settled' -> Payloads]
    <3>1. CameTo(s) \in Payloads /\ NoHostCall \in Payloads
      BY <2>2 DEF CameTo, NoHostCall, Payloads, Sites
    <3>2. \A t \in settled : results[t] \in Payloads
      BY DEF TypeOK
    <3>3. QED
      BY <2>1, <2>2, <3>1, <3>2 DEF TypeOK
  <2>5. QED
    BY <1>18, <2>1, <2>3, <2>4 DEF BatchCall, TypeOK
<1>19. CASE BatchInterrupt
  BY <1>19 DEF BatchInterrupt, TypeOK, VMs
<1>20. CASE ResumeBatch
  <2>1. ResolveFutures(vm, results) \in VMs
    BY <1>20, PayloadsTyped, MachineOps DEF ResumeBatch, TypeOK
  <2>2. QED
    BY <1>20, <2>1, NoneSettled DEF ResumeBatch, TypeOK
<1>21. CASE RetryAfterError \/ RetryUnawaited
  BY <1>21 DEF RetryAfterError, RetryUnawaited, RestartEagerly, TypeOK
<1>22. CASE ReportError
  BY <1>22, <1>4, ReturnTyped DEF ReportError, TypeOK
<1>23. CASE FinishPass
  <2>1. [error |-> "none", stdout |-> stdout_prefix \o stdout] \in Results
    BY DEF Results, Errors, TypeOK
  <2>2. QED
    BY <1>23, <1>4, <2>1, ReturnTyped DEF FinishPass, TypeOK
<1>24. CASE DeleteRecord
  BY <1>24, <1>3 DEF DeleteRecord, delete_hitl_record, TypeOK, NoFault
<1>25. CASE PoolFails
  BY <1>25, <1>3, <1>4 DEF PoolFails, TypeOK
<1>26. CASE CheckoutFails
  BY <1>26, <1>3, <1>4, ReturnTyped DEF CheckoutFails, TypeOK
<1>27. CASE LoadFails
  <2>1. counter' \in Nat
    BY <1>27 DEF LoadFails, BurnAnsweredInterrupts, TypeOK, Records
  <2>2. QED
    BY <1>27, <1>3, <1>4, <2>1, ReturnTyped DEF LoadFails, TypeOK
<1>28. CASE LimitExceeded
  <2>1. [vm EXCEPT !.at = "error"] \in VMs
    BY DEF TypeOK, VMs, Modes
  <2>2. QED
    BY <1>28, <1>3, <2>1 DEF LimitExceeded, TypeOK
<1>29. CASE EagerCallFailsEarly
  <2>1. interrupts_answered' \in Nat /\ pending_answer' \in BOOLEAN
    <3>1. pending_answer' \in BOOLEAN
      BY <1>29, Zenon DEF EagerCallFailsEarly, AnswerConsumed
    <3>2. interrupts_answered' \in {interrupts_answered, interrupts_answered + 1}
      BY <1>29, Zenon DEF EagerCallFailsEarly, AnswerConsumed
    <3>3. QED
      BY <3>1, <3>2 DEF TypeOK
  <2>2. QED
    BY <1>29, <1>1, <1>3, <2>1 DEF EagerCallFailsEarly, HostCall, TypeOK
<1>30. CASE Commit \/ Pause
  BY <1>30 DEF Commit, Pause, Environment, TypeOK
<1>31. CASE HumanAnswers
  BY <1>31, <1>2 DEF HumanAnswers, Environment, TypeOK
<1>32. CASE Crash
  BY <1>32, <1>2, <1>3 DEF Crash, Environment, TypeOK
<1>33. CASE UNCHANGED vars
  BY <1>33 DEF TypeOK
<1>34. QED
  BY <1>5, <1>6, <1>7, <1>8, <1>9, <1>10, <1>11, <1>12, <1>13, <1>14, <1>15,
     <1>16, <1>17, <1>18, <1>19, <1>20, <1>21, <1>22, <1>23, <1>24, <1>25,
     <1>26, <1>27, <1>28, <1>29, <1>30, <1>31, <1>32, <1>33
  DEF Next, Leg, Enter, Dispatch, EndPass, EntryFails, Finished

\* Every variable of the driver keeps to its kind: in particular the counters
\* taken back for an interrupted call never become negative, and no tool takes
\* an answer that is not there (_driver.py 247-274).
THEOREM TypeCorrect == Spec => []TypeOK
<1>1. QED
  BY TypeInit, TypeStep, PTL DEF Spec

----------------------------------------------------------------------------
(***************************************************************************)
(* The deferred dictionary and the sandbox's futures                       *)
(***************************************************************************)

\* Neither the next instruction nor an exception changes what is pending.
LEMMA GoingOn ==
    \A u \in VMs : /\ Advance(u).futures = u.futures
                   /\ Advance(u).pending = u.pending
                   /\ Advance(u).at = "run"
                   /\ Throw(u).futures = u.futures
                   /\ Throw(u).pending = u.pending
                   /\ Throw(u).at \in {"run", "error"}
BY DEF Advance, Throw, VMs

\* Going on after a call that was answered at once, or not at all, changes no
\* future and leaves no batch behind.
LEMMA AnsweredAtOnce ==
    ASSUME NEW v \in VMs
    PROVE  \A w \in {Advance(v), Throw(v), ReturnValue(v)} :
              /\ w.futures = v.futures /\ w.pending = v.pending
              /\ w.at \in {"run", "error"}
<1>1. /\ Keep(v) \in VMs /\ Keep(v).futures = v.futures
      /\ Keep(v).pending = v.pending
  <2>1. Site(v) \in Sites
    BY MachineOps
  <2>2. QED
    BY <2>1 DEF Keep, VMs
<1>2. /\ LoopAgain(v).futures = v.futures /\ LoopAgain(v).pending = v.pending
      /\ LoopAgain(v).at = "run"
  BY DEF LoopAgain, VMs
<1>3. QED
  BY <1>1, <1>2, GoingOn DEF ReturnValue

LEMMA AnsweredLater ==
    ASSUME NEW v \in VMs
    PROVE  /\ ReturnFuture(v).futures = v.futures \cup {Site(v)}
           /\ ReturnFuture(v).pending = v.pending
           /\ ReturnFuture(v).at \in {"run", "error"}
<1> DEFINE w == [v EXCEPT !.futures = @ \cup {Site(v)}]
<1>1. Site(v) \in Sites /\ Site(w) = Site(v)
  BY MachineOps DEF Site, VMs
<1>2. /\ w \in VMs /\ w.futures = v.futures \cup {Site(v)}
      /\ w.pending = v.pending
  BY <1>1 DEF VMs
<1>3. /\ Keep(w) \in VMs /\ Keep(w).futures = w.futures
      /\ Keep(w).pending = w.pending
  BY <1>1, <1>2 DEF Keep, VMs
<1>4. /\ LoopAgain(w).futures = w.futures /\ LoopAgain(w).pending = w.pending
      /\ LoopAgain(w).at = "run"
  BY <1>2 DEF LoopAgain, VMs
<1>5. QED
  BY <1>2, <1>3, <1>4, GoingOn DEF ReturnFuture

LEMMA BatchAnswered ==
    ASSUME NEW v \in VMs, NEW payloads,
           \A s \in v.pending : payloads[s] \in Payloads
    PROVE  /\ ResolveFutures(v, payloads).futures = v.futures \ v.pending
           /\ ResolveFutures(v, payloads).pending = {}
           /\ ResolveFutures(v, payloads).at \in {"run", "error"}
BY ResolvedTyped, ResolvedGoesOn, GoingOn

\* Without an await in the code the sandbox never waits for futures.
LEMMA SandboxNeverWaits ==
    ASSUME PlainCode, TypeOK, VmStep
    PROVE  vm.at = "run" /\ vm'.at # "await"
<1>1. vm \in VMs /\ prog \in Programs
  BY DEF TypeOK
<1>2. CASE VmPrint \/ VmRaise
  <2>1. vm.at = "run" /\ vm' \in {Advance(vm), Throw(vm)}
    BY <1>2 DEF VmPrint, VmRaise, Running
  <2>2. QED
    BY <1>1, <2>1, GoingOn
<1>3. CASE VmSuspend
  BY <1>1, <1>3 DEF VmSuspend, Running, VMs
<1>4. CASE VmAwait
  <2>1. vm.pc \in DOMAIN prog
    BY <1>1, <1>4, ProgramsAreCode DEF VmAwait, Running, VMs
  <2>2. QED
    BY <1>1, <1>4, <2>1 DEF VmAwait, Code, PlainCode
<1>5. CASE VmComplete
  BY <1>1, <1>5 DEF VmComplete, VMs
<1>6. QED
  BY <1>2, <1>3, <1>4, <1>5 DEF VmStep

LEMMA FuturesInit == Init => FuturesInv
BY DEF Init, FuturesInv, Frozen, DeferredMirrorsFutures, FreshVM

LEMMA FuturesStep == TypeOK /\ FuturesInv /\ [Next]_vars => FuturesInv'
<1> SUFFICES ASSUME TypeOK, FuturesInv, [Next]_vars PROVE FuturesInv'
  OBVIOUS
<1> USE DEF FuturesInv, DeferredMirrorsFutures
<1>1. vm \in VMs
  BY DEF TypeOK
\* Steps that leave the pass and touch neither record nor store
<1>2. CASE phase' # "pass" /\ UNCHANGED <<store, record>>
  BY <1>2 DEF Frozen
\* Steps within a pass that answer a snapshot at once
<1>3. CASE /\ phase = "pass" /\ vm.at # "await" /\ vm'.at # "await"
           /\ vm'.futures = vm.futures /\ vm'.pending = vm.pending
           /\ UNCHANGED <<phase, store, record, defer, deferred, settled>>
  BY <1>3 DEF Frozen
<1>4. CASE LoadRecord
  BY <1>4 DEF LoadRecord, load_hitl_record, Frozen
<1>5. CASE DeleteRecord
  BY <1>5 DEF DeleteRecord, delete_hitl_record, Frozen
<1>6. CASE FeedStart
  BY <1>6 DEF FeedStart, FreshPass, FreshVM, Frozen
<1>7. CASE LoadSnapshot
  BY <1>7 DEF LoadSnapshot, FreshPass, Frozen
<1>8. CASE Sandbox
  <2>1. CASE VmPrint \/ VmRaise
    <3>1. vm.at = "run" /\ vm' \in {Advance(vm), Throw(vm)}
      BY <2>1 DEF VmPrint, VmRaise, Running
    <3>2. QED
      BY <1>1, <1>3, <1>8, <3>1, GoingOn DEF Sandbox, InPass
  <2>2. CASE VmSuspend
    BY <1>1, <1>3, <1>8, <2>2 DEF Sandbox, InPass, VmSuspend, Running, VMs
  <2>3. CASE VmComplete
    BY <1>1, <1>3, <1>8, <2>3 DEF Sandbox, InPass, VmComplete, VMs
  <2>4. CASE VmAwait
    <3>1. vm.at = "run" /\ vm.pending = {} /\ settled = {}
      BY <1>8, <2>4 DEF Sandbox, InPass, VmAwait, Running
    <3>2. CASE vm' = Advance(vm)
      BY <1>1, <1>3, <1>8, <3>1, <3>2, GoingOn DEF Sandbox, InPass
    <3>3. CASE vm' = Throw([vm EXCEPT !.held = {}])
      <4>1. [vm EXCEPT !.held = {}] \in VMs
        BY <1>1 DEF VMs
      <4>2. vm'.futures = vm.futures /\ vm'.pending = vm.pending
               /\ vm'.at # "await"
        BY <1>1, <3>3, <4>1, GoingOn DEF VMs
      <4>3. QED
        BY <1>3, <1>8, <3>1, <4>2 DEF Sandbox, InPass
    <3>4. CASE /\ vm.held \subseteq vm.futures
               /\ vm' = [vm EXCEPT !.at = "await",
                                   !.pending = IF Code(vm).use = "all"
                                               THEN vm.futures ELSE vm.held]
      BY <1>1, <1>8, <3>1, <3>4 DEF Sandbox, InPass, Frozen, VMs
    <3>5. QED
      BY <2>4, <3>2, <3>3, <3>4 DEF VmAwait
  <2>5. QED
    BY <1>8, <2>1, <2>2, <2>3, <2>4 DEF Sandbox, VmStep
<1>9. CASE LookUpName \/ ServiceOs \/ RejectCall \/ EagerCall
             \/ EagerCallFailsEarly
  <2>1. vm' \in {Advance(vm), Throw(vm), ReturnValue(vm)}
    BY <1>9 DEF LookUpName, ServiceOs, RejectCall, EagerCall,
                EagerCallFailsEarly
  <2>2. /\ phase = "pass" /\ vm.at \in {"name", "os", "call"}
        /\ UNCHANGED <<phase, store, record, defer, deferred, settled>>
    BY <1>9 DEF LookUpName, ServiceOs, RejectCall, EagerCall,
                EagerCallFailsEarly, HostCall, InPass
  <2>3. QED
    BY <1>1, <1>3, <2>1, <2>2, AnsweredAtOnce
<1>10. CASE LimitExceeded
  BY <1>1, <1>3, <1>10 DEF LimitExceeded, InPass, VMs
<1>11. CASE DeferCall
  <2>1. settled = {} /\ defer
    BY <1>11 DEF DeferCall, HostCall, InPass
  <2>2. QED
    BY <1>1, <1>11, <2>1, AnsweredLater DEF DeferCall, HostCall, InPass, Frozen
<1>12. CASE EagerInterrupt
  <2>1. Frozen(PausedRecord)
    BY <1>12 DEF EagerInterrupt, HostCall, InPass, PausedRecord, Frozen
  <2>2. QED
    BY <1>12, <2>1 DEF EagerInterrupt, persist_hitl_record, Frozen
<1>13. CASE BatchCall
  <2>1. PICK s \in vm.pending : BatchCall!2!(s)
    BY <1>13 DEF BatchCall
  <2>2. s \in vm.pending \ settled /\ settled' = settled \cup {s}
           /\ deferred' = deferred \ {s}
    BY <2>1 DEF NextPending
  <2>3. QED
    BY <1>13, <2>2 DEF BatchCall, Batch, InPass, Frozen
<1>14. CASE ResumeBatch
  <2>1. settled = vm.pending
    BY <1>14 DEF ResumeBatch, Batch, InPass
  <2>2. QED
    BY <1>1, <1>14, <2>1, BatchAnswered, PayloadsTyped
    DEF ResumeBatch, Batch, InPass, Frozen
<1>15. CASE StartLeg \/ OpenPool \/ BurnRaises \/ OverBudget \/ BatchInterrupt
             \/ EndPass \/ EntryFails
  <2>1. AfterResult # "pass"
    BY DEF AfterResult
  <2>2. QED
    BY <1>2, <1>15, <2>1
    DEF StartLeg, OpenPool, BurnRaises, OverBudget, BatchInterrupt, EndPass,
        EntryFails, RetryAfterError, RetryUnawaited, RestartEagerly,
        ReportError, FinishPass, PoolFails, CheckoutFails, LoadFails, Return
<1>16. CASE Commit \/ Pause \/ HumanAnswers \/ Crash
  BY <1>2, <1>16 DEF Commit, Pause, HumanAnswers, Crash, Environment
<1>17. CASE UNCHANGED vars
  BY <1>17 DEF Frozen
<1>18. QED
  BY <1>4, <1>5, <1>6, <1>7, <1>8, <1>9, <1>10, <1>11, <1>12, <1>13, <1>14,
     <1>15, <1>16, <1>17
  DEF Next, Leg, Enter, Dispatch, Finished

\* The driver's dictionary of deferred calls and the sandbox's futures agree
\* in every pass, so a FutureSnapshot never lists a call the driver cannot
\* run (_driver.py 212-226).
THEOREM FuturesMirrored == Spec => []DeferredMirrorsFutures
<1>1. Spec => []FuturesInv
  BY TypeInit, TypeStep, FuturesInit, FuturesStep, PTL DEF Spec
<1>2. FuturesInv => DeferredMirrorsFutures
  BY DEF FuturesInv
<1>3. QED
  BY <1>1, <1>2, PTL

----------------------------------------------------------------------------
(***************************************************************************)
(* No call twice in a leg                                                  *)
(***************************************************************************)

\* w is past every call that v has reached, or an error has stopped it.
MovesOn(v, w) ==
    w.at # "error" =>
        \A s \in Sites : s = Site(v) \/ Earlier(s, Site(v)) => Earlier(s, Site(w))

LEMMA NextPlace ==
    \A u, v \in VMs : Site(u) = Site(v) =>
        MovesOn(u, Advance(v)) /\ MovesOn(u, LoopAgain(v)) /\ MovesOn(u, Throw(v))
<1> SUFFICES ASSUME NEW u \in VMs, NEW v \in VMs, Site(u) = Site(v)
             PROVE  MovesOn(u, Advance(v)) /\ MovesOn(u, LoopAgain(v))
                       /\ MovesOn(u, Throw(v))
  OBVIOUS
<1>1. /\ Site(Advance(v)) = <<v.pc + 1, 0>>
      /\ Site(LoopAgain(v)) = <<v.pc, v.iter + 1>>
      /\ Site(v) = <<v.pc, v.iter>> /\ v.pc \in Nat /\ v.iter \in Nat
  BY DEF Advance, LoopAgain, Site, VMs
<1>2. MovesOn(u, Advance(v)) /\ MovesOn(u, LoopAgain(v))
  BY <1>1 DEF MovesOn, Earlier, Sites
<1>3. MovesOn(u, [v EXCEPT !.at = "error"])
  BY DEF MovesOn, VMs
<1>4. QED
  BY <1>2, <1>3 DEF Throw

LEMMA AnswersMoveOn ==
    ASSUME NEW v \in VMs
    PROVE  \A w \in {Advance(v), Throw(v), ReturnValue(v), ReturnFuture(v)} :
              MovesOn(v, w)
<1>1. Keep(v) \in VMs /\ Site(Keep(v)) = Site(v)
  BY MachineOps DEF Keep, Site, VMs
<1>2. MovesOn(v, Advance(v)) /\ MovesOn(v, Throw(v)) /\ MovesOn(v, ReturnValue(v))
  BY <1>1, NextPlace DEF ReturnValue
<1>3. MovesOn(v, ReturnFuture(v))
  <2> DEFINE w == [v EXCEPT !.futures = @ \cup {Site(v)}]
  <2>1. w \in VMs /\ Site(w) = Site(v)
    BY MachineOps DEF Site, VMs
  <2>2. Keep(w) \in VMs /\ Site(Keep(w)) = Site(v)
    BY <2>1, MachineOps DEF Keep, Site, VMs
  <2>3. QED
    BY <2>1, <2>2, NextPlace DEF ReturnFuture
<1>4. QED
  BY <1>2, <1>3

LEMMA ResumeMovesOn ==
    ASSUME NEW v \in VMs, NEW payloads,
           \A s \in v.pending : payloads[s] \in Payloads
    PROVE  MovesOn(v, ResolveFutures(v, payloads))
<1>1. Resolved(v, payloads) \in VMs /\ Site(Resolved(v, payloads)) = Site(v)
  BY ResolvedTyped DEF Site
<1>2. QED
  BY <1>1, NextPlace, ResolvedGoesOn

\* Suspending or waiting stays where it is; everything else moves on.
LEMMA SandboxMovesOn ==
    ASSUME vm \in VMs, VmStep
    PROVE  MovesOn(vm, vm') \/ Site(vm') = Site(vm)
<1>1. CASE VmPrint \/ VmRaise
  BY <1>1, AnswersMoveOn DEF VmPrint, VmRaise
<1>2. CASE VmSuspend \/ VmComplete
  BY <1>2 DEF VmSuspend, VmComplete, Site, VMs
<1>3. CASE VmAwait
  <2>1. [vm EXCEPT !.held = {}] \in VMs
           /\ Site([vm EXCEPT !.held = {}]) = Site(vm)
    BY DEF Site, VMs
  <2>2. CASE vm' = Advance(vm) \/ vm' = Throw([vm EXCEPT !.held = {}])
    BY <2>1, <2>2, NextPlace
  <2>3. CASE vm' = [vm EXCEPT !.at = "await",
                              !.pending = IF Code(vm).use = "all"
                                          THEN vm.futures ELSE vm.held]
    BY <2>3 DEF Site, VMs
  <2>4. QED
    BY <1>3, <2>2, <2>3 DEF VmAwait
<1>4. QED
  BY <1>1, <1>2, <1>3 DEF VmStep

LEMMA CallsInit == Init => CallsInv
BY DEF Init, CallsInv

LEMMA CallsStep ==
    TypeOK /\ FuturesInv /\ CallsInv /\ [Next]_vars => CallsInv'
<1> SUFFICES ASSUME TypeOK, FuturesInv, CallsInv, [Next]_vars PROVE CallsInv'
  OBVIOUS
<1> USE DEF CallsInv
<1>1. vm \in VMs /\ Site(vm) \in Sites /\ legRan \subseteq Sites
         /\ deferred \subseteq Sites
  BY MachineOps DEF TypeOK
<1>2. phase = "pass" /\ ~ defer => deferred = {}
  BY DEF FuturesInv, DeferredMirrorsFutures
<1>3. phase = "pass" /\ vm.at # "error" => Site(vm) \notin legRan \cup deferred
  BY <1>1 DEF Earlier, Sites
\* Outside the passes
<1>4. CASE /\ phase' \notin {"load", "pool", "begin", "pass"}
  BY <1>4
<1>5. CASE StartLeg \/ LoadRecord \/ OpenPool
  BY <1>5 DEF StartLeg, LoadRecord, OpenPool
<1>6. CASE FeedStart \/ LoadSnapshot
  BY <1>6 DEF FeedStart, LoadSnapshot, FreshPass
\* Within a pass, nothing run and nothing deferred
<1>7. CASE /\ phase = "pass" /\ vm.at # "error"
           /\ MovesOn(vm, vm') \/ Site(vm') = Site(vm)
           /\ UNCHANGED <<phase, defer, deferred, executed_any, legRan>>
  BY <1>1, <1>7 DEF MovesOn
<1>8. CASE Sandbox
  <2>1. vm.at # "error"
    BY <1>8 DEF Sandbox, VmStep, VmPrint, VmRaise, VmSuspend, VmAwait,
                VmComplete, Running
  <2>2. QED
    BY <1>1, <1>7, <1>8, <2>1, SandboxMovesOn DEF Sandbox, InPass
<1>9. CASE LookUpName \/ ServiceOs \/ RejectCall \/ EagerCallFailsEarly
             \/ ResumeBatch
  <2>1. /\ phase = "pass" /\ vm.at # "error"
        /\ UNCHANGED <<phase, defer, deferred, executed_any, legRan>>
    BY <1>9 DEF LookUpName, ServiceOs, RejectCall, EagerCallFailsEarly,
                ResumeBatch, HostCall, Batch, InPass
  <2>2. MovesOn(vm, vm')
    <3>1. CASE ResumeBatch
      BY <1>1, <3>1, ResumeMovesOn, PayloadsTyped DEF ResumeBatch
    <3>2. QED
      BY <1>1, <1>9, <3>1, AnswersMoveOn
      DEF LookUpName, ServiceOs, RejectCall, EagerCallFailsEarly
  <2>3. QED
    BY <1>7, <2>1, <2>2
<1>10. CASE LimitExceeded
  BY <1>1, <1>10 DEF LimitExceeded, InPass, VMs
<1>11. CASE DeferCall
  <2>1. /\ phase = "pass" /\ vm.at = "call" /\ deferred' = deferred \cup {Site(vm)}
        /\ UNCHANGED <<phase, defer, executed_any, legRan>>
    BY <1>11 DEF DeferCall, HostCall, InPass
  <2>2. MovesOn(vm, vm')
    BY <1>1, <1>11, AnswersMoveOn DEF DeferCall
  <2>3. QED
    BY <1>1, <1>3, <2>1, <2>2 DEF MovesOn
<1>12. CASE EagerCall
  <2>1. /\ phase = "pass" /\ vm.at = "call" /\ ~ defer
        /\ legRan' = legRan \cup {Site(vm)}
        /\ UNCHANGED <<phase, defer, deferred, executed_any>>
    BY <1>12 DEF EagerCall, HostCall, InPass, Act
  <2>2. MovesOn(vm, vm')
    BY <1>1, <1>12, AnswersMoveOn DEF EagerCall
  <2>3. QED
    BY <1>1, <1>2, <1>3, <2>1, <2>2 DEF MovesOn
<1>13. CASE BatchCall
  <2>1. PICK s \in vm.pending : BatchCall!2!(s)
    BY <1>13 DEF BatchCall
  <2>2. s \in deferred
    BY <1>13, <2>1
    DEF BatchCall, Batch, InPass, NextPending, FuturesInv,
        DeferredMirrorsFutures
  <2>3. /\ legRan' = legRan \cup {s} /\ deferred' = deferred \ {s}
        /\ executed_any'
    <3>1. Act(ToolAt(s), s) /\ deferred' = deferred \ {s}
      BY <2>1, <2>2
    <3>2. executed_any' = (executed_any \/ s \in deferred)
      BY <2>1
    <3>3. QED
      BY <2>2, <3>1, <3>2, Zenon DEF Act
  <2>4. QED
    BY <1>13, <2>2, <2>3 DEF BatchCall, Batch, InPass
\* The ends of a pass: a restart has executed nothing
<1>14. CASE RetryAfterError \/ RetryUnawaited
  BY <1>2, <1>14
  DEF RetryAfterError, RetryUnawaited, RestartEagerly, SymptomOfDeferral, InPass
<1>15. CASE OverBudget \/ EagerInterrupt \/ BatchInterrupt \/ ReportError
             \/ FinishPass \/ DeleteRecord \/ BurnRaises \/ EntryFails
  BY <1>4, <1>15
  DEF OverBudget, EagerInterrupt, BatchInterrupt, ReportError, FinishPass,
      DeleteRecord, BurnRaises, EntryFails, PoolFails, CheckoutFails,
      LoadFails, Return, AfterResult
<1>16. CASE Commit \/ Pause \/ HumanAnswers \/ Crash
  BY <1>4, <1>16 DEF Commit, Pause, HumanAnswers, Crash
<1>17. CASE UNCHANGED vars
  BY <1>17
<1>18. QED
  BY <1>5, <1>6, <1>8, <1>9, <1>10, <1>11, <1>12, <1>13, <1>14, <1>15, <1>16,
     <1>17
  DEF Next, Leg, Enter, Dispatch, EndPass, Finished

\* Only a call that is deferred or that the sandbox is at can act.
LEMMA ActsOnce ==
    TypeOK /\ FuturesInv /\ CallsInv /\ [Next]_vars
        => [ran' # ran => ran'[Len(ran')] \notin legRan]_vars
<1> SUFFICES ASSUME TypeOK, FuturesInv, CallsInv, Next, ran' # ran
             PROVE  ran'[Len(ran')] \notin legRan
  OBVIOUS
<1>1. EagerCall \/ BatchCall
  BY DEF Next, Leg, Enter, Dispatch, EndPass, EntryFails, Finished, StartLeg,
         LoadRecord, OpenPool, FeedStart, LoadSnapshot, BurnRaises, Sandbox,
         LookUpName, ServiceOs, RejectCall, OverBudget, DeferCall,
         EagerInterrupt, BatchInterrupt, ResumeBatch, RetryAfterError,
         RetryUnawaited, RestartEagerly, ReportError, FinishPass,
         DeleteRecord, Commit, Pause, PoolFails, CheckoutFails, LoadFails,
         LimitExceeded, EagerCallFailsEarly, HumanAnswers, Crash, Environment
<1>2. ASSUME NEW s \in Sites, ran' = Append(ran, s), s \notin legRan
      PROVE  ran'[Len(ran')] \notin legRan
  BY <1>2 DEF TypeOK
<1>3. CASE EagerCall
  <2>1. ran' = Append(ran, Site(vm)) /\ phase = "pass" /\ vm.at = "call"
    BY <1>3 DEF EagerCall, HostCall, InPass, Act
  <2>2. Site(vm) \in Sites /\ Site(vm) \notin legRan
    <3>1. Site(vm) \in Sites
      BY MachineOps DEF TypeOK
    <3>2. Site(vm) \in legRan => Earlier(Site(vm), Site(vm))
      BY <2>1 DEF CallsInv
    <3>3. QED
      BY <3>1, <3>2 DEF Earlier, Sites
  <2>3. QED
    BY <1>2, <2>1, <2>2
<1>4. CASE BatchCall
  <2>1. PICK s \in vm.pending : BatchCall!2!(s)
    BY <1>4 DEF BatchCall
  <2>2. s \in deferred /\ ran' = Append(ran, s) /\ phase = "pass"
    BY <1>4, <2>1 DEF BatchCall, Batch, InPass, Act
  <2>3. QED
    BY <1>2, <2>2 DEF TypeOK, CallsInv
<1>5. QED
  BY <1>1, <1>3, <1>4

\* Whatever snippet, tools, budget and faults: one leg never runs the tool of
\* one host call twice, so restarting eagerly is safe (_driver.py 276-281).
THEOREM RestartIsSafe == Spec => OncePerLeg
<1>1. Spec => [](TypeOK /\ FuturesInv /\ CallsInv)
  BY TypeInit, TypeStep, FuturesInit, FuturesStep, CallsInit, CallsStep, PTL
  DEF Spec
<1>2. QED
  BY <1>1, ActsOnce, PTL DEF Spec, OncePerLeg

----------------------------------------------------------------------------
(***************************************************************************)
(* The life of the record                                                  *)
(***************************************************************************)
LEMMA RecordInit == Init => RecordInv
BY DEF Init, RecordInv

LEMMA RecordStep == CleanupKept /\ RecordInv /\ [Next]_vars => RecordInv'
<1> SUFFICES ASSUME CleanupKept, RecordInv, [Next]_vars PROVE RecordInv'
  OBVIOUS
<1> USE DEF RecordInv
\* Steps before the record is read and after the leg has raised
<1>1. CASE StartLeg \/ BurnRaises \/ EagerInterrupt \/ BatchInterrupt
             \/ Pause \/ HumanAnswers \/ Crash
  BY <1>1 DEF StartLeg, BurnRaises, EagerInterrupt, BatchInterrupt, Pause,
              HumanAnswers, Crash
<1>2. CASE LoadRecord
  BY <1>2 DEF LoadRecord, load_hitl_record, Fault, CleanupKept
\* Steps of the leg that go on
<1>3. CASE /\ phase \in {"pool", "begin", "pass"}
           /\ phase' \in {"pool", "begin", "pass"}
           /\ UNCHANGED <<store, record>>
  BY <1>3
<1>4. CASE OpenPool \/ FeedStart \/ LoadSnapshot
  BY <1>3, <1>4 DEF OpenPool, FeedStart, LoadSnapshot
<1>5. CASE Sandbox \/ LimitExceeded \/ LookUpName \/ ServiceOs \/ RejectCall
             \/ ResumeBatch \/ BatchCall
  BY <1>3, <1>5 DEF Sandbox, LimitExceeded, LookUpName, ServiceOs, RejectCall,
                    ResumeBatch, BatchCall, Batch, InPass
<1>6. CASE DeferCall \/ EagerCall \/ EagerCallFailsEarly
  BY <1>3, <1>6
  DEF DeferCall, EagerCall, EagerCallFailsEarly, HostCall, InPass
<1>7. CASE RetryAfterError \/ RetryUnawaited
  BY <1>3, <1>7
  DEF RetryAfterError, RetryUnawaited, RestartEagerly, InPass
\* Steps that end the leg with a result
<1>8. CASE /\ phase \in {"begin", "pass"} /\ phase' = AfterResult
           /\ UNCHANGED <<store, record>>
  BY <1>8 DEF AfterResult
<1>9. CASE CheckoutFails \/ LoadFails \/ OverBudget \/ ReportError
             \/ FinishPass
  BY <1>8, <1>9 DEF CheckoutFails, LoadFails, OverBudget, ReportError,
                    FinishPass, HostCall, InPass, Return
<1>10. ~ PoolFails
  BY DEF PoolFails, Fault, CleanupKept
<1>11. CASE DeleteRecord
  BY <1>11 DEF DeleteRecord, delete_hitl_record, Fault, CleanupKept
<1>12. CASE Commit
  BY <1>12 DEF Commit, Environment
<1>13. CASE UNCHANGED vars
  BY <1>13
<1>14. QED
  BY <1>1, <1>2, <1>4, <1>5, <1>6, <1>7, <1>9, <1>10, <1>11, <1>12, <1>13
  DEF Next, Leg, Enter, EntryFails, Dispatch, EndPass, Finished

\* As long as the pool starts and the store reads and deletes, whatever the
\* code does and however a leg ends, no record outlives its call (README 149).
THEOREM NothingLeftBehind == CleanupKept => (Spec => []RecordGone)
<1> SUFFICES ASSUME CleanupKept PROVE Spec => []RecordGone
  OBVIOUS
<1>1. RecordInv /\ [Next]_vars => RecordInv'
  BY RecordStep
<1>2. RecordInv => RecordGone
  BY DEF RecordInv, RecordGone
<1>3. QED
  BY <1>1, <1>2, RecordInit, PTL DEF Spec
=============================================================================
