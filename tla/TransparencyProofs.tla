-------------------------- MODULE TransparencyProofs -------------------------
(***************************************************************************)
(* Deferred passes, restarts, pauses, records and positional answers are   *)
(* transparent: on straight code the driver implements EvalContract.       *)
(***************************************************************************)
EXTENDS AnswerProofs, DriverRefinesContract

USE DEF sandboxVars, ledgerVars, passVars, history, vars, settled, NoResults

\* Straight code: each call is made once where it stands in the code, and no
\* failure of a tool ends the code.
StraightCode ==
    \A p \in Programs : \A i \in DOMAIN p :
        /\ p[i].op # "await"
        /\ p[i].op = "call" /\ p[i].tool \in HostTools => p[i].use # "loop"
        /\ p[i].op = "call" /\ p[i].tool \in Failing => p[i].catch

\* There is a store, and nothing fails but the deletion of a record.
NothingFails == HasStore /\ FaultKinds \subseteq {"delete"}

Over(run) == run.vm.at = "error" \/ run.vm.pc > Len(prog) \/ run.overBudget

\* The driver is where the one run comes after the instructions before v's,
\* with the same output and as many calls.
OnCourse(v, text, calls) ==
    LET run == Execution[v.pc - 1]
    IN  /\ ~ run.overBudget /\ run.vm.at = "run"
        /\ v.iter = 0
        /\ run.stdout = text /\ Len(run.calls) = calls

\* The first n answers are for calls before v's
BehindIt(v, n) == \A m \in 1..n : answers[m][1] < v.pc

\* The record is frozen at a call which the one run makes next.
RecordOnCourse(r) ==
    /\ OnCourse(r.vm, r.stdout, r.host_calls)
    /\ r.host_calls < Budget
    /\ BehindIt(r.vm, r.interrupts_answered)
    /\ ran = Execution[r.vm.pc - 1].calls

PassOnCourse ==
    /\ ~ executed_any
    /\ vm.at # "error" =>
          /\ OnCourse(vm, stdout_prefix \o stdout, host_calls)
          /\ host_calls <= Budget
          /\ BehindIt(vm, interrupts_answered)
          /\ ~ defer => ran = Execution[vm.pc - 1].calls
    /\ defer /\ deferred = {} => host_calls = 0
    /\ vm.at = "error" /\ (defer => deferred = {}) =>
          /\ vm.pc \in DOMAIN prog
          /\ Execution[vm.pc].vm.at = "error" /\ ~ Execution[vm.pc].overBudget
          /\ ran = Execution[vm.pc].calls

\* The result is that of the one run, whose calls were all made, or none was
\* since there are too many.
Concluded ==
    /\ outcome = IdealRun.result
    /\ \/ ran = IdealRun.calls
       \/ IdealRun.overBudget /\ ran = <<>> /\ answers = <<>>

CourseInv ==
    /\ phase \in {"start", "load", "pool", "begin", "raised", "paused"} =>
          IF store = NoRecord THEN ran = <<>> /\ answers = <<>>
                              ELSE RecordOnCourse(store)
    /\ phase = "pass" => PassOnCourse
    /\ phase \in {"delete", "returned", "committed"} => Concluded

----------------------------------------------------------------------------
(***************************************************************************)
(* The one run                                                             *)
(***************************************************************************)
RunStep(a, k, execution) ==
    IF k = 0 THEN FreshRun
    ELSE CHOOSE next \in {Execute(run) : run \in {execution[k - 1]}} : TRUE

Rec == INSTANCE Recursion WITH Step <- RunStep

LEMMA RunExists ==
    ASSUME NEW n \in Nat
    PROVE  \E f : Rec!Solves({}, 0..n, f)
<1>1. Rec!LooksBack({}, n)
  BY DEF Rec!LooksBack, RunStep
<1>2. QED
  BY <1>1, Rec!CountExists

\* The one run starts afresh and takes one step at a time.
LEMMA RunSteps ==
    ASSUME prog \in Seq(Instrs)
    PROVE  /\ Horizon \in Nat /\ Len(prog) \in 0..Horizon
           /\ Execution[0] = FreshRun
           /\ \A k \in 1..Horizon : Execution[k] = Execute(Execution[k - 1])
<1>1. Horizon \in Nat /\ Len(prog) \in 0..Horizon
  BY ToolsAssumption DEF Horizon
<1>2. \E f : Rec!Solves({}, 0..Horizon, f)
  BY <1>1, RunExists
<1>3. Execution = CHOOSE f : Rec!Solves({}, 0..Horizon, f)
  BY DEF Execution, Rec!Solves, RunStep
<1>4. Rec!Solves({}, 0..Horizon, Execution)
  BY <1>2, <1>3
<1>5. \A k \in 0..Horizon :
         Execution[k] = IF k = 0 THEN FreshRun ELSE
             CHOOSE next \in {Execute(run) : run \in {Execution[k - 1]}} : TRUE
  BY <1>4 DEF Rec!Solves, RunStep
<1>6. \A run : (CHOOSE next \in {Execute(r) : r \in {run}} : TRUE) = Execute(run)
  OBVIOUS
<1>7. QED
  BY <1>1, <1>5, <1>6

LEMMA RunKept == prog' = prog => Execution' = Execution /\ IdealRun' = IdealRun
<1> SUFFICES ASSUME prog' = prog
             PROVE  Execution' = Execution /\ IdealRun' = IdealRun
  OBVIOUS
<1>1. Execution' = Execution
  BY SMT DEF Execution, Horizon, FreshRun, FreshVM, Execute, Afterwards, Counts,
             Code, Site, Advance, ReturnValue, Throw, Loops, LoopAgain, Keep
<1>2. Horizon' = Horizon
  BY DEF Horizon
<1>3. QED
  BY SMT, <1>1, <1>2 DEF IdealRun, Observed, ResultOf, ToolAt, ErrorResult

----------------------------------------------------------------------------
(***************************************************************************)
(* One instruction                                                         *)
(***************************************************************************)
Going(w, v) == w.at = "run" /\ w.pc = v.pc + 1 /\ w.iter = 0

Stopped(w, v) == w.at = "error" /\ w.pc = v.pc /\ w.iter = v.iter

\* The instruction is passed by code whose calls are answered at once
Passed(i) ==
    \/ prog[i].op = "print" \/ prog[i].catch
    \/ prog[i].op = "os" /\ prog[i].use = "serviced"
    \/ prog[i].op = "call" /\ prog[i].tool \in HostTools \ Failing

LEMMA Moves ==
    ASSUME NEW v \in VMs
    PROVE  /\ Going(Advance(v), v)
           /\ Code(v).catch => Going(Throw(v), v)
           /\ ~ Code(v).catch => Stopped(Throw(v), v)
           /\ ~ Loops(v) => Going(ReturnValue(v), v)
           /\ ~ Loops(v) => \/ Going(ReturnFuture(v), v)
                            \/ Stopped(ReturnFuture(v), v)
<1> USE DEF Going, Stopped
<1>1. \A u \in VMs : /\ Going(Advance(u), u)
                     /\ Code(u).catch => Going(Throw(u), u)
                     /\ ~ Code(u).catch => Stopped(Throw(u), u)
  BY DEF Advance, Throw, VMs
<1>2. ASSUME NEW u \in VMs
      PROVE  Keep(u) \in VMs /\ Keep(u).pc = u.pc
  BY MachineOps DEF Keep, VMs
<1>3. ~ Loops(v) => Going(ReturnValue(v), v)
  BY <1>1, <1>2 DEF ReturnValue
<1> DEFINE w == [v EXCEPT !.futures = @ \cup {Site(v)}]
<1>4. w \in VMs /\ w.pc = v.pc /\ w.iter = v.iter
  BY MachineOps DEF VMs
<1>5. ~ Loops(v) => ReturnFuture(v) \in {Advance(Keep(w)), Throw(w), Advance(w)}
  BY DEF ReturnFuture, Loops
<1> HIDE DEF w
<1>6. Going(Advance(w), v) /\ (Going(Throw(w), v) \/ Stopped(Throw(w), v))
  BY <1>1, <1>4
<1>7. Going(Advance(Keep(w)), v)
  BY <1>1, <1>2, <1>4
<1> HIDE DEF Going, Stopped
<1>8. QED
  BY <1>1, <1>3, <1>5, <1>6, <1>7

\* What the hypothesis says of the instruction that v is at
LEMMA StraightHere ==
    ASSUME StraightCode, TypeOK, NEW v \in VMs, v.pc \in DOMAIN prog
    PROVE  /\ Code(v) \in Instrs /\ Code(v).op # "await"
           /\ Code(v).op = "call" /\ Code(v).tool \in HostTools => ~ Loops(v)
           /\ Code(v).op = "call" /\ Code(v).tool \in Failing => Code(v).catch
BY ProgramsAreCode DEF StraightCode, TypeOK, Code, Loops

LEMMA AfterInstruction ==
    ASSUME StraightCode, TypeOK, NEW v \in VMs, v.pc \in DOMAIN prog
    PROVE  /\ Afterwards(v) \in VMs
           /\ Passed(v.pc) => Going(Afterwards(v), v)
           /\ ~ Passed(v.pc) => Stopped(Afterwards(v), v)
<1>1. Advance(v) \in VMs /\ Throw(v) \in VMs /\ ReturnValue(v) \in VMs
  BY MachineOps
<1>2. /\ Code(v).op = "call" /\ Code(v).tool \in HostTools => ~ Loops(v)
      /\ Code(v).use = "serviced" => ~ Loops(v)
  BY StraightHere DEF Loops
<1>3. QED
  BY <1>1, <1>2, Moves DEF Afterwards, Passed, Code

Runs == [vm : VMs, calls : Seq(Sites), stdout : Seq(Nat), overBudget : BOOLEAN]

\* Calls and output after the instruction that v is at
CallsAfter(v, calls) == IF Counts(v) THEN Append(calls, Site(v)) ELSE calls

TextAfter(v, text) == IF Code(v).op = "print" THEN Append(text, v.pc) ELSE text

LEMMA RunGoesOn ==
    ASSUME StraightCode, TypeOK, NEW run \in Runs, ~ Over(run)
    PROVE  /\ Execute(run) \in Runs
           /\ Counts(run.vm) /\ Len(run.calls) = Budget =>
                 /\ Execute(run).overBudget /\ Execute(run).vm = run.vm
                 /\ Execute(run).calls = run.calls
           /\ ~ (Counts(run.vm) /\ Len(run.calls) = Budget) =>
                 /\ Execute(run).vm = Afterwards(run.vm)
                 /\ Execute(run).calls = CallsAfter(run.vm, run.calls)
                 /\ Execute(run).stdout = TextAfter(run.vm, run.stdout)
                 /\ ~ Execute(run).overBudget
<1>1. /\ run.vm \in VMs /\ run.vm.pc \in Nat \ {0} /\ prog \in Seq(Instrs)
      /\ run.calls \in Seq(Sites) /\ run.stdout \in Seq(Nat)
  BY ProgramsAreCode DEF Runs, VMs, TypeOK
<1>2. run.vm.pc \in DOMAIN prog
  BY <1>1 DEF Over
<1>3. Afterwards(run.vm) \in VMs /\ Site(run.vm) \in Sites
  BY <1>1, <1>2, AfterInstruction, MachineOps
<1>4. /\ CallsAfter(run.vm, run.calls) \in Seq(Sites)
      /\ TextAfter(run.vm, run.stdout) \in Seq(Nat)
  BY <1>1, <1>3 DEF CallsAfter, TextAfter
<1>5. CASE Counts(run.vm) /\ Len(run.calls) = Budget
  <2>1. Execute(run) = [run EXCEPT !.overBudget = TRUE]
    BY <1>5 DEF Execute, Over
  <2>2. QED
    BY <1>5, <2>1 DEF Runs
<1>6. CASE ~ (Counts(run.vm) /\ Len(run.calls) = Budget)
  <2>1. Execute(run) = [run EXCEPT !.vm = Afterwards(run.vm),
                                   !.calls = CallsAfter(run.vm, run.calls),
                                   !.stdout = TextAfter(run.vm, run.stdout)]
    BY <1>6 DEF Execute, Over, CallsAfter, TextAfter
  <2>2. QED
    BY <1>3, <1>4, <1>6, <2>1 DEF Runs, Over
<1>7. QED
  BY <1>5, <1>6

LEMMA RunStays == ASSUME NEW run, Over(run) PROVE Execute(run) = run
BY DEF Execute, Over

\* Each step of the one run is an instruction further, until it is over.
LEMMA RunTyped ==
    ASSUME StraightCode, TypeOK
    PROVE  \A k \in 0..Horizon :
              /\ Execution[k] \in Runs
              /\ Execution[k].vm.at \in {"run", "error"}
              /\ k <= Len(prog) /\ Execution[k].vm.at = "run"
                    /\ ~ Execution[k].overBudget =>
                    Execution[k].vm.pc = k + 1 /\ Execution[k].vm.iter = 0
<1> DEFINE Fine(k) ==
              /\ Execution[k] \in Runs
              /\ Execution[k].vm.at \in {"run", "error"}
              /\ k <= Len(prog) /\ Execution[k].vm.at = "run"
                    /\ ~ Execution[k].overBudget =>
                    Execution[k].vm.pc = k + 1 /\ Execution[k].vm.iter = 0
           T == {k \in Nat : k <= Horizon => Fine(k)}
<1>1. prog \in Seq(Instrs) /\ Len(prog) \in Nat
  BY ProgramsAreCode DEF TypeOK
<1>2. 0 \in T
  <2>1. /\ FreshVM \in VMs /\ FreshVM.at = "run"
        /\ FreshVM.pc = 1 /\ FreshVM.iter = 0
    BY DEF FreshVM, VMs, Modes
  <2>2. FreshRun \in Runs /\ FreshRun.vm = FreshVM
    BY <2>1 DEF FreshRun, Runs
  <2>3. Execution[0] = FreshRun
    BY <1>1, RunSteps
  <2>4. QED
    BY <2>1, <2>2, <2>3
<1>3. ASSUME NEW k \in Nat, k \in T PROVE k + 1 \in T
  <2> SUFFICES ASSUME k + 1 <= Horizon PROVE Fine(k + 1)
    OBVIOUS
  <2>1. Fine(k) /\ Execution[k + 1] = Execute(Execution[k])
    BY <1>1, <1>3, RunSteps
  <2>2. CASE Over(Execution[k])
    <3>1. Execution[k + 1] = Execution[k]
      BY <2>1, <2>2, RunStays
    <3>2. k + 1 <= Len(prog) =>
             Execution[k].vm.at = "error" \/ Execution[k].overBudget
      BY <1>1, <2>1, <2>2 DEF Over
    <3>3. QED
      BY <2>1, <3>1, <3>2
  <2>3. CASE ~ Over(Execution[k])
    <3> DEFINE v == Execution[k].vm
    <3>1. v \in VMs /\ v.pc \in DOMAIN prog /\ v.at = "run"
      BY <1>1, <2>1, <2>3 DEF Over, Runs, VMs
    <3>2. k <= Len(prog) => v.pc = k + 1
      BY <2>1, <2>3 DEF Over
    <3>3. CASE Counts(v) /\ Len(Execution[k].calls) = Budget
      BY <2>1, <2>3, <3>1, <3>3, RunGoesOn
    <3>4. CASE ~ (Counts(v) /\ Len(Execution[k].calls) = Budget)
      <4>1. Execution[k + 1].vm = Afterwards(v) /\ Execution[k + 1] \in Runs
        BY <2>1, <2>3, <3>4, RunGoesOn
      <4>2. Going(Afterwards(v), v) \/ Stopped(Afterwards(v), v)
        BY <3>1, AfterInstruction
      <4>3. QED
        BY <1>1, <3>1, <3>2, <4>1, <4>2 DEF Going, Stopped
    <3>5. QED
      BY <3>3, <3>4
  <2>4. QED
    BY <2>2, <2>3
<1> HIDE DEF T
<1>4. Nat \subseteq T
  BY <1>2, <1>3, Rec!Induction
<1>5. Horizon \in Nat
  BY <1>1, RunSteps
<1>6. QED
  BY <1>4, <1>5 DEF T

LEMMA RunStopped ==
    ASSUME StraightCode, TypeOK, NEW j \in 0..Horizon, Over(Execution[j])
    PROVE  Execution[Horizon] = Execution[j]
<1> DEFINE T == {n \in Nat : j + n <= Horizon => Execution[j + n] = Execution[j]}
<1>1. prog \in Seq(Instrs) /\ Horizon \in Nat /\ j \in Nat
  BY ProgramsAreCode, RunSteps DEF TypeOK
<1>2. 0 \in T
  BY <1>1
<1>3. ASSUME NEW n \in Nat, n \in T PROVE n + 1 \in T
  <2> SUFFICES ASSUME j + (n + 1) <= Horizon
               PROVE  Execution[j + (n + 1)] = Execution[j]
    OBVIOUS
  <2>1. j + (n + 1) \in 1..Horizon /\ (j + (n + 1)) - 1 = j + n
    BY <1>1
  <2>2. Execution[j + (n + 1)] = Execute(Execution[j + n])
    BY <1>1, <2>1, RunSteps
  <2>3. Execution[j + n] = Execution[j]
    BY <1>1, <1>3
  <2>4. QED
    BY <2>2, <2>3, RunStays
<1> HIDE DEF T
<1>4. Nat \subseteq T
  BY <1>2, <1>3, Rec!Induction
<1>5. Horizon - j \in Nat /\ j + (Horizon - j) = Horizon
  BY <1>1
<1>6. Horizon - j \in T /\ Horizon <= Horizon
  BY <1>1, <1>4, <1>5
<1>7. QED
  BY <1>5, <1>6 DEF T

\* t begins with the members of s.
Begins(s, t) == Len(s) <= Len(t) /\ \A m \in 1..Len(s) : t[m] = s[m]

LEMMA RunGrows ==
    ASSUME StraightCode, TypeOK, NEW j \in 0..Horizon
    PROVE  Begins(Execution[j].calls, Execution[Horizon].calls)
<1> DEFINE Calls(k) == Execution[k].calls
           T == {n \in Nat : j + n <= Horizon => Begins(Calls(j), Calls(j + n))}
<1>1. prog \in Seq(Instrs) /\ Horizon \in Nat /\ j \in Nat
  BY ProgramsAreCode, RunSteps DEF TypeOK
<1>2. \A k \in 0..Horizon : Calls(k) \in Seq(Sites) /\ Execution[k] \in Runs
  BY RunTyped DEF Runs
<1>3. 0 \in T
  BY <1>1, <1>2 DEF Begins
<1>4. ASSUME NEW n \in Nat, n \in T PROVE n + 1 \in T
  <2> SUFFICES ASSUME j + (n + 1) <= Horizon
               PROVE  Begins(Calls(j), Calls(j + (n + 1)))
    OBVIOUS
  <2> DEFINE k == j + n
             run == Execution[k]
  <2>1. k \in 0..Horizon /\ k + 1 \in 1..Horizon /\ j + (n + 1) = k + 1
           /\ (k + 1) - 1 = k
    BY <1>1
  <2>2. Execution[k + 1] = Execute(run) /\ run \in Runs
    BY <1>1, <1>2, <2>1, RunSteps
  <2>3. Begins(Calls(j), run.calls)
    BY <1>1, <1>4
  <2> HIDE DEF k
  <2>4. \/ Calls(k + 1) = run.calls
        \/ Calls(k + 1) = Append(run.calls, Site(run.vm))
    <3>1. CASE Over(run)
      BY <2>2, <3>1, RunStays
    <3>2. CASE ~ Over(run)
      <4>1. CASE Counts(run.vm) /\ Len(run.calls) = Budget
        BY <2>2, <3>2, <4>1, RunGoesOn
      <4>2. CASE ~ (Counts(run.vm) /\ Len(run.calls) = Budget)
        BY <2>2, <3>2, <4>2, RunGoesOn DEF CallsAfter
      <4>3. QED
        BY <4>1, <4>2
    <3>3. QED
      BY <3>1, <3>2
  <2>5. /\ run.calls \in Seq(Sites) /\ Calls(j) \in Seq(Sites)
        /\ Site(run.vm) \in Sites
    BY <1>1, <1>2, <2>2, MachineOps DEF Runs
  <2> HIDE DEF run, Calls
  <2>6. Begins(run.calls, Calls(k + 1))
    BY <2>4, <2>5 DEF Begins
  <2>7. Len(Calls(j)) \in Nat /\ Len(run.calls) \in Nat
    BY <2>5
  <2>8. Begins(Calls(j), Calls(k + 1))
    <3>1. Len(Calls(k + 1)) \in Nat
      BY <2>4, <2>5
    <3>2. QED
      BY <2>3, <2>6, <2>7, <3>1 DEF Begins
  <2>9. QED
    BY <2>1, <2>8
<1> HIDE DEF T
<1>5. Nat \subseteq T
  BY <1>3, <1>4, Rec!Induction
<1>6. Horizon - j \in Nat /\ j + (Horizon - j) = Horizon
  BY <1>1
<1>7. Horizon - j \in T /\ Horizon <= Horizon
  BY <1>1, <1>5, <1>6
<1>8. QED
  BY <1>6, <1>7 DEF T

----------------------------------------------------------------------------
(***************************************************************************)
(* The driver on the course of the one run                                 *)
(***************************************************************************)
LEMMA IdealIsLast == IdealRun = Observed(Execution[Horizon])
BY DEF IdealRun

LEMMA OnTheWay ==
    ASSUME StraightCode, TypeOK, NEW v \in VMs, v.pc <= Len(prog) + 1,
           NEW text, NEW calls, OnCourse(v, text, calls)
    PROVE  LET run == Execution[v.pc - 1]
           IN  /\ v.pc - 1 \in 0..Horizon /\ run \in Runs /\ run.vm.pc = v.pc
               /\ Site(run.vm) = Site(v) /\ Site(v) = <<v.pc, 0>>
               /\ Code(run.vm) = Code(v)
<1>1. /\ prog \in Seq(Instrs) /\ Len(prog) \in Nat /\ v.pc \in Nat \ {0}
  BY ProgramsAreCode DEF TypeOK, VMs
<1>2. v.pc - 1 \in 0..Horizon /\ v.pc - 1 <= Len(prog) /\ (v.pc - 1) + 1 = v.pc
  BY <1>1, RunSteps
<1>3. QED
  BY <1>1, <1>2, RunTyped DEF OnCourse, Site, Code

\* The course of the one run after the instruction that v is at
LEMMA NextInstruction ==
    ASSUME StraightCode, TypeOK, NEW v \in VMs, v.pc \in DOMAIN prog,
           NEW text, NEW calls, OnCourse(v, text, calls),
           ~ (Counts(v) /\ calls = Budget)
    PROVE  LET next == Execution[v.pc]
           IN  /\ v.pc \in 1..Horizon /\ ~ next.overBudget
               /\ next.calls = CallsAfter(v, Execution[v.pc - 1].calls)
               /\ next.stdout = TextAfter(v, text)
               /\ Passed(v.pc) => next.vm.at = "run"
               /\ ~ Passed(v.pc) => next.vm.at = "error"
<1> DEFINE run == Execution[v.pc - 1]
<1>1. /\ prog \in Seq(Instrs) /\ Len(prog) \in Nat
      /\ v.pc \in 1..Len(prog) /\ v.pc <= Len(prog) + 1
  BY ProgramsAreCode DEF TypeOK
<1>2. v.pc \in 1..Horizon
  BY <1>1, RunSteps
<1>3. /\ run \in Runs /\ run.vm.pc = v.pc /\ Site(run.vm) = Site(v)
      /\ Code(run.vm) = Code(v)
  BY <1>1, OnTheWay
<1>4. ~ Over(run) /\ run.stdout = text /\ Len(run.calls) = calls
  BY <1>1, <1>3 DEF OnCourse, Over
<1>5. Counts(run.vm) <=> Counts(v)
  BY <1>3 DEF Counts
<1>6. Execution[v.pc] = Execute(run)
  BY <1>1, <1>2, RunSteps
<1> HIDE DEF run
<1>7. /\ Execution[v.pc].vm = Afterwards(run.vm) /\ ~ Execution[v.pc].overBudget
      /\ Execution[v.pc].calls = CallsAfter(run.vm, run.calls)
      /\ Execution[v.pc].stdout = TextAfter(run.vm, run.stdout)
  BY <1>3, <1>4, <1>5, <1>6, RunGoesOn
<1>8. /\ CallsAfter(run.vm, run.calls) = CallsAfter(v, run.calls)
      /\ TextAfter(run.vm, run.stdout) = TextAfter(v, text)
  BY <1>3, <1>4, <1>5 DEF CallsAfter, TextAfter
<1>9. run.vm \in VMs /\ run.vm.pc \in DOMAIN prog
  BY <1>3 DEF Runs
<1>10. /\ Passed(v.pc) => Afterwards(run.vm).at = "run"
       /\ ~ Passed(v.pc) => Afterwards(run.vm).at = "error"
  BY <1>3, <1>9, AfterInstruction DEF Going, Stopped
<1>11. QED
  BY <1>2, <1>7, <1>8, <1>10 DEF run

\* A call that is next is the next one of the ideal run.
LEMMA NextIdealCall ==
    ASSUME StraightCode, TypeOK, NEW v \in VMs, v.pc \in DOMAIN prog,
           NEW text, NEW calls, OnCourse(v, text, calls),
           Counts(v), calls # Budget
    PROVE  /\ calls < Len(IdealRun.calls)
           /\ IdealRun.calls[calls + 1] = Site(v)
           /\ Site(v) \in IdealRun.gated <=> Code(v).tool \in Gated
<1> DEFINE run == Execution[v.pc - 1]
           next == Execution[v.pc]
           last == Execution[Horizon]
<1>1. v.pc \in 1..Horizon /\ next.calls = Append(run.calls, Site(v))
  BY NextInstruction DEF CallsAfter
<1>2. /\ v.pc <= Len(prog) + 1 /\ Site(v) \in Sites
      /\ v.pc \in 0..Horizon /\ Horizon \in 0..Horizon
  <2>1. prog \in Seq(Instrs)
    BY ProgramsAreCode DEF TypeOK
  <2>2. Len(prog) \in Nat /\ v.pc \in 1..Len(prog) /\ Horizon \in Nat
    BY <2>1, RunSteps
  <2>3. Site(v) \in Sites
    BY MachineOps
  <2>4. QED
    BY <1>1, <2>2, <2>3
<1>3. run.calls \in Seq(Sites) /\ Len(run.calls) = calls /\ Site(v) = <<v.pc, 0>>
  BY <1>2, OnTheWay DEF Runs, OnCourse
<1>4. Begins(next.calls, last.calls)
  BY <1>2, RunGrows
<1>5. last.calls \in Seq(Sites)
  BY <1>2, RunTyped DEF Runs
<1> HIDE DEF run, next, last
<1>6. calls < Len(last.calls) /\ last.calls[calls + 1] = Site(v)
  <2>1. /\ Len(next.calls) = calls + 1 /\ next.calls[calls + 1] = Site(v)
        /\ calls \in Nat
    BY <1>1, <1>2, <1>3
  <2>2. Len(last.calls) \in Nat /\ calls + 1 \in 1..Len(next.calls)
    BY <1>5, <2>1
  <2>3. QED
    BY <1>4, <2>1, <2>2 DEF Begins
<1>7. Site(v) \in ToSet(last.calls)
  BY <1>3, <1>5, <1>6 DEF ToSet
<1>8. ToolAt(Site(v)) = Code(v).tool
  BY <1>3 DEF ToolAt, Code
<1>9. IdealRun.calls = last.calls
         /\ IdealRun.gated = {s \in ToSet(last.calls) : ToolAt(s) \in Gated}
  BY IdealIsLast DEF Observed, last
<1>10. QED
  BY <1>6, <1>7, <1>8, <1>9

\* There is no next call if the budget is used up.
LEMMA BudgetEndsIt ==
    ASSUME StraightCode, TypeOK, NEW v \in VMs, v.pc \in DOMAIN prog,
           NEW text, OnCourse(v, text, Budget), Counts(v)
    PROVE  /\ IdealRun.overBudget
           /\ IdealRun.result = ErrorResult("IterationBudgetExceeded")
           /\ IdealRun.calls = Execution[v.pc - 1].calls
<1> DEFINE run == Execution[v.pc - 1]
<1>1. /\ prog \in Seq(Instrs) /\ v.pc \in 1..Len(prog) /\ Len(prog) \in Nat
      /\ v.pc <= Len(prog) + 1
  BY ProgramsAreCode DEF TypeOK
<1>2. v.pc \in 1..Horizon /\ v.pc \in 0..Horizon
  BY <1>1, RunSteps
<1>3. run \in Runs /\ run.vm.pc = v.pc /\ Code(run.vm) = Code(v)
  BY <1>1, OnTheWay
<1>4. ~ Over(run) /\ Len(run.calls) = Budget /\ Counts(run.vm)
  BY <1>1, <1>3 DEF OnCourse, Over, Counts
<1>5. Execution[v.pc] = Execute(run)
  BY <1>1, <1>2, RunSteps
<1> HIDE DEF run
<1>6. Execution[v.pc].overBudget /\ Execution[v.pc].calls = run.calls
  BY <1>3, <1>4, <1>5, RunGoesOn
<1>7. Execution[Horizon] = Execution[v.pc]
  BY <1>2, <1>6, RunStopped DEF Over
<1>8. QED
  BY <1>6, <1>7, IdealIsLast DEF Observed, ResultOf, run

LEMMA EndOfCode ==
    ASSUME StraightCode, TypeOK, NEW v \in VMs, v.pc = Len(prog) + 1,
           NEW text, NEW calls, OnCourse(v, text, calls)
    PROVE  /\ IdealRun.result = [error |-> "none", stdout |-> text]
           /\ IdealRun.calls = Execution[v.pc - 1].calls
<1> DEFINE run == Execution[v.pc - 1]
<1>1. prog \in Seq(Instrs) /\ Len(prog) \in Nat /\ v.pc <= Len(prog) + 1
  BY ProgramsAreCode DEF TypeOK
<1>2. v.pc - 1 \in 0..Horizon /\ run.vm.pc = v.pc
  BY <1>1, OnTheWay
<1>3. Over(run) /\ run.vm.at = "run" /\ ~ run.overBudget /\ run.stdout = text
  BY <1>1, <1>2 DEF OnCourse, Over
<1>4. Execution[Horizon] = run
  BY <1>2, <1>3, RunStopped
<1>5. QED
  BY <1>3, <1>4, IdealIsLast DEF Observed, ResultOf

LEMMA ErrorEndsIt ==
    ASSUME StraightCode, TypeOK, NEW i \in DOMAIN prog,
           Execution[i].vm.at = "error", ~ Execution[i].overBudget
    PROVE  /\ IdealRun.result = ErrorResult("MontyError")
           /\ IdealRun.calls = Execution[i].calls
<1>1. i \in 0..Horizon
  BY RunSteps, ProgramsAreCode DEF TypeOK
<1>2. Execution[Horizon] = Execution[i]
  BY <1>1, RunStopped DEF Over
<1>3. QED
  BY <1>2, IdealIsLast DEF Observed, ResultOf

----------------------------------------------------------------------------
(***************************************************************************)
(* Steps of a pass                                                         *)
(***************************************************************************)
\* What is known of every state
LEMMA OneLineMore ==
    \A s, t \in Seq(Nat) : \A e \in Nat : s \o Append(t, e) = Append(s \o t, e)
OBVIOUS

CourseBasis == TypeOK /\ FuturesInv /\ OutputInv /\ AnswersInv /\ RunsInv

LEMMA Given ==
    ASSUME CourseBasis
    PROVE  /\ TypeOK /\ vm \in VMs /\ prog \in Seq(Instrs) /\ Len(prog) \in Nat
           /\ DOMAIN prog = 1..Len(prog)
           /\ vm.pc \in Nat \ {0} /\ stdout \in Seq(Nat)
           /\ stdout_prefix \in Seq(Nat) /\ ran \in Seq(Sites)
           /\ host_calls \in Nat /\ interrupts_answered \in Nat
           /\ answers \in Seq(Sites) /\ Len(answers) \in Nat
           /\ defer \in BOOLEAN /\ hostTools = HostTools /\ Budget \in Nat
BY ProgramsAreCode, ToolsAssumption DEF CourseBasis, TypeOK, VMs, AnswersInv

\* The instruction has been passed.
LEMMA PassGoesOn ==
    ASSUME StraightCode, CourseBasis, phase = "pass", PassOnCourse,
           vm.at # "error", vm.pc \in DOMAIN prog, Passed(vm.pc),
           Going(vm', vm), stdout' = TextAfter(vm, stdout),
           host_calls' = IF Counts(vm) THEN host_calls + 1 ELSE host_calls,
           Counts(vm) => host_calls' <= Budget,
           ~ defer => ran' = CallsAfter(vm, ran),
           defer /\ deferred' = {} => ~ Counts(vm) /\ deferred = {},
           interrupts_answered' \in 0..Len(answers),
           \A m \in 1..interrupts_answered' : answers[m][1] <= vm.pc,
           UNCHANGED <<prog, answers, defer, executed_any, stdout_prefix>>
    PROVE  PassOnCourse'
<1>1. CourseBasis => TypeOK /\ vm \in VMs
  BY Given
<1>2. /\ Execution' = Execution /\ vm'.at = "run" /\ vm'.pc - 1 = vm.pc
      /\ vm'.iter = 0 /\ vm'.pc = vm.pc + 1
  BY Given, RunKept DEF Going
<1>3. OnCourse(vm, stdout_prefix \o stdout, host_calls)
  BY DEF PassOnCourse
<1>4. ~ (Counts(vm) /\ host_calls = Budget)
  BY Given
<1>5. /\ ~ Execution[vm.pc].overBudget /\ Execution[vm.pc].vm.at = "run"
      /\ Execution[vm.pc].calls = CallsAfter(vm, Execution[vm.pc - 1].calls)
      /\ Execution[vm.pc].stdout = TextAfter(vm, stdout_prefix \o stdout)
  BY <1>1, <1>3, <1>4, NextInstruction
<1>6. TextAfter(vm, stdout_prefix \o stdout) = stdout_prefix \o stdout'
  <2>1. stdout \in Seq(Nat) /\ stdout_prefix \in Seq(Nat) /\ vm.pc \in Nat
    BY Given
  <2>2. stdout_prefix \o Append(stdout, vm.pc)
           = Append(stdout_prefix \o stdout, vm.pc)
    BY <2>1, OneLineMore
  <2>3. QED
    BY <2>2 DEF TextAfter
<1>7. /\ Len(Execution[vm.pc - 1].calls) = host_calls
      /\ Execution[vm.pc - 1].calls \in Seq(Sites)
  <2>1. vm.pc <= Len(prog) + 1
    BY Given
  <2>2. QED
    BY <1>1, <1>3, <2>1, OnTheWay DEF OnCourse, Runs
<1>8. Len(Execution[vm.pc].calls) = host_calls'
  BY <1>1, <1>5, <1>7, MachineOps DEF CallsAfter
<1>9. (OnCourse(vm, stdout_prefix \o stdout, host_calls))'
  BY <1>2, <1>5, <1>6, <1>8 DEF OnCourse
<1>10. (BehindIt(vm, interrupts_answered))'
  <2>1. \A m \in 1..interrupts_answered' : answers[m][1] < vm.pc + 1
    <3> SUFFICES ASSUME NEW m \in 1..interrupts_answered'
                 PROVE  answers[m][1] < vm.pc + 1
      OBVIOUS
    <3>1. answers[m][1] <= vm.pc
      OBVIOUS
    <3>2. m \in DOMAIN answers /\ answers \in Seq(Sites) /\ vm.pc \in Nat
      BY Given
    <3>3. answers[m] \in Sites
      BY <3>2
    <3>4. QED
      BY <3>1, <3>2, <3>3 DEF Sites
  <2>2. QED
    BY <1>2, <2>1 DEF BehindIt
<1>11. ~ defer' => ran' = Execution'[vm'.pc - 1].calls
  BY <1>2, <1>5 DEF PassOnCourse
<1>12. defer' /\ deferred' = {} => host_calls' = 0
  BY DEF PassOnCourse
<1>13. host_calls' <= Budget
  BY DEF PassOnCourse
<1>14. QED
  BY <1>2, <1>9, <1>10, <1>11, <1>12, <1>13 DEF PassOnCourse

\* The code has ended in an error of its own.
LEMMA PassStops ==
    ASSUME StraightCode, CourseBasis, phase = "pass", PassOnCourse,
           vm.at # "error", vm.pc \in DOMAIN prog, ~ Passed(vm.pc),
           Stopped(vm', vm), ~ Counts(vm),
           UNCHANGED <<prog, ran, defer, deferred, executed_any, host_calls>>
    PROVE  PassOnCourse'
<1>1. /\ TypeOK /\ vm \in VMs /\ Execution' = Execution /\ defer \in BOOLEAN
      /\ vm'.at = "error" /\ vm'.pc = vm.pc /\ DOMAIN prog' = DOMAIN prog
  BY Given, RunKept DEF Stopped
<1>2. OnCourse(vm, stdout_prefix \o stdout, host_calls)
  BY DEF PassOnCourse
<1>3. /\ ~ Execution[vm.pc].overBudget /\ Execution[vm.pc].vm.at = "error"
      /\ Execution[vm.pc].calls = Execution[vm.pc - 1].calls
  BY <1>1, <1>2, NextInstruction DEF CallsAfter
<1>4. /\ Len(Execution[vm.pc - 1].calls) = host_calls
      /\ Execution[vm.pc - 1].calls \in Seq(Sites)
  <2>1. vm.pc <= Len(prog) + 1
    BY Given
  <2>2. QED
    BY <1>1, <1>2, <2>1, OnTheWay DEF OnCourse, Runs
<1>5. ~ defer \/ deferred = {} => ran = Execution[vm.pc].calls
  <2>1. CASE ~ defer
    BY <1>3, <2>1 DEF PassOnCourse
  <2>2. CASE defer /\ deferred = {}
    <3>1. host_calls = 0 /\ ran = <<>>
      BY <2>2 DEF PassOnCourse, CourseBasis, RunsInv
    <3>2. Execution[vm.pc - 1].calls = <<>>
      BY <1>4, <3>1
    <3>3. QED
      BY <1>3, <3>1, <3>2
  <2>3. QED
    BY <1>1, <2>1, <2>2
<1>6. QED
  BY <1>1, <1>3, <1>5 DEF PassOnCourse

\* A deferred call's result has been used.
LEMMA PassFails ==
    ASSUME PassOnCourse, phase = "pass", vm'.at = "error", defer', deferred' # {},
           UNCHANGED executed_any
    PROVE  PassOnCourse'
BY DEF PassOnCourse

\* The sandbox is suspended, or done.
LEMMA PassWaits ==
    ASSUME PassOnCourse, vm.at = "run", vm' = [vm EXCEPT !.at = vm'.at],
           vm \in VMs, vm'.at # "error",
           UNCHANGED <<prog, stdout, stdout_prefix, answers, interrupts_answered,
                       ran, defer, deferred, executed_any, host_calls>>
    PROVE  PassOnCourse'
<1>1. Execution' = Execution
  BY RunKept
<1>2. vm'.pc = vm.pc /\ vm'.iter = vm.iter
  BY DEF VMs
<1>3. QED
  BY <1>1, <1>2 DEF PassOnCourse, OnCourse, BehindIt

LEMMA AnswersInRange ==
    ASSUME CourseBasis, phase = "pass"
    PROVE  interrupts_answered \in 0..Len(answers)
BY Given DEF CourseBasis, AnswersInv, InStep, TypeOK

LEMMA AnswersBehind ==
    ASSUME CourseBasis, phase = "pass", PassOnCourse, vm.at # "error"
    PROVE  \A m \in 1..interrupts_answered : answers[m][1] <= vm.pc
<1> SUFFICES ASSUME NEW m \in 1..interrupts_answered
             PROVE  answers[m][1] <= vm.pc
  OBVIOUS
<1>1. m \in DOMAIN answers /\ answers \in Seq(Sites) /\ vm.pc \in Nat
  BY Given, AnswersInRange
<1>2. answers[m] \in Sites /\ answers[m][1] < vm.pc
  BY <1>1 DEF PassOnCourse, BehindIt
<1>3. QED
  BY <1>1, <1>2 DEF Sites

\* An exception other than a host call's is thrown.
LEMMA PassThrows ==
    ASSUME StraightCode, CourseBasis, CourseBasis', phase = "pass", PassOnCourse,
           vm.at # "error", vm.pc \in DOMAIN prog, vm' = Throw(vm),
           Passed(vm.pc) <=> Code(vm).catch, ~ Counts(vm), Code(vm).op # "print",
           UNCHANGED <<prog, stdout, stdout_prefix, answers, interrupts_answered,
                       ran, defer, deferred, executed_any, host_calls>>
    PROVE  PassOnCourse'
<1>1. vm \in VMs /\ (Passed(vm.pc) \/ ~ Passed(vm.pc))
  BY Given
<1>2. CASE Passed(vm.pc)
  <2>1. Going(vm', vm)
    BY <1>1, <1>2, Moves
  <2>2. stdout' = TextAfter(vm, stdout) /\ ran' = CallsAfter(vm, ran)
    BY DEF TextAfter, CallsAfter
  <2>3. /\ interrupts_answered' \in 0..Len(answers)
        /\ \A m \in 1..interrupts_answered' : answers[m][1] <= vm.pc
    BY AnswersInRange, AnswersBehind
  <2>4. QED
    BY <1>2, <2>1, <2>2, <2>3, PassGoesOn
<1>3. CASE ~ Passed(vm.pc)
  <2>1. Stopped(vm', vm)
    BY <1>1, <1>3, Moves
  <2>2. QED
    BY <1>3, <2>1, PassStops
<1>4. QED
  BY <1>1, <1>2, <1>3

LEMMA CourseSandbox ==
    ASSUME StraightCode, CourseBasis, CourseBasis', CourseInv, Sandbox
    PROVE  PassOnCourse'
<1>1. /\ phase = "pass" /\ PassOnCourse /\ VmStep /\ vm \in VMs /\ vm.at = "run"
      /\ UNCHANGED <<prog, stdout_prefix, answers, interrupts_answered, ran,
                     defer, deferred, executed_any, host_calls>>
  BY Given DEF Sandbox, InPass, CourseInv, VmStep, VmPrint, VmRaise, VmSuspend,
               VmAwait, VmComplete, Running
<1>2. Running => vm.pc \in DOMAIN prog
  BY Given DEF Running
<1>3. CASE VmPrint
  <2>1. /\ vm.pc \in DOMAIN prog /\ Code(vm).op = "print" /\ vm' = Advance(vm)
        /\ stdout' = Append(stdout, vm.pc)
    BY <1>2, <1>3 DEF VmPrint
  <2>2. Going(vm', vm) /\ Passed(vm.pc) /\ ~ Counts(vm)
    BY <1>1, <2>1, Moves DEF Passed, Counts, Code
  <2>3. stdout' = TextAfter(vm, stdout) /\ ran' = CallsAfter(vm, ran)
    BY <1>1, <2>1, <2>2 DEF TextAfter, CallsAfter
  <2>4. /\ interrupts_answered' \in 0..Len(answers)
        /\ \A m \in 1..interrupts_answered' : answers[m][1] <= vm.pc
    BY <1>1, AnswersInRange, AnswersBehind
  <2>5. QED
    BY <1>1, <2>1, <2>2, <2>3, <2>4, PassGoesOn
<1>4. CASE VmRaise
  <2>1. /\ vm.pc \in DOMAIN prog /\ Code(vm).op = "raise" /\ vm' = Throw(vm)
        /\ stdout' = stdout
    BY <1>2, <1>4 DEF VmRaise
  <2>2. (Passed(vm.pc) <=> Code(vm).catch) /\ ~ Counts(vm) /\ Code(vm).op # "print"
    BY <2>1 DEF Passed, Counts, Code
  <2>3. QED
    BY <1>1, <2>1, <2>2, PassThrows
<1>5. CASE VmSuspend
  <2>1. /\ vm' = [vm EXCEPT !.at = Code(vm).op] /\ stdout' = stdout
        /\ Code(vm).op # "error"
    BY <1>5 DEF VmSuspend
  <2>2. vm'.at = Code(vm).op
    BY <1>1, <2>1 DEF VMs
  <2>3. QED
    BY <1>1, <2>1, <2>2, PassWaits
<1>6. ~ VmAwait
  BY <1>1, <1>2, StraightHere, Given DEF VmAwait
<1>7. CASE VmComplete
  <2>1. vm' = [vm EXCEPT !.at = "complete"] /\ stdout' = stdout
    BY <1>7 DEF VmComplete
  <2>2. vm'.at = "complete"
    BY <1>1, <2>1 DEF VMs
  <2>3. QED
    BY <1>1, <2>1, <2>2, PassWaits
<1>8. QED
  BY <1>1, <1>3, <1>4, <1>5, <1>6, <1>7 DEF VmStep

\* The sandbox waits for the driver, at an instruction of its kind.
LEMMA AtItsInstruction ==
    ASSUME CourseBasis, phase = "pass", vm.at \in {"name", "os", "call"}
    PROVE  vm.pc \in DOMAIN prog /\ Code(vm).op = vm.at
BY DEF CourseBasis, OutputInv, AtItsCode

LEMMA CourseServed ==
    ASSUME StraightCode, CourseBasis, CourseBasis', CourseInv,
           LookUpName \/ ServiceOs \/ RejectCall
    PROVE  PassOnCourse'
<1>1. /\ phase = "pass" /\ PassOnCourse /\ vm \in VMs
      /\ vm.at \in {"name", "os", "call"}
      /\ UNCHANGED <<prog, stdout, stdout_prefix, answers, interrupts_answered,
                     ran, defer, deferred, executed_any, host_calls>>
  BY Given DEF LookUpName, ServiceOs, RejectCall, InPass, CourseInv
<1>2. vm.pc \in DOMAIN prog /\ Code(vm).op = vm.at
  BY <1>1, AtItsInstruction
<1>3. ~ Counts(vm) /\ Code(vm).op # "print"
  BY <1>1, <1>2, Given DEF LookUpName, ServiceOs, RejectCall, Counts, Tool
<1>4. CASE ServiceOs /\ Code(vm).use = "serviced"
  <2>1. vm' = Advance(vm) /\ Code(vm).op = "os"
    BY <1>2, <1>4 DEF ServiceOs
  <2>2. Going(vm', vm) /\ Passed(vm.pc)
    BY <1>1, <1>4, <2>1, Moves DEF Passed, Code
  <2>3. stdout' = TextAfter(vm, stdout) /\ ran' = CallsAfter(vm, ran)
    BY <1>1, <1>3 DEF TextAfter, CallsAfter
  <2>4. /\ interrupts_answered' \in 0..Len(answers)
        /\ \A m \in 1..interrupts_answered' : answers[m][1] <= vm.pc
    BY <1>1, AnswersInRange, AnswersBehind
  <2>5. QED
    BY <1>1, <1>2, <1>3, <2>2, <2>3, <2>4, PassGoesOn
<1>5. CASE ~ (ServiceOs /\ Code(vm).use = "serviced")
  <2>1. vm' = Throw(vm)
    BY <1>5 DEF LookUpName, ServiceOs, RejectCall
  <2>2. Passed(vm.pc) <=> Code(vm).catch
    BY <1>1, <1>2, <1>3, <1>5 DEF Passed, Counts, Code, LookUpName, RejectCall, ServiceOs
  <2>3. QED
    BY <1>1, <1>2, <1>3, <2>1, <2>2, PassThrows
<1>6. QED
  BY <1>4, <1>5

\* A host call that is let through
LEMMA CallOnCourse ==
    ASSUME StraightCode, CourseBasis, CourseInv, HostCall
    PROVE  /\ phase = "pass" /\ PassOnCourse /\ vm.at # "error" /\ Counts(vm)
           /\ vm.pc \in DOMAIN prog /\ Code(vm).op = "call" /\ ~ Loops(vm)
           /\ OnCourse(vm, stdout_prefix \o stdout, host_calls)
           /\ Passed(vm.pc) /\ (Tool \in Failing => Code(vm).catch)
           /\ host_calls' = host_calls + 1
<1>1. /\ phase = "pass" /\ PassOnCourse /\ vm.at = "call" /\ Tool \in HostTools
      /\ host_calls' = host_calls + 1
  BY Given DEF HostCall, InPass, CourseInv
<1>2. vm.pc \in DOMAIN prog /\ Code(vm).op = "call" /\ vm \in VMs /\ TypeOK
  BY <1>1, AtItsInstruction, Given
<1>3. ~ Loops(vm) /\ (Tool \in Failing => Code(vm).catch)
  BY <1>1, <1>2, StraightHere DEF Tool
<1>4. Passed(vm.pc) /\ Counts(vm)
  BY <1>1, <1>2, <1>3 DEF Passed, Counts, Code, Tool
<1>5. QED
  BY <1>1, <1>2, <1>3, <1>4 DEF PassOnCourse

LEMMA CourseDeferred ==
    ASSUME StraightCode, CourseBasis, CourseBasis', CourseInv, DeferCall
    PROVE  PassOnCourse'
<1>1. HostCall
  BY DEF DeferCall
<1>2. /\ phase = "pass" /\ PassOnCourse /\ vm.at # "error" /\ Counts(vm)
      /\ vm.pc \in DOMAIN prog /\ Code(vm).op = "call" /\ ~ Loops(vm)
      /\ Passed(vm.pc) /\ host_calls' = host_calls + 1
  BY <1>1, CallOnCourse
<1>3. /\ defer /\ deferred' # {} /\ vm' = ReturnFuture(vm) /\ host_calls' <= Budget
      /\ UNCHANGED <<prog, stdout, stdout_prefix, answers, interrupts_answered,
                     defer, executed_any>>
  BY DEF DeferCall
<1>4. Going(vm', vm) \/ Stopped(vm', vm)
  BY <1>2, <1>3, Given, Moves
<1>5. CASE Going(vm', vm)
  <2>1. stdout' = TextAfter(vm, stdout)
    BY <1>2, <1>3 DEF TextAfter
  <2>2. /\ interrupts_answered' \in 0..Len(answers)
        /\ \A m \in 1..interrupts_answered' : answers[m][1] <= vm.pc
    BY <1>2, <1>3, AnswersInRange, AnswersBehind
  <2>3. QED
    BY <1>2, <1>3, <1>5, <2>1, <2>2, PassGoesOn
<1>6. CASE Stopped(vm', vm)
  <2>1. vm'.at = "error"
    BY <1>6 DEF Stopped
  <2>2. QED
    BY <1>2, <1>3, <2>1, PassFails
<1>7. QED
  BY <1>4, <1>5, <1>6

LEMMA CourseEager ==
    ASSUME StraightCode, CourseBasis, CourseBasis', CourseInv, EagerCall
    PROVE  PassOnCourse'
<1>1. HostCall
  BY DEF EagerCall
<1>2. /\ phase = "pass" /\ PassOnCourse /\ vm.at # "error" /\ Counts(vm)
      /\ vm.pc \in DOMAIN prog /\ Code(vm).op = "call" /\ ~ Loops(vm)
      /\ Passed(vm.pc) /\ host_calls' = host_calls + 1
      /\ (Tool \in Failing => Code(vm).catch)
  BY <1>1, CallOnCourse
<1>3. /\ ~ defer /\ MayAct(Tool) /\ Act(Tool, Site(vm)) /\ AnswerConsumed
      /\ vm' = IF Tool \in Failing THEN Throw(vm) ELSE ReturnValue(vm)
      /\ host_calls' <= Budget /\ phase' = "pass"
      /\ UNCHANGED <<prog, stdout, stdout_prefix, answers, defer, executed_any>>
  BY <1>2 DEF EagerCall, Act
<1>4. Going(vm', vm)
  BY <1>2, <1>3, Given, Moves
<1>5. ran' = CallsAfter(vm, ran) /\ stdout' = TextAfter(vm, stdout)
  BY <1>2, <1>3 DEF Act, CallsAfter, TextAfter
<1>6. interrupts_answered' \in 0..Len(answers)
  <2>1. InStep' /\ Len(answers) \in Nat
    BY <1>3, Given DEF CourseBasis, AnswersInv
  <2>2. ~ pending_answer' /\ answers' = answers
    BY <1>3 DEF AnswerConsumed
  <2>3. interrupts_answered' = Len(answers)
    BY <2>1, <2>2 DEF InStep
  <2>4. QED
    BY <2>1, <2>3
<1>7. \A m \in 1..interrupts_answered' : answers[m][1] <= vm.pc
  <2>1. interrupts_answered \in Nat
    BY Given
  <2>2. CASE interrupts_answered' = interrupts_answered
    BY <1>2, <2>2, AnswersBehind
  <2>3. CASE interrupts_answered' = interrupts_answered + 1 /\ pending_answer
    <3>1. interrupts_answered = counter /\ Tool \in Gated
      BY <1>2, <2>3 DEF CourseBasis, AnswersInv, InStep
    <3>2. counter < Len(answers)
      BY <1>3, <3>1 DEF MayAct, Answered
    <3>3. interrupts_answered + 1 = Len(answers) /\ answers[Len(answers)] = Site(vm)
      BY <1>2, <2>3, <3>1, <3>2, Given DEF CourseBasis, AnswersInv, InStep
    <3>4. answers[interrupts_answered + 1][1] = vm.pc
      BY <3>3 DEF Site
    <3>5. \A m \in 1..interrupts_answered : answers[m][1] <= vm.pc
      BY <1>2, AnswersBehind
    <3>6. vm.pc \in Nat
      BY Given
    <3>7. QED
      BY <2>1, <2>3, <3>4, <3>5, <3>6
  <2>4. QED
    BY <1>3, <2>2, <2>3 DEF AnswerConsumed
<1>8. QED
  BY <1>2, <1>3, <1>4, <1>5, <1>6, <1>7, PassGoesOn

----------------------------------------------------------------------------
(***************************************************************************)
(* The end of a pass                                                       *)
(***************************************************************************)
\* A deferred pass has neither asked nor acted.
LEMMA NothingYet ==
    ASSUME CourseBasis, phase = "pass", defer
    PROVE  store = NoRecord /\ ran = <<>> /\ answers = <<>>
BY DEF CourseBasis, RunsInv, AnswersInv, Consistent

\* All that was called is what the one run called, unless it is a future.
LEMMA CallsMatch ==
    ASSUME StraightCode, CourseBasis, phase = "pass", PassOnCourse,
           vm.at # "error", ~ defer \/ deferred = {}
    PROVE  ran = Execution[vm.pc - 1].calls
<1>1. /\ TypeOK /\ vm \in VMs /\ vm.pc <= Len(prog) + 1
      /\ OnCourse(vm, stdout_prefix \o stdout, host_calls) /\ defer \in BOOLEAN
  BY Given DEF PassOnCourse, CourseBasis, OutputInv, AtItsCode
<1>2. /\ Len(Execution[vm.pc - 1].calls) = host_calls
      /\ Execution[vm.pc - 1].calls \in Seq(Sites)
  BY <1>1, OnTheWay DEF OnCourse, Runs
<1>3. CASE defer /\ deferred = {}
  <2>1. host_calls = 0 /\ ran = <<>>
    BY <1>3, NothingYet DEF PassOnCourse
  <2>2. QED
    BY <1>2, <2>1
<1>4. CASE ~ defer
  BY <1>4 DEF PassOnCourse
<1>5. QED
  BY <1>1, <1>3, <1>4

LEMMA CourseOverBudget ==
    ASSUME StraightCode, CourseBasis, CourseInv, OverBudget
    PROVE  Concluded'
<1>1. HostCall
  BY DEF OverBudget
<1>2. /\ phase = "pass" /\ PassOnCourse /\ vm.at # "error" /\ Counts(vm)
      /\ vm.pc \in DOMAIN prog /\ host_calls' = host_calls + 1
      /\ OnCourse(vm, stdout_prefix \o stdout, host_calls)
  BY <1>1, CallOnCourse
<1>3. /\ outcome' = ErrorResult("IterationBudgetExceeded") /\ host_calls' > Budget
      /\ UNCHANGED <<prog, ran, answers>>
  BY DEF OverBudget, Return
<1>4. /\ TypeOK /\ vm \in VMs /\ Budget \in Nat /\ host_calls \in Nat
      /\ vm.pc <= Len(prog) + 1 /\ defer \in BOOLEAN /\ IdealRun' = IdealRun
  BY <1>2, <1>3, Given, RunKept
<1>5. host_calls = Budget
  <2>1. host_calls <= Budget
    BY <1>2 DEF PassOnCourse
  <2>2. QED
    BY <1>2, <1>3, <1>4, <2>1
<1>6. /\ IdealRun.overBudget
      /\ IdealRun.result = ErrorResult("IterationBudgetExceeded")
      /\ IdealRun.calls = Execution[vm.pc - 1].calls
  BY <1>2, <1>4, <1>5, BudgetEndsIt
<1>7. CASE defer
  BY <1>2, <1>3, <1>4, <1>6, <1>7, NothingYet DEF Concluded
<1>8. CASE ~ defer
  BY <1>2, <1>3, <1>4, <1>6, <1>8, CallsMatch DEF Concluded
<1>9. QED
  BY <1>4, <1>7, <1>8

LEMMA CourseReported ==
    ASSUME StraightCode, CourseBasis, CourseInv, ReportError \/ FinishPass
    PROVE  Concluded'
<1>1. /\ phase = "pass" /\ PassOnCourse /\ UNCHANGED <<prog, ran, answers>>
  BY DEF ReportError, FinishPass, InPass, CourseInv
<1>2. TypeOK /\ vm \in VMs /\ defer \in BOOLEAN /\ IdealRun' = IdealRun
  BY <1>1, Given, RunKept
<1>3. CASE ReportError
  <2>1. /\ vm.at = "error" /\ outcome' = ErrorResult("MontyError")
        /\ defer => deferred = {}
    BY <1>1, <1>3 DEF ReportError, Return, SymptomOfDeferral, PassOnCourse
  <2>2. /\ vm.pc \in DOMAIN prog /\ ran = Execution[vm.pc].calls
        /\ Execution[vm.pc].vm.at = "error" /\ ~ Execution[vm.pc].overBudget
    BY <1>1, <2>1 DEF PassOnCourse
  <2>3. /\ IdealRun.result = ErrorResult("MontyError")
        /\ IdealRun.calls = Execution[vm.pc].calls
    BY <1>2, <2>2, ErrorEndsIt
  <2>4. QED
    BY <1>1, <1>2, <2>1, <2>2, <2>3 DEF Concluded
<1>4. CASE FinishPass
  <2>1. /\ vm.at = "complete" /\ deferred = {}
        /\ outcome' = [error |-> "none", stdout |-> stdout_prefix \o stdout]
    BY <1>1, <1>4 DEF FinishPass, Return, PassOnCourse
  <2>2. /\ vm.pc = Len(prog) + 1
        /\ OnCourse(vm, stdout_prefix \o stdout, host_calls)
    BY <1>1, <2>1 DEF CourseBasis, OutputInv, PassOnCourse
  <2>3. /\ IdealRun.result = outcome'
        /\ IdealRun.calls = Execution[vm.pc - 1].calls
    BY <1>2, <2>1, <2>2, EndOfCode
  <2>4. ran = Execution[vm.pc - 1].calls
    BY <1>1, <2>1, CallsMatch
  <2>5. QED
    BY <1>1, <1>2, <2>3, <2>4 DEF Concluded
<1>5. QED
  BY <1>3, <1>4

\* The record of a pause is frozen at the call that asks.
LEMMA CoursePaused ==
    ASSUME StraightCode, NothingFails, CourseBasis, CourseInv, EagerInterrupt
    PROVE  store' # NoRecord /\ (RecordOnCourse(store))'
<1>1. HostCall
  BY DEF EagerInterrupt
<1>2. /\ phase = "pass" /\ PassOnCourse /\ vm.at # "error"
      /\ host_calls' = host_calls + 1
      /\ OnCourse(vm, stdout_prefix \o stdout, host_calls)
  BY <1>1, CallOnCourse
<1>3. /\ host_calls' <= Budget /\ ~ defer /\ store' = PausedRecord
      /\ UNCHANGED <<prog, ran, answers>>
  BY DEF EagerInterrupt, persist_hitl_record, Fault, NothingFails
<1>4. /\ host_calls \in Nat /\ Budget \in Nat /\ Execution' = Execution
      /\ vm \in VMs /\ interrupts_answered \in Nat
      /\ stdout_prefix \o stdout \in Seq(Nat)
  BY <1>3, Given, RunKept
<1>5. /\ store'.vm = vm /\ store'.stdout = stdout_prefix \o stdout
      /\ store'.host_calls = host_calls
      /\ store'.interrupts_answered = interrupts_answered
  BY <1>2, <1>3, <1>4 DEF PausedRecord
<1>6. store' # NoRecord
  <2>1. PausedRecord \in Records
    BY <1>2, <1>4 DEF PausedRecord, Records
  <2>2. QED
    BY <1>3, <2>1, StoreAssumption
<1>7. host_calls < Budget
  BY <1>2, <1>3, <1>4
<1>8. BehindIt(vm, interrupts_answered) /\ ran = Execution[vm.pc - 1].calls
  BY <1>2, <1>3 DEF PassOnCourse
<1>9. (OnCourse(store.vm, store.stdout, store.host_calls))'
  BY <1>2, <1>4, <1>5 DEF OnCourse
<1>10. (BehindIt(store.vm, store.interrupts_answered))'
  BY <1>3, <1>5, <1>8 DEF BehindIt
<1>11. QED
  BY <1>3, <1>4, <1>5, <1>6, <1>7, <1>8, <1>9, <1>10 DEF RecordOnCourse

----------------------------------------------------------------------------
(***************************************************************************)
(* The invariant                                                           *)
(***************************************************************************)
LEMMA CourseInit == Init => CourseInv
BY DEF Init, CourseInv

LEMMA CourseStep ==
    ASSUME StraightCode, NothingFails, CourseBasis, CourseBasis', CourseInv,
           [Next]_vars
    PROVE  CourseInv'
<1>1. CASE Sandbox
  BY <1>1, CourseSandbox DEF Sandbox, InPass, CourseInv
<1>2. CASE LookUpName \/ ServiceOs \/ RejectCall
  BY <1>2, CourseServed DEF LookUpName, ServiceOs, RejectCall, InPass, CourseInv
<1>3. CASE DeferCall
  BY <1>3, CourseDeferred DEF DeferCall, HostCall, InPass, CourseInv
<1>4. CASE EagerCall
  BY <1>4, CourseEager DEF EagerCall, HostCall, InPass, CourseInv
<1>5. CASE OverBudget
  BY <1>5, CourseOverBudget DEF OverBudget, Return, AfterResult, CourseInv
<1>6. CASE ReportError \/ FinishPass
  BY <1>6, CourseReported DEF ReportError, FinishPass, Return, AfterResult, CourseInv
<1>7. CASE EagerInterrupt
  BY <1>7, CoursePaused DEF EagerInterrupt, CourseInv
<1>8. CASE RetryAfterError \/ RetryUnawaited
  <2>1. /\ phase = "pass" /\ deferred # {} /\ phase' = "begin"
        /\ UNCHANGED <<store, ran, answers>>
    BY <1>8 DEF RetryAfterError, RetryUnawaited, RestartEagerly, InPass,
                SymptomOfDeferral
  <2>2. defer
    BY <2>1 DEF CourseBasis, FuturesInv, DeferredMirrorsFutures
  <2>3. store = NoRecord /\ ran = <<>> /\ answers = <<>>
    BY <2>1, <2>2, NothingYet
  <2>4. QED
    BY <2>1, <2>3 DEF CourseInv
<1>9. CASE FeedStart
  <2>1. /\ phase = "begin" /\ store = NoRecord /\ phase' = "pass" /\ vm' = FreshVM
        /\ stdout' = <<>> /\ stdout_prefix' = <<>> /\ host_calls' = 0
        /\ interrupts_answered' = 0 /\ ~ executed_any' /\ UNCHANGED <<prog, ran>>
    BY <1>9 DEF FeedStart, FreshPass, CourseBasis, RunsInv
  <2>2. ran = <<>> /\ Execution' = Execution /\ Execution[0] = FreshRun
    BY <2>1, RunKept, RunSteps, Given DEF CourseInv
  <2>3. vm'.pc - 1 = 0 /\ vm'.iter = 0 /\ vm'.at = "run" /\ Budget \in Nat
    BY <2>1, Given DEF FreshVM
  <2>4. stdout_prefix' \o stdout' = <<>>
    BY <2>1
  <2>5. PassOnCourse'
    BY <2>1, <2>2, <2>3, <2>4 DEF PassOnCourse, OnCourse, BehindIt, FreshRun, FreshVM
  <2>6. QED
    BY <2>1, <2>5 DEF CourseInv
<1>10. CASE LoadSnapshot
  <2>1. /\ phase = "begin" /\ record = store /\ record # NoRecord /\ phase' = "pass"
        /\ vm' = store.vm /\ stdout' = <<>> /\ stdout_prefix' = store.stdout
        /\ host_calls' = store.host_calls /\ ~ executed_any'
        /\ interrupts_answered' = store.interrupts_answered
        /\ UNCHANGED <<prog, ran, answers, defer>>
    BY <1>10 DEF LoadSnapshot, FreshPass, CourseBasis, RunsInv
  <2>2. ~ defer /\ store \in Records /\ store.vm.at = "call"
    BY <2>1 DEF CourseBasis, RunsInv, FuturesInv, Frozen, TypeOK
  <2>3. RecordOnCourse(store) /\ Execution' = Execution
    BY <2>1, RunKept DEF CourseInv
  <2>4. stdout_prefix' \o stdout' = store.stdout
    BY <2>1, <2>2 DEF Records
  <2>5. store.host_calls \in Nat /\ Budget \in Nat
    BY <2>2, Given DEF Records
  <2>6. PassOnCourse'
    BY <2>1, <2>2, <2>3, <2>4, <2>5
    DEF PassOnCourse, RecordOnCourse, OnCourse, BehindIt
  <2>7. QED
    BY <2>1, <2>6 DEF CourseInv
<1>11. ~ BurnRaises
  <2>1. BurnRaises => /\ counter = 0 /\ store = record /\ record # NoRecord
                      /\ record.interrupts_answered \in Nat
    BY DEF BurnRaises, CourseBasis, AnswersInv, TypeOK, Records
  <2>2. QED
    BY <2>1, Given DEF BurnRaises, CourseBasis, AnswersInv, Consistent
\* Steps between the passes that leave all of this alone
<1>12. CASE /\ {phase, phase'} \subseteq {"start", "load", "pool", "begin", "raised",
                                        "paused"}
            /\ UNCHANGED <<store, prog, ran, answers>>
  <2>1. Execution' = Execution
    BY <1>12, RunKept
  <2>2. QED
    BY <1>12, <2>1 DEF CourseInv, RecordOnCourse, OnCourse, BehindIt
<1>13. CASE /\ {phase, phase'} \subseteq {"delete", "returned", "committed"}
            /\ UNCHANGED <<outcome, prog, ran, answers>>
  <2>1. IdealRun' = IdealRun
    BY <1>13, RunKept
  <2>2. QED
    BY <1>13, <2>1 DEF CourseInv, Concluded
<1>14. CASE StartLeg \/ LoadRecord \/ OpenPool \/ Pause
  BY <1>12, <1>14
  DEF StartLeg, LoadRecord, load_hitl_record, OpenPool, Pause, Environment
<1>15. CASE DeleteRecord \/ Commit
  BY <1>13, <1>15 DEF DeleteRecord, Commit, Environment
<1>16. CASE HumanAnswers
  <2>1. /\ phase = "paused" /\ phase' = "start" /\ UNCHANGED <<store, prog, ran>>
        /\ answers' = Append(answers, asked)
        /\ store # NoRecord /\ store.interrupts_answered = Len(answers)
    BY <1>16 DEF HumanAnswers, Environment, CourseBasis, AnswersInv
  <2>2. \A m \in 1..Len(answers) : answers'[m] = answers[m]
    BY <2>1, Given DEF CourseBasis, TypeOK
  <2>3. Execution' = Execution /\ RecordOnCourse(store)
    BY <2>1, RunKept DEF CourseInv
  <2>4. (RecordOnCourse(store))'
    BY <2>1, <2>2, <2>3 DEF RecordOnCourse, OnCourse, BehindIt
  <2>5. QED
    BY <2>1, <2>4 DEF CourseInv
<1>17. ~ BatchCall /\ ~ BatchInterrupt /\ ~ ResumeBatch
  BY DEF BatchCall, BatchInterrupt, ResumeBatch, Batch, InPass, CourseBasis,
         AnswersInv, InStep
<1>18. ~ EntryFails /\ ~ LimitExceeded /\ ~ EagerCallFailsEarly /\ ~ Crash
  BY DEF EntryFails, PoolFails, CheckoutFails, LoadFails, LimitExceeded,
         EagerCallFailsEarly, Crash, Fault, NothingFails
<1>19. CASE UNCHANGED vars
  <2>1. Execution' = Execution /\ IdealRun' = IdealRun
    BY <1>19, RunKept
  <2>2. QED
    BY <1>19, <2>1 DEF CourseInv, PassOnCourse, RecordOnCourse, Concluded,
                       OnCourse, BehindIt
<1>20. QED
  BY <1>1, <1>2, <1>3, <1>4, <1>5, <1>6, <1>7, <1>8, <1>9, <1>10, <1>11, <1>14,
     <1>15, <1>16, <1>17, <1>18, <1>19
  DEF Next, Leg, Enter, Dispatch, EndPass, Finished

----------------------------------------------------------------------------
(***************************************************************************)
(* The steps of the contract                                               *)
(***************************************************************************)
Kept == [Contract!Next]_(Contract!vars)

LEMMA Unseen ==
    ASSUME UNCHANGED <<prog, ran, answers>>,
           {phase, phase'} \cap {"paused", "committed"} = {}
    PROVE  Kept
<1>1. IdealRun' = IdealRun
  BY RunKept
<1>2. QED
  BY <1>1 DEF Kept, Contract!vars

LEMMA CallActs ==
    ASSUME StraightCode, CourseBasis, CourseInv, EagerCall
    PROVE  Contract!Act
<1>1. HostCall
  BY DEF EagerCall
<1>2. /\ phase = "pass" /\ PassOnCourse /\ vm.at # "error" /\ Counts(vm)
      /\ vm.pc \in DOMAIN prog /\ host_calls' = host_calls + 1
      /\ OnCourse(vm, stdout_prefix \o stdout, host_calls)
  BY <1>1, CallOnCourse
<1>3. /\ ~ defer /\ MayAct(Tool) /\ host_calls' <= Budget
      /\ ran' = Append(ran, Site(vm)) /\ UNCHANGED <<prog, answers>>
      /\ phase' = "pass"
  BY <1>2 DEF EagerCall, Act
<1>4. /\ TypeOK /\ vm \in VMs /\ host_calls \in Nat /\ Budget \in Nat
      /\ IdealRun' = IdealRun
  BY <1>3, Given, RunKept
<1>5. Len(ran) = host_calls /\ host_calls # Budget
  BY <1>2, <1>3, <1>4 DEF PassOnCourse, OnCourse
<1>6. /\ Len(ran) < Len(IdealRun.calls)
      /\ IdealRun.calls[Len(ran) + 1] = Site(vm)
      /\ Site(vm) \in IdealRun.gated <=> Code(vm).tool \in Gated
  BY <1>2, <1>4, <1>5, NextIdealCall
<1>7. Tool \in Gated => Site(vm) \in ToSet(answers)
  <2>1. SUFFICES ASSUME Tool \in Gated PROVE Site(vm) \in ToSet(answers)
    OBVIOUS
  <2>2. InStep /\ counter < Len(answers) /\ Len(answers) \in Nat
    BY <1>2, <1>3, <2>1, Given DEF CourseBasis, AnswersInv, MayAct, Answered
  <2>3. answers[Len(answers)] = Site(vm) /\ Len(answers) \in DOMAIN answers
    BY <2>2, Given DEF InStep, CourseBasis, TypeOK
  <2>4. QED
    BY <2>3 DEF ToSet
<1>8. Contract!MoreCalls /\ Contract!NextCall = Site(vm)
  BY <1>6 DEF Contract!MoreCalls, Contract!NextCall
<1>9. Contract!Permitted
  <2>1. Site(vm) \in IdealRun.gated => Site(vm) \in ToSet(answers)
    BY <1>6, <1>7 DEF Tool
  <2>2. QED
    BY <1>6, <2>1 DEF Contract!Permitted, Contract!NextCall, Contract!ToSet, ToSet
<1>10. Contract!Open
  BY <1>2 DEF Contract!Open
<1>11. QED
  BY <1>2, <1>3, <1>4, <1>8, <1>9, <1>10 DEF Contract!Act

LEMMA PauseAsks ==
    ASSUME StraightCode, CourseBasis, CourseInv, Pause
    PROVE  Contract!Ask
<1>1. /\ phase = "raised" /\ phase' = "paused"
      /\ UNCHANGED <<prog, ran, answers, asked>>
  BY DEF Pause, Environment
<1>2. /\ store # NoRecord /\ asked = Site(store.vm)
      /\ store.interrupts_answered = Len(answers)
      /\ Code(store.vm).tool \in Gated
  BY <1>1 DEF CourseBasis, AnswersInv, Consistent
<1>3. /\ store \in Records /\ store.vm.at = "call" /\ AtItsCode(store.vm)
  BY <1>2
  DEF CourseBasis, TypeOK, FuturesInv, Frozen, OutputInv, RecordShows
<1>4. /\ store.vm \in VMs /\ store.vm.pc \in DOMAIN prog /\ Counts(store.vm)
      /\ store.host_calls \in Nat
  BY <1>2, <1>3, ToolsAssumption DEF Records, AtItsCode, Counts
<1>5. RecordOnCourse(store)
  BY <1>1, <1>2 DEF CourseInv
<1>6. /\ TypeOK /\ Budget \in Nat /\ IdealRun' = IdealRun
      /\ OnCourse(store.vm, store.stdout, store.host_calls)
      /\ Len(ran) = store.host_calls /\ store.host_calls # Budget
  BY <1>1, <1>4, <1>5, Given, RunKept DEF RecordOnCourse, OnCourse
<1>7. /\ Len(ran) < Len(IdealRun.calls)
      /\ IdealRun.calls[Len(ran) + 1] = asked /\ asked \in IdealRun.gated
  BY <1>2, <1>4, <1>6, NextIdealCall
<1>8. asked \notin ToSet(answers)
  <2>1. \A m \in 1..Len(answers) : answers[m][1] < store.vm.pc
    BY <1>2, <1>5 DEF RecordOnCourse, BehindIt
  <2>2. asked[1] = store.vm.pc /\ store.vm.pc \in Nat
    BY <1>2, <1>4 DEF Site, VMs
  <2>3. \A m \in DOMAIN answers : answers[m] # asked
    <3> SUFFICES ASSUME NEW m \in DOMAIN answers, answers[m] = asked
                 PROVE  FALSE
      OBVIOUS
    <3>1. TypeOK
      BY DEF CourseBasis
    <3>2. m \in 1..Len(answers)
      BY <3>1 DEF TypeOK
    <3>3. QED
      BY <2>1, <2>2, <3>2
  <2>4. QED
    BY <2>3 DEF ToSet
<1>9. Contract!MoreCalls /\ Contract!NextCall = asked
  BY <1>7 DEF Contract!MoreCalls, Contract!NextCall
<1>10. ~ Contract!Permitted
  BY <1>7, <1>8 DEF Contract!Permitted, Contract!NextCall, Contract!ToSet, ToSet
<1>11. Contract!Open
  BY <1>1 DEF Contract!Open
<1>12. QED
  BY <1>1, <1>6, <1>9, <1>10, <1>11 DEF Contract!Ask

LEMMA HumanGrants ==
    ASSUME CourseBasis, HumanAnswers PROVE Contract!Answer
<1>1. /\ phase = "paused" /\ phase' = "start" /\ answers' = Append(answers, asked)
      /\ UNCHANGED <<prog, ran>>
  BY DEF HumanAnswers, Environment
<1>2. asked # NoQuestion
  <2>1. store \in Records /\ asked = Site(store.vm)
    BY <1>1 DEF CourseBasis, AnswersInv, TypeOK
  <2>2. QED
    BY <2>1 DEF Records, VMs, Site, NoQuestion
<1>3. IdealRun' = IdealRun
  BY <1>1, RunKept
<1>4. QED
  BY <1>1, <1>2, <1>3 DEF Contract!Answer

LEMMA CommitConcludes ==
    ASSUME CourseBasis, CourseInv, Commit
    PROVE  Contract!Finish \/ Contract!Refuse
<1>1. /\ phase = "returned" /\ phase' = "committed" /\ outcome' = outcome
      /\ UNCHANGED <<prog, ran, answers>>
  BY DEF Commit, Environment
<1>2. IdealRun' = IdealRun /\ Concluded
  BY <1>1, RunKept DEF CourseInv
<1>3. Contract!Open
  BY <1>1 DEF Contract!Open
<1>4. CASE ran = IdealRun.calls
  <2>1. ~ Contract!MoreCalls
    <3>1. Len(ran) \in Nat
      BY DEF CourseBasis, TypeOK
    <3>2. QED
      BY <1>4, <3>1 DEF Contract!MoreCalls
  <2>2. QED
    BY <1>1, <1>2, <1>3, <2>1 DEF Contract!Finish, Concluded
<1>5. CASE ran # IdealRun.calls
  BY <1>1, <1>2, <1>3, <1>5 DEF Contract!Refuse, Concluded
<1>6. QED
  BY <1>4, <1>5

LEMMA KeptByStep ==
    ASSUME StraightCode, NothingFails, CourseBasis, CourseInv, [Next]_vars
    PROVE  Kept
<1>1. CASE EagerCall
  BY <1>1, CallActs DEF Kept, Contract!Next
<1>2. CASE Pause
  BY <1>2, PauseAsks DEF Kept, Contract!Next
<1>3. CASE HumanAnswers
  BY <1>3, HumanGrants DEF Kept, Contract!Next
<1>4. CASE Commit
  BY <1>4, CommitConcludes DEF Kept, Contract!Next
<1>5. CASE Enter
  BY <1>5, Unseen
  DEF Enter, StartLeg, LoadRecord, OpenPool, FeedStart, LoadSnapshot, BurnRaises
<1>6. CASE Sandbox
  BY <1>6, Unseen DEF Sandbox, InPass
<1>7. CASE LookUpName \/ ServiceOs \/ RejectCall \/ DeferCall
  BY <1>7, Unseen
  DEF LookUpName, ServiceOs, RejectCall, DeferCall, HostCall, InPass
<1>8. CASE OverBudget
  BY <1>8, Unseen DEF OverBudget, HostCall, InPass, Return, AfterResult
<1>9. CASE EagerInterrupt
  BY <1>9, Unseen DEF EagerInterrupt, HostCall, InPass
<1>10. CASE EndPass
  BY <1>10, Unseen
  DEF EndPass, RetryAfterError, ReportError, RetryUnawaited, FinishPass,
      RestartEagerly, InPass, Return, AfterResult
<1>11. CASE DeleteRecord
  BY <1>11, Unseen DEF DeleteRecord
<1>12. ~ BatchCall /\ ~ BatchInterrupt /\ ~ ResumeBatch
  BY DEF BatchCall, BatchInterrupt, ResumeBatch, Batch, InPass, CourseBasis,
         AnswersInv, InStep
<1>13. ~ EntryFails /\ ~ LimitExceeded /\ ~ EagerCallFailsEarly /\ ~ Crash
  BY DEF EntryFails, PoolFails, CheckoutFails, LoadFails, LimitExceeded,
         EagerCallFailsEarly, Crash, Fault, NothingFails
<1>14. CASE UNCHANGED vars
  <2>1. IdealRun' = IdealRun
    BY <1>14, RunKept
  <2>2. QED
    BY <1>14, <2>1 DEF Kept, Contract!vars
<1>15. QED
  BY <1>1, <1>2, <1>3, <1>4, <1>5, <1>6, <1>7, <1>8, <1>9, <1>10, <1>11, <1>12,
     <1>13, <1>14
  DEF Next, Leg, Dispatch, Finished

\* Deferred passes, restarts, pauses, records and positional answers cannot be
\* seen: what the tools and the human see of straight code, for any snippets,
\* tools and budget and over any number of pauses, is one plain run of it
\* (README 124 and 147-149).
THEOREM DriverIsTransparent ==
    StraightCode /\ NothingFails => (Spec => ImplementsContract)
<1> SUFFICES ASSUME StraightCode, NothingFails PROVE Spec => ImplementsContract
  OBVIOUS
<1>1. PlainCode /\ CountKept /\ RunsKept
  BY DEF StraightCode, NothingFails, PlainCode, CountKept, RunsKept
<1>2. Init => CourseBasis /\ CourseInv
  BY <1>1, TypeInit, FuturesInit, OutputInit, AnswersInit, RunsInit, CourseInit
  DEF CourseBasis
<1>3. CourseBasis /\ [Next]_vars => CourseBasis'
  BY <1>1, TypeStep, FuturesStep, OutputStep, AnswersStep, RunsStep
  DEF CourseBasis
<1>4. CourseBasis /\ CourseBasis' /\ CourseInv /\ [Next]_vars => CourseInv'
  BY CourseStep
<1>5. Init => Contract!Init
  BY DEF Init, Contract!Init
<1>6. CourseBasis /\ CourseInv /\ [Next]_vars => [Contract!Next]_(Contract!vars)
  BY KeptByStep DEF Kept
<1>7. QED
  BY <1>2, <1>3, <1>4, <1>5, <1>6, PTL DEF Spec, ImplementsContract, Contract!Spec

\* The same whether LangGraph runs each leg with invoke or with ainvoke.
THEOREM DriverIsTransparentInBoth ==
    StraightCode /\ NothingFails => (AsyncSpec => ImplementsContract)
<1> SUFFICES ASSUME StraightCode, NothingFails
             PROVE  AsyncSpec => ImplementsContract
  OBVIOUS
<1>1. PlainCode
  BY DEF StraightCode, PlainCode
<1>2. QED
  BY <1>1, DriversAgree, DriverIsTransparent
=============================================================================
