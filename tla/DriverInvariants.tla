-------------------------- MODULE DriverInvariants --------------------------
(***************************************************************************)
(* Inductive invariants of MontyDriver: what has to be known about every   *)
(* reachable state for the properties to follow step by step.              *)
(***************************************************************************)
EXTENDS DriverProperties, FiniteSets

\* Only eager passes are frozen, so a record has no futures in it.
Frozen(r) == r # NoRecord =>
    r.vm.futures = {} /\ r.vm.pending = {} /\ r.vm.at = "call"

FuturesInv ==
    /\ Frozen(store) /\ Frozen(record)
    /\ DeferredMirrorsFutures
    /\ phase = "pass" => IF vm.at = "await" THEN vm.held \subseteq vm.pending
                                            ELSE vm.pending = {}

\* A leg that has not begun a pass has run nothing.  Within a pass, what ran
\* and what is deferred are different calls, all earlier than the place the
\* sandbox is at; a deferred pass that has not executed anything has run
\* nothing.
CallsInv ==
    /\ phase \in {"load", "pool", "begin"} => legRan = {}
    /\ phase = "pass" =>
          /\ legRan \cap deferred = {}
          /\ defer /\ ~ executed_any => legRan = {}
          /\ vm.at # "error" =>
                \A s \in legRan \cup deferred : Earlier(s, Site(vm))

----------------------------------------------------------------------------
(***************************************************************************)
(* The record's life                                                       *)
(***************************************************************************)
\* The pool starts, and what the store is asked to read or delete it does
CleanupKept == FaultKinds \cap {"get", "delete", "pool"} = {}

\* A leg works on the record on file, and a result leaves none there.
RecordInv ==
    /\ phase \in {"pool", "begin", "pass", "delete"} => store = record
    /\ phase \in {"returned", "committed"} => store = NoRecord

----------------------------------------------------------------------------
(***************************************************************************)
(* Questions and answers.  The snippets make plain calls, there is a       *)
(* store, and neither it nor a tool fails in a way that loses count.       *)
(***************************************************************************)
PlainCode == \A p \in Programs : \A i \in DOMAIN p : p[i].op # "await"

CountKept ==
    /\ HasStore
    /\ FaultKinds \cap {"put", "get", "early", "unbind", "late_crash"} = {}

\* The record is frozen at a gated call.  Either that call's question was the
\* last one answered, or it has to be asked again.
Consistent(r) ==
    /\ r = NoRecord => answers = <<>>
    /\ r # NoRecord =>
          /\ Code(r.vm).tool \in Gated
          /\ \/ r.interrupts_answered = Len(answers)
             \/ /\ r.interrupts_answered + 1 = Len(answers)
                /\ answers[Len(answers)] = Site(r.vm)

\* The pass has consumed the answers before the one it is waiting for.
InStep ==
    /\ vm.at # "await" /\ counter = interrupts_answered
    /\ defer => record = NoRecord
    /\ ~ pending_answer => counter = Len(answers)
    /\ pending_answer =>
          /\ ~ defer /\ vm.at = "call" /\ Tool \in Gated
          /\ \/ counter = Len(answers)
             \/ /\ counter + 1 = Len(answers)
                /\ answers[Len(answers)] = Site(vm)

AnswersInv ==
    /\ hostTools = HostTools
    /\ AnswersReachTheirCalls /\ BurnNeverSurfaces
    /\ phase \notin {"returned", "committed"} => Consistent(store)
    /\ phase \in {"pool", "begin", "pass", "delete"} => store = record
    /\ phase \in {"load", "pool", "begin"} => counter = 0
    /\ phase = "begin" /\ defer => record = NoRecord
    /\ phase = "pass" => InStep
    /\ phase \in {"raised", "paused"} =>
          /\ store # NoRecord /\ asked = Site(store.vm)
          /\ store.interrupts_answered = Len(answers)

----------------------------------------------------------------------------
(***************************************************************************)
(* What a call keeps over its legs                                         *)
(***************************************************************************)
\* A suspended sandbox is at the instruction that suspended it.
AtItsCode(v) ==
    /\ v.pc <= Len(prog) + 1
    /\ v.at \in {"name", "os", "call", "await"} =>
          v.pc \in DOMAIN prog /\ Code(v).op = v.at

RecordShows(r) == r # NoRecord => AtItsCode(r.vm) /\ Shows(r.stdout, r.vm.pc)

\* The text of a pass, and the text in a record, is what the code printed on
\* its way to the place the sandbox is at.
OutputInv ==
    /\ RecordShows(store) /\ RecordShows(record)
    /\ phase = "pass" => AtItsCode(vm)
    /\ phase = "pass" /\ vm.at = "complete" => vm.pc = Len(prog) + 1
    /\ StdoutOnce

\* Every leg has all its tools, and none fails before it acts
ToolsKept == FaultKinds \cap {"early", "unbind"} = {}

Allowed(i) == prog[i].op = "call" /\ prog[i].tool \in HostTools

HasActed(i) == \E k \in DOMAIN ran : ran[k][1] = i

RecordMade(r) ==
    r # NoRecord =>
        \A i \in DOMAIN prog : i < r.vm.pc /\ Allowed(i) => HasActed(i)

\* Of the calls the sandbox has passed each has acted, or it is a future that
\* the sandbox still has.
CallsMadeInv ==
    /\ hostTools = HostTools
    /\ legRan \subseteq {ran[k] : k \in DOMAIN ran}
    /\ RecordMade(store) /\ RecordMade(record)
    /\ phase = "pass" /\ vm.at # "error" =>
          \A i \in DOMAIN prog : i < vm.pc /\ Allowed(i) =>
              HasActed(i) \/ \E s \in vm.futures : s[1] = i
    /\ NoCallDropped

\* A leg's result is never lost, and every record is written and found again
RunsKept ==
    HasStore /\ FaultKinds \cap {"put", "get", "crash", "late_crash"} = {}

\* What ran is behind the sandbox, and was counted.
Accounted(v, calls) ==
    /\ Len(ran) <= calls
    /\ v.at # "error" => \A k \in DOMAIN ran : Earlier(ran[k], Site(v))

\* Between the legs the record accounts for all that ran, and without one
\* nothing has run.
RunsInv ==
    /\ RunsOnce /\ BudgetSpansLegs
    /\ phase \in {"start", "load", "pool", "begin", "raised", "paused"} =>
          /\ store = NoRecord => ran = <<>>
          /\ store # NoRecord => Accounted(store.vm, store.host_calls)
    /\ phase \in {"pool", "begin", "pass"} => record = store
    /\ phase \in {"begin", "pass"} /\ defer => record = NoRecord
    /\ phase = "pass" => vm.at # "await"
    /\ phase = "pass" /\ defer => ran = <<>>
    /\ phase = "pass" /\ ~ defer => Accounted(vm, host_calls)

----------------------------------------------------------------------------
(***************************************************************************)
(* Whose turn it is.  The code alone fixes which questions it asks, and in *)
(* which order: a deferred pass asks those of its batches, if the code has *)
(* an await that finds something to wait for; if not, eager passes ask.    *)
(***************************************************************************)
\* Every leg has its tools; a limit only strikes plain code; and a record on
\* file is lost only with the call it belongs to.
TurnsKept ==
    /\ ToolsKept
    /\ "limit" \in FaultKinds => PlainCode
    /\ HasStore =>
          /\ FaultKinds \cap {"put", "get"} = {}
          /\ "late_crash" \in FaultKinds =>
                FaultKinds \cap {"checkout", "load", "limit"} = {}

\* What a deferred pass finds at place i: the calls behind it, those that the
\* code has kept for its next await, and those that are still futures.
Behind(i) == {s \in (DOMAIN prog) \X {0} : s[1] < i /\ Allowed(s[1])}

KeptAt(i) ==
    {s \in Behind(i) :
        /\ prog[s[1]].use = "later"
        /\ \A m \in DOMAIN prog : s[1] < m /\ m < i => prog[m].op # "await"}

BatchAt(m) == prog[m].op = "await" /\ KeptAt(m) # {}

OpenAt(i) ==
    {s \in Behind(i) :
        \A m \in DOMAIN prog : s[1] < m /\ m < i =>
            ~ (BatchAt(m) /\ (prog[m].use = "all" \/ s \in KeptAt(m)))}

ListedAt(m) == IF prog[m].use = "all" THEN OpenAt(m) ELSE KeptAt(m)

\* An eager pass has results instead.
ResultsAt(i) == {s \in KeptAt(i) : prog[s[1]].tool \notin Failing}

\* Where a pass ends in an error, in either mode, a deferred one, an eager one
Raising(i) ==
    \/ prog[i].op \in {"raise", "name"}
    \/ prog[i].op = "os" /\ prog[i].use # "serviced"
    \/ prog[i].op = "call" /\ ~ Allowed(i)

DeferStops(i) ==
    /\ ~ prog[i].catch
    /\ \/ Raising(i)
       \/ Allowed(i) /\ prog[i].use = "value"
       \/ prog[i].op = "await" /\ \E s \in KeptAt(i) : prog[s[1]].tool \in Failing

EagerStops(i) ==
    /\ ~ prog[i].catch
    /\ \/ Raising(i)
       \/ Allowed(i) /\ prog[i].tool \in Failing
       \/ prog[i].op = "await" /\ ResultsAt(i) # {}

\* A deferred pass comes to a batch.
Batched ==
    \E m \in DOMAIN prog :
        BatchAt(m) /\ \A i \in DOMAIN prog : i < m => ~ DeferStops(i)

\* How often an eager pass makes the call at place i before it goes on
Turns(i) ==
    IF prog[i].use = "loop" /\ prog[i].tool \notin Failing /\ prog[i].n > 0
    THEN prog[i].n ELSE 1

\* The places of calls in an eager pass, and how many calls are made before s
Places == UNION {{i} \X (0..(Turns(i) - 1)) : i \in DOMAIN prog}

Count(s) == Cardinality({c \in Places : Allowed(c[1]) /\ Earlier(c, s)})

EagerQuestion(s) ==
    /\ Allowed(s[1]) /\ prog[s[1]].tool \in Gated
    /\ \A i \in DOMAIN prog : i < s[1] => ~ EagerStops(i)
    /\ Count(s) < Budget

BatchQuestion(m, s) ==
    BatchAt(m) /\ s \in ListedAt(m) /\ prog[s[1]].tool \in Gated

Questions ==
    {s \in Places : IF Batched THEN \E m \in DOMAIN prog : BatchQuestion(m, s)
                               ELSE EagerQuestion(s)}

Precedes(s, t) ==
    IF Batched
    THEN \E m, n \in DOMAIN prog :
            /\ BatchQuestion(m, s) /\ BatchQuestion(n, t)
            /\ m < n \/ (m = n /\ Earlier(s, t))
    ELSE Earlier(s, t)

Preceding(t) == {s \in Questions : Precedes(s, t)}

FirstAnswers(k) == {answers[j] : j \in 1..k}

\* Each answer, and the question that is being asked, has its turn.
LedgerInv ==
    /\ \A k \in DOMAIN answers :
          /\ answers[k] \in Questions
          /\ FirstAnswers(k - 1) = Preceding(answers[k])
    /\ phase \in {"raised", "paused"} =>
          asked \in Questions /\ FirstAnswers(Len(answers)) = Preceding(asked)
    /\ phase \in {"load", "pool", "begin"} => counter = 0

\* How a deferred pass gets to where v is
DeferredAt(v) ==
    /\ \A i \in DOMAIN prog : i < v.pc => ~ DeferStops(i)
    /\ v.iter = 0 => v.held = KeptAt(v.pc) /\ v.futures = OpenAt(v.pc)
    /\ v.iter # 0 => /\ v.at \in {"run", "call"} /\ v.pc \in DOMAIN prog
                     /\ Allowed(v.pc) /\ prog[v.pc].use = "loop"

DeferredPass ==
    /\ vm.at # "error" =>
          /\ DeferredAt(vm)
          /\ ~ executed_any => \A m \in DOMAIN prog : m < vm.pc => ~ BatchAt(m)
    /\ vm.at = "error" /\ ~ executed_any => ~ Batched
    /\ vm.at = "await" =>
          /\ BatchAt(vm.pc) /\ vm.pending = ListedAt(vm.pc)
          /\ settled # {} => executed_any

\* How an eager one does, and after how many calls
EagerAt(v, calls) ==
    /\ \A i \in DOMAIN prog : i < v.pc => ~ EagerStops(i)
    /\ v.held = ResultsAt(v.pc)
    /\ v.pc \in DOMAIN prog => v.iter < Turns(v.pc)
    /\ v.pc \notin DOMAIN prog => v.iter = 0
    /\ calls = Count(Site(v))

EagerPass ==
    /\ ~ Batched /\ vm.at # "await"
    /\ vm.at # "error" => EagerAt(vm, host_calls)
    /\ vm.at = "error" /\ "limit" \notin FaultKinds =>
          Questions \subseteq FirstAnswers(counter)

\* The questions behind the running pass
EarlierBatches(i) ==
    {s \in Questions : \E m \in DOMAIN prog : m < i /\ BatchQuestion(m, s)}

EarlierQuestions(t) == {s \in Questions : Earlier(s, t)}

PassedQuestions ==
    IF Batched THEN EarlierBatches(vm.pc)
    ELSE IF defer THEN {} ELSE EarlierQuestions(Site(vm))

PassInv ==
    phase = "pass" =>
        /\ counter <= Len(answers)
        /\ vm.at \notin {"await", "error"} => PassedQuestions = FirstAnswers(counter)
        /\ defer /\ ~ Batched => counter = 0
        /\ IF defer THEN DeferredPass ELSE EagerPass

\* Within a batch; done: the calls of the batch that have been answered
BatchTurn(done) ==
    phase = "pass" /\ vm.at = "await" =>
        PassedQuestions \cup (done \cap Questions) = FirstAnswers(counter)

\* The sync driver settles a batch in the order of the calls.
SyncBatchInv ==
    /\ BatchTurn(settled)
    /\ phase = "pass" => results = [s \in settled |-> CameTo(s)]
    /\ phase = "pass" /\ vm.at = "await" =>
          \A s \in settled, t \in vm.pending \ settled : Earlier(s, t)

\* All that an eager pass may ask has been answered.
AllAsked == Questions \subseteq FirstAnswers(Len(answers))

OnFile(r) ==
    r # NoRecord =>
        /\ EagerAt(r.vm, r.host_calls) /\ Site(r.vm) \in Questions
        /\ FirstAnswers(r.interrupts_answered) = Preceding(Site(r.vm))
        /\ Len(answers) \in {r.interrupts_answered, r.interrupts_answered + 1}

\* The pass will ask nothing, or its count of answers is right.
Counted ==
    \/ record = NoRecord /\ AllAsked
    \/ /\ counter = interrupts_answered
       /\ ~ pending_answer => counter = Len(answers)
       /\ pending_answer =>
             vm.at = "call" /\ Tool \in Gated /\ counter + 1 >= Len(answers)

StoreInv ==
    /\ ~ HasStore \/ Batched => store = NoRecord /\ record = NoRecord
    /\ phase \in {"pool", "begin", "pass", "delete"} => store = record
    /\ phase \in {"begin", "pass"} /\ defer => record = NoRecord
    /\ phase \in {"begin", "pass"} /\ Batched => defer
    /\ HasStore /\ ~ Batched =>
          /\ phase \notin {"returned", "committed"} \/ "late_crash" \in FaultKinds
                => OnFile(store) /\ (store = NoRecord => answers = <<>> \/ AllAsked)
          /\ phase = "delete" /\ "late_crash" \in FaultKinds => AllAsked
          /\ phase = "pass" /\ ~ defer => Counted
          /\ phase \in {"raised", "paused"} =>
                store # NoRecord /\ store.interrupts_answered = Len(answers)

TurnsInv ==
    /\ hostTools = HostTools
    /\ AnswersReachTheirCalls /\ BurnNeverSurfaces
    /\ LedgerInv /\ PassInv /\ StoreInv
=============================================================================
