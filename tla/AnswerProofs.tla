---------------------------- MODULE AnswerProofs ----------------------------
(***************************************************************************)
(* Questions and answers: the answers a human gives are never handed to    *)
(* the wrong host call.  First with a record of every pause, for plain     *)
(* code; then by whose turn each answer is, which the code alone fixes,    *)
(* for every style of code, with a store or without, and for both drivers. *)
(***************************************************************************)
EXTENDS CarriedProofs

USE DEF sandboxVars, ledgerVars, passVars, history, vars, settled, NoResults

\* A step that leaves the store, the answers and the code alone leaves the
\* record consistent.
LEMMA StaysConsistent ==
    Consistent(store) /\ UNCHANGED <<store, answers, prog>>
        => Consistent(store)'
BY DEF Consistent, Code, Site

\* No answer or placeholder is mistaken for the place of a host call.
LEMMA SiteIsNoPlaceholder ==
    ASSUME NEW v \in VMs PROVE Site(v) # Placeholder
BY DEF Site, Placeholder, VMs

LEMMA AnswersInit == CountKept /\ Init => AnswersInv
BY DEF Init, AnswersInv, AnswersReachTheirCalls, BurnNeverSurfaces,
       Consistent, NoQuestion, Placeholder

LEMMA AnswersStep ==
    PlainCode /\ CountKept /\ TypeOK /\ FuturesInv /\ AnswersInv /\ [Next]_vars
        => AnswersInv'
<1> SUFFICES ASSUME PlainCode, CountKept, TypeOK, FuturesInv, AnswersInv,
                    [Next]_vars
             PROVE  AnswersInv'
  OBVIOUS
<1> USE DEF AnswersInv, AnswersReachTheirCalls, BurnNeverSurfaces
<1>1. /\ vm \in VMs /\ counter \in Nat /\ answers \in Seq(Sites)
      /\ Len(answers) \in Nat /\ interrupts_answered \in Nat
      /\ defer \in BOOLEAN /\ pending_answer \in BOOLEAN
  BY DEF TypeOK
\* Steps within a pass that end with no answer outstanding and take none
<1>2. CASE /\ phase = "pass" /\ ~ pending_answer /\ ~ pending_answer'
           /\ vm'.at # "await"
           /\ UNCHANGED <<phase, hostTools, record, store, prog, answers,
                          asked, counter, deliveries, defer,
                          interrupts_answered>>
  BY <1>2, StaysConsistent DEF InStep
\* Steps that end the leg with a result
<1>3. CASE /\ phase \in {"pool", "begin", "pass"} /\ phase' = AfterResult
           /\ UNCHANGED <<hostTools, record, store, prog, answers, asked,
                          deliveries>>
  BY <1>3, StaysConsistent DEF AfterResult
<1>4. CASE StartLeg
  <2>1. hostTools' = HostTools
    BY <1>4 DEF StartLeg, Fault, CountKept
  <2>2. QED
    BY <1>4, <2>1, StaysConsistent DEF StartLeg
<1>5. CASE LoadRecord
  <2>1. record' = store /\ store' = store
    BY <1>5 DEF LoadRecord, load_hitl_record, Fault, CountKept
  <2>2. QED
    BY <1>5, <2>1, StaysConsistent DEF LoadRecord
<1>6. CASE OpenPool
  BY <1>6, StaysConsistent DEF OpenPool
<1>7. CASE EntryFails
  BY <1>3, <1>7
  DEF EntryFails, PoolFails, CheckoutFails, LoadFails, Return, AfterResult
<1>8. CASE FeedStart
  <2>1. answers = <<>>
    BY <1>8 DEF FeedStart, Consistent
  <2>2. /\ counter = 0 /\ vm'.at = "run" /\ interrupts_answered' = 0
        /\ ~ pending_answer' /\ phase' = "pass"
    BY <1>8 DEF FeedStart, FreshVM
  <2>3. InStep'
    BY <1>8, <2>1, <2>2 DEF FeedStart, InStep
  <2>4. QED
    BY <1>8, <2>2, <2>3, StaysConsistent DEF FeedStart
<1>9. CASE LoadSnapshot
  <2>1. /\ counter = 0 /\ store = record /\ ~ defer
        /\ record.vm.at = "call" /\ record.interrupts_answered \in Nat
    BY <1>9 DEF LoadSnapshot, FuturesInv, Frozen, TypeOK, Records
  <2>2. /\ vm' = record.vm /\ counter' = record.interrupts_answered
        /\ interrupts_answered' = record.interrupts_answered
        /\ UNCHANGED <<prog, answers, defer, record>> /\ pending_answer'
    BY <1>9, <2>1 DEF LoadSnapshot, BurnAnsweredInterrupts
  <2>3. Consistent(record) /\ record # NoRecord
    BY <1>9, <2>1 DEF LoadSnapshot
  <2>4. InStep'
    BY <2>1, <2>2, <2>3 DEF InStep, Consistent, Tool, Code, Site
  <2>5. QED
    BY <1>9, <2>1, <2>4, StaysConsistent DEF LoadSnapshot
<1>10. ~ BurnRaises
  <2>1. BurnRaises => /\ counter = 0 /\ store = record /\ record # NoRecord
                      /\ record.interrupts_answered \in Nat
    BY DEF BurnRaises, TypeOK, Records
  <2>2. QED
    BY <1>1, <2>1 DEF BurnRaises, Consistent
<1>11. CASE Sandbox
  <2>1. vm.at = "run" /\ vm'.at # "await"
    BY <1>11, SandboxNeverWaits DEF Sandbox
  <2>2. QED
    BY <1>2, <1>11, <2>1 DEF Sandbox, InPass, InStep
<1>12. CASE LimitExceeded
  BY <1>1, <1>2, <1>12 DEF LimitExceeded, InPass, InStep, VMs
<1>13. CASE LookUpName \/ ServiceOs
  <2>1. vm.at # "call" /\ vm' \in {Advance(vm), Throw(vm)}
    BY <1>13 DEF LookUpName, ServiceOs
  <2>2. QED
    BY <1>1, <1>2, <1>13, <2>1, GoingOn
    DEF LookUpName, ServiceOs, InPass, InStep
<1>14. CASE RejectCall
  BY <1>1, <1>2, <1>14, GoingOn, ToolsAssumption
  DEF RejectCall, InPass, InStep
<1>15. CASE DeferCall
  BY <1>1, <1>2, <1>15, AnsweredLater DEF DeferCall, HostCall, InPass, InStep
<1>16. CASE OverBudget
  BY <1>3, <1>16 DEF OverBudget, HostCall, InPass, Return
<1>17. CASE EagerCall
  <2>1. /\ phase = "pass" /\ phase' = "pass" /\ InStep /\ ~ pending_answer'
        /\ UNCHANGED <<hostTools, record, store, prog, answers, asked, defer>>
    BY <1>17 DEF EagerCall, HostCall, InPass, Act, AnswerConsumed
  <2>2. vm'.at # "await"
    BY <1>1, <1>17, AnsweredAtOnce DEF EagerCall
  <2>3. CASE Tool \in Gated
    <3>1. /\ counter' = counter + 1 /\ counter < Len(answers)
          /\ deliveries' = deliveries \cup {<<Site(vm), answers[counter + 1]>>}
      BY <1>17, <2>3 DEF EagerCall, MayAct, Answered, Act, NextAnswer
    <3>2. /\ pending_answer /\ counter + 1 = Len(answers)
          /\ answers[counter + 1] = Site(vm)
      BY <1>1, <2>1, <3>1 DEF InStep
    <3>3. interrupts_answered' = counter'
      BY <1>17, <2>1, <3>1, <3>2 DEF EagerCall, AnswerConsumed, InStep
    <3>4. InStep'
      BY <2>1, <2>2, <3>1, <3>2, <3>3 DEF InStep
    <3>5. AnswersReachTheirCalls'
      BY <3>1, <3>2
    <3>6. QED
      BY <2>1, <3>4, <3>5, StaysConsistent
  <2>4. CASE Tool \notin Gated
    <3>1. ~ pending_answer
      BY <2>1, <2>4 DEF InStep
    <3>2. /\ UNCHANGED <<counter, deliveries, interrupts_answered>>
      BY <1>17, <2>4, <3>1 DEF EagerCall, Act, AnswerConsumed
    <3>3. QED
      BY <1>2, <2>1, <2>2, <3>1, <3>2
  <2>5. QED
    BY <2>3, <2>4
<1>18. ~ EagerCallFailsEarly
  BY DEF EagerCallFailsEarly, Fault, CountKept
<1>19. CASE EagerInterrupt
  <2>1. /\ phase = "pass" /\ phase' = "raised" /\ InStep /\ Tool \in Gated
        /\ counter >= Len(answers) /\ asked' = Site(vm)
        /\ UNCHANGED <<hostTools, prog, answers, counter, deliveries>>
    BY <1>1, <1>19
    DEF EagerInterrupt, HostCall, InPass, MayAct, Answered
  <2>2. interrupts_answered = Len(answers)
    BY <1>1, <2>1 DEF InStep
  <2>3. store' = PausedRecord
    BY <1>19 DEF EagerInterrupt, persist_hitl_record, Fault, CountKept
  <2>4. store'.vm = vm /\ store'.interrupts_answered = Len(answers)
    BY <2>2, <2>3 DEF PausedRecord
  <2>5. store' # NoRecord
    <3>1. PausedRecord \in Records
      BY <1>19 DEF EagerInterrupt, HostCall, PausedRecord, Records, TypeOK
    <3>2. QED
      BY <2>3, <3>1, StoreAssumption
  <2>6. Consistent(store)'
    BY <2>1, <2>4, <2>5 DEF Consistent, Tool, Code
  <2>7. asked' # Placeholder
    BY <1>1, <2>1, SiteIsNoPlaceholder
  <2>8. QED
    BY <2>1, <2>4, <2>5, <2>6, <2>7 DEF Site
<1>20. ~ BatchCall /\ ~ BatchInterrupt /\ ~ ResumeBatch
  BY DEF BatchCall, BatchInterrupt, ResumeBatch, Batch, InPass, InStep
<1>21. CASE RetryAfterError \/ RetryUnawaited
  <2>1. phase = "pass" /\ deferred # {} /\ RestartEagerly
    BY <1>21 DEF RetryAfterError, RetryUnawaited, SymptomOfDeferral, InPass
  <2>2. defer
    BY <2>1 DEF FuturesInv, DeferredMirrorsFutures
  <2>3. record = NoRecord /\ store = record /\ ~ pending_answer
    BY <2>1, <2>2 DEF InStep
  <2>4. answers = <<>> /\ counter = 0
    BY <2>1, <2>3 DEF InStep, Consistent
  <2>5. QED
    BY <2>1, <2>3, <2>4, StaysConsistent DEF RestartEagerly
<1>22. CASE ReportError \/ FinishPass
  BY <1>3, <1>22 DEF ReportError, FinishPass, InPass, Return
<1>23. CASE DeleteRecord
  BY <1>23 DEF DeleteRecord
<1>24. CASE Commit \/ Pause
  BY <1>24, StaysConsistent DEF Commit, Pause, Environment
<1>25. CASE HumanAnswers
  <2>1. /\ store # NoRecord /\ Consistent(store) /\ asked = Site(store.vm)
        /\ store.interrupts_answered = Len(answers)
    BY <1>25 DEF HumanAnswers
  <2>2. /\ answers' = Append(answers, asked) /\ UNCHANGED <<store, prog>>
        /\ phase' = "start" /\ asked' = NoQuestion
        /\ UNCHANGED <<hostTools, counter, deliveries>>
    BY <1>25 DEF HumanAnswers, Environment
  <2>3. Len(answers') = Len(answers) + 1 /\ answers'[Len(answers')] = asked
    BY <1>1, <2>2 DEF TypeOK
  <2>4. Consistent(store)'
    BY <1>1, <2>1, <2>2, <2>3 DEF Consistent, Code, Site
  <2>5. QED
    BY <2>2, <2>4 DEF NoQuestion, Placeholder
<1>26. CASE Crash
  <2>1. phase \notin {"returned", "committed"}
    BY <1>26 DEF Crash, Fault, CountKept
  <2>2. QED
    BY <1>26, <2>1, StaysConsistent DEF Crash, Environment, NoQuestion,
                                        Placeholder
<1>27. CASE UNCHANGED vars
  BY <1>27, StaysConsistent DEF InStep, Tool, Code, Site
<1>28. QED
  BY <1>4, <1>5, <1>6, <1>7, <1>8, <1>9, <1>10, <1>11, <1>12, <1>13, <1>14,
     <1>15, <1>16, <1>17, <1>18, <1>19, <1>20, <1>21, <1>22, <1>23, <1>24,
     <1>25, <1>26, <1>27
  DEF Next, Leg, Enter, Dispatch, EndPass, Finished

----------------------------------------------------------------------------
(***************************************************************************)
(* Whose turn it is: the places of the calls, and what a pass keeps for its*)
(* awaits                                                                  *)
(***************************************************************************)
\* An eager pass makes a call a positive number of times.
LEMMA TurnsCount ==
    ASSUME prog \in Seq(Instrs), NEW i \in DOMAIN prog
    PROVE  i \in Nat \ {0} /\ prog[i].n \in Nat /\ Turns(i) \in Nat \ {0}
<1>1. i \in Nat \ {0} /\ prog[i] \in Instrs
  OBVIOUS
<1>2. prog[i].n \in Nat
  BY <1>1 DEF Instrs
<1>3. QED
  BY <1>1, <1>2 DEF Turns

\* The places of calls are sites of the code.
LEMMA PlaceForm ==
    ASSUME prog \in Seq(Instrs)
    PROVE  /\ \A i \in DOMAIN prog : \A j \in Nat :
                 j < Turns(i) => <<i, j>> \in Places
           /\ \A s \in Places :
                 /\ s \in Sites /\ s = <<s[1], s[2]>>
                 /\ s[1] \in DOMAIN prog /\ s[2] < Turns(s[1])
<1>1. ASSUME NEW i \in DOMAIN prog, NEW j \in Nat, j < Turns(i)
      PROVE  <<i, j>> \in Places
  <2>1. j \in 0..(Turns(i) - 1)
    BY <1>1, TurnsCount
  <2>2. QED
    BY <2>1 DEF Places
<1>2. ASSUME NEW s \in Places
      PROVE  /\ s \in Sites /\ s = <<s[1], s[2]>>
             /\ s[1] \in DOMAIN prog /\ s[2] < Turns(s[1])
  <2>1. PICK i \in DOMAIN prog : s \in {i} \X (0..(Turns(i) - 1))
    BY DEF Places
  <2>2. /\ s = <<s[1], s[2]>> /\ s[1] = i /\ s[2] \in 0..(Turns(i) - 1)
    BY <2>1
  <2>3. i \in Nat /\ Turns(i) \in Nat
    BY TurnsCount
  <2>4. QED
    BY <2>2, <2>3, SMTT(30) DEF Sites
<1>3. QED
  BY <1>1, <1>2

----------------------------------------------------------------------------
\* Futures and what is kept for the next await
LEMMA KeptIsOpen ==
    ASSUME NEW i
    PROVE  /\ KeptAt(i) \subseteq OpenAt(i) /\ OpenAt(i) \subseteq Behind(i)
           /\ ListedAt(i) \subseteq OpenAt(i)
           /\ \A s \in Behind(i) : /\ s = <<s[1], 0>> /\ s[1] \in DOMAIN prog
                                   /\ s[2] = 0 /\ s[1] < i /\ Allowed(s[1])
<1>1. KeptAt(i) \subseteq OpenAt(i)
  BY DEF KeptAt, OpenAt, BatchAt
<1>2. OpenAt(i) \subseteq Behind(i)
  BY DEF OpenAt
<1>3. \A s \in Behind(i) : /\ s = <<s[1], 0>> /\ s[1] \in DOMAIN prog
                           /\ s[2] = 0 /\ s[1] < i /\ Allowed(s[1])
  BY DEF Behind
<1>4. QED
  BY <1>1, <1>2, <1>3 DEF ListedAt

\* At the start of the code nothing is behind, kept or open.
LEMMA NothingBehind ==
    ASSUME prog \in Seq(Instrs)
    PROVE  OpenAt(1) = {} /\ KeptAt(1) = {} /\ ResultsAt(1) = {}
<1>1. Behind(1) = {}
  BY TurnsCount DEF Behind
<1>2. QED
  BY <1>1, KeptIsOpen DEF ResultsAt

\* What one more instruction adds to what is behind
LEMMA BehindNext ==
    ASSUME prog \in Seq(Instrs), NEW i \in DOMAIN prog
    PROVE  /\ \A s : s \in Behind(i + 1) <=>
                        s \in Behind(i) \/ (s = <<i, 0>> /\ Allowed(i))
           /\ \A s \in Behind(i) : s[1] \in Nat /\ s[1] < i
<1>1. \A j \in DOMAIN prog : j \in Nat
  BY TurnsCount
<1>2. QED
  BY <1>1, SMTT(30) DEF Behind

\* What one more instruction adds to what is kept for the next await
LEMMA KeptNext ==
    ASSUME prog \in Seq(Instrs), NEW i \in DOMAIN prog
    PROVE  KeptAt(i + 1) =
              IF prog[i].op = "await" THEN {}
              ELSE IF Allowed(i) /\ prog[i].use = "later"
                   THEN KeptAt(i) \cup {<<i, 0>>} ELSE KeptAt(i)
<1>1. \A j \in DOMAIN prog : j \in Nat
  BY TurnsCount
<1>2. ASSUME NEW s \in Behind(i), NEW m \in DOMAIN prog
      PROVE  s[1] < m /\ m < i + 1 <=> (s[1] < m /\ m < i) \/ m = i
  BY <1>1, BehindNext
<1>3. CASE prog[i].op = "await"
  <2>1. ~ Allowed(i)
    BY <1>3 DEF Allowed
  <2>2. QED
    BY <1>2, <1>3, <2>1, BehindNext DEF KeptAt
<1>4. CASE prog[i].op # "await"
  <2>1. \A s \in Behind(i) : s \in KeptAt(i + 1) <=> s \in KeptAt(i)
    BY <1>2, <1>4, BehindNext DEF KeptAt
  <2>2. Allowed(i) /\ prog[i].use = "later" <=> <<i, 0>> \in KeptAt(i + 1)
    BY <1>1, BehindNext DEF KeptAt
  <2>3. KeptAt(i) \subseteq Behind(i) /\ KeptAt(i + 1) \subseteq Behind(i + 1)
    BY DEF KeptAt
  <2>4. \A s : s \in KeptAt(i + 1) <=>
           s \in KeptAt(i) \/ (s = <<i, 0>> /\ Allowed(i) /\ prog[i].use = "later")
    BY <2>1, <2>2, <2>3, BehindNext
  <2>5. QED
    BY <1>4, <2>4
<1>5. QED
  BY <1>3, <1>4

\* What one more instruction adds to the futures, or resolves
LEMMA OpenNext ==
    ASSUME prog \in Seq(Instrs), NEW i \in DOMAIN prog
    PROVE  OpenAt(i + 1) =
              IF BatchAt(i) THEN OpenAt(i) \ ListedAt(i)
              ELSE IF Allowed(i) THEN OpenAt(i) \cup {<<i, 0>>} ELSE OpenAt(i)
<1>1. \A j \in DOMAIN prog : j \in Nat
  BY TurnsCount
<1>2. ASSUME NEW s \in Behind(i), NEW m \in DOMAIN prog
      PROVE  s[1] < m /\ m < i + 1 <=> (s[1] < m /\ m < i) \/ m = i
  BY <1>1, BehindNext
<1>3. \A s \in Behind(i) :
         s \in OpenAt(i + 1) <=>
            /\ s \in OpenAt(i)
            /\ ~ (BatchAt(i) /\ (prog[i].use = "all" \/ s \in KeptAt(i)))
  BY <1>2, BehindNext DEF OpenAt
<1>4. Allowed(i) <=> <<i, 0>> \in OpenAt(i + 1)
  BY <1>1, BehindNext DEF OpenAt
<1>5. OpenAt(i) \subseteq Behind(i) /\ OpenAt(i + 1) \subseteq Behind(i + 1)
  BY DEF OpenAt
<1>6. BatchAt(i) => ~ Allowed(i)
  BY DEF BatchAt, Allowed
<1>7. KeptAt(i) \subseteq OpenAt(i)
  BY KeptIsOpen
<1>8. QED
  BY <1>3, <1>4, <1>5, <1>6, <1>7, BehindNext DEF ListedAt

----------------------------------------------------------------------------
\* The order of the questions
LEMMA OneBatch ==
    ASSUME prog \in Seq(Instrs), NEW m \in DOMAIN prog, NEW n \in DOMAIN prog,
           NEW s, BatchQuestion(m, s), BatchQuestion(n, s)
    PROVE  m = n
<1>1. ASSUME NEW k \in DOMAIN prog, NEW l \in DOMAIN prog,
             BatchQuestion(k, s), BatchQuestion(l, s), k < l
      PROVE  FALSE
  <2>1. s \in OpenAt(l) /\ s[1] < k
    BY <1>1, KeptIsOpen DEF BatchQuestion
  <2>2. BatchAt(k) /\ (prog[k].use = "all" \/ s \in KeptAt(k))
    BY <1>1 DEF BatchQuestion, ListedAt
  <2>3. QED
    BY <1>1, <2>1, <2>2 DEF OpenAt
<1>2. m \in Nat /\ n \in Nat
  BY TurnsCount
<1>3. QED
  BY <1>1, <1>2

\* A question is asked by an allowed call of a gated tool.
LEMMA QuestionForm ==
    ASSUME prog \in Seq(Instrs)
    PROVE  \A s \in Questions :
              /\ s \in Places /\ s \in Sites /\ s = <<s[1], s[2]>>
              /\ s[1] \in DOMAIN prog /\ s[2] < Turns(s[1])
              /\ Allowed(s[1]) /\ prog[s[1]].tool \in Gated
<1>1. ASSUME NEW s, NEW m, BatchQuestion(m, s)
      PROVE  Allowed(s[1]) /\ prog[s[1]].tool \in Gated
  BY <1>1, KeptIsOpen DEF BatchQuestion
<1>2. QED
  BY <1>1, PlaceForm DEF Questions, EagerQuestion

\* Precedes is a strict order, total on the questions.
LEMMA QuestionsInOrder ==
    ASSUME prog \in Seq(Instrs), NEW s \in Questions, NEW t \in Questions
    PROVE  /\ s = t \/ Precedes(s, t) \/ Precedes(t, s)
           /\ ~ Precedes(s, s)
<1>1. s \in Sites /\ t \in Sites /\ s = <<s[1], s[2]>> /\ t = <<t[1], t[2]>>
  BY QuestionForm
<1>2. /\ s = t \/ Earlier(s, t) \/ Earlier(t, s)
      /\ ~ Earlier(s, s)
  BY <1>1 DEF Earlier, Sites
<1>3. CASE Batched
  <2>1. PICK m \in DOMAIN prog : BatchQuestion(m, s)
    BY <1>3 DEF Questions
  <2>2. PICK n \in DOMAIN prog : BatchQuestion(n, t)
    BY <1>3 DEF Questions
  <2>3. m \in Nat /\ n \in Nat
    BY TurnsCount
  <2>4. s = t \/ Precedes(s, t) \/ Precedes(t, s)
    BY <1>2, <1>3, <2>1, <2>2, <2>3 DEF Precedes
  <2>5. ~ Precedes(s, s)
    <3>1. ASSUME NEW k \in DOMAIN prog, NEW l \in DOMAIN prog,
                 BatchQuestion(k, s), BatchQuestion(l, s), k < l
          PROVE  FALSE
      <4>1. k = l /\ k \in Nat
        BY <3>1, OneBatch, TurnsCount
      <4>2. QED
        BY <3>1, <4>1
    <3>2. QED
      BY <1>2, <1>3, <3>1 DEF Precedes
  <2>6. QED
    BY <2>4, <2>5
<1>4. CASE ~ Batched
  BY <1>2, <1>4 DEF Precedes
<1>5. QED
  BY <1>3, <1>4

\* Questions with the same predecessors are one question.
LEMMA OneTurn ==
    ASSUME prog \in Seq(Instrs), NEW s \in Questions, NEW t \in Questions,
           Preceding(s) = Preceding(t)
    PROVE  s = t
<1>1. CASE Precedes(s, t)
  <2>1. s \in Preceding(s)
    BY <1>1 DEF Preceding
  <2>2. QED
    BY <2>1, QuestionsInOrder DEF Preceding
<1>2. CASE Precedes(t, s)
  <2>1. t \in Preceding(t)
    BY <1>2 DEF Preceding
  <2>2. QED
    BY <2>1, QuestionsInOrder DEF Preceding
<1>3. QED
  BY <1>1, <1>2, QuestionsInOrder

\* In a batch, the questions before s are those of earlier batches, and those
\* of its own batch that are settled by then.
LEMMA BatchPreceding ==
    ASSUME prog \in Seq(Instrs), Batched, NEW m \in DOMAIN prog, BatchAt(m),
           NEW s \in ListedAt(m), prog[s[1]].tool \in Gated,
           NEW done,
           \A q \in ListedAt(m) : prog[q[1]].tool \in Gated =>
                                     (q \in done <=> Earlier(q, s)),
           done \subseteq ListedAt(m)
    PROVE  /\ s \in Questions
           /\ Preceding(s) = EarlierBatches(m) \cup (done \cap Questions)
<1>1. BatchQuestion(m, s)
  BY DEF BatchQuestion
<1>2. s \in Behind(m) /\ s = <<s[1], 0>> /\ s[1] \in DOMAIN prog
  BY KeptIsOpen
<1>3. s \in Places
  <2>1. Turns(s[1]) \in Nat \ {0}
    BY <1>2, TurnsCount
  <2>2. 0 < Turns(s[1])
    BY <2>1
  <2>3. <<s[1], 0>> \in Places
    BY <1>2, <2>2, PlaceForm
  <2>4. QED
    BY <1>2, <2>3
<1>4. s \in Questions
  BY <1>1, <1>3 DEF Questions
<1>5. ASSUME NEW q \in Questions
      PROVE  Precedes(q, s) <=>
                \/ \E n \in DOMAIN prog : n < m /\ BatchQuestion(n, q)
                \/ q \in done
  <2>1. Precedes(q, s) <=>
           \E k \in DOMAIN prog :
              BatchQuestion(k, q) /\ (k < m \/ (k = m /\ Earlier(q, s)))
    BY <1>1, OneBatch DEF Precedes
  <2>2. q \in done <=> BatchQuestion(m, q) /\ Earlier(q, s)
    BY QuestionForm DEF BatchQuestion
  <2>3. QED
    BY <2>1, <2>2
<1>6. QED
  BY <1>4, <1>5 DEF Preceding, EarlierBatches

----------------------------------------------------------------------------
\* How many calls an eager pass makes before it gets somewhere
CallsBefore(s) == {c \in Places : Allowed(c[1]) /\ Earlier(c, s)}

\* The calls before a place can be counted.
LEMMA CallsAreFinite ==
    ASSUME prog \in Seq(Instrs), NEW s
    PROVE  IsFiniteSet(CallsBefore(s)) /\ Count(s) = Cardinality(CallsBefore(s))
           /\ Count(s) \in Nat
<1> DEFINE Row(i) == {i} \X (0..(Turns(i) - 1))
<1>1. IsFiniteSet(DOMAIN prog)
  <2>1. DOMAIN prog = 1..Len(prog) /\ Len(prog) \in Nat
    OBVIOUS
  <2>2. QED
    BY <2>1, FS_Interval
<1>2. ASSUME NEW i \in DOMAIN prog PROVE IsFiniteSet(Row(i))
  <2>1. Turns(i) \in Nat
    BY TurnsCount
  <2>2. 0 \in Int /\ Turns(i) - 1 \in Int
    BY <2>1
  <2>3. IsFiniteSet(0..(Turns(i) - 1))
    BY <2>2, FS_Interval
  <2>4. IsFiniteSet({i})
    BY FS_Singleton
  <2>5. QED
    BY <2>3, <2>4, FS_Product
<1> HIDE DEF Row
<1>3. IsFiniteSet({Row(i) : i \in DOMAIN prog})
  <2> DEFINE Rows == {Row(i) : i \in DOMAIN prog}
             f == [i \in DOMAIN prog |-> Row(i)]
  <2>1. f \in Surjection(DOMAIN prog, Rows)
    BY DEF Surjection
  <2> HIDE DEF Rows, f
  <2>2. IsFiniteSet(Rows)
    BY <1>1, <2>1, FS_Surjection
  <2>3. QED
    BY <2>2 DEF Rows
<1>4. IsFiniteSet(Places)
  <2>1. IsFiniteSet(UNION {Row(i) : i \in DOMAIN prog})
    BY <1>2, <1>3, FS_UNION
  <2>2. QED
    BY <2>1 DEF Places, Row
<1>5. IsFiniteSet(CallsBefore(s))
  BY <1>4, FS_Subset DEF CallsBefore
<1>6. QED
  BY <1>5, FS_CardinalityType DEF Count, CallsBefore

\* A later place has no fewer calls before it.
LEMMA CountGrows ==
    ASSUME prog \in Seq(Instrs), NEW s \in Sites, NEW t \in Sites,
           ~ Earlier(s, t)
    PROVE  Count(t) <= Count(s)
<1>1. CallsBefore(t) \subseteq CallsBefore(s)
  <2>1. \A c \in Sites : Earlier(c, t) => Earlier(c, s)
    BY DEF Earlier, Sites
  <2>2. QED
    BY <2>1, PlaceForm DEF CallsBefore
<1>2. QED
  BY <1>1, CallsAreFinite, FS_Subset

\* No call is made before the start.
LEMMA CountFromNothing ==
    ASSUME prog \in Seq(Instrs) PROVE Count(<<1, 0>>) = 0
<1>1. \A s \in Places : s[1] \in Nat \ {0} /\ s[2] \in Nat
  BY PlaceForm, TurnsCount DEF Sites
<1>2. CallsBefore(<<1, 0>>) = {}
  BY <1>1 DEF CallsBefore, Earlier
<1>3. QED
  BY <1>2, CallsAreFinite, FS_EmptySet

\* The place after s, which has had all its turns or has another one
Follows(t, s) ==
    \/ t = <<s[1] + 1, 0>> /\ s[2] + 1 >= Turns(s[1])
    \/ t = <<s[1], s[2] + 1>> /\ s[2] + 1 < Turns(s[1])

\* What comes before the next place is what came before this one, and it.
LEMMA OneFurther ==
    ASSUME prog \in Seq(Instrs), NEW i \in DOMAIN prog, NEW j \in Nat,
           j < Turns(i), NEW t, Follows(t, <<i, j>>), NEW q \in Places
    PROVE  Earlier(q, t) <=> Earlier(q, <<i, j>>) \/ q = <<i, j>>
<1>1. /\ q = <<q[1], q[2]>> /\ q[1] \in Nat /\ q[2] \in Nat
      /\ q[1] \in DOMAIN prog /\ q[2] < Turns(q[1])
      /\ i \in Nat /\ Turns(i) \in Nat
  BY PlaceForm, TurnsCount DEF Sites
<1>2. q = <<i, j>> <=> q[1] = i /\ q[2] = j
  BY <1>1
<1>3. QED
  BY <1>1, <1>2, SMTT(30) DEF Earlier, Follows

\* A call counts once.
LEMMA CountNext ==
    ASSUME prog \in Seq(Instrs), NEW i \in DOMAIN prog, NEW j \in Nat,
           j < Turns(i), NEW t, Follows(t, <<i, j>>), Allowed(i)
    PROVE  Count(t) = Count(<<i, j>>) + 1
<1>1. <<i, j>> \in Places /\ i \in Nat
  BY PlaceForm, TurnsCount
<1>2. CallsBefore(t) = CallsBefore(<<i, j>>) \cup {<<i, j>>}
  BY <1>1, OneFurther DEF CallsBefore
<1>3. <<i, j>> \notin CallsBefore(<<i, j>>)
  BY <1>1 DEF CallsBefore, Earlier
<1>4. QED
  <2> DEFINE S == CallsBefore(<<i, j>>)
  <2>1. IsFiniteSet(S) /\ Count(<<i, j>>) = Cardinality(S) /\ <<i, j>> \notin S
        /\ Count(t) = Cardinality(S \cup {<<i, j>>})
    BY <1>2, <1>3, CallsAreFinite
  <2> HIDE DEF S
  <2>2. QED
    BY <2>1, FS_AddElement

\* An instruction that makes no call counts for nothing.
LEMMA CountPast ==
    ASSUME prog \in Seq(Instrs), NEW i \in DOMAIN prog, NEW j \in Nat,
           ~ Allowed(i)
    PROVE  Count(<<i + 1, 0>>) = Count(<<i, j>>)
<1>1. ASSUME NEW q \in Places, Allowed(q[1])
      PROVE  Earlier(q, <<i + 1, 0>>) <=> Earlier(q, <<i, j>>)
  <2>1. q[1] \in Nat /\ q[2] \in Nat /\ i \in Nat /\ q[1] # i
    BY <1>1, PlaceForm, TurnsCount DEF Sites
  <2>2. QED
    BY <2>1 DEF Earlier
<1>2. CallsBefore(<<i + 1, 0>>) = CallsBefore(<<i, j>>)
  BY <1>1 DEF CallsBefore
<1>3. QED
  BY <1>2, CallsAreFinite

\* Without batches the questions come in the order of their calls.
LEMMA EagerPreceding ==
    ASSUME ~ Batched, NEW t PROVE Preceding(t) = EarlierQuestions(t)
BY DEF Preceding, Precedes, EarlierQuestions

\* The questions before the next place
LEMMA QuestionsNext ==
    ASSUME prog \in Seq(Instrs), NEW i \in DOMAIN prog, NEW j \in Nat,
           j < Turns(i), NEW t, Follows(t, <<i, j>>)
    PROVE  EarlierQuestions(t) =
              EarlierQuestions(<<i, j>>) \cup ({<<i, j>>} \cap Questions)
BY OneFurther, QuestionForm DEF EarlierQuestions

\* An instruction that makes no call asks nothing.
LEMMA QuestionsPast ==
    ASSUME prog \in Seq(Instrs), NEW i \in DOMAIN prog, NEW j \in Nat,
           ~ (Allowed(i) /\ prog[i].tool \in Gated)
    PROVE  EarlierQuestions(<<i + 1, 0>>) = EarlierQuestions(<<i, j>>)
<1>1. ASSUME NEW q \in Questions
      PROVE  Earlier(q, <<i + 1, 0>>) <=> Earlier(q, <<i, j>>)
  <2>1. q[1] \in Nat /\ q[2] \in Nat /\ i \in Nat /\ q[1] # i
    BY QuestionForm, TurnsCount DEF Sites
  <2>2. QED
    BY <2>1 DEF Earlier
<1>2. QED
  BY <1>1 DEF EarlierQuestions

----------------------------------------------------------------------------
\* What depends on the code and the tools alone stays as it is.
LEMMA SameCode ==
    ASSUME prog' = prog
    PROVE  /\ \A m : (BatchAt(m)' <=> BatchAt(m)) /\ ListedAt(m)' = ListedAt(m)
           /\ \A m : KeptAt(m)' = KeptAt(m) /\ OpenAt(m)' = OpenAt(m)
           /\ \A m : ResultsAt(m)' = ResultsAt(m) /\ Turns(m)' = Turns(m)
           /\ \A m : Allowed(m)' <=> Allowed(m)
           /\ \A m : (DeferStops(m)' <=> DeferStops(m))
                       /\ (EagerStops(m)' <=> EagerStops(m))
           /\ \A m, s : BatchQuestion(m, s)' <=> BatchQuestion(m, s)
           /\ Batched' <=> Batched
           /\ Questions' = Questions
           /\ \A s : Count(s)' = Count(s) /\ Preceding(s)' = Preceding(s)
           /\ \A i : EarlierBatches(i)' = EarlierBatches(i)
           /\ \A s : EarlierQuestions(s)' = EarlierQuestions(s)
<1>1. /\ \A m : Allowed(m)' <=> Allowed(m)
      /\ \A m : Turns(m)' = Turns(m)
  BY DEF Allowed, Turns
<1>2. \A m : Behind(m)' = Behind(m)
  BY <1>1 DEF Behind
<1>3. \A m : KeptAt(m)' = KeptAt(m)
  BY <1>2 DEF KeptAt
<1>4. \A m : BatchAt(m)' <=> BatchAt(m)
  BY <1>3 DEF BatchAt
<1>5. \A m : OpenAt(m)' = OpenAt(m)
  BY <1>2, <1>3, <1>4 DEF OpenAt
<1>6. \A m : ListedAt(m)' = ListedAt(m) /\ ResultsAt(m)' = ResultsAt(m)
  BY <1>3, <1>5 DEF ListedAt, ResultsAt
<1>7. \A m : Raising(m)' <=> Raising(m)
  BY <1>1 DEF Raising
<1>8. \A m : (DeferStops(m)' <=> DeferStops(m)) /\ (EagerStops(m)' <=> EagerStops(m))
  BY <1>1, <1>3, <1>6, <1>7 DEF DeferStops, EagerStops
<1>9. Batched' <=> Batched
  BY <1>4, <1>8 DEF Batched
<1>10. \A m, s : BatchQuestion(m, s)' <=> BatchQuestion(m, s)
  BY <1>4, <1>6 DEF BatchQuestion
<1>11. Places' = Places
  BY <1>1 DEF Places
<1>12. \A s : Count(s)' = Count(s)
  BY <1>1, <1>11 DEF Count
<1>13. \A s : EagerQuestion(s)' <=> EagerQuestion(s)
  BY <1>1, <1>8, <1>12 DEF EagerQuestion
<1>14. Questions' = Questions
  BY <1>9, <1>10, <1>11, <1>13 DEF Questions
<1>15. \A s, t : Precedes(s, t)' <=> Precedes(s, t)
  BY <1>9, <1>10 DEF Precedes
<1>16. \A s : Preceding(s)' = Preceding(s)
  BY <1>14, <1>15 DEF Preceding
<1>17. /\ \A i : EarlierBatches(i)' = EarlierBatches(i)
       /\ \A s : EarlierQuestions(s)' = EarlierQuestions(s)
  BY <1>10, <1>14 DEF EarlierBatches, EarlierQuestions
<1>18. QED
  BY <1>1, <1>3, <1>4, <1>5, <1>6, <1>8, <1>9, <1>10, <1>12, <1>14, <1>16, <1>17

\* The code is a sequence of instructions.
LEMMA CodeOnFile == TypeOK => prog \in Seq(Instrs)
BY ProgramsAreCode DEF TypeOK

\* The next answer on file is the one to the question whose turn it is.
LEMMA NextAnswerFits ==
    ASSUME TypeOK, LedgerInv, NEW k \in Nat, k < Len(answers),
           NEW q \in Questions, Preceding(q) = FirstAnswers(k)
    PROVE  /\ answers[k + 1] = q /\ k + 1 <= Len(answers)
           /\ FirstAnswers(k + 1) = FirstAnswers(k) \cup {q}
<1>1. prog \in Seq(Instrs) /\ answers \in Seq(Sites) /\ Len(answers) \in Nat
  BY CodeOnFile DEF TypeOK
<1>2. k + 1 \in DOMAIN answers /\ (k + 1) - 1 = k
  BY <1>1
<1>3. /\ answers[k + 1] \in Questions
      /\ FirstAnswers(k) = Preceding(answers[k + 1])
  BY <1>2 DEF LedgerInv
<1>4. answers[k + 1] = q
  BY <1>1, <1>3, OneTurn
<1>5. \A j : j \in 1..(k + 1) <=> j \in 1..k \/ j = k + 1
  OBVIOUS
<1>6. QED
  BY <1>1, <1>4, <1>5 DEF FirstAnswers

\* No answers have been taken from the first on.
LEMMA NoAnswers == FirstAnswers(0) = {}
BY DEF FirstAnswers

\* The answers on file are the same ones after a step that adds none.
LEMMA SameAnswers ==
    ASSUME prog' = prog, answers' = answers
    PROVE  /\ \A k : FirstAnswers(k)' = FirstAnswers(k)
           /\ AllAsked' <=> AllAsked
           /\ \A v, c : EagerAt(v, c)' <=> EagerAt(v, c)
           /\ \A v : DeferredAt(v)' <=> DeferredAt(v)
           /\ \A r : OnFile(r)' <=> OnFile(r)
<1>1. \A k : FirstAnswers(k)' = FirstAnswers(k)
  BY DEF FirstAnswers
<1>2. AllAsked' <=> AllAsked
  BY <1>1, SameCode DEF AllAsked
<1>3. \A v, c : EagerAt(v, c)' <=> EagerAt(v, c)
  BY SameCode DEF EagerAt
<1>4. \A v : DeferredAt(v)' <=> DeferredAt(v)
  BY SameCode DEF DeferredAt
<1>5. \A r : OnFile(r)' <=> OnFile(r)
  BY <1>1, <1>3, SameCode DEF OnFile
<1>6. QED
  BY <1>1, <1>2, <1>3, <1>4, <1>5

\* The ledger is kept by a step that adds no answer.
LEMMA LedgerKept ==
    ASSUME LedgerInv, prog' = prog, answers' = answers,
           phase' \in {"raised", "paused"} =>
              \/ phase \in {"raised", "paused"} /\ asked' = asked
              \/ /\ asked' \in Questions
                 /\ FirstAnswers(Len(answers)) = Preceding(asked'),
           phase' \in {"load", "pool", "begin"} => counter' = 0
    PROVE  LedgerInv'
BY SameCode, SameAnswers DEF LedgerInv

----------------------------------------------------------------------------
\* Passes that go on
LEMMA DeferredGoesOn ==
    ASSUME prog' = prog, answers' = answers, phase' = "pass", defer',
           counter' <= Len(answers),
           ~ Batched => counter' = 0,
           vm'.at # "error" =>
              /\ DeferredAt(vm')
              /\ ~ executed_any' =>
                    \A m \in DOMAIN prog : m < vm'.pc => ~ BatchAt(m),
           vm'.at = "error" /\ ~ executed_any' => ~ Batched,
           vm'.at = "await" =>
              /\ BatchAt(vm'.pc) /\ vm'.pending = ListedAt(vm'.pc)
              /\ settled' # {} => executed_any',
           Batched /\ vm'.at \notin {"await", "error"} =>
              EarlierBatches(vm'.pc) = FirstAnswers(counter')
    PROVE  PassInv'
<1>1. DeferredPass'
  BY SameCode, SameAnswers DEF DeferredPass
<1>2. (vm.at \notin {"await", "error"} => PassedQuestions = FirstAnswers(counter))'
  BY SameCode, SameAnswers, NoAnswers DEF PassedQuestions
<1>3. QED
  BY <1>1, <1>2, SameCode DEF PassInv

\* A step of an eager pass, with the answers it takes
LEMMA EagerGoesOn ==
    ASSUME prog' = prog, answers' = answers, phase' = "pass", ~ defer',
           counter' <= Len(answers), ~ Batched, vm'.at # "await",
           vm'.at # "error" =>
              /\ EagerAt(vm', host_calls')
              /\ EarlierQuestions(Site(vm')) = FirstAnswers(counter'),
           vm'.at = "error" /\ "limit" \notin FaultKinds =>
              Questions \subseteq FirstAnswers(counter')
    PROVE  PassInv'
<1>1. EagerPass'
  BY SameCode, SameAnswers DEF EagerPass
<1>2. (vm.at \notin {"await", "error"} => PassedQuestions = FirstAnswers(counter))'
  <2>1. Site(vm)' = Site(vm')
    BY DEF Site
  <2>2. QED
    BY <2>1, SameCode, SameAnswers DEF PassedQuestions
<1>3. QED
  BY <1>1, <1>2, SameCode DEF PassInv

----------------------------------------------------------------------------
\* Going on past a place
LEMMA DeferredPast ==
    ASSUME prog \in Seq(Instrs), NEW v \in VMs, DeferredAt(v),
           v.pc \in DOMAIN prog, ~ DeferStops(v.pc), NEW w,
           w.pc = v.pc + 1, w.iter = 0,
           w.held = KeptAt(v.pc + 1), w.futures = OpenAt(v.pc + 1)
    PROVE  /\ DeferredAt(w)
           /\ ~ BatchAt(v.pc) =>
                 /\ EarlierBatches(w.pc) = EarlierBatches(v.pc)
                 /\ (\A m \in DOMAIN prog : m < v.pc => ~ BatchAt(m))
                       => \A m \in DOMAIN prog : m < w.pc => ~ BatchAt(m)
<1>1. v.pc \in Nat /\ \A i \in DOMAIN prog : i \in Nat
  BY TurnsCount
<1>2. \A i \in DOMAIN prog : i < w.pc <=> i < v.pc \/ i = v.pc
  BY <1>1
<1>3. DeferredAt(w)
  BY <1>2 DEF DeferredAt
<1>4. \A s : BatchQuestion(v.pc, s) => BatchAt(v.pc)
  BY DEF BatchQuestion
<1>5. ~ BatchAt(v.pc) => EarlierBatches(w.pc) = EarlierBatches(v.pc)
  BY <1>2, <1>4 DEF EarlierBatches
<1>6. QED
  BY <1>2, <1>3, <1>5

\* A deferred pass that ends before it meets a batch shows the code has none.
LEMMA ComesToABatch ==
    ASSUME prog \in Seq(Instrs), NEW i,
           \A m \in DOMAIN prog : m < i => ~ BatchAt(m),
           \/ i \in DOMAIN prog /\ DeferStops(i) /\ ~ BatchAt(i)
           \/ i > Len(prog), i \in Nat
    PROVE  ~ Batched
<1>1. \A m \in DOMAIN prog : m \in Nat
  BY TurnsCount
<1>2. QED
  BY <1>1 DEF Batched

\* What the driver and the sandbox do with an instruction that is no call of
\* an allowed tool and waits for nothing
Served(v, w) ==
    /\ v.pc \in DOMAIN prog /\ ~ Allowed(v.pc) /\ prog[v.pc].op # "await"
    /\ w = IF Raising(v.pc) THEN Throw(v) ELSE Advance(v)

\* Past an instruction that is no call, or stopped there
LEMMA DeferredServed ==
    ASSUME prog \in Seq(Instrs), NEW v \in VMs, DeferredAt(v),
           NEW w, Served(v, w)
    PROVE  /\ w.at \in {"run", "error"}
           /\ w.at = "error" => DeferStops(v.pc) /\ ~ BatchAt(v.pc)
           /\ w.at # "error" =>
                 /\ DeferredAt(w) /\ EarlierBatches(w.pc) = EarlierBatches(v.pc)
                 /\ (\A m \in DOMAIN prog : m < v.pc => ~ BatchAt(m))
                       => \A m \in DOMAIN prog : m < w.pc => ~ BatchAt(m)
<1>1. v.iter = 0 /\ v.held = KeptAt(v.pc) /\ v.futures = OpenAt(v.pc)
  BY DEF DeferredAt, Served
<1>2. ~ BatchAt(v.pc)
  BY DEF Served, BatchAt
<1>3. DeferStops(v.pc) <=> Raising(v.pc) /\ ~ prog[v.pc].catch
  BY DEF Served, DeferStops
<1>4. /\ KeptAt(v.pc + 1) = KeptAt(v.pc) /\ OpenAt(v.pc + 1) = OpenAt(v.pc)
  BY <1>2, KeptNext, OpenNext DEF Served
<1>5. CASE DeferStops(v.pc)
  BY <1>2, <1>3, <1>5 DEF Served, Throw, Code, VMs
<1>6. CASE ~ DeferStops(v.pc)
  <2>1. w = Advance(v)
    BY <1>3, <1>6 DEF Served, Throw, Code
  <2>2. /\ w.pc = v.pc + 1 /\ w.iter = 0 /\ w.at = "run"
        /\ w.held = v.held /\ w.futures = v.futures
    BY <2>1 DEF Advance, VMs
  <2>3. QED
    BY <1>1, <1>2, <1>4, <1>6, <2>2, DeferredPast DEF Served
<1>7. QED
  BY <1>5, <1>6

----------------------------------------------------------------------------
(***************************************************************************)
(* What a deferred pass does at each instruction                           *)
(***************************************************************************)
\* A call that is answered with a future
LEMMA DeferredCalled ==
    ASSUME prog \in Seq(Instrs), NEW v \in VMs, DeferredAt(v),
           v.pc \in DOMAIN prog, Allowed(v.pc), v.at = "call",
           NEW w, w = ReturnFuture(v)
    PROVE  /\ w.at \in {"run", "error"}
           /\ w.at = "error" => DeferStops(v.pc) /\ ~ BatchAt(v.pc)
           /\ w.at # "error" =>
                 /\ DeferredAt(w) /\ EarlierBatches(w.pc) = EarlierBatches(v.pc)
                 /\ (\A m \in DOMAIN prog : m < v.pc => ~ BatchAt(m))
                       => \A m \in DOMAIN prog : m < w.pc => ~ BatchAt(m)
<1>1. prog[v.pc].op = "call" /\ ~ BatchAt(v.pc) /\ ~ Raising(v.pc)
  BY DEF Allowed, BatchAt, Raising
<1>2. DeferStops(v.pc) <=> prog[v.pc].use = "value" /\ ~ prog[v.pc].catch
  BY <1>1 DEF DeferStops
<1> DEFINE u == [v EXCEPT !.futures = @ \cup {Site(v)}]
<1>3. u \in VMs /\ u.pc = v.pc /\ u.held = v.held /\ u.iter = v.iter
         /\ u.futures = v.futures \cup {Site(v)}
  <2>1. Site(v) \in Sites
    BY DEF VMs, Site, Sites
  <2>2. /\ u.pc = v.pc /\ u.held = v.held /\ u.iter = v.iter
        /\ u.futures = v.futures \cup {Site(v)}
    BY DEF VMs
  <2>3. v.futures \cup {Site(v)} \in SUBSET Sites
    BY <2>1 DEF VMs
  <2>4. u \in VMs
    BY <2>3 DEF VMs
  <2>5. QED
    BY <2>2, <2>4
<1>4. /\ KeptAt(v.pc + 1) = IF prog[v.pc].use = "later"
                            THEN KeptAt(v.pc) \cup {<<v.pc, 0>>} ELSE KeptAt(v.pc)
      /\ OpenAt(v.pc + 1) = OpenAt(v.pc) \cup {<<v.pc, 0>>}
  BY <1>1, KeptNext, OpenNext
<1>5. CASE prog[v.pc].use = "loop"
  <2>1. /\ w = [u EXCEPT !.iter = u.iter + 1, !.at = "run"]
    BY <1>5 DEF ReturnFuture, Loops, Code, LoopAgain
  <2>2. w.pc = v.pc /\ w.iter = v.iter + 1 /\ w.at = "run" /\ v.iter \in Nat
    BY <1>3, <2>1 DEF VMs
  <2>3. w.iter # 0
    BY <2>2
  <2>4. DeferredAt(w)
    BY <1>5, <2>2, <2>3 DEF DeferredAt
  <2>5. QED
    BY <2>2, <2>4
<1>6. CASE prog[v.pc].use # "loop"
  <2>1. v.iter = 0 /\ v.held = KeptAt(v.pc) /\ v.futures = OpenAt(v.pc)
           /\ Site(v) = <<v.pc, 0>>
    BY <1>6 DEF DeferredAt, Site
  <2> HIDE DEF u
  <2>2. ASSUME NEW x \in VMs, x.pc = v.pc, x.held = KeptAt(v.pc + 1),
               x.futures = OpenAt(v.pc + 1), w = Advance(x), ~ DeferStops(v.pc)
        PROVE  /\ w.at = "run"
               /\ DeferredAt(w) /\ EarlierBatches(w.pc) = EarlierBatches(v.pc)
               /\ (\A m \in DOMAIN prog : m < v.pc => ~ BatchAt(m))
                     => \A m \in DOMAIN prog : m < w.pc => ~ BatchAt(m)
    <3>1. /\ w.pc = v.pc + 1 /\ w.iter = 0 /\ w.at = "run"
          /\ w.held = x.held /\ w.futures = x.futures
      BY <2>2 DEF Advance, VMs
    <3>2. QED
      BY <1>1, <2>2, <3>1, DeferredPast
  <2>3. CASE prog[v.pc].use = "later"
    <3>1. w = Advance(Keep(u))
      BY <1>3, <1>6, <2>3 DEF ReturnFuture, Loops, Code, u
    <3>2. /\ Keep(u) \in VMs /\ Keep(u).pc = v.pc
          /\ Keep(u).held = v.held \cup {<<v.pc, 0>>} /\ Keep(u).futures = u.futures
      <4>1. Site(u) = <<v.pc, 0>>
        BY <1>3, <2>1 DEF Site
      <4>2. Keep(u) \in VMs
        BY <1>3, SMTT(30) DEF Keep, Site, VMs, Sites
      <4>3. QED
        BY <1>3, <4>1, <4>2 DEF Keep, VMs
    <3>3. QED
      BY <1>2, <1>3, <1>4, <2>1, <2>2, <2>3, <3>1, <3>2
  <2>4. CASE prog[v.pc].use = "value"
    <3>1. w = Throw(u)
      BY <1>6, <2>4 DEF ReturnFuture, Loops, Code, u
    <3>2. CASE prog[v.pc].catch
      <4>1. w = Advance(u)
        BY <1>3, <3>1, <3>2 DEF Throw, Code
      <4>2. QED
        BY <1>2, <1>3, <1>4, <2>1, <2>2, <2>4, <3>2, <4>1
    <3>3. CASE ~ prog[v.pc].catch
      <4>1. w.at = "error"
        BY <1>3, <3>1, <3>3 DEF Throw, Code, VMs
      <4>2. QED
        BY <1>1, <1>2, <2>4, <3>3, <4>1
    <3>4. QED
      BY <3>2, <3>3
  <2>5. CASE prog[v.pc].use \notin {"later", "value"}
    <3>1. w = Advance(u)
      BY <1>6, <2>5 DEF ReturnFuture, Loops, Code, u
    <3>2. QED
      BY <1>2, <1>3, <1>4, <2>1, <2>2, <2>5, <3>1
  <2>6. QED
    BY <2>3, <2>4, <2>5
<1>7. QED
  BY <1>5, <1>6

\* An await in a deferred pass goes on, if nothing is kept, or waits for a batch
LEMMA DeferredAwaits ==
    ASSUME prog \in Seq(Instrs), vm \in VMs, DeferredAt(vm), VmAwait
    PROVE  \/ /\ vm'.at = "run" /\ ~ BatchAt(vm.pc)
              /\ DeferredAt(vm') /\ EarlierBatches(vm'.pc) = EarlierBatches(vm.pc)
              /\ (\A m \in DOMAIN prog : m < vm.pc => ~ BatchAt(m))
                    => \A m \in DOMAIN prog : m < vm'.pc => ~ BatchAt(m)
           \/ /\ vm'.at = "await" /\ BatchAt(vm.pc) /\ vm'.pc = vm.pc
              /\ vm'.pending = ListedAt(vm.pc) /\ DeferredAt(vm')
<1>1. /\ vm.pc \in DOMAIN prog /\ prog[vm.pc].op = "await" /\ ~ Allowed(vm.pc)
  BY DEF VmAwait, Running, Code, VMs, Allowed
<1>2. vm.iter = 0 /\ vm.held = KeptAt(vm.pc) /\ vm.futures = OpenAt(vm.pc)
  BY <1>1 DEF DeferredAt
<1>3. KeptAt(vm.pc) \subseteq OpenAt(vm.pc)
  BY KeptIsOpen
<1>4. CASE KeptAt(vm.pc) = {}
  <2>1. ~ BatchAt(vm.pc)
    BY <1>4 DEF BatchAt
  <2>2. KeptAt(vm.pc + 1) = {} /\ OpenAt(vm.pc + 1) = OpenAt(vm.pc)
    BY <1>1, <2>1, KeptNext, OpenNext
  <2>3. ~ DeferStops(vm.pc)
    BY <1>1, <1>4 DEF DeferStops, Raising
  <2>4. vm' = Advance(vm)
    BY <1>2, <1>3, <1>4 DEF VmAwait
  <2>5. /\ vm'.pc = vm.pc + 1 /\ vm'.iter = 0 /\ vm'.at = "run"
        /\ vm'.held = vm.held /\ vm'.futures = vm.futures
    BY <2>4 DEF Advance, VMs
  <2>6. QED
    BY <1>1, <1>2, <1>4, <2>1, <2>2, <2>3, <2>5, DeferredPast
<1>5. CASE KeptAt(vm.pc) # {}
  <2>1. vm' = [vm EXCEPT !.at = "await",
                         !.pending = IF Code(vm).use = "all"
                                     THEN vm.futures ELSE vm.held]
    BY <1>2, <1>3, <1>5 DEF VmAwait
  <2>2. /\ vm'.at = "await" /\ vm'.pc = vm.pc /\ vm'.iter = vm.iter
        /\ vm'.held = vm.held /\ vm'.futures = vm.futures
        /\ vm'.pending = ListedAt(vm.pc)
    BY <1>2, <2>1 DEF Code, ListedAt, VMs
  <2>3. DeferredAt(vm')
    BY <1>2, <2>2 DEF DeferredAt
  <2>4. QED
    BY <1>1, <1>5, <2>2, <2>3 DEF BatchAt
<1>6. QED
  BY <1>4, <1>5

\* The batch has its results.
LEMMA DeferredResumed ==
    ASSUME prog \in Seq(Instrs), NEW v \in VMs, DeferredAt(v), v.at = "await",
           BatchAt(v.pc), v.pc \in DOMAIN prog, v.pending = ListedAt(v.pc),
           NEW w, w = ResolveFutures(v, [s \in v.pending |-> CameTo(s)])
    PROVE  /\ w.at \in {"run", "error"}
           /\ w.at # "error" =>
                 /\ DeferredAt(w)
                 /\ EarlierBatches(w.pc) =
                       EarlierBatches(v.pc) \cup (v.pending \cap Questions)
<1>1. /\ prog[v.pc].op = "await" /\ ~ Allowed(v.pc) /\ ~ Raising(v.pc)
  BY DEF BatchAt, Allowed, Raising
<1>2. v.iter = 0 /\ v.held = KeptAt(v.pc) /\ v.futures = OpenAt(v.pc)
  BY DEF DeferredAt
<1>3. KeptAt(v.pc) \subseteq ListedAt(v.pc)
  BY KeptIsOpen DEF ListedAt
<1> DEFINE own == [s \in v.pending |-> CameTo(s)]
           u == Resolved(v, own)
<1>4. u \in VMs /\ u.pc = v.pc /\ u.held = {} /\ u.futures = v.futures \ v.pending
  <2>1. v.pending \subseteq Sites
    BY DEF VMs
  <2>2. \A s \in v.pending : own[s] \in Payloads
    BY <2>1, CameToTyped
  <2>3. QED
    BY <2>2, ResolvedTyped
<1>5. DeferStops(v.pc) <=> (\E s \in v.held : own[s].raised) /\ ~ prog[v.pc].catch
  <2>1. \A s \in v.held : own[s].raised <=> prog[s[1]].tool \in Failing
    BY <1>2, <1>3 DEF CameTo, ToolAt
  <2>2. QED
    BY <1>1, <1>2, <2>1 DEF DeferStops
<1>6. w = IF \E s \in v.held : own[s].raised THEN Throw(u) ELSE Advance(u)
  BY DEF ResolveFutures, Resolved
<1> HIDE DEF u, own
<1>7. CASE DeferStops(v.pc)
  BY <1>4, <1>5, <1>6, <1>7 DEF Throw, Code, VMs
<1>8. CASE ~ DeferStops(v.pc)
  <2>1. w = Advance(u)
    BY <1>4, <1>5, <1>6, <1>8 DEF Throw, Code
  <2>2. /\ w.pc = v.pc + 1 /\ w.iter = 0 /\ w.at = "run"
        /\ w.held = {} /\ w.futures = v.futures \ v.pending
    BY <1>4, <2>1 DEF Advance, VMs
  <2>3. KeptAt(v.pc + 1) = {} /\ OpenAt(v.pc + 1) = v.futures \ v.pending
    BY <1>1, <1>2, KeptNext, OpenNext
  <2>4. DeferredAt(w)
    BY <1>8, <2>2, <2>3, DeferredPast
  <2>5. EarlierBatches(w.pc) = EarlierBatches(v.pc) \cup (v.pending \cap Questions)
    <3>1. \A i \in DOMAIN prog : i < v.pc + 1 <=> i < v.pc \/ i = v.pc
      BY TurnsCount
    <3>2. \A s \in Questions : BatchQuestion(v.pc, s) <=> s \in v.pending
      BY QuestionForm DEF BatchQuestion
    <3>3. QED
      BY <2>2, <3>1, <3>2 DEF EarlierBatches
  <2>6. QED
    BY <2>2, <2>4, <2>5
<1>9. QED
  BY <1>7, <1>8

----------------------------------------------------------------------------
(***************************************************************************)
(* What an eager pass does at each instruction                             *)
(***************************************************************************)
\* Where an eager call leaves the sandbox
LEMMA EagerMove ==
    ASSUME NEW v \in VMs, v.pc \in DOMAIN prog, prog \in Seq(Instrs),
           NEW w, w.at # "error",
           w = IF Code(v).tool \in Failing THEN Throw(v) ELSE ReturnValue(v)
    PROVE  Follows(Site(w), Site(v))
<1>1. /\ v.pc \in Nat /\ v.iter \in Nat /\ Code(v).n \in Nat
      /\ Turns(v.pc) \in Nat \ {0}
      /\ Site(v)[1] = v.pc /\ Site(v)[2] = v.iter
  BY TurnsCount DEF VMs, Code, Site
<1>2. \A u \in VMs : u.pc = v.pc => Site(Advance(u)) = <<v.pc + 1, 0>>
  BY DEF Site, Advance, VMs
<1>3. CASE Code(v).tool \in Failing
  <2>1. w = Advance(v)
    BY <1>3 DEF Throw, VMs
  <2>2. Turns(v.pc) = 1
    BY <1>3 DEF Turns, Code
  <2>3. QED
    BY <1>1, <1>2, <2>1, <2>2 DEF Follows
<1>4. CASE Code(v).tool \notin Failing /\ Loops(v) /\ v.iter + 1 < Code(v).n
  <2>1. Site(w) = <<v.pc, v.iter + 1>>
    BY <1>4 DEF ReturnValue, LoopAgain, Site, VMs
  <2>2. Turns(v.pc) = Code(v).n
    BY <1>1, <1>4 DEF Turns, Code, Loops
  <2>3. QED
    BY <1>1, <1>4, <2>1, <2>2 DEF Follows
<1>5. CASE Code(v).tool \notin Failing /\ ~ (Loops(v) /\ v.iter + 1 < Code(v).n)
  <2>1. Keep(v) \in VMs /\ Keep(v).pc = v.pc
    BY SMTT(30) DEF Keep, Site, VMs, Sites
  <2>2. Site(w) = <<v.pc + 1, 0>>
    BY <1>2, <1>5, <2>1 DEF ReturnValue
  <2>3. v.iter + 1 >= Turns(v.pc)
    BY <1>1, <1>5 DEF Turns, Loops, Code
  <2>4. QED
    BY <1>1, <2>2, <2>3 DEF Follows
<1>6. QED
  BY <1>3, <1>4, <1>5

\* What an eager pass keeps for its next await
LEMMA ResultsNext ==
    ASSUME prog \in Seq(Instrs), NEW i \in DOMAIN prog
    PROVE  ResultsAt(i + 1) =
              IF prog[i].op = "await" THEN {}
              ELSE IF Allowed(i) /\ prog[i].use = "later"
                         /\ prog[i].tool \notin Failing
                   THEN ResultsAt(i) \cup {<<i, 0>>} ELSE ResultsAt(i)
<1>1. CASE prog[i].op = "await"
  BY <1>1, KeptNext DEF ResultsAt
<1>2. CASE prog[i].op # "await" /\ Allowed(i) /\ prog[i].use = "later"
  <2>1. \A s : s \in KeptAt(i + 1) <=> s \in KeptAt(i) \/ s = <<i, 0>>
    BY <1>2, KeptNext
  <2>2. \A s : s \in ResultsAt(i + 1) <=>
           s \in ResultsAt(i) \/ (s = <<i, 0>> /\ prog[i].tool \notin Failing)
    BY <2>1 DEF ResultsAt
  <2>3. QED
    BY <1>2, <2>2
<1>3. CASE prog[i].op # "await" /\ ~ (Allowed(i) /\ prog[i].use = "later")
  BY <1>3, KeptNext DEF ResultsAt
<1>4. QED
  BY <1>1, <1>2, <1>3

\* An eager pass that goes on past an instruction was not stopped there.
LEMMA EagerPast ==
    ASSUME prog \in Seq(Instrs), NEW v \in VMs, NEW c, EagerAt(v, c),
           v.pc \in DOMAIN prog, ~ EagerStops(v.pc), NEW w, NEW d,
           w.pc = v.pc + 1, w.iter = 0, w.held = ResultsAt(v.pc + 1),
           d = Count(<<v.pc + 1, 0>>)
    PROVE  EagerAt(w, d)
<1>1. v.pc \in Nat /\ \A i \in DOMAIN prog : i \in Nat /\ 0 < Turns(i)
  BY TurnsCount
<1>2. \A i \in DOMAIN prog : i < w.pc <=> i < v.pc \/ i = v.pc
  BY <1>1
<1>3. Site(w) = <<v.pc + 1, 0>>
  BY DEF Site
<1>4. QED
  BY <1>1, <1>2, <1>3 DEF EagerAt

\* Past an instruction that is no call, or stopped there
LEMMA EagerServed ==
    ASSUME prog \in Seq(Instrs), NEW v \in VMs, NEW c, EagerAt(v, c),
           NEW w, Served(v, w)
    PROVE  /\ w.at \in {"run", "error"}
           /\ w.at = "error" => EagerStops(v.pc)
           /\ w.at # "error" => Site(w) = <<v.pc + 1, 0>> /\ EagerAt(w, c)
<1>1. /\ v.held = ResultsAt(v.pc) /\ v.pc \in DOMAIN prog /\ v.iter \in Nat
      /\ c = Count(<<v.pc, v.iter>>)
  BY DEF EagerAt, Served, Site, VMs
<1>2. EagerStops(v.pc) <=> Raising(v.pc) /\ ~ prog[v.pc].catch
  BY DEF Served, EagerStops
<1>3. ResultsAt(v.pc + 1) = ResultsAt(v.pc)
  BY ResultsNext DEF Served
<1>4. Count(<<v.pc + 1, 0>>) = c
  BY <1>1, CountPast DEF Served
<1>5. CASE EagerStops(v.pc)
  BY <1>2, <1>5 DEF Served, Throw, Code, VMs
<1>6. CASE ~ EagerStops(v.pc)
  <2>1. w = Advance(v)
    BY <1>2, <1>6 DEF Served, Throw, Code
  <2>2. /\ w.pc = v.pc + 1 /\ w.iter = 0 /\ w.at = "run" /\ w.held = v.held
    BY <2>1 DEF Advance, VMs
  <2>3. QED
    BY <1>1, <1>3, <1>4, <1>6, <2>2, EagerPast DEF Site
<1>7. QED
  BY <1>5, <1>6

\* A call that is answered with a value or an error
LEMMA EagerCalled ==
    ASSUME prog \in Seq(Instrs), NEW v \in VMs, NEW c, EagerAt(v, c),
           v.pc \in DOMAIN prog, Allowed(v.pc),
           NEW w, w = IF Code(v).tool \in Failing THEN Throw(v) ELSE ReturnValue(v)
    PROVE  /\ w.at \in {"run", "error"}
           /\ w.at = "error" => EagerStops(v.pc) /\ Turns(v.pc) = 1
           /\ w.at # "error" => Follows(Site(w), Site(v)) /\ EagerAt(w, c + 1)
<1>1. /\ v.held = ResultsAt(v.pc) /\ v.pc \in Nat /\ v.iter \in Nat
      /\ Site(v) = <<v.pc, v.iter>> /\ v.iter < Turns(v.pc)
      /\ c = Count(<<v.pc, v.iter>>) /\ Turns(v.pc) \in Nat
  BY TurnsCount DEF EagerAt, Site, VMs
<1>2. /\ ~ Raising(v.pc) /\ prog[v.pc].op = "call"
      /\ EagerStops(v.pc) <=> prog[v.pc].tool \in Failing /\ ~ prog[v.pc].catch
  BY DEF Allowed, Raising, EagerStops
<1>3. w.at \in {"run", "error"}
  BY AnsweredAtOnce
<1>4. CASE w.at = "error"
  <2>1. Code(v).tool \in Failing
    <3>1. ReturnValue(v).at = "run"
      <4>1. Keep(v) \in VMs
        BY SMTT(30) DEF Keep, Site, VMs, Sites
      <4>2. \A x \in VMs : Advance(x).at = "run" /\ LoopAgain(x).at = "run"
        BY DEF Advance, LoopAgain, VMs
      <4>3. QED
        BY <4>1, <4>2 DEF ReturnValue
    <3>2. QED
      BY <1>4, <3>1
  <2>2. ~ Code(v).catch
    BY <1>4, <2>1 DEF Throw, Advance, VMs
  <2>3. QED
    BY <1>2, <1>3, <1>4, <2>1, <2>2 DEF Code, Turns
<1>5. CASE w.at # "error"
  <2>1. Follows(Site(w), Site(v)) /\ Follows(Site(w), <<v.pc, v.iter>>)
    BY <1>1, <1>5, EagerMove
  <2>2. Count(Site(w)) = c + 1
    BY <1>1, <2>1, CountNext
  <2>3. ~ EagerStops(v.pc)
    BY <1>2, <1>5 DEF Throw, Code, VMs
  <2>4. CASE Code(v).tool \notin Failing /\ Loops(v) /\ v.iter + 1 < Code(v).n
    <3>1. w.pc = v.pc /\ w.iter = v.iter + 1 /\ w.held = v.held
      BY <2>4 DEF ReturnValue, LoopAgain, VMs
    <3>2. w.iter < Turns(w.pc)
      <4>1. prog[v.pc].n \in Nat
        BY TurnsCount
      <4>2. QED
        BY <1>1, <2>4, <3>1, <4>1 DEF Turns, Code, Loops
    <3>3. EagerAt(w, c + 1)
      BY <2>2, <3>1, <3>2 DEF EagerAt
    <3>4. QED
      BY <1>3, <1>5, <2>1, <3>3
  <2>5. CASE /\ Code(v).tool \notin Failing
             /\ ~ (Loops(v) /\ v.iter + 1 < Code(v).n) /\ Code(v).use = "later"
    <3>1. w = Advance(Keep(v))
      BY <2>5 DEF ReturnValue
    <3>2. v.iter = 0
      BY <1>1, <2>5 DEF Turns, Code
    <3>3. /\ Keep(v) \in VMs /\ Keep(v).pc = v.pc
          /\ Keep(v).held = v.held \cup {<<v.pc, 0>>}
      BY <3>2, SMTT(30) DEF Keep, Site, VMs, Sites
    <3>4. /\ w.pc = v.pc + 1 /\ w.iter = 0 /\ w.held = Keep(v).held
      BY <3>1, <3>3 DEF Advance, VMs
    <3>5. w.held = ResultsAt(v.pc + 1)
      BY <1>1, <1>2, <2>5, <3>3, <3>4, ResultsNext DEF Code
    <3>6. EagerAt(w, c + 1)
      BY <2>2, <2>3, <3>4, <3>5, EagerPast DEF Site
    <3>7. QED
      BY <1>3, <1>5, <2>1, <3>6
  <2>6. CASE \/ Code(v).tool \in Failing
             \/ /\ ~ (Loops(v) /\ v.iter + 1 < Code(v).n)
                /\ Code(v).use # "later"
    <3>1. w = Advance(v)
      BY <1>2, <1>5, <2>3, <2>6 DEF ReturnValue, Throw, Code
    <3>2. /\ w.pc = v.pc + 1 /\ w.iter = 0 /\ w.held = v.held
      BY <3>1 DEF Advance, VMs
    <3>3. w.held = ResultsAt(v.pc + 1)
      BY <1>1, <1>2, <2>6, <3>2, ResultsNext DEF Code
    <3>4. EagerAt(w, c + 1)
      BY <2>2, <2>3, <3>2, <3>3, EagerPast DEF Site
    <3>5. QED
      BY <1>3, <1>5, <2>1, <3>4
  <2>7. QED
    BY <2>4, <2>5, <2>6
<1>6. QED
  BY <1>4, <1>5

\* An await in an eager pass has values to wait for, if anything.
LEMMA EagerAwaits ==
    ASSUME prog \in Seq(Instrs), vm \in VMs, NEW c, EagerAt(vm, c),
           vm.futures = {}, VmAwait
    PROVE  /\ vm'.at \in {"run", "error"}
           /\ vm.pc \in DOMAIN prog /\ ~ Allowed(vm.pc)
           /\ vm'.at = "error" => EagerStops(vm.pc)
           /\ vm'.at # "error" => Site(vm') = <<vm.pc + 1, 0>> /\ EagerAt(vm', c)
<1>1. /\ vm.pc \in DOMAIN prog /\ prog[vm.pc].op = "await" /\ ~ Allowed(vm.pc)
      /\ ~ Raising(vm.pc)
  BY DEF VmAwait, Running, Code, VMs, Allowed, Raising
<1>2. vm.held = ResultsAt(vm.pc) /\ vm.iter \in Nat
         /\ c = Count(<<vm.pc, vm.iter>>)
  BY DEF EagerAt, Site, VMs
<1>3. EagerStops(vm.pc) <=> vm.held # {} /\ ~ prog[vm.pc].catch
  BY <1>1, <1>2 DEF EagerStops
<1>4. ResultsAt(vm.pc + 1) = {} /\ Count(<<vm.pc + 1, 0>>) = c
  BY <1>1, <1>2, ResultsNext, CountPast
<1> DEFINE u == [vm EXCEPT !.held = {}]
<1>5. u \in VMs /\ u.pc = vm.pc /\ u.held = {}
  BY DEF VMs
<1>6. vm' = IF vm.held = {} THEN Advance(vm) ELSE Throw(u)
  BY DEF VmAwait
<1> HIDE DEF u
<1>7. CASE EagerStops(vm.pc)
  BY <1>1, <1>3, <1>5, <1>6, <1>7 DEF Throw, Code, VMs
<1>8. CASE ~ EagerStops(vm.pc)
  <2>1. PICK x \in VMs : x.pc = vm.pc /\ x.held = {} /\ vm' = Advance(x)
    BY <1>3, <1>5, <1>6, <1>8 DEF Throw, Code
  <2>2. vm'.pc = vm.pc + 1 /\ vm'.iter = 0 /\ vm'.at = "run" /\ vm'.held = {}
    BY <2>1 DEF Advance, VMs
  <2>3. EagerAt(vm', c)
    BY <1>1, <1>4, <1>8, <2>2, EagerPast
  <2>4. QED
    BY <1>1, <2>2, <2>3 DEF Site
<1>9. QED
  BY <1>7, <1>8

----------------------------------------------------------------------------
(***************************************************************************)
(* The steps inside a pass                                                 *)
(***************************************************************************)
\* A sandbox that waits for the driver is at an instruction of that kind.
LEMMA AtCode ==
    ASSUME OutputInv, phase = "pass", vm.at \in {"name", "os", "call", "await"}
    PROVE  vm.pc \in DOMAIN prog /\ prog[vm.pc].op = vm.at
BY DEF OutputInv, AtItsCode, Code

\* What the steps that serve no call do to the sandbox
LEMMA ServedSteps ==
    ASSUME TypeOK, OutputInv, hostTools = HostTools,
           \/ Sandbox /\ (VmPrint \/ VmRaise)
           \/ LookUpName \/ ServiceOs \/ RejectCall
    PROVE  vm.at \notin {"error", "await"} /\ Served(vm, vm')
<1>1. vm \in VMs
  BY DEF TypeOK
<1>2. CASE Sandbox /\ (VmPrint \/ VmRaise)
  BY <1>1, <1>2 DEF VmPrint, VmRaise, Running, Served, Allowed, Raising, Code,
                    VMs
<1>3. CASE LookUpName
  BY <1>3, AtCode DEF LookUpName, InPass, Served, Allowed, Raising
<1>4. CASE ServiceOs
  BY <1>4, AtCode DEF ServiceOs, InPass, Served, Allowed, Raising, Code
<1>5. CASE RejectCall
  BY <1>5, AtCode DEF RejectCall, InPass, Tool, Served, Allowed, Raising, Code
<1>6. QED
  BY <1>2, <1>3, <1>4, <1>5

InnerStep == Sandbox \/ LimitExceeded \/ LookUpName \/ ServiceOs \/ RejectCall

\* Steps inside a pass neither ask nor take an answer.
LEMMA InnerSteps ==
    ASSUME InnerStep
    PROVE  /\ phase = "pass" /\ phase' = "pass" /\ vm.at # "error"
           /\ vm.at # "await"
           /\ UNCHANGED <<hostTools, record, store, prog, answers, asked, counter,
                          deliveries, defer, executed_any, host_calls, settled,
                          results, interrupts_answered>>
           /\ (defer' <=> defer) /\ (executed_any' <=> executed_any)
           /\ pending_answer' => pending_answer /\ vm.at # "call"
<1>1. Sandbox => vm.at = "run"
  BY DEF Sandbox, VmStep, VmPrint, VmRaise, VmSuspend, VmAwait, VmComplete,
         Running
<1>2. CASE Sandbox
  BY <1>1, <1>2 DEF Sandbox, InPass
<1>3. CASE LimitExceeded
  BY <1>3 DEF LimitExceeded, InPass
<1>4. CASE LookUpName \/ ServiceOs
  BY <1>4 DEF LookUpName, ServiceOs, InPass
<1>5. CASE RejectCall
  BY <1>5 DEF RejectCall, InPass
<1>6. QED
  BY <1>2, <1>3, <1>4, <1>5 DEF InnerStep

\* Where a suspended or completed sandbox is
LEMMA InPlace ==
    ASSUME vm \in VMs, VmSuspend \/ VmComplete
    PROVE  /\ vm'.at \in {"name", "os", "call", "complete"}
           /\ vm'.pc = vm.pc /\ vm'.iter = vm.iter /\ Site(vm') = Site(vm)
           /\ vm'.held = vm.held /\ vm'.futures = vm.futures
           /\ vm.pc \in DOMAIN prog => vm'.at = prog[vm.pc].op
           /\ vm.pc \notin DOMAIN prog => vm'.at = "complete"
           /\ vm.at = "run"
BY DEF VmSuspend, VmComplete, Running, Code, Site, VMs

\* Steps inside a deferred pass keep to the code.
LEMMA DeferredInner ==
    ASSUME TurnsKept, TypeOK, FuturesInv, OutputInv, hostTools = HostTools,
           PassInv, defer, InnerStep
    PROVE  PassInv'
<1>1. prog \in Seq(Instrs) /\ vm \in VMs
  BY CodeOnFile DEF TypeOK
<1>2. /\ phase = "pass" /\ phase' = "pass" /\ vm.at # "error" /\ vm.at # "await"
      /\ UNCHANGED <<prog, answers, counter, settled>>
      /\ defer' /\ (executed_any' <=> executed_any)
  BY InnerSteps
<1>3. /\ counter <= Len(answers) /\ (~ Batched => counter = 0)
      /\ Batched => EarlierBatches(vm.pc) = FirstAnswers(counter)
      /\ DeferredAt(vm)
      /\ ~ executed_any => \A m \in DOMAIN prog : m < vm.pc => ~ BatchAt(m)
  BY <1>2 DEF PassInv, PassedQuestions, DeferredPass
<1>4. settled = {}
  BY <1>2 DEF FuturesInv, DeferredMirrorsFutures
<1>5. CASE Served(vm, vm')
  <2>1. vm'.at = "error" /\ ~ executed_any => ~ Batched
    BY <1>1, <1>3, <1>5, DeferredServed, ComesToABatch DEF Served
  <2>2. QED
    BY <1>1, <1>2, <1>3, <1>5, <2>1, DeferredServed, DeferredGoesOn
<1>6. CASE Sandbox /\ (VmSuspend \/ VmComplete)
  <2>1. DeferredAt(vm')
    <3>1. vm.iter # 0 => vm'.at \in {"run", "call"}
      BY <1>1, <1>3, <1>6, InPlace DEF DeferredAt, Allowed
    <3>2. QED
      BY <1>1, <1>3, <1>6, <3>1, InPlace DEF DeferredAt
  <2>2. QED
    BY <1>1, <1>2, <1>3, <1>6, <2>1, InPlace, DeferredGoesOn
<1>7. CASE Sandbox /\ VmAwait
  BY <1>1, <1>2, <1>3, <1>4, <1>7, DeferredAwaits, DeferredGoesOn
<1>8. CASE LimitExceeded
  <2>1. vm'.at = "error" /\ PlainCode
    BY <1>1, <1>8 DEF LimitExceeded, Fault, TurnsKept, VMs
  <2>2. ~ Batched
    BY <2>1 DEF PlainCode, Batched, BatchAt, TypeOK
  <2>3. QED
    BY <1>2, <1>3, <2>1, <2>2, DeferredGoesOn
<1>9. QED
  BY <1>5, <1>6, <1>7, <1>8, ServedSteps DEF InnerStep, Sandbox, VmStep

\* So do its calls.
LEMMA DeferredCall ==
    ASSUME TypeOK, OutputInv, hostTools = HostTools, PassInv, DeferCall
    PROVE  PassInv'
<1>1. prog \in Seq(Instrs) /\ vm \in VMs
  BY CodeOnFile DEF TypeOK
<1>2. /\ phase = "pass" /\ phase' = "pass" /\ vm.at = "call" /\ defer /\ defer'
      /\ UNCHANGED <<prog, answers, counter>>
      /\ executed_any' <=> executed_any
      /\ vm' = ReturnFuture(vm) /\ Tool \in HostTools
  BY Zenon DEF DeferCall, HostCall, InPass
<1>3. /\ counter <= Len(answers) /\ (~ Batched => counter = 0)
      /\ Batched => EarlierBatches(vm.pc) = FirstAnswers(counter)
      /\ DeferredAt(vm)
      /\ ~ executed_any => \A m \in DOMAIN prog : m < vm.pc => ~ BatchAt(m)
  BY <1>2 DEF PassInv, PassedQuestions, DeferredPass
<1>4. vm.pc \in DOMAIN prog /\ Allowed(vm.pc)
  BY <1>2, AtCode DEF Allowed, Tool, Code
<1>5. vm'.at = "error" /\ ~ executed_any => ~ Batched
  BY <1>1, <1>2, <1>3, <1>4, DeferredCalled, ComesToABatch
<1>6. QED
  BY <1>1, <1>2, <1>3, <1>4, <1>5, DeferredCalled, DeferredGoesOn

----------------------------------------------------------------------------
\* All questions of an eager pass that ends where it is are behind it.
LEMMA EagerEnds ==
    ASSUME prog \in Seq(Instrs), ~ Batched, NEW v \in VMs,
           \/ v.pc \notin DOMAIN prog
           \/ EagerStops(v.pc) /\ ~ Allowed(v.pc)
           \/ EagerStops(v.pc) /\ Turns(v.pc) = 1 /\ v.iter < Turns(v.pc)
    PROVE  \A q \in Questions : Earlier(q, Site(v)) \/ q = Site(v)
<1> SUFFICES ASSUME NEW q \in Questions
             PROVE  Earlier(q, Site(v)) \/ q = Site(v)
  OBVIOUS
<1>1. /\ q = <<q[1], q[2]>> /\ q[1] \in Nat \ {0} /\ q[2] \in Nat
      /\ q[1] \in DOMAIN prog /\ q[2] < Turns(q[1]) /\ Allowed(q[1])
      /\ Site(v) = <<v.pc, v.iter>> /\ v.pc \in Nat \ {0} /\ v.iter \in Nat
  BY QuestionForm DEF Sites, Site, VMs
<1>2. \A i \in DOMAIN prog : i < q[1] => ~ EagerStops(i)
  BY DEF Questions, EagerQuestion
<1>3. CASE v.pc \notin DOMAIN prog
  BY <1>1, <1>3 DEF Earlier
<1>4. CASE v.pc \in DOMAIN prog
  <2>1. EagerStops(v.pc) /\ q[1] <= v.pc
    BY <1>1, <1>2, <1>4
  <2>2. CASE q[1] < v.pc
    BY <1>1, <2>2 DEF Earlier
  <2>3. CASE q[1] = v.pc
    BY <1>1, <1>4, <2>1, <2>3
  <2>4. QED
    BY <1>1, <2>1, <2>2, <2>3
<1>5. QED
  BY <1>3, <1>4

\* Steps inside an eager pass keep to the code.
LEMMA EagerInner ==
    ASSUME TurnsKept, TypeOK, FuturesInv, OutputInv, hostTools = HostTools,
           PassInv, ~ defer, InnerStep
    PROVE  PassInv'
<1>1. prog \in Seq(Instrs) /\ vm \in VMs
  BY CodeOnFile DEF TypeOK
<1>2. /\ phase = "pass" /\ phase' = "pass" /\ vm.at # "error" /\ vm.at # "await"
      /\ UNCHANGED <<prog, answers, counter, host_calls>> /\ ~ defer'
  BY InnerSteps
<1>3. /\ counter <= Len(answers) /\ ~ Batched /\ EagerAt(vm, host_calls)
      /\ EarlierQuestions(Site(vm)) = FirstAnswers(counter)
  BY <1>2 DEF PassInv, PassedQuestions, EagerPass
<1>4. vm.futures = {}
  BY <1>2 DEF FuturesInv, DeferredMirrorsFutures
\* Past an instruction that is no call, or stopped there
<1>5. ASSUME vm.pc \in DOMAIN prog, ~ Allowed(vm.pc),
             vm'.at \in {"run", "error"},
             vm'.at = "error" => EagerStops(vm.pc),
             vm'.at # "error" => /\ Site(vm') = <<vm.pc + 1, 0>>
                                 /\ EagerAt(vm', host_calls)
      PROVE  PassInv'
  <2>1. EarlierQuestions(<<vm.pc + 1, 0>>) = FirstAnswers(counter)
    <3>1. Site(vm) = <<vm.pc, vm.iter>> /\ vm.iter \in Nat
      BY <1>1 DEF Site, VMs
    <3>2. QED
      BY <1>1, <1>3, <1>5, <3>1, QuestionsPast
  <2>2. vm'.at = "error" => Questions \subseteq FirstAnswers(counter)
    <3>1. Site(vm) \notin Questions
      BY <1>5, <1>1, QuestionForm DEF Site
    <3>2. vm'.at = "error" => Questions \subseteq EarlierQuestions(Site(vm))
      BY <1>1, <1>3, <1>5, <3>1, EagerEnds DEF EarlierQuestions
    <3>3. QED
      BY <1>3, <3>2
  <2>3. QED
    BY <1>2, <1>3, <1>5, <2>1, <2>2, EagerGoesOn
<1>6. CASE Served(vm, vm')
  BY <1>1, <1>3, <1>5, <1>6, EagerServed DEF Served
<1>7. CASE Sandbox /\ (VmSuspend \/ VmComplete)
  <2>1. EagerAt(vm', host_calls)
    BY <1>1, <1>3, <1>7, InPlace DEF EagerAt
  <2>2. QED
    BY <1>1, <1>2, <1>3, <1>7, <2>1, InPlace, EagerGoesOn
<1>8. CASE Sandbox /\ VmAwait
  BY <1>1, <1>3, <1>4, <1>5, <1>8, EagerAwaits
<1>9. CASE LimitExceeded
  <2>1. vm'.at = "error" /\ "limit" \in FaultKinds
    BY <1>1, <1>9 DEF LimitExceeded, Fault, VMs
  <2>2. QED
    BY <1>2, <1>3, <2>1, EagerGoesOn
<1>10. QED
  BY <1>6, <1>7, <1>8, <1>9, ServedSteps DEF InnerStep, Sandbox, VmStep

----------------------------------------------------------------------------
(***************************************************************************)
(* Questions of a pass, and of a batch                                     *)
(***************************************************************************)
\* A call that asks in an eager pass is at the question after those answered.
LEMMA AtQuestion ==
    ASSUME TypeOK, OutputInv, hostTools = HostTools, PassInv, ~ defer,
           HostCall, host_calls' <= Budget
    PROVE  /\ vm.pc \in DOMAIN prog /\ Allowed(vm.pc) /\ Tool = prog[vm.pc].tool
           /\ Site(vm) \notin EarlierQuestions(Site(vm))
           /\ Tool \in Gated => Site(vm) \in Questions
           /\ Tool \notin Gated => Site(vm) \notin Questions
           /\ Preceding(Site(vm)) = FirstAnswers(counter)
<1>1. /\ prog \in Seq(Instrs) /\ phase = "pass" /\ vm.at = "call"
      /\ host_calls \in Nat /\ Budget \in Nat /\ host_calls + 1 <= Budget
      /\ Tool \in HostTools
  BY CodeOnFile, ToolsAssumption DEF TypeOK, HostCall, InPass
<1>2. /\ vm.pc \in DOMAIN prog /\ Allowed(vm.pc) /\ Tool = prog[vm.pc].tool
  BY <1>1, AtCode DEF Allowed, Tool, Code
<1>3. /\ ~ Batched /\ EagerAt(vm, host_calls)
      /\ EarlierQuestions(Site(vm)) = FirstAnswers(counter)
  BY <1>1 DEF PassInv, PassedQuestions, EagerPass
<1>4. /\ Site(vm) = <<vm.pc, vm.iter>> /\ vm.iter \in Nat /\ vm.pc \in Nat
      /\ vm.iter < Turns(vm.pc) /\ host_calls = Count(Site(vm))
      /\ \A i \in DOMAIN prog : i < vm.pc => ~ EagerStops(i)
  BY <1>2, <1>3 DEF EagerAt, Site, TypeOK, VMs
<1>5. Site(vm) \in Places
  BY <1>1, <1>2, <1>4, PlaceForm
<1>6. Tool \in Gated => Site(vm) \in Questions
  BY <1>1, <1>2, <1>3, <1>4, <1>5 DEF Questions, EagerQuestion
<1>7. Tool \notin Gated => Site(vm) \notin Questions
  BY <1>1, <1>2, <1>4, QuestionForm
<1>8. Site(vm) \notin EarlierQuestions(Site(vm))
  BY <1>4 DEF EarlierQuestions, Earlier
<1>9. QED
  BY <1>2, <1>3, <1>6, <1>7, <1>8, EagerPreceding

\* A call that acts in an eager pass takes the answer to its own question,
\* if it has one.
LEMMA EagerActs ==
    ASSUME TypeOK, OutputInv, hostTools = HostTools, LedgerInv,
           PassInv, AnswersReachTheirCalls, EagerCall
    PROVE  PassInv' /\ AnswersReachTheirCalls'
<1>1. /\ prog \in Seq(Instrs) /\ vm \in VMs /\ counter \in Nat
      /\ Len(answers) \in Nat
  BY CodeOnFile DEF TypeOK
<1>2. /\ phase = "pass" /\ phase' = "pass" /\ vm.at = "call" /\ ~ defer
      /\ ~ defer' /\ UNCHANGED <<prog, answers>> /\ host_calls' = host_calls + 1
      /\ HostCall /\ host_calls' <= Budget
      /\ vm' = IF Tool \in Failing THEN Throw(vm) ELSE ReturnValue(vm)
  BY DEF EagerCall, HostCall, InPass, Act
<1>3. /\ counter <= Len(answers) /\ ~ Batched /\ EagerAt(vm, host_calls)
      /\ EarlierQuestions(Site(vm)) = FirstAnswers(counter)
  BY <1>2 DEF PassInv, PassedQuestions, EagerPass
<1>4. /\ vm.pc \in DOMAIN prog /\ Allowed(vm.pc) /\ Tool = prog[vm.pc].tool
      /\ Tool \in Gated => Site(vm) \in Questions
      /\ Tool \notin Gated => Site(vm) \notin Questions
      /\ Preceding(Site(vm)) = FirstAnswers(counter)
  BY <1>2, AtQuestion
\* The question of this call, if it has one, is answered with its answer.
<1>5. /\ FirstAnswers(counter') =
            EarlierQuestions(Site(vm)) \cup ({Site(vm)} \cap Questions)
      /\ counter' <= Len(answers) /\ AnswersReachTheirCalls'
  <2>1. CASE Tool \in Gated
    <3>1. /\ counter' = counter + 1 /\ counter < Len(answers)
          /\ deliveries' = deliveries \cup {<<Site(vm), answers[counter + 1]>>}
      BY <2>1 DEF EagerCall, MayAct, Answered, Act, NextAnswer
    <3>2. /\ answers[counter + 1] = Site(vm) /\ counter + 1 <= Len(answers)
          /\ FirstAnswers(counter + 1) = FirstAnswers(counter) \cup {Site(vm)}
      BY <1>1, <1>4, <2>1, <3>1, NextAnswerFits
    <3>3. AnswersReachTheirCalls'
      BY <3>1, <3>2 DEF AnswersReachTheirCalls
    <3>4. QED
      BY <1>3, <1>4, <2>1, <3>1, <3>2, <3>3
  <2>2. CASE Tool \notin Gated
    <3>1. UNCHANGED <<counter, deliveries>>
      BY <2>2 DEF EagerCall, Act
    <3>2. QED
      BY <1>3, <1>4, <2>2, <3>1 DEF AnswersReachTheirCalls
  <2>3. QED
    BY <2>1, <2>2
<1>6. /\ vm'.at \in {"run", "error"}
      /\ vm'.at = "error" => EagerStops(vm.pc) /\ Turns(vm.pc) = 1
      /\ vm'.at # "error" =>
            Follows(Site(vm'), Site(vm)) /\ EagerAt(vm', host_calls')
  BY <1>1, <1>2, <1>3, <1>4, EagerCalled DEF Code
<1>7. /\ Site(vm) = <<vm.pc, vm.iter>> /\ vm.iter \in Nat
      /\ vm.iter < Turns(vm.pc)
  BY <1>1, <1>3, <1>4 DEF EagerAt, Site, VMs
<1>8. vm'.at = "error" => Questions \subseteq FirstAnswers(counter')
  <2>1. vm'.at = "error" =>
           \A q \in Questions : Earlier(q, Site(vm)) \/ q = Site(vm)
    BY <1>1, <1>3, <1>4, <1>6, <1>7, EagerEnds
  <2>2. QED
    BY <1>5, <2>1 DEF EarlierQuestions
<1>9. vm'.at # "error" => EarlierQuestions(Site(vm')) = FirstAnswers(counter')
  BY <1>1, <1>4, <1>5, <1>6, <1>7, QuestionsNext
<1>10. PassInv'
  BY <1>2, <1>3, <1>5, <1>6, <1>8, <1>9, EagerGoesOn
<1>11. QED
  BY <1>5, <1>10

----------------------------------------------------------------------------
\* While the sandbox waits for a batch
LEMMA InBatch ==
    ASSUME TypeOK, OutputInv, PassInv, phase = "pass", vm.at = "await"
    PROVE  /\ prog \in Seq(Instrs) /\ vm \in VMs
           /\ defer /\ Batched /\ PassedQuestions = EarlierBatches(vm.pc)
           /\ DeferredAt(vm) /\ vm.pc \in DOMAIN prog /\ BatchAt(vm.pc)
           /\ vm.pending = ListedAt(vm.pc)
           /\ settled # {} => executed_any
           /\ counter \in Nat /\ counter <= Len(answers) /\ Len(answers) \in Nat
<1>1. prog \in Seq(Instrs) /\ vm \in VMs /\ counter \in Nat /\ Len(answers) \in Nat
  BY CodeOnFile DEF TypeOK
<1>2. defer /\ DeferredPass /\ counter <= Len(answers)
  BY DEF PassInv, EagerPass
<1>3. vm.pc \in DOMAIN prog
  BY AtCode
<1>4. /\ DeferredAt(vm) /\ BatchAt(vm.pc) /\ vm.pending = ListedAt(vm.pc)
      /\ settled # {} => executed_any
  BY <1>2 DEF DeferredPass
<1>5. Batched
  BY <1>3, <1>4 DEF Batched, DeferredAt
<1>6. QED
  BY <1>1, <1>2, <1>3, <1>4, <1>5 DEF PassedQuestions

\* A call of the batch that is next to take an answer, or to ask
LEMMA NextInBatch ==
    ASSUME TypeOK, OutputInv, PassInv, phase = "pass", vm.at = "await",
           NEW done, done \subseteq vm.pending,
           PassedQuestions \cup (done \cap Questions) = FirstAnswers(counter),
           NEW s \in vm.pending, ToolAt(s) \in Gated,
           \A q \in vm.pending : ToolAt(q) \in Gated =>
                                     (q \in done <=> Earlier(q, s))
    PROVE  s \in Questions /\ Preceding(s) = FirstAnswers(counter)
<1>1. /\ prog \in Seq(Instrs) /\ Batched /\ vm.pc \in DOMAIN prog
      /\ BatchAt(vm.pc) /\ vm.pending = ListedAt(vm.pc)
      /\ PassedQuestions = EarlierBatches(vm.pc)
  BY InBatch
<1>2. /\ s \in ListedAt(vm.pc) /\ prog[s[1]].tool \in Gated
      /\ done \subseteq ListedAt(vm.pc)
      /\ \A q \in ListedAt(vm.pc) : prog[q[1]].tool \in Gated =>
            (q \in done <=> Earlier(q, s))
  BY <1>1 DEF ToolAt
<1>3. /\ s \in Questions
      /\ Preceding(s) = EarlierBatches(vm.pc) \cup (done \cap Questions)
  BY <1>1, <1>2, BatchPreceding
<1>4. QED
  BY <1>1, <1>3

\* That call is answered with its own answer.
LEMMA AnswersInBatch ==
    ASSUME TypeOK, OutputInv, PassInv, LedgerInv, phase = "pass",
           vm.at = "await", AnswersReachTheirCalls,
           NEW done, done \subseteq vm.pending,
           PassedQuestions \cup (done \cap Questions) = FirstAnswers(counter),
           NEW s \in vm.pending, ToolAt(s) \in Gated, Answered,
           \A q \in vm.pending : ToolAt(q) \in Gated =>
                                     (q \in done <=> Earlier(q, s)),
           deliveries' = deliveries \cup {<<s, NextAnswer>>},
           counter' = counter + 1
    PROVE  /\ AnswersReachTheirCalls'
           /\ PassedQuestions \cup ((done \cup {s}) \cap Questions) = FirstAnswers(counter')
           /\ counter' <= Len(answers)
<1>1. s \in Questions /\ Preceding(s) = FirstAnswers(counter)
  BY NextInBatch
<1>2. counter \in Nat /\ counter < Len(answers)
  BY InBatch DEF Answered
<1>3. /\ answers[counter + 1] = s /\ counter + 1 <= Len(answers)
      /\ FirstAnswers(counter + 1) = FirstAnswers(counter) \cup {s}
  BY <1>1, <1>2, NextAnswerFits
<1>4. AnswersReachTheirCalls'
  BY <1>3 DEF AnswersReachTheirCalls, NextAnswer
<1>5. QED
  BY <1>1, <1>3, <1>4

----------------------------------------------------------------------------
(***************************************************************************)
(* The sync driver's batch                                                 *)
(***************************************************************************)
\* A batch goes on as long as no answer is taken from under it.
LEMMA StillInBatch ==
    ASSUME TypeOK, OutputInv, PassInv, phase = "pass", vm.at = "await",
           UNCHANGED <<phase, prog, vm, answers>>, defer' <=> defer,
           counter' <= Len(answers), settled' # {} => executed_any',
           executed_any => executed_any'
    PROVE  PassInv' /\ PassedQuestions' = PassedQuestions
<1>1. /\ defer /\ Batched /\ DeferredAt(vm) /\ BatchAt(vm.pc)
      /\ vm.pending = ListedAt(vm.pc) /\ PassedQuestions = EarlierBatches(vm.pc)
  BY InBatch
<1>2. ~ executed_any => \A m \in DOMAIN prog : m < vm.pc => ~ BatchAt(m)
  BY <1>1 DEF PassInv, DeferredPass
<1>3. PassedQuestions' = PassedQuestions
  BY <1>1, SameCode DEF PassedQuestions
<1>4. DeferredPass'
  BY <1>1, <1>2, SameCode, SameAnswers DEF DeferredPass
<1>5. QED
  BY <1>1, <1>3, <1>4, SameCode DEF PassInv

\* A batch that is over leaves its questions behind the pass.
LEMMA BatchResumed ==
    ASSUME TypeOK, OutputInv, PassInv, phase = "pass", vm.at = "await",
           UNCHANGED <<phase, prog, answers, counter>>, defer' <=> defer,
           executed_any, executed_any',
           PassedQuestions \cup (vm.pending \cap Questions) = FirstAnswers(counter),
           vm' = ResolveFutures(vm, Own)
    PROVE  PassInv'
<1>1. /\ prog \in Seq(Instrs) /\ vm \in VMs /\ defer /\ Batched
      /\ DeferredAt(vm) /\ BatchAt(vm.pc) /\ vm.pc \in DOMAIN prog
      /\ vm.pending = ListedAt(vm.pc) /\ PassedQuestions = EarlierBatches(vm.pc)
      /\ counter <= Len(answers)
  BY InBatch
<1>2. /\ vm'.at \in {"run", "error"}
      /\ vm'.at # "error" =>
            /\ DeferredAt(vm')
            /\ EarlierBatches(vm'.pc) = FirstAnswers(counter)
  BY <1>1, DeferredResumed DEF Own
<1>3. QED
  BY <1>1, <1>2, DeferredGoesOn

\* The sync driver settles the next call of a batch,
LEMMA SyncBatchCall ==
    ASSUME TypeOK, FuturesInv, OutputInv, LedgerInv, PassInv,
           AnswersReachTheirCalls, SyncBatchInv, BatchCall
    PROVE  PassInv' /\ AnswersReachTheirCalls' /\ SyncBatchInv'
<1>1. PICK s \in vm.pending : BatchCall!2!(s)
  BY DEF BatchCall
<1>2. /\ phase = "pass" /\ vm.at = "await" /\ (defer' <=> defer)
      /\ UNCHANGED <<phase, prog, vm, answers>>
  BY <1>1 DEF BatchCall, Batch, InPass, Act
<1>3. /\ settled \subseteq vm.pending /\ s \in vm.pending \ settled /\ s \in deferred
      /\ \A t \in vm.pending \ settled : t = s \/ Earlier(s, t)
      /\ vm.pending \subseteq Sites
  BY <1>1, <1>2
  DEF NextPending, FuturesInv, DeferredMirrorsFutures, TypeOK, VMs
<1>4. /\ settled' = settled \cup {s} /\ executed_any'
      /\ results' = [t \in settled \cup {s} |->
                        IF t = s THEN CameTo(s) ELSE results[t]]
  BY <1>1, <1>3
<1>5. \A q \in vm.pending : q \in settled <=> Earlier(q, s)
  <2>1. \A q \in settled : Earlier(q, s)
    BY <1>2, <1>3 DEF SyncBatchInv
  <2>2. \A q \in vm.pending \ settled : ~ Earlier(q, s)
    BY <1>3 DEF Earlier, Sites
  <2>3. QED
    BY <1>3, <2>1, <2>2
<1>6. PassedQuestions \cup (settled \cap Questions) = FirstAnswers(counter)
  BY <1>2 DEF SyncBatchInv, BatchTurn
<1>7. /\ PassedQuestions \cup (settled' \cap Questions) = FirstAnswers(counter')
      /\ counter' <= Len(answers) /\ AnswersReachTheirCalls'
  <2>1. CASE ToolAt(s) \in Gated
    <3>1. /\ Answered /\ counter' = counter + 1
          /\ deliveries' = deliveries \cup {<<s, NextAnswer>>}
      BY <1>1, <1>3, <2>1 DEF MayAct, Act
    <3>2. QED
      BY <1>2, <1>3, <1>4, <1>5, <1>6, <2>1, <3>1, AnswersInBatch
  <2>2. CASE ToolAt(s) \notin Gated
    <3>1. UNCHANGED <<counter, deliveries>>
      BY <1>1, <1>3, <2>2 DEF Act
    <3>2. s \notin Questions
      BY <2>2, QuestionForm, CodeOnFile DEF ToolAt
    <3>3. counter <= Len(answers)
      BY <1>2, InBatch
    <3>4. QED
      BY <1>4, <1>6, <3>1, <3>2, <3>3 DEF AnswersReachTheirCalls
  <2>3. QED
    BY <2>1, <2>2
<1>8. PassInv' /\ PassedQuestions' = PassedQuestions
  BY <1>2, <1>4, <1>7, StillInBatch
<1>9. BatchTurn(settled)'
  BY <1>2, <1>7, <1>8, SameCode, SameAnswers DEF BatchTurn
<1>10. \A t : CameTo(t)' = CameTo(t)
  BY <1>2 DEF ToolAt, CameTo
<1>11. results' = [t \in settled' |-> CameTo(t)]
  <2>1. \A t \in settled : results[t] = CameTo(t)
    BY <1>2 DEF SyncBatchInv
  <2>2. QED
    BY <1>4, <2>1
<1>12. \A a \in settled', b \in vm.pending \ settled' : Earlier(a, b)
  BY <1>2, <1>3, <1>4 DEF SyncBatchInv
<1>13. QED
  BY <1>2, <1>7, <1>8, <1>9, <1>10, <1>11, <1>12 DEF SyncBatchInv

\* or asks for it,
LEMMA SyncBatchAsks ==
    ASSUME TypeOK, FuturesInv, OutputInv, LedgerInv, PassInv, SyncBatchInv,
           BatchInterrupt
    PROVE  /\ asked' \in Questions
           /\ FirstAnswers(Len(answers)) = Preceding(asked')
<1>1. PICK s \in vm.pending : BatchInterrupt!2!(s)
  BY DEF BatchInterrupt
<1>2. phase = "pass" /\ vm.at = "await" /\ asked' = s
  BY <1>1 DEF BatchInterrupt, Batch, InPass
<1>3. /\ settled \subseteq vm.pending /\ s \in vm.pending \ settled
      /\ \A t \in vm.pending \ settled : t = s \/ Earlier(s, t)
      /\ vm.pending \subseteq Sites /\ ToolAt(s) \in Gated /\ ~ Answered
  BY <1>1, <1>2
  DEF NextPending, FuturesInv, DeferredMirrorsFutures, TypeOK, VMs, MayAct
<1>4. \A q \in vm.pending : q \in settled <=> Earlier(q, s)
  <2>1. \A q \in settled : Earlier(q, s)
    BY <1>2, <1>3 DEF SyncBatchInv
  <2>2. \A q \in vm.pending \ settled : ~ Earlier(q, s)
    BY <1>3 DEF Earlier, Sites
  <2>3. QED
    BY <1>3, <2>1, <2>2
<1>5. PassedQuestions \cup (settled \cap Questions) = FirstAnswers(counter)
  BY <1>2 DEF SyncBatchInv, BatchTurn
<1>6. s \in Questions /\ Preceding(s) = FirstAnswers(counter)
  BY <1>2, <1>3, <1>4, <1>5, NextInBatch
<1>7. counter = Len(answers)
  BY <1>2, <1>3, InBatch DEF Answered
<1>8. QED
  BY <1>2, <1>6, <1>7

\* or resumes the sandbox.
LEMMA SyncBatchResumes ==
    ASSUME TypeOK, FuturesInv, OutputInv, PassInv, SyncBatchInv, ResumeBatch
    PROVE  PassInv'
<1>1. /\ phase = "pass" /\ vm.at = "await" /\ vm.pending \subseteq settled
      /\ vm' = ResolveFutures(vm, results) /\ (defer' <=> defer)
      /\ (executed_any' <=> executed_any)
      /\ UNCHANGED <<phase, prog, answers, counter>>
  BY DEF ResumeBatch, Batch, InPass
<1>2. settled = vm.pending
  BY <1>1 DEF FuturesInv, DeferredMirrorsFutures
<1>3. results = Own
  BY <1>1, <1>2 DEF SyncBatchInv, Own
<1>4. executed_any
  <2>1. BatchAt(vm.pc) /\ vm.pending = ListedAt(vm.pc)
           /\ (settled # {} => executed_any)
    BY <1>1, InBatch
  <2>2. vm.pending # {}
    BY <2>1, KeptIsOpen DEF BatchAt, ListedAt
  <2>3. QED
    BY <1>2, <2>1, <2>2
<1>5. PassedQuestions \cup (vm.pending \cap Questions) = FirstAnswers(counter)
  BY <1>1, <1>2 DEF SyncBatchInv, BatchTurn
<1>6. QED
  BY <1>1, <1>3, <1>4, <1>5, BatchResumed

----------------------------------------------------------------------------
(***************************************************************************)
(* Starts, freezes and ends of a pass                                      *)
(***************************************************************************)
\* A deferred pass that starts over has met no batch and taken no answer.
LEMMA RestartsAreEarly ==
    ASSUME TypeOK, FuturesInv, OutputInv, PassInv, StoreInv,
           RetryAfterError \/ RetryUnawaited
    PROVE  /\ phase = "pass" /\ RestartEagerly /\ defer /\ ~ Batched
           /\ counter = 0 /\ record = NoRecord
<1>1. /\ phase = "pass" /\ deferred # {} /\ ~ executed_any /\ RestartEagerly
      /\ vm.at \in {"error", "complete"}
  BY DEF RetryAfterError, RetryUnawaited, SymptomOfDeferral, InPass
<1>2. defer
  BY <1>1 DEF FuturesInv, DeferredMirrorsFutures
<1>3. ~ Batched
  <2>1. CASE vm.at = "error"
    BY <1>1, <1>2, <2>1 DEF PassInv, DeferredPass
  <2>2. CASE vm.at = "complete"
    <3>1. /\ prog \in Seq(Instrs) /\ vm.pc = Len(prog) + 1
          /\ \A m \in DOMAIN prog : m < vm.pc => ~ BatchAt(m)
      BY <1>1, <1>2, <2>2, CodeOnFile DEF OutputInv, PassInv, DeferredPass
    <3>2. vm.pc > Len(prog) /\ vm.pc \in Nat
      BY <3>1
    <3>3. QED
      BY <3>1, <3>2, ComesToABatch
  <2>3. QED
    BY <1>1, <2>1, <2>2
<1>4. counter = 0 /\ record = NoRecord
  BY <1>1, <1>2, <1>3 DEF PassInv, StoreInv
<1>5. QED
  BY <1>1, <1>2, <1>3, <1>4

\* With all its questions behind it, an eager pass has had all the answers.
LEMMA AllAnswered ==
    ASSUME TypeOK, phase = "pass", PassInv,
           Questions \subseteq FirstAnswers(counter)
    PROVE  AllAsked
<1>1. counter \in Nat /\ Len(answers) \in Nat /\ counter <= Len(answers)
  BY DEF TypeOK, PassInv
<1>2. FirstAnswers(counter) \subseteq FirstAnswers(Len(answers))
  BY <1>1 DEF FirstAnswers
<1>3. QED
  BY <1>2 DEF AllAsked

\* An eager pass that ends without asking has no question left to ask.
LEMMA EagerEndIsOver ==
    ASSUME TypeOK, OutputInv, hostTools = HostTools, PassInv, phase = "pass",
           ~ defer,
           \/ OverBudget
           \/ ReportError /\ "limit" \notin FaultKinds
           \/ FinishPass
    PROVE  AllAsked
<1>1. prog \in Seq(Instrs) /\ vm \in VMs
  BY CodeOnFile DEF TypeOK
<1>2. ~ Batched /\ EagerPass
  BY DEF PassInv, EagerPass
<1>3. ASSUME vm.at \notin {"await", "error"},
             \A q \in Questions : Earlier(q, Site(vm))
      PROVE  AllAsked
  BY <1>2, <1>3, AllAnswered DEF PassInv, PassedQuestions, EarlierQuestions
<1>4. CASE OverBudget
  <2>1. /\ vm.at = "call" /\ EagerAt(vm, host_calls) /\ host_calls + 1 > Budget
        /\ host_calls \in Nat /\ Budget \in Nat
    BY <1>2, <1>4, ToolsAssumption DEF OverBudget, HostCall, EagerPass, TypeOK
  <2>2. ASSUME NEW q \in Questions PROVE Earlier(q, Site(vm))
    <3>1. Count(q) < Budget /\ Count(q) \in Nat
      BY <1>1, <1>2, CallsAreFinite DEF Questions, EagerQuestion
    <3>2. Count(Site(vm)) = host_calls
      BY <2>1 DEF EagerAt
    <3>3. q \in Sites /\ Site(vm) \in Sites
      BY <1>1, QuestionForm DEF Site, Sites, VMs
    <3>4. Earlier(q, Site(vm)) \/ Count(Site(vm)) <= Count(q)
      BY <1>1, <3>3, CountGrows
    <3>5. QED
      BY <2>1, <3>1, <3>2, <3>4
  <2>3. QED
    BY <1>3, <2>1, <2>2
<1>5. CASE ReportError /\ "limit" \notin FaultKinds
  BY <1>2, <1>5, AllAnswered DEF ReportError, EagerPass
<1>6. CASE FinishPass
  <2>1. vm.at = "complete" /\ vm.pc = Len(prog) + 1
    BY <1>6 DEF FinishPass, OutputInv
  <2>2. Site(vm) \notin Questions /\ vm.pc \notin DOMAIN prog
    BY <1>1, <2>1, QuestionForm DEF Site
  <2>3. QED
    BY <1>1, <1>2, <1>3, <2>1, <2>2, EagerEnds
<1>7. QED
  BY <1>4, <1>5, <1>6

\* What an eager pass freezes is at the question that it asks.
LEMMA EagerAsks ==
    ASSUME TurnsKept, TypeOK, OutputInv, hostTools = HostTools, PassInv,
           StoreInv, EagerInterrupt
    PROVE  /\ asked' \in Questions /\ asked' = Site(vm)
           /\ FirstAnswers(Len(answers)) = Preceding(asked')
           /\ ~ Batched
           /\ HasStore => /\ OnFile(store') /\ store' # NoRecord
                          /\ store'.interrupts_answered = Len(answers)
           /\ ~ HasStore => store' = NoRecord
<1>1. /\ phase = "pass" /\ ~ defer /\ Tool \in Gated /\ ~ Answered /\ HostCall
      /\ host_calls' <= Budget /\ asked' = Site(vm) /\ vm.at = "call"
      /\ host_calls' = host_calls + 1 /\ host_calls \in Nat /\ vm \in VMs
  BY DEF EagerInterrupt, HostCall, InPass, MayAct, TypeOK
<1>2. /\ Site(vm) \in Questions /\ Preceding(Site(vm)) = FirstAnswers(counter)
      /\ Site(vm) \notin EarlierQuestions(Site(vm))
  BY <1>1, AtQuestion
<1>3. /\ counter <= Len(answers) /\ ~ Batched /\ EagerAt(vm, host_calls)
      /\ EarlierQuestions(Site(vm)) = FirstAnswers(counter)
  BY <1>1 DEF PassInv, PassedQuestions, EagerPass
<1>4. counter = Len(answers)
  BY <1>1, <1>3 DEF Answered, TypeOK
<1>5. ASSUME HasStore
      PROVE  /\ OnFile(store') /\ store' # NoRecord
             /\ store'.interrupts_answered = Len(answers)
  <2>1. store' = PausedRecord
    BY <1>5 DEF EagerInterrupt, persist_hitl_record, Fault, TurnsKept
  <2>2. interrupts_answered = Len(answers)
    <3>1. Counted
      BY <1>1, <1>3, <1>5 DEF StoreInv
    <3>2. ~ AllAsked
      BY <1>2, <1>3, <1>4 DEF AllAsked
    <3>3. QED
      BY <1>4, <3>1, <3>2 DEF Counted
  <2>3. /\ store'.vm = vm /\ store'.host_calls = host_calls
        /\ store'.interrupts_answered = Len(answers)
    BY <1>1, <2>1, <2>2 DEF PausedRecord
  <2>4. PausedRecord \in Records
    BY <1>1 DEF PausedRecord, Records, TypeOK
  <2>5. store' # NoRecord
    BY <2>1, <2>4, StoreAssumption
  <2>6. OnFile(store')
    BY <1>2, <1>3, <1>4, <2>3 DEF OnFile
  <2>7. QED
    BY <2>3, <2>5, <2>6
<1>6. ~ HasStore => store' = NoRecord
  BY DEF EagerInterrupt, persist_hitl_record, StoreInv
<1>7. QED
  BY <1>1, <1>2, <1>3, <1>4, <1>5, <1>6

\* The record is asked for no more answers than there are.
LEMMA NoBurnQuestion ==
    ASSUME TypeOK, LedgerInv, StoreInv PROVE ~ BurnRaises
<1> SUFFICES ASSUME BurnRaises PROVE FALSE
  OBVIOUS
<1>1. /\ phase = "begin" /\ record # NoRecord /\ store = record /\ counter = 0
      /\ record.interrupts_answered \in Nat /\ Len(answers) \in Nat
  BY DEF BurnRaises, LedgerInv, StoreInv, TypeOK, Records
<1>2. OnFile(record)
  BY <1>1 DEF StoreInv
<1>3. QED
  BY <1>1, <1>2 DEF BurnRaises, OnFile

\* A pass resumed from the record is where the record's question is asked.
LEMMA LoadedWhereItAsked ==
    ASSUME TypeOK, FuturesInv, LedgerInv, StoreInv, LoadSnapshot
    PROVE  PassInv' /\ Counted'
<1>1. /\ phase = "begin" /\ phase' = "pass" /\ record # NoRecord
      /\ store = record /\ counter = 0 /\ record.interrupts_answered \in Nat
      /\ record.vm.at = "call" /\ ~ defer /\ ~ Batched /\ Len(answers) \in Nat
  BY DEF LoadSnapshot, LedgerInv, StoreInv, TypeOK, Records, FuturesInv, Frozen
<1>2. /\ vm' = record.vm /\ counter' = record.interrupts_answered
      /\ interrupts_answered' = record.interrupts_answered /\ pending_answer'
      /\ host_calls' = record.host_calls /\ ~ defer'
      /\ UNCHANGED <<prog, answers, record>>
  BY <1>1 DEF LoadSnapshot, BurnAnsweredInterrupts
<1>3. /\ EagerAt(record.vm, record.host_calls) /\ Site(record.vm) \in Questions
      /\ FirstAnswers(counter') = Preceding(Site(record.vm))
      /\ counter' <= Len(answers) /\ counter' + 1 >= Len(answers)
  <2>1. OnFile(record)
    BY <1>1 DEF StoreInv
  <2>2. QED
    BY <1>1, <1>2, <2>1 DEF OnFile
<1>4. EarlierQuestions(Site(vm')) = FirstAnswers(counter')
  BY <1>1, <1>2, <1>3, EagerPreceding
<1>5. PassInv'
  BY <1>1, <1>2, <1>3, <1>4, EagerGoesOn
<1>6. prog'[vm'.pc].tool \in Gated
  BY <1>2, <1>3, QuestionForm, CodeOnFile DEF Site
<1>7. Counted'
  BY <1>1, <1>2, <1>3, <1>6 DEF Counted, Tool, Code
<1>8. QED
  BY <1>5, <1>7

\* A pass that begins at the start of the code
LEMMA FreshFromTheTop ==
    ASSUME TypeOK, LedgerInv, StoreInv, FeedStart PROVE PassInv'
<1>1. /\ prog \in Seq(Instrs) /\ phase = "begin" /\ phase' = "pass"
      /\ counter = 0 /\ Len(answers) \in Nat /\ (Batched => defer)
  BY CodeOnFile DEF FeedStart, LedgerInv, StoreInv, TypeOK
<1>2. /\ vm' = FreshVM /\ host_calls' = 0 /\ counter' = 0 /\ (defer' <=> defer)
      /\ UNCHANGED <<prog, answers>> /\ ~ executed_any'
      /\ vm'.pc = 1 /\ vm'.iter = 0 /\ vm'.held = {} /\ vm'.futures = {}
      /\ vm'.at = "run" /\ Site(vm') = <<1, 0>>
  BY <1>1 DEF FeedStart, FreshPass, FreshVM, Site
<1>3. \A i \in DOMAIN prog : i \in Nat /\ ~ i < 1 /\ 0 < Turns(i)
  BY <1>1, TurnsCount
<1>4. CASE defer
  <2>1. DeferredAt(vm')
    BY <1>1, <1>2, <1>3, NothingBehind DEF DeferredAt
  <2>2. EarlierBatches(1) = {}
    BY <1>3 DEF EarlierBatches
  <2>3. /\ vm'.at \notin {"error", "await"} /\ counter' <= Len(answers)
        /\ defer' /\ counter' = 0 /\ EarlierBatches(vm'.pc) = {}
        /\ answers' = answers /\ prog' = prog
        /\ FirstAnswers(counter') = {}
    BY <1>1, <1>2, <1>4, <2>2, NoAnswers
  <2>4. \A m \in DOMAIN prog : m < vm'.pc => ~ BatchAt(m)
    BY <1>2, <1>3
  <2>5. QED
    BY <1>1, <2>1, <2>3, <2>4, DeferredGoesOn
<1>5. CASE ~ defer
  <2>1. EagerAt(vm', 0)
    BY <1>1, <1>2, <1>3, NothingBehind, CountFromNothing DEF EagerAt
  <2>2. EarlierQuestions(<<1, 0>>) = {}
    <3>1. \A q \in Questions : q[1] \in Nat \ {0} /\ q[2] \in Nat
      BY <1>1, QuestionForm, TurnsCount DEF Sites
    <3>2. QED
      BY <3>1 DEF EarlierQuestions, Earlier
  <2>3. /\ vm'.at \notin {"error", "await"} /\ counter' <= Len(answers)
        /\ ~ defer' /\ ~ Batched /\ EagerAt(vm', host_calls')
        /\ answers' = answers /\ prog' = prog
        /\ FirstAnswers(counter') = {} /\ EarlierQuestions(Site(vm')) = {}
    BY <1>1, <1>2, <1>5, <2>1, <2>2, NoAnswers
  <2>4. QED
    BY <1>1, <2>3, EagerGoesOn
<1>6. QED
  BY <1>4, <1>5

----------------------------------------------------------------------------
(***************************************************************************)
(* The record on file                                                      *)
(***************************************************************************)
\* What the store has to be after a step that leaves code and answers alone
LEMMA StoreKept ==
    ASSUME UNCHANGED <<prog, answers>>,
           ~ HasStore \/ Batched => store' = NoRecord /\ record' = NoRecord,
           phase' \in {"pool", "begin", "pass", "delete"} => store' = record',
           phase' \in {"begin", "pass"} /\ defer' => record' = NoRecord,
           phase' \in {"begin", "pass"} /\ Batched => defer',
           HasStore /\ ~ Batched =>
              /\ phase' \notin {"returned", "committed"}
                    \/ "late_crash" \in FaultKinds
                    => /\ OnFile(store')
                       /\ store' = NoRecord => answers = <<>> \/ AllAsked
              /\ phase' = "delete" /\ "late_crash" \in FaultKinds => AllAsked
              /\ phase' = "pass" /\ ~ defer' => Counted'
              /\ phase' \in {"raised", "paused"} =>
                    /\ store' # NoRecord
                    /\ store'.interrupts_answered = Len(answers)
    PROVE  StoreInv'
<1>1. /\ Batched' <=> Batched
      /\ AllAsked' <=> AllAsked
      /\ OnFile(store)' <=> OnFile(store')
  <2>1. \A r : OnFile(r)' <=> OnFile(r)
    BY SameAnswers
  <2>2. OnFile(store)' <=> OnFile(store')
    BY <2>1 DEF OnFile
  <2>3. QED
    BY <2>2, SameCode, SameAnswers
<1>2. QED
  BY <1>1 DEF StoreInv

\* Within a pass only the count of answers changes.
LEMMA StoreInPass ==
    ASSUME StoreInv, phase = "pass", phase' = "pass",
           UNCHANGED <<prog, answers, store, record>>, defer' <=> defer,
           HasStore /\ ~ Batched /\ ~ defer => Counted'
    PROVE  StoreInv'
BY StoreKept DEF StoreInv

\* Steps inside a pass keep the count of answers.
LEMMA InnerCounts ==
    ASSUME TypeOK, hostTools = HostTools, StoreInv, InnerStep
    PROVE  StoreInv'
<1>1. /\ phase = "pass" /\ phase' = "pass" /\ (defer' <=> defer)
      /\ UNCHANGED <<prog, answers, store, record, counter,
                     interrupts_answered>>
      /\ pending_answer' => pending_answer /\ vm.at # "call"
  BY InnerSteps
<1>2. ASSUME Counted PROVE Counted'
  <2>1. CASE record = NoRecord /\ AllAsked
    BY <1>1, <2>1, SameAnswers DEF Counted
  <2>2. CASE ~ (record = NoRecord /\ AllAsked)
    <3>1. /\ counter = interrupts_answered
          /\ ~ pending_answer => counter = Len(answers)
          /\ pending_answer => vm.at = "call" /\ Tool \in Gated
      BY <1>2, <2>2 DEF Counted
    <3>2. ~ pending_answer'
      BY <1>1, <3>1
    <3>3. ~ pending_answer
      <4>1. ASSUME vm.at = "call", Tool \in Gated PROVE FALSE
        BY <4>1, ToolsAssumption
        DEF InnerStep, Sandbox, LimitExceeded, LookUpName, ServiceOs,
            RejectCall, VmStep, VmPrint, VmRaise, VmSuspend, VmAwait,
            VmComplete, Running
      <4>2. QED
        BY <3>1, <4>1
    <3>4. QED
      BY <1>1, <3>1, <3>2, <3>3 DEF Counted
  <2>3. QED
    BY <2>1, <2>2
<1>3. HasStore /\ ~ Batched /\ ~ defer => Counted
  BY <1>1 DEF StoreInv
<1>4. QED
  BY <1>1, <1>2, <1>3, StoreInPass

\* So do the calls of an eager pass.
LEMMA EagerCounts ==
    ASSUME TypeOK, StoreInv, EagerCall
    PROVE  StoreInv'
<1>1. /\ phase = "pass" /\ phase' = "pass" /\ ~ defer /\ (defer' <=> defer)
      /\ UNCHANGED <<prog, answers, store, record>>
      /\ Tool \in Gated => counter < Len(answers) /\ counter' = counter + 1
      /\ Tool \notin Gated => counter' = counter
      /\ ~ pending_answer'
      /\ interrupts_answered' = IF pending_answer THEN interrupts_answered + 1
                                                  ELSE interrupts_answered
      /\ counter \in Nat /\ Len(answers) \in Nat
  BY DEF EagerCall, HostCall, InPass, MayAct, Answered, Act, AnswerConsumed,
         TypeOK
<1>2. ASSUME Counted PROVE Counted'
  <2>1. CASE record = NoRecord /\ AllAsked
    BY <1>1, <2>1, SameAnswers DEF Counted
  <2>2. CASE ~ (record = NoRecord /\ AllAsked)
    <3>1. /\ counter = interrupts_answered
          /\ ~ pending_answer => counter = Len(answers)
          /\ pending_answer => Tool \in Gated /\ counter + 1 >= Len(answers)
      BY <1>2, <2>2 DEF Counted
    <3>2. counter' = interrupts_answered' /\ counter' = Len(answers)
      BY <1>1, <3>1
    <3>3. QED
      BY <1>1, <3>2 DEF Counted
  <2>3. QED
    BY <2>1, <2>2
<1>3. HasStore /\ ~ Batched /\ ~ defer => Counted
  BY <1>1 DEF StoreInv
<1>4. QED
  BY <1>1, <1>2, <1>3, StoreInPass

\* The end of a pass, with a result
LEMMA StoreAtTheEnd ==
    ASSUME TurnsKept, TypeOK, OutputInv, hostTools = HostTools, PassInv,
           StoreInv, OverBudget \/ ReportError \/ FinishPass
    PROVE  StoreInv'
<1>1. /\ phase = "pass" /\ UNCHANGED <<prog, answers, store, record>>
      /\ phase' = AfterResult
  BY DEF OverBudget, HostCall, ReportError, FinishPass, Return, InPass
<1>2. ASSUME record # NoRecord, "late_crash" \in FaultKinds PROVE AllAsked
  <2>1. HasStore /\ ~ defer /\ "limit" \notin FaultKinds
    BY <1>1, <1>2 DEF StoreInv, TurnsKept
  <2>2. QED
    BY <1>1, <2>1, EagerEndIsOver
<1>3. phase' = IF record = NoRecord THEN "returned" ELSE "delete"
  BY <1>1 DEF AfterResult
<1>4. QED
  BY <1>1, <1>2, <1>3, StoreKept DEF StoreInv

\* One more answer leaves the others where they are.
LEMMA FirstStay ==
    ASSUME TypeOK, HumanAnswers
    PROVE  \A k : k \in Nat /\ k <= Len(answers)
                     => FirstAnswers(k)' = FirstAnswers(k)
<1>1. /\ answers' = Append(answers, asked)
      /\ answers \in Seq(Sites) /\ asked \in Sites
  BY DEF HumanAnswers, TypeOK
<1>2. ASSUME NEW k, k \in Nat /\ k <= Len(answers)
      PROVE  FirstAnswers(k)' = FirstAnswers(k)
  <2>1. \A j \in 1..k : answers'[j] = answers[j]
    BY <1>1, <1>2
  <2>2. FirstAnswers(k)' = {answers'[j] : j \in 1..k}
    BY DEF FirstAnswers
  <2>3. QED
    BY <2>1, <2>2 DEF FirstAnswers
<1>3. QED
  BY <1>2

\* The human's answer is to the question that the record on file asks.
LEMMA StoreAnswered ==
    ASSUME TypeOK, StoreInv, HumanAnswers PROVE StoreInv'
<1>1. /\ phase = "paused" /\ phase' = "start"
      /\ answers' = Append(answers, asked)
      /\ UNCHANGED <<prog, store, record>>
      /\ answers \in Seq(Sites) /\ asked \in Sites /\ Len(answers) \in Nat
      /\ Len(answers') = Len(answers) + 1
  BY DEF HumanAnswers, Environment, TypeOK
<1>2. Batched' <=> Batched
  BY <1>1, SameCode
<1>3. ASSUME HasStore, ~ Batched
      PROVE  OnFile(store)' /\ store' # NoRecord
  <2>1. /\ store # NoRecord /\ store.interrupts_answered = Len(answers)
        /\ EagerAt(store.vm, store.host_calls)
        /\ Site(store.vm) \in Questions
        /\ FirstAnswers(store.interrupts_answered) = Preceding(Site(store.vm))
    BY <1>1, <1>3 DEF StoreInv, OnFile
  <2>2. FirstAnswers(store.interrupts_answered)'
           = FirstAnswers(store.interrupts_answered)
    <3>1. ASSUME NEW k, k = Len(answers), store'.interrupts_answered = k
          PROVE  FirstAnswers(store.interrupts_answered)' = FirstAnswers(k)
      <4>1. FirstAnswers(k)' = FirstAnswers(k)
        BY <1>1, <3>1, FirstStay
      <4>2. QED
        BY <3>1, <4>1 DEF FirstAnswers
    <3>2. QED
      BY <1>1, <2>1, <3>1
  <2>3. /\ Site(store.vm)' = Site(store.vm)
        /\ EagerAt(store.vm, store.host_calls)'
    <3>1. \A v, c : EagerAt(v, c)' <=> EagerAt(v, c)
      BY <1>1, SameCode DEF EagerAt
    <3>2. EagerAt(store.vm, store.host_calls)' <=>
             EagerAt(store'.vm, store'.host_calls)
      BY <3>1 DEF EagerAt
    <3>3. QED
      BY <1>1, <2>1, <3>2 DEF Site
  <2>4. Preceding(Site(store.vm))' = Preceding(Site(store.vm))
    BY <1>1, <2>3, SameCode
  <2>5. Questions' = Questions
    BY <1>1, SameCode
  <2>6. QED
    BY <1>1, <2>1, <2>2, <2>3, <2>4, <2>5 DEF OnFile
<1>4. QED
  BY <1>1, <1>2, <1>3 DEF StoreInv

\* Every step keeps what the record on file says.
LEMMA StoreStep ==
    ASSUME TurnsKept, TypeOK, FuturesInv, OutputInv, hostTools = HostTools,
           LedgerInv, PassInv, StoreInv, [Next]_vars
    PROVE  StoreInv'
<1>1. /\ Len(answers) \in Nat /\ counter \in Nat
      /\ "early" \notin FaultKinds
      /\ HasStore => FaultKinds \cap {"put", "get"} = {}
      /\ HasStore /\ "late_crash" \in FaultKinds =>
            FaultKinds \cap {"checkout", "load"} = {}
  BY DEF TypeOK, TurnsKept, ToolsKept
\* Steps outside the passes that leave the store alone
<1>2. CASE StartLeg \/ Pause \/ Commit \/ PoolFails \/ Crash
  BY <1>2, StoreKept
  DEF StoreInv, StartLeg, Pause, Commit, PoolFails, Crash, Environment, Fault
<1>3. CASE LoadRecord
  <2>1. record' = store /\ store' = store
    BY <1>1, <1>3 DEF LoadRecord, load_hitl_record, Fault, StoreInv
  <2>2. QED
    BY <1>3, <2>1, StoreKept DEF StoreInv, LoadRecord
<1>4. CASE OpenPool
  BY <1>4, StoreKept DEF StoreInv, OpenPool
<1>5. CASE FeedStart
  <2>1. /\ phase = "begin" /\ phase' = "pass" /\ record = NoRecord
        /\ UNCHANGED <<prog, answers, store, record>> /\ (defer' <=> defer)
        /\ store = NoRecord /\ counter' = 0 /\ interrupts_answered' = 0
        /\ ~ pending_answer'
    BY <1>5 DEF FeedStart, StoreInv, LedgerInv
  <2>2. ASSUME HasStore, ~ Batched PROVE Counted'
    <3>1. answers = <<>> \/ AllAsked
      BY <2>1, <2>2 DEF StoreInv
    <3>2. CASE answers = <<>>
      BY <2>1, <3>2 DEF Counted
    <3>3. CASE AllAsked
      BY <2>1, <3>3, SameAnswers DEF Counted
    <3>4. QED
      BY <3>1, <3>2, <3>3
  <2>3. QED
    BY <2>1, <2>2, StoreKept DEF StoreInv
<1>6. CASE LoadSnapshot
  <2>1. /\ phase = "begin" /\ phase' = "pass"
        /\ UNCHANGED <<prog, answers, store, record>> /\ (defer' <=> defer)
    BY <1>6 DEF LoadSnapshot
  <2>2. Counted'
    BY <1>6, LoadedWhereItAsked
  <2>3. QED
    BY <2>1, <2>2, StoreKept DEF StoreInv
<1>7. CASE CheckoutFails \/ LoadFails
  <2>1. /\ phase = "begin" /\ UNCHANGED <<prog, answers, store, record>>
        /\ phase' = IF record = NoRecord THEN "returned" ELSE "delete"
    BY <1>7 DEF CheckoutFails, LoadFails, Return, AfterResult
  <2>2. record # NoRecord => "late_crash" \notin FaultKinds
    BY <1>1, <1>7 DEF CheckoutFails, LoadFails, Fault, StoreInv
  <2>3. QED
    BY <2>1, <2>2, StoreKept DEF StoreInv
<1>8. CASE InnerStep
  BY <1>8, InnerCounts
<1>9. CASE DeferCall
  <2>1. /\ phase = "pass" /\ phase' = "pass" /\ defer /\ (defer' <=> defer)
        /\ UNCHANGED <<prog, answers, store, record>>
    BY <1>9 DEF DeferCall, HostCall, InPass
  <2>2. QED
    BY <2>1, StoreInPass
<1>10. CASE EagerCall
  BY <1>10, EagerCounts
<1>11. CASE EagerInterrupt
  <2>1. /\ phase' = "raised" /\ phase = "pass"
        /\ UNCHANGED <<prog, answers, record>>
    BY <1>11 DEF EagerInterrupt, HostCall, InPass
  <2>2. QED
    BY <1>11, <2>1, EagerAsks, StoreKept DEF StoreInv
<1>12. CASE OverBudget \/ ReportError \/ FinishPass
  BY <1>12, StoreAtTheEnd
<1>13. CASE BatchCall \/ BatchInterrupt \/ ResumeBatch
  <2>1. /\ phase = "pass" /\ vm.at = "await" /\ phase' \in {"pass", "raised"}
        /\ UNCHANGED <<prog, answers, store, record>> /\ (defer' <=> defer)
    <3>1. CASE BatchCall
      <4>1. PICK s \in vm.pending : BatchCall!2!(s)
        BY <3>1 DEF BatchCall
      <4>2. answers' = answers
        BY <4>1 DEF Act
      <4>3. QED
        BY <3>1, <4>2 DEF BatchCall, Batch, InPass
    <3>2. CASE BatchInterrupt \/ ResumeBatch
      BY <3>2 DEF BatchInterrupt, ResumeBatch, Batch, InPass
    <3>3. QED
      BY <1>13, <3>1, <3>2
  <2>2. defer /\ Batched
    BY <2>1, InBatch
  <2>3. QED
    BY <2>1, <2>2, StoreKept DEF StoreInv
<1>14. CASE RetryAfterError \/ RetryUnawaited
  <2>1. /\ phase = "pass" /\ RestartEagerly /\ ~ Batched /\ record = NoRecord
    BY <1>14, RestartsAreEarly
  <2>2. QED
    BY <2>1, StoreKept DEF StoreInv, RestartEagerly
<1>15. CASE DeleteRecord
  <2>1. /\ phase = "delete" /\ phase' = "returned"
        /\ UNCHANGED <<prog, answers, record>> /\ store' \in {store, NoRecord}
    BY <1>15 DEF DeleteRecord, delete_hitl_record
  <2>2. QED
    BY <2>1, StoreKept DEF StoreInv, OnFile
<1>16. CASE HumanAnswers
  BY <1>16, StoreAnswered
<1>17. CASE BurnRaises
  BY <1>17, NoBurnQuestion
<1>18. CASE EagerCallFailsEarly
  BY <1>1, <1>18 DEF EagerCallFailsEarly, Fault
<1>19. CASE UNCHANGED vars
  <2>1. /\ UNCHANGED <<phase, prog, answers, store, record>> /\ (defer' <=> defer)
        /\ UNCHANGED <<counter, interrupts_answered, vm>>
        /\ (pending_answer' <=> pending_answer)
    BY <1>19
  <2>2. Counted' <=> Counted
    BY <2>1, SameAnswers DEF Counted, Tool, Code
  <2>3. QED
    BY <2>1, <2>2, StoreKept DEF StoreInv
<1>20. QED
  BY <1>2, <1>3, <1>4, <1>5, <1>6, <1>7, <1>8, <1>9, <1>10, <1>11, <1>12,
     <1>13, <1>14, <1>15, <1>16, <1>17, <1>18, <1>19
  DEF Next, Leg, Enter, EntryFails, InnerStep, Dispatch, EndPass, Finished

----------------------------------------------------------------------------
(***************************************************************************)
(* Questions, passes and the record together                               *)
(***************************************************************************)
\* No question is the placeholder.
LEMMA QuestionsAreReal ==
    ASSUME prog \in Seq(Instrs), NEW q \in Questions PROVE q # Placeholder
<1>1. q = <<q[1], q[2]>> /\ q[1] \in Nat \ {0}
  BY QuestionForm, TurnsCount
<1>2. QED
  BY <1>1 DEF Placeholder

\* The answer has the turn of the question that was asked.
LEMMA LedgerAnswered ==
    ASSUME TypeOK, LedgerInv, HumanAnswers PROVE LedgerInv'
<1>1. /\ phase = "paused" /\ phase' = "start" /\ prog' = prog
      /\ answers' = Append(answers, asked)
      /\ answers \in Seq(Sites) /\ asked \in Sites /\ Len(answers) \in Nat
      /\ Len(answers') = Len(answers) + 1 /\ DOMAIN answers' = 1..Len(answers')
  BY DEF HumanAnswers, Environment, TypeOK
<1>2. ASSUME NEW k \in 1..Len(answers')
      PROVE  /\ answers'[k] \in Questions
             /\ FirstAnswers(k - 1)' = Preceding(answers'[k])
  <2>1. k - 1 \in Nat /\ k - 1 <= Len(answers)
    BY <1>1
  <2>2. FirstAnswers(k - 1)' = FirstAnswers(k - 1)
    <3>1. ASSUME NEW j, j = k - 1 PROVE FirstAnswers(j)' = FirstAnswers(j)
      BY <2>1, <3>1, FirstStay
    <3>2. QED
      BY <3>1 DEF FirstAnswers
  <2>3. CASE k = Len(answers')
    <3>1. answers'[k] = asked /\ k - 1 = Len(answers)
      BY <1>1, <2>3
    <3>2. QED
      BY <1>1, <2>2, <3>1 DEF LedgerInv
  <2>4. CASE k # Len(answers')
    <3>1. k \in DOMAIN answers /\ answers'[k] = answers[k]
      BY <1>1, <2>4
    <3>2. QED
      BY <2>2, <3>1 DEF LedgerInv
  <2>5. QED
    BY <2>3, <2>4
<1>3. \A k \in 1..Len(answers') :
         (answers[k] \in Questions /\ FirstAnswers(k - 1) = Preceding(answers[k]))'
  <2>1. ASSUME NEW k \in 1..Len(answers')
        PROVE  (answers[k] \in Questions)'
               /\ (FirstAnswers(k - 1) = Preceding(answers[k]))'
    <3>1. Questions' = Questions /\ \A s : Preceding(s)' = Preceding(s)
      BY <1>1, SameCode
    <3>2. Preceding(answers[k])' = Preceding(answers'[k])
      BY <3>1 DEF Preceding
    <3>3. QED
      BY <1>2, <3>1, <3>2
  <2>2. QED
    BY <2>1
<1>4. QED
  BY <1>1, <1>3 DEF LedgerInv

\* A stuttering step leaves the pass where it is.
LEMMA PassStays ==
    ASSUME PassInv, UNCHANGED vars PROVE PassInv'
<1>1. CASE phase # "pass"
  BY <1>1 DEF PassInv
<1>2. CASE phase = "pass"
  <2>1. /\ (defer' <=> defer) /\ (executed_any' <=> executed_any)
        /\ UNCHANGED <<phase, prog, answers, counter, vm, settled, host_calls>>
    BY Zenon
  <2>2. /\ counter <= Len(answers) /\ (~ Batched /\ defer => counter = 0)
        /\ vm.at \notin {"await", "error"} => PassedQuestions = FirstAnswers(counter)
        /\ defer => DeferredPass
        /\ ~ defer => EagerPass
    BY <1>2 DEF PassInv
  <2>3. CASE defer
    <3>1. DeferredPass /\ vm' = vm /\ settled' = settled
      BY <2>1, <2>2, <2>3
    <3>2. /\ vm'.at # "error" =>
                /\ DeferredAt(vm')
                /\ ~ executed_any' =>
                      \A m \in DOMAIN prog : m < vm'.pc => ~ BatchAt(m)
          /\ vm'.at = "error" /\ ~ executed_any' => ~ Batched
          /\ vm'.at = "await" =>
                /\ BatchAt(vm'.pc) /\ vm'.pending = ListedAt(vm'.pc)
                /\ settled' # {} => executed_any'
      BY <2>1, <3>1 DEF DeferredPass
    <3>3. Batched /\ vm'.at \notin {"await", "error"} =>
             EarlierBatches(vm'.pc) = FirstAnswers(counter')
      BY <2>1, <2>2 DEF PassedQuestions
    <3>4. QED
      BY <1>2, <2>1, <2>2, <2>3, <3>2, <3>3, DeferredGoesOn
  <2>4. CASE ~ defer
    <3>1. EagerPass /\ vm' = vm
      BY <2>1, <2>2, <2>4
    <3>2. /\ ~ Batched /\ vm'.at # "await"
          /\ vm'.at # "error" => EagerAt(vm', host_calls')
          /\ vm'.at = "error" /\ "limit" \notin FaultKinds =>
                Questions \subseteq FirstAnswers(counter')
      BY <2>1, <3>1 DEF EagerPass
    <3>3. vm'.at # "error" => EarlierQuestions(Site(vm')) = FirstAnswers(counter')
      BY <2>1, <2>2, <2>4, <3>2 DEF PassedQuestions
    <3>4. QED
      BY <1>2, <2>1, <2>2, <2>4, <3>2, <3>3, EagerGoesOn
  <2>5. QED
    BY <2>3, <2>4
<1>3. QED
  BY <1>1, <1>2

\* At the start nothing has been asked.
LEMMA TurnsInit == Init => TurnsInv
BY DEF Init, TurnsInv, AnswersReachTheirCalls, BurnNeverSurfaces, LedgerInv,
       PassInv, StoreInv, OnFile, NoQuestion, Placeholder

\* Every step keeps the turns.
LEMMA TurnsStep ==
    ASSUME TurnsKept, TypeOK, FuturesInv, OutputInv, TurnsInv, [Next]_vars,
           BatchCall \/ BatchInterrupt \/ ResumeBatch => SyncBatchInv
    PROVE  TurnsInv'
<1>1. /\ hostTools = HostTools /\ AnswersReachTheirCalls /\ BurnNeverSurfaces
      /\ LedgerInv /\ PassInv /\ StoreInv
      /\ FaultKinds \cap {"early", "unbind"} = {}
  BY DEF TurnsInv, TurnsKept, ToolsKept
<1>2. hostTools' = HostTools /\ prog' = prog
  BY <1>1
  DEF Next, Leg, Enter, EntryFails, Dispatch, EndPass, Finished, StartLeg,
      LoadRecord, OpenPool, PoolFails, CheckoutFails, FeedStart, LoadSnapshot,
      BurnRaises, LoadFails, Sandbox, LimitExceeded, LookUpName, ServiceOs,
      RejectCall, OverBudget, DeferCall, EagerCall, EagerCallFailsEarly,
      EagerInterrupt, BatchCall, BatchInterrupt, ResumeBatch, RestartEagerly,
      RetryAfterError, ReportError, RetryUnawaited, FinishPass, DeleteRecord,
      Commit, Pause, HumanAnswers, Crash, Environment, Fault
<1>3. StoreInv'
  BY <1>1, StoreStep
<1>4. SUFFICES AnswersReachTheirCalls' /\ BurnNeverSurfaces'
               /\ LedgerInv' /\ PassInv'
  BY <1>2, <1>3 DEF TurnsInv
\* Steps of the leg that are no part of a pass and ask nothing
<1>5. CASE /\ phase' \notin {"pass", "raised", "paused"}
           /\ UNCHANGED <<answers, deliveries>> /\ asked' \in {asked, NoQuestion}
           /\ phase' \in {"load", "pool", "begin"} => counter' = 0
  <2>1. LedgerInv'
    BY <1>1, <1>2, <1>5, LedgerKept
  <2>2. PassInv'
    BY <1>5 DEF PassInv
  <2>3. AnswersReachTheirCalls' /\ BurnNeverSurfaces'
    BY <1>1, <1>5
    DEF AnswersReachTheirCalls, BurnNeverSurfaces, NoQuestion, Placeholder
  <2>4. QED
    BY <2>1, <2>2, <2>3
\* Steps of a pass
<1>6. ASSUME phase' = "pass", UNCHANGED <<answers, asked>>, PassInv',
             AnswersReachTheirCalls' \/ UNCHANGED deliveries
      PROVE  AnswersReachTheirCalls' /\ BurnNeverSurfaces'
               /\ LedgerInv' /\ PassInv'
  <2>1. LedgerInv'
    BY <1>1, <1>2, <1>6, LedgerKept
  <2>2. QED
    BY <1>1, <1>6, <2>1 DEF AnswersReachTheirCalls, BurnNeverSurfaces
\* Steps that ask
<1>7. ASSUME phase' = "raised", UNCHANGED <<answers, deliveries>>,
             asked' \in Questions,
             FirstAnswers(Len(answers)) = Preceding(asked')
      PROVE  AnswersReachTheirCalls' /\ BurnNeverSurfaces'
               /\ LedgerInv' /\ PassInv'
  <2>1. LedgerInv'
    BY <1>1, <1>2, <1>7, LedgerKept
  <2>2. asked' # Placeholder
    BY <1>7, CodeOnFile, QuestionsAreReal
  <2>3. QED
    BY <1>1, <1>7, <2>1, <2>2
    DEF AnswersReachTheirCalls, BurnNeverSurfaces, PassInv
<1>8. CASE StartLeg \/ LoadRecord \/ OpenPool
  BY <1>1, <1>5, <1>8 DEF StartLeg, LoadRecord, OpenPool, LedgerInv
<1>9. CASE EntryFails \/ DeleteRecord \/ Commit \/ Crash
  BY <1>5, <1>9
  DEF EntryFails, PoolFails, CheckoutFails, LoadFails, Return, AfterResult,
      DeleteRecord, Commit, Crash, Environment
<1>10. CASE OverBudget \/ ReportError \/ FinishPass
  BY <1>5, <1>10
  DEF OverBudget, HostCall, ReportError, FinishPass, Return, AfterResult
<1>11. CASE RetryAfterError \/ RetryUnawaited
  <2>1. RestartEagerly /\ counter = 0
    BY <1>1, <1>11, RestartsAreEarly
  <2>2. QED
    BY <1>5, <2>1 DEF RestartEagerly
<1>12. CASE FeedStart
  BY <1>1, <1>6, <1>12, FreshFromTheTop DEF FeedStart
<1>13. CASE LoadSnapshot
  BY <1>1, <1>6, <1>13, LoadedWhereItAsked DEF LoadSnapshot
<1>14. ~ BurnRaises
  BY <1>1, NoBurnQuestion
<1>15. CASE InnerStep
  <2>1. PassInv'
    BY <1>1, <1>15, DeferredInner, EagerInner
  <2>2. QED
    BY <1>6, <1>15, <2>1, InnerSteps
<1>16. CASE DeferCall
  <2>1. /\ phase' = "pass" /\ UNCHANGED <<answers, asked, deliveries>>
    BY <1>16 DEF DeferCall, HostCall, InPass
  <2>2. PassInv'
    BY <1>1, <1>16, DeferredCall
  <2>3. QED
    BY <1>6, <2>1, <2>2
<1>17. CASE EagerCall
  <2>1. phase' = "pass" /\ UNCHANGED <<answers, asked>>
    BY <1>17 DEF EagerCall, HostCall, InPass, Act
  <2>2. QED
    BY <1>1, <1>6, <1>17, <2>1, EagerActs
<1>18. CASE EagerInterrupt
  <2>1. phase' = "raised" /\ UNCHANGED <<answers, deliveries>>
    BY <1>18 DEF EagerInterrupt
  <2>2. QED
    BY <1>1, <1>7, <1>18, <2>1, EagerAsks
<1>19. ~ EagerCallFailsEarly
  BY <1>1 DEF EagerCallFailsEarly, Fault
<1>20. CASE BatchCall
  <2>1. phase' = "pass" /\ UNCHANGED <<answers, asked>>
    BY <1>20 DEF BatchCall, Batch, InPass, Act
  <2>2. QED
    BY <1>1, <1>6, <1>20, <2>1, SyncBatchCall
<1>21. CASE BatchInterrupt
  <2>1. phase' = "raised" /\ UNCHANGED <<answers, deliveries>>
    BY <1>21 DEF BatchInterrupt
  <2>2. QED
    BY <1>1, <1>7, <1>21, <2>1, SyncBatchAsks
<1>22. CASE ResumeBatch
  <2>1. phase' = "pass" /\ UNCHANGED <<answers, asked, deliveries>>
    BY <1>22 DEF ResumeBatch, Batch, InPass
  <2>2. QED
    BY <1>1, <1>6, <1>22, <2>1, SyncBatchResumes
<1>23. CASE Pause
  <2>1. /\ phase = "raised" /\ phase' = "paused"
        /\ UNCHANGED <<answers, asked, counter, deliveries>>
    BY <1>23 DEF Pause, Environment
  <2>2. LedgerInv'
    BY <1>1, <1>2, <2>1, LedgerKept
  <2>3. QED
    BY <1>1, <2>1, <2>2
    DEF AnswersReachTheirCalls, BurnNeverSurfaces, PassInv
<1>24. CASE HumanAnswers
  <2>1. phase' = "start" /\ asked' = NoQuestion /\ deliveries' = deliveries
    BY <1>24 DEF HumanAnswers, Environment
  <2>2. LedgerInv'
    BY <1>1, <1>24, LedgerAnswered
  <2>3. QED
    BY <1>1, <2>1, <2>2
    DEF AnswersReachTheirCalls, BurnNeverSurfaces, PassInv, NoQuestion,
        Placeholder
<1>25. CASE UNCHANGED vars
  <2>1. UNCHANGED <<phase, answers, asked, counter, deliveries>>
    BY <1>25
  <2>2. LedgerInv'
    BY <1>1, <1>2, <2>1, LedgerKept DEF LedgerInv
  <2>3. QED
    BY <1>1, <1>25, <2>1, <2>2, PassStays
    DEF AnswersReachTheirCalls, BurnNeverSurfaces
<1>26. QED
  BY <1>8, <1>9, <1>10, <1>11, <1>12, <1>13, <1>14, <1>15, <1>16, <1>17,
     <1>18, <1>19, <1>20, <1>21, <1>22, <1>23, <1>24, <1>25
  DEF Next, Leg, Enter, InnerStep, Dispatch, EndPass, Finished

----------------------------------------------------------------------------
(***************************************************************************)
(* The theorems for the sync driver                                        *)
(***************************************************************************)
\* While the sandbox waits for a batch, the pass goes on with that batch.
LEMMA BatchGoesOn ==
    ASSUME [Next]_vars, phase = "pass", vm.at = "await", phase' = "pass"
    PROVE  BatchCall \/ ResumeBatch \/ UNCHANGED vars
BY DEF Next, Leg, Enter, EntryFails, Dispatch, EndPass, Finished, StartLeg,
       LoadRecord, OpenPool, PoolFails, CheckoutFails, FeedStart, LoadSnapshot,
       BurnRaises, LoadFails, Sandbox, VmStep, VmPrint, VmRaise, VmSuspend,
       VmAwait, VmComplete, Running, LimitExceeded, LookUpName, ServiceOs,
       RejectCall, OverBudget, DeferCall, EagerCall, EagerCallFailsEarly,
       EagerInterrupt, HostCall, BatchInterrupt, RestartEagerly,
       RetryAfterError, ReportError, RetryUnawaited, FinishPass, DeleteRecord,
       Commit, Pause, HumanAnswers, Crash

\* A pass that goes on without a batch has settled nothing.
LEMMA NoBatchNothingSettled ==
    ASSUME FuturesInv, [Next]_vars, phase' = "pass",
           ~ (phase = "pass" /\ vm.at = "await")
    PROVE  /\ prog' = prog /\ settled' = {}
           /\ \/ results' = NoResults
              \/ phase = "pass" /\ settled = {} /\ results' = results
<1>1. phase = "pass" => settled = {}
  BY DEF FuturesInv, DeferredMirrorsFutures
<1>2. CASE Enter \/ EntryFails \/ HumanAnswers \/ Crash \/ Finished
  BY <1>2
  DEF Enter, StartLeg, LoadRecord, OpenPool, FeedStart, LoadSnapshot,
      FreshPass, BurnRaises, EntryFails, PoolFails, CheckoutFails, LoadFails,
      Return, AfterResult, HumanAnswers, Crash, Finished
<1>3. CASE \/ Sandbox \/ LimitExceeded \/ LookUpName \/ ServiceOs
           \/ RejectCall \/ DeferCall \/ EagerCall \/ EagerCallFailsEarly
  BY <1>1, <1>3
  DEF Sandbox, LimitExceeded, LookUpName, ServiceOs, RejectCall, DeferCall,
      EagerCall, EagerCallFailsEarly, HostCall, InPass
<1>4. CASE \/ OverBudget \/ EagerInterrupt \/ EndPass \/ DeleteRecord
           \/ Commit \/ Pause
  BY <1>4
  DEF OverBudget, EagerInterrupt, EndPass, RetryAfterError, RetryUnawaited,
      RestartEagerly, ReportError, FinishPass, DeleteRecord, Commit, Pause,
      Return, AfterResult
<1>5. ~ (BatchCall \/ BatchInterrupt \/ ResumeBatch)
  BY DEF BatchCall, BatchInterrupt, ResumeBatch, Batch, InPass
<1>6. CASE UNCHANGED vars
  BY <1>1, <1>6
<1>7. QED
  BY <1>2, <1>3, <1>4, <1>5, <1>6 DEF Next, Leg, Dispatch

\* A batch opens with the answers of the batches before it taken.
LEMMA BatchOpens ==
    ASSUME TypeOK, FuturesInv, PassInv, [Next]_vars, phase' = "pass",
           vm'.at = "await", ~ (phase = "pass" /\ vm.at = "await")
    PROVE  (PassedQuestions = FirstAnswers(counter))'
<1>1. vm \in VMs /\ Frozen(record)
  BY DEF TypeOK, FuturesInv
<1>2. Sandbox /\ VmAwait
  <2>1. ~ (FeedStart \/ LoadSnapshot)
    BY <1>1 DEF FeedStart, FreshVM, LoadSnapshot, Frozen
  <2>2. ~ (LookUpName \/ ServiceOs \/ RejectCall \/ LimitExceeded)
    BY <1>1, GoingOn
    DEF LookUpName, ServiceOs, RejectCall, LimitExceeded, VMs
  <2>3. ~ (DeferCall \/ EagerCall \/ EagerCallFailsEarly)
    BY <1>1, AnsweredLater, AnsweredAtOnce
    DEF DeferCall, EagerCall, EagerCallFailsEarly
  <2>4. ~ (Sandbox /\ (VmPrint \/ VmRaise \/ VmSuspend \/ VmComplete))
    BY <1>1, GoingOn DEF VmPrint, VmRaise, VmSuspend, VmComplete, Running, VMs
  <2>5. ~ (OverBudget \/ EagerInterrupt \/ EndPass \/ DeleteRecord
             \/ Commit \/ Pause)
    BY DEF OverBudget, EagerInterrupt, EndPass, RetryAfterError,
           RetryUnawaited, RestartEagerly, ReportError, FinishPass,
           DeleteRecord, Commit, Pause, Return, AfterResult
  <2>6. ~ (StartLeg \/ LoadRecord \/ OpenPool \/ BurnRaises \/ EntryFails
             \/ HumanAnswers \/ Crash \/ UNCHANGED vars)
    BY DEF StartLeg, LoadRecord, OpenPool, BurnRaises, EntryFails, PoolFails,
           CheckoutFails, LoadFails, Return, AfterResult, HumanAnswers, Crash
  <2>7. ~ (BatchCall \/ BatchInterrupt \/ ResumeBatch)
    BY DEF BatchCall, BatchInterrupt, ResumeBatch, Batch, InPass
  <2>8. QED
    BY <2>1, <2>2, <2>3, <2>4, <2>5, <2>6, <2>7
    DEF Next, Leg, Enter, Dispatch, Finished, Sandbox, VmStep
<1>3. /\ phase = "pass" /\ vm.at = "run" /\ vm'.pc = vm.pc
      /\ Site(vm') = Site(vm) /\ (defer' <=> defer)
      /\ UNCHANGED <<prog, answers, counter>>
  <2>1. /\ phase = "pass" /\ vm.at = "run" /\ (defer' <=> defer)
        /\ UNCHANGED <<prog, answers, counter>>
    BY <1>2 DEF Sandbox, InPass, VmAwait, Running
  <2>2. [vm EXCEPT !.held = {}] \in VMs
    BY <1>1 DEF VMs
  <2>3. vm' = [vm EXCEPT !.at = "await",
                         !.pending = IF Code(vm).use = "all"
                                     THEN vm.futures ELSE vm.held]
    BY <1>1, <1>2, <2>2, GoingOn DEF VmAwait
  <2>4. vm'.pc = vm.pc /\ vm'.iter = vm.iter
    BY <1>1, <2>3 DEF VMs
  <2>5. QED
    BY <2>1, <2>4 DEF Site
<1>4. PassedQuestions = FirstAnswers(counter)
  BY <1>3 DEF PassInv
<1>5. PassedQuestions' = PassedQuestions
  <2>1. Site(vm)' = Site(vm)
    BY <1>3 DEF Site
  <2>2. QED
    BY <1>3, <2>1, SameCode DEF PassedQuestions
<1>6. FirstAnswers(counter)' = FirstAnswers(counter)
  BY <1>3, SameAnswers DEF FirstAnswers
<1>7. QED
  BY <1>4, <1>5, <1>6

\* At the start no batch is open.
LEMMA SyncBatchInit == Init => SyncBatchInv
BY DEF Init, SyncBatchInv, BatchTurn

\* Every step keeps the order in which a batch is settled.
LEMMA SyncBatchStep ==
    ASSUME TypeOK, FuturesInv, OutputInv, TurnsInv, SyncBatchInv, [Next]_vars
    PROVE  SyncBatchInv'
<1>1. LedgerInv /\ PassInv /\ AnswersReachTheirCalls /\ vm \in VMs
  BY DEF TurnsInv, TypeOK
<1>2. CASE phase' # "pass"
  BY <1>2 DEF SyncBatchInv, BatchTurn
<1>3. CASE phase' = "pass" /\ ~ (phase = "pass" /\ vm.at = "await")
  <2>1. settled' = {} /\ results' = NoResults
    BY <1>3, NoBatchNothingSettled DEF SyncBatchInv
  <2>2. vm'.at = "await" => (PassedQuestions = FirstAnswers(counter))'
    BY <1>1, <1>3, BatchOpens
  <2>3. QED
    BY <2>1, <2>2 DEF SyncBatchInv, BatchTurn
<1>4. CASE phase' = "pass" /\ phase = "pass" /\ vm.at = "await"
  <2>1. CASE BatchCall
    BY <1>1, <2>1, SyncBatchCall
  <2>2. CASE ResumeBatch
    <3>1. results' = NoResults /\ vm'.at \in {"run", "error"}
      BY <1>1, <2>2, PayloadsTyped, BatchAnswered DEF ResumeBatch
    <3>2. QED
      BY <3>1 DEF SyncBatchInv, BatchTurn
  <2>3. CASE UNCHANGED vars
    <3>1. /\ UNCHANGED <<phase, prog, vm, answers, counter, results>>
          /\ (defer' <=> defer) /\ (executed_any' <=> executed_any)
      BY <2>3, Zenon
    <3>2. PassedQuestions' = PassedQuestions
      <4>1. counter' <= Len(answers) /\ (settled' # {} => executed_any')
        BY <1>1, <1>4, <3>1, InBatch
      <4>2. QED
        BY <1>1, <1>4, <3>1, <4>1, StillInBatch
    <3>3. FirstAnswers(counter)' = FirstAnswers(counter)
      BY <3>1 DEF FirstAnswers
    <3>4. Questions' = Questions
      BY <3>1, SameCode
    <3>5. QED
      BY <3>1, <3>2, <3>3, <3>4 DEF SyncBatchInv, BatchTurn, ToolAt, CameTo
  <2>4. QED
    BY <1>4, <2>1, <2>2, <2>3, BatchGoesOn
<1>5. QED
  BY <1>2, <1>3, <1>4

\* Every step keeps the turns, and with them the order within a batch.
LEMMA TurnsAlways == TurnsKept => (Spec => []TurnsInv)
<1> SUFFICES ASSUME TurnsKept PROVE Spec => []TurnsInv
  OBVIOUS
<1> DEFINE Inv == TypeOK /\ FuturesInv /\ OutputInv /\ TurnsInv /\ SyncBatchInv
<1>1. Init => Inv
  BY TypeInit, FuturesInit, OutputInit, TurnsInit, SyncBatchInit
<1>2. Inv /\ [Next]_vars => Inv'
  BY TypeStep, FuturesStep, OutputStep, TurnsStep, SyncBatchStep
<1>3. Inv => TurnsInv
  OBVIOUS
<1>4. QED
  BY <1>1, <1>2, <1>3, PTL DEF Spec

\* Every call style, any tools, any budget, with a store or without one, over
\* any pauses, crashes - late ones included - and faults that do not take a
\* record away alone: each answer reaches the call whose question it answers
\* (_driver.py 192-196, 260-276).
THEOREM AnswersMatched == TurnsKept => (Spec => []AnswersReachTheirCalls)
<1>1. TurnsInv => AnswersReachTheirCalls
  BY DEF TurnsInv
<1>2. QED
  BY <1>1, TurnsAlways, PTL

\* Under the same conditions the counter-sync question of
\* _burn_answered_interrupts is never put to the human.
THEOREM BurnIsSilent == TurnsKept => (Spec => []BurnNeverSurfaces)
<1>1. TurnsInv => BurnNeverSurfaces
  BY DEF TurnsInv
<1>2. QED
  BY <1>1, TurnsAlways, PTL

\* Under the same conditions, for plain calls and with a store, a call that
\* waits for the human is on file, frozen where it asked, with the answers given
\* so far counted (_driver.py 260-271).
THEOREM PausesAreRecorded ==
    PlainCode /\ HasStore /\ TurnsKept => (Spec => []PausedOnRecord)
<1> SUFFICES ASSUME PlainCode, HasStore, TurnsKept
             PROVE  Spec => []PausedOnRecord
  OBVIOUS
<1>1. TypeOK /\ TurnsInv => PausedOnRecord
  <2> SUFFICES ASSUME TypeOK, TurnsInv, phase = "paused" PROVE PausedOnRecord
    BY DEF PausedOnRecord
  <2>1. prog \in Seq(Instrs) /\ ~ Batched
    BY CodeOnFile DEF TypeOK, PlainCode, Batched, BatchAt
  <2>2. store # NoRecord /\ store.interrupts_answered = Len(answers)
    BY <2>1 DEF TurnsInv, StoreInv
  <2>3. /\ Site(store.vm) \in Questions
        /\ FirstAnswers(Len(answers)) = Preceding(Site(store.vm))
    BY <2>1, <2>2 DEF TurnsInv, StoreInv, OnFile
  <2>4. asked \in Questions /\ FirstAnswers(Len(answers)) = Preceding(asked)
    BY DEF TurnsInv, LedgerInv
  <2>5. Site(store.vm) = asked
    BY <2>1, <2>3, <2>4, OneTurn
  <2>6. QED
    BY <2>2, <2>5 DEF PausedOnRecord
<1>2. QED
  BY <1>1, TypeCorrect, TurnsAlways, PTL

----------------------------------------------------------------------------
(***************************************************************************)
(* The tasks of the async driver                                           *)
(***************************************************************************)
\* A step of a batch is no stuttering step.
LEMMA NoBatchStutters ==
    ASSUME TypeOK, UNCHANGED vars
    PROVE  ~ (BatchCall \/ BatchInterrupt \/ ResumeBatch)
<1>1. ~ BatchCall
  <2> SUFFICES ASSUME BatchCall PROVE FALSE
    OBVIOUS
  <2>1. PICK s \in vm.pending : s \notin settled /\ settled' = settled \cup {s}
    BY DEF BatchCall, NextPending
  <2>2. QED
    BY <2>1
<1>2. ~ BatchInterrupt
  BY DEF BatchInterrupt, Batch, InPass
<1>3. ~ ResumeBatch
  <2>1. vm \in VMs
    BY DEF TypeOK
  <2>2. QED
    BY <2>1, PayloadsTyped, BatchAnswered DEF ResumeBatch, Batch
<1>4. QED
  BY <1>1, <1>2, <1>3

\* A batch goes on, or is resumed.
LEMMA TurnsInBatch ==
    ASSUME TypeOK, OutputInv, TurnsInv, phase = "pass", vm.at = "await",
           UNCHANGED <<phase, prog, hostTools, answers, asked, store, record>>,
           defer' <=> defer, PassInv',
           AnswersReachTheirCalls' \/ UNCHANGED deliveries
    PROVE  TurnsInv'
<1>1. defer /\ LedgerInv /\ StoreInv
  BY InBatch DEF TurnsInv
<1>2. LedgerInv'
  BY <1>1, LedgerKept
<1>3. StoreInv'
  BY <1>1, StoreInPass
<1>4. QED
  BY <1>2, <1>3
  DEF TurnsInv, AnswersReachTheirCalls, BurnNeverSurfaces

\* A batch asks.
LEMMA TurnsAsked ==
    ASSUME TypeOK, OutputInv, TurnsInv, phase = "pass", vm.at = "await",
           phase' = "raised",
           UNCHANGED <<prog, hostTools, answers, deliveries, store, record>>,
           asked' \in Questions,
           FirstAnswers(Len(answers)) = Preceding(asked')
    PROVE  TurnsInv'
<1>1. /\ Batched /\ LedgerInv /\ StoreInv /\ AnswersReachTheirCalls
      /\ prog \in Seq(Instrs)
  BY InBatch DEF TurnsInv
<1>2. LedgerInv'
  BY <1>1, LedgerKept
<1>3. StoreInv'
  BY <1>1, StoreKept DEF StoreInv
<1>4. asked' # Placeholder
  BY <1>1, QuestionsAreReal
<1>5. QED
  BY <1>1, <1>2, <1>3, <1>4
  DEF TurnsInv, AnswersReachTheirCalls, BurnNeverSurfaces, PassInv

\* A gather that does not crowd has one call that asks, or none.
LEMMA OneGatedCall ==
    ASSUME prog \in Seq(Instrs), NEW m \in DOMAIN prog,
           ~ Cardinality({q \in ListedAt(m) : ToolAt(q) \in Gated}) > 1,
           NEW s \in ListedAt(m), NEW t \in ListedAt(m),
           ToolAt(s) \in Gated, ToolAt(t) \in Gated
    PROVE  s = t
<1> DEFINE G == {q \in ListedAt(m) : ToolAt(q) \in Gated}
<1>1. IsFiniteSet(G)
  <2>1. IsFiniteSet(DOMAIN prog)
    <3>1. DOMAIN prog = 1..Len(prog) /\ Len(prog) \in Int /\ 1 \in Int
      OBVIOUS
    <3>2. QED
      BY <3>1, FS_Interval
  <2>2. IsFiniteSet((DOMAIN prog) \X {0})
    BY <2>1, FS_Singleton, FS_Product
  <2>3. G \subseteq (DOMAIN prog) \X {0}
    BY KeptIsOpen DEF Behind
  <2>4. QED
    BY <2>2, <2>3, FS_Subset
<1>2. SUFFICES ASSUME s # t PROVE FALSE
  OBVIOUS
<1> DEFINE P == {s} \cup {t}
<1>3. P \subseteq G
  OBVIOUS
<1>4. Cardinality(P) = Cardinality({s}) + 1 /\ Cardinality({s}) = 1
  <2>1. IsFiniteSet({s}) /\ Cardinality({s}) = 1 /\ t \notin {s}
    BY <1>2, FS_Singleton
  <2>2. QED
    BY <2>1, FS_AddElement
<1> HIDE DEF P, G
<1>5. Cardinality(P) <= Cardinality(G) /\ Cardinality(G) \in Nat
  BY <1>1, <1>3, FS_Subset, FS_CardinalityType
<1>6. ~ Cardinality(G) > 1
  BY DEF G
<1>7. QED
  BY <1>4, <1>5, <1>6

----------------------------------------------------------------------------
\* What is known while the tasks of a batch run and no gather was crowded
LEMMA AsyncBatchFacts ==
    ASSUME AsyncInv, OutputInv, AccountsInv, AsyncTurnsInv, ~ crowded,
           AsyncBatchOpen
    PROVE  /\ TypeOK /\ FuturesInv /\ TurnsInv /\ PassInv /\ LedgerInv
           /\ AnswersReachTheirCalls
           /\ phase = "pass" /\ vm.at = "await" /\ vm \in VMs
           /\ prog \in Seq(Instrs) /\ defer /\ vm.pc \in DOMAIN prog
           /\ vm.pending = ListedAt(vm.pc) /\ counter <= Len(answers)
           /\ settled # {} => executed_any
           /\ PassedQuestions \cup ((settled \ waiting) \cap Questions)
                 = FirstAnswers(counter)
           /\ settled \subseteq vm.pending
           /\ \A s \in waiting : settled = vm.pending /\ s \in settled
           /\ \A s \in settled, t \in settled :
                 ToolAt(s) \in Gated /\ ToolAt(t) \in Gated => s = t
           /\ waiting \cap granted = {}
<1>1. /\ TypeOK /\ FuturesInv /\ TurnsInv /\ PassInv /\ LedgerInv
      /\ AnswersReachTheirCalls /\ phase = "pass" /\ vm.at = "await"
      /\ BatchTurn(settled \ waiting) /\ TasksInv
  BY DEF AsyncInv, AsyncTurnsInv, AsyncBatchOpen, TurnsInv
<1>2. \A s \in waiting : settled = vm.pending /\ s \in settled
  BY <1>1 DEF TasksInv, Unended, AsyncBatchOpen
<1>3. settled \subseteq vm.pending
  BY <1>1 DEF FuturesInv, DeferredMirrorsFutures
<1>4. QED
  BY <1>1, <1>2, <1>3, InBatch
  DEF BatchTurn, AsyncTurnsInv, AccountsInv

\* Steps that both drivers share
LEMMA AsyncTurnsShared ==
    ASSUME TurnsKept, AsyncInv, OutputInv, OutcomesInv, AsyncTurnsInv,
           ~ crowded, ~ crowded', Shared \/ UNCHANGED asyncVars
    PROVE  AsyncTurnsInv'
<1>1. /\ TypeOK /\ FuturesInv /\ TasksInv /\ TurnsInv /\ PassInv
      /\ BatchTurn(settled \ waiting) /\ [Next]_vars
      /\ phase = "pass" /\ driver = "sync" => SyncBatchInv
  BY SharedSteps DEF AsyncInv, AsyncTurnsInv, TurnsInv, asyncVars
<1>2. BatchCall \/ BatchInterrupt \/ ResumeBatch =>
         /\ phase = "pass" /\ vm.at = "await" /\ driver = "sync"
         /\ driver' = driver /\ waiting' = waiting
  <2> SUFFICES ASSUME BatchCall \/ BatchInterrupt \/ ResumeBatch
               PROVE  /\ phase = "pass" /\ vm.at = "await" /\ driver = "sync"
                      /\ driver' = driver /\ waiting' = waiting
    OBVIOUS
  <2>1. /\ phase = "pass" /\ vm.at = "await" /\ phase' \in {"pass", "raised"}
    BY DEF BatchCall, BatchInterrupt, ResumeBatch, Batch, InPass
  <2>2. ~ UNCHANGED vars
    BY <1>1, NoBatchStutters
  <2>3. ChooseDriver \/ InEitherDriver \/ FromOutside
    BY <2>1, <2>2 DEF Shared, CrashAll, Crash, StrayEnds, asyncVars
  <2>4. SyncBatch /\ driver' = driver
    BY <2>1, <2>3, OnlyTheBatch
  <2>5. QED
    BY <2>1, <2>3, <2>4
    DEF SyncBatch, ChooseDriver, StartLeg, InEitherDriver, FromOutside,
        taskVars
<1>3. TurnsInv'
  BY <1>1, <1>2, TurnsStep
<1>4. CASE phase' # "pass"
  BY <1>3, <1>4 DEF AsyncTurnsInv, BatchTurn, AsyncBatchOpen
<1>5. CASE phase' = "pass" /\ ~ (phase = "pass" /\ vm.at = "await")
  <2>1. /\ settled' = {}
        /\ \/ results' = NoResults
           \/ phase = "pass" /\ settled = {} /\ results' = results
    BY <1>1, <1>5, NoBatchNothingSettled
  <2>2. results' = NoResults
    BY <2>1 DEF OutcomesInv
  <2>3. vm'.at = "await" => (PassedQuestions = FirstAnswers(counter))'
    BY <1>1, <1>5, BatchOpens
  <2>4. BatchTurn(settled \ waiting)' /\ SyncBatchInv'
    BY <2>1, <2>2, <2>3 DEF BatchTurn, SyncBatchInv
  <2>5. QED
    BY <1>3, <2>1, <2>4 DEF AsyncTurnsInv
<1>6. CASE phase' = "pass" /\ phase = "pass" /\ vm.at = "await"
  <2>1. BatchCall \/ ResumeBatch \/ UNCHANGED vars
    BY <1>1, <1>6, BatchGoesOn
  <2>2. CASE driver = "sync"
    <3>1. SyncBatchInv'
      BY <1>1, <1>6, <2>2, SyncBatchStep
    <3>2. waiting = {}
      BY <1>1, <2>2 DEF TasksInv, Unended, AsyncBatchOpen
    <3>3. driver' = driver /\ waiting' = waiting
      <4>1. CASE BatchCall \/ ResumeBatch
        BY <1>2, <4>1
      <4>2. CASE UNCHANGED vars
        <5>1. ~ CrashAll
          BY <1>6 DEF CrashAll, Crash
        <5>2. ~ (ChooseDriver \/ InEitherDriver \/ FromOutside)
          BY <1>1, <1>6, <4>2, OnlyTheBatch, NoBatchStutters DEF SyncBatch
        <5>3. QED
          BY <5>1, <5>2 DEF Shared, StrayEnds, asyncVars, taskVars
      <4>3. QED
        BY <2>1, <4>1, <4>2
    <3>4. BatchTurn(settled \ waiting)'
      BY <3>1, <3>2, <3>3 DEF SyncBatchInv, BatchTurn
    <3>5. QED
      BY <1>3, <2>2, <3>1, <3>3, <3>4 DEF AsyncTurnsInv, AsyncBatchOpen
  <2>3. CASE driver # "sync"
    <3>1. UNCHANGED vars
      BY <1>2, <2>1, <2>3
    <3>2. driver' = driver /\ waiting' = waiting
      <4>1. ~ CrashAll
        BY <1>6 DEF CrashAll, Crash
      <4>2. ~ (ChooseDriver \/ InEitherDriver \/ FromOutside)
        BY <1>1, <1>6, <3>1, OnlyTheBatch, NoBatchStutters DEF SyncBatch
      <4>3. QED
        BY <4>1, <4>2 DEF Shared, StrayEnds, asyncVars, taskVars
    <3>3. /\ UNCHANGED <<phase, prog, vm, answers, counter, settled>>
          /\ (defer' <=> defer) /\ (executed_any' <=> executed_any)
      BY <3>1, Zenon
    <3>4. PassedQuestions' = PassedQuestions
      <4>1. counter' <= Len(answers) /\ (settled' # {} => executed_any')
        BY <1>1, <1>6, <3>3, InBatch
      <4>2. QED
        BY <1>1, <1>6, <3>3, <4>1, StillInBatch
    <3>5. FirstAnswers(counter)' = FirstAnswers(counter) /\ Questions' = Questions
      BY <3>3, SameCode DEF FirstAnswers
    <3>6. BatchTurn(settled \ waiting)'
      BY <1>1, <3>2, <3>3, <3>4, <3>5 DEF BatchTurn
    <3>7. (AsyncBatchOpen =>
              \A s, t \in settled : ToolAt(s) \in Gated /\ ToolAt(t) \in Gated
                                       => s = t)'
      BY <3>2, <3>3 DEF AsyncTurnsInv, AsyncBatchOpen, ToolAt
    <3>8. QED
      BY <1>3, <2>3, <3>2, <3>6, <3>7 DEF AsyncTurnsInv
  <2>4. QED
    BY <2>2, <2>3
<1>7. QED
  BY <1>4, <1>5, <1>6

\* The tasks of a batch start.
LEMMA AsyncStarts ==
    ASSUME AsyncInv, OutputInv, AccountsInv, AsyncTurnsInv, ~ crowded,
           ~ crowded', StartTasks
    PROVE  AsyncTurnsInv'
<1>1. /\ AsyncBatchOpen /\ settled = {} /\ vm.pending \subseteq deferred
      /\ waiting' = vm.pending /\ settled' = vm.pending
      /\ executed_any' = (executed_any \/ vm.pending # {})
      /\ ~ Cardinality({s \in vm.pending : ToolAt(s) \in Gated}) > 1
      /\ driver' = "async" /\ (defer' <=> defer)
      /\ UNCHANGED <<phase, prog, vm, hostTools, record, store, answers, asked,
                     counter, deliveries>>
  <2>1. AsyncBatchOpen /\ settled = {}
    BY DEF StartTasks, AsyncBatch, Batch, InPass, AsyncBatchOpen
  <2>2. vm.pending \subseteq deferred
    BY <2>1 DEF AsyncBatchOpen, AsyncInv, FuturesInv, DeferredMirrorsFutures
  <2>3. Popped = vm.pending
    BY <2>2 DEF Popped
  <2>4. executed_any' = (executed_any \/ vm.pending # {})
    BY <2>3, Zenon DEF StartTasks, Noticed
  <2>5. QED
    BY <2>1, <2>2, <2>3, <2>4 DEF StartTasks, AsyncBatch
<1>2. /\ TypeOK /\ TurnsInv /\ PassInv /\ phase = "pass" /\ vm.at = "await"
      /\ prog \in Seq(Instrs) /\ vm.pc \in DOMAIN prog
      /\ vm.pending = ListedAt(vm.pc) /\ counter <= Len(answers)
      /\ PassedQuestions \cup ((settled \ waiting) \cap Questions)
            = FirstAnswers(counter)
  BY <1>1, AsyncBatchFacts
<1>3. PassInv' /\ PassedQuestions' = PassedQuestions
  <2>1. /\ settled' # {} => executed_any'
        /\ executed_any => executed_any'
    BY <1>1, Zenon
  <2>2. QED
    BY <1>1, <1>2, <2>1, StillInBatch
<1>4. TurnsInv'
  BY <1>1, <1>2, <1>3, TurnsInBatch
<1>5. BatchTurn(settled \ waiting)'
  <2>1. FirstAnswers(counter)' = FirstAnswers(counter)
    BY <1>1 DEF FirstAnswers
  <2>2. PassedQuestions' = FirstAnswers(counter) /\ settled' \ waiting' = {}
    BY <1>1, <1>2, <1>3
  <2>3. QED
    BY <2>1, <2>2 DEF BatchTurn
<1>6. \A s, t \in vm.pending : ToolAt(s) \in Gated /\ ToolAt(t) \in Gated
                                  => s = t
  BY <1>1, <1>2, OneGatedCall
<1>7. (\A s, t \in settled : ToolAt(s) \in Gated /\ ToolAt(t) \in Gated
                                => s = t)'
  BY <1>1, <1>6 DEF ToolAt
<1>8. QED
  BY <1>1, <1>4, <1>5, <1>7 DEF AsyncTurnsInv

\* A task asks and is answered.
LEMMA AsyncAsks ==
    ASSUME AsyncInv, OutputInv, AccountsInv, AsyncTurnsInv, ~ crowded,
           NEW s \in vm.pending, TaskAsks(s)
    PROVE  AsyncTurnsInv'
<1>1. /\ AsyncBatchOpen /\ s \in waiting /\ ToolAt(s) \in Gated /\ Answered
      /\ waiting' = waiting \ {s} /\ counter' = counter + 1
      /\ deliveries' = deliveries \cup {<<s, NextAnswer>>}
      /\ (defer' <=> defer) /\ (executed_any' <=> executed_any)
      /\ UNCHANGED <<phase, prog, vm, hostTools, record, store, answers, asked,
                     settled, driver>>
  BY DEF TaskAsks, AsyncBatch, Batch, InPass, AsyncBatchOpen
<1>2. /\ TypeOK /\ TurnsInv /\ PassInv /\ LedgerInv /\ AnswersReachTheirCalls
      /\ phase = "pass" /\ vm.at = "await"
      /\ PassedQuestions \cup ((settled \ waiting) \cap Questions)
            = FirstAnswers(counter)
      /\ settled = vm.pending
      /\ settled # {} => executed_any
      /\ \A q \in settled, t \in settled :
            ToolAt(q) \in Gated /\ ToolAt(t) \in Gated => q = t
      /\ vm.pending \subseteq Sites
  BY <1>1, AsyncBatchFacts DEF VMs
<1>3. \A q \in vm.pending : ToolAt(q) \in Gated =>
         (q \in settled \ waiting <=> Earlier(q, s))
  <2>1. ~ Earlier(s, s)
    BY <1>2 DEF Earlier, Sites
  <2>2. QED
    BY <1>1, <1>2, <2>1
<1>4. /\ AnswersReachTheirCalls'
      /\ PassedQuestions \cup (((settled \ waiting) \cup {s}) \cap Questions)
            = FirstAnswers(counter')
      /\ counter' <= Len(answers)
  <2> DEFINE done == settled \ waiting
  <2>1. done \subseteq vm.pending
    BY <1>2
  <2>2. PassedQuestions \cup (done \cap Questions) = FirstAnswers(counter)
    BY <1>2
  <2>3. \A q \in vm.pending : ToolAt(q) \in Gated =>
                                  (q \in done <=> Earlier(q, s))
    BY <1>3
  <2>4. /\ TypeOK /\ PassInv /\ LedgerInv /\ AnswersReachTheirCalls
        /\ phase = "pass" /\ vm.at = "await" /\ ToolAt(s) \in Gated
        /\ Answered /\ counter' = counter + 1
        /\ deliveries' = deliveries \cup {<<s, NextAnswer>>}
    BY <1>1, <1>2
  <2> HIDE DEF done
  <2>5. /\ AnswersReachTheirCalls'
        /\ PassedQuestions \cup ((done \cup {s}) \cap Questions)
              = FirstAnswers(counter')
        /\ counter' <= Len(answers)
    BY <2>1, <2>2, <2>3, <2>4, AnswersInBatch
  <2>6. QED
    BY <2>5 DEF done
<1>5. PassInv' /\ PassedQuestions' = PassedQuestions
  <2>1. settled' # {} => executed_any'
    BY <1>1, <1>2
  <2>2. QED
    BY <1>1, <1>2, <1>4, <2>1, StillInBatch
<1>6. TurnsInv'
  BY <1>1, <1>2, <1>4, <1>5, TurnsInBatch
<1>7. BatchTurn(settled \ waiting)'
  <2>1. FirstAnswers(counter)' = FirstAnswers(counter')
    BY <1>1 DEF FirstAnswers
  <2>2. settled' \ waiting' = (settled \ waiting) \cup {s}
    BY <1>1, <1>2
  <2>3. Questions' = Questions
    BY <1>1, SameCode
  <2>4. QED
    BY <1>4, <1>5, <2>1, <2>2, <2>3 DEF BatchTurn
<1>8. (\A q, t \in settled : ToolAt(q) \in Gated /\ ToolAt(t) \in Gated
                                => q = t)'
  BY <1>1, <1>2 DEF ToolAt
<1>9. QED
  BY <1>1, <1>6, <1>7, <1>8 DEF AsyncTurnsInv, AsyncBatchOpen

\* A task acts.
LEMMA AsyncActs ==
    ASSUME AsyncInv, OutputInv, AccountsInv, AsyncTurnsInv, ~ crowded,
           NEW s \in vm.pending, TaskActs(s)
    PROVE  AsyncTurnsInv'
<1>1. /\ AsyncBatchOpen /\ waiting' = waiting \ {s}
      /\ s \in granted \/ ToolAt(s) \notin Gated
      /\ (defer' <=> defer) /\ (executed_any' <=> executed_any)
      /\ UNCHANGED <<phase, prog, vm, hostTools, record, store, answers, asked,
                     counter, deliveries, settled, driver>>
  BY DEF TaskActs, RunDeferred, AsyncBatch, Batch, InPass, AsyncBatchOpen
<1>2. /\ TypeOK /\ TurnsInv /\ PassInv /\ phase = "pass" /\ vm.at = "await"
      /\ PassedQuestions \cup ((settled \ waiting) \cap Questions)
            = FirstAnswers(counter)
      /\ settled # {} => executed_any
      /\ counter <= Len(answers) /\ waiting \cap granted = {}
      /\ \A q \in settled, t \in settled :
            ToolAt(q) \in Gated /\ ToolAt(t) \in Gated => q = t
      /\ prog \in Seq(Instrs)
  BY <1>1, AsyncBatchFacts
<1>3. PassInv' /\ PassedQuestions' = PassedQuestions
  <2>1. settled' # {} => executed_any'
    BY <1>1, <1>2
  <2>2. QED
    BY <1>1, <1>2, <2>1, StillInBatch
<1>4. TurnsInv'
  BY <1>1, <1>2, <1>3, TurnsInBatch
<1>5. BatchTurn(settled \ waiting)'
  <2>1. FirstAnswers(counter)' = FirstAnswers(counter)
    BY <1>1 DEF FirstAnswers
  <2>2. s \in waiting => s \notin Questions
    BY <1>1, <1>2, QuestionForm DEF ToolAt
  <2>3. (settled' \ waiting') \cap Questions = (settled \ waiting) \cap Questions
    BY <1>1, <2>2
  <2>4. Questions' = Questions
    BY <1>1, SameCode
  <2>5. QED
    BY <1>2, <1>3, <2>1, <2>3, <2>4 DEF BatchTurn
<1>6. (\A q, t \in settled : ToolAt(q) \in Gated /\ ToolAt(t) \in Gated
                                => q = t)'
  BY <1>1, <1>2 DEF ToolAt
<1>7. QED
  BY <1>1, <1>4, <1>5, <1>6 DEF AsyncTurnsInv, AsyncBatchOpen

\* A task puts its question to the human.
LEMMA AsyncRaises ==
    ASSUME AsyncInv, OutputInv, AccountsInv, AsyncTurnsInv, ~ crowded,
           NEW s \in vm.pending, GatherRaises(s)
    PROVE  AsyncTurnsInv'
<1>1. /\ AsyncBatchOpen /\ s \in waiting /\ ToolAt(s) \in Gated /\ ~ Answered
      /\ asked' = s /\ phase' = "raised"
      /\ UNCHANGED <<prog, hostTools, record, store, answers, deliveries>>
  BY DEF GatherRaises, AsyncBatch, Batch, InPass, AsyncBatchOpen
<1>2. /\ TypeOK /\ TurnsInv /\ PassInv /\ phase = "pass" /\ vm.at = "await"
      /\ PassedQuestions \cup ((settled \ waiting) \cap Questions)
            = FirstAnswers(counter)
      /\ settled = vm.pending /\ vm.pending \subseteq Sites
      /\ counter <= Len(answers) /\ counter \in Nat /\ Len(answers) \in Nat
      /\ \A q \in settled, t \in settled :
            ToolAt(q) \in Gated /\ ToolAt(t) \in Gated => q = t
  BY <1>1, AsyncBatchFacts DEF VMs, TypeOK
<1>3. \A q \in vm.pending : ToolAt(q) \in Gated =>
         (q \in settled \ waiting <=> Earlier(q, s))
  <2>1. ~ Earlier(s, s)
    BY <1>2 DEF Earlier, Sites
  <2>2. QED
    BY <1>1, <1>2, <2>1
<1>4. s \in Questions /\ Preceding(s) = FirstAnswers(counter)
  <2>1. settled \ waiting \subseteq vm.pending
    BY <1>2
  <2>2. QED
    BY <1>1, <1>2, <1>3, <2>1, NextInBatch
<1>5. counter = Len(answers)
  BY <1>1, <1>2 DEF Answered
<1>6. TurnsInv'
  BY <1>1, <1>2, <1>4, <1>5, TurnsAsked
<1>7. QED
  BY <1>1, <1>6 DEF AsyncTurnsInv, AsyncBatchOpen, BatchTurn

\* The gather returns.
LEMMA AsyncReturns ==
    ASSUME AsyncInv, OutputInv, OutcomesInv, AccountsInv, AsyncTurnsInv,
           ~ crowded, GatherReturns
    PROVE  AsyncTurnsInv'
<1>1. /\ AsyncBatchOpen /\ settled # {} /\ waiting = {}
      /\ vm' = ResolveFutures(vm, Overwritten)
      /\ driver' = "async"
      /\ (defer' <=> defer) /\ (executed_any' <=> executed_any)
      /\ UNCHANGED <<phase, prog, hostTools, record, store, answers, asked,
                     counter, deliveries>>
  BY DEF GatherReturns, AllTasksEnded, AsyncBatch, Batch, InPass,
         AsyncBatchOpen
<1>2. /\ TypeOK /\ TurnsInv /\ PassInv /\ phase = "pass" /\ vm.at = "await"
      /\ vm \in VMs /\ executed_any
      /\ PassedQuestions \cup ((settled \ waiting) \cap Questions)
            = FirstAnswers(counter)
  BY <1>1, AsyncBatchFacts
<1>3. settled = vm.pending
  BY <1>1 DEF AsyncInv, TasksInv, AsyncBatchOpen
<1>4. vm'.at \in {"run", "error"}
  <2>1. \A s \in vm.pending : Overwritten[s] \in Payloads
    BY AllSettled, OverwrittenTyped DEF AsyncInv
  <2>2. QED
    BY <1>1, <1>2, <2>1, BatchAnswered
<1>5. vm' = ResolveFutures(vm, Own)
  BY <1>1, OverwrittenOwn
<1>6. PassInv'
  BY <1>1, <1>2, <1>3, <1>5, BatchResumed
<1>7. TurnsInv'
  BY <1>1, <1>2, <1>6, TurnsInBatch
<1>8. QED
  BY <1>1, <1>4, <1>7 DEF AsyncTurnsInv, AsyncBatchOpen, BatchTurn

\* Every step of both drivers keeps the turns.
LEMMA AsyncTurnsStep ==
    TurnsKept /\ AsyncInv /\ OutputInv /\ OutcomesInv /\ AccountsInv
       /\ AsyncTurnsInv /\ [AsyncNext]_asyncVars => AsyncTurnsInv'
<1> SUFFICES ASSUME TurnsKept, AsyncInv, OutputInv, OutcomesInv, AccountsInv,
                    AsyncTurnsInv, [AsyncNext]_asyncVars, ~ crowded'
             PROVE  AsyncTurnsInv'
  BY DEF AsyncTurnsInv
<1>1. ~ crowded
  <2>1. CASE StartTasks
    BY <2>1, Zenon DEF StartTasks
  <2>2. CASE ~ StartTasks
    BY <2>2, StepKinds
    DEF Shared, ChooseDriver, InEitherDriver, FromOutside, CrashAll, StrayEnds,
        TaskAsks, TaskActs, GatherRaises, GatherReturns, asyncVars
  <2>3. QED
    BY <2>1, <2>2
<1>2. QED
  BY <1>1, StepKinds, AsyncTurnsShared, AsyncStarts, AsyncAsks, AsyncActs,
     AsyncRaises, AsyncReturns

\* Whichever driver runs each leg: as long as no gather holds two calls that
\* ask, each answer reaches the call whose question it answers, for every
\* style of code, with a store or without, over pauses, crashes and faults
\* that take no record away alone (_driver.py 354, README 109).
THEOREM AnswersMatchedInBoth == TurnsKept => (AsyncSpec => []AnswersInTurn)
<1> SUFFICES ASSUME TurnsKept PROVE AsyncSpec => []AnswersInTurn
  OBVIOUS
<1> DEFINE Inv == OutputInv /\ OutcomesInv /\ AccountsInv /\ AsyncTurnsInv
<1>1. AsyncInit => Inv
  <2>1. AsyncInit => AsyncTurnsInv
    BY TurnsInit, SyncBatchInit
    DEF AsyncInit, Init, AsyncTurnsInv, AsyncBatchOpen, BatchTurn
  <2>2. QED
    BY <2>1, OutputInit, OutcomesInit, AccountsInit DEF AsyncInit
<1>2. AsyncInv /\ Inv /\ [AsyncNext]_asyncVars => Inv'
  BY AsyncOutput, OutcomesStep, AccountsStep, AsyncTurnsStep
<1>3. Inv => AnswersInTurn
  BY DEF AsyncTurnsInv, TurnsInv, AnswersInTurn
<1>4. QED
  BY <1>1, <1>2, <1>3, AsyncInvariant, PTL DEF AsyncSpec
=============================================================================
