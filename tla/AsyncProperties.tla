-------------------------- MODULE AsyncProperties ---------------------------
(***************************************************************************)
(* What must hold whichever driver runs each leg, and however the tasks of *)
(* a batch interleave.                                                     *)
(***************************************************************************)
EXTENDS AsyncDriver

FinishedCalls == {f.call : f \in ToSet(finished)}

\* Every call of a batch is with one task or has ended, once: a gather neither
\* loses nor doubles a task, whatever FutureSnapshot listed (_driver.py
\* 338-355).  The kinds of the variables that AsyncDriver adds are part of it.
BatchAccounted ==
    /\ driver \in Drivers /\ crowded \in BOOLEAN /\ strays \subseteq Sites
    /\ finished \in Seq([call : Sites, payload : Payloads])
    /\ waiting \cap granted = {}
    /\ FinishedCalls \cap (waiting \cup granted) = {}
    /\ Cardinality(FinishedCalls) = Len(finished)
    /\ phase = "pass" /\ vm.at = "await" /\ driver = "async" =>
          waiting \cup granted \cup FinishedCalls = settled

\* A resume gives every pending call the value or the exception of its own tool
\* and of no other, though the tasks end in any order and the dictionary of
\* results starts out as errors (_driver.py 212-226, 345-358); and the code goes
\* on or fails accordingly.
OwnResults ==
    [][ phase = "pass" /\ vm.at = "await" /\ vm' # vm =>
          /\ vm'.given = vm.given \cup {<<s, CameTo(s)>> : s \in vm.pending}
          /\ vm'.at = "error" => \E s \in vm.held : ToolAt(s) \in Failing
          /\ vm'.at # "error" =>
                Code(vm).catch \/ \A s \in vm.held : ToolAt(s) \notin Failing
      ]_asyncVars

\* As long as no gather held two calls that ask the human, every answer
\* reaches the call that asked, whichever driver ran the legs
\* (_driver.py 354, README 109).
AnswersInTurn == ~ crowded => AnswersReachTheirCalls

\* In no leg is a host tool left running behind the driver's back but by a
\* question: an exception of one task is a result like any other, and a leg
\* returns only when all of its tasks have ended (_run_deferred, _driver.py
\* 354, 481-499).
OnlyQuestionsStray ==
    [][ /\ strays' \subseteq strays \/ phase' = "raised"
        /\ phase' \in {"delete", "returned"} => waiting \cup granted = {}
      ]_asyncVars

----------------------------------------------------------------------------
Working == phase \in {"begin", "pass"}

Futures ==
    INSTANCE FutureContract WITH
        open  <- Working,
        owed  <- IF phase = "pass" THEN vm.futures ELSE {},
        acted <- IF Working THEN legRan ELSE {}

\* Both drivers keep FutureContract, whatever the style of the code: a future
\* resolves only after its tool ran, and deferral starts over only when
\* nothing has run (_driver.py 276-281, 338-358, 405-408, 474-477).
ImplementsFutures == Futures!Spec
=============================================================================
