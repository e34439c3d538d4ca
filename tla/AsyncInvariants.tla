-------------------------- MODULE AsyncInvariants ---------------------------
(***************************************************************************)
(* What has to be known about the tasks of a batch, on top of              *)
(* DriverInvariants, for the properties of AsyncDriver to follow step by   *)
(* step.                                                                   *)
(***************************************************************************)
EXTENDS AsyncProperties, DriverInvariants

Unended == waiting \cup granted

AsyncBatchOpen == phase = "pass" /\ vm.at = "await" /\ driver = "async"

\* Tasks run only while the sandbox waits for them.  None of them has acted,
\* none can be started again, and from the first one on there is no restart.
\* A settled call has acted unless its task has yet to, and the async driver
\* settles a batch as a whole.
TasksInv ==
    /\ Unended # {} => AsyncBatchOpen /\ executed_any
    /\ \A s \in Unended :
          /\ s \in settled /\ s \notin legRan \cup deferred
          /\ Earlier(s, Site(vm))
    /\ phase = "pass" => settled \subseteq Unended \cup legRan
    /\ phase = "pass" /\ driver = "async" => settled \in {{}, vm.pending}

\* Tasks return payloads, each with the id of its call.
ReturnsTyped == finished \in Seq([call : Sites, payload : Payloads])

\* What the task of a call returns
Outcome(s) == [call |-> s, payload |-> CameTo(s)]

\* The sync driver has each result at once.  The async one starts from errors
\* everywhere and keeps what each task that ended came to.
OutcomesInv ==
    /\ driver \in Drivers
    /\ phase = "pass" =>
          results = [s \in settled |-> IF driver = "async" THEN NoHostCall
                                                         ELSE CameTo(s)]
    /\ IF AsyncBatchOpen
       THEN ToSet(finished) = {Outcome(s) : s \in settled \ Unended}
       ELSE finished = <<>>

\* A task is in one state, and each that ended has ended once.
AccountsInv ==
    /\ crowded \in BOOLEAN /\ strays \subseteq Sites
    /\ waiting \cap granted = {}
    /\ IsFiniteSet(FinishedCalls) /\ Cardinality(FinishedCalls) = Len(finished)
----------------------------------------------------------------------------
\* As long as no gather held two calls that ask, the answers are given in
\* turn: to the tasks that have asked.
AsyncTurnsInv ==
    ~ crowded =>
        /\ TurnsInv /\ BatchTurn(settled \ waiting)
        /\ phase = "pass" /\ driver = "sync" => SyncBatchInv
        /\ AsyncBatchOpen =>
              \A s, t \in settled : ToolAt(s) \in Gated /\ ToolAt(t) \in Gated
                                       => s = t
=============================================================================
