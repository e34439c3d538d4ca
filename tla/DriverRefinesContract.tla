------------------------ MODULE DriverRefinesContract -----------------------
(***************************************************************************)
(* The driver implements EvalContract on plain-call code.                  *)
(***************************************************************************)
EXTENDS DriverProperties, SequencesExt

Afterwards(v) ==
    LET op   == Code(v).op
        fine == \/ op = "os" /\ Code(v).use = "serviced"
                \/ op = "call" /\ Code(v).tool \in HostTools \ Failing
    IN  IF op = "print" THEN Advance(v)
        ELSE IF fine THEN ReturnValue(v)
        ELSE Throw(v)

Counts(v) == Code(v).op = "call" /\ Code(v).tool \in HostTools

\* One run of the code on a host that answers every call at once, one
\* instruction further; a run that is over stays as it is.
Execute(run) ==
    LET v == run.vm
        over == v.at = "error" \/ v.pc > Len(prog) \/ run.overBudget
    IN  IF over THEN run
        ELSE IF Counts(v) /\ Len(run.calls) = Budget THEN
            [run EXCEPT !.overBudget = TRUE]
        ELSE
            [run EXCEPT
                !.vm     = Afterwards(v),
                !.calls  = IF Counts(v) THEN Append(@, Site(v)) ELSE @,
                !.stdout = IF Code(v).op = "print" THEN Append(@, v.pc) ELSE @]

\* Each step but the last at a place of the code is a call that the code makes
\* again, and there are no more calls than the budget allows.
Horizon == Len(prog) + Budget

FreshRun == [vm |-> FreshVM, calls |-> <<>>, stdout |-> <<>>, overBudget |-> FALSE]

\* The one run after k instructions (run is bound in a set for TLC to work it
\* out only once)
Execution[k \in 0..Horizon] ==
    IF k = 0 THEN FreshRun
             ELSE CHOOSE next \in {Execute(run) : run \in {Execution[k - 1]}} : TRUE

ResultOf(run) ==
    IF run.overBudget THEN ErrorResult("IterationBudgetExceeded")
    ELSE IF run.vm.at = "error" THEN ErrorResult("MontyError")
    ELSE [error |-> "none", stdout |-> run.stdout]

Observed(run) ==
    [calls  |-> run.calls,
     gated  |-> {s \in ToSet(run.calls) : ToolAt(s) \in Gated},
     result |-> ResultOf(run),
     overBudget |-> run.overBudget]

IdealRun ==
    CHOOSE ideal \in {Observed(run) : run \in {Execution[Horizon]}} : TRUE

Contract ==
    INSTANCE EvalContract WITH
        ideal    <- IdealRun,
        calls    <- ran,
        question <- IF phase = "paused" THEN asked ELSE NoQuestion,
        granted  <- answers,
        result   <- IF phase = "committed" THEN outcome ELSE Unfinished

\* Deferred passes, restarts, pauses, records and positional answers are
\* invisible: what the tools and the human see is one plain run of the code
\* (README 124 and 147-149).
ImplementsContract == Contract!Spec

\* "if the code turns out to use plain calls it transparently restarts in
\* eager mode" (README 124): the result of plain-call code is that of a plain
\* run.
DeferralIsTransparent ==
    phase = "committed" => outcome = IdealRun.result
=============================================================================
