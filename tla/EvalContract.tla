---------------------------- MODULE EvalContract ----------------------------
(***************************************************************************)
(* What eval_python promises for plain-call code, seen from outside: the   *)
(* host tools act as if the code had been run once, from top to bottom,    *)
(* each call answered on the spot; a gated tool acts only after the human  *)
(* granted its own question; and the result is that run's result.  There   *)
(* are no passes, legs, records or counters here.                          *)
(***************************************************************************)
EXTENDS Naturals, Sequences, SequencesExt

CONSTANTS Unfinished, NoQuestion

VARIABLES ideal,      \* the one run: its calls, which of them ask, its result,
                      \* and whether that is its budget's end
          calls,      \* host calls whose tool has acted, in order
          question,   \* the call that waits for the human
          granted,    \* the calls whose question was answered, in order
          result

vars == <<ideal, calls, question, granted, result>>

Init ==
    /\ calls = <<>> /\ granted = <<>>
    /\ question = NoQuestion /\ result = Unfinished

MoreCalls == Len(calls) < Len(ideal.calls)

NextCall == ideal.calls[Len(calls) + 1]

Permitted == NextCall \in ideal.gated => NextCall \in ToSet(granted)

Open == result = Unfinished /\ question = NoQuestion

Act ==
    /\ Open /\ MoreCalls /\ Permitted
    /\ calls' = Append(calls, NextCall)
    /\ UNCHANGED <<ideal, question, granted, result>>

Ask ==
    /\ Open /\ MoreCalls /\ ~ Permitted
    /\ question' = NextCall
    /\ UNCHANGED <<ideal, calls, granted, result>>

Answer ==
    /\ question # NoQuestion
    /\ granted' = Append(granted, question) /\ question' = NoQuestion
    /\ UNCHANGED <<ideal, calls, result>>

Finish ==
    /\ Open /\ ~ MoreCalls
    /\ result' = ideal.result
    /\ UNCHANGED <<ideal, calls, question, granted>>

\* Code that makes more calls than its budget allows may be refused at once,
\* but not after it has acted or asked.
Refuse ==
    /\ Open /\ calls = <<>> /\ granted = <<>> /\ ideal.overBudget
    /\ result' = ideal.result
    /\ UNCHANGED <<ideal, calls, question, granted>>

Next == Act \/ Ask \/ Answer \/ Finish \/ Refuse

Spec == Init /\ [][Next]_vars
=============================================================================
