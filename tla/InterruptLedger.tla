--------------------------- MODULE InterruptLedger --------------------------
(***************************************************************************)
(* LangGraph's interrupt() as host tools and _burn_answered_interrupts     *)
(* meet it (external).  Resume values are kept per task and matched by     *)
(* position: the k-th interrupt() of a replay returns the k-th recorded    *)
(* answer, and the first one past the end raises GraphInterrupt.           *)
(* An answer is represented by the call whose question the human answered. *)
(***************************************************************************)
EXTENDS SandboxVM

\* No host call has place 0, so these two name no call
NoQuestion == <<0, 0>>
Placeholder == <<0, 1>>   \* the text _burn_answered_interrupts would show

VARIABLES answers,   \* the recorded resume values, oldest first
          counter,   \* how many interrupt() calls this replay has made
          asked      \* the question a GraphInterrupt carries to the human

Answered == counter < Len(answers)

NextAnswer == answers[counter + 1]
=============================================================================
