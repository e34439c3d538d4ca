-------------------------- MODULE DriverProperties --------------------------
(***************************************************************************)
(* What one eval_python call must keep true, whatever the code does.       *)
(***************************************************************************)
EXTENDS MontyDriver

\* Every variable has a value of its kind.
TypeOK ==
    /\ prog \in Programs /\ vm \in VMs /\ stdout \in Seq(Nat)
    /\ store \in Records \cup {NoRecord} /\ faults \in Nat
    /\ answers \in Seq(Sites) /\ counter \in Nat /\ asked \in Sites
    /\ phase \in Phases /\ hostTools \in SUBSET HostTools
    /\ record \in Records \cup {NoRecord} /\ outcome \in Results
    /\ defer \in BOOLEAN /\ deferred \in SUBSET Sites
    /\ executed_any \in BOOLEAN
    /\ host_calls \in Nat /\ stdout_prefix \in Seq(Nat)
    /\ interrupts_answered \in Nat /\ pending_answer \in BOOLEAN
    /\ settled \subseteq Sites /\ results \in [settled -> Payloads]
    /\ ran \in Seq(Sites) /\ legRan \in SUBSET Sites
    /\ deliveries \in SUBSET (Sites \X Sites)

----------------------------------------------------------------------------
(***************************************************************************)
(* Running host tools                                                      *)
(***************************************************************************)

\* No leg runs the tool of one host call twice: restarting a deferred pass in
\* eager mode repeats no call, and neither does resolving a batch
\* (_driver.py 276-281: "no host tool ran, so an eager rerun is safe").
OncePerLeg ==
    [][ran' # ran => ran'[Len(ran')] \notin legRan]_vars

\* With a store, no host call acts twice over all the legs of the call:
\* "host tools that already ran are not re-invoked" (README 149).
RunsOnce ==
    \A i, j \in DOMAIN ran : ran[i] = ran[j] => i = j

\* The driver's deferred dictionary holds exactly the futures that the sandbox
\* still has, less those of the batch in progress, so every id a
\* FutureSnapshot lists is found in it (the "no deferred host call" result of
\* _driver.py 221-224 is never sent) and an eager pass has neither.
DeferredMirrorsFutures ==
    phase = "pass" =>
        /\ deferred = vm.futures \ settled
        /\ settled \subseteq vm.pending /\ vm.pending \subseteq vm.futures
        /\ ~ defer => vm.futures = {}

\* A result without an error hides no host call: each allowlisted call of the
\* code has really been made, in whichever pass and leg
\* (_finish_pass and the restart, _driver.py 462-478).
NoCallDropped ==
    outcome.error = "none" =>
        \A i \in DOMAIN prog :
            prog[i].op = "call" /\ prog[i].tool \in hostTools =>
                \E k \in DOMAIN ran : ran[k][1] = i

\* The budget spans pauses: over all the legs of a call no more than Budget
\* host calls act (README 149 "the iteration budget keeps counting").
BudgetSpansLegs == Len(ran) <= Budget

----------------------------------------------------------------------------
(***************************************************************************)
(* Output                                                                  *)
(***************************************************************************)
\* text shows each print of the code before place pc once, in order
Shows(text, pc) ==
    /\ {text[i] : i \in DOMAIN text}
          = {i \in DOMAIN prog : i < pc /\ prog[i].op = "print"}
    /\ \A i, j \in DOMAIN text : i < j => text[i] < text[j]

\* What the result shows as stdout is what the code printed, each line once
\* and in order, over restarts, pauses and revived snapshots
\* (stdout_prefix, _driver.py 267 and 540-551).
StdoutOnce ==
    /\ phase = "pass" => Shows(stdout_prefix \o stdout, vm.pc)
    /\ outcome.error = "none" => Shows(outcome.stdout, Len(prog) + 1)

----------------------------------------------------------------------------
(***************************************************************************)
(* Questions and answers                                                   *)
(***************************************************************************)

\* A host call is only ever given the answer to its own question, though
\* interrupt() matches answers by position and resumed legs skip calls
\* (_hitl_snapshot.py 151-158, README 151).
AnswersReachTheirCalls == \A d \in deliveries : d[1] = d[2]

\* The human never sees the counter-sync text of _burn_answered_interrupts.
BurnNeverSurfaces == asked # Placeholder

\* While a plain call waits for the human, the record on file is frozen at the
\* very call that asked, and it expects exactly the answers given so far.
PausedOnRecord ==
    phase = "paused" =>
        /\ store # NoRecord
        /\ Site(store.vm) = asked
        /\ store.interrupts_answered = Len(answers)

\* "The snapshot record is deleted from the store when the call finishes"
\* (README 149).
RecordGone == phase = "committed" => store = NoRecord

\* "Persistence failures degrade silently to the replay model, never to a
\* broken run" (README 153): no result reports trouble on the host's side.
NeverBroken == outcome.error # "HostError"

----------------------------------------------------------------------------
\* Every leg ends, in a result that LangGraph commits or in a question to the
\* human, however often deferral fails and whatever strikes: the restart
\* happens at most once and every loop over host calls meets the budget.
LegsEnd == (phase = "start") ~> (phase \in {"committed", "paused"})
=============================================================================
