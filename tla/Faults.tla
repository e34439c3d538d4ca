------------------------------- MODULE Faults -------------------------------
(***************************************************************************)
(* What goes wrong around eval_python, rationed: a run names the kinds it  *)
(* allows and how many may strike in one behaviour.                        *)
(*   put, get, delete   the store call raises, or get returns a record     *)
(*                      that no longer validates                           *)
(*   pool, checkout     the worker cannot be started, or not checked out   *)
(*   load               the worker refuses the frozen VM                   *)
(*   limit              a resource limit stops the sandbox                 *)
(*   early              a host tool fails before it reaches interrupt()    *)
(*   unbind             a tool resolved from the runtime is not bound in   *)
(*                      this leg                                           *)
(*   crash              the process dies in a leg and LangGraph replays it *)
(*   late_crash         it dies when eval_python has returned, before the  *)
(*                      result is checkpointed; the leg is replayed, too   *)
(***************************************************************************)
EXTENDS Naturals

Kinds == {"put", "get", "delete", "pool", "checkout", "load", "limit",
          "early", "unbind", "crash", "late_crash"}

CONSTANTS FaultKinds,   \* the kinds that may strike
          MaxFaults     \* how often, over the whole behaviour

ASSUME FaultsAssumption == FaultKinds \subseteq Kinds /\ MaxFaults \in Nat

VARIABLE faults   \* faults that may still strike

Fault(kind) ==
    /\ kind \in FaultKinds
    /\ faults > 0
    /\ faults' = faults - 1

NoFault == UNCHANGED faults
=============================================================================
