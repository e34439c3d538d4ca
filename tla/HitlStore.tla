----------------------------- MODULE HitlStore ------------------------------
(***************************************************************************)
(* The record that middleware/_hitl_snapshot.py keeps in the agent's store *)
(* for one eval_python call.  The key (thread, tool_call_id) is the same   *)
(* in every replay of the call, so the store of one call is one cell.      *)
(* Every helper swallows the store's exceptions: a failed call looks like  *)
(* one that did nothing or found nothing.                                  *)
(***************************************************************************)
EXTENDS SandboxVM, Faults

CONSTANTS HasStore,   \* the agent was built with a store (and a tool_call_id)
          NoRecord

Records == [vm : VMs, stdout : Seq(Nat), host_calls : Nat,
            interrupts_answered : Nat]

ASSUME StoreAssumption == HasStore \in BOOLEAN /\ NoRecord \notin Records

VARIABLE store   \* the record on file for this call, or NoRecord

\* A mistake: the first record of the call is never overwritten
persist_first_only(r) ==
    /\ store' = IF HasStore /\ store = NoRecord THEN r ELSE store
    /\ NoFault

persist_hitl_record(r) ==
    \/ HasStore /\ store' = r /\ NoFault
    \/ HasStore /\ Fault("put") /\ UNCHANGED store
    \/ ~ HasStore /\ NoFault /\ UNCHANGED store

\* found: what the caller gets
load_hitl_record(found) ==
    /\ \/ found = store /\ NoFault
       \/ HasStore /\ found = NoRecord /\ Fault("get")
    /\ UNCHANGED store

delete_hitl_record ==
    \/ store' = NoRecord /\ NoFault
    \/ HasStore /\ Fault("delete") /\ UNCHANGED store
=============================================================================
