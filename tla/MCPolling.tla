----------------------------- MODULE MCPolling ------------------------------
(***************************************************************************)
(* Plain-call code that polls a host tool: `while read() != "done": pass`, *)
(* alone and among other statements.  The loop ends with its second real   *)
(* result, well inside the budget.                                         *)
(***************************************************************************)
EXTENDS DriverRefinesContract

Statement(op, use, n) ==
    [op |-> op, tool |-> "read", use |-> use, n |-> n, catch |-> FALSE]

Statements == {Statement("print", "drop", 1), Statement("call", "drop", 1),
               Statement("call", "loop", 2)}

MCPrograms == UNION {[1..k -> Statements] : k \in 1..2}
=============================================================================
