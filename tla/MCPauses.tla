------------------------------ MODULE MCPauses ------------------------------
(***************************************************************************)
(* Plain-call snippets of up to MaxLength statements, most of which pause, *)
(* and awaited ones of up to MaxBatches: for the runs about pauses, faults *)
(* and replays.                                                            *)
(***************************************************************************)
EXTENDS DriverProperties

CONSTANTS MaxLength, MaxBatches

Statement(op, tool, use, catch) ==
    [op |-> op, tool |-> tool, use |-> use, n |-> 1, catch |-> catch]

Line == Statement("print", "read", "drop", FALSE)

Call(tool, use, catch) == Statement("call", tool, use, catch)

Statements ==
    {Line,
     Call("read", "value", FALSE),
     Call("approve", "drop", FALSE),
     Call("approve", "value", TRUE),
     Call("flaky", "drop", TRUE)}

Awaited ==
    {Line,
     Call("approve", "later", FALSE),
     Statement("await", "read", "drop", TRUE)}

MCPrograms ==
    UNION ({[1..k -> Statements] : k \in 1..MaxLength}
              \cup {[1..k -> Awaited] : k \in 1..MaxBatches})
=============================================================================
