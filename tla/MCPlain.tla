------------------------------- MODULE MCPlain ------------------------------
(***************************************************************************)
(* Plain-call snippets: every sequence of up to MaxLength statements of    *)
(* any kind, and longer ones, of up to MaxPauses, whose statements pause,  *)
(* print or act.                                                           *)
(***************************************************************************)
EXTENDS DriverRefinesContract

CONSTANTS MaxLength, MaxPauses

Plain(op, tool, use, catch) ==
    [op |-> op, tool |-> tool, use |-> use, n |-> 1, catch |-> catch]

Call(tool, use, catch) == Plain("call", tool, use, catch)

Statements ==
    {Plain("print", "read", "drop", FALSE),
     Plain("name", "read", "drop", TRUE),
     Plain("os", "read", "serviced", FALSE),
     Plain("os", "read", "declined", TRUE),
     Plain("raise", "read", "drop", FALSE),
     Call("read", "value", FALSE),
     Call("approve", "drop", FALSE),
     Call("approve", "value", TRUE),
     Call("flaky", "drop", TRUE),
     Call("unlisted", "drop", TRUE)}

Pausing ==
    {Plain("print", "read", "drop", FALSE),
     Call("read", "value", FALSE),
     Call("approve", "drop", FALSE),
     Call("approve", "value", TRUE)}

MCPrograms ==
    UNION ({[1..k -> Statements] : k \in 1..MaxLength}
              \cup {[1..k -> Pausing] : k \in 1..MaxPauses})
=============================================================================
