------------------------------ MODULE MCStyles ------------------------------
(***************************************************************************)
(* Snippets of up to MaxLength instructions in every call style: plain,    *)
(* kept for an await, tested by a loop, and all mixtures of them; and      *)
(* longer ones, of up to MaxBatches, in the awaited style.                 *)
(***************************************************************************)
EXTENDS AsyncProperties

CONSTANTS MaxLength, MaxBatches, MaxQuestions

Statement(op, tool, use, n, catch) ==
    [op |-> op, tool |-> tool, use |-> use, n |-> n, catch |-> catch]

Call(tool, use, n, catch) == Statement("call", tool, use, n, catch)

Statements ==
    {Statement("print", "read", "drop", 1, FALSE),
     Statement("await", "read", "drop", 1, TRUE),
     Statement("await", "read", "all", 1, FALSE),
     Statement("raise", "read", "drop", 1, TRUE),
     Call("read", "later", 1, FALSE),
     Call("read", "value", 1, TRUE),
     Call("read", "loop", 2, FALSE),
     Call("approve", "later", 1, FALSE),
     Call("approve", "drop", 1, FALSE),
     Call("flaky", "later", 1, FALSE),
     Call("unlisted", "later", 1, TRUE)}

Awaited ==
    {Statement("await", "read", "drop", 1, TRUE),
     Statement("await", "read", "all", 1, FALSE),
     Call("read", "later", 1, FALSE),
     Call("approve", "later", 1, FALSE),
     Call("flaky", "later", 1, FALSE)}

Batches(k) ==
    {p \in [1..k -> Awaited] :
        /\ p[k].op = "await"
        /\ Cardinality({i \in 1..k : p[i].tool = "approve"}) <= MaxQuestions}

MCPrograms ==
    UNION ({[1..k -> Statements] : k \in 1..MaxLength}
              \cup {Batches(k) : k \in 1..MaxBatches})
=============================================================================
