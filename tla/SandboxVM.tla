----------------------------- MODULE SandboxVM -----------------------------
(***************************************************************************)
(* The Monty interpreter as the driver sees it.  pydantic-monty is not     *)
(* part of the repository, so everything here is external: it is the       *)
(* feed/resume protocol that middleware/_driver.py relies on.              *)
(*                                                                         *)
(* Sandbox code is a straight list of instructions, which is enough to     *)
(* tell apart the call styles the driver has to cope with: what the code   *)
(* does with the result of a host call is the "use" of the call.           *)
(***************************************************************************)
EXTENDS Naturals, Sequences

CONSTANTS Tools,    \* every name sandbox code may call as a host function
          Programs  \* the snippets under consideration

Ops == {"print", "name", "os", "call", "await", "raise"}

(***************************************************************************)
(* What becomes of a host call's result:                                   *)
(*   drop    it is ignored                                                 *)
(*   value   it is used at once as a plain value; a future raises          *)
(*   loop    `while tool() != "done": pass`; the n-th real result ends the *)
(*           loop, a future never does because it equals no value          *)
(*   later   it is kept for the next await                                 *)
(* The outcome of an OS call is its use: serviced, raises or declined.     *)
(* A FutureSnapshot lists the futures that are awaited, or all that are    *)
(* unresolved: that is Monty's business, and the use of the await.         *)
(***************************************************************************)
Uses == {"drop", "value", "loop", "later", "serviced", "raises", "declined",
         "all"}

\* catch: the instruction sits in a try/except that swallows any exception
Instrs == [op : Ops, tool : Tools, use : Uses, n : Nat, catch : BOOLEAN]

ASSUME ProgramsAreCode == Programs \subseteq Seq(Instrs)

\* A host call is identified by its place in the code and, in a loop, its turn
Sites == Nat \X Nat

Earlier(s, t) == s[1] < t[1] \/ (s[1] = t[1] /\ s[2] < t[2])

\* What the driver hands over for a call: whose tool it comes from, which stands
\* for the value or the exception itself, and whether it is an exception
Payloads == [of : Sites, raised : BOOLEAN]

\* The progress types: FunctionSnapshot is "os" or "call", FutureSnapshot is
\* "await"; "error" stands for a MontyError raised out of feed or resume
Modes == {"run", "name", "os", "call", "await", "complete", "error"}

VMs == [pc : Nat \ {0}, iter : Nat, at : Modes,
        held : SUBSET Sites,      \* results the code keeps for its next await
        futures : SUBSET Sites,   \* calls answered with an unresolved future
        pending : SUBSET Sites,   \* pending_call_ids of a FutureSnapshot
        given : SUBSET (Sites \X Payloads)]   \* what its futures came to

VARIABLES prog,    \* the submitted code
          vm,      \* the interpreter, which is also what dump() saves
          stdout   \* the text given to print_callback, one entry per print

FreshVM == [pc |-> 1, iter |-> 0, at |-> "run",
            held |-> {}, futures |-> {}, pending |-> {}, given |-> {}]

Site(v) == <<v.pc, v.iter>>

Code(v) == prog[v.pc]

Advance(v) == [v EXCEPT !.pc = v.pc + 1, !.iter = 0, !.at = "run"]

\* An exception in the sandbox: swallowed by the snippet or a MontyError
Throw(v) == IF Code(v).catch THEN Advance(v) ELSE [v EXCEPT !.at = "error"]

LoopAgain(v) == [v EXCEPT !.iter = v.iter + 1, !.at = "run"]

Keep(v) == [v EXCEPT !.held = @ \cup {Site(v)}]

Loops(v) == Code(v).use = "loop"

\* resume({"return_value": ...})
ReturnValue(v) ==
    IF Loops(v) /\ v.iter + 1 < Code(v).n THEN LoopAgain(v)
    ELSE IF Code(v).use = "later" THEN Advance(Keep(v))
    ELSE Advance(v)

\* resume({"future": ...})
ReturnFuture(v) ==
    LET w == [v EXCEPT !.futures = @ \cup {Site(v)}]
    IN  IF Loops(v) THEN LoopAgain(w)
        ELSE IF Code(v).use = "later" THEN Advance(Keep(w))
        ELSE IF Code(v).use = "value" THEN Throw(w)
        ELSE Advance(w)

\* resume(results) of a FutureSnapshot: the payload under the id of each pending
\* call is what its future comes to; an awaited one that raised raises
ResolveFutures(v, results) ==
    LET w == [v EXCEPT !.futures = @ \ v.pending, !.pending = {}, !.held = {},
                       !.given = @ \cup {<<s, results[s]>> : s \in v.pending}]
    IN  IF \E s \in v.held : results[s].raised THEN Throw(w) ELSE Advance(w)

----------------------------------------------------------------------------
(***************************************************************************)
(* What the interpreter does by itself between two suspensions.            *)
(***************************************************************************)
Running == vm.at = "run" /\ vm.pc <= Len(prog)

VmPrint ==
    /\ Running /\ Code(vm).op = "print"
    /\ vm' = Advance(vm)
    /\ stdout' = Append(stdout, vm.pc)

VmRaise ==
    /\ Running /\ Code(vm).op = "raise"
    /\ vm' = Throw(vm)
    /\ UNCHANGED stdout

VmSuspend ==
    /\ Running /\ Code(vm).op \in {"name", "os", "call"}
    /\ vm' = [vm EXCEPT !.at = Code(vm).op]
    /\ UNCHANGED stdout

\* Awaiting futures suspends, awaiting nothing goes on, and awaiting a plain
\* value is a TypeError.
VmAwait ==
    /\ Running /\ Code(vm).op = "await"
    /\ \/ /\ vm.held = {}
          /\ vm' = Advance(vm)
       \/ /\ vm.held # {} /\ vm.held \subseteq vm.futures
          /\ vm' = [vm EXCEPT !.at = "await",
                              !.pending = IF Code(vm).use = "all"
                                          THEN vm.futures ELSE vm.held]
       \/ /\ ~ (vm.held \subseteq vm.futures)
          /\ vm' = Throw([vm EXCEPT !.held = {}])
    /\ UNCHANGED stdout

VmComplete ==
    /\ vm.at = "run" /\ vm.pc > Len(prog)
    /\ vm' = [vm EXCEPT !.at = "complete"]
    /\ UNCHANGED stdout

VmStep == VmPrint \/ VmRaise \/ VmSuspend \/ VmAwait \/ VmComplete
=============================================================================
