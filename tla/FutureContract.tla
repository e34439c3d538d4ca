--------------------------- MODULE FutureContract ---------------------------
(***************************************************************************)
(* What either driver promises about host calls in one leg, whatever style *)
(* the code is written in: a call answered with a future is owed to the    *)
(* sandbox until its tool has run; each tool runs at most once; the        *)
(* sandbox is given results only of tools that ran; and calls still owed   *)
(* may be forgotten only to start again before anything ran, or at the     *)
(* leg's end.  Nothing is said about order, so tools may run concurrently. *)
(***************************************************************************)
VARIABLES open,   \* the leg is at work
          owed,   \* calls answered with a future that is unresolved
          acted   \* calls whose tool has run in this leg

vars == <<open, owed, acted>>

Init == open = FALSE /\ owed = {} /\ acted = {}

Begin == ~ open /\ open' = TRUE /\ owed' = {} /\ acted' = {}

Promise(s) ==
    /\ open /\ s \notin owed \cup acted
    /\ owed' = owed \cup {s} /\ UNCHANGED <<open, acted>>

\* The tool runs, owed or called on the spot
Run(s) ==
    /\ open /\ s \notin acted
    /\ acted' = acted \cup {s} /\ UNCHANGED <<open, owed>>

Deliver(results) ==
    /\ open /\ results \subseteq owed \cap acted
    /\ owed' = owed \ results /\ UNCHANGED <<open, acted>>

StartAgain == open /\ acted = {} /\ owed' = {} /\ UNCHANGED <<open, acted>>

End == open /\ open' = FALSE /\ owed' = {} /\ acted' = {}

Next ==
    \/ Begin \/ StartAgain \/ End
    \/ \E s \in owed' : Promise(s)
    \/ \E s \in acted' : Run(s)
    \/ Deliver(owed \ owed')

Spec == Init /\ [][Next]_vars
=============================================================================
