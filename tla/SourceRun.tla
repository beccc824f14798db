----------------------------- MODULE SourceRun -----------------------------
(***************************************************************************)
(* What running a program promises to whoever watches its output: it       *)
(* prints the lines the source means, in order and nothing else, and then  *)
(* it ends.                                                                *)
(***************************************************************************)
EXTENDS Integers, Sequences

VARIABLES
  promise,   \* the lines the program is to print
  printed,   \* the lines printed so far
  ended      \* whether the run is over

vars == <<promise, printed, ended>>

Init == /\ promise \in Seq(Int)
        /\ printed = <<>>
        /\ ended = FALSE

PrintLine == /\ ~ended
             /\ Len(printed) < Len(promise)
             /\ printed' = Append(printed, promise[Len(printed) + 1])
             /\ UNCHANGED <<promise, ended>>

End == /\ ~ended
       /\ printed = promise
       /\ ended' = TRUE
       /\ UNCHANGED <<promise, printed>>

Next == PrintLine \/ End

(* A run does not stop short: the next line comes, and after the last one  *)
(* the end.                                                                *)

Spec == Init /\ [][Next]_vars /\ WF_vars(Next)
=============================================================================
