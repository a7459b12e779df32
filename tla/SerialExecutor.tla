--------------------------- MODULE SerialExecutor ---------------------------
(***************************************************************************)
(* What the queue of validation callbacks promises: callbacks are numbered *)
(* in the order in which they are added, they start in that order, and a   *)
(* callback starts only after the one before it has finished.              *)
(***************************************************************************)
EXTENDS Naturals, Sequences

VARIABLES submitted,   \* number of callbacks added
          waiting,     \* callbacks added and not started, oldest first
          executing    \* the callbacks being executed

vars == <<submitted, waiting, executing>>

Init == submitted = 0 /\ waiting = <<>> /\ executing = {}

Submit == /\ submitted' = submitted + 1 /\ waiting' = Append(waiting, submitted + 1)
          /\ UNCHANGED executing

Start == /\ executing = {} /\ waiting # <<>>
         /\ executing' = {Head(waiting)} /\ waiting' = Tail(waiting)
         /\ UNCHANGED submitted

Finish == executing # {} /\ executing' = {} /\ UNCHANGED <<submitted, waiting>>

Next == Submit \/ Start \/ Finish

Spec == Init /\ [][Next]_vars
=============================================================================
