------------------------------ MODULE MCShell ------------------------------
(* Instances of Shell for TLC: the requests that clients send in each run. *)
EXTENDS Shell

Cell == [type |-> "execute", priority |-> 0, hold |-> FALSE, stop_on_error |-> TRUE,
         counted |-> TRUE, missing |-> FALSE, endless |-> FALSE]
Urgent(shape) == [shape EXCEPT !.priority = 1]
Hold == [Cell EXCEPT !.hold = TRUE]
Endless == [Cell EXCEPT !.endless = TRUE]
Uncounted == [Cell EXCEPT !.counted = FALSE, !.stop_on_error = FALSE]
Missing(shape) == [shape EXCEPT !.missing = TRUE]
Other(type) == [Cell EXCEPT !.type = type]

(* Cells and holds of two priorities, a cell that does not stop on error,  *)
(* and every kind of message the scheduler tells apart.                    *)
QueueShapes == {Cell, Urgent(Cell), Uncounted, Hold, Urgent(Hold), Missing(Cell)}
               \cup {Other(type) : type \in {"service", "comm", "other", "shutdown"}}

LiveShapes == {Cell, Endless, Hold, Other("service")}
=============================================================================
