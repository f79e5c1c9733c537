------------------------------ MODULE MCKernel ------------------------------
(* Instances of Kernel for TLC: the requests that clients send in each run. *)
EXTENDS Kernel

Plain(c) == [type |-> "execute", client |-> c, id |-> Parent, uses |-> "none", endless |-> FALSE]
Uses(shape, manager) == [shape EXCEPT !.uses = manager]
Endless(shape) == [shape EXCEPT !.endless = TRUE]
At(shape, id) == [shape EXCEPT !.id = id]
Other(shape, type) == [shape EXCEPT !.type = type]
Ctl(type) == [type |-> type, id |-> Parent]

(* Two clients; one opens routes from its cells, the other names sessions. *)
RouteShapes == {Plain("a"), Uses(Plain("a"), "subshell"), Uses(Plain("b"), "sidecar"), At(Plain("b"), Sidecar),
                At(Plain("a"), 2)}
RouteControls == {[type |-> "delete", id |-> Sidecar], [type |-> "create", id |-> Sidecar], Ctl("create"),
                  [type |-> "delete", id |-> 2], Ctl("interrupt"), Ctl("SIGINT")}

(* Cells that end and cells that do not, a service, and a session that is  *)
(* shut down through the shell channel.                                    *)
LiveShapes == {Uses(Plain("a"), "subshell"), Other(Plain("a"), "service"),
               Endless(At(Plain("a"), Sidecar)), Other(At(Plain("a"), Sidecar), "shutdown")}
LiveControls == {Ctl("release"), Ctl("interrupt"), Ctl("shutdown"), Ctl("SIGTERM"), Ctl("other"),
                 Ctl("delete"), [type |-> "delete", id |-> 2]}

DeadlockShapes == {Uses(Plain("a"), "subshell"), Other(Plain("a"), "service")}
OnlyRelease == {Ctl("release")}
=============================================================================
