----------------------------- MODULE Interrupt -----------------------------
(***************************************************************************)
(* How an interrupt reaches the Python code of one session: UserCode,      *)
(* Delivery, DeferredCancel, ExecutionSink, SignalRouter and execute in    *)
(* src/py/src/python.rs, and ExecutionInterrupt in src/src/language.rs.    *)
(* The scheduler asks from its own thread, the session's event loop runs   *)
(* the cell on another, SIGINT arrives on the main thread, and a thread    *)
(* spawned for each request does what needs the GIL, whenever it gets it.  *)
(* User code is entered on the thread of the loop.                         *)
(***************************************************************************)
EXTENDS Naturals, FiniteSets

CONSTANTS
  Sessions,        \* the ways to interrupt that are modelled
  MaxExecutions,   \* bound: cells run one after the other
  MaxRequests,     \* bound: interrupts the clients ask for
  MaxForeign,      \* bound: SIGINTs from elsewhere, such as Ctrl-C
  MaxDepth         \* bound: nested user_code() blocks

(* The parent session runs on the main thread, which takes signals; a      *)
(* child has a thread of its own; a shell may have an interrupt() hook.    *)
SessionKinds == {"parent", "child", "hook"}

ASSUME InterruptAssumption ==
  /\ Sessions \subseteq SessionKinds
  /\ MaxExecutions \in Nat /\ MaxRequests \in Nat /\ MaxForeign \in Nat /\ MaxDepth \in Nat

Execution == 1 .. MaxExecutions
(* Delivery::request runs in the scheduler, and in `started` on the loop.  *)
Callers == {"scheduler", "task"}
Steps == {"rest", "store", "lock", "kill", "spawn"}
Places == {"idle", "queued", "starting", "registering", "outside", "inside", "await",
           "cancelled", "ended"}
(* The loop runs its callbacks when no task is between two awaits. *)
LoopFree == {"idle", "queued", "await", "cancelled", "ended"}
Endings == {"none", "ok", "stopped"}
Reports == {"none", "ok", "interrupted", "error"}

VARIABLES
  session,       \* the session's kind
  exec,          \* the latest execution; 0 before the first
  place,         \* where it is
  ending,        \* how its task ended: "stopped" is a KeyboardInterrupt or
                 \* CancelledError, raised or returned
  requested, registered,   \* its ExecutionInterrupt: the flag, and whether a
                           \* handler is set
  interrupted,   \* the flag of the same name in execute
  request,       \* how far each caller is in Delivery::request
  depth, pending, woken,   \* UserCode; `thread` is Some when depth > 0
  tripped,       \* SIGINT has arrived, its Python handler has not run yet
  spawned,       \* delivery threads without the GIL so far, per execution
  deferred,      \* DeferredCancels that wait in the loop, per execution
  injected,      \* PyThreadState_SetAsyncExc has set an exception
  notified,      \* the permit of KernelInterrupter
  requests, foreign,       \* what was used of the bounds
  asks, hits,    \* history: interrupts asked of the execution, and exceptions
                 \* raised in it for them
  owed,          \* history: the execution was asked to stop, and no exception
                 \* was raised in it since
  lost,          \* history: __exit__ has cleared an exception that was set
  outcome        \* history: what execute returned

flagVars == <<requested, registered, interrupted>>
codeVars == <<depth, pending, woken>>
wireVars == <<tripped, spawned, deferred, injected, notified>>
boundVars == <<requests, foreign>>
histVars == <<asks, hits, owed, lost, outcome>>
vars == <<session, exec, place, ending, flagVars, request, codeVars, wireVars, boundVars, histVars>>

Init ==
  /\ session \in Sessions
  /\ exec = 0 /\ place = "idle" /\ ending = "none"
  /\ requested = FALSE /\ registered = FALSE /\ interrupted = FALSE
  /\ request = [c \in Callers |-> "rest"]
  /\ depth = 0 /\ pending = FALSE /\ woken = FALSE
  /\ tripped = FALSE /\ injected = FALSE /\ notified = FALSE
  /\ spawned = [e \in Execution |-> 0] /\ deferred = [e \in Execution |-> 0]
  /\ requests = 0 /\ foreign = 0
  /\ asks = 0 /\ hits = 0 /\ owed = FALSE /\ lost = FALSE /\ outcome = "none"

(* An exception is raised in the running cell. *)
Raise ==
  /\ hits' = hits + 1 /\ owed' = FALSE
  /\ UNCHANGED <<asks, lost, outcome>>

-----------------------------------------------------------------------------
(* The execution: execute, and the task of _bridge.execute on the loop. *)

(* The scheduler has applied its controls and dispatches the next cell. *)
Begin ==
  /\ place = "idle" /\ exec < MaxExecutions /\ request["scheduler"] = "rest"
  /\ exec' = exec + 1 /\ place' = "queued" /\ ending' = "none"
  /\ requested' = FALSE /\ registered' = FALSE /\ interrupted' = FALSE
  /\ asks' = 0 /\ hits' = 0 /\ owed' = FALSE /\ lost' = FALSE /\ outcome' = "none"
  /\ UNCHANGED <<session, request, codeVars, wireVars, boundVars>>

(* `started`: what is left of an earlier execution's interrupt is dropped. *)
Started_Kept ==
  /\ place = "queued" /\ place' = "registering"
  /\ UNCHANGED <<session, exec, ending, flagVars, request, codeVars, wireVars, boundVars, histVars>>
Started ==
  /\ place = "queued" /\ place' = "registering"
  /\ pending' = FALSE
  /\ UNCHANGED <<session, exec, ending, flagVars, request, depth, woken, wireVars, boundVars,
                 histVars>>

(* ExecutionInterrupt::set_handler: an earlier request is made up for. *)
SetHandler_Missed ==
  /\ place = "registering" /\ place' = "starting" /\ registered' = TRUE
  /\ UNCHANGED <<session, exec, ending, requested, interrupted, request, codeVars, wireVars,
                 boundVars, histVars>>
SetHandler ==
  /\ place = "registering" /\ place' = "starting"
  /\ registered' = TRUE
  /\ request' = IF requested THEN [request EXCEPT !["task"] = "store"] ELSE request
  /\ UNCHANGED <<session, exec, ending, requested, interrupted, codeVars, wireVars, boundVars,
                 histVars>>

(* set_handler has returned, and the shell gets the code. *)
Launch ==
  /\ place = "starting" /\ request["task"] = "rest"
  /\ place' = "outside"
  /\ UNCHANGED <<session, exec, ending, flagVars, request, codeVars, wireVars, boundVars, histVars>>

(* __enter__: an interrupt that came before the block is raised at once. *)
EnterRaises ==
  /\ place \in {"outside", "inside"} /\ pending
  /\ pending' = FALSE
  /\ Raise
  /\ UNCHANGED <<session, exec, place, ending, flagVars, request, depth, woken, wireVars, boundVars>>
Enter ==
  /\ place \in {"outside", "inside"} /\ ~pending /\ depth < MaxDepth
  /\ place' = "inside" /\ depth' = depth + 1
  /\ UNCHANGED <<session, exec, ending, flagVars, request, pending, woken, wireVars, boundVars,
                 histVars>>

(* __exit__ clears an injected exception once the outermost block ends. *)
Exit ==
  /\ place = "inside"
  /\ depth' = depth - 1
  /\ place' = IF depth = 1 THEN "outside" ELSE "inside"
  /\ injected' = (injected /\ depth # 1)
  /\ lost' = (lost \/ (injected /\ depth = 1))
  /\ UNCHANGED <<session, exec, ending, flagVars, request, pending, woken, tripped, spawned, deferred,
                 notified, boundVars, asks, hits, owed, outcome>>

(* The cell awaits, and what it awaits comes, or it is cancelled. *)
Await ==
  /\ place = "outside" /\ place' = "await"
  /\ UNCHANGED <<session, exec, ending, flagVars, request, codeVars, wireVars, boundVars, histVars>>
Resume ==
  /\ place = "await" /\ place' = "outside"
  /\ UNCHANGED <<session, exec, ending, flagVars, request, codeVars, wireVars, boundVars, histVars>>
Cancelled ==
  /\ place = "cancelled" /\ place' = "outside"
  /\ Raise
  /\ UNCHANGED <<session, exec, ending, flagVars, request, codeVars, wireVars, boundVars>>

(* The task ends.  Code may raise these exceptions itself, or catch them.  *)
End(how) ==
  /\ place = "outside" /\ place' = "ended" /\ ending' = how
  /\ UNCHANGED <<session, exec, flagVars, request, codeVars, wireVars, boundVars, histVars>>

(* execute reads `interrupted` once the task's future is done, and turns   *)
(* an exception of an interrupted cell into an outcome of its own.         *)
Outcome ==
  CASE ending = "ok" -> "ok"
    [] ending = "stopped" /\ interrupted -> "interrupted"
    [] OTHER -> "error"
Report ==
  /\ place = "ended" /\ place' = "idle"
  /\ outcome' = Outcome
  /\ owed' = FALSE
  /\ UNCHANGED <<session, exec, ending, flagVars, request, codeVars, wireVars, boundVars, asks, hits,
                 lost>>

-----------------------------------------------------------------------------
(* Requests. *)

(* ExecutionInterrupt::request, called by the scheduler while a cell is    *)
(* active; the handler, if there is one by now, is called after the lock.  *)
Ask ==
  /\ place # "idle" /\ request["scheduler"] = "rest"
  /\ requested' = TRUE
  /\ request' = IF registered THEN [request EXCEPT !["scheduler"] = "store"] ELSE request
  /\ asks' = asks + 1
  /\ owed' = TRUE
  /\ UNCHANGED <<session, exec, place, ending, registered, interrupted, codeVars, tripped, spawned,
                 deferred, injected, foreign, hits, lost, outcome>>
ClientInterrupts == requests < MaxRequests /\ requests' = requests + 1 /\ notified' = notified /\ Ask

(* The kernel takes the permit of KernelInterrupter and asks every session *)
(* with a running cell.                                                    *)
KernelInterrupts ==
  /\ notified /\ notified' = FALSE /\ requests' = requests
  /\ \/ Ask
     \/ /\ place = "idle"
        /\ UNCHANGED <<session, exec, place, ending, flagVars, request, codeVars, tripped, spawned,
                       deferred, injected, foreign, histVars>>

(* Delivery::request, step by step. *)
Store_Dropped(c) ==
  /\ request[c] = "store"
  /\ request' = [request EXCEPT ![c] = IF session = "hook" THEN "spawn" ELSE "lock"]
  /\ UNCHANGED <<session, exec, place, ending, flagVars, codeVars, wireVars, boundVars, histVars>>
Store(c) ==
  /\ request[c] = "store"
  /\ interrupted' = TRUE
  /\ request' = [request EXCEPT ![c] = IF session = "hook" THEN "spawn" ELSE "lock"]
  /\ UNCHANGED <<session, exec, place, ending, requested, registered, codeVars, wireVars, boundVars,
                 histVars>>
Lock(c) ==
  /\ request[c] = "lock"
  /\ pending' = TRUE
  /\ LET main == depth > 0 /\ session = "parent" IN
       /\ woken' = (woken \/ main)
       /\ request' = [request EXCEPT ![c] = IF main THEN "kill" ELSE "spawn"]
  /\ UNCHANGED <<session, exec, place, ending, flagVars, depth, wireVars, boundVars, histVars>>
Kill(c) ==
  /\ request[c] = "kill"
  /\ tripped' = TRUE
  /\ request' = [request EXCEPT ![c] = "spawn"]
  /\ UNCHANGED <<session, exec, place, ending, flagVars, codeVars, spawned, deferred, injected,
                 notified, boundVars, histVars>>
Spawn(c) ==
  /\ request[c] = "spawn"
  /\ spawned' = [spawned EXCEPT ![exec] = @ + 1]
  /\ request' = [request EXCEPT ![c] = "rest"]
  /\ UNCHANGED <<session, exec, place, ending, flagVars, codeVars, tripped, deferred, injected,
                 notified, boundVars, histVars>>

(* A SIGINT that kernmini has not sent. *)
CtrlC ==
  /\ foreign < MaxForeign /\ foreign' = foreign + 1
  /\ tripped' = TRUE
  /\ UNCHANGED <<session, exec, place, ending, flagVars, request, codeVars, spawned, deferred, injected,
                 notified, requests, histVars>>

-----------------------------------------------------------------------------
(* Delivery. *)

(* SignalRouter::__call__, on the main thread; it shares the UserCode of   *)
(* the parent session.                                                     *)
Signalled ==
  /\ tripped
  /\ tripped' = FALSE
  /\ woken' = FALSE
  /\ notified' = (notified \/ ~woken)
  /\ IF woken /\ depth > 0 /\ pending
       THEN pending' = FALSE /\ Raise
       ELSE UNCHANGED <<pending, histVars>>
  /\ UNCHANGED <<session, exec, place, ending, flagVars, request, depth, spawned, deferred, injected,
                 boundVars>>

(* Delivery::deliver, once its thread has the GIL: interrupt() of the      *)
(* shell, which stops what the interpreter runs, ...                       *)
Hook(e) ==
  /\ session = "hook" /\ spawned[e] > 0
  /\ spawned' = [spawned EXCEPT ![e] = @ - 1]
  /\ IF place \in {"outside", "inside", "await"} THEN Raise ELSE UNCHANGED histVars
  /\ UNCHANGED <<session, exec, place, ending, flagVars, request, codeVars, tripped, deferred, injected,
                 notified, boundVars>>
(* ... or an exception set in user code off the main thread, and a         *)
(* DeferredCancel for the loop.                                            *)
Deliver(e) ==
  /\ session # "hook" /\ spawned[e] > 0
  /\ spawned' = [spawned EXCEPT ![e] = @ - 1]
  /\ deferred' = [deferred EXCEPT ![e] = @ + 1]
  /\ LET inject == depth > 0 /\ pending /\ session = "child" IN
       /\ injected' = (injected \/ inject)
       /\ pending' = (pending /\ ~inject)
  /\ UNCHANGED <<session, exec, place, ending, flagVars, request, depth, woken, tripped, notified,
                 boundVars, histVars>>

(* The thread looks at what was set, and raises it where it is. *)
Fire ==
  /\ injected /\ injected' = FALSE
  /\ Raise
  /\ UNCHANGED <<session, exec, place, ending, flagVars, request, codeVars, tripped, spawned, deferred,
                 notified, boundVars>>

(* DeferredCancel::__call__, in the loop. *)
TaskDone(e) == e < exec \/ place \in {"idle", "ended"}
RunDeferred(e) ==
  /\ place \in LoopFree /\ deferred[e] > 0
  /\ deferred' = [deferred EXCEPT ![e] = @ - 1]
  /\ IF ~TaskDone(e) /\ depth = 0 /\ pending
       THEN pending' = FALSE /\ place' = "cancelled"
       ELSE UNCHANGED <<pending, place>>
  /\ UNCHANGED <<session, exec, ending, flagVars, request, depth, woken, tripped, spawned, injected,
                 notified, boundVars, histVars>>

-----------------------------------------------------------------------------
UserStep == Enter \/ EnterRaises \/ Exit \/ Await \/ Resume \/ \E how \in {"ok", "stopped"} : End(how)
ShellStep == Started \/ SetHandler \/ Launch \/ Cancelled \/ Report
RequestStep(c) == Store(c) \/ Lock(c) \/ Kill(c) \/ Spawn(c)
DeliveryStep(e) == Hook(e) \/ Deliver(e)

Next ==
  \/ Begin \/ ShellStep \/ UserStep
  \/ ClientInterrupts \/ KernelInterrupts \/ CtrlC
  \/ \E c \in Callers : RequestStep(c)
  \/ Signalled \/ Fire
  \/ \E e \in Execution : DeliveryStep(e) \/ RunDeferred(e)

Spec == Init /\ [][Next]_vars

(* The runtime runs the kernel's loop and each request to its end, a       *)
(* thread gets the GIL in the end, Python looks at signals and at          *)
(* exceptions set for the thread, and the loop runs the callbacks that     *)
(* wait whenever it runs.  A cell may stay in a block or an await for      *)
(* ever, but code between them comes to the next block, await or end.      *)
Fairness ==
  /\ WF_vars(ShellStep) /\ WF_vars(place = "outside" /\ UserStep)
  /\ \A c \in Callers : WF_vars(RequestStep(c))
  /\ WF_vars(KernelInterrupts) /\ WF_vars(Signalled) /\ WF_vars(Fire)
  /\ \A e \in Execution : WF_vars(DeliveryStep(e)) /\ SF_vars(RunDeferred(e))

FairSpec == Spec /\ Fairness

-----------------------------------------------------------------------------
TypeOK ==
  /\ session \in Sessions /\ exec \in 0 .. MaxExecutions /\ place \in Places /\ ending \in Endings
  /\ requested \in BOOLEAN /\ registered \in BOOLEAN /\ interrupted \in BOOLEAN
  /\ request \in [Callers -> Steps]
  /\ depth \in 0 .. MaxDepth /\ pending \in BOOLEAN /\ woken \in BOOLEAN
  /\ tripped \in BOOLEAN /\ injected \in BOOLEAN /\ notified \in BOOLEAN
  /\ spawned \in [Execution -> Nat] /\ deferred \in [Execution -> Nat]
  /\ requests \in 0 .. MaxRequests /\ foreign \in 0 .. MaxForeign
  /\ asks \in Nat /\ hits \in Nat /\ owed \in BOOLEAN /\ lost \in BOOLEAN
  /\ outcome \in Reports

(* No execution gets more exceptions than interrupts were asked of it: a   *)
(* signal, a delivery thread or a DeferredCancel that is late neither      *)
(* raises a second time nor hits the next cell (UserCode::pending is taken *)
(* by whoever raises, and reset by `started`).                             *)
OwnInterrupt == session # "hook" => hits <= asks

(* The exception that Delivery::deliver sets for a child's thread is       *)
(* raised in user code or not at all: __exit__ leaves none behind.         *)
FiresInUserCode == [][Fire => place = "inside"]_vars

(* A cell that an interrupt has stopped is reported as interrupted, never  *)
(* as a failure of the language, and no other cell is: `interrupted` is    *)
(* stored before anything can raise.                                       *)
Reported ==
  (place = "idle" /\ session # "hook") =>
    /\ outcome = "error" => hits = 0
    /\ outcome = "interrupted" => asks > 0

(* An interrupt asked of an execution raises an exception in it before it  *)
(* ends, even in a cell that waits or computes for ever, and however it    *)
(* races with the registration of the handler and with blocks that begin   *)
(* and end.  The exception: a child's block that ends before what was set  *)
(* for its thread has fired.                                               *)
Delivered == (owed /\ session # "hook") ~> (~owed \/ (session = "child" /\ lost))
=============================================================================
