---------------------------- MODULE ChildSession ----------------------------
(***************************************************************************)
(* The life of a child Python session and of the interpreter its shell     *)
(* keeps on a ThreadWorker: create_child, ChildReady, ChildLoop and        *)
(* PyLanguageSession::shutdown in src/py/src/python.rs, run_child_loop and *)
(* run_loop in src/kernmini/_bridge.py.  The shell is the documented one:  *)
(* its factory starts the worker, its cells call it and its shutdown() awaits*)
(* worker.shutdown().  The kernel may drop the future that creates the     *)
(* session, or the session, at any await.                                  *)
(***************************************************************************)
EXTENDS ThreadWorker

CONSTANT MaxExits    \* bound: SystemExits that undo a stop of the loop

ASSUME ChildAssumption ==
  "shell" \in Callers /\ MaxJobs \in Nat /\ MaxExits \in Nat

VARIABLES
  creator,     \* create_child: what it does and how it ended
  created,     \* what the oneshot of ChildReady holds
  session,     \* the PyLanguageSession the kernel holds
  eventLoop,   \* ChildLoop.event_loop is Some
  thread,      \* ChildLoop.thread: "none", "held" or "taken"
  child,       \* what the session's thread does
  stop,        \* loop.stop: "none", "posted" or "set"
  raised,      \* run_child_loop raises
  shutdown,    \* the coroutine that runs the shell's shutdown()
  exits        \* the SystemExits raised after loop.stop in its iteration

childVars == <<creator, created, session, eventLoop, thread, child, stop, raised, shutdown, exits>>
vars == <<workerVars, childVars>>

Init ==
  /\ WorkerInit
  /\ creator = "start" /\ created = "none" /\ session = "none"
  /\ eventLoop = FALSE /\ thread = "none" /\ child = "none"
  /\ stop = "none" /\ raised = FALSE /\ shutdown = "none" /\ exits = 0

(* ChildLoop::stop, by whoever comes first; call_soon_threadsafe fails on  *)
(* a loop that is closed.                                                  *)
StopLoop ==
  /\ eventLoop' = FALSE
  /\ stop' = IF eventLoop /\ child \in {"binding", "serving"} THEN "posted" ELSE stop

(* ChildLoop::drop, when its last reference goes. *)
DropLoop == StopLoop /\ thread' = IF thread = "held" THEN "taken" ELSE thread

-----------------------------------------------------------------------------
(* create_child, a future of the kernel. *)

SpawnChild ==
  /\ creator = "start" /\ creator' = "store"
  /\ child' = "factory"
  /\ UNCHANGED <<workerVars, created, session, eventLoop, thread, stop, raised, shutdown, exits>>

StoreThread ==
  /\ creator = "store" /\ creator' = "await"
  /\ thread' = "held"
  /\ UNCHANGED <<workerVars, created, session, eventLoop, child, stop, raised, shutdown, exits>>

Created ==
  /\ creator = "await" /\ created = "session"
  /\ creator' = "done" /\ session' = "live" /\ created' = "received"
  /\ UNCHANGED <<workerVars, eventLoop, thread, child, stop, raised, shutdown, exits>>

NotCreated ==
  /\ creator = "await" /\ created = "error"
  /\ creator' = "failed" /\ DropLoop
  /\ UNCHANGED <<workerVars, created, session, child, raised, shutdown, exits>>

(* The future is dropped, with the session its oneshot may hold; ChildReady *)
(* may hold the loop at that moment.                                       *)
AbandonCreation ==
  /\ creator = "await" /\ creator' = "dropped"
  /\ IF child = "binding" THEN UNCHANGED <<eventLoop, stop, thread>> ELSE DropLoop
  /\ UNCHANGED <<workerVars, created, session, child, raised, shutdown, exits>>

-----------------------------------------------------------------------------
(* The session's thread. *)

(* The factory: ThreadWorker.start is awaited; what it raises leaves       *)
(* run_child_loop.                                                         *)
StartsWorker ==
  /\ child = "factory" /\ Start("shell")
  /\ UNCHANGED childVars
FactoryFails ==
  /\ child = "factory" /\ (worker = "none" \/ started # "none")
  /\ child' = "closing" /\ raised' = TRUE
  /\ UNCHANGED <<workerVars, creator, created, session, eventLoop, thread, stop, shutdown, exits>>

(* ChildReady.__call__: the loop is upgraded from its weak reference. *)
Upgrade ==
  /\ child = "factory" /\ started = "ok"
  /\ IF creator \in {"store", "await"}
       THEN child' = "binding" /\ eventLoop' = TRUE /\ UNCHANGED raised
       ELSE child' = "closing" /\ raised' = TRUE /\ UNCHANGED eventLoop
  /\ UNCHANGED <<workerVars, creator, created, session, thread, stop, shutdown, exits>>

(* bind_shell raises, and the reference is dropped. *)
BindFails ==
  /\ child = "binding" /\ child' = "closing" /\ raised' = TRUE
  /\ IF creator \in {"store", "await"} THEN UNCHANGED <<eventLoop, stop, thread>> ELSE DropLoop
  /\ UNCHANGED <<workerVars, creator, created, session, shutdown, exits>>

(* The session is sent; nobody receives it when the future is gone: it is  *)
(* dropped here and the loop stopped before it runs.                       *)
Ready_Kept ==
  /\ child = "binding" /\ child' = "serving"
  /\ created' = "session"
  /\ UNCHANGED <<workerVars, creator, session, eventLoop, thread, stop, raised, shutdown, exits>>
Ready ==
  /\ child = "binding" /\ child' = "serving"
  /\ IF creator \in {"store", "await"}
       THEN created' = "session" /\ UNCHANGED <<eventLoop, stop, thread>>
       ELSE /\ created' = "received" /\ eventLoop' = FALSE /\ stop' = "set"
            /\ thread' = IF thread = "held" THEN "taken" ELSE thread
  /\ UNCHANGED <<workerVars, creator, session, raised, shutdown, exits>>

(* Tasks of the loop call the worker; a task may be cancelled. *)
TaskCalls(c) ==
  /\ child = "serving" /\ Len(sent) + 1 < MaxJobs /\ Call(c, "call")
  /\ UNCHANGED childVars
TaskGoesOn(c) ==
  /\ child = "serving" /\ (Return(c) \/ Cancel(c))
  /\ UNCHANGED childVars

(* The shell's shutdown(): it may raise, or awaits worker.shutdown(). *)
ShellStops ==
  /\ child = "serving" /\ shutdown = "asked"
  /\ \/ shutdown' = "called" /\ Call("shell", "stop")
     \/ shutdown' = "error" /\ UNCHANGED workerVars
  /\ UNCHANGED <<creator, created, session, eventLoop, thread, child, stop, raised, exits>>
ShellStopped ==
  /\ child = "serving" /\ shutdown = "called"
  /\ shutdown' = IF call["shell"] = "ok" THEN "ok" ELSE "error"
  /\ Return("shell")
  /\ UNCHANGED <<creator, created, session, eventLoop, thread, child, stop, raised, exits>>

(* The callback loop.stop runs; the iteration ends and run_forever returns. *)
LoopStops ==
  /\ child = "serving" /\ stop = "posted" /\ stop' = "set"
  /\ UNCHANGED <<workerVars, creator, created, session, eventLoop, thread, child, raised, shutdown, exits>>
LoopEnds ==
  /\ child = "serving" /\ stop = "set" /\ child' = "closing"
  /\ UNCHANGED <<workerVars, creator, created, session, eventLoop, thread, stop, raised, shutdown, exits>>

(* A task raises SystemExit later in that iteration: asyncio forgets the   *)
(* stop as run_forever is left, and run_loop enters it again.              *)
LateExit ==
  /\ child = "serving" /\ stop = "set" /\ exits < MaxExits
  /\ exits' = exits + 1 /\ stop' = "none"
  /\ UNCHANGED <<workerVars, creator, created, session, eventLoop, thread, child, raised, shutdown>>

(* The runner cancels the tasks and closes the loop; the thread reports a  *)
(* failure if ChildReady has not taken the sender.                         *)
Close_Silently ==
  /\ child = "closing" /\ child' = "ended"
  /\ call' = [c \in Callers |-> "idle"] /\ job' = [c \in Callers |-> NoJob]
  /\ shutdown' = IF shutdown \in {"asked", "called"} THEN "error" ELSE shutdown
  /\ UNCHANGED <<worker, interpreter, started, jobs, handles, sent, fate>>
  /\ UNCHANGED <<creator, created, session, eventLoop, thread, stop, raised, exits>>
Close ==
  /\ child = "closing" /\ child' = "ended"
  /\ call' = [c \in Callers |-> "idle"] /\ job' = [c \in Callers |-> NoJob]
  /\ shutdown' = IF shutdown \in {"asked", "called"} THEN "error" ELSE shutdown
  /\ created' = IF raised /\ created = "none" THEN "error" ELSE created
  /\ UNCHANGED <<worker, interpreter, started, jobs, handles, sent, fate>>
  /\ UNCHANGED <<creator, session, eventLoop, thread, stop, raised, exits>>

(* The last reference to the shell is gone, and with it the worker's handle. *)
ShellDropped ==
  /\ child = "ended" /\ session \in {"none", "gone"} /\ creator \notin {"store", "await"}
  /\ Release("shell")
  /\ UNCHANGED childVars

-----------------------------------------------------------------------------
(* The kernel. *)

(* PyLanguageSession::shutdown, then ChildLoop::shutdown whatever it gave. *)
Shutdown ==
  /\ session = "live" /\ session' = "stopping" /\ shutdown' = "asked"
  /\ UNCHANGED <<workerVars, creator, created, eventLoop, thread, child, stop, raised, exits>>
StopAndJoin ==
  /\ session = "stopping" /\ shutdown \in {"ok", "error"}
  /\ session' = "joining" /\ DropLoop
  /\ UNCHANGED <<workerVars, creator, created, child, raised, shutdown, exits>>
Joined ==
  /\ session = "joining" /\ child = "ended" /\ session' = "down"
  /\ UNCHANGED <<workerVars, creator, created, eventLoop, thread, child, stop, raised, shutdown, exits>>

DropSession ==
  /\ session \in {"live", "stopping", "joining", "down"} /\ session' = "gone" /\ DropLoop
  /\ UNCHANGED <<workerVars, creator, created, child, raised, shutdown, exits>>

-----------------------------------------------------------------------------
Tasks == Callers \ {"shell"}

ChildNext ==
  \/ StartsWorker \/ FactoryFails \/ Upgrade \/ BindFails \/ Ready
  \/ ShellStops \/ ShellStopped \/ LoopStops \/ LoopEnds \/ LateExit \/ Close

Next ==
  \/ SpawnChild \/ StoreThread \/ Created \/ NotCreated \/ AbandonCreation
  \/ ChildNext \/ ShellDropped
  \/ \E c \in Tasks : TaskCalls(c) \/ TaskGoesOn(c)
  \/ Shutdown \/ StopAndJoin \/ Joined \/ DropSession
  \/ WorkerNext /\ UNCHANGED childVars

Spec == Init /\ [][Next]_vars

(* Threads run, futures that are ready are polled, and a session that was  *)
(* shut down is dropped by the actor that ends.                            *)
FairSpec ==
  /\ Spec
  /\ WF_vars(SpawnChild \/ StoreThread \/ Created \/ NotCreated)
  /\ WF_vars(ChildNext) /\ WF_vars(LoopStops) /\ WF_vars(ShellDropped)
  /\ WF_vars(StopAndJoin \/ Joined \/ (session = "down" /\ DropSession))
  /\ WF_vars(WorkerNext /\ UNCHANGED childVars)

-----------------------------------------------------------------------------
TypeOK ==
  /\ WorkerTypeOK
  /\ creator \in {"start", "store", "await", "done", "failed", "dropped"}
  /\ created \in {"none", "session", "received", "error"}
  /\ session \in {"none", "live", "stopping", "joining", "down", "gone"}
  /\ eventLoop \in BOOLEAN /\ thread \in {"none", "held", "taken"}
  /\ child \in {"none", "factory", "binding", "serving", "closing", "ended"}
  /\ stop \in {"none", "posted", "set"} /\ raised \in BOOLEAN
  /\ shutdown \in {"none", "asked", "called", "ok", "error"} /\ exits \in 0 .. MaxExits

(* No answer promises more than has happened: neither one of the worker's, *)
(* nor that of a session's shutdown, which has seen the thread end and, if *)
(* it is Ok, the interpreter dropped on a worker that runs no job any more.*)
AnswersTrue ==
  /\ \A c \in Callers : TrueAnswer(c)
  /\ session = "down" => child = "ended"
  /\ session = "down" /\ shutdown = "ok" =>
       interpreter = "dropped" /\ worker \in {"leaving", "ended"}

(* create_child returns: with the session, or with the error of a factory, *)
(* a worker or a binding that failed.                                      *)
CreationAnswered == creator = "await" ~> creator # "await"

(* Nothing is left running: a session that is shut down or dropped at any  *)
(* await, one that could not be created and one whose creation was given   *)
(* up all come to a point where its thread and that of its worker have     *)
(* ended.  The one way out is a SystemExit raised by a task after loop.stop *)
(* has run in the same iteration: run_loop then enters the loop again, and *)
(* ChildLoop posts no second stop.                                         *)
NothingLeft ==
  (session \in {"stopping", "gone"} \/ creator \in {"failed", "dropped"}) ~>
    \/ child = "ended" /\ worker \in {"none", "ended"}
    \/ exits > 0
=============================================================================
