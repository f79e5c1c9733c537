---------------------------- MODULE ThreadWorker ----------------------------
(***************************************************************************)
(* A synchronous interpreter on a thread of its own: ThreadWorker in       *)
(* src/src/thread_worker.rs and its Python class in                        *)
(* src/py/src/python_worker.rs.  Tasks send jobs through an unbounded      *)
(* channel and await a oneshot; the thread creates the interpreter, runs   *)
(* the jobs one after the other, and drops it.  What a job computes is     *)
(* left out; a job may panic, and the future that awaits it may be dropped.*)
(***************************************************************************)
EXTENDS Naturals, Sequences

CONSTANTS
  Callers,     \* the tasks that use the worker
  MaxJobs      \* bound: calls and shutdowns

VARIABLES
  worker,      \* what the thread does: "none" before it is spawned
  interpreter, \* "none", "live" or "dropped"
  started,     \* the answer of ThreadWorker::start
  jobs,        \* the channel
  call,        \* of each caller: its await and how it ended
  job,         \* the number of the job it awaits
  handles,     \* the holders of a ThreadWorker
  sent,        \* history: the type of each job sent
  fate         \* history: what became of each job

workerVars == <<worker, interpreter, started, jobs, call, job, handles, sent, fate>>

NoJob == 0
Job == 1 .. MaxJobs
Alive == worker \in {"creating", "ready", "running", "dropping", "leaving"}

WorkerInit ==
  /\ worker = "none" /\ interpreter = "none" /\ started = "none"
  /\ jobs = <<>> /\ sent = <<>> /\ handles = {}
  /\ call = [c \in Callers |-> "idle"] /\ job = [c \in Callers |-> NoJob]
  /\ fate = [j \in Job |-> "none"]

Answered(j, answer) ==
  [c \in Callers |-> IF call[c] = "waiting" /\ job[c] = j THEN answer ELSE call[c]]

-----------------------------------------------------------------------------
(* The thread. *)

(* ThreadWorker::start: the future that runs it holds the first handle.    *)
Start(h) ==
  /\ worker = "none" /\ worker' = "creating" /\ handles' = {h}
  /\ UNCHANGED <<interpreter, started, jobs, call, job, sent, fate>>

(* create returns, and `start` answers with a handle or with an error: the *)
(* one create returned, or that of the sender a panic has dropped.         *)
Create ==
  /\ worker = "creating" /\ worker' = "ready"
  /\ interpreter' = "live" /\ started' = "ok"
  /\ UNCHANGED <<jobs, call, job, handles, sent, fate>>
CreateFails ==
  /\ worker = "creating" /\ worker' = "ended"
  /\ started' = "error" /\ handles' = {}
  /\ UNCHANGED <<interpreter, jobs, call, job, sent, fate>>

(* receive.recv() gives a job, or an error when all handles are dropped;   *)
(* who waits for an answer holds one.                                      *)
Receive ==
  /\ worker = "ready" /\ jobs # <<>>
  /\ worker' = IF sent[Head(jobs)] = "stop" THEN "dropping" ELSE "running"
  /\ fate' = [fate EXCEPT ![Head(jobs)] = "begun"]
  /\ UNCHANGED <<interpreter, started, jobs, call, job, handles, sent>>
Disconnected ==
  /\ worker = "ready" /\ jobs = <<>> /\ handles = {}
  /\ worker' = "leaving"
  /\ UNCHANGED <<interpreter, started, jobs, call, job, handles, sent, fate>>

(* The call has returned and its answer is sent, if somebody waits; or it  *)
(* panics, and its sender is dropped.                                      *)
Ran ==
  /\ worker = "running" /\ worker' = "ready"
  /\ jobs' = Tail(jobs)
  /\ fate' = [fate EXCEPT ![Head(jobs)] = "ran"]
  /\ call' = Answered(Head(jobs), "ok")
  /\ UNCHANGED <<interpreter, started, job, handles, sent>>
Panics ==
  /\ worker = "running" /\ worker' = "leaving"
  /\ jobs' = Tail(jobs)
  /\ fate' = [fate EXCEPT ![Head(jobs)] = "panicked"]
  /\ call' = Answered(Head(jobs), "closed")
  /\ UNCHANGED <<interpreter, started, job, handles, sent>>

(* Job::Stop: the interpreter is dropped, then the answer sent. *)
DropState ==
  /\ worker = "dropping" /\ interpreter = "live"
  /\ interpreter' = "dropped"
  /\ UNCHANGED <<worker, started, jobs, call, job, handles, sent, fate>>
Stopped_First ==
  /\ worker = "dropping" /\ worker' = "leaving"
  /\ jobs' = Tail(jobs)
  /\ fate' = [fate EXCEPT ![Head(jobs)] = "ran"]
  /\ call' = Answered(Head(jobs), "ok")
  /\ UNCHANGED <<interpreter, started, job, handles, sent>>
Stopped == interpreter = "dropped" /\ Stopped_First

(* The thread's function ends: what is left of its state and the receiver  *)
(* are dropped, with the senders of the answers to the jobs in it.         *)
Leave_Silently ==
  /\ worker = "leaving" /\ worker' = "ended"
  /\ interpreter' = "dropped" /\ jobs' = <<>>
  /\ UNCHANGED <<started, call, job, handles, sent, fate>>
Leave ==
  /\ worker = "leaving" /\ worker' = "ended"
  /\ interpreter' = "dropped" /\ jobs' = <<>>
  /\ call' = [c \in Callers |-> IF call[c] = "waiting" THEN "closed" ELSE call[c]]
  /\ UNCHANGED <<started, job, handles, sent, fate>>

-----------------------------------------------------------------------------
(* Callers. *)

(* ThreadWorker::call and shutdown; the channel refuses a job once the     *)
(* receiver is gone.                                                       *)
Call(c, type) ==
  /\ call[c] = "idle" /\ Len(sent) < MaxJobs
  /\ IF Alive
       THEN /\ sent' = Append(sent, type)
            /\ jobs' = Append(jobs, Len(sent'))
            /\ job' = [job EXCEPT ![c] = Len(sent')]
            /\ call' = [call EXCEPT ![c] = "waiting"]
       ELSE call' = [call EXCEPT ![c] = "closed"] /\ UNCHANGED <<sent, jobs, job>>
  /\ UNCHANGED <<worker, interpreter, started, handles, fate>>

(* The caller goes on; or its future is dropped, and the job stays.        *)
Return(c) ==
  /\ call[c] \in {"ok", "closed"}
  /\ call' = [call EXCEPT ![c] = "idle"] /\ job' = [job EXCEPT ![c] = NoJob]
  /\ UNCHANGED <<worker, interpreter, started, jobs, handles, sent, fate>>
Cancel(c) ==
  /\ call[c] = "waiting"
  /\ call' = [call EXCEPT ![c] = "idle"] /\ job' = [job EXCEPT ![c] = NoJob]
  /\ UNCHANGED <<worker, interpreter, started, jobs, handles, sent, fate>>

Release(h) ==
  /\ h \in handles /\ handles' = handles \ {h}
  /\ UNCHANGED <<worker, interpreter, started, jobs, call, job, sent, fate>>

-----------------------------------------------------------------------------
WorkerNext ==
  \/ Create \/ CreateFails \/ Receive \/ Disconnected \/ Ran \/ Panics
  \/ DropState \/ Stopped \/ Leave

WorkerTypeOK ==
  /\ worker \in {"none", "creating", "ready", "running", "dropping", "leaving", "ended"}
  /\ interpreter \in {"none", "live", "dropped"} /\ started \in {"none", "ok", "error"}
  /\ jobs \in Seq(Job) /\ sent \in Seq({"call", "stop"}) /\ Len(sent) <= MaxJobs
  /\ call \in [Callers -> {"idle", "waiting", "ok", "closed"}] /\ job \in [Callers -> Job \cup {NoJob}]
  /\ fate \in [Job -> {"none", "begun", "ran", "panicked"}]

(* An answer is true: a call that returned its result was run to the end,  *)
(* one that returned Closed was never begun or has panicked, and a         *)
(* shutdown that returned has seen the interpreter dropped and every       *)
(* earlier job done.                                                       *)
TrueAnswer(c) ==
  job[c] # NoJob =>
    /\ call[c] = "ok" => fate[job[c]] = "ran"
    /\ call[c] = "closed" => fate[job[c]] \in {"none", "panicked"}
    /\ call[c] = "ok" /\ sent[job[c]] = "stop" =>
         interpreter = "dropped" /\ \A j \in 1 .. job[c] : fate[j] = "ran"

(* Every call and every shutdown returns, with whatever the worker was     *)
(* doing when its thread stopped or panicked: no answer is left in the     *)
(* channel of a thread that is gone.                                       *)
CallsReturn == \A c \in Callers : call[c] = "waiting" ~> call[c] # "waiting"
=============================================================================
