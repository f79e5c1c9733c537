------------------------------- MODULE Shell -------------------------------
(***************************************************************************)
(* The scheduler of one language session (`Shell` in src/src/engine.rs)    *)
(* and the execution task it spawns.  Four parties take steps:             *)
(*   - clients, whose requests the kernel routes into `incoming`;          *)
(*   - the kernel's main loop, which sends Release, Interrupt and Stop     *)
(*     through `controls`;                                                 *)
(*   - the scheduler task, whose loop is cut at its await points by `pc`;  *)
(*   - the execution task of the active execute_request.                   *)
(* A message is the number of its arrival, 1 the first; 0 is no message.   *)
(***************************************************************************)
EXTENDS Integers, Sequences

CONSTANTS
  Shapes,            \* the requests that clients send, a subset of Request
  MaxRequests,       \* bound: requests sent to this session
  MaxControls,       \* bound: Release and Interrupt controls sent to it
  IncomingCapacity,  \* capacity of the request channel (256 in the code)
  ServicesWait,      \* TRUE when the language serves requests on the thread
                     \* that runs its cells, as the Python adapter does
  Faults             \* TRUE when the language or its interrupt handler may fail

MsgId == 1 .. MaxRequests
NoMsg == 0
NoCount == -1   \* a reply that reports no execution count

(* What the scheduler looks at in a message.  "service" is a request that  *)
(* reports busy and idle and calls the language; "plain" is answered       *)
(* without it; "comm" calls it and has no reply; "other" is ignored.       *)
Request == [type : {"execute", "service", "comm_info", "comm", "plain", "other", "shutdown"},
            priority : Int, hold : BOOLEAN, stop_on_error : BOOLEAN,
            counted : BOOLEAN,   \* store_history and not silent
            missing : BOOLEAN,   \* a required field is absent
            endless : BOOLEAN]   \* the cell ends only when interrupted

ASSUME ShellAssumption ==
  /\ Shapes \subseteq Request /\ Shapes # {}
  /\ MaxRequests \in Nat /\ MaxControls \in Nat
  /\ IncomingCapacity \in Nat \ {0}
  /\ ServicesWait \in BOOLEAN /\ Faults \in BOOLEAN

VARIABLES
  sent, request,     \* how many requests were sent, and what each one is
  kernel,            \* what the kernel may do: "free", "awaiting" a Release's
                     \* answer, "stopped" (it gave the handle up) or "gone"
  budget,            \* controls the kernel may still send
  incoming, controls,
  pc, sweep,         \* where the scheduler is; the abort_pending it owes
  queue, order, held, serving,
  stopping, interrupting, execution_count,
  active, task,      \* the active execution and how far its task is
  requested,         \* the executions whose ExecutionInterrupt was requested
  reply, published,  \* what clients see: the reply, and busy or idle
  cause, swept, doomed, dropped  \* history, read by the properties only

clientVars    == <<sent, request>>
kernelVars    == <<kernel, budget>>
schedulerVars == <<queue, order, held, serving, stopping, interrupting, execution_count>>
executionVars == <<active, task, requested>>
outputVars    == <<reply, published, cause>>
historyVars   == <<swept, doomed, dropped>>
rest == <<clientVars, kernelVars, incoming, controls, sweep, schedulerVars, executionVars,
          outputVars, historyVars>>
vars == <<pc, rest>>

Control == [type : {"release", "interrupt", "stop"}, msg : 0 .. MaxRequests,
            status : {"ok", "error"}, upto : 0 .. MaxRequests]
Statuses == {"none", "ok", "error", "aborted", "interrupted", "unanswered"}
Replies == [MsgId -> [status : Statuses, count : Nat \cup {NoCount}]]
Published == [MsgId -> {"none", "busy", "idle"}]
Sweeps == [cause : 0 .. MaxRequests, next : {"drain", "controls", "dispatch"},
           answers : BOOLEAN, upto : 0 .. MaxRequests]
NoSweep == [cause |-> NoMsg, next |-> "drain", answers |-> FALSE, upto |-> 0]

Replied  == {"ok", "error", "closed"}   \* the task sent the reply, not yet idle
Finished == {"done_ok", "done_error"}   \* the task returned Ok(ExecutionDone)
Live == pc \notin {"ended", "failed"}

Execute(m) == request[m].type = "execute"
Priority(m) == request[m].priority
Answered(m) == reply[m].status # "none"

(* missing_fields: only these types have required fields *)
MissingFields(m) == request[m].type \in {"execute", "service"} /\ request[m].missing

Init ==
  /\ sent = 0
  /\ request = [m \in MsgId |-> CHOOSE shape \in Shapes : TRUE]
  /\ kernel = "free" /\ budget = MaxControls
  /\ incoming = <<>> /\ controls = <<>>
  /\ pc = "drain" /\ sweep = NoSweep
  /\ queue = {} /\ order = 0 /\ held = NoMsg /\ serving = NoMsg
  /\ stopping = FALSE /\ interrupting = FALSE /\ execution_count = 0
  /\ active = NoMsg /\ task = "none" /\ requested = {}
  /\ reply = [m \in MsgId |-> [status |-> "none", count |-> NoCount]]
  /\ published = [m \in MsgId |-> "none"]
  /\ cause = [m \in MsgId |-> NoMsg]
  /\ swept = 0 /\ doomed = {} /\ dropped = {}

-----------------------------------------------------------------------------
(* The clients and the kernel's main loop, as this session meets them.     *)

(* The kernel routes a client's request here. *)
Send(shape) ==
  /\ kernel = "free" /\ Live
  /\ sent < MaxRequests /\ Len(incoming) < IncomingCapacity
  /\ sent' = sent + 1
  /\ request' = [request EXCEPT ![sent + 1] = shape]
  /\ incoming' = Append(incoming, sent + 1)
  /\ UNCHANGED <<kernelVars, controls, pc, sweep, schedulerVars, executionVars, outputVars, historyVars>>

SendControl(control) ==
  /\ kernel = "free" /\ Live
  /\ controls' = Append(controls, control)
  /\ UNCHANGED <<clientVars, incoming, pc, sweep, schedulerVars, executionVars, outputVars, historyVars>>

(* An interrupt_request, a SIGINT, or the first half of a deletion. *)
SendInterrupt ==
  /\ budget > 0
  /\ SendControl([type |-> "interrupt", msg |-> NoMsg, status |-> "ok", upto |-> sent])
  /\ budget' = budget - 1 /\ UNCHANGED kernel

(* A release_request; the main loop waits for the answer. *)
SendRelease(m, status) ==
  /\ budget > 0
  /\ SendControl([type |-> "release", msg |-> m, status |-> status, upto |-> 0])
  /\ budget' = budget - 1 /\ kernel' = "awaiting"

(* stop_shell gives the handle up: nothing is sent after Stop. *)
SendStop ==
  /\ SendControl([type |-> "stop", msg |-> NoMsg, status |-> "ok", upto |-> 0])
  /\ kernel' = "stopped" /\ UNCHANGED budget

-----------------------------------------------------------------------------
(* The scheduler task. *)

InIncoming == {incoming[i] : i \in DOMAIN incoming}
InQueue == {item.msg : item \in queue}

(* enqueue: everything in the channel, numbered in the order of arrival *)
Enqueued == queue \cup {[msg |-> incoming[i], order |-> order + i - 1] : i \in DOMAIN incoming}

Reply(replies, ms, status, count) ==
  [m \in MsgId |-> IF m \in ms THEN [status |-> status, count |-> count] ELSE replies[m]]

(* The messages that nobody has answered and that this session keeps. *)
Kept == InIncoming \cup InQueue \cup ({held, serving} \ {NoMsg})
        \cup {m \in {active} \ {NoMsg} : ~Answered(m)}

(* The scheduler task returns: its state is dropped, and dropping the      *)
(* active execution aborts its task.                                       *)
EndShell(how) ==
  /\ pc' = how /\ sweep' = NoSweep
  /\ kernel' = "gone"
  /\ incoming' = <<>> /\ controls' = <<>> /\ queue' = {}
  /\ held' = NoMsg /\ serving' = NoMsg
  /\ active' = NoMsg /\ task' = "none"
  /\ UNCHANGED <<clientVars, budget, order, stopping, interrupting, execution_count, requested, swept, doomed>>

Fail == EndShell("failed") /\ dropped' = dropped \cup Kept /\ UNCHANGED outputVars

(* The top of the loop takes every request in the channel. *)
Drain ==
  /\ pc = "drain" /\ pc' = "controls"
  /\ queue' = Enqueued
  /\ order' = order + Len(incoming)
  /\ incoming' = <<>>
  /\ UNCHANGED <<clientVars, kernelVars, controls, sweep, held, serving, stopping, interrupting,
                 execution_count, executionVars, outputVars, historyVars>>

(* abort_execute: busy, the reply "aborted", idle *)
AbortExecutes(ms) ==
  /\ reply' = Reply(reply, ms, "aborted", execution_count)
  /\ published' = [m \in MsgId |-> IF m \in ms THEN "idle" ELSE published[m]]
  /\ cause' = [m \in MsgId |-> IF m \in ms THEN sweep.cause ELSE cause[m]]

AbortPending_NoDrain ==
  /\ queue' = {item \in queue : ~Execute(item.msg)}
  /\ UNCHANGED <<order, incoming>>
  /\ AbortExecutes({m \in InQueue : Execute(m)})

(* abort_pending: every execute that waits, in the channel or in the queue, *)
(* is aborted; the rest of the queue stays.                                *)
AbortPending ==
  /\ queue' = {item \in Enqueued : ~Execute(item.msg)}
  /\ order' = order + Len(incoming)
  /\ incoming' = <<>>
  /\ AbortExecutes({m \in InIncoming \cup InQueue : Execute(m)})

(* The scheduler carries out the abort_pending it owes and goes on. *)
Sweep ==
  /\ pc = "sweep"
  /\ AbortPending
  /\ kernel' = IF sweep.answers THEN "free" ELSE kernel
  /\ swept' = IF sweep.upto > swept THEN sweep.upto ELSE swept
  /\ pc' = sweep.next /\ sweep' = NoSweep
  /\ UNCHANGED <<clientVars, budget, controls, held, serving, stopping, interrupting, execution_count,
                 executionVars, doomed, dropped>>

(* Owe an abort_pending: it runs after the messages already under way.     *)
Owe(why, next, answers, upto) ==
  /\ pc' = "sweep"
  /\ sweep' = [cause |-> why, next |-> next, answers |-> answers, upto |-> upto]

FinishHold_Keep(status, count) ==
  /\ reply' = Reply(reply, {held} \ {NoMsg}, status, count)
  /\ published' = [m \in MsgId |-> IF m = held THEN "idle" ELSE published[m]]
  /\ UNCHANGED <<held, cause>>

(* finish_hold: the held request is answered and its hold is over. *)
FinishHold(status, count) ==
  /\ reply' = Reply(reply, {held} \ {NoMsg}, status, count)
  /\ published' = [m \in MsgId |-> IF m = held THEN "idle" ELSE published[m]]
  /\ held' = NoMsg
  /\ UNCHANGED cause

ApplyRelease(next) ==
  LET control == Head(controls)
      found == held # NoMsg /\ held = control.msg
      failed == control.status # "ok"
  IN  /\ control.type = "release"
      /\ IF found
         THEN FinishHold(control.status, IF failed THEN execution_count ELSE NoCount)
         ELSE UNCHANGED <<held, outputVars>>
      /\ IF found /\ failed
         THEN Owe(held, next, TRUE, 0) /\ UNCHANGED kernel
         ELSE pc' = next /\ kernel' = "free" /\ UNCHANGED sweep
      /\ UNCHANGED <<interrupting, stopping, requested>>

ApplyInterrupt(next) ==
  /\ Head(controls).type = "interrupt"
  /\ interrupting' = TRUE
  /\ requested' = requested \cup ({active} \ {NoMsg})
  /\ FinishHold("interrupted", execution_count)
  /\ Owe(NoMsg, next, FALSE, Head(controls).upto)
  /\ UNCHANGED <<kernel, stopping>>

ApplyStop(next) ==
  /\ Head(controls).type = "stop"
  /\ stopping' = TRUE
  /\ pc' = next
  /\ UNCHANGED <<kernel, sweep, interrupting, requested, held, outputVars>>

ApplyControl_WhenIdle(next) ==
  /\ controls # <<>> /\ active = NoMsg
  /\ ApplyRelease(next) \/ ApplyInterrupt(next) \/ ApplyStop(next)
  /\ controls' = Tail(controls)
  /\ UNCHANGED <<clientVars, budget, incoming, queue, order, serving, execution_count,
                 active, task, historyVars>>

(* apply_control, from the top of the loop or from its select. *)
ApplyControl(next) ==
  /\ controls # <<>>
  /\ ApplyRelease(next) \/ ApplyInterrupt(next) \/ ApplyStop(next)
  /\ controls' = Tail(controls)
  /\ UNCHANGED <<clientVars, budget, incoming, queue, order, serving, execution_count,
                 active, task, historyVars>>

(* The interrupt handler of the language fails: apply_control returns Err. *)
InterruptFails ==
  /\ Faults /\ controls # <<>>
  /\ pc \in {"controls", "select"}
  /\ Head(controls).type = "interrupt" /\ active # NoMsg
  /\ Fail

Controls == pc = "controls" /\ ApplyControl("controls")

NoControls ==
  /\ pc = "controls" /\ controls = <<>>
  /\ pc' = "reap" /\ UNCHANGED rest

(* execution_done: a failure aborts what waits, unless an interrupt did.   *)
AbortsPending_Interrupted == task = "done_error" /\ request[active].stop_on_error
AbortsPending_Never == FALSE
AbortsPending == task = "done_error" /\ request[active].stop_on_error /\ ~interrupting


ExecutionDone(next) ==
  /\ task \in Finished
  /\ active' = NoMsg /\ task' = "none"
  /\ IF AbortsPending
     THEN Owe(active, next, FALSE, 0)
     ELSE pc' = next /\ UNCHANGED sweep
  /\ UNCHANGED <<clientVars, kernelVars, incoming, controls, schedulerVars, requested, outputVars, historyVars>>

Reap == pc = "reap" /\ ExecutionDone("dispatch")

NothingToReap ==
  /\ pc = "reap" /\ task \notin Finished \cup {"crashed"}
  /\ pc' = "dispatch" /\ UNCHANGED rest

(* The task returned an error or panicked: so does the scheduler. *)
ExecutionFailed ==
  /\ pc \in {"reap", "select"} /\ task = "crashed"
  /\ Fail

-----------------------------------------------------------------------------
(* One pass below the reaping: clear the interrupt, stop, or run one item. *)

StillInterrupting == interrupting /\ active # NoMsg

(* The stop test of the loop. *)
CanStop_Busy == stopping /\ queue = {} /\ held = NoMsg
CanStop == stopping /\ queue = {} /\ active = NoMsg /\ held = NoMsg

(* The order of the heap: priority first, then arrival. *)
Before_Lifo(i, j) ==
  Priority(i.msg) > Priority(j.msg) \/ (Priority(i.msg) = Priority(j.msg) /\ i.order > j.order)
Before(i, j) ==
  Priority(i.msg) > Priority(j.msg) \/ (Priority(i.msg) = Priority(j.msg) /\ i.order < j.order)

(* What may run now: no execute beside an active one, and under a hold     *)
(* only one of strictly higher priority.                                   *)
AboveHold(m) == held # NoMsg => Priority(m) > Priority(held)
Runnable_BesideActive(item) == Execute(item.msg) => AboveHold(item.msg)
Runnable_AllSerial(item) == active = NoMsg /\ AboveHold(item.msg)
Runnable(item) == Execute(item.msg) => active = NoMsg /\ AboveHold(item.msg)

(* pop_runnable: the first runnable item of the heap's order *)
PopRunnable(item) ==
  /\ item \in queue /\ Runnable(item)
  /\ \A other \in queue \ {item} : Runnable(other) => Before(item, other)

Dispatch == pc = "dispatch" /\ interrupting' = StillInterrupting

DispatchNothing(next) ==
  /\ Dispatch /\ pc' = next
  /\ UNCHANGED <<clientVars, kernelVars, incoming, controls, sweep, queue, order, held, serving,
                 stopping, execution_count, executionVars, outputVars, historyVars>>

(* A Stop is obeyed when nothing is left to do; the language shuts down.   *)
Stop == CanStop /\ DispatchNothing("closing")

Wait == ~CanStop /\ (\A item \in queue : ~Runnable(item)) /\ DispatchNothing("select")

Pop(item) ==
  /\ Dispatch /\ ~CanStop
  /\ PopRunnable(item)
  /\ queue' = queue \ {item}
  /\ UNCHANGED <<clientVars, kernelVars, incoming, controls, order, stopping>>

(* handle_shell for messages that need no call of the language. *)
HandleAtOnce(item) ==
  LET m == item.msg
      status == CASE request[m].type = "service" -> "error"
                  [] request[m].type = "other" -> "unanswered"
                  [] OTHER -> "ok"
  IN  /\ request[m].type \in {"plain", "other", "shutdown"} \/ (~Execute(m) /\ MissingFields(m))
      /\ Pop(item)
      /\ reply' = Reply(reply, {m}, status, NoCount)
      /\ pc' = IF request[m].type = "shutdown" THEN "closing" ELSE "drain"
      /\ UNCHANGED <<sweep, held, serving, execution_count, executionVars, published, cause, historyVars>>

(* handle_shell calls the language and the scheduler waits for it. *)
CallLanguage(item) ==
  LET m == item.msg
  IN  /\ request[m].type \in {"service", "comm_info", "comm"} /\ ~MissingFields(m)
      /\ Pop(item)
      /\ pc' = "serving" /\ serving' = m
      /\ published' = [published EXCEPT ![m] = IF request[m].type = "service" THEN "busy" ELSE @]
      /\ UNCHANGED <<sweep, held, execution_count, executionVars, reply, cause, historyVars>>

(* The language answers, or fails and report_failure answers for it. *)
LanguageAnswers(result) ==
  LET status == IF request[serving].type = "comm" THEN "unanswered"
                ELSE IF result = "ok" THEN "ok" ELSE "error"
      idle == result # "ok" \/ request[serving].type = "service"
  IN  /\ pc = "serving"
      /\ ServicesWait => task # "running"
      /\ reply' = Reply(reply, {serving}, status, NoCount)
      /\ published' = [published EXCEPT ![serving] = IF idle THEN "idle" ELSE @]
      /\ UNCHANGED cause

ServiceDone(result) ==
  /\ LanguageAnswers(result)
  /\ pc' = "drain" /\ serving' = NoMsg
  /\ UNCHANGED <<clientVars, kernelVars, incoming, controls, sweep, queue, order, held, stopping,
                 interrupting, execution_count, executionVars, historyVars>>


(* The language service is closed: the client has its reply, the session ends. *)
ServiceClosed ==
  /\ Faults
  /\ LanguageAnswers("closed")
  /\ EndShell("failed")
  /\ dropped' = dropped \cup (Kept \ {serving})

(* interrupt_execute under an interrupt, else reply_missing *)
RefusalStatus == IF StillInterrupting THEN "interrupted" ELSE "error"

(* handle_item for an execute that is not run: it is answered with an      *)
(* interrupt, or for its missing fields, which aborts what waits.          *)
RefuseExecute(item) ==
  LET m == item.msg
  IN  /\ Execute(m) /\ (StillInterrupting \/ MissingFields(m))
      /\ Pop(item)
      /\ reply' = Reply(reply, {m}, RefusalStatus, execution_count)
      /\ published' = [published EXCEPT ![m] = "idle"]
      /\ IF StillInterrupting THEN pc' = "drain" /\ UNCHANGED sweep ELSE Owe(m, "drain", FALSE, 0)
      /\ UNCHANGED <<held, serving, execution_count, executionVars, cause, historyVars>>

(* begin_hold; the assignment to `held` drops a hold that was there.       *)
BeginHold(item) ==
  LET m == item.msg
  IN  /\ Execute(m) /\ ~StillInterrupting /\ ~MissingFields(m) /\ request[m].hold
      /\ Pop(item)
      /\ held' = m
      /\ dropped' = dropped \cup ({held} \ {NoMsg})
      /\ published' = [published EXCEPT ![m] = "busy"]
      /\ pc' = "drain"
      /\ UNCHANGED <<sweep, serving, execution_count, executionVars, reply, cause, swept, doomed>>

(* count_execution: an execution that stores history advances the count.   *)
CountExecution(m) == execution_count + (IF request[m].counted THEN 1 ELSE 0)

(* The execution is counted and its task spawned; an execution that was    *)
(* active would be dropped, and its task aborted.                          *)
StartExecution(item) ==
  LET m == item.msg
  IN  /\ Execute(m) /\ ~StillInterrupting /\ ~MissingFields(m) /\ ~request[m].hold
      /\ Pop(item)
      /\ execution_count' = CountExecution(m)
      /\ active' = m /\ task' = "running"
      /\ dropped' = dropped \cup {e \in {active} \ {NoMsg} : ~Answered(e)}
      /\ published' = [published EXCEPT ![m] = "busy"]
      /\ pc' = "drain"
      /\ UNCHANGED <<sweep, held, serving, requested, reply, cause, swept, doomed>>

HandleItem(item) ==
  \/ HandleAtOnce(item) \/ CallLanguage(item)
  \/ RefuseExecute(item) \/ BeginHold(item) \/ StartExecution(item)

-----------------------------------------------------------------------------
(* The select at the end of the loop: whichever is ready first.            *)

SelectIncoming ==
  /\ pc = "select" /\ incoming # <<>>
  /\ queue' = queue \cup {[msg |-> Head(incoming), order |-> order]}
  /\ order' = order + 1
  /\ incoming' = Tail(incoming)
  /\ pc' = "drain"
  /\ UNCHANGED <<clientVars, kernelVars, controls, sweep, held, serving, stopping, interrupting,
                 execution_count, executionVars, outputVars, historyVars>>

SelectControl == pc = "select" /\ ApplyControl("drain")

SelectDone == pc = "select" /\ ExecutionDone("drain")

HoldTimeout_None == FALSE
HoldTimeout ==
  /\ pc = "select" /\ held # NoMsg
  /\ FinishHold("error", execution_count)
  /\ Owe(held, "drain", FALSE, 0)
  /\ UNCHANGED <<clientVars, kernelVars, incoming, controls, queue, order, serving, stopping,
                 interrupting, execution_count, executionVars, historyVars>>

(* language.shutdown() returns, and run() with it. *)
Close ==
  /\ pc = "closing"
  /\ EndShell("ended") /\ dropped' = dropped \cup Kept
  /\ UNCHANGED outputVars

CloseFails == Faults /\ pc = "closing" /\ Fail

-----------------------------------------------------------------------------
(* The execution task (run_execution). *)

Waiting == {m \in InIncoming \cup InQueue : Execute(m)}

(* language.execute returns and its output is flushed. *)
CellEnds == task = "running" /\ (request[active].endless => active \in requested)

(* The cell ends and its reply is sent: the outcome of the language, or    *)
(* the report of its failure.                                              *)
ExecutionReplies(result) ==
  /\ CellEnds
  /\ reply' = Reply(reply, {active}, IF result = "ok" THEN "ok" ELSE "error", execution_count)
  /\ task' = result
  /\ doomed' = IF result = "error" /\ request[active].stop_on_error /\ active \notin requested
               THEN doomed \cup Waiting ELSE doomed
  /\ UNCHANGED <<clientVars, kernelVars, incoming, controls, pc, sweep, schedulerVars, active, requested,
                 published, cause, swept, dropped>>

(* The task panics: the client gets no reply, the scheduler a JoinError.   *)
ExecutionPanics ==
  /\ Faults /\ task = "running"
  /\ task' = "crashed"
  /\ UNCHANGED <<clientVars, kernelVars, incoming, controls, pc, sweep, schedulerVars, active, requested,
                 outputVars, historyVars>>

(* idle is published and the task returns. *)
ExecutionIdle ==
  /\ task \in Replied
  /\ published' = [published EXCEPT ![active] = "idle"]
  /\ task' = IF task = "closed" THEN "crashed" ELSE IF task = "ok" THEN "done_ok" ELSE "done_error"
  /\ UNCHANGED <<clientVars, kernelVars, incoming, controls, pc, sweep, schedulerVars, active, requested,
                 reply, cause, historyVars>>

-----------------------------------------------------------------------------
Client == \E shape \in Shapes : Send(shape)

Kernel ==
  \/ SendInterrupt \/ SendStop
  \/ \E m \in 1 .. sent, status \in {"ok", "error"} : SendRelease(m, status)

Scheduler ==
  \/ Drain \/ Controls \/ NoControls \/ Sweep \/ InterruptFails
  \/ Reap \/ NothingToReap \/ ExecutionFailed
  \/ Stop \/ Wait \/ \E item \in queue : HandleItem(item)
  \/ ServiceDone("ok") \/ ServiceDone("error") \/ ServiceClosed
  \/ SelectIncoming \/ SelectControl \/ SelectDone \/ HoldTimeout
  \/ Close \/ CloseFails

Execution ==
  \/ ExecutionReplies("ok") \/ ExecutionReplies("error")
  \/ Faults /\ ExecutionReplies("closed")
  \/ ExecutionPanics \/ ExecutionIdle

Next == Client \/ Kernel \/ Scheduler \/ Execution

Spec == Init /\ [][Next]_vars

(* Only what the code owes: the runtime polls the two tasks, the language  *)
(* answers, a cell ends (an endless one when interrupted), timers fire.    *)
FairSpec == Spec /\ WF_vars(Scheduler) /\ WF_vars(Execution)

-----------------------------------------------------------------------------
(* Properties. *)

(* Every variable keeps its type. *)
TypeOK ==
  /\ sent \in 0 .. MaxRequests
  /\ request \in [MsgId -> Request]
  /\ kernel \in {"free", "awaiting", "stopped", "gone"}
  /\ budget \in 0 .. MaxControls
  /\ incoming \in Seq(MsgId) /\ controls \in Seq(Control)
  /\ pc \in {"drain", "controls", "sweep", "reap", "dispatch", "serving", "select", "closing", "ended", "failed"}
  /\ sweep \in Sweeps
  /\ queue \subseteq [msg : MsgId, order : Nat] /\ order \in Nat
  /\ held \in 0 .. MaxRequests /\ serving \in 0 .. MaxRequests
  /\ stopping \in BOOLEAN /\ interrupting \in BOOLEAN
  /\ execution_count \in Nat
  /\ active \in 0 .. MaxRequests
  /\ task \in {"none", "running", "crashed"} \cup Replied \cup Finished
  /\ requested \subseteq MsgId
  /\ reply \in Replies /\ published \in Published
  /\ cause \in [MsgId -> 0 .. MaxRequests]
  /\ swept \in 0 .. MaxRequests
  /\ doomed \subseteq MsgId /\ dropped \subseteq MsgId

(* No request is lost or answered twice: a message that was sent is        *)
(* unanswered exactly as long as the session keeps it (channel, queue,     *)
(* hold, language call or active execution), unless it was dropped.        *)
Accounted ==
  \A m \in 1 .. sent : (m \in Kept \cup dropped) <=> ~Answered(m)

(* While the scheduler runs, the only messages it drops are holds that a   *)
(* hold of higher priority replaced (the assignment to `held`).            *)
DropsOnlyHolds ==
  Live => \A m \in dropped : request[m].hold /\ published[m] = "busy"

(* Executes begin in order: once an execute has begun, every execute that  *)
(* was sent before it with at least its priority has been answered.  It    *)
(* rests on the channel, the heap's order, the serial lane and the hold.   *)
Began(m) == published[m] = "busy" \/ reply[m].status \in {"ok", "error", "interrupted"}

InOrder ==
  \A a, b \in 1 .. sent :
    (a < b /\ Execute(a) /\ Execute(b) /\ Priority(a) >= Priority(b) /\ Began(b))
      => Answered(a) \/ a \in dropped

(* An interrupt reaches all the work sent before it: once its sweep is     *)
(* done, each such execute was answered, or was running and had its        *)
(* ExecutionInterrupt requested (or was a hold dropped before).            *)
InterruptReachesAll ==
  \A m \in 1 .. swept :
    Execute(m) => Answered(m) \/ m \in requested \/ (m \in dropped /\ request[m].hold)

(* Stop on error: an execute that was waiting when a cell's failure was    *)
(* reported never begins.                                                  *)
StopOnError ==
  \A m \in doomed : ~Began(m) /\ m \notin {active, held}

(* An interrupt spares later work: the failure of an interrupted cell      *)
(* aborts nothing, for what the interrupt itself did not abort was sent    *)
(* later; and the scheduler answers KeyboardInterrupt to a hold only, for  *)
(* `interrupting` does not outlive the execution it was set for.           *)
InterruptSparesLaterWork ==
  \A m \in 1 .. sent :
    cause[m] \notin requested /\ (reply[m].status = "interrupted" => request[m].hold)

(* A session that obeys Stop has served its queue: all it leaves without   *)
(* an answer reached the channel after the last drain, and of what was     *)
(* sent before an interrupt, it leaves nothing.                            *)
ShutdownAsked == \E m \in 1 .. sent : request[m].type = "shutdown" /\ Answered(m)

StopServesTheQueue ==
  (pc = "closing" /\ ~ShutdownAsked) =>
    /\ Kept \subseteq InIncoming
    /\ \A m \in 1 .. swept : Execute(m) => Answered(m) \/ m \in dropped

(* A cell runs that only an interrupt ends, and none has come. *)
Unending == task = "running" /\ request[active].endless /\ active \notin requested

(* Every request is answered, unless the session ends.  Only an execute    *)
(* may be dropped, or stay behind a cell that nobody interrupts: other     *)
(* requests pass a running cell and a hold.                                *)
EveryRequestAnswered ==
  \A m \in MsgId : (sent >= m) ~>
    (~Live \/ Answered(m) \/ (Execute(m) /\ (m \in dropped \/ Unending)))

(* A session that is told to stop ends, once its cell does. *)
StopEnds == (kernel = "stopped") ~> (~Live \/ Unending)

(* A control is never left unread: the kernel's interrupt is applied even  *)
(* while a cell runs that only an interrupt ends.                          *)
ControlsApplied == (controls # <<>>) ~> (controls = <<>>)
=============================================================================
