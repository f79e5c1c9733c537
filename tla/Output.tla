------------------------------- MODULE Output -------------------------------
(***************************************************************************)
(* The output of executions: execute, run_execution, output_context and    *)
(* publish_event in src/src/engine.rs, and ExecutionContext in             *)
(* src/src/language.rs.  A cell, and threads it leaves behind, put events  *)
(* into a bounded channel.  A pump takes all that is in it at once, joins  *)
(* adjacent texts of one stream and publishes them.  The task of the       *)
(* execution publishes its status and its result itself.  IOPub is what    *)
(* the module Broadcast says of it, the log of what was published: its     *)
(* subscribers see that, as Iopub shows.  Texts, and the stdin channel     *)
(* behind a prompt, are left out.                                          *)
(***************************************************************************)
EXTENDS Naturals, Sequences

CONSTANTS
  Cells,           \* executions, each of a session of its own
  Kinds,           \* events that cells emit
  Silences,        \* values of `silent` in the requests
  MaxEvents,       \* bound: events of a cell
  MaxLate,         \* bound: events of the threads it leaves behind
  EventCapacity    \* KERNMINI_IOPUB_QMAX, the size of an execution's channel

Streams == {"stdout", "stderr"}
EventKinds == Streams \cup {"display", "input"}
Outcomes == {"none", "result", "error"}

ASSUME OutputAssumption ==
  /\ Kinds \subseteq EventKinds /\ Silences \subseteq BOOLEAN
  /\ MaxEvents \in Nat /\ MaxLate \in Nat /\ EventCapacity \in Nat \ {0}

(* An event is the number of its place in `emitted`; 0 is a Flush. *)
Flush == 0
NoOne == <<>>
TaskOf(x) == <<x, "task">>
PumpOf(x) == <<x, "pump">>
(* `events` are those of a stream or display message. *)
MessageOf(x, type, events) == [cell |-> x, type |-> type, events |-> events]

VARIABLES
  log,       \* the messages published so far
  holder,    \* who is in Iopub::publish with the lock, or NoOne
  task,      \* the next thing that the execution's task does
  silent, outcome,
  emitted,   \* history: the events put into the channel
  events,    \* the channel
  batch,     \* the pump: what recv_many gave and is still to be handled
  joined,    \* ... the events of the message it publishes
  prompt,    \* ... the input() that it waits for, 0 when there is none
  flushed    \* the answer to the Flush

pumpVars == <<batch, joined, prompt, flushed>>
runVars == <<task, silent, outcome, emitted, events>>
iopubVars == <<log, holder>>
vars == <<iopubVars, runVars, pumpVars>>

Init ==
  /\ log = <<>> /\ holder = NoOne
  /\ task = [x \in Cells |-> "busy"]
  /\ silent \in [Cells -> Silences]
  /\ outcome = [x \in Cells |-> "none"]
  /\ emitted = [x \in Cells |-> <<>>] /\ events = [x \in Cells |-> <<>>]
  /\ batch = [x \in Cells |-> <<>>] /\ joined = [x \in Cells |-> <<>>]
  /\ prompt = [x \in Cells |-> 0] /\ flushed = [x \in Cells |-> FALSE]

-----------------------------------------------------------------------------
(* Iopub::publish: it takes the lock, and returns later. *)
Publish(b, m) == holder = NoOne /\ holder' = b /\ log' = Append(log, m)
Published(b) == holder = b /\ holder' = NoOne /\ UNCHANGED log

(* The execution's task. *)

(* What it publishes, and what it does when that is published. *)
TaskMessage(x) ==
  CASE task[x] = "busy" -> MessageOf(x, "busy", <<>>)
    [] task[x] = "input" -> MessageOf(x, "execute_input", <<>>)
    [] task[x] = "outcome" -> MessageOf(x, outcome[x], <<>>)
    [] task[x] = "idle" -> MessageOf(x, "idle", <<>>)
AfterPublish(x) ==
  CASE task[x] = "busy" -> IF silent[x] THEN "run" ELSE "input"
    [] task[x] = "input" -> "run"
    [] task[x] = "outcome" -> "reply"
    [] task[x] = "idle" -> "done"

TaskPublishes(x) ==
  /\ task[x] \in {"busy", "input", "outcome", "idle"}
  /\ Publish(TaskOf(x), TaskMessage(x))
  /\ UNCHANGED <<runVars, pumpVars>>

TaskPublished(x) ==
  /\ Published(TaskOf(x))
  /\ task' = [task EXCEPT ![x] = AfterPublish(x)]
  /\ UNCHANGED <<silent, outcome, emitted, events, pumpVars>>

(* ExecutionContext::emit and emit_blocking, which wait for room; input    *)
(* waits for the answer besides.                                           *)
Put(x, kind, late) ==
  /\ Len(events[x]) < EventCapacity
  /\ emitted' = [emitted EXCEPT ![x] = Append(@, [kind |-> kind, late |-> late])]
  /\ events' = [events EXCEPT ![x] = Append(@, Len(emitted'[x]))]

Emit(x, kind) ==
  /\ task[x] = "run" /\ Len(emitted[x]) < MaxEvents
  /\ Put(x, kind, FALSE)
  /\ task' = [task EXCEPT ![x] = IF kind = "input" THEN "asking" ELSE "run"]
  /\ UNCHANGED <<silent, outcome, iopubVars, pumpVars>>

Late(x) == Len(SelectSeq(emitted[x], LAMBDA e : e.late))
EmitLate(x, kind) ==
  /\ task[x] \notin {"busy", "input"} /\ Late(x) < MaxLate /\ kind # "input"
  /\ Put(x, kind, TRUE)
  /\ UNCHANGED <<task, silent, outcome, iopubVars, pumpVars>>

(* language.execute returns, with an outcome or an error. *)
Returns(x, o) ==
  /\ task[x] = "run"
  /\ task' = [task EXCEPT ![x] = "flush"]
  /\ outcome' = [outcome EXCEPT ![x] = o]
  /\ UNCHANGED <<silent, emitted, events, iopubVars, pumpVars>>

(* ExecutionContext::flush: the Flush enters the channel, and is answered. *)
SendFlush(x) ==
  /\ task[x] = "flush" /\ Len(events[x]) < EventCapacity
  /\ events' = [events EXCEPT ![x] = Append(@, Flush)]
  /\ task' = [task EXCEPT ![x] = "flushing"]
  /\ UNCHANGED <<silent, outcome, emitted, iopubVars, pumpVars>>

AfterFlush(x) == IF outcome[x] = "error" \/ (outcome[x] = "result" /\ ~silent[x]) THEN "outcome" ELSE "reply"

Flushed_Unawaited(x) ==
  /\ task[x] = "flushing"
  /\ task' = [task EXCEPT ![x] = AfterFlush(x)]
  /\ UNCHANGED <<silent, outcome, emitted, events, iopubVars, pumpVars>>
Flushed(x) ==
  /\ task[x] = "flushing" /\ flushed[x]
  /\ task' = [task EXCEPT ![x] = AfterFlush(x)]
  /\ UNCHANGED <<silent, outcome, emitted, events, iopubVars, pumpVars>>

(* The execute_reply is sent on the shell channel. *)
Reply(x) ==
  /\ task[x] = "reply"
  /\ task' = [task EXCEPT ![x] = "idle"]
  /\ UNCHANGED <<silent, outcome, emitted, events, iopubVars, pumpVars>>

-----------------------------------------------------------------------------
(* The pump. *)
KindOf(x, n) == IF n = Flush THEN "flush" ELSE emitted[x][n].kind
Free(x) == joined[x] = <<>> /\ prompt[x] = 0

(* recv_many takes all there is. *)
Take(x) ==
  /\ Free(x) /\ batch[x] = <<>> /\ events[x] # <<>>
  /\ batch' = [batch EXCEPT ![x] = events[x]]
  /\ events' = [events EXCEPT ![x] = <<>>]
  /\ UNCHANGED <<task, silent, outcome, emitted, iopubVars, joined, prompt, flushed>>

(* The first k events of the batch go into one message. *)
Joins_Kind(x, n, m) == KindOf(x, n) = KindOf(x, m)
Joins(x, n, m) == KindOf(x, n) = KindOf(x, m) /\ KindOf(x, n) \in Streams
Run(x, k) ==
  /\ \A j \in 2 .. k : Joins(x, batch[x][1], batch[x][j])
  /\ k < Len(batch[x]) => ~Joins(x, batch[x][1], batch[x][k + 1])

TakeEvent(x) ==
  \E k \in 1 .. Len(batch[x]) :
    /\ Free(x) /\ KindOf(x, batch[x][1]) \in Streams \cup {"display"} /\ Run(x, k)
    /\ batch' = [batch EXCEPT ![x] = SubSeq(@, k + 1, Len(@))]
    /\ joined' = [joined EXCEPT ![x] = IF silent[x] THEN <<>> ELSE SubSeq(batch[x], 1, k)]
    /\ UNCHANGED <<runVars, iopubVars, prompt, flushed>>

(* publish_event *)
PumpMessage(x) == MessageOf(x, KindOf(x, joined[x][1]), joined[x])
PumpPublishes(x) ==
  /\ joined[x] # <<>>
  /\ Publish(PumpOf(x), PumpMessage(x))
  /\ UNCHANGED <<runVars, pumpVars>>
PumpPublished(x) ==
  /\ Published(PumpOf(x))
  /\ joined' = [joined EXCEPT ![x] = <<>>]
  /\ UNCHANGED <<runVars, batch, prompt, flushed>>

TakeFlush(x) ==
  /\ Free(x) /\ batch[x] # <<>> /\ batch[x][1] = Flush
  /\ batch' = [batch EXCEPT ![x] = Tail(@)]
  /\ flushed' = [flushed EXCEPT ![x] = TRUE]
  /\ UNCHANGED <<runVars, iopubVars, joined, prompt>>

(* The pump waits for the answer to a prompt itself, and passes it on. *)
TakeInput(x) ==
  /\ Free(x) /\ batch[x] # <<>> /\ KindOf(x, batch[x][1]) = "input"
  /\ batch' = [batch EXCEPT ![x] = Tail(@)]
  /\ prompt' = [prompt EXCEPT ![x] = batch[x][1]]
  /\ UNCHANGED <<runVars, iopubVars, joined, flushed>>
Answer(x) ==
  /\ prompt[x] # 0
  /\ prompt' = [prompt EXCEPT ![x] = 0]
  /\ task' = [task EXCEPT ![x] = "run"]
  /\ UNCHANGED <<silent, outcome, emitted, events, iopubVars, batch, joined, flushed>>

-----------------------------------------------------------------------------
TaskStep(x) == TaskPublishes(x) \/ TaskPublished(x) \/ SendFlush(x) \/ Flushed(x) \/ Reply(x)
PumpStep(x) ==
  \/ Take(x) \/ TakeEvent(x) \/ PumpPublishes(x) \/ PumpPublished(x)
  \/ TakeFlush(x) \/ TakeInput(x)
CellStep(x) ==
  \/ \E kind \in Kinds : Emit(x, kind) \/ EmitLate(x, kind)
  \/ \E o \in Outcomes : Returns(x, o)

Next == \E x \in Cells : TaskStep(x) \/ PumpStep(x) \/ CellStep(x) \/ Answer(x)

Spec == Init /\ [][Next]_vars

(* The runtime runs the tasks, and a publish returns (PublishReturns of    *)
(* Iopub).  Cells and the users they ask owe nothing.                      *)
FairSpec ==
  /\ Spec
  /\ \A x \in Cells : WF_vars(TaskStep(x)) /\ WF_vars(PumpStep(x))

-----------------------------------------------------------------------------
Numbers == Nat \ {0}

TypeOK ==
  /\ log \in Seq([cell : Cells, events : Seq(Numbers),
                  type : {"busy", "execute_input", "idle", "display"} \cup Outcomes \cup Streams])
  /\ holder \in (Cells \X {"task", "pump"}) \cup {NoOne}
  /\ task \in [Cells -> {"busy", "input", "run", "asking", "flush", "flushing", "outcome", "reply",
                         "idle", "done"}]
  /\ silent \in [Cells -> BOOLEAN] /\ outcome \in [Cells -> Outcomes]
  /\ emitted \in [Cells -> Seq([kind : Kinds, late : BOOLEAN])]
  /\ events \in [Cells -> Seq(Numbers \cup {Flush})] /\ batch \in [Cells -> Seq(Numbers \cup {Flush})]
  /\ joined \in [Cells -> Seq(Numbers)]
  /\ prompt \in [Cells -> Numbers \cup {0}] /\ flushed \in [Cells -> BOOLEAN]

Shown(x, n) == \E k \in DOMAIN log : log[k].cell = x /\ \E j \in DOMAIN log[k].events : log[k].events[j] = n

(* The output of an execution is published in the order in which it was    *)
(* emitted, with nothing left out or repeated, and only adjacent texts of  *)
(* one stream become one message, wherever the batches of the pump begin   *)
(* and end.                                                                *)
PublishedInOrder ==
  \A x \in Cells :
    /\ \A k, l \in DOMAIN log : log[k].cell = x /\ log[l].cell = x =>
         \A i \in DOMAIN log[k].events, j \in DOMAIN log[l].events :
           k < l \/ (k = l /\ i < j) => log[k].events[i] < log[l].events[j]
    /\ \A k \in DOMAIN log : log[k].cell = x => \A i \in DOMAIN log[k].events :
         /\ \A n \in 1 .. log[k].events[i] : KindOf(x, n) = "input" \/ Shown(x, n)
         /\ KindOf(x, log[k].events[i]) = log[k].type
         /\ log[k].type = "display" => Len(log[k].events) = 1

(* Output comes first: what a cell has emitted before it returned is       *)
(* published before its result, its error and its idle status, for execute *)
(* waits for the flush; and what it has emitted before a prompt is         *)
(* published when the prompt is sent, for the pump handles prompts in the  *)
(* order of the channel.                                                   *)
OutputFirst ==
  \A x \in Cells : ~silent[x] =>
    /\ \A k \in DOMAIN log : log[k].cell = x /\ log[k].type \in Outcomes \cup {"idle"} =>
         \A n \in DOMAIN emitted[x] : KindOf(x, n) # "input" /\ ~emitted[x][n].late =>
           \E j \in 1 .. k : log[j].cell = x /\ \E e \in DOMAIN log[j].events : log[j].events[e] = n
    /\ \A n \in 1 .. prompt[x] - 1 : KindOf(x, n) # "input" => Shown(x, n)

=============================================================================
