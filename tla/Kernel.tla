------------------------------- MODULE Kernel -------------------------------
(***************************************************************************)
(* The kernel's main loop (run_kernel_with_interrupter in                  *)
(* src/src/engine.rs) and the language sessions it owns: routing, subshells *)
(* opened by clients and by cells, control requests, reaping and the final *)
(* stop.  The scheduler of a session is the module Shell; here it is       *)
(* reduced to what the main loop can tell: requests it keeps, the cell it  *)
(* runs, the controls it reads, and its end.                               *)
(*                                                                         *)
(* An id is a number: 0 is the parent session (the empty string of the     *)
(* code), a negative number is a name that clients choose, and a positive  *)
(* one is the uuid made for the session of that number.                    *)
(***************************************************************************)
EXTENDS Integers, Sequences, FiniteSets

CONSTANTS
  Clients,         \* client sessions, the `session` of a message's header
  Shapes,          \* the requests that clients send on the shell channel
  ControlShapes,   \* the requests that clients send on the control channel
  MaxRequests,     \* bound: shell requests sent
  MaxControls,     \* bound: control requests and signals sent
  MaxShells,       \* bound: sessions spawned, the parent included
  Capacity,        \* capacity of a session's request channel (256 in the code)
  ServicesWait,    \* TRUE when the language serves requests on the thread
                   \* that runs its cells, as the Python adapter does
  Faults           \* TRUE when sessions and the creation of one may fail

MsgId == 1 .. MaxRequests
Session == 1 .. MaxShells
Parent == 0
Sidecar == -1
Names == {Sidecar, -2}
Ids == {Parent} \cup Names \cup Session
NoMsg == 0
NoShell == 0

(* `id` is the explicit subshell_id, Parent when there is none; `uses` is  *)
(* the context manager of concur.py that the cell runs its body under.     *)
Request == [type : {"execute", "service", "shutdown"}, client : Clients, id : Ids,
            uses : {"none", "subshell", "sidecar"}, endless : BOOLEAN]
(* Signals come through the KernelInterrupter and termination_signal. *)
Signals == {"SIGINT", "SIGTERM"}
ControlRequest == [type : {"shutdown", "interrupt", "create", "delete", "release", "other"} \cup Signals,
                   id : Ids]

ASSUME KernelAssumption ==
  /\ Shapes \subseteq Request /\ Shapes # {}
  /\ ControlShapes \subseteq ControlRequest
  /\ MaxRequests \in Nat /\ MaxControls \in Nat
  /\ MaxShells \in Nat \ {0} /\ Capacity \in Nat \ {0}
  /\ ServicesWait \in BOOLEAN /\ Faults \in BOOLEAN

VARIABLES
  sent, request, budget,   \* requests sent, what they are; controls left
  shell, control, signals, commands, failed,   \* what the main loop selects from
  at, msg, waiting,        \* where the main loop is, the request it routes,
                           \* the session it waits for
  handling, todo,          \* the control request it handles, and the
                           \* sessions that have not got its control yet
  shells, route_overrides, spawned,
  session,                 \* the sessions, by number
  background,              \* the tasks of stop_in_background
  answer, lost,            \* replies to shell requests; requests dropped
  interrupted,             \* executes that an interrupt reached
  covered, upto,           \* requests sent before the last served interrupt,
                           \* and before the one being handled
  error,                   \* the main loop returned an error
  confirmed                \* sessions whose deletion was confirmed

clientVars  == <<sent, request, budget>>
channelVars == <<shell, control, signals, commands, failed>>
loopVars    == <<at, msg, waiting, handling, todo, error>>
tableVars   == <<shells, route_overrides, spawned>>
outcomeVars == <<answer, lost, interrupted>>
historyVars == <<covered, upto, confirmed>>
vars == <<clientVars, channelVars, loopVars, tableVars, session, background, outcomeVars, historyVars>>

NewSession == [state |-> "running", incoming |-> {}, queue |-> {}, controls |-> <<>>, stopping |-> FALSE,
               serving |-> NoMsg, cell |-> NoMsg, phase |-> "running", route |-> Parent]
NoSession == [NewSession EXCEPT !.state = "none"]

Execute(m) == request[m].type = "execute"
Running(s) == session[s].state = "running"
Mapped == {shells[id] : id \in DOMAIN shells}
Without(f, S) == [x \in DOMAIN f \ S |-> f[x]]
With(f, x, y) == [z \in DOMAIN f \cup {x} |-> IF z = x THEN y ELSE f[z]]

(* route_overrides.retain(|_, routed| routed != &id) *)
Retained_All(id) == route_overrides
Retained(id) == Without(route_overrides, {c \in DOMAIN route_overrides : route_overrides[c] = id})

Init ==
  /\ sent = 0 /\ budget = MaxControls
  /\ request = [m \in MsgId |-> CHOOSE shape \in Shapes : TRUE]
  /\ shell = <<>> /\ control = <<>> /\ signals = {} /\ commands = <<>> /\ failed = FALSE
  /\ at = "select" /\ msg = NoMsg /\ waiting = NoShell /\ handling = "none" /\ todo = {} /\ error = FALSE
  /\ shells = [id \in {Parent} |-> 1] /\ route_overrides = [c \in {} |-> Parent]
  /\ spawned = 1
  /\ session = [s \in Session |-> IF s = 1 THEN NewSession ELSE NoSession]
  /\ background = {}
  /\ answer = [m \in MsgId |-> "none"] /\ lost = {} /\ interrupted = {}
  /\ covered = 0 /\ upto = 0 /\ confirmed = {}

-----------------------------------------------------------------------------
(* Clients: router peers put what they decode into the two channels.       *)

(* A client may name any session, but no uuid before it is made. *)
Known(id) == id \in Session => id <= spawned

Send(shape) ==
  /\ at # "ended" /\ sent < MaxRequests /\ Known(shape.id)
  /\ sent' = sent + 1
  /\ request' = [request EXCEPT ![sent + 1] = shape]
  /\ shell' = Append(shell, sent + 1)
  /\ UNCHANGED <<budget, control, signals, commands, failed, loopVars, tableVars, session, background, outcomeVars, historyVars>>

SendControl(shape) ==
  /\ at # "ended" /\ budget > 0 /\ Known(shape.id)
  /\ budget' = budget - 1
  /\ IF shape.type \in Signals
     THEN signals' = signals \cup {shape.type} /\ UNCHANGED control
     ELSE control' = Append(control, [type |-> shape.type, id |-> shape.id, upto |-> sent]) /\ UNCHANGED signals
  /\ UNCHANGED <<sent, request, shell, commands, failed, loopVars, tableVars, session, background, outcomeVars, historyVars>>

-----------------------------------------------------------------------------
(* The main loop: routing shell requests. *)

(* route_shell's choice of a session *)
RouteId(m) ==
  LET client == request[m].client
  IN  IF request[m].id # Parent THEN request[m].id
      ELSE IF Execute(m) /\ client \in DOMAIN route_overrides THEN route_overrides[client]
      ELSE Parent

(* shell.recv(), and try_recv() in route_pending_shells *)
TakeRequest ==
  /\ at \in {"select", "pending"} /\ shell # <<>>
  /\ msg' = Head(shell) /\ shell' = Tail(shell)
  /\ at' = "route"
  /\ UNCHANGED <<clientVars, control, signals, commands, failed, waiting, handling, todo, error, tableVars, session, background,
                 outcomeVars, historyVars>>

Routed ==
  /\ at' = IF handling = "none" THEN "select" ELSE "pending"
  /\ msg' = NoMsg
  /\ UNCHANGED <<clientVars, channelVars, waiting, handling, todo, error, route_overrides, background,
                 lost, interrupted, historyVars>>

(* create_subshell: an id that exists is returned as it is; for another    *)
(* one, or for none, a session is spawned and inserted.                    *)
Missing_Always(id) == TRUE
Missing(id) == id \notin DOMAIN shells \ {Parent}
CreationFails(id) == Missing(id) /\ (Faults \/ spawned = MaxShells)

NewShell == spawned + 1

Created(sessions, id, new) ==
  /\ spawned < MaxShells
  /\ spawned' = NewShell
  /\ shells' = With(shells, IF id = Parent THEN NewShell ELSE id, NewShell)
  /\ session' = [sessions EXCEPT ![NewShell] = new]

(* An explicit id that is missing is created; the request goes there. *)
RouteCreates ==
  LET id == RouteId(msg)
  IN  /\ at = "route" /\ request[msg].id # Parent /\ id \notin DOMAIN shells
      /\ Created(session, id, [NewSession EXCEPT !.incoming = {msg}])
      /\ UNCHANGED answer
      /\ Routed

(* The scheduler takes what is in its channel unless it waits for the      *)
(* language; then the channel may be full, and the main loop waits.        *)
HasRoom(s) == session[s].serving # NoMsg => Cardinality(session[s].incoming) < Capacity

RouteDelivers ==
  LET id == RouteId(msg)
      s == shells[id]
  IN  /\ at = "route" /\ id \in DOMAIN shells
      /\ Running(s) /\ HasRoom(s)
      /\ session' = [session EXCEPT ![s].incoming = @ \cup {msg}]
      /\ UNCHANGED <<shells, spawned, answer>>
      /\ Routed

Refusal_None == "none"
Refusal == "refused"   \* reply_subshell_error

(* The creation failed, there is no such session, or its task has ended.   *)
RouteRefuses ==
  LET id == RouteId(msg)
      explicit == request[msg].id # Parent
  IN  /\ at = "route"
      /\ IF id \in DOMAIN shells THEN ~Running(shells[id])
         ELSE explicit => CreationFails(id)
      /\ answer' = [answer EXCEPT ![msg] = Refusal]
      /\ UNCHANGED <<shells, spawned, session>>
      /\ Routed

-----------------------------------------------------------------------------
(* The main loop: ending, reaping, and commands of cells. *)

(* The loop returns; the sessions are stopped one after the other. *)
Leave(failure) ==
  /\ at' = "stop" /\ error' = (error \/ failure)
  /\ msg' = NoMsg /\ waiting' = NoShell /\ handling' = "none" /\ todo' = {}

(* A session's task has ended: its handle goes, and routes that name it.   *)
Reap(id) ==
  LET s == shells[id]
      ends == id = Parent \/ session[s].state = "failed"
  IN  /\ at = "select" /\ ~Running(s)
      /\ shells' = Without(shells, {id})
      /\ IF ends
         THEN Leave(session[s].state = "failed") /\ UNCHANGED route_overrides
         ELSE route_overrides' = Retained(id) /\ UNCHANGED loopVars
      /\ UNCHANGED <<clientVars, channelVars, spawned, session, background, outcomeVars, historyVars>>

(* A background task reported a failure. *)
FailureReported ==
  /\ at = "select" /\ failed
  /\ Leave(TRUE)
  /\ UNCHANGED <<clientVars, channelVars, tableVars, session, background, outcomeVars, historyVars>>

(* Sending the answer of a command wakes the cell, if it still waits.      *)
Woken(sessions, command, phase, id) ==
  IF sessions[command.caller].cell = command.msg
  THEN [sessions EXCEPT ![command.caller].phase = phase, ![command.caller].route = id]
  ELSE sessions

Commanded ==
  /\ at = "select" /\ commands' = Tail(commands)
  /\ UNCHANGED <<clientVars, shell, control, signals, failed, loopVars, outcomeVars, upto, covered>>

(* SessionCommand::Open: the client session gets a route, to a new session *)
(* or to one of that name.  A refusal raises in the cell, which goes on.   *)
OpenRefused ==
  LET command == Head(commands)
  IN  /\ commands # <<>> /\ command.type = "open"
      /\ command.client \in DOMAIN route_overrides
           \/ CreationFails(command.id)
      /\ session' = Woken(session, command, "running", Parent)
      /\ UNCHANGED <<tableVars, background, confirmed>>
      /\ Commanded

OpenRoute ==
  LET command == Head(commands)
      id == IF command.id = Parent THEN NewShell ELSE command.id
      woken == Woken(session, command, "routed", id)
  IN  /\ commands # <<>> /\ command.type = "open"
      /\ command.client \notin DOMAIN route_overrides
      /\ route_overrides' = With(route_overrides, command.client, id)
      /\ IF Missing(command.id) THEN Created(woken, command.id, NewSession)
         ELSE session' = woken /\ UNCHANGED <<shells, spawned>>
      /\ UNCHANGED <<background, confirmed>>
      /\ Commanded

(* The handle of a session that will be stopped leaves the table. *)
Detached_Not(id) == shells
Detached(id) == Without(shells, {id})

(* stop_in_background: whom to tell when the session has ended *)
StopTask(s, interrupt, client, caller, m) ==
  [shell |-> s, interrupt |-> interrupt, sent |-> FALSE, client |-> client, caller |-> caller, msg |-> m]

(* SessionCommand::Close *)
CloseRefused ==
  LET command == Head(commands)
  IN  /\ commands # <<>> /\ command.type = "close"
      /\ command.client \in DOMAIN route_overrides => route_overrides[command.client] # command.id
      /\ session' = Woken(session, command, "running", Parent)
      /\ UNCHANGED <<tableVars, background, confirmed>>
      /\ Commanded

CloseRoute ==
  LET command == Head(commands)
  IN  /\ commands # <<>> /\ command.type = "close"
      /\ command.client \in DOMAIN route_overrides /\ route_overrides[command.client] = command.id
      /\ route_overrides' = Without(route_overrides, {command.client})
      /\ IF command.delete /\ command.id \in DOMAIN shells
         THEN /\ shells' = Detached(command.id)
              /\ background' = background \cup
                   {StopTask(shells[command.id], FALSE, FALSE, command.caller, command.msg)}
              /\ UNCHANGED session
         ELSE /\ session' = Woken(session, command, "running", Parent)
              /\ UNCHANGED <<shells, background>>
      /\ UNCHANGED <<spawned, confirmed>>
      /\ Commanded

-----------------------------------------------------------------------------
(* The main loop: control requests. *)

TakeControl(types) ==
  /\ at = "select" /\ control # <<>> /\ Head(control).type \in types
  /\ control' = Tail(control)
  /\ UNCHANGED <<clientVars, shell, signals, commands, failed, outcomeVars, confirmed, covered>>

ShutdownRequest ==
  /\ TakeControl({"shutdown"})
  /\ Leave(FALSE)
  /\ UNCHANGED <<tableVars, session, background, upto>>

(* list_subshell_request, debug_request and the rest change nothing. *)
OtherRequest ==
  /\ TakeControl({"other"})
  /\ UNCHANGED <<loopVars, tableVars, session, background, upto>>

(* interrupt_request and release_request first route what is in the shell  *)
(* channel (route_pending_shells).                                         *)
FirstStep_Send == "each"
FirstStep == "pending"

BroadcastRequest ==
  /\ TakeControl({"interrupt", "release"})
  /\ handling' = Head(control).type /\ upto' = Head(control).upto
  /\ at' = FirstStep /\ todo' = Mapped
  /\ UNCHANGED <<msg, waiting, error, tableVars, session, background>>

(* A SIGINT interrupts the sessions as they are. *)
Interrupted ==
  /\ at = "select" /\ "SIGINT" \in signals
  /\ signals' = signals \ {"SIGINT"}
  /\ handling' = "SIGINT" /\ at' = "each" /\ todo' = Mapped
  /\ UNCHANGED <<clientVars, shell, control, commands, failed, msg, waiting, error, tableVars, session, background,
                 outcomeVars, historyVars>>

Terminated ==
  /\ at = "select" /\ "SIGTERM" \in signals
  /\ Leave(FALSE)
  /\ UNCHANGED <<clientVars, channelVars, tableVars, session, background, outcomeVars, historyVars>>

PendingRouted ==
  /\ at = "pending" /\ shell = <<>>
  /\ at' = "each" /\ todo' = Mapped
  /\ UNCHANGED <<clientVars, channelVars, msg, waiting, handling, error, tableVars, session, background, outcomeVars, historyVars>>

(* interrupt_shells, and the loop of release_request, which waits for each *)
(* session's answer.                                                       *)
SendToShell(s) ==
  /\ at = "each" /\ s \in todo /\ Running(s)
  /\ todo' = todo \ {s}
  /\ session' = [session EXCEPT ![s].controls = Append(@, IF handling = "release" THEN "release" ELSE "interrupt")]
  /\ IF handling = "release" THEN at' = "answer" /\ waiting' = s ELSE UNCHANGED <<at, waiting>>
  /\ UNCHANGED <<clientVars, channelVars, msg, handling, error, tableVars, background, outcomeVars, historyVars>>

(* The session has ended: the send fails, or its answer never comes, and   *)
(* the error leaves the main loop.                                         *)
SendFails ==
  /\ \/ at = "each" /\ \E s \in todo : ~Running(s)
     \/ at = "answer" /\ ~Running(waiting)
  /\ Leave(TRUE)
  /\ UNCHANGED <<clientVars, channelVars, tableVars, session, background, outcomeVars, historyVars>>

BroadcastDone ==
  /\ at = "each" /\ todo = {}
  /\ at' = "select" /\ handling' = "none"
  /\ covered' = IF handling = "interrupt" /\ upto > covered THEN upto ELSE covered
  /\ UNCHANGED <<clientVars, channelVars, msg, waiting, todo, error, tableVars, session, background, outcomeVars, upto, confirmed>>

(* create_subshell_request: an id that exists is confirmed, not replaced.  *)
CreateRequest ==
  LET id == Head(control).id
  IN  /\ TakeControl({"create"})
      /\ \/ Missing(id) /\ Created(session, id, NewSession)
         \/ (~Missing(id) \/ CreationFails(id)) /\ UNCHANGED <<shells, spawned, session>>
      /\ UNCHANGED <<loopVars, route_overrides, background, upto>>

(* delete_subshell_request, also without an id, which names the parent     *)
DeleteRequest ==
  LET id == Head(control).id
  IN  /\ TakeControl({"delete"})
      /\ IF id \in DOMAIN shells
         THEN /\ shells' = Detached(id)
              /\ route_overrides' = Retained(id)
              /\ background' = background \cup {StopTask(shells[id], TRUE, TRUE, 1, NoMsg)}
         ELSE UNCHANGED <<shells, route_overrides, background>>
      /\ UNCHANGED <<loopVars, spawned, session, upto>>

-----------------------------------------------------------------------------
(* Stopping sessions: in background tasks, and when the main loop is over. *)

StopMessages(interrupt) == (IF interrupt THEN <<"interrupt">> ELSE <<>>) \o <<"stop">>

StopControls(s, interrupt) ==
  [session EXCEPT ![s].controls = IF Running(s) THEN @ \o StopMessages(interrupt) ELSE @]

Finished(s) == ~Running(s)

BackgroundStops(task) ==
  /\ ~task.sent
  /\ session' = StopControls(task.shell, task.interrupt)
  /\ background' = (background \ {task}) \cup {[task EXCEPT !.sent = TRUE]}
  /\ UNCHANGED <<clientVars, channelVars, loopVars, tableVars, outcomeVars, historyVars>>

(* The task has joined the session: the client or the cell is told.  Of a  *)
(* failure the main loop is told, and the cell gets an error, because its  *)
(* `complete` is dropped.                                                  *)
BackgroundDone(task) ==
  /\ task.sent /\ Finished(task.shell)
  /\ background' = background \ {task}
  /\ session' = IF task.client THEN session ELSE Woken(session, task, "running", Parent)
  /\ IF session[task.shell].state = "failed"
     THEN failed' = TRUE /\ UNCHANGED confirmed
     ELSE confirmed' = confirmed \cup {task.shell} /\ UNCHANGED failed
  /\ UNCHANGED <<clientVars, shell, control, signals, commands, loopVars, tableVars, outcomeVars, covered, upto>>

(* The loop over shells.drain(): each is stopped and joined in turn. *)
StopNext(id) ==
  /\ at = "stop"
  /\ at' = "join" /\ waiting' = shells[id]
  /\ session' = StopControls(shells[id], TRUE)
  /\ shells' = Without(shells, {id})
  /\ UNCHANGED <<clientVars, channelVars, msg, handling, todo, error, route_overrides, spawned, background,
                 outcomeVars, historyVars>>

Joined ==
  /\ at = "join" /\ Finished(waiting)
  /\ at' = "stop" /\ waiting' = NoShell /\ error' = (error \/ session[waiting].state = "failed")
  /\ UNCHANGED <<clientVars, channelVars, msg, handling, todo, tableVars, session, background, outcomeVars, historyVars>>

(* run_kernel_with_interrupter returns; what its channels hold is dropped. *)
Exit ==
  /\ at = "stop" /\ shells = [id \in {} |-> 1]
  /\ at' = "ended"
  /\ shell' = <<>> /\ control' = <<>> /\ commands' = <<>>
  /\ lost' = lost \cup {shell[i] : i \in DOMAIN shell}
  /\ UNCHANGED <<clientVars, signals, failed, msg, waiting, handling, todo, error, tableVars, session, background, answer,
                 interrupted, historyVars>>

-----------------------------------------------------------------------------
(* The sessions: schedulers (module Shell) and the cells they run. *)

Alive(s) == at # "ended" /\ Running(s)
Change(s, new) == session' = [session EXCEPT ![s] = new]

loopAndTable == <<clientVars, shell, control, signals, failed, loopVars, tableVars, background, historyVars>>

(* A scheduler that does not wait for the language takes its channel.      *)
Drain(s) ==
  /\ Alive(s) /\ session[s].serving = NoMsg /\ session[s].incoming # {}
  /\ Change(s, [session[s] EXCEPT !.incoming = {}, !.queue = @ \cup session[s].incoming])
  /\ UNCHANGED <<loopAndTable, commands, outcomeVars>>

StartCell(s, m) ==
  /\ Alive(s) /\ session[s].serving = NoMsg /\ m \in session[s].queue
  /\ Execute(m) /\ session[s].cell = NoMsg
  /\ Change(s, [session[s] EXCEPT !.queue = @ \ {m}, !.cell = m,
                  !.phase = IF request[m].uses = "none" THEN "running" ELSE "before"])
  /\ UNCHANGED <<loopAndTable, commands, outcomeVars>>

Serve(s, m) ==
  /\ Alive(s) /\ session[s].serving = NoMsg /\ m \in session[s].queue
  /\ request[m].type = "service"
  /\ Change(s, [session[s] EXCEPT !.queue = @ \ {m}, !.serving = m])
  /\ UNCHANGED <<loopAndTable, commands, outcomeVars>>

Served(s) ==
  /\ Alive(s) /\ session[s].serving # NoMsg
  /\ ServicesWait => session[s].cell = NoMsg
  /\ answer' = [answer EXCEPT ![session[s].serving] = "ok"]
  /\ Change(s, [session[s] EXCEPT !.serving = NoMsg])
  /\ UNCHANGED <<loopAndTable, commands, lost, interrupted>>

(* Everything a session keeps; all of it is dropped when its task ends.    *)
KeptBy(s) == session[s].incoming \cup session[s].queue \cup ({session[s].serving, session[s].cell} \ {NoMsg})

End(s, state) ==
  /\ Change(s, [NoSession EXCEPT !.state = state])
  /\ UNCHANGED <<loopAndTable, commands, interrupted>>

(* A shutdown_request on the shell channel ends its session only.          *)
ShutDown(s, m) ==
  /\ Alive(s) /\ session[s].serving = NoMsg /\ m \in session[s].queue
  /\ request[m].type = "shutdown"
  /\ answer' = [answer EXCEPT ![m] = "ok"]
  /\ lost' = lost \cup (KeptBy(s) \ {m})
  /\ End(s, "shutdown")

(* A Stop is obeyed when the queue is empty and no cell runs; a request    *)
(* that came after the last drain is dropped.                              *)
Stop(s) ==
  /\ Alive(s) /\ session[s].stopping
  /\ session[s].serving = NoMsg /\ session[s].cell = NoMsg /\ session[s].queue = {}
  /\ lost' = lost \cup KeptBy(s)
  /\ End(s, "ended") /\ UNCHANGED answer

SessionFails(s) ==
  /\ Faults /\ Alive(s)
  /\ lost' = lost \cup KeptBy(s)
  /\ End(s, "failed") /\ UNCHANGED answer

(* An Interrupt aborts the executes that wait and reaches the cell. *)
ApplyInterrupt(s) ==
  LET waiting_executes == {m \in session[s].incoming \cup session[s].queue : Execute(m)}
  IN  /\ Alive(s) /\ session[s].serving = NoMsg
      /\ session[s].controls # <<>> /\ Head(session[s].controls) = "interrupt"
      /\ answer' = [m \in MsgId |-> IF m \in waiting_executes THEN "aborted" ELSE answer[m]]
      /\ interrupted' = interrupted \cup ({session[s].cell} \ {NoMsg})
      /\ Change(s, [session[s] EXCEPT !.incoming = {}, !.controls = Tail(@),
                      !.queue = (@ \cup session[s].incoming) \ waiting_executes])
      /\ UNCHANGED <<loopAndTable, commands, lost>>

(* The answer to a Release goes to the main loop, which waits for it. *)
Answers_Never(s) == FALSE
Answers(s) == at = "answer" /\ waiting = s

ApplyRelease(s) ==
  /\ Alive(s) /\ session[s].serving = NoMsg
  /\ session[s].controls # <<>> /\ Head(session[s].controls) = "release"
  /\ Change(s, [session[s] EXCEPT !.controls = Tail(@)])
  /\ IF Answers(s) THEN at' = "each" /\ waiting' = NoShell ELSE UNCHANGED <<at, waiting>>
  /\ UNCHANGED <<clientVars, channelVars, msg, handling, todo, error, tableVars, background, outcomeVars, historyVars>>

ApplyStop(s) ==
  /\ Alive(s) /\ session[s].serving = NoMsg
  /\ session[s].controls # <<>> /\ Head(session[s].controls) = "stop"
  /\ Change(s, [session[s] EXCEPT !.controls = Tail(@), !.stopping = TRUE])
  /\ UNCHANGED <<loopAndTable, commands, outcomeVars>>

(* open_subshell and close_subshell send a command and wait for the answer. *)
Call(s, type, id, delete) ==
  commands' = Append(commands, [type |-> type, client |-> request[session[s].cell].client, id |-> id,
                                delete |-> delete, caller |-> s, msg |-> session[s].cell])

CellOpens(s) ==
  /\ Alive(s) /\ session[s].cell # NoMsg /\ session[s].phase = "before"
  /\ Call(s, "open", IF request[session[s].cell].uses = "sidecar" THEN Sidecar ELSE Parent, FALSE)
  /\ Change(s, [session[s] EXCEPT !.phase = "opening"])
  /\ UNCHANGED <<loopAndTable, outcomeVars>>

BodyEnds(s) == request[session[s].cell].endless => session[s].cell \in interrupted

(* The body of the with statement is over, normally or by the interrupt.   *)
CellCloses(s) ==
  /\ Alive(s) /\ session[s].cell # NoMsg /\ session[s].phase = "routed"
  /\ BodyEnds(s)
  /\ Call(s, "close", session[s].route, request[session[s].cell].uses = "subshell")
  /\ Change(s, [session[s] EXCEPT !.phase = "closing"])
  /\ UNCHANGED <<loopAndTable, outcomeVars>>

CellEnds(s) ==
  /\ Alive(s) /\ session[s].cell # NoMsg /\ session[s].phase = "running"
  /\ BodyEnds(s)
  /\ answer' = [answer EXCEPT ![session[s].cell] = "ok"]
  /\ Change(s, [session[s] EXCEPT !.cell = NoMsg, !.route = Parent])
  /\ UNCHANGED <<loopAndTable, commands, lost, interrupted>>

-----------------------------------------------------------------------------
Client == (\E shape \in Shapes : Send(shape)) \/ (\E shape \in ControlShapes : SendControl(shape))

MainLoop ==
  \/ TakeRequest \/ RouteCreates \/ RouteDelivers \/ RouteRefuses
  \/ (\E id \in DOMAIN shells : Reap(id)) \/ FailureReported
  \/ OpenRefused \/ OpenRoute \/ CloseRefused \/ CloseRoute
  \/ ShutdownRequest \/ OtherRequest \/ BroadcastRequest \/ Interrupted \/ Terminated
  \/ PendingRouted \/ (\E s \in todo : SendToShell(s)) \/ SendFails \/ BroadcastDone
  \/ CreateRequest \/ DeleteRequest
  \/ (\E id \in DOMAIN shells : StopNext(id)) \/ Joined \/ Exit

Background == \E task \in background : BackgroundStops(task) \/ BackgroundDone(task)

Scheduler(s) ==
  \/ Drain(s) \/ Served(s) \/ Stop(s)
  \/ \E m \in session[s].queue : StartCell(s, m) \/ Serve(s, m) \/ ShutDown(s, m)
  \/ ApplyInterrupt(s) \/ ApplyRelease(s) \/ ApplyStop(s)

Cell(s) == CellOpens(s) \/ CellCloses(s) \/ CellEnds(s)

Next ==
  \/ Client \/ MainLoop \/ Background
  \/ \E s \in Session : Scheduler(s) \/ Cell(s) \/ SessionFails(s)

Spec == Init /\ [][Next]_vars

(* The runtime polls the main loop, the background tasks and the sessions; *)
(* cells make progress, an endless one when it is interrupted.             *)
FairSpec ==
  /\ Spec
  /\ WF_vars(MainLoop) /\ WF_vars(Background)
  /\ \A s \in Session : WF_vars(Scheduler(s)) /\ WF_vars(Cell(s))

-----------------------------------------------------------------------------
(* Properties. *)

SessionState ==
  [state : {"none", "running", "ended", "failed", "shutdown"},
   incoming : SUBSET MsgId, queue : SUBSET MsgId, controls : Seq({"interrupt", "release", "stop"}),
   stopping : BOOLEAN, serving : 0 .. MaxRequests, cell : 0 .. MaxRequests,
   phase : {"before", "opening", "routed", "closing", "running"}, route : Ids]
Command == [type : {"open", "close"}, client : Clients, id : Ids, delete : BOOLEAN,
            caller : Session, msg : MsgId]
BackgroundTask == [shell : Session, interrupt : BOOLEAN, sent : BOOLEAN, client : BOOLEAN,
                   caller : Session, msg : 0 .. MaxRequests]

(* Every variable keeps its type. *)
TypeOK ==
  /\ sent \in 0 .. MaxRequests /\ request \in [MsgId -> Request] /\ budget \in 0 .. MaxControls
  /\ shell \in Seq(MsgId) /\ commands \in Seq(Command) /\ failed \in BOOLEAN
  /\ control \in Seq([type : {"shutdown", "interrupt", "create", "delete", "release", "other"},
                      id : Ids, upto : 0 .. MaxRequests])
  /\ signals \subseteq Signals
  /\ at \in {"select", "route", "pending", "each", "answer", "stop", "join", "ended"}
  /\ msg \in 0 .. MaxRequests /\ waiting \in 0 .. MaxShells
  /\ handling \in {"none", "interrupt", "release", "SIGINT"} /\ todo \subseteq Session
  /\ DOMAIN shells \subseteq Ids /\ Mapped \subseteq Session
  /\ DOMAIN route_overrides \subseteq Clients
  /\ \A c \in DOMAIN route_overrides : route_overrides[c] \in Ids
  /\ spawned \in Session
  /\ session \in [Session -> SessionState]
  /\ background \subseteq BackgroundTask
  /\ answer \in [MsgId -> {"none", "ok", "aborted", "refused"}]
  /\ lost \subseteq MsgId /\ interrupted \subseteq MsgId
  /\ covered \in 0 .. MaxRequests /\ upto \in 0 .. MaxRequests
  /\ error \in BOOLEAN /\ confirmed \subseteq Session

Serving == at \notin {"stop", "join", "ended"}
InShell == {shell[i] : i \in DOMAIN shell} \cup ({msg} \ {NoMsg})
Kept == InShell \cup UNION {KeptBy(s) : s \in Session}

(* Every shell request that was sent is in one place: with the main loop,  *)
(* with one session, answered, or dropped with its session or the kernel.  *)
Accounted ==
  /\ \A m \in 1 .. sent : (m \in Kept) <=> (answer[m] = "none" /\ m \notin lost)
  /\ \A s, t \in Session : s # t => KeptBy(s) \cap (KeptBy(t) \cup InShell) = {}

(* No session is forgotten: one that runs is in the table, or some task is *)
(* stopping it and its deletion is not confirmed yet, to the client or the *)
(* cell that asked for it.                                                 *)
NoOrphans ==
  \A s \in Session : Running(s) =>
    /\ s \in Mapped \cup {task.shell : task \in background} \cup {waiting}
    /\ s \notin confirmed

(* While the kernel serves, a client session's route names a session of    *)
(* the table, whatever clients delete and cells close.                     *)
RoutesLive ==
  Serving => \A c \in DOMAIN route_overrides : route_overrides[c] \in DOMAIN shells

(* The kernel does not fail of itself: the main loop returns an error only *)
(* after a session failed, or was shut down through the shell channel.     *)
KernelSurvives == error => \E s \in Session : session[s].state \in {"failed", "shutdown"}

(* An interrupt_request that was served reaches every execute sent before  *)
(* it: it was answered, or interrupted, or its session has the Interrupt   *)
(* in its channel.  The exception is a session that a cell is closing.     *)
InterruptComes(s) ==
  \/ \E i \in DOMAIN session[s].controls : session[s].controls[i] = "interrupt"
  \/ \E task \in background : task.shell = s /\ task.interrupt /\ ~task.sent
ClosedByCell(s) == \E task \in background : task.shell = s /\ ~task.interrupt
Reached(m) == answer[m] # "none" \/ m \in lost \cup interrupted

InterruptReachesSessions ==
  \A m \in 1 .. covered :
    Execute(m) => Reached(m) \/ \E s \in Session : m \in KeptBy(s) /\ (InterruptComes(s) \/ ClosedByCell(s))

(* Control requests are taken and handled to their end, unless the kernel  *)
(* stops: the main loop does not wait for ever for a session.              *)
Handled == control = <<>> /\ handling = "none"
ControlsServed == ~Handled ~> (Handled \/ ~Serving)


=============================================================================
