----------------------------- MODULE KernelProofs -----------------------------
(***************************************************************************)
(* Proofs about the kernel's main loop, for any clients, requests, control *)
(* requests and numbers of sessions.  A session that is made has a number  *)
(* and an id nobody has used before (Fresh), the table holds each session  *)
(* once and none that was told to stop (Table), and a route to a session   *)
(* that a cell has made for itself belongs to that cell's client alone     *)
(* (Routes).  The second part follows a request through the kernel: every  *)
(* place holds it once and no two hold it (Own), and an interrupt that is  *)
(* handled has reached it or will be sent where it is (Told).              *)
(***************************************************************************)
EXTENDS Kernel, TLAPS

(* Every request that is anywhere was sent. *)
Within ==
  /\ \A n \in DOMAIN shell : shell[n] <= sent
  /\ msg <= sent /\ (at = "route" => msg # NoMsg)
  /\ \A s \in Session : session[s].cell <= sent
  /\ \A s \in Session : \A m \in session[s].incoming \cup session[s].queue : m <= sent
  /\ \A n \in DOMAIN commands : commands[n].msg <= sent

(* What the main loop has in hand goes with the place where it is. *)
Hand ==
  /\ at \in {"select", "stop", "join", "ended"} => handling = "none"
  /\ at = "pending" => handling # "none"
  /\ handling = "none" => todo = {}
  /\ todo \subseteq Mapped
  /\ at = "answer" => waiting \in Mapped
  /\ at = "join" => waiting \in Session
  /\ at \notin {"answer", "join"} => waiting = NoShell

(* Numbers and uuids are used once. *)
Fresh ==
  /\ \A s \in Session : s > spawned => session[s].state = "none"
  /\ \A id \in DOMAIN shells : shells[id] <= spawned /\ Known(id)
  /\ \A task \in background : task.shell <= spawned
  /\ \A s \in confirmed : s <= spawned
  /\ \A m \in 1 .. sent : Known(request[m].id)
  /\ \A n \in DOMAIN control : Known(control[n].id)
  /\ \A n \in DOMAIN commands : Known(commands[n].id)
  /\ \A s \in Session : Known(session[s].route)

(* A session of the table is there once, and was not told to stop. *)
Table ==
  /\ \A i, j \in DOMAIN shells : shells[i] = shells[j] => i = j
  /\ \A id \in DOMAIN shells :
       LET s == shells[id] IN
       /\ session[s].state \in {"running", "failed", "shutdown"}
       /\ ~session[s].stopping /\ \A n \in DOMAIN session[s].controls : session[s].controls[n] # "stop"
       /\ \A task \in background : task.shell # s

(* A cell that deletes the session it closes has made it. *)
Routes ==
  /\ \A c, d \in DOMAIN route_overrides :
       route_overrides[c] = route_overrides[d] /\ route_overrides[c] \in Session => c = d
  /\ \A n \in DOMAIN commands :
       LET command == commands[n] IN
       /\ command.type = "open" =>
            command.id = IF request[command.msg].uses = "sidecar" THEN Sidecar ELSE Parent
       /\ command.type = "close" /\ command.delete => command.id \in Session
  /\ \A s \in Session :
       session[s].cell # NoMsg /\ session[s].phase = "routed" /\ request[session[s].cell].uses = "subshell" =>
         session[s].route \in Session

Faulty == failed => \E s \in Session : session[s].state = "failed"

IInv == TypeOK /\ Within /\ Hand /\ Fresh /\ Table /\ Routes /\ Faulty /\ NoOrphans /\ RoutesLive /\ KernelSurvives
(* The parts of the type invariant, by the variables they are about. *)
ClientType == sent \in 0 .. MaxRequests /\ request \in [MsgId -> Request] /\ budget \in 0 .. MaxControls
ControlMessage == [type : {"shutdown", "interrupt", "create", "delete", "release", "other"}, id : Ids, upto : 0 .. MaxRequests]
ChannelType ==
  /\ shell \in Seq(MsgId) /\ commands \in Seq(Command) /\ failed \in BOOLEAN
  /\ control \in Seq(ControlMessage) /\ signals \subseteq Signals
LoopType ==
  /\ at \in {"select", "route", "pending", "each", "answer", "stop", "join", "ended"}
  /\ msg \in 0 .. MaxRequests /\ waiting \in 0 .. MaxShells
  /\ handling \in {"none", "interrupt", "release", "SIGINT"} /\ todo \subseteq Session /\ error \in BOOLEAN
TableType ==
  /\ DOMAIN shells \subseteq Ids /\ \A id \in DOMAIN shells : shells[id] \in Session
  /\ DOMAIN route_overrides \subseteq Clients /\ \A c \in DOMAIN route_overrides : route_overrides[c] \in Ids
  /\ spawned \in Session
OutcomeType ==
  /\ answer \in [MsgId -> {"none", "ok", "aborted", "refused"}] /\ lost \subseteq MsgId /\ interrupted \subseteq MsgId
HistoryType == covered \in 0 .. MaxRequests /\ upto \in 0 .. MaxRequests /\ confirmed \subseteq Session

(* Leaves are given to Zenon; those that need the SMT solver name it.      *)
USE ZenonT(30) DEF clientVars, channelVars, loopVars, tableVars, outcomeVars, historyVars, NoMsg, NoShell, Running

-----------------------------------------------------------------------------
(* The type invariant is the conjunction of its parts. *)
LEMMA TypeParts ==
  TypeOK <=> /\ ClientType /\ ChannelType /\ LoopType /\ TableType /\ OutcomeType /\ HistoryType
             /\ session \in [Session -> SessionState] /\ background \subseteq BackgroundTask
  BY DEF TypeOK, ClientType, ChannelType, LoopType, TableType, OutcomeType, HistoryType, Mapped, ControlMessage

(* The same of the next state. *)
LEMMA TypePartsNext ==
  TypeOK' <=> /\ ClientType' /\ ChannelType' /\ LoopType' /\ TableType' /\ OutcomeType' /\ HistoryType'
              /\ session' \in [Session -> SessionState] /\ background' \subseteq BackgroundTask
  BY DEF TypeOK, ClientType, ChannelType, LoopType, TableType, OutcomeType, HistoryType, Mapped, ControlMessage

(* Small facts about the constants. *)
LEMMA Constants ==
  /\ MaxRequests \in Nat /\ MaxControls \in Nat /\ MaxShells \in Nat \ {0} /\ 1 \in Session
  /\ \A s \in Session : s \in Int /\ s # NoShell /\ s > 0 /\ s <= MaxShells
  /\ Parent \notin Session /\ Sidecar \notin Session /\ Parent \in Ids /\ Sidecar \in Ids /\ Session \subseteq Ids
  BY KernelAssumption, SMTT(30) DEF Session, Parent, Sidecar, Ids, Names

(* What a session is before and when it is made. *)
LEMMA NewSessions == NewSession \in SessionState /\ NoSession \in SessionState
  <1>1. NewSession \in SessionState
    <2>1. Parent \in Ids /\ NoMsg \in 0 .. MaxRequests /\ {} \in SUBSET MsgId /\ <<>> \in Seq({"interrupt", "release", "stop"})
      BY Constants, SMTT(30)
    <2> QED
      BY <2>1 DEF NewSession, SessionState
  <1>2. NoSession = [NewSession EXCEPT !.state = "none"]
    BY DEF NoSession
  <1> QED
    BY <1>1, <1>2 DEF SessionState

(* The invariant holds when the kernel starts. *)
LEMMA InitInv == Init => IInv
  <1> SUFFICES ASSUME Init PROVE IInv
    OBVIOUS
  <1>0. /\ sent = 0 /\ budget = MaxControls /\ shell = <<>> /\ control = <<>> /\ signals = {} /\ commands = <<>>
        /\ failed = FALSE /\ at = "select" /\ msg = NoMsg /\ waiting = NoShell /\ handling = "none" /\ todo = {}
        /\ error = FALSE /\ shells = [id \in {Parent} |-> 1] /\ route_overrides = [c \in {} |-> Parent] /\ spawned = 1
        /\ session = [s \in Session |-> IF s = 1 THEN NewSession ELSE NoSession] /\ background = {}
        /\ answer = [m \in MsgId |-> "none"] /\ lost = {} /\ interrupted = {} /\ covered = 0 /\ upto = 0 /\ confirmed = {}
    BY DEF Init
  <1>1. request \in [MsgId -> Request]
    BY KernelAssumption DEF Init
  <1>2. session \in [Session -> SessionState]
    BY <1>0, NewSessions
  <1>3. \A s \in Session : /\ session[s].cell = NoMsg /\ session[s].incoming = {} /\ session[s].queue = {}
                           /\ session[s].route = Parent /\ session[s].controls = <<>> /\ ~session[s].stopping
                           /\ session[s].state = IF s = 1 THEN "running" ELSE "none"
    BY <1>0 DEF NewSession, NoSession
  <1>4. TypeOK
    <2>1. ClientType
      BY <1>0, <1>1, Constants, SMTT(30) DEF ClientType
    <2>b. failed \in BOOLEAN /\ error \in BOOLEAN
      BY <1>0, Zenon
    <2>2. ChannelType
      BY <1>0, <2>b, SMTT(30) DEF ChannelType
    <2>3. LoopType
      BY <1>0, <2>b, Constants, SMTT(30) DEF LoopType
    <2>6. HistoryType
      BY <1>0, Constants, SMTT(30) DEF HistoryType
    <2>4. OutcomeType
      BY <1>0 DEF OutcomeType
    <2>5. TableType
      BY <1>0, Constants DEF TableType
    <2> QED
      BY <1>0, <1>2, <2>1, <2>2, <2>3, <2>4, <2>5, <2>6, TypeParts
  <1>5. Within /\ Hand
    BY <1>0, <1>3, Constants, SMTT(30) DEF Within, Hand
  <1>6. Fresh
    BY <1>0, <1>3, Constants, SMTT(30) DEF Fresh, Known
  <1>7. Table
    BY <1>0, <1>3, Constants, SMTT(30) DEF Table
  <1>8. Routes /\ Faulty /\ KernelSurvives
    BY <1>0, <1>3, SMTT(30) DEF Routes, Faulty, KernelSurvives
  <1>9. NoOrphans /\ RoutesLive
    BY <1>0, <1>3 DEF NoOrphans, RoutesLive, Mapped
  <1> QED
    BY <1>4, <1>5, <1>6, <1>7, <1>8, <1>9 DEF IInv

-----------------------------------------------------------------------------
(* Steps of one session. *)

(* A session that was told to stop, or will be when it reads its channel.  *)
ToldToStop(r) == r.stopping \/ \E n \in DOMAIN r.controls : r.controls[n] = "stop"

(* What may become of a session in a step of its own: it ends only when it *)
(* was told to, and nobody is told to stop by the step.                    *)
Successor(s, new) ==
  /\ new \in SessionState
  /\ new.state \in {"running", "ended", "failed", "shutdown"}
  /\ new.state = "ended" => ToldToStop(session[s])
  /\ ToldToStop(new) => ToldToStop(session[s])
  /\ new.cell <= sent /\ \A m \in new.incoming \cup new.queue : m <= sent
  /\ Known(new.route)
  /\ new.cell # NoMsg /\ new.phase = "routed" /\ request[new.cell].uses = "subshell" => new.route \in Session

(* What a command may be. *)
Sound(command) ==
  /\ command \in Command /\ command.msg <= sent /\ Known(command.id)
  /\ command.type = "open" => command.id = IF request[command.msg].uses = "sidecar" THEN Sidecar ELSE Parent
  /\ command.type = "close" /\ command.delete => command.id \in Session

(* The main loop's place after a step of a session: the same, or past the  *)
(* answer it waited for.                                                   *)
Onward == \/ at' = at /\ waiting' = waiting
          \/ at = "answer" /\ at' = "each" /\ waiting' = NoShell

(* The rest of the kernel is as it was. *)
Aside == UNCHANGED <<clientVars, shell, control, signals, failed, msg, handling, todo, error, tableVars, background, historyVars>>

(* What a session's record is made of, and what the invariant says of it.  *)
LEMMA SessionFacts ==
  ASSUME IInv, NEW s \in Session
  PROVE  /\ session[s] \in SessionState
         /\ session[s].state \in {"none", "running", "ended", "failed", "shutdown"}
         /\ session[s].incoming \subseteq MsgId /\ session[s].queue \subseteq MsgId
         /\ session[s].controls \in Seq({"interrupt", "release", "stop"}) /\ session[s].stopping \in BOOLEAN
         /\ session[s].serving \in 0 .. MaxRequests /\ session[s].cell \in 0 .. MaxRequests
         /\ session[s].phase \in {"before", "opening", "routed", "closing", "running"} /\ session[s].route \in Ids
         /\ session[s].cell <= sent /\ Known(session[s].route)
         /\ \A m \in session[s].incoming \cup session[s].queue : m <= sent
         /\ session[s].cell # NoMsg /\ session[s].phase = "routed" /\ request[session[s].cell].uses = "subshell" =>
              session[s].route \in Session
  <1>1. session[s] \in SessionState
    BY TypeParts DEF IInv
  <1>2. session[s].cell <= sent /\ \A m \in session[s].incoming \cup session[s].queue : m <= sent
    BY DEF IInv, Within
  <1>3. Known(session[s].route)
    BY DEF IInv, Fresh
  <1>4. session[s].cell # NoMsg /\ session[s].phase = "routed" /\ request[session[s].cell].uses = "subshell" =>
              session[s].route \in Session
    BY DEF IInv, Routes
  <1> QED
    BY <1>1, <1>2, <1>3, <1>4 DEF SessionState

(* What Tail leaves of a sequence. *)
LEMMA TailFacts ==
  ASSUME NEW S, NEW q \in Seq(S), q # <<>>
  PROVE  /\ Tail(q) \in Seq(S) /\ Head(q) \in S /\ 1 \in DOMAIN q /\ Head(q) = q[1]
         /\ \A n \in DOMAIN Tail(q) : n + 1 \in DOMAIN q /\ Tail(q)[n] = q[n + 1]
  BY SMTT(30)

(* What Append adds to a sequence. *)
LEMMA AppendFacts ==
  ASSUME NEW S, NEW q \in Seq(S), NEW x \in S
  PROVE  /\ Append(q, x) \in Seq(S)
         /\ \A n \in DOMAIN Append(q, x) : (n \in DOMAIN q /\ Append(q, x)[n] = q[n]) \/ Append(q, x)[n] = x
         /\ x = Append(q, x)[Len(q) + 1] /\ Len(q) + 1 \in DOMAIN Append(q, x)
  BY SMTT(30)

(* The steps of a session preserve the invariant. *)
LEMMA SessionSteps ==
  ASSUME IInv, \E s \in Session : Scheduler(s) \/ Cell(s) \/ SessionFails(s)
  PROVE  IInv'
  (* A step of one session preserves the invariant. *)
  <1>SessionInv. ASSUME NEW s \in Session, NEW new, Running(s), Successor(s, new),
                        session' = [session EXCEPT ![s] = new], Aside, Onward, OutcomeType',
                        commands' = commands \/ \E command : Sound(command) /\ commands' = Append(commands, command)
                 PROVE  IInv'
    <2> USE <1>SessionInv
    <2>0. /\ ClientType /\ ChannelType /\ LoopType /\ TableType /\ HistoryType
          /\ session \in [Session -> SessionState] /\ background \subseteq BackgroundTask
      BY TypeParts DEF IInv
    <2>1. /\ sent' = sent /\ request' = request /\ budget' = budget /\ shell' = shell /\ control' = control
          /\ signals' = signals /\ failed' = failed /\ msg' = msg /\ handling' = handling /\ todo' = todo /\ error' = error
          /\ shells' = shells /\ route_overrides' = route_overrides /\ spawned' = spawned /\ background' = background
          /\ covered' = covered /\ upto' = upto /\ confirmed' = confirmed
      BY DEF Aside
    <2>2. new \in SessionState /\ session'[s] = new
      BY <2>0 DEF Successor
    <2>3. \A t \in Session : t # s => session'[t] = session[t]
      BY <2>0
    <2>4. commands' \in Seq(Command)
      BY <2>0, SMTT(30) DEF Sound, ChannelType
    <2>5. \A n \in DOMAIN commands' : (n \in DOMAIN commands /\ commands'[n] = commands[n]) \/ Sound(commands'[n])
      <3>1. CASE commands' = commands
        BY <3>1
      <3>2. CASE \E command : Sound(command) /\ commands' = Append(commands, command)
        <4>1. PICK command : Sound(command) /\ commands' = Append(commands, command)
          BY <3>2
        <4>2. commands \in Seq(Command) /\ command \in Command
          BY <2>0, <4>1 DEF ChannelType, Sound
        <4>3. \A n \in DOMAIN commands' : (n \in DOMAIN commands /\ commands'[n] = commands[n]) \/ commands'[n] = command
          BY <4>1, <4>2, SMTT(30)
        <4> QED
          BY <4>1, <4>3
      <3> QED
        BY <3>1, <3>2
    <2>6. TypeOK'
      <3>1. ClientType' /\ TableType' /\ HistoryType'
        BY <2>0, <2>1 DEF ClientType, TableType, HistoryType
      <3>2. ChannelType'
        BY <2>0, <2>1, <2>4 DEF ChannelType, ControlMessage
      <3>3. LoopType'
        BY <2>0, <2>1, Constants, SMTT(30) DEF LoopType, Onward
      <3>4. session' \in [Session -> SessionState]
        BY <2>0, <2>2
      <3> QED
        BY <2>0, <2>1, <3>1, <3>2, <3>3, <3>4, TypePartsNext
    <2>7. Within'
      <3>1. Within
        BY DEF IInv
      <3>2. \A t \in Session : session'[t].cell <= sent /\ \A m \in session'[t].incoming \cup session'[t].queue : m <= sent
        BY <2>2, <2>3, <3>1 DEF Within, Successor
      <3>3. \A n \in DOMAIN commands' : commands'[n].msg <= sent
        BY <2>5, <3>1 DEF Within, Sound
      <3> QED
        BY <2>1, <3>1, <3>2, <3>3 DEF Within, Onward
    <2>8. Hand'
      BY <2>1 DEF IInv, Hand, Onward, Mapped
    <2>9. Fresh'
      <3>1. Fresh
        BY DEF IInv
      <3>2. \A n \in DOMAIN commands' : Known(commands'[n].id)
        BY <2>5, <3>1 DEF Fresh, Sound
      <3>3. \A t \in Session : Known(session'[t].route) /\ (t > spawned => session'[t].state = "none")
        BY <2>2, <2>3, <3>1 DEF Fresh, Successor
      <3> QED
        BY <2>1, <3>1, <3>2, <3>3 DEF Fresh, Known
    <2>10. Table'
      <3>1. Table
        BY DEF IInv
      <3> SUFFICES ASSUME NEW id \in DOMAIN shells
                   PROVE  /\ session'[shells[id]].state \in {"running", "failed", "shutdown"} /\ ~ToldToStop(session'[shells[id]])
                          /\ \A task \in background : task.shell # shells[id]
        BY <2>1, <3>1, SMTT(30) DEF Table, ToldToStop
      <3>2. /\ session[shells[id]].state \in {"running", "failed", "shutdown"} /\ ~ToldToStop(session[shells[id]])
            /\ \A task \in background : task.shell # shells[id]
        BY <3>1 DEF Table, ToldToStop
      <3>3. shells[id] \in Session
        BY <2>0 DEF TableType
      <3> QED
        BY <2>2, <2>3, <3>2, <3>3 DEF Successor
    <2>11. Routes'
      <3>1. Routes
        BY DEF IInv
      <3>2. \A n \in DOMAIN commands' :
              /\ commands'[n].type = "open" =>
                   commands'[n].id = IF request[commands'[n].msg].uses = "sidecar" THEN Sidecar ELSE Parent
              /\ commands'[n].type = "close" /\ commands'[n].delete => commands'[n].id \in Session
        BY <2>5, <3>1 DEF Routes, Sound
      <3>3. \A t \in Session :
              session'[t].cell # NoMsg /\ session'[t].phase = "routed" /\ request[session'[t].cell].uses = "subshell" =>
                session'[t].route \in Session
        BY <2>2, <2>3, <3>1 DEF Routes, Successor
      <3> QED
        BY <2>1, <3>1, <3>2, <3>3 DEF Routes
    <2>12. Faulty' /\ KernelSurvives'
      <3>1. \A t \in Session : session[t].state \in {"failed", "shutdown"} => session'[t].state = session[t].state
        BY <2>3
      <3> QED
        BY <2>1, <3>1 DEF IInv, Faulty, KernelSurvives
    <2>13. NoOrphans'
      <3>1. NoOrphans /\ Hand
        BY DEF IInv
      <3> SUFFICES ASSUME NEW t \in Session, session'[t].state = "running"
                   PROVE  t \in Mapped' \cup {task.shell : task \in background'} \cup {waiting'} /\ t \notin confirmed'
        BY DEF NoOrphans
      <3>2. session[t].state = "running"
        BY <2>3
      <3>3. t \in Mapped \cup {task.shell : task \in background} \cup {waiting} /\ t \notin confirmed
        BY <3>1, <3>2 DEF NoOrphans
      <3>4. Mapped' = Mapped
        BY <2>1 DEF Mapped
      <3>5. waiting' = waiting \/ waiting \in Mapped
        BY <3>1 DEF Onward, Hand
      <3> QED
        BY <2>1, <3>3, <3>4, <3>5
    <2>14. RoutesLive'
      BY <2>1 DEF IInv, RoutesLive, Serving, Onward
    <2> QED
      BY <2>6, <2>7, <2>8, <2>9, <2>10, <2>11, <2>12, <2>13, <2>14 DEF IInv
  (* Reading a control tells nobody to stop who was not. *)
  <1>ReadControl. ASSUME NEW r \in SessionState, NEW q \in SessionState, r.controls # <<>>, q.controls = Tail(r.controls),
                         q.stopping => r.stopping \/ Head(r.controls) = "stop"
                  PROVE  ToldToStop(q) => ToldToStop(r)
    <2> USE <1>ReadControl
    <2>1. r.controls \in Seq({"interrupt", "release", "stop"})
      BY DEF SessionState
    <2>2. /\ 1 \in DOMAIN r.controls /\ Head(r.controls) = r.controls[1]
          /\ \A n \in DOMAIN Tail(r.controls) : n + 1 \in DOMAIN r.controls /\ Tail(r.controls)[n] = r.controls[n + 1]
      BY <2>1, TailFacts
    <2> QED
      BY <2>2 DEF ToldToStop
  (* A step of a session that changes neither the commands nor the main loop. *)
  <1>QuietInv. ASSUME NEW s \in Session, NEW new, Alive(s), Successor(s, new), Change(s, new),
                      UNCHANGED <<loopAndTable, commands>>, OutcomeType'
               PROVE  IInv'
    <2> USE <1>QuietInv
    <2>1. Running(s) /\ session' = [session EXCEPT ![s] = new]
      BY DEF Alive, Change
    <2>2. Aside /\ Onward /\ commands' = commands
      BY DEF loopAndTable, Aside, Onward
    <2> QED
      BY <2>1, <2>2, <1>SessionInv
  (* The scheduler empties its channel into its queue. *)
  <1>DrainInv. ASSUME NEW s \in Session, Drain(s) PROVE IInv'
    <2> USE <1>DrainInv
    <2> DEFINE new == [session[s] EXCEPT !.incoming = {}, !.queue = @ \cup session[s].incoming]
    <2>0. Alive(s) /\ Change(s, new) /\ UNCHANGED <<loopAndTable, commands>> /\ UNCHANGED outcomeVars
      BY DEF Drain
    <2>1. Running(s)
      BY <2>0 DEF Alive
    <2>2. session[s] \in SessionState
      BY SessionFacts
    <2>3. new \in SessionState
      BY <2>2 DEF SessionState
    <2>4. /\ new.state = session[s].state /\ new.incoming = {} /\ new.queue = session[s].queue \cup session[s].incoming
          /\ new.controls = session[s].controls
          /\ new.stopping = session[s].stopping /\ new.serving = session[s].serving /\ new.cell = session[s].cell
          /\ new.phase = session[s].phase /\ new.route = session[s].route
      BY <2>2 DEF SessionState
    <2> HIDE DEF new
    <2>5. Successor(s, new)
      BY <2>0, <2>1, <2>3, <2>4, SessionFacts DEF Successor, ToldToStop
    <2>6. OutcomeType'
      BY <2>0, TypeParts, SessionFacts DEF IInv, OutcomeType
    <2> QED
      BY <2>0, <2>5, <2>6, <1>QuietInv
  (* The scheduler starts a cell. *)
  <1>StartCellInv. ASSUME NEW s \in Session, NEW m, StartCell(s, m) PROVE IInv'
    <2> USE <1>StartCellInv
    <2> DEFINE new == [session[s] EXCEPT !.queue = @ \ {m}, !.cell = m,
                        !.phase = IF request[m].uses = "none" THEN "running" ELSE "before"]
    <2>0. Alive(s) /\ Change(s, new) /\ UNCHANGED <<loopAndTable, commands>> /\ UNCHANGED outcomeVars /\ m \in session[s].queue
      BY DEF StartCell
    <2>1. Running(s)
      BY <2>0 DEF Alive
    <2>2. session[s] \in SessionState
      BY SessionFacts
    <2>m. m \in MsgId /\ m \in 0 .. MaxRequests
      BY <2>0, SessionFacts, Constants, SMTT(30) DEF MsgId
    <2>3. new \in SessionState
      BY <2>2, <2>m DEF SessionState
    <2>4. /\ new.state = session[s].state /\ new.incoming = session[s].incoming /\ new.queue = session[s].queue \ {m}
          /\ new.controls = session[s].controls
          /\ new.stopping = session[s].stopping /\ new.serving = session[s].serving /\ new.cell = m
          /\ new.phase = (IF request[m].uses = "none" THEN "running" ELSE "before") /\ new.route = session[s].route
      BY <2>2 DEF SessionState
    <2> HIDE DEF new
    <2>5. Successor(s, new)
      BY <2>0, <2>1, <2>3, <2>4, SessionFacts DEF Successor, ToldToStop
    <2>6. OutcomeType'
      BY <2>0, TypeParts, SessionFacts DEF IInv, OutcomeType
    <2> QED
      BY <2>0, <2>5, <2>6, <1>QuietInv
  (* The scheduler starts a request that is not a cell. *)
  <1>ServeInv. ASSUME NEW s \in Session, NEW m, Serve(s, m) PROVE IInv'
    <2> USE <1>ServeInv
    <2> DEFINE new == [session[s] EXCEPT !.queue = @ \ {m}, !.serving = m]
    <2>0. Alive(s) /\ Change(s, new) /\ UNCHANGED <<loopAndTable, commands>> /\ UNCHANGED outcomeVars /\ m \in session[s].queue
      BY DEF Serve
    <2>1. Running(s)
      BY <2>0 DEF Alive
    <2>2. session[s] \in SessionState
      BY SessionFacts
    <2>m. m \in MsgId /\ m \in 0 .. MaxRequests
      BY <2>0, SessionFacts, Constants, SMTT(30) DEF MsgId
    <2>3. new \in SessionState
      BY <2>2, <2>m DEF SessionState
    <2>4. /\ new.state = session[s].state /\ new.incoming = session[s].incoming /\ new.queue = session[s].queue \ {m}
          /\ new.controls = session[s].controls
          /\ new.stopping = session[s].stopping /\ new.serving = m /\ new.cell = session[s].cell
          /\ new.phase = session[s].phase /\ new.route = session[s].route
      BY <2>2 DEF SessionState
    <2> HIDE DEF new
    <2>5. Successor(s, new)
      BY <2>0, <2>1, <2>3, <2>4, SessionFacts DEF Successor, ToldToStop
    <2>6. OutcomeType'
      BY <2>0, TypeParts, SessionFacts DEF IInv, OutcomeType
    <2> QED
      BY <2>0, <2>5, <2>6, <1>QuietInv
  (* The language has served it. *)
  <1>ServedInv. ASSUME NEW s \in Session, Served(s) PROVE IInv'
    <2> USE <1>ServedInv
    <2> DEFINE new == [session[s] EXCEPT !.serving = NoMsg]
    <2>0. Alive(s) /\ Change(s, new) /\ UNCHANGED <<loopAndTable, commands>>
          /\ answer' = [answer EXCEPT ![session[s].serving] = "ok"] /\ UNCHANGED <<lost, interrupted>>
      BY DEF Served
    <2>1. Running(s)
      BY <2>0 DEF Alive
    <2>2. session[s] \in SessionState
      BY SessionFacts
    <2>3. new \in SessionState
      BY <2>2, Constants, SMTT(30) DEF SessionState
    <2>4. /\ new.state = session[s].state /\ new.incoming = session[s].incoming /\ new.queue = session[s].queue
          /\ new.controls = session[s].controls
          /\ new.stopping = session[s].stopping /\ new.serving = NoMsg /\ new.cell = session[s].cell
          /\ new.phase = session[s].phase /\ new.route = session[s].route
      BY <2>2 DEF SessionState
    <2> HIDE DEF new
    <2>5. Successor(s, new)
      BY <2>0, <2>1, <2>3, <2>4, SessionFacts, SMTT(30) DEF Successor, ToldToStop
    <2>6. OutcomeType'
      BY <2>0, TypeParts, SessionFacts DEF IInv, OutcomeType
    <2> QED
      BY <2>0, <2>5, <2>6, <1>QuietInv
  (* The scheduler reads an Interrupt. *)
  <1>ApplyInterruptInv. ASSUME NEW s \in Session, ApplyInterrupt(s) PROVE IInv'
    <2> USE <1>ApplyInterruptInv
    <2> DEFINE new == [session[s] EXCEPT !.incoming = {}, !.controls = Tail(@),
                        !.queue = (@ \cup session[s].incoming) \ {m \in session[s].incoming \cup session[s].queue : Execute(m)}]
    <2>0. Alive(s) /\ Change(s, new) /\ UNCHANGED <<loopAndTable, commands>> /\ lost' = lost /\ session[s].controls # <<>>
          /\ interrupted' = interrupted \cup ({session[s].cell} \ {NoMsg})
          /\ answer' = [m \in MsgId |-> IF m \in {n \in session[s].incoming \cup session[s].queue : Execute(n)}
                                         THEN "aborted" ELSE answer[m]]
      BY DEF ApplyInterrupt
    <2>1. Running(s)
      BY <2>0 DEF Alive
    <2>2. session[s] \in SessionState
      BY SessionFacts
    <2>t. session[s].controls # <<>> /\ Tail(session[s].controls) \in Seq({"interrupt", "release", "stop"})
      BY <2>0, SessionFacts, SMTT(30)
    <2>3. new \in SessionState
      BY <2>2, <2>t DEF SessionState
    <2>4. /\ new.state = session[s].state /\ new.incoming = {}
          /\ new.queue = (session[s].queue \cup session[s].incoming) \ {m \in session[s].incoming \cup session[s].queue : Execute(m)}
          /\ new.controls = Tail(session[s].controls)
          /\ new.stopping = session[s].stopping /\ new.serving = session[s].serving /\ new.cell = session[s].cell
          /\ new.phase = session[s].phase /\ new.route = session[s].route
      BY <2>2 DEF SessionState
    <2> HIDE DEF new
    <2>5. Successor(s, new)
      BY <2>0, <2>1, <2>3, <2>4, SessionFacts, <2>2, <2>t, <1>ReadControl DEF Successor, ToldToStop
    <2>6. OutcomeType'
      BY <2>0, TypeParts, SessionFacts, Constants, SMTT(30) DEF IInv, OutcomeType, MsgId
    <2> QED
      BY <2>0, <2>5, <2>6, <1>QuietInv
  (* The scheduler reads a Stop. *)
  <1>ApplyStopInv. ASSUME NEW s \in Session, ApplyStop(s) PROVE IInv'
    <2> USE <1>ApplyStopInv
    <2> DEFINE new == [session[s] EXCEPT !.controls = Tail(@), !.stopping = TRUE]
    <2>0. Alive(s) /\ Change(s, new) /\ UNCHANGED <<loopAndTable, commands>> /\ UNCHANGED outcomeVars /\ session[s].controls # <<>> /\ Head(session[s].controls) = "stop"
      BY DEF ApplyStop
    <2>1. Running(s)
      BY <2>0 DEF Alive
    <2>2. session[s] \in SessionState
      BY SessionFacts
    <2>t. session[s].controls # <<>> /\ Tail(session[s].controls) \in Seq({"interrupt", "release", "stop"})
      BY <2>0, SessionFacts, SMTT(30)
    <2>3. new \in SessionState
      BY <2>2, <2>t DEF SessionState
    <2>4. /\ new.state = session[s].state /\ new.incoming = session[s].incoming /\ new.queue = session[s].queue
          /\ new.controls = Tail(session[s].controls)
          /\ new.stopping = TRUE /\ new.serving = session[s].serving /\ new.cell = session[s].cell
          /\ new.phase = session[s].phase /\ new.route = session[s].route
      BY <2>2 DEF SessionState
    <2> HIDE DEF new
    <2>5. Successor(s, new)
      BY <2>0, <2>1, <2>3, <2>4, SessionFacts, <2>2, <2>t, <1>ReadControl DEF Successor, ToldToStop
    <2>6. OutcomeType'
      BY <2>0, TypeParts, SessionFacts DEF IInv, OutcomeType
    <2> QED
      BY <2>0, <2>5, <2>6, <1>QuietInv
  (* A cell ends. *)
  <1>CellEndsInv. ASSUME NEW s \in Session, CellEnds(s) PROVE IInv'
    <2> USE <1>CellEndsInv
    <2> DEFINE new == [session[s] EXCEPT !.cell = NoMsg, !.route = Parent]
    <2>0. Alive(s) /\ Change(s, new) /\ UNCHANGED <<loopAndTable, commands>>
          /\ answer' = [answer EXCEPT ![session[s].cell] = "ok"] /\ UNCHANGED <<lost, interrupted>>
      BY DEF CellEnds
    <2>1. Running(s)
      BY <2>0 DEF Alive
    <2>2. session[s] \in SessionState
      BY SessionFacts
    <2>k. Known(Parent) /\ NoMsg <= sent /\ Parent \in Ids /\ NoMsg \in 0 .. MaxRequests
      BY Constants, TypeParts, SMTT(30) DEF Known, IInv, ClientType
    <2>3. new \in SessionState
      BY <2>2, <2>k DEF SessionState
    <2>4. /\ new.state = session[s].state /\ new.incoming = session[s].incoming /\ new.queue = session[s].queue
          /\ new.controls = session[s].controls
          /\ new.stopping = session[s].stopping /\ new.serving = session[s].serving /\ new.cell = NoMsg
          /\ new.phase = session[s].phase /\ new.route = Parent
      BY <2>2 DEF SessionState
    <2> HIDE DEF new
    <2>5. Successor(s, new)
      BY <2>0, <2>1, <2>3, <2>4, SessionFacts, <2>k, SMTT(30) DEF Successor, ToldToStop
    <2>6. OutcomeType'
      BY <2>0, TypeParts, SessionFacts DEF IInv, OutcomeType
    <2> QED
      BY <2>0, <2>5, <2>6, <1>QuietInv
  (* A session's task ends. *)
  <1>EndInv. ASSUME NEW s \in Session, NEW state \in {"ended", "failed", "shutdown"}, Alive(s), End(s, state),
                    state = "ended" => session[s].stopping, answer' \in [MsgId -> {"none", "ok", "aborted", "refused"}],
                    lost' \subseteq lost \cup KeptBy(s)
             PROVE  IInv'
    <2> USE <1>EndInv
    <2> DEFINE new == [NoSession EXCEPT !.state = state]
    <2>0. Change(s, new) /\ UNCHANGED <<loopAndTable, commands>> /\ interrupted' = interrupted
      BY DEF End
    <2>1. new \in SessionState
      BY NewSessions DEF SessionState
    <2>2. /\ new.state = state /\ new.incoming = {} /\ new.queue = {} /\ new.controls = <<>> /\ ~new.stopping
          /\ new.cell = NoMsg /\ new.route = Parent
      BY DEF NoSession, NewSession
    <2>3. Known(Parent) /\ NoMsg <= sent
      BY Constants, TypeParts, SMTT(30) DEF Known, IInv, ClientType
    <2> HIDE DEF new
    <2>4. Successor(s, new)
      BY <2>1, <2>2, <2>3, SMTT(30) DEF Successor, ToldToStop
    <2>5. KeptBy(s) \subseteq MsgId
      <3>1. /\ session[s].incoming \subseteq MsgId /\ session[s].queue \subseteq MsgId
            /\ session[s].serving \in 0 .. MaxRequests /\ session[s].cell \in 0 .. MaxRequests
        BY SessionFacts
      <3> QED
        BY <3>1, Constants, SMTT(30) DEF KeptBy, MsgId
    <2>6. OutcomeType'
      BY <2>0, <2>5, TypeParts DEF IInv, OutcomeType
    <2> QED
      BY <2>0, <2>4, <2>6, <1>QuietInv
  (* A shutdown_request on the shell channel, a Stop, and a failure.         *)
  <1>EndsInv. ASSUME NEW s \in Session, Stop(s) \/ SessionFails(s) \/ \E m \in session[s].queue : ShutDown(s, m)
              PROVE  IInv'
    <2> USE <1>EndsInv
    <2>0. answer \in [MsgId -> {"none", "ok", "aborted", "refused"}]
      BY TypeParts DEF IInv, OutcomeType
    <2>1. CASE Stop(s)
      <3>1. Alive(s) /\ session[s].stopping /\ lost' = lost \cup KeptBy(s) /\ End(s, "ended") /\ answer' = answer
        BY <2>1 DEF Stop
      <3> QED
        BY <2>0, <3>1, <1>EndInv
    <2>2. CASE SessionFails(s)
      <3>1. Alive(s) /\ lost' = lost \cup KeptBy(s) /\ End(s, "failed") /\ answer' = answer
        BY <2>2 DEF SessionFails
      <3> QED
        BY <2>0, <3>1, <1>EndInv
    <2>3. ASSUME NEW m \in session[s].queue, ShutDown(s, m) PROVE IInv'
      <3>1. Alive(s) /\ lost' = lost \cup (KeptBy(s) \ {m}) /\ End(s, "shutdown") /\ answer' = [answer EXCEPT ![m] = "ok"]
        BY <2>3 DEF ShutDown
      <3>2. lost' \subseteq lost \cup KeptBy(s) /\ answer' \in [MsgId -> {"none", "ok", "aborted", "refused"}]
        BY <2>0, <3>1
      <3> QED
        BY <3>1, <3>2, <1>EndInv
    <2> QED
      BY <2>1, <2>2, <2>3
  (* The scheduler reads a Release; the main loop may have waited for it.    *)
  <1>ApplyReleaseInv. ASSUME NEW s \in Session, ApplyRelease(s) PROVE IInv'
    <2> USE <1>ApplyReleaseInv
    <2> DEFINE new == [session[s] EXCEPT !.controls = Tail(@)]
    <2>0. /\ Alive(s) /\ session[s].controls # <<>> /\ Change(s, new)
          /\ IF Answers(s) THEN at' = "each" /\ waiting' = NoShell ELSE UNCHANGED <<at, waiting>>
          /\ UNCHANGED <<clientVars, channelVars, msg, handling, todo, error, tableVars, background, outcomeVars, historyVars>>
      BY DEF ApplyRelease
    <2>1. Running(s) /\ session' = [session EXCEPT ![s] = new]
      BY <2>0 DEF Alive, Change
    <2>2. session[s] \in SessionState /\ Tail(session[s].controls) \in Seq({"interrupt", "release", "stop"})
      BY <2>0, SessionFacts, SMTT(30)
    <2>3. new \in SessionState
      BY <2>2 DEF SessionState
    <2>4. /\ new.state = session[s].state /\ new.incoming = session[s].incoming /\ new.queue = session[s].queue
          /\ new.controls = Tail(session[s].controls) /\ new.stopping = session[s].stopping
          /\ new.cell = session[s].cell /\ new.phase = session[s].phase /\ new.route = session[s].route
      BY <2>2 DEF SessionState
    <2> HIDE DEF new
    <2>5. Successor(s, new)
      BY <2>0, <2>1, <2>2, <2>3, <2>4, SessionFacts, <1>ReadControl DEF Successor
    <2>6. Aside /\ OutcomeType' /\ commands' = commands
      BY <2>0, TypeParts DEF Aside, IInv, OutcomeType
    <2>7. Onward
      BY <2>0 DEF Onward, Answers
    <2> QED
      BY <2>1, <2>5, <2>6, <2>7, <1>SessionInv
  (* A cell calls the main loop. *)
  <1>CallInv. ASSUME NEW s \in Session, NEW type \in {"open", "close"}, NEW id \in Ids, NEW delete \in BOOLEAN,
                     NEW phase \in {"opening", "closing"}, Alive(s), session[s].cell # NoMsg, Call(s, type, id, delete),
                     Change(s, [session[s] EXCEPT !.phase = phase]), UNCHANGED <<loopAndTable, outcomeVars>>, Known(id),
                     type = "open" => id = IF request[session[s].cell].uses = "sidecar" THEN Sidecar ELSE Parent,
                     type = "close" /\ delete => id \in Session
              PROVE  IInv'
    <2> USE <1>CallInv
    <2> DEFINE new == [session[s] EXCEPT !.phase = phase]
               command == [type |-> type, client |-> request[session[s].cell].client, id |-> id,
                           delete |-> delete, caller |-> s, msg |-> session[s].cell]
    <2>1. Running(s) /\ session' = [session EXCEPT ![s] = new] /\ commands' = Append(commands, command)
      BY DEF Alive, Change, Call
    <2>2. session[s] \in SessionState
      BY SessionFacts
    <2>3. new \in SessionState
      BY <2>2 DEF SessionState
    <2>4. /\ new.state = session[s].state /\ new.incoming = session[s].incoming /\ new.queue = session[s].queue
          /\ new.controls = session[s].controls /\ new.stopping = session[s].stopping
          /\ new.cell = session[s].cell /\ new.phase = phase /\ new.route = session[s].route
      BY <2>2 DEF SessionState
    <2>5. session[s].cell \in MsgId
      BY SessionFacts, Constants, SMTT(30) DEF MsgId
    <2>6. request[session[s].cell].client \in Clients
      BY <2>5, TypeParts DEF IInv, ClientType, Request
    <2>7. command \in Command
      BY <2>5, <2>6 DEF Command
    <2>8. /\ command.msg = session[s].cell /\ command.id = id /\ command.type = type /\ command.delete = delete
      OBVIOUS
    <2> HIDE DEF new, command
    <2>9. Successor(s, new)
      BY <2>1, <2>3, <2>4, SessionFacts, SMTT(30) DEF Successor, ToldToStop
    <2>10. Sound(command)
      BY <2>7, <2>8, SessionFacts DEF Sound
    <2>11. Aside /\ Onward /\ OutcomeType'
      BY TypeParts DEF Aside, Onward, loopAndTable, IInv, OutcomeType
    <2> QED
      BY <2>1, <2>9, <2>10, <2>11, <1>SessionInv
  (* open_subshell and close_subshell. *)
  <1>CallsInv. ASSUME NEW s \in Session, CellOpens(s) \/ CellCloses(s) PROVE IInv'
    <2> USE <1>CallsInv
    <2>1. CASE CellOpens(s)
      <3> DEFINE id == IF request[session[s].cell].uses = "sidecar" THEN Sidecar ELSE Parent
      <3>1. /\ Alive(s) /\ session[s].cell # NoMsg /\ Call(s, "open", id, FALSE)
            /\ Change(s, [session[s] EXCEPT !.phase = "opening"]) /\ UNCHANGED <<loopAndTable, outcomeVars>>
        BY <2>1 DEF CellOpens
      <3>2. id \in Ids /\ Known(id)
        BY Constants DEF Known
      <3> HIDE DEF id
      <3>3. id = IF request[session[s].cell].uses = "sidecar" THEN Sidecar ELSE Parent
        BY DEF id
      <3> QED
        BY <3>1, <3>2, <3>3, <1>CallInv
    <2>2. CASE CellCloses(s)
      <3> DEFINE delete == (request[session[s].cell].uses = "subshell")
      <3>1. /\ Alive(s) /\ session[s].cell # NoMsg /\ session[s].phase = "routed" /\ Call(s, "close", session[s].route, delete)
            /\ Change(s, [session[s] EXCEPT !.phase = "closing"]) /\ UNCHANGED <<loopAndTable, outcomeVars>>
        BY <2>2 DEF CellCloses
      <3>2. session[s].route \in Ids /\ Known(session[s].route) /\ (delete => session[s].route \in Session)
        BY <3>1, SessionFacts
      <3>3. delete \in BOOLEAN
        OBVIOUS
      <3> HIDE DEF delete
      <3> QED
        BY <3>1, <3>2, <3>3, <1>CallInv
    <2> QED
      BY <2>1, <2>2
  <1>5. ASSUME NEW s \in Session, Scheduler(s) \/ Cell(s) \/ SessionFails(s) PROVE IInv'
    <2>1. CASE Drain(s) \/ Served(s) \/ ApplyInterrupt(s) \/ ApplyRelease(s) \/ ApplyStop(s)
      BY <2>1, <1>DrainInv, <1>ServedInv, <1>ApplyInterruptInv, <1>ApplyReleaseInv, <1>ApplyStopInv
    <2>2. CASE \E m \in session[s].queue : StartCell(s, m) \/ Serve(s, m)
      BY <2>2, <1>StartCellInv, <1>ServeInv
    <2>3. CASE Stop(s) \/ SessionFails(s) \/ \E m \in session[s].queue : ShutDown(s, m)
      BY <2>3, <1>EndsInv
    <2>4. CASE Cell(s)
      BY <2>4, <1>CallsInv, <1>CellEndsInv DEF Cell
    <2> QED
      BY <1>5, <2>1, <2>2, <2>3, <2>4 DEF Scheduler
  <1> QED
    BY <1>5

-----------------------------------------------------------------------------
(* Steps of the main loop and of its tasks that make no session. *)

KeepsSessions ==
  /\ session' \in [Session -> SessionState]
  /\ \A t \in Session :
       /\ session'[t].state = session[t].state /\ session'[t].cell = session[t].cell
       /\ \A m \in session'[t].incoming \cup session'[t].queue : m <= sent
       /\ Known(session'[t].route)
       /\ session'[t].cell # NoMsg /\ session'[t].phase = "routed" /\ request[session'[t].cell].uses = "subshell" =>
            session'[t].route \in Session
       /\ ToldToStop(session'[t]) => ToldToStop(session[t]) \/ t \notin Mapped'

KeepsTable ==
  /\ spawned' = spawned /\ TableType' /\ RoutesLive'
  /\ \A id \in DOMAIN shells' : id \in DOMAIN shells /\ shells'[id] = shells[id]
  /\ \A c, d \in DOMAIN route_overrides' :
       route_overrides'[c] = route_overrides'[d] /\ route_overrides'[c] \in Session => c = d

KeepsTasks ==
  /\ background' \subseteq BackgroundTask /\ HistoryType'
  /\ \A task \in background' : task.shell <= spawned /\ task.shell \notin Mapped'
  /\ \A s \in confirmed' : s <= spawned /\ ~Running(s)
  /\ \A s \in Session : Running(s) => s \in Mapped' \cup {task.shell : task \in background'} \cup {waiting'}

KeepsLoop ==
  /\ LoopType' /\ Hand' /\ msg' <= sent /\ (at' = "route" => msg' # NoMsg)
  /\ error' => \E s \in Session : session[s].state \in {"failed", "shutdown"}

KeepsChannels ==
  /\ ChannelType'
  /\ failed' => \E s \in Session : session[s].state = "failed"
  /\ \A n \in DOMAIN shell' : shell'[n] <= sent
  /\ \A n \in DOMAIN control' : Known(control'[n].id)
  /\ \A n \in DOMAIN commands' : \E k \in DOMAIN commands : commands'[n] = commands[k]

(* What the invariant says of the tasks. *)
LEMMA TaskFacts ==
  ASSUME IInv
  PROVE  /\ background \subseteq BackgroundTask
         /\ \A task \in background : task.shell \in Session /\ task.shell <= spawned /\ task.shell \notin Mapped
         /\ confirmed \subseteq Session /\ \A s \in confirmed : s <= spawned /\ ~Running(s)
         /\ \A s \in Session : Running(s) => s \in Mapped \cup {task.shell : task \in background} \cup {waiting}
  <1>1. background \subseteq BackgroundTask /\ confirmed \subseteq Session
    BY TypeParts DEF IInv, HistoryType
  <1>2. \A task \in background : task.shell <= spawned /\ task.shell \notin Mapped
    BY DEF IInv, Fresh, Table, Mapped
  <1>3. \A s \in confirmed : s <= spawned /\ ~Running(s)
    BY <1>1 DEF IInv, Fresh, NoOrphans
  <1> QED
    BY <1>1, <1>2, <1>3 DEF IInv, NoOrphans, BackgroundTask

-----------------------------------------------------------------------------
(* Commands of cells, and the steps that make a session. *)

(* A cell that is woken changes its phase and its route, nothing else.     *)
Roused(q, r, m, phase, id) ==
  /\ r.state = q.state /\ r.incoming = q.incoming /\ r.queue = q.queue
  /\ r.controls = q.controls /\ r.stopping = q.stopping /\ r.cell = q.cell
  /\ (r.phase = q.phase /\ r.route = q.route) \/ (r.cell = m /\ r.phase = phase /\ r.route = id)

LEMMA WokenFacts ==
  ASSUME IInv, NEW command, command.caller \in Session, NEW phase \in {"running", "routed"}, NEW id \in Ids
  PROVE  /\ Woken(session, command, phase, id) \in [Session -> SessionState]
         /\ \A t \in Session : Roused(session[t], Woken(session, command, phase, id)[t], command.msg, phase, id)
  <1> DEFINE s == command.caller
             new == [session[s] EXCEPT !.phase = phase, !.route = id]
             woken == Woken(session, command, phase, id)
  <1>1. session \in [Session -> SessionState] /\ session[s] \in SessionState
    BY TypeParts DEF IInv
  <1>2. woken = IF session[s].cell = command.msg THEN [session EXCEPT ![s] = new] ELSE session
    BY <1>1 DEF Woken, SessionState
  <1>3. new \in SessionState
    BY <1>1 DEF SessionState
  <1>4. /\ new.state = session[s].state /\ new.incoming = session[s].incoming /\ new.queue = session[s].queue
        /\ new.controls = session[s].controls /\ new.stopping = session[s].stopping /\ new.cell = session[s].cell
        /\ new.phase = phase /\ new.route = id
    BY <1>1 DEF SessionState
  <1> HIDE DEF new, woken, s
  <1>5. s \in Session
    BY DEF s
  <1>6. woken \in [Session -> SessionState]
    BY <1>1, <1>2, <1>3, <1>5
  <1>7. \A t \in Session : woken[t] = session[t] \/ (t = s /\ woken[t] = new /\ session[s].cell = command.msg)
    BY <1>1, <1>2, <1>5
  <1>8. ASSUME NEW t \in Session PROVE Roused(session[t], woken[t], command.msg, phase, id)
    BY <1>4, <1>7 DEF Roused
  <1> QED
    BY <1>6, <1>8 DEF woken

(* The command at the head of the channel. *)
LEMMA CommandFacts ==
  ASSUME IInv, commands # <<>>
  PROVE  /\ Sound(Head(commands)) /\ Head(commands).caller \in Session /\ Head(commands).id \in Ids
         /\ Head(commands).client \in Clients /\ Head(commands).msg \in MsgId /\ Head(commands).type \in {"open", "close"}
         /\ Parent \in Ids /\ Known(Parent)
  <1>1. commands \in Seq(Command)
    BY TypeParts DEF IInv, ChannelType
  <1>2. Head(commands) \in Command /\ 1 \in DOMAIN commands /\ Head(commands) = commands[1]
    BY <1>1, TailFacts
  <1>3. Sound(Head(commands))
    BY <1>2 DEF IInv, Within, Fresh, Routes, Sound
  <1> QED
    BY <1>2, <1>3, Constants DEF Command, Known

(* What a new session may be. *)
Made(new) ==
  /\ new \in SessionState /\ new.state = "running" /\ new.queue = {} /\ new.controls = <<>> /\ ~new.stopping
  /\ new.cell = NoMsg /\ new.route = Parent /\ \A m \in new.incoming : m <= sent

(* The sessions there were: a cell may have been woken, also with the id   *)
(* of the session that is made.                                            *)
Others(sessions) ==
  /\ sessions \in [Session -> SessionState]
  /\ \A t \in Session :
       /\ sessions[t].state = session[t].state /\ sessions[t].incoming = session[t].incoming
       /\ sessions[t].queue = session[t].queue /\ sessions[t].controls = session[t].controls
       /\ sessions[t].stopping = session[t].stopping /\ sessions[t].cell = session[t].cell
       /\ Known(sessions[t].route) \/ sessions[t].route = NewShell
       /\ sessions[t].cell # NoMsg /\ sessions[t].phase = "routed" /\ request[sessions[t].cell].uses = "subshell" =>
            sessions[t].route \in Session \/ sessions[t].route = NewShell

(* Known, after the step. *)
KnownNext(id) == id \in Session => id <= spawned'

(* The steps of clients, the main loop and its tasks preserve it. *)
LEMMA KernelSteps ==
  ASSUME IInv, Client \/ MainLoop \/ Background \/ UNCHANGED vars
  PROVE  IInv'
  (* Such a step preserves the invariant. *)
  <1>KeepInv. ASSUME KeepsSessions, KeepsTable, KeepsTasks, KeepsLoop, KeepsChannels,
                     UNCHANGED <<sent, request>>, ClientType', OutcomeType'
              PROVE  IInv'
    <2> USE <1>KeepInv
    <2>0. sent' = sent /\ request' = request /\ spawned' = spawned
      BY DEF KeepsTable
    <2>1. TypeOK'
      BY TypePartsNext DEF KeepsSessions, KeepsTable, KeepsTasks, KeepsLoop, KeepsChannels
    <2>2. Within'
      <3>1. \A n \in DOMAIN commands' : commands'[n].msg <= sent
        BY DEF IInv, Within, KeepsChannels
      <3>2. \A t \in Session : session'[t].cell <= sent
        BY DEF IInv, Within, KeepsSessions
      <3> QED
        BY <2>0, <3>1, <3>2 DEF Within, KeepsChannels, KeepsLoop, KeepsSessions
    <2>3. Hand'
      BY DEF KeepsLoop
    <2>4. Fresh'
      <3>1. Fresh
        BY DEF IInv
      <3>2. \A id \in DOMAIN shells' : shells'[id] <= spawned /\ Known(id)
        BY <3>1 DEF Fresh, KeepsTable
      <3>3. \A n \in DOMAIN commands' : Known(commands'[n].id)
        BY <3>1 DEF Fresh, KeepsChannels
      <3>4. \A s \in Session : Known(session'[s].route) /\ (s > spawned => session'[s].state = "none")
        BY <3>1 DEF Fresh, KeepsSessions
      <3>5. \A n \in DOMAIN control' : Known(control'[n].id)
        BY DEF KeepsChannels
      <3>6. (\A task \in background' : task.shell <= spawned) /\ (\A s \in confirmed' : s <= spawned)
        BY DEF KeepsTasks
      <3> QED
        BY <2>0, <3>1, <3>2, <3>3, <3>4, <3>5, <3>6 DEF Fresh, Known
    <2>5. Table'
      <3>1. Table
        BY DEF IInv
      <3>2. \A id \in DOMAIN shells' : id \in DOMAIN shells /\ shells'[id] = shells[id] /\ shells[id] \in Session
        BY TypeParts DEF KeepsTable, IInv, TableType
      <3> SUFFICES ASSUME NEW id \in DOMAIN shells'
                   PROVE  /\ session'[shells[id]].state \in {"running", "failed", "shutdown"} /\ ~ToldToStop(session'[shells[id]])
                          /\ \A task \in background' : task.shell # shells[id]
        BY <3>1, <3>2, SMTT(30) DEF Table, ToldToStop
      <3>3. session[shells[id]].state \in {"running", "failed", "shutdown"} /\ ~ToldToStop(session[shells[id]])
        BY <3>1, <3>2 DEF Table, ToldToStop
      <3>4. shells[id] \in Mapped'
        BY <3>2 DEF Mapped
      <3> QED
        BY <3>2, <3>3, <3>4 DEF KeepsSessions, KeepsTasks
    <2>6. Routes'
      <3>1. Routes
        BY DEF IInv
      <3>2. \A n \in DOMAIN commands' :
              /\ commands'[n].type = "open" =>
                   commands'[n].id = IF request[commands'[n].msg].uses = "sidecar" THEN Sidecar ELSE Parent
              /\ commands'[n].type = "close" /\ commands'[n].delete => commands'[n].id \in Session
        BY <3>1 DEF Routes, KeepsChannels
      <3> QED
        BY <2>0, <3>2 DEF Routes, KeepsSessions, KeepsTable
    <2>7. Faulty' /\ KernelSurvives'
      BY DEF Faulty, KernelSurvives, KeepsSessions, KeepsLoop, KeepsChannels
    <2>8. NoOrphans'
      BY DEF NoOrphans, KeepsSessions, KeepsTasks
    <2> QED
      BY <2>1, <2>2, <2>3, <2>4, <2>5, <2>6, <2>7, <2>8 DEF IInv, KeepsTable
  (* Sessions that stay as they are. *)
  <1>SessionsKept. ASSUME session' = session PROVE KeepsSessions
    <2> USE <1>SessionsKept
    <2>1. session \in [Session -> SessionState]
      BY TypeParts DEF IInv
    <2>2. ASSUME NEW t \in Session
          PROVE  /\ \A m \in session[t].incoming \cup session[t].queue : m <= sent
                 /\ Known(session[t].route)
                 /\ session[t].cell # NoMsg /\ session[t].phase = "routed" /\ request[session[t].cell].uses = "subshell" =>
                      session[t].route \in Session
      BY SessionFacts
    <2> QED
      BY <2>1, <2>2 DEF KeepsSessions
  (* Tables that stay as they are. *)
  <1>TableKept. ASSUME UNCHANGED tableVars, Serving' => Serving PROVE KeepsTable
    <2> USE <1>TableKept
    <2>1. TableType'
      BY TypeParts DEF IInv, TableType
    <2>2. RoutesLive'
      BY DEF IInv, RoutesLive
    <2> QED
      BY <2>1, <2>2 DEF KeepsTable, IInv, Routes
  (* Tasks that stay as they are. *)
  <1>TasksKept. ASSUME UNCHANGED <<shells, background, confirmed>>, HistoryType',
                       waiting' = waiting \/ waiting \in Mapped \/ waiting \notin Session \/ ~Running(waiting)
                PROVE  KeepsTasks
    <2> USE <1>TasksKept
    <2>1. Mapped' = Mapped
      BY DEF Mapped
    <2>2. \A task \in background : task.shell <= spawned /\ task.shell \notin Mapped
      BY DEF IInv, Fresh, Table, Mapped
    <2>3. confirmed \subseteq Session /\ \A s \in confirmed : s <= spawned /\ ~Running(s)
      BY TypeParts DEF IInv, Fresh, NoOrphans, HistoryType
    <2>4. \A s \in Session : Running(s) => s \in Mapped \cup {task.shell : task \in background} \cup {waiting}
      BY DEF IInv, NoOrphans
    <2>5. background \subseteq BackgroundTask
      BY TypeParts DEF IInv
    <2> QED
      BY <2>1, <2>2, <2>3, <2>4, <2>5 DEF KeepsTasks
  (* A main loop that stays where it is. *)
  <1>LoopKept. ASSUME UNCHANGED <<loopVars, shells>> PROVE KeepsLoop
    <2> USE <1>LoopKept
    <2>1. LoopType'
      BY TypeParts DEF IInv, LoopType
    <2>2. Hand'
      BY DEF IInv, Hand, Mapped
    <2> QED
      BY <2>1, <2>2 DEF KeepsLoop, IInv, Within, KernelSurvives
  (* A channel of which the head may have been taken. *)
  <1>Rest. ASSUME NEW S, NEW q \in Seq(S), NEW r, r = q \/ (q # <<>> /\ r = Tail(q))
           PROVE  r \in Seq(S) /\ \A n \in DOMAIN r : \E k \in DOMAIN q : r[n] = q[k]
    <2> USE <1>Rest
    <2>1. CASE r = q
      BY <2>1
    <2>2. CASE q # <<>> /\ r = Tail(q)
      <3>1. r \in Seq(S) /\ \A n \in DOMAIN r : n + 1 \in DOMAIN q /\ r[n] = q[n + 1]
        BY <2>2, TailFacts
      <3> QED
        BY <3>1
    <2> QED
      BY <2>1, <2>2
  (* Channels of which the heads are taken. *)
  <1>ChannelsKept. ASSUME shell' = shell \/ (shell # <<>> /\ shell' = Tail(shell)),
                          control' = control \/ (control # <<>> /\ control' = Tail(control)),
                          commands' = commands \/ (commands # <<>> /\ commands' = Tail(commands)),
                          signals' \subseteq signals,
                          failed' = failed \/ (failed' = TRUE /\ \E s \in Session : session[s].state = "failed")
                   PROVE  KeepsChannels
    <2> USE <1>ChannelsKept
    <2>1. /\ shell \in Seq(MsgId) /\ commands \in Seq(Command) /\ control \in Seq(ControlMessage)
          /\ signals \subseteq Signals /\ failed \in BOOLEAN
      BY TypeParts DEF IInv, ChannelType
    <2>2. shell' \in Seq(MsgId) /\ \A n \in DOMAIN shell' : \E k \in DOMAIN shell : shell'[n] = shell[k]
      BY <2>1, <1>Rest, SMTT(30)
    <2>3. commands' \in Seq(Command) /\ \A n \in DOMAIN commands' : \E k \in DOMAIN commands : commands'[n] = commands[k]
      BY <2>1, <1>Rest, SMTT(30)
    <2>4. control' \in Seq(ControlMessage) /\ \A n \in DOMAIN control' : \E k \in DOMAIN control : control'[n] = control[k]
      BY <2>1, <1>Rest, SMTT(30)
    <2>b. failed' \in BOOLEAN
      BY <2>1
    <2>5. ChannelType'
      BY <2>1, <2>2, <2>3, <2>4, <2>b DEF ChannelType, ControlMessage
    <2>6. (\A n \in DOMAIN shell : shell[n] <= sent) /\ (\A n \in DOMAIN control : Known(control[n].id))
      BY DEF IInv, Within, Fresh
    <2> QED
      BY <2>2, <2>3, <2>4, <2>5, <2>6, SMTT(30) DEF KeepsChannels, IInv, Faulty
  (* Counters and outcomes that stay as they are. *)
  <1>RestKept. /\ UNCHANGED clientVars => ClientType' /\ UNCHANGED <<sent, request>>
               /\ UNCHANGED outcomeVars => OutcomeType'
               /\ UNCHANGED historyVars => HistoryType'
    BY TypeParts DEF IInv, ClientType, OutcomeType, HistoryType
  (* A step of the main loop alone. *)
  <1>LoopInv. ASSUME UNCHANGED <<clientVars, session, tableVars, background, confirmed>>, KeepsLoop, KeepsChannels,
                     OutcomeType', HistoryType', Serving' => Serving,
                     waiting' = waiting \/ waiting \in Mapped \/ waiting \notin Session \/ ~Running(waiting)
              PROVE  IInv'
    <2> USE <1>LoopInv
    <2>1. KeepsSessions
      BY <1>SessionsKept
    <2>2. KeepsTable
      BY <1>TableKept
    <2>3. KeepsTasks
      BY <1>TasksKept
    <2> QED
      BY <2>1, <2>2, <2>3, <1>KeepInv, <1>RestKept
  (* What the loop waits for, by its place. *)
  <1>WaitingFacts. /\ Serving => waiting \in Mapped \/ waiting \notin Session
                   /\ at \notin {"answer", "join"} => waiting = NoShell /\ waiting \notin Session
                   /\ at = "join" => waiting \in Session
                   /\ Mapped \subseteq Session /\ Serving \in BOOLEAN
                   /\ LoopType /\ Hand /\ msg <= sent
                   /\ error => \E s \in Session : session[s].state \in {"failed", "shutdown"}
    BY TypeParts, Constants DEF IInv, Hand, Serving, TypeOK, Within, KernelSurvives
  (* The loop is left, with an error only of a session that failed or was    *)
  (* shut down.                                                              *)
  <1>LeaveKeeps. ASSUME NEW failure \in BOOLEAN, Leave(failure),
                        failure => \E s \in Session : session[s].state \in {"failed", "shutdown"}
                 PROVE  KeepsLoop /\ ~Serving' /\ waiting' = NoShell
    <2> USE <1>LeaveKeeps
    <2>0. /\ at' = "stop" /\ error' = (error \/ failure) /\ msg' = NoMsg /\ waiting' = NoShell /\ handling' = "none" /\ todo' = {}
      BY DEF Leave
    <2>1. error' \in BOOLEAN
      BY <2>0
    <2>2. LoopType'
      BY <2>0, <2>1, Constants, SMTT(30) DEF LoopType
    <2>3. Hand'
      BY <2>0 DEF Hand
    <2>4. msg' <= sent
      BY <2>0, TypeParts, SMTT(30) DEF IInv, ClientType
    <2>5. error' => \E s \in Session : session[s].state \in {"failed", "shutdown"}
      BY <2>0, <1>WaitingFacts
    <2> QED
      BY <2>0, <2>2, <2>3, <2>4, <2>5 DEF KeepsLoop, Serving
  (* The steps that leave the loop and change no table. *)
  <1>LeavesInv. ASSUME ShutdownRequest \/ FailureReported \/ Terminated \/ SendFails PROVE IInv'
    <2> USE <1>LeavesInv
    <2>1. PICK failure \in BOOLEAN :
            /\ Leave(failure) /\ Serving
            /\ failure => \E s \in Session : session[s].state \in {"failed", "shutdown"}
      <3>1. CASE ShutdownRequest \/ Terminated
        BY <3>1 DEF ShutdownRequest, Terminated, TakeControl, Serving
      <3>2. CASE FailureReported
        <4>1. failed /\ Leave(TRUE) /\ at = "select"
          BY <3>2 DEF FailureReported
        <4> QED
          BY <4>1 DEF IInv, Faulty, Serving
      <3>3. CASE SendFails
        <4>1. Leave(TRUE) /\ at \in {"each", "answer"} /\ \E s \in Mapped : ~Running(s)
          BY <3>3, <1>WaitingFacts DEF SendFails, Hand
        <4>2. \A s \in Mapped : s \in Session /\ session[s].state \in {"running", "failed", "shutdown"}
          BY <1>WaitingFacts DEF IInv, Table, Mapped
        <4> QED
          BY <4>1, <4>2 DEF Serving
      <3> QED
        BY <3>1, <3>2, <3>3
    <2>2. /\ UNCHANGED <<clientVars, session, tableVars, background, outcomeVars, historyVars, shell, signals, commands, failed>>
          /\ control' = control \/ (control # <<>> /\ control' = Tail(control))
      BY DEF ShutdownRequest, FailureReported, Terminated, SendFails, TakeControl
    <2>3. KeepsLoop /\ ~Serving'
      BY <2>1, <1>LeaveKeeps
    <2>4. KeepsChannels
      BY <2>2, <1>ChannelsKept
    <2>5. waiting \in Mapped \/ waiting \notin Session
      BY <2>1, <1>WaitingFacts
    <2> QED
      BY <2>2, <2>3, <2>4, <2>5, <1>RestKept, <1>LoopInv
  (* The loop goes on with another part of its work; it waits for nobody.    *)
  <1>TurnKeeps. ASSUME waiting = NoShell, waiting' = NoShell, UNCHANGED <<error, shells>>, msg' = msg \/ msg' = NoMsg,
                       at' \in {"select", "pending", "each", "ended"}, handling' \in {"none", "interrupt", "release", "SIGINT"},
                       at' \in {"select", "ended"} => handling' = "none", at' = "pending" => handling' # "none",
                       todo' \subseteq Mapped, handling' = "none" => todo' = {}
                PROVE  KeepsLoop
    <2> USE <1>TurnKeeps
    <2>0. Mapped' = Mapped
      BY DEF Mapped
    <2>1. LoopType'
      BY <1>WaitingFacts, Constants, SMTT(30) DEF LoopType
    <2>2. Hand'
      BY <2>0 DEF Hand
    <2>3. msg' <= sent
      BY TypeParts, <1>WaitingFacts, SMTT(30) DEF IInv, ClientType
    <2> QED
      BY <2>1, <2>2, <2>3, <1>WaitingFacts DEF KeepsLoop
  (* The steps of a request that goes to all sessions. *)
  <1>TurnsInv. ASSUME BroadcastRequest \/ Interrupted \/ PendingRouted \/ BroadcastDone PROVE IInv'
    <2> USE <1>TurnsInv
    <2>1. /\ UNCHANGED <<clientVars, session, tableVars, background, outcomeVars, confirmed, shell, commands, failed>>
          /\ UNCHANGED <<waiting, error, msg>>
          /\ control' = control \/ (control # <<>> /\ control' = Tail(control))
          /\ signals' \subseteq signals
          /\ at \in {"select", "pending", "each"} /\ at' \in {"select", "pending", "each"}
      BY DEF BroadcastRequest, Interrupted, PendingRouted, BroadcastDone, TakeControl, FirstStep
    <2>2. waiting = NoShell /\ waiting \notin Session
      BY <2>1, <1>WaitingFacts
    <2>3. HistoryType'
      <3>0. HistoryType /\ control \in Seq(ControlMessage)
        BY TypeParts DEF IInv, ChannelType
      <3>1. CASE BroadcastRequest
        <4>1. control # <<>> /\ upto' = Head(control).upto /\ UNCHANGED <<covered, confirmed>>
          BY <3>1 DEF BroadcastRequest, TakeControl
        <4>2. Head(control) \in ControlMessage
          BY <3>0, <4>1, TailFacts
        <4> QED
          BY <3>0, <4>1, <4>2 DEF HistoryType, ControlMessage
      <3>2. CASE Interrupted \/ PendingRouted \/ BroadcastDone
        BY <3>0, <3>2 DEF HistoryType, Interrupted, PendingRouted, BroadcastDone
      <3> QED
        BY <3>1, <3>2
    <2>4. /\ handling' \in {"none", "interrupt", "release", "SIGINT"} /\ (at' = "select" => handling' = "none")
          /\ (at' = "pending" => handling' # "none")
          /\ todo' \subseteq Mapped /\ (handling' = "none" => todo' = {})
      <3>1. CASE BroadcastRequest \/ Interrupted
        BY <3>1 DEF BroadcastRequest, Interrupted, TakeControl, FirstStep
      <3>2. CASE PendingRouted
        <4>1. at = "pending" /\ handling' = handling /\ at' = "each" /\ todo' = Mapped
          BY <3>2 DEF PendingRouted
        <4>2. handling # "none" /\ handling \in {"none", "interrupt", "release", "SIGINT"}
          BY <4>1, <1>WaitingFacts DEF Hand, LoopType
        <4> QED
          BY <4>1, <4>2
      <3>3. CASE BroadcastDone
        BY <3>3, <1>WaitingFacts DEF BroadcastDone
      <3> QED
        BY <3>1, <3>2, <3>3
    <2>5. KeepsLoop
      BY <2>1, <2>2, <2>4, <1>TurnKeeps
    <2>6. KeepsChannels
      BY <2>1, <1>ChannelsKept
    <2>7. Serving' => Serving
      BY <2>1 DEF Serving
    <2> QED
      BY <2>1, <2>2, <2>3, <2>5, <2>6, <2>7, <1>RestKept, <1>LoopInv
  (* A request is taken from the shell channel. *)
  <1>TakeRequestInv. ASSUME TakeRequest PROVE IInv'
    <2> USE <1>TakeRequestInv
    <2>0. /\ at \in {"select", "pending"} /\ shell # <<>> /\ msg' = Head(shell) /\ shell' = Tail(shell) /\ at' = "route"
          /\ UNCHANGED <<clientVars, control, signals, commands, failed, waiting, handling, todo, error, tableVars, session,
                         background, outcomeVars, historyVars>>
      BY DEF TakeRequest
    <2>1. KeepsChannels
      BY <2>0, <1>ChannelsKept
    <2>2. msg' \in MsgId /\ msg' <= sent
      <3>1. shell \in Seq(MsgId) /\ \A n \in DOMAIN shell : shell[n] <= sent
        BY TypeParts DEF IInv, ChannelType, Within
      <3> QED
        BY <2>0, <3>1, TailFacts
    <2>3. LoopType'
      BY <2>0, <2>2, <1>WaitingFacts, Constants, SMTT(30) DEF LoopType, MsgId
    <2>4. Hand'
      BY <2>0, <1>WaitingFacts DEF Hand, Mapped
    <2>5. KeepsLoop
      BY <2>0, <2>2, <2>3, <2>4, <1>WaitingFacts, Constants, SMTT(30) DEF KeepsLoop, MsgId
    <2>6. Serving' => Serving
      BY <2>0 DEF Serving
    <2> QED
      BY <2>0, <2>1, <2>5, <2>6, <1>RestKept, <1>LoopInv
  (* The loop has routed a request. *)
  <1>RoutedKeeps. ASSUME at = "route", Routed, UNCHANGED shells
                  PROVE  /\ KeepsLoop /\ KeepsChannels /\ HistoryType' /\ ClientType' /\ UNCHANGED <<sent, request>> /\ Serving
                         /\ msg \in MsgId /\ msg <= sent /\ waiting' = waiting
    <2> USE <1>RoutedKeeps
    <2>0. /\ at' = (IF handling = "none" THEN "select" ELSE "pending") /\ msg' = NoMsg
          /\ UNCHANGED <<clientVars, channelVars, waiting, handling, todo, error, historyVars>>
      BY DEF Routed
    <2>1. waiting = NoShell
      BY <1>WaitingFacts
    <2>2. msg \in MsgId /\ msg <= sent
      BY <1>WaitingFacts, Constants, SMTT(30) DEF IInv, Within, LoopType, MsgId
    <2>3. KeepsLoop
      BY <2>0, <2>1, <1>WaitingFacts, <1>TurnKeeps DEF LoopType, Hand
    <2>4. KeepsChannels
      BY <2>0, <1>ChannelsKept
    <2> QED
      BY <2>0, <2>2, <2>3, <2>4, <1>RestKept DEF Serving
  (* The request is refused. *)
  <1>RouteRefusesInv. ASSUME RouteRefuses PROVE IInv'
    <2> USE <1>RouteRefusesInv
    <2>0. /\ at = "route" /\ answer' = [answer EXCEPT ![msg] = "refused"] /\ UNCHANGED <<shells, spawned, session>> /\ Routed
      BY DEF RouteRefuses, Refusal
    <2>1. UNCHANGED <<clientVars, tableVars, background, confirmed, lost, interrupted>>
      BY <2>0 DEF Routed
    <2>2. OutcomeType'
      BY <2>0, <2>1, TypeParts DEF IInv, OutcomeType
    <2> QED
      BY <2>0, <2>1, <2>2, <1>RoutedKeeps, <1>LoopInv
  (* The request goes to its session. *)
  <1>RouteDeliversInv. ASSUME RouteDelivers PROVE IInv'
    <2> USE <1>RouteDeliversInv
    <2> DEFINE s == shells[RouteId(msg)]
               new == [session[s] EXCEPT !.incoming = @ \cup {msg}]
    <2>0. /\ at = "route" /\ RouteId(msg) \in DOMAIN shells /\ Running(s) /\ session' = [session EXCEPT ![s] = new]
          /\ UNCHANGED <<shells, spawned, answer>> /\ Routed
      BY DEF RouteDelivers
    <2>1. UNCHANGED <<tableVars, background, confirmed, outcomeVars>>
      BY <2>0 DEF Routed
    <2>2. s \in Session
      BY <2>0, TypeParts DEF IInv, TableType
    <2> HIDE DEF s
    <2>3. session \in [Session -> SessionState] /\ session[s] \in SessionState /\ msg \in MsgId /\ msg <= sent
      BY <2>0, <2>2, TypeParts, <1>RoutedKeeps DEF IInv
    <2>4. new \in SessionState
      BY <2>3 DEF SessionState
    <2>5. /\ new.state = session[s].state /\ new.incoming = session[s].incoming \cup {msg} /\ new.queue = session[s].queue
          /\ new.controls = session[s].controls /\ new.stopping = session[s].stopping
          /\ new.cell = session[s].cell /\ new.phase = session[s].phase /\ new.route = session[s].route
      BY <2>3 DEF SessionState
    <2> HIDE DEF new
    <2>6. KeepsSessions
      <3>1. session' \in [Session -> SessionState] /\ session'[s] = new /\ \A t \in Session : t # s => session'[t] = session[t]
        BY <2>0, <2>2, <2>3, <2>4
      <3> SUFFICES ASSUME NEW t \in Session
                   PROVE  /\ session'[t].state = session[t].state /\ session'[t].cell = session[t].cell
                          /\ \A m \in session'[t].incoming \cup session'[t].queue : m <= sent
                          /\ Known(session'[t].route)
                          /\ session'[t].cell # NoMsg /\ session'[t].phase = "routed" /\ request[session'[t].cell].uses = "subshell" =>
                               session'[t].route \in Session
                          /\ ToldToStop(session'[t]) => ToldToStop(session[t])
        BY <3>1 DEF KeepsSessions
      <3>2. CASE t = s
        BY <2>3, <2>5, <3>1, <3>2, SessionFacts DEF ToldToStop
      <3>3. CASE t # s
        BY <3>1, <3>3, SessionFacts
      <3> QED
        BY <3>2, <3>3
    <2>7. KeepsTable
      BY <2>0, <2>1, <1>RoutedKeeps, <1>TableKept
    <2>8. KeepsTasks
      BY <2>0, <2>1, <1>RoutedKeeps, <1>TasksKept
    <2> QED
      BY <2>0, <2>1, <2>6, <2>7, <2>8, <1>RoutedKeeps, <1>RestKept, <1>KeepInv
  (* A control request that changes nothing. *)
  <1>IgnoredInv. ASSUME control # <<>>, control' = Tail(control),
                        UNCHANGED <<clientVars, shell, signals, commands, failed, loopVars, tableVars, session, background, outcomeVars,
                                    historyVars>>
                 PROVE  IInv'
    <2> USE <1>IgnoredInv
    <2>1. KeepsLoop /\ KeepsChannels
      BY <1>LoopKept, <1>ChannelsKept
    <2> QED
      BY <2>1, <1>RestKept, <1>LoopInv DEF Serving
  (* A session is told of a request that goes to all. *)
  <1>SendToShellInv. ASSUME NEW s \in todo, SendToShell(s) PROVE IInv'
    <2> USE <1>SendToShellInv
    <2> DEFINE word == IF handling = "release" THEN "release" ELSE "interrupt"
               new == [session[s] EXCEPT !.controls = Append(@, word)]
    <2>0. /\ at = "each" /\ todo' = todo \ {s} /\ session' = [session EXCEPT ![s] = new]
          /\ IF handling = "release" THEN at' = "answer" /\ waiting' = s ELSE UNCHANGED <<at, waiting>>
          /\ UNCHANGED <<clientVars, channelVars, msg, handling, error, tableVars, background, outcomeVars, historyVars>>
      BY DEF SendToShell
    <2>1. s \in Mapped /\ s \in Session /\ Mapped' = Mapped
      BY <2>0, <1>WaitingFacts DEF Hand, Mapped
    <2>2. session \in [Session -> SessionState] /\ session[s] \in SessionState
      BY <2>1, TypeParts DEF IInv
    <2>3. session[s].controls \in Seq({"interrupt", "release", "stop"}) /\ word \in {"interrupt", "release", "stop"} /\ word # "stop"
      BY <2>2 DEF SessionState
    <2>4. /\ Append(session[s].controls, word) \in Seq({"interrupt", "release", "stop"})
          /\ \A n \in DOMAIN Append(session[s].controls, word) :
               \/ n \in DOMAIN session[s].controls /\ Append(session[s].controls, word)[n] = session[s].controls[n]
               \/ Append(session[s].controls, word)[n] = word
      BY <2>3, AppendFacts, SMTT(30)
    <2> HIDE DEF word
    <2>5. new \in SessionState
      BY <2>2, <2>4 DEF SessionState
    <2>6. /\ new.state = session[s].state /\ new.incoming = session[s].incoming /\ new.queue = session[s].queue
          /\ new.controls = Append(session[s].controls, word) /\ new.stopping = session[s].stopping
          /\ new.cell = session[s].cell /\ new.phase = session[s].phase /\ new.route = session[s].route
      BY <2>2 DEF SessionState
    <2> HIDE DEF new
    <2>7. KeepsSessions
      <3>1. session' \in [Session -> SessionState] /\ session'[s] = new /\ \A t \in Session : t # s => session'[t] = session[t]
        BY <2>0, <2>1, <2>2, <2>5
      <3>2. ToldToStop(new) => ToldToStop(session[s])
        BY <2>3, <2>4, <2>6 DEF ToldToStop
      <3> SUFFICES ASSUME NEW t \in Session
                   PROVE  /\ session'[t].state = session[t].state /\ session'[t].cell = session[t].cell
                          /\ \A m \in session'[t].incoming \cup session'[t].queue : m <= sent
                          /\ Known(session'[t].route)
                          /\ session'[t].cell # NoMsg /\ session'[t].phase = "routed" /\ request[session'[t].cell].uses = "subshell" =>
                               session'[t].route \in Session
                          /\ ToldToStop(session'[t]) => ToldToStop(session[t])
        BY <3>1 DEF KeepsSessions
      <3>3. CASE t = s
        BY <2>6, <3>1, <3>2, <3>3, SessionFacts
      <3>4. CASE t # s
        BY <3>1, <3>4, SessionFacts
      <3> QED
        BY <3>3, <3>4
    <2>8. at' \in {"each", "answer"} /\ waiting = NoShell
      BY <2>0, <1>WaitingFacts
    <2>9. KeepsLoop
      <3>1. LoopType'
        BY <2>0, <2>1, <1>WaitingFacts, Constants, SMTT(30) DEF LoopType, Session
      <3>2. Hand'
        BY <2>0, <2>1, <2>8, <1>WaitingFacts DEF Hand
      <3> QED
        BY <2>0, <2>8, <3>1, <3>2, <1>WaitingFacts DEF KeepsLoop
    <2>10. KeepsTable
      BY <2>0, <2>8, <1>TableKept DEF Serving
    <2>11. KeepsTasks
      BY <2>0, <2>8, Constants, <1>RestKept, <1>TasksKept
    <2>12. KeepsChannels
      BY <2>0, <1>ChannelsKept
    <2> QED
      BY <2>0, <2>7, <2>9, <2>10, <2>11, <2>12, <1>RestKept, <1>KeepInv
  (* A session that the loop has stopped at its end has been joined. *)
  <1>JoinedInv. ASSUME Joined PROVE IInv'
    <2> USE <1>JoinedInv
    <2>0. /\ at = "join" /\ ~Running(waiting) /\ at' = "stop" /\ waiting' = NoShell
          /\ error' = (error \/ session[waiting].state = "failed")
          /\ UNCHANGED <<clientVars, channelVars, msg, handling, todo, tableVars, session, background, outcomeVars, historyVars>>
      BY DEF Joined, Finished
    <2>1. waiting \in Session
      BY <2>0, <1>WaitingFacts
    <2>2. error' \in BOOLEAN
      BY <2>0
    <2>3. error' => \E s \in Session : session[s].state \in {"failed", "shutdown"}
      BY <2>0, <2>1, <1>WaitingFacts
    <2>4. LoopType'
      BY <2>0, <2>2, <1>WaitingFacts, Constants, SMTT(30) DEF LoopType
    <2>5. Hand'
      BY <2>0, <1>WaitingFacts DEF Hand, Mapped
    <2>6. KeepsLoop
      BY <2>0, <2>3, <2>4, <2>5, <1>WaitingFacts DEF KeepsLoop
    <2>7. KeepsChannels
      BY <2>0, <1>ChannelsKept
    <2>8. ~Serving'
      BY <2>0 DEF Serving
    <2> QED
      BY <2>0, <2>6, <2>7, <2>8, <1>RestKept, <1>LoopInv
  (* The kernel ends. *)
  <1>ExitInv. ASSUME Exit PROVE IInv'
    <2> USE <1>ExitInv
    <2>0. /\ at = "stop" /\ at' = "ended" /\ shell' = <<>> /\ control' = <<>> /\ commands' = <<>>
          /\ lost' = lost \cup {shell[i] : i \in DOMAIN shell}
          /\ UNCHANGED <<clientVars, signals, failed, msg, waiting, handling, todo, error, tableVars, session, background,
                         answer, interrupted, historyVars>>
      BY DEF Exit
    <2>1. waiting = NoShell /\ handling = "none" /\ todo = {}
      BY <2>0, <1>WaitingFacts DEF Hand
    <2>2. KeepsLoop
      BY <2>0, <2>1, <1>TurnKeeps
    <2>3. ChannelType
      BY TypeParts DEF IInv
    <2>4. KeepsChannels
      <3>1. ChannelType'
        BY <2>0, <2>3, SMTT(30) DEF ChannelType
      <3> QED
        BY <2>0, <3>1, SMTT(30) DEF KeepsChannels, IInv, Faulty
    <2>5. OutcomeType'
      BY <2>0, <2>3, TypeParts, SMTT(30) DEF IInv, OutcomeType, ChannelType
    <2>6. ~Serving'
      BY <2>0 DEF Serving
    <2> QED
      BY <2>0, <2>2, <2>4, <2>5, <2>6, <1>RestKept, <1>LoopInv
  (* A handle leaves the table, and the routes that name it. *)
  <1>DetachKeeps. ASSUME NEW id \in DOMAIN shells, shells' = Without(shells, {id}), spawned' = spawned,
                         \A c \in DOMAIN route_overrides' : c \in DOMAIN route_overrides /\ route_overrides'[c] = route_overrides[c],
                         Serving' => Serving /\ \A c \in DOMAIN route_overrides' : route_overrides'[c] # id
                  PROVE  /\ KeepsTable /\ Mapped' = Mapped \ {shells[id]} /\ shells[id] \in Mapped
                         /\ shells[id] \in Session /\ shells[id] <= spawned /\ id \in Ids
    <2> USE <1>DetachKeeps
    <2>0. TableType /\ (\A i, j \in DOMAIN shells : shells[i] = shells[j] => i = j) /\ shells[id] <= spawned
      BY TypeParts DEF IInv, Table, Fresh
    <2>1. DOMAIN shells' = DOMAIN shells \ {id} /\ \A i \in DOMAIN shells' : shells'[i] = shells[i]
      BY DEF Without
    <2>2. Mapped' = Mapped \ {shells[id]} /\ shells[id] \in Mapped
      BY <2>0, <2>1, SMTT(30) DEF Mapped
    <2>3. TableType'
      BY <2>0, <2>1 DEF TableType
    <2>4. RoutesLive'
      BY <2>1 DEF IInv, RoutesLive
    <2>5. \A c, d \in DOMAIN route_overrides' :
            route_overrides'[c] = route_overrides'[d] /\ route_overrides'[c] \in Session => c = d
      BY DEF IInv, Routes
    <2> QED
      BY <2>0, <2>1, <2>2, <2>3, <2>4, <2>5 DEF KeepsTable, TableType
  (* The routes that stay when an id goes. *)
  <1>RetainedFacts. ASSUME NEW id
                    PROVE  \A c \in DOMAIN Retained(id) : c \in DOMAIN route_overrides /\ Retained(id)[c] = route_overrides[c] /\ Retained(id)[c] # id
    BY <1>RetainedFacts DEF Retained, Without
  (* A loop at "select" has nothing to send. *)
  <1>SelectFacts. ASSUME at = "select" PROVE todo = {} /\ handling = "none" /\ waiting = NoShell /\ Serving
    BY <1>SelectFacts DEF IInv, Hand, Serving
  (* A session's end is noticed. *)
  <1>ReapInv. ASSUME NEW id \in DOMAIN shells, Reap(id) PROVE IInv'
    <2> USE <1>ReapInv
    <2>0. /\ at = "select" /\ ~Running(shells[id]) /\ shells' = Without(shells, {id})
          /\ UNCHANGED <<clientVars, channelVars, spawned, session, background, outcomeVars, historyVars>>
      BY DEF Reap
    <2>1. \/ Leave(session[shells[id]].state = "failed") /\ UNCHANGED route_overrides
          \/ route_overrides' = Retained(id) /\ UNCHANGED loopVars
      BY DEF Reap
    <2>2. KeepsTable /\ Mapped' = Mapped \ {shells[id]} /\ shells[id] \in Session
      <3>1. CASE Leave(session[shells[id]].state = "failed") /\ UNCHANGED route_overrides
        BY <2>0, <3>1, <1>DetachKeeps DEF Leave, Serving
      <3>2. CASE route_overrides' = Retained(id) /\ UNCHANGED loopVars
        BY <2>0, <3>2, <1>DetachKeeps, <1>RetainedFacts, <1>SelectFacts
      <3> QED
        BY <2>1, <3>1, <3>2
    <2>3. KeepsLoop /\ waiting' = NoShell
      <3>1. CASE Leave(session[shells[id]].state = "failed")
        <4> DEFINE failure == (session[shells[id]].state = "failed")
        <4>1. failure \in BOOLEAN /\ Leave(failure) /\ (failure => \E s \in Session : session[s].state \in {"failed", "shutdown"})
          BY <2>2, <3>1
        <4> HIDE DEF failure
        <4> QED
          BY <4>1, <1>LeaveKeeps
      <3>2. CASE UNCHANGED loopVars
        <4>1. LoopType'
          BY <3>2, <1>WaitingFacts DEF LoopType
        <4>2. Hand'
          BY <2>0, <3>2, <1>SelectFacts DEF Hand
        <4> QED
          BY <2>0, <3>2, <4>1, <4>2, <1>SelectFacts, <1>WaitingFacts DEF KeepsLoop
      <3> QED
        BY <2>1, <3>1, <3>2
    <2>4. KeepsTasks
      <3>1. /\ \A task \in background : task.shell <= spawned /\ task.shell \notin Mapped
            /\ background \subseteq BackgroundTask
        BY TypeParts DEF IInv, Fresh, Table, Mapped
      <3>2. confirmed \subseteq Session /\ \A s \in confirmed : s <= spawned /\ ~Running(s)
        BY TypeParts DEF IInv, Fresh, NoOrphans, HistoryType
      <3>3. \A s \in Session : Running(s) => s \in Mapped' \cup {task.shell : task \in background} \cup {waiting'}
        BY <2>0, <2>2, <2>3, <1>SelectFacts DEF IInv, NoOrphans
      <3> QED
        BY <2>0, <2>2, <3>1, <3>2, <3>3, <1>RestKept DEF KeepsTasks
    <2>5. KeepsChannels /\ KeepsSessions
      BY <2>0, <1>ChannelsKept, <1>SessionsKept
    <2> QED
      BY <2>0, <2>2, <2>3, <2>4, <2>5, <1>RestKept, <1>KeepInv
  (* Interrupt and Stop are sent to a session that is out of the table.      *)
  <1>StopKeeps. ASSUME NEW s \in Session, NEW interrupt \in BOOLEAN, session' = StopControls(s, interrupt), s \notin Mapped'
                PROVE  KeepsSessions
    <2> USE <1>StopKeeps
    <2> DEFINE controls == IF Running(s) THEN session[s].controls \o StopMessages(interrupt) ELSE session[s].controls
               new == [session[s] EXCEPT !.controls = controls]
    <2>0. session' = [session EXCEPT ![s] = new]
      BY DEF StopControls
    <2>1. session \in [Session -> SessionState] /\ session[s] \in SessionState
      BY TypeParts DEF IInv
    <2>2. session[s].controls \in Seq({"interrupt", "release", "stop"})
      BY <2>1 DEF SessionState
    <2>3. StopMessages(interrupt) \in Seq({"interrupt", "release", "stop"})
      <3> DEFINE first == IF interrupt THEN <<"interrupt">> ELSE <<>>
      <3>1. first \in Seq({"interrupt", "release", "stop"}) /\ <<"stop">> \in Seq({"interrupt", "release", "stop"})
        <4>1. <<"interrupt">> \in Seq({"interrupt", "release", "stop"}) /\ <<"stop">> \in Seq({"interrupt", "release", "stop"})
          BY SMTT(30)
        <4>2. CASE interrupt
          BY <4>1, <4>2
        <4>3. CASE ~interrupt
          BY <4>1, <4>3, SMTT(30)
        <4> QED
          BY <4>2, <4>3
      <3>2. StopMessages(interrupt) = first \o <<"stop">>
        BY DEF StopMessages
      <3> HIDE DEF first
      <3> QED
        BY <3>1, <3>2, SMTT(30)
    <2>4. controls \in Seq({"interrupt", "release", "stop"})
      BY <2>2, <2>3, SMTT(30)
    <2> HIDE DEF controls
    <2>5. new \in SessionState
      BY <2>1, <2>4 DEF SessionState
    <2>6. /\ new.state = session[s].state /\ new.incoming = session[s].incoming /\ new.queue = session[s].queue
          /\ new.cell = session[s].cell /\ new.phase = session[s].phase /\ new.route = session[s].route
      BY <2>1 DEF SessionState
    <2> HIDE DEF new
    <2>7. session' \in [Session -> SessionState] /\ session'[s] = new /\ \A t \in Session : t # s => session'[t] = session[t]
      BY <2>0, <2>1, <2>5
    <2> SUFFICES ASSUME NEW t \in Session
                 PROVE  /\ session'[t].state = session[t].state /\ session'[t].cell = session[t].cell
                        /\ \A m \in session'[t].incoming \cup session'[t].queue : m <= sent
                        /\ Known(session'[t].route)
                        /\ session'[t].cell # NoMsg /\ session'[t].phase = "routed" /\ request[session'[t].cell].uses = "subshell" =>
                             session'[t].route \in Session
                        /\ ToldToStop(session'[t]) => ToldToStop(session[t]) \/ t \notin Mapped'
      BY <2>7 DEF KeepsSessions
    <2>8. CASE t = s
      BY <2>6, <2>7, <2>8, SessionFacts
    <2>9. CASE t # s
      BY <2>7, <2>9, SessionFacts
    <2> QED
      BY <2>8, <2>9
  (* A background task sends its messages. *)
  <1>BackgroundStopsInv. ASSUME NEW task \in background, BackgroundStops(task) PROVE IInv'
    <2> USE <1>BackgroundStopsInv
    <2> DEFINE new == [task EXCEPT !.sent = TRUE]
    <2>0. /\ session' = StopControls(task.shell, task.interrupt) /\ background' = (background \ {task}) \cup {new}
          /\ UNCHANGED <<clientVars, channelVars, loopVars, tableVars, outcomeVars, historyVars>>
      BY DEF BackgroundStops
    <2>1. task \in BackgroundTask /\ task.shell \in Session /\ task.interrupt \in BOOLEAN /\ task.shell \notin Mapped
      BY TaskFacts DEF BackgroundTask
    <2>2. new \in BackgroundTask /\ new.shell = task.shell
      BY <2>1 DEF BackgroundTask
    <2> HIDE DEF new
    <2>3. Mapped' = Mapped
      BY <2>0 DEF Mapped
    <2>4. KeepsSessions
      BY <2>0, <2>1, <2>3, <1>StopKeeps
    <2>5. KeepsTasks
      <3>1. \A s \in Session : Running(s) => s \in Mapped \cup {t.shell : t \in background'} \cup {waiting}
        BY <2>0, <2>2, TaskFacts
      <3> QED
        BY <2>0, <2>2, <2>3, <3>1, TaskFacts, <1>RestKept DEF KeepsTasks
    <2>6. KeepsTable /\ KeepsLoop /\ KeepsChannels
      BY <2>0, <1>TableKept, <1>LoopKept, <1>ChannelsKept DEF Serving
    <2> QED
      BY <2>0, <2>4, <2>5, <2>6, <1>RestKept, <1>KeepInv
  (* The loop over shells.drain() stops a session. *)
  <1>StopNextInv. ASSUME NEW id \in DOMAIN shells, StopNext(id) PROVE IInv'
    <2> USE <1>StopNextInv
    <2>0. /\ at = "stop" /\ at' = "join" /\ waiting' = shells[id] /\ session' = StopControls(shells[id], TRUE)
          /\ shells' = Without(shells, {id})
          /\ UNCHANGED <<clientVars, channelVars, msg, handling, todo, error, route_overrides, spawned, background,
                         outcomeVars, historyVars>>
      BY DEF StopNext
    <2>1. KeepsTable /\ Mapped' = Mapped \ {shells[id]} /\ shells[id] \in Session
      BY <2>0, <1>DetachKeeps DEF Serving
    <2>2. KeepsSessions
      BY <2>0, <2>1, <1>StopKeeps
    <2>3. waiting = NoShell /\ waiting \notin Session /\ handling = "none" /\ todo = {}
      BY <2>0, <1>WaitingFacts DEF Hand
    <2>4. KeepsLoop
      <3>1. LoopType'
        BY <2>0, <2>1, <1>WaitingFacts, Constants, SMTT(30) DEF LoopType, Session
      <3>2. Hand'
        BY <2>0, <2>1, <2>3 DEF Hand
      <3> QED
        BY <2>0, <3>1, <3>2, <1>WaitingFacts DEF KeepsLoop
    <2>5. KeepsTasks
      BY <2>0, <2>1, <2>3, TaskFacts, <1>RestKept DEF KeepsTasks
    <2>6. KeepsChannels
      BY <2>0, <1>ChannelsKept
    <2> QED
      BY <2>0, <2>1, <2>2, <2>4, <2>5, <2>6, <1>RestKept, <1>KeepInv
  (* A session leaves the table for a task that will stop it. *)
  <1>HandedOver. ASSUME at = "select", NEW id \in DOMAIN shells, NEW task \in BackgroundTask, task.shell = shells[id],
                        shells' = Without(shells, {id}), background' = background \cup {task},
                        UNCHANGED <<clientVars, loopVars, spawned, session, outcomeVars, historyVars>>,
                        \A c \in DOMAIN route_overrides' : /\ c \in DOMAIN route_overrides /\ route_overrides'[c] = route_overrides[c]
                                                           /\ route_overrides'[c] # id,
                        KeepsChannels
                 PROVE  IInv'
    <2> USE <1>HandedOver
    <2>0. todo = {} /\ waiting = NoShell /\ Serving /\ handling = "none"
      BY <1>SelectFacts
    <2>1. KeepsTable /\ Mapped' = Mapped \ {shells[id]} /\ shells[id] \in Session /\ shells[id] <= spawned
      BY <2>0, <1>DetachKeeps
    <2>2. KeepsSessions
      BY <1>SessionsKept
    <2>3. KeepsTasks
      <3>1. \A t \in background' : t \in BackgroundTask /\ t.shell <= spawned /\ t.shell \notin Mapped'
        BY <2>1, TaskFacts
      <3>2. \A s \in Session : Running(s) => s \in Mapped' \cup {t.shell : t \in background'} \cup {waiting'}
        BY <2>1, TaskFacts
      <3> QED
        BY <3>1, <3>2, TaskFacts, <1>RestKept DEF KeepsTasks
    <2>4. KeepsLoop
      <3>1. LoopType'
        BY <1>WaitingFacts DEF LoopType
      <3>2. Hand'
        BY <2>0 DEF Hand
      <3> QED
        BY <3>1, <3>2, <1>WaitingFacts DEF KeepsLoop
    <2> QED
      BY <2>1, <2>2, <2>3, <2>4, <1>RestKept, <1>KeepInv
  (* delete_subshell_request. *)
  <1>DeleteRequestInv. ASSUME DeleteRequest PROVE IInv'
    <2> USE <1>DeleteRequestInv
    <2> DEFINE id == Head(control).id
    <2>0. /\ at = "select" /\ control # <<>> /\ control' = Tail(control)
          /\ UNCHANGED <<clientVars, shell, signals, commands, failed, outcomeVars, confirmed, covered, loopVars, spawned,
                         session, upto>>
      BY DEF DeleteRequest, TakeControl
    <2>1. CASE id \in DOMAIN shells
      <3> DEFINE task == StopTask(shells[id], TRUE, TRUE, 1, NoMsg)
      <3>1. /\ shells' = Without(shells, {id}) /\ route_overrides' = Retained(id) /\ background' = background \cup {task}
        BY <2>1 DEF DeleteRequest, Detached
      <3>2. shells[id] \in Session
        BY <2>1, TypeParts DEF IInv, TableType
      <3>3. task \in BackgroundTask /\ task.shell = shells[id]
        BY <3>2, Constants, SMTT(30) DEF StopTask, BackgroundTask
      <3> HIDE DEF id, task
      <3>4. KeepsChannels
        BY <2>0, <1>ChannelsKept
      <3> QED
        BY <2>0, <2>1, <3>1, <3>3, <3>4, <1>RetainedFacts, <1>HandedOver
    <2>2. CASE id \notin DOMAIN shells
      <3>1. UNCHANGED <<shells, route_overrides, background>>
        BY <2>2 DEF DeleteRequest
      <3> QED
        BY <2>0, <3>1, <1>IgnoredInv
    <2> QED
      BY <2>1, <2>2
  (* It is woken with no route, or with one that it may have. *)
  <1>WokenKeeps. ASSUME NEW command, command.caller \in Session, NEW phase \in {"running", "routed"}, NEW id \in Ids,
                        session' = Woken(session, command, phase, id), Known(id),
                        phase = "routed" => request[command.msg].uses # "subshell" \/ id \in Session
                 PROVE  KeepsSessions
    <2> USE <1>WokenKeeps
    <2>1. session' \in [Session -> SessionState]
      BY WokenFacts
    <2>2. ASSUME NEW t \in Session
          PROVE  /\ session'[t].state = session[t].state /\ session'[t].incoming = session[t].incoming
                 /\ session'[t].queue = session[t].queue /\ session'[t].controls = session[t].controls
                 /\ session'[t].stopping = session[t].stopping /\ session'[t].cell = session[t].cell
                 /\ \/ session'[t].phase = session[t].phase /\ session'[t].route = session[t].route
                    \/ session'[t].cell = command.msg /\ session'[t].phase = phase /\ session'[t].route = id
      <3>1. Roused(session[t], session'[t], command.msg, phase, id)
        BY WokenFacts
      <3> QED
        BY <3>1 DEF Roused
    <2>3. ASSUME NEW t \in Session
          PROVE  /\ session'[t].state = session[t].state /\ session'[t].cell = session[t].cell
                 /\ \A m \in session'[t].incoming \cup session'[t].queue : m <= sent
                 /\ Known(session'[t].route)
                 /\ session'[t].cell # NoMsg /\ session'[t].phase = "routed" /\ request[session'[t].cell].uses = "subshell" =>
                      session'[t].route \in Session
                 /\ ToldToStop(session'[t]) => ToldToStop(session[t])
      BY <2>2, SessionFacts, SMTT(30) DEF ToldToStop
    <2> QED
      BY <2>1, <2>3 DEF KeepsSessions
  (* A command is taken and the tables stay. *)
  <1>CommandedInv. ASSUME commands # <<>>, Commanded, UNCHANGED <<background, confirmed>>, KeepsSessions, KeepsTable, UNCHANGED shells
                   PROVE  IInv'
    <2> USE <1>CommandedInv
    <2>0. /\ at = "select" /\ commands' = Tail(commands)
          /\ UNCHANGED <<clientVars, shell, control, signals, failed, loopVars, outcomeVars, upto, covered>>
      BY DEF Commanded
    <2>1. KeepsLoop /\ KeepsChannels
      BY <2>0, <1>LoopKept, <1>ChannelsKept
    <2>2. KeepsTasks
      BY <2>0, <1>RestKept, <1>TasksKept
    <2> QED
      BY <2>0, <2>1, <2>2, <1>RestKept, <1>KeepInv
  (* A command is refused. *)
  <1>RefusedInv. ASSUME OpenRefused \/ CloseRefused PROVE IInv'
    <2> USE <1>RefusedInv
    <2>0. /\ commands # <<>> /\ session' = Woken(session, Head(commands), "running", Parent)
          /\ UNCHANGED <<tableVars, background, confirmed>> /\ Commanded
      BY DEF OpenRefused, CloseRefused
    <2>1. KeepsSessions
      BY <2>0, CommandFacts, <1>WokenKeeps
    <2>2. KeepsTable
      BY <2>0, <1>TableKept DEF Commanded, Serving
    <2> QED
      BY <2>0, <2>1, <2>2, <1>CommandedInv
  (* SessionCommand::Close. *)
  <1>CloseRouteInv. ASSUME CloseRoute PROVE IInv'
    <2> USE <1>CloseRouteInv
    <2> DEFINE command == Head(commands)
    <2>0. /\ commands # <<>> /\ command.type = "close" /\ command.client \in DOMAIN route_overrides
          /\ route_overrides[command.client] = command.id
          /\ route_overrides' = Without(route_overrides, {command.client}) /\ UNCHANGED <<spawned, confirmed>> /\ Commanded
      BY DEF CloseRoute
    <2>1. /\ at = "select" /\ commands' = Tail(commands)
          /\ UNCHANGED <<clientVars, shell, control, signals, failed, loopVars, outcomeVars, upto, covered>>
      BY <2>0 DEF Commanded
    <2>2. \A c \in DOMAIN route_overrides' : c \in DOMAIN route_overrides /\ route_overrides'[c] = route_overrides[c] /\ c # command.client
      BY <2>0 DEF Without
    <2>3. CASE command.delete /\ command.id \in DOMAIN shells
      <3> DEFINE task == StopTask(shells[command.id], FALSE, FALSE, command.caller, command.msg)
      <3>1. shells' = Without(shells, {command.id}) /\ background' = background \cup {task} /\ UNCHANGED session
        BY <2>3 DEF CloseRoute, Detached
      <3>2. shells[command.id] \in Session /\ command.caller \in Session /\ command.msg \in MsgId /\ command.id \in Session
        BY <2>0, <2>3, TypeParts, CommandFacts DEF IInv, TableType, Sound
      <3>3. task \in BackgroundTask /\ task.shell = shells[command.id]
        BY <3>2, Constants, SMTT(30) DEF StopTask, BackgroundTask, MsgId
      <3>4. \A c \in DOMAIN route_overrides' : route_overrides'[c] # command.id
        <4>1. \A c, d \in DOMAIN route_overrides :
                route_overrides[c] = route_overrides[d] /\ route_overrides[c] \in Session => c = d
          BY DEF IInv, Routes
        <4> HIDE DEF command
        <4> QED
          BY <2>0, <2>2, <3>2, <4>1
      <3> HIDE DEF task, command
      <3>5. KeepsChannels
        BY <2>0, <2>1, <1>ChannelsKept
      <3> QED
        BY <2>0, <2>1, <2>2, <2>3, <3>1, <3>3, <3>4, <3>5, <1>HandedOver
    <2>4. CASE ~(command.delete /\ command.id \in DOMAIN shells)
      <3>1. session' = Woken(session, command, "running", Parent) /\ UNCHANGED <<shells, background>>
        BY <2>4 DEF CloseRoute
      <3>2. KeepsSessions
        BY <2>0, <3>1, CommandFacts, <1>WokenKeeps
      <3>3. KeepsTable
        <4>1. TableType'
          BY <2>0, <2>2, <3>1, TypeParts DEF IInv, TableType
        <4>2. RoutesLive'
          BY <2>1, <2>2, <3>1 DEF IInv, RoutesLive, Serving
        <4>3. \A c, d \in DOMAIN route_overrides' :
                route_overrides'[c] = route_overrides'[d] /\ route_overrides'[c] \in Session => c = d
          BY <2>2 DEF IInv, Routes
        <4> QED
          BY <2>0, <3>1, <4>1, <4>2, <4>3 DEF KeepsTable
      <3> QED
        BY <2>0, <3>1, <3>2, <3>3, <1>CommandedInv
    <2> QED
      BY <2>3, <2>4
  (* A background task has joined its session. *)
  <1>BackgroundDoneInv. ASSUME NEW task \in background, BackgroundDone(task) PROVE IInv'
    <2> USE <1>BackgroundDoneInv
    <2>0. /\ ~Running(task.shell) /\ background' = background \ {task}
          /\ session' = (IF task.client THEN session ELSE Woken(session, task, "running", Parent))
          /\ UNCHANGED <<clientVars, shell, control, signals, commands, loopVars, tableVars, outcomeVars, covered, upto>>
      BY DEF BackgroundDone, Finished
    <2>1. \/ session[task.shell].state = "failed" /\ failed' = TRUE /\ confirmed' = confirmed
          \/ confirmed' = confirmed \cup {task.shell} /\ failed' = failed
      BY DEF BackgroundDone
    <2>2. task \in BackgroundTask /\ task.shell \in Session /\ task.shell <= spawned /\ task.caller \in Session /\ Mapped' = Mapped
      BY <2>0, TaskFacts DEF BackgroundTask, Mapped
    <2>3. KeepsSessions
      BY <2>0, <2>2, <1>SessionsKept, <1>WokenKeeps, Constants DEF Known
    <2>4. KeepsTasks
      <3>1. HistoryType'
        BY <2>0, <2>1, <2>2, TypeParts DEF IInv, HistoryType
      <3>2. \A s \in confirmed' : s <= spawned /\ ~Running(s)
        BY <2>0, <2>1, <2>2, TaskFacts
      <3>3. \A s \in Session : Running(s) => s \in Mapped' \cup {t.shell : t \in background'} \cup {waiting'}
        BY <2>0, <2>2, TaskFacts
      <3> QED
        BY <2>0, <2>2, <3>1, <3>2, <3>3, TaskFacts DEF KeepsTasks
    <2>5. KeepsTable /\ KeepsLoop
      BY <2>0, <1>TableKept, <1>LoopKept DEF Serving
    <2>6. KeepsChannels
      BY <2>0, <2>1, <2>2, <1>ChannelsKept
    <2> QED
      BY <2>0, <2>3, <2>4, <2>5, <2>6, <1>RestKept, <1>KeepInv
  (* A step that makes a session preserves the invariant. *)
  <1>SpawnInv. ASSUME NEW id \in Ids, Known(id), Missing(id), NEW sessions, Others(sessions), NEW new, Made(new),
                      Created(sessions, id, new), at \in {"select", "route"}, KeepsChannels, ClientType', OutcomeType', HistoryType',
                      UNCHANGED <<sent, request, failed, background, confirmed, waiting, handling, todo, error>>,
                      LoopType', at' = (IF handling = "none" THEN "select" ELSE "pending"), msg' <= sent,
                      NEW n0 \in Int, n0 = NewShell, NEW key, key = IF id = Parent THEN n0 ELSE id,
                      \/ route_overrides' = route_overrides
                      \/ /\ id \notin Session
                         /\ \E c \in Clients \ DOMAIN route_overrides : route_overrides' = With(route_overrides, c, key)
               PROVE  IInv'
    <2> USE <1>SpawnInv
    <2>0. TypeOK /\ Fresh /\ Table /\ Routes /\ NoOrphans /\ RoutesLive /\ Within /\ Hand
      BY DEF IInv
    <2>1. /\ spawned' = n0 /\ shells' = With(shells, key, n0) /\ session' = [sessions EXCEPT ![n0] = new]
          /\ spawned < MaxShells
      BY DEF Created
    <2>2. n0 \in Session /\ n0 = spawned + 1 /\ spawned \in Session /\ spawned \in Int /\ TableType
      BY <2>0, <2>1, TypeParts, Constants, SMTT(30) DEF NewShell, TableType, Session
    <2>3. session[n0].state = "none"
      BY <2>0, <2>2, Constants, SMTT(30) DEF Fresh
    <2>4. key \notin DOMAIN shells /\ key \in Ids
      BY <2>0, <2>2, Constants, SMTT(30) DEF Missing, Fresh, Known
    <2>5. /\ DOMAIN shells' = DOMAIN shells \cup {key} /\ shells'[key] = n0
          /\ \A i \in DOMAIN shells : shells'[i] = shells[i]
      BY <2>1, <2>4 DEF With
    <2>6. Mapped' = Mapped \cup {n0}
      BY <2>5, SMTT(30) DEF Mapped
    <2>7. /\ session' \in [Session -> SessionState] /\ session'[n0] = new
          /\ \A t \in Session : t # n0 => session'[t] = sessions[t]
      BY <2>1, <2>2 DEF Others, Made
    <2>8. \A x : Known(x) => KnownNext(x)
      <3> SUFFICES ASSUME NEW x, Known(x), x \in Session PROVE x <= spawned'
        BY DEF KnownNext
      <3>1. x <= spawned /\ x \in Int
        BY Constants DEF Known
      <3> QED
        BY <2>1, <2>2, <3>1, SMTT(30)
    <2>9. KnownNext(n0) /\ KnownNext(key)
      BY <2>1, <2>2, <2>8, Constants, SMTT(30) DEF KnownNext
    <2>10. /\ \A c \in DOMAIN route_overrides' :
                \/ c \in DOMAIN route_overrides /\ route_overrides'[c] = route_overrides[c]
                \/ c \in Clients \ DOMAIN route_overrides /\ route_overrides'[c] = key /\ id \notin Session
           /\ \A c, d \in DOMAIN route_overrides' : c \notin DOMAIN route_overrides /\ d \notin DOMAIN route_overrides => c = d
      BY DEF With
    <2>11. TypeOK'
      <3>1. TableType'
        BY <2>1, <2>2, <2>4, <2>5, <2>10 DEF TableType
      <3>2. background' \subseteq BackgroundTask
        BY TypeParts, <2>0
      <3> QED
        BY <2>7, <3>1, <3>2, TypePartsNext DEF KeepsChannels
    <2>12. Within'
      <3>1. \A n \in DOMAIN commands' : commands'[n].msg <= sent
        BY <2>0 DEF Within, KeepsChannels
      <3>2. 0 <= sent
        BY <2>0, TypeParts, SMTT(30) DEF ClientType
      <3>3. ASSUME NEW t \in Session
            PROVE  session'[t].cell <= sent /\ \A m \in session'[t].incoming \cup session'[t].queue : m <= sent
        BY <2>0, <2>7, <3>2 DEF Within, Others, Made
      <3> QED
        BY <3>1, <3>3 DEF Within, KeepsChannels
    <2>13. Hand'
      BY <2>0, <2>6 DEF Hand
    <2>14. Fresh'
      <3>1. ASSUME NEW s \in Session, s > spawned' PROVE session'[s].state = "none"
        <4>1. s > spawned /\ s # n0
          BY <2>1, <2>2, <3>1, Constants, SMTT(30)
        <4> QED
          BY <2>0, <2>7, <4>1 DEF Fresh, Others
      <3>2. ASSUME NEW i \in DOMAIN shells' PROVE shells'[i] <= spawned' /\ KnownNext(i)
        <4>1. CASE i = key
          <5>1. shells'[i] = n0 /\ KnownNext(i) /\ spawned' = n0 /\ n0 <= n0
            BY <2>1, <2>5, <2>9, <4>1, SMTT(30)
          <5> QED
            BY <5>1
        <4>2. CASE i # key
          <5>1. i \in DOMAIN shells /\ shells'[i] = shells[i] /\ shells[i] <= spawned /\ Known(i) /\ shells[i] \in Int
            BY <2>0, <2>2, <2>5, <4>2, Constants DEF Fresh, TableType
          <5> QED
            BY <2>1, <2>2, <2>8, <5>1, SMTT(30)
        <4> QED
          BY <4>1, <4>2
      <3>3. (\A task \in background' : task.shell <= spawned') /\ (\A s \in confirmed' : s <= spawned')
        <4>1. \A task \in background : task.shell <= spawned /\ task.shell \in Int
          BY TaskFacts, Constants
        <4>2. \A s \in confirmed : s <= spawned /\ s \in Int
          BY TaskFacts, Constants
        <4> QED
          BY <2>1, <2>2, <4>1, <4>2, SMTT(30)
      <3>4. \A m \in 1 .. sent' : KnownNext(request'[m].id)
        BY <2>0, <2>8 DEF Fresh
      <3>5. (\A n \in DOMAIN control' : KnownNext(control'[n].id)) /\ (\A n \in DOMAIN commands' : KnownNext(commands'[n].id))
        BY <2>0, <2>8 DEF Fresh, KeepsChannels
      <3>6. ASSUME NEW t \in Session PROVE KnownNext(session'[t].route)
        <4>1. Known(session'[t].route) \/ session'[t].route = n0 \/ session'[t].route = Parent
          BY <2>7 DEF Others, Made
        <4>2. Known(Parent)
          BY Constants DEF Known
        <4> QED
          BY <2>8, <2>9, <4>1, <4>2
      <3> QED
        BY <3>1, <3>2, <3>3, <3>4, <3>5, <3>6 DEF Fresh, Known, KnownNext
    <2>15. Table'
      <3>0. \A i \in DOMAIN shells : shells[i] \in Session /\ shells[i] # n0 /\ shells[i] \in Mapped
        BY <2>0, <2>2, <2>3 DEF Table, TableType, Mapped
      <3>1. \A i, j \in DOMAIN shells' : shells'[i] = shells'[j] => i = j
        BY <2>0, <2>5, <3>0, SMTT(30) DEF Table
      <3>2. ASSUME NEW i \in DOMAIN shells'
            PROVE  /\ session'[shells'[i]].state \in {"running", "failed", "shutdown"} /\ ~ToldToStop(session'[shells'[i]])
                   /\ \A task \in background' : task.shell # shells'[i]
        <4>1. CASE i = key
          <5>1. shells'[i] = n0 /\ session'[n0] = new
            BY <2>5, <2>7, <4>1
          <5>2. new.state = "running" /\ ~ToldToStop(new)
            BY SMTT(30) DEF Made, ToldToStop
          <5>3. \A task \in background : task.shell # n0
            BY <2>2, TaskFacts, Constants, SMTT(30)
          <5> QED
            BY <5>1, <5>2, <5>3
        <4>2. CASE i # key
          <5>1. i \in DOMAIN shells /\ shells'[i] = shells[i]
            BY <2>5, <4>2
          <5>2. /\ session[shells[i]].state \in {"running", "failed", "shutdown"} /\ ~ToldToStop(session[shells[i]])
                /\ \A task \in background : task.shell # shells[i]
            BY <2>0, <5>1 DEF Table, ToldToStop
          <5>3. session'[shells[i]] = sessions[shells[i]]
            BY <2>7, <3>0, <5>1
          <5>4. /\ sessions[shells[i]].state = session[shells[i]].state
                /\ sessions[shells[i]].controls = session[shells[i]].controls
                /\ sessions[shells[i]].stopping = session[shells[i]].stopping
            BY <3>0, <5>1 DEF Others
          <5> QED
            BY <5>1, <5>2, <5>3, <5>4 DEF ToldToStop
        <4> QED
          BY <4>1, <4>2
      <3> QED
        BY <3>1, <3>2 DEF Table, ToldToStop
    <2>16. Routes'
      <3>1. \A n \in DOMAIN commands' :
              /\ commands'[n].type = "open" =>
                   commands'[n].id = IF request[commands'[n].msg].uses = "sidecar" THEN Sidecar ELSE Parent
              /\ commands'[n].type = "close" /\ commands'[n].delete => commands'[n].id \in Session
        BY <2>0 DEF Routes, KeepsChannels
      <3>2. ASSUME NEW t \in Session, session'[t].cell # NoMsg, session'[t].phase = "routed",
                   request[session'[t].cell].uses = "subshell"
            PROVE  session'[t].route \in Session
        BY <2>2, <2>7, <3>2 DEF Others, Made
      <3>3. \A c \in DOMAIN route_overrides : route_overrides[c] # n0
        <4>1. \A c \in DOMAIN route_overrides : route_overrides[c] \in DOMAIN shells
          BY <2>0 DEF RoutesLive, Serving
        <4>2. \A i \in DOMAIN shells : i # n0
          BY <2>0, <2>2, SMTT(30) DEF Fresh, Known
        <4> QED
          BY <4>1, <4>2
      <3>4. \A c, d \in DOMAIN route_overrides' :
              route_overrides'[c] = route_overrides'[d] /\ route_overrides'[c] \in Session => c = d
        <4> SUFFICES ASSUME NEW c \in DOMAIN route_overrides', NEW d \in DOMAIN route_overrides',
                            route_overrides'[c] = route_overrides'[d], route_overrides'[c] \in Session
                     PROVE  c = d
          OBVIOUS
        <4>1. CASE c \in DOMAIN route_overrides /\ d \in DOMAIN route_overrides
          BY <2>0, <2>10, <4>1 DEF Routes
        <4>2. CASE c \notin DOMAIN route_overrides /\ d \notin DOMAIN route_overrides
          BY <2>10, <4>2
        <4>3. \A e \in DOMAIN route_overrides' :
                e \notin DOMAIN route_overrides /\ route_overrides'[e] \in Session => route_overrides'[e] = n0
          BY <2>10
        <4> QED
          BY <2>10, <3>3, <4>1, <4>2, <4>3
      <3> QED
        BY <3>1, <3>2, <3>4 DEF Routes
    <2>17. Faulty' /\ KernelSurvives'
      <3>1. \A t \in Session : session[t].state \in {"failed", "shutdown"} => session'[t].state = session[t].state
        BY <2>3, <2>7 DEF Others
      <3> QED
        BY <3>1 DEF IInv, Faulty, KernelSurvives
    <2>18. NoOrphans'
      <3> SUFFICES ASSUME NEW t \in Session, session'[t].state = "running"
                   PROVE  t \in Mapped' \cup {task.shell : task \in background'} \cup {waiting'} /\ t \notin confirmed'
        BY DEF NoOrphans
      <3>1. CASE t = n0
        <4>1. n0 \notin confirmed
          BY <2>2, TaskFacts, SMTT(30)
        <4> QED
          BY <2>6, <3>1, <4>1
      <3>2. CASE t # n0
        <4>1. session[t].state = "running"
          BY <2>7, <3>2 DEF Others
        <4> QED
          BY <2>0, <2>6, <4>1 DEF NoOrphans
      <3> QED
        BY <3>1, <3>2
    <2>19. RoutesLive'
      BY <2>0, <2>5, <2>10 DEF RoutesLive, Serving
    <2> QED
      BY <2>11, <2>12, <2>13, <2>14, <2>15, <2>16, <2>17, <2>18, <2>19 DEF IInv
  (* What the invariant says of sessions that nobody wakes. *)
  <1>OthersSame. Others(session)
    <2>1. session \in [Session -> SessionState]
      BY TypeParts DEF IInv
    <2>2. ASSUME NEW t \in Session
          PROVE  /\ Known(session[t].route)
                 /\ session[t].cell # NoMsg /\ session[t].phase = "routed" /\ request[session[t].cell].uses = "subshell" =>
                      session[t].route \in Session
      BY SessionFacts
    <2> QED
      BY <2>1, <2>2 DEF Others
  (* A new session is as it should be. *)
  <1>MadeNew. Made(NewSession)
    <2>1. NewSession \in SessionState
      BY NewSessions
    <2> QED
      BY <2>1 DEF Made, NewSession
  (* NewShell is a number. *)
  <1>NewShellInt. NewShell \in Int
    BY TypeParts, Constants, SMTT(30) DEF IInv, TableType, NewShell
  (* A request makes the session it names. *)
  <1>RouteCreatesInv. ASSUME RouteCreates PROVE IInv'
    <2> USE <1>RouteCreatesInv
    <2> DEFINE id == RouteId(msg)
               new == [NewSession EXCEPT !.incoming = {msg}]
    <2>0. /\ at = "route" /\ request[msg].id # Parent /\ id \notin DOMAIN shells /\ Created(session, id, new)
          /\ answer' = answer /\ Routed
      BY DEF RouteCreates
    <2>1. /\ at' = (IF handling = "none" THEN "select" ELSE "pending") /\ msg' = NoMsg
          /\ UNCHANGED <<clientVars, channelVars, waiting, handling, todo, error, route_overrides, background, lost,
                         interrupted, historyVars>>
      BY <2>0 DEF Routed
    <2>2. msg \in MsgId /\ msg <= sent
      BY <2>0, <1>WaitingFacts, Constants, SMTT(30) DEF IInv, Within, LoopType, MsgId
    <2>3. sent \in Nat /\ request \in [MsgId -> Request]
      BY TypeParts, SMTT(30) DEF IInv, ClientType
    <2>4. id = request[msg].id /\ id \in Ids /\ Known(id)
      <3>1. id = request[msg].id
        BY <2>0 DEF RouteId
      <3>2. request[msg].id \in Ids
        BY <2>2, <2>3 DEF Request
      <3>3. Known(request[msg].id)
        BY <2>2, <2>3, SMTT(30) DEF IInv, Fresh, MsgId
      <3> QED
        BY <3>1, <3>2, <3>3
    <2>5. Missing(id)
      BY <2>0 DEF Missing
    <2>6. Made(new)
      <3>1. new \in SessionState
        BY <2>2, NewSessions DEF SessionState
      <3> QED
        BY <2>2, <3>1 DEF Made, NewSession
    <2>7. LoopType'
      BY <2>1, <1>WaitingFacts, Constants, SMTT(30) DEF LoopType
    <2>8. KeepsChannels
      BY <2>1, <1>ChannelsKept
    <2>9. msg' <= sent
      BY <2>1, <2>3, SMTT(30)
    <2> HIDE DEF id, new
    <2>10. ClientType' /\ OutcomeType' /\ HistoryType'
      BY <2>0, <2>1, <1>RestKept
    <2>11. PICK key : key = IF id = Parent THEN NewShell ELSE id
      OBVIOUS
    <2> QED
      BY <2>0, <2>1, <2>4, <2>5, <2>6, <2>7, <2>8, <2>9, <2>10, <2>11, <1>OthersSame, <1>NewShellInt, <1>SpawnInv
  (* create_subshell_request. *)
  <1>CreateRequestInv. ASSUME CreateRequest PROVE IInv'
    <2> USE <1>CreateRequestInv
    <2> DEFINE id == Head(control).id
    <2>0. /\ at = "select" /\ control # <<>> /\ control' = Tail(control)
          /\ UNCHANGED <<clientVars, shell, signals, commands, failed, outcomeVars, confirmed, covered, loopVars,
                         route_overrides, background, upto>>
      BY DEF CreateRequest, TakeControl
    <2>1. CASE UNCHANGED <<shells, spawned, session>>
      BY <2>0, <2>1, <1>IgnoredInv
    <2>2. CASE Missing(id) /\ Created(session, id, NewSession)
      <3>1. id \in Ids /\ Known(id)
        <4>1. control \in Seq(ControlMessage) /\ \A n \in DOMAIN control : Known(control[n].id)
          BY TypeParts DEF IInv, ChannelType, Fresh
        <4>2. Head(control) \in ControlMessage /\ 1 \in DOMAIN control /\ Head(control) = control[1]
          BY <2>0, <4>1, TailFacts
        <4> QED
          BY <4>1, <4>2 DEF ControlMessage
      <3> HIDE DEF id
      <3>2. KeepsChannels
        BY <2>0, <1>ChannelsKept
      <3>3. LoopType' /\ msg' <= sent /\ handling = "none"
        BY <2>0, <1>WaitingFacts, <1>SelectFacts DEF LoopType
      <3>4. ClientType' /\ OutcomeType' /\ HistoryType'
        BY <2>0, <1>RestKept
      <3>5. PICK key : key = IF id = Parent THEN NewShell ELSE id
        OBVIOUS
      <3> QED
        BY <2>0, <2>2, <3>1, <3>2, <3>3, <3>4, <3>5, <1>OthersSame, <1>MadeNew, <1>NewShellInt, <1>SpawnInv
    <2> QED
      BY <2>1, <2>2 DEF CreateRequest
  (* SessionCommand::Open. *)
  <1>OpenRouteInv. ASSUME OpenRoute PROVE IInv'
    <2> USE <1>OpenRouteInv
    <2> DEFINE command == Head(commands)
               id == IF command.id = Parent THEN NewShell ELSE command.id
               woken == Woken(session, command, "routed", id)
    <2>0. /\ commands # <<>> /\ command.type = "open" /\ command.client \notin DOMAIN route_overrides
          /\ route_overrides' = With(route_overrides, command.client, id) /\ UNCHANGED <<background, confirmed>> /\ Commanded
          /\ IF Missing(command.id) THEN Created(woken, command.id, NewSession)
             ELSE session' = woken /\ UNCHANGED <<shells, spawned>>
      BY DEF OpenRoute
    <2>1. /\ at = "select" /\ commands' = Tail(commands)
          /\ UNCHANGED <<clientVars, shell, control, signals, failed, loopVars, outcomeVars, upto, covered>>
      BY <2>0 DEF Commanded
    <2>2. /\ Sound(command) /\ command.caller \in Session /\ command.id \in Ids /\ command.client \in Clients
          /\ command.id = (IF request[command.msg].uses = "sidecar" THEN Sidecar ELSE Parent) /\ Known(command.id)
      BY <2>0, CommandFacts DEF Sound
    <2>3. command.id \notin Session /\ (request[command.msg].uses = "subshell" => command.id = Parent)
      BY <2>2, Constants
    <2>4. CASE Missing(command.id)
      <3>1. Created(woken, command.id, NewSession) /\ spawned < MaxShells
        BY <2>0, <2>4 DEF Created
      <3>2. NewShell \in Session
        BY <3>1, TypeParts, Constants, SMTT(30) DEF IInv, TableType, NewShell, Session
      <3>3. id \in Ids /\ (Known(id) \/ id = NewShell) /\ (request[command.msg].uses = "subshell" => id = NewShell)
        BY <2>2, <2>3, <3>2, Constants
      <3>4. Others(woken)
        <4> HIDE DEF id, command
        <4>1. woken \in [Session -> SessionState]
          BY <2>2, <3>3, WokenFacts
        <4>2. ASSUME NEW t \in Session
              PROVE  /\ woken[t].state = session[t].state /\ woken[t].incoming = session[t].incoming
                     /\ woken[t].queue = session[t].queue /\ woken[t].controls = session[t].controls
                     /\ woken[t].stopping = session[t].stopping /\ woken[t].cell = session[t].cell
                     /\ \/ woken[t].phase = session[t].phase /\ woken[t].route = session[t].route
                        \/ woken[t].cell = command.msg /\ woken[t].phase = "routed" /\ woken[t].route = id
          <5>1. Roused(session[t], woken[t], command.msg, "routed", id)
            BY <2>2, <3>3, WokenFacts
          <5> QED
            BY <5>1 DEF Roused
        <4> HIDE DEF woken
        <4>3. ASSUME NEW t \in Session
              PROVE  /\ Known(woken[t].route) \/ woken[t].route = NewShell
                     /\ woken[t].cell # NoMsg /\ woken[t].phase = "routed" /\ request[woken[t].cell].uses = "subshell" =>
                          woken[t].route \in Session \/ woken[t].route = NewShell
          BY <3>3, <4>2, SessionFacts
        <4> QED
          BY <4>1, <4>2, <4>3 DEF Others
      <3>5. KeepsChannels
        BY <2>0, <2>1, <1>ChannelsKept
      <3>6. LoopType' /\ msg' <= sent /\ handling = "none"
        BY <2>1, <1>WaitingFacts, <1>SelectFacts DEF LoopType
      <3>7. ClientType' /\ OutcomeType' /\ HistoryType'
        BY <2>0, <2>1, <1>RestKept
      <3>8. id = IF command.id = Parent THEN NewShell ELSE command.id
        OBVIOUS
      <3> HIDE DEF id, command, woken
      <3>9. \E c \in Clients \ DOMAIN route_overrides : route_overrides' = With(route_overrides, c, id)
        BY <2>0, <2>2
      <3>10. PICK key : key = id
        OBVIOUS
      <3>11. PICK name : name = command.id
        OBVIOUS
      <3> QED
        BY <2>0, <2>1, <2>2, <2>3, <2>4, <3>1, <3>4, <3>5, <3>6, <3>7, <3>8, <3>9, <3>10, <3>11, <1>MadeNew, <1>NewShellInt, <1>SpawnInv
    <2>5. CASE ~Missing(command.id)
      <3>1. session' = woken /\ UNCHANGED <<shells, spawned>>
        BY <2>0, <2>5
      <3>2. command.id \in DOMAIN shells /\ command.id # Parent /\ id = command.id
        BY <2>5 DEF Missing
      <3>3. id \in Ids /\ Known(id) /\ request[command.msg].uses # "subshell"
        BY <2>2, <2>3, <3>2
      <3> HIDE DEF id, command
      <3>4. KeepsSessions
        BY <2>2, <3>1, <3>3, <1>WokenKeeps
      <3> HIDE DEF woken
      <3>5. /\ \A c \in DOMAIN route_overrides' :
                 \/ c \in DOMAIN route_overrides /\ route_overrides'[c] = route_overrides[c]
                 \/ c \in Clients /\ c \notin DOMAIN route_overrides /\ route_overrides'[c] = id
        BY <2>0, <2>2 DEF With
      <3>6. KeepsTable
        <4>1. TableType'
          BY <3>1, <3>3, <3>5, TypeParts DEF IInv, TableType
        <4>2. RoutesLive'
          BY <2>1, <3>1, <3>2, <3>5 DEF IInv, RoutesLive, Serving
        <4>3. id \notin Session
          BY <2>3, <3>2
        <4>4. \A c, d \in DOMAIN route_overrides' :
                route_overrides'[c] = route_overrides'[d] /\ route_overrides'[c] \in Session => c = d
          BY <3>5, <4>3 DEF IInv, Routes
        <4> QED
          BY <3>1, <4>1, <4>2, <4>4 DEF KeepsTable
      <3> QED
        BY <2>0, <3>1, <3>4, <3>6, <1>CommandedInv
    <2> QED
      BY <2>4, <2>5
  (* A client sends a shell request. *)
  <1>SendInv. ASSUME NEW shape \in Shapes, Send(shape) PROVE IInv'
    <2> USE <1>SendInv
    <2> DEFINE m == sent + 1
    <2>0. /\ at # "ended" /\ sent < MaxRequests /\ Known(shape.id) /\ sent' = m /\ request' = [request EXCEPT ![m] = shape]
          /\ shell' = Append(shell, m)
          /\ UNCHANGED <<budget, control, signals, commands, failed, loopVars, tableVars, session, background, outcomeVars,
                         historyVars>>
      BY DEF Send
    <2>1. TypeOK /\ Within /\ Hand /\ Fresh /\ Table /\ Routes /\ Faulty /\ NoOrphans /\ RoutesLive /\ KernelSurvives
      BY DEF IInv
    <2>2. ClientType /\ ChannelType /\ LoopType /\ TableType /\ OutcomeType /\ HistoryType
      BY <2>1, TypeParts
    <2>3. sent \in Nat /\ m \in MsgId /\ m = sent + 1 /\ m \in Int /\ shape \in Request
      BY <2>0, <2>2, KernelAssumption, SMTT(30) DEF ClientType, MsgId
    <2> HIDE DEF m
    <2>4. /\ request' \in [MsgId -> Request] /\ request'[m] = shape
          /\ \A n \in MsgId : n <= sent => request'[n] = request[n]
      BY <2>0, <2>2, <2>3, SMTT(30) DEF ClientType, MsgId
    <2>5. shell \in Seq(MsgId) /\ commands \in Seq(Command)
      BY <2>2 DEF ChannelType
    <2>e. /\ \A n \in DOMAIN shell : shell[n] \in MsgId
          /\ \A n \in DOMAIN commands : commands[n] \in Command
      BY <2>5, SMTT(30)
    <2>i. MsgId \subseteq Int /\ MaxRequests \in Nat
      BY Constants, SMTT(30) DEF MsgId
    <2>6. shell' \in Seq(MsgId) /\ \A n \in DOMAIN shell' : (n \in DOMAIN shell /\ shell'[n] = shell[n]) \/ shell'[n] = m
      BY <2>0, <2>3, <2>5, AppendFacts, SMTT(30)
    <2>7. TypeOK'
      <3>1. ClientType'
        BY <2>0, <2>2, <2>3, <2>4, SMTT(30) DEF ClientType, MsgId
      <3>2. ChannelType'
        BY <2>0, <2>2, <2>6 DEF ChannelType, ControlMessage
      <3>3. LoopType' /\ TableType' /\ OutcomeType' /\ HistoryType'
        BY <2>0, <2>2 DEF LoopType, TableType, OutcomeType, HistoryType
      <3>4. session' \in [Session -> SessionState] /\ background' \subseteq BackgroundTask
        BY <2>0, <2>1, TypeParts
      <3> QED
        BY <3>1, <3>2, <3>3, <3>4, TypePartsNext
    <2>8. Within'
      <3>1. \A n \in DOMAIN shell' : shell'[n] <= sent'
        <4>1. \A n \in DOMAIN shell : shell[n] <= sent /\ shell[n] \in Int
          BY <2>1, <2>e, <2>i DEF Within
        <4> QED
          BY <2>0, <2>3, <2>6, <4>1, SMTT(30)
      <3>2. msg' <= sent'
        BY <2>0, <2>1, <2>2, <2>3, SMTT(30) DEF Within, LoopType
      <3>3. ASSUME NEW s \in Session
            PROVE  session[s].cell <= sent' /\ \A n \in session[s].incoming \cup session[s].queue : n <= sent'
        <4>1. /\ session[s].cell <= sent /\ session[s].cell \in Int
              /\ \A n \in session[s].incoming \cup session[s].queue : n <= sent /\ n \in Int
          BY SessionFacts, SMTT(30) DEF MsgId
        <4> QED
          BY <2>0, <2>3, <4>1, SMTT(30)
      <3>4. \A n \in DOMAIN commands : commands[n].msg <= sent'
        <4>1. \A n \in DOMAIN commands : commands[n].msg <= sent /\ commands[n].msg \in Int
          BY <2>1, <2>e, <2>i DEF Within, Command
        <4> QED
          BY <2>0, <2>3, <4>1, SMTT(30)
      <3> QED
        BY <2>0, <2>1, <3>1, <3>2, <3>3, <3>4 DEF Within
    <2>9. Fresh'
      <3>1. \A n \in 1 .. sent' : Known(request'[n].id)
        <4> SUFFICES ASSUME NEW n \in 1 .. sent' PROVE Known(request'[n].id)
          OBVIOUS
        <4>1. n = m \/ (n \in 1 .. sent /\ n \in MsgId)
          BY <2>0, <2>3, <2>i, SMTT(30) DEF MsgId
        <4>2. CASE n = m
          BY <2>0, <2>4, <4>2
        <4>3. CASE n \in 1 .. sent /\ n \in MsgId
          <5>1. request'[n] = request[n]
            BY <2>3, <2>4, <4>3, SMTT(30)
          <5> QED
            BY <2>1, <4>3, <5>1 DEF Fresh
        <4> QED
          BY <4>1, <4>2, <4>3
      <3> QED
        BY <2>0, <2>1, <3>1 DEF Fresh, Known
    <2>10. Routes'
      <3>1. ASSUME NEW n \in DOMAIN commands PROVE request'[commands[n].msg] = request[commands[n].msg]
        <4>1. commands[n].msg \in MsgId /\ commands[n].msg <= sent
          BY <2>1, <2>e DEF Within, Command
        <4> QED
          BY <2>4, <4>1
      <3>2. ASSUME NEW s \in Session, session[s].cell # NoMsg PROVE request'[session[s].cell] = request[session[s].cell]
        <4>1. session[s].cell \in MsgId /\ session[s].cell <= sent
          BY <3>2, SessionFacts, Constants, SMTT(30) DEF MsgId
        <4> QED
          BY <2>4, <4>1
      <3> QED
        BY <2>0, <2>1, <3>1, <3>2 DEF Routes
    <2>11. Hand' /\ Table' /\ Faulty' /\ KernelSurvives'
      BY <2>0, <2>1 DEF Hand, Table, Faulty, KernelSurvives, Mapped
    <2>12. NoOrphans' /\ RoutesLive'
      BY <2>0, <2>1 DEF NoOrphans, RoutesLive, Serving, Mapped
    <2> QED
      BY <2>7, <2>8, <2>9, <2>10, <2>11, <2>12 DEF IInv
  (* A client sends a control request or a signal. *)
  <1>SendControlInv. ASSUME NEW shape \in ControlShapes, SendControl(shape) PROVE IInv'
    <2> USE <1>SendControlInv
    <2> DEFINE message == [type |-> shape.type, id |-> shape.id, upto |-> sent]
    <2>0. /\ budget > 0 /\ Known(shape.id) /\ budget' = budget - 1
          /\ UNCHANGED <<sent, request, shell, commands, failed, loopVars, tableVars, session, background, outcomeVars, historyVars>>
          /\ \/ shape.type \in Signals /\ signals' = signals \cup {shape.type} /\ control' = control
             \/ shape.type \notin Signals /\ control' = Append(control, message) /\ signals' = signals
      BY DEF SendControl
    <2>1. ClientType /\ ChannelType
      BY TypeParts DEF IInv
    <2>2. shape \in ControlRequest
      BY KernelAssumption
    <2>3. ClientType'
      BY <2>0, <2>1, KernelAssumption, SMTT(30) DEF ClientType
    <2>4. shape.type \notin Signals => message \in ControlMessage /\ message.id = shape.id
      BY <2>1, <2>2 DEF ControlRequest, ControlMessage, ClientType, Signals
    <2> HIDE DEF message
    <2>5. control' \in Seq(ControlMessage) /\ \A n \in DOMAIN control' : Known(control'[n].id)
      <3>0. control \in Seq(ControlMessage) /\ \A n \in DOMAIN control : Known(control[n].id)
        BY <2>1 DEF ChannelType, IInv, Fresh
      <3>1. CASE control' = control
        BY <3>0, <3>1
      <3>2. CASE shape.type \notin Signals /\ control' = Append(control, message)
        <4>1. /\ control' \in Seq(ControlMessage)
              /\ \A n \in DOMAIN control' : (n \in DOMAIN control /\ control'[n] = control[n]) \/ control'[n] = message
          BY <2>4, <3>0, <3>2, AppendFacts, SMTT(30)
        <4> QED
          BY <2>0, <2>4, <3>0, <3>2, <4>1
      <3> QED
        BY <2>0, <3>1, <3>2
    <2>6. ChannelType'
      BY <2>0, <2>1, <2>5 DEF ChannelType, ControlMessage
    <2>7. KeepsChannels
      BY <2>0, <2>5, <2>6 DEF KeepsChannels, IInv, Within, Faulty
    <2>8. KeepsSessions /\ KeepsTable /\ KeepsLoop
      BY <2>0, <1>SessionsKept, <1>TableKept, <1>LoopKept DEF Serving
    <2>9. KeepsTasks
      BY <2>0, <1>TasksKept, <1>RestKept
    <2> QED
      BY <2>0, <2>3, <2>7, <2>8, <2>9, <1>KeepInv, <1>RestKept
  <1>1. CASE UNCHANGED vars
    <2>1. KeepsLoop /\ KeepsChannels
      BY <1>1, <1>LoopKept, <1>ChannelsKept DEF vars
    <2> QED
      BY <1>1, <2>1, <1>LoopInv, <1>RestKept DEF vars, Serving
  <1>2. CASE Client
    BY <1>2, <1>SendInv, <1>SendControlInv DEF Client
  <1>3. CASE MainLoop
    <2>1. CASE TakeRequest \/ RouteCreates \/ RouteDelivers \/ RouteRefuses
      BY <2>1, <1>TakeRequestInv, <1>RouteCreatesInv, <1>RouteDeliversInv, <1>RouteRefusesInv
    <2>2. CASE (\E id \in DOMAIN shells : Reap(id)) \/ OpenRefused \/ OpenRoute \/ CloseRefused \/ CloseRoute
      BY <2>2, <1>ReapInv, <1>RefusedInv, <1>OpenRouteInv, <1>CloseRouteInv
    <2>3. CASE FailureReported \/ ShutdownRequest \/ Terminated \/ SendFails
      BY <2>3, <1>LeavesInv
    <2>4. CASE OtherRequest
      BY <2>4, <1>IgnoredInv DEF OtherRequest, TakeControl
    <2>5. CASE BroadcastRequest \/ Interrupted \/ PendingRouted \/ BroadcastDone \/ \E s \in todo : SendToShell(s)
      BY <2>5, <1>TurnsInv, <1>SendToShellInv
    <2>6. CASE CreateRequest \/ DeleteRequest
      BY <2>6, <1>CreateRequestInv, <1>DeleteRequestInv
    <2>7. CASE (\E id \in DOMAIN shells : StopNext(id)) \/ Joined \/ Exit
      BY <2>7, <1>StopNextInv, <1>JoinedInv, <1>ExitInv
    <2> QED
      BY <1>3, <2>1, <2>2, <2>3, <2>4, <2>5, <2>6, <2>7 DEF MainLoop
  <1>4. CASE Background
    BY <1>4, <1>BackgroundStopsInv, <1>BackgroundDoneInv DEF Background
  <1> QED
    BY <1>1, <1>2, <1>3, <1>4

-----------------------------------------------------------------------------
(* Every step preserves the invariant. *)
LEMMA NextInv == IInv /\ [Next]_vars => IInv'
  BY SessionSteps, KernelSteps DEF Next

(* The invariant holds in every behaviour. *)
LEMMA Invariant == Spec => []IInv
  BY InitInv, NextInv, PTL DEF Spec

(* Every variable of the main loop and of the sessions keeps its type.     *)
THEOREM TypeCorrect == Spec => []TypeOK
  <1>1. IInv => TypeOK
    BY DEF IInv
  <1> QED
    BY <1>1, Invariant, PTL

(* A session that runs is in the table, or some task is stopping it, and   *)
(* its deletion was confirmed to nobody: create_subshell, Reap,            *)
(* stop_in_background and the final stop lose none.                        *)
THEOREM NoneForgotten == Spec => []NoOrphans
  <1>1. IInv => NoOrphans
    BY DEF IInv
  <1> QED
    BY <1>1, Invariant, PTL

(* While the kernel serves, route_overrides names sessions of the table:   *)
(* deleting, closing and reaping remove the routes they make stale.        *)
THEOREM LiveRoutes == Spec => []RoutesLive
  <1>1. IInv => RoutesLive
    BY DEF IInv
  <1> QED
    BY <1>1, Invariant, PTL

(* The main loop returns an error only after a session has failed, or was  *)
(* shut down through the shell channel.                                    *)
THEOREM Survives == Spec => []KernelSurvives
  <1>1. IInv => KernelSurvives
    BY DEF IInv
  <1> QED
    BY <1>1, Invariant, PTL

-----------------------------------------------------------------------------
(* Where requests are, and what an interrupt has reached. *)

(* A request that was neither answered nor dropped. *)
Open(m) == answer[m] = "none" /\ m \notin lost

(* What a session keeps, in one place each, and nothing when it has ended. *)
Keep(r) == r.incoming \cup r.queue \cup ({r.serving, r.cell} \ {NoMsg})
Tidy(r) ==
  /\ r.incoming \cap r.queue = {}
  /\ r.serving \notin r.incoming \cup r.queue /\ r.cell \notin r.incoming \cup r.queue
  /\ r.serving # NoMsg => r.serving # r.cell
  /\ r.state # "running" => Keep(r) = {}

(* The shell channel holds a request once, and not the one being routed. *)
Queued ==
  /\ \A i, j \in DOMAIN shell : shell[i] = shell[j] => i = j
  /\ \A i \in DOMAIN shell : shell[i] # msg
  /\ at # "route" => msg = NoMsg

Own ==
  /\ Queued
  /\ \A s \in Session : Tidy(session[s])
  /\ \A s, t \in Session : s # t => KeptBy(s) \cap KeptBy(t) = {}
  /\ \A s \in Session : KeptBy(s) \cap InShell = {}
  /\ \A m \in MsgId : (m \in Kept) <=> (m <= sent /\ Open(m))
  /\ \A m \in MsgId : m > sent => Open(m)

(* A session that has an Interrupt in its channel. *)
Asking(r) == \E n \in DOMAIN r.controls : r.controls[n] = "interrupt"
Asks(s) == Asking(session[s])

(* An interrupt that was served has reached m, or is on its way. *)
Under(m) == Reached(m) \/ \E s \in Session : m \in KeptBy(s) /\ (InterruptComes(s) \/ ClosedByCell(s))

(* Interrupts speak of what was sent before. *)
Past ==
  /\ covered <= sent /\ upto <= sent
  /\ \A n \in DOMAIN control : control[n].upto <= sent

(* While an interrupt is handled, it has reached a request or it is still  *)
(* to be sent to the request's session; a session whose background task    *)
(* has sent its Interrupt has it or has obeyed it.                         *)
Told ==
  /\ at = "answer" => handling = "release"
  /\ at = "each" /\ handling = "interrupt" =>
       \A m \in 1 .. upto : Execute(m) => Under(m) \/ \E s \in todo : m \in KeptBy(s)
  /\ \A task \in background : task.interrupt /\ task.sent =>
       \A m \in KeptBy(task.shell) : Execute(m) => m \in interrupted \/ Asks(task.shell)

Reach == Past /\ Told /\ InterruptReachesSessions

-----------------------------------------------------------------------------
(* The kinds of steps, by what they do to requests. *)

(* Requests are answered, dropped, or only change places with their owner. *)
Less ==
  /\ Queued' /\ sent' = sent /\ request' = request /\ InShell' \subseteq InShell
  /\ \A t \in Session : Tidy(session'[t]) /\ KeptBy(t)' \subseteq KeptBy(t)
  /\ \A m \in MsgId : Open(m)' <=> Open(m) /\ (m \in Kept => m \in Kept')

(* A request is sent. *)
Sends ==
  /\ sent' = sent + 1 /\ sent + 1 \in MsgId /\ shell' = Append(shell, sent + 1)
  /\ \A m \in MsgId : m <= sent => request'[m] = request[m]
  /\ UNCHANGED <<at, msg, session, answer, lost>>

(* The main loop hands its request to a session that no task is stopping.  *)
Hands(s) ==
  /\ at = "route" /\ at' # "route" /\ msg' = NoMsg /\ UNCHANGED <<sent, request, shell, answer, lost>>
  /\ session'[s].state = "running" /\ session'[s].incoming = session[s].incoming \cup {msg}
  /\ session'[s].queue = session[s].queue /\ session'[s].serving = session[s].serving /\ session'[s].cell = session[s].cell
  /\ \A t \in Session : t # s => session'[t] = session[t]
  /\ \A task \in background : task.shell # s

(* An Interrupt leaves a session's channel only when it is obeyed. *)
Heard ==
  /\ interrupted \subseteq interrupted'
  /\ \A t \in Session : KeptBy(t) # {} /\ Asks(t) => Asks(t)' \/ \A m \in KeptBy(t)' : Execute(m) => m \in interrupted'

(* A background task stays until its session keeps nothing, and has sent   *)
(* the Interrupt when it says so.                                          *)
Tasks ==
  /\ \A task \in background :
       \/ KeptBy(task.shell) = {}
       \/ \E new \in background' : /\ new.shell = task.shell /\ new.interrupt = task.interrupt
                                   /\ new.sent => task.sent \/ (task.interrupt => Asks(task.shell)')
  /\ \A new \in background' : new.interrupt /\ new.sent =>
       new \in background \/ KeptBy(new.shell)' = {} \/ Asks(new.shell)'

(* An interrupt that is handled is sent to one session after the other.    *)
Turn ==
  \/ /\ covered' = covered /\ (at' = "answer" => handling' = "release")
     /\ at' = "each" /\ handling' = "interrupt" =>
          /\ at = "each" /\ handling = "interrupt" /\ upto' = upto
          /\ \A s \in todo : s \in todo' \/ Asks(s)'
  \/ PendingRouted \/ BroadcastDone

Moved == Less \/ Sends \/ \E s \in Session : Hands(s)
StepKind == Moved /\ Heard /\ Tasks /\ Turn

-----------------------------------------------------------------------------
(* What is kept is a request, by its record or its session. *)
LEMMA KeepFacts ==
  ASSUME IInv, NEW s \in Session
  PROVE  KeptBy(s) = Keep(session[s]) /\ KeptBy(s)' = Keep(session'[s]) /\ KeptBy(s) \subseteq MsgId
  <1>1. KeptBy(s) = Keep(session[s]) /\ KeptBy(s)' = Keep(session'[s])
    BY DEF KeptBy, Keep
  <1>2. /\ session[s].incoming \subseteq MsgId /\ session[s].queue \subseteq MsgId
        /\ session[s].serving \in 0 .. MaxRequests /\ session[s].cell \in 0 .. MaxRequests
    BY SessionFacts
  <1>3. KeptBy(s) \subseteq MsgId
    BY <1>2, Constants, SMTT(30) DEF KeptBy, MsgId
  <1> QED
    BY <1>1, <1>3

(* What the main loop has of the shell channel. *)
LEMMA ShellFacts ==
  ASSUME IInv
  PROVE  /\ shell \in Seq(MsgId) /\ InShell \subseteq MsgId /\ NoMsg \notin MsgId /\ sent \in Nat
         /\ msg # NoMsg => msg \in MsgId
  <1>1. shell \in Seq(MsgId) /\ msg \in 0 .. MaxRequests /\ sent \in Nat
    BY TypeParts, Constants, SMTT(30) DEF IInv, ChannelType, LoopType, ClientType
  <1>2. (\A i \in DOMAIN shell : shell[i] \in MsgId) /\ NoMsg \notin MsgId /\ (msg # NoMsg => msg \in MsgId)
    BY <1>1, Constants, SMTT(30) DEF MsgId
  <1>3. InShell \subseteq MsgId
    BY <1>2 DEF InShell
  <1> QED
    BY <1>1, <1>2, <1>3

(* A request that is kept. *)
LEMMA KeptFacts ==
  ASSUME NEW m
  PROVE  /\ m \in Kept <=> (m \in InShell \/ \E s \in Session : m \in KeptBy(s))
         /\ m \in Kept' <=> (m \in InShell' \/ \E s \in Session : m \in KeptBy(s)')
  BY DEF Kept

(* Where requests are stays true whatever the kind of a step. *)
LEMMA OwnNext ==
  ASSUME IInv, Own, StepKind
  PROVE  Own'
  (* Where requests are stays true when they only leave. *)
  <1>LessOwn. ASSUME Less PROVE Own'
    <2> USE <1>LessOwn
    <2>1. \A s, t \in Session : s # t => KeptBy(s)' \cap KeptBy(t)' = {}
      BY DEF Own, Less
    <2>2. \A s \in Session : KeptBy(s)' \cap InShell' = {}
      BY DEF Own, Less
    <2>3. \A m \in MsgId : m \in Kept' => m \in Kept
      BY KeptFacts DEF Less
    <2>4. ASSUME NEW m \in MsgId PROVE (m \in Kept' <=> m <= sent /\ Open(m)') /\ (m > sent => Open(m)')
      <3>1. (m \in Kept <=> m <= sent /\ Open(m)) /\ (m > sent => Open(m)) /\ (m > sent => ~(m <= sent))
        <4>1. m \in Nat /\ sent \in Nat
          BY ShellFacts, Constants, SMTT(30) DEF MsgId
        <4>2. m > sent => ~(m <= sent)
          BY <4>1, SMTT(30)
        <4> QED
          BY <4>2 DEF Own
      <3>2. Open(m)' <=> Open(m) /\ (m \in Kept => m \in Kept')
        BY DEF Less
      <3> QED
        BY <2>3, <3>1, <3>2
    <2>5. Queued' /\ sent' = sent /\ \A t \in Session : Tidy(session'[t])
      BY DEF Less
    <2> QED
      BY <2>1, <2>2, <2>4, <2>5 DEF Own
  (* ... when one is sent, ... *)
  <1>SendsOwn. ASSUME Sends PROVE Own'
    <2> USE <1>SendsOwn
    <2>1. /\ sent' = sent + 1 /\ sent + 1 \in MsgId /\ shell' = Append(shell, sent + 1)
          /\ UNCHANGED <<at, msg, session, answer, lost>>
      BY DEF Sends
    <2>2. /\ \A i \in DOMAIN shell : shell[i] <= sent /\ msg <= sent /\ sent \in Nat
          /\ shell \in Seq(MsgId)
      BY ShellFacts DEF IInv, Within
    <2>2a. msg \in Nat /\ msg <= sent
      BY TypeParts, Constants, SMTT(30) DEF IInv, LoopType, Within
    <2>3. /\ \A i \in DOMAIN shell : i \in DOMAIN shell' /\ shell'[i] = shell[i]
          /\ \A i \in DOMAIN shell' : i \in DOMAIN shell \/ (i = Len(shell) + 1 /\ shell'[i] = sent + 1)
          /\ shell'[Len(shell) + 1] = sent + 1 /\ Len(shell) + 1 \in DOMAIN shell'
      BY <2>1, <2>2, SMTT(30)
    <2>4. (\A i \in DOMAIN shell : shell[i] # sent + 1) /\ msg # sent + 1
      BY <2>2, <2>2a, ShellFacts, SMTT(30) DEF MsgId
    <2>5. Queued'
      BY <2>1, <2>3, <2>4 DEF Own, Queued
    <2>6. \A m : m \in InShell' <=> m \in InShell \/ m = sent + 1
      <3>1. \A m : (\E i \in DOMAIN shell' : shell'[i] = m) <=> ((\E i \in DOMAIN shell : shell[i] = m) \/ m = sent + 1)
        BY <2>3
      <3>2. sent + 1 # NoMsg
        BY <2>1, ShellFacts
      <3> QED
        BY <2>1, <3>1, <3>2 DEF InShell
    <2>7. \A s \in Session : KeptBy(s)' = KeptBy(s)
      BY <2>1 DEF KeptBy
    <2>8. /\ \A m \in MsgId : m <= sent + 1 <=> (m <= sent \/ m = sent + 1)
          /\ \A m \in MsgId : m > sent + 1 => m > sent
          /\ sent + 1 > sent /\ ~(sent + 1 <= sent)
      BY <2>2a, ShellFacts, SMTT(30) DEF MsgId
    <2>9. \A s \in Session : sent + 1 \notin KeptBy(s)
      BY <2>1, <2>8, KeptFacts DEF Own
    <2>10. \A m : Open(m)' <=> Open(m)
      BY <2>1 DEF Open
    <2>11. \A m \in MsgId : m \in Kept' <=> m \in Kept \/ m = sent + 1
      BY <2>6, <2>7, KeptFacts
    <2>12. \A m \in MsgId : (m \in Kept' <=> m <= sent' /\ Open(m)') /\ (m > sent' => Open(m)')
      BY <2>1, <2>8, <2>10, <2>11 DEF Own
    <2>13. \A s \in Session : KeptBy(s)' \cap InShell' = {}
      <3>1. SUFFICES ASSUME NEW s \in Session, NEW m, m \in KeptBy(s)', m \in InShell' PROVE FALSE
        OBVIOUS
      <3>2. KeptBy(s) \cap InShell = {} /\ m \in KeptBy(s)
        BY <2>7, <3>1 DEF Own
      <3>3. m \in InShell \/ m = sent + 1
        BY <2>6, <3>1
      <3> QED
        BY <2>9, <3>2, <3>3
    <2> QED
      BY <2>1, <2>5, <2>7, <2>12, <2>13 DEF Own
  (* ... and when one is handed to a session. *)
  <1>HandsOwn. ASSUME NEW s \in Session, Hands(s) PROVE Own'
    <2> USE <1>HandsOwn
    <2>1. /\ at = "route" /\ at' # "route" /\ msg' = NoMsg /\ UNCHANGED <<sent, shell, answer, lost>>
          /\ session'[s].state = "running" /\ session'[s].incoming = session[s].incoming \cup {msg}
          /\ session'[s].queue = session[s].queue /\ session'[s].serving = session[s].serving
          /\ session'[s].cell = session[s].cell /\ \A t \in Session : t # s => session'[t] = session[t]
      BY DEF Hands
    <2>2. msg # NoMsg /\ msg \in MsgId /\ msg \in InShell
      BY <2>1, ShellFacts DEF IInv, Within, InShell
    <2>3. msg \notin KeptBy(s) /\ Tidy(session[s])
      BY <2>2 DEF Own
    <2>4. Queued'
      <3>1. \A i \in DOMAIN shell : shell[i] # NoMsg
        BY ShellFacts DEF InShell
      <3> QED
        BY <2>1, <3>1 DEF Own, Queued
    <2>5. /\ \A m : m \in InShell' <=> m \in InShell /\ m # msg
          /\ KeptBy(s)' = KeptBy(s) \cup {msg} /\ \A t \in Session : t # s => KeptBy(t)' = KeptBy(t)
      <3>1. \A m : m \in InShell <=> (\E i \in DOMAIN shell : shell[i] = m) \/ m = msg
        BY <2>2 DEF InShell
      <3>2. \A m : m \in InShell' <=> \E i \in DOMAIN shell : shell[i] = m
        BY <2>1 DEF InShell
      <3>3. \A i \in DOMAIN shell : shell[i] # msg
        BY DEF Own, Queued
      <3>4. KeptBy(s)' = KeptBy(s) \cup {msg}
        BY <2>1 DEF KeptBy
      <3>5. \A t \in Session : t # s => KeptBy(t)' = KeptBy(t)
        BY <2>1 DEF KeptBy
      <3> QED
        BY <3>1, <3>2, <3>3, <3>4, <3>5
    <2>6. Tidy(session'[s])
      <3>1. msg \notin session[s].queue /\ msg # session[s].serving /\ msg # session[s].cell
        BY <2>2, <2>3 DEF KeptBy
      <3> QED
        BY <2>1, <2>3, <3>1 DEF Tidy
    <2>7. \A t \in Session : Tidy(session'[t])
      BY <2>1, <2>6 DEF Own
    <2>8. \A t \in Session : KeptBy(t)' \cap InShell' = {}
      BY <2>5 DEF Own
    <2>9. \A t \in Session : t # s => msg \notin KeptBy(t)
      BY <2>2 DEF Own
    <2>10. \A t, u \in Session : t # u => KeptBy(t)' \cap KeptBy(u)' = {}
      <3>1. SUFFICES ASSUME NEW t \in Session, NEW u \in Session, t # u, NEW m, m \in KeptBy(t)', m \in KeptBy(u)' PROVE FALSE
        OBVIOUS
      <3>2. KeptBy(t) \cap KeptBy(u) = {}
        BY <3>1 DEF Own
      <3>3. (m \in KeptBy(t) \/ (t = s /\ m = msg)) /\ (m \in KeptBy(u) \/ (u = s /\ m = msg))
        BY <2>5, <3>1
      <3> QED
        BY <2>9, <3>1, <3>2, <3>3
    <2>11. \A m : m \in Kept' <=> m \in Kept
      BY <2>2, <2>5, KeptFacts
    <2>12. \A m : Open(m)' <=> Open(m)
      BY <2>1 DEF Open
    <2> QED
      BY <2>1, <2>4, <2>7, <2>8, <2>10, <2>11, <2>12 DEF Own
  <1> QED
    BY <1>LessOwn, <1>SendsOwn, <1>HandsOwn DEF StepKind, Moved

-----------------------------------------------------------------------------
(* Steps that leave what sessions keep. *)

Quiet(r, q) ==
  /\ q.incoming = r.incoming /\ q.queue = r.queue /\ q.serving = r.serving /\ q.cell = r.cell
  /\ q.state # "running" => r.state # "running"
  /\ Asking(r) => Asking(q) \/ Keep(q) = {}
StillSessions == \A t \in Session : Quiet(session[t], session'[t])

(* An Interrupt is not taken back by untouched sessions. *)
LEMMA SameHeard == ASSUME session' = session, interrupted' = interrupted PROVE Heard
  BY DEF Heard, Asks

(* The tasks stay as they are. *)
LEMMA SameTasks == ASSUME background' = background PROVE Tasks
  BY DEF Tasks

(* A place of the main loop that is not that of an interrupt. *)
LEMMA NoTurn ==
  ASSUME covered' = covered, at' = "answer" => handling' = "release", ~(at' = "each" /\ handling' = "interrupt")
  PROVE  Turn
  BY DEF Turn

(* The main loop stays where it is. *)
LEMMA SameTurn ==
  ASSUME Told, UNCHANGED <<at, handling, todo, covered, upto>>
  PROVE  Turn
  BY DEF Turn, Told

-----------------------------------------------------------------------------
(* The kinds of the steps of clients, the main loop and its tasks. *)

(* A session that has ended keeps nothing. *)
LEMMA EndedKeeps == ASSUME IInv, Own, NEW s \in Session, ~Running(s) PROVE KeptBy(s) = {}
  <1>1. Tidy(session[s])
    BY DEF Own
  <1> QED
    BY <1>1, KeepFacts DEF Tidy

(* The steps of clients, the main loop and its tasks are of these kinds. *)
LEMMA KernelKinds ==
  ASSUME IInv, Own, Told, Client \/ MainLoop \/ Background \/ UNCHANGED vars
  PROVE  StepKind
  (* Nothing happens to a request. *)
  <1>Stillness. ASSUME StillSessions, UNCHANGED <<sent, request, shell, msg, outcomeVars>>,
                       at' = "route" <=> at = "route"
                PROVE  Moved /\ Heard
    <2> USE <1>Stillness
    <2>1. \A t \in Session : KeptBy(t)' = KeptBy(t)
      BY DEF StillSessions, Quiet, KeptBy
    <2>2. InShell' = InShell
      BY DEF InShell
    <2>3. \A t \in Session : Tidy(session'[t])
      BY DEF StillSessions, Quiet, Own, Tidy, Keep
    <2>4. \A m : (m \in Kept' <=> m \in Kept) /\ (Open(m)' <=> Open(m))
      BY <2>1, <2>2, KeptFacts DEF Open
    <2>5. Queued'
      BY DEF Own, Queued
    <2>6. Heard
      BY KeepFacts DEF StillSessions, Quiet, Heard, Asks
    <2> QED
      BY <2>1, <2>2, <2>3, <2>4, <2>5, <2>6 DEF Less, Moved
  (* Sessions that are not touched are still. *)
  <1>Untouched. ASSUME session' = session PROVE StillSessions
    BY <1>Untouched DEF StillSessions, Quiet
  (* A task that has sent nothing yet is added. *)
  <1>MoreTasks. ASSUME NEW new, ~new.sent, background' = background \cup {new} PROVE Tasks
    BY <1>MoreTasks DEF Tasks
  (* A cell that is woken keeps what it keeps. *)
  <1>WokenStill. ASSUME NEW command, command.caller \in Session, NEW phase \in {"running", "routed"}, NEW id \in Ids,
                        NEW t \in Session
                 PROVE  Quiet(session[t], Woken(session, command, phase, id)[t])
    <2> USE <1>WokenStill
    <2> DEFINE s == command.caller
               new == [session[s] EXCEPT !.phase = phase, !.route = id]
               woken == Woken(session, command, phase, id)
    <2>1. session \in [Session -> SessionState] /\ session[s] \in SessionState
      BY TypeParts DEF IInv
    <2>2. woken = IF session[s].cell = command.msg THEN [session EXCEPT ![s] = new] ELSE session
      BY <2>1 DEF Woken, SessionState
    <2>3. /\ new.state = session[s].state /\ new.incoming = session[s].incoming /\ new.queue = session[s].queue
          /\ new.controls = session[s].controls /\ new.cell = session[s].cell /\ new.serving = session[s].serving
      BY <2>1 DEF SessionState
    <2> HIDE DEF new, woken, s
    <2>4. woken[t] = session[t] \/ (t = s /\ woken[t] = new)
      BY <2>1, <2>2
    <2>5. Quiet(session[t], woken[t])
      BY <2>3, <2>4 DEF Quiet, Asking
    <2> QED
      BY <2>5 DEF woken
  (* A new session keeps nothing, and had kept nothing before it was made.   *)
  <1>NewStill. ASSUME NEW s \in Session, s > spawned
               PROVE  Quiet(session[s], NewSession) /\ session[s].incoming = {} /\ session[s].queue = {}
                      /\ session[s].serving = NoMsg /\ session[s].cell = NoMsg
    <2> USE <1>NewStill
    <2>1. session[s].state = "none"
      BY DEF IInv, Fresh
    <2>2. Keep(session[s]) = {}
      BY <2>1 DEF Own, Tidy
    <2>3. session[s].incoming = {} /\ session[s].queue = {} /\ session[s].serving = NoMsg /\ session[s].cell = NoMsg
      BY <2>2 DEF Keep
    <2>4. /\ NewSession.incoming = {} /\ NewSession.queue = {} /\ NewSession.serving = NoMsg /\ NewSession.cell = NoMsg
          /\ NewSession.state = "running"
      BY DEF NewSession
    <2>5. Keep(NewSession) = {}
      BY <2>4 DEF Keep
    <2> QED
      BY <2>3, <2>4, <2>5 DEF Quiet
  (* What a session's channel of controls has more after a send. *)
  <1>AppendAsks. ASSUME NEW q \in Seq({"interrupt", "release", "stop"}), NEW p \in Seq({"interrupt", "release", "stop"})
                 PROVE  /\ \A n \in DOMAIN q : n \in DOMAIN (q \o p) /\ (q \o p)[n] = q[n]
                        /\ \A n \in DOMAIN p : Len(q) + n \in DOMAIN (q \o p) /\ (q \o p)[Len(q) + n] = p[n]
    BY <1>AppendAsks, SMTT(30)
  (* What stopping a session sends. *)
  <1>StopMessagesType. ASSUME NEW interrupt \in BOOLEAN PROVE StopMessages(interrupt) \in Seq({"interrupt", "release", "stop"})
    <2> USE <1>StopMessagesType
    <2> DEFINE first == IF interrupt THEN <<"interrupt">> ELSE <<>>
    <2>1. <<"interrupt">> \in Seq({"interrupt", "release", "stop"}) /\ <<"stop">> \in Seq({"interrupt", "release", "stop"})
      BY SMTT(30)
    <2>2. <<>> \in Seq({"interrupt", "release", "stop"})
      BY SMTT(30)
    <2>3. first \in Seq({"interrupt", "release", "stop"})
      BY <2>1, <2>2
    <2>4. StopMessages(interrupt) = first \o <<"stop">>
      BY DEF StopMessages
    <2> HIDE DEF first
    <2> QED
      BY <2>1, <2>3, <2>4, SMTT(30)
  (* Stopping a session sends it Interrupt, if asked to, and Stop. *)
  <1>StopStill. ASSUME NEW s \in Session, NEW interrupt \in BOOLEAN, session' = StopControls(s, interrupt)
                PROVE  StillSessions /\ (Running(s) /\ interrupt => Asks(s)')
    <2> USE <1>StopStill
    <2> DEFINE more == session[s].controls \o StopMessages(interrupt)
               new == [session[s] EXCEPT !.controls = IF Running(s) THEN more ELSE @]
    <2>1. session \in [Session -> SessionState] /\ session[s] \in SessionState
      BY TypeParts DEF IInv
    <2>2. session' = [session EXCEPT ![s] = new]
      BY <2>1 DEF StopControls, SessionState
    <2>3. /\ new.state = session[s].state /\ new.incoming = session[s].incoming /\ new.queue = session[s].queue
          /\ new.controls = (IF Running(s) THEN more ELSE session[s].controls)
          /\ new.cell = session[s].cell /\ new.serving = session[s].serving
      BY <2>1 DEF SessionState
    <2>4. session[s].controls \in Seq({"interrupt", "release", "stop"})
      BY <2>1 DEF SessionState
    <2>5. /\ \A n \in DOMAIN session[s].controls : n \in DOMAIN more /\ more[n] = session[s].controls[n]
          /\ interrupt => \E n \in DOMAIN more : more[n] = "interrupt"
      <3>1. StopMessages(interrupt) \in Seq({"interrupt", "release", "stop"})
        BY <1>StopMessagesType
      <3>2. interrupt => 1 \in DOMAIN StopMessages(interrupt) /\ StopMessages(interrupt)[1] = "interrupt"
        BY SMTT(30) DEF StopMessages
      <3> QED
        <4>1. \A n \in DOMAIN session[s].controls : n \in DOMAIN more /\ more[n] = session[s].controls[n]
          BY <2>4, <3>1, <1>AppendAsks
        <4>2. interrupt => Len(session[s].controls) + 1 \in DOMAIN more /\ more[Len(session[s].controls) + 1] = "interrupt"
          BY <2>4, <3>1, <3>2, <1>AppendAsks
        <4> QED
          BY <4>1, <4>2
    <2> HIDE DEF new, more
    <2>6. session'[s] = new /\ \A t \in Session : t # s => session'[t] = session[t]
      BY <2>1, <2>2
    <2>7. Quiet(session[s], new)
      BY <2>3, <2>5 DEF Quiet, Asking
    <2>8. Running(s) /\ interrupt => Asks(s)'
      BY <2>3, <2>5, <2>6 DEF Asks, Asking
    <2>9. StillSessions
      BY <2>6, <2>7 DEF StillSessions, Quiet
    <2> QED
      BY <2>8, <2>9
  (* A step that touches no request is of a kind. *)
  <1>StillKind. ASSUME StillSessions, UNCHANGED <<sent, request, shell, msg, outcomeVars>>,
                       at' = "route" <=> at = "route", Tasks, Turn
                PROVE  StepKind
    BY <1>StillKind, <1>Stillness DEF StepKind
  (* The main loop leaves. *)
  <1>LeaveKind. ASSUME FailureReported \/ ShutdownRequest \/ Terminated \/ SendFails \/ \E id \in DOMAIN shells : Reap(id)
                PROVE  StepKind
    <2> USE <1>LeaveKind
    <2>0. /\ at \in {"select", "each", "answer"} /\ at' \in {"stop", "select"} /\ (msg' = NoMsg \/ msg' = msg)
          /\ UNCHANGED <<sent, request, shell, outcomeVars, session, background, covered>>
      <3>1. CASE FailureReported \/ ShutdownRequest \/ Terminated \/ SendFails
        BY <3>1 DEF FailureReported, ShutdownRequest, Terminated, SendFails, Leave, TakeControl
      <3>2. CASE \E id \in DOMAIN shells : Reap(id)
        <4>1. /\ at = "select" /\ UNCHANGED <<clientVars, channelVars, spawned, session, background, outcomeVars, historyVars>>
              /\ (at' = "stop" /\ msg' = NoMsg) \/ UNCHANGED loopVars
          BY <3>2 DEF Reap, Leave
        <4> QED
          BY <4>1
      <3> QED
        BY <3>1, <3>2
    <2>1. msg = NoMsg
      BY <2>0 DEF Own, Queued
    <2>2. Tasks /\ StillSessions
      BY <2>0, SameTasks, <1>Untouched
    <2>3. Turn
      BY <2>0, NoTurn
    <2> QED
      BY <2>0, <2>1, <2>2, <2>3, <1>StillKind
  (* The main loop goes on, with no session touched. *)
  <1>TurnKind. ASSUME \/ OtherRequest \/ BroadcastRequest \/ Interrupted \/ PendingRouted \/ BroadcastDone \/ Joined
                      \/ UNCHANGED vars \/ \E shape \in ControlShapes : SendControl(shape)
               PROVE  StepKind
    <2> USE <1>TurnKind
    <2>0. /\ UNCHANGED <<sent, request, shell, msg, outcomeVars, session, background>>
          /\ at' = "route" <=> at = "route"
      <3>1. CASE OtherRequest \/ BroadcastRequest
        BY <3>1 DEF OtherRequest, BroadcastRequest, TakeControl, FirstStep
      <3>2. CASE Interrupted \/ PendingRouted \/ BroadcastDone \/ Joined
        BY <3>2 DEF Interrupted, PendingRouted, BroadcastDone, Joined
      <3>3. CASE UNCHANGED vars \/ \E shape \in ControlShapes : SendControl(shape)
        BY <3>3 DEF vars, SendControl
      <3> QED
        BY <3>1, <3>2, <3>3
    <2>1. Turn
      <3>1. CASE OtherRequest \/ BroadcastRequest
        <4>1. at' \in {"select", "pending"} /\ covered' = covered
          BY <3>1 DEF OtherRequest, BroadcastRequest, TakeControl, FirstStep
        <4> QED
          BY <4>1, NoTurn
      <3>2. CASE Interrupted \/ Joined
        <4>1. (at' = "stop" \/ (at' = "each" /\ handling' = "SIGINT")) /\ covered' = covered
          BY <3>2 DEF Interrupted, Joined
        <4> QED
          BY <4>1, NoTurn
      <3>3. CASE PendingRouted \/ BroadcastDone
        BY <3>3 DEF Turn
      <3>4. CASE UNCHANGED vars \/ \E shape \in ControlShapes : SendControl(shape)
        <4>1. UNCHANGED <<at, handling, todo, covered, upto>>
          BY <3>4 DEF vars, SendControl
        <4> QED
          BY <4>1, SameTurn
      <3> QED
        BY <3>1, <3>2, <3>3, <3>4
    <2>2. Tasks /\ StillSessions
      BY <2>0, SameTasks, <1>Untouched
    <2> QED
      BY <2>0, <2>1, <2>2, <1>StillKind
  (* A session is taken out of the table, to be stopped in the background.   *)
  <1>DeleteKind. ASSUME DeleteRequest PROVE StepKind
    <2> USE <1>DeleteKind
    <2>0. /\ at = "select" /\ UNCHANGED <<clientVars, shell, outcomeVars, covered, loopVars, session>>
          /\ \/ background' = background
             \/ \E s : background' = background \cup {StopTask(s, TRUE, TRUE, 1, NoMsg)}
      BY DEF DeleteRequest, TakeControl
    <2>1. \A s : ~StopTask(s, TRUE, TRUE, 1, NoMsg).sent
      BY DEF StopTask
    <2>2. Tasks
      BY <2>0, <2>1, SameTasks, <1>MoreTasks
    <2>3. Turn
      BY <2>0, NoTurn
    <2> QED
      BY <2>0, <2>2, <2>3, <1>Untouched, <1>StillKind
  (* A command of a cell is refused, or closes a route. *)
  <1>CommandKind. ASSUME OpenRefused \/ CloseRefused \/ CloseRoute PROVE StepKind
    <2> USE <1>CommandKind
    <2> DEFINE command == Head(commands)
    <2>0. commands # <<>> /\ Commanded
      BY DEF OpenRefused, CloseRefused, CloseRoute
    <2>1. at = "select" /\ UNCHANGED <<clientVars, shell, loopVars, outcomeVars, upto, covered>>
      BY <2>0 DEF Commanded
    <2>2. Turn
      BY <2>1, NoTurn
    <2>3. \/ background' = background /\ session' = Woken(session, command, "running", Parent)
          \/ \E s : session' = session /\ background' = background \cup {StopTask(s, FALSE, FALSE, command.caller, command.msg)}
      BY DEF OpenRefused, CloseRefused, CloseRoute
    <2>4. CASE background' = background /\ session' = Woken(session, command, "running", Parent)
      <3>1. StillSessions
        BY <2>0, <2>4, CommandFacts, <1>WokenStill DEF StillSessions
      <3> QED
        BY <2>1, <2>2, <2>4, <3>1, SameTasks, <1>StillKind
    <2>5. ASSUME NEW s, session' = session,
                 background' = background \cup {StopTask(s, FALSE, FALSE, command.caller, command.msg)}
          PROVE  StepKind
      <3>1. ~StopTask(s, FALSE, FALSE, command.caller, command.msg).sent
        BY DEF StopTask
      <3>2. Tasks
        BY <2>5, <3>1, <1>MoreTasks
      <3> QED
        BY <2>1, <2>2, <2>5, <3>2, <1>Untouched, <1>StillKind
    <2> QED
      BY <2>3, <2>4, <2>5
  (* A session is made. *)
  <1>CreatedStill. ASSUME NEW sessions \in [Session -> SessionState], \A t \in Session : Quiet(session[t], sessions[t]),
                          NEW id, Created(sessions, id, NewSession)
                   PROVE  StillSessions
    <2> USE <1>CreatedStill
    <2>1. NewShell \in Session /\ NewShell > spawned
      BY TypeParts, Constants, SMTT(30) DEF IInv, TableType, Session, Created, NewShell
    <2>2. session' = [sessions EXCEPT ![NewShell] = NewSession]
      BY DEF Created
    <2>3. \A t \in Session : session'[t] = IF t = NewShell THEN NewSession ELSE sessions[t]
      BY <2>2
    <2>4. Quiet(session[NewShell], NewSession)
      BY <2>1, <1>NewStill
    <2> QED
      BY <2>3, <2>4 DEF StillSessions
  (* ... by a client or for a cell. *)
  <1>CreateKind. ASSUME CreateRequest \/ OpenRoute PROVE StepKind
    <2> USE <1>CreateKind
    <2>1. CASE CreateRequest
      <3>0. /\ at = "select" /\ UNCHANGED <<clientVars, shell, outcomeVars, covered, loopVars, background>>
            /\ session' = session \/ Created(session, Head(control).id, NewSession)
        BY <2>1 DEF CreateRequest, TakeControl
      <3>1. StillSessions
        <4>1. session \in [Session -> SessionState] /\ \A t \in Session : Quiet(session[t], session[t])
          BY TypeParts DEF IInv, Quiet
        <4> QED
          BY <3>0, <4>1, <1>Untouched, <1>CreatedStill
      <3>2. Turn
        BY <3>0, NoTurn
      <3> QED
        BY <3>0, <3>1, <3>2, SameTasks, <1>StillKind
    <2>2. CASE OpenRoute
      <3> DEFINE command == Head(commands)
                 id == IF command.id = Parent THEN NewShell ELSE command.id
                 woken == Woken(session, command, "routed", id)
      <3>0. /\ commands # <<>> /\ background' = background /\ Commanded
            /\ session' = woken \/ Created(woken, command.id, NewSession)
            /\ Missing(command.id) => Created(woken, command.id, NewSession)
        BY <2>2 DEF OpenRoute
      <3>1. at = "select" /\ UNCHANGED <<clientVars, shell, loopVars, outcomeVars, upto, covered>>
        BY <3>0 DEF Commanded
      <3>2. id \in Ids /\ command.caller \in Session
        <4>1. command.id \in Ids /\ command.caller \in Session
          BY <3>0, CommandFacts
        <4>2. CASE command.id = Parent
          <5>1. Missing(command.id)
            BY <4>2 DEF Missing
          <5>2. NewShell \in Session
            BY <3>0, <5>1, TypeParts, Constants, SMTT(30) DEF IInv, TableType, Session, Created, NewShell
          <5> QED
            BY <4>1, <4>2, <5>2, Constants
        <4> QED
          BY <4>1, <4>2
      <3> HIDE DEF id, command
      <3>3. woken \in [Session -> SessionState] /\ \A t \in Session : Quiet(session[t], woken[t])
        BY <3>2, WokenFacts, <1>WokenStill
      <3> HIDE DEF woken
      <3>4. StillSessions
        <4>1. CASE session' = woken
          BY <3>3, <4>1 DEF StillSessions
        <4>2. CASE Created(woken, command.id, NewSession)
          BY <3>3, <4>2, <1>CreatedStill
        <4> QED
          BY <3>0, <4>1, <4>2
      <3>5. Turn
        BY <3>1, NoTurn
      <3> QED
        BY <3>0, <3>1, <3>4, <3>5, SameTasks, <1>StillKind
    <2> QED
      BY <2>1, <2>2
  (* A control goes to a session. *)
  <1>SendToShellKind. ASSUME NEW s \in todo, SendToShell(s) PROVE StepKind
    <2> USE <1>SendToShellKind
    <2> DEFINE control_sent == IF handling = "release" THEN "release" ELSE "interrupt"
               new == [session[s] EXCEPT !.controls = Append(@, control_sent)]
    <2>0. /\ at = "each" /\ todo' = todo \ {s} /\ session' = [session EXCEPT ![s] = new]
          /\ IF handling = "release" THEN at' = "answer" ELSE at' = at
          /\ UNCHANGED <<clientVars, channelVars, msg, handling, background, outcomeVars, historyVars>>
      BY DEF SendToShell
    <2>1. s \in Session /\ session \in [Session -> SessionState] /\ session[s] \in SessionState
      BY TypeParts DEF IInv, LoopType
    <2>2. /\ new.state = session[s].state /\ new.incoming = session[s].incoming /\ new.queue = session[s].queue
          /\ new.controls = Append(session[s].controls, control_sent)
          /\ new.cell = session[s].cell /\ new.serving = session[s].serving
      BY <2>1 DEF SessionState
    <2>3. session[s].controls \in Seq({"interrupt", "release", "stop"}) /\ control_sent \in {"interrupt", "release", "stop"}
      BY <2>1 DEF SessionState
    <2>4. /\ \A n \in DOMAIN session[s].controls :
               n \in DOMAIN Append(session[s].controls, control_sent)
               /\ Append(session[s].controls, control_sent)[n] = session[s].controls[n]
          /\ Len(session[s].controls) + 1 \in DOMAIN Append(session[s].controls, control_sent)
          /\ Append(session[s].controls, control_sent)[Len(session[s].controls) + 1] = control_sent
      <3> HIDE DEF control_sent
      <3> QED
        BY <2>3, SMTT(30)
    <2>5. handling # "release" => control_sent = "interrupt"
      OBVIOUS
    <2> HIDE DEF new, control_sent
    <2>6. session'[s] = new /\ \A t \in Session : t # s => session'[t] = session[t]
      BY <2>0, <2>1
    <2>7. Quiet(session[s], new)
      BY <2>2, <2>4 DEF Quiet, Asking
    <2>8. StillSessions
      BY <2>6, <2>7 DEF StillSessions, Quiet
    <2>9. handling # "release" => Asks(s)'
      BY <2>2, <2>4, <2>5, <2>6 DEF Asks, Asking
    <2>10. Turn
      BY <2>0, <2>9 DEF Turn
    <2> QED
      BY <2>0, <2>8, <2>10, SameTasks, <1>StillKind
  (* The tasks of stop_in_background. *)
  <1>BackgroundKind. ASSUME Background PROVE StepKind
    <2> USE <1>BackgroundKind
    <2>1. ASSUME NEW task \in background, BackgroundStops(task) PROVE StepKind
      <3> DEFINE new == [task EXCEPT !.sent = TRUE]
      <3>0. /\ session' = StopControls(task.shell, task.interrupt) /\ background' = (background \ {task}) \cup {new}
            /\ UNCHANGED <<clientVars, channelVars, loopVars, tableVars, outcomeVars, historyVars>>
        BY <2>1 DEF BackgroundStops
      <3>1. task \in BackgroundTask /\ task.shell \in Session /\ task.interrupt \in BOOLEAN
        BY TaskFacts DEF BackgroundTask
      <3>2. new.shell = task.shell /\ new.interrupt = task.interrupt
        BY <3>1 DEF BackgroundTask
      <3> HIDE DEF new
      <3>3. StillSessions /\ (Running(task.shell) /\ task.interrupt => Asks(task.shell)')
        BY <3>0, <3>1, <1>StopStill
      <3>4. ~Running(task.shell) => KeptBy(task.shell) = {} /\ KeptBy(task.shell)' = {}
        <4>1. KeptBy(task.shell)' = KeptBy(task.shell)
          BY <3>1, <3>3 DEF StillSessions, Quiet, KeptBy
        <4> QED
          BY <3>1, <4>1, EndedKeeps
      <3>5. Tasks
        <4>1. ASSUME NEW t \in background
              PROVE  \/ KeptBy(t.shell) = {}
                     \/ \E u \in background' : /\ u.shell = t.shell /\ u.interrupt = t.interrupt
                                               /\ u.sent => t.sent \/ (t.interrupt => Asks(t.shell)')
          <5>1. CASE t = task
            BY <3>0, <3>2, <3>3, <3>4, <5>1
          <5>2. CASE t # task
            BY <3>0, <5>2
          <5> QED
            BY <5>1, <5>2
        <4>2. ASSUME NEW u \in background', u.interrupt, u.sent
              PROVE  u \in background \/ KeptBy(u.shell)' = {} \/ Asks(u.shell)'
          <5>1. CASE u = new
            <6>1. u.shell = task.shell /\ task.interrupt
              BY <3>2, <4>2, <5>1
            <6> QED
              BY <3>3, <3>4, <6>1
          <5> QED
            BY <3>0, <5>1
        <4> QED
          BY <4>1, <4>2 DEF Tasks
      <3>6. Turn
        BY <3>0, SameTurn
      <3> QED
        BY <3>0, <3>3, <3>5, <3>6, <1>StillKind
    <2>2. ASSUME NEW task \in background, BackgroundDone(task) PROVE StepKind
      <3>0. /\ background' = background \ {task} /\ ~Running(task.shell)
            /\ session' = session \/ session' = Woken(session, task, "running", Parent)
            /\ UNCHANGED <<clientVars, shell, loopVars, outcomeVars, covered, upto>>
        BY <2>2 DEF BackgroundDone, Finished
      <3>1. task \in BackgroundTask /\ task.shell \in Session /\ task.caller \in Session
        BY TaskFacts DEF BackgroundTask
      <3>2. StillSessions
        BY <3>0, <3>1, Constants, <1>Untouched, <1>WokenStill DEF StillSessions
      <3>3. KeptBy(task.shell) = {}
        BY <3>0, <3>1, EndedKeeps
      <3>4. Tasks
        BY <3>0, <3>3 DEF Tasks
      <3>5. Turn
        BY <3>0, SameTurn
      <3> QED
        BY <3>0, <3>2, <3>4, <3>5, <1>StillKind
    <2> QED
      BY <2>1, <2>2 DEF Background
  (* The final stop. *)
  <1>StopNextKind. ASSUME NEW id \in DOMAIN shells, StopNext(id) PROVE StepKind
    <2> USE <1>StopNextKind
    <2>0. /\ at = "stop" /\ at' = "join" /\ session' = StopControls(shells[id], TRUE)
          /\ UNCHANGED <<clientVars, channelVars, msg, background, outcomeVars, historyVars>>
      BY DEF StopNext
    <2>1. shells[id] \in Session
      BY TypeParts DEF IInv, TableType, Mapped
    <2>2. StillSessions
      BY <2>0, <2>1, <1>StopStill
    <2>3. Turn
      BY <2>0, NoTurn
    <2> QED
      BY <2>0, <2>2, <2>3, SameTasks, <1>StillKind
  (* A client sends a request. *)
  <1>SendKind. ASSUME NEW shape \in Shapes, Send(shape) PROVE StepKind
    <2> USE <1>SendKind
    <2>0. /\ sent < MaxRequests /\ sent' = sent + 1 /\ request' = [request EXCEPT ![sent + 1] = shape]
          /\ shell' = Append(shell, sent + 1)
          /\ UNCHANGED <<loopVars, session, background, outcomeVars, historyVars>>
      BY DEF Send
    <2>1. sent + 1 \in MsgId /\ \A m \in MsgId : m <= sent => m # sent + 1
      BY <2>0, ShellFacts, Constants, SMTT(30) DEF MsgId
    <2>2. \A m \in MsgId : m <= sent => request'[m] = request[m]
      BY <2>0, <2>1, TypeParts DEF IInv, ClientType
    <2>3. Sends
      BY <2>0, <2>1, <2>2 DEF Sends
    <2> QED
      BY <2>0, <2>3, SameHeard, SameTasks, SameTurn DEF StepKind, Moved
  (* The main loop takes a request in hand, ... *)
  <1>TakeRequestKind. ASSUME TakeRequest PROVE StepKind
    <2> USE <1>TakeRequestKind
    <2>0. /\ at \in {"select", "pending"} /\ shell # <<>> /\ msg' = Head(shell) /\ shell' = Tail(shell) /\ at' = "route"
          /\ UNCHANGED <<clientVars, session, background, outcomeVars, historyVars>>
      BY DEF TakeRequest
    <2>1. msg = NoMsg /\ shell \in Seq(MsgId) /\ NoMsg \notin MsgId
      BY <2>0, ShellFacts DEF Own, Queued
    <2>2. /\ 1 \in DOMAIN shell /\ msg' = shell[1] /\ msg' \in MsgId
          /\ \A i \in DOMAIN shell' : i + 1 \in DOMAIN shell /\ shell'[i] = shell[i + 1] /\ i + 1 # 1 /\ i \in Int
          /\ \A i \in DOMAIN shell : i = 1 \/ (i - 1 \in DOMAIN shell' /\ shell'[i - 1] = shell[i])
          /\ \A i, j \in DOMAIN shell' : i + 1 = j + 1 => i = j
      BY <2>0, <2>1, SMTT(30)
    <2>3. Queued'
      <3>1. \A i, j \in DOMAIN shell : shell[i] = shell[j] => i = j
        BY DEF Own, Queued
      <3>2. ASSUME NEW i \in DOMAIN shell', NEW j \in DOMAIN shell', shell'[i] = shell'[j] PROVE i = j
        BY <2>2, <3>1, <3>2
      <3>3. ASSUME NEW i \in DOMAIN shell' PROVE shell'[i] # msg'
        BY <2>2, <3>1
      <3> QED
        BY <2>0, <3>2, <3>3 DEF Queued
    <2>4. InShell' = InShell
      <3>1. \A m : (\E i \in DOMAIN shell : shell[i] = m) <=> ((\E i \in DOMAIN shell' : shell'[i] = m) \/ m = msg')
        BY <2>2
      <3>2. msg' # NoMsg
        BY <2>1, <2>2
      <3>3. \A m : m \in InShell' <=> m \in InShell
        <4>1. \A m : m \in InShell <=> \E i \in DOMAIN shell : shell[i] = m
          BY <2>1 DEF InShell
        <4>2. \A m : m \in InShell' <=> (\E i \in DOMAIN shell' : shell'[i] = m) \/ m = msg'
          BY <3>2 DEF InShell
        <4> QED
          BY <3>1, <4>1, <4>2
      <3> QED
        BY <3>3
    <2>5. \A t \in Session : KeptBy(t)' = KeptBy(t) /\ Tidy(session'[t])
      BY <2>0 DEF KeptBy, Own
    <2>6. \A m : (m \in Kept' <=> m \in Kept) /\ (Open(m)' <=> Open(m))
      BY <2>0, <2>4, <2>5, KeptFacts DEF Open
    <2>7. Less
      BY <2>0, <2>3, <2>4, <2>5, <2>6 DEF Less
    <2>8. Turn
      BY <2>0, NoTurn
    <2> QED
      BY <2>0, <2>7, <2>8, SameHeard, SameTasks DEF StepKind, Moved
  (* The main loop has routed the request it had in hand. *)
  <1>RoutedFacts. ASSUME at = "route", Routed
                  PROVE  /\ at' \in {"select", "pending"} /\ msg' = NoMsg /\ msg # NoMsg /\ msg \in MsgId
                         /\ UNCHANGED <<sent, request, shell, lost, interrupted, background>>
                         /\ Tasks /\ Turn /\ \A m : m \in InShell' <=> m \in InShell /\ m # msg
                         /\ msg \in InShell /\ Queued'
    <2> USE <1>RoutedFacts
    <2>1. /\ at' \in {"select", "pending"} /\ msg' = NoMsg
          /\ UNCHANGED <<clientVars, channelVars, lost, interrupted, background, historyVars>>
      BY DEF Routed
    <2>2. msg # NoMsg /\ msg \in MsgId /\ InShell \subseteq MsgId /\ NoMsg \notin MsgId
      BY ShellFacts DEF IInv, Within
    <2>3. \A i \in DOMAIN shell : shell[i] # msg /\ shell[i] # NoMsg
      <3>1. \A i \in DOMAIN shell : shell[i] \in InShell
        BY DEF InShell
      <3>2. \A i \in DOMAIN shell : shell[i] # msg
        BY DEF Own, Queued
      <3> QED
        BY <2>2, <3>1, <3>2
    <2>4. Queued'
      BY <2>1, <2>3 DEF Own, Queued
    <2>5. \A m : m \in InShell <=> (\E i \in DOMAIN shell : shell[i] = m) \/ m = msg
      BY <2>2 DEF InShell
    <2>6. \A m : m \in InShell' <=> \E i \in DOMAIN shell : shell[i] = m
      BY <2>1 DEF InShell
    <2>7. \A m : m \in InShell' <=> m \in InShell /\ m # msg
      BY <2>3, <2>5, <2>6
    <2>8. Turn
      BY <2>1, NoTurn
    <2>9. Tasks
      BY <2>1, SameTasks
    <2> QED
      BY <2>1, <2>2, <2>4, <2>5, <2>7, <2>8, <2>9
  (* ... refuses it, ... *)
  <1>RouteRefusesKind. ASSUME RouteRefuses PROVE StepKind
    <2> USE <1>RouteRefusesKind
    <2>0. at = "route" /\ answer' = [answer EXCEPT ![msg] = "refused"] /\ UNCHANGED session /\ Routed
      BY DEF RouteRefuses, Refusal
    <2>1. /\ msg \in InShell /\ msg \in MsgId /\ UNCHANGED <<sent, request, lost, interrupted>> /\ Tasks /\ Turn /\ Queued'
          /\ \A m : m \in InShell' <=> m \in InShell /\ m # msg
      BY <2>0, <1>RoutedFacts
    <2>2. \A t \in Session : KeptBy(t)' = KeptBy(t) /\ Tidy(session'[t]) /\ msg \notin KeptBy(t)
      BY <2>0, <2>1 DEF KeptBy, Own
    <2>3. ASSUME NEW m \in MsgId PROVE Open(m)' <=> Open(m) /\ (m \in Kept => m \in Kept')
      <3>1. (m \in Kept => m \in Kept') <=> m # msg
        BY <2>1, <2>2, KeptFacts
      <3>2. Open(m)' <=> Open(m) /\ m # msg
        <4>1. answer \in [MsgId -> {"none", "ok", "aborted", "refused"}]
          BY TypeParts DEF IInv, OutcomeType
        <4>2. answer'[m] = IF m = msg THEN "refused" ELSE answer[m]
          BY <2>0, <2>1, <4>1
        <4> QED
          BY <2>1, <4>2 DEF Open
      <3> QED
        BY <3>1, <3>2
    <2>4. Less
      BY <2>1, <2>2, <2>3 DEF Less
    <2> QED
      BY <2>0, <2>1, <2>4, SameHeard DEF StepKind, Moved
  (* The main loop ends, and drops its channels. *)
  <1>ExitKind. ASSUME Exit PROVE StepKind
    <2> USE <1>ExitKind
    <2>0. /\ at = "stop" /\ at' = "ended" /\ shell' = <<>> /\ lost' = lost \cup {shell[i] : i \in DOMAIN shell}
          /\ UNCHANGED <<clientVars, msg, session, background, answer, interrupted, historyVars>>
      BY DEF Exit
    <2>1. msg = NoMsg
      BY <2>0 DEF Own, Queued
    <2>2. DOMAIN shell' = {}
      BY <2>0, SMTT(30)
    <2>3. Queued' /\ InShell' = {}
      BY <2>0, <2>1, <2>2 DEF Queued, InShell
    <2>4. \A m : m \in InShell <=> m \in {shell[i] : i \in DOMAIN shell}
      BY <2>1 DEF InShell
    <2>5. \A t \in Session : KeptBy(t)' = KeptBy(t) /\ Tidy(session'[t])
      BY <2>0 DEF KeptBy, Own
    <2>6. ASSUME NEW m \in MsgId PROVE Open(m)' <=> Open(m) /\ (m \in Kept => m \in Kept')
      <3>1. m \in InShell => \A t \in Session : m \notin KeptBy(t)
        BY DEF Own
      <3>2. (m \in Kept => m \in Kept') <=> m \notin InShell
        BY <2>3, <2>5, <3>1, KeptFacts
      <3>3. Open(m)' <=> Open(m) /\ m \notin InShell
        BY <2>0, <2>4 DEF Open
      <3> QED
        BY <3>2, <3>3
    <2>7. Less
      BY <2>0, <2>3, <2>5, <2>6 DEF Less
    <2>8. Turn
      BY <2>0, NoTurn
    <2> QED
      BY <2>0, <2>7, <2>8, SameHeard, SameTasks DEF StepKind, Moved
  (* ... hands it to a session of the table, ... *)
  <1>RouteDeliversKind. ASSUME RouteDelivers PROVE StepKind
    <2> USE <1>RouteDeliversKind
    <2> DEFINE id == RouteId(msg)
               s == shells[id]
               new == [session[s] EXCEPT !.incoming = @ \cup {msg}]
    <2>0. /\ at = "route" /\ id \in DOMAIN shells /\ Running(s) /\ session' = [session EXCEPT ![s] = new]
          /\ UNCHANGED answer /\ Routed
      BY DEF RouteDelivers
    <2>1. s \in Session /\ session \in [Session -> SessionState] /\ session[s] \in SessionState
      BY <2>0, TypeParts DEF IInv, TableType
    <2>2. /\ new.state = session[s].state /\ new.queue = session[s].queue /\ new.controls = session[s].controls
          /\ new.incoming = session[s].incoming \cup {msg}
          /\ new.cell = session[s].cell /\ new.serving = session[s].serving
      BY <2>1 DEF SessionState
    <2>3. \A task \in background : task.shell # s
      BY <2>0 DEF IInv, Table
    <2> HIDE DEF new, s, id
    <2>4. session'[s] = new /\ \A t \in Session : t # s => session'[t] = session[t]
      BY <2>0, <2>1
    <2>5. at' # "route" /\ msg' = NoMsg /\ UNCHANGED <<sent, request, shell, lost, interrupted>> /\ Tasks /\ Turn
      BY <2>0, <1>RoutedFacts
    <2>6. Hands(s)
      BY <2>0, <2>2, <2>3, <2>4, <2>5 DEF Hands
    <2>7. Heard
      BY <2>2, <2>4, <2>5 DEF Heard, Asks, Asking
    <2> QED
      BY <2>1, <2>5, <2>6, <2>7 DEF StepKind, Moved
  (* ... or to one it makes for it. *)
  <1>RouteCreatesKind. ASSUME RouteCreates PROVE StepKind
    <2> USE <1>RouteCreatesKind
    <2> DEFINE new == [NewSession EXCEPT !.incoming = {msg}]
    <2>0. /\ at = "route" /\ Created(session, RouteId(msg), new) /\ UNCHANGED answer /\ Routed
      BY DEF RouteCreates
    <2>1. NewShell \in Session /\ NewShell > spawned /\ session \in [Session -> SessionState]
          /\ \A task \in background : task.shell # NewShell
      <3>1. spawned < MaxShells /\ spawned \in Session /\ \A task \in background : task.shell \in Session /\ task.shell <= spawned
        BY <2>0, TypeParts, TaskFacts DEF IInv, Fresh, TableType, Created
      <3>2. \A s \in Session : s <= spawned => s # NewShell
        BY <3>1, Constants, SMTT(30) DEF NewShell, Session
      <3>3. NewShell \in Session /\ NewShell > spawned
        BY <3>1, Constants, SMTT(30) DEF NewShell, Session
      <3> QED
        BY <3>1, <3>2, <3>3, TypeParts DEF IInv
    <2>2. /\ new.state = "running" /\ new.queue = {} /\ new.incoming = {msg} /\ new.cell = NoMsg /\ new.serving = NoMsg
      BY DEF NewSession
    <2>3. session' = [session EXCEPT ![NewShell] = new]
      BY <2>0 DEF Created
    <2> HIDE DEF new
    <2>4. session'[NewShell] = new /\ \A t \in Session : t # NewShell => session'[t] = session[t]
      BY <2>1, <2>3
    <2>5. at' # "route" /\ msg' = NoMsg /\ UNCHANGED <<sent, request, shell, lost, interrupted>> /\ Tasks /\ Turn
      BY <2>0, <1>RoutedFacts
    <2>6. /\ session[NewShell].incoming = {} /\ session[NewShell].queue = {}
          /\ session[NewShell].serving = NoMsg /\ session[NewShell].cell = NoMsg
      BY <2>1, <1>NewStill
    <2>7. Hands(NewShell)
      BY <2>0, <2>1, <2>2, <2>4, <2>5, <2>6 DEF Hands
    <2>8. KeptBy(NewShell) = {}
      BY <2>6 DEF KeptBy
    <2>9. Heard
      BY <2>4, <2>5, <2>8 DEF Heard, Asks
    <2> QED
      BY <2>1, <2>5, <2>7, <2>9 DEF StepKind, Moved
  <1>1. CASE Client
    BY <1>1, <1>SendKind, <1>TurnKind DEF Client
  <1>2. CASE MainLoop
    <2>1. CASE TakeRequest \/ RouteCreates \/ RouteDelivers \/ RouteRefuses \/ Exit
      BY <2>1, <1>TakeRequestKind, <1>RouteCreatesKind, <1>RouteDeliversKind, <1>RouteRefusesKind, <1>ExitKind
    <2>2. CASE FailureReported \/ ShutdownRequest \/ Terminated \/ SendFails \/ \E id \in DOMAIN shells : Reap(id)
      BY <2>2, <1>LeaveKind
    <2>3. CASE OtherRequest \/ BroadcastRequest \/ Interrupted \/ PendingRouted \/ BroadcastDone \/ Joined
      BY <2>3, <1>TurnKind
    <2>4. CASE OpenRefused \/ CloseRefused \/ CloseRoute \/ DeleteRequest
      BY <2>4, <1>CommandKind, <1>DeleteKind
    <2>5. CASE CreateRequest \/ OpenRoute
      BY <2>5, <1>CreateKind
    <2>6. CASE (\E s \in todo : SendToShell(s)) \/ \E id \in DOMAIN shells : StopNext(id)
      BY <2>6, <1>SendToShellKind, <1>StopNextKind
    <2> QED
      BY <1>2, <2>1, <2>2, <2>3, <2>4, <2>5, <2>6 DEF MainLoop
  <1>3. CASE Background
    BY <1>3, <1>BackgroundKind
  <1>5. CASE UNCHANGED vars
    BY <1>5, <1>TurnKind
  <1> QED
    BY <1>1, <1>2, <1>3, <1>5

-----------------------------------------------------------------------------
(* Steps of the sessions. *)

(* The steps of a session are of these kinds. *)
LEMMA SessionKinds ==
  ASSUME IInv, Own, Told, \E s \in Session : Scheduler(s) \/ Cell(s) \/ SessionFails(s)
  PROVE  StepKind
  (* A session may answer or drop what it keeps. *)
  <1>SessionLess. ASSUME NEW s \in Session, NEW new, Change(s, new), UNCHANGED <<sent, request, shell, msg>>,
                         at' = "route" <=> at = "route", Tidy(new), Keep(new) \subseteq Keep(session[s]),
                         \A m \in MsgId : Open(m)' <=> Open(m) /\ (m \in Keep(session[s]) => m \in Keep(new)),
                         interrupted \subseteq interrupted',
                         Asking(session[s]) => Asking(new) \/ \A m \in Keep(new) : Execute(m) => m \in interrupted'
                  PROVE  Moved /\ Heard
    <2> USE <1>SessionLess
    <2>1. session \in [Session -> SessionState]
      BY TypeParts DEF IInv
    <2>2. session'[s] = new /\ \A t \in Session : t # s => session'[t] = session[t]
      BY <2>1 DEF Change
    <2>3. KeptBy(s) = Keep(session[s]) /\ KeptBy(s)' = Keep(new)
      BY <2>2, KeepFacts
    <2>4. \A t \in Session : t # s => KeptBy(t)' = KeptBy(t)
      BY <2>2 DEF KeptBy
    <2>5. InShell' = InShell /\ Queued'
      BY DEF InShell, Own, Queued
    <2>6. \A t \in Session : Tidy(session'[t])
      BY <2>2 DEF Own
    <2>7. \A t \in Session : KeptBy(t)' \subseteq KeptBy(t)
      BY <2>3, <2>4
    <2>8. ASSUME NEW m \in MsgId PROVE (m \in Kept => m \in Kept') <=> (m \in KeptBy(s) => m \in KeptBy(s)')
      <3>1. m \in KeptBy(s) => m \notin InShell /\ \A t \in Session : t # s => m \notin KeptBy(t)
        BY DEF Own
      <3> QED
        BY <2>4, <2>5, <3>1, KeptFacts
    <2>9. Less
      BY <2>3, <2>5, <2>6, <2>7, <2>8 DEF Less
    <2>10. Heard
      BY <2>2, <2>3 DEF Heard, Asks
    <2> QED
      BY <2>9, <2>10 DEF Moved
  (* Such a step of a session is of a kind. *)
  <1>SessionKind. ASSUME NEW s \in Session, NEW new, Change(s, new), UNCHANGED loopAndTable,
                         Tidy(new), Keep(new) \subseteq Keep(session[s]),
                         \A m \in MsgId : Open(m)' <=> Open(m) /\ (m \in Keep(session[s]) => m \in Keep(new)),
                         interrupted \subseteq interrupted',
                         Asking(session[s]) => Asking(new) \/ \A m \in Keep(new) : Execute(m) => m \in interrupted'
                  PROVE  StepKind
    <2> USE <1>SessionKind
    <2>1. UNCHANGED <<sent, request, shell, msg, at, handling, todo, background, covered, upto>>
      BY DEF loopAndTable
    <2>2. Moved /\ Heard
      BY <2>1, <1>SessionLess
    <2> QED
      BY <2>1, <2>2, SameTasks, SameTurn DEF StepKind
  (* ... or it keeps the same requests. *)
  <1>SessionSame. ASSUME NEW s \in Session, NEW new, Change(s, new), UNCHANGED <<loopAndTable, outcomeVars>>,
                         Tidy(new), Keep(new) = Keep(session[s]), Asking(session[s]) => Asking(new)
                  PROVE  StepKind
    <2> USE <1>SessionSame
    <2>1. \A m \in MsgId : Open(m)' <=> Open(m)
      BY DEF Open
    <2> QED
      BY <2>1, <1>SessionKind
  (* The record of a session, and that it is tidy. *)
  <1>RecordFacts. ASSUME NEW s \in Session
                  PROVE  session[s] \in SessionState /\ Tidy(session[s]) /\ Keep(session[s]) \subseteq MsgId /\ NoMsg \notin MsgId
    BY <1>RecordFacts, TypeParts, KeepFacts, ShellFacts DEF IInv, Own
  (* A scheduler takes what is in its channel, ... *)
  <1>DrainKind. ASSUME NEW s \in Session, Drain(s) PROVE StepKind
    <2> USE <1>DrainKind
    <2> DEFINE old == session[s]
               new == [old EXCEPT !.incoming = {}, !.queue = @ \cup old.incoming]
    <2>0. old.state = "running" /\ old.serving = NoMsg /\ Change(s, new) /\ UNCHANGED <<loopAndTable, outcomeVars>>
      BY DEF Drain, Alive
    <2>1. old \in SessionState /\ Tidy(old)
      BY <1>RecordFacts
    <2> HIDE DEF old
    <2>2. /\ new.state = old.state /\ new.incoming = {} /\ new.queue = old.queue \cup old.incoming
          /\ new.controls = old.controls /\ new.cell = old.cell /\ new.serving = old.serving
      BY <2>1 DEF SessionState
    <2> HIDE DEF new
    <2>3. Keep(new) = Keep(old)
      BY <2>2 DEF Keep
    <2>4. Tidy(new) /\ (Asking(old) => Asking(new))
      BY <2>0, <2>1, <2>2 DEF Tidy, Asking
    <2> QED
      BY <2>0, <2>3, <2>4, <1>SessionSame DEF old
  (* ... starts a cell, ... *)
  <1>StartCellKind. ASSUME NEW s \in Session, NEW m, StartCell(s, m) PROVE StepKind
    <2> USE <1>StartCellKind
    <2> DEFINE old == session[s]
               new == [old EXCEPT !.queue = @ \ {m}, !.cell = m,
                         !.phase = IF request[m].uses = "none" THEN "running" ELSE "before"]
    <2>0. /\ old.state = "running" /\ old.serving = NoMsg /\ m \in old.queue /\ old.cell = NoMsg
          /\ Change(s, new) /\ UNCHANGED <<loopAndTable, outcomeVars>>
      BY DEF StartCell, Alive
    <2>1. old \in SessionState /\ Tidy(old)
      BY <1>RecordFacts
    <2> HIDE DEF old
    <2>2. /\ new.state = old.state /\ new.incoming = old.incoming /\ new.queue = old.queue \ {m}
          /\ new.controls = old.controls /\ new.cell = m /\ new.serving = old.serving
      BY <2>1 DEF SessionState
    <2> HIDE DEF new
    <2>3. m # NoMsg /\ m \notin old.incoming
      BY <2>0, <2>1 DEF Tidy
    <2>4. Keep(new) = Keep(old)
      <3>1. \A x : x \in Keep(new) <=> x \in Keep(old)
        BY <2>0, <2>2, <2>3 DEF Keep
      <3> QED
        BY <3>1
    <2>5. Tidy(new) /\ (Asking(old) => Asking(new))
      BY <2>0, <2>1, <2>2, <2>3 DEF Tidy, Asking
    <2> QED
      BY <2>0, <2>4, <2>5, <1>SessionSame DEF old
  (* ... or serves a request. *)
  <1>ServeKind. ASSUME NEW s \in Session, NEW m, Serve(s, m) PROVE StepKind
    <2> USE <1>ServeKind
    <2> DEFINE old == session[s]
               new == [old EXCEPT !.queue = @ \ {m}, !.serving = m]
    <2>0. /\ old.state = "running" /\ old.serving = NoMsg /\ m \in old.queue
          /\ Change(s, new) /\ UNCHANGED <<loopAndTable, outcomeVars>>
      BY DEF Serve, Alive
    <2>1. old \in SessionState /\ Tidy(old)
      BY <1>RecordFacts
    <2> HIDE DEF old
    <2>2. /\ new.state = old.state /\ new.incoming = old.incoming /\ new.queue = old.queue \ {m}
          /\ new.controls = old.controls /\ new.cell = old.cell /\ new.serving = m
      BY <2>1 DEF SessionState
    <2> HIDE DEF new
    <2>3. m # NoMsg /\ m \notin old.incoming /\ m # old.cell
      BY <2>0, <2>1 DEF Tidy
    <2>4. Keep(new) = Keep(old)
      <3>1. \A x : x \in Keep(new) <=> x \in Keep(old)
        BY <2>0, <2>2, <2>3 DEF Keep
      <3> QED
        BY <3>1
    <2>5. Tidy(new) /\ (Asking(old) => Asking(new))
      BY <2>0, <2>1, <2>2, <2>3 DEF Tidy, Asking
    <2> QED
      BY <2>0, <2>4, <2>5, <1>SessionSame DEF old
  (* A request that is answered is no longer open. *)
  <1>AnswerFacts. ASSUME NEW m \in MsgId, answer' = [answer EXCEPT ![m] = "ok"], NEW k \in MsgId
                  PROVE  answer'[k] # "none" <=> answer[k] # "none" \/ k = m
    <2> USE <1>AnswerFacts
    <2>1. answer \in [MsgId -> {"none", "ok", "aborted", "refused"}]
      BY TypeParts DEF IInv, OutcomeType
    <2>2. answer'[k] = IF k = m THEN "ok" ELSE answer[k]
      BY <2>1
    <2>3. CASE k = m
      <3>1. answer'[k] = "ok"
        BY <2>2, <2>3
      <3>2. answer'[k] # "none"
        BY <3>1
      <3> QED
        BY <2>3, <3>2
    <2>4. CASE k # m
      BY <2>2, <2>4
    <2> QED
      BY <2>3, <2>4
  (* A request is served, ... *)
  <1>ServedKind. ASSUME NEW s \in Session, Served(s) PROVE StepKind
    <2> USE <1>ServedKind
    <2> DEFINE old == session[s]
               m == old.serving
               new == [old EXCEPT !.serving = NoMsg]
    <2>0. /\ old.state = "running" /\ m # NoMsg /\ Change(s, new) /\ UNCHANGED <<loopAndTable, lost, interrupted>>
          /\ answer' = [answer EXCEPT ![m] = "ok"]
      BY DEF Served, Alive
    <2>1. old \in SessionState /\ Tidy(old) /\ Keep(old) \subseteq MsgId /\ NoMsg \notin MsgId
      BY <1>RecordFacts
    <2> HIDE DEF old
    <2>2. /\ new.state = old.state /\ new.incoming = old.incoming /\ new.queue = old.queue
          /\ new.controls = old.controls /\ new.cell = old.cell /\ new.serving = NoMsg
      BY <2>1 DEF SessionState
    <2> HIDE DEF new
    <2>3. m \in Keep(old) /\ m \in MsgId
      BY <2>0, <2>1 DEF Keep
    <2>4. \A x : x \in Keep(new) <=> x \in Keep(old) /\ x # m
      BY <2>0, <2>1, <2>2 DEF Keep, Tidy
    <2>5. \A x \in MsgId : Open(x)' <=> Open(x) /\ x # m
      BY <2>0, <2>3, <1>AnswerFacts DEF Open
    <2>6. NoMsg \notin old.incoming \cup old.queue
      BY <2>1 DEF Keep
    <2>7. Tidy(new) /\ (Asking(old) => Asking(new))
      BY <2>0, <2>1, <2>2, <2>6 DEF Tidy, Asking
    <2>8. \A x \in MsgId : Open(x)' <=> Open(x) /\ (x \in Keep(old) => x \in Keep(new))
      BY <2>3, <2>4, <2>5
    <2>9. Keep(new) \subseteq Keep(old)
      BY <2>4
    <2> QED
      BY <2>0, <2>7, <2>8, <2>9, <1>SessionKind DEF old
  (* ... or a cell ends. *)
  <1>CellEndsKind. ASSUME NEW s \in Session, CellEnds(s) PROVE StepKind
    <2> USE <1>CellEndsKind
    <2> DEFINE old == session[s]
               m == old.cell
               new == [old EXCEPT !.cell = NoMsg, !.route = Parent]
    <2>0. /\ old.state = "running" /\ m # NoMsg /\ Change(s, new) /\ UNCHANGED <<loopAndTable, lost, interrupted>>
          /\ answer' = [answer EXCEPT ![m] = "ok"]
      BY DEF CellEnds, Alive
    <2>1. old \in SessionState /\ Tidy(old) /\ Keep(old) \subseteq MsgId /\ NoMsg \notin MsgId
      BY <1>RecordFacts
    <2> HIDE DEF old
    <2>2. /\ new.state = old.state /\ new.incoming = old.incoming /\ new.queue = old.queue
          /\ new.controls = old.controls /\ new.cell = NoMsg /\ new.serving = old.serving
      BY <2>1 DEF SessionState
    <2> HIDE DEF new
    <2>3. m \in Keep(old) /\ m \in MsgId
      BY <2>0, <2>1 DEF Keep
    <2>4. \A x : x \in Keep(new) <=> x \in Keep(old) /\ x # m
      BY <2>0, <2>1, <2>2 DEF Keep, Tidy
    <2>5. \A x \in MsgId : Open(x)' <=> Open(x) /\ x # m
      BY <2>0, <2>3, <1>AnswerFacts DEF Open
    <2>6. NoMsg \notin old.incoming \cup old.queue
      BY <2>1 DEF Keep
    <2>7. Tidy(new) /\ (Asking(old) => Asking(new))
      BY <2>0, <2>1, <2>2, <2>6 DEF Tidy, Asking
    <2>8. \A x \in MsgId : Open(x)' <=> Open(x) /\ (x \in Keep(old) => x \in Keep(new))
      BY <2>3, <2>4, <2>5
    <2>9. Keep(new) \subseteq Keep(old)
      BY <2>4
    <2> QED
      BY <2>0, <2>7, <2>8, <2>9, <1>SessionKind DEF old
  (* A session that ends drops what it keeps and has not answered. *)
  <1>EndKind. ASSUME NEW s \in Session, NEW state, state # "running", End(s, state),
                     \A m \in MsgId : Open(m)' <=> Open(m) /\ m \notin KeptBy(s)
              PROVE  StepKind
    <2> USE <1>EndKind
    <2> DEFINE new == [NoSession EXCEPT !.state = state]
    <2>0. Change(s, new) /\ UNCHANGED <<loopAndTable, interrupted>>
      BY DEF End
    <2>1. /\ new.state = state /\ new.incoming = {} /\ new.queue = {} /\ new.cell = NoMsg /\ new.serving = NoMsg
      BY DEF NoSession, NewSession
    <2> HIDE DEF new
    <2>2. Keep(new) = {}
      BY <2>1 DEF Keep
    <2>3. Tidy(new)
      BY <2>1, <2>2 DEF Tidy
    <2>4. KeptBy(s) = Keep(session[s])
      BY KeepFacts
    <2> QED
      BY <2>0, <2>2, <2>3, <2>4, <1>SessionKind
  (* It ends by a Stop, a failure or a shutdown_request. *)
  <1>EndsKind. ASSUME NEW s \in Session, Stop(s) \/ SessionFails(s) \/ \E m \in session[s].queue : ShutDown(s, m)
               PROVE  StepKind
    <2> USE <1>EndsKind
    <2>1. CASE Stop(s) \/ SessionFails(s)
      <3>0. (End(s, "ended") \/ End(s, "failed")) /\ lost' = lost \cup KeptBy(s) /\ answer' = answer
        BY <2>1 DEF Stop, SessionFails
      <3>1. \A m \in MsgId : Open(m)' <=> Open(m) /\ m \notin KeptBy(s)
        BY <3>0 DEF Open
      <3>2. "ended" # "running" /\ "failed" # "running"
        OBVIOUS
      <3> QED
        BY <3>0, <3>1, <3>2, <1>EndKind
    <2>2. ASSUME NEW m \in session[s].queue, ShutDown(s, m) PROVE StepKind
      <3>0. /\ End(s, "shutdown") /\ answer' = [answer EXCEPT ![m] = "ok"] /\ lost' = lost \cup (KeptBy(s) \ {m})
        BY <2>2 DEF ShutDown
      <3>1. m \in KeptBy(s) /\ m \in MsgId
        BY KeepFacts DEF KeptBy
      <3>2. \A k \in MsgId : Open(k)' <=> Open(k) /\ k \notin KeptBy(s)
        BY <3>0, <3>1, <1>AnswerFacts DEF Open
      <3>3. "shutdown" # "running"
        OBVIOUS
      <3> QED
        BY <3>0, <3>2, <3>3, <1>EndKind
    <2> QED
      BY <2>1, <2>2
  (* Of a channel of controls, the head is taken. *)
  <1>HeadTaken. ASSUME NEW q \in Seq({"interrupt", "release", "stop"}), q # <<>>, Head(q) # "interrupt",
                       NEW n \in DOMAIN q, q[n] = "interrupt"
                PROVE  n - 1 \in DOMAIN Tail(q) /\ Tail(q)[n - 1] = "interrupt"
    <2> USE <1>HeadTaken
    <2>1. n \in 1 .. Len(q) /\ n # 1 /\ Len(q) \in Nat
      BY SMTT(30)
    <2> QED
      BY <2>1, SMTT(30)
  (* A Release or a Stop is obeyed. *)
  <1>ReadKind. ASSUME NEW s \in Session, ApplyRelease(s) \/ ApplyStop(s) PROVE StepKind
    <2> USE <1>ReadKind
    <2> DEFINE old == session[s]
    <2>0. old.state = "running" /\ old.controls # <<>> /\ Head(old.controls) # "interrupt"
      BY DEF ApplyRelease, ApplyStop, Alive
    <2>1. old \in SessionState /\ Tidy(old) /\ old.controls \in Seq({"interrupt", "release", "stop"})
      BY <1>RecordFacts DEF SessionState
    <2>2. PICK new : /\ Change(s, new) /\ new.controls = Tail(old.controls)
                     /\ new.state = old.state /\ new.incoming = old.incoming /\ new.queue = old.queue
                     /\ new.cell = old.cell /\ new.serving = old.serving
      <3>1. CASE ApplyRelease(s)
        <4> DEFINE q == [old EXCEPT !.controls = Tail(@)]
        <4>1. Change(s, q)
          BY <3>1 DEF ApplyRelease
        <4>2. /\ q.controls = Tail(old.controls) /\ q.state = old.state /\ q.incoming = old.incoming /\ q.queue = old.queue
              /\ q.cell = old.cell /\ q.serving = old.serving
          BY <2>1 DEF SessionState
        <4> QED
          BY <4>1, <4>2
      <3>2. CASE ApplyStop(s)
        <4> DEFINE q == [old EXCEPT !.controls = Tail(@), !.stopping = TRUE]
        <4>1. Change(s, q)
          BY <3>2 DEF ApplyStop
        <4>2. /\ q.controls = Tail(old.controls) /\ q.state = old.state /\ q.incoming = old.incoming /\ q.queue = old.queue
              /\ q.cell = old.cell /\ q.serving = old.serving
          BY <2>1 DEF SessionState
        <4> QED
          BY <4>1, <4>2
      <3> QED
        BY <3>1, <3>2
    <2> HIDE DEF old
    <2>3. Keep(new) = Keep(old) /\ Tidy(new)
      BY <2>1, <2>2 DEF Keep, Tidy
    <2>4. Asking(old) => Asking(new)
      BY <2>0, <2>1, <2>2, <1>HeadTaken DEF Asking
    <2>5. /\ UNCHANGED <<sent, request, shell, msg, background, outcomeVars, handling, todo, covered, upto>>
          /\ at' = at \/ (at = "answer" /\ at' = "each")
      BY DEF ApplyRelease, ApplyStop, Answers, loopAndTable
    <2>6. \A m \in MsgId : Open(m)' <=> Open(m)
      BY <2>5 DEF Open
    <2>7. Moved /\ Heard
      BY <2>2, <2>3, <2>4, <2>5, <2>6, <1>SessionLess DEF old
    <2>8. Turn
      <3>1. CASE at' = at
        BY <2>5, <3>1, SameTurn
      <3>2. CASE at = "answer" /\ at' = "each"
        BY <2>5, <3>2, NoTurn DEF Told
      <3> QED
        BY <2>5, <3>1, <3>2
    <2> QED
      BY <2>5, <2>7, <2>8, SameTasks DEF StepKind
  (* A cell opens or closes a route. *)
  <1>CallKind. ASSUME NEW s \in Session, CellOpens(s) \/ CellCloses(s) PROVE StepKind
    <2> USE <1>CallKind
    <2> DEFINE old == session[s]
               new(p) == [old EXCEPT !.phase = p]
    <2>0. PICK p : Change(s, new(p)) /\ UNCHANGED <<loopAndTable, outcomeVars>>
      BY DEF CellOpens, CellCloses
    <2>1. old \in SessionState /\ Tidy(old)
      BY <1>RecordFacts
    <2> HIDE DEF old
    <2>2. /\ new(p).state = old.state /\ new(p).incoming = old.incoming /\ new(p).queue = old.queue
          /\ new(p).controls = old.controls /\ new(p).cell = old.cell /\ new(p).serving = old.serving
      BY <2>1 DEF SessionState
    <2> HIDE DEF new
    <2>3. Keep(new(p)) = Keep(old) /\ Tidy(new(p)) /\ (Asking(old) => Asking(new(p)))
      BY <2>1, <2>2 DEF Keep, Tidy, Asking
    <2> QED
      BY <2>0, <2>3, <1>SessionSame DEF old
  (* An Interrupt aborts the executes that wait and reaches the cell. *)
  <1>ApplyInterruptKind. ASSUME NEW s \in Session, ApplyInterrupt(s) PROVE StepKind
    <2> USE <1>ApplyInterruptKind
    <2> DEFINE old == session[s]
               gone == {m \in old.incoming \cup old.queue : Execute(m)}
               new == [old EXCEPT !.incoming = {}, !.controls = Tail(@), !.queue = (@ \cup old.incoming) \ gone]
    <2>0. /\ old.state = "running" /\ old.serving = NoMsg /\ Change(s, new) /\ UNCHANGED <<loopAndTable, lost>>
          /\ answer' = [m \in MsgId |-> IF m \in gone THEN "aborted" ELSE answer[m]]
          /\ interrupted' = interrupted \cup ({old.cell} \ {NoMsg})
      BY DEF ApplyInterrupt, Alive
    <2>1. old \in SessionState /\ Tidy(old) /\ Keep(old) \subseteq MsgId /\ NoMsg \notin MsgId
      BY <1>RecordFacts
    <2>2. \A m : m \in gone <=> m \in old.incoming \cup old.queue /\ Execute(m)
      OBVIOUS
    <2> HIDE DEF old, gone
    <2>3. /\ new.state = old.state /\ new.incoming = {} /\ new.queue = (old.queue \cup old.incoming) \ gone
          /\ new.cell = old.cell /\ new.serving = NoMsg
      BY <2>0, <2>1 DEF SessionState
    <2> HIDE DEF new
    <2>4. \A m : m \in Keep(new) <=> m \in Keep(old) /\ m \notin gone
      BY <2>0, <2>1, <2>2, <2>3 DEF Keep, Tidy
    <2>5. \A m \in MsgId : Open(m)' <=> Open(m) /\ m \notin gone
      BY <2>0 DEF Open
    <2>6. \A m \in gone : m \in Keep(old)
      BY <2>2 DEF Keep
    <2>7. \A m \in MsgId : Open(m)' <=> Open(m) /\ (m \in Keep(old) => m \in Keep(new))
      BY <2>4, <2>5, <2>6
    <2>8. Tidy(new)
      BY <2>0, <2>1, <2>3 DEF Tidy
    <2>9. \A m \in Keep(new) : Execute(m) => m \in interrupted'
      <3>1. SUFFICES ASSUME NEW m \in Keep(new), Execute(m) PROVE m = old.cell /\ m # NoMsg
        BY <2>0
      <3>2. m \in Keep(old) /\ m \notin old.incoming \cup old.queue
        BY <2>2, <2>4, <3>1
      <3> QED
        BY <2>0, <3>2 DEF Keep
    <2>10. Keep(new) \subseteq Keep(old) /\ interrupted \subseteq interrupted'
      BY <2>0, <2>4
    <2> QED
      BY <2>0, <2>7, <2>8, <2>9, <2>10, <1>SessionKind DEF old
  <1>4. ASSUME NEW s \in Session, Scheduler(s) \/ Cell(s) \/ SessionFails(s) PROVE StepKind
    <2>1. CASE Scheduler(s)
      BY <2>1, <1>DrainKind, <1>ServedKind, <1>EndsKind, <1>StartCellKind, <1>ServeKind, <1>ApplyInterruptKind, <1>ReadKind DEF Scheduler
    <2>2. CASE Cell(s)
      BY <2>2, <1>CallKind, <1>CellEndsKind DEF Cell
    <2>3. CASE SessionFails(s)
      BY <2>3, <1>EndsKind
    <2> QED
      BY <1>4, <2>1, <2>2, <2>3
  <1> QED
    BY <1>4

-----------------------------------------------------------------------------
(* Every step is of one of the kinds. *)
LEMMA Steps == ASSUME IInv, Own, Told, [Next]_vars PROVE StepKind
  BY KernelKinds, SessionKinds DEF Next

(* What was sent stays what it was, and is not opened again. *)
LEMMA Sent ==
  ASSUME IInv, Own, StepKind, NEW m \in MsgId, m <= sent
  PROVE  (Execute(m)' <=> Execute(m)) /\ (Open(m)' => Open(m))
  BY DEF StepKind, Moved, Less, Sends, Hands, Execute, Open

(* What a session keeps it keeps, or it is answered or dropped. *)
LEMMA Stays ==
  ASSUME IInv, Own, StepKind, NEW s \in Session, NEW m \in KeptBy(s)
  PROVE  m \in KeptBy(s)' \/ ~Open(m)'
  <1>0. m \in MsgId /\ m \in Kept
    BY KeepFacts, KeptFacts
  <1>1. CASE Less
    <2>1. m \notin InShell' /\ \A t \in Session : t # s => m \notin KeptBy(t)'
      BY <1>1 DEF Less, Own
    <2>2. m \in Kept' => m \in KeptBy(s)'
      BY <2>1, KeptFacts
    <2> QED
      BY <1>0, <1>1, <2>2 DEF Less
  <1>2. CASE Sends
    BY <1>2 DEF Sends, KeptBy
  <1>3. ASSUME NEW t \in Session, Hands(t) PROVE m \in KeptBy(s)'
    <2>1. CASE s = t
      BY <1>3, <2>1 DEF Hands, KeptBy
    <2>2. CASE s # t
      BY <1>3, <2>2 DEF Hands, KeptBy
    <2> QED
      BY <2>1, <2>2
  <1> QED
    BY <1>1, <1>2, <1>3 DEF StepKind, Moved

(* A session that has or gets an Interrupt for m, or has m interrupted.     *)
LEMMA UnderNext ==
  ASSUME IInv, Own, StepKind, NEW m \in MsgId, m <= sent, Execute(m), Under(m)
  PROVE  Under(m)'
  <1>1. CASE Reached(m)
    <2>1. m \in interrupted => m \in interrupted'
      BY DEF StepKind, Heard
    <2>2. Open(m)' => Open(m)
      BY Sent
    <2> QED
      BY <1>1, <2>1, <2>2 DEF Under, Reached, Open
  <1>2. ASSUME NEW s \in Session, m \in KeptBy(s), InterruptComes(s) \/ ClosedByCell(s) PROVE Under(m)'
    <2>1. CASE ~Open(m)'
      BY <2>1 DEF Under, Reached, Open
    <2>2. CASE m \in KeptBy(s)'
      <3>1. CASE Asks(s)
        <4>1. Asks(s)' \/ m \in interrupted'
          BY <1>2, <2>2, <3>1 DEF StepKind, Heard
        <4> QED
          BY <2>2, <4>1 DEF Under, Reached, InterruptComes, Asks, Asking
      <3>2. ASSUME NEW task \in background, task.shell = s, ~task.interrupt \/ ~task.sent PROVE Under(m)'
        <4>1. PICK new \in background' : /\ new.shell = task.shell /\ new.interrupt = task.interrupt
                                         /\ new.sent => task.sent \/ (task.interrupt => Asks(task.shell)')
          BY <1>2, <3>2 DEF StepKind, Tasks
        <4>2. CASE ~task.interrupt
          <5>1. ClosedByCell(s)'
            BY <3>2, <4>1, <4>2 DEF ClosedByCell
          <5> QED
            BY <2>2, <5>1 DEF Under
        <4>3. CASE task.interrupt /\ ~task.sent
          <5>1. InterruptComes(s)'
            BY <3>2, <4>1, <4>3 DEF InterruptComes, Asks, Asking
          <5> QED
            BY <2>2, <5>1 DEF Under
        <4> QED
          BY <3>2, <4>2, <4>3
      <3> QED
        BY <1>2, <3>1, <3>2 DEF InterruptComes, ClosedByCell, Asks, Asking
    <2> QED
      BY <1>2, <2>1, <2>2, Stays
  <1> QED
    BY <1>1, <1>2 DEF Under

(* Numbers up to what was sent are requests. *)
LEMMA Ranges ==
  ASSUME IInv, NEW n \in 0 .. MaxRequests, n <= sent, NEW m \in 1 .. n
  PROVE  m \in MsgId /\ m <= sent
  BY ShellFacts, Constants, SMTT(30) DEF MsgId

(* A session that keeps a request is in the table, or is being stopped.     *)
LEMMA Found ==
  ASSUME IInv, Own, Told, at = "pending", NEW s \in Session, NEW m \in KeptBy(s), Execute(m)
  PROVE  s \in Mapped \/ Under(m)
  <1>1. Running(s)
    BY EndedKeeps
  <1>2. waiting = NoShell /\ s # NoShell
    BY Constants DEF IInv, Hand
  <1>3. s \in Mapped \/ \E task \in background : task.shell = s
    BY <1>1, <1>2 DEF IInv, NoOrphans
  <1>4. ASSUME NEW task \in background, task.shell = s PROVE Under(m)
    <2>1. CASE task.interrupt /\ task.sent
      BY <1>4, <2>1 DEF Told, Under, Reached, InterruptComes, Asks, Asking
    <2>2. CASE task.interrupt /\ ~task.sent
      BY <1>4, <2>2 DEF Under, InterruptComes
    <2>3. CASE ~task.interrupt
      BY <1>4, <2>3 DEF Under, ClosedByCell
    <2> QED
      BY <2>1, <2>2, <2>3
  <1> QED
    BY <1>3, <1>4

(* The interrupt that is handled reaches every request sent before it. *)
LEMMA ToldNext == ASSUME IInv, Own, Reach, StepKind PROVE Told'
  <1>0. Told /\ upto \in 0 .. MaxRequests /\ upto <= sent
    BY TypeParts DEF IInv, HistoryType, Reach, Past
  <1>1. at' = "answer" => handling' = "release"
    BY DEF StepKind, Turn, PendingRouted, BroadcastDone
  <1>2. ASSUME at' = "each", handling' = "interrupt", NEW m \in 1 .. upto', Execute(m)'
        PROVE  Under(m)' \/ \E s \in todo' : m \in KeptBy(s)'
    <2>0. /\ upto' = upto /\ handling = "interrupt"
          /\ (at = "each" /\ \A s \in todo : s \in todo' \/ Asks(s)') \/ (at = "pending" /\ shell = <<>> /\ todo' = Mapped)
      BY <1>2 DEF StepKind, Turn, PendingRouted, BroadcastDone
    <2>1. m \in MsgId /\ m <= sent
      BY <1>0, <1>2, <2>0, Ranges
    <2>2. Execute(m)
      BY <1>2, <2>1, Sent
    <2>3. CASE Under(m)
      BY <2>1, <2>2, <2>3, UnderNext
    <2>4. ASSUME NEW s \in Session, m \in KeptBy(s), s \in todo' \/ Asks(s)' PROVE Under(m)' \/ \E t \in todo' : m \in KeptBy(t)'
      <3>1. CASE ~Open(m)'
        BY <3>1 DEF Under, Reached, Open
      <3>2. CASE m \in KeptBy(s)'
        BY <2>4, <3>2 DEF Under, InterruptComes, Asks, Asking
      <3> QED
        BY <2>4, <3>1, <3>2, Stays
    <2>5. CASE at = "each" /\ \A s \in todo : s \in todo' \/ Asks(s)'
      <3>1. Under(m) \/ \E s \in todo : m \in KeptBy(s)
        BY <1>0, <1>2, <2>0, <2>2, <2>5 DEF Told
      <3>2. todo \subseteq Session
        BY TypeParts DEF IInv, LoopType
      <3> QED
        BY <2>3, <2>4, <2>5, <3>1, <3>2
    <2>6. CASE at = "pending" /\ shell = <<>> /\ todo' = Mapped
      <3>1. CASE ~Open(m)
        BY <2>3, <3>1 DEF Under, Reached, Open
      <3>2. CASE Open(m)
        <4>1. m \in Kept
          BY <2>1, <3>2 DEF Own
        <4>2. DOMAIN shell = {}
          BY <2>6, SMTT(30)
        <4>3. InShell = {}
          BY <2>6, <4>2 DEF InShell, Own, Queued
        <4>4. PICK s \in Session : m \in KeptBy(s)
          BY <4>1, <4>3, KeptFacts
        <4>5. s \in Mapped \/ Under(m)
          BY <1>0, <2>2, <2>6, <4>4, Found
        <4> QED
          BY <2>3, <2>4, <2>6, <4>4, <4>5
      <3> QED
        BY <3>1, <3>2
    <2> QED
      BY <2>0, <2>5, <2>6
  <1>3. ASSUME NEW task \in background', task.interrupt, task.sent, NEW m \in KeptBy(task.shell)', Execute(m)'
        PROVE  m \in interrupted' \/ Asks(task.shell)'
    <2>1. SUFFICES ASSUME task \in background PROVE m \in interrupted' \/ Asks(task.shell)'
      BY <1>3 DEF StepKind, Tasks
    <2>2. task.shell \in Session
      BY <2>1, TaskFacts DEF BackgroundTask
    <2>3. m \in KeptBy(task.shell)
      BY <1>3, <2>1, <2>2 DEF StepKind, Moved, Less, Sends, Hands, KeptBy
    <2>4. m \in MsgId /\ m <= sent
      BY <2>2, <2>3, KeepFacts, KeptFacts DEF Own
    <2>5. Execute(m)
      BY <1>3, <2>4, Sent
    <2>6. m \in interrupted \/ Asks(task.shell)
      BY <1>0, <1>3, <2>1, <2>3, <2>5 DEF Told
    <2>7. CASE m \in interrupted
      BY <2>7 DEF StepKind, Heard
    <2>8. CASE Asks(task.shell)
      BY <1>3, <2>2, <2>3, <2>5, <2>8 DEF StepKind, Heard
    <2> QED
      BY <2>6, <2>7, <2>8
  <1> QED
    BY <1>1, <1>2, <1>3 DEF Told

(* ... and stays so when it was handled. *)
LEMMA ReachedNext == ASSUME IInv, Own, Reach, StepKind PROVE InterruptReachesSessions'
  <1>0. /\ Told /\ upto \in 0 .. MaxRequests /\ upto <= sent /\ covered \in 0 .. MaxRequests /\ covered <= sent
        /\ InterruptReachesSessions
    BY TypeParts DEF IInv, HistoryType, Reach, Past
  <1>1. SUFFICES ASSUME NEW m \in 1 .. covered', Execute(m)' PROVE Under(m)'
    BY DEF InterruptReachesSessions, Under
  <1>2. SUFFICES m \in MsgId /\ m <= sent /\ (Execute(m) => Under(m))
    BY <1>1, Sent, UnderNext
  <1>3. CASE covered' = covered
    <2>1. m \in MsgId /\ m <= sent
      BY <1>0, <1>1, <1>3, Ranges
    <2> QED
      BY <1>0, <1>1, <1>3, <2>1 DEF InterruptReachesSessions, Under
  <1>4. CASE at = "each" /\ handling = "interrupt" /\ todo = {} /\ covered' = upto
    <2>1. m \in MsgId /\ m <= sent
      BY <1>0, <1>1, <1>4, Ranges
    <2> QED
      BY <1>0, <1>1, <1>4, <2>1 DEF Told
  <1>5. covered' = covered \/ (at = "each" /\ handling = "interrupt" /\ todo = {} /\ covered' = upto)
    <2>1. CASE PendingRouted
      BY <2>1 DEF PendingRouted
    <2>2. CASE BroadcastDone
      BY <2>2 DEF BroadcastDone
    <2> QED
      BY <2>1, <2>2 DEF StepKind, Turn
  <1> QED
    BY <1>3, <1>4, <1>5

-----------------------------------------------------------------------------
(* Interrupts speak of what was sent before. *)
PastKind ==
  /\ sent' = sent \/ sent' = sent + 1
  /\ covered' = covered \/ covered' = upto
  /\ upto' = upto \/ (control # <<>> /\ upto' = Head(control).upto)
  /\ \/ control' = control \/ control' = <<>>
     \/ control # <<>> /\ control' = Tail(control)
     \/ \E type, id : control' = Append(control, [type |-> type, id |-> id, upto |-> sent])

(* How the numbers in interrupts change. *)
LEMMA PastSteps == ASSUME [Next]_vars PROVE PastKind
  <1>1. CASE Client
    BY <1>1 DEF Client, Send, SendControl, PastKind
  <1>2. CASE MainLoop
    <2>1. CASE TakeRequest \/ RouteCreates \/ RouteDelivers \/ RouteRefuses \/ Exit
      BY <2>1 DEF TakeRequest, RouteCreates, RouteDelivers, RouteRefuses, Routed, Exit, PastKind
    <2>2. CASE FailureReported \/ Terminated \/ SendFails \/ \E id \in DOMAIN shells : Reap(id)
      BY <2>2 DEF FailureReported, Terminated, SendFails, Reap, PastKind
    <2>3. CASE OtherRequest \/ ShutdownRequest \/ BroadcastRequest \/ DeleteRequest \/ CreateRequest
      <3>1. control # <<>> /\ control' = Tail(control) /\ UNCHANGED <<sent, covered>>
        BY <2>3 DEF OtherRequest, ShutdownRequest, BroadcastRequest, DeleteRequest, CreateRequest, TakeControl
      <3>2. upto' = upto \/ upto' = Head(control).upto
        BY <2>3 DEF OtherRequest, ShutdownRequest, BroadcastRequest, DeleteRequest, CreateRequest
      <3> QED
        BY <3>1, <3>2 DEF PastKind
    <2>4. CASE OpenRefused \/ CloseRefused \/ CloseRoute \/ OpenRoute
      BY <2>4 DEF OpenRefused, CloseRefused, CloseRoute, OpenRoute, Commanded, PastKind
    <2>5. CASE Interrupted \/ PendingRouted \/ BroadcastDone \/ Joined
      BY <2>5 DEF Interrupted, PendingRouted, BroadcastDone, Joined, PastKind
    <2>6. CASE (\E s \in todo : SendToShell(s)) \/ \E id \in DOMAIN shells : StopNext(id)
      BY <2>6 DEF SendToShell, StopNext, PastKind
    <2> QED
      BY <1>2, <2>1, <2>2, <2>3, <2>4, <2>5, <2>6 DEF MainLoop
  <1>3. CASE Background
    BY <1>3 DEF Background, BackgroundStops, BackgroundDone, PastKind
  <1>4. ASSUME NEW s \in Session, Scheduler(s) \/ Cell(s) \/ SessionFails(s) PROVE PastKind
    <2>1. UNCHANGED <<sent, covered, upto, control>>
      BY <1>4 DEF Scheduler, Drain, Served, Stop, StartCell, Serve, ShutDown, ApplyInterrupt, ApplyRelease, ApplyStop,
                  Cell, CellOpens, CellCloses, CellEnds, SessionFails, End, loopAndTable
    <2> QED
      BY <2>1 DEF PastKind
  <1>5. CASE UNCHANGED vars
    BY <1>5 DEF vars, PastKind
  <1> QED
    BY <1>1, <1>2, <1>3, <1>4, <1>5 DEF Next

(* They stay numbers of requests sent before. *)
LEMMA PastNext == ASSUME IInv, Past, PastKind PROVE Past'
  <1>0. /\ sent \in Nat /\ upto \in Nat /\ covered \in Nat /\ control \in Seq(ControlMessage)
        /\ \A c \in ControlMessage : c.upto \in Nat
    BY TypeParts, Constants, SMTT(30) DEF IInv, ClientType, HistoryType, ChannelType, ControlMessage
  <1>1. sent' \in Nat /\ sent <= sent' /\ \A n \in Nat : n <= sent => n <= sent'
    BY <1>0, SMTT(30) DEF PastKind
  <1>2. covered' <= sent'
    BY <1>0, <1>1 DEF PastKind, Past
  <1>3. upto' <= sent'
    <2>1. control # <<>> => 1 \in DOMAIN control /\ Head(control) = control[1] /\ control[1] \in ControlMessage
      BY <1>0, SMTT(30)
    <2> QED
      BY <1>0, <1>1, <2>1 DEF PastKind, Past
  <1>4. \A n \in DOMAIN control : control[n].upto \in Nat /\ control[n].upto <= sent'
    <2>1. \A n \in DOMAIN control : control[n] \in ControlMessage
      BY <1>0, SMTT(30)
    <2> QED
      BY <1>0, <1>1, <2>1 DEF Past
  <1>5. \A n \in DOMAIN control' : control'[n].upto <= sent'
    <2>1. CASE control' = control
      BY <1>4, <2>1
    <2>2. CASE control' = <<>>
      BY <2>2, SMTT(30)
    <2>3. CASE control # <<>> /\ control' = Tail(control)
      <3>1. \A n \in DOMAIN control' : n + 1 \in DOMAIN control /\ control'[n] = control[n + 1]
        BY <1>0, <2>3, SMTT(30)
      <3> QED
        BY <1>4, <3>1
    <2>4. ASSUME NEW type, NEW id, control' = Append(control, [type |-> type, id |-> id, upto |-> sent])
          PROVE  \A n \in DOMAIN control' : control'[n].upto <= sent'
      <3> DEFINE new == [type |-> type, id |-> id, upto |-> sent]
      <3>1. new.upto = sent
        OBVIOUS
      <3> HIDE DEF new
      <3>2. \A n \in DOMAIN control' : (n \in DOMAIN control /\ control'[n] = control[n]) \/ control'[n] = new
        <4>1. control' = Append(control, new)
          BY <2>4 DEF new
        <4> QED
          BY <1>0, <4>1, SMTT(30)
      <3> QED
        BY <1>1, <1>4, <3>1, <3>2
    <2> QED
      BY <2>1, <2>2, <2>3, <2>4 DEF PastKind
  <1> QED
    BY <1>2, <1>3, <1>5 DEF Past

-----------------------------------------------------------------------------
(* The strengthening holds when the kernel starts, ... *)
LEMMA InitDeep == Init => Own /\ Reach
  <1> SUFFICES ASSUME Init PROVE Own /\ Reach
    OBVIOUS
  <1>0. /\ sent = 0 /\ shell = <<>> /\ control = <<>> /\ at = "select" /\ msg = NoMsg /\ background = {}
        /\ session = [s \in Session |-> IF s = 1 THEN NewSession ELSE NoSession]
        /\ answer = [m \in MsgId |-> "none"] /\ lost = {} /\ covered = 0 /\ upto = 0
    BY DEF Init
  <1>1. DOMAIN shell = {} /\ DOMAIN control = {}
    BY <1>0, SMTT(30)
  <1>2. \A s \in Session : /\ session[s].incoming = {} /\ session[s].queue = {}
                           /\ session[s].serving = NoMsg /\ session[s].cell = NoMsg
    BY <1>0 DEF NewSession, NoSession
  <1>3. \A s \in Session : KeptBy(s) = {} /\ Keep(session[s]) = {} /\ Tidy(session[s])
    BY <1>2 DEF KeptBy, Keep, Tidy
  <1>4. InShell = {} /\ Queued
    BY <1>0, <1>1 DEF InShell, Queued
  <1>5. \A m \in MsgId : Open(m) /\ m \notin Kept /\ ~(m <= sent)
    <2>1. \A m \in MsgId : ~(m <= sent)
      BY <1>0, Constants, SMTT(30) DEF MsgId
    <2>2. \A m \in MsgId : m \notin Kept
      BY <1>3, <1>4 DEF Kept
    <2> QED
      BY <1>0, <2>1, <2>2 DEF Open
  <1>6. Own
    BY <1>3, <1>4, <1>5 DEF Own
  <1>7. 0 <= 0 /\ 1 .. 0 = {}
    BY SMTT(30)
  <1>8. Reach
    BY <1>0, <1>1, <1>7 DEF Reach, Past, Told, InterruptReachesSessions
  <1> QED
    BY <1>6, <1>8

(* ... every step keeps it, ... *)
LEMMA DeepNext == IInv /\ Own /\ Reach /\ [Next]_vars => Own' /\ Reach'
  <1> SUFFICES ASSUME IInv, Own, Reach, [Next]_vars PROVE Own' /\ Reach'
    OBVIOUS
  <1>1. StepKind
    BY Steps DEF Reach
  <1>2. Past'
    BY PastSteps, PastNext DEF Reach
  <1> QED
    BY <1>1, <1>2, OwnNext, ToldNext, ReachedNext DEF Reach

(* ... so it is an invariant. *)
LEMMA Deep == Spec => [](Own /\ Reach)
  BY Invariant, InitDeep, DeepNext, PTL DEF Spec

(* A request is lost sight of nowhere (Accounted): one that was sent is    *)
(* with the main loop, with exactly one session, answered, or dropped with *)
(* its session or with the kernel (route_shell in src/src/engine.rs).      *)
THEOREM NothingLost == Spec => []Accounted
  <1>1. IInv /\ Own => Accounted
    <2> SUFFICES ASSUME IInv, Own PROVE Accounted
      OBVIOUS
    <2>1. ASSUME NEW m \in 1 .. sent PROVE (m \in Kept) <=> Open(m)
      <3>1. sent \in 0 .. MaxRequests /\ sent <= sent
        BY TypeParts, Constants, SMTT(30) DEF IInv, ClientType
      <3>2. m \in MsgId /\ m <= sent
        BY <3>1, Ranges
      <3> QED
        BY <3>2 DEF Own
    <2>2. ASSUME NEW s \in Session, NEW t \in Session, s # t PROVE KeptBy(s) \cap (KeptBy(t) \cup InShell) = {}
      <3>1. KeptBy(s) \cap KeptBy(t) = {} /\ KeptBy(s) \cap InShell = {}
        BY <2>2 DEF Own
      <3> QED
        BY <3>1
    <2> QED
      BY <2>1, <2>2 DEF Accounted, Open
  <1> QED
    BY <1>1, Invariant, Deep, PTL

(* An interrupt_request that was served has reached every execute sent     *)
(* before it, or is on its way (InterruptReachesSessions): what is in the  *)
(* shell channel is routed before the sessions get their Interrupt         *)
(* (route_pending_shells and interrupt_shells in src/src/engine.rs).       *)
THEOREM InterruptsReach == Spec => []InterruptReachesSessions
  BY Deep, PTL DEF Reach

=============================================================================
