------------------------------- MODULE Stdin -------------------------------
(***************************************************************************)
(* Prompts of running cells: Stdin in src/src/engine.rs, and the table of  *)
(* stdin connections it sends through, RouterPeers and router_peer in      *)
(* src/src/transport.rs.  Cells of several sessions ask at the same time,  *)
(* clients connect, answer and disconnect at any moment, and executions    *)
(* are interrupted.  A message's payload, its encoding and its signature   *)
(* are left out; a message that cannot be decoded ends its connection.     *)
(* The kind of error that a lost client gives is not told apart.           *)
(***************************************************************************)
EXTENDS Naturals, Sequences, FiniteSets

CONSTANTS
  Clients,          \* ZMTP identities, shared by a client's channels
  Askers,           \* the clients whose cells ask for input
  Cells,            \* sessions, each running one cell at a time
  MaxPrompts,       \* bound: input_request messages made
  MaxConnections,   \* bound: stdin connections accepted
  MaxReplies        \* bound: messages that clients send on them

Prompt == 1 .. MaxPrompts
Connection == 1 .. MaxConnections
NoPrompt == 0
NoPeer == 0
NoClient == "none"

(* `parent` is the prompt whose msg_id the message's parent header names,  *)
(* NoPrompt when it names none.                                            *)
Message == [type : {"input_reply"}, client : Clients, parent : Prompt \cup {NoPrompt}]
             \cup [type : {"other"}, client : Clients, parent : {NoPrompt}]
Nothing == [type |-> "nothing"]

ASSUME StdinAssumption ==
  /\ Askers \subseteq Clients /\ Cells # {}
  /\ MaxPrompts \in Nat /\ MaxConnections \in Nat /\ MaxReplies \in Nat

VARIABLES
  conn,          \* the connections and their router_peer tasks
  peers,         \* RouterPeers::peers, NoPeer for an identity not in it
  incoming,      \* the channel from the router_peer tasks
  pending,       \* the keys of Stdin::pending
  made, asker,   \* the prompts made, and the identity each is for
  request,       \* the cells and their calls of Stdin::request
  interrupted,   \* cells whose ExecutionInterrupt is requested
  reply,         \* what was sent on each prompt's oneshot `complete`
  shown,         \* prompts written to a connection
  budget,        \* messages that clients may still send
  newest         \* history: the last connection entered for an identity,
                 \* until its task has ended

netVars  == <<conn, peers, newest>>
mailVars == <<incoming, budget>>
askVars  == <<made, asker, request, interrupted>>
vars == <<netVars, mailVars, askVars, pending, reply, shown>>

Idle == [at |-> "idle", prompt |-> NoPrompt, peer |-> NoPeer, told |-> FALSE, result |-> "none"]

(* The select of Stdin::request is in one of these places. *)
Waiting == {"registered", "missed", "parked"}
Sending == {"send", "sent", "reply"}
Asking == Waiting \cup Sending

At(c) == request[c].at
(* The receiver of `outgoing` lives until the select of router_peer ends. *)
Writable(k) == conn[k].state \in {"inserted", "serving"}
Closed(k) == conn[k].state \in {"closed", "gone"}

Init ==
  /\ conn = [k \in Connection |-> [client |-> NoClient, state |-> "none", outgoing |-> <<>>]]
  /\ peers = [i \in Clients |-> NoPeer]
  /\ newest = [i \in Clients |-> NoPeer]
  /\ incoming = <<>> /\ budget = MaxReplies
  /\ pending = {} /\ made = 0 /\ asker = <<>>
  /\ request = [c \in Cells |-> Idle]
  /\ interrupted = {}
  /\ reply = [p \in Prompt |-> Nothing]
  /\ shown = {}

-----------------------------------------------------------------------------
(* A connection: the task router_peer. *)

(* The handshake is done and the ReplySink made. *)
Connect(k, i) ==
  /\ conn[k].state = "none"
  /\ \A j \in 1 .. k - 1 : conn[j].state # "none"
  /\ conn' = [conn EXCEPT ![k].client = i, ![k].state = "connected"]
  /\ UNCHANGED <<peers, newest, mailVars, askVars, pending, reply, shown>>

(* RouterPeers::insert, up to the release of the lock. *)
Insert(k) ==
  /\ conn[k].state = "connected"
  /\ conn' = [conn EXCEPT ![k].state = "inserted"]
  /\ peers' = [peers EXCEPT ![conn[k].client] = k]
  /\ newest' = [newest EXCEPT ![conn[k].client] = k]
  /\ UNCHANGED <<mailVars, askVars, pending, reply, shown>>

(* notify_waiters wakes whoever has enabled its Notified by now. *)
Woken_Parked == {c \in Cells : At(c) = "parked"}
Woken == {c \in Cells : At(c) \in Waiting}

NotifyWaiters(k) ==
  /\ conn[k].state = "inserted"
  /\ conn' = [conn EXCEPT ![k].state = "serving"]
  /\ request' = [c \in Cells |-> [request[c] EXCEPT !.told = @ \/ c \in Woken]]
  /\ UNCHANGED <<peers, newest, mailVars, made, asker, interrupted, pending, reply, shown>>

(* writer_loop: the frames of one SendRequest are written. *)
Write(k) ==
  /\ conn[k].state = "serving" /\ conn[k].outgoing # <<>>
  /\ shown' = shown \cup {Head(conn[k].outgoing)}
  /\ conn' = [conn EXCEPT ![k].outgoing = Tail(@)]
  /\ UNCHANGED <<peers, newest, mailVars, askVars, pending, reply>>

(* The reader passes a message on.  Clients name prompts they were shown.  *)
Read(k, m) ==
  /\ conn[k].state = "serving" /\ budget > 0
  /\ m.client = conn[k].client
  /\ m.parent # NoPrompt => m.parent \in shown /\ asker[m.parent] = m.client
  /\ incoming' = Append(incoming, m)
  /\ budget' = budget - 1
  /\ UNCHANGED <<netVars, askVars, pending, reply, shown>>

(* Reading or writing fails, or a frame is refused: the select ends and    *)
(* what is left in `outgoing` is dropped.                                  *)
End(k) ==
  /\ conn[k].state = "serving"
  /\ conn' = [conn EXCEPT ![k].state = "ended", ![k].outgoing = <<>>]
  /\ UNCHANGED <<peers, newest, mailVars, askVars, pending, reply, shown>>

(* closed.send_replace *)
Close(k) ==
  /\ conn[k].state = "ended"
  /\ conn' = [conn EXCEPT ![k].state = "closed"]
  /\ UNCHANGED <<peers, newest, mailVars, askVars, pending, reply, shown>>

(* RouterPeers::remove leaves a newer connection of the identity alone. *)
Removes_Any(k) == TRUE
Removes(k) == peers[conn[k].client] = k

Remove(k) ==
  /\ conn[k].state = "closed"
  /\ conn' = [conn EXCEPT ![k].state = "gone"]
  /\ peers' = IF Removes(k) THEN [peers EXCEPT ![conn[k].client] = NoPeer] ELSE peers
  /\ newest' = IF newest[conn[k].client] = k THEN [newest EXCEPT ![conn[k].client] = NoPeer] ELSE newest
  /\ UNCHANGED <<mailVars, askVars, pending, reply, shown>>

-----------------------------------------------------------------------------
(* The task of Stdin::new: replies. *)

(* The prompt named by the parent header, or else any prompt of the        *)
(* identity, in the order of a HashMap.                                    *)
Keys_AnyClient(m) == IF m.parent \in pending THEN {m.parent} ELSE pending
Keys_ByClient(m) == {p \in pending : asker[p] = m.client}
Keys(m) == IF m.parent \in pending THEN {m.parent} ELSE {p \in pending : asker[p] = m.client}

Answerable(m) == m.type = "input_reply" /\ Keys(m) # {}

Ignore ==
  /\ incoming # <<>> /\ ~Answerable(Head(incoming))
  /\ incoming' = Tail(incoming)
  /\ UNCHANGED <<netVars, budget, askVars, pending, reply, shown>>

Answer(p) ==
  /\ incoming # <<>> /\ Answerable(Head(incoming))
  /\ p \in Keys(Head(incoming))
  /\ incoming' = Tail(incoming)
  /\ pending' = pending \ {p}
  /\ reply' = [reply EXCEPT ![p] = Head(incoming)]
  /\ UNCHANGED <<netVars, budget, askVars, shown>>

-----------------------------------------------------------------------------
(* A cell: ExecutionContext::input, and Stdin::request in its pump. *)

(* message.msg_id() *)
NewId == made + 1

(* The check of input(), before it sends ContextMessage::Input. *)
MayAsk(c) == At(c) = "idle" /\ c \notin interrupted

(* input() passes its check; the pump of its execution takes the message   *)
(* up, a fresh msg_id enters `pending`, and RouterPeers::wait enables its  *)
(* Notified.                                                               *)
Request(c, i) ==
  /\ MayAsk(c) /\ made < MaxPrompts
  /\ made' = made + 1
  /\ asker' = Append(asker, i)
  /\ pending' = pending \cup {NewId}
  /\ request' = [request EXCEPT ![c].at = "registered", ![c].prompt = NewId]
  /\ UNCHANGED <<netVars, mailVars, interrupted, reply, shown>>

(* The selects are biased: a step of the inner future is taken only when   *)
(* the execution is not cancelled and its peer not closed.                 *)
Polls(c) == c \notin interrupted
PollsPeer(c) == Polls(c) /\ ~Closed(request[c].peer)

Goes(c, place) == request' = [request EXCEPT ![c].at = place]
Ends(c, kind) == request' = [request EXCEPT ![c].at = "remove", ![c].result = kind]
OnlyRequest == UNCHANGED <<netVars, mailVars, made, asker, interrupted, pending, reply, shown>>

(* RouterPeers::wait: the look-up under the lock. *)
LookUp(c) ==
  LET k == peers[asker[request[c].prompt]] IN
  /\ At(c) = "registered" /\ Polls(c)
  /\ request' = [request EXCEPT ![c].at = IF k = NoPeer THEN "missed" ELSE "send", ![c].peer = k,
                               ![c].told = @ /\ k = NoPeer]
  /\ OnlyRequest

(* notified.await, which is over once notified: the loop goes round with a *)
(* new Notified.                                                           *)
Park(c) ==
  /\ At(c) = "missed" /\ Polls(c)
  /\ Goes(c, "parked")
  /\ OnlyRequest

Wake(c) ==
  /\ At(c) = "parked" /\ Polls(c) /\ request[c].told
  /\ request' = [request EXCEPT ![c].at = "registered", ![c].told = FALSE]
  /\ OnlyRequest

(* ReplySink::send: the SendRequest enters the channel, if it is open. *)
Send(c) ==
  LET k == request[c].peer IN
  /\ At(c) = "send" /\ PollsPeer(c) /\ Writable(k)
  /\ Goes(c, "sent")
  /\ conn' = [conn EXCEPT ![k].outgoing = Append(@, request[c].prompt)]
  /\ UNCHANGED <<peers, newest, mailVars, made, asker, interrupted, pending, reply, shown>>

Sent(c) ==
  /\ At(c) = "sent" /\ PollsPeer(c) /\ request[c].prompt \in shown
  /\ Goes(c, "reply")
  /\ OnlyRequest

(* The write fails, or the channel or the request in it is dropped before  *)
(* the sink closes.                                                        *)
SendFails(c) ==
  /\ At(c) \in {"send", "sent"} /\ PollsPeer(c)
  /\ ~Writable(request[c].peer) /\ request[c].prompt \notin shown
  /\ Ends(c, "lost")
  /\ OnlyRequest

(* `complete` was used: result.await gives the value. *)
Replied(c) ==
  /\ At(c) = "reply" /\ PollsPeer(c) /\ reply[request[c].prompt] # Nothing
  /\ Ends(c, "ok")
  /\ OnlyRequest

(* The places where each select looks for the end of its peer and of its   *)
(* execution.                                                              *)
Watched_Sending == Sending
Watched == Asking
PeerWatched == Sending

Cancelled(c) ==
  /\ At(c) \in Watched /\ c \in interrupted
  /\ Ends(c, "Interrupted")
  /\ OnlyRequest

PeerClosed(c) ==
  /\ At(c) \in PeerWatched /\ Polls(c) /\ Closed(request[c].peer)
  /\ Ends(c, "lost")
  /\ OnlyRequest

(* The prompt leaves `pending`, whatever the result, input() returns and   *)
(* the oneshot is gone.                                                    *)
Left_IfUnanswered(c) == IF request[c].result = "Interrupted" THEN pending ELSE pending \ {request[c].prompt}
Left(c) == pending \ {request[c].prompt}

Return(c) ==
  /\ At(c) = "remove"
  /\ pending' = Left(c)
  /\ reply' = [reply EXCEPT ![request[c].prompt] = Nothing]
  /\ request' = [request EXCEPT ![c] = Idle]
  /\ UNCHANGED <<netVars, mailVars, made, asker, interrupted, shown>>

(* ExecutionInterrupt::request *)
Interrupt(c) ==
  /\ c \notin interrupted /\ At(c) # "idle"
  /\ interrupted' = interrupted \cup {c}
  /\ UNCHANGED <<netVars, mailVars, made, asker, request, pending, reply, shown>>

(* The session goes on with its next cell, which has its own interrupt. *)
NextCell(c) ==
  /\ At(c) = "idle" /\ c \in interrupted
  /\ interrupted' = interrupted \ {c}
  /\ UNCHANGED <<netVars, mailVars, made, asker, request, pending, reply, shown>>

-----------------------------------------------------------------------------
PeerTask(k) == Insert(k) \/ NotifyWaiters(k) \/ Write(k) \/ Close(k) \/ Remove(k)
ReplyTask == Ignore \/ \E p \in Prompt : Answer(p)
Pump(c) ==
  \/ LookUp(c) \/ Park(c) \/ Wake(c) \/ Send(c) \/ Sent(c) \/ SendFails(c)
  \/ Replied(c) \/ Cancelled(c) \/ PeerClosed(c) \/ Return(c)

Next ==
  \/ \E k \in Connection :
       \/ PeerTask(k)
       \/ \E i \in Clients : Connect(k, i)
       \/ \E m \in Message : Read(k, m)
       \/ End(k)
  \/ ReplyTask
  \/ \E c \in Cells : Pump(c) \/ Interrupt(c) \/ NextCell(c) \/ \E i \in Askers : Request(c, i)

Spec == Init /\ [][Next]_vars

(* The runtime polls every task that can go on; clients, cells and         *)
(* interrupts owe nothing.                                                 *)
FairSpec ==
  /\ Spec
  /\ \A k \in Connection : WF_vars(PeerTask(k))
  /\ WF_vars(ReplyTask)
  /\ \A c \in Cells : WF_vars(Pump(c))

-----------------------------------------------------------------------------
(* The state of Stdin, of the connections and of the calls. *)
TypeOK ==
  /\ conn \in [Connection -> [client : Clients \cup {NoClient}, outgoing : Seq(Prompt),
                              state : {"none", "connected", "inserted", "serving", "ended", "closed", "gone"}]]
  /\ peers \in [Clients -> Connection \cup {NoPeer}] /\ newest \in [Clients -> Connection \cup {NoPeer}]
  /\ incoming \in Seq(Message) /\ budget \in 0 .. MaxReplies
  /\ made \in 0 .. MaxPrompts /\ asker \in [1 .. made -> Askers]
  /\ pending \subseteq 1 .. made /\ shown \subseteq 1 .. made
  /\ request \in [Cells -> [at : Asking \cup {"idle", "remove"}, prompt : 0 .. made,
                            peer : Connection \cup {NoPeer}, told : BOOLEAN,
                            result : {"none", "ok", "lost", "Interrupted"}]]
  /\ interrupted \subseteq Cells
  /\ reply \in [Prompt -> Message \cup {Nothing}]

(* A client that reconnects is found under its identity until its newest   *)
(* connection ends: the removal of the old connection, which may run after *)
(* the new one entered, does not take the new one out.                     *)
NewestFound ==
  \A i \in Clients : newest[i] # NoPeer => peers[i] = newest[i]

(* Only prompts that some cell still waits for are in `pending`: a prompt  *)
(* that was interrupted or lost its client leaves nothing behind that      *)
(* would take the reply to a later prompt.                                 *)
PendingInProgress ==
  \A p \in pending : \E c \in Cells : request[c].prompt = p /\ At(c) \in Asking \cup {"remove"}

(* A cell gets only what the client that sent the cell typed, however the  *)
(* replies of clients without parent headers are matched.                  *)
OwnClient ==
  \A c \in Cells : request[c].result = "ok" => reply[request[c].prompt].client = asker[request[c].prompt]

(* A reply that names a prompt still waiting answers that prompt and no    *)
(* other of the same client.                                               *)
NamedFirst ==
  [][\A p \in Prompt : reply'[p] \notin {reply[p], Nothing} => reply'[p].parent = p \/ reply'[p].parent \notin pending]_vars

(* An input() that is interrupted, or whose client has disconnected,       *)
(* returns, wherever it waits: for the stdin peer to connect, for the      *)
(* prompt to be sent or for the reply.                                     *)
Disturbed(c) ==
  \/ At(c) # "idle" /\ c \in interrupted
  \/ At(c) \in Sending /\ Closed(request[c].peer)
DisturbedInputEnds == \A c \in Cells : Disturbed(c) ~> At(c) = "idle"

(* A prompt waiting for its client's stdin connection goes on when that    *)
(* connects: the wake-up is not lost between the look-up and the wait.     *)
Reachable(c) == At(c) \in Waiting /\ peers[asker[request[c].prompt]] # NoPeer
PeerNoticed == \A c \in Cells : Reachable(c) ~> ~Reachable(c)
=============================================================================
