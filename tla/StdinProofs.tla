---------------------------- MODULE StdinProofs ----------------------------
(***************************************************************************)
(* Proofs about prompts and the table of stdin connections, for any number *)
(* of clients, cells, prompts, connections and messages.                   *)
(***************************************************************************)
EXTENDS Stdin, TLAPS

(* Leaves are given 30 seconds of the SMT solver; those it does not find  *)
(* name Zenon.                                                             *)
USE SMTT(30)

(* Two cells wait for different prompts, and a result has its reply. *)
Prompts ==
  /\ \A c \in Cells : (At(c) # "idle") <=> (request[c].prompt # NoPrompt)
  /\ \A c, d \in Cells : c # d /\ request[c].prompt # NoPrompt => request[c].prompt # request[d].prompt
  /\ \A c \in Cells : request[c].result = "ok" => At(c) = "remove" /\ reply[request[c].prompt] # Nothing

(* Whatever is on its way comes from the client it is for. *)
Senders ==
  /\ \A k \in DOMAIN incoming : incoming[k].parent # NoPrompt =>
       incoming[k].parent \in 1 .. made /\ asker[incoming[k].parent] = incoming[k].client
  /\ \A p \in Prompt : reply[p] # Nothing => p \in 1 .. made /\ reply[p].client = asker[p]

Tables ==
  /\ \A k \in Connection : conn[k].state # "none" => conn[k].client \in Clients
  /\ \A k \in Connection : \A n \in DOMAIN conn[k].outgoing : conn[k].outgoing[n] \in 1 .. made
  /\ \A c \in Cells : At(c) \in Sending => request[c].peer # NoPeer

IInv == TypeOK /\ Prompts /\ Senders /\ Tables /\ NewestFound /\ PendingInProgress

(* The records of `request` and of `conn`. *)
Calls == [at : Asking \cup {"idle", "remove"}, prompt : 0 .. made, peer : Connection \cup {NoPeer}, told : BOOLEAN,
          result : {"none", "ok", "lost", "Interrupted"}]
Conns == [client : Clients \cup {NoClient}, outgoing : Seq(Prompt),
          state : {"none", "connected", "inserted", "serving", "ended", "closed", "gone"}]

USE DEF netVars, mailVars, askVars, At, Waiting, Sending, Asking, NoPrompt, NoPeer

-----------------------------------------------------------------------------
(* A message that has come is told from none. *)
LEMMA SomeMessage == \A m \in Message : m # Nothing
  BY DEF Message, Nothing

(* The invariant holds before the first connection. *)
LEMMA InitInv == Init => IInv
  <1> SUFFICES ASSUME Init PROVE IInv
    OBVIOUS
  <1>1. TypeOK
    <2>1. request \in [Cells -> Calls]
      BY DEF Init, Idle, Calls
    <2>2. conn \in [Connection -> Conns]
      BY DEF Init, Conns
    <2>3. asker \in [1 .. made -> Askers] /\ incoming \in Seq(Message)
      BY DEF Init
    <2> QED
      BY <2>1, <2>2, <2>3, StdinAssumption DEF Init, TypeOK, Calls, Conns
  <1>2. Prompts /\ Senders
    BY DEF Init, Idle, Prompts, Senders
  <1>3. Tables /\ NewestFound /\ PendingInProgress
    BY DEF Init, Idle, Tables, NewestFound, PendingInProgress
  <1> QED
    BY <1>1, <1>2, <1>3 DEF IInv

-----------------------------------------------------------------------------
(* The pump of a cell. *)

(* A step of one call that keeps its prompt and does not end it. *)
LEMMA MoveInv ==
  ASSUME IInv, OnlyRequest, NEW c \in Cells,
         request' \in [Cells -> Calls],
         \A d \in Cells : d # c => request'[d] = request[d],
         At(c) # "idle", request'[c].at # "idle", request'[c].prompt = request[c].prompt,
         request'[c].result = "ok" => request'[c].at = "remove" /\ reply[request[c].prompt] # Nothing,
         request'[c].at \in Sending => request'[c].peer # NoPeer
  PROVE  IInv'
  <1>0. /\ conn' = conn /\ peers' = peers /\ newest' = newest /\ incoming' = incoming /\ budget' = budget
        /\ made' = made /\ asker' = asker /\ interrupted' = interrupted /\ pending' = pending /\ reply' = reply
        /\ shown' = shown
    BY DEF OnlyRequest
  <1>1. TypeOK'
    BY <1>0 DEF IInv, TypeOK, Calls
  <1>2. \A d \in Cells : request'[d].prompt = request[d].prompt /\ ((At(d) # "idle")' <=> At(d) # "idle")
    BY <1>1
  <1>3. Prompts'
    BY <1>0, <1>2 DEF IInv, Prompts
  <1>4. Senders' /\ NewestFound'
    BY <1>0 DEF IInv, Senders, NewestFound
  <1>5. Tables'
    BY <1>0 DEF IInv, Tables
  <1>6. PendingInProgress'
    <2>1. ASSUME NEW p \in pending PROVE \E d \in Cells : request'[d].prompt = p /\ request'[d].at \in Asking \cup {"remove"}
      <3>1. PICK d \in Cells : request[d].prompt = p /\ At(d) \in Asking \cup {"remove"}
        BY DEF IInv, PendingInProgress
      <3>2. request'[d] \in Calls /\ request'[d].at # "idle"
        BY <1>2, <3>1
      <3> QED
        BY <1>2, <3>1, <3>2 DEF Calls
    <2> QED
      BY <1>0, <2>1 DEF PendingInProgress
  <1> QED
    BY <1>1, <1>3, <1>4, <1>5, <1>6 DEF IInv

(* The look-up finds the peer or not. *)
LEMMA LookUpInv ==
  ASSUME IInv, NEW c \in Cells, LookUp(c)
  PROVE  IInv'
  <1> DEFINE k == peers[asker[request[c].prompt]]
  <1>0. /\ At(c) = "registered" /\ OnlyRequest
        /\ request' = [request EXCEPT ![c].at = IF k = NoPeer THEN "missed" ELSE "send", ![c].peer = k,
                                      ![c].told = @ /\ k = NoPeer]
        /\ request \in [Cells -> Calls]
    BY DEF LookUp, IInv, TypeOK, Calls
  <1>1. k \in Connection \cup {NoPeer}
    <2>1. request[c].prompt \in 1 .. made
      BY <1>0 DEF IInv, TypeOK, Prompts
    <2> QED
      BY <2>1, StdinAssumption DEF IInv, TypeOK
  <1>2. request' \in [Cells -> Calls]
    <2> DEFINE a == IF k = NoPeer THEN "missed" ELSE "send"
    <2> DEFINE t == request[c].told /\ k = NoPeer
    <2>1. t \in BOOLEAN /\ a \in Asking
      OBVIOUS
    <2>2. request' = [request EXCEPT ![c].at = a, ![c].peer = k, ![c].told = t]
      BY <1>0
    <2>3. request \in [Cells -> Calls]
      BY <1>0
    <2> HIDE DEF k, a, t
    <2>4. [request[c] EXCEPT !.at = a, !.peer = k, !.told = t] \in Calls
      BY <1>1, <2>1, <2>3, ZenonT(30) DEF Calls
    <2> QED
      BY <2>2, <2>3, <2>4
  <1>3. /\ request'[c].at = (IF k = NoPeer THEN "missed" ELSE "send") /\ request'[c].peer = k
        /\ request'[c].prompt = request[c].prompt /\ request'[c].result = request[c].result
        /\ \A d \in Cells : d # c => request'[d] = request[d]
    BY <1>0 DEF Calls
  <1>4. request'[c].result # "ok"
    BY <1>0, <1>3 DEF IInv, Prompts
  <1>5. request'[c].at # "idle" /\ (request'[c].at \in Sending => request'[c].peer # NoPeer)
    BY <1>3
  <1> HIDE DEF k
  <1> QED
    BY <1>0, <1>2, <1>3, <1>4, <1>5, MoveInv

(* The call waits to be notified. *)
LEMMA ParkInv ==
  ASSUME IInv, NEW c \in Cells, Park(c)
  PROVE  IInv'
  <1>0. /\ At(c) = "missed" /\ OnlyRequest
        /\ request' = [request EXCEPT ![c].at = "parked"]
        /\ request \in [Cells -> Calls]
    BY DEF Park, Goes, IInv, TypeOK, Calls
  <1>1. request' \in [Cells -> Calls]
    BY <1>0 DEF Calls
  <1>2. /\ request'[c].at = "parked" /\ request'[c].result = request[c].result /\ request'[c].peer = request[c].peer
        /\ request'[c].prompt = request[c].prompt
        /\ \A d \in Cells : d # c => request'[d] = request[d]
    BY <1>0 DEF Calls
  <1>3. At(c) # "remove" => request[c].result # "ok"
    BY DEF IInv, Prompts
  <1> QED
    BY <1>0, <1>1, <1>2, <1>3, MoveInv

(* The call was notified and looks again. *)
LEMMA WakeInv ==
  ASSUME IInv, NEW c \in Cells, Wake(c)
  PROVE  IInv'
  <1>0. /\ At(c) = "parked" /\ OnlyRequest
        /\ request' = [request EXCEPT ![c].at = "registered", ![c].told = FALSE]
        /\ request \in [Cells -> Calls]
    BY DEF Wake, IInv, TypeOK, Calls
  <1>1. request' \in [Cells -> Calls]
    BY <1>0, ZenonT(30) DEF Calls
  <1>2. /\ request'[c].at = "registered" /\ request'[c].result = request[c].result /\ request'[c].peer = request[c].peer
        /\ request'[c].prompt = request[c].prompt
        /\ \A d \in Cells : d # c => request'[d] = request[d]
    BY <1>0 DEF Calls
  <1>3. At(c) # "remove" => request[c].result # "ok"
    BY DEF IInv, Prompts
  <1> QED
    BY <1>0, <1>1, <1>2, <1>3, MoveInv

(* The prompt was written. *)
LEMMA SentInv ==
  ASSUME IInv, NEW c \in Cells, Sent(c)
  PROVE  IInv'
  <1>0. /\ At(c) = "sent" /\ OnlyRequest
        /\ request' = [request EXCEPT ![c].at = "reply"]
        /\ request \in [Cells -> Calls]
    BY DEF Sent, Goes, IInv, TypeOK, Calls
  <1>1. request' \in [Cells -> Calls]
    BY <1>0 DEF Calls
  <1>2. /\ request'[c].at = "reply" /\ request'[c].result = request[c].result /\ request'[c].peer = request[c].peer
        /\ request'[c].prompt = request[c].prompt
        /\ \A d \in Cells : d # c => request'[d] = request[d]
    BY <1>0 DEF Calls
  <1>3. At(c) # "remove" => request[c].result # "ok"
    BY DEF IInv, Prompts
  <1>4. request[c].peer # NoPeer
    BY <1>0 DEF IInv, Tables
  <1> QED
    BY <1>0, <1>1, <1>2, <1>3, <1>4, MoveInv

(* The prompt was not written. *)
LEMMA SendFailsInv ==
  ASSUME IInv, NEW c \in Cells, SendFails(c)
  PROVE  IInv'
  <1>0. /\ At(c) \in {"send", "sent"} /\ OnlyRequest
        /\ request' = [request EXCEPT ![c].at = "remove", ![c].result = "lost"]
        /\ request \in [Cells -> Calls]
    BY DEF SendFails, Ends, IInv, TypeOK, Calls
  <1>1. request' \in [Cells -> Calls]
    BY <1>0, ZenonT(30) DEF Calls
  <1>2. /\ request'[c].at = "remove" /\ request'[c].result = "lost"
        /\ request'[c].prompt = request[c].prompt
        /\ \A d \in Cells : d # c => request'[d] = request[d]
    BY <1>0 DEF Calls
  <1>3. At(c) # "remove" => request[c].result # "ok"
    BY DEF IInv, Prompts
  <1> QED
    BY <1>0, <1>1, <1>2, <1>3, MoveInv

(* The reply is there. *)
LEMMA RepliedInv ==
  ASSUME IInv, NEW c \in Cells, Replied(c)
  PROVE  IInv'
  <1>0. /\ At(c) = "reply" /\ reply[request[c].prompt] # Nothing /\ OnlyRequest
        /\ request' = [request EXCEPT ![c].at = "remove", ![c].result = "ok"]
        /\ request \in [Cells -> Calls]
    BY DEF Replied, Ends, IInv, TypeOK, Calls
  <1>1. request' \in [Cells -> Calls]
    BY <1>0, ZenonT(30) DEF Calls
  <1>2. /\ request'[c].at = "remove" /\ request'[c].result = "ok"
        /\ request'[c].prompt = request[c].prompt
        /\ \A d \in Cells : d # c => request'[d] = request[d]
    BY <1>0 DEF Calls
  <1>3. At(c) # "remove" => request[c].result # "ok"
    BY DEF IInv, Prompts
  <1> QED
    BY <1>0, <1>1, <1>2, <1>3, MoveInv

(* The execution is interrupted. *)
LEMMA CancelledInv ==
  ASSUME IInv, NEW c \in Cells, Cancelled(c)
  PROVE  IInv'
  <1>0. /\ At(c) \in Asking /\ OnlyRequest
        /\ request' = [request EXCEPT ![c].at = "remove", ![c].result = "Interrupted"]
        /\ request \in [Cells -> Calls]
    BY DEF Cancelled, Ends, Watched, IInv, TypeOK, Calls
  <1>1. request' \in [Cells -> Calls]
    BY <1>0, ZenonT(30) DEF Calls
  <1>2. /\ request'[c].at = "remove" /\ request'[c].result = "Interrupted"
        /\ request'[c].prompt = request[c].prompt
        /\ \A d \in Cells : d # c => request'[d] = request[d]
    BY <1>0 DEF Calls
  <1>3. At(c) # "remove" => request[c].result # "ok"
    BY DEF IInv, Prompts
  <1> QED
    BY <1>0, <1>1, <1>2, <1>3, MoveInv

(* The client is gone. *)
LEMMA PeerClosedInv ==
  ASSUME IInv, NEW c \in Cells, PeerClosed(c)
  PROVE  IInv'
  <1>0. /\ At(c) \in Sending /\ OnlyRequest
        /\ request' = [request EXCEPT ![c].at = "remove", ![c].result = "lost"]
        /\ request \in [Cells -> Calls]
    BY DEF PeerClosed, Ends, PeerWatched, IInv, TypeOK, Calls
  <1>1. request' \in [Cells -> Calls]
    BY <1>0, ZenonT(30) DEF Calls
  <1>2. /\ request'[c].at = "remove" /\ request'[c].result = "lost"
        /\ request'[c].prompt = request[c].prompt
        /\ \A d \in Cells : d # c => request'[d] = request[d]
    BY <1>0 DEF Calls
  <1>3. At(c) # "remove" => request[c].result # "ok"
    BY DEF IInv, Prompts
  <1> QED
    BY <1>0, <1>1, <1>2, <1>3, MoveInv

(* The prompt enters the channel of its connection. *)
LEMMA SendInv ==
  ASSUME IInv, NEW c \in Cells, Send(c)
  PROVE  IInv'
  <1> DEFINE k == request[c].peer
  <1>0. /\ At(c) = "send" /\ request' = [request EXCEPT ![c].at = "sent"]
        /\ conn' = [conn EXCEPT ![k].outgoing = Append(@, request[c].prompt)]
        /\ peers' = peers /\ newest' = newest /\ incoming' = incoming /\ budget' = budget
        /\ made' = made /\ asker' = asker /\ interrupted' = interrupted /\ pending' = pending /\ reply' = reply
        /\ shown' = shown
    BY DEF Send, Goes
  <1>1. request \in [Cells -> Calls] /\ conn \in [Connection -> Conns]
    BY DEF IInv, TypeOK, Calls, Conns
  <1>2. k \in Connection /\ request[c].prompt \in 1 .. made /\ request[c].prompt \in Prompt
    <2>1. k # NoPeer /\ request[c].prompt # NoPrompt
      BY <1>0 DEF IInv, Tables, Prompts
    <2>2. request[c].prompt \in 0 .. made /\ k \in Connection \cup {NoPeer} /\ made \in 0 .. MaxPrompts
      BY <1>1 DEF Calls, IInv, TypeOK
    <2> QED
      BY <2>1, <2>2, StdinAssumption DEF Prompt
  <1> HIDE DEF k
  <1>3. request' \in [Cells -> Calls]
        /\ \A d \in Cells : /\ request'[d].prompt = request[d].prompt /\ request'[d].result = request[d].result
                            /\ request'[d].peer = request[d].peer
                            /\ request'[d].at = IF d = c THEN "sent" ELSE request[d].at
    BY <1>0, <1>1 DEF Calls
  <1>4. conn[k].outgoing \in Seq(Prompt) /\ Append(conn[k].outgoing, request[c].prompt) \in Seq(Prompt)
    BY <1>1, <1>2 DEF Conns
  <1>5. conn' \in [Connection -> Conns]
        /\ \A j \in Connection : /\ conn'[j].client = conn[j].client /\ conn'[j].state = conn[j].state
                                 /\ conn'[j].outgoing = IF j = k THEN Append(conn[k].outgoing, request[c].prompt)
                                                        ELSE conn[j].outgoing
    BY <1>0, <1>1, <1>2, <1>4, ZenonT(30) DEF Conns
  <1>6. TypeOK'
    BY <1>0, <1>3, <1>5 DEF IInv, TypeOK, Calls, Conns
  <1>7. Prompts' /\ Senders' /\ NewestFound'
    BY <1>0, <1>3 DEF IInv, Prompts, Senders, NewestFound
  <1>8. Tables'
    <2>1. \A n \in DOMAIN Append(conn[k].outgoing, request[c].prompt) :
            Append(conn[k].outgoing, request[c].prompt)[n] \in 1 .. made
      BY <1>2, <1>4 DEF IInv, Tables
    <2> QED
      BY <1>0, <1>3, <1>5, <2>1 DEF IInv, Tables
  <1>9. PendingInProgress'
    BY <1>0, <1>3 DEF IInv, PendingInProgress
  <1> QED
    BY <1>6, <1>7, <1>8, <1>9 DEF IInv

(* A new prompt is told from every other. *)
LEMMA RequestInv ==
  ASSUME IInv, NEW c \in Cells, NEW i \in Askers, Request(c, i)
  PROVE  IInv'
  <1>0. /\ At(c) = "idle" /\ made < MaxPrompts /\ made' = made + 1 /\ asker' = Append(asker, i)
        /\ pending' = pending \cup {made + 1}
        /\ request' = [request EXCEPT ![c].at = "registered", ![c].prompt = made + 1]
        /\ conn' = conn /\ peers' = peers /\ newest' = newest /\ incoming' = incoming /\ budget' = budget
        /\ interrupted' = interrupted /\ reply' = reply /\ shown' = shown
    BY DEF Request, MayAsk, NewId
  <1>1. request \in [Cells -> Calls] /\ made \in Nat /\ asker \in [1 .. made -> Askers]
        /\ made + 1 \in Prompt /\ made + 1 \in 0 .. MaxPrompts
    BY <1>0, StdinAssumption DEF IInv, TypeOK, Calls, Prompt
  <1>2. request' \in [Cells -> [at : Asking \cup {"idle", "remove"}, prompt : 0 .. made + 1,
                                peer : Connection \cup {NoPeer}, told : BOOLEAN,
                                result : {"none", "ok", "lost", "Interrupted"}]]
    <2>1. 0 .. made \subseteq 0 .. made + 1 /\ made + 1 \in 0 .. made + 1
      BY <1>1
    <2>2. \A d \in Cells : request'[d] \in [at : Asking \cup {"idle", "remove"}, prompt : 0 .. made + 1,
                                            peer : Connection \cup {NoPeer}, told : BOOLEAN,
                                            result : {"none", "ok", "lost", "Interrupted"}]
      BY <1>0, <1>1, <2>1 DEF Calls
    <2>3. request' = [d \in Cells |-> request'[d]]
      BY <1>0, <1>1, ZenonT(30)
    <2> QED
      BY <2>2, <2>3
  <1>3. \A d \in Cells : /\ request'[d].prompt = IF d = c THEN made + 1 ELSE request[d].prompt
                         /\ request'[d].at = IF d = c THEN "registered" ELSE request[d].at
                         /\ request'[d].peer = request[d].peer /\ request'[d].result = request[d].result
    BY <1>0, <1>1 DEF Calls
  <1>4. asker' \in [1 .. made + 1 -> Askers] /\ \A p \in 1 .. made : asker'[p] = asker[p]
    <2>1. asker \in Seq(Askers) /\ Len(asker) = made
      BY <1>1
    <2>2. asker' \in Seq(Askers) /\ Len(asker') = made + 1 /\ \A p \in 1 .. made : asker'[p] = asker[p]
      BY <1>0, <2>1
    <2> QED
      BY <2>2
  <1>5. pending' \subseteq 1 .. made + 1 /\ shown' \subseteq 1 .. made + 1
    BY <1>0, <1>1 DEF IInv, TypeOK
  <1>6. TypeOK'
    BY <1>0, <1>1, <1>2, <1>4, <1>5 DEF IInv, TypeOK
  <1>7. \A d \in Cells : request[d].prompt \in 0 .. made
    BY <1>1 DEF Calls
  <1>8. Prompts'
    <2>1. request[c].result # "ok"
      BY <1>0 DEF IInv, Prompts
    <2>2. \A d \in Cells : request[d].prompt # made + 1 /\ made + 1 # 0
      BY <1>1, <1>7
    <2>3. (\A d \in Cells : (At(d) # "idle") <=> (request[d].prompt # NoPrompt))'
      BY <1>3, <2>2 DEF IInv, Prompts
    <2>4. (\A d, e \in Cells : d # e /\ request[d].prompt # NoPrompt => request[d].prompt # request[e].prompt)'
      BY <1>3, <2>2 DEF IInv, Prompts
    <2>5. (\A d \in Cells : request[d].result = "ok" => At(d) = "remove" /\ reply[request[d].prompt] # Nothing)'
      <3>1. ASSUME NEW d \in Cells, request'[d].result = "ok"
            PROVE  d # c /\ request[d].result = "ok" /\ request'[d].at = request[d].at
                   /\ request'[d].prompt = request[d].prompt
        BY <1>3, <2>1, <3>1
      <3> QED
        BY <1>0, <3>1, ZenonT(30) DEF IInv, Prompts
    <2> QED
      BY <2>3, <2>4, <2>5 DEF Prompts
  <1>9. \A p \in 1 .. made : p \in 1 .. made'
    BY <1>0, <1>1
  <1>10. Senders'
    BY <1>0, <1>4, <1>9, ZenonT(30) DEF IInv, Senders
  <1>11. Tables' /\ NewestFound'
    <2>1. (\A d \in Cells : At(d) \in Sending => request[d].peer # NoPeer)'
      BY <1>3 DEF IInv, Tables
    <2>2. (\A k \in Connection : \A n \in DOMAIN conn[k].outgoing : conn[k].outgoing[n] \in 1 .. made)'
      BY <1>0, <1>9 DEF IInv, Tables
    <2> QED
      BY <1>0, <2>1, <2>2, ZenonT(30) DEF IInv, Tables, NewestFound
  <1>12. PendingInProgress'
    <2>1. ASSUME NEW p \in pending' PROVE \E d \in Cells : request'[d].prompt = p /\ request'[d].at \in Asking \cup {"remove"}
      <3>1. CASE p = made + 1
        BY <1>3, <3>1
      <3>2. CASE p # made + 1
        <4>1. PICK d \in Cells : request[d].prompt = p /\ At(d) \in Asking \cup {"remove"}
          BY <1>0, <2>1, <3>2 DEF IInv, PendingInProgress
        <4> QED
          BY <1>0, <1>3, <4>1, ZenonT(30)
      <3> QED
        BY <3>1, <3>2
    <2> QED
      BY <2>1 DEF PendingInProgress
  <1> QED
    BY <1>6, <1>8, <1>10, <1>11, <1>12 DEF IInv

(* A call that returns takes its own prompt out and no other. *)
LEMMA ReturnInv ==
  ASSUME IInv, NEW c \in Cells, Return(c)
  PROVE  IInv'
  <1>0. /\ At(c) = "remove" /\ pending' = pending \ {request[c].prompt}
        /\ reply' = [reply EXCEPT ![request[c].prompt] = Nothing]
        /\ request' = [request EXCEPT ![c] = Idle]
        /\ conn' = conn /\ peers' = peers /\ newest' = newest /\ incoming' = incoming /\ budget' = budget
        /\ made' = made /\ asker' = asker /\ interrupted' = interrupted /\ shown' = shown
    BY DEF Return, Left
  <1>1. request \in [Cells -> Calls] /\ reply \in [Prompt -> Message \cup {Nothing}] /\ made \in Nat
    BY StdinAssumption DEF IInv, TypeOK, Calls
  <1>2. /\ request' \in [Cells -> Calls] /\ request'[c] = Idle
        /\ \A d \in Cells : d # c => request'[d] = request[d]
    <2>1. Idle \in Calls
      BY <1>1 DEF Idle, Calls
    <2> QED
      BY <1>0, <1>1, <2>1
  <1>3. /\ reply' \in [Prompt -> Message \cup {Nothing}]
        /\ \A p \in Prompt : reply'[p] = IF p = request[c].prompt THEN Nothing ELSE reply[p]
    BY <1>0, <1>1, ZenonT(30)
  <1>4. TypeOK'
    BY <1>0, <1>2, <1>3, ZenonT(30) DEF IInv, TypeOK, Calls
  <1>5. Prompts'
    <2>1. Idle.at = "idle" /\ Idle.prompt = NoPrompt /\ Idle.result = "none"
      BY DEF Idle
    <2>2. \A d \in Cells : d # c /\ request[d].result = "ok" =>
            request[d].prompt # request[c].prompt /\ request[d].prompt \in Prompt
      <3>1. \A d \in Cells : request[d].prompt \in 0 .. made
        BY <1>1 DEF Calls
      <3>2. \A d \in Cells : request[d].result = "ok" => request[d].prompt # NoPrompt
        BY DEF IInv, Prompts
      <3>3. \A p \in 0 .. made : p # 0 => p \in Prompt
        BY <1>1, StdinAssumption DEF IInv, TypeOK, Prompt
      <3> QED
        BY <3>1, <3>2, <3>3 DEF IInv, Prompts
    <2> QED
      BY <1>2, <1>3, <2>1, <2>2 DEF IInv, Prompts
  <1>6. Senders'
    BY <1>0, <1>3 DEF IInv, Senders
  <1>7. Tables' /\ NewestFound'
    BY <1>0, <1>2 DEF IInv, Tables, NewestFound, Idle
  <1>8. PendingInProgress'
    <2>1. ASSUME NEW p \in pending' PROVE \E d \in Cells : request'[d].prompt = p /\ request'[d].at \in Asking \cup {"remove"}
      <3>1. PICK d \in Cells : request[d].prompt = p /\ At(d) \in Asking \cup {"remove"}
        BY <1>0, <2>1 DEF IInv, PendingInProgress
      <3>2. d # c
        BY <1>0, <2>1, <3>1
      <3> QED
        BY <1>2, <3>1, <3>2
    <2> QED
      BY <2>1 DEF PendingInProgress
  <1> QED
    BY <1>4, <1>5, <1>6, <1>7, <1>8 DEF IInv

(* An execution is interrupted; the next one begins. *)
LEMMA FlagInv ==
  ASSUME IInv, NEW c \in Cells, Interrupt(c) \/ NextCell(c)
  PROVE  IInv'
  <1>0. /\ interrupted' \subseteq Cells /\ request' = request /\ pending' = pending /\ reply' = reply
        /\ conn' = conn /\ peers' = peers /\ newest' = newest /\ incoming' = incoming /\ budget' = budget
        /\ made' = made /\ asker' = asker /\ shown' = shown
    BY DEF Interrupt, NextCell, IInv, TypeOK
  <1>1. TypeOK'
    BY <1>0 DEF IInv, TypeOK
  <1> QED
    BY <1>0, <1>1 DEF IInv, Prompts, Senders, Tables, NewestFound, PendingInProgress

-----------------------------------------------------------------------------
(* Connections. *)

(* A step of one connection that leaves the table and the messages alone.  *)
LEMMA ConnectionInv ==
  ASSUME IInv, NEW k \in Connection,
         conn' \in [Connection -> Conns], conn'[k].state # "none" => conn'[k].client \in Clients,
         \A j \in Connection : j # k => conn'[j] = conn[j],
         \A n \in DOMAIN conn'[k].outgoing : conn'[k].outgoing[n] \in 1 .. made,
         shown' \subseteq 1 .. made,
         /\ peers' = peers /\ newest' = newest /\ incoming' = incoming /\ budget' = budget /\ request' = request
         /\ pending' = pending /\ reply' = reply /\ made' = made /\ asker' = asker /\ interrupted' = interrupted
  PROVE  IInv'
  <1>1. TypeOK'
    BY DEF IInv, TypeOK, Conns
  <1>2. Prompts' /\ Senders' /\ NewestFound' /\ PendingInProgress'
    BY DEF IInv, Prompts, Senders, NewestFound, PendingInProgress
  <1>3. Tables'
    BY DEF IInv, Tables
  <1> QED
    BY <1>1, <1>2, <1>3 DEF IInv

(* Such are the handshake, a write and the two ends of the task. *)
LEMMA ConnectionSteps ==
  ASSUME IInv, NEW k \in Connection, Write(k) \/ End(k) \/ Close(k) \/ \E i \in Clients : Connect(k, i)
  PROVE  IInv'
  <1>0. conn \in [Connection -> Conns] /\ (conn[k].state # "none" => conn[k].client \in Clients)
        /\ conn[k].outgoing \in Seq(Prompt) /\ shown \subseteq 1 .. made
        /\ \A n \in DOMAIN conn[k].outgoing : conn[k].outgoing[n] \in 1 .. made
    BY DEF IInv, TypeOK, Tables, Conns
  <1>1. CASE Write(k)
    <2>1. conn[k].outgoing # <<>> /\ conn' = [conn EXCEPT ![k].outgoing = Tail(conn[k].outgoing)]
          /\ shown' = shown \cup {Head(conn[k].outgoing)} /\ conn[k].state = "serving"
      BY <1>1 DEF Write
    <2>2. Head(conn[k].outgoing) \in 1 .. made /\ Tail(conn[k].outgoing) \in Seq(Prompt)
          /\ \A n \in DOMAIN Tail(conn[k].outgoing) : Tail(conn[k].outgoing)[n] \in 1 .. made
      BY <1>0, <2>1
    <2>3. conn' \in [Connection -> Conns] /\ conn'[k].client = conn[k].client
          /\ conn'[k].outgoing = Tail(conn[k].outgoing) /\ \A j \in Connection : j # k => conn'[j] = conn[j]
      BY <1>0, <2>1, <2>2, ZenonT(30) DEF Conns
    <2>4. (conn'[k].state # "none" => conn'[k].client \in Clients) /\ shown' \subseteq 1 .. made
      BY <1>0, <2>1, <2>2, <2>3
    <2> QED
      BY <1>1, <2>2, <2>3, <2>4, ConnectionInv, ZenonT(30) DEF Write
  <1>2. CASE End(k)
    <2>1. conn' = [conn EXCEPT ![k].state = "ended", ![k].outgoing = <<>>] /\ conn[k].state = "serving"
      BY <1>2 DEF End
    <2>2. <<>> \in Seq(Prompt)
      OBVIOUS
    <2>3. conn' \in [Connection -> Conns] /\ conn'[k].client = conn[k].client
          /\ conn'[k].outgoing = <<>> /\ \A j \in Connection : j # k => conn'[j] = conn[j]
      BY <1>0, <2>1, <2>2, ZenonT(30) DEF Conns
    <2>4. conn'[k].state # "none" => conn'[k].client \in Clients
      BY <1>0, <2>1, <2>3
    <2>5. \A n \in DOMAIN conn'[k].outgoing : conn'[k].outgoing[n] \in 1 .. made
      BY <2>3
    <2> QED
      BY <1>0, <1>2, <2>3, <2>4, <2>5, ConnectionInv DEF End
  <1>3. CASE Close(k)
    <2>1. conn' = [conn EXCEPT ![k].state = "closed"] /\ conn[k].state = "ended"
      BY <1>3 DEF Close
    <2>2. conn' \in [Connection -> Conns] /\ conn'[k].client = conn[k].client
          /\ conn'[k].outgoing = conn[k].outgoing /\ \A j \in Connection : j # k => conn'[j] = conn[j]
      BY <1>0, <2>1 DEF Conns
    <2>3. conn'[k].state # "none" => conn'[k].client \in Clients
      BY <1>0, <2>1, <2>2
    <2> QED
      BY <1>0, <1>3, <2>2, <2>3, ConnectionInv DEF Close
  <1>4. ASSUME NEW i \in Clients, Connect(k, i) PROVE IInv'
    <2>1. conn' = [conn EXCEPT ![k].client = i, ![k].state = "connected"]
      BY <1>4 DEF Connect
    <2>2. conn' \in [Connection -> Conns] /\ conn'[k].client = i
          /\ conn'[k].outgoing = conn[k].outgoing /\ \A j \in Connection : j # k => conn'[j] = conn[j]
      BY <1>0, <2>1, ZenonT(30) DEF Conns
    <2>3. /\ peers' = peers /\ newest' = newest /\ incoming' = incoming /\ budget' = budget /\ request' = request
          /\ pending' = pending /\ reply' = reply /\ made' = made /\ asker' = asker /\ interrupted' = interrupted
          /\ shown' = shown
      BY <1>4 DEF Connect
    <2>4. \A n \in DOMAIN conn'[k].outgoing : conn'[k].outgoing[n] \in 1 .. made
      BY <1>0, <2>2
    <2>5. conn'[k].client \in Clients /\ shown' \subseteq 1 .. made
      BY <1>0, <2>2, <2>3
    <2> QED
      BY <2>2, <2>3, <2>4, <2>5, ConnectionInv
  <1> QED
    BY <1>1, <1>2, <1>3, <1>4

(* The newest connection of an identity replaces what was found under it,  *)
(* and an older one that ends does not take it out.                        *)
LEMMA TableSteps ==
  ASSUME IInv, NEW k \in Connection, Insert(k) \/ Remove(k)
  PROVE  IInv'
  <1>0. /\ conn[k].client \in Clients /\ conn \in [Connection -> Conns]
        /\ peers \in [Clients -> Connection \cup {NoPeer}] /\ newest \in [Clients -> Connection \cup {NoPeer}]
        /\ NewestFound
    BY DEF IInv, TypeOK, Tables, Conns, Insert, Remove
  <1> DEFINE i == conn[k].client
  <1>1. /\ incoming' = incoming /\ budget' = budget /\ request' = request /\ shown' = shown
        /\ pending' = pending /\ reply' = reply /\ made' = made /\ asker' = asker /\ interrupted' = interrupted
    BY DEF Insert, Remove
  <1>2. \E t \in {"inserted", "gone"} : conn' = [conn EXCEPT ![k].state = t]
    BY DEF Insert, Remove
  <1>3. /\ conn' \in [Connection -> Conns]
        /\ \A j \in Connection : conn'[j].client = conn[j].client /\ conn'[j].outgoing = conn[j].outgoing
        /\ \A j \in Connection : j # k => conn'[j] = conn[j]
    BY <1>0, <1>2 DEF Conns
  <1>4. peers' \in [Clients -> Connection \cup {NoPeer}] /\ newest' \in [Clients -> Connection \cup {NoPeer}]
    BY <1>0 DEF Insert, Remove
  <1>5. NewestFound'
    BY <1>0 DEF NewestFound, Insert, Remove, Removes
  <1>6. TypeOK'
    BY <1>1, <1>3, <1>4 DEF IInv, TypeOK, Conns
  <1>7. Prompts' /\ Senders' /\ PendingInProgress'
    BY <1>1 DEF IInv, Prompts, Senders, PendingInProgress
  <1>8. Tables'
    BY <1>0, <1>1, <1>3 DEF IInv, Tables
  <1> QED
    BY <1>5, <1>6, <1>7, <1>8 DEF IInv

(* Whoever waits for a connection is told of one. *)
LEMMA NotifyWaitersInv ==
  ASSUME IInv, NEW k \in Connection, NotifyWaiters(k)
  PROVE  IInv'
  <1>0. /\ conn' = [conn EXCEPT ![k].state = "serving"] /\ conn[k].state = "inserted"
        /\ request' = [c \in Cells |-> [request[c] EXCEPT !.told = @ \/ c \in Woken]]
        /\ peers' = peers /\ newest' = newest /\ incoming' = incoming /\ budget' = budget /\ shown' = shown
        /\ pending' = pending /\ reply' = reply /\ made' = made /\ asker' = asker /\ interrupted' = interrupted
        /\ conn \in [Connection -> Conns] /\ request \in [Cells -> Calls]
    BY DEF NotifyWaiters, IInv, TypeOK, Conns, Calls
  <1>1. /\ conn' \in [Connection -> Conns]
        /\ \A j \in Connection : conn'[j].client = conn[j].client /\ conn'[j].outgoing = conn[j].outgoing
        /\ \A j \in Connection : j # k => conn'[j] = conn[j]
    BY <1>0 DEF Conns
  <1>2. ASSUME NEW c \in Cells
        PROVE  /\ request'[c] \in Calls /\ request'[c].prompt = request[c].prompt /\ request'[c].at = request[c].at
               /\ request'[c].peer = request[c].peer /\ request'[c].result = request[c].result
    <2> DEFINE t == request[c].told \/ c \in Woken
    <2>1. t \in BOOLEAN /\ request'[c] = [request[c] EXCEPT !.told = t] /\ request[c] \in Calls
      BY <1>0
    <2> HIDE DEF t
    <2> QED
      BY <2>1 DEF Calls
  <1>3. request' \in [Cells -> Calls]
    BY <1>0, <1>2
  <1>4. TypeOK'
    BY <1>0, <1>1, <1>3 DEF IInv, TypeOK, Conns, Calls
  <1>5. Prompts' /\ PendingInProgress'
    BY <1>0, <1>2 DEF IInv, Prompts, PendingInProgress
  <1>6. Senders' /\ NewestFound'
    BY <1>0 DEF IInv, Senders, NewestFound
  <1>7. Tables'
    BY <1>0, <1>1, <1>2 DEF IInv, Tables
  <1> QED
    BY <1>4, <1>5, <1>6, <1>7 DEF IInv

-----------------------------------------------------------------------------
(* Messages. *)

(* A message that is read names a prompt of its own client or none. *)
LEMMA ReadInv ==
  ASSUME IInv, NEW k \in Connection, NEW m \in Message, Read(k, m)
  PROVE  IInv'
  <1>0. /\ incoming' = Append(incoming, m) /\ budget > 0 /\ budget' = budget - 1
        /\ m.parent # NoPrompt => m.parent \in shown /\ asker[m.parent] = m.client
        /\ conn' = conn /\ peers' = peers /\ newest' = newest /\ request' = request /\ shown' = shown
        /\ pending' = pending /\ reply' = reply /\ made' = made /\ asker' = asker /\ interrupted' = interrupted
    BY DEF Read
  <1>1. incoming \in Seq(Message) /\ incoming' \in Seq(Message) /\ shown \subseteq 1 .. made
        /\ \A n \in DOMAIN incoming' : incoming'[n] = m \/ (n \in DOMAIN incoming /\ incoming'[n] = incoming[n])
    BY <1>0 DEF IInv, TypeOK
  <1>2. TypeOK'
    <2>1. budget' \in 0 .. MaxReplies
      BY <1>0, StdinAssumption DEF IInv, TypeOK
    <2> QED
      BY <1>0, <1>1, <2>1 DEF IInv, TypeOK
  <1>3. Senders'
    <2>1. ASSUME NEW n \in DOMAIN incoming', incoming'[n].parent # NoPrompt
          PROVE  incoming'[n].parent \in 1 .. made /\ asker[incoming'[n].parent] = incoming'[n].client
      <3>1. CASE incoming'[n] = m
        BY <1>0, <1>1, <2>1, <3>1
      <3>2. CASE n \in DOMAIN incoming /\ incoming'[n] = incoming[n]
        BY <2>1, <3>2 DEF IInv, Senders
      <3> QED
        BY <1>1, <3>1, <3>2
    <2> QED
      BY <1>0, <2>1 DEF IInv, Senders
  <1>4. Prompts' /\ Tables' /\ NewestFound' /\ PendingInProgress'
    BY <1>0 DEF IInv, Prompts, Tables, NewestFound, PendingInProgress
  <1> QED
    BY <1>2, <1>3, <1>4 DEF IInv

(* What the channel keeps when its head is taken. *)
LEMMA Taken ==
  ASSUME IInv, incoming # <<>>, incoming' = Tail(incoming), made' = made, asker' = asker
  PROVE  /\ Head(incoming) \in Message /\ incoming' \in Seq(Message)
         /\ Head(incoming).parent # NoPrompt =>
              Head(incoming).parent \in 1 .. made /\ asker[Head(incoming).parent] = Head(incoming).client
         /\ \A n \in DOMAIN incoming' : incoming'[n].parent # NoPrompt =>
              incoming'[n].parent \in 1 .. made /\ asker[incoming'[n].parent] = incoming'[n].client
  <1>1. incoming \in Seq(Message)
    BY DEF IInv, TypeOK
  <1>2. Head(incoming) = incoming[1] /\ 1 \in DOMAIN incoming /\ Head(incoming) \in Message /\ incoming' \in Seq(Message)
    BY <1>1
  <1>3. \A n \in DOMAIN incoming' : n + 1 \in DOMAIN incoming /\ incoming'[n] = incoming[n + 1]
    BY <1>1
  <1>4. \A n \in DOMAIN incoming : incoming[n].parent # NoPrompt =>
          incoming[n].parent \in 1 .. made /\ asker[incoming[n].parent] = incoming[n].client
    BY DEF IInv, Senders
  <1> QED
    BY <1>2, <1>3, <1>4

(* A message that answers no prompt is dropped. *)
LEMMA IgnoreInv ==
  ASSUME IInv, Ignore
  PROVE  IInv'
  <1>0. /\ incoming # <<>> /\ incoming' = Tail(incoming) /\ budget' = budget
        /\ conn' = conn /\ peers' = peers /\ newest' = newest /\ request' = request /\ shown' = shown
        /\ pending' = pending /\ reply' = reply /\ made' = made /\ asker' = asker /\ interrupted' = interrupted
    BY DEF Ignore
  <1>1. TypeOK'
    BY <1>0, Taken DEF IInv, TypeOK
  <1>2. Senders'
    BY <1>0, Taken DEF IInv, Senders
  <1>3. Prompts' /\ Tables' /\ NewestFound' /\ PendingInProgress'
    BY <1>0 DEF IInv, Prompts, Tables, NewestFound, PendingInProgress
  <1> QED
    BY <1>1, <1>2, <1>3 DEF IInv

(* The prompt that a message answers is one of its client. *)
LEMMA AnswerInv ==
  ASSUME IInv, NEW p \in Prompt, Answer(p)
  PROVE  IInv'
  <1>0. /\ incoming # <<>> /\ incoming' = Tail(incoming) /\ budget' = budget /\ p \in Keys(Head(incoming))
        /\ pending' = pending \ {p} /\ reply' = [reply EXCEPT ![p] = Head(incoming)]
        /\ conn' = conn /\ peers' = peers /\ newest' = newest /\ request' = request /\ shown' = shown
        /\ made' = made /\ asker' = asker /\ interrupted' = interrupted
    BY DEF Answer
  <1> DEFINE m == Head(incoming)
  <1>1. m \in Message /\ m # Nothing /\ incoming' \in Seq(Message)
        /\ (m.parent # NoPrompt => m.parent \in 1 .. made /\ asker[m.parent] = m.client)
    BY <1>0, Taken, SomeMessage
  <1>2. reply' \in [Prompt -> Message \cup {Nothing}]
        /\ \A q \in Prompt : reply'[q] = IF q = p THEN m ELSE reply[q]
    BY <1>0, <1>1 DEF IInv, TypeOK
  <1>3. p \in pending /\ p \in 1 .. made /\ p # NoPrompt
    BY <1>0, StdinAssumption DEF IInv, TypeOK, Keys, Prompt
  <1>4. asker[p] = m.client
    <2>1. CASE m.parent \in pending
      BY <1>0, <1>1, <1>3, <2>1 DEF Keys
    <2>2. CASE m.parent \notin pending
      BY <1>0, <2>2 DEF Keys
    <2> QED
      BY <2>1, <2>2
  <1>5. TypeOK'
    BY <1>0, <1>1, <1>2, ZenonT(30) DEF IInv, TypeOK
  <1>6. Senders'
    <2>1. \A q \in Prompt : reply'[q] # Nothing => q \in 1 .. made /\ reply'[q].client = asker[q]
      BY <1>2, <1>3, <1>4 DEF IInv, Senders
    <2> QED
      BY <1>0, <2>1, Taken DEF Senders
  <1>7. Prompts'
    <2>1. \A c \in Cells : request[c].result = "ok" => reply'[request[c].prompt] # Nothing
      <3>1. ASSUME NEW c \in Cells, request[c].result = "ok" PROVE request[c].prompt \in Prompt
        <4>1. request[c].prompt \in 0 .. made /\ request[c].prompt # 0 /\ made \in 0 .. MaxPrompts
          BY <3>1 DEF IInv, TypeOK, Prompts
        <4> QED
          BY <4>1, StdinAssumption DEF Prompt
      <3> QED
        BY <1>1, <1>2, <3>1 DEF IInv, Prompts
    <2> QED
      BY <1>0, <2>1 DEF IInv, Prompts
  <1>8. Tables' /\ NewestFound' /\ PendingInProgress'
    BY <1>0 DEF IInv, Tables, NewestFound, PendingInProgress
  <1> QED
    BY <1>5, <1>6, <1>7, <1>8 DEF IInv

-----------------------------------------------------------------------------
(* Every step keeps the invariant. *)
LEMMA NextInv ==
  ASSUME IInv, [Next]_vars
  PROVE  IInv'
  <1>1. ASSUME NEW k \in Connection, PeerTask(k) PROVE IInv'
    BY <1>1, TableSteps, NotifyWaitersInv, ConnectionSteps DEF PeerTask
  <1>2. ASSUME NEW k \in Connection, NEW i \in Clients, Connect(k, i) PROVE IInv'
    BY <1>2, ConnectionSteps
  <1>3. ASSUME NEW k \in Connection, NEW m \in Message, Read(k, m) PROVE IInv'
    BY <1>3, ReadInv
  <1>4. ASSUME NEW k \in Connection, End(k) PROVE IInv'
    BY <1>4, ConnectionSteps
  <1>5. CASE ReplyTask
    BY <1>5, IgnoreInv, AnswerInv DEF ReplyTask
  <1>6. ASSUME NEW c \in Cells, Pump(c) PROVE IInv'
    <2>1. LookUp(c) \/ Park(c) \/ Wake(c) \/ Send(c) \/ Sent(c) => IInv'
      BY LookUpInv, ParkInv, WakeInv, SendInv, SentInv
    <2>2. SendFails(c) \/ Replied(c) \/ Cancelled(c) \/ PeerClosed(c) \/ Return(c) => IInv'
      BY SendFailsInv, RepliedInv, CancelledInv, PeerClosedInv, ReturnInv
    <2> QED
      BY <1>6, <2>1, <2>2 DEF Pump
  <1>7. ASSUME NEW c \in Cells, Interrupt(c) \/ NextCell(c) PROVE IInv'
    BY <1>7, FlagInv
  <1>8. ASSUME NEW c \in Cells, NEW i \in Askers, Request(c, i) PROVE IInv'
    BY <1>8, RequestInv
  <1>9. CASE UNCHANGED vars
    <2>1. TypeOK'
      BY <1>9 DEF IInv, TypeOK, vars
    <2>2. Prompts' /\ Senders' /\ Tables' /\ NewestFound' /\ PendingInProgress'
      BY <1>9 DEF IInv, Prompts, Senders, Tables, NewestFound, PendingInProgress, vars
    <2> QED
      BY <2>1, <2>2 DEF IInv
  <1> QED
    BY <1>1, <1>2, <1>3, <1>4, <1>5, <1>6, <1>7, <1>8, <1>9 DEF Next

(* The invariant holds in every state. *)
LEMMA Invariant == Spec => []IInv
  BY InitInv, NextInv, PTL DEF Spec

(* Every variable keeps its type.                                          *)
THEOREM TypeCorrect == Spec => []TypeOK
  <1>1. IInv => TypeOK
    BY DEF IInv
  <1> QED
    BY <1>1, Invariant, PTL

(* However often a client reconnects, RouterPeers finds its newest         *)
(* connection until that ends.                                             *)
THEOREM NewestKept == Spec => []NewestFound
  <1>1. IInv => NewestFound
    BY DEF IInv
  <1> QED
    BY <1>1, Invariant, PTL

(* No prompt stays in `pending` after its call has returned.               *)
THEOREM NothingPending == Spec => []PendingInProgress
  <1>1. IInv => PendingInProgress
    BY DEF IInv
  <1> QED
    BY <1>1, Invariant, PTL

(* A cell never gets what another client typed, for any number of clients  *)
(* and prompts, if clients name only prompts that they were shown.         *)
THEOREM RightClient == Spec => []OwnClient
  <1>1. IInv => OwnClient
    <2>1. ASSUME IInv, NEW c \in Cells, request[c].result = "ok"
          PROVE  reply[request[c].prompt].client = asker[request[c].prompt]
      <3>1. request[c].prompt \in 0 .. made /\ request[c].prompt # 0 /\ made \in 0 .. MaxPrompts
        BY <2>1 DEF IInv, TypeOK, Prompts
      <3>2. request[c].prompt \in Prompt
        BY <3>1, StdinAssumption DEF Prompt
      <3> QED
        BY <2>1, <3>2 DEF IInv, Prompts, Senders
    <2> QED
      BY <2>1 DEF OwnClient
  <1> QED
    BY <1>1, Invariant, PTL

(* A reply that names a waiting prompt answers no other.                   *)
THEOREM NamedPrompt == Spec => NamedFirst
  <1>1. ASSUME IInv, Next, NEW p \in Prompt, reply'[p] \notin {reply[p], Nothing}
        PROVE  reply'[p].parent = p \/ reply'[p].parent \notin pending
    <2>0. reply \in [Prompt -> Message \cup {Nothing}]
      BY <1>1 DEF IInv, TypeOK
    <2>1. ASSUME NEW q \in Prompt, Answer(q) PROVE reply'[p].parent = p \/ reply'[p].parent \notin pending
      <3>1. reply' = [reply EXCEPT ![q] = Head(incoming)] /\ q \in Keys(Head(incoming))
        BY <2>1 DEF Answer
      <3>2. p = q /\ reply'[p] = Head(incoming)
        BY <1>1, <2>0, <3>1
      <3> QED
        BY <3>1, <3>2 DEF Keys
    <2>2. ASSUME NEW c \in Cells, Return(c) PROVE FALSE
      BY <1>1, <2>0, <2>2 DEF Return
    <2>3. reply' # reply
      BY <1>1
    <2>4. (\E q \in Prompt : Answer(q)) \/ \E c \in Cells : Return(c)
      BY <1>1, <2>3, ZenonT(30) DEF Next, PeerTask, ReplyTask, Pump, Insert, NotifyWaiters, Write, Close, Remove, Connect, Read,
        End, Ignore, LookUp, Park, Wake, Send, Sent, SendFails, Replied, Cancelled, PeerClosed, Interrupt, NextCell,
        Request, OnlyRequest
    <2> QED
      BY <2>1, <2>2, <2>4
  <1>2. IInv /\ [Next]_vars =>
          [\A p \in Prompt : reply'[p] \notin {reply[p], Nothing} =>
             reply'[p].parent = p \/ reply'[p].parent \notin pending]_vars
    BY <1>1
  <1> QED
    BY <1>2, Invariant, PTL DEF Spec, NamedFirst
=============================================================================
