----------------------------- MODULE DapProofs -----------------------------
(* Proofs about Dap: the entries of `pending` for every number of requests, *)
(* every choice of sequence numbers, every width and every capacity.        *)
EXTENDS Dap, FiniteSetTheorems, TLAPS

(* Leaves are given 30 seconds of the SMT solver; those it does not find  *)
(* name Zenon.                                                             *)
USE SMTT(30)

(* The parts of TypeOK: the callers, the entries, and the rest. *)
CallType == call \in [Req -> [at : Places, seq : Seqs, holds : Req \cup {Empty, Failed}]]
PendingType == DOMAIN pending \subseteq Seqs /\ \A n \in DOMAIN pending : pending[n] \in Req
RestType ==
  /\ next_seq \in Seqs /\ closed \in BOOLEAN /\ attached \in BOOLEAN
  /\ outgoing \in Seq(Req) /\ Len(outgoing) <= Capacity
  /\ failing \in [Actors -> {"no", "set", "drain", "ended"}]
  /\ writing \in Req \cup {NoReq} /\ adapter \subseteq Req
  /\ given \in [Req -> Numbers \cup {NoNumber}]

(* An entry is under the number of its request: Insert puts it there, and  *)
(* a number is given only to a request that has no entry yet.              *)
UnderItsNumber == \A n \in DOMAIN pending : call[pending[n]].seq = n

(* The last number never gets past checked_add. *)
Raisable == \A r \in Req : At(r) = "raise" => call[r].seq + 1 # Width

(* The inductive invariant.  Whether a step leaves a request its entry     *)
(* depends on what else may be under the number, so the parts about the    *)
(* entries need each other.                                                *)
Entries == UnderItsNumber /\ NoneLeft /\ StillPending
Inv == CallType /\ PendingType /\ RestType /\ Raisable /\ Entries

-----------------------------------------------------------------------------
(* The invariant has the type invariant in it. *)
LEMMA InvType == Inv => TypeOK
  BY DEF Inv, CallType, PendingType, RestType, TypeOK

(* No request has the number that stands for none. *)
LEMMA Markers == NoReq \notin Req /\ Empty \notin Req /\ Failed # Empty
  BY DapAssumption DEF Req, NoReq, Empty, Failed

(* Before the first call there are neither entries nor requests. *)
LEMMA InvInit == Init => Inv
  <1> SUFFICES ASSUME Init PROVE Inv
    OBVIOUS
  <1>1. DOMAIN pending = {}
    BY DEF Init
  <1>2. \A r \in Req : call[r] = New
    BY DEF Init
  <1>3. next_seq \in Seqs
    BY DapAssumption DEF Init, Seqs
  <1>4. outgoing \in Seq(Req) /\ Len(outgoing) <= Capacity
    BY DapAssumption DEF Init
  <1>5. CallType
    BY DapAssumption DEF Init, CallType, New, Places, Seqs
  <1>6. RestType
    BY <1>3, <1>4, ZenonT(30) DEF Init, RestType, Actors
  <1>7. PendingType /\ UnderItsNumber /\ NoneLeft
    BY <1>1 DEF PendingType, UnderItsNumber, NoneLeft
  <1>8. StillPending /\ Raisable
    BY <1>2 DEF StillPending, Raisable, Open, At, New
  <1> QED
    BY <1>5, <1>6, <1>7, <1>8 DEF Inv, Entries

(* A step that leaves callers and entries alone. *)
LEMMA Aside ==
  ASSUME Inv, UNCHANGED <<call, pending>>, RestType'
  PROVE  Inv'
  BY DEF Inv, CallType, PendingType, Entries, UnderItsNumber, NoneLeft, StillPending, Raisable, Open, At

(* A step of a caller from one place to another: the entries stay right    *)
(* when the call does not become Open without an entry, and does not stop  *)
(* being so without going to "dropping".                                   *)
LEMMA Moves ==
  ASSUME Inv, NEW r \in Req, NEW place \in Places,
         Goes(r, place), UNCHANGED pending, RestType',
         place # "raise",
         (place \in {"recheck", "send", "held", "waiting"}) => Open(r),
         Open(r) => place \in {"recheck", "send", "held", "waiting", "dropping"},
         At(r) # "dropping"
  PROVE  Inv'
  <1>1. CallType /\ call' = [call EXCEPT ![r].at = place]
    BY DEF Inv, Goes
  <1>2. CallType'
    BY <1>1 DEF CallType
  <1>3. /\ call'[r].at = place
        /\ \A q \in Req : q # r => call'[q] = call[q]
        /\ \A q \in Req : call'[q].seq = call[q].seq /\ call'[q].holds = call[q].holds
    BY <1>1 DEF CallType
  <1>4. PendingType /\ PendingType'
    BY DEF Inv, PendingType
  <1>5. \A q \in Req : Open(q)' => Open(q)
    BY <1>3 DEF Open, At
  <1>6. \A q \in Req : Open(q) \/ At(q) = "dropping" => Open(q)' \/ At(q)' = "dropping"
    BY <1>3 DEF Open, At
  <1>7. UnderItsNumber'
    BY <1>3, <1>4 DEF Inv, Entries, UnderItsNumber, PendingType
  <1>8. NoneLeft'
    BY <1>4, <1>6 DEF Inv, Entries, NoneLeft, PendingType
  <1>9. StillPending'
    BY <1>3, <1>5 DEF Inv, Entries, StillPending
  <1>10. Raisable'
    BY <1>3 DEF Inv, Raisable, At
  <1> QED
    BY <1>2, <1>4, <1>7, <1>8, <1>9, <1>10 DEF Inv, Entries

-----------------------------------------------------------------------------
(* DapClient::send and the waiter, where they touch no entry. *)
LEMMA InvMoves ==
  ASSUME Inv, NEW r \in Req,
         \/ CheckOpen(r) \/ Recheck(r) \/ SendFails(r) \/ Wait(r)
         \/ Discard(r) \/ GetResult(r) \/ TimeOut(r)
  PROVE  Inv'
  <1>1. UNCHANGED pending /\ RestType'
    BY DEF Inv, RestType, CheckOpen, Recheck, SendFails, Wait, Discard, GetResult, TimeOut, OnlyCall, Unsent, taskVars
  <1>2. CASE CheckOpen(r)
    <2>1. CASE closed
      BY <1>1, <1>2, <2>1, Moves DEF CheckOpen, Places, Open, At
    <2>2. CASE ~closed
      BY <1>1, <1>2, <2>2, Moves DEF CheckOpen, Places, Open, At
    <2> QED
      BY <2>1, <2>2
  <1>3. CASE Recheck(r)
    <2>1. CASE closed
      BY <1>1, <1>3, <2>1, Moves DEF Recheck, Places, Open, At
    <2>2. CASE ~closed
      BY <1>1, <1>3, <2>2, Moves DEF Recheck, Places, Open, At
    <2> QED
      BY <2>1, <2>2
  <1>4. CASE SendFails(r)
    BY <1>1, <1>4, Moves DEF SendFails, Places, Open, At
  <1>5. CASE Wait(r)
    BY <1>1, <1>5, Moves DEF Wait, Places, Open, At
  <1>6. CASE Discard(r)
    BY <1>1, <1>6, Moves DEF Discard, Places, Open, At
  <1>7. CASE GetResult(r)
    BY <1>1, <1>7, Moves DEF GetResult, Places, Open, At
  <1>8. CASE TimeOut(r)
    BY <1>1, <1>8, Moves DEF TimeOut, Places, Open, At
  <1> QED
    BY <1>2, <1>3, <1>4, <1>5, <1>6, <1>7, <1>8

(* A new call. *)
LEMMA InvCall ==
  ASSUME Inv, NEW r \in Req, NEW n \in Numbers, Call(r, n)
  PROVE  Inv'
  <1>1. RestType'
    BY DEF Inv, RestType, Call, Unsent, taskVars
  <1> QED
    BY <1>1, Moves DEF Call, Places, Open, At

(* A request gets its number while it has no entry, so no entry moves. *)
LEMMA InvRequestSequence ==
  ASSUME Inv, NEW r \in Req, RequestSequence(r)
  PROVE  Inv'
  <1> DEFINE seq == IF given[r] = NoNumber THEN next_seq ELSE given[r]
             place == IF seq + 1 = Width THEN "done" ELSE "raise"
  <1>1. CallType /\ PendingType /\ RestType
    BY DEF Inv
  <1>2. seq \in Seqs
    BY <1>1, DapAssumption, ZenonT(30) DEF RestType, NoNumber, Seqs
  <1>3. next_seq' \in Seqs
    BY <1>1, DapAssumption DEF RestType, RequestSequence, Advanced, Seqs
  <1>4. RestType'
    BY <1>1, <1>3 DEF RestType, RequestSequence, Unsent, taskVars
  <1>5. call' = [call EXCEPT ![r].seq = seq, ![r].at = place] /\ pending' = pending /\ At(r) = "number"
    BY DEF RequestSequence
  <1>6. place \in {"done", "raise"} /\ (place = "raise" => seq + 1 # Width)
    OBVIOUS
  <1> HIDE DEF seq, place
  <1>7. /\ call'[r].at = place /\ call'[r].seq = seq /\ call[r].at = "number"
        /\ \A q \in Req : q # r => call'[q] = call[q]
    BY <1>1, <1>5 DEF CallType, At
  <1>8. CallType'
    BY <1>1, <1>2, <1>5, <1>6, ZenonT(30) DEF CallType, Places
  <1>9. \A n \in DOMAIN pending : pending[n] \in Req /\ pending[n] # r
    BY <1>1, <1>7 DEF Inv, Entries, NoneLeft, PendingType, Open, At
  <1>10. PendingType'
    BY <1>1, <1>5 DEF PendingType
  <1>11. UnderItsNumber'
    BY <1>5, <1>7, <1>9, ZenonT(30) DEF Inv, Entries, UnderItsNumber
  <1>12. NoneLeft'
    BY <1>5, <1>7, <1>9, ZenonT(30) DEF Inv, Entries, NoneLeft, Open, At
  <1>13. ~Open(r)'
    BY <1>6, <1>7 DEF Open, At
  <1>14. StillPending'
    BY <1>5, <1>7, <1>13, ZenonT(30) DEF Inv, Entries, StillPending, Open, At
  <1>15. Raisable'
    BY <1>6, <1>7 DEF Inv, Raisable, At
  <1> QED
    BY <1>4, <1>8, <1>10, <1>11, <1>12, <1>14, <1>15 DEF Inv, Entries

(* fetch_max stays within the width, because checked_add passed. *)
LEMMA InvRaiseNext ==
  ASSUME Inv, NEW r \in Req, RaiseNext(r)
  PROVE  Inv'
  <1>1. call[r].seq \in Seqs /\ call[r].seq + 1 # Width /\ next_seq \in Seqs
    BY DEF Inv, CallType, RestType, Raisable, RaiseNext
  <1>2. next_seq' \in Seqs
    BY <1>1, DapAssumption DEF RaiseNext, Seqs
  <1>3. RestType'
    BY <1>2 DEF Inv, RestType, RaiseNext, Unsent, taskVars
  <1> QED
    BY <1>3, Moves DEF RaiseNext, Places, Open, At

(* The entry is made under a number that no other request has. *)
LEMMA InvInsert ==
  ASSUME Inv, NEW r \in Req, Insert(r)
  PROVE  Inv'
  <1> DEFINE seq == call[r].seq
  <1>1. RestType'
    BY DEF Inv, RestType, Insert, Unsent, taskVars
  <1>2. CASE seq \in DOMAIN pending
    BY <1>1, <1>2, Moves DEF Insert, Places, Open, At
  <1>3. CASE seq \notin DOMAIN pending
    <2>1. CallType /\ PendingType /\ seq \in Seqs
      BY DEF Inv, CallType
    <2>2. /\ call' = [call EXCEPT ![r].at = "recheck"]
          /\ pending' = [n \in DOMAIN pending \cup {seq} |-> IF n = seq THEN r ELSE pending[n]]
          /\ call[r].at = "insert"
      BY <1>3 DEF Insert, Goes, At
    <2>3. /\ call'[r].at = "recheck"
          /\ \A q \in Req : q # r => call'[q] = call[q]
          /\ \A q \in Req : call'[q].seq = call[q].seq /\ call'[q].holds = call[q].holds
      BY <2>1, <2>2 DEF CallType
    <2>4. CallType'
      BY <2>1, <2>2 DEF CallType, Places
    <2> HIDE DEF seq
    <2>5. /\ DOMAIN pending' = DOMAIN pending \cup {seq} /\ pending'[seq] = r
          /\ \A n \in DOMAIN pending : pending'[n] = pending[n]
      BY <1>3, <2>2
    <2>6. PendingType'
      BY <2>1, <2>5 DEF PendingType
    <2>7. UnderItsNumber'
      BY <2>1, <2>3, <2>5 DEF Inv, Entries, UnderItsNumber, PendingType, seq
    <2>8. \A n \in DOMAIN pending : pending[n] \in Req /\ pending[n] # r
      BY <2>1, <2>2 DEF Inv, Entries, NoneLeft, PendingType, Open, At
    <2>9. NoneLeft'
      BY <2>3, <2>5, <2>8 DEF Inv, Entries, NoneLeft, Open, At
    <2>10. StillPending'
      BY <2>3, <2>5 DEF Inv, Entries, StillPending, Open, At, seq
    <2>11. Raisable'
      BY <2>3 DEF Inv, Raisable, At
    <2> QED
      BY <1>1, <2>4, <2>6, <2>7, <2>9, <2>10, <2>11 DEF Inv, Entries
  <1> QED
    BY <1>2, <1>3

(* The frame enters the channel. *)
LEMMA InvSend ==
  ASSUME Inv, NEW r \in Req, Send(r)
  PROVE  Inv'
  <1>1. outgoing' \in Seq(Req) /\ Len(outgoing') <= Capacity
    BY DapAssumption DEF Inv, RestType, Send
  <1>2. RestType'
    BY <1>1 DEF Inv, RestType, Send, taskVars
  <1> QED
    BY <1>2, Moves DEF Send, Places, Open, At

(* Drop takes an entry only when its receiver is closed: its own, or that  *)
(* of another call that is being dropped.                                  *)
LEMMA InvDrop ==
  ASSUME Inv, NEW r \in Req, Drop(r)
  PROVE  Inv'
  <1>1. CallType /\ PendingType
    BY DEF Inv
  <1>2. RestType'
    BY DEF Inv, RestType, Drop, Unsent, taskVars
  <1>3. /\ call' = [call EXCEPT ![r].at = "done", ![r].holds = Empty]
        /\ pending' = [n \in DOMAIN pending \ Released(r) |-> pending[n]]
        /\ call[r].at = "dropping"
    BY DEF Drop, At
  <1>4. /\ call'[r].at = "done"
        /\ \A q \in Req : q # r => call'[q] = call[q]
        /\ \A q \in Req : call'[q].seq = call[q].seq
    BY <1>1, <1>3 DEF CallType
  <1>5. CallType'
    BY <1>1, <1>3, ZenonT(30) DEF CallType, Places
  <1>6. /\ DOMAIN pending' = DOMAIN pending \ Released(r)
        /\ \A n \in DOMAIN pending' : pending'[n] = pending[n]
    BY <1>3
  <1>7. PendingType'
    BY <1>1, <1>6 DEF PendingType
  <1>8. UnderItsNumber'
    BY <1>1, <1>4, <1>6 DEF Inv, Entries, UnderItsNumber, PendingType
  <1>9. \A n \in DOMAIN pending' : pending[n] \in Req /\ pending[n] # r
    BY <1>1, <1>3, <1>6 DEF Inv, Entries, UnderItsNumber, PendingType, Released, Open, At
  <1>10. NoneLeft'
    BY <1>4, <1>6, <1>9 DEF Inv, Entries, NoneLeft, Open, At
  <1>11. StillPending'
    <2> SUFFICES ASSUME NEW q \in Req, Open(q)', call'[q].holds = Empty
                 PROVE  call'[q].seq \in DOMAIN pending' /\ pending'[call'[q].seq] = q
      BY DEF StillPending
    <2>1. q # r /\ call'[q] = call[q] /\ Open(q)
      BY <1>4 DEF Open, At
    <2>2. call[q].seq \in DOMAIN pending /\ pending[call[q].seq] = q
      BY <2>1 DEF Inv, Entries, StillPending
    <2>3. call[q].seq \notin Released(r)
      BY <2>1, <2>2 DEF Released
    <2> QED
      BY <1>6, <2>1, <2>2, <2>3
  <1>12. Raisable'
    BY <1>4 DEF Inv, Raisable, At
  <1> QED
    BY <1>2, <1>5, <1>7, <1>8, <1>10, <1>11, <1>12 DEF Inv, Entries

-----------------------------------------------------------------------------
(* A response takes the entry under its number and fills that request. *)
LEMMA InvRespond ==
  ASSUME Inv, NEW r \in Req, Respond(r)
  PROVE  Inv'
  <1> DEFINE seq == call[r].seq
             fills == seq \in DOMAIN pending /\ Open(pending[seq])
  <1>1. CallType /\ PendingType
    BY DEF Inv
  <1>2. RestType'
    BY DEF Inv, RestType, Respond
  <1>3. /\ pending' = [n \in DOMAIN pending \ {seq} |-> pending[n]]
        /\ call' = IF fills THEN [call EXCEPT ![pending[seq]].holds = r] ELSE call
    BY DEF Respond, Without
  <1> HIDE DEF seq
  <1>4. /\ DOMAIN pending' = DOMAIN pending \ {seq}
        /\ \A n \in DOMAIN pending' : pending'[n] = pending[n]
    BY <1>3
  <1>5. fills => pending[seq] \in Req
    BY <1>1 DEF PendingType
  <1>6. CallType'
    BY <1>1, <1>3, <1>5 DEF CallType
  <1>7. \A q \in Req : call'[q].seq = call[q].seq /\ call'[q].at = call[q].at
    BY <1>1, <1>3, <1>5 DEF CallType
  <1>8. \A q \in Req : call'[q].holds = call[q].holds \/ call'[q].holds = r
    BY <1>1, <1>3, <1>5 DEF CallType
  <1>9. fills => call'[pending[seq]].holds = r
    BY <1>1, <1>3, <1>5 DEF CallType
  <1>10. PendingType'
    BY <1>1, <1>4 DEF PendingType
  <1>11. UnderItsNumber'
    BY <1>1, <1>4, <1>7 DEF Inv, Entries, UnderItsNumber, PendingType
  <1>12. NoneLeft'
    BY <1>1, <1>4, <1>7 DEF Inv, Entries, NoneLeft, PendingType, Open, At
  <1>13. StillPending'
    <2> SUFFICES ASSUME NEW q \in Req, Open(q)', call'[q].holds = Empty
                 PROVE  call'[q].seq \in DOMAIN pending' /\ pending'[call'[q].seq] = q
      BY DEF StillPending
    <2>1. Open(q) /\ call[q].holds = Empty /\ call'[q].holds # r
      BY <1>7, <1>8, Markers DEF Open, At
    <2>2. call[q].seq \in DOMAIN pending /\ pending[call[q].seq] = q
      BY <2>1 DEF Inv, Entries, StillPending
    <2>3. call[q].seq # seq
      BY <1>9, <2>1, <2>2
    <2> QED
      BY <1>4, <1>7, <2>2, <2>3
  <1>14. Raisable'
    BY <1>7 DEF Inv, Raisable, At
  <1> QED
    BY <1>2, <1>6, <1>10, <1>11, <1>12, <1>13, <1>14 DEF Inv, Entries

(* fail_pending leaves no entry, and no open request without a result. *)
LEMMA InvDrain ==
  ASSUME Inv, NEW a \in Actors, Drain(a)
  PROVE  Inv'
  <1>1. CallType /\ PendingType
    BY DEF Inv
  <1>2. RestType'
    BY DEF Inv, RestType, Drain
  <1>3. call' = [q \in Req |-> IF q \in Drained /\ Open(q) THEN [call[q] EXCEPT !.holds = Failed] ELSE call[q]]
    BY DEF Drain
  <1>4. CallType'
    BY <1>1, <1>3 DEF CallType
  <1>5. /\ \A q \in Req : call'[q].seq = call[q].seq /\ call'[q].at = call[q].at
        /\ \A q \in Req : q \in Drained /\ Open(q) => call'[q].holds = Failed
        /\ \A q \in Req : ~(q \in Drained /\ Open(q)) => call'[q] = call[q]
    BY <1>1, <1>3 DEF CallType
  <1>6. DOMAIN pending' = {}
    BY DEF Drain, Drained
  <1>7. PendingType' /\ UnderItsNumber' /\ NoneLeft'
    BY <1>6 DEF PendingType, UnderItsNumber, NoneLeft
  <1>8. \A q \in Req : Open(q) /\ call[q].holds = Empty => q \in Drained
    BY DEF Inv, Entries, StillPending, Drained
  <1>9. \A q \in Req : ~(Open(q)' /\ call'[q].holds = Empty)
    BY <1>5, <1>8, Markers DEF Open, At
  <1>10. StillPending'
    BY <1>9 DEF StillPending
  <1>11. Raisable'
    BY <1>5 DEF Inv, Raisable, At
  <1> QED
    BY <1>2, <1>4, <1>7, <1>10, <1>11 DEF Inv, Entries

(* The other steps of the tasks and of a close leave the entries alone. *)
LEMMA InvTasks ==
  ASSUME Inv, Writer \/ ReaderEnds \/ Close \/ \E a \in Actors : SetReason(a)
  PROVE  Inv'
  <1>1. RestType
    BY DEF Inv
  <1>2. CASE TakeFrame
    <2>1. outgoing' \in Seq(Req) /\ Len(outgoing') <= Capacity /\ writing' \in Req
      BY <1>1, <1>2, DapAssumption DEF RestType, TakeFrame
    <2>2. RestType'
      BY <1>1, <1>2, <2>1 DEF RestType, TakeFrame
    <2> QED
      BY <1>2, <2>2, Aside DEF TakeFrame
  <1>3. CASE WriteFrame
    <2>1. RestType'
      BY <1>1, <1>3 DEF RestType, WriteFrame
    <2> QED
      BY <1>3, <2>1, Aside DEF WriteFrame
  <1>4. CASE WriterEnds
    <2>1. outgoing' \in Seq(Req) /\ Len(outgoing') <= Capacity
      BY <1>4, DapAssumption DEF WriterEnds
    <2>2. RestType'
      BY <1>1, <1>4, <2>1, ZenonT(30) DEF RestType, WriterEnds
    <2> QED
      BY <1>4, <2>2, Aside DEF WriterEnds
  <1>5. CASE ReaderEnds
    <2>1. RestType'
      BY <1>1, <1>5, ZenonT(30) DEF RestType, ReaderEnds
    <2> QED
      BY <1>5, <2>1, Aside DEF ReaderEnds
  <1>6. CASE Close
    <2>1. RestType'
      BY <1>1, <1>6, ZenonT(30) DEF RestType, Close
    <2> QED
      BY <1>6, <2>1, Aside DEF Close
  <1>7. ASSUME NEW a \in Actors, SetReason(a) PROVE Inv'
    <2>1. RestType'
      BY <1>1, <1>7 DEF RestType, SetReason
    <2> QED
      BY <1>7, <2>1, Aside DEF SetReason
  <1> QED
    BY <1>2, <1>3, <1>4, <1>5, <1>6, <1>7 DEF Writer

-----------------------------------------------------------------------------
(* Every step of the client preserves the invariant. *)
LEMMA InvNext == Inv /\ [Next]_vars => Inv'
  <1> SUFFICES ASSUME Inv, [Next]_vars PROVE Inv'
    OBVIOUS
  <1>1. CASE UNCHANGED vars
    <2>1. RestType'
      BY <1>1 DEF Inv, RestType, vars, taskVars
    <2> QED
      BY <1>1, <2>1, Aside DEF vars
  <1>2. ASSUME NEW r \in Req,
               Caller(r) \/ Wait(r) \/ Discard(r) \/ TimeOut(r) \/ Respond(r) \/ \E n \in Numbers : Call(r, n)
        PROVE  Inv'
    BY <1>2, InvMoves, InvCall, InvRequestSequence, InvRaiseNext, InvInsert, InvSend, InvDrop, InvRespond
       DEF Caller
  <1>3. ASSUME NEW a \in Actors, Fail(a) PROVE Inv'
    BY <1>3, InvDrain, InvTasks DEF Fail
  <1>4. CASE Writer \/ ReaderEnds \/ Close
    BY <1>4, InvTasks
  <1> QED
    BY <1>1, <1>2, <1>3, <1>4 DEF Next

(* The invariant holds in every reachable state. *)
THEOREM Invariance == Spec => []Inv
  BY InvInit, InvNext, PTL DEF Spec

(* The state of the client is always well formed: in particular next_seq,  *)
(* which fetch_add and fetch_max change without a common lock, stays in    *)
(* its width.                                                              *)
THEOREM TypeCorrect == Spec => []TypeOK
  BY Invariance, InvType, PTL

(* A request that was accepted and has no result keeps its entry in        *)
(* `pending`, whatever other requests use its number, time out, are        *)
(* dropped or are answered meanwhile.                                      *)
THEOREM EntryKept == Spec => []StillPending
  <1>1. Inv => StillPending
    BY DEF Inv, Entries
  <1> QED
    BY <1>1, Invariance, PTL

(* A request that is over leaves no entry behind. *)
THEOREM NoEntryLeft == Spec => []NoneLeft
  <1>1. Inv => NoneLeft
    BY DEF Inv, Entries
  <1> QED
    BY <1>1, Invariance, PTL

-----------------------------------------------------------------------------
(* OwnResponse.  It rests on every request having a number of its own,      *)
(* which is so only until the counter wraps: the client must make fewer     *)
(* requests than there are numbers.                                         *)
FewRequests == MaxRequests + 1 < Width

Free == \A r \in Req : given[r] = NoNumber
Uncalled == \A r \in Req : At(r) = "new" => given[r] = NoNumber

(* The requests that have a number, and the places after it is given. *)
Numbered == {r \in Req : call[r].seq # 0}
After == {"raise", "insert", "recheck", "send", "held", "waiting", "dropping"}
Before == {"new", "start", "number"}

(* The numbers given so far are 1 .. next_seq - 1, each to one request. *)
Counted ==
  /\ next_seq = Cardinality(Numbered) + 1
  /\ \A r \in Req : call[r].seq < next_seq
  /\ \A q, r \in Numbered : call[q].seq = call[r].seq => q = r

(* A request has no number before request_sequence, and has one from then  *)
(* on, in the channel, in the writer and at the adapter.                   *)
Given ==
  /\ \A r \in Req : At(r) \in Before => call[r].seq = 0
  /\ \A r \in Req : At(r) \in After \/ r \in adapter => r \in Numbered
  /\ writing # NoReq => writing \in Numbered
  /\ \A i \in 1 .. Len(outgoing) : outgoing[i] \in Numbered

Own == \A r \in Req : call[r].holds \in Req => call[r].holds = r
OwnInv == Uncalled /\ (Free => Counted /\ Given /\ Own)

(* No request has a number at first. *)
LEMMA OwnInit == Init => OwnInv
  <1> SUFFICES ASSUME Init PROVE OwnInv
    OBVIOUS
  <1>1. \A r \in Req : call[r].at = "new" /\ call[r].seq = 0 /\ call[r].holds = Empty
    BY DEF Init, New
  <1>2. Numbered = {}
    BY <1>1 DEF Numbered
  <1>3. Counted
    BY <1>1, <1>2, FS_EmptySet DEF Counted, Init
  <1>4. Given
    BY <1>1 DEF Given, Init, At, After, Before
  <1>5. Own
    BY <1>1, Markers DEF Own
  <1>6. Uncalled
    BY DEF Init, Uncalled
  <1> QED
    BY <1>3, <1>4, <1>5, <1>6 DEF OwnInv

(* A step that gives no number, and sends only requests that have one. *)
LEMMA OwnKeeps ==
  ASSUME Inv, OwnInv, Free' => Free, Uncalled',
         Free => next_seq' = next_seq,
         \A r \in Req : call'[r].seq = call[r].seq,
         \A r \in Req : At(r)' \in Before => At(r) \in Before,
         \A r \in Req : At(r)' \in After => At(r) \in After,
         \A r \in adapter' : r \in adapter \/ r = writing,
         writing' # NoReq => writing' = writing \/ \E i \in 1 .. Len(outgoing) : writing' = outgoing[i],
         \A i \in 1 .. Len(outgoing') : \/ \E j \in 1 .. Len(outgoing) : outgoing'[i] = outgoing[j]
                                        \/ outgoing'[i] \in Req /\ At(outgoing'[i]) \in After,
         adapter' \subseteq Req,
         Free => Own'
  PROVE  OwnInv'
  <1> SUFFICES ASSUME Free' PROVE Counted' /\ Given' /\ Own'
    BY DEF OwnInv
  <1>1. Free /\ Counted /\ Given /\ Own
    BY DEF OwnInv
  <1>2. Numbered' = Numbered
    BY DEF Numbered
  <1>3. Counted'
    <2>1. next_seq' = next_seq /\ \A r \in Req : call'[r].seq = call[r].seq
      BY <1>1
    <2>2. \A r \in Numbered : r \in Req
      BY DEF Numbered
    <2>3. \A q, r \in Numbered' : call'[q].seq = call'[r].seq => q = r
      <3> SUFFICES ASSUME NEW q \in Numbered, NEW r \in Numbered, call'[q].seq = call'[r].seq PROVE q = r
        BY <1>2
      <3>1. call[q].seq = call[r].seq
        BY <2>1, <2>2
      <3> QED
        BY <1>1, <3>1 DEF Counted
    <2>4. next_seq' = Cardinality(Numbered') + 1
      BY <1>1, <1>2, <2>1 DEF Counted
    <2>5. \A r \in Req : call'[r].seq < next_seq'
      BY <1>1, <2>1 DEF Counted
    <2> QED
      BY <2>3, <2>4, <2>5 DEF Counted
  <1>4. \A r \in Req : At(r)' \in Before => call'[r].seq = 0
    BY <1>1 DEF Given
  <1>5. \A r \in Req : At(r)' \in After \/ r \in adapter' => r \in Numbered'
    BY <1>1, <1>2, Markers, ZenonT(30) DEF Given
  <1>6. writing' # NoReq => writing' \in Numbered'
    BY <1>1, <1>2, ZenonT(30) DEF Given
  <1>7. \A i \in 1 .. Len(outgoing') : outgoing'[i] \in Numbered'
    BY <1>1, <1>2, ZenonT(30) DEF Given
  <1>8. Given'
    BY <1>4, <1>5, <1>6, <1>7, ZenonT(30) DEF Given
  <1> QED
    BY <1>1, <1>3, <1>8

(* A caller goes from one place to another and does nothing else. *)
LEMMA OwnGoes ==
  ASSUME Inv, OwnInv, NEW r \in Req, NEW place \in Places,
         Goes(r, place), place \in After => At(r) \in After,
         place \in Before => At(r) \in Before /\ place # "new",
         UNCHANGED given, Free => next_seq' = next_seq, UNCHANGED taskVars,
         \A i \in 1 .. Len(outgoing') : \/ \E j \in 1 .. Len(outgoing) : outgoing'[i] = outgoing[j]
                                        \/ outgoing'[i] = r /\ At(r) \in After
  PROVE  OwnInv'
  <1>1. CallType /\ adapter \subseteq Req
    BY DEF Inv, RestType
  <1>2. \A q \in Req : call'[q].seq = call[q].seq /\ call'[q].holds = call[q].holds
    BY <1>1 DEF CallType, Goes
  <1>3. /\ call'[r].at = place
        /\ \A q \in Req : q # r => call'[q].at = call[q].at
    BY <1>1 DEF CallType, Goes
  <1>4. \A q \in Req : (At(q)' \in Before => At(q) \in Before) /\ (At(q)' \in After => At(q) \in After)
    BY <1>3, ZenonT(30) DEF At
  <1>5. \A q \in Req : At(q)' = "new" => At(q) = "new"
    BY <1>3 DEF At, Before
  <1>6. Uncalled'
    BY <1>5 DEF OwnInv, Uncalled
  <1>7. Free' => Free
    BY DEF Free
  <1>8. Free => Own'
    BY <1>2, ZenonT(30) DEF OwnInv, Own
  <1>9. /\ \A q \in adapter' : q \in adapter
        /\ writing' = writing /\ adapter' \subseteq Req
    BY <1>1 DEF taskVars
  <1>10. \A i \in 1 .. Len(outgoing') : \/ \E j \in 1 .. Len(outgoing) : outgoing'[i] = outgoing[j]
                                        \/ outgoing'[i] \in Req /\ At(outgoing'[i]) \in After
    BY ZenonT(30)
  <1> QED
    BY <1>2, <1>4, <1>6, <1>7, <1>8, <1>9, <1>10, OwnKeeps, ZenonT(30)

(* Steps of a caller that change its place only. *)
LEMMA OwnMoves ==
  ASSUME Inv, OwnInv, NEW r \in Req,
         \/ CheckOpen(r) \/ Recheck(r) \/ SendFails(r) \/ Wait(r)
         \/ Discard(r) \/ GetResult(r) \/ TimeOut(r) \/ Insert(r)
  PROVE  OwnInv'
  <1>1. UNCHANGED <<given, next_seq, outgoing, taskVars>>
    BY DEF CheckOpen, Recheck, SendFails, Wait, Discard, GetResult, TimeOut, Insert, OnlyCall, Unsent
  <1>2. \A i \in 1 .. Len(outgoing') : \E j \in 1 .. Len(outgoing) : outgoing'[i] = outgoing[j]
    BY <1>1
  <1>3. \E place \in Places :
          /\ Goes(r, place)
          /\ place \in After => At(r) \in After
          /\ place \in Before => At(r) \in Before /\ place # "new"
    <2>1. CASE CheckOpen(r)
      BY <2>1 DEF CheckOpen, Places, Before, After
    <2>2. CASE Recheck(r)
      BY <2>2 DEF Recheck, Places, Before, After
    <2>3. CASE SendFails(r) \/ Discard(r) \/ GetResult(r) \/ TimeOut(r)
      BY <2>3 DEF SendFails, Discard, GetResult, TimeOut, Places, Before, After
    <2>4. CASE Wait(r)
      BY <2>4 DEF Wait, Places, Before, After
    <2>5. CASE Insert(r)
      BY <2>5 DEF Insert, Places, Before, After
    <2> QED
      BY <2>1, <2>2, <2>3, <2>4, <2>5
  <1> QED
    BY <1>1, <1>2, <1>3, OwnGoes, ZenonT(30)

(* A caller that brings a number of its own ends the guarantee. *)
LEMMA OwnCall ==
  ASSUME Inv, OwnInv, NEW r \in Req, NEW n \in Numbers, Call(r, n)
  PROVE  OwnInv'
  <1>1. CallType /\ given \in [Req -> Numbers \cup {NoNumber}] /\ adapter \subseteq Req
    BY DEF Inv, RestType
  <1>2. given[r] = NoNumber
    BY DEF Call, OwnInv, Uncalled
  <1>3. \A q \in Req : q # r => given'[q] = given[q]
    BY <1>1 DEF Call
  <1>4. Free' => Free
    BY <1>2, <1>3 DEF Free
  <1>5. call' = [call EXCEPT ![r].at = "start"] /\ At(r) = "new"
    BY DEF Call, Goes
  <1>6. \A q \in Req : call'[q].seq = call[q].seq /\ call'[q].holds = call[q].holds
    BY <1>1, <1>5 DEF CallType
  <1>7. call'[r].at = "start" /\ \A q \in Req : q # r => call'[q].at = call[q].at
    BY <1>1, <1>5 DEF CallType
  <1>8. \A q \in Req : (At(q)' \in Before => At(q) \in Before) /\ (At(q)' \in After => At(q) \in After)
    BY <1>5, <1>7 DEF At, Before, After
  <1>9. Uncalled'
    BY <1>3, <1>7 DEF OwnInv, Uncalled, At
  <1>10. Free => Own'
    BY <1>6, ZenonT(30) DEF OwnInv, Own
  <1>11. UNCHANGED <<next_seq, outgoing, writing, adapter>>
    BY DEF Call, Unsent, taskVars
  <1> QED
    BY <1>1, <1>4, <1>6, <1>8, <1>9, <1>10, <1>11, OwnKeeps, ZenonT(30)

(* fetch_max changes nothing: the number was below the counter. *)
LEMMA OwnRaiseNext ==
  ASSUME Inv, OwnInv, NEW r \in Req, RaiseNext(r)
  PROVE  OwnInv'
  <1>1. UNCHANGED <<given, outgoing, taskVars>> /\ Goes(r, "insert") /\ At(r) = "raise"
    BY DEF RaiseNext, Unsent
  <1>2. call[r].seq \in Nat /\ next_seq \in Nat
    BY DapAssumption DEF Inv, CallType, RestType, Seqs
  <1>3. Free => next_seq' = next_seq
    BY <1>2 DEF RaiseNext, OwnInv, Counted
  <1> QED
    BY <1>1, <1>3, OwnGoes, ZenonT(30) DEF Places, Before, After

(* The frame of a request that has its number. *)
LEMMA OwnSend ==
  ASSUME Inv, OwnInv, NEW r \in Req, Send(r)
  PROVE  OwnInv'
  <1>1. UNCHANGED <<given, next_seq, taskVars>> /\ Goes(r, "held") /\ At(r) = "send"
    BY DEF Send
  <1>2. outgoing \in Seq(Req) /\ outgoing' = Append(outgoing, r)
    BY DEF Send, Inv, RestType
  <1>3. \A i \in 1 .. Len(outgoing') : (\E j \in 1 .. Len(outgoing) : outgoing'[i] = outgoing[j]) \/ outgoing'[i] = r
    BY <1>2
  <1> QED
    BY <1>1, <1>3, OwnGoes, ZenonT(30) DEF Places, Before, After

(* Dropping a request forgets what it holds. *)
LEMMA OwnDrop ==
  ASSUME Inv, OwnInv, NEW r \in Req, Drop(r)
  PROVE  OwnInv'
  <1>1. CallType /\ adapter \subseteq Req
    BY DEF Inv, RestType
  <1>2. call' = [call EXCEPT ![r].at = "done", ![r].holds = Empty]
    BY DEF Drop
  <1>3. /\ \A q \in Req : call'[q].seq = call[q].seq
        /\ \A q \in Req : q # r => call'[q] = call[q]
        /\ call'[r].at = "done" /\ call'[r].holds = Empty
    BY <1>1, <1>2 DEF CallType
  <1>4. \A q \in Req : (At(q)' \in Before => At(q) \in Before) /\ (At(q)' \in After => At(q) \in After)
    BY <1>3 DEF At, Before, After
  <1>5. UNCHANGED <<given, next_seq, outgoing, writing, adapter>>
    BY DEF Drop, Unsent, taskVars
  <1>6. Uncalled'
    BY <1>3, <1>5 DEF OwnInv, Uncalled, At
  <1>7. Free' => Free
    BY <1>5 DEF Free
  <1>8. Free => Own'
    BY <1>3, Markers, ZenonT(30) DEF OwnInv, Own
  <1> QED
    BY <1>1, <1>3, <1>4, <1>5, <1>6, <1>7, <1>8, OwnKeeps, ZenonT(30)

(* A step of fail_pending or of a task leaves places and numbers alone. *)
LEMMA OwnTasks ==
  ASSUME Inv, OwnInv,
         Writer \/ ReaderEnds \/ Close \/ UNCHANGED vars \/ \E a \in Actors : Fail(a)
  PROVE  OwnInv'
  <1>1. CallType /\ adapter \subseteq Req /\ outgoing \in Seq(Req) /\ writing \in Req \cup {NoReq}
    BY DEF Inv, RestType
  <1>2. UNCHANGED <<given, next_seq>>
    <2>1. CASE Writer
      BY <2>1 DEF Writer, TakeFrame, WriteFrame, WriterEnds
    <2>2. CASE ReaderEnds \/ Close \/ UNCHANGED vars
      BY <2>2 DEF ReaderEnds, Close, vars
    <2>3. ASSUME NEW a \in Actors, Fail(a) PROVE UNCHANGED <<given, next_seq>>
      BY <2>3 DEF Fail, SetReason, Drain
    <2> QED
      BY <2>1, <2>2, <2>3
  <1>3. \A q \in Req : /\ call'[q].seq = call[q].seq /\ call'[q].at = call[q].at
                       /\ call'[q].holds = call[q].holds \/ call'[q].holds = Failed
    <2>1. CASE UNCHANGED call
      BY <2>1
    <2>2. ASSUME NEW a \in Actors, Drain(a)
          PROVE  \A q \in Req : /\ call'[q].seq = call[q].seq /\ call'[q].at = call[q].at
                                /\ call'[q].holds = call[q].holds \/ call'[q].holds = Failed
      BY <1>1, <2>2 DEF Drain, CallType
    <2>3. UNCHANGED call \/ \E a \in Actors : Drain(a)
      BY DEF Writer, TakeFrame, WriteFrame, WriterEnds, ReaderEnds, Close, Fail, SetReason, vars
    <2> QED
      BY <2>1, <2>2, <2>3
  <1>4. /\ \A r \in adapter' : r \in adapter \/ (r = writing /\ writing # NoReq)
        /\ writing' # NoReq => writing' = writing \/ \E i \in 1 .. Len(outgoing) : writing' = outgoing[i]
        /\ \A i \in 1 .. Len(outgoing') : \E j \in 1 .. Len(outgoing) : outgoing'[i] = outgoing[j]
    <2>1. CASE TakeFrame
      BY <1>1, <2>1 DEF TakeFrame
    <2>2. CASE WriteFrame
      BY <1>1, <2>2 DEF WriteFrame
    <2>3. CASE WriterEnds
      BY <1>1, <2>3 DEF WriterEnds
    <2>4. CASE UNCHANGED <<adapter, writing, outgoing>>
      BY <2>4
    <2>5. TakeFrame \/ WriteFrame \/ WriterEnds \/ UNCHANGED <<adapter, writing, outgoing>>
      <3>1. CASE Writer
        BY <3>1 DEF Writer
      <3>2. CASE ReaderEnds \/ Close \/ UNCHANGED vars
        BY <3>2 DEF ReaderEnds, Close, vars, taskVars
      <3>3. ASSUME NEW a \in Actors, Fail(a) PROVE UNCHANGED <<adapter, writing, outgoing>>
        BY <3>3 DEF Fail, SetReason, Drain
      <3> QED
        BY <3>1, <3>2, <3>3
    <2> QED
      BY <2>1, <2>2, <2>3, <2>4, <2>5
  <1>5. Uncalled'
    BY <1>2, <1>3 DEF OwnInv, Uncalled, At
  <1>6. Free' => Free
    BY <1>2 DEF Free
  <1>7. Failed \notin Req
    BY DapAssumption DEF Req, Failed
  <1>8. Free => Own'
    BY <1>3, <1>7, ZenonT(30) DEF OwnInv, Own
  <1>9. adapter' \subseteq Req
    BY <1>1, <1>4
  <1>10. \A q \in Req : (At(q)' \in Before => At(q) \in Before) /\ (At(q)' \in After => At(q) \in After)
    BY <1>3 DEF At
  <1> QED
    BY <1>2, <1>3, <1>4, <1>5, <1>6, <1>8, <1>9, <1>10, OwnKeeps, ZenonT(30)

(* The response to r finds r: the entry under its number is of a request   *)
(* with that number, and there is only one.                                *)
LEMMA OwnRespond ==
  ASSUME Inv, OwnInv, NEW r \in Req, Respond(r)
  PROVE  OwnInv'
  <1> DEFINE seq == call[r].seq
             fills == seq \in DOMAIN pending /\ Open(pending[seq])
  <1>1. CallType /\ PendingType /\ UnderItsNumber /\ adapter \subseteq Req
    BY DEF Inv, RestType, Entries
  <1>2. /\ call' = IF fills THEN [call EXCEPT ![pending[seq]].holds = r] ELSE call
        /\ r \in adapter
    BY DEF Respond
  <1>3. UNCHANGED <<given, next_seq, outgoing, writing>> /\ adapter' \subseteq adapter
    BY DEF Respond
  <1> HIDE DEF seq
  <1>4. fills => pending[seq] \in Req
    BY <1>1 DEF PendingType
  <1>5. \A q \in Req : call'[q].seq = call[q].seq /\ call'[q].at = call[q].at
    BY <1>1, <1>2, <1>4 DEF CallType
  <1>6. \A q \in Req : call'[q].holds = call[q].holds \/ (fills /\ q = pending[seq] /\ call'[q].holds = r)
    BY <1>1, <1>2, <1>4 DEF CallType
  <1>7. Free /\ fills => pending[seq] = r
    <2> SUFFICES ASSUME Free, fills PROVE pending[seq] = r
      OBVIOUS
    <2>1. call[pending[seq]].seq = seq
      BY <1>1 DEF UnderItsNumber
    <2>2. r \in Numbered
      BY <1>2 DEF OwnInv, Given
    <2>3. pending[seq] \in Numbered
      BY <1>4, <2>1, <2>2 DEF Numbered, seq
    <2> QED
      BY <2>1, <2>2, <2>3 DEF OwnInv, Counted, seq
  <1>8. Free => Own'
    BY <1>6, <1>7, ZenonT(30) DEF OwnInv, Own
  <1>9. Uncalled'
    BY <1>3, <1>5 DEF OwnInv, Uncalled, At
  <1>10. Free' => Free
    BY <1>3 DEF Free
  <1>11. \A q \in Req : (At(q)' \in Before => At(q) \in Before) /\ (At(q)' \in After => At(q) \in After)
    BY <1>5 DEF At
  <1>12. adapter' \subseteq Req
    BY <1>1, <1>3
  <1> QED
    BY <1>3, <1>5, <1>8, <1>9, <1>10, <1>11, <1>12, OwnKeeps, ZenonT(30)

(* request_sequence gives a number that no request has: the counter stands *)
(* above all of them, and has not come round.                              *)
LEMMA OwnRequestSequence ==
  ASSUME Inv, OwnInv, FewRequests, NEW r \in Req, RequestSequence(r)
  PROVE  OwnInv'
  <1>1. CallType /\ adapter \subseteq Req /\ next_seq \in Seqs
    BY DEF Inv, RestType
  <1>2. UNCHANGED <<given, outgoing, writing, adapter>> /\ At(r) = "number"
    BY DEF RequestSequence, Unsent, taskVars
  <1> DEFINE seq == IF given[r] = NoNumber THEN next_seq ELSE given[r]
             place == IF seq + 1 = Width THEN "done" ELSE "raise"
  <1>3. call' = [call EXCEPT ![r].seq = seq, ![r].at = place]
    BY DEF RequestSequence
  <1>4. place \notin Before /\ (given[r] = NoNumber => seq = next_seq)
    BY DEF Before
  <1> HIDE DEF seq, place
  <1>5. /\ call'[r].at = place /\ call'[r].seq = seq
        /\ \A q \in Req : q # r => call'[q] = call[q]
        /\ \A q \in Req : call'[q].holds = call[q].holds
    BY <1>1, <1>3 DEF CallType
  <1>6. Uncalled'
    BY <1>2, <1>4, <1>5 DEF OwnInv, Uncalled, At, Before
  <1> SUFFICES ASSUME Free' PROVE Counted' /\ Given' /\ Own'
    BY <1>6 DEF OwnInv
  <1>7. Free /\ Counted /\ Given /\ Own
    BY <1>2 DEF OwnInv, Free
  <1>8. seq = next_seq /\ next_seq' = Advanced
    BY <1>4, <1>7 DEF Free, RequestSequence
  <1>9. r \notin Numbered /\ call[r].seq = 0
    BY <1>2, <1>7 DEF Given, Numbered, Before
  <1>10. /\ IsFiniteSet(Numbered) /\ Cardinality(Numbered) \in Nat
         /\ Cardinality(Numbered \cup {r}) = Cardinality(Numbered) + 1
         /\ Cardinality(Numbered \cup {r}) <= MaxRequests
    <2>1. IsFiniteSet(Req) /\ Cardinality(Req) = MaxRequests
      BY FS_Interval, DapAssumption DEF Req
    <2>2. Numbered \in SUBSET Req /\ Numbered \cup {r} \in SUBSET Req
      BY DEF Numbered
    <2>3. IsFiniteSet(Numbered)
      BY <2>1, <2>2, FS_Subset, ZenonT(30)
    <2>4. Cardinality(Numbered) \in Nat
      BY <2>3, FS_CardinalityType
    <2>5. Cardinality(Numbered \cup {r}) = Cardinality(Numbered) + 1
      BY <1>9, <2>3, FS_AddElement, ZenonT(30)
    <2>6. Cardinality(Numbered \cup {r}) <= MaxRequests
      BY <2>1, <2>2, FS_Subset, ZenonT(30)
    <2> QED
      BY <2>3, <2>4, <2>5, <2>6
  <1>11. next_seq = Cardinality(Numbered) + 1
    BY <1>7 DEF Counted
  <1>12. next_seq' = next_seq + 1 /\ next_seq \in Nat \ {0}
    <2>1. Advanced = (next_seq + 1) % Width
      BY DEF Advanced
    <2>2. next_seq \in Nat \ {0} /\ next_seq + 1 < Width
      BY <1>10, <1>11, DapAssumption DEF FewRequests
    <2> QED
      BY <1>8, <2>1, <2>2, DapAssumption
  <1>13. Numbered' = Numbered \cup {r}
    BY <1>5, <1>8, <1>9, <1>12 DEF Numbered
  <1>14. \A q \in Req : call[q].seq < next_seq /\ call[q].seq \in Nat
    BY <1>1, <1>7, DapAssumption DEF Counted, CallType, Seqs
  <1>15. \A q \in Req : call'[q].seq < next_seq'
    BY <1>5, <1>8, <1>12, <1>14
  <1>16. \A p, q \in Numbered' : call'[p].seq = call'[q].seq => p = q
    <2>1. \A q \in Numbered : q \in Req /\ q # r /\ call'[q].seq = call[q].seq /\ call'[q].seq # next_seq
      BY <1>5, <1>9, <1>12, <1>14 DEF Numbered
    <2>2. call'[r].seq = next_seq
      BY <1>5, <1>8
    <2>3. \A p, q \in Numbered : call[p].seq = call[q].seq => p = q
      BY <1>7 DEF Counted
    <2> SUFFICES ASSUME NEW p \in Numbered \cup {r}, NEW q \in Numbered \cup {r}, call'[p].seq = call'[q].seq
                 PROVE  p = q
      BY <1>13
    <2>4. CASE p \in Numbered /\ q \in Numbered
      BY <2>1, <2>3, <2>4
    <2>5. CASE p = r \/ q = r
      BY <2>1, <2>2, <2>5
    <2> QED
      BY <2>4, <2>5
  <1>17. Counted'
    <2>1. next_seq' = Cardinality(Numbered') + 1
      BY <1>10, <1>11, <1>12, <1>13
    <2> QED
      BY <1>15, <1>16, <2>1 DEF Counted
  <1>18. Given'
    <2>1. \A q \in Req : At(q)' \in Before => call'[q].seq = 0
      BY <1>4, <1>5, <1>7, ZenonT(30) DEF Given, At
    <2>2. \A q \in Req : At(q)' \in After \/ q \in adapter' => q \in Numbered'
      BY <1>2, <1>5, <1>7, <1>13, ZenonT(30) DEF Given, At
    <2>3. writing' # NoReq => writing' \in Numbered'
      BY <1>2, <1>7, <1>13 DEF Given
    <2>4. \A i \in 1 .. Len(outgoing') : outgoing'[i] \in Numbered'
      BY <1>2, <1>7, <1>13 DEF Given
    <2> QED
      BY <2>1, <2>2, <2>3, <2>4, ZenonT(30) DEF Given
  <1>19. Own'
    BY <1>5, <1>7, ZenonT(30) DEF Own
  <1> QED
    BY <1>17, <1>18, <1>19

(* Every step preserves it. *)
LEMMA OwnNext == FewRequests /\ Inv /\ OwnInv /\ [Next]_vars => OwnInv'
  <1> SUFFICES ASSUME FewRequests, Inv, OwnInv, [Next]_vars PROVE OwnInv'
    OBVIOUS
  <1>1. ASSUME NEW r \in Req,
               Caller(r) \/ Wait(r) \/ Discard(r) \/ TimeOut(r) \/ Respond(r) \/ \E n \in Numbers : Call(r, n)
        PROVE  OwnInv'
    BY <1>1, OwnMoves, OwnCall, OwnRequestSequence, OwnRaiseNext, OwnSend, OwnDrop, OwnRespond DEF Caller
  <1>2. CASE Writer \/ ReaderEnds \/ Close \/ UNCHANGED vars \/ \E a \in Actors : Fail(a)
    BY <1>2, OwnTasks
  <1> QED
    BY <1>1, <1>2, ZenonT(30) DEF Next

(* As long as callers leave the numbers to the client, and it makes fewer  *)
(* requests than there are numbers, a request gets the response to itself: *)
(* never the late response to one that timed out.                          *)
THEOREM ResponsesOwned == ASSUME FewRequests PROVE Spec => []OwnResponse
  <1>1. OwnInv => OwnResponse
    BY DEF OwnInv, OwnResponse, Free, Own
  <1>2. Init => OwnInv
    BY OwnInit
  <1>3. Inv /\ OwnInv /\ [Next]_vars => OwnInv'
    BY OwnNext
  <1> QED
    BY <1>1, <1>2, <1>3, Invariance, PTL DEF Spec
=============================================================================
