-------------------------------- MODULE Dap --------------------------------
(***************************************************************************)
(* The client of a debug adapter: DapClient in src/src/dap.rs with its     *)
(* reader and writer tasks, and the Python classes that callers use,       *)
(* src/py/src/python_dap.rs.  Several threads send requests at once, with  *)
(* or without sequence numbers of their own; responses come in any order,  *)
(* late or never; requests time out; the connection fails or is closed at  *)
(* any moment.  Messages are reduced to their sequence numbers.            *)
(***************************************************************************)
EXTENDS Integers, Sequences, FiniteSets

CONSTANTS
  MaxRequests,   \* bound: requests made
  Numbers,       \* the `seq` that callers put in a request; NoNumber when none
  Width,         \* sequence numbers are below Width (2^64 in the code)
  Capacity       \* capacity of the channel `outgoing` (64 in the code)

NoNumber == 0
Req == 1 .. MaxRequests
NoReq == 0
Seqs == 0 .. Width - 1

ASSUME DapAssumption ==
  /\ MaxRequests \in Nat /\ Width \in Nat \ {0, 1} /\ Capacity \in Nat \ {0}
  /\ Numbers \subseteq Seqs

VARIABLES
  next_seq,   \* DapInner::next_seq
  pending,    \* DapInner::pending, a function of sequence numbers
  closed,     \* DapInner::close holds a reason
  outgoing,   \* the channel to the writer
  attached,   \* PyDapClient::client is this client
  failing,    \* the calls of fail_pending by the writer, the reader and close()
  writing,    \* the frame that the writer is writing
  adapter,    \* requests that the adapter has and has not answered
  given,      \* the number each caller put in its request
  call        \* the callers: where they are, their number, and what their
              \* oneshot holds: the request that the response answers

taskVars == <<failing, writing, adapter>>
vars == <<next_seq, pending, closed, outgoing, attached, taskVars, given, call>>

Actors == {"writer", "reader", "close"}
Empty == 0
Failed == -1
Places == {"new", "start", "number", "raise", "insert", "recheck", "send", "held", "waiting", "dropping", "done"}
New == [at |-> "new", seq |-> 0, holds |-> Empty]

Init ==
  /\ next_seq = 1 /\ pending = <<>> /\ closed = FALSE /\ outgoing = <<>> /\ attached = TRUE
  /\ failing = [a \in Actors |-> "no"]
  /\ writing = NoReq /\ adapter = {}
  /\ given = [r \in Req |-> NoNumber]
  /\ call = [r \in Req |-> New]

Without(f, x) == [y \in DOMAIN f \ {x} |-> f[y]]
Goes(r, place) == call' = [call EXCEPT ![r].at = place]
At(r) == call[r].at

(* The receiver of a request's oneshot is there, or closed or dropped. *)
Open(r) == At(r) \in {"recheck", "send", "held", "waiting"}
Unsent == UNCHANGED <<outgoing, taskVars>>
OnlyCall == UNCHANGED <<next_seq, pending, closed, attached, given>> /\ Unsent

-----------------------------------------------------------------------------
(* DapClient::send *)

(* PyDapClient::client clones the client, while there is one. *)
Call(r, n) ==
  /\ At(r) = "new" /\ attached
  /\ \A q \in 1 .. r - 1 : At(q) # "new"
  /\ given' = [given EXCEPT ![r] = n]
  /\ Goes(r, "start")
  /\ UNCHANGED <<next_seq, pending, closed, attached>> /\ Unsent

CheckOpen(r) ==
  /\ At(r) = "start"
  /\ Goes(r, IF closed THEN "done" ELSE "number")
  /\ OnlyCall

(* next_seq.fetch_add(1), which wraps *)
Advanced_Load == next_seq
Advanced == (next_seq + 1) % Width

(* request_sequence; seq.checked_add(1) refuses the last number. *)
RequestSequence(r) ==
  LET seq == IF given[r] = NoNumber THEN next_seq ELSE given[r] IN
  /\ At(r) = "number"
  /\ next_seq' = IF given[r] = NoNumber THEN Advanced ELSE next_seq
  /\ call' = [call EXCEPT ![r].seq = seq, ![r].at = IF seq + 1 = Width THEN "done" ELSE "raise"]
  /\ UNCHANGED <<pending, closed, attached, given>> /\ Unsent

(* next_seq.fetch_max(seq + 1) *)
RaiseNext(r) ==
  /\ At(r) = "raise"
  /\ next_seq' = IF call[r].seq >= next_seq THEN call[r].seq + 1 ELSE next_seq
  /\ Goes(r, "insert")
  /\ UNCHANGED <<pending, closed, attached, given>> /\ Unsent

Insert(r) ==
  LET seq == call[r].seq IN
  /\ At(r) = "insert"
  /\ IF seq \in DOMAIN pending
       THEN Goes(r, "done") /\ UNCHANGED pending
       ELSE /\ Goes(r, "recheck")
            /\ pending' = [n \in DOMAIN pending \cup {seq} |-> IF n = seq THEN r ELSE pending[n]]
  /\ UNCHANGED <<next_seq, closed, attached, given>> /\ Unsent

Recheck(r) ==
  /\ At(r) = "recheck"
  /\ Goes(r, IF closed THEN "dropping" ELSE "send")
  /\ OnlyCall

(* outgoing.send: room in the channel, or its receiver is gone. *)
Send(r) ==
  /\ At(r) = "send" /\ failing["writer"] = "no" /\ Len(outgoing) < Capacity
  /\ Goes(r, "held")
  /\ outgoing' = Append(outgoing, r)
  /\ UNCHANGED <<next_seq, pending, closed, attached, given, taskVars>>

SendFails(r) ==
  /\ At(r) = "send" /\ failing["writer"] # "no"
  /\ Goes(r, "dropping")
  /\ OnlyCall

-----------------------------------------------------------------------------
(* DapRequest *)

(* wait, at once or through wait_for_response; a waiter may also be dropped *)
(* unused.                                                                  *)
Wait(r) ==
  /\ At(r) = "held"
  /\ Goes(r, "waiting")
  /\ OnlyCall

Discard(r) ==
  /\ At(r) = "held"
  /\ Goes(r, "dropping")
  /\ OnlyCall

GetResult(r) ==
  /\ At(r) = "waiting" /\ call[r].holds # Empty
  /\ Goes(r, "dropping")
  /\ OnlyCall

TimeOut(r) ==
  /\ At(r) = "waiting" /\ call[r].holds = Empty
  /\ Goes(r, "dropping")
  /\ OnlyCall

(* Drop for DapRequest, after result.close(): the entry under the number   *)
(* goes away if its receiver is closed.                                    *)
Released_Any(r) == {call[r].seq}
Released(r) == {n \in DOMAIN pending : n = call[r].seq /\ ~Open(pending[n])}

Drop(r) ==
  /\ At(r) = "dropping"
  /\ pending' = [n \in DOMAIN pending \ Released(r) |-> pending[n]]
  /\ call' = [call EXCEPT ![r].at = "done", ![r].holds = Empty]
  /\ UNCHANGED <<next_seq, closed, attached, given>> /\ Unsent

-----------------------------------------------------------------------------
(* The writer and the reader. *)

TakeFrame ==
  /\ failing["writer"] = "no" /\ writing = NoReq /\ ~closed /\ outgoing # <<>>
  /\ writing' = Head(outgoing) /\ outgoing' = Tail(outgoing)
  /\ UNCHANGED <<next_seq, pending, closed, attached, failing, adapter, given, call>>

WriteFrame ==
  /\ failing["writer"] = "no" /\ writing # NoReq
  /\ adapter' = adapter \cup {writing} /\ writing' = NoReq
  /\ UNCHANGED <<next_seq, pending, closed, outgoing, attached, failing, given, call>>

(* write_messages returns: closed, or a write failed.  The channel goes. *)
WriterEnds ==
  /\ failing["writer"] = "no" /\ (closed \/ writing # NoReq)
  /\ failing' = [failing EXCEPT !["writer"] = "set"]
  /\ writing' = NoReq /\ outgoing' = <<>>
  /\ UNCHANGED <<next_seq, pending, closed, attached, adapter, given, call>>

(* read_message gives the response to request r, whenever it was sent: the *)
(* request that is pending under the number gets it.                       *)
Respond(r) ==
  LET seq == call[r].seq IN
  /\ failing["reader"] = "no" /\ ~closed /\ r \in adapter
  /\ adapter' = adapter \ {r}
  /\ pending' = Without(pending, seq)
  /\ call' = IF seq \in DOMAIN pending /\ Open(pending[seq]) THEN [call EXCEPT ![pending[seq]].holds = r] ELSE call
  /\ UNCHANGED <<next_seq, closed, outgoing, attached, failing, writing, given>>

(* read_messages returns: closed, end of file, or a message it refuses. *)
ReaderEnds ==
  /\ failing["reader"] = "no"
  /\ failing' = [failing EXCEPT !["reader"] = "set"]
  /\ UNCHANGED <<next_seq, pending, closed, outgoing, attached, writing, adapter, given, call>>

-----------------------------------------------------------------------------
(* Closing *)

(* PyDapClient: close(), Drop, and connect() when it replaces the client. *)
Close ==
  /\ attached
  /\ attached' = FALSE
  /\ failing' = [failing EXCEPT !["close"] = "set"]
  /\ UNCHANGED <<next_seq, pending, closed, outgoing, writing, adapter, given, call>>

(* fail_pending: the reason is set, then the requests drained. *)
SetReason(a) ==
  /\ failing[a] = "set"
  /\ closed' = TRUE
  /\ failing' = [failing EXCEPT ![a] = "drain"]
  /\ UNCHANGED <<next_seq, pending, outgoing, attached, writing, adapter, given, call>>

Drained_None == {}
Drained == {pending[n] : n \in DOMAIN pending}

Drain(a) ==
  /\ failing[a] = "drain"
  /\ call' = [r \in Req |-> IF r \in Drained /\ Open(r) THEN [call[r] EXCEPT !.holds = Failed] ELSE call[r]]
  /\ pending' = [n \in {m \in DOMAIN pending : pending[m] \notin Drained} |-> pending[n]]
  /\ failing' = [failing EXCEPT ![a] = "ended"]
  /\ UNCHANGED <<next_seq, closed, outgoing, attached, writing, adapter, given>>

-----------------------------------------------------------------------------
Caller(r) ==
  \/ CheckOpen(r) \/ RequestSequence(r) \/ RaiseNext(r) \/ Insert(r) \/ Recheck(r)
  \/ Send(r) \/ SendFails(r) \/ GetResult(r) \/ Drop(r)
Writer == TakeFrame \/ WriteFrame \/ WriterEnds
Fail(a) == SetReason(a) \/ Drain(a)

Next ==
  \/ \E r \in Req : Caller(r) \/ Wait(r) \/ Discard(r) \/ TimeOut(r) \/ Respond(r) \/ \E n \in Numbers : Call(r, n)
  \/ Writer \/ ReaderEnds \/ Close
  \/ \E a \in Actors : Fail(a)

Spec == Init /\ [][Next]_vars

(* Threads and tasks go on when they can; the socket takes a frame or       *)
(* fails.  No timeout is due, no response, no call.                         *)
FairSpec ==
  /\ Spec
  /\ \A r \in Req : WF_vars(Caller(r))
  /\ WF_vars(Writer) /\ WF_vars(closed /\ ReaderEnds)
  /\ \A a \in Actors : WF_vars(Fail(a))

-----------------------------------------------------------------------------
(* The state of the client, its tasks and its callers. *)
TypeOK ==
  /\ next_seq \in Seqs /\ closed \in BOOLEAN /\ attached \in BOOLEAN
  /\ DOMAIN pending \subseteq Seqs /\ \A n \in DOMAIN pending : pending[n] \in Req
  /\ outgoing \in Seq(Req) /\ Len(outgoing) <= Capacity
  /\ failing \in [Actors -> {"no", "set", "drain", "ended"}]
  /\ writing \in Req \cup {NoReq} /\ adapter \subseteq Req
  /\ given \in [Req -> Numbers \cup {NoNumber}]
  /\ call \in [Req -> [at : Places, seq : Seqs, holds : Req \cup {Empty, Failed}]]

(* A request that was accepted and has no result yet can still get one:    *)
(* its entry is in `pending` under its number, although other requests use *)
(* the number again, time out and are dropped.                             *)
StillPending ==
  \A r \in Req : Open(r) /\ call[r].holds = Empty => call[r].seq \in DOMAIN pending /\ pending[call[r].seq] = r

(* Requests that timed out or failed leave no entry behind, which would    *)
(* refuse their number for ever.                                           *)
NoneLeft == \A n \in DOMAIN pending : Open(pending[n]) \/ At(pending[n]) = "dropping"

(* As long as callers leave the numbers to the client, a request gets the  *)
(* response to itself, never the late response to one that timed out.      *)
OwnResponse ==
  (\A q \in Req : given[q] = NoNumber) => \A r \in Req : call[r].holds \in Req => call[r].holds = r

(* Once the client is closed, by any side and at any point of a call, the  *)
(* call returns without waiting for its timeout; a request that was sent   *)
(* and is not awaited stays with its owner.                                *)
ClosedEndsCalls ==
  \A r \in Req : closed /\ At(r) \in {"recheck", "send", "waiting"} ~> At(r) \in {"held", "done"}

=============================================================================
