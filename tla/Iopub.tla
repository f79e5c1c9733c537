------------------------------- MODULE Iopub -------------------------------
(***************************************************************************)
(* The IOPub channel: Iopub in src/src/transport.rs.  publish holds the    *)
(* lock of the vector of peers while it puts the message into the bounded  *)
(* channel of one peer after the other, and takes a peer that has ended    *)
(* out of the vector on the way.  A peer's task writes what is in its      *)
(* channel to the client.  The welcome that answers a subscription, pings  *)
(* and the encoding of messages are left out.                              *)
(***************************************************************************)
EXTENDS Naturals, Sequences

CONSTANTS
  Message, Subscribers,
  Publishers,      \* the tasks that publish
  Capacity,        \* KERNMINI_IOPUB_QMAX, the size of a peer's channel
  MaxPublished     \* bound: messages published

NoOne == "none"

ASSUME IopubAssumption == Capacity \in Nat \ {0} /\ MaxPublished \in Nat /\ NoOne \notin Publishers

VARIABLES
  peers,      \* Iopub::peers: the subscribers whose sender is in the vector
  status,     \* of a subscriber's task: "new" until it has entered its
              \* sender, "gone" when it has returned
  outgoing,   \* the subscribers' channels
  holder,     \* the publisher that has the lock, or NoOne
  frames, i,  \* in publish: the message, and the index of the next peer
  log, since, \* history: the order of the messages, and where it stood when
              \* a subscriber entered
  seen        \* what was written to the subscriber

lockVars == <<holder, frames, i>>
vars == <<peers, status, outgoing, lockVars, log, since, seen>>

Init ==
  /\ peers = <<>>
  /\ status = [p \in Subscribers |-> "new"]
  /\ outgoing = [p \in Subscribers |-> <<>>]
  /\ holder = NoOne /\ frames = NoOne /\ i = 1
  /\ log = <<>>
  /\ since = [p \in Subscribers |-> 0]
  /\ seen = [p \in Subscribers |-> <<>>]

-----------------------------------------------------------------------------
(* publish takes the lock, ... *)
Publish(b, m) ==
  /\ holder = NoOne /\ Len(log) < MaxPublished
  /\ holder' = b /\ frames' = m /\ i' = 1
  /\ log' = Append(log, m)
  /\ UNCHANGED <<peers, status, outgoing, since, seen>>

(* ... waits for room in the channel of peers[i], ... *)
Send ==
  /\ holder # NoOne /\ i <= Len(peers)
  /\ status[peers[i]] = "serving" /\ Len(outgoing[peers[i]]) < Capacity
  /\ outgoing' = [outgoing EXCEPT ![peers[i]] = Append(@, frames)]
  /\ i' = i + 1
  /\ UNCHANGED <<peers, status, holder, frames, log, since, seen>>

(* ... replaces it by the last peer when its receiver is gone, ... *)
SwapRemove(s, n) == [k \in 1 .. Len(s) - 1 |-> IF k = n THEN s[Len(s)] ELSE s[k]]

SendFails_Skips ==
  /\ holder # NoOne /\ i <= Len(peers) /\ status[peers[i]] = "gone"
  /\ peers' = SwapRemove(peers, i)
  /\ i' = i + 1
  /\ UNCHANGED <<status, outgoing, holder, frames, log, since, seen>>
SendFails_Waits ==
  /\ holder # NoOne /\ i <= Len(peers) /\ status[peers[i]] = "gone" /\ FALSE
  /\ UNCHANGED vars
SendFails ==
  /\ holder # NoOne /\ i <= Len(peers) /\ status[peers[i]] = "gone"
  /\ peers' = SwapRemove(peers, i)
  /\ UNCHANGED <<status, outgoing, lockVars, log, since, seen>>

(* ... and returns. *)
Published ==
  /\ holder # NoOne /\ i > Len(peers)
  /\ holder' = NoOne
  /\ UNCHANGED <<peers, status, outgoing, frames, i, log, since, seen>>

-----------------------------------------------------------------------------
(* Iopub::peer enters its sender, under the lock. *)
Connect(p) ==
  /\ status[p] = "new" /\ holder = NoOne
  /\ status' = [status EXCEPT ![p] = "serving"]
  /\ peers' = Append(peers, p)
  /\ since' = [since EXCEPT ![p] = Len(log)]
  /\ UNCHANGED <<outgoing, lockVars, log, seen>>

(* A message is written to the client. *)
Write(p) ==
  /\ status[p] = "serving" /\ outgoing[p] # <<>>
  /\ seen' = [seen EXCEPT ![p] = Append(@, Head(outgoing[p]))]
  /\ outgoing' = [outgoing EXCEPT ![p] = Tail(@)]
  /\ UNCHANGED <<peers, status, lockVars, log, since>>

(* A read or a write fails, and the receiver goes with the task. *)
End(p) ==
  /\ status[p] = "serving"
  /\ status' = [status EXCEPT ![p] = "gone"]
  /\ outgoing' = [outgoing EXCEPT ![p] = <<>>]
  /\ UNCHANGED <<peers, lockVars, log, since, seen>>

-----------------------------------------------------------------------------
PublishStep == Send \/ SendFails \/ Published
PeerStep(p) == Connect(p) \/ Write(p) \/ End(p)

Next ==
  \/ \E b \in Publishers, m \in Message : Publish(b, m)
  \/ PublishStep
  \/ \E p \in Subscribers : PeerStep(p)

Spec == Init /\ [][Next]_vars

(* The runtime runs the tasks.  A client reads, unless its connection      *)
(* ends: one that does neither stops every publisher, as the code means.   *)
FairSpec == Spec /\ WF_vars(PublishStep) /\ \A p \in Subscribers : WF_vars(Write(p))

-----------------------------------------------------------------------------
TypeOK ==
  /\ peers \in Seq(Subscribers)
  /\ status \in [Subscribers -> {"new", "serving", "gone"}]
  /\ outgoing \in [Subscribers -> Seq(Message)] /\ seen \in [Subscribers -> Seq(Message)]
  /\ holder \in Publishers \cup {NoOne} /\ frames \in Message \cup {NoOne}
  /\ i \in Nat \ {0}
  /\ log \in Seq(Message) /\ since \in [Subscribers -> Nat]

(* The order of publication is the order in which publishers take the      *)
(* lock, a subscriber is one from the moment it is in the vector, and what *)
(* it is shown is what its task has written to the socket.                 *)
Feed == INSTANCE Broadcast WITH log <- log, status <- status, since <- since, seen <- seen

(* Every subscriber sees the same order of messages, and no gap in it from *)
(* the moment it is in the vector, however tasks publish at once, clients  *)
(* connect in between and other peers leave the vector.                    *)
OneOrder == Feed!Spec

(* And a subscriber that stays sees all of it: a publish reaches each peer *)
(* behind one that has ended or was slow.                                  *)
AllSeen == Feed!FairSpec

(* A publish returns, and so lets the next one have the lock: a peer that  *)
(* has ended, even while it was waited for, does not hold it up.           *)
PublishReturns == (holder # NoOne) ~> (holder = NoOne)
=============================================================================
