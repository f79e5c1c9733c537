---------------------------- MODULE IopubProofs ----------------------------
(***************************************************************************)
(* Iopub implements Broadcast, for any messages, subscribers, publishers   *)
(* and capacities.  The inductive invariant says where each message is     *)
(* that a subscriber has not seen: in its channel, or still in the hands   *)
(* of the publisher, which has not come to its place in the vector.        *)
(***************************************************************************)
EXTENDS Iopub, TLAPS

(* Leaves are given 30 seconds of the SMT solver; those it does not find  *)
(* name Zenon.                                                             *)
USE SMTT(30)

(* publish has yet to come to p. *)
Due(p) == holder # NoOne /\ \E k \in DOMAIN peers : k >= i /\ peers[k] = p
Owed(p) == IF Due(p) THEN 1 ELSE 0

(* What p has seen and what is in its channel is a contiguous part of log. *)
Contiguous(p) ==
  /\ since[p] + Len(seen[p]) + Len(outgoing[p]) + Owed(p) = Len(log)
  /\ \A k \in 1 .. Len(outgoing[p]) : outgoing[p][k] = log[since[p] + Len(seen[p]) + k]

Vector ==
  /\ \A j, k \in DOMAIN peers : peers[j] = peers[k] => j = k
  /\ \A k \in DOMAIN peers : status[peers[k]] # "new"
  /\ \A p \in Subscribers : status[p] = "serving" => \E k \in DOMAIN peers : peers[k] = p

InPublish == holder # NoOne => Len(log) > 0 /\ frames = log[Len(log)]

Contents == \A p \in Subscribers : status[p] = "serving" => Contiguous(p)

(* Nothing is kept for a subscriber that is not connected yet. *)
Fresh == \A p \in Subscribers : status[p] = "new" => seen[p] = <<>> /\ outgoing[p] = <<>>

IInv == TypeOK /\ Vector /\ InPublish /\ Contents /\ Fresh

-----------------------------------------------------------------------------
(* The invariant holds before the first message. *)
LEMMA InitInv == Init => IInv
  <1> SUFFICES ASSUME Init PROVE IInv
    OBVIOUS
  <1>1. TypeOK
    BY DEF Init, TypeOK
  <1>2. Vector /\ InPublish /\ Contents /\ Fresh
    BY DEF Init, Vector, InPublish, Contents, Fresh
  <1> QED
    BY <1>1, <1>2 DEF IInv

(* The lengths of what belongs to a subscriber are numbers. *)
LEMMA Lengths ==
  ASSUME TypeOK, NEW p \in Subscribers
  PROVE  /\ since[p] \in Nat /\ Len(seen[p]) \in Nat /\ Len(outgoing[p]) \in Nat
         /\ Len(log) \in Nat /\ Len(peers) \in Nat /\ i \in Nat /\ i >= 1
         /\ DOMAIN peers = 1 .. Len(peers) /\ Owed(p) \in {0, 1}
  BY DEF TypeOK, Owed

(* A subscriber that a step does not touch stays as it was. *)
LEMMA Untouched ==
  ASSUME NEW p \in Subscribers, Contiguous(p), Due(p)' = Due(p), log' = log,
         since'[p] = since[p], seen'[p] = seen[p], outgoing'[p] = outgoing[p]
  PROVE  Contiguous(p)'
  BY DEF Contiguous, Owed

(* A place counted along a channel is one of the log. *)
LEMMA Place ==
  ASSUME NEW a \in Nat, NEW b \in Nat, NEW c \in Nat, NEW k \in 1 .. c
  PROVE  a + b + k \in 1 .. (a + b + c)
  OBVIOUS

(* A message moves from the channel to the client. *)
LEMMA Shift ==
  ASSUME NEW S, NEW s \in Seq(S), s # <<>>, NEW t \in Seq(S)
  PROVE  /\ Len(Tail(s)) = Len(s) - 1 /\ Len(Append(t, Head(s))) = Len(t) + 1 /\ Len(s) >= 1
         /\ \A k \in 1 .. Len(Tail(s)) : Tail(s)[k] = s[k + 1]
  <1>1. Head(s) \in S
    OBVIOUS
  <1>2. Len(Append(t, Head(s))) = Len(t) + 1
    BY <1>1
  <1>3. Len(Tail(s)) = Len(s) - 1 /\ Len(s) >= 1
    OBVIOUS
  <1>4. \A k \in 1 .. Len(Tail(s)) : Tail(s)[k] = s[k + 1]
    BY <1>3
  <1> QED
    BY <1>2, <1>3, <1>4

(* The place after one in the tail is one of the whole. *)
LEMMA Successor ==
  ASSUME NEW b \in Nat, NEW n, n = b - 1, NEW k \in 1 .. n
  PROVE  k + 1 \in 1 .. b
  OBVIOUS

(* What one more message in the channel does to the account of Contiguous, ... *)
LEMMA SumSent ==
  \A a, b, c \in Nat : a + b + (c + 1) = a + b + c + 1
  OBVIOUS

(* ... what a message that moves from the channel to the client does to it, ... *)
LEMMA SumWritten ==
  \A a, b, c \in Nat : a + (b + 1) + (c - 1) = a + b + c
  OBVIOUS

(* ... and to the place of the next one in the log. *)
LEMMA SumNext ==
  \A a, b, c \in Nat : a + b + (c + 1) = a + (b + 1) + c
  OBVIOUS

(* A publisher takes the lock: every subscriber of the vector is owed the message. *)
LEMMA PublishInv ==
  ASSUME IInv, NEW b \in Publishers, NEW m \in Message, Publish(b, m)
  PROVE  IInv'
  <1>0. /\ holder = NoOne /\ holder' = b /\ b # NoOne /\ frames' = m /\ i' = 1 /\ log' = Append(log, m)
        /\ peers' = peers /\ status' = status /\ outgoing' = outgoing /\ since' = since /\ seen' = seen
    BY IopubAssumption DEF Publish
  <1>1. TypeOK'
    BY <1>0 DEF IInv, TypeOK
  <1>2. Vector' /\ Fresh'
    BY <1>0 DEF IInv, Vector, Fresh
  <1>3. Len(log') = Len(log) + 1 /\ log'[Len(log')] = m /\ \A k \in 1 .. Len(log) : log'[k] = log[k]
    BY <1>0 DEF IInv, TypeOK
  <1>4. InPublish'
    <2>1. Len(log') > 0
      BY <1>0, <1>3 DEF IInv, TypeOK
    <2> QED
      BY <1>0, <1>3, <2>1 DEF InPublish
  <1>5. ASSUME NEW p \in Subscribers, status'[p] = "serving" PROVE Contiguous(p)'
    <2>1. Contiguous(p) /\ ~Due(p)
      BY <1>0, <1>5 DEF IInv, Contents, Due
    <2>2. PICK k \in DOMAIN peers : peers[k] = p
      BY <1>0, <1>5 DEF IInv, Vector
    <2>3. k >= 1
      BY DEF IInv, TypeOK
    <2>4. Due(p)'
      BY <1>0, <2>2, <2>3 DEF Due
    <2>5. since[p] \in Nat /\ Len(seen[p]) \in Nat /\ Len(outgoing[p]) \in Nat /\ Len(log) \in Nat
      BY Lengths DEF IInv
    <2>6. since[p] + Len(seen[p]) + Len(outgoing[p]) = Len(log)
      BY <2>1, <2>5 DEF Contiguous, Owed
    <2>7. \A j \in 1 .. Len(outgoing[p]) : log'[since[p] + Len(seen[p]) + j] = log[since[p] + Len(seen[p]) + j]
      BY <2>5, <2>6, <1>3, Place, ZenonT(30)
    <2>8. since' = since /\ seen' = seen /\ outgoing' = outgoing /\ Len(log') = Len(log) + 1
      BY <1>0, <1>3
    <2>9. Owed(p)' = 1
      BY <2>4 DEF Owed
    <2>10. since'[p] + Len(seen'[p]) + Len(outgoing'[p]) + Owed(p)' = Len(log')
      BY <2>5, <2>6, <2>8, <2>9
    <2>11. \A n \in 1 .. Len(outgoing'[p]) : outgoing'[p][n] = log'[since'[p] + Len(seen'[p]) + n]
      BY <2>1, <2>7, <2>8 DEF Contiguous
    <2> QED
      BY <2>10, <2>11 DEF Contiguous
  <1> QED
    BY <1>1, <1>2, <1>4, <1>5 DEF IInv, Contents

(* The message enters the channel of the subscriber at i, which is owed no more. *)
LEMMA SendInv ==
  ASSUME IInv, Send
  PROVE  IInv'
  <1> DEFINE q == peers[i]
  <1>0. /\ holder # NoOne /\ i <= Len(peers) /\ i' = i + 1
        /\ outgoing' = [outgoing EXCEPT ![q] = Append(outgoing[q], frames)]
        /\ peers' = peers /\ status' = status /\ holder' = holder /\ frames' = frames /\ log' = log
        /\ since' = since /\ seen' = seen
    BY DEF Send
  <1>1. TypeOK /\ i \in DOMAIN peers /\ q \in Subscribers /\ status[q] = "serving" /\ frames \in Message
    <2>1. TypeOK /\ InPublish
      BY DEF IInv
    <2>2. i \in DOMAIN peers
      BY <1>0, <2>1 DEF TypeOK
    <2>3. frames \in Message
      BY <1>0, <2>1 DEF InPublish, TypeOK
    <2> QED
      BY <2>1, <2>2, <2>3 DEF TypeOK, Send
  <1>2. outgoing[q] \in Seq(Message) /\ outgoing'[q] = Append(outgoing[q], frames)
        /\ \A p \in Subscribers : p # q => outgoing'[p] = outgoing[p]
    BY <1>0, <1>1 DEF TypeOK
  <1>3. TypeOK'
    BY <1>0, <1>1, <1>2 DEF TypeOK
  <1>4. Vector' /\ InPublish'
    BY <1>0 DEF IInv, Vector, InPublish
  <1>5. Fresh'
    BY <1>0, <1>1, <1>2 DEF IInv, Fresh
  <1>6. ASSUME NEW p \in Subscribers, status'[p] = "serving" PROVE Contiguous(p)'
    <2>1. Contiguous(p)
      BY <1>0, <1>6 DEF IInv, Contents
    <2>2. CASE p = q
      <3>1. Due(p) /\ ~Due(p)'
        BY <2>2, <1>0, <1>1, Lengths DEF Due, IInv, Vector
      <3>2. Owed(p) = 1 /\ Owed(p)' = 0
        BY <3>1 DEF Owed
      <3>3. Len(outgoing'[p]) = Len(outgoing[p]) + 1 /\ outgoing'[p][Len(outgoing[p]) + 1] = frames
            /\ \A k \in 1 .. Len(outgoing[p]) : outgoing'[p][k] = outgoing[p][k]
        BY <2>2, <1>2
      <3>4. frames = log[Len(log)]
        BY <1>0 DEF IInv, InPublish
      <3>5. /\ since[p] \in Nat /\ Len(seen[p]) \in Nat /\ Len(outgoing[p]) \in Nat /\ Len(log) \in Nat
        BY <1>1, Lengths
      <3>6. since[p] + Len(seen[p]) + Len(outgoing[p]) + 1 = Len(log)
        BY <2>1, <3>2 DEF Contiguous
      <3>7. since'[p] + Len(seen'[p]) + Len(outgoing'[p]) + Owed(p)' = Len(log')
        BY <1>0, <3>2, <3>3, <3>5, <3>6
      <3>9. since[p] + Len(seen[p]) + (Len(outgoing[p]) + 1) = Len(log)
        <4>1. since[p] + Len(seen[p]) + (Len(outgoing[p]) + 1) = since[p] + Len(seen[p]) + Len(outgoing[p]) + 1
          BY <3>5, SumSent, Zenon
        <4> QED
          BY <4>1, <3>6, Zenon
      <3>8. ASSUME NEW k \in 1 .. Len(outgoing'[p])
            PROVE  outgoing'[p][k] = log'[since'[p] + Len(seen'[p]) + k]
        <4>1. CASE k = Len(outgoing[p]) + 1
          <5>1. since[p] + Len(seen[p]) + k = Len(log)
            BY <4>1, <3>9, Zenon
          <5>2. log' = log /\ since'[p] = since[p] /\ seen'[p] = seen[p]
            BY <1>0
          <5>3. log'[since'[p] + Len(seen'[p]) + k] = log[Len(log)]
            BY <5>1, <5>2
          <5>4. outgoing'[p][k] = frames
            BY <4>1, <3>3
          <5> QED
            BY <5>3, <5>4, <3>4
        <4>2. CASE k # Len(outgoing[p]) + 1
          <5>1. k \in 1 .. Len(outgoing[p])
            BY <4>2, <3>3, <3>5
          <5> QED
            BY <5>1, <1>0, <2>1, <3>3, ZenonT(30) DEF Contiguous
        <4> QED
          BY <4>1, <4>2
      <3> QED
        BY <3>7, <3>8 DEF Contiguous
    <2>3. CASE p # q
      <3>1. \A k \in DOMAIN peers : peers[k] = p => (k >= i <=> k >= i + 1)
        BY <2>3, <1>1, Lengths
      <3>2. Due(p)' = Due(p)
        BY <1>0, <3>1 DEF Due
      <3> QED
        BY <2>1, <2>3, <3>2, <1>0, <1>2, Untouched
    <2> QED
      BY <2>2, <2>3
  <1> QED
    BY <1>3, <1>4, <1>5, <1>6 DEF IInv, Contents

(* swap_remove takes out a subscriber that has ended and loses nobody else. *)
LEMMA SendFailsInv ==
  ASSUME IInv, SendFails
  PROVE  IInv'
  <1> DEFINE q == peers[i]
             n == Len(peers)
  <1>0. /\ holder # NoOne /\ i <= n /\ status[q] = "gone" /\ peers' = SwapRemove(peers, i)
        /\ status' = status /\ outgoing' = outgoing /\ holder' = holder /\ frames' = frames /\ i' = i
        /\ log' = log /\ since' = since /\ seen' = seen
    BY DEF SendFails, lockVars
  <1>1. TypeOK /\ i \in 1 .. n /\ n \in Nat /\ DOMAIN peers = 1 .. n /\ q \in Subscribers
    BY <1>0 DEF IInv, TypeOK
  <1>2. \A k \in 1 .. n - 1 : peers'[k] = IF k = i THEN peers[n] ELSE peers[k]
    BY <1>0 DEF SwapRemove
  <1>3. DOMAIN peers' = 1 .. n - 1 /\ peers' \in Seq(Subscribers)
    <2>1. \A k \in 1 .. n : peers[k] \in Subscribers
      BY <1>1 DEF TypeOK
    <2>2. peers' = [k \in 1 .. n - 1 |-> IF k = i THEN peers[n] ELSE peers[k]] /\ n \in 1 .. n /\ n - 1 \in Nat
      BY <1>0, <1>1 DEF SwapRemove
    <2> QED
      BY <2>1, <2>2
  <1>4. TypeOK'
    BY <1>0, <1>1, <1>3 DEF TypeOK
  <1>5. InPublish' /\ Fresh'
    BY <1>0 DEF IInv, InPublish, Fresh
  <1>6. ASSUME NEW p \in Subscribers, status[p] = "serving", NEW k \in 1 .. n, peers[k] = p
        PROVE  IF k = n THEN i \in 1 .. n - 1 /\ peers'[i] = p ELSE k \in 1 .. n - 1 /\ peers'[k] = p
    <2>1. k # i
      BY <1>0, <1>6
    <2>4. n \in Nat
      BY <1>1
    <2>2. CASE k = n
      <3>1. i \in 1 .. n - 1
        BY <2>1, <2>2, <1>1
      <3>2. peers'[i] = peers[n]
        BY <3>1, <1>2
      <3> QED
        BY <3>1, <3>2, <2>2, <1>6
    <2>3. CASE k # n
      <3>1. k \in 1 .. n - 1
        BY <2>3, <2>4
      <3> QED
        BY <3>1, <2>1, <2>3, <1>2, <1>6
    <2> QED
      BY <2>2, <2>3
  <1>7. Vector'
    <2>1. \A j, k \in 1 .. n : peers[j] = peers[k] => j = k
      BY <1>1 DEF IInv, Vector
    <2>2. \A j, k \in 1 .. n - 1 : peers'[j] = peers'[k] => j = k
      BY <1>1, <1>2, <2>1
    <2>3. \A k \in 1 .. n : status[peers[k]] # "new"
      BY <1>1 DEF IInv, Vector
    <2>4. \A k \in 1 .. n - 1 : status'[peers'[k]] # "new"
      BY <1>0, <1>1, <1>2, <2>3
    <2>5. ASSUME NEW p \in Subscribers, status'[p] = "serving" PROVE \E k \in 1 .. n - 1 : peers'[k] = p
      <3>1. PICK k \in 1 .. n : peers[k] = p
        BY <2>5, <1>0, <1>1 DEF IInv, Vector
      <3> QED
        BY <3>1, <2>5, <1>0, <1>6
    <2> QED
      BY <1>3, <2>2, <2>4, <2>5 DEF Vector
  <1>8. ASSUME NEW p \in Subscribers, status'[p] = "serving" PROVE Contiguous(p)'
    <2>1. Contiguous(p)
      BY <1>0, <1>8 DEF IInv, Contents
    <2>2. Due(p) => Due(p)'
      <3> SUFFICES ASSUME Due(p) PROVE Due(p)'
        OBVIOUS
      <3>1. PICK k \in 1 .. n : k >= i /\ peers[k] = p
        BY <1>1 DEF Due
      <3>2. \E m \in 1 .. n - 1 : m >= i /\ peers'[m] = p
        <4>1. status[p] = "serving" /\ i \in Nat
          BY <1>0, <1>1, <1>8
        <4>2. IF k = n THEN i \in 1 .. n - 1 /\ peers'[i] = p ELSE k \in 1 .. n - 1 /\ peers'[k] = p
          BY <3>1, <4>1, <1>6
        <4> QED
          BY <3>1, <4>1, <4>2
      <3> QED
        BY <3>2, <1>0, <1>3 DEF Due
    <2>3. Due(p)' => Due(p)
      <3> SUFFICES ASSUME Due(p)' PROVE Due(p)
        OBVIOUS
      <3>1. PICK k \in 1 .. n - 1 : k >= i /\ peers'[k] = p
        BY <1>0, <1>3 DEF Due
      <3>2. \E m \in 1 .. n : m >= i /\ peers[m] = p
        BY <3>1, <1>1, <1>2
      <3> QED
        BY <3>2, <1>0, <1>1 DEF Due
    <2>4. Due(p)' = Due(p)
      BY <2>2, <2>3 DEF Due
    <2> QED
      BY <2>1, <2>4, <1>0, Untouched
  <1> QED
    BY <1>4, <1>5, <1>7, <1>8 DEF IInv, Contents

(* The vector is done: nobody is owed anything. *)
LEMMA PublishedInv ==
  ASSUME IInv, Published
  PROVE  IInv'
  <1>0. /\ i > Len(peers) /\ holder' = NoOne
        /\ peers' = peers /\ status' = status /\ outgoing' = outgoing /\ frames' = frames /\ i' = i
        /\ log' = log /\ since' = since /\ seen' = seen
    BY DEF Published
  <1>1. TypeOK' /\ Vector' /\ InPublish' /\ Fresh'
    BY <1>0 DEF IInv, TypeOK, Vector, InPublish, Fresh
  <1>2. ASSUME NEW p \in Subscribers, status'[p] = "serving" PROVE Contiguous(p)'
    <2>1. Contiguous(p) /\ TypeOK
      BY <1>0, <1>2 DEF IInv, Contents
    <2>2. ~Due(p)
      BY <1>0, <2>1, Lengths DEF Due
    <2>3. ~Due(p)'
      BY <1>0 DEF Due
    <2>4. Due(p)' = Due(p)
      BY <2>2, <2>3 DEF Due
    <2> QED
      BY <1>0, <2>1, <2>4, Untouched
  <1> QED
    BY <1>1, <1>2 DEF IInv, Contents

(* A new subscriber begins at the end of the log, between two publications. *)
LEMMA ConnectInv ==
  ASSUME IInv, NEW q \in Subscribers, Connect(q)
  PROVE  IInv'
  <1> DEFINE n == Len(peers)
  <1>0. /\ status[q] = "new" /\ holder = NoOne /\ status' = [status EXCEPT ![q] = "serving"]
        /\ peers' = Append(peers, q) /\ since' = [since EXCEPT ![q] = Len(log)]
        /\ outgoing' = outgoing /\ holder' = holder /\ frames' = frames /\ i' = i /\ log' = log /\ seen' = seen
    BY DEF Connect, lockVars
  <1>1. TypeOK /\ n \in Nat /\ DOMAIN peers = 1 .. n /\ Len(log) \in Nat
    BY DEF IInv, TypeOK
  <1>2. /\ DOMAIN peers' = 1 .. n + 1 /\ peers'[n + 1] = q /\ peers' \in Seq(Subscribers)
        /\ \A k \in 1 .. n : peers'[k] = peers[k]
    BY <1>0, <1>1 DEF TypeOK
  <1>3. /\ status'[q] = "serving" /\ since'[q] = Len(log)
        /\ \A p \in Subscribers : p # q => status'[p] = status[p] /\ since'[p] = since[p]
    BY <1>0, <1>1 DEF TypeOK
  <1>4. TypeOK'
    BY <1>0, <1>1, <1>2 DEF TypeOK
  <1>5. InPublish'
    BY <1>0 DEF InPublish
  <1>6. Fresh'
    BY <1>0, <1>3 DEF IInv, Fresh
  <1>7. Vector'
    <2>1. \A k \in 1 .. n : peers[k] # q /\ peers[k] \in Subscribers /\ status[peers[k]] # "new"
      <3>1. \A k \in 1 .. n : peers[k] \in Subscribers
        BY <1>1 DEF TypeOK
      <3>2. \A k \in 1 .. n : status[peers[k]] # "new"
        BY <1>1 DEF IInv, Vector
      <3> QED
        BY <3>1, <3>2, <1>0
    <2>2. \A j, k \in 1 .. n : peers[j] = peers[k] => j = k
      BY <1>1 DEF IInv, Vector
    <2>3. \A j, k \in 1 .. n + 1 : peers'[j] = peers'[k] => j = k
      <3> SUFFICES ASSUME NEW j \in 1 .. n + 1, NEW k \in 1 .. n + 1, peers'[j] = peers'[k] PROVE j = k
        OBVIOUS
      <3>1. j = n + 1 \/ j \in 1 .. n
        BY <1>1
      <3>2. k = n + 1 \/ k \in 1 .. n
        BY <1>1
      <3> QED
        BY <3>1, <3>2, <2>1, <2>2, <1>2
    <2>4. ASSUME NEW k \in 1 .. n + 1 PROVE status'[peers'[k]] # "new"
      <3>1. k = n + 1 \/ k \in 1 .. n
        BY <1>1
      <3> QED
        BY <3>1, <2>1, <1>2, <1>3
    <2>5. ASSUME NEW p \in Subscribers, status'[p] = "serving" PROVE \E k \in 1 .. n + 1 : peers'[k] = p
      <3>1. CASE p = q
        BY <3>1, <1>1, <1>2
      <3>2. CASE p # q
        <4>1. PICK k \in 1 .. n : peers[k] = p
          BY <3>2, <2>5, <1>1, <1>3 DEF IInv, Vector
        <4> QED
          BY <4>1, <1>1, <1>2
      <3> QED
        BY <3>1, <3>2
    <2> QED
      BY <2>3, <2>4, <2>5, <1>2 DEF Vector
  <1>8. ASSUME NEW p \in Subscribers, status'[p] = "serving" PROVE Contiguous(p)'
    <2>1. ~Due(p) /\ ~Due(p)'
      BY <1>0 DEF Due
    <2>2. CASE p = q
      <3>1. seen'[p] = <<>> /\ outgoing'[p] = <<>> /\ since'[p] = Len(log)
        BY <2>2, <1>0, <1>3 DEF IInv, Fresh
      <3> QED
        BY <2>1, <3>1, <1>0, <1>1 DEF Contiguous, Owed
    <2>3. CASE p # q
      <3>1. Contiguous(p) /\ Due(p)' = Due(p)
        BY <2>1, <2>3, <1>3, <1>8 DEF IInv, Contents, Due
      <3> QED
        BY <3>1, <2>3, <1>0, <1>3, Untouched
    <2> QED
      BY <2>2, <2>3
  <1> QED
    BY <1>4, <1>5, <1>6, <1>7, <1>8 DEF IInv, Contents

(* What is written is the next message of the order. *)
LEMMA WriteNext ==
  ASSUME IInv, NEW q \in Subscribers, status[q] = "serving", outgoing[q] # <<>>
  PROVE  /\ since[q] + Len(seen[q]) < Len(log)
         /\ Head(outgoing[q]) = log[since[q] + Len(seen[q]) + 1]
  <1>1. TypeOK /\ Contiguous(q)
    BY DEF IInv, Contents
  <1>2. outgoing[q] \in Seq(Message)
    BY <1>1 DEF TypeOK
  <1>3. Len(outgoing[q]) >= 1 /\ Head(outgoing[q]) = outgoing[q][1] /\ Len(outgoing[q]) \in Nat
    BY <1>2
  <1>4. since[q] \in Nat /\ Len(seen[q]) \in Nat /\ Len(log) \in Nat /\ Owed(q) \in {0, 1}
    BY <1>1, Lengths
  <1>5. since[q] + Len(seen[q]) + Len(outgoing[q]) + Owed(q) = Len(log)
    BY <1>1 DEF Contiguous
  <1>6. outgoing[q][1] = log[since[q] + Len(seen[q]) + 1]
    BY <1>1, <1>3 DEF Contiguous
  <1> QED
    BY <1>3, <1>4, <1>5, <1>6

(* The head of the channel is the next message of the log. *)
LEMMA WriteInv ==
  ASSUME IInv, NEW q \in Subscribers, Write(q)
  PROVE  IInv'
  <1>0. /\ status[q] = "serving" /\ outgoing[q] # <<>>
        /\ seen' = [seen EXCEPT ![q] = Append(seen[q], Head(outgoing[q]))]
        /\ outgoing' = [outgoing EXCEPT ![q] = Tail(outgoing[q])]
        /\ peers' = peers /\ status' = status /\ holder' = holder /\ frames' = frames /\ i' = i
        /\ log' = log /\ since' = since
    BY DEF Write, lockVars
  <1>1. TypeOK /\ outgoing[q] \in Seq(Message) /\ seen[q] \in Seq(Message)
    BY DEF IInv, TypeOK
  <1>2. /\ outgoing'[q] = Tail(outgoing[q]) /\ seen'[q] = Append(seen[q], Head(outgoing[q]))
        /\ \A p \in Subscribers : p # q => outgoing'[p] = outgoing[p] /\ seen'[p] = seen[p]
    BY <1>0, <1>1 DEF TypeOK
  <1>3. TypeOK'
    <2>1. Head(outgoing[q]) \in Message /\ Tail(outgoing[q]) \in Seq(Message)
      BY <1>0, <1>1
    <2>2. Append(seen[q], Head(outgoing[q])) \in Seq(Message)
      BY <1>1, <2>1
    <2> QED
      BY <1>0, <1>1, <2>1, <2>2 DEF TypeOK
  <1>4. Vector' /\ InPublish'
    BY <1>0 DEF IInv, Vector, InPublish
  <1>5. Fresh'
    BY <1>0, <1>2 DEF IInv, Fresh
  <1>6. ASSUME NEW p \in Subscribers, status'[p] = "serving" PROVE Contiguous(p)'
    <2>1. Contiguous(p) /\ Due(p)' = Due(p)
      BY <1>0, <1>6 DEF IInv, Contents, Due
    <2>2. CASE p = q
      <3>1. /\ Len(outgoing'[p]) = Len(outgoing[p]) - 1 /\ Len(seen'[p]) = Len(seen[p]) + 1
            /\ \A k \in 1 .. Len(outgoing'[p]) : outgoing'[p][k] = outgoing[p][k + 1]
            /\ Len(outgoing[p]) >= 1
        <4>1. outgoing[p] # <<>>
          BY <2>2, <1>0
        <4> QED
          BY <4>1, <2>2, <1>1, <1>2, Shift
      <3>2. /\ since[p] \in Nat /\ Len(seen[p]) \in Nat /\ Len(outgoing[p]) \in Nat /\ Len(log) \in Nat
            /\ Owed(p) \in {0, 1} /\ Owed(p)' = Owed(p)
        BY <1>1, <2>1, Lengths DEF Owed
      <3>3. since[p] + Len(seen[p]) + Len(outgoing[p]) + Owed(p) = Len(log)
        BY <2>1 DEF Contiguous
      <3>4. since'[p] + Len(seen'[p]) + Len(outgoing'[p]) + Owed(p)' = Len(log')
        <4>1. since' = since /\ log' = log
          BY <1>0
        <4>2. since[p] + (Len(seen[p]) + 1) + (Len(outgoing[p]) - 1) + Owed(p) = Len(log)
          <5>1. since[p] \in Nat /\ Len(seen[p]) \in Nat /\ Len(outgoing[p]) \in Nat 
            BY <3>2
          <5>2. since[p] + (Len(seen[p]) + 1) + (Len(outgoing[p]) - 1) = since[p] + Len(seen[p]) + Len(outgoing[p])
            BY <5>1, SumWritten, Zenon
          <5> QED
            BY <5>2, <3>3, Zenon
        <4> QED
          BY <3>1, <3>2, <4>1, <4>2
      <3>5. ASSUME NEW k \in 1 .. Len(outgoing'[p])
            PROVE  outgoing'[p][k] = log'[since'[p] + Len(seen'[p]) + k]
        <4>0. Len(outgoing'[p]) = Len(outgoing[p]) - 1 /\ Len(outgoing[p]) >= 1 /\ Len(outgoing[p]) \in Nat
          BY <3>1, <3>2
        <4>1. k + 1 \in 1 .. Len(outgoing[p])
          BY <4>0, Successor
        <4>2. outgoing[p][k + 1] = log[since[p] + Len(seen[p]) + (k + 1)]
          BY <2>1, <4>1 DEF Contiguous
        <4>3. since[p] + Len(seen[p]) + (k + 1) = since[p] + (Len(seen[p]) + 1) + k
          <5>1. k \in Nat
            BY <3>1, <3>2
          <5> QED
            BY <5>1, <3>2, SumNext, Zenon
        <4>4. since' = since /\ log' = log
          BY <1>0
        <4> QED
          BY <4>4, <3>1, <4>2, <4>3
      <3> QED
        BY <3>4, <3>5 DEF Contiguous
    <2>3. CASE p # q
      BY <2>1, <2>3, <1>0, <1>2, Untouched
    <2> QED
      BY <2>2, <2>3
  <1> QED
    BY <1>3, <1>4, <1>5, <1>6 DEF IInv, Contents

(* A subscriber that ends is accounted for no more. *)
LEMMA EndInv ==
  ASSUME IInv, NEW q \in Subscribers, End(q)
  PROVE  IInv'
  <1>0. /\ status[q] = "serving" /\ status' = [status EXCEPT ![q] = "gone"]
        /\ outgoing' = [outgoing EXCEPT ![q] = <<>>]
        /\ peers' = peers /\ holder' = holder /\ frames' = frames /\ i' = i
        /\ log' = log /\ since' = since /\ seen' = seen
    BY DEF End, lockVars
  <1>1. TypeOK
    BY DEF IInv
  <1>2. /\ status'[q] = "gone"
        /\ \A p \in Subscribers : p # q => status'[p] = status[p] /\ outgoing'[p] = outgoing[p]
    BY <1>0, <1>1 DEF TypeOK
  <1>3. TypeOK'
    BY <1>0, <1>1 DEF TypeOK
  <1>4. InPublish' /\ Fresh'
    BY <1>0, <1>2 DEF IInv, InPublish, Fresh
  <1>5. Vector'
    <2>1. \A k \in DOMAIN peers : peers[k] \in Subscribers
      BY <1>1 DEF TypeOK
    <2> QED
      BY <2>1, <1>0, <1>2 DEF IInv, Vector
  <1>6. ASSUME NEW p \in Subscribers, status'[p] = "serving" PROVE Contiguous(p)'
    <2>1. p # q /\ Contiguous(p) /\ Due(p)' = Due(p)
      BY <1>0, <1>2, <1>6 DEF IInv, Contents, Due
    <2> QED
      BY <2>1, <1>0, <1>2, Untouched
  <1> QED
    BY <1>3, <1>4, <1>5, <1>6 DEF IInv, Contents

(* Nothing changes. *)
LEMMA StutterInv == ASSUME IInv, UNCHANGED vars PROVE IInv'
  BY DEF IInv, TypeOK, Vector, InPublish, Contents, Contiguous, Owed, Due, Fresh, vars, lockVars

(* Every step keeps the invariant. *)
LEMMA NextInv == IInv /\ [Next]_vars => IInv'
  BY PublishInv, SendInv, SendFailsInv, PublishedInv, ConnectInv, WriteInv, EndInv, StutterInv
     DEF Next, PublishStep, PeerStep

(* For all constants, every variable of the channel keeps its type. *)
THEOREM TypeCorrect == Spec => []TypeOK
  <1>1. IInv => TypeOK
    BY DEF IInv
  <1> QED
    BY <1>1, InitInv, NextInv, PTL DEF Spec

-----------------------------------------------------------------------------
(* Each step of Iopub is a step of Broadcast, or leaves its variables.     *)
LEMMA StepRefines == IInv /\ [Next]_vars => [Feed!Next]_(Feed!vars)
  <1> SUFFICES ASSUME IInv, [Next]_vars PROVE Feed!Next \/ UNCHANGED Feed!vars
    OBVIOUS
  <1> USE DEF Feed!Next, Feed!vars
  <1>1. ASSUME NEW b \in Publishers, NEW m \in Message, Publish(b, m) PROVE Feed!Publish(m)
    BY <1>1 DEF Publish, Feed!Publish
  <1>2. PublishStep => UNCHANGED Feed!vars
    BY DEF PublishStep, Send, SendFails, Published
  <1>3. ASSUME NEW p \in Subscribers, Connect(p) PROVE Feed!Subscribe(p)
    BY <1>3 DEF Connect, Feed!Subscribe
  <1>4. ASSUME NEW p \in Subscribers, Write(p) PROVE Feed!Show(p)
    <2>1. seen[p] \in Seq(Message) /\ seen \in [Subscribers -> Seq(Message)]
      BY DEF IInv, TypeOK
    <2> QED
      BY <1>4, <2>1, WriteNext, ZenonT(30) DEF Write, Feed!Show
  <1>5. ASSUME NEW p \in Subscribers, End(p) PROVE Feed!Leave(p)
    BY <1>5 DEF End, Feed!Leave
  <1>6. UNCHANGED vars => UNCHANGED Feed!vars
    BY DEF vars
  <1> QED
    BY <1>1, <1>2, <1>3, <1>4, <1>5, <1>6 DEF Next, PeerStep

(* For all messages, subscribers, publishers and capacities, IOPub shows   *)
(* every subscriber a contiguous part of one order of messages, from the   *)
(* moment it is in the vector of peers (Iopub::publish holds the lock      *)
(* while it goes through them).                                            *)
THEOREM Implements == Spec => OneOrder
  <1>1. Init => Feed!Init
    BY DEF Init, Feed!Init
  <1> QED
    BY <1>1, InitInv, NextInv, StepRefines, PTL DEF Spec, OneOrder, Feed!Spec
=============================================================================
