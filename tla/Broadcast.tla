----------------------------- MODULE Broadcast -----------------------------
(***************************************************************************)
(* What IOPub promises, without locks, channels and vectors: there is one  *)
(* order of messages, and each subscriber is shown a contiguous part of it *)
(* that begins where it subscribed.  Iopub is shown to implement this.     *)
(***************************************************************************)
EXTENDS Naturals, Sequences

CONSTANTS
  Message,       \* the messages that are published
  Subscribers    \* the connections of IOPub clients

VARIABLES
  log,      \* the messages published so far, in the one order
  status,   \* of each subscriber: "new", "serving" or "gone"
  since,    \* how many messages were published before it subscribed
  seen      \* what it was shown

vars == <<log, status, since, seen>>

Init ==
  /\ log = <<>>
  /\ status = [p \in Subscribers |-> "new"]
  /\ since = [p \in Subscribers |-> 0]
  /\ seen = [p \in Subscribers |-> <<>>]

Publish(m) ==
  /\ log' = Append(log, m)
  /\ UNCHANGED <<status, since, seen>>

Subscribe(p) ==
  /\ status[p] = "new"
  /\ status' = [status EXCEPT ![p] = "serving"]
  /\ since' = [since EXCEPT ![p] = Len(log)]
  /\ UNCHANGED <<log, seen>>

(* The next message of the one order, whoever published it. *)
Show(p) ==
  /\ status[p] = "serving" /\ since[p] + Len(seen[p]) < Len(log)
  /\ seen' = [seen EXCEPT ![p] = Append(@, log[since[p] + Len(@) + 1])]
  /\ UNCHANGED <<log, status, since>>

Leave(p) ==
  /\ status[p] = "serving"
  /\ status' = [status EXCEPT ![p] = "gone"]
  /\ UNCHANGED <<log, since, seen>>

Next ==
  \/ \E m \in Message : Publish(m)
  \/ \E p \in Subscribers : Subscribe(p) \/ Show(p) \/ Leave(p)

Spec == Init /\ [][Next]_vars

(* A subscriber that stays is shown every message. *)
FairSpec == Spec /\ \A p \in Subscribers : WF_vars(Show(p))
=============================================================================
