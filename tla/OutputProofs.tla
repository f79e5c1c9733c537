---------------------------- MODULE OutputProofs ----------------------------
(* Proofs about Output: the order of an execution's output, for any number *)
(* of cells, events and late threads, and every capacity of the channel.   *)
EXTENDS Output, TLAPS

(* Leaves are given to Zenon for 30 seconds; those with arithmetic or with  *)
(* sequences name the SMT solver.                                           *)
USE ZenonT(30)

(* What is in a sequence, in what order, and where. *)
Elems(s) == {s[i] : i \in DOMAIN s}
Sorted(s) == \A i, j \in DOMAIN s : i < j /\ s[i] # Flush /\ s[j] # Flush => s[i] < s[j]
Below(S, T) == \A n \in S, m \in T : n = Flush \/ m = Flush \/ n < m

(* The events that the pump still has to handle. *)
Waiting(x) == Elems(batch[x]) \cup Elems(events[x])
AllShown(x) == {n \in DOMAIN emitted[x] : Shown(x, n)}
EventOf(x, n) == n \in DOMAIN emitted[x]

(* Numbers are places of `emitted`. *)
Placed(x) ==
  /\ \A n \in Waiting(x) : n = Flush \/ EventOf(x, n)
  /\ \A n \in Elems(joined[x]) : EventOf(x, n)
  /\ prompt[x] = 0 \/ EventOf(x, prompt[x])
  /\ \A k \in DOMAIN log : log[k].cell = x => \A i \in DOMAIN log[k].events : EventOf(x, log[k].events[i])

(* The pump's batch comes before the channel, and what it is publishing or *)
(* has published comes before both.                                        *)
InLine(x) ==
  /\ Sorted(batch[x]) /\ Sorted(events[x]) /\ Sorted(joined[x])
  /\ Below(Elems(batch[x]), Elems(events[x]))
  /\ Below(Elems(joined[x]), Waiting(x))
  /\ Below({prompt[x]}, Waiting(x))
  /\ Below(AllShown(x), Waiting(x))
  /\ holder # PumpOf(x) => Below(AllShown(x), Elems(joined[x]))

(* No event is lost. *)
Covered(x) ==
  ~silent[x] => \A n \in DOMAIN emitted[x] :
    KindOf(x, n) = "input" \/ Shown(x, n) \/ n \in Elems(joined[x]) \cup Waiting(x)

(* The message in the making, and who is in Iopub::publish. *)
Making(x) ==
  /\ \A n, m \in Elems(joined[x]) : KindOf(x, n) = KindOf(x, m)
  /\ \A n \in Elems(joined[x]) : /\ KindOf(x, n) \in Streams \cup {"display"}
                                 /\ KindOf(x, n) = "display" => Len(joined[x]) = 1
  /\ joined[x] = <<>> \/ prompt[x] = 0
  /\ silent[x] => joined[x] = <<>> /\ \A k \in DOMAIN log : log[k].cell = x => log[k].events = <<>>
  /\ holder = PumpOf(x) => joined[x] # <<>> /\ \E k \in DOMAIN log : log[k].cell = x /\ log[k].events = joined[x]

(* The task is at a publish when it holds the lock. *)
Publishing(x) == holder = TaskOf(x) => task[x] \in {"busy", "input", "outcome", "idle"}

(* The Flush comes after all that the cell itself emitted, and the task    *)
(* goes on when it is answered.                                            *)
LateAfter(x, s) == \A i, j \in DOMAIN s : i < j /\ s[i] = Flush => s[j] # Flush /\ emitted[x][s[j]].late
Ending == {"outcome", "reply", "idle", "done"}
Complete(x) ==
  ~silent[x] => \A n \in DOMAIN emitted[x] : KindOf(x, n) # "input" /\ ~emitted[x][n].late => Shown(x, n)
Flushes(x) ==
  /\ LateAfter(x, batch[x]) /\ LateAfter(x, events[x])
  /\ Flush \in Elems(batch[x]) => \A n \in Elems(events[x]) : n # Flush /\ emitted[x][n].late
  /\ Flush \in Waiting(x) => task[x] = "flushing" /\ ~flushed[x]
  /\ flushed[x] => task[x] \in Ending \cup {"flushing"} /\ Complete(x)
  /\ task[x] \in Ending => flushed[x]

(* A cell that asks does nothing else, and only its threads emit. *)
Asks(x) ==
  /\ \A n \in Waiting(x) \cup {prompt[x]} : n # Flush /\ KindOf(x, n) = "input" =>
       task[x] = "asking" /\ \A m \in DOMAIN emitted[x] : n < m => emitted[x][m].late
  /\ \A n \in DOMAIN emitted[x] : emitted[x][n].late => KindOf(x, n) # "input"
  /\ prompt[x] # 0 => KindOf(x, prompt[x]) = "input"
  /\ ~silent[x] => \A n \in DOMAIN emitted[x] : n < prompt[x] /\ KindOf(x, n) # "input" => Shown(x, n)

(* The log: the messages of the pump in order, and the end after them. *)
InLog(x) ==
  /\ \A k, l \in DOMAIN log : log[k].cell = x /\ log[l].cell = x =>
       \A i \in DOMAIN log[k].events, j \in DOMAIN log[l].events :
         k < l \/ (k = l /\ i < j) => log[k].events[i] < log[l].events[j]
  /\ \A k \in DOMAIN log : log[k].cell = x => \A i \in DOMAIN log[k].events :
       /\ KindOf(x, log[k].events[i]) = log[k].type
       /\ log[k].type = "display" => Len(log[k].events) = 1
Ended(x) ==
  \A k \in DOMAIN log : log[k].cell = x /\ log[k].type \in Outcomes \cup {"idle"} =>
    /\ task[x] \in Ending
    /\ ~silent[x] => \A n \in DOMAIN emitted[x] : KindOf(x, n) # "input" /\ ~emitted[x][n].late =>
         \E j \in DOMAIN log : j <= k /\ log[j].cell = x /\ \E e \in DOMAIN log[j].events : log[j].events[e] = n

Handled(x) == Placed(x) /\ InLine(x) /\ Covered(x) /\ Making(x) /\ InLog(x)
CellInv(x) == Handled(x) /\ Publishing(x) /\ Flushes(x) /\ Asks(x) /\ Ended(x)
Inv == TypeOK /\ \A x \in Cells : CellInv(x)

-----------------------------------------------------------------------------
(* Sequences: their elements and their order, as the channel and the pump  *)
(* change them.                                                            *)
LEMMA EmptySeq == Elems(<<>>) = {} /\ Sorted(<<>>)
  BY SMTT(30) DEF Elems, Sorted

(* What a sender puts into the channel is added to what is there. *)
LEMMA AppendElems ==
  ASSUME NEW S, NEW s \in Seq(S), NEW e \in S
  PROVE  Elems(Append(s, e)) = Elems(s) \cup {e}
  <1>1. DOMAIN Append(s, e) = DOMAIN s \cup {Len(s) + 1} /\ Append(s, e)[Len(s) + 1] = e
    BY SMTT(30)
  <1>2. \A i \in DOMAIN s : Append(s, e)[i] = s[i]
    BY SMTT(30)
  <1> QED
    BY <1>1, <1>2 DEF Elems

(* A later event at the end keeps the channel in order. *)
LEMMA AppendSorted ==
  ASSUME NEW s \in Seq(Nat), NEW e \in Nat, Sorted(s), Below(Elems(s), {e})
  PROVE  Sorted(Append(s, e))
  <1>1. \A i \in DOMAIN s : s[i] = Flush \/ e = Flush \/ s[i] < e
    BY DEF Below, Elems
  <1>2. \A i \in DOMAIN s : i \in 1 .. Len(s) /\ Append(s, e)[i] = s[i]
    BY SMTT(30)
  <1>3. DOMAIN Append(s, e) = 1 .. Len(s) + 1 /\ Append(s, e)[Len(s) + 1] = e /\ DOMAIN s = 1 .. Len(s) /\ Len(s) \in Nat
    BY SMTT(30)
  <1> SUFFICES ASSUME NEW i \in 1 .. Len(s) + 1, NEW j \in 1 .. Len(s) + 1, i < j,
                      Append(s, e)[i] # Flush, Append(s, e)[j] # Flush
               PROVE  Append(s, e)[i] < Append(s, e)[j]
    BY <1>3 DEF Sorted
  <1>4. i \in DOMAIN s
    BY <1>3, SMTT(30)
  <1>5. CASE j \in DOMAIN s
    BY <1>2, <1>4, <1>5 DEF Sorted
  <1>6. CASE j = Len(s) + 1
    BY <1>1, <1>2, <1>3, <1>4, <1>6
  <1> QED
    BY <1>3, <1>5, <1>6, SMTT(30)

(* A batch of which the first k events are taken. *)
LEMMA SplitIndex ==
  ASSUME NEW S, NEW s \in Seq(S), NEW k \in 1 .. Len(s)
  PROVE  /\ SubSeq(s, 1, k) \in Seq(S) /\ SubSeq(s, k + 1, Len(s)) \in Seq(S)
         /\ DOMAIN SubSeq(s, 1, k) = 1 .. k /\ Len(SubSeq(s, 1, k)) = k
         /\ DOMAIN SubSeq(s, k + 1, Len(s)) = 1 .. Len(s) - k
         /\ \A i \in 1 .. k : SubSeq(s, 1, k)[i] = s[i]
         /\ \A i \in 1 .. Len(s) - k : SubSeq(s, k + 1, Len(s))[i] = s[k + i]
         /\ DOMAIN s = 1 .. Len(s) /\ Len(s) \in Nat /\ k \in Nat
  <1>1. Len(s) \in Nat /\ k \in Nat /\ k <= Len(s) /\ DOMAIN s = 1 .. Len(s)
    BY SMTT(30)
  <1>2. SubSeq(s, 1, k) \in Seq(S) /\ Len(SubSeq(s, 1, k)) = k /\ DOMAIN SubSeq(s, 1, k) = 1 .. k
    BY <1>1, SMTT(30)
  <1>3. SubSeq(s, k + 1, Len(s)) \in Seq(S) /\ DOMAIN SubSeq(s, k + 1, Len(s)) = 1 .. Len(s) - k
    BY <1>1, SMTT(30)
  <1>4. \A i \in 1 .. k : SubSeq(s, 1, k)[i] = s[i]
    BY <1>1, SMTT(30)
  <1>5. \A i \in 1 .. Len(s) - k : SubSeq(s, k + 1, Len(s))[i] = s[k + i]
    BY <1>1, SMTT(30)
  <1> QED
    BY <1>1, <1>2, <1>3, <1>4, <1>5

(* The two parts of a batch: what is taken is before what is left. *)
LEMMA SplitSeq ==
  ASSUME NEW s \in Seq(Nat), NEW k \in 1 .. Len(s), Sorted(s)
  PROVE  LET a == SubSeq(s, 1, k)
             b == SubSeq(s, k + 1, Len(s))
         IN  /\ Elems(a) \cup Elems(b) = Elems(s)
             /\ Sorted(a) /\ Sorted(b) /\ Below(Elems(a), Elems(b))
  <1> DEFINE a == SubSeq(s, 1, k)
             b == SubSeq(s, k + 1, Len(s))
  <1>1. /\ DOMAIN a = 1 .. k /\ DOMAIN b = 1 .. Len(s) - k /\ DOMAIN s = 1 .. Len(s)
        /\ \A i \in 1 .. k : a[i] = s[i]
        /\ \A i \in 1 .. Len(s) - k : b[i] = s[k + i]
        /\ Len(s) \in Nat /\ k \in Nat /\ k <= Len(s)
    BY SplitIndex, SMTT(30)
  <1> HIDE DEF a, b
  <1>2. \A i \in DOMAIN a : i \in DOMAIN s /\ a[i] = s[i]
    BY <1>1, SMTT(30)
  <1>3. \A i \in DOMAIN b : k + i \in DOMAIN s /\ b[i] = s[k + i]
    BY <1>1, SMTT(30)
  <1>4. \A i \in DOMAIN s : i \in DOMAIN a \/ (i - k \in DOMAIN b /\ k + (i - k) = i)
    BY <1>1, SMTT(30)
  <1>5. Elems(a) \subseteq Elems(s) /\ Elems(b) \subseteq Elems(s)
    BY <1>2, <1>3 DEF Elems
  <1>6. Elems(s) \subseteq Elems(a) \cup Elems(b)
    BY <1>2, <1>3, <1>4 DEF Elems
  <1>7. Sorted(a)
    BY <1>2 DEF Sorted
  <1>8. \A i, j \in DOMAIN b : i < j => k + i < k + j
    BY <1>1, SMTT(30)
  <1>9. Sorted(b)
    BY <1>3, <1>8 DEF Sorted
  <1>10. \A i \in DOMAIN a, j \in DOMAIN b : i < k + j
    BY <1>1, SMTT(30)
  <1>11. Below(Elems(a), Elems(b))
    <2> SUFFICES ASSUME NEW i \in DOMAIN a, NEW j \in DOMAIN b
                 PROVE  a[i] = Flush \/ b[j] = Flush \/ a[i] < b[j]
      BY DEF Below, Elems
    <2> QED
      BY <1>2, <1>3, <1>10 DEF Sorted
  <1> QED
    BY <1>5, <1>6, <1>7, <1>9, <1>11 DEF a, b

(* The places of a batch whose first event is taken. *)
LEMMA HeadTail ==
  ASSUME NEW S, NEW s \in Seq(S), s # <<>>
  PROVE  /\ s[1] \in S /\ 1 \in DOMAIN s /\ Tail(s) \in Seq(S)
         /\ \A i \in DOMAIN Tail(s) : i + 1 \in DOMAIN s /\ Tail(s)[i] = s[i + 1] /\ 1 < i + 1
         /\ \A i \in DOMAIN s : i = 1 \/ (i - 1 \in DOMAIN Tail(s) /\ (i - 1) + 1 = i)
         /\ \A i, j \in DOMAIN Tail(s) : i < j => i + 1 < j + 1
  <1>1. s[1] \in S /\ 1 \in DOMAIN s /\ Tail(s) \in Seq(S)
    BY SMTT(30)
  <1>2. \A i \in DOMAIN Tail(s) : i + 1 \in DOMAIN s /\ Tail(s)[i] = s[i + 1] /\ 1 < i + 1
    BY SMTT(30)
  <1>3. \A i \in DOMAIN s : i = 1 \/ (i - 1 \in DOMAIN Tail(s) /\ (i - 1) + 1 = i)
    BY SMTT(30)
  <1>4. \A i, j \in DOMAIN Tail(s) : i < j => i + 1 < j + 1
    BY SMTT(30)
  <1> QED
    BY <1>1, <1>2, <1>3, <1>4

(* The first of the batch is before the others. *)
LEMMA TailSeq ==
  ASSUME NEW s \in Seq(Nat), s # <<>>, Sorted(s)
  PROVE  /\ Elems(s) = {s[1]} \cup Elems(Tail(s)) /\ Sorted(Tail(s)) /\ Below({s[1]}, Elems(Tail(s)))
  <1>1. /\ 1 \in DOMAIN s
        /\ \A i \in DOMAIN Tail(s) : i + 1 \in DOMAIN s /\ Tail(s)[i] = s[i + 1] /\ 1 < i + 1
        /\ \A i \in DOMAIN s : i = 1 \/ (i - 1 \in DOMAIN Tail(s) /\ (i - 1) + 1 = i)
        /\ \A i, j \in DOMAIN Tail(s) : i < j => i + 1 < j + 1
    BY HeadTail
  <1>2. Elems(s) = {s[1]} \cup Elems(Tail(s))
    <2>1. /\ \A i \in DOMAIN s : s[i] \in Elems(s)
          /\ \A i \in DOMAIN Tail(s) : Tail(s)[i] \in Elems(Tail(s))
      BY DEF Elems
    <2>2. \A i \in DOMAIN Tail(s) : Tail(s)[i] \in Elems(s)
      BY <1>1, <2>1
    <2>3. \A i \in DOMAIN s : s[i] \in {s[1]} \cup Elems(Tail(s))
      <3> SUFFICES ASSUME NEW i \in DOMAIN s, i # 1 PROVE s[i] \in Elems(Tail(s))
        OBVIOUS
      <3>1. i - 1 \in DOMAIN Tail(s) /\ Tail(s)[i - 1] = s[(i - 1) + 1] /\ (i - 1) + 1 = i
        BY <1>1
      <3> QED
        BY <2>1, <3>1
    <2>4. Elems(Tail(s)) \subseteq Elems(s)
      BY <2>2 DEF Elems
    <2>5. Elems(s) \subseteq {s[1]} \cup Elems(Tail(s))
      BY <2>3 DEF Elems
    <2> QED
      BY <1>1, <2>1, <2>4, <2>5
  <1>3. Sorted(Tail(s))
    BY <1>1 DEF Sorted
  <1>4. Below({s[1]}, Elems(Tail(s)))
    <2> SUFFICES ASSUME NEW i \in DOMAIN Tail(s) PROVE s[1] = Flush \/ Tail(s)[i] = Flush \/ s[1] < Tail(s)[i]
      BY DEF Below, Elems
    <2> QED
      BY <1>1 DEF Sorted
  <1> QED
    BY <1>2, <1>3, <1>4

-----------------------------------------------------------------------------
(* The log. *)
Messages == [cell : Cells, events : Seq(Numbers),
             type : {"busy", "execute_input", "idle", "display"} \cup Outcomes \cup Streams]

(* Iopub::publish adds one message at the end of the log. *)
LEMMA LogAppend ==
  ASSUME TypeOK, NEW m \in Messages, log' = Append(log, m)
  PROVE  /\ DOMAIN log' = DOMAIN log \cup {Len(log) + 1} /\ log'[Len(log) + 1] = m
         /\ \A k \in DOMAIN log : log'[k] = log[k] /\ k < Len(log) + 1 /\ ~(Len(log) + 1 < k) /\ k # Len(log) + 1
         /\ DOMAIN log = 1 .. Len(log) /\ Len(log) \in Nat /\ log' \in Seq(Messages)
  <1>1. log \in Seq(Messages)
    BY DEF TypeOK, Messages
  <1> QED
    BY <1>1, SMTT(30)

(* A step that shows no event of x. *)
LogQuiet(x) ==
  \/ log' = log
  \/ \E m \in Messages : log' = Append(log, m) /\ (m.cell # x \/ m.events = <<>>)

(* ... keeps the messages of x. *)
LEMMA LogStays ==
  ASSUME TypeOK, NEW x \in Cells, LogQuiet(x)
  PROVE  /\ \A k \in DOMAIN log : k \in DOMAIN log' /\ log'[k] = log[k]
         /\ \A k \in DOMAIN log' : k \in DOMAIN log \/ log'[k].cell # x \/ log'[k].events = <<>>
         /\ log' \in Seq(Messages)
  <1>1. CASE log' = log
    BY <1>1 DEF TypeOK, Messages
  <1>2. ASSUME NEW m \in Messages, log' = Append(log, m), m.cell # x \/ m.events = <<>>
        PROVE  /\ \A k \in DOMAIN log : k \in DOMAIN log' /\ log'[k] = log[k]
               /\ \A k \in DOMAIN log' : k \in DOMAIN log \/ log'[k].cell # x \/ log'[k].events = <<>>
               /\ log' \in Seq(Messages)
    BY <1>2, LogAppend
  <1> QED
    BY <1>1, <1>2 DEF LogQuiet

(* ... and what is shown of x. *)
LEMMA ShownStays ==
  ASSUME TypeOK, NEW x \in Cells, LogQuiet(x)
  PROVE  \A n : Shown(x, n)' <=> Shown(x, n)
  <1>1. /\ \A k \in DOMAIN log : k \in DOMAIN log' /\ log'[k] = log[k]
        /\ \A k \in DOMAIN log' : k \in DOMAIN log \/ log'[k].cell # x \/ log'[k].events = <<>>
    BY LogStays
  <1>2. DOMAIN <<>> = {}
    BY SMTT(30)
  <1> QED
    BY <1>1, <1>2 DEF Shown

(* A step that leaves the events of x where they are. *)
SameEvents(x) ==
  /\ silent'[x] = silent[x] /\ emitted'[x] = emitted[x] /\ events'[x] = events[x]
  /\ batch'[x] = batch[x] /\ joined'[x] = joined[x] /\ prompt'[x] = prompt[x]

(* ... keeps what is said of their handling. *)
LEMMA KeepsHandled ==
  ASSUME TypeOK, NEW x \in Cells, Handled(x), SameEvents(x), LogQuiet(x),
         holder' = PumpOf(x) <=> holder = PumpOf(x)
  PROVE  Handled(x)'
  <1>1. /\ \A k \in DOMAIN log : k \in DOMAIN log' /\ log'[k] = log[k]
        /\ \A k \in DOMAIN log' : k \in DOMAIN log \/ log'[k].cell # x \/ log'[k].events = <<>>
    BY LogStays
  <1>2. \A n : Shown(x, n)' <=> Shown(x, n)
    BY ShownStays
  <1>3. DOMAIN <<>> = {}
    BY SMTT(30)
  <1>4. \A k \in DOMAIN log' : log'[k].cell = x => (k \in DOMAIN log /\ log'[k] = log[k]) \/ DOMAIN log'[k].events = {}
    BY <1>1, <1>3
  <1>5. Waiting(x)' = Waiting(x) /\ AllShown(x)' = AllShown(x) /\ \A n : KindOf(x, n)' = KindOf(x, n)
    BY <1>2 DEF SameEvents, Waiting, AllShown, KindOf
  <1>6. Placed(x)'
    BY <1>4, <1>5 DEF Handled, SameEvents, Placed, EventOf
  <1>7. InLine(x)'
    BY <1>5 DEF Handled, SameEvents, InLine
  <1>8. Covered(x)'
    BY <1>2, <1>5 DEF Handled, SameEvents, Covered
  <1>9. Making(x)'
    <2>1. silent'[x] => \A k \in DOMAIN log' : log'[k].cell = x => log'[k].events = <<>>
      BY <1>1 DEF Handled, Making, SameEvents
    <2>2. holder' = PumpOf(x) => \E k \in DOMAIN log' : log'[k].cell = x /\ log'[k].events = joined'[x]
      BY <1>1 DEF Handled, Making, SameEvents
    <2>3. joined'[x] = joined[x] /\ prompt'[x] = prompt[x] /\ silent'[x] = silent[x]
      BY DEF SameEvents
    <2>4. Making(x)
      BY DEF Handled
    <2> QED
      BY <1>5, <2>1, <2>2, <2>3, <2>4 DEF Making
  <1>10. InLog(x)'
    <2>1. InLog(x)
      BY DEF Handled
    <2>2. \A k, l \in DOMAIN log' : log'[k].cell = x /\ log'[l].cell = x =>
            \A i \in DOMAIN log'[k].events, j \in DOMAIN log'[l].events :
              k < l \/ (k = l /\ i < j) => log'[k].events[i] < log'[l].events[j]
      BY <1>4, <2>1 DEF InLog
    <2>3. \A k \in DOMAIN log' : log'[k].cell = x => \A i \in DOMAIN log'[k].events :
            /\ KindOf(x, log[k].events[i])' = log'[k].type
            /\ log'[k].type = "display" => Len(log'[k].events) = 1
      <3> SUFFICES ASSUME NEW k \in DOMAIN log', log'[k].cell = x, NEW i \in DOMAIN log'[k].events
                   PROVE  /\ KindOf(x, log[k].events[i])' = log'[k].type
                          /\ log'[k].type = "display" => Len(log'[k].events) = 1
        OBVIOUS
      <3>1. k \in DOMAIN log /\ log'[k] = log[k]
        BY <1>4
      <3>2. KindOf(x, log[k].events[i])' = KindOf(x, log[k].events[i])
        BY <3>1 DEF KindOf, SameEvents
      <3> QED
        BY <2>1, <3>1, <3>2 DEF InLog
    <2> QED
      BY <2>2, <2>3 DEF InLog
  <1> QED
    BY <1>6, <1>7, <1>8, <1>9, <1>10 DEF Handled

(* A step of the task that leaves the events of x where they are. *)
LEMMA TaskMoves ==
  ASSUME TypeOK, NEW x \in Cells, CellInv(x), SameEvents(x), LogQuiet(x), flushed'[x] = flushed[x],
         task[x] # "asking" \/ task'[x] = task[x],
         task[x] = "flushing" => task'[x] = "flushing" \/ (flushed[x] /\ task'[x] \in Ending),
         task[x] \in Ending => task'[x] \in Ending,
         task'[x] \in Ending => task[x] \in Ending \cup {"flushing"},
         task'[x] # "flushing" \/ task[x] = "flushing"
  PROVE  Flushes(x)' /\ Asks(x)'
  <1>1. \A n : Shown(x, n)' <=> Shown(x, n)
    BY ShownStays
  <1>2. "flushing" # "asking" /\ "flushing" \notin Ending
    BY DEF Ending
  <1>3. /\ emitted'[x] = emitted[x] /\ events'[x] = events[x] /\ batch'[x] = batch[x]
        /\ prompt'[x] = prompt[x] /\ silent'[x] = silent[x]
    BY DEF SameEvents
  <1>4. Waiting(x)' = Waiting(x) /\ (\A n : KindOf(x, n)' = KindOf(x, n)) /\ KindOf(x, prompt[x])' = KindOf(x, prompt[x])
    BY <1>3 DEF Waiting, KindOf
  <1>5. Complete(x)' <=> Complete(x)
    BY <1>1, <1>3, <1>4 DEF Complete
  <1>6. Flushes(x) /\ Asks(x)
    BY DEF CellInv
  <1>7. LateAfter(x, batch[x])' /\ LateAfter(x, events[x])'
    BY <1>3, <1>6 DEF Flushes, LateAfter
  <1>8. Flush \in Waiting(x)' => task'[x] = "flushing" /\ ~flushed'[x]
    BY <1>4, <1>6 DEF Flushes
  <1>9. flushed'[x] => task'[x] \in Ending \cup {"flushing"} /\ Complete(x)'
    BY <1>5, <1>6 DEF Flushes
  <1>10. task'[x] \in Ending => flushed'[x]
    BY <1>2, <1>6 DEF Flushes
  <1>11. Flush \in Elems(batch'[x]) => \A n \in Elems(events'[x]) : n # Flush /\ emitted'[x][n].late
    BY <1>3, <1>6 DEF Flushes
  <1>12. Flushes(x)'
    BY <1>7, <1>8, <1>9, <1>10, <1>11 DEF Flushes
  <1>13. Asks(x)'
    BY <1>1, <1>3, <1>4, <1>6 DEF Asks
  <1> QED
    BY <1>12, <1>13

(* The end of an execution stays after its output. *)
LEMMA EndStays ==
  ASSUME TypeOK, NEW x \in Cells, CellInv(x), LogQuiet(x),
         silent'[x] = silent[x], emitted'[x] = emitted[x],
         task[x] \in Ending => task'[x] \in Ending,
         \A k \in DOMAIN log' : log'[k].cell = x /\ log'[k].type \in Outcomes \cup {"idle"} =>
           k \in DOMAIN log \/ (task'[x] \in Ending /\ task[x] \in Ending /\ \A j \in DOMAIN log : j <= k)
  PROVE  Ended(x)'
  <1>1. \A k \in DOMAIN log : k \in DOMAIN log' /\ log'[k] = log[k]
    BY LogStays
  <1>2. \A n : KindOf(x, n)' = KindOf(x, n)
    BY DEF KindOf
  <1> SUFFICES ASSUME NEW k \in DOMAIN log', log'[k].cell = x, log'[k].type \in Outcomes \cup {"idle"}
               PROVE  /\ task'[x] \in Ending
                      /\ ~silent'[x] => \A n \in DOMAIN emitted'[x] : KindOf(x, n)' # "input" /\ ~emitted'[x][n].late =>
                           \E j \in DOMAIN log' : j <= k /\ log'[j].cell = x /\ \E e \in DOMAIN log'[j].events : log'[j].events[e] = n
    BY DEF Ended
  <1>3. CASE k \in DOMAIN log
    <2>1. Ended(x) /\ log'[k] = log[k]
      BY <1>1, <1>3 DEF CellInv
    <2>2. task'[x] \in Ending
      BY <1>3, <2>1 DEF Ended
    <2> SUFFICES ASSUME ~silent'[x], NEW n \in DOMAIN emitted'[x], KindOf(x, n)' # "input", ~emitted'[x][n].late
                 PROVE  \E j \in DOMAIN log' : j <= k /\ log'[j].cell = x /\ \E e \in DOMAIN log'[j].events : log'[j].events[e] = n
      BY <2>2
    <2>3. PICK j \in DOMAIN log : j <= k /\ log[j].cell = x /\ \E e \in DOMAIN log[j].events : log[j].events[e] = n
      BY <1>2, <1>3, <2>1 DEF Ended
    <2>4. j \in DOMAIN log' /\ log'[j] = log[j]
      BY <1>1
    <2> QED
      BY <2>3, <2>4
  <1>4. CASE k \notin DOMAIN log
    <2>1. task'[x] \in Ending /\ flushed[x] /\ \A j \in DOMAIN log : j <= k
      BY <1>4 DEF CellInv, Flushes
    <2>2. Complete(x)
      BY <2>1 DEF CellInv, Flushes
    <2> SUFFICES ASSUME ~silent'[x], NEW n \in DOMAIN emitted'[x], KindOf(x, n)' # "input", ~emitted'[x][n].late
                 PROVE  \E j \in DOMAIN log' : j <= k /\ log'[j].cell = x /\ \E e \in DOMAIN log'[j].events : log'[j].events[e] = n
      BY <2>1
    <2>3. Shown(x, n)
      BY <1>2, <2>2 DEF Complete
    <2>4. PICK j \in DOMAIN log : log[j].cell = x /\ \E e \in DOMAIN log[j].events : log[j].events[e] = n
      BY <2>3 DEF Shown
    <2>5. j \in DOMAIN log' /\ log'[j] = log[j] /\ j <= k
      BY <1>1, <2>1
    <2> QED
      BY <2>4, <2>5
  <1> QED
    BY <1>3, <1>4

(* A step of another cell. *)
SameCell(x) == SameEvents(x) /\ task'[x] = task[x] /\ flushed'[x] = flushed[x]
LogOther(x) == log' = log \/ \E m \in Messages : log' = Append(log, m) /\ m.cell # x

(* The other executions keep their invariant. *)
LEMMA Others ==
  ASSUME TypeOK, NEW x \in Cells, CellInv(x), SameCell(x), LogOther(x),
         holder' = PumpOf(x) <=> holder = PumpOf(x), holder' = TaskOf(x) => holder = TaskOf(x)
  PROVE  CellInv(x)'
  <1>1. LogQuiet(x) /\ SameEvents(x)
    BY DEF LogOther, LogQuiet, SameCell
  <1>2. Handled(x)'
    BY <1>1, KeepsHandled DEF CellInv
  <1>3. "flushing" \notin Ending
    BY DEF Ending
  <1>4. Flushes(x)' /\ Asks(x)'
    BY <1>1, <1>3, TaskMoves DEF SameCell
  <1>5. \A k \in DOMAIN log' : log'[k].cell = x => k \in DOMAIN log
    <2>1. ASSUME NEW m \in Messages, log' = Append(log, m), m.cell # x
          PROVE  \A k \in DOMAIN log' : log'[k].cell = x => k \in DOMAIN log
      BY <2>1, LogAppend
    <2> QED
      BY <2>1 DEF LogOther
  <1>6. Ended(x)'
    BY <1>1, <1>5, EndStays DEF SameCell, SameEvents
  <1>7. Publishing(x)'
    BY DEF CellInv, Publishing, SameCell
  <1> QED
    BY <1>2, <1>4, <1>6, <1>7 DEF CellInv

-----------------------------------------------------------------------------
(* Who holds the lock is no one, a task or a pump. *)
LEMMA Locks ==
  ASSUME NEW x \in Cells, NEW y \in Cells
  PROVE  /\ TaskOf(x) # NoOne /\ PumpOf(x) # NoOne /\ PumpOf(x) # TaskOf(y)
         /\ (TaskOf(x) = TaskOf(y) \/ PumpOf(x) = PumpOf(y)) => x = y
         /\ TaskOf(x) \in Cells \X {"task", "pump"} /\ PumpOf(x) \in Cells \X {"task", "pump"}
  BY SMTT(30) DEF TaskOf, PumpOf, NoOne

(* The places of the task, and those where it publishes. *)
Places == {"busy", "input", "run", "asking", "flush", "flushing", "outcome", "reply", "idle", "done"}
AtPublish == {"busy", "input", "outcome", "idle"}

(* A step of x leaves the other cells alone. *)
LEMMA OneCell ==
  ASSUME Inv, NEW x \in Cells, TypeOK', CellInv(x)',
         \A y \in Cells : y # x => SameCell(y) /\ LogOther(y),
         \/ holder' = holder
         \/ holder = NoOne /\ holder' \in {TaskOf(x), PumpOf(x)}
         \/ holder \in {TaskOf(x), PumpOf(x)} /\ holder' = NoOne
  PROVE  Inv'
  <1> SUFFICES ASSUME NEW y \in Cells, y # x PROVE CellInv(y)'
    BY DEF Inv
  <1>1. (holder' = PumpOf(y) <=> holder = PumpOf(y)) /\ (holder' = TaskOf(y) => holder = TaskOf(y))
    BY Locks
  <1> QED
    BY <1>1, Others DEF Inv

(* A step that only moves the task of x on. *)
LEMMA TaskStepInv ==
  ASSUME Inv, NEW x \in Cells, NEW place \in Places,
         task' = [task EXCEPT ![x] = place], outcome' \in [Cells -> Outcomes],
         UNCHANGED <<log, silent, emitted, events, batch, joined, prompt, flushed>>,
         \/ holder' = holder /\ task[x] \notin AtPublish
         \/ holder = TaskOf(x) /\ holder' = NoOne,
         task[x] # "asking",
         task[x] = "flushing" => flushed[x] /\ place \in Ending,
         task[x] \in Ending => place \in Ending,
         place \in Ending => task[x] \in Ending \cup {"flushing"},
         place # "flushing"
  PROVE  Inv'
  <1>1. TypeOK /\ CellInv(x)
    BY DEF Inv
  <1>2. task \in [Cells -> Places]
    BY <1>1 DEF TypeOK, Places
  <1>3. task'[x] = place /\ (\A y \in Cells : y # x => task'[y] = task[y]) /\ task' \in [Cells -> Places]
    BY <1>2
  <1>4. holder' \in (Cells \X {"task", "pump"}) \cup {NoOne}
    BY <1>1 DEF TypeOK
  <1>5. TypeOK'
    BY <1>1, <1>3, <1>4 DEF TypeOK, Places
  <1>6. \A y \in Cells : SameEvents(y) /\ flushed'[y] = flushed[y] /\ LogOther(y) /\ LogQuiet(y)
    BY DEF SameEvents, LogOther, LogQuiet
  <1>7. \A y \in Cells : y # x => SameCell(y) /\ LogOther(y)
    BY <1>3, <1>6 DEF SameCell
  <1>8. Flushes(x)' /\ Asks(x)'
    BY <1>1, <1>3, <1>6, TaskMoves
  <1>9. Ended(x)'
    BY <1>1, <1>3, <1>6, EndStays DEF SameEvents
  <1>10. holder' = PumpOf(x) <=> holder = PumpOf(x)
    BY Locks
  <1>11. Handled(x)'
    BY <1>1, <1>6, <1>10, KeepsHandled DEF CellInv
  <1>12. Publishing(x)'
    BY <1>1, <1>3, Locks DEF CellInv, Publishing, AtPublish
  <1>13. CellInv(x)'
    BY <1>8, <1>9, <1>11, <1>12 DEF CellInv
  <1> QED
    BY <1>5, <1>7, <1>13, OneCell

(* execute goes on after a publish, a flush and a reply, and when the cell *)
(* returns.                                                                *)
LEMMA InvTaskPublished ==
  ASSUME Inv, NEW x \in Cells, TaskPublished(x)
  PROVE  Inv'
  <1>1. /\ task' = [task EXCEPT ![x] = AfterPublish(x)] /\ holder = TaskOf(x) /\ holder' = NoOne
        /\ UNCHANGED <<log, silent, emitted, events, batch, joined, prompt, flushed, outcome>>
    BY DEF TaskPublished, Published, pumpVars
  <1>2. task[x] \in AtPublish
    BY <1>1 DEF Inv, CellInv, Publishing, AtPublish
  <1>3. outcome' \in [Cells -> Outcomes]
    BY <1>1 DEF Inv, TypeOK
  <1>4. /\ AfterPublish(x) \in {"run", "input", "reply", "done"}
        /\ task[x] \in Ending => AfterPublish(x) \in Ending
        /\ AfterPublish(x) \in Ending => task[x] \in Ending
        /\ task[x] # "asking" /\ task[x] # "flushing"
    BY <1>2, SMTT(30) DEF AfterPublish, AtPublish, Ending
  <1>5. AfterPublish(x) \in Places /\ AfterPublish(x) # "flushing"
    BY <1>4, SMTT(30) DEF Places
  <1> HIDE DEF AfterPublish
  <1> QED
    BY <1>1, <1>3, <1>4, <1>5, TaskStepInv

(* The flush is answered. *)
LEMMA InvFlushed ==
  ASSUME Inv, NEW x \in Cells, Flushed(x)
  PROVE  Inv'
  <1>1. /\ task' = [task EXCEPT ![x] = AfterFlush(x)] /\ holder' = holder /\ task[x] = "flushing" /\ flushed[x]
        /\ UNCHANGED <<log, silent, emitted, events, batch, joined, prompt, flushed, outcome>>
    BY DEF Flushed, iopubVars, pumpVars
  <1>2. outcome' \in [Cells -> Outcomes]
    BY <1>1 DEF Inv, TypeOK
  <1>3. AfterFlush(x) \in {"outcome", "reply"}
    BY DEF AfterFlush
  <1>4. AfterFlush(x) \in Places /\ AfterFlush(x) # "flushing" /\ AfterFlush(x) \in Ending
    BY <1>3, SMTT(30) DEF Places, Ending
  <1>5. task[x] # "asking" /\ task[x] \notin AtPublish /\ task[x] \notin Ending
    BY <1>1, SMTT(30) DEF AtPublish, Ending
  <1> QED
    BY <1>1, <1>2, <1>4, <1>5, TaskStepInv

(* The reply is sent. *)
LEMMA InvReply ==
  ASSUME Inv, NEW x \in Cells, Reply(x)
  PROVE  Inv'
  <1>1. /\ task' = [task EXCEPT ![x] = "idle"] /\ holder' = holder /\ task[x] = "reply"
        /\ UNCHANGED <<log, silent, emitted, events, batch, joined, prompt, flushed, outcome>>
    BY DEF Reply, iopubVars, pumpVars
  <1>2. outcome' \in [Cells -> Outcomes]
    BY <1>1 DEF Inv, TypeOK
  <1>3. "idle" \in Places /\ "idle" # "flushing" /\ "idle" \in Ending
    BY SMTT(30) DEF Places, Ending
  <1>4. task[x] # "asking" /\ task[x] # "flushing" /\ task[x] \notin AtPublish /\ task[x] \in Ending
    BY <1>1, SMTT(30) DEF AtPublish, Ending
  <1> QED
    BY <1>1, <1>2, <1>3, <1>4, TaskStepInv

(* The language returns. *)
LEMMA InvReturns ==
  ASSUME Inv, NEW x \in Cells, NEW o \in Outcomes, Returns(x, o)
  PROVE  Inv'
  <1>1. /\ task' = [task EXCEPT ![x] = "flush"] /\ holder' = holder /\ task[x] = "run"
        /\ UNCHANGED <<log, silent, emitted, events, batch, joined, prompt, flushed>>
        /\ outcome' = [outcome EXCEPT ![x] = o]
    BY DEF Returns, iopubVars, pumpVars
  <1>2. outcome' \in [Cells -> Outcomes]
    BY <1>1 DEF Inv, TypeOK
  <1>3. "flush" \in Places /\ "flush" # "flushing" /\ "flush" \notin Ending
    BY SMTT(30) DEF Places, Ending
  <1>4. task[x] # "asking" /\ task[x] # "flushing" /\ task[x] \notin AtPublish /\ task[x] \notin Ending
    BY <1>1, SMTT(30) DEF AtPublish, Ending
  <1> QED
    BY <1>1, <1>2, <1>3, <1>4, TaskStepInv

(* The task's own messages have no events.  When it publishes its outcome  *)
(* or its idle status, the flush was answered.                             *)
LEMMA InvTaskPublishes ==
  ASSUME Inv, NEW x \in Cells, TaskPublishes(x)
  PROVE  Inv'
  <1>1. /\ task[x] \in AtPublish /\ holder = NoOne /\ holder' = TaskOf(x)
        /\ log' = Append(log, TaskMessage(x))
        /\ UNCHANGED <<task, silent, outcome, emitted, events, batch, joined, prompt, flushed>>
    BY DEF TaskPublishes, Publish, AtPublish, runVars, pumpVars
  <1>2. TypeOK /\ CellInv(x)
    BY DEF Inv
  <1>3. outcome[x] \in Outcomes
    BY <1>2 DEF TypeOK
  <1>4. /\ TaskMessage(x) \in Messages /\ TaskMessage(x).cell = x /\ TaskMessage(x).events = <<>>
        /\ TaskMessage(x).type \in Outcomes \cup {"idle"} => task[x] \in Ending
    <2>1. <<>> \in Seq(Numbers)
      BY SMTT(30)
    <2>2. CASE task[x] = "busy"
      <3>1. TaskMessage(x) = [cell |-> x, type |-> "busy", events |-> <<>>]
        BY <2>2, SMTT(30) DEF TaskMessage, MessageOf
      <3> QED
        BY <2>1, <3>1, SMTT(30) DEF Messages, Outcomes, Ending
    <2>3. CASE task[x] = "input"
      <3>1. TaskMessage(x) = [cell |-> x, type |-> "execute_input", events |-> <<>>]
        BY <2>3, SMTT(30) DEF TaskMessage, MessageOf
      <3> QED
        BY <2>1, <3>1, SMTT(30) DEF Messages, Outcomes, Ending
    <2>4. CASE task[x] = "outcome"
      <3>1. TaskMessage(x) = [cell |-> x, type |-> outcome[x], events |-> <<>>]
        BY <2>4, SMTT(30) DEF TaskMessage, MessageOf
      <3> QED
        BY <1>3, <2>1, <2>4, <3>1, SMTT(30) DEF Messages, Ending
    <2>5. CASE task[x] = "idle"
      <3>1. TaskMessage(x) = [cell |-> x, type |-> "idle", events |-> <<>>]
        BY <2>5, SMTT(30) DEF TaskMessage, MessageOf
      <3> QED
        BY <2>1, <2>5, <3>1, SMTT(30) DEF Messages, Ending
    <2> QED
      BY <1>1, <2>2, <2>3, <2>4, <2>5 DEF AtPublish
  <1> DEFINE m == TaskMessage(x)
  <1> HIDE DEF m
  <1>5. m \in Messages /\ m.cell = x /\ m.events = <<>> /\ log' = Append(log, m)
        /\ (m.type \in Outcomes \cup {"idle"} => task[x] \in Ending)
    BY <1>1, <1>4 DEF m
  <1>6. /\ DOMAIN log' = DOMAIN log \cup {Len(log) + 1} /\ log'[Len(log) + 1] = m
        /\ \A k \in DOMAIN log : log'[k] = log[k] /\ k < Len(log) + 1
        /\ DOMAIN log = 1 .. Len(log) /\ Len(log) \in Nat /\ log' \in Seq(Messages)
    BY <1>2, <1>5, LogAppend
  <1>7. TypeOK'
    <2>1. holder' \in (Cells \X {"task", "pump"}) \cup {NoOne}
      BY <1>1, Locks
    <2> QED
      BY <1>1, <1>2, <1>6, <2>1 DEF TypeOK, Messages
  <1>8. \A y \in Cells : SameCell(y) /\ SameEvents(y) /\ LogQuiet(y) /\ (y # x => LogOther(y))
    BY <1>1, <1>5 DEF SameCell, SameEvents, LogQuiet, LogOther
  <1>9. holder' = PumpOf(x) <=> holder = PumpOf(x)
    BY <1>1, Locks
  <1>10. Handled(x)'
    BY <1>2, <1>8, <1>9, KeepsHandled DEF CellInv
  <1>11. Flushes(x)' /\ Asks(x)'
    <2>1. "flushing" \notin Ending
      BY DEF Ending
    <2> QED
      BY <1>2, <1>8, <2>1, TaskMoves DEF SameCell
  <1>12. \A j \in DOMAIN log : j <= Len(log) + 1
    BY <1>6, SMTT(30)
  <1>13. Ended(x)'
    BY <1>1, <1>2, <1>5, <1>6, <1>8, <1>12, EndStays
  <1>14. Publishing(x)'
    BY <1>1 DEF Publishing, AtPublish
  <1>15. CellInv(x)'
    BY <1>10, <1>11, <1>13, <1>14 DEF CellInv
  <1> QED
    BY <1>1, <1>7, <1>8, <1>15, OneCell

-----------------------------------------------------------------------------
(* An event enters the channel, with a number above all others. *)
LEMMA PutFacts ==
  ASSUME TypeOK, NEW x \in Cells, NEW kind \in Kinds, NEW late \in BOOLEAN, Put(x, kind, late),
         NEW N, N = Len(emitted[x]) + 1
  PROVE  /\ N \in Numbers /\ N # Flush /\ N \notin DOMAIN emitted[x]
         /\ DOMAIN emitted'[x] = DOMAIN emitted[x] \cup {N} /\ emitted'[x][N] = [kind |-> kind, late |-> late]
         /\ \A n \in DOMAIN emitted[x] : emitted'[x][n] = emitted[x][n] /\ n < N /\ ~(N < n) /\ n # Flush /\ n \in Numbers
         /\ events'[x] = Append(events[x], N)
  <1> DEFINE e == [kind |-> kind, late |-> late]
             E == [kind : Kinds, late : BOOLEAN]
  <1>1. /\ emitted \in [Cells -> Seq(E)] /\ events \in [Cells -> Seq(Numbers \cup {Flush})]
    BY DEF TypeOK
  <1>2. emitted' = [emitted EXCEPT ![x] = Append(emitted[x], e)] /\ e \in E
    BY DEF Put
  <1> HIDE DEF e, E
  <1>3. emitted'[x] = Append(emitted[x], e) /\ emitted[x] \in Seq(E) /\ events[x] \in Seq(Numbers \cup {Flush})
    BY <1>1, <1>2
  <1>4. Len(emitted'[x]) = N /\ N \in Numbers /\ N # Flush /\ N \notin DOMAIN emitted[x] /\ emitted'[x] \in Seq(E)
    BY <1>2, <1>3, SMTT(30) DEF Numbers, Flush
  <1>5. DOMAIN emitted'[x] = DOMAIN emitted[x] \cup {N} /\ emitted'[x][N] = e
    BY <1>2, <1>3, SMTT(30)
  <1>6. \A n \in DOMAIN emitted[x] : emitted'[x][n] = emitted[x][n] /\ n < N /\ ~(N < n) /\ n # Flush /\ n \in Numbers
    BY <1>2, <1>3, SMTT(30) DEF Numbers, Flush
  <1>7. events' = [events EXCEPT ![x] = Append(events[x], N)]
    BY <1>4 DEF Put
  <1>8. events'[x] = Append(events[x], N)
    BY <1>1, <1>7
  <1> QED
    BY <1>4, <1>5, <1>6, <1>8 DEF e, E

(* ... of which the other cells see nothing. *)
LEMMA PutOthers ==
  ASSUME TypeOK, NEW x \in Cells, NEW kind \in Kinds, NEW late \in BOOLEAN, Put(x, kind, late)
  PROVE  /\ \A y \in Cells : y # x => emitted'[y] = emitted[y] /\ events'[y] = events[y]
         /\ emitted' \in [Cells -> Seq([kind : Kinds, late : BOOLEAN])]
         /\ events' \in [Cells -> Seq(Numbers \cup {Flush})]
  <1> DEFINE e == [kind |-> kind, late |-> late]
             E == [kind : Kinds, late : BOOLEAN]
  <1>1. /\ emitted \in [Cells -> Seq(E)] /\ events \in [Cells -> Seq(Numbers \cup {Flush})]
    BY DEF TypeOK
  <1>2. emitted' = [emitted EXCEPT ![x] = Append(emitted[x], e)] /\ e \in E
    BY DEF Put
  <1> HIDE DEF e, E
  <1>3. emitted'[x] = Append(emitted[x], e) /\ emitted[x] \in Seq(E) /\ events[x] \in Seq(Numbers \cup {Flush})
    BY <1>1, <1>2
  <1>4. Append(emitted[x], e) \in Seq(E) /\ Len(emitted'[x]) \in Numbers
    BY <1>2, <1>3, SMTT(30) DEF Numbers
  <1>5. events' = [events EXCEPT ![x] = Append(events[x], Len(emitted'[x]))]
    BY DEF Put
  <1>6. Append(events[x], Len(emitted'[x])) \in Seq(Numbers \cup {Flush})
    BY <1>3, <1>4, SMTT(30)
  <1>7. \A y \in Cells : y # x => emitted'[y] = emitted[y] /\ events'[y] = events[y]
    BY <1>1, <1>2, <1>5
  <1>8. emitted' \in [Cells -> Seq(E)]
    BY <1>1, <1>2, <1>4
  <1>9. events' \in [Cells -> Seq(Numbers \cup {Flush})]
    BY <1>1, <1>5, <1>6
  <1> QED
    BY <1>7, <1>8, <1>9 DEF E

(* The number of an event is not the Flush. *)
LEMMA NumberTypes == Numbers \cup {Flush} = Nat /\ Numbers \subseteq Nat /\ Flush \notin Numbers
  BY SMTT(30) DEF Numbers, Flush

(* The cell itself emits only while it runs; its threads emit any time,     *)
(* but never a prompt.                                                      *)
LEMMA PutCell ==
  ASSUME TypeOK, NEW x \in Cells, CellInv(x), NEW kind \in Kinds, NEW late \in BOOLEAN, Put(x, kind, late),
         NEW N, N = Len(emitted[x]) + 1,
         UNCHANGED <<log, holder, silent, batch, joined, prompt, flushed>>,
         late => kind # "input" /\ task'[x] = task[x],
         ~late => task[x] = "run" /\ task'[x] \in {"run", "asking"} /\ (kind = "input" => task'[x] = "asking")
  PROVE  CellInv(x)'
  <1>1. /\ N \in Numbers /\ N # Flush /\ N \notin DOMAIN emitted[x]
        /\ DOMAIN emitted'[x] = DOMAIN emitted[x] \cup {N} /\ emitted'[x][N] = [kind |-> kind, late |-> late]
        /\ \A n \in DOMAIN emitted[x] : emitted'[x][n] = emitted[x][n] /\ n < N /\ ~(N < n) /\ n # Flush
        /\ events'[x] = Append(events[x], N)
    BY PutFacts, SMTT(30)
  <1>2. emitted'[x][N].kind = kind /\ emitted'[x][N].late = late
    BY <1>1, SMTT(30)
  <1>3. /\ Handled(x) /\ Flushes(x) /\ Asks(x) /\ Ended(x) /\ Publishing(x)
        /\ Placed(x) /\ InLine(x) /\ Covered(x) /\ Making(x) /\ InLog(x)
    BY DEF CellInv, Handled
  <1>4. /\ events[x] \in Seq(Numbers \cup {Flush}) /\ events[x] \in Seq(Nat) /\ N \in Nat
    BY <1>1, NumberTypes DEF TypeOK
  <1>5. Elems(events'[x]) = Elems(events[x]) \cup {N}
    <2>1. events[x] \in Seq(Nat) /\ N \in Nat
      BY <1>4
    <2>2. Elems(Append(events[x], N)) = Elems(events[x]) \cup {N}
      BY <2>1, AppendElems, SMTT(30)
    <2> QED
      BY <1>1, <2>2
  <1>6. Waiting(x)' = Waiting(x) \cup {N}
    BY <1>5 DEF Waiting
  <1>7. \A n : Shown(x, n)' <=> Shown(x, n)
    BY DEF Shown
  <1>8. \A n : Shown(x, n) => EventOf(x, n)
    BY <1>3 DEF Placed, Shown
  <1>9. AllShown(x)' = AllShown(x)
    BY <1>1, <1>7, <1>8 DEF AllShown, EventOf
  <1>10. /\ \A n : n = Flush \/ EventOf(x, n) => KindOf(x, n)' = KindOf(x, n)
         /\ KindOf(x, N)' = kind
         /\ \A n : EventOf(x, n) => EventOf(x, n)'
    BY <1>1, <1>2 DEF KindOf, EventOf
  <1>11. "run" # "flushing" /\ "run" \notin Ending /\ "run" # "asking" /\ "run" \notin {"busy", "input", "outcome", "idle"}
    BY SMTT(30) DEF Ending
  <1>12. Placed(x)'
    <2>1. \A n \in Waiting(x)' : n = Flush \/ EventOf(x, n)'
      BY <1>1, <1>3, <1>6, <1>10 DEF Placed, EventOf
    <2> QED
      BY <1>3, <1>10, <2>1 DEF Placed, EventOf
  <1>13. \A n : EventOf(x, n) => n < N
    BY <1>1 DEF EventOf
  <1>14. InLine(x)'
    <2>1. Below(Waiting(x), {N}) /\ Below(Elems(joined[x]), {N}) /\ Below({prompt[x]}, {N}) /\ Below(AllShown(x), {N})
      BY <1>3, <1>13 DEF Placed, Below, AllShown, EventOf, Flush
    <2>2. Below(Elems(events[x]), {N}) /\ Below(Elems(batch[x]), {N})
      BY <2>1 DEF Below, Waiting
    <2>3. Sorted(events'[x])
      BY <1>1, <1>3, <1>4, <2>2, AppendSorted DEF InLine
    <2>4. Below(Elems(batch'[x]), Elems(events'[x]))
      BY <1>3, <1>5, <2>2 DEF InLine, Below
    <2>5. Below(Elems(joined'[x]), Waiting(x)')
      BY <1>3, <1>6, <2>1 DEF InLine, Below
    <2>6. Below({prompt'[x]}, Waiting(x)')
      BY <1>3, <1>6, <2>1 DEF InLine, Below
    <2>7. Below(AllShown(x)', Waiting(x)')
      BY <1>3, <1>6, <1>9, <2>1 DEF InLine, Below
    <2> QED
      BY <1>3, <1>9, <2>3, <2>4, <2>5, <2>6, <2>7 DEF InLine
  <1>15. Covered(x)'
    BY <1>1, <1>3, <1>6, <1>7, <1>10 DEF Covered, EventOf
  <1>16. Making(x)'
    <2>1. \A n \in Elems(joined[x]) : KindOf(x, n)' = KindOf(x, n)
      BY <1>3, <1>10 DEF Placed
    <2>2. Making(x) /\ joined'[x] = joined[x]
      BY <1>3
    <2> QED
      BY <1>3, <1>10, <2>1, <2>2 DEF Making
  <1>17. InLog(x)'
    <2>1. \A k \in DOMAIN log : log[k].cell = x => \A i \in DOMAIN log[k].events :
            KindOf(x, log[k].events[i])' = KindOf(x, log[k].events[i])
      <3> SUFFICES ASSUME NEW k \in DOMAIN log, log[k].cell = x, NEW i \in DOMAIN log[k].events
                   PROVE  KindOf(x, log[k].events[i])' = KindOf(x, log[k].events[i])
        OBVIOUS
      <3>1. log[k].events[i] \in DOMAIN emitted[x]
        BY <1>3 DEF Placed, EventOf
      <3> QED
        BY <1>1, <3>1 DEF KindOf
    <2> QED
      BY <1>3, <2>1 DEF InLog
  <1>18. Handled(x)'
    BY <1>12, <1>14, <1>15, <1>16, <1>17 DEF Handled
  <1>19. Publishing(x)'
    BY <1>3, <1>11 DEF Publishing
  <1>20. Flush \in Waiting(x) \/ flushed[x] => late
    BY <1>3, <1>11 DEF Flushes
  <1>21. Flushes(x)'
    <2>1. LateAfter(x, batch[x])'
      <3> SUFFICES ASSUME NEW i \in DOMAIN batch[x], NEW j \in DOMAIN batch[x], i < j, batch[x][i] = Flush
                   PROVE  batch[x][j] # Flush /\ emitted'[x][batch[x][j]].late
        BY DEF LateAfter
      <3>1. batch[x][j] \in Waiting(x) /\ batch[x][j] # Flush /\ emitted[x][batch[x][j]].late
        BY <1>3 DEF Flushes, LateAfter, Waiting, Elems
      <3> QED
        BY <1>1, <1>3, <3>1 DEF Placed, EventOf
    <2>2. LateAfter(x, events[x])'
      <3>1. /\ DOMAIN events'[x] = DOMAIN events[x] \cup {Len(events[x]) + 1}
            /\ events'[x][Len(events[x]) + 1] = N
            /\ \A i \in DOMAIN events[x] : events'[x][i] = events[x][i] /\ ~(Len(events[x]) + 1 < i)
            /\ ~(Len(events[x]) + 1 < Len(events[x]) + 1)
        BY <1>1, <1>4, SMTT(30)
      <3> SUFFICES ASSUME NEW i \in DOMAIN events'[x], NEW j \in DOMAIN events'[x], i < j, events'[x][i] = Flush
                   PROVE  events'[x][j] # Flush /\ emitted'[x][events'[x][j]].late
        BY DEF LateAfter
      <3>2. i \in DOMAIN events[x] /\ events[x][i] = Flush
        BY <1>1, <3>1
      <3>3. CASE j \in DOMAIN events[x]
        <4>1. events[x][j] \in Waiting(x) /\ events[x][j] # Flush /\ emitted[x][events[x][j]].late
          BY <1>3, <3>2, <3>3 DEF Flushes, LateAfter, Waiting, Elems
        <4> QED
          BY <1>1, <1>3, <3>1, <3>3, <4>1 DEF Placed, EventOf
      <3>4. CASE j = Len(events[x]) + 1
        <4>1. Flush \in Waiting(x)
          BY <3>2 DEF Waiting, Elems
        <4> QED
          BY <1>1, <1>2, <1>20, <3>1, <3>4, <4>1
      <3> QED
        BY <3>1, <3>3, <3>4
    <2>3. Flush \in Elems(batch[x]) => \A n \in Elems(events'[x]) : n # Flush /\ emitted'[x][n].late
      <3> SUFFICES ASSUME Flush \in Elems(batch[x]), NEW n \in Elems(events[x]) \cup {N}
                   PROVE  n # Flush /\ emitted'[x][n].late
        BY <1>5
      <3>1. CASE n = N
        BY <1>1, <1>2, <1>20, <3>1 DEF Waiting
      <3>2. CASE n \in Elems(events[x])
        <4>1. n # Flush /\ emitted[x][n].late /\ n \in Waiting(x)
          BY <1>3, <3>2 DEF Flushes, Waiting
        <4> QED
          BY <1>1, <1>3, <4>1 DEF Placed, EventOf
      <3> QED
        BY <3>1, <3>2
    <2>4. Flush \in Waiting(x)' => task'[x] = "flushing" /\ ~flushed'[x]
      BY <1>1, <1>3, <1>6, <1>20 DEF Flushes
    <2>5. flushed[x] => Complete(x)'
      <3> SUFFICES ASSUME flushed[x], ~silent[x], NEW n \in DOMAIN emitted'[x], KindOf(x, n)' # "input", ~emitted'[x][n].late
                   PROVE  Shown(x, n)'
        BY DEF Complete
      <3>1. n \in DOMAIN emitted[x]
        BY <1>1, <1>2, <1>20
      <3>2. KindOf(x, n) # "input" /\ ~emitted[x][n].late
        BY <1>1, <1>10, <3>1 DEF EventOf
      <3> QED
        BY <1>3, <1>7, <3>1, <3>2 DEF Flushes, Complete
    <2>6. flushed[x] => task'[x] \in Ending \cup {"flushing"}
      BY <1>3, <1>20 DEF Flushes
    <2>7. task'[x] \in Ending => flushed[x]
      <3>1. "asking" \notin Ending
        BY SMTT(30) DEF Ending
      <3> QED
        BY <1>3, <1>11, <3>1 DEF Flushes
    <2> QED
      BY <2>1, <2>2, <2>3, <2>4, <2>5, <2>6, <2>7 DEF Flushes
  <1>22. Asks(x)'
    <2>1. \A n \in Waiting(x)' \cup {prompt[x]} : n # Flush /\ KindOf(x, n)' = "input" =>
            task'[x] = "asking" /\ \A m \in DOMAIN emitted'[x] : n < m => emitted'[x][m].late
      <3> SUFFICES ASSUME NEW n \in Waiting(x) \cup {N} \cup {prompt[x]}, n # Flush, KindOf(x, n)' = "input"
                   PROVE  task'[x] = "asking" /\ \A m \in DOMAIN emitted'[x] : n < m => emitted'[x][m].late
        BY <1>6
      <3>1. CASE n = N
        <4>1. ~late /\ task'[x] = "asking"
          BY <1>10, <3>1
        <4>2. ~(N < N)
          BY <1>4, SMTT(30)
        <4> QED
          BY <1>1, <3>1, <4>1, <4>2
      <3>2. CASE n # N
        <4>1. EventOf(x, n) /\ KindOf(x, n) = "input" /\ n \in Waiting(x) \cup {prompt[x]}
          BY <1>3, <1>10, <3>2 DEF Placed, Flush
        <4>2. task[x] = "asking" /\ \A m \in DOMAIN emitted[x] : n < m => emitted[x][m].late
          BY <1>3, <4>1 DEF Asks
        <4>3. late
          BY <1>11, <4>2
        <4> QED
          BY <1>1, <1>2, <4>2, <4>3
      <3> QED
        BY <3>1, <3>2
    <2>2. \A n \in DOMAIN emitted'[x] : emitted'[x][n].late => KindOf(x, n)' # "input"
      BY <1>1, <1>2, <1>3, <1>10 DEF Asks, EventOf
    <2>3. prompt[x] # 0 => KindOf(x, prompt[x])' = "input"
      <3>1. prompt[x] # 0 => prompt[x] \in DOMAIN emitted[x]
        BY <1>3 DEF Placed, EventOf
      <3> QED
        BY <1>1, <1>3, <3>1 DEF Asks, KindOf
    <2>4. ~silent[x] => \A n \in DOMAIN emitted'[x] : n < prompt[x] /\ KindOf(x, n)' # "input" => Shown(x, n)'
      <3>1. ~(N < prompt[x])
        <4>1. prompt[x] = 0 \/ prompt[x] < N
          BY <1>3, <1>13 DEF Placed
        <4>2. prompt[x] \in Nat
          BY NumberTypes DEF TypeOK, Flush
        <4> QED
          BY <1>4, <4>1, <4>2, SMTT(30)
      <3> QED
        BY <1>1, <1>3, <1>7, <1>10, <3>1 DEF Asks, EventOf
    <2> QED
      BY <2>1, <2>2, <2>3, <2>4 DEF Asks
  <1>23. Ended(x)'
    <2> SUFFICES ASSUME NEW k \in DOMAIN log, log[k].cell = x, log[k].type \in Outcomes \cup {"idle"}
                 PROVE  /\ task'[x] \in Ending
                        /\ ~silent[x] => \A n \in DOMAIN emitted'[x] : KindOf(x, n)' # "input" /\ ~emitted'[x][n].late =>
                             \E j \in DOMAIN log : j <= k /\ log[j].cell = x /\ \E e \in DOMAIN log[j].events : log[j].events[e] = n
      BY DEF Ended
    <2>1. task[x] \in Ending
      BY <1>3 DEF Ended
    <2>2. late /\ task'[x] = task[x]
      BY <1>11, <2>1
    <2> SUFFICES ASSUME ~silent[x], NEW n \in DOMAIN emitted'[x], KindOf(x, n)' # "input", ~emitted'[x][n].late
                 PROVE  \E j \in DOMAIN log : j <= k /\ log[j].cell = x /\ \E e \in DOMAIN log[j].events : log[j].events[e] = n
      BY <2>1, <2>2
    <2>3. n \in DOMAIN emitted[x] /\ KindOf(x, n) # "input" /\ ~emitted[x][n].late
      BY <1>1, <1>2, <1>10, <2>2 DEF EventOf
    <2> QED
      BY <1>3, <2>3 DEF Ended
  <1> QED
    BY <1>18, <1>19, <1>21, <1>22, <1>23 DEF CellInv

(* ExecutionContext::emit, by the cell and by its threads. *)
LEMMA InvPut ==
  ASSUME Inv, NEW x \in Cells, NEW kind \in Kinds, NEW late \in BOOLEAN, Put(x, kind, late),
         UNCHANGED <<log, holder, silent, outcome, batch, joined, prompt, flushed>>,
         NEW place \in Places, task' = [task EXCEPT ![x] = place],
         late => kind # "input" /\ place = task[x],
         ~late => task[x] = "run" /\ place \in {"run", "asking"} /\ (kind = "input" => place = "asking")
  PROVE  Inv'
  <1>1. TypeOK /\ CellInv(x)
    BY DEF Inv
  <1>0. PICK N : N = Len(emitted[x]) + 1
    OBVIOUS
  <1>2. /\ \A y \in Cells : y # x => emitted'[y] = emitted[y] /\ events'[y] = events[y]
        /\ emitted' \in [Cells -> Seq([kind : Kinds, late : BOOLEAN])]
        /\ events' \in [Cells -> Seq(Numbers \cup {Flush})]
    BY <1>1, PutOthers
  <1>3. task \in [Cells -> Places]
    BY <1>1 DEF TypeOK, Places
  <1>4. task'[x] = place /\ (\A y \in Cells : y # x => task'[y] = task[y]) /\ task' \in [Cells -> Places]
    BY <1>3
  <1>5. TypeOK'
    BY <1>1, <1>2, <1>4 DEF TypeOK, Places
  <1>6. CellInv(x)'
    BY <1>0, <1>1, <1>4, PutCell, SMTT(30)
  <1>7. \A y \in Cells : y # x => SameCell(y) /\ LogOther(y)
    BY <1>2, <1>4 DEF SameCell, SameEvents, LogOther
  <1> QED
    BY <1>5, <1>6, <1>7, OneCell

(* The cell, or a thread that it left behind, emits. *)
LEMMA InvEmit ==
  ASSUME Inv, NEW x \in Cells, NEW kind \in Kinds, Emit(x, kind) \/ EmitLate(x, kind)
  PROVE  Inv'
  <1>1. CASE Emit(x, kind)
    <2> DEFINE place == IF kind = "input" THEN "asking" ELSE "run"
    <2>1. /\ Put(x, kind, FALSE) /\ task[x] = "run" /\ task' = [task EXCEPT ![x] = place]
          /\ UNCHANGED <<log, holder, silent, outcome, batch, joined, prompt, flushed>>
      BY <1>1 DEF Emit, iopubVars, pumpVars
    <2>2. place \in {"run", "asking"} /\ (kind = "input" => place = "asking")
      OBVIOUS
    <2> HIDE DEF place
    <2>3. place \in Places /\ FALSE \in BOOLEAN
      BY <2>2, SMTT(30) DEF Places
    <2> QED
      BY <2>1, <2>2, <2>3, InvPut
  <1>2. CASE EmitLate(x, kind)
    <2>1. /\ Put(x, kind, TRUE) /\ kind # "input" /\ task' = task
          /\ UNCHANGED <<log, holder, silent, outcome, batch, joined, prompt, flushed>>
      BY <1>2 DEF EmitLate, iopubVars, pumpVars
    <2>2. task \in [Cells -> Places]
      BY DEF Inv, TypeOK, Places
    <2>3. task' = [task EXCEPT ![x] = task[x]] /\ task[x] \in Places /\ TRUE \in BOOLEAN
      BY <2>1, <2>2
    <2>4. PICK place \in Places : place = task[x]
      BY <2>3
    <2> QED
      BY <2>1, <2>3, <2>4, InvPut
  <1> QED
    BY <1>1, <1>2

-----------------------------------------------------------------------------
(* Steps that publish and emit nothing. *)
LEMMA Calm ==
  ASSUME TypeOK, NEW x \in Cells, CellInv(x), log' = log, emitted'[x] = emitted[x]
  PROVE  /\ \A n : (Shown(x, n)' <=> Shown(x, n)) /\ KindOf(x, n)' = KindOf(x, n) /\ (EventOf(x, n)' <=> EventOf(x, n))
         /\ AllShown(x)' = AllShown(x) /\ InLog(x)'
         /\ \A k \in DOMAIN log' : log'[k].cell = x => \A i \in DOMAIN log'[k].events : EventOf(x, log[k].events[i])'
  <1>1. \A n : (Shown(x, n)' <=> Shown(x, n)) /\ KindOf(x, n)' = KindOf(x, n) /\ (EventOf(x, n)' <=> EventOf(x, n))
    BY DEF Shown, KindOf, EventOf
  <1>2. AllShown(x)' = AllShown(x)
    BY <1>1 DEF AllShown
  <1>3. \A k \in DOMAIN log' : log'[k].cell = x => \A i \in DOMAIN log'[k].events : EventOf(x, log[k].events[i])'
    BY DEF CellInv, Handled, Placed, EventOf
  <1>4. \A k \in DOMAIN log : \A i \in DOMAIN log[k].events : KindOf(x, log[k].events[i])' = KindOf(x, log[k].events[i])
    BY DEF KindOf
  <1>5. InLog(x)'
    BY <1>4 DEF CellInv, Handled, InLog
  <1> QED
    BY <1>1, <1>2, <1>3, <1>5

(* ... and keep the message in the making. *)
LEMMA MakingStays ==
  ASSUME NEW x \in Cells, Making(x), UNCHANGED <<log, holder, silent, emitted, joined>>,
         joined[x] = <<>> \/ prompt'[x] = 0
  PROVE  Making(x)'
  <1>1. \A n : KindOf(x, n)' = KindOf(x, n)
    BY DEF KindOf
  <1>2. \A n, m \in Elems(joined'[x]) : KindOf(x, n)' = KindOf(x, m)'
    BY <1>1 DEF Making
  <1>3. \A n \in Elems(joined'[x]) : /\ KindOf(x, n)' \in Streams \cup {"display"}
                                     /\ KindOf(x, n)' = "display" => Len(joined'[x]) = 1
    BY <1>1 DEF Making
  <1>4. silent'[x] => joined'[x] = <<>> /\ \A k \in DOMAIN log' : log'[k].cell = x => log'[k].events = <<>>
    BY DEF Making
  <1>5. holder' = PumpOf(x) =>
          joined'[x] # <<>> /\ \E k \in DOMAIN log' : log'[k].cell = x /\ log'[k].events = joined'[x]
    BY DEF Making
  <1>6. joined'[x] = <<>> \/ prompt'[x] = 0
    OBVIOUS
  <1> QED
    BY <1>2, <1>3, <1>4, <1>5, <1>6 DEF Making

(* The Flush enters the channel when the cell has returned. *)
LEMMA InvSendFlush ==
  ASSUME Inv, NEW x \in Cells, SendFlush(x)
  PROVE  Inv'
  <1>1. /\ task[x] = "flush" /\ events' = [events EXCEPT ![x] = Append(events[x], Flush)]
        /\ task' = [task EXCEPT ![x] = "flushing"]
        /\ UNCHANGED <<log, holder, silent, outcome, emitted, batch, joined, prompt, flushed>>
    BY DEF SendFlush, iopubVars, pumpVars
  <1>2. TypeOK /\ CellInv(x)
    BY DEF Inv
  <1>3. task \in [Cells -> Places] /\ events \in [Cells -> Seq(Nat)]
    BY <1>2, NumberTypes DEF TypeOK, Places
  <1>4. "flushing" \in Places
    BY DEF Places
  <1>5. task'[x] = "flushing" /\ (\A y \in Cells : y # x => task'[y] = task[y]) /\ task' \in [Cells -> Places]
    BY <1>1, <1>3, <1>4
  <1>6. /\ events'[x] = Append(events[x], Flush) /\ events[x] \in Seq(Nat) /\ Flush \in Nat
        /\ \A y \in Cells : y # x => events'[y] = events[y]
    BY <1>1, <1>3, NumberTypes
  <1>7. Append(events[x], Flush) \in Seq(Nat)
    BY <1>6, SMTT(30)
  <1>8. events' \in [Cells -> Seq(Nat)]
    BY <1>1, <1>3, <1>7
  <1>9. TypeOK'
    BY <1>1, <1>2, <1>5, <1>8, NumberTypes DEF TypeOK, Places
  <1>10. \A y \in Cells : y # x => SameCell(y) /\ LogOther(y)
    BY <1>1, <1>5, <1>6 DEF SameCell, SameEvents, LogOther
  <1>11. /\ \A n : (Shown(x, n)' <=> Shown(x, n)) /\ KindOf(x, n)' = KindOf(x, n) /\ (EventOf(x, n)' <=> EventOf(x, n))
         /\ AllShown(x)' = AllShown(x) /\ InLog(x)'
         /\ \A k \in DOMAIN log' : log'[k].cell = x => \A i \in DOMAIN log'[k].events : EventOf(x, log[k].events[i])'
    BY <1>1, <1>2, Calm
  <1>12. /\ Placed(x) /\ InLine(x) /\ Covered(x) /\ Making(x) /\ Flushes(x) /\ Asks(x) /\ Publishing(x)
    BY <1>2 DEF CellInv, Handled
  <1>13. Elems(events'[x]) = Elems(events[x]) \cup {Flush}
    BY <1>6, AppendElems
  <1>14. Waiting(x)' = Waiting(x) \cup {Flush}
    BY <1>1, <1>13 DEF Waiting
  <1>15. "flush" # "flushing" /\ "flush" \notin Ending /\ "flush" # "asking" /\ "flushing" \notin Ending
    BY SMTT(30) DEF Ending
  <1>16. Flush \notin Waiting(x) /\ ~flushed[x]
    BY <1>1, <1>12, <1>15 DEF Flushes
  <1>17. Placed(x)'
    BY <1>1, <1>11, <1>12, <1>14 DEF Placed, EventOf
  <1>18. InLine(x)'
    <2>1. Below(Elems(events[x]), {Flush})
      BY DEF Below
    <2>2. Sorted(events'[x])
      BY <1>6, <1>12, <2>1, AppendSorted DEF InLine
    <2>3. \A S : Below(S, Waiting(x)) => Below(S, Waiting(x)')
      BY <1>14 DEF Below
    <2>4. Below(Elems(batch[x]), Elems(events'[x]))
      BY <1>12, <1>13 DEF Below, InLine
    <2> QED
      BY <1>1, <1>11, <1>12, <2>2, <2>3, <2>4 DEF InLine
  <1>19. Covered(x)'
    BY <1>1, <1>11, <1>12, <1>14 DEF Covered
  <1>20. Making(x)'
    <2>1. Making(x) /\ (joined[x] = <<>> \/ prompt'[x] = 0)
      BY <1>1, <1>12 DEF Making
    <2> QED
      BY <1>1, <2>1, MakingStays
  <1>21. Publishing(x)'
    BY <1>1, <1>12, SMTT(30) DEF Publishing
  <1>22. Flushes(x)'
    <2>1. LateAfter(x, batch[x])'
      BY <1>1, <1>12 DEF Flushes, LateAfter
    <2>2. LateAfter(x, events[x])'
      <3>1. /\ DOMAIN events'[x] = DOMAIN events[x] \cup {Len(events[x]) + 1}
            /\ \A i \in DOMAIN events[x] : events'[x][i] = events[x][i] /\ ~(Len(events[x]) + 1 < i)
            /\ ~(Len(events[x]) + 1 < Len(events[x]) + 1)
        BY <1>6, SMTT(30)
      <3>2. \A i \in DOMAIN events[x] : events[x][i] # Flush
        BY <1>16 DEF Waiting, Elems
      <3> QED
        BY <3>1, <3>2 DEF LateAfter
    <2>3. Flush \notin Elems(batch[x])
      BY <1>16 DEF Waiting
    <2> QED
      BY <1>1, <1>5, <1>15, <1>16, <2>1, <2>2, <2>3 DEF Flushes
  <1>23. Asks(x)'
    <2>1. \A n \in Waiting(x)' \cup {prompt'[x]} : n # Flush /\ KindOf(x, n)' = "input" => FALSE
      BY <1>1, <1>11, <1>12, <1>14, <1>15 DEF Asks
    <2>2. KindOf(x, prompt[x])' = KindOf(x, prompt[x])
      BY <1>1 DEF KindOf
    <2> QED
      BY <1>1, <1>11, <1>12, <2>1, <2>2 DEF Asks
  <1>24. Ended(x)'
    BY <1>1, <1>2, <1>15, EndStays DEF LogQuiet
  <1>25. CellInv(x)'
    BY <1>11, <1>17, <1>18, <1>19, <1>20, <1>21, <1>22, <1>23, <1>24 DEF CellInv, Handled
  <1> QED
    BY <1>1, <1>9, <1>10, <1>25, OneCell

(* What a step of the pump leaves alone: all but its own state. *)
LEMMA PumpCell ==
  ASSUME Inv, NEW x \in Cells, TypeOK',
         UNCHANGED <<log, silent, emitted>>,
         holder' = holder \/ (holder = PumpOf(x) /\ holder' = NoOne),
         \A y \in Cells : y # x => SameCell(y),
         Placed(x)', InLine(x)', Covered(x)', Making(x)', Publishing(x)', Flushes(x)', Asks(x)',
         task[x] \in Ending => task'[x] \in Ending
  PROVE  Inv'
  <1>1. TypeOK /\ CellInv(x)
    BY DEF Inv
  <1>2. InLog(x)'
    BY <1>1, Calm
  <1>3. Ended(x)'
    BY <1>1, EndStays DEF LogQuiet
  <1>4. CellInv(x)'
    BY <1>2, <1>3 DEF CellInv, Handled
  <1> QED
    BY <1>4, OneCell DEF LogOther

(* recv_many: the channel becomes the batch. *)
LEMMA InvTake ==
  ASSUME Inv, NEW x \in Cells, Take(x)
  PROVE  Inv'
  <1>1. /\ joined[x] = <<>> /\ prompt[x] = 0 /\ batch[x] = <<>>
        /\ batch' = [batch EXCEPT ![x] = events[x]] /\ events' = [events EXCEPT ![x] = <<>>]
        /\ UNCHANGED <<log, holder, silent, task, outcome, emitted, joined, prompt, flushed>>
    BY DEF Take, Free, iopubVars
  <1>2. TypeOK /\ CellInv(x)
    BY DEF Inv
  <1>3. events \in [Cells -> Seq(Numbers \cup {Flush})] /\ batch \in [Cells -> Seq(Numbers \cup {Flush})]
    BY <1>2 DEF TypeOK
  <1>4. /\ batch'[x] = events[x] /\ events'[x] = <<>>
        /\ \A y \in Cells : y # x => batch'[y] = batch[y] /\ events'[y] = events[y]
    BY <1>1, <1>3
  <1>5. <<>> \in Seq(Numbers \cup {Flush}) /\ DOMAIN <<>> = {}
    BY SMTT(30)
  <1>6. batch' \in [Cells -> Seq(Numbers \cup {Flush})] /\ events' \in [Cells -> Seq(Numbers \cup {Flush})]
    BY <1>1, <1>3, <1>5
  <1>7. TypeOK'
    BY <1>1, <1>2, <1>6 DEF TypeOK
  <1>8. \A y \in Cells : y # x => SameCell(y)
    BY <1>1, <1>4 DEF SameCell, SameEvents
  <1>9. /\ \A n : (Shown(x, n)' <=> Shown(x, n)) /\ KindOf(x, n)' = KindOf(x, n) /\ (EventOf(x, n)' <=> EventOf(x, n))
        /\ AllShown(x)' = AllShown(x)
        /\ \A k \in DOMAIN log' : log'[k].cell = x => \A i \in DOMAIN log'[k].events : EventOf(x, log[k].events[i])'
    BY <1>1, <1>2, Calm
  <1>10. /\ Placed(x) /\ InLine(x) /\ Covered(x) /\ Making(x) /\ Flushes(x) /\ Asks(x) /\ Publishing(x)
    BY <1>2 DEF CellInv, Handled
  <1>11. Elems(batch[x]) = {} /\ Elems(events'[x]) = {}
    BY <1>1, <1>4, EmptySeq
  <1>12. Waiting(x)' = Waiting(x)
    BY <1>4, <1>11 DEF Waiting
  <1>13. Placed(x)'
    BY <1>1, <1>9, <1>10, <1>12 DEF Placed, EventOf
  <1>14. InLine(x)'
    <2>1. Sorted(batch'[x]) /\ Sorted(events'[x])
      BY <1>4, <1>10, EmptySeq DEF InLine
    <2>2. Below(Elems(batch'[x]), Elems(events'[x]))
      BY <1>11 DEF Below
    <2> QED
      BY <1>1, <1>9, <1>10, <1>12, <2>1, <2>2 DEF InLine
  <1>15. Covered(x)'
    BY <1>1, <1>9, <1>10, <1>12 DEF Covered
  <1>16. Making(x)'
    <2>1. Making(x) /\ (joined[x] = <<>> \/ prompt'[x] = 0)
      BY <1>1, <1>10 DEF Making
    <2> QED
      BY <1>1, <2>1, MakingStays
  <1>17. Publishing(x)'
    BY <1>1, <1>10 DEF Publishing
  <1>18. Flushes(x)'
    <2>1. LateAfter(x, batch[x])' /\ LateAfter(x, events[x])'
      <3>1. LateAfter(x, events[x])
        BY <1>10 DEF Flushes
      <3>2. LateAfter(x, batch[x])'
        <4> SUFFICES ASSUME NEW i \in DOMAIN events[x], NEW j \in DOMAIN events[x], i < j, events[x][i] = Flush
                     PROVE  events[x][j] # Flush /\ emitted[x][events[x][j]].late
          BY <1>1, <1>4, SMTT(30) DEF LateAfter
        <4> QED
          BY <3>1 DEF LateAfter
      <3>3. LateAfter(x, events[x])'
        BY <1>4, <1>5 DEF LateAfter
      <3> QED
        BY <3>2, <3>3
    <2>2. Complete(x)' <=> Complete(x)
      BY <1>1, <1>9 DEF Complete
    <2> QED
      BY <1>1, <1>10, <1>11, <1>12, <2>1, <2>2 DEF Flushes
  <1>19. Asks(x)'
    <2>1. KindOf(x, prompt[x])' = KindOf(x, prompt[x])
      BY <1>1 DEF KindOf
    <2> QED
      BY <1>1, <1>9, <1>10, <1>12, <2>1 DEF Asks
  <1> QED
    BY <1>1, <1>7, <1>8, <1>13, <1>14, <1>15, <1>16, <1>17, <1>18, <1>19, PumpCell

(* Taking the first of the batch. *)
LEMMA TakeFirst ==
  ASSUME TypeOK, NEW x \in Cells, CellInv(x), batch[x] # <<>>,
         batch' = [batch EXCEPT ![x] = Tail(@)], UNCHANGED <<events, emitted>>
  PROVE  /\ batch'[x] = Tail(batch[x]) /\ \A y \in Cells : y # x => batch'[y] = batch[y]
         /\ batch' \in [Cells -> Seq(Numbers \cup {Flush})] /\ batch[x][1] \in Numbers \cup {Flush}
         /\ Waiting(x) = {batch[x][1]} \cup Waiting(x)'
         /\ Elems(batch[x]) = {batch[x][1]} \cup Elems(batch'[x])
         /\ Sorted(batch'[x]) /\ Below({batch[x][1]}, Waiting(x)')
         /\ LateAfter(x, batch[x])'
         /\ batch[x][1] = Flush => \A n \in Waiting(x)' : n # Flush /\ emitted[x][n].late
  <1>1. batch \in [Cells -> Seq(Numbers \cup {Flush})] /\ batch[x] \in Seq(Numbers \cup {Flush}) /\ batch[x] \in Seq(Nat)
    BY NumberTypes DEF TypeOK
  <1>2. batch'[x] = Tail(batch[x]) /\ \A y \in Cells : y # x => batch'[y] = batch[y]
    BY <1>1
  <1>3. /\ batch[x][1] \in Numbers \cup {Flush} /\ 1 \in DOMAIN batch[x]
        /\ Tail(batch[x]) \in Seq(Numbers \cup {Flush})
        /\ \A i \in DOMAIN Tail(batch[x]) : i + 1 \in DOMAIN batch[x] /\ Tail(batch[x])[i] = batch[x][i + 1] /\ 1 < i + 1
        /\ \A i, j \in DOMAIN Tail(batch[x]) : i < j => i + 1 < j + 1
    <2>1. batch[x] \in Seq(Numbers \cup {Flush})
      BY <1>1
    <2> QED
      BY <2>1, HeadTail, SMTT(30)
  <1>4. batch' \in [Cells -> Seq(Numbers \cup {Flush})]
    BY <1>1, <1>3
  <1>5. InLine(x) /\ Flushes(x)
    BY DEF CellInv, Handled
  <1>6. /\ Elems(batch[x]) = {batch[x][1]} \cup Elems(Tail(batch[x])) /\ Sorted(Tail(batch[x]))
        /\ Below({batch[x][1]}, Elems(Tail(batch[x])))
    BY <1>1, <1>5, TailSeq DEF InLine
  <1>7. Waiting(x) = {batch[x][1]} \cup Waiting(x)' /\ batch[x][1] \in Elems(batch[x])
    BY <1>2, <1>6 DEF Waiting
  <1>8. Below({batch[x][1]}, Waiting(x)')
    <2>1. Below({batch[x][1]}, Elems(events[x]))
      BY <1>5, <1>7 DEF InLine, Below
    <2>2. Waiting(x)' = Elems(Tail(batch[x])) \cup Elems(events[x])
      BY <1>2 DEF Waiting
    <2> QED
      BY <1>6, <2>1, <2>2 DEF Below
  <1>9. LateAfter(x, batch[x])'
    <2> SUFFICES ASSUME NEW i \in DOMAIN Tail(batch[x]), NEW j \in DOMAIN Tail(batch[x]), i < j,
                        Tail(batch[x])[i] = Flush
                 PROVE  Tail(batch[x])[j] # Flush /\ emitted[x][Tail(batch[x])[j]].late
      BY <1>2 DEF LateAfter
    <2>1. /\ i + 1 \in DOMAIN batch[x] /\ j + 1 \in DOMAIN batch[x] /\ i + 1 < j + 1
          /\ batch[x][i + 1] = Flush /\ Tail(batch[x])[j] = batch[x][j + 1]
      BY <1>3
    <2>2. batch[x][j + 1] # Flush /\ emitted[x][batch[x][j + 1]].late
      BY <1>5, <2>1 DEF Flushes, LateAfter
    <2> QED
      BY <2>1, <2>2
  <1>10. ASSUME batch[x][1] = Flush, NEW n \in Waiting(x)' PROVE n # Flush /\ emitted[x][n].late
    <2>1. CASE n \in Elems(events[x])
      BY <1>5, <1>7, <1>10, <2>1 DEF Flushes
    <2>2. CASE n \in Elems(Tail(batch[x]))
      <3>1. PICK i \in DOMAIN Tail(batch[x]) : n = Tail(batch[x])[i]
        BY <2>2 DEF Elems
      <3> QED
        BY <1>3, <1>5, <1>10, <3>1 DEF Flushes, LateAfter
    <2> QED
      BY <1>2, <1>10, <2>1, <2>2 DEF Waiting
  <1> QED
    BY <1>2, <1>3, <1>4, <1>6, <1>7, <1>8, <1>9, <1>10

(* The answer to the Flush: all that the cell emitted is published, for    *)
(* what is left came later.                                                *)
LEMMA InvTakeFlush ==
  ASSUME Inv, NEW x \in Cells, TakeFlush(x)
  PROVE  Inv'
  <1>1. /\ joined[x] = <<>> /\ prompt[x] = 0 /\ batch[x] # <<>> /\ batch[x][1] = Flush
        /\ batch' = [batch EXCEPT ![x] = Tail(@)] /\ flushed' = [flushed EXCEPT ![x] = TRUE]
        /\ UNCHANGED <<log, holder, silent, task, outcome, emitted, events, joined, prompt>>
    BY DEF TakeFlush, Free, runVars, iopubVars
  <1>2. TypeOK /\ CellInv(x)
    BY DEF Inv
  <1>3. /\ batch'[x] = Tail(batch[x]) /\ \A y \in Cells : y # x => batch'[y] = batch[y]
        /\ batch' \in [Cells -> Seq(Numbers \cup {Flush})] /\ batch[x][1] \in Numbers \cup {Flush}
        /\ Waiting(x) = {batch[x][1]} \cup Waiting(x)'
        /\ Elems(batch[x]) = {batch[x][1]} \cup Elems(batch'[x])
        /\ Sorted(batch'[x]) /\ Below({batch[x][1]}, Waiting(x)')
        /\ LateAfter(x, batch[x])'
        /\ batch[x][1] = Flush => \A n \in Waiting(x)' : n # Flush /\ emitted[x][n].late
    BY <1>1, <1>2, TakeFirst
  <1>4. flushed \in [Cells -> BOOLEAN]
    BY <1>2 DEF TypeOK
  <1>5. flushed'[x] = TRUE /\ (\A y \in Cells : y # x => flushed'[y] = flushed[y]) /\ flushed' \in [Cells -> BOOLEAN]
    BY <1>1, <1>4
  <1>7. TypeOK'
    BY <1>1, <1>2, <1>3, <1>5 DEF TypeOK
  <1>8. \A y \in Cells : y # x => SameCell(y)
    BY <1>1, <1>3, <1>5 DEF SameCell, SameEvents
  <1>9. /\ \A n : (Shown(x, n)' <=> Shown(x, n)) /\ KindOf(x, n)' = KindOf(x, n) /\ (EventOf(x, n)' <=> EventOf(x, n))
        /\ AllShown(x)' = AllShown(x)
        /\ \A k \in DOMAIN log' : log'[k].cell = x => \A i \in DOMAIN log'[k].events : EventOf(x, log[k].events[i])'
    BY <1>1, <1>2, Calm
  <1>10. /\ Placed(x) /\ InLine(x) /\ Covered(x) /\ Making(x) /\ Flushes(x) /\ Asks(x) /\ Publishing(x)
    BY <1>2 DEF CellInv, Handled
  <1>11. task[x] = "flushing" /\ Flush \notin Waiting(x)'
    BY <1>1, <1>3, <1>10 DEF Flushes
  <1>12. Waiting(x)' \subseteq Waiting(x) /\ \A n \in Waiting(x) : n # Flush => n \in Waiting(x)'
    BY <1>1, <1>3
  <1>13. Placed(x)'
    BY <1>1, <1>9, <1>10, <1>12 DEF Placed, EventOf
  <1>14. InLine(x)'
    <2>1. \A S : Below(S, Waiting(x)) => Below(S, Waiting(x)')
      BY <1>12 DEF Below
    <2>2. Below(Elems(batch'[x]), Elems(events'[x]))
      BY <1>1, <1>3, <1>10 DEF InLine, Below
    <2> QED
      BY <1>1, <1>3, <1>9, <1>10, <2>1, <2>2 DEF InLine
  <1>15. Covered(x)'
    <2> SUFFICES ASSUME ~silent[x], NEW n \in DOMAIN emitted[x], KindOf(x, n) # "input", ~Shown(x, n),
                        n \notin Elems(joined[x])
                 PROVE  n \in Waiting(x)'
      BY <1>1, <1>9 DEF Covered
    <2>1. n \in Waiting(x)
      BY <1>10 DEF Covered
    <2>2. n # Flush
      <3>1. emitted[x] \in Seq([kind : Kinds, late : BOOLEAN])
        BY <1>2 DEF TypeOK
      <3> QED
        BY <3>1, SMTT(30) DEF Flush
    <2> QED
      BY <1>12, <2>1, <2>2
  <1>16. Making(x)'
    <2>1. Making(x) /\ (joined[x] = <<>> \/ prompt'[x] = 0)
      BY <1>1, <1>10 DEF Making
    <2> QED
      BY <1>1, <2>1, MakingStays
  <1>17. Publishing(x)'
    BY <1>1, <1>10 DEF Publishing
  <1>18. Flushes(x)'
    <2>1. LateAfter(x, events[x])'
      BY <1>1, <1>10 DEF Flushes, LateAfter
    <2>2. Complete(x)'
      <3> SUFFICES ASSUME ~silent[x], NEW n \in DOMAIN emitted[x], KindOf(x, n) # "input", ~emitted[x][n].late
                   PROVE  Shown(x, n)
        BY <1>1, <1>9 DEF Complete
      <3>1. n \notin Waiting(x)'
        BY <1>1, <1>3
      <3>2. n \notin Elems(joined[x])
        BY <1>1, EmptySeq
      <3> QED
        BY <1>1, <1>9, <1>15, <3>1, <3>2 DEF Covered
    <2>3. Flush \notin Elems(batch'[x]) /\ Flush \notin Waiting(x)'
      BY <1>11 DEF Waiting
    <2> QED
      BY <1>1, <1>3, <1>5, <1>11, <2>1, <2>2, <2>3 DEF Flushes
  <1>19. Asks(x)'
    <2>1. KindOf(x, prompt[x])' = KindOf(x, prompt[x])
      BY <1>1 DEF KindOf
    <2> QED
      BY <1>1, <1>9, <1>10, <1>12, <2>1 DEF Asks
  <1> QED
    BY <1>1, <1>7, <1>8, <1>13, <1>14, <1>15, <1>16, <1>17, <1>18, <1>19, PumpCell

(* A prompt: all that was emitted before it has been handled. *)
LEMMA InvTakeInput ==
  ASSUME Inv, NEW x \in Cells, TakeInput(x)
  PROVE  Inv'
  <1>0. KindOf(x, Flush) = "flush" /\ "flush" # "input"
    BY DEF KindOf
  <1>1. /\ joined[x] = <<>> /\ prompt[x] = 0 /\ batch[x] # <<>> /\ KindOf(x, batch[x][1]) = "input"
        /\ batch' = [batch EXCEPT ![x] = Tail(@)] /\ prompt' = [prompt EXCEPT ![x] = batch[x][1]]
        /\ UNCHANGED <<log, holder, silent, task, outcome, emitted, events, joined, flushed>>
    BY DEF TakeInput, Free, runVars, iopubVars
  <1>2. TypeOK /\ CellInv(x)
    BY DEF Inv
  <1>3. /\ batch'[x] = Tail(batch[x]) /\ \A y \in Cells : y # x => batch'[y] = batch[y]
        /\ batch' \in [Cells -> Seq(Numbers \cup {Flush})] /\ batch[x][1] \in Numbers \cup {Flush}
        /\ Waiting(x) = {batch[x][1]} \cup Waiting(x)'
        /\ Elems(batch[x]) = {batch[x][1]} \cup Elems(batch'[x])
        /\ Sorted(batch'[x]) /\ Below({batch[x][1]}, Waiting(x)')
        /\ LateAfter(x, batch[x])'
        /\ batch[x][1] = Flush => \A n \in Waiting(x)' : n # Flush /\ emitted[x][n].late
    BY <1>1, <1>2, TakeFirst
  <1>4. prompt \in [Cells -> Numbers \cup {0}] /\ batch[x][1] # Flush /\ batch[x][1] \in Numbers
    BY <1>0, <1>1, <1>2, <1>3 DEF TypeOK
  <1>5. /\ prompt'[x] = batch[x][1] /\ (\A y \in Cells : y # x => prompt'[y] = prompt[y])
        /\ prompt' \in [Cells -> Numbers \cup {0}]
    BY <1>1, <1>4
  <1>7. TypeOK'
    BY <1>1, <1>2, <1>3, <1>5 DEF TypeOK
  <1>8. \A y \in Cells : y # x => SameCell(y)
    BY <1>1, <1>3, <1>5 DEF SameCell, SameEvents
  <1>9. /\ \A n : (Shown(x, n)' <=> Shown(x, n)) /\ KindOf(x, n)' = KindOf(x, n) /\ (EventOf(x, n)' <=> EventOf(x, n))
        /\ AllShown(x)' = AllShown(x)
        /\ \A k \in DOMAIN log' : log'[k].cell = x => \A i \in DOMAIN log'[k].events : EventOf(x, log[k].events[i])'
    BY <1>1, <1>2, Calm
  <1>10. /\ Placed(x) /\ InLine(x) /\ Covered(x) /\ Making(x) /\ Flushes(x) /\ Asks(x) /\ Publishing(x)
    BY <1>2 DEF CellInv, Handled
  <1>11. PICK p : p = batch[x][1]
    OBVIOUS
  <1>12. /\ Waiting(x) = {p} \cup Waiting(x)' /\ p # Flush /\ prompt'[x] = p /\ KindOf(x, p) = "input"
         /\ Below({p}, Waiting(x)') /\ EventOf(x, p) /\ p \in Waiting(x)
    BY <1>1, <1>3, <1>4, <1>5, <1>10, <1>11 DEF Placed
  <1>13. Placed(x)'
    BY <1>1, <1>9, <1>10, <1>12 DEF Placed, EventOf
  <1>14. InLine(x)'
    <2>1. \A S : Below(S, Waiting(x)) => Below(S, Waiting(x)')
      BY <1>12 DEF Below
    <2>2. Below(Elems(batch'[x]), Elems(events'[x]))
      BY <1>1, <1>3, <1>10 DEF InLine, Below
    <2> QED
      BY <1>1, <1>3, <1>9, <1>10, <1>12, <2>1, <2>2 DEF InLine
  <1>15. Covered(x)'
    BY <1>1, <1>9, <1>10, <1>12 DEF Covered
  <1>16. Making(x)'
    <2>1. Making(x) /\ (joined[x] = <<>> \/ prompt'[x] = 0)
      BY <1>1, <1>10 DEF Making
    <2> QED
      BY <1>1, <2>1, MakingStays
  <1>17. Publishing(x)'
    BY <1>1, <1>10 DEF Publishing
  <1>18. Flushes(x)'
    <2>1. LateAfter(x, events[x])'
      BY <1>1, <1>10 DEF Flushes, LateAfter
    <2>2. Complete(x)' <=> Complete(x)
      BY <1>1, <1>9 DEF Complete
    <2>3. Elems(batch'[x]) \subseteq Elems(batch[x]) /\ Waiting(x)' \subseteq Waiting(x)
      BY <1>3
    <2> QED
      BY <1>1, <1>3, <1>10, <2>1, <2>2, <2>3 DEF Flushes
  <1>19. Asks(x)'
    <2>1. KindOf(x, prompt[x])' = "input"
      BY <1>1, <1>5, <1>12 DEF KindOf
    <2>2. ASSUME ~silent[x], NEW n \in DOMAIN emitted[x], n < p, KindOf(x, n) # "input" PROVE Shown(x, n)
      <3>1. n \notin Elems(joined[x])
        BY <1>1, EmptySeq
      <3>2. n # p /\ n # Flush /\ ~(p < n)
        <4>1. emitted[x] \in Seq([kind : Kinds, late : BOOLEAN]) /\ p \in Nat
          BY <1>2, <1>4, <1>11, NumberTypes DEF TypeOK
        <4> QED
          BY <2>2, <4>1, SMTT(30) DEF Flush
      <3>3. n \notin Waiting(x)'
        BY <1>12, <3>2 DEF Below
      <3> QED
        BY <1>10, <1>12, <2>2, <3>1, <3>2, <3>3 DEF Covered
    <2> QED
      BY <1>1, <1>9, <1>10, <1>12, <2>1, <2>2 DEF Asks
  <1> QED
    BY <1>1, <1>7, <1>8, <1>13, <1>14, <1>15, <1>16, <1>17, <1>18, <1>19, PumpCell

(* The cell goes on when its prompt is answered; no other prompt of it is   *)
(* waiting.                                                                *)
LEMMA InvAnswer ==
  ASSUME Inv, NEW x \in Cells, Answer(x)
  PROVE  Inv'
  <1>1. /\ prompt[x] # 0 /\ prompt' = [prompt EXCEPT ![x] = 0] /\ task' = [task EXCEPT ![x] = "run"]
        /\ UNCHANGED <<log, holder, silent, outcome, emitted, events, batch, joined, flushed>>
    BY DEF Answer, iopubVars
  <1>2. TypeOK /\ CellInv(x)
    BY DEF Inv
  <1>3. task \in [Cells -> Places] /\ prompt \in [Cells -> Numbers \cup {0}]
    BY <1>2 DEF TypeOK, Places
  <1>4. "run" \in Places
    BY DEF Places
  <1>5. /\ task'[x] = "run" /\ (\A y \in Cells : y # x => task'[y] = task[y]) /\ task' \in [Cells -> Places]
        /\ prompt'[x] = 0 /\ (\A y \in Cells : y # x => prompt'[y] = prompt[y]) /\ prompt' \in [Cells -> Numbers \cup {0}]
    BY <1>1, <1>3, <1>4
  <1>7. TypeOK'
    BY <1>1, <1>2, <1>5 DEF TypeOK, Places
  <1>8. \A y \in Cells : y # x => SameCell(y)
    BY <1>1, <1>5 DEF SameCell, SameEvents
  <1>9. /\ \A n : (Shown(x, n)' <=> Shown(x, n)) /\ KindOf(x, n)' = KindOf(x, n) /\ (EventOf(x, n)' <=> EventOf(x, n))
        /\ AllShown(x)' = AllShown(x)
        /\ \A k \in DOMAIN log' : log'[k].cell = x => \A i \in DOMAIN log'[k].events : EventOf(x, log[k].events[i])'
    BY <1>1, <1>2, Calm
  <1>10. /\ Placed(x) /\ InLine(x) /\ Covered(x) /\ Making(x) /\ Flushes(x) /\ Asks(x) /\ Publishing(x)
    BY <1>2 DEF CellInv, Handled
  <1>11. PICK p : p = prompt[x]
    OBVIOUS
  <1>12. p # Flush /\ KindOf(x, p) = "input" /\ EventOf(x, p) /\ task[x] = "asking"
    BY <1>1, <1>10, <1>11 DEF Asks, Placed, Flush
  <1>13. Waiting(x)' = Waiting(x)
    BY <1>1 DEF Waiting
  <1>14. Placed(x)'
    BY <1>1, <1>5, <1>9, <1>10, <1>13 DEF Placed, EventOf
  <1>15. InLine(x)'
    <2>1. Below({prompt'[x]}, Waiting(x)')
      BY <1>5 DEF Below, Flush
    <2> QED
      BY <1>1, <1>9, <1>10, <1>13, <2>1 DEF InLine
  <1>16. Covered(x)'
    BY <1>1, <1>9, <1>10, <1>13 DEF Covered
  <1>17. Making(x)'
    <2>1. Making(x) /\ (joined[x] = <<>> \/ prompt'[x] = 0)
      BY <1>1, <1>5, <1>10 DEF Making
    <2> QED
      BY <1>1, <2>1, MakingStays
  <1>18. "asking" # "flushing" /\ "asking" \notin Ending /\ "run" \notin Ending /\ "asking" \notin {"busy", "input", "outcome", "idle"}
    BY SMTT(30) DEF Ending
  <1>19. Publishing(x)'
    BY <1>1, <1>10, <1>12, <1>18 DEF Publishing
  <1>20. Flushes(x)'
    <2>1. LateAfter(x, batch[x])' /\ LateAfter(x, events[x])'
      BY <1>1, <1>10 DEF Flushes, LateAfter
    <2>2. Flush \notin Waiting(x) /\ ~flushed[x] /\ Flush \notin Elems(batch[x])
      BY <1>10, <1>12, <1>18 DEF Flushes, Waiting
    <2> QED
      BY <1>1, <1>5, <1>13, <1>18, <2>1, <2>2 DEF Flushes
  <1>21. Asks(x)'
    <2>1. ASSUME NEW n \in Waiting(x), n # Flush, KindOf(x, n) = "input" PROVE FALSE
      <3>1. p < n
        BY <1>10, <1>11, <1>12, <2>1 DEF InLine, Below
      <3>2. n \in DOMAIN emitted[x]
        BY <1>10, <2>1 DEF Placed, EventOf
      <3>3. emitted[x][n].late
        BY <1>10, <1>11, <1>12, <3>1, <3>2 DEF Asks
      <3> QED
        BY <1>10, <2>1, <3>2, <3>3 DEF Asks
    <2>2. \A n \in DOMAIN emitted[x] : ~(n < 0)
      <3>1. emitted[x] \in Seq([kind : Kinds, late : BOOLEAN])
        BY <1>2 DEF TypeOK
      <3> QED
        BY <3>1, SMTT(30)
    <2> QED
      BY <1>1, <1>5, <1>9, <1>10, <1>13, <2>1, <2>2 DEF Asks, Flush
  <1> QED
    BY <1>1, <1>7, <1>8, <1>12, <1>14, <1>15, <1>16, <1>17, <1>18, <1>19, <1>20, <1>21, PumpCell

-----------------------------------------------------------------------------
(* A message in the making: the longest run of one stream, or one display. *)
LEMMA InvTakeEvent ==
  ASSUME Inv, NEW x \in Cells, TakeEvent(x)
  PROVE  Inv'
  <1>0. PICK k \in 1 .. Len(batch[x]) :
          /\ Free(x) /\ KindOf(x, batch[x][1]) \in Streams \cup {"display"} /\ Run(x, k)
          /\ batch' = [batch EXCEPT ![x] = SubSeq(@, k + 1, Len(@))]
          /\ joined' = [joined EXCEPT ![x] = IF silent[x] THEN <<>> ELSE SubSeq(batch[x], 1, k)]
          /\ UNCHANGED <<runVars, iopubVars, prompt, flushed>>
    BY DEF TakeEvent
  <1> DEFINE head == SubSeq(batch[x], 1, k)
             rest == SubSeq(batch[x], k + 1, Len(batch[x]))
             made == IF silent[x] THEN <<>> ELSE head
  <1>1. /\ joined[x] = <<>> /\ prompt[x] = 0
        /\ batch' = [batch EXCEPT ![x] = rest] /\ joined' = [joined EXCEPT ![x] = made]
        /\ UNCHANGED <<log, holder, silent, task, outcome, emitted, events, prompt, flushed>>
    BY <1>0 DEF Free, runVars, iopubVars
  <1>2. TypeOK /\ CellInv(x)
    BY DEF Inv
  <1>3. /\ batch \in [Cells -> Seq(Numbers \cup {Flush})] /\ joined \in [Cells -> Seq(Numbers)]
        /\ batch[x] \in Seq(Numbers \cup {Flush}) /\ batch[x] \in Seq(Nat)
    BY <1>2, NumberTypes DEF TypeOK
  <1>4. /\ DOMAIN head = 1 .. k /\ Len(head) = k /\ DOMAIN rest = 1 .. Len(batch[x]) - k
        /\ \A i \in 1 .. k : head[i] = batch[x][i]
        /\ \A i \in 1 .. Len(batch[x]) - k : rest[i] = batch[x][k + i]
        /\ DOMAIN batch[x] = 1 .. Len(batch[x]) /\ Len(batch[x]) \in Nat /\ k \in Nat
        /\ head \in Seq(Numbers \cup {Flush}) /\ rest \in Seq(Numbers \cup {Flush})
    BY <1>3, SplitIndex, SMTT(30)
  <1>9. /\ \A n : (Shown(x, n)' <=> Shown(x, n)) /\ KindOf(x, n)' = KindOf(x, n) /\ (EventOf(x, n)' <=> EventOf(x, n))
        /\ AllShown(x)' = AllShown(x)
        /\ \A l \in DOMAIN log' : log'[l].cell = x => \A i \in DOMAIN log'[l].events : EventOf(x, log[l].events[i])'
    BY <1>1, <1>2, Calm
  <1>10. /\ Placed(x) /\ InLine(x) /\ Covered(x) /\ Making(x) /\ Flushes(x) /\ Asks(x) /\ Publishing(x)
    BY <1>2 DEF CellInv, Handled
  <1>11. /\ Elems(head) \cup Elems(rest) = Elems(batch[x])
         /\ Sorted(head) /\ Sorted(rest) /\ Below(Elems(head), Elems(rest))
    BY <1>3, <1>10, SplitSeq DEF InLine
  <1>12. batch[x][1] # Flush /\ 1 \in DOMAIN batch[x]
    <2>1. KindOf(x, Flush) = "flush" /\ "flush" \notin Streams \cup {"display"}
      BY SMTT(30) DEF KindOf, Streams
    <2> QED
      BY <1>0, <1>4, <2>1, SMTT(30)
  <1>13. \A j \in 1 .. k : j # 1 => Joins(x, batch[x][1], batch[x][j])
    <2>1. \A j \in 1 .. k : j # 1 => j \in 2 .. k
      BY <1>4, SMTT(30)
    <2> QED
      BY <1>0, <2>1 DEF Run
  <1>14. \A j \in 1 .. k : /\ KindOf(x, batch[x][j]) = KindOf(x, batch[x][1]) /\ batch[x][j] # Flush
                           /\ KindOf(x, batch[x][j]) = "display" => j = 1
    <2>1. KindOf(x, Flush) = "flush" /\ "flush" \notin Streams \cup {"display"} /\ "display" \notin Streams
      BY SMTT(30) DEF KindOf, Streams
    <2> QED
      BY <1>0, <1>12, <1>13, <2>1 DEF Joins
  <1> HIDE DEF head, rest
  <1>15. \A n \in Elems(head) : KindOf(x, n) = KindOf(x, batch[x][1]) /\ n # Flush
    <2>1. \A i \in DOMAIN head : i \in 1 .. k /\ head[i] = batch[x][i]
      BY <1>4
    <2>2. \A i \in DOMAIN head : KindOf(x, head[i]) = KindOf(x, batch[x][1]) /\ head[i] # Flush
      BY <1>14, <2>1
    <2>3. ASSUME NEW n \in Elems(head)
          PROVE  KindOf(x, n) = KindOf(x, batch[x][1]) /\ n # Flush
      <3>1. PICK i \in DOMAIN head : n = head[i]
        BY DEF Elems
      <3>2. KindOf(x, head[i]) = KindOf(x, batch[x][1]) /\ head[i] # Flush
        BY <2>2
      <3> QED
        BY <3>1, <3>2
    <2> QED
      BY <2>3
  <1>16. KindOf(x, batch[x][1]) = "display" => k = 1
    <2>1. k \in 1 .. k
      BY <1>4, SMTT(30)
    <2> QED
      BY <1>14, <2>1
  <1>17. head \in Seq(Numbers)
    <2>1. \A i \in 1 .. k : head[i] \in Numbers
      <3>1. \A i \in 1 .. k : head[i] # Flush
        BY <1>4, <1>14
      <3> QED
        BY <1>4, <3>1, SMTT(30)
    <2> QED
      BY <1>4, <2>1, SMTT(30)
  <1>18. made \in Seq(Numbers) /\ (silent[x] => made = <<>>) /\ (~silent[x] => made = head)
    <2>1. <<>> \in Seq(Numbers)
      BY SMTT(30)
    <2> QED
      BY <1>17, <2>1
  <1> HIDE DEF made
  <1>19. /\ batch'[x] = rest /\ joined'[x] = made
         /\ \A y \in Cells : y # x => batch'[y] = batch[y] /\ joined'[y] = joined[y]
    BY <1>1, <1>3
  <1>20. batch' \in [Cells -> Seq(Numbers \cup {Flush})] /\ joined' \in [Cells -> Seq(Numbers)]
    BY <1>1, <1>3, <1>4, <1>18
  <1>21. TypeOK'
    BY <1>1, <1>2, <1>20 DEF TypeOK
  <1>22. \A y \in Cells : y # x => SameCell(y)
    BY <1>1, <1>19 DEF SameCell, SameEvents
  <1>23. Waiting(x) = Elems(head) \cup Waiting(x)' /\ Elems(rest) \subseteq Elems(batch[x])
    BY <1>1, <1>11, <1>19 DEF Waiting
  <1>24. Elems(made) \subseteq Elems(head) /\ Sorted(made)
    BY <1>11, <1>18, EmptySeq
  <1>25. Placed(x)'
    BY <1>1, <1>9, <1>10, <1>15, <1>19, <1>23, <1>24 DEF Placed, EventOf
  <1>26. InLine(x)'
    <2>1. \A S : Below(S, Waiting(x)) => Below(S, Waiting(x)') /\ Below(S, Elems(made))
      BY <1>23, <1>24 DEF Below
    <2>2. Below(Elems(batch'[x]), Elems(events'[x]))
      BY <1>1, <1>10, <1>19, <1>23 DEF InLine, Below
    <2>3. Below(Elems(head), Elems(events[x]))
      BY <1>10, <1>11 DEF InLine, Below
    <2>4. Waiting(x)' = Elems(rest) \cup Elems(events[x])
      BY <1>1, <1>19 DEF Waiting
    <2>5. Below(Elems(made), Waiting(x)')
      BY <1>11, <1>24, <2>3, <2>4 DEF Below
    <2> QED
      BY <1>1, <1>9, <1>10, <1>11, <1>19, <1>24, <2>1, <2>2, <2>5 DEF InLine
  <1>27. Covered(x)'
    <2>1. Elems(joined[x]) = {}
      BY <1>1, EmptySeq
    <2> QED
      BY <1>1, <1>9, <1>10, <1>18, <1>19, <1>23, <2>1 DEF Covered
  <1>28. Making(x)'
    <2>1. \A n \in Elems(made) : KindOf(x, n) = KindOf(x, batch[x][1])
      BY <1>15, <1>24
    <2>2. \A n, m \in Elems(joined'[x]) : KindOf(x, n)' = KindOf(x, m)'
      BY <1>9, <1>19, <2>1
    <2>3. ASSUME NEW n \in Elems(joined'[x])
          PROVE  KindOf(x, n)' \in Streams \cup {"display"} /\ (KindOf(x, n)' = "display" => Len(joined'[x]) = 1)
      <3>1. made = head
        BY <1>18, <1>19, <2>3, EmptySeq
      <3> QED
        BY <1>0, <1>4, <1>9, <1>16, <1>19, <2>1, <2>3, <3>1
    <2>4. holder # PumpOf(x)
      BY <1>1, <1>10 DEF Making
    <2>5. silent'[x] => \A l \in DOMAIN log' : log'[l].cell = x => log'[l].events = <<>>
      BY <1>1, <1>10 DEF Making
    <2> QED
      BY <1>1, <1>18, <1>19, <2>2, <2>3, <2>4, <2>5 DEF Making
  <1>29. Publishing(x)'
    BY <1>1, <1>10 DEF Publishing
  <1>30. Flushes(x)'
    <2>1. LateAfter(x, events[x])'
      BY <1>1, <1>10 DEF Flushes, LateAfter
    <2>2. LateAfter(x, batch[x])'
      <3> SUFFICES ASSUME NEW i \in DOMAIN rest, NEW j \in DOMAIN rest, i < j, rest[i] = Flush
                   PROVE  rest[j] # Flush /\ emitted[x][rest[j]].late
        BY <1>1, <1>19, SMTT(30) DEF LateAfter
      <3>1. k + i \in DOMAIN batch[x] /\ k + j \in DOMAIN batch[x] /\ k + i < k + j
        BY <1>4, SMTT(30)
      <3>2. rest[i] = batch[x][k + i] /\ rest[j] = batch[x][k + j]
        BY <1>4
      <3> QED
        BY <1>10, <3>1, <3>2 DEF Flushes, LateAfter
    <2>3. Complete(x)' <=> Complete(x)
      BY <1>1, <1>9 DEF Complete
    <2>4. Elems(batch'[x]) \subseteq Elems(batch[x]) /\ Waiting(x)' \subseteq Waiting(x)
      BY <1>19, <1>23
    <2> QED
      BY <1>1, <1>10, <2>1, <2>2, <2>3, <2>4 DEF Flushes
  <1>31. Asks(x)'
    <2>1. KindOf(x, prompt[x])' = KindOf(x, prompt[x])
      BY <1>1 DEF KindOf
    <2> QED
      BY <1>1, <1>9, <1>10, <1>23, <2>1 DEF Asks
  <1> QED
    BY <1>1, <1>21, <1>22, <1>25, <1>26, <1>27, <1>28, <1>29, <1>30, <1>31, PumpCell

(* publish returns: what was in the making is in the log. *)
LEMMA InvPumpPublished ==
  ASSUME Inv, NEW x \in Cells, PumpPublished(x)
  PROVE  Inv'
  <1>1. /\ holder = PumpOf(x) /\ holder' = NoOne /\ joined' = [joined EXCEPT ![x] = <<>>]
        /\ UNCHANGED <<log, silent, task, outcome, emitted, events, batch, prompt, flushed>>
    BY DEF PumpPublished, Published, runVars
  <1>2. TypeOK /\ CellInv(x)
    BY DEF Inv
  <1>3. joined \in [Cells -> Seq(Numbers)] /\ <<>> \in Seq(Numbers)
    <2>1. <<>> \in Seq(Numbers)
      BY SMTT(30)
    <2> QED
      BY <1>2, <2>1 DEF TypeOK
  <1>4. joined'[x] = <<>> /\ joined' \in [Cells -> Seq(Numbers)] /\ \A y \in Cells : y # x => joined'[y] = joined[y]
    BY <1>1, <1>3
  <1>5. TypeOK'
    BY <1>1, <1>2, <1>4 DEF TypeOK
  <1>6. \A y \in Cells : y # x => SameCell(y)
    BY <1>1, <1>4 DEF SameCell, SameEvents
  <1>7. holder' # PumpOf(x) /\ holder' # TaskOf(x)
    BY <1>1, Locks
  <1>9. /\ \A n : (Shown(x, n)' <=> Shown(x, n)) /\ KindOf(x, n)' = KindOf(x, n) /\ (EventOf(x, n)' <=> EventOf(x, n))
        /\ AllShown(x)' = AllShown(x)
        /\ \A k \in DOMAIN log' : log'[k].cell = x => \A i \in DOMAIN log'[k].events : EventOf(x, log[k].events[i])'
    BY <1>1, <1>2, Calm
  <1>10. /\ Placed(x) /\ InLine(x) /\ Covered(x) /\ Making(x) /\ Flushes(x) /\ Asks(x) /\ Publishing(x)
    BY <1>2 DEF CellInv, Handled
  <1>11. Elems(joined'[x]) = {} /\ Sorted(joined'[x])
    BY <1>4, EmptySeq
  <1>12. \A n \in Elems(joined[x]) : Shown(x, n)
    <2>1. PICK k \in DOMAIN log : log[k].cell = x /\ log[k].events = joined[x]
      BY <1>1, <1>10 DEF Making
    <2> QED
      BY <2>1 DEF Shown, Elems
  <1>13. Waiting(x)' = Waiting(x)
    BY <1>1 DEF Waiting
  <1>14. Placed(x)'
    BY <1>1, <1>9, <1>10, <1>11, <1>13 DEF Placed, EventOf
  <1>15. InLine(x)'
    <2>1. \A S : Below(S, Elems(joined'[x])) /\ Below(Elems(joined'[x]), S)
      BY <1>11 DEF Below
    <2> QED
      BY <1>1, <1>9, <1>10, <1>11, <1>13, <2>1 DEF InLine
  <1>16. Covered(x)'
    BY <1>1, <1>9, <1>10, <1>12, <1>13 DEF Covered
  <1>17. Making(x)'
    <2>1. silent'[x] => \A k \in DOMAIN log' : log'[k].cell = x => log'[k].events = <<>>
      BY <1>1, <1>10 DEF Making
    <2> QED
      BY <1>1, <1>4, <1>7, <1>11, <2>1 DEF Making
  <1>18. Publishing(x)'
    BY <1>7 DEF Publishing
  <1>19. Flushes(x)'
    <2>1. LateAfter(x, batch[x])' /\ LateAfter(x, events[x])'
      BY <1>1, <1>10 DEF Flushes, LateAfter
    <2>2. Complete(x)' <=> Complete(x)
      BY <1>1, <1>9 DEF Complete
    <2> QED
      BY <1>1, <1>10, <1>13, <2>1, <2>2 DEF Flushes
  <1>20. Asks(x)'
    <2>1. KindOf(x, prompt[x])' = KindOf(x, prompt[x])
      BY <1>1 DEF KindOf
    <2> QED
      BY <1>1, <1>9, <1>10, <1>13, <2>1 DEF Asks
  <1> QED
    BY <1>1, <1>5, <1>6, <1>14, <1>15, <1>16, <1>17, <1>18, <1>19, <1>20, PumpCell

(* publish: the message of the pump enters the log, after the earlier ones *)
(* and with later events.                                                  *)
LEMMA InvPumpPublishes ==
  ASSUME Inv, NEW x \in Cells, PumpPublishes(x)
  PROVE  Inv'
  <1>1. /\ joined[x] # <<>> /\ holder = NoOne /\ holder' = PumpOf(x)
        /\ log' = Append(log, PumpMessage(x))
        /\ UNCHANGED <<task, silent, outcome, emitted, events, batch, joined, prompt, flushed>>
    BY DEF PumpPublishes, Publish, runVars, pumpVars
  <1>2. TypeOK /\ CellInv(x)
    BY DEF Inv
  <1>3. joined[x] \in Seq(Numbers) /\ emitted[x] \in Seq([kind : Kinds, late : BOOLEAN])
    BY <1>2 DEF TypeOK
  <1>4. /\ Placed(x) /\ InLine(x) /\ Covered(x) /\ Making(x) /\ Flushes(x) /\ Asks(x) /\ Publishing(x)
        /\ InLog(x) /\ Ended(x)
    BY <1>2 DEF CellInv, Handled
  <1>5. joined[x][1] \in Elems(joined[x])
    <2>1. 1 \in DOMAIN joined[x]
      BY <1>1, <1>3, SMTT(30)
    <2> QED
      BY <2>1 DEF Elems
  <1>6. PICK m : m = PumpMessage(x)
    OBVIOUS
  <1>7. /\ m \in Messages /\ m.cell = x /\ m.events = joined[x] /\ m.type = KindOf(x, joined[x][1])
        /\ m.type \in Streams \cup {"display"}
    <2>1. KindOf(x, joined[x][1]) \in Streams \cup {"display"}
      BY <1>4, <1>5 DEF Making
    <2>2. m = [cell |-> x, type |-> KindOf(x, joined[x][1]), events |-> joined[x]]
      BY <1>6 DEF PumpMessage, MessageOf
    <2> HIDE DEF KindOf
    <2> QED
      BY <1>3, <2>1, <2>2, SMTT(30) DEF Messages
  <1>8. /\ \A i \in DOMAIN joined[x] : KindOf(x, joined[x][i]) = m.type
        /\ m.type = "display" => Len(joined[x]) = 1
    BY <1>4, <1>5, <1>7 DEF Making, Elems
  <1>9. m.type \notin Outcomes \cup {"idle"}
    BY <1>7, SMTT(30) DEF Streams, Outcomes
  <1>10. PICK L : L = Len(log) + 1
    OBVIOUS
  <1>11. /\ DOMAIN log' = DOMAIN log \cup {L} /\ log'[L] = m
         /\ \A k \in DOMAIN log : log'[k] = log[k] /\ k < L /\ ~(L < k) /\ k # L
         /\ log' \in Seq(Messages) /\ ~(L < L)
    <2>1. ~(L < L)
      BY <1>2, <1>10, SMTT(30) DEF TypeOK
    <2> QED
      BY <1>1, <1>2, <1>6, <1>7, <1>10, <2>1, LogAppend
  <1>12. TypeOK'
    <2>1. holder' \in (Cells \X {"task", "pump"}) \cup {NoOne}
      BY <1>1, Locks
    <2> QED
      BY <1>1, <1>2, <1>11, <2>1 DEF TypeOK, Messages
  <1>13. \A n : KindOf(x, n)' = KindOf(x, n) /\ (EventOf(x, n)' <=> EventOf(x, n))
    BY <1>1 DEF KindOf, EventOf
  <1>14. \A n : Shown(x, n)' <=> Shown(x, n) \/ n \in Elems(joined[x])
    <2>1. \A n : n \in Elems(joined[x]) => Shown(x, n)'
      <3> SUFFICES ASSUME NEW n \in Elems(joined[x])
                   PROVE  Shown(x, n)'
        OBVIOUS
      <3>1. PICK i \in DOMAIN joined[x] : joined[x][i] = n
        BY DEF Elems
      <3>2. L \in DOMAIN log' /\ log'[L].cell = x /\ i \in DOMAIN log'[L].events /\ log'[L].events[i] = n
        BY <1>7, <1>11, <3>1
      <3> QED
        BY <3>2 DEF Shown
    <2>2. \A n : Shown(x, n) => Shown(x, n)'
      BY <1>11 DEF Shown
    <2>3. ASSUME NEW n, Shown(x, n)'
          PROVE  Shown(x, n) \/ n \in Elems(joined[x])
      <3>1. PICK k \in DOMAIN log' : log'[k].cell = x /\ \E j \in DOMAIN log'[k].events : log'[k].events[j] = n
        BY <2>3 DEF Shown
      <3>2. CASE k = L
        BY <1>7, <1>11, <3>1, <3>2 DEF Elems
      <3>3. CASE k \in DOMAIN log
        BY <1>11, <3>1, <3>3 DEF Shown
      <3> QED
        BY <1>11, <3>2, <3>3
    <2> QED
      BY <2>1, <2>2, <2>3
  <1>15. AllShown(x)' = AllShown(x) \cup Elems(joined[x])
    BY <1>1, <1>4, <1>14 DEF AllShown, Placed, EventOf
  <1>16. Waiting(x)' = Waiting(x)
    BY <1>1 DEF Waiting
  <1>17. ~silent[x]
    BY <1>1, <1>4 DEF Making
  <1>18. Placed(x)'
    <2>1. \A k \in DOMAIN log' : log'[k].cell = x => \A i \in DOMAIN log'[k].events : EventOf(x, log'[k].events[i])
      <3>1. \A k \in DOMAIN log : log[k].cell = x => \A i \in DOMAIN log[k].events : EventOf(x, log[k].events[i])
        BY <1>4 DEF Placed
      <3>2. \A i \in DOMAIN joined[x] : EventOf(x, joined[x][i])
        BY <1>4 DEF Placed, Elems
      <3> QED
        BY <1>7, <1>11, <3>1, <3>2
    <2> QED
      BY <1>1, <1>4, <1>16, <2>1 DEF Placed, EventOf
  <1>19. InLine(x)'
    <2>1. Below(AllShown(x)', Waiting(x)')
      BY <1>4, <1>15, <1>16 DEF InLine, Below
    <2> QED
      BY <1>1, <1>4, <1>16, <2>1 DEF InLine
  <1>20. Covered(x)'
    BY <1>1, <1>4, <1>13, <1>14, <1>16 DEF Covered
  <1>21. Making(x)'
    <2>1. \E k \in DOMAIN log' : log'[k].cell = x /\ log'[k].events = joined'[x]
      BY <1>1, <1>7, <1>11
    <2>2. \A n, l \in Elems(joined'[x]) : KindOf(x, n)' = KindOf(x, l)'
      BY <1>1, <1>4, <1>13 DEF Making
    <2>3. \A n \in Elems(joined'[x]) : /\ KindOf(x, n)' \in Streams \cup {"display"}
                                       /\ KindOf(x, n)' = "display" => Len(joined'[x]) = 1
      BY <1>1, <1>4, <1>13 DEF Making
    <2>4. joined'[x] = <<>> \/ prompt'[x] = 0
      BY <1>1, <1>4 DEF Making
    <2> QED
      BY <1>1, <1>17, <2>1, <2>2, <2>3, <2>4 DEF Making
  <1>22. InLog(x)'
    <2>1. ASSUME NEW k \in DOMAIN log', NEW l \in DOMAIN log', log'[k].cell = x, log'[l].cell = x,
                 NEW i \in DOMAIN log'[k].events, NEW j \in DOMAIN log'[l].events,
                 k < l \/ (k = l /\ i < j)
          PROVE  log'[k].events[i] < log'[l].events[j]
      <3>1. CASE k \in DOMAIN log /\ l \in DOMAIN log
        BY <1>4, <1>11, <2>1, <3>1 DEF InLog
      <3>2. CASE k \in DOMAIN log /\ l = L
        <4>1. log'[k].events[i] \in AllShown(x)
          BY <1>4, <1>11, <2>1, <3>2 DEF AllShown, Shown, Placed, EventOf
        <4>2. log'[l].events[j] \in Elems(joined[x])
          BY <1>7, <1>11, <3>2 DEF Elems
        <4>3. Below(AllShown(x), Elems(joined[x]))
          BY <1>1, <1>4, Locks DEF InLine
        <4>4. log'[k].events[i] # Flush /\ log'[l].events[j] # Flush
          <5>1. log'[k].events \in Seq(Numbers) /\ log'[l].events \in Seq(Numbers)
            <6>1. log'[k] \in Messages /\ log'[l] \in Messages
              BY <1>11, SMTT(30)
            <6> QED
              BY <6>1 DEF Messages
          <5>2. log'[k].events[i] \in Numbers /\ log'[l].events[j] \in Numbers
            BY <5>1, SMTT(30)
          <5> QED
            BY <5>2, NumberTypes
        <4> QED
          BY <4>1, <4>2, <4>3, <4>4 DEF Below
      <3>3. CASE k = L /\ l = L
        <4>1. i \in DOMAIN joined[x] /\ j \in DOMAIN joined[x] /\ i < j
          BY <1>7, <1>11, <2>1, <3>3
        <4>2. joined[x][i] \in Numbers /\ joined[x][j] \in Numbers
          BY <1>3, <4>1, SMTT(30)
        <4> QED
          BY <1>4, <1>7, <1>11, <3>3, <4>1, <4>2, NumberTypes DEF InLine, Sorted
      <3>4. CASE k = L /\ l \in DOMAIN log
        BY <1>11, <2>1, <3>4
      <3> QED
        BY <1>11, <3>1, <3>2, <3>3, <3>4
    <2>2. ASSUME NEW k \in DOMAIN log', log'[k].cell = x, NEW i \in DOMAIN log'[k].events
          PROVE  /\ KindOf(x, log'[k].events[i]) = log'[k].type
                 /\ log'[k].type = "display" => Len(log'[k].events) = 1
      <3>1. CASE k \in DOMAIN log
        BY <1>4, <1>11, <2>2, <3>1 DEF InLog
      <3>2. CASE k = L
        BY <1>7, <1>8, <1>11, <2>2, <3>2
      <3> QED
        BY <1>11, <3>1, <3>2
    <2>3. \A k \in DOMAIN log' : \A i \in DOMAIN log'[k].events :
            KindOf(x, log[k].events[i])' = KindOf(x, log'[k].events[i])
      BY <1>1 DEF KindOf
    <2> QED
      BY <2>1, <2>2, <2>3 DEF InLog
  <1>23. Publishing(x)'
    BY <1>1, Locks DEF Publishing
  <1>24. Flushes(x)'
    <2>1. LateAfter(x, batch[x])' /\ LateAfter(x, events[x])'
      BY <1>1, <1>4 DEF Flushes, LateAfter
    <2>2. Complete(x) => Complete(x)'
      BY <1>1, <1>13, <1>14 DEF Complete
    <2> QED
      BY <1>1, <1>4, <1>16, <2>1, <2>2 DEF Flushes
  <1>25. Asks(x)'
    <2>1. KindOf(x, prompt[x])' = KindOf(x, prompt[x])
      BY <1>1 DEF KindOf
    <2> QED
      BY <1>1, <1>4, <1>13, <1>14, <1>16, <2>1 DEF Asks
  <1>26. Ended(x)'
    <2> SUFFICES ASSUME NEW k \in DOMAIN log', log'[k].cell = x, log'[k].type \in Outcomes \cup {"idle"}
                 PROVE  /\ task'[x] \in Ending
                        /\ ~silent'[x] => \A n \in DOMAIN emitted'[x] : KindOf(x, n)' # "input" /\ ~emitted'[x][n].late =>
                             \E j \in DOMAIN log' : j <= k /\ log'[j].cell = x /\ \E e \in DOMAIN log'[j].events : log'[j].events[e] = n
      BY DEF Ended
    <2>1. k \in DOMAIN log /\ log[k] = log'[k]
      BY <1>9, <1>11
    <2>2. ASSUME NEW n \in DOMAIN emitted[x], ~silent[x], KindOf(x, n) # "input", ~emitted[x][n].late
          PROVE  \E j \in DOMAIN log' : j <= k /\ log'[j].cell = x /\ \E e \in DOMAIN log'[j].events : log'[j].events[e] = n
      <3>1. PICK j \in DOMAIN log : j <= k /\ log[j].cell = x /\ \E e \in DOMAIN log[j].events : log[j].events[e] = n
        BY <1>4, <2>1, <2>2 DEF Ended
      <3> QED
        BY <1>11, <3>1
    <2>3. task[x] \in Ending
      BY <1>4, <2>1 DEF Ended
    <2> QED
      BY <1>1, <1>13, <2>2, <2>3
  <1>27. CellInv(x)'
    BY <1>18, <1>19, <1>20, <1>21, <1>22, <1>23, <1>24, <1>25, <1>26 DEF CellInv, Handled
  <1>28. \A y \in Cells : y # x => SameCell(y) /\ LogOther(y)
    BY <1>1, <1>6, <1>7 DEF SameCell, SameEvents, LogOther
  <1> QED
    BY <1>1, <1>12, <1>27, <1>28, OneCell

-----------------------------------------------------------------------------
(* Nothing is emitted and nothing published at first. *)
LEMMA InvInit ==
  ASSUME Init
  PROVE  Inv
  <1>1. <<>> \in Seq(Numbers) /\ <<>> \in Seq(Numbers \cup {Flush}) /\ DOMAIN <<>> = {}
        /\ <<>> \in Seq([kind : Kinds, late : BOOLEAN]) /\ log \in Seq(Messages)
    BY SMTT(30) DEF Init
  <1>2. TypeOK
    <2>1. task \in [Cells -> {"busy", "input", "run", "asking", "flush", "flushing", "outcome", "reply", "idle", "done"}]
      BY DEF Init
    <2>2. silent \in [Cells -> BOOLEAN] /\ outcome \in [Cells -> Outcomes]
      BY OutputAssumption, SMTT(30) DEF Init, Outcomes
    <2>3. prompt \in [Cells -> Numbers \cup {0}] /\ flushed \in [Cells -> BOOLEAN]
      BY DEF Init
    <2>4. /\ emitted \in [Cells -> Seq([kind : Kinds, late : BOOLEAN])] /\ joined \in [Cells -> Seq(Numbers)]
          /\ events \in [Cells -> Seq(Numbers \cup {Flush})] /\ batch \in [Cells -> Seq(Numbers \cup {Flush})]
      BY <1>1 DEF Init
    <2>5. holder \in (Cells \X {"task", "pump"}) \cup {NoOne}
      BY DEF Init
    <2> QED
      BY <1>1, <2>1, <2>2, <2>3, <2>4, <2>5 DEF TypeOK, Messages
  <1>3. ASSUME NEW x \in Cells
        PROVE  CellInv(x)
    <2>1. /\ log = <<>> /\ holder = NoOne /\ task[x] = "busy" /\ emitted[x] = <<>> /\ events[x] = <<>>
          /\ batch[x] = <<>> /\ joined[x] = <<>> /\ prompt[x] = 0 /\ ~flushed[x]
      BY DEF Init
    <2>2. Waiting(x) = {} /\ Elems(joined[x]) = {} /\ AllShown(x) = {} /\ DOMAIN log = {} /\ DOMAIN emitted[x] = {}
          /\ Elems(batch[x]) = {} /\ Elems(events[x]) = {}
      BY <1>1, <2>1, EmptySeq DEF Waiting, AllShown
    <2>3. holder # PumpOf(x) /\ holder # TaskOf(x)
      BY <2>1, Locks
    <2>4. Placed(x) /\ Covered(x) /\ Making(x) /\ Publishing(x) /\ InLog(x) /\ Ended(x)
      BY <2>1, <2>2, <2>3 DEF Placed, Covered, Making, Publishing, InLog, Ended
    <2>5. InLine(x)
      BY <2>1, <2>2, EmptySeq DEF InLine, Below
    <2>6. Flushes(x)
      <3>1. LateAfter(x, <<>>)
        BY <1>1 DEF LateAfter
      <3>2. "busy" \notin Ending
        BY DEF Ending
      <3> QED
        BY <2>1, <2>2, <3>1, <3>2 DEF Flushes
    <2>7. Asks(x)
      BY <2>1, <2>2 DEF Asks, Flush
    <2> QED
      BY <2>4, <2>5, <2>6, <2>7 DEF CellInv, Handled
  <1> QED
    BY <1>2, <1>3 DEF Inv

(* No step of a task, a pump or a cell breaks the invariant. *)
LEMMA InvNext ==
  ASSUME Inv, [Next]_vars
  PROVE  Inv'
  <1>1. CASE UNCHANGED vars
    <2>1. UNCHANGED <<log, holder, silent, task, outcome, emitted, events, batch, joined, prompt, flushed>>
      BY <1>1 DEF vars, runVars, pumpVars, iopubVars
    <2>2. TypeOK'
      BY <2>1 DEF Inv, TypeOK
    <2>3. ASSUME NEW x \in Cells
          PROVE  CellInv(x)'
      BY <2>1, Others DEF Inv, SameCell, SameEvents, LogOther
    <2> QED
      BY <2>2, <2>3 DEF Inv
  <1>2. ASSUME NEW x \in Cells, TaskStep(x)
        PROVE  Inv'
    BY <1>2, InvTaskPublishes, InvTaskPublished, InvSendFlush, InvFlushed, InvReply DEF TaskStep
  <1>3. ASSUME NEW x \in Cells, PumpStep(x)
        PROVE  Inv'
    BY <1>3, InvTake, InvTakeEvent, InvPumpPublishes, InvPumpPublished, InvTakeFlush, InvTakeInput DEF PumpStep
  <1>4. ASSUME NEW x \in Cells, CellStep(x)
        PROVE  Inv'
    BY <1>4, InvEmit, InvReturns DEF CellStep
  <1> QED
    BY <1>1, <1>2, <1>3, <1>4, InvAnswer DEF Next

(* The invariant of every execution of every cell. *)
THEOREM Invariance == Spec => []Inv
  <1>1. Init => Inv
    BY InvInit
  <1>2. Inv /\ [Next]_vars => Inv'
    BY InvNext
  <1> QED
    BY <1>1, <1>2, PTL DEF Spec

(* The channel holds events, the batch of the pump and the log what was    *)
(* taken from it, and one publisher is in Iopub::publish.                  *)
THEOREM TypeCorrect == Spec => []TypeOK
  <1>1. Inv => TypeOK
    BY DEF Inv
  <1> QED
    BY <1>1, Invariance, PTL

(* The pump publishes what was emitted in the order in which it was        *)
(* emitted, leaves nothing out, and joins only adjacent texts of a stream. *)
THEOREM Ordered == Spec => []PublishedInOrder
  <1>1. ASSUME Inv, NEW x \in Cells, NEW k \in DOMAIN log, log[k].cell = x, NEW i \in DOMAIN log[k].events,
               NEW n \in 1 .. log[k].events[i]
        PROVE  KindOf(x, n) = "input" \/ Shown(x, n)
    <2>1. TypeOK /\ Placed(x) /\ InLine(x) /\ Covered(x) /\ Making(x)
      BY <1>1 DEF Inv, CellInv, Handled
    <2>2. PICK e : e = log[k].events[i]
      OBVIOUS
    <2>3. e \in DOMAIN emitted[x] /\ Shown(x, e) /\ e \in AllShown(x)
      BY <1>1, <2>1, <2>2 DEF Placed, EventOf, Shown, AllShown
    <2>4. emitted[x] \in Seq([kind : Kinds, late : BOOLEAN])
      BY <2>1 DEF TypeOK
    <2>5. n \in DOMAIN emitted[x] /\ n # Flush /\ e # Flush /\ ~(e < n)
      BY <2>2, <2>3, <2>4, SMTT(30) DEF Flush
    <2>6. ~silent[x]
      <3>1. log[k].events # <<>>
        BY SMTT(30)
      <3> QED
        BY <1>1, <2>1, <3>1 DEF Making
    <2>7. ASSUME n \in Waiting(x)
          PROVE  FALSE
      BY <2>1, <2>3, <2>5, <2>7 DEF InLine, Below
    <2>8. ASSUME n \in Elems(joined[x])
          PROVE  Shown(x, n)
      <3>1. CASE holder = PumpOf(x)
        <4>1. PICK l \in DOMAIN log : log[l].cell = x /\ log[l].events = joined[x]
          BY <2>1, <3>1 DEF Making
        <4> QED
          BY <2>8, <4>1 DEF Shown, Elems
      <3>2. CASE holder # PumpOf(x)
        BY <2>1, <2>3, <2>5, <2>8, <3>2 DEF InLine, Below
      <3> QED
        BY <3>1, <3>2
    <2> QED
      BY <2>1, <2>5, <2>6, <2>7, <2>8 DEF Covered
  <1>2. Inv => PublishedInOrder
    <2> SUFFICES ASSUME Inv, NEW x \in Cells
                 PROVE  /\ \A k, l \in DOMAIN log : log[k].cell = x /\ log[l].cell = x =>
                             \A i \in DOMAIN log[k].events, j \in DOMAIN log[l].events :
                               k < l \/ (k = l /\ i < j) => log[k].events[i] < log[l].events[j]
                        /\ \A k \in DOMAIN log : log[k].cell = x => \A i \in DOMAIN log[k].events :
                             /\ \A n \in 1 .. log[k].events[i] : KindOf(x, n) = "input" \/ Shown(x, n)
                             /\ KindOf(x, log[k].events[i]) = log[k].type
                             /\ log[k].type = "display" => Len(log[k].events) = 1
      BY DEF PublishedInOrder
    <2>1. InLog(x)
      BY DEF Inv, CellInv, Handled
    <2> QED
      BY <1>1, <2>1 DEF InLog
  <1> QED
    BY <1>2, Invariance, PTL

(* What a cell emits is published before the cell's result, error and idle *)
(* status, and before its prompts are sent.                                *)
THEOREM PromptAndEndLast == Spec => []OutputFirst
  <1>1. ASSUME Inv, NEW x \in Cells, ~silent[x], NEW n \in 1 .. prompt[x] - 1, KindOf(x, n) # "input"
        PROVE  Shown(x, n)
    <2>1. TypeOK /\ Asks(x) /\ Placed(x)
      BY <1>1 DEF Inv, CellInv, Handled
    <2>2. prompt[x] \in Nat /\ emitted[x] \in Seq([kind : Kinds, late : BOOLEAN])
      BY <2>1, NumberTypes DEF TypeOK
    <2>3. prompt[x] \in DOMAIN emitted[x]
      <3>1. prompt[x] # 0
        BY <2>2, SMTT(30)
      <3> QED
        BY <2>1, <3>1 DEF Placed, EventOf
    <2>4. n \in DOMAIN emitted[x] /\ n < prompt[x]
      BY <2>2, <2>3, SMTT(30)
    <2> QED
      BY <1>1, <2>1, <2>4 DEF Asks
  <1>2. Inv => OutputFirst
    <2> SUFFICES ASSUME Inv, NEW x \in Cells, ~silent[x]
                 PROVE  /\ \A k \in DOMAIN log : log[k].cell = x /\ log[k].type \in Outcomes \cup {"idle"} =>
                             \A n \in DOMAIN emitted[x] : KindOf(x, n) # "input" /\ ~emitted[x][n].late =>
                               \E j \in 1 .. k : log[j].cell = x /\ \E e \in DOMAIN log[j].events : log[j].events[e] = n
                        /\ \A n \in 1 .. prompt[x] - 1 : KindOf(x, n) # "input" => Shown(x, n)
      BY DEF OutputFirst
    <2>1. \A k \in DOMAIN log : log[k].cell = x /\ log[k].type \in Outcomes \cup {"idle"} =>
            \A n \in DOMAIN emitted[x] : KindOf(x, n) # "input" /\ ~emitted[x][n].late =>
              \E j \in 1 .. k : log[j].cell = x /\ \E e \in DOMAIN log[j].events : log[j].events[e] = n
      <3> SUFFICES ASSUME NEW k \in DOMAIN log, log[k].cell = x, log[k].type \in Outcomes \cup {"idle"},
                          NEW n \in DOMAIN emitted[x], KindOf(x, n) # "input", ~emitted[x][n].late
                   PROVE  \E j \in 1 .. k : log[j].cell = x /\ \E e \in DOMAIN log[j].events : log[j].events[e] = n
        OBVIOUS
      <3>1. TypeOK /\ Ended(x)
        BY DEF Inv, CellInv
      <3>2. PICK j \in DOMAIN log : j <= k /\ log[j].cell = x /\ \E e \in DOMAIN log[j].events : log[j].events[e] = n
        BY <3>1 DEF Ended
      <3>3. j \in 1 .. k
        <4>1. log \in Seq(Messages)
          BY <3>1 DEF TypeOK, Messages
        <4> QED
          BY <3>2, <4>1, SMTT(30)
      <3> QED
        BY <3>2, <3>3
    <2>2. \A n \in 1 .. prompt[x] - 1 : KindOf(x, n) # "input" => Shown(x, n)
      BY <1>1
    <2> QED
      BY <2>1, <2>2
  <1> QED
    BY <1>2, Invariance, PTL
=============================================================================
