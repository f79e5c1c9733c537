---------------------------- MODULE ShellProofs ----------------------------
(* Proofs about the scheduler of one session (Shell), for any requests and *)
(* any bounds.                                                             *)
EXTENDS Shell, TLAPS

(* Leaves are given 30 seconds of the SMT solver; those it does not find  *)
(* name Zenon.                                                             *)
USE SMTT(30)

(* The empty channel is a sequence. *)
LEMMA EmptySeq == \A S : <<>> \in Seq(S)
  OBVIOUS

(* The initial state has the declared types. *)
LEMMA TypeInit == Init => TypeOK
<1> SUFFICES ASSUME Init PROVE TypeOK
  BY ZenonT(30)
<1> USE ShellAssumption DEF Init
<1>1. request \in [MsgId -> Request]
  <2>1. (CHOOSE shape \in Shapes : TRUE) \in Shapes
    BY ZenonT(30)
  <2> QED BY <2>1, ZenonT(30)
<1>2. reply \in Replies
  BY ZenonT(30) DEF Statuses, Replies
<1>3. sweep \in Sweeps
  BY DEF NoSweep, NoMsg, Sweeps
<1>4. incoming \in Seq(MsgId) /\ controls \in Seq(Control)
  BY ZenonT(30), EmptySeq
<1>5. published \in Published /\ cause \in [MsgId -> 0 .. MaxRequests]
  BY DEF NoMsg, Published
<1>6. /\ sent \in 0 .. MaxRequests /\ budget \in 0 .. MaxControls
      /\ held \in 0 .. MaxRequests /\ serving \in 0 .. MaxRequests
      /\ active \in 0 .. MaxRequests /\ swept \in 0 .. MaxRequests
  BY DEF NoMsg
<1>7. queue \subseteq [msg : MsgId, order : Nat]
  BY ZenonT(30)
<1> QED BY <1>1, <1>2, <1>3, <1>4, <1>5, <1>6, <1>7, ZenonT(30) DEF TypeOK

(* Answering some messages keeps the type of the replies. *)
LEMMA ReplyType ==
  ASSUME NEW replies \in Replies,
         NEW ms, NEW status \in Statuses, NEW count \in Nat \cup {NoCount}
  PROVE  Reply(replies, ms, status, count) \in Replies
  BY ZenonT(30) DEF Reply, Replies

(* The queue keeps its type when the channel is taken into it. *)
LEMMA EnqueuedType ==
  ASSUME TypeOK
  PROVE  /\ Enqueued \subseteq [msg : MsgId, order : Nat]
         /\ order + Len(incoming) \in Nat
<1>1. \A i \in DOMAIN incoming : incoming[i] \in MsgId /\ i \in Nat \ {0}
  BY DEF TypeOK
<1>2. (\A i \in DOMAIN incoming : order + i - 1 \in Nat) /\ order + Len(incoming) \in Nat
  BY <1>1 DEF TypeOK
<1>3. queue \subseteq [msg : MsgId, order : Nat]
  BY Zenon DEF TypeOK
<1> QED BY <1>1, <1>2, <1>3 DEF Enqueued

(* What a sequence keeps when its head is taken. *)
LEMMA HeadTailType ==
  ASSUME NEW S, NEW s \in Seq(S), s # <<>>
  PROVE  Head(s) \in S /\ Tail(s) \in Seq(S)
  OBVIOUS

(* The session's end leaves well-typed state. *)
LEMMA EndShellType ==
  ASSUME TypeOK, NEW how \in {"ended", "failed"}, EndShell(how),
         dropped' \subseteq MsgId, reply' \in Replies,
         published' \in Published, cause' = cause
  PROVE  TypeOK'
<1>1. sweep' \in Sweeps
  BY ShellAssumption DEF EndShell, NoSweep, NoMsg, Sweeps
<1>2. incoming' \in Seq(MsgId) /\ controls' \in Seq(Control)
  BY ZenonT(30), EmptySeq DEF EndShell
<1>3. held' \in 0 .. MaxRequests /\ serving' \in 0 .. MaxRequests /\ active' \in 0 .. MaxRequests
  BY ShellAssumption DEF EndShell, NoMsg
<1>4. queue' \subseteq [msg : MsgId, order : Nat] /\ pc' \in {"ended", "failed"} /\ kernel' = "gone" /\ task' = "none"
  BY ZenonT(30) DEF EndShell
<1> QED BY ZenonT(30), <1>1, <1>2, <1>3, <1>4 DEF TypeOK, EndShell, clientVars

(* A client's or the kernel's step keeps the types. *)
LEMMA TypeOutside ==
  ASSUME TypeOK, Client \/ Kernel
  PROVE  TypeOK'
<1> USE DEF clientVars, kernelVars, schedulerVars, executionVars, outputVars, historyVars
<1>1. ASSUME NEW shape \in Shapes, Send(shape) PROVE TypeOK'
  <2>1. sent + 1 \in MsgId /\ sent + 1 \in 0 .. MaxRequests /\ shape \in Request
    BY <1>1, ShellAssumption DEF Send, TypeOK, MsgId
  <2> QED BY <1>1, <2>1, SMTT(30) DEF Send, TypeOK
<1>2. ASSUME NEW control \in Control, SendControl(control),
             kernel' \in {"free", "awaiting", "stopped", "gone"}, budget' \in 0 .. MaxControls
      PROVE  TypeOK'
  BY <1>2 DEF SendControl, TypeOK
<1>3. CASE SendInterrupt
  <2>1. [type |-> "interrupt", msg |-> NoMsg, status |-> "ok", upto |-> sent] \in Control
    BY ShellAssumption DEF Control, NoMsg, TypeOK
  <2>2. budget' \in 0 .. MaxControls /\ kernel' \in {"free", "awaiting", "stopped", "gone"}
    BY <1>3, ShellAssumption DEF SendInterrupt, TypeOK
  <2> QED BY ZenonT(30), <1>2, <1>3, <2>1, <2>2 DEF SendInterrupt
<1>4. CASE SendStop
  <2>1. [type |-> "stop", msg |-> NoMsg, status |-> "ok", upto |-> 0] \in Control
    BY ShellAssumption DEF Control, NoMsg
  <2>2. budget' \in 0 .. MaxControls /\ kernel' \in {"free", "awaiting", "stopped", "gone"}
    BY ZenonT(30), <1>4 DEF SendStop, TypeOK
  <2> QED BY ZenonT(30), <1>2, <1>4, <2>1, <2>2 DEF SendStop
<1>5. ASSUME NEW m \in 1 .. sent, NEW status \in {"ok", "error"}, SendRelease(m, status) PROVE TypeOK'
  <2>1. [type |-> "release", msg |-> m, status |-> status, upto |-> 0] \in Control
    BY ShellAssumption DEF Control, TypeOK
  <2>2. budget' \in 0 .. MaxControls /\ kernel' \in {"free", "awaiting", "stopped", "gone"}
    BY <1>5, ShellAssumption DEF SendRelease, TypeOK
  <2> QED BY ZenonT(30), <1>2, <1>5, <2>1, <2>2 DEF SendRelease
<1> QED BY ZenonT(30), <1>1, <1>3, <1>4, <1>5 DEF Client, Kernel

(* finish_hold keeps the types. *)
LEMMA FinishHoldType ==
  ASSUME TypeOK, NEW status \in Statuses, NEW count \in Nat \cup {NoCount}, FinishHold(status, count)
  PROVE  /\ reply' \in Replies
         /\ published' \in Published
         /\ held' \in 0 .. MaxRequests /\ cause' = cause
<1>1. reply' \in Replies
  BY ZenonT(30), ReplyType DEF FinishHold, TypeOK
<1>2. published' \in Published
  BY ZenonT(30) DEF FinishHold, TypeOK, Published
<1> QED BY <1>1, <1>2, ShellAssumption DEF FinishHold, NoMsg

(* The abort that is owed has its type. *)
LEMMA OweType ==
  ASSUME NEW why \in 0 .. MaxRequests, NEW next \in {"drain", "controls", "dispatch"},
         NEW answers \in BOOLEAN, NEW upto \in 0 .. MaxRequests, Owe(why, next, answers, upto)
  PROVE  /\ sweep' \in Sweeps
         /\ pc' = "sweep"
  BY ZenonT(30) DEF Owe, Sweeps

(* apply_control keeps the types. *)
LEMMA TypeApplyControl ==
  ASSUME TypeOK, NEW next \in {"drain", "controls"}, ApplyControl(next)
  PROVE  TypeOK'
<1> DEFINE control == Head(controls)
<1>1. control \in Control /\ controls' \in Seq(Control)
  BY ZenonT(30), HeadTailType DEF ApplyControl, TypeOK
<1>2. control.upto \in 0 .. MaxRequests /\ control.status \in Statuses
  BY ZenonT(30), <1>1 DEF Control, Statuses
<1>3. /\ 0 \in 0 .. MaxRequests /\ NoMsg \in 0 .. MaxRequests /\ "interrupted" \in Statuses
      /\ held \in 0 .. MaxRequests /\ execution_count \in Nat /\ next \in {"drain", "controls", "dispatch"}
      /\ TRUE \in BOOLEAN /\ FALSE \in BOOLEAN
  BY ShellAssumption DEF TypeOK, NoMsg, Statuses
<1> DEFINE Rest == /\ kernel' \in {"free", "awaiting", "stopped", "gone"}
                   /\ pc' \in {"sweep", "drain", "controls"}
                   /\ sweep' \in Sweeps
                   /\ held' \in 0 .. MaxRequests
                   /\ interrupting' \in BOOLEAN /\ stopping' \in BOOLEAN /\ requested' \subseteq MsgId
                   /\ reply' \in Replies
                   /\ published' \in Published /\ cause' = cause
<1>4. ASSUME ApplyRelease(next) PROVE Rest
  <2> DEFINE found == held # NoMsg /\ held = control.msg
             failed == control.status # "ok"
             count == IF failed THEN execution_count ELSE NoCount
  <2>1. count \in Nat \cup {NoCount}
    BY ZenonT(30), <1>3
  <2>2. /\ reply' \in Replies
        /\ published' \in Published /\ held' \in 0 .. MaxRequests /\ cause' = cause
    <3>1. CASE found
      <4>1. FinishHold(control.status, count)
        BY ZenonT(30), <1>4, <3>1 DEF ApplyRelease
      <4> HIDE DEF count, control
      <4> QED BY ZenonT(30), <4>1, <1>2, <2>1, FinishHoldType
    <3>2. CASE ~found
      BY ZenonT(30), <1>4, <3>2 DEF ApplyRelease, outputVars, TypeOK
    <3> QED BY ZenonT(30), <3>1, <3>2
  <2>3. /\ sweep' \in Sweeps
        /\ pc' \in {"sweep", "drain", "controls"}
        /\ kernel' \in {"free", "awaiting", "stopped", "gone"}
    <3>1. CASE found /\ failed
      <4>1. Owe(held, next, TRUE, 0) /\ kernel' = kernel
        BY Zenon, <1>4, <3>1 DEF ApplyRelease
      <4>2. sweep' \in Sweeps /\ pc' = "sweep"
        BY Zenon, <4>1, <1>3, OweType
      <4> QED BY ZenonT(30), <4>1, <4>2 DEF TypeOK
    <3>2. CASE ~(found /\ failed)
      BY Zenon, <1>4, <3>2 DEF ApplyRelease, TypeOK
    <3> QED BY ZenonT(30), <3>1, <3>2
  <2>4. interrupting' = interrupting /\ stopping' = stopping /\ requested' = requested
    BY ZenonT(30), <1>4 DEF ApplyRelease
  <2> QED BY ZenonT(30), <2>2, <2>3, <2>4 DEF TypeOK
<1>5. ASSUME ApplyInterrupt(next) PROVE Rest
  <2>1. FinishHold("interrupted", execution_count) /\ Owe(NoMsg, next, FALSE, control.upto)
    BY Zenon, <1>5 DEF ApplyInterrupt
  <2>2. /\ reply' \in Replies
        /\ published' \in Published /\ held' \in 0 .. MaxRequests /\ cause' = cause
    BY ZenonT(30), <2>1, <1>3, FinishHoldType
  <2>3. sweep' \in Sweeps /\ pc' = "sweep"
    <3> HIDE DEF control
    <3> QED BY Zenon, <2>1, <1>2, <1>3, OweType
  <2>4. interrupting' \in BOOLEAN /\ requested' \subseteq MsgId /\ kernel' = kernel /\ stopping' = stopping
    BY <1>5, ShellAssumption DEF ApplyInterrupt, TypeOK, MsgId, NoMsg
  <2> QED BY ZenonT(30), <2>2, <2>3, <2>4 DEF TypeOK
<1>6. ASSUME ApplyStop(next) PROVE Rest
  BY ZenonT(30), <1>6 DEF ApplyStop, TypeOK, outputVars
<1>7. Rest
  <2> HIDE DEF Rest
  <2> QED BY ZenonT(30), <1>4, <1>5, <1>6 DEF ApplyControl
<1> QED BY Zenon, <1>1, <1>7 DEF ApplyControl, TypeOK, clientVars, historyVars

(* What the numbers of messages say of sent and unsent ones. *)
LEMMA Numbers ==
  ASSUME TypeOK
  PROVE  /\ \A m \in 1 .. sent : m \in MsgId /\ m # NoMsg
         /\ \A m \in MsgId : m > sent => m \notin 1 .. sent
         /\ \A m \in MsgId : m # NoMsg
         /\ \A m \in {held, serving, active} : m = NoMsg \/ m \in MsgId
<1>1. /\ sent \in 0 .. MaxRequests
      /\ \A m \in {held, serving, active} : m \in 0 .. MaxRequests
  BY Zenon DEF TypeOK
<1> QED BY <1>1, ShellAssumption DEF MsgId, NoMsg

(* The messages that the session keeps are messages. *)
LEMMA KeptType == TypeOK => Kept \subseteq MsgId
<1> SUFFICES ASSUME TypeOK PROVE Kept \subseteq MsgId
  BY ZenonT(30)
<1>1. InIncoming \subseteq MsgId
  BY DEF TypeOK, InIncoming
<1>2. InQueue \subseteq MsgId
  BY ZenonT(30) DEF TypeOK, InQueue
<1> QED BY Zenon, <1>1, <1>2, Numbers DEF Kept

(* Giving up the session keeps the types. *)
LEMMA TypeFail == ASSUME TypeOK, Fail PROVE TypeOK'
<1>1. dropped' \subseteq MsgId
  BY ZenonT(30), KeptType DEF Fail, TypeOK
<1> QED BY Zenon, <1>1, EndShellType DEF Fail, TypeOK, outputVars

(* execution_done keeps the types. *)
LEMMA TypeExecutionDone ==
  ASSUME TypeOK, NEW next \in {"drain", "dispatch"}, ExecutionDone(next)
  PROVE  TypeOK'
<1>1. sweep' \in Sweeps /\ pc' \in {"sweep", "drain", "dispatch"}
  <2>1. CASE AbortsPending
    <3>1. Owe(active, next, FALSE, 0)
      BY Zenon, <2>1 DEF ExecutionDone
    <3>2. active \in 0 .. MaxRequests /\ 0 \in 0 .. MaxRequests
      BY ShellAssumption DEF TypeOK
    <3> QED BY Zenon, <3>1, <3>2, OweType
  <2>2. CASE ~AbortsPending
    BY ZenonT(30), <2>2 DEF ExecutionDone, TypeOK
  <2> QED BY ZenonT(30), <2>1, <2>2
<1>2. active' \in 0 .. MaxRequests
  BY ShellAssumption DEF ExecutionDone, NoMsg
<1> QED BY ZenonT(30), <1>1, <1>2 DEF ExecutionDone, TypeOK, clientVars, kernelVars, schedulerVars, outputVars, historyVars

(* Handling an item of the queue keeps the types. *)
LEMMA TypeHandleItem ==
  ASSUME TypeOK, NEW item \in queue, HandleItem(item)
  PROVE  TypeOK'
<1> USE DEF clientVars, kernelVars, executionVars, outputVars, historyVars
<1> DEFINE m == item.msg
<1>1. m \in MsgId /\ m \in 0 .. MaxRequests /\ m # NoMsg
  BY ShellAssumption DEF TypeOK, MsgId, NoMsg
<1>2. ASSUME Pop(item)
      PROVE  /\ interrupting' \in BOOLEAN /\ queue' \subseteq [msg : MsgId, order : Nat]
             /\ UNCHANGED <<clientVars, kernelVars, incoming, controls, order, stopping>>
  BY ZenonT(30), <1>2 DEF Pop, Dispatch, StillInterrupting, TypeOK
<1> HIDE DEF m
<1>3. CASE HandleAtOnce(item)
  <2> DEFINE status == CASE request[m].type = "service" -> "error"
                         [] request[m].type = "other" -> "unanswered"
                         [] OTHER -> "ok"
  <2>1. Pop(item) /\ reply' = Reply(reply, {m}, status, NoCount) /\ pc' \in {"closing", "drain"}
    BY ZenonT(30), <1>3 DEF HandleAtOnce, m
  <2>2. status \in Statuses
    BY ZenonT(30) DEF Statuses
  <2>3. reply' \in Replies
    <3> HIDE DEF status
    <3> QED BY Zenon, <2>1, <2>2, ReplyType DEF TypeOK
  <2> QED BY Zenon, <1>2, <1>3, <2>1, <2>3 DEF HandleAtOnce, TypeOK
<1>4. CASE CallLanguage(item)
  <2>1. /\ Pop(item) /\ pc' = "serving" /\ serving' = m
        /\ published' = [published EXCEPT ![m] = IF request[m].type = "service" THEN "busy" ELSE @]
    BY ZenonT(30), <1>4 DEF CallLanguage, m
  <2>2. published' \in Published
    BY ZenonT(30), <2>1, <1>1 DEF TypeOK, Published
  <2> QED BY Zenon, <1>1, <1>2, <1>4, <2>1, <2>2 DEF CallLanguage, TypeOK
<1>5. CASE RefuseExecute(item)
  <2> DEFINE status == RefusalStatus
  <2>1. /\ Pop(item) /\ reply' = Reply(reply, {m}, status, execution_count)
        /\ published' = [published EXCEPT ![m] = "idle"]
    BY ZenonT(30), <1>5 DEF RefuseExecute, m
  <2>2. status \in Statuses /\ execution_count \in Nat \cup {NoCount}
    BY ZenonT(30) DEF Statuses, TypeOK, RefusalStatus
  <2>3. reply' \in Replies
    <3> HIDE DEF status
    <3> QED BY ZenonT(30), <2>1, <2>2, ReplyType DEF TypeOK
  <2>4. published' \in Published
    BY ZenonT(30), <2>1, <1>1 DEF TypeOK, Published
  <2>5. sweep' \in Sweeps /\ pc' \in {"sweep", "drain"}
    <3>1. CASE StillInterrupting
      BY ZenonT(30), <1>5, <3>1 DEF RefuseExecute, TypeOK
    <3>2. CASE ~StillInterrupting
      <4>1. Owe(m, "drain", FALSE, 0)
        BY Zenon, <1>5, <3>2 DEF RefuseExecute, m
      <4>2. 0 \in 0 .. MaxRequests
        BY ShellAssumption
      <4> QED BY Zenon, <4>1, <4>2, <1>1, OweType
    <3> QED BY ZenonT(30), <3>1, <3>2
  <2> QED BY Zenon, <1>2, <1>5, <2>1, <2>3, <2>4, <2>5 DEF RefuseExecute, TypeOK
<1>6. CASE BeginHold(item)
  <2>1. /\ Pop(item) /\ held' = m /\ published' = [published EXCEPT ![m] = "busy"]
        /\ dropped' = dropped \cup ({held} \ {NoMsg}) /\ pc' = "drain"
    BY Zenon, <1>6 DEF BeginHold, m
  <2>2. published' \in Published
    BY ZenonT(30), <2>1, <1>1 DEF TypeOK, Published
  <2>3. dropped' \subseteq MsgId
    BY <2>1, ShellAssumption DEF TypeOK, MsgId, NoMsg
  <2> QED BY Zenon, <1>1, <1>2, <1>6, <2>1, <2>2, <2>3 DEF BeginHold, TypeOK
<1>7. CASE StartExecution(item)
  <2>1. /\ Pop(item) /\ active' = m /\ task' = "running" /\ published' = [published EXCEPT ![m] = "busy"]
        /\ dropped' = dropped \cup {e \in {active} \ {NoMsg} : ~Answered(e)} /\ pc' = "drain"
    BY Zenon, <1>7 DEF StartExecution, m
  <2>2. published' \in Published
    BY ZenonT(30), <2>1, <1>1 DEF TypeOK, Published
  <2>3. dropped' \subseteq MsgId
    <3>1. active = NoMsg \/ active \in MsgId
      BY ShellAssumption DEF TypeOK, MsgId, NoMsg
    <3> QED BY ZenonT(30), <2>1, <3>1 DEF TypeOK
  <2>4. execution_count' \in Nat
    BY <1>7 DEF StartExecution, CountExecution, TypeOK
  <2> QED BY Zenon, <1>1, <1>2, <1>7, <2>1, <2>2, <2>3, <2>4 DEF StartExecution, TypeOK
<1> QED BY ZenonT(30), <1>3, <1>4, <1>5, <1>6, <1>7 DEF HandleItem

(* The language's answer keeps the types of the outputs. *)
LEMMA LanguageAnswersType ==
  ASSUME TypeOK, NEW result, LanguageAnswers(result)
  PROVE  reply' \in Replies /\ published' \in Published /\ cause' = cause
<1> DEFINE status == IF request[serving].type = "comm" THEN "unanswered"
                     ELSE IF result = "ok" THEN "ok" ELSE "error"
           idle == result # "ok" \/ request[serving].type = "service"
<1>1. /\ reply' = Reply(reply, {serving}, status, NoCount)
      /\ published' = [published EXCEPT ![serving] = IF idle THEN "idle" ELSE @]
      /\ cause' = cause
  BY ZenonT(30) DEF LanguageAnswers
<1>2. status \in Statuses
  BY ZenonT(30) DEF Statuses
<1>3. published' \in Published
  BY Zenon, <1>1 DEF TypeOK, Published
<1> HIDE DEF status, idle
<1> QED BY Zenon, <1>1, <1>2, <1>3, ReplyType DEF TypeOK

(* A step of the scheduler keeps the types. *)
LEMMA TypeScheduler == ASSUME TypeOK, Scheduler PROVE TypeOK'
<1> USE DEF clientVars, kernelVars, schedulerVars, executionVars, outputVars, historyVars, rest
<1>1. CASE Drain
  BY Zenon, <1>1, EnqueuedType, EmptySeq DEF Drain, TypeOK
<1>2. CASE Controls
  BY ZenonT(30), <1>2, TypeApplyControl DEF Controls
<1>3. CASE NoControls
  BY ZenonT(30), <1>3 DEF NoControls, TypeOK
<1>4. CASE Sweep
  <2> DEFINE ms == {m \in InIncoming \cup InQueue : Execute(m)}
  <2>1. /\ queue' = {item \in Enqueued : ~Execute(item.msg)} /\ order' = order + Len(incoming) /\ incoming' = <<>>
        /\ reply' = Reply(reply, ms, "aborted", execution_count)
        /\ published' = [m \in MsgId |-> IF m \in ms THEN "idle" ELSE published[m]]
        /\ cause' = [m \in MsgId |-> IF m \in ms THEN sweep.cause ELSE cause[m]]
    BY ZenonT(30), <1>4 DEF Sweep, AbortPending, AbortExecutes
  <2> HIDE DEF ms
  <2>2. reply' \in Replies
    BY Zenon, <2>1, ReplyType DEF TypeOK, Statuses
  <2>3. published' \in Published
    BY ZenonT(30), <2>1 DEF TypeOK, Published
  <2>4. cause' \in [MsgId -> 0 .. MaxRequests] /\ pc' \in {"drain", "controls", "dispatch"} /\ swept' \in 0 .. MaxRequests
    BY ZenonT(30), <1>4, <2>1 DEF Sweep, TypeOK, Sweeps
  <2>5. queue' \subseteq [msg : MsgId, order : Nat] /\ order' \in Nat /\ incoming' \in Seq(MsgId)
    BY ZenonT(30), <2>1, EnqueuedType, EmptySeq
  <2>6. sweep' \in Sweeps
    BY <1>4, ShellAssumption DEF Sweep, Sweeps, NoSweep, NoMsg
  <2> QED BY Zenon, <1>4, <2>2, <2>3, <2>4, <2>5, <2>6 DEF Sweep, TypeOK
<1>5. CASE InterruptFails
  BY ZenonT(30), <1>5, TypeFail DEF InterruptFails
<1>6. CASE Reap
  BY ZenonT(30), <1>6, TypeExecutionDone DEF Reap
<1>7. CASE NothingToReap
  BY ZenonT(30), <1>7 DEF NothingToReap, TypeOK
<1>8. CASE ExecutionFailed
  BY ZenonT(30), <1>8, TypeFail DEF ExecutionFailed
<1>9. CASE Stop
  BY ZenonT(30), <1>9 DEF Stop, DispatchNothing, Dispatch, StillInterrupting, TypeOK
<1>10. CASE Wait
  BY ZenonT(30), <1>10 DEF Wait, DispatchNothing, Dispatch, StillInterrupting, TypeOK
<1>11. CASE \E item \in queue : HandleItem(item)
  BY ZenonT(30), <1>11, TypeHandleItem
<1>12. ASSUME NEW result, ServiceDone(result) PROVE TypeOK'
  <2>1. reply' \in Replies /\ published' \in Published /\ cause' = cause
    BY ZenonT(30), <1>12, LanguageAnswersType DEF ServiceDone
  <2>2. serving' \in 0 .. MaxRequests
    BY <1>12, ShellAssumption DEF ServiceDone, NoMsg
  <2> QED BY ZenonT(30), <1>12, <2>1, <2>2 DEF ServiceDone, TypeOK
<1>13. CASE ServiceClosed
  <2>1. reply' \in Replies /\ published' \in Published /\ cause' = cause
    BY ZenonT(30), <1>13, LanguageAnswersType DEF ServiceClosed
  <2>2. dropped' \subseteq MsgId
    BY Zenon, <1>13, KeptType DEF ServiceClosed, TypeOK
  <2> QED BY ZenonT(30), <1>13, <2>1, <2>2, EndShellType DEF ServiceClosed
<1>14. CASE SelectIncoming
  <2>1. Head(incoming) \in MsgId /\ incoming' \in Seq(MsgId)
    BY SMTT(20), <1>14, HeadTailType DEF SelectIncoming, TypeOK
  <2>2. queue' \subseteq [msg : MsgId, order : Nat] /\ order' \in Nat
    <3>1. /\ queue \subseteq [msg : MsgId, order : Nat] /\ order \in Nat
          /\ queue' = queue \cup {[msg |-> Head(incoming), order |-> order]} /\ order' = order + 1
      BY Zenon, <1>14 DEF SelectIncoming, TypeOK
    <3> QED BY <2>1, <3>1
  <2> QED BY Zenon, <1>14, <2>1, <2>2 DEF SelectIncoming, TypeOK
<1>15. CASE SelectControl
  BY ZenonT(30), <1>15, TypeApplyControl DEF SelectControl
<1>16. CASE SelectDone
  BY ZenonT(30), <1>16, TypeExecutionDone DEF SelectDone
<1>17. CASE HoldTimeout
  <2>1. FinishHold("error", execution_count) /\ Owe(held, "drain", FALSE, 0)
    BY Zenon, <1>17 DEF HoldTimeout
  <2>2. /\ "error" \in Statuses /\ execution_count \in Nat /\ held \in 0 .. MaxRequests /\ 0 \in 0 .. MaxRequests
    BY ShellAssumption DEF Statuses, TypeOK
  <2>3. reply' \in Replies /\ published' \in Published /\ held' \in 0 .. MaxRequests /\ cause' = cause
    BY ZenonT(30), <2>1, <2>2, FinishHoldType
  <2>4. sweep' \in Sweeps /\ pc' = "sweep"
    BY Zenon, <2>1, <2>2, OweType
  <2> QED BY ZenonT(30), <1>17, <2>3, <2>4 DEF HoldTimeout, TypeOK
<1>18. CASE Close
  <2>1. dropped' \subseteq MsgId
    BY ZenonT(30), <1>18, KeptType DEF Close, TypeOK
  <2> QED BY Zenon, <1>18, <2>1, EndShellType DEF Close, TypeOK
<1>19. CASE CloseFails
  BY ZenonT(30), <1>19, TypeFail DEF CloseFails
<1> QED
  BY Zenon, <1>1, <1>2, <1>3, <1>4, <1>5, <1>6, <1>7, <1>8, <1>9, <1>10, <1>11, <1>12, <1>13, <1>14, <1>15,
     <1>16, <1>17, <1>18, <1>19 DEF Scheduler

(* A step of the execution task keeps the types. *)
LEMMA TypeExecution == ASSUME TypeOK, Execution PROVE TypeOK'
<1> USE DEF clientVars, kernelVars, schedulerVars, outputVars, historyVars
<1>1. ASSUME NEW result \in Replied, ExecutionReplies(result) PROVE TypeOK'
  <2> DEFINE status == IF result = "ok" THEN "ok" ELSE "error"
  <2>1. reply' = Reply(reply, {active}, status, execution_count) /\ task' \in Replied
    BY ZenonT(30), <1>1 DEF ExecutionReplies
  <2>2. status \in Statuses /\ execution_count \in Nat
    BY ZenonT(30) DEF Statuses, TypeOK
  <2>3. reply' \in Replies
    <3> HIDE DEF status
    <3> QED BY ZenonT(30), <2>1, <2>2, ReplyType DEF TypeOK
  <2>4. doomed' \subseteq MsgId
    <3>1. Waiting \subseteq MsgId
      BY DEF Waiting, InIncoming, InQueue, TypeOK
    <3> QED BY ZenonT(30), <1>1, <3>1 DEF ExecutionReplies, TypeOK
  <2> QED BY Zenon, <1>1, <2>1, <2>3, <2>4 DEF ExecutionReplies, TypeOK
<1>2. CASE ExecutionPanics
  BY ZenonT(30), <1>2 DEF ExecutionPanics, TypeOK
<1>3. CASE ExecutionIdle
  <2>1. published' \in Published /\ task' \in {"crashed"} \cup Finished
    BY Zenon, <1>3 DEF ExecutionIdle, TypeOK, Published, Finished
  <2> QED BY Zenon, <1>3, <2>1 DEF ExecutionIdle, TypeOK
<1> QED BY ZenonT(30), <1>1, <1>2, <1>3 DEF Execution, Replied

(* The variables of the scheduler and of its execution task keep their     *)
(* types, whatever clients and kernel send.                                *)
THEOREM TypeCorrect == Spec => []TypeOK
<1>1. TypeOK /\ [Next]_vars => TypeOK'
  <2> SUFFICES ASSUME TypeOK, [Next]_vars PROVE TypeOK'
    BY ZenonT(30)
  <2>1. CASE UNCHANGED vars
    BY ZenonT(30), <2>1 DEF TypeOK, vars, rest, clientVars, kernelVars, schedulerVars, executionVars, outputVars, historyVars
  <2> QED BY ZenonT(30), <2>1, TypeOutside, TypeScheduler, TypeExecution DEF Next
<1> QED BY <1>1, TypeInit, PTL DEF Spec

-----------------------------------------------------------------------------
(* No request is lost.  Accounted and DropsOnlyHolds are not inductive:    *)
(* that answering one message leaves the others accounted for rests on a   *)
(* message being in one place at a time, and on how the task's progress    *)
(* goes with the reply.                                                    *)

(* A message is in at most one place: channel and queue hold it once. *)
Once ==
  /\ \A i, j \in DOMAIN incoming : incoming[i] = incoming[j] => i = j
  /\ \A x, y \in queue : x.msg = y.msg => x = y

(* The places have no message in common. *)
Apart ==
  /\ InIncoming \cap InQueue = {}
  /\ {held, serving, active} \cap (InIncoming \cup InQueue) = {}
  /\ held # NoMsg => held # serving /\ held # active
  /\ serving # NoMsg => serving # active
  /\ dropped \cap (InIncoming \cup InQueue \cup {held, serving, active}) = {}

(* Only messages that were sent are anywhere, or answered. *)
SentOnly ==
  /\ InIncoming \cup InQueue \cup dropped \cup ({held, serving, active} \ {NoMsg}) \subseteq 1 .. sent
  /\ \A m \in MsgId : m > sent => ~Answered(m)

Placed == Once /\ Apart /\ SentOnly

(* The execution task, the language call and the hold go with the replies. *)
Lane ==
  /\ active = NoMsg <=> task = "none"
  /\ task = "running" => ~Answered(active)
  /\ task \in Replied \cup Finished => Answered(active)
  /\ serving # NoMsg <=> pc = "serving"
  /\ held # NoMsg => request[held].hold /\ published[held] = "busy"

(* The inductive invariant. *)
Inv == TypeOK /\ Placed /\ Lane /\ Accounted /\ DropsOnlyHolds

(* Initially nothing was sent. *)
LEMMA InvInit == Init => Inv
<1> SUFFICES ASSUME Init PROVE Placed /\ Lane /\ Accounted /\ DropsOnlyHolds
  BY ZenonT(30), TypeInit DEF Inv
<1>1. InIncoming = {} /\ InQueue = {}
  BY DEF Init, InIncoming, InQueue
<1> QED BY <1>1 DEF Init, Placed, Once, Apart, SentOnly, Lane, Accounted, DropsOnlyHolds, Answered, Replied, Finished, NoMsg

(* A step that moves no message and answers none keeps the invariant. *)
LEMMA Frame ==
  ASSUME Inv, TypeOK',
         UNCHANGED <<sent, request, incoming, queue, held, serving, active, task, reply, published, dropped>>,
         pc' = pc \/ (Live /\ pc # "serving" /\ pc' # "serving")
  PROVE  Inv'
<1>1. Placed'
  <2>1. Once'
    BY ZenonT(30) DEF Inv, InIncoming, InQueue, Answered, Placed, Once
  <2>2. Apart'
    BY DEF Inv, InIncoming, InQueue, Answered, Placed, Apart
  <2>3. SentOnly'
    BY ZenonT(30) DEF Inv, InIncoming, InQueue, Answered, Placed, SentOnly
  <2> QED BY ZenonT(30), <2>1, <2>2, <2>3 DEF Placed
<1>2. Lane' /\ DropsOnlyHolds'
  BY ZenonT(30) DEF Inv, Lane, DropsOnlyHolds, Live, Answered
<1>3. Accounted'
  BY DEF Inv, Accounted, Kept, InIncoming, InQueue, Answered
<1> QED BY ZenonT(30), <1>1, <1>2, <1>3 DEF Inv

(* What the channel holds after a send, and after its head is taken. *)
LEMMA InIncomingAppend ==
  ASSUME TypeOK, NEW m \in MsgId, incoming' = Append(incoming, m),
         \A i, j \in DOMAIN incoming : incoming[i] = incoming[j] => i = j, m \notin InIncoming
  PROVE  /\ InIncoming' = InIncoming \cup {m}
         /\ \A i, j \in DOMAIN incoming' : incoming'[i] = incoming'[j] => i = j
<1>1. /\ DOMAIN incoming' = 1 .. Len(incoming) + 1 /\ incoming'[Len(incoming) + 1] = m
      /\ \A i \in 1 .. Len(incoming) : incoming'[i] = incoming[i]
      /\ DOMAIN incoming = 1 .. Len(incoming) /\ Len(incoming) \in Nat
  BY DEF TypeOK
<1> QED BY <1>1 DEF InIncoming

(* Taking the first message of a channel leaves the others in it, each once. *)
LEMMA InIncomingTail ==
  ASSUME TypeOK, incoming # <<>>, incoming' = Tail(incoming),
         \A i, j \in DOMAIN incoming : incoming[i] = incoming[j] => i = j
  PROVE  /\ Head(incoming) \in InIncoming
         /\ InIncoming' = InIncoming \ {Head(incoming)}
         /\ \A i, j \in DOMAIN incoming' : incoming'[i] = incoming'[j] => i = j
<1>1. /\ DOMAIN incoming = 1 .. Len(incoming) /\ Len(incoming) \in Nat \ {0} /\ Head(incoming) = incoming[1]
      /\ DOMAIN incoming' = 1 .. Len(incoming) - 1
      /\ \A i \in 1 .. Len(incoming) - 1 : incoming'[i] = incoming[i + 1]
  BY DEF TypeOK
<1>2. \A i \in 2 .. Len(incoming) : incoming[i] = incoming'[i - 1] /\ i - 1 \in 1 .. Len(incoming) - 1
  BY <1>1
<1>3. InIncoming' \subseteq InIncoming \ {Head(incoming)}
  BY <1>1 DEF InIncoming
<1>4. ASSUME NEW m \in InIncoming \ {Head(incoming)} PROVE m \in InIncoming'
  <2>1. PICK i \in 1 .. Len(incoming) : m = incoming[i]
    BY ZenonT(30), <1>1 DEF InIncoming
  <2>2. i \in 2 .. Len(incoming)
    BY <1>1, <1>4, <2>1
  <2> QED BY Zenon, <1>1, <1>2, <2>1, <2>2 DEF InIncoming
<1>5. \A i, j \in DOMAIN incoming' : incoming'[i] = incoming'[j] => i = j
  BY <1>1
<1>6. Head(incoming) \in InIncoming
  BY <1>1 DEF InIncoming
<1> QED BY ZenonT(30), <1>3, <1>4, <1>5, <1>6

(* An empty channel has no message in it. *)
LEMMA EmptyChannel == incoming' = <<>> => InIncoming' = {} /\ DOMAIN incoming' = {}
  BY DEF InIncoming

(* Taking the channel into the queue keeps one item per message. *)
LEMMA EnqueuedOnce ==
  ASSUME Inv
  PROVE  /\ {item.msg : item \in Enqueued} = InQueue \cup InIncoming
         /\ \A x, y \in Enqueued : x.msg = y.msg => x = y
<1>1. \A x \in Enqueued : x \in queue \/ \E i \in DOMAIN incoming : x = [msg |-> incoming[i], order |-> order + i - 1]
  BY ZenonT(30) DEF Enqueued
<1>2. {item.msg : item \in Enqueued} = InQueue \cup InIncoming
  <2>1. \A m : m \in {item.msg : item \in Enqueued} => m \in InQueue \cup InIncoming
    BY <1>1 DEF InQueue, InIncoming
  <2>2. \A m \in InIncoming : \E x \in Enqueued : x.msg = m
    <3> SUFFICES ASSUME NEW m \in InIncoming PROVE \E x \in Enqueued : x.msg = m
      BY ZenonT(30)
    <3>1. PICK i \in DOMAIN incoming : m = incoming[i]
      BY ZenonT(30) DEF InIncoming
    <3>2. [msg |-> m, order |-> order + i - 1] \in Enqueued
      BY ZenonT(30), <3>1 DEF Enqueued
    <3> QED BY ZenonT(30), <3>2
  <2>3. InQueue \subseteq {item.msg : item \in Enqueued}
    BY ZenonT(30) DEF Enqueued, InQueue
  <2> QED BY ZenonT(30), <2>1, <2>2, <2>3
<1>3. ASSUME NEW x \in Enqueued, NEW y \in Enqueued, x.msg = y.msg PROVE x = y
  <2>1. CASE x \in queue /\ y \in queue
    BY ZenonT(30), <1>3, <2>1 DEF Inv, Placed, Once, Apart, SentOnly
  <2>2. CASE x \in queue /\ y \notin queue
    BY <1>1, <1>3, <2>2 DEF Inv, Placed, Once, Apart, SentOnly, InIncoming, InQueue
  <2>3. CASE x \notin queue /\ y \in queue
    BY <1>1, <1>3, <2>3 DEF Inv, Placed, Once, Apart, SentOnly, InIncoming, InQueue
  <2>4. CASE x \notin queue /\ y \notin queue
    <3>1. PICK i \in DOMAIN incoming : x = [msg |-> incoming[i], order |-> order + i - 1]
      BY ZenonT(30), <1>1, <2>4
    <3>2. PICK j \in DOMAIN incoming : y = [msg |-> incoming[j], order |-> order + j - 1]
      BY ZenonT(30), <1>1, <2>4
    <3>3. i = j
      BY ZenonT(30), <1>3, <3>1, <3>2 DEF Inv, Placed, Once, Apart, SentOnly
    <3> QED BY ZenonT(30), <3>1, <3>2, <3>3
  <2> QED BY ZenonT(30), <2>1, <2>2, <2>3, <2>4
<1> QED BY ZenonT(30), <1>2, <1>3

(* Who is answered after some messages are. *)
LEMMA ReplyAnswers ==
  ASSUME NEW ms, NEW status \in Statuses \ {"none"}, NEW count, reply' = Reply(reply, ms, status, count)
  PROVE  \A m \in MsgId : Answered(m)' <=> Answered(m) \/ m \in ms
  BY ZenonT(30) DEF Reply, Answered

(* No message is in no place. *)
LEMMA NoMsgNowhere == Inv => NoMsg \notin InIncoming \cup InQueue \cup dropped
<1>1. NoMsg \notin 1 .. sent
  BY DEF NoMsg
<1> QED BY ZenonT(30), <1>1 DEF Inv, Placed, Once, Apart, SentOnly

(* A request that is sent is in the channel, and nowhere else. *)
LEMMA InvSend ==
  ASSUME Inv, TypeOK', NEW shape \in Shapes, Send(shape)
  PROVE  Inv'
<1> USE DEF kernelVars, schedulerVars, executionVars, outputVars, historyVars
<1> DEFINE m == sent + 1
<1>1. /\ m \in MsgId /\ sent \in Nat /\ sent' = m /\ m \notin 1 .. sent /\ 1 .. m = 1 .. sent \cup {m}
  BY ShellAssumption DEF Send, Inv, TypeOK, MsgId
<1>2. /\ InIncoming' = InIncoming \cup {m}
      /\ \A i, j \in DOMAIN incoming' : incoming'[i] = incoming'[j] => i = j
  BY ZenonT(30), <1>1, InIncomingAppend DEF Send, Inv, Placed, Once, Apart, SentOnly
<1>3. InQueue' = InQueue /\ ~Answered(m) /\ \A k : Answered(k)' <=> Answered(k)
  <2>1. ~Answered(m)
    BY <1>1 DEF Inv, Placed, SentOnly
  <2> QED BY Zenon, <2>1 DEF Send, InQueue, Answered
<1>4. \A k \in 1 .. sent : request'[k] = request[k]
  BY <1>1 DEF Send, Inv, TypeOK, MsgId
<1>5. Placed'
  <2>1. /\ queue' = queue /\ held' = held /\ serving' = serving /\ active' = active /\ dropped' = dropped
    BY ZenonT(30) DEF Send
  <2>2. \A k \in MsgId : k > m => k > sent
    BY <1>1 DEF MsgId
  <2>3. m # NoMsg
    BY <1>1 DEF NoMsg
  <2> HIDE DEF m
  <2>a. Once'
    BY ZenonT(30), <1>1, <1>2, <1>3, <2>1, <2>2, <2>3 DEF Inv, Placed, Once
  <2>b. Apart'
    <3>1. m \notin InIncoming \cup InQueue \cup dropped \cup {held, serving, active}
      BY ZenonT(30), <1>1, <2>3 DEF Inv, Placed, SentOnly
    <3> QED BY ZenonT(30), <1>2, <1>3, <2>1, <3>1 DEF Inv, Placed, Apart
  <2>c. SentOnly'
    BY ZenonT(30), <1>1, <1>2, <1>3, <2>1, <2>2, <2>3 DEF Inv, Placed, SentOnly
  <2> QED BY ZenonT(30), <2>a, <2>b, <2>c DEF Placed
<1>6. Lane'
  <2>1. held # NoMsg => held \in 1 .. sent
    BY ZenonT(30) DEF Inv, Placed, Once, Apart, SentOnly
  <2> QED BY ZenonT(30), <1>3, <1>4, <2>1 DEF Send, Inv, Lane
<1>7. Accounted'
  <2>1. Kept' = Kept \cup {m}
    BY ZenonT(30), <1>2, <1>3 DEF Send, Kept
  <2>2. m \notin dropped /\ dropped' = dropped
    BY ZenonT(30), <1>1 DEF Send, Inv, Placed, Once, Apart, SentOnly
  <2> HIDE DEF m
  <2> QED BY ZenonT(30), <1>1, <1>3, <2>1, <2>2 DEF Inv, Accounted
<1>8. DropsOnlyHolds'
  <2>1. dropped \subseteq 1 .. sent
    BY ZenonT(30) DEF Inv, Placed, Once, Apart, SentOnly
  <2> QED BY ZenonT(30), <1>4, <2>1 DEF Send, Inv, DropsOnlyHolds, Live
<1> QED BY Zenon, <1>5, <1>6, <1>7, <1>8 DEF Inv

(* The channel is taken into the queue. *)
LEMMA InvEnqueue ==
  ASSUME Inv, TypeOK', pc # "serving", pc' # "serving", Live,
         {item.msg : item \in queue'} \cup InIncoming' = InQueue \cup InIncoming,
         {item.msg : item \in queue'} \cap InIncoming' = {},
         \A x, y \in queue' : x.msg = y.msg => x = y,
         \A i, j \in DOMAIN incoming' : incoming'[i] = incoming'[j] => i = j,
         UNCHANGED <<sent, request, held, serving, active, task, reply, published, dropped>>
  PROVE  Inv'
<1>1. InQueue' \cup InIncoming' = InQueue \cup InIncoming /\ InQueue' \cap InIncoming' = {}
  BY ZenonT(30) DEF InQueue
<1>2. \A m : Answered(m)' <=> Answered(m)
  BY ZenonT(30) DEF Answered
<1>3. Placed'
  <2>1. Once'
    BY ZenonT(30), <1>1, <1>2 DEF Inv, Placed, Once
  <2>2. Apart'
    BY ZenonT(30), <1>1, <1>2 DEF Inv, Placed, Apart
  <2>3. SentOnly'
    BY ZenonT(30), <1>1, <1>2 DEF Inv, Placed, SentOnly
  <2> QED BY ZenonT(30), <2>1, <2>2, <2>3 DEF Placed
<1>4. Lane' /\ DropsOnlyHolds'
  BY ZenonT(30), <1>2 DEF Inv, Lane, DropsOnlyHolds, Live
<1>5. Accounted'
  <2>1. Kept' = Kept
    BY ZenonT(30), <1>1, <1>2 DEF Kept
  <2> QED BY ZenonT(30), <1>2, <2>1 DEF Inv, Accounted
<1> QED BY ZenonT(30), <1>3, <1>4, <1>5 DEF Inv

(* finish_hold answers the held request, which is then nowhere. *)
LEMMA InvFinishHold ==
  ASSUME Inv, TypeOK', NEW status \in Statuses \ {"none"}, NEW count, FinishHold(status, count),
         pc # "serving", pc' # "serving", Live,
         UNCHANGED <<sent, request, incoming, queue, serving, active, task, dropped>>
  PROVE  Inv'
<1>1. InQueue' = InQueue /\ InIncoming' = InIncoming
  BY ZenonT(30) DEF InQueue, InIncoming
<1>2. \A m \in MsgId : Answered(m)' <=> Answered(m) \/ m \in {held} \ {NoMsg}
  BY ZenonT(30), ReplyAnswers DEF FinishHold
<1>3. held = NoMsg \/ held \in 1 .. sent
  BY Zenon DEF Inv, Placed, Once, Apart, SentOnly
<1>4. active = NoMsg \/ (active \in MsgId /\ active # held)
  BY Zenon, Numbers DEF Inv, Placed, Apart
<1>5. Placed'
  <2>1. \A m \in MsgId : m > sent => m # held
    BY Zenon, <1>3, Numbers DEF Inv
  <2>2. NoMsg \notin InIncoming \cup InQueue \cup dropped
    BY Zenon, NoMsgNowhere
  <2>a. Once'
    BY Zenon, <1>1, <1>2, <2>1, <2>2 DEF Inv, FinishHold, Placed, Once
  <2>b. Apart'
    BY Zenon, <1>1, <1>2, <2>1, <2>2 DEF Inv, FinishHold, Placed, Apart
  <2>c. SentOnly'
    BY Zenon, <1>1, <1>2, <2>1, <2>2 DEF Inv, FinishHold, Placed, SentOnly
  <2> QED BY ZenonT(30), <2>a, <2>b, <2>c DEF Placed
<1>6. Lane'
  BY Zenon, <1>2, <1>4 DEF Inv, Lane, FinishHold, Replied, Finished
<1>7. Accounted'
  <2>1. Kept' = Kept \ {held}
    <3>1. held' = NoMsg /\ serving' = serving /\ active' = active
      BY Zenon DEF FinishHold
    <3>2. active # NoMsg => (Answered(active)' <=> Answered(active))
      BY Zenon, <1>2, <1>4, <3>1
    <3>3. /\ held \notin InIncoming \cup InQueue
          /\ held # NoMsg => held # serving /\ held # active
      BY Zenon DEF Inv, Placed, Apart
    <3> QED BY Zenon, <1>1, <3>1, <3>2, <3>3 DEF Kept
  <2>2. \A m \in 1 .. sent : m \in MsgId /\ m # NoMsg
    BY Zenon, Numbers DEF Inv
  <2>3. held \notin dropped
    BY Zenon DEF Inv, Placed, Once, Apart, SentOnly
  <2> QED BY Zenon, <1>2, <2>1, <2>2, <2>3 DEF Inv, Accounted
<1>8. DropsOnlyHolds'
  BY Zenon DEF Inv, Placed, Once, Apart, SentOnly, DropsOnlyHolds, FinishHold, Live, TypeOK
<1> QED BY ZenonT(30), <1>5, <1>6, <1>7, <1>8 DEF Inv

(* execution_done gives up an execution that was answered. *)
LEMMA InvExecutionDone ==
  ASSUME Inv, TypeOK', NEW next \in {"drain", "dispatch"}, ExecutionDone(next), pc \in {"reap", "select"}
  PROVE  Inv'
<1>1. /\ UNCHANGED <<sent, request, incoming, queue, held, serving, reply, published, dropped>>
      /\ active' = NoMsg /\ task' = "none" /\ task \in Finished
  BY ZenonT(30) DEF ExecutionDone, clientVars, schedulerVars, outputVars, historyVars
<1>2. pc' # "serving" /\ pc # "serving" /\ Live
  BY Zenon DEF ExecutionDone, Owe, Live
<1>3. InQueue' = InQueue /\ InIncoming' = InIncoming /\ \A m : Answered(m)' <=> Answered(m)
  BY ZenonT(30), <1>1 DEF InQueue, InIncoming, Answered
<1>4. Placed'
  <2>1. Once'
    BY ZenonT(30), <1>1, <1>3, NoMsgNowhere DEF Inv, Placed, Once
  <2>2. Apart'
    BY ZenonT(30), <1>1, <1>3, NoMsgNowhere DEF Inv, Placed, Apart
  <2>3. SentOnly'
    BY Zenon, <1>1, <1>3, NoMsgNowhere DEF Inv, Placed, SentOnly
  <2> QED BY ZenonT(30), <2>1, <2>2, <2>3 DEF Placed
<1>5. Lane' /\ DropsOnlyHolds'
  BY ZenonT(30), <1>1, <1>2, <1>3 DEF Inv, Lane, DropsOnlyHolds, Replied, Finished
<1>6. Accounted'
  <2>1. Kept' = Kept
    BY ZenonT(30), <1>1, <1>3 DEF Kept, Inv, Lane
  <2> QED BY Zenon, <1>1, <1>3, <2>1 DEF Inv, Accounted
<1> QED BY ZenonT(30), <1>4, <1>5, <1>6 DEF Inv

(* abort_pending answers the executes that wait and keeps the rest. *)
LEMMA InvSweep == ASSUME Inv, TypeOK', Sweep PROVE Inv'
<1> DEFINE ms == {m \in InIncoming \cup InQueue : Execute(m)}
<1>1. /\ queue' = {item \in Enqueued : ~Execute(item.msg)} /\ incoming' = <<>>
      /\ reply' = Reply(reply, ms, "aborted", execution_count)
      /\ published' = [m \in MsgId |-> IF m \in ms THEN "idle" ELSE published[m]]
      /\ UNCHANGED <<sent, request, held, serving, active, task, dropped>>
  BY Zenon DEF Sweep, AbortPending, AbortExecutes, clientVars, executionVars
<1>2. pc = "sweep" /\ pc' # "serving" /\ Live
  BY Zenon DEF Sweep, Live, Inv, TypeOK, Sweeps
<1>3. InIncoming' = {}
  BY Zenon, <1>1, EmptyChannel
<1>4. InQueue' = (InIncoming \cup InQueue) \ ms
  BY <1>1, EnqueuedOnce DEF InQueue
<1>5. \A x, y \in queue' : x.msg = y.msg => x = y
  BY ZenonT(30), <1>1, EnqueuedOnce
<1>6. ms \subseteq InIncoming \cup InQueue
  BY ZenonT(30)
<1> HIDE DEF ms
<1>7. \A m \in MsgId : Answered(m)' <=> Answered(m) \/ m \in ms
  BY ZenonT(30), <1>1, ReplyAnswers DEF Statuses
<1>8. ms \subseteq 1 .. sent /\ {held, serving, active} \cap ms = {} /\ dropped \cap ms = {}
  BY ZenonT(30), <1>6 DEF Inv, Placed, Once, Apart, SentOnly
<1>9. active = NoMsg \/ active \in MsgId
  BY Zenon, Numbers DEF Inv
<1>10. Placed'
  <2>1. \A m \in MsgId : m > sent => m \notin ms
    BY Zenon, <1>8, Numbers DEF Inv
  <2>2. DOMAIN incoming' = {}
    BY <1>1
  <2>a. Once'
    BY Zenon, <1>1, <1>3, <1>4, <1>5, <1>7, <2>1, <2>2 DEF Inv, Placed, Once
  <2>b. Apart'
    BY Zenon, <1>1, <1>3, <1>4, <1>5, <1>7, <2>1, <2>2 DEF Inv, Placed, Apart
  <2>c. SentOnly'
    BY ZenonT(30), <1>1, <1>3, <1>4, <1>5, <1>7, <2>1, <2>2 DEF Inv, Placed, SentOnly
  <2> QED BY Zenon, <2>a, <2>b, <2>c DEF Placed
<1>11. Lane'
  <2>1. held # NoMsg => held \in MsgId
    BY Zenon, Numbers DEF Inv
  <2> QED BY Zenon, <1>1, <1>2, <1>7, <1>8, <1>9, <2>1 DEF Inv, Lane, Replied, Finished
<1>12. Accounted'
  <2>1. Kept' = Kept \ ms
    <3>1. active # NoMsg => (Answered(active)' <=> Answered(active))
      BY Zenon, <1>1, <1>7, <1>8, <1>9
    <3>2. {m \in {active} \ {NoMsg} : ~Answered(m)}' = {m \in {active} \ {NoMsg} : ~Answered(m)}
      BY ZenonT(30), <1>1, <3>1
    <3>3. /\ {held, serving}' = {held, serving} /\ NoMsg' = NoMsg
          /\ held \notin ms /\ serving \notin ms /\ active \notin ms
      BY ZenonT(30), <1>1, <1>8 DEF NoMsg
    <3> QED BY <1>3, <1>4, <3>2, <3>3, Zenon DEF Kept
  <2>2. \A m \in 1 .. sent : m \in MsgId
    BY Zenon, Numbers DEF Inv
  <2> QED BY ZenonT(30), <1>1, <1>7, <1>8, <2>1, <2>2 DEF Inv, Accounted
<1>13. DropsOnlyHolds'
  BY ZenonT(30), <1>1, <1>2, <1>8 DEF Inv, DropsOnlyHolds, TypeOK
<1> QED BY Zenon, <1>10, <1>11, <1>12, <1>13 DEF Inv

(* When the session ends, what it kept is dropped. *)
LEMMA InvEndShell ==
  ASSUME Inv, TypeOK', NEW how \in {"ended", "failed"}, EndShell(how), NEW ms \in SUBSET {serving},
         \A m \in MsgId : Answered(m)' <=> Answered(m) \/ m \in ms,
         dropped' = dropped \cup (Kept \ ms)
  PROVE  Inv'
<1>1. /\ sent' = sent /\ request' = request /\ held' = NoMsg /\ serving' = NoMsg /\ active' = NoMsg
      /\ task' = "none" /\ incoming' = <<>> /\ queue' = {} /\ pc' = how
  BY ZenonT(30) DEF EndShell, clientVars
<1>2. InIncoming' = {} /\ InQueue' = {} /\ Kept' = {}
  <2>1. InIncoming' = {}
    BY Zenon, <1>1, EmptyChannel
  <2>2. InQueue' = {}
    BY Zenon, <1>1 DEF InQueue
  <2>3. Kept' = {}
    BY <1>1, <2>1, <2>2, Zenon DEF Kept
  <2> QED BY ZenonT(30), <2>1, <2>2, <2>3
<1>3. Kept \subseteq 1 .. sent
  BY Zenon DEF Kept, Inv, Placed, Once, Apart, SentOnly
<1>4. \A m \in 1 .. sent : m \in MsgId /\ m # NoMsg
  BY Zenon, Numbers DEF Inv
<1>5. \A m \in MsgId : m > sent => m \notin 1 .. sent /\ m # NoMsg
  BY Zenon, Numbers DEF Inv
<1>6. serving # NoMsg => serving \in 1 .. sent /\ serving \notin dropped
  BY ZenonT(30) DEF Inv, Placed, Once, Apart, SentOnly
<1>7. Placed'
  <2>1. NoMsg \notin dropped' /\ DOMAIN incoming' = {}
    <3>1. NoMsg \notin dropped'
      BY Zenon, <1>3, <1>4, NoMsgNowhere
    <3>2. DOMAIN incoming' = {}
      BY <1>1
    <3> QED BY ZenonT(30), <3>1, <3>2
  <2>2. dropped' \subseteq 1 .. sent
    BY Zenon, <1>3 DEF Inv, Placed, Once, Apart, SentOnly
  <2>3. \A m \in MsgId : m > sent => ~Answered(m)'
    BY ZenonT(30), <1>5, <1>6 DEF Inv, Placed, Once, Apart, SentOnly
  <2>a. Once'
    BY ZenonT(30), <1>1, <1>2, <2>1, <2>2, <2>3 DEF Placed, Once
  <2>b. Apart'
    BY ZenonT(30), <1>1, <1>2, <2>1, <2>2, <2>3 DEF Placed, Apart
  <2>c. SentOnly'
    BY Zenon, <1>1, <1>2, <2>1, <2>2, <2>3 DEF Placed, SentOnly
  <2> QED BY ZenonT(30), <2>a, <2>b, <2>c DEF Placed
<1>8. Lane' /\ DropsOnlyHolds'
  BY Zenon, <1>1 DEF Lane, DropsOnlyHolds, Live, Replied, Finished
<1>9. Accounted'
  BY ZenonT(30), <1>1, <1>2, <1>4, <1>6 DEF Inv, Accounted
<1> QED BY ZenonT(30), <1>7, <1>8, <1>9 DEF Inv

(* LanguageAnswers answers the message that is served, even one that has   *)
(* no reply in the protocol.                                               *)
LEMMA ServingAnswered ==
  ASSUME NEW result, LanguageAnswers(result)
  PROVE  \A m \in MsgId : Answered(m)' <=> Answered(m) \/ m = serving
<1> DEFINE status == IF request[serving].type = "comm" THEN "unanswered"
                     ELSE IF result = "ok" THEN "ok" ELSE "error"
<1>1. reply' = Reply(reply, {serving}, status, NoCount)
  BY ZenonT(30) DEF LanguageAnswers
<1>2. status \in Statuses \ {"none"}
  BY ZenonT(30) DEF Statuses
<1> HIDE DEF status
<1> QED BY <1>1, <1>2, ReplyAnswers

(* The execution task answers its own request. *)
LEMMA InvExecution == ASSUME Inv, TypeOK', Execution PROVE Inv'
<1> USE DEF clientVars, schedulerVars, outputVars, historyVars
<1>1. ASSUME NEW result \in Replied, ExecutionReplies(result) PROVE Inv'
  <2> DEFINE status == IF result = "ok" THEN "ok" ELSE "error"
  <2>1. /\ UNCHANGED <<sent, request, incoming, queue, held, serving, active, pc, published, dropped>>
        /\ reply' = Reply(reply, {active}, status, execution_count) /\ task = "running" /\ task' = result
    BY ZenonT(30), <1>1 DEF ExecutionReplies, CellEnds
  <2>2. status \in Statuses \ {"none"}
    BY ZenonT(30) DEF Statuses
  <2>3. \A m \in MsgId : Answered(m)' <=> Answered(m) \/ m = active
    <3> HIDE DEF status
    <3> QED BY <2>1, <2>2, ReplyAnswers
  <2>4. active # NoMsg /\ active \in MsgId /\ active \in 1 .. sent /\ active \notin dropped
    <3>1. active # NoMsg /\ active \in 1 .. sent /\ active \notin dropped
      BY ZenonT(30), <2>1 DEF Inv, Lane, Placed, Once, Apart, SentOnly
    <3> QED BY Zenon, <3>1, Numbers DEF Inv
  <2>5. InQueue' = InQueue /\ InIncoming' = InIncoming
    BY Zenon, <2>1 DEF InQueue, InIncoming
  <2>6. Placed'
    <3>1. \A m \in MsgId : m > sent => m # active
      BY Zenon, <2>4, Numbers DEF Inv
    <3>a. Once'
      BY Zenon, <2>1, <2>3, <2>5, <3>1 DEF Inv, Placed, Once
    <3>b. Apart'
      BY Zenon, <2>1, <2>3, <2>5, <3>1 DEF Inv, Placed, Apart
    <3>c. SentOnly'
      BY Zenon, <2>1, <2>3, <2>5, <3>1 DEF Inv, Placed, SentOnly
    <3> QED BY Zenon, <3>a, <3>b, <3>c DEF Placed
  <2>7. Lane'
    <3>1. task' \notin {"none", "running"}
      BY ZenonT(30), <2>1 DEF Replied
    <3> QED BY ZenonT(30), <2>1, <2>3, <2>4, <3>1 DEF Inv, Lane
  <2>8. Accounted'
    <3>1. Kept' = Kept \ {active}
      BY Zenon, <2>1, <2>3, <2>4, <2>5 DEF Kept, Inv, Placed, Once, Apart, SentOnly
    <3>2. \A m \in 1 .. sent : m \in MsgId
      BY Zenon, Numbers DEF Inv
    <3> QED BY Zenon, <2>1, <2>3, <2>4, <3>1, <3>2 DEF Inv, Accounted
  <2>9. DropsOnlyHolds'
    BY Zenon, <2>1 DEF Inv, DropsOnlyHolds, Live
  <2> QED BY Zenon, <2>6, <2>7, <2>8, <2>9 DEF Inv
<1>2. ASSUME ExecutionPanics \/ ExecutionIdle PROVE Inv'
  <2>1. /\ UNCHANGED <<sent, request, incoming, queue, held, serving, active, pc, reply, dropped>>
        /\ active # NoMsg /\ task' \in {"crashed"} \cup Finished
        /\ task' \in Finished => task \in Replied
    BY Zenon, <1>2 DEF ExecutionPanics, ExecutionIdle, Inv, Lane, Replied, Finished
  <2>2. \A m \in MsgId \ {active} : published'[m] = published[m]
    BY Zenon, <1>2 DEF ExecutionPanics, ExecutionIdle, Inv, TypeOK, Published
  <2>3. InQueue' = InQueue /\ InIncoming' = InIncoming /\ \A m : Answered(m)' <=> Answered(m)
    BY ZenonT(30), <2>1 DEF InQueue, InIncoming, Answered
  <2>4. Placed'
    <3>1. Once'
      BY ZenonT(30), <2>1, <2>3 DEF Inv, Placed, Once
    <3>2. Apart'
      BY Zenon, <2>1, <2>3 DEF Inv, Placed, Apart
    <3>3. SentOnly'
      BY Zenon, <2>1, <2>3 DEF Inv, Placed, SentOnly
    <3> QED BY ZenonT(30), <3>1, <3>2, <3>3 DEF Placed
  <2>5. Lane'
    <3>1. held # NoMsg => held \in MsgId \ {active}
      BY ShellAssumption DEF Inv, Placed, Once, Apart, SentOnly, TypeOK, MsgId, NoMsg
    <3>2. task' \notin {"none", "running"} \cup Replied
      BY ZenonT(30), <2>1 DEF Finished, Replied
    <3> QED BY Zenon, <2>1, <2>2, <2>3, <3>1, <3>2 DEF Inv, Lane
  <2>6. Accounted'
    <3>1. Kept' = Kept
      BY ZenonT(30), <2>1, <2>3 DEF Kept
    <3> QED BY ZenonT(30), <2>1, <2>3, <3>1 DEF Inv, Accounted
  <2>7. DropsOnlyHolds'
    BY Zenon, <2>1, <2>2 DEF Inv, Placed, Once, Apart, SentOnly, DropsOnlyHolds, Live, TypeOK
  <2> QED BY ZenonT(30), <2>4, <2>5, <2>6, <2>7 DEF Inv
<1> QED BY ZenonT(30), <1>1, <1>2 DEF Execution, Replied

(* The language's answer answers the message that was being served. *)
LEMMA InvServiceDone == ASSUME Inv, TypeOK', NEW result, ServiceDone(result) PROVE Inv'
<1> USE DEF clientVars, executionVars, historyVars
<1>1. /\ UNCHANGED <<sent, request, incoming, queue, held, active, task, dropped>>
      /\ serving' = NoMsg /\ pc = "serving" /\ pc' = "drain"
  BY Zenon DEF ServiceDone, LanguageAnswers
<1>2. serving # NoMsg /\ serving \in MsgId /\ serving \in 1 .. sent /\ serving \notin dropped
  <2>1. serving # NoMsg /\ serving \in 1 .. sent /\ serving \notin dropped
    BY ZenonT(30), <1>1 DEF Inv, Lane, Placed, Once, Apart, SentOnly
  <2> QED BY Zenon, <2>1, Numbers DEF Inv
<1>3. \A m \in MsgId : Answered(m)' <=> Answered(m) \/ m = serving
  BY Zenon, ServingAnswered DEF ServiceDone
<1>4. \A m \in MsgId \ {serving} : published'[m] = published[m]
  BY ZenonT(30) DEF ServiceDone, LanguageAnswers, Inv, TypeOK, Published
<1>5. InQueue' = InQueue /\ InIncoming' = InIncoming
  BY Zenon, <1>1 DEF InQueue, InIncoming
<1>6. active = NoMsg \/ active \in MsgId \ {serving}
  BY Zenon, <1>2, Numbers DEF Inv, Placed, Apart
<1>7. Placed'
  <2>1. \A m \in MsgId : m > sent => m # serving
    BY Zenon, <1>2, Numbers DEF Inv
  <2>a. Once'
    BY Zenon, <1>1, <1>3, <1>5, <2>1, NoMsgNowhere DEF Inv, Placed, Once
  <2>b. Apart'
    BY ZenonT(30), <1>1, <1>3, <1>5, <2>1, NoMsgNowhere DEF Inv, Placed, Apart
  <2>c. SentOnly'
    BY Zenon, <1>1, <1>3, <1>5, <2>1, NoMsgNowhere DEF Inv, Placed, SentOnly
  <2> QED BY Zenon, <2>a, <2>b, <2>c DEF Placed
<1>8. Lane'
  <2>1. held # NoMsg => held \in MsgId \ {serving}
    BY Zenon, Numbers DEF Inv, Placed, Apart
  <2> QED BY Zenon, <1>1, <1>3, <1>4, <1>6, <2>1 DEF Inv, Lane, Replied, Finished
<1>9. Accounted'
  <2>1. Kept' = Kept \ {serving}
    <3>1. active # NoMsg => (Answered(active)' <=> Answered(active))
      BY Zenon, <1>1, <1>3, <1>6
    <3>2. serving \notin InIncoming \cup InQueue \cup {held}
      BY Zenon, <1>2 DEF Inv, Placed, Apart
    <3> QED BY Zenon, <1>1, <1>2, <1>5, <1>6, <3>1, <3>2 DEF Kept
  <2>2. \A m \in 1 .. sent : m \in MsgId
    BY Zenon, Numbers DEF Inv
  <2> QED BY Zenon, <1>1, <1>2, <1>3, <2>1, <2>2 DEF Inv, Accounted
<1>10. DropsOnlyHolds'
  BY Zenon, <1>1, <1>2, <1>4 DEF Inv, Placed, Once, Apart, SentOnly, DropsOnlyHolds, Live, TypeOK
<1> QED BY ZenonT(30), <1>7, <1>8, <1>9, <1>10 DEF Inv

(* An item leaves the queue. *)
LEMMA PopFacts ==
  ASSUME Inv, NEW item \in queue, Pop(item)
  PROVE  /\ pc = "dispatch" /\ Live /\ serving = NoMsg
         /\ InQueue' = InQueue \ {item.msg} /\ InIncoming' = InIncoming
         /\ \A x, y \in queue' : x.msg = y.msg => x = y
         /\ UNCHANGED <<sent, request, incoming>>
         /\ item.msg \in MsgId /\ item.msg \in 1 .. sent /\ item.msg # NoMsg
         /\ item.msg \in InQueue /\ item.msg \notin InIncoming /\ item.msg \notin dropped
         /\ item.msg \notin {held, serving, active}
<1>1. pc = "dispatch" /\ queue' = queue \ {item} /\ UNCHANGED <<sent, request, incoming>>
  BY Zenon DEF Pop, Dispatch, clientVars
<1>2. InQueue' = InQueue \ {item.msg} /\ \A x, y \in queue' : x.msg = y.msg => x = y
  <2>1. \A x \in queue : x.msg = item.msg => x = item
    BY ZenonT(30) DEF Inv, Placed, Once, Apart, SentOnly
  <2> QED BY <1>1, <2>1 DEF InQueue, Inv, Placed, Once, Apart, SentOnly
<1>3. item.msg \in InQueue
  BY ZenonT(30) DEF InQueue
<1>4. item.msg \in MsgId /\ item.msg # NoMsg
  BY DEF Inv, TypeOK, MsgId, NoMsg
<1>5. Live /\ serving = NoMsg /\ InIncoming' = InIncoming
  BY Zenon, <1>1 DEF Live, Inv, Lane, InIncoming
<1> QED BY Zenon, <1>1, <1>2, <1>3, <1>4, <1>5 DEF Inv, Placed, Once, Apart, SentOnly

(* A message that is popped and answered at once is nowhere. *)
LEMMA InvPopAnswered ==
  ASSUME Inv, TypeOK', NEW item \in queue, Pop(item), pc' # "serving",
         NEW status \in Statuses \ {"none"}, NEW count, reply' = Reply(reply, {item.msg}, status, count),
         UNCHANGED <<held, serving, active, task, dropped>>,
         \A k \in MsgId \ {item.msg} : published'[k] = published[k]
  PROVE  Inv'
<1> DEFINE m == item.msg
<1>1. /\ Live /\ serving = NoMsg /\ pc = "dispatch"
      /\ InQueue' = InQueue \ {m} /\ InIncoming' = InIncoming
      /\ \A x, y \in queue' : x.msg = y.msg => x = y
      /\ UNCHANGED <<sent, request, incoming>>
      /\ m \in MsgId /\ m \in 1 .. sent /\ m # NoMsg
      /\ m \in InQueue /\ m \notin InIncoming /\ m \notin dropped /\ m \notin {held, serving, active}
  BY Zenon, PopFacts
<1>2. \A k \in MsgId : Answered(k)' <=> Answered(k) \/ k = m
  BY ReplyAnswers
<1> HIDE DEF m
<1>3. active = NoMsg \/ active \in MsgId
  BY Zenon, Numbers DEF Inv
<1>4. Placed'
  <2>1. \A k \in MsgId : k > sent => k # m
    BY Zenon, <1>1, Numbers DEF Inv
  <2>a. Once'
    BY Zenon, <1>1, <1>2, <2>1 DEF Inv, Placed, Once
  <2>b. Apart'
    BY Zenon, <1>1, <1>2, <2>1 DEF Inv, Placed, Apart
  <2>c. SentOnly'
    BY Zenon, <1>1, <1>2, <2>1 DEF Inv, Placed, SentOnly
  <2> QED BY Zenon, <2>a, <2>b, <2>c DEF Placed
<1>5. Lane'
  <2>1. held # NoMsg => held \in MsgId \ {m}
    BY Zenon, <1>1, Numbers DEF Inv
  <2> QED BY Zenon, <1>1, <1>2, <1>3, <2>1 DEF Inv, Lane, Replied, Finished, m
<1>6. Accounted'
  <2>1. Kept' = Kept \ {m}
    BY Zenon, <1>1, <1>2, <1>3 DEF Kept
  <2>2. \A k \in 1 .. sent : k \in MsgId
    BY Zenon, Numbers DEF Inv
  <2>3. ASSUME NEW k \in 1 .. sent
        PROVE  (k \in Kept' \cup dropped') <=> ~Answered(k)'
    <3>1. (k \in Kept \cup dropped) <=> ~Answered(k)
      BY Zenon DEF Inv, Accounted
    <3>2. Answered(k)' <=> Answered(k) \/ k = m
      BY Zenon, <1>2, <2>2
    <3> QED BY Zenon, <1>1, <2>1, <3>1, <3>2
  <2> QED BY ZenonT(30), <1>1, <2>3 DEF Accounted
<1>7. DropsOnlyHolds'
  BY Zenon, <1>1 DEF Inv, DropsOnlyHolds, TypeOK, m
<1> QED BY ZenonT(30), <1>4, <1>5, <1>6, <1>7 DEF Inv

(* Handling an item answers it, or moves it to one other place. *)
LEMMA InvHandleItem == ASSUME Inv, TypeOK', NEW item \in queue, HandleItem(item) PROVE Inv'
<1> USE DEF executionVars, historyVars
<1> DEFINE m == item.msg
<1>0. ASSUME Pop(item)
      PROVE  /\ Live /\ serving = NoMsg /\ pc = "dispatch"
             /\ InQueue' = InQueue \ {m} /\ InIncoming' = InIncoming
             /\ \A x, y \in queue' : x.msg = y.msg => x = y
             /\ UNCHANGED <<sent, request, incoming>>
             /\ m \in MsgId /\ m \in 1 .. sent /\ m # NoMsg
             /\ m \in InQueue /\ m \notin InIncoming /\ m \notin dropped /\ m \notin {held, serving, active}
  BY ZenonT(30), <1>0, PopFacts
<1>1. CASE HandleAtOnce(item)
  <2> DEFINE status == CASE request[m].type = "service" -> "error"
                         [] request[m].type = "other" -> "unanswered"
                         [] OTHER -> "ok"
  <2>1. /\ Pop(item) /\ reply' = Reply(reply, {item.msg}, status, NoCount) /\ pc' # "serving"
        /\ UNCHANGED <<held, serving, active, task, dropped>> /\ published' = published
    BY ZenonT(30), <1>1 DEF HandleAtOnce
  <2>2. status \in Statuses \ {"none"}
    BY ZenonT(30) DEF Statuses
  <2> HIDE DEF status
  <2> QED BY Zenon, <2>1, <2>2, InvPopAnswered
<1>2. CASE RefuseExecute(item)
  <2> DEFINE status == RefusalStatus
  <2>1. /\ Pop(item) /\ reply' = Reply(reply, {item.msg}, status, execution_count)
        /\ UNCHANGED <<held, serving, active, task, dropped>> /\ published' = [published EXCEPT ![m] = "idle"]
    BY Zenon, <1>2 DEF RefuseExecute
  <2>2. pc' # "serving"
    BY Zenon, <1>2 DEF RefuseExecute, Owe
  <2>3. status \in Statuses \ {"none"} /\ \A k \in MsgId \ {item.msg} : published'[k] = published[k]
    BY Zenon, <2>1 DEF Statuses, Inv, TypeOK, Published, RefusalStatus
  <2> HIDE DEF status
  <2> QED BY ZenonT(30), <2>1, <2>2, <2>3, InvPopAnswered
<1>3. CASE CallLanguage(item)
  <2>1. /\ Pop(item) /\ pc' = "serving" /\ serving' = m /\ UNCHANGED <<held, active, task, reply, dropped>>
        /\ \A k \in MsgId \ {m} : published'[k] = published[k]
    BY Zenon, <1>3 DEF CallLanguage, Inv, TypeOK, Published
  <2>2. \A k : Answered(k)' <=> Answered(k)
    BY ZenonT(30), <2>1 DEF Answered
  <2> HIDE DEF m
  <2>3. Placed'
    <3>1. Once'
      BY Zenon, <1>0, <2>1, <2>2 DEF Inv, Placed, Once
    <3>2. Apart'
      BY ZenonT(30), <1>0, <2>1, <2>2 DEF Inv, Placed, Apart
    <3>3. SentOnly'
      BY Zenon, <1>0, <2>1, <2>2 DEF Inv, Placed, SentOnly
    <3> QED BY Zenon, <3>1, <3>2, <3>3 DEF Placed
  <2>4. Lane' /\ DropsOnlyHolds'
    <3>1. held # NoMsg => held \in MsgId \ {m}
      BY Zenon, <1>0, <2>1, Numbers DEF Inv
    <3> QED BY Zenon, <1>0, <2>1, <2>2, <3>1 DEF Inv, Lane, DropsOnlyHolds, TypeOK
  <2>5. Accounted'
    <3>1. Kept' = Kept
      BY Zenon, <1>0, <2>1, <2>2 DEF Kept
    <3> QED BY Zenon, <1>0, <2>1, <2>2, <3>1 DEF Inv, Accounted
  <2> QED BY ZenonT(30), <2>3, <2>4, <2>5 DEF Inv
<1>4. CASE BeginHold(item)
  <2>1. /\ Pop(item) /\ pc' = "drain" /\ held' = m /\ UNCHANGED <<serving, active, task, reply>>
        /\ dropped' = dropped \cup ({held} \ {NoMsg}) /\ request[m].hold
        /\ published' = [published EXCEPT ![m] = "busy"]
    BY Zenon, <1>4 DEF BeginHold
  <2>2. published'[m] = "busy" /\ \A k \in MsgId \ {m} : published'[k] = published[k]
    BY Zenon, <1>0, <2>1 DEF Inv, TypeOK, Published
  <2>3. \A k : Answered(k)' <=> Answered(k)
    BY Zenon, <2>1 DEF Answered
  <2> HIDE DEF m
  <2>4. Placed'
    <3>1. Once'
      BY Zenon, <1>0, <2>1, <2>3 DEF Inv, Placed, Once
    <3>2. Apart'
      <4>1. Apart /\ serving = NoMsg /\ serving' = NoMsg
        BY Zenon, <1>0, <2>1 DEF Inv, Placed
      <4>2. /\ InIncoming' \cup InQueue' = (InIncoming \cup InQueue) \ {m}
            /\ m \notin InIncoming' \cup InQueue' /\ InIncoming' \cap InQueue' = {}
            /\ m # NoMsg /\ m \notin dropped \cup {held, serving, active}
        BY Zenon, <1>0, <2>1 DEF Inv, Placed, Apart
      <4>3. NoMsg \notin dropped'
        BY Zenon, <2>1, NoMsgNowhere
      <4>4. {held, serving, active}' \cap (InIncoming \cup InQueue)' = {}
        BY Zenon, <2>1, <4>1, <4>2 DEF Apart
      <4>5. (held # NoMsg => held # serving /\ held # active)' /\ (serving # NoMsg => serving # active)'
        BY Zenon, <2>1, <4>1, <4>2
      <4>6. dropped' \cap (InIncoming \cup InQueue)' = {}
        BY Zenon, <2>1, <4>1, <4>2 DEF Apart
      <4>7. dropped' \cap {held, serving, active}' = {}
        <5>1. m \notin dropped'
          BY Zenon, <2>1, <4>2
        <5>2. active \notin dropped'
          BY Zenon, <2>1, <4>1 DEF Apart
        <5> QED BY Zenon, <2>1, <4>1, <4>3, <5>1, <5>2
      <4> QED BY Zenon, <4>2, <4>4, <4>5, <4>6, <4>7 DEF Apart
    <3>3. SentOnly'
      BY Zenon, <1>0, <2>1, <2>3 DEF Inv, Placed, SentOnly
    <3> QED BY ZenonT(30), <3>1, <3>2, <3>3 DEF Placed
  <2>5. Lane'
    BY Zenon, <1>0, <2>1, <2>2, <2>3 DEF Inv, Lane
  <2>6. DropsOnlyHolds'
    <3>1. held # NoMsg => held \in MsgId \ {m} /\ request[held].hold /\ published[held] = "busy"
      BY Zenon, <1>0, <2>1, Numbers DEF Inv, Lane
    <3> QED BY Zenon, <1>0, <2>1, <2>2, <3>1 DEF Inv, DropsOnlyHolds, TypeOK
  <2>7. Accounted'
    <3>1. Kept' \cup dropped' = Kept \cup dropped
      BY Zenon, <1>0, <2>1, <2>3 DEF Kept
    <3> QED BY Zenon, <1>0, <2>1, <2>3, <3>1 DEF Inv, Accounted
  <2> QED BY Zenon, <2>4, <2>5, <2>6, <2>7 DEF Inv
<1>5. CASE StartExecution(item)
  <2>1. /\ Pop(item) /\ pc' = "drain" /\ active' = m /\ task' = "running" /\ UNCHANGED <<serving, held, reply>>
        /\ dropped' = dropped \cup {e \in {active} \ {NoMsg} : ~Answered(e)}
        /\ published' = [published EXCEPT ![m] = "busy"]
    BY Zenon, <1>5 DEF StartExecution
  <2>2. active = NoMsg
    BY Zenon, <1>5 DEF StartExecution, Pop, PopRunnable, Runnable
  <2>3. dropped' = dropped /\ \A k \in MsgId \ {m} : published'[k] = published[k]
    BY Zenon, <2>1, <2>2 DEF Inv, TypeOK, Published
  <2>4. (\A k : Answered(k)' <=> Answered(k)) /\ ~Answered(m)
    BY Zenon, <1>0, <2>1 DEF Answered, Inv, Accounted, Kept
  <2> HIDE DEF m
  <2>5. Placed'
    <3>1. Once'
      BY Zenon, <1>0, <2>1, <2>3, <2>4 DEF Inv, Placed, Once
    <3>2. Apart'
      <4>1. Apart /\ serving = NoMsg /\ serving' = NoMsg
        BY Zenon, <1>0, <2>1 DEF Inv, Placed
      <4>2. /\ InIncoming' \cup InQueue' = (InIncoming \cup InQueue) \ {m}
            /\ m \notin InIncoming' \cup InQueue' /\ InIncoming' \cap InQueue' = {}
            /\ m # NoMsg /\ m \notin dropped \cup {held, serving, active}
        BY Zenon, <1>0, <2>1 DEF Inv, Placed, Apart
      <4> QED BY Zenon, <2>1, <2>3, <4>1, <4>2 DEF Apart
    <3>3. SentOnly'
      BY Zenon, <1>0, <2>1, <2>3, <2>4 DEF Inv, Placed, SentOnly
    <3> QED BY ZenonT(30), <3>1, <3>2, <3>3 DEF Placed
  <2>6. Lane' /\ DropsOnlyHolds'
    <3>1. held # NoMsg => held \in MsgId \ {m}
      BY Zenon, <1>0, <2>1, Numbers DEF Inv
    <3> QED BY Zenon, <1>0, <2>1, <2>3, <2>4, <3>1 DEF Inv, Lane, DropsOnlyHolds, TypeOK, Replied, Finished
  <2>7. Accounted'
    <3>1. Kept' = Kept
      BY Zenon, <1>0, <2>1, <2>2, <2>4 DEF Kept
    <3> QED BY Zenon, <1>0, <2>1, <2>3, <2>4, <3>1 DEF Inv, Accounted
  <2> QED BY ZenonT(30), <2>5, <2>6, <2>7 DEF Inv
<1> QED BY Zenon, <1>1, <1>2, <1>3, <1>4, <1>5 DEF HandleItem

(* apply_control moves no message but the held one. *)
LEMMA InvApplyControl ==
  ASSUME Inv, TypeOK', NEW next \in {"drain", "controls"}, ApplyControl(next), pc \in {"controls", "select"}
  PROVE  Inv'
<1> USE DEF clientVars, outputVars, historyVars
<1> DEFINE control == Head(controls)
<1>1. /\ UNCHANGED <<sent, request, incoming, queue, serving, active, task, dropped>>
      /\ pc # "serving" /\ Live
  BY Zenon DEF ApplyControl, Live
<1>2. control \in Control
  BY ZenonT(30), HeadTailType DEF ApplyControl, Inv, TypeOK
<1>3. control.status \in Statuses \ {"none"} /\ "interrupted" \in Statuses \ {"none"}
  BY ZenonT(30), <1>2 DEF Control, Statuses
<1>4. ASSUME ApplyRelease(next) PROVE Inv'
  <2>1. pc' # "serving"
    BY Zenon, <1>4 DEF ApplyRelease, Owe
  <2>2. CASE held # NoMsg /\ held = control.msg
    <3>1. PICK count : FinishHold(control.status, count)
      BY Zenon, <1>4, <2>2 DEF ApplyRelease
    <3> HIDE DEF control
    <3> QED BY Zenon, <1>1, <1>3, <2>1, <3>1, InvFinishHold
  <2>3. CASE ~(held # NoMsg /\ held = control.msg)
    <3>1. UNCHANGED <<held, reply, published>>
      BY Zenon, <1>4, <2>3 DEF ApplyRelease
    <3> QED BY Zenon, <1>1, <2>1, <3>1, Frame
  <2> QED BY ZenonT(30), <2>2, <2>3
<1>5. ASSUME ApplyInterrupt(next) PROVE Inv'
  <2>1. FinishHold("interrupted", execution_count) /\ pc' # "serving"
    BY Zenon, <1>5 DEF ApplyInterrupt, Owe
  <2> QED BY Zenon, <1>1, <1>3, <2>1, InvFinishHold
<1>6. ASSUME ApplyStop(next) PROVE Inv'
  <2>1. UNCHANGED <<held, reply, published>> /\ pc' # "serving"
    BY Zenon, <1>6 DEF ApplyStop
  <2> QED BY ZenonT(30), <1>1, <2>1, Frame
<1> QED BY Zenon, <1>4, <1>5, <1>6 DEF ApplyControl

(* Each step of the scheduler keeps the invariant. *)
LEMMA InvScheduler == ASSUME Inv, TypeOK', Scheduler PROVE Inv'
<1> USE DEF clientVars, schedulerVars, executionVars, outputVars, historyVars, rest
<1>1. CASE Drain
  <2>1. /\ queue' = Enqueued /\ incoming' = <<>> /\ pc = "drain" /\ pc' = "controls" /\ Live
        /\ UNCHANGED <<sent, request, held, serving, active, task, reply, published, dropped>>
    BY ZenonT(30), <1>1 DEF Drain, Live
  <2>2. InIncoming' = {} /\ DOMAIN incoming' = {}
    BY Zenon, <2>1, EmptyChannel
  <2>3. {item.msg : item \in queue'} = InQueue \cup InIncoming
    BY Zenon, <2>1, EnqueuedOnce
  <2>4. \A x, y \in queue' : x.msg = y.msg => x = y
    BY ZenonT(30), <2>1, EnqueuedOnce
  <2> QED BY Zenon, <2>1, <2>2, <2>3, <2>4, InvEnqueue
<1>2. CASE Controls
  BY Zenon, <1>2, InvApplyControl DEF Controls
<1>3. CASE NoControls
  BY ZenonT(30), <1>3, Frame DEF NoControls, Live
<1>4. CASE Sweep
  BY ZenonT(30), <1>4, InvSweep
<1>5. ASSUME Fail PROVE Inv'
  <2>1. EndShell("failed") /\ dropped' = dropped \cup (Kept \ {}) /\ \A m : Answered(m)' <=> Answered(m)
    BY ZenonT(30), <1>5 DEF Fail, Answered
  <2>2. {} \in SUBSET {serving}
    BY ZenonT(30)
  <2> QED BY Zenon, <2>1, <2>2, InvEndShell
<1>6. CASE Reap
  BY Zenon, <1>6, InvExecutionDone DEF Reap
<1>7. CASE NothingToReap
  BY Zenon, <1>7, Frame DEF NothingToReap, Live
<1>8. ASSUME NEW next \in {"closing", "select"}, DispatchNothing(next) PROVE Inv'
  BY ZenonT(30), <1>8, Frame DEF DispatchNothing, Dispatch, Live
<1>9. CASE \E item \in queue : HandleItem(item)
  BY ZenonT(30), <1>9, InvHandleItem
<1>10. CASE ServiceDone("ok") \/ ServiceDone("error")
  BY ZenonT(30), <1>10, InvServiceDone
<1>11. CASE ServiceClosed
  <2>1. EndShell("failed") /\ dropped' = dropped \cup (Kept \ {serving}) /\ LanguageAnswers("closed")
    BY ZenonT(30), <1>11 DEF ServiceClosed
  <2>2. \A m \in MsgId : Answered(m)' <=> Answered(m) \/ m \in {serving}
    BY Zenon, <2>1, ServingAnswered
  <2> QED BY Zenon, <2>1, <2>2, InvEndShell
<1>12. CASE SelectIncoming
  <2> DEFINE m == Head(incoming)
  <2>1. /\ queue' = queue \cup {[msg |-> m, order |-> order]} /\ incoming' = Tail(incoming) /\ incoming # <<>>
        /\ pc = "select" /\ pc' = "drain" /\ Live
        /\ UNCHANGED <<sent, request, held, serving, active, task, reply, published, dropped>>
    BY Zenon, <1>12 DEF SelectIncoming, Live
  <2>2. /\ m \in InIncoming /\ InIncoming' = InIncoming \ {m}
        /\ \A i, j \in DOMAIN incoming' : incoming'[i] = incoming'[j] => i = j
    BY ZenonT(30), <2>1, InIncomingTail DEF Inv, Placed, Once, Apart, SentOnly
  <2>3. m \notin InQueue
    BY Zenon, <2>2 DEF Inv, Placed, Once, Apart, SentOnly
  <2> HIDE DEF m
  <2>4. {item.msg : item \in queue'} = InQueue \cup {m}
    <3>1. [msg |-> m, order |-> order] \in queue' /\ [msg |-> m, order |-> order].msg = m
      BY ZenonT(30), <2>1
    <3>2. \A item \in queue' : item \in queue \/ item.msg = m
      BY <2>1
    <3>3. queue \subseteq queue'
      BY Zenon, <2>1
    <3> QED BY ZenonT(30), <3>1, <3>2, <3>3 DEF InQueue
  <2>5. \A x, y \in queue' : x.msg = y.msg => x = y
    <3>1. \A x \in queue' : x \in queue \/ x = [msg |-> m, order |-> order]
      BY Zenon, <2>1
    <3>2. \A x \in queue : x.msg # m
      BY Zenon, <2>3 DEF InQueue
    <3>3. \A x, y \in queue : x.msg = y.msg => x = y
      BY Zenon DEF Inv, Placed, Once
    <3> QED BY <3>1, <3>2, <3>3
  <2>6. InIncoming \cap InQueue = {}
    BY ZenonT(30) DEF Inv, Placed, Once, Apart, SentOnly
  <2> QED BY Zenon, <2>1, <2>2, <2>3, <2>4, <2>5, <2>6, InvEnqueue
<1>13. CASE SelectControl
  BY ZenonT(30), <1>13, InvApplyControl DEF SelectControl
<1>14. CASE SelectDone
  BY ZenonT(30), <1>14, InvExecutionDone DEF SelectDone
<1>15. CASE HoldTimeout
  <2>1. /\ FinishHold("error", execution_count) /\ pc = "select" /\ pc' # "serving" /\ Live
        /\ UNCHANGED <<sent, request, incoming, queue, serving, active, task, dropped>>
    BY ZenonT(30), <1>15 DEF HoldTimeout, Owe, Live
  <2>2. "error" \in Statuses \ {"none"}
    BY ZenonT(30) DEF Statuses
  <2> QED BY Zenon, <2>1, <2>2, InvFinishHold
<1>16. CASE Close
  <2>1. EndShell("ended") /\ dropped' = dropped \cup (Kept \ {}) /\ \A m : Answered(m)' <=> Answered(m)
    BY ZenonT(30), <1>16 DEF Close, Answered
  <2>2. {} \in SUBSET {serving}
    BY ZenonT(30)
  <2> QED BY Zenon, <2>1, <2>2, InvEndShell
<1> QED
  BY Zenon, <1>1, <1>2, <1>3, <1>4, <1>5, <1>6, <1>7, <1>8, <1>9, <1>10, <1>11, <1>12, <1>13, <1>14, <1>15, <1>16
  DEF Scheduler, InterruptFails, ExecutionFailed, CloseFails, Stop, Wait

(* No step breaks the invariant. *)
LEMMA InvNext == ASSUME Inv, [Next]_vars PROVE Inv'
<1>1. TypeOK'
  <2>1. CASE UNCHANGED vars
    BY SMTT(20), <2>1 DEF Inv, TypeOK, vars, rest, clientVars, kernelVars, schedulerVars, executionVars, outputVars, historyVars
  <2> QED BY Zenon, <2>1, TypeOutside, TypeScheduler, TypeExecution DEF Next, Inv
<1>2. CASE Client
  BY Zenon, <1>1, <1>2, InvSend DEF Client
<1>3. CASE Kernel
  <2>1. UNCHANGED <<sent, request, incoming, queue, held, serving, active, task, reply, published, dropped, pc>>
    BY Zenon, <1>3 DEF Kernel, SendInterrupt, SendRelease, SendStop, SendControl, clientVars, schedulerVars,
                executionVars, outputVars, historyVars
  <2> QED BY ZenonT(30), <1>1, <2>1, Frame
<1>4. CASE UNCHANGED vars
  BY ZenonT(30), <1>1, <1>4, Frame DEF vars, rest, clientVars, schedulerVars, executionVars, outputVars, historyVars
<1> QED BY ZenonT(30), <1>1, <1>2, <1>3, <1>4, InvScheduler, InvExecution DEF Next

(* The invariant holds of every behaviour of the session. *)
THEOREM Invariance == Spec => []Inv
<1>1. Inv /\ [Next]_vars => Inv'
  BY ZenonT(30), InvNext
<1> QED BY <1>1, InvInit, PTL DEF Spec

(* No request is lost or answered twice: at every moment, each message     *)
(* that was routed to the session is answered, or kept in exactly the      *)
(* places the code keeps it, or was dropped.                               *)
THEOREM NothingLost == Spec => []Accounted
<1>1. Inv => Accounted
  BY ZenonT(30) DEF Inv
<1> QED BY <1>1, Invariance, PTL

(* As long as the session runs, it drops nothing but a hold that a hold of *)
(* higher priority replaced.                                               *)
THEOREM OnlyHoldsDropped == Spec => []DropsOnlyHolds
<1>1. Inv => DropsOnlyHolds
  BY ZenonT(30) DEF Inv
<1> QED BY <1>1, Invariance, PTL

-----------------------------------------------------------------------------
(* What the scheduler owes to clients: order, interrupts, stop on error.   *)
(* A second invariant, on top of the first.                                *)

(* Arrival is the order of the channel, of the queue, and of both. *)
Line ==
  /\ \A i, j \in DOMAIN incoming : i < j => incoming[i] < incoming[j]
  /\ \A x, y \in queue : x.order < y.order <=> x.msg < y.msg
  /\ \A x \in queue : x.order < order
  /\ \A x \in queue, m \in InIncoming : x.msg < m

(* What waits has not begun; only executes are held or run. *)
Fresh ==
  /\ \A m \in InIncoming \cup InQueue : published[m] = "none"
  /\ \A m \in MsgId : m > sent => published[m] = "none"
  /\ held # NoMsg => Execute(held)
  /\ serving # NoMsg => ~Execute(serving)
  /\ active # NoMsg => Execute(active) /\ Began(active)
  /\ task \in Replied \cup Finished => reply[active].status \in {"ok", "error"}

(* `interrupting` speaks of the active execution, and what an abort is     *)
(* blamed on has been answered and was not interrupted.                    *)
Blameless(c) == c = NoMsg \/ (c \in 1 .. sent /\ Answered(c) /\ c # active /\ c \notin requested)
Blame ==
  /\ active # NoMsg => (interrupting <=> active \in requested)
  /\ \A m \in requested : m \in 1 .. sent /\ (m = active \/ Answered(m) \/ m \in dropped)
  /\ \A m \in MsgId : Blameless(cause[m])
  /\ pc = "sweep" => Blameless(sweep.cause)
  /\ \A m \in MsgId : m \in 1 .. sent /\ reply[m].status = "interrupted" => request[m].hold

(* An interrupt speaks of what was sent before it, and before its sweep no *)
(* hold is left and the active execution was told.                         *)
Uptos == \A i \in DOMAIN controls : controls[i].upto <= sent
Reach ==
  /\ swept <= sent
  /\ pc = "sweep" => /\ sweep.upto <= sent
                     /\ sweep.upto > 0 => held = NoMsg /\ (active = NoMsg \/ active \in requested)
  /\ InterruptReachesAll

(* What a failure dooms waits, with the abort still to come, or is over.   *)
Pending ==
  \/ pc = "sweep"
  \/ task \in {"error", "done_error"} /\ request[active].stop_on_error /\ active \notin requested
Doom ==
  \A m \in doomed : /\ m \in 1 .. sent /\ Execute(m) /\ m # active /\ m # held /\ ~Began(m)
                    /\ Answered(m) \/ m \in dropped \/ Pending

(* A session that closes for a Stop has nothing left but its channel. *)
Closing ==
  (pc = "closing" /\ ~ShutdownAsked) => queue = {} /\ active = NoMsg /\ held = NoMsg /\ serving = NoMsg

Deep == Line /\ Fresh /\ InOrder /\ Blame /\ Reach /\ Doom /\ Closing

-----------------------------------------------------------------------------
(* The kinds of steps, by what they do to the messages. *)

(* Nothing happens to a message. *)
Calm ==
  /\ UNCHANGED <<sent, request, incoming, queue, order, held, serving, active, requested, reply, published,
                 cause, dropped, swept, doomed>>
  /\ active # NoMsg => interrupting' = interrupting
  /\ pc' = "sweep" <=> pc = "sweep"
  /\ pc = "sweep" => sweep' = sweep
  /\ task' = task \/ (task = "running" /\ task' = "crashed")
  /\ pc' = "closing" => pc = "closing" \/ CanStop

(* A request enters the channel. *)
Sends ==
  /\ sent' = sent + 1 /\ sent + 1 \in MsgId /\ incoming' = Append(incoming, sent + 1)
  /\ \A k \in MsgId : k # sent + 1 => request'[k] = request[k]
  /\ UNCHANGED <<pc, sweep, queue, order, held, serving, interrupting, active, task, requested, reply, published,
                 cause, dropped, swept, doomed>>

(* The channel, or its first request, enters the queue. *)
Takes ==
  /\ \/ queue' = Enqueued /\ order' = order + Len(incoming) /\ incoming' = <<>>
     \/ /\ incoming # <<>> /\ incoming' = Tail(incoming) /\ order' = order + 1
        /\ queue' = queue \cup {[msg |-> Head(incoming), order |-> order]}
  /\ UNCHANGED <<sent, request, held, serving, interrupting, active, task, requested, reply, published,
                 cause, dropped, swept, doomed>>
  /\ pc # "sweep" /\ pc' \notin {"sweep", "closing"}

(* The hold, if there is one, is answered. *)
HoldEnds(status) ==
  /\ \A k \in MsgId : /\ k # held => reply'[k] = reply[k] /\ published'[k] = published[k]
                      /\ k = held => reply'[k].status = status /\ published'[k] = "idle"
  /\ held' = NoMsg
  /\ UNCHANGED <<sent, request, incoming, queue, order, serving, active, task, cause, dropped, swept, doomed>>
  /\ pc # "sweep" /\ pc' # "closing"

(* ... by a release or by the timer, *)
Releases ==
  /\ HoldEnds("ok") \/ HoldEnds("error")
  /\ held # NoMsg
  /\ UNCHANGED <<requested, interrupting>>
  /\ pc' = "sweep" => sweep'.cause = held /\ sweep'.upto = 0

(* ... or by an interrupt. *)
Interrupts ==
  /\ HoldEnds("interrupted")
  /\ interrupting'
  /\ requested' = requested \cup ({active} \ {NoMsg})
  /\ controls # <<>> /\ pc' = "sweep" /\ sweep'.cause = NoMsg /\ sweep'.upto = Head(controls).upto

(* The scheduler joins the task. *)
Joins ==
  /\ task \in Finished /\ active' = NoMsg /\ task' = "none"
  /\ AbortsPending => pc' = "sweep" /\ sweep'.cause = active /\ sweep'.upto = 0
  /\ ~AbortsPending => pc' # "sweep"
  /\ UNCHANGED <<sent, request, incoming, queue, order, held, serving, interrupting, requested, reply, published,
                 cause, dropped, swept, doomed>>
  /\ pc # "sweep" /\ pc' # "closing"

(* The session ends; a language call may be answered. *)
Ends ==
  /\ pc' \in {"ended", "failed"} /\ incoming' = <<>> /\ queue' = {} /\ held' = NoMsg /\ serving' = NoMsg
  /\ active' = NoMsg /\ task' = "none"
  /\ UNCHANGED <<sent, request, order, requested, cause, swept, doomed>>
  /\ dropped \subseteq dropped'
  /\ \A k \in MsgId : /\ k # serving => reply'[k] = reply[k] /\ published'[k] = published[k]
                      /\ k = serving => reply'[k].status # "interrupted" /\ Answered(k)'

(* An item leaves the queue ... *)
Pops(item) ==
  /\ item \in queue /\ PopRunnable(item) /\ queue' = queue \ {item} /\ pc = "dispatch"
  /\ interrupting' = StillInterrupting
  /\ UNCHANGED <<sent, request, incoming, order, requested, cause, swept, doomed>>
  /\ \A k \in MsgId : k # item.msg => reply'[k] = reply[k] /\ published'[k] = published[k]

(* ... and is not an execute, *)
Serves(item) ==
  /\ Pops(item) /\ ~Execute(item.msg)
  /\ UNCHANGED <<held, active, task, dropped>>
  /\ serving' \in {serving, item.msg}
  /\ reply'[item.msg].status # "interrupted"
  /\ pc' # "sweep"
  /\ pc' = "closing" => request[item.msg].type = "shutdown" /\ Answered(item.msg)'

(* ... or is refused, *)
Refuses(item) ==
  /\ Pops(item) /\ Execute(item.msg)
  /\ UNCHANGED <<held, serving, active, task, dropped>>
  /\ reply'[item.msg].status = "error"
  /\ pc' = "sweep" /\ sweep'.cause = item.msg /\ sweep'.upto = 0

(* ... or becomes the hold, *)
Holds(item) ==
  /\ Pops(item) /\ Execute(item.msg)
  /\ held' = item.msg /\ dropped' = dropped \cup ({held} \ {NoMsg})
  /\ UNCHANGED <<serving, active, task, reply>>
  /\ pc' \notin {"sweep", "closing"}

(* ... or the active execution. *)
Starts(item) ==
  /\ Pops(item) /\ Execute(item.msg)
  /\ active' = item.msg /\ task' = "running" /\ published'[item.msg] = "busy"
  /\ UNCHANGED <<held, serving, dropped, reply>>
  /\ pc' \notin {"sweep", "closing"}

(* A language call is answered. *)
Answers ==
  /\ pc = "serving" /\ pc' = "drain" /\ serving' = NoMsg
  /\ \A k \in MsgId : /\ k # serving => reply'[k] = reply[k] /\ published'[k] = published[k]
                      /\ k = serving => reply'[k].status # "interrupted" /\ Answered(k)'
  /\ UNCHANGED <<sent, request, incoming, queue, order, held, interrupting, active, task, requested,
                 cause, dropped, swept, doomed>>

(* The active execution is answered, and dooms what waits when it fails. *)
Reports ==
  /\ task = "running" /\ task' \in Replied
  /\ \A k \in MsgId : /\ k # active => reply'[k] = reply[k]
                      /\ k = active => reply'[k].status \in {"ok", "error"}
  /\ \/ doomed' = doomed
     \/ /\ task' = "error" /\ request[active].stop_on_error /\ active \notin requested
        /\ doomed' = doomed \cup Waiting
  /\ UNCHANGED <<sent, request, incoming, queue, order, held, serving, interrupting, active, requested, published,
                 cause, dropped, swept, pc, sweep>>

(* The task publishes idle and returns. *)
Idles ==
  /\ task \in Replied /\ (task = "error" => task' = "done_error") /\ task' \in Finished \cup {"crashed"}
  /\ \A k \in MsgId : k # active => published'[k] = published[k]
  /\ UNCHANGED <<sent, request, incoming, queue, order, held, serving, interrupting, active, requested, reply,
                 cause, dropped, swept, doomed, pc, sweep>>

(* A popped item runs, is held, is refused or is served. *)
LEMMA ItemKinds ==
  ASSUME Inv, NEW item \in queue, HandleItem(item)
  PROVE  Serves(item) \/ Refuses(item) \/ Holds(item) \/ Starts(item)
<1> USE DEF clientVars, executionVars, historyVars
<1> DEFINE m == item.msg
<1>0. m \in MsgId
  BY ZenonT(30) DEF Inv, TypeOK
<1>1. ASSUME Pop(item)
      PROVE  /\ PopRunnable(item) /\ queue' = queue \ {item} /\ pc = "dispatch"
             /\ interrupting' = StillInterrupting /\ UNCHANGED <<sent, request, incoming, order>>
  BY ZenonT(30), <1>1 DEF Pop, Dispatch
<1>2. published \in [MsgId -> {"none", "busy", "idle"}]
  BY ZenonT(30) DEF Inv, TypeOK, Published
<1>3. ASSUME NEW status, NEW count, reply' = Reply(reply, {m}, status, count)
      PROVE  reply'[m].status = status /\ \A k \in MsgId : k # m => reply'[k] = reply[k]
  BY ZenonT(30), <1>0, <1>3 DEF Reply
<1>4. \A v : published' = [published EXCEPT ![m] = v] =>
               published'[m] = v /\ \A k \in MsgId : k # m => published'[k] = published[k]
  BY ZenonT(30), <1>0, <1>2
<1> HIDE DEF m
<1>5. CASE HandleAtOnce(item)
  <2>1. PICK status \in {"error", "unanswered", "ok"} :
          /\ request[m].type \in {"plain", "other", "shutdown"} \/ (~Execute(m) /\ MissingFields(m))
          /\ Pop(item) /\ reply' = Reply(reply, {m}, status, NoCount)
          /\ pc' = IF request[m].type = "shutdown" THEN "closing" ELSE "drain"
          /\ UNCHANGED <<held, serving, active, task, requested, published, cause, swept, doomed, dropped>>
    BY ZenonT(30), <1>5 DEF HandleAtOnce, m
  <2>2. status # "interrupted" /\ status # "none" /\ pc' # "sweep" /\ (pc' = "closing" => request[m].type = "shutdown")
    BY ZenonT(30), <2>1
  <2>3. ~Execute(m)
    BY ZenonT(30), <2>1 DEF Execute
  <2>4. Answered(m)' /\ reply'[m].status # "interrupted"
    BY ZenonT(30), <1>3, <2>1, <2>2 DEF Answered
  <2> QED BY ZenonT(30), <1>1, <1>3, <2>1, <2>2, <2>3, <2>4 DEF Serves, Pops, m
<1>6. CASE CallLanguage(item)
  <2>1. /\ request[m].type \in {"service", "comm_info", "comm"} /\ Pop(item) /\ pc' = "serving" /\ serving' = m
        /\ published' = [published EXCEPT ![m] = IF request[m].type = "service" THEN "busy" ELSE published[m]]
        /\ UNCHANGED <<held, active, task, requested, reply, cause, swept, doomed, dropped>>
    BY ZenonT(30), <1>6 DEF CallLanguage, m
  <2>2. ~Execute(m) /\ pc' # "sweep" /\ pc' # "closing"
    BY ZenonT(30), <2>1 DEF Execute
  <2>3. reply[m].status # "interrupted"
    <3>1. ~Answered(m)
      BY ZenonT(30), <1>1, <2>1, PopFacts DEF Inv, Accounted, Kept, m
    <3> QED BY ZenonT(30), <3>1 DEF Answered
  <2> QED BY ZenonT(30), <1>1, <1>4, <2>1, <2>2, <2>3 DEF Serves, Pops, m
<1>7. ASSUME Execute(m), Pop(item) PROVE active = NoMsg /\ ~StillInterrupting
  BY ZenonT(30), <1>7 DEF Pop, PopRunnable, Runnable, StillInterrupting, m
<1>8. CASE RefuseExecute(item)
  <2>1. /\ Execute(m) /\ Pop(item) /\ reply' = Reply(reply, {m}, "error", execution_count)
        /\ published' = [published EXCEPT ![m] = "idle"] /\ Owe(m, "drain", FALSE, 0)
        /\ UNCHANGED <<held, serving, active, task, requested, cause, swept, doomed, dropped>>
    <3>1. Execute(m) /\ Pop(item)
      BY ZenonT(30), <1>8 DEF RefuseExecute, m
    <3>2. ~StillInterrupting
      BY ZenonT(30), <1>7, <3>1
    <3> QED BY ZenonT(30), <1>8, <3>1, <3>2 DEF RefuseExecute, RefusalStatus, m
  <2>2. pc' = "sweep" /\ sweep'.cause = m /\ sweep'.upto = 0
    BY ZenonT(30), <2>1 DEF Owe
  <2>3. reply'[m].status = "error" /\ \A k \in MsgId : k # m => reply'[k] = reply[k]
    BY ZenonT(30), <1>3, <2>1
  <2>4. \A k \in MsgId : k # m => published'[k] = published[k]
    BY ZenonT(30), <1>4, <2>1
  <2> QED BY ZenonT(30), <1>1, <2>1, <2>2, <2>3, <2>4 DEF Refuses, Pops, m
<1>9. CASE BeginHold(item)
  <2>1. /\ Execute(m) /\ Pop(item) /\ held' = m /\ dropped' = dropped \cup ({held} \ {NoMsg})
        /\ published' = [published EXCEPT ![m] = "busy"] /\ pc' = "drain"
        /\ UNCHANGED <<serving, active, task, requested, reply, cause, swept, doomed>>
    BY ZenonT(30), <1>9 DEF BeginHold, m
  <2>2. \A k \in MsgId : k # m => published'[k] = published[k]
    BY ZenonT(30), <1>4, <2>1
  <2> QED BY ZenonT(30), <1>1, <2>1, <2>2 DEF Holds, Pops, m
<1>10. CASE StartExecution(item)
  <2>1. /\ Execute(m) /\ Pop(item) /\ active' = m /\ task' = "running"
        /\ dropped' = dropped \cup {e \in {active} \ {NoMsg} : ~Answered(e)}
        /\ published' = [published EXCEPT ![m] = "busy"] /\ pc' = "drain"
        /\ UNCHANGED <<held, serving, requested, reply, cause, swept, doomed>>
    BY ZenonT(30), <1>10 DEF StartExecution, m
  <2>2. dropped' = dropped
    BY ZenonT(30), <1>7, <2>1
  <2>3. published'[m] = "busy" /\ \A k \in MsgId : k # m => published'[k] = published[k]
    BY ZenonT(30), <1>4, <2>1
  <2> QED BY ZenonT(30), <1>1, <2>1, <2>2, <2>3 DEF Starts, Pops, m
<1> QED BY ZenonT(30), <1>5, <1>6, <1>8, <1>9, <1>10 DEF HandleItem

(* finish_hold answers the held request and no other. *)
LEMMA HoldKind ==
  ASSUME Inv, NEW status, NEW count, FinishHold(status, count)
  PROVE  /\ \A k \in MsgId : /\ k # held => reply'[k] = reply[k] /\ published'[k] = published[k]
                             /\ k = held => reply'[k].status = status /\ published'[k] = "idle"
         /\ held' = NoMsg /\ cause' = cause
<1>1. /\ reply' = Reply(reply, {held} \ {NoMsg}, status, count) /\ held' = NoMsg /\ cause' = cause
      /\ published' = [m \in MsgId |-> IF m = held THEN "idle" ELSE published[m]]
  BY ZenonT(30) DEF FinishHold
<1>2. \A m \in MsgId : m # NoMsg
  BY ZenonT(30), Numbers DEF Inv
<1>3. \A k \in MsgId : (k # held => reply'[k] = reply[k]) /\ (k = held => reply'[k].status = status)
  BY ZenonT(30), <1>1, <1>2 DEF Reply
<1>4. \A k \in MsgId : (k # held => published'[k] = published[k]) /\ (k = held => published'[k] = "idle")
  BY ZenonT(30), <1>1
<1> QED BY ZenonT(30), <1>1, <1>3, <1>4

(* A control ends the hold, or moves no message. *)
LEMMA ControlKinds ==
  ASSUME Inv, NEW next \in {"drain", "controls"}, ApplyControl(next), pc \in {"controls", "select"}
  PROVE  Calm \/ Releases \/ Interrupts
<1> USE DEF clientVars, outputVars, historyVars
<1> DEFINE control == Head(controls)
<1>1. /\ UNCHANGED <<sent, request, incoming, queue, order, serving, active, task, swept, doomed, dropped>>
      /\ controls # <<>> /\ (ApplyRelease(next) \/ ApplyInterrupt(next) \/ ApplyStop(next))
  BY ZenonT(30) DEF ApplyControl
<1>2. pc # "sweep" /\ pc # "closing" /\ next # "sweep" /\ next # "closing" /\ "sweep" # "closing"
  BY ZenonT(30)
<1>3. control \in Control
  BY ZenonT(30), HeadTailType DEF ApplyControl, Inv, TypeOK
<1>4. control.status \in {"ok", "error"}
  BY ZenonT(30), <1>3 DEF Control
<1>5. CASE ApplyRelease(next)
  <2>1. CASE held # NoMsg /\ held = control.msg
    <3>1. /\ \E count : FinishHold(control.status, count)
          /\ UNCHANGED <<interrupting, requested>>
          /\ Owe(held, next, TRUE, 0) \/ pc' = next
      BY ZenonT(30), <1>5, <2>1 DEF ApplyRelease
    <3>2. Owe(held, next, TRUE, 0) => pc' = "sweep" /\ sweep'.cause = held /\ sweep'.upto = 0
      BY DEF Owe
    <3>3. pc' # "closing" /\ (pc' = "sweep" => sweep'.cause = held /\ sweep'.upto = 0)
      BY ZenonT(30), <1>2, <3>1, <3>2
    <3> HIDE DEF control
    <3>4. HoldEnds(control.status)
      <4>1. PICK count : FinishHold(control.status, count)
        BY ZenonT(30), <3>1
      <4> QED BY ZenonT(30), <1>1, <1>2, <3>3, <4>1, HoldKind DEF HoldEnds
    <3> QED BY ZenonT(30), <1>4, <2>1, <3>1, <3>3, <3>4 DEF Releases
  <2>2. CASE ~(held # NoMsg /\ held = control.msg)
    <3>1. UNCHANGED <<held, reply, published, cause, interrupting, requested, sweep>> /\ pc' = next
      BY ZenonT(30), <1>5, <2>2 DEF ApplyRelease
    <3> QED BY ZenonT(30), <1>1, <1>2, <3>1 DEF Calm
  <2> QED BY ZenonT(30), <2>1, <2>2
<1>6. CASE ApplyInterrupt(next)
  <2>1. /\ interrupting' = TRUE /\ requested' = requested \cup ({active} \ {NoMsg})
        /\ FinishHold("interrupted", execution_count) /\ Owe(NoMsg, next, FALSE, control.upto)
    BY ZenonT(30), <1>6 DEF ApplyInterrupt
  <2>2. pc' = "sweep" /\ sweep'.cause = NoMsg /\ sweep'.upto = control.upto
    BY ZenonT(30), <2>1 DEF Owe
  <2>3. HoldEnds("interrupted")
    BY ZenonT(30), <1>1, <1>2, <2>1, <2>2, HoldKind DEF HoldEnds
  <2> QED BY ZenonT(30), <1>1, <2>1, <2>2, <2>3 DEF Interrupts
<1>7. CASE ApplyStop(next)
  <2>1. UNCHANGED <<held, reply, published, cause, interrupting, requested, sweep>> /\ pc' = next
    BY ZenonT(30), <1>7 DEF ApplyStop
  <2> QED BY ZenonT(30), <1>1, <1>2, <2>1 DEF Calm
<1> QED BY ZenonT(30), <1>1, <1>5, <1>6, <1>7

(* The end of the session, for whatever reason. *)
LEMMA EndKind ==
  ASSUME Inv, NEW how \in {"ended", "failed"}, EndShell(how), dropped \subseteq dropped', cause' = cause,
         \A k \in MsgId : /\ k # serving => reply'[k] = reply[k] /\ published'[k] = published[k]
                          /\ k = serving => reply'[k].status # "interrupted" /\ Answered(k)'
  PROVE  Ends
  BY ZenonT(30) DEF EndShell, Ends, clientVars

(* The language's answer goes to the message that it was called for. *)
LEMMA AnswerKind ==
  ASSUME Inv, NEW result \in {"ok", "error", "closed"}, LanguageAnswers(result)
  PROVE  /\ pc = "serving" /\ cause' = cause
         /\ \A k \in MsgId : /\ k # serving => reply'[k] = reply[k] /\ published'[k] = published[k]
                             /\ k = serving => reply'[k].status # "interrupted" /\ Answered(k)'
<1>1. PICK status \in {"unanswered", "ok", "error"} :
        /\ pc = "serving" /\ cause' = cause /\ reply' = Reply(reply, {serving}, status, NoCount)
        /\ \E v : published' = [published EXCEPT ![serving] = v]
  <2>1. /\ pc = "serving" /\ cause' = cause
        /\ reply' = Reply(reply, {serving}, IF request[serving].type = "comm" THEN "unanswered"
                                           ELSE IF result = "ok" THEN "ok" ELSE "error", NoCount)
        /\ published' = [published EXCEPT ![serving] =
                           IF result # "ok" \/ request[serving].type = "service" THEN "idle" ELSE published[serving]]
    BY ZenonT(30) DEF LanguageAnswers
  <2>2. (IF request[serving].type = "comm" THEN "unanswered" ELSE IF result = "ok" THEN "ok" ELSE "error")
          \in {"unanswered", "ok", "error"}
    BY ZenonT(30)
  <2> QED BY ZenonT(30), <2>1, <2>2
<1>2. published \in [MsgId -> {"none", "busy", "idle"}]
  BY ZenonT(30) DEF Inv, TypeOK, Published
<1>3. \A k \in MsgId : k # serving => published'[k] = published[k]
  BY ZenonT(30), <1>1, <1>2
<1>4. \A k \in MsgId : (k # serving => reply'[k] = reply[k]) /\ (k = serving => reply'[k].status = status)
  BY ZenonT(30), <1>1 DEF Reply
<1>5. status # "interrupted" /\ status # "none"
  BY ZenonT(30)
<1> QED BY ZenonT(30), <1>1, <1>3, <1>4, <1>5 DEF Answered

(* The steps of the scheduler. *)
LEMMA SchedulerKinds ==
  ASSUME Inv, Scheduler
  PROVE  \/ Calm \/ Takes \/ Sweep \/ Releases \/ Interrupts \/ Joins \/ Ends \/ Answers
         \/ \E item \in queue : Serves(item) \/ Refuses(item) \/ Holds(item) \/ Starts(item)
<1> USE DEF clientVars, kernelVars, schedulerVars, executionVars, outputVars, historyVars, rest
<1>0. /\ "drain" # "sweep" /\ "controls" # "sweep" /\ "reap" # "sweep" /\ "dispatch" # "sweep" /\ "select" # "sweep"
      /\ "drain" # "closing" /\ "controls" # "closing" /\ "reap" # "closing" /\ "dispatch" # "closing"
      /\ "select" # "closing" /\ "sweep" # "closing"
  BY ZenonT(30)
<1>1. CASE Drain
  BY ZenonT(30), <1>0, <1>1 DEF Drain, Takes
<1>2. CASE Controls
  BY ZenonT(30), <1>2, ControlKinds DEF Controls
<1>3. CASE NoControls
  BY ZenonT(30), <1>0, <1>3 DEF NoControls, Calm
<1>4. ASSUME Fail, pc # "serving" PROVE Ends
  <2>1. EndShell("failed") /\ dropped \subseteq dropped' /\ UNCHANGED <<reply, published, cause>>
    BY ZenonT(30), <1>4 DEF Fail
  <2>2. serving = NoMsg /\ \A k \in MsgId : k # NoMsg
    BY ZenonT(30), <1>4, Numbers DEF Inv, Lane
  <2> QED BY ZenonT(30), <2>1, <2>2, EndKind
<1>5. ASSUME NEW next \in {"drain", "dispatch"}, pc \in {"reap", "select"}, ExecutionDone(next) PROVE Joins
  <2>1. /\ task \in Finished /\ active' = NoMsg /\ task' = "none"
        /\ UNCHANGED <<sent, request, incoming, queue, order, held, serving, interrupting, requested, reply, published,
                       cause, dropped, swept, doomed>>
        /\ AbortsPending => Owe(active, next, FALSE, 0)
        /\ ~AbortsPending => pc' = next
    BY ZenonT(30), <1>5 DEF ExecutionDone
  <2>2. AbortsPending => pc' = "sweep" /\ sweep'.cause = active /\ sweep'.upto = 0
    BY <2>1 DEF Owe
  <2>3. pc # "sweep" /\ next # "sweep" /\ next # "closing"
    BY ZenonT(30), <1>5
  <2> QED BY ZenonT(30), <1>0, <2>1, <2>2, <2>3 DEF Joins
<1>6. CASE NothingToReap
  BY ZenonT(30), <1>0, <1>6 DEF NothingToReap, Calm
<1>7. ASSUME NEW next \in {"closing", "select"}, next = "closing" => CanStop, DispatchNothing(next) PROVE Calm
  <2>1. /\ pc = "dispatch" /\ pc' = next /\ interrupting' = StillInterrupting
        /\ UNCHANGED <<sent, request, incoming, queue, order, held, serving, active, task, requested, reply, published,
                       cause, dropped, swept, doomed>>
    BY ZenonT(30), <1>7 DEF DispatchNothing, Dispatch
  <2>2. active # NoMsg => interrupting' = interrupting
    <3>1. interrupting \in BOOLEAN
      BY ZenonT(30) DEF Inv, TypeOK
    <3> QED BY ZenonT(30), <2>1, <3>1 DEF StillInterrupting
  <2>3. next # "sweep"
    BY ZenonT(30), <1>0, <1>7
  <2> QED BY ZenonT(30), <1>0, <1>7, <2>1, <2>2, <2>3 DEF Calm
<1>8. ASSUME InterruptFails \/ ExecutionFailed \/ CloseFails PROVE Fail /\ pc # "serving"
  <2>1. Fail /\ pc \in {"controls", "select", "reap", "closing"}
    BY ZenonT(30), <1>8 DEF InterruptFails, ExecutionFailed, CloseFails
  <2> QED BY ZenonT(30), <2>1
<1>9. CASE \E item \in queue : HandleItem(item)
  BY ZenonT(30), <1>9, ItemKinds
<1>10. ASSUME NEW result \in {"ok", "error"}, ServiceDone(result) PROVE Answers
  <2>1. /\ LanguageAnswers(result) /\ pc' = "drain" /\ serving' = NoMsg
        /\ UNCHANGED <<sent, request, incoming, queue, order, held, interrupting, active, task, requested,
                       dropped, swept, doomed>>
    BY ZenonT(30), <1>10 DEF ServiceDone
  <2> QED BY ZenonT(30), <2>1, AnswerKind DEF Answers
<1>11. CASE ServiceClosed
  <2>1. EndShell("failed") /\ dropped \subseteq dropped' /\ LanguageAnswers("closed")
    BY ZenonT(30), <1>11 DEF ServiceClosed
  <2> QED BY ZenonT(30), <2>1, AnswerKind, EndKind
<1>12. CASE SelectIncoming
  BY ZenonT(30), <1>0, <1>12 DEF SelectIncoming, Takes
<1>13. CASE SelectControl
  BY ZenonT(30), <1>13, ControlKinds DEF SelectControl
<1>14. CASE HoldTimeout
  <2>1. /\ pc = "select" /\ held # NoMsg /\ FinishHold("error", execution_count) /\ Owe(held, "drain", FALSE, 0)
        /\ UNCHANGED <<sent, request, incoming, queue, order, serving, interrupting, active, task, requested,
                       dropped, swept, doomed>>
    BY ZenonT(30), <1>14 DEF HoldTimeout
  <2>2. pc' = "sweep" /\ sweep'.cause = held /\ sweep'.upto = 0
    BY ZenonT(30), <2>1 DEF Owe
  <2>3. HoldEnds("error")
    BY ZenonT(30), <1>0, <2>1, <2>2, HoldKind DEF HoldEnds
  <2> QED BY ZenonT(30), <2>1, <2>2, <2>3 DEF Releases
<1>15. CASE Close
  <2>1. EndShell("ended") /\ dropped \subseteq dropped' /\ UNCHANGED <<reply, published, cause>> /\ pc = "closing"
    BY ZenonT(30), <1>15 DEF Close
  <2>2. serving = NoMsg /\ \A k \in MsgId : k # NoMsg
    <3>1. "closing" # "serving"
      BY ZenonT(30)
    <3> QED BY ZenonT(30), <2>1, <3>1, Numbers DEF Inv, Lane
  <2> QED BY ZenonT(30), <2>1, <2>2, EndKind
<1> QED
  BY ZenonT(30), <1>1, <1>2, <1>3, <1>4, <1>5, <1>6, <1>7, <1>8, <1>9, <1>10, <1>11, <1>12, <1>13, <1>14, <1>15
  DEF Scheduler, Stop, Wait, Reap, SelectDone

(* The steps of the execution task. *)
LEMMA ExecutionKinds ==
  ASSUME Inv, Execution
  PROVE  Calm \/ Reports \/ Idles
<1> USE DEF clientVars, kernelVars, schedulerVars, executionVars, outputVars, historyVars
<1>1. ASSUME NEW result \in {"ok", "error", "closed"}, ExecutionReplies(result) PROVE Reports
  <2>1. PICK status \in {"ok", "error"} :
          /\ task = "running" /\ task' = result /\ reply' = Reply(reply, {active}, status, execution_count)
          /\ UNCHANGED <<sent, request, incoming, queue, order, held, serving, interrupting, active, requested, published,
                         cause, dropped, swept, pc, sweep>>
    <3>1. (IF result = "ok" THEN "ok" ELSE "error") \in {"ok", "error"}
      BY ZenonT(30)
    <3> QED BY ZenonT(30), <1>1, <3>1 DEF ExecutionReplies, CellEnds
  <2>2. \/ doomed' = doomed
        \/ /\ result = "error" /\ request[active].stop_on_error /\ active \notin requested
           /\ doomed' = doomed \cup Waiting
    BY ZenonT(30), <1>1 DEF ExecutionReplies
  <2>3. \A k \in MsgId : (k # active => reply'[k] = reply[k]) /\ (k = active => reply'[k].status = status)
    BY ZenonT(30), <2>1 DEF Reply
  <2>4. task' \in Replied
    BY ZenonT(30), <2>1 DEF Replied
  <2> QED BY ZenonT(30), <2>1, <2>2, <2>3, <2>4 DEF Reports
<1>2. CASE ExecutionPanics
  BY ZenonT(30), <1>2 DEF ExecutionPanics, Calm
<1>3. CASE ExecutionIdle
  <2>1. /\ task \in Replied /\ published' = [published EXCEPT ![active] = "idle"]
        /\ task' = IF task = "closed" THEN "crashed" ELSE IF task = "ok" THEN "done_ok" ELSE "done_error"
        /\ UNCHANGED <<sent, request, incoming, queue, order, held, serving, interrupting, active, requested, reply,
                       cause, dropped, swept, doomed, pc, sweep>>
    BY ZenonT(30), <1>3 DEF ExecutionIdle
  <2>2. published \in [MsgId -> {"none", "busy", "idle"}]
    BY ZenonT(30) DEF Inv, TypeOK, Published
  <2>3. \A k \in MsgId : k # active => published'[k] = published[k]
    BY ZenonT(30), <2>1, <2>2
  <2>4. (task = "error" => task' = "done_error") /\ task' \in Finished \cup {"crashed"}
    BY ZenonT(30), <2>1 DEF Finished
  <2> QED BY ZenonT(30), <2>1, <2>3, <2>4 DEF Idles
<1> QED BY ZenonT(30), <1>1, <1>2, <1>3 DEF Execution

(* Every step is of one of these kinds. *)
LEMMA Kinds ==
  ASSUME Inv, [Next]_vars
  PROVE  \/ Calm \/ Sends \/ Takes \/ Sweep \/ Releases \/ Interrupts \/ Joins \/ Ends \/ Answers \/ Reports \/ Idles
         \/ \E item \in queue : Serves(item) \/ Refuses(item) \/ Holds(item) \/ Starts(item)
<1> USE DEF clientVars, kernelVars, schedulerVars, executionVars, outputVars, historyVars, rest
<1>1. CASE Client
  <2>1. PICK shape \in Shapes : Send(shape)
    BY ZenonT(30), <1>1 DEF Client
  <2>2. /\ sent < MaxRequests /\ sent' = sent + 1 /\ request' = [request EXCEPT ![sent + 1] = shape]
        /\ incoming' = Append(incoming, sent + 1)
        /\ UNCHANGED <<pc, sweep, queue, order, held, serving, interrupting, active, task, requested, reply, published,
                       cause, dropped, swept, doomed>>
    BY ZenonT(30), <2>1 DEF Send
  <2>3. sent + 1 \in MsgId
    BY <2>2, ShellAssumption DEF Inv, TypeOK, MsgId
  <2>4. request \in [MsgId -> Request]
    BY ZenonT(30) DEF Inv, TypeOK
  <2>5. \A k \in MsgId : k # sent + 1 => request'[k] = request[k]
    BY ZenonT(30), <2>2, <2>4
  <2> QED BY ZenonT(30), <2>2, <2>3, <2>5 DEF Sends
<1>2. CASE Kernel
  BY ZenonT(30), <1>2 DEF Kernel, SendInterrupt, SendRelease, SendStop, SendControl, Calm
<1>3. CASE UNCHANGED vars
  BY ZenonT(30), <1>3 DEF vars, Calm
<1> QED BY ZenonT(30), <1>1, <1>2, <1>3, SchedulerKinds, ExecutionKinds DEF Next

(* An interrupt names what was sent when the kernel sent it. *)
LEMMA UptosNext ==
  ASSUME Inv, Uptos, [Next]_vars
  PROVE  Uptos'
<1> USE DEF clientVars, kernelVars, schedulerVars, executionVars, outputVars, historyVars, rest
<1>1. sent \in Nat /\ controls \in Seq(Control)
  BY ShellAssumption DEF Inv, TypeOK
<1>2. \A c \in Control : c.upto \in Nat
  BY ShellAssumption DEF Control
<1>3. ASSUME controls' = controls, sent' = sent PROVE Uptos'
  BY ZenonT(30), <1>3 DEF Uptos
<1>4. CASE Client
  <2>1. controls' = controls /\ sent' = sent + 1
    BY ZenonT(30), <1>4 DEF Client, Send
  <2>2. \A i \in DOMAIN controls : controls[i].upto \in Nat
    BY <1>1, <1>2
  <2>3. \A u \in Nat : u <= sent => u <= sent + 1
    BY <1>1
  <2> QED BY ZenonT(30), <2>1, <2>2, <2>3 DEF Uptos
<1>5. CASE Kernel
  <2>1. PICK c : controls' = Append(controls, c) /\ c.upto \in {0, sent} /\ sent' = sent
    <3>1. CASE SendInterrupt
      <4>1. [type |-> "interrupt", msg |-> NoMsg, status |-> "ok", upto |-> sent].upto = sent
        BY ZenonT(30)
      <4> QED BY ZenonT(30), <3>1, <4>1 DEF SendInterrupt, SendControl
    <3>2. CASE SendStop
      <4>1. [type |-> "stop", msg |-> NoMsg, status |-> "ok", upto |-> 0].upto = 0
        BY ZenonT(30)
      <4> QED BY ZenonT(30), <3>2, <4>1 DEF SendStop, SendControl
    <3>3. ASSUME NEW m, NEW status, SendRelease(m, status)
          PROVE  \E c : controls' = Append(controls, c) /\ c.upto \in {0, sent} /\ sent' = sent
      <4>1. [type |-> "release", msg |-> m, status |-> status, upto |-> 0].upto = 0
        BY ZenonT(30)
      <4> QED BY ZenonT(30), <3>3, <4>1 DEF SendRelease, SendControl
    <3> QED BY ZenonT(30), <1>5, <3>1, <3>2, <3>3 DEF Kernel
  <2>2. \A i \in DOMAIN controls' : (i \in DOMAIN controls /\ controls'[i] = controls[i]) \/ controls'[i] = c
    BY <1>1, <2>1
  <2>3. c.upto <= sent
    BY <1>1, <2>1
  <2> QED BY ZenonT(30), <2>1, <2>2, <2>3 DEF Uptos
<1>6. ASSUME NEW next, ApplyControl(next) PROVE Uptos'
  <2>1. controls # <<>> /\ controls' = Tail(controls) /\ sent' = sent
    BY ZenonT(30), <1>6 DEF ApplyControl
  <2>2. \A i \in DOMAIN controls' : i + 1 \in DOMAIN controls /\ controls'[i] = controls[i + 1]
    BY <1>1, <2>1
  <2> QED BY ZenonT(30), <2>1, <2>2 DEF Uptos
<1>7. ASSUME NEW how, EndShell(how) PROVE Uptos'
  <2>1. controls' = <<>>
    BY ZenonT(30), <1>7 DEF EndShell
  <2>2. DOMAIN controls' = {}
    BY <2>1
  <2> QED BY ZenonT(30), <2>2 DEF Uptos
<1>8. CASE Scheduler
  <2>1. ASSUME NEW item, HandleItem(item) PROVE Uptos'
    BY ZenonT(30), <1>3, <2>1 DEF HandleItem, HandleAtOnce, CallLanguage, RefuseExecute, BeginHold, StartExecution, Pop
  <2>2. CASE Drain \/ NoControls \/ Sweep \/ NothingToReap
    BY ZenonT(30), <1>3, <2>2 DEF Drain, NoControls, Sweep, NothingToReap
  <2>3. CASE Reap \/ SelectDone
    BY ZenonT(30), <1>3, <2>3 DEF Reap, SelectDone, ExecutionDone
  <2>4. CASE Stop \/ Wait
    BY ZenonT(30), <1>3, <2>4 DEF Stop, Wait, DispatchNothing
  <2>5. CASE SelectIncoming \/ HoldTimeout
    BY ZenonT(30), <1>3, <2>5 DEF SelectIncoming, HoldTimeout
  <2>6. ASSUME NEW result, ServiceDone(result) PROVE Uptos'
    BY ZenonT(30), <1>3, <2>6 DEF ServiceDone
  <2>7. CASE InterruptFails \/ ExecutionFailed \/ CloseFails \/ Close \/ ServiceClosed
    BY ZenonT(30), <1>7, <2>7 DEF InterruptFails, ExecutionFailed, CloseFails, Close, ServiceClosed, Fail
  <2>8. CASE Controls \/ SelectControl
    BY ZenonT(30), <1>6, <2>8 DEF Controls, SelectControl
  <2> QED BY ZenonT(30), <1>8, <2>1, <2>2, <2>3, <2>4, <2>5, <2>6, <2>7, <2>8 DEF Scheduler
<1>9. CASE Execution
  BY ZenonT(30), <1>3, <1>9 DEF Execution, ExecutionReplies, ExecutionPanics, ExecutionIdle
<1>10. CASE UNCHANGED vars
  BY ZenonT(30), <1>3, <1>10 DEF vars
<1> QED BY ZenonT(30), <1>4, <1>5, <1>8, <1>9, <1>10 DEF Next

-----------------------------------------------------------------------------
(* Arrival order. *)

(* What is in the channel and in the queue was sent. *)
LEMMA Numbered ==
  ASSUME Inv
  PROVE  /\ sent \in Nat /\ order \in Nat /\ 1 .. sent \subseteq MsgId
         /\ \A m \in InIncoming \cup InQueue : m \in 1 .. sent
         /\ \A i \in DOMAIN incoming : incoming[i] \in InIncoming /\ incoming[i] \in 1 .. sent
         /\ \A x \in queue : x.msg \in InQueue /\ x.msg \in 1 .. sent /\ x.order \in Nat
<1>1. sent \in Nat /\ order \in Nat /\ 1 .. sent \subseteq MsgId /\ \A x \in queue : x.order \in Nat
  BY ShellAssumption DEF Inv, TypeOK, MsgId
<1>2. \A m \in InIncoming \cup InQueue : m \in 1 .. sent
  BY ZenonT(30) DEF Inv, Placed, SentOnly
<1>3. (\A i \in DOMAIN incoming : incoming[i] \in InIncoming) /\ \A x \in queue : x.msg \in InQueue
  BY ZenonT(30) DEF InIncoming, InQueue
<1> QED BY ZenonT(30), <1>1, <1>2, <1>3

(* The order stays when nothing enters the queue. *)
LEMMA LineStays ==
  ASSUME Line, incoming' = incoming, queue' \subseteq queue, order' = order
  PROVE  Line'
<1>1. InIncoming' = InIncoming
  BY ZenonT(30) DEF InIncoming
<1> QED BY ZenonT(30), <1>1 DEF Line

(* Nothing is ordered when nothing waits. *)
LEMMA LineEmpty ==
  ASSUME incoming' = <<>>, queue' = {}
  PROVE  Line'
<1>1. DOMAIN incoming' = {} /\ InIncoming' = {}
  BY ZenonT(30), EmptyChannel
<1> QED BY ZenonT(30), <1>1 DEF Line

(* The numbers that enqueue gives go on from the queue's. *)
LEMMA LineEnqueued ==
  ASSUME Inv, Line
  PROVE  /\ \A x, y \in Enqueued : x.order < y.order <=> x.msg < y.msg
         /\ \A x \in Enqueued : x.order < order + Len(incoming)
<1>1. \A x \in Enqueued :
        \/ x \in queue
        \/ \E i \in DOMAIN incoming : x = [msg |-> incoming[i], order |-> order + i - 1]
  BY ZenonT(30) DEF Enqueued
<1>2. DOMAIN incoming = 1 .. Len(incoming) /\ Len(incoming) \in Nat
  BY DEF Inv, TypeOK
<1>3. \A x \in Enqueued :
        \/ x \in queue
        \/ \E i \in DOMAIN incoming : x.msg = incoming[i] /\ x.order = order + i - 1
  BY <1>1
<1>4. \A i \in DOMAIN incoming : i \in Nat /\ 1 <= i /\ i <= Len(incoming) /\ order + i - 1 \in Nat
  BY <1>2, Numbered
<1>5. ASSUME NEW x \in Enqueued, NEW y \in Enqueued PROVE x.order < y.order <=> x.msg < y.msg
  <2>1. CASE x \in queue /\ y \in queue
    BY ZenonT(30), <2>1 DEF Line
  <2>2. CASE x \in queue /\ y \notin queue
    <3>1. PICK i \in DOMAIN incoming : y.msg = incoming[i] /\ y.order = order + i - 1
      BY ZenonT(30), <1>3, <2>2
    <3>2. x.order < order /\ x.msg < incoming[i]
      BY ZenonT(30), <2>2, Numbered DEF Line
    <3>3. x.order \in Nat /\ order \in Nat /\ i \in Nat /\ 1 <= i
      BY ZenonT(30), <1>4, <2>2, Numbered
    <3> QED BY <3>1, <3>2, <3>3
  <2>3. CASE x \notin queue /\ y \in queue
    <3>1. PICK i \in DOMAIN incoming : x.msg = incoming[i] /\ x.order = order + i - 1
      BY ZenonT(30), <1>3, <2>3
    <3>2. y.order < order /\ y.msg < incoming[i]
      BY ZenonT(30), <2>3, Numbered DEF Line
    <3>3. /\ y.order \in Nat /\ order \in Nat /\ i \in Nat /\ 1 <= i
          /\ y.msg \in 1 .. sent /\ incoming[i] \in 1 .. sent /\ sent \in Nat
      BY ZenonT(30), <1>4, <2>3, Numbered
    <3> QED BY <3>1, <3>2, <3>3
  <2>4. CASE x \notin queue /\ y \notin queue
    <3>1. PICK i \in DOMAIN incoming : x.msg = incoming[i] /\ x.order = order + i - 1
      BY ZenonT(30), <1>3, <2>4
    <3>2. PICK j \in DOMAIN incoming : y.msg = incoming[j] /\ y.order = order + j - 1
      BY ZenonT(30), <1>3, <2>4
    <3>3. (i < j => incoming[i] < incoming[j]) /\ (j < i => incoming[j] < incoming[i])
      BY ZenonT(30) DEF Line
    <3>4. /\ order \in Nat /\ i \in Nat /\ j \in Nat /\ sent \in Nat
          /\ incoming[i] \in 1 .. sent /\ incoming[j] \in 1 .. sent
      BY ZenonT(30), <1>4, Numbered
    <3>5. i = j => incoming[i] = incoming[j]
      BY ZenonT(30)
    <3> QED BY <3>1, <3>2, <3>3, <3>4, <3>5
  <2> QED BY ZenonT(30), <2>1, <2>2, <2>3, <2>4
<1>6. ASSUME NEW x \in Enqueued PROVE x.order < order + Len(incoming)
  <2>1. CASE x \in queue
    <3>1. x.order < order /\ x.order \in Nat /\ order \in Nat
      BY ZenonT(30), <2>1, Numbered DEF Line
    <3> QED BY <1>2, <3>1
  <2>2. CASE x \notin queue
    <3>1. PICK i \in DOMAIN incoming : x.order = order + i - 1
      BY ZenonT(30), <1>3, <2>2
    <3>2. i \in Nat /\ 1 <= i /\ i <= Len(incoming) /\ order \in Nat
      BY ZenonT(30), <1>4, Numbered
    <3> QED BY <1>2, <3>1, <3>2
  <2> QED BY ZenonT(30), <2>1, <2>2
<1> QED BY ZenonT(30), <1>5, <1>6

(* The whole channel enters the queue, of which a part stays. *)
LEMMA LineDrained ==
  ASSUME Inv, Line, incoming' = <<>>, queue' \subseteq Enqueued, order' = order + Len(incoming)
  PROVE  Line'
<1>1. DOMAIN incoming' = {} /\ InIncoming' = {}
  BY ZenonT(30), EmptyChannel
<1> QED BY ZenonT(30), <1>1, LineEnqueued DEF Line

(* The first request of the channel enters the queue. *)
LEMMA LineTaken ==
  ASSUME Inv, Line, incoming # <<>>, incoming' = Tail(incoming), order' = order + 1,
         queue' = queue \cup {[msg |-> Head(incoming), order |-> order]}
  PROVE  Line'
<1>1. /\ DOMAIN incoming = 1 .. Len(incoming) /\ Len(incoming) \in Nat \ {0} /\ Head(incoming) = incoming[1]
      /\ DOMAIN incoming' = 1 .. Len(incoming) - 1
      /\ \A i \in DOMAIN incoming' : incoming'[i] = incoming[i + 1] /\ i \in Nat
      /\ \A i \in DOMAIN incoming' : i + 1 \in DOMAIN incoming /\ 1 < i + 1 /\ 1 \in DOMAIN incoming
      /\ 1 \in DOMAIN incoming
  BY DEF Inv, TypeOK
<1>2. PICK head : head = [msg |-> Head(incoming), order |-> order]
  BY ZenonT(30)
<1>3. head.msg = incoming[1] /\ head.order = order
  BY ZenonT(30), <1>1, <1>2
<1>4. queue' = queue \cup {head}
  BY ZenonT(30), <1>2
<1>5. \A i, j \in DOMAIN incoming' : i < j => incoming'[i] < incoming'[j]
  <2> SUFFICES ASSUME NEW i \in DOMAIN incoming', NEW j \in DOMAIN incoming', i < j
               PROVE  incoming'[i] < incoming'[j]
    BY ZenonT(30)
  <2>1. i + 1 < j + 1
    BY <1>1
  <2>2. incoming[i + 1] < incoming[j + 1]
    BY ZenonT(30), <1>1, <2>1 DEF Line
  <2> QED BY ZenonT(30), <1>1, <2>2
<1>6. \A x \in queue : x.order < head.order /\ x.msg < head.msg
  BY ZenonT(30), <1>1, <1>3, Numbered DEF Line
<1>7. \A m \in InIncoming' : head.msg < m
  <2> SUFFICES ASSUME NEW m \in InIncoming' PROVE head.msg < m
    BY ZenonT(30)
  <2>1. PICK i \in DOMAIN incoming' : m = incoming'[i]
    BY ZenonT(30) DEF InIncoming
  <2>2. incoming[1] < incoming[i + 1]
    BY ZenonT(30), <1>1 DEF Line
  <2> QED BY ZenonT(30), <1>1, <1>3, <2>1, <2>2
<1>8. InIncoming' \subseteq InIncoming
  BY <1>1 DEF InIncoming
<1>9. \A x, y \in queue' : x.order < y.order <=> x.msg < y.msg
  <2> SUFFICES ASSUME NEW x \in queue', NEW y \in queue' PROVE x.order < y.order <=> x.msg < y.msg
    BY ZenonT(30)
  <2>0. /\ head.msg \in 1 .. sent /\ head.order \in Nat /\ sent \in Nat
        /\ \A z \in queue : z.order \in Nat /\ z.msg \in 1 .. sent
    BY ZenonT(30), <1>1, <1>3, Numbered
  <2>1. CASE x \in queue /\ y \in queue
    BY ZenonT(30), <2>1 DEF Line
  <2>2. CASE x \in queue /\ y = head
    BY ZenonT(30), <1>6, <2>2
  <2>3. CASE x = head /\ y \in queue
    BY <1>6, <2>0, <2>3
  <2>4. CASE x = head /\ y = head
    BY <2>0, <2>4
  <2> QED BY ZenonT(30), <1>4, <2>1, <2>2, <2>3, <2>4
<1>10. \A x \in queue' : x.order < order'
  <2>1. \A x \in queue : x.order < order /\ x.order \in Nat
    BY ZenonT(30), Numbered DEF Line
  <2> QED BY <1>3, <1>4, <2>1, Numbered
<1>11. \A x \in queue', m \in InIncoming' : x.msg < m
  BY ZenonT(30), <1>4, <1>7, <1>8 DEF Line
<1> QED BY ZenonT(30), <1>5, <1>9, <1>10, <1>11 DEF Line

(* A request that is sent comes last. *)
LEMMA LineSends ==
  ASSUME Inv, Line, Sends
  PROVE  Line'
<1>1. incoming' = Append(incoming, sent + 1) /\ queue' = queue /\ order' = order
  BY ZenonT(30) DEF Sends
<1>2. /\ DOMAIN incoming' = 1 .. Len(incoming) + 1 /\ incoming'[Len(incoming) + 1] = sent + 1
      /\ \A i \in DOMAIN incoming : incoming'[i] = incoming[i]
      /\ DOMAIN incoming = 1 .. Len(incoming) /\ Len(incoming) \in Nat
  BY <1>1 DEF Inv, TypeOK
<1>3. \A m \in 1 .. sent : m < sent + 1
  BY Numbered
<1>4. \A i, j \in DOMAIN incoming' : i < j => incoming'[i] < incoming'[j]
  <2> SUFFICES ASSUME NEW i \in DOMAIN incoming', NEW j \in DOMAIN incoming', i < j
               PROVE  incoming'[i] < incoming'[j]
    BY ZenonT(30)
  <2>1. i \in DOMAIN incoming /\ (j \in DOMAIN incoming \/ j = Len(incoming) + 1)
    BY <1>2
  <2>2. CASE j \in DOMAIN incoming
    BY ZenonT(30), <1>2, <2>1, <2>2 DEF Line
  <2>3. CASE j = Len(incoming) + 1
    BY ZenonT(30), <1>2, <1>3, <2>1, <2>3, Numbered
  <2> QED BY ZenonT(30), <2>1, <2>2, <2>3
<1>5. \A m \in InIncoming' : m \in InIncoming \/ m = sent + 1
  <2>1. \A i \in DOMAIN incoming' : i \in DOMAIN incoming \/ i = Len(incoming) + 1
    BY <1>2
  <2> QED BY ZenonT(30), <1>2, <2>1 DEF InIncoming
<1> QED BY ZenonT(30), <1>1, <1>3, <1>4, <1>5, Numbered DEF Line

(* Every step keeps the order of arrival. *)
LEMMA LineNext ==
  ASSUME Inv, Line, [Next]_vars
  PROVE  Line'
<1>1. CASE Calm \/ Releases \/ Interrupts \/ Joins \/ Answers \/ Reports \/ Idles
  BY ZenonT(30), <1>1, LineStays DEF Calm, Releases, Interrupts, HoldEnds, Joins, Answers, Reports, Idles
<1>2. CASE Takes
  BY ZenonT(30), <1>2, LineDrained, LineTaken DEF Takes
<1>3. CASE Sweep
  <2>1. incoming' = <<>> /\ queue' = {item \in Enqueued : ~Execute(item.msg)} /\ order' = order + Len(incoming)
    BY ZenonT(30), <1>3 DEF Sweep, AbortPending
  <2> QED BY ZenonT(30), <2>1, LineDrained
<1>4. CASE Ends
  BY ZenonT(30), <1>4, LineEmpty DEF Ends
<1>5. ASSUME NEW item \in queue, Pops(item) PROVE Line'
  <2>1. incoming' = incoming /\ queue' = queue \ {item} /\ order' = order
    BY ZenonT(30), <1>5 DEF Pops
  <2> QED BY ZenonT(30), <2>1, LineStays
<1> QED BY ZenonT(30), <1>1, <1>2, <1>3, <1>4, <1>5, LineSends, Kinds DEF Serves, Refuses, Holds, Starts

-----------------------------------------------------------------------------
(* What a step may do to a message. *)

(* A popped item was waiting, and was kept nowhere else. *)
LEMMA PopsFacts ==
  ASSUME Inv, NEW item \in queue, Pops(item)
  PROVE  /\ item.msg \in MsgId /\ item.msg \in 1 .. sent /\ item.msg # NoMsg /\ ~Answered(item.msg)
         /\ item.msg \in InQueue /\ item.msg \notin InIncoming /\ item.msg \notin dropped
         /\ item.msg \notin {held, serving, active}
         /\ InIncoming' = InIncoming /\ InQueue' = InQueue \ {item.msg} /\ serving = NoMsg
<1>1. item.msg \in MsgId /\ item.msg # NoMsg
  BY DEF Inv, TypeOK, MsgId, NoMsg
<1>2. item.msg \in InQueue
  BY ZenonT(30) DEF InQueue
<1>3. \A x \in queue : x.msg = item.msg => x = item
  BY ZenonT(30) DEF Inv, Placed, Once
<1>4. queue' = queue \ {item} /\ incoming' = incoming /\ pc = "dispatch"
  BY ZenonT(30) DEF Pops
<1>5. InQueue' = InQueue \ {item.msg}
  BY ZenonT(30), <1>3, <1>4 DEF InQueue
<1>6. serving = NoMsg
  BY ZenonT(30), <1>4 DEF Inv, Lane
<1>7. item.msg \in 1 .. sent
  BY ZenonT(30), Numbered
<1>8. ~Answered(item.msg)
  BY ZenonT(30), <1>2, <1>7 DEF Inv, Accounted, Kept
<1> QED BY ZenonT(30), <1>1, <1>2, <1>4, <1>5, <1>6, <1>7, <1>8 DEF Inv, Placed, Apart, InIncoming

(* A sweep aborts the executes that wait, and keeps the rest. *)
LEMMA SweepFacts ==
  ASSUME Inv, Sweep
  PROVE  /\ \A k \in MsgId : k \notin Waiting => reply'[k] = reply[k] /\ published'[k] = published[k] /\ cause'[k] = cause[k]
         /\ \A k \in MsgId : k \in Waiting => reply'[k].status = "aborted" /\ published'[k] = "idle" /\ cause'[k] = sweep.cause
         /\ InIncoming' = {} /\ InQueue' = (InIncoming \cup InQueue) \ Waiting
         /\ Waiting \subseteq InIncoming \cup InQueue
<1>1. /\ reply' = Reply(reply, Waiting, "aborted", execution_count)
      /\ published' = [m \in MsgId |-> IF m \in Waiting THEN "idle" ELSE published[m]]
      /\ cause' = [m \in MsgId |-> IF m \in Waiting THEN sweep.cause ELSE cause[m]]
      /\ queue' = {item \in Enqueued : ~Execute(item.msg)} /\ incoming' = <<>>
  BY ZenonT(30) DEF Sweep, AbortPending, AbortExecutes, Waiting
<1>2. InIncoming' = {}
  BY ZenonT(30), <1>1, EmptyChannel
<1>3. {item.msg : item \in Enqueued} = InQueue \cup InIncoming
  BY ZenonT(30), EnqueuedOnce
<1>4. \A m : m \in InQueue' => m \in (InIncoming \cup InQueue) \ Waiting
  <2> SUFFICES ASSUME NEW m \in InQueue' PROVE m \in (InIncoming \cup InQueue) \ Waiting
    BY ZenonT(30)
  <2>1. PICK item \in queue' : m = item.msg
    BY ZenonT(30) DEF InQueue
  <2>2. item \in Enqueued /\ ~Execute(m)
    BY ZenonT(30), <1>1, <2>1
  <2> QED BY ZenonT(30), <1>3, <2>1, <2>2 DEF Waiting
<1>5. \A m : m \in (InIncoming \cup InQueue) \ Waiting => m \in InQueue'
  <2> SUFFICES ASSUME NEW m \in (InIncoming \cup InQueue) \ Waiting PROVE m \in InQueue'
    BY ZenonT(30)
  <2>1. PICK item \in Enqueued : m = item.msg
    BY ZenonT(30), <1>3
  <2>2. ~Execute(item.msg)
    BY ZenonT(30), <2>1 DEF Waiting
  <2> QED BY ZenonT(30), <1>1, <2>1, <2>2 DEF InQueue
<1>6. \A k \in MsgId : k \notin Waiting => reply'[k] = reply[k] /\ published'[k] = published[k] /\ cause'[k] = cause[k]
  BY ZenonT(30), <1>1 DEF Reply
<1>7. \A k \in MsgId : k \in Waiting => reply'[k].status = "aborted" /\ published'[k] = "idle" /\ cause'[k] = sweep.cause
  BY ZenonT(30), <1>1 DEF Reply
<1>8. Waiting \subseteq InIncoming \cup InQueue
  BY ZenonT(30) DEF Waiting
<1> QED BY ZenonT(30), <1>2, <1>4, <1>5, <1>6, <1>7, <1>8

(* Taking requests from the channel moves them, and no other. *)
LEMMA TakesFacts ==
  ASSUME Inv, Takes
  PROVE  InIncoming' \cup InQueue' = InIncoming \cup InQueue
<1>1. CASE queue' = Enqueued /\ incoming' = <<>>
  <2>1. InQueue' = {item.msg : item \in Enqueued}
    BY ZenonT(30), <1>1 DEF InQueue
  <2> QED BY ZenonT(30), <1>1, <2>1, EnqueuedOnce, EmptyChannel
<1>2. CASE incoming # <<>> /\ incoming' = Tail(incoming) /\ queue' = queue \cup {[msg |-> Head(incoming), order |-> order]}
  <2>1. Head(incoming) \in InIncoming /\ InIncoming' = InIncoming \ {Head(incoming)}
    BY ZenonT(30), <1>2, InIncomingTail DEF Inv, Placed, Once
  <2>2. InQueue' = InQueue \cup {Head(incoming)}
    <3>1. PICK head : head = [msg |-> Head(incoming), order |-> order]
      BY ZenonT(30)
    <3>2. head.msg = Head(incoming)
      BY ZenonT(30), <3>1
    <3> QED BY ZenonT(30), <1>2, <3>1, <3>2 DEF InQueue
  <2> QED BY ZenonT(30), <2>1, <2>2
<1> QED BY ZenonT(30), <1>1, <1>2 DEF Takes

(* Only what was sent starts to wait. *)
LEMMA WaitsStep ==
  ASSUME Inv, [Next]_vars
  PROVE  \A m \in InIncoming' \cup InQueue' : m \in InIncoming \cup InQueue \/ (m = sent + 1 /\ Sends)
<1>1. CASE Calm \/ Releases \/ Interrupts \/ Joins \/ Answers \/ Reports \/ Idles
  <2>1. incoming' = incoming /\ queue' = queue
    BY ZenonT(30), <1>1 DEF Calm, Releases, Interrupts, HoldEnds, Joins, Answers, Reports, Idles
  <2> QED BY ZenonT(30), <2>1 DEF InIncoming, InQueue
<1>2. CASE Sends
  <2>1. queue' = queue /\ incoming' = Append(incoming, sent + 1) /\ incoming \in Seq(MsgId)
    BY ZenonT(30), <1>2 DEF Sends, Inv, TypeOK
  <2>2. /\ DOMAIN incoming = 1 .. Len(incoming) /\ Len(incoming) \in Nat
        /\ \A i \in DOMAIN incoming' : (i \in DOMAIN incoming /\ incoming'[i] = incoming[i]) \/ incoming'[i] = sent + 1
    BY <2>1
  <2>3. \A m \in InIncoming' : m \in InIncoming \/ m = sent + 1
    BY ZenonT(30), <2>2 DEF InIncoming
  <2> QED BY ZenonT(30), <1>2, <2>1, <2>3 DEF InQueue
<1>3. CASE Ends
  <2>1. incoming' = <<>> /\ queue' = {}
    BY ZenonT(30), <1>3 DEF Ends
  <2> QED BY ZenonT(30), <2>1, EmptyChannel DEF InQueue
<1>4. ASSUME NEW item \in queue, Pops(item)
      PROVE  \A m \in InIncoming' \cup InQueue' : m \in InIncoming \cup InQueue
  BY ZenonT(30), <1>4, PopsFacts
<1> QED BY ZenonT(30), <1>1, <1>2, <1>3, <1>4, SweepFacts, TakesFacts, Kinds DEF Serves, Refuses, Holds, Starts

(* A step changes what clients see of a message only where the message     *)
(* is, and then it does not wait.                                          *)
LEMMA Changes ==
  ASSUME Inv, [Next]_vars, NEW k \in MsgId
  PROVE  \/ reply'[k] = reply[k] /\ published'[k] = published[k]
         \/ /\ k \in 1 .. sent /\ k \notin InIncoming' \cup InQueue'
            /\ \/ k = held /\ held' = NoMsg
               \/ k = serving /\ serving' = NoMsg
               \/ k = active
               \/ k \in InIncoming \cup InQueue
<1>0. k # NoMsg /\ sent + 1 \notin 1 .. sent
  BY Numbered DEF MsgId, NoMsg
<1>1. ASSUME k \in {held, serving, active} PROVE k \in 1 .. sent /\ k \notin InIncoming' \cup InQueue'
  <2>1. k \in 1 .. sent /\ k \notin InIncoming \cup InQueue
    BY ZenonT(30), <1>0, <1>1 DEF Inv, Placed, SentOnly, Apart
  <2> QED BY ZenonT(30), <1>0, <2>1, WaitsStep
<1>2. CASE Calm \/ Sends \/ Takes \/ Joins
  BY ZenonT(30), <1>2 DEF Calm, Sends, Takes, Joins
<1>3. CASE Releases \/ Interrupts
  BY ZenonT(30), <1>1, <1>3 DEF Releases, Interrupts, HoldEnds
<1>4. CASE Answers \/ Ends
  BY ZenonT(30), <1>1, <1>4 DEF Answers, Ends
<1>5. CASE Reports \/ Idles
  BY ZenonT(30), <1>1, <1>5 DEF Reports, Idles
<1>6. CASE Sweep
  BY ZenonT(30), <1>6, SweepFacts, Numbered
<1>7. ASSUME NEW item \in queue, Pops(item)
      PROVE  \/ reply'[k] = reply[k] /\ published'[k] = published[k]
             \/ k \in 1 .. sent /\ k \notin InIncoming' \cup InQueue' /\ k \in InIncoming \cup InQueue
  <2>1. k # item.msg => reply'[k] = reply[k] /\ published'[k] = published[k]
    BY ZenonT(30), <1>7 DEF Pops
  <2> QED BY ZenonT(30), <1>7, <2>1, PopsFacts
<1> QED BY ZenonT(30), <1>2, <1>3, <1>4, <1>5, <1>6, <1>7, Kinds DEF Serves, Refuses, Holds, Starts

(* What is recorded stays recorded. *)
LEMMA Grows ==
  ASSUME Inv, [Next]_vars
  PROVE  /\ \A k \in MsgId : Answered(k) => Answered(k)'
         /\ dropped \subseteq dropped' /\ requested \subseteq requested' /\ sent <= sent'
         /\ \A k \in 1 .. sent : k \in MsgId /\ k \in 1 .. sent' /\ request'[k] = request[k]
<1>0. sent \in Nat /\ 1 .. sent \subseteq MsgId
  BY ZenonT(30), Numbered
<1>1. ASSUME sent' = sent, request' = request
      PROVE  sent <= sent' /\ \A k \in 1 .. sent : k \in MsgId /\ k \in 1 .. sent' /\ request'[k] = request[k]
  <2>1. sent <= sent
    BY <1>0
  <2> QED BY ZenonT(30), <1>0, <1>1, <2>1
<1>2. ASSUME reply' = reply PROVE \A k \in MsgId : Answered(k) => Answered(k)'
  BY ZenonT(30), <1>2 DEF Answered
<1>3. CASE Calm \/ Takes \/ Joins \/ Idles
  BY ZenonT(30), <1>1, <1>2, <1>3 DEF Calm, Takes, Joins, Idles
<1>4. CASE Sends
  <2>1. /\ sent' = sent + 1 /\ (\A k \in MsgId : k # sent + 1 => request'[k] = request[k])
        /\ UNCHANGED <<reply, dropped, requested>>
    BY ZenonT(30), <1>4 DEF Sends
  <2>2. sent <= sent' /\ \A k \in 1 .. sent : k # sent + 1 /\ k \in 1 .. sent'
    BY <1>0, <2>1
  <2> QED BY ZenonT(30), <1>0, <1>2, <2>1, <2>2
<1>5. CASE Releases \/ Interrupts
  <2>1. PICK status \in {"ok", "error", "interrupted"} : HoldEnds(status) /\ requested \subseteq requested'
    BY ZenonT(30), <1>5 DEF Releases, Interrupts
  <2>2. status # "none"
    BY ZenonT(30), <2>1
  <2> QED BY ZenonT(30), <1>1, <2>1, <2>2 DEF HoldEnds, Answered
<1>6. CASE Answers \/ Ends
  BY ZenonT(30), <1>1, <1>6 DEF Answers, Ends, Answered
<1>7. CASE Reports
  <2>1. \A s \in {"ok", "error"} : s # "none"
    BY ZenonT(30)
  <2> QED BY ZenonT(30), <1>1, <1>7, <2>1 DEF Reports, Answered
<1>8. CASE Sweep
  <2>1. UNCHANGED <<sent, request, dropped, requested>>
    BY ZenonT(30), <1>8 DEF Sweep, clientVars, executionVars
  <2>2. "aborted" # "none"
    BY ZenonT(30)
  <2> QED BY ZenonT(30), <1>1, <1>8, <2>1, <2>2, SweepFacts DEF Answered
<1>9. ASSUME NEW item \in queue, Pops(item), dropped \subseteq dropped'
      PROVE  /\ \A k \in MsgId : Answered(k) => Answered(k)'
             /\ dropped \subseteq dropped' /\ requested \subseteq requested' /\ sent <= sent'
             /\ \A k \in 1 .. sent : k \in MsgId /\ k \in 1 .. sent' /\ request'[k] = request[k]
  <2>1. /\ UNCHANGED <<sent, request, requested>>
        /\ \A k \in MsgId : k # item.msg => reply'[k] = reply[k]
    BY ZenonT(30), <1>9 DEF Pops
  <2> QED BY ZenonT(30), <1>1, <1>9, <2>1, PopsFacts DEF Answered
<1>10. ASSUME NEW item \in queue, Serves(item) \/ Refuses(item) \/ Holds(item) \/ Starts(item)
       PROVE  Pops(item) /\ dropped \subseteq dropped'
  BY ZenonT(30), <1>10 DEF Serves, Refuses, Holds, Starts
<1> QED BY ZenonT(30), <1>3, <1>4, <1>5, <1>6, <1>7, <1>8, <1>9, <1>10, Kinds

-----------------------------------------------------------------------------
(* What waits has not begun. *)

(* Until the task is joined, what clients see of the active execution      *)
(* changes by the task's own steps.                                        *)
LEMMA ActiveStays ==
  ASSUME Inv, [Next]_vars, active # NoMsg
  PROVE  \/ Reports \/ Idles \/ Joins \/ Ends
         \/ /\ active' = active /\ (task' = task \/ (task = "running" /\ task' = "crashed"))
            /\ reply'[active] = reply[active] /\ published'[active] = published[active]
<1>1. active \in MsgId /\ active \in 1 .. sent /\ active \notin InIncoming \cup InQueue
  BY ZenonT(30), Numbered DEF Inv, Placed, SentOnly, Apart
<1>2. active # held /\ active # serving
  BY DEF Inv, Placed, Apart
<1>3. CASE Calm \/ Sends \/ Takes
  BY ZenonT(30), <1>3 DEF Calm, Sends, Takes
<1>4. CASE Releases \/ Interrupts \/ Answers
  BY ZenonT(30), <1>1, <1>2, <1>4 DEF Releases, Interrupts, HoldEnds, Answers
<1>5. CASE Sweep
  <2>1. active' = active /\ task' = task
    BY ZenonT(30), <1>5 DEF Sweep, executionVars
  <2> QED BY ZenonT(30), <1>1, <1>5, <2>1, SweepFacts
<1>6. ASSUME NEW item \in queue, Pops(item)
      PROVE  reply'[active] = reply[active] /\ published'[active] = published[active]
  BY ZenonT(30), <1>1, <1>6, PopsFacts DEF Pops
<1>7. ASSUME NEW item \in queue, Pops(item), Execute(item.msg) PROVE FALSE
  BY ZenonT(30), <1>7 DEF Pops, PopRunnable, Runnable
<1> QED BY ZenonT(30), <1>3, <1>4, <1>5, <1>6, <1>7, Kinds DEF Serves, Refuses, Holds, Starts

(* Every step keeps Fresh. *)
LEMMA FreshNext ==
  ASSUME Inv, Inv', Fresh, [Next]_vars
  PROVE  Fresh'
<1>0. /\ sent \in Nat /\ sent' \in Nat /\ 1 .. sent \subseteq MsgId /\ sent <= sent'
      /\ \A k \in 1 .. sent : request'[k] = request[k]
  <2>1. sent' \in Nat
    BY ShellAssumption DEF Inv, TypeOK
  <2> QED BY ZenonT(30), <2>1, Numbered, Grows
<1>1. ASSUME NEW m \in InIncoming' \cup InQueue' PROVE published'[m] = "none"
  <2>1. m \in InIncoming \cup InQueue \/ (m = sent + 1 /\ Sends)
    BY ZenonT(30), <1>1, WaitsStep
  <2>2. CASE m \in InIncoming \cup InQueue
    <3>1. m \in MsgId /\ published[m] = "none"
      BY ZenonT(30), <2>2, Numbered DEF Fresh
    <3> QED BY ZenonT(30), <1>1, <3>1, Changes
  <2>3. CASE m = sent + 1 /\ Sends
    <3>1. m \in MsgId /\ m > sent
      BY <1>0, <2>3 DEF Sends
    <3> QED BY ZenonT(30), <2>3, <3>1 DEF Fresh, Sends
  <2> QED BY ZenonT(30), <2>1, <2>2, <2>3
<1>2. ASSUME NEW m \in MsgId, m > sent' PROVE published'[m] = "none"
  <2>1. m > sent /\ m \notin 1 .. sent
    BY <1>0, <1>2 DEF MsgId
  <2> QED BY ZenonT(30), <2>1, Changes DEF Fresh
<1>3. ASSUME held' # NoMsg PROVE Execute(held)'
  <2>1. held' = held \/ \E item \in queue : Holds(item)
    BY ZenonT(30), <1>3, Kinds DEF Calm, Sends, Takes, Sweep, schedulerVars, Releases, Interrupts, HoldEnds, Joins, Ends, Answers, Reports, Idles,
       Serves, Refuses, Starts
  <2>2. CASE held' = held
    <3>1. held \in 1 .. sent
      BY ZenonT(30), <1>3, <2>2 DEF Inv, Placed, SentOnly
    <3> QED BY ZenonT(30), <1>0, <1>3, <2>2, <3>1 DEF Fresh, Execute
  <2>3. ASSUME NEW item \in queue, Holds(item) PROVE Execute(held)'
    BY ZenonT(30), <2>3 DEF Holds, Pops, Execute
  <2> QED BY ZenonT(30), <2>1, <2>2, <2>3
<1>4. ASSUME serving' # NoMsg PROVE ~Execute(serving)'
  <2>1. serving' = serving \/ \E item \in queue : Serves(item) /\ serving' = item.msg
    BY ZenonT(30), <1>4, Kinds DEF Calm, Sends, Takes, Sweep, schedulerVars, Releases, Interrupts, HoldEnds, Joins, Ends, Answers, Reports, Idles,
       Serves, Refuses, Holds, Starts
  <2>2. CASE serving' = serving
    <3>1. serving \in 1 .. sent
      BY ZenonT(30), <1>4, <2>2 DEF Inv, Placed, SentOnly
    <3> QED BY ZenonT(30), <1>0, <1>4, <2>2, <3>1 DEF Fresh, Execute
  <2>3. ASSUME NEW item \in queue, Serves(item), serving' = item.msg PROVE ~Execute(serving)'
    BY ZenonT(30), <2>3 DEF Serves, Pops, Execute
  <2> QED BY ZenonT(30), <2>1, <2>2, <2>3
<1>5. /\ active' # NoMsg => Execute(active)' /\ Began(active)'
      /\ task' \in Replied \cup Finished => reply'[active'].status \in {"ok", "error"}
  <2>1. CASE active = NoMsg
    <3>1. task = "none"
      BY ZenonT(30), <2>1 DEF Inv, Lane
    <3>2. (active' = NoMsg /\ task' = "none") \/ \E item \in queue : Starts(item)
      <4>1. "none" # "running" /\ "none" \notin Replied \cup Finished
        BY ZenonT(30) DEF Replied, Finished
      <4> QED BY ZenonT(30), <2>1, <3>1, <4>1, Kinds DEF Calm, Sends, Takes, Sweep, executionVars, Releases, Interrupts, HoldEnds, Joins, Ends, Answers, Reports, Idles,
       Serves, Refuses, Holds
    <3>3. CASE active' = NoMsg /\ task' = "none"
      BY ZenonT(30), <3>3 DEF Replied, Finished
    <3>4. ASSUME NEW item \in queue, Starts(item)
          PROVE  /\ Execute(active)' /\ Began(active)' /\ task' \notin Replied \cup Finished
      <4>1. task' = "running" /\ active' = item.msg /\ published'[item.msg] = "busy" /\ Execute(item.msg) /\ request' = request
        BY ZenonT(30), <3>4 DEF Starts, Pops
      <4>2. task' \notin Replied \cup Finished
        BY ZenonT(30), <4>1 DEF Replied, Finished
      <4> QED BY ZenonT(30), <4>1, <4>2 DEF Execute, Began
    <3> QED BY ZenonT(30), <3>2, <3>3, <3>4
  <2>2. CASE active # NoMsg
    <3>0. active \in 1 .. sent /\ active \in MsgId /\ request'[active] = request[active]
      BY ZenonT(30), <1>0, <2>2 DEF Inv, Placed, SentOnly
    <3>1. CASE Reports
      <4>1. active' = active /\ reply'[active].status \in {"ok", "error"}
        BY ZenonT(30), <3>0, <3>1 DEF Reports
      <4> QED BY ZenonT(30), <2>2, <3>0, <4>1 DEF Fresh, Execute, Began
    <3>2. CASE Idles
      <4>1. active' = active /\ reply'[active] = reply[active] /\ reply[active].status \in {"ok", "error"}
        BY ZenonT(30), <3>2 DEF Idles, Fresh
      <4> QED BY ZenonT(30), <2>2, <3>0, <4>1 DEF Fresh, Execute, Began
    <3>3. CASE Joins \/ Ends
      <4>1. active' = NoMsg /\ task' = "none"
        BY ZenonT(30), <3>3 DEF Joins, Ends
      <4> QED BY ZenonT(30), <4>1 DEF Replied, Finished
    <3>4. CASE /\ active' = active /\ (task' = task \/ (task = "running" /\ task' = "crashed"))
               /\ reply'[active] = reply[active] /\ published'[active] = published[active]
      <4>1. "crashed" \notin Replied \cup Finished
        BY ZenonT(30) DEF Replied, Finished
      <4> QED BY ZenonT(30), <2>2, <3>0, <3>4, <4>1 DEF Fresh, Execute, Began
    <3> QED BY ZenonT(30), <2>2, <3>1, <3>2, <3>3, <3>4, ActiveStays
  <2> QED BY ZenonT(30), <2>1, <2>2
<1> QED BY ZenonT(30), <1>1, <1>2, <1>3, <1>4, <1>5 DEF Fresh

-----------------------------------------------------------------------------
(* Executes begin in order. *)

(* An execute begins by being popped. *)
LEMMA NewlyBegan ==
  ASSUME Inv, Inv', Fresh, Fresh', [Next]_vars, NEW k \in 1 .. sent', Execute(k)', Began(k)'
  PROVE  k \in 1 .. sent /\ Execute(k) /\ (Began(k) \/ \E item \in queue : Pops(item) /\ item.msg = k)
<1>0. sent \in Nat /\ 1 .. sent \subseteq MsgId /\ k \in MsgId
  <2>1. k \in MsgId
    BY ShellAssumption DEF Inv, TypeOK, MsgId
  <2> QED BY ZenonT(30), <2>1, Numbered
<1>1. k \in 1 .. sent
  <2> SUFFICES ASSUME k \notin 1 .. sent PROVE FALSE
    BY ZenonT(30)
  <2>1. k > sent
    BY <1>0
  <2>2. reply'[k] = reply[k] /\ published'[k] = published[k]
    BY ZenonT(30), <1>0, Changes
  <2>3. published[k] = "none" /\ reply[k].status = "none"
    BY ZenonT(30), <1>0, <2>1 DEF Fresh, Inv, Placed, SentOnly, Answered
  <2> QED BY ZenonT(30), <2>2, <2>3 DEF Began
<1>2. Execute(k)
  BY ZenonT(30), <1>1, Grows DEF Execute
<1>3. CASE reply'[k] = reply[k] /\ published'[k] = published[k]
  BY ZenonT(30), <1>1, <1>2, <1>3 DEF Began
<1>4. CASE k = held \/ k = serving \/ k = active
  <2>1. k # NoMsg
    BY <1>0 DEF MsgId, NoMsg
  <2> QED BY ZenonT(30), <1>1, <1>2, <1>4, <2>1 DEF Inv, Lane, Fresh, Began
<1>5. CASE k \in InIncoming \cup InQueue /\ k \notin {held, serving, active}
  <2>1. CASE Calm \/ Sends \/ Takes \/ Joins \/ Releases \/ Interrupts \/ Answers \/ Reports \/ Idles
    <3>1. reply'[k] = reply[k] /\ published'[k] = published[k]
      BY ZenonT(30), <1>0, <1>5, <2>1 DEF Calm, Sends, Takes, Joins, Releases, Interrupts, HoldEnds, Answers, Reports, Idles
    <3> QED BY ZenonT(30), <1>3, <3>1
  <2>2. CASE Ends
    <3>1. reply'[k] = reply[k] /\ published'[k] = published[k]
      BY ZenonT(30), <1>0, <1>5, <2>2 DEF Ends
    <3> QED BY ZenonT(30), <1>3, <3>1
  <2>3. CASE Sweep
    <3>1. reply'[k].status = "aborted" /\ published'[k] = "idle"
      BY ZenonT(30), <1>0, <1>2, <1>5, <2>3, SweepFacts DEF Waiting
    <3> QED BY ZenonT(30), <3>1 DEF Began
  <2>4. ASSUME NEW item \in queue, Pops(item)
        PROVE  Began(k) \/ \E x \in queue : Pops(x) /\ x.msg = k
    <3>1. CASE item.msg = k
      BY ZenonT(30), <2>4, <3>1
    <3>2. CASE item.msg # k
      <4>1. reply'[k] = reply[k] /\ published'[k] = published[k]
        BY ZenonT(30), <1>0, <2>4, <3>2 DEF Pops
      <4> QED BY ZenonT(30), <4>1 DEF Began
    <3> QED BY ZenonT(30), <3>1, <3>2
  <2> QED BY ZenonT(30), <1>1, <1>2, <2>1, <2>2, <2>3, <2>4, Kinds DEF Serves, Refuses, Holds, Starts
<1> QED BY ZenonT(30), <1>0, <1>3, <1>4, <1>5, Changes

(* What pop_runnable takes comes after no unanswered execute of at least   *)
(* its priority.                                                           *)
LEMMA PopsInOrder ==
  ASSUME Inv, Line, NEW item \in queue, Pops(item), Execute(item.msg), NEW a \in 1 .. sent,
         a < item.msg, Execute(a), Priority(a) >= Priority(item.msg)
  PROVE  Answered(a) \/ a \in dropped
<1> SUFFICES ASSUME ~Answered(a), a \notin dropped PROVE FALSE
  BY ZenonT(30)
<1> DEFINE b == item.msg
<1>0. /\ sent \in Nat /\ a \in MsgId /\ b \in MsgId /\ b \in 1 .. sent /\ b \in InQueue /\ serving = NoMsg
      /\ a # NoMsg
  <2>1. a # NoMsg
    BY Numbered DEF NoMsg
  <2> QED BY ZenonT(30), <2>1, PopsFacts, Numbered
<1>1. Priority(a) \in Int /\ Priority(b) \in Int /\ (held \in MsgId => Priority(held) \in Int)
  BY ZenonT(30), <1>0 DEF Inv, TypeOK, Request, Priority
<1>2. /\ active = NoMsg /\ AboveHold(b)
      /\ \A other \in queue \ {item} : Runnable(other) => Before(item, other)
  BY ZenonT(30) DEF Pops, PopRunnable, Runnable
<1>3. a \in Kept
  BY ZenonT(30) DEF Inv, Accounted
<1>4. a \notin InIncoming
  <2>1. a \in InIncoming => b < a
    BY ZenonT(30) DEF Line
  <2> QED BY <1>0, <2>1
<1>5. a # held
  <2>1. a = held => Priority(b) > Priority(a)
    BY ZenonT(30), <1>0, <1>2 DEF AboveHold
  <2> QED BY <1>1, <2>1
<1>6. a \in InQueue
  BY ZenonT(30), <1>0, <1>2, <1>3, <1>4, <1>5 DEF Kept
<1>7. PICK other \in queue : other.msg = a
  BY ZenonT(30), <1>6 DEF InQueue
<1>8. other # item
  BY <1>0, <1>7
<1>9. AboveHold(a)
  <2> SUFFICES ASSUME held # NoMsg PROVE Priority(a) > Priority(held)
    BY ZenonT(30) DEF AboveHold
  <2>1. held \in MsgId /\ Priority(b) > Priority(held)
    BY ZenonT(30), <1>2, Numbered DEF AboveHold, Inv, Placed, SentOnly
  <2> QED BY <1>1, <2>1
<1>10. Before(item, other)
  BY ZenonT(30), <1>2, <1>7, <1>8, <1>9 DEF Runnable
<1>11. item.order < other.order
  BY <1>1, <1>7, <1>10 DEF Before
<1>12. b < a
  BY ZenonT(30), <1>7, <1>11 DEF Line
<1> QED BY <1>0, <1>12

(* Every step keeps InOrder. *)
LEMMA InOrderNext ==
  ASSUME Inv, Inv', Line, Fresh, Fresh', InOrder, [Next]_vars
  PROVE  InOrder'
<1> SUFFICES ASSUME NEW a \in 1 .. sent', NEW b \in 1 .. sent', a < b, Execute(a)', Execute(b)',
                    Priority(a)' >= Priority(b)', Began(b)'
             PROVE  Answered(a)' \/ a \in dropped'
  BY ZenonT(30) DEF InOrder
<1>1. b \in 1 .. sent /\ Execute(b) /\ (Began(b) \/ \E item \in queue : Pops(item) /\ item.msg = b)
  BY ZenonT(30), NewlyBegan
<1>2. a \in 1 .. sent
  BY <1>1, Numbered
<1>3. request'[a] = request[a] /\ request'[b] = request[b] /\ a \in MsgId
  BY ZenonT(30), <1>1, <1>2, Grows
<1>4. Execute(a) /\ Priority(a) >= Priority(b)
  BY ZenonT(30), <1>3 DEF Execute, Priority
<1>5. Answered(a) \/ a \in dropped
  <2>1. CASE Began(b)
    BY ZenonT(30), <1>1, <1>2, <1>4, <2>1 DEF InOrder
  <2>2. ASSUME NEW item \in queue, Pops(item), item.msg = b PROVE Answered(a) \/ a \in dropped
    BY ZenonT(30), <1>1, <1>2, <1>4, <2>2, PopsInOrder
  <2> QED BY ZenonT(30), <1>1, <2>1, <2>2
<1> QED BY ZenonT(30), <1>3, <1>5, Grows

-----------------------------------------------------------------------------
(* What an abort is blamed on. *)

(* The session's end leaves nothing that is neither answered nor dropped. *)
LEMMA EndsFacts ==
  ASSUME Inv, Inv', Ends
  PROVE  Kept' = {} /\ \A m \in 1 .. sent : Answered(m)' \/ m \in dropped'
<1>1. /\ InIncoming' = {} /\ queue' = {} /\ held' = NoMsg /\ serving' = NoMsg /\ active' = NoMsg /\ sent' = sent
  BY ZenonT(30), EmptyChannel DEF Ends
<1>2. InQueue' = {}
  BY ZenonT(30), <1>1 DEF InQueue
<1>3. Kept' = {}
  BY ZenonT(30), <1>1, <1>2 DEF Kept
<1> QED BY ZenonT(30), <1>1, <1>3 DEF Inv, Accounted

(* An execution stays the active one until it is over, and the next one is *)
(* popped after that.                                                      *)
LEMMA ActiveStep ==
  ASSUME Inv, Inv', [Next]_vars
  PROVE  /\ \A a \in MsgId : active = a => active' \in {a, NoMsg} /\ (active' = a \/ Answered(a)' \/ a \in dropped')
         /\ active = NoMsg => active' = NoMsg \/ \E item \in queue : Starts(item)
<1>1. ASSUME NEW a \in MsgId, active = a
      PROVE  active' \in {a, NoMsg} /\ (active' = a \/ Answered(a)' \/ a \in dropped')
  <2>0. a # NoMsg
    BY DEF MsgId, NoMsg
  <2>1. CASE Joins
    <3>1. Answered(a) /\ active' = NoMsg
      BY ZenonT(30), <1>1, <2>1 DEF Joins, Inv, Lane
    <3> QED BY ZenonT(30), <3>1, Grows
  <2>2. CASE Ends
    <3>1. a \in 1 .. sent
      BY ZenonT(30), <1>1, <2>0 DEF Inv, Placed, SentOnly
    <3> QED BY ZenonT(30), <2>2, <3>1, EndsFacts DEF Ends
  <2> QED BY ZenonT(30), <1>1, <2>0, <2>1, <2>2, ActiveStays DEF Reports, Idles
<1>2. ASSUME active = NoMsg PROVE active' = NoMsg \/ \E item \in queue : Starts(item)
  BY ZenonT(30), <1>2, Kinds DEF Calm, Sends, Takes, Sweep, executionVars, Releases, Interrupts, HoldEnds, Joins, Ends, Answers, Reports, Idles,
     Serves, Refuses, Holds
<1> QED BY ZenonT(30), <1>1, <1>2

(* Only an interrupt adds to the executions that were told. *)
LEMMA RequestedStep ==
  ASSUME Inv, [Next]_vars
  PROVE  requested' = requested \/ (Interrupts /\ requested' = requested \cup ({active} \ {NoMsg}))
  BY ZenonT(30), Kinds DEF Calm, Sends, Takes, Sweep, executionVars, Releases, Interrupts, Joins, Ends, Answers, Reports, Idles,
     Serves, Refuses, Holds, Starts, Pops

(* What an abort was blamed on stays blameless. *)
LEMMA BlamelessStays ==
  ASSUME Inv, Inv', [Next]_vars, NEW c, Blameless(c)
  PROVE  Blameless(c)'
<1> SUFFICES ASSUME c # NoMsg, c \in 1 .. sent, Answered(c), c # active, c \notin requested
             PROVE  c \in 1 .. sent' /\ Answered(c)' /\ c # active' /\ c \notin requested'
  BY ZenonT(30) DEF Blameless
<1>1. c \in 1 .. sent' /\ Answered(c)'
  BY ZenonT(30), Grows
<1>2. c \notin requested'
  BY ZenonT(30), RequestedStep
<1>3. c # active'
  <2>1. ASSUME NEW item \in queue, Starts(item) PROVE c # active'
    BY ZenonT(30), <2>1, PopsFacts DEF Starts
  <2>2. active = NoMsg \/ active \in MsgId
    BY ZenonT(30), Numbered DEF Inv, Placed, SentOnly
  <2> QED BY ZenonT(30), <2>1, <2>2, ActiveStep
<1> QED BY ZenonT(30), <1>1, <1>2, <1>3

(* What has no answer and is not active was not told of an interrupt. *)
LEMMA NotRequested ==
  ASSUME Blame, NEW m, ~Answered(m), m # active, m \notin dropped
  PROVE  m \notin requested
  BY ZenonT(30) DEF Blame

(* `interrupting` still speaks of the active execution. *)
LEMMA BlameActive ==
  ASSUME Inv, Inv', Blame, [Next]_vars, active' # NoMsg
  PROVE  interrupting' <=> active' \in requested'
<1>1. CASE active = NoMsg
  <2>1. PICK item \in queue : Starts(item)
    BY ZenonT(30), <1>1, ActiveStep
  <2>2. ~interrupting' /\ active' = item.msg /\ requested' = requested /\ Pops(item)
    BY ZenonT(30), <1>1, <2>1 DEF Starts, Pops, StillInterrupting
  <2>3. item.msg \notin requested
    BY ZenonT(30), <2>2, PopsFacts, NotRequested
  <2> QED BY ZenonT(30), <2>2, <2>3
<1>2. CASE active # NoMsg
  <2>0. active \in MsgId
    BY ZenonT(30), <1>2, Numbered DEF Inv, Placed, SentOnly
  <2>1. active' = active /\ interrupting \in BOOLEAN
    BY ZenonT(30), <1>2, <2>0, ActiveStep DEF Inv, TypeOK
  <2>2. CASE Interrupts
    BY ZenonT(30), <1>2, <2>1, <2>2 DEF Interrupts
  <2>3. CASE ~Interrupts
    <3>1. requested' = requested
      BY ZenonT(30), <2>3, RequestedStep
    <3>2. interrupting' = interrupting
      <4>1. ASSUME NEW item \in queue, Pops(item) PROVE interrupting' = interrupting
        BY ZenonT(30), <1>2, <2>1, <4>1 DEF Pops, StillInterrupting
      <4> QED BY ZenonT(30), <1>2, <2>1, <2>3, <4>1, Kinds DEF Calm, Sends, Takes, Sweep, schedulerVars, Releases, Joins, Ends, Answers, Reports, Idles,
                                    Serves, Refuses, Holds, Starts
    <3> QED BY ZenonT(30), <1>2, <2>1, <3>1, <3>2 DEF Blame
  <2> QED BY ZenonT(30), <2>2, <2>3
<1> QED BY ZenonT(30), <1>1, <1>2

(* The abort that is owed is blamed on what failed. *)
LEMMA BlameSweep ==
  ASSUME Inv, Inv', Blame, [Next]_vars, pc' = "sweep", NEW c, sweep'.cause = c
  PROVE  Blameless(c)'
<1>1. CASE pc = "sweep" /\ sweep' = sweep
  BY ZenonT(30), <1>1, BlamelessStays DEF Blame
<1>2. CASE Releases
  <2>1. c = held /\ c # NoMsg /\ active' = active /\ requested' = requested /\ sent' = sent
    BY ZenonT(30), <1>2 DEF Releases, HoldEnds
  <2>2. c \in 1 .. sent /\ c \in MsgId /\ c # active /\ c \notin dropped
    BY ZenonT(30), <2>1, Numbered DEF Inv, Placed, SentOnly, Apart
  <2>3. ~Answered(c)
    <3>1. c \in Kept
      BY ZenonT(30), <2>1 DEF Kept
    <3> QED BY ZenonT(30), <2>2, <3>1 DEF Inv, Accounted
  <2>4. reply'[c].status \in {"ok", "error"}
    BY ZenonT(30), <1>2, <2>1, <2>2 DEF Releases, HoldEnds
  <2>5. Answered(c)'
    BY ZenonT(30), <2>4 DEF Answered
  <2>6. c \notin requested
    BY ZenonT(30), <2>2, <2>3, NotRequested
  <2> QED BY ZenonT(30), <2>1, <2>2, <2>5, <2>6 DEF Blameless
<1>3. CASE Interrupts
  <2>1. c = NoMsg
    BY ZenonT(30), <1>3 DEF Interrupts
  <2> QED BY ZenonT(30), <2>1 DEF Blameless
<1>4. CASE Joins
  <2>1. /\ AbortsPending /\ c = active /\ active' = NoMsg /\ task \in Finished
        /\ UNCHANGED <<sent, requested, reply>>
    BY ZenonT(30), <1>4 DEF Joins
  <2>2. c # NoMsg /\ Answered(c)
    <3>1. task # "none"
      BY ZenonT(30), <2>1 DEF Finished
    <3> QED BY ZenonT(30), <2>1, <3>1 DEF Inv, Lane
  <2>3. c \in 1 .. sent
    BY ZenonT(30), <2>1, <2>2 DEF Inv, Placed, SentOnly
  <2>4. c \notin requested
    BY ZenonT(30), <2>1, <2>2 DEF AbortsPending, Blame
  <2> QED BY ZenonT(30), <2>1, <2>2, <2>3, <2>4 DEF Blameless, Answered
<1>5. ASSUME NEW item \in queue, Refuses(item) PROVE Blameless(c)'
  <2>1. /\ c = item.msg /\ active' = active /\ requested' = requested /\ sent' = sent
        /\ reply'[item.msg].status = "error" /\ Pops(item)
    BY ZenonT(30), <1>5 DEF Refuses, Pops
  <2>2. item.msg \in 1 .. sent /\ item.msg # active /\ item.msg \notin requested
    BY ZenonT(30), <2>1, PopsFacts, NotRequested
  <2>3. Answered(item.msg)'
    BY ZenonT(30), <2>1 DEF Answered
  <2> QED BY ZenonT(30), <2>1, <2>2, <2>3 DEF Blameless
<1>6. CASE Sweep \/ Ends \/ Answers
  <2>1. ~Sweep
    <3>1. sweep.next # "sweep"
      BY ZenonT(30) DEF Inv, TypeOK, Sweeps
    <3> QED BY ZenonT(30), <3>1 DEF Sweep
  <2>2. ~Ends /\ ~Answers
    <3>1. "sweep" \notin {"ended", "failed"} /\ "sweep" # "drain"
      BY ZenonT(30)
    <3> QED BY ZenonT(30), <3>1 DEF Ends, Answers
  <2> QED BY ZenonT(30), <1>6, <2>1, <2>2
<1>7. CASE Calm \/ Sends \/ Reports \/ Idles
  <2>1. pc = "sweep" /\ sweep' = sweep
    BY ZenonT(30), <1>7 DEF Calm, Sends, Reports, Idles
  <2> QED BY ZenonT(30), <1>1, <2>1
<1> QED BY ZenonT(30), <1>2, <1>3, <1>4, <1>5, <1>6, <1>7, Kinds DEF Takes, Serves, Holds, Starts

(* Every step keeps Blame. *)
LEMMA BlameNext ==
  ASSUME Inv, Inv', Blame, [Next]_vars
  PROVE  Blame'
<1>1. ASSUME NEW m \in requested' PROVE m \in 1 .. sent' /\ (m = active' \/ Answered(m)' \/ m \in dropped')
  <2>1. (m \in requested \/ (m = active /\ active # NoMsg)) /\ 1 .. sent \subseteq MsgId
    BY ZenonT(30), <1>1, RequestedStep, Numbered
  <2>2. m \in 1 .. sent
    BY ZenonT(30), <2>1 DEF Blame, Inv, Placed, SentOnly
  <2>3. CASE m # active
    BY ZenonT(30), <2>1, <2>2, <2>3, Grows DEF Blame
  <2>4. CASE m = active
    <3>1. m # NoMsg
      BY <2>2 DEF NoMsg
    <3> QED BY ZenonT(30), <2>1, <2>2, <2>4, <3>1, ActiveStep, Grows
  <2> QED BY ZenonT(30), <2>3, <2>4
<1>2. ASSUME NEW m \in MsgId, NEW c, c = cause'[m] PROVE Blameless(c)'
  <2>1. cause' = cause \/ Sweep
    BY ZenonT(30), Kinds DEF Calm, Sends, Takes, Releases, Interrupts, HoldEnds, Joins, Ends, Answers, Reports, Idles,
       Serves, Refuses, Holds, Starts, Pops
  <2>2. CASE cause' = cause
    BY ZenonT(30), <1>2, <2>2, BlamelessStays DEF Blame
  <2>3. CASE Sweep
    <3>1. c = cause[m] \/ c = sweep.cause
      BY ZenonT(30), <1>2, <2>3, SweepFacts
    <3>2. Blameless(sweep.cause)
      BY ZenonT(30), <2>3 DEF Blame, Sweep
    <3> QED BY ZenonT(30), <3>1, <3>2, BlamelessStays DEF Blame
  <2> QED BY ZenonT(30), <2>1, <2>2, <2>3
<1>3. ASSUME NEW m \in MsgId, m \in 1 .. sent', reply'[m].status = "interrupted" PROVE request'[m].hold
  <2>0. \A s \in {"ok", "error", "aborted", "none"} : s # "interrupted"
    BY ZenonT(30)
  <2>1. CASE reply'[m] = reply[m]
    <3>1. Answered(m)
      BY ZenonT(30), <1>3, <2>1 DEF Answered
    <3>2. m \in 1 .. sent
      BY <3>1, Numbered DEF Inv, Placed, SentOnly, MsgId
    <3> QED BY ZenonT(30), <1>3, <2>1, <3>2, Grows DEF Blame
  <2>2. CASE Interrupts
    <3>1. CASE m = held
      <4>1. held # NoMsg
        BY <3>1 DEF MsgId, NoMsg
      <4> QED BY ZenonT(30), <2>2, <3>1, <4>1 DEF Interrupts, HoldEnds, Inv, Lane
    <3>2. CASE m # held
      BY ZenonT(30), <2>1, <2>2, <3>2 DEF Interrupts, HoldEnds
    <3> QED BY ZenonT(30), <3>1, <3>2
  <2>3. CASE Releases \/ Reports \/ Sweep
    <3>1. CASE Releases
      BY ZenonT(30), <1>3, <2>0, <2>1, <3>1 DEF Releases, HoldEnds
    <3>2. CASE Reports
      BY ZenonT(30), <1>3, <2>0, <2>1, <3>2 DEF Reports
    <3>3. CASE Sweep
      BY ZenonT(30), <1>3, <2>0, <2>1, <3>3, SweepFacts
    <3> QED BY ZenonT(30), <2>3, <3>1, <3>2, <3>3
  <2>4. CASE Calm \/ Sends \/ Takes \/ Joins \/ Idles \/ Ends \/ Answers
    BY ZenonT(30), <1>3, <2>1, <2>4 DEF Calm, Sends, Takes, Joins, Idles, Ends, Answers
  <2>5. ASSUME NEW item \in queue, Serves(item) \/ Refuses(item) \/ Holds(item) \/ Starts(item) PROVE request'[m].hold
    BY ZenonT(30), <1>3, <2>0, <2>1, <2>5 DEF Serves, Refuses, Holds, Starts, Pops
  <2> QED BY ZenonT(30), <2>2, <2>3, <2>4, <2>5, Kinds
<1>4. ASSUME pc' = "sweep" PROVE Blameless(sweep.cause)'
  <2>1. PICK c : c = sweep'.cause
    BY ZenonT(30)
  <2>2. Blameless(c)'
    BY ZenonT(30), <1>4, <2>1, BlameSweep
  <2> QED BY ZenonT(30), <2>1, <2>2 DEF Blameless, Answered
<1>5. ASSUME NEW m \in MsgId PROVE Blameless(cause[m])'
  <2>1. PICK c : c = cause'[m]
    BY ZenonT(30)
  <2>2. Blameless(c)'
    BY ZenonT(30), <1>2, <2>1
  <2> QED BY ZenonT(30), <2>1, <2>2 DEF Blameless, Answered
<1> QED BY ZenonT(30), <1>1, <1>3, <1>4, <1>5, BlameActive DEF Blame

-----------------------------------------------------------------------------
(* What an interrupt reaches. *)

(* The abort that is owed to an interrupt is for what was sent before it. *)
LEMMA ReachSweep ==
  ASSUME Inv, Uptos, Reach, [Next]_vars, pc' = "sweep"
  PROVE  /\ sweep'.upto <= sent'
         /\ sweep'.upto > 0 => held' = NoMsg /\ (active' = NoMsg \/ active' \in requested')
<1>0. sent \in Nat /\ sent' \in Nat /\ sent <= sent' /\ sweep.upto \in Nat
  <2>1. sent \in Nat /\ sweep.upto \in Nat
    BY ShellAssumption DEF Inv, TypeOK, Sweeps
  <2>2. sent' \in Nat
    <3>1. Inv'
      BY ZenonT(30), InvNext
    <3> QED BY <3>1, ShellAssumption DEF Inv, TypeOK
  <2> QED BY ZenonT(30), <2>1, <2>2, Grows
<1>1. CASE Calm \/ Sends \/ Reports \/ Idles
  <2>1. /\ pc = "sweep" /\ sweep' = sweep /\ UNCHANGED <<held, active, requested>>
    BY ZenonT(30), <1>1 DEF Calm, Sends, Reports, Idles
  <2>2. sweep.upto <= sent
    BY ZenonT(30), <2>1 DEF Reach
  <2>3. sweep'.upto <= sent'
    BY <1>0, <2>1, <2>2
  <2> QED BY ZenonT(30), <2>1, <2>3 DEF Reach
<1>2. ASSUME sweep'.upto = 0
      PROVE  /\ sweep'.upto <= sent'
             /\ sweep'.upto > 0 => held' = NoMsg /\ (active' = NoMsg \/ active' \in requested')
  BY <1>0, <1>2
<1>3. CASE Interrupts
  <2>1. /\ controls # <<>> /\ sweep'.upto = Head(controls).upto /\ held' = NoMsg /\ active' = active /\ sent' = sent
        /\ requested' = requested \cup ({active} \ {NoMsg})
    BY ZenonT(30), <1>3 DEF Interrupts, HoldEnds
  <2>2. Head(controls) = controls[1] /\ 1 \in DOMAIN controls
    BY <2>1 DEF Inv, TypeOK
  <2> QED BY ZenonT(30), <2>1, <2>2 DEF Uptos
<1>4. CASE Releases \/ Joins
  <2>1. sweep'.upto = 0
    BY ZenonT(30), <1>4 DEF Releases, Joins
  <2> QED BY ZenonT(30), <1>2, <2>1
<1>5. ASSUME NEW item \in queue, Refuses(item) PROVE sweep'.upto = 0
  BY ZenonT(30), <1>5 DEF Refuses
<1>6. ~Sweep
  <2>1. sweep.next # "sweep"
    BY ZenonT(30) DEF Inv, TypeOK, Sweeps
  <2> QED BY ZenonT(30), <2>1 DEF Sweep
<1>7. ~Ends /\ ~Answers
  <2>1. "sweep" \notin {"ended", "failed"} /\ "sweep" # "drain"
    BY ZenonT(30)
  <2> QED BY ZenonT(30), <2>1 DEF Ends, Answers
<1> QED BY ZenonT(30), <1>1, <1>2, <1>3, <1>4, <1>5, <1>6, <1>7, Kinds DEF Takes, Serves, Holds, Starts

(* The sweep of an interrupt leaves no execute that was sent before it. *)
LEMMA SweepReaches ==
  ASSUME Inv, Reach, Sweep, NEW m \in 1 .. sent, sweep.upto > 0, Execute(m)
  PROVE  Answered(m)' \/ m \in requested' \/ (m \in dropped' /\ request'[m].hold)
<1>1. /\ UNCHANGED <<requested, dropped, request>> /\ pc = "sweep" /\ m \in MsgId
  BY ZenonT(30), Numbered DEF Sweep, clientVars, executionVars
<1>2. held = NoMsg /\ (active = NoMsg \/ active \in requested)
  BY ZenonT(30), <1>1 DEF Reach
<1>3. serving = NoMsg /\ Live
  BY ZenonT(30), <1>1 DEF Inv, Lane, Live
<1>4. CASE Answered(m)
  <2>1. m \notin Kept
    BY ZenonT(30), <1>4 DEF Inv, Accounted
  <2>2. m \notin Waiting
    BY ZenonT(30), <2>1 DEF Waiting, Kept
  <2> QED BY ZenonT(30), <1>1, <1>4, <2>2, SweepFacts DEF Answered
<1>5. CASE m \in dropped
  BY ZenonT(30), <1>1, <1>3, <1>5 DEF Inv, DropsOnlyHolds
<1>6. CASE m \in Waiting
  <2>1. reply'[m].status = "aborted"
    BY ZenonT(30), <1>1, <1>6, SweepFacts
  <2> QED BY ZenonT(30), <2>1 DEF Answered
<1>7. CASE m \in Kept /\ m \notin Waiting
  <2>1. m = active /\ m # NoMsg
    BY ZenonT(30), <1>2, <1>3, <1>7 DEF Kept, Waiting
  <2> QED BY ZenonT(30), <1>1, <1>2, <2>1
<1> QED BY ZenonT(30), <1>4, <1>5, <1>6, <1>7 DEF Inv, Accounted

(* Every step keeps Reach. *)
LEMMA ReachNext ==
  ASSUME Inv, Inv', Uptos, Reach, [Next]_vars
  PROVE  Reach'
<1>0. /\ sent \in Nat /\ sent' \in Nat /\ sent <= sent' /\ swept \in Nat /\ sweep.upto \in Nat /\ swept <= sent
  <2>1. sent \in Nat /\ sent' \in Nat /\ swept \in Nat /\ sweep.upto \in Nat
    BY ShellAssumption DEF Inv, TypeOK, Sweeps
  <2> QED BY ZenonT(30), <2>1, Grows DEF Reach
<1>1. \/ swept' = swept
      \/ Sweep /\ swept' = sweep.upto /\ sweep.upto > 0 /\ sweep.upto <= sent
  <2>1. CASE Sweep
    <3>1. (swept' = swept \/ (sweep.upto > swept /\ swept' = sweep.upto)) /\ sweep.upto <= sent
      BY ZenonT(30), <2>1 DEF Sweep, Reach
    <3>2. sweep.upto > swept => sweep.upto > 0
      BY <1>0
    <3> QED BY ZenonT(30), <2>1, <3>1, <3>2
  <2> QED BY ZenonT(30), <2>1, Kinds DEF Calm, Sends, Takes, Releases, Interrupts, HoldEnds, Joins, Ends, Answers, Reports, Idles,
       Serves, Refuses, Holds, Starts, Pops
<1>2. swept' <= sent'
  BY <1>0, <1>1
<1>3. ASSUME NEW m \in 1 .. swept', Execute(m)'
      PROVE  Answered(m)' \/ m \in requested' \/ (m \in dropped' /\ request'[m].hold)
  <2>1. m \in 1 .. sent
    BY <1>0, <1>1
  <2>2. m \in MsgId /\ request'[m] = request[m] /\ Execute(m)
    BY ZenonT(30), <1>3, <2>1, Grows DEF Execute
  <2>3. CASE swept' = swept
    BY ZenonT(30), <2>2, <2>3, Grows DEF Reach, InterruptReachesAll
  <2>4. CASE Sweep /\ sweep.upto > 0
    BY ZenonT(30), <2>1, <2>2, <2>4, SweepReaches
  <2> QED BY ZenonT(30), <1>1, <2>3, <2>4
<1>4. InterruptReachesAll'
  BY ZenonT(30), <1>3 DEF InterruptReachesAll
<1> QED BY ZenonT(30), <1>2, <1>4, ReachSweep DEF Reach

-----------------------------------------------------------------------------
(* Stop on error, and the end. *)

(* What is doomed is not popped. *)
LEMMA DoomedStays ==
  ASSUME Inv, Doom, NEW item \in queue, Pops(item)
  PROVE  item.msg \notin doomed
<1> SUFFICES ASSUME item.msg \in doomed PROVE FALSE
  BY ZenonT(30)
<1>1. Execute(item.msg) /\ Pending
  BY ZenonT(30), PopsFacts DEF Doom
<1>2. pc = "dispatch" /\ active = NoMsg
  BY ZenonT(30), <1>1 DEF Pops, PopRunnable, Runnable
<1>3. task = "none"
  BY ZenonT(30), <1>2 DEF Inv, Lane
<1> QED BY ZenonT(30), <1>1, <1>2, <1>3 DEF Pending

(* A failure's abort stays to come until it has come. *)
LEMMA PendingStays ==
  ASSUME Inv, Inv', Blame, Doom, Pending, [Next]_vars, NEW m \in doomed, ~Answered(m), m \notin dropped
  PROVE  Answered(m)' \/ m \in dropped' \/ Pending'
<1>0. m \in 1 .. sent /\ m \in MsgId /\ Execute(m) /\ m # active /\ m # held /\ m \in Kept
  BY ZenonT(30), Numbered DEF Doom, Inv, Accounted
<1>1. CASE Ends
  BY ZenonT(30), <1>0, <1>1, EndsFacts
<1>2. CASE pc = "sweep"
  <2>0. "sweep" # "dispatch" /\ "sweep" # "serving"
    BY ZenonT(30)
  <2>1. CASE Sweep
    <3>1. serving = NoMsg
      BY ZenonT(30), <1>2, <2>0 DEF Inv, Lane
    <3>2. m \in Waiting
      BY ZenonT(30), <1>0, <3>1 DEF Kept, Waiting
    <3>3. reply'[m].status = "aborted"
      BY ZenonT(30), <1>0, <2>1, <3>2, SweepFacts
    <3> QED BY ZenonT(30), <3>3 DEF Answered
  <2>2. CASE Calm \/ Sends \/ Reports \/ Idles
    <3>1. pc' = "sweep"
      BY ZenonT(30), <1>2, <2>2 DEF Calm, Sends, Reports, Idles
    <3> QED BY ZenonT(30), <3>1 DEF Pending
  <2> QED BY ZenonT(30), <1>1, <1>2, <2>0, <2>1, <2>2, Kinds DEF Takes, Releases, Interrupts, HoldEnds, Joins, Answers,
        Serves, Refuses, Holds, Starts, Pops
<1>3. CASE pc # "sweep"
  <2>1. task \in {"error", "done_error"} /\ request[active].stop_on_error /\ active \notin requested
    BY ZenonT(30), <1>3 DEF Pending
  <2>2. task # "running" /\ task # "none" /\ (task \in Replied => task = "error") /\ (task \in Finished => task = "done_error")
    BY ZenonT(30), <2>1 DEF Replied, Finished
  <2>3. active # NoMsg
    BY ZenonT(30), <2>2 DEF Inv, Lane
  <2>4. active \in 1 .. sent /\ request'[active] = request[active]
    BY ZenonT(30), <2>3, Grows DEF Inv, Placed, SentOnly
  <2>5. ASSUME active' = active, task' = task \/ task' = "done_error", requested' = requested PROVE Pending'
    BY ZenonT(30), <2>1, <2>4, <2>5 DEF Pending
  <2>6. CASE Calm \/ Sends \/ Takes \/ Releases \/ Answers
    BY ZenonT(30), <2>2, <2>5, <2>6 DEF Calm, Sends, Takes, Releases, HoldEnds, Answers
  <2>7. CASE Sweep
    BY ZenonT(30), <1>3, <2>7 DEF Sweep
  <2>8. CASE Interrupts
    BY ZenonT(30), <2>8 DEF Interrupts, Pending
  <2>9. CASE Joins
    <3>1. AbortsPending
      BY ZenonT(30), <2>1, <2>2, <2>3, <2>9 DEF Joins, AbortsPending, Blame
    <3> QED BY ZenonT(30), <2>9, <3>1 DEF Joins, Pending
  <2>10. CASE Reports
    BY ZenonT(30), <2>2, <2>10 DEF Reports
  <2>11. CASE Idles
    BY ZenonT(30), <2>2, <2>5, <2>11 DEF Idles
  <2>12. ASSUME NEW item \in queue, Serves(item) PROVE Pending'
    BY ZenonT(30), <2>5, <2>12 DEF Serves, Pops
  <2>13. ASSUME NEW item \in queue, Refuses(item) \/ Holds(item) \/ Starts(item) PROVE FALSE
    BY ZenonT(30), <2>3, <2>13 DEF Refuses, Holds, Starts, Pops, PopRunnable, Runnable
  <2> QED BY ZenonT(30), <1>1, <2>6, <2>7, <2>8, <2>9, <2>10, <2>11, <2>12, <2>13, Kinds
<1> QED BY ZenonT(30), <1>2, <1>3

(* Every step keeps Doom. *)
LEMMA DoomNext ==
  ASSUME Inv, Inv', Fresh, Fresh', Blame, Doom, [Next]_vars
  PROVE  Doom'
<1> SUFFICES ASSUME NEW m \in doomed'
             PROVE  /\ m \in 1 .. sent' /\ Execute(m)' /\ m # active' /\ m # held' /\ ~Began(m)'
                    /\ Answered(m)' \/ m \in dropped' \/ Pending'
  BY ZenonT(30) DEF Doom
<1>1. m \in doomed \/ (Reports /\ m \in Waiting /\ task' = "error" /\ request[active].stop_on_error /\ active \notin requested)
  BY ZenonT(30), Kinds DEF Calm, Sends, Takes, Sweep, historyVars, Releases, Interrupts, HoldEnds, Joins, Ends, Answers, Reports, Idles,
       Serves, Refuses, Holds, Starts, Pops
<1>2. CASE m \in doomed
  <2>1. m \in 1 .. sent /\ Execute(m) /\ m # active /\ m # held /\ ~Began(m)
    BY ZenonT(30), <1>2 DEF Doom
  <2>2. m \in MsgId /\ m \in 1 .. sent' /\ Execute(m)'
    BY ZenonT(30), <2>1, Grows DEF Execute
  <2>3. m # NoMsg
    BY <2>2 DEF MsgId, NoMsg
  <2>4. \A item \in queue : Pops(item) => item.msg # m
    BY ZenonT(30), <1>2, DoomedStays
  <2>5. ~Began(m)'
    BY ZenonT(30), <2>1, <2>2, <2>4, NewlyBegan
  <2>6. m # active'
    <3>1. active = NoMsg \/ active \in MsgId
      BY ZenonT(30), Numbered DEF Inv, Placed, SentOnly
    <3>2. active' \in {active, NoMsg} \/ \E item \in queue : Starts(item)
      BY ZenonT(30), <3>1, ActiveStep
    <3> QED BY ZenonT(30), <2>1, <2>3, <2>4, <3>2 DEF Starts
  <2>7. m # held'
    <3>1. held' = held \/ held' = NoMsg \/ \E item \in queue : Holds(item)
      BY ZenonT(30), Kinds DEF Calm, Sends, Takes, Sweep, schedulerVars, Releases, Interrupts, HoldEnds, Joins, Ends, Answers, Reports, Idles,
         Serves, Refuses, Starts
    <3> QED BY ZenonT(30), <2>1, <2>3, <2>4, <3>1 DEF Holds
  <2>8. Answered(m)' \/ m \in dropped' \/ Pending'
    <3>1. CASE Answered(m) \/ m \in dropped
      BY ZenonT(30), <2>2, <3>1, Grows
    <3>2. CASE ~Answered(m) /\ m \notin dropped
      BY ZenonT(30), <1>2, <3>2, PendingStays DEF Doom
    <3> QED BY ZenonT(30), <3>1, <3>2
  <2> QED BY ZenonT(30), <2>2, <2>5, <2>6, <2>7, <2>8
<1>3. CASE Reports /\ m \in Waiting /\ task' = "error" /\ request[active].stop_on_error /\ active \notin requested
  <2>1. m \in InIncoming \cup InQueue /\ Execute(m) /\ m \in 1 .. sent /\ m \in MsgId
    BY ZenonT(30), <1>3, Numbered DEF Waiting
  <2>2. m \notin {held, active} /\ ~Answered(m) /\ published[m] = "none"
    BY ZenonT(30), <2>1 DEF Inv, Placed, Apart, Accounted, Kept, Fresh
  <2>3. UNCHANGED <<sent, request, held, active, requested, published>> /\ reply'[m] = reply[m]
    BY ZenonT(30), <1>3, <2>1, <2>2 DEF Reports
  <2>4. ~Began(m)'
    BY ZenonT(30), <2>2, <2>3 DEF Began, Answered
  <2>5. Pending'
    BY ZenonT(30), <1>3, <2>3 DEF Pending
  <2> QED BY ZenonT(30), <2>1, <2>2, <2>3, <2>4, <2>5 DEF Execute
<1> QED BY ZenonT(30), <1>1, <1>2, <1>3

(* Every step keeps Closing. *)
LEMMA ClosingNext ==
  ASSUME Inv, Inv', Closing, [Next]_vars
  PROVE  Closing'
<1> SUFFICES ASSUME pc' = "closing", ~ShutdownAsked'
             PROVE  queue' = {} /\ active' = NoMsg /\ held' = NoMsg /\ serving' = NoMsg
  BY ZenonT(30) DEF Closing
<1>1. ~ShutdownAsked
  BY ZenonT(30), Grows DEF ShutdownAsked
<1>2. serving' = NoMsg
  <2>1. "closing" # "serving"
    BY ZenonT(30)
  <2> QED BY ZenonT(30), <2>1 DEF Inv, Lane
<1>3. CASE Calm
  <2>1. UNCHANGED <<queue, active, held>> /\ (pc = "closing" \/ CanStop)
    BY ZenonT(30), <1>3 DEF Calm
  <2> QED BY ZenonT(30), <1>1, <1>2, <2>1 DEF Closing, CanStop
<1>4. CASE Sends \/ Reports \/ Idles
  <2>1. UNCHANGED <<queue, active, held, pc>>
    BY ZenonT(30), <1>4 DEF Sends, Reports, Idles
  <2> QED BY ZenonT(30), <1>1, <1>2, <2>1 DEF Closing
<1>5. ASSUME NEW item \in queue, Serves(item) PROVE FALSE
  <2>1. request[item.msg].type = "shutdown" /\ Answered(item.msg)' /\ UNCHANGED <<sent, request>> /\ Pops(item)
    BY ZenonT(30), <1>5 DEF Serves, Pops
  <2>2. item.msg \in 1 .. sent
    BY ZenonT(30), <2>1, PopsFacts
  <2> QED BY ZenonT(30), <2>1, <2>2 DEF ShutdownAsked
<1>6. ~Sweep
  <2>1. sweep.next # "closing"
    BY ZenonT(30) DEF Inv, TypeOK, Sweeps
  <2> QED BY ZenonT(30), <2>1 DEF Sweep
<1>7. ~Ends /\ ~Answers /\ \A item \in queue : ~Refuses(item)
  <2>1. "closing" \notin {"ended", "failed"} /\ "closing" # "drain" /\ "closing" # "sweep"
    BY ZenonT(30)
  <2> QED BY ZenonT(30), <2>1 DEF Ends, Answers, Refuses
<1> QED BY ZenonT(30), <1>3, <1>4, <1>5, <1>6, <1>7, Kinds DEF Takes, Releases, Interrupts, HoldEnds, Joins, Holds, Starts

-----------------------------------------------------------------------------
(* Initially nothing was sent and nobody is blamed. *)
LEMMA DeepInit == Init => Uptos /\ Deep
<1> SUFFICES ASSUME Init PROVE Uptos /\ Deep
  BY ZenonT(30)
<1>0. /\ sent = 0 /\ incoming = <<>> /\ controls = <<>> /\ pc = "drain" /\ queue = {} /\ held = NoMsg /\ serving = NoMsg
      /\ active = NoMsg /\ task = "none" /\ requested = {} /\ swept = 0 /\ doomed = {}
      /\ published = [m \in MsgId |-> "none"] /\ cause = [m \in MsgId |-> NoMsg]
  BY ZenonT(30) DEF Init
<1>1. 1 .. sent = {} /\ 1 .. swept = {} /\ swept <= sent /\ DOMAIN incoming = {} /\ DOMAIN controls = {}
  BY <1>0
<1>2. InIncoming = {} /\ InQueue = {}
  BY ZenonT(30), <1>0, <1>1 DEF InIncoming, InQueue
<1>3. pc # "sweep" /\ pc # "closing" /\ task \notin Replied \cup Finished
  BY ZenonT(30), <1>0 DEF Replied, Finished
<1>4. \A m \in MsgId : published[m] = "none" /\ cause[m] = NoMsg
  BY ZenonT(30), <1>0
<1>5. Line
  BY ZenonT(30), <1>0, <1>1, <1>2 DEF Line
<1>6. Fresh
  BY ZenonT(30), <1>0, <1>2, <1>3, <1>4 DEF Fresh
<1>7. Blame
  BY ZenonT(30), <1>0, <1>1, <1>3, <1>4 DEF Blame, Blameless
<1>8. Reach /\ InOrder
  BY ZenonT(30), <1>1, <1>3 DEF Reach, InterruptReachesAll, InOrder
<1>9. Doom /\ Closing /\ Uptos
  BY ZenonT(30), <1>0, <1>1, <1>3 DEF Doom, Closing, Uptos
<1> QED BY ZenonT(30), <1>5, <1>6, <1>7, <1>8, <1>9 DEF Deep

(* The second invariant holds: arrival order, what has begun, whom aborts  *)
(* are blamed on, what interrupts reached, what is doomed and what a stop  *)
(* leaves.                                                                 *)
THEOREM DeepInvariance == Spec => [](Inv /\ Uptos /\ Deep)
<1>1. Init => Inv /\ Uptos /\ Deep
  BY ZenonT(30), InvInit, DeepInit
<1>2. ASSUME Inv, Uptos, Deep, [Next]_vars PROVE (Inv /\ Uptos /\ Deep)'
  <2>1. Inv' /\ Uptos'
    BY ZenonT(30), <1>2, InvNext, UptosNext
  <2>2. Line' /\ Fresh'
    BY ZenonT(30), <1>2, <2>1, LineNext, FreshNext DEF Deep
  <2>3. InOrder' /\ Blame' /\ Reach'
    BY ZenonT(30), <1>2, <2>1, <2>2, InOrderNext, BlameNext, ReachNext DEF Deep
  <2>4. Doom' /\ Closing'
    BY ZenonT(30), <1>2, <2>1, <2>2, DoomNext, ClosingNext DEF Deep
  <2> QED BY ZenonT(30), <2>1, <2>2, <2>3, <2>4 DEF Deep
<1> QED BY <1>1, <1>2, PTL DEF Spec

(* Executes of one session begin in the order of priority and arrival: the *)
(* heap of `enqueue` and pop_runnable, with the hold and the serial lane.  *)
THEOREM BeginInOrder == Spec => []InOrder
<1>1. Inv /\ Uptos /\ Deep => InOrder
  BY ZenonT(30) DEF Deep
<1> QED BY <1>1, DeepInvariance, PTL

(* An interrupt reaches every execute that was sent before it: those that  *)
(* apply_control's sweep finds are answered, the running one is told.      *)
THEOREM InterruptsReach == Spec => []InterruptReachesAll
<1>1. Inv /\ Uptos /\ Deep => InterruptReachesAll
  BY ZenonT(30) DEF Deep, Reach
<1> QED BY <1>1, DeepInvariance, PTL

(* An execute that waited when a cell's failure was reported never begins: *)
(* abort_pending gets it before pop_runnable does.                         *)
THEOREM FailureStops == Spec => []StopOnError
<1>1. Inv /\ Uptos /\ Deep => StopOnError
  BY ZenonT(30) DEF Deep, Doom, StopOnError
<1> QED BY <1>1, DeepInvariance, PTL

(* The failure of an interrupted cell aborts nothing, and only holds are   *)
(* answered with KeyboardInterrupt by the scheduler.                       *)
THEOREM LaterWorkSpared == Spec => []InterruptSparesLaterWork
<1>1. ASSUME Inv, Uptos, Deep PROVE InterruptSparesLaterWork
  <2> SUFFICES ASSUME NEW m \in 1 .. sent
               PROVE  cause[m] \notin requested /\ (reply[m].status = "interrupted" => request[m].hold)
    BY ZenonT(30) DEF InterruptSparesLaterWork
  <2>1. m \in MsgId
    BY ZenonT(30), <1>1, Numbered
  <2>2. NoMsg \notin requested
    BY <1>1 DEF Inv, TypeOK, MsgId, NoMsg
  <2> QED BY ZenonT(30), <1>1, <2>1, <2>2 DEF Deep, Blame, Blameless
<1> QED BY <1>1, DeepInvariance, PTL

(* A session that closes for a Stop has served its queue, and all that was *)
(* sent before an interrupt.                                               *)
THEOREM StopServes == Spec => []StopServesTheQueue
<1>1. ASSUME Inv, Uptos, Deep PROVE StopServesTheQueue
  <2> SUFFICES ASSUME pc = "closing", ~ShutdownAsked
               PROVE  /\ Kept \subseteq InIncoming
                      /\ \A m \in 1 .. swept : Execute(m) => Answered(m) \/ m \in dropped
    BY ZenonT(30) DEF StopServesTheQueue
  <2>1. queue = {} /\ active = NoMsg /\ held = NoMsg /\ serving = NoMsg
    BY ZenonT(30), <1>1 DEF Deep, Closing
  <2>2. Kept \subseteq InIncoming
    BY ZenonT(30), <2>1 DEF Kept, InQueue
  <2>3. ASSUME NEW m \in 1 .. swept, Execute(m) PROVE Answered(m) \/ m \in dropped
    <3>1. m # NoMsg
      BY <1>1 DEF Inv, TypeOK, NoMsg
    <3>2. Answered(m) \/ m \in requested \/ m \in dropped
      BY ZenonT(30), <1>1, <2>3 DEF Deep, Reach, InterruptReachesAll
    <3> QED BY ZenonT(30), <1>1, <2>1, <3>1, <3>2 DEF Deep, Blame
  <2> QED BY ZenonT(30), <2>2, <2>3
<1> QED BY <1>1, DeepInvariance, PTL
=============================================================================
