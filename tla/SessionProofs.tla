--------------------------- MODULE SessionProofs ---------------------------
(***************************************************************************)
(* Proofs about ThreadWorker and the child session that owns one, for any  *)
(* number of callers, jobs and late exits.  The answers are true because   *)
(* the channel holds exactly the jobs that were not taken yet, in the      *)
(* order of their numbers: a job whose answer is awaited is among them,    *)
(* and what became of the earlier ones does not change any more.           *)
(***************************************************************************)
EXTENDS ChildSession, TLAPS

(* Leaves are given 30 seconds of the SMT solver; those it does not find  *)
(* name Zenon.                                                             *)
USE SMTT(30)

(* The jobs that were taken from the channel and are done. *)
Taken == Len(sent) - Len(jobs)
Working == worker \in {"running", "dropping"}

Channel ==
  /\ Taken \in Nat
  /\ \A k \in 1 .. Len(jobs) : jobs[k] = Taken + k
  /\ worker \in {"none", "creating", "ended"} => jobs = <<>>
  /\ worker = "none" => sent = <<>> /\ \A j \in Job : fate[j] = "none"
  /\ Working => /\ jobs # <<>>
                /\ fate[Taken + 1] = "begun"
                /\ (worker = "dropping") <=> (sent[Taken + 1] = "stop")

Fates ==
  /\ Alive => \A j \in 1 .. Taken : fate[j] \in {"ran", "panicked"}
  /\ Alive /\ worker # "leaving" => \A j \in 1 .. Taken : fate[j] = "ran"
  /\ Alive => \A j \in Job : j > Taken /\ ~(Working /\ j = Taken + 1) => fate[j] = "none"

Awaited(c) ==
  /\ call[c] = "waiting" => Alive /\ job[c] \in Taken + 1 .. Len(sent)
  /\ call[c] \in {"ok", "closed"} /\ job[c] # NoJob => job[c] \in 1 .. Len(sent) /\ (Alive => job[c] <= Taken)
  /\ call[c] = "ok" => job[c] # NoJob
  /\ call[c] = "idle" => job[c] = NoJob
  /\ call[c] = "ok" /\ sent[job[c]] = "stop" => worker \in {"leaving", "ended"}

WorkerInv ==
  /\ WorkerTypeOK /\ Channel /\ Fates
  /\ worker \in {"none", "creating"} => started # "ok" /\ interpreter = "none"
  /\ \A c \in Callers : Awaited(c) /\ TrueAnswer(c)

(* What the session's shutdown has seen of the worker. *)
Ending ==
  /\ shutdown = "called" /\ call["shell"] \in {"waiting", "ok"} => sent[job["shell"]] = "stop"
  /\ shutdown = "ok" => interpreter = "dropped" /\ worker \in {"leaving", "ended"}
  /\ session = "down" => child = "ended"
  /\ session # "none" => creator = "done"
  /\ child \in {"binding", "serving"} => started = "ok"

IInv == TypeOK /\ WorkerInv /\ Ending

-----------------------------------------------------------------------------
(* Lengths are natural numbers. *)
LEMMA Lengths ==
  ASSUME WorkerTypeOK
  PROVE  Len(sent) \in Nat /\ Len(jobs) \in Nat
  BY DEF WorkerTypeOK

(* The invariant holds before the session is created. *)
LEMMA InitInv == Init => IInv
  <1> SUFFICES ASSUME Init PROVE IInv
    OBVIOUS
  <1>1. TypeOK
    <2>1. <<>> \in Seq(Job) /\ <<>> \in Seq({"call", "stop"}) /\ Len(<<>>) = 0
      OBVIOUS
    <2>2. WorkerTypeOK
      BY <2>1, ChildAssumption DEF Init, WorkerInit, WorkerTypeOK
    <2>3. eventLoop \in BOOLEAN /\ raised \in BOOLEAN
      BY ZenonT(30) DEF Init
    <2> QED
      BY <2>2, <2>3, ChildAssumption DEF Init, TypeOK
  <1>2. WorkerInv
    <2>1. Taken = 0
      BY DEF Init, WorkerInit, Taken
    <2>2. Channel
      BY <2>1 DEF Init, WorkerInit, Channel, Working
    <2>3. Fates
      BY <2>1 DEF Init, WorkerInit, Fates, Alive
    <2>4. \A c \in Callers : Awaited(c) /\ TrueAnswer(c)
      BY ZenonT(30) DEF Init, WorkerInit, Awaited, TrueAnswer
    <2> QED
      BY <1>1, <2>2, <2>3, <2>4 DEF WorkerInv, TypeOK, Init, WorkerInit
  <1>3. Ending
    BY DEF Init, WorkerInit, Ending
  <1> QED
    BY <1>1, <1>2, <1>3 DEF IInv

-----------------------------------------------------------------------------
(* The worker's thread. *)

(* A step that takes, adds and answers no job keeps the invariant if the   *)
(* thread stays where its jobs are.                                        *)
LEMMA Quiet ==
  ASSUME WorkerInv, WorkerTypeOK',
         jobs' = jobs, sent' = sent, call' = call, job' = job, fate' = fate,
         interpreter = "dropped" => interpreter' = "dropped",
         \/ worker' = worker
         \/ worker = "none" /\ worker' = "creating"
         \/ worker = "creating" /\ worker' \in {"ready", "ended"}
         \/ worker = "ready" /\ worker' = "leaving",
         worker' \in {"none", "creating"} => started' # "ok" /\ interpreter' = "none"
  PROVE  WorkerInv'
  <1>1. Taken' = Taken
    BY DEF Taken
  <1>2. Channel'
    BY <1>1 DEF WorkerInv, Channel, Working
  <1>3. worker = "none" => Taken = 0
    BY DEF WorkerInv, Channel, Taken
  <1>4. Fates'
    <2>1. CASE worker = "none"
      BY <1>1, <1>3, <2>1 DEF WorkerInv, Channel, Fates
    <2>2. CASE worker # "none"
      <3>1. Fates /\ (Alive' => Alive) /\ (Alive' => (Working' <=> Working))
            /\ (worker = "leaving" => worker' = "leaving")
        BY <2>2 DEF WorkerInv, Alive, Working
      <3> QED
        BY <1>1, <3>1 DEF Fates
    <2> QED
      BY <2>1, <2>2
  <1>5. ASSUME NEW c \in Callers PROVE Awaited(c)'
    <2>1. worker \in {"none", "creating"} => call[c] # "waiting"
      BY Lengths DEF WorkerInv, Channel, Awaited, Taken
    <2>2. worker = "none" => call[c] = "idle" \/ job[c] = NoJob
      BY <2>1 DEF WorkerInv, WorkerTypeOK, Channel, Awaited
    <2>3. Awaited(c)
      BY DEF WorkerInv
    <2> QED
      BY <1>1, <2>1, <2>2, <2>3 DEF Awaited, Alive, WorkerInv, WorkerTypeOK
  <1>6. ASSUME NEW c \in Callers PROVE TrueAnswer(c)'
    BY DEF WorkerInv, TrueAnswer
  <1> QED
    BY <1>2, <1>4, <1>5, <1>6 DEF WorkerInv

(* Such are the steps at the start and the end of the thread. *)
LEMMA QuietSteps ==
  ASSUME WorkerInv, NEW h,
         Start(h) \/ Create \/ CreateFails \/ Disconnected \/ DropState \/ Release(h)
  PROVE  WorkerInv'
  <1>1. CASE Start(h)
    <2>1. WorkerTypeOK'
      BY <1>1 DEF WorkerInv, WorkerTypeOK, Start
    <2>2. started # "ok" /\ interpreter = "none"
      BY <1>1 DEF WorkerInv, Start
    <2> QED
      BY <1>1, <2>1, <2>2, Quiet DEF Start
  <1>2. CASE Create
    <2>1. WorkerTypeOK'
      BY <1>2 DEF WorkerInv, WorkerTypeOK, Create
    <2>2. interpreter # "dropped"
      BY <1>2 DEF WorkerInv, Create
    <2> QED
      BY <1>2, <2>1, <2>2, Quiet DEF Create
  <1>3. CASE CreateFails
    <2>1. WorkerTypeOK'
      BY <1>3 DEF WorkerInv, WorkerTypeOK, CreateFails
    <2> QED
      BY <1>3, <2>1, Quiet DEF CreateFails
  <1>4. CASE Disconnected
    <2>1. WorkerTypeOK'
      BY <1>4 DEF WorkerInv, WorkerTypeOK, Disconnected
    <2> QED
      BY <1>4, <2>1, Quiet DEF Disconnected
  <1>5. CASE DropState
    <2>1. WorkerTypeOK'
      BY <1>5 DEF WorkerInv, WorkerTypeOK, DropState
    <2> QED
      BY <1>5, <2>1, Quiet DEF DropState, WorkerInv
  <1>6. CASE Release(h)
    <2>1. WorkerTypeOK'
      BY <1>6 DEF WorkerInv, WorkerTypeOK, Release
    <2> QED
      BY <1>6, <2>1, Quiet DEF Release, WorkerInv
  <1> QED
    BY <1>1, <1>2, <1>3, <1>4, <1>5, <1>6

(* recv() gives the first job of the channel. *)
LEMMA ReceiveInv ==
  ASSUME WorkerInv, Receive
  PROVE  WorkerInv'
  <1>0. /\ worker = "ready" /\ jobs # <<>> /\ jobs' = jobs /\ sent' = sent /\ call' = call /\ job' = job
        /\ interpreter' = interpreter /\ started' = started
        /\ worker' = IF sent[Head(jobs)] = "stop" THEN "dropping" ELSE "running"
        /\ fate' = [fate EXCEPT ![Head(jobs)] = "begun"]
    BY DEF Receive
  <1>1. Taken' = Taken /\ Taken \in Nat
    BY <1>0 DEF Taken, WorkerInv, Channel
  <1>2. Head(jobs) = Taken + 1 /\ Head(jobs) \in Job
    <2>1. Head(jobs) = jobs[1] /\ Len(jobs) >= 1 /\ Head(jobs) \in Job
      BY <1>0 DEF WorkerInv, WorkerTypeOK
    <2> QED
      BY <2>1 DEF WorkerInv, WorkerTypeOK, Channel
  <1>3. WorkerTypeOK'
    BY <1>0, <1>2 DEF WorkerInv, WorkerTypeOK
  <1>4. /\ fate'[Taken + 1] = "begun"
        /\ \A j \in Job : j # Taken + 1 => fate'[j] = fate[j]
    BY <1>0, <1>2 DEF WorkerInv, WorkerTypeOK
  <1>5. Channel'
    BY <1>0, <1>1, <1>2, <1>4 DEF WorkerInv, Channel, Working
  <1>6. Fates'
    <2>1. \A j \in 1 .. Taken : j \in Job /\ j # Taken + 1
      BY <1>1, <1>2, ChildAssumption DEF Job
    <2>2. Fates /\ Alive /\ ~Working
      BY <1>0 DEF WorkerInv, Alive, Working
    <2> QED
      BY <1>0, <1>1, <1>4, <2>1, <2>2 DEF Fates, Working
  <1>7. ASSUME NEW c \in Callers PROVE Awaited(c)'
    BY <1>0, <1>1 DEF WorkerInv, Awaited, Alive
  <1>8. ASSUME NEW c \in Callers PROVE TrueAnswer(c)'
    <2>1. call[c] \in {"ok", "closed"} /\ job[c] # NoJob => job[c] \in 1 .. Taken
      BY <1>0, <1>1 DEF WorkerInv, Awaited, Alive
    <2>2. \A j \in 1 .. Taken : fate'[j] = fate[j]
      BY <1>1, <1>2, <1>4, ChildAssumption DEF Job
    <2>3. call[c] = "ok" => sent[job[c]] # "stop"
      BY <1>0 DEF WorkerInv, Awaited
    <2> QED
      BY <1>0, <2>1, <2>2, <2>3 DEF WorkerInv, TrueAnswer
  <1> QED
    BY <1>0, <1>3, <1>5, <1>6, <1>7, <1>8 DEF WorkerInv

(* A job ends: with its result, in a panic, or as the last one. *)
LEMMA TakeInv ==
  ASSUME WorkerInv, NEW f, NEW a,
         jobs' = Tail(jobs), fate' = [fate EXCEPT ![Head(jobs)] = f], call' = Answered(Head(jobs), a),
         job' = job, sent' = sent, interpreter' = interpreter, started' = started,
         \/ worker = "running" /\ worker' = "ready" /\ f = "ran" /\ a = "ok"
         \/ worker = "running" /\ worker' = "leaving" /\ f = "panicked" /\ a = "closed"
         \/ worker = "dropping" /\ worker' = "leaving" /\ f = "ran" /\ a = "ok" /\ interpreter = "dropped"
  PROVE  WorkerInv'
  <1>0. /\ Working /\ Alive /\ Alive' /\ ~Working' /\ jobs # <<>> /\ jobs \in Seq(Job) /\ Taken \in Nat
        /\ (worker = "dropping") <=> (sent[Taken + 1] = "stop")
    BY DEF Working, Alive, WorkerInv, WorkerTypeOK, Channel
  <1>1. Head(jobs) = jobs[1] /\ Len(jobs) >= 1 /\ Head(jobs) \in Job
        /\ Len(Tail(jobs)) = Len(jobs) - 1 /\ Tail(jobs) \in Seq(Job)
        /\ \A k \in 1 .. Len(jobs) - 1 : Tail(jobs)[k] = jobs[k + 1]
    BY <1>0
  <1>2. Head(jobs) = Taken + 1 /\ Taken + 1 \in Job
    BY <1>1 DEF WorkerInv, WorkerTypeOK, Channel
  <1>3. Taken' = Taken + 1 /\ Taken + 1 <= Len(sent) /\ Len(sent) \in Nat
    BY <1>1, Lengths DEF Taken, WorkerInv
  <1>4. /\ fate'[Taken + 1] = f
        /\ \A j \in Job : j # Taken + 1 => fate'[j] = fate[j]
    BY <1>2 DEF WorkerInv, WorkerTypeOK
  <1>5. WorkerTypeOK'
    <2>1. fate' \in [Job -> {"none", "begun", "ran", "panicked"}]
      BY <1>2 DEF WorkerInv, WorkerTypeOK
    <2>2. call' \in [Callers -> {"idle", "waiting", "ok", "closed"}]
      BY DEF Answered, WorkerInv, WorkerTypeOK
    <2> QED
      BY <1>1, <2>1, <2>2 DEF WorkerInv, WorkerTypeOK
  <1>6. Channel'
    <2>1. \A k \in 1 .. Len(jobs') : jobs'[k] = Taken + 1 + k
      <3>1. \A k \in 1 .. Len(jobs) - 1 : k + 1 \in 1 .. Len(jobs) /\ Taken + (k + 1) = Taken + 1 + k
        BY <1>0, <1>1
      <3> QED
        BY <1>1, <3>1 DEF WorkerInv, Channel
    <2> QED
      BY <1>0, <1>3, <2>1 DEF Channel
  <1>7. \A j \in 1 .. Taken : fate'[j] = "ran"
    <2>1. \A j \in 1 .. Taken : j \in Job /\ j # Taken + 1
      BY <1>0, <1>2, ChildAssumption DEF Job
    <2>2. Fates /\ worker # "leaving"
      BY DEF WorkerInv
    <2> QED
      BY <1>0, <1>4, <2>1, <2>2 DEF Fates
  <1>8. Fates'
    <2>1. \A j \in 1 .. Taken + 1 : j = Taken + 1 \/ j \in 1 .. Taken
      BY <1>0
    <2>2. Fates /\ f \in {"ran", "panicked"} /\ (worker' # "leaving" => f = "ran")
      BY DEF WorkerInv
    <2>3. \A j \in Job : j > Taken + 1 => fate'[j] = "none"
      <3>1. ASSUME NEW j \in Job, j > Taken + 1 PROVE j > Taken /\ j # Taken + 1
        BY <1>0, <3>1, ChildAssumption DEF Job
      <3> QED
        BY <1>0, <1>4, <2>2, <3>1 DEF Fates
    <2> QED
      BY <1>0, <1>3, <1>4, <1>7, <2>1, <2>2, <2>3 DEF Fates
  <1>9. ASSUME NEW c \in Callers PROVE Awaited(c)' /\ TrueAnswer(c)'
    <2>0. Awaited(c) /\ TrueAnswer(c) /\ call[c] \in {"idle", "waiting", "ok", "closed"}
      BY DEF WorkerInv, WorkerTypeOK
    <2>1. CASE call[c] = "waiting" /\ job[c] = Taken + 1
      <3>1. call'[c] = a /\ job'[c] = Taken + 1 /\ a \in {"ok", "closed"} /\ Taken + 1 # NoJob
        BY <1>0, <1>2, <2>1 DEF Answered, NoJob
      <3>2. Awaited(c)'
        BY <1>0, <1>3, <3>1 DEF Awaited
      <3>3. a = "ok" => \A j \in 1 .. Taken + 1 : fate'[j] = "ran"
        <4>1. a = "ok" => f = "ran"
          OBVIOUS
        <4> QED
          BY <4>1, <1>0, <1>4, <1>7
      <3>4. TrueAnswer(c)'
        BY <1>0, <1>4, <3>1, <3>3 DEF TrueAnswer
      <3> QED
        BY <3>2, <3>4
    <2>2. CASE ~(call[c] = "waiting" /\ job[c] = Taken + 1)
      <3>1. call'[c] = call[c] /\ job'[c] = job[c]
        BY <1>2, <2>2 DEF Answered
      <3>2. Awaited(c)'
        BY <1>0, <1>3, <2>0, <2>2, <3>1 DEF Awaited, WorkerInv, WorkerTypeOK
      <3>3. call[c] \in {"ok", "closed"} /\ job[c] # NoJob => job[c] \in 1 .. Taken
        BY <1>0, <2>0 DEF Awaited
      <3>4. \A j \in 1 .. Taken : fate'[j] = fate[j]
        BY <1>0, <1>2, <1>4, ChildAssumption DEF Job
      <3>5. call[c] = "ok" => sent[job[c]] # "stop"
        BY <2>0 DEF Awaited
      <3>6. TrueAnswer(c)'
        BY <2>0, <3>1, <3>3, <3>4, <3>5 DEF TrueAnswer
      <3> QED
        BY <3>2, <3>6
    <2> QED
      BY <2>1, <2>2
  <1> QED
    BY <1>5, <1>6, <1>8, <1>9 DEF WorkerInv

(* Such are the three ends of a job. *)
LEMMA TakeSteps ==
  ASSUME WorkerInv, Ran \/ Panics \/ Stopped
  PROVE  WorkerInv'
  <1>1. CASE Ran
    BY <1>1, TakeInv, ZenonT(30) DEF Ran
  <1>2. CASE Panics
    BY <1>2, TakeInv, ZenonT(30) DEF Panics
  <1>3. CASE Stopped
    BY <1>3, TakeInv, ZenonT(30) DEF Stopped, Stopped_First
  <1> QED
    BY <1>1, <1>2, <1>3

(* The thread ends; nobody waits for what is left in the channel. *)
LEMMA LeaveInv ==
  ASSUME WorkerInv, Leave
  PROVE  WorkerInv'
  <1>0. /\ worker = "leaving" /\ worker' = "ended" /\ interpreter' = "dropped" /\ jobs' = <<>>
        /\ call' = [c \in Callers |-> IF call[c] = "waiting" THEN "closed" ELSE call[c]]
        /\ started' = started /\ job' = job /\ sent' = sent /\ fate' = fate
    BY DEF Leave
  <1>1. Taken' = Len(sent) /\ Len(sent) \in Nat
    BY <1>0, Lengths DEF Taken, WorkerInv
  <1>2. WorkerTypeOK'
    <2>1. call' \in [Callers -> {"idle", "waiting", "ok", "closed"}]
      BY <1>0 DEF WorkerInv, WorkerTypeOK
    <2>2. jobs' \in Seq(Job)
      BY <1>0
    <2> QED
      BY <1>0, <2>1, <2>2 DEF WorkerInv, WorkerTypeOK
  <1>3. Channel' /\ Fates'
    BY <1>0, <1>1 DEF Channel, Fates, Working, Alive
  <1>4. ASSUME NEW c \in Callers PROVE Awaited(c)' /\ TrueAnswer(c)'
    <2>0. Awaited(c) /\ TrueAnswer(c) /\ call[c] \in {"idle", "waiting", "ok", "closed"}
      BY DEF WorkerInv, WorkerTypeOK
    <2>1. CASE call[c] = "waiting"
      <3>1. call'[c] = "closed" /\ job[c] \in Taken + 1 .. Len(sent) /\ Taken \in Nat /\ job[c] \in Job
            /\ job[c] \in 1 .. Len(sent)
        <4>1. call'[c] = "closed" /\ job[c] \in Taken + 1 .. Len(sent) /\ Taken \in Nat
          BY <1>0, <2>0, <2>1 DEF Awaited, WorkerInv, Channel
        <4>2. Len(sent) <= MaxJobs
          BY DEF WorkerInv, WorkerTypeOK
        <4> QED
          BY <1>1, <4>1, <4>2, ChildAssumption DEF Job
      <3>2. fate[job[c]] = "none"
        BY <1>0, <3>1 DEF WorkerInv, Fates, Alive, Working
      <3> QED
        BY <1>0, <3>1, <3>2 DEF Awaited, TrueAnswer, Alive
    <2>2. CASE call[c] # "waiting"
      <3>1. call'[c] = call[c]
        BY <1>0, <2>2
      <3> QED
        BY <1>0, <2>0, <2>2, <3>1 DEF Awaited, TrueAnswer, Alive
    <2> QED
      BY <2>1, <2>2
  <1> QED
    BY <1>0, <1>2, <1>3, <1>4 DEF WorkerInv

-----------------------------------------------------------------------------
(* Callers. *)

(* A job is added at the end of the channel, or refused. *)
LEMMA CallInv ==
  ASSUME WorkerInv, NEW d \in Callers, NEW type \in {"call", "stop"}, Call(d, type),
         worker \notin {"none", "creating"}
  PROVE  WorkerInv'
  <1>1. CASE Alive
    <2>0. /\ sent' = Append(sent, type) /\ jobs' = Append(jobs, Len(sent')) /\ Len(sent) < MaxJobs
          /\ job' = [job EXCEPT ![d] = Len(sent')] /\ call' = [call EXCEPT ![d] = "waiting"] /\ call[d] = "idle"
          /\ worker' = worker /\ interpreter' = interpreter /\ started' = started /\ fate' = fate
      BY <1>1 DEF Call
    <2>1. /\ Len(sent) \in Nat /\ Len(jobs) \in Nat /\ Len(sent') = Len(sent) + 1 /\ Len(jobs') = Len(jobs) + 1
          /\ sent'[Len(sent) + 1] = type /\ \A k \in 1 .. Len(sent) : sent'[k] = sent[k]
          /\ jobs'[Len(jobs) + 1] = Len(sent) + 1 /\ \A k \in 1 .. Len(jobs) : jobs'[k] = jobs[k]
      BY <2>0 DEF WorkerInv, WorkerTypeOK
    <2>2. Taken' = Taken /\ Taken \in Nat /\ Taken + Len(jobs) = Len(sent)
      BY <2>1 DEF Taken, WorkerInv, Channel
    <2>3. WorkerTypeOK'
      <3>1. Len(sent) + 1 \in Job
        BY <2>0, <2>1, ChildAssumption DEF Job
      <3>2. jobs' \in Seq(Job) /\ sent' \in Seq({"call", "stop"})
        BY <2>0, <2>1, <3>1 DEF WorkerInv, WorkerTypeOK
      <3>3. Len(sent') <= MaxJobs
        BY <2>0, <2>1, ChildAssumption
      <3> QED
        BY <2>0, <2>1, <3>1, <3>2, <3>3 DEF WorkerInv, WorkerTypeOK
    <2>4. Channel'
      <3>1. \A k \in 1 .. Len(jobs) + 1 : k = Len(jobs) + 1 \/ k \in 1 .. Len(jobs)
        BY <2>1
      <3>2. \A k \in 1 .. Len(jobs') : jobs'[k] = Taken + k
        BY <2>1, <2>2, <3>1 DEF WorkerInv, Channel
      <3>3. Working => Taken + 1 \in 1 .. Len(sent)
        BY <2>1, <2>2 DEF WorkerInv, WorkerTypeOK, Channel
      <3>4. jobs' # <<>>
        BY <2>1
      <3>5. worker \notin {"none", "creating", "ended"}
        BY <1>1 DEF Alive
      <3> QED
        BY <2>0, <2>1, <2>2, <3>2, <3>3, <3>4, <3>5 DEF WorkerInv, Channel, Working
    <2>5. Fates'
      BY <2>0, <2>2 DEF WorkerInv, Fates, Alive, Working
    <2>6. ASSUME NEW c \in Callers PROVE Awaited(c)' /\ TrueAnswer(c)'
      <3>0. Awaited(c) /\ TrueAnswer(c)
        BY DEF WorkerInv
      <3>1. CASE c = d
        <4>1. call'[c] = "waiting" /\ job'[c] = Len(sent) + 1
          BY <2>0, <2>1, <3>1 DEF WorkerInv, WorkerTypeOK
        <4>2. Len(sent) + 1 \in Taken + 1 .. Len(sent) + 1
          BY <2>1, <2>2
        <4> QED
          BY <1>1, <2>0, <2>1, <2>2, <4>1, <4>2 DEF Awaited, TrueAnswer, Alive
      <3>2. CASE c # d
        <4>1. call'[c] = call[c] /\ job'[c] = job[c]
          BY <2>0, <3>2 DEF WorkerInv, WorkerTypeOK
        <4>2. call[c] \in {"ok", "closed"} /\ job[c] # NoJob => job[c] \in 1 .. Len(sent)
          BY <3>0 DEF Awaited
        <4>3. call[c] = "ok" => job[c] # NoJob /\ sent'[job[c]] = sent[job[c]]
          BY <2>1, <3>0, <4>2 DEF Awaited
        <4>4. Awaited(c)'
          BY <1>1, <2>0, <2>1, <2>2, <3>0, <4>1, <4>2, <4>3 DEF Awaited, Alive
        <4>5. TrueAnswer(c)'
          BY <2>0, <3>0, <4>1, <4>3, ZenonT(30) DEF TrueAnswer
        <4> QED
          BY <4>4, <4>5
      <3> QED
        BY <3>1, <3>2
    <2> QED
      BY <2>0, <2>3, <2>4, <2>5, <2>6 DEF WorkerInv
  <1>2. CASE ~Alive
    <2>0. /\ call' = [call EXCEPT ![d] = "closed"] /\ call[d] = "idle"
          /\ sent' = sent /\ jobs' = jobs /\ job' = job
          /\ worker' = worker /\ interpreter' = interpreter /\ started' = started /\ fate' = fate
      BY <1>2 DEF Call
    <2>1. Taken' = Taken
      BY <2>0 DEF Taken
    <2>2. WorkerTypeOK'
      BY <2>0 DEF WorkerInv, WorkerTypeOK
    <2>3. Channel' /\ Fates'
      BY <2>0, <2>1 DEF WorkerInv, Channel, Fates, Alive, Working
    <2>4. ASSUME NEW c \in Callers PROVE Awaited(c)' /\ TrueAnswer(c)'
      <3>1. call'[c] = IF c = d THEN "closed" ELSE call[c]
        BY <2>0 DEF WorkerInv, WorkerTypeOK
      <3> QED
        BY <2>0, <2>1, <3>1 DEF WorkerInv, Awaited, TrueAnswer, Alive
    <2> QED
      BY <2>0, <2>2, <2>3, <2>4 DEF WorkerInv
  <1> QED
    BY <1>1, <1>2

(* Some callers go on or are cancelled, and forget their jobs. *)
LEMMA ForgetInv ==
  ASSUME WorkerInv, WorkerTypeOK',
         worker' = worker, interpreter' = interpreter, started' = started,
         jobs' = jobs, sent' = sent, fate' = fate,
         \A c \in Callers : \/ call'[c] = "idle" /\ job'[c] = NoJob
                            \/ call'[c] = call[c] /\ job'[c] = job[c]
  PROVE  WorkerInv'
  <1>1. Taken' = Taken
    BY DEF Taken
  <1>2. Channel' /\ Fates'
    BY <1>1 DEF WorkerInv, Channel, Fates, Alive, Working
  <1>3. ASSUME NEW c \in Callers PROVE Awaited(c)' /\ TrueAnswer(c)'
    BY <1>1 DEF WorkerInv, Awaited, TrueAnswer, Alive
  <1> QED
    BY <1>2, <1>3 DEF WorkerInv

(* Such are a return and a dropped future. *)
LEMMA ForgetSteps ==
  ASSUME WorkerInv, NEW d \in Callers, Return(d) \/ Cancel(d)
  PROVE  WorkerInv'
  <1>1. /\ call' = [call EXCEPT ![d] = "idle"] /\ job' = [job EXCEPT ![d] = NoJob]
        /\ worker' = worker /\ interpreter' = interpreter /\ started' = started
        /\ jobs' = jobs /\ sent' = sent /\ fate' = fate
    BY DEF Return, Cancel
  <1>2. WorkerTypeOK'
    BY <1>1 DEF WorkerInv, WorkerTypeOK
  <1>3. \A c \in Callers : \/ call'[c] = "idle" /\ job'[c] = NoJob
                           \/ call'[c] = call[c] /\ job'[c] = job[c]
    BY <1>1 DEF WorkerInv, WorkerTypeOK
  <1> QED
    BY <1>1, <1>2, <1>3, ForgetInv

(* Steps that leave the worker alone. *)
LEMMA OutsideInv ==
  ASSUME WorkerInv, UNCHANGED workerVars
  PROVE  WorkerInv'
  <1>1. /\ call' = call /\ job' = job /\ worker' = worker /\ interpreter' = interpreter /\ started' = started
        /\ jobs' = jobs /\ sent' = sent /\ fate' = fate
    BY DEF workerVars
  <1>2. WorkerTypeOK'
    BY <1>1 DEF WorkerInv, WorkerTypeOK
  <1> QED
    BY <1>1, <1>2, ForgetInv

-----------------------------------------------------------------------------
(* The session. *)

(* create_child, and the kernel's calls: the worker is not touched. *)
LEMMA KernelSteps ==
  ASSUME IInv,
         \/ SpawnChild \/ StoreThread \/ Created \/ NotCreated \/ AbandonCreation
         \/ Shutdown \/ StopAndJoin \/ Joined \/ DropSession
  PROVE  IInv'
  <1>0. UNCHANGED workerVars
    BY DEF SpawnChild, StoreThread, Created, NotCreated, AbandonCreation, Shutdown, StopAndJoin, Joined,
           DropSession
  <1>1. WorkerInv'
    BY <1>0, OutsideInv DEF IInv
  <1>2. eventLoop' \in BOOLEAN /\ raised' = raised /\ thread' \in {"none", "held", "taken"}
        /\ stop' \in {"none", "posted", "set"} /\ exits' = exits
    BY ZenonT(30) DEF IInv, TypeOK, SpawnChild, StoreThread, Created, NotCreated, AbandonCreation, Shutdown, StopAndJoin,
           Joined, DropSession, DropLoop, StopLoop
  <1>3. TypeOK'
    BY <1>1, <1>2 DEF IInv, WorkerInv, TypeOK, SpawnChild, StoreThread, Created, NotCreated, AbandonCreation,
                      Shutdown, StopAndJoin, Joined, DropSession
  <1>4. Ending'
    BY <1>0 DEF IInv, TypeOK, Ending, workerVars, SpawnChild, StoreThread, Created, NotCreated, AbandonCreation,
                Shutdown, StopAndJoin, Joined, DropSession
  <1> QED
    BY <1>1, <1>3, <1>4 DEF IInv

(* The session's thread, where the worker is not touched. *)
LEMMA ThreadSteps ==
  ASSUME IInv, FactoryFails \/ Upgrade \/ BindFails \/ Ready \/ LoopStops \/ LoopEnds \/ LateExit
  PROVE  IInv'
  <1>0. UNCHANGED workerVars
    BY DEF FactoryFails, Upgrade, BindFails, Ready, LoopStops, LoopEnds, LateExit
  <1>1. WorkerInv'
    BY <1>0, OutsideInv DEF IInv
  <1>2. eventLoop' \in BOOLEAN /\ raised' \in BOOLEAN
    BY ZenonT(30) DEF IInv, TypeOK, FactoryFails, Upgrade, BindFails, Ready, LoopStops, LoopEnds, LateExit, DropLoop, StopLoop
  <1>3. thread' \in {"none", "held", "taken"} /\ stop' \in {"none", "posted", "set"}
    BY DEF IInv, TypeOK, FactoryFails, Upgrade, BindFails, Ready, LoopStops, LoopEnds, LateExit, DropLoop, StopLoop
  <1>4. exits' \in 0 .. MaxExits
    BY ChildAssumption
    DEF IInv, TypeOK, FactoryFails, Upgrade, BindFails, Ready, LoopStops, LoopEnds, LateExit
  <1>5. TypeOK'
    BY <1>1, <1>2, <1>3, <1>4
    DEF IInv, WorkerInv, TypeOK, FactoryFails, Upgrade, BindFails, Ready, LoopStops, LoopEnds, LateExit
  <1>6. Ending'
    BY <1>0
    DEF IInv, TypeOK, Ending, workerVars, FactoryFails, Upgrade, BindFails, Ready, LoopStops, LoopEnds, LateExit
  <1> QED
    BY <1>1, <1>5, <1>6 DEF IInv

(* The worker's steps leave the session alone, and an answer once given is *)
(* the answer to the same job.                                             *)
LEMMA WorkerSteps ==
  ASSUME IInv, UNCHANGED childVars, WorkerInv',
         sent' = sent, job' = job, call'["shell"] \in {"waiting", "ok"} => call["shell"] \in {"waiting", "ok"},
         worker \in {"leaving", "ended"} /\ interpreter = "dropped" =>
           worker' \in {"leaving", "ended"} /\ interpreter' = "dropped",
         started = "ok" => started' = "ok"
  PROVE  IInv'
  <1>1. TypeOK'
    BY DEF IInv, WorkerInv, TypeOK, childVars
  <1>2. Ending'
    BY DEF IInv, Ending, childVars
  <1> QED
    BY <1>1, <1>2 DEF IInv

(* The thread of the worker goes on. *)
LEMMA WorkerNextInv ==
  ASSUME IInv, WorkerNext, UNCHANGED childVars
  PROVE  IInv'
  <1>0. WorkerInv /\ "shell" \in Callers
    BY ChildAssumption DEF IInv
  <1>1. WorkerInv'
    BY <1>0, QuietSteps, ReceiveInv, TakeSteps, LeaveInv DEF WorkerNext
  <1>2. sent' = sent /\ job' = job
    BY DEF WorkerNext, Create, CreateFails, Receive, Disconnected, Ran, Panics, DropState, Stopped,
           Stopped_First, Leave
  <1>3. call'["shell"] \in {"waiting", "ok"} => call["shell"] \in {"waiting", "ok"}
    BY <1>0 DEF WorkerNext, Create, CreateFails, Receive, Disconnected, Ran, Panics, DropState, Stopped,
                Stopped_First, Leave, Answered
  <1>4. worker \in {"leaving", "ended"} /\ interpreter = "dropped" =>
           worker' \in {"leaving", "ended"} /\ interpreter' = "dropped"
    BY DEF WorkerNext, Create, CreateFails, Receive, Disconnected, Ran, Panics, DropState, Stopped,
           Stopped_First, Leave
  <1>5. started = "ok" => started' = "ok"
    BY <1>0 DEF WorkerInv, WorkerNext, Create, CreateFails, Receive, Disconnected, Ran, Panics, DropState, Stopped,
                Stopped_First, Leave
  <1> QED
    BY <1>1, <1>2, <1>3, <1>4, <1>5, WorkerSteps

(* The factory starts the worker; its last handle is dropped. *)
LEMMA HandleSteps ==
  ASSUME IInv, StartsWorker \/ ShellDropped
  PROVE  IInv'
  <1>1. WorkerInv'
    BY QuietSteps DEF IInv, StartsWorker, ShellDropped
  <1>2. /\ UNCHANGED childVars /\ sent' = sent /\ job' = job /\ call' = call /\ started' = started
        /\ interpreter' = interpreter /\ (worker' = worker \/ worker = "none")
    BY DEF StartsWorker, ShellDropped, Start, Release
  <1> QED
    BY <1>1, <1>2, WorkerSteps

(* Tasks of the loop call the worker and go on. *)
LEMMA TaskSteps ==
  ASSUME IInv, NEW d \in Tasks, TaskCalls(d) \/ TaskGoesOn(d)
  PROVE  IInv'
  <1>0. d \in Callers /\ d # "shell" /\ UNCHANGED childVars /\ child = "serving" /\ WorkerInv
        /\ worker \notin {"none", "creating"} /\ "shell" \in Callers
    BY ChildAssumption DEF Tasks, TaskCalls, TaskGoesOn, IInv, Ending, WorkerInv
  <1>1. CASE Return(d) \/ Cancel(d)
    <2>1. WorkerInv'
      BY <1>0, <1>1, ForgetSteps
    <2>2. /\ sent' = sent /\ job'["shell"] = job["shell"] /\ call'["shell"] = call["shell"]
          /\ worker' = worker /\ interpreter' = interpreter /\ started' = started
      BY <1>0, <1>1 DEF Return, Cancel, WorkerInv, WorkerTypeOK
    <2>3. Ending'
      BY <1>0, <2>2 DEF IInv, Ending, childVars
    <2> QED
      BY <1>0, <2>1, <2>3 DEF IInv, TypeOK, WorkerInv, childVars
  <1>2. CASE Call(d, "call")
    <2>1. WorkerInv'
      BY <1>0, <1>2, CallInv
    <2>2. /\ job'["shell"] = job["shell"] /\ call'["shell"] = call["shell"]
          /\ worker' = worker /\ interpreter' = interpreter /\ started' = started
      BY <1>0, <1>2 DEF Call, WorkerInv, WorkerTypeOK
    <2>3. \A k \in 1 .. Len(sent) : sent'[k] = sent[k]
      BY <1>0, <1>2 DEF Call, WorkerInv, WorkerTypeOK
    <2>4. call["shell"] \in {"waiting", "ok"} => job["shell"] \in 1 .. Len(sent)
      BY <1>0, Lengths DEF WorkerInv, Channel, Awaited
    <2>5. Ending'
      BY <1>0, <2>2, <2>3, <2>4 DEF IInv, Ending, childVars
    <2> QED
      BY <1>0, <2>1, <2>5 DEF IInv, TypeOK, WorkerInv, childVars
  <1> QED
    BY <1>1, <1>2 DEF TaskCalls, TaskGoesOn

(* The shell's shutdown asks the worker to stop. *)
LEMMA ShellStopsInv ==
  ASSUME IInv, ShellStops
  PROVE  IInv'
  <1>0. /\ child = "serving" /\ WorkerInv /\ worker \notin {"none", "creating"} /\ "shell" \in Callers
        /\ creator' = creator /\ created' = created /\ session' = session /\ eventLoop' = eventLoop
        /\ thread' = thread /\ child' = child /\ stop' = stop /\ raised' = raised /\ exits' = exits
    BY ChildAssumption DEF ShellStops, IInv, Ending, WorkerInv
  <1>1. CASE shutdown' = "called" /\ Call("shell", "stop")
    <2>1. WorkerInv'
      BY <1>0, <1>1, CallInv
    <2>2. worker' = worker /\ interpreter' = interpreter /\ started' = started
      BY <1>1 DEF Call
    <2>3. call'["shell"] \in {"waiting", "ok"} => sent'[job'["shell"]] = "stop"
      BY <1>0, <1>1 DEF Call, WorkerInv, WorkerTypeOK
    <2>4. Ending'
      BY <1>0, <1>1, <2>2, <2>3 DEF IInv, Ending
    <2> QED
      BY <1>0, <1>1, <2>1, <2>4 DEF IInv, TypeOK, WorkerInv
  <1>2. CASE shutdown' = "error" /\ UNCHANGED workerVars
    <2>1. WorkerInv'
      BY <1>0, <1>2, OutsideInv
    <2>2. Ending'
      BY <1>0, <1>2 DEF IInv, Ending, workerVars
    <2> QED
      BY <1>0, <1>2, <2>1, <2>2 DEF IInv, TypeOK, WorkerInv
  <1> QED
    BY <1>1, <1>2 DEF ShellStops

(* The shell's shutdown has the worker's answer, which is true. *)
LEMMA ShellStoppedInv ==
  ASSUME IInv, ShellStopped
  PROVE  IInv'
  <1>0. /\ child = "serving" /\ WorkerInv /\ "shell" \in Callers /\ shutdown = "called" /\ Return("shell")
        /\ shutdown' = IF call["shell"] = "ok" THEN "ok" ELSE "error"
        /\ creator' = creator /\ created' = created /\ session' = session /\ eventLoop' = eventLoop
        /\ thread' = thread /\ child' = child /\ stop' = stop /\ raised' = raised /\ exits' = exits
    BY ChildAssumption DEF ShellStopped, IInv
  <1>1. WorkerInv'
    BY <1>0, ForgetSteps
  <1>2. worker' = worker /\ interpreter' = interpreter /\ started' = started
    BY <1>0 DEF Return
  <1>3. call["shell"] = "ok" => interpreter = "dropped" /\ worker \in {"leaving", "ended"}
    BY <1>0 DEF IInv, Ending, WorkerInv, Awaited, TrueAnswer
  <1>4. Ending'
    BY <1>0, <1>2, <1>3 DEF IInv, Ending
  <1> QED
    BY <1>0, <1>1, <1>4 DEF IInv, TypeOK, WorkerInv

(* The runner closes the loop: its tasks are cancelled. *)
LEMMA CloseInv ==
  ASSUME IInv, Close
  PROVE  IInv'
  <1>0. /\ call' = [c \in Callers |-> "idle"] /\ job' = [c \in Callers |-> NoJob]
        /\ worker' = worker /\ interpreter' = interpreter /\ started' = started
        /\ jobs' = jobs /\ sent' = sent /\ fate' = fate
        /\ child = "closing" /\ child' = "ended"
        /\ shutdown' = IF shutdown \in {"asked", "called"} THEN "error" ELSE shutdown
        /\ created' = IF raised /\ created = "none" THEN "error" ELSE created
        /\ creator' = creator /\ session' = session /\ eventLoop' = eventLoop
        /\ thread' = thread /\ stop' = stop /\ raised' = raised /\ exits' = exits
    BY DEF Close
  <1>1. WorkerInv'
    <2>1. WorkerTypeOK'
      BY <1>0 DEF IInv, WorkerInv, WorkerTypeOK
    <2> QED
      BY <1>0, <2>1, ForgetInv, ZenonT(30) DEF IInv
  <1>2. Ending'
    BY <1>0 DEF IInv, Ending
  <1> QED
    BY <1>0, <1>1, <1>2 DEF IInv, TypeOK, WorkerInv

-----------------------------------------------------------------------------
(* Every step keeps the invariant. *)
LEMMA NextInv ==
  ASSUME IInv, [Next]_vars
  PROVE  IInv'
  <1>1. CASE \/ SpawnChild \/ StoreThread \/ Created \/ NotCreated \/ AbandonCreation
             \/ Shutdown \/ StopAndJoin \/ Joined \/ DropSession
    BY <1>1, KernelSteps
  <1>2. CASE ChildNext
    BY <1>2, ThreadSteps, HandleSteps, ShellStopsInv, ShellStoppedInv, CloseInv DEF ChildNext
  <1>3. CASE ShellDropped
    BY <1>3, HandleSteps
  <1>4. ASSUME NEW c \in Tasks, TaskCalls(c) \/ TaskGoesOn(c) PROVE IInv'
    BY <1>4, TaskSteps
  <1>5. CASE WorkerNext /\ UNCHANGED childVars
    BY <1>5, WorkerNextInv
  <1>6. CASE UNCHANGED vars
    <2>1. WorkerInv'
      BY <1>6, OutsideInv DEF IInv, vars
    <2> QED
      BY <1>6, <2>1, WorkerSteps DEF IInv, WorkerInv, vars, workerVars
  <1> QED
    BY <1>1, <1>2, <1>3, <1>4, <1>5, <1>6 DEF Next

(* The invariant holds in every state. *)
LEMMA Invariant == Spec => []IInv
  BY InitInv, NextInv, PTL DEF Spec

(* Every variable keeps its type, for any number of callers and jobs.      *)
THEOREM TypeCorrect == Spec => []TypeOK
  <1>1. IInv => TypeOK
    BY DEF IInv
  <1> QED
    BY <1>1, Invariant, PTL

(* No answer of the worker, and none of the session's shutdown, promises   *)
(* more than has happened, for any number of callers and jobs.             *)
THEOREM TrueAnswers == Spec => []AnswersTrue
  <1>1. IInv => AnswersTrue
    BY DEF IInv, WorkerInv, Ending, AnswersTrue
  <1> QED
    BY <1>1, Invariant, PTL
=============================================================================
