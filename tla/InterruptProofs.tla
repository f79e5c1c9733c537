-------------------------- MODULE InterruptProofs --------------------------
(***************************************************************************)
(* Proofs about the delivery of interrupts, for any number of cells,       *)
(* requests, signals and nested blocks.  Two facts carry them: what may    *)
(* still become an exception is paid for by a request of its own           *)
(* (Ledger), and whatever may raise has stored `interrupted` before        *)
(* (Blame).                                                                *)
(***************************************************************************)
EXTENDS Interrupt, TLAPS

(* Leaves are given 30 seconds of the SMT solver; those it does not find  *)
(* name Zenon.                                                             *)
USE SMTT(30)

B(b) == IF b THEN 1 ELSE 0

(* What may still raise an exception in the execution. *)
Unanswered == requested /\ ~registered
Posted == pending /\ place \notin {"idle", "queued"}
Coming(c) == request[c] \in {"store", "lock"}

Ledger ==
  hits + B(Posted) + B(injected) + B(place = "cancelled") + B(Coming("scheduler")) + B(Coming("task"))
    + B(Unanswered) <= asks

(* Where the execution is decides what else there can be of it. *)
Placed ==
  /\ (depth > 0) <=> (place = "inside")
  /\ injected => place = "inside"
  /\ request["task"] # "rest" => place = "starting"
  /\ place \in {"queued", "registering"} => ~registered /\ request["scheduler"] = "rest"
  /\ place = "ended" => ending # "none"
  /\ \A e \in Execution : (e > exec \/ (e = exec /\ place = "queued")) => spawned[e] = 0 /\ deferred[e] = 0

Blame ==
  /\ \A c \in Callers : request[c] \in {"lock", "kill", "spawn"} => interrupted
  /\ Posted \/ injected \/ place = "cancelled" \/ hits > 0 => interrupted
  /\ interrupted => asks > 0

IInv == TypeOK /\ Placed /\ (session # "hook" => Ledger /\ Blame /\ Reported)

USE DEF flagVars, codeVars, wireVars, boundVars, histVars, Execution, Callers
USE DEF B, Unanswered, Posted, Coming

-----------------------------------------------------------------------------
(* The invariant holds before the first cell. *)
LEMMA InitInv == Init => IInv
  <1> SUFFICES ASSUME Init PROVE IInv
    OBVIOUS
  <1>1. TypeOK
    <2>1. requested \in BOOLEAN /\ registered \in BOOLEAN /\ interrupted \in BOOLEAN /\ pending \in BOOLEAN
      BY ZenonT(30) DEF Init
    <2>2. woken \in BOOLEAN /\ tripped \in BOOLEAN /\ injected \in BOOLEAN /\ notified \in BOOLEAN
          /\ owed \in BOOLEAN /\ lost \in BOOLEAN
      BY ZenonT(30) DEF Init
    <2>3. request \in [Callers -> Steps] /\ spawned \in [Execution -> Nat] /\ deferred \in [Execution -> Nat]
      BY DEF Init, Steps
    <2> QED
      BY <2>1, <2>2, <2>3, InterruptAssumption DEF Init, TypeOK, Places, Endings, Reports
  <1>2. Placed
    BY DEF Init, Placed
  <1>3. Ledger /\ Blame /\ Reported
    BY DEF Init, Ledger, Blame, Reported
  <1> QED
    BY <1>1, <1>2, <1>3 DEF IInv

(* A cell begins with nothing asked of it. *)
LEMMA BeginInv ==
  ASSUME IInv, Begin
  PROVE  IInv'
  <1>1. TypeOK'
    <2>1. requested' \in BOOLEAN /\ registered' \in BOOLEAN /\ interrupted' \in BOOLEAN
      BY ZenonT(30) DEF Begin
    <2>2. owed' \in BOOLEAN /\ lost' \in BOOLEAN
      BY ZenonT(30) DEF Begin
    <2>3. exec' \in 0 .. MaxExecutions
      BY InterruptAssumption DEF IInv, TypeOK, Begin
    <2> QED
      BY <2>1, <2>2, <2>3 DEF IInv, TypeOK, Begin, Places, Endings, Reports
  <1>2. Placed'
    BY DEF IInv, TypeOK, Placed, Begin
  <1>3. ASSUME session' # "hook" PROVE Ledger'
    BY <1>3 DEF IInv, TypeOK, Placed, Ledger, Begin
  <1>4. ASSUME session' # "hook" PROVE Blame'
    BY <1>4 DEF IInv, TypeOK, Placed, Ledger, Blame, Begin
  <1>5. ASSUME session' # "hook" PROVE Reported'
    BY <1>5 DEF IInv, TypeOK, Placed, Reported, Begin
  <1> QED
    BY <1>1, <1>2, <1>3, <1>4, <1>5 DEF IInv

(* What an earlier cell has left is dropped before it is counted. *)
LEMMA StartedInv ==
  ASSUME IInv, Started
  PROVE  IInv'
  <1>1. TypeOK'
    <2>1. pending' \in BOOLEAN
      BY ZenonT(30) DEF IInv, TypeOK, Started
    <2> QED
      BY <2>1 DEF IInv, TypeOK, Started, Places
  <1>2. Placed'
    BY DEF IInv, TypeOK, Placed, Started
  <1>3. ASSUME session' # "hook" PROVE Ledger'
    BY <1>3 DEF IInv, TypeOK, Placed, Ledger, Started
  <1>4. ASSUME session' # "hook" PROVE Blame'
    BY <1>4 DEF IInv, TypeOK, Placed, Ledger, Blame, Started
  <1>5. ASSUME session' # "hook" PROVE Reported'
    BY <1>5 DEF IInv, TypeOK, Placed, Reported, Started
  <1> QED
    BY <1>1, <1>2, <1>3, <1>4, <1>5 DEF IInv

(* The handler takes over the request made before it was registered. *)
LEMMA SetHandlerInv ==
  ASSUME IInv, SetHandler
  PROVE  IInv'
  <1>1. TypeOK'
    BY InterruptAssumption DEF IInv, TypeOK, SetHandler, Places, Steps
  <1>2. Placed'
    BY DEF IInv, TypeOK, Placed, SetHandler
  <1>3. ASSUME session' # "hook" PROVE Ledger'
    BY <1>3 DEF IInv, TypeOK, Placed, Ledger, SetHandler
  <1>4. ASSUME session' # "hook" PROVE Blame'
    BY <1>4 DEF IInv, TypeOK, Placed, Ledger, Blame, SetHandler
  <1>5. ASSUME session' # "hook" PROVE Reported'
    BY <1>5 DEF IInv, TypeOK, Placed, Reported, SetHandler
  <1> QED
    BY <1>1, <1>2, <1>3, <1>4, <1>5 DEF IInv

(* The shell gets the code. *)
LEMMA LaunchInv ==
  ASSUME IInv, Launch
  PROVE  IInv'
  <1>1. TypeOK'
    BY InterruptAssumption DEF IInv, TypeOK, Launch, Places
  <1>2. Placed'
    BY DEF IInv, TypeOK, Placed, Launch
  <1>3. ASSUME session' # "hook" PROVE Ledger'
    BY <1>3 DEF IInv, TypeOK, Placed, Ledger, Launch
  <1>4. ASSUME session' # "hook" PROVE Blame'
    BY <1>4 DEF IInv, TypeOK, Placed, Ledger, Blame, Launch
  <1>5. ASSUME session' # "hook" PROVE Reported'
    BY <1>5 DEF IInv, TypeOK, Placed, Reported, Launch
  <1> QED
    BY <1>1, <1>2, <1>3, <1>4, <1>5 DEF IInv

(* A block begins. *)
LEMMA EnterInv ==
  ASSUME IInv, Enter
  PROVE  IInv'
  <1>1. TypeOK'
    BY InterruptAssumption DEF IInv, TypeOK, Enter, Places
  <1>2. Placed'
    BY DEF IInv, TypeOK, Placed, Enter
  <1>3. ASSUME session' # "hook" PROVE Ledger'
    BY <1>3 DEF IInv, TypeOK, Placed, Ledger, Enter
  <1>4. ASSUME session' # "hook" PROVE Blame'
    BY <1>4 DEF IInv, TypeOK, Placed, Ledger, Blame, Enter
  <1>5. ASSUME session' # "hook" PROVE Reported'
    BY <1>5 DEF IInv, TypeOK, Placed, Reported, Enter
  <1> QED
    BY <1>1, <1>2, <1>3, <1>4, <1>5 DEF IInv

(* A pending interrupt becomes the exception of __enter__. *)
LEMMA EnterRaisesInv ==
  ASSUME IInv, EnterRaises
  PROVE  IInv'
  <1>1. TypeOK'
    <2>1. pending' \in BOOLEAN /\ owed' \in BOOLEAN
      BY ZenonT(30) DEF IInv, TypeOK, EnterRaises, Raise
    <2> QED
      BY <2>1 DEF IInv, TypeOK, EnterRaises, Raise
  <1>2. Placed'
    BY DEF IInv, TypeOK, Placed, EnterRaises, Raise
  <1>3. ASSUME session' # "hook" PROVE Ledger'
    BY <1>3 DEF IInv, TypeOK, Placed, Ledger, EnterRaises, Raise
  <1>4. ASSUME session' # "hook" PROVE Blame'
    BY <1>4 DEF IInv, TypeOK, Placed, Ledger, Blame, EnterRaises, Raise
  <1>5. ASSUME session' # "hook" PROVE Reported'
    BY <1>5 DEF IInv, TypeOK, Placed, Reported, EnterRaises, Raise
  <1> QED
    BY <1>1, <1>2, <1>3, <1>4, <1>5 DEF IInv

(* A block ends, and nothing injected outlives the outermost one. *)
LEMMA ExitInv ==
  ASSUME IInv, Exit
  PROVE  IInv'
  <1>1. TypeOK'
    <2>1. depth' \in 0 .. MaxDepth
      BY InterruptAssumption DEF IInv, TypeOK, Placed, Exit
    <2>2. injected' \in BOOLEAN /\ lost' \in BOOLEAN
      BY DEF IInv, TypeOK, Exit
    <2> QED
      BY <2>1, <2>2 DEF IInv, TypeOK, Exit, Places
  <1>2. Placed'
    <2>1. depth \in Nat /\ depth' = depth - 1 /\ depth > 0
      BY InterruptAssumption DEF IInv, TypeOK, Placed, Exit
    <2>2. place' = IF depth = 1 THEN "outside" ELSE "inside"
      BY DEF Exit
    <2>3. ((depth > 0) <=> (place = "inside"))'
      BY <2>1, <2>2
    <2>4. (injected => place = "inside")'
      BY <2>2, ZenonT(30) DEF Exit
    <2> QED
      BY <2>2, <2>3, <2>4 DEF IInv, TypeOK, Placed, Exit
  <1>3. ASSUME session' # "hook" PROVE Ledger'
    BY <1>3 DEF IInv, TypeOK, Placed, Ledger, Exit
  <1>4. ASSUME session' # "hook" PROVE Blame'
    BY <1>4 DEF IInv, TypeOK, Placed, Ledger, Blame, Exit
  <1>5. ASSUME session' # "hook" PROVE Reported'
    BY <1>5 DEF IInv, TypeOK, Placed, Reported, Exit
  <1> QED
    BY <1>1, <1>2, <1>3, <1>4, <1>5 DEF IInv

(* The cell awaits. *)
LEMMA AwaitInv ==
  ASSUME IInv, Await
  PROVE  IInv'
  <1>1. TypeOK'
    BY InterruptAssumption DEF IInv, TypeOK, Await, Places
  <1>2. Placed'
    BY DEF IInv, TypeOK, Placed, Await
  <1>3. ASSUME session' # "hook" PROVE Ledger'
    BY <1>3 DEF IInv, TypeOK, Placed, Ledger, Await
  <1>4. ASSUME session' # "hook" PROVE Blame'
    BY <1>4 DEF IInv, TypeOK, Placed, Ledger, Blame, Await
  <1>5. ASSUME session' # "hook" PROVE Reported'
    BY <1>5 DEF IInv, TypeOK, Placed, Reported, Await
  <1> QED
    BY <1>1, <1>2, <1>3, <1>4, <1>5 DEF IInv

(* The cell goes on. *)
LEMMA ResumeInv ==
  ASSUME IInv, Resume
  PROVE  IInv'
  <1>1. TypeOK'
    BY InterruptAssumption DEF IInv, TypeOK, Resume, Places
  <1>2. Placed'
    BY DEF IInv, TypeOK, Placed, Resume
  <1>3. ASSUME session' # "hook" PROVE Ledger'
    BY <1>3 DEF IInv, TypeOK, Placed, Ledger, Resume
  <1>4. ASSUME session' # "hook" PROVE Blame'
    BY <1>4 DEF IInv, TypeOK, Placed, Ledger, Blame, Resume
  <1>5. ASSUME session' # "hook" PROVE Reported'
    BY <1>5 DEF IInv, TypeOK, Placed, Reported, Resume
  <1> QED
    BY <1>1, <1>2, <1>3, <1>4, <1>5 DEF IInv

(* A cancellation becomes an exception. *)
LEMMA CancelledInv ==
  ASSUME IInv, Cancelled
  PROVE  IInv'
  <1>1. TypeOK'
    <2>1. owed' \in BOOLEAN
      BY ZenonT(30) DEF IInv, TypeOK, Cancelled, Raise
    <2> QED
      BY <2>1 DEF IInv, TypeOK, Cancelled, Raise, Places
  <1>2. Placed'
    BY DEF IInv, TypeOK, Placed, Cancelled, Raise
  <1>3. ASSUME session' # "hook" PROVE Ledger'
    BY <1>3 DEF IInv, TypeOK, Placed, Ledger, Cancelled, Raise
  <1>4. ASSUME session' # "hook" PROVE Blame'
    BY <1>4 DEF IInv, TypeOK, Placed, Ledger, Blame, Cancelled, Raise
  <1>5. ASSUME session' # "hook" PROVE Reported'
    BY <1>5 DEF IInv, TypeOK, Placed, Reported, Cancelled, Raise
  <1> QED
    BY <1>1, <1>2, <1>3, <1>4, <1>5 DEF IInv

(* The task ends. *)
LEMMA EndInv ==
  ASSUME IInv, NEW how \in {"ok", "stopped"}, End(how)
  PROVE  IInv'
  <1>1. TypeOK'
    BY InterruptAssumption DEF IInv, TypeOK, End, Places, Endings
  <1>2. Placed'
    BY DEF IInv, TypeOK, Placed, End
  <1>3. ASSUME session' # "hook" PROVE Ledger'
    BY <1>3 DEF IInv, TypeOK, Placed, Ledger, End
  <1>4. ASSUME session' # "hook" PROVE Blame'
    BY <1>4 DEF IInv, TypeOK, Placed, Ledger, Blame, End
  <1>5. ASSUME session' # "hook" PROVE Reported'
    BY <1>5 DEF IInv, TypeOK, Placed, Reported, End
  <1> QED
    BY <1>1, <1>2, <1>3, <1>4, <1>5 DEF IInv

(* The outcome blames an interrupt only where one was asked for, and blames nothing else for one. *)
LEMMA ReportInv ==
  ASSUME IInv, Report
  PROVE  IInv'
  <1>1. TypeOK'
    <2>1. owed' \in BOOLEAN /\ outcome' \in Reports
      BY ZenonT(30) DEF Report, Outcome, Reports
    <2> QED
      BY <2>1 DEF IInv, TypeOK, Report, Places
  <1>2. Placed'
    BY DEF IInv, TypeOK, Placed, Report
  <1>3. ASSUME session' # "hook" PROVE Ledger'
    BY <1>3 DEF IInv, TypeOK, Placed, Ledger, Report
  <1>4. ASSUME session' # "hook" PROVE Blame'
    BY <1>4 DEF IInv, TypeOK, Placed, Ledger, Blame, Report
  <1>5. ASSUME session' # "hook" PROVE Reported'
    <2>1. outcome' = "error" => ~interrupted
      <3>1. ending \in {"ok", "stopped"}
        BY DEF IInv, TypeOK, Placed, Report, Endings
      <3> QED
        BY <3>1 DEF Report, Outcome
    <2>2. outcome' = "interrupted" => interrupted
      BY DEF Report, Outcome
    <2> QED
      BY <1>5, <2>1, <2>2 DEF IInv, TypeOK, Blame, Reported, Report
  <1> QED
    BY <1>1, <1>2, <1>3, <1>4, <1>5 DEF IInv

(* A request pays for one exception. *)
LEMMA ClientInterruptsInv ==
  ASSUME IInv, ClientInterrupts
  PROVE  IInv'
  <1>1. TypeOK'
    BY InterruptAssumption DEF IInv, TypeOK, ClientInterrupts, Ask, Steps
  <1>2. Placed'
    BY DEF IInv, TypeOK, Placed, ClientInterrupts, Ask
  <1>3. ASSUME session' # "hook" PROVE Ledger'
    BY <1>3 DEF IInv, TypeOK, Placed, Ledger, ClientInterrupts, Ask
  <1>4. ASSUME session' # "hook" PROVE Blame'
    BY <1>4 DEF IInv, TypeOK, Placed, Ledger, Blame, ClientInterrupts, Ask
  <1>5. ASSUME session' # "hook" PROVE Reported'
    BY <1>5 DEF IInv, TypeOK, Placed, Reported, ClientInterrupts, Ask
  <1> QED
    BY <1>1, <1>2, <1>3, <1>4, <1>5 DEF IInv

(* So does a request of the kernel. *)
LEMMA KernelInterruptsInv ==
  ASSUME IInv, KernelInterrupts
  PROVE  IInv'
  <1>0. CASE Ask
    <2>1. requested' \in BOOLEAN /\ owed' \in BOOLEAN /\ notified' \in BOOLEAN
      BY <1>0, ZenonT(30) DEF KernelInterrupts, Ask
    <2>2. TypeOK'
      BY <1>0, <2>1 DEF IInv, TypeOK, KernelInterrupts, Ask, Steps
    <2>3. Placed'
      BY <1>0 DEF IInv, TypeOK, Placed, Ask
    <2>4. ASSUME session' # "hook" PROVE Ledger' /\ Blame' /\ Reported'
      BY <1>0, <2>4 DEF IInv, TypeOK, Placed, Ledger, Blame, Reported, Ask
    <2> QED
      BY <2>2, <2>3, <2>4 DEF IInv
  <1>1. CASE ~Ask
    <2>1. notified' \in BOOLEAN
      BY ZenonT(30) DEF KernelInterrupts
    <2>2. TypeOK'
      BY <1>1, <2>1 DEF IInv, TypeOK, KernelInterrupts
    <2>3. Placed'
      <3>1. /\ place' = place /\ depth' = depth /\ injected' = injected /\ request' = request /\ ending' = ending
            /\ registered' = registered /\ exec' = exec /\ spawned' = spawned /\ deferred' = deferred
        BY <1>1 DEF KernelInterrupts
      <3> QED
        BY <3>1 DEF IInv, Placed
    <2>4. ASSUME session' # "hook" PROVE Ledger' /\ Blame' /\ Reported'
      BY <1>1, <2>4 DEF IInv, TypeOK, Placed, Ledger, Blame, Reported, KernelInterrupts
    <2> QED
      BY <2>2, <2>3, <2>4 DEF IInv
  <1> QED
    BY <1>0, <1>1

(* A signal from elsewhere changes nothing yet. *)
LEMMA CtrlCInv ==
  ASSUME IInv, CtrlC
  PROVE  IInv'
  <1>1. TypeOK'
    BY InterruptAssumption DEF IInv, TypeOK, CtrlC
  <1>2. Placed'
    BY DEF IInv, TypeOK, Placed, CtrlC
  <1>3. ASSUME session' # "hook" PROVE Ledger'
    BY <1>3 DEF IInv, TypeOK, Placed, Ledger, CtrlC
  <1>4. ASSUME session' # "hook" PROVE Blame'
    BY <1>4 DEF IInv, TypeOK, Placed, Ledger, Blame, CtrlC
  <1>5. ASSUME session' # "hook" PROVE Reported'
    BY <1>5 DEF IInv, TypeOK, Placed, Reported, CtrlC
  <1> QED
    BY <1>1, <1>2, <1>3, <1>4, <1>5 DEF IInv

(* `interrupted` is stored first. *)
LEMMA StoreInv ==
  ASSUME IInv, NEW c \in Callers, Store(c)
  PROVE  IInv'
  <1>1. TypeOK'
    BY InterruptAssumption DEF IInv, TypeOK, Store, Steps
  <1>2. Placed'
    BY DEF IInv, TypeOK, Placed, Store
  <1>3. ASSUME session' # "hook" PROVE Ledger'
    BY <1>3 DEF IInv, TypeOK, Placed, Ledger, Store
  <1>4. ASSUME session' # "hook" PROVE Blame'
    BY <1>4 DEF IInv, TypeOK, Placed, Ledger, Blame, Store
  <1>5. ASSUME session' # "hook" PROVE Reported'
    BY <1>5 DEF IInv, TypeOK, Placed, Reported, Store
  <1> QED
    BY <1>1, <1>2, <1>3, <1>4, <1>5 DEF IInv

(* The request becomes a pending interrupt. *)
LEMMA LockInv ==
  ASSUME IInv, NEW c \in Callers, Lock(c)
  PROVE  IInv'
  <1>1. TypeOK'
    BY InterruptAssumption DEF IInv, TypeOK, Lock, Steps
  <1>2. Placed'
    BY DEF IInv, TypeOK, Placed, Lock
  <1>3. ASSUME session' # "hook" PROVE Ledger'
    BY <1>3 DEF IInv, TypeOK, Placed, Ledger, Lock
  <1>4. ASSUME session' # "hook" PROVE Blame'
    BY <1>4 DEF IInv, TypeOK, Placed, Ledger, Blame, Lock
  <1>5. ASSUME session' # "hook" PROVE Reported'
    BY <1>5 DEF IInv, TypeOK, Placed, Reported, Lock
  <1> QED
    BY <1>1, <1>2, <1>3, <1>4, <1>5 DEF IInv

(* The signal is sent. *)
LEMMA KillInv ==
  ASSUME IInv, NEW c \in Callers, Kill(c)
  PROVE  IInv'
  <1>1. TypeOK'
    BY InterruptAssumption DEF IInv, TypeOK, Kill, Steps
  <1>2. Placed'
    BY DEF IInv, TypeOK, Placed, Kill
  <1>3. ASSUME session' # "hook" PROVE Ledger'
    BY <1>3 DEF IInv, TypeOK, Placed, Ledger, Kill
  <1>4. ASSUME session' # "hook" PROVE Blame'
    BY <1>4 DEF IInv, TypeOK, Placed, Ledger, Blame, Kill
  <1>5. ASSUME session' # "hook" PROVE Reported'
    BY <1>5 DEF IInv, TypeOK, Placed, Reported, Kill
  <1> QED
    BY <1>1, <1>2, <1>3, <1>4, <1>5 DEF IInv

(* The delivery thread is spawned, for an execution that has begun. *)
LEMMA SpawnInv ==
  ASSUME IInv, NEW c \in Callers, Spawn(c)
  PROVE  IInv'
  <1>1. TypeOK'
    <2>1. spawned' \in [Execution -> Nat]
      <3>1. spawned \in [Execution -> Nat] /\ spawned' = [spawned EXCEPT ![exec] = @ + 1]
        BY DEF IInv, TypeOK, Spawn
      <3>2. \A e \in Execution : spawned[e] \in Nat
        BY <3>1
      <3>3. \A e \in Execution : spawned'[e] \in Nat
        BY <3>1, <3>2
      <3> QED
        BY <3>1, <3>3, ZenonT(30)
    <2> QED
      BY <2>1 DEF IInv, TypeOK, Spawn, Steps
  <1>2. Placed'
    BY DEF IInv, TypeOK, Placed, Spawn
  <1>3. ASSUME session' # "hook" PROVE Ledger'
    BY <1>3 DEF IInv, TypeOK, Placed, Ledger, Spawn
  <1>4. ASSUME session' # "hook" PROVE Blame'
    BY <1>4 DEF IInv, TypeOK, Placed, Ledger, Blame, Spawn
  <1>5. ASSUME session' # "hook" PROVE Reported'
    BY <1>5 DEF IInv, TypeOK, Placed, Reported, Spawn
  <1> QED
    BY <1>1, <1>2, <1>3, <1>4, <1>5 DEF IInv

(* A pending interrupt becomes the exception of the signal handler. *)
LEMMA SignalledInv ==
  ASSUME IInv, Signalled
  PROVE  IInv'
  <1>1. TypeOK'
    <2>1. tripped' \in BOOLEAN /\ woken' \in BOOLEAN /\ notified' \in BOOLEAN /\ pending' \in BOOLEAN /\ owed' \in BOOLEAN
      BY ZenonT(30) DEF IInv, TypeOK, Signalled, Raise
    <2> QED
      BY <2>1 DEF IInv, TypeOK, Signalled, Raise
  <1>2. Placed'
    BY DEF IInv, TypeOK, Placed, Signalled, Raise
  <1>3. ASSUME session' # "hook" PROVE Ledger'
    BY <1>3 DEF IInv, TypeOK, Placed, Ledger, Signalled, Raise
  <1>4. ASSUME session' # "hook" PROVE Blame'
    BY <1>4 DEF IInv, TypeOK, Placed, Ledger, Blame, Signalled, Raise
  <1>5. ASSUME session' # "hook" PROVE Reported'
    BY <1>5 DEF IInv, TypeOK, Placed, Reported, Signalled, Raise
  <1> QED
    BY <1>1, <1>2, <1>3, <1>4, <1>5 DEF IInv

(* What was injected is raised. *)
LEMMA FireInv ==
  ASSUME IInv, Fire
  PROVE  IInv'
  <1>1. TypeOK'
    <2>1. injected' \in BOOLEAN /\ owed' \in BOOLEAN
      BY ZenonT(30) DEF IInv, TypeOK, Fire, Raise
    <2> QED
      BY <2>1 DEF IInv, TypeOK, Fire, Raise
  <1>2. Placed'
    BY DEF IInv, TypeOK, Placed, Fire, Raise
  <1>3. ASSUME session' # "hook" PROVE Ledger'
    BY <1>3 DEF IInv, TypeOK, Placed, Ledger, Fire, Raise
  <1>4. ASSUME session' # "hook" PROVE Blame'
    BY <1>4 DEF IInv, TypeOK, Placed, Ledger, Blame, Fire, Raise
  <1>5. ASSUME session' # "hook" PROVE Reported'
    BY <1>5 DEF IInv, TypeOK, Placed, Reported, Fire, Raise
  <1> QED
    BY <1>1, <1>2, <1>3, <1>4, <1>5 DEF IInv

(* A hook raises in sessions the ledger says nothing about. *)
LEMMA HookInv ==
  ASSUME IInv, NEW e \in Execution, Hook(e)
  PROVE  IInv'
  <1>1. TypeOK'
    <2>1. spawned' \in [Execution -> Nat]
      BY DEF IInv, TypeOK, Hook
    <2>2. owed' \in BOOLEAN /\ hits' \in Nat /\ asks' = asks /\ lost' = lost /\ outcome' = outcome
      <3>1. CASE place \in {"outside", "inside", "await"}
        <4>1. Raise
          BY <3>1 DEF Hook
        <4>2. owed' \in BOOLEAN
          BY <4>1, ZenonT(30) DEF Raise
        <4> QED
          BY <4>1, <4>2 DEF IInv, TypeOK, Raise
      <3>2. CASE place \notin {"outside", "inside", "await"}
        BY <3>2 DEF IInv, TypeOK, Hook
      <3> QED
        BY <3>1, <3>2
    <2> QED
      BY <2>1, <2>2 DEF IInv, TypeOK, Hook
  <1>2. Placed'
    BY DEF IInv, TypeOK, Placed, Hook, Raise
  <1>3. ASSUME session' # "hook" PROVE Ledger'
    BY <1>3 DEF IInv, TypeOK, Placed, Ledger, Hook, Raise
  <1>4. ASSUME session' # "hook" PROVE Blame'
    BY <1>4 DEF IInv, TypeOK, Placed, Ledger, Blame, Hook, Raise
  <1>5. ASSUME session' # "hook" PROVE Reported'
    BY <1>5 DEF IInv, TypeOK, Placed, Reported, Hook, Raise
  <1> QED
    BY <1>1, <1>2, <1>3, <1>4, <1>5 DEF IInv

(* A pending interrupt is injected. *)
LEMMA DeliverInv ==
  ASSUME IInv, NEW e \in Execution, Deliver(e)
  PROVE  IInv'
  <1>1. TypeOK'
    <2>1. injected' \in BOOLEAN /\ pending' \in BOOLEAN
      BY DEF IInv, TypeOK, Deliver
    <2>2. spawned' \in [Execution -> Nat]
      BY DEF IInv, TypeOK, Deliver
    <2>3. deferred' \in [Execution -> Nat]
      BY DEF IInv, TypeOK, Deliver
    <2> QED
      BY <2>1, <2>2, <2>3 DEF IInv, TypeOK, Deliver
  <1>2. Placed'
    BY DEF IInv, TypeOK, Placed, Deliver
  <1>3. ASSUME session' # "hook" PROVE Ledger'
    BY <1>3 DEF IInv, TypeOK, Placed, Ledger, Deliver
  <1>4. ASSUME session' # "hook" PROVE Blame'
    BY <1>4 DEF IInv, TypeOK, Placed, Ledger, Blame, Deliver
  <1>5. ASSUME session' # "hook" PROVE Reported'
    BY <1>5 DEF IInv, TypeOK, Placed, Reported, Deliver
  <1> QED
    BY <1>1, <1>2, <1>3, <1>4, <1>5 DEF IInv

(* A pending interrupt becomes a cancellation. *)
LEMMA RunDeferredInv ==
  ASSUME IInv, NEW e \in Execution, RunDeferred(e)
  PROVE  IInv'
  <1>1. TypeOK'
    <2>1. pending' \in BOOLEAN
      BY ZenonT(30) DEF IInv, TypeOK, RunDeferred, TaskDone, LoopFree
    <2> QED
      BY <2>1 DEF IInv, TypeOK, RunDeferred, TaskDone, LoopFree, Places
  <1>2. Placed'
    BY DEF IInv, TypeOK, Placed, RunDeferred, TaskDone, LoopFree
  <1>3. ASSUME session' # "hook" PROVE Ledger'
    BY <1>3 DEF IInv, TypeOK, Placed, Ledger, RunDeferred, TaskDone, LoopFree
  <1>4. ASSUME session' # "hook" PROVE Blame'
    BY <1>4 DEF IInv, TypeOK, Placed, Ledger, Blame, RunDeferred, TaskDone, LoopFree
  <1>5. ASSUME session' # "hook" PROVE Reported'
    BY <1>5 DEF IInv, TypeOK, Placed, Reported, RunDeferred, TaskDone, LoopFree
  <1> QED
    BY <1>1, <1>2, <1>3, <1>4, <1>5 DEF IInv

(* Every step keeps the invariant. *)
LEMMA NextInv ==
  ASSUME IInv, [Next]_vars
  PROVE  IInv'
  <1>1. CASE Begin
    BY <1>1, BeginInv
  <1>2. CASE ShellStep
    BY <1>2, StartedInv, SetHandlerInv, LaunchInv, CancelledInv, ReportInv DEF ShellStep
  <1>3. CASE UserStep
    <2>1. ASSUME NEW how \in {"ok", "stopped"}, End(how) PROVE IInv'
      BY <2>1, EndInv
    <2> QED
      BY <1>3, <2>1, EnterInv, EnterRaisesInv, ExitInv, AwaitInv, ResumeInv DEF UserStep
  <1>4. CASE ClientInterrupts \/ KernelInterrupts \/ CtrlC
    BY <1>4, ClientInterruptsInv, KernelInterruptsInv, CtrlCInv
  <1>5. ASSUME NEW c \in Callers, RequestStep(c) PROVE IInv'
    <2>1. Store(c) => IInv'
      BY StoreInv
    <2>2. Lock(c) => IInv'
      BY LockInv
    <2>3. Kill(c) => IInv'
      BY KillInv
    <2>4. Spawn(c) => IInv'
      BY SpawnInv
    <2> QED
      BY <1>5, <2>1, <2>2, <2>3, <2>4 DEF RequestStep
  <1>6. CASE Signalled \/ Fire
    BY <1>6, SignalledInv, FireInv
  <1>7. ASSUME NEW e \in Execution, DeliveryStep(e) \/ RunDeferred(e) PROVE IInv'
    <2>1. Hook(e) => IInv'
      BY HookInv
    <2>2. Deliver(e) => IInv'
      BY DeliverInv
    <2>3. RunDeferred(e) => IInv'
      BY RunDeferredInv
    <2> QED
      BY <1>7, <2>1, <2>2, <2>3 DEF DeliveryStep
  <1>8. CASE UNCHANGED vars
    <2>1. TypeOK' /\ Placed'
      BY <1>8 DEF IInv, TypeOK, Placed, vars
    <2>2. session' # "hook" => Ledger' /\ Blame' /\ Reported'
      BY <1>8 DEF IInv, Ledger, Blame, Reported, vars
    <2> QED
      BY <2>1, <2>2 DEF IInv
  <1> QED
    BY <1>1, <1>2, <1>3, <1>4, <1>5, <1>6, <1>7, <1>8 DEF Next

(* The invariant holds in every state. *)
LEMMA Invariant == Spec => []IInv
  BY InitInv, NextInv, PTL DEF Spec

-----------------------------------------------------------------------------
(* Every variable keeps its type, whatever the interleaving of the         *)
(* scheduler, the loop, the signal handler and the delivery threads.       *)
THEOREM TypeCorrect == Spec => []TypeOK
  <1>1. IInv => TypeOK
    BY DEF IInv
  <1> QED
    BY <1>1, Invariant, PTL

(* An execution never gets more exceptions than interrupts were asked of   *)
(* it, for any number of requests, signals and cells: no late signal,      *)
(* delivery thread or DeferredCancel raises twice or in the next cell.     *)
THEOREM NoStrayInterrupt == Spec => []OwnInterrupt
  <1>1. IInv => OwnInterrupt
    BY DEF IInv, TypeOK, Ledger, OwnInterrupt
  <1> QED
    BY <1>1, Invariant, PTL

(* execute reports "error" only for cells that no interrupt has stopped,   *)
(* and "interrupted" only for cells that were asked to stop.               *)
THEOREM TrueReport == Spec => []Reported
  <1>1. IInv => Reported
    BY DEF IInv, Reported
  <1> QED
    BY <1>1, Invariant, PTL

(* What PyThreadState_SetAsyncExc has set is raised in user code only:     *)
(* __exit__ of the outermost block clears it.                              *)
THEOREM RaisedInUserCode == Spec => FiresInUserCode
  <1>1. IInv /\ [Next]_vars => [Fire => place = "inside"]_vars
    BY DEF IInv, Placed, Fire
  <1> QED
    BY <1>1, Invariant, PTL DEF Spec, FiresInUserCode
=============================================================================
