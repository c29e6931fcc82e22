------------------------ MODULE GenerationQueueSlots ------------------------
(***************************************************************************)
(* Proofs about the slots of GenerationQueue: the capacity table agrees    *)
(* with the workers on every undisturbed job, and no backend is given more *)
(* of them than it can run.  The table holds bare row ids, so the theorems *)
(* ask that no two profiles have jobs of one id on one backend.            *)
(***************************************************************************)
EXTENDS GenerationQueuePromise, FiniteSetTheorems

USE DEF Spending, Stages, CancelStage, durable, worker, reread, sweep, history

\* Jobs of one backend have different ids, which one profile gives.
DistinctIds ==
    \A i, j \in Job : BackendOf[i] = BackendOf[j] /\ IdOf(i) = IdOf(j) => i = j

HasSlot(j) == IdOf(j) \in current[BackendOf[j]]
Worked(j) == \E w \in Workers : WorksOn(w, j)

\* The table and the workers agree on every undisturbed job.
SlotsAgree == \A j \in Job \ touched : HasSlot(j) <=> Worked(j)

\* A slot the sweep is about to release is that of a job it has settled.
SweepDisturbs ==
    \A b \in Backends : sweepRelease[b] # NoJob => sweepRelease[b] \in touched

WithinCapacity ==
    \A b \in Backends :
        IsFiniteSet(current[b]) /\ Cardinality(current[b]) <= MaxConcurrent[b]

SlotInv == SoundInv /\ SweepDisturbs /\ WithinCapacity /\ SlotsAgree

-----------------------------------------------------------------------------
(* Steps that only the sweep or the table is about.                        *)

\* Whatever a step disturbs stays disturbed.
LEMMA TouchedGrows == [Next]_vars => touched \subseteq touched'
<1>1. ASSUME NEW j \in Job,
             \/ Submit(j) \/ DeleteRead(j) \/ CancelRead(j) \/ ClientCancelRead(j)
             \/ RetryRead(j) \/ CancelStep(j) \/ TailStep(j) \/ TailFails(j) \/ TailLost(j)
      PROVE  touched \subseteq touched'
  BY <1>1 DEF CancelStep, TailStep, Submit, DeleteRead, CancelRead, ClientCancelRead, RetryRead,
     CancelCommit, CancelRelease, ClientCancelCommit, DeleteCommit, RetryCommit, Ingest,
     Complete, Notify, TailFails, TailLost
<1>2. ASSUME NEW w \in Workers, WorkerStep(w) \/ RefillFault(w) \/ HandlerFault(w)
      PROVE  touched \subseteq touched'
  BY <1>2 DEF WorkerStep, RefillFault, HandlerFault, LoopTop, BeginScan, Select, Reserve,
     CommitAssign, Begin, Start, Answer, Raise, CheckResult, Handoff, CheckFailure,
     CommitFailure, Settle, SettleRelease, ReleaseSlot, Leave
<1>3. ASSUME NEW b \in Backends,
             RequestWork(b) \/ Disconnect(b) \/ SweepStep(b) \/ SweepFault(b) \/ Reconnect(b)
      PROVE  touched \subseteq touched'
  BY <1>3 DEF SweepStep, RequestWork, Disconnect, SweepFault, Reconnect, SweepRead,
     SweepVisit, SweepSettleRow, SweepSettled
<1>4. Restart \/ UNCHANGED vars => touched \subseteq touched'
  BY DEF Restart, vars
<1> QED
  BY <1>1, <1>2, <1>3, <1>4 DEF Next

\* The sweep settles a row before it releases its slot.
LEMMA SweepDisturbsStep == TypeOK /\ SweepDisturbs /\ [Next]_vars => SweepDisturbs'
<1> SUFFICES ASSUME TypeOK, SweepDisturbs, [Next]_vars PROVE SweepDisturbs'
  OBVIOUS
<1>1. touched \subseteq touched'
  BY TouchedGrows
<1>2. ASSUME UNCHANGED sweepRelease PROVE SweepDisturbs'
  BY <1>1, <1>2 DEF SweepDisturbs
<1>3. ASSUME NEW j \in Job,
             \/ Submit(j) \/ DeleteRead(j) \/ CancelRead(j) \/ ClientCancelRead(j)
             \/ RetryRead(j) \/ CancelStep(j) \/ TailStep(j) \/ TailFails(j) \/ TailLost(j)
      PROVE  UNCHANGED sweepRelease
  BY <1>3 DEF CancelStep, TailStep, Submit, DeleteRead, CancelRead, ClientCancelRead, RetryRead,
     CancelCommit, CancelRelease, ClientCancelCommit, DeleteCommit, RetryCommit, Ingest,
     Complete, Notify, TailFails, TailLost
<1>4. ASSUME NEW w \in Workers, WorkerStep(w) \/ RefillFault(w) \/ HandlerFault(w)
      PROVE  UNCHANGED sweepRelease
  BY <1>4 DEF WorkerStep, RefillFault, HandlerFault, LoopTop, BeginScan, Select, Reserve,
     CommitAssign, Begin, Start, Answer, Raise, CheckResult, Handoff, CheckFailure,
     CommitFailure, Settle, SettleRelease, ReleaseSlot, Leave
<1>5. ASSUME NEW b \in Backends,
             RequestWork(b) \/ Disconnect(b) \/ SweepStep(b) \/ SweepFault(b) \/ Reconnect(b)
      PROVE  SweepDisturbs'
  <2>1. CASE SweepSettleRow(b)
    BY <2>1, <1>1 DEF SweepSettleRow, SweepDisturbs, TypeOK
  <2>2. CASE SweepSettled(b) \/ SweepFault(b)
    BY <2>2, <1>1 DEF SweepSettled, SweepFault, SweepDisturbs, TypeOK
  <2>3. ASSUME \/ RequestWork(b) \/ Disconnect(b) \/ Reconnect(b)
               \/ \E p \in Profiles : SweepRead(b, p)
               \/ \E j \in Job : SweepVisit(b, j)
        PROVE  UNCHANGED sweepRelease
    BY <2>3 DEF RequestWork, Disconnect, Reconnect, SweepRead, SweepVisit
  <2> QED
    BY <1>2, <1>5, <2>1, <2>2, <2>3 DEF SweepStep
<1>6. Restart => SweepDisturbs'
  BY DEF Restart, SweepDisturbs
<1>7. UNCHANGED vars => UNCHANGED sweepRelease
  BY DEF vars
<1> QED
  BY <1>2, <1>3, <1>4, <1>5, <1>6, <1>7 DEF Next

\* A slot is taken only while one is free.
LEMMA CapacityStep == TypeOK /\ WithinCapacity /\ [Next]_vars => WithinCapacity'
<1> SUFFICES ASSUME TypeOK, WithinCapacity, [Next]_vars PROVE WithinCapacity'
  OBVIOUS
<1> USE CapacityAssumption, BackendOfAssumption
<1>1. ASSUME UNCHANGED current PROVE WithinCapacity'
  BY <1>1 DEF WithinCapacity
<1>2. ASSUME NEW j \in Job, current' = Release(j) PROVE WithinCapacity'
  <2>1. ASSUME NEW b \in Backends
        PROVE  IsFiniteSet(current'[b]) /\ Cardinality(current'[b]) <= MaxConcurrent[b]
    <3>1. current'[b] \in SUBSET current[b]
      BY <1>2 DEF Release, TypeOK
    <3>2. /\ IsFiniteSet(current'[b]) /\ IsFiniteSet(current[b])
          /\ Cardinality(current'[b]) <= Cardinality(current[b])
      BY <3>1, FS_Subset DEF WithinCapacity
    <3>3. Cardinality(current'[b]) \in Nat /\ Cardinality(current[b]) \in Nat
      BY <3>2, FS_CardinalityType
    <3> QED
      BY <3>2, <3>3 DEF WithinCapacity
  <2> QED
    BY <2>1 DEF WithinCapacity
<1>3. ASSUME NEW b \in Backends, current' = [current EXCEPT ![b] = {}] PROVE WithinCapacity'
  BY <1>3, FS_EmptySet DEF WithinCapacity, TypeOK
<1>4. ASSUME NEW w \in Workers, Reserve(w) PROVE WithinCapacity'
  <2> DEFINE b == BackendOf[job[w]]
  <2>1. CASE ~CanAccept(b)
    BY <1>1, <1>4, <2>1 DEF Reserve
  <2>2. CASE CanAccept(b)
    <3>1. job[w] \in Job /\ b \in Backends
      BY <1>4 DEF Reserve, TypeOK, AtLoop
    <3>2. current' = [current EXCEPT ![b] = @ \cup {IdOf(job[w])}]
      BY <1>4, <2>2 DEF Reserve
    <3>3. IsFiniteSet(current[b]) /\ Cardinality(current[b]) < MaxConcurrent[b]
      BY <2>2, <3>1 DEF CanAccept, WithinCapacity
    <3>4. /\ IsFiniteSet(current[b] \cup {IdOf(job[w])})
          /\ \/ Cardinality(current[b] \cup {IdOf(job[w])}) = Cardinality(current[b])
             \/ Cardinality(current[b] \cup {IdOf(job[w])}) = Cardinality(current[b]) + 1
      BY <3>3, FS_AddElement
    <3>5. Cardinality(current[b]) \in Nat
      BY <3>3, FS_CardinalityType
    <3>6. Cardinality(current[b] \cup {IdOf(job[w])}) <= MaxConcurrent[b]
      BY <3>1, <3>3, <3>4, <3>5
    <3>7. \A c \in Backends : current'[c] = IF c = b THEN current[b] \cup {IdOf(job[w])} ELSE current[c]
      BY <3>1, <3>2 DEF TypeOK
    <3> QED
      BY <3>4, <3>6, <3>7 DEF WithinCapacity
  <2> QED
    BY <2>1, <2>2
<1>5. ASSUME NEW j \in Job,
             \/ Submit(j) \/ DeleteRead(j) \/ CancelRead(j) \/ ClientCancelRead(j)
             \/ RetryRead(j) \/ CancelStep(j) \/ TailStep(j) \/ TailFails(j) \/ TailLost(j)
      PROVE  UNCHANGED current \/ current' = Release(j)
  BY <1>5 DEF CancelStep, TailStep, Submit, DeleteRead, CancelRead, ClientCancelRead, RetryRead,
     CancelCommit, CancelRelease, ClientCancelCommit, DeleteCommit, RetryCommit, Ingest,
     Complete, Notify, TailFails, TailLost
<1>6. ASSUME NEW w \in Workers, WorkerStep(w) \/ RefillFault(w) \/ HandlerFault(w)
      PROVE  WithinCapacity'
  <2>1. CASE Reserve(w)
    BY <2>1, <1>4
  <2>2. CASE SettleRelease(w) \/ ReleaseSlot(w) \/ RefillFault(w)
    <3>1. job[w] \in Job /\ current' = Release(job[w])
      BY <2>2 DEF SettleRelease, ReleaseSlot, RefillFault, TypeOK, AtLoop
    <3> QED
      BY <3>1, <1>2
  <2>3. ASSUME \/ LoopTop(w) \/ BeginScan(w) \/ Select(w) \/ CommitAssign(w) \/ Begin(w)
               \/ Start(w) \/ Answer(w) \/ Raise(w) \/ CheckResult(w) \/ Handoff(w)
               \/ CheckFailure(w) \/ CommitFailure(w) \/ Settle(w) \/ Leave(w) \/ HandlerFault(w)
        PROVE  UNCHANGED current
    BY <2>3 DEF LoopTop, BeginScan, Select, CommitAssign, Begin, Start, Answer, Raise,
       CheckResult, Handoff, CheckFailure, CommitFailure, Settle, Leave, HandlerFault
  <2> QED
    BY <1>1, <1>6, <2>1, <2>2, <2>3 DEF WorkerStep
<1>7. ASSUME NEW b \in Backends,
             RequestWork(b) \/ Disconnect(b) \/ SweepStep(b) \/ SweepFault(b) \/ Reconnect(b)
      PROVE  WithinCapacity'
  <2>1. CASE Disconnect(b)
    BY <2>1, <1>3 DEF Disconnect
  <2>2. CASE SweepSettled(b)
    <3>1. sweepRelease[b] \in Job /\ current' = Release(sweepRelease[b])
      BY <2>2 DEF SweepSettled, TypeOK
    <3> QED
      BY <3>1, <1>2
  <2>3. ASSUME \/ RequestWork(b) \/ SweepFault(b) \/ Reconnect(b) \/ SweepSettleRow(b)
               \/ \E p \in Profiles : SweepRead(b, p)
               \/ \E j \in Job : SweepVisit(b, j)
        PROVE  UNCHANGED current
    BY <2>3 DEF RequestWork, SweepFault, Reconnect, SweepSettleRow, SweepRead, SweepVisit
  <2> QED
    BY <1>1, <1>7, <2>1, <2>2, <2>3 DEF SweepStep
<1>8. Restart => WithinCapacity'
  BY FS_EmptySet DEF Restart, WithinCapacity
<1>9. UNCHANGED vars => UNCHANGED current
  BY DEF vars
<1> QED
  BY <1>1, <1>2, <1>5, <1>6, <1>7, <1>8, <1>9 DEF Next

-----------------------------------------------------------------------------
(* The table and the workers.                                              *)

\* Releasing another job's slot leaves that of k alone.
LEMMA OtherRelease ==
    ASSUME TypeOK, DistinctIds, NEW j \in Job, NEW k \in Job, j # k, current' = Release(j)
    PROVE  HasSlot(k)' <=> HasSlot(k)
<1>1. BackendOf[j] \in Backends /\ BackendOf[k] \in Backends
  BY BackendOfAssumption
<1>2. BackendOf[j] # BackendOf[k] \/ IdOf(j) # IdOf(k)
  BY DEF DistinctIds
<1>3. current' = [current EXCEPT ![BackendOf[j]] = @ \ {IdOf(j)}]
  BY DEF Release
<1>4. current'[BackendOf[k]] = IF BackendOf[j] = BackendOf[k]
                               THEN current[BackendOf[k]] \ {IdOf(j)} ELSE current[BackendOf[k]]
  BY <1>1, <1>3 DEF TypeOK
<1> QED
  BY <1>2, <1>4 DEF HasSlot

\* Who works on k is decided by the workers that have it.
LEMMA SameWork ==
    ASSUME NEW k \in Job, \A w \in Workers : WorksOn(w, k)' <=> WorksOn(w, k),
           HasSlot(k)' <=> HasSlot(k), HasSlot(k) <=> Worked(k)
    PROVE  (HasSlot(k) <=> Worked(k))'
  BY DEF Worked

\* A step that wakes workers, if anything, changes nobody's work.
LEMMA WokenWork ==
    ASSUME TypeOK, NEW k \in Job, UNCHANGED job, pc' = pc \/ pc' = Woken(pc)
    PROVE  \A w \in Workers : WorksOn(w, k)' <=> WorksOn(w, k)
  BY WokenType DEF WorksOn, Holding, TypeOK, Woken

\* A worker's step keeps the slot of every undisturbed job and its work
\* together.
LEMMA WorkerSlots ==
    ASSUME TypeOK, DistinctIds, NEW w \in Workers, NEW k \in Job, Sound(k), k \notin touched',
           HasSlot(k) <=> Worked(k), WorkerStep(w) \/ RefillFault(w) \/ HandlerFault(w)
    PROVE  (HasSlot(k) <=> Worked(k))'
<1>1. \A v \in Workers \ {w} : WorksOn(v, k)' <=> WorksOn(v, k)
  <2>1. ASSUME NEW v \in Workers, v # w
        PROVE  /\ job'[v] = job[v]
               /\ pc'[v] = pc[v] \/ (pc[v] = "idle" /\ pc'[v] = "woken")
    BY <2>1 DEF TypeOK, WorkerStep, RefillFault, HandlerFault, LoopTop, BeginScan, Select,
       Reserve, CommitAssign, Begin, Start, Answer, Raise, CheckResult, Handoff, CheckFailure,
       CommitFailure, Settle, SettleRelease, ReleaseSlot, Leave, Goto, Woken
  <2> QED
    BY <2>1 DEF WorksOn, Holding
<1>2. ASSUME WorksOn(w, k)' <=> WorksOn(w, k), HasSlot(k)' <=> HasSlot(k)
      PROVE  (HasSlot(k) <=> Worked(k))'
  BY <1>1, <1>2, SameWork
<1>3. \A v \in Workers : job[v] = k /\ job[w] = k => v = w
  BY DEF Sound, OneWorker
<1>4. CASE LoopTop(w) \/ BeginScan(w)
  <2>1. pc[w] \in AtLoop /\ UNCHANGED <<job, current>>
    BY <1>4 DEF LoopTop, BeginScan, AtLoop
  <2>2. job[w] # k
    BY <2>1, NoJobAssumption DEF TypeOK
  <2> QED
    BY <1>2, <2>1, <2>2 DEF WorksOn, HasSlot
<1>5. CASE Select(w)
  <2>1. /\ pc[w] = "scan" /\ UNCHANGED current
        /\ pc'[w] \in {"selected", "loop", "scan"}
    BY <1>5 DEF Select, Goto, TypeOK
  <2> QED
    BY <1>2, <2>1 DEF WorksOn, HasSlot, Holding
<1>6. CASE Reserve(w)
  <2> DEFINE b == BackendOf[job[w]]
  <2>1. job[w] \in Job /\ b \in Backends
    BY <1>6, BackendOfAssumption DEF Reserve, TypeOK, AtLoop
  <2>2. CASE CanAccept(b)
    <3>1. /\ current' = [current EXCEPT ![b] = @ \cup {IdOf(job[w])}]
          /\ pc'[w] = "reserved" /\ UNCHANGED job /\ pc[w] = "selected"
      BY <1>6, <2>2 DEF Reserve, Goto, TypeOK
    <3>2. \A c \in Backends : current'[c] = IF c = b THEN current[b] \cup {IdOf(job[w])} ELSE current[c]
      BY <2>1, <3>1 DEF TypeOK
    <3>3. BackendOf[k] \in Backends
      BY BackendOfAssumption
    <3>4. CASE job[w] = k
      BY <3>1, <3>2, <3>3, <3>4 DEF HasSlot, Worked, WorksOn, Holding
    <3>5. CASE job[w] # k
      <4>1. HasSlot(k)' <=> HasSlot(k)
        BY <2>1, <3>2, <3>3, <3>5 DEF HasSlot, DistinctIds
      <4> QED
        BY <1>2, <3>1, <3>5, <4>1 DEF WorksOn
    <3> QED
      BY <3>4, <3>5
  <2>3. CASE ~CanAccept(b)
    <3>1. UNCHANGED current /\ pc[w] = "selected" /\ pc'[w] \in {"loop", "scan"}
      BY <1>6, <2>3 DEF Reserve, Goto, TypeOK
    <3> QED
      BY <1>2, <3>1 DEF WorksOn, Holding, HasSlot
  <2> QED
    BY <2>2, <2>3
<1>7. CASE CommitAssign(w) \/ Begin(w)
  <2>1. UNCHANGED current /\ pc[w] \in {"reserved", "assigned"}
    BY <1>7 DEF CommitAssign, Begin
  <2>2. CASE job[w] = k
    <3>1. status[k] # "deleted"
      BY <2>1, <2>2, SoundWorker DEF InLock, AtStart
    <3>2. UNCHANGED job /\ pc'[w] \in {"assigned", "begin"}
      BY <1>7, <2>2, <3>1 DEF CommitAssign, Begin, Goto, TypeOK
    <3> QED
      BY <1>2, <2>1, <3>2 DEF WorksOn, Holding, HasSlot
  <2>3. CASE job[w] # k
    <3>1. job'[w] # k
      BY <1>7, <2>3, NoJobAssumption DEF CommitAssign, Begin, TypeOK
    <3> QED
      BY <1>2, <2>1, <2>3, <3>1 DEF WorksOn, HasSlot
  <2> QED
    BY <2>2, <2>3
<1>8. CASE \/ Start(w) \/ Answer(w) \/ Raise(w) \/ CheckResult(w) \/ Handoff(w)
           \/ CheckFailure(w) \/ CommitFailure(w)
  <2>1. UNCHANGED <<current, job>>
    BY <1>8 DEF Start, Answer, Raise, CheckResult, Handoff, CheckFailure, CommitFailure
  <2>2. CASE job[w] = k
    <3>1. /\ pc[w] = "begin" => status[k] \in ActiveStatus
          /\ pc[w] = "result" => status[k] # "cancelled"
      BY <2>2, SoundWorker DEF AtStart, ActiveStatus
    <3>2. /\ pc[w] \in {"begin", "running", "result", "output", "failing", "fail"}
          /\ pc'[w] \in {"running", "result", "output", "lost", "failing", "handedOff", "release", "fail"}
      BY <1>8, <2>2, <3>1 DEF Start, Answer, Raise, CheckResult, Handoff, CheckFailure,
         CommitFailure, Goto, TypeOK
    <3> QED
      BY <1>2, <2>1, <3>2 DEF WorksOn, Holding, HasSlot
  <2>3. CASE job[w] # k
    BY <1>2, <2>1, <2>3 DEF WorksOn, HasSlot
  <2> QED
    BY <2>2, <2>3
<1>9. CASE Settle(w) \/ HandlerFault(w)
  <2>1. UNCHANGED current /\ job[w] # k /\ (job'[w] = job[w] \/ job'[w] = NoJob)
    BY <1>9 DEF Settle, HandlerFault, TypeOK
  <2> QED
    BY <1>2, <2>1, NoJobAssumption DEF WorksOn, HasSlot
<1>10. CASE SettleRelease(w) \/ RefillFault(w)
  <2>1. /\ job[w] \in Job /\ current' = Release(job[w]) /\ UNCHANGED job
        /\ pc[w] \in {"settled", "handedOff"}
    BY <1>10 DEF SettleRelease, RefillFault, TypeOK, AtLoop
  <2>2. job[w] # k
    <3>1. CASE SettleRelease(w)
      BY <3>1, SoundWorker DEF SettleRelease
    <3>2. CASE RefillFault(w)
      BY <3>2 DEF RefillFault
    <3> QED
      BY <1>10, <3>1, <3>2
  <2>3. HasSlot(k)' <=> HasSlot(k)
    BY <2>1, <2>2, OtherRelease
  <2> QED
    BY <1>2, <2>1, <2>2, <2>3 DEF WorksOn
<1>11. CASE ReleaseSlot(w)
  <2>1. /\ job[w] \in Job /\ current' = Release(job[w]) /\ UNCHANGED job
        /\ pc'[w] = "leave"
    BY <1>11 DEF ReleaseSlot, Goto, TypeOK, AtLoop
  <2>2. CASE job[w] = k
    <3>1. BackendOf[k] \in Backends
      BY BackendOfAssumption
    <3>2. ~HasSlot(k)'
      BY <2>1, <2>2, <3>1 DEF HasSlot, Release, TypeOK
    <3>3. \A v \in Workers : ~WorksOn(v, k)'
      BY <1>3, <2>1, <2>2 DEF WorksOn, Holding
    <3> QED
      BY <3>2, <3>3 DEF Worked
  <2>3. CASE job[w] # k
    <3>1. HasSlot(k)' <=> HasSlot(k)
      BY <2>1, <2>3, OtherRelease
    <3> QED
      BY <1>2, <2>1, <2>3, <3>1 DEF WorksOn
  <2> QED
    BY <2>2, <2>3
<1>12. CASE Leave(w)
  <2>1. UNCHANGED current /\ pc[w] = "leave" /\ job'[w] = NoJob
    BY <1>12 DEF Leave, TypeOK
  <2> QED
    BY <1>2, <2>1, NoJobAssumption DEF WorksOn, Holding, HasSlot
<1> QED
  BY <1>4, <1>5, <1>6, <1>7, <1>8, <1>9, <1>10, <1>11, <1>12 DEF WorkerStep

\* Requests and tails work on no job, and release only a slot whose job its
\* user has cancelled.
LEMMA RequestSlots ==
    ASSUME TypeOK, DistinctIds, NEW j \in Job, NEW k \in Job, Sound(k), HasSlot(k) <=> Worked(k),
           \/ Submit(j) \/ DeleteRead(j) \/ CancelRead(j) \/ ClientCancelRead(j)
           \/ RetryRead(j) \/ CancelStep(j) \/ TailStep(j) \/ TailFails(j) \/ TailLost(j)
    PROVE  (HasSlot(k) <=> Worked(k))'
<1>1. UNCHANGED job /\ (pc' = pc \/ pc' = Woken(pc))
  BY DEF CancelStep, TailStep, Submit, DeleteRead, CancelRead, ClientCancelRead, RetryRead,
     CancelCommit, CancelRelease, ClientCancelCommit, DeleteCommit, RetryCommit, Ingest,
     Complete, Notify, TailFails, TailLost
<1>2. \A w \in Workers : WorksOn(w, k)' <=> WorksOn(w, k)
  BY <1>1, WokenWork
<1>3. CASE CancelRelease(j)
  <2>1. j # k /\ current' = Release(j)
    BY <1>3 DEF CancelRelease, Sound, RowFits
  <2> QED
    BY <1>2, <2>1, OtherRelease, SameWork
<1>4. ASSUME ~CancelRelease(j) PROVE UNCHANGED current
  BY <1>4 DEF CancelStep, TailStep, Submit, DeleteRead, CancelRead, ClientCancelRead, RetryRead,
     CancelCommit, ClientCancelCommit, DeleteCommit, RetryCommit, Ingest,
     Complete, Notify, TailFails, TailLost
<1>5. CASE ~CancelRelease(j)
  BY <1>2, <1>4, <1>5, SameWork DEF HasSlot
<1> QED
  BY <1>3, <1>5

\* A lost backend disturbs the jobs that hold its slots, and the sweep those
\* it releases.
LEMMA BackendSlots ==
    ASSUME TypeOK, SweepDisturbs, DistinctIds, NEW b \in Backends, NEW k \in Job, Sound(k),
           k \notin touched', HasSlot(k) <=> Worked(k),
           RequestWork(b) \/ Disconnect(b) \/ SweepStep(b) \/ SweepFault(b) \/ Reconnect(b)
    PROVE  (HasSlot(k) <=> Worked(k))'
<1>1. CASE Disconnect(b)
  <2>1. /\ current' = [current EXCEPT ![b] = {}] /\ UNCHANGED job
        /\ \A w \in Workers : pc'[w] = pc[w] \/ (pc[w] = "running" /\ pc'[w] = "lost")
        /\ k \notin HeldOn(b)
    BY <1>1 DEF Disconnect, TypeOK
  <2>2. \A w \in Workers : WorksOn(w, k)' <=> WorksOn(w, k)
    BY <2>1 DEF WorksOn, Holding
  <2>3. BackendOf[k] \in Backends
    BY BackendOfAssumption
  <2>4. CASE BackendOf[k] = b
    <3>1. ~Worked(k) /\ ~HasSlot(k)'
      BY <2>1, <2>3, <2>4 DEF HeldOn, Worked, WorksOn, HasSlot, TypeOK
    <3> QED
      BY <2>2, <3>1, SameWork
  <2>5. CASE BackendOf[k] # b
    <3>1. HasSlot(k)' <=> HasSlot(k)
      BY <2>1, <2>3, <2>5 DEF HasSlot, TypeOK
    <3> QED
      BY <2>2, <3>1, SameWork
  <2> QED
    BY <2>4, <2>5
<1>2. CASE SweepSettled(b)
  <2>1. /\ sweepRelease[b] \in Job /\ sweepRelease[b] \in touched /\ current' = Release(sweepRelease[b])
        /\ UNCHANGED <<job, touched>> /\ pc' = Woken(pc)
    BY <1>2 DEF SweepSettled, SweepDisturbs, TypeOK
  <2>2. \A w \in Workers : WorksOn(w, k)' <=> WorksOn(w, k)
    BY <2>1, WokenWork
  <2>3. HasSlot(k)' <=> HasSlot(k)
    BY <2>1, OtherRelease
  <2> QED
    BY <2>2, <2>3, SameWork
<1>3. ASSUME \/ RequestWork(b) \/ SweepFault(b) \/ Reconnect(b) \/ SweepSettleRow(b)
             \/ \E p \in Profiles : SweepRead(b, p)
             \/ \E j \in Job : SweepVisit(b, j)
      PROVE  (HasSlot(k) <=> Worked(k))'
  <2>1. UNCHANGED <<current, job, pc>>
    BY <1>3 DEF RequestWork, SweepFault, Reconnect, SweepSettleRow, SweepRead, SweepVisit
  <2> QED
    BY <2>1, SameWork DEF HasSlot, WorksOn, Holding
<1> QED
  BY <1>1, <1>2, <1>3 DEF SweepStep

\* Every step keeps the table and the workers in agreement.
LEMMA SlotStep == DistinctIds /\ SlotInv /\ [Next]_vars => SlotInv'
<1> SUFFICES ASSUME DistinctIds, SlotInv, [Next]_vars PROVE SlotInv'
  OBVIOUS
<1>1. TypeOK /\ SoundInv /\ SoundInv'
  BY SoundStep DEF SlotInv, SoundInv
<1>2. SweepDisturbs' /\ WithinCapacity'
  BY <1>1, SweepDisturbsStep, CapacityStep DEF SlotInv
<1>3. ASSUME NEW k \in Job, k \notin touched' PROVE (HasSlot(k) <=> Worked(k))'
  <2>1. k \notin touched
    BY <1>3, TouchedGrows
  <2>2. Sound(k) /\ (HasSlot(k) <=> Worked(k))
    BY <1>1, <2>1 DEF SlotInv, SlotsAgree, SoundInv
  <2>3. ASSUME NEW w \in Workers, WorkerStep(w) \/ RefillFault(w) \/ HandlerFault(w)
        PROVE  (HasSlot(k) <=> Worked(k))'
    BY <1>1, <1>3, <2>2, <2>3, WorkerSlots
  <2>4. ASSUME NEW j \in Job,
               \/ Submit(j) \/ DeleteRead(j) \/ CancelRead(j) \/ ClientCancelRead(j)
               \/ RetryRead(j) \/ CancelStep(j) \/ TailStep(j) \/ TailFails(j) \/ TailLost(j)
        PROVE  (HasSlot(k) <=> Worked(k))'
    BY <1>1, <2>2, <2>4, RequestSlots
  <2>5. ASSUME NEW b \in Backends,
               RequestWork(b) \/ Disconnect(b) \/ SweepStep(b) \/ SweepFault(b) \/ Reconnect(b)
        PROVE  (HasSlot(k) <=> Worked(k))'
    BY <1>1, <1>3, <2>2, <2>5, BackendSlots DEF SlotInv
  <2>6. CASE Restart
    BY <2>6, BackendOfAssumption, NoJobAssumption DEF Restart, HasSlot, Worked, WorksOn
  <2>7. CASE UNCHANGED vars
    BY <2>2, <2>7, SameWork DEF vars, HasSlot, WorksOn, Holding
  <2> QED
    BY <2>3, <2>4, <2>5, <2>6, <2>7 DEF Next
<1> QED
  BY <1>1, <1>2, <1>3 DEF SlotInv, SlotsAgree

\* Every slot is free at the start.
LEMMA InitSlots == Init => SlotInv
<1> SUFFICES ASSUME Init PROVE SlotInv
  OBVIOUS
<1>1. SweepDisturbs
  BY DEF Init, SweepDisturbs
<1>2. WithinCapacity
  BY CapacityAssumption, FS_EmptySet DEF Init, WithinCapacity
<1>3. SlotsAgree
  BY BackendOfAssumption, NoJobAssumption DEF Init, SlotsAgree, HasSlot, Worked, WorksOn
<1> QED
  BY <1>1, <1>2, <1>3, InitSound DEF SlotInv

\* The table and the workers agree in every reachable state.
LEMMA SlotsAlways == DistinctIds => (Spec => []SlotInv)
<1> SUFFICES ASSUME DistinctIds PROVE Spec => []SlotInv
  OBVIOUS
<1>1. SlotInv /\ [Next]_vars => SlotInv'
  BY SlotStep
<1> QED
  BY <1>1, InitSlots, PTL DEF Spec

\* The table never holds more ids than the backend can run, whatever the ids
\* of jobs are and whatever disturbs them.
THEOREM TableIsBounded == Spec => []WithinCapacity
<1>1. Init => WithinCapacity
  BY CapacityAssumption, FS_EmptySet DEF Init, WithinCapacity
<1>2. TypeOK /\ WithinCapacity /\ [Next]_vars => WithinCapacity'
  BY CapacityStep
<1> QED
  BY <1>1, <1>2, TypeCorrect, PTL DEF Spec

\* While a worker works on an undisturbed job its slot is taken.
THEOREM SlotsAreHeld == DistinctIds => (Spec => []SlotHeld)
<1>1. SlotInv => SlotHeld
  BY DEF SlotInv, SlotsAgree, SlotHeld, HasSlot, Worked
<1> QED
  BY <1>1, SlotsAlways, PTL

\* A slot taken by an undisturbed job has a worker that will give it back.
THEOREM SlotsAreOwned == DistinctIds => (Spec => []SlotOwned)
<1>1. SlotInv => SlotOwned
  BY DEF SlotInv, SlotsAgree, SlotOwned, HasSlot, Worked
<1> QED
  BY <1>1, SlotsAlways, PTL

\* No backend executes more undisturbed jobs than it can run: they have
\* different ids, all in its table, which never exceeds the capacity.
THEOREM CapacityIsRespected == DistinctIds => (Spec => []CapacityRespected)
<1> SUFFICES ASSUME DistinctIds PROVE Spec => []CapacityRespected
  OBVIOUS
<1>1. ASSUME SlotInv PROVE CapacityRespected
  <2>1. ASSUME NEW b \in Backends
        PROVE  Cardinality({j \in Job \ touched :
                              BackendOf[j] = b /\ \E w \in Workers : WorksOn(w, j)})
                 <= MaxConcurrent[b]
    <3> DEFINE atWork == {j \in Job \ touched :
                            BackendOf[j] = b /\ \E w \in Workers : WorksOn(w, j)}
               id == [j \in atWork |-> IdOf(j)]
    <3>1. \A j \in atWork : id[j] \in current[b]
      BY <1>1 DEF SlotInv, SlotsAgree, HasSlot, Worked
    <3>2. id \in Injection(atWork, current[b])
      BY <1>1, <3>1 DEF DistinctIds, Injection, IsInjective
    <3>3. IsFiniteSet(current[b]) /\ Cardinality(current[b]) <= MaxConcurrent[b]
      BY <1>1 DEF SlotInv, WithinCapacity
    <3> HIDE DEF atWork, id
    <3>4. IsFiniteSet(atWork) /\ Cardinality(atWork) <= Cardinality(current[b])
      BY <3>2, <3>3, FS_Injection
    <3>5. Cardinality(atWork) \in Nat /\ Cardinality(current[b]) \in Nat
      BY <3>3, <3>4, FS_CardinalityType
    <3>6. MaxConcurrent[b] \in Nat
      BY CapacityAssumption
    <3>7. Cardinality(atWork) <= MaxConcurrent[b]
      BY <3>3, <3>4, <3>5, <3>6
    <3> QED
      BY <3>7 DEF atWork
  <2> QED
    BY <2>1 DEF CapacityRespected
<1>2. SlotInv => CapacityRespected
  BY <1>1
<1>3. Spec => []SlotInv
  BY SlotsAlways
<1> QED
  BY <1>2, <1>3, PTL
=============================================================================
