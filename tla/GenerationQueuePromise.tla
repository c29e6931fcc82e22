----------------------- MODULE GenerationQueuePromise -----------------------
(***************************************************************************)
(* GenerationQueue implements JobQueue, for every set of profiles, jobs,   *)
(* backends and workers and every value of the bounds; and a job that      *)
(* nothing interferes with has one worker and a row that somebody carries. *)
(***************************************************************************)
EXTENDS GenerationQueueProofs

USE DEF Spending, Stages, CancelStage, durable, worker, reread, sweep, history

-----------------------------------------------------------------------------
(* What an undisturbed job's soundness depends on.                         *)

\* A step leaves the row, the requests and the tails of k alone, no worker
\* takes it up, and a worker that is at it stays where it is.
Kept(k) ==
    /\ status'[k] = status[k] /\ cancel'[k] = cancel[k]
    /\ tails'[k] = tails[k] /\ result'[k] = result[k]
    /\ \A w \in Workers : job'[w] = k => job[w] = k /\ pc'[w] = pc[w]
    /\ \A w \in Workers : job[w] = k /\ AtIt(w) => job'[w] = k /\ pc'[w] = pc[w]

\* Such a step keeps an undisturbed job sound.
LEMMA KeptSound ==
    ASSUME NEW k \in Job, Sound(k), Kept(k)
    PROVE  Sound(k)'
<1>1. OneWorker(k)'
  BY DEF Sound, Kept, OneWorker
<1>2. OneTail(k)' /\ (HasTail(k)' <=> HasTail(k))
  BY DEF Sound, Kept, OneTail, HasTail
<1>3. TailAlone(k)'
  BY <1>2 DEF Sound, Kept, TailAlone
<1>4. RowFits(k)'
  BY DEF Sound, Kept, RowFits
<1>5. RowIsCarried(k)'
  BY <1>2 DEF Sound, Kept, RowIsCarried, Settleable, AtIt
<1> QED
  BY <1>1, <1>2, <1>3, <1>4, <1>5 DEF Sound

\* A job that does not exist yet stays in nobody's hands.
LEMMA KeptFresh ==
    ASSUME NEW k \in Job, Fresh(k), Kept(k), k \in touched' => k \in touched \/ status[k] # "none"
    PROVE  Fresh(k)'
  BY DEF Fresh, Kept, HasTail

\* One worker takes the job it has from one program point to another.
Moves(w, p) ==
    /\ pc'[w] = p /\ job'[w] = job[w]
    /\ \A v \in Workers : v # w => job'[v] = job[v] /\ (job[v] = job[w] => pc'[v] = pc[v])

\* A worker's move keeps the job sound if the row fits the new point, a tail is
\* not disturbed and an active row stays carried.
LEMMA MoveSound ==
    ASSUME NEW w \in Workers, NEW k \in Job, job[w] = k, Sound(k), NEW p, Moves(w, p),
           UNCHANGED <<cancel, tails, result>>,
           status'[k] \in HeldWith(p), cancel[k] = "none",
           HasTail(k) => p \in {"handedOff", "leave"} /\ status'[k] = status[k],
           Settleable(k)' => HasTail(k) \/ p \in AtStart \cup AtWork
    PROVE  Sound(k)'
<1>1. \A v \in Workers : job'[v] = k <=> v = w
  BY DEF Sound, OneWorker, Moves
<1>2. job'[w] = k /\ pc'[w] = p
  BY DEF Moves
<1>3. OneWorker(k)'
  BY <1>1 DEF OneWorker
<1>4. OneTail(k)' /\ (HasTail(k)' <=> HasTail(k))
  BY DEF Sound, OneTail, HasTail
<1>5. TailAlone(k)'
  BY <1>1, <1>2, <1>4 DEF TailAlone
<1>6. RowFits(k)'
  <2>1. \A s \in Stages : tails'[k][s] > 0 => status'[k] = TailedWith(s)
    BY DEF Sound, RowFits, HasTail
  <2>2. \A v \in Workers : job'[v] = k => status'[k] \in HeldWith(pc'[v])
    BY <1>1, <1>2
  <2> QED
    BY <2>1, <2>2 DEF Sound, RowFits
<1>7. RowIsCarried(k)'
  BY <1>2, <1>4 DEF RowIsCarried, AtIt
<1> QED
  BY <1>3, <1>4, <1>5, <1>6, <1>7 DEF Sound

\* What soundness says of a job that a worker has.
LEMMA SoundWorker ==
    ASSUME NEW k \in Job, Sound(k), NEW w \in Workers, job[w] = k
    PROVE  /\ pc[w] \in InLock => status[k] = "queued"
           /\ pc[w] \in AtStart => status[k] = "assigned"
           /\ pc[w] \in {"running", "result", "output", "lost"} => status[k] = "processing"
           /\ pc[w] \in {"failing", "fail"} => status[k] \in {"assigned", "processing"}
           /\ pc[w] \in {"handedOff", "leave"}
                => status[k] \in {"processing", "completed", "failed", "deleted"}
           /\ pc[w] = "release" => status[k] \in {"failed", "deleted"}
           /\ status[k] = "queued" => pc[w] \in InLock
           /\ pc[w] \notin {"settled"} \cup AtLoop
           /\ pc[w] \notin {"handedOff", "leave"} => ~HasTail(k)
           /\ pc[w] \notin {"handedOff", "leave", "release"} => cancel[k] = "none"
<1>1. status[k] \in HeldWith(pc[w])
  BY DEF Sound, RowFits
<1> QED
  BY <1>1 DEF HeldWith, InLock, AtStart, AtLoop, Sound, RowFits, TailAlone

\* A worker's step leaves a job it does not have sound.
LEMMA OtherSound ==
    ASSUME NEW w \in Workers, NEW k \in Job, Sound(k), job[w] # k,
           UNCHANGED <<job, cancel, tails, result>>, status'[k] = status[k],
           \A v \in Workers : v # w => pc'[v] = pc[v]
    PROVE  Sound(k)'
<1>1. Kept(k)
  BY DEF Kept
<1> QED
  BY <1>1, KeptSound

\* A worker moves on with an undisturbed job that has no tail.
LEMMA GotoSound ==
    ASSUME TypeOK, NEW w \in Workers, NEW k \in Job, Sound(k), job[w] = k,
           NEW p \in AtWork \cup AtStart \cup {"release"}, Goto(w, p),
           pc[w] \notin {"handedOff", "leave", "release"},
           UNCHANGED <<job, cancel, tails, result>>,
           status'[k] \in HeldWith(p), p = "release" => ~Settleable(k)'
    PROVE  Sound(k)'
<1>1. Moves(w, p)
  BY DEF Moves, Goto, TypeOK, Sound, OneWorker
<1>2. cancel[k] = "none" /\ ~HasTail(k)
  BY SoundWorker
<1> QED
  BY <1>1, <1>2, MoveSound

\* The moves of a worker that write no row, or that of the job it has.
LEMMA WorkerMovesSound ==
    ASSUME TypeOK, NEW w \in Workers, NEW k \in Job, Sound(k),
           \/ Answer(w) \/ Raise(w) \/ CheckResult(w) \/ CheckFailure(w)
           \/ CommitFailure(w) \/ Start(w)
    PROVE  Sound(k)'
<1> DEFINE Rest == UNCHANGED <<job, cancel, tails, result>>
<1> USE DEF HeldWith, AtWork, InLock, AtStart
<1>1. CASE Answer(w)
  <2>1. Rest /\ UNCHANGED status /\ Goto(w, "result") /\ pc[w] = "running"
    BY <1>1 DEF Answer
  <2>2. CASE job[w] = k
    <3>1. status'[k] = "processing"
      BY <2>1, <2>2, SoundWorker
    <3> QED
      BY <2>1, <2>2, <3>1, GotoSound
  <2> QED
    BY <2>1, <2>2, OtherSound DEF Goto, TypeOK
<1>2. CASE Raise(w)
  <2>1. Rest /\ UNCHANGED status
    BY <1>2 DEF Raise
  <2>2. \/ Goto(w, "lost") /\ pc[w] = "running"
        \/ Goto(w, "failing") /\ pc[w] \in {"begin", "running", "result", "output"}
    BY <1>2 DEF Raise
  <2>3. CASE job[w] = k
    <3>1. /\ status'[k] \in {"assigned", "processing"}
          /\ pc[w] = "running" => status'[k] = "processing"
      BY <2>1, <2>2, <2>3, SoundWorker
    <3> QED
      BY <2>1, <2>2, <2>3, <3>1, GotoSound
  <2> QED
    BY <2>1, <2>2, <2>3, OtherSound DEF Goto, TypeOK
<1>3. CASE CheckResult(w)
  <2>1. Rest /\ UNCHANGED status /\ pc[w] = "result"
    BY <1>3 DEF CheckResult
  <2>2. CASE job[w] = k
    <3>1. status[k] = "processing" /\ status'[k] = "processing"
      BY <2>1, <2>2, SoundWorker
    <3>2. Goto(w, "output")
      BY <1>3, <2>2, <3>1 DEF CheckResult
    <3> QED
      BY <2>1, <2>2, <3>1, <3>2, GotoSound
  <2>3. \A v \in Workers : v # w => pc'[v] = pc[v]
    BY <1>3 DEF CheckResult, Goto, TypeOK
  <2> QED
    BY <2>1, <2>2, <2>3, OtherSound
<1>4. CASE CheckFailure(w)
  <2>1. Rest /\ UNCHANGED status /\ pc[w] = "failing"
    BY <1>4 DEF CheckFailure
  <2>2. CASE job[w] = k
    <3>1. status[k] \in {"assigned", "processing"} /\ status'[k] = status[k]
      BY <2>1, <2>2, SoundWorker
    <3>2. Goto(w, "fail")
      BY <1>4, <2>2, <3>1 DEF CheckFailure
    <3> QED
      BY <2>1, <2>2, <3>1, <3>2, GotoSound
  <2>3. \A v \in Workers : v # w => pc'[v] = pc[v]
    BY <1>4 DEF CheckFailure, Goto, TypeOK
  <2> QED
    BY <2>1, <2>2, <2>3, OtherSound
<1>5. CASE CommitFailure(w)
  <2>1. Rest /\ Update(job[w], "failed") /\ pc[w] = "fail" /\ Goto(w, "release")
    BY <1>5 DEF CommitFailure
  <2>2. CASE job[w] = k
    <3>1. status[k] \in {"assigned", "processing"}
      BY <2>1, <2>2, SoundWorker
    <3>2. status'[k] = "failed"
      BY <2>1, <2>2, <3>1 DEF Update, TypeOK
    <3> QED
      BY <2>1, <2>2, <3>2, GotoSound DEF Settleable
  <2>3. job[w] # k => status'[k] = status[k]
    BY <2>1 DEF Update, TypeOK
  <2> QED
    BY <2>1, <2>2, <2>3, OtherSound DEF Goto, TypeOK
<1>6. CASE Start(w)
  <2>1. Rest /\ pc[w] = "begin"
    BY <1>6 DEF Start
  <2>2. CASE job[w] = k
    <3>1. status[k] = "assigned"
      BY <2>1, <2>2, SoundWorker
    <3>2. status'[k] = "processing" /\ Goto(w, "running")
      BY <1>6, <2>2, <3>1 DEF Start, TypeOK, ActiveStatus
    <3> QED
      BY <2>1, <2>2, <3>2, GotoSound
  <2>3. /\ job[w] # k => status'[k] = status[k]
        /\ \A v \in Workers : v # w => pc'[v] = pc[v]
    BY <1>6 DEF Start, Goto, TypeOK
  <2> QED
    BY <2>1, <2>2, <2>3, OtherSound
<1> QED
  BY <1>1, <1>2, <1>3, <1>4, <1>5, <1>6

\* A queued job in nobody's hands is taken by the worker that holds the lock.
LEMMA SelectSound ==
    ASSUME TypeOK, NEW w \in Workers, NEW k \in Job, Sound(k), Select(w)
    PROVE  Sound(k)'
<1>1. /\ UNCHANGED <<status, cancel, tails, result>> /\ pc[w] = "scan" /\ job[w] # k
      /\ \A v \in Workers : v # w => job'[v] = job[v] /\ pc'[v] = pc[v]
      /\ \A v \in Workers : pc[v] \notin InLock
  BY SoundWorker DEF Select, LockFree, TypeOK, Goto, AtLoop
<1>2. CASE job'[w] # k
  <2>1. Kept(k)
    BY <1>1, <1>2 DEF Kept
  <2> QED
    BY <2>1, KeptSound
<1>3. CASE job'[w] = k
  <2>1. status[k] = "queued" /\ pc'[w] = "selected"
    BY <1>1, <1>3 DEF Select, Queued, Goto, TypeOK
  <2>2. \A v \in Workers : job'[v] = k <=> v = w
    BY <1>1, <1>3, <2>1, SoundWorker
  <2>3. ~HasTail(k)' /\ OneTail(k)' /\ OneWorker(k)'
    BY <1>1, <2>1, <2>2 DEF Sound, RowFits, HasTail, OneTail, OneWorker, TailedWith
  <2>4. status'[k] \in HeldWith("selected")
    BY <1>1, <2>1 DEF HeldWith, InLock, AtStart
  <2>5. RowFits(k)'
    BY <1>1, <2>1, <2>2, <2>4 DEF Sound, RowFits
  <2> QED
    BY <1>1, <2>1, <2>3, <2>5 DEF Sound, TailAlone, RowIsCarried, Settleable
<1> QED
  BY <1>2, <1>3

\* The rest of the assignment, and the worker's way into the job.
LEMMA AssignSound ==
    ASSUME TypeOK, NEW w \in Workers, NEW k \in Job, Sound(k),
           Reserve(w) \/ CommitAssign(w) \/ Begin(w)
    PROVE  Sound(k)'
<1>1. /\ UNCHANGED <<cancel, tails, result>> /\ (job[w] # k => status'[k] = status[k])
      /\ job' \in {job, [job EXCEPT ![w] = NoJob]}
      /\ \A v \in Workers : v # w => pc'[v] = pc[v] /\ job'[v] = job[v]
      /\ NoJob # k
  BY NoJobAssumption DEF Reserve, CommitAssign, Begin, Update, TypeOK, Goto
<1>2. CASE job[w] # k
  <2>1. Kept(k)
    BY <1>1, <1>2 DEF Kept, TypeOK
  <2> QED
    BY <2>1, KeptSound
<1>3. CASE Reserve(w) /\ job[w] = k
  <2>1. UNCHANGED status /\ pc[w] = "selected" /\ status[k] = "queued"
    BY <1>3, SoundWorker DEF Reserve, InLock
  <2>2. CASE job' = job /\ Goto(w, "reserved")
    <3>1. Moves(w, "reserved") /\ status'[k] \in HeldWith("reserved")
      BY <1>1, <2>1, <2>2 DEF Moves, Goto, TypeOK, HeldWith, InLock, AtStart
    <3>2. cancel[k] = "none" /\ ~HasTail(k)
      BY <1>3, <2>1, SoundWorker
    <3>3. ~Settleable(k)'
      BY <2>1 DEF Settleable
    <3> QED
      BY <1>1, <1>3, <2>1, <2>2, <3>1, <3>2, <3>3, MoveSound
  <2>3. CASE job' = [job EXCEPT ![w] = NoJob]
    <3>1. Kept(k)
      BY <1>1, <2>1, <2>3 DEF Kept, TypeOK, AtIt, AtStart, AtWork
    <3> QED
      BY <3>1, KeptSound
  <2> QED
    BY <1>3, <2>2, <2>3 DEF Reserve
<1>4. CASE CommitAssign(w) /\ job[w] = k
  <2>1. pc[w] = "reserved" /\ status[k] = "queued"
    BY <1>4, SoundWorker DEF CommitAssign, InLock
  <2>2. Goto(w, "assigned") /\ UNCHANGED job /\ status'[k] = "assigned"
    BY <1>4, <2>1 DEF CommitAssign, Update, TypeOK
  <2>3. status'[k] \in HeldWith("assigned")
    BY <2>2 DEF HeldWith, InLock, AtStart
  <2> QED
    BY <1>1, <1>4, <2>1, <2>2, <2>3, GotoSound DEF AtStart
<1>5. CASE Begin(w) /\ job[w] = k
  <2>1. pc[w] = "assigned" /\ status[k] = "assigned" /\ UNCHANGED status
    BY <1>5, SoundWorker DEF Begin, AtStart
  <2>2. Goto(w, "begin") /\ UNCHANGED job
    BY <1>5, <2>1 DEF Begin
  <2>3. status'[k] \in HeldWith("begin")
    BY <2>1 DEF HeldWith, InLock, AtStart
  <2> QED
    BY <1>1, <1>5, <2>1, <2>2, <2>3, GotoSound DEF AtStart
<1> QED
  BY <1>2, <1>3, <1>4, <1>5

\* The output is handed to a tail that then carries the row alone.
LEMMA HandoffSound ==
    ASSUME TypeOK, NEW w \in Workers, NEW k \in Job, Sound(k), Handoff(w)
    PROVE  Sound(k)'
<1>1. /\ UNCHANGED <<status, job, cancel, result>> /\ Goto(w, "handedOff")
      /\ pc[w] = "output" /\ job[w] \in Job
      /\ tails' = [tails EXCEPT ![job[w]]["ingest"] = @ + 1]
  BY DEF Handoff, TypeOK, AtLoop
<1>2. CASE job[w] # k
  <2>1. Kept(k)
    BY <1>1, <1>2 DEF Kept, Goto, TypeOK
  <2> QED
    BY <2>1, KeptSound
<1>3. CASE job[w] = k
  <2>1. status'[k] = "processing" /\ ~HasTail(k) /\ cancel[k] = "none"
    BY <1>1, <1>3, SoundWorker
  <2>2. \A s \in Stages : tails[k][s] = 0
    BY <2>1 DEF HasTail, TypeOK
  <2>3. tails'[k] = [tails[k] EXCEPT !["ingest"] = tails[k]["ingest"] + 1]
    BY <1>1, <1>3 DEF TypeOK
  <2>4. \A s \in Stages : tails'[k][s] = IF s = "ingest" THEN 1 ELSE 0
    BY <2>2, <2>3 DEF TypeOK
  <2>5. HasTail(k)' /\ OneTail(k)'
    BY <2>4 DEF HasTail, OneTail
  <2>6. \A v \in Workers : job'[v] = k => v = w
    BY <1>1, <1>3 DEF Sound, OneWorker
  <2>7. status'[k] \in HeldWith("handedOff") /\ pc'[w] = "handedOff"
    BY <1>1, <2>1 DEF HeldWith, InLock, AtStart, Goto, TypeOK
  <2>8. RowFits(k)'
    <3>1. \A s \in Stages : tails'[k][s] > 0 => status'[k] = TailedWith(s)
      BY <2>1, <2>4 DEF TailedWith
    <3>2. tails'[k]["settle"] = 0
      BY <2>4
    <3> QED
      BY <1>1, <2>1, <2>6, <2>7, <3>1, <3>2 DEF RowFits
  <2> QED
    BY <2>5, <2>6, <2>7, <2>8 DEF Sound, OneWorker, TailAlone, RowIsCarried
<1> QED
  BY <1>2, <1>3

\* The end of a worker's way: it lets go of the job or touches it.
LEMMA WorkerLeavesSound ==
    ASSUME TypeOK, NEW w \in Workers, NEW k \in Job, Sound(k), k \notin touched',
           \/ LoopTop(w) \/ BeginScan(w) \/ Settle(w) \/ SettleRelease(w) \/ ReleaseSlot(w)
           \/ Leave(w) \/ RefillFault(w) \/ HandlerFault(w)
    PROVE  Sound(k)'
<1> USE NoJobAssumption DEF TypeOK
<1>1. CASE LoopTop(w) \/ BeginScan(w)
  <2>1. UNCHANGED <<status, cancel, tails, result, job>> /\ pc[w] \in AtLoop
    BY <1>1 DEF LoopTop, BeginScan, AtLoop
  <2>2. \A v \in Workers : job[v] = k => pc'[v] = pc[v]
    <3>1. pc' = Woken([pc EXCEPT ![w] = "loop"]) \/ \E p \in AtLoop : Goto(w, p)
      BY <1>1 DEF LoopTop, BeginScan, AtLoop, Goto
    <3> QED
      BY <2>1, <3>1 DEF Woken, Goto, AtLoop
  <2>3. Kept(k)
    BY <2>1, <2>2 DEF Kept
  <2> QED
    BY <2>3, KeptSound
<1>2. CASE Settle(w) \/ RefillFault(w) \/ HandlerFault(w)
  <2>1. UNCHANGED <<cancel, tails, result>> /\ job[w] # k /\ pc[w] \notin AtLoop
    BY <1>2 DEF Settle, RefillFault, HandlerFault, AtLoop
  <2>2. /\ job' \in {job, [job EXCEPT ![w] = NoJob]} /\ status'[k] = status[k]
        /\ \A v \in Workers : v # w => pc'[v] = pc[v]
    BY <1>2, <2>1 DEF Settle, RefillFault, HandlerFault, SettleRow, Goto
  <2>3. Kept(k)
    BY <2>1, <2>2 DEF Kept
  <2> QED
    BY <2>3, KeptSound
<1>3. CASE SettleRelease(w) \/ Leave(w)
  <2>1. /\ UNCHANGED <<status, cancel, tails, result>> /\ pc[w] \in {"settled", "leave"}
        /\ job' \in {job, [job EXCEPT ![w] = NoJob]} /\ (pc[w] = "settled" => job' = job)
        /\ (pc[w] = "leave" => job'[w] # k)
    BY <1>3 DEF SettleRelease, Leave
  <2>2. \A v \in Workers : v # w /\ job[v] = k => pc'[v] = pc[v]
    BY <1>3 DEF SettleRelease, Leave, Woken, AtLoop
  <2>3. pc[w] = "settled" => job[w] # k
    BY SoundWorker
  <2>4. Kept(k)
    BY <2>1, <2>2, <2>3 DEF Kept, AtIt, AtStart, AtWork
  <2> QED
    BY <2>4, KeptSound
<1>4. CASE ReleaseSlot(w)
  <2>1. /\ UNCHANGED <<status, cancel, tails, result, job>> /\ Goto(w, "leave")
        /\ pc[w] \in {"handedOff", "release"}
    BY <1>4 DEF ReleaseSlot
  <2>2. CASE job[w] = k
    <3>1. /\ status[k] \in HeldWith("leave") /\ status[k] # "assigned"
          /\ status[k] = "processing" => HasTail(k)
      <4>1. status[k] \in {"processing", "completed", "failed", "deleted"}
        BY <2>1, <2>2, SoundWorker
      <4>2. ~ \E v \in Workers : job[v] = k /\ AtIt(v)
        BY <2>1, <2>2 DEF Sound, OneWorker, AtIt, AtStart, AtWork
      <4>3. status[k] = "processing" => HasTail(k)
        BY <4>2 DEF Sound, RowIsCarried, Settleable
      <4> QED
        BY <4>1, <4>3 DEF HeldWith, InLock, AtStart
    <3>2. /\ OneWorker(k)' /\ OneTail(k)' /\ HasTail(k)' = HasTail(k) /\ RowIsCarried(k)'
          /\ TailAlone(k)'
      BY <2>1, <2>2, <3>1 DEF Sound, OneWorker, OneTail, HasTail, RowIsCarried, TailAlone,
         Settleable, Goto
    <3>3. RowFits(k)'
      BY <2>1, <2>2, <3>1 DEF Sound, RowFits, OneWorker, Goto
    <3> QED
      BY <3>2, <3>3 DEF Sound
  <2> QED
    BY <2>1, <2>2, OtherSound DEF Goto
<1> QED
  BY <1>1, <1>2, <1>3, <1>4

\* What soundness says of a job that has a tail at stage s: it is the only one,
\* and no worker is at the job.
LEMMA SoundTail ==
    ASSUME TypeOK, NEW k \in Job, Sound(k), NEW s \in Stages, tails[k][s] > 0
    PROVE  /\ \A t \in Stages : tails[k][t] = IF t = s THEN 1 ELSE 0
           /\ \A w \in Workers : job[w] = k => pc[w] \in {"handedOff", "leave"}
           /\ cancel[k] = "none" /\ status[k] = TailedWith(s)
           /\ s = "settle" => result[k]
<1>1. HasTail(k)
  BY DEF HasTail
<1>2. tails[k][s] = 1 /\ \A t \in Stages \ {s} : ~(tails[k][t] > 0)
  BY DEF Sound, OneTail
<1>3. \A t \in Stages : tails[k][t] \in Nat
  BY DEF TypeOK
<1>4. \A t \in Stages : tails[k][t] = IF t = s THEN 1 ELSE 0
  BY <1>2, <1>3
<1>5. status[k] = TailedWith(s) /\ (s = "settle" => result[k])
  BY DEF Sound, RowFits
<1>6. cancel[k] = "none"
  BY <1>5 DEF Sound, RowFits, TailedWith
<1> QED
  BY <1>1, <1>4, <1>5, <1>6 DEF Sound, TailAlone

\* A step of the only tail of a job keeps it sound, if the row moves with it.
LEMMA TailMovesSound ==
    ASSUME TypeOK, NEW k \in Job, Sound(k), NEW s \in Stages, tails[k][s] > 0,
           UNCHANGED <<job, pc, cancel>>,
           \/ /\ status'[k] \in {"completed", "failed"}
              /\ \A t \in Stages : tails'[k][t] = 0
           \/ \E t \in Stages : /\ status'[k] = TailedWith(t)
                                /\ t = "settle" => result'[k]
                                /\ \A u \in Stages : tails'[k][u] = IF u = t THEN 1 ELSE 0
    PROVE  Sound(k)'
<1>1. \A w \in Workers : job[w] = k => pc[w] \in {"handedOff", "leave"}
  BY SoundTail
<1>2. OneWorker(k)' /\ TailAlone(k)' /\ OneTail(k)'
  BY <1>1 DEF Sound, OneWorker, TailAlone, OneTail
<1>3. status'[k] \in {"completed", "failed", "processing"}
  BY DEF TailedWith
<1>4. \A w \in Workers : job'[w] = k => status'[k] \in HeldWith(pc'[w])
  BY <1>1, <1>3 DEF HeldWith, InLock, AtStart
<1>5. /\ \A t \in Stages : tails'[k][t] > 0 => status'[k] = TailedWith(t)
      /\ tails'[k]["settle"] > 0 => result'[k]
  OBVIOUS
<1>6. RowFits(k)'
  BY <1>4, <1>5, SoundTail DEF RowFits
<1>7. RowIsCarried(k)'
  BY DEF RowIsCarried, Settleable, HasTail
<1> QED
  BY <1>2, <1>6, <1>7 DEF Sound

\* The steps of a tail keep every undisturbed job sound.
LEMMA TailsSound ==
    ASSUME TypeOK, NEW j \in Job, NEW k \in Job, Sound(k), k \notin touched',
           Ingest(j) \/ Complete(j) \/ Notify(j) \/ TailFails(j) \/ TailLost(j)
    PROVE  Sound(k)'
<1> USE DEF TypeOK
<1>1. UNCHANGED <<job, pc, cancel>>
  BY DEF Ingest, Complete, Notify, TailFails, TailLost
<1>2. CASE j # k
  <2>1. tails'[k] = tails[k] /\ result'[k] = result[k] /\ status'[k] = status[k]
    BY <1>2 DEF Ingest, Complete, Notify, TailFails, TailLost, MoveTail, DropTail, Update
  <2>2. Kept(k)
    BY <1>1, <2>1 DEF Kept
  <2> QED
    BY <2>2, KeptSound
<1>3. CASE j = k /\ Ingest(j)
  <2>1. tails[k]["ingest"] > 0
    BY <1>3 DEF Ingest
  <2>2. status[k] = "processing" /\ \A t \in Stages : tails[k][t] = IF t = "ingest" THEN 1 ELSE 0
    BY <2>1, SoundTail DEF TailedWith
  <2>3. MoveTail(k, "ingest", "settle") /\ UNCHANGED status
        /\ result' = [result EXCEPT ![k] = TRUE]
    BY <1>3, <2>2 DEF Ingest
  <2>4. \A t \in Stages : tails'[k][t] = IF t = "settle" THEN 1 ELSE 0
    BY <2>2, <2>3 DEF MoveTail
  <2>5. status'[k] = TailedWith("settle") /\ result'[k]
    BY <2>2, <2>3 DEF TailedWith
  <2> QED
    BY <1>1, <2>1, <2>4, <2>5, TailMovesSound
<1>4. CASE j = k /\ Complete(j)
  <2>1. tails[k]["settle"] > 0 /\ MoveTail(k, "settle", "notify") /\ Update(k, "completed")
    BY <1>4 DEF Complete
  <2>2. status[k] = "processing" /\ \A t \in Stages : tails[k][t] = IF t = "settle" THEN 1 ELSE 0
    BY <2>1, SoundTail DEF TailedWith
  <2>3. \A t \in Stages : tails'[k][t] = IF t = "notify" THEN 1 ELSE 0
    BY <2>1, <2>2 DEF MoveTail
  <2>4. status'[k] = TailedWith("notify")
    BY <2>1, <2>2 DEF TailedWith, Update
  <2> QED
    BY <1>1, <2>1, <2>3, <2>4, TailMovesSound
<1>5. CASE j = k /\ Notify(j)
  <2>1. tails[k]["notify"] > 0 /\ DropTail(k, "notify") /\ UNCHANGED status
    BY <1>5 DEF Notify
  <2>2. status[k] = "completed" /\ \A t \in Stages : tails[k][t] = IF t = "notify" THEN 1 ELSE 0
    BY <2>1, SoundTail DEF TailedWith
  <2>3. \A t \in Stages : tails'[k][t] = 0
    BY <2>1, <2>2 DEF DropTail
  <2> QED
    BY <1>1, <2>1, <2>2, <2>3, TailMovesSound
<1>6. CASE j = k /\ TailFails(j)
  <2>1. PICK s \in Stages : tails[k][s] > 0 /\ DropTail(k, s)
    BY <1>6 DEF TailFails
  <2>2. status[k] # "deleted" /\ \A t \in Stages : tails[k][t] = IF t = s THEN 1 ELSE 0
    BY <2>1, SoundTail DEF TailedWith
  <2>3. status'[k] = "failed"
    BY <1>6, <2>2 DEF TailFails, Update
  <2>4. \A t \in Stages : tails'[k][t] = 0
    BY <2>1, <2>2 DEF DropTail
  <2> QED
    BY <1>1, <2>1, <2>3, <2>4, TailMovesSound
<1>7. CASE j = k /\ TailLost(j)
  BY <1>7 DEF TailLost
<1> QED
  BY <1>2, <1>3, <1>4, <1>5, <1>6, <1>7

\* Setting the event moves no worker that has a job.
LEMMA WokenKeeps ==
    ASSUME TypeOK, NEW w \in Workers, job[w] \in Job
    PROVE  Woken(pc)[w] = pc[w]
  BY NoJobAssumption DEF Woken, TypeOK, AtLoop

\* Requests for a job, once read, reach an undisturbed job only to delete it.
LEMMA RequestsSound ==
    ASSUME TypeOK, NEW j \in Job, NEW k \in Job, Sound(k), Fresh(k), k \notin touched',
           \/ Submit(j) \/ DeleteRead(j) \/ CancelRead(j) \/ ClientCancelRead(j)
           \/ RetryRead(j) \/ CancelStep(j)
    PROVE  Sound(k)'
<1> USE DEF TypeOK
<1>1. UNCHANGED <<job, tails>> /\ \A w \in Workers : job[w] = k => pc'[w] = pc[w]
  BY WokenKeeps DEF Submit, DeleteRead, CancelRead, ClientCancelRead, RetryRead, CancelStep,
     CancelCommit, CancelRelease, ClientCancelCommit, DeleteCommit, RetryCommit
<1>2. CASE j # k
  <2>1. cancel'[k] = cancel[k] /\ result'[k] = result[k] /\ status'[k] = status[k]
    BY <1>2 DEF Submit, DeleteRead, CancelRead, ClientCancelRead, RetryRead, CancelStep,
       CancelCommit, CancelRelease, ClientCancelCommit, DeleteCommit, RetryCommit, Update
  <2>2. Kept(k)
    BY <1>1, <2>1 DEF Kept
  <2> QED
    BY <2>2, KeptSound
<1>3. CASE j = k /\ Submit(j)
  <2>1. status'[k] = "queued" /\ cancel'[k] = "none" /\ ~HasTail(k) /\ \A w \in Workers : job[w] # k
    BY <1>3 DEF Submit, Fresh
  <2>2. ~HasTail(k)'
    BY <1>1, <2>1 DEF HasTail
  <2> QED
    BY <1>1, <2>1, <2>2 DEF Sound, OneWorker, OneTail, TailAlone, RowFits, RowIsCarried, HasTail,
       Settleable
<1>4. CASE j = k /\ (DeleteRead(j) \/ DeleteCommit(j))
  <2>1. /\ status[k] \in {"failed", "cancelled"} /\ status'[k] \in {"failed", "cancelled", "deleted"}
        /\ cancel'[k] \in {"none", "deleteRead"}
        /\ cancel'[k] = "deleteRead" => status'[k] = status[k]
        /\ status'[k] \in {status[k], "deleted"}
    BY <1>4 DEF DeleteRead, DeleteCommit, Sound, RowFits
  <2>2. ~HasTail(k) /\ \A w \in Workers : job[w] = k => pc[w] \in {"handedOff", "release", "leave"}
    <3>1. \A w \in Workers : job[w] = k => pc[w] \in PC \ AtLoop
      BY NoJobAssumption DEF AtLoop
    <3>2. ~HasTail(k)
      BY <2>1 DEF Sound, RowFits, HasTail, TailedWith
    <3>3. ASSUME NEW w \in Workers, job[w] = k
          PROVE  pc[w] \notin InLock \cup AtStart \cup AtWork \cup {"settled"}
      BY <2>1, <3>3, SoundWorker DEF InLock, AtStart, AtWork
    <3> QED
      BY <3>1, <3>2, <3>3 DEF PC, AtFinish
  <2>3. \A w \in Workers : job[w] = k => status'[k] \in HeldWith(pc[w])
    <3>1. ASSUME NEW w \in Workers, job[w] = k PROVE status[k] = "failed"
      BY <2>1, <2>2, <3>1, SoundWorker
    <3> QED
      BY <2>1, <2>2, <3>1 DEF HeldWith, InLock, AtStart
  <2>4. ~HasTail(k)' /\ OneTail(k)'
    BY <1>1, <2>2 DEF HasTail, OneTail
  <2> QED
    BY <1>1, <2>1, <2>3, <2>4 DEF Sound, OneWorker, TailAlone, RowFits, RowIsCarried, HasTail,
       Settleable
<1>5. CASE j = k /\ ~(Submit(j) \/ DeleteRead(j) \/ DeleteCommit(j))
  <2>1. cancel[k] \in {"none", "deleteRead"}
    BY DEF Sound, RowFits
  <2> QED
    BY <1>5, <2>1 DEF CancelRead, ClientCancelRead, RetryRead, CancelStep, CancelCommit,
       CancelRelease, ClientCancelCommit, RetryCommit
<1> QED
  BY <1>2, <1>3, <1>4, <1>5

\* What happens to a backend touches the jobs it concerns.
LEMMA BackendsSound ==
    ASSUME TypeOK, NEW b \in Backends, NEW k \in Job, Sound(k), k \notin touched',
           RequestWork(b) \/ Disconnect(b) \/ SweepStep(b) \/ SweepFault(b) \/ Reconnect(b)
    PROVE  Sound(k)'
<1> USE DEF TypeOK
<1>1. UNCHANGED <<job, tails, cancel, result>>
  BY DEF RequestWork, Disconnect, SweepStep, SweepRead, SweepVisit, SweepSettleRow,
     SweepSettled, SweepFault, Reconnect
<1>2. status'[k] = status[k]
  BY DEF RequestWork, Disconnect, SweepStep, SweepRead, SweepVisit, SweepSettleRow,
     SweepSettled, SweepFault, Reconnect, SettleRow
<1>3. ASSUME NEW w \in Workers, job[w] = k PROVE pc'[w] = pc[w]
  <2>1. CASE Disconnect(b)
    BY <1>3, <2>1 DEF Disconnect, HeldOn
  <2>2. CASE ~Disconnect(b)
    <3>1. pc' \in {pc, Woken(pc)}
      BY <2>2 DEF RequestWork, SweepStep, SweepRead, SweepVisit, SweepSettleRow, SweepSettled,
         SweepFault, Reconnect
    <3> QED
      BY <1>3, <3>1, WokenKeeps
  <2> QED
    BY <2>1, <2>2
<1>4. Kept(k)
  BY <1>1, <1>2, <1>3 DEF Kept
<1> QED
  BY <1>4, KeptSound

\* After a restart nobody has a job and no row is active but queued ones.
LEMMA RestartSound ==
    ASSUME TypeOK, NEW k \in Job, Restart
    PROVE  Sound(k)'
<1>1. /\ \A w \in Workers : job'[w] # k
      /\ \A s \in Stages : tails'[k][s] = 0
      /\ cancel'[k] = "none" /\ status'[k] \notin {"assigned", "processing"}
  BY NoJobAssumption DEF Restart, Interrupted, TypeOK
<1> QED
  BY <1>1 DEF Sound, OneWorker, OneTail, TailAlone, RowFits, RowIsCarried, HasTail, Settleable

-----------------------------------------------------------------------------
(* The invariant.                                                          *)

\* No step makes a row that does not exist anybody's.
LEMMA FreshStep ==
    ASSUME TypeOK, [Next]_vars, NEW k \in Job, Fresh(k)
    PROVE  Fresh(k)'
<1> SUFFICES ASSUME status'[k] = "none"
             PROVE  /\ k \notin touched' /\ cancel'[k] = "none" /\ ~HasTail(k)'
                    /\ \A w \in Workers : job'[w] # k
  BY DEF Fresh
<1> DEFINE Goal == /\ k \notin touched' /\ cancel'[k] = "none" /\ ~HasTail(k)'
                   /\ \A w \in Workers : job'[w] # k
<1> USE NoJobAssumption DEF TypeOK
<1>1. status[k] = "none" => /\ k \notin touched /\ cancel[k] = "none" /\ ~HasTail(k)
                            /\ \A w \in Workers : job[w] # k
  BY DEF Fresh
<1>2. ASSUME NEW j \in Job,
             \/ Submit(j) \/ DeleteRead(j) \/ CancelRead(j) \/ ClientCancelRead(j)
             \/ RetryRead(j) \/ CancelStep(j)
      PROVE  Goal
  <2>1. status[k] = "none" /\ UNCHANGED <<tails, job>>
    BY <1>2 DEF Submit, DeleteRead, CancelRead, ClientCancelRead, RetryRead, CancelStep,
       CancelCommit, CancelRelease, ClientCancelCommit, DeleteCommit, RetryCommit, Update
  <2>2. k \notin touched' /\ cancel'[k] = "none"
    BY <1>1, <1>2, <2>1 DEF Submit, DeleteRead, CancelRead, ClientCancelRead, RetryRead,
       CancelStep, CancelCommit, CancelRelease, ClientCancelCommit, DeleteCommit, RetryCommit,
       ActiveStatus
  <2> QED
    BY <1>1, <2>1, <2>2 DEF HasTail
<1>3. ASSUME NEW j \in Job, TailStep(j) \/ TailFails(j) \/ TailLost(j)
      PROVE  Goal
  <2>1. status[k] = "none" /\ UNCHANGED <<cancel, job>>
    BY <1>3 DEF TailStep, Ingest, Complete, Notify, TailFails, TailLost, Update
  <2>2. HasTail(j)
    BY <1>3 DEF TailStep, Ingest, Complete, Notify, TailFails, TailLost, HasTail
  <2>3. j # k
    BY <1>1, <2>1, <2>2
  <2>4. tails'[k] = tails[k] /\ k \notin touched'
    BY <1>1, <1>3, <2>1, <2>3 DEF TailStep, Ingest, Complete, Notify, TailFails, TailLost,
       MoveTail, DropTail
  <2> QED
    BY <1>1, <2>1, <2>4 DEF HasTail
<1>4. ASSUME NEW w \in Workers, WorkerStep(w) \/ RefillFault(w) \/ HandlerFault(w)
      PROVE  Goal
  <2>1. status[k] = "none"
    <3>1. CASE Settle(w)
      BY <3>1 DEF Settle, SettleRow
    <3>2. CASE Start(w)
      BY <3>2 DEF Start
    <3>3. CASE CommitAssign(w) \/ CommitFailure(w)
      BY <3>3 DEF CommitAssign, CommitFailure, Update
    <3>4. CASE ~(Settle(w) \/ Start(w) \/ CommitAssign(w) \/ CommitFailure(w))
      BY <1>4, <3>4 DEF WorkerStep, LoopTop, BeginScan, Select, Reserve, Begin, Answer, Raise,
         CheckResult, Handoff, CheckFailure, SettleRelease, ReleaseSlot, Leave, RefillFault,
         HandlerFault
    <3> QED
      BY <3>1, <3>2, <3>3, <3>4
  <2>2. /\ k \notin touched /\ cancel[k] = "none" /\ ~HasTail(k)
        /\ \A v \in Workers : job[v] # k
    BY <1>1, <2>1
  <2>3. cancel'[k] = "none" /\ k \notin touched'
    BY <1>4, <2>2 DEF WorkerStep, LoopTop, BeginScan, Select, Reserve, CommitAssign, Begin,
       Start, Answer, Raise, CheckResult, Handoff, CheckFailure, CommitFailure, Settle,
       SettleRelease, ReleaseSlot, Leave, RefillFault, HandlerFault
  <2>4. \A v \in Workers : job'[v] # k
    <3>1. CASE Select(w)
      BY <2>1, <2>2, <3>1 DEF Select, Queued
    <3>2. CASE ~Select(w)
      <4>1. job' \in {job, [job EXCEPT ![w] = NoJob]}
        BY <1>4, <3>2 DEF WorkerStep, LoopTop, BeginScan, Reserve, CommitAssign, Begin, Start,
           Answer, Raise, CheckResult, Handoff, CheckFailure, CommitFailure, Settle,
           SettleRelease, ReleaseSlot, Leave, RefillFault, HandlerFault
      <4> QED
        BY <2>2, <4>1
    <3> QED
      BY <3>1, <3>2
  <2>5. tails'[k] = tails[k]
    <3>1. CASE Handoff(w)
      BY <2>2, <3>1 DEF Handoff
    <3>2. CASE ~Handoff(w)
      BY <1>4, <3>2 DEF WorkerStep, LoopTop, BeginScan, Select, Reserve, CommitAssign, Begin,
         Start, Answer, Raise, CheckResult, CheckFailure, CommitFailure, Settle, SettleRelease,
         ReleaseSlot, Leave, RefillFault, HandlerFault
    <3> QED
      BY <3>1, <3>2
  <2> QED
    BY <2>2, <2>3, <2>4, <2>5 DEF HasTail
<1>5. ASSUME NEW b \in Backends,
             RequestWork(b) \/ Disconnect(b) \/ SweepStep(b) \/ SweepFault(b) \/ Reconnect(b)
      PROVE  Goal
  <2>1. status[k] = "none" /\ UNCHANGED <<tails, job, cancel>>
    BY <1>5 DEF RequestWork, Disconnect, SweepStep, SweepRead, SweepVisit, SweepSettleRow,
       SweepSettled, SweepFault, Reconnect, SettleRow
  <2>2. k \notin touched'
    BY <1>1, <1>5, <2>1 DEF RequestWork, Disconnect, SweepStep, SweepRead, SweepVisit,
       SweepSettleRow, SweepSettled, SweepFault, Reconnect, Settleable, HeldOn
  <2> QED
    BY <1>1, <2>1, <2>2 DEF HasTail
<1>6. CASE Restart
  BY <1>1, <1>6 DEF Restart, Interrupted, HasTail
<1>7. CASE UNCHANGED vars
  BY <1>1, <1>7 DEF vars, HasTail
<1> QED
  BY <1>2, <1>3, <1>4, <1>5, <1>6, <1>7 DEF Next

\* Every step keeps every undisturbed job sound.
LEMMA SoundStep == SoundInv /\ [Next]_vars => SoundInv'
<1> SUFFICES ASSUME SoundInv, [Next]_vars PROVE SoundInv'
  OBVIOUS
<1>1. TypeOK /\ TypeOK'
  BY TypeStep DEF SoundInv
<1>2. ASSUME NEW k \in Job PROVE Fresh(k)'
  BY <1>1, FreshStep DEF SoundInv
<1>3. touched \subseteq touched'
  <2>1. ASSUME NEW w \in Workers, WorkerStep(w) \/ RefillFault(w) \/ HandlerFault(w)
        PROVE  touched \subseteq touched'
    BY <2>1 DEF WorkerStep, LoopTop, BeginScan, Select, Reserve, CommitAssign, Begin, Start,
       Answer, Raise, CheckResult, Handoff, CheckFailure, CommitFailure, Settle, SettleRelease,
       ReleaseSlot, Leave, RefillFault, HandlerFault
  <2>2. ASSUME NEW j \in Job,
               \/ Submit(j) \/ DeleteRead(j) \/ CancelRead(j) \/ ClientCancelRead(j)
               \/ RetryRead(j) \/ CancelStep(j) \/ TailStep(j) \/ TailFails(j) \/ TailLost(j)
        PROVE  touched \subseteq touched'
    BY <2>2 DEF Submit, DeleteRead, CancelRead, ClientCancelRead, RetryRead, CancelStep,
       CancelCommit, CancelRelease, ClientCancelCommit, DeleteCommit, RetryCommit, TailStep,
       Ingest, Complete, Notify, TailFails, TailLost
  <2>3. ASSUME NEW b \in Backends,
               RequestWork(b) \/ Disconnect(b) \/ SweepStep(b) \/ SweepFault(b) \/ Reconnect(b)
        PROVE  touched \subseteq touched'
    BY <2>3 DEF RequestWork, Disconnect, SweepStep, SweepRead, SweepVisit, SweepSettleRow,
       SweepSettled, SweepFault, Reconnect
  <2> QED
    BY <2>1, <2>2, <2>3 DEF Next, Restart, vars
<1>4. ASSUME NEW k \in Job \ touched' PROVE Sound(k)'
  <2>1. Sound(k) /\ Fresh(k) /\ k \notin touched'
    BY <1>3 DEF SoundInv
  <2>2. ASSUME NEW w \in Workers, WorkerStep(w) \/ RefillFault(w) \/ HandlerFault(w)
        PROVE  Sound(k)'
    BY <1>1, <2>1, <2>2, WorkerMovesSound, SelectSound, AssignSound, HandoffSound,
       WorkerLeavesSound DEF WorkerStep
  <2>3. ASSUME NEW j \in Job,
               \/ Submit(j) \/ DeleteRead(j) \/ CancelRead(j) \/ ClientCancelRead(j)
               \/ RetryRead(j) \/ CancelStep(j)
        PROVE  Sound(k)'
    BY <1>1, <2>1, <2>3, RequestsSound
  <2>4. ASSUME NEW j \in Job, TailStep(j) \/ TailFails(j) \/ TailLost(j)
        PROVE  Sound(k)'
    BY <1>1, <2>1, <2>4, TailsSound DEF TailStep
  <2>5. ASSUME NEW b \in Backends,
               RequestWork(b) \/ Disconnect(b) \/ SweepStep(b) \/ SweepFault(b) \/ Reconnect(b)
        PROVE  Sound(k)'
    BY <1>1, <2>1, <2>5, BackendsSound
  <2>6. CASE Restart
    BY <1>1, <2>6, RestartSound
  <2>7. CASE UNCHANGED vars
    <3>1. Kept(k)
      BY <2>7 DEF vars, Kept
    <3> QED
      BY <2>1, <3>1, KeptSound
  <2> QED
    BY <2>2, <2>3, <2>4, <2>5, <2>6, <2>7 DEF Next
<1> QED
  BY <1>1, <1>2, <1>4 DEF SoundInv

\* Nothing has happened to any job at the start.
LEMMA InitSound == Init => SoundInv
<1> SUFFICES ASSUME Init PROVE SoundInv
  OBVIOUS
<1>1. TypeOK
  BY InitType
<1>2. ASSUME NEW k \in Job PROVE Fresh(k) /\ Sound(k)
  <2>1. /\ status[k] = "none" /\ cancel[k] = "none" /\ touched = {}
        /\ \A s \in Stages : tails[k][s] = 0
        /\ \A w \in Workers : job[w] # k
    BY NoJobAssumption DEF Init
  <2> QED
    BY <2>1 DEF Fresh, Sound, OneWorker, OneTail, TailAlone, RowFits, RowIsCarried, HasTail,
       Settleable
<1> QED
  BY <1>1, <1>2 DEF SoundInv

\* The rows and the actors of an undisturbed job agree in every reachable state.
LEMMA SoundAlways == Spec => []SoundInv
  BY InitSound, SoundStep, PTL DEF Spec

\* An active row of an undisturbed job always has a worker or a tail that will
\* settle it; a queued row has neither, but for the worker about to take it.
THEOREM EveryRowHasActor == Spec => []RowHasActor
<1>1. SoundInv => RowHasActor
  <2> SUFFICES ASSUME SoundInv, NEW j \in Job \ touched
               PROVE  /\ Settleable(j) => HasTail(j) \/ \E w \in Workers : WorksOn(w, j)
                      /\ status[j] = "queued" =>
                            /\ ~HasTail(j)
                            /\ \A w \in Workers : job[w] = j => pc[w] \in InLock
    BY DEF RowHasActor
  <2>1. Sound(j)
    BY DEF SoundInv
  <2>2. Settleable(j) => HasTail(j) \/ \E w \in Workers : WorksOn(w, j)
    BY <2>1 DEF Sound, RowIsCarried, AtIt, AtStart, AtWork, WorksOn, Holding
  <2>3. status[j] = "queued" => ~HasTail(j)
    BY <2>1 DEF Sound, RowFits, HasTail, TailedWith
  <2> QED
    BY <2>1, <2>2, <2>3, SoundWorker
<1> QED
  BY <1>1, SoundAlways, PTL

\* Two workers never work on one undisturbed job.
THEOREM ExecutorIsSole == Spec => []SoleExecutor
<1>1. SoundInv => SoleExecutor
  BY DEF SoundInv, Sound, OneWorker, SoleExecutor, WorksOn
<1> QED
  BY <1>1, SoundAlways, PTL

-----------------------------------------------------------------------------
(* The refinement.                                                         *)

\* The phases of the statuses.
LEMMA Phases ==
    ASSUME NEW s \in Status
    PROVE  /\ PhaseOf(s) \in Promise!Phase
           /\ PhaseOf(s) = "none" <=> s = "none"
           /\ PhaseOf(s) = "waiting" <=> s = "queued"
           /\ PhaseOf(s) = "working" <=> s \in {"assigned", "processing"}
           /\ PhaseOf(s) = "done" <=> s = "completed"
           /\ PhaseOf(s) = "failed" <=> s = "failed"
           /\ PhaseOf(s) = "cancelled" <=> s = "cancelled"
           /\ PhaseOf(s) = "deleted" <=> s = "deleted"
  BY DEF PhaseOf, Status, ActiveStatus, TerminalStatus, Promise!Phase

\* What the abstract specification sees of a step that leaves the rows, the
\* hand-outs and the disturbances alone.
LEMMA Still ==
    ASSUME UNCHANGED <<status, granted, result, touched>>,
           spent'["userRetry"] = spent["userRetry"]
    PROVE  UNCHANGED Promise!promise
  BY DEF Promise!promise

\* The row of one job is written, and no other.
Writes(j) == \A i \in Job \ {j} : status'[i] = status[i] /\ result'[i] = result[i]

\* One row's write is one phase's move.
LEMMA WriteMoves ==
    ASSUME TypeOK, TypeOK', NEW j \in Job, Writes(j)
    PROVE  /\ [i \in Job |-> PhaseOf(status'[i])]
                = [[i \in Job |-> PhaseOf(status[i])] EXCEPT ![j] = PhaseOf(status'[j])]
           /\ result' = [result EXCEPT ![j] = result'[j]]
<1>1. [i \in Job |-> PhaseOf(status'[i])]
            = [[i \in Job |-> PhaseOf(status[i])] EXCEPT ![j] = PhaseOf(status'[j])]
  BY DEF Writes
<1>2. result \in [Job -> BOOLEAN] /\ result' \in [Job -> BOOLEAN]
  BY DEF TypeOK
<1>3. result' = [result EXCEPT ![j] = result'[j]]
  BY <1>2, Zenon DEF Writes
<1> QED
  BY <1>1, <1>3

\* A step that disturbs jobs, or that a disturbed job takes, is an interference.
LEMMA Interference ==
    ASSUME TypeOK, TypeOK', NEW S \in SUBSET Job, touched' = touched \cup S,
           spent'["userRetry"] \in {spent["userRetry"], spent["userRetry"] + 1},
           UNCHANGED granted, NEW j \in touched', Writes(j),
           status[j] # "none", status'[j] # "none",
           status[j] = "deleted" => status'[j] = "deleted",
           status'[j] = "completed" => result'[j]
    PROVE  Promise!Next
<1>1. j \in Job
  BY DEF TypeOK
<1>2. status[j] \in Status /\ status'[j] \in Status /\ result'[j] \in BOOLEAN
  BY <1>1 DEF TypeOK
<1> DEFINE p == PhaseOf(status'[j])
<1>3. p \in Promise!Phase \ {"none"} /\ PhaseOf(status[j]) # "none"
      /\ (PhaseOf(status[j]) = "deleted" => p = "deleted") /\ (p = "done" => result'[j])
  BY <1>2, Phases
<1>4. Promise!Move(j, p) /\ result' = [result EXCEPT ![j] = result'[j]]
  BY <1>1, WriteMoves DEF Promise!Move
<1>5. [i \in Job |-> PhaseOf(status[i])][j] = PhaseOf(status[j])
  BY <1>1
<1> HIDE DEF p
<1>6. Promise!Interfere(S)
  BY <1>2, <1>3, <1>4, <1>5 DEF Promise!Interfere
<1> QED
  BY <1>6 DEF Promise!Next

PromiseInv == SoundInv /\ OneInLock /\ AttemptsPaid /\ TailHasMedia /\ CompletedHasResult

\* What a step does to the abstract specification.
Kind == Promise!Next \/ UNCHANGED Promise!promise

\* A step that only marks existing jobs as disturbed.
LEMMA Marks ==
    ASSUME PromiseInv, TypeOK', NEW S \in SUBSET Job, touched' = touched \cup S,
           spent'["userRetry"] \in {spent["userRetry"], spent["userRetry"] + 1},
           spent'["userRetry"] # spent["userRetry"] => S # {},
           \A j \in S : status[j] # "none", UNCHANGED <<status, result, granted>>
    PROVE  Kind
<1>1. CASE S = {}
  BY <1>1, Still DEF Kind
<1>2. CASE S # {}
  <2>1. PICK j \in S : TRUE
    BY <1>2
  <2>2. Writes(j) /\ (status'[j] = "completed" => result'[j])
    BY DEF PromiseInv, CompletedHasResult, Writes
  <2> QED
    BY <2>1, <2>2, Interference DEF PromiseInv, SoundInv, Kind
<1> QED
  BY <1>1, <1>2

\* ... or one of them.
LEMMA MarksOne ==
    ASSUME PromiseInv, TypeOK', NEW j \in Job, touched' = touched \cup {j}, status[j] # "none",
           spent'["userRetry"] \in {spent["userRetry"], spent["userRetry"] + 1},
           UNCHANGED <<status, result, granted>>
    PROVE  Kind
<1> DEFINE S == {j}
<1>1. S \in SUBSET Job /\ touched' = touched \cup S /\ S # {} /\ \A i \in S : status[i] # "none"
  OBVIOUS
<1> HIDE DEF S
<1> QED
  BY <1>1, Marks

\* A failure of an undisturbed job is the promised one, that of a disturbed job
\* an interference.
LEMMA Failure ==
    ASSUME PromiseInv, TypeOK', NEW j \in Job, Update(j, "failed"),
           status[j] # "none", UNCHANGED <<result, granted, touched>>,
           spent'["userRetry"] = spent["userRetry"],
           j \notin touched => status[j] \in {"queued", "assigned", "processing", "completed"}
    PROVE  Kind
<1> USE DEF PromiseInv, SoundInv
<1>1. CASE status[j] = "deleted"
  BY <1>1, Still DEF Update, Kind
<1>2. CASE status[j] # "deleted"
  <2>1. status' = [status EXCEPT ![j] = "failed"] /\ Writes(j) /\ status'[j] = "failed"
    BY <1>2 DEF Update, Writes, TypeOK
  <2>2. CASE j \in touched
    <3>1. touched' = touched \cup {} /\ {} \in SUBSET Job
      OBVIOUS
    <3> QED
      BY <1>2, <2>1, <2>2, <3>1, Interference DEF Kind
  <2>3. CASE j \notin touched
    <3>1. PhaseOf(status[j]) \in {"waiting", "working", "done"} /\ PhaseOf("failed") = "failed"
      BY <2>3 DEF PhaseOf
    <3>2. [i \in Job |-> PhaseOf(status'[i])]
            = [i \in Job |-> IF i \in {j} THEN "failed" ELSE PhaseOf(status[i])]
      BY <2>1, <3>1 DEF Writes
    <3>3. Promise!Fail({j})
      BY <3>1, <3>2 DEF Promise!Fail
    <3> QED
      BY <3>3 DEF Promise!Next, Kind
  <2> QED
    BY <2>2, <2>3
<1> QED
  BY <1>1, <1>2

\* The commit of an assignment is the hand-out, within the attempts allowed.
LEMMA AssignKind ==
    ASSUME PromiseInv, TypeOK', NEW w \in Workers, CommitAssign(w)
    PROVE  Kind
<1> USE DEF PromiseInv, SoundInv
<1> DEFINE j == job[w]
<1>1. /\ j \in Job /\ pc[w] \in InLock /\ Update(j, "assigned")
      /\ UNCHANGED <<result, touched, spent>>
  BY DEF CommitAssign, TypeOK, AtLoop, InLock
<1>2. status[j] # "none"
  BY <1>1 DEF Fresh
<1>3. CASE status[j] = "deleted"
  BY <1>1, <1>3, Still DEF CommitAssign, Update, Kind
<1>4. CASE status[j] # "deleted"
  <2>1. status' = [status EXCEPT ![j] = "assigned"] /\ granted' = [granted EXCEPT ![j] = @ + 1]
    BY <1>1, <1>4 DEF CommitAssign, Update
  <2>2. PhaseOf(status[j]) \notin {"none", "deleted"} /\ PhaseOf("assigned") = "working"
    <3>1. status[j] \in Status
      BY <1>1 DEF TypeOK
    <3> QED
      BY <1>2, <1>4, <3>1, Phases DEF PhaseOf
  <2>3. PhaseOf(status[j]) = "waiting" \/ j \in touched
    BY <1>1, SoundWorker DEF PhaseOf
  <2>4. [i \in Job |-> PhaseOf(status'[i])]
            = [[i \in Job |-> PhaseOf(status[i])] EXCEPT ![j] = "working"]
    BY <1>1, <2>1, <2>2 DEF TypeOK
  <2>5. granted[j] < (MaxDisconnectRetries + 1) * (spent["userRetry"] + 1)
    <3>1. /\ retries[j] \in 0..MaxDisconnectRetries /\ granted[j] \in Nat
          /\ spent["userRetry"] \in Nat /\ MaxDisconnectRetries \in Nat /\ Budget \in Nat
      BY <1>1, BoundsAssumption DEF TypeOK, Budget
    <3>2. Waiting(j)
      BY <1>1 DEF Waiting
    <3>3. granted[j] + 1 <= retries[j] + 1 + Budget
      BY <1>1, <3>1, <3>2 DEF AttemptsPaid
    <3>4. (MaxDisconnectRetries + 1) * (spent["userRetry"] + 1) = Budget + MaxDisconnectRetries + 1
      BY <3>1, BudgetGrows DEF Budget
    <3> QED
      BY <3>1, <3>3, <3>4
  <2>6. Promise!HandOut(j)
    BY <1>1, <2>1, <2>2, <2>3, <2>4, <2>5 DEF Promise!HandOut, Promise!Move
  <2> QED
    BY <1>1, <2>6 DEF Promise!Next, Kind
<1> QED
  BY <1>3, <1>4

\* A job some worker has exists.
LEMMA HeldExists ==
    ASSUME PromiseInv, NEW w \in Workers, pc[w] \notin AtLoop
    PROVE  job[w] \in Job /\ status[job[w]] # "none"
  BY DEF PromiseInv, SoundInv, TypeOK, Fresh

\* The steps of workers keep the promise.
LEMMA WorkersKeep ==
    ASSUME PromiseInv, TypeOK', NEW w \in Workers,
           WorkerStep(w) \/ RefillFault(w) \/ HandlerFault(w)
    PROVE  Kind
<1> USE DEF PromiseInv, SoundInv
<1>1. CASE \/ LoopTop(w) \/ BeginScan(w) \/ Select(w) \/ Reserve(w) \/ Begin(w) \/ Answer(w)
           \/ Raise(w) \/ CheckResult(w) \/ Handoff(w) \/ CheckFailure(w) \/ SettleRelease(w)
           \/ ReleaseSlot(w) \/ Leave(w)
  <2>1. UNCHANGED <<status, granted, result, touched, spent>>
    BY <1>1 DEF LoopTop, BeginScan, Select, Reserve, Begin, Answer, Raise, CheckResult, Handoff,
       CheckFailure, SettleRelease, ReleaseSlot, Leave
  <2> QED
    BY <2>1, Still DEF Kind
<1>2. CASE CommitAssign(w)
  BY <1>2, AssignKind
<1>3. CASE CommitFailure(w)
  <2>1. /\ pc[w] = "fail" /\ Update(job[w], "failed")
        /\ UNCHANGED <<result, granted, touched, spent>>
    BY <1>3 DEF CommitFailure
  <2>2. job[w] \in Job /\ status[job[w]] # "none"
    BY <2>1, HeldExists DEF AtLoop
  <2>3. job[w] \notin touched => status[job[w]] \in {"assigned", "processing"}
    BY <2>1, <2>2, SoundWorker
  <2> QED
    BY <2>1, <2>2, <2>3, Failure
<1>4. CASE Start(w)
  <2>1. pc[w] = "begin" /\ UNCHANGED <<result, granted, touched, spent>>
    BY <1>4 DEF Start
  <2>2. job[w] \in Job /\ status[job[w]] # "none"
    BY <2>1, HeldExists DEF AtLoop
  <2>3. CASE status[job[w]] \notin ActiveStatus
    BY <1>4, <2>1, <2>3, Still DEF Start, Kind
  <2>4. CASE status[job[w]] \in ActiveStatus
    <3>1. status' = [status EXCEPT ![job[w]] = "processing"]
      BY <1>4, <2>4 DEF Start
    <3>2. Writes(job[w]) /\ status'[job[w]] = "processing" /\ status[job[w]] # "deleted"
      BY <2>1, <2>2, <2>4, <3>1 DEF Writes, TypeOK, ActiveStatus
    <3>3. CASE job[w] \in touched
      <4>1. touched' = touched \cup {} /\ {} \in SUBSET Job
        BY <2>1
      <4> QED
        BY <2>1, <2>2, <3>2, <3>3, <4>1, Interference DEF Kind
    <3>4. CASE job[w] \notin touched
      <4>1. status[job[w]] = "assigned"
        BY <2>1, <2>2, <3>4, SoundWorker DEF AtStart
      <4>2. PhaseOf("assigned") = "working" /\ PhaseOf("processing") = "working"
        BY DEF PhaseOf
      <4>3. [i \in Job |-> PhaseOf(status'[i])] = [i \in Job |-> PhaseOf(status[i])]
        BY <3>2, <4>1, <4>2 DEF Writes
      <4> QED
        BY <2>1, <4>3 DEF Kind, Promise!promise
    <3> QED
      BY <3>3, <3>4
  <2> QED
    BY <2>3, <2>4
<1>5. CASE Settle(w)
  <2>1. /\ pc[w] = "lost" /\ touched' = touched \cup {job[w]}
        /\ UNCHANGED <<result, granted, spent>>
    BY <1>5 DEF Settle
  <2>2. job[w] \in Job /\ status[job[w]] # "none"
    BY <2>1, HeldExists DEF AtLoop
  <2>3. CASE Settleable(job[w])
    <3>1. Writes(job[w]) /\ status'[job[w]] \in {"queued", "failed"}
      BY <1>5, <2>1, <2>2, <2>3 DEF Settle, SettleRow, Writes, TypeOK
    <3>2. /\ status[job[w]] # "deleted" /\ job[w] \in touched' /\ {job[w]} \in SUBSET Job
          /\ status'[job[w]] # "none" /\ status'[job[w]] # "completed"
      BY <2>1, <2>2, <2>3, <3>1 DEF Settleable
    <3> QED
      BY <2>1, <2>2, <3>1, <3>2, Interference DEF Kind
  <2>4. CASE ~Settleable(job[w])
    <3>1. UNCHANGED status
      BY <1>5, <2>4 DEF Settle
    <3> QED
      BY <2>1, <2>2, <3>1, MarksOne
  <2> QED
    BY <2>3, <2>4
<1>6. CASE RefillFault(w) \/ HandlerFault(w)
  <2>1. /\ pc[w] \notin AtLoop /\ touched' = touched \cup {job[w]}
        /\ UNCHANGED <<status, result, granted>> /\ spent'["userRetry"] = spent["userRetry"]
    BY <1>6 DEF RefillFault, HandlerFault, AtLoop, Spend, TypeOK
  <2>2. job[w] \in Job /\ status[job[w]] # "none"
    BY <2>1, HeldExists
  <2> QED
    BY <2>1, <2>2, MarksOne
<1> QED
  BY <1>1, <1>2, <1>3, <1>4, <1>5, <1>6 DEF WorkerStep

\* The steps of a tail produce, finish or fail.
LEMMA TailsKeep ==
    ASSUME PromiseInv, TypeOK', NEW j \in Job, TailStep(j) \/ TailFails(j) \/ TailLost(j)
    PROVE  Kind
<1> USE DEF PromiseInv, SoundInv
<1>1. HasTail(j) /\ status[j] # "none" /\ status[j] \in Status
  BY DEF TailStep, Ingest, Complete, Notify, TailFails, TailLost, HasTail, Fresh, TypeOK
<1>2. CASE Ingest(j)
  <2>1. tails[j]["ingest"] > 0 /\ UNCHANGED <<status, granted, touched, spent>>
    BY <1>2 DEF Ingest
  <2>2. CASE status[j] = "deleted"
    BY <1>2, <2>1, <2>2, Still DEF Ingest, Kind
  <2>3. CASE status[j] # "deleted"
    <3>1. result' = [result EXCEPT ![j] = TRUE]
      BY <1>2, <2>3 DEF Ingest
    <3>2. PhaseOf(status[j]) = "working" \/ j \in touched
      BY <2>1, SoundTail DEF TailedWith, PhaseOf
    <3>3. Promise!Produce(j)
      BY <2>1, <3>1, <3>2 DEF Promise!Produce
    <3> QED
      BY <3>3 DEF Promise!Next, Kind
  <2> QED
    BY <2>2, <2>3
<1>3. CASE Complete(j)
  <2>1. /\ tails[j]["settle"] > 0 /\ Update(j, "completed")
        /\ UNCHANGED <<media, granted, touched, spent>> /\ media[j]
    BY <1>3 DEF Complete, TailHasMedia
  <2>2. CASE status[j] = "deleted"
    BY <1>3, <2>1, <2>2, Still DEF Complete, Update, Kind
  <2>3. CASE status[j] # "deleted"
    <3>1. status' = [status EXCEPT ![j] = "completed"]
      BY <2>1, <2>3 DEF Update
    <3>2. result' = [result EXCEPT ![j] = media[j]]
      BY <1>3, <2>3 DEF Complete
    <3>3. result'[j] = TRUE /\ \A i \in Job \ {j} : result'[i] = result[i]
      BY <2>1, <3>2, Zenon DEF TypeOK
    <3>4. Writes(j) /\ status'[j] = "completed"
      BY <3>1, <3>3 DEF Writes, TypeOK
    <3>5. CASE j \in touched
      <4>1. touched' = touched \cup {} /\ {} \in SUBSET Job /\ j \in touched'
        BY <2>1, <3>5
      <4> QED
        BY <1>1, <2>1, <2>3, <3>3, <3>4, <4>1, Interference DEF Kind
    <3>6. CASE j \notin touched
      <4>1. status[j] = "processing" /\ result[j]
        BY <2>1, <3>6, SoundTail DEF TailedWith
      <4>2. result' = result
        <5>1. result \in [Job -> BOOLEAN] /\ result' \in [Job -> BOOLEAN]
          BY DEF TypeOK
        <5>2. result[j] = TRUE
          <6>1. result[j] \in BOOLEAN
            BY <5>1, Zenon
          <6> QED
            BY <4>1, <6>1, Zenon
        <5>3. ASSUME NEW i \in Job PROVE result'[i] = result[i]
          <6>1. CASE i = j
            BY <3>3, <5>2, <6>1, Zenon
          <6>2. CASE i # j
            BY <3>3, <6>2, Zenon
          <6> QED
            BY <6>1, <6>2
        <5>4. result = [i \in Job |-> result[i]] /\ result' = [i \in Job |-> result'[i]]
          BY <5>1, Zenon
        <5>5. [i \in Job |-> result'[i]] = [i \in Job |-> result[i]]
          BY <5>3, Zenon
        <5> QED
          BY <5>4, <5>5, Zenon
      <4>3. PhaseOf("processing") = "working" /\ PhaseOf("completed") = "done"
        BY DEF PhaseOf
      <4>4. [i \in Job |-> PhaseOf(status'[i])]
              = [[i \in Job |-> PhaseOf(status[i])] EXCEPT ![j] = "done"]
        BY <3>4, <4>3 DEF Writes
      <4>5. Promise!Finish(j)
        BY <2>1, <4>1, <4>2, <4>3, <4>4 DEF Promise!Finish, Promise!Move
      <4> QED
        BY <4>5 DEF Promise!Next, Kind
    <3> QED
      BY <3>5, <3>6
  <2> QED
    BY <2>2, <2>3
<1>4. CASE Notify(j)
  BY <1>4, Still DEF Notify, Kind
<1>5. CASE TailFails(j)
  <2>1. /\ Update(j, "failed") /\ UNCHANGED <<result, granted, touched, spent>>
        /\ \E s \in Stages : tails[j][s] > 0
    BY <1>5 DEF TailFails
  <2>2. j \notin touched => status[j] \in {"processing", "completed"}
    BY <2>1, SoundTail DEF TailedWith
  <2> QED
    BY <1>1, <2>1, <2>2, Failure
<1>6. CASE TailLost(j)
  <2>1. /\ touched' = touched \cup {j} /\ UNCHANGED <<status, result, granted>>
        /\ spent'["userRetry"] = spent["userRetry"]
    BY <1>6 DEF TailLost, Spend, TypeOK
  <2> QED
    BY <1>1, <2>1, MarksOne
<1> QED
  BY <1>2, <1>3, <1>4, <1>5, <1>6 DEF TailStep

\* Requests submit a job, delete it or interfere with it.
LEMMA RequestsKeep ==
    ASSUME PromiseInv, TypeOK', NEW j \in Job,
           \/ Submit(j) \/ DeleteRead(j) \/ CancelRead(j) \/ ClientCancelRead(j)
           \/ RetryRead(j) \/ CancelStep(j)
    PROVE  Kind
<1> USE DEF PromiseInv, SoundInv
<1>0. {} \in SUBSET Job /\ touched \cup {} = touched
  OBVIOUS
<1>1. CASE Submit(j)
  <2>1. status[j] = "none" /\ status' = [status EXCEPT ![j] = "queued"]
        /\ UNCHANGED <<result, granted, touched, spent>>
    BY <1>1 DEF Submit
  <2>2. PhaseOf("none") = "none" /\ PhaseOf("queued") = "waiting"
    BY DEF PhaseOf
  <2>3. [i \in Job |-> PhaseOf(status'[i])]
          = [[i \in Job |-> PhaseOf(status[i])] EXCEPT ![j] = "waiting"]
    BY <2>1, <2>2 DEF TypeOK
  <2>4. Promise!Submit(j)
    BY <2>1, <2>2, <2>3 DEF Promise!Submit, Promise!Move
  <2> QED
    BY <2>4 DEF Promise!Next, Kind
<1>2. CASE DeleteRead(j) \/ CancelRelease(j)
  BY <1>2, Still DEF DeleteRead, CancelRelease, Kind
<1>3. CASE CancelRead(j) \/ ClientCancelRead(j) \/ RetryRead(j)
  <2>1. /\ touched' = touched \cup {j} /\ status[j] # "none"
        /\ spent'["userRetry"] \in {spent["userRetry"], spent["userRetry"] + 1}
        /\ UNCHANGED <<status, result, granted>>
    BY <1>3 DEF CancelRead, ClientCancelRead, RetryRead, Spend, TypeOK, ActiveStatus
  <2> QED
    BY <2>1, MarksOne
<1>4. CASE CancelCommit(j) \/ ClientCancelCommit(j) \/ RetryCommit(j)
  <2>1. /\ cancel[j] \notin {"none", "deleteRead"}
        /\ UNCHANGED <<granted, touched, spent>>
    BY <1>4 DEF CancelCommit, ClientCancelCommit, RetryCommit
  <2>2. status[j] # "none" /\ j \in touched
    BY <2>1 DEF Fresh, Sound, RowFits
  <2>3. CASE status[j] = "deleted"
    BY <1>4, <2>1, <2>3, Still DEF CancelCommit, ClientCancelCommit, RetryCommit, Update, Kind
  <2>4. CASE status[j] # "deleted"
    <3>1. \E s \in {"cancelled", "queued"} : status' = [status EXCEPT ![j] = s]
      BY <1>4, <2>4 DEF CancelCommit, ClientCancelCommit, RetryCommit, Update
    <3>2. result' = result \/ \E made \in BOOLEAN : result' = [result EXCEPT ![j] = made]
      <4>1. (result[j] /\ ~readResult[j]) \in BOOLEAN
        OBVIOUS
      <4>2. result' = result \/ result' = [result EXCEPT ![j] = @ /\ ~readResult[j]]
        BY <1>4, <2>4 DEF CancelCommit, ClientCancelCommit, RetryCommit
      <4> QED
        BY <4>1, <4>2, Zenon
    <3>3. Writes(j) /\ status'[j] \in {"cancelled", "queued"}
      <4>1. \A i \in Job \ {j} : result'[i] = result[i]
        BY <3>2, Zenon DEF TypeOK
      <4>2. \A i \in Job \ {j} : status'[i] = status[i]
        BY <3>1 DEF TypeOK
      <4>3. status'[j] \in {"cancelled", "queued"}
        BY <3>1 DEF TypeOK
      <4> QED
        BY <4>1, <4>2, <4>3 DEF Writes
    <3> QED
      BY <1>0, <2>1, <2>2, <2>4, <3>3, Interference DEF Kind
  <2> QED
    BY <2>3, <2>4
<1>5. CASE DeleteCommit(j)
  <2>1. /\ cancel[j] = "deleteRead" /\ status' = [status EXCEPT ![j] = "deleted"]
        /\ UNCHANGED <<result, granted, touched, spent>>
    BY <1>5 DEF DeleteCommit
  <2>2. status[j] # "none"
    BY <2>1 DEF Fresh
  <2>3. Writes(j) /\ status'[j] = "deleted"
    BY <2>1 DEF Writes, TypeOK
  <2>4. CASE j \in touched
    BY <1>0, <2>1, <2>2, <2>3, <2>4, Interference DEF Kind
  <2>5. CASE j \notin touched
    <3>1. status[j] \in {"failed", "cancelled"}
      BY <2>1, <2>5 DEF Sound, RowFits
    <3>2. PhaseOf(status[j]) \in {"failed", "cancelled"} /\ PhaseOf("deleted") = "deleted"
      BY <3>1 DEF PhaseOf
    <3>3. [i \in Job |-> PhaseOf(status'[i])]
            = [[i \in Job |-> PhaseOf(status[i])] EXCEPT ![j] = "deleted"]
      BY <2>3, <3>2 DEF Writes
    <3>4. Promise!Delete(j)
      BY <2>1, <3>2, <3>3 DEF Promise!Delete, Promise!Move
    <3> QED
      BY <3>4 DEF Promise!Next, Kind
  <2> QED
    BY <2>4, <2>5
<1> QED
  BY <1>1, <1>2, <1>3, <1>4, <1>5 DEF CancelStep

\* A disconnect and its sweep interfere with the jobs they concern.
LEMMA BackendsKeep ==
    ASSUME PromiseInv, TypeOK', NEW b \in Backends,
           RequestWork(b) \/ Disconnect(b) \/ SweepStep(b) \/ SweepFault(b) \/ Reconnect(b)
    PROVE  Kind
<1> USE DEF PromiseInv, SoundInv
<1>1. CASE /\ ~Disconnect(b) /\ ~SweepSettleRow(b)
  <2>1. UNCHANGED <<status, granted, result, touched>> /\ spent'["userRetry"] = spent["userRetry"]
    BY <1>1 DEF RequestWork, SweepStep, SweepRead, SweepVisit, SweepSettled, SweepFault,
       Reconnect, Spend, TypeOK
  <2> QED
    BY <2>1, Still DEF Kind
<1>2. CASE Disconnect(b)
  <2>1. /\ touched' = touched \cup HeldOn(b) /\ UNCHANGED <<status, result, granted>>
        /\ spent'["userRetry"] = spent["userRetry"]
    BY <1>2 DEF Disconnect, Spend, TypeOK
  <2>2. HeldOn(b) \in SUBSET Job /\ \A j \in HeldOn(b) : status[j] # "none"
    BY DEF HeldOn, Fresh
  <2> QED
    BY <2>1, <2>2, Marks
<1>3. CASE SweepSettleRow(b)
  <2> DEFINE j == sweepSettle[b]
  <2>1. j \in Job /\ UNCHANGED <<result, granted, spent>>
    BY <1>3 DEF SweepSettleRow, TypeOK
  <2>2. CASE Settleable(j)
    <3>1. SettleRow(j) /\ touched' = touched \cup {j}
      BY <1>3, <2>2 DEF SweepSettleRow
    <3>2. Writes(j) /\ status'[j] \in {"queued", "failed"}
      BY <2>1, <3>1 DEF SettleRow, Writes, TypeOK
    <3>3. /\ status[j] \notin {"none", "deleted"} /\ j \in touched' /\ {j} \in SUBSET Job
          /\ status'[j] # "none" /\ status'[j] # "completed"
      BY <2>1, <2>2, <3>1, <3>2 DEF Settleable
    <3> QED
      BY <2>1, <3>1, <3>2, <3>3, Interference DEF Kind
  <2>3. CASE ~Settleable(j)
    BY <1>3, <2>1, <2>3, Still DEF SweepSettleRow, Kind
  <2> QED
    BY <2>2, <2>3
<1> QED
  BY <1>1, <1>2, <1>3

\* A restart fails the jobs it interrupts.
LEMMA RestartKeeps ==
    ASSUME PromiseInv, TypeOK', Restart
    PROVE  Kind
<1> DEFINE S == {j \in Job : Interrupted(j)}
<1>1. /\ UNCHANGED <<granted, result, touched>> /\ spent'["userRetry"] = spent["userRetry"]
      /\ \A j \in Job : status'[j] = IF j \in S THEN "failed" ELSE status[j]
  BY DEF Restart, Spend, PromiseInv, SoundInv, TypeOK
<1>2. \A j \in S : PhaseOf(status[j]) \in {"waiting", "working", "done"}
  BY DEF Interrupted, PhaseOf
<1>3. PhaseOf("failed") = "failed"
  BY DEF PhaseOf
<1>4. [j \in Job |-> PhaseOf(status'[j])]
        = [j \in Job |-> IF j \in S THEN "failed" ELSE PhaseOf(status[j])]
  BY <1>1, <1>3
<1>5. S \in SUBSET Job /\ \A j \in S : j \in Job
  OBVIOUS
<1> HIDE DEF S
<1>6. Promise!Fail(S)
  BY <1>1, <1>2, <1>4, <1>5 DEF Promise!Fail
<1> QED
  BY <1>5, <1>6 DEF Promise!Next, Kind

\* The queue implements JobQueue: the initial state maps to its initial state,
\* and every step to a step of it or to none.
THEOREM QueueKeepsPromise == Spec => KeepsPromise
<1>1. Init => PromiseInv /\ Promise!Init
  <2> SUFFICES ASSUME Init PROVE PromiseInv /\ Promise!Init
    OBVIOUS
  <2>1. OneInLock
    BY DEF Init, OneInLock, InLock
  <2>2. AttemptsPaid
    BY BoundsAssumption DEF Init, AttemptsPaid, Budget
  <2>3. TailHasMedia /\ CompletedHasResult
    BY DEF Init, TailHasMedia, CompletedHasResult
  <2>4. PhaseOf("none") = "none"
    BY DEF PhaseOf
  <2>5. Promise!Init
    BY <2>4 DEF Init, Promise!Init
  <2> QED
    BY <2>1, <2>2, <2>3, <2>5, InitSound DEF PromiseInv
<1>2. PromiseInv /\ [Next]_vars => PromiseInv'
  BY SoundStep, LockStep, AttemptsStep, ResultStep DEF PromiseInv, SoundInv, ResultInv
<1>3. PromiseInv /\ [Next]_vars => [Promise!Next]_(Promise!promise)
  <2> SUFFICES ASSUME PromiseInv, [Next]_vars PROVE Kind
    BY DEF Kind
  <2>1. TypeOK'
    BY TypeStep DEF PromiseInv, SoundInv
  <2>2. ASSUME NEW w \in Workers, WorkerStep(w) \/ RefillFault(w) \/ HandlerFault(w) PROVE Kind
    BY <2>1, <2>2, WorkersKeep
  <2>3. ASSUME NEW j \in Job, TailStep(j) \/ TailFails(j) \/ TailLost(j) PROVE Kind
    BY <2>1, <2>3, TailsKeep
  <2>4. ASSUME NEW j \in Job,
               \/ Submit(j) \/ DeleteRead(j) \/ CancelRead(j) \/ ClientCancelRead(j)
               \/ RetryRead(j) \/ CancelStep(j)
        PROVE  Kind
    BY <2>1, <2>4, RequestsKeep
  <2>5. ASSUME NEW b \in Backends,
               RequestWork(b) \/ Disconnect(b) \/ SweepStep(b) \/ SweepFault(b) \/ Reconnect(b)
        PROVE  Kind
    BY <2>1, <2>5, BackendsKeep
  <2>6. CASE Restart
    BY <2>1, <2>6, RestartKeeps
  <2>7. CASE UNCHANGED vars
    BY <2>7, Still DEF vars, Kind
  <2> QED
    BY <2>2, <2>3, <2>4, <2>5, <2>6, <2>7 DEF Next
<1> QED
  BY <1>1, <1>2, <1>3, PTL DEF Spec, KeepsPromise, Promise!Spec

=============================================================================
