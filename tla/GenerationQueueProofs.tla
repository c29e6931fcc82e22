----------------------- MODULE GenerationQueueProofs -----------------------
(***************************************************************************)
(* Theorems about GenerationQueue, for every set of profiles, jobs,        *)
(* backends and workers and every value of the bounds.                     *)
(***************************************************************************)
EXTENDS GenerationQueue, TLAPS

USE DEF Spending, Stages, CancelStage, durable, worker, reread, sweep, history

-----------------------------------------------------------------------------
(* Facts about the helpers.                                                *)

\* A job's parts are a profile and a row id.
LEMMA JobParts ==
    \A j \in Job : ProfileOf(j) \in Profiles /\ IdOf(j) \in JobIds
  BY DEF Job, ProfileOf, IdOf

\* Every update of a status column keeps the column's type.
LEMMA UpdateType ==
    ASSUME status \in [Job -> Status], NEW j \in Job, NEW s \in Status,
           Update(j, s)
    PROVE  status' \in [Job -> Status]
  BY DEF Update

\* Releasing a slot keeps the capacity table's type.
LEMMA ReleaseType ==
    ASSUME current \in [Backends -> SUBSET JobIds], NEW j \in Job
    PROVE  Release(j) \in [Backends -> SUBSET JobIds]
  BY BackendOfAssumption DEF Release

\* Setting the event moves workers between loop points only.
LEMMA WokenType ==
    ASSUME NEW f \in [Workers -> PC]
    PROVE  /\ Woken(f) \in [Workers -> PC]
           /\ \A w \in Workers : Woken(f)[w] \in AtLoop <=> f[w] \in AtLoop
           /\ \A w \in Workers : f[w] \notin AtLoop => Woken(f)[w] = f[w]
           /\ \A w \in Workers : Woken(f)[w] \notin AtLoop => Woken(f)[w] = f[w]
  BY DEF Woken, PC, AtLoop, InLock, AtStart, AtWork, AtFinish

\* Settling a disconnected row keeps the types and the retry limit.
LEMMA SettleRowType ==
    ASSUME status \in [Job -> Status],
           retries \in [Job -> 0..MaxDisconnectRetries],
           NEW j \in Job, SettleRow(j)
    PROVE  /\ status' \in [Job -> Status]
           /\ retries' \in [Job -> 0..MaxDisconnectRetries]
  BY BoundsAssumption DEF SettleRow, Status, ActiveStatus, TerminalStatus

\* Moving or dropping a tail that is there keeps every count a natural number.
LEMMA TailType ==
    ASSUME tails \in [Job -> [Stages -> Nat]],
           NEW j \in Job, NEW from \in Stages, NEW to \in Stages,
           tails[j][from] > 0, MoveTail(j, from, to) \/ DropTail(j, from)
    PROVE  tails' \in [Job -> [Stages -> Nat]]
<1>1. CASE MoveTail(j, from, to)
  BY <1>1 DEF MoveTail
<1>2. CASE DropTail(j, from)
  BY <1>2 DEF DropTail
<1> QED
  BY <1>1, <1>2

-----------------------------------------------------------------------------
(* Type correctness.                                                       *)

\* Every step keeps every variable in its type.
LEMMA TypeStep == TypeOK /\ [Next]_vars => TypeOK'
<1> SUFFICES ASSUME TypeOK, [Next]_vars PROVE TypeOK'
  OBVIOUS
<1> USE BackendOfAssumption, BoundsAssumption, NoJobAssumption DEF TypeOK
<1>1. ASSUME NEW j \in Job, Submit(j) PROVE TypeOK'
  BY <1>1, JobParts DEF Submit, Woken, Status, ActiveStatus, TerminalStatus, PC, AtLoop,
      InLock, AtStart, AtWork, AtFinish
<1>2. ASSUME NEW j \in Job, DeleteRead(j) PROVE TypeOK'
  BY <1>2, JobParts DEF DeleteRead
<1>3. ASSUME NEW j \in Job, CancelRead(j) PROVE TypeOK'
  BY <1>3, JobParts DEF CancelRead, Spend, Status, ActiveStatus, TerminalStatus
<1>4. ASSUME NEW j \in Job, ClientCancelRead(j) PROVE TypeOK'
  BY <1>4, JobParts DEF ClientCancelRead, Spend
<1>5. ASSUME NEW j \in Job, CancelCommit(j) PROVE TypeOK'
  BY <1>5, JobParts DEF CancelCommit, Update, Status, ActiveStatus, TerminalStatus
<1>6. ASSUME NEW j \in Job, CancelRelease(j) PROVE TypeOK'
  BY <1>6, JobParts DEF CancelRelease, Release
<1>7. ASSUME NEW j \in Job, ClientCancelCommit(j) PROVE TypeOK'
  BY <1>7, JobParts DEF ClientCancelCommit, Update, Status, ActiveStatus, TerminalStatus
<1>8. ASSUME NEW j \in Job, DeleteCommit(j) PROVE TypeOK'
  BY <1>8, JobParts DEF DeleteCommit, Status, ActiveStatus, TerminalStatus
<1>9. ASSUME NEW j \in Job, Ingest(j) PROVE TypeOK'
  <2>1. /\ tails[j]["ingest"] > 0
        /\ UNCHANGED <<status, retries, registered, current, worker, cancel,
                       reread, pendingKey, sweep, history>>
    BY <1>9 DEF Ingest
  <2>2. \/ DropTail(j, "ingest") /\ UNCHANGED <<result, media>>
        \/ /\ MoveTail(j, "ingest", "settle")
           /\ result' = [result EXCEPT ![j] = TRUE]
           /\ media' = [media EXCEPT ![j] = TRUE]
    BY <1>9 DEF Ingest
  <2>3. tails' \in [Job -> [Stages -> Nat]]
    BY <2>1, <2>2, TailType
  <2>4. result' \in [Job -> BOOLEAN] /\ media' \in [Job -> BOOLEAN]
    BY <2>2
  <2> QED
    BY <2>1, <2>3, <2>4
<1>10. ASSUME NEW j \in Job, Complete(j) PROVE TypeOK'
  <2>1. /\ tails[j]["settle"] > 0
        /\ Update(j, "completed")
        /\ MoveTail(j, "settle", "notify")
        /\ UNCHANGED <<retries, media, registered, current, worker, cancel, reread,
                       pendingKey, sweep, history>>
    BY <1>10 DEF Complete
  <2>2. status' \in [Job -> Status]
    BY <2>1, UpdateType DEF Status, TerminalStatus
  <2>3. tails' \in [Job -> [Stages -> Nat]]
    BY <2>1, TailType
  <2>4. result' \in [Job -> BOOLEAN]
    <3>1. result' = result \/ result' = [result EXCEPT ![j] = media[j]]
      BY <1>10 DEF Complete
    <3> QED
      BY <3>1
  <2> QED
    BY <2>1, <2>2, <2>3, <2>4
<1>11. ASSUME NEW j \in Job, Notify(j) PROVE TypeOK'
  BY <1>11, JobParts DEF Notify, DropTail
<1>12. ASSUME NEW j \in Job, TailFails(j) PROVE TypeOK'
  BY <1>12, JobParts DEF TailFails, Update, DropTail, Status, ActiveStatus, TerminalStatus
<1>13. ASSUME NEW j \in Job, TailLost(j) PROVE TypeOK'
  BY <1>13, JobParts DEF TailLost, Spend, DropTail
<1>14. ASSUME NEW w \in Workers, LoopTop(w) PROVE TypeOK'
  BY <1>14, JobParts DEF LoopTop, Goto, PC, AtLoop, InLock, AtStart, AtWork, AtFinish
<1>15. ASSUME NEW w \in Workers, BeginScan(w) PROVE TypeOK'
  <2>1. /\ pc[w] \in AtLoop
        /\ UNCHANGED <<durable, registered, current, job, executing, tails,
                       cancel, reread, pendingKey, sweep, history>>
    BY <1>15 DEF BeginScan, AtLoop
  <2>2. CASE registered = {}
    <3>1. /\ pc' = Woken([pc EXCEPT ![w] = "loop"])
          /\ event' = TRUE
          /\ UNCHANGED scanLeft
      BY <1>15, <2>2 DEF BeginScan
    <3> QED
      BY <2>1, <2>2, <3>1, JobParts DEF Goto, Woken, PC, AtLoop, InLock, AtStart, AtWork, AtFinish
  <2>3. CASE ~(registered = {})
    <3>1. /\ Goto(w, "scan")
          /\ event' = FALSE
          /\ scanLeft' = [scanLeft EXCEPT ![w] = Profiles \X registered]
      BY <1>15, <2>3 DEF BeginScan
    <3> QED
      BY <2>1, <2>3, <3>1, JobParts DEF Goto, Woken, PC, AtLoop, InLock, AtStart, AtWork, AtFinish
  <2> QED
    BY <2>2, <2>3
<1>16. ASSUME NEW w \in Workers, Select(w) PROVE TypeOK'
  <2>1. /\ pc[w] = "scan"
        /\ UNCHANGED <<durable, registered, current, executing, event, tails,
                       cancel, reread, pendingKey, sweep, history>>
    BY <1>16 DEF Select
  <2>2. PICK pair \in scanLeft[w] :
          /\ scanLeft' = [scanLeft EXCEPT ![w] = @ \ {pair}]
          /\ \/ \E j \in Job : /\ job' = [job EXCEPT ![w] = j]
                               /\ Goto(w, "selected")
             \/ \E p \in {"loop", "scan"} : UNCHANGED job /\ Goto(w, p)
    BY <1>16 DEF Select, Queued
  <2>3. scanLeft' \in [Workers -> SUBSET (Profiles \X Backends)]
    BY <2>2
  <2>4. CASE \E j \in Job : /\ job' = [job EXCEPT ![w] = j]
                            /\ Goto(w, "selected")
    BY <2>1, <2>3, <2>4 DEF Goto, PC, AtLoop, InLock, AtStart, AtWork, AtFinish
  <2>5. CASE \E p \in {"loop", "scan"} : UNCHANGED job /\ Goto(w, p)
    BY <2>1, <2>3, <2>5 DEF Goto, PC, AtLoop, InLock, AtStart, AtWork, AtFinish
  <2> QED
    BY <2>2, <2>4, <2>5
<1>17. ASSUME NEW w \in Workers, Reserve(w) PROVE TypeOK'
  <2> job[w] \in Job
    BY <1>17 DEF Reserve, AtLoop
  <2>1. /\ pc[w] = "selected"
        /\ UNCHANGED <<durable, registered, scanLeft, executing, event, tails,
                       cancel, reread, pendingKey, sweep, history>>
    BY <1>17 DEF Reserve
  <2>2. CASE CanAccept(BackendOf[job[w]])
    <3>1. /\ current' = [current EXCEPT ![BackendOf[job[w]]] = @ \cup {IdOf(job[w])}]
          /\ Goto(w, "reserved")
          /\ UNCHANGED job
      BY <1>17, <2>2 DEF Reserve
    <3> QED
      BY <2>1, <2>2, <3>1, JobParts DEF Goto, PC, AtLoop, InLock, AtStart, AtWork, AtFinish
  <2>3. CASE ~(CanAccept(BackendOf[job[w]]))
    <3>1. /\ \E p \in {"loop", "scan"} : Goto(w, p)
          /\ job' = [job EXCEPT ![w] = NoJob]
          /\ UNCHANGED current
      BY <1>17, <2>3 DEF Reserve
    <3> QED
      BY <2>1, <2>3, <3>1, JobParts DEF Goto, PC, AtLoop, InLock, AtStart, AtWork, AtFinish
  <2> QED
    BY <2>2, <2>3
<1>18. ASSUME NEW w \in Workers, CommitAssign(w) PROVE TypeOK'
  <2> job[w] \in Job
    BY <1>18 DEF CommitAssign, AtLoop
  <2>1. /\ pc[w] = "reserved"
        /\ scanLeft' = [scanLeft EXCEPT ![w] = {}]
        /\ Update(job[w], "assigned")
        /\ UNCHANGED <<retries, result, media, registered, current, executing,
                       event, tails, cancel, reread, pendingKey, sweep,
                       touched, spent>>
    BY <1>18 DEF CommitAssign
  <2>2. CASE status[job[w]] = "deleted"
    <3>1. /\ Goto(w, "loop")
          /\ job' = [job EXCEPT ![w] = NoJob]
          /\ UNCHANGED granted
      BY <1>18, <2>2 DEF CommitAssign
    <3> QED
      BY <2>1, <2>2, <3>1, JobParts DEF Goto, Update, Status, ActiveStatus, TerminalStatus,
          PC, AtLoop, InLock, AtStart, AtWork, AtFinish
  <2>3. CASE ~(status[job[w]] = "deleted")
    <3>1. /\ Goto(w, "assigned")
          /\ granted' = [granted EXCEPT ![job[w]] = @ + 1]
          /\ UNCHANGED job
      BY <1>18, <2>3 DEF CommitAssign
    <3> QED
      BY <2>1, <2>3, <3>1, JobParts DEF Goto, Update, Status, ActiveStatus, TerminalStatus,
          PC, AtLoop, InLock, AtStart, AtWork, AtFinish
  <2> QED
    BY <2>2, <2>3
<1>19. ASSUME NEW w \in Workers, Begin(w) PROVE TypeOK'
  <2> job[w] \in Job
    BY <1>19 DEF Begin, AtLoop
  <2>1. /\ pc[w] = "assigned"
        /\ UNCHANGED <<durable, registered, current, scanLeft, event, tails,
                       cancel, reread, pendingKey, sweep, history>>
    BY <1>19 DEF Begin
  <2>2. CASE status[job[w]] = "deleted"
    <3>1. /\ Goto(w, "loop")
          /\ job' = [job EXCEPT ![w] = NoJob]
          /\ UNCHANGED executing
      BY <1>19, <2>2 DEF Begin
    <3> QED
      BY <2>1, <2>2, <3>1, JobParts DEF Goto, PC, AtLoop, InLock, AtStart, AtWork, AtFinish
  <2>3. CASE ~(status[job[w]] = "deleted")
    <3>1. /\ Goto(w, "begin")
          /\ executing' = executing \cup {job[w]}
          /\ UNCHANGED job
      BY <1>19, <2>3 DEF Begin
    <3> QED
      BY <2>1, <2>3, <3>1, JobParts DEF Goto, PC, AtLoop, InLock, AtStart, AtWork, AtFinish
  <2> QED
    BY <2>2, <2>3
<1>20. ASSUME NEW w \in Workers, Start(w) PROVE TypeOK'
  <2> job[w] \in Job
    BY <1>20 DEF Start, AtLoop
  <2>1. /\ pc[w] = "begin"
        /\ UNCHANGED <<retries, result, media, registered, current, job,
                       scanLeft, executing, event, tails, cancel, reread,
                       pendingKey, sweep, history>>
    BY <1>20 DEF Start
  <2>2. CASE status[job[w]] \in ActiveStatus
    <3>1. /\ status' = [status EXCEPT ![job[w]] = "processing"]
          /\ Goto(w, "running")
      BY <1>20, <2>2 DEF Start
    <3> QED
      BY <2>1, <2>2, <3>1, JobParts DEF Goto, Status, ActiveStatus, TerminalStatus,
          PC, AtLoop, InLock, AtStart, AtWork, AtFinish
  <2>3. CASE ~(status[job[w]] \in ActiveStatus)
    <3>1. UNCHANGED status /\ Goto(w, "leave")
      BY <1>20, <2>3 DEF Start
    <3> QED
      BY <2>1, <2>3, <3>1, JobParts DEF Goto, Status, ActiveStatus, TerminalStatus,
          PC, AtLoop, InLock, AtStart, AtWork, AtFinish
  <2> QED
    BY <2>2, <2>3
<1>21. ASSUME NEW w \in Workers, Answer(w) PROVE TypeOK'
  BY <1>21, JobParts DEF Answer, Goto, PC, AtLoop, InLock, AtStart, AtWork, AtFinish
<1>22. ASSUME NEW w \in Workers, Raise(w) PROVE TypeOK'
  BY <1>22, JobParts DEF Raise, Goto, PC, AtLoop, InLock, AtStart, AtWork, AtFinish
<1>23. ASSUME NEW w \in Workers, CheckResult(w) PROVE TypeOK'
  BY <1>23, JobParts DEF CheckResult, Goto, PC, AtLoop, InLock, AtStart, AtWork, AtFinish
<1>24. ASSUME NEW w \in Workers, Handoff(w) PROVE TypeOK'
  <2> job[w] \in Job
    BY <1>24 DEF Handoff, AtLoop
  <2>1. tails' \in [Job -> [Stages -> Nat]]
    BY <1>24 DEF Handoff
  <2>2. /\ pc' \in [Workers -> PC]
        /\ \A v \in Workers : job'[v] = NoJob <=> pc'[v] \in AtLoop
    BY <1>24 DEF Handoff, Goto, PC, AtLoop, InLock, AtStart, AtWork, AtFinish
  <2> QED
    BY <1>24, <2>1, <2>2 DEF Handoff
<1>25. ASSUME NEW w \in Workers, CheckFailure(w) PROVE TypeOK'
  BY <1>25, JobParts DEF CheckFailure, Goto, PC, AtLoop, InLock, AtStart, AtWork, AtFinish
<1>26. ASSUME NEW w \in Workers, CommitFailure(w) PROVE TypeOK'
  BY <1>26, JobParts DEF CommitFailure, Update, Goto, Status, ActiveStatus, TerminalStatus,
      PC, AtLoop, InLock, AtStart, AtWork, AtFinish
<1>27. ASSUME NEW w \in Workers, Settle(w) PROVE TypeOK'
  <2> job[w] \in Job
    BY <1>27 DEF Settle, AtLoop
  <2>1. /\ pc[w] = "lost"
        /\ touched' = touched \cup {job[w]}
        /\ UNCHANGED <<result, media, registered, current, job, scanLeft,
                       executing, event, tails, cancel, reread, pendingKey,
                       sweep, granted, spent>>
    BY <1>27 DEF Settle
  <2>2. CASE Settleable(job[w])
    <3>1. SettleRow(job[w]) /\ Goto(w, "settled")
      BY <1>27, <2>2 DEF Settle
    <3> QED
      BY <2>1, <2>2, <3>1, JobParts, SettleRowType DEF Goto, PC, AtLoop, InLock, AtStart, AtWork, AtFinish
  <2>3. CASE ~(Settleable(job[w]))
    <3>1. UNCHANGED <<status, retries>> /\ Goto(w, "leave")
      BY <1>27, <2>3 DEF Settle
    <3> QED
      BY <2>1, <2>3, <3>1, JobParts, SettleRowType DEF Goto, PC, AtLoop, InLock, AtStart, AtWork, AtFinish
  <2> QED
    BY <2>2, <2>3
<1>28. ASSUME NEW w \in Workers, SettleRelease(w) PROVE TypeOK'
  BY <1>28, JobParts DEF SettleRelease, Release, Woken, PC, AtLoop, InLock, AtStart, AtWork,
      AtFinish
<1>29. ASSUME NEW w \in Workers, ReleaseSlot(w) PROVE TypeOK'
  BY <1>29, JobParts DEF ReleaseSlot, Release, Goto, PC, AtLoop, InLock, AtStart, AtWork,
      AtFinish
<1>30. ASSUME NEW w \in Workers, Leave(w) PROVE TypeOK'
  BY <1>30, JobParts DEF Leave, Woken, PC, AtLoop, InLock, AtStart, AtWork, AtFinish
<1>31. ASSUME NEW w \in Workers, RefillFault(w) PROVE TypeOK'
  BY <1>31, JobParts DEF RefillFault, Release, Goto, Spend, PC, AtLoop, InLock, AtStart,
      AtWork, AtFinish
<1>32. ASSUME NEW w \in Workers, HandlerFault(w) PROVE TypeOK'
  <2>1. /\ pc' \in [Workers -> PC]
        /\ job' \in [Workers -> Job \cup {NoJob}]
        /\ \A v \in Workers : job'[v] = NoJob <=> pc'[v] \in AtLoop
    BY <1>32 DEF HandlerFault, Goto, PC, AtLoop, InLock, AtStart, AtWork, AtFinish
  <2>2. /\ executing' \in SUBSET Job
        /\ touched' \in SUBSET Job
        /\ scanLeft' \in [Workers -> SUBSET (Profiles \X Backends)]
        /\ spent' \in [Spending -> Nat]
    <3> job[w] \in Job
      BY <1>32 DEF HandlerFault, AtLoop
    <3> QED
      BY <1>32 DEF HandlerFault, Spend
  <2> QED
    BY <1>32, <2>1, <2>2 DEF HandlerFault
<1>33. ASSUME NEW b \in Backends, RequestWork(b) PROVE TypeOK'
  BY <1>33, JobParts DEF RequestWork
<1>34. ASSUME NEW b \in Backends, Disconnect(b) PROVE TypeOK'
  BY <1>34, JobParts DEF Disconnect, Spend, HeldOn, Sweeping, PC, AtLoop, InLock, AtStart,
      AtWork, AtFinish
<1>35. ASSUME NEW b \in Backends, SweepSettleRow(b) PROVE TypeOK'
  <2> sweepSettle[b] \in Job
    BY <1>35 DEF SweepSettleRow
  <2>1. /\ sweepSettle[b] # NoJob
        /\ sweepSettle' = [sweepSettle EXCEPT ![b] = NoJob]
        /\ UNCHANGED <<result, media, registered, current, worker, tails,
                       cancel, reread, pendingKey, sweepProfiles, sweepJobs,
                       granted, spent>>
    BY <1>35 DEF SweepSettleRow
  <2>2. CASE Settleable(sweepSettle[b])
    <3>1. /\ SettleRow(sweepSettle[b])
          /\ sweepRelease' = [sweepRelease EXCEPT ![b] = sweepSettle[b]]
          /\ touched' = touched \cup {sweepSettle[b]}
      BY <1>35, <2>2 DEF SweepSettleRow
    <3> QED
      BY <2>1, <2>2, <3>1, JobParts, SettleRowType
  <2>3. CASE ~(Settleable(sweepSettle[b]))
    <3>1. UNCHANGED <<status, retries, sweepRelease, touched>>
      BY <1>35, <2>3 DEF SweepSettleRow
    <3> QED
      BY <2>1, <2>3, <3>1, JobParts, SettleRowType
  <2> QED
    BY <2>2, <2>3
<1>36. ASSUME NEW b \in Backends, SweepSettled(b) PROVE TypeOK'
  BY <1>36, JobParts DEF SweepSettled, Release, Woken, PC, AtLoop, InLock, AtStart, AtWork,
      AtFinish
<1>37. ASSUME NEW b \in Backends, SweepFault(b) PROVE TypeOK'
  BY <1>37, JobParts DEF SweepFault, Spend, Sweeping
<1>38. ASSUME NEW b \in Backends, Reconnect(b) PROVE TypeOK'
  BY <1>38, JobParts DEF Reconnect
<1>39. ASSUME NEW b \in Backends, NEW p \in Profiles, SweepRead(b, p) PROVE TypeOK'
  BY <1>39, JobParts DEF SweepRead, Settleable, Status, ActiveStatus, TerminalStatus
<1>40. ASSUME NEW b \in Backends, NEW j \in Job, SweepVisit(b, j) PROVE TypeOK'
  BY <1>40, JobParts DEF SweepVisit
<1>41. ASSUME Restart PROVE TypeOK'
  BY <1>41, JobParts DEF Restart, Spend, Interrupted, Status, ActiveStatus, TerminalStatus,
      PC, AtLoop, InLock, AtStart, AtWork, AtFinish
<1>42. ASSUME UNCHANGED vars PROVE TypeOK'
  BY <1>42 DEF vars
<1>43. ASSUME NEW j \in Job, RetryRead(j) PROVE TypeOK'
  BY <1>43, JobParts DEF RetryRead, Spend
<1>44. ASSUME NEW j \in Job, RetryCommit(j) PROVE TypeOK'
  <2>1. /\ Update(j, "queued")
        /\ cancel' = [cancel EXCEPT ![j] = "none"]
        /\ readRetries' = [readRetries EXCEPT ![j] = 0]
        /\ readResult' = [readResult EXCEPT ![j] = FALSE]
        /\ UNCHANGED <<media, registered, current, worker, tails, pendingKey, sweep,
                       history>>
    BY <1>44 DEF RetryCommit
  <2>2. status' \in [Job -> Status]
    BY <2>1, UpdateType DEF Status, ActiveStatus
  <2>3. /\ retries' \in [Job -> 0..MaxDisconnectRetries]
        /\ result' \in [Job -> BOOLEAN]
    <3>1. CASE UNCHANGED <<retries, result>>
      BY <3>1
    <3>2. CASE /\ retries' = [retries EXCEPT ![j] = readRetries[j]]
               /\ result' = [result EXCEPT ![j] = @ /\ ~readResult[j]]
      <4>1. retries' \in [Job -> 0..MaxDisconnectRetries]
        BY <3>2
      <4>2. (result[j] /\ ~readResult[j]) \in BOOLEAN
        OBVIOUS
      <4> QED
        BY <3>2, <4>1, <4>2, Zenon
    <3> QED
      BY <1>44, <3>1, <3>2 DEF RetryCommit
  <2>4. /\ cancel' \in [Job -> CancelStage]
        /\ readRetries' \in [Job -> 0..MaxDisconnectRetries]
        /\ readResult' \in [Job -> BOOLEAN]
    BY <2>1
  <2> QED
    BY <2>1, <2>2, <2>3, <2>4
<1> QED
  BY <1>1, <1>2, <1>3, <1>4, <1>5, <1>6, <1>7, <1>8, <1>9, <1>10, <1>11,
     <1>12, <1>13, <1>14, <1>15, <1>16, <1>17, <1>18, <1>19, <1>20, <1>21,
     <1>22, <1>23, <1>24, <1>25, <1>26, <1>27, <1>28, <1>29, <1>30, <1>31,
     <1>32, <1>33, <1>34, <1>35, <1>36, <1>37, <1>38, <1>39, <1>40, <1>41,
     <1>42, <1>43, <1>44
  DEF Next, CancelStep, TailStep, WorkerStep, SweepStep

\* The process starts with every variable in its type.
LEMMA InitType == Init => TypeOK
  BY BackendOfAssumption, BoundsAssumption, NoJobAssumption
  DEF Init, TypeOK, Status, PC, AtLoop

\* Every variable keeps its type in every behaviour of the queue.
THEOREM TypeCorrect == Spec => []TypeOK
  BY InitType, TypeStep, PTL DEF Spec

-----------------------------------------------------------------------------
(* What most steps leave alone.                                            *)

\* The steps that change no row, no tail and no count of hand-outs, and let no
\* worker into assign_next_job.
QuietStep ==
    \/ \E j \in Job : DeleteRead(j) \/ CancelRead(j) \/ ClientCancelRead(j) \/ CancelRelease(j)
    \/ \E w \in Workers :
          \/ LoopTop(w) \/ BeginScan(w) \/ Reserve(w) \/ Begin(w) \/ Answer(w) \/ Raise(w)
          \/ CheckResult(w) \/ CheckFailure(w) \/ SettleRelease(w) \/ ReleaseSlot(w)
          \/ Leave(w) \/ RefillFault(w) \/ HandlerFault(w)
    \/ \E b \in Backends :
          \/ RequestWork(b) \/ Disconnect(b) \/ (\E p \in Profiles : SweepRead(b, p))
          \/ (\E j \in Job : SweepVisit(b, j)) \/ SweepSettled(b) \/ SweepFault(b)
          \/ Reconnect(b)
    \/ UNCHANGED vars

\* The other steps of a worker, of the requests and tails of a job, and the rest.
WorkerWrites(w) ==
    Select(w) \/ CommitAssign(w) \/ Start(w) \/ Handoff(w) \/ CommitFailure(w) \/ Settle(w)

JobWrites(j) ==
    \/ Submit(j) \/ DeleteCommit(j) \/ CancelCommit(j) \/ ClientCancelCommit(j)
    \/ RetryRead(j) \/ RetryCommit(j)
    \/ Ingest(j) \/ Complete(j) \/ Notify(j) \/ TailFails(j) \/ TailLost(j)

\* A step is quiet, or writes on behalf of one worker, job or backend, or is a
\* restart.
LEMMA StepKinds ==
    [Next]_vars => \/ QuietStep
                   \/ \E w \in Workers : WorkerWrites(w)
                   \/ \E j \in Job : JobWrites(j)
                   \/ \E b \in Backends : SweepSettleRow(b)
                   \/ Restart
<1>1. ASSUME NEW w \in Workers, WorkerStep(w) \/ RefillFault(w) \/ HandlerFault(w)
      PROVE  QuietStep \/ WorkerWrites(w)
  BY <1>1 DEF WorkerStep, QuietStep, WorkerWrites
<1>2. ASSUME NEW j \in Job,
             \/ Submit(j) \/ DeleteRead(j) \/ CancelRead(j) \/ ClientCancelRead(j)
             \/ RetryRead(j) \/ CancelStep(j) \/ TailStep(j) \/ TailFails(j) \/ TailLost(j)
      PROVE  QuietStep \/ JobWrites(j)
  BY <1>2 DEF CancelStep, TailStep, QuietStep, JobWrites
<1>3. ASSUME NEW b \in Backends,
             RequestWork(b) \/ Disconnect(b) \/ SweepStep(b) \/ SweepFault(b) \/ Reconnect(b)
      PROVE  QuietStep \/ SweepSettleRow(b)
  BY <1>3 DEF SweepStep, QuietStep
<1>4. UNCHANGED vars => QuietStep
  BY DEF QuietStep
<1> QED
  BY <1>1, <1>2, <1>3, <1>4 DEF Next

\* No worker enters assign_next_job, and one that stays keeps its job.
LockKept == \A w \in Workers : pc'[w] \in InLock => pc[w] \in InLock /\ job'[w] = job[w]

\* A step that counts no user retry leaves the number of those begun alone.
RetriesKept ==
    /\ spent'["userRetry"] = spent["userRetry"]
    /\ \A j \in Job : cancel'[j] = "retryRead" => cancel[j] = "retryRead"

\* A quiet step is one.
LEMMA QuietFrame ==
    TypeOK /\ QuietStep => LockKept /\ RetriesKept /\ UNCHANGED <<durable, tails, granted>>
<1> SUFFICES ASSUME TypeOK, QuietStep
             PROVE  LockKept /\ RetriesKept /\ UNCHANGED <<durable, tails, granted>>
  OBVIOUS
<1> USE DEF TypeOK, RetriesKept
<1>1. ASSUME NEW j \in Job,
             DeleteRead(j) \/ CancelRead(j) \/ ClientCancelRead(j) \/ CancelRelease(j)
      PROVE  LockKept /\ RetriesKept /\ UNCHANGED <<durable, tails, granted>>
  BY <1>1 DEF DeleteRead, CancelRead, ClientCancelRead, CancelRelease, Spend, LockKept
<1>2. ASSUME NEW w \in Workers,
             \/ LoopTop(w) \/ Answer(w) \/ Raise(w) \/ CheckResult(w) \/ CheckFailure(w)
             \/ ReleaseSlot(w) \/ RefillFault(w)
      PROVE  LockKept /\ RetriesKept /\ UNCHANGED <<durable, tails, granted>>
  <2>1. \E p \in PC \ InLock : Goto(w, p)
    BY <1>2 DEF LoopTop, Answer, Raise, CheckResult, CheckFailure, ReleaseSlot, RefillFault, Goto,
       PC, AtLoop, InLock, AtWork, AtFinish
  <2>2. UNCHANGED <<durable, tails, granted, job, cancel>>
        /\ spent'["userRetry"] = spent["userRetry"]
    BY <1>2 DEF LoopTop, Answer, Raise, CheckResult, CheckFailure, ReleaseSlot, RefillFault, Spend
  <2> QED
    BY <2>1, <2>2 DEF LockKept, Goto
<1>3. ASSUME NEW w \in Workers, Reserve(w) \/ Begin(w) \/ HandlerFault(w)
      PROVE  LockKept /\ RetriesKept /\ UNCHANGED <<durable, tails, granted>>
  <2>1. UNCHANGED <<durable, tails, granted, cancel>>
        /\ spent'["userRetry"] = spent["userRetry"]
    BY <1>3 DEF Reserve, Begin, HandlerFault, Spend
  <2>2. \/ \E p \in PC \ InLock : Goto(w, p) /\ job' \in {job, [job EXCEPT ![w] = NoJob]}
        \/ pc[w] \in InLock /\ Goto(w, "reserved") /\ UNCHANGED job
    BY <1>3 DEF Reserve, Begin, HandlerFault, Goto, PC, AtLoop, InLock, AtStart
  <2> QED
    BY <2>1, <2>2 DEF LockKept, Goto
<1>4. ASSUME NEW w \in Workers, BeginScan(w)
      PROVE  LockKept /\ RetriesKept /\ UNCHANGED <<durable, tails, granted>>
  <2>1. UNCHANGED <<durable, tails, granted, cancel, job, spent>>
    BY <1>4 DEF BeginScan
  <2>2. pc' = Woken([pc EXCEPT ![w] = "loop"]) \/ Goto(w, "scan")
    BY <1>4 DEF BeginScan
  <2> QED
    BY <2>1, <2>2 DEF LockKept, Goto, Woken, InLock
<1>5. ASSUME NEW w \in Workers, SettleRelease(w) \/ Leave(w)
      PROVE  LockKept /\ RetriesKept /\ UNCHANGED <<durable, tails, granted>>
  <2>1. UNCHANGED <<durable, tails, granted, cancel, spent>>
    BY <1>5 DEF SettleRelease, Leave
  <2>2. \E p \in {"leave", "loop"} : pc' = Woken([pc EXCEPT ![w] = p])
    BY <1>5 DEF SettleRelease, Leave
  <2>3. \A v \in Workers : v # w => job'[v] = job[v]
    BY <1>5 DEF SettleRelease, Leave
  <2> QED
    BY <2>1, <2>2, <2>3 DEF LockKept, Woken, InLock
<1>6. ASSUME NEW b \in Backends,
             \/ RequestWork(b) \/ (\E p \in Profiles : SweepRead(b, p))
             \/ (\E j \in Job : SweepVisit(b, j)) \/ SweepFault(b) \/ Reconnect(b)
      PROVE  LockKept /\ RetriesKept /\ UNCHANGED <<durable, tails, granted>>
  BY <1>6 DEF RequestWork, SweepRead, SweepVisit, SweepFault, Reconnect, Spend, LockKept
<1>7. ASSUME NEW b \in Backends, Disconnect(b)
      PROVE  LockKept /\ RetriesKept /\ UNCHANGED <<durable, tails, granted>>
  BY <1>7 DEF Disconnect, Spend, LockKept, InLock
<1>8. ASSUME NEW b \in Backends, SweepSettled(b)
      PROVE  LockKept /\ RetriesKept /\ UNCHANGED <<durable, tails, granted>>
  BY <1>8 DEF SweepSettled, LockKept, Woken, InLock
<1>9. ASSUME UNCHANGED vars
      PROVE  LockKept /\ RetriesKept /\ UNCHANGED <<durable, tails, granted>>
  BY <1>9 DEF vars, LockKept
<1> QED
  BY <1>1, <1>2, <1>3, <1>4, <1>5, <1>6, <1>7, <1>8, <1>9 DEF QuietStep

\* Requests and tails leave the workers where they are, but for waking them.
LEMMA JobWritesKeepLock ==
    ASSUME TypeOK, NEW j \in Job, JobWrites(j)
    PROVE  LockKept
<1>1. CASE Submit(j)
  BY <1>1 DEF Submit, LockKept, Woken, InLock, TypeOK
<1>2. CASE ~Submit(j)
  <2>1. UNCHANGED worker
    BY <1>2 DEF JobWrites, DeleteCommit, CancelCommit, ClientCancelCommit, RetryRead,
       RetryCommit, Ingest, Complete, Notify, TailFails, TailLost
  <2> QED
    BY <2>1 DEF LockKept
<1> QED
  BY <1>1, <1>2

\* Only Select enters the lock.
LEMMA OnlySelectEnters == TypeOK /\ [Next]_vars => LockKept \/ \E w \in Workers : Select(w)
<1> SUFFICES ASSUME TypeOK, [Next]_vars PROVE LockKept \/ \E w \in Workers : Select(w)
  OBVIOUS
<1> USE DEF TypeOK
<1>1. CASE QuietStep
  BY <1>1, QuietFrame
<1>2. ASSUME NEW w \in Workers, WorkerWrites(w), ~Select(w)
      PROVE  LockKept
  <2>1. \E p \in PC \ InLock : Goto(w, p)
    BY <1>2 DEF WorkerWrites, CommitAssign, Start, Handoff, CommitFailure, Settle, Goto,
       PC, AtLoop, InLock, AtStart, AtWork, AtFinish
  <2>2. \A v \in Workers : v # w => job'[v] = job[v]
    BY <1>2 DEF WorkerWrites, CommitAssign, Start, Handoff, CommitFailure, Settle
  <2> QED
    BY <2>1, <2>2 DEF LockKept, Goto
<1>3. ASSUME NEW j \in Job, JobWrites(j) PROVE LockKept
  BY <1>3, JobWritesKeepLock
<1>4. ASSUME NEW b \in Backends, SweepSettleRow(b) PROVE LockKept
  BY <1>4 DEF SweepSettleRow, LockKept
<1>5. CASE Restart
  BY <1>5 DEF Restart, LockKept, InLock
<1> QED
  BY <1>1, <1>2, <1>3, <1>4, <1>5, StepKinds

-----------------------------------------------------------------------------
(* The retry budget.                                                       *)

\* Only one worker at a time is inside assign_next_job.
LEMMA LockStep == TypeOK /\ OneInLock /\ [Next]_vars => OneInLock'
<1> SUFFICES ASSUME TypeOK, OneInLock, [Next]_vars PROVE OneInLock'
  OBVIOUS
<1>1. CASE LockKept
  BY <1>1 DEF LockKept, OneInLock
<1>2. ASSUME NEW w \in Workers, Select(w) PROVE OneInLock'
  <2>1. \A v \in Workers : pc[v] \notin InLock
    BY <1>2 DEF Select, LockFree
  <2>2. \A v \in Workers : v # w => pc'[v] = pc[v]
    BY <1>2 DEF Select, Goto, TypeOK
  <2> QED
    BY <2>1, <2>2 DEF OneInLock
<1> QED
  BY <1>1, <1>2, OnlySelectEnters

\* A fresh budget is one more than the retries a job has.
LEMMA BudgetGrows ==
    ASSUME NEW n \in Nat
    PROVE  (MaxDisconnectRetries + 1) * (n + 1) =
           (MaxDisconnectRetries + 1) * n + MaxDisconnectRetries + 1
  BY BoundsAssumption

\* What a hand-out or the prospect of one costs, and what pays for it.
Cost(j) == granted[j] + (IF Waiting(j) THEN 1 ELSE 0)
                      + (IF cancel[j] = "retryRead" THEN MaxDisconnectRetries + 1 ELSE 0)

\* A step that hands nothing out, lets no other job wait and grants no budget
\* leaves the books balanced.
LEMMA Balanced ==
    ASSUME TypeOK, AttemptsPaid, TypeOK', RetriesKept, NEW j \in Job,
           granted'[j] = granted[j], retries'[j] = retries[j], Waiting(j)' => Waiting(j)
    PROVE  Cost(j)' <= retries'[j] + 1 + Budget'
<1>1. granted[j] \in Nat /\ retries[j] \in Nat /\ Budget \in Nat /\ MaxDisconnectRetries \in Nat
  BY BoundsAssumption DEF TypeOK, Budget
<1>2. Budget' = Budget
  BY DEF Budget, RetriesKept
<1>3. Cost(j) <= retries[j] + 1 + Budget
  BY DEF AttemptsPaid, Cost
<1> QED
  BY <1>1, <1>2, <1>3 DEF Cost, RetriesKept

\* A job that waits after a step waited before it, unless the step queued it.
LEMMA WaitingKept ==
    ASSUME LockKept, NEW j \in Job,
           status'[j] \in {"none", "queued"} => status[j] \in {"none", "queued"}
    PROVE  Waiting(j)' => Waiting(j)
  BY DEF Waiting, LockKept

\* Settling a disconnected row pays for the attempt it grants.
LEMMA SettleRowBalanced ==
    ASSUME TypeOK, AttemptsPaid, TypeOK', RetriesKept, LockKept, UNCHANGED granted,
           NEW j \in Job, SettleRow(j), NEW k \in Job
    PROVE  Cost(k)' <= retries'[k] + 1 + Budget'
<1>1. CASE k # j \/ retries[j] >= MaxDisconnectRetries
  <2>1. retries'[k] = retries[k] /\ (status'[k] \in {"none", "queued"} => status'[k] = status[k])
    BY <1>1, BoundsAssumption DEF SettleRow, TypeOK
  <2> QED
    BY <2>1, Balanced, WaitingKept
<1>2. CASE k = j /\ retries[j] < MaxDisconnectRetries
  <2>1. retries'[j] = retries[j] + 1
    BY <1>2 DEF SettleRow, TypeOK
  <2>2. granted[j] \in Nat /\ retries[j] \in Nat /\ Budget \in Nat /\ MaxDisconnectRetries \in Nat
    BY BoundsAssumption DEF TypeOK, Budget
  <2>3. Budget' = Budget
    BY DEF Budget, RetriesKept
  <2>4. granted[j] + (IF cancel[j] = "retryRead" THEN MaxDisconnectRetries + 1 ELSE 0)
            <= retries[j] + 1 + Budget
    BY <2>2 DEF AttemptsPaid
  <2>5. Cost(j)' <= granted[j] + 1
                      + (IF cancel[j] = "retryRead" THEN MaxDisconnectRetries + 1 ELSE 0)
    BY <2>2 DEF Cost, RetriesKept
  <2> QED
    BY <1>2, <2>1, <2>2, <2>3, <2>4, <2>5 DEF Cost
<1> QED
  BY <1>1, <1>2, BoundsAssumption DEF TypeOK

\* No step hands a job out without an attempt to pay for it: a requeue adds
\* one, the user's retry a fresh budget, the commit of an assignment uses one.
LEMMA AttemptsStep ==
    TypeOK /\ OneInLock /\ AttemptsPaid /\ [Next]_vars => AttemptsPaid'
<1> SUFFICES ASSUME TypeOK, OneInLock, AttemptsPaid, [Next]_vars, NEW k \in Job
             PROVE  Cost(k)' <= retries'[k] + 1 + Budget'
  BY DEF AttemptsPaid, Cost
<1>t. TypeOK'
  BY TypeStep
<1>1. CASE QuietStep
  BY <1>1, <1>t, QuietFrame, Balanced, WaitingKept
<1>2. ASSUME NEW w \in Workers, Select(w) PROVE Cost(k)' <= retries'[k] + 1 + Budget'
  <2>1. RetriesKept /\ UNCHANGED <<durable, granted>>
    BY <1>2 DEF Select, RetriesKept
  <2>2. \A v \in Workers : v # w => pc'[v] = pc[v] /\ job'[v] = job[v]
    BY <1>2 DEF Select, Goto, TypeOK
  <2>3. pc'[w] \in InLock => status[job'[w]] = "queued"
    BY <1>2 DEF Select, Goto, Queued, InLock, TypeOK
  <2>4. Waiting(k)' => Waiting(k)
    BY <2>1, <2>2, <2>3 DEF Waiting
  <2> QED
    BY <1>t, <2>1, <2>4, Balanced
<1>3. ASSUME NEW w \in Workers, CommitAssign(w) PROVE Cost(k)' <= retries'[k] + 1 + Budget'
  <2>1. RetriesKept /\ UNCHANGED retries
    BY <1>3 DEF CommitAssign, RetriesKept
  <2>2. job[w] \in Job /\ pc[w] \in InLock
    BY <1>3 DEF CommitAssign, TypeOK, AtLoop, InLock
  <2>3. LockKept
    BY <1>3 DEF CommitAssign, Goto, LockKept, TypeOK, InLock
  <2>4. CASE status[job[w]] = "deleted" \/ k # job[w]
    <3>1. granted'[k] = granted[k] /\ status'[k] = status[k]
      BY <1>3, <2>2, <2>4 DEF CommitAssign, Update, TypeOK
    <3> QED
      BY <1>t, <2>1, <2>3, <3>1, Balanced, WaitingKept
  <2>5. CASE status[job[w]] # "deleted" /\ k = job[w]
    <3>1. granted'[k] = granted[k] + 1 /\ status'[k] = "assigned" /\ pc'[w] = "assigned"
      BY <1>3, <2>2, <2>5 DEF CommitAssign, Update, Goto, TypeOK
    <3>2. Waiting(k)
      BY <2>2, <2>5 DEF Waiting
    <3>3. ~Waiting(k)'
      BY <2>2, <2>3, <3>1 DEF Waiting, LockKept, OneInLock, InLock
    <3>4. Budget' = Budget
      BY <2>1 DEF Budget, RetriesKept
    <3>5. granted[k] \in Nat /\ retries[k] \in Nat /\ Budget \in Nat /\ MaxDisconnectRetries \in Nat
      BY BoundsAssumption DEF TypeOK, Budget
    <3>6. Cost(k) <= retries[k] + 1 + Budget
      BY DEF AttemptsPaid, Cost
    <3> QED
      BY <2>1, <3>1, <3>2, <3>3, <3>4, <3>5, <3>6 DEF Cost, RetriesKept
  <2> QED
    BY <2>4, <2>5
<1>4. ASSUME NEW w \in Workers, Start(w) \/ Handoff(w) \/ CommitFailure(w)
      PROVE  Cost(k)' <= retries'[k] + 1 + Budget'
  <2>1. RetriesKept /\ UNCHANGED <<retries, granted>>
    BY <1>4 DEF Start, Handoff, CommitFailure, RetriesKept
  <2>2. LockKept
    BY <1>4 DEF Start, Handoff, CommitFailure, Goto, LockKept, TypeOK, InLock
  <2>3. status'[k] \in {"none", "queued"} => status'[k] = status[k]
    BY <1>4 DEF Start, Handoff, CommitFailure, Update, TypeOK
  <2> QED
    BY <1>t, <2>1, <2>2, <2>3, Balanced, WaitingKept
<1>5. ASSUME NEW w \in Workers, Settle(w) PROVE Cost(k)' <= retries'[k] + 1 + Budget'
  <2>1. RetriesKept /\ UNCHANGED granted /\ job[w] \in Job
    BY <1>5 DEF Settle, RetriesKept, TypeOK, AtLoop
  <2>2. LockKept
    BY <1>5 DEF Settle, Goto, LockKept, TypeOK, InLock
  <2>3. SettleRow(job[w]) \/ UNCHANGED <<status, retries>>
    BY <1>5 DEF Settle
  <2> QED
    BY <1>t, <2>1, <2>2, <2>3, SettleRowBalanced, Balanced, WaitingKept
<1>6. ASSUME NEW b \in Backends, SweepSettleRow(b) PROVE Cost(k)' <= retries'[k] + 1 + Budget'
  <2>1. /\ RetriesKept /\ UNCHANGED granted /\ LockKept
        /\ sweepSettle[b] \in Job
        /\ SettleRow(sweepSettle[b]) \/ UNCHANGED <<status, retries>>
    BY <1>6 DEF SweepSettleRow, RetriesKept, LockKept, TypeOK
  <2> QED
    BY <1>t, <2>1, SettleRowBalanced, Balanced, WaitingKept
<1>7. ASSUME NEW j \in Job, JobWrites(j), ~RetryRead(j), ~RetryCommit(j)
      PROVE  Cost(k)' <= retries'[k] + 1 + Budget'
  <2>1. RetriesKept /\ UNCHANGED <<retries, granted>>
    BY <1>7 DEF JobWrites, Submit, DeleteCommit, CancelCommit, ClientCancelCommit, Ingest,
       Complete, Notify, TailFails, TailLost, Spend, RetriesKept, TypeOK
  <2>2. LockKept
    BY <1>7, JobWritesKeepLock
  <2>3. status'[k] \in {"none", "queued"} => status[k] \in {"none", "queued"}
    BY <1>7 DEF JobWrites, Submit, DeleteCommit, CancelCommit, ClientCancelCommit, Ingest,
       Complete, Notify, TailFails, TailLost, Update, TypeOK
  <2> QED
    BY <1>t, <2>1, <2>2, <2>3, Balanced, WaitingKept
<1>8. ASSUME NEW j \in Job, RetryRead(j) PROVE Cost(k)' <= retries'[k] + 1 + Budget'
  <2>1. /\ UNCHANGED <<durable, worker, granted>>
        /\ spent'["userRetry"] = spent["userRetry"] + 1
        /\ cancel[j] = "none"
        /\ \A i \in Job : i # j => cancel'[i] = cancel[i]
    BY <1>8 DEF RetryRead, Spend, TypeOK
  <2>2. Budget' = Budget + MaxDisconnectRetries + 1
    BY <2>1, BudgetGrows DEF Budget, TypeOK
  <2>3. granted[k] \in Nat /\ retries[k] \in Nat /\ Budget \in Nat /\ MaxDisconnectRetries \in Nat
    BY BoundsAssumption DEF TypeOK, Budget
  <2>4. Waiting(k)' <=> Waiting(k)
    BY <2>1 DEF Waiting
  <2>5. Cost(k)' <= Cost(k) + MaxDisconnectRetries + 1
    BY <2>1, <2>3, <2>4 DEF Cost
  <2>6. Cost(k) <= retries[k] + 1 + Budget
    BY DEF AttemptsPaid, Cost
  <2> QED
    BY <2>1, <2>2, <2>3, <2>5, <2>6 DEF Cost
<1>9. ASSUME NEW j \in Job, RetryCommit(j) PROVE Cost(k)' <= retries'[k] + 1 + Budget'
  <2>1. RetriesKept /\ UNCHANGED <<worker, granted>>
    BY <1>9 DEF RetryCommit, RetriesKept, TypeOK
  <2>2. CASE k # j
    <3>1. status'[k] = status[k] /\ retries'[k] = retries[k]
      BY <1>9, <2>2 DEF RetryCommit, Update, TypeOK
    <3> QED
      BY <1>t, <2>1, <3>1, Balanced, WaitingKept DEF LockKept
  <2>3. CASE k = j
    <3>1. cancel[j] = "retryRead" /\ cancel'[j] = "none"
      BY <1>9 DEF RetryCommit, TypeOK
    <3>2. /\ granted[j] \in Nat /\ Budget \in Nat /\ MaxDisconnectRetries \in Nat
          /\ retries[j] \in 0..MaxDisconnectRetries /\ retries'[j] \in 0..MaxDisconnectRetries
      BY <1>t, BoundsAssumption DEF TypeOK, Budget
    <3>3. Budget' = Budget
      BY <2>1 DEF Budget, RetriesKept
    <3>4. granted[j] + MaxDisconnectRetries + 1 <= retries[j] + 1 + Budget
      BY <3>1, <3>2 DEF AttemptsPaid
    <3>5. Cost(j)' \in Nat /\ Cost(j)' <= granted[j] + 1
      BY <2>1, <3>1, <3>2 DEF Cost
    <3>6. granted[j] <= Budget
      BY <3>2, <3>4
    <3>7. Cost(j)' <= retries'[j] + 1 + Budget
      BY <3>2, <3>5, <3>6
    <3> QED
      BY <2>3, <3>3, <3>7
  <2> QED
    BY <2>2, <2>3
<1>10. CASE Restart
  <2>1. /\ status'[k] \in {"none", "queued"} => status'[k] = status[k]
        /\ UNCHANGED <<retries, granted>>
        /\ RetriesKept
    BY <1>10 DEF Restart, Spend, RetriesKept, TypeOK
  <2>2. LockKept
    BY <1>10 DEF Restart, LockKept, InLock
  <2> QED
    BY <1>t, <2>1, <2>2, Balanced, WaitingKept
<1> QED
  BY <1>1, <1>2, <1>3, <1>4, <1>5, <1>6, <1>7, <1>8, <1>9, <1>10, StepKinds DEF WorkerWrites

\* A job is handed to a worker at most once per attempt the retry limit
\* allows, whatever disconnects, faults, cancels and restarts do; the user's
\* retries grant as many again.
THEOREM AttemptsAreBounded == Spec => []AttemptsBounded
<1>1. Init => AttemptsInv
  <2>1. Init => OneInLock
    BY DEF Init, OneInLock, InLock
  <2>2. Init => AttemptsPaid
    BY BoundsAssumption DEF Init, AttemptsPaid, Budget
  <2> QED
    BY InitType, <2>1, <2>2 DEF AttemptsInv
<1>2. AttemptsInv /\ [Next]_vars => AttemptsInv'
  BY TypeStep, LockStep, AttemptsStep DEF AttemptsInv
<1>3. AttemptsInv => AttemptsBounded
  <2> SUFFICES ASSUME AttemptsInv, NEW j \in Job
               PROVE  granted[j] <= (MaxDisconnectRetries + 1) * (spent["userRetry"] + 1)
    BY DEF AttemptsBounded
  <2>1. /\ retries[j] \in 0..MaxDisconnectRetries /\ granted[j] \in Nat
        /\ spent["userRetry"] \in Nat /\ MaxDisconnectRetries \in Nat /\ Budget \in Nat
    BY BoundsAssumption DEF AttemptsInv, TypeOK, Budget
  <2>2. granted[j] <= retries[j] + 1 + Budget
    BY <2>1 DEF AttemptsInv, AttemptsPaid
  <2>3. (MaxDisconnectRetries + 1) * (spent["userRetry"] + 1) = Budget + MaxDisconnectRetries + 1
    BY <2>1, BudgetGrows DEF Budget
  <2> QED
    BY <2>1, <2>2, <2>3
<1> QED
  BY <1>1, <1>2, <1>3, PTL DEF Spec

\* A step that queues a row again spends one of its retries, or is the user's.
LEMMA RequeueStep == TypeOK /\ [Next]_vars => \A j \in Job : SpendsRetry(j)
<1> SUFFICES ASSUME TypeOK, [Next]_vars, NEW k \in Job PROVE SpendsRetry(k)
  OBVIOUS
<1>1. CASE QuietStep
  BY <1>1, QuietFrame DEF SpendsRetry
<1>2. ASSUME NEW j \in Job, SettleRow(j), Settleable(j) PROVE SpendsRetry(k)
  BY <1>2 DEF SettleRow, Settleable, SpendsRetry, TerminalStatus, TypeOK
<1>3. ASSUME NEW w \in Workers, WorkerWrites(w), ~Settle(w) PROVE SpendsRetry(k)
  <2>1. job[w] = NoJob \/ job[w] \in Job
    BY DEF TypeOK
  <2>2. status'[k] = "queued" => status'[k] = status[k]
    BY <1>3, <2>1, NoJobAssumption DEF WorkerWrites, Select, CommitAssign, Start, Handoff,
       CommitFailure, Update, TypeOK
  <2> QED
    BY <2>2 DEF SpendsRetry
<1>4. ASSUME NEW w \in Workers, Settle(w) PROVE SpendsRetry(k)
  <2>1. job[w] \in Job
    BY <1>4 DEF Settle, TypeOK, AtLoop
  <2>2. UNCHANGED status \/ (SettleRow(job[w]) /\ Settleable(job[w]))
    BY <1>4 DEF Settle
  <2> QED
    BY <1>2, <2>1, <2>2 DEF SpendsRetry
<1>5. ASSUME NEW b \in Backends, SweepSettleRow(b) PROVE SpendsRetry(k)
  <2>1. sweepSettle[b] \in Job
    BY <1>5 DEF SweepSettleRow, TypeOK
  <2>2. UNCHANGED status \/ (SettleRow(sweepSettle[b]) /\ Settleable(sweepSettle[b]))
    BY <1>5 DEF SweepSettleRow
  <2> QED
    BY <1>2, <2>1, <2>2 DEF SpendsRetry
<1>6. ASSUME NEW j \in Job, JobWrites(j) PROVE SpendsRetry(k)
  <2>1. CASE RetryCommit(j)
    <3>1. CASE k = j
      BY <2>1, <3>1 DEF RetryCommit, SpendsRetry, TypeOK
    <3>2. CASE k # j
      BY <2>1, <3>2 DEF RetryCommit, Update, SpendsRetry, TypeOK
    <3> QED
      BY <3>1, <3>2
  <2>2. CASE ~RetryCommit(j)
    <3>1. status'[k] = "queued" => status[k] \in {"none", "queued"}
      BY <1>6, <2>2 DEF JobWrites, Submit, DeleteCommit, CancelCommit, ClientCancelCommit,
         RetryRead, Ingest, Complete, Notify, TailFails, TailLost, Update, TypeOK
    <3> QED
      BY <3>1 DEF SpendsRetry
  <2> QED
    BY <2>1, <2>2
<1>7. CASE Restart
  BY <1>7 DEF Restart, SpendsRetry
<1> QED
  BY <1>1, <1>3, <1>4, <1>5, <1>6, <1>7, StepKinds

\* A job goes back to 'queued' only at the price of a retry, or at the user's
\* request.
THEOREM RequeueIsPaid == Spec => RequeueSpendsRetry
<1>1. TypeOK /\ [Next]_vars => [\A j \in Job : SpendsRetry(j)]_vars
  BY RequeueStep
<1> QED
  BY <1>1, TypeCorrect, PTL DEF Spec, RequeueSpendsRetry

-----------------------------------------------------------------------------
(* Completion.                                                             *)

\* A tail reaches its second transaction only through the first, and a result
\* is cleared only by queueing the row again.
LEMMA ResultStep == ResultInv /\ [Next]_vars => TailHasMedia' /\ CompletedHasResult'
<1> SUFFICES ASSUME ResultInv, [Next]_vars PROVE TailHasMedia' /\ CompletedHasResult'
  OBVIOUS
<1> USE DEF ResultInv, TypeOK, TailHasMedia, CompletedHasResult
<1>1. CASE QuietStep
  BY <1>1, QuietFrame
<1>2. ASSUME NEW w \in Workers, WorkerWrites(w) PROVE TailHasMedia' /\ CompletedHasResult'
  <2>1. UNCHANGED <<result, media>>
    BY <1>2 DEF WorkerWrites, Select, CommitAssign, Start, Handoff, CommitFailure, Settle
  <2>2. \A j \in Job : tails'[j]["settle"] = tails[j]["settle"]
    BY <1>2 DEF WorkerWrites, Select, CommitAssign, Start, Handoff, CommitFailure, Settle
  <2>3. \A j \in Job : status'[j] = "completed" => status[j] = "completed"
    BY <1>2 DEF WorkerWrites, Select, CommitAssign, Start, Handoff, CommitFailure, Settle,
       SettleRow, Update
  <2> QED
    BY <2>1, <2>2, <2>3
<1>3. ASSUME NEW j \in Job,
             \/ Submit(j) \/ DeleteCommit(j) \/ CancelCommit(j) \/ ClientCancelCommit(j)
             \/ RetryRead(j)
      PROVE  TailHasMedia' /\ CompletedHasResult'
  BY <1>3 DEF Submit, DeleteCommit, CancelCommit, ClientCancelCommit, RetryRead, Update
<1>4. ASSUME NEW j \in Job, RetryCommit(j) PROVE TailHasMedia' /\ CompletedHasResult'
  <2>1. UNCHANGED <<tails, media>>
    BY <1>4 DEF RetryCommit
  <2>2. \A k \in Job : k # j => status'[k] = status[k] /\ result'[k] = result[k]
    BY <1>4 DEF RetryCommit, Update
  <2>3. status'[j] \in {"queued", "deleted"}
    BY <1>4 DEF RetryCommit, Update
  <2> QED
    BY <2>1, <2>2, <2>3
<1>5. ASSUME NEW j \in Job, Ingest(j) PROVE TailHasMedia' /\ CompletedHasResult'
  <2>1. tails[j]["ingest"] > 0 /\ UNCHANGED status
    BY <1>5 DEF Ingest
  <2>2. CASE DropTail(j, "ingest") /\ UNCHANGED <<result, media>>
    BY <2>1, <2>2 DEF DropTail
  <2>3. CASE /\ MoveTail(j, "ingest", "settle")
             /\ result' = [result EXCEPT ![j] = TRUE]
             /\ media' = [media EXCEPT ![j] = TRUE]
    <3>1. \A k \in Job : k # j => tails'[k] = tails[k]
      BY <2>3 DEF MoveTail
    <3>2. /\ \A k \in Job : result'[k] = (k = j \/ result[k])
          /\ \A k \in Job : media'[k] = (k = j \/ media[k])
      BY <2>3
    <3> QED
      BY <2>1, <3>1, <3>2
  <2> QED
    BY <1>5, <2>2, <2>3 DEF Ingest
<1>6. ASSUME NEW j \in Job, Complete(j) PROVE TailHasMedia' /\ CompletedHasResult'
  <2>1. media[j] /\ UNCHANGED media
    BY <1>6 DEF Complete
  <2>2. \A k \in Job : tails'[k]["settle"] > 0 => tails[k]["settle"] > 0
    BY <1>6 DEF Complete, MoveTail
  <2>3. CASE status[j] = "deleted"
    BY <1>6, <2>1, <2>2, <2>3 DEF Complete, Update
  <2>4. CASE status[j] # "deleted"
    <3>1. \A k \in Job : k # j => status'[k] = status[k] /\ result'[k] = result[k]
      BY <1>6, <2>4 DEF Complete, Update
    <3>2. result'[j] = media[j]
      BY <1>6, <2>4 DEF Complete
    <3> QED
      BY <2>1, <2>2, <3>1, <3>2
  <2> QED
    BY <2>3, <2>4
<1>7. ASSUME NEW j \in Job, Notify(j) \/ TailFails(j) \/ TailLost(j)
      PROVE  TailHasMedia' /\ CompletedHasResult'
  <2>1. UNCHANGED <<result, media>>
    BY <1>7 DEF Notify, TailFails, TailLost
  <2>2. \A k \in Job : tails'[k]["settle"] > 0 => tails[k]["settle"] > 0
    <3>1. PICK s \in Stages : DropTail(j, s)
      BY <1>7 DEF Notify, TailFails, TailLost, Stages
    <3>2. \A k \in Job : k # j => tails'[k] = tails[k]
      BY <3>1 DEF DropTail
    <3>3. /\ tails[j] \in [Stages -> Nat]
          /\ tails' = [tails EXCEPT ![j] = [tails[j] EXCEPT ![s] = tails[j][s] - 1]]
      BY <3>1 DEF DropTail
    <3>4. tails'[j]["settle"] \in {tails[j]["settle"], tails[j]["settle"] - 1}
      BY <3>3 DEF Stages
    <3>5. tails[j]["settle"] \in Nat
      BY <3>3 DEF Stages
    <3> QED
      BY <3>2, <3>4, <3>5
  <2>3. \A k \in Job : status'[k] = "completed" => status[k] = "completed"
    BY <1>7 DEF Notify, TailFails, TailLost, Update
  <2> QED
    BY <2>1, <2>2, <2>3
<1>8. ASSUME NEW b \in Backends, SweepSettleRow(b) PROVE TailHasMedia' /\ CompletedHasResult'
  BY <1>8 DEF SweepSettleRow, SettleRow
<1>9. CASE Restart
  BY <1>9 DEF Restart
<1> QED
  BY <1>1, <1>2, <1>3, <1>4, <1>5, <1>6, <1>7, <1>8, <1>9, StepKinds DEF JobWrites

\* A completed row has its media committed, also across crashes between the
\* two transactions, requeued tails, retries and deleted rows.
THEOREM CompletionHasMedia == Spec => []CompletedHasResult
<1>1. Init => ResultInv
  <2>1. Init => TailHasMedia /\ CompletedHasResult
    BY DEF Init, TailHasMedia, CompletedHasResult
  <2> QED
    BY InitType, <2>1 DEF ResultInv
<1>2. ResultInv /\ [Next]_vars => ResultInv'
  BY TypeStep, ResultStep DEF ResultInv
<1>3. ResultInv => CompletedHasResult
  BY DEF ResultInv
<1> QED
  BY <1>1, <1>2, <1>3, PTL DEF Spec

=============================================================================
