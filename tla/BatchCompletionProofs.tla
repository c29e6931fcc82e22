------------------------ MODULE BatchCompletionProofs ------------------------
(***************************************************************************)
(* Proofs about BatchCompletion: what the set files list while handlers    *)
(* overlap, what the Asset shows when they do not, and when a batch is     *)
(* announced, from one inductive invariant (IInv).                         *)
(***************************************************************************)
EXTENDS BatchCompletion, FiniteSetTheorems, SequenceTheorems, TLAPS

-----------------------------------------------------------------------------
(* The order of a batch's input.                                           *)

\* No two of the outputs are of one job.
OnePerJob(outputs) == \A x, y \in outputs : x[1] = y[1] => x = y

\* How many of the outputs come before x.
Rank(outputs, x) == Cardinality({y \in outputs : y[1] < x[1]})

\* The output of a later job has a higher rank.
LEMMA RankGrows ==
    ASSUME NEW S, IsFiniteSet(S), \A x \in S : x[1] \in Int,
           NEW x \in S, NEW y \in S, x[1] < y[1]
    PROVE  Rank(S, x) < Rank(S, y)
<1> DEFINE B(z) == {w \in S : w[1] < z[1]}
<1>1. B(x) \in SUBSET B(y) /\ IsFiniteSet(B(y))
  <2>1. B(y) \in SUBSET S
    OBVIOUS
  <2>2. QED
    BY <2>1, FS_Subset
<1>2. x \in B(y) /\ x \notin B(x)
  OBVIOUS
<1>3. /\ IsFiniteSet(B(x)) /\ Cardinality(B(x)) <= Cardinality(B(y))
      /\ Cardinality(B(x)) # Cardinality(B(y))
  BY <1>1, <1>2, FS_Subset
<1>4. Cardinality(B(x)) \in Nat /\ Cardinality(B(y)) \in Nat
  BY <1>1, <1>3, FS_CardinalityType
<1> QED
  BY <1>3, <1>4 DEF Rank

\* Outputs of different jobs have an order: every rank below their number is
\* taken.
LEMMA OrderExists ==
    ASSUME NEW S, IsFiniteSet(S), \A x \in S : x[1] \in Int, OnePerJob(S)
    PROVE  \E s \in [1..Cardinality(S) -> S] :
               \A i, k \in 1..Cardinality(S) : i < k => s[i][1] < s[k][1]
<1> DEFINE n == Cardinality(S)
           place == [x \in S |-> Rank(S, x) + 1]
<1>1. n \in Nat
  BY FS_CardinalityType
<1>2. ASSUME NEW x \in S PROVE Rank(S, x) \in Nat /\ Rank(S, x) < n
  <2> DEFINE B == {y \in S : y[1] < x[1]}
  <2>1. B \in SUBSET S /\ x \notin B
    OBVIOUS
  <2>2. IsFiniteSet(B) /\ Cardinality(B) <= n /\ Cardinality(B) # n
    BY <2>1, FS_Subset
  <2>3. Cardinality(B) \in Nat
    BY <2>2, FS_CardinalityType
  <2> QED
    BY <2>2, <2>3, <1>1 DEF Rank
<1>3. place \in [S -> 1..n]
  BY <1>1, <1>2
<1>4. ASSUME NEW x \in S, NEW y \in S, place[x] = place[y] PROVE x = y
  <2>1. Rank(S, x) = Rank(S, y)
    BY <1>2, <1>4
  <2>2. ~(x[1] < y[1]) /\ ~(y[1] < x[1])
    BY <2>1, <1>2, RankGrows
  <2>3. x[1] = y[1]
    BY <2>2
  <2> QED
    BY <2>3 DEF OnePerJob
<1>5. place \in Injection(S, 1..n)
  BY <1>3, <1>4 DEF Injection, IsInjective
<1>6. place \in Surjection(S, 1..n)
  <2>1. IsFiniteSet(1..n) /\ Cardinality(1..n) = n
    BY <1>1, FS_Interval
  <2> HIDE DEF place, n
  <2> QED
    BY <1>5, <2>1, FS_Injection DEF n
<1>7. \A i \in 1..n : \E x \in S : place[x] = i
  BY <1>6 DEF Surjection
<1> DEFINE s == [i \in 1..n |-> CHOOSE x \in S : place[x] = i]
<1>8. \A i \in 1..n : s[i] \in S /\ place[s[i]] = i
  BY <1>7
<1>9. \A x \in S : Rank(S, x) = place[x] - 1
  BY <1>2
<1>10. s \in [1..n -> S]
  BY <1>8
<1> HIDE DEF s, place
<1>11. ASSUME NEW i \in 1..n, NEW k \in 1..n, i < k PROVE s[i][1] < s[k][1]
  <2>1. Rank(S, s[i]) = i - 1 /\ Rank(S, s[k]) = k - 1
    BY <1>8, <1>9
  <2>2. ~(s[k][1] < s[i][1])
    BY <2>1, <1>8, <1>11, <1>1, RankGrows
  <2>3. s[k][1] # s[i][1]
    BY <2>1, <1>8, <1>11 DEF OnePerJob
  <2> QED
    BY <2>2, <2>3, <1>8
<1> QED
  BY <1>10, <1>11

\* InputOrder lists outputs of different jobs, each once.
LEMMA InputOrderLists ==
    ASSUME NEW S, IsFiniteSet(S), \A x \in S : x[1] \in Int, OnePerJob(S)
    PROVE  /\ InputOrder(S) \in Seq(S)
           /\ Len(InputOrder(S)) = Cardinality(S)
           /\ IsInjective(InputOrder(S))
           /\ ToSet(InputOrder(S)) = S
<1> DEFINE n == Cardinality(S)
           s == InputOrder(S)
<1>1. n \in Nat
  BY FS_CardinalityType
<1>2. s \in [1..n -> S] /\ \A i, k \in 1..n : i < k => s[i][1] < s[k][1]
  BY OrderExists DEF InputOrder
<1> HIDE DEF s
<1>3. s \in Seq(S) /\ Len(s) = n /\ DOMAIN s = 1..n
  BY <1>1, <1>2, IsASeq
<1>4. IsInjective(s)
  <2>1. ASSUME NEW a \in 1..n, NEW b \in 1..n, s[a] = s[b] PROVE a = b
    <3>1. ~(a < b) /\ ~(b < a)
      BY <1>2, <2>1
    <3> QED
      BY <3>1, <1>1
  <2> QED
    BY <1>3, <2>1 DEF IsInjective
<1>5. s \in Surjection(1..n, S)
  <2>1. s \in Injection(1..n, S)
    BY <1>2, <1>4 DEF Injection
  <2>2. Cardinality(1..n) = n
    BY <1>1, FS_Interval
  <2> QED
    BY <2>1, <2>2, FS_Injection
<1>6. ToSet(s) = S
  BY <1>2, <1>3, <1>5 DEF ToSet, Surjection
<1> QED
  BY <1>3, <1>4, <1>6 DEF s

-----------------------------------------------------------------------------
(* The inductive invariant.                                                *)

HandlerRecord ==
    [pc : Steps, item : BOOLEAN, completed : SUBSET Output, whole : BOOLEAN,
     set : Nat, seen : [set : Nat, members : Seq(Output)]]

\* The variables and their shape; a handler works on a file that exists.
Typed ==
    /\ scenario \in Scenarios
    /\ status \in [Jobs -> Status]
    /\ attempt \in [Jobs -> 0..MaxRetries]
    /\ sets \in Seq(Seq(Output))
    /\ pointer \in 0..Len(sets)
    /\ asset \in [set : 0..Len(sets), members : Seq(Output)]
    /\ handler \in [Jobs -> HandlerRecord]
    /\ announced \in BOOLEAN
    /\ restarts \in 0..MaxRestarts /\ retries \in 0..MaxRetries
    /\ \A j \in Jobs :
          /\ attempt[j] <= retries
          /\ handler[j].set <= Len(sets)
          /\ handler[j].pc \in {"store", "append", "reorder", "look", "commit"}
                => handler[j].set >= 1

\* The jobs of the batch are submitted in its order.
SubmittedInOrder ==
    \A i, j \in Jobs : i < j /\ status[i] = "none" => status[j] = "none"

\* A handler that has an output to add is that of a completed job; past its
\* reading, one that goes on to the Asset has found the batch whole.  What a
\* reading found completed is one output per job.
HandlersSound ==
    \A j \in Jobs :
        /\ handler[j].item => status[j] = "completed"
        /\ handler[j].pc \in {"create", "append", "store"} => handler[j].item
        /\ handler[j].pc \in {"reorder", "look", "commit", "announce"} => handler[j].whole
        /\ OnePerJob(handler[j].completed)

\* Once a handler has found the batch whole, every job is settled, deleted or
\* was retried.
WholeIsSettled ==
    \A h \in Jobs : handler[h].whole =>
        \A j \in Jobs : status[j] \in Settled \cup {"gone"} \/ attempt[j] > 0

ListedIn(files, x) == \E s \in DOMAIN files : \E i \in DOMAIN files[s] : files[s][i] = x
Listed(x) == ListedIn(sets, x)

Once(files) ==
    \A s, t \in DOMAIN files : \A i \in DOMAIN files[s], k \in DOMAIN files[t] :
        files[s][i] = files[t][k] => s = t /\ i = k

\* The files list no output of an attempt still to be made, and none that a
\* handler is about to add.
Early == {"none", "queued", "processing"}
Adding == {"read", "create", "append"}

NothingEarly ==
    /\ \A x \in Output : Listed(x) => x[2] <= attempt[x[1]]
    /\ \A j \in Jobs :
          (status[j] \in Early \/ (handler[j].pc \in Adding /\ handler[j].item))
              => ~Listed(<<j, attempt[j]>>)

\* An output has one place in one file.
ListedOnce == Once(sets)

\* The output of a completed job is listed, or its handler is to add it.
CompletedListed ==
    \A j \in Jobs :
        (status[j] = "completed" /\ restarts = 0 /\ status[1] # "gone") =>
            IF handler[j].pc \in Adding THEN handler[j].item
            ELSE Listed(<<j, attempt[j]>>)

\* Handlers follow each other, and no row was deleted, retried or lost.
Undisturbed ==
    /\ ~scenario.overlap
    /\ restarts = 0 /\ retries = 0
    /\ \A j \in Jobs : status[j] # "gone"

Busy(j) == handler[j].pc \notin {"idle", "read"}

\* The files are in the order of the input.
Ordered(files) == \A s \in DOMAIN files : files[s] = InputOrder(ToSet(files[s]))
InOrder == Ordered(sets)

\* Undisturbed, one handler at a time works on one file.
OneAtATime ==
    /\ \A i, j \in Jobs : Busy(i) /\ Busy(j) => i = j
    /\ Len(sets) <= 1
    /\ \A j \in Jobs : handler[j].pc = "create" => Len(sets) = 0
    /\ pointer = IF \E j \in Jobs : handler[j].pc = "store" THEN 0 ELSE Len(sets)

\* What is listed is completed; what a handler found completed, when the batch
\* was whole, still is, and the Asset, once there is one, holds it.
AssetSound ==
    /\ \A x : Listed(x) => x \in Completed
    /\ \A j \in Jobs : Busy(j) /\ handler[j].whole => handler[j].completed = Completed
    /\ asset # NoAsset =>
          /\ \A j \in Jobs : status[j] \in Settled
          /\ \A j \in Jobs : Busy(j) => handler[j].whole
          /\ asset = [set |-> 1, members |-> InputOrder(Completed)]
    /\ \A j \in Jobs : handler[j].pc = "commit" => handler[j].seen = asset
    /\ (\/ asset # NoAsset /\ \A j \in Jobs : ~Busy(j)
        \/ \E j \in Jobs : handler[j].pc \in {"look", "commit", "announce"}) => InOrder

IInv ==
    /\ Typed
    /\ SubmittedInOrder
    /\ HandlersSound
    /\ WholeIsSettled
    /\ NothingEarly
    /\ ListedOnce
    /\ CompletedListed
    /\ Undisturbed => OneAtATime /\ AssetSound

-----------------------------------------------------------------------------
(* Facts about files and readings.                                         *)

LEMMA OutputsFinite == IsFiniteSet(Output)
<1>1. IsFiniteSet(Jobs) /\ IsFiniteSet(0..MaxRetries)
  BY BatchAssumption, FS_Interval DEF Jobs
<1> QED
  BY <1>1, FS_Product DEF Output

\* An order of outputs, as a file that may be written.
LEMMA OrderIsFile ==
    ASSUME NEW S \in SUBSET Output, OnePerJob(S)
    PROVE  /\ IsFiniteSet(S)
           /\ InputOrder(S) \in Seq(Output)
           /\ Len(InputOrder(S)) = Cardinality(S)
           /\ IsInjective(InputOrder(S))
           /\ ToSet(InputOrder(S)) = S
<1>1. IsFiniteSet(S)
  BY OutputsFinite, FS_Subset
<1>2. \A x \in S : x[1] \in Int
  BY BatchAssumption DEF Output, Jobs
<1>3. InputOrder(S) \in Seq(S)
  BY <1>1, <1>2, InputOrderLists
<1>4. InputOrder(S) \in Seq(Output)
  BY <1>3, SeqMonotonic
<1> QED
  BY <1>1, <1>2, <1>4, InputOrderLists

\* A file that lists outputs once has as many items as outputs.
LEMMA FileLength ==
    ASSUME NEW q \in Seq(Output), IsInjective(q)
    PROVE  IsFiniteSet(ToSet(q)) /\ Cardinality(ToSet(q)) = Len(q)
<1>1. Len(q) \in Nat /\ DOMAIN q = 1..Len(q) /\ q \in [1..Len(q) -> ToSet(q)]
  BY DEF ToSet
<1>2. IsFiniteSet(1..Len(q)) /\ Cardinality(1..Len(q)) = Len(q)
  BY <1>1, FS_Interval
<1>3. q \in Surjection(1..Len(q), ToSet(q)) /\ q \in Injection(1..Len(q), ToSet(q))
  BY <1>1 DEF Surjection, Injection, ToSet
<1> QED
  BY <1>2, <1>3, FS_Surjection

\* What is read as completed is one output per job.
LEMMA CompletedOnePerJob ==
    ASSUME Typed
    PROVE  Completed \in SUBSET Output /\ OnePerJob(Completed)
<1>1. \A j \in Jobs : attempt[j] \in 0..MaxRetries
  BY DEF Typed
<1>2. \A x \in Completed : \E j \in Jobs : x = <<j, attempt[j]>>
  BY DEF Completed
<1>3. Completed \in SUBSET Output
  BY <1>1, <1>2 DEF Output
<1>4. \A x, y \in Completed : x[1] = y[1] => x = y
  BY <1>2
<1> QED
  BY <1>3, <1>4 DEF OnePerJob

\* A batch is found whole when, and only when, all its jobs have settled.
LEMMA WholeMeansAll == Whole <=> \A j \in Jobs : status[j] \in Settled
<1> DEFINE S == {j \in Jobs : status[j] \in Settled}
<1>1. IsFiniteSet(Jobs) /\ Cardinality(Jobs) = Total /\ Total \in Nat
  BY BatchAssumption, FS_Interval DEF Jobs
<1>2. /\ S \in SUBSET Jobs /\ Cardinality(S) <= Total
      /\ IsFiniteSet(S)
      /\ Cardinality(S) = Total => S = Jobs
  BY <1>1, FS_Subset
<1>3. Cardinality(S) \in Nat
  BY <1>2, FS_CardinalityType
<1>4. S = Jobs <=> Cardinality(S) >= Total
  BY <1>1, <1>2, <1>3
<1> QED
  BY <1>4 DEF Whole

\* Where a handler goes once its output is in the set.
LEMMA AfterItemSteps ==
    ASSUME NEW h, NEW s
    PROVE  /\ AfterItem(h, s) \in {"idle", "announce", "reorder", "look"}
           /\ AfterItem(h, s) # "idle" <=> h.whole
           /\ AfterItem(h, s) \in {"reorder", "look"} => s # 0
           /\ AfterItem(h, s) = "look" => ~(Cardinality(h.completed) > 1)
           /\ AfterItem(h, s) = "announce" => s = 0 \/ h.completed = {}
BY DEF AfterItem

-----------------------------------------------------------------------------
(* Every step keeps the shape of the variables.                            *)

LEMMA TypedInit == Init => Typed
<1> SUFFICES ASSUME Init PROVE Typed
  OBVIOUS
<1> USE BatchAssumption
<1>1. sets = <<>> /\ sets \in Seq(Seq(Output)) /\ Len(sets) = 0
  BY DEF Init
<1>2. NoAsset \in [set : 0..Len(sets), members : Seq(Output)]
  BY <1>1 DEF NoAsset
<1>3. Idle \in HandlerRecord
  BY <1>2 DEF Idle, HandlerRecord, Steps, NoAsset
<1>4. handler \in [Jobs -> HandlerRecord] /\ \A j \in Jobs : handler[j] = Idle
  BY <1>3 DEF Init
<1>5. asset \in [set : 0..Len(sets), members : Seq(Output)] /\ pointer \in 0..Len(sets)
  BY <1>1, <1>2 DEF Init
<1>6. /\ scenario \in Scenarios
      /\ status \in [Jobs -> Status] /\ attempt \in [Jobs -> 0..MaxRetries]
      /\ restarts \in 0..MaxRestarts /\ retries \in 0..MaxRetries
  BY DEF Init, Status
<1>7. \A j \in Jobs : handler[j].set <= Len(sets) /\ handler[j].pc = "idle" /\ attempt[j] <= retries
  BY <1>1, <1>4 DEF Init, Idle
<1>8. announced \in BOOLEAN
  BY Zenon DEF Init
<1> QED
  BY <1>1, <1>4, <1>5, <1>6, <1>7, <1>8 DEF Typed

\* A handler that starts is well formed.
LEMMA StartsTyped ==
    ASSUME Typed, NEW j \in Jobs, NEW item \in BOOLEAN, Starts(j, item)
    PROVE  /\ handler' \in [Jobs -> HandlerRecord]
           /\ \A i \in Jobs : handler'[i] = IF i = j THEN [Idle EXCEPT !.pc = "read", !.item = item]
                                            ELSE handler[i]
           /\ \A i \in Jobs :
                 /\ handler'[i].set <= Len(sets)
                 /\ handler'[i].pc \in {"store", "append", "reorder", "look", "commit"}
                       => handler'[i].set >= 1
<1>1. NoAsset \in [set : Nat, members : Seq(Output)]
  BY DEF NoAsset
<1>2. [Idle EXCEPT !.pc = "read", !.item = item] \in HandlerRecord
  BY <1>1 DEF Idle, HandlerRecord, Steps
<1> QED
  BY <1>2 DEF Starts, Typed, Idle

\* The steps that write no file and start or move no handler.
JobSteps(j) ==
    \/ Submit(j) \/ SubmissionFails(j) \/ Run(j) \/ PostprocessingFails(j)
    \/ Delete(j) \/ Retry(j)

LEMMA TypedStep == Typed /\ HandlersSound /\ [Next]_<<scenario, vars>> => Typed'
<1> SUFFICES ASSUME Typed, HandlersSound, [Next]_<<scenario, vars>> PROVE Typed'
  OBVIOUS
<1> USE BatchAssumption
<1>1. CASE UNCHANGED <<scenario, vars>>
  BY <1>1 DEF Typed, vars
<1>2. ASSUME NEW j \in Jobs, JobSteps(j), UNCHANGED scenario PROVE Typed'
  <2>1. /\ UNCHANGED <<scenario, handler, pointer, sets, asset, announced, restarts>>
        /\ retries' = retries \/ retries' = retries + 1
    BY <1>2 DEF JobSteps, Submit, SubmissionFails, Run, PostprocessingFails,
                Delete, Retry, batchVars
  <2>2. status' \in [Jobs -> Status]
    BY <1>2 DEF JobSteps, Submit, SubmissionFails, Run, PostprocessingFails,
                Delete, Retry, Typed, Status, Settled
  <2>3. \/ UNCHANGED <<attempt, retries>>
        \/ /\ retries < MaxRetries /\ retries' = retries + 1
           /\ attempt' = [attempt EXCEPT ![j] = @ + 1]
    BY <1>2 DEF JobSteps, Submit, SubmissionFails, Run, PostprocessingFails,
                Delete, Retry
  <2>4. /\ attempt' \in [Jobs -> 0..MaxRetries] /\ retries' \in 0..MaxRetries
        /\ \A i \in Jobs : attempt'[i] <= retries'
    <3>1. CASE UNCHANGED <<attempt, retries>>
      BY <3>1 DEF Typed
    <3>2. CASE /\ retries < MaxRetries /\ retries' = retries + 1
               /\ attempt' = [attempt EXCEPT ![j] = @ + 1]
      <4>1. \A i \in Jobs : attempt[i] \in 0..MaxRetries /\ attempt[i] <= retries
        BY DEF Typed
      <4>2. retries \in 0..MaxRetries /\ attempt \in [Jobs -> 0..MaxRetries]
        BY DEF Typed
      <4> QED
        BY <3>2, <4>1, <4>2
    <3> QED
      BY <2>3, <3>1, <3>2
  <2> QED
    BY <2>1, <2>2, <2>4 DEF Typed
<1>3. ASSUME NEW j \in Jobs, Complete(j) \/ Fail(j) \/ Cancel(j), UNCHANGED scenario PROVE Typed'
  <2>1. \E item \in BOOLEAN : Starts(j, item)
    BY <1>3, Zenon DEF Complete, Fail, Cancel
  <2>2. /\ handler' \in [Jobs -> HandlerRecord]
        /\ \A i \in Jobs :
              /\ handler'[i].set <= Len(sets)
              /\ handler'[i].pc \in {"store", "append", "reorder", "look", "commit"}
                    => handler'[i].set >= 1
    BY <2>1, StartsTyped
  <2>3. status' \in [Jobs -> Status]
    BY <1>3 DEF Complete, Fail, Cancel, Typed, Status, Settled
  <2> QED
    BY <1>3, <2>2, <2>3 DEF Complete, Fail, Cancel, batchVars, Typed
<1>4. CASE Depart /\ UNCHANGED scenario
  BY <1>4 DEF Depart, batchVars, Typed, Status, Settled
<1>5. CASE Restart /\ UNCHANGED scenario
  <2>1. NoAsset \in [set : Nat, members : Seq(Output)]
    BY DEF NoAsset
  <2>2. Idle \in HandlerRecord /\ [Idle EXCEPT !.pc = "read"] \in HandlerRecord
    BY <2>1 DEF Idle, HandlerRecord, Steps
  <2>3. handler' \in [Jobs -> HandlerRecord]
    BY <1>5, <2>2 DEF Restart
  <2>4. \A j \in Jobs : handler'[j].set = 0 /\ handler'[j].pc \in {"idle", "read"}
    BY <1>5 DEF Restart, Idle
  <2>5. status' \in [Jobs -> Status] /\ restarts' \in 0..MaxRestarts
    BY <1>5 DEF Restart, Typed, Status, Settled
  <2>6. UNCHANGED <<scenario, attempt, pointer, sets, asset, announced, retries>>
    BY <1>5 DEF Restart, batchVars
  <2>7. \A j \in Jobs :
           /\ attempt'[j] <= retries'
           /\ handler'[j].set <= Len(sets')
           /\ handler'[j].pc \in {"store", "append", "reorder", "look", "commit"}
                 => handler'[j].set >= 1
    <3>1. Len(sets) \in Nat /\ \A j \in Jobs : attempt[j] <= retries
      BY DEF Typed
    <3>2. sets' = sets /\ attempt' = attempt /\ retries' = retries
      BY <2>6
    <3> QED
      BY <2>4, <3>1, <3>2
  <2> QED
    BY <2>3, <2>5, <2>6, <2>7 DEF Typed
<1>6. ASSUME NEW j \in Jobs, HandlerStep(j), UNCHANGED scenario PROVE Typed'
  <2> DEFINE Fine(h, files) ==
        /\ h \in HandlerRecord
        /\ h.set <= Len(files)
        /\ h.pc \in {"store", "append", "reorder", "look", "commit"} => h.set >= 1
  <2>1. Len(sets) \in Nat /\ handler[j] \in HandlerRecord /\ Fine(handler[j], sets)
    BY DEF Typed
  <2>2. UNCHANGED <<scenario, attempt, restarts, retries>>
    BY <1>6 DEF HandlerStep, Read, CreateSet, StorePointer, AppendToSet, Reorder,
                Look, Commit, Announce, jobVars
  <2>3. sets' \in Seq(Seq(Output)) /\ Len(sets') >= Len(sets)
    <3>1. CASE CreateSet(j)
      <4>1. <<<<j, attempt[j]>>>> \in Seq(Output)
        BY DEF Typed, Output
      <4> QED
        BY <3>1, <4>1, AppendProperties DEF CreateSet, Typed
    <3>2. CASE AppendToSet(j)
      <4> DEFINE s == handler[j].set
      <4>1. s \in 1..Len(sets) /\ sets[s] \in Seq(Output)
        BY <3>2, <2>1 DEF AppendToSet, Typed, HandlerRecord
      <4>2. Append(sets[s], <<j, attempt[j]>>) \in Seq(Output)
        BY <4>1 DEF Typed, Output
      <4> QED
        BY <3>2, <4>1, <4>2, ExceptSeq DEF AppendToSet, Typed
    <3>3. CASE Reorder(j)
      <4> DEFINE s == handler[j].set
                 S == handler[j].completed \cap ToSet(sets[s])
      <4>1. S \in SUBSET Output /\ OnePerJob(S)
        BY DEF Typed, HandlerRecord, HandlersSound, OnePerJob
      <4>2. InputOrder(S) \in Seq(Output)
        BY <4>1, OrderIsFile
      <4>3. s \in 1..Len(sets)
        BY <3>3, <2>1 DEF Reorder, Typed, HandlerRecord
      <4>4. sets' = sets \/ sets' = [sets EXCEPT ![s] = InputOrder(S)]
        BY <3>3 DEF Reorder
      <4> DEFINE new == [sets EXCEPT ![s] = InputOrder(S)]
      <4>5. sets \in Seq(Seq(Output))
        BY DEF Typed
      <4>6. new \in Seq(Seq(Output)) /\ Len(new) = Len(sets)
        BY <4>2, <4>3, <4>5, ExceptSeq
      <4> HIDE DEF new
      <4>7. sets' = sets \/ sets' = new
        BY <4>4 DEF new
      <4> QED
        BY <4>5, <4>6, <4>7, <2>1
    <3>4. CASE Read(j) \/ StorePointer(j) \/ Look(j) \/ Commit(j) \/ Announce(j)
      BY <3>4 DEF Read, StorePointer, Look, Commit, Announce, batchVars, Typed
    <3> QED
      BY <1>6, <3>1, <3>2, <3>3, <3>4 DEF HandlerStep
  <2>4. status' \in [Jobs -> Status]
    BY <1>6 DEF HandlerStep, Read, CreateSet, StorePointer, AppendToSet, Reorder,
                Look, Commit, Announce, Typed, Status, Settled
  <2>5. announced' \in BOOLEAN
    <3>1. announced' = announced \/ announced' = TRUE
      BY <1>6, Zenon DEF HandlerStep, Read, CreateSet, StorePointer, AppendToSet, Reorder,
                  Look, Commit, Announce, batchVars
    <3> QED
      BY <3>1, Zenon DEF Typed
  <2>6. \E h : handler' = [handler EXCEPT ![j] = h] /\ Fine(h, sets')
    <3>1. ASSUME NEW pc \in Steps, Goto(j, pc), handler[j].set >= 1 \/ pc \in {"idle", "announce"}
          PROVE  handler' = [handler EXCEPT ![j] = [handler[j] EXCEPT !.pc = pc]]
                 /\ Fine([handler[j] EXCEPT !.pc = pc], sets')
      <4> DEFINE h == [handler[j] EXCEPT !.pc = pc]
      <4>1. handler' = [handler EXCEPT ![j] = h]
        BY <3>1 DEF Goto, Typed
      <4>2. h \in HandlerRecord /\ h.pc = pc /\ h.set = handler[j].set /\ h.set \in Nat
        BY <3>1, <2>1 DEF HandlerRecord
      <4>3. h.set <= Len(sets')
        BY <4>2, <2>1, <2>3
      <4>4. h.pc \in {"store", "append", "reorder", "look", "commit"} => h.set >= 1
        BY <4>2, <3>1
      <4> QED
        BY <4>1, <4>2, <4>3, <4>4
    <3>2. Idle \in HandlerRecord /\ Fine(Idle, sets')
      <4>1. NoAsset \in [set : Nat, members : Seq(Output)]
        BY DEF NoAsset
      <4> QED
        BY <4>1, <2>1, <2>3 DEF Idle, HandlerRecord, Steps
    <3>3. AfterItem(handler[j], handler[j].set) \in Steps
      BY AfterItemSteps DEF Steps
    <3>4. CASE Read(j)
      <4> DEFINE h == [handler[j] EXCEPT !.completed = Completed, !.whole = Whole, !.set = pointer]
                 pc == IF ~h.item THEN AfterItem(h, h.set)
                       ELSE IF h.set = 0 THEN "create" ELSE "append"
      <4>1. /\ Completed \in SUBSET Output /\ pointer \in Nat /\ pointer <= Len(sets)
            /\ Whole \in BOOLEAN
        BY CompletedOnePerJob DEF Typed, Whole
      <4>2. h \in HandlerRecord /\ h.set = pointer
        BY <4>1, <2>1 DEF HandlerRecord
      <4>3. pc \in Steps /\ (pc \in {"store", "append", "reorder", "look", "commit"} => pointer # 0)
        BY <4>2, AfterItemSteps DEF Steps
      <4> HIDE DEF h, pc
      <4>4. /\ [h EXCEPT !.pc = pc] \in HandlerRecord
            /\ [h EXCEPT !.pc = pc].pc = pc /\ [h EXCEPT !.pc = pc].set = pointer
        BY <4>2, <4>3 DEF HandlerRecord
      <4>5. sets' = sets
        BY <3>4 DEF Read, batchVars
      <4>6. Fine([h EXCEPT !.pc = pc], sets')
        BY <4>1, <4>3, <4>4, <4>5
      <4>7. handler' = [handler EXCEPT ![j] = IF status[1] = "gone" THEN Idle ELSE [h EXCEPT !.pc = pc]]
        BY <3>4 DEF Read, h, pc
      <4> QED
        BY <3>2, <4>6, <4>7
    <3>5. CASE CreateSet(j)
      <4> DEFINE h == [handler[j] EXCEPT !.set = Len(sets) + 1, !.pc = "store"]
      <4>1. Len(sets') = Len(sets) + 1
        BY <3>5, AppendProperties DEF CreateSet, Typed
      <4>2. Fine(h, sets')
        <5> DEFINE g == [handler[j] EXCEPT !.set = Len(sets) + 1]
        <5>1. g \in HandlerRecord /\ g.set = Len(sets) + 1
          BY <2>1 DEF HandlerRecord
        <5>2. h = [g EXCEPT !.pc = "store"]
          OBVIOUS
        <5>3. h \in HandlerRecord /\ h.set = Len(sets) + 1
          <6> HIDE DEF g, h
          <6> QED
            BY <5>1, <5>2 DEF HandlerRecord, Steps
        <5> QED
          BY <5>3, <4>1, <2>1
      <4>3. handler' = [handler EXCEPT ![j] = h]
        BY <3>5 DEF CreateSet, Typed
      <4> QED
        BY <4>2, <4>3
    <3>6. CASE StorePointer(j)
      BY <3>6, <3>1, <3>3, <2>1 DEF StorePointer
    <3>7. CASE AppendToSet(j)
      BY <3>7, <3>1, <3>3, <2>1 DEF AppendToSet
    <3>8. CASE Reorder(j)
      BY <3>8, <3>1, <2>1 DEF Reorder, Steps
    <3>9. CASE Look(j)
      <4> DEFINE h == [handler[j] EXCEPT !.seen = asset, !.pc = "commit"]
      <4>1. asset \in [set : Nat, members : Seq(Output)]
        BY DEF Typed
      <4>2. h \in HandlerRecord /\ h.set = handler[j].set
        BY <4>1, <2>1 DEF HandlerRecord, Steps
      <4>3. Fine(h, sets') /\ handler' = [handler EXCEPT ![j] = h]
        BY <3>9, <4>2, <2>1 DEF Look, batchVars, Typed
      <4> QED
        BY <4>3
    <3>10. CASE Commit(j)
      BY <3>10, <3>1, <3>2, <2>1 DEF Commit, Steps
    <3>11. CASE Announce(j)
      BY <3>11, <3>2 DEF Announce
    <3> QED
      BY <1>6, <3>4, <3>5, <3>6, <3>7, <3>8, <3>9, <3>10, <3>11 DEF HandlerStep
  <2>7. pointer' \in 0..Len(sets')
    <3>1. CASE StorePointer(j)
      BY <3>1, <2>1 DEF StorePointer, HandlerRecord, Typed
    <3>2. CASE pointer' = pointer
      BY <3>2, <2>1, <2>3 DEF Typed
    <3> QED
      BY <1>6, <3>1, <3>2 DEF HandlerStep, Read, CreateSet, AppendToSet, Reorder, Look,
                              Commit, Announce, batchVars
  <2>8. asset' \in [set : 0..Len(sets'), members : Seq(Output)]
    <3>1. CASE Commit(j)
      <4> DEFINE new == [set |-> handler[j].set, members |-> InputOrder(handler[j].completed)]
      <4>1. handler[j].completed \in SUBSET Output /\ OnePerJob(handler[j].completed)
        BY DEF Typed, HandlerRecord, HandlersSound
      <4>2. InputOrder(handler[j].completed) \in Seq(Output)
        BY <4>1, OrderIsFile
      <4>3. handler[j].set \in 0..Len(sets')
        BY <2>1, <2>3 DEF HandlerRecord
      <4>4. new \in [set : 0..Len(sets'), members : Seq(Output)]
        BY <4>2, <4>3
      <4>5. asset' = asset \/ asset' = new
        BY <3>1 DEF Commit
      <4>6. sets' = sets
        BY <3>1 DEF Commit
      <4> HIDE DEF new
      <4> QED
        BY <4>4, <4>5, <4>6 DEF Typed
    <3>2. CASE asset' = asset
      <4>1. asset.set \in 0..Len(sets') /\ asset \in [set : 0..Len(sets), members : Seq(Output)]
        BY <2>1, <2>3 DEF Typed
      <4> QED
        BY <3>2, <4>1, <2>3
    <3> QED
      BY <1>6, <3>1, <3>2 DEF HandlerStep, Read, CreateSet, StorePointer, AppendToSet, Reorder,
                              Look, Announce, batchVars
  <2>9. PICK h : handler' = [handler EXCEPT ![j] = h] /\ Fine(h, sets')
    BY <2>6
  <2>10. \A i \in Jobs :
            /\ handler[i] \in HandlerRecord /\ attempt[i] <= retries
            /\ Fine(handler[i], sets)
    BY DEF Typed
  <2>11. handler' \in [Jobs -> HandlerRecord] /\ \A i \in Jobs : Fine(handler'[i], sets')
    <3>1. handler' \in [Jobs -> HandlerRecord]
      BY <2>9 DEF Typed
    <3>2. \A i \in Jobs : handler'[i] = IF i = j THEN h ELSE handler[i]
      BY <2>9 DEF Typed
    <3>3. \A i \in Jobs : handler[i].set \in Nat
      BY <2>10 DEF HandlerRecord
    <3>4. Len(sets') \in Nat
      BY <2>3
    <3> QED
      BY <3>1, <3>2, <3>3, <3>4, <2>1, <2>3, <2>9, <2>10
  <2>12. restarts \in 0..MaxRestarts /\ retries \in 0..MaxRetries /\ attempt \in [Jobs -> 0..MaxRetries]
    BY DEF Typed
  <2> HIDE DEF Fine
  <2> QED
    BY <2>2, <2>3, <2>4, <2>5, <2>7, <2>8, <2>10, <2>11, <2>12 DEF Typed, Fine
<1> QED
  BY <1>1, <1>2, <1>3, <1>4, <1>5, <1>6 DEF Next, JobSteps

-----------------------------------------------------------------------------
(* What a step does to the handlers and to the rows.                       *)

\* A handler that goes elsewhere keeps everything else.
LEMMA GotoMoves ==
    ASSUME Typed, NEW j \in Jobs, NEW pc, Goto(j, pc)
    PROVE  /\ \A i \in Jobs : i # j => handler'[i] = handler[i]
           /\ handler'[j].pc = pc
           /\ handler'[j].item = handler[j].item
           /\ handler'[j].completed = handler[j].completed
           /\ handler'[j].whole = handler[j].whole
           /\ handler'[j].set = handler[j].set
<1>1. handler[j] \in HandlerRecord
  BY DEF Typed
<1>2. handler'[j] = [handler[j] EXCEPT !.pc = pc] /\ \A i \in Jobs : i # j => handler'[i] = handler[i]
  BY DEF Goto, Typed
<1> QED
  BY <1>1, <1>2 DEF HandlerRecord

\* Completions, failures and cancels start the handler of their job, with an
\* output only when it completed.
LEMMA HandlerStarts ==
    ASSUME Typed, NEW j \in Jobs, Complete(j) \/ Fail(j) \/ Cancel(j)
    PROVE  /\ \A i \in Jobs : i # j => handler'[i] = handler[i] /\ status'[i] = status[i]
           /\ handler'[j].pc = "read" /\ handler'[j].completed = {} /\ ~handler'[j].whole
           /\ handler'[j].item => Complete(j)
           /\ Complete(j) => handler'[j].item
<1> DEFINE h(item) == [Idle EXCEPT !.pc = "read", !.item = item]
<1>1. h(TRUE).item /\ ~h(FALSE).item
  BY DEF Idle
<1>2. \A item : h(item).pc = "read" /\ h(item).completed = {} /\ ~h(item).whole
  BY DEF Idle
<1> HIDE DEF h
<1>3. \A i \in Jobs : i # j => handler'[i] = handler[i] /\ status'[i] = status[i]
  BY DEF Complete, Fail, Cancel, Starts, Typed
<1>4. CASE Complete(j)
  <2>1. handler'[j] = h(TRUE)
    BY <1>4 DEF Complete, Starts, Typed, h
  <2> QED
    BY <1>1, <1>2, <1>3, <1>4, <2>1
<1>5. CASE ~Complete(j)
  <2>1. handler'[j] = h(FALSE)
    BY <1>5 DEF Fail, Cancel, Starts, Typed, h
  <2> QED
    BY <1>1, <1>2, <1>3, <1>5, <2>1
<1> QED
  BY <1>4, <1>5

\* A step of the handler of j leaves the other handlers alone, and its own
\* becomes idle or keeps, past its reading, what it read.
LEMMA HandlerMoves ==
    ASSUME Typed, NEW j \in Jobs, HandlerStep(j)
    PROVE  /\ \A i \in Jobs : i # j => handler'[i] = handler[i]
           /\ \/ handler'[j] = Idle
              \/ /\ handler'[j].item = handler[j].item
                 /\ IF handler[j].pc = "read"
                    THEN /\ handler'[j].completed = Completed /\ handler'[j].whole = Whole
                         /\ handler'[j].set = pointer
                    ELSE /\ handler'[j].completed = handler[j].completed
                         /\ handler'[j].whole = handler[j].whole
                         /\ handler[j].pc # "create" => handler'[j].set = handler[j].set
<1>1. handler[j] \in HandlerRecord
  BY DEF Typed
<1>2. CASE Read(j)
  BY <1>1, <1>2 DEF Read, Typed, HandlerRecord
<1>3. CASE CreateSet(j)
  BY <1>1, <1>3 DEF CreateSet, Typed, HandlerRecord
<1>4. CASE StorePointer(j) \/ AppendToSet(j) \/ Reorder(j)
  <2>1. handler[j].pc \in {"store", "append", "reorder"} /\ \E pc : Goto(j, pc)
    BY <1>4 DEF StorePointer, AppendToSet, Reorder
  <2> QED
    BY <2>1, GotoMoves
<1>5. CASE Look(j)
  BY <1>1, <1>5 DEF Look, Typed, HandlerRecord
<1>6. CASE Commit(j) \/ Announce(j)
  BY <1>1, <1>6 DEF Commit, Announce, Goto, Typed, HandlerRecord
<1> QED
  BY <1>2, <1>3, <1>4, <1>5, <1>6 DEF HandlerStep

\* Where each step of the handler of j leads.
LEMMA HandlerGoes ==
    ASSUME Typed, NEW j \in Jobs
    PROVE  /\ Read(j) =>
                /\ handler[j].pc = "read"
                /\ status[1] = "gone" => handler'[j] = Idle
                /\ status[1] # "gone" =>
                      handler'[j].pc = IF handler[j].item
                                       THEN IF pointer = 0 THEN "create" ELSE "append"
                                       ELSE AfterItem(handler'[j], handler'[j].set)
           /\ CreateSet(j) => /\ handler[j].pc = "create" /\ handler'[j].pc = "store"
                              /\ handler'[j].set = Len(sets) + 1
           /\ StorePointer(j) \/ AppendToSet(j) =>
                /\ handler[j].pc \in {"store", "append"}
                /\ handler'[j].pc = AfterItem(handler'[j], handler'[j].set)
           /\ Reorder(j) => handler[j].pc = "reorder" /\ handler'[j].pc = "look"
           /\ Look(j) => handler[j].pc = "look" /\ handler'[j].pc = "commit" /\ handler'[j].seen = asset
           /\ Commit(j) =>
                /\ handler[j].pc = "commit"
                /\ \/ handler'[j].pc = "announce" /\ status' = status
                   \/ handler'[j] = Idle
           /\ Announce(j) => handler[j].pc = "announce" /\ handler'[j] = Idle
<1>1. handler[j] \in HandlerRecord
  BY DEF Typed
<1>2. Read(j) =>
        /\ handler[j].pc = "read"
        /\ status[1] = "gone" => handler'[j] = Idle
        /\ status[1] # "gone" =>
              handler'[j].pc = IF handler[j].item
                               THEN IF pointer = 0 THEN "create" ELSE "append"
                               ELSE AfterItem(handler'[j], handler'[j].set)
  BY <1>1 DEF Read, Typed, HandlerRecord, AfterItem
<1>3. CreateSet(j) => /\ handler[j].pc = "create" /\ handler'[j].pc = "store"
                      /\ handler'[j].set = Len(sets) + 1
  BY <1>1 DEF CreateSet, Typed, HandlerRecord
<1>4. StorePointer(j) \/ AppendToSet(j) =>
        /\ handler[j].pc \in {"store", "append"}
        /\ handler'[j].pc = AfterItem(handler'[j], handler'[j].set)
  <2> SUFFICES ASSUME StorePointer(j) \/ AppendToSet(j)
               PROVE  /\ handler[j].pc \in {"store", "append"}
                      /\ handler'[j].pc = AfterItem(handler'[j], handler'[j].set)
    OBVIOUS
  <2>1. handler[j].pc \in {"store", "append"} /\ Goto(j, AfterItem(handler[j], handler[j].set))
    BY DEF StorePointer, AppendToSet
  <2>2. /\ handler'[j].pc = AfterItem(handler[j], handler[j].set)
        /\ handler'[j].completed = handler[j].completed
        /\ handler'[j].whole = handler[j].whole /\ handler'[j].set = handler[j].set
    BY <2>1, GotoMoves
  <2> QED
    BY <2>1, <2>2 DEF AfterItem
<1>5. Reorder(j) => handler[j].pc = "reorder" /\ handler'[j].pc = "look"
  BY <1>1 DEF Reorder, Goto, Typed, HandlerRecord
<1>6. Look(j) => handler[j].pc = "look" /\ handler'[j].pc = "commit" /\ handler'[j].seen = asset
  BY <1>1 DEF Look, Typed, HandlerRecord
<1>7. Commit(j) =>
        /\ handler[j].pc = "commit"
        /\ \/ handler'[j].pc = "announce" /\ status' = status
           \/ handler'[j] = Idle
  BY <1>1 DEF Commit, Goto, Typed, HandlerRecord
<1>8. Announce(j) => handler[j].pc = "announce" /\ handler'[j] = Idle
  BY <1>1 DEF Announce, Typed
<1> QED
  BY <1>2, <1>3, <1>4, <1>5, <1>6, <1>7, <1>8

-----------------------------------------------------------------------------
(* Every step keeps the handlers sound.                                    *)

LEMMA SubmittedInOrderStep ==
    Typed /\ HandlersSound /\ SubmittedInOrder /\ [Next]_<<scenario, vars>> => SubmittedInOrder'
<1> SUFFICES ASSUME Typed, HandlersSound, SubmittedInOrder, [Next]_<<scenario, vars>>,
                    NEW i \in Jobs, NEW j \in Jobs, i < j, status'[i] = "none"
             PROVE  status'[j] = "none"
  BY DEF SubmittedInOrder
<1>1. status[i] = "none" => status[j] = "none"
  BY DEF SubmittedInOrder
<1>2. CASE status' = status
  BY <1>1, <1>2
<1>3. CASE \E k \in Jobs : Submit(k) \/ SubmissionFails(k)
  BY <1>1, <1>3, BatchAssumption DEF Submit, SubmissionFails, Typed, Jobs
<1>4. ASSUME NEW k \in Jobs, \/ Run(k) \/ Complete(k) \/ Fail(k) \/ PostprocessingFails(k)
                              \/ Cancel(k) \/ Delete(k) \/ Retry(k) \/ HandlerStep(k)
      PROVE  status'[j] = "none"
  <2>1. CASE Commit(k)
    <3>1. handler[k].item => status[k] = "completed"
      BY DEF HandlersSound
    <3> QED
      BY <1>1, <2>1, <3>1 DEF Commit, Typed
  <2> QED
    BY <1>1, <1>4, <2>1
    DEF Run, Complete, Fail, PostprocessingFails, Cancel, Delete, Retry, HandlerStep, Read,
        CreateSet, StorePointer, AppendToSet, Reorder, Look, Announce, Typed
<1>5. CASE Depart \/ Restart
  BY <1>1, <1>5 DEF Depart, Restart, Typed
<1> QED
  BY <1>2, <1>3, <1>4, <1>5 DEF Next, vars

LEMMA HandlersSoundStep ==
    Typed /\ SubmittedInOrder /\ HandlersSound /\ [Next]_<<scenario, vars>> => HandlersSound'
<1> SUFFICES ASSUME Typed, SubmittedInOrder, HandlersSound, [Next]_<<scenario, vars>>, NEW i \in Jobs
             PROVE  /\ handler'[i].item => status'[i] = "completed"
                    /\ handler'[i].pc \in {"create", "append", "store"} => handler'[i].item
                    /\ handler'[i].pc \in {"reorder", "look", "commit", "announce"} => handler'[i].whole
                    /\ OnePerJob(handler'[i].completed)
  BY DEF HandlersSound
<1>1. /\ handler[i].item => status[i] = "completed"
      /\ handler[i].pc \in {"create", "append", "store"} => handler[i].item
      /\ handler[i].pc \in {"reorder", "look", "commit", "announce"} => handler[i].whole
      /\ OnePerJob(handler[i].completed)
  BY DEF HandlersSound
<1>2. ~Idle.item /\ Idle.pc = "idle" /\ OnePerJob(Idle.completed)
  BY DEF Idle, OnePerJob
<1>3. CASE UNCHANGED <<scenario, vars>>
  BY <1>1, <1>3 DEF vars
<1>4. ASSUME NEW j \in Jobs, JobSteps(j) PROVE handler' = handler /\ (status[i] = "completed" => status'[i] = "completed")
  <2>1. CASE SubmissionFails(j)
    <3>1. i \in Int /\ j \in Int
      BY BatchAssumption DEF Jobs
    <3>2. i >= j => status[i] = "none"
      BY <2>1, <3>1 DEF SubmissionFails, SubmittedInOrder
    <3>3. handler' = handler /\ (i < j => status'[i] = status[i])
      BY <2>1, <3>1 DEF SubmissionFails, Typed
    <3> QED
      BY <3>1, <3>2, <3>3
  <2> QED
    BY <1>4, <2>1 DEF JobSteps, Submit, Run, PostprocessingFails, Delete, Retry, Typed
<1>5. CASE Depart
  BY <1>1, <1>5 DEF Depart, Typed
<1>6. CASE Restart
  <2>1. ~handler'[i].item /\ handler'[i].pc \in {"idle", "read"} /\ OnePerJob(handler'[i].completed)
    BY <1>2, <1>6 DEF Restart, Idle
  <2> QED
    BY <2>1
<1>7. ASSUME NEW j \in Jobs, Complete(j) \/ Fail(j) \/ Cancel(j)
      PROVE  /\ handler'[i].item => status'[i] = "completed"
             /\ \/ handler'[i] = handler[i]
                \/ handler'[i].pc = "read" /\ OnePerJob(handler'[i].completed)
  <2>1. Complete(j) => status'[j] = "completed"
    BY DEF Complete, Typed
  <2>2. OnePerJob({})
    BY DEF OnePerJob
  <2> QED
    BY <1>1, <1>7, <2>1, <2>2, HandlerStarts
<1>8. ASSUME NEW j \in Jobs, HandlerStep(j)
      PROVE  /\ handler'[i].item => status'[i] = "completed"
             /\ handler'[i].pc \in {"create", "append", "store"} => handler'[i].item
             /\ handler'[i].pc \in {"reorder", "look", "commit", "announce"} => handler'[i].whole
             /\ OnePerJob(handler'[i].completed)
  <2>1. CASE i # j
    <3>1. handler'[i] = handler[i]
      BY <1>8, <2>1, HandlerMoves
    <3>2. status'[i] = status[i]
      BY <1>8, <2>1 DEF HandlerStep, Read, CreateSet, StorePointer, AppendToSet, Reorder, Look,
                         Commit, Announce, Typed
    <3> QED
      BY <1>1, <3>1, <3>2
  <2>2. CASE handler'[j] = Idle /\ i = j
    BY <1>2, <2>2
  <2>3. CASE handler'[j] # Idle /\ i = j
    <3>1. /\ handler'[j].item = handler[j].item
          /\ IF handler[j].pc = "read" THEN handler'[j].completed = Completed
             ELSE /\ handler'[j].completed = handler[j].completed
                  /\ handler'[j].whole = handler[j].whole
      BY <1>8, <2>3, HandlerMoves
    <3>2. OnePerJob(handler'[j].completed)
      BY <1>1, <2>3, <3>1, CompletedOnePerJob
    <3>3. status'[j] = status[j]
      BY <1>8, <2>3 DEF HandlerStep, Read, CreateSet, StorePointer, AppendToSet, Reorder, Look,
                         Commit, Announce, Typed, Goto
    <3>4. /\ handler'[j].pc \in {"create", "append", "store"} => handler'[j].item
          /\ handler'[j].pc \in {"reorder", "look", "commit", "announce"} => handler'[j].whole
      BY <1>1, <1>8, <2>3, <3>1, HandlerGoes, AfterItemSteps DEF HandlerStep
    <3> QED
      BY <1>1, <2>3, <3>1, <3>2, <3>3, <3>4
  <2> QED
    BY <2>1, <2>2, <2>3
<1> QED
  BY <1>1, <1>3, <1>4, <1>5, <1>6, <1>7, <1>8, Zenon DEF Next, JobSteps

-----------------------------------------------------------------------------
(* A batch found whole stays settled.                                      *)

LEMMA WholeIsSettledStep ==
    IInv /\ [Next]_<<scenario, vars>> => WholeIsSettled'
<1> SUFFICES ASSUME IInv, [Next]_<<scenario, vars>>,
                    NEW h \in Jobs, handler'[h].whole, NEW i \in Jobs
             PROVE  status'[i] \in Settled \cup {"gone"} \/ attempt'[i] > 0
  BY DEF WholeIsSettled
<1> USE DEF IInv
<1>1. handler[h].whole => status[i] \in Settled \cup {"gone"} \/ attempt[i] > 0
  BY DEF WholeIsSettled
<1>2. attempt[i] \in Nat /\ attempt \in [Jobs -> 0..MaxRetries] /\ status \in [Jobs -> Status]
  BY DEF Typed
<1>3. ~Idle.whole
  BY DEF Idle
<1>4. CASE UNCHANGED <<scenario, vars>>
  BY <1>1, <1>4 DEF vars
<1>5. ASSUME NEW j \in Jobs, JobSteps(j)
      PROVE  status'[i] \in Settled \cup {"gone"} \/ attempt'[i] > 0
  <2>1. handler' = handler
    BY <1>5 DEF JobSteps, Submit, SubmissionFails, Run, PostprocessingFails, Delete, Retry
  <2>2. attempt' = attempt \/ (attempt' = [attempt EXCEPT ![j] = @ + 1])
    BY <1>5 DEF JobSteps, Submit, SubmissionFails, Run, PostprocessingFails, Delete, Retry
  <2>3. attempt[i] > 0 => attempt'[i] > 0
    BY <1>2, <2>2
  <2>4. status[i] \in Settled \cup {"gone"} => \/ status'[i] \in Settled \cup {"gone"}
                                               \/ attempt'[i] > 0
    BY <1>2, <1>5 DEF JobSteps, Submit, SubmissionFails, Run, PostprocessingFails, Delete, Retry,
                      Settled
  <2> QED
    BY <1>1, <2>1, <2>3, <2>4
<1>6. ASSUME NEW j \in Jobs, Complete(j) \/ Fail(j) \/ Cancel(j)
      PROVE  status'[i] \in Settled \cup {"gone"} \/ attempt'[i] > 0
  <2>1. attempt' = attempt /\ (status[i] \in Settled \cup {"gone"} => status'[i] \in Settled \cup {"gone"})
    BY <1>2, <1>6 DEF Complete, Fail, Cancel, Settled
  <2>2. handler'[h].whole => handler[h].whole
    BY <1>6, HandlerStarts
  <2> QED
    BY <1>1, <2>1, <2>2
<1>7. CASE Depart
  BY <1>1, <1>2, <1>7 DEF Depart, Settled
<1>8. CASE Restart
  <2>1. ~handler'[h].whole
    BY <1>8, <1>3 DEF Restart, Idle
  <2> QED
    BY <2>1
<1>9. ASSUME NEW j \in Jobs, HandlerStep(j)
      PROVE  status'[i] \in Settled \cup {"gone"} \/ attempt'[i] > 0
  <2>1. attempt' = attempt /\ (status'[i] = status[i] \/ status'[i] = "failed")
    BY <1>2, <1>9 DEF HandlerStep, Read, CreateSet, StorePointer, AppendToSet, Reorder, Look,
                      Commit, Announce, jobVars
  <2>2. handler'[h].whole = handler[h].whole \/ handler'[h].whole = Whole
    BY <1>3, <1>9, HandlerMoves
  <2>3. Whole => status[i] \in Settled
    BY WholeMeansAll
  <2> QED
    BY <1>1, <2>1, <2>2, <2>3 DEF Settled
<1> QED
  BY <1>4, <1>5, <1>6, <1>7, <1>8, <1>9 DEF Next, JobSteps

-----------------------------------------------------------------------------
(* What the files list.                                                    *)

\* The outputs on a file that was not written, or was written by the handler
\* of j: its own output is added once, or the file is put in order.
LEMMA FilesWritten ==
    ASSUME IInv, [Next]_<<scenario, vars>>
    PROVE  \/ sets' = sets
           \/ \E j \in Jobs : CreateSet(j) /\ sets' = Append(sets, <<<<j, attempt[j]>>>>)
           \/ \E j \in Jobs : \E s \in 1..Len(sets) :
                 AppendToSet(j) /\ sets' = [sets EXCEPT ![s] = Append(@, <<j, attempt[j]>>)]
           \/ \E j \in Jobs : \E s \in 1..Len(sets), q \in Seq(Output) :
                 /\ Reorder(j) /\ sets' = [sets EXCEPT ![s] = q]
                 /\ Len(q) = Len(sets[s]) /\ ToSet(q) = ToSet(sets[s]) /\ IsInjective(q)
                 /\ q = InputOrder(ToSet(sets[s]))
<1> USE DEF IInv
<1>1. CASE UNCHANGED <<scenario, vars>>
  BY <1>1 DEF vars
<1>2. ASSUME NEW j \in Jobs, JobSteps(j) \/ Complete(j) \/ Fail(j) \/ Cancel(j) PROVE sets' = sets
  BY <1>2 DEF JobSteps, Submit, SubmissionFails, Run, PostprocessingFails, Delete, Retry,
              Complete, Fail, Cancel, batchVars
<1>3. CASE Depart \/ Restart
  BY <1>3 DEF Depart, Restart, batchVars
<1>4. ASSUME NEW j \in Jobs, AppendToSet(j) \/ Reorder(j)
      PROVE  handler[j].set \in 1..Len(sets)
  BY <1>4 DEF AppendToSet, Reorder, Typed, HandlerRecord
<1>5. ASSUME NEW j \in Jobs, Reorder(j), sets' # sets
      PROVE  \E s \in 1..Len(sets), q \in Seq(Output) :
                 /\ sets' = [sets EXCEPT ![s] = q]
                 /\ Len(q) = Len(sets[s]) /\ ToSet(q) = ToSet(sets[s]) /\ IsInjective(q)
                 /\ q = InputOrder(ToSet(sets[s]))
  <2> DEFINE s == handler[j].set
             S == handler[j].completed \cap ToSet(sets[s])
             q == InputOrder(S)
  <2>1. s \in 1..Len(sets) /\ sets[s] \in Seq(Output)
    BY <1>4, <1>5 DEF Typed
  <2>2. S \in SUBSET Output /\ OnePerJob(S)
    BY DEF Typed, HandlerRecord, HandlersSound, OnePerJob
  <2>3. /\ q \in Seq(Output) /\ IsInjective(q) /\ ToSet(q) = S
        /\ Len(q) = Cardinality(S) /\ IsFiniteSet(S)
    BY <2>2, OrderIsFile
  <2>4. sets' = [sets EXCEPT ![s] = q] /\ Len(q) = Len(sets[s])
    BY <1>5 DEF Reorder
  <2>5. IsInjective(sets[s])
    BY <2>1 DEF ListedOnce, Once, IsInjective, Typed
  <2>6. IsFiniteSet(ToSet(sets[s])) /\ Cardinality(ToSet(sets[s])) = Len(sets[s])
    BY <2>1, <2>5, FileLength
  <2>7. S = ToSet(sets[s])
    <3>1. S \in SUBSET ToSet(sets[s])
      OBVIOUS
    <3> QED
      BY <3>1, <2>3, <2>4, <2>6, FS_Subset
  <2> HIDE DEF S, s
  <2> QED
    BY <2>1, <2>3, <2>4, <2>7
<1>6. ASSUME NEW j \in Jobs, HandlerStep(j) PROVE
           \/ sets' = sets
           \/ Reorder(j) /\ sets' # sets
           \/ CreateSet(j) /\ sets' = Append(sets, <<<<j, attempt[j]>>>>)
           \/ \E s \in 1..Len(sets) :
                 AppendToSet(j) /\ sets' = [sets EXCEPT ![s] = Append(@, <<j, attempt[j]>>)]
  <2>1. CASE AppendToSet(j)
    BY <1>4, <2>1 DEF AppendToSet
  <2> QED
    <3>1. CASE CreateSet(j)
      BY <3>1 DEF CreateSet
    <3>2. Read(j) \/ StorePointer(j) \/ Look(j) \/ Commit(j) \/ Announce(j) => sets' = sets
      BY DEF Read, StorePointer, Look, Commit, Announce, batchVars
    <3>3. CASE Reorder(j)
      BY <3>3
    <3>4. CASE Read(j) \/ StorePointer(j) \/ Look(j) \/ Commit(j) \/ Announce(j)
      BY <3>2, <3>4
    <3> HIDE DEF IInv
    <3> QED
      BY <1>6, <2>1, <3>1, <3>3, <3>4, Zenon DEF HandlerStep
<1> QED
  BY <1>1, <1>2, <1>3, <1>5, <1>6, Zenon DEF Next, JobSteps

\* Adding to the files an output that they do not list.
LEMMA NewFile ==
    ASSUME NEW files \in Seq(Seq(Output)), NEW x \in Output
    PROVE  LET new == Append(files, <<x>>)
           IN  /\ \A y : ListedIn(new, y) <=> ListedIn(files, y) \/ y = x
               /\ Once(files) /\ ~ListedIn(files, x) => Once(new)
<1> DEFINE new == Append(files, <<x>>)
           n == Len(files)
<1>1. n \in Nat /\ DOMAIN files = 1..n
  OBVIOUS
<1>2. /\ DOMAIN new = 1..(n + 1) /\ new[n + 1] = <<x>>
      /\ \A s \in 1..n : new[s] = files[s]
  BY <1>1, AppendProperties
<1>3. DOMAIN <<x>> = {1} /\ <<x>>[1] = x
  OBVIOUS
<1> HIDE DEF new, n
<1>4. \A y : ListedIn(new, y) <=> ListedIn(files, y) \/ y = x
  <2> TAKE y
  <2>1. ListedIn(files, y) => ListedIn(new, y)
    BY <1>1, <1>2 DEF ListedIn
  <2>2. ListedIn(new, x)
    BY <1>1, <1>2, <1>3 DEF ListedIn
  <2>3. ListedIn(new, y) => ListedIn(files, y) \/ y = x
    <3> SUFFICES ASSUME NEW s \in 1..(n + 1), NEW i \in DOMAIN new[s], new[s][i] = y
                 PROVE  ListedIn(files, y) \/ y = x
      BY <1>2 DEF ListedIn
    <3>1. CASE s = n + 1
      BY <3>1, <1>2, <1>3
    <3>2. CASE s \in 1..n
      BY <3>2, <1>1, <1>2 DEF ListedIn
    <3> QED
      BY <1>1, <3>1, <3>2
  <2> QED
    BY <2>1, <2>2, <2>3
<1>5. ASSUME Once(files), ~ListedIn(files, x) PROVE Once(new)
  <2> SUFFICES ASSUME NEW s \in 1..(n + 1), NEW t \in 1..(n + 1),
                      NEW i \in DOMAIN new[s], NEW k \in DOMAIN new[t], new[s][i] = new[t][k]
               PROVE  s = t /\ i = k
    BY <1>2 DEF Once
  <2>1. CASE s \in 1..n /\ t \in 1..n
    BY <2>1, <1>1, <1>2, <1>5 DEF Once
  <2>2. CASE s = n + 1 /\ t = n + 1
    BY <2>2, <1>2, <1>3
  <2>3. CASE s = n + 1 /\ t \in 1..n
    <3>1. new[s][i] = x
      BY <2>3, <1>2, <1>3
    <3>2. k \in DOMAIN files[t] /\ files[t][k] = x /\ t \in DOMAIN files
      BY <2>3, <3>1, <1>1, <1>2
    <3> QED
      BY <3>2, <1>5 DEF ListedIn
  <2>4. CASE s \in 1..n /\ t = n + 1
    BY <2>4, <1>1, <1>2, <1>3, <1>5 DEF ListedIn
  <2> QED
    BY <1>1, <2>1, <2>2, <2>3, <2>4
<1> QED
  BY <1>4, <1>5 DEF new

LEMMA AppendedFile ==
    ASSUME NEW files \in Seq(Seq(Output)), NEW f \in 1..Len(files), NEW x \in Output
    PROVE  LET new == [files EXCEPT ![f] = Append(@, x)]
           IN  /\ \A y : ListedIn(new, y) <=> ListedIn(files, y) \/ y = x
               /\ Once(files) /\ ~ListedIn(files, x) => Once(new)
<1> DEFINE new == [files EXCEPT ![f] = Append(@, x)]
           n == Len(files[f])
<1>1. DOMAIN files = 1..Len(files) /\ files[f] \in Seq(Output) /\ n \in Nat /\ DOMAIN files[f] = 1..n
  OBVIOUS
<1>2. /\ DOMAIN new = DOMAIN files /\ new[f] = Append(files[f], x)
      /\ \A s \in DOMAIN files : s # f => new[s] = files[s]
  BY <1>1
<1>3. /\ DOMAIN new[f] = 1..(n + 1) /\ new[f][n + 1] = x
      /\ \A i \in 1..n : new[f][i] = files[f][i]
  BY <1>1, <1>2, AppendProperties
<1> HIDE DEF new, n
<1>4. \A y : ListedIn(new, y) <=> ListedIn(files, y) \/ y = x
  <2> TAKE y
  <2>1. ASSUME NEW s \in DOMAIN files, NEW i \in DOMAIN files[s], files[s][i] = y
        PROVE  i \in DOMAIN new[s] /\ new[s][i] = y
    <3>1. CASE s = f
      <4>1. i \in 1..n /\ i \in 1..(n + 1)
        BY <3>1, <1>1
      <4> QED
        BY <3>1, <4>1, <1>3, <2>1
    <3>2. CASE s # f
      BY <3>2, <1>2, <2>1
    <3> QED
      BY <3>1, <3>2
  <2>2. ListedIn(files, y) => ListedIn(new, y)
    BY <1>2, <2>1 DEF ListedIn
  <2>3. ListedIn(new, x)
    <3>1. f \in DOMAIN new /\ n + 1 \in DOMAIN new[f] /\ new[f][n + 1] = x
      BY <1>1, <1>2, <1>3
    <3> QED
      BY <3>1 DEF ListedIn
  <2>4. ASSUME NEW s \in DOMAIN new, NEW i \in DOMAIN new[s], new[s][i] = y, y # x
        PROVE  i \in DOMAIN files[s] /\ files[s][i] = y
    <3>1. CASE s = f
      <4>1. i \in 1..(n + 1) /\ i # n + 1
        BY <3>1, <1>3, <2>4
      <4>2. i \in 1..n
        BY <4>1, <1>1
      <4> QED
        BY <3>1, <4>2, <1>1, <1>3, <2>4
    <3>2. CASE s # f
      BY <3>2, <1>2, <2>4
    <3> QED
      BY <3>1, <3>2
  <2>5. ListedIn(new, y) => ListedIn(files, y) \/ y = x
    BY <1>2, <2>4 DEF ListedIn
  <2> QED
    BY <2>2, <2>3, <2>5
<1>5. ASSUME Once(files), ~ListedIn(files, x) PROVE Once(new)
  <2> SUFFICES ASSUME NEW s \in DOMAIN files, NEW t \in DOMAIN files,
                      NEW i \in DOMAIN new[s], NEW k \in DOMAIN new[t], new[s][i] = new[t][k]
               PROVE  s = t /\ i = k
    BY <1>2 DEF Once
  <2>1. \A u \in DOMAIN files : \A l \in DOMAIN new[u] :
           \/ u = f /\ l = n + 1 /\ new[u][l] = x
           \/ l \in DOMAIN files[u] /\ new[u][l] = files[u][l]
    <3> TAKE u \in DOMAIN files
    <3>1. CASE u = f
      <4> SUFFICES ASSUME NEW l \in 1..(n + 1)
                   PROVE  \/ l = n + 1 /\ new[f][l] = x
                          \/ l \in 1..n /\ new[f][l] = files[f][l]
        BY <3>1, <1>1, <1>3
      <4>1. l = n + 1 \/ l \in 1..n
        BY <1>1
      <4> QED
        BY <4>1, <1>3
    <3>2. CASE u # f
      BY <3>2, <1>2
    <3> QED
      BY <3>1, <3>2
  <2>2. \A u \in DOMAIN files : \A l \in DOMAIN files[u] : files[u][l] # x
    BY <1>5 DEF ListedIn
  <2> QED
    BY <2>1, <2>2, <1>5 DEF Once
<1> QED
  BY <1>4, <1>5 DEF new

LEMMA OrderedFile ==
    ASSUME NEW files \in Seq(Seq(Output)), NEW f \in 1..Len(files), NEW q \in Seq(Output),
           ToSet(q) = ToSet(files[f]), IsInjective(q), Once(files)
    PROVE  LET new == [files EXCEPT ![f] = q]
           IN  /\ \A y : ListedIn(new, y) <=> ListedIn(files, y)
               /\ Once(new)
<1> DEFINE new == [files EXCEPT ![f] = q]
<1>1. DOMAIN files = 1..Len(files) /\ files[f] \in Seq(Output)
  OBVIOUS
<1>2. /\ DOMAIN new = DOMAIN files /\ new[f] = q
      /\ \A s \in DOMAIN files : s # f => new[s] = files[s]
  BY <1>1
<1> HIDE DEF new
<1>3. \A s \in DOMAIN files : \A y :
         (\E i \in DOMAIN new[s] : new[s][i] = y) <=> (\E i \in DOMAIN files[s] : files[s][i] = y)
  <2> TAKE s \in DOMAIN files
  <2> TAKE y
  <2>1. (\E i \in DOMAIN q : q[i] = y) <=> (\E i \in DOMAIN files[f] : files[f][i] = y)
    <3>1. y \in ToSet(q) <=> y \in ToSet(files[f])
      OBVIOUS
    <3> QED
      BY <3>1 DEF ToSet
  <2>2. CASE s = f
    BY <2>1, <2>2, <1>2
  <2>3. CASE s # f
    BY <2>3, <1>2
  <2> QED
    BY <2>2, <2>3
<1>4. \A y : ListedIn(new, y) <=> ListedIn(files, y)
  <2> TAKE y
  <2> DEFINE In(file) == \E i \in DOMAIN file : file[i] = y
  <2>1. \A s \in DOMAIN files : In(new[s]) <=> In(files[s])
    BY <1>3, Zenon
  <2>2. (\E s \in DOMAIN new : In(new[s])) <=> \E s \in DOMAIN files : In(files[s])
    <3> HIDE DEF In
    <3> QED
      BY <1>2, <2>1, Zenon
  <2> QED
    BY <2>2, Zenon DEF ListedIn
<1>5. Once(new)
  <2> SUFFICES ASSUME NEW s \in DOMAIN files, NEW t \in DOMAIN files,
                      NEW i \in DOMAIN new[s], NEW k \in DOMAIN new[t], new[s][i] = new[t][k]
               PROVE  s = t /\ i = k
    BY <1>2 DEF Once
  <2>1. PICK a \in DOMAIN files[s] : files[s][a] = new[s][i]
    BY <1>3
  <2>2. PICK b \in DOMAIN files[t] : files[t][b] = new[t][k]
    BY <1>3
  <2>3. s = t
    BY <2>1, <2>2 DEF Once
  <2>4. CASE s = f
    BY <1>2, <2>3, <2>4 DEF IsInjective
  <2>5. CASE s # f
    BY <1>2, <2>3, <2>5 DEF Once
  <2> QED
    BY <2>3, <2>4, <2>5
<1> QED
  BY <1>4, <1>5 DEF new

\* A step lists no output but that of a handler that adds it, and forgets none.
LEMMA ListedMoves ==
    ASSUME IInv, [Next]_<<scenario, vars>>
    PROVE  /\ \A x : Listed(x) => ListedIn(sets', x)
           /\ \A x : ListedIn(sets', x) =>
                 \/ Listed(x)
                 \/ \E j \in Jobs : (CreateSet(j) \/ AppendToSet(j)) /\ x = <<j, attempt[j]>>
           /\ \A j \in Jobs : CreateSet(j) \/ AppendToSet(j) => ListedIn(sets', <<j, attempt[j]>>)
           /\ Once(sets')
<1> USE DEF IInv, Listed
<1>1. /\ sets \in Seq(Seq(Output)) /\ \A j \in Jobs : <<j, attempt[j]>> \in Output
      /\ Once(sets)
  BY DEF Typed, Output, ListedOnce
<1>2. \A j \in Jobs : CreateSet(j) \/ AppendToSet(j) => ~ListedIn(sets, <<j, attempt[j]>>)
  BY DEF CreateSet, AppendToSet, HandlersSound, NothingEarly, Adding
<1>3. \A j \in Jobs : CreateSet(j) => ListedIn(sets', <<j, attempt[j]>>)
  BY <1>1, NewFile DEF CreateSet
<1>4. \A j \in Jobs : AppendToSet(j) => ListedIn(sets', <<j, attempt[j]>>)
  <2> SUFFICES ASSUME NEW j \in Jobs, AppendToSet(j) PROVE ListedIn(sets', <<j, attempt[j]>>)
    OBVIOUS
  <2>1. handler[j].set \in 1..Len(sets)
    BY DEF AppendToSet, Typed, HandlerRecord
  <2> QED
    BY <1>1, <2>1, AppendedFile DEF AppendToSet
<1>5. CASE sets' = sets
  BY <1>1, <1>3, <1>4, <1>5
<1>6. ASSUME NEW j \in Jobs, CreateSet(j), sets' = Append(sets, <<<<j, attempt[j]>>>>)
      PROVE  /\ \A x : ListedIn(sets', x) <=> ListedIn(sets, x) \/ x = <<j, attempt[j]>>
             /\ Once(sets')
  BY <1>1, <1>2, <1>6, NewFile
<1>7. ASSUME NEW j \in Jobs, NEW s \in 1..Len(sets), AppendToSet(j),
             sets' = [sets EXCEPT ![s] = Append(@, <<j, attempt[j]>>)]
      PROVE  /\ \A x : ListedIn(sets', x) <=> ListedIn(sets, x) \/ x = <<j, attempt[j]>>
             /\ Once(sets')
  BY <1>1, <1>2, <1>7, AppendedFile
<1>8. ASSUME NEW j \in Jobs, NEW s \in 1..Len(sets), NEW q \in Seq(Output), Reorder(j),
             sets' = [sets EXCEPT ![s] = q], ToSet(q) = ToSet(sets[s]), IsInjective(q)
      PROVE  /\ \A x : ListedIn(sets', x) <=> ListedIn(sets, x)
             /\ Once(sets')
  BY <1>1, <1>8, OrderedFile
<1> QED
  BY <1>3, <1>4, <1>5, <1>6, <1>7, <1>8, FilesWritten

-----------------------------------------------------------------------------
(* No output is lost, or listed twice.                                     *)

\* What a step does to the row of one job and to its handler.
LEMMA RowMoves ==
    ASSUME Typed, SubmittedInOrder, HandlersSound, [Next]_<<scenario, vars>>, NEW i \in Jobs
    PROVE  /\ \/ attempt'[i] = attempt[i]
              \/ attempt'[i] = attempt[i] + 1 /\ status[i] \in {"failed", "cancelled"}
           /\ attempt'[i] = attempt[i] /\ status'[i] \in Early => status[i] \in Early
           /\ status'[i] = "completed" => status[i] = "completed" \/ Complete(i)
           /\ status[i] = "gone" => status'[i] = "gone"
           /\ restarts' >= restarts
           /\ \/ handler'[i] = handler[i]
              \/ HandlerStep(i)
              \/ Complete(i) \/ Fail(i) \/ Cancel(i)
              \/ Restart
<1>1. /\ attempt \in [Jobs -> 0..MaxRetries] /\ status \in [Jobs -> Status]
      /\ restarts \in Nat
  BY DEF Typed
<1>2. CASE UNCHANGED <<scenario, vars>>
  BY <1>1, <1>2 DEF vars
<1>3. ASSUME NEW j \in Jobs, JobSteps(j)
      PROVE  /\ \/ attempt'[i] = attempt[i]
                \/ attempt'[i] = attempt[i] + 1 /\ status[i] \in {"failed", "cancelled"}
             /\ attempt'[i] = attempt[i] /\ status'[i] \in Early => status[i] \in Early
             /\ status'[i] = "completed" => status[i] = "completed"
             /\ status[i] = "gone" => status'[i] = "gone"
             /\ restarts' = restarts
             /\ handler'[i] = handler[i]
  <2>1. CASE Retry(j)
    BY <1>1, <2>1 DEF Retry, batchVars
  <2>2. CASE JobSteps(j) /\ ~Retry(j)
    <3>1. attempt' = attempt /\ restarts' = restarts /\ handler' = handler
      BY <2>2 DEF JobSteps, Submit, SubmissionFails, Run, PostprocessingFails, Delete
    <3> QED
      BY <1>1, <2>2, <3>1
      DEF JobSteps, Submit, SubmissionFails, Run, PostprocessingFails, Delete, Early
  <2> QED
    BY <1>3, <2>1, <2>2
<1>4. ASSUME NEW j \in Jobs, Complete(j) \/ Fail(j) \/ Cancel(j)
      PROVE  /\ attempt' = attempt /\ restarts' = restarts
             /\ status'[i] \in Early => status[i] \in Early
             /\ status'[i] = "completed" => status[i] = "completed" \/ (i = j /\ Complete(j))
             /\ status[i] = "gone" => status'[i] = "gone"
             /\ handler'[i] = handler[i] \/ i = j
  BY <1>1, <1>4, HandlerStarts DEF Complete, Fail, Cancel, Early
<1>5. CASE Depart
  BY <1>1, <1>5 DEF Depart, Early
<1>6. CASE Restart
  BY <1>1, <1>6 DEF Restart, Early
<1>7. ASSUME NEW j \in Jobs, HandlerStep(j)
      PROVE  /\ attempt' = attempt /\ restarts' = restarts
             /\ status'[i] \in Early => status[i] \in Early
             /\ status'[i] = "completed" => status[i] = "completed"
             /\ status[i] = "gone" => status'[i] = "gone"
             /\ handler'[i] = handler[i] \/ i = j
  <2>1. attempt' = attempt /\ restarts' = restarts
    BY <1>7 DEF HandlerStep, Read, CreateSet, StorePointer, AppendToSet, Reorder, Look,
                Commit, Announce, jobVars
  <2>2. handler'[i] = handler[i] \/ i = j
    BY <1>7, HandlerMoves
  <2>3. \/ status' = status
        \/ status[j] = "completed" /\ status' = [status EXCEPT ![j] = "failed"]
    BY <1>7 DEF HandlerStep, Read, CreateSet, StorePointer, AppendToSet, Reorder, Look,
                Commit, Announce, HandlersSound
  <2> QED
    BY <1>1, <2>1, <2>2, <2>3 DEF Early
<1> QED
  BY <1>1, <1>2, <1>3, <1>4, <1>5, <1>6, <1>7 DEF Next, JobSteps

\* Where the handler that adds its output is, and its row.
LEMMA AddedBy ==
    ASSUME IInv, NEW j \in Jobs, CreateSet(j) \/ AppendToSet(j)
    PROVE  /\ status'[j] = "completed" /\ attempt'[j] = attempt[j]
           /\ handler'[j].pc \notin Adding
<1>1. handler[j].item /\ status[j] = "completed"
  BY DEF IInv, HandlersSound, CreateSet, AppendToSet
<1>2. status' = status /\ attempt' = attempt
  BY DEF CreateSet, AppendToSet, jobVars
<1>3. handler'[j].pc \notin Adding
  BY HandlerGoes, AfterItemSteps DEF IInv, Adding
<1> QED
  BY <1>1, <1>2, <1>3

LEMMA NothingEarlyStep == IInv /\ [Next]_<<scenario, vars>> => NothingEarly'
<1> SUFFICES ASSUME IInv, [Next]_<<scenario, vars>> PROVE NothingEarly'
  OBVIOUS
<1> USE DEF IInv
<1>1. ASSUME NEW x \in Output, ListedIn(sets', x) PROVE x[2] <= attempt'[x[1]]
  <2>1. x[1] \in Jobs /\ x[2] \in Nat
    BY DEF Output
  <2>2. attempt[x[1]] \in Nat /\ attempt'[x[1]] >= attempt[x[1]]
    <3>1. \A j \in Jobs : attempt[j] \in Nat
      BY DEF Typed
    <3>2. \A j \in Jobs : attempt'[j] = attempt[j] \/ attempt'[j] = attempt[j] + 1
      BY RowMoves
    <3> HIDE DEF IInv
    <3> QED
      BY <2>1, <3>1, <3>2
  <2>3. CASE Listed(x)
    <3>1. x[2] <= attempt[x[1]]
      BY <2>3 DEF NothingEarly
    <3>2. attempt'[x[1]] \in Nat
      BY <2>1, <2>2, RowMoves
    <3> QED
      BY <2>1, <2>2, <3>1, <3>2
  <2>4. ASSUME NEW j \in Jobs, CreateSet(j) \/ AppendToSet(j), x = <<j, attempt[j]>>
        PROVE  x[2] <= attempt'[x[1]]
    BY <2>4, <2>1, AddedBy
  <2> QED
    BY <1>1, <2>3, <2>4, ListedMoves
<1>2. ASSUME NEW i \in Jobs, ListedIn(sets', <<i, attempt'[i]>>),
             status'[i] \in Early \/ (handler'[i].pc \in Adding /\ handler'[i].item)
      PROVE  FALSE
  <2>1. ~CreateSet(i) /\ ~AppendToSet(i)
    BY <1>2, AddedBy DEF Early
  <2>2. Listed(<<i, attempt'[i]>>)
    BY <1>2, <2>1, ListedMoves
  <2>3. attempt'[i] = attempt[i]
    <3>1. attempt[i] \in 0..MaxRetries /\ (attempt'[i] = attempt[i] \/ attempt'[i] = attempt[i] + 1)
      BY RowMoves DEF Typed
    <3>2. attempt'[i] \in 0..MaxRetries
      BY TypedStep DEF Typed
    <3>3. <<i, attempt'[i]>> \in Output
      BY <3>2 DEF Output
    <3>4. attempt'[i] <= attempt[i]
      BY <2>2, <3>3 DEF NothingEarly
    <3> QED
      BY <3>1, <3>4
  <2>4. status[i] \notin Early /\ ~(handler[i].pc \in Adding /\ handler[i].item)
    BY <2>2, <2>3 DEF NothingEarly
  <2>5. handler'[i].pc \in Adding /\ handler'[i].item
    BY <1>2, <2>3, <2>4, RowMoves
  <2>6. CASE handler'[i] = handler[i]
    BY <2>4, <2>5, <2>6
  <2>7. CASE HandlerStep(i)
    BY <2>1, <2>4, <2>5, <2>7, HandlerGoes, HandlerMoves, AfterItemSteps
    DEF HandlerStep, Adding, Idle
  <2>8. CASE Complete(i) \/ Fail(i) \/ Cancel(i)
    BY <2>4, <2>8 DEF Complete, Fail, Cancel, Early
  <2>9. CASE Restart
    BY <2>5, <2>9 DEF Restart, Idle
  <2> QED
    BY <2>6, <2>7, <2>8, <2>9, RowMoves
<1> QED
  BY <1>1, <1>2 DEF NothingEarly, Listed

LEMMA CompletedListedStep == IInv /\ [Next]_<<scenario, vars>> => CompletedListed'
<1> SUFFICES ASSUME IInv, [Next]_<<scenario, vars>>, NEW i \in Jobs,
                    status'[i] = "completed", restarts' = 0, status'[1] # "gone"
             PROVE  IF handler'[i].pc \in Adding THEN handler'[i].item
                    ELSE ListedIn(sets', <<i, attempt'[i]>>)
  BY DEF CompletedListed, Listed
<1> USE DEF IInv
<1>1. 1 \in Jobs /\ restarts \in Nat
  BY BatchAssumption DEF Jobs, Typed
<1>2. restarts = 0 /\ status[1] # "gone"
  BY <1>1, RowMoves
<1>3. CASE Complete(i)
  BY <1>3, HandlerStarts DEF Adding
<1>4. CASE ~Complete(i)
  <2>1. status[i] = "completed"
    BY <1>4, RowMoves
  <2>2. attempt'[i] = attempt[i]
    BY <2>1, RowMoves
  <2>3. IF handler[i].pc \in Adding THEN handler[i].item ELSE Listed(<<i, attempt[i]>>)
    BY <1>2, <2>1 DEF CompletedListed
  <2>4. Listed(<<i, attempt[i]>>) => ListedIn(sets', <<i, attempt[i]>>)
    BY ListedMoves
  <2>5. CASE handler'[i] = handler[i]
    BY <2>2, <2>3, <2>4, <2>5
  <2>6. CASE CreateSet(i) \/ AppendToSet(i)
    BY <2>2, <2>6, AddedBy, ListedMoves
  <2>7. CASE Read(i)
    BY <1>2, <2>3, <2>7, HandlerGoes, HandlerMoves DEF Adding, Idle, HandlerStep
  <2>8. CASE StorePointer(i) \/ Reorder(i) \/ Look(i) \/ Commit(i) \/ Announce(i)
    <3>1. handler[i].pc \notin Adding
      BY <2>8 DEF StorePointer, Reorder, Look, Commit, Announce, Adding
    <3>2. handler'[i].pc \notin Adding
      BY <2>8, HandlerGoes, AfterItemSteps DEF Adding, Idle
    <3> QED
      BY <2>2, <2>3, <2>4, <3>1, <3>2
  <2>9. CASE Fail(i) \/ Cancel(i)
    BY <2>1, <2>9 DEF Fail, Cancel
  <2>10. ~Restart
    BY <1>1, <1>2 DEF Restart
  <2> QED
    BY <1>4, <2>5, <2>6, <2>7, <2>8, <2>9, <2>10, RowMoves DEF HandlerStep
<1> QED
  BY <1>3, <1>4

-----------------------------------------------------------------------------
(* Undisturbed, the file and the Asset agree.                              *)

LEMMA SerialInit == Init => OneAtATime /\ AssetSound
<1> SUFFICES ASSUME Init PROVE OneAtATime /\ AssetSound
  OBVIOUS
<1>1. sets = <<>> /\ asset = NoAsset /\ \A j \in Jobs : handler[j].pc = "idle"
  BY DEF Init, Idle
<1>2. DOMAIN sets = {} /\ Len(sets) = 0
  BY <1>1
<1>3. OneAtATime
  BY <1>1, <1>2 DEF Init, OneAtATime, Busy
<1>4. (\A x : ~Listed(x)) /\ InOrder
  BY <1>2 DEF Listed, ListedIn, InOrder, Ordered
<1> QED
  BY <1>1, <1>3, <1>4 DEF AssetSound, Busy

\* A behaviour that is undisturbed was so before; its statuses change only as
\* jobs are submitted and settle.
LEMMA UndisturbedBefore ==
    ASSUME IInv, [Next]_<<scenario, vars>>, Undisturbed'
    PROVE  /\ Undisturbed
           /\ attempt' = attempt /\ \A j \in Jobs : attempt[j] = 0
           /\ ~Restart /\ \A j \in Jobs : ~Retry(j) /\ ~Delete(j) /\ ~SubmissionFails(j)
<1> USE DEF IInv
<1>1. scenario' = scenario
  BY DEF Next, vars
<1>2. /\ restarts = 0 /\ restarts' = 0 /\ 1 \in Jobs /\ retries' = 0 /\ retries \in Nat
      /\ \A j \in Jobs : status'[j] # "gone"
  BY RowMoves, BatchAssumption DEF Undisturbed, Jobs, Typed
<1>3. retries' = retries \/ retries' = retries + 1
  <2>1. ASSUME NEW j \in Jobs, HandlerStep(j) PROVE retries' = retries
    BY <2>1 DEF HandlerStep, Read, CreateSet, StorePointer, AppendToSet, Reorder, Look, Commit,
                Announce, jobVars
  <2> QED
    BY <2>1 DEF Next, vars, Submit, SubmissionFails, Run, Complete, Fail, PostprocessingFails,
                Cancel, Delete, Retry, Depart, Restart
<1>4. retries = 0 /\ \A j \in Jobs : ~Retry(j)
  BY <1>2, <1>3 DEF Retry
<1>5. attempt' = attempt /\ \A j \in Jobs : attempt[j] = 0
  <2>1. /\ attempt \in [Jobs -> 0..MaxRetries] /\ attempt' \in [Jobs -> 0..MaxRetries]
        /\ \A j \in Jobs : attempt[j] <= retries /\ attempt'[j] <= retries'
    BY TypedStep DEF Typed
  <2>2. \A j \in Jobs : attempt[j] = 0 /\ attempt'[j] = 0
    BY <2>1, <1>2, <1>4
  <2> QED
    BY <2>1, <2>2
<1>6. ~Restart
  BY <1>2 DEF Restart
<1>7. \A j \in Jobs : ~Delete(j) /\ ~SubmissionFails(j)
  BY <1>2, BatchAssumption DEF Delete, SubmissionFails, Typed, Jobs
<1>8. \A j \in Jobs : status[j] # "gone"
  BY <1>2, RowMoves
<1> QED
  BY <1>1, <1>2, <1>4, <1>5, <1>6, <1>7, <1>8 DEF Undisturbed

\* Files that list at most one output are in order.
LEMMA SmallInOrder ==
    ASSUME NEW files \in Seq(Seq(Output)), Once(files),
           NEW C, IsFiniteSet(C), ~(Cardinality(C) > 1),
           \A x : ListedIn(files, x) => x \in C
    PROVE  Ordered(files)
<1> SUFFICES ASSUME NEW s \in DOMAIN files PROVE files[s] = InputOrder(ToSet(files[s]))
  BY DEF Ordered
<1> DEFINE q == files[s]
           S == ToSet(q)
           o == InputOrder(S)
<1>1. q \in Seq(Output) /\ IsInjective(q)
  BY DEF Once, IsInjective
<1>2. S \in SUBSET C /\ S \in SUBSET Output
  BY <1>1 DEF ListedIn, ToSet
<1>3. IsFiniteSet(S) /\ Cardinality(S) = Len(q)
  BY <1>1, FileLength
<1>4. Cardinality(S) \in Nat /\ Cardinality(S) <= Cardinality(C) /\ Cardinality(C) \in Nat
  BY <1>2, <1>3, FS_Subset, FS_CardinalityType
<1>5. Len(q) = 0 \/ Len(q) = 1
  BY <1>3, <1>4
<1>6. OnePerJob(S)
  <2> SUFFICES ASSUME NEW x \in S, NEW y \in S PROVE x = y
    BY DEF OnePerJob
  <2>1. PICK i \in DOMAIN q : q[i] = x
    BY DEF ToSet
  <2>2. PICK k \in DOMAIN q : q[k] = y
    BY DEF ToSet
  <2>3. DOMAIN q = 1..Len(q)
    BY <1>1
  <2>4. i = k
    BY <1>5, <2>3
  <2> QED
    BY <2>1, <2>2, <2>4
<1>7. o \in Seq(Output) /\ Len(o) = Len(q) /\ ToSet(o) = S
  BY <1>2, <1>3, <1>6, OrderIsFile
<1> HIDE DEF q, o
<1>8. \A i \in 1..Len(q) : o[i] = q[i]
  <2> SUFFICES ASSUME NEW i \in 1..Len(q) PROVE o[i] = q[i]
    OBVIOUS
  <2>1. i = 1 /\ Len(q) = 1
    <3>1. \A n \in {0, 1} : \A m \in 1..n : m = 1 /\ n = 1
      OBVIOUS
    <3> QED
      BY <1>5, <3>1
  <2>2. DOMAIN q = {1}
    BY <1>1, <2>1
  <2>3. S = {q[1]}
    BY <2>2 DEF ToSet
  <2>4. o[1] \in S
    BY <1>7, <2>1 DEF ToSet
  <2> QED
    BY <2>1, <2>3, <2>4
<1>9. o = q
  BY <1>1, <1>7, <1>8, SeqEqual
<1> QED
  BY <1>9 DEF o, q

\* When the whole batch is settled, no step of an undisturbed behaviour that is
\* not a handler's changes a row.
LEMMA SettledStays ==
    ASSUME IInv, [Next]_<<scenario, vars>>, Undisturbed', \A j \in Jobs : status[j] \in Settled
    PROVE  \/ UNCHANGED <<status, handler, pointer, sets, asset>>
           \/ \E j \in Jobs : HandlerStep(j)
<1>1. UNCHANGED <<scenario, vars>> => UNCHANGED <<status, handler, pointer, sets, asset>>
  BY DEF vars
<1>2. \A j \in Jobs : ~Submit(j) /\ ~Run(j) /\ ~PostprocessingFails(j)
  BY DEF Submit, Run, PostprocessingFails, Settled
<1>3. \A j \in Jobs : ~Complete(j) /\ ~Fail(j) /\ ~Cancel(j)
  BY DEF Complete, Fail, Cancel, Settled
<1>4. ~Depart
  BY DEF Depart, Settled
<1> QED
  BY <1>1, <1>2, <1>3, <1>4, UndisturbedBefore DEF Next

\* A handler that follows the others commits the Asset: what it has read is
\* what is completed, and no other handler was there since it looked.
LEMMA CommitSucceeds ==
    ASSUME IInv, Undisturbed, NEW k \in Jobs, Commit(k)
    PROVE  /\ status' = status
           /\ asset' = [set |-> 1, members |-> InputOrder(Completed)]
           /\ handler'[k].pc = "announce"
<1> USE DEF IInv
<1>1. handler[k].pc = "commit" /\ Busy(k) /\ handler[k].whole
  BY DEF Commit, Busy, HandlersSound
<1>2. handler[k].completed = Completed /\ handler[k].seen = asset
  BY <1>1 DEF AssetSound
<1>3. handler[k].set = 1
  <2>1. Len(sets) \in Nat /\ Len(sets) <= 1
    BY DEF Typed, OneAtATime
  <2>2. handler[k].set \in Nat /\ handler[k].set >= 1 /\ handler[k].set <= Len(sets)
    BY <1>1 DEF Typed, HandlerRecord
  <2> QED
    BY <2>1, <2>2
<1> DEFINE new == [set |-> 1, members |-> InputOrder(Completed)]
<1>4. asset \in {NoAsset, new}
  BY DEF AssetSound
<1> HIDE DEF new
<1>5. asset' = new /\ Goto(k, "announce") /\ status' = status
  BY <1>2, <1>3, <1>4 DEF Commit, new
<1> QED
  BY <1>5, GotoMoves DEF new

\* What a step does when handlers follow each other: it is the step of the only
\* handler at work, or it leaves the set and the Asset alone.
LEMMA SerialSteps ==
    ASSUME IInv, [Next]_<<scenario, vars>>, Undisturbed'
    PROVE  \/ /\ UNCHANGED <<pointer, sets, asset>>
              /\ \A i \in Jobs :
                    \/ handler'[i] = handler[i]
                    \/ handler'[i].pc = "read" /\ handler[i].pc \notin {"create", "append", "store"}
           \/ \E k \in Jobs :
                 /\ HandlerStep(k) /\ status' = status
                 /\ Read(k) \/ Busy(k)
                 /\ \A i \in Jobs \ {k} :
                       handler'[i] = handler[i] /\ handler[i].pc \in {"idle", "read"}
<1> USE DEF IInv
<1>1. Undisturbed /\ OneAtATime
  BY UndisturbedBefore
<1>2. UNCHANGED <<scenario, vars>> => UNCHANGED <<pointer, sets, asset, handler>>
  BY DEF vars
<1>3. ASSUME NEW j \in Jobs, JobSteps(j) \/ Depart
      PROVE  UNCHANGED <<pointer, sets, asset, handler>>
  BY <1>3 DEF JobSteps, Submit, SubmissionFails, Run, PostprocessingFails, Delete, Retry, Depart,
              batchVars
<1>4. ASSUME NEW j \in Jobs, Complete(j) \/ Fail(j) \/ Cancel(j)
      PROVE  /\ UNCHANGED <<pointer, sets, asset>>
             /\ \A i \in Jobs : i # j => handler'[i] = handler[i]
             /\ handler'[j].pc = "read" /\ handler[j].pc \notin {"create", "append", "store"}
  <2>1. UNCHANGED <<pointer, sets, asset>> /\ status[j] # "completed"
    BY <1>4 DEF Complete, Fail, Cancel, batchVars
  <2>2. handler[j].pc \notin {"create", "append", "store"}
    BY <2>1 DEF HandlersSound
  <2> QED
    BY <1>4, <2>1, <2>2, HandlerStarts
<1>5. ASSUME NEW k \in Jobs, HandlerStep(k)
      PROVE  /\ status' = status
             /\ Read(k) \/ Busy(k)
             /\ \A i \in Jobs \ {k} :
                   handler'[i] = handler[i] /\ handler[i].pc \in {"idle", "read"}
  <2>1. \A i \in Jobs \ {k} : handler'[i] = handler[i]
    BY <1>5, HandlerMoves
  <2>2. CASE Read(k)
    <3>1. \A i \in Jobs : handler[i].pc \in {"idle", "read"}
      BY <1>1, <2>2 DEF Read, Undisturbed
    <3> QED
      BY <2>1, <2>2, <3>1 DEF Read
  <2>3. CASE ~Read(k)
    <3>1. Busy(k)
      BY <1>5, <2>3 DEF HandlerStep, CreateSet, StorePointer, AppendToSet, Reorder, Look, Commit,
                        Announce, Busy
    <3>2. \A i \in Jobs \ {k} : handler[i].pc \in {"idle", "read"}
      BY <1>1, <3>1 DEF OneAtATime, Busy
    <3>3. status' = status
      BY <1>1, <1>5, <2>3, CommitSucceeds
      DEF HandlerStep, CreateSet, StorePointer, AppendToSet, Reorder, Look, Announce
    <3> QED
      BY <2>1, <3>1, <3>2, <3>3
  <2> QED
    BY <2>2, <2>3
<1>6. ~Restart
  BY UndisturbedBefore
<1>7. CASE UNCHANGED <<scenario, vars>>
  BY <1>2, <1>7
<1>8. CASE Depart
  <2>1. 1 \in Jobs
    BY BatchAssumption DEF Jobs
  <2> QED
    BY <2>1, <1>3, <1>8
<1>9. CASE \E j \in Jobs : JobSteps(j)
  BY <1>3, <1>9
<1>10. CASE \E j \in Jobs : Complete(j) \/ Fail(j) \/ Cancel(j)
  BY <1>4, <1>10
<1>11. CASE \E k \in Jobs : HandlerStep(k)
  BY <1>5, <1>11
<1> HIDE DEF IInv
<1> QED
  BY <1>6, <1>7, <1>8, <1>9, <1>10, <1>11, Zenon DEF Next, JobSteps

\* One handler at a time works on one file, if it did so before.
LEMMA OneAtATimeStep ==
    ASSUME IInv, [Next]_<<scenario, vars>>, Undisturbed'
    PROVE  OneAtATime'
<1> USE DEF IInv
<1>1. Undisturbed /\ OneAtATime
  BY UndisturbedBefore
<1>2. Len(sets) \in Nat /\ Len(sets) <= 1
  BY <1>1 DEF Typed, OneAtATime
<1>3. CASE /\ UNCHANGED <<pointer, sets, asset>>
           /\ \A i \in Jobs :
                 \/ handler'[i] = handler[i]
                 \/ handler'[i].pc = "read" /\ handler[i].pc \notin {"create", "append", "store"}
  <2>1. \A i \in Jobs : /\ handler'[i].pc = "store" <=> handler[i].pc = "store"
                        /\ handler'[i].pc = "create" => handler[i].pc = "create"
                        /\ Busy(i)' => Busy(i)
    BY <1>3 DEF Busy
  <2> QED
    BY <1>1, <1>3, <2>1 DEF OneAtATime
<1>4. ASSUME NEW k \in Jobs, HandlerStep(k), Read(k) \/ Busy(k),
             \A i \in Jobs \ {k} : handler'[i] = handler[i] /\ handler[i].pc \in {"idle", "read"}
      PROVE  OneAtATime'
  <2>1. \A i \in Jobs \ {k} : handler'[i].pc \in {"idle", "read"}
    BY <1>4
  <2>2. \A i, j \in Jobs : Busy(i)' /\ Busy(j)' => i = j
    BY <2>1 DEF Busy
  <2>3. /\ handler[k].pc = "create" => Len(sets) = 0
        /\ pointer = IF handler[k].pc = "store" THEN 0 ELSE Len(sets)
    BY <1>1, <1>4 DEF OneAtATime
  <2>4. SUFFICES /\ Len(sets') <= 1
                 /\ handler'[k].pc = "create" => Len(sets') = 0
                 /\ pointer' = IF handler'[k].pc = "store" THEN 0 ELSE Len(sets')
    <3>1. \A i \in Jobs : handler'[i].pc \in {"create", "store"} => i = k
      BY <2>1
    <3> QED
      BY <2>2, <3>1 DEF OneAtATime
  <2>5. CASE Read(k)
    <3>1. handler'[k].pc \notin {"store"} /\ (handler'[k].pc = "create" => pointer = 0)
      BY <2>5, HandlerGoes, AfterItemSteps DEF Idle
    <3>2. pointer' = pointer /\ sets' = sets /\ handler[k].pc = "read"
      BY <2>5 DEF Read, batchVars
    <3> QED
      BY <1>2, <2>3, <3>1, <3>2
  <2>6. CASE CreateSet(k)
    <3>1. handler[k].pc = "create" /\ handler'[k].pc = "store" /\ pointer' = pointer
      BY <2>6, HandlerGoes DEF CreateSet
    <3>2. Len(sets') = Len(sets) + 1
      BY <2>6 DEF CreateSet, Typed, Output
    <3> QED
      BY <1>2, <2>3, <3>1, <3>2
  <2>7. CASE StorePointer(k)
    <3>1. handler[k].pc = "store" /\ pointer' = handler[k].set /\ sets' = sets
      BY <2>7 DEF StorePointer
    <3>2. handler[k].set \in Nat /\ handler[k].set >= 1 /\ handler[k].set <= Len(sets)
      BY <3>1 DEF Typed, HandlerRecord
    <3>3. handler'[k].pc \notin {"create", "store"}
      BY <2>7, HandlerGoes, AfterItemSteps
    <3> QED
      BY <1>2, <3>1, <3>2, <3>3
  <2>8. CASE AppendToSet(k) \/ Reorder(k) \/ Look(k) \/ Commit(k) \/ Announce(k)
    <3>1. handler[k].pc \notin {"create", "store"} /\ pointer' = pointer
      BY <2>8 DEF AppendToSet, Reorder, Look, Commit, Announce, batchVars
    <3>2. Len(sets') = Len(sets)
      BY <2>8 DEF AppendToSet, Reorder, Look, Commit, Announce, batchVars, Typed
    <3>3. handler'[k].pc \notin {"create", "store"}
      BY <2>8, HandlerGoes, AfterItemSteps DEF Idle
    <3> QED
      BY <1>2, <2>3, <3>1, <3>2, <3>3
  <2> QED
    BY <1>4, <2>5, <2>6, <2>7, <2>8 DEF HandlerStep
<1> HIDE DEF IInv
<1> QED
  BY <1>3, <1>4, SerialSteps

\* Undisturbed, a handler's step keeps what is completed, and a step in a
\* settled batch keeps every row.
LEMMA CompletedStays ==
    ASSUME IInv, [Next]_<<scenario, vars>>, Undisturbed'
    PROVE  /\ Completed \subseteq Completed'
           /\ \A k \in Jobs : HandlerStep(k) => status' = status /\ Completed' = Completed
           /\ (\A j \in Jobs : status[j] \in Settled) => status' = status /\ Completed' = Completed
<1> USE DEF IInv
<1>1. attempt' = attempt
  BY UndisturbedBefore
<1>2. status' = status => Completed' = Completed
  BY <1>1 DEF Completed
<1>3. ASSUME NEW k \in Jobs, HandlerStep(k) PROVE status' = status
  BY <1>3, UndisturbedBefore, CommitSucceeds
  DEF HandlerStep, Read, CreateSet, StorePointer, AppendToSet, Reorder, Look, Announce
<1>4. ASSUME NEW j \in Jobs, status[j] = "completed" PROVE status'[j] = "completed"
  <2>1. ASSUME NEW i \in Jobs, \/ Submit(i) \/ Run(i) \/ Complete(i) \/ Fail(i)
                               \/ PostprocessingFails(i) \/ Cancel(i) \/ Depart
        PROVE  status'[j] = "completed"
    BY <1>4, <2>1 DEF Submit, Run, Complete, Fail, PostprocessingFails, Cancel, Depart, Typed
  <2>2. UNCHANGED <<scenario, vars>> => status' = status
    BY DEF vars
  <2> HIDE DEF IInv
  <2> QED
    BY <1>3, <1>4, <2>1, <2>2, UndisturbedBefore DEF Next
<1>5. Completed \subseteq Completed'
  BY <1>1, <1>4 DEF Completed
<1> QED
  BY <1>2, <1>3, <1>5, SettledStays

\* When a handler found the batch whole, all its jobs are settled.
LEMMA WholeSettles ==
    ASSUME IInv, Undisturbed, NEW k \in Jobs, handler[k].whole
    PROVE  \A j \in Jobs : status[j] \in Settled
<1>1. \A j \in Jobs : attempt[j] = 0 /\ status[j] # "gone"
  BY DEF IInv, Typed, Undisturbed
<1> QED
  BY <1>1 DEF IInv, WholeIsSettled

\* The Asset, once there is one, holds the outputs of a settled batch.
LEMMA AssetStep ==
    ASSUME IInv, [Next]_<<scenario, vars>>, Undisturbed', asset' # NoAsset
    PROVE  /\ \A j \in Jobs : status'[j] \in Settled
           /\ \A j \in Jobs : Busy(j)' => handler'[j].whole
           /\ asset' = [set |-> 1, members |-> InputOrder(Completed')]
<1> USE DEF IInv
<1>1. Undisturbed /\ AssetSound
  BY UndisturbedBefore
<1>2. asset' = asset \/ \E k \in Jobs : Commit(k)
  <2>1. \A k \in Jobs : HandlerStep(k) => asset' = asset \/ Commit(k)
    BY DEF HandlerStep, Read, CreateSet, StorePointer, AppendToSet, Reorder, Look, Announce, batchVars
  <2> QED
    BY <2>1, SerialSteps
<1>3. ASSUME NEW k \in Jobs, Commit(k) PROVE handler[k].whole
  BY <1>3 DEF Commit, HandlersSound
<1>4. \A j \in Jobs : status[j] \in Settled
  BY <1>1, <1>2, <1>3, WholeSettles DEF AssetSound
<1>5. status' = status /\ Completed' = Completed
  BY <1>4, CompletedStays
<1>6. asset' = [set |-> 1, members |-> InputOrder(Completed)]
  BY <1>1, <1>2, CommitSucceeds DEF AssetSound
<1>7. ASSUME NEW i \in Jobs, Busy(i)' PROVE handler'[i].whole
  <2>1. CASE asset # NoAsset /\ handler'[i] = handler[i]
    BY <1>1, <1>7, <2>1 DEF AssetSound, Busy
  <2>2. CASE Read(i)
    <3>1. Whole
      BY <1>4, WholeMeansAll
    <3>2. handler'[i] # Idle
      BY <1>7 DEF Busy, Idle
    <3> QED
      BY <2>2, <3>1, <3>2, HandlerMoves DEF Read, HandlerStep
  <2>3. CASE HandlerStep(i) /\ Busy(i)
    <3>1. handler[i].whole
      <4>1. CASE asset # NoAsset
        BY <1>1, <2>3, <4>1 DEF AssetSound
      <4>2. CASE asset = NoAsset
        <5>1. PICK k \in Jobs : Commit(k)
          BY <1>2, <4>2
        <5>2. Busy(k)
          BY <5>1 DEF Commit, Busy
        <5> QED
          BY <1>1, <1>3, <2>3, <5>1, <5>2 DEF OneAtATime
      <4> QED
        BY <4>1, <4>2
    <3>2. handler'[i] # Idle
      BY <1>7 DEF Busy, Idle
    <3> QED
      BY <2>3, <3>1, <3>2, HandlerMoves DEF Busy
  <2>4. CASE asset = NoAsset /\ handler'[i] = handler[i]
    <3>1. PICK k \in Jobs : Commit(k)
      BY <1>2, <2>4
    <3>2. Busy(k) /\ Busy(i)
      BY <1>7, <2>4, <3>1 DEF Commit, Busy
    <3> QED
      BY <1>1, <1>3, <2>4, <3>1, <3>2 DEF OneAtATime
  <2>5. handler'[i] # handler[i] => Read(i) \/ (HandlerStep(i) /\ Busy(i))
    BY <1>7, SerialSteps DEF Busy
  <2> QED
    BY <2>1, <2>2, <2>3, <2>4, <2>5
<1> QED
  BY <1>4, <1>5, <1>6, <1>7

\* What a handler has found completed, in a batch it found whole, still is.
LEMMA WholeReadingStep ==
    ASSUME IInv, [Next]_<<scenario, vars>>, Undisturbed',
           NEW i \in Jobs, Busy(i)', handler'[i].whole
    PROVE  handler'[i].completed = Completed'
<1> USE DEF IInv
<1>1. Undisturbed /\ AssetSound
  BY UndisturbedBefore
<1>2. handler'[i] # Idle
  BY DEF Busy, Idle
<1>3. CASE handler'[i] = handler[i]
  <2>1. handler[i].completed = Completed
    BY <1>1, <1>3 DEF AssetSound, Busy
  <2>2. \A j \in Jobs : status[j] \in Settled
    BY <1>1, <1>3, WholeSettles
  <2> QED
    BY <1>3, <2>1, <2>2, CompletedStays
<1>4. CASE Read(i)
  BY <1>2, <1>4, HandlerMoves, CompletedStays DEF Read, HandlerStep
<1>5. CASE HandlerStep(i) /\ Busy(i)
  <2>1. /\ handler'[i].completed = handler[i].completed
        /\ handler'[i].whole = handler[i].whole
    BY <1>2, <1>5, HandlerMoves DEF Busy
  <2> QED
    BY <1>1, <1>5, <2>1, CompletedStays DEF AssetSound
<1>6. handler'[i] # handler[i] => Read(i) \/ (HandlerStep(i) /\ Busy(i))
  BY SerialSteps DEF Busy
<1> QED
  BY <1>3, <1>4, <1>5, <1>6

\* The order a handler gives the file, of the only file there is.
LEMMA ReorderOrders ==
    ASSUME IInv, Undisturbed, NEW k \in Jobs, Reorder(k)
    PROVE  Ordered(sets')
<1> USE DEF IInv
<1>1. handler[k].pc = "reorder" /\ handler[k].whole /\ Busy(k)
  BY DEF Reorder, HandlersSound, Busy
<1>2. handler[k].completed = Completed
  BY <1>1 DEF AssetSound
<1>3. handler[k].set = 1 /\ Len(sets) = 1
  <2>1. Len(sets) \in Nat /\ Len(sets) <= 1
    BY DEF Typed, OneAtATime
  <2>2. handler[k].set \in Nat /\ handler[k].set >= 1 /\ handler[k].set <= Len(sets)
    BY <1>1 DEF Typed, HandlerRecord
  <2>3. \A a, b \in Nat : a >= 1 /\ a <= b /\ b <= 1 => a = 1 /\ b = 1
    OBVIOUS
  <2> QED
    BY <2>1, <2>2, <2>3
<1>4. sets \in Seq(Seq(Output)) /\ DOMAIN sets = {1} /\ sets[1] \in Seq(Output)
  <2>1. sets \in Seq(Seq(Output))
    BY DEF Typed
  <2>2. DOMAIN sets = 1..1
    BY <1>3, <2>1
  <2>3. DOMAIN sets = {1}
    BY <2>2
  <2>4. sets[1] \in Seq(Output)
    <3>1. \A t \in DOMAIN sets : sets[t] \in Seq(Output)
      BY <2>1
    <3> QED
      BY <2>3, <3>1
  <2> QED
    BY <2>1, <2>3, <2>4
<1> DEFINE S == ToSet(sets[1])
           q == InputOrder(S)
<1>5. S \subseteq Completed
  BY <1>4 DEF AssetSound, Listed, ListedIn, ToSet
<1>6. S \in SUBSET Output /\ OnePerJob(S)
  BY <1>5, CompletedOnePerJob DEF OnePerJob
<1>7. ToSet(q) = S /\ Len(q) = Cardinality(S)
  BY <1>6, OrderIsFile
<1>8. Cardinality(S) = Len(sets[1])
  BY <1>4, FileLength DEF ListedOnce, Once, IsInjective
<1>9. handler[k].completed \cap ToSet(sets[handler[k].set]) = S
  BY <1>2, <1>3, <1>5
<1> HIDE DEF S, q
<1>10. sets' = [sets EXCEPT ![1] = q]
  BY <1>3, <1>7, <1>8, <1>9 DEF Reorder, q
<1>11. DOMAIN sets' = {1} /\ sets'[1] = q
  BY <1>4, <1>10
<1> QED
  BY <1>7, <1>11 DEF Ordered, q

\* Past the ordering, the file is in the order of the input.
LEMMA InOrderStep ==
    ASSUME IInv, [Next]_<<scenario, vars>>, Undisturbed',
           \A x : ListedIn(sets', x) => x \in Completed',
           \/ asset' # NoAsset /\ \A j \in Jobs : ~Busy(j)'
           \/ \E j \in Jobs : handler'[j].pc \in {"look", "commit", "announce"}
    PROVE  Ordered(sets')
<1> USE DEF IInv
<1>1. Undisturbed /\ AssetSound
  BY UndisturbedBefore
<1>2. /\ Typed' /\ Once(sets') /\ sets' \in Seq(Seq(Output))
  BY TypedStep, ListedMoves DEF Typed
<1>3. IsFiniteSet(Completed') /\ IsFiniteSet(Completed)
  <2>1. Completed \in SUBSET Output
    BY CompletedOnePerJob
  <2>2. (Completed \in SUBSET Output)'
    BY <1>2, CompletedOnePerJob, PTL
  <2> QED
    BY <2>1, <2>2, OutputsFinite, FS_Subset
<1>4. ~(Cardinality(Completed') > 1) => Ordered(sets')
  BY <1>2, <1>3, SmallInOrder
<1>5. CASE /\ UNCHANGED <<pointer, sets, asset>>
           /\ \A i \in Jobs :
                 \/ handler'[i] = handler[i]
                 \/ handler'[i].pc = "read" /\ handler[i].pc \notin {"create", "append", "store"}
  <2>1. CASE \E j \in Jobs : handler'[j].pc \in {"look", "commit", "announce"}
    <3>1. \E j \in Jobs : handler[j].pc \in {"look", "commit", "announce"}
      BY <1>5, <2>1
    <3> QED
      BY <1>1, <1>5, <3>1 DEF AssetSound, InOrder
  <2>2. CASE asset' # NoAsset /\ \A j \in Jobs : ~Busy(j)'
    <3>1. asset # NoAsset /\ \A j \in Jobs : status[j] \in Settled
      BY <1>1, <1>5, <2>2 DEF AssetSound
    <3>2. CASE UNCHANGED <<status, handler, pointer, sets, asset>>
      BY <1>1, <2>2, <3>1, <3>2 DEF AssetSound, InOrder, Busy
    <3>3. ASSUME NEW k \in Jobs, Busy(k) PROVE ~Busy(k)' /\ handler'[k].pc = "read"
      BY <1>5, <2>2, <3>3 DEF Busy
    <3>4. CASE \E k \in Jobs : HandlerStep(k)
      <4>1. \A k \in Jobs : handler'[k].pc = "read" => handler'[k] = handler[k]
        <5>1. PICK k \in Jobs : HandlerStep(k)
          BY <3>4
        <5>2. handler'[k].pc # "read"
          BY <5>1, HandlerGoes, AfterItemSteps DEF HandlerStep, Idle
        <5> QED
          BY <5>1, <5>2, HandlerMoves
      <4>2. \A k \in Jobs : ~Busy(k)
        BY <3>3, <4>1 DEF Busy
      <4> QED
        BY <1>1, <1>5, <3>1, <4>2 DEF AssetSound, InOrder
    <3> QED
      BY <3>1, <3>2, <3>4, SettledStays
  <2> QED
    BY <2>1, <2>2
<1>6. ASSUME NEW k \in Jobs, HandlerStep(k), Read(k) \/ Busy(k),
             \A i \in Jobs \ {k} : handler'[i] = handler[i] /\ handler[i].pc \in {"idle", "read"}
      PROVE  Ordered(sets')
  <2>1. \/ asset' # NoAsset /\ ~Busy(k)'
        \/ handler'[k].pc \in {"look", "commit", "announce"}
    BY <1>6
  <2>2. Completed' = Completed
    BY <1>6, CompletedStays
  <2>3. handler'[k].whole /\ Busy(k)' => handler'[k].completed = Completed
    BY <2>2, WholeReadingStep
  <2>4. handler'[k].pc \in {"look", "announce"} /\ handler'[k].completed = {} => Ordered(sets')
    <3> SUFFICES ASSUME handler'[k].pc \in {"look", "announce"}, handler'[k].completed = {}
                 PROVE  Ordered(sets')
      OBVIOUS
    <3>1. HandlersSound'
      BY HandlersSoundStep
    <3>2. handler'[k].whole /\ Busy(k)'
      BY <3>1 DEF HandlersSound, Busy
    <3>3. Cardinality(Completed') = 0
      BY <2>2, <2>3, <3>2, FS_EmptySet
    <3> QED
      BY <1>4, <3>3
  <2>5. handler'[k].pc = "look" /\ ~(Cardinality(handler'[k].completed) > 1) => Ordered(sets')
    <3>1. HandlersSound'
      BY HandlersSoundStep
    <3> QED
      BY <1>4, <2>2, <2>3, <3>1 DEF HandlersSound, Busy
  <2>6. CASE Read(k)
    <3>1. /\ sets' = sets /\ asset' = asset /\ handler[k].pc = "read"
          /\ \A i \in Jobs : ~Busy(i)
      BY <1>6, <2>6 DEF Read, batchVars, Busy
    <3>2. asset # NoAsset => Ordered(sets')
      BY <1>1, <3>1 DEF AssetSound, InOrder
    <3>3. CASE handler'[k].pc \in {"look", "commit", "announce"}
      <4>1. handler'[k].pc = AfterItem(handler'[k], handler'[k].set)
        BY <2>6, <3>3, HandlerGoes DEF Idle
      <4>2. handler'[k].set = pointer /\ pointer = Len(sets)
        <5>1. handler'[k] # Idle
          BY <3>3 DEF Idle
        <5>2. ~\E j \in Jobs : handler[j].pc = "store"
          BY <3>1 DEF Busy
        <5> QED
          BY <1>1, <1>6, <3>1, <5>1, <5>2, HandlerMoves DEF OneAtATime
      <4>3. Len(sets) = 0 => Ordered(sets')
        BY <3>1 DEF Ordered, Typed
      <4> QED
        BY <2>4, <2>5, <3>3, <4>1, <4>2, <4>3, AfterItemSteps
    <3> QED
      BY <2>1, <3>1, <3>2, <3>3
  <2>7. CASE CreateSet(k)
    BY <2>1, <2>7, HandlerGoes DEF Busy
  <2>8. CASE StorePointer(k) \/ AppendToSet(k)
    <3>1. /\ handler'[k].pc = AfterItem(handler'[k], handler'[k].set)
          /\ handler[k].pc \in {"store", "append"}
      BY <2>8, HandlerGoes
    <3>2. /\ handler'[k].set = handler[k].set /\ handler[k].set # 0
          /\ handler'[k].whole = handler[k].whole
      <4>1. handler'[k] = Idle \/ /\ handler'[k].set = handler[k].set
                                  /\ handler'[k].whole = handler[k].whole
        BY <1>6, <3>1, HandlerMoves
      <4>2. Goto(k, AfterItem(handler[k], handler[k].set))
        BY <2>8 DEF StorePointer, AppendToSet
      <4>3. handler[k].set \in Nat /\ handler[k].set >= 1
        BY <3>1 DEF Typed, HandlerRecord
      <4> QED
        BY <4>2, <4>3, GotoMoves
    <3>3. asset' = asset /\ Busy(k)
      BY <2>8, <3>1 DEF StorePointer, AppendToSet, Busy
    <3>4. handler'[k].pc \in {"idle", "announce", "reorder", "look"}
      BY <3>1, AfterItemSteps
    <3>5. CASE handler'[k].pc = "idle"
      <4>1. ~handler[k].whole
        BY <3>1, <3>2, <3>5, AfterItemSteps
      <4>2. asset = NoAsset
        BY <1>1, <3>3, <4>1 DEF AssetSound
      <4> QED
        BY <2>1, <3>3, <3>5, <4>2
    <3>6. CASE handler'[k].pc = "reorder"
      BY <2>1, <3>6 DEF Busy
    <3> QED
      BY <2>4, <2>5, <3>1, <3>2, <3>4, <3>5, <3>6, AfterItemSteps
  <2>9. CASE Reorder(k)
    BY <1>1, <2>9, ReorderOrders
  <2>10. CASE Look(k) \/ Commit(k) \/ Announce(k)
    <3>1. handler[k].pc \in {"look", "commit", "announce"} /\ sets' = sets
      BY <2>10 DEF Look, Commit, Announce, batchVars
    <3> QED
      BY <1>1, <3>1 DEF AssetSound, InOrder
  <2> QED
    BY <1>6, <2>6, <2>7, <2>8, <2>9, <2>10 DEF HandlerStep
<1> HIDE DEF IInv
<1> QED
  BY <1>5, <1>6, SerialSteps

LEMMA AssetSoundStep ==
    ASSUME IInv, [Next]_<<scenario, vars>>, Undisturbed'
    PROVE  AssetSound'
<1> USE DEF IInv
<1>1. Undisturbed /\ AssetSound
  BY UndisturbedBefore
<1>2. ASSUME NEW x, ListedIn(sets', x) PROVE x \in Completed'
  <2>1. CASE Listed(x)
    BY <1>1, <2>1, CompletedStays DEF AssetSound
  <2>2. ASSUME NEW j \in Jobs, CreateSet(j) \/ AppendToSet(j), x = <<j, attempt[j]>>
        PROVE  x \in Completed'
    BY <2>2, AddedBy DEF Completed
  <2> QED
    BY <1>2, <2>1, <2>2, ListedMoves
<1>3. ASSUME NEW i \in Jobs, handler'[i].pc = "commit" PROVE handler'[i].seen = asset'
  <2>1. CASE UNCHANGED asset /\ handler'[i] = handler[i]
    BY <1>1, <1>3, <2>1 DEF AssetSound
  <2>2. CASE HandlerStep(i)
    <3>1. Look(i)
      BY <1>3, <2>2, HandlerGoes, AfterItemSteps DEF HandlerStep, Idle
    <3> QED
      BY <3>1, HandlerGoes DEF Look, batchVars
  <2> QED
    BY <1>3, <2>1, <2>2, SerialSteps
<1>4. (\/ asset' # NoAsset /\ \A j \in Jobs : ~Busy(j)'
       \/ \E j \in Jobs : handler'[j].pc \in {"look", "commit", "announce"}) => InOrder'
  BY <1>2, InOrderStep DEF InOrder
<1> HIDE DEF IInv
<1> QED
  BY <1>2, <1>3, <1>4, AssetStep, WholeReadingStep DEF AssetSound, Listed

-----------------------------------------------------------------------------
(* The theorems.                                                           *)

\* The inductive invariant holds at the start ...
LEMMA InitIInv == Init => IInv
<1> SUFFICES ASSUME Init PROVE IInv
  OBVIOUS
<1>1. /\ sets = <<>> /\ DOMAIN sets = {} /\ 1 \in Jobs
      /\ \A j \in Jobs : handler[j] = Idle /\ status[j] = "none"
  BY BatchAssumption DEF Init, Jobs
<1>2. /\ ~Idle.item /\ ~Idle.whole /\ Idle.pc = "idle" /\ Idle.completed = {}
  BY DEF Idle
<1>3. SubmittedInOrder
  BY <1>1 DEF SubmittedInOrder
<1>4. HandlersSound /\ WholeIsSettled
  BY <1>1, <1>2 DEF HandlersSound, OnePerJob, WholeIsSettled
<1>5. NothingEarly /\ ListedOnce /\ CompletedListed
  BY <1>1, <1>2 DEF NothingEarly, ListedOnce, Once, CompletedListed, Listed, ListedIn, Adding
<1> QED
  BY <1>3, <1>4, <1>5, TypedInit, SerialInit DEF IInv

\* ... and every step keeps it.
LEMMA NextIInv == IInv /\ [Next]_<<scenario, vars>> => IInv'
<1> SUFFICES ASSUME IInv, [Next]_<<scenario, vars>> PROVE IInv'
  OBVIOUS
<1>1. Typed' /\ SubmittedInOrder' /\ HandlersSound'
  BY TypedStep, SubmittedInOrderStep, HandlersSoundStep DEF IInv
<1>2. ListedOnce'
  BY ListedMoves DEF ListedOnce
<1> QED
  BY <1>1, <1>2, WholeIsSettledStep, NothingEarlyStep, CompletedListedStep, OneAtATimeStep,
     AssetSoundStep DEF IInv

LEMMA Invariance == Spec => []IInv
<1> QED
  BY InitIInv, NextIInv, PTL DEF Spec

\* Whatever the batch's size, and however its jobs end, are retried or restarted
\* and its handlers overlap, the rows, the set files and the handlers are well
\* formed: no file lists an output twice, and a handler that has a file to work
\* on has one that exists.
THEOREM TypeCorrect == Spec => []TypeOK
<1>1. IInv => TypeOK
  <2> SUFFICES ASSUME IInv PROVE TypeOK
    OBVIOUS
  <2>1. Typed /\ Len(sets) \in Nat /\ DOMAIN sets = 1..Len(sets)
    BY DEF IInv, Typed
  <2>2. \A s \in DOMAIN sets : sets[s] \in Seq(Output) /\ IsInjective(sets[s])
    <3>1. \A s \in DOMAIN sets : sets[s] \in Seq(Output)
      BY <2>1 DEF Typed
    <3>2. \A s \in DOMAIN sets : IsInjective(sets[s])
      BY DEF IInv, ListedOnce, Once, IsInjective
    <3> QED
      BY <3>1, <3>2
  <2>3. asset.set \in 0..Len(sets) /\ asset.members \in Seq(Output)
    BY <2>1 DEF Typed
  <2>4. ASSUME NEW j \in Jobs
        PROVE  /\ handler[j].pc \in Steps
               /\ handler[j].completed \subseteq Output
               /\ handler[j].set \in (IF handler[j].pc \in {"store", "append", "reorder", "look", "commit"}
                                      THEN DOMAIN sets ELSE 0..Len(sets))
    <3>1. handler[j] \in HandlerRecord
      BY <2>1 DEF Typed
    <3>2. /\ handler[j].set \in Nat /\ handler[j].set <= Len(sets)
          /\ handler[j].pc \in {"store", "append", "reorder", "look", "commit"} => handler[j].set >= 1
      BY <2>1, <3>1 DEF Typed, HandlerRecord
    <3>3. handler[j].set \in 0..Len(sets)
      BY <2>1, <3>2
    <3>4. handler[j].set >= 1 => handler[j].set \in DOMAIN sets
      BY <2>1, <3>2
    <3>5. handler[j].pc \in Steps /\ handler[j].completed \subseteq Output
      BY <3>1 DEF HandlerRecord
    <3> QED
      BY <3>2, <3>3, <3>4, <3>5
  <2> QED
    BY <2>1, <2>2, <2>3, <2>4 DEF Typed, TypeOK
<1> QED
  BY <1>1, Invariance, PTL

\* No output of a batch is lost or listed twice, however its handlers overlap
\* and the rows are cancelled, deleted and retried: once its handler is past
\* adding it, the output of a completed job has exactly one place in the set
\* files (create_batch_output_set and append_to_set in
\* _handle_batch_job_completion).
THEOREM NoOutputIsLost == Spec => []OutputsAreKept
<1>1. IInv => OutputsAreKept
  <2> SUFFICES ASSUME IInv, NEW j \in Jobs, status[j] = "completed",
                      handler[j].pc \notin {"read", "create", "append"},
                      restarts = 0, status[1] # "gone"
               PROVE  Cardinality({place \in UNION {{s} \X DOMAIN sets[s] : s \in DOMAIN sets} :
                                     sets[place[1]][place[2]] = <<j, attempt[j]>>}) = 1
    BY DEF OutputsAreKept
  <2> DEFINE x == <<j, attempt[j]>>
             Places == {place \in UNION {{s} \X DOMAIN sets[s] : s \in DOMAIN sets} :
                          sets[place[1]][place[2]] = x}
  <2>1. PICK s \in DOMAIN sets : \E i \in DOMAIN sets[s] : sets[s][i] = x
    BY DEF IInv, CompletedListed, Adding, Listed, ListedIn
  <2> PICK i \in DOMAIN sets[s] : sets[s][i] = x
    BY <2>1
  <2>2. <<s, i>> \in Places
    OBVIOUS
  <2>3. ASSUME NEW place \in Places PROVE place = <<s, i>>
    <3>1. PICK t \in DOMAIN sets : place \in {t} \X DOMAIN sets[t]
      OBVIOUS
    <3>2. PICK k \in DOMAIN sets[t] : place = <<t, k>>
      BY <3>1
    <3>3. sets[t][k] = x
      BY <3>2
    <3> QED
      BY <3>2, <3>3 DEF IInv, ListedOnce, Once
  <2>4. Places = {<<s, i>>}
    BY <2>2, <2>3
  <2> QED
    BY <2>4, FS_Singleton
<1> QED
  BY <1>1, Invariance, PTL

\* Once no handler runs, the set file and the container Asset hold the same
\* outputs in the same order, if the handlers followed each other and no row
\* was deleted, retried or lost (reorder_set_items, then
\* create_container_asset_from_media).
THEOREM SetAndAssetAgree == Spec => []SetMatchesAsset
<1>1. IInv => SetMatchesAsset
  <2> SUFFICES ASSUME IInv, asset # NoAsset, ~scenario.overlap, restarts = 0, retries = 0,
                      \A j \in Jobs : handler[j].pc = "idle" /\ status[j] # "gone"
               PROVE  sets[asset.set] = asset.members
    BY DEF SetMatchesAsset
  <2>1. Typed /\ OneAtATime /\ AssetSound
    BY DEF IInv, Undisturbed
  <2>2. InOrder /\ asset = [set |-> 1, members |-> InputOrder(Completed)]
    BY <2>1 DEF AssetSound, Busy
  <2>3. sets \in Seq(Seq(Output)) /\ Len(sets) \in Nat /\ Len(sets) <= 1 /\ asset.set <= Len(sets)
    BY <2>1 DEF Typed, OneAtATime
  <2>4. asset.set = 1 /\ asset.members = InputOrder(Completed)
    BY <2>2
  <2>5. Len(sets) = 1
    <3>1. \A n \in Nat : n <= 1 /\ 1 <= n => n = 1
      OBVIOUS
    <3>2. 1 <= Len(sets)
      BY <2>3, <2>4
    <3> QED
      BY <2>3, <3>1, <3>2
  <2>6. DOMAIN sets = 1..1
    BY <2>3, <2>5
  <2>7. DOMAIN sets = {1}
    BY <2>6
  <2>8. sets[1] = InputOrder(ToSet(sets[1]))
    BY <2>2, <2>7 DEF InOrder, Ordered
  <2>9. ToSet(sets[1]) \subseteq Completed
    BY <2>1, <2>7 DEF AssetSound, Listed, ListedIn, ToSet
  <2>10. ASSUME NEW x \in Completed PROVE x \in ToSet(sets[1])
    <3>1. PICK j \in Jobs : x = <<j, attempt[j]>> /\ status[j] = "completed"
      BY DEF Completed
    <3>2. 1 \in Jobs
      BY BatchAssumption DEF Jobs
    <3>3. Listed(x)
      BY <3>1, <3>2 DEF IInv, CompletedListed, Adding
    <3> QED
      BY <2>7, <3>3 DEF Listed, ListedIn, ToSet
  <2>11. ToSet(sets[1]) = Completed
    BY <2>9, <2>10
  <2> QED
    BY <2>4, <2>8, <2>11
<1> QED
  BY <1>1, Invariance, PTL

\* A batch is announced as completed only by a handler that has found it whole,
\* and from then on each of its jobs is settled, deleted or was retried.
THEOREM AnnouncementsAreTrue == Spec => AnnouncedWhenSettled
<1>1. IInv /\ [Next]_<<scenario, vars>> =>
        [(\E j \in Jobs : Announce(j)) =>
            \A j \in Jobs : status[j] \in Settled \cup {"gone"} \/ attempt[j] > 0]_vars
  <2> SUFFICES ASSUME IInv, NEW h \in Jobs, Announce(h), NEW j \in Jobs
               PROVE  status[j] \in Settled \cup {"gone"} \/ attempt[j] > 0
    OBVIOUS
  <2>1. handler[h].whole
    BY DEF IInv, HandlersSound, Announce
  <2> QED
    BY <2>1 DEF IInv, WholeIsSettled
<1> QED
  BY <1>1, Invariance, PTL DEF Spec, AnnouncedWhenSettled
=============================================================================
