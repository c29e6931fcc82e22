------------------------ MODULE DeleteOperationsProofs ------------------------
(***************************************************************************)
(* Proofs about DeleteOperations, for any assets, media, contents and      *)
(* scenarios: a row is barred for one operation, counts add up, media of   *)
(* others are not touched, bytes are remembered until they are removed,    *)
(* bytes of media that somebody owns are not, and what completes is gone.  *)
(***************************************************************************)
EXTENDS DeleteOperations, FiniteSetTheorems, WellFoundedInduction, TLAPS

Hand == {"pending", "claimed", "failed"}
Holds(o, m) == item[o][m].state \in Hand
IdentityPhase == {"identity_queued", "identity_refs_scrubbed"}

\* Operations have ids of their own.
IdsDiffer ==
    \A o, p \in Op : op[o].status # "none" /\ op[p].status # "none" /\ op[o].id = op[p].id => o = p

\* Points of a pass that are about one operation.
OneOpPoint == {"finalize", "claim", "scrub", "mark", "unlink", "settle"}
OneOp == worker.pc \in OneOpPoint => \A o, p \in worker.ops : o = p
BatchOfAssets == worker.pc \in {"unlink batch", "settle batch"} => worker.ops \subseteq Asset
OpsExist == worker.broken \subseteq worker.ops /\ \A o \in worker.ops : op[o].status # "none"
\* The work of the worker is what it has claimed.
WorkIsClaimed ==
    worker.pc \in {"scrub", "mark"} =>
        \A o \in worker.ops, m \in worker.work : item[o][m].state = "claimed"

\* An operation has no items before its identity is deleted.
NothingYet(o) == /\ op[o].total = 0
                 /\ \A m \in Media : item[o][m].state = "none"
Untouched ==
    /\ \A a \in Asset : asset[a] # "gone" => NothingYet(a)
    /\ \A a \in Asset : op[a].phase \in IdentityPhase => asset[a] # "gone" /\ op[a].failed = 0
    /\ op[Chat].phase \notin IdentityPhase
    /\ chat # "gone" => NothingYet(Chat) /\ op[Chat].status = "none"

\* A row is barred exactly while one operation has it in hand.  Others own it
\* only if they had looked at it before.
BarredAt(m) ==
    /\ media[m].pending <=> \E o \in Op : Holds(o, m)
    /\ media[m].pending => media[m].content # None /\ media[m].owners \subseteq {Other}
    /\ media[m].pending /\ media[m].owners # {} => "late_adopt" \in scenario.events
    /\ \A o, p \in Op : Holds(o, m) /\ Holds(p, m) => o = p
BarredOnce == \A m \in Media : BarredAt(m)

\* Items in hand, and those that are no items, have no bytes to remove.
NoKeyYet ==
    \A o \in Op, m \in Media : item[o][m].state \in Hand \cup {"none"} => ~item[o][m].key

\* The counts of an operation add up from the start.
Items(o) == In(o, ItemState \ {"none"})
Broken(o) == In(o, {"failed", "unlink_failed"})
Adds(o) ==
    /\ op[o].deleted + Cardinality(Items(o)) = op[o].total
    /\ op[o].total > 0 => /\ op[o].processed = op[o].deleted + op[o].failed
                          /\ op[o].failed = Cardinality(Broken(o))
    /\ op[o].total = 0 => op[o].processed = 0
Adding == \A o \in Op : Adds(o)

-----------------------------------------------------------------------------
(* Bytes                                                                    *)

\* A row points at the object of c.
PointsAt(m, c) ==
    media[m].content = c /\ media[m].sid = object[c].sid /\ object[c].state # "none"
Keyed(c) == \E o \in Op, m \in Media : item[o][m].key /\ item[o][m].content = c

OwnedOrBarred == \A m \in Rows : media[m].owners # {} \/ media[m].pending
LivePoints ==
    \A m \in Rows : media[m].owners # {} /\ ~media[m].pending => PointsAt(m, media[m].content)
DeletingIsMeant ==
    \A c \in Content : object[c].state = "deleting" =>
        \E o \in Op, m \in Media :
            item[o][m].key /\ item[o][m].content = c /\ item[o][m].sid = object[c].sid
\* Somebody else owns media with content c.
OthersHave(c) == \E m \in Media : media[m].content = c /\ Other \in media[m].owners
Accounted == \A c \in disk : Keyed(c) \/ OthersHave(c) \/ \E m \in Media : PointsAt(m, c)
LiveContent(c) == c # None /\ \E m \in Media : media[m].content = c /\ media[m].owners # {}
KeptIsLive ==
    worker.pc \in {"unlink", "unlink batch"} => \A k \in worker.kept : LiveContent(k[1])
RemovedOrLive ==
    worker.pc \in {"settle", "settle batch"} =>
        \A o \in worker.ops \ worker.broken : \A m \in InUnlink(o) :
            item[o][m].key /\ item[o][m].content \in disk => LiveContent(item[o][m].content)

Bytes == /\ NoKeyYet /\ OwnedOrBarred /\ LivePoints /\ DeletingIsMeant
         /\ Accounted /\ KeptIsLive /\ RemovedOrLive
-----------------------------------------------------------------------------
(* The ends of operations                                                   *)

\* Rows that an operation has not come to yet.
Waits(o, m) == item[o][m].state \in {"pending", "claimed"}

\* What an operation reports once its items are dealt with.
Reported ==
    \A o \in Op :
        /\ op[o].status \in {"checkpointing", "completed", "superseded"} => \A m \in Media : ~Waits(o, m)
        /\ op[o].status \in {"completed", "superseded"} => \A m \in Media : ~Holds(o, m)
\* The operations the worker has taken up are running.
TakenUp ==
    /\ worker.pc \in {"finalize", "claim", "scrub", "mark"} =>
          \A o \in worker.ops : op[o].status = "running"
    /\ worker.pc \in {"unlink batch", "settle batch"} =>
          \A o \in worker.ops : op[o].status = "running" /\ op[o].phase = "unlinking_artifacts"
\* While rows can be deleted, the assets of a slice take theirs along.
NothingFails == "scrub" \notin scenario.events => \A a \in Asset, m \in Media : ~Holds(a, m)
\* While no process dies, claims are settled in the pass that made them.
NothingIsLeft ==
    "crash" \notin scenario.events =>
        /\ \A o \in Op, m \in Media : item[o][m].state = "claimed" =>
              worker.pc \in {"scrub", "mark"} /\ o \in worker.ops /\ m \in worker.work
        /\ worker.pc \in {"scrub", "mark"} =>
              \A o \in worker.ops, m \in Media : item[o][m].state # "pending"
        /\ \A o \in Op : op[o].phase = "unlinking_artifacts" => \A m \in Media :
              item[o][m].state # "pending" /\ (item[o][m].state = "claimed" => worker.pc = "mark")
Calm == ~({"crash", "scrub"} \subseteq scenario.events)
Orderly == Calm /\ Reported /\ TakenUp /\ NothingFails /\ NothingIsLeft
-----------------------------------------------------------------------------
(* Finite sets.                                                            *)

\* A finite set of numbers that is not empty has a greatest element.
LEMMA GreatestExists ==
    ASSUME NEW S, S \subseteq Nat, IsFiniteSet(S), S # {}
    PROVE  \E x \in S : \A y \in S : y <= x
<1> DEFINE above(x) == {y \in S : y > x}
           T == {Cardinality(above(x)) : x \in S}
<1>1. \A x \in S : IsFiniteSet(above(x)) /\ Cardinality(above(x)) \in Nat
  BY FS_Subset, FS_CardinalityType
<1>2. T \subseteq Nat /\ T # {}
  BY <1>1
<1>3. PICK n \in T : \A k \in T : ~(<<k, n>> \in OpToRel(<, Nat))
  <2> HIDE DEF T
  <2> QED
    BY <1>2, WFMin, NatLessThanWellFounded, Zenon
<1>4. PICK x \in S : n = Cardinality(above(x))
  BY <1>3
<1>5. ASSUME NEW y \in S, y > x PROVE FALSE
  <2>0. x \in Nat /\ y \in Nat /\ \A z \in S : z \in Nat
    OBVIOUS
  <2>1. above(y) \subseteq above(x) /\ y \in above(x) /\ y \notin above(y)
    <3>1. \A z \in S : z > y => z > x
      BY <2>0, <1>5
    <3>2. ~(y > y)
      BY <2>0
    <3>3. y \in S
      OBVIOUS
    <3> QED
      BY <3>1, <3>2, <3>3, <1>5
  <2>2. Cardinality(above(y)) < Cardinality(above(x))
    BY <2>1, <1>1, FS_Subset
  <2>3. Cardinality(above(y)) \in T
    OBVIOUS
  <2>4. <<Cardinality(above(y)), n>> \in OpToRel(<, Nat)
    BY <2>2, <1>4, <1>1 DEF OpToRel
  <2> QED
    BY <2>3, <2>4, <1>3
<1>6. \A y \in S : y \in Int /\ x \in Int /\ ~(y > x)
  BY <1>5
<1> QED
  BY <1>6

LEMMA FinitePools ==
    /\ IsFiniteSet(Op) /\ IsFiniteSet(Asset) /\ IsFiniteSet(Media)
    /\ Asset \subseteq Op /\ Chat \in Op /\ Chat \notin Asset /\ Other \notin Op /\ Op \subseteq Nat
<1>1. IsFiniteSet(Asset) /\ IsFiniteSet(Media)
  BY DeleteAssumption, FS_Interval DEF Asset, Media
<1>2. IsFiniteSet({Chat}) /\ IsFiniteSet(Op)
  BY <1>1, FS_Singleton, FS_Union DEF Op
<1> QED
  BY <1>1, <1>2, DeleteAssumption DEF Op, Asset, Chat, Other

\* Subsets of the pools have cardinalities.
LEMMA Counting ==
    /\ \A S \in SUBSET Media : IsFiniteSet(S) /\ Cardinality(S) \in Nat
    /\ \A S \in SUBSET Op : IsFiniteSet(S) /\ Cardinality(S) \in Nat
  BY FinitePools, FS_Subset, FS_CardinalityType

LEMMA NewestIsNewest == TypeOK => Newest \in Nat /\ \A o \in Op : op[o].id <= Newest
<1> SUFFICES ASSUME TypeOK PROVE Newest \in Nat /\ \A o \in Op : op[o].id <= Newest
  OBVIOUS
<1> DEFINE ids == {op[o].id : o \in Op}
<1>1. ids \subseteq Nat /\ ids # {}
  BY FinitePools DEF TypeOK
<1>2. IsFiniteSet(ids)
  <2> DEFINE f == [o \in Op |-> op[o].id]
  <2>1. f \in [Op -> ids] /\ \A n \in ids : \E o \in Op : f[o] = n
    OBVIOUS
  <2>2. f \in Surjection(Op, ids)
    BY <2>1 DEF Surjection
  <2> QED
    BY <2>2, FinitePools, FS_Surjection
<1>3. \E x \in ids : \A y \in ids : y <= x
  <2> HIDE DEF ids
  <2> QED
    BY <1>1, <1>2, GreatestExists
<1>4. Newest \in ids /\ \A y \in ids : Newest >= y
  BY <1>3, <1>1 DEF Newest, Max
<1> QED
  BY <1>4, <1>1

-----------------------------------------------------------------------------
(* Types.                                                                  *)

LEMMA ScenarioType ==
    TypeOK => /\ scenario.holds \in [Op -> SUBSET Media] /\ scenario.retired \in [Asset -> SUBSET Media]
              /\ scenario.content \in [Media -> Content] /\ scenario.limit \in Nat
  BY DeleteAssumption DEF TypeOK

USE DEF Hand, Leased

\* Sets of records that variables range over.
MediaRow == [content : Content \cup {None}, sid : Nat,
             owners : SUBSET (Op \cup {Other}), pending : BOOLEAN]
ItemRow == [state : ItemState, content : Content \cup {None}, sid : Nat, key : BOOLEAN]
OpRow == [status : Status, phase : Phase, id : Nat, total : Nat,
          processed : Nat, deleted : Nat, failed : Nat]
WorkerRow == [pc : Points, ops : SUBSET Op, work : SUBSET Media,
              kept : SUBSET ((Content \cup {None}) \X Nat), broken : SUBSET Op]

\* Parts of a row that are set keep its type.
LEMMA RowParts ==
    /\ \A r \in ItemRow, s \in ItemState : [r EXCEPT !.state = s] \in ItemRow
    /\ \A r \in OpRow, s \in Status : [r EXCEPT !.status = s] \in OpRow
    /\ \A r \in OpRow, p \in Phase : [r EXCEPT !.phase = p] \in OpRow
    /\ \A r \in MediaRow, b \in BOOLEAN : [r EXCEPT !.pending = b] \in MediaRow
    /\ \A r \in MediaRow, S \in SUBSET (Op \cup {Other}) : [r EXCEPT !.owners = S] \in MediaRow
    /\ \A pc \in Points : worker \in WorkerRow => [worker EXCEPT !.pc = pc] \in WorkerRow
    /\ NoItem \in ItemRow /\ NoOp \in OpRow /\ NoRow \in MediaRow /\ Idle \in WorkerRow
    /\ \A n \in Nat : [NoOp EXCEPT !.status = "queued", !.phase = "identity_queued", !.id = n] \in OpRow
    /\ \A n \in Nat, k \in Nat :
          [NoOp EXCEPT !.status = "queued", !.id = n, !.total = k] \in OpRow
    /\ [NoItem EXCEPT !.state = "pending"] \in ItemRow
<1>1. NoItem \in ItemRow /\ NoOp \in OpRow /\ NoRow \in MediaRow /\ Idle \in WorkerRow
  BY DEF NoItem, ItemRow, ItemState, NoOp, OpRow, Status, Phase, NoRow, MediaRow, Idle, WorkerRow, Points
<1>2. [NoItem EXCEPT !.state = "pending"] \in ItemRow
  BY DEF NoItem, ItemRow, ItemState
<1>3. \A n \in Nat, k \in Nat :
          [NoOp EXCEPT !.status = "queued", !.id = n, !.total = k] \in OpRow
  BY DEF NoOp, OpRow, Status, Phase
<1>4. \A n \in Nat : [NoOp EXCEPT !.status = "queued", !.phase = "identity_queued", !.id = n] \in OpRow
  BY DEF NoOp, OpRow, Status, Phase
<1>5. /\ \A r \in ItemRow, s \in ItemState : [r EXCEPT !.state = s] \in ItemRow
      /\ \A r \in OpRow, s \in Status : [r EXCEPT !.status = s] \in OpRow
      /\ \A r \in OpRow, p \in Phase : [r EXCEPT !.phase = p] \in OpRow
  BY DEF ItemRow, OpRow
<1>6. /\ \A r \in MediaRow, b \in BOOLEAN : [r EXCEPT !.pending = b] \in MediaRow
      /\ \A r \in MediaRow, S \in SUBSET (Op \cup {Other}) : [r EXCEPT !.owners = S] \in MediaRow
  BY DEF MediaRow
<1>7. \A pc \in Points : worker \in WorkerRow => [worker EXCEPT !.pc = pc] \in WorkerRow
  BY DEF WorkerRow
<1> QED
  BY <1>1, <1>2, <1>3, <1>4, <1>5, <1>6, <1>7

ObjectRow == [state : {"none", "available", "deleting"}, sid : Nat]

Types ==
    /\ scenario \in Scenarios
    /\ asset \in [Asset -> {"active", "trashed", "deleting", "gone"}]
    /\ chat \in {"live", "deleted", "gone"}
    /\ media \in [Media -> MediaRow] /\ object \in [Content -> ObjectRow]
    /\ disk \subseteq Content /\ op \in [Op -> OpRow] /\ item \in [Op -> [Media -> ItemRow]]
    /\ worker \in WorkerRow /\ lapsed \in BOOLEAN /\ spent \in 0..scenario.limit
    /\ adopting \subseteq Media /\ (adopting # {} => "late_adopt" \in scenario.events)

LEMMA TypesAre == (TypeOK <=> Types) /\ (TypeOK' <=> Types')
  BY DEF Types, TypeOK, MediaRow, OpRow, ItemRow, WorkerRow, ObjectRow

LEMMA InitTypes == Init => TypeOK
<1> SUFFICES ASSUME Init PROVE TypeOK
  OBVIOUS
<1>1. scenario \in Scenarios /\ scenario.holds \in [Op -> SUBSET Media]
      /\ scenario.content \in [Media -> Content] /\ scenario.limit \in Nat
  BY DeleteAssumption DEF Init
<1>2. media \in [Media -> MediaRow]
  BY <1>1 DEF Init, NoRow, MediaRow
<1>3. disk \subseteq Content
  BY <1>2 DEF Init, Rows, MediaRow
<1>4. worker \in WorkerRow /\ op \in [Op -> OpRow] /\ item \in [Op -> [Media -> ItemRow]]
  BY RowParts DEF Init
<1>5. object \in [Content -> ObjectRow]
  BY DEF Init, ObjectRow
<1>6. asset \in [Asset -> {"active", "trashed", "deleting", "gone"}]
  BY DEF Init
<1>7. chat \in {"live", "deleted", "gone"}
  BY DEF Init
<1>9. lapsed \in BOOLEAN
  BY DEF Init
<1>10. spent \in 0..scenario.limit /\ adopting = {}
  BY <1>1 DEF Init
<1>8. Types
  BY <1>1, <1>2, <1>3, <1>4, <1>5, <1>6, <1>7, <1>9, <1>10 DEF Types
<1> QED
  BY <1>8, TypesAre

\* A disturbance is counted, up to the limit.
LEMMA SpentType ==
    ASSUME TypeOK, scenario' = scenario,
           (\E k \in EventKind : Spend(k)) \/ UNCHANGED spent
    PROVE  spent' \in 0..scenario'.limit
  BY ScenarioType DEF TypeOK, Spend, May

\* Objects are only marked or dropped.
LEMMA ObjectTypes ==
    ASSUME TypeOK
    PROVE  /\ \A S : Deleting(S) \in [Content -> ObjectRow]
           /\ \A ops : \A S : Dropped(ops, S) \in [Content -> ObjectRow]
<1>1. \A c \in Content : \A s \in {"none", "available", "deleting"} :
          object[c] \in ObjectRow /\ [object[c] EXCEPT !.state = s] \in ObjectRow
  BY TypesAre DEF Types, ObjectRow
<1>2. ASSUME NEW S PROVE Deleting(S) \in [Content -> ObjectRow]
  BY <1>1 DEF Deleting
<1>3. ASSUME NEW ops, NEW S PROVE Dropped(ops, S) \in [Content -> ObjectRow]
  BY <1>1 DEF Dropped
<1> QED
  BY <1>2, <1>3

LEMMA PeopleTypes == ASSUME TypeOK, People, UNCHANGED adopting PROVE TypeOK'
<1>0. scenario' = scenario
  BY DEF People, Enqueue, Restore, Trash, DeleteChat, Retry, Import, Adopt
<1>1. ASSUME NEW chosen \in SUBSET Asset, Enqueue(chosen) PROVE TypeOK'
  <2> DEFINE active == {a \in Asset : op[a].status \in ActiveStatus}
             fresh == chosen \ active
  <2>1. \A o \in Op : Newest + Cardinality({a \in fresh : a <= o}) \in Nat
    <3>1. \A o \in Op : {a \in fresh : a <= o} \in SUBSET Op
      BY FinitePools
    <3> QED
      BY <3>1, Counting, NewestIsNewest
  <2>2. op' \in [Op -> OpRow]
    <3>1. op' = [o \in Op |->
               IF o \in fresh THEN
                   [NoOp EXCEPT !.status = "queued", !.phase = "identity_queued",
                                !.id = Newest + Cardinality({a \in fresh : a <= o})]
               ELSE IF active = {} /\ o \in Asset /\ op[o].status = "completed"
               THEN [op[o] EXCEPT !.status = "superseded"] ELSE op[o]]
      BY <1>1 DEF Enqueue
    <3>2. op \in [Op -> OpRow] /\ "superseded" \in Status
      BY TypesAre DEF Types, Status
    <3> HIDE DEF fresh, active
    <3> QED
      BY <3>1, <3>2, <2>1, RowParts
  <2>3. asset' \in [Asset -> {"active", "trashed", "deleting", "gone"}]
    BY <1>1 DEF Enqueue, TypeOK
  <2> QED
    BY <2>2, <2>3, <1>1, TypesAre DEF Types, Enqueue
<1>2. ASSUME NEW a \in Asset, Restore(a) \/ Trash(a) PROVE TypeOK'
  <2>1. spent' \in 0..scenario'.limit
    BY <1>2, <1>0, SpentType DEF Restore, Trash, EventKind
  <2> QED
    BY <1>2, <2>1 DEF Restore, Trash, TypeOK
<1>3. ASSUME DeleteChat PROVE TypeOK'
  BY <1>3 DEF DeleteChat, TypeOK
<1>4. ASSUME NEW o \in Op, Retry(o) PROVE TypeOK'
  <2>1. spent' \in 0..scenario'.limit
    BY <1>4, <1>0, SpentType DEF Retry, EventKind
  <2>2. item' \in [Op -> [Media -> ItemRow]]
    BY <1>4, TypesAre, RowParts DEF Types, Retry, ItemState
  <2>3. media' \in [Media -> MediaRow]
    BY <1>4, TypesAre, RowParts DEF Types, Retry
  <2>4. op' \in [Op -> OpRow]
    <3>1. op[o] \in OpRow
      BY TypesAre DEF Types
    <3>2. \E n \in Nat, p \in Phase :
             op' = [op EXCEPT ![o] = [op[o] EXCEPT !.status = "queued", !.failed = 0,
                                                  !.processed = n, !.phase = p]]
      <4>1. op[o].processed > op[o].failed => op[o].processed - op[o].failed \in Nat
        BY <3>1 DEF OpRow
      <4> QED
        BY <4>1, <1>4 DEF Retry, Phase
    <3>3. PICK n \in Nat, p \in Phase :
             op' = [op EXCEPT ![o] = [op[o] EXCEPT !.status = "queued", !.failed = 0,
                                                  !.processed = n, !.phase = p]]
      BY <3>2
    <3> QED
      BY <3>1, <3>3, TypesAre DEF Types, OpRow, Status
  <2> QED
    BY <2>1, <2>2, <2>3, <2>4, <1>4, TypesAre DEF Types, Retry
<1>5. ASSUME NEW m \in Media, NEW c \in Content, Import(m, c) PROVE TypeOK'
  <2>1. spent' \in 0..scenario'.limit
    BY <1>5, <1>0, SpentType DEF Import, EventKind
  <2>2. object' \in [Content -> ObjectRow]
    BY <1>5, TypesAre DEF Import, Types, ObjectRow
  <2>3. media' \in [Media -> MediaRow]
    BY <1>5, <2>2, TypesAre DEF Import, Types, MediaRow, ObjectRow
  <2> QED
    BY <2>1, <2>2, <2>3, <1>5, TypesAre DEF Types, Import
<1>6. ASSUME NEW m \in Media, Adopt(m) PROVE TypeOK'
  <2>1. spent' \in 0..scenario'.limit
    BY <1>6, <1>0, SpentType DEF Adopt, EventKind
  <2>2. media[m].owners \cup {Other} \in SUBSET (Op \cup {Other})
    BY TypesAre DEF Types, MediaRow
  <2>3. media' \in [Media -> MediaRow]
    BY <1>6, <2>2, TypesAre, RowParts DEF Types, Adopt
  <2> QED
    BY <2>1, <2>3, <1>6, TypesAre DEF Types, Adopt
<1> QED
  BY <1>1, <1>2, <1>3, <1>4, <1>5, <1>6 DEF People

\* Counts grow by numbers.
LEMMA CountedParts ==
    ASSUME NEW r \in OpRow, NEW n \in Nat
    PROVE  /\ [r EXCEPT !.status = "failed", !.phase = "other", !.processed = @ + n, !.failed = @ + n]
                \in OpRow
           /\ [r EXCEPT !.phase = "other", !.processed = @ + n, !.deleted = @ + n] \in OpRow
           /\ [r EXCEPT !.processed = @ + n, !.failed = @ + n] \in OpRow
<1>1. r.processed + n \in Nat /\ r.failed + n \in Nat /\ r.deleted + n \in Nat
  BY DEF OpRow
<1>2. \A p, f \in Nat :
         /\ [r EXCEPT !.status = "failed", !.phase = "other", !.processed = p, !.failed = f] \in OpRow
         /\ [r EXCEPT !.phase = "other", !.processed = p, !.deleted = f] \in OpRow
         /\ [r EXCEPT !.processed = p, !.failed = f] \in OpRow
  BY DEF OpRow, Status, Phase
<1> QED
  BY <1>1, <1>2

\* What operators of the worker return.
LEMMA OperatorTypes ==
    ASSUME TypeOK
    PROVE  /\ \A md \in [Media -> MediaRow] : \A S : Collect(md, S) \in [Media -> MediaRow]
           /\ \A S : Pending(S) \in [Media -> ItemRow]
           /\ \A md : \A m \in Media : Staged(md, m) \in ItemRow
           /\ \A a \in Asset : Rejected(a) \in OpRow
           /\ \A o \in Op : UnlinkFailed(o) \in [Media -> ItemRow] /\ Unlinked(o) \in [Media -> ItemRow]
           /\ \A o \in Op, n \in Nat : Counted(o, n) \in OpRow
           /\ \A ops \in SUBSET Op : Retained(ops) \in SUBSET ((Content \cup {None}) \X Nat)
           /\ \A ops, n : First(ops, n) \subseteq ops
           /\ \A phase : Queued(phase) \in SUBSET Asset
           /\ \A ops, a : /\ Deletable(ops) \subseteq ops
                          /\ Collectible(a, ops) \in SUBSET Media
<1> USE TypesAre DEF Types
<1>1. ASSUME NEW md \in [Media -> MediaRow], NEW S PROVE Collect(md, S) \in [Media -> MediaRow]
  BY RowParts DEF Collect
<1>2. ASSUME NEW S PROVE Pending(S) \in [Media -> ItemRow]
  BY RowParts DEF Pending
<1>3. ASSUME NEW md, NEW m \in Media PROVE Staged(md, m) \in ItemRow
  BY DEF Staged, ItemRow, MediaRow, ItemState
<1>4. ASSUME NEW a \in Asset PROVE Rejected(a) \in OpRow
  <2>1. op[a] \in OpRow
    BY FinitePools
  <2> QED
    BY <2>1 DEF Rejected, OpRow, Status, Phase
<1>5. ASSUME NEW o \in Op PROVE UnlinkFailed(o) \in [Media -> ItemRow] /\ Unlinked(o) \in [Media -> ItemRow]
  BY RowParts DEF UnlinkFailed, Unlinked, ItemState
<1>6. ASSUME NEW o \in Op, NEW n \in Nat PROVE Counted(o, n) \in OpRow
  <2>1. op[o] \in OpRow
    OBVIOUS
  <2> QED
    BY <2>1, CountedParts DEF Counted
<1>7. ASSUME NEW ops \in SUBSET Op PROVE Retained(ops) \in SUBSET ((Content \cup {None}) \X Nat)
  <2>1. \A m \in Media : media[m] \in MediaRow
    OBVIOUS
  <2> QED
    BY <2>1 DEF Retained, MediaRow, Rows
<1>8. \A ops, n : First(ops, n) \subseteq ops
  BY DEF First
<1>9. \A phase : Queued(phase) \in SUBSET Asset
  BY DEF Queued
<1>10. \A ops, a : Deletable(ops) \subseteq ops /\ Collectible(a, ops) \in SUBSET Media
  BY DEF Deletable, Collectible, Rows
<1> QED
  BY <1>1, <1>2, <1>3, <1>4, <1>5, <1>6, <1>7, <1>8, <1>9, <1>10

LEMMA PassTypes ==
    ASSUME TypeOK
    PROVE  /\ \A pc \in Points : Goes(pc) => worker' \in WorkerRow
           /\ \A pc \in Points, ops \in SUBSET Op, work \in SUBSET Media :
                 /\ Takes(pc, ops, work, {}) => worker' \in WorkerRow
                 /\ Takes(pc, ops, work, Retained(ops)) => worker' \in WorkerRow
           /\ EndsPass => worker' \in WorkerRow
<1>1. \A ops \in SUBSET Op : Retained(ops) \in SUBSET ((Content \cup {None}) \X Nat)
  BY OperatorTypes
<1>2. worker \in WorkerRow
  BY TypesAre DEF Types
<1>3. \A pc \in Points : Goes(pc) => worker' \in WorkerRow
  BY <1>2, RowParts DEF Goes
<1>4. EndsPass => worker' \in WorkerRow
  BY RowParts DEF EndsPass
<1>5. ASSUME NEW pc \in Points, NEW ops \in SUBSET Op, NEW work \in SUBSET Media,
             NEW kept \in SUBSET ((Content \cup {None}) \X Nat), Takes(pc, ops, work, kept)
      PROVE  worker' \in WorkerRow
  BY <1>5 DEF Takes, WorkerRow
<1> QED
  BY <1>1, <1>3, <1>4, <1>5

LEMMA StageTypes ==
    ASSUME TypeOK, BeginPass \/ StageIdentities \/ PrepareReferences, UNCHANGED adopting
    PROVE  TypeOK'
<1>0. scenario' = scenario
  BY DEF BeginPass, StageIdentities, PrepareReferences
<1>1. CASE BeginPass
  <2>1. worker' \in WorkerRow
    BY <1>1, PassTypes DEF BeginPass, Points
  <2>2. CASE chat = "deleted"
    <3> DEFINE kept == [m \in Media |-> [media[m] EXCEPT !.owners = @ \ {Chat}]]
               mine == {m \in Rows : Chat \in media[m].owners /\ kept[m].owners = {} /\ ~media[m].pending}
    <3>1. kept \in [Media -> MediaRow]
      <4>1. \A m \in Media : media[m].owners \ {Chat} \in SUBSET (Op \cup {Other})
        BY TypesAre DEF Types, MediaRow
      <4> QED
        BY <4>1, TypesAre, RowParts DEF Types
    <3>2. Cardinality(mine) \in Nat
      <4>1. mine \in SUBSET Media
        BY DEF Rows
      <4> QED
        BY <4>1, Counting
    <3>3. /\ chat' = "gone" /\ media' = Collect(kept, mine)
          /\ item' = [item EXCEPT ![Chat] = Pending(mine)]
          /\ op' = [op EXCEPT ![Chat] =
                 [NoOp EXCEPT !.status = "queued", !.id = Newest + 1, !.total = Cardinality(mine)]]
          /\ UNCHANGED <<scenario, asset, object, disk, lapsed, spent>>
      BY <1>1, <2>2 DEF BeginPass
    <3> HIDE DEF kept, mine
    <3>4. media' \in [Media -> MediaRow] /\ item' \in [Op -> [Media -> ItemRow]]
      BY <3>1, <3>3, OperatorTypes, TypesAre DEF Types
    <3>5. op' \in [Op -> OpRow]
      <4>1. Newest + 1 \in Nat
        BY NewestIsNewest
      <4>2. [NoOp EXCEPT !.status = "queued", !.id = Newest + 1, !.total = Cardinality(mine)] \in OpRow
        BY <4>1, <3>2, RowParts
      <4> QED
        BY <4>2, <3>3, TypesAre DEF Types
    <3> QED
      BY <3>3, <3>4, <3>5, <2>1, TypesAre DEF Types
  <2>3. CASE chat # "deleted"
    BY <1>1, <2>3, <2>1, TypesAre DEF BeginPass, Types
  <2> QED
    BY <2>2, <2>3
<1>2. CASE StageIdentities
  <2> DEFINE slice == First(Queued("identity_refs_scrubbed"), scenario.slice)
  <2>1. slice \in SUBSET Asset
    BY OperatorTypes
  <2>2. worker' \in WorkerRow
    BY <1>2, PassTypes DEF StageIdentities, Points
  <2>3. spent' \in 0..scenario'.limit
    BY <1>2, <1>0, SpentType DEF StageIdentities, Disturbed, EventKind
  <2>4. CASE UNCHANGED db
    BY <1>2, <2>4, <2>2, <2>3, TypesAre DEF StageIdentities, Types, db
  <2>5. ASSUME NEW scrubbed \in BOOLEAN, StageSlice(slice, scrubbed)
        PROVE  /\ asset' \in [Asset -> {"active", "trashed", "deleting", "gone"}]
               /\ media' \in [Media -> MediaRow] /\ object' \in [Content -> ObjectRow]
               /\ item' \in [Op -> [Media -> ItemRow]] /\ op' \in [Op -> OpRow]
    <3> HIDE DEF slice
    <3> DEFINE valid == Deletable(slice)
               mine(a) == IF a \in valid THEN Collectible(a, valid) ELSE {}
               all == UNION {mine(a) : a \in valid}
               md == Collect([m \in Media |-> [media[m] EXCEPT !.owners = @ \ valid]], all)
               staged == [m \in all |-> Staged(md, m)]
    <3>1. md \in [Media -> MediaRow]
      <4>1. \A m \in Media : media[m].owners \ valid \in SUBSET (Op \cup {Other})
        BY TypesAre DEF Types, MediaRow
      <4>2. [m \in Media |-> [media[m] EXCEPT !.owners = @ \ valid]] \in [Media -> MediaRow]
        BY <4>1, TypesAre, RowParts DEF Types
      <4> QED
        BY <4>2, OperatorTypes
    <3>2. \A a \in Op : mine(a) \in SUBSET Media /\ Cardinality(mine(a)) \in Nat
      BY OperatorTypes, Counting
    <3>3. \A m \in all : m \in Media /\ staged[m] \in ItemRow
      <4>1. all \in SUBSET Media
        BY <3>2, <2>1, OperatorTypes, FinitePools
      <4>2. \A m \in Media : Staged(md, m) \in ItemRow
        <5> HIDE DEF md
        <5> QED
          BY OperatorTypes
      <4> QED
        BY <4>1, <4>2
    <3>4. /\ asset' = [a \in Asset |-> IF a \in valid THEN "gone" ELSE asset[a]]
          /\ media' = [m \in Media |-> IF scrubbed /\ m \in all THEN NoRow ELSE md[m]]
          /\ object' = IF scrubbed THEN Deleting(Doomed(staged)) ELSE object
          /\ item' = [o \in Op |->
                 IF o \notin valid THEN item[o]
                 ELSE IF scrubbed
                 THEN [m \in Media |-> IF m \in mine(o) THEN staged[m] ELSE NoItem]
                 ELSE Pending(mine(o))]
          /\ op' = [o \in Op |->
                 IF o \notin slice THEN op[o]
                 ELSE IF o \notin valid THEN Rejected(o)
                 ELSE IF mine(o) = {} THEN [op[o] EXCEPT !.status = "checkpointing", !.phase = "other"]
                 ELSE [op[o] EXCEPT !.total = Cardinality(mine(o)),
                                    !.status = IF scrubbed THEN "running" ELSE "queued",
                                    !.phase = IF scrubbed THEN "unlinking_artifacts" ELSE "other"]]
      BY <2>5 DEF StageSlice
    <3>5. \A o \in valid : \A m \in mine(o) : m \in all
      OBVIOUS
    <3> HIDE DEF valid, mine, md, all, staged
    <3>6. asset' \in [Asset -> {"active", "trashed", "deleting", "gone"}]
      BY <3>4, TypesAre DEF Types
    <3>7. media' \in [Media -> MediaRow]
      BY <3>4, <3>1, RowParts
    <3>8. object' \in [Content -> ObjectRow]
      BY <3>4, ObjectTypes, TypesAre DEF Types
    <3>9. item' \in [Op -> [Media -> ItemRow]]
      <4>1. \A o \in Op : o \in valid =>
               [m \in Media |-> IF m \in mine(o) THEN staged[m] ELSE NoItem] \in [Media -> ItemRow]
        BY <3>3, <3>5, RowParts
      <4> QED
        BY <4>1, <3>4, OperatorTypes, TypesAre DEF Types
    <3>10. op' \in [Op -> OpRow]
      <4>1. \A o \in Op : op[o] \in OpRow
        BY TypesAre DEF Types
      <4>2. \A o \in Op :
              [op[o] EXCEPT !.total = Cardinality(mine(o)),
                            !.status = IF scrubbed THEN "running" ELSE "queued",
                            !.phase = IF scrubbed THEN "unlinking_artifacts" ELSE "other"] \in OpRow
        BY <4>1, <3>2 DEF OpRow, Status, Phase
      <4>3. \A o \in Op : [op[o] EXCEPT !.status = "checkpointing", !.phase = "other"] \in OpRow
        BY <4>1 DEF OpRow, Status, Phase
      <4>4. \A o \in Op : o \in slice => Rejected(o) \in OpRow
        BY <2>1, OperatorTypes DEF slice
      <4> QED
        BY <4>1, <4>2, <4>3, <4>4, <3>4
    <3> QED
      BY <3>6, <3>7, <3>8, <3>9, <3>10
  <2>6. CASE \E scrubbed \in BOOLEAN : StageSlice(slice, scrubbed) /\ chat' = chat
    <3> HIDE DEF slice
    <3> QED
      BY <2>5, <2>6, <1>2, <2>2, <2>3, TypesAre DEF StageIdentities, Types
  <2> QED
    BY <2>4, <2>6, <1>2 DEF StageIdentities
<1>3. CASE PrepareReferences
  <2>1. worker' \in WorkerRow
    BY <1>3, PassTypes DEF PrepareReferences, Points
  <2>2. \A a \in Queued("identity_queued") : a \in Asset /\ Rejected(a) \in OpRow
    BY OperatorTypes
  <2>3. \A o \in Op : [op[o] EXCEPT !.phase = "identity_refs_scrubbed"] \in OpRow
    BY TypesAre, RowParts DEF Types, Phase
  <2>4. op' \in [Op -> OpRow]
    BY <1>3, <2>2, <2>3, TypesAre DEF PrepareReferences, Types
  <2> QED
    BY <1>3, <2>1, <2>4, TypesAre DEF PrepareReferences, Types
<1> QED
  BY <1>1, <1>2, <1>3

\* An item whose state is one of the named ones.
LEMMA ItemStates ==
    \A r \in ItemRow :
        /\ [r EXCEPT !.state = "unlinking"] \in ItemRow /\ [r EXCEPT !.state = "claimed"] \in ItemRow
        /\ [r EXCEPT !.state = "media_deleted"] \in ItemRow /\ [r EXCEPT !.state = "failed"] \in ItemRow
        /\ [r EXCEPT !.state = Recovered(@)] \in ItemRow
        /\ [r EXCEPT !.state = CASE @ = "media_deleted" -> "unlinking"
                                 [] @ = "unlink_retry" -> "unlinking_retry" [] OTHER -> @] \in ItemRow
<1>1. \A r \in ItemRow : Recovered(r.state) \in ItemState
  BY DEF Recovered, ItemRow, ItemState
<1>2. \A r \in ItemRow :
        (CASE r.state = "media_deleted" -> "unlinking"
           [] r.state = "unlink_retry" -> "unlinking_retry" [] OTHER -> r.state) \in ItemState
  BY DEF ItemRow, ItemState
<1> QED
  BY <1>1, <1>2, RowParts DEF ItemState

LEMMA ClaimTypes ==
    ASSUME TypeOK, UNCHANGED adopting,
           RecoverLeases \/ ClaimBatch \/ TakeUpOldest \/ Finalize \/ Claim \/ Conclude
    PROVE  TypeOK'
<1>0. scenario' = scenario
  BY DEF RecoverLeases, ClaimBatch, TakeUpOldest, Finalize, Claim, Conclude
<1>1. CASE RecoverLeases
  <2>1. worker' \in WorkerRow
    BY <1>1, PassTypes DEF RecoverLeases, Points
  <2>2. item' \in [Op -> [Media -> ItemRow]]
    BY <1>1, ItemStates, TypesAre DEF RecoverLeases, Types
  <2> QED
    BY <1>1, <2>1, <2>2, TypesAre DEF RecoverLeases, Types
<1>2. CASE ClaimBatch
  <2> DEFINE ready == {a \in Asset : op[a].status = "running" /\ op[a].phase = "unlinking_artifacts"}
             eligible == {a \in ready : In(a, {"media_deleted"}) # {}}
  <2>1. eligible \in SUBSET Op
    BY FinitePools
  <2>2. worker' \in WorkerRow
    <3>1. Goes("head") \/ Takes("unlink batch", eligible, {}, Retained(eligible))
      BY <1>2 DEF ClaimBatch
    <3> HIDE DEF eligible
    <3> QED
      BY <2>1, <3>1, PassTypes DEF Points
  <2>3. item' \in [Op -> [Media -> ItemRow]]
    BY <1>2, ItemStates, TypesAre DEF ClaimBatch, Types
  <2> QED
    BY <1>2, <2>2, <2>3, TypesAre DEF ClaimBatch, Types
<1>3. CASE TakeUpOldest
  <2> DEFINE active == {o \in Op : op[o].status \in {"queued", "running"} /\ op[o].phase # "identity_queued"}
             oldest == First(active, 1)
  <2>1. oldest \in SUBSET Op
    BY OperatorTypes
  <2>2. worker' \in WorkerRow
    <3>1. Goes("checkpoint") \/ Takes("claim", oldest, {}, {}) \/ Takes("finalize", oldest, {}, {})
      BY <1>3 DEF TakeUpOldest
    <3> HIDE DEF oldest
    <3> QED
      BY <2>1, <3>1, PassTypes DEF Points
  <2>3. \A o \in Op : [op[o] EXCEPT !.status = "running", !.phase = "other"] \in OpRow
    <3>1. \A r \in OpRow : [r EXCEPT !.status = "running", !.phase = "other"] \in OpRow
      BY DEF OpRow, Status, Phase
    <3> QED
      BY <3>1, TypesAre DEF Types
  <2>4. op' \in [Op -> OpRow]
    BY <1>3, <2>3, TypesAre DEF TakeUpOldest, Types
  <2> QED
    BY <1>3, <2>2, <2>4, TypesAre DEF TakeUpOldest, Types
<1>4. CASE Finalize
  <2>1. PICK o \in worker.ops : 
        /\ item' = [item EXCEPT ![o] = [m \in Media |-> [item[o][m] EXCEPT !.state =
               CASE @ = "media_deleted" -> "unlinking"
                 [] @ = "unlink_retry" -> "unlinking_retry"
                 [] OTHER -> @]]]
        /\ Goes("claim") \/ Takes("unlink", {o}, {}, Retained({o}))
        /\ UNCHANGED <<scenario, asset, chat, media, object, disk, op, lapsed, spent>>
    BY <1>4 DEF Finalize
  <2>2. o \in Op /\ {o} \in SUBSET Op
    BY TypesAre DEF Types, WorkerRow
  <2>3. worker' \in WorkerRow
    BY <2>1, <2>2, PassTypes DEF Points
  <2>4. item' \in [Op -> [Media -> ItemRow]]
    BY <2>1, <2>2, ItemStates, TypesAre DEF Types
  <2> QED
    BY <2>1, <2>3, <2>4, <1>0, TypesAre DEF Types
<1>5. CASE Claim
  <2>1. PICK o \in worker.ops : 
        /\ item' = [item EXCEPT ![o] = [m \in Media |->
               IF m \in In(o, {"pending"}) THEN [item[o][m] EXCEPT !.state = "claimed"] ELSE item[o][m]]]
        /\ op' = [op EXCEPT ![o].phase = "other"]
        /\ Takes("scrub", {o}, In(o, {"pending"}), {})
        /\ UNCHANGED <<scenario, asset, chat, media, object, disk, lapsed, spent>>
    BY <1>5 DEF Claim
  <2>2. o \in Op /\ {o} \in SUBSET Op /\ In(o, {"pending"}) \in SUBSET Media
    BY TypesAre DEF Types, WorkerRow, In
  <2>3. worker' \in WorkerRow
    BY <2>1, <2>2, PassTypes DEF Points
  <2>4. item' \in [Op -> [Media -> ItemRow]] /\ op' \in [Op -> OpRow]
    BY <2>1, <2>2, ItemStates, RowParts, TypesAre DEF Types, Phase
  <2> QED
    BY <2>1, <2>3, <2>4, <1>0, TypesAre DEF Types
<1>6. CASE Conclude
  <2>1. worker' \in WorkerRow
    BY <1>6, PassTypes DEF Conclude, Points
  <2>2. spent' \in 0..scenario'.limit
    BY <1>6, <1>0, SpentType DEF Conclude, Disturbed, EventKind
  <2>3. op' \in [Op -> OpRow]
    <3>1. PICK o \in worker.ops :
             \/ UNCHANGED op
             \/ op' = [op EXCEPT ![o].status = "checkpointing", ![o].phase = "other"]
             \/ op' = [op EXCEPT ![o].status = Outcome(o), ![o].phase = "other"]
             \/ op' = [op EXCEPT ![o].status = @, ![o].phase = "other"]
      BY <1>6 DEF Conclude
    <3>2. o \in Op /\ op[o] \in OpRow /\ op \in [Op -> OpRow]
      BY TypesAre DEF Types, WorkerRow
    <3>3. \A s \in Status : [op EXCEPT ![o].status = s, ![o].phase = "other"] \in [Op -> OpRow]
      BY <3>2 DEF OpRow, Phase
    <3>4. Outcome(o) \in Status /\ op[o].status \in Status /\ "checkpointing" \in Status
      BY <3>2 DEF Outcome, Status, OpRow
    <3> QED
      BY <3>1, <3>2, <3>3, <3>4
  <2> QED
    BY <1>6, <2>1, <2>2, <2>3, TypesAre DEF Conclude, Types
<1> QED
  BY <1>1, <1>2, <1>3, <1>4, <1>5, <1>6

LEMMA RemovalTypes ==
    ASSUME TypeOK, UNCHANGED adopting,
           DeleteRows \/ MarkFailed \/ Unlink \/ Settle \/ SettleBatch \/ Checkpoint
    PROVE  TypeOK'
<1>0. scenario' = scenario
  BY DEF DeleteRows, MarkFailed, Unlink, Settle, SettleBatch, Checkpoint, db
<1>1. CASE DeleteRows
  <2>1. PICK o \in worker.ops, bad \in SUBSET worker.work : TRUE
        /\ LET good == (worker.work \ bad) \cap Rows
               refs(m) == Refs(media, media[m].content, media[m].sid)
               staged == [m \in good |-> [Staged(media, m) EXCEPT !.key =
                    /\ object[media[m].content].sid = media[m].sid
                    /\ object[media[m].content].state # "none"
                    /\ refs(m) \subseteq good]]
           IN  /\ Disturbed("scrub", bad # {m \in worker.work : media[m].owners # {}})
               /\ media' = [m \in Media |-> IF m \in good THEN NoRow ELSE media[m]]
               /\ object' = Deleting(Doomed(staged))
               /\ item' = [item EXCEPT ![o] = [m \in Media |->
                       IF m \in good THEN staged[m]
                       ELSE IF m \in worker.work \ bad THEN [item[o][m] EXCEPT !.state = "media_deleted"]
                       ELSE item[o][m]]]
               /\ op' = [op EXCEPT ![o].phase = IF bad = worker.work THEN @ ELSE "unlinking_artifacts"]
               /\ EndsPass \/ Takes("mark", {o}, bad, {})
               /\ UNCHANGED <<scenario, asset, chat, disk, lapsed>>
    BY <1>1 DEF DeleteRows
  <2> DEFINE good == (worker.work \ bad) \cap Rows
             staged == [m \in good |-> [Staged(media, m) EXCEPT !.key =
                    /\ object[media[m].content].sid = media[m].sid
                    /\ object[media[m].content].state # "none"
                    /\ Refs(media, media[m].content, media[m].sid) \subseteq good]]
  <2>2. o \in Op /\ bad \in SUBSET Media /\ {o} \in SUBSET Op /\ good \in SUBSET Media
    BY TypesAre DEF Types, WorkerRow, Rows
  <2>3. \A m \in good : staged[m] \in ItemRow
    <3>1. \A m \in Media : Staged(media, m) \in ItemRow
      BY OperatorTypes
    <3>2. \A r \in ItemRow, b \in BOOLEAN : [r EXCEPT !.key = b] \in ItemRow
      BY DEF ItemRow
    <3> QED
      BY <3>1, <3>2, <2>2
  <2>4. /\ Disturbed("scrub", bad # {m \in worker.work : media[m].owners # {}})
        /\ media' = [m \in Media |-> IF m \in good THEN NoRow ELSE media[m]]
        /\ object' = Deleting(Doomed(staged))
        /\ item' = [item EXCEPT ![o] = [m \in Media |->
                IF m \in good THEN staged[m]
                ELSE IF m \in worker.work \ bad THEN [item[o][m] EXCEPT !.state = "media_deleted"]
                ELSE item[o][m]]]
        /\ op' = [op EXCEPT ![o].phase = IF bad = worker.work THEN @ ELSE "unlinking_artifacts"]
        /\ EndsPass \/ Takes("mark", {o}, bad, {})
        /\ UNCHANGED <<scenario, asset, chat, disk, lapsed>>
    BY <2>1
  <2> HIDE DEF good, staged
  <2>5. media' \in [Media -> MediaRow] /\ object' \in [Content -> ObjectRow]
    BY <2>4, RowParts, ObjectTypes, TypesAre DEF Types
  <2>6. item' \in [Op -> [Media -> ItemRow]]
    BY <2>2, <2>3, <2>4, ItemStates, TypesAre DEF Types
  <2>7. op' \in [Op -> OpRow]
    <3>1. op[o] \in OpRow /\ op \in [Op -> OpRow]
      BY <2>2, TypesAre DEF Types
    <3>2. op[o].phase \in Phase
      BY <3>1 DEF OpRow
    <3> QED
      BY <3>1, <3>2, <2>2, <2>4, RowParts DEF Phase
  <2>8. worker' \in WorkerRow /\ spent' \in 0..scenario'.limit
    BY <2>2, <2>4, PassTypes, SpentType DEF Points, Disturbed, EventKind
  <2> QED
    BY <2>4, <2>5, <2>6, <2>7, <2>8, <1>0, TypesAre DEF Types
<1>2. CASE MarkFailed
  <2>1. PICK o \in worker.ops :
        /\ item' = [item EXCEPT ![o] = [m \in Media |->
               IF m \in worker.work THEN [item[o][m] EXCEPT !.state = "failed"] ELSE item[o][m]]]
        /\ op' = [op EXCEPT ![o].processed = @ + Cardinality(worker.work),
                            ![o].failed = @ + Cardinality(worker.work)]
        /\ EndsPass
        /\ UNCHANGED <<scenario, asset, chat, media, object, disk, lapsed, spent>>
    BY <1>2 DEF MarkFailed
  <2>2. o \in Op /\ Cardinality(worker.work) \in Nat /\ op[o] \in OpRow
    BY Counting, TypesAre DEF Types, WorkerRow
  <2>3. item' \in [Op -> [Media -> ItemRow]]
    BY <2>1, <2>2, ItemStates, TypesAre DEF Types
  <2>4. op' \in [Op -> OpRow]
    <3>1. op' = [op EXCEPT ![o] = [op[o] EXCEPT !.processed = @ + Cardinality(worker.work),
                                               !.failed = @ + Cardinality(worker.work)]]
      BY <2>1, <2>2, TypesAre DEF Types, OpRow
    <3> QED
      BY <3>1, <2>2, CountedParts, TypesAre DEF Types
  <2>5. worker' \in WorkerRow
    BY <2>1, PassTypes
  <2> QED
    BY <2>1, <2>3, <2>4, <2>5, <1>0, TypesAre DEF Types
<1>3. CASE Unlink
  <2>1. disk' \subseteq disk /\ UNCHANGED <<scenario, db, lapsed>>
    BY <1>3 DEF Unlink
  <2>2. spent' \in 0..scenario'.limit
    BY <1>3, <1>0, SpentType DEF Unlink, Disturbed, EventKind
  <2>3. worker' \in WorkerRow
    <3>1. PICK broken \in SUBSET worker.ops :
             worker' = [worker EXCEPT !.pc = IF @ = "unlink" THEN "settle" ELSE "settle batch",
                                      !.broken = broken]
      BY <1>3 DEF Unlink
    <3> QED
      BY <3>1, TypesAre DEF Types, WorkerRow, Points
  <2> QED
    BY <2>1, <2>2, <2>3, TypesAre DEF Types, db
<1>4. CASE Settle
  <2>1. PICK o \in worker.ops :
        /\ \E S : object' = Dropped(worker.ops \ worker.broken, S)
        /\ item' = [item EXCEPT ![o] = IF o \in worker.broken THEN UnlinkFailed(o) ELSE Unlinked(o)]
        /\ \/ op' = [op EXCEPT ![o] = [Counted(o, Cardinality(InUnlink(o))) EXCEPT !.status = "checkpointing"]]
           \/ op' = [op EXCEPT ![o] = Counted(o, Cardinality(InUnlink(o)))]
        /\ EndsPass
        /\ UNCHANGED <<scenario, asset, chat, media, disk, lapsed, spent>>
    BY <1>4 DEF Settle
  <2>2. o \in Op /\ Cardinality(InUnlink(o)) \in Nat
    BY Counting, TypesAre DEF Types, WorkerRow, InUnlink, In
  <2>3. Counted(o, Cardinality(InUnlink(o))) \in OpRow
    BY <2>2, OperatorTypes
  <2>4. op' \in [Op -> OpRow] /\ item' \in [Op -> [Media -> ItemRow]]
    BY <2>1, <2>2, <2>3, OperatorTypes, RowParts, TypesAre DEF Types, Status
  <2>5. worker' \in WorkerRow /\ object' \in [Content -> ObjectRow]
    BY <2>1, PassTypes, ObjectTypes
  <2> QED
    BY <2>1, <2>4, <2>5, <1>0, TypesAre DEF Types
<1>5. CASE SettleBatch
  <2>1. \A o \in Op : Cardinality(InUnlink(o)) \in Nat
    BY Counting DEF InUnlink, In
  <2>2. \A o \in Op :
          /\ Counted(o, Cardinality(InUnlink(o))) \in OpRow
          /\ [Counted(o, Cardinality(InUnlink(o))) EXCEPT !.status = "checkpointing"] \in OpRow
    <3>1. \A o \in Op : Counted(o, Cardinality(InUnlink(o))) \in OpRow
      BY <2>1, OperatorTypes
    <3> QED
      BY <3>1, RowParts DEF Status
  <2>3. op' \in [Op -> OpRow]
    BY <1>5, <2>2, TypesAre DEF SettleBatch, Types
  <2>4. item' \in [Op -> [Media -> ItemRow]]
    BY <1>5, OperatorTypes, TypesAre DEF SettleBatch, Types
  <2>5. worker' \in WorkerRow /\ object' \in [Content -> ObjectRow]
    BY <1>5, PassTypes, ObjectTypes DEF SettleBatch
  <2> QED
    BY <1>5, <2>3, <2>4, <2>5, TypesAre DEF SettleBatch, Types
<1>6. CASE Checkpoint
  <2>1. \A o \in Op : [op[o] EXCEPT !.status = Outcome(o)] \in OpRow
    BY RowParts, TypesAre DEF Types, Outcome, Status
  <2>2. op' \in [Op -> OpRow]
    BY <1>6, <2>1, TypesAre DEF Checkpoint, Types
  <2>3. worker' \in WorkerRow
    BY <1>6, PassTypes DEF Checkpoint
  <2>4. spent' \in 0..scenario'.limit
    BY <1>6, <1>0, SpentType DEF Checkpoint, Disturbed, EventKind
  <2> QED
    BY <1>6, <2>2, <2>3, <2>4, TypesAre DEF Checkpoint, Types
<1> QED
  BY <1>1, <1>2, <1>3, <1>4, <1>5, <1>6

LEMMA TypeStep == TypeOK /\ [Next]_vars => TypeOK'
<1> SUFFICES ASSUME TypeOK, [Next]_vars PROVE TypeOK'
  OBVIOUS
<1>1. CASE Crash \/ LeasesLapse
  <2>1. scenario' = scenario
    BY <1>1 DEF Crash, LeasesLapse
  <2>2. spent' \in 0..scenario'.limit
    BY <1>1, <2>1, SpentType DEF Crash, LeasesLapse, EventKind
  <2>3. worker' \in WorkerRow
    BY <1>1, PassTypes, TypesAre DEF Crash, LeasesLapse, Types
  <2> QED
    BY <1>1, <2>2, <2>3, TypesAre DEF Crash, LeasesLapse, Types, db
<1>2. CASE UNCHANGED vars
  BY <1>2, TypesAre DEF vars, db, Types
<1>3. CASE LateOwners
  <2>1. scenario' = scenario /\ UNCHANGED <<asset, chat, object, disk, op, item, worker, lapsed>>
    BY <1>3 DEF LateOwners, AskToAdopt, AdoptLate, db
  <2>2. spent' \in 0..scenario'.limit
    BY <1>3, <2>1, SpentType DEF LateOwners, AskToAdopt, AdoptLate, EventKind
  <2>3. adopting' \subseteq Media /\ (adopting' # {} => "late_adopt" \in scenario.events)
    BY <1>3, TypesAre DEF Types, LateOwners, AskToAdopt, AdoptLate, Spend, May
  <2>4. media' \in [Media -> MediaRow]
    <3>1. media' = media \/ \E m \in Media : media' = [media EXCEPT ![m].owners = @ \cup {Other}]
      BY <1>3 DEF LateOwners, AskToAdopt, AdoptLate, db
    <3>2. \A m \in Media : [media[m] EXCEPT !.owners = @ \cup {Other}] \in MediaRow
      <4> TAKE m \in Media
      <4>1. media[m] \in MediaRow /\ media[m].owners \cup {Other} \in SUBSET (Op \cup {Other})
        BY TypesAre DEF Types, MediaRow
      <4> QED
        BY <4>1, RowParts
    <3> QED
      BY <3>1, <3>2, TypesAre DEF Types
  <2> QED
    BY <2>1, <2>2, <2>3, <2>4, TypesAre DEF Types
<1>4. People \/ Works => UNCHANGED adopting
  BY DEF People, Works
<1> QED
  BY <1>1, <1>2, <1>3, <1>4, PeopleTypes, StageTypes, ClaimTypes, RemovalTypes DEF Next, Works

\* Every variable of a deletion keeps its type.
THEOREM TypeCorrect == Spec => []TypeOK
  BY InitTypes, TypeStep, PTL DEF Spec

-----------------------------------------------------------------------------
(* What the steps that touch media, objects or items do.                   *)

Silent == UNCHANGED <<media, object, item>>

\* Media get another owner, at once or late.
Adopted(m) ==
    /\ media[m].content # None /\ (media[m].pending => m \in adopting)
    /\ media' = [media EXCEPT ![m].owners = @ \cup {Other}]
    /\ UNCHANGED <<scenario, asset, chat, object, disk, op, item, worker, lapsed>>

LEMMA AdoptDoes == \A m \in Media : Adopt(m) => Adopted(m)
  BY DEF Adopt, Adopted, Rows

LEMMA LateDoes ==
    LateOwners => /\ UNCHANGED <<scenario, asset, chat, object, disk, op, item, worker, lapsed>>
                  /\ media' = media \/ \E m \in Media : Adopted(m)
<1> SUFFICES ASSUME NEW m \in Media, AskToAdopt(m) \/ AdoptLate(m)
             PROVE  /\ UNCHANGED <<scenario, asset, chat, object, disk, op, item, worker, lapsed>>
                    /\ media' = media \/ Adopted(m)
  BY DEF LateOwners
<1>1. CASE AskToAdopt(m)
  BY <1>1 DEF AskToAdopt, db
<1>2. CASE AdoptLate(m)
  BY <1>2 DEF AdoptLate, Adopted, Rows
<1> QED
  BY <1>1, <1>2

LEMMA StepKinds ==
    [Next]_vars =>
        \/ Silent
        \/ \E o \in Op : Retry(o)
        \/ \E m \in Media, c \in Content : Import(m, c)
        \/ \E m \in Media : Adopted(m)
        \/ BeginPass \/ StageIdentities
        \/ RecoverLeases \/ ClaimBatch \/ Finalize \/ Claim \/ MarkFailed
        \/ DeleteRows \/ Settle \/ SettleBatch
<1> SUFFICES ASSUME [Next]_vars
    PROVE \/ Silent
          \/ \E o \in Op : Retry(o)
          \/ \E m \in Media, c \in Content : Import(m, c)
          \/ \E m \in Media : Adopted(m)
          \/ BeginPass \/ StageIdentities
          \/ RecoverLeases \/ ClaimBatch \/ Finalize \/ Claim \/ MarkFailed
          \/ DeleteRows \/ Settle \/ SettleBatch
  OBVIOUS
<1>1. (\E S \in SUBSET Asset : Enqueue(S)) => Silent
  BY DEF Enqueue, Silent
<1>2. (\E a \in Asset : Restore(a) \/ Trash(a)) \/ DeleteChat => Silent
  BY DEF Restore, Trash, DeleteChat, Silent
<1>3. PrepareReferences \/ TakeUpOldest \/ Conclude => Silent
  BY DEF PrepareReferences, TakeUpOldest, Conclude, Silent
<1>4. Unlink \/ Checkpoint \/ Crash \/ LeasesLapse \/ UNCHANGED vars => Silent
  BY DEF Unlink, Checkpoint, Crash, LeasesLapse, vars, db, Silent
<1>5. LateOwners => Silent \/ \E m \in Media : Adopted(m)
  BY LateDoes DEF Silent
<1> QED
  BY <1>1, <1>2, <1>3, <1>4, <1>5, AdoptDoes DEF Next, People, Works

LEMMA ScenarioStays == [Next]_vars => scenario' = scenario
<1>1. People => scenario' = scenario
  BY DEF People, Enqueue, Restore, Trash, DeleteChat, Retry, Import, Adopt
<1>2. BeginPass \/ StageIdentities \/ PrepareReferences \/ RecoverLeases \/ ClaimBatch \/ TakeUpOldest
        => scenario' = scenario
  BY DEF BeginPass, StageIdentities, PrepareReferences, RecoverLeases, ClaimBatch, TakeUpOldest
<1>3. Finalize \/ Claim \/ Conclude \/ DeleteRows \/ MarkFailed \/ Unlink => scenario' = scenario
  BY DEF Finalize, Claim, Conclude, DeleteRows, MarkFailed, Unlink
<1>4. Settle \/ SettleBatch \/ Checkpoint \/ Crash \/ LeasesLapse \/ UNCHANGED vars => scenario' = scenario
  BY DEF Settle, SettleBatch, Checkpoint, Crash, LeasesLapse, vars
<1> QED
  BY <1>1, <1>2, <1>3, <1>4, LateDoes DEF Next, Works

\* The media an asset of the slice takes along, and those of the whole slice.
Mine(a, valid) == IF a \in valid THEN Collectible(a, valid) ELSE {}
AllOf(valid) == UNION {Mine(a, valid) : a \in valid}
\* The rows once nobody of the slice owns them any more.
Given(valid) == Collect([m \in Media |-> [media[m] EXCEPT !.owners = @ \ valid]], AllOf(valid))

LEMMA GivenIs ==
    ASSUME TypeOK, NEW valid
    PROVE  \A m \in Media :
              /\ Given(valid)[m].content = media[m].content /\ Given(valid)[m].sid = media[m].sid
              /\ Given(valid)[m].owners = media[m].owners \ valid
              /\ Given(valid)[m].pending = (media[m].pending \/ m \in AllOf(valid))
<1> TAKE m \in Media
<1>1. media[m] \in MediaRow
  BY TypesAre DEF Types
<1> QED
  BY <1>1, Zenon DEF Given, Collect, MediaRow

\* The slice that is staged, unless the pass ends with an exception.
StagedSlice(valid, scrubbed) ==
    LET staged == [m \in AllOf(valid) |-> Staged(Given(valid), m)]
    IN  /\ valid \subseteq {a \in Queued("identity_refs_scrubbed") : asset[a] \in {"trashed", "deleting"}}
        /\ \A a \in valid : ~Barred(a, valid)
        /\ asset' = [a \in Asset |-> IF a \in valid THEN "gone" ELSE asset[a]]
        /\ media' = [m \in Media |-> IF scrubbed /\ m \in AllOf(valid) THEN NoRow ELSE Given(valid)[m]]
        /\ object' = IF scrubbed THEN Deleting(Doomed(staged)) ELSE object
        /\ item' = [o \in Op |->
               IF o \notin valid THEN item[o]
               ELSE IF scrubbed
               THEN [m \in Media |-> IF m \in Mine(o, valid) THEN staged[m] ELSE NoItem]
               ELSE Pending(Mine(o, valid))]
        /\ \A o \in Op :
              \/ o \notin valid /\ op'[o] = op[o]
              \/ /\ o \in Queued("identity_refs_scrubbed") \ valid
                 /\ asset[o] \notin {"trashed", "deleting"} /\ op'[o] = Rejected(o)
              \/ /\ o \in valid /\ Mine(o, valid) = {}
                 /\ op'[o] = [op[o] EXCEPT !.status = "checkpointing", !.phase = "other"]
              \/ /\ o \in valid /\ Mine(o, valid) # {}
                 /\ op'[o] = [op[o] EXCEPT !.total = Cardinality(Mine(o, valid)),
                                           !.status = IF scrubbed THEN "running" ELSE "queued",
                                           !.phase = IF scrubbed THEN "unlinking_artifacts" ELSE "other"]
        /\ ~scrubbed => Spend("scrub")
        /\ worker'.pc \in {"prepare", "recover"}
        /\ UNCHANGED <<scenario, chat, disk, lapsed>>

LEMMA StageDoes ==
    ASSUME TypeOK, StageIdentities
    PROVE  \/ UNCHANGED db /\ EndsPass /\ UNCHANGED <<scenario, disk, lapsed, spent>>
           \/ \E valid \in SUBSET Asset, scrubbed \in BOOLEAN : StagedSlice(valid, scrubbed)
<1> DEFINE slice == First(Queued("identity_refs_scrubbed"), scenario.slice)
           valid == Deletable(slice)
<1>1. slice \subseteq Queued("identity_refs_scrubbed") /\ slice \in SUBSET Asset
  BY OperatorTypes
<1>2. valid = {a \in slice : asset[a] \in {"trashed", "deleting"}}
  BY DEF Deletable
<1>3. CASE \E a \in valid : Barred(a, valid)
  BY <1>3 DEF StageIdentities
<1>4. CASE ~\E a \in valid : Barred(a, valid)
  <2>1. PICK scrubbed \in BOOLEAN :
          /\ Disturbed("scrub", ~scrubbed) /\ StageSlice(slice, scrubbed) /\ chat' = chat
          /\ Goes(IF slice = {} /\ worker.pc = "stage" THEN "prepare" ELSE "recover")
          /\ UNCHANGED <<scenario, disk, lapsed>>
    BY <1>4 DEF StageIdentities
  <2> DEFINE staged == [m \in AllOf(valid) |-> Staged(Given(valid), m)]
  <2>2. /\ asset' = [a \in Asset |-> IF a \in valid THEN "gone" ELSE asset[a]]
        /\ media' = [m \in Media |-> IF scrubbed /\ m \in AllOf(valid) THEN NoRow ELSE Given(valid)[m]]
        /\ object' = IF scrubbed THEN Deleting(Doomed(staged)) ELSE object
        /\ item' = [o \in Op |->
               IF o \notin valid THEN item[o]
               ELSE IF scrubbed
               THEN [m \in Media |-> IF m \in Mine(o, valid) THEN staged[m] ELSE NoItem]
               ELSE Pending(Mine(o, valid))]
        /\ op' = [o \in Op |->
               IF o \notin slice THEN op[o]
               ELSE IF o \notin valid THEN Rejected(o)
               ELSE IF Mine(o, valid) = {} THEN [op[o] EXCEPT !.status = "checkpointing", !.phase = "other"]
               ELSE [op[o] EXCEPT !.total = Cardinality(Mine(o, valid)),
                                  !.status = IF scrubbed THEN "running" ELSE "queued",
                                  !.phase = IF scrubbed THEN "unlinking_artifacts" ELSE "other"]]
    BY <2>1 DEF StageSlice, Mine, AllOf, Given
  <2>3. worker'.pc \in {"prepare", "recover"}
    <3>1. worker \in WorkerRow
      BY TypesAre DEF Types
    <3> QED
      BY <3>1, <2>1 DEF Goes, WorkerRow
  <2>4. ~scrubbed => Spend("scrub")
    BY <2>1 DEF Disturbed
  <2>5. \A o \in Op :
              \/ o \notin valid /\ op'[o] = op[o]
              \/ /\ o \in Queued("identity_refs_scrubbed") \ valid
                 /\ asset[o] \notin {"trashed", "deleting"} /\ op'[o] = Rejected(o)
              \/ /\ o \in valid /\ Mine(o, valid) = {}
                 /\ op'[o] = [op[o] EXCEPT !.status = "checkpointing", !.phase = "other"]
              \/ /\ o \in valid /\ Mine(o, valid) # {}
                 /\ op'[o] = [op[o] EXCEPT !.total = Cardinality(Mine(o, valid)),
                                           !.status = IF scrubbed THEN "running" ELSE "queued",
                                           !.phase = IF scrubbed THEN "unlinking_artifacts" ELSE "other"]
    <3> HIDE DEF slice, valid
    <3> QED
      BY <2>2, <1>1, <1>2
  <2>6. valid \subseteq {a \in Queued("identity_refs_scrubbed") : asset[a] \in {"trashed", "deleting"}}
        /\ valid \in SUBSET Asset
    <3> HIDE DEF slice, valid
    <3> QED
      BY <1>1, <1>2
  <2> HIDE DEF valid, slice
  <2>7. StagedSlice(valid, scrubbed)
    BY <2>1, <2>2, <2>3, <2>4, <2>5, <2>6, <1>4 DEF StagedSlice
  <2> QED
    BY <2>6, <2>7
<1> QED
  BY <1>3, <1>4

-----------------------------------------------------------------------------
(* The order of operations, the points of a pass, and what is not touched  *)
(* yet.                                                                    *)

Control == IdsDiffer /\ OneOp /\ BatchOfAssets /\ OpsExist /\ WorkIsClaimed /\ Untouched

\* The oldest operation is one.
LEMMA OldestIsOne ==
    ASSUME TypeOK, IdsDiffer, NEW ops \in SUBSET Op, \A o \in ops : op[o].status # "none"
    PROVE  \A o, p \in First(ops, 1) : o = p
<1> SUFFICES ASSUME NEW o \in First(ops, 1), NEW p \in First(ops, 1) PROVE o = p
  OBVIOUS
<1>1. ASSUME NEW q \in First(ops, 1) PROVE \A r \in ops : ~(op[r].id < op[q].id)
  <2> DEFINE before == {r \in ops : op[r].id < op[q].id}
  <2>1. before \in SUBSET Op /\ Cardinality(before) < 1
    BY <1>1 DEF First
  <2>2. IsFiniteSet(before) /\ Cardinality(before) \in Nat
    BY <2>1, Counting
  <2>3. before = {}
    <3> HIDE DEF before
    <3> QED
      BY <2>1, <2>2, FS_EmptySet
  <2> QED
    BY <2>3
<1>2. o \in ops /\ p \in ops
  BY DEF First
<1>3. op[o].id \in Nat /\ op[p].id \in Nat
  BY <1>2, TypesAre DEF Types, OpRow
<1>4. op[o].id = op[p].id
  BY <1>1, <1>2, <1>3
<1> QED
  BY <1>2, <1>4 DEF IdsDiffer

\* Steps that leave operations, items and the worker alone.
LEMMA ControlElsewhere ==
    ASSUME TypeOK, Control, UNCHANGED <<op, item, worker>>,
           \A a \in Asset : asset'[a] # "gone" <=> asset[a] # "gone",
           chat' # "gone" => chat # "gone"
    PROVE  Control'
<1>1. UNCHANGED <<IdsDiffer, OneOp, BatchOfAssets, OpsExist, WorkIsClaimed>>
  BY DEF IdsDiffer, OneOp, BatchOfAssets, OpsExist, WorkIsClaimed
<1>2. Untouched'
  BY DEF Control, Untouched, NothingYet
<1> QED
  BY <1>1, <1>2 DEF Control

\* Steps that leave the ids and the existence of operations alone.
LEMMA SameOps ==
    ASSUME IdsDiffer, \A o \in Op : op'[o].id = op[o].id,
           \A o \in Op : op'[o].status # "none" <=> op[o].status # "none"
    PROVE  IdsDiffer'
  BY DEF IdsDiffer

LEMMA ControlPeople == ASSUME TypeOK, Control, People PROVE Control'
<1>1. ASSUME NEW chosen \in SUBSET Asset, Enqueue(chosen) PROVE Control'
  <2> DEFINE active == {a \in Asset : op[a].status \in ActiveStatus}
             fresh == chosen \ active
             rank(o) == Cardinality({a \in fresh : a <= o})
  <2>1. op' = [o \in Op |->
           IF o \in fresh THEN
               [NoOp EXCEPT !.status = "queued", !.phase = "identity_queued", !.id = Newest + rank(o)]
           ELSE IF active = {} /\ o \in Asset /\ op[o].status = "completed"
           THEN [op[o] EXCEPT !.status = "superseded"] ELSE op[o]]
    BY <1>1 DEF Enqueue
  <2>2. /\ \A a \in fresh : asset[a] \in {"trashed", "active"} /\ asset'[a] # "gone"
        /\ \A a \in Asset : asset'[a] # "gone" <=> asset[a] # "gone"
        /\ UNCHANGED <<chat, item, worker>>
    BY <1>1, TypesAre DEF Enqueue, Types
  <2>3. fresh \in SUBSET Asset /\ fresh \in SUBSET Op
    BY FinitePools
  <2>4. \A o \in fresh, p \in fresh : o < p => rank(o) < rank(p)
    <3> SUFFICES ASSUME NEW o \in fresh, NEW p \in fresh, o < p PROVE rank(o) < rank(p)
      OBVIOUS
    <3> DEFINE A == {a \in fresh : a <= o}
               B == {a \in fresh : a <= p}
    <3>1. \A a \in fresh : a \in Nat
      BY <2>3, FinitePools
    <3>2. A \subseteq B /\ p \in B /\ p \notin A
      BY <3>1
    <3>3. IsFiniteSet(B) /\ B \in SUBSET Op
      BY <2>3, Counting
    <3>4. Cardinality(A) < Cardinality(B)
      <4> HIDE DEF A, B
      <4> QED
        BY <3>2, <3>3, FS_Subset, FS_CardinalityType
    <3> QED
      BY <3>4
  <2>5. \A o \in fresh : rank(o) \in Nat /\ rank(o) > 0
    <3> SUFFICES ASSUME NEW o \in fresh PROVE rank(o) \in Nat /\ rank(o) > 0
      OBVIOUS
    <3> DEFINE A == {a \in fresh : a <= o}
    <3>1. o \in A /\ A \in SUBSET Op
      BY <2>3, FinitePools
    <3>2. IsFiniteSet(A) /\ Cardinality(A) \in Nat /\ Cardinality(A) # 0
      <4> HIDE DEF A
      <4> QED
        BY <3>1, Counting, FS_EmptySet
    <3> QED
      BY <3>2
  <2>6. Newest \in Nat /\ \A o \in Op : op[o].id <= Newest /\ op[o].id \in Nat
    BY NewestIsNewest, TypesAre DEF Types, OpRow
  <2>7. \A o \in Op : o \in fresh => op'[o].id = Newest + rank(o)
    BY <2>1 DEF NoOp
  <2>8. \A o \in Op : o \notin fresh => /\ op'[o].id = op[o].id /\ op'[o].phase = op[o].phase
                                        /\ op'[o].total = op[o].total /\ op'[o].failed = op[o].failed
                                        /\ op'[o].status # "none" <=> op[o].status # "none"
                                        /\ op'[o].status = "none" => op'[o] = op[o]
    <3> HIDE DEF fresh, rank, active
    <3> QED
      BY <2>1, TypesAre DEF Types, OpRow
  <2>9. \A o \in Op : o \in fresh => /\ op'[o].status = "queued" /\ op'[o].phase = "identity_queued"
                                     /\ op'[o].total = 0 /\ op'[o].failed = 0
    BY <2>1 DEF NoOp
  <2> HIDE DEF fresh, active, rank
  <2>10. IdsDiffer'
    <3> SUFFICES ASSUME NEW o \in Op, NEW p \in Op, op'[o].status # "none", op'[p].status # "none",
                        op'[o].id = op'[p].id
                 PROVE  o = p
      BY DEF IdsDiffer
    <3>1. CASE o \in fresh /\ p \in fresh
      <4>1. rank(o) = rank(p)
        BY <3>1, <2>7, <2>5, <2>6
      <4>2. o \in Nat /\ p \in Nat
        BY FinitePools
      <4>3. o = p \/ o < p \/ p < o
        BY <4>2
      <4> QED
        BY <4>1, <4>3, <3>1, <2>4, <2>5
    <3>2. CASE o \in fresh /\ p \notin fresh
      BY <3>2, <2>5, <2>6, <2>7, <2>8
    <3>3. CASE o \notin fresh /\ p \in fresh
      BY <3>3, <2>5, <2>6, <2>7, <2>8
    <3>4. CASE o \notin fresh /\ p \notin fresh
      BY <3>4, <2>8 DEF Control, IdsDiffer
    <3> QED
      BY <3>1, <3>2, <3>3, <3>4
  <2>11. OpsExist'
    <3>1. \A o \in worker.ops : o \in Op
      BY TypesAre DEF Types, WorkerRow
    <3> QED
      BY <3>1, <2>2, <2>8, <2>9 DEF Control, OpsExist
  <2>12. Untouched'
    <3>1. \A a \in Asset : asset'[a] # "gone" => NothingYet(a)'
      BY <2>2, <2>8, <2>9, FinitePools DEF Control, Untouched, NothingYet
    <3>2. \A a \in Asset : op'[a].phase \in IdentityPhase => asset'[a] # "gone" /\ op'[a].failed = 0
      BY <2>2, <2>8, <2>9, FinitePools DEF Control, Untouched
    <3>3. Chat \in Op /\ Chat \notin fresh
      BY <2>3, FinitePools
    <3>4. op'[Chat].phase \notin IdentityPhase
      BY <3>3, <2>8 DEF Control, Untouched
    <3>5. chat' # "gone" => NothingYet(Chat)' /\ op'[Chat].status = "none"
      BY <3>3, <2>2, <2>8 DEF Control, Untouched, NothingYet
    <3> QED
      BY <3>1, <3>2, <3>4, <3>5 DEF Untouched
  <2>13. OneOp' /\ BatchOfAssets' /\ WorkIsClaimed'
    BY <2>2 DEF Control, OneOp, BatchOfAssets, WorkIsClaimed
  <2> QED
    BY <2>10, <2>11, <2>12, <2>13 DEF Control
<1>2. ASSUME NEW a \in Asset, Restore(a) \/ Trash(a) PROVE Control'
  BY <1>2, ControlElsewhere, TypesAre DEF Restore, Trash, Types
<1>3. ASSUME DeleteChat PROVE Control'
  BY <1>3, ControlElsewhere DEF DeleteChat
<1>4. ASSUME NEW o \in Op, Retry(o) PROVE Control'
  <2>1. op[o] \in OpRow /\ op[o].status = "failed"
    BY <1>4, TypesAre DEF Types, Retry
  <2>2. /\ op'[o].status = "queued" /\ op'[o].failed = 0 /\ op'[o].id = op[o].id
        /\ op'[o].total = op[o].total
        /\ op'[o].phase \in IdentityPhase => o \in Asset /\ asset[o] # "gone"
        /\ \A p \in Op \ {o} : op'[p] = op[p]
    BY <1>4, <2>1, TypesAre DEF Retry, Types, OpRow, IdentityPhase
  <2>3. \A p \in Op, m \in Media :
            /\ item'[p][m] = item[p][m] \/ (p = o /\ item[o][m].state \in {"failed", "unlink_failed"})
    BY <1>4, TypesAre DEF Retry, Types, In
  <2>4. UNCHANGED <<asset, chat, worker>>
    BY <1>4 DEF Retry
  <2>5. IdsDiffer'
    BY <2>1, <2>2, SameOps DEF Control
  <2>6. OpsExist'
    BY <2>1, <2>2, <2>4, TypesAre DEF Control, OpsExist, Types, WorkerRow
  <2>7. WorkIsClaimed'
    BY <2>3, <2>4, TypesAre DEF Control, WorkIsClaimed, Types, WorkerRow
  <2>8. Untouched'
    <3>1. \A p \in Op : NothingYet(p) => NothingYet(p)'
      BY <2>2, <2>3 DEF NothingYet
    <3>2. chat # "gone" => o # Chat
      BY <2>1 DEF Control, Untouched
    <3> QED
      BY <3>1, <3>2, <2>2, <2>4, FinitePools DEF Control, Untouched
  <2>9. OneOp' /\ BatchOfAssets'
    BY <2>4 DEF Control, OneOp, BatchOfAssets
  <2> QED
    BY <2>5, <2>6, <2>7, <2>8, <2>9 DEF Control
<1>5. ASSUME NEW m \in Media, \/ \E c \in Content : Import(m, c)
                              \/ Adopt(m)
      PROVE  Control'
  BY <1>5, ControlElsewhere DEF Import, Adopt
<1> QED
  BY <1>1, <1>2, <1>3, <1>4, <1>5 DEF People

\* Steps that relabel items, or none, leave what is not touched alone.
LEMMA UntouchedKept ==
    ASSUME TypeOK, Untouched, UNCHANGED <<asset, chat>>,
           \A o \in Op : NothingYet(o) =>
               \A m \in Media : item'[o][m].state = "none",
           \A o \in Op : /\ op'[o].total = op[o].total
                         /\ op'[o].phase \in IdentityPhase =>
                               o \in Asset /\ asset[o] # "gone" /\ op'[o].failed = 0,
           op[Chat].status = "none" => op'[Chat].status = "none"
    PROVE  Untouched'
<1>1. \A o \in Op : NothingYet(o) => NothingYet(o)'
  BY DEF NothingYet
<1> QED
  BY <1>1, FinitePools DEF Untouched

LEMMA ControlStage ==
    ASSUME TypeOK, Control, BeginPass \/ StageIdentities \/ PrepareReferences
    PROVE  Control'
<1>0. worker \in WorkerRow /\ \A o \in Op : op[o] \in OpRow
  BY TypesAre DEF Types
<1>1. CASE BeginPass
  <2>1. worker'.pc = "stage" /\ worker'.ops = worker.ops /\ worker'.broken = worker.broken
    BY <1>1, <1>0 DEF BeginPass, Goes, WorkerRow
  <2>2. OneOp' /\ BatchOfAssets' /\ WorkIsClaimed'
    BY <2>1 DEF OneOp, OneOpPoint, BatchOfAssets, WorkIsClaimed
  <2>3. CASE chat = "deleted"
    <3>1. PICK n \in Nat : \E md :
            /\ chat' = "gone" /\ asset' = asset
            /\ item' = [item EXCEPT ![Chat] = md]
            /\ op' = [op EXCEPT ![Chat] = [NoOp EXCEPT !.status = "queued", !.id = Newest + 1, !.total = n]]
      <4> DEFINE kept == [m \in Media |-> [media[m] EXCEPT !.owners = @ \ {Chat}]]
                 mine == {m \in Rows : Chat \in media[m].owners /\ kept[m].owners = {} /\ ~media[m].pending}
      <4>1. mine \in SUBSET Media
        BY DEF Rows
      <4>2. Cardinality(mine) \in Nat
        BY <4>1, Counting
      <4> QED
        BY <4>2, <1>1, <2>3 DEF BeginPass
    <3>2. /\ op'[Chat].id = Newest + 1 /\ op'[Chat].status = "queued" /\ op'[Chat].phase = "other"
          /\ \A o \in Op \ {Chat} : op'[o] = op[o] /\ item'[o] = item[o]
      BY <3>1, FinitePools, TypesAre DEF Types, NoOp
    <3>3. IdsDiffer'
      <4>1. Newest \in Nat /\ \A o \in Op : op[o].id <= Newest /\ op[o].id \in Nat
        BY NewestIsNewest, <1>0 DEF OpRow
      <4>2. \A o \in Op \ {Chat} : op[o].id # Newest + 1
        BY <4>1
      <4> QED
        BY <4>2, <3>2 DEF Control, IdsDiffer
    <3>4. OpsExist'
      BY <2>1, <3>2, <1>0 DEF Control, OpsExist, WorkerRow
    <3>5. Untouched'
      BY <3>1, <3>2, FinitePools DEF Control, Untouched, NothingYet, IdentityPhase
    <3> QED
      BY <2>2, <3>3, <3>4, <3>5 DEF Control
  <2>4. CASE chat # "deleted"
    <3>1. UNCHANGED <<chat, item, op, asset>>
      BY <1>1, <2>4 DEF BeginPass
    <3> QED
      BY <2>1, <2>2, <3>1 DEF Control, IdsDiffer, OpsExist, Untouched, NothingYet
  <2> QED
    BY <2>3, <2>4
<1>2. CASE StageIdentities
  <2>1. CASE UNCHANGED db /\ EndsPass
    BY <2>1 DEF db, EndsPass, Idle, Control, IdsDiffer, OneOp, OneOpPoint, BatchOfAssets, OpsExist,
       WorkIsClaimed, Untouched, NothingYet
  <2>2. ASSUME NEW valid \in SUBSET Asset, NEW scrubbed \in BOOLEAN, StagedSlice(valid, scrubbed)
        PROVE  Control'
    <3>1. worker'.pc \in {"prepare", "recover"} /\ worker'.ops = worker.ops /\ worker'.broken = worker.broken
      <4>1. \E pc : Goes(pc)
        <5>1. CASE EndsPass
          BY <5>1, <2>2 DEF EndsPass, Idle, StagedSlice
        <5> QED
          BY <5>1, <1>2 DEF StageIdentities
      <4> QED
        BY <4>1, <1>0, <2>2 DEF Goes, WorkerRow, StagedSlice
    <3>2. OneOp' /\ BatchOfAssets' /\ WorkIsClaimed'
      BY <3>1 DEF OneOp, OneOpPoint, BatchOfAssets, WorkIsClaimed
    <3>3. \A o \in Op : /\ op'[o].id = op[o].id
                        /\ op'[o].status # "none" <=> op[o].status # "none"
                        /\ o \notin valid => op'[o] = op[o] \/ op'[o] = Rejected(o)
                        /\ op'[o].phase \in IdentityPhase => op'[o] = op[o] /\ o \notin valid
      <4> SUFFICES ASSUME NEW o \in Op
                   PROVE  /\ op'[o].id = op[o].id
                          /\ op'[o].status # "none" <=> op[o].status # "none"
                          /\ o \notin valid => op'[o] = op[o] \/ op'[o] = Rejected(o)
                          /\ op'[o].phase \in IdentityPhase => op'[o] = op[o] /\ o \notin valid
        OBVIOUS
      <4>1. op[o] \in OpRow /\ (o \in Queued("identity_refs_scrubbed") => op[o].status = "queued")
        BY <1>0 DEF Queued
      <4>2. CASE o \notin valid /\ op'[o] = op[o]
        BY <4>2
      <4>3. CASE o \in Queued("identity_refs_scrubbed") \ valid /\ op'[o] = Rejected(o)
        BY <4>1, <4>3 DEF Rejected, OpRow, IdentityPhase
      <4>4. CASE o \in valid /\ op'[o] = [op[o] EXCEPT !.status = "checkpointing", !.phase = "other"]
        BY <4>1, <4>4, <2>2 DEF OpRow, IdentityPhase, StagedSlice
      <4>5. CASE /\ o \in valid
                 /\ op'[o] = [op[o] EXCEPT !.total = Cardinality(Mine(o, valid)),
                                           !.status = IF scrubbed THEN "running" ELSE "queued",
                                           !.phase = IF scrubbed THEN "unlinking_artifacts" ELSE "other"]
        BY <4>1, <4>5, <2>2 DEF OpRow, IdentityPhase, StagedSlice
      <4> QED
        BY <4>2, <4>3, <4>4, <4>5, <2>2 DEF StagedSlice
    <3>4. IdsDiffer' /\ OpsExist'
      BY <3>1, <3>3, <1>0, SameOps DEF Control, OpsExist, WorkerRow
    <3>5. /\ \A a \in Asset : asset'[a] # "gone" <=> a \notin valid /\ asset[a] # "gone"
          /\ \A o \in Op \ valid : item'[o] = item[o]
          /\ chat' = chat
      BY <2>2, TypesAre DEF StagedSlice, Types
    <3>6. \A o \in Op \ valid : op'[o].total = op[o].total
      BY <3>3, <1>0 DEF Rejected, OpRow
    <3>7. \A o \in valid : op'[o].phase \notin IdentityPhase
      BY <3>3, FinitePools
    <3>8. Chat \notin valid /\ op'[Chat] = op[Chat]
      BY <2>2, FinitePools DEF StagedSlice, Queued
    <3>9. Untouched'
      BY <3>3, <3>5, <3>6, <3>7, <3>8, FinitePools DEF Control, Untouched, NothingYet
    <3> QED
      BY <3>2, <3>4, <3>9 DEF Control
  <2> QED
    BY <2>1, <2>2, <1>2, StageDoes
<1>3. CASE PrepareReferences
  <2>1. worker'.pc = "stage again" /\ worker'.ops = worker.ops /\ worker'.broken = worker.broken
    BY <1>3, <1>0 DEF PrepareReferences, Goes, WorkerRow
  <2>2. OneOp' /\ BatchOfAssets' /\ WorkIsClaimed'
    BY <2>1 DEF OneOp, OneOpPoint, BatchOfAssets, WorkIsClaimed
  <2>3. \A o \in Op : /\ op'[o].id = op[o].id /\ op'[o].total = op[o].total
                      /\ op'[o].status # "none" <=> op[o].status # "none"
                      /\ op'[o].phase \in IdentityPhase => op'[o].failed = op[o].failed
                                                         /\ op[o].phase \in IdentityPhase
    <3>1. \A o \in Op : \/ op'[o] = op[o]
                        \/ /\ op[o].status = "queued" /\ op[o].phase = "identity_queued"
                           /\ op'[o] = [op[o] EXCEPT !.phase = "identity_refs_scrubbed"]
                        \/ op[o].status = "queued" /\ op'[o] = Rejected(o)
      BY <1>3 DEF PrepareReferences, Queued, Deletable
    <3> QED
      BY <3>1, <1>0 DEF Rejected, OpRow, IdentityPhase
  <2>4. op[Chat].status = "none" => op'[Chat].status = "none"
    BY <2>3, FinitePools
  <2>5. UNCHANGED <<asset, chat, item>>
    BY <1>3 DEF PrepareReferences
  <2>6. IdsDiffer' /\ OpsExist'
    BY <2>1, <2>3, <1>0, SameOps DEF Control, OpsExist, WorkerRow
  <2>7. Untouched'
    <3>1. \A o \in Op : op[o].phase \in IdentityPhase => o \in Asset /\ asset[o] # "gone" /\ op[o].failed = 0
      BY DEF Control, Untouched, Op
    <3> QED
      BY <3>1, <2>3, <2>4, <2>5, UntouchedKept DEF Control, NothingYet
  <2> QED
    BY <2>2, <2>6, <2>7 DEF Control
<1> QED
  BY <1>1, <1>2, <1>3

\* How the state of an item changes while it stays an item.
Moves(s, t) ==
    \/ s = t
    \/ s = "claimed" /\ t = "pending"
    \/ s = "claimed" /\ t = "failed" /\ worker.pc = "mark"
    \/ s = "pending" /\ t = "claimed"
    \/ s = "unlinking" /\ t = "media_deleted"
    \/ s = "media_deleted" /\ t = "unlinking"
    \/ s = "unlinking_retry" /\ t = "unlink_retry"
    \/ s = "unlink_retry" /\ t = "unlinking_retry"

Moved(o, m) ==
    /\ Moves(item[o][m].state, item'[o][m].state)
    /\ item'[o][m].content = item[o][m].content /\ item'[o][m].sid = item[o][m].sid
    /\ item'[o][m].key = item[o][m].key

LEMMA ItemsMove ==
    ASSUME TypeOK, WorkIsClaimed, RecoverLeases \/ ClaimBatch \/ Finalize \/ Claim \/ MarkFailed
    PROVE  UNCHANGED <<media, object>> /\ \A o \in Op, m \in Media : Moved(o, m)
<1>0. worker \in WorkerRow /\ item \in [Op -> [Media -> ItemRow]]
  BY TypesAre DEF Types
<1>1. CASE RecoverLeases
  <2>1. UNCHANGED <<media, object>>
    BY <1>1 DEF RecoverLeases
  <2>2. CASE lapsed
    <3>1. \A o \in Op, m \in Media : item'[o][m] = [item[o][m] EXCEPT !.state = Recovered(@)]
      BY <1>1, <2>2 DEF RecoverLeases
    <3>2. \A s : Moves(s, Recovered(s))
      BY DEF Recovered, Moves
    <3>9. ASSUME NEW o \in Op, NEW m \in Media PROVE Moved(o, m)
      <4>1. item[o][m] \in ItemRow
        BY <1>0
      <4>2. \E s : item'[o][m] = [item[o][m] EXCEPT !.state = s] /\ Moves(item[o][m].state, s)
        BY <3>1, <3>2, <4>1 DEF ItemRow, Moves
      <4> QED
        BY <4>1, <4>2 DEF Moved, ItemRow
    <3> QED
      BY <2>1, <3>9
  <2>3. CASE ~lapsed
    BY <1>1, <2>1, <2>3 DEF RecoverLeases, Moved, Moves
  <2> QED
    BY <2>2, <2>3
<1>2. CASE ClaimBatch
  <2>1. UNCHANGED <<media, object>>
    BY <1>2 DEF ClaimBatch
  <2>2. \A o \in Op, m \in Media :
           \/ item'[o][m] = item[o][m]
           \/ item[o][m].state = "media_deleted" /\ item'[o][m] = [item[o][m] EXCEPT !.state = "unlinking"]
    BY <1>2 DEF ClaimBatch
  <2>3. Moves("media_deleted", "unlinking")
    BY DEF Moves
  <2>9. ASSUME NEW o \in Op, NEW m \in Media PROVE Moved(o, m)
    <3>1. item[o][m] \in ItemRow
      BY <1>0
    <3>2. \E s : item'[o][m] = [item[o][m] EXCEPT !.state = s] /\ Moves(item[o][m].state, s)
      BY <2>2, <2>3, <3>1 DEF ItemRow, Moves
    <3> QED
      BY <3>1, <3>2 DEF Moved, ItemRow
  <2> QED
    BY <2>1, <2>9
<1>3. CASE Finalize
  <2>1. UNCHANGED <<media, object>>
    BY <1>3 DEF Finalize
  <2>2. PICK p \in worker.ops :
          item' = [item EXCEPT ![p] = [m \in Media |-> [item[p][m] EXCEPT !.state =
               CASE @ = "media_deleted" -> "unlinking"
                 [] @ = "unlink_retry" -> "unlinking_retry"
                 [] OTHER -> @]]]
    BY <1>3 DEF Finalize
  <2>3. \A o \in Op, m \in Media :
           \/ item'[o][m] = item[o][m]
           \/ item'[o][m] = [item[o][m] EXCEPT !.state =
                                CASE @ = "media_deleted" -> "unlinking"
                                  [] @ = "unlink_retry" -> "unlinking_retry"
                                  [] OTHER -> @]
    BY <2>2, <1>0 DEF WorkerRow
  <2>4. \A x : LET y == CASE x = "media_deleted" -> "unlinking"
                          [] x = "unlink_retry" -> "unlinking_retry"
                          [] OTHER -> x
              IN  Moves(x, y)
    BY DEF Moves
  <2>9. ASSUME NEW o \in Op, NEW m \in Media PROVE Moved(o, m)
    <3>1. item[o][m] \in ItemRow
      BY <1>0
    <3> DEFINE y == CASE item[o][m].state = "media_deleted" -> "unlinking"
                      [] item[o][m].state = "unlink_retry" -> "unlinking_retry"
                      [] OTHER -> item[o][m].state
    <3>2. Moves(item[o][m].state, y) /\ Moves(item[o][m].state, item[o][m].state)
      BY <2>4 DEF Moves
    <3>3. item'[o][m] = item[o][m] \/ item'[o][m] = [item[o][m] EXCEPT !.state = y]
      BY <2>3
    <3> HIDE DEF y
    <3> QED
      BY <3>1, <3>2, <3>3 DEF Moved, ItemRow
  <2> QED
    BY <2>1, <2>9
<1>4. CASE Claim
  <2>1. UNCHANGED <<media, object>>
    BY <1>4 DEF Claim
  <2>2. \A o \in Op, m \in Media :
           \/ item'[o][m] = item[o][m]
           \/ item[o][m].state = "pending" /\ item'[o][m] = [item[o][m] EXCEPT !.state = "claimed"]
    BY <1>4, <1>0 DEF Claim, In, WorkerRow
  <2>3. Moves("pending", "claimed")
    BY DEF Moves
  <2>9. ASSUME NEW o \in Op, NEW m \in Media PROVE Moved(o, m)
    <3>1. item[o][m] \in ItemRow
      BY <1>0
    <3>2. \E s : item'[o][m] = [item[o][m] EXCEPT !.state = s] /\ Moves(item[o][m].state, s)
      BY <2>2, <2>3, <3>1 DEF ItemRow, Moves
    <3> QED
      BY <3>1, <3>2 DEF Moved, ItemRow
  <2> QED
    BY <2>1, <2>9
<1>5. CASE MarkFailed
  <2>1. UNCHANGED <<media, object>>
    BY <1>5 DEF MarkFailed
  <2>2. \A o \in Op, m \in Media :
           \/ item'[o][m] = item[o][m]
           \/ item[o][m].state = "claimed" /\ item'[o][m] = [item[o][m] EXCEPT !.state = "failed"]
    BY <1>5, <1>0 DEF MarkFailed, WorkIsClaimed, WorkerRow
  <2>3. Moves("claimed", "failed")
    BY <1>5 DEF MarkFailed, Moves
  <2>9. ASSUME NEW o \in Op, NEW m \in Media PROVE Moved(o, m)
    <3>1. item[o][m] \in ItemRow
      BY <1>0
    <3>2. \E s : item'[o][m] = [item[o][m] EXCEPT !.state = s] /\ Moves(item[o][m].state, s)
      BY <2>2, <2>3, <3>1 DEF ItemRow, Moves
    <3> QED
      BY <3>1, <3>2 DEF Moved, ItemRow
  <2> QED
    BY <2>1, <2>9
<1> QED
  BY <1>1, <1>2, <1>3, <1>4, <1>5

\* A retry takes failed items up again.
LEMMA RetryDoes ==
    ASSUME TypeOK, NEW o \in Op, Retry(o)
    PROVE  /\ \A p \in Op \ {o} : item'[p] = item[p] /\ op'[p] = op[p]
           /\ \A m \in Media :
                 /\ item'[o][m].content = item[o][m].content /\ item'[o][m].sid = item[o][m].sid
                 /\ item'[o][m].key = item[o][m].key
                 /\ item'[o][m].state = IF item[o][m].state = "failed" /\ m \in Rows THEN "pending"
                                        ELSE IF item[o][m].state \in {"failed", "unlink_failed"}
                                        THEN "unlink_retry" ELSE item[o][m].state
                 /\ media'[m].content = media[m].content /\ media'[m].sid = media[m].sid
                 /\ media'[m].owners = media[m].owners
                 /\ \/ media'[m].pending = media[m].pending
                    \/ item[o][m].state = "failed" /\ m \in Rows /\ media'[m].pending = TRUE
           /\ op[o].status = "failed" /\ op'[o].status = "queued"
           /\ op'[o].failed = 0 /\ op'[o].total = op[o].total /\ op'[o].deleted = op[o].deleted
           /\ op'[o].id = op[o].id
           /\ op'[o].processed = IF op[o].processed > op[o].failed
                                 THEN op[o].processed - op[o].failed ELSE 0
           /\ op'[o].phase \in {"identity_queued", "other"}
           /\ UNCHANGED <<object, disk, worker, asset, chat, scenario, lapsed>>
           /\ "retry" \in scenario.events
<1>0. /\ item \in [Op -> [Media -> ItemRow]] /\ op \in [Op -> OpRow] /\ media \in [Media -> MediaRow]
  BY TypesAre DEF Types
<1>1. /\ \A p \in Op \ {o} : item'[p] = item[p] /\ op'[p] = op[p]
      /\ op[o].status = "failed"
      /\ UNCHANGED <<object, disk, worker, asset, chat, scenario, lapsed>>
      /\ "retry" \in scenario.events
  BY <1>0 DEF Retry, Spend, May
<1>2. ASSUME NEW m \in Media
      PROVE  /\ item'[o][m].content = item[o][m].content /\ item'[o][m].sid = item[o][m].sid
             /\ item'[o][m].key = item[o][m].key
             /\ item'[o][m].state = IF item[o][m].state = "failed" /\ m \in Rows THEN "pending"
                                    ELSE IF item[o][m].state \in {"failed", "unlink_failed"}
                                    THEN "unlink_retry" ELSE item[o][m].state
  <2>1. item[o][m] \in ItemRow
    BY <1>0
  <2>2. item'[o][m] = IF item[o][m].state \in {"failed", "unlink_failed"}
                      THEN [item[o][m] EXCEPT !.state =
                              IF item[o][m].state = "failed" /\ m \in Rows THEN "pending" ELSE "unlink_retry"]
                      ELSE item[o][m]
    BY <1>0 DEF Retry, In
  <2> QED
    BY <2>1, <2>2 DEF ItemRow
<1>3. ASSUME NEW m \in Media
      PROVE  /\ media'[m].content = media[m].content /\ media'[m].sid = media[m].sid
             /\ media'[m].owners = media[m].owners
             /\ \/ media'[m].pending = media[m].pending
                \/ item[o][m].state = "failed" /\ m \in Rows /\ media'[m].pending = TRUE
  <2>1. media[m] \in MediaRow
    BY <1>0
  <2>2. media'[m] = IF item[o][m].state = "failed" /\ m \in Rows
                    THEN [media[m] EXCEPT !.pending = TRUE] ELSE media[m]
    BY DEF Retry, In
  <2> QED
    BY <2>1, <2>2 DEF MediaRow
<1>4. /\ op'[o].status = "queued"
      /\ op'[o].failed = 0 /\ op'[o].total = op[o].total /\ op'[o].deleted = op[o].deleted
      /\ op'[o].id = op[o].id
      /\ op'[o].processed = IF op[o].processed > op[o].failed
                            THEN op[o].processed - op[o].failed ELSE 0
      /\ op'[o].phase \in {"identity_queued", "other"}
  <2>1. op[o] \in OpRow
    BY <1>0
  <2>2. PICK ph \in {"identity_queued", "other"} :
          op'[o] = [op[o] EXCEPT !.status = "queued", !.failed = 0,
                       !.processed = IF op[o].processed > op[o].failed
                                     THEN op[o].processed - op[o].failed ELSE 0,
                       !.phase = ph]
    BY <1>0 DEF Retry
  <2> QED
    BY <2>1, <2>2 DEF OpRow
<1> QED
  BY <1>1, <1>2, <1>3, <1>4

\* The rows of good are deleted for o; those of bad could not be.
StagedRows(good) ==
    [m \in good |-> [Staged(media, m) EXCEPT !.key =
        /\ object[media[m].content].sid = media[m].sid
        /\ object[media[m].content].state # "none"
        /\ Refs(media, media[m].content, media[m].sid) \subseteq good]]

RowsDeleted(o, bad, good) ==
    /\ bad \in SUBSET worker.work /\ good = (worker.work \ bad) \cap Rows
    /\ \A m \in worker.work : media[m].owners # {} => m \in bad
    /\ bad # {m \in worker.work : media[m].owners # {}} => "scrub" \in scenario.events
    /\ media' = [m \in Media |-> IF m \in good THEN NoRow ELSE media[m]]
    /\ object' = Deleting(Doomed(StagedRows(good)))
    /\ item' = [item EXCEPT ![o] = [m \in Media |->
            IF m \in good THEN StagedRows(good)[m]
            ELSE IF m \in worker.work \ bad THEN [item[o][m] EXCEPT !.state = "media_deleted"]
            ELSE item[o][m]]]
    /\ op' = [op EXCEPT ![o].phase = IF bad = worker.work THEN @ ELSE "unlinking_artifacts"]
    /\ IF bad = {} THEN EndsPass ELSE Takes("mark", {o}, bad, {})
    /\ worker.pc = "scrub"
    /\ UNCHANGED <<scenario, asset, chat, disk, lapsed>>

LEMMA DeleteDoes ==
    ASSUME TypeOK, DeleteRows
    PROVE  \E o \in worker.ops, bad \in SUBSET worker.work, good \in SUBSET Media : RowsDeleted(o, bad, good)
<1>1. PICK o \in worker.ops, bad \in SUBSET worker.work :
          RowsDeleted(o, bad, (worker.work \ bad) \cap Rows)
  BY DEF DeleteRows, RowsDeleted, StagedRows, Disturbed, Spend, May
<1> QED
  BY <1>1 DEF Rows

\* What settles the removal of files does to items, operations and objects.
Settles ==
    /\ \A o \in Op, m \in Media :
          item'[o][m] = IF o \in worker.ops /\ item[o][m].state \in {"unlinking", "unlinking_retry"}
                        THEN IF o \in worker.broken THEN [item[o][m] EXCEPT !.state = "unlink_failed"]
                             ELSE NoItem
                        ELSE item[o][m]
    /\ \A o \in Op :
          \/ o \notin worker.ops /\ op'[o] = op[o]
          \/ o \in worker.ops /\ op'[o] = Counted(o, Cardinality(InUnlink(o)))
          \/ /\ o \in (worker.ops \ worker.broken) \cap Asset
             /\ op'[o] = [Counted(o, Cardinality(InUnlink(o))) EXCEPT !.status = "checkpointing"]
             /\ \/ worker.pc = "settle batch"
                \/ In(o, ItemState \ {"none", "failed"}) \ InUnlink(o) = {}
    /\ \E S : /\ object' = Dropped(worker.ops \ worker.broken, S)
              /\ \A c \in Content : Rooted(media, c, object[c].sid) # {} => c \in S
              /\ worker.pc = "settle" => S = {c \in Content : Refs(media, c, object[c].sid) # {}}
    /\ worker.pc \in {"settle", "settle batch"} /\ EndsPass
    /\ UNCHANGED <<scenario, asset, chat, media, disk, lapsed, spent>>

LEMMA SettleDoes ==
    ASSUME TypeOK, Control, Settle \/ SettleBatch
    PROVE  Settles
<1>0. worker \in WorkerRow /\ item \in [Op -> [Media -> ItemRow]] /\ op \in [Op -> OpRow]
  BY TypesAre DEF Types
<1>1. CASE Settle
  <2>1. PICK o \in worker.ops :
          /\ worker.pc = "settle"
          /\ object' = Dropped(worker.ops \ worker.broken, {c \in Content : Refs(media, c, object[c].sid) # {}})
          /\ item' = [item EXCEPT ![o] = IF o \in worker.broken THEN UnlinkFailed(o) ELSE Unlinked(o)]
          /\ \/ op' = [op EXCEPT ![o] = Counted(o, Cardinality(InUnlink(o)))]
             \/ /\ o \in Asset \ worker.broken
                /\ In(o, ItemState \ {"none", "failed"}) \ InUnlink(o) = {}
                /\ op' = [op EXCEPT ![o] = [Counted(o, Cardinality(InUnlink(o))) EXCEPT !.status = "checkpointing"]]
          /\ EndsPass
          /\ UNCHANGED <<scenario, asset, chat, media, disk, lapsed, spent>>
    BY <1>1 DEF Settle
  <2>2. o \in Op /\ \A p \in Op : p \in worker.ops <=> p = o
    BY <2>1, <1>0 DEF Control, OneOp, OneOpPoint, WorkerRow
  <2>3. \A p \in Op, m \in Media :
          item'[p][m] = IF p \in worker.ops /\ item[p][m].state \in {"unlinking", "unlinking_retry"}
                        THEN IF p \in worker.broken THEN [item[p][m] EXCEPT !.state = "unlink_failed"]
                             ELSE NoItem
                        ELSE item[p][m]
    BY <2>1, <2>2, <1>0 DEF UnlinkFailed, Unlinked, InUnlink, In
  <2>4. \A p \in Op :
          \/ p \notin worker.ops /\ op'[p] = op[p]
          \/ p \in worker.ops /\ op'[p] = Counted(p, Cardinality(InUnlink(p)))
          \/ /\ p \in (worker.ops \ worker.broken) \cap Asset
             /\ op'[p] = [Counted(p, Cardinality(InUnlink(p))) EXCEPT !.status = "checkpointing"]
             /\ In(p, ItemState \ {"none", "failed"}) \ InUnlink(p) = {}
    BY <2>1, <2>2, <1>0
  <2>5. \A c \in Content : Rooted(media, c, object[c].sid) # {} => Refs(media, c, object[c].sid) # {}
    BY DEF Rooted
  <2>6. \E S : /\ object' = Dropped(worker.ops \ worker.broken, S)
               /\ \A c \in Content : Rooted(media, c, object[c].sid) # {} => c \in S
               /\ worker.pc = "settle" => S = {c \in Content : Refs(media, c, object[c].sid) # {}}
    BY <2>1, <2>5
  <2> QED
    BY <2>1, <2>3, <2>4, <2>6 DEF Settles
<1>2. CASE SettleBatch
  <2>1. \A p \in Op, m \in Media :
          item'[p][m] = IF p \in worker.ops /\ item[p][m].state \in {"unlinking", "unlinking_retry"}
                        THEN IF p \in worker.broken THEN [item[p][m] EXCEPT !.state = "unlink_failed"]
                             ELSE NoItem
                        ELSE item[p][m]
    <3> SUFFICES ASSUME NEW p \in Op, NEW m \in Media
        PROVE item'[p][m] = IF p \in worker.ops /\ item[p][m].state \in {"unlinking", "unlinking_retry"}
                        THEN IF p \in worker.broken THEN [item[p][m] EXCEPT !.state = "unlink_failed"]
                             ELSE NoItem
                        ELSE item[p][m]
      OBVIOUS
    <3>1. item'[p] = CASE p \in worker.broken -> UnlinkFailed(p)
                       [] p \in worker.ops \ worker.broken -> Unlinked(p)
                       [] OTHER -> item[p]
      BY <1>2 DEF SettleBatch
    <3>2. p \in worker.broken => p \in worker.ops
      BY DEF Control, OpsExist
    <3> QED
      BY <3>1, <3>2 DEF UnlinkFailed, Unlinked, InUnlink, In
  <2>2. \A p \in Op :
          \/ p \notin worker.ops /\ op'[p] = op[p]
          \/ p \in worker.ops /\ op'[p] = Counted(p, Cardinality(InUnlink(p)))
          \/ /\ p \in (worker.ops \ worker.broken) \cap Asset
             /\ op'[p] = [Counted(p, Cardinality(InUnlink(p))) EXCEPT !.status = "checkpointing"]
             /\ worker.pc = "settle batch"
    BY <1>2 DEF SettleBatch, Control, BatchOfAssets
  <2>3. \E S : /\ object' = Dropped(worker.ops \ worker.broken, S)
               /\ \A c \in Content : Rooted(media, c, object[c].sid) # {} => c \in S
               /\ worker.pc = "settle" => S = {c \in Content : Refs(media, c, object[c].sid) # {}}
    BY <1>2 DEF SettleBatch
  <2> QED
    BY <1>2, <2>1, <2>2, <2>3 DEF SettleBatch, Settles
<1> QED
  BY <1>1, <1>2

\* Steps of the worker that keep the order of operations, and no more items than
\* there are.
LEMMA ControlKept ==
    ASSUME TypeOK, Control, UNCHANGED <<asset, chat>>,
           \A o \in Op, m \in Media : item[o][m].state = "none" => item'[o][m].state = "none",
           \A o \in Op :
              /\ op'[o].id = op[o].id /\ op'[o].total = op[o].total
              /\ op'[o].status # "none" <=> op[o].status # "none"
              /\ op'[o].phase \in IdentityPhase =>
                    op[o].phase \in IdentityPhase /\ op'[o].failed = op[o].failed,
           worker'.ops \subseteq {o \in Op : op[o].status # "none"}, worker'.broken \subseteq worker'.ops,
           OneOp', BatchOfAssets', WorkIsClaimed'
    PROVE  Control'
<1>1. IdsDiffer'
  BY SameOps DEF Control
<1>2. OpsExist'
  BY DEF OpsExist
<1>3. Untouched'
  <2>1. \A o \in Op : op[o].phase \in IdentityPhase => o \in Asset /\ asset[o] # "gone" /\ op[o].failed = 0
    BY DEF Control, Untouched, Op
  <2>2. op[Chat].status = "none" => op'[Chat].status = "none"
    BY FinitePools
  <2> QED
    BY <2>1, <2>2, UntouchedKept DEF Control, NothingYet
<1> QED
  BY <1>1, <1>2, <1>3 DEF Control

LEMMA ControlClaim ==
    ASSUME TypeOK, Control, RecoverLeases \/ ClaimBatch \/ TakeUpOldest \/ Finalize \/ Claim \/ Conclude
    PROVE  Control'
<1>0. /\ worker \in WorkerRow /\ op \in [Op -> OpRow] /\ item \in [Op -> [Media -> ItemRow]]
      /\ worker.ops \subseteq {o \in Op : op[o].status # "none"} /\ worker.broken \subseteq worker.ops
  BY TypesAre DEF Types, Control, OpsExist, WorkerRow
<1>1. CASE RecoverLeases \/ ClaimBatch \/ Finalize \/ Claim
  <2>1. \A o \in Op, m \in Media : item[o][m].state = "none" => item'[o][m].state = "none"
    BY <1>1, ItemsMove DEF Control, Moved, Moves
  <2>2. UNCHANGED <<asset, chat>>
    BY <1>1 DEF RecoverLeases, ClaimBatch, Finalize, Claim
  <2>3. CASE RecoverLeases
    <3>1. worker'.pc = "batch" /\ worker'.ops = worker.ops /\ worker'.broken = worker.broken /\ op' = op
      BY <2>3, <1>0 DEF RecoverLeases, Goes, WorkerRow
    <3>2. OneOp' /\ BatchOfAssets' /\ WorkIsClaimed'
      BY <3>1 DEF OneOp, OneOpPoint, BatchOfAssets, WorkIsClaimed
    <3> QED
      BY <1>0, <2>1, <2>2, <3>1, <3>2, ControlKept
  <2>4. CASE ClaimBatch
    <3>1. PICK eligible \in SUBSET {a \in Asset : op[a].status = "running"} :
             Goes("head") \/ Takes("unlink batch", eligible, {}, Retained(eligible))
      BY <2>4 DEF ClaimBatch
    <3>2. /\ op' = op /\ worker'.pc \in {"head", "unlink batch"} /\ worker'.broken \subseteq worker'.ops
          /\ worker'.ops \subseteq {o \in Op : op[o].status # "none"}
          /\ worker'.pc = "unlink batch" => worker'.ops \subseteq Asset
      <4>1. op' = op
        BY <2>4 DEF ClaimBatch
      <4>2. CASE Goes("head")
        BY <4>1, <4>2, <1>0 DEF Goes, WorkerRow
      <4>3. CASE Takes("unlink batch", eligible, {}, Retained(eligible))
        <5>1. worker'.pc = "unlink batch" /\ worker'.ops = eligible /\ worker'.broken = {}
          BY <4>3 DEF Takes
        <5> QED
          BY <4>1, <5>1, FinitePools
      <4> QED
        BY <3>1, <4>2, <4>3
    <3>3. OneOp' /\ BatchOfAssets' /\ WorkIsClaimed'
      BY <3>2 DEF OneOp, OneOpPoint, BatchOfAssets, WorkIsClaimed
    <3> QED
      BY <2>1, <2>2, <3>2, <3>3, ControlKept
  <2>5. CASE Finalize
    <3>1. PICK o \in worker.ops : Goes("claim") \/ Takes("unlink", {o}, {}, Retained({o}))
      BY <2>5 DEF Finalize
    <3>2. /\ op' = op /\ worker'.pc \in {"claim", "unlink"} /\ worker'.broken \subseteq worker'.ops
          /\ worker'.ops \subseteq worker.ops /\ worker.pc = "finalize"
      BY <2>5, <3>1, <1>0 DEF Finalize, Goes, Takes, WorkerRow
    <3>3. OneOp' /\ BatchOfAssets' /\ WorkIsClaimed'
      BY <3>2 DEF Control, OneOp, OneOpPoint, BatchOfAssets, WorkIsClaimed
    <3> QED
      BY <1>0, <2>1, <2>2, <3>2, <3>3, ControlKept
  <2>6. CASE Claim
    <3>1. PICK o \in worker.ops :
            /\ Takes("scrub", {o}, In(o, {"pending"}), {})
            /\ item' = [item EXCEPT ![o] = [m \in Media |->
                   IF m \in In(o, {"pending"}) THEN [item[o][m] EXCEPT !.state = "claimed"] ELSE item[o][m]]]
            /\ op' = [op EXCEPT ![o].phase = "other"]
      BY <2>6 DEF Claim
    <3>2. /\ worker'.pc = "scrub" /\ worker'.broken \subseteq worker'.ops
          /\ worker'.ops = {o} /\ worker'.work = In(o, {"pending"})
      BY <3>1 DEF Takes
    <3>3. \A m \in In(o, {"pending"}) : item'[o][m].state = "claimed"
      <4> TAKE m \in In(o, {"pending"})
      <4>1. m \in Media /\ o \in Op /\ item[o][m] \in ItemRow
        BY <1>0 DEF In, WorkerRow
      <4>2. item'[o][m] = [item[o][m] EXCEPT !.state = "claimed"]
        BY <4>1, <3>1, <1>0
      <4> QED
        BY <4>1, <4>2 DEF ItemRow
    <3>4. OneOp' /\ BatchOfAssets' /\ WorkIsClaimed'
      BY <3>2, <3>3 DEF OneOp, OneOpPoint, BatchOfAssets, WorkIsClaimed
    <3>5. \A p \in Op :
           /\ op'[p].id = op[p].id /\ op'[p].total = op[p].total
           /\ op'[p].status = op[p].status /\ op'[p].failed = op[p].failed
           /\ op'[p].phase \in {op[p].phase, "other"}
      BY <3>1, <1>0 DEF OpRow
    <3> QED
      BY <1>0, <2>1, <2>2, <3>2, <3>4, <3>5, ControlKept DEF IdentityPhase
  <2> QED
    BY <1>1, <2>3, <2>4, <2>5, <2>6
<1>2. CASE TakeUpOldest
  <2> DEFINE active == {o \in Op : op[o].status \in {"queued", "running"} /\ op[o].phase # "identity_queued"}
             oldest == First(active, 1)
  <2>1. oldest \subseteq active /\ active \in SUBSET {o \in Op : op[o].status # "none"}
    BY DEF First
  <2>2. \A o, p \in oldest : o = p
    <3> HIDE DEF active
    <3> QED
      BY <2>1, OldestIsOne DEF Control
  <2>3. Goes("checkpoint") \/ Takes("claim", oldest, {}, {}) \/ Takes("finalize", oldest, {}, {})
    BY <1>2 DEF TakeUpOldest
  <2>4. \A o \in Op : op'[o] = op[o] \/ (op[o].status = "queued" /\ op'[o] = [op[o] EXCEPT !.status = "running", !.phase = "other"])
    BY <1>2 DEF TakeUpOldest
  <2> HIDE DEF oldest
  <2>5. /\ worker'.pc \in {"checkpoint", "claim", "finalize"} /\ worker'.broken \subseteq worker'.ops
        /\ worker'.pc # "checkpoint" => worker'.ops = oldest
        /\ worker'.ops \subseteq {o \in Op : op[o].status # "none"}
    BY <2>1, <2>3, <1>0 DEF Goes, Takes, WorkerRow
  <2>6. OneOp' /\ BatchOfAssets' /\ WorkIsClaimed'
    BY <2>2, <2>5 DEF OneOp, OneOpPoint, BatchOfAssets, WorkIsClaimed
  <2>7. ASSUME NEW p \in Op PROVE
         /\ op'[p].id = op[p].id /\ op'[p].total = op[p].total
         /\ op'[p].status # "none" <=> op[p].status # "none"
         /\ op'[p].failed = op[p].failed
         /\ op'[p].phase \in {op[p].phase, "other"}
    <3>1. /\ op[p] \in OpRow
          /\ \/ op'[p] = op[p]
             \/ op[p].status = "queued" /\ op'[p] = [op[p] EXCEPT !.status = "running", !.phase = "other"]
      BY <2>4, <1>0
    <3> QED
      BY <3>1 DEF OpRow
  <2>8. UNCHANGED <<asset, chat, item>>
    BY <1>2 DEF TakeUpOldest
  <2> QED
    BY <2>5, <2>6, <2>7, <2>8, ControlKept DEF IdentityPhase
<1>3. CASE Conclude
  <2>1. EndsPass \/ Goes("checkpoint")
    BY <1>3 DEF Conclude
  <2>2. /\ worker'.pc \in {"idle", "checkpoint"} /\ worker'.broken \subseteq worker'.ops
        /\ worker'.ops \subseteq {o \in Op : op[o].status # "none"}
    BY <2>1, <1>0 DEF EndsPass, Idle, Goes, WorkerRow
  <2>3. OneOp' /\ BatchOfAssets' /\ WorkIsClaimed'
    BY <2>2 DEF OneOp, OneOpPoint, BatchOfAssets, WorkIsClaimed
  <2>4. PICK o \in worker.ops :
             \/ UNCHANGED op
             \/ \E s \in {"checkpointing", op[o].status, Outcome(o)} :
                   op' = [op EXCEPT ![o].status = s, ![o].phase = "other"]
    BY <1>3 DEF Conclude
  <2>5. \A p \in Op :
         /\ op'[p].id = op[p].id /\ op'[p].total = op[p].total
         /\ op'[p].status # "none" <=> op[p].status # "none"
         /\ op'[p].failed = op[p].failed
         /\ op'[p].phase \in {op[p].phase, "other"}
    <3>1. o \in Op /\ op[o].status # "none" /\ Outcome(o) # "none"
      BY <1>0 DEF Outcome
    <3> QED
      BY <3>1, <2>4, <1>0 DEF OpRow
  <2>6. UNCHANGED <<asset, chat, item>>
    BY <1>3 DEF Conclude
  <2> QED
    BY <2>2, <2>3, <2>5, <2>6, ControlKept DEF IdentityPhase
<1> QED
  BY <1>1, <1>2, <1>3

LEMMA ControlRemoval ==
    ASSUME TypeOK, Control,
           DeleteRows \/ MarkFailed \/ Unlink \/ Settle \/ SettleBatch \/ Checkpoint \/ Crash \/ LeasesLapse
    PROVE  Control'
<1>0. /\ worker \in WorkerRow /\ op \in [Op -> OpRow] /\ item \in [Op -> [Media -> ItemRow]]
      /\ worker.ops \subseteq {o \in Op : op[o].status # "none"} /\ worker.broken \subseteq worker.ops
  BY TypesAre DEF Types, Control, OpsExist, WorkerRow
<1>1. ASSUME EndsPass
      PROVE  /\ OneOp' /\ BatchOfAssets' /\ WorkIsClaimed'
             /\ worker'.ops \subseteq {o \in Op : op[o].status # "none"}
             /\ worker'.broken \subseteq worker'.ops
  BY <1>1 DEF EndsPass, Idle, OneOp, OneOpPoint, BatchOfAssets, WorkIsClaimed
<1>2. CASE DeleteRows
  <2>1. PICK o \in worker.ops, bad \in SUBSET worker.work, good \in SUBSET Media : RowsDeleted(o, bad, good)
    BY <1>2, DeleteDoes
  <2>2. o \in Op /\ \A m \in worker.work : item[o][m].state = "claimed"
    BY <2>1, <1>0 DEF Control, WorkIsClaimed, RowsDeleted
  <2>3. \A p \in Op, m \in Media : item'[p][m] = item[p][m] \/ (p = o /\ m \in worker.work \ bad)
    BY <2>1, <1>0 DEF RowsDeleted
  <2>4. \A p \in Op, m \in Media : item[p][m].state = "none" => item'[p][m].state = "none"
    BY <2>2, <2>3
  <2>5. \A p \in Op :
         /\ op'[p].id = op[p].id /\ op'[p].total = op[p].total
         /\ op'[p].status = op[p].status /\ op'[p].failed = op[p].failed
         /\ op'[p].phase \in {op[p].phase, "unlinking_artifacts"}
    BY <2>1, <1>0 DEF RowsDeleted, OpRow
  <2>6. UNCHANGED <<asset, chat>>
    BY <2>1 DEF RowsDeleted
  <2>7. EndsPass \/ (Takes("mark", {o}, bad, {}) /\ bad \subseteq worker.work)
    BY <2>1 DEF RowsDeleted
  <2>8. /\ OneOp' /\ BatchOfAssets' /\ WorkIsClaimed'
        /\ worker'.ops \subseteq {p \in Op : op[p].status # "none"}
        /\ worker'.broken \subseteq worker'.ops
    <3>1. CASE EndsPass
      BY <3>1, <1>1
    <3>2. CASE Takes("mark", {o}, bad, {}) /\ bad \subseteq worker.work
      <4>1. \A m \in bad : m \in Media /\ item'[o][m].state = "claimed"
        BY <3>2, <2>2, <2>3, <1>0 DEF WorkerRow
      <4> QED
        BY <3>2, <4>1, <1>0 DEF Takes, OneOp, OneOpPoint, BatchOfAssets, WorkIsClaimed
    <3> QED
      BY <2>7, <3>1, <3>2
  <2> QED
    BY <2>4, <2>5, <2>6, <2>8, ControlKept DEF IdentityPhase
<1>3. CASE MarkFailed
  <2>1. PICK o \in worker.ops :
        /\ worker.pc = "mark"
        /\ op' = [op EXCEPT ![o].processed = @ + Cardinality(worker.work),
                            ![o].failed = @ + Cardinality(worker.work)]
        /\ EndsPass /\ UNCHANGED <<asset, chat>>
    BY <1>3 DEF MarkFailed
  <2>2. \A p \in Op, m \in Media : item[p][m].state = "none" => item'[p][m].state = "none"
    BY <1>3, ItemsMove DEF Control, Moved, Moves
  <2>3. o \in Op /\ op[o].failed \in Nat
    BY <1>0 DEF OpRow
  <2>4. CASE worker.work = {}
    <3>1. Cardinality(worker.work) = 0
      BY <2>4, FS_EmptySet
    <3>2. \A p \in Op :
           /\ op'[p].id = op[p].id /\ op'[p].total = op[p].total
           /\ op'[p].status = op[p].status /\ op'[p].failed = op[p].failed
           /\ op'[p].phase = op[p].phase
      BY <2>1, <2>3, <3>1, <1>0 DEF OpRow
    <3> QED
      BY <2>1, <2>2, <3>2, <1>1, ControlKept
  <2>5. CASE worker.work # {}
    <3>1. PICK m \in worker.work : item[o][m].state = "claimed" /\ m \in Media
      BY <2>1, <2>5, <1>0 DEF Control, WorkIsClaimed, WorkerRow
    <3>2. op[o].phase \notin IdentityPhase
      BY <3>1, <2>3 DEF Control, Untouched, NothingYet, Op
    <3>3. \A p \in Op :
           /\ op'[p].id = op[p].id /\ op'[p].total = op[p].total
           /\ op'[p].status = op[p].status
           /\ op'[p].phase = op[p].phase
           /\ p # o => op'[p].failed = op[p].failed
      BY <2>1, <2>3, <1>0 DEF OpRow
    <3> QED
      BY <2>1, <2>2, <3>2, <3>3, <1>1, ControlKept
  <2> QED
    BY <2>4, <2>5
<1>4. CASE Unlink
  <2>1. PICK broken \in SUBSET worker.ops :
           worker' = [worker EXCEPT !.pc = IF @ = "unlink" THEN "settle" ELSE "settle batch",
                                    !.broken = broken]
    BY <1>4 DEF Unlink
  <2>2. worker.pc \in {"unlink", "unlink batch"} /\ UNCHANGED <<asset, chat, op, item>>
    BY <1>4 DEF Unlink, db
  <2>3. /\ worker'.ops = worker.ops /\ worker'.broken = broken
        /\ worker'.pc = IF worker.pc = "unlink" THEN "settle" ELSE "settle batch"
    BY <2>1, <1>0 DEF WorkerRow
  <2>4. OneOp' /\ BatchOfAssets' /\ WorkIsClaimed'
    BY <2>2, <2>3 DEF Control, OneOp, OneOpPoint, BatchOfAssets, WorkIsClaimed
  <2> QED
    BY <1>0, <2>2, <2>3, <2>4, ControlKept
<1>5. CASE Settle \/ SettleBatch
  <2>1. Settles
    BY <1>5, SettleDoes
  <2>2. \A p \in Op, m \in Media : item[p][m].state = "none" => item'[p][m].state = "none"
    BY <2>1 DEF Settles
  <2>3. \A p \in Op : /\ op'[p].id = op[p].id /\ op'[p].total = op[p].total
                      /\ op'[p].status # "none" <=> op[p].status # "none"
                      /\ op'[p] = op[p] \/ op'[p].phase = "other"
    <3> SUFFICES ASSUME NEW p \in Op
                 PROVE  /\ op'[p].id = op[p].id /\ op'[p].total = op[p].total
                        /\ op'[p].status # "none" <=> op[p].status # "none"
                        /\ op'[p] = op[p] \/ op'[p].phase = "other"
      OBVIOUS
    <3>1. op[p] \in OpRow /\ (p \in worker.ops => op[p].status # "none")
      BY <1>0
    <3>2. \A n : LET r == Counted(p, n)
                 IN  /\ r.id = op[p].id /\ r.total = op[p].total /\ r.phase = "other"
                     /\ r.status = (IF p \in worker.broken THEN "failed" ELSE op[p].status)
                     /\ LET q == [r EXCEPT !.status = "checkpointing"]
                        IN  q.id = op[p].id /\ q.total = op[p].total /\ q.phase = "other"
                            /\ q.status = "checkpointing"
      BY <3>1 DEF Counted, OpRow
    <3>3. \/ op'[p] = op[p]
          \/ p \in worker.ops /\ op'[p] = Counted(p, Cardinality(InUnlink(p)))
          \/ p \in worker.ops /\ op'[p] = [Counted(p, Cardinality(InUnlink(p))) EXCEPT !.status = "checkpointing"]
      BY <2>1 DEF Settles
    <3> QED
      BY <3>1, <3>2, <3>3
  <2>4. EndsPass /\ UNCHANGED <<asset, chat>>
    BY <2>1 DEF Settles
  <2> QED
    BY <2>2, <2>3, <2>4, <1>1, ControlKept DEF IdentityPhase
<1>6. CASE Checkpoint
  <2>1. \A p \in Op : op'[p] = op[p] \/ (op[p].status = "checkpointing" /\ op'[p] = [op[p] EXCEPT !.status = Outcome(p)])
    BY <1>6 DEF Checkpoint
  <2>2. ASSUME NEW p \in Op PROVE
         /\ op'[p].id = op[p].id /\ op'[p].total = op[p].total
         /\ op'[p].status # "none" <=> op[p].status # "none"
         /\ op'[p].failed = op[p].failed
         /\ op'[p].phase = op[p].phase
    <3>1. /\ op[p] \in OpRow /\ Outcome(p) # "none"
          /\ \/ op'[p] = op[p]
             \/ op[p].status = "checkpointing" /\ op'[p] = [op[p] EXCEPT !.status = Outcome(p)]
      BY <2>1, <1>0 DEF Outcome
    <3> QED
      BY <3>1 DEF OpRow
  <2>3. EndsPass /\ UNCHANGED <<asset, chat, item>>
    BY <1>6 DEF Checkpoint
  <2> QED
    BY <2>2, <2>3, <1>1, ControlKept
<1>7. CASE Crash
  <2>1. EndsPass /\ UNCHANGED <<asset, chat, item, op>>
    BY <1>7 DEF Crash, db
  <2> QED
    BY <2>1, <1>1, ControlKept
<1>8. CASE LeasesLapse
  BY <1>8, ControlElsewhere DEF LeasesLapse, db
<1> QED
  BY <1>2, <1>3, <1>4, <1>5, <1>6, <1>7, <1>8

LEMMA ControlStep == TypeOK /\ Control /\ [Next]_vars => Control'
<1> SUFFICES ASSUME TypeOK, Control, [Next]_vars PROVE Control'
  OBVIOUS
<1>1. CASE UNCHANGED vars
  BY <1>1, ControlElsewhere DEF vars, db
<1>2. CASE LateOwners
  BY <1>2, LateDoes, ControlElsewhere
<1> QED
  BY <1>1, <1>2, ControlPeople, ControlStage, ControlClaim, ControlRemoval DEF Next, Works

LEMMA InitControl == Init => Control
<1> SUFFICES ASSUME Init PROVE Control
  OBVIOUS
<1>1. /\ op = [o \in Op |-> NoOp] /\ item = [o \in Op |-> [m \in Media |-> NoItem]] /\ worker = Idle
  BY DEF Init
<1> QED
  BY <1>1, FinitePools DEF Control, IdsDiffer, OneOp, OneOpPoint, BatchOfAssets, OpsExist, WorkIsClaimed,
     Untouched, NothingYet, NoOp, NoItem, Idle, IdentityPhase

-----------------------------------------------------------------------------
(* Who has a row in hand.                                                   *)

\* The pass that deletes the chat bars the rows that only the chat owned.
LEMMA PassDoes ==
    ASSUME TypeOK, BeginPass, chat = "deleted"
    PROVE  \E mine \in SUBSET Media :
              /\ \A m \in Media :
                    /\ media'[m].content = media[m].content /\ media'[m].sid = media[m].sid
                    /\ media'[m].owners = media[m].owners \ {Chat}
                    /\ media'[m].pending = (media[m].pending \/ m \in mine)
                    /\ m \in mine <=> /\ media[m].content # None /\ Chat \in media[m].owners
                                      /\ media[m].owners \ {Chat} = {} /\ ~media[m].pending
              /\ item' = [item EXCEPT ![Chat] = Pending(mine)]
              /\ op' = [op EXCEPT ![Chat] =
                     [NoOp EXCEPT !.status = "queued", !.id = Newest + 1, !.total = Cardinality(mine)]]
              /\ UNCHANGED <<scenario, asset, object, disk, lapsed, spent>>
<1> DEFINE kept == [m \in Media |-> [media[m] EXCEPT !.owners = @ \ {Chat}]]
           mine == {m \in Rows : Chat \in media[m].owners /\ kept[m].owners = {} /\ ~media[m].pending}
<1>1. \A m \in Media :
         /\ kept[m].content = media[m].content /\ kept[m].sid = media[m].sid
         /\ kept[m].owners = media[m].owners \ {Chat} /\ kept[m].pending = media[m].pending
         /\ kept[m] \in MediaRow
  <2> TAKE m \in Media
  <2>1. media[m] \in MediaRow
    BY TypesAre DEF Types
  <2> QED
    BY <2>1 DEF MediaRow
<1>2. /\ media' = Collect(kept, mine) /\ item' = [item EXCEPT ![Chat] = Pending(mine)]
      /\ op' = [op EXCEPT ![Chat] =
             [NoOp EXCEPT !.status = "queued", !.id = Newest + 1, !.total = Cardinality(mine)]]
      /\ UNCHANGED <<scenario, asset, object, disk, lapsed, spent>>
  BY DEF BeginPass
<1>3. \A m \in Media :
         m \in mine <=> /\ media[m].content # None /\ Chat \in media[m].owners
                        /\ media[m].owners \ {Chat} = {} /\ ~media[m].pending
  BY <1>1 DEF Rows
<1>4. mine \in SUBSET Media
  BY DEF Rows
<1> HIDE DEF kept, mine
<1>5. ASSUME NEW m \in Media
      PROVE  /\ media'[m].content = media[m].content /\ media'[m].sid = media[m].sid
             /\ media'[m].owners = media[m].owners \ {Chat}
             /\ media'[m].pending = (media[m].pending \/ m \in mine)
  <2>1. media'[m] = IF m \in mine THEN [kept[m] EXCEPT !.pending = TRUE] ELSE kept[m]
    BY <1>2 DEF Collect
  <2>2. /\ kept[m] \in MediaRow /\ kept[m].content = media[m].content /\ kept[m].sid = media[m].sid
        /\ kept[m].owners = media[m].owners \ {Chat} /\ kept[m].pending = media[m].pending
    BY <1>1
  <2> QED
    BY <2>1, <2>2, Zenon DEF MediaRow
<1> QED
  BY <1>2, <1>3, <1>4, <1>5

\* Imported media and another owner: what changes of the rows.
LEMMA ArrivalDoes ==
    ASSUME TypeOK, NEW m \in Media
    PROVE  /\ \A c \in Content : Import(m, c) =>
                 /\ media[m].content = None /\ object[c].state # "deleting"
                 /\ media'[m].content = c /\ media'[m].sid = object'[c].sid
                 /\ media'[m].owners = {Other} /\ media'[m].pending = FALSE
                 /\ object'[c].state = "available"
                 /\ object'[c].sid = IF object[c].state = "none" THEN object[c].sid + 1 ELSE object[c].sid
                 /\ \A d \in Content \ {c} : object'[d] = object[d]
                 /\ disk' = disk \cup {c}
                 /\ \A n \in Media \ {m} : media'[n] = media[n]
                 /\ UNCHANGED <<op, item, worker, asset, chat, scenario, lapsed>>
           /\ Adopted(m) =>
                 /\ media[m].content # None /\ (media[m].pending => "late_adopt" \in scenario.events)
                 /\ media'[m].content = media[m].content /\ media'[m].sid = media[m].sid
                 /\ media'[m].owners = media[m].owners \cup {Other} /\ media'[m].pending = media[m].pending
                 /\ \A n \in Media \ {m} : media'[n] = media[n]
                 /\ UNCHANGED <<object, disk, op, item, worker, asset, chat, scenario, lapsed>>
<1>0. media \in [Media -> MediaRow] /\ object \in [Content -> ObjectRow] /\ media[m] \in MediaRow
  BY TypesAre DEF Types
<1>1. ASSUME NEW c \in Content, Import(m, c)
      PROVE  /\ media[m].content = None /\ object[c].state # "deleting"
             /\ media'[m].content = c /\ media'[m].sid = object'[c].sid
             /\ media'[m].owners = {Other} /\ media'[m].pending = FALSE
             /\ object'[c].state = "available"
             /\ object'[c].sid = IF object[c].state = "none" THEN object[c].sid + 1 ELSE object[c].sid
             /\ \A d \in Content \ {c} : object'[d] = object[d]
             /\ disk' = disk \cup {c}
             /\ \A n \in Media \ {m} : media'[n] = media[n]
             /\ UNCHANGED <<op, item, worker, asset, chat, scenario, lapsed>>
  <2>1. /\ media[m].content = None /\ object[c].state # "deleting"
        /\ disk' = disk \cup {c}
        /\ UNCHANGED <<op, item, worker, asset, chat, scenario, lapsed>>
    BY <1>1 DEF Import, Rows, Refused
  <2>2. media' = [media EXCEPT ![m] =
           [content |-> c, sid |-> object'[c].sid, owners |-> {Other}, pending |-> FALSE]]
    BY <1>1 DEF Import
  <2>3. object' = [object EXCEPT ![c] =
           IF object[c].state = "none" THEN [state |-> "available", sid |-> object[c].sid + 1] ELSE @]
    BY <1>1 DEF Import
  <2>4. object[c] \in ObjectRow
    BY <1>0
  <2>5. /\ object'[c] = IF object[c].state = "none" THEN [state |-> "available", sid |-> object[c].sid + 1] ELSE object[c]
        /\ \A d \in Content \ {c} : object'[d] = object[d]
    BY <2>3, <1>0
  <2>6. /\ object'[c].state = "available"
        /\ object'[c].sid = IF object[c].state = "none" THEN object[c].sid + 1 ELSE object[c].sid
    BY <2>4, <2>5, <2>1 DEF ObjectRow
  <2>7. /\ media'[m] = [content |-> c, sid |-> object'[c].sid, owners |-> {Other}, pending |-> FALSE]
        /\ \A n \in Media \ {m} : media'[n] = media[n]
    BY <2>2, <1>0
  <2>8. /\ media'[m].content = c /\ media'[m].sid = object'[c].sid
        /\ media'[m].owners = {Other} /\ media'[m].pending = FALSE
    <3>1. media'[m].content = c /\ media'[m].sid = object'[c].sid
      BY <2>7
    <3>2. media'[m].owners = {Other}
      BY <2>7
    <3>3. media'[m].pending = FALSE
      BY <2>7
    <3> QED
      BY <3>1, <3>2, <3>3
  <2> QED
    BY <2>1, <2>5, <2>6, <2>7, <2>8
<1>2. ASSUME Adopted(m)
      PROVE  /\ media[m].content # None /\ (media[m].pending => "late_adopt" \in scenario.events)
             /\ media'[m].content = media[m].content /\ media'[m].sid = media[m].sid
             /\ media'[m].owners = media[m].owners \cup {Other} /\ media'[m].pending = media[m].pending
             /\ \A n \in Media \ {m} : media'[n] = media[n]
             /\ UNCHANGED <<object, disk, op, item, worker, asset, chat, scenario, lapsed>>
  BY <1>2, <1>0, TypesAre DEF Adopted, Types, MediaRow
<1> QED
  BY <1>1, <1>2

\* Imported media are not deleted by any step, for whatever operation.
LEMMA StrangerStep ==
    TypeOK /\ Control /\ [Next]_vars =>
        \A m \in Rows : Other \in media[m].owners =>
            media'[m].content = media[m].content /\ Other \in media'[m].owners
<1> SUFFICES ASSUME TypeOK, Control, [Next]_vars, NEW m \in Rows, Other \in media[m].owners
             PROVE  media'[m].content = media[m].content /\ Other \in media'[m].owners
  OBVIOUS
<1>0. m \in Media /\ media[m].content # None
  BY DEF Rows
<1>1. CASE UNCHANGED media
  BY <1>1
<1>2. ASSUME NEW o \in Op, Retry(o) PROVE media'[m].content = media[m].content /\ Other \in media'[m].owners
  BY <1>0, <1>2, RetryDoes
<1>3. ASSUME NEW n \in Media, (\E c \in Content : Import(n, c)) \/ Adopted(n)
      PROVE media'[m].content = media[m].content /\ Other \in media'[m].owners
  <2>1. CASE n = m
    BY <1>0, <1>3, <2>1, ArrivalDoes
  <2>2. CASE n # m
    BY <1>0, <1>3, <2>2, ArrivalDoes
  <2> QED
    BY <2>1, <2>2
<1>4. CASE BeginPass
  <2>1. CASE chat = "deleted"
    <3>1. media'[m].content = media[m].content /\ media'[m].owners = media[m].owners \ {Chat}
      BY <1>0, <1>4, <2>1, PassDoes
    <3>2. Other # Chat
      BY FinitePools
    <3> QED
      BY <3>1, <3>2
  <2>2. CASE chat # "deleted"
    BY <1>4, <2>2 DEF BeginPass
  <2> QED
    BY <2>1, <2>2
<1>5. CASE StageIdentities
  <2>1. CASE UNCHANGED db
    BY <2>1 DEF db
  <2>2. ASSUME NEW valid \in SUBSET Asset, NEW scrubbed \in BOOLEAN, StagedSlice(valid, scrubbed)
        PROVE  media'[m].content = media[m].content /\ Other \in media'[m].owners
    <3>1. Other \notin valid
      BY FinitePools
    <3>2. m \notin AllOf(valid)
      BY <3>1 DEF AllOf, Mine, Collectible, UpTo
    <3>3. media'[m] = Given(valid)[m]
      BY <1>0, <2>2, <3>2 DEF StagedSlice
    <3> QED
      BY <1>0, <3>1, <3>3, GivenIs
  <2> QED
    BY <2>1, <2>2, <1>5, StageDoes
<1>6. CASE DeleteRows
  <2>1. PICK o \in worker.ops, bad \in SUBSET worker.work, good \in SUBSET Media : RowsDeleted(o, bad, good)
    BY <1>6, DeleteDoes
  <2>2. m \notin good /\ media' = [n \in Media |-> IF n \in good THEN NoRow ELSE media[n]]
    BY <2>1 DEF RowsDeleted
  <2> QED
    BY <1>0, <2>2
<1>7. CASE RecoverLeases \/ ClaimBatch \/ Finalize \/ Claim \/ MarkFailed \/ Settle \/ SettleBatch
  BY <1>7, <1>1 DEF RecoverLeases, ClaimBatch, Finalize, Claim, MarkFailed, Settle, SettleBatch
<1> QED
  BY <1>1, <1>2, <1>3, <1>4, <1>5, <1>6, <1>7, StepKinds DEF Silent

\* Media that an import, or somebody else, owns keep their row and that owner:
\* no operation deletes them, though items outlive the rows they name and even
\* if ids of media were used again (SQLite does not, database.py:147).
THEOREM StrangersAreUntouched == Spec => StrangersUntouched
<1>1. TypeOK /\ Control /\ [Next]_vars =>
        [\A m \in Rows : Other \in media[m].owners =>
            media'[m].content = media[m].content /\ Other \in media'[m].owners]_vars
  BY StrangerStep
<1>2. Init => TypeOK /\ Control
  BY InitTypes, InitControl
<1>3. TypeOK /\ Control /\ [Next]_vars => (TypeOK /\ Control)'
  BY TypeStep, ControlStep
<1> QED
  BY <1>1, <1>2, <1>3, PTL DEF Spec, StrangersUntouched

\* Nothing changes about who has a row in hand.
LEMMA BarredSame ==
    ASSUME NEW m \in Media, BarredAt(m), UNCHANGED scenario,
           \A o \in Op : Holds(o, m)' <=> Holds(o, m),
           media'[m].pending <=> media[m].pending,
           media[m].pending => media'[m].content = media[m].content /\ media'[m].owners \subseteq media[m].owners
    PROVE  BarredAt(m)'
  BY DEF BarredAt

\* The assets of a slice take different rows along, and none that is barred.
LEMMA MineApart ==
    ASSUME TypeOK, Control, NEW valid \in SUBSET Asset, NEW scrubbed, StagedSlice(valid, scrubbed)
    PROVE  /\ \A a \in valid, b \in valid : \A m : m \in Mine(a, valid) /\ m \in Mine(b, valid) => a = b
           /\ \A m \in AllOf(valid) : /\ m \in Rows /\ ~media[m].pending
                                      /\ media[m].owners \ valid = {}
           /\ \A a \in valid : NothingYet(a) /\ op[a].failed = 0
<1>1. \A a \in valid : ~Barred(a, valid)
  BY DEF StagedSlice
<1>2. ASSUME NEW a \in valid, NEW b \in valid, NEW m, m \in Mine(a, valid), m \in Mine(b, valid), a # b,
             op[b].id <= op[a].id
      PROVE  FALSE
  <2>1. b \in UpTo(a, valid) \ {a} /\ m \in Collectible(b, valid) /\ m \in Collectible(a, valid)
    BY <1>2 DEF UpTo, Mine
  <2> QED
    BY <2>1, <1>1 DEF Barred
<1>3. \A a \in valid, b \in valid : op[b].id <= op[a].id \/ op[a].id <= op[b].id
  <2>1. \A a \in valid : op[a].id \in Nat
    BY FinitePools, TypesAre DEF Types, OpRow
  <2> QED
    BY <2>1
<1>4. \A m \in AllOf(valid) : m \in Rows /\ ~media[m].pending /\ media[m].owners \ valid = {}
  <2> TAKE m \in AllOf(valid)
  <2>1. PICK a \in valid : m \in Collectible(a, valid)
    BY DEF AllOf, Mine
  <2>2. m \in Rows /\ media[m].owners \ UpTo(a, valid) = {}
    BY <2>1 DEF Collectible
  <2>3. UpTo(a, valid) \subseteq valid
    BY DEF UpTo
  <2> QED
    BY <2>1, <2>2, <2>3, <1>1 DEF Barred
<1>5. \A a \in valid : NothingYet(a) /\ op[a].failed = 0
  <2> TAKE a \in valid
  <2>1. a \in Asset /\ asset[a] # "gone" /\ op[a].phase \in IdentityPhase
    BY DEF StagedSlice, Queued, IdentityPhase
  <2> QED
    BY <2>1 DEF Control, Untouched
<1> QED
  BY <1>2, <1>3, <1>4, <1>5

\* What a slice leaves of the rows, and of the items.
LEMMA SliceRows ==
    ASSUME TypeOK, NEW valid \in SUBSET Asset, NEW scrubbed \in BOOLEAN, StagedSlice(valid, scrubbed),
           NEW m \in Media
    PROVE  /\ scrubbed /\ m \in AllOf(valid) => media'[m] = NoRow
           /\ ~(scrubbed /\ m \in AllOf(valid)) =>
                 /\ media'[m].content = media[m].content /\ media'[m].sid = media[m].sid
                 /\ media'[m].owners = media[m].owners \ valid
                 /\ media'[m].pending <=> (media[m].pending \/ m \in AllOf(valid))
<1>1. /\ scrubbed /\ m \in AllOf(valid) => media'[m] = NoRow
      /\ ~(scrubbed /\ m \in AllOf(valid)) => media'[m] = Given(valid)[m]
  BY DEF StagedSlice
<1>2. /\ Given(valid)[m].content = media[m].content /\ Given(valid)[m].sid = media[m].sid
      /\ Given(valid)[m].owners = media[m].owners \ valid
      /\ Given(valid)[m].pending <=> (media[m].pending \/ m \in AllOf(valid))
  <2>1. /\ Given(valid)[m].content = media[m].content /\ Given(valid)[m].sid = media[m].sid
        /\ Given(valid)[m].owners = media[m].owners \ valid
    BY GivenIs
  <2>2. Given(valid)[m].pending = (media[m].pending \/ m \in AllOf(valid))
    BY GivenIs
  <2>3. Given(valid)[m].pending <=> (media[m].pending \/ m \in AllOf(valid))
    BY <2>2, Zenon
  <2> QED
    BY <2>1, <2>3
<1> QED
  BY <1>1, <1>2

LEMMA SliceItems ==
    ASSUME TypeOK, NEW valid \in SUBSET Asset, NEW scrubbed \in BOOLEAN, StagedSlice(valid, scrubbed),
           NEW m \in Media
    PROVE  /\ \A o \in Op \ valid : item'[o][m] = item[o][m]
           /\ \A o \in valid :
                 /\ m \notin Mine(o, valid) => item'[o][m] = NoItem
                 /\ m \in Mine(o, valid) =>
                       /\ m \in AllOf(valid)
                       /\ scrubbed => /\ item'[o][m] = Staged(Given(valid), m)
                                      /\ item'[o][m].state = "media_deleted"
                       /\ ~scrubbed => /\ item'[o][m] = [NoItem EXCEPT !.state = "pending"]
                                       /\ item'[o][m].state = "pending"
<1>1. item' = [o \in Op |->
               IF o \notin valid THEN item[o]
               ELSE IF scrubbed
               THEN [n \in Media |-> IF n \in Mine(o, valid)
                                     THEN [k \in AllOf(valid) |-> Staged(Given(valid), k)][n] ELSE NoItem]
               ELSE Pending(Mine(o, valid))]
  BY DEF StagedSlice
<1>2. \A o \in valid : o \in Op
  BY FinitePools
<1>3. \A o \in Op \ valid : item'[o][m] = item[o][m]
  BY <1>1
<1>4. Staged(Given(valid), m).state = "media_deleted" /\ [NoItem EXCEPT !.state = "pending"].state = "pending"
  BY DEF Staged, NoItem
<1>5. ASSUME NEW o \in valid
      PROVE  /\ m \notin Mine(o, valid) => item'[o][m] = NoItem
             /\ m \in Mine(o, valid) =>
                   /\ m \in AllOf(valid)
                   /\ scrubbed => item'[o][m] = Staged(Given(valid), m)
                   /\ ~scrubbed => item'[o][m] = [NoItem EXCEPT !.state = "pending"]
  <2>1. m \in Mine(o, valid) => m \in AllOf(valid)
    BY DEF AllOf
  <2>2. CASE scrubbed
    BY <1>1, <1>2, <2>1, <2>2
  <2>3. CASE ~scrubbed
    BY <1>1, <1>2, <2>1, <2>3 DEF Pending
  <2> QED
    BY <2>2, <2>3
<1> QED
  BY <1>3, <1>4, <1>5

LEMMA HandStep ==
    TypeOK /\ Control /\ BarredOnce /\ [Next]_vars => BarredOnce'
<1> SUFFICES ASSUME TypeOK, Control, BarredOnce, [Next]_vars, NEW m \in Media PROVE BarredAt(m)'
  BY DEF BarredOnce
<1>0. BarredAt(m) /\ scenario' = scenario
  BY ScenarioStays DEF BarredOnce
<1>1. CASE Silent
  BY <1>0, <1>1, BarredSame DEF Silent, Holds
<1>2. ASSUME NEW o \in Op, Retry(o) PROVE BarredAt(m)'
  <2>1. Holds(o, m) => m \in Rows
    BY <1>0 DEF BarredAt, Rows
  <2>2. \A p \in Op : Holds(p, m)' <=> Holds(p, m)
    <3>1. Holds(o, m)' <=> Holds(o, m)
      BY <2>1, <1>2, RetryDoes DEF Holds
    <3>2. \A p \in Op \ {o} : item'[p] = item[p]
      BY <1>2, RetryDoes
    <3> QED
      BY <3>1, <3>2 DEF Holds
  <2>3. /\ media'[m].content = media[m].content /\ media'[m].owners = media[m].owners
        /\ \/ media'[m].pending = media[m].pending
           \/ item[o][m].state = "failed" /\ media'[m].pending = TRUE
    BY <1>2, RetryDoes
  <2>4. media'[m].pending <=> media[m].pending
    BY <1>0, <2>3 DEF BarredAt, Holds
  <2> QED
    BY <1>0, <2>2, <2>3, <2>4, BarredSame
<1>3. ASSUME NEW n \in Media, NEW c \in Content, Import(n, c) PROVE BarredAt(m)'
  <2>1. item' = item /\ (m # n => media'[m] = media[m])
        /\ (m = n => media[m].content = None /\ media'[m].pending = FALSE)
    BY <1>3, ArrivalDoes
  <2>2. m = n => ~media[m].pending
    BY <2>1, <1>0 DEF BarredAt
  <2> QED
    BY <1>0, <2>1, <2>2, BarredSame DEF Holds
<1>4. ASSUME NEW n \in Media, Adopted(n) PROVE BarredAt(m)'
  <2>1. item' = item /\ (m # n => media'[m] = media[m])
        /\ (m = n => /\ media'[m].pending = media[m].pending /\ media'[m].content = media[m].content
                     /\ media'[m].owners = media[m].owners \cup {Other}
                     /\ media[m].pending => "late_adopt" \in scenario.events)
    BY <1>4, ArrivalDoes
  <2>2. CASE m # n
    BY <1>0, <2>1, <2>2, BarredSame DEF Holds
  <2>3. CASE m = n
    <3>1. \A o \in Op : Holds(o, m)' <=> Holds(o, m)
      BY <2>1 DEF Holds
    <3> QED
      BY <1>0, <2>1, <2>3, <3>1 DEF BarredAt
  <2> QED
    BY <2>2, <2>3
<1>5. CASE BeginPass
  <2>1. CASE chat = "deleted"
    <3>1. PICK mine \in SUBSET Media :
              /\ \A n \in Media :
                    /\ media'[n].content = media[n].content
                    /\ media'[n].owners = media[n].owners \ {Chat}
                    /\ media'[n].pending = (media[n].pending \/ n \in mine)
                    /\ n \in mine <=> /\ media[n].content # None /\ Chat \in media[n].owners
                                      /\ media[n].owners \ {Chat} = {} /\ ~media[n].pending
              /\ item' = [item EXCEPT ![Chat] = Pending(mine)]
      BY <1>5, <2>1, PassDoes
    <3>2. Chat \in Op /\ item \in [Op -> [Media -> ItemRow]] /\ ~Holds(Chat, m)
      BY <2>1, FinitePools, TypesAre DEF Types, Control, Untouched, NothingYet, Holds
    <3>3. /\ \A o \in Op \ {Chat} : Holds(o, m)' <=> Holds(o, m)
          /\ Holds(Chat, m)' <=> m \in mine
      <4>1. item'[Chat][m] = IF m \in mine THEN [NoItem EXCEPT !.state = "pending"] ELSE NoItem
        BY <3>1, <3>2 DEF Pending
      <4>2. item'[Chat][m].state = IF m \in mine THEN "pending" ELSE "none"
        BY <4>1 DEF NoItem
      <4>3. \A o \in Op \ {Chat} : item'[o] = item[o]
        BY <3>1, <3>2
      <4> QED
        BY <4>2, <4>3 DEF Holds
    <3>4. CASE m \in mine
      BY <3>1, <3>2, <3>3, <3>4, <1>0 DEF BarredAt
    <3>5. CASE m \notin mine
      <4>1. \A o \in Op : Holds(o, m)' <=> Holds(o, m)
        BY <3>2, <3>3, <3>5
      <4>2. media'[m].content = media[m].content /\ media'[m].owners \subseteq media[m].owners
            /\ (media'[m].pending <=> media[m].pending)
        BY <3>1, <3>5
      <4> QED
        BY <4>1, <4>2, <1>0, BarredSame
    <3> QED
      BY <3>4, <3>5
  <2>2. CASE chat # "deleted"
    BY <1>0, <1>5, <2>2, BarredSame DEF BeginPass, Holds
  <2> QED
    BY <2>1, <2>2
<1>6. CASE StageIdentities
  <2>1. CASE UNCHANGED db
    BY <1>0, <2>1, BarredSame DEF db, Holds
  <2>2. ASSUME NEW valid \in SUBSET Asset, NEW scrubbed \in BOOLEAN, StagedSlice(valid, scrubbed)
        PROVE  BarredAt(m)'
    <3>1. \A o \in valid : o \in Op /\ ~Holds(o, m)
      BY <2>2, MineApart, FinitePools DEF NothingYet, Holds
    <3>2. \A o \in Op \ valid : Holds(o, m)' <=> Holds(o, m)
      BY <2>2, SliceItems DEF Holds
    <3>3. \A o \in valid : Holds(o, m)' <=> ~scrubbed /\ m \in Mine(o, valid)
      <4> TAKE o \in valid
      <4>1. CASE m \notin Mine(o, valid)
        <5>1. item'[o][m] = NoItem
          BY <4>1, <2>2, SliceItems
        <5> QED
          BY <4>1, <5>1 DEF Holds, NoItem
      <4>2. CASE m \in Mine(o, valid)
        BY <4>2, <2>2, SliceItems DEF Holds
      <4> QED
        BY <4>1, <4>2
    <3>4. CASE m \notin AllOf(valid)
      <4>1. \A o \in valid : m \notin Mine(o, valid)
        BY <3>4 DEF AllOf
      <4>2. \A o \in Op : Holds(o, m)' <=> Holds(o, m)
        BY <3>1, <3>2, <3>3, <4>1
      <4>3. /\ media'[m].content = media[m].content /\ media'[m].owners \subseteq media[m].owners
            /\ media'[m].pending <=> media[m].pending
        BY <2>2, <3>4, SliceRows
      <4> QED
        BY <1>0, <4>2, <4>3, BarredSame
    <3>5. CASE m \in AllOf(valid)
      <4>1. m \in Rows /\ ~media[m].pending /\ media[m].owners \ valid = {}
        BY <2>2, <3>5, MineApart
      <4>2. \A o \in Op \ valid : ~Holds(o, m)'
        BY <3>2, <4>1, <1>0 DEF BarredAt
      <4>3. CASE scrubbed
        <5>1. media'[m] = NoRow
          BY <4>3, <3>5, <2>2, SliceRows
        <5>2. \A o \in Op : ~Holds(o, m)'
          BY <4>2, <4>3, <3>3
        <5>3. ~media'[m].pending
          BY <5>1 DEF NoRow
        <5> QED
          BY <5>2, <5>3 DEF BarredAt
      <4>4. CASE ~scrubbed
        <5>1. /\ media'[m].content = media[m].content /\ media'[m].owners = media[m].owners \ valid
              /\ media'[m].pending <=> (media[m].pending \/ m \in AllOf(valid))
          BY <4>4, <2>2, SliceRows
        <5>2. media'[m].pending
          BY <5>1, <3>5
        <5>3. PICK a \in valid : m \in Mine(a, valid)
          BY <3>5 DEF AllOf
        <5>4. a \in Op /\ Holds(a, m)'
          BY <5>3, <3>1, <3>3, <4>4
        <5>5. \A o, p \in Op : Holds(o, m)' /\ Holds(p, m)' => o = p
          BY <4>2, <3>3, <2>2, MineApart
        <5> QED
          BY <5>1, <5>2, <5>4, <5>5, <4>1 DEF BarredAt, Rows
      <4> QED
        BY <4>3, <4>4
    <3> QED
      BY <3>4, <3>5
  <2> QED
    BY <2>1, <2>2, <1>6, StageDoes
<1>7. CASE DeleteRows
  <2>1. PICK o \in worker.ops, bad \in SUBSET worker.work, good \in SUBSET Media : RowsDeleted(o, bad, good)
    BY <1>7, DeleteDoes
  <2>2. o \in Op /\ \A n \in worker.work : item[o][n].state = "claimed"
    BY <2>1, TypesAre DEF Control, WorkIsClaimed, RowsDeleted, Types, WorkerRow
  <2>3. item \in [Op -> [Media -> ItemRow]]
    BY TypesAre DEF Types
  <2>4. /\ media'[m] = IF m \in good THEN NoRow ELSE media[m]
        /\ good \subseteq worker.work \ bad
        /\ good = (worker.work \ bad) \cap Rows
        /\ \A p \in Op \ {o} : item'[p] = item[p]
        /\ item'[o][m] = IF m \in good THEN StagedRows(good)[m]
                         ELSE IF m \in worker.work \ bad THEN [item[o][m] EXCEPT !.state = "media_deleted"]
                         ELSE item[o][m]
    BY <2>1, <2>2, <2>3 DEF RowsDeleted
  <2>5. CASE m \in good
    <3>1. Holds(o, m)
      BY <2>2, <2>4, <2>5 DEF Holds
    <3>2. item'[o][m].state = "media_deleted"
      BY <2>4, <2>5 DEF StagedRows, Staged
    <3>3. \A p \in Op : ~Holds(p, m)'
      BY <3>1, <3>2, <2>2, <2>4, <1>0 DEF Holds, BarredAt
    <3>4. ~media'[m].pending
      BY <2>4, <2>5 DEF NoRow
    <3> QED
      BY <3>3, <3>4 DEF BarredAt
  <2>6. CASE m \notin good
    <3>1. m \notin worker.work \ bad
      <4>1. m \in worker.work => Holds(o, m)
        BY <2>2 DEF Holds
      <4>2. m \in worker.work => m \in Rows
        BY <4>1, <2>2, <1>0 DEF BarredAt, Rows
      <4> QED
        BY <4>2, <2>4, <2>6
    <3>2. item'[o][m] = item[o][m] /\ media'[m] = media[m]
      BY <3>1, <2>4, <2>6
    <3> QED
      BY <3>2, <2>4, <1>0, BarredSame DEF Holds
  <2> QED
    BY <2>5, <2>6
<1>8. CASE RecoverLeases \/ ClaimBatch \/ Finalize \/ Claim \/ MarkFailed
  <2>1. media' = media /\ \A o \in Op : Moved(o, m)
    BY <1>8, ItemsMove DEF Control
  <2>2. \A o \in Op : Holds(o, m)' <=> Holds(o, m)
    BY <2>1 DEF Moved, Moves, Holds
  <2> QED
    BY <1>0, <2>1, <2>2, BarredSame
<1>9. CASE Settle \/ SettleBatch
  <2>1. /\ media' = media
        /\ \A o \in Op : \/ item'[o][m] = item[o][m]
                         \/ /\ item[o][m].state \in {"unlinking", "unlinking_retry"}
                            /\ \/ item'[o][m] = [item[o][m] EXCEPT !.state = "unlink_failed"]
                               \/ item'[o][m] = NoItem
    BY <1>9, SettleDoes DEF Settles
  <2>2. \A o \in Op : Holds(o, m)' <=> Holds(o, m)
    <3> TAKE o \in Op
    <3>1. item[o][m] \in ItemRow
      BY TypesAre DEF Types
    <3>2. [item[o][m] EXCEPT !.state = "unlink_failed"].state = "unlink_failed" /\ NoItem.state = "none"
      BY <3>1 DEF ItemRow, NoItem
    <3> QED
      BY <2>1, <3>2 DEF Holds
  <2> QED
    BY <1>0, <2>1, <2>2, BarredSame
<1> QED
  BY <1>1, <1>2, <1>3, <1>4, <1>5, <1>6, <1>7, <1>8, <1>9, StepKinds

LEMMA InitBarred == Init => BarredOnce
<1> SUFFICES ASSUME Init, NEW m \in Media PROVE BarredAt(m)
  BY DEF BarredOnce
<1>1. ~media[m].pending
  BY DEF Init, NoRow
<1>2. \A o \in Op : ~Holds(o, m)
  BY DEF Init, Holds, NoItem
<1> QED
  BY <1>1, <1>2 DEF BarredAt

-----------------------------------------------------------------------------
(* Counts.                                                                  *)

\* Counts and items that agree before a step that changes neither.
LEMMA AddsSame ==
    ASSUME TypeOK, NEW o \in Op, Adds(o), Items(o)' = Items(o), Broken(o)' = Broken(o),
           op'[o].total = op[o].total, op'[o].deleted = op[o].deleted,
           op'[o].failed = op[o].failed, op'[o].processed = op[o].processed
    PROVE  Adds(o)'
  BY DEF Adds

LEMMA CountTypes ==
    ASSUME TypeOK, NEW o \in Op
    PROVE  /\ op[o].total \in Nat /\ op[o].deleted \in Nat /\ op[o].failed \in Nat /\ op[o].processed \in Nat
           /\ IsFiniteSet(Items(o)) /\ Cardinality(Items(o)) \in Nat
           /\ IsFiniteSet(Broken(o)) /\ Cardinality(Broken(o)) \in Nat
           /\ IsFiniteSet(InUnlink(o)) /\ Cardinality(InUnlink(o)) \in Nat
           /\ \A m \in Media : /\ m \in Items(o) <=> item[o][m].state # "none"
                               /\ m \in Broken(o) <=> item[o][m].state \in {"failed", "unlink_failed"}
                               /\ m \in InUnlink(o) <=> item[o][m].state \in {"unlinking", "unlinking_retry"}
           /\ Items(o) \subseteq Media /\ Broken(o) \subseteq Media /\ InUnlink(o) \subseteq Media
<1>1. op[o] \in OpRow /\ \A m \in Media : item[o][m].state \in ItemState
  BY TypesAre DEF Types, ItemRow
<1>2. op[o].total \in Nat /\ op[o].deleted \in Nat /\ op[o].failed \in Nat /\ op[o].processed \in Nat
  BY <1>1 DEF OpRow
<1>3. /\ \A m \in Media : /\ m \in Items(o) <=> item[o][m].state # "none"
                          /\ m \in Broken(o) <=> item[o][m].state \in {"failed", "unlink_failed"}
                          /\ m \in InUnlink(o) <=> item[o][m].state \in {"unlinking", "unlinking_retry"}
      /\ Items(o) \subseteq Media /\ Broken(o) \subseteq Media /\ InUnlink(o) \subseteq Media
  BY <1>1 DEF Items, Broken, InUnlink, In
<1> QED
  BY <1>2, <1>3, Counting

\* The same of the next state.
LEMMA NextItems ==
    ASSUME TypeOK', NEW o \in Op
    PROVE  /\ \A m \in Media : /\ m \in Items(o)' <=> item'[o][m].state # "none"
                               /\ m \in Broken(o)' <=> item'[o][m].state \in {"failed", "unlink_failed"}
           /\ Items(o)' \subseteq Media /\ Broken(o)' \subseteq Media
<1>1. \A m \in Media : item'[o][m].state \in ItemState
  BY TypesAre DEF Types, ItemRow
<1> QED
  BY <1>1 DEF Items, Broken, In

\* Items that keep whether they are items, and whether they are broken.
LEMMA SameItems ==
    ASSUME TypeOK, TypeOK', NEW o \in Op,
           \A m \in Media : /\ item'[o][m].state = "none" <=> item[o][m].state = "none"
                            /\ item'[o][m].state \in {"failed", "unlink_failed"}
                                  <=> item[o][m].state \in {"failed", "unlink_failed"}
    PROVE  Items(o)' = Items(o) /\ Broken(o)' = Broken(o)
  BY CountTypes, NextItems

\* An operation without items.
LEMMA AddsNothing ==
    ASSUME TypeOK, NEW o \in Op, NothingYet(o), Adds(o)
    PROVE  op[o].total = 0 /\ op[o].deleted = 0 /\ op[o].processed = 0 /\ Items(o) = {} /\ Broken(o) = {}
<1>1. Items(o) = {} /\ Broken(o) = {} /\ op[o].total = 0
  BY CountTypes DEF NothingYet
<1>2. Cardinality(Items(o)) = 0
  BY <1>1, FS_EmptySet
<1> QED
  BY <1>1, <1>2, CountTypes DEF Adds

LEMMA AddsStart ==
    ASSUME TypeOK, TypeOK', NEW o \in Op, \A m \in Media : item'[o][m].state = "none",
           op'[o].total = 0, op'[o].deleted = 0, op'[o].processed = 0
    PROVE  Adds(o)'
<1>1. Items(o)' = {}
  BY NextItems
<1>2. Cardinality(Items(o)') = 0
  BY <1>1, FS_EmptySet
<1> QED
  BY <1>2 DEF Adds

\* An operation gets its items.
LEMMA AddsItems ==
    ASSUME TypeOK, TypeOK', NEW o \in Op, NEW S \in SUBSET Media,
           \A m \in Media : item'[o][m].state = "none" <=> m \notin S,
           \A m \in Media : item'[o][m].state \notin {"failed", "unlink_failed"},
           op'[o].total = Cardinality(S), op'[o].deleted = 0, op'[o].processed = 0, op'[o].failed = 0
    PROVE  Adds(o)'
<1>1. Items(o)' = S /\ Broken(o)' = {}
  BY NextItems
<1>2. Cardinality(Broken(o)') = 0 /\ Cardinality(S) \in Nat
  BY <1>1, FS_EmptySet, Counting
<1> QED
  BY <1>1, <1>2 DEF Adds

\* An operation whose identity is not deleted yet.
LEMMA AddsRejected ==
    ASSUME TypeOK, TypeOK', Control, NEW o \in Op, Adds(o),
           op[o].phase \in IdentityPhase, asset[o] \notin {"trashed", "deleting"}, op'[o] = Rejected(o),
           \A m \in Media : item'[o][m] = item[o][m]
    PROVE  Adds(o)'
<1>1. o \in Asset /\ NothingYet(o)
  BY DEF Control, Untouched, Op
<1>2. op'[o].total = op[o].total /\ op'[o].deleted = op[o].deleted /\ op'[o].processed = op[o].processed
  <2>1. op[o] \in OpRow
    BY TypesAre DEF Types
  <2> QED
    BY <2>1 DEF Rejected, OpRow
<1> QED
  BY <1>1, <1>2, AddsNothing, AddsStart DEF NothingYet

LEMMA AddingPeople ==
    ASSUME TypeOK, TypeOK', Control, Adding, People, NEW o \in Op
    PROVE  Adds(o)'
<1>0. Adds(o) /\ op[o] \in OpRow
  BY TypesAre DEF Adding, Types
<1>1. ASSUME UNCHANGED <<op, item>> PROVE Adds(o)'
  BY <1>0, <1>1 DEF Adds, Items, Broken, In
<1>2. ASSUME NEW chosen \in SUBSET Asset, Enqueue(chosen) PROVE Adds(o)'
  <2> DEFINE active == {a \in Asset : op[a].status \in ActiveStatus}
             fresh == chosen \ active
             rank(p) == Cardinality({a \in fresh : a <= p})
  <2>1. /\ op' = [p \in Op |->
             IF p \in fresh THEN
               [NoOp EXCEPT !.status = "queued", !.phase = "identity_queued", !.id = Newest + rank(p)]
             ELSE IF active = {} /\ p \in Asset /\ op[p].status = "completed"
             THEN [op[p] EXCEPT !.status = "superseded"] ELSE op[p]]
        /\ item' = item
        /\ \A a \in chosen : asset[a] \in {"trashed", "active"}
    BY <1>2 DEF Enqueue
  <2> HIDE DEF active, rank
  <2>2. CASE o \in fresh
    <3>1. NothingYet(o)
      BY <2>1, <2>2 DEF Control, Untouched
    <3>2. op'[o].total = 0 /\ op'[o].deleted = 0 /\ op'[o].processed = 0
      BY <2>1, <2>2 DEF NoOp
    <3> QED
      BY <2>1, <3>1, <3>2, AddsStart DEF NothingYet
  <2>3. CASE o \notin fresh
    <3>1. op'[o].total = op[o].total /\ op'[o].deleted = op[o].deleted
          /\ op'[o].processed = op[o].processed /\ op'[o].failed = op[o].failed
      <4> HIDE DEF fresh
      <4> QED
        BY <1>0, <2>1, <2>3 DEF OpRow
    <3> QED
      BY <1>0, <2>1, <3>1, AddsSame, SameItems
  <2> QED
    BY <2>2, <2>3
<1>3. ASSUME NEW a \in Asset, Restore(a) \/ Trash(a) PROVE Adds(o)'
  BY <1>1, <1>3 DEF Restore, Trash
<1>4. ASSUME DeleteChat PROVE Adds(o)'
  BY <1>1, <1>4 DEF DeleteChat
<1>5. ASSUME NEW p \in Op, Retry(p) PROVE Adds(o)'
  <2>1. CASE p # o
    <3>1. op'[o] = op[o] /\ item'[o] = item[o]
      <4>1. \A q \in Op \ {p} : item'[q] = item[q] /\ op'[q] = op[q]
        BY <1>5, RetryDoes
      <4> QED
        BY <2>1, <4>1
    <3> QED
      BY <1>0, <3>1, AddsSame, SameItems
  <2>2. CASE p = o
    <3>1. \A m \in Media :
             /\ item'[o][m].state = "none" <=> item[o][m].state = "none"
             /\ item'[o][m].state \notin {"failed", "unlink_failed"}
      BY <1>5, <2>2, RetryDoes
    <3>2. Items(o)' = Items(o) /\ Broken(o)' = {}
      BY <3>1, CountTypes, NextItems
    <3>3. /\ op'[o].failed = 0 /\ op'[o].total = op[o].total /\ op'[o].deleted = op[o].deleted
          /\ op'[o].processed = IF op[o].processed > op[o].failed
                                THEN op[o].processed - op[o].failed ELSE 0
      BY <1>5, <2>2, RetryDoes
    <3>4. Cardinality(Broken(o)') = 0
      BY <3>2, FS_EmptySet
    <3>5. CASE op[o].total > 0
      <4>1. op[o].processed = op[o].deleted + op[o].failed
        BY <3>5, <1>0 DEF Adds
      <4>2. op'[o].processed = op[o].deleted
        BY <3>3, <4>1, CountTypes
      <4> QED
        BY <1>0, <3>2, <3>3, <3>4, <3>5, <4>2, CountTypes DEF Adds
    <3>6. CASE op[o].total = 0
      <4>1. op'[o].processed = 0
        BY <1>0, <3>3, <3>6, CountTypes DEF Adds
      <4> QED
        BY <1>0, <3>2, <3>3, <3>6, <4>1, CountTypes DEF Adds
    <3> QED
      BY <3>5, <3>6, CountTypes
  <2> QED
    BY <2>1, <2>2
<1>6. ASSUME NEW m \in Media, (\E c \in Content : Import(m, c)) \/ Adopt(m) PROVE Adds(o)'
  BY <1>1, <1>6 DEF Import, Adopt
<1> QED
  BY <1>2, <1>3, <1>4, <1>5, <1>6 DEF People

LEMMA AddingStage ==
    ASSUME TypeOK, TypeOK', Control, Adding, BeginPass \/ StageIdentities \/ PrepareReferences, NEW o \in Op
    PROVE  Adds(o)'
<1>0. Adds(o) /\ op[o] \in OpRow
  BY TypesAre DEF Adding, Types
<1>1. CASE BeginPass
  <2>1. CASE chat = "deleted" /\ o = Chat
    <3>1. PICK mine \in SUBSET Media :
              /\ item' = [item EXCEPT ![Chat] = Pending(mine)]
              /\ op' = [op EXCEPT ![Chat] =
                     [NoOp EXCEPT !.status = "queued", !.id = Newest + 1, !.total = Cardinality(mine)]]
      BY <1>1, <2>1, PassDoes
    <3>2. item \in [Op -> [Media -> ItemRow]] /\ op \in [Op -> OpRow]
      BY TypesAre DEF Types
    <3>3. \A m \in Media : item'[o][m].state = IF m \in mine THEN "pending" ELSE "none"
      <4> TAKE m \in Media
      <4>1. item'[o][m] = IF m \in mine THEN [NoItem EXCEPT !.state = "pending"] ELSE NoItem
        BY <2>1, <3>1, <3>2 DEF Pending
      <4> QED
        BY <4>1 DEF NoItem
    <3>4. op'[o] = [NoOp EXCEPT !.status = "queued", !.id = Newest + 1, !.total = Cardinality(mine)]
      BY <2>1, <3>1, <3>2
    <3>5. op'[o].total = Cardinality(mine) /\ op'[o].deleted = 0 /\ op'[o].processed = 0 /\ op'[o].failed = 0
      BY <3>4 DEF NoOp
    <3>6. /\ \A m \in Media : item'[o][m].state = "none" <=> m \notin mine
          /\ \A m \in Media : item'[o][m].state \notin {"failed", "unlink_failed"}
      BY <3>3
    <3> QED
      BY <3>5, <3>6, AddsItems
  <2>2. CASE ~(chat = "deleted" /\ o = Chat)
    <3>1. op'[o] = op[o] /\ item'[o] = item[o]
      <4>1. CASE chat = "deleted"
        BY <1>1, <2>2, <4>1, PassDoes, TypesAre DEF Types
      <4>2. CASE chat # "deleted"
        BY <1>1, <4>2 DEF BeginPass
      <4> QED
        BY <4>1, <4>2
    <3> QED
      BY <1>0, <3>1, AddsSame, SameItems
  <2> QED
    BY <2>1, <2>2
<1>2. CASE StageIdentities
  <2>1. CASE UNCHANGED db
    BY <1>0, <2>1, AddsSame, SameItems DEF db
  <2>2. ASSUME NEW valid \in SUBSET Asset, NEW scrubbed \in BOOLEAN, StagedSlice(valid, scrubbed)
        PROVE  Adds(o)'
    <3>1. CASE o \notin valid
      <4>1. \A m \in Media : item'[o][m] = item[o][m]
        BY <2>2, <3>1, SliceItems
      <4>2. CASE op'[o] = op[o]
        BY <1>0, <4>1, <4>2, AddsSame, SameItems
      <4>3. CASE /\ o \in Queued("identity_refs_scrubbed")
                 /\ asset[o] \notin {"trashed", "deleting"} /\ op'[o] = Rejected(o)
        <5>1. op[o].phase \in IdentityPhase
          BY <4>3 DEF Queued, IdentityPhase
        <5> QED
          BY <1>0, <4>1, <4>3, <5>1, AddsRejected
      <4> QED
        BY <2>2, <3>1, <4>2, <4>3 DEF StagedSlice
    <3>2. CASE o \in valid
      <4>1. NothingYet(o) /\ op[o].failed = 0
        BY <2>2, <3>2, MineApart
      <4>2. op[o].total = 0 /\ op[o].deleted = 0 /\ op[o].processed = 0
        BY <1>0, <4>1, AddsNothing
      <4>3. Mine(o, valid) \in SUBSET Media
        BY <3>2 DEF Mine, Collectible, Rows
      <4>4. ASSUME NEW m \in Media
            PROVE  item'[o][m].state = IF m \in Mine(o, valid)
                                       THEN IF scrubbed THEN "media_deleted" ELSE "pending" ELSE "none"
        <5>1. CASE m \in Mine(o, valid)
          BY <2>2, <3>2, <5>1, SliceItems
        <5>2. CASE m \notin Mine(o, valid)
          <6>1. item'[o][m] = NoItem
            BY <2>2, <3>2, <5>2, SliceItems
          <6> QED
            BY <5>2, <6>1 DEF NoItem
        <5> QED
          BY <5>1, <5>2
      <4>5. CASE Mine(o, valid) = {}
        <5>1. op'[o] = [op[o] EXCEPT !.status = "checkpointing", !.phase = "other"]
          BY <2>2, <3>2, <4>5 DEF StagedSlice
        <5>2. op'[o].total = 0 /\ op'[o].deleted = 0 /\ op'[o].processed = 0
          BY <1>0, <4>2, <5>1 DEF OpRow
        <5> QED
          BY <4>4, <4>5, <5>2, AddsStart
      <4>6. CASE Mine(o, valid) # {}
        <5>1. op'[o] = [op[o] EXCEPT !.total = Cardinality(Mine(o, valid)),
                                           !.status = IF scrubbed THEN "running" ELSE "queued",
                                           !.phase = IF scrubbed THEN "unlinking_artifacts" ELSE "other"]
          BY <2>2, <3>2, <4>6 DEF StagedSlice
        <5>2. /\ op'[o].total = Cardinality(Mine(o, valid))
              /\ op'[o].deleted = 0 /\ op'[o].processed = 0 /\ op'[o].failed = 0
          BY <1>0, <4>1, <4>2, <5>1 DEF OpRow
        <5>3. /\ \A m \in Media : item'[o][m].state = "none" <=> m \notin Mine(o, valid)
              /\ \A m \in Media : item'[o][m].state \notin {"failed", "unlink_failed"}
          BY <4>4
        <5> QED
          BY <4>3, <5>2, <5>3, AddsItems
      <4> QED
        BY <4>5, <4>6
    <3> QED
      BY <3>1, <3>2
  <2> QED
    BY <2>1, <2>2, <1>2, StageDoes
<1>3. CASE PrepareReferences
  <2>1. item' = item
    BY <1>3 DEF PrepareReferences
  <2>2. \/ op'[o] = op[o]
        \/ op'[o] = [op[o] EXCEPT !.phase = "identity_refs_scrubbed"]
        \/ /\ op[o].phase \in IdentityPhase /\ asset[o] \notin {"trashed", "deleting"}
           /\ op'[o] = Rejected(o)
    BY <1>3 DEF PrepareReferences, Queued, Deletable, IdentityPhase
  <2>3. CASE op'[o] = op[o] \/ op'[o] = [op[o] EXCEPT !.phase = "identity_refs_scrubbed"]
    <3>1. op'[o].total = op[o].total /\ op'[o].deleted = op[o].deleted
          /\ op'[o].processed = op[o].processed /\ op'[o].failed = op[o].failed
      BY <1>0, <2>3 DEF OpRow
    <3> QED
      BY <1>0, <2>1, <3>1, AddsSame, SameItems
  <2> QED
    BY <1>0, <2>1, <2>2, <2>3, AddsRejected
<1> QED
  BY <1>1, <1>2, <1>3

\* Items that fail, or are removed, are counted.
LEMMA UnionCounts ==
    ASSUME NEW S \in SUBSET Media, NEW T \in SUBSET Media, S \cap T = {}
    PROVE  Cardinality(S \cup T) = Cardinality(S) + Cardinality(T)
<1>1. Cardinality(S \cap T) = 0
  BY FS_EmptySet
<1> QED
  <2>1. IsFiniteSet(S) /\ IsFiniteSet(T) /\ Cardinality(S) \in Nat /\ Cardinality(T) \in Nat
    BY Counting
  <2>2. Cardinality(S \cup T) = Cardinality(S) + Cardinality(T) - Cardinality(S \cap T)
    BY <2>1, FS_Union
  <2> QED
    BY <1>1, <2>1, <2>2

LEMMA AddingClaim ==
    ASSUME TypeOK, TypeOK', Control, Adding,
           \/ RecoverLeases \/ ClaimBatch \/ TakeUpOldest \/ Finalize \/ Claim \/ Conclude
           \/ Unlink \/ Checkpoint \/ Crash \/ LeasesLapse \/ DeleteRows,
           NEW o \in Op
    PROVE  Adds(o)'
<1>0. Adds(o) /\ op[o] \in OpRow /\ op \in [Op -> OpRow] /\ item \in [Op -> [Media -> ItemRow]]
      /\ worker.ops \subseteq Op
  BY TypesAre DEF Adding, Types, WorkerRow
<1>1. op'[o].total = op[o].total /\ op'[o].deleted = op[o].deleted
      /\ op'[o].processed = op[o].processed /\ op'[o].failed = op[o].failed
  <2>1. CASE RecoverLeases \/ ClaimBatch \/ Finalize \/ Unlink \/ Crash \/ LeasesLapse
    BY <2>1 DEF RecoverLeases, ClaimBatch, Finalize, Unlink, Crash, LeasesLapse, db
  <2>2. CASE TakeUpOldest
    <3>1. op'[o] = op[o] \/ op'[o] = [op[o] EXCEPT !.status = "running", !.phase = "other"]
      BY <2>2 DEF TakeUpOldest
    <3> QED
      BY <1>0, <3>1 DEF OpRow
  <2>3. CASE Claim
    <3>1. PICK p \in worker.ops : op' = [op EXCEPT ![p].phase = "other"]
      BY <2>3 DEF Claim
    <3> QED
      BY <1>0, <3>1 DEF OpRow
  <2>4. CASE Conclude
    <3>1. PICK p \in worker.ops :
             \/ UNCHANGED op
             \/ \E s : op' = [op EXCEPT ![p].status = s, ![p].phase = "other"]
      BY <2>4 DEF Conclude
    <3>2. op'[o] = op[o] \/ \E s : op'[o] = [op[o] EXCEPT !.status = s, !.phase = "other"]
      <4>1. CASE UNCHANGED op
        BY <4>1
      <4>2. ASSUME NEW s, op' = [op EXCEPT ![p].status = s, ![p].phase = "other"]
            PROVE  op'[o] = op[o] \/ \E t : op'[o] = [op[o] EXCEPT !.status = t, !.phase = "other"]
        <5>1. p \in Op /\ op[p] \in OpRow
          BY <1>0
        <5> QED
          BY <1>0, <4>2, <5>1
      <4> QED
        BY <3>1, <4>1, <4>2
    <3> QED
      BY <1>0, <3>2 DEF OpRow
  <2>5. CASE Checkpoint
    <3>1. op'[o] = op[o] \/ op'[o] = [op[o] EXCEPT !.status = Outcome(o)]
      BY <2>5 DEF Checkpoint
    <3> QED
      BY <1>0, <3>1 DEF OpRow
  <2>6. CASE DeleteRows
    <3>1. \E p \in worker.ops : \E ph : op' = [op EXCEPT ![p].phase = ph]
      BY <2>6 DEF DeleteRows
    <3> QED
      BY <1>0, <3>1 DEF OpRow
  <2> QED
    BY <2>1, <2>2, <2>3, <2>4, <2>5, <2>6
<1>2. ASSUME NEW m \in Media
      PROVE  /\ item'[o][m].state = "none" <=> item[o][m].state = "none"
             /\ item'[o][m].state \in {"failed", "unlink_failed"}
                   <=> item[o][m].state \in {"failed", "unlink_failed"}
  <2>1. CASE RecoverLeases \/ ClaimBatch \/ Finalize \/ Claim
    <3>1. worker.pc # "mark"
      BY <2>1 DEF RecoverLeases, ClaimBatch, Finalize, Claim
    <3>2. Moved(o, m)
      BY <2>1, ItemsMove DEF Control
    <3> QED
      BY <3>1, <3>2 DEF Moved, Moves
  <2>2. CASE TakeUpOldest \/ Conclude \/ Unlink \/ Checkpoint \/ Crash \/ LeasesLapse
    BY <2>2 DEF TakeUpOldest, Conclude, Unlink, Checkpoint, Crash, LeasesLapse, db
  <2>3. CASE DeleteRows
    <3>1. PICK p \in worker.ops, bad \in SUBSET worker.work, good \in SUBSET Media : RowsDeleted(p, bad, good)
      BY <2>3, DeleteDoes
    <3>2. p \in Op /\ \A n \in worker.work : item[p][n].state = "claimed"
      BY <1>0, <3>1 DEF Control, WorkIsClaimed, RowsDeleted
    <3>3. CASE p # o
      BY <3>1, <3>2, <3>3, <1>0 DEF RowsDeleted
    <3>4. CASE p = o
      <4>1. /\ good \subseteq worker.work
            /\ item'[o][m] = IF m \in good THEN StagedRows(good)[m]
                            ELSE IF m \in worker.work \ bad THEN [item[o][m] EXCEPT !.state = "media_deleted"]
                            ELSE item[o][m]
        BY <3>1, <3>2, <3>4, <1>0 DEF RowsDeleted
      <4>2. CASE m \in good
        <5>1. item'[o][m].state = "media_deleted"
          BY <4>1, <4>2 DEF StagedRows, Staged
        <5> QED
          BY <5>1, <4>1, <4>2, <3>2, <3>4
      <4>3. CASE m \notin good /\ m \in worker.work \ bad
        <5>1. item[o][m] \in ItemRow
          BY <1>0
        <5>2. item'[o][m].state = "media_deleted"
          BY <5>1, <4>1, <4>3 DEF ItemRow
        <5> QED
          BY <5>2, <4>3, <3>2, <3>4
      <4> QED
        BY <4>1, <4>2, <4>3
    <3> QED
      BY <3>3, <3>4
  <2> QED
    BY <2>1, <2>2, <2>3
<1> QED
  BY <1>0, <1>1, <1>2, AddsSame, SameItems

LEMMA AddingRemoval ==
    ASSUME TypeOK, TypeOK', Control, Adding, MarkFailed \/ Settle \/ SettleBatch, NEW o \in Op
    PROVE  Adds(o)'
<1>0. Adds(o) /\ op[o] \in OpRow /\ op \in [Op -> OpRow] /\ item \in [Op -> [Media -> ItemRow]]
      /\ worker \in WorkerRow
  BY TypesAre DEF Adding, Types
<1>1. CASE MarkFailed
  <2>1. PICK p \in worker.ops :
        /\ worker.pc = "mark"
        /\ item' = [item EXCEPT ![p] = [m \in Media |->
               IF m \in worker.work THEN [item[p][m] EXCEPT !.state = "failed"] ELSE item[p][m]]]
        /\ op' = [op EXCEPT ![p].processed = @ + Cardinality(worker.work),
                            ![p].failed = @ + Cardinality(worker.work)]
    BY <1>1 DEF MarkFailed
  <2>2. p \in Op /\ worker.work \in SUBSET Media /\ \A m \in worker.work : item[p][m].state = "claimed"
    BY <1>0, <2>1 DEF WorkerRow, Control, WorkIsClaimed
  <2>3. CASE p # o
    BY <1>0, <2>1, <2>3, AddsSame, SameItems
  <2>4. CASE p = o
    <3>1. /\ op'[o].total = op[o].total /\ op'[o].deleted = op[o].deleted
          /\ op'[o].processed = op[o].processed + Cardinality(worker.work)
          /\ op'[o].failed = op[o].failed + Cardinality(worker.work)
      BY <1>0, <2>1, <2>4 DEF OpRow
    <3>2. ASSUME NEW m \in Media
          PROVE  item'[o][m].state = IF m \in worker.work THEN "failed" ELSE item[o][m].state
      <4>1. item'[o][m] = IF m \in worker.work THEN [item[o][m] EXCEPT !.state = "failed"] ELSE item[o][m]
        BY <1>0, <2>1, <2>2, <2>4
      <4>2. item[o][m] \in ItemRow
        BY <1>0
      <4> QED
        BY <4>1, <4>2 DEF ItemRow
    <3>3. Items(o)' = Items(o) /\ Broken(o)' = Broken(o) \cup worker.work
          /\ Broken(o) \cap worker.work = {} /\ worker.work \subseteq Items(o)
      <4>1. \A m \in worker.work : m \in Media /\ item[o][m].state = "claimed"
        BY <2>2, <2>4
      <4>2. Broken(o) \cap worker.work = {} /\ worker.work \subseteq Items(o)
        BY <4>1, CountTypes
      <4>3. Items(o)' = Items(o)
        <5>1. \A m \in Media : item'[o][m].state = "none" <=> item[o][m].state = "none"
          BY <4>1, <3>2
        <5> QED
          BY <5>1, CountTypes, NextItems
      <4>4. \A m \in Media : m \in Broken(o)' <=> m \in Broken(o) \cup worker.work
        BY <4>1, <3>2, CountTypes, NextItems
      <4>5. Broken(o)' = Broken(o) \cup worker.work
        BY <4>4, <2>2, CountTypes, NextItems
      <4> QED
        BY <4>2, <4>3, <4>5
    <3>4. Cardinality(Broken(o)') = Cardinality(Broken(o)) + Cardinality(worker.work)
      BY <2>2, <3>3, CountTypes, UnionCounts
    <3>5. Cardinality(worker.work) \in Nat
      BY <2>2, Counting
    <3>6. CASE op[o].total > 0
      BY <1>0, <3>1, <3>3, <3>4, <3>5, <3>6, CountTypes DEF Adds
    <3>7. CASE op[o].total = 0
      <4>1. Cardinality(Items(o)) = 0
        BY <1>0, <3>7, CountTypes DEF Adds
      <4>2. worker.work = {}
        BY <4>1, <3>3, CountTypes, FS_EmptySet
      <4>3. Cardinality(worker.work) = 0
        BY <4>2, FS_EmptySet
      <4> QED
        BY <1>0, <3>1, <3>3, <3>7, <4>3, CountTypes DEF Adds
    <3> QED
      BY <3>6, <3>7, CountTypes
  <2> QED
    BY <2>3, <2>4
<1>2. CASE Settle \/ SettleBatch
  <2>1. Settles
    BY <1>2, SettleDoes
  <2> DEFINE n == Cardinality(InUnlink(o))
  <2>2. CASE o \notin worker.ops
    <3>1. op'[o] = op[o] /\ \A m \in Media : item'[o][m] = item[o][m]
      BY <2>1, <2>2 DEF Settles
    <3> QED
      BY <1>0, <3>1, AddsSame, SameItems
  <2>3. CASE o \in worker.ops
    <3>1. \/ op'[o] = Counted(o, n)
          \/ op'[o] = [Counted(o, n) EXCEPT !.status = "checkpointing"]
      BY <2>1, <2>3 DEF Settles
    <3>2. n \in Nat
      BY CountTypes
    <3>3. CASE o \in worker.broken
      <4>1. /\ op'[o].total = op[o].total /\ op'[o].deleted = op[o].deleted
            /\ op'[o].processed = op[o].processed + n /\ op'[o].failed = op[o].failed + n
        <5> HIDE DEF n
        <5> QED
          BY <1>0, <3>1, <3>2, <3>3 DEF Counted, OpRow
      <4>2. ASSUME NEW m \in Media
            PROVE  item'[o][m].state = IF m \in InUnlink(o) THEN "unlink_failed" ELSE item[o][m].state
        <5>1. item[o][m] \in ItemRow /\ (m \in InUnlink(o) <=> item[o][m].state \in {"unlinking", "unlinking_retry"})
          BY <1>0, CountTypes
        <5>2. item'[o][m] = IF m \in InUnlink(o) THEN [item[o][m] EXCEPT !.state = "unlink_failed"] ELSE item[o][m]
          BY <2>1, <2>3, <3>3, <5>1 DEF Settles
        <5> QED
          BY <5>1, <5>2 DEF ItemRow
      <4>3. Items(o)' = Items(o) /\ Broken(o)' = Broken(o) \cup InUnlink(o)
            /\ Broken(o) \cap InUnlink(o) = {} /\ InUnlink(o) \subseteq Items(o)
        <5>1. Broken(o) \cap InUnlink(o) = {} /\ InUnlink(o) \subseteq Items(o)
          BY CountTypes
        <5>2. Items(o)' = Items(o)
          BY <4>2, CountTypes, NextItems
        <5>3. \A m \in Media : m \in Broken(o)' <=> m \in Broken(o) \cup InUnlink(o)
          BY <4>2, CountTypes, NextItems
        <5>4. Broken(o)' = Broken(o) \cup InUnlink(o)
          BY <5>3, CountTypes, NextItems
        <5> QED
          BY <5>1, <5>2, <5>4
      <4>4. Cardinality(Broken(o)') = Cardinality(Broken(o)) + n
        BY <4>3, CountTypes, UnionCounts
      <4>5. CASE op[o].total > 0
        BY <1>0, <4>1, <4>3, <4>4, <3>2, <4>5, CountTypes DEF Adds
      <4>6. CASE op[o].total = 0
        <5>1. Cardinality(Items(o)) = 0
          BY <1>0, <4>6, CountTypes DEF Adds
        <5>2. InUnlink(o) = {}
          BY <5>1, <4>3, CountTypes, FS_EmptySet
        <5>3. n = 0
          BY <5>2, FS_EmptySet
        <5> QED
          BY <1>0, <4>1, <4>3, <4>6, <5>3, CountTypes DEF Adds
      <4> QED
        BY <4>5, <4>6, CountTypes
    <3>4. CASE o \notin worker.broken
      <4>1. /\ op'[o].total = op[o].total /\ op'[o].deleted = op[o].deleted + n
            /\ op'[o].processed = op[o].processed + n /\ op'[o].failed = op[o].failed
        <5> HIDE DEF n
        <5> QED
          BY <1>0, <3>1, <3>2, <3>4 DEF Counted, OpRow
      <4>2. ASSUME NEW m \in Media
            PROVE  item'[o][m].state = IF m \in InUnlink(o) THEN "none" ELSE item[o][m].state
        <5>1. m \in InUnlink(o) <=> item[o][m].state \in {"unlinking", "unlinking_retry"}
          BY CountTypes
        <5>2. item'[o][m] = IF m \in InUnlink(o) THEN NoItem ELSE item[o][m]
          BY <2>1, <2>3, <3>4, <5>1 DEF Settles
        <5> QED
          BY <5>2 DEF NoItem
      <4>3. /\ Items(o) = Items(o)' \cup InUnlink(o) /\ Items(o)' \cap InUnlink(o) = {}
            /\ Broken(o)' = Broken(o) /\ Items(o)' \in SUBSET Media
        BY <4>2, CountTypes, NextItems
      <4>4. Cardinality(Items(o)) = Cardinality(Items(o)') + n /\ Cardinality(Items(o)') \in Nat
        BY <4>3, CountTypes, UnionCounts, Counting
      <4>5. CASE op[o].total > 0
        BY <1>0, <4>1, <4>3, <4>4, <3>2, <4>5, CountTypes DEF Adds
      <4>6. CASE op[o].total = 0
        <5>1. op[o].deleted + (Cardinality(Items(o)') + n) = 0 /\ op[o].processed = 0
          BY <1>0, <4>4, <4>6 DEF Adds
        <5>2. n = 0 /\ op[o].deleted = 0 /\ Cardinality(Items(o)') = 0
          <6> HIDE DEF n
          <6> QED
            BY <5>1, <3>2, <4>4, CountTypes
        <5>3. op'[o].total = 0 /\ op'[o].processed = 0 /\ op'[o].deleted = 0
          BY <4>1, <4>6, <5>1, <5>2
        <5> QED
          BY <5>2, <5>3 DEF Adds
      <4> QED
        BY <4>5, <4>6, CountTypes
    <3> QED
      BY <3>3, <3>4
  <2> QED
    BY <2>2, <2>3
<1> QED
  BY <1>1, <1>2

LEMMA AddingStep == TypeOK /\ Control /\ Adding /\ [Next]_vars => Adding'
<1> SUFFICES ASSUME TypeOK, Control, Adding, [Next]_vars, NEW o \in Op PROVE Adds(o)'
  BY DEF Adding
<1>1. TypeOK'
  BY TypeStep
<1>2. CASE UNCHANGED vars
  BY <1>1, <1>2, AddsSame, SameItems DEF vars, db, Adding
<1>3. CASE LateOwners
  BY <1>1, <1>3, LateDoes, AddsSame, SameItems DEF Adding
<1> QED
  BY <1>1, <1>2, <1>3, AddingPeople, AddingStage, AddingClaim, AddingRemoval DEF Next, Works

LEMMA InitAdding == Init => Adding
<1> SUFFICES ASSUME Init, NEW o \in Op PROVE Adds(o)
  BY DEF Adding
<1>1. op[o] = NoOp /\ \A m \in Media : item[o][m] = NoItem
  BY DEF Init
<1>2. Items(o) = {}
  BY <1>1 DEF Items, In, NoItem
<1>3. Cardinality(Items(o)) = 0
  BY <1>2, FS_EmptySet
<1> QED
  BY <1>1, <1>3 DEF Adds, NoOp

\* What an operation reports agrees with its items, whatever is scrubbed,
\* unlinked, retried or resumed after a crash.
THEOREM CountsAreTrue == Spec => []CountsAddUp
<1>1. Init => TypeOK /\ Control /\ Adding
  BY InitTypes, InitControl, InitAdding
<1>2. TypeOK /\ Control /\ Adding /\ [Next]_vars => (TypeOK /\ Control /\ Adding)'
  BY TypeStep, ControlStep, AddingStep
<1>3. Adding => CountsAddUp
  BY DEF Adding, Adds, Items, Broken, CountsAddUp
<1> QED
  BY <1>1, <1>2, <1>3, PTL DEF Spec

-----------------------------------------------------------------------------
(* Bytes: what items remember.                                              *)

\* The bytes an item is to remove stay remembered.
KeyKept(o, m) ==
    item'[o][m].key /\ item'[o][m].content = item[o][m].content /\ item'[o][m].sid = item[o][m].sid
\* The item whose bytes were removed, and which is dropped.
Done(o, m) ==
    /\ Settle \/ SettleBatch
    /\ o \in worker.ops \ worker.broken
    /\ item[o][m].state \in {"unlinking", "unlinking_retry"}
KeyWell(o, m) ==
    /\ item[o][m].key => KeyKept(o, m) \/ Done(o, m)
    /\ item'[o][m].state \in Hand \cup {"none"} => ~item'[o][m].key

LEMMA KeySame ==
    ASSUME NoKeyYet, NEW o \in Op, NEW m \in Media, item'[o][m] = item[o][m]
    PROVE  KeyWell(o, m)
  BY DEF KeyWell, KeyKept, NoKeyYet

LEMMA NoKeyIn == /\ ~NoItem.key /\ NoItem.state = "none" /\ NoItem.content = None
                 /\ ~[NoItem EXCEPT !.state = "pending"].key
<1>1. NoItem.key = FALSE /\ [NoItem EXCEPT !.state = "pending"].key = FALSE
  BY DEF NoItem
<1>2. NoItem.state = "none" /\ NoItem.content = None
  BY DEF NoItem
<1> QED
  BY <1>1, <1>2

LEMMA KeyStep ==
    ASSUME TypeOK, Control, NoKeyYet, [Next]_vars, NEW o \in Op, NEW m \in Media
    PROVE  KeyWell(o, m)
<1>0. item[o][m] \in ItemRow /\ item \in [Op -> [Media -> ItemRow]]
  BY TypesAre DEF Types
<1>1. CASE item'[o][m] = item[o][m]
  BY <1>1, KeySame
<1>2. ASSUME NEW p \in Op, Retry(p) PROVE KeyWell(o, m)
  <2>1. CASE p # o
    <3>1. \A q \in Op \ {p} : item'[q] = item[q]
      BY <1>2, RetryDoes
    <3> QED
      BY <2>1, <3>1, <1>1
  <2>2. CASE p = o
    <3>1. /\ item'[o][m].content = item[o][m].content /\ item'[o][m].sid = item[o][m].sid
          /\ item'[o][m].key = item[o][m].key
          /\ item'[o][m].state \in Hand \cup {"none"} => item[o][m].state \in Hand \cup {"none"}
      BY <1>2, <2>2, RetryDoes
    <3> QED
      BY <3>1 DEF NoKeyYet, KeyWell, KeyKept
  <2> QED
    BY <2>1, <2>2
<1>3. CASE BeginPass
  <2>1. CASE chat = "deleted" /\ o = Chat
    <3>1. \E mine : item' = [item EXCEPT ![Chat] = Pending(mine)]
      BY <1>3, <2>1, PassDoes
    <3>2. item'[o][m] = NoItem \/ item'[o][m] = [NoItem EXCEPT !.state = "pending"]
      BY <2>1, <3>1, <1>0 DEF Pending
    <3>3. ~item'[o][m].key
      BY <3>2, NoKeyIn
    <3>4. ~item[o][m].key
      BY <2>1 DEF Control, Untouched, NothingYet, NoKeyYet
    <3> QED
      BY <3>3, <3>4 DEF KeyWell
  <2>2. CASE ~(chat = "deleted" /\ o = Chat)
    <3>1. item'[o] = item[o]
      BY <1>3, <2>2, <1>0 DEF BeginPass
    <3> QED
      BY <3>1, <1>1
  <2> QED
    BY <2>1, <2>2
<1>4. CASE StageIdentities
  <2>1. CASE UNCHANGED db
    BY <2>1, <1>1 DEF db
  <2>2. ASSUME NEW valid \in SUBSET Asset, NEW scrubbed \in BOOLEAN, StagedSlice(valid, scrubbed)
        PROVE  KeyWell(o, m)
    <3>1. CASE o \notin valid
      BY <2>2, <3>1, <1>1, SliceItems
    <3>2. CASE o \in valid
      <4>1. ~item[o][m].key
        BY <2>2, <3>2, MineApart DEF NothingYet, NoKeyYet
      <4>2. item'[o][m].state \in Hand \cup {"none"} =>
               item'[o][m] = NoItem \/ item'[o][m] = [NoItem EXCEPT !.state = "pending"]
        <5>1. CASE m \in Mine(o, valid)
          BY <2>2, <3>2, <5>1, SliceItems
        <5>2. CASE m \notin Mine(o, valid)
          BY <2>2, <3>2, <5>2, SliceItems
        <5> QED
          BY <5>1, <5>2
      <4> QED
        BY <4>1, <4>2, NoKeyIn DEF KeyWell
    <3> QED
      BY <3>1, <3>2
  <2> QED
    BY <2>1, <2>2, <1>4, StageDoes
<1>5. CASE RecoverLeases \/ ClaimBatch \/ Finalize \/ Claim \/ MarkFailed
  <2>1. Moved(o, m)
    BY <1>5, ItemsMove DEF Control
  <2>2. item'[o][m].state \in Hand \cup {"none"} => item[o][m].state \in Hand \cup {"none"}
    BY <2>1 DEF Moved, Moves
  <2>3. /\ item'[o][m].content = item[o][m].content /\ item'[o][m].sid = item[o][m].sid
        /\ item'[o][m].key = item[o][m].key
    BY <2>1 DEF Moved
  <2> QED
    BY <2>2, <2>3 DEF NoKeyYet, KeyWell, KeyKept
<1>6. CASE DeleteRows
  <2>1. PICK p \in worker.ops, bad \in SUBSET worker.work, good \in SUBSET Media : RowsDeleted(p, bad, good)
    BY <1>6, DeleteDoes
  <2>2. p \in Op /\ \A n \in worker.work : item[p][n].state = "claimed"
    BY <2>1, TypesAre DEF Control, WorkIsClaimed, RowsDeleted, Types, WorkerRow
  <2>3. CASE p # o
    BY <2>1, <2>2, <2>3, <1>0, <1>1 DEF RowsDeleted
  <2>4. CASE p = o
    <3>1. /\ good \subseteq worker.work
          /\ item'[o][m] = IF m \in good THEN StagedRows(good)[m]
                          ELSE IF m \in worker.work \ bad THEN [item[o][m] EXCEPT !.state = "media_deleted"]
                          ELSE item[o][m]
      BY <2>1, <2>2, <2>4, <1>0 DEF RowsDeleted
    <3>2. CASE m \in good \/ m \in worker.work \ bad
      <4>1. ~item[o][m].key
        BY <2>2, <2>4, <3>1, <3>2 DEF NoKeyYet
      <4>2. item'[o][m].state = "media_deleted"
        <5>1. CASE m \in good
          BY <3>1, <5>1 DEF StagedRows, Staged
        <5>2. CASE m \notin good
          BY <3>1, <3>2, <5>2, <1>0 DEF ItemRow
        <5> QED
          BY <5>1, <5>2
      <4> QED
        BY <4>1, <4>2 DEF KeyWell
    <3>3. CASE ~(m \in good \/ m \in worker.work \ bad)
      BY <3>1, <3>3, <1>1
    <3> QED
      BY <3>2, <3>3
  <2> QED
    BY <2>3, <2>4
<1>7. CASE Settle \/ SettleBatch
  <2>1. item'[o][m] = IF o \in worker.ops /\ item[o][m].state \in {"unlinking", "unlinking_retry"}
                      THEN IF o \in worker.broken THEN [item[o][m] EXCEPT !.state = "unlink_failed"]
                           ELSE NoItem
                      ELSE item[o][m]
    BY <1>7, SettleDoes DEF Settles
  <2>2. CASE item'[o][m] = [item[o][m] EXCEPT !.state = "unlink_failed"]
    <3>1. /\ item'[o][m].content = item[o][m].content /\ item'[o][m].sid = item[o][m].sid
          /\ item'[o][m].key = item[o][m].key /\ item'[o][m].state = "unlink_failed"
      BY <2>2, <1>0 DEF ItemRow
    <3> QED
      BY <3>1 DEF KeyWell, KeyKept
  <2>3. CASE Done(o, m) /\ item'[o][m] = NoItem
    BY <2>3, NoKeyIn DEF KeyWell
  <2>4. \/ item'[o][m] = item[o][m]
        \/ item'[o][m] = [item[o][m] EXCEPT !.state = "unlink_failed"]
        \/ Done(o, m) /\ item'[o][m] = NoItem
    <3>1. CASE o \in worker.ops /\ item[o][m].state \in {"unlinking", "unlinking_retry"}
      BY <2>1, <3>1, <1>7 DEF Done
    <3>2. CASE ~(o \in worker.ops /\ item[o][m].state \in {"unlinking", "unlinking_retry"})
      BY <2>1, <3>2
    <3> QED
      BY <3>1, <3>2
  <2> QED
    BY <2>2, <2>3, <2>4, <1>1
<1>8. ASSUME NEW n \in Media, (\E c \in Content : Import(n, c)) \/ Adopted(n) PROVE KeyWell(o, m)
  BY <1>8, <1>1 DEF Import, Adopted
<1> QED
  BY <1>1, <1>2, <1>3, <1>4, <1>5, <1>6, <1>7, <1>8, StepKinds DEF Silent

LEMMA NoKeyStep == TypeOK /\ Control /\ NoKeyYet /\ [Next]_vars => NoKeyYet'
  BY KeyStep DEF NoKeyYet, KeyWell

-----------------------------------------------------------------------------
(* Bytes: rows and objects.                                                 *)

\* A row that the assets of a slice own, and nobody else, is taken along.
LEMMA SliceTakes ==
    ASSUME TypeOK, NEW valid \in SUBSET Asset, NEW m \in Rows,
           media[m].owners # {}, media[m].owners \subseteq valid
    PROVE  m \in AllOf(valid)
<1> DEFINE ids == {op[a].id : a \in media[m].owners}
<1>1. m \in Media /\ media[m].owners \in SUBSET Op /\ \A a \in media[m].owners : op[a].id \in Nat
  <2>1. m \in Media /\ media[m].owners \subseteq Op
    BY FinitePools DEF Rows
  <2> QED
    BY <2>1, TypesAre DEF Types, OpRow
<1>2. ids \subseteq Nat /\ ids # {}
  BY <1>1
<1>3. IsFiniteSet(ids)
  <2> DEFINE S == media[m].owners
             f == [a \in S |-> op[a].id]
  <2>1. f \in [S -> ids] /\ \A n \in ids : \E a \in S : f[a] = n
    OBVIOUS
  <2>2. f \in Surjection(S, ids) /\ IsFiniteSet(S)
    BY <2>1, <1>1, Counting DEF Surjection
  <2> HIDE DEF ids, f, S
  <2> QED
    BY <2>2, FS_Surjection
<1>4. \E x \in ids : \A y \in ids : y <= x
  <2> HIDE DEF ids
  <2> QED
    BY <1>2, <1>3, GreatestExists
<1>5. PICK a \in media[m].owners : \A b \in media[m].owners : op[b].id <= op[a].id
  BY <1>4
<1>6. a \in valid /\ media[m].owners \ UpTo(a, valid) = {}
  BY <1>5 DEF UpTo
<1>7. m \in Mine(a, valid)
  BY <1>6 DEF Mine, Collectible
<1> QED
  BY <1>6, <1>7 DEF AllOf

LEMMA RowStep == TypeOK /\ Control /\ OwnedOrBarred /\ [Next]_vars => OwnedOrBarred'
<1> SUFFICES ASSUME TypeOK, Control, OwnedOrBarred, [Next]_vars, NEW m \in Media, media'[m].content # None,
                    media'[m].owners = {}
             PROVE  media'[m].pending
  BY DEF OwnedOrBarred, Rows
<1>0. media[m].content # None /\ media[m].owners = {} => media[m].pending
  BY DEF OwnedOrBarred, Rows
<1>1. CASE media'[m] = media[m]
  BY <1>0, <1>1
<1>2. ASSUME NEW o \in Op, Retry(o) PROVE media'[m].pending
  <2>1. /\ media'[m].content = media[m].content /\ media'[m].owners = media[m].owners
        /\ media'[m].pending = media[m].pending \/ media'[m].pending = TRUE
    BY <1>2, RetryDoes
  <2> QED
    BY <1>0, <2>1
<1>3. ASSUME NEW n \in Media, (\E c \in Content : Import(n, c)) \/ Adopted(n) PROVE media'[m].pending
  <2>1. CASE m = n
    BY <1>3, <2>1, ArrivalDoes
  <2>2. CASE m # n
    BY <1>1, <1>3, <2>2, ArrivalDoes
  <2> QED
    BY <2>1, <2>2
<1>4. CASE BeginPass
  <2>1. CASE chat = "deleted"
    <3>1. PICK mine \in SUBSET Media :
            /\ media'[m].content = media[m].content
            /\ media'[m].owners = media[m].owners \ {Chat}
            /\ media'[m].pending = (media[m].pending \/ m \in mine)
            /\ m \in mine <=> /\ media[m].content # None /\ Chat \in media[m].owners
                              /\ media[m].owners \ {Chat} = {} /\ ~media[m].pending
      BY <1>4, <2>1, PassDoes
    <3>2. media[m].pending \/ m \in mine
      BY <1>0, <3>1
    <3> QED
      BY <3>1, <3>2
  <2>2. CASE chat # "deleted"
    BY <1>1, <1>4, <2>2 DEF BeginPass
  <2> QED
    BY <2>1, <2>2
<1>5. CASE StageIdentities
  <2>1. CASE UNCHANGED db
    BY <1>1, <2>1 DEF db
  <2>2. ASSUME NEW valid \in SUBSET Asset, NEW scrubbed \in BOOLEAN, StagedSlice(valid, scrubbed)
        PROVE  media'[m].pending
    <3>1. ~(scrubbed /\ m \in AllOf(valid))
      <4>1. media'[m] # NoRow
        BY DEF NoRow
      <4> QED
        BY <2>2, <4>1, SliceRows
    <3>2. /\ media'[m].content = media[m].content
          /\ media'[m].owners = media[m].owners \ valid
          /\ media'[m].pending <=> (media[m].pending \/ m \in AllOf(valid))
      BY <2>2, <3>1, SliceRows
    <3>3. media[m].pending \/ m \in AllOf(valid)
      <4>1. CASE media[m].owners = {}
        BY <1>0, <3>2, <4>1
      <4>2. CASE media[m].owners # {}
        BY <3>2, <4>2, SliceTakes DEF Rows
      <4> QED
        BY <4>1, <4>2
    <3> QED
      BY <3>2, <3>3
  <2> QED
    BY <2>1, <2>2, <1>5, StageDoes
<1>6. CASE DeleteRows
  <2>1. PICK o \in worker.ops, bad \in SUBSET worker.work, good \in SUBSET Media : RowsDeleted(o, bad, good)
    BY <1>6, DeleteDoes
  <2>2. media'[m] = IF m \in good THEN NoRow ELSE media[m]
    BY <2>1 DEF RowsDeleted
  <2>3. media'[m] = media[m]
    BY <2>2 DEF NoRow
  <2> QED
    BY <1>1, <2>3
<1>7. CASE RecoverLeases \/ ClaimBatch \/ Finalize \/ Claim \/ MarkFailed \/ Settle \/ SettleBatch
  BY <1>7, <1>1 DEF RecoverLeases, ClaimBatch, Finalize, Claim, MarkFailed, Settle, SettleBatch
<1> QED
  BY <1>1, <1>2, <1>3, <1>4, <1>5, <1>6, <1>7, StepKinds DEF Silent

\* Objects that items are to remove are marked.
LEMMA Marks ==
    ASSUME TypeOK, NEW S, NEW staged, DOMAIN staged = S, object' = Deleting(Doomed(staged)),
           \A m \in S : staged[m].key =>
              /\ object[staged[m].content].sid = staged[m].sid
              /\ object[staged[m].content].state # "none"
    PROVE  \A c \in Content :
              /\ object'[c].sid = object[c].sid
              /\ object'[c].state = "none" <=> object[c].state = "none"
              /\ object'[c].state = "deleting" =>
                    \/ object[c].state = "deleting"
                    \/ \E m \in S : staged[m].key /\ staged[m].content = c /\ staged[m].sid = object[c].sid
<1> SUFFICES ASSUME NEW c \in Content
             PROVE  /\ object'[c].sid = object[c].sid
                    /\ object'[c].state = "none" <=> object[c].state = "none"
                    /\ object'[c].state = "deleting" =>
                          \/ object[c].state = "deleting"
                          \/ \E m \in S : staged[m].key /\ staged[m].content = c /\ staged[m].sid = object[c].sid
  OBVIOUS
<1>1. object'[c] = IF c \in Doomed(staged) THEN [object[c] EXCEPT !.state = "deleting"] ELSE object[c]
  BY DEF Deleting
<1>2. object[c] \in ObjectRow
  BY TypesAre DEF Types
<1>3. CASE c \in Doomed(staged)
  <2>1. PICK m \in S : staged[m].key /\ staged[m].content = c
    BY <1>3 DEF Doomed
  <2>2. object'[c].sid = object[c].sid /\ object'[c].state = "deleting"
    BY <1>1, <1>2, <1>3 DEF ObjectRow
  <2> QED
    BY <2>1, <2>2
<1>4. CASE c \notin Doomed(staged)
  BY <1>1, <1>4
<1> QED
  BY <1>3, <1>4

\* The object of an item that is staged.
LEMMA StagedKeys ==
    ASSUME TypeOK, NEW m \in Media
    PROVE  /\ \A md : /\ Staged(md, m).content = media[m].content /\ Staged(md, m).sid = media[m].sid
                      /\ Staged(md, m).key <=> /\ object[media[m].content].sid = media[m].sid
                                               /\ object[media[m].content].state # "none"
                                               /\ Rooted(md, media[m].content, media[m].sid) = {}
           /\ \A good : m \in good =>
                 /\ StagedRows(good)[m].content = media[m].content /\ StagedRows(good)[m].sid = media[m].sid
                 /\ StagedRows(good)[m].key <=>
                       /\ object[media[m].content].sid = media[m].sid
                       /\ object[media[m].content].state # "none"
                       /\ Refs(media, media[m].content, media[m].sid) \subseteq good
<1>1. ASSUME NEW md
      PROVE  /\ Staged(md, m).content = media[m].content /\ Staged(md, m).sid = media[m].sid
             /\ Staged(md, m).key <=> /\ object[media[m].content].sid = media[m].sid
                                      /\ object[media[m].content].state # "none"
                                      /\ Rooted(md, media[m].content, media[m].sid) = {}
  <2>1. Staged(md, m).content = media[m].content /\ Staged(md, m).sid = media[m].sid
    BY DEF Staged
  <2>2. Staged(md, m).key = (/\ object[media[m].content].sid = media[m].sid
                             /\ object[media[m].content].state # "none"
                             /\ Rooted(md, media[m].content, media[m].sid) = {})
    BY DEF Staged
  <2>3. Staged(md, m).key <=> (/\ object[media[m].content].sid = media[m].sid
                             /\ object[media[m].content].state # "none"
                             /\ Rooted(md, media[m].content, media[m].sid) = {})
    BY <2>2, Zenon
  <2> QED
    BY <2>1, <2>3
<1>2. ASSUME NEW good, m \in good
      PROVE  /\ StagedRows(good)[m].content = media[m].content /\ StagedRows(good)[m].sid = media[m].sid
             /\ StagedRows(good)[m].key <=>
                   /\ object[media[m].content].sid = media[m].sid
                   /\ object[media[m].content].state # "none"
                   /\ Refs(media, media[m].content, media[m].sid) \subseteq good
  <2> DEFINE held == /\ object[media[m].content].sid = media[m].sid
                     /\ object[media[m].content].state # "none"
                     /\ Refs(media, media[m].content, media[m].sid) \subseteq good
             r == Staged(media, m)
  <2>1. StagedRows(good)[m] = [r EXCEPT !.key = held]
    BY <1>2 DEF StagedRows
  <2>2. r \in ItemRow /\ held \in BOOLEAN
    BY OperatorTypes
  <2>3. r.content = media[m].content /\ r.sid = media[m].sid
    BY <1>1
  <2> HIDE DEF r, held
  <2>4. StagedRows(good)[m].content = r.content /\ StagedRows(good)[m].sid = r.sid
    BY <2>1, <2>2 DEF ItemRow
  <2>5. StagedRows(good)[m].key = held
    BY <2>1, <2>2 DEF ItemRow
  <2>6. StagedRows(good)[m].key <=> held
    BY <2>5, Zenon
  <2> QED
    BY <2>3, <2>4, <2>6 DEF held
<1> QED
  BY <1>1, <1>2

\* How a storage object changes, apart from imports.
ObjectWell(c) ==
    /\ object'[c].sid = object[c].sid
    /\ object[c].state = "none" => object'[c].state = "none"
    /\ object'[c].state = "none" /\ object[c].state # "none" =>
          /\ Settle \/ SettleBatch
          /\ object[c].state = "deleting" /\ Rooted(media, c, object[c].sid) = {}
    /\ object'[c].state = "deleting" =>
          \/ /\ object[c].state = "deleting"
             /\ \A o \in Op, m \in Media :
                   Done(o, m) => ~(item[o][m].content = c /\ item[o][m].sid = object[c].sid)
          \/ \E o \in Op, m \in Media :
                item'[o][m].key /\ item'[o][m].content = c /\ item'[o][m].sid = object'[c].sid

LEMMA ObjectStep ==
    ASSUME TypeOK, Control, [Next]_vars, ~\E m \in Media, c \in Content : Import(m, c)
    PROVE  \A c \in Content : ObjectWell(c)
<1> TAKE c \in Content
<1>0. object[c] \in ObjectRow
  BY TypesAre DEF Types
<1>1. ASSUME ~(Settle \/ SettleBatch), object'[c] = object[c] PROVE ObjectWell(c)
  BY <1>1 DEF ObjectWell, Done
<1>2. CASE StageIdentities
  <2>0. ~(Settle \/ SettleBatch)
    BY <1>2 DEF StageIdentities, Settle, SettleBatch
  <2>1. CASE UNCHANGED db
    BY <2>0, <2>1, <1>1 DEF db
  <2>2. ASSUME NEW valid \in SUBSET Asset, NEW scrubbed \in BOOLEAN, StagedSlice(valid, scrubbed)
        PROVE  ObjectWell(c)
    <3> DEFINE staged == [m \in AllOf(valid) |-> Staged(Given(valid), m)]
    <3>1. CASE ~scrubbed
      BY <2>0, <2>2, <3>1, <1>1 DEF StagedSlice
    <3>2. CASE scrubbed
      <4>1. object' = Deleting(Doomed(staged)) /\ AllOf(valid) \subseteq Media
        <5>1. object' = Deleting(Doomed(staged))
          BY <2>2, <3>2 DEF StagedSlice
        <5>2. \A m \in AllOf(valid) : m \in Rows
          BY <2>2, MineApart
        <5> QED
          BY <5>1, <5>2 DEF Rows
      <4>2. \A m \in AllOf(valid) : staged[m] = Staged(Given(valid), m)
        OBVIOUS
      <4>3. \A m \in AllOf(valid) :
               /\ staged[m].content = media[m].content /\ staged[m].sid = media[m].sid
               /\ staged[m].key =>
                     /\ object[staged[m].content].sid = staged[m].sid
                     /\ object[staged[m].content].state # "none"
        BY <4>1, <4>2, StagedKeys
      <4>4. DOMAIN staged = AllOf(valid)
        OBVIOUS
      <4> HIDE DEF staged
      <4>5. /\ object'[c].sid = object[c].sid
            /\ object'[c].state = "none" <=> object[c].state = "none"
            /\ object'[c].state = "deleting" =>
                  \/ object[c].state = "deleting"
                  \/ \E m \in AllOf(valid) : staged[m].key /\ staged[m].content = c /\ staged[m].sid = object[c].sid
        BY <4>1, <4>3, <4>4, Marks
      <4>6. ASSUME NEW m \in AllOf(valid)
            PROVE  \E o \in Op : item'[o][m] = staged[m]
        <5>1. PICK a \in valid : m \in Mine(a, valid)
          BY DEF AllOf
        <5>2. item'[a][m] = Staged(Given(valid), m)
          BY <2>2, <3>2, <4>1, <5>1, SliceItems
        <5> QED
          BY <5>2, <4>2, FinitePools
      <4> QED
        BY <2>0, <4>1, <4>5, <4>6 DEF ObjectWell, Done
    <3> QED
      BY <3>1, <3>2
  <2> QED
    BY <2>1, <2>2, <1>2, StageDoes
<1>3. CASE DeleteRows
  <2>0. ~(Settle \/ SettleBatch)
    BY <1>3 DEF DeleteRows, Settle, SettleBatch
  <2>1. PICK o \in worker.ops, bad \in SUBSET worker.work, good \in SUBSET Media : RowsDeleted(o, bad, good)
    BY <1>3, DeleteDoes
  <2>2. o \in Op /\ item \in [Op -> [Media -> ItemRow]]
    BY TypesAre DEF Types, WorkerRow
  <2>3. \A m \in good : item'[o][m] = StagedRows(good)[m]
    BY <2>1, <2>2 DEF RowsDeleted
  <2>4. object' = Deleting(Doomed(StagedRows(good))) /\ DOMAIN StagedRows(good) = good
    BY <2>1 DEF RowsDeleted, StagedRows
  <2>5. \A m \in good : StagedRows(good)[m].key =>
              /\ object[StagedRows(good)[m].content].sid = StagedRows(good)[m].sid
              /\ object[StagedRows(good)[m].content].state # "none"
    BY StagedKeys
  <2>6. /\ object'[c].sid = object[c].sid
        /\ object'[c].state = "none" <=> object[c].state = "none"
        /\ object'[c].state = "deleting" =>
              \/ object[c].state = "deleting"
              \/ \E m \in good : /\ StagedRows(good)[m].key /\ StagedRows(good)[m].content = c
                                 /\ StagedRows(good)[m].sid = object[c].sid
    BY <2>4, <2>5, Marks
  <2> QED
    BY <2>0, <2>2, <2>3, <2>6 DEF ObjectWell, Done
<1>4. CASE Settle \/ SettleBatch
  <2>1. Settles
    BY <1>4, SettleDoes
  <2>2. PICK S : /\ object' = Dropped(worker.ops \ worker.broken, S)
                 /\ \A d \in Content : Rooted(media, d, object[d].sid) # {} => d \in S
    BY <2>1 DEF Settles
  <2> DEFINE gone == /\ object[c].state = "deleting"
                     /\ \E o \in worker.ops \ worker.broken : \E m \in InUnlink(o) :
                            item[o][m].content = c /\ item[o][m].sid = object[c].sid
  <2>3. object'[c] = IF gone THEN [object[c] EXCEPT !.state = IF c \in S THEN "available" ELSE "none"] ELSE object[c]
    BY <2>2 DEF Dropped
  <2>4. CASE gone
    <3>1. object'[c].sid = object[c].sid /\ object'[c].state = IF c \in S THEN "available" ELSE "none"
      BY <1>0, <2>3, <2>4 DEF ObjectRow
    <3> QED
      BY <1>4, <2>2, <2>4, <3>1 DEF ObjectWell
  <2>5. CASE ~gone
    <3>1. object'[c] = object[c]
      BY <2>3, <2>5
    <3>2. object[c].state = "deleting" =>
             \A o \in Op, m \in Media :
                Done(o, m) => ~(item[o][m].content = c /\ item[o][m].sid = object[c].sid)
      BY <2>5, CountTypes DEF Done
    <3> QED
      BY <3>1, <3>2 DEF ObjectWell
  <2> QED
    BY <2>4, <2>5
<1>5. CASE UNCHANGED object /\ ~(Settle \/ SettleBatch)
  BY <1>5, <1>1
<1>6. UNCHANGED object \/ StageIdentities \/ DeleteRows \/ Settle \/ SettleBatch
  <2>1. (\E o \in Op : Retry(o)) \/ (\E m \in Media : Adopted(m)) \/ BeginPass => UNCHANGED object
    BY DEF Retry, Adopted, BeginPass
  <2>2. RecoverLeases \/ ClaimBatch \/ Finalize \/ Claim \/ MarkFailed => UNCHANGED object
    BY DEF RecoverLeases, ClaimBatch, Finalize, Claim, MarkFailed
  <2> QED
    BY <2>1, <2>2, StepKinds DEF Silent
<1> QED
  BY <1>2, <1>3, <1>4, <1>5, <1>6

\* How a row changes, apart from imports: it stays, or it is deleted with its
\* bytes remembered or shared by a row that stays.
RowStays(m) == media'[m].content = media[m].content /\ media'[m].sid = media[m].sid
RowWell(m) ==
    \/ RowStays(m)
    \/ /\ media'[m] = NoRow
       /\ \A c \in Content : PointsAt(m, c) =>
             \/ Keyed(c)'
             \/ \E n \in Media : PointsAt(n, c) /\ RowStays(n)

LEMMA RowKept ==
    ASSUME TypeOK, Control, [Next]_vars, ~\E m \in Media, c \in Content : Import(m, c)
    PROVE  \A m \in Media : RowWell(m)
<1> SUFFICES ASSUME NEW m \in Media PROVE RowWell(m)
  OBVIOUS
<1>1. CASE media'[m] = media[m]
  BY <1>1 DEF RowWell, RowStays
<1>2. ASSUME NEW o \in Op, Retry(o) PROVE RowWell(m)
  BY <1>2, RetryDoes DEF RowWell, RowStays
<1>3. ASSUME NEW n \in Media, Adopted(n) PROVE RowWell(m)
  <2>1. CASE m = n
    BY <1>3, <2>1, ArrivalDoes DEF RowWell, RowStays
  <2>2. CASE m # n
    BY <1>1, <1>3, <2>2, ArrivalDoes
  <2> QED
    BY <2>1, <2>2
<1>4. CASE BeginPass
  <2>1. CASE chat = "deleted"
    BY <1>4, <2>1, PassDoes DEF RowWell, RowStays
  <2>2. CASE chat # "deleted"
    BY <1>1, <1>4, <2>2 DEF BeginPass
  <2> QED
    BY <2>1, <2>2
<1>5. CASE StageIdentities
  <2>1. CASE UNCHANGED db
    BY <1>1, <2>1 DEF db
  <2>2. ASSUME NEW valid \in SUBSET Asset, NEW scrubbed \in BOOLEAN, StagedSlice(valid, scrubbed)
        PROVE  RowWell(m)
    <3>1. CASE ~(scrubbed /\ m \in AllOf(valid))
      BY <2>2, <3>1, SliceRows DEF RowWell, RowStays
    <3>2. CASE scrubbed /\ m \in AllOf(valid)
      <4>0. scrubbed
        BY <3>2
      <4>1. media'[m] = NoRow
        BY <2>2, <3>2 DEF StagedSlice
      <4>2. ASSUME NEW c \in Content, PointsAt(m, c), Rooted(Given(valid), c, media[m].sid) = {}
            PROVE  Keyed(c)'
        <5>1. PICK a \in valid : m \in Mine(a, valid)
          BY <3>2 DEF AllOf
        <5>0. item'[a][m] = Staged(Given(valid), m)
          BY <2>2, <4>0, <5>1, SliceItems
        <5>2. item'[a][m] = Staged(Given(valid), m) /\ a \in Op
          BY <5>0, FinitePools
        <5>3. item'[a][m].key /\ item'[a][m].content = c
          BY <4>2, <5>2, StagedKeys DEF PointsAt
        <5> QED
          BY <5>2, <5>3 DEF Keyed
      <4>3. ASSUME NEW c \in Content, PointsAt(m, c), Rooted(Given(valid), c, media[m].sid) # {}
            PROVE  \E n \in Media : PointsAt(n, c) /\ RowStays(n)
        <5>1. PICK n \in Media : /\ Given(valid)[n].content = c /\ Given(valid)[n].sid = media[m].sid
                                 /\ Given(valid)[n].owners # {}
          BY <4>3 DEF Rooted, Refs
        <5>2. media[n].content = c /\ media[n].sid = media[m].sid /\ media[n].owners \ valid # {}
          BY <5>1, GivenIs
        <5>3. n \notin AllOf(valid)
          BY <2>2, <5>2, MineApart
        <5>4. RowStays(n)
          BY <2>2, <5>3, SliceRows DEF RowStays
        <5> QED
          BY <4>3, <5>2, <5>4 DEF PointsAt
      <4> QED
        BY <4>1, <4>2, <4>3 DEF RowWell
    <3> QED
      BY <3>1, <3>2
  <2> QED
    BY <2>1, <2>2, <1>5, StageDoes
<1>6. CASE DeleteRows
  <2>1. PICK o \in worker.ops, bad \in SUBSET worker.work, good \in SUBSET Media : RowsDeleted(o, bad, good)
    BY <1>6, DeleteDoes
  <2>2. \A n \in Media : media'[n] = IF n \in good THEN NoRow ELSE media[n]
    BY <2>1 DEF RowsDeleted
  <2>3. CASE m \notin good
    BY <1>1, <2>2, <2>3
  <2>4. CASE m \in good
    <3>1. o \in Op /\ item'[o][m] = StagedRows(good)[m]
      BY <2>1, <2>4, TypesAre DEF Types, WorkerRow, RowsDeleted
    <3>2. ASSUME NEW c \in Content, PointsAt(m, c), Refs(media, c, media[m].sid) \subseteq good
          PROVE  Keyed(c)'
      <4>1. item'[o][m].key /\ item'[o][m].content = c
        BY <2>4, <3>1, <3>2, StagedKeys DEF PointsAt
      <4> QED
        BY <3>1, <4>1 DEF Keyed
    <3>3. ASSUME NEW c \in Content, PointsAt(m, c), ~(Refs(media, c, media[m].sid) \subseteq good)
          PROVE  \E n \in Media : PointsAt(n, c) /\ RowStays(n)
      <4>1. PICK n \in Media : n \notin good /\ media[n].content = c /\ media[n].sid = media[m].sid
        BY <3>3 DEF Refs
      <4> QED
        BY <2>2, <3>3, <4>1 DEF PointsAt, RowStays
    <3> QED
      BY <2>2, <2>4, <3>2, <3>3 DEF RowWell
  <2> QED
    BY <2>3, <2>4
<1>7. CASE RecoverLeases \/ ClaimBatch \/ Finalize \/ Claim \/ MarkFailed \/ Settle \/ SettleBatch
  BY <1>7, <1>1 DEF RecoverLeases, ClaimBatch, Finalize, Claim, MarkFailed, Settle, SettleBatch
<1> QED
  BY <1>1, <1>2, <1>3, <1>4, <1>5, <1>6, <1>7, StepKinds DEF Silent

\* Owners appear only where a row is not barred, with an import, or where
\* somebody had looked at the row before it was barred: it stays barred.
LEMMA OwnersKept ==
    ASSUME TypeOK, Control, [Next]_vars, ~\E m \in Media, c \in Content : Import(m, c),
           NEW m \in Media, media'[m].owners # {}
    PROVE  /\ RowStays(m)
           /\ media[m].pending => media'[m].pending
           /\ media[m].owners # {} \/ (media[m].content # None /\ ~media[m].pending) \/ media'[m].pending
<1> DEFINE Grows == media'[m].owners \subseteq media[m].owners /\ (media[m].pending => media'[m].pending)
<1>0. media'[m] # NoRow /\ RowStays(m)
  <2>1. media'[m] # NoRow
    BY DEF NoRow
  <2> QED
    BY <2>1, RowKept DEF RowWell
<1>1. CASE Grows
  BY <1>0, <1>1
<1>2. ASSUME NEW n \in Media, Adopted(n)
      PROVE  /\ media[m].pending => media'[m].pending
             /\ media[m].owners # {} \/ (media[m].content # None /\ ~media[m].pending) \/ media'[m].pending
  <2>1. CASE m = n
    BY <1>2, <2>1, ArrivalDoes
  <2>2. CASE m # n
    BY <1>2, <2>2, ArrivalDoes
  <2> QED
    BY <2>1, <2>2
<1>3. Grows \/ \E n \in Media : Adopted(n)
  <2>1. ASSUME NEW o \in Op, Retry(o) PROVE Grows
    BY <2>1, RetryDoes
  <2>2. CASE BeginPass
    <3>1. CASE chat = "deleted"
      BY <2>2, <3>1, PassDoes
    <3>2. CASE chat # "deleted"
      BY <2>2, <3>2 DEF BeginPass
    <3> QED
      BY <3>1, <3>2
  <2>3. CASE StageIdentities
    <3>1. CASE UNCHANGED db
      BY <3>1 DEF db
    <3>2. ASSUME NEW valid \in SUBSET Asset, NEW scrubbed \in BOOLEAN, StagedSlice(valid, scrubbed)
          PROVE  Grows
      <4>1. ~(scrubbed /\ m \in AllOf(valid))
        BY <1>0, <3>2, SliceRows
      <4> QED
        BY <3>2, <4>1, SliceRows
    <3> QED
      BY <3>1, <3>2, <2>3, StageDoes
  <2>4. CASE DeleteRows
    <3>1. PICK o \in worker.ops, bad \in SUBSET worker.work, good \in SUBSET Media : RowsDeleted(o, bad, good)
      BY <2>4, DeleteDoes
    <3>2. media'[m] = IF m \in good THEN NoRow ELSE media[m]
      BY <3>1 DEF RowsDeleted
    <3> QED
      BY <1>0, <3>2
  <2>5. CASE RecoverLeases \/ ClaimBatch \/ Finalize \/ Claim \/ MarkFailed \/ Settle \/ SettleBatch
    BY <2>5 DEF RecoverLeases, ClaimBatch, Finalize, Claim, MarkFailed, Settle, SettleBatch
  <2> QED
    BY <2>1, <2>2, <2>3, <2>4, <2>5, StepKinds DEF Silent
<1> QED
  BY <1>0, <1>1, <1>2, <1>3

LEMMA LiveStep ==
    TypeOK /\ Control /\ OwnedOrBarred /\ LivePoints /\ [Next]_vars => LivePoints'
<1> SUFFICES ASSUME TypeOK, Control, OwnedOrBarred, LivePoints, [Next]_vars,
                    NEW m \in Media, media'[m].content # None, media'[m].owners # {}, ~media'[m].pending
             PROVE  PointsAt(m, media[m].content)' 
  BY DEF LivePoints, Rows
<1> DEFINE c == media'[m].content
<1>0. media[m].content \in Content \cup {None} /\ \A d \in Content : object[d] \in ObjectRow
  BY TypesAre DEF Types, MediaRow
<1>1. CASE \E n \in Media, d \in Content : Import(n, d)
  <2>1. PICK n \in Media, d \in Content : Import(n, d)
    BY <1>1
  <2>2. CASE m = n
    <3>1. media'[m].content = d /\ media'[m].sid = object'[d].sid /\ object'[d].state = "available"
      BY <2>1, <2>2, ArrivalDoes
    <3> QED
      BY <3>1 DEF PointsAt
  <2>3. CASE m # n
    <3>1. media'[m] = media[m]
      BY <2>1, <2>3, ArrivalDoes
    <3>2. PointsAt(m, media[m].content) /\ media[m].content \in Content
      BY <1>0, <3>1 DEF LivePoints, Rows
    <3>3. CASE media[m].content = d
      <4>1. object'[d].state = "available" /\ (object[d].state # "none" => object'[d].sid = object[d].sid)
        BY <2>1, ArrivalDoes
      <4> QED
        BY <3>1, <3>2, <3>3, <4>1 DEF PointsAt
    <3>4. CASE media[m].content # d
      <4>0. \A e \in Content \ {d} : object'[e] = object[e]
        BY <2>1, ArrivalDoes
      <4>1. object'[media[m].content] = object[media[m].content]
        BY <4>0, <3>2, <3>4
      <4> QED
        BY <3>1, <3>2, <4>1 DEF PointsAt
    <3> QED
      BY <3>3, <3>4
  <2> QED
    BY <2>2, <2>3
<1>2. CASE ~\E n \in Media, d \in Content : Import(n, d)
  <2>1. /\ RowStays(m) /\ ~media[m].pending
        /\ media[m].owners # {} \/ (media[m].content # None /\ ~media[m].pending)
    BY <1>2, OwnersKept
  <2>2. media[m].content \in Content /\ m \in Rows
    BY <1>0, <2>1 DEF RowStays, Rows
  <2>3. PointsAt(m, media[m].content) /\ media[m].owners # {}
    BY <2>1, <2>2 DEF OwnedOrBarred, LivePoints
  <2>4. ObjectWell(media[m].content)
    BY <1>2, <2>2, ObjectStep
  <2>5. m \in Rooted(media, media[m].content, object[media[m].content].sid)
    BY <2>3 DEF PointsAt, Rooted, Refs
  <2> QED
    BY <2>1, <2>3, <2>4, <2>5 DEF ObjectWell, PointsAt, RowStays
<1> QED
  BY <1>1, <1>2

LEMMA DeletingStep ==
    TypeOK /\ Control /\ NoKeyYet /\ DeletingIsMeant /\ [Next]_vars => DeletingIsMeant'
<1> SUFFICES ASSUME TypeOK, Control, NoKeyYet, DeletingIsMeant, [Next]_vars,
                    NEW c \in Content, object'[c].state = "deleting"
             PROVE  \E o \in Op, m \in Media :
                        item'[o][m].key /\ item'[o][m].content = c /\ item'[o][m].sid = object'[c].sid
  BY DEF DeletingIsMeant
<1>1. CASE \E n \in Media, d \in Content : Import(n, d)
  <2>1. PICK n \in Media, d \in Content : Import(n, d)
    BY <1>1
  <2>2. c # d /\ item' = item
    BY <2>1, ArrivalDoes
  <2>3. object'[c] = object[c]
    BY <2>1, <2>2, ArrivalDoes
  <2> QED
    BY <2>2, <2>3 DEF DeletingIsMeant
<1>2. CASE ~\E n \in Media, d \in Content : Import(n, d)
  <2>1. ObjectWell(c)
    BY <1>2, ObjectStep
  <2>2. CASE /\ object[c].state = "deleting"
             /\ \A o \in Op, m \in Media :
                   Done(o, m) => ~(item[o][m].content = c /\ item[o][m].sid = object[c].sid)
    <3>1. PICK o \in Op, m \in Media :
            item[o][m].key /\ item[o][m].content = c /\ item[o][m].sid = object[c].sid
      BY <2>2 DEF DeletingIsMeant
    <3>2. KeyKept(o, m)
      BY <2>2, <3>1, KeyStep DEF KeyWell
    <3> QED
      BY <2>1, <3>1, <3>2 DEF KeyKept, ObjectWell
  <2> QED
    BY <2>1, <2>2 DEF ObjectWell
<1> QED
  BY <1>1, <1>2

\* Media that somebody owns keep owners, but for the steps that delete
\* identities.
LEMMA LiveKept ==
    ASSUME TypeOK, Control, [Next]_vars, ~BeginPass, ~StageIdentities, NEW c, LiveContent(c)
    PROVE  LiveContent(c)'
<1>1. PICK m \in Media : media[m].content = c /\ media[m].owners # {}
  BY DEF LiveContent
<1>2. c # None
  BY DEF LiveContent
<1>3. media'[m].content = c /\ media'[m].owners # {}
  <2>1. CASE media'[m] = media[m]
    BY <1>1, <2>1
  <2>2. ASSUME NEW o \in Op, Retry(o) PROVE media'[m].content = c /\ media'[m].owners # {}
    BY <1>1, <2>2, RetryDoes
  <2>3. ASSUME NEW n \in Media, (\E d \in Content : Import(n, d)) \/ Adopted(n)
        PROVE  media'[m].content = c /\ media'[m].owners # {}
    <3>1. CASE m # n
      BY <1>1, <2>3, <3>1, ArrivalDoes
    <3>2. CASE m = n
      BY <1>1, <1>2, <2>3, <3>2, ArrivalDoes
    <3> QED
      BY <3>1, <3>2
  <2>4. CASE DeleteRows
    <3>1. PICK o \in worker.ops, bad \in SUBSET worker.work, good \in SUBSET Media : RowsDeleted(o, bad, good)
      BY <2>4, DeleteDoes
    <3>2. m \notin good /\ media'[m] = IF m \in good THEN NoRow ELSE media[m]
      BY <1>1, <3>1 DEF RowsDeleted
    <3> QED
      BY <1>1, <3>2
  <2>5. CASE RecoverLeases \/ ClaimBatch \/ Finalize \/ Claim \/ MarkFailed \/ Settle \/ SettleBatch
    BY <2>5, <2>1 DEF RecoverLeases, ClaimBatch, Finalize, Claim, MarkFailed, Settle, SettleBatch
  <2> QED
    BY <2>1, <2>2, <2>3, <2>4, <2>5, StepKinds DEF Silent
<1> QED
  BY <1>2, <1>3 DEF LiveContent

-----------------------------------------------------------------------------
(* Bytes: what a removal was decided on.                                    *)

\* What happens while the worker is between two transactions.
Elsewhere == (People \/ LateOwners \/ LeasesLapse \/ UNCHANGED vars) /\ worker' = worker

\* How the worker comes to remove bytes, and to settle that.
LEMMA Enters ==
    ASSUME TypeOK, [Next]_vars
    PROVE  /\ worker'.pc \in {"unlink", "unlink batch"} => ClaimBatch \/ Finalize \/ Elsewhere
           /\ worker'.pc \in {"settle", "settle batch"} => Unlink \/ Elsewhere
<1> DEFINE removal == {"unlink", "unlink batch", "settle", "settle batch"}
<1>0. worker \in WorkerRow
  BY TypesAre DEF Types
<1>1. ASSUME NEW pc, Goes(pc) PROVE worker'.pc = pc
  BY <1>0, <1>1 DEF Goes, WorkerRow
<1>2. People => worker' = worker
  BY DEF People, Enqueue, Restore, Trash, DeleteChat, Retry, Import, Adopt
<1>3. LateOwners \/ LeasesLapse \/ UNCHANGED vars => worker' = worker
  BY LateDoes DEF LeasesLapse, vars
<1>4. EndsPass => worker'.pc \notin removal
  BY DEF EndsPass, Idle
<1>5. \A pc, ops, work, kept : Takes(pc, ops, work, kept) => worker'.pc = pc
  BY DEF Takes
<1>6. BeginPass \/ PrepareReferences \/ RecoverLeases => worker'.pc \notin removal
  BY <1>1 DEF BeginPass, PrepareReferences, RecoverLeases
<1>7. StageIdentities => worker'.pc \notin removal
  <2> SUFFICES ASSUME StageIdentities PROVE worker'.pc \notin removal
    OBVIOUS
  <2>1. CASE EndsPass
    BY <2>1, <1>4
  <2>2. ASSUME NEW valid \in SUBSET Asset, NEW scrubbed \in BOOLEAN, StagedSlice(valid, scrubbed)
        PROVE  worker'.pc \notin removal
    BY <2>2 DEF StagedSlice
  <2> QED
    BY <2>1, <2>2, StageDoes
<1>8. TakeUpOldest => worker'.pc \notin removal
  <2> SUFFICES ASSUME TakeUpOldest PROVE worker'.pc \notin removal
    OBVIOUS
  <2>1. \E ops : Goes("checkpoint") \/ Takes("claim", ops, {}, {}) \/ Takes("finalize", ops, {}, {})
    BY DEF TakeUpOldest
  <2>2. worker'.pc \in {"checkpoint", "claim", "finalize"}
    BY <2>1, <1>1, <1>5
  <2> QED
    BY <2>2
<1>9. Claim \/ MarkFailed \/ Checkpoint \/ Crash => worker'.pc \notin removal
  <2>1. Claim => worker'.pc = "scrub"
    BY DEF Claim, Takes
  <2>2. MarkFailed \/ Checkpoint \/ Crash => EndsPass
    BY DEF MarkFailed, Checkpoint, Crash
  <2> QED
    BY <2>1, <2>2, <1>4
<1>10. Conclude => worker'.pc \notin removal
  <2> SUFFICES ASSUME Conclude PROVE worker'.pc \notin removal
    OBVIOUS
  <2>1. EndsPass \/ Goes("checkpoint")
    BY DEF Conclude
  <2> QED
    BY <2>1, <1>1, <1>4
<1>11. DeleteRows => worker'.pc \notin removal
  <2> SUFFICES ASSUME DeleteRows PROVE worker'.pc \notin removal
    OBVIOUS
  <2>1. EndsPass \/ \E ops, work : Takes("mark", ops, work, {})
    BY DEF DeleteRows
  <2>2. worker'.pc = "mark" \/ EndsPass
    BY <2>1, <1>5
  <2> QED
    BY <2>2, <1>4
<1>12. Settle \/ SettleBatch => worker'.pc \notin removal
  BY <1>4 DEF Settle, SettleBatch
<1>13. ClaimBatch => worker'.pc \notin {"settle", "settle batch"}
  <2> SUFFICES ASSUME ClaimBatch PROVE worker'.pc \notin {"settle", "settle batch"}
    OBVIOUS
  <2>1. Goes("head") \/ \E ops, kept : Takes("unlink batch", ops, {}, kept)
    BY DEF ClaimBatch
  <2> QED
    BY <2>1, <1>1, <1>5
<1>14. Finalize => worker'.pc \notin {"settle", "settle batch"}
  <2> SUFFICES ASSUME Finalize PROVE worker'.pc \notin {"settle", "settle batch"}
    OBVIOUS
  <2>1. Goes("claim") \/ \E ops, kept : Takes("unlink", ops, {}, kept)
    BY DEF Finalize
  <2> QED
    BY <2>1, <1>1, <1>5
<1>15. Unlink => worker'.pc \in {"settle", "settle batch"}
  BY <1>0 DEF Unlink, WorkerRow
<1> QED
  BY <1>2, <1>3, <1>6, <1>7, <1>8, <1>9, <1>10, <1>11, <1>12, <1>13, <1>14, <1>15 DEF Elsewhere, Next, Works

\* Media somebody owns when items are claimed keep owners until what is removed
\* is settled.
LEMMA ElsewhereLives ==
    ASSUME TypeOK, Control, [Next]_vars, Elsewhere,
           worker'.pc \in {"unlink", "unlink batch", "settle", "settle batch"},
           NEW c, LiveContent(c)
    PROVE  LiveContent(c)'
<1>1. worker.pc = worker'.pc
  BY DEF Elsewhere
<1>2. ~BeginPass /\ ~StageIdentities
  BY <1>1 DEF BeginPass, StageIdentities
<1> QED
  BY <1>2, LiveKept

LEMMA RetainedLives ==
    ASSUME NEW ops, NEW k \in Retained(ops)
    PROVE  \E m \in Rows : media[m].owners # {} /\ k = <<media[m].content, media[m].sid>>
<1> DEFINE live == {n \in Rows : media[n].owners # {}}
           roots == {<<media[m].content, media[m].sid>> : m \in live}
<1>2. k \in roots
  BY Zenon DEF Retained
<1>3. PICK m \in live : k = <<media[m].content, media[m].sid>>
  BY <1>2, Zenon
<1> QED
  BY <1>3, Zenon

LEMMA KeptStep == TypeOK /\ Control /\ KeptIsLive /\ [Next]_vars => KeptIsLive'
<1> SUFFICES ASSUME TypeOK, Control, KeptIsLive, [Next]_vars, worker'.pc \in {"unlink", "unlink batch"},
                    NEW k \in worker'.kept
             PROVE  LiveContent(k[1])'
  BY DEF KeptIsLive
<1>1. ASSUME NEW ops, k \in Retained(ops) PROVE LiveContent(k[1])
  <2>1. PICK m \in Rows : media[m].owners # {} /\ k = <<media[m].content, media[m].sid>>
    BY <1>1, RetainedLives
  <2>2. k[1] = media[m].content /\ m \in Media /\ media[m].content # None
    BY <2>1 DEF Rows
  <2> QED
    BY <2>1, <2>2 DEF LiveContent
<1>2. ASSUME LiveContent(k[1]), UNCHANGED media PROVE LiveContent(k[1])'
  BY <1>2 DEF LiveContent
<1>3. CASE ClaimBatch
  <2>0. worker \in WorkerRow
    BY TypesAre DEF Types
  <2>1. UNCHANGED media /\ (Goes("head") \/ \E ops : Takes("unlink batch", ops, {}, Retained(ops)))
    BY <1>3 DEF ClaimBatch
  <2>2. ~Goes("head")
    BY <2>0 DEF Goes, WorkerRow
  <2>3. PICK ops : Takes("unlink batch", ops, {}, Retained(ops))
    BY <2>1, <2>2
  <2>4. worker'.kept = Retained(ops)
    BY <2>3 DEF Takes
  <2> QED
    BY <2>1, <2>4, <1>1, <1>2
<1>4. CASE Finalize
  <2>0. worker \in WorkerRow
    BY TypesAre DEF Types
  <2>1. UNCHANGED media /\ (Goes("claim") \/ \E ops : Takes("unlink", ops, {}, Retained(ops)))
    BY <1>4 DEF Finalize
  <2>2. ~Goes("claim")
    BY <2>0 DEF Goes, WorkerRow
  <2>3. PICK ops : Takes("unlink", ops, {}, Retained(ops))
    BY <2>1, <2>2
  <2>4. worker'.kept = Retained(ops)
    BY <2>3 DEF Takes
  <2> QED
    BY <2>1, <2>4, <1>1, <1>2
<1>5. CASE Elsewhere
  <2>1. LiveContent(k[1])
    BY <1>5 DEF Elsewhere, KeptIsLive
  <2> QED
    BY <1>5, <2>1, ElsewhereLives
<1> QED
  BY <1>3, <1>4, <1>5, Enters

\* Bytes of items that are about to be dropped were removed, unless they were
\* found retained: then somebody owns media with that content still.
LEMMA RemovedStep ==
    TypeOK /\ Control /\ KeptIsLive /\ RemovedOrLive /\ [Next]_vars => RemovedOrLive'
<1> SUFFICES ASSUME TypeOK, Control, KeptIsLive, RemovedOrLive, [Next]_vars,
                    worker'.pc \in {"settle", "settle batch"},
                    NEW o \in worker'.ops \ worker'.broken, NEW m \in Media,
                    item'[o][m].state \in {"unlinking", "unlinking_retry"},
                    item'[o][m].key, item'[o][m].content \in disk'
             PROVE  LiveContent(item[o][m].content)'
  BY DEF RemovedOrLive, InUnlink, In
<1> SUFFICES ASSUME NEW c, c = item'[o][m].content PROVE LiveContent(c)'
  BY DEF LiveContent
<1>0. worker \in WorkerRow /\ item \in [Op -> [Media -> ItemRow]] /\ disk \subseteq Content
  BY TypesAre DEF Types
<1>1. CASE Unlink
  <2>1. /\ worker.pc \in {"unlink", "unlink batch"} /\ UNCHANGED <<item, media>>
    BY <1>1 DEF Unlink, db
  <2> DEFINE doomed(p) == {item[p][n].content : n \in {k \in InUnlink(p) :
                 item[p][k].key /\ <<item[p][k].content, item[p][k].sid>> \notin worker.kept}}
             all(ops) == UNION {doomed(p) : p \in ops}
  <2>2. PICK broken \in SUBSET worker.ops : \E some \in SUBSET all(broken) :
          /\ disk' = disk \ (all(worker.ops \ broken) \cup some)
          /\ worker' = [worker EXCEPT !.pc = IF @ = "unlink" THEN "settle" ELSE "settle batch", !.broken = broken]
    BY <1>1 DEF Unlink
  <2>3. worker'.ops = worker.ops /\ worker'.broken = broken
    BY <2>2, <1>0 DEF WorkerRow
  <2>4. o \in worker.ops \ broken /\ m \in InUnlink(o) /\ item[o][m].key /\ c = item[o][m].content
    BY <2>1, <2>3 DEF InUnlink, In
  <2>5. <<item[o][m].content, item[o][m].sid>> \in worker.kept
    <3>1. SUFFICES ASSUME <<item[o][m].content, item[o][m].sid>> \notin worker.kept PROVE FALSE
      OBVIOUS
    <3>2. c \in doomed(o)
      BY <3>1, <2>4
    <3>3. c \in all(worker.ops \ broken)
      <4> HIDE DEF doomed
      <4> QED
        BY <3>2, <2>4
    <3> HIDE DEF all
    <3> QED
      BY <3>3, <2>2
  <2>6. LiveContent(<<item[o][m].content, item[o][m].sid>>[1])
    BY <2>1, <2>5 DEF KeptIsLive
  <2> QED
    BY <2>1, <2>4, <2>6 DEF LiveContent
<1>2. CASE Elsewhere
  <2>1. worker' = worker /\ worker.pc \in {"settle", "settle batch"}
    BY <1>2 DEF Elsewhere
  <2>2. o \in Op /\ o \in worker.ops \ worker.broken
    BY <2>1, <1>0 DEF WorkerRow
  <2>3. item[o][m].key /\ item[o][m].content = c /\ m \in InUnlink(o)
    <3>1. CASE item' = item
      BY <3>1 DEF InUnlink, In
    <3>2. ASSUME NEW p \in Op, Retry(p) PROVE item[o][m].key /\ item[o][m].content = c /\ m \in InUnlink(o)
      <4>1. CASE p = o
        <5>1. /\ item'[o][m].content = item[o][m].content /\ item'[o][m].key = item[o][m].key
              /\ item'[o][m].state = IF item[o][m].state = "failed" /\ m \in Rows THEN "pending"
                                     ELSE IF item[o][m].state \in {"failed", "unlink_failed"}
                                     THEN "unlink_retry" ELSE item[o][m].state
          BY <3>2, <4>1, RetryDoes
        <5> QED
          BY <5>1 DEF InUnlink, In
      <4>2. CASE p # o
        <5>1. \A q \in Op \ {p} : item'[q] = item[q]
          BY <3>2, <1>0 DEF Retry
        <5> QED
          BY <2>2, <4>2, <5>1 DEF InUnlink, In
      <4> QED
        BY <4>1, <4>2
    <3>3. (\E p \in Op : Retry(p)) \/ item' = item
      BY <1>2, LateDoes DEF Elsewhere, People, Enqueue, Restore, Trash, DeleteChat, Import, Adopt, LeasesLapse, vars, db
    <3> QED
      BY <3>1, <3>2, <3>3
  <2>4. CASE c \in disk
    <3>1. LiveContent(c)
      BY <2>1, <2>2, <2>3, <2>4 DEF RemovedOrLive
    <3> QED
      BY <1>2, <3>1, ElsewhereLives
  <2>5. CASE c \notin disk
    <3>1. ~UNCHANGED disk
      BY <2>5
    <3>2. PICK n \in Media, d \in Content : Import(n, d)
      BY <1>2, <3>1, LateDoes DEF Elsewhere, People, Enqueue, Restore, Trash, DeleteChat, Retry, Adopt, LeasesLapse, vars, db
    <3>3. disk' = disk \cup {d} /\ media'[n].content = d /\ media'[n].owners = {Other}
      BY <3>2, ArrivalDoes
    <3>4. c = d /\ d # None
      BY <2>5, <3>3, DeleteAssumption
    <3> QED
      BY <3>3, <3>4 DEF LiveContent
  <2> QED
    BY <2>4, <2>5
<1> QED
  BY <1>1, <1>2, Enters

\* The bytes on disk: what a step adds, and what it may not take away.
LEMMA DiskStep ==
    ASSUME TypeOK, [Next]_vars, ~\E m \in Media, c \in Content : Import(m, c)
    PROVE  disk' = disk \/ (Unlink /\ disk' \subseteq disk)
<1>1. CASE People
  BY <1>1 DEF People, Enqueue, Restore, Trash, DeleteChat, Retry, Adopt
<1>2. BeginPass \/ StageIdentities \/ PrepareReferences \/ RecoverLeases \/ ClaimBatch \/ TakeUpOldest => disk' = disk
  BY DEF BeginPass, StageIdentities, PrepareReferences, RecoverLeases, ClaimBatch, TakeUpOldest
<1>3. Finalize \/ Claim \/ Conclude \/ DeleteRows \/ MarkFailed \/ Settle \/ SettleBatch \/ Checkpoint => disk' = disk
  BY DEF Finalize, Claim, Conclude, DeleteRows, MarkFailed, Settle, SettleBatch, Checkpoint
<1>4. Crash \/ LeasesLapse \/ UNCHANGED vars => disk' = disk
  BY DEF Crash, LeasesLapse, vars
<1>5. Unlink => disk' \subseteq disk
  BY DEF Unlink
<1> QED
  BY <1>1, <1>2, <1>3, <1>4, <1>5, LateDoes DEF Next, Works

LEMMA AccountedStep ==
    /\ TypeOK /\ Control /\ BarredOnce /\ NoKeyYet /\ OwnedOrBarred /\ LivePoints /\ DeletingIsMeant
    /\ Accounted /\ RemovedOrLive /\ [Next]_vars
    => Accounted'
<1> SUFFICES ASSUME TypeOK, Control, BarredOnce, NoKeyYet, OwnedOrBarred, LivePoints, DeletingIsMeant,
                    Accounted, RemovedOrLive, [Next]_vars, NEW c \in disk'
             PROVE  Keyed(c)' \/ OthersHave(c)' \/ \E m \in Media : PointsAt(m, c)'
  BY DEF Accounted
<1>0. c \in Content /\ c # None
  <2>1. disk' \subseteq Content
    BY TypeStep, TypesAre DEF Types
  <2> QED
    BY <2>1, DeleteAssumption
<1>9. OthersHave(c) => OthersHave(c)'
  BY <1>0, StrangerStep DEF OthersHave, Rows
<1>1. ASSUME NEW n \in Media, NEW d \in Content, Import(n, d)
      PROVE  Keyed(c)' \/ OthersHave(c)' \/ \E m \in Media : PointsAt(m, c)'
  <2>1. /\ media[n].content = None /\ media'[n].content = d /\ media'[n].sid = object'[d].sid
        /\ object'[d].state = "available" /\ disk' = disk \cup {d} /\ item' = item
    BY <1>1, ArrivalDoes
  <2>2. CASE c = d
    BY <2>1, <2>2 DEF PointsAt
  <2>3. CASE c # d
    <3>1. \A e \in Content \ {d} : object'[e] = object[e]
      BY <1>1, ArrivalDoes
    <3>2. \A m \in Media \ {n} : media'[m] = media[m]
      BY <1>1, ArrivalDoes
    <3>3. Keyed(c) \/ OthersHave(c) \/ \E m \in Media : PointsAt(m, c)
      BY <2>1, <2>3 DEF Accounted
    <3>4. Keyed(c) => Keyed(c)'
      BY <2>1 DEF Keyed
    <3>5. ASSUME NEW m \in Media, PointsAt(m, c) PROVE PointsAt(m, c)'
      <4>1. m # n
        BY <3>5, <2>1, <1>0 DEF PointsAt
      <4> QED
        BY <3>5, <4>1, <3>1, <3>2, <2>3, <1>0 DEF PointsAt
    <3> QED
      BY <1>9, <3>3, <3>4, <3>5
  <2> QED
    BY <2>2, <2>3
<1>2. CASE ~\E m \in Media, d \in Content : Import(m, d)
  <2>1. c \in disk
    BY <1>2, DiskStep
  <2>2. ASSUME Keyed(c) PROVE Keyed(c)' \/ OthersHave(c)' \/ \E m \in Media : PointsAt(m, c)'
    <3>1. PICK o \in Op, m \in Media : item[o][m].key /\ item[o][m].content = c
      BY <2>2 DEF Keyed
    <3>2. CASE KeyKept(o, m)
      BY <3>1, <3>2 DEF KeyKept, Keyed
    <3>3. CASE Done(o, m)
      <4>1. worker.pc \in {"settle", "settle batch"} /\ m \in InUnlink(o) /\ o \in worker.ops \ worker.broken
        BY <3>3 DEF Done, Settle, SettleBatch, InUnlink, In
      <4>2. LiveContent(c)
        BY <2>1, <3>1, <4>1 DEF RemovedOrLive
      <4>3. ~BeginPass /\ ~StageIdentities
        BY <4>1 DEF BeginPass, StageIdentities
      <4>4. PICK n \in Media : media'[n].content = c /\ media'[n].owners # {}
        BY <4>2, <4>3, LiveKept DEF LiveContent
      <4>5. LivePoints'
        BY LiveStep
      <4>6. CASE media'[n].pending
        <5>1. media'[n].owners \subseteq {Other}
          BY <4>6, HandStep DEF BarredOnce, BarredAt
        <5> QED
          BY <4>4, <5>1 DEF OthersHave
      <4>7. CASE ~media'[n].pending
        BY <4>4, <4>5, <4>7, <1>0 DEF LivePoints, Rows
      <4> QED
        BY <4>6, <4>7
    <3> QED
      BY <3>1, <3>2, <3>3, KeyStep DEF KeyWell
  <2>3. ASSUME NEW n \in Media, PointsAt(n, c), RowStays(n)
        PROVE  Keyed(c)' \/ OthersHave(c)' \/ \E m \in Media : PointsAt(m, c)'
    <3>1. ObjectWell(c)
      BY <1>0, <1>2, ObjectStep
    <3>2. CASE object'[c].state # "none"
      BY <2>3, <3>1, <3>2 DEF ObjectWell, PointsAt, RowStays
    <3>3. CASE object'[c].state = "none"
      <4>1. object[c].state = "deleting"
        BY <2>3, <3>1, <3>3 DEF ObjectWell, PointsAt
      <4>2. Keyed(c)
        BY <1>0, <4>1 DEF DeletingIsMeant, Keyed
      <4> QED
        BY <2>2, <4>2
    <3> QED
      BY <3>2, <3>3
  <2>4. ASSUME NEW m \in Media, PointsAt(m, c)
        PROVE  Keyed(c)' \/ OthersHave(c)' \/ \E n \in Media : PointsAt(n, c)'
    <3>1. RowWell(m)
      BY <1>2, RowKept
    <3>2. \/ RowStays(m) \/ Keyed(c)'
          \/ \E n \in Media : PointsAt(n, c) /\ RowStays(n)
      BY <1>0, <2>4, <3>1 DEF RowWell
    <3> QED
      BY <2>3, <2>4, <3>2
  <2> QED
    BY <1>9, <2>1, <2>2, <2>4 DEF Accounted
<1> QED
  BY <1>1, <1>2

LEMMA BytesStep == TypeOK /\ Control /\ BarredOnce /\ Bytes /\ [Next]_vars => Bytes'
<1> SUFFICES ASSUME TypeOK, Control, BarredOnce, Bytes, [Next]_vars PROVE Bytes'
  OBVIOUS
<1>1. NoKeyYet' /\ OwnedOrBarred'
  BY NoKeyStep, RowStep DEF Bytes
<1>2. LivePoints' /\ DeletingIsMeant'
  BY LiveStep, DeletingStep DEF Bytes
<1>3. KeptIsLive' /\ RemovedOrLive' /\ Accounted'
  BY KeptStep, RemovedStep, AccountedStep DEF Bytes
<1> QED
  BY <1>1, <1>2, <1>3 DEF Bytes

LEMMA InitBytes == Init => Bytes
<1> SUFFICES ASSUME Init PROVE Bytes
  OBVIOUS
<1>1. /\ item = [o \in Op |-> [m \in Media |-> NoItem]] /\ worker = Idle
      /\ disk = {media[m].content : m \in Rows}
      /\ object = [c \in Content |-> [state |-> IF c \in disk THEN "available" ELSE "none", sid |-> 1]]
  BY DEF Init
<1>2. ASSUME NEW m \in Rows
      PROVE  /\ m \in Media /\ media[m].content \in Content /\ media[m].sid = 1
             /\ media[m].owners # {} /\ PointsAt(m, media[m].content)
  <2>1. m \in Media /\ media[m].content # None
    BY DEF Rows
  <2>2. media[m] = IF \E o \in Op : m \in scenario.holds[o] THEN
               [content |-> scenario.content[m], sid |-> 1, pending |-> FALSE,
                owners |-> {o \in Op : m \in scenario.holds[o]}]
             ELSE NoRow
    BY <2>1 DEF Init
  <2>3. \E o \in Op : m \in scenario.holds[o]
    BY <2>1, <2>2 DEF NoRow
  <2>4. media[m].content \in Content /\ media[m].sid = 1 /\ media[m].owners # {}
    <3>1. scenario.content[m] \in Content
      BY <2>1, DeleteAssumption DEF Init
    <3> QED
      BY <2>2, <2>3, <3>1
  <2>5. object[media[m].content].sid = 1 /\ object[media[m].content].state = "available"
    BY <1>1, <2>4
  <2> QED
    BY <2>1, <2>4, <2>5 DEF PointsAt
<1>3. NoKeyYet
  BY <1>1, NoKeyIn DEF NoKeyYet
<1>4. OwnedOrBarred /\ LivePoints
  BY <1>2 DEF OwnedOrBarred, LivePoints
<1>5. DeletingIsMeant
  BY <1>1 DEF DeletingIsMeant
<1>6. Accounted
  BY <1>1, <1>2 DEF Accounted
<1>7. KeptIsLive /\ RemovedOrLive
  BY <1>1 DEF KeptIsLive, RemovedOrLive, Idle
<1> QED
  BY <1>3, <1>4, <1>5, <1>6, <1>7 DEF Bytes

\* No bytes are forgotten: what is still on disk belongs to a row, or an item
\* remembers to remove it, across crashes, failures and retries.
THEOREM BytesAreRemembered == Spec => []BytesAccountedFor
<1>1. Init => TypeOK /\ Control /\ BarredOnce /\ Bytes
  BY InitTypes, InitControl, InitBarred, InitBytes
<1>2. TypeOK /\ Control /\ BarredOnce /\ Bytes /\ [Next]_vars => (TypeOK /\ Control /\ BarredOnce /\ Bytes)'
  BY TypeStep, ControlStep, HandStep, BytesStep
<1>3. TypeOK /\ Bytes => BytesAccountedFor
  <2> SUFFICES ASSUME TypeOK, Bytes, NEW c \in disk
      PROVE  \/ \E m \in Rows : media[m].content = c
             \/ \E o \in Op, m \in Media : item[o][m].key /\ item[o][m].content = c
    BY DEF BytesAccountedFor
  <2>1. c # None
    BY TypesAre, DeleteAssumption DEF Types
  <2> QED
    BY <2>1 DEF Bytes, Accounted, Keyed, OthersHave, PointsAt, Rows
<1> QED
  BY <1>1, <1>2, <1>3, PTL DEF Spec

-----------------------------------------------------------------------------
(* The ends of operations.                                                  *)

\* Every row is in the hands of one operation, or of none, while it is barred,
\* and nobody owns it but others who had looked at it before it was barred: in
\* every circumstance.
THEOREM RowsAreBarredOnce == Spec => []BarredOnce
<1>1. Init => TypeOK /\ Control /\ BarredOnce
  BY InitTypes, InitControl, InitBarred
<1>2. TypeOK /\ Control /\ BarredOnce /\ [Next]_vars => (TypeOK /\ Control /\ BarredOnce)'
  BY TypeStep, ControlStep, HandStep
<1> QED
  BY <1>1, <1>2, PTL DEF Spec

\* Items that failed are counted.
LEMMA FailedIsCounted ==
    ASSUME TypeOK, Adding, NEW o \in Op, NEW m \in Media, item[o][m].state = "failed"
    PROVE  op[o].failed > 0
<1>1. m \in Items(o) /\ m \in Broken(o) /\ Items(o) \in SUBSET Media /\ Broken(o) \in SUBSET Media
  BY DEF Items, Broken, In, ItemState
<1>2. /\ Cardinality(Items(o)) \in Nat /\ Cardinality(Items(o)) # 0
      /\ Cardinality(Broken(o)) \in Nat /\ Cardinality(Broken(o)) # 0
  <2>1. IsFiniteSet(Items(o)) /\ IsFiniteSet(Broken(o)) /\ Items(o) # {} /\ Broken(o) # {}
    BY <1>1, Counting
  <2> QED
    BY <2>1, FS_EmptySet, FS_CardinalityType
<1>3. op[o].deleted \in Nat /\ op[o].total \in Nat /\ op[o].failed \in Nat
  BY TypesAre DEF Types, OpRow
<1>4. op[o].total > 0
  BY <1>2, <1>3 DEF Adding, Adds
<1> QED
  BY <1>2, <1>3, <1>4 DEF Adding, Adds

\* A step that takes nothing in hand, and leaves no claims.
LEMMA OrderlyEnds ==
    ASSUME Orderly, scenario' = scenario, TakenUp',
           \A o \in Op, m \in Media : Holds(o, m)' => Holds(o, m),
           \A o \in Op : op'[o].status \in {"checkpointing", "completed", "superseded"} =>
              \A m \in Media : /\ ~Waits(o, m)'
                               /\ op'[o].status # "checkpointing" => ~Holds(o, m)',
           "crash" \notin scenario.events =>
              /\ \A o \in Op, m \in Media :
                    /\ item'[o][m].state = "pending" => item[o][m].state = "pending"
                    /\ item'[o][m].state # "claimed"
              /\ \A o \in Op : op'[o].phase = "unlinking_artifacts" => op[o].phase = "unlinking_artifacts",
           worker'.pc \notin {"scrub", "mark"}
    PROVE  Orderly'
<1>1. Calm'
  BY DEF Orderly, Calm
<1>2. Reported'
  BY DEF Reported
<1>3. NothingFails'
  BY FinitePools DEF Orderly, NothingFails
<1>4. NothingIsLeft'
  BY DEF Orderly, NothingIsLeft
<1> QED
  BY <1>1, <1>2, <1>3, <1>4 DEF Orderly

\* Between two transactions of a pass that has nothing claimed.
LEMMA NoClaims ==
    ASSUME Orderly, worker.pc \notin {"scrub", "mark"}, "crash" \notin scenario.events
    PROVE  \A o \in Op, m \in Media : item[o][m].state # "claimed"
  BY DEF Orderly, NothingIsLeft

\* Operations that do not change have nothing new to report.
LEMMA ReportsKept ==
    ASSUME Orderly, NEW o \in Op, op'[o].status = op[o].status,
           op[o].status \in {"checkpointing", "completed", "superseded"} =>
              \A m \in Media : (Holds(o, m)' => Holds(o, m)) /\ (Waits(o, m)' => Waits(o, m))
    PROVE  op'[o].status \in {"checkpointing", "completed", "superseded"} =>
              \A m \in Media : /\ ~Waits(o, m)'
                               /\ op'[o].status # "checkpointing" => ~Holds(o, m)'
  BY DEF Orderly, Reported

LEMMA OrderlySame ==
    ASSUME Orderly, UNCHANGED <<scenario, op, item, worker>>
    PROVE  Orderly'
<1>1. UNCHANGED <<Calm, Reported, TakenUp, NothingFails, NothingIsLeft>>
  BY DEF Calm, Reported, Holds, Waits, TakenUp, NothingFails, NothingIsLeft
<1> QED
  BY <1>1 DEF Orderly

LEMMA OrderlyPeople == ASSUME TypeOK, Control, Orderly, People PROVE Orderly'
<1>0. op \in [Op -> OpRow] /\ item \in [Op -> [Media -> ItemRow]] /\ worker \in WorkerRow
  BY TypesAre DEF Types
<1>1. ASSUME NEW chosen \in SUBSET Asset, Enqueue(chosen) PROVE Orderly'
  <2> DEFINE active == {a \in Asset : op[a].status \in ActiveStatus}
             fresh == chosen \ active
  <2>1. UNCHANGED <<scenario, item, worker>>
    BY <1>1 DEF Enqueue
  <2>2. op' = [o \in Op |->
             IF o \in fresh THEN
                 [NoOp EXCEPT !.status = "queued", !.phase = "identity_queued",
                              !.id = Newest + Cardinality({a \in fresh : a <= o})]
             ELSE IF active = {} /\ o \in Asset /\ op[o].status = "completed"
             THEN [op[o] EXCEPT !.status = "superseded"] ELSE op[o]]
    BY <1>1 DEF Enqueue
  <2>3. ASSUME NEW o \in Op
        PROVE  \/ op'[o] = op[o]
               \/ /\ op[o].status # "running"
                  /\ op'[o].status = "queued" /\ op'[o].phase = "identity_queued"
               \/ /\ op[o].status = "completed"
                  /\ op'[o].status = "superseded" /\ op'[o].phase = op[o].phase
    <3>1. CASE o \in fresh
      <4>1. op'[o].status = "queued" /\ op'[o].phase = "identity_queued"
        BY <2>2, <3>1 DEF NoOp
      <4>2. op[o].status # "running"
        BY <3>1 DEF ActiveStatus
      <4> QED
        BY <4>1, <4>2
    <3>2. CASE o \notin fresh
      <4>1. op'[o] = IF active = {} /\ o \in Asset /\ op[o].status = "completed"
                     THEN [op[o] EXCEPT !.status = "superseded"] ELSE op[o]
        BY <2>2, <3>2
      <4>2. op[o] \in OpRow
        BY <1>0
      <4> QED
        BY <4>1, <4>2 DEF OpRow
    <3> QED
      BY <3>1, <3>2
  <2> HIDE DEF active, fresh
  <2>4. Calm' /\ NothingFails' /\ NothingIsLeft'
    BY <2>1, <2>3 DEF Orderly, Calm, NothingFails, NothingIsLeft, Holds
  <2>5. Reported'
    BY <2>1, <2>3 DEF Orderly, Reported, Holds, Waits
  <2>6. TakenUp'
    BY <2>1, <2>3, <1>0 DEF Orderly, TakenUp, WorkerRow
  <2> QED
    BY <2>4, <2>5, <2>6 DEF Orderly
<1>2. ASSUME NEW o \in Op, Retry(o) PROVE Orderly'
  <2>1. /\ \A p \in Op \ {o} : item'[p] = item[p] /\ op'[p] = op[p]
        /\ op[o].status = "failed" /\ op'[o].status = "queued"
        /\ op'[o].phase \in {"identity_queued", "other"} /\ UNCHANGED <<worker, scenario>>
    BY <1>2, RetryDoes
  <2>2. \A m \in Media : item'[o][m].state = IF item[o][m].state = "failed" /\ m \in Rows THEN "pending"
                                             ELSE IF item[o][m].state \in {"failed", "unlink_failed"}
                                             THEN "unlink_retry" ELSE item[o][m].state
    BY <1>2, RetryDoes
  <2>3. Calm' /\ Reported'
    BY <2>1 DEF Orderly, Calm, Reported, Holds, Waits
  <2>4. TakenUp'
    BY <2>1, <1>0 DEF Orderly, TakenUp, WorkerRow
  <2>5. \A p \in Op, m \in Media : /\ Holds(p, m)' => Holds(p, m)
                                   /\ item'[p][m].state = "claimed" => item[p][m].state = "claimed"
    BY <2>1, <2>2 DEF Holds
  <2>6. NothingFails'
    BY <2>1, <2>5, FinitePools DEF Orderly, NothingFails
  <2>7. worker.pc \in {"scrub", "mark"} => o \notin worker.ops
    BY <2>1 DEF Orderly, TakenUp
  <2>8. NothingIsLeft'
    <3> SUFFICES ASSUME "crash" \notin scenario.events PROVE NothingIsLeft'
      BY <2>1 DEF NothingIsLeft
    <3>1. \A p \in Op, m \in Media : item'[p][m].state = "claimed" =>
             worker'.pc \in {"scrub", "mark"} /\ p \in worker'.ops /\ m \in worker'.work
      BY <2>1, <2>5 DEF Orderly, NothingIsLeft
    <3>2. worker'.pc \in {"scrub", "mark"} =>
             \A p \in worker'.ops, m \in Media : item'[p][m].state # "pending"
      BY <2>1, <2>7, <1>0 DEF Orderly, NothingIsLeft, WorkerRow
    <3>3. \A p \in Op : op'[p].phase = "unlinking_artifacts" => \A m \in Media :
             item'[p][m].state # "pending" /\ (item'[p][m].state = "claimed" => worker'.pc = "mark")
      BY <2>1 DEF Orderly, NothingIsLeft
    <3> QED
      BY <3>1, <3>2, <3>3 DEF NothingIsLeft
  <2> QED
    BY <2>3, <2>4, <2>6, <2>8 DEF Orderly
<1>3. ASSUME NEW m \in Media, (\E c \in Content : Import(m, c)) \/ Adopt(m) PROVE Orderly'
  BY <1>3, OrderlySame DEF Import, Adopt
<1>4. ASSUME DeleteChat \/ \E a \in Asset : Restore(a) \/ Trash(a) PROVE Orderly'
  BY <1>4, OrderlySame DEF DeleteChat, Restore, Trash
<1> QED
  BY <1>1, <1>2, <1>3, <1>4 DEF People

LEMMA OrderlyStage ==
    ASSUME TypeOK, Control, Orderly, BeginPass \/ StageIdentities \/ PrepareReferences
    PROVE  Orderly'
<1>0. op \in [Op -> OpRow] /\ item \in [Op -> [Media -> ItemRow]] /\ worker \in WorkerRow
  BY TypesAre DEF Types
<1>1. CASE BeginPass
  <2>1. worker.pc = "idle" /\ worker'.pc = "stage"
    BY <1>1, <1>0 DEF BeginPass, Goes, WorkerRow
  <2>2. TakenUp' /\ scenario' = scenario
    BY <1>1, <2>1 DEF BeginPass, TakenUp
  <2>3. CASE chat # "deleted"
    <3>1. UNCHANGED <<op, item>>
      BY <1>1, <2>3 DEF BeginPass
    <3>2. \A o \in Op : op'[o].status \in {"checkpointing", "completed", "superseded"} =>
              \A m \in Media : /\ ~Waits(o, m)'
                               /\ op'[o].status # "checkpointing" => ~Holds(o, m)'
      BY <3>1, ReportsKept DEF Holds, Waits
    <3> QED
      BY <2>1, <2>2, <3>1, <3>2, NoClaims, OrderlyEnds DEF Holds
  <2>4. CASE chat = "deleted"
    <3>1. PICK mine \in SUBSET Media :
            /\ item' = [item EXCEPT ![Chat] = Pending(mine)]
            /\ op' = [op EXCEPT ![Chat] =
                   [NoOp EXCEPT !.status = "queued", !.id = Newest + 1, !.total = Cardinality(mine)]]
      BY <1>1, <2>4, PassDoes
    <3>2. \A o \in Op \ {Chat} : item'[o] = item[o] /\ op'[o] = op[o]
      BY <3>1, <1>0
    <3>3. op'[Chat].status = "queued" /\ op'[Chat].phase = "other"
      BY <3>1, <1>0, FinitePools DEF NoOp
    <3>4. \A m \in Media : item'[Chat][m].state # "claimed"
      BY <3>1, <1>0, FinitePools DEF Pending, NoItem
    <3>5. Calm' /\ Reported'
      BY <2>2, <3>2, <3>3 DEF Orderly, Calm, Reported, Holds, Waits
    <3>6. NothingFails'
      BY <2>2, <3>2, FinitePools DEF Orderly, NothingFails, Holds
    <3>7. NothingIsLeft'
      BY <2>1, <2>2, <3>2, <3>3, <3>4, NoClaims DEF Orderly, NothingIsLeft
    <3> QED
      BY <2>2, <3>5, <3>6, <3>7 DEF Orderly
  <2> QED
    BY <2>3, <2>4
<1>2. CASE StageIdentities
  <2>0. worker.pc \in {"stage", "stage again"}
    BY <1>2 DEF StageIdentities
  <2>1. CASE UNCHANGED db /\ EndsPass /\ UNCHANGED <<scenario, disk, lapsed, spent>>
    <3>1. worker'.pc = "idle" /\ UNCHANGED <<op, item, scenario>>
      BY <2>1 DEF db, EndsPass, Idle
    <3>2. TakenUp'
      BY <3>1 DEF TakenUp
    <3>3. \A o \in Op : op'[o].status \in {"checkpointing", "completed", "superseded"} =>
              \A m \in Media : /\ ~Waits(o, m)'
                               /\ op'[o].status # "checkpointing" => ~Holds(o, m)'
      BY <3>1, ReportsKept DEF Holds, Waits
    <3> QED
      BY <2>0, <3>1, <3>2, <3>3, NoClaims, OrderlyEnds DEF Holds
  <2>2. ASSUME NEW valid \in SUBSET Asset, NEW scrubbed \in BOOLEAN, StagedSlice(valid, scrubbed)
        PROVE  Orderly'
    <3>1. worker'.pc \in {"prepare", "recover"} /\ scenario' = scenario
          /\ (~scrubbed => "scrub" \in scenario.events)
      BY <2>2 DEF StagedSlice, Spend, May
    <3>2. \A o \in Op, m \in Media :
             \/ o \notin valid /\ item'[o][m] = item[o][m]
             \/ o \in valid /\ item'[o][m].state \in {"none", "media_deleted"}
             \/ o \in valid /\ item'[o][m].state = "pending" /\ ~scrubbed /\ Mine(o, valid) # {}
      <4> SUFFICES ASSUME NEW o \in Op, NEW m \in Media
                   PROVE  \/ o \notin valid /\ item'[o][m] = item[o][m]
                          \/ o \in valid /\ item'[o][m].state \in {"none", "media_deleted"}
                          \/ o \in valid /\ item'[o][m].state = "pending" /\ ~scrubbed /\ Mine(o, valid) # {}
        OBVIOUS
      <4>0. \A p \in Op \ valid : item'[p][m] = item[p][m]
        BY <2>2, SliceItems
      <4>1. CASE o \notin valid
        BY <4>0, <4>1
      <4>2. CASE o \in valid /\ m \notin Mine(o, valid)
        <5>1. item'[o][m] = NoItem
          BY <2>2, <4>2, SliceItems
        <5> QED
          BY <4>2, <5>1, NoKeyIn
      <4>3. CASE o \in valid /\ m \in Mine(o, valid)
        <5>1. ASSUME scrubbed PROVE item'[o][m].state = "media_deleted"
          <6>1. item'[o][m] = Staged(Given(valid), m)
            BY <2>2, <4>3, <5>1, SliceItems
          <6> QED
            BY <6>1 DEF Staged
        <5>2. ~scrubbed => item'[o][m].state = "pending"
          BY <2>2, <4>3, SliceItems
        <5> QED
          BY <4>3, <5>1, <5>2
      <4> QED
        BY <4>1, <4>2, <4>3
    <3>3. ASSUME NEW o \in Op
          PROVE  \/ o \notin valid /\ op'[o] = op[o]
                 \/ o \notin valid /\ op'[o].status = "failed" /\ op'[o].phase = "other"
                 \/ /\ o \in valid /\ Mine(o, valid) = {}
                    /\ op'[o].status = "checkpointing" /\ op'[o].phase = "other"
                 \/ /\ o \in valid /\ scrubbed /\ op'[o].status = "running"
                 \/ /\ o \in valid /\ ~scrubbed /\ op'[o].status = "queued" /\ op'[o].phase = "other"
      <4>0. op[o] \in OpRow
        BY <1>0
      <4>1. \/ o \notin valid /\ op'[o] = op[o]
            \/ /\ o \in Queued("identity_refs_scrubbed") \ valid
               /\ asset[o] \notin {"trashed", "deleting"} /\ op'[o] = Rejected(o)
            \/ /\ o \in valid /\ Mine(o, valid) = {}
               /\ op'[o] = [op[o] EXCEPT !.status = "checkpointing", !.phase = "other"]
            \/ /\ o \in valid /\ Mine(o, valid) # {}
               /\ op'[o] = [op[o] EXCEPT !.total = Cardinality(Mine(o, valid)),
                                         !.status = IF scrubbed THEN "running" ELSE "queued",
                                         !.phase = IF scrubbed THEN "unlinking_artifacts" ELSE "other"]
        BY <2>2 DEF StagedSlice
      <4>2. ASSUME o \in Queued("identity_refs_scrubbed"), op'[o] = Rejected(o)
            PROVE  op'[o].status = "failed" /\ op'[o].phase = "other"
        <5>1. asset[o] # "gone"
          BY <4>2 DEF Queued, IdentityPhase, Control, Untouched
        <5> QED
          BY <4>0, <4>2, <5>1 DEF Rejected, OpRow
      <4>3. ASSUME o \in valid, op'[o] = [op[o] EXCEPT !.total = Cardinality(Mine(o, valid)),
                                         !.status = IF scrubbed THEN "running" ELSE "queued",
                                         !.phase = IF scrubbed THEN "unlinking_artifacts" ELSE "other"]
            PROVE  \/ scrubbed /\ op'[o].status = "running"
                   \/ ~scrubbed /\ op'[o].status = "queued" /\ op'[o].phase = "other"
        BY <4>0, <4>3 DEF OpRow
      <4> QED
        BY <4>0, <4>1, <4>2, <4>3 DEF OpRow
    <3>4. Calm' /\ TakenUp'
      BY <3>1 DEF Orderly, Calm, TakenUp
    <3>5. Reported'
      <4> SUFFICES ASSUME NEW o \in Op, NEW m \in Media,
                          op'[o].status \in {"checkpointing", "completed", "superseded"}
                   PROVE  /\ ~Waits(o, m)'
                          /\ op'[o].status \in {"completed", "superseded"} => ~Holds(o, m)'
        BY DEF Reported
      <4>1. CASE o \notin valid
        BY <3>2, <3>3, <4>1 DEF Orderly, Reported, Holds, Waits
      <4>2. CASE o \in valid
        <5>1. Mine(o, valid) = {}
          BY <3>3, <4>2
        <5> QED
          BY <3>2, <4>2, <5>1 DEF Holds, Waits
      <4> QED
        BY <4>1, <4>2
    <3>6. NothingFails'
      BY <3>1, <3>2, FinitePools DEF Orderly, NothingFails, Holds
    <3>7. NothingIsLeft'
      <4> SUFFICES ASSUME "crash" \notin scenario.events PROVE NothingIsLeft'
        BY <3>1 DEF NothingIsLeft
      <4>1. \A o \in Op, m \in Media : item[o][m].state # "claimed"
        BY <2>0, NoClaims
      <4>2. \A o \in Op, m \in Media : item'[o][m].state # "claimed"
        BY <3>2, <4>1
      <4>3. ASSUME NEW o \in Op, op'[o].phase = "unlinking_artifacts", NEW m \in Media
            PROVE  item'[o][m].state # "pending"
        <5>1. CASE o \notin valid
          BY <3>2, <3>3, <4>3, <5>1 DEF Orderly, NothingIsLeft
        <5>2. CASE o \in valid
          BY <3>2, <3>3, <4>3, <5>2
        <5> QED
          BY <5>1, <5>2
      <4> QED
        BY <3>1, <4>2, <4>3 DEF NothingIsLeft
    <3> QED
      BY <3>4, <3>5, <3>6, <3>7 DEF Orderly
  <2> QED
    BY <1>2, <2>1, <2>2, StageDoes
<1>3. CASE PrepareReferences
  <2>1. worker.pc = "prepare" /\ worker'.pc = "stage again" /\ UNCHANGED <<scenario, item>>
    BY <1>3, <1>0 DEF PrepareReferences, Goes, WorkerRow
  <2>2. ASSUME NEW o \in Op
        PROVE  \/ op'[o].status = op[o].status /\ op'[o].phase \in {op[o].phase, "identity_refs_scrubbed"}
               \/ op'[o].status = "failed" /\ op'[o].phase = "other"
    <3>0. op[o] \in OpRow
      BY <1>0
    <3>1. \/ op'[o] = op[o]
          \/ op'[o] = [op[o] EXCEPT !.phase = "identity_refs_scrubbed"]
          \/ o \in Queued("identity_queued") /\ op'[o] = Rejected(o)
      BY <1>3 DEF PrepareReferences
    <3>2. o \in Queued("identity_queued") => asset[o] # "gone"
      BY DEF Queued, IdentityPhase, Control, Untouched
    <3> QED
      BY <3>0, <3>1, <3>2 DEF Rejected, OpRow
  <2>3. TakenUp'
    BY <2>1 DEF TakenUp
  <2>4. \A o \in Op : op'[o].status \in {"checkpointing", "completed", "superseded"} =>
            \A m \in Media : /\ ~Waits(o, m)'
                             /\ op'[o].status # "checkpointing" => ~Holds(o, m)'
    BY <2>1, <2>2, ReportsKept DEF Holds, Waits
  <2>5. \A o \in Op : op'[o].phase = "unlinking_artifacts" => op[o].phase = "unlinking_artifacts"
    BY <2>2
  <2> QED
    BY <2>1, <2>3, <2>4, <2>5, NoClaims, OrderlyEnds DEF Holds
<1> QED
  BY <1>1, <1>2, <1>3

LEMMA OrderlyClaim ==
    ASSUME TypeOK, Control, Adding, Orderly,
           RecoverLeases \/ ClaimBatch \/ TakeUpOldest \/ Finalize \/ Claim \/ Conclude
    PROVE  Orderly'
<1>0. op \in [Op -> OpRow] /\ item \in [Op -> [Media -> ItemRow]] /\ worker \in WorkerRow
  BY TypesAre DEF Types
<1>1. ASSUME \A o \in Op : op'[o].status = op[o].status,
             \A o \in Op, m \in Media : (Holds(o, m)' => Holds(o, m)) /\ (Waits(o, m)' => Waits(o, m))
      PROVE  \A o \in Op : op'[o].status \in {"checkpointing", "completed", "superseded"} =>
                \A m \in Media : /\ ~Waits(o, m)'
                                 /\ op'[o].status # "checkpointing" => ~Holds(o, m)'
  BY <1>1, ReportsKept
<1>2. RecoverLeases \/ ClaimBatch \/ Finalize =>
         \A o \in Op, m \in Media : (Holds(o, m)' => Holds(o, m)) /\ (Waits(o, m)' => Waits(o, m))
  BY ItemsMove DEF Control, Moved, Moves, Holds, Waits
<1>3. RecoverLeases \/ ClaimBatch \/ Finalize =>
         /\ UNCHANGED <<scenario, op>> /\ worker.pc \notin {"scrub", "mark"}
  BY DEF RecoverLeases, ClaimBatch, Finalize
<1>4. ASSUME RecoverLeases \/ ClaimBatch \/ Finalize, TakenUp', worker'.pc \notin {"scrub", "mark"}
      PROVE  Orderly'
  <2>1. "crash" \notin scenario.events =>
            \A o \in Op, m \in Media :
               /\ item'[o][m].state = "pending" => item[o][m].state = "pending"
               /\ item'[o][m].state # "claimed"
    <3> SUFFICES ASSUME "crash" \notin scenario.events, NEW o \in Op, NEW m \in Media
                 PROVE  /\ item'[o][m].state = "pending" => item[o][m].state = "pending"
                        /\ item'[o][m].state # "claimed"
      OBVIOUS
    <3>1. item[o][m].state # "claimed"
      BY <1>3, <1>4, NoClaims
    <3>2. item'[o][m].state = "claimed" => item[o][m].state = "claimed"
      <4>0. item[o][m] \in ItemRow
        BY <1>0
      <4>1. CASE RecoverLeases
        BY <4>0, <4>1, <1>0 DEF RecoverLeases, Recovered, ItemRow
      <4>2. CASE ClaimBatch
        BY <4>0, <4>2 DEF ClaimBatch, ItemRow
      <4>3. CASE Finalize
        <5>1. PICK p \in worker.ops :
                item' = [item EXCEPT ![p] = [n \in Media |-> [item[p][n] EXCEPT !.state =
                   CASE @ = "media_deleted" -> "unlinking"
                     [] @ = "unlink_retry" -> "unlinking_retry"
                     [] OTHER -> @]]]
          BY <4>3 DEF Finalize
        <5>2. \/ item'[o][m] = item[o][m]
              \/ item'[o][m] = [item[o][m] EXCEPT !.state =
                     CASE @ = "media_deleted" -> "unlinking"
                       [] @ = "unlink_retry" -> "unlinking_retry"
                       [] OTHER -> @]
          BY <5>1, <1>0 DEF WorkerRow
        <5> QED
          BY <4>0, <5>2 DEF ItemRow
      <4> QED
        BY <1>4, <4>1, <4>2, <4>3
    <3>3. Moves(item[o][m].state, item'[o][m].state)
      BY <1>4, ItemsMove DEF Control, Moved
    <3> QED
      BY <3>1, <3>2, <3>3 DEF Moves
  <2>2. \A o \in Op : op'[o].status = op[o].status /\ op'[o].phase = op[o].phase
    BY <1>3, <1>4
  <2>3. \A o \in Op : op'[o].status \in {"checkpointing", "completed", "superseded"} =>
            \A m \in Media : /\ ~Waits(o, m)'
                             /\ op'[o].status # "checkpointing" => ~Holds(o, m)'
    BY <2>2, <1>1, <1>2, <1>4
  <2> QED
    BY <1>2, <1>3, <1>4, <2>1, <2>2, <2>3, OrderlyEnds
<1>5. CASE RecoverLeases
  <2>1. worker'.pc = "batch"
    BY <1>5, <1>0 DEF RecoverLeases, Goes, WorkerRow
  <2> QED
    BY <1>4, <1>5, <2>1 DEF TakenUp
<1>6. CASE ClaimBatch
  <2>1. PICK eligible \in SUBSET {a \in Asset : op[a].status = "running" /\ op[a].phase = "unlinking_artifacts"} :
           Goes("head") \/ Takes("unlink batch", eligible, {}, Retained(eligible))
    BY <1>6 DEF ClaimBatch
  <2>2. CASE Goes("head")
    <3>1. worker'.pc = "head"
      BY <2>2, <1>0 DEF Goes, WorkerRow
    <3> QED
      BY <1>4, <1>6, <3>1 DEF TakenUp
  <2>3. CASE Takes("unlink batch", eligible, {}, Retained(eligible))
    <3>1. worker'.pc = "unlink batch" /\ worker'.ops = eligible
      BY <2>3 DEF Takes
    <3>2. TakenUp'
      BY <2>1, <3>1, <1>3, <1>6 DEF TakenUp
    <3> QED
      BY <1>4, <1>6, <3>1, <3>2
  <2> QED
    BY <2>1, <2>2, <2>3
<1>7. CASE Finalize
  <2>1. PICK o \in worker.ops : Goes("claim") \/ Takes("unlink", {o}, {}, Retained({o}))
    BY <1>7 DEF Finalize
  <2>2. worker'.pc \in {"claim", "unlink"} /\ (worker'.pc = "claim" => worker'.ops = worker.ops)
    BY <2>1, <1>0 DEF Goes, Takes, WorkerRow
  <2>3. worker.pc = "finalize"
    BY <1>7 DEF Finalize
  <2>4. TakenUp'
    BY <2>2, <2>3, <1>3, <1>7 DEF Orderly, TakenUp
  <2> QED
    BY <1>4, <1>7, <2>2, <2>4
<1>8. CASE TakeUpOldest
  <2> DEFINE active == {o \in Op : op[o].status \in {"queued", "running"} /\ op[o].phase # "identity_queued"}
             oldest == First(active, 1)
  <2>1. oldest \subseteq active
    BY DEF First
  <2>2. op' = [o \in Op |-> IF o \in oldest /\ op[o].status = "queued"
                            THEN [op[o] EXCEPT !.status = "running", !.phase = "other"] ELSE op[o]]
        /\ UNCHANGED <<scenario, item>> /\ worker.pc = "head"
    BY <1>8 DEF TakeUpOldest
  <2>3. Goes("checkpoint") \/ Takes("claim", oldest, {}, {}) \/ Takes("finalize", oldest, {}, {})
    BY <1>8 DEF TakeUpOldest
  <2>4. \A o \in oldest : o \in Op /\ op[o].status \in {"queued", "running"}
    BY <2>1
  <2> HIDE DEF active, oldest
  <2>5. worker'.pc \in {"checkpoint", "claim", "finalize"} /\ (worker'.pc # "checkpoint" => worker'.ops = oldest)
    BY <2>3, <1>0 DEF Goes, Takes, WorkerRow
  <2>6. ASSUME NEW o \in Op
        PROVE  \/ op'[o] = op[o] /\ (o \in oldest => op'[o].status = "running")
               \/ op'[o].status = "running" /\ op'[o].phase = "other"
    <3>1. op[o] \in OpRow
      BY <1>0
    <3> QED
      BY <2>2, <2>4, <3>1 DEF OpRow
  <2>7. TakenUp'
    BY <2>4, <2>5, <2>6 DEF TakenUp
  <2>8. \A o \in Op : op'[o].status \in {"checkpointing", "completed", "superseded"} =>
            \A m \in Media : /\ ~Waits(o, m)'
                             /\ op'[o].status # "checkpointing" => ~Holds(o, m)'
    BY <2>2, <2>6, ReportsKept DEF Holds, Waits
  <2> QED
    BY <2>2, <2>5, <2>6, <2>7, <2>8, NoClaims, OrderlyEnds DEF Holds
<1>9. CASE Claim
  <2>1. PICK o \in worker.ops :
          /\ Takes("scrub", {o}, In(o, {"pending"}), {})
          /\ item' = [item EXCEPT ![o] = [m \in Media |->
                 IF m \in In(o, {"pending"}) THEN [item[o][m] EXCEPT !.state = "claimed"] ELSE item[o][m]]]
          /\ op' = [op EXCEPT ![o].phase = "other"]
    BY <1>9 DEF Claim
  <2>2. worker.pc = "claim" /\ scenario' = scenario /\ o \in Op /\ op[o].status = "running"
    BY <1>9, <1>0 DEF Claim, Orderly, TakenUp, WorkerRow
  <2>3. worker'.pc = "scrub" /\ worker'.ops = {o} /\ worker'.work = In(o, {"pending"})
    BY <2>1 DEF Takes
  <2>4. op'[o].status = "running" /\ op'[o].phase = "other" /\ \A p \in Op \ {o} : op'[p] = op[p] /\ item'[p] = item[p]
    BY <2>1, <2>2, <1>0 DEF OpRow
  <2>5. ASSUME NEW m \in Media
        PROVE  item'[o][m].state = IF item[o][m].state = "pending" THEN "claimed" ELSE item[o][m].state
    <3>1. item[o][m] \in ItemRow
      BY <1>0, <2>2
    <3> QED
      BY <2>1, <2>2, <3>1, <1>0 DEF In, ItemRow
  <2>6. Calm' /\ TakenUp'
    BY <2>2, <2>3, <2>4 DEF Orderly, Calm, TakenUp
  <2>7. Reported'
    BY <2>4 DEF Orderly, Reported, Holds, Waits
  <2>8. NothingFails'
    <3>1. \A p \in Op, m \in Media : Holds(p, m)' => Holds(p, m)
      BY <2>4, <2>5 DEF Holds
    <3> QED
      BY <2>2, <3>1, FinitePools DEF Orderly, NothingFails
  <2>9. NothingIsLeft'
    <3> SUFFICES ASSUME "crash" \notin scenario.events PROVE NothingIsLeft'
      BY <2>2 DEF NothingIsLeft
    <3>1. \A p \in Op, m \in Media : item[p][m].state # "claimed"
      BY <2>2, NoClaims
    <3>2. \A p \in Op, m \in Media : item'[p][m].state = "claimed" => p = o /\ m \in In(o, {"pending"})
      BY <2>4, <2>5, <3>1 DEF In
    <3>3. \A m \in Media : item'[o][m].state # "pending"
      BY <2>5
    <3>4. \A p \in Op : op'[p].phase = "unlinking_artifacts" => \A m \in Media :
             item'[p][m].state # "pending" /\ (item'[p][m].state = "claimed" => worker'.pc = "mark")
      BY <2>4, <3>1 DEF Orderly, NothingIsLeft
    <3> QED
      BY <2>3, <3>2, <3>3, <3>4 DEF NothingIsLeft
  <2> QED
    BY <2>6, <2>7, <2>8, <2>9 DEF Orderly
<1>10. CASE Conclude
  <2>1. PICK o \in worker.ops :
           \/ UNCHANGED op
           \/ /\ In(o, ItemState \ {"none", "failed"}) = {}
              /\ \E s \in {"checkpointing", op[o].status, Outcome(o)} :
                    op' = [op EXCEPT ![o].status = s, ![o].phase = "other"]
    BY <1>10 DEF Conclude
  <2>2. worker.pc = "claim" /\ UNCHANGED <<scenario, item>> /\ o \in Op /\ (EndsPass \/ Goes("checkpoint"))
    BY <1>10, <1>0 DEF Conclude, WorkerRow
  <2>3. worker'.pc \in {"idle", "checkpoint"}
    BY <2>2, <1>0 DEF EndsPass, Idle, Goes, WorkerRow
  <2>4. TakenUp'
    BY <2>3 DEF TakenUp
  <2>5. In(o, ItemState \ {"none", "failed"}) = {} => \A m \in Media : ~Waits(o, m)
    <3>1. \A m \in Media : Waits(o, m) => m \in In(o, ItemState \ {"none", "failed"})
      BY DEF Waits, In, ItemState
    <3> QED
      BY <3>1
  <2>6. In(o, ItemState \ {"none", "failed"}) = {} /\ Outcome(o) = "completed" =>
           \A m \in Media : ~Holds(o, m)
    <3>1. Outcome(o) = "completed" => ~(op[o].failed > 0)
      BY DEF Outcome
    <3>2. Outcome(o) = "completed" => \A m \in Media : item[o][m].state # "failed"
      BY <2>2, <3>1, FailedIsCounted
    <3> QED
      BY <2>5, <3>2 DEF Holds, Waits
  <2>7. ASSUME NEW p \in Op
        PROVE  op'[p].status \in {"checkpointing", "completed", "superseded"} =>
                  \A m \in Media : /\ ~Waits(p, m)'
                                   /\ op'[p].status # "checkpointing" => ~Holds(p, m)'
    <3>1. CASE op'[p].status = op[p].status
      BY <2>2, <3>1, ReportsKept DEF Holds, Waits
    <3>2. CASE op'[p].status # op[p].status
      <4>1. /\ p = o /\ In(o, ItemState \ {"none", "failed"}) = {}
            /\ op'[o].status \in {"checkpointing", Outcome(o)}
        BY <2>1, <2>2, <3>2, <1>0 DEF OpRow
      <4>2. Outcome(o) \in {"failed", "completed"}
        BY DEF Outcome
      <4> QED
        BY <4>1, <4>2, <2>2, <2>5, <2>6 DEF Holds, Waits
    <3> QED
      BY <3>1, <3>2
  <2>8. \A p \in Op : op'[p].phase = "unlinking_artifacts" => op[p].phase = "unlinking_artifacts"
    BY <2>1, <2>2, <1>0 DEF OpRow
  <2> QED
    BY <2>2, <2>3, <2>4, <2>7, <2>8, NoClaims, OrderlyEnds DEF Holds
<1> QED
  BY <1>5, <1>6, <1>7, <1>8, <1>9, <1>10

LEMMA OrderlyRemoval ==
    ASSUME TypeOK, Control, Adding, Orderly,
           DeleteRows \/ MarkFailed \/ Unlink \/ Settle \/ SettleBatch \/ Checkpoint \/ Crash
    PROVE  Orderly'
<1>0. op \in [Op -> OpRow] /\ item \in [Op -> [Media -> ItemRow]] /\ worker \in WorkerRow
  BY TypesAre DEF Types
<1>1. EndsPass => worker'.pc = "idle" /\ TakenUp'
  BY DEF EndsPass, Idle, TakenUp
<1>2. CASE DeleteRows
  <2>1. PICK o \in worker.ops, bad \in SUBSET worker.work, good \in SUBSET Media : RowsDeleted(o, bad, good)
    BY <1>2, DeleteDoes
  <2>2. o \in Op /\ worker.pc = "scrub" /\ scenario' = scenario /\ op[o].status = "running"
        /\ \A p \in worker.ops : p = o
    BY <2>1, <1>0 DEF RowsDeleted, Orderly, TakenUp, Control, OneOp, OneOpPoint, WorkerRow
  <2>3. \A p \in Op \ {o} : item'[p] = item[p] /\ op'[p] = op[p]
    BY <2>1, <2>2, <1>0 DEF RowsDeleted
  <2>4. op'[o].status = op[o].status
    BY <2>1, <2>2, <1>0 DEF RowsDeleted, OpRow
  <2>5. ASSUME NEW m \in Media
        PROVE  IF m \in worker.work \ bad THEN item'[o][m].state = "media_deleted"
               ELSE item'[o][m] = item[o][m]
    <3>1. item'[o][m] = IF m \in good THEN StagedRows(good)[m]
                        ELSE IF m \in worker.work \ bad THEN [item[o][m] EXCEPT !.state = "media_deleted"]
                        ELSE item[o][m]
      BY <2>1, <2>2, <1>0 DEF RowsDeleted
    <3>2. good = (worker.work \ bad) \cap Rows
      BY <2>1 DEF RowsDeleted
    <3>3. m \in good => StagedRows(good)[m].state = "media_deleted"
      <4>1. Staged(media, m) \in ItemRow /\ Staged(media, m).state = "media_deleted"
        BY OperatorTypes DEF Staged
      <4> DEFINE r == Staged(media, m)
      <4>2. m \in good => \E k : StagedRows(good)[m] = [r EXCEPT !.key = k]
        BY DEF StagedRows
      <4> HIDE DEF r
      <4>3. r \in ItemRow /\ r.state = "media_deleted"
        BY <4>1 DEF r
      <4> QED
        BY <4>2, <4>3 DEF ItemRow
    <3>4. [item[o][m] EXCEPT !.state = "media_deleted"].state = "media_deleted"
      BY <2>2, <1>0 DEF ItemRow
    <3> QED
      BY <3>1, <3>2, <3>3, <3>4
  <2>6. /\ \/ EndsPass /\ bad = {}
           \/ worker'.pc = "mark" /\ worker'.ops = {o} /\ worker'.work = bad
    BY <2>1 DEF RowsDeleted, Takes
  <2>7. Calm' /\ TakenUp'
    BY <2>2, <2>4, <2>6, <1>1 DEF Orderly, Calm, TakenUp
  <2>8. Reported'
    BY <2>2, <2>3, <2>4 DEF Orderly, Reported, Holds, Waits
  <2>9. NothingFails'
    <3>1. \A p \in Op, m \in Media : Holds(p, m)' => Holds(p, m)
      BY <2>3, <2>5 DEF Holds
    <3> QED
      BY <2>2, <3>1, FinitePools DEF Orderly, NothingFails
  <2>10. NothingIsLeft'
    <3> SUFFICES ASSUME "crash" \notin scenario.events PROVE NothingIsLeft'
      BY <2>2 DEF NothingIsLeft
    <3>1. \A p \in Op, m \in Media : item[p][m].state = "claimed" => p = o /\ m \in worker.work
      BY <2>2 DEF Orderly, NothingIsLeft
    <3>2. \A p \in Op, m \in Media : item'[p][m].state = "claimed" => p = o /\ m \in bad
      BY <2>3, <2>5, <3>1
    <3>3. \A m \in Media : item'[o][m].state # "pending"
      BY <2>2, <2>5, <2>1 DEF Orderly, NothingIsLeft
    <3>4. \A p \in Op : op'[p].phase = "unlinking_artifacts" => \A m \in Media :
             item'[p][m].state # "pending" /\ (item'[p][m].state = "claimed" => worker'.pc = "mark")
      BY <2>3, <2>6, <3>2, <3>3 DEF Orderly, NothingIsLeft
    <3> QED
      BY <2>6, <3>2, <3>3, <3>4, <1>1 DEF NothingIsLeft
  <2> QED
    BY <2>7, <2>8, <2>9, <2>10 DEF Orderly
<1>3. CASE MarkFailed
  <2>1. PICK o \in worker.ops :
          /\ worker.pc = "mark" /\ EndsPass /\ scenario' = scenario
          /\ item' = [item EXCEPT ![o] = [m \in Media |->
                 IF m \in worker.work THEN [item[o][m] EXCEPT !.state = "failed"] ELSE item[o][m]]]
          /\ op' = [op EXCEPT ![o].processed = @ + Cardinality(worker.work),
                              ![o].failed = @ + Cardinality(worker.work)]
    BY <1>3 DEF MarkFailed
  <2>2. o \in Op /\ op[o].status = "running" /\ \A p \in worker.ops : p = o
    BY <2>1, <1>0 DEF Orderly, TakenUp, Control, OneOp, OneOpPoint, WorkerRow
  <2>3. \A p \in Op : op'[p].status = op[p].status /\ op'[p].phase = op[p].phase
    BY <2>1, <2>2, <1>0 DEF OpRow
  <2>4. ASSUME NEW p \in Op, NEW m \in Media
        PROVE  IF p = o /\ m \in worker.work THEN item'[p][m].state = "failed" ELSE item'[p][m] = item[p][m]
    <3>1. item[p][m] \in ItemRow
      BY <1>0
    <3> QED
      BY <2>1, <2>2, <3>1, <1>0 DEF ItemRow
  <2>5. \A m \in worker.work : m \in Media /\ item[o][m].state = "claimed"
    BY <2>1, <1>0 DEF Control, WorkIsClaimed, WorkerRow
  <2>6. \A p \in Op, m \in Media : (Holds(p, m)' => Holds(p, m)) /\ (Waits(p, m)' => Waits(p, m))
    BY <2>4, <2>5 DEF Holds, Waits
  <2>7. \A p \in Op : op'[p].status \in {"checkpointing", "completed", "superseded"} =>
            \A m \in Media : /\ ~Waits(p, m)'
                             /\ op'[p].status # "checkpointing" => ~Holds(p, m)'
    BY <2>3, <2>6, ReportsKept
  <2>8. "crash" \notin scenario.events =>
            \A p \in Op, m \in Media :
               /\ item'[p][m].state = "pending" => item[p][m].state = "pending"
               /\ item'[p][m].state # "claimed"
    BY <2>2, <2>4 DEF Orderly, NothingIsLeft
  <2> QED
    BY <2>1, <2>3, <2>6, <2>7, <2>8, <1>1, OrderlyEnds
<1>4. CASE Unlink
  <2>1. worker.pc \in {"unlink", "unlink batch"} /\ UNCHANGED <<scenario, op, item>>
    BY <1>4 DEF Unlink, db
  <2>2. \E broken : worker' = [worker EXCEPT !.pc = IF @ = "unlink" THEN "settle" ELSE "settle batch",
                                             !.broken = broken]
    BY <1>4 DEF Unlink
  <2>3. worker'.ops = worker.ops /\ worker'.pc = IF worker.pc = "unlink" THEN "settle" ELSE "settle batch"
    BY <2>2, <1>0 DEF WorkerRow
  <2>4. TakenUp'
    BY <2>1, <2>3 DEF Orderly, TakenUp
  <2>5. \A o \in Op : op'[o].status \in {"checkpointing", "completed", "superseded"} =>
            \A m \in Media : /\ ~Waits(o, m)'
                             /\ op'[o].status # "checkpointing" => ~Holds(o, m)'
    BY <2>1, ReportsKept DEF Holds, Waits
  <2> QED
    BY <2>1, <2>3, <2>4, <2>5, NoClaims, OrderlyEnds DEF Holds
<1>5. CASE Settle \/ SettleBatch
  <2>1. Settles
    BY <1>5, SettleDoes
  <2>2. worker.pc \in {"settle", "settle batch"} /\ EndsPass /\ scenario' = scenario
    BY <2>1 DEF Settles
  <2>3. ASSUME NEW o \in Op, NEW m \in Media, item'[o][m].state \in Hand
        PROVE  item'[o][m] = item[o][m]
    <3>1. [item[o][m] EXCEPT !.state = "unlink_failed"].state = "unlink_failed" /\ NoItem.state = "none"
      BY <1>0, NoKeyIn DEF ItemRow
    <3>2. \/ item'[o][m] = item[o][m] \/ item'[o][m] = NoItem
          \/ item'[o][m] = [item[o][m] EXCEPT !.state = "unlink_failed"]
      BY <2>1 DEF Settles
    <3> QED
      BY <2>3, <3>1, <3>2
  <2>4. ASSUME NEW o \in Op
        PROVE  /\ \/ op'[o].status = op[o].status
                  \/ op'[o].status = "failed"
                  \/ /\ o \in (worker.ops \ worker.broken) \cap Asset /\ op'[o].status = "checkpointing"
                     /\ \/ worker.pc = "settle batch"
                        \/ In(o, ItemState \ {"none", "failed"}) \ InUnlink(o) = {}
               /\ op'[o].phase \in {op[o].phase, "other"}
    <3>1. op[o] \in OpRow
      BY <1>0
    <3>2. \A n : LET r == Counted(o, n)
                 IN  /\ r.phase = "other" /\ r.status \in {"failed", op[o].status}
                     /\ LET q == [r EXCEPT !.status = "checkpointing"]
                        IN  q.phase = "other" /\ q.status = "checkpointing"
      BY <3>1 DEF Counted, OpRow
    <3>3. \/ op'[o] = op[o]
          \/ op'[o] = Counted(o, Cardinality(InUnlink(o)))
          \/ /\ o \in (worker.ops \ worker.broken) \cap Asset
             /\ op'[o] = [Counted(o, Cardinality(InUnlink(o))) EXCEPT !.status = "checkpointing"]
             /\ \/ worker.pc = "settle batch"
                \/ In(o, ItemState \ {"none", "failed"}) \ InUnlink(o) = {}
      BY <2>1 DEF Settles
    <3> QED
      BY <3>2, <3>3
  <2>5. ASSUME NEW o \in worker.ops \cap Asset, worker.pc = "settle batch", NEW m \in Media
        PROVE  ~Waits(o, m)
    <3>1. CASE "crash" \notin scenario.events
      BY <2>5, <3>1, FinitePools DEF Orderly, TakenUp, NothingIsLeft, Waits
    <3>2. CASE "scrub" \notin scenario.events
      BY <2>5, <3>2 DEF Orderly, NothingFails, Holds, Waits
    <3> QED
      BY <3>1, <3>2 DEF Orderly, Calm
  <2>6. ASSUME NEW o \in Op, In(o, ItemState \ {"none", "failed"}) \ InUnlink(o) = {}, NEW m \in Media
        PROVE  ~Waits(o, m)
    <3>1. Waits(o, m) => m \in In(o, ItemState \ {"none", "failed"}) /\ m \notin InUnlink(o)
      BY DEF Waits, In, InUnlink, ItemState
    <3> QED
      BY <2>6, <3>1
  <2>7. \A o \in Op, m \in Media : (Holds(o, m)' => Holds(o, m)) /\ (Waits(o, m)' => Waits(o, m))
    BY <2>3 DEF Holds, Waits
  <2>8. ASSUME NEW o \in Op
        PROVE  op'[o].status \in {"checkpointing", "completed", "superseded"} =>
                  \A m \in Media : /\ ~Waits(o, m)'
                                   /\ op'[o].status # "checkpointing" => ~Holds(o, m)'
    <3>1. CASE op'[o].status = op[o].status
      BY <2>7, <3>1, ReportsKept
    <3>2. CASE op'[o].status # op[o].status
      BY <2>4, <2>5, <2>6, <2>7, <3>2
    <3> QED
      BY <3>1, <3>2
  <2>9. "crash" \notin scenario.events =>
            /\ \A o \in Op, m \in Media :
                  /\ item'[o][m].state = "pending" => item[o][m].state = "pending"
                  /\ item'[o][m].state # "claimed"
            /\ \A o \in Op : op'[o].phase = "unlinking_artifacts" => op[o].phase = "unlinking_artifacts"
    BY <2>2, <2>3, <2>4, NoClaims
  <2> QED
    BY <2>2, <2>7, <2>8, <2>9, <1>1, OrderlyEnds
<1>6. CASE Checkpoint
  <2>1. EndsPass /\ UNCHANGED <<scenario, item>> /\ worker.pc = "checkpoint"
    BY <1>6 DEF Checkpoint
  <2>2. \A o \in Op : \/ op'[o] = op[o]
                      \/ op[o].status = "checkpointing" /\ op'[o] = [op[o] EXCEPT !.status = Outcome(o)]
    BY <1>6 DEF Checkpoint
  <2>3. ASSUME NEW o \in Op
        PROVE  /\ op'[o].phase = op[o].phase
               /\ op'[o].status = op[o].status \/ (op[o].status = "checkpointing" /\ op'[o].status = Outcome(o))
    <3>1. op[o] \in OpRow
      BY <1>0
    <3> QED
      BY <2>2, <3>1 DEF OpRow
  <2>4. ASSUME NEW o \in Op
        PROVE  op'[o].status \in {"checkpointing", "completed", "superseded"} =>
                  \A m \in Media : /\ ~Waits(o, m)'
                                   /\ op'[o].status # "checkpointing" => ~Holds(o, m)'
    <3>1. CASE op'[o].status = op[o].status
      BY <2>1, <3>1, ReportsKept DEF Holds, Waits
    <3>2. CASE op'[o].status = "completed" /\ op[o].status = "checkpointing" /\ op'[o].status = Outcome(o)
      <4>1. \A m \in Media : item[o][m].state # "failed"
        BY <3>2, FailedIsCounted DEF Outcome
      <4>2. \A m \in Media : ~Waits(o, m)
        BY <3>2 DEF Orderly, Reported
      <4> QED
        BY <2>1, <4>1, <4>2 DEF Holds, Waits
    <3> QED
      BY <2>3, <3>1, <3>2 DEF Outcome
  <2> QED
    BY <2>1, <2>3, <2>4, <1>1, NoClaims, OrderlyEnds DEF Holds
<1>7. CASE Crash
  <2>1. EndsPass /\ UNCHANGED <<scenario, op, item>> /\ "crash" \in scenario.events
    BY <1>7 DEF Crash, db, Spend, May
  <2>2. \A o \in Op : op'[o].status \in {"checkpointing", "completed", "superseded"} =>
            \A m \in Media : /\ ~Waits(o, m)'
                             /\ op'[o].status # "checkpointing" => ~Holds(o, m)'
    BY <2>1, ReportsKept DEF Holds, Waits
  <2> QED
    BY <2>1, <2>2, <1>1, OrderlyEnds DEF Holds
<1> QED
  BY <1>2, <1>3, <1>4, <1>5, <1>6, <1>7

LEMMA OrderlyStep == TypeOK /\ Control /\ Adding /\ Orderly /\ [Next]_vars => Orderly'
<1> SUFFICES ASSUME TypeOK, Control, Adding, Orderly, [Next]_vars PROVE Orderly'
  OBVIOUS
<1>1. CASE LateOwners \/ LeasesLapse \/ UNCHANGED vars
  BY <1>1, OrderlySame, LateDoes DEF LeasesLapse, vars, db
<1> QED
  BY <1>1, OrderlyPeople, OrderlyStage, OrderlyClaim, OrderlyRemoval DEF Next, Works

LEMMA InitOrderly == Init /\ Calm => Orderly
<1> SUFFICES ASSUME Init, Calm PROVE Orderly
  OBVIOUS
<1>1. /\ op = [o \in Op |-> NoOp] /\ item = [o \in Op |-> [m \in Media |-> NoItem]] /\ worker = Idle
  BY DEF Init
<1>2. \A o \in Op : op[o].status = "none" /\ op[o].phase = "other" /\ \A m \in Media : item[o][m].state = "none"
  BY <1>1 DEF NoOp, NoItem
<1> QED
  BY <1>1, <1>2, FinitePools DEF Orderly, Reported, TakenUp, NothingFails, NothingIsLeft, Idle, Holds, Waits

\* A row is barred from new owners exactly while one operation that has not
\* completed is to delete it, and nobody owns it but others who had looked at it
\* before it was barred: unless rows fail to be deleted and the process dies in
\* the same history, when an operation may complete with rows still in hand.
THEOREM BarredRowsAreInHand ==
    Spec /\ ~({"crash", "scrub"} \subseteq scenario.events) => []BarredRowIsInHand
<1> DEFINE I == TypeOK /\ Control /\ BarredOnce /\ Adding /\ Orderly
<1>1. Init /\ ~({"crash", "scrub"} \subseteq scenario.events) => I
  BY InitTypes, InitControl, InitBarred, InitAdding, InitOrderly DEF Calm
<1>2. I /\ [Next]_vars => I'
  BY TypeStep, ControlStep, HandStep, AddingStep, OrderlyStep
<1>3. I => BarredRowIsInHand
  <2> SUFFICES ASSUME I, NEW m \in Rows
      PROVE  /\ media[m].pending = (Hands(m) # {})
             /\ media[m].pending =>
                   /\ Cardinality(Hands(m)) = 1
                   /\ media[m].owners = {} \/ ("late_adopt" \in scenario.events /\ media[m].owners = {Other})
                   /\ \A o \in Hands(m) : op[o].status \notin {"completed", "superseded"}
    BY DEF BarredRowIsInHand
  <2>1. m \in Media /\ media[m] \in MediaRow
    BY TypesAre DEF Types, Rows
  <2>2. BarredAt(m)
    BY <2>1 DEF BarredOnce
  <2>3. \A o : o \in Hands(m) <=> o \in Op /\ Holds(o, m)
    BY DEF Hands, Holds
  <2>4. media[m].pending <=> Hands(m) # {}
    BY <2>2, <2>3 DEF BarredAt
  <2>5. media[m].pending = (Hands(m) # {})
    BY <2>1, <2>4, Zenon DEF MediaRow
  <2>6. ASSUME media[m].pending PROVE Cardinality(Hands(m)) = 1
    <3>1. PICK o \in Hands(m) : TRUE
      BY <2>4, <2>6
    <3>2. Hands(m) = {o}
      BY <3>1, <2>2, <2>3 DEF BarredAt
    <3> QED
      BY <3>2, FS_Singleton
  <2>7. \A o \in Hands(m) : op[o].status \notin {"completed", "superseded"}
    BY <2>1, <2>3 DEF Orderly, Reported
  <2> QED
    BY <2>2, <2>5, <2>6, <2>7 DEF BarredAt
<1> QED
  BY <1>1, <1>2, <1>3, PTL DEF Spec

-----------------------------------------------------------------------------
(* Bytes of media that somebody owns, while nothing is imported.            *)

\* Without imports there is one storage object for each content.
OneObject ==
    /\ "import" \notin scenario.events
    /\ \A m \in Rows : media[m].sid = 1
    /\ \A o \in Op, m \in Media : item[o][m].key => item[o][m].sid = 1
\* What somebody owns was found retained when the items were claimed.
Retains ==
    worker.pc \in {"unlink", "unlink batch"} =>
        \A o \in worker.ops, n \in Media, m \in Rows :
            /\ n \in InUnlink(o) /\ media[m].owners # {} /\ ~media[m].pending
            /\ media[m].content = item[o][n].content /\ media[m].sid = item[o][n].sid
            => <<item[o][n].content, item[o][n].sid>> \in worker.kept

LEMMA NoImports ==
    ASSUME "import" \notin scenario.events
    PROVE  ~\E m \in Media, c \in Content : Import(m, c)
  BY DEF Import, Spend, May

LEMMA OneObjectStep == TypeOK /\ Control /\ OneObject /\ [Next]_vars => OneObject'
<1> SUFFICES ASSUME TypeOK, Control, OneObject, [Next]_vars PROVE OneObject'
  OBVIOUS
<1>0. /\ scenario' = scenario /\ ~\E m \in Media, c \in Content : Import(m, c)
      /\ item \in [Op -> [Media -> ItemRow]] /\ worker \in WorkerRow
  BY ScenarioStays, NoImports, TypesAre DEF OneObject, Types
<1>1. ASSUME NEW m \in Media, media'[m].content # None PROVE media'[m].sid = 1
  <2>1. RowStays(m)
    <3>1. media'[m] # NoRow
      BY <1>1 DEF NoRow
    <3> QED
      BY <1>0, <3>1, RowKept DEF RowWell
  <2> QED
    BY <1>1, <2>1 DEF RowStays, OneObject, Rows
<1>2. ASSUME NEW o \in Op, NEW m \in Media, item'[o][m].key PROVE item'[o][m].sid = 1
  <2>0. item[o][m].key => item[o][m].sid = 1
    BY DEF OneObject
  <2>1. CASE item'[o][m] = item[o][m]
    BY <1>2, <2>0, <2>1
  <2>2. ASSUME NEW p \in Op, Retry(p) PROVE item'[o][m].sid = 1
    <3>1. CASE p = o
      <4>1. item'[o][m].sid = item[o][m].sid /\ item'[o][m].key = item[o][m].key
        BY <2>2, <3>1, RetryDoes
      <4> QED
        BY <1>2, <2>0, <4>1
    <3>2. CASE p # o
      BY <2>1, <2>2, <3>2, <1>0 DEF Retry
    <3> QED
      BY <3>1, <3>2
  <2>3. CASE BeginPass
    <3>1. CASE chat = "deleted" /\ o = Chat
      <4>1. \E mine : item' = [item EXCEPT ![Chat] = Pending(mine)]
        BY <2>3, <3>1, PassDoes
      <4>2. item'[o][m] = NoItem \/ item'[o][m] = [NoItem EXCEPT !.state = "pending"]
        BY <3>1, <4>1, <1>0 DEF Pending
      <4> QED
        BY <1>2, <4>2, NoKeyIn
    <3>2. CASE ~(chat = "deleted" /\ o = Chat)
      <4>1. item'[o] = item[o]
        BY <2>3, <3>2, <1>0 DEF BeginPass
      <4> QED
        BY <2>1, <4>1
    <3> QED
      BY <3>1, <3>2
  <2>4. CASE StageIdentities
    <3>1. CASE UNCHANGED db
      BY <2>1, <3>1 DEF db
    <3>2. ASSUME NEW valid \in SUBSET Asset, NEW scrubbed \in BOOLEAN, StagedSlice(valid, scrubbed)
          PROVE  item'[o][m].sid = 1
      <4>0. \A p \in Op \ valid : item'[p][m] = item[p][m]
        BY <3>2, SliceItems
      <4>1. CASE o \notin valid
        BY <2>1, <4>0, <4>1
      <4>2. CASE o \in valid /\ m \notin Mine(o, valid)
        <5>1. item'[o][m] = NoItem
          BY <3>2, <4>2, SliceItems
        <5> QED
          BY <1>2, <5>1, NoKeyIn
      <4>3. CASE o \in valid /\ m \in Mine(o, valid) /\ ~scrubbed
        <5>1. item'[o][m] = [NoItem EXCEPT !.state = "pending"]
          BY <3>2, <4>3, SliceItems
        <5> QED
          BY <1>2, <5>1, NoKeyIn
      <4>4. CASE o \in valid /\ m \in Mine(o, valid)
        <5>1. ASSUME scrubbed PROVE item'[o][m].sid = 1
          <6>1. item'[o][m] = Staged(Given(valid), m)
            BY <3>2, <4>4, <5>1, SliceItems
          <6>2. AllOf(valid) \subseteq Rows
            BY <3>2, MineApart
          <6>3. m \in AllOf(valid)
            BY <4>4 DEF AllOf
          <6>4. item'[o][m].sid = media[m].sid
            BY <6>1, StagedKeys
          <6> QED
            BY <6>2, <6>3, <6>4 DEF OneObject
        <5> QED
          BY <4>3, <4>4, <5>1
      <4> QED
        BY <4>1, <4>2, <4>3, <4>4
    <3> QED
      BY <3>1, <3>2, <2>4, StageDoes
  <2>5. CASE RecoverLeases \/ ClaimBatch \/ Finalize \/ Claim \/ MarkFailed
    <3>1. Moved(o, m)
      BY <2>5, ItemsMove DEF Control
    <3> QED
      BY <1>2, <2>0, <3>1 DEF Moved
  <2>6. CASE DeleteRows
    <3>1. PICK p \in worker.ops, bad \in SUBSET worker.work, good \in SUBSET Media : RowsDeleted(p, bad, good)
      BY <2>6, DeleteDoes
    <3>2. \/ item'[o][m] = item[o][m]
          \/ m \in good /\ item'[o][m] = StagedRows(good)[m]
          \/ item'[o][m] = [item[o][m] EXCEPT !.state = "media_deleted"]
      BY <3>1, <1>0 DEF RowsDeleted, WorkerRow
    <3>3. CASE m \in good /\ item'[o][m] = StagedRows(good)[m]
      <4>1. item'[o][m].sid = media[m].sid
        BY <3>3, StagedKeys
      <4>2. m \in Rows
        BY <3>1, <3>3 DEF RowsDeleted
      <4> QED
        BY <4>1, <4>2 DEF OneObject
    <3>4. CASE item'[o][m] = [item[o][m] EXCEPT !.state = "media_deleted"]
      <4>1. item[o][m] \in ItemRow
        BY <1>0
      <4> QED
        BY <1>2, <2>0, <3>4, <4>1 DEF ItemRow
    <3> QED
      BY <2>1, <3>2, <3>3, <3>4
  <2>7. CASE Settle \/ SettleBatch
    <3>1. Settles
      BY <2>7, SettleDoes
    <3>2. \/ item'[o][m] = item[o][m] \/ item'[o][m] = NoItem
          \/ item'[o][m] = [item[o][m] EXCEPT !.state = "unlink_failed"]
      BY <3>1 DEF Settles
    <3>3. CASE item'[o][m] = [item[o][m] EXCEPT !.state = "unlink_failed"]
      <4>1. item[o][m] \in ItemRow
        BY <1>0
      <4> QED
        BY <1>2, <2>0, <3>3, <4>1 DEF ItemRow
    <3> QED
      BY <1>2, <2>1, <3>2, <3>3, NoKeyIn
  <2>8. ASSUME NEW n \in Media, Adopted(n) PROVE item'[o][m].sid = 1
    BY <2>1, <2>8 DEF Adopted
  <2> QED
    BY <1>0, <2>1, <2>2, <2>3, <2>4, <2>5, <2>6, <2>7, <2>8, StepKinds DEF Silent
<1> QED
  BY <1>0, <1>1, <1>2 DEF OneObject, Rows

\* Without imports, media that somebody owns after a step had an owner before.
LEMMA OwnedBefore ==
    ASSUME TypeOK, Control, OwnedOrBarred, OneObject, [Next]_vars,
           NEW m \in Media, media'[m].content # None, media'[m].owners # {}
    PROVE  /\ RowStays(m) /\ m \in Rows
           /\ ~media'[m].pending => media[m].owners # {} /\ ~media[m].pending
<1>1. ~\E n \in Media, c \in Content : Import(n, c)
  BY NoImports DEF OneObject
<1>2. /\ RowStays(m) /\ (media[m].pending => media'[m].pending)
      /\ media[m].owners # {} \/ (media[m].content # None /\ ~media[m].pending) \/ media'[m].pending
  BY <1>1, OwnersKept
<1>3. m \in Rows
  BY <1>2 DEF RowStays, Rows
<1> QED
  BY <1>2, <1>3 DEF OwnedOrBarred

LEMMA RetainStep == TypeOK /\ Control /\ OwnedOrBarred /\ OneObject /\ Retains /\ [Next]_vars => Retains'
<1> SUFFICES ASSUME TypeOK, Control, OwnedOrBarred, OneObject, Retains, [Next]_vars,
                    worker'.pc \in {"unlink", "unlink batch"},
                    NEW o \in worker'.ops, NEW n \in Media, NEW m \in Media, media'[m].content # None,
                    item'[o][n].state \in {"unlinking", "unlinking_retry"}, media'[m].owners # {}, ~media'[m].pending,
                    media'[m].content = item'[o][n].content, media'[m].sid = item'[o][n].sid
             PROVE  <<item'[o][n].content, item'[o][n].sid>> \in worker'.kept
  BY DEF Retains, InUnlink, In, Rows
<1>0. item \in [Op -> [Media -> ItemRow]] /\ worker \in WorkerRow
  BY TypesAre DEF Types
<1>1. RowStays(m) /\ m \in Rows /\ media[m].owners # {} /\ ~media[m].pending
  BY OwnedBefore
<1>2. ASSUME ClaimBatch \/ Finalize, NEW ops \in SUBSET Op, worker'.ops = ops, worker'.kept = Retained(ops)
      PROVE  <<item'[o][n].content, item'[o][n].sid>> \in worker'.kept
  <2>1. o \in ops /\ o \in Op
    BY <1>2
  <2>2. Moved(o, n)
    BY <1>2, <2>1, ItemsMove DEF Control
  <2>3. item'[o][n].content = item[o][n].content /\ item'[o][n].sid = item[o][n].sid
    BY <2>2 DEF Moved
  <2>4. media[m].content = item[o][n].content /\ media[m].sid = item[o][n].sid
    BY <1>1, <2>3 DEF RowStays
  <2>5. <<item[o][n].content, item[o][n].sid>> \in Retained(ops)
    <3> DEFINE live == {k \in Rows : media[k].owners # {}}
               roots == {<<media[k].content, media[k].sid>> : k \in live}
               pair == <<item[o][n].content, item[o][n].sid>>
    <3>1. pair = <<media[m].content, media[m].sid>> /\ m \in live
      BY <1>1, <2>4
    <3>2. pair \in roots
      BY <3>1, Zenon
    <3>3. \E p \in ops, k \in Media : pair = <<item[p][k].content, item[p][k].sid>>
      BY <2>1
    <3> QED
      BY <3>2, <3>3, Zenon DEF Retained
  <2> QED
    BY <1>2, <2>3, <2>5
<1>3. CASE ClaimBatch
  <2>1. Goes("head") \/ \E ops \in SUBSET Asset : Takes("unlink batch", ops, {}, Retained(ops))
    BY <1>3 DEF ClaimBatch
  <2>2. ~Goes("head")
    BY <1>0 DEF Goes, WorkerRow
  <2>3. PICK ops \in SUBSET Asset : Takes("unlink batch", ops, {}, Retained(ops))
    BY <2>1, <2>2
  <2>4. worker'.ops = ops /\ worker'.kept = Retained(ops) /\ ops \in SUBSET Op
    BY <2>3, FinitePools DEF Takes
  <2> QED
    BY <1>2, <1>3, <2>4
<1>4. CASE Finalize
  <2>1. PICK p \in worker.ops : Goes("claim") \/ Takes("unlink", {p}, {}, Retained({p}))
    BY <1>4 DEF Finalize
  <2>2. ~Goes("claim")
    BY <1>0 DEF Goes, WorkerRow
  <2>3. Takes("unlink", {p}, {}, Retained({p}))
    BY <2>1, <2>2
  <2>4. {p} \in SUBSET Op
    BY <1>0 DEF WorkerRow
  <2>5. worker'.ops = {p} /\ worker'.kept = Retained({p})
    BY <2>3 DEF Takes
  <2> QED
    BY <1>2, <1>4, <2>4, <2>5
<1>5. CASE Elsewhere
  <2>1. worker' = worker /\ o \in Op
    BY <1>5, <1>0 DEF Elsewhere, WorkerRow
  <2>2. /\ item'[o][n].content = item[o][n].content /\ item'[o][n].sid = item[o][n].sid
        /\ n \in InUnlink(o)
    <3>1. CASE item' = item
      BY <3>1 DEF InUnlink, In
    <3>2. ASSUME NEW p \in Op, Retry(p)
          PROVE  /\ item'[o][n].content = item[o][n].content /\ item'[o][n].sid = item[o][n].sid
                 /\ n \in InUnlink(o)
      <4>1. CASE p = o
        <5>1. /\ item'[o][n].content = item[o][n].content /\ item'[o][n].sid = item[o][n].sid
              /\ item'[o][n].state = IF item[o][n].state = "failed" /\ n \in Rows THEN "pending"
                                     ELSE IF item[o][n].state \in {"failed", "unlink_failed"}
                                     THEN "unlink_retry" ELSE item[o][n].state
          BY <3>2, <4>1, RetryDoes
        <5> QED
          BY <5>1 DEF InUnlink, In
      <4>2. CASE p # o
        <5>1. \A q \in Op \ {p} : item'[q] = item[q]
          BY <3>2, <1>0 DEF Retry
        <5> QED
          BY <2>1, <4>2, <5>1 DEF InUnlink, In
      <4> QED
        BY <4>1, <4>2
    <3>3. (\E p \in Op : Retry(p)) \/ item' = item
      BY <1>5, LateDoes DEF Elsewhere, People, Enqueue, Restore, Trash, DeleteChat, Import, Adopt, LeasesLapse, vars, db
    <3> QED
      BY <3>1, <3>2, <3>3
  <2>3. media[m].content = item[o][n].content /\ media[m].sid = item[o][n].sid
    BY <1>1, <2>2 DEF RowStays
  <2>4. <<item[o][n].content, item[o][n].sid>> \in worker.kept
    BY <1>1, <2>1, <2>2, <2>3 DEF Retains
  <2> QED
    BY <2>1, <2>2, <2>4
<1> QED
  BY <1>3, <1>4, <1>5, Enters

LEMMA OwnedBytesStep ==
    TypeOK /\ Control /\ BarredOnce /\ OwnedOrBarred /\ OneObject /\ Retains /\ OwnedBytesKept /\ [Next]_vars
        => OwnedBytesKept'
<1> SUFFICES ASSUME TypeOK, Control, BarredOnce, OwnedOrBarred, OneObject, Retains, OwnedBytesKept, [Next]_vars,
                    NEW m \in Media, media'[m].content # None, media'[m].owners # {},
                    ~(media'[m].pending /\ "late_adopt" \in scenario'.events)
             PROVE  media'[m].content \in disk'
  BY DEF OwnedBytesKept, Rows
<1>0. ~media'[m].pending
  BY HandStep DEF BarredOnce, BarredAt
<1>1. RowStays(m) /\ m \in Rows /\ media[m].owners # {} /\ ~media[m].pending
  BY <1>0, OwnedBefore
<1>2. media[m].content \in disk /\ media'[m].content = media[m].content
  BY <1>1 DEF OwnedBytesKept, RowStays
<1>3. ~\E n \in Media, c \in Content : Import(n, c)
  BY NoImports DEF OneObject
<1>4. CASE disk' = disk
  BY <1>2, <1>4
<1>5. CASE Unlink
  <2> DEFINE doomed(p) == {item[p][n].content : n \in {k \in InUnlink(p) :
                 item[p][k].key /\ <<item[p][k].content, item[p][k].sid>> \notin worker.kept}}
             all(ops) == UNION {doomed(p) : p \in ops}
  <2>1. PICK broken \in SUBSET worker.ops : \E some \in SUBSET all(broken) :
          disk' = disk \ (all(worker.ops \ broken) \cup some)
    BY <1>5 DEF Unlink
  <2>2. worker.pc \in {"unlink", "unlink batch"} /\ worker.ops \subseteq Op
    BY <1>5, TypesAre DEF Unlink, Types, WorkerRow
  <2>3. ASSUME NEW p \in worker.ops PROVE media[m].content \notin doomed(p)
    <3> SUFFICES ASSUME NEW n \in InUnlink(p), item[p][n].key,
                        <<item[p][n].content, item[p][n].sid>> \notin worker.kept,
                        item[p][n].content = media[m].content
                 PROVE  FALSE
      OBVIOUS
    <3>1. n \in Media /\ item[p][n].sid = 1 /\ media[m].sid = 1
      BY <1>1, <2>2 DEF InUnlink, In, OneObject
    <3> QED
      BY <1>1, <2>2, <3>1 DEF Retains
  <2>4. media[m].content \notin all(worker.ops)
    <3> HIDE DEF doomed
    <3> QED
      BY <2>3
  <2>5. all(worker.ops \ broken) \subseteq all(worker.ops) /\ all(broken) \subseteq all(worker.ops)
    <3> HIDE DEF doomed
    <3> QED
      OBVIOUS
  <2> HIDE DEF all
  <2> QED
    BY <1>2, <2>1, <2>4, <2>5
<1> QED
  BY <1>3, <1>4, <1>5, DiskStep

\* The bytes of media that somebody owns stay on disk, across crashes, failures,
\* retries and new owners, whoever else is deleting media of equal content: as
\* long as nothing is imported meanwhile, and but for media whose owner comes
\* after they were barred, having looked at them before.
THEOREM OwnedBytesAreKept ==
    Spec /\ "import" \notin scenario.events => []OwnedBytesKept
<1> DEFINE I == TypeOK /\ Control /\ BarredOnce /\ OwnedOrBarred /\ OneObject /\ Retains /\ OwnedBytesKept
<1>1. Init /\ "import" \notin scenario.events => I
  <2> SUFFICES ASSUME Init, "import" \notin scenario.events PROVE I
    OBVIOUS
  <2>1. /\ item = [o \in Op |-> [m \in Media |-> NoItem]] /\ worker = Idle
        /\ disk = {media[m].content : m \in Rows}
    BY DEF Init
  <2>2. ASSUME NEW m \in Rows PROVE media[m].sid = 1
    <3>1. m \in Media /\ media[m].content # None
      BY DEF Rows
    <3>2. media[m] = IF \E o \in Op : m \in scenario.holds[o] THEN
                 [content |-> scenario.content[m], sid |-> 1, pending |-> FALSE,
                  owners |-> {o \in Op : m \in scenario.holds[o]}]
               ELSE NoRow
      BY <3>1 DEF Init
    <3> QED
      BY <3>1, <3>2 DEF NoRow
  <2>3. OneObject
    BY <2>1, <2>2, NoKeyIn DEF OneObject
  <2>4. Retains /\ OwnedBytesKept
    BY <2>1 DEF Retains, Idle, OwnedBytesKept
  <2> QED
    BY <2>3, <2>4, InitTypes, InitControl, InitBarred, InitBytes DEF Bytes
<1>2. I /\ [Next]_vars => I'
  BY TypeStep, ControlStep, HandStep, RowStep, OneObjectStep, RetainStep, OwnedBytesStep
<1> QED
  BY <1>1, <1>2, PTL DEF Spec

-----------------------------------------------------------------------------
(* What is left of an operation that has completed.                         *)

Owed == {"unlink_retry", "unlinking_retry", "unlink_failed"}

\* A slice takes every asset, and an operation does not meet both kinds of
\* failure and a retry, nor a failure and a crash (Calm).
Separate == NumAssets =< scenario.slice /\ ~({"scrub", "unlink", "retry"} \subseteq scenario.events)

\* The worker has taken up whose files it removes.
InHandOf == worker.pc \in {"unlink", "settle"} => \A o \in worker.ops : op[o].status = "running"

\* What a step does with an operation: its status and phase, and its items.
Turns(o, s, p) == op'[o].status = s /\ op'[o].phase = p
SameStates(o) == \A m \in Media : item'[o][m].state = item[o][m].state
Keeps(o) == /\ Turns(o, op[o].status, op[o].phase)
            /\ \A m \in Media : Moves(item[o][m].state, item'[o][m].state)
Asked(o) == /\ op[o].status \notin {"queued", "running", "checkpointing"}
            /\ op[o].status = "failed" => \A m \in Media : item[o][m].state # "unlink_failed"
            /\ Turns(o, "queued", "identity_queued") /\ SameStates(o)
Replaced(o) == op[o].status = "completed" /\ Turns(o, "superseded", op[o].phase) /\ SameStates(o)
Resumed(o) ==
    /\ op[o].status = "failed" /\ Turns(o, "queued", "other") /\ "retry" \in scenario.events
    /\ o \in Asset => asset[o] = "gone"
    /\ \A m \in Media :
          item'[o][m].state = IF item[o][m].state = "failed" /\ m \in Rows THEN "pending"
                              ELSE IF item[o][m].state \in {"failed", "unlink_failed"}
                              THEN "unlink_retry" ELSE item[o][m].state
Opened(o) == /\ o = Chat /\ op[o].status = "none" /\ Turns(o, "queued", "other")
             /\ \A m \in Media : item'[o][m].state \in {"none", "pending"}
TakenAlong(o) ==
    /\ o \in Asset /\ asset'[o] = "gone" /\ op[o].status = "queued"
    /\ \/ Turns(o, "checkpointing", "other") /\ \A m \in Media : item'[o][m].state = "none"
       \/ /\ Turns(o, "running", "unlinking_artifacts")
          /\ \A m \in Media : item'[o][m].state \in {"none", "media_deleted"}
       \/ Turns(o, "queued", "other") /\ \A m \in Media : item'[o][m].state \in {"none", "pending"}
Refusal(o) == op[o].status = "queued" /\ Turns(o, "failed", "other") /\ SameStates(o)
Prepared(o) == /\ op[o].status = "queued" /\ Turns(o, "queued", "identity_refs_scrubbed")
               /\ SameStates(o) /\ worker'.pc = "stage again"
Started(o) == /\ op[o].status = "queued" /\ op[o].phase # "identity_queued" /\ worker.pc = "head"
              /\ Turns(o, "running", "other") /\ SameStates(o)
Claims(o) == /\ op[o].status = "running" /\ Turns(o, "running", "other")
             /\ \A m \in Media : Moves(item[o][m].state, item'[o][m].state)
Concluded(o) == /\ op[o].status = "running" /\ SameStates(o)
                /\ \A m \in Media : item[o][m].state \in {"none", "failed"}
                /\ op'[o].phase = "other" /\ op'[o].status \in {"running", "checkpointing", Outcome(o)}
Cleared(o) == /\ op[o].status = "running" /\ Turns(o, "running", "unlinking_artifacts")
              /\ \E m \in Media : item[o][m].state = "claimed"
              /\ \A m \in Media : item'[o][m].state \in {item[o][m].state, "media_deleted"}
Unremoved(o) == /\ op[o].status = "running" /\ Turns(o, "failed", "other") /\ o \in worker.broken
                /\ \A m \in Media : item'[o][m].state =
                      IF item[o][m].state \in {"unlinking", "unlinking_retry"}
                      THEN "unlink_failed" ELSE item[o][m].state
Removed(o) == /\ op[o].status = "running" /\ op'[o].phase = "other"
              /\ \A m \in Media : item'[o][m].state =
                    IF item[o][m].state \in {"unlinking", "unlinking_retry"}
                    THEN "none" ELSE item[o][m].state
              /\ \/ op'[o].status = "running"
                 \/ /\ op'[o].status = "checkpointing"
                    /\ \/ worker.pc = "settle batch" /\ o \in worker.ops /\ o \in Asset
                       \/ \A m \in Media : item'[o][m].state \in {"none", "failed"}
Drained(o) == op[o].status = "checkpointing" /\ Turns(o, Outcome(o), op[o].phase) /\ SameStates(o)

Course(o) ==
    \/ Keeps(o) \/ Asked(o) \/ Replaced(o) \/ Resumed(o) \/ Opened(o) \/ TakenAlong(o)
    \/ Refusal(o) \/ Prepared(o) \/ Started(o) \/ Claims(o) \/ Concluded(o) \/ Cleared(o)
    \/ Unremoved(o) \/ Removed(o) \/ Drained(o)

LEMMA StaysOnCourse ==
    ASSUME NEW o \in Op, op'[o] = op[o], item'[o] = item[o]
    PROVE  Course(o)
  BY DEF Course, Keeps, Turns, Moves

LEMMA PeopleCourse ==
    ASSUME TypeOK, Control, People, NEW o \in Op
    PROVE  Course(o)
<1>0. op[o] \in OpRow /\ \A m \in Media : item[o][m] \in ItemRow
  BY TypesAre DEF Types
<1>1. ASSUME NEW chosen \in SUBSET Asset, Enqueue(chosen) PROVE Course(o)
  <2> DEFINE active == {a \in Asset : op[a].status \in ActiveStatus}
             fresh == chosen \ active
  <2>1. op' = [p \in Op |->
             IF p \in fresh THEN
                 [NoOp EXCEPT !.status = "queued", !.phase = "identity_queued",
                              !.id = Newest + Cardinality({a \in fresh : a <= p})]
             ELSE IF active = {} /\ p \in Asset /\ op[p].status = "completed"
             THEN [op[p] EXCEPT !.status = "superseded"] ELSE op[p]]
        /\ item' = item
    BY <1>1 DEF Enqueue
  <2>2. CASE o \in fresh
    <3>1. Turns(o, "queued", "identity_queued")
      BY <2>1, <2>2 DEF NoOp, Turns
    <3>2. op[o].status \notin {"queued", "running", "checkpointing", "failed"}
      BY <2>2 DEF ActiveStatus
    <3> QED
      BY <2>1, <3>1, <3>2 DEF Course, Asked, SameStates
  <2>3. CASE o \notin fresh
    <3>1. op'[o] = IF active = {} /\ o \in Asset /\ op[o].status = "completed"
                   THEN [op[o] EXCEPT !.status = "superseded"] ELSE op[o]
      BY <2>1, <2>3
    <3>2. op'[o] = op[o] \/ (op[o].status = "completed" /\ Turns(o, "superseded", op[o].phase))
      BY <1>0, <3>1 DEF OpRow, Turns
    <3> QED
      BY <2>1, <3>2, StaysOnCourse DEF Course, Replaced, SameStates
  <2> QED
    BY <2>2, <2>3
<1>2. ASSUME NEW p \in Op, Retry(p) PROVE Course(o)
  <2>1. CASE o # p
    <3>1. \A q \in Op \ {p} : item'[q] = item[q] /\ op'[q] = op[q]
      BY <1>2, RetryDoes
    <3> QED
      BY <2>1, <3>1, StaysOnCourse
  <2>2. CASE o = p
    <3>1. /\ op[o].status = "failed" /\ op'[o].status = "queued" /\ "retry" \in scenario.events
          /\ op'[o].phase \in {"identity_queued", "other"}
          /\ \A m \in Media :
                item'[o][m].state = IF item[o][m].state = "failed" /\ m \in Rows THEN "pending"
                                    ELSE IF item[o][m].state \in {"failed", "unlink_failed"}
                                    THEN "unlink_retry" ELSE item[o][m].state
      BY <1>2, <2>2, RetryDoes
    <3>2. op'[o].phase = IF o \in Asset /\ asset[o] # "gone" /\ In(o, {"failed", "unlink_failed"}) = {}
                         THEN "identity_queued" ELSE "other"
      <4>1. PICK n : op' = [op EXCEPT ![o] = [op[o] EXCEPT !.status = "queued", !.failed = 0, !.processed = n,
                        !.phase = IF o \in Asset /\ asset[o] # "gone" /\ In(o, {"failed", "unlink_failed"}) = {}
                                  THEN "identity_queued" ELSE "other"]]
        BY <1>2, <2>2 DEF Retry
      <4>2. op \in [Op -> OpRow]
        BY TypesAre DEF Types
      <4> DEFINE ph == IF o \in Asset /\ asset[o] # "gone" /\ In(o, {"failed", "unlink_failed"}) = {}
                       THEN "identity_queued" ELSE "other"
      <4>3. op'[o] = [op[o] EXCEPT !.status = "queued", !.failed = 0, !.processed = n, !.phase = ph]
        BY <4>1, <4>2
      <4> HIDE DEF ph
      <4>4. op'[o].phase = ph
        BY <4>3, <1>0 DEF OpRow
      <4> QED
        BY <4>4 DEF ph
    <3>3. \A m \in Media : m \in In(o, {"failed", "unlink_failed"}) <=> item[o][m].state \in {"failed", "unlink_failed"}
      BY DEF In
    <3>4. CASE op'[o].phase = "identity_queued"
      BY <3>1, <3>2, <3>3, <3>4 DEF Course, Asked, Turns, SameStates
    <3>5. CASE op'[o].phase = "other"
      <4>1. ASSUME o \in Asset, asset[o] # "gone" PROVE FALSE
        <5>1. \A m \in Media : item[o][m].state = "none"
          BY <4>1 DEF Control, Untouched, NothingYet
        <5>2. In(o, {"failed", "unlink_failed"}) = {}
          BY <5>1 DEF In
        <5> QED
          BY <3>2, <3>5, <4>1, <5>2
      <4> QED
        BY <3>1, <3>5, <4>1 DEF Course, Resumed, Turns
    <3> QED
      BY <3>1, <3>4, <3>5
  <2> QED
    BY <2>1, <2>2
<1>3. ASSUME NEW m \in Media, (\E c \in Content : Import(m, c)) \/ Adopt(m) PROVE Course(o)
  BY <1>3, StaysOnCourse DEF Import, Adopt
<1>4. ASSUME DeleteChat \/ \E a \in Asset : Restore(a) \/ Trash(a) PROVE Course(o)
  BY <1>4, StaysOnCourse DEF DeleteChat, Restore, Trash
<1> QED
  BY <1>1, <1>2, <1>3, <1>4 DEF People


LEMMA StageCourse ==
    ASSUME TypeOK, Control, BeginPass \/ StageIdentities \/ PrepareReferences, NEW o \in Op
    PROVE  Course(o)
<1>0. /\ op \in [Op -> OpRow] /\ item \in [Op -> [Media -> ItemRow]] /\ worker \in WorkerRow /\ op[o] \in OpRow
  BY TypesAre DEF Types
<1>1. CASE BeginPass
  <2>1. CASE chat # "deleted"
    BY <1>1, <2>1, StaysOnCourse DEF BeginPass
  <2>2. CASE chat = "deleted"
    <3>1. PICK mine \in SUBSET Media :
            /\ item' = [item EXCEPT ![Chat] = Pending(mine)]
            /\ op' = [op EXCEPT ![Chat] =
                   [NoOp EXCEPT !.status = "queued", !.id = Newest + 1, !.total = Cardinality(mine)]]
      BY <1>1, <2>2, PassDoes
    <3>2. CASE o # Chat
      BY <3>1, <3>2, <1>0, StaysOnCourse
    <3>3. CASE o = Chat
      <4>1. op[o].status = "none"
        BY <2>2, <3>3 DEF Control, Untouched
      <4>2. Turns(o, "queued", "other")
        BY <3>1, <3>3, <1>0 DEF NoOp, Turns
      <4>3. \A m \in Media : item'[o][m].state \in {"none", "pending"}
        BY <3>1, <3>3, <1>0 DEF Pending, NoItem
      <4> QED
        BY <3>3, <4>1, <4>2, <4>3 DEF Course, Opened
    <3> QED
      BY <3>2, <3>3
  <2> QED
    BY <2>1, <2>2
<1>2. CASE StageIdentities
  <2>1. CASE UNCHANGED db
    BY <2>1, StaysOnCourse DEF db
  <2>2. ASSUME NEW valid \in SUBSET Asset, NEW scrubbed \in BOOLEAN, StagedSlice(valid, scrubbed)
        PROVE  Course(o)
    <3>1. \/ o \notin valid /\ op'[o] = op[o]
          \/ /\ o \in Queued("identity_refs_scrubbed") \ valid
             /\ asset[o] \notin {"trashed", "deleting"} /\ op'[o] = Rejected(o)
          \/ /\ o \in valid /\ Mine(o, valid) = {}
             /\ op'[o] = [op[o] EXCEPT !.status = "checkpointing", !.phase = "other"]
          \/ /\ o \in valid /\ Mine(o, valid) # {}
             /\ op'[o] = [op[o] EXCEPT !.total = Cardinality(Mine(o, valid)),
                                       !.status = IF scrubbed THEN "running" ELSE "queued",
                                       !.phase = IF scrubbed THEN "unlinking_artifacts" ELSE "other"]
      BY <2>2 DEF StagedSlice
    <3>2. CASE o \notin valid
      <4>1. \A m \in Media : item'[o][m] = item[o][m]
        BY <2>2, <3>2, SliceItems
      <4>2. CASE op'[o] = op[o]
        BY <4>1, <4>2 DEF Course, Keeps, Turns, Moves
      <4>3. CASE op'[o] # op[o]
        <5>1. o \in Queued("identity_refs_scrubbed") /\ op'[o] = Rejected(o)
          BY <3>1, <3>2, <4>3
        <5>2. asset[o] # "gone" /\ op[o].status = "queued"
          BY <5>1 DEF Queued, IdentityPhase, Control, Untouched
        <5>3. Turns(o, "failed", "other")
          BY <5>1, <5>2, <1>0 DEF Rejected, OpRow, Turns
        <5> QED
          BY <4>1, <5>2, <5>3 DEF Course, Refusal, SameStates
      <4> QED
        BY <4>2, <4>3
    <3>3. CASE o \in valid
      <4>1. o \in Asset /\ asset'[o] = "gone" /\ op[o].status = "queued"
        BY <2>2, <3>3 DEF StagedSlice, Queued
      <4>2. ASSUME Mine(o, valid) = {} PROVE Course(o)
        <5>1. Turns(o, "checkpointing", "other")
          BY <3>1, <3>3, <4>2, <1>0 DEF OpRow, Turns
        <5>2. ASSUME NEW m \in Media PROVE item'[o][m].state = "none"
          <6>1. item'[o][m] = NoItem
            BY <2>2, <3>3, <4>2, SliceItems
          <6> QED
            BY <6>1, NoKeyIn
        <5> QED
          BY <4>1, <5>1, <5>2 DEF Course, TakenAlong
      <4>3. ASSUME Mine(o, valid) # {} PROVE Course(o)
        <5>1. op'[o] = [op[o] EXCEPT !.total = Cardinality(Mine(o, valid)),
                                     !.status = IF scrubbed THEN "running" ELSE "queued",
                                     !.phase = IF scrubbed THEN "unlinking_artifacts" ELSE "other"]
          BY <3>1, <3>3, <4>3
        <5>2. IF scrubbed THEN Turns(o, "running", "unlinking_artifacts") ELSE Turns(o, "queued", "other")
          BY <5>1, <1>0 DEF OpRow, Turns
        <5>3. ASSUME NEW m \in Media
              PROVE  item'[o][m].state \in (IF scrubbed THEN {"none", "media_deleted"} ELSE {"none", "pending"})
          <6>1. m \notin Mine(o, valid) => item'[o][m] = NoItem
            BY <2>2, <3>3, SliceItems
          <6>2. m \in Mine(o, valid) => IF scrubbed THEN item'[o][m].state = "media_deleted"
                                                    ELSE item'[o][m].state = "pending"
            BY <2>2, <3>3, SliceItems
          <6> QED
            BY <6>1, <6>2, NoKeyIn
        <5>4. CASE scrubbed
          BY <4>1, <5>2, <5>3, <5>4 DEF Course, TakenAlong
        <5>5. CASE ~scrubbed
          BY <4>1, <5>2, <5>3, <5>5 DEF Course, TakenAlong
        <5> QED
          BY <5>4, <5>5
      <4> QED
        BY <4>2, <4>3
    <3> QED
      BY <3>2, <3>3
  <2> QED
    BY <1>2, <2>1, <2>2, StageDoes
<1>3. CASE PrepareReferences
  <2>1. worker'.pc = "stage again" /\ item' = item
    BY <1>3, <1>0 DEF PrepareReferences, Goes, WorkerRow
  <2>2. \/ op'[o] = op[o]
        \/ op[o].status = "queued" /\ op'[o] = [op[o] EXCEPT !.phase = "identity_refs_scrubbed"]
        \/ op[o].status = "queued" /\ asset[o] # "gone" /\ op'[o] = Rejected(o)
    <3>1. op'[o] = IF o \notin Queued("identity_queued") THEN op[o]
                   ELSE IF o \in Deletable(Queued("identity_queued"))
                   THEN [op[o] EXCEPT !.phase = "identity_refs_scrubbed"] ELSE Rejected(o)
      BY <1>3 DEF PrepareReferences
    <3>2. o \in Queued("identity_queued") => op[o].status = "queued" /\ asset[o] # "gone"
      BY DEF Queued, IdentityPhase, Control, Untouched
    <3> QED
      BY <3>1, <3>2
  <2>3. CASE op'[o] = op[o]
    BY <2>1, <2>3, StaysOnCourse
  <2>4. CASE op[o].status = "queued" /\ op'[o] = [op[o] EXCEPT !.phase = "identity_refs_scrubbed"]
    <3>1. Turns(o, "queued", "identity_refs_scrubbed")
      BY <2>4, <1>0 DEF OpRow, Turns
    <3> QED
      BY <2>1, <2>4, <3>1 DEF Course, Prepared, SameStates
  <2>5. CASE op[o].status = "queued" /\ asset[o] # "gone" /\ op'[o] = Rejected(o)
    <3>1. Turns(o, "failed", "other")
      BY <2>5, <1>0 DEF OpRow, Turns, Rejected
    <3> QED
      BY <2>1, <2>5, <3>1 DEF Course, Refusal, SameStates
  <2> QED
    BY <2>2, <2>3, <2>4, <2>5
<1> QED
  BY <1>1, <1>2, <1>3

LEMMA ClaimCourse ==
    ASSUME TypeOK, Control, Orderly,
           RecoverLeases \/ ClaimBatch \/ TakeUpOldest \/ Finalize \/ Claim \/ Conclude, NEW o \in Op
    PROVE  Course(o)
<1>0. /\ op \in [Op -> OpRow] /\ item \in [Op -> [Media -> ItemRow]] /\ worker \in WorkerRow /\ op[o] \in OpRow
  BY TypesAre DEF Types
<1>1. CASE RecoverLeases \/ ClaimBatch \/ Finalize
  <2>1. \A m \in Media : Moves(item[o][m].state, item'[o][m].state)
    BY <1>1, ItemsMove DEF Control, Moved
  <2>2. op' = op
    BY <1>1 DEF RecoverLeases, ClaimBatch, Finalize
  <2> QED
    BY <2>1, <2>2 DEF Course, Keeps, Turns
<1>2. CASE TakeUpOldest
  <2> DEFINE active == {p \in Op : op[p].status \in {"queued", "running"} /\ op[p].phase # "identity_queued"}
             oldest == First(active, 1)
  <2>1. op'[o] = (IF o \in oldest /\ op[o].status = "queued"
                  THEN [op[o] EXCEPT !.status = "running", !.phase = "other"] ELSE op[o])
        /\ item' = item /\ worker.pc = "head"
    BY <1>2 DEF TakeUpOldest
  <2>2. o \in oldest => op[o].phase # "identity_queued"
    BY DEF First
  <2>3. CASE o \in oldest /\ op[o].status = "queued"
    <3>1. Turns(o, "running", "other")
      BY <2>1, <2>3, <1>0 DEF OpRow, Turns
    <3> QED
      BY <2>1, <2>2, <2>3, <3>1 DEF Course, Started, SameStates
  <2>4. CASE ~(o \in oldest /\ op[o].status = "queued")
    BY <2>1, <2>4, StaysOnCourse
  <2> QED
    BY <2>3, <2>4
<1>3. CASE Claim
  <2>1. PICK p \in worker.ops : op' = [op EXCEPT ![p].phase = "other"] /\ worker.pc = "claim"
                                /\ \A q \in Op \ {p} : item'[q] = item[q]
    BY <1>3, <1>0 DEF Claim
  <2>2. p \in Op /\ op[p].status = "running"
    BY <2>1, <1>0 DEF Orderly, TakenUp, WorkerRow
  <2>3. CASE o # p
    BY <2>1, <2>3, <1>0, StaysOnCourse
  <2>4. CASE o = p
    <3>1. Turns(o, "running", "other")
      BY <2>1, <2>2, <2>4, <1>0 DEF OpRow, Turns
    <3>2. \A m \in Media : Moves(item[o][m].state, item'[o][m].state)
      BY <1>3, ItemsMove DEF Control, Moved
    <3> QED
      BY <2>2, <2>4, <3>1, <3>2 DEF Course, Claims
  <2> QED
    BY <2>3, <2>4
<1>4. CASE Conclude
  <2>1. PICK p \in worker.ops :
           \/ UNCHANGED op
           \/ /\ In(p, ItemState \ {"none", "failed"}) = {}
              /\ \E s \in {"checkpointing", op[p].status, Outcome(p)} :
                    op' = [op EXCEPT ![p].status = s, ![p].phase = "other"]
    BY <1>4 DEF Conclude
  <2>2. p \in Op /\ op[p].status = "running" /\ item' = item
    BY <1>4, <1>0 DEF Conclude, Orderly, TakenUp, WorkerRow
  <2>3. CASE op'[o] = op[o]
    BY <2>2, <2>3, StaysOnCourse
  <2>4. CASE op'[o] # op[o]
    <3>1. PICK s \in {"checkpointing", "running", Outcome(p)} :
             op' = [op EXCEPT ![p].status = s, ![p].phase = "other"]
      BY <2>1, <2>2, <2>4
    <3>2. o = p /\ In(p, ItemState \ {"none", "failed"}) = {}
      BY <2>1, <2>4, <3>1, <1>0
    <3>3. Turns(o, s, "other")
      BY <3>1, <3>2, <1>0 DEF OpRow, Turns
    <3>4. ASSUME NEW m \in Media PROVE item[o][m].state \in {"none", "failed"}
      <4>1. item[o][m].state \in ItemState
        BY <1>0 DEF ItemRow
      <4> QED
        BY <3>2, <4>1 DEF In
    <3> QED
      BY <2>2, <3>2, <3>3, <3>4 DEF Course, Concluded, SameStates, Turns
  <2> QED
    BY <2>3, <2>4
<1> QED
  BY <1>1, <1>2, <1>3, <1>4


LEMMA RemovalCourse ==
    ASSUME TypeOK, Control, Orderly, InHandOf,
           DeleteRows \/ MarkFailed \/ Unlink \/ Settle \/ SettleBatch \/ Checkpoint \/ Crash, NEW o \in Op
    PROVE  Course(o)
<1>0. /\ op \in [Op -> OpRow] /\ item \in [Op -> [Media -> ItemRow]] /\ worker \in WorkerRow /\ op[o] \in OpRow
      /\ \A m \in Media : item[o][m] \in ItemRow
  BY TypesAre DEF Types
<1>1. CASE DeleteRows
  <2>1. PICK p \in worker.ops, bad \in SUBSET worker.work, good \in SUBSET Media : RowsDeleted(p, bad, good)
    BY <1>1, DeleteDoes
  <2>2. p \in Op /\ worker.pc = "scrub" /\ op[p].status = "running" /\ worker.work \in SUBSET Media
        /\ \A m \in worker.work : item[p][m].state = "claimed"
    BY <2>1, <1>0 DEF RowsDeleted, Orderly, TakenUp, Control, WorkIsClaimed, WorkerRow
  <2>3. CASE o # p
    BY <2>1, <2>3, <1>0, StaysOnCourse DEF RowsDeleted
  <2>4. CASE o = p
    <3>1. op'[o] = [op[o] EXCEPT !.phase = IF bad = worker.work THEN @ ELSE "unlinking_artifacts"]
      BY <2>1, <2>4, <1>0 DEF RowsDeleted
    <3>2. ASSUME NEW m \in Media
          PROVE  IF m \in worker.work \ bad THEN item'[o][m].state = "media_deleted"
                 ELSE item'[o][m] = item[o][m]
      <4>1. item'[o][m] = IF m \in good THEN StagedRows(good)[m]
                          ELSE IF m \in worker.work \ bad THEN [item[o][m] EXCEPT !.state = "media_deleted"]
                          ELSE item[o][m]
        BY <2>1, <2>4, <1>0 DEF RowsDeleted
      <4>2. good = (worker.work \ bad) \cap Rows
        BY <2>1 DEF RowsDeleted
      <4>3. m \in good => StagedRows(good)[m].state = "media_deleted"
        <5> DEFINE r == Staged(media, m)
        <5>1. m \in good => \E k : StagedRows(good)[m] = [r EXCEPT !.key = k]
          BY DEF StagedRows
        <5>2. r \in ItemRow /\ r.state = "media_deleted"
          BY OperatorTypes DEF Staged
        <5> HIDE DEF r
        <5> QED
          BY <5>1, <5>2 DEF ItemRow
      <4>4. [item[o][m] EXCEPT !.state = "media_deleted"].state = "media_deleted"
        BY <1>0 DEF ItemRow
      <4> QED
        BY <4>1, <4>2, <4>3, <4>4
    <3>3. CASE bad = worker.work
      <4>1. Turns(o, op[o].status, op[o].phase)
        BY <3>1, <3>3, <1>0 DEF OpRow, Turns
      <4>2. \A m \in Media : item'[o][m] = item[o][m]
        BY <3>2, <3>3
      <4> QED
        BY <4>1, <4>2 DEF Course, Keeps, Moves
    <3>4. CASE bad # worker.work
      <4>1. Turns(o, "running", "unlinking_artifacts")
        BY <3>1, <3>4, <2>2, <2>4, <1>0 DEF OpRow, Turns
      <4>2. \E m \in Media : item[o][m].state = "claimed"
        BY <3>4, <2>2, <2>4
      <4> QED
        BY <2>2, <2>4, <3>2, <4>1, <4>2 DEF Course, Cleared
    <3> QED
      BY <3>3, <3>4
  <2> QED
    BY <2>3, <2>4
<1>2. CASE MarkFailed
  <2>1. \A m \in Media : Moves(item[o][m].state, item'[o][m].state)
    BY <1>2, ItemsMove DEF Control, Moved
  <2>2. PICK p \in worker.ops :
          op' = [op EXCEPT ![p].processed = @ + Cardinality(worker.work),
                           ![p].failed = @ + Cardinality(worker.work)]
    BY <1>2 DEF MarkFailed
  <2>3. Turns(o, op[o].status, op[o].phase)
    BY <2>2, <1>0 DEF OpRow, Turns
  <2> QED
    BY <2>1, <2>3 DEF Course, Keeps
<1>3. CASE Unlink \/ Crash
  BY <1>3, StaysOnCourse DEF Unlink, Crash, db
<1>4. CASE Settle \/ SettleBatch
  <2>1. Settles
    BY <1>4, SettleDoes
  <2>2. CASE o \notin worker.ops
    <3>1. op'[o] = op[o] /\ \A m \in Media : item'[o][m] = item[o][m]
      BY <2>1, <2>2 DEF Settles
    <3> QED
      BY <3>1 DEF Course, Keeps, Turns, Moves
  <2>3. CASE o \in worker.ops
    <3>1. op[o].status = "running"
      BY <2>1, <2>3 DEF Settles, Orderly, TakenUp, InHandOf
    <3>2. ASSUME NEW m \in Media
          PROVE  item'[o][m].state = IF item[o][m].state \in {"unlinking", "unlinking_retry"}
                                     THEN IF o \in worker.broken THEN "unlink_failed" ELSE "none"
                                     ELSE item[o][m].state
      <4>1. [item[o][m] EXCEPT !.state = "unlink_failed"].state = "unlink_failed" /\ NoItem.state = "none"
        BY <1>0, NoKeyIn DEF ItemRow
      <4>2. item'[o][m] = IF item[o][m].state \in {"unlinking", "unlinking_retry"}
                          THEN IF o \in worker.broken THEN [item[o][m] EXCEPT !.state = "unlink_failed"]
                               ELSE NoItem
                          ELSE item[o][m]
        BY <2>1, <2>3 DEF Settles
      <4> QED
        BY <4>1, <4>2
    <3>3. \A n : LET r == Counted(o, n)
                 IN  /\ r.phase = "other"
                     /\ r.status = IF o \in worker.broken THEN "failed" ELSE op[o].status
                     /\ LET q == [r EXCEPT !.status = "checkpointing"]
                        IN  q.phase = "other" /\ q.status = "checkpointing"
      BY <1>0 DEF Counted, OpRow
    <3>4. \/ op'[o] = Counted(o, Cardinality(InUnlink(o)))
          \/ /\ o \in (worker.ops \ worker.broken) \cap Asset
             /\ op'[o] = [Counted(o, Cardinality(InUnlink(o))) EXCEPT !.status = "checkpointing"]
             /\ \/ worker.pc = "settle batch"
                \/ In(o, ItemState \ {"none", "failed"}) \ InUnlink(o) = {}
      BY <2>1, <2>3 DEF Settles
    <3>5. CASE o \in worker.broken
      <4>1. Turns(o, "failed", "other")
        BY <3>3, <3>4, <3>5 DEF Turns
      <4> QED
        BY <3>1, <3>2, <3>5, <4>1 DEF Course, Unremoved
    <3>6. CASE o \notin worker.broken
      <4>1. ASSUME In(o, ItemState \ {"none", "failed"}) \ InUnlink(o) = {}, NEW m \in Media
            PROVE  item'[o][m].state \in {"none", "failed"}
        <5>1. item[o][m].state \in ItemState
          BY <1>0 DEF ItemRow
        <5>2. item[o][m].state \in {"none", "failed", "unlinking", "unlinking_retry"}
          BY <4>1, <5>1 DEF In, InUnlink
        <5> QED
          BY <3>2, <3>6, <5>2
      <4>2. op'[o].phase = "other" /\ op'[o].status \in {"running", "checkpointing"}
        BY <3>1, <3>3, <3>4, <3>6
      <4>3. op'[o].status = "checkpointing" =>
               \/ worker.pc = "settle batch" /\ o \in worker.ops /\ o \in Asset
               \/ In(o, ItemState \ {"none", "failed"}) \ InUnlink(o) = {}
        BY <3>1, <3>3, <3>4, <3>6
      <4> QED
        BY <3>1, <3>2, <3>6, <4>1, <4>2, <4>3 DEF Course, Removed
    <3> QED
      BY <3>5, <3>6
  <2> QED
    BY <2>2, <2>3
<1>5. CASE Checkpoint
  <2>1. item' = item /\ \/ op'[o] = op[o]
                        \/ op[o].status = "checkpointing" /\ op'[o] = [op[o] EXCEPT !.status = Outcome(o)]
    BY <1>5 DEF Checkpoint
  <2>2. CASE op'[o] = op[o]
    BY <2>1, <2>2, StaysOnCourse
  <2>3. CASE op[o].status = "checkpointing" /\ op'[o] = [op[o] EXCEPT !.status = Outcome(o)]
    <3>1. Turns(o, Outcome(o), op[o].phase)
      BY <2>3, <1>0 DEF OpRow, Turns
    <3> QED
      BY <2>1, <2>3, <3>1 DEF Course, Drained, SameStates
  <2> QED
    BY <2>1, <2>2, <2>3
<1> QED
  BY <1>1, <1>2, <1>3, <1>4, <1>5

LEMMA OperationsCourse ==
    ASSUME TypeOK, Control, Orderly, InHandOf, [Next]_vars, NEW o \in Op
    PROVE  Course(o)
<1>1. CASE LateOwners \/ LeasesLapse \/ UNCHANGED vars
  BY <1>1, StaysOnCourse, LateDoes DEF LeasesLapse, vars, db
<1> QED
  BY <1>1, PeopleCourse, StageCourse, ClaimCourse, RemovalCourse DEF Next, Works

\* An operation that is worked on is left to the worker.
LEMMA RunningStays ==
    ASSUME TypeOK, Elsewhere, NEW o \in Op, op[o].status = "running"
    PROVE  op'[o] = op[o] /\ item'[o] = item[o]
<1>1. CASE LateOwners \/ LeasesLapse \/ UNCHANGED vars
  BY <1>1, LateDoes DEF LeasesLapse, vars, db
<1>2. ASSUME NEW chosen \in SUBSET Asset, Enqueue(chosen) PROVE op'[o] = op[o] /\ item'[o] = item[o]
  <2>1. o \notin chosen \ {a \in Asset : op[a].status \in ActiveStatus}
    BY DEF ActiveStatus
  <2> QED
    BY <1>2, <2>1 DEF Enqueue
<1>3. ASSUME NEW p \in Op, Retry(p) PROVE op'[o] = op[o] /\ item'[o] = item[o]
  BY <1>3, RetryDoes
<1>4. ASSUME NEW m \in Media, (\E c \in Content : Import(m, c)) \/ Adopt(m) PROVE op' = op /\ item' = item
  BY <1>4 DEF Import, Adopt
<1>5. ASSUME DeleteChat \/ \E a \in Asset : Restore(a) \/ Trash(a) PROVE op' = op /\ item' = item
  BY <1>5 DEF DeleteChat, Restore, Trash
<1> QED
  BY <1>1, <1>2, <1>3, <1>4, <1>5 DEF Elsewhere, People

LEMMA InHandStep ==
    TypeOK /\ Control /\ Orderly /\ InHandOf /\ [Next]_vars => InHandOf'
<1> SUFFICES ASSUME TypeOK, Control, Orderly, InHandOf, [Next]_vars, worker'.pc \in {"unlink", "settle"}
             PROVE  \A o \in worker'.ops : op'[o].status = "running"
  BY DEF InHandOf
<1>0. worker \in WorkerRow
  BY TypesAre DEF Types
<1>1. CASE Elsewhere
  <2>1. \A o \in worker.ops : o \in Op /\ op[o].status = "running"
    BY <1>0, <1>1 DEF Elsewhere, InHandOf, WorkerRow
  <2> QED
    BY <1>1, <2>1, RunningStays DEF Elsewhere
<1>2. CASE ClaimBatch
  <2>1. Goes("head") \/ \E ops, kept : Takes("unlink batch", ops, {}, kept)
    BY <1>2 DEF ClaimBatch
  <2> QED
    <3>1. Goes("head") => worker'.pc = "head"
      BY <1>0 DEF Goes, WorkerRow
    <3>2. \A pc, ops, work, kept : Takes(pc, ops, work, kept) => worker'.pc = pc
      BY DEF Takes
    <3> QED
      BY <2>1, <3>1, <3>2
<1>3. CASE Finalize
  <2>1. PICK p \in worker.ops : Goes("claim") \/ Takes("unlink", {p}, {}, Retained({p}))
    BY <1>3 DEF Finalize
  <2>2. op' = op /\ op[p].status = "running"
    BY <1>3 DEF Finalize, Orderly, TakenUp
  <2>3. worker'.ops = {p}
    BY <2>1, <1>0 DEF Goes, Takes, WorkerRow
  <2> QED
    BY <2>2, <2>3
<1>4. CASE Unlink
  <2>1. \E broken : worker' = [worker EXCEPT !.pc = IF @ = "unlink" THEN "settle" ELSE "settle batch",
                                             !.broken = broken]
    BY <1>4 DEF Unlink
  <2>2. worker'.ops = worker.ops /\ worker.pc = "unlink" /\ op' = op
    BY <2>1, <1>0, <1>4 DEF WorkerRow, Unlink, db
  <2> QED
    BY <2>2 DEF InHandOf
<1> QED
  BY <1>1, <1>2, <1>3, <1>4, Enters


-----------------------------------------------------------------------------
(* What completed operations have given up.                                 *)

\* An identity that is gone owns nothing.
Relinquished ==
    /\ \A a \in Asset : asset[a] = "gone" => \A m \in Media : a \notin media[m].owners
    /\ chat = "gone" => \A m \in Media : Chat \notin media[m].owners

\* Whose references are not prepared has not been taken up, and what has been
\* taken up has lost its identity.
UnderWay == {"running", "checkpointing", "completed", "superseded"}
Begun ==
    \A a \in Asset :
        /\ op[a].status \in UnderWay => op[a].phase \notin IdentityPhase
        /\ op[a].status \in UnderWay \cup {"queued"} /\ op[a].phase \notin IdentityPhase => asset[a] = "gone"

\* A slice leaves no operation behind whose references are prepared.
AllStaged ==
    worker.pc \notin {"idle", "stage", "stage again"} =>
        \A a \in Asset : ~(op[a].status = "queued" /\ op[a].phase = "identity_refs_scrubbed")

\* What is gone stays gone, and only the steps that delete an identity do so.
LEMMA GoneStays ==
    ASSUME TypeOK, [Next]_vars
    PROVE  /\ \A a \in Asset : asset[a] = "gone" => asset'[a] = "gone"
           /\ chat = "gone" => chat' = "gone"
           /\ (\E a \in Asset : asset'[a] = "gone" /\ asset[a] # "gone") => StageIdentities
           /\ chat' = "gone" /\ chat # "gone" => BeginPass /\ chat = "deleted"
<1> DEFINE Goal == /\ \A a \in Asset : asset[a] = "gone" => asset'[a] = "gone"
                   /\ chat = "gone" => chat' = "gone"
                   /\ (\E a \in Asset : asset'[a] = "gone" /\ asset[a] # "gone") => StageIdentities
                   /\ chat' = "gone" /\ chat # "gone" => BeginPass /\ chat = "deleted"
<1>0. asset \in [Asset -> {"active", "trashed", "deleting", "gone"}]
  BY TypesAre DEF Types
<1>1. CASE UNCHANGED <<asset, chat>>
  BY <1>1
<1>2. ASSUME NEW chosen \in SUBSET Asset, Enqueue(chosen) PROVE Goal
  BY <1>2 DEF Enqueue
<1>3. ASSUME NEW a \in Asset, Restore(a) \/ Trash(a) PROVE Goal
  BY <1>3, <1>0 DEF Restore, Trash
<1>4. CASE DeleteChat
  BY <1>4 DEF DeleteChat
<1>5. CASE BeginPass
  BY <1>5 DEF BeginPass
<1>6. CASE StageIdentities
  <2>1. CASE UNCHANGED db
    BY <1>1, <2>1 DEF db
  <2>2. ASSUME NEW valid \in SUBSET Asset, NEW scrubbed \in BOOLEAN, StagedSlice(valid, scrubbed)
        PROVE  Goal
    BY <1>6, <2>2 DEF StagedSlice
  <2> QED
    BY <1>6, <2>1, <2>2, StageDoes
<1>7. ASSUME ~StageIdentities, ~BeginPass, ~DeleteChat, ~\E a \in Asset : Restore(a) \/ Trash(a),
             ~\E chosen \in SUBSET Asset : Enqueue(chosen)
      PROVE  UNCHANGED <<asset, chat>>
  <2>1. (\E o \in Op : Retry(o)) \/ (\E m \in Media : (\E c \in Content : Import(m, c)) \/ Adopt(m)) =>
           UNCHANGED <<asset, chat>>
    BY DEF Retry, Import, Adopt
  <2>2. LateOwners \/ LeasesLapse \/ Crash \/ UNCHANGED vars => UNCHANGED <<asset, chat>>
    BY LateDoes DEF LeasesLapse, Crash, vars, db
  <2>3. PrepareReferences \/ RecoverLeases \/ ClaimBatch \/ TakeUpOldest \/ Finalize \/ Claim \/ Conclude =>
           UNCHANGED <<asset, chat>>
    BY DEF PrepareReferences, RecoverLeases, ClaimBatch, TakeUpOldest, Finalize, Claim, Conclude
  <2>4. DeleteRows \/ MarkFailed \/ Unlink \/ Settle \/ SettleBatch \/ Checkpoint => UNCHANGED <<asset, chat>>
    BY DEF DeleteRows, MarkFailed, Unlink, Settle, SettleBatch, Checkpoint, db
  <2> QED
    BY <1>7, <2>1, <2>2, <2>3, <2>4 DEF Next, People, Works
<1> QED
  BY <1>1, <1>2, <1>3, <1>4, <1>5, <1>6, <1>7

\* Nobody becomes an owner but Other.
LEMMA OnlyOthersCome ==
    ASSUME TypeOK, [Next]_vars, NEW m \in Media
    PROVE  media'[m].owners \subseteq media[m].owners \cup {Other}
<1>1. CASE UNCHANGED media
  BY <1>1
<1>2. ASSUME NEW o \in Op, Retry(o) PROVE media'[m].owners \subseteq media[m].owners
  BY <1>2, RetryDoes
<1>3. ASSUME NEW n \in Media, NEW c \in Content, Import(n, c)
      PROVE  media'[m].owners \subseteq media[m].owners \cup {Other}
  <2>1. m = n \/ m \in Media \ {n}
    OBVIOUS
  <2> QED
    BY <1>3, <2>1, ArrivalDoes
<1>4. ASSUME NEW n \in Media, Adopted(n) PROVE media'[m].owners \subseteq media[m].owners \cup {Other}
  <2>1. m = n \/ m \in Media \ {n}
    OBVIOUS
  <2> QED
    BY <1>4, <2>1, ArrivalDoes
<1>5. CASE BeginPass
  <2>1. CASE chat = "deleted"
    BY <1>5, <2>1, PassDoes
  <2>2. CASE chat # "deleted"
    BY <1>5, <2>2 DEF BeginPass
  <2> QED
    BY <2>1, <2>2
<1>6. CASE StageIdentities
  <2>1. CASE UNCHANGED db
    BY <2>1 DEF db
  <2>2. ASSUME NEW valid \in SUBSET Asset, NEW scrubbed \in BOOLEAN, StagedSlice(valid, scrubbed)
        PROVE  media'[m].owners \subseteq media[m].owners
    <3>1. CASE scrubbed /\ m \in AllOf(valid)
      <4>1. media'[m] = NoRow
        BY <2>2, <3>1, SliceRows
      <4> QED
        BY <4>1 DEF NoRow
    <3>2. CASE ~(scrubbed /\ m \in AllOf(valid))
      BY <2>2, <3>2, SliceRows
    <3> QED
      BY <3>1, <3>2
  <2> QED
    BY <1>6, <2>1, <2>2, StageDoes
<1>7. CASE DeleteRows
  <2>1. PICK o \in worker.ops, bad \in SUBSET worker.work, good \in SUBSET Media : RowsDeleted(o, bad, good)
    BY <1>7, DeleteDoes
  <2>2. media'[m] = IF m \in good THEN NoRow ELSE media[m]
    BY <2>1 DEF RowsDeleted
  <2> QED
    BY <2>2 DEF NoRow
<1>8. CASE RecoverLeases \/ ClaimBatch \/ Finalize \/ Claim \/ MarkFailed \/ Settle \/ SettleBatch
  BY <1>8 DEF RecoverLeases, ClaimBatch, Finalize, Claim, MarkFailed, Settle, SettleBatch
<1> QED
  BY <1>1, <1>2, <1>3, <1>4, <1>5, <1>6, <1>7, <1>8, StepKinds DEF Silent

LEMMA RelinquishedStep == TypeOK /\ Control /\ Relinquished /\ [Next]_vars => Relinquished'
<1> SUFFICES ASSUME TypeOK, Control, Relinquished, [Next]_vars PROVE Relinquished'
  OBVIOUS
<1>1. ASSUME NEW a \in Asset, asset'[a] = "gone", NEW m \in Media PROVE a \notin media'[m].owners
  <2>1. CASE asset[a] = "gone"
    BY <2>1, OnlyOthersCome, FinitePools DEF Relinquished
  <2>2. CASE asset[a] # "gone"
    <3>1. StageIdentities
      BY <1>1, <2>2, GoneStays
    <3>2. PICK valid \in SUBSET Asset, scrubbed \in BOOLEAN : StagedSlice(valid, scrubbed)
      <4>1. ~UNCHANGED db
        BY <1>1, <2>2 DEF db
      <4> QED
        BY <3>1, <4>1, StageDoes
    <3>3. a \in valid
      BY <1>1, <2>2, <3>2 DEF StagedSlice
    <3>4. CASE scrubbed /\ m \in AllOf(valid)
      <4>1. media'[m] = NoRow
        BY <3>2, <3>4, SliceRows
      <4> QED
        BY <4>1 DEF NoRow
    <3>5. CASE ~(scrubbed /\ m \in AllOf(valid))
      BY <3>2, <3>3, <3>5, SliceRows
    <3> QED
      BY <3>4, <3>5
  <2> QED
    BY <2>1, <2>2
<1>2. ASSUME chat' = "gone", NEW m \in Media PROVE Chat \notin media'[m].owners
  <2>1. CASE chat = "gone"
    BY <2>1, OnlyOthersCome, FinitePools DEF Relinquished
  <2>2. CASE chat # "gone"
    BY <1>2, <2>2, GoneStays, PassDoes
  <2> QED
    BY <2>1, <2>2
<1> QED
  BY <1>1, <1>2 DEF Relinquished

LEMMA BegunStep ==
    ASSUME TypeOK, Control, Orderly, InHandOf, Begun, AllStaged, [Next]_vars
    PROVE  Begun'
<1> SUFFICES ASSUME NEW a \in Asset
             PROVE  /\ op'[a].status \in UnderWay => op'[a].phase \notin IdentityPhase
                    /\ op'[a].status \in UnderWay \cup {"queued"} /\ op'[a].phase \notin IdentityPhase =>
                          asset'[a] = "gone"
  BY DEF Begun
<1>1. /\ op[a].status \in UnderWay => op[a].phase \notin IdentityPhase
      /\ op[a].status \in UnderWay \cup {"queued"} /\ op[a].phase \notin IdentityPhase => asset[a] = "gone"
  BY DEF Begun
<1>2. asset[a] = "gone" => asset'[a] = "gone"
  BY GoneStays
<1>3. Course(a) /\ a # Chat
  BY OperationsCourse, FinitePools
<1>4. Outcome(a) \in {"failed", "completed"}
  BY DEF Outcome
<1>5. CASE Keeps(a) \/ Replaced(a) \/ Drained(a)
  BY <1>1, <1>2, <1>4, <1>5 DEF Keeps, Replaced, Drained, Turns, UnderWay
<1>6. CASE Asked(a) \/ Refusal(a) \/ Prepared(a) \/ Unremoved(a)
  BY <1>6 DEF Asked, Refusal, Prepared, Unremoved, Turns, UnderWay, IdentityPhase
<1>7. CASE Resumed(a) \/ TakenAlong(a)
  BY <1>2, <1>7 DEF Resumed, TakenAlong, Turns, UnderWay, IdentityPhase
<1>8. CASE Started(a)
  <2>1. op[a].phase \notin IdentityPhase
    BY <1>8 DEF Started, AllStaged, IdentityPhase
  <2> QED
    BY <1>1, <1>2, <1>8, <2>1 DEF Started, Turns, UnderWay, IdentityPhase
<1>9. CASE Claims(a) \/ Concluded(a) \/ Cleared(a) \/ Removed(a)
  <2>1. op[a].status = "running"
    BY <1>9 DEF Claims, Concluded, Cleared, Removed
  <2>2. op'[a].phase \in {"other", "unlinking_artifacts"}
    BY <1>9 DEF Claims, Concluded, Cleared, Removed, Turns
  <2> QED
    BY <1>1, <1>2, <2>1, <2>2 DEF UnderWay, IdentityPhase
<1> QED
  BY <1>3, <1>5, <1>6, <1>7, <1>8, <1>9 DEF Course, Opened

\* The first n of no more than n operations are all of them.
LEMMA FirstIsAll ==
    ASSUME TypeOK, NEW n \in Nat, NumAssets =< n, NEW ops \in SUBSET Asset
    PROVE  First(ops, n) = ops
<1> SUFFICES ASSUME NEW o \in ops PROVE Cardinality({p \in ops : op[p].id < op[o].id}) < n
  BY DEF First
<1> DEFINE before == {p \in ops : op[p].id < op[o].id}
<1>1. IsFiniteSet(Asset) /\ Cardinality(Asset) = NumAssets
  <2>1. NumAssets \in Nat
    BY DeleteAssumption
  <2> QED
    BY <2>1, FS_Interval DEF Asset
<1>2. o \in Asset /\ o \notin before
  <2>1. op[o].id \in Nat
    BY FinitePools, TypesAre DEF Types, OpRow
  <2> QED
    BY <2>1
<1>3. before \subseteq Asset /\ before # Asset
  BY <1>2
<1>4. Cardinality(before) < Cardinality(Asset)
  <2> HIDE DEF before
  <2>1. /\ IsFiniteSet(before) /\ Cardinality(before) =< Cardinality(Asset)
        /\ Cardinality(before) = Cardinality(Asset) => before = Asset
    BY <1>1, <1>3, FS_Subset
  <2>2. Cardinality(before) \in Nat /\ Cardinality(Asset) \in Nat
    BY <1>1, <2>1, FS_CardinalityType
  <2> QED
    BY <1>3, <2>1, <2>2
<1>5. Cardinality(before) \in Nat /\ NumAssets \in Nat
  <2> HIDE DEF before
  <2> QED
    BY <1>1, <1>3, FS_Subset, FS_CardinalityType
<1> QED
  BY <1>1, <1>4, <1>5


LEMMA AllStagedStep ==
    ASSUME TypeOK, Control, Orderly, InHandOf, AllStaged, NumAssets =< scenario.slice, [Next]_vars
    PROVE  AllStaged'
<1> SUFFICES ASSUME worker'.pc \notin {"idle", "stage", "stage again"}, NEW a \in Asset,
                    op'[a].status = "queued", op'[a].phase = "identity_refs_scrubbed"
             PROVE  FALSE
  BY DEF AllStaged
<1>0. worker \in WorkerRow /\ op \in [Op -> OpRow] /\ a \in Op /\ op[a] \in OpRow
  BY FinitePools, TypesAre DEF Types
<1>1. CASE worker.pc \notin {"idle", "stage", "stage again"}
  <2>1. ~(op[a].status = "queued" /\ op[a].phase = "identity_refs_scrubbed")
    BY <1>1 DEF AllStaged
  <2>2. Course(a) /\ a # Chat
    BY OperationsCourse, FinitePools
  <2>3. ~Keeps(a) /\ ~Asked(a) /\ ~Replaced(a) /\ ~Resumed(a) /\ ~Opened(a) /\ ~TakenAlong(a)
    BY <2>1, <2>2 DEF Keeps, Asked, Replaced, Resumed, Opened, TakenAlong, Turns
  <2>4. ~Refusal(a) /\ ~Prepared(a) /\ ~Started(a) /\ ~Claims(a) /\ ~Concluded(a) /\ ~Cleared(a)
    BY DEF Refusal, Prepared, Started, Claims, Concluded, Cleared, Turns
  <2>5. ~Unremoved(a) /\ ~Removed(a) /\ ~Drained(a)
    BY DEF Unremoved, Removed, Drained, Turns, Outcome
  <2> QED
    BY <2>2, <2>3, <2>4, <2>5 DEF Course
<1>2. CASE worker.pc \in {"idle", "stage", "stage again"}
  <2>0. ~EndsPass
    <3>1. EndsPass => worker'.pc = "idle"
      BY DEF EndsPass, Idle
    <3> QED
      BY <3>1
  <2>1. StageIdentities
    <3>1. worker' # worker
      BY <1>2
    <3>2. ~People /\ ~LateOwners /\ ~LeasesLapse /\ ~UNCHANGED vars
      BY <3>1, LateDoes DEF People, Enqueue, Restore, Trash, DeleteChat, Retry, Import, Adopt, LeasesLapse, vars
    <3>3. ~Crash
      BY <2>0 DEF Crash
    <3>4. ~BeginPass
      BY <1>0 DEF BeginPass, Goes, WorkerRow
    <3>5. ~PrepareReferences /\ ~RecoverLeases /\ ~ClaimBatch /\ ~TakeUpOldest /\ ~Finalize /\ ~Claim /\ ~Conclude
      BY <1>2 DEF PrepareReferences, RecoverLeases, ClaimBatch, TakeUpOldest, Finalize, Claim, Conclude
    <3>6. ~DeleteRows /\ ~MarkFailed /\ ~Unlink /\ ~Settle /\ ~SettleBatch /\ ~Checkpoint
      BY <1>2 DEF DeleteRows, MarkFailed, Unlink, Settle, SettleBatch, Checkpoint
    <3> QED
      BY <3>2, <3>3, <3>4, <3>5, <3>6 DEF Next, Works
  <2> DEFINE slice == First(Queued("identity_refs_scrubbed"), scenario.slice)
  <2>2. slice = Queued("identity_refs_scrubbed")
    <3>1. scenario.slice \in Nat
      BY DeleteAssumption DEF TypeOK
    <3> QED
      BY <3>1, FirstIsAll DEF Queued
  <2>4. PICK scrubbed \in BOOLEAN : StageSlice(slice, scrubbed)
    BY <2>1, <2>0 DEF StageIdentities
  <2>5. \/ op'[a] = op[a] /\ a \notin slice
        \/ op'[a] = Rejected(a) /\ a \in slice
        \/ op'[a] = [op[a] EXCEPT !.status = "checkpointing", !.phase = "other"]
        \/ op'[a].phase \in {"unlinking_artifacts", "other"}
    <3> HIDE DEF slice
    <3> DEFINE valid == Deletable(slice)
               mine(b) == IF b \in valid THEN Collectible(b, valid) ELSE {}
    <3>1. op'[a] = IF a \notin slice THEN op[a]
               ELSE IF a \notin valid THEN Rejected(a)
               ELSE IF mine(a) = {} THEN [op[a] EXCEPT !.status = "checkpointing", !.phase = "other"]
               ELSE [op[a] EXCEPT !.total = Cardinality(mine(a)),
                                  !.status = IF scrubbed THEN "running" ELSE "queued",
                                  !.phase = IF scrubbed THEN "unlinking_artifacts" ELSE "other"]
      BY <2>4, <1>0 DEF StageSlice
    <3> HIDE DEF valid, mine
    <3> QED
      <4>1. CASE a \notin slice
        BY <3>1, <4>1
      <4>2. CASE a \in slice /\ a \notin valid
        BY <3>1, <4>2
      <4>3. CASE a \in slice /\ a \in valid /\ mine(a) = {}
        BY <3>1, <4>3
      <4>4. CASE a \in slice /\ a \in valid /\ mine(a) # {}
        <5>1. CASE scrubbed
          <6>1. op'[a] = [op[a] EXCEPT !.total = Cardinality(mine(a)), !.status = "running",
                                       !.phase = "unlinking_artifacts"]
            BY <3>1, <4>4, <5>1
          <6> QED
            BY <6>1, <1>0 DEF OpRow
        <5>2. CASE ~scrubbed
          <6>1. op'[a] = [op[a] EXCEPT !.total = Cardinality(mine(a)), !.status = "queued", !.phase = "other"]
            BY <3>1, <4>4, <5>2
          <6> QED
            BY <6>1, <1>0 DEF OpRow
        <5> QED
          BY <5>1, <5>2
      <4> QED
        BY <4>1, <4>2, <4>3, <4>4
  <2>6. CASE op'[a] = op[a] /\ a \notin slice
    BY <2>2, <2>6 DEF Queued
  <2>7. CASE op'[a] = Rejected(a) /\ a \in slice
    BY <2>7, <1>0 DEF Rejected, OpRow
  <2>8. CASE op'[a] = [op[a] EXCEPT !.status = "checkpointing", !.phase = "other"]
    BY <2>8, <1>0 DEF OpRow
  <2>9. CASE op'[a].phase \in {"unlinking_artifacts", "other"}
    BY <2>9
  <2> QED
    BY <2>5, <2>6, <2>7, <2>8, <2>9
<1> QED
  BY <1>1, <1>2

-----------------------------------------------------------------------------
(* Files that could not be removed.                                         *)

OwedBy ==
    /\ worker.broken # {} => "unlink" \in scenario.events
    /\ \A o \in Op, m \in Media :
          /\ item[o][m].state = "unlink_failed" => "unlink" \in scenario.events /\ op[o].status = "failed"
          /\ item[o][m].state \in {"unlink_retry", "unlinking_retry"} => {"unlink", "retry"} \subseteq scenario.events

\* An operation whose removals the next batch settles waits for no others.
BatchWhole ==
    /\ \A a \in Asset, m \in Media : op[a].phase = "unlinking_artifacts" => item[a][m].state \notin Owed
    /\ worker.pc \in {"unlink batch", "settle batch"} =>
          \A o \in worker.ops, m \in Media : item[o][m].state # "media_deleted"

\* A completed operation has no items.
Emptied ==
    \A o \in Op :
        /\ op[o].status = "checkpointing" => \A m \in Media : item[o][m].state \in {"none", "failed"}
        /\ op[o].status \in {"completed", "superseded"} => \A m \in Media : item[o][m].state = "none"

LEMMA BrokenComes ==
    ASSUME TypeOK, [Next]_vars, worker'.broken # {}
    PROVE  worker.broken # {} \/ "unlink" \in scenario.events
<1>0. worker \in WorkerRow
  BY TypesAre DEF Types
<1>1. \A pc : Goes(pc) => worker'.broken = worker.broken
  BY <1>0 DEF Goes, WorkerRow
<1>2. ~EndsPass /\ \A pc, S, T, K : ~Takes(pc, S, T, K)
  BY DEF EndsPass, Idle, Takes
<1>3. CASE Unlink
  <2>1. PICK broken : Disturbed("unlink", broken # {})
                      /\ worker' = [worker EXCEPT !.pc = IF @ = "unlink" THEN "settle" ELSE "settle batch",
                                                  !.broken = broken]
    BY <1>3 DEF Unlink
  <2>2. broken # {}
    BY <2>1, <1>0 DEF WorkerRow
  <2> QED
    BY <2>1, <2>2 DEF Disturbed, Spend, May
<1>4. People \/ LateOwners \/ LeasesLapse \/ UNCHANGED vars => worker' = worker
  BY LateDoes DEF People, Enqueue, Restore, Trash, DeleteChat, Retry, Import, Adopt, LeasesLapse, vars
<1>5. BeginPass \/ PrepareReferences \/ RecoverLeases => worker'.broken = worker.broken
  BY <1>1 DEF BeginPass, PrepareReferences, RecoverLeases
<1>6. StageIdentities \/ ClaimBatch \/ TakeUpOldest \/ Finalize => worker'.broken = worker.broken
  <2>1. StageIdentities => \E pc : Goes(pc)
    BY <1>2 DEF StageIdentities
  <2>2. ClaimBatch => \E pc : Goes(pc)
    BY <1>2 DEF ClaimBatch
  <2>3. TakeUpOldest => \E pc : Goes(pc)
    BY <1>2 DEF TakeUpOldest
  <2>4. Finalize => \E pc : Goes(pc)
    BY <1>2 DEF Finalize
  <2> QED
    BY <1>1, <2>1, <2>2, <2>3, <2>4
<1>7. Conclude => worker'.broken = worker.broken
  <2>1. Conclude => \E pc : Goes(pc)
    BY <1>2 DEF Conclude
  <2> QED
    BY <1>1, <2>1
<1>8. ~Claim /\ ~DeleteRows /\ ~MarkFailed /\ ~Settle /\ ~SettleBatch /\ ~Checkpoint /\ ~Crash
  BY <1>2 DEF Claim, DeleteRows, MarkFailed, Settle, SettleBatch, Checkpoint, Crash
<1> QED
  BY <1>3, <1>4, <1>5, <1>6, <1>7, <1>8 DEF Next, Works

LEMMA OwedStep ==
    ASSUME TypeOK, Control, BarredOnce, Orderly, InHandOf, OwedBy, [Next]_vars
    PROVE  OwedBy'
<1>0. scenario' = scenario
  BY ScenarioStays
<1>1. worker'.broken # {} => "unlink" \in scenario.events
  BY BrokenComes DEF OwedBy
<1>2. ASSUME NEW o \in Op, NEW m \in Media
      PROVE  /\ item'[o][m].state = "unlink_failed" => "unlink" \in scenario.events /\ op'[o].status = "failed"
             /\ item'[o][m].state \in {"unlink_retry", "unlinking_retry"} => {"unlink", "retry"} \subseteq scenario.events
  <2>1. /\ item[o][m].state = "unlink_failed" => "unlink" \in scenario.events /\ op[o].status = "failed"
        /\ item[o][m].state \in {"unlink_retry", "unlinking_retry"} => {"unlink", "retry"} \subseteq scenario.events
    BY DEF OwedBy
  <2>2. Course(o)
    BY OperationsCourse
  <2>3. CASE Keeps(o) \/ Claims(o)
    <3>1. Moves(item[o][m].state, item'[o][m].state)
      BY <2>3 DEF Keeps, Claims
    <3>2. op'[o].status = op[o].status
      BY <2>3 DEF Keeps, Claims, Turns
    <3> QED
      BY <2>1, <3>1, <3>2 DEF Moves
  <2>4. CASE Asked(o)
    BY <2>1, <2>4 DEF Asked, SameStates
  <2>5. CASE Replaced(o) \/ Refusal(o) \/ Prepared(o) \/ Started(o) \/ Concluded(o) \/ Drained(o)
    <3>1. item'[o][m].state = item[o][m].state /\ op[o].status # "failed"
      BY <2>5 DEF Replaced, Refusal, Prepared, Started, Concluded, Drained, SameStates
    <3> QED
      BY <2>1, <3>1
  <2>6. CASE Resumed(o)
    <3>1. "retry" \in scenario.events /\
          item'[o][m].state = IF item[o][m].state = "failed" /\ m \in Rows THEN "pending"
                              ELSE IF item[o][m].state \in {"failed", "unlink_failed"}
                              THEN "unlink_retry" ELSE item[o][m].state
      BY <2>6 DEF Resumed
    <3>2. item[o][m].state = "failed" => m \in Rows
      <4>1. item[o][m].state = "failed" => Holds(o, m)
        BY DEF Holds, Hand
      <4> QED
        BY <4>1 DEF BarredOnce, BarredAt, Rows
    <3> QED
      BY <2>1, <3>1, <3>2
  <2>7. CASE Opened(o) \/ TakenAlong(o)
    <3>1. item'[o][m].state \in {"none", "pending", "media_deleted"}
      BY <2>7 DEF Opened, TakenAlong
    <3> QED
      BY <3>1
  <2>8. CASE Cleared(o)
    <3>1. item'[o][m].state \in {item[o][m].state, "media_deleted"} /\ op[o].status = "running"
      BY <2>8 DEF Cleared
    <3> QED
      BY <2>1, <3>1
  <2>9. CASE Unremoved(o)
    <3>1. /\ op'[o].status = "failed" /\ worker.broken # {}
          /\ item'[o][m].state = IF item[o][m].state \in {"unlinking", "unlinking_retry"}
                                 THEN "unlink_failed" ELSE item[o][m].state
      BY <2>9 DEF Unremoved, Turns
    <3> QED
      BY <2>1, <3>1 DEF OwedBy
  <2>10. CASE Removed(o)
    <3>1. /\ op[o].status = "running"
          /\ item'[o][m].state = IF item[o][m].state \in {"unlinking", "unlinking_retry"}
                                 THEN "none" ELSE item[o][m].state
      BY <2>10 DEF Removed
    <3> QED
      BY <2>1, <3>1
  <2> QED
    BY <2>2, <2>3, <2>4, <2>5, <2>6, <2>7, <2>8, <2>9, <2>10 DEF Course
<1> QED
  BY <1>0, <1>1, <1>2 DEF OwedBy


LEMMA BatchStep ==
    ASSUME TypeOK, Control, Orderly, InHandOf, OwedBy, BatchWhole, Separate, [Next]_vars
    PROVE  BatchWhole'
<1>0. worker \in WorkerRow /\ item \in [Op -> [Media -> ItemRow]]
  BY TypesAre DEF Types
<1>1. ASSUME NEW a \in Asset, NEW m \in Media, op'[a].phase = "unlinking_artifacts"
      PROVE  item'[a][m].state \notin Owed
  <2>1. op[a].phase = "unlinking_artifacts" => item[a][m].state \notin Owed
    BY DEF BatchWhole
  <2>2. Course(a) /\ a # Chat /\ a \in Op
    BY OperationsCourse, FinitePools
  <2>3. CASE Keeps(a)
    <3>1. Moves(item[a][m].state, item'[a][m].state) /\ op[a].phase = "unlinking_artifacts"
      BY <1>1, <2>3 DEF Keeps, Turns
    <3> QED
      BY <2>1, <3>1 DEF Moves, Owed
  <2>4. CASE Replaced(a) \/ Drained(a)
    <3>1. item'[a][m].state = item[a][m].state /\ op[a].phase = "unlinking_artifacts"
      BY <1>1, <2>4 DEF Replaced, Drained, SameStates, Turns
    <3> QED
      BY <2>1, <3>1
  <2>5. CASE TakenAlong(a)
    BY <2>5 DEF TakenAlong, Owed
  <2>6. CASE Cleared(a)
    <3>1. PICK n \in Media : item[a][n].state = "claimed"
      BY <2>6 DEF Cleared
    <3>2. "scrub" \in scenario.events
      BY <3>1 DEF Orderly, NothingFails, Holds, Hand
    <3>3. op[a].status = "running" /\ item'[a][m].state \in {item[a][m].state, "media_deleted"}
      BY <2>6 DEF Cleared
    <3>4. item[a][m].state \notin Owed
      BY <2>2, <3>2, <3>3 DEF OwedBy, Separate, Owed
    <3> QED
      BY <3>3, <3>4 DEF Owed
  <2>7. ~Asked(a) /\ ~Resumed(a) /\ ~Opened(a) /\ ~Refusal(a) /\ ~Prepared(a) /\ ~Started(a)
    BY <1>1 DEF Asked, Resumed, Opened, Refusal, Prepared, Started, Turns
  <2>8. ~Claims(a) /\ ~Concluded(a) /\ ~Unremoved(a) /\ ~Removed(a)
    BY <1>1 DEF Claims, Concluded, Unremoved, Removed, Turns
  <2> QED
    BY <2>2, <2>3, <2>4, <2>5, <2>6, <2>7, <2>8 DEF Course
<1>2. ASSUME worker'.pc \in {"unlink batch", "settle batch"}, NEW o \in worker'.ops, NEW m \in Media
      PROVE  item'[o][m].state # "media_deleted"
  <2>1. CASE Elsewhere
    <3>1. /\ o \in Op /\ op[o].status = "running" /\ o \in worker.ops
          /\ worker.pc \in {"unlink batch", "settle batch"}
      BY <1>0, <1>2, <2>1 DEF Elsewhere, Orderly, TakenUp, WorkerRow
    <3> QED
      BY <2>1, <3>1, RunningStays DEF BatchWhole
  <2>2. CASE ClaimBatch
    <3> DEFINE eligible == {a \in {b \in Asset : op[b].status = "running" /\ op[b].phase = "unlinking_artifacts"} :
                               In(a, {"media_deleted"}) # {}}
    <3>1. /\ item' = [p \in Op |-> [n \in Media |->
                 IF p \in eligible /\ item[p][n].state = "media_deleted"
                 THEN [item[p][n] EXCEPT !.state = "unlinking"] ELSE item[p][n]]]
          /\ Goes("head") \/ Takes("unlink batch", eligible, {}, Retained(eligible))
      BY <2>2 DEF ClaimBatch
    <3>2. ~Goes("head")
      BY <1>0, <1>2 DEF Goes, WorkerRow
    <3>3. o \in eligible
      <4> HIDE DEF eligible
      <4>1. Takes("unlink batch", eligible, {}, Retained(eligible))
        BY <3>1, <3>2
      <4>2. worker'.ops = eligible
        BY <4>1 DEF Takes
      <4> QED
        BY <1>2, <4>2
    <3>4. o \in Op
      BY <3>3, FinitePools
    <3> HIDE DEF eligible
    <3>5. item'[o][m] = IF item[o][m].state = "media_deleted"
                        THEN [item[o][m] EXCEPT !.state = "unlinking"] ELSE item[o][m]
      BY <3>1, <3>3, <3>4
    <3>6. item[o][m] \in ItemRow
      BY <1>0, <3>4
    <3> QED
      BY <3>5, <3>6 DEF ItemRow
  <2>3. CASE Finalize
    <3>1. Goes("claim") \/ \E ops, kept : Takes("unlink", ops, {}, kept)
      BY <2>3 DEF Finalize
    <3> QED
      <4>1. Goes("claim") => worker'.pc = "claim"
        BY <1>0 DEF Goes, WorkerRow
      <4>2. \A pc, ops, work, kept : Takes(pc, ops, work, kept) => worker'.pc = pc
        BY DEF Takes
      <4> QED
        BY <1>2, <3>1, <4>1, <4>2
  <2>4. CASE Unlink
    <3>1. \E broken : worker' = [worker EXCEPT !.pc = IF @ = "unlink" THEN "settle" ELSE "settle batch",
                                               !.broken = broken]
      BY <2>4 DEF Unlink
    <3>2. worker'.ops = worker.ops /\ worker.pc = "unlink batch" /\ item' = item
      BY <3>1, <1>0, <1>2, <2>4 DEF WorkerRow, Unlink, db
    <3> QED
      BY <1>2, <3>2 DEF BatchWhole
  <2> QED
    BY <1>2, <2>1, <2>2, <2>3, <2>4, Enters
<1> QED
  BY <1>1, <1>2 DEF BatchWhole

LEMMA EmptiedStep ==
    ASSUME TypeOK, Control, Adding, Orderly, InHandOf, BatchWhole, Emptied, [Next]_vars
    PROVE  Emptied'
<1> SUFFICES ASSUME NEW o \in Op, NEW m \in Media
             PROVE  /\ op'[o].status = "checkpointing" => item'[o][m].state \in {"none", "failed"}
                    /\ op'[o].status \in {"completed", "superseded"} => item'[o][m].state = "none"
  BY DEF Emptied
<1>1. /\ op[o].status = "checkpointing" => item[o][m].state \in {"none", "failed"}
      /\ op[o].status \in {"completed", "superseded"} => item[o][m].state = "none"
  BY DEF Emptied
<1>2. Course(o)
  BY OperationsCourse
<1>3. Outcome(o) \in {"failed", "completed"} /\ (Outcome(o) = "completed" => item[o][m].state # "failed")
  <2>1. item[o][m].state = "failed" => op[o].failed > 0
    BY FailedIsCounted
  <2> QED
    BY <2>1 DEF Outcome
<1>4. CASE Keeps(o)
  <2>1. op'[o].status = op[o].status /\ Moves(item[o][m].state, item'[o][m].state)
    BY <1>4 DEF Keeps, Turns
  <2> QED
    BY <1>1, <2>1 DEF Moves
<1>5. CASE Replaced(o) \/ Drained(o) \/ Concluded(o)
  <2>1. CASE Replaced(o)
    BY <1>1, <2>1 DEF Replaced, Turns, SameStates
  <2>2. CASE Drained(o)
    BY <1>1, <1>3, <2>2 DEF Drained, Turns, SameStates
  <2>3. CASE Concluded(o)
    BY <1>3, <2>3 DEF Concluded, SameStates
  <2> QED
    BY <1>5, <2>1, <2>2, <2>3
<1>6. CASE TakenAlong(o)
  BY <1>6 DEF TakenAlong, Turns
<1>7. CASE Removed(o)
  <2>1. op'[o].status \in {"running", "checkpointing"}
    BY <1>7 DEF Removed
  <2>2. ASSUME worker.pc = "settle batch", o \in worker.ops, o \in Asset
        PROVE  item[o][m].state \in {"none", "failed", "unlinking"}
    <3>1. item[o][m].state \in ItemState
      BY TypesAre DEF Types, ItemRow
    <3>2. op[o].phase = "unlinking_artifacts" /\ item[o][m].state \notin Owed /\ item[o][m].state # "media_deleted"
      BY <2>2 DEF Orderly, TakenUp, BatchWhole
    <3>3. ~Waits(o, m)
      <4>1. CASE "crash" \notin scenario.events
        BY <2>2, <3>2, <4>1 DEF Orderly, NothingIsLeft, Waits
      <4>2. CASE "scrub" \notin scenario.events
        BY <2>2, <4>2 DEF Orderly, NothingFails, Holds, Waits, Hand
      <4> QED
        BY <4>1, <4>2 DEF Orderly, Calm
    <3> QED
      BY <3>1, <3>2, <3>3 DEF ItemState, Leased, Owed, Waits
  <2>3. op'[o].status = "checkpointing" => item'[o][m].state \in {"none", "failed"}
    <3>1. /\ item'[o][m].state = IF item[o][m].state \in {"unlinking", "unlinking_retry"}
                                 THEN "none" ELSE item[o][m].state
          /\ op'[o].status = "checkpointing" =>
                 \/ worker.pc = "settle batch" /\ o \in worker.ops /\ o \in Asset
                 \/ item'[o][m].state \in {"none", "failed"}
      BY <1>7 DEF Removed
    <3> QED
      BY <2>2, <3>1
  <2> QED
    BY <2>1, <2>3
<1>8. CASE Asked(o) \/ Resumed(o) \/ Opened(o) \/ Refusal(o) \/ Prepared(o) \/ Started(o)
  BY <1>8 DEF Asked, Resumed, Opened, Refusal, Prepared, Started, Turns
<1>9. CASE Claims(o) \/ Cleared(o) \/ Unremoved(o)
  BY <1>9 DEF Claims, Cleared, Unremoved, Turns
<1> QED
  BY <1>2, <1>4, <1>5, <1>6, <1>7, <1>8, <1>9 DEF Course

\* A deletion that is reported as completed is one: the identity is gone and owns
\* nothing, and no item remembers something to remove.  A slice takes every asset,
\* rows do not fail to be deleted where the process dies, and an operation does
\* not meet failures of rows and of files and a retry: in each of these cases an
\* operation can be reported too early.
THEOREM CompletedAreGone ==
    Spec /\ Calm /\ Separate => []CompletedIsGone
<1> DEFINE I == /\ TypeOK /\ Control /\ BarredOnce /\ Adding /\ Orderly /\ Separate
                /\ InHandOf /\ Relinquished /\ Begun /\ AllStaged /\ OwedBy /\ BatchWhole /\ Emptied
<1>1. Init /\ Calm /\ Separate => I
  <2> SUFFICES ASSUME Init, Calm, Separate PROVE I
    OBVIOUS
  <2>1. TypeOK /\ Control /\ BarredOnce /\ Adding /\ Orderly
    BY InitTypes, InitControl, InitBarred, InitAdding, InitOrderly
  <2>2. /\ op = [o \in Op |-> NoOp] /\ item = [o \in Op |-> [m \in Media |-> NoItem]] /\ worker = Idle
    BY DEF Init
  <2>3. /\ \A o \in Op : op[o].status = "none" /\ op[o].phase = "other"
        /\ \A o \in Op, m \in Media : item[o][m].state = "none"
        /\ worker.pc = "idle" /\ worker.broken = {}
    BY <2>2 DEF NoOp, NoItem, Idle
  <2>4. Relinquished
    <3>1. \A m \in Media : media[m].owners = {o \in Op : m \in scenario.holds[o]}
      BY DEF Init, NoRow
    <3>2. \A a \in Asset : asset[a] = "gone" => scenario.holds[a] = {}
      BY DEF Init
    <3>3. chat = "gone" => scenario.holds[Chat] = {}
      BY DEF Init
    <3> QED
      BY <3>1, <3>2, <3>3 DEF Relinquished
  <2>5. InHandOf /\ AllStaged /\ Begun
    BY <2>3, FinitePools DEF InHandOf, AllStaged, Begun, UnderWay
  <2>6. OwedBy /\ BatchWhole /\ Emptied
    BY <2>3, FinitePools DEF OwedBy, BatchWhole, Emptied, Owed
  <2> QED
    BY <2>1, <2>4, <2>5, <2>6
<1>2. I /\ [Next]_vars => I'
  <2> SUFFICES ASSUME I, [Next]_vars PROVE I'
    OBVIOUS
  <2>1. (TypeOK /\ Control /\ BarredOnce /\ Adding /\ Orderly)'
    BY TypeStep, ControlStep, HandStep, AddingStep, OrderlyStep
  <2>2. Separate'
    BY ScenarioStays DEF Separate
  <2>3. InHandOf' /\ Relinquished'
    BY InHandStep, RelinquishedStep
  <2>4. Begun' /\ AllStaged'
    BY BegunStep, AllStagedStep DEF Separate
  <2>5. OwedBy' /\ BatchWhole' /\ Emptied'
    BY OwedStep, BatchStep, EmptiedStep
  <2> QED
    BY <2>1, <2>2, <2>3, <2>4, <2>5
<1>3. I => CompletedIsGone
  <2> SUFFICES ASSUME I, NEW o \in Op, op[o].status \in {"completed", "superseded"}
      PROVE  /\ o \in Asset => asset[o] = "gone"
             /\ \A m \in Rows : o \notin media[m].owners
             /\ In(o, ItemState \ {"none"}) = {}
    BY DEF CompletedIsGone
  <2>1. o \in Asset => asset[o] = "gone"
    BY DEF Begun, UnderWay
  <2>2. o = Chat => chat = "gone"
    BY DEF Control, Untouched
  <2>3. \A m \in Rows : o \notin media[m].owners
    BY <2>1, <2>2 DEF Relinquished, Rows, Op
  <2>4. In(o, ItemState \ {"none"}) = {}
    BY DEF Emptied, In
  <2> QED
    BY <2>1, <2>3, <2>4
<1> QED
  BY <1>1, <1>2, <1>3, PTL DEF Spec
=============================================================================
