------------------------- MODULE ForeverModeProofs -------------------------
(***************************************************************************)
(* Proofs about ForeverMode: type correctness, and the invariants of the    *)
(* run forever_requests, from one inductive invariant: how counts, owners,  *)
(* connections and the requests on their way hang together (IInv).  Then,   *)
(* from a second one on top of it (DispatchInv): free pages are asked.      *)
(***************************************************************************)
EXTENDS ForeverMode, FiniteSetTheorems, SequenceTheorems, TLAPS

-----------------------------------------------------------------------------
(* Sequences without some of their elements.                               *)

\* In a finite set of integers there is one with n elements up to it, for each
\* n up to their number.
LEMMA NthExists ==
    ASSUME NEW S, IsFiniteSet(S), S \subseteq Int
    PROVE  LET place == [i \in S |-> Cardinality({k \in S : k <= i})]
           IN  /\ place \in [S -> 1..Cardinality(S)]
               /\ \A i, k \in S : place[i] = place[k] => i = k
               /\ \A n \in 1..Cardinality(S) : \E i \in S : place[i] = n
<1> DEFINE n == Cardinality(S)
           upTo(i) == {k \in S : k <= i}
           place == [i \in S |-> Cardinality(upTo(i))]
<1>1. n \in Nat
  BY FS_CardinalityType
<1>2. ASSUME NEW i \in S
      PROVE  /\ IsFiniteSet(upTo(i)) /\ Cardinality(upTo(i)) \in Nat
             /\ Cardinality(upTo(i)) <= n /\ Cardinality(upTo(i)) # 0
  <2>1. IsFiniteSet(upTo(i)) /\ Cardinality(upTo(i)) <= n
    <3>1. upTo(i) \in SUBSET S
      OBVIOUS
    <3> QED
      BY <3>1, FS_Subset
  <2>2. upTo(i) # {}
    <3>1. i \in upTo(i)
      OBVIOUS
    <3> QED
      BY <3>1
  <2> QED
    BY <2>1, <2>2, FS_CardinalityType, FS_EmptySet
<1>3. ASSUME NEW i \in S, NEW k \in S, i < k PROVE Cardinality(upTo(i)) # Cardinality(upTo(k))
  <2>1. upTo(i) \in SUBSET upTo(k) /\ k \in upTo(k) /\ k \notin upTo(i)
    <3>1. i \in Int /\ k \in Int /\ \A l \in S : l \in Int
      OBVIOUS
    <3>2. \A l \in S : l <= i => l <= k
      BY <1>3, <3>1
    <3>3. k <= k /\ ~(k <= i)
      BY <1>3, <3>1
    <3> QED
      BY <3>2, <3>3
  <2> QED
    BY <1>2, <2>1, FS_Subset
<1>4. place \in [S -> 1..n]
  <2>1. \A c \in Nat : c <= n /\ c # 0 => c \in 1..n
    BY <1>1
  <2> HIDE DEF upTo, n
  <2> QED
    BY <1>2, <2>1
<1>5. ASSUME NEW i \in S, NEW k \in S, place[i] = place[k] PROVE i = k
  <2>1. ~(i < k) /\ ~(k < i)
    BY <1>3, <1>5
  <2> QED
    BY <2>1
<1> HIDE DEF n, place
<1>6. place \in Injection(S, 1..n)
  BY <1>4, <1>5 DEF Injection, IsInjective
<1>7. IsFiniteSet(1..n) /\ Cardinality(1..n) = n
  BY <1>1, FS_Interval
<1>8. place \in Surjection(S, 1..n)
  BY <1>6, <1>7, FS_Injection DEF n
<1>9. \A m \in 1..n : \E i \in S : place[i] = m
  BY <1>8 DEF Surjection
<1> QED
  BY <1>4, <1>5, <1>9 DEF n, place

\* What remains of a sequence that loses the elements of gone.
LEMMA WithoutKeeps ==
    ASSUME NEW T, NEW s \in Seq(T), NEW gone
    PROVE  /\ Without(s, gone) \in Seq(T)
           /\ ToSet(Without(s, gone)) = ToSet(s) \ gone
           /\ IsInjective(s) => IsInjective(Without(s, gone))
<1> DEFINE kept == {i \in DOMAIN s : s[i] \notin gone}
           n == Cardinality(kept)
           place == [i \in kept |-> Cardinality({k \in kept : k <= i})]
           Nth(m) == CHOOSE i \in kept : Cardinality({k \in kept : k <= i}) = m
           w == Without(s, gone)
<1>1. kept \in SUBSET DOMAIN s /\ DOMAIN s = 1..Len(s) /\ Len(s) \in Nat
  OBVIOUS
<1>2. IsFiniteSet(kept) /\ kept \subseteq Int
  <2>1. IsFiniteSet(1..Len(s)) /\ 1..Len(s) \subseteq Int
    BY <1>1, FS_Interval
  <2> QED
    BY <1>1, <2>1, FS_Subset
<1>3. /\ place \in [kept -> 1..n]
      /\ \A i, k \in kept : place[i] = place[k] => i = k
      /\ \A m \in 1..n : \E i \in kept : place[i] = m
  BY <1>2, NthExists
<1>4. n \in Nat
  BY <1>2, FS_CardinalityType
<1>5. \A m \in 1..n : Nth(m) \in kept /\ place[Nth(m)] = m
  <2> TAKE m \in 1..n
  <2>1. \E i \in kept : Cardinality({k \in kept : k <= i}) = m
    BY <1>3
  <2> QED
    BY <2>1
<1>6. w = [m \in 1..n |-> s[Nth(m)]]
  BY DEF Without
<1>7. \A i \in kept : s[i] \in T /\ s[i] \in ToSet(s) /\ s[i] \notin gone /\ i \in DOMAIN s
  BY DEF ToSet
<1>8. \A x \in ToSet(s) \ gone : \E i \in kept : s[i] = x
  BY DEF ToSet
<1> HIDE DEF kept, n, place, Nth, w
<1>9. w \in Seq(T) /\ DOMAIN w = 1..n
  BY <1>4, <1>5, <1>6, <1>7
<1>10. ASSUME NEW x \in ToSet(s) \ gone PROVE x \in ToSet(w)
  <2>1. PICK i \in kept : s[i] = x
    BY <1>8
  <2>2. place[i] \in 1..n /\ Nth(place[i]) = i
    BY <1>3, <1>5
  <2> QED
    BY <1>6, <2>1, <2>2 DEF ToSet
<1>11. ASSUME NEW x \in ToSet(w) PROVE x \in ToSet(s) \ gone
  <2>1. PICK m \in 1..n : w[m] = x
    BY <1>9 DEF ToSet
  <2> QED
    BY <1>5, <1>6, <1>7, <2>1
<1>12. ASSUME IsInjective(s) PROVE IsInjective(w)
  <2> SUFFICES ASSUME NEW a \in 1..n, NEW b \in 1..n, w[a] = w[b] PROVE a = b
    BY <1>9 DEF IsInjective
  <2>1. s[Nth(a)] = s[Nth(b)]
    BY <1>6
  <2>2. Nth(a) = Nth(b)
    BY <1>5, <1>7, <1>12, <2>1 DEF IsInjective
  <2> QED
    BY <1>5, <2>2
<1> QED
  BY <1>9, <1>10, <1>11, <1>12 DEF w

-----------------------------------------------------------------------------
(* The inductive invariant.                                                *)

FillRecord ==
    [pc : {"idle", "capacity", "queue", "pending", "clients", "tails", "send"},
     backend : Backend \cup {None}, clients : SUBSET Client, room : Int,
     active : UNION {[C -> Nat] : C \in SUBSET Client}, page : Client \cup {None}]

SocketRecord ==
    [state : {"free", "open", "cleanup", "stop", "release"}, client : Client \cup {None},
     greeted : BOOLEAN, outbox : SUBSET Request, inflight : Request \cup {None},
     wire : SUBSET Request]

QueueTyped ==
    /\ forever \in [Backend -> SUBSET Client]
    /\ reserved \in Seq(Request) /\ IsInjective(reserved)
    /\ pendingOf \in [Backend -> SUBSET Request]
    /\ pendingBy \in [Client -> SUBSET Request]
    /\ keyed \subseteq Backend
    /\ lastServed \in [Backend -> Client \cup {None}]
    /\ lapsed \subseteq Request

FillTyped ==
    /\ fill \in FillRecord
    /\ fill.pc # "idle" => fill.backend \in Backend
    /\ fill.pc = "tails" => fill.page \in DOMAIN fill.active
    /\ waiting \in [Backend -> 0..MaxWaiting]

\* Of a client's rows, those that are finalizing are counted.
InTail(c) == {j \in Job : job[j].stage \in {"tail", "closing"} /\ job[j].client = c}

JobTyped ==
    /\ job \in [Job -> Row]
    /\ up \subseteq Backend
    /\ slots \in [Backend -> SUBSET Job]
    /\ finalizing \in [Client -> Nat]
    /\ \A c \in Client : finalizing[c] = Cardinality(InTail(c))

SocketTyped ==
    /\ owner \in [Client -> Socket \cup {None}]
    /\ lastReg \in [Client -> Socket \cup {None}]
    /\ sock \in [Socket -> SocketRecord]

PageTyped ==
    /\ on \in [Client -> SUBSET Backend]
    /\ acked \in [Client -> SUBSET Backend]
    /\ live \in [Client -> Socket \cup {None}]
    /\ inbox \in [Client -> SUBSET Request]
    /\ posts \in [Client -> Seq({"register", "unregister"} \X Backend)]
    /\ submits \subseteq Request

Typed == faults \in FaultSets /\ QueueTyped /\ FillTyped /\ JobTyped /\ SocketTyped /\ PageTyped

\* Every pending entry is that of a reservation; and, unless a backend was lost,
\* every reservation has its two entries.
Pending ==
    /\ \A b \in Backend :
          /\ pendingOf[b] \subseteq OwnedOn(b)
          /\ "loss" \notin faults => pendingOf[b] = OwnedOn(b)
    /\ \A c \in Client :
          /\ pendingBy[c] \subseteq OwnedBy(c, Backend)
          /\ "loss" \notin faults => pendingBy[c] = OwnedBy(c, Backend)

\* The connection of a page, and the one registered as its, is one that the
\* page opened and that is still open.
Connected ==
    /\ \A s \in Socket : sock[s].state # "free" => sock[s].client \in Client
    /\ \A c \in Client :
          /\ owner[c] # None =>
                /\ sock[owner[c]].state = "open" /\ sock[owner[c]].client = c
                /\ lastReg[c] = owner[c]
          /\ live[c] # None => sock[live[c]].state = "open" /\ sock[live[c]].client = c

\* A page without a connection that holds reservations is about to be cleaned
\* up, by the teardown of its last connection.
CleanupPending ==
    \A c \in Client :
        owner[c] = None /\ OwnedBy(c, Backend) # {} =>
            /\ lastReg[c] # None
            /\ sock[lastReg[c]].state = "cleanup" /\ sock[lastReg[c]].client = c

\* Requests travel on connections of the page they are for.
Addressed ==
    /\ \A s \in Socket : \A r \in sock[s].outbox \cup sock[s].wire \cup {sock[s].inflight} :
          r # None => ClientOf(r) = sock[s].client
    /\ \A c \in Client : \A r \in inbox[c] : ClientOf(r) = c

\* A steady page has one connection, which is open, and unregisters nothing.
SteadyStays ==
    /\ \A s \in Socket : sock[s].client \in Steady =>
          sock[s].state = "open" /\ live[sock[s].client] = s
    /\ \A c \in Steady : posts[c] \in Seq({"register"} \X Backend)

\* A request to a steady page is in one place on its way to the answer.
OnePlace ==
    /\ \A s \in Socket : sock[s].client \in Steady =>
          /\ sock[s].outbox \cap sock[s].wire = {}
          /\ (sock[s].outbox \cup sock[s].wire) \cap (inbox[sock[s].client] \cup submits) = {}
    /\ \A c \in Steady : inbox[c] \cap submits = {}

\* The requests to steady pages that are to be answered.
Ahead(r) ==
    /\ ClientOf(r) \in Steady
    /\ \/ r \in submits
       \/ r \in inbox[ClientOf(r)]
       \/ \E s \in Socket : r \in sock[s].outbox \cup sock[s].wire

AheadStands == \A r \in Request : Ahead(r) => r \in Reservations \cup lapsed

IInv ==
    /\ Typed
    /\ Pending
    /\ Connected
    /\ CleanupPending
    /\ Addressed
    /\ SteadyStays
    /\ OnePlace
    /\ AheadStands
-----------------------------------------------------------------------------
(* What the steps do to the reservations.                                  *)

LEMMA Requests ==
    /\ \A r \in Request : ClientOf(r) \in Client /\ BackendOf(r) \in Backend
    /\ None \notin Request /\ None \notin Client /\ None \notin Socket /\ None \notin Backend
<1>1. \A r \in Request : ClientOf(r) \in Client /\ BackendOf(r) \in Backend
  BY DEF Request, ClientOf, BackendOf
<1> QED
  BY <1>1, ForeverAssumption

\* Two sequences in a row.
LEMMA ConcatKeeps ==
    ASSUME NEW T, NEW s \in Seq(T), NEW t \in Seq(T)
    PROVE  /\ s \o t \in Seq(T)
           /\ ToSet(s \o t) = ToSet(s) \cup ToSet(t)
           /\ IsInjective(s) /\ IsInjective(t) /\ ToSet(s) \cap ToSet(t) = {} => IsInjective(s \o t)
<1> DEFINE m == Len(s)
           n == Len(t)
           w == s \o t
<1>1. m \in Nat /\ n \in Nat /\ DOMAIN s = 1..m /\ DOMAIN t = 1..n
  OBVIOUS
<1>2. w \in Seq(T) /\ DOMAIN w = 1..(m + n)
  OBVIOUS
<1>3. \A i \in 1..(m + n) : w[i] = IF i <= m THEN s[i] ELSE t[i - m]
  BY ConcatProperties
<1> HIDE DEF m, n, w
<1>4. \A i \in 1..m : i \in 1..(m + n) /\ w[i] = s[i]
  BY <1>1, <1>3
<1>5. \A i \in 1..n : m + i \in 1..(m + n) /\ w[m + i] = t[i]
  <2> TAKE i \in 1..n
  <2>1. m + i \in 1..(m + n) /\ ~(m + i <= m) /\ (m + i) - m = i
    BY <1>1
  <2> QED
    BY <1>3, <2>1
<1>6. \A i \in 1..(m + n) : i \in 1..m \/ (i - m \in 1..n /\ ~(i <= m))
  BY <1>1
<1>7. ToSet(w) = ToSet(s) \cup ToSet(t)
  <2>1. ASSUME NEW x \in ToSet(w) PROVE x \in ToSet(s) \cup ToSet(t)
    <3>1. PICK i \in 1..(m + n) : w[i] = x
      BY <1>2 DEF ToSet
    <3>2. CASE i \in 1..m
      BY <1>1, <1>4, <3>1, <3>2 DEF ToSet
    <3>3. CASE i - m \in 1..n /\ ~(i <= m)
      BY <1>1, <1>3, <3>1, <3>3 DEF ToSet
    <3> QED
      BY <1>6, <3>2, <3>3
  <2>2. ASSUME NEW x \in ToSet(s) PROVE x \in ToSet(w)
    BY <1>1, <1>2, <1>4 DEF ToSet
  <2>3. ASSUME NEW x \in ToSet(t) PROVE x \in ToSet(w)
    BY <1>1, <1>2, <1>5 DEF ToSet
  <2> QED
    BY <2>1, <2>2, <2>3
<1>8. ASSUME IsInjective(s), IsInjective(t), ToSet(s) \cap ToSet(t) = {} PROVE IsInjective(w)
  <2> SUFFICES ASSUME NEW a \in 1..(m + n), NEW b \in 1..(m + n), w[a] = w[b] PROVE a = b
    BY <1>2 DEF IsInjective
  <2>1. \A i \in 1..m, k \in 1..n : s[i] # t[k]
    BY <1>1, <1>8 DEF ToSet
  <2>2. \A i, k \in 1..m : s[i] = s[k] => i = k
    BY <1>1, <1>8 DEF IsInjective
  <2>3. \A i, k \in 1..n : t[i] = t[k] => i = k
    BY <1>1, <1>8 DEF IsInjective
  <2>4. CASE a \in 1..m /\ b \in 1..m
    BY <1>4, <2>2, <2>4
  <2>5. CASE ~(a <= m) /\ ~(b <= m)
    <3>1. a - m \in 1..n /\ b - m \in 1..n /\ w[a] = t[a - m] /\ w[b] = t[b - m]
      BY <1>1, <1>3, <1>6, <2>5
    <3>2. a - m = b - m
      BY <2>3, <3>1
    <3> QED
      BY <1>1, <3>2
  <2>6. \A i, k \in 1..(m + n) : i \in 1..m /\ ~(k <= m) => w[i] # w[k]
    BY <1>1, <1>3, <1>4, <1>6, <2>1
  <2> QED
    BY <1>1, <1>6, <2>4, <2>5, <2>6
<1> QED
  BY <1>2, <1>7, <1>8 DEF w

\* Releasing reservations.
LEMMA ReleaseEffect ==
    ASSUME QueueTyped, NEW gone, Release(gone)
    PROVE  /\ reserved' \in Seq(Request) /\ IsInjective(reserved')
           /\ Reservations' = Reservations \ gone
           /\ pendingOf' \in [Backend -> SUBSET Request]
           /\ pendingBy' \in [Client -> SUBSET Request]
           /\ \A b \in Backend : pendingOf'[b] = pendingOf[b] \ gone
           /\ \A c \in Client : pendingBy'[c] = pendingBy[c] \ gone
<1>1. reserved' = Without(reserved, gone) /\ reserved \in Seq(Request) /\ IsInjective(reserved)
  BY DEF Release, QueueTyped
<1>2. reserved' \in Seq(Request) /\ IsInjective(reserved') /\ Reservations' = Reservations \ gone
  BY <1>1, WithoutKeeps DEF Reservations
<1>3. /\ pendingOf' = [b \in Backend |-> pendingOf[b] \ gone]
      /\ pendingBy' = [c \in Client |-> pendingBy[c] \ gone]
  BY DEF Release
<1>4. /\ \A b \in Backend : pendingOf[b] \in SUBSET Request
      /\ \A c \in Client : pendingBy[c] \in SUBSET Request
  BY DEF QueueTyped
<1> QED
  BY <1>2, <1>3, <1>4

\* The cleanup of a connection whose page did not come back releases what the
\* page holds.
LEMMA CleanupEffect ==
    ASSUME QueueTyped, NEW s \in Socket, Cleanup(s), StillAbandoned(sock[s].client, s)
    PROVE  LET c == sock[s].client
           IN  /\ reserved' \in Seq(Request) /\ IsInjective(reserved')
               /\ Reservations' = Reservations \ OwnedBy(c, Backend)
               /\ pendingOf' = [b \in Backend |-> pendingOf[b] \ OwnedBy(c, Backend)]
               /\ pendingBy' = [pendingBy EXCEPT ![c] = {}]
               /\ forever' = [b \in Backend |-> forever[b] \ {c}]
<1> DEFINE c == sock[s].client
           mine == OwnedBy(c, Backend)
<1>1. /\ reserved' = Without(reserved, mine)
      /\ pendingOf' = [b \in Backend |-> pendingOf[b] \ mine]
      /\ pendingBy' = [pendingBy EXCEPT ![c] = {}]
      /\ forever' = [b \in Backend |-> forever[b] \ {c}]
  BY DEF Cleanup
<1>2. reserved \in Seq(Request) /\ IsInjective(reserved)
  BY DEF QueueTyped
<1> HIDE DEF mine
<1>3. reserved' \in Seq(Request) /\ IsInjective(reserved') /\ Reservations' = Reservations \ mine
  BY <1>1, <1>2, WithoutKeeps DEF Reservations
<1> QED
  BY <1>1, <1>3 DEF mine

\* What a dispatch sends: fresh requests of its backend, each to a page that has
\* a connection.
Sent(new) ==
    /\ new \in Seq(Request) /\ IsInjective(new)
    /\ ToSet(new) \cap InUse = {}
    /\ \A r \in ToSet(new) : BackendOf(r) = fill.backend /\ owner[ClientOf(r)] # None
    /\ reserved' = reserved \o new
    /\ pendingOf' = [pendingOf EXCEPT ![fill.backend] = @ \cup ToSet(new)]
    /\ pendingBy' = [c \in Client |-> pendingBy[c] \cup {r \in ToSet(new) : ClientOf(r) = c}]
    /\ keyed' \in {keyed, keyed \cup {fill.backend}}
    /\ lapsed' = lapsed \ ToSet(new)
    /\ \/ lastServed' = lastServed
       \/ \E c \in Client : lastServed' = [lastServed EXCEPT ![fill.backend] = c]
    /\ sock' = [s \in Socket |->
                  [sock[s] EXCEPT !.outbox = @ \cup {r \in ToSet(new) : owner[ClientOf(r)] = s}]]

LEMMA SendEffect ==
    ASSUME FillSend
    PROVE  \E new : Sent(new)
<1> DEFINE Fresh == {r \in Request \ InUse : BackendOf(r) = fill.backend}
<1>1. PICK new \in SeqOf(Fresh, fill.room) :
          LET b == fill.backend
              sent == [i \in DOMAIN new |-> ClientOf(new[i])]
              To(s) == {r \in ToSet(new) : owner[ClientOf(r)] = s}
          IN  /\ IsInjective(new)
              /\ AskedInTurn(sent)
              /\ reserved' = reserved \o new
              /\ pendingOf' = [pendingOf EXCEPT ![b] = @ \cup ToSet(new)]
              /\ pendingBy' = [c \in Client |->
                                 pendingBy[c] \cup {r \in ToSet(new) : ClientOf(r) = c}]
              /\ keyed' = IF WithCapacity(<<>>) = {} THEN keyed ELSE keyed \cup {b}
              /\ lapsed' = lapsed \ ToSet(new)
              /\ lastServed' = IF sent = <<>> THEN lastServed
                               ELSE [lastServed EXCEPT ![b] = Last(sent)]
              /\ sock' = [s \in Socket |-> [sock[s] EXCEPT !.outbox = @ \cup To(s)]]
  BY DEF FillSend
<1> DEFINE sent == [i \in DOMAIN new |-> ClientOf(new[i])]
<1>2. PICK m \in Nat : new \in [1..m -> Fresh]
  BY DEF SeqOf
<1>3. new \in Seq(Fresh) /\ Len(new) = m /\ DOMAIN new = 1..m
  BY <1>2
<1>4. new \in Seq(Request) /\ ToSet(new) \subseteq Fresh
  BY <1>2, <1>3 DEF ToSet
<1>5. ASSUME NEW r \in ToSet(new) PROVE owner[ClientOf(r)] # None
  <2>1. PICK i \in DOMAIN new : r = new[i]
    BY DEF ToSet
  <2>2. i \in DOMAIN sent /\ sent[i] = ClientOf(r)
    BY <2>1
  <2>3. AskedInTurn(sent)
    BY <1>1
  <2> HIDE DEF sent
  <2> QED
    BY <2>2, <2>3 DEF AskedInTurn, MayAsk
<1>6. sent # <<>> => Last(sent) \in Client
  <2>1. sent \in Seq(Client)
    <3>1. \A i \in 1..m : ClientOf(new[i]) \in Client
      BY <1>2, Requests
    <3> QED
      BY <1>3, <3>1
  <2> HIDE DEF sent
  <2>2. sent # <<>> => Len(sent) \in 1..Len(sent)
    BY <2>1
  <2> QED
    BY <2>1, <2>2 DEF Last
<1>7. \/ lastServed' = lastServed
      \/ \E c \in Client : lastServed' = [lastServed EXCEPT ![fill.backend] = c]
  BY <1>1, <1>6
<1>8. keyed' \in {keyed, keyed \cup {fill.backend}}
  BY <1>1
<1>9. Sent(new)
  <2> HIDE DEF sent
  <2> QED
    BY <1>1, <1>4, <1>5, <1>7, <1>8 DEF Sent
<1> QED
  BY <1>9

\* A step leaves the queue's memory alone, or releases reservations, or is one
\* of the few that do something else to it.
LEMMA QueueSteps ==
    ASSUME [Next]_<<faults, vars>>
    PROVE  \/ UNCHANGED queueVars
           \/ \E gone : Release(gone) /\ UNCHANGED <<forever, keyed, lastServed, lapsed>>
           \/ \E c \in Client, b \in Backend : Register(c, b) \/ Unregister(c, b)
           \/ \E s \in Socket : Cleanup(s)
           \/ \E b \in Backend : BackendLost(b)
           \/ Lapse
           \/ FillSend
<1>1. CASE UNCHANGED <<faults, vars>>
  BY <1>1 DEF vars
<1>2. ASSUME FillStep
      PROVE  \/ UNCHANGED queueVars
             \/ \E gone : Release(gone) /\ UNCHANGED <<forever, keyed, lastServed, lapsed>>
             \/ FillSend
  BY <1>2 DEF FillStep, FillBegin, FillCapacity, FillQueue, FillPending, FillRows,
              FillClient
<1>3. ASSUME NEW j \in Job, JobStep(j) PROVE UNCHANGED queueVars
  BY <1>3 DEF JobStep, Submitted, SubmitsUnasked, Rejected, Assigned, Generated, TailCommitted,
              TailDone, Failed, Requeued
<1>4. ASSUME NEW b \in Backend, BackendBack(b) PROVE UNCHANGED queueVars
  BY <1>4 DEF BackendBack
<1>5. ASSUME NEW s \in Socket, SocketStep(s)
      PROVE  \/ UNCHANGED queueVars
             \/ \E gone : Release(gone) /\ UNCHANGED <<forever, keyed, lastServed, lapsed>>
             \/ Cleanup(s)
  BY <1>5 DEF SocketStep, Greet, Write, ReleaseUndelivered, Written, Disconnect, StopSender,
              CloseSocket
<1>6. ASSUME NEW c \in Client, PageStep(c)
      PROVE  \/ UNCHANGED queueVars
             \/ \E gone : Release(gone) /\ UNCHANGED <<forever, keyed, lastServed, lapsed>>
             \/ \E b \in Backend : Register(c, b) \/ Unregister(c, b)
  BY <1>6 DEF PageStep, Connect, PageLosesSocket, Start, Stop, Receive, Ignore, Post, PageDeclines,
              Decline, LegacyDecline
<1>7. ASSUME NEW r \in Request, Claim(r) \/ RouteDeclines(r)
      PROVE  \E gone : Release(gone) /\ UNCHANGED <<forever, keyed, lastServed, lapsed>>
  BY <1>7 DEF Claim, RouteDeclines, Decline
<1> QED
  BY <1>1, <1>2, <1>3, <1>4, <1>5, <1>6, <1>7, Zenon DEF Next

LEMMA QueueTypedStep ==
    ASSUME IInv, [Next]_<<faults, vars>>
    PROVE  QueueTyped'
<1>1. QueueTyped
  BY DEF IInv, Typed
<1>2. CASE UNCHANGED queueVars
  BY <1>1, <1>2 DEF queueVars, QueueTyped
<1>3. ASSUME NEW gone, Release(gone), UNCHANGED <<forever, keyed, lastServed, lapsed>>
      PROVE  QueueTyped'
  BY <1>1, <1>3, ReleaseEffect DEF QueueTyped
<1>4. ASSUME NEW c \in Client, NEW b \in Backend, Register(c, b)
      PROVE  QueueTyped'
  <2>1. forever' \in [Backend -> SUBSET Client]
    BY <1>1, <1>4 DEF Register, QueueTyped
  <2> QED
    BY <1>1, <1>4, <2>1 DEF Register, QueueTyped
<1>5. ASSUME NEW c \in Client, NEW b \in Backend, Unregister(c, b)
      PROVE  QueueTyped'
  <2>1. forever' \in [Backend -> SUBSET Client] /\ UNCHANGED <<keyed, lastServed, lapsed>>
    BY <1>1, <1>5 DEF Unregister, QueueTyped
  <2>2. Release(OwnedBy(c, {b}))
    BY <1>5 DEF Unregister
  <2> QED
    BY <1>1, <2>1, <2>2, ReleaseEffect DEF QueueTyped
<1>6. ASSUME NEW s \in Socket, Cleanup(s) PROVE QueueTyped'
  <2>1. UNCHANGED <<keyed, lastServed, lapsed>>
    BY <1>6 DEF Cleanup
  <2>2. CASE StillAbandoned(sock[s].client, s)
    <3> DEFINE c == sock[s].client
    <3>1. /\ reserved' \in Seq(Request) /\ IsInjective(reserved')
          /\ pendingOf' = [b \in Backend |-> pendingOf[b] \ OwnedBy(c, Backend)]
          /\ pendingBy' = [pendingBy EXCEPT ![c] = {}]
          /\ forever' = [b \in Backend |-> forever[b] \ {c}]
      BY <1>1, <1>6, <2>2, CleanupEffect
    <3> HIDE DEF c
    <3>2. /\ pendingOf' \in [Backend -> SUBSET Request] /\ pendingBy' \in [Client -> SUBSET Request]
          /\ forever' \in [Backend -> SUBSET Client]
      BY <1>1, <3>1 DEF QueueTyped
    <3> QED
      BY <1>1, <2>1, <3>1, <3>2 DEF QueueTyped
  <2>3. CASE ~StillAbandoned(sock[s].client, s)
    BY <1>1, <1>6, <2>1, <2>3 DEF Cleanup, QueueTyped
  <2> QED
    BY <2>2, <2>3
<1>7. ASSUME NEW b \in Backend, BackendLost(b) PROVE QueueTyped'
  BY <1>1, <1>7 DEF BackendLost, QueueTyped
<1>8. CASE Lapse
  <2> DEFINE young == Without(reserved, lapsed)
  <2>1. young \in Seq(Request)
    BY <1>1, WithoutKeeps DEF QueueTyped
  <2>2. young # <<>> /\ lapsed' = lapsed \cup {Head(young)}
    BY <1>8 DEF Lapse
  <2>3. Head(young) \in Request
    BY <2>1, <2>2, HeadTailProperties
  <2> HIDE DEF young
  <2> QED
    BY <1>1, <1>8, <2>2, <2>3 DEF Lapse, QueueTyped
<1>9. CASE FillSend
  <2>1. PICK new : Sent(new)
    BY <1>9, SendEffect
  <2>2. reserved' \in Seq(Request) /\ IsInjective(reserved')
    <3>1. ToSet(reserved) \cap ToSet(new) = {}
      BY <2>1 DEF Sent, InUse, Reservations
    <3>2. reserved \in Seq(Request) /\ new \in Seq(Request) /\ IsInjective(reserved) /\ IsInjective(new)
      BY <1>1, <2>1 DEF Sent, QueueTyped
    <3>3. reserved' = reserved \o new
      BY <2>1 DEF Sent
    <3> QED
      BY <3>1, <3>2, <3>3, ConcatKeeps
  <2>3. ToSet(new) \subseteq Request
    BY <2>1 DEF Sent, ToSet
  <2>4. pendingOf' \in [Backend -> SUBSET Request] /\ pendingBy' \in [Client -> SUBSET Request]
    BY <1>1, <2>1, <2>3 DEF Sent, QueueTyped
  <2>5. fill.backend \in Backend
    BY <1>9 DEF FillSend, IInv, Typed, FillTyped
  <2>6. keyed' \subseteq Backend /\ lapsed' \subseteq Request
    BY <1>1, <2>1, <2>5 DEF Sent, QueueTyped
  <2>7. lastServed' \in [Backend -> Client \cup {None}]
    BY <1>1, <2>1, <2>5 DEF Sent, QueueTyped
  <2>8. forever' = forever
    BY <1>9 DEF FillSend
  <2> QED
    BY <1>1, <2>2, <2>4, <2>6, <2>7, <2>8 DEF QueueTyped
<1> QED
  BY <1>2, <1>3, <1>4, <1>5, <1>6, <1>7, <1>8, <1>9, QueueSteps
-----------------------------------------------------------------------------
(* Every variable keeps its type.                                          *)

LEMMA RefillTyped ==
    ASSUME FillTyped, NEW B, Refill(B)
    PROVE  waiting' \in [Backend -> 0..MaxWaiting]
<1>1. \A m, n \in Int : m >= 0 /\ n >= 0 => Lesser(m + 1, n) \in 0..n
  BY DEF Lesser
<1>2. MaxWaiting \in Nat
  BY ForeverAssumption
<1> HIDE DEF Lesser
<1> QED
  BY <1>1, <1>2 DEF Refill, FillTyped

\* A dispatch at rest.
LEMMA FreshFill == NoFill \in FillRecord /\ NoFill.pc = "idle"
<1>1. <<>> \in [{} -> Nat]
  OBVIOUS
<1>2. <<>> \in UNION {[C -> Nat] : C \in SUBSET Client}
  BY <1>1
<1>3. /\ "idle" \in {"idle", "capacity", "queue", "pending", "clients", "tails", "send"}
      /\ {} \in SUBSET Client /\ 0 \in Int
  OBVIOUS
<1> QED
  BY <1>2, <1>3 DEF NoFill, FillRecord

LEMMA FillTypedStep ==
    ASSUME IInv, [Next]_<<faults, vars>>
    PROVE  FillTyped'
<1>1. FillTyped
  BY DEF IInv, Typed
<1>2. NoFill \in FillRecord /\ NoFill.pc = "idle"
  BY FreshFill
<1>3. CASE UNCHANGED <<fill, waiting>>
  BY <1>1, <1>3 DEF FillTyped
<1>4. ASSUME NEW B, Refill(B), UNCHANGED fill PROVE FillTyped'
  BY <1>1, <1>4, RefillTyped DEF FillTyped
<1>5. ASSUME NEW b \in Backend, FillBegin(b) PROVE FillTyped'
  <2>1. waiting' \in [Backend -> 0..MaxWaiting]
    <3>1. \A n \in 0..MaxWaiting : n > 0 => n - 1 \in 0..MaxWaiting
      BY ForeverAssumption
    <3>2. waiting[b] > 0 /\ waiting' = [waiting EXCEPT ![b] = @ - 1]
      BY <1>5 DEF FillBegin
    <3> QED
      BY <1>1, <3>1, <3>2 DEF FillTyped
  <2>2. CASE fill' = NoFill
    BY <1>2, <2>1, <2>2 DEF FillTyped
  <2>3. CASE fill' = [NoFill EXCEPT !.pc = "capacity", !.backend = b, !.clients = forever[b]]
    <3>1. forever[b] \in SUBSET Client
      BY DEF IInv, Typed, QueueTyped
    <3>2. fill' \in FillRecord
      BY <1>2, <2>3, <3>1 DEF FillRecord
    <3>3. fill'.backend = b /\ fill'.pc = "capacity"
      BY <1>2, <2>3 DEF FillRecord
    <3> QED
      BY <2>1, <3>2, <3>3 DEF FillTyped
  <2> QED
    BY <1>5, <2>2, <2>3 DEF FillBegin
<1>6. CASE FillCapacity
  <2>1. fill.pc = "capacity" /\ waiting' = waiting /\ fill.backend \in Backend /\ fill \in FillRecord
    BY <1>1, <1>6 DEF FillCapacity, FillTyped
  <2>2. CASE fill' = NoFill
    BY <1>1, <1>2, <2>1, <2>2 DEF FillTyped
  <2>3. CASE fill' # NoFill
    <3> DEFINE room == MaxConcurrent[fill.backend] - Cardinality(slots[fill.backend])
    <3>1. fill' = [fill EXCEPT !.pc = "queue", !.room = room]
      BY <1>6, <2>3 DEF FillCapacity
    <3>2. room \in Int
      <4>1. slots[fill.backend] \in SUBSET Job
        BY <2>1 DEF IInv, Typed, JobTyped
      <4>2. Cardinality(slots[fill.backend]) \in Nat
        BY <4>1, ForeverAssumption, FS_Subset, FS_CardinalityType
      <4> QED
        BY <2>1, <4>2, ForeverAssumption
    <3> HIDE DEF room
    <3>3. fill' \in FillRecord /\ fill'.backend = fill.backend /\ fill'.pc = "queue"
      BY <2>1, <3>1, <3>2 DEF FillRecord
    <3> QED
      BY <1>1, <2>1, <3>3 DEF FillTyped
  <2> QED
    BY <2>2, <2>3
<1>7. CASE FillQueue
  <2> DEFINE m == Cardinality(Rows({"queued"}, Client, {fill.backend}))
             room == fill.room - m
  <2>1. /\ fill.pc = "queue" /\ waiting' = waiting /\ fill.backend \in Backend /\ fill \in FillRecord
        /\ fill' = [fill EXCEPT !.pc = "pending", !.room = room]
    BY <1>1, <1>7 DEF FillQueue, FillTyped, FillRecord
  <2>2. m \in Nat
    <3>1. Rows({"queued"}, Client, {fill.backend}) \in SUBSET Job
      BY DEF Rows
    <3> QED
      BY <3>1, ForeverAssumption, FS_Subset, FS_CardinalityType
  <2>3. fill.room \in Int
    BY <2>1 DEF FillRecord
  <2>4. room \in Int
    <3> HIDE DEF m
    <3> QED
      BY <2>2, <2>3
  <2> HIDE DEF room
  <2>5. fill' \in FillRecord /\ fill'.backend = fill.backend /\ fill'.pc = "pending"
    BY <2>1, <2>4 DEF FillRecord
  <2> QED
    BY <1>1, <2>1, <2>5 DEF FillTyped
<1>19. CASE FillPending
  <2>1. /\ fill.pc = "pending" /\ waiting' = waiting /\ fill.backend \in Backend
        /\ fill \in FillRecord
    BY <1>1, <1>19 DEF FillPending, FillTyped
  <2>2. CASE fill' = NoFill
    BY <1>1, <1>2, <2>1, <2>2 DEF FillTyped
  <2>3. CASE fill' # NoFill
    <3> DEFINE n == Cardinality(pendingOf[fill.backend])
               room == fill.room - n
    <3>1. fill' = [fill EXCEPT !.pc = "clients", !.room = room]
      BY <1>19, <2>3 DEF FillPending
    <3>2. n \in Nat
      <4>1. pendingOf[fill.backend] \in SUBSET Request
        BY <2>1 DEF IInv, Typed, QueueTyped
      <4>2. IsFiniteSet(Request)
        <5>1. IsFiniteSet(1..MaxRequests) /\ IsFiniteSet(Client) /\ IsFiniteSet(Backend)
          BY ForeverAssumption, FS_Interval
        <5>2. IsFiniteSet(Backend \X (1..MaxRequests))
          BY <5>1, FS_Product
        <5> DEFINE N == 1..MaxRequests
                   f == [p \in Client \X (Backend \X N) |-> <<p[1], p[2][1], p[2][2]>>]
        <5>3. IsFiniteSet(Client \X (Backend \X N))
          BY <5>1, <5>2, FS_Product
        <5>4. f \in Surjection(Client \X (Backend \X N), Client \X Backend \X N)
          <6> HIDE DEF N
          <6>1. f \in [Client \X (Backend \X N) -> Client \X Backend \X N]
            OBVIOUS
          <6>2. \A r \in Client \X Backend \X N :
                   \E p \in Client \X (Backend \X N) : f[p] = r
            <7> TAKE r \in Client \X Backend \X N
            <7>1. <<r[1], <<r[2], r[3]>>>> \in Client \X (Backend \X N)
              OBVIOUS
            <7>2. f[<<r[1], <<r[2], r[3]>>>>] = r
              BY <7>1
            <7> QED
              BY <7>1, <7>2
          <6> HIDE DEF f
          <6> QED
            BY <6>1, <6>2 DEF Surjection
        <5> HIDE DEF f
        <5> QED
          BY <5>3, <5>4, FS_Surjection DEF Request
      <4> QED
        BY <4>1, <4>2, FS_Subset, FS_CardinalityType
    <3>3. fill.room \in Int
      BY <2>1 DEF FillRecord
    <3>4. room \in Int
      <4> HIDE DEF n
      <4> QED
        BY <3>2, <3>3
    <3> HIDE DEF room
    <3>5. fill' \in FillRecord /\ fill'.backend = fill.backend /\ fill'.pc = "clients"
      BY <2>1, <3>1, <3>4 DEF FillRecord
    <3> QED
      BY <1>1, <2>1, <3>5 DEF FillTyped
  <2> QED
    BY <2>2, <2>3
<1>8. ASSUME NEW c \in Client, FillRows(c) PROVE FillTyped'
  <2> DEFINE read == DOMAIN fill.active \cup {c}
             rows == [d \in read |-> IF d = c THEN ActiveRows(c) ELSE fill.active[d]]
  <2>1. /\ fill.pc = "clients" /\ waiting' = waiting /\ fill.backend \in Backend /\ fill \in FillRecord
        /\ fill' = [fill EXCEPT !.pc = "tails", !.page = c, !.active = rows]
    BY <1>1, <1>8 DEF FillRows, FillTyped
  <2>2. ActiveRows(c) \in Nat
    <3>1. Rows({"queued", "running", "tail"}, {c}, Backend) \in SUBSET Job
      BY DEF Rows
    <3> QED
      BY <3>1, ForeverAssumption, FS_Subset, FS_CardinalityType DEF ActiveRows
  <2>3. PICK C \in SUBSET Client : fill.active \in [C -> Nat]
    BY <2>1 DEF FillRecord
  <2>4. read \in SUBSET Client /\ rows \in [read -> Nat] /\ c \in read
    BY <2>2, <2>3
  <2> HIDE DEF read, rows
  <2>5. rows \in UNION {[D -> Nat] : D \in SUBSET Client} /\ c \in DOMAIN rows
    BY <2>4
  <2>6. /\ fill' \in FillRecord /\ fill'.backend = fill.backend
        /\ fill'.page = c /\ fill'.active = rows
    BY <2>1, <2>5 DEF FillRecord
  <2> QED
    BY <1>1, <2>1, <2>5, <2>6 DEF FillTyped
<1>20. ASSUME NEW c \in Client, FillClient(c) PROVE FillTyped'
  <2> DEFINE active == [fill.active EXCEPT ![c] = LessTails(c)]
             pc == IF DOMAIN fill.active = fill.clients THEN "send" ELSE "clients"
  <2>1. /\ fill.pc = "tails" /\ c = fill.page /\ waiting' = waiting /\ fill.backend \in Backend
        /\ fill \in FillRecord /\ c \in DOMAIN fill.active
        /\ fill' = [fill EXCEPT !.pc = pc, !.page = None, !.active = active]
    BY <1>1, <1>20 DEF FillClient, FillTyped, FillRecord
  <2>2. PICK C \in SUBSET Client : fill.active \in [C -> Nat]
    BY <2>1 DEF FillRecord
  <2>3. LessTails(c) \in Nat
    <3>1. fill.active[c] \in Nat
      BY <2>1, <2>2
    <3>2. finalizing[c] \in Nat
      BY DEF IInv, Typed, JobTyped
    <3> QED
      BY <3>1, <3>2 DEF LessTails
  <2>4. active \in [C -> Nat]
    BY <2>2, <2>3
  <2>5. pc \in {"clients", "send"}
    OBVIOUS
  <2> HIDE DEF active, pc
  <2>6. active \in UNION {[D -> Nat] : D \in SUBSET Client}
    BY <2>4
  <2>7. fill' \in FillRecord /\ fill'.backend = fill.backend /\ fill'.pc = pc
    BY <2>1, <2>5, <2>6 DEF FillRecord
  <2> QED
    BY <1>1, <2>1, <2>5, <2>7 DEF FillTyped
<1>9. CASE FillSend
  BY <1>1, <1>2, <1>9 DEF FillSend, FillTyped
<1>10. ASSUME NEW j \in Job, JobStep(j)
       PROVE  UNCHANGED fill /\ (UNCHANGED waiting \/ \E B : Refill(B))
  BY <1>10 DEF JobStep, Submitted, SubmitsUnasked, Rejected, Assigned, Generated, TailCommitted,
               TailDone, Failed, Requeued
<1>11. ASSUME NEW s \in Socket, SocketStep(s)
       PROVE  UNCHANGED fill /\ (UNCHANGED waiting \/ \E B : Refill(B))
  BY <1>11 DEF SocketStep, Greet, Write, ReleaseUndelivered, Written, Disconnect, Cleanup, StopSender,
               CloseSocket
<1>12. ASSUME NEW c \in Client, PageStep(c)
       PROVE  UNCHANGED fill /\ (UNCHANGED waiting \/ \E B : Refill(B))
  BY <1>12 DEF PageStep, Connect, PageLosesSocket, Start, Stop, Register, Unregister, Receive, Ignore,
               Post, PageDeclines, Decline, LegacyDecline
<1>13. ASSUME NEW r \in Request, Claim(r) \/ RouteDeclines(r)
       PROVE  UNCHANGED fill /\ (UNCHANGED waiting \/ \E B : Refill(B))
  BY <1>13 DEF Claim, RouteDeclines, Decline
<1>14. ASSUME NEW b \in Backend, BackendLost(b) \/ BackendBack(b) PROVE UNCHANGED <<fill, waiting>>
  BY <1>14 DEF BackendLost, BackendBack
<1>15. Lapse => UNCHANGED <<fill, waiting>>
  BY DEF Lapse
<1>16. UNCHANGED <<faults, vars>> => UNCHANGED <<fill, waiting>>
  BY DEF vars
<1>17. FillStep => FillTyped'
  BY <1>5, <1>6, <1>7, <1>8, <1>9, <1>19, <1>20 DEF FillStep
<1>18. (UNCHANGED waiting \/ \E B : Refill(B)) /\ UNCHANGED fill => FillTyped'
  BY <1>3, <1>4
<1> QED
  BY <1>3, <1>10, <1>11, <1>12, <1>13, <1>14, <1>15, <1>16, <1>17, <1>18, Zenon DEF Next
\* Rows: what the counts of finalizing rows rest on.
LEMMA RowFacts ==
    ASSUME JobTyped, NEW j \in Job
    PROVE  /\ job[j].stage \in Stage
           /\ job[j].stage # "free" =>
                 job[j] \in [stage : Stage \ {"free"}, client : Client, backend : Backend]
           /\ job[j].stage = "free" => job[j] = NoRow
           /\ NoRow.stage = "free" /\ NoRow.client = None
<1>1. job[j] \in Row
  BY DEF JobTyped
<1>2. NoRow.stage = "free" /\ NoRow.client = None
  BY DEF NoRow
<1>3. CASE job[j] = NoRow
  BY <1>2, <1>3 DEF Stage
<1>4. CASE job[j] \in [stage : Stage \ {"free"}, client : Client, backend : Backend]
  BY <1>2, <1>4
<1> QED
  BY <1>1, <1>2, <1>3, <1>4 DEF Row

\* A row that takes its next stage keeps its page and backend.
LEMMA SetRowEffect ==
    ASSUME JobTyped, NEW j \in Job, job[j].stage # "free", NEW stage \in Stage \ {"free"},
           SetRow(j, stage)
    PROVE  /\ job' \in [Job -> Row]
           /\ job'[j].stage = stage /\ job'[j].client = job[j].client
           /\ \A i \in Job : i # j => job'[i] = job[i]
<1>1. job[j] \in [stage : Stage \ {"free"}, client : Client, backend : Backend]
  BY RowFacts
<1>2. /\ job'[j] = [job[j] EXCEPT !.stage = stage]
      /\ \A i \in Job : i # j => job'[i] = job[i]
      /\ job' = [job EXCEPT ![j] = [job[j] EXCEPT !.stage = stage]]
  BY DEF SetRow, JobTyped
<1>3. [job[j] EXCEPT !.stage = stage] \in Row
  BY <1>1 DEF Row
<1>4. job' \in [Job -> Row]
  BY <1>2, <1>3 DEF JobTyped
<1> QED
  BY <1>1, <1>2, <1>4

\* The count stands when no row enters or leaves its tail.
LEMMA TailsKept ==
    ASSUME JobTyped, job' \in [Job -> Row], finalizing' = finalizing,
           \A j \in Job : \/ job'[j] = job[j]
                          \/ /\ job[j].stage \notin {"tail", "closing"}
                             /\ job'[j].stage \notin {"tail", "closing"}
                          \/ /\ job[j].stage \in {"tail", "closing"}
                             /\ job'[j].stage \in {"tail", "closing"}
                             /\ job'[j].client = job[j].client
    PROVE  \A c \in Client : finalizing'[c] = Cardinality(InTail(c)')
<1> SUFFICES ASSUME NEW c \in Client PROVE finalizing[c] = Cardinality(InTail(c)')
  OBVIOUS
<1>1. InTail(c)' = InTail(c)
  BY DEF InTail
<1> QED
  BY <1>1 DEF JobTyped

LEMMA TailsFinite ==
    ASSUME NEW c PROVE IsFiniteSet(InTail(c)) /\ Cardinality(InTail(c)) \in Nat
<1>1. InTail(c) \in SUBSET Job
  BY DEF InTail
<1> QED
  BY <1>1, ForeverAssumption, FS_Subset, FS_CardinalityType

LEMMA JobStepTyped ==
    ASSUME JobTyped, NEW j \in Job, JobStep(j)
    PROVE  JobTyped'
<1> USE DEF JobTyped
<1>1. job[j].stage = "free" \/ job[j] \in [stage : Stage \ {"free"}, client : Client, backend : Backend]
  BY RowFacts
<1>2. slots' = slots \/ FreeSlot(j) => slots' \in [Backend -> SUBSET Job]
  BY DEF FreeSlot
<1>3. Drop(j) => /\ job' \in [Job -> Row] /\ job'[j] = NoRow
                 /\ \A i \in Job : i # j => job'[i] = job[i]
  BY DEF Drop, Row
<1>4. NoRow.stage = "free" /\ NoRow.client = None
  BY DEF NoRow
<1>5. CASE Submitted(j)
  <2>1. job[j].stage = "claimed" /\ SetRow(j, "queued") /\ UNCHANGED <<up, slots, finalizing>>
    BY <1>5 DEF Submitted
  <2>2. job' \in [Job -> Row] /\ job'[j].stage = "queued" /\ \A i \in Job : i # j => job'[i] = job[i]
    BY <2>1, SetRowEffect DEF Stage
  <2> QED
    BY <2>1, <2>2, TailsKept
<1>6. ASSUME NEW c \in Client, NEW b \in Backend, SubmitsUnasked(j, c, b) PROVE JobTyped'
  <2> DEFINE row == [stage |-> "queued", client |-> c, backend |-> b]
  <2>1. job[j] = NoRow /\ job' = [job EXCEPT ![j] = row] /\ UNCHANGED <<up, slots, finalizing>>
    BY <1>6 DEF SubmitsUnasked
  <2>2. row \in Row /\ row.stage = "queued"
    BY DEF Row, Stage
  <2> HIDE DEF row
  <2>3. job' \in [Job -> Row] /\ job'[j] = row /\ \A i \in Job : i # j => job'[i] = job[i]
    BY <2>1, <2>2
  <2> QED
    BY <1>4, <2>1, <2>2, <2>3, TailsKept
<1>7. CASE Rejected(j)
  <2>1. job[j].stage = "claimed" /\ Drop(j) /\ UNCHANGED <<up, slots, finalizing>>
    BY <1>7 DEF Rejected
  <2> QED
    BY <1>3, <1>4, <2>1, TailsKept
<1>8. CASE Assigned(j)
  <2>1. job[j].stage = "queued" /\ SetRow(j, "running") /\ UNCHANGED <<up, finalizing>>
    BY <1>8 DEF Assigned
  <2>2. job' \in [Job -> Row] /\ job'[j].stage = "running" /\ \A i \in Job : i # j => job'[i] = job[i]
    BY <2>1, SetRowEffect DEF Stage
  <2>3. slots' \in [Backend -> SUBSET Job]
    BY <1>8 DEF Assigned
  <2> QED
    BY <2>1, <2>2, <2>3, TailsKept
<1>9. CASE Generated(j)
  <2>1. PICK d \in Client : d = job[j].client
    BY <1>1, <1>9 DEF Generated
  <2>2. /\ job[j].stage = "running" /\ SetRow(j, "tail") /\ FreeSlot(j) /\ up' = up
        /\ finalizing' = [finalizing EXCEPT ![d] = @ + 1]
    BY <1>9, <2>1 DEF Generated
  <2>3. /\ job' \in [Job -> Row] /\ job'[j].stage = "tail" /\ job'[j].client = d
        /\ \A i \in Job : i # j => job'[i] = job[i]
    BY <2>1, <2>2, SetRowEffect DEF Stage
  <2>4. j \notin InTail(d) /\ InTail(d)' = InTail(d) \cup {j}
    BY <2>1, <2>2, <2>3 DEF InTail
  <2>5. \A c \in Client : c # d => InTail(c)' = InTail(c)
    BY <2>1, <2>2, <2>3 DEF InTail
  <2>6. Cardinality(InTail(d)') = Cardinality(InTail(d)) + 1
    BY <2>4, TailsFinite, FS_AddElement
  <2>7. finalizing' \in [Client -> Nat] /\ \A c \in Client : finalizing'[c] = Cardinality(InTail(c)')
    <3>1. finalizing \in [Client -> Nat] /\ finalizing[d] = Cardinality(InTail(d))
      BY <2>1
    <3>2. finalizing[d] + 1 \in Nat
      BY <2>1, <3>1
    <3>3. finalizing' \in [Client -> Nat] /\ finalizing'[d] = finalizing[d] + 1
      BY <2>1, <2>2, <3>1, <3>2
    <3>4. ASSUME NEW c \in Client PROVE finalizing'[c] = Cardinality(InTail(c)')
      <4>1. CASE c = d
        BY <2>6, <3>1, <3>3, <4>1
      <4>2. CASE c # d
        <5>1. finalizing'[c] = finalizing[c] /\ finalizing[c] = Cardinality(InTail(c))
          BY <2>2, <3>1, <4>2
        <5> QED
          BY <2>5, <4>2, <5>1
      <4> QED
        BY <4>1, <4>2
    <3> QED
      BY <3>3, <3>4
  <2> QED
    BY <1>2, <2>2, <2>3, <2>7
<1>10. CASE TailCommitted(j)
  <2>1. job[j].stage = "tail" /\ SetRow(j, "closing") /\ UNCHANGED <<up, slots, finalizing>>
    BY <1>10 DEF TailCommitted
  <2>2. /\ job' \in [Job -> Row] /\ job'[j].stage = "closing" /\ job'[j].client = job[j].client
        /\ \A i \in Job : i # j => job'[i] = job[i]
    BY <2>1, SetRowEffect DEF Stage
  <2> QED
    BY <2>1, <2>2, TailsKept
<1>11. CASE TailDone(j)
  <2>1. PICK d \in Client : d = job[j].client
    BY <1>1, <1>11 DEF TailDone
  <2>2. /\ job[j].stage = "closing" /\ Drop(j) /\ UNCHANGED <<up, slots>>
        /\ finalizing' = [finalizing EXCEPT ![d] = @ - 1]
    BY <1>11, <2>1 DEF TailDone
  <2>3. j \in InTail(d) /\ InTail(d)' = InTail(d) \ {j}
    <3>1. j \in InTail(d)
      BY <2>1, <2>2 DEF InTail
    <3>2. job'[j] = NoRow /\ \A i \in Job : i # j => job'[i] = job[i]
      BY <1>3, <2>2
    <3> QED
      BY <1>4, <3>1, <3>2 DEF InTail
  <2>4. \A c \in Client : c # d => InTail(c)' = InTail(c)
    BY <1>3, <1>4, <2>1, <2>2 DEF InTail
  <2>5. Cardinality(InTail(d)') = Cardinality(InTail(d)) - 1 /\ Cardinality(InTail(d)') \in Nat
    <3>1. IsFiniteSet(InTail(d) \ {j}) /\ Cardinality(InTail(d) \ {j}) = Cardinality(InTail(d)) - 1
      BY <2>3, TailsFinite, FS_RemoveElement
    <3> QED
      BY <2>3, <3>1, FS_CardinalityType
  <2>6. finalizing' \in [Client -> Nat] /\ \A c \in Client : finalizing'[c] = Cardinality(InTail(c)')
    <3>1. finalizing \in [Client -> Nat] /\ finalizing[d] = Cardinality(InTail(d))
      BY <2>1
    <3>2. finalizing[d] - 1 \in Nat
      BY <2>5, <3>1
    <3>3. finalizing' \in [Client -> Nat] /\ finalizing'[d] = finalizing[d] - 1
      BY <2>1, <2>2, <3>1, <3>2
    <3>4. ASSUME NEW c \in Client PROVE finalizing'[c] = Cardinality(InTail(c)')
      <4>1. CASE c = d
        BY <2>5, <3>1, <3>3, <4>1
      <4>2. CASE c # d
        <5>1. finalizing'[c] = finalizing[c] /\ finalizing[c] = Cardinality(InTail(c))
          BY <2>2, <3>1, <4>2
        <5> QED
          BY <2>4, <4>2, <5>1
      <4> QED
        BY <4>1, <4>2
    <3> QED
      BY <3>3, <3>4
  <2> QED
    BY <1>2, <1>3, <2>2, <2>6
<1>12. CASE Failed(j)
  <2>1. job[j].stage \in {"queued", "running"} /\ Drop(j) /\ FreeSlot(j) /\ UNCHANGED <<up, finalizing>>
    BY <1>12 DEF Failed
  <2> QED
    BY <1>2, <1>3, <1>4, <2>1, TailsKept
<1>13. CASE Requeued(j)
  <2>1. job[j].stage = "running" /\ SetRow(j, "queued") /\ FreeSlot(j) /\ UNCHANGED <<up, finalizing>>
    BY <1>13 DEF Requeued
  <2>2. job' \in [Job -> Row] /\ job'[j].stage = "queued" /\ \A i \in Job : i # j => job'[i] = job[i]
    BY <2>1, SetRowEffect DEF Stage
  <2> QED
    BY <1>2, <2>1, <2>2, TailsKept
<1> HIDE DEF JobTyped
<1> QED
  BY <1>5, <1>6, <1>7, <1>8, <1>9, <1>10, <1>11, <1>12, <1>13, Zenon DEF JobStep

LEMMA JobTypedStep ==
    ASSUME IInv, [Next]_<<faults, vars>>
    PROVE  JobTyped'
<1>1. JobTyped
  BY DEF IInv, Typed
<1>2. ASSUME UNCHANGED jobVars PROVE JobTyped'
  BY <1>1, <1>2 DEF jobVars, JobTyped, InTail
<1>3. UNCHANGED <<faults, vars>> => UNCHANGED jobVars
  BY DEF vars
<1>4. FillStep \/ Lapse => UNCHANGED jobVars
  BY DEF FillStep, FillBegin, FillCapacity, FillQueue, FillPending, FillRows,
              FillClient, FillSend, Lapse
<1>5. ASSUME NEW b \in Backend, BackendLost(b) \/ BackendBack(b) PROVE JobTyped'
  <2>1. up' \subseteq Backend /\ slots' \in [Backend -> SUBSET Job] /\ UNCHANGED <<job, finalizing>>
    BY <1>1, <1>5 DEF BackendLost, BackendBack, JobTyped
  <2> QED
    BY <1>1, <2>1 DEF JobTyped, InTail
<1>6. ASSUME NEW s \in Socket, SocketStep(s) PROVE UNCHANGED jobVars \/ Cleanup(s)
  BY <1>6 DEF SocketStep, Greet, Write, ReleaseUndelivered, Written, Disconnect, StopSender, CloseSocket
<1>7. ASSUME NEW s \in Socket, Cleanup(s) PROVE JobTyped'
  <2> DEFINE c == sock[s].client
  <2>1. UNCHANGED <<up, slots, finalizing>>
    BY <1>7 DEF Cleanup
  <2>2. \/ job' = job
        \/ job' = [j \in Job |-> IF job[j].client = c /\ job[j].stage = "queued" THEN NoRow ELSE job[j]]
    BY <1>7 DEF Cleanup
  <2>3. NoRow \in Row /\ NoRow.stage = "free"
    BY DEF Row, NoRow
  <2>4. job' \in [Job -> Row]
    BY <1>1, <2>2, <2>3 DEF JobTyped
  <2>5. \A j \in Job : job'[j] = job[j] \/ (job[j].stage = "queued" /\ job'[j].stage = "free")
    BY <2>2, <2>3
  <2> QED
    BY <1>1, <2>1, <2>4, <2>5, TailsKept DEF JobTyped
<1>8. ASSUME NEW c \in Client, PageStep(c) PROVE UNCHANGED jobVars
  BY <1>8 DEF PageStep, Connect, PageLosesSocket, Start, Stop, Register, Unregister, Receive, Ignore,
              Post, PageDeclines, Decline, LegacyDecline
<1>9. ASSUME NEW r \in Request, Claim(r) PROVE JobTyped'
  <2> DEFINE row == [stage |-> "claimed", client |-> ClientOf(r), backend |-> BackendOf(r)]
  <2>1. UNCHANGED <<up, slots, finalizing>>
    BY <1>9 DEF Claim
  <2>2. job' = job \/ \E j \in Job : job[j] = NoRow /\ job' = [job EXCEPT ![j] = row]
    BY <1>9 DEF Claim
  <2>3. row \in Row /\ row.stage = "claimed"
    BY Requests DEF Row, Stage
  <2>4. NoRow.stage = "free"
    BY DEF NoRow
  <2> HIDE DEF row
  <2>5. job' \in [Job -> Row]
    BY <1>1, <2>2, <2>3 DEF JobTyped
  <2>6. \A j \in Job : job'[j] = job[j] \/ (job[j].stage = "free" /\ job'[j].stage = "claimed")
    BY <1>1, <2>2, <2>3, <2>4 DEF JobTyped
  <2> QED
    BY <1>1, <2>1, <2>5, <2>6, TailsKept DEF JobTyped
<1>10. ASSUME NEW r \in Request, RouteDeclines(r) PROVE UNCHANGED jobVars
  BY <1>10 DEF RouteDeclines, Decline
<1> QED
  BY <1>1, <1>2, <1>3, <1>4, <1>5, <1>6, <1>7, <1>8, <1>9, <1>10, JobStepTyped, Zenon DEF Next

\* A connection's fields.
LEMMA SocketFields ==
    ASSUME SocketTyped, NEW s \in Socket
    PROVE  /\ sock[s] \in SocketRecord
           /\ sock[s].state \in {"free", "open", "cleanup", "stop", "release"}
           /\ sock[s].client \in Client \cup {None}
           /\ sock[s].greeted \in BOOLEAN
           /\ sock[s].outbox \subseteq Request
           /\ sock[s].inflight \in Request \cup {None}
           /\ sock[s].wire \subseteq Request
BY DEF SocketTyped, SocketRecord

\* What the steps that change a connection make of it; the others stay.
OnlySocket(s) ==
    /\ sock' \in [Socket -> SocketRecord]
    /\ \A t \in Socket : t # s => sock'[t] = sock[t]

LEMMA WriteEffect ==
    ASSUME SocketTyped, NEW s \in Socket, NEW r, Write(s, r)
    PROVE  /\ r \in Request /\ r \in sock[s].outbox /\ OnlySocket(s)
           /\ sock'[s].state = sock[s].state /\ sock'[s].client = sock[s].client
           /\ sock'[s].outbox = sock[s].outbox \ {r}
           /\ sock'[s].inflight = r
           /\ sock'[s].wire = IF live[sock[s].client] = s THEN sock[s].wire \cup {r} ELSE sock[s].wire
           /\ UNCHANGED <<owner, lastReg, pageVars>>
<1> DEFINE wire == IF live[sock[s].client] = s THEN sock[s].wire \cup {r} ELSE sock[s].wire
           out == sock[s].outbox \ {r}
<1>1. /\ r \in Request /\ r \in sock[s].outbox /\ sock \in [Socket -> SocketRecord]
      /\ UNCHANGED <<owner, lastReg, pageVars>>
  BY SocketFields DEF Write, SocketTyped
<1>2. wire \in SUBSET Request /\ out \in SUBSET Request
  BY <1>1, SocketFields
<1>3. sock' = [sock EXCEPT ![s].outbox = out, ![s].inflight = r, ![s].wire = wire]
  BY DEF Write
<1> HIDE DEF wire, out
<1>4. sock' \in [Socket -> SocketRecord]
  <2> DEFINE one == [sock EXCEPT ![s].outbox = out]
             two == [one EXCEPT ![s].inflight = r]
  <2>1. one \in [Socket -> SocketRecord]
    BY <1>1, <1>2 DEF SocketRecord
  <2>2. sock' = [two EXCEPT ![s].wire = wire]
    BY <1>3
  <2> HIDE DEF one
  <2>3. two \in [Socket -> SocketRecord]
    BY <1>1, <2>1 DEF SocketRecord
  <2> HIDE DEF two
  <2> QED
    BY <1>1, <1>2, <2>2, <2>3 DEF SocketRecord
<1>5. /\ \A t \in Socket : t # s => sock'[t] = sock[t]
      /\ sock'[s].state = sock[s].state /\ sock'[s].client = sock[s].client
      /\ sock'[s].outbox = out /\ sock'[s].inflight = r /\ sock'[s].wire = wire
  BY <1>1, <1>3 DEF SocketRecord
<1> QED
  BY <1>1, <1>4, <1>5 DEF OnlySocket, wire, out

LEMMA GreetWrittenEffect ==
    ASSUME SocketTyped, NEW s \in Socket, Greet(s) \/ Written(s)
    PROVE  /\ OnlySocket(s)
           /\ sock'[s].state = sock[s].state /\ sock'[s].client = sock[s].client
           /\ sock'[s].outbox = sock[s].outbox /\ sock'[s].wire = sock[s].wire
           /\ sock'[s].inflight \in {sock[s].inflight, None}
           /\ UNCHANGED pageVars
<1>1. sock \in [Socket -> SocketRecord]
  BY DEF SocketTyped
<1>2. CASE Greet(s)
  <2>1. sock' = [sock EXCEPT ![s].greeted = TRUE] /\ UNCHANGED pageVars
    BY <1>2 DEF Greet
  <2> QED
    BY <1>1, <2>1 DEF SocketRecord, OnlySocket
<1>3. CASE Written(s)
  <2>1. sock' = [sock EXCEPT ![s].inflight = None] /\ UNCHANGED pageVars
    BY <1>3 DEF Written
  <2> QED
    BY <1>1, <2>1 DEF SocketRecord, OnlySocket
<1> QED
  BY <1>2, <1>3

LEMMA TeardownEffect ==
    ASSUME SocketTyped, NEW s \in Socket, Disconnect(s) \/ Cleanup(s)
    PROVE  /\ OnlySocket(s)
           /\ sock'[s].state = IF Cleanup(s) THEN "stop"
                               ELSE IF owner[sock[s].client] = s THEN "cleanup" ELSE "stop"
           /\ sock'[s].client = sock[s].client
           /\ sock'[s].outbox = sock[s].outbox /\ sock'[s].wire = sock[s].wire
           /\ sock'[s].inflight = sock[s].inflight
           /\ UNCHANGED <<lastReg, pageVars>>
<1>1. sock \in [Socket -> SocketRecord]
  BY DEF SocketTyped
<1>2. CASE Cleanup(s)
  <2>1. sock' = [sock EXCEPT ![s].state = "stop"] /\ UNCHANGED <<lastReg, pageVars>>
    BY <1>2 DEF Cleanup
  <2> QED
    BY <1>1, <1>2, <2>1 DEF SocketRecord, OnlySocket
<1>3. CASE ~Cleanup(s) /\ Disconnect(s)
  <2> DEFINE state == IF owner[sock[s].client] = s THEN "cleanup" ELSE "stop"
  <2>1. sock' = [sock EXCEPT ![s].state = state] /\ UNCHANGED <<lastReg, pageVars>>
    BY <1>3 DEF Disconnect
  <2>2. state \in {"cleanup", "stop"}
    OBVIOUS
  <2> HIDE DEF state
  <2>3. OnlySocket(s)
    BY <1>1, <2>1, <2>2 DEF SocketRecord, OnlySocket
  <2>4. /\ sock'[s].state = state /\ sock'[s].client = sock[s].client
        /\ sock'[s].outbox = sock[s].outbox /\ sock'[s].wire = sock[s].wire
        /\ sock'[s].inflight = sock[s].inflight
    BY <1>1, <2>1 DEF SocketRecord
  <2> QED
    BY <1>3, <2>1, <2>3, <2>4 DEF state
<1> QED
  BY <1>2, <1>3

LEMMA StopSenderEffect ==
    ASSUME SocketTyped, NEW s \in Socket, StopSender(s)
    PROVE  /\ OnlySocket(s)
           /\ sock[s].state = "stop" /\ sock'[s].state = "release" /\ sock'[s].client = sock[s].client
           /\ sock'[s].outbox = sock[s].outbox \cup ({sock[s].inflight} \ {None})
           /\ sock'[s].wire = sock[s].wire /\ sock'[s].inflight = None
           /\ UNCHANGED <<owner, pageVars>>
<1> DEFINE out == sock[s].outbox \cup ({sock[s].inflight} \ {None})
<1>1. sock \in [Socket -> SocketRecord] /\ out \in SUBSET Request
  BY SocketFields DEF SocketTyped
<1>2. /\ sock' = [sock EXCEPT ![s].state = "release", ![s].inflight = None, ![s].outbox = out]
      /\ sock[s].state = "stop" /\ UNCHANGED <<owner, pageVars>>
  BY DEF StopSender
<1> HIDE DEF out
<1>3. sock' \in [Socket -> SocketRecord]
  <2> DEFINE one == [sock EXCEPT ![s].state = "release"]
             two == [one EXCEPT ![s].inflight = None]
  <2>1. one \in [Socket -> SocketRecord]
    BY <1>1, <1>2 DEF SocketRecord
  <2>2. sock' = [two EXCEPT ![s].outbox = out]
    BY <1>2
  <2> HIDE DEF one
  <2>3. two \in [Socket -> SocketRecord]
    BY <1>1, <2>1 DEF SocketRecord
  <2> HIDE DEF two
  <2> QED
    BY <1>1, <2>2, <2>3 DEF SocketRecord
<1>4. /\ \A t \in Socket : t # s => sock'[t] = sock[t]
      /\ sock'[s].state = "release" /\ sock'[s].client = sock[s].client
      /\ sock'[s].outbox = out /\ sock'[s].wire = sock[s].wire /\ sock'[s].inflight = None
  BY <1>1, <1>2 DEF SocketRecord
<1> QED
  BY <1>2, <1>3, <1>4 DEF OnlySocket, out

LEMMA ReleaseUndeliveredEffect ==
    ASSUME SocketTyped, NEW s \in Socket, NEW r, ReleaseUndelivered(s, r)
    PROVE  /\ OnlySocket(s) /\ sock[s].state = "release"
           /\ sock'[s].state = sock[s].state /\ sock'[s].client = sock[s].client
           /\ sock'[s].outbox = sock[s].outbox \ {r}
           /\ sock'[s].wire = sock[s].wire /\ sock'[s].inflight = sock[s].inflight
           /\ UNCHANGED <<owner, lastReg, pageVars>>
<1> DEFINE out == sock[s].outbox \ {r}
<1>1. sock \in [Socket -> SocketRecord] /\ out \in SUBSET Request
  BY SocketFields DEF SocketTyped
<1>2. /\ sock' = [sock EXCEPT ![s].outbox = out] /\ sock[s].state = "release"
      /\ UNCHANGED <<owner, lastReg, pageVars>>
  BY DEF ReleaseUndelivered
<1> HIDE DEF out
<1>3. sock' \in [Socket -> SocketRecord]
  BY <1>1, <1>2 DEF SocketRecord
<1>4. /\ \A t \in Socket : t # s => sock'[t] = sock[t]
      /\ sock'[s].state = sock[s].state /\ sock'[s].client = sock[s].client
      /\ sock'[s].outbox = out /\ sock'[s].wire = sock[s].wire
      /\ sock'[s].inflight = sock[s].inflight
  BY <1>1, <1>2 DEF SocketRecord
<1> QED
  BY <1>2, <1>3, <1>4 DEF OnlySocket, out

LEMMA FreshSocket ==
    /\ NoSocket \in SocketRecord
    /\ \A c \in Client : [NoSocket EXCEPT !.state = "open", !.client = c] \in SocketRecord
    /\ \A c \in Client : LET new == [NoSocket EXCEPT !.state = "open", !.client = c]
                         IN  /\ new.state = "open" /\ new.client = c
                             /\ new.outbox = {} /\ new.wire = {} /\ new.inflight = None
    /\ NoSocket.state = "free" /\ NoSocket.client = None
    /\ NoSocket.outbox = {} /\ NoSocket.wire = {} /\ NoSocket.inflight = None
BY DEF NoSocket, SocketRecord

LEMMA CloseEffect ==
    ASSUME SocketTyped, NEW s \in Socket, CloseSocket(s)
    PROVE  /\ OnlySocket(s) /\ sock'[s] = NoSocket /\ sock[s].state = "release"
           /\ UNCHANGED <<owner, lastReg, pageVars>>
<1>1. /\ sock \in [Socket -> SocketRecord] /\ sock' = [sock EXCEPT ![s] = NoSocket]
      /\ sock[s].state = "release" /\ UNCHANGED <<owner, lastReg, pageVars>>
  BY DEF SocketTyped, CloseSocket
<1> QED
  BY <1>1, FreshSocket DEF OnlySocket

LEMMA ConnectEffect ==
    ASSUME SocketTyped, NEW s \in Socket, NEW c \in Client, Connect(c, s)
    PROVE  /\ OnlySocket(s) /\ sock[s] = NoSocket /\ live[c] = None
           /\ sock'[s].state = "open" /\ sock'[s].client = c
           /\ sock'[s].outbox = {} /\ sock'[s].wire = {} /\ sock'[s].inflight = None
           /\ live' = [live EXCEPT ![c] = s]
           /\ UNCHANGED <<owner, lastReg, on, inbox, submits>>
<1> DEFINE new == [NoSocket EXCEPT !.state = "open", !.client = c]
<1>1. sock \in [Socket -> SocketRecord] /\ new \in SocketRecord
  BY FreshSocket DEF SocketTyped
<1>2. /\ new.state = "open" /\ new.client = c
      /\ new.outbox = {} /\ new.wire = {} /\ new.inflight = None
  BY FreshSocket
<1>3. /\ sock' = [sock EXCEPT ![s] = new] /\ sock[s] = NoSocket /\ live[c] = None
      /\ live' = [live EXCEPT ![c] = s] /\ UNCHANGED <<owner, lastReg, on, inbox, submits>>
  BY DEF Connect
<1> HIDE DEF new
<1>4. OnlySocket(s) /\ sock'[s] = new
  BY <1>1, <1>3 DEF OnlySocket
<1> QED
  BY <1>2, <1>3, <1>4

\* The page's end of its connection.
LEMMA WireEffect ==
    ASSUME SocketTyped, NEW s \in Socket, NEW gone, sock' = [sock EXCEPT ![s].wire = @ \ gone]
    PROVE  /\ OnlySocket(s)
           /\ sock'[s].state = sock[s].state /\ sock'[s].client = sock[s].client
           /\ sock'[s].outbox = sock[s].outbox /\ sock'[s].wire = sock[s].wire \ gone
           /\ sock'[s].inflight = sock[s].inflight
<1> DEFINE left == sock[s].wire \ gone
<1>1. sock \in [Socket -> SocketRecord] /\ left \in SUBSET Request
  BY SocketFields DEF SocketTyped
<1>2. sock' = [sock EXCEPT ![s].wire = left]
  OBVIOUS
<1> HIDE DEF left
<1>3. sock' \in [Socket -> SocketRecord]
  BY <1>1, <1>2 DEF SocketRecord
<1>4. /\ \A t \in Socket : t # s => sock'[t] = sock[t]
      /\ sock'[s].state = sock[s].state /\ sock'[s].client = sock[s].client
      /\ sock'[s].outbox = sock[s].outbox /\ sock'[s].wire = left
      /\ sock'[s].inflight = sock[s].inflight
  BY <1>1, <1>2 DEF SocketRecord
<1> QED
  BY <1>3, <1>4 DEF OnlySocket, left

\* What is sent is added to the outboxes.
LEMMA SentEffect ==
    ASSUME SocketTyped, NEW new, Sent(new)
    PROVE  /\ sock' \in [Socket -> SocketRecord]
           /\ \A s \in Socket :
                 /\ sock'[s].state = sock[s].state /\ sock'[s].client = sock[s].client
                 /\ sock'[s].outbox = sock[s].outbox \cup {r \in ToSet(new) : owner[ClientOf(r)] = s}
                 /\ sock'[s].wire = sock[s].wire /\ sock'[s].inflight = sock[s].inflight
<1> DEFINE To(s) == {r \in ToSet(new) : owner[ClientOf(r)] = s}
<1>1. sock \in [Socket -> SocketRecord] /\ \A s \in Socket : To(s) \in SUBSET Request
  BY DEF SocketTyped, Sent, ToSet
<1>2. sock' = [s \in Socket |-> [sock[s] EXCEPT !.outbox = @ \cup To(s)]]
  BY DEF Sent
<1> HIDE DEF To
<1>3. sock' \in [Socket -> SocketRecord]
  BY <1>1, <1>2 DEF SocketRecord
<1>4. \A s \in Socket :
         /\ sock'[s].state = sock[s].state /\ sock'[s].client = sock[s].client
         /\ sock'[s].outbox = sock[s].outbox \cup To(s)
         /\ sock'[s].wire = sock[s].wire /\ sock'[s].inflight = sock[s].inflight
  BY <1>1, <1>2 DEF SocketRecord
<1> QED
  BY <1>3, <1>4 DEF To

\* The steps that touch connections and pages.
LEMMA PageAndSocketSteps ==
    ASSUME [Next]_<<faults, vars>>
    PROVE  \/ UNCHANGED <<socketVars, pageVars>>
           \/ FillSend
           \/ \E s \in Socket : SocketStep(s)
           \/ \E c \in Client : PageStep(c)
           \/ \E r \in Request : Claim(r) \/ RouteDeclines(r)
<1>1. CASE UNCHANGED <<faults, vars>>
  BY <1>1 DEF vars
<1>2. ASSUME FillStep, ~FillSend PROVE UNCHANGED <<socketVars, pageVars>>
  BY <1>2 DEF FillStep, FillBegin, FillCapacity, FillQueue, FillPending, FillRows,
              FillClient
<1>3. ASSUME NEW j \in Job, JobStep(j) PROVE UNCHANGED <<socketVars, pageVars>>
  BY <1>3 DEF JobStep, Submitted, SubmitsUnasked, Rejected, Assigned, Generated, TailCommitted,
              TailDone, Failed, Requeued
<1>4. ASSUME NEW b \in Backend, BackendLost(b) \/ BackendBack(b)
      PROVE  UNCHANGED <<socketVars, pageVars>>
  BY <1>4 DEF BackendLost, BackendBack
<1>5. Lapse => UNCHANGED <<socketVars, pageVars>>
  BY DEF Lapse
<1> QED
  BY <1>1, <1>2, <1>3, <1>4, <1>5, Zenon DEF Next

\* What the steps of a page do to the connections and to what the page holds.
LEMMA PageSteps ==
    ASSUME NEW c \in Client, PageStep(c)
    PROVE  \/ \E s \in Socket : Connect(c, s)
           \/ PageLosesSocket(c)
           \/ \E r \in Request : Receive(c, r)
           \/ \E r \in Request : Post(c, r)
           \/ \E b \in Backend : Start(c, b) \/ Stop(c, b)
           \/ /\ UNCHANGED <<socketVars, live, submits, on>>
              /\ inbox' = inbox \/ \E r \in Request : inbox' = [inbox EXCEPT ![c] = @ \ {r}]
              /\ acked' = acked \/ \E B \in SUBSET Backend : acked' = [acked EXCEPT ![c] = @ \cup B]
              /\ \/ posts' = posts
                 \/ posts[c] # <<>> /\ posts' = [posts EXCEPT ![c] = Tail(@)]
<1>1. ASSUME NEW b \in Backend, Register(c, b)
      PROVE  /\ UNCHANGED <<socketVars, live, inbox, submits, on>>
             /\ \E B \in SUBSET Backend : acked' = [acked EXCEPT ![c] = @ \cup B]
             /\ posts[c] # <<>> /\ posts' = [posts EXCEPT ![c] = Tail(@)]
  <2>1. acked' = [acked EXCEPT ![c] = IF b \in on[c] THEN @ \cup {b} ELSE @]
    BY <1>1 DEF Register
  <2> DEFINE B == IF b \in on[c] THEN {b} ELSE {}
  <2>2. B \in SUBSET Backend /\ acked' = [acked EXCEPT ![c] = @ \cup B]
    BY <2>1
  <2> QED
    BY <1>1, <2>2 DEF Register
<1>2. ASSUME NEW b \in Backend, Unregister(c, b)
      PROVE  /\ UNCHANGED <<socketVars, live, inbox, submits, on, acked>>
             /\ posts[c] # <<>> /\ posts' = [posts EXCEPT ![c] = Tail(@)]
  BY <1>2 DEF Unregister
<1>3. ASSUME NEW r \in Request, Ignore(c, r) \/ PageDeclines(c, r) \/ LegacyDecline(c, r)
      PROVE  /\ UNCHANGED <<socketVars, live, submits, on, acked, posts>>
             /\ inbox' = [inbox EXCEPT ![c] = @ \ {r}]
  BY <1>3 DEF Ignore, PageDeclines, Decline, LegacyDecline
<1> QED
  BY <1>1, <1>2, <1>3, Zenon DEF PageStep

LEMMA SetToSeqKeeps ==
    ASSUME NEW T, NEW S, IsFiniteSet(S), S \subseteq T
    PROVE  SetToSeq(S) \in Seq(T)
<1>1. Cardinality(S) \in Nat /\ ExistsBijection(1..Cardinality(S), S)
  BY FS_CardinalityType
<1>2. \E f \in [1..Cardinality(S) -> S] : IsInjective(f)
  BY <1>1 DEF ExistsBijection, Bijection, Injection
<1>3. SetToSeq(S) \in [1..Cardinality(S) -> S]
  BY <1>2 DEF SetToSeq
<1> QED
  BY <1>1, <1>3

\* The registrations a page posts when it connects.
LEMMA Registrations ==
    ASSUME NEW B \in SUBSET Backend
    PROVE  SetToSeq({<<"register", b>> : b \in B}) \in Seq({"register"} \X Backend)
<1> DEFINE S == {<<"register", b>> : b \in B}
<1>1. IsFiniteSet(B)
  BY ForeverAssumption, FS_Subset
<1>2. IsFiniteSet(S)
  <2> DEFINE f == [b \in B |-> <<"register", b>>]
  <2>1. f \in Surjection(B, S)
    <3>1. f \in [B -> S] /\ \A t \in S : \E b \in B : f[b] = t
      OBVIOUS
    <3> QED
      BY <3>1 DEF Surjection
  <2> HIDE DEF f, S
  <2> QED
    BY <1>1, <2>1, FS_Surjection
<1>3. S \subseteq {"register"} \X Backend
  OBVIOUS
<1> HIDE DEF S
<1>4. SetToSeq(S) \in Seq({"register"} \X Backend)
  BY <1>2, <1>3, SetToSeqKeeps
<1> QED
  BY <1>4 DEF S

LEMMA SocketTypedStep ==
    ASSUME IInv, [Next]_<<faults, vars>>
    PROVE  SocketTyped'
<1>1. SocketTyped /\ PageTyped
  BY DEF IInv, Typed
<1>2. CASE UNCHANGED socketVars
  BY <1>1, <1>2 DEF socketVars, SocketTyped
<1>3. ASSUME UNCHANGED <<owner, lastReg>>, sock' \in [Socket -> SocketRecord] PROVE SocketTyped'
  BY <1>1, <1>3 DEF SocketTyped
<1>4. CASE FillSend
  BY <1>1, <1>3, <1>4, SendEffect, SentEffect DEF FillSend
<1>5. ASSUME NEW s \in Socket, SocketStep(s) PROVE SocketTyped'
  <2>1. ASSUME NEW r, Write(s, r) PROVE SocketTyped'
    BY <1>1, <1>3, <2>1, WriteEffect DEF OnlySocket
  <2>2. ASSUME NEW r, ReleaseUndelivered(s, r) PROVE SocketTyped'
    BY <1>1, <1>3, <2>2, ReleaseUndeliveredEffect DEF OnlySocket
  <2>3. CASE Written(s)
    BY <1>1, <1>3, <2>3, GreetWrittenEffect DEF OnlySocket, Written
  <2>4. CASE Greet(s)
    <3>1. sock' \in [Socket -> SocketRecord]
      BY <1>1, <2>4, GreetWrittenEffect DEF OnlySocket
    <3>2. owner' \in [Client -> Socket \cup {None}] /\ lastReg' \in [Client -> Socket \cup {None}]
      BY <1>1, <2>4 DEF Greet, SocketTyped
    <3> QED
      BY <3>1, <3>2 DEF SocketTyped
  <2>5. CASE Disconnect(s)
    <3>1. sock' \in [Socket -> SocketRecord] /\ lastReg' = lastReg
      BY <1>1, <2>5, TeardownEffect DEF OnlySocket
    <3>2. owner' \in [Client -> Socket \cup {None}]
      BY <1>1, <2>5 DEF Disconnect, SocketTyped
    <3> QED
      BY <1>1, <3>1, <3>2 DEF SocketTyped
  <2>6. CASE Cleanup(s)
    BY <1>1, <1>3, <2>6, TeardownEffect DEF OnlySocket, Cleanup
  <2>7. CASE StopSender(s)
    <3>1. sock' \in [Socket -> SocketRecord] /\ owner' = owner
      BY <1>1, <2>7, StopSenderEffect DEF OnlySocket
    <3>2. lastReg' \in [Client -> Socket \cup {None}]
      BY <1>1, <2>7 DEF StopSender, SocketTyped
    <3> QED
      BY <1>1, <3>1, <3>2 DEF SocketTyped
  <2>8. CASE CloseSocket(s)
    BY <1>1, <1>3, <2>8, CloseEffect DEF OnlySocket
  <2> QED
    BY <1>5, <2>1, <2>2, <2>3, <2>4, <2>5, <2>6, <2>7, <2>8, Zenon DEF SocketStep
<1>6. ASSUME NEW c \in Client, PageStep(c) PROVE SocketTyped'
  <2>1. ASSUME NEW s \in Socket, Connect(c, s) PROVE SocketTyped'
    BY <1>1, <1>3, <2>1, ConnectEffect DEF OnlySocket
  <2>2. CASE PageLosesSocket(c)
    <3>1. live[c] \in Socket /\ UNCHANGED <<owner, lastReg>>
      BY <1>1, <2>2 DEF PageLosesSocket, PageTyped
    <3>2. sock' = [sock EXCEPT ![live[c]].wire = @ \ @]
      BY <2>2 DEF PageLosesSocket
    <3>3. sock' = [sock EXCEPT ![live[c]].wire = @ \ sock[live[c]].wire]
      BY <3>2
    <3> QED
      BY <1>1, <1>3, <3>1, <3>3, WireEffect DEF OnlySocket
  <2>3. ASSUME NEW r \in Request, Receive(c, r) PROVE SocketTyped'
    <3>1. live[c] \in Socket /\ UNCHANGED <<owner, lastReg>>
      BY <1>1, <2>3 DEF Receive, PageTyped
    <3>2. sock' = [sock EXCEPT ![live[c]].wire = @ \ {r}]
      BY <2>3 DEF Receive
    <3> QED
      BY <1>1, <1>3, <3>1, <3>2, WireEffect DEF OnlySocket
  <2>4. CASE UNCHANGED socketVars
    BY <1>2, <2>4
  <2>5. (\E r \in Request : Post(c, r)) \/ (\E b \in Backend : Start(c, b) \/ Stop(c, b))
           => UNCHANGED socketVars
    BY DEF Post, Start, Stop
  <2> QED
    BY <1>6, <2>1, <2>2, <2>3, <2>4, <2>5, PageSteps
<1>7. ASSUME NEW r \in Request, Claim(r) \/ RouteDeclines(r) PROVE UNCHANGED socketVars
  BY <1>7 DEF Claim, RouteDeclines, Decline
<1> QED
  BY <1>2, <1>4, <1>5, <1>6, <1>7, PageAndSocketSteps

LEMMA PageTypedStep ==
    ASSUME IInv, [Next]_<<faults, vars>>
    PROVE  PageTyped'
<1>1. SocketTyped /\ PageTyped
  BY DEF IInv, Typed
<1>2. CASE UNCHANGED pageVars
  BY <1>1, <1>2 DEF pageVars, PageTyped
<1>3. ASSUME NEW s \in Socket, SocketStep(s) PROVE UNCHANGED pageVars
  BY <1>3 DEF SocketStep, Greet, Write, ReleaseUndelivered, Written, Disconnect, Cleanup,
              StopSender, CloseSocket
<1>4. ASSUME NEW c \in Client, PageStep(c) PROVE PageTyped'
  <2>1. ASSUME NEW s \in Socket, Connect(c, s) PROVE PageTyped'
    <3> DEFINE again == SetToSeq({<<"register", b>> : b \in on[c]})
    <3>1. /\ live' = [live EXCEPT ![c] = s] /\ acked' = [acked EXCEPT ![c] = {}]
          /\ posts' = [posts EXCEPT ![c] = again] /\ UNCHANGED <<on, inbox, submits>>
      BY <2>1 DEF Connect
    <3>2. again \in Seq({"register"} \X Backend)
      BY <1>1, Registrations DEF PageTyped
    <3>3. Seq({"register"} \X Backend) \subseteq Seq({"register", "unregister"} \X Backend)
      OBVIOUS
    <3> HIDE DEF again
    <3>4. posts' \in [Client -> Seq({"register", "unregister"} \X Backend)]
      BY <1>1, <3>1, <3>2, <3>3 DEF PageTyped
    <3> QED
      BY <1>1, <3>1, <3>4 DEF PageTyped
  <2>2. CASE PageLosesSocket(c)
    BY <1>1, <2>2 DEF PageLosesSocket, PageTyped
  <2>3. ASSUME NEW r \in Request, Receive(c, r) PROVE PageTyped'
    BY <1>1, <2>3 DEF Receive, PageTyped
  <2>4. ASSUME NEW r \in Request, Post(c, r) PROVE PageTyped'
    BY <1>1, <2>4 DEF Post, PageTyped
  <2>5. ASSUME NEW b \in Backend, Start(c, b) PROVE PageTyped'
    <3>1. /\ posts' = [posts EXCEPT ![c] = Append(@, <<"register", b>>)]
          /\ on' = [on EXCEPT ![c] = @ \cup {b}] /\ UNCHANGED <<acked, live, inbox, submits>>
      BY <2>5 DEF Start
    <3>2. Append(posts[c], <<"register", b>>) \in Seq({"register", "unregister"} \X Backend)
      BY <1>1, AppendProperties DEF PageTyped
    <3>3. posts' \in [Client -> Seq({"register", "unregister"} \X Backend)]
      BY <1>1, <3>1, <3>2 DEF PageTyped
    <3> QED
      BY <1>1, <3>1, <3>3 DEF PageTyped
  <2>6. ASSUME NEW b \in Backend, Stop(c, b) PROVE PageTyped'
    <3>1. /\ posts' = [posts EXCEPT ![c] = Append(@, <<"unregister", b>>)]
          /\ on' = [on EXCEPT ![c] = @ \ {b}] /\ acked' = [acked EXCEPT ![c] = @ \ {b}]
          /\ inbox' = [inbox EXCEPT ![c] = {r \in @ : BackendOf(r) # b}]
          /\ UNCHANGED <<live, submits>>
      BY <2>6 DEF Stop
    <3>2. Append(posts[c], <<"unregister", b>>) \in Seq({"register", "unregister"} \X Backend)
      BY <1>1, AppendProperties DEF PageTyped
    <3>3. posts' \in [Client -> Seq({"register", "unregister"} \X Backend)]
      BY <1>1, <3>1, <3>2 DEF PageTyped
    <3> QED
      BY <1>1, <3>1, <3>3 DEF PageTyped
  <2>7. ASSUME UNCHANGED <<socketVars, live, submits, on>>,
               inbox' = inbox \/ \E r \in Request : inbox' = [inbox EXCEPT ![c] = @ \ {r}],
               acked' = acked \/ \E B \in SUBSET Backend : acked' = [acked EXCEPT ![c] = @ \cup B],
               posts' = posts \/ (posts[c] # <<>> /\ posts' = [posts EXCEPT ![c] = Tail(@)])
        PROVE  PageTyped'
    <3>1. inbox' \in [Client -> SUBSET Request]
      BY <1>1, <2>7 DEF PageTyped
    <3>2. acked' \in [Client -> SUBSET Backend]
      <4>1. ASSUME NEW B \in SUBSET Backend, acked' = [acked EXCEPT ![c] = @ \cup B]
            PROVE  acked' \in [Client -> SUBSET Backend]
        BY <1>1, <4>1 DEF PageTyped
      <4> QED
        BY <1>1, <2>7, <4>1 DEF PageTyped
    <3>3. posts' \in [Client -> Seq({"register", "unregister"} \X Backend)]
      <4>1. posts[c] \in Seq({"register", "unregister"} \X Backend)
        BY <1>1 DEF PageTyped
      <4>2. posts[c] # <<>> => Tail(posts[c]) \in Seq({"register", "unregister"} \X Backend)
        BY <4>1, HeadTailProperties
      <4>3. CASE posts[c] # <<>> /\ posts' = [posts EXCEPT ![c] = Tail(@)]
        <5>1. PICK rest \in Seq({"register", "unregister"} \X Backend) : rest = Tail(posts[c])
          BY <4>2, <4>3
        <5>2. posts' = [posts EXCEPT ![c] = rest]
          BY <4>3, <5>1
        <5> QED
          BY <1>1, <5>2 DEF PageTyped
      <4> QED
        BY <1>1, <2>7, <4>3 DEF PageTyped
    <3> QED
      BY <1>1, <2>7, <3>1, <3>2, <3>3 DEF PageTyped
  <2> QED
    BY <1>4, <2>1, <2>2, <2>3, <2>4, <2>5, <2>6, <2>7, PageSteps
<1>5. ASSUME NEW r \in Request, Claim(r) \/ RouteDeclines(r) PROVE PageTyped'
  <2>1. submits' = submits \ {r} /\ UNCHANGED <<on, acked, live, inbox, posts>>
    BY <1>5 DEF Claim, RouteDeclines, Decline
  <2> QED
    BY <1>1, <2>1 DEF PageTyped
<1>6. FillSend => UNCHANGED pageVars
  BY DEF FillSend
<1> QED
  BY <1>2, <1>3, <1>4, <1>5, <1>6, PageAndSocketSteps

LEMMA TypedStep ==
    ASSUME IInv, [Next]_<<faults, vars>>
    PROVE  Typed'
<1>1. faults' = faults /\ faults \in FaultSets
  BY DEF IInv, Typed, Next
<1> QED
  BY <1>1, QueueTypedStep, FillTypedStep, JobTypedStep, SocketTypedStep, PageTypedStep DEF Typed

-----------------------------------------------------------------------------
(* The pending lists and the reservations.                                 *)

LEMMA PendingStep ==
    ASSUME IInv, [Next]_<<faults, vars>>
    PROVE  Pending'
<1>1. QueueTyped /\ Pending /\ faults' = faults
  BY DEF IInv, Typed, Next
<1>2. Reservations \subseteq Request
  BY <1>1 DEF QueueTyped, Reservations, ToSet
<1>3. CASE UNCHANGED <<reserved, pendingOf, pendingBy>>
  BY <1>1, <1>3 DEF Pending, OwnedOn, OwnedBy, Reservations
<1>4. ASSUME NEW gone, Release(gone) PROVE Pending'
  <2>1. /\ Reservations' = Reservations \ gone
        /\ \A b \in Backend : pendingOf'[b] = pendingOf[b] \ gone
        /\ \A c \in Client : pendingBy'[c] = pendingBy[c] \ gone
    BY <1>1, <1>4, ReleaseEffect
  <2>2. /\ \A b : OwnedOn(b)' = OwnedOn(b) \ gone
        /\ \A c : OwnedBy(c, Backend)' = OwnedBy(c, Backend) \ gone
    BY <2>1 DEF OwnedOn, OwnedBy
  <2> HIDE DEF OwnedOn, OwnedBy
  <2> QED
    BY <1>1, <2>1, <2>2 DEF Pending
<1>5. ASSUME NEW s \in Socket, Cleanup(s) PROVE Pending'
  <2>1. CASE ~StillAbandoned(sock[s].client, s)
    BY <1>3, <1>5, <2>1 DEF Cleanup
  <2>2. CASE StillAbandoned(sock[s].client, s)
    <3>1. PICK c : c = sock[s].client
      OBVIOUS
    <3>2. PICK mine : mine = OwnedBy(c, Backend)
      OBVIOUS
    <3>3. /\ Reservations' = Reservations \ mine
          /\ pendingOf' = [b \in Backend |-> pendingOf[b] \ mine]
          /\ pendingBy' = [pendingBy EXCEPT ![c] = {}]
      BY <1>1, <1>5, <2>2, <3>1, <3>2, CleanupEffect
    <3>4. /\ \A b : OwnedOn(b)' = OwnedOn(b) \ mine
          /\ \A d : OwnedBy(d, Backend)' = OwnedBy(d, Backend) \ mine
      BY <3>3 DEF OwnedOn, OwnedBy
    <3>5. \A d \in Client : d # c => OwnedBy(d, Backend) \cap mine = {}
      BY <3>2 DEF OwnedBy
    <3>6. \A d \in Client : pendingBy'[d] = IF d = c THEN {} ELSE pendingBy[d]
      BY <1>1, <3>3 DEF QueueTyped
    <3>7. \A b \in Backend : pendingOf'[b] = pendingOf[b] \ mine
      BY <3>3
    <3>8. \A d \in Client : /\ pendingBy'[d] \subseteq OwnedBy(d, Backend)'
                            /\ "loss" \notin faults => pendingBy'[d] = OwnedBy(d, Backend)'
      <4> TAKE d \in Client
      <4>1. CASE d = c
        <5>1. pendingBy'[d] = {} /\ OwnedBy(d, Backend)' = {}
          BY <3>2, <3>4, <3>6, <4>1
        <5> QED
          BY <5>1
      <4>2. CASE d # c
        <5>1. pendingBy'[d] = pendingBy[d] /\ OwnedBy(d, Backend)' = OwnedBy(d, Backend)
          BY <3>4, <3>5, <3>6, <4>2
        <5> QED
          BY <1>1, <5>1 DEF Pending
      <4> QED
        BY <4>1, <4>2
    <3>9. \A b \in Backend : /\ pendingOf'[b] \subseteq OwnedOn(b)'
                             /\ "loss" \notin faults => pendingOf'[b] = OwnedOn(b)'
      BY <1>1, <3>4, <3>7 DEF Pending
    <3> QED
      BY <1>1, <3>8, <3>9 DEF Pending
  <2> QED
    BY <2>1, <2>2
<1>6. ASSUME NEW b \in Backend, BackendLost(b) PROVE Pending'
  <2>1. /\ "loss" \in faults /\ reserved' = reserved
        /\ \A d \in Backend : pendingOf'[d] \subseteq pendingOf[d]
        /\ \A c \in Client : pendingBy'[c] \subseteq pendingBy[c]
    BY <1>1, <1>6 DEF BackendLost, QueueTyped
  <2> QED
    BY <1>1, <2>1 DEF Pending, OwnedOn, OwnedBy, Reservations
<1>7. CASE FillSend
  <2>1. PICK new : Sent(new)
    BY <1>7, SendEffect
  <2>2. ToSet(new) \subseteq Request
    BY <2>1 DEF Sent, ToSet
  <2>3. Reservations' = Reservations \cup ToSet(new)
    BY <1>1, <2>1, ConcatKeeps DEF Sent, Reservations, QueueTyped
  <2>4. fill.backend \in Backend
    BY <1>7 DEF FillSend, IInv, Typed, FillTyped
  <2>5. \A b \in Backend : pendingOf'[b] = pendingOf[b] \cup {r \in ToSet(new) : BackendOf(r) = b}
    BY <1>1, <2>1, <2>4 DEF Sent, QueueTyped
  <2>6. \A c \in Client : pendingBy'[c] = pendingBy[c] \cup {r \in ToSet(new) : ClientOf(r) = c}
    BY <2>1 DEF Sent
  <2>7. \A b : OwnedOn(b)' = OwnedOn(b) \cup {r \in ToSet(new) : BackendOf(r) = b}
    BY <2>3 DEF OwnedOn
  <2>8. \A c : OwnedBy(c, Backend)' = OwnedBy(c, Backend) \cup {r \in ToSet(new) : ClientOf(r) = c}
    BY <2>2, <2>3, Requests DEF OwnedBy
  <2> QED
    BY <1>1, <2>5, <2>6, <2>7, <2>8 DEF Pending
<1>8. ASSUME NEW c \in Client, NEW b \in Backend, Register(c, b) PROVE Pending'
  BY <1>3, <1>8 DEF Register
<1>9. ASSUME NEW c \in Client, NEW b \in Backend, Unregister(c, b) PROVE Pending'
  BY <1>4, <1>9 DEF Unregister
<1>10. CASE Lapse
  BY <1>3, <1>10 DEF Lapse
<1>11. CASE UNCHANGED queueVars
  BY <1>3, <1>11 DEF queueVars
<1> QED
  BY <1>4, <1>5, <1>6, <1>7, <1>8, <1>9, <1>10, <1>11, QueueSteps

-----------------------------------------------------------------------------
(* Connections, and the cleanup of one that is lost.                       *)

LEMMA ConnectedStep ==
    ASSUME IInv, [Next]_<<faults, vars>>
    PROVE  Connected'
<1>1. SocketTyped /\ PageTyped /\ Connected
  BY DEF IInv, Typed
<1>2. ASSUME UNCHANGED <<owner, lastReg, live>>,
             \A s \in Socket : sock'[s].state = sock[s].state /\ sock'[s].client = sock[s].client
      PROVE  Connected'
  <2>1. \A d \in Client : owner[d] \in Socket \cup {None} /\ live[d] \in Socket \cup {None}
    BY <1>1 DEF SocketTyped, PageTyped
  <2> QED
    BY <1>1, <1>2, <2>1 DEF Connected
<1>3. CASE UNCHANGED <<socketVars, pageVars>>
  BY <1>2, <1>3 DEF socketVars, pageVars
<1>4. CASE FillSend
  BY <1>1, <1>2, <1>4, SendEffect, SentEffect DEF FillSend, pageVars
<1>5. ASSUME NEW s \in Socket, OnlySocket(s), UNCHANGED <<owner, lastReg, live>>,
             sock'[s].state = sock[s].state, sock'[s].client = sock[s].client
      PROVE  Connected'
  BY <1>2, <1>5 DEF OnlySocket
<1>6. ASSUME NEW s \in Socket, SocketStep(s) PROVE Connected'
  <2>1. ASSUME NEW r, Write(s, r) PROVE Connected'
    BY <1>1, <1>5, <2>1, WriteEffect DEF pageVars
  <2>2. ASSUME NEW r, ReleaseUndelivered(s, r) PROVE Connected'
    BY <1>1, <1>5, <2>2, ReleaseUndeliveredEffect DEF pageVars
  <2>3. CASE Written(s)
    BY <1>1, <1>5, <2>3, GreetWrittenEffect DEF pageVars, Written
  <2>4. CASE Greet(s)
    <3>1. PICK c \in Client : c = sock[s].client
      BY <1>1, <2>4 DEF Greet, Connected
    <3>2. /\ sock[s].state = "open" /\ owner' = [owner EXCEPT ![c] = s]
          /\ lastReg' = [lastReg EXCEPT ![c] = s] /\ live' = live
      BY <2>4, <3>1 DEF Greet, pageVars
    <3>3. \A t \in Socket : sock'[t].state = sock[t].state /\ sock'[t].client = sock[t].client
      BY <1>1, <2>4, GreetWrittenEffect DEF OnlySocket
    <3>4. \A d \in Client : /\ owner'[d] = IF d = c THEN s ELSE owner[d]
                            /\ lastReg'[d] = IF d = c THEN s ELSE lastReg[d]
                            /\ owner[d] \in Socket \cup {None} /\ live[d] \in Socket \cup {None}
      BY <1>1, <3>2 DEF SocketTyped, PageTyped
    <3> QED
      BY <1>1, <3>1, <3>2, <3>3, <3>4 DEF Connected
  <2>5. ASSUME OnlySocket(s), live' = live, lastReg' = lastReg,
               sock'[s].client = sock[s].client, sock'[s].state # "free",
               sock[s].state # "free",
               \A d \in Client : live[d] # s /\ owner'[d] # s,
               \A d \in Client : owner'[d] \in {owner[d], None}
        PROVE  Connected'
    <3>1. \A d \in Client : owner[d] \in Socket \cup {None} /\ live[d] \in Socket \cup {None}
      BY <1>1 DEF SocketTyped, PageTyped
    <3> QED
      BY <1>1, <2>5, <3>1 DEF Connected, OnlySocket
  <2>6. CASE Disconnect(s)
    <3>1. PICK c \in Client : c = sock[s].client
      BY <1>1, <2>6 DEF Disconnect, Connected
    <3>2. /\ sock[s].state = "open" /\ live[c] # s
          /\ owner' = [owner EXCEPT ![c] = IF @ = s THEN None ELSE @]
      BY <2>6, <3>1 DEF Disconnect
    <3>3. /\ OnlySocket(s) /\ live' = live /\ lastReg' = lastReg
          /\ sock'[s].client = sock[s].client /\ sock'[s].state # "free"
      BY <1>1, <2>6, TeardownEffect DEF pageVars
    <3>4. \A d \in Client : owner'[d] = IF d = c /\ owner[d] = s THEN None ELSE owner[d]
      BY <1>1, <3>2 DEF SocketTyped
    <3>5. \A d \in Client : live[d] # s /\ (owner[d] = s => d = c)
      BY <1>1, <3>1, <3>2, ForeverAssumption DEF Connected
    <3>6. s # None
      BY ForeverAssumption
    <3> QED
      BY <2>5, <3>2, <3>3, <3>4, <3>5, <3>6
  <2>7. ASSUME sock[s].state # "open"
        PROVE  \A d \in Client : live[d] # s /\ owner[d] # s
    BY <1>1, <2>7, ForeverAssumption DEF Connected
  <2>8. CASE Cleanup(s)
    <3>1. sock[s].state = "cleanup" /\ owner' = owner
      BY <2>8 DEF Cleanup
    <3>2. /\ OnlySocket(s) /\ live' = live /\ lastReg' = lastReg
          /\ sock'[s].client = sock[s].client /\ sock'[s].state # "free"
      BY <1>1, <2>8, TeardownEffect DEF pageVars
    <3> QED
      BY <2>5, <2>7, <3>1, <3>2
  <2>9. CASE StopSender(s)
    <3>1. /\ OnlySocket(s) /\ sock[s].state = "stop" /\ sock'[s].state = "release"
          /\ sock'[s].client = sock[s].client /\ owner' = owner /\ live' = live
      BY <1>1, <2>9, StopSenderEffect DEF pageVars
    <3>2. PICK c \in Client : c = sock[s].client
      BY <1>1, <3>1 DEF Connected
    <3>3. lastReg' = [lastReg EXCEPT ![c] = IF StillAbandoned(c, s) THEN None ELSE @]
      BY <2>9, <3>2 DEF StopSender
    <3>4. \A d \in Client : owner[d] # None => lastReg'[d] = lastReg[d]
      BY <1>1, <3>3 DEF StillAbandoned, SocketTyped
    <3>5. \A d \in Client : live[d] # s /\ owner[d] # s
      BY <2>7, <3>1
    <3>6. \A d \in Client : owner[d] \in Socket \cup {None} /\ live[d] \in Socket \cup {None}
      BY <1>1 DEF SocketTyped, PageTyped
    <3> QED
      BY <1>1, <3>1, <3>4, <3>5, <3>6 DEF Connected, OnlySocket
  <2>10. CASE CloseSocket(s)
    <3>1. OnlySocket(s) /\ sock'[s] = NoSocket /\ UNCHANGED <<owner, lastReg, live>>
          /\ sock[s].state = "release" /\ NoSocket.state = "free"
      BY <1>1, <2>10, CloseEffect, FreshSocket DEF pageVars
    <3>2. \A d \in Client : live[d] # s /\ owner[d] # s
      BY <2>7, <3>1
    <3>3. \A d \in Client : owner[d] \in Socket \cup {None} /\ live[d] \in Socket \cup {None}
      BY <1>1 DEF SocketTyped, PageTyped
    <3> QED
      BY <1>1, <3>1, <3>2, <3>3 DEF Connected, OnlySocket
  <2> QED
    BY <1>6, <2>1, <2>2, <2>3, <2>4, <2>6, <2>8, <2>9, <2>10, Zenon DEF SocketStep
<1>7. ASSUME NEW c \in Client, PageStep(c) PROVE Connected'
  <2>1. ASSUME NEW s \in Socket, Connect(c, s) PROVE Connected'
    <3>1. /\ OnlySocket(s) /\ sock[s] = NoSocket /\ sock'[s].state = "open" /\ sock'[s].client = c
          /\ live' = [live EXCEPT ![c] = s] /\ UNCHANGED <<owner, lastReg>>
          /\ NoSocket.state = "free"
      BY <1>1, <2>1, ConnectEffect, FreshSocket
    <3>2. \A d \in Client : live'[d] = IF d = c THEN s ELSE live[d]
      BY <1>1, <3>1 DEF PageTyped
    <3>3. \A d \in Client : live[d] # s /\ owner[d] # s
      BY <1>1, <3>1, ForeverAssumption DEF Connected
    <3>4. \A d \in Client : owner[d] \in Socket \cup {None} /\ live[d] \in Socket \cup {None}
      BY <1>1 DEF SocketTyped, PageTyped
    <3> QED
      BY <1>1, <3>1, <3>2, <3>3, <3>4 DEF Connected, OnlySocket
  <2>2. CASE PageLosesSocket(c)
    <3>1. /\ live[c] \in Socket /\ UNCHANGED <<owner, lastReg>>
          /\ live' = [live EXCEPT ![c] = None] /\ sock' = [sock EXCEPT ![live[c]].wire = {}]
      BY <1>1, <2>2 DEF PageLosesSocket, PageTyped
    <3>2. sock' = [sock EXCEPT ![live[c]].wire = @ \ sock[live[c]].wire]
      BY <3>1
    <3>3. \A s \in Socket : sock'[s].state = sock[s].state /\ sock'[s].client = sock[s].client
      BY <1>1, <3>1, <3>2, WireEffect DEF OnlySocket
    <3>4. \A d \in Client : /\ live'[d] = IF d = c THEN None ELSE live[d]
                            /\ owner[d] \in Socket \cup {None} /\ live[d] \in Socket \cup {None}
      BY <1>1, <3>1 DEF SocketTyped, PageTyped
    <3> QED
      BY <1>1, <3>1, <3>3, <3>4 DEF Connected
  <2>3. ASSUME NEW r \in Request, Receive(c, r) PROVE Connected'
    <3>1. live[c] \in Socket /\ UNCHANGED <<owner, lastReg, live>>
      BY <1>1, <2>3 DEF Receive, PageTyped
    <3>2. sock' = [sock EXCEPT ![live[c]].wire = @ \ {r}]
      BY <2>3 DEF Receive
    <3> QED
      BY <1>1, <1>5, <3>1, <3>2, WireEffect
  <2>4. CASE UNCHANGED <<socketVars, live>>
    BY <1>2, <2>4 DEF socketVars
  <2>5. (\E r \in Request : Post(c, r)) \/ (\E b \in Backend : Start(c, b) \/ Stop(c, b))
           => UNCHANGED <<socketVars, live>>
    BY DEF Post, Start, Stop
  <2> QED
    BY <1>7, <2>1, <2>2, <2>3, <2>4, <2>5, PageSteps
<1>8. ASSUME NEW r \in Request, Claim(r) \/ RouteDeclines(r) PROVE Connected'
  <2>1. UNCHANGED <<socketVars, live>>
    BY <1>8 DEF Claim, RouteDeclines, Decline
  <2> QED
    BY <1>2, <2>1 DEF socketVars
<1> QED
  BY <1>3, <1>4, <1>6, <1>7, <1>8, PageAndSocketSteps

\* Only a dispatch makes reservations.
LEMMA NoneAdded ==
    ASSUME IInv, [Next]_<<faults, vars>>, ~FillSend
    PROVE  Reservations' \subseteq Reservations
<1>1. QueueTyped
  BY DEF IInv, Typed
<1>2. CASE reserved' = reserved
  BY <1>2 DEF Reservations
<1>3. ASSUME NEW gone, Release(gone) PROVE Reservations' \subseteq Reservations
  BY <1>1, <1>3, ReleaseEffect
<1>4. ASSUME NEW s \in Socket, Cleanup(s) PROVE Reservations' \subseteq Reservations
  <2>1. StillAbandoned(sock[s].client, s) \/ reserved' = reserved
    BY <1>4 DEF Cleanup
  <2> QED
    BY <1>1, <1>2, <1>4, <2>1, CleanupEffect
<1>5. ASSUME NEW c \in Client, NEW b \in Backend, Register(c, b) PROVE reserved' = reserved
  BY <1>5 DEF Register
<1>6. ASSUME NEW c \in Client, NEW b \in Backend, Unregister(c, b)
      PROVE  Reservations' \subseteq Reservations
  BY <1>3, <1>6 DEF Unregister
<1>7. ASSUME NEW b \in Backend, BackendLost(b) PROVE reserved' = reserved
  BY <1>7 DEF BackendLost
<1>8. Lapse => reserved' = reserved
  BY DEF Lapse
<1>9. UNCHANGED queueVars => reserved' = reserved
  BY DEF queueVars
<1> QED
  BY <1>2, <1>3, <1>4, <1>5, <1>6, <1>7, <1>8, <1>9, QueueSteps

\* A dispatch makes them for pages that have a connection.
LEMMA SentReservations ==
    ASSUME QueueTyped, NEW new, Sent(new)
    PROVE  Reservations' = Reservations \cup ToSet(new) /\ ToSet(new) \subseteq Request
<1>1. Reservations' = Reservations \cup ToSet(new)
  BY ConcatKeeps DEF Sent, Reservations, QueueTyped
<1>2. ToSet(new) \subseteq Request
  BY DEF Sent, ToSet
<1> QED
  BY <1>1, <1>2

LEMMA CleanupPendingStep ==
    ASSUME IInv, [Next]_<<faults, vars>>
    PROVE  CleanupPending'
<1>1. SocketTyped /\ PageTyped /\ QueueTyped /\ Connected /\ CleanupPending
  BY DEF IInv, Typed
<1>2. \A c \in Client : lastReg[c] \in Socket \cup {None} /\ owner[c] \in Socket \cup {None}
  BY <1>1 DEF SocketTyped
<1>3. CASE FillSend
  <2>1. PICK new : Sent(new)
    BY <1>3, SendEffect
  <2>2. UNCHANGED <<owner, lastReg>>
    BY <1>3 DEF FillSend
  <2>3. \A s \in Socket : sock'[s].state = sock[s].state /\ sock'[s].client = sock[s].client
    BY <1>1, <2>1, SentEffect
  <2>4. \A c \in Client : owner[c] = None => OwnedBy(c, Backend)' = OwnedBy(c, Backend)
    <3>1. Reservations' = Reservations \cup ToSet(new)
      BY <1>1, <2>1, SentReservations
    <3>2. \A r \in ToSet(new) : owner[ClientOf(r)] # None
      BY <2>1 DEF Sent
    <3> QED
      BY <3>1, <3>2 DEF OwnedBy
  <2> QED
    BY <1>1, <1>2, <2>2, <2>3, <2>4 DEF CleanupPending
<1> SUFFICES ASSUME ~FillSend PROVE CleanupPending'
  BY <1>3
<1>4. \A c : OwnedBy(c, Backend)' \subseteq OwnedBy(c, Backend)
  BY NoneAdded DEF OwnedBy
<1>5. ASSUME UNCHANGED <<owner, lastReg>>,
             \A s \in Socket : sock'[s].client = sock[s].client /\ sock'[s].state = sock[s].state
      PROVE  CleanupPending'
  BY <1>1, <1>2, <1>4, <1>5 DEF CleanupPending
<1>6. ASSUME UNCHANGED socketVars PROVE CleanupPending'
  BY <1>5, <1>6 DEF socketVars
<1>7. ASSUME NEW s \in Socket, OnlySocket(s), UNCHANGED <<owner, lastReg>>,
             sock[s].state # "cleanup" \/ (sock'[s].state = sock[s].state /\ sock'[s].client = sock[s].client)
      PROVE  CleanupPending'
  BY <1>1, <1>2, <1>4, <1>7 DEF CleanupPending, OnlySocket
<1>8. ASSUME NEW s \in Socket, SocketStep(s) PROVE CleanupPending'
  <2>1. ASSUME NEW r, Write(s, r) PROVE CleanupPending'
    BY <1>1, <1>7, <2>1, WriteEffect
  <2>2. ASSUME NEW r, ReleaseUndelivered(s, r) PROVE CleanupPending'
    BY <1>1, <1>7, <2>2, ReleaseUndeliveredEffect
  <2>3. CASE Written(s)
    BY <1>1, <1>7, <2>3, GreetWrittenEffect DEF Written
  <2>4. CASE Greet(s)
    <3>1. PICK c \in Client : c = sock[s].client
      BY <1>1, <2>4 DEF Greet, Connected
    <3>2. owner' = [owner EXCEPT ![c] = s] /\ lastReg' = [lastReg EXCEPT ![c] = s]
      BY <2>4, <3>1 DEF Greet
    <3>3. \A t \in Socket : sock'[t].state = sock[t].state /\ sock'[t].client = sock[t].client
      BY <1>1, <2>4, GreetWrittenEffect DEF OnlySocket
    <3>4. \A d \in Client : /\ owner'[d] = IF d = c THEN s ELSE owner[d]
                            /\ lastReg'[d] = IF d = c THEN s ELSE lastReg[d]
      BY <1>1, <3>2 DEF SocketTyped
    <3>5. s # None
      BY ForeverAssumption
    <3> QED
      BY <1>1, <1>2, <1>4, <3>3, <3>4, <3>5 DEF CleanupPending
  <2>5. CASE Disconnect(s) /\ ~Cleanup(s)
    <3>1. PICK c \in Client : c = sock[s].client
      BY <1>1, <2>5 DEF Disconnect, Connected
    <3>2. /\ sock[s].state = "open" /\ owner' = [owner EXCEPT ![c] = IF @ = s THEN None ELSE @]
          /\ OnlySocket(s) /\ lastReg' = lastReg /\ sock'[s].client = c
          /\ sock'[s].state = IF owner[c] = s THEN "cleanup" ELSE "stop"
      BY <1>1, <2>5, <3>1, TeardownEffect DEF Disconnect
    <3>3. \A d \in Client : owner'[d] = IF d = c /\ owner[c] = s THEN None ELSE owner[d]
      BY <1>1, <3>2 DEF SocketTyped
    <3>4. owner[c] = s => lastReg[c] = s /\ s # None
      BY <1>1, ForeverAssumption DEF Connected
    <3> SUFFICES ASSUME NEW d \in Client, owner'[d] = None, OwnedBy(d, Backend)' # {}
                 PROVE  /\ lastReg'[d] # None
                        /\ sock'[lastReg'[d]].state = "cleanup" /\ sock'[lastReg'[d]].client = d
      BY DEF CleanupPending
    <3>5. CASE d = c /\ owner[c] = s
      BY <3>2, <3>4, <3>5
    <3>6. CASE ~(d = c /\ owner[c] = s)
      <4>1. lastReg[d] # None /\ sock[lastReg[d]].state = "cleanup" /\ sock[lastReg[d]].client = d
        BY <1>1, <1>4, <3>3, <3>6 DEF CleanupPending
      <4>2. lastReg[d] # s
        BY <3>2, <4>1
      <4> QED
        BY <1>2, <3>2, <4>1, <4>2 DEF OnlySocket
    <3> QED
      BY <3>5, <3>6
  <2>6. CASE Cleanup(s)
    <3>1. PICK c \in Client : c = sock[s].client
      BY <1>1, <2>6 DEF Cleanup, Connected
    <3>2. OnlySocket(s) /\ UNCHANGED <<owner, lastReg>>
      BY <1>1, <2>6, TeardownEffect DEF Cleanup
    <3>3. StillAbandoned(c, s) => OwnedBy(c, Backend)' = {}
      BY <1>1, <2>6, <3>1, CleanupEffect DEF OwnedBy
    <3> SUFFICES ASSUME NEW d \in Client, owner[d] = None, OwnedBy(d, Backend)' # {}
                 PROVE  /\ lastReg[d] # None
                        /\ sock'[lastReg[d]].state = "cleanup" /\ sock'[lastReg[d]].client = d
      BY <3>2 DEF CleanupPending
    <3>4. lastReg[d] # None /\ sock[lastReg[d]].state = "cleanup" /\ sock[lastReg[d]].client = d
      BY <1>1, <1>4 DEF CleanupPending
    <3>5. lastReg[d] # s
      BY <3>1, <3>3, <3>4 DEF StillAbandoned
    <3> QED
      BY <1>2, <3>2, <3>4, <3>5 DEF OnlySocket
  <2>7. CASE StopSender(s)
    <3>1. /\ OnlySocket(s) /\ sock[s].state = "stop" /\ owner' = owner
      BY <1>1, <2>7, StopSenderEffect
    <3>2. PICK c \in Client : c = sock[s].client
      BY <1>1, <3>1 DEF Connected
    <3>3. lastReg' = [lastReg EXCEPT ![c] = IF StillAbandoned(c, s) THEN None ELSE @]
      BY <2>7, <3>2 DEF StopSender
    <3>4. \A d \in Client : lastReg'[d] = lastReg[d] \/ (d = c /\ lastReg[c] = s)
      BY <1>1, <3>3 DEF StillAbandoned, SocketTyped
    <3> SUFFICES ASSUME NEW d \in Client, owner[d] = None, OwnedBy(d, Backend)' # {}
                 PROVE  /\ lastReg'[d] # None
                        /\ sock'[lastReg'[d]].state = "cleanup" /\ sock'[lastReg'[d]].client = d
      BY <3>1 DEF CleanupPending
    <3>5. lastReg[d] # None /\ sock[lastReg[d]].state = "cleanup" /\ sock[lastReg[d]].client = d
      BY <1>1, <1>4 DEF CleanupPending
    <3>6. lastReg[d] # s
      BY <3>1, <3>5
    <3> QED
      BY <1>2, <3>1, <3>4, <3>5, <3>6 DEF OnlySocket
  <2>8. CASE CloseSocket(s)
    BY <1>1, <1>7, <2>8, CloseEffect
  <2> QED
    BY <1>8, <2>1, <2>2, <2>3, <2>4, <2>5, <2>6, <2>7, <2>8, Zenon DEF SocketStep
<1>9. ASSUME NEW c \in Client, PageStep(c) PROVE CleanupPending'
  <2>1. ASSUME NEW s \in Socket, Connect(c, s) PROVE CleanupPending'
    BY <1>1, <1>7, <2>1, ConnectEffect, FreshSocket
  <2>2. ASSUME live[c] # None, UNCHANGED <<owner, lastReg>>,
               NEW gone, sock' = [sock EXCEPT ![live[c]].wire = @ \ gone]
        PROVE  CleanupPending'
    <3>1. live[c] \in Socket
      BY <1>1, <2>2 DEF PageTyped
    <3> QED
      BY <1>1, <1>7, <2>2, <3>1, WireEffect
  <2>3. CASE PageLosesSocket(c)
    <3>1. live[c] # None /\ UNCHANGED <<owner, lastReg>> /\ sock' = [sock EXCEPT ![live[c]].wire = {}]
      BY <2>3 DEF PageLosesSocket
    <3>2. sock' = [sock EXCEPT ![live[c]].wire = @ \ sock[live[c]].wire]
      BY <3>1
    <3> QED
      BY <2>2, <3>1, <3>2
  <2>4. ASSUME NEW r \in Request, Receive(c, r) PROVE CleanupPending'
    BY <2>2, <2>4 DEF Receive
  <2>5. (\E r \in Request : Post(c, r)) \/ (\E b \in Backend : Start(c, b) \/ Stop(c, b))
           => UNCHANGED socketVars
    BY DEF Post, Start, Stop
  <2> QED
    BY <1>6, <1>9, <2>1, <2>3, <2>4, <2>5, PageSteps
<1>10. ASSUME NEW r \in Request, Claim(r) \/ RouteDeclines(r) PROVE UNCHANGED socketVars
  BY <1>10 DEF Claim, RouteDeclines, Decline
<1> QED
  BY <1>6, <1>8, <1>9, <1>10, PageAndSocketSteps

-----------------------------------------------------------------------------
(* Requests on their way.                                                  *)

\* What a connection carries.
Carried(s) == sock[s].outbox \cup sock[s].wire \cup ({sock[s].inflight} \ {None})

\* A step moves requests along one connection and its page's inbox, or sends
\* new ones, or takes some away.
LEMMA CarriedSteps ==
    ASSUME IInv, [Next]_<<faults, vars>>
    PROVE  \/ FillSend
           \/ \E c \in Client : \E r \in Request : Receive(c, r)
           \/ /\ \A s \in Socket : Carried(s)' = {} \/ (Carried(s)' \subseteq Carried(s) /\ sock'[s].client = sock[s].client)
              /\ \A c \in Client : inbox'[c] \subseteq inbox[c]
<1>1. SocketTyped /\ PageTyped
  BY DEF IInv, Typed
<1> DEFINE Less == /\ \A s \in Socket : \/ Carried(s)' = {}
                                        \/ Carried(s)' \subseteq Carried(s) /\ sock'[s].client = sock[s].client
                   /\ \A c \in Client : inbox'[c] \subseteq inbox[c]
<1>2. ASSUME inbox' = inbox, NEW s \in Socket, OnlySocket(s),
             \/ Carried(s)' = {}
             \/ Carried(s)' \subseteq Carried(s) /\ sock'[s].client = sock[s].client
      PROVE  Less
  BY <1>2 DEF OnlySocket, Carried
<1>3. ASSUME sock' = sock, \A c \in Client : inbox'[c] \subseteq inbox[c] PROVE Less
  BY <1>3 DEF Carried
<1>4. ASSUME NEW s \in Socket, SocketStep(s) PROVE Less
  <2> HIDE DEF Less
  <2>1. ASSUME NEW r, Write(s, r) PROVE Less
    <3>1. /\ OnlySocket(s) /\ inbox' = inbox /\ sock'[s].client = sock[s].client
          /\ r \in sock[s].outbox
          /\ sock'[s].outbox = sock[s].outbox \ {r} /\ sock'[s].inflight = r
          /\ sock'[s].wire = sock[s].wire \cup {r} \/ sock'[s].wire = sock[s].wire
      BY <1>1, <2>1, WriteEffect DEF pageVars
    <3> QED
      BY <1>2, <3>1 DEF Carried
  <2>2. ASSUME NEW r, ReleaseUndelivered(s, r) PROVE Less
    BY <1>1, <1>2, <2>2, ReleaseUndeliveredEffect DEF Carried, pageVars
  <2>3. CASE Written(s) \/ Greet(s)
    BY <1>1, <1>2, <2>3, GreetWrittenEffect DEF Carried, pageVars
  <2>4. CASE Disconnect(s) \/ Cleanup(s)
    BY <1>1, <1>2, <2>4, TeardownEffect DEF Carried, pageVars
  <2>5. CASE StopSender(s)
    BY <1>1, <1>2, <2>5, StopSenderEffect DEF Carried, pageVars
  <2>6. CASE CloseSocket(s)
    <3>1. OnlySocket(s) /\ sock'[s] = NoSocket /\ inbox' = inbox
      BY <1>1, <2>6, CloseEffect DEF pageVars
    <3>2. Carried(s)' = {}
      BY <3>1, FreshSocket DEF Carried
    <3> QED
      BY <1>2, <3>1, <3>2
  <2> QED
    BY <1>4, <2>1, <2>2, <2>3, <2>4, <2>5, <2>6, Zenon DEF SocketStep
<1>5. ASSUME NEW c \in Client, PageStep(c), ~\E r \in Request : Receive(c, r) PROVE Less
  <2> HIDE DEF Less
  <2>1. ASSUME NEW s \in Socket, Connect(c, s) PROVE Less
    BY <1>1, <1>2, <2>1, ConnectEffect DEF Carried
  <2>2. CASE PageLosesSocket(c)
    <3>1. /\ live[c] \in Socket /\ sock' = [sock EXCEPT ![live[c]].wire = {}]
          /\ inbox' = [inbox EXCEPT ![c] = {}]
      BY <1>1, <2>2 DEF PageLosesSocket, PageTyped
    <3>2. sock' = [sock EXCEPT ![live[c]].wire = @ \ sock[live[c]].wire]
      BY <3>1
    <3>3. \A s \in Socket : Carried(s)' \subseteq Carried(s) /\ sock'[s].client = sock[s].client
      BY <1>1, <3>1, <3>2, WireEffect DEF OnlySocket, Carried
    <3>4. \A d \in Client : inbox'[d] \subseteq inbox[d]
      BY <1>1, <3>1 DEF PageTyped
    <3> QED
      BY <3>3, <3>4 DEF Less
  <2>3. ASSUME NEW r \in Request, inbox' = [inbox EXCEPT ![c] = @ \ {r}]
        PROVE  \A d \in Client : inbox'[d] \subseteq inbox[d]
    BY <1>1, <2>3 DEF PageTyped
  <2>4. ASSUME NEW r \in Request, Post(c, r) PROVE Less
    BY <1>3, <2>3, <2>4 DEF Post, socketVars
  <2>5. ASSUME NEW b \in Backend, Start(c, b) PROVE Less
    BY <1>3, <2>5 DEF Start, socketVars
  <2>6. ASSUME NEW b \in Backend, Stop(c, b) PROVE Less
    <3>1. \A d \in Client : inbox'[d] \subseteq inbox[d]
      BY <1>1, <2>6 DEF Stop, PageTyped
    <3> QED
      BY <1>3, <2>6, <3>1 DEF Stop, socketVars
  <2>7. ASSUME UNCHANGED socketVars,
               inbox' = inbox \/ \E r \in Request : inbox' = [inbox EXCEPT ![c] = @ \ {r}]
        PROVE  Less
    BY <1>3, <2>3, <2>7 DEF socketVars
  <2> QED
    BY <1>5, <2>1, <2>2, <2>4, <2>5, <2>6, <2>7, PageSteps
<1>6. ASSUME NEW r \in Request, Claim(r) \/ RouteDeclines(r) PROVE Less
  <2>1. sock' = sock /\ inbox' = inbox
    BY <1>6 DEF Claim, RouteDeclines, Decline, socketVars
  <2> QED
    BY <1>3, <2>1
<1>7. UNCHANGED <<socketVars, pageVars>> => Less
  BY <1>3 DEF socketVars, pageVars
<1> QED
  BY <1>4, <1>5, <1>6, <1>7, PageAndSocketSteps

LEMMA AddressedStep ==
    ASSUME IInv, [Next]_<<faults, vars>>
    PROVE  Addressed'
<1>1. SocketTyped /\ PageTyped /\ QueueTyped /\ Connected /\ Addressed
  BY DEF IInv, Typed
<1>2. /\ \A s \in Socket : \A r \in Carried(s) : ClientOf(r) = sock[s].client
      /\ \A c \in Client : \A r \in inbox[c] : ClientOf(r) = c
  <2>1. \A s \in Socket : None \notin sock[s].outbox \cup sock[s].wire
    BY <1>1, SocketFields, Requests
  <2> QED
    BY <1>1, <2>1 DEF Addressed, Carried
<1>3. SUFFICES /\ \A s \in Socket : \A r \in Carried(s)' : ClientOf(r) = sock'[s].client
               /\ \A c \in Client : \A r \in inbox'[c] : ClientOf(r) = c
  BY DEF Addressed, Carried
<1>4. CASE FillSend
  <2>1. PICK new : Sent(new)
    BY <1>4, SendEffect
  <2>2. inbox' = inbox
    BY <1>4 DEF FillSend, pageVars
  <2>3. \A s \in Socket : \A r \in Carried(s)' :
           /\ sock'[s].client = sock[s].client
           /\ r \in Carried(s) \/ (r \in ToSet(new) /\ owner[ClientOf(r)] = s)
    BY <1>1, <2>1, SentEffect DEF Carried
  <2>4. \A r \in ToSet(new) : ClientOf(r) \in Client /\ owner[ClientOf(r)] # None
    BY <1>1, <2>1, SentReservations, Requests DEF Sent
  <2> QED
    BY <1>1, <1>2, <2>2, <2>3, <2>4 DEF Connected
<1>5. ASSUME NEW c \in Client, NEW q \in Request, Receive(c, q)
      PROVE  /\ \A s \in Socket : \A r \in Carried(s)' : ClientOf(r) = sock'[s].client
             /\ \A d \in Client : \A r \in inbox'[d] : ClientOf(r) = d
  <2>1. /\ live[c] \in Socket /\ live[c] # None /\ q \in sock[live[c]].wire
        /\ sock' = [sock EXCEPT ![live[c]].wire = @ \ {q}]
        /\ inbox' = [inbox EXCEPT ![c] = @ \cup {q}]
    BY <1>1, <1>5 DEF Receive, PageTyped
  <2>2. \A s \in Socket : Carried(s)' \subseteq Carried(s) /\ sock'[s].client = sock[s].client
    BY <1>1, <2>1, WireEffect DEF OnlySocket, Carried
  <2>3. ClientOf(q) = c
    BY <1>1, <1>2, <2>1 DEF Connected, Carried
  <2>4. \A d \in Client : \A r \in inbox'[d] : r \in inbox[d] \/ (r = q /\ d = c)
    BY <1>1, <2>1 DEF PageTyped
  <2> QED
    BY <1>2, <2>2, <2>3, <2>4
<1> QED
  BY <1>2, <1>4, <1>5, CarriedSteps

LEMMA SteadyStaysStep ==
    ASSUME IInv, [Next]_<<faults, vars>>
    PROVE  SteadyStays'
<1>1. SocketTyped /\ PageTyped /\ Connected /\ SteadyStays
  BY DEF IInv, Typed
<1>2. Steady \subseteq Client /\ None \notin Steady /\ None \notin Socket
  BY ForeverAssumption
<1> DEFINE Staying == \A s \in Socket : sock[s].client \in Steady =>
                         sock[s].state = "open" /\ live[sock[s].client] = s
           Registering == \A c \in Steady : posts[c] \in Seq({"register"} \X Backend)
<1>3. Staying /\ Registering
  BY <1>1 DEF SteadyStays
<1> SUFFICES Staying' /\ Registering'
  BY DEF SteadyStays
<1>4. ASSUME UNCHANGED <<live, posts>>,
             \A s \in Socket : sock'[s].client = sock[s].client /\ sock'[s].state = sock[s].state
      PROVE  Staying' /\ Registering'
  BY <1>3, <1>4
<1>5. ASSUME UNCHANGED <<live, posts>>, NEW s \in Socket, OnlySocket(s),
             sock'[s].client \notin Steady
      PROVE  Staying' /\ Registering'
  BY <1>3, <1>5 DEF OnlySocket
<1>6. ASSUME UNCHANGED <<live, posts>>, NEW s \in Socket, OnlySocket(s),
             sock'[s].client = sock[s].client /\ sock'[s].state = sock[s].state
      PROVE  Staying' /\ Registering'
  BY <1>4, <1>6 DEF OnlySocket
<1> HIDE DEF Staying, Registering
<1>7. CASE FillSend
  <2>1. UNCHANGED <<live, posts>>
    BY <1>7 DEF FillSend, pageVars
  <2>2. \A s \in Socket : sock'[s].client = sock[s].client /\ sock'[s].state = sock[s].state
    BY <1>1, <1>7, SendEffect, SentEffect
  <2> QED
    BY <1>4, <2>1, <2>2
<1>8. ASSUME NEW s \in Socket, SocketStep(s) PROVE Staying' /\ Registering'
  <2>1. ASSUME NEW r, Write(s, r) PROVE Staying' /\ Registering'
    BY <1>1, <1>6, <2>1, WriteEffect DEF pageVars
  <2>2. ASSUME NEW r, ReleaseUndelivered(s, r) PROVE Staying' /\ Registering'
    BY <1>1, <1>6, <2>2, ReleaseUndeliveredEffect DEF pageVars
  <2>3. CASE Written(s) \/ Greet(s)
    BY <1>1, <1>6, <2>3, GreetWrittenEffect DEF pageVars
  <2>4. CASE Disconnect(s) \/ Cleanup(s)
    <3>1. OnlySocket(s) /\ UNCHANGED <<live, posts>> /\ sock'[s].client = sock[s].client
      BY <1>1, <2>4, TeardownEffect DEF pageVars
    <3>2. sock[s].state # "open" \/ live[sock[s].client] # s
      BY <2>4 DEF Disconnect, Cleanup
    <3>3. sock[s].client \notin Steady
      BY <1>3, <3>2 DEF Staying
    <3> QED
      BY <1>5, <3>1, <3>3
  <2>5. CASE StopSender(s)
    <3>1. /\ OnlySocket(s) /\ UNCHANGED <<live, posts>> /\ sock'[s].client = sock[s].client
          /\ sock[s].state = "stop"
      BY <1>1, <2>5, StopSenderEffect DEF pageVars
    <3>2. sock[s].client \notin Steady
      BY <1>3, <3>1 DEF Staying
    <3> QED
      BY <1>5, <3>1, <3>2
  <2>6. CASE CloseSocket(s)
    <3>1. OnlySocket(s) /\ sock'[s] = NoSocket /\ UNCHANGED <<live, posts>>
      BY <1>1, <2>6, CloseEffect DEF pageVars
    <3>2. sock'[s].client \notin Steady
      BY <1>2, <3>1, FreshSocket
    <3> QED
      BY <1>5, <3>1, <3>2
  <2> QED
    BY <1>8, <2>1, <2>2, <2>3, <2>4, <2>5, <2>6, Zenon DEF SocketStep
<1>9. ASSUME NEW c \in Client, PageStep(c) PROVE Staying' /\ Registering'
  <2>1. ASSUME NEW s \in Socket, Connect(c, s) PROVE Staying' /\ Registering'
    <3>1. /\ OnlySocket(s) /\ live[c] = None /\ sock'[s].state = "open" /\ sock'[s].client = c
          /\ live' = [live EXCEPT ![c] = s]
      BY <1>1, <2>1, ConnectEffect
    <3>2. \A d \in Client : live'[d] = IF d = c THEN s ELSE live[d]
      BY <1>1, <3>1 DEF PageTyped
    <3>3. Staying'
      <4> SUFFICES ASSUME NEW t \in Socket, sock'[t].client \in Steady
                   PROVE  sock'[t].state = "open" /\ live'[sock'[t].client] = t
        BY DEF Staying
      <4>1. CASE t = s
        BY <3>1, <3>2, <4>1
      <4>2. CASE t # s
        <5>1. sock'[t] = sock[t]
          BY <3>1, <4>2 DEF OnlySocket
        <5>2. sock[t].state = "open" /\ live[sock[t].client] = t
          BY <1>3, <5>1 DEF Staying
        <5>3. sock[t].client # c
          BY <1>2, <3>1, <5>2
        <5> QED
          BY <1>2, <3>2, <5>1, <5>2, <5>3
      <4> QED
        BY <4>1, <4>2
    <3>4. Registering'
      <4> DEFINE again == SetToSeq({<<"register", b>> : b \in on[c]})
      <4>1. posts' = [posts EXCEPT ![c] = again]
        BY <2>1 DEF Connect
      <4>2. again \in Seq({"register"} \X Backend)
        BY <1>1, Registrations DEF PageTyped
      <4> HIDE DEF again
      <4> QED
        BY <1>1, <1>2, <1>3, <4>1, <4>2 DEF Registering, PageTyped
    <3> QED
      BY <3>3, <3>4
  <2>2. CASE PageLosesSocket(c)
    <3>1. /\ c \notin Steady /\ live[c] \in Socket /\ sock' = [sock EXCEPT ![live[c]].wire = {}]
          /\ live' = [live EXCEPT ![c] = None] /\ posts' = posts
      BY <1>1, <2>2 DEF PageLosesSocket, PageTyped
    <3>2. sock' = [sock EXCEPT ![live[c]].wire = @ \ sock[live[c]].wire]
      BY <3>1
    <3>3. \A s \in Socket : sock'[s].client = sock[s].client /\ sock'[s].state = sock[s].state
      BY <1>1, <3>1, <3>2, WireEffect DEF OnlySocket
    <3>4. \A d \in Steady : live'[d] = live[d]
      BY <1>1, <1>2, <3>1 DEF PageTyped
    <3> QED
      BY <1>3, <3>1, <3>3, <3>4 DEF Staying, Registering
  <2>3. ASSUME NEW r \in Request, Receive(c, r) PROVE Staying' /\ Registering'
    <3>1. /\ live[c] \in Socket /\ sock' = [sock EXCEPT ![live[c]].wire = @ \ {r}]
          /\ UNCHANGED <<live, posts>>
      BY <1>1, <2>3 DEF Receive, PageTyped
    <3> QED
      BY <1>1, <1>6, <3>1, WireEffect
  <2>4. ASSUME NEW r \in Request, Post(c, r) PROVE Staying' /\ Registering'
    BY <1>4, <2>4 DEF Post, socketVars
  <2>5. ASSUME UNCHANGED <<sock, live>> PROVE Staying'
    BY <1>3, <2>5 DEF Staying
  <2>6. ASSUME NEW b \in Backend, Start(c, b) PROVE Staying' /\ Registering'
    <3>1. UNCHANGED <<sock, live>> /\ posts' = [posts EXCEPT ![c] = Append(@, <<"register", b>>)]
      BY <2>6 DEF Start, socketVars
    <3>2. posts[c] \in Seq({"register"} \X Backend) =>
              Append(posts[c], <<"register", b>>) \in Seq({"register"} \X Backend)
      BY AppendProperties
    <3>3. Registering'
      BY <1>1, <1>2, <1>3, <3>1, <3>2 DEF Registering, PageTyped
    <3> QED
      BY <2>5, <3>1, <3>3
  <2>7. ASSUME NEW b \in Backend, Stop(c, b) PROVE Staying' /\ Registering'
    <3>1. /\ UNCHANGED <<sock, live>> /\ c \notin Steady
          /\ posts' = [posts EXCEPT ![c] = Append(@, <<"unregister", b>>)]
      BY <2>7 DEF Stop, socketVars
    <3>2. Registering'
      BY <1>1, <1>2, <1>3, <3>1 DEF Registering, PageTyped
    <3> QED
      BY <2>5, <3>1, <3>2
  <2>8. ASSUME UNCHANGED <<socketVars, live>>,
               posts' = posts \/ (posts[c] # <<>> /\ posts' = [posts EXCEPT ![c] = Tail(@)])
        PROVE  Staying' /\ Registering'
    <3>1. ASSUME NEW d \in Steady PROVE posts'[d] \in Seq({"register"} \X Backend)
      <4>1. posts[d] \in Seq({"register"} \X Backend)
        BY <1>3 DEF Registering
      <4>2. posts[d] # <<>> => Tail(posts[d]) \in Seq({"register"} \X Backend)
        BY <4>1, HeadTailProperties
      <4> QED
        BY <1>1, <1>2, <2>8, <4>1, <4>2 DEF PageTyped
    <3> QED
      BY <2>5, <2>8, <3>1 DEF Registering, socketVars
  <2> QED
    BY <1>9, <2>1, <2>2, <2>3, <2>4, <2>6, <2>7, <2>8, PageSteps
<1>10. ASSUME NEW r \in Request, Claim(r) \/ RouteDeclines(r) PROVE Staying' /\ Registering'
  <2>1. UNCHANGED <<sock, live, posts>>
    BY <1>10 DEF Claim, RouteDeclines, Decline, socketVars
  <2> QED
    BY <1>4, <2>1
<1>11. UNCHANGED <<socketVars, pageVars>> => Staying' /\ Registering'
  BY <1>4 DEF socketVars, pageVars
<1> QED
  BY <1>7, <1>8, <1>9, <1>10, <1>11, PageAndSocketSteps

\* A connection that is being torn down is not a steady page's.
LEMMA TornDown ==
    ASSUME SteadyStays, NEW s \in Socket, sock[s].state # "open"
    PROVE  sock[s].client \notin Steady
BY DEF SteadyStays

LEMMA OnePlaceStep ==
    ASSUME IInv, [Next]_<<faults, vars>>
    PROVE  OnePlace'
<1>1. SocketTyped /\ PageTyped /\ Connected /\ Addressed /\ SteadyStays /\ OnePlace
  BY DEF IInv, Typed
<1>2. Steady \subseteq Client /\ None \notin Steady /\ None \notin Socket
  BY ForeverAssumption
<1>3. ASSUME submits' \subseteq submits, \A c \in Client : inbox'[c] \subseteq inbox[c],
             \A s \in Socket :
                \/ sock'[s].client \notin Steady
                \/ sock'[s].outbox = {} /\ sock'[s].wire = {}
                \/ /\ sock'[s].client = sock[s].client
                   /\ sock'[s].outbox \subseteq sock[s].outbox /\ sock'[s].wire \subseteq sock[s].wire
      PROVE  OnePlace'
  <2>1. ASSUME NEW s \in Socket, sock'[s].client \in Steady
        PROVE  /\ sock'[s].outbox \cap sock'[s].wire = {}
               /\ (sock'[s].outbox \cup sock'[s].wire) \cap (inbox'[sock'[s].client] \cup submits') = {}
    <3>1. CASE sock'[s].outbox = {} /\ sock'[s].wire = {}
      BY <3>1
    <3>2. CASE /\ sock'[s].client = sock[s].client
               /\ sock'[s].outbox \subseteq sock[s].outbox /\ sock'[s].wire \subseteq sock[s].wire
      <4>1. inbox'[sock[s].client] \subseteq inbox[sock[s].client]
        BY <1>2, <1>3, <2>1, <3>2
      <4>2. /\ sock[s].outbox \cap sock[s].wire = {}
            /\ (sock[s].outbox \cup sock[s].wire) \cap (inbox[sock[s].client] \cup submits) = {}
        BY <1>1, <2>1, <3>2 DEF OnePlace
      <4> QED
        BY <1>3, <3>2, <4>1, <4>2
    <3> QED
      BY <1>3, <2>1, <3>1, <3>2
  <2>2. ASSUME NEW c \in Steady PROVE inbox'[c] \cap submits' = {}
    <3>1. inbox'[c] \subseteq inbox[c] /\ inbox[c] \cap submits = {}
      BY <1>1, <1>2, <1>3 DEF OnePlace
    <3> QED
      BY <1>3, <3>1
  <2> QED
    BY <2>1, <2>2 DEF OnePlace
<1>4. ASSUME UNCHANGED <<inbox, submits>>, NEW s \in Socket, OnlySocket(s),
             \/ sock'[s].client \notin Steady
             \/ sock'[s].outbox = {} /\ sock'[s].wire = {}
             \/ /\ sock'[s].client = sock[s].client
                /\ sock'[s].outbox \subseteq sock[s].outbox /\ sock'[s].wire \subseteq sock[s].wire
      PROVE  OnePlace'
  BY <1>3, <1>4 DEF OnlySocket
<1>5. ASSUME sock' = sock, submits' \subseteq submits, \A c \in Client : inbox'[c] \subseteq inbox[c]
      PROVE  OnePlace'
  BY <1>3, <1>5
<1>6. CASE FillSend
  <2>1. PICK new : Sent(new)
    BY <1>6, SendEffect
  <2>2. UNCHANGED <<inbox, submits>>
    BY <1>6 DEF FillSend, pageVars
  <2>3. \A s \in Socket :
           /\ sock'[s].client = sock[s].client /\ sock'[s].wire = sock[s].wire
           /\ sock'[s].outbox \subseteq sock[s].outbox \cup ToSet(new)
    BY <1>1, <2>1, SentEffect
  <2>4. /\ ToSet(new) \cap submits = {} /\ \A c \in Client : ToSet(new) \cap inbox[c] = {}
        /\ \A s \in Socket : ToSet(new) \cap sock[s].wire = {}
    <3>1. ToSet(new) \cap Travelling = {}
      BY <2>1 DEF Sent, InUse
    <3>2. /\ submits \subseteq Travelling /\ \A c \in Client : inbox[c] \subseteq Travelling
          /\ \A s \in Socket : sock[s].wire \subseteq Travelling
      <4>1. submits \subseteq Travelling
        BY DEF Travelling
      <4>2. ASSUME NEW c \in Client PROVE inbox[c] \subseteq Travelling
        <5>1. inbox[c] \in {inbox[d] : d \in Client}
          OBVIOUS
        <5> QED
          BY <5>1, Zenon DEF Travelling
      <4>3. ASSUME NEW s \in Socket PROVE sock[s].wire \subseteq Travelling
        <5> SUFFICES ASSUME NEW x \in sock[s].wire PROVE x \in Travelling
          OBVIOUS
        <5>1. x \in UNION {sock[t].outbox \cup sock[t].wire \cup {sock[t].inflight} : t \in Socket}
          OBVIOUS
        <5> QED
          BY <5>1 DEF Travelling
      <4> QED
        BY <4>1, <4>2, <4>3
    <3> QED
      BY <3>1, <3>2
  <2>5. ASSUME NEW s \in Socket, sock'[s].client \in Steady
        PROVE  /\ sock'[s].outbox \cap sock'[s].wire = {}
               /\ (sock'[s].outbox \cup sock'[s].wire) \cap (inbox'[sock'[s].client] \cup submits') = {}
    <3>1. /\ sock[s].outbox \cap sock[s].wire = {}
          /\ (sock[s].outbox \cup sock[s].wire) \cap (inbox[sock[s].client] \cup submits) = {}
          /\ sock[s].client \in Client
      BY <1>1, <1>2, <2>3, <2>5 DEF OnePlace
    <3>2. ToSet(new) \cap inbox[sock[s].client] = {} /\ ToSet(new) \cap sock[s].wire = {}
      BY <2>4, <3>1
    <3> QED
      BY <2>2, <2>3, <2>4, <3>1, <3>2
  <2>6. \A c \in Steady : inbox'[c] \cap submits' = {}
    BY <1>1, <2>2 DEF OnePlace
  <2> QED
    BY <2>5, <2>6 DEF OnePlace
<1>7. ASSUME NEW s \in Socket, SocketStep(s) PROVE OnePlace'
  <2>1. ASSUME NEW r, Write(s, r) PROVE OnePlace'
    <3>1. /\ OnlySocket(s) /\ UNCHANGED <<inbox, submits>> /\ r \in sock[s].outbox
          /\ sock'[s].client = sock[s].client /\ sock'[s].outbox = sock[s].outbox \ {r}
          /\ sock'[s].wire \subseteq sock[s].wire \cup {r}
      <4>1. sock'[s].wire = IF live[sock[s].client] = s THEN sock[s].wire \cup {r} ELSE sock[s].wire
        BY <1>1, <2>1, WriteEffect
      <4>2. sock'[s].wire \subseteq sock[s].wire \cup {r}
        BY <4>1
      <4> QED
        BY <1>1, <2>1, <4>2, WriteEffect DEF pageVars
    <3>2. ASSUME NEW t \in Socket, sock'[t].client \in Steady
          PROVE  /\ sock'[t].outbox \cap sock'[t].wire = {}
                 /\ (sock'[t].outbox \cup sock'[t].wire) \cap (inbox'[sock'[t].client] \cup submits') = {}
      <4>1. CASE t # s
        BY <1>1, <3>1, <3>2, <4>1 DEF OnePlace, OnlySocket
      <4>2. CASE t = s
        <5>1. /\ sock[s].outbox \cap sock[s].wire = {}
              /\ (sock[s].outbox \cup sock[s].wire) \cap (inbox[sock[s].client] \cup submits) = {}
          BY <1>1, <3>1, <3>2, <4>2 DEF OnePlace
        <5> QED
          BY <3>1, <4>2, <5>1
      <4> QED
        BY <4>1, <4>2
    <3> QED
      BY <1>1, <3>1, <3>2 DEF OnePlace
  <2>2. ASSUME NEW r, ReleaseUndelivered(s, r) PROVE OnePlace'
    <3>1. /\ OnlySocket(s) /\ UNCHANGED <<inbox, submits>> /\ sock[s].state = "release"
          /\ sock'[s].client = sock[s].client
      BY <1>1, <2>2, ReleaseUndeliveredEffect DEF pageVars
    <3>2. sock'[s].client \notin Steady
      BY <1>1, <3>1, TornDown
    <3> QED
      BY <1>4, <3>1, <3>2
  <2>3. CASE Written(s) \/ Greet(s)
    BY <1>1, <1>4, <2>3, GreetWrittenEffect DEF pageVars
  <2>4. CASE Disconnect(s) \/ Cleanup(s)
    BY <1>1, <1>4, <2>4, TeardownEffect DEF pageVars
  <2>5. CASE StopSender(s)
    <3>1. /\ OnlySocket(s) /\ UNCHANGED <<inbox, submits>> /\ sock[s].state = "stop"
          /\ sock'[s].client = sock[s].client
      BY <1>1, <2>5, StopSenderEffect DEF pageVars
    <3>2. sock'[s].client \notin Steady
      BY <1>1, <3>1, TornDown
    <3> QED
      BY <1>4, <3>1, <3>2
  <2>6. CASE CloseSocket(s)
    <3>1. OnlySocket(s) /\ sock'[s] = NoSocket /\ UNCHANGED <<inbox, submits>>
      BY <1>1, <2>6, CloseEffect DEF pageVars
    <3>2. sock'[s].client \notin Steady
      BY <1>2, <3>1, FreshSocket
    <3> QED
      BY <1>4, <3>1, <3>2
  <2> QED
    BY <1>7, <2>1, <2>2, <2>3, <2>4, <2>5, <2>6, Zenon DEF SocketStep
<1>8. ASSUME NEW c \in Client, PageStep(c) PROVE OnePlace'
  <2>1. ASSUME NEW s \in Socket, Connect(c, s) PROVE OnePlace'
    BY <1>1, <1>4, <2>1, ConnectEffect
  <2>2. CASE PageLosesSocket(c)
    <3>1. /\ live[c] \in Socket /\ sock' = [sock EXCEPT ![live[c]].wire = {}]
          /\ inbox' = [inbox EXCEPT ![c] = {}] /\ submits' = submits
      BY <1>1, <2>2 DEF PageLosesSocket, PageTyped
    <3>2. sock' = [sock EXCEPT ![live[c]].wire = @ \ sock[live[c]].wire]
      BY <3>1
    <3>3. \A s \in Socket : /\ sock'[s].client = sock[s].client
                            /\ sock'[s].outbox \subseteq sock[s].outbox /\ sock'[s].wire \subseteq sock[s].wire
      BY <1>1, <3>1, <3>2, WireEffect DEF OnlySocket
    <3>4. \A d \in Client : inbox'[d] \subseteq inbox[d]
      BY <1>1, <3>1 DEF PageTyped
    <3> QED
      BY <1>3, <3>1, <3>3, <3>4
  <2>3. ASSUME NEW r \in Request, Receive(c, r) PROVE OnePlace'
    <3>1. PICK s \in Socket : s = live[c]
      BY <1>1, <2>3 DEF Receive, PageTyped
    <3>2. /\ r \in sock[s].wire /\ sock' = [sock EXCEPT ![s].wire = @ \ {r}]
          /\ inbox' = [inbox EXCEPT ![c] = @ \cup {r}] /\ submits' = submits
      BY <2>3, <3>1 DEF Receive
    <3>3. /\ OnlySocket(s) /\ sock'[s].client = sock[s].client /\ sock'[s].outbox = sock[s].outbox
          /\ sock'[s].wire = sock[s].wire \ {r}
      BY <1>1, <3>2, WireEffect
    <3>4. sock[s].client = c
      BY <1>1, <1>2, <3>1 DEF Connected
    <3>5. \A d \in Client : inbox'[d] = IF d = c THEN inbox[c] \cup {r} ELSE inbox[d]
      BY <1>1, <3>2 DEF PageTyped
    <3>6. ASSUME NEW t \in Socket, sock'[t].client \in Steady
          PROVE  /\ sock'[t].outbox \cap sock'[t].wire = {}
                 /\ (sock'[t].outbox \cup sock'[t].wire) \cap (inbox'[sock'[t].client] \cup submits') = {}
      <4>1. CASE t # s
        <5>1. sock'[t] = sock[t]
          BY <3>3, <4>1 DEF OnlySocket
        <5>2. live[sock[t].client] = t
          BY <1>1, <3>6, <5>1 DEF SteadyStays
        <5>3. inbox'[sock[t].client] = inbox[sock[t].client]
          BY <1>2, <3>1, <3>5, <3>6, <4>1, <5>1, <5>2
        <5> QED
          BY <1>1, <3>2, <3>6, <5>1, <5>3 DEF OnePlace
      <4>2. CASE t = s
        <5>1. /\ sock[s].outbox \cap sock[s].wire = {}
              /\ (sock[s].outbox \cup sock[s].wire) \cap (inbox[c] \cup submits) = {}
          BY <1>1, <3>3, <3>4, <3>6, <4>2 DEF OnePlace
        <5> QED
          BY <3>2, <3>3, <3>4, <3>5, <4>2, <5>1
      <4> QED
        BY <4>1, <4>2
    <3>7. ASSUME NEW d \in Steady PROVE inbox'[d] \cap submits' = {}
      <4>1. inbox[d] \cap submits = {}
        BY <1>1 DEF OnePlace
      <4>2. d = c => r \notin submits
        BY <1>1, <3>2, <3>4 DEF OnePlace
      <4> QED
        BY <1>2, <3>2, <3>5, <4>1, <4>2
    <3> QED
      BY <3>6, <3>7 DEF OnePlace
  <2>4. ASSUME NEW r \in Request, Post(c, r) PROVE OnePlace'
    <3>1. /\ r \in inbox[c] /\ sock' = sock /\ submits' = submits \cup {r}
          /\ \A d \in Client : inbox'[d] = IF d = c THEN inbox[c] \ {r} ELSE inbox[d]
      BY <1>1, <2>4 DEF Post, socketVars, PageTyped
    <3>2. ClientOf(r) = c
      BY <1>1, <3>1 DEF Addressed
    <3>3. ASSUME NEW d \in Steady PROVE inbox'[d] \cap submits' = {}
      <4>1. r \in inbox[d] => d = c
        BY <1>1, <1>2, <3>2 DEF Addressed
      <4>2. inbox[d] \cap submits = {}
        BY <1>1 DEF OnePlace
      <4> QED
        BY <1>2, <3>1, <4>1, <4>2
    <3>4. ASSUME NEW t \in Socket, sock[t].client \in Steady
          PROVE  /\ sock[t].outbox \cap sock[t].wire = {}
                 /\ (sock[t].outbox \cup sock[t].wire) \cap (inbox'[sock[t].client] \cup submits') = {}
      <4>1. /\ sock[t].outbox \cap sock[t].wire = {}
            /\ (sock[t].outbox \cup sock[t].wire) \cap (inbox[sock[t].client] \cup submits) = {}
        BY <1>1, <3>4 DEF OnePlace
      <4>2. r \notin sock[t].outbox \cup sock[t].wire
        <5>1. r \in sock[t].outbox \cup sock[t].wire => sock[t].client = c
          BY <1>1, <3>2, Requests DEF Addressed
        <5> QED
          BY <3>1, <4>1, <5>1
      <4>3. inbox'[sock[t].client] \subseteq inbox[sock[t].client]
        BY <1>2, <3>1, <3>4
      <4> QED
        BY <3>1, <4>1, <4>2, <4>3
    <3> QED
      BY <3>1, <3>3, <3>4 DEF OnePlace
  <2>5. ASSUME NEW b \in Backend, Start(c, b) PROVE OnePlace'
    BY <1>5, <2>5 DEF Start, socketVars
  <2>6. ASSUME NEW b \in Backend, Stop(c, b) PROVE OnePlace'
    <3>1. \A d \in Client : inbox'[d] \subseteq inbox[d]
      BY <1>1, <2>6 DEF Stop, PageTyped
    <3> QED
      BY <1>5, <2>6, <3>1 DEF Stop, socketVars
  <2>7. ASSUME UNCHANGED <<socketVars, submits>>,
               inbox' = inbox \/ \E r \in Request : inbox' = [inbox EXCEPT ![c] = @ \ {r}]
        PROVE  OnePlace'
    <3>1. \A d \in Client : inbox'[d] \subseteq inbox[d]
      BY <1>1, <2>7 DEF PageTyped
    <3> QED
      BY <1>5, <2>7, <3>1 DEF socketVars
  <2> QED
    BY <1>8, <2>1, <2>2, <2>3, <2>4, <2>5, <2>6, <2>7, PageSteps
<1>9. ASSUME NEW r \in Request, Claim(r) \/ RouteDeclines(r) PROVE OnePlace'
  <2>1. UNCHANGED <<sock, inbox>> /\ submits' \subseteq submits
    BY <1>9 DEF Claim, RouteDeclines, Decline, socketVars
  <2> QED
    BY <1>5, <2>1
<1>10. UNCHANGED <<socketVars, pageVars>> => OnePlace'
  BY <1>5 DEF socketVars, pageVars
<1> QED
  BY <1>6, <1>7, <1>8, <1>9, <1>10, PageAndSocketSteps

\* A reservation of a steady page ends when it is answered or has lapsed.
LEMMA ReservationStands ==
    ASSUME IInv, [Next]_<<faults, vars>>, NEW q \in Request, ClientOf(q) \in Steady,
           q \in Reservations \cup lapsed,
           ~Claim(q), ~RouteDeclines(q), \A c \in Client : ~PageDeclines(c, q)
    PROVE  q \in Reservations' \cup lapsed'
<1>1. QueueTyped /\ Connected /\ Addressed /\ SteadyStays /\ SocketTyped
  BY DEF IInv, Typed
<1>2. ASSUME UNCHANGED <<reserved, lapsed>> PROVE q \in Reservations' \cup lapsed'
  BY <1>2 DEF Reservations
<1>3. ASSUME NEW gone, Release(gone), lapsed' = lapsed, q \notin gone \ lapsed
      PROVE  q \in Reservations' \cup lapsed'
  BY <1>1, <1>3, ReleaseEffect
<1>4. Expired \subseteq lapsed
  BY DEF Expired
<1>5. CASE FillStep
  <2>1. CASE FillSend
    <3>1. PICK new : Sent(new)
      BY <2>1, SendEffect
    <3>2. Reservations' = Reservations \cup ToSet(new) /\ lapsed' = lapsed \ ToSet(new)
      BY <1>1, <3>1, SentReservations DEF Sent
    <3> QED
      BY <3>2
  <2>2. ASSUME NEW b \in Backend, FillBegin(b) PROVE q \in Reservations' \cup lapsed'
    BY <1>3, <1>4, <2>2 DEF FillBegin
  <2>3. ASSUME ~FillSend, \A b \in Backend : ~FillBegin(b) PROVE UNCHANGED <<reserved, lapsed>>
    BY <1>5, <2>3 DEF FillStep, FillCapacity, FillQueue, FillPending, FillRows,
              FillClient, queueVars
  <2> QED
    BY <1>2, <2>1, <2>2, <2>3
<1>6. ASSUME NEW j \in Job, JobStep(j) PROVE UNCHANGED <<reserved, lapsed>>
  <2>1. UNCHANGED queueVars
    BY <1>6 DEF JobStep, Submitted, SubmitsUnasked, Rejected, Assigned, Generated, TailCommitted,
                TailDone, Failed, Requeued
  <2> QED
    BY <2>1 DEF queueVars
<1>7. ASSUME NEW b \in Backend, BackendLost(b) \/ BackendBack(b) PROVE UNCHANGED <<reserved, lapsed>>
  BY <1>7 DEF BackendLost, BackendBack, queueVars
<1>8. Lapse => reserved' = reserved /\ lapsed \subseteq lapsed'
  BY DEF Lapse
<1>9. ASSUME NEW s \in Socket, SocketStep(s) PROVE q \in Reservations' \cup lapsed'
  <2>1. CASE Cleanup(s)
    <3>1. sock[s].state = "cleanup" /\ lapsed' = lapsed
      BY <2>1 DEF Cleanup
    <3>2. sock[s].client # ClientOf(q)
      BY <1>1, <3>1, TornDown
    <3>3. CASE StillAbandoned(sock[s].client, s)
      <4>1. Reservations' = Reservations \ OwnedBy(sock[s].client, Backend)
        BY <1>1, <2>1, <3>3, CleanupEffect
      <4> QED
        BY <3>1, <3>2, <4>1 DEF OwnedBy
    <3>4. CASE ~StillAbandoned(sock[s].client, s)
      BY <1>2, <2>1, <3>1, <3>4 DEF Cleanup
    <3> QED
      BY <3>3, <3>4
  <2>2. ASSUME NEW r, ReleaseUndelivered(s, r) PROVE q \in Reservations' \cup lapsed'
    <3>1. /\ Release(Expired \cup {r}) /\ lapsed' = lapsed
          /\ sock[s].state = "release" /\ r \in sock[s].outbox
      BY <2>2 DEF ReleaseUndelivered
    <3>2. sock[s].client \notin Steady
      BY <1>1, <3>1, TornDown
    <3>3. r # q
      BY <1>1, <3>1, <3>2, Requests DEF Addressed
    <3> QED
      BY <1>3, <1>4, <3>1, <3>3
  <2>3. ASSUME ~Cleanup(s), \A r : ~ReleaseUndelivered(s, r) PROVE UNCHANGED <<reserved, lapsed>>
    BY <1>9, <2>3 DEF SocketStep, Greet, Write, Written, Disconnect, StopSender, CloseSocket, queueVars
  <2> QED
    BY <1>2, <2>1, <2>2, <2>3
<1>10. ASSUME NEW c \in Client, PageStep(c) PROVE q \in Reservations' \cup lapsed'
  <2>1. ASSUME NEW b \in Backend, Register(c, b) PROVE UNCHANGED <<reserved, lapsed>>
    BY <2>1 DEF Register
  <2>2. ASSUME NEW b \in Backend, Unregister(c, b) PROVE q \in Reservations' \cup lapsed'
    <3>1. /\ posts[c] # <<>> /\ Head(posts[c]) = <<"unregister", b>>
          /\ Release(OwnedBy(c, {b})) /\ lapsed' = lapsed
      BY <2>2 DEF Unregister
    <3>2. c \notin Steady
      <4>1. SUFFICES ASSUME c \in Steady PROVE FALSE
        OBVIOUS
      <4>2. posts[c] \in Seq({"register"} \X Backend)
        BY <1>1, <4>1 DEF SteadyStays
      <4>3. Head(posts[c]) \in {"register"} \X Backend
        BY <3>1, <4>2, HeadTailProperties
      <4> QED
        BY <3>1, <4>3
    <3> QED
      BY <1>3, <3>1, <3>2 DEF OwnedBy
  <2>3. ASSUME NEW r \in Request, PageDeclines(c, r) PROVE q \in Reservations' \cup lapsed'
    <3>1. Release(Expired \cup {r}) /\ lapsed' = lapsed /\ r # q
      BY <2>3 DEF PageDeclines, Decline
    <3> QED
      BY <1>3, <1>4, <3>1
  <2>4. ASSUME NEW r \in Request, LegacyDecline(c, r) PROVE q \in Reservations' \cup lapsed'
    <3>1. Release(OldestOwned(c, BackendOf(r))) /\ lapsed' = lapsed /\ c \notin Steady
      BY <2>4 DEF LegacyDecline
    <3>2. OldestOwned(c, BackendOf(r)) \subseteq OwnedBy(c, {BackendOf(r)})
      BY DEF OldestOwned
    <3> QED
      BY <1>3, <3>1, <3>2 DEF OwnedBy
  <2>5. ASSUME NEW s \in Socket, Connect(c, s) PROVE UNCHANGED <<reserved, lapsed>>
    BY <2>5 DEF Connect, queueVars
  <2>6. ASSUME NEW b \in Backend, Start(c, b) \/ Stop(c, b) PROVE UNCHANGED <<reserved, lapsed>>
    BY <2>6 DEF Start, Stop, queueVars
  <2>7. ASSUME NEW r \in Request, Receive(c, r) \/ Ignore(c, r) \/ Post(c, r)
        PROVE  UNCHANGED <<reserved, lapsed>>
    BY <2>7 DEF Receive, Ignore, Post, queueVars
  <2>8. PageLosesSocket(c) => UNCHANGED <<reserved, lapsed>>
    BY DEF PageLosesSocket, queueVars
  <2> QED
    BY <1>2, <1>10, <2>1, <2>2, <2>3, <2>4, <2>5, <2>6, <2>7, <2>8, Zenon DEF PageStep
<1>11. ASSUME NEW r \in Request, Claim(r) \/ RouteDeclines(r) PROVE q \in Reservations' \cup lapsed'
  <2>1. Release(Expired \cup {r}) /\ lapsed' = lapsed /\ r # q
    BY <1>11 DEF Claim, RouteDeclines, Decline
  <2> QED
    BY <1>3, <1>4, <2>1
<1>12. UNCHANGED <<faults, vars>> => UNCHANGED <<reserved, lapsed>>
  BY DEF vars, queueVars
<1>13. Lapse => q \in Reservations' \cup lapsed'
  BY <1>8 DEF Reservations
<1> QED
  BY <1>2, <1>5, <1>6, <1>7, <1>9, <1>10, <1>11, <1>12, <1>13, Zenon DEF Next

\* What is ahead after a step was ahead before it, or is newly reserved.
LEMMA AheadBefore ==
    ASSUME IInv, [Next]_<<faults, vars>>, NEW q \in Request, Ahead(q)'
    PROVE  Ahead(q) \/ q \in Reservations'
<1>1. SocketTyped /\ PageTyped /\ QueueTyped /\ Connected /\ Addressed /\ SteadyStays
  BY DEF IInv, Typed
<1>2. ClientOf(q) \in Steady /\ ClientOf(q) \in Client
  BY Requests DEF Ahead
<1>3. ASSUME submits' \subseteq submits, inbox'[ClientOf(q)] \subseteq inbox[ClientOf(q)],
             \A s \in Socket : q \in sock'[s].outbox \cup sock'[s].wire
                                  => q \in sock[s].outbox \cup sock[s].wire
      PROVE  Ahead(q)
  BY <1>3 DEF Ahead
<1>4. CASE FillSend
  <2>1. PICK new : Sent(new)
    BY <1>4, SendEffect
  <2>2. UNCHANGED <<inbox, submits>>
    BY <1>4 DEF FillSend, pageVars
  <2>3. \A s \in Socket : /\ sock'[s].wire = sock[s].wire
                          /\ sock'[s].outbox \subseteq sock[s].outbox \cup ToSet(new)
    BY <1>1, <2>1, SentEffect
  <2>4. ToSet(new) \subseteq Reservations'
    BY <1>1, <2>1, SentReservations
  <2>5. CASE q \in ToSet(new)
    BY <2>4, <2>5
  <2>6. CASE q \notin ToSet(new)
    BY <1>3, <2>2, <2>3, <2>6
  <2> QED
    BY <2>5, <2>6
<1>5. ASSUME NEW s \in Socket, SocketStep(s) PROVE Ahead(q)
  <2>1. ASSUME UNCHANGED <<inbox, submits>>, OnlySocket(s),
               q \in sock'[s].outbox \cup sock'[s].wire => q \in sock[s].outbox \cup sock[s].wire
        PROVE  Ahead(q)
    BY <1>3, <2>1 DEF OnlySocket
  <2>2. ASSUME NEW r, Write(s, r) PROVE Ahead(q)
    <3>1. /\ OnlySocket(s) /\ UNCHANGED <<inbox, submits>> /\ r \in sock[s].outbox
          /\ sock'[s].outbox = sock[s].outbox \ {r}
          /\ sock'[s].wire = IF live[sock[s].client] = s THEN sock[s].wire \cup {r} ELSE sock[s].wire
      BY <1>1, <2>2, WriteEffect DEF pageVars
    <3> QED
      BY <2>1, <3>1
  <2>3. ASSUME NEW r, ReleaseUndelivered(s, r) PROVE Ahead(q)
    BY <1>1, <2>1, <2>3, ReleaseUndeliveredEffect DEF pageVars
  <2>4. CASE Written(s) \/ Greet(s)
    BY <1>1, <2>1, <2>4, GreetWrittenEffect DEF pageVars
  <2>5. CASE Disconnect(s) \/ Cleanup(s)
    BY <1>1, <2>1, <2>5, TeardownEffect DEF pageVars
  <2>6. CASE StopSender(s)
    <3>1. /\ OnlySocket(s) /\ UNCHANGED <<inbox, submits>> /\ sock[s].state = "stop"
          /\ sock'[s].outbox = sock[s].outbox \cup ({sock[s].inflight} \ {None})
          /\ sock'[s].wire = sock[s].wire
      BY <1>1, <2>6, StopSenderEffect DEF pageVars
    <3>2. sock[s].client \notin Steady
      BY <1>1, <3>1, TornDown
    <3>3. q # sock[s].inflight
      BY <1>1, <1>2, <3>2, Requests DEF Addressed
    <3> QED
      BY <2>1, <3>1, <3>3
  <2>7. CASE CloseSocket(s)
    <3>1. OnlySocket(s) /\ sock'[s] = NoSocket /\ UNCHANGED <<inbox, submits>>
      BY <1>1, <2>7, CloseEffect DEF pageVars
    <3> QED
      BY <2>1, <3>1, FreshSocket
  <2> QED
    BY <1>5, <2>2, <2>3, <2>4, <2>5, <2>6, <2>7, Zenon DEF SocketStep
<1>6. ASSUME NEW c \in Client, PageStep(c) PROVE Ahead(q)
  <2>1. ASSUME NEW s \in Socket, Connect(c, s) PROVE Ahead(q)
    <3>1. /\ OnlySocket(s) /\ sock'[s].outbox = {} /\ sock'[s].wire = {}
          /\ UNCHANGED <<inbox, submits>>
      BY <1>1, <2>1, ConnectEffect
    <3> QED
      BY <1>3, <3>1 DEF OnlySocket
  <2>2. CASE PageLosesSocket(c)
    <3>1. /\ live[c] \in Socket /\ sock' = [sock EXCEPT ![live[c]].wire = {}]
          /\ inbox' = [inbox EXCEPT ![c] = {}] /\ submits' = submits
      BY <1>1, <2>2 DEF PageLosesSocket, PageTyped
    <3>2. sock' = [sock EXCEPT ![live[c]].wire = @ \ sock[live[c]].wire]
      BY <3>1
    <3>3. \A s \in Socket : sock'[s].outbox \subseteq sock[s].outbox /\ sock'[s].wire \subseteq sock[s].wire
      BY <1>1, <3>1, <3>2, WireEffect DEF OnlySocket
    <3>4. inbox'[ClientOf(q)] \subseteq inbox[ClientOf(q)]
      BY <1>1, <1>2, <3>1 DEF PageTyped
    <3> QED
      BY <1>3, <3>1, <3>3, <3>4
  <2>3. ASSUME NEW r \in Request, Receive(c, r) PROVE Ahead(q)
    <3>1. PICK s \in Socket : s = live[c]
      BY <1>1, <2>3 DEF Receive, PageTyped
    <3>2. /\ r \in sock[s].wire /\ sock' = [sock EXCEPT ![s].wire = @ \ {r}]
          /\ inbox' = [inbox EXCEPT ![c] = @ \cup {r}] /\ submits' = submits
      BY <2>3, <3>1 DEF Receive
    <3>3. \A t \in Socket : sock'[t].outbox \subseteq sock[t].outbox /\ sock'[t].wire \subseteq sock[t].wire
      BY <1>1, <3>2, WireEffect DEF OnlySocket
    <3>4. \A d \in Client : inbox'[d] \subseteq inbox[d] \cup {r}
      BY <1>1, <3>2 DEF PageTyped
    <3>5. CASE q = r
      BY <1>2, <3>2, <3>5 DEF Ahead
    <3>6. CASE q # r
      BY <1>2, <3>2, <3>3, <3>4, <3>6 DEF Ahead
    <3> QED
      BY <3>5, <3>6
  <2>4. ASSUME NEW r \in Request, Post(c, r) PROVE Ahead(q)
    <3>1. /\ r \in inbox[c] /\ sock' = sock /\ submits' = submits \cup {r}
          /\ \A d \in Client : inbox'[d] \subseteq inbox[d]
      BY <1>1, <2>4 DEF Post, socketVars, PageTyped
    <3>2. ClientOf(r) = c
      BY <1>1, <3>1 DEF Addressed
    <3>3. CASE q = r
      BY <1>2, <3>1, <3>2, <3>3 DEF Ahead
    <3>4. CASE q # r
      BY <1>2, <3>1, <3>4 DEF Ahead
    <3> QED
      BY <3>3, <3>4
  <2>5. ASSUME NEW b \in Backend, Start(c, b) PROVE Ahead(q)
    BY <1>3, <2>5 DEF Start, socketVars
  <2>6. ASSUME NEW b \in Backend, Stop(c, b) PROVE Ahead(q)
    <3>1. inbox'[ClientOf(q)] \subseteq inbox[ClientOf(q)]
      BY <1>1, <1>2, <2>6 DEF Stop, PageTyped
    <3> QED
      BY <1>3, <2>6, <3>1 DEF Stop, socketVars
  <2>7. ASSUME UNCHANGED <<socketVars, submits>>,
               inbox' = inbox \/ \E r \in Request : inbox' = [inbox EXCEPT ![c] = @ \ {r}]
        PROVE  Ahead(q)
    <3>1. inbox'[ClientOf(q)] \subseteq inbox[ClientOf(q)]
      BY <1>1, <1>2, <2>7 DEF PageTyped
    <3> QED
      BY <1>3, <2>7, <3>1 DEF socketVars
  <2> QED
    BY <1>6, <2>1, <2>2, <2>3, <2>4, <2>5, <2>6, <2>7, PageSteps
<1>7. ASSUME NEW r \in Request, Claim(r) \/ RouteDeclines(r) PROVE Ahead(q)
  <2>1. UNCHANGED <<sock, inbox>> /\ submits' \subseteq submits
    BY <1>7 DEF Claim, RouteDeclines, Decline, socketVars
  <2> QED
    BY <1>3, <2>1
<1>8. UNCHANGED <<socketVars, pageVars>> => Ahead(q)
  BY <1>3 DEF socketVars, pageVars
<1> QED
  BY <1>4, <1>5, <1>6, <1>7, <1>8, PageAndSocketSteps

\* An answered request is on its way no more.
LEMMA AnsweredGone ==
    ASSUME IInv, NEW q \in Request, ClientOf(q) \in Steady,
           Claim(q) \/ RouteDeclines(q) \/ \E c \in Client : PageDeclines(c, q)
    PROVE  ~Ahead(q)'
<1>1. SocketTyped /\ PageTyped /\ Addressed /\ OnePlace
  BY DEF IInv, Typed
<1>2. \A s \in Socket : q \in sock[s].outbox \cup sock[s].wire =>
          /\ sock[s].client = ClientOf(q)
          /\ q \notin inbox[ClientOf(q)] \cup submits
  BY <1>1, Requests DEF Addressed, OnePlace
<1>3. ~(q \in inbox[ClientOf(q)] /\ q \in submits)
  BY <1>1 DEF OnePlace
<1>4. CASE Claim(q) \/ RouteDeclines(q)
  <2>1. q \in submits /\ submits' = submits \ {q} /\ UNCHANGED <<sock, inbox>>
    BY <1>4 DEF Claim, RouteDeclines, Decline, socketVars
  <2> QED
    BY <1>2, <1>3, <2>1 DEF Ahead
<1>5. ASSUME NEW c \in Client, PageDeclines(c, q) PROVE ~Ahead(q)'
  <2>1. q \in inbox[c] /\ inbox' = [inbox EXCEPT ![c] = @ \ {q}] /\ UNCHANGED <<sock, submits>>
    BY <1>5 DEF PageDeclines, Decline, socketVars
  <2>2. c = ClientOf(q)
    BY <1>1, <2>1 DEF Addressed
  <2>3. q \notin inbox'[c]
    BY <1>1, <2>1 DEF PageTyped
  <2> QED
    BY <1>2, <1>3, <2>1, <2>2, <2>3 DEF Ahead
<1> QED
  BY <1>4, <1>5

LEMMA AheadStandsStep ==
    ASSUME IInv, [Next]_<<faults, vars>>
    PROVE  AheadStands'
<1> SUFFICES ASSUME NEW q \in Request, Ahead(q)' PROVE q \in Reservations' \cup lapsed'
  BY DEF AheadStands
<1>1. ClientOf(q) \in Steady
  BY DEF Ahead
<1>2. Ahead(q) \/ q \in Reservations'
  BY AheadBefore
<1>3. ~Claim(q) /\ ~RouteDeclines(q) /\ \A c \in Client : ~PageDeclines(c, q)
  BY <1>1, AnsweredGone
<1>4. Ahead(q) => q \in Reservations \cup lapsed
  BY DEF IInv, AheadStands
<1> QED
  BY <1>1, <1>2, <1>3, <1>4, ReservationStands

-----------------------------------------------------------------------------
(* The theorems.                                                           *)

LEMMA InitIInv == Init => IInv
<1> SUFFICES ASSUME Init PROVE IInv
  OBVIOUS
<1>1. <<>> \in Seq(Request) /\ IsInjective(<<>>) /\ ToSet(<<>>) = {}
  BY DEF IsInjective, ToSet
<1>2. Reservations = {}
  BY <1>1 DEF Init, Reservations
<1>3. QueueTyped
  BY <1>1 DEF Init, QueueTyped
<1>4. FillTyped
  <2>1. 0 \in 0..MaxWaiting
    BY ForeverAssumption
  <2> QED
    BY <2>1, FreshFill DEF Init, FillTyped
<1>5. JobTyped
  <2>1. NoRow \in Row /\ NoRow.stage = "free"
    BY DEF NoRow, Row
  <2>2. \A c : InTail(c) = {}
    BY <2>1 DEF Init, InTail
  <2> QED
    BY <2>1, <2>2, FS_EmptySet DEF Init, JobTyped
<1>6. SocketTyped /\ \A s \in Socket : sock[s] = NoSocket
  BY FreshSocket DEF Init, SocketTyped
<1>7. PageTyped
  <2>1. <<>> \in Seq({"register", "unregister"} \X Backend)
    OBVIOUS
  <2> QED
    BY <2>1 DEF Init, PageTyped
<1>8. Typed
  BY <1>3, <1>4, <1>5, <1>6, <1>7 DEF Init, Typed
<1>9. Pending /\ CleanupPending
  BY <1>2 DEF Init, Pending, OwnedOn, OwnedBy, CleanupPending
<1>10. Connected
  BY <1>6, FreshSocket DEF Init, Connected
<1>11. Addressed /\ OnePlace
  BY <1>6, FreshSocket, ForeverAssumption DEF Init, Addressed, OnePlace
<1>12. SteadyStays
  <2>1. <<>> \in Seq({"register"} \X Backend)
    OBVIOUS
  <2> QED
    BY <1>6, <2>1, FreshSocket, ForeverAssumption DEF Init, SteadyStays
<1>13. AheadStands
  <2>1. \A r \in Request : ~Ahead(r)
    BY <1>6, FreshSocket, Requests DEF Init, Ahead
  <2> QED
    BY <2>1 DEF AheadStands
<1> QED
  BY <1>8, <1>9, <1>10, <1>11, <1>12, <1>13 DEF IInv

LEMMA NextIInv == IInv /\ [Next]_<<faults, vars>> => IInv'
<1> SUFFICES ASSUME IInv, [Next]_<<faults, vars>> PROVE IInv'
  OBVIOUS
<1> QED
  BY TypedStep, PendingStep, ConnectedStep, CleanupPendingStep, AddressedStep, SteadyStaysStep,
     OnePlaceStep, AheadStandsStep DEF IInv

LEMMA Invariance == Spec => []IInv
BY InitIInv, NextIInv, PTL DEF Spec

\* Every variable keeps its type; the count of a page's finalizing rows never
\* goes below zero nor above the rows there are.
THEOREM TypeCorrect == Spec => []TypeOK
<1>1. IInv => TypeOK
  <2> SUFFICES ASSUME IInv PROVE TypeOK
    OBVIOUS
  <2>1. QueueTyped /\ FillTyped /\ JobTyped /\ SocketTyped /\ PageTyped /\ faults \in FaultSets
    BY DEF IInv, Typed
  <2>2. finalizing \in [Client -> 0..Cardinality(Job)]
    <3>1. ASSUME NEW c \in Client PROVE finalizing[c] \in 0..Cardinality(Job)
      <4>1. InTail(c) \in SUBSET Job
        BY DEF InTail
      <4>2. /\ Cardinality(InTail(c)) \in Nat /\ Cardinality(Job) \in Nat
            /\ Cardinality(InTail(c)) <= Cardinality(Job)
        BY <4>1, ForeverAssumption, FS_Subset, FS_CardinalityType
      <4>3. \A m, n \in Nat : m <= n => m \in 0..n
        OBVIOUS
      <4> QED
        BY <2>1, <4>2, <4>3 DEF JobTyped
    <3> QED
      BY <2>1, <3>1 DEF JobTyped
  <2>3. fill.pc \in {"idle", "capacity", "queue", "pending", "clients", "tails", "send"}
    BY <2>1 DEF FillTyped, FillRecord
  <2>4. \A s \in Socket :
           /\ sock[s].state \in {"free", "open", "cleanup", "stop", "release"}
           /\ sock[s].outbox \cup sock[s].wire \subseteq Request
           /\ sock[s].inflight \in Request \cup {None}
    BY <2>1, SocketFields
  <2> QED
    BY <2>1, <2>2, <2>3, <2>4 DEF TypeOK, QueueTyped, FillTyped, JobTyped, SocketTyped, PageTyped
<1> QED
  BY <1>1, Invariance, PTL

\* The two pending lists hold exactly the reservations while backends stay, and
\* never more than them: the queue neither leaks a slot nor offers it twice.
THEOREM CountsAreReservations == Spec => []PendingMatchesReservations
<1>1. IInv => PendingMatchesReservations
  <2> SUFFICES ASSUME IInv PROVE PendingMatchesReservations
    OBVIOUS
  <2>1. \A c \in Client : OwnedBy(c, Backend) = {r \in Reservations : ClientOf(r) = c}
    <3>1. \A r \in Reservations : BackendOf(r) \in Backend
      BY Requests DEF IInv, Typed, QueueTyped, Reservations, ToSet
    <3> QED
      BY <3>1 DEF OwnedBy
  <2>2. \A b \in Backend : OwnedOn(b) = {r \in Reservations : BackendOf(r) = b}
    BY DEF OwnedOn
  <2> QED
    BY <2>1, <2>2 DEF IInv, Pending, PendingMatchesReservations
<1> QED
  BY <1>1, Invariance, PTL

\* A page that stays can use every request it was sent until it lapses,
\* whatever other pages decline, drop or leave behind.
THEOREM OffersStand == Spec => []OfferStands
<1>1. IInv => OfferStands
  <2> SUFFICES ASSUME IInv, NEW c \in Steady,
                      NEW r \in inbox[c] \cup {q \in submits : ClientOf(q) = c}
               PROVE  r \in Reservations \cup lapsed
    BY DEF OfferStands
  <2>1. c \in Client
    BY ForeverAssumption
  <2>2. r \in Request /\ ClientOf(r) = c
    BY <2>1 DEF IInv, Typed, PageTyped, Addressed
  <2> QED
    BY <2>2 DEF IInv, AheadStands, Ahead
<1> QED
  BY <1>1, Invariance, PTL

\* A page that is gone, its disconnect cleaned up, holds no reservation: the
\* cleanup and the dispatch cannot pass each other and leave one behind.
THEOREM NothingLeftBehind == Spec => []DepartedHoldsNothing
<1>1. IInv => DepartedHoldsNothing
  <2> SUFFICES ASSUME IInv, NEW c \in Client, owner[c] = None,
                      \A s \in Socket : sock[s].state = "cleanup" => sock[s].client # c
               PROVE  OwnedBy(c, Backend) = {}
    BY DEF DepartedHoldsNothing
  <2>1. lastReg[c] \in Socket \cup {None}
    BY DEF IInv, Typed, SocketTyped
  <2> QED
    BY <2>1 DEF IInv, CleanupPending
<1> QED
  BY <1>1, Invariance, PTL

-----------------------------------------------------------------------------
(* Whoever can be asked is asked.                                          *)

\* No row or request is dropped on a path that asks for no dispatch, and where
\* pages leave, they leave for good and submit only what they are asked for.
Prompt ==
    /\ faults \cap {"stop", "lapse", "loss", "reject"} = {}
    /\ "depart" \in faults => faults \cap {"return", "late", "plain"} = {}

\* A page with a limit works for one backend: what it does for another would
\* count against its limit and ends without a dispatch here.
OneBackend == \A a, b \in Backend : a = b
Unshared(c) == Limit[c] = 0 \/ OneBackend

\* Requests stand until they are answered and backends stay; nobody unregisters.
NothingLapses ==
    /\ up = Backend /\ lapsed = {}
    /\ \A c \in Client : posts[c] \in Seq({"register"} \X Backend)

\* Only running rows hold slots, those of their backend.
SlotsRun == \A b \in Backend : \A j \in slots[b] : job[j].stage = "running" /\ job[j].backend = b

\* A page has one connection, which it keeps unless it leaves with forever mode on.
OneConnection ==
    /\ \A s, t \in Socket :
          sock[s].state # "free" /\ sock[t].state # "free" /\ sock[s].client = sock[t].client
              => s = t
    /\ \A s \in Socket : sock[s].state # "free" =>
          \/ sock[s].state = "open" /\ live[sock[s].client] = s
          \/ "depart" \in faults /\ live[sock[s].client] = None /\ on[sock[s].client] # {}
    /\ \A s \in Socket :
          sock[s].state = "open" /\ sock[s].greeted => owner[sock[s].client] = s
    /\ \A c \in Client :
          live[c] = None /\ ("depart" \in faults => on[c] = {}) => posts[c] = <<>>

\* A registered page without a connection is being cleaned up, or about to
\* announce itself: both ask for a dispatch.
CleaningUp(c) ==
    lastReg[c] # None /\ sock[lastReg[c]].state = "cleanup" /\ sock[lastReg[c]].client = c
Attended ==
    \A b \in Backend : \A c \in forever[b] : owner[c] = None =>
        \/ CleaningUp(c)
        \/ "depart" \notin faults /\ live[c] # None /\ ~sock[live[c]].greeted

\* A page that has left and been cleaned up.
Gone(c) ==
    /\ owner[c] = None /\ live[c] = None /\ on[c] # {}
    /\ \A s \in Socket : sock[s].client = c => sock[s].state \in {"free", "stop", "release"}

\* The dispatch under way is one for b.
Filling(b) == fill.pc # "idle" /\ fill.backend = b

Active == {"claimed", "queued", "running"}

\* The page concerns backend b: the dispatch knows it, or it was asked, or works.
Held(c, b) ==
    \/ Filling(b) /\ c \in fill.clients
    \/ OwnedBy(c, {b}) # {}
    \/ Rows(Active, {c}, {b}) # {}
Registered ==
    "depart" \in faults =>
        \A c \in Client, b \in Backend : Held(c, b) => c \in forever[b] \/ Gone(c)

\* A backend nobody works for and nobody was asked to work for.
Idle(b) == OwnedOn(b) = {} /\ Rows(Active, Client, {b}) = {}

\* The rows in the tail that the dispatch counted and has yet to discount.
Discount(c) == IF fill.pc = "tails" /\ c = fill.page THEN finalizing[c] ELSE 0

\* What the dispatch has read still holds, or another one is asked for.
ReadIsFresh ==
    /\ fill.pc # "idle" => fill.clients # {}
    /\ DOMAIN fill.active \subseteq fill.clients
    /\ fill.pc \in {"capacity", "queue", "pending"} => DOMAIN fill.active = {}
    /\ fill.pc \in {"clients", "tails", "send"} => fill.room > 0
    /\ fill.pc = "send" => DOMAIN fill.active = fill.clients
    /\ \A b \in Backend : Filling(b) /\ waiting[b] = 0 =>
          /\ fill.clients = forever[b]
          /\ fill.pc = "queue" => fill.room >= MaxConcurrent[b] - Cardinality(slots[b])
          /\ fill.pc = "pending" /\ Idle(b) => fill.room >= MaxConcurrent[b]
          /\ OneBackend /\ "overtake" \notin faults => \A c \in DOMAIN fill.active :
                fill.active[c]
                    <= Cardinality(Rows({"queued", "running"}, {c}, Backend)) + Discount(c)

\* An idle backend that may ask a page is about to: a dispatch is under way or
\* asked for, or a registered page is attended to.
Dispatched ==
    \A b \in Backend : Idle(b) /\ (\E c \in forever[b] : Unshared(c) /\ CountedRight(c)) =>
        \/ waiting[b] > 0
        \/ Filling(b)
        \/ \E d \in forever[b] : owner[d] = None

DispatchInv ==
    /\ IInv
    /\ Prompt
    /\ NothingLapses
    /\ SlotsRun
    /\ OneConnection
    /\ Attended
    /\ Registered
    /\ ReadIsFresh
    /\ Dispatched
-----------------------------------------------------------------------------
(* Calls of the dispatch.                                                  *)

\* Who asks for a dispatch gets one, and takes none from others.
LEMMA RefillEffect ==
    ASSUME FillTyped, NEW B, Refill(B), NEW b \in Backend
    PROVE  /\ waiting[b] \in Nat /\ waiting'[b] \in Nat /\ waiting'[b] >= waiting[b]
           /\ b \in B => waiting'[b] > 0
<1>1. waiting[b] \in 0..MaxWaiting /\ MaxWaiting \in Nat \ {0}
  BY ForeverAssumption DEF FillTyped
<1>2. waiting'[b] = IF b \in B THEN Lesser(waiting[b] + 1, MaxWaiting) ELSE waiting[b]
  BY DEF Refill
<1> QED
  BY <1>1, <1>2 DEF Lesser

\* Only the dispatch that begins takes a call.
LEMMA CallsStay ==
    ASSUME IInv, [Next]_<<faults, vars>>, NEW b \in Backend, ~FillBegin(b)
    PROVE  waiting[b] \in Nat /\ waiting'[b] \in Nat /\ waiting'[b] >= waiting[b]
<1>1. FillTyped /\ waiting \in [Backend -> 0..MaxWaiting] /\ MaxWaiting \in Nat
  BY ForeverAssumption DEF IInv, Typed, FillTyped
<1>2. waiting[b] \in Nat
  BY <1>1
<1>3. ASSUME NEW B, Refill(B)
      PROVE  waiting[b] \in Nat /\ waiting'[b] \in Nat /\ waiting'[b] >= waiting[b]
  BY <1>1, <1>3, RefillEffect
<1>4. CASE waiting' = waiting
  BY <1>2, <1>4
<1>5. ASSUME NEW a \in Backend, FillBegin(a)
      PROVE  waiting'[b] = waiting[b]
  <2>1. waiting' = [waiting EXCEPT ![a] = @ - 1] /\ a # b
    BY <1>5 DEF FillBegin
  <2> QED
    BY <1>1, <2>1
<1>6. FillStep => waiting'[b] = waiting[b]
  BY <1>5 DEF FillStep, FillCapacity, FillQueue, FillPending, FillRows,
              FillClient, FillSend
<1>7. ASSUME NEW j \in Job, JobStep(j) PROVE waiting' = waiting \/ \E B : Refill(B)
  BY <1>7 DEF JobStep, Submitted, SubmitsUnasked, Rejected, Assigned, Generated, TailCommitted,
              TailDone, Failed, Requeued
<1>8. ASSUME NEW a \in Backend, BackendLost(a) \/ BackendBack(a) PROVE waiting' = waiting
  BY <1>8 DEF BackendLost, BackendBack
<1>9. Lapse => waiting' = waiting
  BY DEF Lapse
<1>10. ASSUME NEW s \in Socket, SocketStep(s) PROVE waiting' = waiting \/ \E B : Refill(B)
  BY <1>10 DEF SocketStep, Greet, Write, ReleaseUndelivered, Written, Disconnect, Cleanup,
               StopSender, CloseSocket
<1>11. ASSUME NEW c \in Client, PageStep(c) PROVE waiting' = waiting \/ \E B : Refill(B)
  BY <1>11 DEF PageStep, Connect, PageLosesSocket, Start, Stop, Register, Unregister, Receive,
               Ignore, Post, PageDeclines, Decline, LegacyDecline
<1>12. ASSUME NEW r \in Request, Claim(r) \/ RouteDeclines(r)
       PROVE  waiting' = waiting \/ \E B : Refill(B)
  BY <1>12 DEF Claim, RouteDeclines, Decline
<1>13. UNCHANGED <<faults, vars>> => waiting' = waiting
  BY DEF vars
<1> QED
  BY <1>2, <1>3, <1>4, <1>6, <1>7, <1>8, <1>9, <1>10, <1>11, <1>12, <1>13 DEF Next

-----------------------------------------------------------------------------
(* What stays as it is.                                                    *)

LEMMA PromptStays ==
    ASSUME Prompt, [Next]_<<faults, vars>>
    PROVE  faults' = faults /\ Prompt'
<1>1. faults' = faults
  BY DEF Next
<1> QED
  BY <1>1 DEF Prompt

LEMMA NothingLapsesStep ==
    ASSUME IInv, Prompt, NothingLapses, [Next]_<<faults, vars>>
    PROVE  NothingLapses'
<1>1. QueueTyped /\ PageTyped
  BY DEF IInv, Typed
<1>2. up' = Backend
  <2>1. UNCHANGED jobVars => up' = up
    BY DEF jobVars
  <2>2. FillStep => UNCHANGED jobVars
    BY DEF FillStep, FillBegin, FillCapacity, FillQueue, FillPending, FillRows,
              FillClient, FillSend
  <2>3. ASSUME NEW j \in Job, JobStep(j) PROVE up' = up
    BY <2>3 DEF JobStep, Submitted, SubmitsUnasked, Rejected, Assigned, Generated, TailCommitted,
                TailDone, Failed, Requeued
  <2>4. ASSUME NEW b \in Backend, BackendLost(b) \/ BackendBack(b) PROVE FALSE
    BY <2>4 DEF BackendLost, BackendBack, Prompt, NothingLapses
  <2>5. Lapse => UNCHANGED jobVars
    BY DEF Lapse
  <2>6. ASSUME NEW s \in Socket, SocketStep(s) PROVE up' = up
    BY <2>1, <2>6 DEF SocketStep, Greet, Write, ReleaseUndelivered, Written, Disconnect, Cleanup,
               StopSender, CloseSocket
  <2>7. ASSUME NEW c \in Client, PageStep(c) PROVE up' = up
    BY <2>1, <2>7 DEF PageStep, Connect, PageLosesSocket, Start, Stop, Register, Unregister, Receive,
               Ignore, Post, PageDeclines, Decline, LegacyDecline
  <2>8. ASSUME NEW r \in Request, Claim(r) \/ RouteDeclines(r) PROVE up' = up
    BY <2>1, <2>8 DEF Claim, RouteDeclines, Decline
  <2>9. UNCHANGED <<faults, vars>> => UNCHANGED jobVars
    BY DEF vars, jobVars
  <2> QED
    BY <2>1, <2>2, <2>3, <2>4, <2>5, <2>6, <2>7, <2>8, <2>9 DEF Next, NothingLapses
<1>3. lapsed' = {}
  <2>1. ~Lapse
    BY DEF Lapse, Prompt
  <2>2. UNCHANGED queueVars => lapsed' = lapsed
    BY DEF queueVars
  <2>3. ASSUME NEW c \in Client, NEW b \in Backend, Register(c, b) \/ Unregister(c, b)
        PROVE  lapsed' = lapsed
    BY <2>3 DEF Register, Unregister
  <2>4. ASSUME NEW s \in Socket, Cleanup(s) PROVE lapsed' = lapsed
    BY <2>4 DEF Cleanup
  <2>5. ASSUME NEW b \in Backend, BackendLost(b) PROVE lapsed' = lapsed
    BY <2>5 DEF BackendLost
  <2>6. FillSend => lapsed' \subseteq lapsed
    BY SendEffect DEF Sent
  <2> QED
    BY <2>1, <2>2, <2>3, <2>4, <2>5, <2>6, QueueSteps DEF NothingLapses
<1>4. ASSUME NEW c \in Client PROVE posts'[c] \in Seq({"register"} \X Backend)
  <2> DEFINE R == Seq({"register"} \X Backend)
  <2>1. posts[c] \in R
    BY DEF NothingLapses
  <2>2. \A q \in R : q # <<>> => Tail(q) \in R
    BY HeadTailProperties
  <2>3. \A q \in R, b \in Backend : Append(q, <<"register", b>>) \in R
    BY AppendProperties
  <2>4. UNCHANGED <<socketVars, pageVars>> => posts' = posts
    BY DEF pageVars
  <2>5. FillSend => posts' = posts
    BY DEF FillSend, pageVars
  <2>6. ASSUME NEW s \in Socket, SocketStep(s) PROVE posts' = posts
    BY <2>6 DEF SocketStep, Greet, Write, ReleaseUndelivered, Written, Disconnect, Cleanup,
               StopSender, CloseSocket, pageVars
  <2>7. ASSUME NEW r \in Request, Claim(r) \/ RouteDeclines(r) PROVE posts' = posts
    BY <2>7 DEF Claim, RouteDeclines, Decline
  <2>8. ASSUME NEW d \in Client, PageStep(d) PROVE posts'[c] \in R
    <3>1. ASSUME NEW s \in Socket, Connect(d, s) PROVE posts'[c] \in R
      <4>1. posts' = [posts EXCEPT ![d] = SetToSeq({<<"register", b>> : b \in on[d]})]
        BY <3>1 DEF Connect
      <4>2. on[d] \in SUBSET Backend
        BY <1>1 DEF PageTyped
      <4>3. SetToSeq({<<"register", b>> : b \in on[d]}) \in R
        BY <4>2, Registrations
      <4> QED
        BY <1>1, <2>1, <4>1, <4>3 DEF PageTyped
    <3>2. ASSUME NEW b \in Backend, Start(d, b) PROVE posts'[c] \in R
      <4>1. posts' = [posts EXCEPT ![d] = Append(@, <<"register", b>>)]
        BY <3>2 DEF Start
      <4>2. posts'[c] = posts[c] \/ posts'[c] = Append(posts[c], <<"register", b>>)
        BY <1>1, <4>1 DEF PageTyped
      <4> QED
        BY <2>1, <2>3, <4>2
    <3>3. ASSUME NEW b \in Backend, Stop(d, b) PROVE FALSE
      BY <3>3 DEF Stop, Prompt
    <3>4. PageLosesSocket(d) => posts' = posts
      BY DEF PageLosesSocket
    <3>5. ASSUME NEW r \in Request, Receive(d, r) \/ Post(d, r) PROVE posts' = posts
      BY <3>5 DEF Receive, Post
    <3>6. ASSUME posts[d] # <<>>, posts' = [posts EXCEPT ![d] = Tail(@)] PROVE posts'[c] \in R
      <4>1. posts'[c] = posts[c] \/ (c = d /\ posts'[c] = Tail(posts[c]))
        BY <1>1, <3>6 DEF PageTyped
      <4> QED
        BY <2>1, <2>2, <3>6, <4>1
    <3> QED
      BY <2>1, <2>8, <3>1, <3>2, <3>3, <3>4, <3>5, <3>6, PageSteps
  <2> QED
    BY <2>1, <2>4, <2>5, <2>6, <2>7, <2>8, PageAndSocketSteps
<1> QED
  BY <1>2, <1>3, <1>4 DEF NothingLapses

-----------------------------------------------------------------------------
(* What a step does with a row.                                            *)

\* A row goes on, ends with a call for its backend, or is dropped by a cleanup.
RowTurn(j) ==
    \/ job'[j] = job[j]
    \/ /\ job[j].stage = "free" /\ job'[j].stage = "queued" /\ "plain" \in faults
       /\ job'[j].client \in Client /\ job'[j].backend \in Backend
    \/ /\ job[j].stage = "free" /\ job'[j].stage = "claimed"
       /\ \E r \in Reservations : job'[j].client = ClientOf(r) /\ job'[j].backend = BackendOf(r)
    \/ /\ <<job[j].stage, job'[j].stage>> \in
             {<<"claimed", "queued">>, <<"queued", "running">>, <<"tail", "closing">>}
       /\ job'[j].client = job[j].client /\ job'[j].backend = job[j].backend
    \/ /\ job[j].stage = "running" /\ job'[j].stage = "tail" /\ waiting'[job[j].backend] > 0
       /\ job'[j].client = job[j].client /\ job'[j].backend = job[j].backend
       /\ \A b \in Backend : j \notin slots'[b]
    \/ job[j].stage = "closing" /\ job'[j] = NoRow
    \/ /\ job[j].stage \in {"queued", "running"} /\ job'[j] = NoRow
       /\ waiting'[job[j].backend] > 0 /\ \A b \in Backend : j \notin slots'[b]
    \/ /\ job[j].stage = "queued" /\ job'[j] = NoRow
       /\ \E s \in Socket : Cleanup(s) /\ StillAbandoned(job[j].client, s)
                            /\ sock[s].client = job[j].client

LEMMA RowSetEffect ==
    ASSUME JobTyped, NEW j \in Job, job[j].stage # "free", NEW stage \in Stage \ {"free"},
           SetRow(j, stage)
    PROVE  /\ job'[j].stage = stage /\ job'[j].client = job[j].client
           /\ job'[j].backend = job[j].backend
           /\ \A i \in Job : i # j => job'[i] = job[i]
<1>1. job[j] \in [stage : Stage \ {"free"}, client : Client, backend : Backend]
  BY RowFacts
<1>2. /\ job'[j] = [job[j] EXCEPT !.stage = stage]
      /\ \A i \in Job : i # j => job'[i] = job[i]
  BY DEF SetRow, JobTyped
<1> QED
  BY <1>1, <1>2

LEMMA DropEffect ==
    ASSUME JobTyped, NEW j \in Job, Drop(j)
    PROVE  job'[j] = NoRow /\ \A i \in Job : i # j => job'[i] = job[i]
BY DEF Drop, JobTyped

LEMMA RowTurns ==
    ASSUME IInv, Prompt, [Next]_<<faults, vars>>, NEW i \in Job
    PROVE  RowTurn(i)
<1>1. JobTyped /\ FillTyped /\ QueueTyped /\ SocketTyped /\ PageTyped /\ Connected
  BY DEF IInv, Typed
<1>2. {"queued", "running", "tail", "closing", "claimed"} \subseteq Stage \ {"free"}
  BY DEF Stage
<1>3. job' = job => RowTurn(i)
  BY DEF RowTurn
<1>4. FillStep => job' = job
  BY DEF FillStep, FillBegin, FillCapacity, FillQueue, FillPending, FillRows,
              FillClient, FillSend, jobVars
<1>5. ASSUME NEW j \in Job, JobStep(j) PROVE RowTurn(i)
  <2>1. job[j].stage # "free" => job[j].backend \in Backend /\ job[j].client \in Client
    BY <1>1, RowFacts
  <2>2. CASE Submitted(j)
    BY <1>1, <1>2, <2>2, RowSetEffect DEF Submitted, RowTurn
  <2>3. ASSUME NEW c \in Client, NEW b \in Backend, SubmitsUnasked(j, c, b) PROVE RowTurn(i)
    <3>1. job' = [job EXCEPT ![j] = [stage |-> "queued", client |-> c, backend |-> b]]
          /\ job[j] = NoRow /\ "plain" \in faults
      BY <2>3 DEF SubmitsUnasked
    <3>2. i # j => job'[i] = job[i]
      BY <1>1, <3>1 DEF JobTyped
    <3>3. job'[j] = [stage |-> "queued", client |-> c, backend |-> b] /\ NoRow.stage = "free"
      BY <1>1, <3>1, RowFacts DEF JobTyped
    <3> QED
      BY <3>1, <3>2, <3>3 DEF RowTurn
  <2>4. ~Rejected(j) /\ ~Requeued(j)
    BY DEF Rejected, Requeued, Prompt
  <2>5. CASE Assigned(j)
    BY <1>1, <1>2, <2>5, RowSetEffect DEF Assigned, RowTurn
  <2>6. CASE Generated(j)
    <3>1. job[j].stage = "running" /\ SetRow(j, "tail") /\ Refill({job[j].backend})
      BY <2>6 DEF Generated
    <3>2. waiting'[job[j].backend] > 0
      BY <1>1, <2>1, <3>1, RefillEffect
    <3>3. \A b \in Backend : j \notin slots'[b]
      BY <2>6 DEF Generated, FreeSlot
    <3> QED
      BY <1>1, <1>2, <3>1, <3>2, <3>3, RowSetEffect DEF RowTurn
  <2>7. CASE TailCommitted(j)
    BY <1>1, <1>2, <2>7, RowSetEffect DEF TailCommitted, RowTurn
  <2>8. CASE TailDone(j)
    BY <1>1, <2>8, DropEffect DEF TailDone, RowTurn
  <2>9. CASE Failed(j)
    <3>1. job[j].stage \in {"queued", "running"} /\ Drop(j) /\ Refill({job[j].backend})
      BY <2>9 DEF Failed
    <3>2. waiting'[job[j].backend] > 0
      BY <1>1, <2>1, <3>1, RefillEffect
    <3>3. \A b \in Backend : j \notin slots'[b]
      BY <2>9 DEF Failed, FreeSlot
    <3> QED
      BY <1>1, <3>1, <3>2, <3>3, DropEffect DEF RowTurn
  <2> QED
    BY <1>5, <2>2, <2>3, <2>4, <2>5, <2>6, <2>7, <2>8, <2>9 DEF JobStep
<1>6. ASSUME NEW b \in Backend, BackendLost(b) \/ BackendBack(b) PROVE job' = job
  BY <1>6 DEF BackendLost, BackendBack
<1>7. Lapse => job' = job
  BY DEF Lapse, jobVars
<1>8. ASSUME NEW s \in Socket, SocketStep(s) PROVE RowTurn(i)
  <2>1. CASE Cleanup(s)
    <3>1. CASE StillAbandoned(sock[s].client, s)
      <4> DEFINE c == sock[s].client
      <4>1. job'[i] = IF job[i].client = c /\ job[i].stage = "queued" THEN NoRow ELSE job[i]
        BY <2>1, <3>1 DEF Cleanup
      <4> QED
        BY <2>1, <3>1, <4>1 DEF RowTurn
    <3>2. CASE ~StillAbandoned(sock[s].client, s)
      BY <1>3, <2>1, <3>2 DEF Cleanup
    <3> QED
      BY <3>1, <3>2
  <2>2. CASE ~Cleanup(s)
    BY <1>3, <1>8, <2>2 DEF SocketStep, Greet, Write, ReleaseUndelivered, Written, Disconnect,
               StopSender, CloseSocket, jobVars
  <2> QED
    BY <2>1, <2>2
<1>9. ASSUME NEW c \in Client, PageStep(c) PROVE job' = job
  BY <1>9 DEF PageStep, Connect, PageLosesSocket, Start, Stop, Register, Unregister, Receive,
              Ignore, Post, PageDeclines, Decline, LegacyDecline, jobVars
<1>10. ASSUME NEW r \in Request, RouteDeclines(r) PROVE job' = job
  BY <1>10 DEF RouteDeclines, Decline, jobVars
<1>11. ASSUME NEW r \in Request, Claim(r) PROVE RowTurn(i)
  <2>1. CASE Claims(r)
    <3>1. PICK j \in Job :
             /\ job[j] = NoRow
             /\ job' = [job EXCEPT ![j] = [stage |-> "claimed", client |-> ClientOf(r),
                                           backend |-> BackendOf(r)]]
      BY <1>11, <2>1 DEF Claim
    <3>2. i # j => job'[i] = job[i]
      BY <1>1, <3>1 DEF JobTyped
    <3>3. /\ job'[j] = [stage |-> "claimed", client |-> ClientOf(r), backend |-> BackendOf(r)]
          /\ NoRow.stage = "free"
      BY <1>1, <3>1, RowFacts DEF JobTyped
    <3>4. r \in Reservations
      BY <2>1 DEF Claims
    <3> QED
      BY <3>1, <3>2, <3>3, <3>4 DEF RowTurn
  <2>2. CASE ~Claims(r)
    BY <1>3, <1>11, <2>2 DEF Claim
  <2> QED
    BY <2>1, <2>2
<1>12. UNCHANGED <<faults, vars>> => job' = job
  BY DEF vars, jobVars
<1> QED
  BY <1>3, <1>4, <1>5, <1>6, <1>7, <1>8, <1>9, <1>10, <1>11, <1>12 DEF Next

\* A slot is taken by the row that starts, and freed by the one that ends.
LEMMA SlotsTurn ==
    ASSUME IInv, Prompt, [Next]_<<faults, vars>>, NEW b \in Backend
    PROVE  \/ slots'[b] = slots[b]
           \/ \E j \in Job : /\ slots'[b] = slots[b] \cup {j}
                             /\ job[j].stage = "queued" /\ job[j].backend = b /\ job'[j].stage = "running"
           \/ \E j \in Job : /\ slots'[b] = slots[b] \ {j}
                             /\ job[j].stage \in {"queued", "running"}
                             /\ job'[j].stage # job[j].stage
                             /\ waiting'[job[j].backend] > 0
<1>1. JobTyped /\ FillTyped
  BY DEF IInv, Typed
<1>2. {"queued", "running", "tail", "closing", "claimed"} \subseteq Stage \ {"free"}
  BY DEF Stage
<1>3. FillStep => slots' = slots
  BY DEF FillStep, FillBegin, FillCapacity, FillQueue, FillPending, FillRows,
              FillClient, FillSend, jobVars
<1>4. ASSUME NEW j \in Job, Generated(j) \/ Failed(j)
      PROVE  /\ slots'[b] = slots[b] \ {j}
             /\ job[j].stage \in {"queued", "running"}
             /\ job'[j].stage # job[j].stage
             /\ waiting'[job[j].backend] > 0
  <2>1. /\ job[j].stage \in {"queued", "running"} /\ Refill({job[j].backend}) /\ FreeSlot(j)
        /\ SetRow(j, "tail") \/ Drop(j)
    BY <1>4 DEF Generated, Failed
  <2>2. job[j].backend \in Backend /\ NoRow.stage = "free" /\ job[j].stage # "free"
    BY <1>1, <2>1, RowFacts
  <2>3. waiting'[job[j].backend] > 0
    BY <1>1, <2>1, <2>2, RefillEffect
  <2>4. job'[j].stage \in {"tail", "free"}
    BY <1>1, <1>2, <2>1, <2>2, RowSetEffect, DropEffect
  <2>5. slots'[b] = slots[b] \ {j}
    BY <2>1 DEF FreeSlot
  <2> QED
    BY <2>1, <2>3, <2>4, <2>5
<1>5. ASSUME NEW j \in Job, Assigned(j)
      PROVE  \/ slots'[b] = slots[b]
             \/ /\ slots'[b] = slots[b] \cup {j}
                /\ job[j].stage = "queued" /\ job[j].backend = b /\ job'[j].stage = "running"
  <2>1. /\ job[j].stage = "queued" /\ SetRow(j, "running")
        /\ slots' = [slots EXCEPT ![job[j].backend] = @ \cup {j}]
    BY <1>5 DEF Assigned
  <2>2. job'[j].stage = "running"
    BY <1>1, <1>2, <2>1, RowSetEffect
  <2> QED
    BY <1>1, <2>1, <2>2 DEF JobTyped
<1>6. ASSUME NEW j \in Job, JobStep(j), ~Generated(j), ~Failed(j), ~Assigned(j)
      PROVE  slots' = slots
  BY <1>6 DEF JobStep, Submitted, SubmitsUnasked, Rejected, TailCommitted, TailDone, Requeued, Prompt
<1>7. ASSUME NEW a \in Backend, BackendLost(a) \/ BackendBack(a) PROVE slots' = slots
  BY <1>7 DEF BackendLost, BackendBack, Prompt
<1>8. Lapse => slots' = slots
  BY DEF Lapse, jobVars
<1>9. ASSUME NEW s \in Socket, SocketStep(s) PROVE slots' = slots
  BY <1>9 DEF SocketStep, Greet, Write, ReleaseUndelivered, Written, Disconnect, Cleanup,
               StopSender, CloseSocket, jobVars
<1>10. ASSUME NEW c \in Client, PageStep(c) PROVE slots' = slots
  BY <1>10 DEF PageStep, Connect, PageLosesSocket, Start, Stop, Register, Unregister, Receive,
               Ignore, Post, PageDeclines, Decline, LegacyDecline, jobVars
<1>11. ASSUME NEW r \in Request, Claim(r) \/ RouteDeclines(r) PROVE slots' = slots
  BY <1>11 DEF Claim, RouteDeclines, Decline, jobVars
<1>12. UNCHANGED <<faults, vars>> => slots' = slots
  BY DEF vars, jobVars
<1> QED
  BY <1>3, <1>4, <1>5, <1>6, <1>7, <1>8, <1>9, <1>10, <1>11, <1>12 DEF Next

LEMMA SlotsRunStep ==
    ASSUME IInv, Prompt, SlotsRun, [Next]_<<faults, vars>>
    PROVE  SlotsRun'
<1> SUFFICES ASSUME NEW b \in Backend, NEW j \in slots'[b]
             PROVE  job'[j].stage = "running" /\ job'[j].backend = b
  BY DEF SlotsRun
<1>1. JobTyped /\ JobTyped'
  BY JobTypedStep DEF IInv, Typed
<1>2. slots[b] \subseteq Job /\ j \in Job
  BY <1>1 DEF JobTyped
<1>3. RowTurn(j)
  BY <1>2, RowTurns
<1>4. CASE j \notin slots[b]
  <2>1. job[j].stage = "queued" /\ job[j].backend = b /\ job'[j].stage = "running"
    BY <1>4, SlotsTurn
  <2>2. NoRow.stage = "free"
    BY DEF NoRow
  <2> QED
    BY <1>3, <2>1, <2>2 DEF RowTurn
<1>5. CASE j \in slots[b]
  <2>1. job[j].stage = "running" /\ job[j].backend = b
    BY <1>5 DEF SlotsRun
  <2> QED
    BY <1>3, <2>1 DEF RowTurn
<1> QED
  BY <1>4, <1>5

-----------------------------------------------------------------------------
(* What a step does with the connections.                                  *)

SameConnection(s) ==
    sock'[s].state = sock[s].state /\ sock'[s].client = sock[s].client /\ sock'[s].greeted = sock[s].greeted
SameConnections == UNCHANGED <<owner, lastReg, live>> /\ \A s \in Socket : SameConnection(s)

\* Changes of other fields of one connection.
LEMMA FieldsKept ==
    ASSUME SocketTyped, NEW s \in Socket, NEW out, NEW inf, NEW wire,
           \/ sock' = [sock EXCEPT ![s].outbox = out]
           \/ sock' = [sock EXCEPT ![s].inflight = inf]
           \/ sock' = [sock EXCEPT ![s].wire = wire]
           \/ sock' = [sock EXCEPT ![s].outbox = out, ![s].inflight = inf, ![s].wire = wire]
    PROVE  \A t \in Socket : SameConnection(t)
<1>1. sock[s] \in SocketRecord /\ sock \in [Socket -> SocketRecord]
  BY DEF SocketTyped
<1>2. \A t \in Socket : t # s => sock'[t] = sock[t]
  BY <1>1
<1>3. /\ sock'[s].state = sock[s].state /\ sock'[s].client = sock[s].client
      /\ sock'[s].greeted = sock[s].greeted
  BY <1>1 DEF SocketRecord
<1> QED
  BY <1>2, <1>3 DEF SameConnection

LEMMA GreetTurn ==
    ASSUME SocketTyped, NEW s \in Socket, Greet(s)
    PROVE  /\ sock[s].state = "open" /\ ~sock[s].greeted
           /\ sock'[s].state = "open" /\ sock'[s].client = sock[s].client /\ sock'[s].greeted
           /\ \A t \in Socket : t # s => sock'[t] = sock[t]
           /\ owner' = [owner EXCEPT ![sock[s].client] = s]
           /\ lastReg' = [lastReg EXCEPT ![sock[s].client] = s]
           /\ UNCHANGED pageVars
<1>1. sock[s] \in SocketRecord /\ sock' = [sock EXCEPT ![s].greeted = TRUE]
  BY DEF SocketTyped, Greet
<1> QED
  BY <1>1 DEF Greet, SocketTyped, SocketRecord

LEMMA StateTurn ==
    ASSUME SocketTyped, NEW s \in Socket, NEW state, sock' = [sock EXCEPT ![s].state = state]
    PROVE  /\ sock'[s].state = state /\ sock'[s].client = sock[s].client
           /\ \A t \in Socket : t # s => sock'[t] = sock[t]
BY DEF SocketTyped, SocketRecord

\* A step leaves the connections alone, or is one of seven.
LEMMA ConnectionSteps ==
    ASSUME IInv, [Next]_<<faults, vars>>
    PROVE  \/ SameConnections
           \/ \E s \in Socket : Greet(s) \/ Disconnect(s) \/ Cleanup(s) \/ StopSender(s) \/ CloseSocket(s)
           \/ \E c \in Client : PageLosesSocket(c) \/ \E s \in Socket : Connect(c, s)
<1>1. SocketTyped /\ PageTyped
  BY DEF IInv, Typed
<1>2. UNCHANGED <<socketVars, live>> => SameConnections
  BY DEF SameConnections, SameConnection, socketVars
<1>3. UNCHANGED <<socketVars, pageVars>> => UNCHANGED <<socketVars, live>>
  BY DEF pageVars
<1>4. CASE FillSend
  <2>1. PICK new : Sent(new)
    BY <1>4, SendEffect
  <2>2. \A s \in Socket : SameConnection(s)
    <3> TAKE s \in Socket
    <3>1. sock[s] \in SocketRecord
      BY <1>1 DEF SocketTyped
    <3>2. sock'[s] = [sock[s] EXCEPT !.outbox = @ \cup {r \in ToSet(new) : owner[ClientOf(r)] = s}]
      BY <2>1 DEF Sent
    <3> QED
      BY <3>1, <3>2 DEF SameConnection, SocketRecord
  <2> QED
    BY <1>4, <2>2 DEF SameConnections, FillSend, pageVars
<1>5. ASSUME NEW s \in Socket, SocketStep(s), ~Greet(s), ~Disconnect(s), ~Cleanup(s),
             ~StopSender(s), ~CloseSocket(s)
      PROVE  SameConnections
  <2>1. ASSUME NEW r, Write(s, r) PROVE SameConnections
    <3> DEFINE wire == IF live[sock[s].client] = s THEN sock[s].wire \cup {r} ELSE sock[s].wire
    <3>1. sock' = [sock EXCEPT ![s].outbox = sock[s].outbox \ {r}, ![s].inflight = r, ![s].wire = wire]
      BY <1>1, <2>1 DEF Write, SocketTyped, SocketRecord
    <3> HIDE DEF wire
    <3>2. \A t \in Socket : SameConnection(t)
      <4> DEFINE out == sock[s].outbox \ {r}
      <4>1. sock' = [sock EXCEPT ![s].outbox = out, ![s].inflight = r, ![s].wire = wire]
        BY <3>1
      <4> HIDE DEF out
      <4> QED
        BY <1>1, <4>1, FieldsKept
    <3> QED
      BY <2>1, <3>2 DEF Write, SameConnections, pageVars
  <2>2. ASSUME NEW r, ReleaseUndelivered(s, r) PROVE SameConnections
    <3>1. sock' = [sock EXCEPT ![s].outbox = sock[s].outbox \ {r}]
      BY <2>2 DEF ReleaseUndelivered
    <3> QED
      BY <1>1, <2>2, <3>1, FieldsKept DEF ReleaseUndelivered, SameConnections, pageVars
  <2>3. CASE Written(s)
    BY <1>1, <2>3, FieldsKept DEF Written, SameConnections, pageVars
  <2> QED
    BY <1>5, <2>1, <2>2, <2>3 DEF SocketStep
<1>6. ASSUME NEW c \in Client, PageStep(c), ~PageLosesSocket(c), \A s \in Socket : ~Connect(c, s)
      PROVE  SameConnections
  <2>1. ASSUME NEW r \in Request, Receive(c, r) PROVE SameConnections
    <3>1. sock' = [sock EXCEPT ![live[c]].wire = sock[live[c]].wire \ {r}] /\ live[c] \in Socket
      BY <1>1, <2>1 DEF Receive, PageTyped
    <3> QED
      BY <1>1, <2>1, <3>1, FieldsKept DEF Receive, SameConnections
  <2>2. (\E r \in Request : Post(c, r)) \/ (\E b \in Backend : Start(c, b) \/ Stop(c, b))
           => UNCHANGED <<socketVars, live>>
    BY DEF Post, Start, Stop
  <2> QED
    BY <1>2, <1>6, <2>1, <2>2, PageSteps
<1>7. ASSUME NEW r \in Request, Claim(r) \/ RouteDeclines(r) PROVE UNCHANGED <<socketVars, live>>
  BY <1>7 DEF Claim, RouteDeclines, Decline
<1> QED
  BY <1>2, <1>3, <1>4, <1>5, <1>6, <1>7, PageAndSocketSteps

\* Nobody stops forever mode.
LEMMA OnGrows ==
    ASSUME IInv, Prompt, [Next]_<<faults, vars>>, NEW c \in Client
    PROVE  on[c] \subseteq on'[c]
<1>1. PageTyped
  BY DEF IInv, Typed
<1>2. UNCHANGED <<socketVars, pageVars>> \/ FillSend => on' = on
  BY DEF pageVars, FillSend
<1>3. ASSUME NEW s \in Socket, SocketStep(s) PROVE on' = on
  BY <1>3 DEF SocketStep, Greet, Write, ReleaseUndelivered, Written, Disconnect, Cleanup,
              StopSender, CloseSocket, pageVars
<1>4. ASSUME NEW d \in Client, PageStep(d) PROVE on[c] \subseteq on'[c]
  <2>1. ASSUME NEW b \in Backend, Start(d, b) PROVE on[c] \subseteq on'[c]
    <3>1. on' = [on EXCEPT ![d] = @ \cup {b}]
      BY <2>1 DEF Start
    <3> QED
      BY <1>1, <3>1 DEF PageTyped
  <2>2. ASSUME NEW b \in Backend, Stop(d, b) PROVE FALSE
    BY <2>2 DEF Stop, Prompt
  <2>3. (\E s \in Socket : Connect(d, s)) \/ PageLosesSocket(d) \/ (\E r \in Request : Receive(d, r) \/ Post(d, r))
           => on' = on
    BY DEF Connect, PageLosesSocket, Receive, Post
  <2> QED
    BY <1>4, <2>1, <2>2, <2>3, PageSteps
<1>5. ASSUME NEW r \in Request, Claim(r) \/ RouteDeclines(r) PROVE on' = on
  BY <1>5 DEF Claim, RouteDeclines, Decline
<1> QED
  BY <1>2, <1>3, <1>4, <1>5, PageAndSocketSteps

\* A page without a connection starts nothing.
LEMMA PostsTurn ==
    ASSUME IInv, Prompt, [Next]_<<faults, vars>>, NEW c \in Client, posts'[c] # <<>>
    PROVE  posts[c] # <<>> \/ live'[c] # None
<1>1. PageTyped /\ SocketTyped
  BY DEF IInv, Typed
<1>2. UNCHANGED <<socketVars, pageVars>> \/ FillSend => posts' = posts
  BY DEF pageVars, FillSend
<1>3. ASSUME NEW s \in Socket, SocketStep(s) PROVE posts' = posts
  BY <1>3 DEF SocketStep, Greet, Write, ReleaseUndelivered, Written, Disconnect, Cleanup,
              StopSender, CloseSocket, pageVars
<1>4. ASSUME NEW d \in Client, PageStep(d), d # c PROVE posts'[c] = posts[c]
  BY <1>1, <1>4 DEF PageStep, Connect, PageLosesSocket, Start, Stop, Register, Unregister, Receive,
               Ignore, Post, PageDeclines, Decline, LegacyDecline, PageTyped
<1>5. ASSUME PageStep(c) PROVE posts[c] # <<>> \/ live'[c] # None
  <2>1. ASSUME NEW s \in Socket, Connect(c, s) PROVE live'[c] # None
    <3>1. live'[c] = s
      BY <1>1, <2>1, ConnectEffect DEF PageTyped
    <3> QED
      BY <3>1, ForeverAssumption
  <2>2. ASSUME NEW b \in Backend, Start(c, b) PROVE live'[c] # None
    BY <2>2 DEF Start
  <2>3. ASSUME NEW b \in Backend, Stop(c, b) PROVE FALSE
    BY <2>3 DEF Stop, Prompt
  <2>4. PageLosesSocket(c) \/ (\E r \in Request : Receive(c, r) \/ Post(c, r)) => posts' = posts
    BY DEF PageLosesSocket, Receive, Post
  <2> QED
    BY <1>5, <2>1, <2>2, <2>3, <2>4, PageSteps
<1>6. ASSUME NEW r \in Request, Claim(r) \/ RouteDeclines(r) PROVE posts' = posts
  BY <1>6 DEF Claim, RouteDeclines, Decline
<1> QED
  BY <1>2, <1>3, <1>4, <1>5, <1>6, PageAndSocketSteps

LEMMA OneConnectionStep ==
    ASSUME IInv, Prompt, OneConnection, [Next]_<<faults, vars>>
    PROVE  OneConnection'
<1>1. SocketTyped /\ PageTyped /\ Connected
  BY DEF IInv, Typed
<1>2. faults' = faults /\ \A c \in Client : on[c] # {} => on'[c] # {}
  BY PromptStays, OnGrows
<1>3. \A s \in Socket : sock[s].state # "free" => sock[s].client \in Client
  BY <1>1 DEF Connected
<1>4. \A c \in Client : /\ owner[c] \in Socket \cup {None} /\ live[c] \in Socket \cup {None}
                        /\ live[c] # None => sock[live[c]].state = "open" /\ sock[live[c]].client = c
                        /\ owner[c] # None => sock[owner[c]].state = "open" /\ sock[owner[c]].client = c
  BY <1>1 DEF SocketTyped, PageTyped, Connected
<1>5. None \notin Socket
  BY ForeverAssumption
<1>6. ASSUME \A c \in Client :
                live'[c] = live[c] \/ live'[c] # None \/ ("depart" \in faults /\ on'[c] # {})
      PROVE  \A c \in Client :
                live'[c] = None /\ ("depart" \in faults' => on'[c] = {}) => posts'[c] = <<>>
  BY <1>2, <1>6, PostsTurn DEF OneConnection
<1>7. CASE SameConnections
  BY <1>2, <1>3, <1>6, <1>7 DEF SameConnections, SameConnection, OneConnection
<1>8. ASSUME NEW s \in Socket, Greet(s) PROVE OneConnection'
  <2>1. /\ sock[s].state = "open" /\ sock'[s].state = "open" /\ sock'[s].client = sock[s].client
        /\ \A t \in Socket : t # s => sock'[t] = sock[t]
        /\ owner' = [owner EXCEPT ![sock[s].client] = s] /\ live' = live
    BY <1>1, <1>8, GreetTurn DEF pageVars
  <2>2. \A c \in Client : owner'[c] = IF c = sock[s].client THEN s ELSE owner[c]
    BY <1>1, <2>1 DEF SocketTyped
  <2>3. \A t \in Socket : t # s /\ sock[t].state # "free" => sock[t].client # sock[s].client
    BY <2>1 DEF OneConnection
  <2> QED
    BY <1>2, <1>3, <1>6, <2>1, <2>2, <2>3 DEF OneConnection
<1>9. ASSUME NEW s \in Socket, Disconnect(s) PROVE OneConnection'
  <2>1. /\ sock[s].state = "open" /\ live[sock[s].client] # s /\ live' = live
        /\ owner' = [owner EXCEPT ![sock[s].client] = IF @ = s THEN None ELSE @]
        /\ \E state \in {"cleanup", "stop"} : sock' = [sock EXCEPT ![s].state = state]
    BY <1>9 DEF Disconnect, pageVars
  <2>2. /\ sock'[s].state \in {"cleanup", "stop"} /\ sock'[s].client = sock[s].client
        /\ \A t \in Socket : t # s => sock'[t] = sock[t]
    BY <1>1, <2>1, StateTurn
  <2>3. \A c \in Client : owner'[c] = owner[c] \/ owner[c] = s
    BY <1>1, <2>1 DEF SocketTyped
  <2> QED
    BY <1>2, <1>3, <1>6, <2>1, <2>2, <2>3 DEF OneConnection
<1>10. ASSUME NEW s \in Socket, Cleanup(s) \/ StopSender(s) \/ CloseSocket(s) PROVE OneConnection'
  <2>1. /\ sock[s].state \in {"cleanup", "stop", "release"} /\ sock'[s].state # "open"
        /\ sock'[s].state = "free" \/ sock'[s].client = sock[s].client
        /\ \A t \in Socket : t # s => sock'[t] = sock[t]
        /\ owner' = owner /\ live' = live
    <3>1. CASE Cleanup(s)
      BY <1>1, <3>1, StateTurn DEF Cleanup, pageVars
    <3>2. CASE StopSender(s)
      BY <1>1, <3>2, StopSenderEffect DEF OnlySocket, pageVars
    <3>3. CASE CloseSocket(s)
      BY <1>1, <3>3, CloseEffect, FreshSocket DEF OnlySocket, pageVars
    <3> QED
      BY <1>10, <3>1, <3>2, <3>3
  <2> QED
    BY <1>2, <1>3, <1>6, <2>1 DEF OneConnection
<1>11. ASSUME NEW c \in Client, PageLosesSocket(c) PROVE OneConnection'
  <2>1. /\ "depart" \in faults /\ on[c] # {} /\ live[c] \in Socket
        /\ live' = [live EXCEPT ![c] = None] /\ owner' = owner
        /\ sock' = [sock EXCEPT ![live[c]].wire = {}]
    BY <1>1, <1>11 DEF PageLosesSocket, Prompt, PageTyped
  <2>2. \A t \in Socket : SameConnection(t)
    BY <1>1, <2>1, FieldsKept
  <2>3. \A d \in Client : live'[d] = IF d = c THEN None ELSE live[d]
    BY <1>1, <2>1 DEF PageTyped
  <2> QED
    BY <1>2, <1>3, <1>6, <2>1, <2>2, <2>3 DEF OneConnection, SameConnection
<1>12. ASSUME NEW c \in Client, NEW s \in Socket, Connect(c, s) PROVE OneConnection'
  <2>1. /\ live[c] = None /\ sock[s] = NoSocket /\ sock[s].state = "free"
        /\ sock' = [sock EXCEPT ![s] = [NoSocket EXCEPT !.state = "open", !.client = c]]
        /\ live' = [live EXCEPT ![c] = s] /\ owner' = owner
    BY <1>12, FreshSocket DEF Connect
  <2>2. /\ sock'[s].state = "open" /\ sock'[s].client = c /\ ~sock'[s].greeted
        /\ \A t \in Socket : t # s => sock'[t] = sock[t]
    BY <1>1, <2>1 DEF SocketTyped, NoSocket
  <2>3. \A d \in Client : live'[d] = IF d = c THEN s ELSE live[d]
    BY <1>1, <2>1 DEF PageTyped
  <2>4. \A t \in Socket : sock[t].state # "free" => sock[t].client # c
    <3> SUFFICES ASSUME NEW t \in Socket, sock[t].state # "free", sock[t].client = c PROVE FALSE
      OBVIOUS
    <3>1. "depart" \in faults /\ on[c] # {}
      BY <1>5, <2>1 DEF OneConnection
    <3>2. "return" \in faults \/ on[c] = {}
      BY <1>12 DEF Connect
    <3> QED
      BY <3>1, <3>2 DEF Prompt
  <2> QED
    BY <1>2, <1>3, <1>5, <1>6, <2>1, <2>2, <2>3, <2>4 DEF OneConnection
<1> QED
  BY <1>7, <1>8, <1>9, <1>10, <1>11, <1>12, ConnectionSteps

\* A page that left does not come back.
LEMMA GoneStays ==
    ASSUME IInv, Prompt, OneConnection, [Next]_<<faults, vars>>, "depart" \in faults,
           NEW c \in Client, Gone(c)
    PROVE  Gone(c)'
<1>1. SocketTyped /\ PageTyped /\ Connected
  BY DEF IInv, Typed
<1>2. on'[c] # {}
  BY OnGrows DEF Gone
<1>3. None \notin Client /\ None \notin Socket
  BY ForeverAssumption
<1>4. \A s \in Socket : sock[s].state # "free" => sock[s].client \in Client
  BY <1>1 DEF Connected
<1>5. CASE SameConnections
  BY <1>2, <1>5 DEF SameConnections, SameConnection, Gone
<1>6. ASSUME NEW s \in Socket, Greet(s) PROVE Gone(c)'
  <2>1. /\ sock[s].state = "open" /\ sock'[s].client = sock[s].client
        /\ \A t \in Socket : t # s => sock'[t] = sock[t]
        /\ owner' = [owner EXCEPT ![sock[s].client] = s] /\ live' = live
    BY <1>1, <1>6, GreetTurn DEF pageVars
  <2>2. sock[s].client # c
    BY <2>1 DEF Gone
  <2>3. owner'[c] = owner[c]
    BY <1>1, <2>1, <2>2 DEF SocketTyped
  <2> QED
    BY <1>2, <2>1, <2>2, <2>3 DEF Gone
<1>7. ASSUME NEW s \in Socket, Disconnect(s) PROVE Gone(c)'
  <2>1. /\ sock[s].state = "open" /\ live' = live
        /\ owner' = [owner EXCEPT ![sock[s].client] = IF @ = s THEN None ELSE @]
        /\ \E state : sock' = [sock EXCEPT ![s].state = state]
    BY <1>7 DEF Disconnect, pageVars
  <2>2. sock'[s].client = sock[s].client /\ \A t \in Socket : t # s => sock'[t] = sock[t]
    BY <1>1, <2>1, StateTurn
  <2>3. owner'[c] = None
    BY <1>1, <2>1 DEF SocketTyped, Gone
  <2> QED
    BY <1>2, <2>1, <2>2, <2>3 DEF Gone
<1>8. ASSUME NEW s \in Socket, Cleanup(s) \/ StopSender(s) \/ CloseSocket(s) PROVE Gone(c)'
  <2>1. /\ \/ sock'[s].client = None
           \/ sock'[s].client = sock[s].client /\ sock'[s].state \in {"stop", "release"}
        /\ \A t \in Socket : t # s => sock'[t] = sock[t]
        /\ owner' = owner /\ live' = live
    <3>1. CASE Cleanup(s)
      BY <1>1, <3>1, StateTurn DEF Cleanup, pageVars
    <3>2. CASE StopSender(s)
      BY <1>1, <3>2, StopSenderEffect DEF OnlySocket, pageVars
    <3>3. CASE CloseSocket(s)
      BY <1>1, <3>3, CloseEffect, FreshSocket DEF OnlySocket, pageVars
    <3> QED
      BY <1>8, <3>1, <3>2, <3>3
  <2> QED
    BY <1>2, <1>3, <2>1 DEF Gone
<1>9. ASSUME NEW d \in Client, PageLosesSocket(d) PROVE Gone(c)'
  <2>1. /\ live[d] \in Socket /\ live' = [live EXCEPT ![d] = None] /\ owner' = owner
        /\ sock' = [sock EXCEPT ![live[d]].wire = {}]
    BY <1>1, <1>9 DEF PageLosesSocket, PageTyped
  <2>2. \A t \in Socket : SameConnection(t)
    BY <1>1, <2>1, FieldsKept
  <2>3. live'[c] = None
    BY <1>1, <2>1 DEF PageTyped, Gone
  <2> QED
    BY <1>2, <2>1, <2>2, <2>3 DEF Gone, SameConnection
<1>10. ASSUME NEW d \in Client, NEW s \in Socket, Connect(d, s) PROVE Gone(c)'
  <2>1. on[d] = {}
    BY <1>10 DEF Connect, Prompt
  <2>2. d # c
    BY <2>1 DEF Gone
  <2>3. OnlySocket(s) /\ sock'[s].client = d /\ owner' = owner /\ live' = [live EXCEPT ![d] = s]
    BY <1>1, <1>10, ConnectEffect
  <2>4. live'[c] = live[c]
    BY <1>1, <2>2, <2>3 DEF PageTyped
  <2> QED
    BY <1>2, <2>2, <2>3, <2>4 DEF Gone, OnlySocket
<1> QED
  BY <1>5, <1>6, <1>7, <1>8, <1>9, <1>10, ConnectionSteps

-----------------------------------------------------------------------------
(* The registered pages.                                                   *)

\* A page is registered by its POST and forgotten by a cleanup: each asks for a
\* dispatch.
LEMMA ForeverTurn ==
    ASSUME IInv, Prompt, NothingLapses, [Next]_<<faults, vars>>, NEW b \in Backend
    PROVE  \/ forever'[b] = forever[b]
           \/ \E c \in Client : /\ Register(c, b)
                                /\ forever'[b] = forever[b] \cup {c} /\ waiting'[b] > 0
           \/ \E s \in Socket : /\ Cleanup(s) /\ StillAbandoned(sock[s].client, s)
                                /\ forever'[b] = forever[b] \ {sock[s].client}
                                /\ sock[s].client \in forever[b] => waiting'[b] > 0
<1>1. QueueTyped /\ FillTyped /\ PageTyped
  BY DEF IInv, Typed
<1>2. UNCHANGED queueVars \/ FillSend \/ Lapse => forever' = forever
  BY DEF queueVars, FillSend, Lapse
<1>3. ASSUME NEW c \in Client, NEW a \in Backend, Register(c, a)
      PROVE  forever'[b] = forever[b]
               \/ (a = b /\ forever'[b] = forever[b] \cup {c} /\ waiting'[b] > 0)
  <2>1. forever' = [forever EXCEPT ![a] = @ \cup {c}] /\ Refill({a})
    BY <1>3 DEF Register
  <2>2. waiting'[a] > 0
    BY <1>1, <2>1, RefillEffect
  <2> QED
    BY <1>1, <2>1, <2>2 DEF QueueTyped
<1>4. ASSUME NEW c \in Client, NEW a \in Backend, Unregister(c, a) PROVE FALSE
  <2>1. posts[c] \in Seq({"register"} \X Backend) /\ posts[c] # <<>>
        /\ Head(posts[c]) = <<"unregister", a>>
    BY <1>4 DEF Unregister, NothingLapses
  <2>2. Head(posts[c]) \in {"register"} \X Backend
    BY <2>1, HeadTailProperties
  <2> QED
    BY <2>1, <2>2
<1>5. ASSUME NEW s \in Socket, Cleanup(s)
      PROVE  \/ forever'[b] = forever[b]
             \/ /\ StillAbandoned(sock[s].client, s)
                /\ forever'[b] = forever[b] \ {sock[s].client}
                /\ sock[s].client \in forever[b] => waiting'[b] > 0
  <2> DEFINE c == sock[s].client
             left == {a \in Backend : c \in forever[a]}
             B == left \cup {BackendOf(r) : r \in OwnedBy(c, Backend)}
  <2>1. CASE StillAbandoned(c, s)
    <3>1. Refill(B) /\ forever' = [a \in Backend |-> forever[a] \ {c}]
      BY <1>5, <2>1 DEF Cleanup
    <3>2. b \in B => waiting'[b] > 0
      BY <1>1, <3>1, RefillEffect
    <3> QED
      BY <2>1, <3>1, <3>2
  <2>2. CASE ~StillAbandoned(c, s)
    BY <1>5, <2>2 DEF Cleanup
  <2> QED
    BY <2>1, <2>2
<1>6. ASSUME NEW a \in Backend, BackendLost(a) PROVE forever' = forever
  BY <1>6 DEF BackendLost
<1> QED
  BY <1>2, <1>3, <1>4, <1>5, <1>6, QueueSteps

LEMMA AttendedStep ==
    ASSUME IInv, Prompt, NothingLapses, OneConnection, Attended, [Next]_<<faults, vars>>
    PROVE  Attended'
<1> SUFFICES ASSUME NEW b \in Backend, NEW c \in forever'[b], owner'[c] = None
             PROVE  \/ CleaningUp(c)'
                    \/ "depart" \notin faults /\ live'[c] # None /\ ~sock'[live'[c]].greeted
  BY PromptStays DEF Attended
<1>1. SocketTyped /\ PageTyped /\ Connected /\ QueueTyped'
  BY QueueTypedStep DEF IInv, Typed
<1>2. c \in Client /\ None \notin Socket
  BY <1>1, ForeverAssumption DEF QueueTyped
<1>3. \A s \in Socket : sock[s].state \in {"cleanup", "stop", "release"} => "depart" \in faults
  BY DEF OneConnection
<1>4. CASE c \notin forever[b]
  <2>1. Register(c, b)
    BY <1>4, ForeverTurn
  <2>2. posts[c] # <<>> /\ InOrder(c) /\ UNCHANGED <<owner, lastReg, sock, live>>
    BY <2>1 DEF Register, socketVars
  <2>3. "late" \in faults /\ "depart" \notin faults
    BY <2>2 DEF InOrder, Prompt
  <2>4. live[c] # None
    BY <1>2, <2>2, <2>3 DEF OneConnection
  <2>5. live[c] \in Socket /\ sock[live[c]].state = "open" /\ sock[live[c]].client = c
    BY <1>1, <1>2, <2>4 DEF PageTyped, Connected
  <2>6. ~sock[live[c]].greeted
    BY <2>2, <2>4, <2>5 DEF OneConnection
  <2> QED
    BY <2>2, <2>3, <2>4, <2>6
<1>5. CASE c \in forever[b]
  <2>1. lastReg[c] \in Socket \cup {None} /\ live[c] \in Socket \cup {None}
    BY <1>1, <1>2 DEF SocketTyped, PageTyped
  <2>2. owner[c] = None =>
          \/ CleaningUp(c)
          \/ "depart" \notin faults /\ live[c] # None /\ ~sock[live[c]].greeted
    BY <1>5 DEF Attended
  <2>3. CASE SameConnections
    BY <2>1, <2>2, <2>3 DEF SameConnections, SameConnection, CleaningUp
  <2>4. ASSUME NEW s \in Socket, Greet(s)
        PROVE  CleaningUp(c)' \/ ("depart" \notin faults /\ live'[c] # None /\ ~sock'[live'[c]].greeted)
    <3>1. /\ sock[s].state = "open" /\ \A t \in Socket : t # s => sock'[t] = sock[t]
          /\ owner' = [owner EXCEPT ![sock[s].client] = s]
          /\ lastReg' = [lastReg EXCEPT ![sock[s].client] = s] /\ live' = live
      BY <1>1, <2>4, GreetTurn DEF pageVars
    <3>2. c # sock[s].client /\ owner'[c] = owner[c] /\ lastReg'[c] = lastReg[c]
      BY <1>1, <1>2, <3>1 DEF SocketTyped
    <3>3. live[c] # s /\ (CleaningUp(c) => lastReg[c] # s)
      BY <1>1, <1>2, <3>1, <3>2 DEF Connected, CleaningUp
    <3> QED
      BY <2>1, <2>2, <3>1, <3>2, <3>3 DEF CleaningUp
  <2>5. ASSUME NEW s \in Socket, Disconnect(s) PROVE CleaningUp(c)'
    <3>1. /\ sock[s].state = "open" /\ live[sock[s].client] # s
          /\ sock' = [sock EXCEPT ![s].state = IF owner[sock[s].client] = s THEN "cleanup" ELSE "stop"]
          /\ owner' = [owner EXCEPT ![sock[s].client] = IF @ = s THEN None ELSE @] /\ lastReg' = lastReg
      BY <2>5 DEF Disconnect
    <3>2. /\ owner[sock[s].client] = s => sock'[s].state = "cleanup"
          /\ sock'[s].client = sock[s].client
          /\ \A t \in Socket : t # s => sock'[t] = sock[t]
      BY <1>1, <3>1, StateTurn
    <3>3. "depart" \in faults
      BY <3>1 DEF OneConnection
    <3>4. CASE owner[c] = None
      BY <2>1, <2>2, <3>1, <3>2, <3>3, <3>4 DEF CleaningUp
    <3>5. CASE owner[c] # None
      <4>1. owner[c] = s /\ sock[s].client = c
        BY <1>1, <1>2, <3>1, <3>5 DEF SocketTyped
      <4>2. lastReg[c] = s
        BY <1>1, <1>2, <3>5, <4>1 DEF Connected
      <4> QED
        BY <1>2, <3>1, <3>2, <4>1, <4>2 DEF CleaningUp
    <3> QED
      BY <3>4, <3>5
  <2>6. ASSUME NEW s \in Socket, Cleanup(s) PROVE CleaningUp(c)'
    <3>1. /\ sock[s].state = "cleanup" /\ owner' = owner /\ lastReg' = lastReg
          /\ sock' = [sock EXCEPT ![s].state = "stop"]
      BY <2>6 DEF Cleanup
    <3>2. \A t \in Socket : t # s => sock'[t] = sock[t]
      BY <1>1, <3>1, StateTurn
    <3>3. CleaningUp(c)
      BY <1>3, <2>2, <3>1
    <3>4. lastReg[c] # s
      <4> SUFFICES ASSUME lastReg[c] = s PROVE FALSE
        OBVIOUS
      <4>1. StillAbandoned(c, s) /\ sock[s].client = c
        BY <3>1, <3>3 DEF CleaningUp, StillAbandoned
      <4>2. forever' = [a \in Backend |-> forever[a] \ {c}]
        BY <2>6, <4>1 DEF Cleanup
      <4> QED
        BY <4>2
    <3> QED
      BY <2>1, <3>1, <3>2, <3>3, <3>4 DEF CleaningUp
  <2>7. ASSUME NEW s \in Socket, StopSender(s) \/ CloseSocket(s) PROVE CleaningUp(c)'
    <3>1. /\ sock[s].state \in {"stop", "release"} /\ owner' = owner
          /\ \A t \in Socket : t # s => sock'[t] = sock[t]
          /\ lastReg' = lastReg \/ lastReg' = [lastReg EXCEPT ![sock[s].client] =
                                       IF StillAbandoned(sock[s].client, s) THEN None ELSE @]
      BY <1>1, <2>7, StopSenderEffect, CloseEffect DEF OnlySocket, StopSender
    <3>2. CleaningUp(c) /\ lastReg[c] # s
      BY <1>3, <2>2, <3>1 DEF CleaningUp
    <3>3. lastReg'[c] = lastReg[c]
      BY <1>1, <1>2, <3>1, <3>2 DEF SocketTyped, StillAbandoned
    <3> QED
      BY <2>1, <3>1, <3>2, <3>3 DEF CleaningUp
  <2>8. ASSUME NEW d \in Client, PageLosesSocket(d) PROVE CleaningUp(c)'
    <3>1. /\ live[d] \in Socket /\ "depart" \in faults /\ UNCHANGED <<owner, lastReg>>
          /\ sock' = [sock EXCEPT ![live[d]].wire = {}]
      BY <1>1, <2>8 DEF PageLosesSocket, PageTyped
    <3>2. \A t \in Socket : SameConnection(t)
      BY <1>1, <3>1, FieldsKept
    <3> QED
      BY <2>1, <2>2, <3>1, <3>2 DEF CleaningUp, SameConnection
  <2>9. ASSUME NEW d \in Client, NEW s \in Socket, Connect(d, s)
        PROVE  CleaningUp(c)' \/ ("depart" \notin faults /\ live'[c] # None /\ ~sock'[live'[c]].greeted)
    <3>1. /\ live[d] = None /\ sock[s].state = "free" /\ UNCHANGED <<owner, lastReg>>
          /\ \A t \in Socket : t # s => sock'[t] = sock[t]
          /\ live' = [live EXCEPT ![d] = s]
      <4>1. OnlySocket(s) /\ sock[s] = NoSocket
        BY <1>1, <2>9, ConnectEffect
      <4>2. sock[s].state = "free"
        BY <4>1, FreshSocket
      <4> QED
        BY <2>9, <4>1, <4>2 DEF OnlySocket, Connect
    <3>2. live[c] # None => live[c] # s /\ live'[c] = live[c]
      BY <1>1, <1>2, <3>1 DEF Connected, PageTyped
    <3>3. CleaningUp(c) => lastReg[c] # s
      BY <3>1 DEF CleaningUp
    <3> QED
      BY <2>1, <2>2, <3>1, <3>2, <3>3 DEF CleaningUp
  <2> QED
    BY <2>3, <2>4, <2>5, <2>6, <2>7, <2>8, <2>9, ConnectionSteps
<1> QED
  BY <1>4, <1>5

-----------------------------------------------------------------------------
(* Requests that are made and released.                                    *)

\* A request goes with a dispatch asked for its backend, or into a row.
Settled(r) ==
    \/ r \in Reservations'
    \/ waiting'[BackendOf(r)] > 0
    \/ \E j \in Job : job'[j].stage = "claimed" /\ job'[j].client = ClientOf(r)
                      /\ job'[j].backend = BackendOf(r)

LEMMA RequestsSettle ==
    ASSUME IInv, Prompt, NothingLapses, [Next]_<<faults, vars>>, NEW r \in Reservations
    PROVE  Settled(r)
<1>1. QueueTyped /\ FillTyped /\ JobTyped /\ PageTyped
  BY DEF IInv, Typed
<1>2. r \in Request /\ ClientOf(r) \in Client /\ BackendOf(r) \in Backend
  BY <1>1, Requests DEF Reservations, QueueTyped, ToSet
<1>3. Expired = {}
  BY DEF Expired, NothingLapses
<1>4. reserved' = reserved => Settled(r)
  BY DEF Settled, Reservations
<1>5. ASSUME NEW gone, Release(gone), r \notin gone PROVE Settled(r)
  BY <1>1, <1>5, ReleaseEffect DEF Settled
<1>6. ASSUME NEW B, Refill(B), BackendOf(r) \in B PROVE Settled(r)
  BY <1>1, <1>2, <1>6, RefillEffect DEF Settled
<1>7. ASSUME FillStep PROVE Settled(r)
  <2>1. ASSUME NEW b \in Backend, FillBegin(b) PROVE Settled(r)
    BY <1>3, <1>5, <2>1 DEF FillBegin
  <2>2. CASE FillSend
    <3>1. PICK new : Sent(new)
      BY <2>2, SendEffect
    <3> QED
      BY <1>1, <3>1, SentReservations DEF Settled
  <2> QED
    BY <1>4, <1>7, <2>1, <2>2 DEF FillStep, FillCapacity, FillQueue, FillPending, FillRows,
              FillClient, queueVars
<1>8. ASSUME NEW j \in Job, JobStep(j) PROVE reserved' = reserved
  BY <1>8 DEF JobStep, Submitted, SubmitsUnasked, Rejected, Assigned, Generated, TailCommitted,
              TailDone, Failed, Requeued, queueVars
<1>9. ASSUME NEW b \in Backend, BackendLost(b) \/ BackendBack(b) PROVE reserved' = reserved
  BY <1>9 DEF BackendLost, BackendBack, queueVars
<1>10. Lapse => reserved' = reserved
  BY DEF Lapse
<1>11. ASSUME NEW s \in Socket, SocketStep(s) PROVE Settled(r)
  <2>1. ASSUME NEW q, ReleaseUndelivered(s, q) PROVE Settled(r)
    <3>1. Release({q}) /\ (Claims(q) => Refill({BackendOf(q)}))
      BY <1>3, <2>1 DEF ReleaseUndelivered
    <3>2. r = q => Claims(q)
      BY DEF Claims, NothingLapses
    <3> QED
      BY <1>5, <1>6, <3>1, <3>2
  <2>2. CASE Cleanup(s)
    <3>1. CASE StillAbandoned(sock[s].client, s)
      <4> DEFINE c == sock[s].client
                 B == {b \in Backend : c \in forever[b]} \cup {BackendOf(q) : q \in OwnedBy(c, Backend)}
      <4>1. Refill(B)
        BY <2>2, <3>1 DEF Cleanup
      <4>2. Reservations' = Reservations \ OwnedBy(c, Backend)
        BY <1>1, <2>2, <3>1, CleanupEffect
      <4>3. CASE r \in OwnedBy(c, Backend)
        <5>1. BackendOf(r) \in B
          BY <4>3
        <5> QED
          BY <1>6, <4>1, <5>1
      <4> QED
        BY <4>2, <4>3 DEF Settled
    <3>2. CASE ~StillAbandoned(sock[s].client, s)
      BY <1>4, <2>2, <3>2 DEF Cleanup
    <3> QED
      BY <3>1, <3>2
  <2> QED
    BY <1>4, <1>11, <2>1, <2>2 DEF SocketStep, Greet, Write, Written, Disconnect, StopSender,
                                   CloseSocket, queueVars
<1>12. ASSUME NEW c \in Client, PageStep(c) PROVE Settled(r)
  <2>1. ASSUME NEW q \in Request, Decline(q) PROVE Settled(r)
    <3>1. Release({q}) /\ (Claims(q) => Refill({BackendOf(q)}))
      BY <1>3, <2>1 DEF Decline
    <3>2. r = q => Claims(q)
      BY DEF Claims, NothingLapses
    <3> QED
      BY <1>5, <1>6, <3>1, <3>2
  <2>2. ASSUME NEW q \in Request, LegacyDecline(c, q) PROVE Settled(r)
    <3>1. Release(OldestOwned(c, BackendOf(q))) /\ Refill({BackendOf(q)})
      BY <2>2 DEF LegacyDecline
    <3>2. r \in OldestOwned(c, BackendOf(q)) => BackendOf(r) = BackendOf(q)
      BY DEF OldestOwned, OwnedBy
    <3> QED
      BY <1>5, <1>6, <3>1, <3>2
  <2>3. ASSUME NEW b \in Backend, Unregister(c, b) PROVE FALSE
    <3>1. posts[c] \in Seq({"register"} \X Backend) /\ posts[c] # <<>>
          /\ Head(posts[c]) = <<"unregister", b>>
      BY <2>3 DEF Unregister, NothingLapses
    <3>2. Head(posts[c]) \in {"register"} \X Backend
      BY <3>1, HeadTailProperties
    <3> QED
      BY <3>1, <3>2
  <2>4. ASSUME NEW q \in Request, PageDeclines(c, q) PROVE Settled(r)
    BY <2>1, <2>4 DEF PageDeclines
  <2> QED
    BY <1>4, <1>12, <2>2, <2>3, <2>4 DEF PageStep, Connect, PageLosesSocket, Start, Stop,
               Register, Receive, Ignore, Post, queueVars
<1>13. ASSUME NEW q \in Request, RouteDeclines(q) PROVE Settled(r)
  <2>1. Release({q}) /\ (Claims(q) => Refill({BackendOf(q)}))
    BY <1>3, <1>13 DEF RouteDeclines, Decline
  <2>2. r = q => Claims(q)
    BY DEF Claims, NothingLapses
  <2> QED
    BY <1>5, <1>6, <2>1, <2>2
<1>14. ASSUME NEW q \in Request, Claim(q) PROVE Settled(r)
  <2>1. Release({q})
    BY <1>3, <1>14 DEF Claim
  <2>2. CASE r = q
    <3>1. Claims(q)
      BY <2>2 DEF Claims, NothingLapses
    <3>2. PICK j \in Job : job' = [job EXCEPT ![j] = [stage |-> "claimed", client |-> ClientOf(q),
                                                      backend |-> BackendOf(q)]]
      BY <1>14, <3>1 DEF Claim
    <3>3. job'[j] = [stage |-> "claimed", client |-> ClientOf(q), backend |-> BackendOf(q)]
      BY <1>1, <3>2 DEF JobTyped
    <3> QED
      BY <2>2, <3>3 DEF Settled
  <2>3. CASE r # q
    BY <1>5, <2>1, <2>3
  <2> QED
    BY <2>2, <2>3
<1>15. UNCHANGED <<faults, vars>> => reserved' = reserved
  BY DEF vars, queueVars
<1> QED
  BY <1>4, <1>7, <1>8, <1>9, <1>10, <1>11, <1>12, <1>13, <1>14, <1>15 DEF Next

\* Of some pages, one comes first.
LEMMA FirstExists ==
    ASSUME NEW C \in SUBSET Client, C # {}
    PROVE  \E c \in C : \A d \in C : Rank[c] <= Rank[d]
<1> DEFINE S == {Rank[c] : c \in C}
           place == [i \in S |-> Cardinality({k \in S : k <= i})]
<1>1. IsFiniteSet(S)
  <2>1. IsFiniteSet(C)
    BY ForeverAssumption, FS_Subset
  <2>2. [c \in C |-> Rank[c]] \in Surjection(C, S)
    BY DEF Surjection
  <2> QED
    BY <2>1, <2>2, FS_Surjection
<1>2. S \subseteq Nat /\ S # {}
  BY ForeverAssumption
<1>3. Cardinality(S) \in Nat /\ Cardinality(S) # 0
  BY <1>1, <1>2, FS_CardinalityType, FS_EmptySet
<1>4. 1 \in 1..Cardinality(S)
  BY <1>3
<1>5. /\ place \in [S -> 1..Cardinality(S)]
      /\ \A i, k \in S : place[i] = place[k] => i = k
      /\ \A n \in 1..Cardinality(S) : \E i \in S : place[i] = n
  <2>1. S \subseteq Int
    BY <1>2
  <2> HIDE DEF S
  <2> QED
    BY <1>1, <2>1, NthExists
<1>6. PICK i \in S : place[i] = 1
  BY <1>4, <1>5
<1>7. ASSUME NEW k \in S, k < i PROVE FALSE
  <2> DEFINE upTo(n) == {l \in S : l <= n}
  <2>1. upTo(k) \in SUBSET upTo(i)
    <3>1. \A l \in S : l \in Nat
      BY <1>2
    <3>2. k \in Nat /\ i \in Nat
      BY <1>2
    <3>3. \A l \in S : l <= k => l <= i
      BY <1>7, <3>1, <3>2
    <3> QED
      BY <3>3
  <2>2. IsFiniteSet(upTo(i))
    BY <1>1, FS_Subset
  <2>3. Cardinality(upTo(k)) <= Cardinality(upTo(i))
    BY <2>1, <2>2, FS_Subset
  <2>4. place[k] <= 1 /\ place[k] \in 1..Cardinality(S)
    BY <1>5, <1>6, <2>3
  <2>5. place[k] = place[i]
    BY <1>3, <1>6, <2>4
  <2> HIDE DEF place
  <2>6. k = i
    BY <1>5, <2>5
  <2> QED
    BY <1>2, <1>7, <2>6
<1>8. PICK c \in C : i = Rank[c]
  OBVIOUS
<1>9. \A d \in C : Rank[c] <= Rank[d]
  <2> TAKE d \in C
  <2>1. Rank[d] \in S /\ Rank[d] \in Nat /\ Rank[c] \in Nat
    BY <1>2
  <2> QED
    BY <1>7, <1>8, <2>1
<1> QED
  BY <1>9

LEMMA TurnIsInList ==
    ASSUME NEW C \in SUBSET Client, C # {}, NEW last
    PROVE  NextClient(last, C) \in C
<1> DEFINE First(D) == CHOOSE c \in D : \A d \in D : Rank[c] <= Rank[d]
           after == {c \in C : Rank[c] > Rank[last]}
<1>1. \A D \in SUBSET C : D # {} => First(D) \in D
  <2> SUFFICES ASSUME NEW D \in SUBSET C, D # {} PROVE First(D) \in D
    OBVIOUS
  <2>1. \E c \in D : \A d \in D : Rank[c] <= Rank[d]
    BY FirstExists
  <2> QED
    BY <2>1
<1>2. after \in SUBSET C /\ C \in SUBSET C
  OBVIOUS
<1>3. NextClient(last, C) = IF last \in C /\ after # {} THEN First(after) ELSE First(C)
  BY DEF NextClient
<1> HIDE DEF First, after
<1> QED
  BY <1>1, <1>2, <1>3

\* A dispatch asks pages it has read, and someone if it can.
LEMMA SendAsks ==
    ASSUME IInv, FillSend
    PROVE  \E new : /\ Sent(new)
                    /\ \A r \in ToSet(new) : ClientOf(r) \in fill.clients /\ BackendOf(r) = fill.backend
                    /\ fill.room > 0 /\ MayAsk(<<>>) => ToSet(new) # {}
<1> DEFINE Fresh == {r \in Request \ InUse : BackendOf(r) = fill.backend}
<1>1. PICK new \in SeqOf(Fresh, fill.room) :
          LET b == fill.backend
              sent == [i \in DOMAIN new |-> ClientOf(new[i])]
              To(s) == {r \in ToSet(new) : owner[ClientOf(r)] = s}
          IN  /\ IsInjective(new)
              /\ AskedInTurn(sent)
              /\ reserved' = reserved \o new
              /\ pendingOf' = [pendingOf EXCEPT ![b] = @ \cup ToSet(new)]
              /\ pendingBy' = [c \in Client |->
                                 pendingBy[c] \cup {r \in ToSet(new) : ClientOf(r) = c}]
              /\ keyed' = IF WithCapacity(<<>>) = {} THEN keyed ELSE keyed \cup {b}
              /\ lapsed' = lapsed \ ToSet(new)
              /\ lastServed' = IF sent = <<>> THEN lastServed
                               ELSE [lastServed EXCEPT ![b] = Last(sent)]
              /\ sock' = [s \in Socket |-> [sock[s] EXCEPT !.outbox = @ \cup To(s)]]
  BY DEF FillSend
<1> DEFINE sent == [i \in DOMAIN new |-> ClientOf(new[i])]
<1>2. PICK m \in Nat : new \in [1..m -> Fresh]
  BY DEF SeqOf
<1>3. new \in Seq(Fresh) /\ Len(new) = m /\ DOMAIN new = 1..m
  BY <1>2
<1>4. new \in Seq(Request) /\ ToSet(new) \subseteq Fresh
  BY <1>2, <1>3 DEF ToSet
<1>5. fill.clients \subseteq Client
  BY DEF IInv, Typed, FillTyped, FillRecord
<1>6. \A before : WithCapacity(before) \in SUBSET fill.clients
  BY DEF WithCapacity
<1>7. \A before : MayAsk(before) => TurnAfter(before) \in fill.clients
  <2> SUFFICES ASSUME NEW before, MayAsk(before) PROVE TurnAfter(before) \in fill.clients
    OBVIOUS
  <2> DEFINE C == WithCapacity(before)
  <2>1. C \in SUBSET Client /\ C # {} /\ C \subseteq fill.clients
    BY <1>5, <1>6 DEF MayAsk
  <2> HIDE DEF C
  <2>2. \A last : NextClient(last, C) \in fill.clients
    BY <2>1, TurnIsInList
  <2> QED
    BY <2>2 DEF TurnAfter, C
<1>8. AskedInTurn(sent) /\ DOMAIN sent = 1..m /\ (m = 0 => sent = <<>>)
      /\ \A i \in 1..m : sent[i] = ClientOf(new[i])
  <2>1. DOMAIN sent = 1..m /\ \A i \in 1..m : sent[i] = ClientOf(new[i])
    BY <1>3
  <2>2. sent \in Seq(Client)
    <3>1. \A i \in 1..m : ClientOf(new[i]) \in Client
      BY <1>2, Requests
    <3> QED
      BY <1>3, <3>1
  <2>3. m = 0 => sent = <<>>
    BY <2>1, <2>2
  <2> QED
    BY <1>1, <2>1, <2>3
<1> HIDE DEF sent
<1>9. ASSUME NEW r \in ToSet(new) PROVE ClientOf(r) \in fill.clients /\ owner[ClientOf(r)] # None
  <2>1. PICK i \in 1..m : r = new[i]
    BY <1>3 DEF ToSet
  <2> DEFINE before == SubSeq(sent, 1, i - 1)
  <2>2. MayAsk(before) /\ ClientOf(r) = TurnAfter(before)
    BY <1>8, <2>1 DEF AskedInTurn
  <2> HIDE DEF before
  <2> QED
    BY <1>7, <2>2 DEF MayAsk
<1>10. fill.room > 0 /\ MayAsk(<<>>) => ToSet(new) # {}
  <2> SUFFICES ASSUME fill.room > 0, MayAsk(<<>>), ToSet(new) = {} PROVE FALSE
    OBVIOUS
  <2>1. m = 0
    <3> SUFFICES ASSUME m # 0 PROVE FALSE
      OBVIOUS
    <3>1. 1 \in 1..m
      BY <1>2
    <3> QED
      BY <1>3, <3>1 DEF ToSet
  <2>2. sent = <<>> /\ Len(<<>>) = 0
    BY <1>8, <2>1
  <2>3. Len(sent) = fill.room
    BY <1>8, <2>2 DEF AskedInTurn
  <2> QED
    BY <2>2, <2>3
<1>11. \/ lastServed' = lastServed
       \/ \E c \in Client : lastServed' = [lastServed EXCEPT ![fill.backend] = c]
  BY SendEffect DEF Sent
<1>12. keyed' \in {keyed, keyed \cup {fill.backend}}
  BY <1>1
<1>13. Sent(new)
  BY <1>1, <1>4, <1>9, <1>11, <1>12 DEF Sent
<1> QED
  BY <1>4, <1>9, <1>10, <1>13

-----------------------------------------------------------------------------
(* The steps of a dispatch.                                                *)

LEMMA FillStays ==
    ASSUME [Next]_<<faults, vars>>, ~FillStep
    PROVE  fill' = fill
<1>1. ASSUME NEW j \in Job, JobStep(j) PROVE fill' = fill
  BY <1>1 DEF JobStep, Submitted, SubmitsUnasked, Rejected, Assigned, Generated, TailCommitted,
              TailDone, Failed, Requeued
<1>2. ASSUME NEW b \in Backend, BackendLost(b) \/ BackendBack(b) PROVE fill' = fill
  BY <1>2 DEF BackendLost, BackendBack
<1>3. Lapse => fill' = fill
  BY DEF Lapse
<1>4. ASSUME NEW s \in Socket, SocketStep(s) PROVE fill' = fill
  BY <1>4 DEF SocketStep, Greet, Write, ReleaseUndelivered, Written, Disconnect, Cleanup,
              StopSender, CloseSocket
<1>5. ASSUME NEW c \in Client, PageStep(c) PROVE fill' = fill
  BY <1>5 DEF PageStep, Connect, PageLosesSocket, Start, Stop, Register, Unregister, Receive,
              Ignore, Post, PageDeclines, Decline, LegacyDecline
<1>6. ASSUME NEW r \in Request, Claim(r) \/ RouteDeclines(r) PROVE fill' = fill
  BY <1>6 DEF Claim, RouteDeclines, Decline
<1> QED
  BY <1>1, <1>2, <1>3, <1>4, <1>5, <1>6 DEF Next, vars

LEMMA NoFillFacts ==
    /\ NoFill.pc = "idle" /\ NoFill.clients = {} /\ DOMAIN NoFill.active = {}
    /\ \A b \in Backend : NoFill.backend # b
BY ForeverAssumption DEF NoFill

LEMMA BeginEffect ==
    ASSUME NEW b \in Backend, FillBegin(b)
    PROVE  /\ fill.pc = "idle" /\ forever' = forever
           /\ \/ fill' = NoFill /\ forever[b] = {}
              \/ /\ fill'.pc = "capacity" /\ fill'.backend = b /\ fill'.clients = forever[b]
                 /\ DOMAIN fill'.active = {} /\ forever[b] # {}
<1> DEFINE new == [NoFill EXCEPT !.pc = "capacity", !.backend = b, !.clients = forever[b]]
<1>1. new.pc = "capacity" /\ new.backend = b /\ new.clients = forever[b] /\ new.active = NoFill.active
  BY DEF NoFill
<1>2. fill' = (IF forever[b] = {} THEN NoFill ELSE new) /\ fill.pc = "idle" /\ forever' = forever
  BY DEF FillBegin, LockFree
<1> HIDE DEF new
<1> QED
  BY <1>1, <1>2, NoFillFacts

LEMMA CapacityEffect ==
    ASSUME FillTyped, FillCapacity
    PROVE  /\ fill.pc = "capacity"
           /\ \/ fill' = NoFill /\ fill.backend \notin up
              \/ /\ fill'.pc = "queue" /\ fill'.backend = fill.backend
                 /\ fill'.clients = fill.clients /\ fill'.active = fill.active
                 /\ fill'.room = MaxConcurrent[fill.backend] - Cardinality(slots[fill.backend])
BY DEF FillTyped, FillRecord, FillCapacity

LEMMA QueueEffect ==
    ASSUME FillTyped, FillQueue
    PROVE  /\ fill.pc = "queue" /\ fill'.pc = "pending" /\ fill'.backend = fill.backend
           /\ fill'.clients = fill.clients /\ fill'.active = fill.active
           /\ fill'.room = fill.room - Cardinality(Rows({"queued"}, Client, {fill.backend}))
<1> DEFINE room == fill.room - Cardinality(Rows({"queued"}, Client, {fill.backend}))
<1>1. fill.pc = "queue" /\ fill' = [fill EXCEPT !.pc = "pending", !.room = room]
  BY DEF FillQueue, FillTyped, FillRecord
<1> HIDE DEF room
<1>2. /\ fill.pc = "queue" /\ fill'.pc = "pending" /\ fill'.backend = fill.backend
      /\ fill'.clients = fill.clients /\ fill'.active = fill.active /\ fill'.room = room
  BY <1>1 DEF FillTyped, FillRecord
<1> QED
  BY <1>2 DEF room

LEMMA PendingEffect ==
    ASSUME FillTyped, FillPending
    PROVE  LET room == fill.room - Cardinality(pendingOf[fill.backend])
           IN  /\ fill.pc = "pending"
               /\ \/ fill' = NoFill /\ room <= 0
                  \/ /\ fill'.pc = "clients" /\ fill'.backend = fill.backend
                     /\ fill'.clients = fill.clients /\ fill'.active = fill.active
                     /\ fill'.room = room /\ ~(room <= 0)
<1> DEFINE room == fill.room - Cardinality(pendingOf[fill.backend])
<1>1. fill.pc = "pending" /\ fill' = IF room <= 0 THEN NoFill
                                     ELSE [fill EXCEPT !.pc = "clients", !.room = room]
  BY DEF FillPending
<1> HIDE DEF room
<1>2. LET new == [fill EXCEPT !.pc = "clients", !.room = room]
      IN  /\ new.pc = "clients" /\ new.backend = fill.backend /\ new.clients = fill.clients
          /\ new.active = fill.active /\ new.room = room
  BY DEF FillTyped, FillRecord
<1>3. /\ fill.pc = "pending"
      /\ \/ fill' = NoFill /\ room <= 0
         \/ /\ fill'.pc = "clients" /\ fill'.backend = fill.backend
            /\ fill'.clients = fill.clients /\ fill'.active = fill.active
            /\ fill'.room = room /\ ~(room <= 0)
  BY <1>1, <1>2
<1> QED
  BY <1>3 DEF room

LEMMA RowsEffect ==
    ASSUME FillTyped, NEW c \in Client, FillRows(c)
    PROVE  LET read == DOMAIN fill.active \cup {c}
           IN  /\ fill.pc = "clients" /\ c \in fill.clients
               /\ fill'.pc = "tails" /\ fill'.page = c
               /\ fill'.backend = fill.backend /\ fill'.clients = fill.clients
               /\ fill'.room = fill.room
               /\ fill'.active = [d \in read |-> IF d = c THEN ActiveRows(c) ELSE fill.active[d]]
<1> DEFINE read == DOMAIN fill.active \cup {c}
           rows == [d \in read |-> IF d = c THEN ActiveRows(c) ELSE fill.active[d]]
<1>1. /\ fill.pc = "clients" /\ c \in fill.clients
      /\ fill' = [fill EXCEPT !.pc = "tails", !.page = c, !.active = rows]
  BY DEF FillRows
<1> HIDE DEF rows
<1>2. /\ fill'.pc = "tails" /\ fill'.page = c /\ fill'.backend = fill.backend
      /\ fill'.clients = fill.clients /\ fill'.room = fill.room /\ fill'.active = rows
  BY <1>1 DEF FillTyped, FillRecord
<1> QED
  BY <1>1, <1>2 DEF rows

LEMMA ClientEffect ==
    ASSUME FillTyped, NEW c \in Client, FillClient(c)
    PROVE  /\ fill.pc = "tails" /\ c = fill.page /\ c \in DOMAIN fill.active
           /\ fill'.pc = IF DOMAIN fill.active = fill.clients THEN "send" ELSE "clients"
           /\ fill'.backend = fill.backend /\ fill'.clients = fill.clients
           /\ fill'.room = fill.room
           /\ fill'.active = [fill.active EXCEPT ![c] = LessTails(c)]
<1> DEFINE active == [fill.active EXCEPT ![c] = LessTails(c)]
           pc == IF DOMAIN fill.active = fill.clients THEN "send" ELSE "clients"
<1>1. /\ fill.pc = "tails" /\ c = fill.page /\ c \in DOMAIN fill.active
      /\ fill' = [fill EXCEPT !.pc = pc, !.page = None, !.active = active]
  BY DEF FillClient, FillTyped, FillRecord
<1> HIDE DEF active, pc
<1>2. /\ fill'.pc = pc /\ fill'.backend = fill.backend /\ fill'.clients = fill.clients
      /\ fill'.room = fill.room /\ fill'.active = active
  BY <1>1 DEF FillTyped, FillRecord
<1> QED
  BY <1>1, <1>2 DEF active, pc

-----------------------------------------------------------------------------
(* What is busy stays busy, or asks for a dispatch.                        *)

LEMMA CleanupAsks ==
    ASSUME IInv, NEW s \in Socket, Cleanup(s), StillAbandoned(sock[s].client, s),
           NEW b \in Backend, sock[s].client \in forever[b]
    PROVE  waiting'[b] > 0
<1> DEFINE c == sock[s].client
           B == {a \in Backend : c \in forever[a]} \cup {BackendOf(r) : r \in OwnedBy(c, Backend)}
<1>1. Refill(B) /\ b \in B
  BY DEF Cleanup
<1> HIDE DEF B
<1> QED
  BY <1>1, RefillEffect DEF IInv, Typed

\* A row of a page the backend knows stays unless it asks for a dispatch.
LEMMA RowsStay ==
    ASSUME IInv, Prompt, [Next]_<<faults, vars>>, NEW b \in Backend, waiting'[b] = 0,
           NEW j \in Job, job[j].stage \in Active, job[j].backend = b, job[j].client \in forever[b]
    PROVE  /\ job'[j].client = job[j].client /\ job'[j].backend = b
           /\ job'[j].stage \in Active
           /\ job[j].stage \in {"queued", "running"} => job'[j].stage \in {"queued", "running"}
<1>1. RowTurn(j)
  BY RowTurns
<1>2. ~(waiting'[job[j].backend] > 0)
  OBVIOUS
<1>3. ASSUME NEW s \in Socket, Cleanup(s), StillAbandoned(job[j].client, s),
             sock[s].client = job[j].client
      PROVE  FALSE
  <2>1. waiting'[b] > 0
    BY <1>3, CleanupAsks
  <2> QED
    BY <2>1
<1> QED
  BY <1>1, <1>2, <1>3 DEF RowTurn, Active

LEMMA BusyStays ==
    ASSUME IInv, Prompt, NothingLapses, OneConnection, Registered, [Next]_<<faults, vars>>,
           NEW b \in Backend, waiting'[b] = 0, Idle(b)'
    PROVE  Idle(b)
<1>1. QueueTyped /\ JobTyped
  BY DEF IInv, Typed
<1>2. ASSUME NEW r \in OwnedOn(b) PROVE FALSE
  <2>1. r \in Reservations /\ BackendOf(r) = b /\ ClientOf(r) \in Client
    BY <1>1, Requests DEF OwnedOn, Reservations, QueueTyped, ToSet
  <2>2. Settled(r)
    BY <2>1, RequestsSettle
  <2>3. r \notin Reservations'
    BY <2>1 DEF Idle, OwnedOn
  <2>4. PICK j \in Job : /\ job'[j].stage = "claimed" /\ job'[j].client = ClientOf(r)
                         /\ job'[j].backend = b
    BY <2>1, <2>2, <2>3 DEF Settled
  <2> QED
    BY <2>1, <2>4 DEF Idle, Rows, Active
<1>3. ASSUME NEW j \in Rows(Active, Client, {b}) PROVE FALSE
  <2>1. j \in Job /\ job[j].stage \in Active /\ job[j].client \in Client /\ job[j].backend = b
    BY DEF Rows
  <2>2. ~(job'[j].stage \in Active /\ job'[j].client \in Client /\ job'[j].backend = b)
    BY <2>1 DEF Idle, Rows
  <2>3. job[j].client \notin forever[b]
    BY <2>1, <2>2, RowsStay
  <2>4. ASSUME NEW s \in Socket, Cleanup(s), sock[s].client = job[j].client PROVE FALSE
    <3>1. sock[s].state = "cleanup"
      BY <2>4 DEF Cleanup
    <3>2. "depart" \in faults
      BY <3>1 DEF OneConnection
    <3>3. Held(job[j].client, b)
      BY <2>1 DEF Held, Rows
    <3>4. Gone(job[j].client)
      BY <2>1, <2>3, <3>2, <3>3 DEF Registered
    <3> QED
      BY <2>4, <3>1, <3>4 DEF Gone
  <2>5. RowTurn(j)
    BY <2>1, RowTurns
  <2>6. ~(waiting'[job[j].backend] > 0)
    BY <2>1
  <2> QED
    BY <2>1, <2>2, <2>4, <2>5, <2>6 DEF RowTurn, Active
<1> QED
  BY <1>2, <1>3 DEF Idle

-----------------------------------------------------------------------------
(* What a dispatch has read.                                               *)

\* The rows counted are active, or finalizing and discounted next ...
LEMMA RowsCounted ==
    ASSUME JobTyped, NEW c \in Client
    PROVE  /\ ActiveRows(c) \in Nat
           /\ ActiveRows(c) <= Cardinality(Rows({"queued", "running"}, {c}, Backend)) + finalizing[c]
<1> DEFINE A == Rows({"queued", "running", "tail"}, {c}, Backend)
           Q == Rows({"queued", "running"}, {c}, Backend)
           T == {j \in A : job[j].stage = "tail"}
<1>1. IsFiniteSet(A) /\ IsFiniteSet(Q) /\ IsFiniteSet(T) /\ IsFiniteSet(InTail(c))
  BY ForeverAssumption, FS_Subset DEF Rows, InTail
<1>2. A = Q \cup T /\ Q \cap T = {}
  BY DEF Rows
<1>3. T \subseteq InTail(c)
  BY DEF Rows, InTail
<1> HIDE DEF A, Q, T
<1>4. Cardinality(A) = Cardinality(Q) + Cardinality(T) - Cardinality({})
  BY <1>1, <1>2, FS_Union
<1>5. Cardinality(T) <= Cardinality(InTail(c))
  BY <1>1, <1>3, FS_Subset
<1>6. /\ Cardinality(A) \in Nat /\ Cardinality(Q) \in Nat /\ Cardinality(T) \in Nat
      /\ Cardinality(InTail(c)) \in Nat /\ Cardinality({}) = 0
  BY <1>1, FS_CardinalityType, FS_EmptySet
<1>7. finalizing[c] = Cardinality(InTail(c))
  BY DEF JobTyped
<1>8. ActiveRows(c) = Cardinality(A)
  BY DEF ActiveRows, A
<1>9. ActiveRows(c) \in Nat /\ ActiveRows(c) <= Cardinality(Q) + finalizing[c]
  BY <1>4, <1>5, <1>6, <1>7, <1>8
<1> QED
  BY <1>9 DEF Q

\* ... for none of them ends unseen in between.
LEMMA TailsStay ==
    ASSUME IInv, [Next]_<<faults, vars>>, "overtake" \notin faults, NEW c \in Client,
           c = fill.page
    PROVE  finalizing'[c] \in Nat /\ finalizing[c] \in Nat /\ finalizing'[c] >= finalizing[c]
<1>1. JobTyped
  BY DEF IInv, Typed
<1>2. finalizing[c] \in Nat /\ finalizing'[c] \in Nat
  BY <1>1, JobTypedStep DEF JobTyped
<1>3. ASSUME NEW j \in Job, Generated(j) PROVE finalizing'[c] >= finalizing[c]
  <2>1. finalizing' = [finalizing EXCEPT ![job[j].client] = @ + 1]
    BY <1>3 DEF Generated
  <2> QED
    BY <1>1, <1>2, <2>1 DEF JobTyped
<1>4. ASSUME NEW j \in Job, TailDone(j) PROVE finalizing'[c] = finalizing[c]
  <2>1. /\ finalizing' = [finalizing EXCEPT ![job[j].client] = @ - 1]
        /\ job[j].client # c
    BY <1>4 DEF TailDone
  <2> QED
    BY <1>1, <2>1 DEF JobTyped
<1>5. ASSUME NEW j \in Job, JobStep(j), ~Generated(j), ~TailDone(j)
      PROVE  finalizing' = finalizing
  BY <1>5 DEF JobStep, Submitted, SubmitsUnasked, Rejected, Assigned, TailCommitted, Failed, Requeued
<1>6. FillStep \/ Lapse => finalizing' = finalizing
  BY DEF FillStep, FillBegin, FillCapacity, FillQueue, FillPending, FillRows, FillClient, FillSend,
         Lapse, jobVars
<1>7. ASSUME NEW b \in Backend, BackendLost(b) \/ BackendBack(b) PROVE finalizing' = finalizing
  BY <1>7 DEF BackendLost, BackendBack
<1>8. ASSUME NEW s \in Socket, SocketStep(s) PROVE finalizing' = finalizing
  BY <1>8 DEF SocketStep, Greet, Write, ReleaseUndelivered, Written, Disconnect, Cleanup,
              StopSender, CloseSocket, jobVars
<1>9. ASSUME NEW d \in Client, PageStep(d) PROVE finalizing' = finalizing
  BY <1>9 DEF PageStep, Connect, PageLosesSocket, Start, Stop, Register, Unregister, Receive,
              Ignore, Post, PageDeclines, Decline, LegacyDecline, jobVars
<1>10. ASSUME NEW q \in Request, Claim(q) \/ RouteDeclines(q) PROVE finalizing' = finalizing
  BY <1>10 DEF Claim, RouteDeclines, Decline, jobVars
<1>11. UNCHANGED <<faults, vars>> => finalizing' = finalizing
  BY DEF vars, jobVars
<1>12. finalizing' = finalizing => finalizing'[c] >= finalizing[c]
  BY <1>2
<1>13. ASSUME NEW j \in Job, JobStep(j) PROVE finalizing'[c] >= finalizing[c]
  BY <1>2, <1>3, <1>4, <1>5, <1>12, <1>13
<1> QED
  BY <1>2, <1>6, <1>7, <1>8, <1>9, <1>10, <1>11, <1>12, <1>13 DEF Next

\* While no dispatch is asked for, a backend loses no slot to free room ...
LEMMA SlotsStay ==
    ASSUME IInv, Prompt, SlotsRun, [Next]_<<faults, vars>>, NEW b \in Backend, waiting'[b] = 0
    PROVE  /\ Cardinality(slots[b]) \in Nat /\ Cardinality(slots'[b]) \in Nat
           /\ Cardinality(slots[b]) <= Cardinality(slots'[b])
<1>1. slots[b] \subseteq Job /\ slots'[b] \subseteq Job
  BY JobTypedStep DEF IInv, Typed, JobTyped
<1>2. slots[b] \subseteq slots'[b]
  <2>1. ASSUME NEW j \in Job, slots'[b] = slots[b] \ {j}, waiting'[job[j].backend] > 0
        PROVE  slots[b] \subseteq slots'[b]
    <3>1. job[j].backend # b
      BY <2>1
    <3>2. j \notin slots[b]
      BY <3>1 DEF SlotsRun
    <3> QED
      BY <2>1, <3>2
  <2> QED
    BY <2>1, SlotsTurn
<1>3. IsFiniteSet(slots[b]) /\ IsFiniteSet(slots'[b])
  BY <1>1, ForeverAssumption, FS_Subset
<1> QED
  BY <1>2, <1>3, FS_Subset, FS_CardinalityType

\* ... and the pages it knows stay, with their rows.
LEMMA PagesStay ==
    ASSUME IInv, Prompt, NothingLapses, [Next]_<<faults, vars>>, NEW b \in Backend,
           waiting'[b] = 0
    PROVE  forever'[b] = forever[b]
<1>1. ~(waiting'[b] > 0)
  OBVIOUS
<1>2. ASSUME NEW s \in Socket, forever'[b] = forever[b] \ {sock[s].client},
             sock[s].client \in forever[b] => waiting'[b] > 0
      PROVE  forever'[b] = forever[b]
  BY <1>1, <1>2
<1> QED
  BY <1>1, <1>2, ForeverTurn

LEMMA WorkStays ==
    ASSUME IInv, Prompt, [Next]_<<faults, vars>>, OneBackend, NEW b \in Backend,
           waiting'[b] = 0, NEW c \in forever[b]
    PROVE  LET Work == Rows({"queued", "running"}, {c}, Backend)
           IN  /\ Cardinality(Work) \in Nat /\ Cardinality(Work') \in Nat
               /\ Cardinality(Work) <= Cardinality(Work')
<1> DEFINE Work == Rows({"queued", "running"}, {c}, Backend)
<1>1. Work \subseteq Job /\ Work' \subseteq Job
  BY DEF Rows
<1>2. IsFiniteSet(Work) /\ IsFiniteSet(Work')
  BY <1>1, ForeverAssumption, FS_Subset
<1>3. Work \subseteq Work'
  <2> SUFFICES ASSUME NEW j \in Work PROVE j \in Work'
    OBVIOUS
  <2>1. /\ j \in Job /\ job[j].stage \in {"queued", "running"} /\ job[j].client = c
        /\ job[j].backend = b
    BY DEF Rows, OneBackend
  <2>2. job'[j].client = c /\ job'[j].backend = b /\ job'[j].stage \in {"queued", "running"}
    BY <2>1, RowsStay DEF Active
  <2> QED
    BY <2>1, <2>2 DEF Rows
<1> HIDE DEF Work
<1>4. /\ Cardinality(Work) \in Nat /\ Cardinality(Work') \in Nat
      /\ Cardinality(Work) <= Cardinality(Work')
  BY <1>2, <1>3, FS_Subset, FS_CardinalityType
<1> QED
  BY <1>4 DEF Work

\* An idle backend holds no slot.
LEMMA IdleSlots ==
    ASSUME JobTyped, SlotsRun, NEW b \in Backend, Idle(b)
    PROVE  slots[b] = {}
<1> SUFFICES ASSUME NEW j \in slots[b] PROVE FALSE
  OBVIOUS
<1>1. j \in Job /\ job[j].stage = "running" /\ job[j].backend = b
  BY DEF JobTyped, SlotsRun
<1>2. job[j].client \in Client
  BY <1>1, RowFacts
<1> QED
  BY <1>1, <1>2 DEF Idle, Rows, Active

LEMMA ReadIsFreshStep ==
    ASSUME IInv, Prompt, NothingLapses, SlotsRun, OneConnection, Registered, ReadIsFresh,
           [Next]_<<faults, vars>>
    PROVE  ReadIsFresh'
<1>1. QueueTyped /\ FillTyped /\ JobTyped /\ fill \in FillRecord
  BY DEF IInv, Typed, FillTyped
<1>2. CASE fill' = NoFill
  BY <1>2, NoFillFacts DEF ReadIsFresh, Filling
<1>3. ASSUME NEW b \in Backend, FillBegin(b) PROVE ReadIsFresh'
  <2>1. CASE fill' = NoFill
    BY <1>2, <2>1
  <2>2. CASE fill' # NoFill
    <3>1. /\ fill'.pc = "capacity" /\ fill'.backend = b /\ fill'.clients = forever[b]
          /\ DOMAIN fill'.active = {} /\ forever[b] # {} /\ forever' = forever
      BY <1>3, <2>2, BeginEffect
    <3> QED
      BY <3>1 DEF ReadIsFresh, Filling
  <2> QED
    BY <2>1, <2>2
<1>4. CASE FillCapacity /\ fill' # NoFill
  <2>1. /\ fill.pc = "capacity" /\ fill'.pc = "queue" /\ fill'.backend = fill.backend
        /\ fill'.clients = fill.clients /\ fill'.active = fill.active
        /\ fill'.room = MaxConcurrent[fill.backend] - Cardinality(slots[fill.backend])
    BY <1>1, <1>4, CapacityEffect
  <2>2. UNCHANGED <<waiting, forever, slots>>
    BY <1>4 DEF FillCapacity, queueVars, jobVars
  <2>3. \A b \in Backend : MaxConcurrent[b] - Cardinality(slots[b]) \in Int
    BY <1>1, ForeverAssumption, FS_Subset, FS_CardinalityType DEF JobTyped
  <2>4. ASSUME NEW b \in Backend, fill.backend = b
        PROVE  fill'.room >= MaxConcurrent[b] - Cardinality(slots'[b])
    BY <2>1, <2>2, <2>3, <2>4
  <2>5. DOMAIN fill'.active = {}
    BY <2>1 DEF ReadIsFresh
  <2> QED
    BY <2>1, <2>2, <2>4, <2>5 DEF ReadIsFresh, Filling
<1>5. CASE FillQueue
  <2> DEFINE n == Cardinality(Rows({"queued"}, Client, {fill.backend}))
  <2>1. /\ fill.pc = "queue" /\ fill'.pc = "pending" /\ fill'.backend = fill.backend
        /\ fill'.clients = fill.clients /\ fill'.active = fill.active
        /\ fill'.room = fill.room - n
    BY <1>1, <1>5, QueueEffect
  <2> HIDE DEF n
  <2>2. UNCHANGED <<waiting, forever, queueVars, jobVars>>
    BY <1>5 DEF FillQueue, queueVars
  <2>3. DOMAIN fill'.active = {}
    BY <2>1 DEF ReadIsFresh
  <2>4. ASSUME NEW b \in Backend, Filling(b)', waiting'[b] = 0, Idle(b)'
        PROVE  fill'.room >= MaxConcurrent[b]
    <3>1. Filling(b) /\ waiting[b] = 0 /\ fill.backend = b
      BY <2>1, <2>2, <2>4 DEF Filling
    <3>2. Idle(b)
      BY <2>2, <2>4 DEF Idle, OwnedOn, Reservations, Rows, queueVars, jobVars
    <3>3. Rows({"queued"}, Client, {b}) = {}
      BY <3>2 DEF Idle, Rows, Active
    <3>4. slots[b] = {}
      BY <1>1, <3>2, IdleSlots
    <3>5. fill.room >= MaxConcurrent[b] - Cardinality(slots[b])
      BY <2>1, <3>1 DEF ReadIsFresh
    <3>6. fill.room \in Int /\ MaxConcurrent[b] \in Nat /\ Cardinality({}) = 0
      BY <1>1, ForeverAssumption, FS_EmptySet DEF FillRecord
    <3>7. n = 0
      BY <3>1, <3>3, <3>6 DEF n
    <3> QED
      BY <2>1, <3>4, <3>5, <3>6, <3>7
  <2> QED
    BY <2>1, <2>2, <2>3, <2>4 DEF ReadIsFresh, Filling
<1>6. CASE FillPending /\ fill' # NoFill
  <2> DEFINE room == fill.room - Cardinality(pendingOf[fill.backend])
  <2>1. /\ fill.pc = "pending" /\ fill'.pc = "clients" /\ fill'.backend = fill.backend
        /\ fill'.clients = fill.clients /\ fill'.active = fill.active
        /\ fill'.room = room /\ ~(room <= 0)
    BY <1>1, <1>6, PendingEffect
  <2>2. room \in Int
    <3>1. fill'.room \in Int
      BY FillTypedStep DEF IInv, Typed, FillTyped, FillRecord
    <3> QED
      BY <2>1, <3>1
  <2> HIDE DEF room
  <2>3. fill'.room > 0
    BY <2>1, <2>2
  <2>4. UNCHANGED <<waiting, forever>>
    BY <1>6 DEF FillPending, queueVars
  <2>5. DOMAIN fill'.active = {}
    BY <2>1 DEF ReadIsFresh
  <2> QED
    BY <2>1, <2>3, <2>4, <2>5 DEF ReadIsFresh, Filling
<1>7. ASSUME NEW c \in Client, FillRows(c) PROVE ReadIsFresh'
  <2> DEFINE read == DOMAIN fill.active \cup {c}
  <2>1. /\ fill.pc = "clients" /\ c \in fill.clients
        /\ fill'.pc = "tails" /\ fill'.page = c
        /\ fill'.backend = fill.backend /\ fill'.clients = fill.clients
        /\ fill'.room = fill.room
        /\ fill'.active = [d \in read |-> IF d = c THEN ActiveRows(c) ELSE fill.active[d]]
    BY <1>1, <1>7, RowsEffect
  <2>2. UNCHANGED <<waiting, forever, job, finalizing, faults>>
    BY <1>7 DEF FillRows, queueVars, jobVars, Next
  <2>3. \A d \in Client : Rows({"queued", "running"}, {d}, Backend)'
                            = Rows({"queued", "running"}, {d}, Backend)
    BY <2>2 DEF Rows
  <2>4. fill.room > 0 /\ fill.clients # {} /\ DOMAIN fill.active \subseteq fill.clients
        /\ fill.clients \subseteq Client
    BY <1>1, <2>1 DEF ReadIsFresh, FillRecord
  <2>5. DOMAIN fill'.active = read
    BY <2>1
  <2>6. ASSUME NEW b \in Backend, Filling(b)', waiting'[b] = 0
        PROVE  /\ fill'.clients = forever'[b]
               /\ OneBackend /\ "overtake" \notin faults' => \A d \in DOMAIN fill'.active :
                    fill'.active[d] <= Cardinality(Rows({"queued", "running"}, {d}, Backend)')
                                         + Discount(d)'
    <3>1. Filling(b) /\ waiting[b] = 0
      BY <2>1, <2>2, <2>6 DEF Filling
    <3>2. fill.clients = forever[b]
      BY <3>1 DEF ReadIsFresh
    <3>3. ASSUME OneBackend, "overtake" \notin faults, NEW d \in read
          PROVE  fill'.active[d] <= Cardinality(Rows({"queued", "running"}, {d}, Backend)')
                                      + Discount(d)'
      <4>1. d \in Client
        BY <2>4
      <4>2. CASE d = c
        <5>1. Discount(d)' = finalizing[c] /\ fill'.active[d] = ActiveRows(c)
          BY <2>1, <2>2, <4>2 DEF Discount
        <5>2. ActiveRows(c) <= Cardinality(Rows({"queued", "running"}, {c}, Backend)) + finalizing[c]
          BY <1>1, RowsCounted
        <5> QED
          BY <2>3, <4>2, <5>1, <5>2
      <4>3. CASE d # c
        <5>1. d \in DOMAIN fill.active /\ fill'.active[d] = fill.active[d]
          BY <2>1, <4>3
        <5>2. fill.active[d] <= Cardinality(Rows({"queued", "running"}, {d}, Backend)) + Discount(d)
          BY <3>1, <3>3, <5>1 DEF ReadIsFresh
        <5>3. Discount(d) = 0 /\ Discount(d)' = 0
          BY <2>1, <4>3 DEF Discount
        <5> QED
          BY <2>3, <4>1, <5>1, <5>2, <5>3
      <4> QED
        BY <4>2, <4>3
    <3> QED
      BY <2>1, <2>2, <2>5, <3>2, <3>3
  <2> QED
    BY <2>1, <2>4, <2>5, <2>6 DEF ReadIsFresh
<1>9. ASSUME NEW c \in Client, FillClient(c) PROVE ReadIsFresh'
  <2>1. /\ fill.pc = "tails" /\ c = fill.page /\ c \in DOMAIN fill.active
        /\ fill'.pc = IF DOMAIN fill.active = fill.clients THEN "send" ELSE "clients"
        /\ fill'.backend = fill.backend /\ fill'.clients = fill.clients
        /\ fill'.room = fill.room
        /\ fill'.active = [fill.active EXCEPT ![c] = LessTails(c)]
    BY <1>1, <1>9, ClientEffect
  <2>2. UNCHANGED <<waiting, forever, job, faults>>
    BY <1>9 DEF FillClient, queueVars, jobVars, Next
  <2>3. \A d \in Client : Rows({"queued", "running"}, {d}, Backend)'
                            = Rows({"queued", "running"}, {d}, Backend)
    BY <2>2 DEF Rows
  <2>4. fill.room > 0 /\ fill.clients # {} /\ DOMAIN fill.active \subseteq fill.clients
        /\ fill.clients \subseteq Client
    BY <1>1, <2>1 DEF ReadIsFresh, FillRecord
  <2>5. DOMAIN fill'.active = DOMAIN fill.active
    BY <2>1
  <2>6. ASSUME NEW b \in Backend, Filling(b)', waiting'[b] = 0
        PROVE  /\ fill'.clients = forever'[b]
               /\ OneBackend /\ "overtake" \notin faults' => \A d \in DOMAIN fill'.active :
                    fill'.active[d] <= Cardinality(Rows({"queued", "running"}, {d}, Backend)')
                                         + Discount(d)'
    <3>1. Filling(b) /\ waiting[b] = 0
      BY <2>1, <2>2, <2>6 DEF Filling
    <3>2. fill.clients = forever[b]
      BY <3>1 DEF ReadIsFresh
    <3>3. ASSUME OneBackend, "overtake" \notin faults, NEW d \in DOMAIN fill.active
          PROVE  fill'.active[d] <= Cardinality(Rows({"queued", "running"}, {d}, Backend)')
                                      + Discount(d)'
      <4> DEFINE n == Cardinality(Rows({"queued", "running"}, {d}, Backend))
      <4>1. d \in Client /\ Discount(d)' = 0
        BY <2>1, <2>4 DEF Discount
      <4>2. fill.active[d] <= n + Discount(d)
        BY <3>1, <3>3 DEF ReadIsFresh
      <4>3. n \in Nat
        <5>1. Rows({"queued", "running"}, {d}, Backend) \subseteq Job
          BY DEF Rows
        <5> QED
          BY <5>1, ForeverAssumption, FS_Subset, FS_CardinalityType
      <4>4. Cardinality(Rows({"queued", "running"}, {d}, Backend)') = n
        BY <2>3, <4>1
      <4> HIDE DEF n
      <4>5. CASE d = c
        <5>1. fill'.active[d] = LessTails(c) /\ Discount(d) = finalizing[c]
          BY <2>1, <4>5 DEF Discount
        <5>2. fill.active[c] \in Nat /\ finalizing[c] \in Nat
          BY <1>1, <2>1 DEF FillRecord, JobTyped
        <5>3. LessTails(c) <= n
          BY <4>2, <4>3, <4>5, <5>1, <5>2 DEF LessTails
        <5> QED
          BY <4>1, <4>3, <4>4, <5>1, <5>3
      <4>6. CASE d # c
        <5>1. fill'.active[d] = fill.active[d] /\ Discount(d) = 0
          BY <2>1, <4>6 DEF Discount
        <5> QED
          BY <4>1, <4>2, <4>3, <4>4, <5>1
      <4> QED
        BY <4>5, <4>6
    <3> QED
      BY <2>1, <2>2, <2>5, <3>2, <3>3
  <2>7. fill'.pc \in {"clients", "send"} /\ (fill'.pc = "send" => DOMAIN fill.active = fill.clients)
    BY <2>1
  <2> QED
    BY <2>1, <2>4, <2>5, <2>6, <2>7 DEF ReadIsFresh
<1>10. CASE ~FillStep
  <2>1. fill' = fill /\ \A b \in Backend : ~FillBegin(b)
    BY <1>10, FillStays DEF FillStep
  <2>2. ASSUME NEW b \in Backend, Filling(b)', waiting'[b] = 0
        PROVE  /\ fill'.clients = forever'[b]
               /\ fill'.pc = "queue" => fill'.room >= MaxConcurrent[b] - Cardinality(slots'[b])
               /\ fill'.pc = "pending" /\ Idle(b)' => fill'.room >= MaxConcurrent[b]
               /\ OneBackend /\ "overtake" \notin faults' => \A c \in DOMAIN fill'.active :
                    fill'.active[c] <= Cardinality(Rows({"queued", "running"}, {c}, Backend)')
                                         + Discount(c)'
    <3>1. waiting[b] = 0
      <4>1. waiting[b] \in Nat /\ waiting'[b] >= waiting[b]
        BY <2>1, CallsStay
      <4> QED
        BY <2>2, <4>1
    <3>2. Filling(b)
      BY <2>1, <2>2 DEF Filling
    <3>3. fill.clients = forever[b] /\ forever'[b] = forever[b]
      BY <2>2, <3>1, <3>2, PagesStay DEF ReadIsFresh
    <3>4. ASSUME fill.pc = "queue"
          PROVE  fill.room >= MaxConcurrent[b] - Cardinality(slots'[b])
      <4>1. fill.room >= MaxConcurrent[b] - Cardinality(slots[b])
        BY <3>1, <3>2, <3>4 DEF ReadIsFresh
      <4>2. /\ Cardinality(slots[b]) \in Nat /\ Cardinality(slots'[b]) \in Nat
            /\ Cardinality(slots[b]) <= Cardinality(slots'[b])
        BY <2>2, SlotsStay
      <4>3. fill.room \in Int /\ MaxConcurrent[b] \in Nat
        BY <1>1, ForeverAssumption DEF FillRecord
      <4> QED
        BY <4>1, <4>2, <4>3
    <3>5. ASSUME fill.pc = "pending", Idle(b)' PROVE fill.room >= MaxConcurrent[b]
      BY <2>2, <3>1, <3>2, <3>5, BusyStays DEF ReadIsFresh
    <3>6. ASSUME OneBackend, "overtake" \notin faults, NEW c \in DOMAIN fill.active
          PROVE  fill.active[c] <= Cardinality(Rows({"queued", "running"}, {c}, Backend)')
                                     + Discount(c)'
      <4> DEFINE Work == Rows({"queued", "running"}, {c}, Backend)
      <4>1. c \in forever[b] /\ c \in Client
        BY <1>1, <3>3 DEF ReadIsFresh, FillRecord
      <4>2. fill.active[c] <= Cardinality(Work) + Discount(c)
        BY <3>1, <3>2, <3>6 DEF ReadIsFresh
      <4>3. /\ Cardinality(Work) \in Nat /\ Cardinality(Work') \in Nat
            /\ Cardinality(Work) <= Cardinality(Work')
        BY <2>2, <3>6, <4>1, WorkStays
      <4>4. fill.active[c] \in Nat
        BY <1>1 DEF FillRecord
      <4>5. Discount(c) \in Nat /\ Discount(c)' \in Nat /\ Discount(c)' >= Discount(c)
        <5>1. CASE fill.pc = "tails" /\ c = fill.page
          <6>1. Discount(c) = finalizing[c] /\ Discount(c)' = finalizing'[c]
            BY <2>1, <5>1 DEF Discount
          <6> QED
            BY <3>6, <4>1, <5>1, <6>1, TailsStay
        <5>2. CASE ~(fill.pc = "tails" /\ c = fill.page)
          BY <2>1, <5>2 DEF Discount
        <5> QED
          BY <5>1, <5>2
      <4> HIDE DEF Work
      <4>6. fill.active[c] <= Cardinality(Work') + Discount(c)'
        BY <4>2, <4>3, <4>4, <4>5
      <4> QED
        BY <4>6 DEF Work
    <3>7. faults' = faults
      BY PromptStays
    <3> QED
      BY <2>1, <3>3, <3>4, <3>5, <3>6, <3>7
  <2> QED
    BY <2>1, <2>2 DEF ReadIsFresh
<1>11. FillSend => fill' = NoFill
  BY DEF FillSend
<1> QED
  BY <1>2, <1>3, <1>4, <1>5, <1>6, <1>7, <1>9, <1>10, <1>11 DEF FillStep

-----------------------------------------------------------------------------
(* Whom a backend concerns.                                                *)

\* A page comes to be held by a backend through its registration.
LEMMA HeldBefore ==
    ASSUME IInv, Prompt, NothingLapses, [Next]_<<faults, vars>>, "depart" \in faults,
           NEW c \in Client, NEW b \in Backend, Held(c, b)'
    PROVE  Held(c, b) \/ (c \in forever[b] /\ forever'[b] = forever[b])
<1>1. QueueTyped /\ FillTyped /\ JobTyped
  BY DEF IInv, Typed
<1>2. ASSUME Filling(b)', c \in fill'.clients
      PROVE  Held(c, b) \/ (c \in forever[b] /\ forever'[b] = forever[b])
  <2>1. fill'.pc # "idle" /\ fill'.backend = b /\ fill' # NoFill
    BY <1>2, NoFillFacts DEF Filling
  <2>2. ASSUME NEW a \in Backend, FillBegin(a) PROVE c \in forever[b] /\ forever'[b] = forever[b]
    BY <1>2, <2>1, <2>2, BeginEffect
  <2>3. ASSUME fill.pc # "idle", fill'.backend = fill.backend, fill'.clients = fill.clients
        PROVE  Held(c, b)
    BY <1>2, <2>1, <2>3 DEF Held, Filling
  <2>4. FillCapacity => Held(c, b)
    BY <1>1, <2>1, <2>3, CapacityEffect
  <2>5. FillQueue \/ FillPending => Held(c, b)
    BY <1>1, <2>1, <2>3, QueueEffect, PendingEffect
  <2>6. ASSUME NEW d \in Client, FillRows(d) \/ FillClient(d) PROVE Held(c, b)
    <3>1. fill.pc # "idle" /\ fill'.backend = fill.backend /\ fill'.clients = fill.clients
      BY <1>1, <2>6, RowsEffect, ClientEffect
    <3> QED
      BY <2>3, <3>1
  <2>7. ~FillSend
    BY <2>1 DEF FillSend
  <2>8. ~FillStep => Held(c, b)
    BY <2>1, <2>3, FillStays
  <2> QED
    BY <2>2, <2>4, <2>5, <2>6, <2>7, <2>8 DEF FillStep
<1>3. ASSUME NEW r \in OwnedBy(c, {b})' PROVE Held(c, b)
  <2>1. r \in Reservations' /\ ClientOf(r) = c /\ BackendOf(r) = b
    BY DEF OwnedBy
  <2>2. CASE r \in Reservations
    BY <2>1, <2>2 DEF OwnedBy, Held
  <2>3. CASE r \notin Reservations
    <3>1. FillSend
      BY <2>1, <2>3, NoneAdded
    <3>2. PICK new : Sent(new) /\ \A q \in ToSet(new) : ClientOf(q) \in fill.clients
                                                        /\ BackendOf(q) = fill.backend
      BY <3>1, SendAsks
    <3>3. r \in ToSet(new)
      BY <1>1, <2>1, <2>3, <3>2, SentReservations
    <3>4. fill.pc = "send"
      BY <3>1 DEF FillSend
    <3> QED
      BY <2>1, <3>2, <3>3, <3>4 DEF Held, Filling
  <2> QED
    BY <2>2, <2>3
<1>4. ASSUME NEW j \in Rows(Active, {c}, {b})' PROVE Held(c, b)
  <2>1. j \in Job /\ job'[j].stage \in Active /\ job'[j].client = c /\ job'[j].backend = b
    BY DEF Rows
  <2>2. RowTurn(j)
    BY <2>1, RowTurns
  <2>3. CASE \E r \in Reservations : job'[j].client = ClientOf(r) /\ job'[j].backend = BackendOf(r)
    BY <2>1, <2>3 DEF Held, OwnedBy
  <2>4. CASE job[j].stage \in Active /\ job[j].client = c /\ job[j].backend = b
    BY <2>1, <2>4 DEF Held, Rows
  <2>5. "plain" \notin faults /\ NoRow.stage = "free"
    BY DEF Prompt, NoRow
  <2> QED
    BY <2>1, <2>2, <2>3, <2>4, <2>5 DEF RowTurn, Active
<1> QED
  BY <1>2, <1>3, <1>4 DEF Held

LEMMA RegisteredStep ==
    ASSUME IInv, Prompt, NothingLapses, OneConnection, Registered, [Next]_<<faults, vars>>
    PROVE  Registered'
<1> SUFFICES ASSUME "depart" \in faults, NEW c \in Client, NEW b \in Backend, Held(c, b)'
             PROVE  c \in forever'[b] \/ Gone(c)'
  BY PromptStays DEF Registered
<1>1. SocketTyped
  BY DEF IInv, Typed
<1>2. CASE Gone(c)
  BY <1>2, GoneStays
<1>3. CASE ~Gone(c)
  <2>1. c \in forever[b]
    BY <1>3, HeldBefore DEF Registered
  <2>2. ASSUME NEW s \in Socket, Cleanup(s), StillAbandoned(sock[s].client, s),
               sock[s].client = c
        PROVE  Gone(c)'
    <3>1. /\ sock[s].state = "cleanup" /\ sock' = [sock EXCEPT ![s].state = "stop"]
          /\ UNCHANGED <<owner, live, on>> /\ owner[c] = None
      BY <2>2 DEF Cleanup, pageVars, StillAbandoned
    <3>2. live[c] = None /\ on[c] # {}
      BY <2>2, <3>1 DEF OneConnection
    <3>3. sock'[s].state = "stop" /\ \A t \in Socket : t # s => sock'[t] = sock[t]
      BY <1>1, <3>1, StateTurn
    <3>4. \A t \in Socket : t # s /\ sock[t].client = c => sock[t].state = "free"
      BY <2>2, <3>1 DEF OneConnection
    <3> QED
      BY <3>1, <3>2, <3>3, <3>4 DEF Gone
  <2>3. c \notin forever'[b] => Gone(c)'
    BY <2>1, <2>2, ForeverTurn
  <2> QED
    BY <2>3
<1> QED
  BY <1>2, <1>3

-----------------------------------------------------------------------------
(* Idle backends that can ask a page are dispatched.                       *)

\* A page that has a connection announced it, and asked for its backends.
LEMMA GreetedAsks ==
    ASSUME IInv, [Next]_<<faults, vars>>, NEW b \in Backend, NEW c \in forever[b],
           owner[c] = None, owner'[c] # None
    PROVE  waiting'[b] > 0
<1>1. SocketTyped /\ QueueTyped /\ FillTyped
  BY DEF IInv, Typed
<1>2. c \in Client
  BY <1>1 DEF QueueTyped
<1>3. ASSUME NEW s \in Socket, Greet(s) PROVE waiting'[b] > 0
  <2>1. owner' = [owner EXCEPT ![sock[s].client] = s]
        /\ Refill({a \in Backend : sock[s].client \in forever[a]})
    BY <1>3 DEF Greet
  <2>2. c = sock[s].client
    BY <1>1, <1>2, <2>1 DEF SocketTyped
  <2>3. b \in {a \in Backend : sock[s].client \in forever[a]}
    BY <2>2
  <2> QED
    BY <1>1, <2>1, <2>3, RefillEffect
<1>4. ASSUME NEW s \in Socket, Disconnect(s) PROVE FALSE
  BY <1>1, <1>2, <1>4 DEF Disconnect, SocketTyped
<1>5. ASSUME NEW s \in Socket, Cleanup(s) \/ StopSender(s) \/ CloseSocket(s) PROVE FALSE
  BY <1>5 DEF Cleanup, StopSender, CloseSocket
<1>6. ASSUME NEW d \in Client, PageLosesSocket(d) \/ \E s \in Socket : Connect(d, s) PROVE FALSE
  BY <1>6 DEF PageLosesSocket, Connect
<1> QED
  BY <1>3, <1>4, <1>5, <1>6, ConnectionSteps DEF SameConnections

\* A dispatch on an idle backend ends with a request, unless a page it knows has
\* no connection.
LEMMA DispatchEnds ==
    ASSUME IInv, Prompt, NothingLapses, SlotsRun, ReadIsFresh, [Next]_<<faults, vars>>,
           NEW b \in Backend, Filling(b), waiting[b] = 0, Idle(b), Idle(b)',
           NEW c \in forever[b], Unshared(c), CountedRight(c), \A d \in forever[b] : owner[d] # None
    PROVE  Filling(b)'
<1>1. QueueTyped /\ FillTyped /\ JobTyped /\ fill \in FillRecord /\ c \in Client
  BY DEF IInv, Typed, FillTyped, QueueTyped
<1>2. /\ fill.backend = b /\ fill.pc # "idle" /\ fill.clients = forever[b]
      /\ NoFill.pc = "idle"
  BY NoFillFacts DEF Filling, ReadIsFresh
<1>3. \A a \in Backend : ~FillBegin(a)
  BY <1>2, BeginEffect
<1>4. ~FillStep => Filling(b)'
  BY FillStays DEF Filling
<1>5. FillCapacity => Filling(b)'
  BY <1>1, <1>2, CapacityEffect DEF Filling, NothingLapses
<1>6. FillQueue => Filling(b)'
  BY <1>1, <1>2, QueueEffect DEF Filling
<1>7. FillPending => Filling(b)'
  <2> SUFFICES ASSUME FillPending, ~Filling(b)' PROVE FALSE
    OBVIOUS
  <2>1. fill.pc = "pending" /\ fill.room - Cardinality(pendingOf[b]) <= 0
    BY <1>1, <1>2, PendingEffect DEF Filling
  <2>2. pendingOf[b] = {}
    BY DEF IInv, Pending, Prompt, Idle
  <2>3. fill.room >= MaxConcurrent[b]
    BY <2>1 DEF ReadIsFresh
  <2>4. fill.room \in Int /\ MaxConcurrent[b] \in Nat \ {0} /\ Cardinality({}) = 0
    BY <1>1, ForeverAssumption, FS_EmptySet DEF FillRecord
  <2> QED
    BY <2>1, <2>2, <2>3, <2>4
<1>9. ASSUME NEW d \in Client, FillRows(d) \/ FillClient(d) PROVE Filling(b)'
  <2>1. fill'.pc \in {"clients", "tails", "send"} /\ fill'.backend = fill.backend
    BY <1>1, <1>9, RowsEffect, ClientEffect
  <2> QED
    BY <1>2, <2>1 DEF Filling
<1>8. ~FillSend
  <2> SUFFICES ASSUME FillSend PROVE FALSE
    OBVIOUS
  <2>1. fill.pc = "send" /\ fill.room > 0 /\ DOMAIN fill.active = forever[b]
    BY <1>2 DEF FillSend, ReadIsFresh
  <2>2. c \in WithCapacity(<<>>)
    <3>1. CASE Limit[c] = 0
      BY <1>2, <3>1 DEF WithCapacity
    <3>2. CASE OneBackend /\ Limit[c] # 0
      <4> DEFINE Work == Rows({"queued", "running"}, {c}, Backend)
                 again == {i \in DOMAIN <<>> : <<>>[i] = c}
      <4>1. Work = {}
        BY <1>1, <3>2 DEF Rows, Idle, Active, OneBackend
      <4>2. pendingBy[c] = {}
        <5>1. pendingBy[c] = OwnedBy(c, Backend)
          BY <1>1 DEF IInv, Pending, Prompt
        <5>2. OwnedBy(c, Backend) = {}
          BY <3>2 DEF OwnedBy, Idle, OwnedOn, OneBackend
        <5> QED
          BY <5>1, <5>2
      <4>3. fill.active[c] <= Cardinality(Work) + Discount(c) /\ Discount(c) = 0
        BY <2>1, <3>2 DEF ReadIsFresh, CountedRight, Discount
      <4>4. fill.active[c] \in Nat
        BY <1>1, <2>1 DEF FillRecord
      <4>5. again = {}
        OBVIOUS
      <4>6. Cardinality({}) = 0 /\ Limit[c] \in Nat
        BY <1>1, ForeverAssumption, FS_EmptySet
      <4> HIDE DEF Work, again
      <4>7. fill.active[c] + Cardinality(pendingBy[c]) + Cardinality(again) < Limit[c]
        BY <3>2, <4>1, <4>2, <4>3, <4>4, <4>5, <4>6
      <4> QED
        BY <1>2, <4>7 DEF WithCapacity, again
    <3> QED
      BY <3>1, <3>2 DEF Unshared
  <2>3. TurnAfter(<<>>) \in forever[b]
    <3> DEFINE C == WithCapacity(<<>>)
    <3>1. C \in SUBSET Client /\ C # {} /\ C \subseteq forever[b]
      BY <1>1, <1>2, <2>2 DEF WithCapacity, QueueTyped
    <3> HIDE DEF C
    <3>2. \A last : NextClient(last, C) \in forever[b]
      BY <3>1, TurnIsInList
    <3> QED
      BY <3>2 DEF TurnAfter, C
  <2>4. MayAsk(<<>>)
    BY <2>2, <2>3 DEF MayAsk
  <2>5. PICK new : /\ Sent(new) /\ ToSet(new) # {}
                   /\ \A r \in ToSet(new) : BackendOf(r) = fill.backend
    BY <2>1, <2>4, SendAsks
  <2>6. PICK r \in ToSet(new) : r \in Reservations' /\ BackendOf(r) = b
    BY <1>1, <1>2, <2>5, SentReservations
  <2> QED
    BY <2>6 DEF Idle, OwnedOn
<1> QED
  BY <1>3, <1>4, <1>5, <1>6, <1>7, <1>8, <1>9 DEF FillStep

LEMMA DispatchedStep ==
    ASSUME DispatchInv, [Next]_<<faults, vars>>
    PROVE  Dispatched'
<1> USE DEF DispatchInv
<1> SUFFICES ASSUME NEW b \in Backend, Idle(b)', NEW c \in forever'[b], Unshared(c),
                    CountedRight(c)', ~(waiting'[b] > 0), ~Filling(b)'
             PROVE  \E d \in forever'[b] : owner'[d] = None
  BY DEF Dispatched, Unshared, OneBackend
<1>8. CountedRight(c)
  BY PromptStays DEF CountedRight
<1>1. FillTyped /\ waiting'[b] \in 0..MaxWaiting /\ MaxWaiting \in Nat
  BY FillTypedStep, ForeverAssumption DEF IInv, Typed, FillTyped
<1>2. waiting'[b] = 0
  BY <1>1
<1>3. forever'[b] = forever[b] /\ Idle(b)
  BY <1>2, PagesStay, BusyStays
<1>4. ~FillBegin(b)
  <2> SUFFICES ASSUME FillBegin(b) PROVE FALSE
    OBVIOUS
  <2>1. fill'.pc = "capacity" /\ fill'.backend = b
    BY <1>3, BeginEffect
  <2> QED
    BY <2>1 DEF Filling
<1>5. waiting[b] = 0
  <2>1. waiting[b] \in Nat /\ waiting'[b] >= waiting[b]
    BY <1>4, CallsStay
  <2> QED
    BY <1>2, <2>1
<1>6. \E d \in forever[b] : owner[d] = None
  <2> SUFFICES ASSUME \A d \in forever[b] : owner[d] # None PROVE FALSE
    OBVIOUS
  <2>1. Filling(b)
    BY <1>3, <1>5, <1>8 DEF Dispatched
  <2> QED
    BY <1>3, <1>5, <1>8, <2>1, DispatchEnds
<1>7. ASSUME NEW d \in forever[b], owner[d] = None PROVE owner'[d] = None
  BY <1>7, GreetedAsks
<1> QED
  BY <1>3, <1>6, <1>7

LEMMA InitDispatch == Init /\ Prompt => DispatchInv
<1> SUFFICES ASSUME Init, Prompt PROVE DispatchInv
  OBVIOUS
<1>1. IInv
  BY InitIInv
<1>2. \A c \in Client : posts[c] \in Seq({"register"} \X Backend) /\ posts[c] = <<>>
  BY EmptySeq DEF Init
<1>3. \A s \in Socket : sock[s].state = "free"
  BY FreshSocket DEF Init
<1>4. NothingLapses /\ SlotsRun /\ Attended /\ OneConnection /\ Dispatched
  BY <1>2, <1>3 DEF Init, NothingLapses, SlotsRun, Attended, OneConnection, Dispatched
<1>5. Reservations = {} /\ \A j \in Job : job[j].stage = "free"
  BY DEF Init, Reservations, ToSet, NoRow
<1>6. fill = NoFill /\ ReadIsFresh
  BY NoFillFacts DEF Init, ReadIsFresh, Filling
<1>7. Registered
  BY <1>5, <1>6, NoFillFacts DEF Registered, Held, Filling, OwnedBy, Rows, Active
<1> QED
  BY <1>1, <1>4, <1>6, <1>7 DEF DispatchInv

LEMMA NextDispatch == DispatchInv /\ [Next]_<<faults, vars>> => DispatchInv'
<1> SUFFICES ASSUME DispatchInv, [Next]_<<faults, vars>> PROVE DispatchInv'
  OBVIOUS
<1>1. /\ IInv /\ Prompt /\ NothingLapses /\ SlotsRun /\ OneConnection /\ Attended /\ Registered
      /\ ReadIsFresh
  BY DEF DispatchInv
<1>2. IInv' /\ Prompt'
  BY <1>1, NextIInv, PromptStays
<1>3. NothingLapses' /\ SlotsRun' /\ OneConnection' /\ Attended'
  BY <1>1, NothingLapsesStep, SlotsRunStep, OneConnectionStep, AttendedStep
<1>4. Registered' /\ ReadIsFresh' /\ Dispatched'
  BY <1>1, RegisteredStep, ReadIsFreshStep, DispatchedStep
<1> QED
  BY <1>2, <1>3, <1>4 DEF DispatchInv

\* As long as requests are answered, backends stay and no page unregisters, and
\* the pages that leave do not come back, every page without a limit, or whose
\* backend is the only one and whose tails do not end between a dispatch's two
\* readings of it (:1047-1048), that waits on an idle backend is asked for work or
\* about to be: no dispatch is lost between two that run, to a lock that was
\* held, to another reading that went stale or to a page that answered, left or
\* connected meanwhile (generation_queue.py:990).
THEOREM FreePagesAreAsked ==
    Spec /\ Prompt /\ (\A c \in Client : Unshared(c)) => []AskedWhenFree
<1>1. DispatchInv /\ (\A c \in Client : Unshared(c)) => AskedWhenFree
  <2> SUFFICES ASSUME DispatchInv, \A c \in Client : Unshared(c),
                      NEW b \in up, NEW c \in forever[b], CountedRight(c), Quiet(c),
                      owner[c] # None,
                      (OwnedBy(c, Backend) \cup OwnedOn(b)) \ lapsed = {},
                      Rows({"claimed", "queued", "running"}, Client, {b}) = {}
               PROVE  FALSE
    BY DEF AskedWhenFree
  <2>1. IInv /\ NothingLapses /\ Attended /\ Dispatched
    BY DEF DispatchInv
  <2>2. b \in Backend /\ c \in Client
    BY <2>1 DEF NothingLapses, IInv, Typed, QueueTyped
  <2>3. Idle(b)
    BY <2>1 DEF Idle, Active, NothingLapses
  <2>4. waiting[b] = 0 /\ ~Filling(b)
    BY <2>2 DEF Quiet, LockFree, Filling
  <2>5. PICK d \in forever[b] : owner[d] = None
    BY <2>1, <2>2, <2>3, <2>4 DEF Dispatched
  <2>6. d \in Client /\ lastReg[d] \in Socket \cup {None} /\ live[d] \in Socket \cup {None}
    BY <2>1, <2>2 DEF IInv, Typed, QueueTyped, SocketTyped, PageTyped
  <2>7. \A s \in Socket : sock[s].state = "free" \/ (sock[s].state = "open" /\ sock[s].greeted)
    BY DEF Quiet
  <2>8. live[d] # None => sock[live[d]].state = "open"
    BY <2>1, <2>6 DEF IInv, Connected
  <2> QED
    BY <2>1, <2>2, <2>5, <2>6, <2>7, <2>8 DEF Attended, CleaningUp
<1>2. (\A c \in Client : Unshared(c)) => [](\A c \in Client : Unshared(c))
  <2>1. (\A c \in Client : Unshared(c)) => (\A c \in Client : Unshared(c))'
    BY DEF Unshared, OneBackend
  <2> QED
    BY <2>1, PTL
<1> QED
  BY <1>1, <1>2, InitDispatch, NextDispatch, PTL DEF Spec
=============================================================================
