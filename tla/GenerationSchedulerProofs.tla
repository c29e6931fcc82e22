---------------------- MODULE GenerationSchedulerProofs ----------------------
(***************************************************************************)
(* The round robin of GenerationScheduler is fair while generators stay    *)
(* backlogged, for every number of generators and every concurrency.       *)
(***************************************************************************)
EXTENDS GenerationScheduler, WellFoundedInduction, TLAPS

\* The turns after which y is served when x was served last.
Turns(x, y) == IF y > x THEN y - x ELSE y - x + N

\* The generator served last is still in the list, whoever does not wait was
\* passed over by nobody, and a generator that was passed over comes before
\* the one that passed it.
LastWaits == last # 0 => queued[last] > 0

NotWaiting == \A g, h \in Generator : queued[g] = 0 => overtaken[g][h] = 0

ComesFirst ==
    \A g, h \in Generator :
        overtaken[g][h] = 1 => last # 0 /\ g # h /\ Turns(last, g) < Turns(last, h)

IInv == TypeOK /\ FairShare /\ LastWaits /\ NotWaiting /\ ComesFirst

-----------------------------------------------------------------------------
\* A set of numbers has a least element, so First finds one.
LEMMA FirstIsLeast ==
    ASSUME NEW G \in SUBSET Generator, G # {}
    PROVE  First(G) \in G /\ \A g \in G : First(G) <= g
<1>1. G \subseteq Nat
  BY SchedulerAssumption DEF Generator
<1>2. PICK m \in G : \A g \in G : <<g, m>> \notin OpToRel(<, Nat)
  BY <1>1, WFMin, NatLessThanWellFounded, Zenon
<1>3. \A g \in G : ~(g < m)
  BY <1>1, <1>2, Zenon DEF OpToRel
<1>4. \A g \in G : m <= g
  BY <1>1, <1>3
<1> QED BY <1>4 DEF First

\* The next generator is a waiting one, and no waiting one has fewer turns to go.
LEMMA NextIsNearest ==
    ASSUME TypeOK, LastWaits, Waiting # {}
    PROVE  /\ NextGenerator(Waiting) \in Waiting
           /\ last # 0 => \A g \in Waiting :
                             Turns(last, NextGenerator(Waiting)) <= Turns(last, g)
<1> DEFINE after == {g \in Waiting : g > last}
           n == NextGenerator(Waiting)
<1>1. Waiting \subseteq Generator /\ after \subseteq Waiting /\ last \in 0..N
  BY DEF Waiting, TypeOK
<1>2. CASE last \in Waiting /\ after # {}
  <2>1. n = First(after)
    BY <1>2 DEF NextGenerator
  <2>2. n \in after /\ \A g \in after : n <= g
    BY <1>1, <1>2, <2>1, FirstIsLeast
  <2>3. ASSUME NEW g \in Waiting, last # 0
        PROVE  Turns(last, n) <= Turns(last, g)
    <3>1. g \in 1..N /\ n \in 1..N /\ last \in 0..N /\ n > last
      BY <1>1, <2>2 DEF Generator
    <3>2. g > last => n <= g
      BY <2>2
    <3> HIDE DEF n, after
    <3> QED BY <3>1, <3>2, SchedulerAssumption DEF Turns
  <2> QED BY <1>1, <2>2, <2>3
<1>3. CASE ~(last \in Waiting /\ after # {})
  <2>1. n = First(Waiting)
    BY <1>3 DEF NextGenerator
  <2>2. n \in Waiting /\ \A g \in Waiting : n <= g
    BY <1>1, <2>1, FirstIsLeast
  <2>3. ASSUME NEW g \in Waiting, last # 0
        PROVE  Turns(last, n) <= Turns(last, g)
    <3>1. last \in Waiting
      BY <1>1, <2>3, SchedulerAssumption DEF LastWaits, Waiting, Generator
    <3>2. ~(g > last) /\ ~(n > last)
      BY <1>3, <2>2, <3>1
    <3>3. n <= g
      BY <2>2
    <3>4. g \in 1..N /\ n \in 1..N /\ last \in 0..N
      BY <1>1, <2>2 DEF Generator
    <3> HIDE DEF n, after
    <3> QED BY <3>2, <3>3, <3>4, SchedulerAssumption DEF Turns
  <2> QED BY <2>2, <2>3
<1> QED BY <1>2, <1>3

-----------------------------------------------------------------------------
\* With nothing queued and nobody served, the invariant holds.
LEMMA InitIInv == Init => IInv
BY SchedulerAssumption
   DEF Init, IInv, TypeOK, FairShare, LastWaits, NotWaiting, ComesFirst, Generator

\* An assignment keeps the order: the one served moves behind all who wait.
LEMMA AssignIInv == Backlogged /\ IInv /\ Assign => IInv'
<1> SUFFICES ASSUME Backlogged, IInv, Assign
             PROVE  IInv'
  OBVIOUS
<1> DEFINE n == NextGenerator(Waiting)
<1> USE DEF IInv
<1>1. n \in Waiting /\ (last # 0 => \A g \in Waiting : Turns(last, n) <= Turns(last, g))
  BY NextIsNearest DEF Assign
<1>2. n \in Generator /\ last \in 0..N /\ queued[n] > 0
  BY <1>1 DEF Waiting, TypeOK
<1>3. last' = n /\ queued' = queued /\ running' = running + 1 /\ running < MaxConcurrent
  BY DEF Assign, Accepts
<1>4. \A w, h \in Generator :
         overtaken'[w][h] = CASE w = n -> 0
                              [] w # n /\ w \in Waiting /\ h = n /\ overtaken[w][h] < 2
                                   -> overtaken[w][h] + 1
                              [] OTHER -> overtaken[w][h]
  BY Zenon DEF Assign
<1>5. \A w, h \in Generator : overtaken[w][h] \in 0..1
  BY DEF TypeOK, FairShare
<1>6. \A w \in Waiting : w # n => overtaken[w][n] = 0
  <2> SUFFICES ASSUME NEW w \in Waiting, w # n, overtaken[w][n] # 0
               PROVE  FALSE
    OBVIOUS
  <2>1. w \in Generator
    BY DEF Waiting
  <2>2. overtaken[w][n] = 1
    BY <1>2, <1>5, <2>1
  <2>3. last # 0 /\ Turns(last, w) < Turns(last, n)
    BY <1>2, <2>1, <2>2 DEF ComesFirst
  <2>4. Turns(last, n) <= Turns(last, w)
    BY <1>1, <2>3
  <2> QED BY <1>2, <2>1, <2>3, <2>4, SchedulerAssumption DEF Turns, Generator
<1>7. \A w, h \in Generator :
         overtaken'[w][h] = IF w # n /\ w \in Waiting /\ h = n THEN 1
                            ELSE IF w = n THEN 0 ELSE overtaken[w][h]
  <2> SUFFICES ASSUME NEW w \in Generator, NEW h \in Generator
               PROVE  overtaken'[w][h] = IF w # n /\ w \in Waiting /\ h = n THEN 1
                                         ELSE IF w = n THEN 0 ELSE overtaken[w][h]
    OBVIOUS
  <2>1. CASE w = n
    BY <1>4, <2>1
  <2>2. CASE w # n /\ w \in Waiting /\ h = n
    BY <1>4, <1>6, <2>2
  <2>3. CASE w # n /\ ~(w \in Waiting /\ h = n)
    BY <1>4, <2>3
  <2> QED BY <2>1, <2>2, <2>3
<1>8. TypeOK'
  <2>1. \A w \in Generator : overtaken'[w] \in [Generator -> 0..2]
    <3> SUFFICES ASSUME NEW w \in Generator
                 PROVE  overtaken'[w] \in [Generator -> 0..2]
      OBVIOUS
    <3>1. overtaken'[w] = [h \in Generator |-> overtaken'[w][h]]
      BY Zenon DEF Assign
    <3>2. \A h \in Generator : overtaken'[w][h] \in 0..2
      BY <1>5, <1>7
    <3> QED BY <3>1, <3>2
  <2>2. overtaken' = [w \in Generator |-> overtaken'[w]]
    BY Zenon DEF Assign
  <2>3. overtaken' \in [Generator -> [Generator -> 0..2]]
    BY <2>1, <2>2
  <2>4. last' \in 0..N
    BY <1>2, <1>3 DEF Generator
  <2>5. running' \in 0..MaxConcurrent
    BY <1>3, SchedulerAssumption DEF TypeOK
  <2> QED BY <1>3, <2>3, <2>4, <2>5 DEF TypeOK
<1>9. FairShare'
  BY <1>5, <1>7 DEF FairShare
<1>10. LastWaits'
  BY <1>2, <1>3 DEF LastWaits
<1>11. NotWaiting'
  <2> SUFFICES ASSUME NEW w \in Generator, NEW h \in Generator, queued[w] = 0
               PROVE  overtaken'[w][h] = 0
    BY <1>3 DEF NotWaiting
  <2>1. w # n /\ w \notin Waiting
    BY <1>2 DEF Waiting
  <2> QED BY <1>7, <2>1 DEF NotWaiting
<1>12. ComesFirst'
  <2> SUFFICES ASSUME NEW w \in Generator, NEW h \in Generator, overtaken'[w][h] = 1
               PROVE  n # 0 /\ w # h /\ Turns(n, w) < Turns(n, h)
    BY <1>3 DEF ComesFirst, Turns
  <2>1. n # 0 /\ w # n
    BY <1>2, <1>7 DEF Generator
  <2>2. CASE w \in Waiting /\ h = n
    BY <1>2, <2>1, <2>2, SchedulerAssumption DEF Turns, Generator
  <2>3. CASE ~(w \in Waiting /\ h = n)
    <3>1. overtaken[w][h] = 1
      BY <1>7, <2>1, <2>3
    <3>2. last # 0 /\ w # h /\ Turns(last, w) < Turns(last, h)
      BY <3>1 DEF ComesFirst
    <3>3. w \in Waiting
      BY <3>1, <1>2 DEF NotWaiting, Waiting, TypeOK
    <3>4. Turns(last, n) <= Turns(last, w) /\ h # n
      BY <1>1, <2>3, <3>2, <3>3
    <3> QED BY <1>2, <2>1, <3>2, <3>4, SchedulerAssumption DEF Turns, Generator
  <2> QED BY <2>2, <2>3
<1> QED BY <1>8, <1>9, <1>10, <1>11, <1>12

\* Every step of a backlogged scheduler keeps the invariant.
LEMMA NextIInv == Backlogged /\ IInv /\ [Next]_vars => IInv'
<1> SUFFICES ASSUME Backlogged, IInv, [Next]_vars
             PROVE  IInv'
  OBVIOUS
<1> USE DEF IInv
<1>1. CASE \E g \in Generator : Submit(g)
  <2> PICK g \in Generator : Submit(g)
    BY <1>1
  <2>1. queued' = [queued EXCEPT ![g] = @ + 1] /\ queued[g] < MaxQueued
    BY DEF Submit
  <2>2. UNCHANGED <<running, last, overtaken>>
    BY DEF Submit
  <2>3. TypeOK'
    BY <2>1, <2>2, SchedulerAssumption DEF TypeOK
  <2>4. \A h \in Generator : queued'[h] >= queued[h]
    BY <2>1 DEF TypeOK
  <2>5. LastWaits'
    <3> SUFFICES ASSUME last # 0
                 PROVE  queued'[last] > 0
      BY <2>2 DEF LastWaits
    <3>1. last \in Generator /\ queued[last] > 0
      BY SchedulerAssumption DEF LastWaits, TypeOK, Generator
    <3>2. queued[last] \in Nat /\ queued'[last] \in Nat
      BY <2>3, <3>1, SchedulerAssumption DEF TypeOK
    <3> QED BY <2>4, <3>1, <3>2
  <2>6. NotWaiting'
    BY <2>2, <2>4 DEF NotWaiting, TypeOK
  <2>7. FairShare' /\ ComesFirst'
    BY <2>2 DEF FairShare, ComesFirst, Turns
  <2> QED BY <2>3, <2>5, <2>6, <2>7
<1>2. CASE Assign
  BY <1>2, AssignIInv
<1>3. CASE Finish
  <2>1. UNCHANGED <<queued, last, overtaken>> /\ running > 0 /\ running' = running - 1
    BY <1>3 DEF Finish
  <2>2. TypeOK'
    BY <2>1, SchedulerAssumption DEF TypeOK
  <2> QED BY <2>1, <2>2 DEF FairShare, LastWaits, NotWaiting, ComesFirst, Turns
<1>4. CASE UNCHANGED vars
  BY <1>4 DEF vars, TypeOK, FairShare, LastWaits, NotWaiting, ComesFirst, Turns
<1> QED BY <1>1, <1>2, <1>3, <1>4 DEF Next

-----------------------------------------------------------------------------
\* However many generators there are, while each queues its next job before
\* one of its jobs is assigned, the scheduler serves no generator twice while
\* another waits: it waits for at most N - 1 assignments.
THEOREM RoundRobinIsFair == Backlogged => (Spec => []FairShare)
<1>1. IInv => FairShare
  BY DEF IInv
<1>2. CASE Backlogged
  <2>1. IInv /\ [Next]_vars => IInv'
    BY <1>2, NextIInv
  <2>2. Spec => []FairShare
    BY <1>1, <2>1, InitIInv, PTL DEF Spec
  <2> QED BY <2>2
<1> QED BY <1>2
=============================================================================
