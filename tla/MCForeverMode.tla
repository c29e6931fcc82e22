--------------------------- MODULE MCForeverMode ---------------------------
(* Small instances of ForeverMode for TLC.                                 *)
EXTENDS ForeverMode

CONSTANTS c1, c2, c3, b1, b2, j1, j2, j3, s1, s2, s3

\* Ids compare as c1 < c2 < c3.
IdOrder == [c \in Client |-> CASE c = c1 -> 1 [] c = c2 -> 2 [] OTHER -> 3]

OneSlot == [b \in Backend |-> 1]
TwoSlots == [b \in Backend |-> 2]
LimitOne == [c \in Client |-> 1]
FirstUnlimited == [c \in Client |-> IF c = c1 THEN 0 ELSE 1]
NoLimit == [c \in Client |-> 0]

\* One page may leave, and a tail may end while a dispatch counts its page.
Departures == {{"depart"}, {"depart", "overtake"}}

\* A page stops, leaves and returns, early or late, with a network that may be
\* slow; or the provider is lost and requests end in every way they can.
ComingsAndGoings ==
    {{"lapse", "slow", "stop", "depart", "return", "late"},
     {"lapse", "loss", "stop", "ignore", "reject", "plain"}}

\* Rows and connections are only compared for equality.
Interchangeable == Permutations(Job) \cup Permutations(Socket)
=============================================================================
