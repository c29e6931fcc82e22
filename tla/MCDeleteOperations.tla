------------------------- MODULE MCDeleteOperations -------------------------
(* Small instances of DeleteOperations for TLC.                              *)
EXTENDS DeleteOperations

\* Who owns which media, and which of them are equal.
World(one, two, ofChat, content) ==
    [holds |-> [o \in Op |-> CASE o = 1 -> one [] o = 2 -> two [] OTHER -> ofChat],
     retired |-> [a \in Asset |-> {}], content |-> content]

With(world, slice, events, limit) ==
    [holds |-> world.holds, retired |-> world.retired, content |-> world.content,
     slice |-> slice, events |-> events, limit |-> limit]

\* Two assets of equal content.
Twins == World({1}, {2}, {}, <<"x", "x", "y">>)
\* An asset of two media, another of one, all different.
Pair == World({1, 2}, {3}, {}, <<"x", "y", "z">>)
\* An asset shares media with the chat, which has a copy of its other one.
Shared == World({1, 2}, {}, {1, 3}, <<"x", "y", "y">>)
\* A retired revision of the asset has media that the chat owns.
Kept == [World({2}, {}, {1}, <<"x", "y", "z">>) EXCEPT !.retired[1] = {1}]

Circumstances ==
    {With(Twins, 2, {"crash", "import", "adopt", "restore"}, 3),
     With(Pair, 2, {"crash", "import", "adopt", "restore"}, 2)}
      \cup {With(Twins, s, {"crash", "scrub", "retry"}, 3) : s \in {1, 2}}
      \cup {With(Pair, s, {"scrub", "retry", "busy"}, 3) : s \in {1, 2}}
      \cup {With(Twins, 2, {"crash", "unlink", "retry", "busy"}, 4)}
      \cup {With(w, 2, {"crash", "unlink", "retry", "busy"}, 3) : w \in {Pair, Shared}}
      \cup {With(Pair, 2, {"crash", "unlink", "retry", "import"}, 3)}
      \cup {With(Shared, 1, {"adopt", "crash", "scrub"}, 2), With(Kept, 1, {"crash"}, 1)}
      \cup {With(Twins, 2, {"late_adopt", "scrub", "retry"}, 3)}
      \cup {With(Shared, 2, {"late_adopt", "scrub", "retry"}, 2)}
      \cup {With(w, 2, {"late_adopt", "crash"}, 2) : w \in {Pair, Shared}}
      \cup {With(Pair, 2, {"late_adopt", "import"}, 2)}

\* Instances in which a property fails as the code stands (README, section 5).
\* CompletedIsGone: the second asset does not fit in the first slice, and the
\* chat keeps the media of the first.
Skipped == {With(World({1}, {2}, {1}, <<"x", "y", "z">>), 1, {}, 0)}
\* CompletedIsGone and BarredRowIsInHand: the rows of one of two media cannot be
\* deleted, and the process dies.
HalfScrubbed == {With(Pair, 2, {"crash", "scrub"}, 3)}
\* CompletedIsGone: one media's row could not be deleted, the file of the other
\* could not be removed, and the operation is retried.
BothRetried == {With(Pair, 2, {"scrub", "unlink", "retry"}, 4)}
\* OwnedBytesKept: what two operations removed is imported before both settle.
Reimported == {With(Shared, 2, {"crash", "import"}, 2)}
\* OwnedBytesKept: the object an operation retries to remove has been removed by
\* the other one, and imported again.
BrokenTwice == {With(Twins, 2, {"unlink", "retry", "import"}, 3)}
\* OwnedBytesKept, were the media of late owners not excluded: the chat had barred
\* its copy, the asset's copy takes the bytes along, and the owner comes then.
AdoptedLate == {With(Shared, 2, {"late_adopt"}, 1)}
\* EveryOperationEnds, were retired revisions not excluded.
RetainedRevision == {With(Kept, 1, {}, 0)}
=============================================================================
