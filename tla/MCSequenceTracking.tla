------------------------- MODULE MCSequenceTracking -------------------------
(* Small instances of SequenceTracking.                                          *)
EXTENDS SequenceTracking, TLC

Sequence(start, increment, min, max, cycle) ==
    [Start |-> start, Current |-> start, Increment |-> increment,
     Minimum |-> min, Maximum |-> max, Cycle |-> cycle, IsAtEnd |-> FALSE]

\* Counting up, in steps that would pass the largest and the smallest
\* integer, and in a cycle from the middle.
SmallDefinitions ==
    {Sequence(0, 1, 0, 1, FALSE), Sequence(1, 2, 1, 3, FALSE),
     Sequence(-1, -2, -4, -1, FALSE), Sequence(1, 1, 0, 2, TRUE)}

Lowest == -4

Symmetric == Permutations(Sessions) \cup Permutations(Branches)
=============================================================================
