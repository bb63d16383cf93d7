-------------------------- MODULE SequenceTracking --------------------------
(***************************************************************************)
(* Sequences: the state of one sequence and its operations                 *)
(* (core/sequences/collection.go), and the places that state is kept:      *)
(*                                                                         *)
(*   tracker  the server's one counter, shared by all sessions and         *)
(*            branches (Dolt's SequenceTracker), never rolled back, built  *)
(*            at start by merging what the branches store;                 *)
(*   head     the state stored in each branch;                             *)
(*   sess     for every session its working root, the root its             *)
(*            transaction began from, and the collection cached in the     *)
(*            session's context (core/context.go), which is written to     *)
(*            the working root only when a statement is closed.            *)
(*                                                                         *)
(* One sequence is followed.  Its name, owner, type, CACHE and is_called   *)
(* are left out: no operation below depends on them.                       *)
(***************************************************************************)
EXTENDS Integers

CONSTANTS
    Sessions,
    Branches,
    Definitions,    \* the states CREATE SEQUENCE may start from
    MinInt, MaxInt, \* the bounds of the machine integer
    SetValues,      \* the arguments setval is called with
    None            \* no state, no branch

VARIABLES
    tracker, head, sess,
    unread,     \* the branches the starting tracker has yet to read
    pending,    \* the values each session's statement in progress was given
    taken,      \* those its transaction's completed statements were given
    stored,     \* those of the transactions committed to each branch
    rewound,    \* the sequence was set back or started over
    refused     \* setval by a qualified name was refused: see Setval

values == <<pending, taken, stored>>

vars == <<tracker, head, sess, unread, pending, taken, stored, rewound,
          refused>>

\* The machine integers.
Int64 == MinInt .. MaxInt

\* The sum of two machine integers.
Wrap(x) ==
    IF x > MaxInt THEN x - (MaxInt - MinInt + 1)
    ELSE IF x < MinInt THEN x + (MaxInt - MinInt + 1)
    ELSE x

SequenceState ==
    [Start : Int64, Current : Int64, Increment : Int64, Minimum : Int64,
     Maximum : Int64, Cycle : BOOLEAN, IsAtEnd : BOOLEAN]

\* The state of two sequences that cannot be merged.
ZeroState ==
    [Start |-> 0, Current |-> 0, Increment |-> 0, Minimum |-> 0,
     Maximum |-> 0, Cycle |-> FALSE, IsAtEnd |-> FALSE]

\* Definitions that CREATE SEQUENCE accepts.
ASSUME SequenceAssumption ==
    /\ MinInt \in Int /\ MaxInt \in Int /\ MinInt < 0 /\ 0 < MaxInt
    /\ SetValues \subseteq Int64
    /\ None \notin SequenceState /\ None \notin Branches
    /\ \A q \in Definitions :
         /\ q \in SequenceState
         /\ q.Increment # 0
         /\ q.Minimum <= q.Start /\ q.Start <= q.Maximum
         /\ q.Current = q.Start /\ ~q.IsAtEnd

-----------------------------------------------------------------------------
(* The operations on one state.                                            *)

Lesser(a, b) == IF a < b THEN a ELSE b

Greater(a, b) == IF a > b THEN a ELSE b

WithValue(q, v) == [q EXCEPT !.Current = v, !.IsAtEnd = FALSE]

\* Next fails: the state is the invalid one, or it ended and does not cycle.
Exhausted(q) == q = ZeroState \/ (q.IsAtEnd /\ ~q.Cycle)

\* A sequence at its end starts over from its other bound.
Restarted(q) ==
    IF q.IsAtEnd
      THEN WithValue(q, IF q.Increment > 0 THEN q.Minimum ELSE q.Maximum)
      ELSE q

\* Faulty: the test for overflow is missing.
AtLastUnchecked(q) ==
    IF q.Increment > 0
      THEN Wrap(q.Current + q.Increment) > q.Maximum
      ELSE Wrap(q.Current + q.Increment) < q.Minimum

\* There is no value after the current one.
AtLast(q) ==
    IF q.Increment > 0
      THEN \/ q.Current > MaxInt - q.Increment
           \/ Wrap(q.Current + q.Increment) > q.Maximum
      ELSE \/ q.Current < MinInt - q.Increment
           \/ Wrap(q.Current + q.Increment) < q.Minimum

\* The value Next returns, and the state it leaves.
NextValue(q) == Restarted(q).Current

NextState(q) ==
    LET r == Restarted(q) IN
    IF AtLast(r) THEN [r EXCEPT !.IsAtEnd = TRUE]
                 ELSE [r EXCEPT !.Current = Wrap(@ + r.Increment)]

\* SetVal fails on a value outside the sequence's bounds.
OutOfBounds(q, v) == v < q.Minimum \/ v > q.Maximum

SetVal(q, v, autoAdvance) ==
    IF autoAdvance THEN NextState(WithValue(q, v)) ELSE WithValue(q, v)

\* q has wrapped around, judged by the start of p.
HasWrapped(p, q) ==
    IF p.Increment > 0 THEN q.Current < p.Start ELSE q.Current > p.Start

\* p is further along than q.
GreaterThan(p, q) ==
    IF HasWrapped(p, p) = HasWrapped(p, q)
      THEN IF p.Increment > 0 THEN p.Current > q.Current
                              ELSE p.Current < q.Current
      ELSE HasWrapped(p, p)

\* Faulty: the current value of the branch read first is kept.
MergeKeepingFirst(p, q) == [p EXCEPT !.IsAtEnd = p.IsAtEnd /\ q.IsAtEnd]

\* The merge of the states two branches store, when the server starts.
Merge(p, q) ==
    IF (p.Increment > 0) # (q.Increment > 0) THEN ZeroState
    ELSE LET Nearer(a, b) == IF p.Increment > 0 THEN Lesser(a, b)
                                                ELSE Greater(a, b)
         IN [Start     |-> Nearer(p.Start, q.Start),
             Current   |-> IF GreaterThan(p, q) THEN p.Current ELSE q.Current,
             Increment |-> IF p.Increment > 0
                             THEN Lesser(p.Increment, q.Increment)
                             ELSE Greater(p.Increment, q.Increment),
             Minimum   |-> Lesser(p.Minimum, q.Minimum),
             Maximum   |-> Greater(p.Maximum, q.Maximum),
             Cycle     |-> p.Cycle \/ q.Cycle,
             IsAtEnd   |-> p.IsAtEnd /\ q.IsAtEnd]

\* The side that changed since the ancestor, or what both sides agree on, or
\* the given compromise.
ResolveMergeValues(ours, theirs, ancestor, compromise) ==
    IF ours = ancestor THEN theirs
    ELSE IF theirs = ancestor \/ ours = theirs THEN ours
    ELSE compromise

\* The three-way merge of the states of two roots.
HandleMerge(ours, theirs, ancestor) ==
    LET Directed(up, down, mine) ==
          IF ours.Increment >= 0 /\ theirs.Increment >= 0 THEN up
          ELSE IF ours.Increment < 0 /\ theirs.Increment < 0 THEN down
          ELSE mine
        Resolve(o, t, a, compromise) == ResolveMergeValues(o, t, a, compromise)
    IN [ours EXCEPT
          !.Minimum = Resolve(@, theirs.Minimum, ancestor.Minimum,
                              Lesser(@, theirs.Minimum)),
          !.Maximum = Resolve(@, theirs.Maximum, ancestor.Maximum,
                              Greater(@, theirs.Maximum)),
          !.Cycle = Resolve(@, theirs.Cycle, ancestor.Cycle,
                            @ \/ theirs.Cycle),
          !.Increment = Resolve(@, theirs.Increment, ancestor.Increment,
                                Directed(Lesser(@, theirs.Increment),
                                         Greater(@, theirs.Increment), @)),
          !.Start = Resolve(@, theirs.Start, ancestor.Start,
                            Directed(Lesser(@, theirs.Start),
                                     Greater(@, theirs.Start), @)),
          !.Current = Resolve(@, theirs.Current, ancestor.Current,
                              Directed(Greater(@, theirs.Current),
                                       Lesser(@, theirs.Current), @))]

-----------------------------------------------------------------------------
(* The sessions.                                                           *)

\* The collection a session caches: the root state it was loaded from and
\* its contents now.  Writing the accessed sequences back to the contents
\* (writeCache) shows nowhere else, so the two are one.
Loaded(root) == [rootHash |-> root, contents |-> root]

NoCollection == [rootHash |-> None, contents |-> None]

IsStale(coll, root) == coll.rootHash # root

\* The cached collection, reloaded when the root moved beneath it.
collectionFromContext(x) ==
    IF IsStale(x.coll, x.root) THEN Loaded(x.root) ELSE x.coll

\* Faulty: the collection is written whether the root moved or not.
CloseContextRootFinalizerStale(x) ==
    IF x.coll = NoCollection THEN x
    ELSE [x EXCEPT !.root = x.coll.contents, !.coll = Loaded(x.coll.contents)]

\* Faulty: nor is it checked that a collection is cached.
CloseContextRootFinalizerNil(x) ==
    [x EXCEPT !.root = x.coll.contents, !.coll = Loaded(x.coll.contents)]

\* The finalizer of a statement: a stale collection is evicted, a changed
\* one is written to the session's root.
CloseContextRootFinalizer(x) ==
    IF IsStale(x.coll, x.root)
      THEN [x EXCEPT !.coll = NoCollection]
      ELSE [x EXCEPT !.root = x.coll.contents, !.coll = Loaded(x.coll.contents)]

\* A session between transactions.
Fresh == [stage |-> "idle", branch |-> None, base |-> None, root |-> None,
          coll |-> NoCollection]

\* No session, no branch holds a value.
NoValues(S) == [x \in S |-> {}]

\* The value v is still to come from q, which does not start over.
Upcoming(q, v) ==
    /\ ~q.IsAtEnd
    /\ IF q.Increment > 0 THEN v >= q.Current ELSE v <= q.Current

Init ==
    /\ \E q \in Definitions : tracker = q /\ head = [b \in Branches |-> q]
    /\ sess = [s \in Sessions |-> Fresh]
    /\ unread = {}
    /\ pending = NoValues(Sessions) /\ taken = NoValues(Sessions)
    /\ stored = NoValues(Branches)
    /\ rewound = FALSE /\ refused = FALSE

\* A transaction reads the branch.  Changing the branch clears the cache.
Begin(s, b) ==
    /\ unread = {}
    /\ sess[s].stage = "idle"
    /\ sess' = [sess EXCEPT ![s] =
         [stage |-> "transaction", branch |-> b, base |-> head[b],
          root |-> head[b],
          coll |-> IF @.branch = b THEN @.coll ELSE NoCollection]]
    /\ UNCHANGED <<tracker, head, unread, values, rewound, refused>>

\* A sequence that is set back or starts over issues its values again, as it
\* should: from then on no value is followed.
Rewind ==
    /\ rewound' = TRUE
    /\ pending' = NoValues(Sessions) /\ taken' = NoValues(Sessions)
    /\ stored' = NoValues(Branches)

\* The session's statement goes on, or fails.
Running(s) == sess[s].stage \in {"transaction", "statement"}

GoesOn(s, coll) ==
    sess' = [sess EXCEPT ![s].stage = "statement", ![s].coll = coll]

Fails(s, coll) ==
    sess' = [sess EXCEPT ![s].stage = "failing", ![s].coll = coll]

\* Faulty: the value comes from the session's own collection.
NextvalLocal(s) ==
    /\ Running(s)
    /\ LET coll == collectionFromContext(sess[s])
           next == NextValue(coll.contents)
       IN /\ ~Exhausted(coll.contents)
          /\ tracker' = NextState(coll.contents)
          /\ GoesOn(s, [coll EXCEPT !.contents = NextState(@)])
          /\ pending' = [pending EXCEPT ![s] = @ \cup {next}]
    /\ UNCHANGED <<head, unread, taken, stored, rewound, refused>>

\* nextval: the value comes from the tracker, and the cached collection is
\* set to it.
Nextval(s) ==
    /\ Running(s)
    /\ LET coll == collectionFromContext(sess[s])
           next == NextValue(tracker)
       IN \/ /\ Exhausted(tracker)
             /\ Fails(s, coll)
             /\ UNCHANGED <<tracker, values, rewound>>
          \/ /\ ~Exhausted(tracker)
             /\ OutOfBounds(coll.contents, next)
             /\ tracker' = NextState(tracker)
             /\ Fails(s, coll)
             /\ IF tracker.IsAtEnd THEN Rewind ELSE UNCHANGED <<values, rewound>>
          \/ /\ ~Exhausted(tracker)
             /\ ~OutOfBounds(coll.contents, next)
             /\ tracker' = NextState(tracker)
             /\ GoesOn(s, [coll EXCEPT !.contents = SetVal(@, next, TRUE)])
             /\ IF tracker.IsAtEnd THEN Rewind
                ELSE /\ pending' = IF rewound THEN pending
                                  ELSE [pending EXCEPT ![s] = @ \cup {next}]
                     /\ UNCHANGED <<taken, stored, rewound>>
    /\ UNCHANGED <<head, unread, refused>>

\* A bound: a sequence that was set back or started over is not set again.
MaySet == ~rewound

\* setval: the tracker is set, then the cached collection, which checks the
\* bounds.  By its bare name the sequence is read from the session's root.  By
\* its qualified name it is the one cached in the collection, and setting the
\* tracker sets it in place: a value refused afterwards stays in the cache.
Setval(s, v, autoAdvance, qualified) ==
    /\ MaySet
    /\ Running(s)
    /\ LET coll == collectionFromContext(sess[s])
           sequence == IF qualified THEN coll.contents ELSE sess[s].root
           nextState == SetVal(sequence, v, autoAdvance)
           tracked == IF qualified THEN [coll EXCEPT !.contents = nextState]
                      ELSE coll
       IN /\ tracker' = nextState
          /\ IF OutOfBounds(tracked.contents, v)
               THEN /\ Fails(s, tracked)
                    /\ refused' = (refused \/ qualified)
               ELSE /\ GoesOn(s, [tracked EXCEPT !.contents = SetVal(@, v, autoAdvance)])
                    /\ refused' = refused
    /\ IF Upcoming(tracker, v) THEN UNCHANGED <<values, rewound>> ELSE Rewind
    /\ UNCHANGED <<head, unread>>

\* A statement ends and is closed.
Close(s) ==
    /\ Running(s)
    /\ sess' = [sess EXCEPT ![s] =
                  [CloseContextRootFinalizer(@) EXCEPT !.stage = "transaction"]]
    /\ taken' = [taken EXCEPT ![s] = @ \cup pending[s]]
    /\ pending' = [pending EXCEPT ![s] = {}]
    /\ UNCHANGED <<tracker, head, unread, stored, rewound, refused>>

\* A statement fails.  One that returns rows is closed all the same, one that
\* returns only a count is not, and its changes stay in the cache.
Fail(s, closed) ==
    /\ sess[s].stage \in {"statement", "failing"}
    /\ sess' = [sess EXCEPT ![s] =
                  [(IF closed THEN CloseContextRootFinalizer(@) ELSE @)
                     EXCEPT !.stage = "failed"]]
    /\ pending' = [pending EXCEPT ![s] = {}]
    /\ UNCHANGED <<tracker, head, unread, taken, stored, rewound, refused>>

\* The transaction is rolled back; the cache may or may not be cleared.
Rollback(s, cleared) ==
    /\ sess[s].stage \in {"transaction", "failed"}
    /\ sess' = [sess EXCEPT ![s] =
         [Fresh EXCEPT !.branch = sess[s].branch,
                       !.coll = IF cleared THEN @ ELSE sess[s].coll]]
    /\ taken' = [taken EXCEPT ![s] = {}]
    /\ UNCHANGED <<tracker, head, unread, pending, stored, rewound, refused>>

\* The transaction is committed: when the branch moved since it began, the
\* two roots are merged.
Commit(s) ==
    /\ sess[s].stage = "transaction"
    /\ LET b == sess[s].branch IN
       /\ head' = [head EXCEPT ![b] =
                     IF @ = sess[s].base THEN sess[s].root
                     ELSE HandleMerge(@, sess[s].root, sess[s].base)]
       /\ stored' = [stored EXCEPT ![b] = @ \cup taken[s]]
    /\ taken' = [taken EXCEPT ![s] = {}]
    /\ sess' = [sess EXCEPT ![s] =
         [Fresh EXCEPT !.branch = sess[s].branch, !.coll = sess[s].coll]]
    /\ UNCHANGED <<tracker, unread, pending, rewound, refused>>

\* The server stops, at any time.  At start the tracker takes the state of
\* one branch and merges the others into it.
Restart(b) ==
    /\ tracker' = head[b]
    /\ unread' = Branches \ {b}
    /\ sess' = [s \in Sessions |-> Fresh]
    /\ pending' = NoValues(Sessions) /\ taken' = NoValues(Sessions)
    /\ UNCHANGED <<head, stored, rewound, refused>>

ReadBranch(b) ==
    /\ b \in unread
    /\ unread' = unread \ {b}
    /\ tracker' = Merge(tracker, head[b])
    /\ UNCHANGED <<head, sess, values, rewound, refused>>

Next ==
    \/ \E s \in Sessions, b \in Branches : Begin(s, b)
    \/ \E s \in Sessions : Nextval(s)
    \/ \E s \in Sessions, v \in SetValues, a, q \in BOOLEAN : Setval(s, v, a, q)
    \/ \E s \in Sessions : Close(s)
    \/ \E s \in Sessions, closed \in BOOLEAN : Fail(s, closed)
    \/ \E s \in Sessions, cleared \in BOOLEAN : Rollback(s, cleared)
    \/ \E s \in Sessions : Commit(s)
    \/ \E b \in Branches : Restart(b)
    \/ \E b \in Branches : ReadBranch(b)

Spec == Init /\ [][Next]_vars

-----------------------------------------------------------------------------
(* Properties.                                                             *)

Stages == {"idle", "transaction", "statement", "failing", "failed"}

\* The variables have their types: a session in a transaction has a root, and
\* the tracker holds a machine integer.
TypeOK ==
    /\ tracker \in SequenceState
    /\ head \in [Branches -> SequenceState]
    /\ \A s \in Sessions :
         /\ sess[s].stage \in Stages
         /\ sess[s].coll.contents \in SequenceState \cup {None}
         /\ IF sess[s].stage = "idle" THEN sess[s].root = None
            ELSE /\ sess[s].branch \in Branches
                 /\ {sess[s].base, sess[s].root} \subseteq SequenceState
    /\ unread \subseteq Branches
    /\ rewound \in BOOLEAN /\ refused \in BOOLEAN

\* Every value nextval returned is within the sequence's bounds, whatever
\* setval did to the tracker before its own check failed, and so is what the
\* branches store, as long as no setval by a qualified name was refused.
WithinBounds ==
    /\ refused \/ \A b \in Branches : ~OutOfBounds(head[b], head[b].Current)
    /\ \A b \in Branches : \A s \in Sessions :
         \A v \in stored[b] \cup taken[s] \cup pending[s] : ~OutOfBounds(head[b], v)

\* While the server runs the tracker has passed every value it gave to a
\* live transaction, committed or not, and no two statements hold the same.
IssuedOnce ==
    /\ \A s \in Sessions : \A v \in pending[s] \cup taken[s] : ~Upcoming(tracker, v)
    /\ \A s, t \in Sessions :
         s # t => (pending[s] \cup taken[s]) \cap (pending[t] \cup taken[t]) = {}

\* A branch does not lose the progress of a transaction committed to it,
\* whichever transactions were merged: no value the branch stores rows with
\* is to come again, except the sequence's last one.
BranchKeepsProgress ==
    \A b \in Branches : \A v \in stored[b] :
        Upcoming(head[b], v) => AtLast(WithValue(head[b], v))

\* Nor does the tracker after the start has merged all branches.
StoredNotReissued ==
    unread = {} =>
      \A b \in Branches : \A v \in stored[b] :
        Upcoming(tracker, v) => AtLast(WithValue(tracker, v))

\* HandleMerge takes the state "that has progressed the furthest": no value
\* of a committed row is to come again from the branch it is stored in.
TakesTheFurthest ==
    \A b \in Branches : \A v \in stored[b] : ~Upcoming(head[b], v)
=============================================================================
