----------------------- MODULE SequenceTrackingProofs -----------------------
(***************************************************************************)
(* Theorems about SequenceTracking for every set of sessions and branches, *)
(* every definition of the sequence and every width of the integers.       *)
(*                                                                         *)
(* Every state kept anywhere has the fields of the one definition d and    *)
(* differs in Current and IsAtEnd.  As long as the sequence was not set    *)
(* back, the places it is kept in are ordered: a transaction's base, its   *)
(* root, its collection, the tracker; and base, head, tracker.  Merging    *)
(* keeps the further of two states because both lie beyond their ancestor. *)
(* A value is passed by every state beyond the one it was given from.      *)
(* That the states are within the bounds of d is an invariant of its own,  *)
(* which ends with the first setval refused by a qualified name.           *)
(***************************************************************************)
EXTENDS SequenceTracking, TLAPS

-----------------------------------------------------------------------------
(* One state of a sequence and the operations on it, in the order of its  *)
(* values: nextval, setval and merge move it along.                        *)

\* The states of the sequence d, and those within its bounds.
Like(d) ==
    {q \in SequenceState :
       /\ q.Start = d.Start /\ q.Increment = d.Increment
       /\ q.Minimum = d.Minimum /\ q.Maximum = d.Maximum /\ q.Cycle = d.Cycle}

Within(d) ==
    {q \in Like(d) : d.Minimum <= q.Current /\ q.Current <= d.Maximum}

\* In the direction of d, a does not come after b.
Precedes(d, a, b) == IF d.Increment > 0 THEN a <= b ELSE b <= a

\* The state q has passed v, or v is the last value and q stands at it.
Passed(d, q, v) ==
    \/ v # q.Current /\ Precedes(d, v, q.Current)
    \/ v = q.Current /\ AtLast(q)

(* The sum of two machine integers is one, and is exact when it fits.      *)
LEMMA WrapFits ==
    ASSUME NEW x \in Int64, NEW y \in Int64
    PROVE  /\ Wrap(x + y) \in Int64
           /\ x + y \in Int64 => Wrap(x + y) = x + y
  BY SequenceAssumption DEF Wrap, Int64

(* A definition is a state of itself, within its bounds.                   *)
LEMMA DefinitionFits ==
    ASSUME NEW d \in Definitions
    PROVE  /\ d \in Within(d) /\ d \in Like(d) /\ d \in SequenceState
           /\ d.Increment # 0 /\ d.Current = d.Start
  BY SequenceAssumption DEF Within, Like

(* Setting a value gives the same sequence, not ended, at that value.      *)
LEMMA SetValue ==
    ASSUME NEW d \in Definitions, NEW q \in Like(d), NEW v \in Int64
    PROVE  /\ WithValue(q, v) \in Like(d)
           /\ WithValue(q, v).Current = v
           /\ ~WithValue(q, v).IsAtEnd
  BY ZenonT(30) DEF WithValue, Like, SequenceState

(* A sequence that has not ended moves on by its increment, or ends where  *)
(* it stands.                                                              *)
LEMMA NextMoves ==
    ASSUME NEW d \in Definitions, NEW q \in Like(d), ~q.IsAtEnd
    PROVE  /\ NextState(q) \in Like(d)
           /\ NextValue(q) = q.Current
           /\ \/ AtLast(q) /\ NextState(q).IsAtEnd /\ NextState(q).Current = q.Current
              \/ /\ ~NextState(q).IsAtEnd
                 /\ NextState(q).Current = q.Current + d.Increment
                 /\ IF d.Increment > 0 THEN NextState(q).Current <= d.Maximum
                                       ELSE NextState(q).Current >= d.Minimum
<1>1. /\ q \in SequenceState /\ q.Increment = d.Increment
      /\ q.Maximum = d.Maximum /\ q.Minimum = d.Minimum
      /\ q.Current \in Int64 /\ q.Increment \in Int64
  BY DEF Like, SequenceState
<1>2. Restarted(q) = q
  BY DEF Restarted
<1>3. CASE AtLast(q)
  <2>1. NextState(q) = [q EXCEPT !.IsAtEnd = TRUE]
    BY <1>2, <1>3 DEF NextState
  <2> QED
    BY <1>1, <1>2, <1>3, <2>1, ZenonT(30) DEF NextValue, Like, SequenceState
<1>4. CASE ~AtLast(q)
  <2>1. NextState(q) = [q EXCEPT !.Current = Wrap(q.Current + q.Increment)]
    BY <1>2, <1>4 DEF NextState
  <2>2. q.Current + q.Increment \in Int64
    BY <1>1, <1>4, SequenceAssumption DEF AtLast, Int64
  <2>3. Wrap(q.Current + q.Increment) = q.Current + q.Increment
    BY <1>1, <2>2, WrapFits
  <2>4. NextState(q).Current = q.Current + d.Increment /\ ~NextState(q).IsAtEnd
    BY <1>1, <2>1, <2>3 DEF SequenceState
  <2>5. NextState(q) \in Like(d)
    BY <1>1, <2>1, <2>2, <2>3 DEF Like, SequenceState
  <2>6. IF d.Increment > 0 THEN NextState(q).Current <= d.Maximum
                           ELSE NextState(q).Current >= d.Minimum
    BY <1>1, <1>4, <2>2, <2>3, <2>4, DefinitionFits DEF AtLast, Int64, SequenceState
  <2> QED
    BY <1>2, <2>4, <2>5, <2>6 DEF NextValue
<1> QED
  BY <1>3, <1>4

(* The state Next leaves has passed the value Next returned.               *)
LEMMA NextPasses ==
    ASSUME NEW d \in Definitions, NEW q \in Like(d), ~q.IsAtEnd
    PROVE  /\ Passed(d, NextState(q), q.Current)
           /\ Precedes(d, q.Current, NextState(q).Current)
           /\ ~Upcoming(NextState(q), q.Current)
<1>1. /\ d.Increment # 0 /\ d.Increment \in Int /\ q.Current \in Int
      /\ q.Increment = d.Increment
  BY DefinitionFits, SequenceAssumption DEF Like, SequenceState, Int64
<1>2. CASE NextState(q).IsAtEnd /\ NextState(q).Current = q.Current /\ AtLast(q)
  <2>1. AtLast(NextState(q))
    BY <1>2, NextMoves DEF AtLast, Like
  <2> QED
    BY <1>1, <1>2, <2>1 DEF Passed, Precedes, Upcoming
<1>3. CASE NextState(q).Current = q.Current + d.Increment
  <2>1. NextState(q).Increment = d.Increment
    BY NextMoves DEF Like
  <2> QED
    BY <1>1, <1>3, <2>1 DEF Passed, Precedes, Upcoming
<1> QED
  BY <1>2, <1>3, NextMoves

(* Whatever its state, a sequence that moves on remains the same sequence. *)
LEMMA NextLike ==
    ASSUME NEW d \in Definitions, NEW q \in Like(d)
    PROVE  /\ NextState(q) \in Like(d)
           /\ NextValue(q) \in Int64
<1>1. Restarted(q) \in Like(d) /\ ~Restarted(q).IsAtEnd
  BY ZenonT(30) DEF Restarted, WithValue, Like, SequenceState
<1>2. Restarted(Restarted(q)) = Restarted(q)
  BY <1>1 DEF Restarted
<1>3. NextState(q) = NextState(Restarted(q))
  BY <1>2 DEF NextState
<1> QED
  BY <1>1, <1>3, NextMoves DEF NextValue, Like, SequenceState

(* SetVal within the bounds stays within them, and depends on the value    *)
(* and the definition only.                                                *)
LEMMA SetValLike ==
    ASSUME NEW d \in Definitions, NEW q \in Like(d), NEW v \in Int64, NEW a \in BOOLEAN
    PROVE  /\ SetVal(q, v, a) \in Like(d)
           /\ Precedes(d, v, SetVal(q, v, a).Current)
           /\ d.Minimum <= v /\ v <= d.Maximum => SetVal(q, v, a) \in Within(d)
<1> DEFINE w == WithValue(q, v)
<1>1. w \in Like(d) /\ w.Current = v /\ ~w.IsAtEnd
  BY SetValue
<1>2. /\ d.Increment \in Int /\ v \in Int /\ d.Increment # 0
      /\ d.Minimum \in Int /\ d.Maximum \in Int
  BY DefinitionFits, SequenceAssumption DEF SequenceState, Int64
<1>3. CASE ~a
  BY <1>1, <1>2, <1>3 DEF SetVal, Precedes, Within
<1>4. CASE a
  <2>1. SetVal(q, v, a) = NextState(w)
    BY <1>4 DEF SetVal
  <2>2. /\ NextState(w) \in Like(d)
        /\ \/ NextState(w).Current = v
           \/ /\ NextState(w).Current = v + d.Increment
              /\ IF d.Increment > 0 THEN NextState(w).Current <= d.Maximum
                                    ELSE NextState(w).Current >= d.Minimum
    BY <1>1, NextMoves
  <2> HIDE DEF w
  <2> QED
    BY <1>2, <2>1, <2>2 DEF Precedes, Within
<1> QED
  BY <1>3, <1>4

(* What SetVal leaves does not depend on where the sequence stood.         *)
LEMMA SetValSame ==
    ASSUME NEW d \in Definitions, NEW p \in Like(d), NEW q \in Like(d), NEW v \in Int64,
           NEW a \in BOOLEAN
    PROVE  SetVal(p, v, a) = SetVal(q, v, a)
<1>1. WithValue(p, v) = WithValue(q, v)
  BY ZenonT(60) DEF WithValue, Like, SequenceState
<1> QED
  BY <1>1 DEF SetVal

(* A collection set to the value the tracker gave stands where the tracker *)
(* stands.                                                                 *)
LEMMA FollowsTracker ==
    ASSUME NEW d \in Definitions, NEW p \in Like(d), NEW q \in Like(d), ~q.IsAtEnd
    PROVE  SetVal(p, q.Current, TRUE) = NextState(q)
<1>1. WithValue(p, q.Current) = q
  BY ZenonT(30) DEF WithValue, Like, SequenceState
<1> QED
  BY <1>1 DEF SetVal

(* What a state has passed, every state further along has passed.          *)
LEMMA PassedFurther ==
    ASSUME NEW d \in Definitions, NEW p \in Like(d), NEW q \in Like(d),
           NEW v \in Int, Passed(d, p, v), Precedes(d, p.Current, q.Current)
    PROVE  Passed(d, q, v)
<1>1. /\ p.Current \in Int /\ q.Current \in Int
      /\ p.Increment = q.Increment /\ p.Maximum = q.Maximum /\ p.Minimum = q.Minimum
  BY SequenceAssumption DEF Like, SequenceState, Int64
<1>2. CASE p.Current = q.Current
  <2>1. AtLast(p) <=> AtLast(q)
    BY <1>1, <1>2 DEF AtLast
  <2> QED
    BY <1>2, <2>1 DEF Passed
<1>3. CASE p.Current # q.Current
  BY <1>1, <1>3 DEF Passed, Precedes
<1> QED
  BY <1>2, <1>3

(* A value a state has passed is not to come from it, unless it is last.   *)
LEMMA PassedUpcoming ==
    ASSUME NEW d \in Definitions, NEW q \in Like(d), NEW v \in Int64, Passed(d, q, v),
           Upcoming(q, v)
    PROVE  AtLast(WithValue(q, v))
<1>1. q.Current \in Int /\ q.Increment = d.Increment /\ v \in Int
  BY SequenceAssumption DEF Like, SequenceState, Int64
<1>2. v = q.Current /\ AtLast(q)
  BY <1>1 DEF Passed, Precedes, Upcoming
<1>3. WithValue(q, v) = q
  BY <1>2, ZenonT(30) DEF WithValue, Upcoming, Like, SequenceState
<1> QED
  BY <1>2, <1>3

(* The three-way merge of two states beyond their ancestor is the same     *)
(* sequence, at one of the two places, no less far than either.            *)
LEMMA HandleMergeLike ==
    ASSUME NEW d \in Definitions, NEW o \in Like(d), NEW t \in Like(d), NEW a \in Like(d)
    PROVE  /\ HandleMerge(o, t, a) \in Like(d)
           /\ Precedes(d, a.Current, o.Current) /\ Precedes(d, a.Current, t.Current)
                => /\ Precedes(d, o.Current, HandleMerge(o, t, a).Current)
                   /\ Precedes(d, t.Current, HandleMerge(o, t, a).Current)
           /\ HandleMerge(o, t, a).Current \in {o.Current, t.Current}
<1> DEFINE m == HandleMerge(o, t, a)
<1>1. /\ o \in SequenceState /\ t \in SequenceState /\ a \in SequenceState
      /\ o.Current \in Int /\ t.Current \in Int /\ a.Current \in Int
      /\ o.Increment = d.Increment /\ t.Increment = d.Increment /\ d.Increment \in Int
      /\ d.Increment # 0
  BY DefinitionFits, SequenceAssumption DEF Like, SequenceState, Int64
<1>2. /\ o.Start = t.Start /\ o.Minimum = t.Minimum /\ o.Maximum = t.Maximum
      /\ o.Cycle = t.Cycle /\ o.Increment = t.Increment
      /\ a.Start = t.Start /\ a.Minimum = t.Minimum /\ a.Maximum = t.Maximum
      /\ a.Cycle = t.Cycle /\ a.Increment = t.Increment
  BY DEF Like
<1>3. m = [o EXCEPT !.Current = m.Current]
  BY <1>1, <1>2, ZenonT(60) DEF HandleMerge, ResolveMergeValues, SequenceState
<1>4. m.Current = ResolveMergeValues(o.Current, t.Current, a.Current,
          IF d.Increment > 0 THEN Greater(o.Current, t.Current)
                             ELSE Lesser(o.Current, t.Current))
  BY <1>1, <1>2 DEF HandleMerge, SequenceState
<1> HIDE DEF m
<1>5. m.Current \in {o.Current, t.Current}
  BY <1>1, <1>4 DEF ResolveMergeValues, Greater, Lesser
<1>6. m \in Like(d)
  BY <1>3, <1>5 DEF Like, SequenceState
<1>7. ASSUME Precedes(d, a.Current, o.Current), Precedes(d, a.Current, t.Current)
      PROVE  Precedes(d, o.Current, m.Current) /\ Precedes(d, t.Current, m.Current)
  BY <1>1, <1>4, <1>7 DEF ResolveMergeValues, Greater, Lesser, Precedes
<1> QED
  BY <1>5, <1>6, <1>7 DEF m

(* So is the merge at start of two states that have not wrapped around.    *)
LEMMA MergeLike ==
    ASSUME NEW d \in Definitions, NEW p \in Like(d), NEW q \in Like(d)
    PROVE  /\ Merge(p, q) \in Like(d)
           /\ Precedes(d, d.Start, p.Current) /\ Precedes(d, d.Start, q.Current)
                => /\ Precedes(d, p.Current, Merge(p, q).Current)
                   /\ Precedes(d, q.Current, Merge(p, q).Current)
                   /\ Precedes(d, d.Start, Merge(p, q).Current)
<1> DEFINE m == Merge(p, q)
<1>1. /\ p \in SequenceState /\ q \in SequenceState
      /\ p.Current \in Int /\ q.Current \in Int
      /\ p.Increment = d.Increment /\ q.Increment = d.Increment
      /\ p.Start = d.Start /\ q.Start = d.Start /\ d.Start \in Int
      /\ p.Minimum = d.Minimum /\ q.Minimum = d.Minimum
      /\ p.Maximum = d.Maximum /\ q.Maximum = d.Maximum
      /\ p.Cycle = d.Cycle /\ q.Cycle = d.Cycle
  BY DefinitionFits, SequenceAssumption DEF Like, SequenceState, Int64
<1>2. /\ m = [Start |-> d.Start,
              Current |-> IF GreaterThan(p, q) THEN p.Current ELSE q.Current,
              Increment |-> d.Increment, Minimum |-> d.Minimum, Maximum |-> d.Maximum,
              Cycle |-> d.Cycle, IsAtEnd |-> p.IsAtEnd /\ q.IsAtEnd]
  BY <1>1 DEF Merge, Lesser, Greater, SequenceState
<1> HIDE DEF m
<1>3. m \in Like(d)
  BY <1>1, <1>2, DefinitionFits DEF Like, SequenceState
<1>4. ASSUME Precedes(d, d.Start, p.Current), Precedes(d, d.Start, q.Current)
      PROVE  /\ Precedes(d, p.Current, m.Current) /\ Precedes(d, q.Current, m.Current)
             /\ Precedes(d, d.Start, m.Current)
  BY <1>1, <1>2, <1>4 DEF GreaterThan, HasWrapped, Precedes
<1> QED
  BY <1>3, <1>4 DEF m

-----------------------------------------------------------------------------
(* The invariant.                                                          *)

Bounded(d) == SUBSET (d.Minimum .. d.Maximum)

SessionState(d) ==
    [stage : Stages, branch : Branches \cup {None}, base : Like(d) \cup {None},
     root : Like(d) \cup {None},
     coll : [rootHash : Like(d) \cup {None}, contents : Like(d) \cup {None}]]

Typed(d) ==
    /\ tracker \in Like(d)
    /\ head \in [Branches -> Like(d)]
    /\ sess \in [Sessions -> SessionState(d)]
    /\ unread \subseteq Branches
    /\ pending \in [Sessions -> Bounded(d)]
    /\ taken \in [Sessions -> Bounded(d)]
    /\ stored \in [Branches -> Bounded(d)]
    /\ rewound \in BOOLEAN

\* What a session has in each stage, and what it may hold values in.
PlacedSession(x) ==
    /\ x.stage = "idle" => x.root = None
    /\ x.stage # "idle" => x.branch # None /\ x.base # None /\ x.root # None
    /\ x.coll.rootHash # None => x.coll.contents # None
    /\ x.stage \in {"statement", "failing"} => x.coll.rootHash = x.root

Placed ==
    /\ \A s \in Sessions : PlacedSession(sess[s])
    /\ \A s \in Sessions : sess[s].stage = "idle" => taken[s] = {}
    /\ \A s \in Sessions : sess[s].stage \notin {"statement", "failing"} => pending[s] = {}
    /\ unread # {} => sess = [s \in Sessions |-> Fresh]

\* A session's states in their order, with the branches' heads h and the
\* tracker's value t.
OrderedSession(d, x, h, t) ==
    /\ x.stage # "idle" =>
         /\ Precedes(d, d.Start, x.root.Current)
         /\ Precedes(d, x.base.Current, x.root.Current)
         /\ Precedes(d, x.base.Current, h[x.branch].Current)
         /\ Precedes(d, x.root.Current, t)
    /\ x.coll.rootHash # None =>
         /\ Precedes(d, x.coll.rootHash.Current, x.coll.contents.Current)
         /\ Precedes(d, x.coll.contents.Current, t)

Ordered(d) ==
    /\ Precedes(d, d.Start, tracker.Current)
    /\ \A b \in Branches : Precedes(d, d.Start, head[b].Current)
    /\ \A b \in Branches \ unread : Precedes(d, head[b].Current, tracker.Current)
    /\ \A s \in Sessions : OrderedSession(d, sess[s], head, tracker.Current)

\* Each value is passed by the state kept beside it.
Behind(d) ==
    /\ \A s \in Sessions : \A v \in pending[s] : Passed(d, sess[s].coll.contents, v)
    /\ \A s \in Sessions : \A v \in taken[s] : Passed(d, sess[s].root, v)
    /\ \A b \in Branches : \A v \in stored[b] : Passed(d, head[b], v)

Nothing ==
    /\ pending = NoValues(Sessions) /\ taken = NoValues(Sessions)
    /\ stored = NoValues(Branches)

Good(d) ==
    /\ Typed(d)
    /\ Placed
    /\ Behind(d)
    /\ IssuedOnce
    /\ IF rewound THEN Nothing ELSE Ordered(d)

\* What a session holds is within the bounds of d.
InsideSession(d, x) ==
    {x.base, x.root, x.coll.rootHash, x.coll.contents} \subseteq Within(d) \cup {None}

\* No state kept in a branch or a session is out of bounds before setval by a
\* qualified name was refused.
Inside(d) ==
    /\ refused \in BOOLEAN
    /\ ~refused => /\ \A b \in Branches : head[b] \in Within(d)
                   /\ \A s \in Sessions : InsideSession(d, sess[s])

IInv == \E d \in Definitions : Good(d) /\ Inside(d)

(* Facts about the order and the types that every step uses.               *)
LEMMA Transitive ==
    ASSUME NEW d \in Definitions, NEW a \in Int, NEW b \in Int, NEW c \in Int,
           Precedes(d, a, b), Precedes(d, b, c)
    PROVE  Precedes(d, a, c)
  BY DEF Precedes

(* The order is reflexive.                                                 *)
LEMMA Reflexive == \A d \in Definitions, a \in Int : Precedes(d, a, a)
  BY DEF Precedes

(* The numbers of a state are integers, and what is stored is the sequence. *)
LEMMA CurrentIsInt ==
    ASSUME NEW d \in Definitions
    PROVE  /\ \A q \in Like(d) : q.Current \in Int /\ q.Current \in Int64
           /\ \A q \in Like(d) : q \in SequenceState /\ q # None
           /\ d.Start \in Int /\ d.Minimum \in Int /\ d.Maximum \in Int
           /\ \A v \in d.Minimum .. d.Maximum : v \in Int64 /\ v \in Int
  BY DefinitionFits, SequenceAssumption DEF Like, SequenceState, Int64

(* The collection a session works on is loaded from its root.              *)
LEMMA CollectionFits ==
    ASSUME NEW d \in Definitions, NEW x \in SessionState(d), PlacedSession(x),
           x.stage # "idle"
    PROVE  /\ collectionFromContext(x) \in [rootHash : Like(d), contents : Like(d)]
           /\ collectionFromContext(x).rootHash = x.root
           /\ x.coll.rootHash = x.root => collectionFromContext(x) = x.coll
           /\ \A h, t : OrderedSession(d, x, h, t) =>
                /\ Precedes(d, x.root.Current, collectionFromContext(x).contents.Current)
                /\ Precedes(d, collectionFromContext(x).contents.Current, t)
<1>1. x.root \in Like(d) /\ x.root.Current \in Int
  BY CurrentIsInt DEF SessionState, PlacedSession
<1>2. CASE IsStale(x.coll, x.root)
  <2>1. collectionFromContext(x) = [rootHash |-> x.root, contents |-> x.root]
    BY <1>2 DEF collectionFromContext, Loaded
  <2> QED
    BY <1>1, <1>2, <2>1, Reflexive DEF OrderedSession, IsStale
<1>3. CASE ~IsStale(x.coll, x.root)
  <2>1. collectionFromContext(x) = x.coll /\ x.coll.rootHash = x.root
    BY <1>3 DEF collectionFromContext, IsStale
  <2>2. x.coll.contents \in Like(d) /\ x.coll.rootHash # None
    BY <1>1, <2>1, CurrentIsInt DEF SessionState, PlacedSession
  <2> QED
    BY <1>1, <2>1, <2>2 DEF OrderedSession, SessionState
<1> QED
  BY <1>2, <1>3

(* The finalizer leaves the session with the contents of its collection,   *)
(* when that is not stale.                                                 *)
LEMMA Finalized ==
    ASSUME NEW d \in Definitions, NEW x \in SessionState(d), PlacedSession(x),
           x.stage # "idle", NEW g \in Stages \ {"idle", "statement", "failing"},
           NEW y, y = [CloseContextRootFinalizer(x) EXCEPT !.stage = g]
    PROVE  /\ y \in SessionState(d) /\ PlacedSession(y) /\ y.stage = g
           /\ x.coll.rootHash = x.root => y.root = x.coll.contents
           /\ x.coll.rootHash # x.root => y.root = x.root
           /\ \A h \in [Branches -> Like(d)], t \in Int :
                OrderedSession(d, x, h, t) => /\ OrderedSession(d, y, h, t)
                                              /\ Precedes(d, x.root.Current, y.root.Current)
<1>1. /\ x.root \in Like(d) /\ x.base \in Like(d) /\ x.branch \in Branches
      /\ x.root.Current \in Int /\ x.base.Current \in Int
  BY CurrentIsInt DEF SessionState, PlacedSession
<1>2. CASE x.coll.rootHash # x.root
  <2>1. y = [x EXCEPT !.coll = NoCollection, !.stage = g]
    BY <1>2 DEF CloseContextRootFinalizer, IsStale, SessionState
  <2>2. /\ y.stage = g /\ y.root = x.root /\ y.base = x.base /\ y.branch = x.branch
        /\ y.coll.rootHash = None /\ y \in SessionState(d)
    <3>1. NoCollection \in [rootHash : Like(d) \cup {None}, contents : Like(d) \cup {None}]
      BY DEF NoCollection
    <3>2. NoCollection.rootHash = None
      BY DEF NoCollection
    <3> QED
      BY <2>1, <3>1, <3>2, ZenonT(30) DEF SessionState
  <2> QED
    BY <1>1, <1>2, <2>2, Reflexive, CurrentIsInt DEF PlacedSession, OrderedSession
<1>3. CASE x.coll.rootHash = x.root
  <2> DEFINE k == x.coll.contents
  <2>1. k \in Like(d) /\ k.Current \in Int
    BY <1>1, <1>3, CurrentIsInt DEF SessionState, PlacedSession
  <2>2. y = [x EXCEPT !.root = k, !.coll = Loaded(k), !.stage = g]
    BY <1>3 DEF CloseContextRootFinalizer, IsStale, SessionState
  <2>3. /\ y.stage = g /\ y.root = k /\ y.base = x.base /\ y.branch = x.branch
        /\ y.coll = [rootHash |-> k, contents |-> k] /\ y \in SessionState(d)
    <3>1. /\ Loaded(k) = [rootHash |-> k, contents |-> k]
          /\ Loaded(k) \in [rootHash : Like(d) \cup {None}, contents : Like(d) \cup {None}]
      BY <2>1 DEF Loaded
    <3> HIDE DEF k
    <3> QED
      BY <2>1, <2>2, <3>1, ZenonT(30) DEF SessionState
  <2> HIDE DEF k
  <2>4. PlacedSession(y)
    BY <1>1, <2>1, <2>3, CurrentIsInt DEF PlacedSession
  <2>5. ASSUME NEW h \in [Branches -> Like(d)], NEW t \in Int, OrderedSession(d, x, h, t)
        PROVE  OrderedSession(d, y, h, t) /\ Precedes(d, x.root.Current, y.root.Current)
    <3>1. Precedes(d, x.root.Current, k.Current) /\ Precedes(d, k.Current, t)
      BY <1>1, <1>3, <2>5, CurrentIsInt DEF OrderedSession, k
    <3>2. Precedes(d, d.Start, k.Current) /\ Precedes(d, x.base.Current, k.Current)
      BY <1>1, <2>1, <2>5, <3>1, Transitive, CurrentIsInt DEF OrderedSession, PlacedSession
    <3> QED
      BY <1>1, <2>1, <2>3, <2>5, <3>1, <3>2, Reflexive DEF OrderedSession
  <2> QED
    BY <1>3, <2>3, <2>4, <2>5 DEF k
<1> QED
  BY <1>2, <1>3

(* A session's order holds for a tracker and heads further along.          *)
LEMMA OrderedFurther ==
    ASSUME NEW d \in Definitions, NEW x \in SessionState(d), PlacedSession(x),
           NEW h \in [Branches -> Like(d)], NEW k \in [Branches -> Like(d)],
           \A b \in Branches : Precedes(d, h[b].Current, k[b].Current),
           NEW t \in Int, NEW u \in Int, Precedes(d, t, u), OrderedSession(d, x, h, t)
    PROVE  OrderedSession(d, x, k, u)
<1>1. ASSUME x.stage # "idle"
      PROVE  /\ Precedes(d, x.base.Current, k[x.branch].Current)
             /\ Precedes(d, x.root.Current, u)
  <2>1. /\ x.branch \in Branches /\ x.base.Current \in Int /\ x.root.Current \in Int
        /\ h[x.branch].Current \in Int /\ k[x.branch].Current \in Int
    BY <1>1, CurrentIsInt DEF SessionState, PlacedSession
  <2> QED
    BY <1>1, <2>1, Transitive DEF OrderedSession
<1>2. ASSUME x.coll.rootHash # None
      PROVE  Precedes(d, x.coll.contents.Current, u)
  <2>1. x.coll.contents.Current \in Int
    BY <1>2, CurrentIsInt DEF SessionState, PlacedSession
  <2> QED
    BY <1>2, <2>1, Transitive DEF OrderedSession
<1> QED
  BY <1>1, <1>2 DEF OrderedSession

(* A step of one session that leaves the branches alone and does not move  *)
(* the tracker back keeps the order.                                       *)
LEMMA SessionStep ==
    ASSUME NEW d \in Definitions, Good(d), NEW s \in Sessions,
           NEW y \in SessionState(d), PlacedSession(y),
           sess' = [sess EXCEPT ![s] = y], unread = {}, unread' = unread,
           head' = head, tracker' \in Like(d)
    PROVE  /\ sess' \in [Sessions -> SessionState(d)] /\ sess'[s] = y
           /\ \A u \in Sessions : u # s => sess'[u] = sess[u]
           /\ \A u \in Sessions : PlacedSession(sess'[u])
           /\ /\ ~rewound
              /\ OrderedSession(d, y, head, tracker'.Current)
              /\ Precedes(d, tracker.Current, tracker'.Current)
              => Ordered(d)'
<1>1. /\ sess \in [Sessions -> SessionState(d)] /\ head \in [Branches -> Like(d)]
      /\ tracker \in Like(d) /\ \A u \in Sessions : PlacedSession(sess[u])
  BY DEF Good, Typed, Placed
<1>2. /\ sess' \in [Sessions -> SessionState(d)] /\ sess'[s] = y
      /\ \A u \in Sessions : u # s => sess'[u] = sess[u]
  BY <1>1
<1>3. \A u \in Sessions : PlacedSession(sess'[u])
  BY <1>1, <1>2
<1>4. ASSUME ~rewound, OrderedSession(d, y, head, tracker'.Current),
             Precedes(d, tracker.Current, tracker'.Current)
      PROVE  Ordered(d)'
  <2>1. /\ tracker.Current \in Int /\ tracker'.Current \in Int /\ d.Start \in Int
        /\ \A b \in Branches : head[b].Current \in Int
    BY <1>1, CurrentIsInt
  <2>2. Ordered(d)
    BY <1>4 DEF Good
  <2>3. Precedes(d, d.Start, tracker'.Current)
    BY <1>4, <2>1, <2>2, Transitive DEF Ordered
  <2>4. \A b \in Branches \ unread' : Precedes(d, head'[b].Current, tracker'.Current)
    BY <1>4, <2>1, <2>2, Transitive DEF Ordered
  <2>5. ASSUME NEW u \in Sessions
        PROVE  OrderedSession(d, sess'[u], head', tracker'.Current)
    <3>1. CASE u = s
      BY <1>2, <1>4, <3>1
    <3>2. CASE u # s
      <4>1. OrderedSession(d, sess[u], head, tracker.Current)
        BY <2>2 DEF Ordered
      <4>2. \A b \in Branches : Precedes(d, head[b].Current, head[b].Current)
        BY <2>1, Reflexive
      <4> QED
        BY <1>1, <1>2, <1>4, <2>1, <3>2, <4>1, <4>2, OrderedFurther
    <3> QED
      BY <3>1, <3>2
  <2> QED
    BY <2>2, <2>3, <2>4, <2>5 DEF Ordered
<1> QED
  BY <1>2, <1>3, <1>4

(* CREATE SEQUENCE establishes the invariant.                              *)
LEMMA InitGood == Init => IInv
<1> SUFFICES ASSUME Init PROVE IInv
  OBVIOUS
<1>1. PICK d \in Definitions : tracker = d /\ head = [b \in Branches |-> d]
  BY DEF Init
<1>2. d \in Like(d) /\ d \in Within(d) /\ d.Current = d.Start
  BY DefinitionFits
<1>3. /\ Fresh \in SessionState(d) /\ PlacedSession(Fresh) /\ Fresh.stage = "idle"
      /\ Fresh.coll.rootHash = None
  BY DEF Fresh, SessionState, NoCollection, PlacedSession, Stages
<1>4. Typed(d)
  <2>1. {} \in Bounded(d)
    BY DEF Bounded
  <2> QED
    BY <1>1, <1>2, <1>3, <2>1, ZenonT(30) DEF Init, Typed, NoValues
<1>5. Placed
  BY <1>3 DEF Init, Placed, NoValues
<1>6. Ordered(d)
  BY <1>1, <1>2, <1>3, Reflexive, CurrentIsInt DEF Init, Ordered, OrderedSession
<1>7. Behind(d) /\ IssuedOnce
  BY DEF Init, Behind, IssuedOnce, NoValues
<1>8. Inside(d)
  BY <1>1, <1>2 DEF Init, Inside, InsideSession, Fresh, NoCollection
<1> QED
  BY <1>4, <1>5, <1>6, <1>7, <1>8 DEF Init, IInv, Good

(* Beginning a transaction keeps the invariant.                            *)
LEMMA BeginGood ==
    ASSUME NEW d \in Definitions, Good(d), NEW s \in Sessions, NEW b \in Branches, Begin(s, b)
    PROVE  Good(d)'
<1> DEFINE x == sess[s]
           y == [stage |-> "transaction", branch |-> b, base |-> head[b], root |-> head[b],
                 coll |-> IF x.branch = b THEN x.coll ELSE NoCollection]
<1>1. /\ x \in SessionState(d) /\ PlacedSession(x) /\ x.stage = "idle"
      /\ head[b] \in Like(d) /\ head[b].Current \in Int /\ tracker \in Like(d)
      /\ taken[s] = {} /\ pending[s] = {}
  BY CurrentIsInt DEF Good, Typed, Placed, Begin
<1>2. /\ sess' = [sess EXCEPT ![s] = y] /\ unread = {} /\ unread' = unread
      /\ head' = head /\ tracker' = tracker
      /\ pending' = pending /\ taken' = taken /\ stored' = stored /\ rewound' = rewound
  BY DEF Begin, values
<1>3. NoCollection \in [rootHash : Like(d) \cup {None}, contents : Like(d) \cup {None}]
  BY DEF NoCollection
<1>4. y \in SessionState(d)
  BY <1>1, <1>3, ZenonT(30) DEF SessionState, Stages
<1>5. PlacedSession(y)
  BY <1>1, SequenceAssumption, CurrentIsInt, ZenonT(30) DEF PlacedSession, NoCollection
<1>6. ~rewound => OrderedSession(d, y, head, tracker.Current)
  BY <1>1, <1>2, Reflexive, CurrentIsInt DEF Good, Ordered, OrderedSession, NoCollection
<1>7. y.stage = "transaction" /\ y.root = head[b]
  OBVIOUS
<1> HIDE DEF y
<1>8. /\ sess' \in [Sessions -> SessionState(d)] /\ sess'[s] = y
      /\ \A u \in Sessions : u # s => sess'[u] = sess[u]
      /\ \A u \in Sessions : PlacedSession(sess'[u])
      /\ ~rewound => Ordered(d)'
  BY <1>1, <1>2, <1>4, <1>5, <1>6, SessionStep, Reflexive, CurrentIsInt, ZenonT(30)
<1>9. Typed(d)'
  BY <1>2, <1>8 DEF Good, Typed
<1>10. Placed'
  BY <1>1, <1>2, <1>7, <1>8, ZenonT(30) DEF Good, Placed
<1>11. Behind(d)' /\ IssuedOnce'
  BY <1>1, <1>2, <1>8 DEF Good, Behind, IssuedOnce
<1> QED
  BY <1>2, <1>8, <1>9, <1>10, <1>11 DEF Good, Nothing

(* A server that is still starting has no session at work.                 *)
LEMMA Started ==
    ASSUME NEW d \in Definitions, Good(d), NEW s \in Sessions, sess[s].stage # "idle"
    PROVE  unread = {}
<1>1. Fresh.stage = "idle"
  BY ZenonT(30) DEF Fresh
<1> QED
  BY <1>1 DEF Good, Placed

(* A session in a transaction: its states, and the integers in them.       *)
LEMMA AtWork ==
    ASSUME NEW d \in Definitions, Good(d), NEW s \in Sessions, sess[s].stage # "idle"
    PROVE  /\ sess[s] \in SessionState(d) /\ PlacedSession(sess[s])
           /\ sess[s].root \in Like(d) /\ sess[s].base \in Like(d)
           /\ sess[s].branch \in Branches
           /\ head \in [Branches -> Like(d)] /\ tracker \in Like(d)
           /\ tracker.Current \in Int
           /\ ~rewound => OrderedSession(d, sess[s], head, tracker.Current)
           /\ pending \in [Sessions -> Bounded(d)] /\ taken \in [Sessions -> Bounded(d)]
           /\ stored \in [Branches -> Bounded(d)]
<1>1. sess[s] \in SessionState(d) /\ PlacedSession(sess[s])
  BY DEF Good, Typed, Placed
<1>2. /\ sess[s].root \in Like(d) /\ sess[s].base \in Like(d)
      /\ sess[s].branch \in Branches
  BY <1>1 DEF SessionState, PlacedSession
<1> QED
  BY <1>1, <1>2, CurrentIsInt DEF Good, Typed, Ordered

(* Values given to a session before it was rewound are none.               *)
LEMMA NothingHeld ==
    ASSUME NEW d \in Definitions, Good(d), rewound
    PROVE  /\ \A s \in Sessions : pending[s] = {} /\ taken[s] = {}
           /\ \A b \in Branches : stored[b] = {}
  BY DEF Good, Nothing, NoValues

(* Setting the sequence back leaves no value to follow.                    *)
LEMMA RewindGood ==
    ASSUME NEW d \in Definitions, Good(d), NEW s \in Sessions, sess[s].stage # "idle",
           NEW y \in SessionState(d), PlacedSession(y), y.stage # "idle",
           sess' = [sess EXCEPT ![s] = y], unread' = unread, head' = head,
           tracker' \in Like(d), Rewind
    PROVE  Good(d)'
<1>1. unread = {}
  BY Started
<1>2. /\ sess' \in [Sessions -> SessionState(d)] /\ sess'[s] = y
      /\ \A u \in Sessions : u # s => sess'[u] = sess[u]
      /\ \A u \in Sessions : PlacedSession(sess'[u])
  BY <1>1, SessionStep, ZenonT(30)
<1>3. /\ Nothing' /\ rewound' = TRUE
      /\ \A u \in Sessions : pending'[u] = {} /\ taken'[u] = {}
      /\ \A b \in Branches : stored'[b] = {}
  BY DEF Rewind, Nothing, NoValues
<1>4. Typed(d)'
  <2>1. {} \in Bounded(d)
    BY ZenonT(30) DEF Bounded
  <2> QED
    BY <1>2, <1>3, <2>1 DEF Good, Typed, Rewind, NoValues
<1>5. Placed'
  BY <1>1, <1>2, <1>3 DEF Placed
<1>6. Behind(d)' /\ IssuedOnce'
  BY <1>3 DEF Behind, IssuedOnce
<1> QED
  BY <1>3, <1>4, <1>5, <1>6 DEF Good

(* A statement goes on, or fails, while the tracker moves forward, and the *)
(* values stay as they are.                                                *)
LEMMA ForwardGood ==
    ASSUME NEW d \in Definitions, Good(d), NEW s \in Sessions,
           sess[s].stage \in {"transaction", "statement"},
           NEW g \in {"statement", "failing"},
           NEW c \in [rootHash : Like(d), contents : Like(d)], c.rootHash = sess[s].root,
           sess' = [sess EXCEPT ![s] = [sess[s] EXCEPT !.stage = g, !.coll = c]],
           unread' = unread, head' = head, taken' = taken, stored' = stored,
           rewound' = rewound,
           tracker' \in Like(d),
           pending' \in [Sessions -> Bounded(d)],
           \A u \in Sessions : u # s => pending'[u] = pending[u],
           \A v \in pending'[s] : Passed(d, c.contents, v),
           IssuedOnce',
           rewound => pending' = pending,
           ~rewound => /\ Precedes(d, tracker.Current, tracker'.Current)
                       /\ Precedes(d, sess[s].root.Current, c.contents.Current)
                       /\ Precedes(d, c.contents.Current, tracker'.Current)
    PROVE  Good(d)'
<1> DEFINE x == sess[s]
           y == [x EXCEPT !.stage = g, !.coll = c]
<1>1. unread = {} /\ x.stage # "idle"
  BY Started
<1>2. /\ x \in SessionState(d) /\ PlacedSession(x)
      /\ head \in [Branches -> Like(d)] /\ tracker \in Like(d) /\ tracker.Current \in Int
      /\ ~rewound => OrderedSession(d, x, head, tracker.Current)
      /\ taken \in [Sessions -> Bounded(d)] /\ stored \in [Branches -> Bounded(d)]
  BY <1>1, AtWork
<1>3. /\ y \in SessionState(d) /\ PlacedSession(y) /\ y.stage = g /\ y.root = x.root
      /\ y.base = x.base /\ y.branch = x.branch /\ y.coll = c
  <2>1. c.rootHash = x.root /\ g \in Stages /\ g # "idle"
    BY DEF Stages
  <2> HIDE DEF x
  <2>2. /\ y.stage = g /\ y.root = x.root /\ y.coll = c /\ y.base = x.base
        /\ y.branch = x.branch /\ y \in SessionState(d)
    BY ONLY <1>2, <2>1, c \in [rootHash : Like(d), contents : Like(d)], ZenonT(30) DEF SessionState
  <2> HIDE DEF y
  <2>3. PlacedSession(y)
    BY <1>1, <1>2, <2>1, <2>2, CurrentIsInt DEF PlacedSession
  <2> QED
    BY <2>2, <2>3
<1>4. sess' = [sess EXCEPT ![s] = y] /\ tracker'.Current \in Int
  BY CurrentIsInt
<1> HIDE DEF y
<1>5. ~rewound => OrderedSession(d, y, head, tracker'.Current)
  <2>1. ASSUME ~rewound PROVE OrderedSession(d, x, head, tracker'.Current)
    <3>1. \A b \in Branches : Precedes(d, head[b].Current, head[b].Current)
      BY <1>2, Reflexive, CurrentIsInt
    <3> QED
      BY <1>2, <1>4, <2>1, <3>1, OrderedFurther
  <2> QED
    BY <1>1, <1>3, <2>1, CurrentIsInt DEF OrderedSession
<1>6. /\ sess' \in [Sessions -> SessionState(d)] /\ sess'[s] = y
      /\ \A u \in Sessions : u # s => sess'[u] = sess[u]
      /\ \A u \in Sessions : PlacedSession(sess'[u])
      /\ ~rewound => Ordered(d)'
  BY <1>1, <1>3, <1>4, <1>5, SessionStep, ZenonT(30)
<1>7. Typed(d)'
  BY <1>6 DEF Good, Typed
<1>8. Placed'
  BY <1>1, <1>3, <1>6 DEF Good, Placed
<1>9. Behind(d)'
  BY <1>3, <1>6 DEF Good, Behind
<1> QED
  BY <1>6, <1>7, <1>8, <1>9 DEF Good, Nothing

-----------------------------------------------------------------------------
(* The ends of statements and transactions and the restart of the server   *)
(* keep the invariant.                                                     *)

(* Closing a statement, which writes the cached collection, keeps it.      *)
LEMMA CloseGood ==
    ASSUME NEW d \in Definitions, Good(d), NEW s \in Sessions, Close(s)
    PROVE  Good(d)'
<1> DEFINE x == sess[s]
           y == [CloseContextRootFinalizer(x) EXCEPT !.stage = "transaction"]
<1>1. x.stage \in {"transaction", "statement"}
  BY DEF Close, Running
<1>2. /\ sess' = [sess EXCEPT ![s] = y] /\ unread' = unread
      /\ head' = head /\ tracker' = tracker
      /\ taken' = [taken EXCEPT ![s] = @ \cup pending[s]]
      /\ pending' = [pending EXCEPT ![s] = {}] /\ stored' = stored /\ rewound' = rewound
  BY DEF Close
<1>3. unread = {}
  BY <1>1, Started
<1>4. /\ x \in SessionState(d) /\ PlacedSession(x) /\ x.root \in Like(d)
      /\ head \in [Branches -> Like(d)] /\ tracker \in Like(d) /\ tracker.Current \in Int
      /\ ~rewound => OrderedSession(d, x, head, tracker.Current)
      /\ pending \in [Sessions -> Bounded(d)] /\ taken \in [Sessions -> Bounded(d)]
  BY <1>1, AtWork
<1>5. /\ y \in SessionState(d) /\ PlacedSession(y) /\ y.stage = "transaction"
      /\ x.coll.rootHash = x.root => y.root = x.coll.contents
      /\ x.coll.rootHash # x.root => y.root = x.root
      /\ ~rewound => /\ OrderedSession(d, y, head, tracker.Current)
                     /\ Precedes(d, x.root.Current, y.root.Current)
  <2>1. "transaction" \in Stages \ {"idle", "statement", "failing"} /\ x.stage # "idle"
    BY <1>1 DEF Stages
  <2> HIDE DEF x
  <2>2. /\ y \in SessionState(d) /\ PlacedSession(y) /\ y.stage = "transaction"
        /\ x.coll.rootHash = x.root => y.root = x.coll.contents
        /\ x.coll.rootHash # x.root => y.root = x.root
        /\ \A h \in [Branches -> Like(d)], t \in Int :
             OrderedSession(d, x, h, t) => /\ OrderedSession(d, y, h, t)
                                           /\ Precedes(d, x.root.Current, y.root.Current)
    BY <1>4, <2>1, Finalized, ZenonT(30)
  <2> QED
    BY <1>4, <2>2
<1> HIDE DEF y
<1>6. /\ sess' \in [Sessions -> SessionState(d)] /\ sess'[s] = y
      /\ \A u \in Sessions : u # s => sess'[u] = sess[u]
      /\ \A u \in Sessions : PlacedSession(sess'[u])
      /\ ~rewound => Ordered(d)'
  BY <1>2, <1>3, <1>4, <1>5, SessionStep, Reflexive, ZenonT(30)
<1>7. /\ taken' \in [Sessions -> Bounded(d)] /\ pending' \in [Sessions -> Bounded(d)]
      /\ taken'[s] = taken[s] \cup pending[s] /\ pending'[s] = {}
      /\ \A u \in Sessions : u # s => taken'[u] = taken[u] /\ pending'[u] = pending[u]
  BY <1>2, <1>4 DEF Bounded
<1>8. Typed(d)'
  BY <1>2, <1>6, <1>7 DEF Good, Typed
<1>9. Placed'
  BY <1>2, <1>3, <1>5, <1>6, <1>7, ZenonT(30) DEF Good, Placed
<1>10. ASSUME NEW v \in taken'[s] PROVE Passed(d, y.root, v)
  <2>1. v \in Int /\ ~rewound
    BY <1>7, <1>10, NothingHeld, CurrentIsInt, ZenonT(30) DEF Bounded
  <2>2. CASE v \in taken[s]
    <3>1. Passed(d, x.root, v)
      BY <2>2, ZenonT(30) DEF Good, Behind
    <3>2. x.root \in Like(d) /\ y.root \in Like(d)
      BY <1>4, <1>5, CurrentIsInt DEF SessionState, PlacedSession
    <3> QED
      BY <1>5, <2>1, <3>1, <3>2, PassedFurther
  <2>3. CASE v \in pending[s]
    <3>1. x.stage \in {"statement", "failing"} /\ Passed(d, x.coll.contents, v)
      BY <2>3, ZenonT(30) DEF Good, Behind, Placed
    <3>2. x.coll.rootHash = x.root
      BY <1>4, <3>1 DEF PlacedSession
    <3> QED
      BY <1>5, <3>1, <3>2, ZenonT(30)
  <2> QED
    BY <1>7, <1>10, <2>2, <2>3
<1>11. Behind(d)'
  BY <1>2, <1>6, <1>7, <1>10, ZenonT(30) DEF Good, Behind
<1>12. IssuedOnce'
  <2>1. \A u \in Sessions : pending'[u] \cup taken'[u] = pending[u] \cup taken[u]
    BY <1>7
  <2> QED
    BY <1>2, <2>1 DEF Good, IssuedOnce
<1>13. rewound => Nothing'
  BY <1>2, <1>7, NothingHeld, ZenonT(30) DEF Good, Nothing, NoValues
<1> QED
  BY <1>2, <1>6, <1>8, <1>9, <1>11, <1>12, <1>13 DEF Good

(* So does a failing statement, closed or not.                             *)
LEMMA FailGood ==
    ASSUME NEW d \in Definitions, Good(d), NEW s \in Sessions, NEW closed \in BOOLEAN,
           Fail(s, closed)
    PROVE  Good(d)'
<1> DEFINE x == sess[s]
           y == [(IF closed THEN CloseContextRootFinalizer(x) ELSE x) EXCEPT !.stage = "failed"]
<1>1. x.stage \in {"statement", "failing"}
  BY DEF Fail
<1>2. /\ sess' = [sess EXCEPT ![s] = y] /\ unread' = unread
      /\ head' = head /\ tracker' = tracker /\ taken' = taken
      /\ pending' = [pending EXCEPT ![s] = {}] /\ stored' = stored /\ rewound' = rewound
  BY DEF Fail
<1>3. unread = {}
  BY <1>1, Started
<1>4. /\ x \in SessionState(d) /\ PlacedSession(x) /\ x.root \in Like(d)
      /\ head \in [Branches -> Like(d)] /\ tracker \in Like(d) /\ tracker.Current \in Int
      /\ ~rewound => OrderedSession(d, x, head, tracker.Current)
      /\ pending \in [Sessions -> Bounded(d)] /\ taken \in [Sessions -> Bounded(d)]
  BY <1>1, AtWork
<1>5. /\ y \in SessionState(d) /\ PlacedSession(y) /\ y.stage = "failed"
      /\ ~rewound => /\ OrderedSession(d, y, head, tracker.Current)
                     /\ Precedes(d, x.root.Current, y.root.Current)
  <2>1. "failed" \in Stages \ {"idle", "statement", "failing"} /\ x.stage # "idle"
    BY <1>1, ZenonT(30) DEF Stages
  <2> HIDE DEF x
  <2>2. CASE closed
    <3> DEFINE z == [CloseContextRootFinalizer(x) EXCEPT !.stage = "failed"]
    <3>1. y = z
      BY <2>2
    <3>2. /\ z \in SessionState(d) /\ PlacedSession(z) /\ z.stage = "failed"
          /\ x.coll.rootHash = x.root => z.root = x.coll.contents
          /\ x.coll.rootHash # x.root => z.root = x.root
          /\ \A h \in [Branches -> Like(d)], t \in Int :
               OrderedSession(d, x, h, t) => /\ OrderedSession(d, z, h, t)
                                             /\ Precedes(d, x.root.Current, z.root.Current)
      BY <1>4, <2>1, Finalized, ZenonT(30)
    <3> HIDE DEF y, z
    <3> QED
      BY <1>4, <3>1, <3>2
  <2>3. CASE ~closed
    <3>1. y = [x EXCEPT !.stage = "failed"]
      BY <2>3
    <3> HIDE DEF y
    <3>2. /\ y.stage = "failed" /\ y.root = x.root /\ y.base = x.base /\ y.branch = x.branch
          /\ y.coll = x.coll /\ y \in SessionState(d)
      BY <1>4, <2>1, <3>1 DEF SessionState
    <3>3. x.root.Current \in Int /\ Precedes(d, x.root.Current, x.root.Current)
      BY <1>4, Reflexive, CurrentIsInt
    <3>4. PlacedSession(y)
      BY <1>4, <2>1, <3>2, ZenonT(30) DEF PlacedSession
    <3>5. ~rewound => OrderedSession(d, y, head, tracker.Current)
      BY <1>4, <2>1, <3>2 DEF OrderedSession
    <3> QED
      BY <3>2, <3>3, <3>4, <3>5
  <2> QED
    BY <2>2, <2>3
<1> HIDE DEF y
<1>6. /\ sess' \in [Sessions -> SessionState(d)] /\ sess'[s] = y
      /\ \A u \in Sessions : u # s => sess'[u] = sess[u]
      /\ \A u \in Sessions : PlacedSession(sess'[u])
      /\ ~rewound => Ordered(d)'
  BY <1>2, <1>3, <1>4, <1>5, SessionStep, Reflexive, ZenonT(30)
<1>7. /\ pending' \in [Sessions -> Bounded(d)] /\ pending'[s] = {}
      /\ \A u \in Sessions : u # s => pending'[u] = pending[u]
  BY <1>2, <1>4 DEF Bounded
<1>8. Typed(d)'
  BY <1>2, <1>6, <1>7 DEF Good, Typed
<1>9. Placed'
  BY <1>2, <1>3, <1>5, <1>6, <1>7, ZenonT(30) DEF Good, Placed
<1>10. ASSUME NEW v \in taken[s] PROVE Passed(d, y.root, v)
  <2>1. v \in Int /\ ~rewound
    BY <1>4, <1>10, NothingHeld, CurrentIsInt, ZenonT(30) DEF Bounded
  <2>2. x.root \in Like(d) /\ y.root \in Like(d)
    BY <1>4, <1>5, CurrentIsInt, ZenonT(30) DEF SessionState, PlacedSession
  <2>3. Passed(d, x.root, v)
    BY ZenonT(30) DEF Good, Behind
  <2> QED
    BY <1>5, <2>1, <2>2, <2>3, PassedFurther, ZenonT(30)
<1>11. Behind(d)'
  BY <1>2, <1>6, <1>7, <1>10, ZenonT(30) DEF Good, Behind
<1>12. IssuedOnce'
  BY <1>2, <1>7 DEF Good, IssuedOnce
<1>13. rewound => Nothing'
  BY <1>2, <1>7, NothingHeld, ZenonT(30) DEF Good, Nothing, NoValues
<1> QED
  BY <1>2, <1>6, <1>8, <1>9, <1>11, <1>12, <1>13 DEF Good

(* A session between transactions that keeps its collection.               *)
LEMMA Ended ==
    ASSUME NEW d \in Definitions, NEW x \in SessionState(d), PlacedSession(x),
           NEW c \in {x.coll, NoCollection},
           NEW y, y = [Fresh EXCEPT !.branch = x.branch, !.coll = c]
    PROVE  /\ y \in SessionState(d) /\ PlacedSession(y) /\ y.stage = "idle"
           /\ \A h, k, t : OrderedSession(d, x, h, t) => OrderedSession(d, y, k, t)
<1>1. /\ c \in [rootHash : Like(d) \cup {None}, contents : Like(d) \cup {None}]
      /\ c.rootHash # None => c = x.coll
  BY DEF NoCollection, SessionState
<1>2. /\ y.stage = "idle" /\ y.root = None /\ y.base = None /\ y.branch = x.branch /\ y.coll = c
      /\ y \in SessionState(d)
  BY <1>1, ZenonT(30) DEF Fresh, SessionState, Stages
<1> QED
  BY <1>1, <1>2 DEF PlacedSession, OrderedSession

(* So does a rollback, with the cache cleared or not.                      *)
LEMMA RollbackGood ==
    ASSUME NEW d \in Definitions, Good(d), NEW s \in Sessions, NEW cleared \in BOOLEAN,
           Rollback(s, cleared)
    PROVE  Good(d)'
<1> DEFINE x == sess[s]
           c == IF cleared THEN NoCollection ELSE x.coll
           y == [Fresh EXCEPT !.branch = x.branch, !.coll = c]
<1>1. x.stage \in {"transaction", "failed"}
  BY DEF Rollback
<1>2. /\ sess' = [sess EXCEPT ![s] = y] /\ unread' = unread
      /\ head' = head /\ tracker' = tracker /\ pending' = pending
      /\ taken' = [taken EXCEPT ![s] = {}] /\ stored' = stored /\ rewound' = rewound
  BY DEF Rollback, Fresh
<1>3. unread = {} /\ pending[s] = {}
  BY <1>1, Started, ZenonT(30) DEF Good, Placed
<1>4. /\ x \in SessionState(d) /\ PlacedSession(x)
      /\ head \in [Branches -> Like(d)] /\ tracker \in Like(d) /\ tracker.Current \in Int
      /\ ~rewound => OrderedSession(d, x, head, tracker.Current)
      /\ taken \in [Sessions -> Bounded(d)]
  BY <1>1, AtWork
<1>5. /\ y \in SessionState(d) /\ PlacedSession(y) /\ y.stage = "idle"
      /\ ~rewound => OrderedSession(d, y, head, tracker.Current)
  <2>1. c \in {x.coll, NoCollection}
    OBVIOUS
  <2> HIDE DEF x, c
  <2>2. /\ y \in SessionState(d) /\ PlacedSession(y) /\ y.stage = "idle"
        /\ \A h, k, t : OrderedSession(d, x, h, t) => OrderedSession(d, y, k, t)
    BY <1>4, <2>1, Ended, ZenonT(30)
  <2> QED
    BY <1>4, <2>2
<1> HIDE DEF y
<1>6. /\ sess' \in [Sessions -> SessionState(d)] /\ sess'[s] = y
      /\ \A u \in Sessions : u # s => sess'[u] = sess[u]
      /\ \A u \in Sessions : PlacedSession(sess'[u])
      /\ ~rewound => Ordered(d)'
  BY <1>2, <1>3, <1>4, <1>5, SessionStep, Reflexive, ZenonT(30)
<1>7. /\ taken' \in [Sessions -> Bounded(d)] /\ taken'[s] = {}
      /\ \A u \in Sessions : u # s => taken'[u] = taken[u]
  BY <1>2, <1>4 DEF Bounded
<1>8. Typed(d)'
  BY <1>2, <1>6, <1>7 DEF Good, Typed
<1>9. Placed'
  BY <1>2, <1>3, <1>5, <1>6, <1>7, ZenonT(30) DEF Good, Placed
<1>10. Behind(d)'
  BY <1>2, <1>3, <1>6, <1>7, ZenonT(30) DEF Good, Behind
<1>11. IssuedOnce'
  BY <1>2, <1>7 DEF Good, IssuedOnce
<1>12. rewound => Nothing'
  BY <1>2, <1>7, NothingHeld, ZenonT(30) DEF Good, Nothing, NoValues
<1> QED
  BY <1>2, <1>6, <1>8, <1>9, <1>10, <1>11, <1>12 DEF Good

(* So does a commit, with the three-way merge if the branch moved.         *)
LEMMA CommitGood ==
    ASSUME NEW d \in Definitions, Good(d), NEW s \in Sessions, Commit(s)
    PROVE  Good(d)'
<1> DEFINE x == sess[s]
           b == x.branch
           m == IF head[b] = x.base THEN x.root ELSE HandleMerge(head[b], x.root, x.base)
           y == [Fresh EXCEPT !.branch = x.branch, !.coll = x.coll]
<1>1. x.stage = "transaction"
  BY DEF Commit
<1>2. /\ sess' = [sess EXCEPT ![s] = y] /\ unread' = unread /\ tracker' = tracker
      /\ head' = [head EXCEPT ![b] = m] /\ pending' = pending
      /\ taken' = [taken EXCEPT ![s] = {}]
      /\ stored' = [stored EXCEPT ![b] = @ \cup taken[s]] /\ rewound' = rewound
  BY DEF Commit
<1>3. unread = {} /\ pending[s] = {}
  BY <1>1, Started DEF Good, Placed
<1>4. /\ x \in SessionState(d) /\ PlacedSession(x) /\ x.root \in Like(d)
      /\ x.base \in Like(d) /\ b \in Branches
      /\ head \in [Branches -> Like(d)] /\ tracker \in Like(d) /\ tracker.Current \in Int
      /\ ~rewound => OrderedSession(d, x, head, tracker.Current)
      /\ taken \in [Sessions -> Bounded(d)] /\ stored \in [Branches -> Bounded(d)]
  BY <1>1, AtWork
<1>5. /\ y \in SessionState(d) /\ PlacedSession(y) /\ y.stage = "idle"
      /\ \A h, k, t : OrderedSession(d, x, h, t) => OrderedSession(d, y, k, t)
  <2>1. x.coll \in {x.coll, NoCollection}
    OBVIOUS
  <2> HIDE DEF x
  <2> QED
    BY <1>4, <2>1, Ended, ZenonT(30)
<1>6. /\ m \in Like(d)
      /\ ~rewound => /\ Precedes(d, head[b].Current, m.Current)
                     /\ Precedes(d, x.root.Current, m.Current)
                     /\ m.Current \in {head[b].Current, x.root.Current}
  <2>1. head[b] \in Like(d) /\ x.root.Current \in Int
    BY <1>4, CurrentIsInt, ZenonT(30)
  <2>2. ~rewound => /\ Precedes(d, x.base.Current, head[b].Current)
                    /\ Precedes(d, x.base.Current, x.root.Current)
    BY <1>1, <1>4, ZenonT(30) DEF OrderedSession
  <2>3. CASE head[b] = x.base
    <3>1. m = x.root
      BY <2>3
    <3> HIDE DEF m, x, b
    <3> QED
      BY <1>4, <2>1, <2>2, <2>3, <3>1, Reflexive
  <2>4. CASE head[b] # x.base
    <3> DEFINE z == HandleMerge(head[b], x.root, x.base)
    <3>1. m = z
      BY <2>4
    <3> HIDE DEF m, x, b
    <3>2. /\ z \in Like(d)
          /\ Precedes(d, x.base.Current, head[b].Current) /\ Precedes(d, x.base.Current, x.root.Current)
                => /\ Precedes(d, head[b].Current, z.Current)
                   /\ Precedes(d, x.root.Current, z.Current)
          /\ z.Current \in {head[b].Current, x.root.Current}
      BY <1>4, <2>1, HandleMergeLike, ZenonT(30)
    <3> HIDE DEF z
    <3> QED
      BY <2>2, <3>1, <3>2
  <2> QED
    BY <2>3, <2>4, ZenonT(30)
<1> HIDE DEF m, y
<1>7. /\ sess' \in [Sessions -> SessionState(d)] /\ sess'[s] = y
      /\ \A u \in Sessions : u # s => sess'[u] = sess[u]
      /\ \A u \in Sessions : PlacedSession(sess'[u])
  <2>1. sess \in [Sessions -> SessionState(d)] /\ \A u \in Sessions : PlacedSession(sess[u])
    BY ZenonT(30) DEF Good, Typed, Placed
  <2> QED
    BY <1>2, <1>5, <2>1
<1>8. /\ head' \in [Branches -> Like(d)] /\ head'[b] = m
      /\ \A a \in Branches : a # b => head'[a] = head[a]
  BY <1>2, <1>4, <1>6, ZenonT(30)
<1>9. /\ taken' \in [Sessions -> Bounded(d)] /\ taken'[s] = {}
      /\ \A u \in Sessions : u # s => taken'[u] = taken[u]
      /\ stored' \in [Branches -> Bounded(d)] /\ stored'[b] = stored[b] \cup taken[s]
      /\ \A a \in Branches : a # b => stored'[a] = stored[a]
  BY <1>2, <1>4, ZenonT(30) DEF Bounded
<1>10. Typed(d)'
  BY <1>2, <1>7, <1>8, <1>9 DEF Good, Typed
<1>11. Placed'
  BY <1>2, <1>3, <1>5, <1>7, <1>9, ZenonT(30) DEF Good, Placed
<1>12. ~rewound => \A a \in Branches : Precedes(d, head[a].Current, head'[a].Current)
  BY <1>4, <1>6, <1>8, Reflexive, CurrentIsInt, ZenonT(30)
<1>13. ASSUME ~rewound PROVE Ordered(d)'
  <2>1. Ordered(d)
    BY <1>13 DEF Good
  <2>2. \A a \in Branches : /\ Precedes(d, d.Start, head'[a].Current)
                            /\ Precedes(d, head'[a].Current, tracker.Current)
    BY <1>1, <1>3, <1>4, <1>6, <1>8, <1>13, <2>1, ZenonT(30) DEF Ordered, OrderedSession
  <2>3. ASSUME NEW u \in Sessions
        PROVE  OrderedSession(d, sess'[u], head', tracker.Current)
    <3>1. CASE u = s
      BY <1>4, <1>5, <1>7, <1>13, <3>1
    <3>2. CASE u # s
      <4>1. /\ sess[u] \in SessionState(d) /\ PlacedSession(sess[u])
            /\ OrderedSession(d, sess[u], head, tracker.Current)
        BY <2>1, ZenonT(30) DEF Good, Typed, Placed, Ordered
      <4>2. OrderedSession(d, sess[u], head', tracker.Current)
        BY <1>4, <1>8, <1>12, <1>13, <4>1, OrderedFurther, Reflexive, ZenonT(30)
      <4> QED
        BY <1>7, <3>2, <4>2
    <3> QED
      BY <3>1, <3>2, ZenonT(30)
  <2> QED
    BY <1>2, <2>1, <2>2, <2>3, ZenonT(30) DEF Ordered
<1>14. ASSUME NEW v \in stored'[b] PROVE Passed(d, m, v)
  <2>1. v \in Int /\ ~rewound
    BY <1>4, <1>9, <1>14, NothingHeld, CurrentIsInt DEF Bounded
  <2>2. m \in Like(d) /\ x.root \in Like(d) /\ head[b] \in Like(d)
    BY <1>4, <1>6, CurrentIsInt, ZenonT(30)
  <2>3. Passed(d, head[b], v) \/ Passed(d, x.root, v)
    BY <1>4, <1>9, <1>14, ZenonT(30) DEF Good, Behind
  <2> QED
    BY <1>6, <2>1, <2>2, <2>3, PassedFurther, ZenonT(30)
<1>15. Behind(d)'
  BY <1>2, <1>3, <1>7, <1>8, <1>9, <1>14, ZenonT(30) DEF Good, Behind
<1>16. IssuedOnce'
  BY <1>2, <1>9, ZenonT(30) DEF Good, IssuedOnce
<1>17. ASSUME rewound PROVE Nothing'
  <2>1. /\ \A u \in Sessions : taken'[u] = {}
        /\ \A a \in Branches : stored'[a] = {}
    BY <1>9, <1>17, NothingHeld
  <2>2. taken' = NoValues(Sessions) /\ stored' = NoValues(Branches)
    BY <1>9, <2>1, SMTT(30) DEF NoValues
  <2> QED
    BY <1>2, <1>17, <2>2 DEF Good, Nothing
<1> QED
  BY <1>2, <1>10, <1>11, <1>13, <1>15, <1>16, <1>17 DEF Good

(* A session between transactions meets what is asked of sessions.         *)
LEMMA FreshSession ==
    ASSUME NEW d \in Definitions
    PROVE  /\ Fresh \in SessionState(d) /\ PlacedSession(Fresh) /\ Fresh.stage = "idle"
           /\ \A h, t : OrderedSession(d, Fresh, h, t)
  BY DEF Fresh, SessionState, NoCollection, PlacedSession, Stages, OrderedSession

(* A restart keeps the invariant: only stored states survive.              *)
LEMMA RestartGood ==
    ASSUME NEW d \in Definitions, Good(d), NEW b \in Branches, Restart(b)
    PROVE  Good(d)'
<1>1. /\ tracker' = head[b] /\ unread' = Branches \ {b} /\ head' = head
      /\ sess' = [s \in Sessions |-> Fresh] /\ stored' = stored /\ rewound' = rewound
      /\ pending' = NoValues(Sessions) /\ taken' = NoValues(Sessions)
  BY DEF Restart
<1>2. head[b] \in Like(d) /\ head[b].Current \in Int
  BY CurrentIsInt DEF Good, Typed
<1>3. {} \in Bounded(d)
  BY DEF Bounded
<1>4. Typed(d)'
  BY <1>1, <1>2, <1>3, FreshSession DEF Good, Typed, NoValues
<1>5. Placed'
  BY <1>1, FreshSession, ZenonT(30) DEF Placed, NoValues
<1>6. ~rewound => Ordered(d)'
  BY <1>1, <1>2, FreshSession, Reflexive DEF Good, Ordered
<1>7. Behind(d)' /\ IssuedOnce'
  BY <1>1, ZenonT(30) DEF Good, Behind, IssuedOnce, NoValues
<1>8. rewound => Nothing'
  BY <1>1, ZenonT(30) DEF Good, Nothing
<1> QED
  BY <1>1, <1>4, <1>5, <1>6, <1>7, <1>8 DEF Good

(* Merging one more branch into the tracker keeps it.                      *)
LEMMA ReadBranchGood ==
    ASSUME NEW d \in Definitions, Good(d), NEW b \in Branches, ReadBranch(b)
    PROVE  Good(d)'
<1>1. /\ b \in unread /\ unread' = unread \ {b} /\ tracker' = Merge(tracker, head[b])
      /\ head' = head /\ sess' = sess /\ pending' = pending /\ taken' = taken
      /\ stored' = stored /\ rewound' = rewound
  BY DEF ReadBranch, values
<1>2. /\ tracker \in Like(d) /\ head[b] \in Like(d) /\ head \in [Branches -> Like(d)]
      /\ tracker.Current \in Int
      /\ \A a \in Branches : head[a].Current \in Int
  BY CurrentIsInt DEF Good, Typed
<1> DEFINE m == Merge(tracker, head[b])
<1>3. /\ m \in Like(d)
      /\ Precedes(d, d.Start, tracker.Current) /\ Precedes(d, d.Start, head[b].Current)
           => /\ Precedes(d, tracker.Current, m.Current)
              /\ Precedes(d, head[b].Current, m.Current)
              /\ Precedes(d, d.Start, m.Current)
  BY <1>2, MergeLike, ZenonT(30)
<1> HIDE DEF m
<1>4. m.Current \in Int /\ tracker' = m
  BY <1>1, <1>3, CurrentIsInt DEF m
<1>5. sess = [s \in Sessions |-> Fresh] /\ \A s \in Sessions : pending[s] = {} /\ taken[s] = {}
  BY <1>1, FreshSession, ZenonT(30) DEF Good, Placed
<1>6. Typed(d)'
  BY <1>1, <1>3, <1>4 DEF Good, Typed
<1>7. Placed'
  BY <1>1, <1>5, ZenonT(30) DEF Good, Placed
<1>8. ASSUME ~rewound PROVE Ordered(d)'
  <2>1. Ordered(d)
    BY <1>8 DEF Good
  <2>2. /\ Precedes(d, tracker.Current, m.Current) /\ Precedes(d, head[b].Current, m.Current)
        /\ Precedes(d, d.Start, m.Current)
    BY <1>3, <2>1 DEF Ordered
  <2>3. ASSUME NEW a \in Branches \ (unread \ {b})
        PROVE  Precedes(d, head[a].Current, m.Current)
    <3>1. CASE a = b
      BY <2>2, <3>1
    <3>2. CASE a # b
      BY <1>2, <1>4, <2>1, <2>2, <3>2, Transitive DEF Ordered
    <3> QED
      BY <3>1, <3>2
  <2>4. \A s \in Sessions : OrderedSession(d, sess[s], head, m.Current)
    BY <1>5, FreshSession, ZenonT(30)
  <2> QED
    BY <1>1, <1>4, <2>1, <2>2, <2>3, <2>4, ZenonT(30) DEF Ordered
<1>9. Behind(d)' /\ IssuedOnce'
  BY <1>1, <1>5 DEF Good, Behind, IssuedOnce
<1> QED
  BY <1>1, <1>6, <1>7, <1>8, <1>9 DEF Good, Nothing

-----------------------------------------------------------------------------
(* The calls of nextval and setval keep it, and the theorems.              *)

(* The values a statement already holds are passed by its collection.      *)
LEMMA CollectionAtWork ==
    ASSUME NEW d \in Definitions, Good(d), NEW s \in Sessions, Running(s)
    PROVE  /\ sess[s].stage \in {"transaction", "statement"}
           /\ sess[s].stage # "idle"
           /\ collectionFromContext(sess[s]) \in [rootHash : Like(d), contents : Like(d)]
           /\ collectionFromContext(sess[s]).rootHash = sess[s].root
           /\ \A v \in pending[s] : Passed(d, collectionFromContext(sess[s]).contents, v)
           /\ ~rewound =>
                /\ Precedes(d, sess[s].root.Current,
                            collectionFromContext(sess[s]).contents.Current)
                /\ Precedes(d, collectionFromContext(sess[s]).contents.Current, tracker.Current)
<1>1. sess[s].stage \in {"transaction", "statement"} /\ sess[s].stage # "idle"
  BY ZenonT(30) DEF Running
<1>2. /\ sess[s] \in SessionState(d) /\ PlacedSession(sess[s])
      /\ ~rewound => OrderedSession(d, sess[s], head, tracker.Current)
  BY <1>1, AtWork, ZenonT(30)
<1> DEFINE c == collectionFromContext(sess[s])
<1>3. /\ c \in [rootHash : Like(d), contents : Like(d)]
      /\ c.rootHash = sess[s].root
      /\ sess[s].coll.rootHash = sess[s].root => c = sess[s].coll
      /\ \A h, t : OrderedSession(d, sess[s], h, t) =>
           /\ Precedes(d, sess[s].root.Current, c.contents.Current)
           /\ Precedes(d, c.contents.Current, t)
  BY <1>1, <1>2, CollectionFits, ZenonT(30)
<1>4. ASSUME NEW v \in pending[s] PROVE Passed(d, c.contents, v)
  <2>1. sess[s].stage \in {"statement", "failing"} /\ Passed(d, sess[s].coll.contents, v)
    BY DEF Good, Placed, Behind
  <2>2. sess[s].coll.rootHash = sess[s].root
    BY <1>2, <2>1, ZenonT(30) DEF PlacedSession
  <2> QED
    BY <1>3, <2>1, <2>2, ZenonT(30)
<1> HIDE DEF c
<1>5. ~rewound => /\ Precedes(d, sess[s].root.Current, c.contents.Current)
                  /\ Precedes(d, c.contents.Current, tracker.Current)
  BY <1>2, <1>3
<1> QED
  BY <1>1, <1>3, <1>4, <1>5, ZenonT(30) DEF c

(* What a tracker has given before it moves on, it does not give again.    *)
LEMMA GivenStaysGiven ==
    ASSUME NEW d \in Definitions, NEW q \in Like(d), NEW r \in Like(d), ~q.IsAtEnd,
           Precedes(d, q.Current, r.Current), NEW v \in Int, ~Upcoming(q, v)
    PROVE  ~Upcoming(r, v)
<1>1. /\ q.Current \in Int /\ r.Current \in Int
      /\ q.Increment = d.Increment /\ r.Increment = d.Increment
  BY CurrentIsInt DEF Like
<1> QED
  BY <1>1 DEF Precedes, Upcoming

(* The tracker moves on and the values stay as they are.                   *)
LEMMA IssuedOnceForward ==
    ASSUME NEW d \in Definitions, Good(d), ~tracker.IsAtEnd, tracker' \in Like(d),
           Precedes(d, tracker.Current, tracker'.Current), pending' = pending, taken' = taken
    PROVE  IssuedOnce'
<1>1. /\ tracker \in Like(d)
      /\ \A s \in Sessions : \A v \in pending[s] \cup taken[s] : v \in Int
  BY CurrentIsInt, ZenonT(30) DEF Good, Typed, Bounded
<1>2. \A s \in Sessions : \A v \in pending[s] \cup taken[s] : ~Upcoming(tracker', v)
  BY <1>1, GivenStaysGiven DEF Good, IssuedOnce
<1> QED
  BY <1>2 DEF Good, IssuedOnce

(* A statement's next stage and collection make a session.                 *)
LEMMA NextSession ==
    ASSUME NEW d \in Definitions, Good(d), NEW s \in Sessions, sess[s].stage # "idle",
           NEW g \in {"statement", "failing"},
           NEW c \in [rootHash : Like(d), contents : Like(d)], c.rootHash = sess[s].root,
           sess' = [sess EXCEPT ![s] = [sess[s] EXCEPT !.stage = g, !.coll = c]],
           unread' = unread, head' = head, tracker' \in Like(d), Rewind
    PROVE  Good(d)'
<1> DEFINE x == sess[s]
           y == [x EXCEPT !.stage = g, !.coll = c]
<1>1. x \in SessionState(d) /\ PlacedSession(x)
  BY AtWork
<1>2. c.rootHash = x.root /\ g \in Stages /\ g # "idle" /\ x.stage # "idle"
  BY DEF Stages
<1>3. sess' = [sess EXCEPT ![s] = y]
  OBVIOUS
<1> HIDE DEF x
<1>4. /\ y.stage = g /\ y.root = x.root /\ y.coll = c /\ y.base = x.base
      /\ y.branch = x.branch /\ y \in SessionState(d)
  BY ONLY <1>1, <1>2, c \in [rootHash : Like(d), contents : Like(d)], ZenonT(30) DEF SessionState
<1> HIDE DEF y
<1>5. PlacedSession(y)
  BY <1>1, <1>2, <1>4, CurrentIsInt, ZenonT(30) DEF PlacedSession
<1> QED
  BY <1>2, <1>3, <1>4, <1>5, RewindGood, ZenonT(30)

(* nextval keeps it: the value is passed by tracker and collection alike.  *)
LEMMA NextvalGood ==
    ASSUME NEW d \in Definitions, Good(d), NEW s \in Sessions, Nextval(s)
    PROVE  Good(d)'
<1> DEFINE x == sess[s]
           c == collectionFromContext(x)
           next == NextValue(tracker)
           k == [c EXCEPT !.contents = SetVal(c.contents, next, TRUE)]
<1>1. Running(s) /\ unread' = unread /\ head' = head
  BY DEF Nextval
<1>2. /\ x.stage \in {"transaction", "statement"} /\ x.stage # "idle"
      /\ c \in [rootHash : Like(d), contents : Like(d)] /\ c.rootHash = x.root
      /\ \A v \in pending[s] : Passed(d, c.contents, v)
      /\ ~rewound => /\ Precedes(d, x.root.Current, c.contents.Current)
                     /\ Precedes(d, c.contents.Current, tracker.Current)
  BY <1>1, CollectionAtWork, ZenonT(30)
<1>3. /\ tracker \in Like(d) /\ tracker.Current \in Int
      /\ pending \in [Sessions -> Bounded(d)] /\ taken \in [Sessions -> Bounded(d)]
      /\ x.root \in Like(d) /\ x.root.Current \in Int
      /\ c.contents \in Like(d) /\ c.contents.Current \in Int
  BY <1>2, AtWork, CurrentIsInt, ZenonT(30)
<1>4. NextState(tracker) \in Like(d) /\ NextState(tracker).Current \in Int /\ next \in Int64
  BY <1>3, NextLike, CurrentIsInt, ZenonT(30)
<1>5. ~tracker.IsAtEnd =>
        /\ next = tracker.Current
        /\ Precedes(d, tracker.Current, NextState(tracker).Current)
        /\ Passed(d, NextState(tracker), tracker.Current)
        /\ ~Upcoming(NextState(tracker), tracker.Current)
  BY <1>3, NextMoves, NextPasses, ZenonT(30)
<1>6. CASE /\ Fails(s, c) /\ tracker' = tracker
           /\ UNCHANGED <<values, rewound>>
  <2>1. /\ sess' = [sess EXCEPT ![s] = [x EXCEPT !.stage = "failing", !.coll = c]]
        /\ pending' = pending /\ taken' = taken /\ stored' = stored /\ rewound' = rewound
    BY <1>6, ZenonT(30) DEF Fails, values
  <2>2. IssuedOnce'
    BY <1>6, <2>1, ZenonT(30) DEF Good, IssuedOnce
  <2>3. Precedes(d, tracker.Current, tracker.Current)
    BY <1>3, Reflexive
  <2> HIDE DEF c
  <2> QED
    BY <1>1, <1>2, <1>3, <1>6, <2>1, <2>2, <2>3, ForwardGood, ZenonT(30)
<1>7. CASE /\ Fails(s, c) /\ tracker' = NextState(tracker) /\ tracker.IsAtEnd /\ Rewind
  <2>1. sess' = [sess EXCEPT ![s] = [x EXCEPT !.stage = "failing", !.coll = c]]
    BY <1>7, ZenonT(30) DEF Fails
  <2> HIDE DEF c
  <2> QED
    BY <1>1, <1>2, <1>4, <1>7, <2>1, NextSession, ZenonT(30)
<1>8. CASE /\ Fails(s, c) /\ tracker' = NextState(tracker) /\ ~tracker.IsAtEnd
           /\ UNCHANGED <<values, rewound>>
  <2>1. /\ sess' = [sess EXCEPT ![s] = [x EXCEPT !.stage = "failing", !.coll = c]]
        /\ pending' = pending /\ taken' = taken /\ stored' = stored /\ rewound' = rewound
    BY <1>8, ZenonT(30) DEF Fails, values
  <2>2. IssuedOnce'
    BY <1>4, <1>5, <1>8, <2>1, IssuedOnceForward
  <2> HIDE DEF c
  <2>3. ~rewound => Precedes(d, c.contents.Current, NextState(tracker).Current)
    BY <1>2, <1>3, <1>4, <1>5, <1>8, Transitive, ZenonT(30)
  <2> QED
    BY <1>1, <1>2, <1>3, <1>4, <1>5, <1>8, <2>1, <2>2, <2>3, ForwardGood, ZenonT(30)
<1>9. ASSUME GoesOn(s, k), ~OutOfBounds(c.contents, next)
      PROVE  /\ k \in [rootHash : Like(d), contents : Like(d)] /\ k.rootHash = x.root
             /\ k.contents = SetVal(c.contents, next, TRUE)
             /\ sess' = [sess EXCEPT ![s] = [x EXCEPT !.stage = "statement", !.coll = k]]
             /\ next \in d.Minimum .. d.Maximum
  <2>1. sess' = [sess EXCEPT ![s] = [x EXCEPT !.stage = "statement", !.coll = k]]
    BY <1>9, ZenonT(30) DEF GoesOn
  <2>2. d.Minimum <= next /\ next <= d.Maximum /\ next \in Int /\ next \in d.Minimum .. d.Maximum
    <3>1. c.contents.Minimum = d.Minimum /\ c.contents.Maximum = d.Maximum
      BY <1>3 DEF Like
    <3>2. next \in Int
      BY <1>4, SequenceAssumption DEF Int64
    <3> HIDE DEF c, next
    <3> QED
      BY <1>9, <3>1, <3>2, CurrentIsInt, SMTT(30) DEF OutOfBounds
  <2>3. SetVal(c.contents, next, TRUE) \in Like(d)
    <3> HIDE DEF c, next
    <3> QED
      BY <1>3, <1>4, <2>2, SetValLike, ZenonT(30)
  <2>4. /\ k \in [rootHash : Like(d), contents : Like(d)] /\ k.rootHash = x.root
        /\ k.contents = SetVal(c.contents, next, TRUE)
    <3> HIDE DEF c, next
    <3> QED
      BY <1>2, <2>3, ZenonT(30)
  <2> QED
    BY <2>1, <2>2, <2>4
<1>10. CASE /\ GoesOn(s, k) /\ ~OutOfBounds(c.contents, next)
            /\ tracker' = NextState(tracker) /\ tracker.IsAtEnd /\ Rewind
  <2> HIDE DEF k
  <2> QED
    BY <1>1, <1>2, <1>4, <1>9, <1>10, NextSession, ZenonT(30)
<1>11. CASE /\ GoesOn(s, k) /\ ~OutOfBounds(c.contents, next)
            /\ tracker' = NextState(tracker) /\ ~tracker.IsAtEnd
            /\ pending' = (IF rewound THEN pending ELSE [pending EXCEPT ![s] = @ \cup {next}])
            /\ UNCHANGED <<taken, stored, rewound>>
  <2>1. next = tracker.Current /\ k.contents = NextState(tracker)
    <3>1. next = tracker.Current
      BY <1>5, <1>11
    <3>2. SetVal(c.contents, tracker.Current, TRUE) = NextState(tracker)
      <4> HIDE DEF c
      <4> QED
        BY <1>3, <1>11, FollowsTracker, ZenonT(30)
    <3> QED
      BY <1>9, <1>11, <3>1, <3>2, ZenonT(30)
  <2>2. /\ pending' \in [Sessions -> Bounded(d)]
        /\ \A u \in Sessions : u # s => pending'[u] = pending[u]
        /\ pending'[s] \subseteq pending[s] \cup {next}
    <3> HIDE DEF next, k, c
    <3> QED
      BY <1>3, <1>9, <1>11 DEF Bounded
  <2>3. ~rewound => /\ Precedes(d, x.root.Current, k.contents.Current)
                    /\ Precedes(d, k.contents.Current, tracker'.Current)
                    /\ Precedes(d, c.contents.Current, k.contents.Current)
    <3> HIDE DEF next, k, c, x
    <3>1. Precedes(d, k.contents.Current, tracker'.Current)
      BY <1>4, <1>11, <2>1, Reflexive
    <3>2. ~rewound => Precedes(d, c.contents.Current, k.contents.Current)
      BY <1>2, <1>3, <1>4, <1>5, <1>11, <2>1, Transitive, ZenonT(30)
    <3>3. ~rewound => Precedes(d, x.root.Current, k.contents.Current)
      BY <1>2, <1>3, <1>4, <2>1, <3>2, Transitive, ZenonT(30)
    <3> QED
      BY <3>1, <3>2, <3>3, ZenonT(30)
  <2>4. ASSUME NEW v \in pending'[s] PROVE Passed(d, k.contents, v)
    <3>1. v \in Int
      BY <2>2, <2>4, CurrentIsInt, ZenonT(30) DEF Bounded
    <3> HIDE DEF next, k, c, x
    <3>2. CASE v = next
      BY <1>5, <1>11, <2>1, <3>2
    <3>3. CASE v \in pending[s]
      <4>1. ~rewound
        BY <3>3, NothingHeld, ZenonT(30)
      <4> QED
        BY <1>2, <1>3, <1>4, <2>1, <2>3, <3>1, <3>3, <4>1, PassedFurther, ZenonT(30)
    <3> QED
      BY <2>2, <2>4, <3>2, <3>3
  <2>5. IssuedOnce'
    <3>1. \A u \in Sessions : \A v \in pending[u] \cup taken[u] :
             v \in Int /\ ~Upcoming(tracker, v) /\ ~Upcoming(tracker', v)
      BY <1>3, <1>4, <1>5, <1>11, GivenStaysGiven, CurrentIsInt DEF Good, IssuedOnce, Bounded
    <3>2. ~Upcoming(tracker', next) /\ Upcoming(tracker, next)
      BY <1>3, <1>5, <1>11, <2>1 DEF Upcoming
    <3>3. \A u \in Sessions : next \notin pending[u] \cup taken[u]
      BY <3>1, <3>2
    <3> HIDE DEF next, k, c, x
    <3>4. /\ taken' = taken
          /\ \A u \in Sessions : pending'[u] \subseteq pending[u] \cup {next}
          /\ \A u \in Sessions : u # s => pending'[u] = pending[u]
      BY <1>11, <2>2
    <3>5. ASSUME NEW u \in Sessions, NEW v \in pending'[u] \cup taken'[u]
          PROVE  ~Upcoming(tracker', v)
      BY <3>1, <3>2, <3>4, <3>5
    <3>6. ASSUME NEW u \in Sessions, NEW w \in Sessions, u # w
          PROVE  (pending'[u] \cup taken'[u]) \cap (pending'[w] \cup taken'[w]) = {}
      <4>1. (pending[u] \cup taken[u]) \cap (pending[w] \cup taken[w]) = {}
        BY <3>6 DEF Good, IssuedOnce
      <4>2. pending'[u] = pending[u] \/ pending'[w] = pending[w]
        BY <3>4, <3>6
      <4> QED
        BY <3>3, <3>4, <4>1, <4>2
    <3> QED
      BY <3>5, <3>6 DEF IssuedOnce
  <2>6. rewound => pending' = pending
    BY <1>11
  <2> HIDE DEF next, k, c
  <2> QED
    BY <1>1, <1>2, <1>4, <1>5, <1>9, <1>11, <2>1, <2>2, <2>3, <2>4, <2>5, <2>6, ForwardGood, ZenonT(30)
<1> QED
  <2>1. \/ /\ Fails(s, c)
           /\ UNCHANGED <<tracker, values, rewound>>
        \/ /\ tracker' = NextState(tracker)
           /\ Fails(s, c)
           /\ IF tracker.IsAtEnd THEN Rewind ELSE UNCHANGED <<values, rewound>>
        \/ /\ ~OutOfBounds(c.contents, next)
           /\ tracker' = NextState(tracker)
           /\ GoesOn(s, k)
           /\ IF tracker.IsAtEnd THEN Rewind
              ELSE /\ pending' = IF rewound THEN pending
                                ELSE [pending EXCEPT ![s] = @ \cup {next}]
                   /\ UNCHANGED <<taken, stored, rewound>>
    BY DEF Nextval
  <2> HIDE DEF next, k, c
  <2> QED
    BY <1>6, <1>7, <1>8, <1>10, <1>11, <2>1

(* setval keeps it: it moves the sequence forward, or rewinds it, and the  *)
(* collection stays or goes where the tracker goes.                        *)
LEMMA SetvalGood ==
    ASSUME NEW d \in Definitions, Good(d), NEW s \in Sessions, NEW v \in SetValues,
           NEW a \in BOOLEAN, NEW q \in BOOLEAN, Setval(s, v, a, q)
    PROVE  Good(d)'
<1> DEFINE x == sess[s]
           c == collectionFromContext(x)
           n == SetVal(IF q THEN c.contents ELSE x.root, v, a)
           t == IF q THEN [c EXCEPT !.contents = n] ELSE c
           k == [t EXCEPT !.contents = SetVal(t.contents, v, a)]
<1>1. /\ Running(s) /\ unread' = unread /\ head' = head
      /\ tracker' = n
      /\ IF Upcoming(tracker, v) THEN UNCHANGED <<values, rewound>> ELSE Rewind
      /\ Fails(s, t) \/ GoesOn(s, k)
  BY DEF Setval
<1>2. /\ x.stage \in {"transaction", "statement"} /\ x.stage # "idle"
      /\ c \in [rootHash : Like(d), contents : Like(d)] /\ c.rootHash = x.root
      /\ \A w \in pending[s] : Passed(d, c.contents, w)
      /\ ~rewound => /\ Precedes(d, x.root.Current, c.contents.Current)
                     /\ Precedes(d, c.contents.Current, tracker.Current)
  BY <1>1, CollectionAtWork, ZenonT(30)
<1>3. /\ tracker \in Like(d) /\ tracker.Current \in Int
      /\ pending \in [Sessions -> Bounded(d)]
      /\ x.root \in Like(d) /\ x.root.Current \in Int
      /\ c.contents \in Like(d) /\ c.contents.Current \in Int
      /\ v \in Int64 /\ v \in Int
  <2>1. v \in Int64 /\ v \in Int
    BY SequenceAssumption DEF Int64
  <2>2. /\ tracker \in Like(d) /\ tracker.Current \in Int
        /\ pending \in [Sessions -> Bounded(d)] /\ x.root \in Like(d)
    BY <1>2, AtWork, ZenonT(30)
  <2> HIDE DEF c, x
  <2>3. c.contents \in Like(d)
    BY <1>2, ZenonT(30)
  <2> QED
    BY <2>1, <2>2, <2>3, CurrentIsInt
<1> HIDE DEF x, c
<1>4. /\ n \in Like(d) /\ Precedes(d, v, n.Current)
      /\ n = SetVal(c.contents, v, a) /\ n.Current \in Int
  BY <1>3, SetValLike, SetValSame, CurrentIsInt
<1> HIDE DEF n
<1>5. /\ t \in [rootHash : Like(d), contents : Like(d)] /\ t.rootHash = x.root
      /\ t.contents = c.contents \/ t.contents = n
  <2>1. CASE q
    BY <1>2, <1>4, <2>1
  <2>2. CASE ~q
    BY <1>2, <2>2
  <2> QED
    BY <2>1, <2>2
<1> HIDE DEF t
<1>6. /\ k \in [rootHash : Like(d), contents : Like(d)] /\ k.rootHash = x.root
      /\ k.contents = n
  <2>1. SetVal(t.contents, v, a) = n
    BY <1>3, <1>4, <1>5, SetValSame
  <2> QED
    BY <1>4, <1>5, <2>1
<1> HIDE DEF k
<1>7. PICK g \in {"statement", "failing"}, e \in {t, k} :
        sess' = [sess EXCEPT ![s] = [x EXCEPT !.stage = g, !.coll = e]]
  BY <1>1, ZenonT(30) DEF Fails, GoesOn, x
<1>8. /\ e \in [rootHash : Like(d), contents : Like(d)] /\ e.rootHash = x.root
      /\ e.contents = c.contents \/ e.contents = tracker'
      /\ tracker' \in Like(d) /\ Precedes(d, v, tracker'.Current) /\ tracker'.Current \in Int
  BY <1>1, <1>4, <1>5, <1>6
<1>9. CASE ~Upcoming(tracker, v)
  BY <1>1, <1>2, <1>7, <1>8, <1>9, NextSession, ZenonT(30) DEF x
<1>10. CASE Upcoming(tracker, v)
  <2>1. /\ pending' = pending /\ taken' = taken /\ stored' = stored /\ rewound' = rewound
    BY <1>1, <1>10, ZenonT(30) DEF values
  <2>2. ~tracker.IsAtEnd /\ Precedes(d, tracker.Current, v)
    BY <1>3, <1>10, ZenonT(30) DEF Upcoming, Precedes, Like
  <2>3. Precedes(d, tracker.Current, tracker'.Current)
    BY <1>3, <1>8, <2>2, Transitive
  <2>4. IssuedOnce'
    BY <1>8, <2>1, <2>2, <2>3, IssuedOnceForward
  <2>5. ~rewound => /\ Precedes(d, c.contents.Current, tracker'.Current)
                    /\ Precedes(d, x.root.Current, tracker'.Current)
    BY <1>2, <1>3, <1>8, <2>3, Transitive, ZenonT(30)
  <2>6. /\ Precedes(d, tracker'.Current, tracker'.Current)
        /\ Precedes(d, c.contents.Current, c.contents.Current)
    BY <1>3, <1>8, Reflexive, ZenonT(30)
  <2>7. ~rewound => /\ Precedes(d, x.root.Current, e.contents.Current)
                    /\ Precedes(d, e.contents.Current, tracker'.Current)
                    /\ Precedes(d, c.contents.Current, e.contents.Current)
    BY <1>2, <1>8, <2>5, <2>6, ZenonT(30)
  <2>8. ASSUME NEW w \in pending[s] PROVE Passed(d, e.contents, w)
    <3>1. w \in Int /\ ~rewound
      BY <1>3, NothingHeld, CurrentIsInt, ZenonT(30) DEF Bounded
    <3>2. e.contents \in Like(d)
      BY <1>8, ZenonT(30)
    <3> QED
      BY <1>2, <1>3, <2>7, <3>1, <3>2, PassedFurther
  <2> QED
    BY <1>1, <1>2, <1>3, <1>7, <1>8, <2>1, <2>3, <2>4, <2>7, <2>8, ForwardGood, ZenonT(30) DEF x
<1> QED
  BY <1>9, <1>10

(* A step of one session keeps the others within the bounds.               *)
LEMMA InsideMoves ==
    ASSUME NEW d \in Definitions, Good(d), Inside(d), NEW s \in Sessions, NEW y,
           sess' = [sess EXCEPT ![s] = y], refused' \in BOOLEAN,
           ~refused' => /\ ~refused /\ InsideSession(d, y)
                        /\ \A b \in Branches : head'[b] \in Within(d)
    PROVE  Inside(d)'
<1>1. sess \in [Sessions -> SessionState(d)]
  BY DEF Good, Typed
<1>2. sess'[s] = y /\ \A u \in Sessions : u # s => sess'[u] = sess[u]
  BY <1>1
<1> QED
  BY <1>2 DEF Inside

(* A session's collection is replaced by one within the bounds.            *)
LEMMA InsideCollection ==
    ASSUME NEW d \in Definitions, NEW x \in SessionState(d), InsideSession(d, x),
           NEW g, NEW c, {c.rootHash, c.contents} \subseteq Within(d) \cup {None}
    PROVE  InsideSession(d, [x EXCEPT !.stage = g, !.coll = c])
<1> DEFINE y == [x EXCEPT !.stage = g, !.coll = c]
<1>1. y.base = x.base /\ y.root = x.root /\ y.coll = c
  BY DEF SessionState
<1> HIDE DEF y
<1>2. InsideSession(d, y)
  BY <1>1 DEF InsideSession
<1> QED
  BY <1>2 DEF y

(* The collection a session works on is within the bounds, if the session  *)
(* is.                                                                     *)
LEMMA InsideContext ==
    ASSUME NEW d \in Definitions, NEW x, InsideSession(d, x)
    PROVE  {collectionFromContext(x).rootHash, collectionFromContext(x).contents}
             \subseteq Within(d) \cup {None}
  BY DEF InsideSession, collectionFromContext, Loaded

(* The finalizer moves states within the session.                          *)
LEMMA InsideFinalized ==
    ASSUME NEW d \in Definitions, NEW x \in SessionState(d), InsideSession(d, x), NEW g
    PROVE  InsideSession(d, [CloseContextRootFinalizer(x) EXCEPT !.stage = g])
<1> DEFINE y == [CloseContextRootFinalizer(x) EXCEPT !.stage = g]
<1>1. CASE IsStale(x.coll, x.root)
  <2>1. y = [x EXCEPT !.coll = NoCollection, !.stage = g]
    BY <1>1 DEF CloseContextRootFinalizer, SessionState
  <2> HIDE DEF y
  <2>2. /\ y.base = x.base /\ y.root = x.root
        /\ y.coll.rootHash = None /\ y.coll.contents = None
    BY <2>1 DEF SessionState, NoCollection
  <2>3. InsideSession(d, y)
    BY <2>2 DEF InsideSession
  <2> QED
    BY <2>3 DEF y
<1>2. CASE ~IsStale(x.coll, x.root)
  <2> DEFINE k == x.coll.contents
  <2>1. y = [x EXCEPT !.root = k, !.coll = Loaded(k), !.stage = g]
    BY <1>2 DEF CloseContextRootFinalizer, SessionState
  <2> HIDE DEF y, k
  <2>2. y.base = x.base /\ y.root = k /\ y.coll.rootHash = k /\ y.coll.contents = k
    BY <2>1 DEF SessionState, Loaded
  <2>3. InsideSession(d, y)
    BY <2>2 DEF InsideSession, k
  <2> QED
    BY <2>3 DEF y
<1> QED
  BY <1>1, <1>2

(* Only setval by a qualified name leaves a state out of bounds in the     *)
(* cache, and says so.                                                     *)
LEMMA SetvalInside ==
    ASSUME NEW d \in Definitions, Good(d), Inside(d), NEW s \in Sessions,
           NEW v \in SetValues, NEW a \in BOOLEAN, NEW q \in BOOLEAN, Setval(s, v, a, q)
    PROVE  Inside(d)'
<1> DEFINE x == sess[s]
           c == collectionFromContext(x)
           n == SetVal(IF q THEN c.contents ELSE x.root, v, a)
           t == IF q THEN [c EXCEPT !.contents = n] ELSE c
           k == [t EXCEPT !.contents = SetVal(t.contents, v, a)]
<1>1. /\ Running(s) /\ head' = head
      /\ \/ OutOfBounds(t.contents, v) /\ Fails(s, t) /\ refused' = (refused \/ q)
         \/ ~OutOfBounds(t.contents, v) /\ GoesOn(s, k) /\ refused' = refused
  BY DEF Setval
<1>2. /\ sess \in [Sessions -> SessionState(d)] /\ x.root \in Like(d)
      /\ c \in [rootHash : Like(d), contents : Like(d)]
      /\ x.stage # "idle"
  BY <1>1, CollectionAtWork, AtWork, ZenonT(30) DEF Good, Typed
<1>3. v \in Int64 /\ v \in Int
  BY SequenceAssumption DEF Int64
<1>4. ~refused => {c.rootHash, c.contents} \subseteq Within(d) \cup {None}
  BY InsideContext DEF Inside
<1> HIDE DEF x
<1> HIDE DEF c
<1>5. n \in Like(d)
  BY <1>2, <1>3, SetValLike
<1> HIDE DEF n
<1>6. t \in [rootHash : Like(d), contents : Like(d)] /\ (~q => t = c) /\ t.rootHash = c.rootHash
  <2>1. CASE q
    BY <1>2, <1>5, <2>1
  <2>2. CASE ~q
    BY <1>2, <2>2
  <2> QED
    BY <2>1, <2>2
<1> HIDE DEF t
<1>7. ~OutOfBounds(t.contents, v) => SetVal(t.contents, v, a) \in Within(d)
  <2>1. t.contents \in Like(d) /\ t.contents.Minimum = d.Minimum /\ t.contents.Maximum = d.Maximum
    BY <1>6 DEF Like
  <2> QED
    BY <1>3, <2>1, SetValLike, CurrentIsInt DEF OutOfBounds
<1>8. CASE OutOfBounds(t.contents, v) /\ Fails(s, t) /\ refused' = (refused \/ q)
  <2>1. sess' = [sess EXCEPT ![s] = [x EXCEPT !.stage = "failing", !.coll = t]]
    BY <1>8, ZenonT(30) DEF Fails, x
  <2>2. refused' \in BOOLEAN /\ (~refused' => ~refused /\ ~q)
    BY <1>8 DEF Inside
  <2>3. ~refused' => {t.rootHash, t.contents} \subseteq Within(d) \cup {None}
    BY <1>4, <1>6, <2>2
  <2>4. ~refused' => InsideSession(d, [x EXCEPT !.stage = "failing", !.coll = t])
    BY <1>2, <2>2, <2>3, InsideCollection DEF Inside, x
  <2> QED
    BY <1>1, <2>1, <2>2, <2>4, InsideMoves DEF Inside
<1>9. CASE ~OutOfBounds(t.contents, v) /\ GoesOn(s, k) /\ refused' = refused
  <2>1. sess' = [sess EXCEPT ![s] = [x EXCEPT !.stage = "statement", !.coll = k]]
    BY <1>9, ZenonT(30) DEF GoesOn, x
  <2>2. k.rootHash = c.rootHash /\ k.contents \in Within(d)
    BY <1>6, <1>7, <1>9
  <2> HIDE DEF k
  <2>3. ~refused => InsideSession(d, [x EXCEPT !.stage = "statement", !.coll = k])
    BY <1>2, <1>4, <2>2, InsideCollection DEF Inside, x
  <2> QED
    BY <1>1, <1>9, <2>1, <2>3, InsideMoves DEF Inside
<1> QED
  BY <1>1, <1>8, <1>9

(* A value nextval returns passed the check of the bounds.                 *)
LEMMA NextvalInside ==
    ASSUME NEW d \in Definitions, Good(d), Inside(d), NEW s \in Sessions, Nextval(s)
    PROVE  Inside(d)'
<1> DEFINE x == sess[s]
           c == collectionFromContext(x)
           next == NextValue(tracker)
           k == [c EXCEPT !.contents = SetVal(c.contents, next, TRUE)]
<1>1. /\ Running(s) /\ head' = head /\ refused' = refused
      /\ Fails(s, c) \/ (~OutOfBounds(c.contents, next) /\ GoesOn(s, k))
  BY DEF Nextval
<1>2. /\ x \in SessionState(d) /\ c \in [rootHash : Like(d), contents : Like(d)]
      /\ tracker \in Like(d)
  BY <1>1, CollectionAtWork, AtWork, ZenonT(30)
<1>3. next \in Int64 /\ next \in Int
  BY <1>2, NextLike, SequenceAssumption DEF Int64
<1>4. ~refused => {c.rootHash, c.contents} \subseteq Within(d) \cup {None}
  BY InsideContext DEF Inside
<1> HIDE DEF x, c, next
<1>5. CASE Fails(s, c)
  <2>1. sess' = [sess EXCEPT ![s] = [x EXCEPT !.stage = "failing", !.coll = c]]
    BY <1>5, ZenonT(30) DEF Fails, x
  <2>2. ~refused => InsideSession(d, [x EXCEPT !.stage = "failing", !.coll = c])
    BY <1>2, <1>4, InsideCollection DEF Inside, x
  <2> QED
    BY <1>1, <2>1, <2>2, InsideMoves DEF Inside
<1>6. CASE ~OutOfBounds(c.contents, next) /\ GoesOn(s, k)
  <2>1. sess' = [sess EXCEPT ![s] = [x EXCEPT !.stage = "statement", !.coll = k]]
    BY <1>6, ZenonT(30) DEF GoesOn, x
  <2>2. /\ c.contents \in Like(d) /\ c.contents.Minimum = d.Minimum
        /\ c.contents.Maximum = d.Maximum
    BY <1>2 DEF Like
  <2>3. SetVal(c.contents, next, TRUE) \in Within(d)
    <3>1. d.Minimum <= next /\ next <= d.Maximum
      BY <1>3, <1>6, <2>2, CurrentIsInt DEF OutOfBounds
    <3> QED
      BY <1>3, <2>2, <3>1, SetValLike, ZenonT(30)
  <2>4. k.rootHash = c.rootHash /\ k.contents \in Within(d)
    BY <1>2, <2>3
  <2> HIDE DEF k
  <2>5. ~refused => InsideSession(d, [x EXCEPT !.stage = "statement", !.coll = k])
    BY <1>2, <1>4, <2>4, InsideCollection DEF Inside, x
  <2> QED
    BY <1>1, <2>1, <2>5, InsideMoves DEF Inside
<1> QED
  BY <1>1, <1>5, <1>6

(* A merged state stands where one of the two did.                         *)
LEMMA CommitInside ==
    ASSUME NEW d \in Definitions, Good(d), Inside(d), NEW s \in Sessions, Commit(s)
    PROVE  Inside(d)'
<1> DEFINE x == sess[s]
           b == x.branch
           h == HandleMerge(head[b], x.root, x.base)
           m == IF head[b] = x.base THEN x.root ELSE h
           y == [Fresh EXCEPT !.branch = b, !.coll = x.coll]
<1>1. /\ x.stage # "idle" /\ refused' = refused
      /\ head' = [head EXCEPT ![b] = m] /\ sess' = [sess EXCEPT ![s] = y]
  BY DEF Commit
<1>2. /\ b \in Branches /\ x.root \in Like(d) /\ x.base \in Like(d)
      /\ head \in [Branches -> Like(d)] /\ head[b] \in Like(d)
  BY <1>1, AtWork, ZenonT(30)
<1>3. y.base = None /\ y.root = None /\ y.coll = x.coll
  BY DEF Fresh
<1>4. CASE refused
  BY <1>1, <1>4, InsideMoves DEF Inside
<1>5. CASE ~refused
  <2>1. InsideSession(d, x) /\ \A a \in Branches : head[a] \in Within(d)
    BY <1>5 DEF Inside
  <2> HIDE DEF x, b, y
  <2>2. InsideSession(d, y)
    BY <1>3, <2>1 DEF InsideSession
  <2>3. x.root \in Within(d)
    BY <1>2, <2>1, CurrentIsInt DEF InsideSession
  <2>4. h \in Like(d) /\ h.Current \in {head[b].Current, x.root.Current}
    BY <1>2, HandleMergeLike
  <2> HIDE DEF h
  <2>5. m \in Within(d)
    BY <1>2, <2>1, <2>3, <2>4 DEF Within
  <2> HIDE DEF m
  <2>6. \A a \in Branches : head'[a] \in Within(d)
    BY <1>1, <1>2, <2>1, <2>5
  <2> QED
    BY <1>1, <1>5, <2>2, <2>6, InsideMoves DEF Inside
<1> QED
  BY <1>4, <1>5 DEF Inside

(* No step takes a state out of bounds before a refused setval does.       *)
LEMMA StepInside ==
    ASSUME NEW d \in Definitions, Good(d), Inside(d), [Next]_vars
    PROVE  Inside(d)'
<1>1. /\ \A s \in Sessions : sess[s] \in SessionState(d)
      /\ ~refused => \A s \in Sessions : InsideSession(d, sess[s])
  BY DEF Good, Typed, Inside
<1>2. CASE UNCHANGED vars
  BY <1>2 DEF vars, Inside
<1>3. ASSUME NEW s \in Sessions, NEW b \in Branches, Begin(s, b) PROVE Inside(d)'
  <2> DEFINE x == sess[s]
             c == IF x.branch = b THEN x.coll ELSE NoCollection
             y == [stage |-> "transaction", branch |-> b, base |-> head[b], root |-> head[b],
                   coll |-> c]
  <2>1. sess' = [sess EXCEPT ![s] = y] /\ head' = head /\ refused' = refused
    BY <1>3 DEF Begin
  <2>2. y.base = head[b] /\ y.root = head[b] /\ y.coll = c
    OBVIOUS
  <2>3. c = x.coll \/ (c.rootHash = None /\ c.contents = None)
    BY DEF NoCollection
  <2> HIDE DEF c, y
  <2>4. ~refused => InsideSession(d, y)
    BY <2>2, <2>3 DEF Inside, InsideSession
  <2> QED
    BY <2>1, <2>4, InsideMoves DEF Inside
<1>4. ASSUME NEW s \in Sessions, Nextval(s) PROVE Inside(d)'
  BY <1>4, NextvalInside
<1>5. ASSUME NEW s \in Sessions, NEW v \in SetValues, NEW a \in BOOLEAN, NEW q \in BOOLEAN,
             Setval(s, v, a, q)
      PROVE  Inside(d)'
  BY <1>5, SetvalInside
<1>6. ASSUME NEW s \in Sessions, Close(s) PROVE Inside(d)'
  <2> DEFINE y == [CloseContextRootFinalizer(sess[s]) EXCEPT !.stage = "transaction"]
  <2>1. sess' = [sess EXCEPT ![s] = y] /\ head' = head /\ refused' = refused
    BY <1>6 DEF Close
  <2>2. ~refused => InsideSession(d, y)
    BY <1>1, InsideFinalized
  <2> HIDE DEF y
  <2> QED
    BY <2>1, <2>2, InsideMoves DEF Inside
<1>7. ASSUME NEW s \in Sessions, NEW closed \in BOOLEAN, Fail(s, closed) PROVE Inside(d)'
  <2> DEFINE y == [(IF closed THEN CloseContextRootFinalizer(sess[s]) ELSE sess[s])
                     EXCEPT !.stage = "failed"]
  <2>1. sess' = [sess EXCEPT ![s] = y] /\ head' = head /\ refused' = refused
    BY <1>7 DEF Fail
  <2>2. CASE closed
    <3>1. y = [CloseContextRootFinalizer(sess[s]) EXCEPT !.stage = "failed"]
      BY <2>2
    <3>2. ~refused => InsideSession(d, y)
      BY <1>1, <3>1, InsideFinalized
    <3> HIDE DEF y
    <3> QED
      BY <2>1, <3>2, InsideMoves DEF Inside
  <2>3. CASE ~closed
    <3>1. y = [sess[s] EXCEPT !.stage = "failed"]
      BY <2>3
    <3> HIDE DEF y
    <3>2. y.base = sess[s].base /\ y.root = sess[s].root /\ y.coll = sess[s].coll
      BY <1>1, <3>1 DEF SessionState
    <3>3. ~refused => InsideSession(d, y)
      BY <1>1, <3>2 DEF InsideSession
    <3> QED
      BY <2>1, <3>3, InsideMoves DEF Inside
  <2> QED
    BY <2>2, <2>3
<1>8. ASSUME NEW s \in Sessions, NEW cleared \in BOOLEAN, Rollback(s, cleared)
      PROVE  Inside(d)'
  <2> DEFINE c == IF cleared THEN NoCollection ELSE sess[s].coll
             y == [Fresh EXCEPT !.branch = sess[s].branch, !.coll = c]
  <2>1. sess' = [sess EXCEPT ![s] = y] /\ head' = head /\ refused' = refused
    BY <1>8 DEF Rollback, Fresh
  <2>2. y.base = None /\ y.root = None /\ y.coll = c
    BY DEF Fresh
  <2>3. c = sess[s].coll \/ (c.rootHash = None /\ c.contents = None)
    BY DEF NoCollection
  <2> HIDE DEF c, y
  <2>4. ~refused => InsideSession(d, y)
    BY <1>1, <2>2, <2>3 DEF InsideSession
  <2> QED
    BY <2>1, <2>4, InsideMoves DEF Inside
<1>9. ASSUME NEW s \in Sessions, Commit(s) PROVE Inside(d)'
  BY <1>9, CommitInside
<1>10. ASSUME NEW b \in Branches, Restart(b) PROVE Inside(d)'
  <2>1. InsideSession(d, Fresh)
    BY DEF InsideSession, Fresh, NoCollection
  <2> QED
    BY <1>10, <2>1 DEF Restart, Inside
<1>11. ASSUME NEW b \in Branches, ReadBranch(b) PROVE Inside(d)'
  BY <1>11 DEF ReadBranch, Inside
<1> QED
  BY <1>2, <1>3, <1>4, <1>5, <1>6, <1>7, <1>8, <1>9, <1>10, <1>11 DEF Next

(* Every step keeps the invariant.                                         *)
LEMMA StepGood == IInv /\ [Next]_vars => IInv'
<1> SUFFICES ASSUME IInv, [Next]_vars PROVE IInv'
  OBVIOUS
<1>1. PICK d \in Definitions : Good(d) /\ Inside(d)
  BY DEF IInv
<1>2. Inside(d)'
  BY <1>1, StepInside
<1> SUFFICES Good(d)'
  BY <1>2 DEF IInv
<1>3. CASE UNCHANGED vars
  BY <1>1, <1>3, ZenonT(30) DEF vars, Good, Typed, Placed, Behind, IssuedOnce, Nothing, Ordered
<1>4. CASE \E s \in Sessions, b \in Branches : Begin(s, b)
  BY <1>1, <1>4, BeginGood
<1>5. CASE \E s \in Sessions : Nextval(s)
  BY <1>1, <1>5, NextvalGood
<1>6. CASE \E s \in Sessions, v \in SetValues, a, q \in BOOLEAN : Setval(s, v, a, q)
  BY <1>1, <1>6, SetvalGood
<1>7. CASE \E s \in Sessions : Close(s)
  BY <1>1, <1>7, CloseGood
<1>8. CASE \E s \in Sessions, closed \in BOOLEAN : Fail(s, closed)
  BY <1>1, <1>8, FailGood
<1>9. CASE \E s \in Sessions, cleared \in BOOLEAN : Rollback(s, cleared)
  BY <1>1, <1>9, RollbackGood
<1>10. CASE \E s \in Sessions : Commit(s)
  BY <1>1, <1>10, CommitGood
<1>11. CASE \E b \in Branches : Restart(b)
  BY <1>1, <1>11, RestartGood
<1>12. CASE \E b \in Branches : ReadBranch(b)
  BY <1>1, <1>12, ReadBranchGood
<1> QED
  BY <1>3, <1>4, <1>5, <1>6, <1>7, <1>8, <1>9, <1>10, <1>11, <1>12 DEF Next

(* The invariant holds in every reachable state.                           *)
THEOREM Invariance == Spec => []IInv
  BY InitGood, StepGood, PTL DEF Spec

(* A session in a transaction has a root, and every counter holds a machine *)
(* integer, whichever operations and merges led to it.                     *)
THEOREM TypeCorrect == Spec => []TypeOK
<1>1. ASSUME NEW d \in Definitions, Good(d), Inside(d) PROVE TypeOK
  <2>1. /\ \A q \in Like(d) : q \in SequenceState
        /\ tracker \in SequenceState
    BY <1>1, CurrentIsInt, ZenonT(30) DEF Good, Typed, Like
  <2>2. /\ head \in [Branches -> SequenceState] /\ unread \subseteq Branches
        /\ rewound \in BOOLEAN /\ refused \in BOOLEAN
    BY <1>1, <2>1 DEF Good, Typed, Inside
  <2>3. ASSUME NEW s \in Sessions
        PROVE  /\ sess[s].stage \in Stages
               /\ sess[s].coll.contents \in SequenceState \cup {None}
               /\ sess[s].stage = "idle" => sess[s].root = None
    <3>1. sess[s] \in SessionState(d) /\ PlacedSession(sess[s])
      BY <1>1, <2>3, ZenonT(30) DEF Good, Typed, Placed
    <3> QED
      BY <2>1, <3>1 DEF SessionState, PlacedSession
  <2>4. ASSUME NEW s \in Sessions, sess[s].stage # "idle"
        PROVE  sess[s].branch \in Branches /\ {sess[s].base, sess[s].root} \subseteq SequenceState
    BY <1>1, <2>1, <2>4, AtWork
  <2> QED
    BY <2>1, <2>2, <2>3, <2>4 DEF TypeOK
<1>2. IInv => TypeOK
  BY <1>1, ZenonT(30) DEF IInv
<1> QED
  BY <1>2, Invariance, PTL

(* The bounds check of SetVal keeps what is returned within the sequence's  *)
(* bounds, and what is stored too, until it refuses a qualified name.      *)
THEOREM WithinBoundsHolds == Spec => []WithinBounds
<1>1. ASSUME NEW d \in Definitions, Good(d), Inside(d) PROVE WithinBounds
  <2>1. ASSUME NEW b \in Branches
        PROVE  /\ head[b].Minimum = d.Minimum /\ head[b].Maximum = d.Maximum
               /\ head[b].Current \in Int /\ d.Minimum \in Int /\ d.Maximum \in Int
    <3>1. head[b] \in Like(d)
      BY <1>1, <2>1 DEF Good, Typed
    <3>2. head[b].Current \in Int /\ d.Minimum \in Int /\ d.Maximum \in Int
      BY <3>1, CurrentIsInt
    <3> QED
      BY <3>1, <3>2 DEF Like
  <2>2. ASSUME ~refused, NEW b \in Branches PROVE ~OutOfBounds(head[b], head[b].Current)
    <3>1. d.Minimum <= head[b].Current /\ head[b].Current <= d.Maximum
      BY <1>1, <2>2 DEF Inside, Within
    <3> QED
      BY <2>1, <3>1 DEF OutOfBounds
  <2>3. ASSUME NEW b \in Branches, NEW s \in Sessions,
               NEW v \in stored[b] \cup taken[s] \cup pending[s]
        PROVE  ~OutOfBounds(head[b], v)
    <3>1. v \in d.Minimum .. d.Maximum
      BY <1>1, <2>3 DEF Good, Typed, Bounded
    <3> QED
      BY <2>1, <2>3, <3>1 DEF OutOfBounds
  <2> QED
    BY <2>2, <2>3 DEF WithinBounds
<1>2. IInv => WithinBounds
  BY <1>1 DEF IInv
<1> QED
  BY <1>2, Invariance, PTL

(* The tracker shared by the sessions gives no value twice while the server *)
(* runs.                                                                   *)
THEOREM IssuedOnceHolds == Spec => []IssuedOnce
<1>1. IInv => IssuedOnce
  BY DEF IInv, Good
<1> QED
  BY <1>1, Invariance, PTL

(* The three-way merge of concurrent commits loses no transaction's        *)
(* progress, except that the last value may come again.                    *)
THEOREM BranchKeepsProgressHolds == Spec => []BranchKeepsProgress
<1>1. ASSUME NEW d \in Definitions, Good(d), NEW b \in Branches, NEW v \in stored[b],
             Upcoming(head[b], v)
      PROVE  AtLast(WithValue(head[b], v))
  <2>1. head[b] \in Like(d) /\ v \in Int64 /\ Passed(d, head[b], v)
    <3>1. head[b] \in Like(d) /\ v \in d.Minimum .. d.Maximum
      BY <1>1 DEF Good, Typed, Bounded
    <3>2. d.Minimum \in Int64 /\ d.Maximum \in Int64
      BY SequenceAssumption DEF SequenceState
    <3>3. v \in Int64
      BY <3>1, <3>2, SequenceAssumption DEF Int64
    <3> QED
      BY <1>1, <3>1, <3>3, CurrentIsInt DEF Good, Behind
  <2> QED
    BY <1>1, <2>1, PassedUpcoming, ZenonT(30)
<1>2. IInv => BranchKeepsProgress
  BY <1>1, ZenonT(30) DEF IInv, BranchKeepsProgress
<1> QED
  BY <1>2, Invariance, PTL

(* Nor does the tracker that a starting server merges from the branches.   *)
THEOREM StoredNotReissuedHolds == Spec => []StoredNotReissued
<1>1. ASSUME NEW d \in Definitions, Good(d), unread = {}, NEW b \in Branches,
             NEW v \in stored[b], Upcoming(tracker, v)
      PROVE  AtLast(WithValue(tracker, v))
  <2>1. /\ head[b] \in Like(d) /\ tracker \in Like(d) /\ v \in Int64 /\ v \in Int
        /\ Passed(d, head[b], v)
    <3>1. /\ head[b] \in Like(d) /\ tracker \in Like(d)
          /\ v \in d.Minimum .. d.Maximum
      BY <1>1, ZenonT(30) DEF Good, Typed, Bounded
    <3>2. d.Minimum \in Int64 /\ d.Maximum \in Int64
      BY SequenceAssumption DEF SequenceState
    <3>3. v \in Int64 /\ v \in Int
      BY <3>1, <3>2, SequenceAssumption DEF Int64
    <3> QED
      BY <1>1, <3>1, <3>3, CurrentIsInt DEF Good, Behind
  <2>2. Precedes(d, head[b].Current, tracker.Current)
    <3>1. ~rewound
      BY <1>1 DEF Good, Nothing, NoValues
    <3> QED
      BY <1>1, <3>1 DEF Good, Ordered
  <2>3. Passed(d, tracker, v)
    BY <2>1, <2>2, PassedFurther, ZenonT(30)
  <2> QED
    BY <1>1, <2>1, <2>3, PassedUpcoming, ZenonT(30)
<1>2. IInv => StoredNotReissued
  BY <1>1 DEF IInv, StoredNotReissued
<1> QED
  BY <1>2, Invariance, PTL

=============================================================================
