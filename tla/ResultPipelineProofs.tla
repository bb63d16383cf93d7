------------------------ MODULE ResultPipelineProofs ------------------------
(***************************************************************************)
(* What doQuery's pipeline promises, for results, batches and channels of  *)
(* every size: the rows reach the callback in order and none is skipped, a *)
(* success has delivered all of them, no failure is lost between the four  *)
(* goroutines, and the iterator is closed after everything else.  The      *)
(* goroutines never all wait, and every step leaves less to do.            *)
(*                                                                         *)
(* The argument follows a row from rowChan through res and resChan to the  *)
(* client.  The rows beyond the client are kept in the order in which they *)
(* travel, and every row that the converter has taken is still somewhere.  *)
(***************************************************************************)
EXTENDS ResultPipeline, TLAPS

-----------------------------------------------------------------------------
(* Rows on their way: s has arrived, q are the batches in resChan, r is    *)
(* the batch being filled, and the converter has taken the first lo items. *)
Ascending(s) == \A i, j \in DOMAIN s : i < j => s[i] < s[j]

Below(s, t) == \A i \in DOMAIN s, j \in DOMAIN t : s[i] < t[j]

In(k, s) == \E i \in DOMAIN s : s[i] = k

Within(R, s, lo) == \A i \in DOMAIN s : s[i] \in R /\ s[i] <= lo

(* The rows that have arrived, those of each batch in the channel and      *)
(* those of the batch being filled ascend, and so do these parts one after *)
(* another.                                                                *)
Chain(R, s, q, r, lo) ==
    /\ Ascending(s) /\ Ascending(r) /\ Below(s, r)
    /\ Within(R, s, lo) /\ Within(R, r, lo)
    /\ \A i \in DOMAIN q : Ascending(q[i]) /\ Within(R, q[i], lo) /\ Below(s, q[i]) /\ Below(q[i], r)
    /\ \A i, j \in DOMAIN q : i < j => Below(q[i], q[j])

(* Every row the converter has taken has arrived or is on its way.         *)
Covers(R, s, q, r, lo) ==
    \A k \in R : k <= lo => In(k, s) \/ In(k, r) \/ \E i \in DOMAIN q : In(k, q[i])

(* No row is missing before one that has arrived.                          *)
NoneSkipped(R, s) == \A i \in DOMAIN s : \A k \in R : k < s[i] => In(k, s)

-----------------------------------------------------------------------------
(* Where the goroutines are, and what their endings mean.                  *)
Places ==
    /\ pc["reader"] # "push"
    /\ pc["reader"] = "send" => read > 0
    /\ pc["converter"] # "send"
    /\ pc["sender"] \notin {"send", "push"}
    /\ pc["closer"] \notin {"send", "push"}
    /\ rowClosed <=> Ended("reader")
    /\ resClosed <=> Ended("converter")

(* A function that has ended without an error has emptied its channel; the *)
(* iterator is closed after the others have returned.                      *)
Endings ==
    /\ \A g \in Goroutines : ret[g] => Ended(g)
    /\ Ended("converter") /\ ~ret["converter"] => rowChan = <<>> /\ Ended("reader")
    /\ Ended("sender") /\ ~ret["sender"] => resChan = <<>> /\ Ended("converter")
    /\ Ended("closer") => Waited
    /\ kind = "rows" => (closed <=> Ended("closer"))
    /\ kind = "rows" /\ outcome # "running" => \A g \in Goroutines : pc[g] = "returned"

(* The errgroup knows of the errors returned, and no error is without a    *)
(* cause.                                                                  *)
Errors ==
    /\ err <=> \E g \in Goroutines : pc[g] = "returned" /\ ret[g]
    /\ (\E g \in Goroutines : ret[g]) => faults # {}
    /\ outcome = "running" => faults \subseteq {"cancel"} \/ \E g \in Goroutines : ret[g]

(* Without goroutines nothing of theirs moves.                             *)
Idle ==
    kind # "rows" =>
        /\ \A g \in Goroutines : pc[g] = "run" /\ ~ret[g]
        /\ outcome = "running" => sent = <<>>

(* What is in rowChan: the items after the lo-th, as far as Next has read. *)
Queued(lo) ==
    ~ret["converter"] =>
        /\ \A i \in DOMAIN rowChan : rowChan[i] = lo + i
        /\ lo + Len(rowChan) <= read
        /\ pc["reader"] = "run" => lo + Len(rowChan) = read
        /\ pc["reader"] = "send" => lo + Len(rowChan) + 1 = read
        /\ Ended("reader") /\ ~ret["reader"] => lo + Len(rowChan) = Len(source) \/ CtxDone

(* The rows on their way after the converter has taken lo items.           *)
Travelling(lo) ==
    /\ Queued(lo)
    /\ Chain(Rows, sent, resChan, res.rows, lo)
    /\ ~ret["sender"] => Covers(Rows, sent, resChan, res.rows, lo)

Control == Places /\ Endings /\ Errors /\ Idle /\ Len(res.rows) <= res.affected

(* The inductive invariant.                                                *)
IInv ==
    /\ TypeOK
    /\ Control
    /\ kind = "rows" /\ outcome = "running" => \E lo \in Nat : Travelling(lo)
    /\ RowsInOrder
    /\ AllRowsDelivered
    /\ FailureIsReported
    /\ IteratorClosed

-----------------------------------------------------------------------------
(* Sequences: what a channel or a batch holds after each operation.        *)

(* The positions and items of a sequence.                                  *)
LEMMA SeqOf ==
    ASSUME NEW S, NEW s \in Seq(S)
    PROVE  /\ Len(s) \in Nat /\ DOMAIN s = 1 .. Len(s)
           /\ \A i \in DOMAIN s : s[i] \in S
           /\ Len(s) = 0 => s = <<>>
  OBVIOUS

(* The empty sequence.                                                     *)
LEMMA NoItems ==
    ASSUME NEW S
    PROVE  <<>> \in Seq(S) /\ Len(<<>>) = 0
  OBVIOUS

(* A send on a channel.                                                    *)
LEMMA Appended ==
    ASSUME NEW S, NEW s \in Seq(S), NEW e \in S
    PROVE  /\ Append(s, e) \in Seq(S) /\ Append(s, e) # <<>>
           /\ Len(Append(s, e)) = Len(s) + 1 /\ DOMAIN Append(s, e) = 1 .. Len(s) + 1
           /\ \A i \in 1 .. Len(s) : Append(s, e)[i] = s[i]
           /\ Append(s, e)[Len(s) + 1] = e
  OBVIOUS

(* A receive from a channel.                                               *)
LEMMA Shortened ==
    ASSUME NEW S, NEW s \in Seq(S), s # <<>>
    PROVE  /\ Head(s) \in S /\ Head(s) = s[1] /\ 1 \in DOMAIN s
           /\ Tail(s) \in Seq(S) /\ Len(Tail(s)) = Len(s) - 1 /\ DOMAIN Tail(s) = 1 .. Len(s) - 1
           /\ \A i \in DOMAIN Tail(s) : Tail(s)[i] = s[i + 1] /\ i + 1 \in DOMAIN s
  OBVIOUS

(* A batch written after the earlier ones.                                 *)
LEMMA Joined ==
    ASSUME NEW S, NEW s \in Seq(S), NEW t \in Seq(S)
    PROVE  /\ s \o t \in Seq(S) /\ DOMAIN (s \o t) = 1 .. Len(s) + Len(t)
           /\ \A i \in 1 .. Len(s) + Len(t) : (s \o t)[i] = IF i <= Len(s) THEN s[i] ELSE t[i - Len(s)]
           /\ s \o <<>> = s
  OBVIOUS

-----------------------------------------------------------------------------
(* The moves of a row along the chain.                                     *)

(* A batch of resChan is a sequence of rows.                               *)
LEMMA BatchOfRows ==
    ASSUME NEW R, NEW q \in Seq(Seq(R)), NEW i \in DOMAIN q
    PROVE  q[i] \in Seq(R) /\ \A j \in DOMAIN q[i] : q[i][j] \in R
<1>1. q[i] \in Seq(R)
  BY SeqOf
<1>2. QED
  BY <1>1, SeqOf

(* The converter appends the row that it has taken to the batch (Convert). *)
LEMMA ChainTake ==
    ASSUME NEW R \in SUBSET Nat, NEW s \in Seq(Nat), NEW q \in Seq(Seq(Nat)), NEW r \in Seq(Nat), NEW lo \in Nat,
           Chain(R, s, q, r, lo), lo + 1 \in R
    PROVE  Chain(R, s, q, Append(r, lo + 1), lo + 1)
<1> DEFINE a == Append(r, lo + 1)
<1>1. /\ DOMAIN a = 1 .. (Len(r) + 1) /\ DOMAIN r = 1 .. Len(r) /\ Len(r) \in Nat
      /\ \A i \in 1 .. Len(r) : a[i] = r[i]
      /\ a[Len(r) + 1] = lo + 1
  BY Appended, SeqOf
<1> HIDE DEF a
<1>2. \A i \in DOMAIN a : (i \in DOMAIN r /\ a[i] = r[i]) \/ (i = Len(r) + 1 /\ a[i] = lo + 1)
  BY <1>1, SMTT(30)
<1>3. \A i \in DOMAIN s : s[i] \in Nat
  BY SeqOf
<1>4. \A i \in DOMAIN r : r[i] \in Nat
  BY SeqOf
<1>5. \A i \in DOMAIN q : \A j \in DOMAIN q[i] : q[i][j] \in Nat
  BY BatchOfRows, ZenonT(30)
<1>6. Ascending(a)
  <2> SUFFICES ASSUME NEW i \in DOMAIN a, NEW j \in DOMAIN a, i < j
               PROVE  a[i] < a[j]
    BY DEF Ascending
  <2>1. i \in DOMAIN r /\ a[i] = r[i] /\ r[i] \in Nat /\ r[i] <= lo
    BY <1>1, <1>2, <1>4 DEF Chain, Within
  <2>2. CASE j \in DOMAIN r /\ a[j] = r[j]
    BY <2>1, <2>2 DEF Chain, Ascending
  <2>3. CASE a[j] = lo + 1
    BY <2>1, <2>3
  <2>4. QED
    BY <1>2, <2>2, <2>3
<1>7. Within(R, s, lo + 1) /\ \A i \in DOMAIN q : Within(R, q[i], lo + 1)
  BY <1>3, <1>5, SMTT(30) DEF Chain, Within
<1>8. Within(R, a, lo + 1)
  <2>1. ASSUME NEW i \in DOMAIN r PROVE r[i] \in R /\ r[i] <= lo + 1
    BY <1>4 DEF Chain, Within
  <2>2. ASSUME NEW i \in DOMAIN a PROVE a[i] \in R /\ a[i] <= lo + 1
    <3>1. CASE i \in DOMAIN r /\ a[i] = r[i]
      BY <2>1, <3>1
    <3>2. CASE a[i] = lo + 1
      BY <3>2
    <3>3. QED
      BY <1>2, <3>1, <3>2
  <2>3. QED
    BY <2>2 DEF Within
<1>9. Below(s, a)
  BY <1>1, <1>2, <1>3, SMTT(30) DEF Chain, Below, Within
<1>10. ASSUME NEW n \in DOMAIN q PROVE Below(q[n], a)
  <2> SUFFICES ASSUME NEW j \in DOMAIN q[n], NEW i \in DOMAIN a
               PROVE  q[n][j] < a[i]
    BY DEF Below
  <2>1. q[n][j] \in Nat /\ q[n][j] <= lo /\ Below(q[n], r)
    BY <1>5 DEF Chain, Within
  <2>2. CASE i \in DOMAIN r /\ a[i] = r[i]
    BY <2>1, <2>2 DEF Below
  <2>3. CASE a[i] = lo + 1
    BY <2>1, <2>3
  <2>4. QED
    BY <1>2, <2>2, <2>3
<1>11. QED
  BY <1>6, <1>7, <1>8, <1>9, <1>10 DEF Chain, a

(* An item that is no row moves the converter only (ConvertOk).            *)
LEMMA ChainSkip ==
    ASSUME NEW R \in SUBSET Nat, NEW s \in Seq(Nat), NEW q \in Seq(Seq(Nat)), NEW r \in Seq(Nat), NEW lo \in Nat,
           Chain(R, s, q, r, lo)
    PROVE  Chain(R, s, q, r, lo + 1)
<1>1. \A i \in DOMAIN s : s[i] \in Nat
  BY SeqOf
<1>2. \A i \in DOMAIN r : r[i] \in Nat
  BY SeqOf
<1>3. \A i \in DOMAIN q : \A j \in DOMAIN q[i] : q[i][j] \in Nat
  BY BatchOfRows, ZenonT(30)
<1>4. QED
  BY <1>1, <1>2, <1>3 DEF Chain, Within

(* The full batch goes to resChan (PushBatch).                             *)
LEMMA ChainPush ==
    ASSUME NEW R \in SUBSET Nat, NEW s \in Seq(Nat), NEW q \in Seq(Seq(Nat)), NEW r \in Seq(Nat), NEW lo \in Nat,
           Chain(R, s, q, r, lo)
    PROVE  Chain(R, s, Append(q, r), <<>>, lo)
<1> DEFINE a == Append(q, r)
<1>1. /\ DOMAIN a = 1 .. (Len(q) + 1) /\ DOMAIN q = 1 .. Len(q) /\ Len(q) \in Nat
      /\ \A i \in 1 .. Len(q) : a[i] = q[i]
      /\ a[Len(q) + 1] = r
  BY Appended, SeqOf
<1> HIDE DEF a
<1>2. \A i \in DOMAIN a : (i \in DOMAIN q /\ a[i] = q[i]) \/ (i = Len(q) + 1 /\ a[i] = r)
  BY <1>1
<1>3. \A i \in DOMAIN a : Ascending(a[i]) /\ Within(R, a[i], lo) /\ Below(s, a[i])
  BY <1>2, ZenonT(30) DEF Chain
<1>4. \A i, j \in DOMAIN a : i < j => Below(a[i], a[j])
  <2> SUFFICES ASSUME NEW i \in DOMAIN a, NEW j \in DOMAIN a, i < j
               PROVE  Below(a[i], a[j])
    OBVIOUS
  <2>1. i \in DOMAIN q /\ a[i] = q[i]
    BY <1>1, <1>2
  <2>2. QED
    BY <1>2, <2>1, ZenonT(30) DEF Chain
<1>5. Ascending(<<>>) /\ Within(R, <<>>, lo) /\ \A t : Below(t, <<>>)
  BY DEF Ascending, Within, Below
<1>6. QED
  BY <1>3, <1>4, <1>5 DEF Chain, a

(* The callback writes the first batch of resChan (SendBatch).             *)
LEMMA ChainSend ==
    ASSUME NEW R \in SUBSET Nat, NEW s \in Seq(Nat), NEW q \in Seq(Seq(Nat)), NEW r \in Seq(Nat), NEW lo \in Nat,
           Chain(R, s, q, r, lo), q # <<>>
    PROVE  Chain(R, s \o Head(q), Tail(q), r, lo)
<1> DEFINE h == Head(q)
           t == Tail(q)
           c == s \o h
<1>1. /\ h \in Seq(Nat) /\ h = q[1] /\ 1 \in DOMAIN q
      /\ DOMAIN t = 1 .. (Len(q) - 1) /\ DOMAIN q = 1 .. Len(q) /\ Len(q) \in Nat
      /\ \A i \in DOMAIN t : t[i] = q[i + 1] /\ i + 1 \in DOMAIN q /\ 1 < i + 1
  BY Shortened, SeqOf, NoItems
<1>2. /\ DOMAIN c = 1 .. (Len(s) + Len(h)) /\ Len(s) \in Nat /\ Len(h) \in Nat
      /\ DOMAIN s = 1 .. Len(s) /\ DOMAIN h = 1 .. Len(h)
      /\ \A i \in 1 .. Len(s) + Len(h) : c[i] = IF i <= Len(s) THEN s[i] ELSE h[i - Len(s)]
  BY <1>1, Joined, SeqOf
<1> HIDE DEF c, h, t
<1>3. \A i \in DOMAIN c :
        \/ i \in DOMAIN s /\ c[i] = s[i]
        \/ i > Len(s) /\ i - Len(s) \in DOMAIN h /\ c[i] = h[i - Len(s)]
  BY <1>2, SMTT(30)
<1>4. Ascending(h) /\ Within(R, h, lo) /\ Below(s, h) /\ Below(h, r)
  BY <1>1, ZenonT(30) DEF Chain
<1>5. Ascending(c)
  <2> SUFFICES ASSUME NEW i \in DOMAIN c, NEW j \in DOMAIN c, i < j
               PROVE  c[i] < c[j]
    BY DEF Ascending
  <2>1. CASE i \in DOMAIN s /\ c[i] = s[i] /\ j \in DOMAIN s /\ c[j] = s[j]
    BY <2>1 DEF Chain, Ascending
  <2>2. CASE i \in DOMAIN s /\ c[i] = s[i] /\ j - Len(s) \in DOMAIN h /\ c[j] = h[j - Len(s)]
    BY <1>4, <2>2 DEF Below
  <2>3. CASE /\ i > Len(s) /\ i - Len(s) \in DOMAIN h /\ c[i] = h[i - Len(s)]
             /\ j - Len(s) \in DOMAIN h /\ c[j] = h[j - Len(s)]
    <3>1. i - Len(s) < j - Len(s)
      BY <1>2
    <3>2. QED
      BY <1>4, <2>3, <3>1 DEF Ascending
  <2>4. ~(i > Len(s) /\ j \in DOMAIN s)
    BY <1>2
  <2>5. QED
    BY <1>3, <2>1, <2>2, <2>3, <2>4
<1>6. Within(R, c, lo)
  BY <1>3, <1>4, ZenonT(30) DEF Chain, Within
<1>7. Below(c, r)
  BY <1>3, <1>4, SMTT(30) DEF Chain, Below
<1>8. \A i \in DOMAIN t : Below(c, t[i])
  <2> SUFFICES ASSUME NEW i \in DOMAIN t
               PROVE  Below(c, t[i])
    OBVIOUS
  <2>1. Below(s, t[i]) /\ Below(h, t[i])
    BY <1>1, ZenonT(30) DEF Chain
  <2>2. QED
    BY <1>3, <2>1, ZenonT(30) DEF Below
<1>9. \A i \in DOMAIN t : Ascending(t[i]) /\ Within(R, t[i], lo) /\ Below(t[i], r)
  BY <1>1 DEF Chain
<1>10. \A i, j \in DOMAIN t : i < j => Below(t[i], t[j])
  BY <1>1, SMTT(30) DEF Chain
<1>11. QED
  BY <1>5, <1>6, <1>7, <1>8, <1>9, <1>10 DEF Chain, c, h, t

(* The items of a concatenation are the items of its parts.                *)
LEMMA InConcat ==
    ASSUME NEW R, NEW s \in Seq(R), NEW t \in Seq(R), NEW k
    PROVE  In(k, s \o t) <=> In(k, s) \/ In(k, t)
<1> DEFINE c == s \o t
<1>1. /\ DOMAIN c = 1 .. (Len(s) + Len(t)) /\ Len(s) \in Nat /\ Len(t) \in Nat
      /\ DOMAIN s = 1 .. Len(s) /\ DOMAIN t = 1 .. Len(t)
      /\ \A i \in 1 .. Len(s) + Len(t) : c[i] = IF i <= Len(s) THEN s[i] ELSE t[i - Len(s)]
  BY Joined, SeqOf
<1> HIDE DEF c
<1>2. In(k, c) => In(k, s) \/ In(k, t)
  <2> SUFFICES ASSUME NEW i \in DOMAIN c, c[i] = k
               PROVE  In(k, s) \/ In(k, t)
    BY DEF In
  <2>1. (i \in DOMAIN s /\ s[i] = k) \/ (i - Len(s) \in DOMAIN t /\ t[i - Len(s)] = k)
    BY <1>1
  <2>2. QED
    BY <2>1 DEF In
<1>3. In(k, s) => In(k, c)
  BY <1>1 DEF In
<1>4. In(k, t) => In(k, c)
  <2> SUFFICES ASSUME NEW i \in DOMAIN t, t[i] = k
               PROVE  In(k, c)
    BY DEF In
  <2>1. Len(s) + i \in DOMAIN c /\ ~(Len(s) + i <= Len(s)) /\ (Len(s) + i) - Len(s) = i
    BY <1>1
  <2>2. c[Len(s) + i] = k
    BY <1>1, <2>1
  <2>3. QED
    BY <2>1, <2>2 DEF In
<1>5. QED
  BY <1>2, <1>3, <1>4 DEF c

(* No move loses a row.                                                    *)
LEMMA CoversTake ==
    ASSUME NEW R \in SUBSET Nat, NEW s \in Seq(Nat), NEW q \in Seq(Seq(Nat)), NEW r \in Seq(Nat), NEW lo \in Nat,
           Covers(R, s, q, r, lo), lo + 1 \in R
    PROVE  Covers(R, s, q, Append(r, lo + 1), lo + 1)
<1> DEFINE a == Append(r, lo + 1)
<1>1. /\ DOMAIN a = 1 .. (Len(r) + 1) /\ DOMAIN r = 1 .. Len(r) /\ Len(r) \in Nat
      /\ \A i \in 1 .. Len(r) : a[i] = r[i]
      /\ a[Len(r) + 1] = lo + 1
  BY Appended, SeqOf
<1> HIDE DEF a
<1>2. Len(r) + 1 \in DOMAIN a /\ \A i \in DOMAIN r : i \in DOMAIN a /\ a[i] = r[i]
  BY <1>1
<1>3. In(lo + 1, a) /\ \A k : In(k, r) => In(k, a)
  BY <1>1, <1>2, ZenonT(30) DEF In
<1>4. \A k \in R : k <= lo + 1 => k <= lo \/ k = lo + 1
  OBVIOUS
<1>5. QED
  BY <1>3, <1>4 DEF Covers, a

(* An item that is no row, taken by the converter, leaves nothing          *)
(* uncovered,                                                              *)
LEMMA CoversSkip ==
    ASSUME NEW R \in SUBSET Nat, NEW s, NEW q, NEW r, NEW lo \in Nat,
           Covers(R, s, q, r, lo), lo + 1 \notin R
    PROVE  Covers(R, s, q, r, lo + 1)
<1>1. \A k \in R : k <= lo + 1 => k <= lo
  OBVIOUS
<1>2. QED
  BY <1>1 DEF Covers

(* nor does a batch that goes into resChan,                                *)
LEMMA CoversPush ==
    ASSUME NEW R \in SUBSET Nat, NEW s \in Seq(Nat), NEW q \in Seq(Seq(Nat)), NEW r \in Seq(Nat), NEW lo \in Nat,
           Covers(R, s, q, r, lo)
    PROVE  Covers(R, s, Append(q, r), <<>>, lo)
<1> DEFINE a == Append(q, r)
<1>1. /\ DOMAIN a = 1 .. (Len(q) + 1) /\ DOMAIN q = 1 .. Len(q) /\ Len(q) \in Nat
      /\ \A i \in 1 .. Len(q) : a[i] = q[i]
      /\ a[Len(q) + 1] = r
  BY Appended, SeqOf
<1> HIDE DEF a
<1>2. /\ \A i \in DOMAIN q : i \in DOMAIN a /\ a[i] = q[i]
      /\ Len(q) + 1 \in DOMAIN a
  BY <1>1
<1>3. \A k : In(k, r) \/ (\E i \in DOMAIN q : In(k, q[i])) => \E i \in DOMAIN a : In(k, a[i])
  BY <1>1, <1>2, ZenonT(30)
<1>4. QED
  BY <1>3, ZenonT(30) DEF Covers, a

(* nor does a batch that reaches the client.                               *)
LEMMA CoversSend ==
    ASSUME NEW R \in SUBSET Nat, NEW s \in Seq(Nat), NEW q \in Seq(Seq(Nat)), NEW r, NEW lo \in Nat,
           Covers(R, s, q, r, lo), q # <<>>
    PROVE  Covers(R, s \o Head(q), Tail(q), r, lo)
<1> DEFINE h == Head(q)
           t == Tail(q)
<1>1. /\ h \in Seq(Nat) /\ h = q[1]
      /\ DOMAIN t = 1 .. (Len(q) - 1) /\ DOMAIN q = 1 .. Len(q) /\ Len(q) \in Nat
      /\ \A i \in DOMAIN t : t[i] = q[i + 1]
  BY Shortened, SeqOf, NoItems
<1> HIDE DEF h, t
<1>2. \A i \in DOMAIN q : q[i] = h \/ \E j \in DOMAIN t : t[j] = q[i]
  <2> SUFFICES ASSUME NEW i \in DOMAIN q, i # 1
               PROVE  i - 1 \in DOMAIN t /\ t[i - 1] = q[i]
    BY <1>1, ZenonT(30)
  <2>1. i - 1 \in DOMAIN t /\ (i - 1) + 1 = i
    BY <1>1
  <2>2. QED
    BY <1>1, <2>1
<1>3. \A k : In(k, s) \/ In(k, h) => In(k, s \o h)
  BY <1>1, InConcat
<1>4. QED
  BY <1>2, <1>3, ZenonT(30) DEF Covers, h, t

(* What the client has of a chain skips no row.                            *)
LEMMA ChainSkipsNone ==
    ASSUME NEW R \in SUBSET Nat, NEW s \in Seq(Nat), NEW q \in Seq(Seq(Nat)), NEW r \in Seq(Nat), NEW lo \in Nat,
           Chain(R, s, q, r, lo), Covers(R, s, q, r, lo)
    PROVE  NoneSkipped(R, s)
<1> SUFFICES ASSUME NEW i \in DOMAIN s, NEW k \in R, k < s[i]
             PROVE  In(k, s)
  BY DEF NoneSkipped
<1>1. s[i] \in Nat /\ s[i] <= lo
  BY SeqOf DEF Chain, Within
<1>2. k <= lo
  BY <1>1
<1>3. ~In(k, r)
  <2>1. \A j \in DOMAIN r : r[j] \in Nat /\ s[i] < r[j]
    BY SeqOf, ZenonT(30) DEF Chain, Below
  <2>2. QED
    BY <1>1, <2>1 DEF In
<1>4. ASSUME NEW n \in DOMAIN q PROVE ~In(k, q[n])
  <2>1. \A j \in DOMAIN q[n] : q[n][j] \in Nat /\ s[i] < q[n][j]
    BY BatchOfRows, ZenonT(30) DEF Chain, Below
  <2>2. QED
    BY <1>1, <2>1 DEF In
<1>5. QED
  BY <1>2, <1>3, <1>4, ZenonT(30) DEF Covers

-----------------------------------------------------------------------------
(* The steps, and what each of them keeps.                                 *)

LEMMA InitIInv == Init => IInv
<1> SUFFICES ASSUME Init PROVE IInv
  OBVIOUS
<1> USE PipelineAssumption
<1>1. source \in Seq({"row", "ok"})
  <2>1. PICK n \in 0 .. MaxItems : source \in [1 .. n -> Items(kind)]
    BY DEF Init
  <2>2. Items(kind) \subseteq {"row", "ok"}
    BY DEF Items
  <2>3. n \in Nat
    OBVIOUS
  <2>4. QED
    BY <2>1, <2>2, <2>3
<1>2. Len(source) \in Nat
  BY <1>1, SeqOf
<1>3. TypeOK
  <2>1. \A S : <<>> \in Seq(S) /\ Len(<<>>) = 0
    BY NoItems
  <2>2. res \in [rows : Seq(1 .. Len(source)), affected : Nat]
    BY <2>1 DEF Init, Emptied
  <2>3. pc \in [Goroutines -> {"run", "send", "push", "ended", "returned"}] /\ ret \in [Goroutines -> BOOLEAN]
    BY DEF Init
  <2>4. {rowClosed, resClosed, processed, closed, err} \subseteq BOOLEAN
    BY ZenonT(30) DEF Init
  <2>5. /\ rowChan \in Seq(1 .. Len(source)) /\ Len(rowChan) <= RowCap
        /\ resChan \in Seq(Seq(1 .. Len(source))) /\ Len(resChan) <= ResCap
        /\ sent \in Seq(1 .. Len(source))
    BY <2>1 DEF Init
  <2>6. kind \in Kinds /\ read \in 0 .. Len(source) /\ outcome = "running" /\ faults \subseteq Failures
    BY <1>2 DEF Init
  <2>7. QED
    BY <1>1, <2>2, <2>3, <2>4, <2>5, <2>6 DEF TypeOK
<1>4. Control
  BY DEF Init, Control, Places, Endings, Errors, Idle, Ended, Waited, Goroutines, Emptied
<1>5. Travelling(0)
  <2>1. rowChan = <<>> /\ resChan = <<>> /\ sent = <<>> /\ res.rows = <<>> /\ read = 0 /\ pc["reader"] = "run"
    BY DEF Init, Emptied, Goroutines
  <2>2. Queued(0)
    BY <2>1 DEF Queued, Ended
  <2>3. Chain(Rows, <<>>, <<>>, <<>>, 0)
    BY DEF Chain, Ascending, Below, Within
  <2>4. Covers(Rows, <<>>, <<>>, <<>>, 0)
    BY <1>2 DEF Covers, Rows
  <2>5. QED
    BY <2>1, <2>2, <2>3, <2>4 DEF Travelling
<1>6. RowsInOrder /\ AllRowsDelivered /\ FailureIsReported /\ IteratorClosed
  BY DEF Init, RowsInOrder, AllRowsDelivered, FailureIsReported, IteratorClosed, Delivered
<1>7. QED
  BY <1>3, <1>4, <1>5, <1>6 DEF IInv

(* What the rest of the proofs take from the type invariant.               *)
LEMMA Types ==
    ASSUME TypeOK
    PROVE  /\ Len(source) \in Nat
           /\ Rows \in SUBSET Nat /\ Rows \subseteq 1 .. Len(source)
           /\ Len(res.rows) \in Nat /\ Len(rowChan) \in Nat /\ Len(resChan) \in Nat
           /\ DOMAIN rowChan = 1 .. Len(rowChan) /\ DOMAIN resChan = 1 .. Len(resChan)
           /\ sent \in Seq(Nat) /\ res.rows \in Seq(Nat) /\ resChan \in Seq(Seq(Nat))
           /\ Emptied \in [rows : Seq(1 .. Len(source)), affected : Nat]
<1>1. Len(source) \in Nat
  BY SeqOf DEF TypeOK
<1>2. 1 .. Len(source) \subseteq Nat
  BY <1>1
<1>3. Rows \subseteq 1 .. Len(source)
  BY DEF Rows
<1>4. res.rows \in Seq(1 .. Len(source))
  BY DEF TypeOK
<1>5. \A t \in Seq(1 .. Len(source)) : t \in Seq(Nat)
  BY <1>2
<1>6. Seq(1 .. Len(source)) \subseteq Seq(Nat)
  BY <1>5
<1>7. resChan \in Seq(Seq(Nat))
  BY <1>6 DEF TypeOK
<1>8. Len(res.rows) \in Nat
  BY <1>4, SeqOf
<1>9. Len(rowChan) \in Nat /\ DOMAIN rowChan = 1 .. Len(rowChan)
  BY SeqOf DEF TypeOK
<1>10. Len(resChan) \in Nat /\ DOMAIN resChan = 1 .. Len(resChan)
  BY SeqOf DEF TypeOK
<1>11. Emptied \in [rows : Seq(1 .. Len(source)), affected : Nat]
  BY NoItems DEF Emptied
<1>12. QED
  BY <1>1, <1>2, <1>3, <1>4, <1>5, <1>7, <1>8, <1>9, <1>10, <1>11 DEF TypeOK

(* Every step keeps the types.                                             *)
LEMMA KeepsType == TypeOK /\ Places /\ [Next]_vars => TypeOK'
<1> SUFFICES ASSUME TypeOK, Places, [Next]_vars
             PROVE  TypeOK'
  OBVIOUS
<1> USE DEF Fine, Fault, channels
<1> DEFINE Pc == {"run", "send", "push", "ended", "returned"}
<1>1. /\ Len(source) \in Nat /\ Emptied \in [rows : Seq(1 .. Len(source)), affected : Nat]
      /\ res.rows \in Seq(1 .. Len(source)) /\ res.affected \in Nat
      /\ \A S : <<>> \in Seq(S)
  BY Types, NoItems DEF TypeOK
<1>2. \A g, w : Goto(g, w) /\ w \in Pc => pc' \in [Goroutines -> Pc]
  BY ZenonT(30) DEF Goto, TypeOK
<1>3. \A g, b : End(g, b) /\ b \in BOOLEAN => pc' \in [Goroutines -> Pc] /\ ret' \in [Goroutines -> BOOLEAN]
  BY <1>2, ZenonT(30) DEF End, TypeOK
<1> HIDE DEF Pc
<1>4. "run" \in Pc /\ "send" \in Pc /\ "push" \in Pc /\ "returned" \in Pc
  BY DEF Pc
<1>5. pc \in [Goroutines -> Pc] /\ ret \in [Goroutines -> BOOLEAN]
  BY DEF TypeOK, Pc
<1> DEFINE Flow == /\ pc' \in [Goroutines -> Pc] /\ ret' \in [Goroutines -> BOOLEAN]
                   /\ {rowClosed', resClosed', processed', closed', err'} \subseteq BOOLEAN
                   /\ faults' \subseteq Failures
<1>6. ASSUME Flow, UNCHANGED <<kind, source, outcome>>, read' \in 0 .. Len(source),
             rowChan' \in Seq(1 .. Len(source)), Len(rowChan') <= RowCap,
             resChan' \in Seq(Seq(1 .. Len(source))), Len(resChan') <= ResCap,
             res' \in [rows : Seq(1 .. Len(source)), affected : Nat],
             sent' \in Seq(1 .. Len(source))
      PROVE  TypeOK'
  BY <1>6, ZenonT(30) DEF TypeOK, Pc
<1> HIDE DEF Flow
<1>7. CASE ReadNext
  <2>1. Flow
    BY <1>7, <1>2, <1>3, <1>4, <1>5, ZenonT(30) DEF ReadNext, ReaderEnds, TypeOK, Failures, Flow
  <2>2. read' \in 0 .. Len(source)
    <3>1. read' = read \/ (read < Len(source) /\ read' = read + 1)
      BY <1>7, ZenonT(30) DEF ReadNext, ReaderEnds
    <3>2. read \in 0 .. Len(source)
      BY DEF TypeOK
    <3>3. QED
      BY <1>1, <3>1, <3>2
  <2>3. QED
    BY <1>7, <1>6, <2>1, <2>2, ZenonT(30) DEF ReadNext, ReaderEnds, TypeOK
<1>8. CASE SendRow
  <2>1. read \in 1 .. Len(source)
    BY <1>8, SMTT(30) DEF SendRow, Places, TypeOK
  <2>2. rowChan' \in Seq(1 .. Len(source)) /\ Len(rowChan') = Len(rowChan) + 1
    BY <1>8, <2>1, Appended DEF SendRow, TypeOK
  <2>3. Flow
    BY <1>8, <1>2, <1>4, <1>5 DEF SendRow, TypeOK, Flow
  <2>4. Len(rowChan') <= RowCap
    BY <1>8, <2>2, Types, PipelineAssumption DEF SendRow
  <2>5. QED
    BY <1>8, <1>6, <2>2, <2>3, <2>4, ZenonT(30) DEF SendRow, TypeOK
<1>9. CASE GiveUp
  <2>1. Flow
    BY <1>9, <1>3, <1>5, ZenonT(30) DEF GiveUp, ReaderEnds, TypeOK, Flow
  <2>2. QED
    BY <1>9, <1>6, <2>1 DEF GiveUp, ReaderEnds, TypeOK
<1>10. CASE TakeRow
  <2>1. /\ Tail(rowChan) \in Seq(1 .. Len(source)) /\ Len(Tail(rowChan)) <= RowCap
        /\ Head(rowChan) \in 1 .. Len(source)
    <3>1. /\ Tail(rowChan) \in Seq(1 .. Len(source)) /\ Len(Tail(rowChan)) = Len(rowChan) - 1
          /\ Head(rowChan) \in 1 .. Len(source)
      BY <1>10, Shortened DEF TakeRow, TypeOK
    <3>2. Len(rowChan) <= RowCap
      BY DEF TypeOK
    <3>3. QED
      BY <3>1, <3>2, Types, PipelineAssumption, SMTT(30)
  <2>2. Append(res.rows, Head(rowChan)) \in Seq(1 .. Len(source))
    BY <1>1, <2>1, Appended
  <2>3. CASE ConvertOk
    <3>1. Flow
      BY <1>10, <1>3, <1>5, <2>3, ZenonT(30) DEF TakeRow, ConvertOk, ConverterEnds, TypeOK, Flow, Failures
    <3>2. res' = res \/ \E n \in Affected : res' = [rows |-> <<>>, affected |-> n]
      BY <2>3, ZenonT(30) DEF ConvertOk, ConverterEnds
    <3>3. res' \in [rows : Seq(1 .. Len(source)), affected : Nat]
      <4>1. \A n \in Affected : n \in Nat
        BY PipelineAssumption
      <4>2. \A n \in Nat : [rows |-> <<>>, affected |-> n] \in [rows : Seq(1 .. Len(source)), affected : Nat]
        BY <1>1
      <4>3. res \in [rows : Seq(1 .. Len(source)), affected : Nat]
        BY DEF TypeOK
      <4>4. QED
        BY <3>2, <4>1, <4>2, <4>3, ZenonT(30)
    <3>4. QED
      BY <1>10, <1>6, <2>1, <3>1, <3>3, ZenonT(30) DEF TakeRow, TypeOK
  <2>4. CASE Convert(Head(rowChan))
    <3>1. Flow
      BY <1>10, <1>2, <1>3, <1>4, <1>5, <2>4, ZenonT(30) DEF TakeRow, Convert, ConverterEnds, TypeOK, Flow, Failures
    <3>2. res' = res \/ res' = [rows |-> Append(res.rows, Head(rowChan)), affected |-> res.affected + 1]
      BY <2>4, ZenonT(30) DEF Convert, ConverterEnds
    <3>3. res' \in [rows : Seq(1 .. Len(source)), affected : Nat]
      <4>1. res.affected + 1 \in Nat
        BY <1>1
      <4>2. [rows |-> Append(res.rows, Head(rowChan)), affected |-> res.affected + 1]
              \in [rows : Seq(1 .. Len(source)), affected : Nat]
        BY <2>2, <4>1
      <4>3. res \in [rows : Seq(1 .. Len(source)), affected : Nat]
        BY DEF TypeOK
      <4>4. QED
        BY <3>2, <4>2, <4>3, ZenonT(30)
    <3>4. QED
      BY <1>10, <1>6, <2>1, <3>1, <3>3, ZenonT(30) DEF TakeRow, TypeOK
  <2>5. QED
    BY <1>10, <2>3, <2>4 DEF TakeRow
<1>11. CASE StopConverting
  <2>1. Flow
    BY <1>11, <1>3, <1>5, ZenonT(30) DEF StopConverting, ConverterEnds, TypeOK, Flow, Failures
  <2>2. QED
    BY <1>11, <1>6, <2>1, ZenonT(30) DEF StopConverting, ConverterEnds, TypeOK
<1>12. CASE PushBatch
  <2>1. Flow
    BY <1>12, <1>2, <1>3, <1>4, <1>5, ZenonT(30) DEF PushBatch, ConverterEnds, TypeOK, Flow
  <2>2. /\ Append(resChan, res.rows) \in Seq(Seq(1 .. Len(source)))
        /\ Len(Append(resChan, res.rows)) = Len(resChan) + 1
    BY <1>1, Appended DEF TypeOK
  <2>3. resChan' \in Seq(Seq(1 .. Len(source))) /\ Len(resChan') <= ResCap
    <3>1. resChan' = resChan \/ (Len(resChan) < ResCap /\ resChan' = Append(resChan, res.rows))
      BY <1>12, ZenonT(30) DEF PushBatch
    <3>2. resChan \in Seq(Seq(1 .. Len(source))) /\ Len(resChan) <= ResCap
      BY DEF TypeOK
    <3>3. Len(resChan) \in Nat /\ ResCap \in Nat
      BY Types, PipelineAssumption
    <3>4. CASE resChan' = resChan
      BY <3>2, <3>4
    <3>5. CASE Len(resChan) < ResCap /\ resChan' = Append(resChan, res.rows)
      BY <2>2, <3>3, <3>5
    <3>6. QED
      BY <3>1, <3>4, <3>5
  <2>4. res' \in [rows : Seq(1 .. Len(source)), affected : Nat]
    BY <1>12, <1>1, ZenonT(30) DEF PushBatch, ConverterEnds, TypeOK
  <2>5. QED
    BY <1>12, <1>6, <2>1, <2>3, <2>4, ZenonT(30) DEF PushBatch, TypeOK
<1>13. CASE SendBatch
  <2>1. /\ Tail(resChan) \in Seq(Seq(1 .. Len(source))) /\ Len(Tail(resChan)) = Len(resChan) - 1
        /\ Head(resChan) \in Seq(1 .. Len(source))
    BY <1>13, Shortened DEF SendBatch, TypeOK
  <2>2. sent \o Head(resChan) \in Seq(1 .. Len(source))
    BY <2>1, Joined DEF TypeOK
  <2>3. Flow
    BY <1>13, <1>3, <1>5, ZenonT(30) DEF SendBatch, TypeOK, Flow, Failures
  <2>4. Len(resChan') <= ResCap
    BY <1>13, <2>1, Types, PipelineAssumption DEF SendBatch, TypeOK
  <2>5. QED
    BY <1>13, <1>6, <2>1, <2>2, <2>3, <2>4, ZenonT(30) DEF SendBatch, TypeOK
<1>14. CASE StopSending
  <2>1. Flow
    BY <1>14, <1>3, <1>5, ZenonT(30) DEF StopSending, TypeOK, Flow
  <2>2. QED
    BY <1>14, <1>6, <2>1 DEF StopSending, TypeOK
<1>15. CASE CloseIter
  <2>1. Flow
    BY <1>15, <1>3, <1>5, ZenonT(30) DEF CloseIter, TypeOK, Flow, Failures
  <2>2. QED
    BY <1>15, <1>6, <2>1 DEF CloseIter, TypeOK
<1>16. CASE \E g \in Goroutines : Returned(g)
  <2>1. Flow
    BY <1>16, <1>2, <1>4, <1>5, ZenonT(30) DEF Returned, TypeOK, Flow
  <2>2. QED
    BY <1>16, <1>6, <2>1, ZenonT(30) DEF Returned, TypeOK
<1>17. CASE Wait
  <2>1. sent' \in Seq(1 .. Len(source))
    <3>1. sent \o res.rows \in Seq(1 .. Len(source))
      BY Joined, ZenonT(30) DEF TypeOK
    <3>2. QED
      BY <1>17, <3>1, ZenonT(30) DEF Wait, CallbackLast, TypeOK
  <2>2. QED
    BY <1>17, <2>1 DEF Wait, CallbackLast, Answer, TypeOK, Failures
<1>18. CASE Shortcut
  <2>1. sent' \in Seq(1 .. Len(source))
    <3> DEFINE r == IF kind = "max1" /\ Len(source) = 1 THEN [rows |-> <<1>>, affected |-> 1] ELSE Emptied
    <3>1. r.rows \in Seq(1 .. Len(source))
      <4>1. CASE r = Emptied
        BY <1>1, <4>1, ZenonT(30) DEF Emptied
      <4>2. CASE Len(source) = 1 /\ r = [rows |-> <<1>>, affected |-> 1]
        <5>1. 1 \in 1 .. Len(source)
          BY <4>2
        <5>2. <<1>> \in Seq(1 .. Len(source))
          BY <5>1
        <5>3. r.rows = <<1>>
          BY <4>2
        <5>4. QED
          BY <5>2, <5>3, ZenonT(30)
      <4>3. QED
        BY <4>1, <4>2
    <3>2. sent \o r.rows \in Seq(1 .. Len(source))
      BY <3>1, Joined DEF TypeOK
    <3>3. sent' = sent \/ sent' = sent \o r.rows
      BY <1>18 DEF Shortcut, CallbackLast
    <3>4. QED
      BY <3>2, <3>3, ZenonT(30) DEF TypeOK
  <2>2. /\ closed' \in BOOLEAN /\ outcome' \in {"running", "success", "error"} /\ faults' \subseteq Failures
        /\ UNCHANGED <<kind, source, read, pc, ret, channels, res, processed, err>>
    BY <1>18, ZenonT(30) DEF Shortcut, CallbackLast, Answer, TypeOK, Failures
  <2>3. QED
    BY <2>1, <2>2 DEF TypeOK
<1>19. CASE Cancel
  BY <1>19 DEF Cancel, TypeOK, Failures
<1>20. CASE UNCHANGED vars
  BY <1>20 DEF vars, TypeOK
<1>21. QED
  BY <1>7, <1>8, <1>9, <1>10, <1>11, <1>12, <1>13, <1>14, <1>15, <1>16, <1>17, <1>18, <1>19, <1>20
  DEF Next, Streaming, Reader, Converter, Sender

(* A goroutine that moves leaves the others where they are.                *)
Stays(g) == pc'[g] = pc[g] /\ ret'[g] = ret[g]

Ends(g, failed) == pc'[g] = "ended" /\ ret'[g] = failed

(* What Goto and End do for the reader,                                    *)
LEMMA ReaderMoves ==
    ASSUME TypeOK
    PROVE  /\ \A b \in BOOLEAN : End("reader", b) =>
                Ends("reader", b) /\ Stays("converter") /\ Stays("sender") /\ Stays("closer")
           /\ \A w : Goto("reader", w) /\ ret' = ret =>
                /\ pc'["reader"] = w /\ ret'["reader"] = ret["reader"]
                /\ Stays("converter") /\ Stays("sender") /\ Stays("closer")
  BY DEF TypeOK, Goto, End, Ends, Stays, Goroutines

(* for the converter,                                                      *)
LEMMA ConverterMoves ==
    ASSUME TypeOK
    PROVE  /\ \A b \in BOOLEAN : End("converter", b) =>
                Ends("converter", b) /\ Stays("reader") /\ Stays("sender") /\ Stays("closer")
           /\ \A w : Goto("converter", w) /\ ret' = ret =>
                /\ pc'["converter"] = w /\ ret'["converter"] = ret["converter"]
                /\ Stays("reader") /\ Stays("sender") /\ Stays("closer")
  BY DEF TypeOK, Goto, End, Ends, Stays, Goroutines

(* for the sender                                                          *)
LEMMA SenderMoves ==
    ASSUME TypeOK
    PROVE  /\ \A b \in BOOLEAN : End("sender", b) =>
                Ends("sender", b) /\ Stays("reader") /\ Stays("converter") /\ Stays("closer")
           /\ \A w : Goto("sender", w) /\ ret' = ret =>
                /\ pc'["sender"] = w /\ ret'["sender"] = ret["sender"]
                /\ Stays("reader") /\ Stays("converter") /\ Stays("closer")
  BY DEF TypeOK, Goto, End, Ends, Stays, Goroutines

(* and for the closer.                                                     *)
LEMMA CloserMoves ==
    ASSUME TypeOK
    PROVE  /\ \A b \in BOOLEAN : End("closer", b) =>
                Ends("closer", b) /\ Stays("reader") /\ Stays("converter") /\ Stays("sender")
           /\ \A w : Goto("closer", w) /\ ret' = ret =>
                /\ pc'["closer"] = w /\ ret'["closer"] = ret["closer"]
                /\ Stays("reader") /\ Stays("converter") /\ Stays("sender")
  BY SMTT(30) DEF TypeOK, Goto, End, Ends, Stays, Goroutines

(* How a goroutine's function ends: with an error of its own, with the     *)
(* context's, or without one.                                              *)
Fails(g) == Ends(g, TRUE) /\ \E f \in Failures \ {"cancel"} : faults' = faults \cup {f}

Stops(g) == Ends(g, TRUE) /\ CtxDone /\ faults' = faults

Finishes(g) == Ends(g, FALSE) /\ faults' = faults

(* The steps of the goroutines, one after another. The reader calls Next:  *)
(* it fails, is stopped, finds the end, or has a row to send.              *)
LEMMA ReadNextDoes ==
    ASSUME TypeOK, ReadNext
    PROVE  /\ pc["reader"] = "run"
           /\ Stays("converter") /\ Stays("sender") /\ Stays("closer")
           /\ rowChan' = rowChan
           /\ UNCHANGED <<kind, source, resChan, resClosed, res, processed, closed, err, sent, outcome>>
           /\ \/ read' = read /\ rowClosed' = TRUE /\ (Fails("reader") \/ Stops("reader"))
              \/ read' = read /\ rowClosed' = TRUE /\ Finishes("reader") /\ read = Len(source)
              \/ /\ read < Len(source) /\ read' = read + 1 /\ pc'["reader"] = "send" /\ ret'["reader"] = ret["reader"]
                 /\ rowClosed' = rowClosed /\ faults' = faults
<1>1. "next" \in Failures \ {"cancel"}
  BY DEF Failures
<1>2. CASE CtxDone /\ ReaderEnds(TRUE) /\ Fine
  BY <1>2, ReaderMoves, ZenonT(30) DEF ReadNext, ReaderEnds, Fine, Stops
<1>3. CASE read = Len(source) /\ ReaderEnds(FALSE) /\ Fine
  BY <1>3, ReaderMoves, ZenonT(30) DEF ReadNext, ReaderEnds, Fine, Finishes
<1>4. CASE Fault("next") /\ ReaderEnds(TRUE)
  BY <1>1, <1>4, ReaderMoves, ZenonT(30) DEF ReadNext, ReaderEnds, Fault, Fails
<1>5. CASE /\ read < Len(source) /\ read' = read + 1 /\ Goto("reader", "send") /\ Fine
           /\ UNCHANGED <<ret, rowChan, rowClosed>>
  BY <1>5, ReaderMoves DEF ReadNext, Fine
<1>6. QED
  BY <1>2, <1>3, <1>4, <1>5, ZenonT(30) DEF ReadNext

(* The converter takes an item: it fails, or fills the batch.              *)
LEMMA TakeRowDoes ==
    ASSUME TypeOK, TakeRow
    PROVE  /\ pc["converter"] = "run" /\ rowChan # <<>> /\ rowChan' = Tail(rowChan)
           /\ Stays("reader") /\ Stays("sender") /\ Stays("closer")
           /\ UNCHANGED <<kind, source, read, rowClosed, resChan, processed, closed, err, sent, outcome>>
           /\ \/ Fails("converter") /\ resClosed' = TRUE /\ res' = res
              \/ /\ pc'["converter"] \in {"run", "push"} /\ ret'["converter"] = ret["converter"]
                 /\ resClosed' = resClosed /\ faults' = faults
                 /\ \/ /\ source[Head(rowChan)] = "ok" /\ res.affected = 0 /\ res'.rows = <<>>
                       /\ res'.affected \in Nat
                    \/ /\ source[Head(rowChan)] # "ok" /\ res'.rows = Append(res.rows, Head(rowChan))
                       /\ res'.affected = res.affected + 1
<1>1. "convert" \in Failures \ {"cancel"} /\ "mixed" \in Failures \ {"cancel"}
  BY SMTT(30) DEF Failures
<1>2. CASE /\ source[Head(rowChan)] = "ok" /\ res.affected > 0 /\ faults' = faults \cup {"mixed"}
           /\ ConverterEnds(TRUE)
  BY <1>1, <1>2, ConverterMoves, ZenonT(30) DEF TakeRow, ConverterEnds, Fails
<1>3. CASE /\ source[Head(rowChan)] = "ok" /\ res.affected = 0
           /\ (\E n \in Affected : res' = [rows |-> <<>>, affected |-> n])
           /\ UNCHANGED <<pc, ret, resClosed>> /\ Fine
  <2>1. res'.rows = <<>> /\ res'.affected \in Nat
    BY <1>3, PipelineAssumption
  <2>2. QED
    BY <1>3, <2>1 DEF TakeRow, Fine, Stays
<1>4. CASE source[Head(rowChan)] # "ok" /\ Fault("convert") /\ ConverterEnds(TRUE)
  BY <1>1, <1>4, ConverterMoves, ZenonT(30) DEF TakeRow, ConverterEnds, Fault, Fails
<1>5. CASE /\ source[Head(rowChan)] # "ok"
           /\ res' = [rows |-> Append(res.rows, Head(rowChan)), affected |-> res.affected + 1]
           /\ Goto("converter", IF res.affected + 1 = rowsBatch THEN "push" ELSE "run")
           /\ UNCHANGED <<ret, resClosed>> /\ Fine
  <2>1. PICK w \in {"run", "push"} : Goto("converter", w)
    BY <1>5
  <2>2. res'.rows = Append(res.rows, Head(rowChan)) /\ res'.affected = res.affected + 1
    BY <1>5
  <2>3. QED
    BY <1>5, <2>1, <2>2, ConverterMoves DEF TakeRow, Fine
<1>6. CASE source[Head(rowChan)] # "ok" /\ faults' = faults \cup {"mixed"} /\ ConverterEnds(TRUE)
  BY <1>1, <1>6, ConverterMoves, ZenonT(30) DEF TakeRow, ConverterEnds, Fails
<1>7. QED
  BY <1>2, <1>3, <1>4, <1>5, <1>6, ZenonT(30) DEF TakeRow, Convert, ConvertOk

(* The converter ends without an item: on its timer, on the context, or    *)
(* because rowChan is closed and empty.                                    *)
LEMMA StopConvertingDoes ==
    ASSUME TypeOK, StopConverting
    PROVE  /\ pc["converter"] = "run" /\ resClosed' = TRUE
           /\ Stays("reader") /\ Stays("sender") /\ Stays("closer")
           /\ UNCHANGED <<kind, source, read, rowChan, rowClosed, resChan, res, processed, closed, err, sent, outcome>>
           /\ \/ Fails("converter") \/ Stops("converter")
              \/ Finishes("converter") /\ rowChan = <<>> /\ rowClosed
<1>1. "timeout" \in Failures \ {"cancel"}
  BY DEF Failures
<1>2. QED
  BY <1>1, ConverterMoves, ZenonT(30) DEF StopConverting, ConverterEnds, Fine, Fault, Fails, Stops, Finishes

(* The converter pushes the batch, or is stopped.                          *)
LEMMA PushBatchDoes ==
    ASSUME TypeOK, PushBatch
    PROVE  /\ pc["converter"] = "push"
           /\ Stays("reader") /\ Stays("sender") /\ Stays("closer")
           /\ UNCHANGED <<kind, source, read, rowChan, rowClosed, processed, closed, err, sent, outcome>>
           /\ \/ Stops("converter") /\ resClosed' = TRUE /\ UNCHANGED <<resChan, res>>
              \/ /\ pc'["converter"] = "run" /\ ret'["converter"] = ret["converter"]
                 /\ resClosed' = resClosed /\ faults' = faults
                 /\ resChan' = Append(resChan, res.rows)
                 /\ res'.rows = <<>> /\ res'.affected = 0
<1>1. CASE CtxDone /\ ConverterEnds(TRUE) /\ UNCHANGED resChan
  BY <1>1, ConverterMoves, ZenonT(30) DEF PushBatch, ConverterEnds, Stops
<1>2. CASE /\ resChan' = Append(resChan, res.rows) /\ res' = Emptied
           /\ Goto("converter", "run") /\ UNCHANGED <<ret, resClosed>>
  BY <1>2, ConverterMoves DEF PushBatch, Emptied
<1>3. QED
  BY <1>1, <1>2, ZenonT(30) DEF PushBatch

(* The sender hands a batch to the callback, which may fail.               *)
LEMMA SendBatchDoes ==
    ASSUME TypeOK, SendBatch
    PROVE  /\ pc["sender"] = "run" /\ resChan # <<>> /\ resChan' = Tail(resChan)
           /\ Stays("reader") /\ Stays("converter") /\ Stays("closer")
           /\ UNCHANGED <<kind, source, read, rowChan, rowClosed, resClosed, res, closed, err, outcome>>
           /\ \/ Fails("sender") /\ sent' = sent
              \/ Stays("sender") /\ faults' = faults /\ sent' = sent \o Head(resChan)
<1>1. "callback" \in Failures \ {"cancel"}
  BY DEF Failures
<1>2. QED
  BY <1>1, SenderMoves, ZenonT(30) DEF SendBatch, Fine, Fault, Fails, Stays

(* The sender ends without a batch.                                        *)
LEMMA StopSendingDoes ==
    ASSUME TypeOK, StopSending
    PROVE  /\ pc["sender"] = "run"
           /\ Stays("reader") /\ Stays("converter") /\ Stays("closer")
           /\ UNCHANGED <<kind, source, read, channels, res, processed, closed, err, sent, outcome>>
           /\ Stops("sender") \/ (Finishes("sender") /\ resChan = <<>> /\ resClosed)
  BY SenderMoves, ZenonT(30) DEF StopSending, Stops, Finishes, channels

(* The closer closes the iterator once the others are done.                *)
LEMMA CloseIterDoes ==
    ASSUME TypeOK, CloseIter
    PROVE  /\ pc["closer"] = "run" /\ Waited /\ closed' = TRUE
           /\ Stays("reader") /\ Stays("converter") /\ Stays("sender")
           /\ UNCHANGED <<kind, source, read, channels, res, processed, err, sent, outcome>>
           /\ Fails("closer") \/ Finishes("closer")
<1>1. "close" \in Failures \ {"cancel"}
  BY DEF Failures
<1>2. QED
  BY <1>1, CloserMoves, ZenonT(30) DEF CloseIter, Fine, Fault, Fails, Finishes

(* Returned(g) moves g only, and only on.                                  *)
LEMMA ReturnedDoes ==
    ASSUME TypeOK, NEW g \in Goroutines, Returned(g)
    PROVE  /\ pc[g] = "ended" /\ pc'[g] = "returned" /\ ret' = ret /\ err' = (err \/ ret[g])
           /\ \A h \in Goroutines : h # g => pc'[h] = pc[h]
           /\ \A h \in Goroutines : Ended(h)' <=> Ended(h)
           /\ UNCHANGED <<kind, source, read, channels, res, processed, closed, sent, outcome, faults>>
<1>1. /\ pc[g] = "ended" /\ pc'[g] = "returned"
      /\ \A h \in Goroutines : h # g => pc'[h] = pc[h]
  BY DEF Returned, Goto, TypeOK
<1>2. \A h \in Goroutines : Ended(h)' <=> Ended(h)
  BY <1>1 DEF Ended
<1>3. QED
  BY <1>1, <1>2 DEF Returned

(* The reader puts its row into rowChan,                                   *)
LEMMA SendRowDoes ==
    ASSUME TypeOK, SendRow
    PROVE  /\ pc["reader"] = "send" /\ pc'["reader"] = "run" /\ ret'["reader"] = ret["reader"]
           /\ Stays("converter") /\ Stays("sender") /\ Stays("closer")
           /\ rowChan' = Append(rowChan, read)
           /\ UNCHANGED <<kind, source, read, rowClosed, resChan, resClosed, res, processed, closed,
                          err, sent, outcome, faults>>
  BY ReaderMoves DEF SendRow

(* or gives up when the context is done.                                   *)
LEMMA GiveUpDoes ==
    ASSUME TypeOK, GiveUp
    PROVE  /\ pc["reader"] = "send" /\ CtxDone /\ Finishes("reader") /\ rowClosed' = TRUE
           /\ Stays("converter") /\ Stays("sender") /\ Stays("closer")
           /\ UNCHANGED <<kind, source, read, rowChan, resChan, resClosed, res, processed, closed,
                          err, sent, outcome, faults>>
  BY ReaderMoves, ZenonT(30) DEF GiveUp, ReaderEnds, Finishes

(* Every step keeps the goroutines in their places.                        *)
LEMMA KeepsPlaces == TypeOK /\ Places /\ [Next]_vars => Places'
<1> SUFFICES ASSUME TypeOK, Places, [Next]_vars
             PROVE  Places'
  OBVIOUS
<1>1. \A g : /\ Fails(g) \/ Stops(g) => Ends(g, TRUE)
             /\ Finishes(g) => Ends(g, FALSE)
  BY ZenonT(30) DEF Fails, Stops, Finishes
<1> USE <1>1 DEF channels, Ended, Places, Stays, Ends
<1>2. CASE ReadNext
  <2>1. read \in Nat
    BY Types DEF TypeOK
  <2>2. /\ pc["reader"] = "run" /\ UNCHANGED resClosed
        /\ Stays("converter") /\ Stays("sender") /\ Stays("closer")
        /\ \/ pc'["reader"] = "ended" /\ rowClosed' = TRUE
           \/ pc'["reader"] = "send" /\ rowClosed' = rowClosed /\ read' = read + 1
    BY <1>2, ReadNextDoes, ZenonT(30)
  <2>3. QED
    BY <2>1, <2>2
<1>3. CASE SendRow
  BY <1>3, SendRowDoes
<1>4. CASE GiveUp
  BY <1>4, GiveUpDoes
<1>5. CASE TakeRow
  <2>1. /\ pc["converter"] = "run" /\ UNCHANGED <<read, rowClosed>>
        /\ Stays("reader") /\ Stays("sender") /\ Stays("closer")
        /\ \/ pc'["converter"] = "ended" /\ resClosed' = TRUE
           \/ pc'["converter"] \in {"run", "push"} /\ resClosed' = resClosed
    BY <1>5, TakeRowDoes, ZenonT(30)
  <2>2. QED
    BY <2>1, SMTT(30)
<1>6. CASE StopConverting
  BY <1>6, StopConvertingDoes, SMTT(30)
<1>7. CASE PushBatch
  <2>1. /\ pc["converter"] = "push" /\ UNCHANGED <<read, rowClosed>>
        /\ Stays("reader") /\ Stays("sender") /\ Stays("closer")
        /\ \/ pc'["converter"] = "ended" /\ resClosed' = TRUE
           \/ pc'["converter"] = "run" /\ resClosed' = resClosed
    BY <1>7, PushBatchDoes, ZenonT(30)
  <2>2. QED
    BY <2>1
<1>8. CASE SendBatch
  BY <1>8, SendBatchDoes
<1>9. CASE StopSending
  BY <1>9, StopSendingDoes
<1>10. CASE CloseIter
  BY <1>10, CloseIterDoes
<1>11. CASE \E g \in Goroutines : Returned(g)
  BY <1>11, ReturnedDoes, ZenonT(30) DEF Goroutines
<1>12. CASE Wait
  BY <1>12, ZenonT(30) DEF Wait
<1>13. CASE Shortcut
  BY <1>13 DEF Shortcut
<1>14. CASE Cancel
  BY <1>14, ZenonT(30) DEF Cancel
<1>15. CASE UNCHANGED vars
  BY <1>15, SMTT(30) DEF vars
<1>16. QED
  BY <1>2, <1>3, <1>4, <1>5, <1>6, <1>7, <1>8, <1>9, <1>10, <1>11, <1>12, <1>13, <1>14, <1>15, ZenonT(30)
  DEF Next, Streaming, Reader, Converter, Sender

(* Every step keeps what the endings mean.                                 *)
LEMMA KeepsEndings == TypeOK /\ Places /\ Endings /\ [Next]_vars => Endings'
<1> SUFFICES ASSUME TypeOK, Places, Endings, [Next]_vars
             PROVE  Endings'
  OBVIOUS
<1>1. \A g : /\ Fails(g) \/ Stops(g) => Ends(g, TRUE)
             /\ Finishes(g) => Ends(g, FALSE)
  BY ZenonT(30) DEF Fails, Stops, Finishes
<1> USE DEF channels, Ended, Waited, Endings, Stays, Ends, Goroutines
<1>2. CASE ReadNext
  <2>1. /\ pc["reader"] = "run" /\ UNCHANGED <<kind, rowChan, resChan, closed, outcome>>
        /\ Stays("converter") /\ Stays("sender") /\ Stays("closer")
        /\ \/ pc'["reader"] = "ended"
           \/ pc'["reader"] = "send" /\ ret'["reader"] = ret["reader"]
    BY <1>1, <1>2, ReadNextDoes, ZenonT(30)
  <2>2. QED
    BY <2>1, ZenonT(30)
<1>3. CASE SendRow
  <2>1. /\ pc["reader"] = "send" /\ pc'["reader"] = "run" /\ ret'["reader"] = ret["reader"]
        /\ Stays("converter") /\ Stays("sender") /\ Stays("closer")
        /\ UNCHANGED <<kind, resChan, closed, outcome>>
    BY <1>3, SendRowDoes, ZenonT(30)
  <2>2. QED
    BY <2>1, ZenonT(30)
<1>4. CASE GiveUp
  <2>1. /\ pc["reader"] = "send" /\ pc'["reader"] = "ended"
        /\ Stays("converter") /\ Stays("sender") /\ Stays("closer")
        /\ UNCHANGED <<kind, rowChan, resChan, closed, outcome>>
    BY <1>1, <1>4, GiveUpDoes, ZenonT(30)
  <2>2. QED
    BY <2>1, SMTT(30)
<1>5. CASE TakeRow
  <2>1. /\ pc["converter"] = "run" /\ UNCHANGED <<kind, resChan, closed, outcome>>
        /\ Stays("reader") /\ Stays("sender") /\ Stays("closer")
        /\ \/ pc'["converter"] = "ended" /\ ret'["converter"] = TRUE
           \/ pc'["converter"] \in {"run", "push"} /\ ret'["converter"] = ret["converter"]
    BY <1>1, <1>5, TakeRowDoes, ZenonT(30)
  <2>2. QED
    BY <2>1, SMTT(30)
<1>6. CASE StopConverting
  <2>1. /\ pc["converter"] = "run" /\ UNCHANGED <<kind, rowChan, resChan, closed, outcome>>
        /\ Stays("reader") /\ Stays("sender") /\ Stays("closer")
        /\ pc'["converter"] = "ended" /\ (ret'["converter"] = TRUE \/ (rowChan = <<>> /\ rowClosed))
    BY <1>1, <1>6, StopConvertingDoes, ZenonT(30)
  <2>2. QED
    BY <2>1, ZenonT(30) DEF Places
<1>7. CASE PushBatch
  <2>1. /\ pc["converter"] = "push" /\ UNCHANGED <<kind, rowChan, closed, outcome>>
        /\ Stays("reader") /\ Stays("sender") /\ Stays("closer")
        /\ \/ pc'["converter"] = "ended" /\ ret'["converter"] = TRUE
           \/ pc'["converter"] = "run" /\ ret'["converter"] = ret["converter"]
    BY <1>1, <1>7, PushBatchDoes, ZenonT(30)
  <2>2. QED
    BY <2>1, SMTT(30)
<1>8. CASE SendBatch
  <2>1. /\ pc["sender"] = "run" /\ UNCHANGED <<kind, rowChan, closed, outcome>>
        /\ Stays("reader") /\ Stays("converter") /\ Stays("closer")
        /\ (pc'["sender"] = "ended" /\ ret'["sender"] = TRUE) \/ Stays("sender")
    BY <1>1, <1>8, SendBatchDoes, ZenonT(30)
  <2>2. QED
    BY <2>1, ZenonT(30)
<1>9. CASE StopSending
  <2>1. /\ pc["sender"] = "run" /\ UNCHANGED <<kind, rowChan, resChan, closed, outcome>>
        /\ Stays("reader") /\ Stays("converter") /\ Stays("closer")
        /\ pc'["sender"] = "ended" /\ (ret'["sender"] = TRUE \/ (resChan = <<>> /\ resClosed))
    BY <1>1, <1>9, StopSendingDoes, ZenonT(30)
  <2>2. QED
    BY <2>1, ZenonT(30) DEF Places
<1>10. CASE CloseIter
  <2>1. /\ pc["closer"] = "run" /\ Waited /\ closed' = TRUE /\ UNCHANGED <<kind, rowChan, resChan, outcome>>
        /\ Stays("reader") /\ Stays("converter") /\ Stays("sender") /\ pc'["closer"] = "ended"
    BY <1>1, <1>10, CloseIterDoes, ZenonT(30)
  <2>2. QED
    BY <2>1, ZenonT(30)
<1>11. CASE \E g \in Goroutines : Returned(g)
  <2> PICK g \in Goroutines : Returned(g)
    BY <1>11, ZenonT(30)
  <2>1. /\ \A h \in Goroutines : Ended(h)' <=> Ended(h)
        /\ ret' = ret /\ pc[g] # "returned"
        /\ UNCHANGED <<kind, rowChan, resChan, closed, outcome>>
    BY ReturnedDoes, SMTT(30)
  <2>2. QED
    BY <2>1
<1>12. CASE Wait
  BY <1>12, ZenonT(30) DEF Wait
<1>13. CASE Shortcut
  BY <1>13, SMTT(30) DEF Shortcut
<1>14. CASE Cancel
  BY <1>14, ZenonT(30) DEF Cancel
<1>15. CASE UNCHANGED vars
  BY <1>15 DEF vars
<1>16. QED
  BY <1>2, <1>3, <1>4, <1>5, <1>6, <1>7, <1>8, <1>9, <1>10, <1>11, <1>12, <1>13, <1>14, <1>15, ZenonT(30)
  DEF Next, Streaming, Reader, Converter, Sender

(* What every step of a running goroutine has in common.                   *)
Active(g) ==
    /\ pc[g] \notin {"ended", "returned"} /\ pc'[g] # "returned"
    /\ \A h \in Goroutines : h # g => Stays(h)
    /\ UNCHANGED <<kind, source, err, outcome>>
    /\ Fails(g) \/ Stops(g) \/ (faults' = faults /\ ret'[g] = FALSE)

(* A step of a goroutine ends at most that goroutine, with an error only   *)
(* for a cause.                                                            *)
LEMMA GoroutineStep ==
    ASSUME TypeOK, Endings, Reader \/ Converter \/ Sender \/ CloseIter
    PROVE  \E g \in Goroutines : Active(g)
<1>1. \A g : Finishes(g) => Ends(g, FALSE) /\ faults' = faults
  BY ZenonT(30) DEF Finishes
<1>2. \A g : Fails(g) \/ Stops(g) => Ends(g, TRUE)
  BY ZenonT(30) DEF Fails, Stops
<1>3. \A g \in Goroutines : pc[g] \notin {"ended", "returned"} => ret[g] = FALSE
  BY DEF Endings, Ended, TypeOK
<1> USE DEF Goroutines, Active
<1>4. CASE Reader
  <2>1. CASE ReadNext
    <3>1. Active("reader")
      BY <1>1, <1>2, <1>3, <2>1, ReadNextDoes, ZenonT(30) DEF Ends
    <3>2. QED
      BY <3>1
  <2>2. CASE SendRow
    <3>1. Active("reader")
      BY <1>3, <2>2, SendRowDoes
    <3>2. QED
      BY <3>1
  <2>3. CASE GiveUp
    <3>1. Active("reader")
      BY <1>1, <2>3, GiveUpDoes DEF Ends
    <3>2. QED
      BY <3>1
  <2>4. QED
    BY <1>4, <2>1, <2>2, <2>3, ZenonT(30) DEF Reader
<1>5. CASE Converter
  <2>1. CASE TakeRow
    <3>1. Active("converter")
      BY <1>2, <1>3, <2>1, TakeRowDoes, ZenonT(30) DEF Ends
    <3>2. QED
      BY <3>1
  <2>2. CASE StopConverting
    <3>1. Active("converter")
      BY <1>1, <1>2, <2>2, StopConvertingDoes DEF Ends
    <3>2. QED
      BY <3>1
  <2>3. CASE PushBatch
    <3>1. Active("converter")
      BY <1>2, <1>3, <2>3, PushBatchDoes, ZenonT(30) DEF Ends
    <3>2. QED
      BY <3>1
  <2>4. QED
    BY <1>5, <2>1, <2>2, <2>3, ZenonT(30) DEF Converter
<1>6. CASE Sender
  <2>1. CASE SendBatch
    <3>1. Active("sender")
      BY <1>2, <1>3, <2>1, SendBatchDoes DEF Ends, Stays
    <3>2. QED
      BY <3>1, ZenonT(30)
  <2>2. CASE StopSending
    <3>1. Active("sender")
      BY <1>1, <1>2, <2>2, StopSendingDoes DEF Ends
    <3>2. QED
      BY <3>1
  <2>3. QED
    BY <1>6, <2>1, <2>2, ZenonT(30) DEF Sender
<1>7. CASE CloseIter
  <2>1. Active("closer")
    BY <1>1, <1>2, <1>7, CloseIterDoes DEF Ends
  <2>2. QED
    BY <2>1
<1>8. QED
  BY <1>4, <1>5, <1>6, <1>7, ZenonT(30)

(* Every step keeps the errors accounted for.                              *)
LEMMA KeepsErrors == TypeOK /\ Endings /\ Errors /\ Idle /\ [Next]_vars => Errors'
<1> SUFFICES ASSUME TypeOK, Endings, Errors, Idle, [Next]_vars
             PROVE  Errors'
  OBVIOUS
<1>1. CASE Reader \/ Converter \/ Sender \/ CloseIter
  <2>1. PICK g \in Goroutines : Active(g)
    BY <1>1, GoroutineStep, ZenonT(30)
  <2>2. /\ err' = err /\ outcome' = outcome
        /\ \A h \in Goroutines : h # g => pc'[h] = pc[h] /\ ret'[h] = ret[h]
        /\ pc[g] # "returned" /\ pc'[g] # "returned" /\ ~ret[g]
    BY <2>1, ZenonT(30) DEF Active, Stays, Endings, Ended
  <2>3. err' <=> \E h \in Goroutines : pc'[h] = "returned" /\ ret'[h]
    BY <2>2, ZenonT(30) DEF Errors
  <2>4. CASE Fails(g) \/ Stops(g)
    <3>1. ret'[g] = TRUE
      BY <2>4 DEF Fails, Stops, Ends
    <3>2. faults' # {}
      <4>1. CASE Fails(g)
        BY <4>1 DEF Fails
      <4>2. CASE Stops(g)
        BY <4>2, ZenonT(30) DEF Stops, CtxDone, Errors
      <4>3. QED
        BY <2>4, <4>1, <4>2
    <3>3. QED
      BY <2>3, <3>1, <3>2 DEF Errors
  <2>5. CASE faults' = faults /\ ret'[g] = FALSE
    <3>1. \A h \in Goroutines : ret'[h] <=> ret[h]
      BY <2>2, <2>5, ZenonT(30)
    <3>2. QED
      BY <2>2, <2>3, <2>5, <3>1, ZenonT(30) DEF Errors
  <2>6. QED
    BY <2>1, <2>4, <2>5, ZenonT(30) DEF Active
<1>2. CASE \E g \in Goroutines : Returned(g)
  <2>1. PICK g \in Goroutines : Returned(g)
    BY <1>2, SMTT(30)
  <2>2. /\ pc'[g] = "returned" /\ ret' = ret /\ err' = (err \/ ret[g])
        /\ \A h \in Goroutines : h # g => pc'[h] = pc[h]
        /\ outcome' = outcome /\ faults' = faults
    BY <2>1, ReturnedDoes, ZenonT(30)
  <2>3. err' <=> \E h \in Goroutines : pc'[h] = "returned" /\ ret'[h]
    <3>1. CASE ret[g]
      BY <2>2, <3>1, ZenonT(30)
    <3>2. CASE ~ret[g]
      BY <2>1, <2>2, <3>2, ReturnedDoes, ZenonT(30) DEF Errors
    <3>3. QED
      BY <3>1, <3>2, SMTT(30)
  <2>4. QED
    BY <2>2, <2>3 DEF Errors
<1>3. CASE Wait
  <2>1. UNCHANGED <<err, pc, ret>> /\ (faults' = faults \/ Fault("callback")) /\ outcome' # "running"
    BY <1>3 DEF Wait, CallbackLast, Answer, Fine
  <2>2. faults \subseteq faults'
    BY <2>1, SMTT(30) DEF Fault
  <2>3. QED
    BY <2>1, <2>2, ZenonT(30) DEF Errors
<1>4. CASE Shortcut
  <2>1. UNCHANGED <<err, pc, ret>> /\ outcome' # "running" /\ faults \subseteq faults'
    BY <1>4, ZenonT(30) DEF Shortcut, CallbackLast, Answer, Fine, Fault
  <2>2. QED
    BY <2>1, SMTT(30) DEF Errors
<1>5. CASE Cancel
  <2>1. UNCHANGED <<err, pc, ret>> /\ faults' = faults \cup {"cancel"}
    BY <1>5 DEF Cancel, Fault
  <2>2. (faults \subseteq {"cancel"} => faults' \subseteq {"cancel"}) /\ faults' # {}
    BY <2>1, ZenonT(30)
  <2>3. QED
    BY <1>5, <2>1, <2>2 DEF Errors, Cancel
<1>6. CASE UNCHANGED vars
  BY <1>6 DEF vars, Errors
<1>7. QED
  BY <1>1, <1>2, <1>3, <1>4, <1>5, <1>6 DEF Next, Streaming

(* Every step leaves the goroutines of other results alone, and the result *)
(* what it is.                                                             *)
LEMMA KeepsIdle == TypeOK /\ Idle /\ [Next]_vars => Idle' /\ kind' = kind /\ source' = source
<1> SUFFICES ASSUME TypeOK, Idle, [Next]_vars
             PROVE  Idle' /\ kind' = kind /\ source' = source
  OBVIOUS
<1>1. CASE Streaming
  <2>1. kind = "rows" /\ kind' = kind /\ source' = source
    BY <1>1, ZenonT(30) DEF Streaming, Reader, Converter, Sender, ReadNext, SendRow, GiveUp, TakeRow, StopConverting,
                PushBatch, SendBatch, StopSending, CloseIter, Returned
  <2>2. QED
    BY <2>1, SMTT(30) DEF Idle
<1>2. CASE Wait
  BY <1>2 DEF Wait, Idle
<1>3. CASE Shortcut
  <2>1. UNCHANGED <<kind, source, pc, ret>> /\ outcome' # "running"
    BY <1>3, ZenonT(30) DEF Shortcut, CallbackLast, Answer
  <2>2. QED
    BY <2>1, ZenonT(30) DEF Idle
<1>4. CASE Cancel
  BY <1>4, ZenonT(30) DEF Cancel, Idle
<1>5. CASE UNCHANGED vars
  BY <1>5, SMTT(30) DEF vars, Idle
<1>6. QED
  BY <1>1, <1>2, <1>3, <1>4, <1>5 DEF Next

(* res never counts fewer rows than it holds, so that RowsAffected = 0     *)
(* means that nothing is left to send.                                     *)
LEMMA KeepsCount ==
    ASSUME TypeOK, Len(res.rows) <= res.affected, [Next]_vars
    PROVE  Len(res'.rows) <= res'.affected
<1>1. CASE TakeRow
  <2>1. CASE res' = res
    BY <2>1
  <2>2. CASE res'.rows = <<>> /\ res'.affected \in Nat
    <3>1. Len(<<>>) = 0
      BY NoItems
    <3>2. QED
      BY <2>2, <3>1
  <2>3. CASE res'.rows = Append(res.rows, Head(rowChan)) /\ res'.affected = res.affected + 1
    <3>1. Head(rowChan) \in 1 .. Len(source)
      BY <1>1, Shortened, ZenonT(30) DEF TakeRow, TypeOK
    <3>2. res.rows \in Seq(1 .. Len(source)) /\ res.affected \in Nat
      BY DEF TypeOK
    <3>3. Len(Append(res.rows, Head(rowChan))) = Len(res.rows) + 1
      BY <3>1, <3>2, Appended
    <3>4. QED
      BY <2>3, <3>2, <3>3, Types, SMTT(30)
  <2>4. QED
    BY <1>1, <2>1, <2>2, <2>3, TakeRowDoes, ZenonT(30)
<1>2. CASE PushBatch
  <2>1. Len(<<>>) = 0
    BY NoItems
  <2>2. CASE res' = res
    BY <2>2
  <2>3. CASE res'.rows = <<>> /\ res'.affected = 0
    BY <2>1, <2>3
  <2>4. QED
    BY <1>2, <2>2, <2>3, PushBatchDoes, ZenonT(30)
<1>3. CASE res' = res
  BY <1>3
<1>4. QED
  BY <1>1, <1>2, <1>3, ZenonT(30)
  DEF Next, Streaming, Reader, Converter, Sender, ReadNext, SendRow, GiveUp, StopConverting, ConverterEnds,
      SendBatch, StopSending, CloseIter, Returned, Wait, Shortcut, Cancel, vars

(* The callback fails on the first batch of resChan: the rest keeps its    *)
(* order.                                                                  *)
LEMMA ChainDrop ==
    ASSUME NEW R \in SUBSET Nat, NEW s \in Seq(Nat), NEW q \in Seq(Seq(Nat)), NEW r \in Seq(Nat), NEW lo \in Nat,
           Chain(R, s, q, r, lo), q # <<>>
    PROVE  Chain(R, s, Tail(q), r, lo)
<1> DEFINE t == Tail(q)
<1>1. /\ DOMAIN t = 1 .. (Len(q) - 1) /\ DOMAIN q = 1 .. Len(q) /\ Len(q) \in Nat
      /\ \A i \in DOMAIN t : t[i] = q[i + 1] /\ i + 1 \in DOMAIN q
  BY Shortened, SeqOf, NoItems, ZenonT(30)
<1> HIDE DEF t
<1>2. \A i \in DOMAIN t : Ascending(t[i]) /\ Within(R, t[i], lo) /\ Below(s, t[i]) /\ Below(t[i], r)
  BY <1>1 DEF Chain
<1>3. \A i, j \in DOMAIN t : i < j => Below(t[i], t[j])
  BY <1>1, SMTT(30) DEF Chain
<1>4. QED
  BY <1>2, <1>3, ZenonT(30) DEF Chain, t

-----------------------------------------------------------------------------
(* The queue of rowChan: read, send, take.                                 *)
LEMMA QueuedSame ==
    ASSUME TypeOK, NEW lo \in Nat, Queued(lo), Stays("reader"),
           UNCHANGED <<read, source, rowChan>>, ret["converter"] => ret'["converter"], CtxDone => CtxDone'
    PROVE  Queued(lo)'
  BY DEF Queued, Stays, Ended

(* A row that Next returns is the next one to be queued.                   *)
LEMMA QueuedRead ==
    ASSUME TypeOK, Places, Endings, NEW lo \in Nat, Queued(lo), ReadNext
    PROVE  Queued(lo)'
<1> SUFFICES ASSUME ~ret["converter"]
             PROVE  Queued(lo)'
  BY ReadNextDoes, ZenonT(30) DEF Queued, Stays
<1>1. /\ Len(rowChan) \in Nat /\ Len(source) \in Nat /\ read \in Nat
  BY Types DEF TypeOK
<1>2. /\ \A i \in DOMAIN rowChan : rowChan[i] = lo + i
      /\ lo + Len(rowChan) = read
      /\ rowChan' = rowChan /\ source' = source
  BY ReadNextDoes DEF Queued
<1>3. CASE read' = read /\ pc'["reader"] = "ended" /\ ret'["reader"] = TRUE
  BY <1>1, <1>2, <1>3, ZenonT(30) DEF Queued
<1>4. CASE read' = read /\ pc'["reader"] = "ended" /\ read = Len(source)
  BY <1>1, <1>2, <1>4, ZenonT(30) DEF Queued
<1>5. CASE read' = read + 1 /\ pc'["reader"] = "send"
  BY <1>1, <1>2, <1>5, SMTT(30) DEF Queued, Ended
<1>6. QED
  BY <1>3, <1>4, <1>5, ReadNextDoes, ZenonT(30) DEF Fails, Stops, Finishes, Ends

(* A row that is sent is queued behind the others.                         *)
LEMMA QueuedSend ==
    ASSUME TypeOK, Places, NEW lo \in Nat, Queued(lo), SendRow
    PROVE  Queued(lo)'
<1> SUFFICES ASSUME ~ret["converter"]
             PROVE  Queued(lo)'
  BY SendRowDoes, ZenonT(30) DEF Queued, Stays
<1>1. /\ Len(rowChan) \in Nat /\ read \in Nat /\ read \in 1 .. Len(source)
  BY SendRowDoes, Types, SMTT(30) DEF TypeOK, Places
<1>2. /\ \A i \in DOMAIN rowChan : rowChan[i] = lo + i
      /\ lo + Len(rowChan) + 1 = read
      /\ rowChan' = Append(rowChan, read) /\ read' = read /\ pc'["reader"] = "run"
  BY SendRowDoes, ZenonT(30) DEF Queued
<1>3. /\ Len(rowChan') = Len(rowChan) + 1 /\ DOMAIN rowChan' = 1 .. (Len(rowChan) + 1)
      /\ DOMAIN rowChan = 1 .. Len(rowChan)
      /\ \A i \in 1 .. Len(rowChan) : rowChan'[i] = rowChan[i]
      /\ rowChan'[Len(rowChan) + 1] = read
  BY <1>1, <1>2, Appended, SeqOf DEF TypeOK
<1>4. \A i \in DOMAIN rowChan' : rowChan'[i] = lo + i
  <2> SUFFICES ASSUME NEW i \in DOMAIN rowChan'
               PROVE  rowChan'[i] = lo + i
    OBVIOUS
  <2>1. CASE i \in DOMAIN rowChan
    BY <1>2, <1>3, <2>1
  <2>2. CASE i = Len(rowChan) + 1
    BY <1>1, <1>2, <1>3, <2>2
  <2>3. QED
    BY <1>1, <1>3, <2>1, <2>2
<1>5. QED
  BY <1>1, <1>2, <1>3, <1>4, SMTT(30) DEF Queued, Ended

(* The item taken is the first one after the lo-th.                        *)
LEMMA QueuedTake ==
    ASSUME TypeOK, Places, Endings, NEW lo \in Nat, Queued(lo), TakeRow
    PROVE  /\ Head(rowChan) = lo + 1 /\ lo + 1 \in 1 .. Len(source)
           /\ ret'["converter"] = FALSE => Queued(lo + 1)'
<1>1. ~ret["converter"]
  BY TakeRowDoes, ZenonT(30) DEF Endings, Ended, Goroutines
<1>2. Len(rowChan) \in Nat /\ read \in Nat /\ Len(source) \in Nat /\ ~ret["converter"]
  BY <1>1, Types, SMTT(30) DEF TypeOK
<1>3. /\ \A i \in DOMAIN rowChan : rowChan[i] = lo + i
      /\ rowChan # <<>> /\ rowChan' = Tail(rowChan) /\ Stays("reader") /\ read' = read /\ source' = source
  BY <1>2, TakeRowDoes, ZenonT(30) DEF Queued
<1>4. /\ Len(rowChan') = Len(rowChan) - 1 /\ DOMAIN rowChan' = 1 .. (Len(rowChan) - 1)
      /\ DOMAIN rowChan = 1 .. Len(rowChan) /\ Len(rowChan) > 0
      /\ \A i \in 1 .. Len(rowChan) - 1 : rowChan'[i] = rowChan[i + 1]
      /\ Head(rowChan) = rowChan[1] /\ Head(rowChan) \in 1 .. Len(source)
  BY <1>3, Shortened, SeqOf, NoItems, SMTT(30) DEF TypeOK
<1>5. Head(rowChan) = lo + 1
  BY <1>2, <1>3, <1>4
<1>6. \A i \in DOMAIN rowChan' : rowChan'[i] = (lo + 1) + i
  <2> SUFFICES ASSUME NEW i \in DOMAIN rowChan'
               PROVE  rowChan'[i] = (lo + 1) + i
    OBVIOUS
  <2>1. i + 1 \in DOMAIN rowChan /\ rowChan'[i] = rowChan[i + 1] /\ i \in Nat
    BY <1>2, <1>4
  <2>2. QED
    BY <1>3, <2>1
<1>7. (lo + 1) + Len(rowChan') = lo + Len(rowChan)
  BY <1>2, <1>4, SMTT(30)
<1>8. UNCHANGED <<err, faults>> \/ ret'["converter"] = TRUE
  BY TakeRowDoes, ZenonT(30) DEF Fails, Ends
<1>9. ret'["converter"] = FALSE => Queued(lo + 1)'
  BY <1>2, <1>3, <1>6, <1>7, <1>8 DEF Queued, Stays, Ended, CtxDone
<1>10. QED
  BY <1>4, <1>5, <1>9, ZenonT(30)

(* Every step of the goroutines leaves the rows in order and loses none:   *)
(* the converter's position moves when TakeRow takes an item.              *)
LEMMA KeepsTravelling ==
    ASSUME TypeOK, Control, NEW lo \in Nat, Travelling(lo), [Next]_vars, outcome' = "running", kind = "rows"
    PROVE  \E m \in Nat : Travelling(m)'
<1>1. /\ Rows \in SUBSET Nat /\ sent \in Seq(Nat) /\ resChan \in Seq(Seq(Nat)) /\ res.rows \in Seq(Nat)
      /\ Queued(lo) /\ Chain(Rows, sent, resChan, res.rows, lo)
      /\ ~ret["sender"] => Covers(Rows, sent, resChan, res.rows, lo)
  BY Types DEF Travelling
<1>2. source' = source /\ Rows' = Rows
  BY KeepsIdle DEF Control, Rows
<1>3. Places /\ Endings
  BY ZenonT(30) DEF Control
<1>4. ASSUME Queued(lo)', UNCHANGED <<sent, resChan, res>>, ret["sender"] => ret'["sender"]
      PROVE  Travelling(lo)'
  BY <1>1, <1>2, <1>4, SMTT(30) DEF Travelling
<1>5. CASE ReadNext
  <2>1. UNCHANGED <<sent, resChan, res>> /\ ret'["sender"] = ret["sender"]
    BY <1>5, ReadNextDoes, ZenonT(30) DEF Stays
  <2>2. QED
    BY <1>5, <1>1, <1>3, <1>4, <2>1, QueuedRead, ZenonT(30)
<1>6. CASE SendRow
  <2>1. UNCHANGED <<sent, resChan, res>> /\ ret'["sender"] = ret["sender"]
    BY <1>6, SendRowDoes DEF Stays
  <2>2. QED
    BY <1>6, <1>1, <1>3, <1>4, <2>1, QueuedSend, ZenonT(30)
<1>7. CASE GiveUp
  <2>1. /\ UNCHANGED <<sent, resChan, res, read, source, rowChan, err, faults>> /\ pc["reader"] = "send"
        /\ pc'["reader"] = "ended" /\ CtxDone /\ ret'["sender"] = ret["sender"]
        /\ ret'["converter"] = ret["converter"]
    BY <1>7, GiveUpDoes, ZenonT(30) DEF Stays, Finishes, Ends
  <2>2. Queued(lo)'
    BY <1>1, <2>1, SMTT(30) DEF Queued, Ended, CtxDone
  <2>3. QED
    BY <1>4, <2>1, <2>2
<1>8. CASE TakeRow
  <2>1. /\ Head(rowChan) = lo + 1 /\ lo + 1 \in 1 .. Len(source)
        /\ ret'["converter"] = FALSE => Queued(lo + 1)'
    BY <1>8, <1>1, <1>3, QueuedTake, ZenonT(30)
  <2>2. UNCHANGED <<sent, resChan>> /\ ret'["sender"] = ret["sender"] /\ ret["converter"] = FALSE
    BY <1>8, <1>3, TakeRowDoes, ZenonT(30) DEF Stays, Endings, Ended, TypeOK, Goroutines
  <2>3. CASE Fails("converter") /\ res' = res
    <3>1. Queued(lo)'
      BY <2>3 DEF Queued, Fails, Ends
    <3>2. QED
      BY <1>4, <2>2, <2>3, <3>1, ZenonT(30)
  <2>4. CASE /\ ret'["converter"] = ret["converter"] /\ source[Head(rowChan)] = "ok" /\ res.affected = 0
             /\ res'.rows = <<>>
    <3>1. res.rows = <<>>
      <4>1. Len(res.rows) <= 0 /\ Len(res.rows) \in Nat
        BY <2>4, Types DEF Control
      <4>2. QED
        BY <1>1, <4>1, SeqOf
    <3>2. lo + 1 \notin Rows
      BY <2>1, <2>4, ZenonT(30) DEF Rows
    <3>3. Chain(Rows, sent, resChan, res.rows, lo + 1)
      BY <1>1, ChainSkip
    <3>4. ~ret["sender"] => Covers(Rows, sent, resChan, res.rows, lo + 1)
      BY <1>1, <3>2, CoversSkip, SMTT(30)
    <3>5. Travelling(lo + 1)'
      BY <1>2, <2>1, <2>2, <2>4, <3>1, <3>3, <3>4, ZenonT(30) DEF Travelling
    <3>6. QED
      BY <3>5
  <2>5. CASE /\ ret'["converter"] = ret["converter"] /\ source[Head(rowChan)] # "ok"
             /\ res'.rows = Append(res.rows, Head(rowChan))
    <3>1. lo + 1 \in Rows
      <4>1. source[lo + 1] \in {"row", "ok"}
        BY <2>1, SeqOf DEF TypeOK
      <4>2. QED
        BY <2>1, <2>5, <4>1, ZenonT(30) DEF Rows
    <3>2. Chain(Rows, sent, resChan, Append(res.rows, lo + 1), lo + 1)
      BY <1>1, <3>1, ChainTake, ZenonT(30)
    <3>3. ~ret["sender"] => Covers(Rows, sent, resChan, Append(res.rows, lo + 1), lo + 1)
      BY <1>1, <3>1, CoversTake, SMTT(30)
    <3>4. Travelling(lo + 1)'
      BY <1>2, <2>1, <2>2, <2>5, <3>2, <3>3, ZenonT(30) DEF Travelling
    <3>5. QED
      BY <3>4
  <2>6. QED
    BY <1>8, <2>3, <2>4, <2>5, TakeRowDoes, ZenonT(30)
<1>9. CASE StopConverting
  <2>1. /\ UNCHANGED <<sent, resChan, res, read, source, rowChan, err>> /\ Stays("reader")
        /\ ret'["sender"] = ret["sender"] /\ ret["converter"] = FALSE /\ faults \subseteq faults'
    BY <1>9, <1>3, StopConvertingDoes, ZenonT(30)
    DEF Stays, Endings, Ended, TypeOK, Goroutines, Fails, Stops, Finishes
  <2>2. Queued(lo)'
    BY <1>1, <2>1, QueuedSame, ZenonT(30) DEF CtxDone
  <2>3. QED
    BY <1>4, <2>1, <2>2, SMTT(30)
<1>10. CASE PushBatch
  <2>1. /\ UNCHANGED <<sent, read, source, rowChan, err>> /\ Stays("reader")
        /\ ret'["sender"] = ret["sender"] /\ ret["converter"] = FALSE /\ faults' = faults
    BY <1>10, <1>3, PushBatchDoes, ZenonT(30) DEF Stays, Endings, Ended, TypeOK, Goroutines, Stops
  <2>2. Queued(lo)'
    BY <1>1, <2>1, QueuedSame, ZenonT(30) DEF CtxDone
  <2>3. CASE UNCHANGED <<resChan, res>>
    BY <1>4, <2>1, <2>2, <2>3
  <2>4. CASE resChan' = Append(resChan, res.rows) /\ res'.rows = <<>>
    <3>1. Chain(Rows, sent, Append(resChan, res.rows), <<>>, lo)
      BY <1>1, ChainPush, ZenonT(30)
    <3>2. ~ret["sender"] => Covers(Rows, sent, Append(resChan, res.rows), <<>>, lo)
      BY <1>1, CoversPush, ZenonT(30)
    <3>3. Travelling(lo)'
      BY <1>2, <2>1, <2>2, <2>4, <3>1, <3>2, ZenonT(30) DEF Travelling
    <3>4. QED
      BY <3>3, SMTT(30)
  <2>5. QED
    BY <1>10, <2>3, <2>4, PushBatchDoes, ZenonT(30)
<1>11. CASE SendBatch
  <2>1. /\ UNCHANGED <<read, source, rowChan, err, res>> /\ Stays("reader") /\ Stays("converter")
        /\ resChan # <<>> /\ resChan' = Tail(resChan) /\ faults \subseteq faults'
    BY <1>11, SendBatchDoes, ZenonT(30) DEF Fails
  <2>2. Queued(lo)'
    BY <1>1, <2>1, QueuedSame, ZenonT(30) DEF CtxDone, Stays
  <2>3. CASE ret'["sender"] = TRUE /\ sent' = sent
    <3>1. Chain(Rows, sent, Tail(resChan), res.rows, lo)
      BY <1>1, <2>1, ChainDrop, ZenonT(30)
    <3>2. Travelling(lo)'
      BY <1>2, <2>1, <2>2, <2>3, <3>1, ZenonT(30) DEF Travelling
    <3>3. QED
      BY <3>2
  <2>4. CASE ret'["sender"] = ret["sender"] /\ sent' = sent \o Head(resChan)
    <3>1. Chain(Rows, sent \o Head(resChan), Tail(resChan), res.rows, lo)
      BY <1>1, <2>1, ChainSend
    <3>2. ~ret["sender"] => Covers(Rows, sent \o Head(resChan), Tail(resChan), res.rows, lo)
      BY <1>1, <2>1, CoversSend, ZenonT(30)
    <3>3. Travelling(lo)'
      BY <1>2, <2>1, <2>2, <2>4, <3>1, <3>2 DEF Travelling
    <3>4. QED
      BY <3>3
  <2>5. QED
    BY <1>11, <2>3, <2>4, SendBatchDoes, ZenonT(30) DEF Fails, Ends, Stays
<1>12. CASE StopSending \/ CloseIter
  <2>1. /\ UNCHANGED <<sent, resChan, res, read, source, rowChan, err>> /\ Stays("reader") /\ Stays("converter")
        /\ ret["sender"] => ret'["sender"]
        /\ faults \subseteq faults'
    <3>1. CASE StopSending
      BY <1>3, <3>1, StopSendingDoes, ZenonT(30)
      DEF channels, Stays, Stops, Finishes, Endings, Ended, TypeOK, Goroutines
    <3>2. CASE CloseIter
      BY <3>2, CloseIterDoes, ZenonT(30) DEF channels, Stays, Fails, Finishes
    <3>3. QED
      BY <1>12, <3>1, <3>2, SMTT(30)
  <2>2. Queued(lo)'
    BY <1>1, <2>1, QueuedSame, ZenonT(30) DEF CtxDone, Stays
  <2>3. QED
    BY <1>4, <2>1, <2>2
<1>13. CASE \E g \in Goroutines : Returned(g)
  <2>1. PICK g \in Goroutines : Returned(g)
    BY <1>13, SMTT(30)
  <2>2. /\ UNCHANGED <<sent, resChan, res, read, source, rowChan, ret, faults>> /\ (err => err')
        /\ Ended("reader")' <=> Ended("reader")
        /\ pc'["reader"] = pc["reader"] \/ (Ended("reader") /\ pc'["reader"] = "returned")
    BY <2>1, ReturnedDoes, ZenonT(30) DEF channels, Goroutines, Ended
  <2>3. Queued(lo)'
    BY <1>1, <2>2, ZenonT(30) DEF Queued, CtxDone, Ended
  <2>4. QED
    BY <1>4, <2>2, <2>3
<1>14. CASE Cancel \/ UNCHANGED vars
  <2>1. UNCHANGED <<sent, resChan, res, read, source, rowChan, pc, ret, err>> /\ faults \subseteq faults'
    BY <1>14, ZenonT(30) DEF Cancel, Fault, vars, channels
  <2>2. Queued(lo)'
    BY <1>1, <2>1, QueuedSame, SMTT(30) DEF CtxDone, Stays
  <2>3. QED
    BY <1>4, <2>1, <2>2, ZenonT(30)
<1>15. ~Wait /\ ~Shortcut
  BY ZenonT(30) DEF Wait, Shortcut, CallbackLast, Answer
<1>16. QED
  BY <1>5, <1>6, <1>7, <1>8, <1>9, <1>10, <1>11, <1>12, <1>13, <1>14, <1>15, ZenonT(30)
  DEF Next, Streaming, Reader, Converter, Sender

-----------------------------------------------------------------------------
(* The end of the query.                                                   *)

(* doQuery has returned for good.                                          *)
LEMMA Over ==
    ASSUME TypeOK, Endings, [Next]_vars, outcome # "running"
    PROVE  UNCHANGED vars
<1>1. ~Streaming
  <2> SUFFICES ASSUME Streaming PROVE FALSE
    OBVIOUS
  <2>1. \A g \in Goroutines : pc[g] = "returned"
    BY DEF Streaming, Endings
  <2>2. /\ pc["reader"] = "returned" /\ pc["converter"] = "returned"
        /\ pc["sender"] = "returned" /\ pc["closer"] = "returned"
    BY <2>1, SMTT(30) DEF Goroutines
  <2>3. QED
    BY <2>1, <2>2, ZenonT(30) DEF Streaming, Reader, Converter, Sender, ReadNext, SendRow, GiveUp, TakeRow, StopConverting,
                      PushBatch, SendBatch, StopSending, CloseIter, Returned
<1>2. ~Wait /\ ~Shortcut /\ ~Cancel
  BY ZenonT(30) DEF Wait, Shortcut, Cancel
<1>3. QED
  BY <1>1, <1>2, SMTT(30) DEF Next

(* Once the four have returned without an error, what has been sent and    *)
(* what is left in res are together the rows up to where the reader came.  *)
LEMMA LastBatch ==
    ASSUME TypeOK, Control, NEW lo \in Nat, Travelling(lo), ~err, \A g \in Goroutines : pc[g] = "returned"
    PROVE  /\ Chain(Rows, sent \o res.rows, <<>>, <<>>, lo)
           /\ Covers(Rows, sent \o res.rows, <<>>, <<>>, lo)
           /\ "cancel" \notin faults => lo = Len(source)
           /\ sent \o res.rows \in Seq(Nat)
           /\ \A g \in Goroutines : ~ret[g]
<1>1. \A g \in Goroutines : ~ret[g]
  BY DEF Control, Errors
<1>2. rowChan = <<>> /\ resChan = <<>> /\ Ended("reader")
  BY <1>1 DEF Control, Endings, Ended, Goroutines
<1>3. /\ Rows \in SUBSET Nat /\ sent \in Seq(Nat) /\ res.rows \in Seq(Nat)
      /\ Chain(Rows, sent, <<>>, res.rows, lo) /\ Covers(Rows, sent, <<>>, res.rows, lo)
  BY <1>1, <1>2, Types, ZenonT(30) DEF Travelling, Goroutines
<1>4. /\ <<>> \in Seq(Seq(Nat)) /\ Append(<<>>, res.rows) \in Seq(Seq(Nat)) /\ Append(<<>>, res.rows) # <<>>
      /\ Head(Append(<<>>, res.rows)) = res.rows /\ Tail(Append(<<>>, res.rows)) = <<>> /\ <<>> \in Seq(Nat)
  BY <1>3, Appended, Shortened, NoItems
<1>5. /\ Chain(Rows, sent, Append(<<>>, res.rows), <<>>, lo)
      /\ Covers(Rows, sent, Append(<<>>, res.rows), <<>>, lo)
  BY <1>3, <1>4, ChainPush, CoversPush, ZenonT(30)
<1>6. /\ Chain(Rows, sent \o res.rows, <<>>, <<>>, lo)
      /\ Covers(Rows, sent \o res.rows, <<>>, <<>>, lo)
  BY <1>3, <1>4, <1>5, ChainSend, CoversSend, ZenonT(30)
<1>7. "cancel" \notin faults => lo = Len(source)
  <2>1. Len(rowChan) = 0
    BY <1>2, NoItems, ZenonT(30)
  <2>2. QED
    BY <1>1, <1>2, <2>1 DEF Travelling, Queued, CtxDone, Goroutines
<1>8. sent \o res.rows \in Seq(Nat)
  BY <1>3, Joined, ZenonT(30)
<1>9. QED
  BY <1>1, <1>6, <1>7, <1>8, ZenonT(30)

(* A chain whose rows have all arrived: RowsInOrder and AllRowsDelivered   *)
(* in the terms of the chain.                                              *)
LEMMA Arrived ==
    ASSUME NEW R \in SUBSET Nat, NEW s \in Seq(Nat), NEW q \in Seq(Seq(Nat)), NEW r \in Seq(Nat), NEW lo \in Nat,
           Chain(R, s, q, r, lo), Covers(R, s, q, r, lo)
    PROVE  /\ \A i, j \in DOMAIN s : i < j => s[i] < s[j]
           /\ \A i \in DOMAIN s : \A k \in R : k < s[i] => k \in {s[n] : n \in DOMAIN s}
           /\ q = <<>> /\ r = <<>> /\ (\A k \in R : k <= lo) => {s[n] : n \in DOMAIN s} = R
<1>1. \A k : In(k, s) => k \in {s[n] : n \in DOMAIN s}
  BY ZenonT(30) DEF In
<1>2. \A i \in DOMAIN s : \A k \in R : k < s[i] => k \in {s[n] : n \in DOMAIN s}
  BY <1>1, ChainSkipsNone, ZenonT(30) DEF NoneSkipped
<1>3. ASSUME q = <<>>, r = <<>>, \A k \in R : k <= lo
      PROVE  {s[n] : n \in DOMAIN s} = R
  <2>1. \A k \in R : In(k, s)
    BY <1>3, SMTT(30) DEF Covers, In
  <2>2. \A n \in DOMAIN s : s[n] \in R
    BY DEF Chain, Within
  <2>3. QED
    BY <1>1, <2>1, <2>2, ZenonT(30)
<1>4. \A i, j \in DOMAIN s : i < j => s[i] < s[j]
  BY ZenonT(30) DEF Chain, Ascending
<1>5. QED
  BY <1>2, <1>3, <1>4

(* Every step keeps the rows in order and covered.                         *)
LEMMA KeepsDelivery ==
    ASSUME IInv, [Next]_vars, TypeOK', Control'
    PROVE  /\ kind' = "rows" /\ outcome' = "running" => \E lo \in Nat : Travelling(lo)'
           /\ RowsInOrder' /\ AllRowsDelivered'
<1> USE DEF IInv
<1>1. kind' = kind /\ source' = source /\ Rows' = Rows
  BY KeepsIdle, ZenonT(30) DEF Control, Rows
<1>2. CASE outcome # "running"
  <2>1. UNCHANGED vars
    BY <1>2, Over DEF Control
  <2>2. QED
    BY <1>2, <2>1 DEF vars, RowsInOrder, AllRowsDelivered, Delivered, Rows
<1>3. CASE kind # "rows"
  BY <1>1, <1>3 DEF RowsInOrder, AllRowsDelivered
<1>4. CASE kind = "rows" /\ outcome = "running" /\ outcome' = "running"
  <2>1. PICK m \in Nat : Travelling(m)'
    BY <1>4, KeepsTravelling, ZenonT(30)
  <2>2. CASE sent' = sent
    BY <1>1, <1>4, <2>1, <2>2, SMTT(30) DEF RowsInOrder, AllRowsDelivered, Delivered
  <2>3. CASE sent' # sent
    <3>1. SendBatch
      BY <1>4, <2>3, ZenonT(30) DEF Next, Streaming, Reader, Converter, Sender, ReadNext, SendRow, GiveUp, TakeRow,
                        StopConverting, PushBatch, StopSending, CloseIter, Returned, Wait, CallbackLast, Answer,
                        Shortcut, Cancel, vars
    <3>2. ~ret'["sender"]
      BY <2>3, <3>1, SendBatchDoes, ZenonT(30) DEF Stays, Control, Endings, Ended, Goroutines
    <3>3. /\ Chain(Rows, sent', resChan', res'.rows, m) /\ Covers(Rows, sent', resChan', res'.rows, m)
          /\ Rows \in SUBSET Nat /\ sent' \in Seq(Nat) /\ res'.rows \in Seq(Nat) /\ resChan' \in Seq(Seq(Nat))
      <4>1. /\ Chain(Rows, sent', resChan', res'.rows, m) /\ Covers(Rows, sent', resChan', res'.rows, m)
        BY <1>1, <2>1, <3>2, ZenonT(30) DEF Travelling
      <4>2. sent' = sent \o Head(resChan) /\ resChan' = Tail(resChan) /\ res' = res /\ resChan # <<>>
        BY <2>3, <3>1, SendBatchDoes
      <4>3. Head(resChan) \in Seq(Nat) /\ Tail(resChan) \in Seq(Seq(Nat))
        BY <4>2, Types, Shortened, ZenonT(30)
      <4>4. sent \o Head(resChan) \in Seq(Nat)
        BY <4>3, Types, Joined, ZenonT(30)
      <4>5. QED
        BY <4>1, <4>2, <4>3, <4>4, Types, ZenonT(30)
    <3>4. QED
      BY <1>1, <1>4, <2>1, <3>3, Arrived, ZenonT(30) DEF RowsInOrder, AllRowsDelivered, Delivered
  <2>4. QED
    BY <2>2, <2>3
<1>5. CASE kind = "rows" /\ outcome = "running" /\ outcome' # "running"
  <2>1. Wait
    BY <1>5, ZenonT(30) DEF Next, Streaming, Reader, Converter, Sender, ReadNext, SendRow, GiveUp, TakeRow, StopConverting,
                PushBatch, SendBatch, StopSending, CloseIter, Returned, Shortcut, Cancel, vars
  <2>2. CASE sent' = sent /\ outcome' = "error"
    BY <1>1, <1>5, <2>2, SMTT(30) DEF RowsInOrder, AllRowsDelivered, Delivered
  <2>3. CASE ~err /\ outcome' = "success" /\ faults' = faults /\ (sent' = sent \o res.rows \/ (sent' = sent /\ NothingLeft(res)))
    <3>1. PICK lo \in Nat : Travelling(lo)
      BY <1>5
    <3>2. sent' = sent \o res.rows
      <4>1. CASE NothingLeft(res)
        <5>1. Len(res.rows) <= 0 /\ Len(res.rows) \in Nat /\ res.rows \in Seq(Nat) /\ sent \in Seq(Nat)
          BY <4>1, Types, ZenonT(30) DEF NothingLeft, Control
        <5>2. res.rows = <<>>
          BY <5>1, SeqOf, SMTT(30)
        <5>3. QED
          BY <2>3, <5>1, <5>2, Joined, ZenonT(30)
      <4>2. QED
        BY <2>3, <4>1, ZenonT(30)
    <3>3. /\ Chain(Rows, sent', <<>>, <<>>, lo) /\ Covers(Rows, sent', <<>>, <<>>, lo)
          /\ "cancel" \notin faults => lo = Len(source)
          /\ sent' \in Seq(Nat)
      BY <2>1, <2>3, <3>1, <3>2, LastBatch, SMTT(30) DEF Wait
    <3>4. /\ \A i, j \in DOMAIN sent' : i < j => sent'[i] < sent'[j]
          /\ \A i \in DOMAIN sent' : \A k \in Rows : k < sent'[i] => k \in {sent'[n] : n \in DOMAIN sent'}
          /\ (\A k \in Rows : k <= lo) => {sent'[n] : n \in DOMAIN sent'} = Rows
      <4>1. <<>> \in Seq(Nat) /\ <<>> \in Seq(Seq(Nat)) /\ Rows \in SUBSET Nat
        BY Types, NoItems
      <4>2. QED
        BY <3>3, <4>1, Arrived, ZenonT(30)
    <3>5. lo = Len(source) => \A k \in Rows : k <= lo
      BY Types
    <3>6. QED
      BY <1>1, <2>3, <3>3, <3>4, <3>5, ZenonT(30) DEF RowsInOrder, AllRowsDelivered, Delivered
  <2>4. QED
    BY <2>1, <2>2, <2>3, ZenonT(30) DEF Wait, CallbackLast, Answer, Fine
<1>6. QED
  BY <1>2, <1>3, <1>4, <1>5

(* Every step keeps the reports and the closing of the iterator.           *)
LEMMA KeepsReports ==
    ASSUME IInv, [Next]_vars
    PROVE  FailureIsReported' /\ IteratorClosed'
<1> USE DEF IInv
<1>1. kind' = kind
  BY KeepsIdle, ZenonT(30) DEF Control
<1>2. CASE outcome # "running"
  <2>1. UNCHANGED vars
    BY <1>2, Over DEF Control
  <2>2. QED
    BY <1>2, <2>1 DEF vars, FailureIsReported, IteratorClosed
<1>3. CASE outcome' = "running"
  BY <1>3 DEF FailureIsReported, IteratorClosed
<1>4. CASE Wait
  <2>1. outcome' = "success" => faults' \subseteq {"cancel"}
    <3> SUFFICES ASSUME outcome' = "success"
                 PROVE  faults' \subseteq {"cancel"}
      OBVIOUS
    <3>1. ~err /\ faults' = faults /\ outcome = "running" /\ \A g \in Goroutines : pc[g] = "returned"
      BY <1>4, ZenonT(30) DEF Wait, CallbackLast, Answer, Fine
    <3>2. \A g \in Goroutines : ~ret[g]
      BY <3>1, ZenonT(30) DEF Control, Errors
    <3>3. QED
      BY <3>1, <3>2 DEF Control, Errors
  <2>2. outcome' = "error" => faults' # {}
    <3>1. CASE err /\ faults' = faults
      BY <3>1 DEF Control, Errors
    <3>2. CASE Fault("callback")
      BY <3>2, ZenonT(30) DEF Fault
    <3>3. QED
      BY <1>4, <3>1, <3>2, ZenonT(30) DEF Wait, CallbackLast, Answer, Fine
  <2>3. closed' /\ kind' = "rows"
    BY <1>4 DEF Wait, Control, Endings, Ended, Goroutines
  <2>4. QED
    BY <2>1, <2>2, <2>3, ZenonT(30) DEF FailureIsReported, IteratorClosed
<1>5. CASE Shortcut
  <2>1. faults \subseteq {"cancel"}
    BY <1>5 DEF Shortcut, Control, Errors, Idle
  <2>2. outcome' = "success" => faults' = faults /\ (kind \in {"ok", "empty"} => closed')
    BY <1>5, ZenonT(30) DEF Shortcut, CallbackLast, Answer, Fine
  <2>3. outcome' = "error" => faults' # {}
    BY <1>5, ZenonT(30) DEF Shortcut, CallbackLast, Answer, Fault
  <2>4. kind' # "rows"
    BY <1>1, <1>5 DEF Shortcut
  <2>5. QED
    BY <1>1, <2>1, <2>2, <2>3, <2>4, ZenonT(30) DEF FailureIsReported, IteratorClosed
<1>6. outcome' # "running" /\ outcome = "running" => Wait \/ Shortcut
  BY ZenonT(30) DEF Next, Streaming, Reader, Converter, Sender, ReadNext, SendRow, GiveUp, TakeRow, StopConverting,
         PushBatch, SendBatch, StopSending, CloseIter, Returned, Cancel, vars
<1>7. QED
  BY <1>2, <1>3, <1>4, <1>5, <1>6

(* Every step keeps the invariant.                                         *)
LEMMA NextIInv == IInv /\ [Next]_vars => IInv'
<1> SUFFICES ASSUME IInv, [Next]_vars
             PROVE  IInv'
  OBVIOUS
<1>1. TypeOK'
  BY KeepsType DEF IInv, Control
<1>2. Control'
  BY KeepsPlaces, KeepsEndings, KeepsErrors, KeepsIdle, KeepsCount DEF IInv, Control
<1>3. QED
  BY <1>1, <1>2, KeepsDelivery, KeepsReports DEF IInv

-----------------------------------------------------------------------------
(* IInv holds in every state that doQuery reaches.                         *)
THEOREM Invariance == Spec => []IInv
  BY InitIInv, NextIInv, PTL DEF Spec

(* The variables of doQuery and of its goroutines keep their types, and    *)
(* the channels their capacity (TypeOK).                                   *)
THEOREM TypeCorrect == Spec => []TypeOK
<1>1. IInv => TypeOK
  BY DEF IInv
<1>2. QED
  BY <1>1, Invariance, PTL

(* The callback gets the rows in the iterator's order, each once, and none *)
(* before an earlier one, for every size of result, batch and channel and  *)
(* wherever reader, converter and sender stop (RowsInOrder).               *)
THEOREM RowsStayInOrder == Spec => []RowsInOrder
<1>1. IInv => RowsInOrder
  BY DEF IInv
<1>2. QED
  BY <1>1, Invariance, PTL

(* doQuery returns without an error only when every row has been handed to *)
(* the callback, unless its caller has cancelled it (AllRowsDelivered).    *)
THEOREM SuccessDeliversAll == Spec => []AllRowsDelivered
<1>1. IInv => AllRowsDelivered
  BY DEF IInv
<1>2. QED
  BY <1>1, Invariance, PTL

(* The errgroup loses no failure of the four goroutines, and makes none up *)
(* (FailureIsReported).                                                    *)
THEOREM FailuresAreReported == Spec => []FailureIsReported
<1>1. IInv => FailureIsReported
  BY DEF IInv
<1>2. QED
  BY <1>1, Invariance, PTL

(* No streamed query returns before its iterator was closed, and no        *)
(* statement without rows succeeds before that (IteratorClosed).           *)
THEOREM IteratorIsClosed == Spec => []IteratorClosed
<1>1. IInv => IteratorClosed
  BY DEF IInv
<1>2. QED
  BY <1>1, Invariance, PTL

(* When the iterator is closed and nothing has failed, every row has been  *)
(* sent or is in the last batch.                                           *)
LEMMA RowsAtClose ==
    ASSUME IInv, closed, kind = "rows", faults = {}
    PROVE  Rows \subseteq Delivered \cup {res.rows[i] : i \in DOMAIN res.rows}
<1>1. Waited /\ \A g \in Goroutines : ~ret[g]
  BY DEF IInv, Control, Endings, Errors
<1>2. ~ret["reader"] /\ ~ret["converter"] /\ ~ret["sender"] /\ ~err
  BY <1>1 DEF Goroutines, IInv, Control, Errors
<1>3. rowChan = <<>> /\ resChan = <<>> /\ Ended("reader") /\ Len(rowChan) = 0
  BY <1>1, <1>2, NoItems DEF IInv, Control, Endings, Waited
<1>4. CASE outcome = "running"
  <2>1. PICK lo \in Nat : Travelling(lo)
    BY <1>4 DEF IInv
  <2>2. lo = Len(source)
    BY <1>2, <1>3, <2>1 DEF Travelling, Queued, CtxDone
  <2>3. Covers(Rows, sent, <<>>, res.rows, lo)
    BY <1>2, <1>3, <2>1 DEF Travelling
  <2>4. \A k \in Rows : k <= Len(source)
    BY Types DEF IInv, Rows
  <2>5. \A k \in Rows : In(k, sent) \/ In(k, res.rows)
    BY <2>2, <2>3, <2>4, SMTT(30) DEF Covers
  <2>6. QED
    BY <2>5, ZenonT(30) DEF In, Delivered
<1>5. CASE outcome # "running"
  BY <1>5, SMTT(30) DEF IInv, TypeOK, FailureIsReported, AllRowsDelivered
<1>6. QED
  BY <1>4, <1>5

(* After iter.Close neither Next nor the sender's callback is called; only *)
(* what is left in res is still to come, after eg.Wait, and all of that is *)
(* (CloseLeavesLastBatch).                                                 *)
THEOREM LastBatchAfterClose == Spec => CloseLeavesLastBatch
<1>1. ASSUME IInv, [Next]_vars, closed, kind = "rows"
      PROVE  /\ read' = read /\ processed' = processed
             /\ sent' # sent => sent' = sent \o res.rows /\ outcome' = "success"
  <2>1. Ended("reader") /\ Ended("converter") /\ Ended("sender")
    BY <1>1 DEF IInv, Control, Endings, Waited
  <2>2. ~ReadNext /\ ~SendBatch
    BY <2>1, ZenonT(30) DEF Ended, ReadNext, SendBatch
  <2>3. CASE Wait
    BY <2>3 DEF Wait, CallbackLast, Answer
  <2>4. CASE ~Wait
    BY <1>1, <2>2, <2>4, ZenonT(30)
    DEF Next, Streaming, Reader, Converter, Sender, SendRow, GiveUp, ReaderEnds, TakeRow, StopConverting,
        PushBatch, StopSending, CloseIter, Returned, Shortcut, Cancel, vars
  <2>5. QED
    BY <2>3, <2>4
<1>2. ASSUME IInv, closed, kind = "rows", faults = {}
      PROVE  Rows \subseteq Delivered \cup {res.rows[i] : i \in DOMAIN res.rows}
  BY <1>2, RowsAtClose
<1>3. QED
  BY <1>1, <1>2, Invariance, PTL DEF Spec, CloseLeavesLastBatch

(* The goroutines never all wait for one another (NeverAllBlocked), for    *)
(* every capacity of the channels.  A sender that waits has left no batch, *)
(* so that the converter does not wait for room; a converter that waits    *)
(* has left no row, so that the reader does not; and who has returned has  *)
(* closed its channel or cancelled the context.                            *)
THEOREM GoroutinesNeverAllBlocked == Spec => []NeverAllBlocked
<1>1. ASSUME IInv, kind = "rows", NEW g \in Goroutines, pc[g] # "returned",
             \A h \in Goroutines : pc[h] # "returned" => Blocked(h)
      PROVE  FALSE
  <2>1. /\ pc["reader"] # "returned" => pc["reader"] = "send" /\ Len(rowChan) = RowCap /\ ~CtxDone
        /\ pc["converter"] # "returned" =>
             /\ ~CtxDone
             /\ \/ pc["converter"] = "run" /\ rowChan = <<>> /\ ~rowClosed
                \/ pc["converter"] = "push" /\ Len(resChan) = ResCap
        /\ pc["sender"] # "returned" => pc["sender"] = "run" /\ resChan = <<>> /\ ~resClosed /\ ~CtxDone
        /\ pc["closer"] # "returned" => pc["closer"] = "run" /\ ~Waited
    BY <1>1 DEF Goroutines, Blocked
  <2>2. ~(pc["reader"] = "returned" /\ pc["converter"] = "returned" /\ pc["sender"] = "returned")
    BY <1>1, <2>1 DEF Goroutines, Waited, Ended
  <2>3. ~err /\ \A h \in Goroutines : pc[h] = "returned" => ~ret[h]
    BY <1>1, <2>1, <2>2, ZenonT(30) DEF CtxDone, IInv, Control, Errors
  <2>4. pc["sender"] # "returned"
    BY <1>1, <2>1, <2>2, <2>3, ZenonT(30) DEF IInv, Control, Endings, Ended, Goroutines
  <2>5. resChan = <<>> /\ pc["converter"] # "returned"
    BY <1>1, <2>1, <2>4 DEF IInv, Control, Places, Ended
  <2>6. Len(resChan) # ResCap
    BY <2>5, PipelineAssumption, ZenonT(30)
  <2>7. rowChan = <<>> /\ pc["reader"] # "returned"
    BY <1>1, <2>1, <2>5, <2>6 DEF IInv, Control, Places, Ended
  <2>8. QED
    BY <2>1, <2>7, PipelineAssumption
<1>2. IInv => NeverAllBlocked
  BY <1>1 DEF NeverAllBlocked
<1>3. QED
  BY <1>2, Invariance, PTL

(* What Left counts of a goroutine, place by place.                        *)
LEMMA RemainingOf ==
    ASSUME NEW g \in Goroutines
    PROVE  /\ pc[g] = "send" => Remaining(g) = 6
           /\ pc[g] = "push" => Remaining(g) = 4
           /\ pc[g] = "run" => Remaining(g) = 2
           /\ pc[g] = "ended" => Remaining(g) = 1
           /\ pc[g] = "returned" => Remaining(g) = 0
           /\ pc'[g] = "send" => Remaining(g)' = 6
           /\ pc'[g] = "push" => Remaining(g)' = 4
           /\ pc'[g] = "run" => Remaining(g)' = 2
           /\ pc'[g] = "ended" => Remaining(g)' = 1
           /\ pc'[g] = "returned" => Remaining(g)' = 0
           /\ pc'[g] = pc[g] => Remaining(g)' = Remaining(g)
  BY DEF Remaining

Counted == ItemsLeft \in Nat /\ GoroutinesLeft \in Nat

(* What is left is a number.                                               *)
LEMMA LeftIsNat == TypeOK => Counted
<1> SUFFICES ASSUME TypeOK PROVE Counted
  OBVIOUS
<1>1. ASSUME NEW g \in Goroutines PROVE Remaining(g) \in Nat
  <2>1. pc[g] \in {"run", "send", "push", "ended", "returned"}
    BY DEF TypeOK
  <2>2. QED
    BY <2>1, RemainingOf
<1>2. /\ Len(source) \in Nat /\ read \in Nat /\ read <= Len(source)
      /\ Len(rowChan) \in Nat /\ Len(resChan) \in Nat
  BY Types DEF TypeOK
<1>3. /\ Remaining("reader") \in Nat /\ Remaining("converter") \in Nat
      /\ Remaining("sender") \in Nat /\ Remaining("closer") \in Nat
  BY <1>1 DEF Goroutines
<1>4. ItemsLeft \in Nat
  BY <1>2 DEF ItemsLeft
<1>5. GoroutinesLeft \in Nat
  BY <1>3 DEF GoroutinesLeft
<1>6. QED
  BY <1>4, <1>5 DEF Counted

(* What is left after a step is a number.                                  *)
LEMMA LeftStaysNat == TypeOK' => Counted'
  BY LeftIsNat, PTL

(* The sum of Left, in numbers.                                            *)
LEMMA Sums ==
    ASSUME NEW i \in Nat, NEW j \in Nat, NEW k \in Nat, NEW l \in Nat,
           NEW a \in 0 .. 1, NEW b \in 0 .. 1, NEW c \in 0 .. 1, NEW d \in 0 .. 1,
           \/ i + j < k + l /\ a = c /\ b <= d
           \/ i = k /\ j = l /\ a <= c /\ b <= d /\ (a < c \/ b < d)
    PROVE  i + j + a + b >= 0 /\ i + j + a + b < k + l + c + d
  OBVIOUS

(* A step of a goroutine leaves less when it passes an item on or gets on  *)
(* itself, and so do the end of doQuery and the caller's cancellation.     *)
LEMMA LeftLess ==
    ASSUME Counted, Counted', faults \subseteq faults',
           \/ outcome' = outcome /\ ItemsLeft' + GoroutinesLeft' < ItemsLeft + GoroutinesLeft
           \/ /\ ItemsLeft' = ItemsLeft /\ GoroutinesLeft' = GoroutinesLeft
              /\ \/ outcome = "running" /\ outcome' # "running"
                 \/ outcome' = outcome /\ "cancel" \notin faults /\ "cancel" \in faults'
    PROVE  Left' >= 0 /\ Left' < Left
<1> DEFINE a == IF outcome = "running" THEN 1 ELSE 0
           b == IF "cancel" \in faults THEN 0 ELSE 1
<1>1. a \in 0 .. 1 /\ b \in 0 .. 1 /\ a' \in 0 .. 1 /\ b' \in 0 .. 1 /\ b' <= b
  BY "cancel" \in faults => "cancel" \in faults'
<1>2. \/ ItemsLeft' + GoroutinesLeft' < ItemsLeft + GoroutinesLeft /\ a' = a /\ b' <= b
      \/ ItemsLeft' = ItemsLeft /\ GoroutinesLeft' = GoroutinesLeft /\ a' <= a /\ b' <= b /\ (a' < a \/ b' < b)
  BY <1>1
<1>3. Left = ItemsLeft + GoroutinesLeft + a + b /\ Left' = ItemsLeft' + GoroutinesLeft' + a' + b'
  BY DEF Left
<1> HIDE DEF a, b
<1>4. ItemsLeft \in Nat /\ GoroutinesLeft \in Nat /\ ItemsLeft' \in Nat /\ GoroutinesLeft' \in Nat
  BY DEF Counted
<1>5. QED
  BY <1>1, <1>2, <1>3, <1>4, Sums, ZenonT(30)

(* What a step of one goroutine takes from what all have left.             *)
LEMMA OneMoves ==
    ASSUME TypeOK, TypeOK', NEW g \in Goroutines, \A h \in Goroutines : h # g => pc'[h] = pc[h]
    PROVE  GoroutinesLeft' = GoroutinesLeft - Remaining(g) + Remaining(g)'
<1>1. \A h \in Goroutines : h # g => Remaining(h)' = Remaining(h)
  BY RemainingOf, ZenonT(30)
<1>2. \A h \in Goroutines : Remaining(h) \in Nat /\ Remaining(h)' \in Nat
  <2>1. \A h \in Goroutines : /\ pc[h] \in {"run", "send", "push", "ended", "returned"}
                              /\ pc'[h] \in {"run", "send", "push", "ended", "returned"}
    BY ZenonT(30) DEF TypeOK
  <2>2. QED
    BY <2>1, RemainingOf
<1>3. QED
  BY <1>1, <1>2, SMTT(30) DEF GoroutinesLeft, Goroutines

(* Every step of the pipeline leaves less to do (BoundedWork): no batch,   *)
(* no row and no error is handled twice, and no goroutine turns in a loop. *)
THEOREM WorkIsBounded == Spec => BoundedWork
<1>1. ASSUME IInv, IInv', Next PROVE Left' >= 0 /\ Left' < Left
  <2>1. TypeOK /\ TypeOK' /\ Counted /\ Counted'
    BY <1>1, LeftIsNat, LeftStaysNat, ZenonT(30) DEF IInv
  <2>2. /\ Len(source) \in Nat /\ read \in Nat /\ Len(rowChan) \in Nat /\ Len(resChan) \in Nat
        /\ "reader" \in Goroutines /\ "converter" \in Goroutines /\ "sender" \in Goroutines /\ "closer" \in Goroutines
    <3>1. Len(source) \in Nat /\ Len(rowChan) \in Nat /\ Len(resChan) \in Nat
      BY <2>1, Types, ZenonT(30)
    <3>2. read \in 0 .. Len(source)
      BY <2>1, ZenonT(30) DEF TypeOK
    <3>3. read \in Nat
      BY <3>1, <3>2
    <3>4. QED
      BY <3>1, <3>3, ZenonT(30) DEF Goroutines
  <2>0. ItemsLeft \in Nat
    BY <2>1 DEF Counted
  <2> DEFINE Alone(g) == \A h \in Goroutines : h # g => pc'[h] = pc[h]
  <2>3. ASSUME NEW g \in Goroutines, Alone(g), outcome' = outcome, faults \subseteq faults',
               ItemsLeft' + Remaining(g)' < ItemsLeft + Remaining(g)
        PROVE  Left' >= 0 /\ Left' < Left
    <3>1. GoroutinesLeft' = GoroutinesLeft - Remaining(g) + Remaining(g)'
      BY <2>1, <2>3, OneMoves, ZenonT(30)
    <3>2. Remaining(g) \in Nat /\ Remaining(g)' \in Nat
      <4>1. /\ pc[g] \in {"run", "send", "push", "ended", "returned"}
            /\ pc'[g] \in {"run", "send", "push", "ended", "returned"}
        BY <2>1, ZenonT(30) DEF TypeOK
      <4>2. QED
        BY <4>1, RemainingOf
    <3>3. ItemsLeft' + GoroutinesLeft' < ItemsLeft + GoroutinesLeft
      BY <2>1, <2>3, <3>1, <3>2 DEF Counted
    <3>4. QED
      BY <2>1, <2>3, <3>3, LeftLess
  <2>4. CASE ReadNext
    <3>1. Alone("reader") /\ outcome' = outcome /\ faults \subseteq faults' /\ pc["reader"] = "run"
      BY <2>1, <2>4, ReadNextDoes DEF Stays, Goroutines, Fails, Stops, Finishes
    <3>2. source' = source /\ rowChan' = rowChan /\ resChan' = resChan
      BY <2>1, <2>4, ReadNextDoes
    <3>3. \/ read' = read /\ pc'["reader"] = "ended"
          \/ read' = read + 1 /\ pc'["reader"] = "send"
      BY <2>1, <2>4, ReadNextDoes DEF Fails, Stops, Finishes, Ends
    <3>4. ItemsLeft' + Remaining("reader")' < ItemsLeft + Remaining("reader")
      <4>1. Remaining("reader") = 2
        BY <2>2, <3>1, RemainingOf, ZenonT(30)
      <4>2. CASE read' = read /\ pc'["reader"] = "ended"
        <5>1. Remaining("reader")' = 1
          BY <2>2, <4>2, RemainingOf, ZenonT(30)
        <5>2. ItemsLeft' = ItemsLeft
          BY <3>2, <4>2, ZenonT(30) DEF ItemsLeft
        <5>3. QED
          BY <2>0, <4>1, <5>1, <5>2
      <4>3. CASE read' = read + 1 /\ pc'["reader"] = "send"
        <5>1. Remaining("reader")' = 6
          BY <2>2, <4>3, RemainingOf, ZenonT(30)
        <5>2. ItemsLeft' = ItemsLeft - 5
          BY <2>2, <3>2, <4>3 DEF ItemsLeft
        <5>3. QED
          BY <2>0, <4>1, <5>1, <5>2
      <4>4. QED
        BY <3>3, <4>2, <4>3, ZenonT(30)
    <3>5. QED
      BY <2>2, <2>3, <3>1, <3>4, ZenonT(30)
  <2>5. CASE SendRow
    <3>1. Alone("reader") /\ outcome' = outcome /\ faults' = faults /\ pc["reader"] = "send" /\ pc'["reader"] = "run"
      BY <2>1, <2>5, SendRowDoes, ZenonT(30) DEF Stays, Goroutines
    <3>2. source' = source /\ read' = read /\ Len(rowChan') = Len(rowChan) + 1 /\ resChan' = resChan
      <4>1. source' = source /\ read' = read /\ rowChan' = Append(rowChan, read) /\ resChan' = resChan
        BY <2>1, <2>5, SendRowDoes, ZenonT(30)
      <4>2. rowChan \in Seq(1 .. Len(source))
        BY <2>1, ZenonT(30) DEF TypeOK
      <4>3. QED
        BY <4>1, <4>2
    <3>3. ItemsLeft' + Remaining("reader")' < ItemsLeft + Remaining("reader")
      <4>1. Remaining("reader") = 6 /\ Remaining("reader")' = 2
        BY <2>2, <3>1, RemainingOf, ZenonT(30)
      <4>2. ItemsLeft' = ItemsLeft + 3
        BY <2>2, <3>2 DEF ItemsLeft
      <4>3. QED
        BY <2>0, <4>1, <4>2
    <3>4. QED
      BY <2>2, <2>3, <3>1, <3>3, ZenonT(30)
  <2>6. CASE GiveUp
    <3>1. Alone("reader") /\ outcome' = outcome /\ faults' = faults /\ pc["reader"] = "send" /\ pc'["reader"] = "ended"
      BY <2>1, <2>6, GiveUpDoes DEF Stays, Goroutines, Finishes, Ends
    <3>2. source' = source /\ read' = read /\ rowChan' = rowChan /\ resChan' = resChan
      BY <2>1, <2>6, GiveUpDoes, ZenonT(30)
    <3>3. ItemsLeft' + Remaining("reader")' < ItemsLeft + Remaining("reader")
      <4>1. Remaining("reader") = 6 /\ Remaining("reader")' = 1
        BY <2>2, <3>1, RemainingOf, ZenonT(30)
      <4>2. ItemsLeft' = ItemsLeft
        BY <3>2, ZenonT(30) DEF ItemsLeft
      <4>3. QED
        BY <2>0, <4>1, <4>2
    <3>4. QED
      BY <2>2, <2>3, <3>1, <3>3, ZenonT(30)
  <2>7. CASE TakeRow
    <3>1. /\ Alone("converter") /\ outcome' = outcome /\ faults \subseteq faults' /\ pc["converter"] = "run"
          /\ pc'["converter"] \in {"run", "push", "ended"}
      BY <2>1, <2>7, TakeRowDoes DEF Stays, Goroutines, Fails, Ends
    <3>2. source' = source /\ read' = read /\ Len(rowChan') = Len(rowChan) - 1 /\ resChan' = resChan
      BY <2>1, <2>7, TakeRowDoes, Shortened DEF TypeOK
    <3>3. ItemsLeft' + Remaining("converter")' < ItemsLeft + Remaining("converter")
      <4>1. Remaining("converter") = 2 /\ Remaining("converter")' \in {1, 2, 4}
        BY <2>2, <3>1, RemainingOf, ZenonT(30)
      <4>2. ItemsLeft' = ItemsLeft - 3
        BY <2>2, <3>2 DEF ItemsLeft
      <4>3. QED
        BY <2>0, <4>1, <4>2
    <3>4. QED
      BY <2>2, <2>3, <3>1, <3>3, ZenonT(30)
  <2>8. CASE StopConverting
    <3>1. /\ Alone("converter") /\ outcome' = outcome /\ faults \subseteq faults' /\ pc["converter"] = "run"
          /\ pc'["converter"] = "ended"
      BY <2>1, <2>8, StopConvertingDoes DEF Stays, Goroutines, Fails, Stops, Finishes, Ends
    <3>2. source' = source /\ read' = read /\ rowChan' = rowChan /\ resChan' = resChan
      BY <2>1, <2>8, StopConvertingDoes
    <3>3. ItemsLeft' + Remaining("converter")' < ItemsLeft + Remaining("converter")
      <4>1. Remaining("converter") = 2 /\ Remaining("converter")' = 1
        BY <2>2, <3>1, RemainingOf, ZenonT(30)
      <4>2. ItemsLeft' = ItemsLeft
        BY <3>2, ZenonT(30) DEF ItemsLeft
      <4>3. QED
        BY <2>0, <4>1, <4>2
    <3>4. QED
      BY <2>2, <2>3, <3>1, <3>3, ZenonT(30)
  <2>9. CASE PushBatch
    <3>1. /\ Alone("converter") /\ outcome' = outcome /\ faults' = faults /\ pc["converter"] = "push"
          /\ source' = source /\ read' = read /\ rowChan' = rowChan
      BY <2>1, <2>9, PushBatchDoes DEF Stays, Goroutines, Stops
    <3>2. \/ resChan' = resChan /\ pc'["converter"] = "ended"
          \/ Len(resChan') = Len(resChan) + 1 /\ pc'["converter"] = "run"
      <4>1. Len(Append(resChan, res.rows)) = Len(resChan) + 1
        BY <2>1, Types, Appended
      <4>2. QED
        BY <2>1, <2>9, <4>1, PushBatchDoes DEF Stops, Ends
    <3>3. ItemsLeft' + Remaining("converter")' < ItemsLeft + Remaining("converter")
      <4>1. Remaining("converter") = 4
        BY <2>2, <3>1, RemainingOf, ZenonT(30)
      <4>2. CASE resChan' = resChan /\ pc'["converter"] = "ended"
        <5>1. Remaining("converter")' = 1
          BY <2>2, <4>2, RemainingOf, ZenonT(30)
        <5>2. ItemsLeft' = ItemsLeft
          BY <3>1, <4>2, ZenonT(30) DEF ItemsLeft
        <5>3. QED
          BY <2>0, <4>1, <5>1, <5>2
      <4>3. CASE Len(resChan') = Len(resChan) + 1 /\ pc'["converter"] = "run"
        <5>1. Remaining("converter")' = 2
          BY <2>2, <4>3, RemainingOf, ZenonT(30)
        <5>2. ItemsLeft' = ItemsLeft + 1
          BY <2>2, <3>1, <4>3 DEF ItemsLeft
        <5>3. QED
          BY <2>0, <4>1, <5>1, <5>2
      <4>4. QED
        BY <3>2, <4>2, <4>3, ZenonT(30)
    <3>4. QED
      BY <2>2, <2>3, <3>1, <3>3, ZenonT(30)
  <2>10. CASE SendBatch
    <3>1. /\ Alone("sender") /\ outcome' = outcome /\ faults \subseteq faults' /\ pc["sender"] = "run"
          /\ pc'["sender"] \in {"run", "ended"}
      BY <2>1, <2>10, SendBatchDoes DEF Stays, Goroutines, Fails, Ends
    <3>2. source' = source /\ read' = read /\ rowChan' = rowChan /\ Len(resChan') = Len(resChan) - 1
      BY <2>1, <2>10, SendBatchDoes, Shortened DEF TypeOK
    <3>3. ItemsLeft' + Remaining("sender")' < ItemsLeft + Remaining("sender")
      <4>1. Remaining("sender") = 2 /\ Remaining("sender")' \in {1, 2}
        BY <2>2, <3>1, RemainingOf, ZenonT(30)
      <4>2. ItemsLeft' = ItemsLeft - 1
        BY <2>2, <3>2 DEF ItemsLeft
      <4>3. QED
        BY <2>0, <4>1, <4>2
    <3>4. QED
      BY <2>2, <2>3, <3>1, <3>3, ZenonT(30)
  <2>11. CASE StopSending
    <3>1. /\ Alone("sender") /\ outcome' = outcome /\ faults' = faults /\ pc["sender"] = "run"
          /\ pc'["sender"] = "ended"
      BY <2>1, <2>11, StopSendingDoes DEF Stays, Goroutines, Stops, Finishes, Ends
    <3>2. source' = source /\ read' = read /\ rowChan' = rowChan /\ resChan' = resChan
      BY <2>1, <2>11, StopSendingDoes, ZenonT(30) DEF channels
    <3>3. ItemsLeft' + Remaining("sender")' < ItemsLeft + Remaining("sender")
      <4>1. Remaining("sender") = 2 /\ Remaining("sender")' = 1
        BY <2>2, <3>1, RemainingOf, ZenonT(30)
      <4>2. ItemsLeft' = ItemsLeft
        BY <3>2, ZenonT(30) DEF ItemsLeft
      <4>3. QED
        BY <2>0, <4>1, <4>2
    <3>4. QED
      BY <2>2, <2>3, <3>1, <3>3, ZenonT(30)
  <2>12. CASE CloseIter
    <3>1. /\ Alone("closer") /\ outcome' = outcome /\ faults \subseteq faults' /\ pc["closer"] = "run"
          /\ pc'["closer"] = "ended"
      BY <2>1, <2>12, CloseIterDoes DEF Stays, Goroutines, Fails, Finishes, Ends
    <3>2. source' = source /\ read' = read /\ rowChan' = rowChan /\ resChan' = resChan
      BY <2>1, <2>12, CloseIterDoes, ZenonT(30) DEF channels
    <3>3. ItemsLeft' + Remaining("closer")' < ItemsLeft + Remaining("closer")
      <4>1. Remaining("closer") = 2 /\ Remaining("closer")' = 1
        BY <2>2, <3>1, RemainingOf, ZenonT(30)
      <4>2. ItemsLeft' = ItemsLeft
        BY <3>2, ZenonT(30) DEF ItemsLeft
      <4>3. QED
        BY <2>0, <4>1, <4>2
    <3>4. QED
      BY <2>2, <2>3, <3>1, <3>3, ZenonT(30)
  <2>13. ASSUME NEW g \in Goroutines, Returned(g) PROVE Left' >= 0 /\ Left' < Left
    <3>1. Alone(g) /\ outcome' = outcome /\ faults' = faults /\ pc[g] = "ended" /\ pc'[g] = "returned"
      BY <2>1, <2>13, ReturnedDoes, ZenonT(30)
    <3>2. source' = source /\ read' = read /\ rowChan' = rowChan /\ resChan' = resChan
      BY <2>1, <2>13, ReturnedDoes, ZenonT(30) DEF channels
    <3>3. ItemsLeft' + Remaining(g)' < ItemsLeft + Remaining(g)
      <4>1. Remaining(g) = 1 /\ Remaining(g)' = 0
        BY <2>13, <3>1, RemainingOf, ZenonT(30)
      <4>2. ItemsLeft' = ItemsLeft
        BY <3>2, ZenonT(30) DEF ItemsLeft
      <4>3. QED
        BY <2>0, <4>1, <4>2
    <3>4. QED
      BY <2>3, <3>1, <3>3, ZenonT(30)
  <2>14. CASE Wait \/ Shortcut \/ Cancel
    <3>1. UNCHANGED <<source, read, pc, rowChan, resChan>> /\ faults \subseteq faults'
      BY <2>14, ZenonT(30) DEF Wait, Shortcut, Cancel, CallbackLast, Answer, Fault, Fine, channels
    <3>2. \/ outcome = "running" /\ outcome' # "running"
          \/ outcome' = outcome /\ "cancel" \notin faults /\ "cancel" \in faults'
      BY <2>14 DEF Wait, Shortcut, Cancel, CallbackLast, Answer, Fault
    <3>3. ItemsLeft' = ItemsLeft /\ GoroutinesLeft' = GoroutinesLeft
      BY <3>1 DEF ItemsLeft, GoroutinesLeft, Remaining
    <3>4. QED
      BY <2>1, <3>1, <3>2, <3>3, LeftLess
  <2>15. QED
    BY <1>1, <2>4, <2>5, <2>6, <2>7, <2>8, <2>9, <2>10, <2>11, <2>12, <2>13, <2>14, ZenonT(30)
    DEF Next, Streaming, Reader, Converter, Sender
<1>2. IInv /\ IInv' /\ [Next]_vars => [Left' >= 0 /\ Left' < Left]_vars
  BY <1>1
<1>3. QED
  BY <1>2, Invariance, PTL DEF Spec, BoundedWork

=============================================================================
