------------------------- MODULE ConnectionProtocol -------------------------
(***************************************************************************)
(* The order a connection keeps as long as nothing irregular has happened, *)
(* and that the Query, extended-protocol and discarded messages keep it.   *)
(*                                                                         *)
(* It ties three things together: what the engine session holds in each    *)
(* block state (Steady), which messages may follow which in the inbox      *)
(* (InOrder), and what the client waits for meanwhile (Protocol).          *)
(***************************************************************************)
EXTENDS ConnectionHistory, ConnectionHandlerProofs

-----------------------------------------------------------------------------
(* One statement, alone or of several, and the end of the last one.        *)

(* The statement of a Query message.                                       *)
LEMMA OnlyProper ==
    ASSUME "rollback" \notin Fails,
           NEW c \in Connection, Steady(c), c.eng.committed = {}, c.tx # "implicit",
           NEW s \in Statements \ {"copyIn"}, s \in {"call", "discard", "copyFile"} => c.tx = "idle",
           NEW o \in Only(c, s), o.err => s \notin {"commit", "rollback", "copyFile"}
    PROVE  Proper(c, o) /\ (~o.err => o.conn.tx # "implicit")
<1> DEFINE u == Unnaming(c)
<1>1. /\ u \in Connection /\ u.tx = c.tx /\ u.eng = c.eng /\ u.copy = c.copy
      /\ u.waitForSync = c.waitForSync
  <2>1. u \in Connection
    BY ZenonT(30) DEF Unnaming, Connection, Prepared
  <2> QED BY <2>1 DEF Unnaming, Connection
<1>2. Steady(u) /\ Erring(u) /\ Erring(c) /\ (Rejected(u, s) <=> Rejected(c, s))
  BY <1>1, SteadyErring DEF Steady, Rejected
<1>3. u.eng.committed = {}
  BY <1>1
<1> SUFFICES ASSUME TRUE PROVE Proper(u, o) /\ (~o.err => o.conn.tx # "implicit")
  BY <1>1, SameBlock
<1>4. CASE s = "bad"
  <2>1. o.conn = c /\ o.err /\ ~o.copyIn
    BY <1>4, Made DEF Only
  <2> QED BY <1>1, <1>2, <2>1 DEF Proper
<1>5. CASE s = "empty"
  <2>1. o.conn = u /\ ~o.err /\ ~o.copyIn
    BY <1>5, Made DEF Only
  <2> QED BY <1>1, <1>2, <1>3, <2>1 DEF Proper
<1>6. CASE s \notin {"bad", "empty"} /\ Rejected(c, s)
  <2>1. o.conn = u /\ o.err /\ ~o.copyIn
    BY <1>6, Made DEF Only
  <2> QED BY <1>1, <1>2, <1>3, <2>1 DEF Proper
<1>7. CASE s \notin {"bad", "empty", "do"} /\ ~Rejected(c, s)
  <2>1. o \in Run(u, s) /\ s \in Runnable \ {"copyIn"}
    BY <1>7 DEF Only, Statements
  <2> HIDE DEF u
  <2>2. Proper(u, o) /\ (u.tx # "implicit" => o.conn.tx # "implicit")
    BY <1>1, <1>2, <1>3, <1>7, <2>1, RunProper
  <2> QED BY <1>1, <2>2
<1>8. CASE s = "do" /\ ~Rejected(c, s)
  <2> DEFINE d == startImplicitTransaction(u, s)
  <2>1. /\ d \in Connection /\ Steady(d) /\ d.eng.committed = {}
        /\ d.copy = u.copy /\ d.waitForSync = u.waitForSync
        /\ u.tx = "idle" => d.tx = "implicit"
        /\ u.tx # "idle" => d = u
    BY <1>1, <1>2, <1>3, <1>8, Starting
  <2>2. PICK r \in Run(d, s) : (r.err /\ o = r) \/ (~r.err /\ o \in commitImplicitTransaction(r.conn))
    BY <1>8, ZenonT(30) DEF Only
  <2> HIDE DEF d, u
  <2>3. ~Rejected(d, s)
    BY <1>2, <1>8, <2>1 DEF Rejected
  <2>4. Proper(d, r)
    BY <1>8, <2>1, <2>2, <2>3, RunProper DEF Runnable, EngineStatements
  <2>5. Sound(r)
    BY <1>8, <2>1, Tidy, RunSound DEF Runnable, EngineStatements
  <2>6. r.conn \in Connection
    BY <2>5 DEF Sound, Outcome
  <2>7. CASE r.err
    BY <2>1, <2>2, <2>4, <2>7 DEF Proper
  <2>8. CASE ~r.err /\ r.conn.tx # "implicit"
    <3>1. o.conn = r.conn /\ ~o.err /\ ~o.copyIn
      BY <2>2, <2>8, Made DEF commitImplicitTransaction
    <3> QED BY <2>1, <2>4, <2>8, <3>1 DEF Proper
  <2>9. CASE ~r.err /\ r.conn.tx = "implicit"
    <3>1. d.tx # "idle"
      BY <1>1, <1>8, <2>1
    <3>2. Gathering(r.conn.eng) /\ r.conn.eng.committed = {}
      BY <2>4, <2>9, <3>1 DEF Proper, Steady
    <3>3. Proper(r.conn, o) /\ o.conn.tx = "idle"
      BY <2>2, <2>6, <2>9, <3>2, ImplicitCommit
    <3> QED BY <2>1, <2>4, <3>3 DEF Proper
  <2> QED BY <2>7, <2>8, <2>9
<1> QED BY <1>4, <1>5, <1>6, <1>7, <1>8

(* One statement of several, and the commit after the last.                *)
LEMMA OneOfProper ==
    ASSUME "rollback" \notin Fails,
           NEW c \in Connection, Steady(c), c.eng.committed = {}, NEW last \in BOOLEAN,
           NEW s \in Runnable \ {"copyIn", "call", "discard", "copyFile"},
           NEW o \in OneOf(c, s, last), o.err => s \notin {"commit", "rollback"}
    PROVE  \/ Proper(c, o) /\ (c.tx = "idle" /\ last /\ ~o.err => o.conn.tx # "implicit")
           \/ /\ ~o.err /\ last /\ c.tx \in {"idle", "implicit"} /\ o.conn.tx = "implicit"
              /\ Clean(o.conn.eng) /\ o.conn.eng.committed \subseteq {"live"} /\ ~o.copyIn
              /\ o.conn.copy = c.copy /\ o.conn.waitForSync = c.waitForSync
<1>1. Erring(c) /\ c.tx \in TxStates
  BY SteadyErring DEF Connection
<1>2. CASE Rejected(c, s)
  <2>1. o = Error(c) /\ c.tx = "failed"
    BY <1>2 DEF OneOf, Rejected
  <2>2. o.conn = c /\ o.err /\ ~o.copyIn
    BY <2>1, Made
  <2> QED BY <1>1, <2>1, <2>2 DEF Proper
<1>3. CASE ~Rejected(c, s) /\ Handled(c, s)
  <2>1. PICK r \in OutsideEngine(c, s) : o = [r EXCEPT !.eom = TRUE]
    BY <1>3 DEF OneOf
  <2>2. Sound(r)
    BY <1>3, Tidy, OutsideEngineSound
  <2>3. o.conn = r.conn /\ o.err = r.err /\ o.copyIn = r.copyIn
    BY <2>1, <2>2, ZenonT(30) DEF Sound, Outcome
  <2>4. Proper(c, r) /\ (c.tx # "implicit" => r.conn.tx # "implicit")
    BY <1>3, <2>3, HandledProper
  <2> QED BY <2>3, <2>4 DEF Proper
<1>4. CASE ~Rejected(c, s) /\ ~Handled(c, s)
  <2> DEFINE p == PassedOn(c, s)
             d == startImplicitTransaction(p, s)
             x == [d EXCEPT !.eng.noAuto = @ /\ (last => d.tx \in Blocks)]
  <2>1. o \in InEngine(x, s)
    BY <1>4 DEF OneOf
  <2>2. s \in EngineStatements /\ (s \in Savepoints => c.tx \in Blocks)
    BY <1>4 DEF Handled, Runnable
  <2>3. /\ p \in Connection /\ p.eng = c.eng /\ p.copy = c.copy /\ p.waitForSync = c.waitForSync
        /\ s \in {"begin", "rollbackTo"} => p.tx = "explicit"
        /\ s \in {"commit", "rollback"} => p.tx = "idle"
        /\ s \notin {"begin", "rollbackTo", "commit", "rollback"} => p.tx = c.tx /\ p = c
    <3>1. p \in Connection /\ p.eng = c.eng
      BY Passing
    <3> QED BY <3>1 DEF PassedOn, Connection
  <2>4. /\ d \in Connection /\ d.eng \in Engine /\ d.copy = c.copy /\ d.waitForSync = c.waitForSync
        /\ d.eng.tran = c.eng.tran /\ d.eng.pending = c.eng.pending
        /\ d.eng.saved = c.eng.saved /\ d.eng.committed = {}
    <3>1. d \in Connection
      BY <2>3, Passing
    <3>2. d = p \/ d = [p EXCEPT !.tx = "implicit", !.eng.noAuto = TRUE]
      BY DEF startImplicitTransaction
    <3> HIDE DEF d, p
    <3>3. CASE d = p
      BY <2>3, <3>3 DEF Connection
    <3>4. CASE d = [p EXCEPT !.tx = "implicit", !.eng.noAuto = TRUE]
      BY <2>3, <3>1, <3>4, ZenonT(30) DEF Connection, Engine
    <3> QED BY <3>2, <3>3, <3>4
  <2>5. /\ x \in Connection /\ x.tx = d.tx /\ x.copy = c.copy /\ x.waitForSync = c.waitForSync
        /\ x.eng \in Engine /\ x.eng.tran = c.eng.tran /\ x.eng.pending = c.eng.pending
        /\ x.eng.saved = c.eng.saved /\ x.eng.committed = {}
        /\ (last => d.tx \in Blocks) => x = d
        /\ ~(last => d.tx \in Blocks) => ~x.eng.noAuto
    <3> HIDE DEF d
    <3>1. x \in Connection
      BY <2>4, ZenonT(30) DEF Connection, Engine
    <3>2. d.eng.noAuto \in BOOLEAN
      BY <2>4 DEF Engine
    <3>3. CASE last => d.tx \in Blocks
      <4>1. (d.eng.noAuto /\ (last => d.tx \in Blocks)) = d.eng.noAuto
        BY <3>2, <3>3
      <4>2. x = [d EXCEPT !.eng.noAuto = d.eng.noAuto]
        BY <4>1
      <4>3. x = d
        BY <2>4, <4>2 DEF Connection, Engine
      <4> QED BY <2>4, <3>3, <4>3, ZenonT(30)
    <3>4. CASE ~(last => d.tx \in Blocks)
      <4>1. (d.eng.noAuto /\ (last => d.tx \in Blocks)) = FALSE
        BY <3>4
      <4>2. x = [d EXCEPT !.eng.noAuto = FALSE]
        BY <4>1, ZenonT(30)
      <4> QED BY <2>4, <3>1, <3>4, <4>2 DEF Connection, Engine
    <3> QED BY <3>3, <3>4
  <2> HIDE DEF x
  <2>6. /\ o.conn.tx = d.tx /\ o.conn.copy = c.copy /\ o.conn.waitForSync = c.waitForSync
        /\ ~o.copyIn /\ o.err \in BOOLEAN
        /\ ~o.err => o.conn.eng \in EngineSucceeds(x.eng, s)
        /\ o.err => o.conn.eng \in EngineFails(x.eng, s) \cup EnginePanics(x.eng, s)
    BY <2>1, <2>5, InEngineOutcome
  <2>7. CASE s \in {"work", "do"} /\ c.tx = "idle" /\ ~last
    <3>1. p = c /\ p.tx = "idle"
      BY <2>3, <2>7
    <3>2. Steady(d) /\ d.tx = "implicit"
      BY <2>7, <3>1, Starting
    <3> HIDE DEF d
    <3>3. PassedOn(d, s) = d
      BY <2>4, <2>7 DEF PassedOn, Connection
    <3>4. ~Handled(d, s) /\ ~Rejected(d, s)
      BY <2>7, <3>2 DEF Handled, Rejected, Savepoints, HandlerStatements
    <3>5. Proper(d, o)
      BY <2>1, <2>2, <2>4, <2>5, <2>7, <3>2, <3>3, <3>4, PassedProper, ZenonT(30)
    <3> QED BY <2>4, <2>7, <3>5 DEF Proper
  <2>8. CASE ~(s \in {"work", "do"} /\ c.tx = "idle") /\ (last => p.tx \in Blocks)
    <3>1. p.tx # "idle" \/ s \in {"begin", "commit", "rollback"}
      BY <2>2, <2>3, <2>8 DEF EngineStatements, Savepoints, Blocks
    <3>2. d = p
      BY <3>1 DEF startImplicitTransaction
    <3> HIDE DEF d, p
    <3>3. o \in InEngine(p, s)
      BY <2>1, <2>5, <2>8, <3>2
    <3>4. Proper(c, o) /\ (c.tx # "implicit" => o.conn.tx # "implicit")
      BY <1>4, <2>2, <3>3, PassedProper, ZenonT(30) DEF p
    <3> QED BY <3>4
  <2>9. CASE s \in {"commit", "rollback"} /\ last
    <3>1. d = p /\ d.tx = "idle" /\ ~o.err /\ (s = "commit" => c.tx # "failed")
      BY <1>4, <2>3, <2>9 DEF startImplicitTransaction, Handled
    <3>2. s = "commit" => x.eng.pending \subseteq {"live"}
      BY <1>1, <2>5, <3>1 DEF Steady, Clean, Gathering, Open, TxStates
    <3>3. Clean(o.conn.eng) /\ o.conn.eng.committed \subseteq {"live"}
      BY <2>5, <2>6, <2>9, <3>1, <3>2, Ending, ZenonT(30) DEF EngineSucceeds
    <3> QED BY <2>6, <3>1, <3>3 DEF Proper, Steady
  <2>10. CASE s \in {"work", "do"} /\ last /\ c.tx \in {"idle", "implicit"}
    <3>1. d.tx = "implicit"
      BY <2>3, <2>10, Starting, ZenonT(30) DEF startImplicitTransaction
    <3>2. ~x.eng.noAuto
      BY <2>5, <2>10, <3>1 DEF Blocks
    <3>3. x.eng.saved = {} /\ x.eng.pending \subseteq {"live"}
      BY <2>5, <2>10 DEF Steady, Clean, Gathering
    <3>4. /\ ~o.err => Clean(o.conn.eng) /\ o.conn.eng.committed \subseteq {"live"}
          /\ o.err => /\ o.conn.eng.committed = {} /\ o.conn.eng.saved = {}
                      /\ ~o.conn.eng.tran => o.conn.eng.pending = {}
      BY <2>5, <2>6, <2>10, <3>2, <3>3, AutoCommitted
    <3>5. CASE ~o.err
      BY <2>6, <2>10, <3>1, <3>4, <3>5
    <3>6. CASE o.err
      BY <2>6, <2>10, <3>1, <3>4, <3>6 DEF Proper, Erring
    <3> QED BY <2>6, <3>5, <3>6
  <2> QED
    <3>1. s \in {"work", "do"} => p.tx = c.tx /\ c.tx # "failed"
      BY <1>4, <2>3 DEF Rejected
    <3>2. s \in {"begin"} \cup Savepoints => p.tx \in Blocks
      BY <2>2, <2>3 DEF Savepoints, Blocks
    <3> HIDE DEF p
    <3> QED BY <1>1, <2>2, <2>7, <2>8, <2>9, <2>10, <3>1, <3>2, SMTT(30) DEF EngineStatements, Savepoints, Blocks, TxStates
<1> QED BY <1>2, <1>3, <1>4

(* The commit after the last statement of several.                         *)
LEMMA FinalProper ==
    ASSUME "rollback" \notin Fails, NEW c \in Connection, NEW o, Sound(o), ~o.err,
           \/ Proper(c, o) /\ (c.tx = "idle" => o.conn.tx # "implicit")
           \/ /\ c.tx \in {"idle", "implicit"} /\ o.conn.tx = "implicit"
              /\ Clean(o.conn.eng) /\ o.conn.eng.committed \subseteq {"live"} /\ ~o.copyIn
              /\ o.conn.copy = c.copy /\ o.conn.waitForSync = c.waitForSync,
           NEW p \in Final(o)
    PROVE  Proper(c, p) /\ p.conn.tx # "implicit" /\ (~p.err => p.eom)
<1>1. PICK r \in commitImplicitTransaction(o.conn) : p = [r EXCEPT !.eom = ~r.err, !.copyIn = o.copyIn]
  BY ZenonT(30) DEF Final
<1>2. o.conn \in Connection /\ NoneLeft(o.conn)
  BY DEF Sound, Outcome
<1>3. Sound(r)
  BY <1>2, CommitImplicitSound
<1>4. p.conn = r.conn /\ p.err = r.err /\ p.copyIn = o.copyIn /\ (~p.err => p.eom)
  BY <1>1, <1>3, ZenonT(30) DEF Sound, Outcome
<1>5. ~o.copyIn
  BY DEF Proper
<1>6. CASE o.conn.tx # "implicit"
  <2>1. r.conn = o.conn /\ ~r.err
    BY <1>6, Made, ZenonT(30) DEF commitImplicitTransaction
  <2> QED BY <1>4, <1>5, <1>6, <2>1 DEF Proper
<1>7. CASE o.conn.tx = "implicit"
  <2>1. \/ Gathering(o.conn.eng) /\ o.conn.eng.committed = {}
        \/ Clean(o.conn.eng) /\ o.conn.eng.committed \subseteq {"live"}
    BY <1>7 DEF Proper, Steady
  <2>2. Proper(o.conn, r) /\ r.conn.tx = "idle"
    BY <1>2, <1>7, <2>1, ImplicitCommit
  <2>3. o.conn.copy = c.copy /\ o.conn.waitForSync = c.waitForSync
    BY DEF Proper
  <2> QED BY <1>4, <1>5, <2>2, <2>3, ZenonT(30) DEF Proper
<1> QED BY <1>6, <1>7

-----------------------------------------------------------------------------
(* The messages on their way: Closing ones are followed by nothing, as the *)
(* client waits for their answer, Batched ones by no COPY message, and a   *)
(* COPY operation has one end.                                             *)
Closing == {"Query", "FunctionCall", "Sync", "Terminate"}

Batched == {"Parse", "Bind", "Describe", "Close", "Execute", "Flush"}

Ends == {"CopyDone", "CopyFail"}

Copies == {"CopyData"} \cup Ends

NoneOf(q, S) == \A i \in DOMAIN q : q[i].type \notin S

EndsIn(q, S) == q # <<>> /\ q[Len(q)].type \in S

InOrder(q) ==
    \A i, j \in DOMAIN q : i < j =>
        /\ q[i].type \notin Closing
        /\ q[i].type \in Batched \cup Ends => q[j].type \notin Copies

(* The positions of a nonempty sequence without its first item.            *)
LEMMA Rest ==
    ASSUME NEW M, NEW q \in Seq(M), q # <<>>
    PROVE  /\ Len(q) \in Nat /\ Len(q) > 0 /\ DOMAIN q = 1 .. Len(q) /\ Head(q) = q[1]
           /\ Tail(q) \in Seq(M) /\ Len(Tail(q)) = Len(q) - 1 /\ DOMAIN Tail(q) = 1 .. Len(q) - 1
           /\ \A i \in 1 .. Len(q) - 1 : Tail(q)[i] = q[i + 1]
           /\ Len(q) = 1 => Tail(q) = <<>>
           /\ Tail(q) # <<>> => Len(q) > 1
  OBVIOUS

(* A received message leaves the others in order.                          *)
LEMMA Received ==
    ASSUME NEW M, NEW q \in Seq(M), q # <<>>, InOrder(q)
    PROVE  /\ InOrder(Tail(q))
           /\ Head(q).type \in Closing => Tail(q) = <<>>
           /\ Head(q).type \in Batched \cup Ends => NoneOf(Tail(q), Copies)
<1> DEFINE t == Tail(q)
           n == Len(q)
<1>1. /\ n \in Nat /\ n > 0 /\ DOMAIN q = 1 .. n /\ Head(q) = q[1]
      /\ DOMAIN t = 1 .. n - 1 /\ \A i \in 1 .. n - 1 : t[i] = q[i + 1]
      /\ n = 1 => t = <<>>
  BY Rest
<1> HIDE DEF t, n
<1>2. InOrder(t)
  <2> SUFFICES ASSUME NEW i \in DOMAIN t, NEW j \in DOMAIN t, i < j
               PROVE  /\ t[i].type \notin Closing
                      /\ t[i].type \in Batched \cup Ends => t[j].type \notin Copies
    BY DEF InOrder
  <2>1. i + 1 \in DOMAIN q /\ j + 1 \in DOMAIN q /\ i + 1 < j + 1 /\ t[i] = q[i + 1] /\ t[j] = q[j + 1]
    BY <1>1
  <2> QED BY <2>1 DEF InOrder
<1>3. ASSUME Head(q).type \in Closing PROVE t = <<>>
  <2>1. n > 1 => q[1].type \notin Closing
    BY <1>1 DEF InOrder
  <2> QED BY <1>1, <1>3, <2>1
<1>4. Head(q).type \in Batched \cup Ends => NoneOf(t, Copies)
  BY <1>1, SMTT(30) DEF InOrder, NoneOf
<1> QED BY <1>2, <1>3, <1>4 DEF t

(* What the rest of the inbox inherits.                                    *)
LEMMA Remaining ==
    ASSUME NEW M, NEW q \in Seq(M), q # <<>>, NEW S
    PROVE  /\ NoneOf(q, S) => NoneOf(Tail(q), S) /\ Head(q).type \notin S
           /\ EndsIn(q, S) => EndsIn(Tail(q), S) \/ (Tail(q) = <<>> /\ Head(q).type \in S)
           /\ EndsIn(Tail(q), S) => EndsIn(q, S)
           /\ NoneOf(Tail(q), S) /\ Head(q).type \notin S => NoneOf(q, S)
<1> DEFINE t == Tail(q)
           n == Len(q)
<1>1. /\ n \in Nat /\ n > 0 /\ DOMAIN q = 1 .. n /\ Head(q) = q[1]
      /\ Len(t) = n - 1 /\ DOMAIN t = 1 .. n - 1 /\ \A i \in 1 .. n - 1 : t[i] = q[i + 1]
      /\ n = 1 => t = <<>>
      /\ t # <<>> => n > 1
  BY Rest
<1>2. EndsIn(q, S) <=> q[n].type \in S
  BY DEF EndsIn
<1>3. EndsIn(t, S) <=> t # <<>> /\ t[n - 1].type \in S
  BY <1>1 DEF EndsIn
<1> HIDE DEF t, n
<1>4. t # <<>> => t[n - 1] = q[n]
  BY <1>1
<1>5. EndsIn(q, S) => EndsIn(t, S) \/ (t = <<>> /\ Head(q).type \in S)
  <2>1. CASE t = <<>>
    <3>1. n = 1
      <4>1. n - 1 = 0
        <5>1. DOMAIN t = {}
          BY <2>1
        <5> QED BY <1>1, <5>1
      <4> QED BY <1>1, <4>1
    <3> QED BY <1>1, <1>2, <2>1, <3>1
  <2>2. CASE t # <<>>
    BY <1>2, <1>3, <1>4, <2>2
  <2> QED BY <2>1, <2>2
<1>6. EndsIn(t, S) => EndsIn(q, S)
  BY <1>2, <1>3, <1>4
<1>7. NoneOf(q, S) => NoneOf(t, S) /\ Head(q).type \notin S
  BY <1>1 DEF NoneOf
<1>8. NoneOf(t, S) /\ Head(q).type \notin S => NoneOf(q, S)
  <2> SUFFICES ASSUME NoneOf(t, S), Head(q).type \notin S, NEW i \in DOMAIN q
               PROVE  q[i].type \notin S
    BY DEF NoneOf
  <2>1. CASE i = 1
    BY <1>1, <2>1
  <2>2. CASE i # 1
    <3>1. i - 1 \in 1 .. n - 1 /\ (i - 1) + 1 = i
      BY <1>1, <2>2
    <3> QED BY <1>1, <3>1 DEF NoneOf
  <2> QED BY <2>1, <2>2
<1> QED BY <1>5, <1>6, <1>7, <1>8 DEF t

(* A message sent after the others.                                        *)
LEMMA Sent ==
    ASSUME NEW M, NEW q \in Seq(M), NEW m \in M
    PROVE  /\ \A S : NoneOf(Append(q, m), S) <=> NoneOf(q, S) /\ m.type \notin S
           /\ \A S : EndsIn(Append(q, m), S) <=> m.type \in S
           /\ InOrder(q) /\ NoneOf(q, Closing) /\ (m.type \in Copies => NoneOf(q, Batched \cup Ends))
                => InOrder(Append(q, m))
<1> DEFINE r == Append(q, m)
           n == Len(q)
<1>1. /\ n \in Nat /\ DOMAIN q = 1 .. n /\ DOMAIN r = 1 .. n + 1 /\ Len(r) = n + 1 /\ r # <<>>
      /\ \A i \in 1 .. n : r[i] = q[i]
      /\ r[n + 1] = m
  OBVIOUS
<1> HIDE DEF r, n
<1>2. \A S : NoneOf(r, S) <=> NoneOf(q, S) /\ m.type \notin S
  <2> SUFFICES ASSUME NEW S PROVE NoneOf(r, S) <=> NoneOf(q, S) /\ m.type \notin S
    OBVIOUS
  <2>1. \A i \in 1 .. n + 1 : i \in 1 .. n \/ i = n + 1
    BY <1>1
  <2>2. n + 1 \in 1 .. n + 1 /\ \A i \in 1 .. n : i \in 1 .. n + 1
    BY <1>1
  <2> QED BY <1>1, <2>1, <2>2 DEF NoneOf
<1>3. \A S : EndsIn(r, S) <=> m.type \in S
  BY <1>1 DEF EndsIn
<1>4. ASSUME InOrder(q), NoneOf(q, Closing), m.type \in Copies => NoneOf(q, Batched \cup Ends),
             NEW i \in DOMAIN r, NEW j \in DOMAIN r, i < j
      PROVE  /\ r[i].type \notin Closing
             /\ r[i].type \in Batched \cup Ends => r[j].type \notin Copies
  <2>1. i \in 1 .. n /\ (j \in 1 .. n \/ j = n + 1)
    BY <1>1, <1>4
  <2>2. CASE j \in 1 .. n
    BY <1>1, <1>4, <2>1, <2>2 DEF InOrder
  <2>3. CASE j = n + 1
    BY <1>1, <1>4, <2>1, <2>3 DEF NoneOf
  <2> QED BY <2>1, <2>2, <2>3
<1>5. InOrder(q) /\ NoneOf(q, Closing) /\ (m.type \in Copies => NoneOf(q, Batched \cup Ends)) => InOrder(r)
  BY <1>4 DEF InOrder
<1> QED BY <1>2, <1>3, <1>5 DEF r

(* An inbox that ends in the end of a COPY holds no Closing message.       *)
LEMMA EndOfCopy ==
    ASSUME NEW M, NEW q \in Seq(M), InOrder(q), EndsIn(q, Ends)
    PROVE  NoneOf(q, Closing)
<1>1. Len(q) \in DOMAIN q /\ \A i \in DOMAIN q : i < Len(q) \/ i = Len(q)
  BY Rest DEF EndsIn
<1> QED BY <1>1 DEF NoneOf, InOrder, EndsIn, Ends, Closing

-----------------------------------------------------------------------------
(* What the client waits for, and the messages it has sent meanwhile.      *)
Protocol ==
    /\ client = "ready" => pc = "receive" /\ NoneOf(inbox, Closing \cup Batched)
    /\ client = "batch" => pc \in {"receive", "discard"} /\ NoneOf(inbox, Closing)
    /\ client = "synced" => pc \in {"receive", "discard"} /\ EndsIn(inbox, {"Sync"})
    /\ client = "waiting" =>
         \/ pc = "script" /\ inbox = <<>> /\ script # <<>>
         \/ /\ pc = "receive" /\ NoneOf(inbox, Batched)
            /\ EndsIn(inbox, {"Query", "FunctionCall"}) \/ EndsIn(inbox, Ends)
    /\ client \in {"copying", "aborted"} =>
         pc = "receive" /\ NoneOf(inbox, Closing \cup Batched) /\ NoneOf(inbox, Ends)
    /\ client \notin {"copyingX", "confused"}
    /\ client = "gone" =>
         pc = "closed" \/ (pc = "receive" /\ EndsIn(inbox, {"Terminate"}) /\ NoneOf(inbox, Batched))
    /\ pc = "closed" => inbox = <<>>

(* Messages are discarded, and the implicit block of the extended protocol *)
(* is open, between messages of one batch.                                 *)
InBatch ==
    pc = "discard" \/ (conn.tx = "implicit" /\ pc # "script")
        => NoneOf(inbox, Copies) /\ client \in {"batch", "synced"}

(* The client sends COPY data, or has sent all of it.                      *)
Loading == client = "copying" \/ (client = "waiting" /\ pc = "receive" /\ EndsIn(inbox, Ends))

(* The session fits the block state.  COPY messages that are read when no  *)
(* data is loaded belong to a COPY that has failed.                        *)
Session ==
    /\ Loading => InCopy(conn) /\ reply = "none"
    /\ ~Loading =>
         /\ IF pc = "discard" THEN Erring(conn) ELSE Steady(conn)
         /\ conn.copy.loader => conn.copy.err
         /\ NoneOf(inbox, Copies) \/ (conn.copy.on /\ conn.copy.err)
    /\ client = "aborted" => conn.copy.on /\ conn.copy.err
    /\ conn.eng.committed \subseteq {"live"}
    /\ reply # "none" => conn.tx # "implicit"

Orderly == InOrder(inbox) /\ Protocol /\ InBatch /\ Session

(* What a step may do to an open block.                                    *)
BlockStep ==
    /\ conn.tx # "idle" /\ conn'.tx # "idle" => conn'.eng.committed = {}
    /\ conn.tx = "failed" /\ conn'.tx = "failed" => conn'.eng.pending = conn.eng.pending

(* What the work on a message does to the session.                         *)
Settles ==
    /\ IF pc' = "discard" THEN Erring(conn') ELSE Steady(conn')
    /\ conn'.eng.committed \subseteq {"live"}
    /\ reply' # "none" => conn'.tx # "implicit"
    /\ BlockStep

(* The client is told that it may go on.                                   *)
LEMMA AnswerMove ==
    ASSUME client' = "ready", pc' = "receive", inbox' = <<>>, reply' # "none",
           conn'.copy.loader => conn'.copy.err, Settles
    PROVE  Orderly'
<1>1. \A S : NoneOf(inbox', S) /\ InOrder(inbox')
  BY DEF NoneOf, InOrder
<1>2. Protocol'
  BY <1>1 DEF Protocol
<1>3. InBatch'
  BY DEF InBatch, Settles
<1>4. Session'
  BY <1>1 DEF Session, Settles, Loading
<1> QED BY <1>1, <1>2, <1>3, <1>4 DEF Orderly

(* A message of the extended protocol has no answer of its own.            *)
LEMMA BatchMove ==
    ASSUME TypeOK, Orderly, pc = "receive", inbox # <<>>, Head(inbox).type \in Batched,
           inbox' = Tail(inbox), client' = client, pc' \in {"receive", "discard"},
           reply' = "none", conn'.copy = conn.copy, Settles
    PROVE  Orderly'
<1>1. /\ InOrder(inbox') /\ NoneOf(inbox', Copies)
      /\ \A S : NoneOf(inbox, S) => NoneOf(inbox', S) /\ Head(inbox).type \notin S
      /\ \A S : EndsIn(inbox, S) => EndsIn(inbox', S) \/ Head(inbox).type \in S
  BY Received, Remaining DEF TypeOK, Orderly
<1>2. client \in {"batch", "synced"}
  BY <1>1 DEF Orderly, Protocol, TypeOK, ClientStates, Batched
<1>3. Protocol'
  BY <1>1, <1>2 DEF Orderly, Protocol, Batched
<1>4. InBatch'
  BY <1>1, <1>2 DEF InBatch
<1>5. ~Loading /\ ~Loading'
  BY <1>2, ZenonT(30) DEF Loading
<1>6. Session'
  BY <1>1, <1>2, <1>5 DEF Orderly, Session, Settles
<1> QED BY <1>1, <1>3, <1>4, <1>6, ZenonT(30) DEF Orderly

(* What a Closing message finds.                                           *)
LEMMA LastMessage ==
    ASSUME TypeOK, Orderly, pc = "receive", inbox # <<>>, Head(inbox).type \in Closing
    PROVE  /\ Tail(inbox) = <<>> /\ ~Loading /\ Steady(conn) /\ (conn.copy.loader => conn.copy.err)
           /\ Head(inbox).type \in {"Query", "FunctionCall"} => client = "waiting" /\ conn.tx # "implicit"
           /\ Head(inbox).type = "Sync" => client = "synced"
<1>1. /\ Tail(inbox) = <<>>
      /\ \A S : NoneOf(inbox, S) => Head(inbox).type \notin S
      /\ \A S : EndsIn(inbox, S) => Head(inbox).type \in S
  BY Received, Remaining DEF TypeOK, Orderly, EndsIn
<1>2. /\ ~NoneOf(inbox, Closing \cup Batched) /\ ~NoneOf(inbox, Closing) /\ ~EndsIn(inbox, Ends)
      /\ EndsIn(inbox, {"Sync"}) => Head(inbox).type = "Sync"
      /\ EndsIn(inbox, {"Query", "FunctionCall"}) => Head(inbox).type \in {"Query", "FunctionCall"}
      /\ EndsIn(inbox, {"Terminate"}) => Head(inbox).type = "Terminate"
  BY <1>1 DEF Ends, Closing
<1>3. /\ client \in {"waiting", "synced", "gone"} /\ ~Loading
      /\ client = "waiting" => Head(inbox).type \in {"Query", "FunctionCall"}
      /\ client = "synced" => Head(inbox).type = "Sync"
      /\ client = "gone" => Head(inbox).type = "Terminate"
  BY <1>2 DEF Orderly, Protocol, TypeOK, ClientStates, Loading
<1>4. Steady(conn) /\ (conn.copy.loader => conn.copy.err)
  BY <1>3 DEF Orderly, Session
<1>5. client = "waiting" => conn.tx # "implicit"
  BY DEF Orderly, InBatch
<1> QED BY <1>1, <1>3, <1>4, <1>5 DEF Closing

-----------------------------------------------------------------------------
(* The connection at the start of a step: as it was, nothing committed.    *)
Renewed(c) ==
    /\ c \in Connection /\ c.tx = conn.tx /\ c.copy = conn.copy
    /\ c.eng.committed = {} /\ c.eng.pending = conn.eng.pending
    /\ Steady(conn) => Steady(c)
    /\ Erring(conn) => Erring(c)
    /\ InCopy(conn) => InCopy(c)

(* So every step begins.                                                   *)
LEMMA Renewal ==
    ASSUME TypeOK
    PROVE  /\ Renewed(Now) /\ Renewed(Waiting) /\ Renewed([Now EXCEPT !.waitForSync = FALSE])
           /\ Waiting.waitForSync /\ Now.prepared = conn.prepared /\ Now.portals = conn.portals
<1> DEFINE D(w) == [Now EXCEPT !.waitForSync = w]
<1>1. conn \in Connection /\ conn.eng \in Engine /\ conn.waitForSync \in BOOLEAN
  BY DEF TypeOK, Connection
<1>2. Now \in Connection /\ Now.eng.committed = {} /\ Now = [conn EXCEPT !.eng.committed = {}]
  BY NowSound DEF Now
<1>3. /\ Now.tx = conn.tx /\ Now.copy = conn.copy /\ Now.waitForSync = conn.waitForSync
      /\ Now.prepared = conn.prepared /\ Now.portals = conn.portals
      /\ Now.eng.tran = conn.eng.tran /\ Now.eng.noAuto = conn.eng.noAuto
      /\ Now.eng.pending = conn.eng.pending /\ Now.eng.saved = conn.eng.saved
  BY <1>1, <1>2 DEF Connection, Engine
<1>4. ASSUME NEW c \in Connection, c.tx = Now.tx, c.copy = Now.copy, c.eng = Now.eng
      PROVE  Renewed(c)
  <2>1. (Clean(conn.eng) => Clean(c.eng)) /\ (Gathering(conn.eng) => Gathering(c.eng))
        /\ (Open(conn.eng) => Open(c.eng))
    BY <1>3, <1>4 DEF Clean, Gathering, Open
  <2>2. (Lost(conn.eng) => Lost(c.eng)) /\ (Broken(conn.eng) => Broken(c.eng))
    BY <1>3, <1>4, <2>1, ZenonT(30) DEF Lost, Broken
  <2>3. (Steady(conn) => Steady(c)) /\ (Erring(conn) => Erring(c))
    BY <1>3, <1>4, <2>1, <2>2, ZenonT(30) DEF Steady, Erring
  <2>4. InCopy(conn) => InCopy(c)
    BY <1>3, <1>4, <2>1 DEF InCopy
  <2> QED BY <1>2, <1>3, <1>4, <2>3, <2>4, ZenonT(30) DEF Renewed
<1>5. ASSUME NEW w \in BOOLEAN
      PROVE  D(w) \in Connection /\ D(w).tx = Now.tx /\ D(w).copy = Now.copy /\ D(w).eng = Now.eng
             /\ D(w).waitForSync = w
  <2>1. D(w) \in Connection
    BY <1>2, ZenonT(30) DEF Connection
  <2> QED BY <1>2, <2>1 DEF Connection
<1>6. Renewed(Now)
  BY <1>2, <1>4, ZenonT(30)
<1>7. Renewed(D(TRUE)) /\ Renewed(D(FALSE)) /\ D(TRUE).waitForSync
  <2> HIDE DEF D
  <2> QED BY <1>4, <1>5, ZenonT(30)
<1> QED BY <1>3, <1>6, <1>7 DEF Waiting

(* The end of receiveMessage settles the session.                          *)
LEMMA Responding ==
    ASSUME "rollback" \notin Fails, Steady(conn), NEW c, Renewed(c), NEW o, Sound(o),
           Proper(c, o), ~o.err /\ o.eom => o.conn.tx # "implicit", Respond(o)
    PROVE  /\ Settles /\ conn'.copy = conn.copy /\ script' = <<>>
           /\ \/ /\ pc' = "discard" /\ client' = client /\ reply' = "none"
                 /\ o.err /\ ~o.eom /\ c.waitForSync
              \/ /\ pc' = "receive" /\ client' = ReadySeen(client, o.err)
                 /\ reply' = (IF o.err THEN "error" ELSE "ready")
                 /\ IF o.err THEN o.eom \/ ~c.waitForSync ELSE o.eom
              \/ /\ pc' = "receive" /\ client' = client /\ reply' = "none" /\ ~o.err /\ ~o.eom
<1>1. o.conn \in Connection /\ o.err \in BOOLEAN /\ o.eom \in BOOLEAN
  BY ZenonT(30) DEF Sound, Outcome
<1>2. o.conn.copy = conn.copy /\ o.conn.waitForSync = c.waitForSync /\ ~o.copyIn /\ script' = <<>>
  BY DEF Proper, Renewed, Respond
<1>3. c.tx = conn.tx /\ c.eng.pending = conn.eng.pending
      /\ (conn.tx = "failed" => conn.eng.pending \subseteq {"doomed"})
  BY DEF Renewed, Steady, Broken
<1>4. \/ o.err /\ ~o.eom /\ c.waitForSync /\ Quiet(o.conn, client, "discard")
      \/ o.err /\ (o.eom \/ ~c.waitForSync) /\ endOfMessages(o.conn, TRUE, client)
      \/ ~o.err /\ o.eom /\ endOfMessages(o.conn, FALSE, client)
      \/ ~o.err /\ ~o.eom /\ Quiet(o.conn, client, "receive")
  BY <1>2, ZenonT(30) DEF Respond
<1>5. CASE o.err /\ ~o.eom /\ c.waitForSync /\ Quiet(o.conn, client, "discard")
  <2>1. conn' = o.conn /\ reply' = "none" /\ client' = client /\ pc' = "discard"
    BY <1>5 DEF Quiet
  <2>2. Settles
    BY <1>3, <1>5, <2>1, ZenonT(30) DEF Settles, BlockStep, Proper
  <2> QED BY <1>2, <1>5, <2>1, <2>2
<1>6. CASE o.err /\ (o.eom \/ ~c.waitForSync) /\ endOfMessages(o.conn, TRUE, client)
  <2>1. /\ conn' \in Reported(o.conn) /\ reply' = "error" /\ client' = ReadySeen(client, TRUE)
        /\ pc' = "receive" /\ o.err = TRUE
    BY <1>1, <1>6 DEF endOfMessages
  <2>2. Erring(o.conn) /\ o.conn.eng.committed = {}
    BY <1>6 DEF Proper
  <2>3. /\ Steady(conn') /\ conn'.tx \in {"idle", "failed"} /\ (conn'.tx = "failed" <=> o.conn.tx \in Blocks)
        /\ conn'.eng.committed = {} /\ conn'.copy = conn.copy
        /\ o.conn.tx \in Blocks /\ o.conn.eng.pending \subseteq {"doomed"}
              => conn'.eng.pending = o.conn.eng.pending
    BY <1>1, <1>2, <2>1, <2>2, Reporting, ZenonT(30)
  <2>4. conn.tx = "failed" /\ conn'.tx = "failed" => conn'.eng.pending = conn.eng.pending
    <3> SUFFICES ASSUME conn.tx = "failed", conn'.tx = "failed" PROVE conn'.eng.pending = conn.eng.pending
      OBVIOUS
    <3>1. o.conn.tx \in Blocks /\ o.conn.tx # "idle"
      BY <2>3 DEF Blocks
    <3>2. o.conn.eng.pending = conn.eng.pending
      BY <1>3, <1>6, <3>1, ZenonT(30) DEF Proper
    <3> QED BY <1>3, <2>3, <3>1, <3>2
  <2>5. Settles
    BY <2>1, <2>3, <2>4 DEF Settles, BlockStep
  <2> QED BY <1>2, <1>6, <2>1, <2>3, <2>5, ZenonT(30)
<1>7. CASE ~o.err /\ o.eom /\ endOfMessages(o.conn, FALSE, client)
  <2>1. conn' = o.conn /\ reply' = "ready" /\ client' = ReadySeen(client, FALSE) /\ pc' = "receive" /\ o.err = FALSE
    BY <1>1, <1>7 DEF endOfMessages
  <2>2. Settles
    BY <1>3, <1>7, <2>1 DEF Settles, BlockStep, Proper
  <2> QED BY <1>2, <1>7, <2>1, <2>2, ZenonT(30)
<1>8. CASE ~o.err /\ ~o.eom /\ Quiet(o.conn, client, "receive")
  <2>1. conn' = o.conn /\ reply' = "none" /\ client' = client /\ pc' = "receive"
    BY <1>8 DEF Quiet
  <2>2. Settles
    BY <1>3, <1>8, <2>1, ZenonT(30) DEF Settles, BlockStep, Proper
  <2> QED BY <1>2, <1>8, <2>1, <2>2, ZenonT(30)
<1> QED BY <1>4, <1>5, <1>6, <1>7, <1>8, ZenonT(30)

-----------------------------------------------------------------------------
(* A step that keeps the session in order and respects the open block.     *)
Turn == Orderly' /\ BlockStep

(* An operation that changes neither the block nor the session.            *)
LEMMA Unmoved ==
    ASSUME NEW c \in Connection, Steady(c), c.eng.committed = {}, NEW d,
           d.tx = c.tx, d.eng = c.eng, d.copy = c.copy, d.waitForSync = c.waitForSync
    PROVE  /\ Proper(c, Done(d)) /\ Proper(c, Error(d))
           /\ Proper(c, More(Done(d))) /\ Proper(c, More(Error(d)))
<1>1. Steady(d) /\ Erring(d)
  <2>1. Steady(d)
    BY DEF Steady
  <2> QED BY <2>1, SteadyErring, ZenonT(30)
<1>2. ASSUME NEW o, o.conn = d, ~o.copyIn PROVE Proper(c, o)
  BY <1>1, <1>2 DEF Proper
<1> QED BY <1>2, Made

(* Only COPY FROM STDIN leaves a Query message without its end.            *)
LEMMA OnlyEnds ==
    ASSUME NEW c, NEW s \in Statements \ {"copyIn"}, NEW o \in Only(c, s)
    PROVE  o.err \/ o.eom
<1> DEFINE Ended(p) == \E d : p \in {Done(d), Error(d), More(Error(d))}
<1>1. \A p : Ended(p) => p.err \/ p.eom
  BY Made
<1>2. ASSUME NEW d, NEW p \in InEngine(d, s) PROVE p.err \/ p.eom
  <2>1. Ended(p)
    BY <1>2, ZenonT(30) DEF InEngine
  <2> QED BY <1>1, <2>1
<1>3. ASSUME NEW d, s \in Runnable, Handled(d, s), NEW p \in OutsideEngine(d, s) PROVE p.err \/ p.eom
  <2>1. \/ s = "begin" \/ s = "commit" \/ s \in Savepoints
        \/ s = "deallocate" \/ s = "discard" \/ s = "copyFile" \/ s = "copyOut"
    BY <1>3 DEF Handled, HandlerStatements
  <2>2. CASE s = "commit"
    BY <1>1, <1>3, <2>2, ZenonT(30) DEF OutsideEngine, Result
  <2>3. CASE s = "deallocate"
    BY <1>1, <1>3, <2>3, ZenonT(30) DEF OutsideEngine, Result, deallocatePreparedStatement, Savepoints
  <2>4. CASE s = "copyFile"
    BY <1>1, <1>3, <2>4, ZenonT(30) DEF OutsideEngine, copyFromFileQuery, Savepoints
  <2>5. CASE s = "copyOut"
    BY <1>1, <1>3, <2>5, ZenonT(30) DEF OutsideEngine, handleCopyTo, Savepoints
  <2>6. CASE s \in {"begin", "discard"} \cup Savepoints
    BY <1>1, <1>3, <2>6, ZenonT(30) DEF OutsideEngine, Savepoints, discardAll
  <2> QED BY <2>1, <2>2, <2>3, <2>4, <2>5, <2>6
<1>4. ASSUME NEW d, s \in Runnable, NEW p \in Run(d, s) PROVE p.err \/ p.eom
  BY <1>2, <1>3, <1>4, Zenon DEF Run
<1>5. ASSUME NEW d, NEW p \in commitImplicitTransaction(d) PROVE p.eom
  <2>1. PICK e : p = Done(e) \/ p = Error(e)
    BY <1>5, ZenonT(30) DEF commitImplicitTransaction
  <2> QED BY <2>1 DEF Done, Error
<1>6. CASE s \in {"bad", "empty"} \/ Rejected(c, s)
  BY <1>6, Made DEF Only
<1>7. CASE s \in Runnable \ {"do"} /\ ~Rejected(c, s)
  <2>1. o \in Run(Unnaming(c), s)
    BY <1>7 DEF Only, Runnable, EngineStatements, HandlerStatements
  <2> QED BY <1>4, <1>7, <2>1
<1>8. CASE s = "do" /\ ~Rejected(c, s)
  BY <1>5, <1>8, Zenon DEF Only
<1> QED BY <1>6, <1>7, <1>8 DEF Statements

(* A Query, a FunctionCall and a Sync are answered.                        *)
LEMMA Answering ==
    ASSUME "rollback" \notin Fails, TypeOK, Orderly, pc = "receive", inbox # <<>>,
           Head(inbox).type \in {"Query", "FunctionCall", "Sync"}, inbox' = Tail(inbox),
           NEW c, Renewed(c), NEW o, Sound(o), Proper(c, o), Respond(o),
           ~o.err => o.eom /\ o.conn.tx # "implicit", pc' # "discard" \/ ~c.waitForSync
    PROVE  Turn
<1>1. /\ inbox' = <<>> /\ Steady(conn) /\ (conn.copy.loader => conn.copy.err)
      /\ client \in {"waiting", "synced"}
  BY LastMessage DEF Closing
<1>2. /\ Settles /\ conn'.copy = conn.copy
      /\ pc' = "receive" /\ client' = ReadySeen(client, o.err)
      /\ reply' = (IF o.err THEN "error" ELSE "ready")
  BY <1>1, Responding
<1>3. client' = "ready" /\ reply' # "none"
  BY <1>1, <1>2 DEF ReadySeen
<1> QED BY <1>1, <1>2, <1>3, AnswerMove DEF Turn, Settles

(* The text of a Query message.                                            *)
LEMMA QueryText ==
    ASSUME TypeOK, Receives("Query")
    PROVE  LET q == Head(inbox).text
           IN  /\ Len(q) = 1 => Head(q) \in Statements /\ q = <<Head(q)>>
               /\ Len(q) > 1 => q # <<>>
<1> DEFINE q == Head(inbox).text
<1>1. q \in {<<s>> : s \in Statements} \cup Seq(Runnable)
  <2>1. Head(inbox) \in Messages /\ Head(inbox).type = "Query"
    BY ReceivesStep
  <2>2. q \in Scripts
    BY <2>1 DEF Messages, Extended
  <2> QED BY <2>2, InputAssumption
<1> HIDE DEF q
<1>2. CASE q \in Seq(Runnable)
  <2>1. Len(q) = 1 => Head(q) \in Statements /\ q = <<Head(q)>>
    BY <1>2 DEF Statements
  <2> QED BY <2>1, <1>2 DEF q
<1>3. CASE q \in {<<s>> : s \in Statements}
  <2>1. PICK s \in Statements : q = <<s>>
    BY <1>3
  <2>2. Head(q) = s /\ q # <<>>
    BY <2>1
  <2> QED BY <2>1, <2>2 DEF q
<1> QED BY <1>1, <1>2, <1>3

(* One statement of a Query message.                                       *)
LEMMA QueryMove ==
    ASSUME "rollback" \notin Fails, TypeOK, Orderly, ReceiveQuery, ~Irregular
    PROVE  Turn
<1> DEFINE s == Head(Head(inbox).text)
<1>1. /\ pc = "receive" /\ inbox # <<>> /\ Head(inbox).type = "Query" /\ inbox' = Tail(inbox)
      /\ Receives("Query") /\ Len(Head(inbox).text) = 1
  BY DEF ReceiveQuery, Receives
<1>2. PICK o \in Only(Now, s) : Respond(o)
  BY DEF ReceiveQuery
<1>3. s \in Statements /\ Head(inbox).text = <<s>>
  BY <1>1, QueryText, ZenonT(30)
<1>4. /\ s \in {"commit", "rollback", "copyFile"} => reply' # "error"
      /\ s \in {"call", "copyIn", "copyFile", "discard"} => conn.tx = "idle"
      /\ pc' # "discard"
  BY <1>1, <1>3 DEF Irregular, Running, Alone, SimpleProtocol
<1> HIDE DEF s
<1>5. /\ inbox' = <<>> /\ Steady(conn) /\ (conn.copy.loader => conn.copy.err)
      /\ client = "waiting" /\ conn.tx # "implicit"
  BY <1>1, LastMessage DEF Closing
<1>6. Renewed(Now)
  BY Renewal
<1>7. CASE s # "copyIn"
  <2>1. Sound(o)
    BY <1>3, <1>5, <1>6, Tidy, OnlySound DEF Renewed
  <2>2. o.err => reply' = "error" \/ pc' = "discard"
    BY <1>2, ZenonT(30) DEF Respond, endOfMessages, Quiet
  <2>3. Proper(Now, o) /\ (~o.err => o.conn.tx # "implicit")
    BY <1>3, <1>4, <1>5, <1>6, <1>7, <2>2, OnlyProper DEF Renewed
  <2>4. o.err \/ o.eom
    BY <1>3, <1>7, OnlyEnds
  <2> QED BY <1>1, <1>2, <1>4, <1>6, <2>1, <2>3, <2>4, Answering, ZenonT(30)
<1>8. CASE s = "copyIn"
  <2> DEFINE u == Unnaming(Now)
             d == [u EXCEPT !.copy = NewCopy]
  <2>1. conn.tx = "idle" /\ Now.tx = "idle" /\ Now.eng.committed = {} /\ Steady(Now) /\ Now \in Connection
    BY <1>4, <1>5, <1>6, <1>8 DEF Renewed
  <2>2. u.tx = "idle" /\ u.eng = Now.eng /\ u \in [DOMAIN Now -> {u[x] : x \in DOMAIN Now}]
        /\ DOMAIN Now = {"tx", "waitForSync", "copy", "prepared", "portals", "eng"}
    BY <2>1, SMTT(30) DEF Unnaming, Connection
  <2> HIDE DEF u
  <2>3. d.tx = "idle" /\ d.eng = Now.eng /\ d.copy = NewCopy
    BY <2>2
  <2> HIDE DEF d
  <2>4. ~Rejected(Now, s) /\ Handled(u, s) /\ s \notin Savepoints
    BY <1>8, <2>1 DEF Rejected, Handled, HandlerStatements, Savepoints
  <2>5. o \in OutsideEngine(u, s)
    BY <1>8, <2>4 DEF Only, Run, u
  <2>6. o = [Done(d) EXCEPT !.eom = FALSE, !.copyIn = TRUE]
    BY <1>8, <2>4, <2>5, Zenon DEF OutsideEngine, handleCopyFromStdinQuery, d
  <2>7. o.conn = d /\ ~o.err /\ ~o.eom /\ o.copyIn
    BY <2>6 DEF Done
  <2>8. conn' = d /\ reply' = "none" /\ client' = "copying" /\ pc' = "receive"
    BY <1>2, <1>5, <2>7, ZenonT(30) DEF Respond, Quiet, CopyInSeen
  <2>9. InCopy(conn') /\ conn'.eng.committed = {} /\ conn'.tx = "idle"
    BY <2>1, <2>3, <2>8, ZenonT(30) DEF InCopy, Steady, NewCopy, NoCopy
  <2>10. \A S : NoneOf(inbox', S) /\ InOrder(inbox')
    BY <1>5 DEF NoneOf, InOrder
  <2>11. Protocol' /\ InBatch'
    BY <2>8, <2>9, <2>10, ZenonT(30) DEF Protocol, InBatch
  <2>12. Session' /\ BlockStep
    BY <2>8, <2>9, ZenonT(30) DEF Session, Loading, BlockStep
  <2> QED BY <2>10, <2>11, <2>12 DEF Turn, Orderly
<1> QED BY <1>7, <1>8

(* A FunctionCall is answered with an error.                               *)
LEMMA FunctionCallMove ==
    ASSUME "rollback" \notin Fails, TypeOK, Orderly, ReceiveFunctionCall
    PROVE  Turn
<1>1. /\ pc = "receive" /\ inbox # <<>> /\ Head(inbox).type = "FunctionCall" /\ inbox' = Tail(inbox)
      /\ Respond(Error(Now))
  BY DEF ReceiveFunctionCall, Receives
<1>2. Renewed(Now) /\ Steady(conn)
  BY <1>1, Renewal, LastMessage, ZenonT(30) DEF Closing
<1>3. Sound(Error(Now)) /\ Proper(Now, Error(Now))
  BY <1>2, Outcomes, Unmoved, ZenonT(30) DEF Renewed, NoneLeft
<1>4. Error(Now).err /\ Error(Now).eom /\ ~Error(Now).copyIn
  BY Made
<1>5. pc' # "discard"
  BY <1>1, <1>4 DEF Respond, endOfMessages
<1> QED BY <1>1, <1>2, <1>3, <1>4, <1>5, Answering, ZenonT(30)

(* A Sync commits the implicit block.                                      *)
LEMMA SyncMove ==
    ASSUME "rollback" \notin Fails, TypeOK, Orderly, ReceiveSync
    PROVE  Turn
<1> DEFINE d == [Now EXCEPT !.waitForSync = FALSE]
<1>1. /\ pc = "receive" /\ inbox # <<>> /\ Head(inbox).type = "Sync" /\ inbox' = Tail(inbox)
  BY DEF ReceiveSync, Receives
<1>2. PICK o \in commitImplicitTransaction(d) : Respond(o)
  BY DEF ReceiveSync
<1>3. Renewed(d) /\ Steady(conn)
  BY <1>1, Renewal, LastMessage DEF Closing
<1>4. ~d.waitForSync
  BY Renewal, ZenonT(30) DEF Renewed, Connection
<1> HIDE DEF d
<1>5. Sound(o)
  BY <1>2, <1>3, CommitImplicitSound, ZenonT(30) DEF Renewed, NoneLeft
<1>6. CASE d.tx = "implicit"
  <2>1. Gathering(d.eng) /\ d.eng.committed = {}
    BY <1>3, <1>6, ZenonT(30) DEF Renewed, Steady
  <2>2. Proper(d, o) /\ o.conn.tx = "idle" /\ o.eom
    BY <1>2, <1>3, <1>6, <2>1, ImplicitCommit, ZenonT(30) DEF Renewed
  <2> QED BY <1>1, <1>2, <1>3, <1>4, <1>5, <2>2, Answering, ZenonT(30)
<1>7. CASE d.tx # "implicit"
  <2>1. o = Done(d)
    BY <1>2, <1>7, ZenonT(30) DEF commitImplicitTransaction
  <2>2. Proper(d, o) /\ o.conn = d /\ o.eom
    BY <1>3, <2>1, Unmoved, Made DEF Renewed
  <2> QED BY <1>1, <1>2, <1>3, <1>4, <1>5, <1>7, <2>2, Answering
<1> QED BY <1>6, <1>7

(* A Query message with several statements begins.                         *)
LEMMA ScriptMove ==
    ASSUME "rollback" \notin Fails, TypeOK, Orderly, ReceiveScript
    PROVE  Turn
<1> DEFINE u == Unnaming(Now)
<1>1. /\ pc = "receive" /\ inbox # <<>> /\ Head(inbox).type = "Query" /\ inbox' = Tail(inbox)
      /\ Receives("Query") /\ Len(Head(inbox).text) > 1
      /\ script' = Head(inbox).text /\ conn' = u /\ reply' = "none" /\ client' = client /\ pc' = "script"
  BY DEF ReceiveScript, Receives, Quiet
<1>2. script' # <<>>
  BY <1>1, QueryText
<1>3. /\ inbox' = <<>> /\ Steady(conn) /\ (conn.copy.loader => conn.copy.err)
      /\ client = "waiting" /\ conn.tx # "implicit"
  BY <1>1, LastMessage DEF Closing
<1>4. /\ Now \in Connection /\ Steady(Now) /\ Now.tx = conn.tx /\ Now.copy = conn.copy
      /\ Now.eng.committed = {} /\ Now.eng.pending = conn.eng.pending
  BY <1>3, Renewal DEF Renewed
<1>5. u.tx = Now.tx /\ u.eng = Now.eng /\ u.copy = Now.copy
  BY <1>4, SMTT(30) DEF Unnaming, Connection
<1> HIDE DEF u
<1>6. Steady(u)
  BY <1>4, <1>5 DEF Steady
<1>7. \A S : NoneOf(inbox', S) /\ InOrder(inbox')
  BY <1>3 DEF NoneOf, InOrder
<1>8. Protocol' /\ InBatch'
  BY <1>1, <1>2, <1>3, ZenonT(30) DEF Protocol, InBatch
<1>9. Session' /\ BlockStep
  BY <1>1, <1>3, <1>4, <1>5, <1>6, <1>7, ZenonT(30) DEF Session, Loading, BlockStep
<1> QED BY <1>7, <1>8, <1>9 DEF Turn, Orderly

(* One statement of several.                                               *)
LEMMA StatementMove ==
    ASSUME "rollback" \notin Fails, TypeOK, Orderly, RunStatement, ~Irregular
    PROVE  Turn
<1> DEFINE last == Len(script) = 1
           s == Head(script)
<1>1. last \in BOOLEAN /\ (Len(script) > 1 => ~last)
  <2>1. Len(script) \in Nat
    BY DEF TypeOK
  <2>2. last \in BOOLEAN
    OBVIOUS
  <2>3. ASSUME Len(script) > 1, last PROVE FALSE
    BY <2>1, <2>3
  <2> QED BY <2>2, <2>3
<1> HIDE DEF last
<1>2. pc = "script" /\ inbox' = inbox
  BY DEF RunStatement
<1>3. PICK o \in OneOf(Now, s, last) :
          \/ o.err /\ Respond(o)
          \/ ~o.err /\ last /\ \E p \in Final(o) : Respond(p)
          \/ /\ ~o.err /\ Len(script) > 1
             /\ script' = Tail(script)
             /\ Quiet(o.conn, IF o.copyIn THEN CopyInSeen(client) ELSE client, "script")
  BY DEF RunStatement, last
<1>4. inbox = <<>> /\ client = "waiting" /\ script # <<>>
  BY <1>2, ZenonT(30) DEF Orderly, Protocol, TypeOK, ClientStates
<1>5. ~Loading /\ Steady(conn) /\ (conn.copy.loader => conn.copy.err)
  <2>1. ~Loading
    BY <1>2, <1>4, ZenonT(30) DEF Loading
  <2> QED BY <1>2, <2>1 DEF Orderly, Session
<1>6. /\ s \in Runnable \ {"call", "copyIn", "copyFile", "discard"}
      /\ s \in {"commit", "rollback", "copyFile"} => reply' # "error" /\ pc' # "discard"
      /\ pc' # "discard"
  <2>1. s \in Runnable
    BY <1>4 DEF TypeOK
  <2> QED BY <1>2, <2>1 DEF Irregular, Running, Alone, SimpleProtocol
<1>7. Renewed(Now)
  BY Renewal, ZenonT(30)
<1> HIDE DEF s
<1>8. Sound(o)
  BY <1>1, <1>3, <1>5, <1>6, <1>7, Tidy, OneOfSound, ZenonT(30) DEF Renewed
<1>9. o.err => reply' = "error" \/ pc' = "discard"
  BY <1>3, ZenonT(30) DEF Respond, endOfMessages, Quiet
<1>10. \/ Proper(Now, o) /\ (Now.tx = "idle" /\ last /\ ~o.err => o.conn.tx # "implicit")
       \/ /\ ~o.err /\ last /\ Now.tx \in {"idle", "implicit"} /\ o.conn.tx = "implicit"
          /\ Clean(o.conn.eng) /\ o.conn.eng.committed \subseteq {"live"} /\ ~o.copyIn
          /\ o.conn.copy = Now.copy /\ o.conn.waitForSync = Now.waitForSync
  <2>1. Now \in Connection /\ Steady(Now) /\ Now.eng.committed = {}
    BY <1>5, <1>7, ZenonT(30) DEF Renewed
  <2>2. s \in Runnable \ {"copyIn", "call", "discard", "copyFile"} /\ (o.err => s \notin {"commit", "rollback"})
    BY <1>6, <1>9, ZenonT(30)
  <2> QED BY <1>1, <1>3, <2>1, <2>2, OneOfProper
<1>11. ASSUME NEW p, Sound(p), Proper(Now, p), Respond(p), ~p.err => p.eom /\ p.conn.tx # "implicit"
       PROVE  Turn
  <2>1. /\ Settles /\ conn'.copy = conn.copy
        /\ pc' = "receive" /\ client' = ReadySeen(client, p.err)
        /\ reply' = (IF p.err THEN "error" ELSE "ready")
    BY <1>5, <1>6, <1>7, <1>11, Responding
  <2>2. client' = "ready" /\ reply' # "none" /\ inbox' = <<>>
    BY <1>2, <1>4, <2>1, ZenonT(30) DEF ReadySeen
  <2> QED BY <1>5, <2>1, <2>2, AnswerMove, ZenonT(30) DEF Turn, Settles
<1>12. CASE o.err /\ Respond(o)
  BY <1>8, <1>10, <1>11, <1>12, ZenonT(30)
<1>13. CASE ~o.err /\ last /\ \E p \in Final(o) : Respond(p)
  <2>1. PICK p \in Final(o) : Respond(p)
    BY <1>13
  <2>2. Sound(p)
    BY <1>8, FinalSound
  <2>3. Proper(Now, p) /\ p.conn.tx # "implicit" /\ (~p.err => p.eom)
    BY <1>7, <1>8, <1>10, <1>13, FinalProper, ZenonT(30) DEF Renewed
  <2> QED BY <1>11, <2>1, <2>2, <2>3
<1>14. CASE /\ ~o.err /\ Len(script) > 1
            /\ script' = Tail(script)
            /\ Quiet(o.conn, IF o.copyIn THEN CopyInSeen(client) ELSE client, "script")
  <2>1. Proper(Now, o)
    BY <1>1, <1>10, <1>14, ZenonT(30)
  <2>2. conn' = o.conn /\ reply' = "none" /\ client' = client /\ pc' = "script"
    BY <1>14, <2>1 DEF Quiet, Proper
  <2>3. /\ Steady(conn') /\ conn'.eng.committed \subseteq {"live"} /\ conn'.copy = conn.copy
        /\ BlockStep
    BY <1>7, <1>14, <2>1, <2>2, ZenonT(30) DEF Proper, Renewed, BlockStep
  <2>4. script' # <<>>
    <3>1. script \in Seq(Runnable) /\ Len(script) > 1
      BY <1>14 DEF TypeOK
    <3>2. Len(Tail(script)) = Len(script) - 1 /\ Len(script) \in Nat
      BY <1>4, <3>1
    <3>3. Len(script') > 0
      BY <1>14, <3>1, <3>2
    <3> QED BY <3>3
  <2>5. \A S : NoneOf(inbox', S) /\ InOrder(inbox')
    BY <1>2, <1>4 DEF NoneOf, InOrder
  <2>6. Protocol' /\ InBatch'
    BY <1>2, <1>4, <2>2, <2>4, ZenonT(30) DEF Protocol, InBatch
  <2>7. Session'
    BY <1>4, <1>5, <2>2, <2>3, <2>5 DEF Session, Loading
  <2> QED BY <2>3, <2>5, <2>6, <2>7, ZenonT(30) DEF Turn, Orderly
<1> QED BY <1>3, <1>12, <1>13, <1>14

=============================================================================
