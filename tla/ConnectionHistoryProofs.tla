----------------------- MODULE ConnectionHistoryProofs -----------------------
(***************************************************************************)
(* What a connection promises as long as nothing irregular has happened,   *)
(* for every client, every script, every prepared statement and every      *)
(* failure but one: the engine's ROLLBACK succeeds ("rollback" is not in   *)
(* Fails).  A session whose ROLLBACK fails keeps its work and its flag,    *)
(* and neither the handler nor these theorems say what becomes of them.    *)
(*                                                                         *)
(* COPY, the end of connections and the client keep the order that         *)
(* ConnectionProtocol defines; with its lemmas, so does every step.        *)
(***************************************************************************)
EXTENDS ConnectionProtocol

-----------------------------------------------------------------------------
(* The messages of a batch, run or discarded.                              *)

(* A message is discarded, or the Sync is answered with the error.         *)
LEMMA DiscardMove ==
    ASSUME "rollback" \notin Fails, TypeOK, Orderly, Discard
    PROVE  Turn
<1>1. pc = "discard" /\ inbox # <<>> /\ inbox' = Tail(inbox)
  BY DEF Discard
<1>2. NoneOf(inbox, Copies) /\ client \in {"batch", "synced"} /\ ~Loading
  BY <1>1 DEF Orderly, InBatch, Loading
<1>3. Erring(conn) /\ (conn.copy.loader => conn.copy.err)
  BY <1>1, <1>2 DEF Orderly, Session
<1>4. /\ Now \in Connection /\ Erring(Now) /\ Now.tx = conn.tx /\ Now.copy = conn.copy
      /\ Now.eng.committed = {} /\ Now.eng.pending = conn.eng.pending
  BY <1>3, Renewal DEF Renewed
<1>5. /\ InOrder(inbox') /\ (Head(inbox).type \in Closing => inbox' = <<>>)
      /\ \A S : NoneOf(inbox, S) => NoneOf(inbox', S) /\ Head(inbox).type \notin S
      /\ \A S : EndsIn(inbox, S) => EndsIn(inbox', S) \/ Head(inbox).type \in S
  BY <1>1, Received, Remaining DEF TypeOK, Orderly
<1>6. CASE Head(inbox).type = "Sync"
  <2>1. Head(inbox).type \in Closing
    BY <1>6 DEF Closing
  <2>2. client = "synced" /\ inbox' = <<>>
    BY <1>2, <1>5, <2>1 DEF Orderly, Protocol
  <2>3. conn' \in Reported(Now) /\ reply' = "error" /\ client' = "ready" /\ pc' = "receive"
    BY <1>6, <2>2 DEF Discard, endOfMessages, ReadySeen
  <2>4. /\ Steady(conn') /\ conn'.tx \in {"idle", "failed"} /\ (conn'.tx = "failed" <=> Now.tx \in Blocks)
        /\ conn'.eng.committed = {} /\ conn'.copy = conn.copy
        /\ Now.tx \in Blocks /\ Now.eng.pending \subseteq {"doomed"} => conn'.eng.pending = Now.eng.pending
    BY <1>4, <2>3, Reporting
  <2>5. Settles
    BY <1>3, <1>4, <2>3, <2>4 DEF Settles, BlockStep, Erring, Broken
  <2> QED BY <1>3, <2>2, <2>3, <2>4, <2>5, AnswerMove DEF Turn, Settles
<1>7. CASE Head(inbox).type # "Sync"
  <2>1. conn' = Now /\ reply' = "none" /\ client' = client /\ pc' = "discard"
    BY <1>7 DEF Discard, Quiet
  <2>2. NoneOf(inbox', Copies) /\ ~Loading'
    BY <1>2, <1>5, <2>1 DEF Loading
  <2>3. EndsIn(inbox, {"Sync"}) => EndsIn(inbox', {"Sync"})
    BY <1>5, <1>7
  <2>4. Protocol' /\ InBatch'
    BY <1>1, <1>2, <1>5, <2>1, <2>2, <2>3 DEF Orderly, Protocol, InBatch
  <2>5. Session' /\ BlockStep
    BY <1>2, <1>3, <1>4, <2>1, <2>2, ZenonT(30) DEF Session, BlockStep
  <2> QED BY <1>5, <2>4, <2>5 DEF Turn, Orderly
<1> QED BY <1>6, <1>7

(* A message of the extended protocol, done or failed.                     *)
LEMMA BatchTurn ==
    ASSUME "rollback" \notin Fails, TypeOK, Orderly, pc = "receive", inbox # <<>>,
           Head(inbox).type \in Batched, inbox' = Tail(inbox),
           NEW c, Renewed(c), NEW o, Sound(o), Steady(conn) => Proper(c, o), ~o.eom,
           o.err => c.waitForSync, Respond(o)
    PROVE  Turn
<1>1. client \in {"batch", "synced"}
  <2>1. /\ \A S : NoneOf(inbox, S) => Head(inbox).type \notin S
        /\ \A S : EndsIn(inbox, S) => Tail(inbox) # <<>> \/ Head(inbox).type \in S
    BY Remaining DEF TypeOK, EndsIn
  <2> QED BY <2>1 DEF Orderly, Protocol, TypeOK, ClientStates, Batched
<1>2. Steady(conn)
  BY <1>1 DEF Orderly, Session, Loading
<1>3. /\ Settles /\ conn'.copy = conn.copy
      /\ pc' \in {"receive", "discard"} /\ client' = client /\ reply' = "none"
  BY <1>2, Responding
<1>4. Orderly'
  BY <1>3, BatchMove
<1> QED BY <1>3, <1>4, ZenonT(30) DEF Turn, Settles

(* A portal runs, in an implicit block outside explicit ones.              *)
LEMMA ExecuteMove ==
    ASSUME "rollback" \notin Fails, TypeOK, Orderly, ReceiveExecute, ~Irregular
    PROVE  Turn
<1> DEFINE s == conn.portals[Head(inbox).name]
           d == startImplicitTransaction(Waiting, s)
<1>1. /\ pc = "receive" /\ inbox # <<>> /\ Head(inbox).type = "Execute" /\ inbox' = Tail(inbox)
      /\ Head(inbox) \in Messages
  BY ReceivesStep DEF ReceiveExecute, Receives
<1>2. s \in Runnable \cup {"empty", NotPrepared}
  <2>1. Head(inbox).name \in Names
    BY <1>1 DEF Messages, Extended
  <2> QED BY <2>1, SMTT(30) DEF Connection, Prepared, TypeOK
<1>3. PICK o \in IF s = NotPrepared THEN {Error(Waiting)}
                 ELSE IF s = "empty" THEN {Done(Waiting)}
                 ELSE IF Rejected(conn, s) THEN {Error(Waiting)}
                 ELSE Run(d, s) : Respond(More(o))
  BY ZenonT(30) DEF ReceiveExecute
<1>4. /\ s \notin {"call", "copyIn", "copyFile", "discard"}
      /\ s \in {"commit", "rollback", "copyFile"} => reply' # "error" /\ pc' # "discard"
  BY <1>1 DEF Irregular, Running, Alone
<1> HIDE DEF s
<1>5. Renewed(Waiting) /\ Waiting.waitForSync
  BY Renewal
<1>6. Waiting \in Connection /\ Waiting.eng.committed = {} /\ Waiting.tx = conn.tx
  BY <1>5 DEF Renewed
<1>7. ASSUME NEW p, Sound(p), Steady(conn) => Proper(Waiting, p), Respond(More(p))
      PROVE  Turn
  <2>1. Sound(More(p)) /\ More(p).conn = p.conn /\ More(p).err = p.err
    BY <1>7, MoreSound
  <2>2. ~More(p).eom /\ More(p).copyIn = p.copyIn
    BY <1>7, SMTT(30) DEF More, Sound, Outcome
  <2>3. Steady(conn) => Proper(Waiting, More(p))
    BY <1>7, <2>1, <2>2, ZenonT(30) DEF Proper
  <2> QED BY <1>1, <1>5, <1>7, <2>1, <2>2, <2>3, BatchTurn, ZenonT(30) DEF Batched
<1>8. CASE o \in {Error(Waiting), Done(Waiting)}
  <2>1. Sound(o)
    BY <1>6, <1>8, Outcomes, ZenonT(30) DEF NoneLeft
  <2>2. Steady(conn) => Proper(Waiting, o)
    BY <1>5, <1>6, <1>8, Unmoved DEF Renewed
  <2> QED BY <1>3, <1>7, <2>1, <2>2
<1>9. CASE s \in Runnable /\ ~Rejected(conn, s) /\ o \in Run(d, s)
  <2>1. Sound(o)
    <3>1. (Waiting.eng.tran /\ ~Waiting.eng.noAuto) => Untidy
      BY <1>1, NowSound, ZenonT(30)
    <3> QED BY <1>6, <1>9, <3>1, StartedSound
  <2>2. o.err => reply' = "error" \/ pc' = "discard"
    <3>1. o.err = More(o).err
      BY <2>1, MoreSound
    <3> QED BY <1>3, <3>1, ZenonT(30) DEF Respond, endOfMessages, Quiet
  <2>3. ASSUME Steady(conn) PROVE Proper(Waiting, o)
    <3>1. Steady(Waiting)
      BY <1>5, <2>3 DEF Renewed
    <3>2. /\ d \in Connection /\ Steady(d) /\ d.eng.committed = {}
          /\ d.copy = Waiting.copy /\ d.waitForSync = Waiting.waitForSync
          /\ d = Waiting \/ (Waiting.tx = "idle" /\ d.tx = "implicit")
      BY <1>6, <3>1, Starting
    <3> HIDE DEF d
    <3>3. ~Rejected(d, s)
      BY <1>6, <1>9, <3>2 DEF Rejected
    <3>4. Proper(d, o)
      BY <1>4, <1>9, <2>2, <3>2, <3>3, RunProper
    <3>5. CASE d = Waiting
      BY <3>4, <3>5
    <3>6. CASE Waiting.tx = "idle"
      BY <3>2, <3>4, <3>6 DEF Proper
    <3> QED BY <3>2, <3>5, <3>6
  <2> QED BY <1>3, <1>7, <2>1, <2>3
<1> QED BY <1>2, <1>3, <1>8, <1>9, ZenonT(30)

(* The other messages of the extended protocol.                            *)
LEMMA ExtendedMove ==
    ASSUME "rollback" \notin Fails, TypeOK, Orderly,
           ReceiveParse \/ ReceiveBind \/ ReceiveDescribe \/ ReceiveClose \/ ReceiveFlush
    PROVE  Turn
<1> DEFINE m == Head(inbox)
<1>1. /\ pc = "receive" /\ inbox # <<>> /\ inbox' = Tail(inbox) /\ m \in Messages
      /\ m.type \in Batched
  BY ReceivesStep, ZenonT(30) DEF ReceiveParse, ReceiveBind, ReceiveDescribe, ReceiveClose, ReceiveFlush,
                      Receives, TypeOK, Batched
<1>2. /\ Renewed(Waiting) /\ Waiting.waitForSync /\ Renewed(Now)
      /\ Waiting \in Connection /\ Waiting.eng.committed = {}
      /\ Now \in Connection /\ Now.eng.committed = {}
  BY Renewal DEF Renewed
<1>3. ASSUME NEW c \in {Now, Waiting}, NEW d \in Connection,
             d.tx = c.tx, d.eng = c.eng, d.copy = c.copy, d.waitForSync = c.waitForSync,
             Respond(More(Done(d))) \/ (c = Waiting /\ Respond(More(Error(d))))
      PROVE  Turn
  <2>1. /\ Sound(More(Done(d))) /\ Sound(More(Error(d))) /\ Renewed(c)
        /\ Steady(conn) => Proper(c, More(Done(d))) /\ Proper(c, More(Error(d)))
    BY <1>2, <1>3, Outcomes, MoreSound, Unmoved, ZenonT(30) DEF Renewed, NoneLeft
  <2>2. ~More(Done(d)).eom /\ ~More(Error(d)).eom /\ ~More(Done(d)).err
    BY Made, ZenonT(30)
  <2>3. CASE Respond(More(Done(d)))
    BY <1>1, <2>1, <2>2, <2>3, BatchTurn
  <2>4. CASE c = Waiting /\ Respond(More(Error(d)))
    BY <1>1, <1>2, <2>1, <2>2, <2>4, BatchTurn, ZenonT(30)
  <2> QED BY <1>3, <2>3, <2>4
<1>4. CASE ReceiveParse
  <2> DEFINE d == [Waiting EXCEPT !.prepared[m.name] = m.stmt]
  <2>1. m.name \in Names /\ m.stmt \in Statements
    <3>1. m.type = "Parse"
      BY <1>4 DEF ReceiveParse, Receives
    <3> QED BY <1>1, <3>1, InputAssumption DEF Messages, Extended
  <2>2. m.stmt # "bad" => d \in Connection
    BY <1>2, <2>1 DEF Connection, Prepared, Statements
  <2>3. /\ d.tx = Waiting.tx /\ d.eng = Waiting.eng /\ d.copy = Waiting.copy
        /\ d.waitForSync = Waiting.waitForSync
    BY <1>2, ZenonT(30) DEF Connection
  <2>4. (m.stmt # "bad" /\ Respond(More(Done(d)))) \/ Respond(More(Error(Waiting)))
    BY <1>4 DEF ReceiveParse
  <2> HIDE DEF d, m
  <2> QED BY <1>2, <1>3, <2>2, <2>3, <2>4, ZenonT(30)
<1>5. CASE ReceiveBind
  <2> DEFINE s == conn.prepared[m.from]
             d == [Waiting EXCEPT !.portals[m.name] = s]
  <2>1. m.name \in Names /\ m.from \in Names
    <3>1. m.type = "Bind"
      BY <1>5 DEF ReceiveBind, Receives
    <3> QED BY <1>1, <3>1, ZenonT(30) DEF Messages, Extended
  <2>2. d \in Connection
    BY <1>2, <2>1, ZenonT(30) DEF Connection, Prepared, TypeOK
  <2>3. /\ d.tx = Waiting.tx /\ d.eng = Waiting.eng /\ d.copy = Waiting.copy
        /\ d.waitForSync = Waiting.waitForSync
    BY <1>2, ZenonT(30) DEF Connection
  <2>4. Respond(More(Done(d))) \/ Respond(More(Error(Waiting)))
    BY <1>5 DEF ReceiveBind
  <2> HIDE DEF d
  <2> QED BY <1>2, <1>3, <2>2, <2>3, <2>4, ZenonT(30)
<1>6. CASE ReceiveDescribe
  <2>1. Respond(More(Done(Waiting))) \/ Respond(More(Error(Waiting)))
    BY <1>6 DEF ReceiveDescribe, Result
  <2> QED BY <1>2, <1>3, <2>1
<1>7. CASE ReceiveClose
  <2>1. m.name \in Names
    <3>1. m.type = "Close"
      BY <1>7 DEF ReceiveClose, Receives
    <3> QED BY <1>1, <3>1 DEF Messages, Extended
  <2>2. PICK d \in {[Now EXCEPT !.prepared[m.name] = NotPrepared],
                    [Now EXCEPT !.portals[m.name] = NotPrepared]} : Respond(More(Done(d)))
    BY <1>7 DEF ReceiveClose
  <2>3. d \in Connection
    BY <1>2, <2>1, <2>2 DEF Connection, Prepared
  <2>4. d.tx = Now.tx /\ d.eng = Now.eng /\ d.copy = Now.copy /\ d.waitForSync = Now.waitForSync
    BY <1>2, <2>2 DEF Connection
  <2> QED BY <1>2, <1>3, <2>2, <2>3, <2>4
<1>8. CASE ReceiveFlush
  BY <1>2, <1>3, <1>8 DEF ReceiveFlush
<1> QED BY <1>4, <1>5, <1>6, <1>7, <1>8

-----------------------------------------------------------------------------
(* The transaction a COPY began is rolled back.                            *)
LEMMA CopyRolledBack ==
    ASSUME "rollback" \notin Fails, NEW c \in Connection, c.tx = "idle", c.eng.tran,
           NEW d \in rollbackCopyTransaction(c, TRUE)
    PROVE  /\ d.tx = "idle" /\ d.copy = c.copy /\ d.waitForSync = c.waitForSync
           /\ Clean(d.eng) /\ d.eng.committed = c.eng.committed
<1> DEFINE f == EngineRollback(c.eng, TRUE)
<1>1. c.eng \in Engine
  BY DEF Connection
<1>2. Clean(f) /\ f.committed = c.eng.committed /\ f \in Engine
  BY <1>1, Ending, EngineControl, ZenonT(30)
<1>3. d = [c EXCEPT !.eng = AutoCommitRestored(f)]
  BY ZenonT(30) DEF rollbackCopyTransaction, May
<1> HIDE DEF f
<1>4. Clean(AutoCommitRestored(f)) /\ AutoCommitRestored(f).committed = f.committed
  BY <1>2 DEF AutoCommitRestored, Clean, Engine
<1> QED BY <1>2, <1>3, <1>4, Replaced

(* After a chunk of COPY data: the load goes on, or has been undone.       *)
Taken(c) == InCopy(c) /\ c.eng.committed = {}

Undone(c) ==
    c.tx = "idle" /\ Clean(c.eng) /\ c.eng.committed = {} /\ c.copy.on /\ c.copy.err

(* A chunk does one of the two.                                            *)
LEMMA Chunk ==
    ASSUME "rollback" \notin Fails, NEW c \in Connection, InCopy(c), c.eng.committed = {},
           NEW o \in handleCopyData(c)
    PROVE  ~o.eom /\ ~o.copyIn /\ (~o.err => Taken(o.conn)) /\ (o.err => Undone(o.conn))
<1> DEFINE e == c.eng
           b == IF e.tran THEN e ELSE [e EXCEPT !.tran = TRUE, !.noAuto = TRUE]
           k0 == [c.copy EXCEPT !.started = @ \/ ~e.tran]
<1>1. e \in Engine /\ c.copy \in Copy /\ c.tx = "idle" /\ c.copy.on /\ ~c.copy.err
  BY ZenonT(30) DEF Connection, InCopy
<1>2. /\ b \in Engine /\ b.tran /\ b.noAuto /\ b.pending \subseteq {"live"}
      /\ b.saved = {} /\ b.committed = {}
  BY <1>1, ZenonT(30) DEF Engine, InCopy, Clean
<1>3. k0 \in Copy /\ k0.on /\ ~k0.err /\ k0.started
  BY <1>1 DEF Copy, InCopy, Clean
<1>4. \/ o \in {More(Done([c EXCEPT !.eng = x.eng, !.copy = x.copy])) :
                     x \in {y \in handleCopyDataHelper(c.eng, c.copy) : y.ok}}
      \/ o \in UNION {{More(Error(d)) :
                         d \in rollbackCopyTransaction(
                                 [c EXCEPT !.eng = x.eng, !.copy = [x.copy EXCEPT !.err = TRUE]],
                                 x.copy.started)} :
                      x \in {y \in handleCopyDataHelper(c.eng, c.copy) : ~y.ok}}
  BY <1>1, ZenonT(30) DEF handleCopyData
<1>5. CASE o \in {More(Done([c EXCEPT !.eng = x.eng, !.copy = x.copy])) :
                     x \in {y \in handleCopyDataHelper(c.eng, c.copy) : y.ok}}
  <2>1. PICK k \in {y \in handleCopyDataHelper(c.eng, c.copy) : y.ok} :
            o = More(Done([c EXCEPT !.eng = k.eng, !.copy = k.copy]))
    BY <1>5, ZenonT(30)
  <2>2. k.eng = StatementDone(b, {"live"}) /\ k.copy = [k0 EXCEPT !.loader = TRUE]
    BY <2>1 DEF handleCopyDataHelper
  <2> DEFINE d == [c EXCEPT !.eng = k.eng, !.copy = k.copy]
  <2> HIDE DEF b, k0
  <2>3. /\ k.eng.tran /\ k.eng.noAuto /\ k.eng.pending \subseteq {"live"}
        /\ k.eng.saved = {} /\ k.eng.committed = {}
    BY <1>2, <2>2 DEF StatementDone, Settled, Engine
  <2>4. k.copy.on /\ ~k.copy.err /\ k.copy.loader /\ k.copy.started
    BY <1>3, <2>2 DEF Copy
  <2>5. d.tx = c.tx /\ d.eng = k.eng /\ d.copy = k.copy
    BY DEF Connection
  <2>6. Taken(d)
    BY <1>1, <2>3, <2>4, <2>5 DEF InCopy, Taken
  <2> HIDE DEF d
  <2>7. o = More(Done(d))
    BY <2>1 DEF d
  <2>8. o.conn = d /\ ~o.err /\ ~o.eom /\ ~o.copyIn
    BY <2>7 DEF Done, More
  <2> QED BY <2>6, <2>8, ZenonT(30)
<1>6. CASE o \in UNION {{More(Error(d)) :
                         d \in rollbackCopyTransaction(
                                 [c EXCEPT !.eng = x.eng, !.copy = [x.copy EXCEPT !.err = TRUE]],
                                 x.copy.started)} :
                      x \in {y \in handleCopyDataHelper(c.eng, c.copy) : ~y.ok}}
  <2>1. PICK k \in {y \in handleCopyDataHelper(c.eng, c.copy) : ~y.ok} :
            o \in {More(Error(d)) :
                     d \in rollbackCopyTransaction(
                             [c EXCEPT !.eng = k.eng, !.copy = [k.copy EXCEPT !.err = TRUE]],
                             k.copy.started)}
    BY <1>6, ZenonT(30)
  <2> DEFINE j == [k.copy EXCEPT !.err = TRUE]
             h == [c EXCEPT !.eng = k.eng, !.copy = j]
  <2>2. /\ k.eng \in StatementFailed(b)
        /\ \E l \in {k0.loader, TRUE} : k.copy = [k0 EXCEPT !.loader = l]
    BY <2>1 DEF handleCopyDataHelper
  <2> HIDE DEF b, k0
  <2>3. k.eng \in Engine /\ k.eng.tran /\ k.eng.committed = {}
    <3>1. k.eng \in Engine /\ k.eng.committed = {}
      BY <1>2, <2>2, EngineStatement, ZenonT(30)
    <3>2. k.eng = [b EXCEPT !.tran = TRUE]
      BY <1>2, <2>2, ZenonT(30) DEF StatementFailed
    <3> QED BY <1>2, <3>1, <3>2 DEF Engine
  <2>4. j \in Copy /\ j.on /\ j.err /\ k.copy.started = TRUE
    BY <1>3, <2>2, ZenonT(30) DEF Copy
  <2> HIDE DEF j
  <2>5. h \in Connection /\ h.tx = "idle" /\ h.eng = k.eng /\ h.copy = j
    BY <1>1, <2>3, <2>4, ZenonT(30) DEF Connection
  <2> HIDE DEF h
  <2>6. PICK d \in rollbackCopyTransaction(h, TRUE) : o = More(Error(d))
    BY <2>1, <2>4, ZenonT(30) DEF h, j
  <2>7. Undone(d)
    <3>1. h.tx = "idle" /\ h.eng.tran /\ h.eng.committed = {}
      BY <2>3, <2>5
    <3>2. d.tx = "idle" /\ d.copy = j /\ Clean(d.eng) /\ d.eng.committed = {}
      BY <2>5, <3>1, CopyRolledBack, ZenonT(30)
    <3> QED BY <2>4, <3>2, ZenonT(30) DEF Undone
  <2>8. o.conn = d /\ o.err /\ ~o.eom /\ ~o.copyIn
    BY <2>6 DEF Error, More
  <2> QED BY <2>7, <2>8
<1> QED BY <1>4, <1>5, <1>6, ZenonT(30)

(* The end of COPY data: the load is committed or undone.                  *)
LEMMA CopyEnded ==
    ASSUME "rollback" \notin Fails, NEW c \in Connection, InCopy(c), c.eng.committed = {},
           NEW o \in handleCopyDone(c) \cup handleCopyFail(c)
    PROVE  /\ o.conn.tx = "idle" /\ Clean(o.conn.eng) /\ (o.conn.copy.loader => o.conn.copy.err)
           /\ o.conn.eng.committed \subseteq {"live"}
           /\ ~o.copyIn /\ (o.err \/ o.eom)
<1> DEFINE d == [c EXCEPT !.copy = NoCopy]
           f == EngineCommit(c.eng, TRUE)
<1>1. c.tx = "idle" /\ c.copy.on /\ ~c.copy.err /\ c.eng \in Engine /\ ~NoCopy.loader
  BY ZenonT(30) DEF InCopy, Connection, NoCopy
<1>2. d \in Connection /\ d.tx = "idle" /\ d.eng = c.eng /\ d.copy = NoCopy
  BY <1>1, ZenonT(30) DEF Connection, NoCopy, Copy
<1> HIDE DEF d
<1>3. CASE ~c.copy.loader
  <2>1. Clean(c.eng) /\ ~c.copy.started
    BY <1>3 DEF InCopy
  <2>2. o \in {Error(c), Error(d)}
    BY <1>1, <1>3, <2>1 DEF handleCopyDone, handleCopyFail, rollbackCopyTransaction, d
  <2>3. o.conn \in {c, d} /\ o.err /\ ~o.copyIn
    BY <2>2, Made
  <2> QED BY <1>1, <1>2, <1>3, <2>1, <2>3
<1>4. CASE c.copy.loader
  <2>1. c.copy.started = TRUE /\ c.eng.tran /\ c.eng.pending \subseteq {"live"}
    BY <1>4 DEF InCopy, Connection, Copy
  <2>2. \/ o = Done([d EXCEPT !.eng = f])
        \/ \E a \in rollbackCopyTransaction(d, TRUE) : o \in {Done(a), More(Error(a))}
    <3>1. [d EXCEPT !.eng = EngineCommit(@, TRUE)] = [d EXCEPT !.eng = f]
      BY <1>2
    <3>2. CASE o \in handleCopyDone(c)
      BY <1>1, <1>4, <2>1, <3>1, <3>2, ZenonT(30) DEF handleCopyDone, d
    <3>3. CASE o \in handleCopyFail(c)
      BY <1>1, <1>4, <2>1, <3>3, ZenonT(30) DEF handleCopyFail, d
    <3> QED BY <3>2, <3>3, ZenonT(30)
  <2>3. CASE o = Done([d EXCEPT !.eng = f])
    <3>1. Clean(f) /\ f.committed \subseteq {"live"}
      BY <1>1, <2>1, Ending, ZenonT(30)
    <3> HIDE DEF f
    <3>2. o.conn = [d EXCEPT !.eng = f] /\ ~o.err /\ o.eom /\ ~o.copyIn
      BY <2>3, Made
    <3>3. o.conn.tx = "idle" /\ o.conn.eng = f /\ o.conn.copy = NoCopy
      BY <1>2, <3>2, Replaced
    <3> QED BY <1>1, <3>1, <3>2, <3>3
  <2>4. CASE \E a \in rollbackCopyTransaction(d, TRUE) : o \in {Done(a), More(Error(a))}
    <3>1. PICK a \in rollbackCopyTransaction(d, TRUE) : o \in {Done(a), More(Error(a))}
      BY <2>4, ZenonT(30)
    <3>2. a.tx = "idle" /\ a.copy = NoCopy /\ Clean(a.eng) /\ a.eng.committed = {}
      <4>1. d.eng.tran /\ d.eng.committed = {}
        BY <1>2, <2>1
      <4> QED BY <1>2, <4>1, CopyRolledBack, ZenonT(30)
    <3>3. o.conn = a /\ (o.err \/ o.eom) /\ ~o.copyIn
      BY <3>1 DEF Done, Error, More
    <3> QED BY <1>1, <3>2, <3>3, Zenon
  <2> QED BY <2>2, <2>3, <2>4, ZenonT(30)
<1> QED BY <1>3, <1>4, ZenonT(30)

(* A COPY that ends is answered at once.                                   *)
LEMMA CopyAnswer ==
    ASSUME NEW o, Sound(o), Respond(o), o.conn.tx = "idle", ~o.copyIn, o.err \/ o.eom, pc' # "discard"
    PROVE  /\ conn' = o.conn /\ pc' = "receive" /\ client' = ReadySeen(client, o.err)
           /\ reply' # "none"
<1>1. o.err \in BOOLEAN
  BY DEF Sound, Outcome
<1>2. endOfMessages(o.conn, o.err, client)
  BY <1>1, ZenonT(30) DEF Respond, Quiet
<1>3. Reported(o.conn) = {o.conn}
  BY DEF Reported
<1> QED BY <1>1, <1>2, <1>3 DEF endOfMessages

(* A COPY message outside a load is one too many: only the state of the    *)
(* failed COPY may go.                                                     *)
LEMMA StrayMove ==
    ASSUME TypeOK, Orderly, pc = "receive", inbox # <<>>, Head(inbox).type \in Copies, ~Loading,
           inbox' = Tail(inbox), NEW d, Quiet(d, client, "receive"),
           d.tx = Now.tx, d.eng = Now.eng,
           d.copy = Now.copy \/ (d.copy = NoCopy /\ Head(inbox).type \in Ends)
    PROVE  Turn
<1>1. conn' = d /\ reply' = "none" /\ client' = client /\ pc' = "receive"
  BY DEF Quiet
<1>2. /\ InOrder(inbox') /\ (Head(inbox).type \in Ends => NoneOf(inbox', Copies))
      /\ \A S : NoneOf(inbox, S) => NoneOf(inbox', S) /\ Head(inbox).type \notin S
      /\ \A S : EndsIn(inbox, S) => EndsIn(inbox', S) \/ Head(inbox).type \in S
      /\ \A S : EndsIn(inbox', S) => EndsIn(inbox, S)
  BY Received, Remaining DEF TypeOK, Orderly
<1>3. /\ Steady(conn) /\ conn.copy.on /\ conn.copy.err /\ conn.tx # "implicit"
  BY <1>2 DEF Orderly, Session, InBatch
<1>4. /\ Now.tx = conn.tx /\ Now.copy = conn.copy /\ Steady(Now)
      /\ Now.eng.committed = {} /\ Now.eng.pending = conn.eng.pending
  BY <1>3, Renewal DEF Renewed
<1>5. Steady(conn') /\ conn'.tx = conn.tx /\ conn'.eng.committed = {} /\ conn'.eng.pending = conn.eng.pending
  BY <1>1, <1>4, ZenonT(30) DEF Steady
<1>6. ~Loading' /\ client # "copying"
  BY <1>1, <1>2 DEF Loading
<1>7. /\ EndsIn(inbox, {"Sync"}) => EndsIn(inbox', {"Sync"})
      /\ EndsIn(inbox, {"Query", "FunctionCall"}) => EndsIn(inbox', {"Query", "FunctionCall"})
      /\ EndsIn(inbox, {"Terminate"}) => EndsIn(inbox', {"Terminate"})
  BY <1>2 DEF Copies, Ends
<1>8. client = "waiting" => ~EndsIn(inbox, Ends)
  BY DEF Loading
<1>9. Protocol'
  BY <1>1, <1>2, <1>6, <1>7, <1>8, ZenonT(30) DEF Orderly, Protocol
<1>10. InBatch'
  BY <1>1, <1>3, <1>5 DEF InBatch
<1>11. client = "aborted" => Head(inbox).type \notin Ends
  BY <1>2 DEF Orderly, Protocol
<1>12. Session'
  <2>1. CASE d.copy = Now.copy
    BY <1>1, <1>3, <1>4, <1>5, <1>6, <2>1, ZenonT(30) DEF Session
  <2>2. CASE d.copy = NoCopy /\ Head(inbox).type \in Ends
    BY <1>1, <1>2, <1>5, <1>6, <1>11, <2>2 DEF Session, NoCopy
  <2> QED BY <2>1, <2>2
<1>13. BlockStep
  BY <1>5 DEF BlockStep
<1> QED BY <1>2, <1>9, <1>10, <1>12, <1>13 DEF Turn, Orderly

(* COPY data.                                                              *)
LEMMA CopyDataMove ==
    ASSUME "rollback" \notin Fails, TypeOK, Orderly, ReceiveCopyData, ~Irregular
    PROVE  Turn
<1>1. /\ pc = "receive" /\ inbox # <<>> /\ Head(inbox).type = "CopyData" /\ inbox' = Tail(inbox)
  BY DEF ReceiveCopyData, Receives
<1>2. PICK o \in handleCopyData(Now) : Respond(o)
  BY DEF ReceiveCopyData
<1>3. pc' # "discard"
  BY <1>1 DEF Irregular, SimpleProtocol
<1>4. /\ InOrder(inbox')
      /\ \A S : NoneOf(inbox, S) => NoneOf(inbox', S) /\ Head(inbox).type \notin S
      /\ \A S : EndsIn(inbox, S) => EndsIn(inbox', S) \/ Head(inbox).type \in S
      /\ \A S : EndsIn(inbox', S) => EndsIn(inbox, S)
  BY <1>1, Received, Remaining DEF TypeOK, Orderly
<1>5. Renewed(Now)
  BY Renewal
<1>6. CASE ~Loading
  <2>1. Now.copy.err
    <3>1. ~NoneOf(inbox, Copies)
      BY <1>1, <1>4 DEF Copies
    <3> QED BY <1>5, <1>6, <3>1 DEF Orderly, Session, Renewed
  <2>2. o = More(Done(Now))
    BY <1>2, <2>1 DEF handleCopyData
  <2>3. Quiet(Now, client, "receive")
    <3>1. o.conn = Now /\ ~o.err /\ ~o.eom /\ ~o.copyIn
      BY <2>2, Made
    <3> QED BY <1>2, <3>1, ZenonT(30) DEF Respond
  <2> QED BY <1>1, <1>6, <2>3, StrayMove, ZenonT(30) DEF Copies
<1>7. CASE Loading
  <2>1. /\ ~o.eom /\ ~o.copyIn /\ (~o.err => Taken(o.conn)) /\ (o.err => Undone(o.conn)) /\ Sound(o)
    BY <1>2, <1>5, <1>7, Chunk, CopyDataSound, ZenonT(30) DEF Orderly, Session, Renewed
  <2>2. EndsIn(inbox, Ends) => EndsIn(inbox', Ends) /\ NoneOf(inbox', Closing)
    <3>1. EndsIn(inbox, Ends) => NoneOf(inbox, Closing)
      BY EndOfCopy DEF TypeOK, Orderly
    <3>2. "CopyData" \notin Ends
      BY DEF Ends
    <3> QED BY <1>1, <1>4, <3>1, <3>2
  <2>3. NoneOf(inbox, Batched)
    BY <1>1, <1>7 DEF Loading, Orderly, Protocol, NoneOf
  <2>4. client = "copying" \/ (client = "waiting" /\ EndsIn(inbox, Ends))
    BY <1>7 DEF Loading
  <2>5. CASE ~o.err
    <3>1. conn' = o.conn /\ reply' = "none" /\ client' = client /\ pc' = "receive"
      BY <1>2, <2>1, <2>5, ZenonT(30) DEF Respond, Quiet
    <3>2. InCopy(conn') /\ conn'.tx = "idle" /\ conn'.eng.committed = {}
      BY <2>1, <2>5, <3>1, ZenonT(30) DEF Taken, InCopy
    <3>3. Protocol' /\ InBatch'
      BY <1>4, <2>2, <2>3, <2>4, <3>1, <3>2, ZenonT(30) DEF Orderly, Protocol, InBatch
    <3>4. Session' /\ BlockStep
      BY <2>2, <2>4, <3>1, <3>2, ZenonT(30) DEF Session, Loading, BlockStep
    <3> QED BY <1>4, <3>3, <3>4 DEF Turn, Orderly
  <2>6. CASE o.err
    <3>1. Undone(o.conn) /\ o.err = TRUE
      BY <2>1, <2>6 DEF Sound, Outcome
    <3>2. conn' = o.conn /\ pc' = "receive" /\ client' = ReadySeen(client, TRUE)
      BY <1>2, <1>3, <2>1, <3>1, CopyAnswer, ZenonT(30) DEF Undone
    <3>3. client' = IF client = "copying" THEN "aborted" ELSE "ready"
      BY <2>4, <3>2 DEF ReadySeen
    <3>4. /\ Steady(conn') /\ conn'.tx = "idle" /\ conn'.eng.committed = {}
          /\ conn'.copy.on /\ conn'.copy.err
      BY <3>1, <3>2 DEF Undone, Steady
    <3>5. /\ NoneOf(inbox', Closing \cup Batched)
          /\ client = "copying" => NoneOf(inbox', Ends)
      <4>1. CASE client = "copying"
        BY <1>4, <4>1 DEF Orderly, Protocol
      <4>2. CASE client = "waiting" /\ EndsIn(inbox, Ends)
        BY <1>4, <2>2, <2>3, <4>2 DEF NoneOf
      <4> QED BY <2>4, <4>1, <4>2
    <3>6. Protocol' /\ InBatch'
      BY <2>4, <3>2, <3>3, <3>4, <3>5, ZenonT(30) DEF Protocol, InBatch
    <3>7. Session' /\ BlockStep
      BY <2>4, <3>2, <3>3, <3>4, ZenonT(30) DEF Session, Loading, BlockStep
    <3> QED BY <1>4, <3>6, <3>7 DEF Turn, Orderly
  <2> QED BY <2>5, <2>6
<1> QED BY <1>6, <1>7

(* The end of COPY data.                                                   *)
LEMMA CopyEndMove ==
    ASSUME "rollback" \notin Fails, TypeOK, Orderly, ReceiveCopyDone \/ ReceiveCopyFail, ~Irregular
    PROVE  Turn
<1>1. /\ pc = "receive" /\ inbox # <<>> /\ Head(inbox).type \in Ends /\ inbox' = Tail(inbox)
      /\ ReceiveCopyFail => Head(inbox).type = "CopyFail"
  BY DEF ReceiveCopyDone, ReceiveCopyFail, Receives, Ends
<1>2. PICK o \in handleCopyDone(Now) \cup handleCopyFail(Now) :
          Respond(o) /\ (ReceiveCopyFail \/ o \in handleCopyDone(Now))
  BY DEF ReceiveCopyDone, ReceiveCopyFail
<1>3. pc' # "discard" /\ (ReceiveCopyFail => ~conn.copy.err)
  BY <1>1 DEF Irregular, SimpleProtocol, Ends
<1>4. /\ InOrder(inbox') /\ NoneOf(inbox', Copies)
      /\ \A S : NoneOf(inbox, S) => Head(inbox).type \notin S
      /\ \A S : EndsIn(inbox, S) => EndsIn(inbox', S) \/ inbox' = <<>>
  BY <1>1, Received, Remaining DEF TypeOK, Orderly
<1>5. Renewed(Now)
  BY Renewal
<1>6. CASE ~Loading
  <2> DEFINE d == [Now EXCEPT !.copy = NoCopy]
  <2>1. Now.copy.err /\ Now.copy.on /\ conn.copy.err
    <3>1. ~NoneOf(inbox, Copies)
      BY <1>1, <1>4 DEF Copies
    <3> QED BY <1>5, <1>6, <3>1, ZenonT(30) DEF Orderly, Session, Renewed
  <2>2. o = More(Done(d))
    BY <1>2, <1>3, <2>1 DEF handleCopyDone
  <2>3. d.tx = Now.tx /\ d.eng = Now.eng /\ d.copy = NoCopy
    BY <1>5 DEF Renewed, Connection
  <2> HIDE DEF d
  <2>4. Quiet(d, client, "receive")
    <3>1. o.conn = d /\ ~o.err /\ ~o.eom /\ ~o.copyIn
      BY <2>2, Made
    <3> QED BY <1>2, <3>1, ZenonT(30) DEF Respond
  <2>5. Head(inbox).type \in Copies
    BY <1>1 DEF Copies
  <2> QED BY <1>1, <1>6, <2>3, <2>4, <2>5, StrayMove, ZenonT(30)
<1>7. CASE Loading
  <2>1. client = "waiting" /\ inbox' = <<>>
    <3>1. client = "waiting" /\ EndsIn(inbox, Ends)
      BY <1>1, <1>4, <1>7, ZenonT(30) DEF Loading, Orderly, Protocol
    <3>2. ASSUME EndsIn(inbox', Ends) PROVE FALSE
      <4>1. inbox' \in Seq(Messages) /\ inbox' # <<>>
        BY <1>1, <3>2 DEF TypeOK, EndsIn
      <4>2. Len(inbox') \in DOMAIN inbox'
        BY <4>1
      <4> QED BY <1>4, <3>2, <4>2, ZenonT(30) DEF EndsIn, NoneOf, Copies
    <3> QED BY <1>4, <3>1, <3>2, ZenonT(30)
  <2>2. /\ o.conn.tx = "idle" /\ Clean(o.conn.eng) /\ (o.conn.copy.loader => o.conn.copy.err)
        /\ o.conn.eng.committed \subseteq {"live"}
        /\ ~o.copyIn /\ (o.err \/ o.eom) /\ Sound(o)
    BY <1>2, <1>5, <1>7, CopyEnded, CopyEndSound, ZenonT(30) DEF Orderly, Session, Renewed
  <2>3. /\ conn' = o.conn /\ pc' = "receive" /\ client' = ReadySeen(client, o.err)
        /\ reply' # "none"
    BY <1>2, <1>3, <2>2, CopyAnswer
  <2>4. client' = "ready"
    BY <2>1, <2>3 DEF ReadySeen
  <2>5. Settles
    BY <2>2, <2>3, ZenonT(30) DEF Settles, BlockStep, Steady
  <2> QED BY <2>1, <2>2, <2>3, <2>4, <2>5, AnswerMove, ZenonT(30) DEF Turn, Settles
<1> QED BY <1>6, <1>7

(* The connection ends,                                                    *)
LEMMA CloseMove ==
    ASSUME Closed
    PROVE  Turn
<1>1. /\ conn' = NewConnection /\ pc' = "closed" /\ inbox' = <<>> /\ client' = "gone" /\ reply' = "none"
  BY DEF Closed
<1>2. /\ Steady(conn') /\ conn'.tx = "idle" /\ ~conn'.copy.loader /\ conn'.eng.committed = {}
  BY <1>1 DEF NewConnection, NewEngine, NoCopy, Steady, Clean
<1>3. \A S : NoneOf(inbox', S) /\ InOrder(inbox')
  BY <1>1 DEF NoneOf, InOrder
<1>4. Protocol' /\ InBatch'
  BY <1>1, <1>2, ZenonT(30) DEF Protocol, InBatch
<1>5. Session' /\ BlockStep
  BY <1>1, <1>2, <1>3 DEF Session, Loading, BlockStep
<1> QED BY <1>3, <1>4, <1>5 DEF Turn, Orderly

(* and another one is made.                                                *)
LEMMA AcceptMove ==
    ASSUME TypeOK, Orderly, Accept
    PROVE  Orderly'
<1>1. /\ pc = "closed" /\ pc' = "receive" /\ client' = "ready" /\ conn' = conn
      /\ inbox' = inbox /\ reply' = reply
  BY DEF Accept
<1>2. inbox = <<>> /\ ~Loading /\ ~Loading'
  BY <1>1 DEF Orderly, Protocol, Loading
<1>3. \A S : NoneOf(inbox', S) /\ InOrder(inbox')
  BY <1>1, <1>2 DEF NoneOf, InOrder
<1>4. conn.tx # "implicit"
  BY <1>1 DEF Orderly, Protocol, InBatch
<1>5. Protocol' /\ InBatch'
  BY <1>1, <1>3, <1>4 DEF Protocol, InBatch
<1>6. Session'
  BY <1>1, <1>2, <1>3, ZenonT(30) DEF Orderly, Session
<1> QED BY <1>3, <1>5, <1>6 DEF Orderly

(* The messages a client may send, and where that leaves it.               *)
LEMMA ClientSends ==
    ASSUME Client
    PROVE  \/ client = "aborted" /\ client' = "ready" /\ inbox' = inbox
           \/ \E m \in Messages :
                /\ inbox' = Append(inbox, m)
                /\ \/ /\ client = "ready" /\ client' = "waiting"
                      /\ m.type \in {"Query", "FunctionCall"}
                   \/ client = "ready" /\ client' = "gone" /\ m.type = "Terminate"
                   \/ client \in {"ready", "batch"} /\ client' = "batch" /\ m.type \in Batched
                   \/ client \in {"ready", "batch"} /\ client' = "synced" /\ m.type = "Sync"
                   \/ client = "copying" /\ client' = "copying" /\ m.type = "CopyData"
                   \/ client = "copying" /\ client' = "waiting" /\ m.type \in Ends
                   \/ client = "aborted" /\ client' = "ready" /\ m.type \in Ends
                   \/ client = "copyingX"
<1>1. \A t \in {"Sync", "CopyData", "CopyDone", "CopyFail", "Terminate", "FunctionCall"} :
        Plain(t) \in Messages /\ Plain(t).type = t
  BY DEF Plain, Messages
<1>2. CASE SendQuery
  <2>1. PICK q \in Scripts : Send([type |-> "Query", text |-> q], "waiting") /\ client = "ready"
    BY <1>2 DEF SendQuery
  <2>2. [type |-> "Query", text |-> q] \in Messages /\ [type |-> "Query", text |-> q].type = "Query"
    BY DEF Messages
  <2> QED BY <2>1, <2>2 DEF Send
<1>3. CASE SendExtended
  <2>1. PICK m \in Extended : Send(m, "batch") /\ client \in {"ready", "batch"}
    BY <1>3 DEF SendExtended
  <2>2. m \in Messages /\ m.type \in Batched
    BY InputAssumption DEF Messages, Extended, Batched
  <2> QED BY <2>1, <2>2 DEF Send
<1>4. CASE SendSync
  BY <1>1, <1>4 DEF SendSync, Send
<1>5. CASE SendCopyData
  BY <1>1, <1>5, ZenonT(30) DEF SendCopyData, Send
<1>6. CASE SendCopyEnd
  <2>1. PICK t \in CopyEnds : \/ client = "copying"  /\ Send(Plain(t), "waiting")
                              \/ client = "copyingX" /\ Send(Plain(t), "batch")
                              \/ client = "aborted"  /\ Send(Plain(t), "ready")
    BY <1>6 DEF SendCopyEnd
  <2>2. Plain(t) \in Messages /\ Plain(t).type \in Ends
    BY <1>1, InputAssumption DEF Ends
  <2> QED BY <2>1, <2>2 DEF Send
<1>7. CASE AbandonCopy
  BY <1>7 DEF AbandonCopy
<1>8. CASE SendFunctionCall \/ SendTerminate
  BY <1>1, <1>8, ZenonT(30) DEF SendFunctionCall, SendTerminate, Send
<1> QED BY <1>2, <1>3, <1>4, <1>5, <1>6, <1>7, <1>8, ZenonT(30) DEF Client

(* The client keeps the order.                                             *)
LEMMA ClientMove ==
    ASSUME TypeOK, Orderly, Client
    PROVE  Orderly'
<1>1. conn' = conn /\ pc' = pc /\ script' = script /\ reply' = reply
  BY ZenonT(30) DEF Client, SendQuery, SendExtended, SendSync, SendCopyData, SendCopyEnd, AbandonCopy,
         SendFunctionCall, SendTerminate, Send
<1>2. InOrder(inbox) /\ Protocol /\ InBatch /\ Session
  BY DEF Orderly
<1>3. CASE client = "aborted" /\ client' = "ready" /\ inbox' = inbox
  <2>1. Protocol' /\ InBatch'
    BY <1>1, <1>2, <1>3 DEF Protocol, InBatch
  <2>2. Session'
    BY <1>1, <1>2, <1>3, ZenonT(30) DEF Session, Loading
  <2> QED BY <1>2, <1>3, <2>1, <2>2, ZenonT(30) DEF Orderly
<1>4. ASSUME NEW m \in Messages, inbox' = Append(inbox, m)
      PROVE  /\ \A S : NoneOf(inbox', S) <=> NoneOf(inbox, S) /\ m.type \notin S
             /\ \A S : EndsIn(inbox', S) <=> m.type \in S
             /\ NoneOf(inbox, Closing) /\ (m.type \in Copies => NoneOf(inbox, Batched \cup Ends))
                  => InOrder(inbox')
  <2>1. inbox \in Seq(Messages)
    BY DEF TypeOK
  <2> QED BY <1>2, <1>4, <2>1, Sent, ZenonT(30)
<1>5. ASSUME NEW m \in Messages, inbox' = Append(inbox, m), client = "ready",
             \/ client' = "waiting" /\ m.type \in {"Query", "FunctionCall"}
             \/ client' = "gone" /\ m.type = "Terminate"
             \/ client' = "batch" /\ m.type \in Batched
             \/ client' = "synced" /\ m.type = "Sync"
      PROVE  Orderly'
  <2>1. /\ pc = "receive" /\ NoneOf(inbox, Closing) /\ NoneOf(inbox, Batched) /\ conn.tx # "implicit"
    BY <1>2, <1>5 DEF Protocol, InBatch, NoneOf
  <2>2. m.type \notin Copies
    BY <1>5 DEF Copies, Ends, Batched
  <2>3. InOrder(inbox') /\ (NoneOf(inbox, Copies) => NoneOf(inbox', Copies))
    BY <1>4, <1>5, <2>1, <2>2, ZenonT(30)
  <2>4. /\ m.type \notin Batched => NoneOf(inbox', Batched)
        /\ m.type \in Batched => NoneOf(inbox', Closing)
    BY <1>4, <1>5, <2>1, ZenonT(30) DEF Batched, Closing
  <2>5. Protocol'
    <3>1. CASE client' = "waiting" /\ m.type \in {"Query", "FunctionCall"}
      <4>1. EndsIn(inbox', {"Query", "FunctionCall"}) /\ m.type \notin Batched
        BY <1>4, <1>5, <3>1, ZenonT(30) DEF Batched
      <4> QED BY <1>1, <2>1, <2>4, <3>1, <4>1, ZenonT(30) DEF Protocol
    <3>2. CASE client' = "gone" /\ m.type = "Terminate"
      <4>1. EndsIn(inbox', {"Terminate"}) /\ m.type \notin Batched
        BY <1>4, <1>5, <3>2, ZenonT(30) DEF Batched
      <4> QED BY <1>1, <2>1, <2>4, <3>2, <4>1, ZenonT(30) DEF Protocol
    <3>3. CASE client' = "batch" /\ m.type \in Batched
      BY <1>1, <2>1, <2>4, <3>3, ZenonT(30) DEF Protocol
    <3>4. CASE client' = "synced" /\ m.type = "Sync"
      <4>1. EndsIn(inbox', {"Sync"})
        BY <1>4, <1>5, <3>4, ZenonT(30)
      <4> QED BY <1>1, <2>1, <3>4, <4>1, ZenonT(30) DEF Protocol
    <3> QED BY <1>5, <3>1, <3>2, <3>3, <3>4, ZenonT(30)
  <2>6. InBatch'
    BY <1>1, <2>1 DEF InBatch
  <2>7. ~Loading /\ ~Loading'
    <3>1. ~EndsIn(inbox', Ends)
      BY <1>4, <1>5, <2>2 DEF Copies
    <3> QED BY <1>5, <3>1 DEF Loading
  <2>8. Session'
    BY <1>1, <1>2, <1>5, <2>3, <2>7, ZenonT(30) DEF Session
  <2> QED BY <2>3, <2>5, <2>6, <2>8, ZenonT(30) DEF Orderly
<1>6. ASSUME NEW m \in Messages, inbox' = Append(inbox, m), client = "batch",
             \/ client' = "batch" /\ m.type \in Batched
             \/ client' = "synced" /\ m.type = "Sync"
      PROVE  Orderly'
  <2>1. pc \in {"receive", "discard"} /\ NoneOf(inbox, Closing)
    BY <1>2, <1>6 DEF Protocol
  <2>2. m.type \notin Copies
    BY <1>6 DEF Copies, Ends, Batched
  <2>3. InOrder(inbox') /\ (NoneOf(inbox, Copies) => NoneOf(inbox', Copies))
    BY <1>4, <1>6, <2>1, <2>2, ZenonT(30)
  <2>4. Protocol'
    <3>1. CASE client' = "batch" /\ m.type \in Batched
      <4>1. NoneOf(inbox', Closing)
        BY <1>4, <1>6, <2>1, <3>1, ZenonT(30) DEF Batched, Closing
      <4> QED BY <1>1, <2>1, <3>1, <4>1, ZenonT(30) DEF Protocol
    <3>2. CASE client' = "synced" /\ m.type = "Sync"
      <4>1. EndsIn(inbox', {"Sync"})
        BY <1>4, <1>6, <3>2, ZenonT(30)
      <4> QED BY <1>1, <2>1, <3>2, <4>1, ZenonT(30) DEF Protocol
    <3> QED BY <1>6, <3>1, <3>2, ZenonT(30)
  <2>5. InBatch'
    BY <1>1, <1>2, <1>6, <2>3, ZenonT(30) DEF InBatch
  <2>6. ~Loading /\ ~Loading'
    BY <1>6 DEF Loading
  <2>7. Session'
    BY <1>1, <1>2, <1>6, <2>3, <2>6, ZenonT(30) DEF Session
  <2> QED BY <2>3, <2>4, <2>5, <2>7 DEF Orderly
<1>7. ASSUME NEW m \in Messages, inbox' = Append(inbox, m),
             \/ client = "copying" /\ client' = "copying" /\ m.type = "CopyData"
             \/ client = "copying" /\ client' = "waiting" /\ m.type \in Ends
             \/ client = "aborted" /\ client' = "ready" /\ m.type \in Ends
      PROVE  Orderly'
  <2>1. /\ pc = "receive" /\ NoneOf(inbox, Closing \cup Batched) /\ NoneOf(inbox, Ends)
        /\ NoneOf(inbox, Closing) /\ NoneOf(inbox, Batched) /\ NoneOf(inbox, Batched \cup Ends)
    BY <1>2, <1>7 DEF Protocol, NoneOf
  <2>2. m.type \in Copies /\ m.type \notin Closing \cup Batched
    BY <1>7 DEF Copies, Ends, Closing, Batched
  <2>3. InOrder(inbox') /\ NoneOf(inbox', Closing \cup Batched) /\ NoneOf(inbox', Batched)
        /\ (m.type \notin Ends => NoneOf(inbox', Ends)) /\ (m.type \in Ends => EndsIn(inbox', Ends))
    BY <1>4, <1>7, <2>1, <2>2, ZenonT(30)
  <2>4. client = "copying" => Loading /\ Loading'
    BY <1>1, <1>7, <2>1, <2>3 DEF Loading
  <2>5. client = "aborted" => ~Loading /\ ~Loading'
    BY <1>7 DEF Loading
  <2>6. conn.tx # "implicit"
    BY <1>2, <1>7, <2>1, ZenonT(30) DEF InBatch
  <2>7. Protocol'
    BY <1>1, <1>7, <2>1, <2>3, ZenonT(30) DEF Protocol, Ends
  <2>8. InBatch'
    BY <1>1, <2>1, <2>6, ZenonT(30) DEF InBatch
  <2>9. Session'
    BY <1>1, <1>2, <1>7, <2>4, <2>5, ZenonT(30) DEF Session
  <2> QED BY <2>3, <2>7, <2>8, <2>9, ZenonT(30) DEF Orderly
<1>8. client # "copyingX"
  BY <1>2 DEF Protocol
<1> QED BY <1>3, <1>5, <1>6, <1>7, <1>8, ClientSends, ZenonT(30)

-----------------------------------------------------------------------------
(* The inductive invariant: types, order unless an irregular event         *)
(* happened on this connection, and no commit in an error.                 *)
HInv == IInv /\ (regular => Orderly) /\ ErrorCommitsNothing

(* A new connection is in order.                                           *)
LEMMA InitHInv == HistoryInit => HInv
<1> SUFFICES ASSUME HistoryInit PROVE HInv
  OBVIOUS
<1>1. IInv
  BY InitIInv DEF HistoryInit
<1>2. /\ conn = NewConnection /\ pc = "receive" /\ inbox = <<>> /\ client = "ready" /\ reply = "none"
  BY DEF HistoryInit, Init
<1>3. /\ Steady(conn) /\ conn.tx = "idle" /\ ~conn.copy.loader /\ conn.eng.committed = {}
  BY <1>2 DEF NewConnection, NewEngine, NoCopy, Steady, Clean
<1>4. \A S : NoneOf(inbox, S) /\ InOrder(inbox)
  BY <1>2 DEF NoneOf, InOrder
<1>5. Protocol /\ InBatch
  BY <1>2, <1>3, <1>4, ZenonT(30) DEF Protocol, InBatch
<1>6. Session
  BY <1>2, <1>3, <1>4 DEF Session, Loading
<1> QED BY <1>1, <1>2, <1>4, <1>5, <1>6 DEF HInv, Orderly, ErrorCommitsNothing

(* No message finds an orderly session with a transaction open under       *)
(* autocommit.                                                             *)
LEMMA OrderlyTidy ==
    ASSUME TypeOK, Orderly
    PROVE  ~Untidy
<1>1. Steady(conn) \/ InCopy(conn) \/ pc = "discard"
  BY DEF Orderly, Session
<1>2. conn \in Connection
  BY DEF TypeOK
<1> QED BY <1>1, <1>2, Tidy DEF Untidy

(* Every regular step of the server keeps the order and the open block.    *)
LEMMA ServerMove ==
    ASSUME "rollback" \notin Fails, TypeOK, Orderly, Server, ~Irregular
    PROVE  Turn
<1>1. CASE ReceiveQuery
  BY <1>1, QueryMove
<1>2. CASE ReceiveScript
  BY <1>2, ScriptMove
<1>3. CASE RunStatement
  BY <1>3, StatementMove
<1>4. CASE ReceiveParse \/ ReceiveBind \/ ReceiveDescribe \/ ReceiveClose \/ ReceiveFlush
  BY <1>4, ExtendedMove, ZenonT(30)
<1>5. CASE ReceiveExecute
  BY <1>5, ExecuteMove
<1>6. CASE ReceiveSync
  BY <1>6, SyncMove
<1>7. CASE Discard
  BY <1>7, DiscardMove
<1>8. CASE ReceiveCopyData
  BY <1>8, CopyDataMove
<1>9. CASE ReceiveCopyDone \/ ReceiveCopyFail
  BY <1>9, CopyEndMove
<1>10. CASE ReceiveFunctionCall
  BY <1>10, FunctionCallMove
<1>11. CASE ReceiveTerminate
  BY <1>11, CloseMove DEF ReceiveTerminate
<1> QED BY <1>1, <1>2, <1>3, <1>4, <1>5, <1>6, <1>7, <1>8, <1>9, <1>10, <1>11, ZenonT(30) DEF Server

(* Every step keeps the invariant, and every regular one the open block.   *)
LEMMA NextHInv ==
    ASSUME "rollback" \notin Fails, HInv, [HistoryNext]_<<vars, regular>>
    PROVE  HInv' /\ (regular' => BlockStep \/ UNCHANGED <<conn, regular>>)
<1>1. IInv'
  <2>1. [Next]_vars
    BY DEF HistoryNext, HistoryServer, Next
  <2> QED BY <2>1, NextIInv DEF HInv
<1>2. TypeOK
  BY DEF HInv, IInv
<1>3. ErrorCommitsNothing'
  <2>1. CASE HistoryServer
    <3>1. Server /\ IInv /\ ~Untidy
      BY <1>2, <2>1, OrderlyTidy DEF HInv, HistoryServer
    <3> QED BY <3>1, ServerStep DEF ErrorStep, ErrorCommitsNothing
  <2>2. CASE Lose
    BY <2>2 DEF Lose, Closed, ErrorCommitsNothing
  <2>3. CASE UNCHANGED <<conn, reply>>
    BY <2>3 DEF HInv, ErrorCommitsNothing
  <2>4. Client \/ Accept \/ UNCHANGED <<vars, regular>> => UNCHANGED <<conn, reply>>
    BY ZenonT(30) DEF Client, SendQuery, SendExtended, SendSync, SendCopyData, SendCopyEnd, AbandonCopy,
                SendFunctionCall, SendTerminate, Send, Accept, vars
  <2> QED BY <2>1, <2>2, <2>3, <2>4 DEF HistoryNext
<1>4. CASE HistoryServer
  <2>1. regular /\ Server /\ (regular' => ~Irregular)
    BY <1>4, ZenonT(30) DEF HistoryServer
  <2>2. regular' => Turn
    BY <1>2, <2>1, ServerMove DEF HInv
  <2> QED BY <1>1, <1>3, <2>2 DEF HInv, Turn
<1>5. CASE regular /\ Client /\ UNCHANGED regular
  <2>1. Orderly'
    BY <1>2, <1>5, ClientMove DEF HInv
  <2>2. conn' = conn
    BY <1>5, ZenonT(30) DEF Client, SendQuery, SendExtended, SendSync, SendCopyData, SendCopyEnd, AbandonCopy,
                SendFunctionCall, SendTerminate, Send
  <2> QED BY <1>1, <1>5, <1>3, <2>1, <2>2, ZenonT(30) DEF HInv
<1>6. CASE Lose /\ regular' = TRUE
  BY <1>1, <1>6, <1>3, CloseMove, ZenonT(30) DEF HInv, Turn, Lose
<1>7. CASE Accept /\ UNCHANGED regular
  <2>1. regular' => Orderly'
    BY <1>2, <1>7, AcceptMove, ZenonT(30) DEF HInv
  <2> QED BY <1>1, <1>7, <1>3, <2>1 DEF HInv, Accept
<1>8. CASE UNCHANGED <<vars, regular>>
  <2>1. Orderly => Orderly'
    BY <1>8, ZenonT(30) DEF vars, Orderly, Protocol, InBatch, Session, Loading
  <2> QED BY <1>1, <1>8, <1>3, <2>1 DEF HInv, vars
<1> QED BY <1>4, <1>5, <1>6, <1>7, <1>8, ZenonT(30) DEF HistoryNext

(* What the order of the session means for a client and its work.          *)
LEMMA OrderlyMeans ==
    ASSUME TypeOK, Orderly
    PROVE  DoomedNeverCommits /\ IdleIsAutoCommit /\ ImplicitEndsAtReady /\ NoStrayReady
           /\ NotReadyInCopyMode
<1>1. DoomedNeverCommits /\ ImplicitEndsAtReady /\ NoStrayReady
  BY ZenonT(30) DEF Orderly, Session, Protocol, DoomedNeverCommits, ImplicitEndsAtReady, NoStrayReady
<1>2. IdleIsAutoCommit
  <2> SUFFICES ASSUME pc = "receive", conn.tx = "idle", conn.copy.on => conn.copy.err
               PROVE  ~conn.eng.noAuto /\ conn.eng.pending = {}
    BY DEF IdleIsAutoCommit
  <2>1. ~Loading
    BY DEF Orderly, Session, InCopy
  <2> QED BY <2>1 DEF Orderly, Session, Steady, Clean
<1>3. NotReadyInCopyMode
  BY DEF Orderly, Session, NotReadyInCopyMode
<1> QED BY <1>1, <1>2, <1>3

(* HInv holds throughout.  A ROLLBACK the engine refuses is excluded: the  *)
(* handler that ignores it has no way to be rid of the doomed work.        *)
THEOREM HistoryInvariance ==
    ASSUME "rollback" \notin Fails
    PROVE  HistorySpec => []HInv
<1>1. HInv /\ [HistoryNext]_<<vars, regular>> => HInv'
  BY NextHInv
<1> QED BY <1>1, InitHInv, PTL DEF HistorySpec

(* The step that answers with an error has committed nothing: the          *)
(* autocommit of the last statement, the commit of the implicit block and  *)
(* the commits of COPY come after everything in it that can fail.  The     *)
(* irregular step itself is included.                                      *)
THEOREM ErrorsCommitNothing ==
    ASSUME "rollback" \notin Fails
    PROVE  HistorySpec => []ErrorCommitsNothing
<1>1. HInv => ErrorCommitsNothing
  BY DEF HInv
<1> QED BY <1>1, HistoryInvariance, PTL

(* Until an irregular event, work of a block whose client was sent an      *)
(* error is never committed, whatever follows (endOfMessages marks the     *)
(* block failed or rolls the implicit one back).                           *)
THEOREM DoomedWorkIsNeverCommitted ==
    ASSUME "rollback" \notin Fails
    PROVE  HistorySpec => []RegularDoomedNeverCommits
<1>1. HInv => RegularDoomedNeverCommits
  BY OrderlyMeans DEF HInv, IInv, RegularDoomedNeverCommits
<1> QED BY <1>1, HistoryInvariance, PTL

(* Between messages, outside blocks and COPY, the session is back in       *)
(* autocommit and no work is left uncommitted.                             *)
THEOREM IdleSessionsAutoCommit ==
    ASSUME "rollback" \notin Fails
    PROVE  HistorySpec => []RegularIdleIsAutoCommit
<1>1. HInv => RegularIdleIsAutoCommit
  BY OrderlyMeans DEF HInv, IInv, RegularIdleIsAutoCommit
<1> QED BY <1>1, HistoryInvariance, PTL

(* ReadyForQuery, in success and in error, finds the implicit block ended. *)
THEOREM ImplicitBlocksEndAtReady ==
    ASSUME "rollback" \notin Fails
    PROVE  HistorySpec => []RegularImplicitEndsAtReady
<1>1. HInv => RegularImplicitEndsAtReady
  BY OrderlyMeans DEF HInv, IInv, RegularImplicitEndsAtReady
<1> QED BY <1>1, HistoryInvariance, PTL

(* endOfMessages sends ReadyForQuery only to a client that waits for it,   *)
(* pipelined messages and failed COPYs included.                           *)
THEOREM ReadyIsAwaited ==
    ASSUME "rollback" \notin Fails
    PROVE  HistorySpec => []RegularNoStrayReady
<1>1. HInv => RegularNoStrayReady
  BY OrderlyMeans DEF HInv, IInv, RegularNoStrayReady
<1> QED BY <1>1, HistoryInvariance, PTL

(* The server never reports itself ready while a COPY with rows loaded and *)
(* no error is open.                                                       *)
THEOREM NeverReadyInCopy ==
    ASSUME "rollback" \notin Fails
    PROVE  HistorySpec => []RegularNotReadyInCopyMode
<1>1. HInv => RegularNotReadyInCopyMode
  BY OrderlyMeans DEF HInv, IInv, RegularNotReadyInCopyMode
<1> QED BY <1>1, HistoryInvariance, PTL

(* A client that waits for ReadyForQuery never waits for a server that     *)
(* waits for it: the statement, the Sync or the end of COPY data that it   *)
(* is the answer to is still being worked on or still to be read.          *)
THEOREM AnswerIsDue ==
    ASSUME "rollback" \notin Fails
    PROVE  HistorySpec => []RegularAnswerIsDue
<1>1. HInv => RegularAnswerIsDue
  BY DEF HInv, Orderly, Protocol, EndsIn, Ends, RegularAnswerIsDue
<1> QED BY <1>1, HistoryInvariance, PTL

(* While a block stays open, no statement commits anything of it.          *)
THEOREM OpenBlocksCommitNothing ==
    ASSUME "rollback" \notin Fails
    PROVE  HistorySpec => RegularOpenBlockCommitsNothing
<1>1. HInv /\ [HistoryNext]_<<vars, regular>>
        => [regular' /\ conn.tx # "idle" /\ conn'.tx # "idle" => conn'.eng.committed = {}]_<<conn, regular>>
  BY NextHInv DEF BlockStep
<1> QED BY <1>1, HistoryInvariance, PTL DEF HistorySpec, RegularOpenBlockCommitsNothing

(* While a block stays failed, no statement adds to its work.              *)
THEOREM FailedBlocksAreFrozen ==
    ASSUME "rollback" \notin Fails
    PROVE  HistorySpec => RegularFailedBlockIsFrozen
<1>1. HInv /\ [HistoryNext]_<<vars, regular>>
        => [regular' /\ conn.tx = "failed" /\ conn'.tx = "failed"
              => conn'.eng.pending = conn.eng.pending]_<<conn, regular>>
  BY NextHInv DEF BlockStep
<1> QED BY <1>1, HistoryInvariance, PTL DEF HistorySpec, RegularFailedBlockIsFrozen

=============================================================================
