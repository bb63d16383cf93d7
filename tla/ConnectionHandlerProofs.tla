----------------------- MODULE ConnectionHandlerProofs -----------------------
(***************************************************************************)
(* Proofs about ConnectionHandler for every script, client and failure:    *)
(* type correctness, and that an error answer never follows a commit in    *)
(* the same step.  The argument goes from the engine's operators over the  *)
(* outcomes of a statement (Sound) to the actions.                         *)
(*                                                                         *)
(* Before that, what a statement makes of the engine session in each block *)
(* state as long as the engine's ROLLBACK succeeds (Steady, Proper); the   *)
(* theorems of ConnectionHistoryProofs rest on this part.                  *)
(***************************************************************************)
EXTENDS ConnectionHandler, TLAPS

-----------------------------------------------------------------------------
(* The engine and the connection.                                         *)

(* The engine operators keep the engine session well-typed, and only those *)
(* that end the transaction commit.                                        *)
LEMMA EngineOperators ==
    ASSUME NEW e \in Engine
    PROVE  /\ Dropped(e) \in Engine /\ Dropped(e).committed = e.committed /\ ~Dropped(e).tran
           /\ Committed(e) \in Engine /\ ~Committed(e).tran
           /\ Doomed(e) \in Engine /\ Doomed(e).committed = e.committed
           /\ Doomed(e).tran = e.tran
BY ZenonT(30) DEF Engine, Dropped, Committed, Doomed, Work

(* COMMIT and ROLLBACK of the engine: only a COMMIT that succeeds commits. *)
LEMMA EngineControl ==
    ASSUME NEW e \in Engine, NEW ok \in BOOLEAN
    PROVE  /\ EngineRollback(e, ok) \in Engine /\ EngineRollback(e, ok).committed = e.committed
           /\ EngineCommit(e, ok) \in Engine
           /\ ok => ~EngineCommit(e, ok).tran
           /\ ~ok => EngineCommit(e, ok).committed = e.committed
BY ZenonT(30) DEF Engine, Dropped, Committed, Doomed, Work, EngineRollback, EngineCommit

(* A statement that fails commits nothing.                                 *)
LEMMA EngineStatement ==
    ASSUME NEW e \in Engine, NEW w \in SUBSET Work, e.committed = {}
    PROVE  /\ StatementDone(e, w) \in Engine
           /\ StatementDone(e, w).committed # {} => ~StatementDone(e, w).tran
           /\ \A f \in StatementFailed(e) : f \in Engine /\ f.committed = {}
<1> DEFINE b == [e EXCEPT !.tran = TRUE, !.pending = @ \cup w]
<1>1. b \in Engine /\ b.committed = {}
  BY ZenonT(30) DEF Engine
<1>2. Settled(b) \in Engine /\ (Settled(b).committed # {} => ~Settled(b).tran)
  <2> HIDE DEF b
  <2>1. CASE b.noAuto
    BY <1>1, <2>1 DEF Settled
  <2>2. CASE ~b.noAuto
    BY <1>1, <2>2, EngineOperators DEF Settled
  <2> QED BY <2>1, <2>2
<1>3. \A f \in StatementFailed(e) : f \in Engine /\ f.committed = {}
  <2>1. [e EXCEPT !.tran = TRUE] \in Engine /\ [e EXCEPT !.tran = TRUE].committed = {}
    BY ZenonT(30) DEF Engine
  <2>2. Dropped(e) \in Engine /\ Dropped(e).committed = {}
    BY EngineOperators
  <2> QED BY <2>1, <2>2, ZenonT(30) DEF StatementFailed
<1> QED BY <1>2, <1>3 DEF StatementDone

(* Replacing the engine session of a connection leaves a connection.       *)
LEMMA WithEngine ==
    ASSUME NEW c \in Connection, NEW f \in Engine
    PROVE  [c EXCEPT !.eng = f] \in Connection /\ [c EXCEPT !.eng = f].eng = f
BY DEF Connection

(* What the handler changes before it passes a statement on commits        *)
(* nothing.                                                                *)
LEMMA Passing ==
    ASSUME NEW c \in Connection, NEW s
    PROVE  /\ PassedOn(c, s) \in Connection /\ PassedOn(c, s).eng = c.eng
           /\ startImplicitTransaction(c, s) \in Connection
           /\ startImplicitTransaction(c, s).eng.committed = c.eng.committed
BY ZenonT(30) DEF Connection, TxStates, Engine, PassedOn, startImplicitTransaction

-----------------------------------------------------------------------------
(* The engine session in each block state: outside blocks; in an implicit  *)
(* block; in an explicit one; in one with an error not yet reported; and   *)
(* in a failed one.                                                        *)
Clean(e) == ~e.tran /\ ~e.noAuto /\ e.pending = {} /\ e.saved = {}

Gathering(e) ==
    e.noAuto /\ e.pending \subseteq {"live"} /\ e.saved = {} /\ (~e.tran => e.pending = {})

Open(e) == e.noAuto /\ e.pending \subseteq {"live"} /\ e.saved \subseteq SUBSET {"live"}

Lost(e) == e.saved \subseteq SUBSET {"live"} /\ (~e.noAuto => Clean(e))

Broken(e) == Lost(e) /\ e.pending \subseteq {"doomed"}

(* Between messages, and from an error to its report.                      *)
Steady(c) ==
    /\ c.tx = "idle" => Clean(c.eng)
    /\ c.tx = "implicit" => Gathering(c.eng)
    /\ c.tx = "explicit" => Open(c.eng)
    /\ c.tx = "failed" => Broken(c.eng)

Erring(c) ==
    /\ c.tx = "idle" => Clean(c.eng)
    /\ c.tx = "implicit" => c.eng.saved = {} /\ (~c.eng.tran => c.eng.pending = {})
    /\ c.tx = "explicit" => Lost(c.eng)
    /\ c.tx = "failed" => Broken(c.eng)

(* While COPY data is loaded.                                              *)
InCopy(c) ==
    /\ c.tx = "idle" /\ c.copy.on /\ ~c.copy.err
    /\ \/ Clean(c.eng) /\ ~c.copy.loader /\ ~c.copy.started
       \/ /\ c.copy.loader /\ c.copy.started /\ c.eng.tran /\ c.eng.noAuto
          /\ c.eng.pending \subseteq {"live"} /\ c.eng.saved = {}

-----------------------------------------------------------------------------
(* The engine.                                                             *)

(* The end of a transaction leaves a clean session.                        *)
LEMMA Ending ==
    ASSUME NEW e \in Engine
    PROVE  /\ Clean(EngineCommit(e, TRUE))
           /\ EngineCommit(e, TRUE).committed = e.committed \cup e.pending
           /\ Clean(EngineRollback(e, TRUE))
           /\ EngineRollback(e, TRUE).committed = e.committed
           /\ EngineRollback(EngineCommit(e, FALSE), TRUE) = EngineRollback(e, TRUE)
  BY ZenonT(30) DEF Engine, Clean, EngineCommit, EngineRollback, Committed, Dropped, Doomed

(* BEGIN opens a block, and commits nothing where there is nothing to.     *)
LEMMA Beginning ==
    ASSUME NEW e \in Engine, NEW f \in EngineBegin(e)
    PROVE  f \in Engine /\ Open(f) /\ (e.pending = {} => f.committed = e.committed)
<1>1. PICK g \in {Dropped(e), Committed(e)} : f = [g EXCEPT !.tran = TRUE, !.noAuto = TRUE]
  BY DEF EngineBegin
<1>2. /\ g \in Engine /\ g.pending = {} /\ g.saved = {}
      /\ (e.pending = {} => g.committed = e.committed)
  <2>1. CASE g = Dropped(e)
    BY <2>1, EngineOperators DEF Dropped, Engine
  <2>2. CASE g = Committed(e)
    <3>1. /\ Dropped(e) \in Engine /\ Dropped(e).committed = e.committed
          /\ Dropped(e).pending = {} /\ Dropped(e).saved = {}
      BY EngineOperators DEF Dropped, Engine
    <3>2. Committed(e) \in Engine
      BY EngineOperators
    <3> QED BY <2>2, <3>1, <3>2 DEF Committed, Engine
  <2> QED BY <2>1, <2>2
<1>3. f \in Engine
  BY <1>1, <1>2, ZenonT(30) DEF Engine
<1> QED BY <1>1, <1>2, <1>3 DEF Open, Engine

(* An error dooms the work of a block and leaves the rest of it.           *)
LEMMA Dooming ==
    ASSUME NEW e \in Engine
    PROVE  /\ Doomed(e).tran = e.tran /\ Doomed(e).noAuto = e.noAuto
           /\ Doomed(e).saved = e.saved /\ Doomed(e).committed = e.committed
           /\ Doomed(e).pending \subseteq {"doomed"}
           /\ (e.pending = {} <=> Doomed(e).pending = {})
           /\ e.pending \subseteq {"doomed"} => Doomed(e).pending = e.pending
  BY DEF Engine, Doomed

(* A statement in a block ends nothing, whether it succeeds or fails.      *)
LEMMA InBlock ==
    ASSUME NEW e \in Engine, e.noAuto, e.committed = {},
           NEW s \in {"savepoint", "rollbackTo", "release", "work", "do"}
    PROVE  /\ \A f \in EngineSucceeds(e, s) :
                /\ f.noAuto /\ f.committed = {}
                /\ Open(e) => Open(f)
                /\ Gathering(e) /\ s \in {"work", "do"} => Gathering(f)
                /\ Broken(e) /\ s = "rollbackTo" => Open(f)
           /\ \A f \in EngineFails(e, s) \cup EnginePanics(e, s) :
                /\ f.noAuto /\ f.committed = {} /\ f.tran
                /\ f.pending = e.pending /\ f.saved = e.saved
<1>1. ASSUME NEW f \in EngineSucceeds(e, s)
      PROVE  /\ f.noAuto /\ f.committed = {}
             /\ Open(e) => Open(f)
             /\ Gathering(e) /\ s \in {"work", "do"} => Gathering(f)
             /\ Broken(e) /\ s = "rollbackTo" => Open(f)
  <2>1. CASE s = "savepoint"
    <3>1. f = [e EXCEPT !.tran = TRUE, !.saved = {e.pending}]
      BY <2>1 DEF EngineSucceeds, Settled, Engine
    <3>2. f.noAuto /\ f.committed = {} /\ f.pending = e.pending /\ f.saved = {e.pending}
      BY <3>1 DEF Engine
    <3> QED BY <2>1, <3>2 DEF Open
  <2>2. CASE s = "rollbackTo"
    <3>1. PICK p \in e.saved : f = [e EXCEPT !.pending = p]
      BY <2>2 DEF EngineSucceeds, Settled, Engine
    <3>2. f.noAuto /\ f.committed = {} /\ f.pending \in e.saved /\ f.saved = e.saved
      BY <3>1 DEF Engine
    <3> QED BY <2>2, <3>2 DEF Open, Broken, Lost
  <2>3. CASE s = "release"
    <3>1. f = [e EXCEPT !.saved = {}]
      BY <2>3 DEF EngineSucceeds, Settled, Engine
    <3> QED BY <2>3, <3>1 DEF Open, Engine
  <2>4. CASE s \in {"work", "do"}
    <3>1. f = [e EXCEPT !.tran = TRUE, !.pending = @ \cup {"live"}]
      BY <2>4 DEF EngineSucceeds, StatementDone, Settled, Engine
    <3> QED BY <2>4, <3>1 DEF Open, Gathering, Engine
  <2> QED BY <2>1, <2>2, <2>3, <2>4
<1>2. ASSUME NEW f \in EngineFails(e, s) \cup EnginePanics(e, s)
      PROVE  /\ f.noAuto /\ f.committed = {} /\ f.tran
             /\ f.pending = e.pending /\ f.saved = e.saved
  <2>1. f = [e EXCEPT !.tran = TRUE]
    BY <1>2, ZenonT(30) DEF EngineFails, EnginePanics, StatementFailed
  <2> QED BY <2>1 DEF Engine
<1> QED BY <1>1, <1>2

(* Under autocommit a statement commits its work and all before it, or     *)
(* fails and commits nothing; from a clean session it leaves a clean one.  *)
LEMMA AutoCommitted ==
    ASSUME NEW e \in Engine, ~e.noAuto, e.committed = {}, e.saved = {},
           e.pending \subseteq {"live"}, NEW s \in {"work", "do", "call"}
    PROVE  /\ \A f \in EngineSucceeds(e, s) : Clean(f) /\ f.committed \subseteq {"live"}
           /\ \A f \in EngineFails(e, s) \cup EnginePanics(e, s) :
                /\ ~f.noAuto /\ f.committed = {} /\ f.saved = {} /\ (~f.tran => f.pending = {})
                /\ Clean(e) => Clean(f)
<1>1. ASSUME NEW f \in EngineSucceeds(e, s)
      PROVE  Clean(f) /\ f.committed \subseteq {"live"}
  <2>1. CASE s \in {"work", "do"}
    <3>1. f = Committed([e EXCEPT !.tran = TRUE, !.pending = @ \cup {"live"}])
      BY <2>1 DEF EngineSucceeds, StatementDone, Settled, Engine
    <3> QED BY <3>1 DEF Committed, Dropped, Clean, Engine
  <2>2. CASE s = "call"
    <3>1. f = Committed([e EXCEPT !.pending = @ \cup {"live"}])
      BY <2>2 DEF EngineSucceeds
    <3> QED BY <3>1 DEF Committed, Dropped, Clean, Engine
  <2> QED BY <2>1, <2>2
<1>2. ASSUME NEW f \in EngineFails(e, s) \cup EnginePanics(e, s)
      PROVE  /\ ~f.noAuto /\ f.committed = {} /\ f.saved = {} /\ (~f.tran => f.pending = {})
             /\ Clean(e) => Clean(f)
  <2>1. f = Dropped(e) \/ (e.tran /\ f = e)
    BY <1>2, ZenonT(30) DEF EngineFails, EnginePanics, StatementFailed
  <2> QED BY <2>1, ZenonT(30) DEF Dropped, Clean, Engine
<1> QED BY <1>1, <1>2

(* ROLLBACK TO in a failed block that has no transaction.                  *)
LEMMA NothingSaved ==
    ASSUME NEW e \in Engine, Clean(e), e.committed = {}
    PROVE  /\ EngineSucceeds(e, "rollbackTo") = {}
           /\ \A f \in EngineFails(e, "rollbackTo") \cup EnginePanics(e, "rollbackTo") :
                Clean(f) /\ f.committed = {}
<1>1. EngineSucceeds(e, "rollbackTo") = {}
  BY DEF EngineSucceeds, Clean
<1>2. ASSUME NEW f \in EngineFails(e, "rollbackTo") \cup EnginePanics(e, "rollbackTo")
      PROVE  Clean(f) /\ f.committed = {}
  <2>1. e.saved = {} /\ ~e.noAuto
    BY DEF Clean
  <2>2. f = Dropped(e) \/ f = e
    BY <1>2, <2>1, ZenonT(30) DEF EngineFails, EnginePanics, StatementFailed
  <2> QED BY <2>2, ZenonT(30) DEF Dropped, Engine, Clean
<1> QED BY <1>1, <1>2

(* COPY TO is a statement without work.                                    *)
LEMMA Reading ==
    ASSUME NEW e \in Engine, e.committed = {}
    PROVE  /\ e.noAuto => /\ StatementDone(e, {}) = [e EXCEPT !.tran = TRUE]
                          /\ StatementFailed(e) = {[e EXCEPT !.tran = TRUE]}
           /\ Clean(e) => /\ Clean(StatementDone(e, {})) /\ StatementDone(e, {}).committed = {}
                          /\ \A f \in StatementFailed(e) : Clean(f) /\ f.committed = {}
<1>1. CASE e.noAuto
  BY <1>1, ZenonT(30) DEF Engine, Clean, StatementDone, StatementFailed, Settled
<1>2. CASE Clean(e)
  <2>1. StatementDone(e, {}) = Committed([e EXCEPT !.tran = TRUE, !.pending = @ \cup {}])
    BY <1>2 DEF StatementDone, Settled, Clean, Engine
  <2>2. \A f \in StatementFailed(e) : f = Dropped(e)
    BY <1>2, ZenonT(30) DEF StatementFailed, Clean
  <2>3. Clean(Dropped(e)) /\ Dropped(e).committed = {}
    BY <1>2 DEF Dropped, Clean, Engine
  <2>4. Clean(StatementDone(e, {})) /\ StatementDone(e, {}).committed = {}
    BY <1>2, <2>1, ZenonT(30) DEF Committed, Dropped, Clean, Engine
  <2> QED BY <1>2, <2>2, <2>3, <2>4 DEF Clean
<1> QED BY <1>1, <1>2

-----------------------------------------------------------------------------
(* A statement.                                                            *)

(* An error changes nothing that was steady, until it is reported.         *)
LEMMA SteadyErring ==
    ASSUME NEW c, Steady(c)
    PROVE  Erring(c)
  BY DEF Steady, Erring, Gathering, Open, Lost

(* Neither a steady connection nor one that loads COPY data has a          *)
(* transaction open under autocommit.                                      *)
LEMMA Tidy ==
    ASSUME NEW c \in Connection, Steady(c) \/ InCopy(c)
    PROVE  ~(c.eng.tran /\ ~c.eng.noAuto)
<1>1. c.tx \in TxStates
  BY DEF Connection
<1> QED BY <1>1 DEF Steady, InCopy, Clean, Gathering, Open, Broken, Lost, TxStates

(* What a statement run on the connection c may come to: nothing doomed is *)
(* committed, nothing at all in an error or while the block stays open,    *)
(* and a failed block that stays failed holds what it held.                *)
Proper(c, o) ==
    /\ o.err => Erring(o.conn) /\ o.conn.eng.committed = {}
    /\ ~o.err => Steady(o.conn)
    /\ o.conn.eng.committed \subseteq {"live"}
    /\ c.tx # "idle" /\ o.conn.tx # "idle" => o.conn.eng.committed = {}
    /\ c.tx = "failed" /\ o.conn.tx # "idle" /\ (o.err \/ o.conn.tx = "failed")
         => o.conn.eng.pending = c.eng.pending
    /\ o.conn.copy = c.copy /\ o.conn.waitForSync = c.waitForSync /\ ~o.copyIn

(* The fields of a connection whose block state and session are replaced.  *)
LEMMA Replaced ==
    ASSUME NEW c \in Connection, NEW t, NEW f
    PROVE  /\ [c EXCEPT !.tx = t, !.eng = f].tx = t /\ [c EXCEPT !.tx = t, !.eng = f].eng = f
           /\ [c EXCEPT !.tx = t, !.eng = f].copy = c.copy
           /\ [c EXCEPT !.tx = t, !.eng = f].waitForSync = c.waitForSync
           /\ [c EXCEPT !.tx = t].tx = t /\ [c EXCEPT !.tx = t].eng = c.eng
           /\ [c EXCEPT !.tx = t].copy = c.copy /\ [c EXCEPT !.tx = t].waitForSync = c.waitForSync
           /\ [c EXCEPT !.eng = f].tx = c.tx /\ [c EXCEPT !.eng = f].eng = f
           /\ [c EXCEPT !.eng = f].copy = c.copy /\ [c EXCEPT !.eng = f].waitForSync = c.waitForSync
  BY DEF Connection

(* The fields of an outcome.                                               *)
LEMMA Made ==
    ASSUME NEW d
    PROVE  /\ Done(d).conn = d /\ ~Done(d).err /\ Done(d).eom /\ ~Done(d).copyIn
           /\ Error(d).conn = d /\ Error(d).err /\ Error(d).eom /\ ~Error(d).copyIn
           /\ More(Error(d)).conn = d /\ More(Error(d)).err /\ ~More(Error(d)).eom
           /\ ~More(Error(d)).copyIn
           /\ More(Done(d)).conn = d /\ ~More(Done(d)).err /\ ~More(Done(d)).eom
           /\ ~More(Done(d)).copyIn
  BY DEF Done, Error, More

(* The engine changes its session only.                                    *)
LEMMA InEngineOutcome ==
    ASSUME NEW c \in Connection, NEW s, NEW o \in InEngine(c, s)
    PROVE  /\ o.conn.tx = c.tx /\ o.conn.copy = c.copy /\ o.conn.waitForSync = c.waitForSync
           /\ ~o.copyIn /\ o.err \in BOOLEAN
           /\ ~o.err => o.conn.eng \in EngineSucceeds(c.eng, s)
           /\ o.err => o.conn.eng \in EngineFails(c.eng, s) \cup EnginePanics(c.eng, s)
<1> DEFINE D(f) == [c EXCEPT !.eng = f]
<1>1. \A f : D(f).tx = c.tx /\ D(f).copy = c.copy /\ D(f).waitForSync = c.waitForSync /\ D(f).eng = f
  BY Replaced
<1>2. \/ \E f \in EngineSucceeds(c.eng, s) : o = Done(D(f))
      \/ \E f \in EngineFails(c.eng, s) : o = Error(D(f))
      \/ \E f \in EnginePanics(c.eng, s) : o = More(Error(D(f)))
  BY ZenonT(30) DEF InEngine
<1> HIDE DEF D
<1>3. ASSUME NEW f \in EngineSucceeds(c.eng, s), o = Done(D(f))
      PROVE  o.conn = D(f) /\ ~o.copyIn /\ o.err = FALSE
  BY <1>3 DEF Done
<1>4. ASSUME NEW f, o = Error(D(f)) \/ o = More(Error(D(f)))
      PROVE  o.conn = D(f) /\ ~o.copyIn /\ o.err = TRUE
  BY <1>4 DEF Error, More
<1>5. CASE \E f \in EngineSucceeds(c.eng, s) : o = Done(D(f))
  BY <1>1, <1>3, <1>5, ZenonT(30)
<1>6. CASE \E f \in EngineFails(c.eng, s) \cup EnginePanics(c.eng, s) :
               o = Error(D(f)) \/ o = More(Error(D(f)))
  BY <1>1, <1>4, <1>6, ZenonT(30)
<1> QED BY <1>2, <1>5, <1>6

(* A statement passed on to the engine.                                    *)
LEMMA PassedProper ==
    ASSUME NEW c \in Connection, Steady(c), c.eng.committed = {},
           NEW s \in EngineStatements, ~Handled(c, s), ~Rejected(c, s),
           s = "call" => c.tx = "idle",
           NEW o \in InEngine(PassedOn(c, s), s), o.err => s \notin {"commit", "rollback"}
    PROVE  Proper(c, o) /\ (c.tx # "implicit" => o.conn.tx # "implicit")
<1> DEFINE d == PassedOn(c, s)
           e == c.eng
           f == o.conn.eng
<1>1. /\ d \in Connection /\ d.eng = e /\ e \in Engine /\ c.tx \in TxStates
      /\ d.copy = c.copy /\ d.waitForSync = c.waitForSync
      /\ s \in {"begin", "rollbackTo"} => d.tx = "explicit"
      /\ s \in {"commit", "rollback"} => d.tx = "idle"
      /\ s \notin {"begin", "rollbackTo", "commit", "rollback"} => d.tx = c.tx
  <2>1. d \in Connection /\ d.eng = e
    BY Passing
  <2>2. \A t : [c EXCEPT !.tx = t].tx = t /\ [c EXCEPT !.tx = t].copy = c.copy
               /\ [c EXCEPT !.tx = t].waitForSync = c.waitForSync
    BY Replaced
  <2> QED BY <2>1, <2>2 DEF PassedOn, Connection
<1>2. /\ o.conn.tx = d.tx /\ o.conn.copy = c.copy /\ o.conn.waitForSync = c.waitForSync
      /\ ~o.copyIn /\ o.err \in BOOLEAN
      /\ ~o.err => f \in EngineSucceeds(e, s)
      /\ o.err => f \in EngineFails(e, s) \cup EnginePanics(e, s)
  BY <1>1, InEngineOutcome
<1> HIDE DEF d
<1>3. CASE s = "begin"
  <2>1. c.tx = "idle" /\ d.tx = "explicit" /\ Clean(e)
    BY <1>1, <1>3 DEF Handled, Rejected, Steady, TxStates
  <2>2. ~o.err => Open(f) /\ f.committed = {}
    <3>1. ~o.err => f \in EngineBegin(e)
      BY <1>2, <1>3, ZenonT(30) DEF EngineSucceeds
    <3> QED BY <1>1, <2>1, <3>1, Beginning DEF Clean
  <2>3. o.err => f = e
    BY <1>2, <1>3, ZenonT(30) DEF EngineFails, EnginePanics
  <2>4. Lost(e)
    BY <2>1 DEF Clean, Lost
  <2> QED BY <1>2, <2>1, <2>2, <2>3, <2>4 DEF Proper, Steady, Erring
<1>4. CASE s \in {"commit", "rollback"}
  <2>1. s = "commit" => e.pending \subseteq {"live"}
    BY <1>1, <1>4 DEF Handled, Steady, Clean, Gathering, Open, TxStates
  <2>2. Clean(f) /\ f.committed \subseteq {"live"}
    BY <1>1, <1>2, <1>4, <2>1, Ending, ZenonT(30) DEF EngineSucceeds
  <2>3. d.tx = "idle" /\ ~o.err
    BY <1>1, <1>4
  <2> QED BY <1>2, <2>2, <2>3 DEF Proper, Steady
<1>5. CASE s \in Savepoints /\ e.noAuto
  <2>1. c.tx \in Blocks /\ d.tx \in Blocks /\ (c.tx = "failed" => s = "rollbackTo")
        /\ (s = "rollbackTo" => d.tx = "explicit") /\ (s # "rollbackTo" => d.tx = c.tx)
    BY <1>1, <1>5 DEF Handled, Rejected, Savepoints, Blocks
  <2>2. Open(e) \/ (Broken(e) /\ s = "rollbackTo")
    BY <2>1 DEF Steady, Blocks
  <2>3. ~o.err => Open(f) /\ f.committed = {}
    BY <1>1, <1>2, <1>5, <2>2, InBlock DEF Savepoints
  <2>4. o.err => f.noAuto /\ f.committed = {} /\ f.pending = e.pending /\ f.saved = e.saved
    BY <1>1, <1>2, <1>5, InBlock DEF Savepoints
  <2>5. o.err => Lost(f)
    BY <2>2, <2>4 DEF Open, Broken, Lost
  <2>6. d.tx = "explicit"
    BY <2>1 DEF Blocks
  <2> QED BY <1>2, <2>1, <2>3, <2>4, <2>5, <2>6 DEF Proper, Steady, Erring
<1>6. CASE s \in Savepoints /\ ~e.noAuto
  <2>1. c.tx = "failed" /\ s = "rollbackTo" /\ d.tx = "explicit"
    BY <1>1, <1>6 DEF Handled, Rejected, Savepoints, Blocks, Steady, Open
  <2>2. Clean(e) /\ e.pending = {}
    BY <1>6, <2>1 DEF Steady, Broken, Lost, Clean
  <2>3. o.err /\ Clean(f) /\ f.committed = {} /\ f.pending = {}
    BY <1>1, <1>2, <1>6, <2>1, <2>2, NothingSaved DEF Clean
  <2>4. Lost(f)
    BY <2>3 DEF Lost, Clean
  <2> QED BY <1>2, <2>1, <2>2, <2>3, <2>4 DEF Proper, Erring
<1>7. CASE s \in {"work", "do", "call"} /\ c.tx = "idle"
  <2>1. Clean(e) /\ d.tx = "idle"
    BY <1>1, <1>7 DEF Steady
  <2>2. /\ ~o.err => Clean(f) /\ f.committed \subseteq {"live"}
        /\ o.err => Clean(f) /\ f.committed = {}
    BY <1>1, <1>2, <1>7, <2>1, AutoCommitted DEF Clean
  <2> QED BY <1>2, <1>7, <2>1, <2>2 DEF Proper, Steady, Erring
<1>8. CASE s \in {"work", "do"} /\ c.tx # "idle"
  <2>1. /\ c.tx \in {"implicit", "explicit"} /\ d.tx = c.tx /\ e.noAuto
        /\ c.tx = "implicit" => Gathering(e)
        /\ c.tx = "explicit" => Open(e)
    BY <1>1, <1>8 DEF Rejected, Steady, TxStates, Gathering, Open
  <2>2. ~o.err => (c.tx = "implicit" => Gathering(f)) /\ (c.tx = "explicit" => Open(f)) /\ f.committed = {}
    BY <1>1, <1>2, <1>8, <2>1, InBlock
  <2>3. o.err => f.noAuto /\ f.committed = {} /\ f.tran /\ f.pending = e.pending /\ f.saved = e.saved
    BY <1>1, <1>2, <1>8, <2>1, InBlock
  <2>4. o.err => Erring(o.conn)
    BY <1>2, <2>1, <2>3 DEF Erring, Gathering, Open, Lost
  <2>5. ~o.err => Steady(o.conn)
    BY <1>2, <2>1, <2>2 DEF Steady
  <2> QED BY <1>2, <1>8, <2>1, <2>2, <2>3, <2>4, <2>5 DEF Proper
<1> QED BY <1>3, <1>4, <1>5, <1>6, <1>7, <1>8 DEF EngineStatements, Savepoints

(* COPY FROM file outside every block loads and commits the whole file.    *)
LEMMA FileLoaded ==
    ASSUME NEW c \in Connection, Clean(c.eng), c.eng.committed = {},
           NEW o \in copyFromFileQuery(c), ~o.err
    PROVE  /\ o.conn.tx = c.tx /\ o.conn.copy = c.copy /\ o.conn.waitForSync = c.waitForSync
           /\ ~o.copyIn /\ Clean(o.conn.eng) /\ o.conn.eng.committed \subseteq {"live"}
<1> DEFINE e == c.eng
           b == IF e.tran THEN e ELSE [e EXCEPT !.tran = TRUE, !.noAuto = TRUE]
           g == StatementDone(b, {"live"})
           L(x) == IF x.tran /\ x.noAuto THEN EngineCommit(x, TRUE) ELSE x
<1>1. e \in Engine
  BY DEF Connection
<1>2. b \in Engine /\ b = [e EXCEPT !.tran = TRUE, !.noAuto = TRUE]
  <2>1. b = [e EXCEPT !.tran = TRUE, !.noAuto = TRUE]
    BY DEF Clean
  <2> QED BY <1>1, <2>1, ZenonT(30) DEF Engine
<1>3. b.noAuto /\ b.tran /\ b.pending = {} /\ b.saved = {} /\ b.committed = {}
  BY <1>1, <1>2 DEF Clean, Engine
<1> HIDE DEF b
<1>4. g = [b EXCEPT !.tran = TRUE, !.pending = @ \cup {"live"}]
  BY <1>2, <1>3 DEF StatementDone, Settled, Engine
<1>5. g \in Engine /\ g.tran /\ g.noAuto /\ g.pending = {"live"} /\ g.committed = {}
  <2>1. g \in Engine
    BY <1>2, <1>3, EngineStatement, ZenonT(30) DEF Work
  <2> QED BY <1>2, <1>3, <1>4, <2>1, ZenonT(30) DEF Engine
<1>6. o = Done([c EXCEPT !.eng = L(g)])
  <2>1. \A x : Error(x).err
    BY Made
  <2>2. \A k \in handleCopyDataHelper(e, NewCopy) : k.ok => k.eng = g
    BY DEF handleCopyDataHelper, b
  <2>3. PICK k \in handleCopyDataHelper(e, NewCopy) : k.ok /\ o = Done([c EXCEPT !.eng = L(k.eng)])
    BY <2>1, ZenonT(30) DEF copyFromFileQuery
  <2> QED BY <2>2, <2>3, ZenonT(30)
<1> HIDE DEF g
<1>7. L(g) = EngineCommit(g, TRUE)
  BY <1>5
<1>8. Clean(L(g)) /\ L(g).committed \subseteq {"live"}
  BY <1>5, <1>7, Ending, ZenonT(30)
<1> HIDE DEF L
<1> QED BY <1>6, <1>8 DEF Done, Connection

(* A statement the handler answers itself.                                 *)
LEMMA HandledProper ==
    ASSUME "rollback" \notin Fails,
           NEW c \in Connection, Steady(c), c.eng.committed = {},
           NEW s \in Runnable \ {"copyIn"}, Handled(c, s), ~Rejected(c, s),
           s \in {"discard", "copyFile"} => c.tx = "idle",
           NEW o \in OutsideEngine(c, s), o.err => s # "copyFile"
    PROVE  Proper(c, o) /\ (c.tx # "implicit" => o.conn.tx # "implicit")
<1> USE DEF Handled, Savepoints, HandlerStatements
<1>1. c.eng \in Engine /\ c.tx \in TxStates /\ Erring(c)
  BY SteadyErring DEF Connection
<1>2. CASE s = "begin"
  <2>1. o = Done([c EXCEPT !.tx = "explicit"])
    BY <1>2 DEF OutsideEngine
  <2>2. c.tx \in {"explicit", "implicit"} /\ Open(c.eng)
    BY <1>2 DEF Steady, Gathering, Open
  <2>3. /\ o.conn.tx = "explicit" /\ o.conn.eng = c.eng /\ ~o.err /\ ~o.copyIn
        /\ o.conn.copy = c.copy /\ o.conn.waitForSync = c.waitForSync
    BY <2>1 DEF Done, Connection
  <2> QED BY <2>2, <2>3 DEF Proper, Steady
<1>3. CASE s = "commit"
  <2>1. o = Done([c EXCEPT !.tx = "idle", !.eng = EngineRollback(c.eng, TRUE)])
    BY <1>3, ZenonT(30) DEF OutsideEngine, May, Result
  <2>2. /\ o.conn.tx = "idle" /\ o.conn.eng = EngineRollback(c.eng, TRUE) /\ ~o.err /\ ~o.copyIn
        /\ o.conn.copy = c.copy /\ o.conn.waitForSync = c.waitForSync
    BY <2>1, ZenonT(30) DEF Done, Connection
  <2>3. Clean(o.conn.eng) /\ o.conn.eng.committed = {}
    BY <1>1, <2>2, Ending, ZenonT(30)
  <2> QED BY <2>2, <2>3, ZenonT(30) DEF Proper, Steady
<1>4. CASE s \in Savepoints
  <2>1. o = Error(c)
    BY <1>4 DEF OutsideEngine
  <2> QED BY <1>1, <2>1, Made DEF Proper
<1>5. CASE s = "deallocate"
  <2> DEFINE D(p) == [c EXCEPT !.prepared = p]
  <2>1. \A p : D(p).tx = c.tx /\ D(p).eng = c.eng /\ D(p).copy = c.copy /\ D(p).waitForSync = c.waitForSync
    BY DEF Connection
  <2>2. \E p : o = Done(D(p)) \/ o = Error(D(p))
    <3>1. \A n : [c EXCEPT !.prepared[n] = NotPrepared] = D([c.prepared EXCEPT ![n] = NotPrepared])
      BY DEF Connection
    <3>2. \/ o = Done(D(NothingPrepared))
          \/ \E n : \/ o = Done([c EXCEPT !.prepared[n] = NotPrepared])
                    \/ o = Error([c EXCEPT !.prepared[n] = NotPrepared])
      BY <1>5, ZenonT(30) DEF OutsideEngine, deallocatePreparedStatement, Result
    <3> QED BY <3>1, <3>2, ZenonT(30)
  <2> HIDE DEF D
  <2>3. PICK d : /\ o = Done(d) \/ o = Error(d)
                 /\ d.tx = c.tx /\ d.eng = c.eng /\ d.copy = c.copy /\ d.waitForSync = c.waitForSync
    BY <2>1, <2>2
  <2>4. o.conn = d /\ ~o.copyIn
    BY <2>3, Made
  <2>5. Steady(d) /\ Erring(d)
    BY <1>1, <2>3, ZenonT(30) DEF Steady, Erring
  <2> QED BY <2>3, <2>4, <2>5 DEF Proper
<1>6. CASE s = "discard"
  <2>1. \E f \in {NewEngine, c.eng} : o \in {Done([c EXCEPT !.eng = f]), Error([c EXCEPT !.eng = f])}
    BY <1>6, ZenonT(30) DEF OutsideEngine, discardAll
  <2>2. \A f \in {NewEngine, c.eng} : Clean(f) /\ f.committed = {}
    BY <1>6 DEF Steady, Clean, NewEngine
  <2>3. /\ o.conn.tx = "idle" /\ o.conn.eng \in {NewEngine, c.eng} /\ ~o.copyIn
        /\ o.conn.copy = c.copy /\ o.conn.waitForSync = c.waitForSync
    BY <1>6, <2>1 DEF Done, Error, Connection
  <2> QED BY <1>6, <2>2, <2>3 DEF Proper, Steady, Erring
<1>7. CASE s = "copyFile"
  <2>1. o \in copyFromFileQuery(c) /\ ~o.err /\ Clean(c.eng)
    BY <1>7 DEF OutsideEngine, Steady
  <2> QED BY <1>7, <2>1, FileLoaded, ZenonT(30) DEF Proper, Steady
<1>8. CASE s = "copyOut"
  <2> DEFINE e == c.eng
  <2>1. \/ o = Done([c EXCEPT !.eng = StatementDone(e, {})])
        \/ \E f \in StatementFailed(e) : o = Error([c EXCEPT !.eng = f])
    BY <1>8, ZenonT(30) DEF OutsideEngine, handleCopyTo
  <2>2. /\ o.conn.tx = c.tx /\ o.conn.copy = c.copy /\ o.conn.waitForSync = c.waitForSync
        /\ ~o.copyIn /\ (o.conn.eng = StatementDone(e, {}) \/ o.conn.eng \in StatementFailed(e))
    BY <2>1 DEF Done, Error, Connection
  <2>3. CASE c.tx = "idle"
    <3>1. Clean(o.conn.eng) /\ o.conn.eng.committed = {}
      BY <1>1, <2>2, <2>3, Reading DEF Steady
    <3> QED BY <2>2, <2>3, <3>1, ZenonT(30) DEF Proper, Steady, Erring
  <2>4. CASE c.tx # "idle"
    <3>1. c.tx \in {"implicit", "explicit"}
      BY <1>1, <1>8, <2>4 DEF Rejected, TxStates
    <3>2. e.noAuto
      BY <3>1 DEF Steady, Gathering, Open
    <3>3. o.conn.eng = [e EXCEPT !.tran = TRUE]
      <4>1. StatementDone(e, {}) = [e EXCEPT !.tran = TRUE] /\ StatementFailed(e) = {[e EXCEPT !.tran = TRUE]}
        BY <1>1, <3>2, Reading, ZenonT(30)
      <4> QED BY <2>2, <4>1, ZenonT(30)
    <3>4. /\ o.conn.eng.noAuto /\ o.conn.eng.pending = e.pending /\ o.conn.eng.saved = e.saved
          /\ o.conn.eng.tran /\ o.conn.eng.committed = {}
      BY <1>1, <3>2, <3>3 DEF Engine
    <3>5. Steady(o.conn)
      BY <2>2, <3>1, <3>4, ZenonT(30) DEF Steady, Gathering, Open
    <3> QED BY <2>2, <3>1, <3>4, <3>5, SteadyErring DEF Proper
  <2> QED BY <2>3, <2>4
<1> QED BY <1>2, <1>3, <1>4, <1>5, <1>6, <1>7, <1>8

(* Any statement but COPY FROM STDIN.                                      *)
LEMMA RunProper ==
    ASSUME "rollback" \notin Fails,
           NEW c \in Connection, Steady(c), c.eng.committed = {},
           NEW s \in Runnable \ {"copyIn"}, ~Rejected(c, s),
           s \in {"call", "discard", "copyFile"} => c.tx = "idle",
           NEW o \in Run(c, s), o.err => s \notin {"commit", "rollback", "copyFile"}
    PROVE  Proper(c, o) /\ (c.tx # "implicit" => o.conn.tx # "implicit")
<1>1. CASE Handled(c, s)
  BY <1>1, HandledProper, ZenonT(30) DEF Run
<1>2. CASE ~Handled(c, s)
  <2>1. s \in EngineStatements /\ o \in InEngine(PassedOn(c, s), s)
    BY <1>2 DEF Run, Runnable, Handled
  <2> QED BY <1>2, <2>1, PassedProper
<1> QED BY <1>1, <1>2

-----------------------------------------------------------------------------
(* The ends of a message.                                                  *)

(* The report of an error ends an implicit block and fails an explicit one.*)
LEMMA Reporting ==
    ASSUME "rollback" \notin Fails, NEW c \in Connection, Erring(c), NEW d \in Reported(c)
    PROVE  /\ Steady(d) /\ d.tx \in {"idle", "failed"} /\ (d.tx = "failed" <=> c.tx \in Blocks)
           /\ d.eng.committed = c.eng.committed /\ d.copy = c.copy
           /\ c.tx \in Blocks /\ c.eng.pending \subseteq {"doomed"} => d.eng.pending = c.eng.pending
<1> DEFINE e == Doomed(c.eng)
<1>1. c.eng \in Engine /\ c.tx \in TxStates
  BY DEF Connection
<1>2. /\ e \in Engine /\ e.tran = c.eng.tran /\ e.noAuto = c.eng.noAuto /\ e.saved = c.eng.saved
      /\ e.committed = c.eng.committed /\ e.pending \subseteq {"doomed"}
      /\ (c.eng.pending = {} <=> e.pending = {})
      /\ c.eng.pending \subseteq {"doomed"} => e.pending = c.eng.pending
  BY <1>1, Dooming, EngineOperators, ZenonT(30)
<1> HIDE DEF e
<1>3. CASE c.tx = "implicit"
  <2> DEFINE b == [c EXCEPT !.eng = e]
  <2>1. b \in Connection /\ b.tx = "implicit" /\ b.eng = e /\ b.copy = c.copy
    BY <1>2, <1>3, WithEngine, Replaced
  <2>2. d \in rollbackImplicitTransaction(b)
    BY <1>3, ZenonT(30) DEF Reported, e
  <2> HIDE DEF b
  <2>3. CASE ~e.tran
    <3>1. d = [b EXCEPT !.tx = "idle", !.eng.noAuto = FALSE]
      BY <2>1, <2>2, <2>3 DEF rollbackImplicitTransaction
    <3>2. /\ d.tx = "idle" /\ d.copy = c.copy /\ ~d.eng.noAuto /\ ~d.eng.tran
          /\ d.eng.pending = e.pending /\ d.eng.saved = e.saved /\ d.eng.committed = e.committed
      BY <1>2, <2>1, <2>3, <3>1 DEF Connection, Engine
    <3>3. e.pending = {} /\ e.saved = {}
      BY <1>2, <1>3, <2>3 DEF Erring
    <3> QED BY <1>2, <1>3, <3>2, <3>3 DEF Steady, Clean, Blocks
  <2>4. CASE e.tran
    <3>1. d = [b EXCEPT !.tx = "idle", !.eng = EngineRollback(e, TRUE)]
      BY <2>1, <2>2, <2>4, ZenonT(30) DEF rollbackImplicitTransaction, May
    <3>2. d.tx = "idle" /\ d.copy = c.copy /\ d.eng = EngineRollback(e, TRUE)
      BY <2>1, <3>1, Replaced
    <3>3. Clean(d.eng) /\ d.eng.committed = e.committed
      BY <1>2, <3>2, Ending, ZenonT(30)
    <3> QED BY <1>2, <1>3, <3>2, <3>3, ZenonT(30) DEF Steady, Blocks
  <2> QED BY <2>3, <2>4
<1>4. CASE c.tx = "explicit"
  <2>1. d = [c EXCEPT !.tx = "failed", !.eng = e]
    BY <1>4, ZenonT(30) DEF Reported, e
  <2>2. d.tx = "failed" /\ d.eng = e /\ d.copy = c.copy
    BY <2>1, Replaced
  <2>3. Broken(e)
    BY <1>2, <1>4, ZenonT(30) DEF Erring, Lost, Broken, Clean
  <2> QED BY <1>2, <1>4, <2>2, <2>3 DEF Steady, Blocks
<1>5. CASE c.tx \in {"idle", "failed"}
  <2>1. d = c
    BY <1>5, ZenonT(30) DEF Reported
  <2> QED BY <1>5, <2>1 DEF Steady, Erring, Blocks
<1> QED BY <1>1, <1>3, <1>4, <1>5 DEF TxStates

(* The commit of the implicit block.                                       *)
LEMMA ImplicitCommit ==
    ASSUME "rollback" \notin Fails, NEW c \in Connection, c.tx = "implicit",
           \/ Gathering(c.eng) /\ c.eng.committed = {}
           \/ Clean(c.eng) /\ c.eng.committed \subseteq {"live"},
           NEW o \in commitImplicitTransaction(c)
    PROVE  Proper(c, o) /\ o.conn.tx = "idle" /\ o.eom
<1> DEFINE e == c.eng
<1>1. e \in Engine
  BY DEF Connection
<1>2. CASE ~e.tran
  <2>1. o = Done([c EXCEPT !.tx = "idle", !.eng.noAuto = FALSE])
    BY <1>2, ZenonT(30) DEF commitImplicitTransaction
  <2>2. /\ o.conn.tx = "idle" /\ o.conn.copy = c.copy /\ o.conn.waitForSync = c.waitForSync
        /\ ~o.conn.eng.noAuto /\ ~o.conn.eng.tran /\ o.conn.eng.pending = e.pending
        /\ o.conn.eng.saved = e.saved /\ o.conn.eng.committed = e.committed
        /\ ~o.err /\ o.eom /\ ~o.copyIn
    BY <1>1, <1>2, <2>1, ZenonT(30) DEF Done, Connection, Engine
  <2>3. e.pending = {} /\ e.saved = {} /\ e.committed \subseteq {"live"}
    BY <1>2 DEF Gathering, Clean
  <2> QED BY <2>2, <2>3, ZenonT(30) DEF Proper, Steady, Clean
<1>3. CASE e.tran
  <2>1. Gathering(e) /\ e.committed = {}
    BY <1>3 DEF Clean
  <2> DEFINE f == EngineCommit(e, TRUE)
             g == EngineRollback(EngineCommit(e, FALSE), TRUE)
  <2>2. \/ o = Done([c EXCEPT !.tx = "idle", !.eng = f])
        \/ o = Error([c EXCEPT !.tx = "idle", !.eng = g])
    BY <1>3, ZenonT(30) DEF commitImplicitTransaction, May
  <2>3. /\ Clean(f) /\ f.committed = e.committed \cup e.pending
        /\ Clean(g) /\ g.committed = e.committed
    BY <1>1, Ending, ZenonT(30)
  <2> HIDE DEF f, g
  <2>4. /\ o.conn.tx = "idle" /\ o.conn.copy = c.copy /\ o.conn.waitForSync = c.waitForSync
        /\ ~o.copyIn /\ o.eom
        /\ (~o.err /\ o.conn.eng = f) \/ (o.err /\ o.conn.eng = g)
    <3>1. CASE o = Done([c EXCEPT !.tx = "idle", !.eng = f])
      BY <3>1, ZenonT(30) DEF Done, Connection
    <3>2. CASE o = Error([c EXCEPT !.tx = "idle", !.eng = g])
      BY <3>2, ZenonT(30) DEF Error, Connection
    <3> QED BY <2>2, <3>1, <3>2
  <2>5. /\ Clean(o.conn.eng) /\ o.conn.eng.committed \subseteq {"live"}
        /\ o.err => o.conn.eng.committed = {}
    BY <2>1, <2>3, <2>4 DEF Gathering
  <2> QED BY <2>4, <2>5 DEF Proper, Steady, Erring
<1> QED BY <1>2, <1>3

(* The start of an implicit block.                                         *)
LEMMA Starting ==
    ASSUME NEW c \in Connection, Steady(c), c.eng.committed = {}, NEW s
    PROVE  LET d == startImplicitTransaction(c, s)
           IN  /\ d \in Connection /\ Steady(d) /\ d.eng.committed = {}
               /\ d.copy = c.copy /\ d.waitForSync = c.waitForSync
               /\ (c.tx = "idle" /\ s \notin {"begin", "commit", "rollback"}) => d.tx = "implicit"
               /\ ~(c.tx = "idle" /\ s \notin {"begin", "commit", "rollback"}) => d = c
<1> DEFINE d == startImplicitTransaction(c, s)
<1>1. CASE c.tx = "idle" /\ s \notin {"begin", "commit", "rollback"}
  <2>1. d = [c EXCEPT !.tx = "implicit", !.eng.noAuto = TRUE]
    BY <1>1 DEF startImplicitTransaction
  <2>2. d \in Connection
    BY Passing
  <2>3. /\ d.tx = "implicit" /\ d.copy = c.copy /\ d.waitForSync = c.waitForSync
        /\ d.eng.noAuto /\ d.eng.tran = c.eng.tran /\ d.eng.pending = c.eng.pending
        /\ d.eng.saved = c.eng.saved /\ d.eng.committed = {}
    BY <2>1 DEF Connection, Engine
  <2>4. c.eng.pending = {} /\ c.eng.saved = {}
    BY <1>1 DEF Steady, Clean
  <2> HIDE DEF d
  <2>5. Steady(d)
    BY <2>3, <2>4 DEF Steady, Gathering
  <2> QED BY <1>1, <2>2, <2>3, <2>5 DEF d
<1>2. CASE ~(c.tx = "idle" /\ s \notin {"begin", "commit", "rollback"})
  BY <1>2 DEF startImplicitTransaction
<1> QED BY <1>1, <1>2

(* What is proper for a connection is so for one with the same block.      *)
LEMMA SameBlock ==
    ASSUME NEW c, NEW d, NEW o, Proper(d, o),
           d.tx = c.tx, d.eng = c.eng, d.copy = c.copy, d.waitForSync = c.waitForSync
    PROVE  Proper(c, o)
  BY DEF Proper

-----------------------------------------------------------------------------
(* Replacing the block state of a connection leaves a connection.          *)
LEMMA WithTx ==
    ASSUME NEW c \in Connection, NEW f \in Engine, NEW t \in TxStates
    PROVE  /\ [c EXCEPT !.tx = t, !.eng = f] \in Connection
           /\ [c EXCEPT !.tx = t, !.eng = f].eng = f
           /\ [c EXCEPT !.tx = t] \in Connection
           /\ [c EXCEPT !.tx = t].eng = c.eng
BY ZenonT(30) DEF Connection

-----------------------------------------------------------------------------
(* The step runs a message on a session with a transaction open under      *)
(* autocommit, as a Query leaves it whose last statement is a COMMIT that  *)
(* fails.                                                                  *)
Untidy == pc # "discard" /\ conn.eng.tran /\ ~conn.eng.noAuto

(* A connection that has committed leaves no implicit block to commit.     *)
NoneLeft(c) == c.eng.committed # {} => ~c.eng.tran \/ c.tx # "implicit"

(* An operation that starts with nothing committed either commits nothing, *)
(* or succeeds and leaves no implicit block open.  Only COPY FROM file may *)
(* fail after a commit, from an untidy session.                            *)
Sound(o) ==
    /\ o \in Outcome
    /\ NoneLeft(o.conn)
    /\ o.err /\ o.conn.eng.committed # {} => Untidy

(* Done and Error of a connection are sound outcomes, Error when nothing is*)
(* committed.                                                              *)
LEMMA Outcomes ==
    ASSUME NEW c \in Connection, NoneLeft(c)
    PROVE  /\ Sound(Done(c))
           /\ c.eng.committed = {} => /\ Sound(Error(c)) /\ Sound(More(Error(c)))
                                      /\ \A ok \in BOOLEAN : Sound(Result(c, ok))
<1>1. Done(c) \in Outcome /\ Done(c).conn = c /\ Done(c).err = FALSE
  BY DEF Done, Outcome
<1>2. Error(c) \in Outcome /\ Error(c).conn = c
  BY DEF Error, Outcome
<1>3. More(Error(c)) \in Outcome /\ More(Error(c)).conn = c
  BY <1>2, ZenonT(30) DEF More, Outcome
<1> QED BY <1>1, <1>2, <1>3 DEF Sound, NoneLeft, Result

(* Asking for more messages keeps an outcome sound.                        *)
LEMMA MoreSound ==
    ASSUME NEW o, Sound(o)
    PROVE  Sound(More(o)) /\ More(o).conn = o.conn /\ More(o).err = o.err
BY ZenonT(30) DEF Sound, NoneLeft, More, Outcome

(* The same for an outcome built by replacing the engine session.          *)
LEMMA EngineOutcomes ==
    ASSUME NEW c \in Connection, NEW f \in Engine,
           f.committed # {} => ~f.tran \/ c.tx # "implicit"
    PROVE  /\ Sound(Done([c EXCEPT !.eng = f]))
           /\ f.committed = {} => /\ Sound(Error([c EXCEPT !.eng = f]))
                                  /\ Sound(More(Error([c EXCEPT !.eng = f])))
<1> DEFINE d == [c EXCEPT !.eng = f]
<1>1. d \in Connection /\ d.eng = f /\ d.tx = c.tx
  BY WithEngine, Replaced
<1> HIDE DEF d
<1>2. Sound(Done(d)) /\ (f.committed = {} => Sound(Error(d)) /\ Sound(More(Error(d))))
  BY <1>1, Outcomes DEF NoneLeft
<1> QED BY <1>2 DEF d

(* The same when the block state is replaced as well.                      *)
LEMMA TxOutcomes ==
    ASSUME NEW c \in Connection, NEW f \in Engine, NEW t \in TxStates,
           f.committed # {} => ~f.tran
    PROVE  /\ Sound(Done([c EXCEPT !.tx = t, !.eng = f]))
           /\ f.committed = {} => Sound(Error([c EXCEPT !.tx = t, !.eng = f]))
<1> DEFINE d == [c EXCEPT !.tx = t, !.eng = f]
<1>1. d \in Connection /\ d.eng = f
  BY ZenonT(30) DEF Connection
<1> HIDE DEF d
<1>2. Sound(Done(d)) /\ (f.committed = {} => Sound(Error(d)))
  BY <1>1, Outcomes DEF NoneLeft
<1> QED BY <1>2 DEF d

(* A statement that succeeds leaves a well-typed engine session.           *)
LEMMA SucceedsSound ==
    ASSUME NEW e \in Engine, e.committed = {}, NEW s \in EngineStatements,
           NEW f \in EngineSucceeds(e, s)
    PROVE  f \in Engine /\ (s # "begin" => (f.committed # {} => ~f.tran))
<1> DEFINE Good(g) == g \in Engine /\ (g.committed # {} => ~g.tran)
<1>1. ASSUME NEW g \in Engine, g.committed = {} PROVE Good(Settled(g))
  <2>1. CASE g.noAuto  BY <1>1, <2>1 DEF Settled
  <2>2. CASE ~g.noAuto BY <1>1, <2>2, EngineOperators DEF Settled
  <2> QED BY <2>1, <2>2
<1>0. CASE s = "begin"
  <2>1. f \in EngineBegin(e)
    BY <1>0 DEF EngineSucceeds
  <2> QED BY <1>0, <2>1, Beginning
<1>2. CASE s \in {"commit", "rollback"}
  <2>1. Good(EngineCommit(e, TRUE)) /\ Good(EngineRollback(e, TRUE))
    BY EngineControl, ZenonT(30)
  <2> QED BY <1>2, <2>1, ZenonT(30) DEF EngineSucceeds
<1>3. CASE s = "savepoint"
  <2>1. /\ [e EXCEPT !.tran = TRUE, !.saved = {e.pending}] \in Engine
        /\ [e EXCEPT !.tran = TRUE, !.saved = {e.pending}].committed = {}
    BY ZenonT(30) DEF Engine
  <2> QED BY <1>3, <1>1, <2>1, ZenonT(30) DEF EngineSucceeds
<1>4. CASE s = "rollbackTo"
  <2>1. PICK p \in e.saved : f = Settled([e EXCEPT !.pending = p])
    BY <1>4 DEF EngineSucceeds
  <2>2. [e EXCEPT !.pending = p] \in Engine /\ [e EXCEPT !.pending = p].committed = {}
    BY DEF Engine
  <2> QED BY <1>1, <2>1, <2>2, ZenonT(30)
<1>5. CASE s = "release"
  <2>1. f = Settled([e EXCEPT !.saved = {}])
    BY <1>5 DEF EngineSucceeds
  <2>2. [e EXCEPT !.saved = {}] \in Engine /\ [e EXCEPT !.saved = {}].committed = {}
    BY DEF Engine
  <2> QED BY <1>1, <2>1, <2>2, ZenonT(30)
<1>6. CASE s \in {"work", "do"}
  <2>1. f = StatementDone(e, {"live"})
    BY <1>6 DEF EngineSucceeds
  <2> QED BY <2>1, EngineStatement DEF Work
<1>7. CASE s = "call"
  <2>1. f = Committed([e EXCEPT !.pending = @ \cup {"live"}])
    BY <1>7 DEF EngineSucceeds
  <2>2. [e EXCEPT !.pending = @ \cup {"live"}] \in Engine
    BY DEF Engine, Work
  <2> QED BY <2>1, <2>2, EngineOperators
<1> QED BY <1>0, <1>2, <1>3, <1>4, <1>5, <1>6, <1>7 DEF EngineStatements

(* A statement that fails, by error or panic, commits nothing.             *)
LEMMA FailsSound ==
    ASSUME NEW e \in Engine, e.committed = {}, NEW s \in EngineStatements,
           NEW f \in EngineFails(e, s) \cup EnginePanics(e, s)
    PROVE  f \in Engine /\ f.committed = {}
<1>1. CASE f \in StatementFailed(e)
  BY <1>1, EngineStatement, ZenonT(30) DEF Work
<1>2. CASE f \in {e, EngineRollback(e, FALSE), EngineCommit(e, FALSE)}
  BY <1>2, EngineControl, ZenonT(30)
<1>3. CASE f = [EngineCommit(e, FALSE) EXCEPT !.pending = {}]
  <2>1. EngineCommit(e, FALSE) \in Engine /\ EngineCommit(e, FALSE).committed = {}
    BY EngineControl, ZenonT(30)
  <2> QED BY <1>3, <2>1, ZenonT(30) DEF Engine
<1> QED BY <1>1, <1>2, <1>3, ZenonT(30) DEF EngineFails, EnginePanics, EngineStatements

(* Passing a statement to the engine has sound outcomes.                   *)
LEMMA InEngineSound ==
    ASSUME NEW c \in Connection, c.eng.committed = {}, NEW s \in EngineStatements,
           s = "begin" => c.tx # "implicit", NEW o \in InEngine(c, s)
    PROVE  Sound(o)
<1> c.eng \in Engine
  BY DEF Connection
<1>1. ASSUME NEW f \in EngineSucceeds(c.eng, s), o = Done([c EXCEPT !.eng = f])
      PROVE  Sound(o)
  <2>1. f \in Engine /\ (f.committed # {} => ~f.tran \/ c.tx # "implicit")
    BY <1>1, SucceedsSound
  <2> QED BY <1>1, <2>1, EngineOutcomes
<1>2. ASSUME NEW f \in EngineFails(c.eng, s) \cup EnginePanics(c.eng, s),
             o \in {Error([c EXCEPT !.eng = f]), More(Error([c EXCEPT !.eng = f]))}
      PROVE  Sound(o)
  <2>1. f \in Engine /\ f.committed = {}
    BY <1>2, FailsSound
  <2> QED BY <1>2, <2>1, EngineOutcomes
<1> QED BY <1>1, <1>2, ZenonT(30) DEF InEngine

(* COPY: a chunk that fails commits nothing.                               *)
LEMMA ChunkSound ==
    ASSUME NEW e \in Engine, e.committed = {}, NEW copy \in Copy,
           NEW k \in handleCopyDataHelper(e, copy)
    PROVE  /\ k.eng \in Engine /\ k.copy \in Copy /\ k.ok \in BOOLEAN
           /\ k.eng.committed # {} => k.ok /\ ~k.eng.tran
           /\ k.eng.committed # {} => e.tran /\ ~e.noAuto
<1> DEFINE b == IF e.tran THEN e ELSE [e EXCEPT !.tran = TRUE, !.noAuto = TRUE]
           q == [copy EXCEPT !.started = @ \/ ~e.tran]
           Good(x) == /\ x.eng \in Engine /\ x.copy \in Copy /\ x.ok \in BOOLEAN
                      /\ x.eng.committed # {} => x.ok /\ ~x.eng.tran
                      /\ x.eng.committed # {} => e.tran /\ ~e.noAuto
<1>1. b \in Engine /\ b.committed = {} /\ (b.noAuto \/ (e.tran /\ ~e.noAuto))
  <2>1. [e EXCEPT !.tran = TRUE, !.noAuto = TRUE] \in Engine
    BY ZenonT(30) DEF Engine
  <2>2. /\ [e EXCEPT !.tran = TRUE, !.noAuto = TRUE].committed = {}
        /\ [e EXCEPT !.tran = TRUE, !.noAuto = TRUE].noAuto
    BY DEF Engine
  <2> QED BY <2>1, <2>2
<1>2. q \in Copy /\ q.loader \in BOOLEAN
  BY ZenonT(30) DEF Copy, Engine
<1> HIDE DEF b, q
<1>3. \A l \in BOOLEAN : [q EXCEPT !.loader = l] \in Copy
  BY <1>2 DEF Copy
<1>4. /\ StatementDone(b, {"live"}) \in Engine
      /\ StatementDone(b, {"live"}).committed # {} => ~StatementDone(b, {"live"}).tran
      /\ \A f \in StatementFailed(b) : f \in Engine /\ f.committed = {}
  BY <1>1, EngineStatement DEF Work
<1>5. b.noAuto => StatementDone(b, {"live"}).committed = {}
  BY <1>1 DEF StatementDone, Settled, Engine
<1>6. CASE k = [eng |-> StatementDone(b, {"live"}), copy |-> [q EXCEPT !.loader = TRUE], ok |-> TRUE]
  BY <1>1, <1>3, <1>4, <1>5, <1>6, ZenonT(30)
<1>7. ASSUME NEW f \in StatementFailed(b), NEW l \in {q.loader, TRUE},
             k = [eng |-> f, copy |-> [q EXCEPT !.loader = l], ok |-> FALSE]
      PROVE  Good(k)
  BY <1>2, <1>3, <1>4, <1>7, ZenonT(30)
<1> QED BY <1>6, <1>7 DEF handleCopyDataHelper, b, q

(* COPY FROM file commits after everything in it that can fail, unless it  *)
(* finds a transaction open under autocommit.                              *)
LEMMA CopyFromFileSound ==
    ASSUME NEW c \in Connection, c.eng.committed = {}, (c.eng.tran /\ ~c.eng.noAuto) => Untidy,
           NEW o \in copyFromFileQuery(c)
    PROVE  Sound(o)
<1> DEFINE Loaded(e) == IF e.tran /\ e.noAuto THEN EngineCommit(e, TRUE) ELSE e
           chunks == handleCopyDataHelper(c.eng, NewCopy)
<1>1. c.eng \in Engine /\ NewCopy \in Copy
  BY ZenonT(30) DEF Connection, NewCopy, NoCopy, Copy
<1>2. \A k \in chunks : /\ k.eng \in Engine /\ k.ok \in BOOLEAN
                        /\ k.eng.committed # {} => k.ok /\ ~k.eng.tran
                        /\ k.eng.committed # {} => Untidy
  BY <1>1, ChunkSound
<1> HIDE DEF chunks
<1>3. ASSUME NEW k \in chunks, k.ok, o = Done([c EXCEPT !.eng = Loaded(k.eng)])
      PROVE  Sound(o)
  <2>1. Loaded(k.eng) \in Engine /\ (Loaded(k.eng).committed # {} => ~Loaded(k.eng).tran)
    BY <1>2, <1>3, EngineControl, ZenonT(30)
  <2> QED BY <1>3, <2>1, EngineOutcomes, ZenonT(30)
<1>4. ASSUME NEW k \in chunks, o = Error([c EXCEPT !.eng = k.eng])
      PROVE  Sound(o)
  <2> DEFINE d == [c EXCEPT !.eng = k.eng]
  <2>1. d \in Connection /\ d.eng = k.eng
    BY <1>2, WithEngine
  <2> HIDE DEF d
  <2>2. o \in Outcome /\ o.conn = d
    BY <1>4, <2>1 DEF Error, Outcome, d
  <2> QED BY <1>2, <2>1, <2>2 DEF Sound, NoneLeft
<1>5. CASE o = Error(c)
  BY <1>5, Outcomes DEF NoneLeft
<1> QED BY <1>3, <1>4, <1>5, ZenonT(30) DEF copyFromFileQuery, chunks

(* Every statement handled outside the engine has sound outcomes.          *)
LEMMA OutsideEngineSound ==
    ASSUME NEW c \in Connection, c.eng.committed = {}, (c.eng.tran /\ ~c.eng.noAuto) => Untidy,
           NEW s, Handled(c, s), NEW o \in OutsideEngine(c, s)
    PROVE  Sound(o)
<1> USE DEF Handled, Savepoints, HandlerStatements, NoneLeft
<1>1. c.eng \in Engine
  BY DEF Connection
<1>2. CASE s = "begin"
  <2> DEFINE d == [c EXCEPT !.tx = "explicit"]
  <2>1. d \in Connection /\ d.eng = c.eng
    BY DEF Connection, TxStates
  <2>2. o = Done(d)
    BY <1>2 DEF OutsideEngine
  <2> HIDE DEF d
  <2> QED BY <2>1, <2>2, Outcomes
<1>3. CASE s = "commit"
  <2>1. PICK ok \in BOOLEAN : o = Result([c EXCEPT !.tx = "idle", !.eng = EngineRollback(@, ok)], ok)
    BY <1>3, ZenonT(30) DEF OutsideEngine, May
  <2>2. EngineRollback(c.eng, ok) \in Engine /\ EngineRollback(c.eng, ok).committed = {}
    BY <1>1, EngineControl, SMTT(30)
  <2>3. /\ Sound(Done([c EXCEPT !.tx = "idle", !.eng = EngineRollback(c.eng, ok)]))
        /\ Sound(Error([c EXCEPT !.tx = "idle", !.eng = EngineRollback(c.eng, ok)]))
    BY <2>2, TxOutcomes, ZenonT(30) DEF TxStates
  <2> QED BY <2>1, <2>3, SMTT(30) DEF Result
<1>4. CASE s \in Savepoints
  BY <1>4, Outcomes DEF OutsideEngine
<1>5. CASE s = "deallocate"
  <2>1. [c EXCEPT !.prepared = NothingPrepared] \in Connection
        /\ [c EXCEPT !.prepared = NothingPrepared].eng = c.eng
    BY DEF Connection, NothingPrepared, Prepared
  <2>2. \A n \in Names : /\ [c EXCEPT !.prepared[n] = NotPrepared] \in Connection
                         /\ [c EXCEPT !.prepared[n] = NotPrepared].eng = c.eng
    BY DEF Connection, Prepared
  <2>3. CASE o = Done([c EXCEPT !.prepared = NothingPrepared])
    BY <2>1, <2>3, Outcomes, ZenonT(30)
  <2>4. ASSUME NEW n \in Names,
               o = Result([c EXCEPT !.prepared[n] = NotPrepared], c.prepared[n] # NotPrepared)
        PROVE  Sound(o)
    <3> DEFINE d == [c EXCEPT !.prepared[n] = NotPrepared]
    <3>1. d \in Connection /\ d.eng = c.eng
      BY <2>2
    <3> HIDE DEF d
    <3>2. Sound(Done(d)) /\ Sound(Error(d))
      BY <3>1, Outcomes
    <3> QED BY <2>4, <3>2 DEF Result, d
  <2> QED BY <1>5, <2>3, <2>4, ZenonT(30) DEF OutsideEngine, deallocatePreparedStatement
<1>6. CASE s = "discard"
  <2>1. NewEngine \in Engine /\ NewEngine.committed = {}
    BY DEF NewEngine, Engine
  <2>2. \A f \in {NewEngine, c.eng} :
          Sound(Done([c EXCEPT !.eng = f])) /\ Sound(Error([c EXCEPT !.eng = f]))
    BY <1>1, <2>1, EngineOutcomes
  <2> QED BY <1>6, <2>2, ZenonT(30) DEF OutsideEngine, discardAll
<1>7. CASE s = "copyIn"
  <2> DEFINE d == [c EXCEPT !.copy = NewCopy]
  <2>1. d \in Connection /\ d.eng = c.eng
    BY ZenonT(30) DEF Connection, NewCopy, NoCopy, Copy
  <2>2. o = [Done(d) EXCEPT !.eom = FALSE, !.copyIn = TRUE]
    BY <1>7 DEF OutsideEngine, handleCopyFromStdinQuery
  <2> HIDE DEF d
  <2>3. o \in Outcome /\ o.conn = d
    BY <2>1, <2>2, ZenonT(30) DEF Done, Outcome
  <2> QED BY <2>1, <2>3 DEF Sound
<1>8. CASE s = "copyFile"
  BY <1>8, CopyFromFileSound DEF OutsideEngine
<1>9. CASE s = "copyOut"
  <2>1. /\ StatementDone(c.eng, {}) \in Engine
        /\ StatementDone(c.eng, {}).committed # {} => ~StatementDone(c.eng, {}).tran
        /\ \A f \in StatementFailed(c.eng) : f \in Engine /\ f.committed = {}
    BY <1>1, EngineStatement
  <2>2. Sound(Done([c EXCEPT !.eng = StatementDone(c.eng, {})]))
    BY <2>1, EngineOutcomes
  <2>3. \A f \in StatementFailed(c.eng) : Sound(Error([c EXCEPT !.eng = f]))
    BY <2>1, EngineOutcomes
  <2> QED BY <1>9, <2>2, <2>3, ZenonT(30) DEF OutsideEngine, handleCopyTo
<1> QED BY <1>2, <1>3, <1>4, <1>5, <1>6, <1>7, <1>8, <1>9

(* Running a statement, wherever it is handled, has sound outcomes.        *)
LEMMA RunSound ==
    ASSUME NEW c \in Connection, c.eng.committed = {}, (c.eng.tran /\ ~c.eng.noAuto) => Untidy,
           NEW s \in Runnable, NEW o \in Run(c, s)
    PROVE  Sound(o)
<1>1. CASE Handled(c, s)
  BY <1>1, OutsideEngineSound DEF Run
<1>2. CASE ~Handled(c, s)
  <2>1. PassedOn(c, s) \in Connection /\ PassedOn(c, s).eng.committed = {}
    BY Passing
  <2>2. s \in EngineStatements
    BY <1>2 DEF Handled, Runnable
  <2>3. s = "begin" => PassedOn(c, s).tx = "explicit"
    BY DEF PassedOn, Connection
  <2> QED BY <1>2, <2>1, <2>2, <2>3, InEngineSound DEF Run
<1> QED BY <1>1, <1>2

(* A commit of the implicit block that fails has committed nothing.        *)
LEMMA CommitImplicitSound ==
    ASSUME NEW c \in Connection, NoneLeft(c), NEW o \in commitImplicitTransaction(c)
    PROVE  Sound(o)
<1>1. c.eng \in Engine
  BY DEF Connection
<1>2. CASE c.tx # "implicit"
  BY <1>2, Outcomes DEF commitImplicitTransaction
<1>3. CASE c.tx = "implicit" /\ ~c.eng.tran
  <2> DEFINE d == [c EXCEPT !.tx = "idle", !.eng.noAuto = FALSE]
  <2>1. d \in Connection
    BY ZenonT(30) DEF Connection, Engine, TxStates
  <2>2. d.eng.committed = c.eng.committed /\ d.eng.tran = c.eng.tran
    BY DEF Connection, Engine
  <2>3. o = Done(d)
    BY <1>3 DEF commitImplicitTransaction
  <2> HIDE DEF d
  <2> QED BY <1>3, <2>1, <2>2, <2>3, Outcomes DEF NoneLeft
<1>4. CASE c.tx = "implicit" /\ c.eng.tran
  <2>1. c.eng.committed = {}
    BY <1>4 DEF NoneLeft
  <2>2. /\ EngineCommit(c.eng, TRUE) \in Engine /\ ~EngineCommit(c.eng, TRUE).tran
        /\ EngineCommit(c.eng, FALSE) \in Engine /\ EngineCommit(c.eng, FALSE).committed = {}
    BY <1>1, <2>1, EngineControl, ZenonT(30)
  <2>3. \A ok \in BOOLEAN : /\ EngineRollback(EngineCommit(c.eng, FALSE), ok) \in Engine
                            /\ EngineRollback(EngineCommit(c.eng, FALSE), ok).committed = {}
    BY <2>2, EngineControl, ZenonT(30)
  <2>4. Sound(Done([c EXCEPT !.tx = "idle", !.eng = EngineCommit(c.eng, TRUE)]))
    BY <2>2, TxOutcomes, ZenonT(30) DEF TxStates
  <2>5. \A ok \in BOOLEAN :
          Sound(Error([c EXCEPT !.tx = "idle",
                                !.eng = EngineRollback(EngineCommit(c.eng, FALSE), ok)]))
    BY <2>3, TxOutcomes, ZenonT(30) DEF TxStates
  <2> QED BY <1>4, <2>4, <2>5, ZenonT(30) DEF commitImplicitTransaction, May
<1> QED BY <1>2, <1>3, <1>4

(* Rolling back the implicit block commits nothing.                        *)
LEMMA RollbackImplicitSound ==
    ASSUME NEW c \in Connection, NEW d \in rollbackImplicitTransaction(c)
    PROVE  d \in Connection /\ d.eng.committed = c.eng.committed
<1>1. CASE c.tx # "implicit"
  BY <1>1 DEF rollbackImplicitTransaction
<1>2. CASE d = [c EXCEPT !.tx = "idle", !.eng.noAuto = FALSE]
  BY <1>2, ZenonT(30) DEF Connection, Engine, TxStates
<1>3. ASSUME NEW ok \in BOOLEAN, d = [c EXCEPT !.tx = "idle", !.eng = EngineRollback(@, ok)]
      PROVE  d \in Connection /\ d.eng.committed = c.eng.committed
  <2>1. EngineRollback(c.eng, ok) \in Engine /\ EngineRollback(c.eng, ok).committed = c.eng.committed
    BY EngineControl, ZenonT(30) DEF Connection
  <2> HIDE DEF EngineRollback
  <2> QED BY <1>3, <2>1, ZenonT(30) DEF Connection, TxStates
<1> QED BY <1>1, <1>2, <1>3, ZenonT(30) DEF rollbackImplicitTransaction, May

(* Rolling back a COPY commits nothing.                                    *)
LEMMA RollbackCopySound ==
    ASSUME NEW c \in Connection, c.eng.committed = {}, NEW started \in BOOLEAN,
           NEW d \in rollbackCopyTransaction(c, started)
    PROVE  d \in Connection /\ d.eng.committed = {}
<1>1. CASE d = c
  BY <1>1
<1>2. CASE d = [c EXCEPT !.eng.noAuto = FALSE]
  BY <1>2, ZenonT(30) DEF Connection, Engine
<1>3. ASSUME NEW ok \in BOOLEAN, d = [c EXCEPT !.eng = AutoCommitRestored(EngineRollback(@, ok))]
      PROVE  d \in Connection /\ d.eng.committed = {}
  <2>1. EngineRollback(c.eng, ok) \in Engine /\ EngineRollback(c.eng, ok).committed = {}
    BY EngineControl, ZenonT(30) DEF Connection
  <2>2. \A e \in Engine : AutoCommitRestored(e) \in Engine
                          /\ AutoCommitRestored(e).committed = e.committed
    BY ZenonT(30) DEF Engine, AutoCommitRestored
  <2> DEFINE f == AutoCommitRestored(EngineRollback(c.eng, ok))
  <2>3. f \in Engine /\ f.committed = {}
    BY <2>1, <2>2
  <2> HIDE DEF f
  <2>4. [c EXCEPT !.eng = f] \in Connection /\ [c EXCEPT !.eng = f].eng = f
    BY <2>3, WithEngine
  <2> QED BY <1>3, <2>3, <2>4 DEF f
<1> QED BY <1>1, <1>2, <1>3, ZenonT(30) DEF rollbackCopyTransaction, May

(* Reporting an error commits nothing.                                     *)
LEMMA ReportedSound ==
    ASSUME NEW c \in Connection, NEW d \in Reported(c)
    PROVE  d \in Connection /\ d.eng.committed = c.eng.committed
<1>1. Doomed(c.eng) \in Engine /\ Doomed(c.eng).committed = c.eng.committed
  BY EngineOperators DEF Connection
<1>2. CASE c.tx = "implicit"
  <2> DEFINE x == [c EXCEPT !.eng = Doomed(c.eng)]
  <2>1. x \in Connection /\ x.eng.committed = c.eng.committed
    BY <1>1, WithEngine
  <2>2. d \in rollbackImplicitTransaction(x)
    BY <1>2 DEF Reported
  <2> HIDE DEF x
  <2> QED BY <2>1, <2>2, RollbackImplicitSound
<1>3. CASE c.tx = "explicit"
  <2>1. d = [c EXCEPT !.tx = "failed", !.eng = Doomed(c.eng)]
    BY <1>3 DEF Reported
  <2> QED BY <1>1, <2>1, ZenonT(30) DEF Connection, TxStates
<1>4. CASE c.tx \notin {"implicit", "explicit"}
  BY <1>4 DEF Reported
<1> QED BY <1>2, <1>3, <1>4

(* Opening the implicit block commits nothing.                             *)
LEMMA StartedSound ==
    ASSUME NEW c \in Connection, c.eng.committed = {}, (c.eng.tran /\ ~c.eng.noAuto) => Untidy,
           NEW s \in Runnable, NEW o \in Run(startImplicitTransaction(c, s), s)
    PROVE  Sound(o)
<1> DEFINE d == startImplicitTransaction(c, s)
<1>1. d \in Connection /\ d.eng.committed = {} /\ ((d.eng.tran /\ ~d.eng.noAuto) => Untidy)
  <2>1. d = c \/ d = [c EXCEPT !.tx = "implicit", !.eng.noAuto = TRUE]
    BY DEF startImplicitTransaction
  <2>2. [c EXCEPT !.tx = "implicit", !.eng.noAuto = TRUE].eng.noAuto
    BY DEF Connection, Engine
  <2> QED BY <2>1, <2>2, Passing
<1> HIDE DEF d
<1>2. o \in Run(d, s)
  BY DEF d
<1> QED BY <1>1, <1>2, RunSound

(* The only statement of a Query, a DO block with its commit included.     *)
LEMMA OnlySound ==
    ASSUME NEW c \in Connection, c.eng.committed = {}, (c.eng.tran /\ ~c.eng.noAuto) => Untidy,
           NEW s \in Statements, NEW o \in Only(c, s)
    PROVE  Sound(o)
<1> DEFINE u == Unnaming(c)
<1>1. u \in Connection /\ u.eng = c.eng
  BY ZenonT(30) DEF Unnaming, Connection, Prepared
<1> HIDE DEF u
<1>2. Sound(Error(c)) /\ Sound(Done(u)) /\ Sound(Error(u))
  BY <1>1, Outcomes DEF NoneLeft
<1>3. CASE s \in {"bad", "empty"} \/ Rejected(c, s)
  BY <1>2, <1>3 DEF Only, u
<1>4. CASE s \notin {"bad", "empty", "do"} /\ ~Rejected(c, s)
  <2>1. o \in Run(u, s) /\ s \in Runnable
    BY <1>4 DEF Only, Statements, u
  <2> QED BY <1>1, <2>1, RunSound
<1>5. CASE s = "do" /\ ~Rejected(c, s)
  <2> DEFINE ran == Run(startImplicitTransaction(u, s), s)
  <2>1. \A r \in ran : Sound(r)
    BY <1>1, <1>5, StartedSound DEF Runnable, EngineStatements
  <2>2. o \in {r \in ran : r.err} \cup
              UNION {commitImplicitTransaction(r.conn) : r \in {x \in ran : ~x.err}}
    BY <1>5 DEF Only, u
  <2> HIDE DEF ran
  <2>3. ASSUME NEW r \in ran, o \in commitImplicitTransaction(r.conn) PROVE Sound(o)
    <3>1. r.conn \in Connection /\ NoneLeft(r.conn)
      BY <2>1 DEF Sound, Outcome
    <3> QED BY <2>3, <3>1, CommitImplicitSound
  <2> QED BY <2>1, <2>2, <2>3
<1> QED BY <1>3, <1>4, <1>5

(* One of several statements of a Query.                                   *)
LEMMA OneOfSound ==
    ASSUME NEW c \in Connection, c.eng.committed = {}, (c.eng.tran /\ ~c.eng.noAuto) => Untidy,
           NEW s \in Runnable, NEW last \in BOOLEAN, NEW o \in OneOf(c, s, last)
    PROVE  Sound(o)
<1>1. CASE Rejected(c, s)
  BY <1>1, Outcomes DEF OneOf, NoneLeft
<1>2. CASE ~Rejected(c, s) /\ Handled(c, s)
  <2>1. PICK r \in OutsideEngine(c, s) : o = [r EXCEPT !.eom = TRUE]
    BY <1>2 DEF OneOf
  <2>2. Sound(r)
    BY <1>2, OutsideEngineSound
  <2> QED BY <2>1, <2>2, ZenonT(30) DEF Sound, NoneLeft, Outcome
<1>3. CASE ~Rejected(c, s) /\ ~Handled(c, s)
  <2> DEFINE d == startImplicitTransaction(PassedOn(c, s), s)
             x == [d EXCEPT !.eng.noAuto = @ /\ (last => d.tx \in Blocks)]
  <2>1. d \in Connection /\ d.eng.committed = {}
    BY Passing
  <2>2. o \in InEngine(x, s)
    BY <1>3 DEF OneOf
  <2>5. s = "begin" => d.tx = "explicit"
    <3>1. s = "begin" => PassedOn(c, s).tx = "explicit"
      BY DEF PassedOn, Connection
    <3> QED BY <3>1, ZenonT(30) DEF startImplicitTransaction
  <2> HIDE DEF d
  <2>3. x \in Connection /\ x.eng.committed = {} /\ x.tx = d.tx
    BY <2>1, ZenonT(30) DEF Connection, Engine, Blocks
  <2>4. s \in EngineStatements
    BY <1>3 DEF Handled, Runnable
  <2> HIDE DEF x
  <2> QED BY <2>2, <2>3, <2>4, <2>5, InEngineSound
<1> QED BY <1>1, <1>2, <1>3

(* The commit after the last statement of a Query.                         *)
LEMMA FinalSound ==
    ASSUME NEW o, Sound(o), NEW p \in Final(o)
    PROVE  Sound(p)
<1>1. PICK r \in commitImplicitTransaction(o.conn) :
         p = [r EXCEPT !.eom = ~r.err, !.copyIn = o.copyIn]
  BY ZenonT(30) DEF Final
<1>2. o.conn \in Connection /\ NoneLeft(o.conn) /\ o.copyIn \in BOOLEAN
  BY DEF Sound, Outcome
<1>3. Sound(r)
  BY <1>2, CommitImplicitSound
<1> QED BY <1>1, <1>2, <1>3, ZenonT(30) DEF Sound, NoneLeft, Outcome

(* A CopyData message.                                                     *)
LEMMA CopyDataSound ==
    ASSUME NEW c \in Connection, c.eng.committed = {}, NEW o \in handleCopyData(c)
    PROVE  Sound(o)
<1> USE DEF NoneLeft
<1>1. c.eng \in Engine /\ c.copy \in Copy
  BY DEF Connection
<1>2. CASE c.copy.err
  BY <1>2, Outcomes, MoreSound DEF handleCopyData
<1>3. CASE ~c.copy.err /\ ~c.copy.on
  BY <1>3, Outcomes, SMTT(30) DEF handleCopyData
<1>4. CASE ~c.copy.err /\ c.copy.on
  <2> DEFINE chunks == handleCopyDataHelper(c.eng, c.copy)
             loaded(k) == [c EXCEPT !.eng = k.eng, !.copy = k.copy]
             broken(k) == [c EXCEPT !.eng = k.eng, !.copy = [k.copy EXCEPT !.err = TRUE]]
  <2>1. \A k \in chunks : /\ k.eng \in Engine /\ k.copy \in Copy /\ k.ok \in BOOLEAN
                          /\ k.eng.committed # {} => k.ok /\ ~k.eng.tran
    BY <1>1, ChunkSound, SMTT(30)
  <2>2. \/ \E k \in chunks : o = More(Done(loaded(k)))
        \/ \E k \in chunks : ~k.ok /\ \E d \in rollbackCopyTransaction(broken(k), k.copy.started) :
                                          o = More(Error(d))
    BY <1>4, ZenonT(30) DEF handleCopyData
  <2> HIDE DEF chunks
  <2>3. ASSUME NEW k \in chunks, o = More(Done(loaded(k))) PROVE Sound(o)
    <3>1. loaded(k) \in Connection /\ loaded(k).eng = k.eng
      BY <2>1, ZenonT(30) DEF Connection
    <3> HIDE DEF loaded
    <3>2. Sound(Done(loaded(k)))
      BY <2>1, <3>1, Outcomes
    <3> QED BY <2>3, <3>2, MoreSound
  <2>4. ASSUME NEW k \in chunks, ~k.ok,
               NEW d \in rollbackCopyTransaction(broken(k), k.copy.started), o = More(Error(d))
        PROVE  Sound(o)
    <3>1. [k.copy EXCEPT !.err = TRUE] \in Copy /\ k.copy.started \in BOOLEAN
      BY <2>1, ZenonT(30) DEF Copy
    <3>2. broken(k) \in Connection /\ broken(k).eng = k.eng
      BY <2>1, <3>1, ZenonT(30) DEF Connection
    <3> HIDE DEF broken
    <3>3. d \in Connection /\ d.eng.committed = {}
      BY <2>1, <2>4, <3>1, <3>2, RollbackCopySound
    <3> QED BY <2>4, <3>3, Outcomes
  <2> QED BY <2>2, <2>3, <2>4, ZenonT(30)
<1> QED BY <1>2, <1>3, <1>4

(* A CopyDone or a CopyFail message.                                       *)
LEMMA CopyEndSound ==
    ASSUME NEW c \in Connection, c.eng.committed = {},
           NEW o \in handleCopyDone(c) \cup handleCopyFail(c)
    PROVE  Sound(o)
<1> USE DEF NoneLeft
<1> DEFINE d == [c EXCEPT !.copy = NoCopy]
           undone == rollbackCopyTransaction(d, c.copy.started)
<1>1. d \in Connection /\ d.eng = c.eng /\ c.eng \in Engine /\ c.copy.started \in BOOLEAN
  BY ZenonT(30) DEF Connection, Copy, NoCopy
<1>2. \/ o \in {Error(c), More(Done(d)), Done([d EXCEPT !.eng = EngineCommit(@, TRUE)])}
      \/ \E a \in undone : o \in {Error(a), More(Error(a)), Done(a)}
  BY DEF handleCopyDone, handleCopyFail
<1> HIDE DEF d
<1>3. \A a \in undone : a \in Connection /\ a.eng.committed = {}
  BY <1>1, RollbackCopySound
<1> HIDE DEF undone
<1>4. Sound(Error(c)) /\ Sound(More(Done(d)))
  BY <1>1, Outcomes, MoreSound
<1>5. Sound(Done([d EXCEPT !.eng = EngineCommit(d.eng, TRUE)]))
  <2>1. EngineCommit(d.eng, TRUE) \in Engine /\ ~EngineCommit(d.eng, TRUE).tran
    BY <1>1, EngineControl, ZenonT(30)
  <2> QED BY <1>1, <2>1, EngineOutcomes, ZenonT(30)
<1>6. \A a \in undone : Sound(Error(a)) /\ Sound(More(Error(a))) /\ Sound(Done(a))
  BY <1>3, Outcomes
<1> QED BY <1>2, <1>4, <1>5, <1>6

-----------------------------------------------------------------------------
(* What every step preserves.                                              *)
IInv ==
    /\ TypeOK
    /\ pc = "script" => script # <<>>

(* What a server step that answers with an error has committed.            *)
ErrorStep == reply' = "error" => conn'.eng.committed = {} \/ Untidy

(* A server step starts from a connection that has committed nothing.      *)
LEMMA NowSound ==
    ASSUME TypeOK
    PROVE  /\ Now \in Connection /\ Now.eng.committed = {}
           /\ Waiting \in Connection /\ Waiting.eng.committed = {}
           /\ pc # "discard" => /\ (Now.eng.tran /\ ~Now.eng.noAuto) => Untidy
                                /\ (Waiting.eng.tran /\ ~Waiting.eng.noAuto) => Untidy
           /\ NoneLeft(Now) /\ NoneLeft(Waiting)
BY ZenonT(30) DEF TypeOK, Now, Waiting, Connection, Engine, Untidy, NoneLeft

(* Replies move the client between its states.                             *)
LEMMA ClientMoves ==
    ASSUME NEW cl \in ClientStates, NEW err \in BOOLEAN
    PROVE  CopyInSeen(cl) \in ClientStates /\ ReadySeen(cl, err) \in ClientStates
BY DEF ClientStates, CopyInSeen, ReadySeen

(* endOfMessages keeps the invariant, and an error it reports has          *)
(* committed nothing if the connection has not.                            *)
LEMMA EndOfMessagesStep ==
    ASSUME NEW c \in Connection, NEW err \in BOOLEAN, NEW cl \in ClientStates,
           err => c.eng.committed = {} \/ Untidy, endOfMessages(c, err, cl),
           script' \in Seq(Runnable), inbox' \in Seq(Messages)
    PROVE  IInv' /\ ErrorStep
<1>1. conn' \in Connection /\ (err => conn'.eng.committed = {} \/ Untidy)
  <2>1. CASE err  BY <2>1, ReportedSound DEF endOfMessages
  <2>2. CASE ~err BY <2>2 DEF endOfMessages
  <2> QED BY <2>1, <2>2
<1>2. client' \in ClientStates
  BY ClientMoves, ZenonT(30) DEF endOfMessages
<1>3. /\ reply' \in {"none", "ready", "error"} /\ (reply' = "error" => err)
      /\ pc' = "receive"
  BY DEF endOfMessages
<1> QED BY <1>1, <1>2, <1>3 DEF IInv, TypeOK, ErrorStep

(* So does the end of receiveMessage, for every sound outcome.             *)
LEMMA RespondStep ==
    ASSUME IInv, NEW o, Sound(o), Respond(o), inbox' \in Seq(Messages)
    PROVE  IInv' /\ ErrorStep
<1> DEFINE cl == IF o.copyIn THEN CopyInSeen(client) ELSE client
<1>1. cl \in ClientStates
  BY ClientMoves, ZenonT(30) DEF IInv, TypeOK
<1>2. /\ o.conn \in Connection /\ o.err \in BOOLEAN
      /\ o.err => o.conn.eng.committed = {} \/ Untidy
  BY DEF Sound, Outcome
<1>3. script' \in Seq(Runnable)
  BY DEF Respond
<1>4. \/ \E next \in {"discard", "receive"} : Quiet(o.conn, cl, next)
      \/ o.err /\ endOfMessages(o.conn, TRUE, cl)
      \/ endOfMessages(o.conn, FALSE, cl)
  BY ZenonT(30) DEF Respond
<1> HIDE DEF cl
<1>5. CASE \E next \in {"discard", "receive"} : Quiet(o.conn, cl, next)
  BY <1>1, <1>2, <1>3, <1>5 DEF Quiet, IInv, TypeOK, ErrorStep
<1>6. CASE o.err /\ endOfMessages(o.conn, TRUE, cl)
  BY <1>1, <1>2, <1>3, <1>6, EndOfMessagesStep, ZenonT(30)
<1>7. CASE endOfMessages(o.conn, FALSE, cl)
  BY <1>1, <1>2, <1>3, <1>7, EndOfMessagesStep, ZenonT(30)
<1> QED BY <1>4, <1>5, <1>6, <1>7, ZenonT(30)

(* The message received is well-typed, and so is the rest of the inbox.    *)
LEMMA ReceivesStep ==
    ASSUME TypeOK, NEW type, Receives(type)
    PROVE  /\ inbox' \in Seq(Messages)
           /\ Head(inbox) \in Messages /\ Head(inbox).type = type
BY DEF TypeOK, Receives

(* A Query message keeps the invariant.                                    *)
LEMMA QueryStep ==
    ASSUME IInv, ReceiveQuery \/ ReceiveScript
    PROVE  IInv' /\ ErrorStep
<1> DEFINE q == Head(inbox).text
<1>1. inbox' \in Seq(Messages) /\ Head(inbox) \in Messages /\ Head(inbox).type = "Query"
  BY ReceivesStep DEF ReceiveQuery, ReceiveScript, IInv
<1>2. q \in {<<s>> : s \in Statements} \cup Seq(Runnable)
  <2>1. q \in Scripts
    BY <1>1 DEF Messages, Extended
  <2> QED BY <2>1, InputAssumption
<1>3. Now \in Connection /\ Now.eng.committed = {} /\ ((Now.eng.tran /\ ~Now.eng.noAuto) => Untidy)
  <2>1. pc # "discard"
    BY ZenonT(30) DEF ReceiveQuery, ReceiveScript, Receives
  <2> QED BY <2>1, NowSound, ZenonT(30) DEF IInv
<1>4. CASE ReceiveQuery
  <2>1. PICK o \in Only(Now, Head(q)) : Respond(o)
    BY <1>4 DEF ReceiveQuery
  <2>2. Len(q) = 1
    BY <1>4 DEF ReceiveQuery
  <2>3. Head(q) \in Statements
    BY <1>2, <2>2 DEF Statements
  <2> HIDE DEF q
  <2>4. Sound(o)
    BY <1>3, <2>3, OnlySound
  <2> QED BY <1>1, <2>1, <2>4, RespondStep
<1>5. CASE ReceiveScript
  <2>1. q \in Seq(Runnable) /\ q # <<>>
    <3>1. Len(q) > 1
      BY <1>5 DEF ReceiveScript
    <3> HIDE DEF q
    <3>2. ASSUME NEW s \in Statements, q = <<s>> PROVE FALSE
      <4>1. Len(<<s>>) = 1
        OBVIOUS
      <4> QED BY <3>1, <3>2, <4>1
    <3>3. q \in Seq(Runnable)
      BY <1>2, <3>2
    <3>4. q # <<>>
      BY <3>1
    <3> QED BY <3>3, <3>4
  <2>2. Unnaming(Now) \in Connection
    BY <1>3, ZenonT(30) DEF Unnaming, Connection, Prepared
  <2> QED BY <1>1, <1>5, <2>1, <2>2 DEF ReceiveScript, Quiet, IInv, TypeOK, ErrorStep
<1> QED BY <1>4, <1>5

(* So does one statement of a script,                                      *)
LEMMA RunStatementStep ==
    ASSUME IInv, RunStatement
    PROVE  IInv' /\ ErrorStep
<1> DEFINE last == Len(script) = 1
<1>1. PICK o \in OneOf(Now, Head(script), last) :
          \/ o.err /\ Respond(o)
          \/ ~o.err /\ Len(script) = 1 /\ \E p \in Final(o) : Respond(p)
          \/ /\ ~o.err /\ Len(script) > 1
             /\ script' = Tail(script)
             /\ Quiet(o.conn, IF o.copyIn THEN CopyInSeen(client) ELSE client, "script")
  BY DEF RunStatement
<1>2. Head(script) \in Runnable /\ inbox' \in Seq(Messages)
  BY DEF RunStatement, IInv, TypeOK
<1>3. last \in BOOLEAN
  OBVIOUS
<1> HIDE DEF last
<1>4. Sound(o)
  <2>1. /\ Now \in Connection /\ Now.eng.committed = {}
        /\ (Now.eng.tran /\ ~Now.eng.noAuto) => Untidy
    BY NowSound, ZenonT(30) DEF IInv, RunStatement
  <2> QED BY <1>1, <1>2, <1>3, <2>1, OneOfSound
<1>5. CASE o.err /\ Respond(o)
  BY <1>2, <1>4, <1>5, RespondStep
<1>6. CASE \E p \in Final(o) : Respond(p)
  BY <1>2, <1>4, <1>6, FinalSound, RespondStep
<1>7. CASE /\ ~o.err /\ Len(script) > 1
           /\ script' = Tail(script)
           /\ Quiet(o.conn, IF o.copyIn THEN CopyInSeen(client) ELSE client, "script")
  <2>1. o.conn \in Connection
    BY <1>4 DEF Sound, Outcome
  <2>2. client' \in ClientStates
    BY <1>7, ClientMoves, ZenonT(30) DEF Quiet, IInv, TypeOK
  <2>3. script' \in Seq(Runnable) /\ script' # <<>>
    <3>1. script \in Seq(Runnable) /\ Len(script) > 1
      BY <1>7 DEF IInv, TypeOK
    <3>2. script # <<>>
      BY <3>1
    <3>3. Tail(script) \in Seq(Runnable) /\ Len(Tail(script)) = Len(script) - 1
      BY <3>1, <3>2
    <3>4. Len(Tail(script)) # 0
      BY <3>1, <3>3
    <3>5. Tail(script) # <<>>
      <4> DEFINE rest == Tail(script)
      <4>1. Len(<<>>) = 0
        OBVIOUS
      <4>2. Len(rest) # 0
        BY <3>4
      <4> HIDE DEF rest
      <4>3. rest # <<>>
        BY <4>1, <4>2
      <4> QED BY <4>3 DEF rest
    <3> QED BY <1>7, <3>3, <3>5
  <2> QED BY <1>2, <1>7, <2>1, <2>2, <2>3 DEF Quiet, IInv, TypeOK, ErrorStep
<1> QED BY <1>1, <1>5, <1>6, <1>7

(* each message of the extended protocol,                                  *)
LEMMA ExtendedStep ==
    ASSUME IInv,
           \/ ReceiveParse \/ ReceiveBind \/ ReceiveDescribe \/ ReceiveExecute
           \/ ReceiveClose \/ ReceiveFlush \/ ReceiveSync
    PROVE  IInv' /\ ErrorStep
<1> DEFINE m == Head(inbox)
<1>1. inbox' \in Seq(Messages) /\ m \in Messages
  BY ReceivesStep, ZenonT(30) DEF ReceiveParse, ReceiveBind, ReceiveDescribe, ReceiveExecute,
                      ReceiveClose, ReceiveFlush, ReceiveSync, IInv
<1>2. /\ Now \in Connection /\ Now.eng.committed = {}
      /\ Waiting \in Connection /\ Waiting.eng.committed = {}
      /\ (Waiting.eng.tran /\ ~Waiting.eng.noAuto) => Untidy
  <2>1. pc # "discard"
    BY ZenonT(30) DEF ReceiveParse, ReceiveBind, ReceiveDescribe, ReceiveExecute, ReceiveClose,
                      ReceiveFlush, ReceiveSync, Receives
  <2> QED BY <2>1, NowSound, ZenonT(30) DEF IInv
<1>3. Sound(Error(Waiting)) /\ Sound(Done(Waiting)) /\ Sound(Done(Now))
  BY <1>2, Outcomes DEF NoneLeft
<1>4. CASE ReceiveParse
  <2> DEFINE d == [Waiting EXCEPT !.prepared[m.name] = m.stmt]
  <2>1. m.name \in Names /\ m.stmt \in Statements
    <3>1. m.type = "Parse"
      BY <1>4 DEF ReceiveParse, Receives
    <3> QED BY <1>1, <3>1, InputAssumption DEF Messages, Extended
  <2>2. m.stmt # "bad" => d \in Connection /\ d.eng = Waiting.eng
    BY <1>2, <2>1 DEF Connection, Prepared, Statements
  <2>3. \/ m.stmt # "bad" /\ Respond(More(Done(d)))
        \/ Respond(More(Error(Waiting)))
    BY <1>4 DEF ReceiveParse
  <2> HIDE DEF d, m
  <2>4. m.stmt # "bad" => Sound(Done(d))
    BY <1>2, <2>2, Outcomes DEF NoneLeft
  <2> QED BY <1>1, <1>3, <2>3, <2>4, MoreSound, RespondStep
<1>5. CASE ReceiveBind
  <2> DEFINE s == conn.prepared[m.from]
             d == [Waiting EXCEPT !.portals[m.name] = s]
  <2>1. m.name \in Names /\ m.from \in Names
    <3>1. m.type = "Bind"
      BY <1>5 DEF ReceiveBind, Receives
    <3> QED BY <1>1, <3>1 DEF Messages, Extended
  <2>2. d \in Connection /\ d.eng = Waiting.eng
    BY <1>2, <2>1 DEF Connection, Prepared, IInv, TypeOK
  <2>3. Respond(More(Done(d))) \/ Respond(More(Error(Waiting)))
    BY <1>5 DEF ReceiveBind
  <2> HIDE DEF d
  <2>4. Sound(Done(d))
    BY <1>2, <2>2, Outcomes DEF NoneLeft
  <2> QED BY <1>1, <1>3, <2>3, <2>4, MoreSound, RespondStep
<1>6. CASE ReceiveDescribe
  <2>1. Respond(More(Done(Waiting))) \/ Respond(More(Error(Waiting)))
    BY <1>6 DEF ReceiveDescribe, Result
  <2> QED BY <1>1, <1>3, <2>1, MoreSound, RespondStep
<1>7. CASE ReceiveExecute
  <2> DEFINE s == conn.portals[m.name]
  <2>1. m.name \in Names
    <3>1. m.type = "Execute"
      BY <1>7 DEF ReceiveExecute, Receives
    <3> QED BY <1>1, <3>1 DEF Messages, Extended
  <2>2. s \in Runnable \cup {"empty", NotPrepared}
    BY <2>1, SMTT(30) DEF Connection, Prepared, IInv, TypeOK
  <2>3. PICK o \in IF s = NotPrepared THEN {Error(Waiting)}
                   ELSE IF s = "empty" THEN {Done(Waiting)}
                   ELSE IF Rejected(conn, s) THEN {Error(Waiting)}
                   ELSE Run(startImplicitTransaction(Waiting, s), s) : Respond(More(o))
    BY <1>7 DEF ReceiveExecute
  <2> HIDE DEF s
  <2>4. Sound(o)
    BY <1>2, <1>3, <2>2, <2>3, StartedSound
  <2> QED BY <1>1, <2>3, <2>4, MoreSound, RespondStep
<1>8. CASE ReceiveClose
  <2>1. m.name \in Names
    <3>1. m.type = "Close"
      BY <1>8 DEF ReceiveClose, Receives
    <3> QED BY <1>1, <3>1 DEF Messages, Extended
  <2>2. PICK d \in {[Now EXCEPT !.prepared[m.name] = NotPrepared],
                    [Now EXCEPT !.portals[m.name] = NotPrepared]} : Respond(More(Done(d)))
    BY <1>8 DEF ReceiveClose
  <2>3. d \in Connection /\ d.eng = Now.eng
    BY <1>2, <2>1, <2>2 DEF Connection, Prepared
  <2>4. Sound(Done(d))
    BY <1>2, <2>3, Outcomes DEF NoneLeft
  <2> QED BY <1>1, <2>2, <2>4, MoreSound, RespondStep
<1>9. CASE ReceiveFlush
  BY <1>1, <1>3, <1>9, MoreSound, RespondStep DEF ReceiveFlush
<1>10. CASE ReceiveSync
  <2> DEFINE d == [Now EXCEPT !.waitForSync = FALSE]
  <2>1. d \in Connection /\ d.eng = Now.eng
    BY <1>2, ZenonT(30) DEF Connection
  <2>2. PICK o \in commitImplicitTransaction(d) : Respond(o)
    BY <1>10 DEF ReceiveSync
  <2> HIDE DEF d
  <2>3. Sound(o)
    BY <1>2, <2>1, CommitImplicitSound DEF NoneLeft
  <2> QED BY <1>1, <2>2, <2>3, RespondStep
<1> QED BY <1>4, <1>5, <1>6, <1>7, <1>8, <1>9, <1>10

(* each COPY message,                                                      *)
LEMMA CopyStep ==
    ASSUME IInv,
           ReceiveCopyData \/ ReceiveCopyDone \/ ReceiveCopyFail \/ ReceiveFunctionCall
    PROVE  IInv' /\ ErrorStep
<1>1. inbox' \in Seq(Messages)
  BY ReceivesStep DEF ReceiveCopyData, ReceiveCopyDone, ReceiveCopyFail, ReceiveFunctionCall, IInv
<1>2. Now \in Connection /\ Now.eng.committed = {}
  BY NowSound DEF IInv
<1>3. PICK o \in handleCopyData(Now) \cup (handleCopyDone(Now) \cup handleCopyFail(Now))
                 \cup {Error(Now)} : Respond(o)
  BY DEF ReceiveCopyData, ReceiveCopyDone, ReceiveCopyFail, ReceiveFunctionCall
<1>4. Sound(o)
  BY <1>2, <1>3, CopyDataSound, CopyEndSound, Outcomes DEF NoneLeft
<1> QED BY <1>1, <1>3, <1>4, RespondStep

(* each message discarded up to the Sync,                                  *)
LEMMA DiscardStep ==
    ASSUME IInv, Discard
    PROVE  IInv' /\ ErrorStep
<1>1. /\ inbox' \in Seq(Messages) /\ script' \in Seq(Runnable) /\ client \in ClientStates
  BY DEF Discard, IInv, TypeOK
<1>2. Now \in Connection /\ Now.eng.committed = {}
  BY NowSound DEF IInv
<1>3. CASE endOfMessages(Now, TRUE, client)
  BY <1>1, <1>2, <1>3, EndOfMessagesStep, ZenonT(30)
<1>4. CASE Quiet(Now, client, "discard")
  BY <1>1, <1>2, <1>4 DEF Quiet, IInv, TypeOK, ErrorStep
<1> QED BY <1>3, <1>4, ZenonT(30) DEF Discard

(* A new connection is well-typed and has committed nothing.               *)
LEMMA FreshConnection == NewConnection \in Connection /\ NewConnection.eng.committed = {}
<1>1. NewEngine \in Engine /\ NewEngine.committed = {}
  BY DEF NewEngine, Engine
<1>2. NoCopy \in Copy
  BY DEF NoCopy, Copy
<1>3. NothingPrepared \in Prepared
  BY DEF NothingPrepared, Prepared
<1> QED BY <1>1, <1>2, <1>3 DEF NewConnection, Connection, TxStates

(* The end of a connection keeps the invariant,                            *)
LEMMA CloseStep ==
    ASSUME Closed
    PROVE  IInv' /\ ErrorStep
BY FreshConnection DEF Closed, IInv, TypeOK, ErrorStep, ClientStates

(* and so does the start of the next.                                      *)
LEMMA AcceptStep ==
    ASSUME IInv, Accept
    PROVE  IInv'
BY DEF Accept, IInv, TypeOK, ClientStates

(* Whatever the client sends keeps the invariant.                          *)
LEMMA ClientStep ==
    ASSUME IInv, Client
    PROVE  IInv'
<1>1. ASSUME NEW x \in Messages, NEW next \in ClientStates, Send(x, next)
      PROVE  IInv'
  BY <1>1 DEF Send, IInv, TypeOK
<1>2. CASE AbandonCopy
  BY <1>2 DEF AbandonCopy, IInv, TypeOK, ClientStates
<1>3. CASE SendQuery
  BY <1>1, <1>3 DEF SendQuery, Messages, ClientStates
<1>4. CASE SendExtended
  BY <1>1, <1>4 DEF SendExtended, Messages, ClientStates
<1>5. \A type \in {"Sync", "CopyData", "CopyDone", "CopyFail", "Terminate", "FunctionCall"} :
          Plain(type) \in Messages
  BY DEF Plain, Messages
<1>6. CASE SendSync \/ SendCopyData \/ SendFunctionCall \/ SendTerminate
  BY <1>1, <1>5, <1>6 DEF SendSync, SendCopyData, SendFunctionCall, SendTerminate, ClientStates
<1>7. CASE SendCopyEnd
  BY <1>1, <1>5, <1>7, InputAssumption DEF SendCopyEnd, ClientStates
<1> QED BY <1>2, <1>3, <1>4, <1>6, <1>7 DEF Client

(* The invariant holds initially,                                          *)
LEMMA InitIInv == Init => IInv
BY FreshConnection DEF Init, IInv, TypeOK, ClientStates

(* every server step keeps it and answers errors as it should,             *)
LEMMA ServerStep ==
    ASSUME IInv, Server
    PROVE  IInv' /\ ErrorStep
BY QueryStep, RunStatementStep, ExtendedStep, DiscardStep, CopyStep, CloseStep
   DEF Server, ReceiveTerminate

(* and every other step keeps it.                                          *)
LEMMA NextIInv == IInv /\ [Next]_vars => IInv'
<1> SUFFICES ASSUME IInv, [Next]_vars PROVE IInv'
  OBVIOUS
<1>1. CASE UNCHANGED vars
  BY <1>1 DEF vars, IInv, TypeOK
<1>2. CASE Client
  BY <1>2, ClientStep
<1>3. CASE Server
  BY <1>3, ServerStep
<1>4. CASE Lose \/ Accept
  BY <1>4, CloseStep, AcceptStep DEF Lose
<1> QED BY <1>1, <1>2, <1>3, <1>4 DEF Next

(* For every set of names, statements and failures, and every length of    *)
(* the input queue, the handler's state stays well-typed.                  *)
THEOREM TypeCorrect == Spec => []TypeOK
<1>1. IInv => TypeOK
  BY DEF IInv
<1> QED BY <1>1, InitIInv, NextIInv, PTL DEF Spec

(* Whatever the engine lets fail and whatever the client sends, a step     *)
(* answered with an ErrorResponse has committed nothing: the autocommit of *)
(* the last statement, the commit of the implicit block, and the commits   *)
(* of COPY all come after everything in the step that can fail.  The one   *)
(* exception is a step that finds a transaction open under autocommit,     *)
(* where COPY FROM file commits its rows before dataLoader.Finish can fail.*)
THEOREM ErrorStepCommitsNothing ==
    Spec => [][Server /\ ~Untidy /\ reply' = "error" => conn'.eng.committed = {}]_vars
<1>1. IInv /\ [Next]_vars
        => [Server /\ ~Untidy /\ reply' = "error" => conn'.eng.committed = {}]_vars
  BY ServerStep DEF ErrorStep
<1> QED BY <1>1, InitIInv, NextIInv, PTL DEF Spec

=============================================================================
