---------------------- MODULE LogicalReplicationProofs ----------------------
(***************************************************************************)
(* LogicalReplication: type correctness, FlushedIsApplied,                 *)
(* WholeTransactions, and that it implements OrderedDelivery, for any      *)
(* number of transactions, rows and failures.                              *)
(***************************************************************************)
EXTENDS LogicalReplication, TLAPS

(* The thread, its connection to the primary and the file go together.     *)
Thread ==
    /\ stream.on => proc.pc # "down"
    /\ proc.pc = "write" => stream.on
    /\ proc.pc # "down" => proc.lastWritten = file

(* No transaction to be applied lies between the file and t.               *)
Follows(t) == \A u \in Expected : u < t => u <= file

(* The stream goes on where the file ends ...                              *)
Position ==
    /\ file # Torn => slot <= file + 1
    /\ stream.on => file < stream.txn
    /\ stream.on /\ proc.pc # "write" => Follows(stream.txn)
    /\ proc.pc = "write" =>
          /\ stream.txn = proc.current + 1
          /\ stream.pos = 0
          /\ replica.rows = {}
          /\ \A u \in Expected : u <= proc.current => u \in Applied

(* ... within a transaction the replica has the rows sent so far ...       *)
InTransaction ==
    stream.on /\ proc.pc # "write" /\ stream.txn \in Expected /\ stream.pos > 0 =>
        /\ proc.processing
        /\ proc.current = stream.txn
        /\ replica.tx = "lost" \/
           (replica.tx = "open" /\ \A i \in 1 .. stream.pos - 2 : <<stream.txn, i>> \in replica.rows)

(* ... and what it has not committed belongs to the next transaction.      *)
Pending ==
    \A u \in Expected :
        /\ RowsOf(u) \cap replica.rows # {} => Follows(u)
        /\ replica.tx = "unfinished" =>
              RowsOf(u) \cap replica.rows = {} \/ u \in Applied \/ RowsOf(u) \subseteq replica.rows

IInv ==
    /\ TypeOK
    /\ Thread
    /\ FlushedIsApplied
    /\ WholeTransactions
    /\ trusted => Position /\ InTransaction /\ Pending

-----------------------------------------------------------------------------
(* Where a message of each kind stands in its transaction.                 *)
LEMMA Kinds ==
    ASSUME NEW t \in Txns, NEW i \in Nat, i <= Last(t)
    PROVE  /\ Kind(t, i) = "begin" => i = 0 /\ t \in Expected
           /\ Kind(t, i) = "row" => i \in 2 .. Rows[t] + 1
           /\ Kind(t, i) = "commit" => i = Rows[t] + 2 /\ t \in Expected
           /\ Kind(t, i) = "relation" => i = 1
           /\ Kind(t, i) = "streamStart" => i = 0 /\ t \notin Expected
           /\ Kind(t, i) = "streamStop" => i = Rows[t] + 2 /\ t \notin Expected
           /\ Kind(t, i) = "streamCommit" => i = Rows[t] + 3 /\ t \notin Expected
<1>1. Rows[t] \in Nat \ {0}
  BY ReplicationAssumption DEF Txns
<1>2. Last(t) = IF t \in Streamed THEN Rows[t] + 3 ELSE Rows[t] + 2
  BY DEF Last
<1>3. CASE i = 0
  BY <1>1, <1>3 DEF Kind, Expected
<1>4. CASE i = 1
  BY <1>1, <1>4 DEF Kind, Expected
<1>5. CASE i \in 2 .. Rows[t] + 1
  BY <1>1, <1>5 DEF Kind, Expected
<1>6. CASE i = Rows[t] + 2
  BY <1>1, <1>6 DEF Kind, Expected
<1>7. CASE i = Rows[t] + 3
  BY <1>1, <1>2, <1>7 DEF Kind, Expected
<1> QED
  BY <1>1, <1>2, <1>3, <1>4, <1>5, <1>6, <1>7

(* The message after the one received: the next of the transaction, or the *)
(* first of the next transaction.                                          *)
LEMMA AdvancedStream ==
    ASSUME TypeOK, stream.on, stream.txn \in Txns
    PROVE  LET s == Advanced(stream) IN
           /\ s \in [on : BOOLEAN, txn : 1 .. N + 1, pos : Nat]
           /\ s.on
           /\ s.txn \in Txns => s.pos <= Last(s.txn)
           /\ stream.pos # Last(stream.txn) => s.txn = stream.txn /\ s.pos = stream.pos + 1
           /\ stream.pos = Last(stream.txn) => s.txn = stream.txn + 1 /\ s.pos = 0
<1>1. \A t \in Txns : Last(t) \in Nat
  BY ReplicationAssumption DEF Last, Txns
<1>2. /\ stream \in [on : BOOLEAN, txn : 1 .. N + 1, pos : Nat]
      /\ stream.pos <= Last(stream.txn)
      /\ N \in Nat
  BY ReplicationAssumption DEF TypeOK
<1>3. CASE stream.pos = Last(stream.txn)
  BY <1>1, <1>2, <1>3 DEF Advanced, From, Txns
<1>4. CASE stream.pos # Last(stream.txn)
  BY <1>1, <1>2, <1>4 DEF Advanced, Txns
<1> QED
  BY <1>3, <1>4

(* handleErrWithRetry closes the connection to the primary; the thread     *)
(* tries again, or returns and closes the one to the replica as well.      *)
LEMMA Retry ==
    ASSUME NEW p \in Threads, NEW b \in BOOLEAN, NEW rep \in Replicas,
           handleErrWithRetry(p, b, rep)
    PROVE  /\ proc' \in Threads
           /\ stream' = NoStream
           /\ replica' \in Replicas
           /\ \/ proc'.pc = "down" /\ replica' = NewReplica
              \/ proc'.pc = "loop" /\ replica' = rep /\ proc'.lastWritten = p.lastWritten
<1>1. NewReplica \in Replicas
  BY DEF NewReplica, Replicas
<1>2. Stopped \in Threads /\ Stopped.pc = "down"
  BY ReplicationAssumption DEF Stopped, Threads
<1> DEFINE n == IF b THEN p.errs + 1 ELSE p.errs
<1>3. n \in Nat
  BY ReplicationAssumption DEF Threads
<1>4. CASE n < maxConsecutiveFailures
  <2>1. /\ proc' = [p EXCEPT !.errs = n, !.pc = "loop"]
        /\ stream' = NoStream
        /\ replica' = rep
    BY <1>4 DEF handleErrWithRetry
  <2>2. n \in 0 .. maxConsecutiveFailures - 1
    BY <1>3, <1>4, ReplicationAssumption
  <2> HIDE DEF n
  <2> QED
    BY <2>1, <2>2, ZenonT(30) DEF Threads
<1>5. CASE ~(n < maxConsecutiveFailures)
  BY <1>1, <1>2, <1>5 DEF handleErrWithRetry, Returns
<1> QED
  BY <1>4, <1>5

(* What StartReplication leaves behind when it returns.                    *)
LEMMA Return ==
    ASSUME Returns
    PROVE  /\ proc' \in Threads
           /\ stream' = NoStream
           /\ replica' \in Replicas
           /\ proc'.pc = "down" /\ replica' = NewReplica
BY ReplicationAssumption DEF Returns, Stopped, Threads, NewReplica, Replicas

(* A row that is received is a change of the primary's transaction.        *)
LEMMA ReceivedRow ==
    ASSUME TypeOK, Receives("row")
    PROVE  /\ <<stream.txn, stream.pos - 1>> \in RowsOf(stream.txn)
           /\ <<stream.txn, stream.pos - 1>> \in Changes
<1>1. stream.txn \in Txns /\ stream.pos \in Nat /\ stream.pos <= Last(stream.txn)
  BY DEF TypeOK, Receives
<1>2. stream.pos \in 2 .. Rows[stream.txn] + 1
  BY <1>1, Kinds DEF Receives
<1>3. Rows[stream.txn] \in Nat
  BY <1>1, ReplicationAssumption
<1> QED
  BY <1>1, <1>2, <1>3 DEF RowsOf, Changes

-----------------------------------------------------------------------------
(* Every step keeps the types: LSNs stay within the primary's log, the     *)
(* error count below its limit.                                            *)
LEMMA TypeStep == TypeOK /\ [Next]_vars => TypeOK'
<1> SUFFICES ASSUME TypeOK, [Next]_vars
             PROVE  TypeOK'
  OBVIOUS
<1> USE ReplicationAssumption
<1>1. /\ slot \in 1 .. N + 1
      /\ stream \in [on : BOOLEAN, txn : 1 .. N + 1, pos : Nat]
      /\ stream.txn \in Txns => stream.pos <= Last(stream.txn)
      /\ proc \in Threads
      /\ replica \in Replicas
      /\ db \in SUBSET Changes
      /\ file \in Torn .. N
      /\ left \in 0 .. MaxFaults
      /\ trusted \in BOOLEAN
  BY DEF TypeOK
<1>2. /\ NoStream \in [on : BOOLEAN, txn : 1 .. N + 1, pos : Nat]
      /\ NoStream.txn \in Txns => NoStream.pos <= Last(NoStream.txn)
  BY DEF NoStream, Txns, Last
<1>3. \A f : Fault(f) => left' \in 0 .. MaxFaults
  BY <1>1 DEF Fault
<1>4. Heard \in Threads /\ Heard.lastWritten = proc.lastWritten
  BY <1>1, ZenonT(30) DEF Heard, Threads
<1>5. /\ NewReplica \in Replicas /\ LostReplica \in Replicas /\ FailedReplica \in Replicas
      /\ \A rows \in {replica.rows, {}} : [tx |-> "unfinished", rows |-> rows] \in Replicas
      /\ Begun(replica) \in Replicas /\ BeginCommits(replica) \subseteq SUBSET Changes
      /\ replica.rows \in SUBSET Changes
  BY <1>1 DEF NewReplica, LostReplica, FailedReplica, Replicas, Begun, BeginCommits
<1>6. ASSUME NEW kind, Receives(kind), NEW p \in Threads,
             NEW pc \in {"loop", "write", "status"}, Processed(p, pc)
      PROVE  /\ proc' \in Threads
             /\ stream' \in [on : BOOLEAN, txn : 1 .. N + 1, pos : Nat]
             /\ stream'.txn \in Txns => stream'.pos <= Last(stream'.txn)
  <2>1. stream.on /\ stream.txn \in Txns
    BY <1>6 DEF Receives
  <2>2. proc' \in Threads
    BY <1>6 DEF Processed, Threads
  <2> QED
    BY <1>6, <2>1, <2>2, AdvancedStream DEF Processed
<1>7. ASSUME NEW kind, Receives(kind)
      PROVE  UNCHANGED <<slot, file, trusted>> /\ stream.txn \in Txns
  BY <1>7 DEF Receives
<1>8. CASE StartReplication
  <2>1. proc' \in Threads
    <3>1. CASE file = Torn
      BY <1>1, <1>8, <3>1 DEF StartReplication
    <3>2. CASE file # Torn
      <4>1. file \in 0 .. N /\ 0 \in 0 .. maxConsecutiveFailures - 1 /\ 0 \in 0 .. N
        BY <1>1, <3>2 DEF Torn
      <4>2. proc' = [Stopped EXCEPT !.pc = "loop", !.lastWritten = file]
        BY <1>8, <3>2 DEF StartReplication
      <4> QED
        BY <4>1, <4>2, ZenonT(30) DEF Threads, Stopped
    <3> QED
      BY <3>1, <3>2
  <2> QED
    BY <1>1, <1>8, <2>1 DEF StartReplication, TypeOK
<1>9. CASE beginReplication
  <2>1. Larger(slot, StartLSN) \in 1 .. N + 1
    BY <1>1 DEF Larger, StartLSN, Threads
  <2>2. PICK t \in 1 .. N + 1 : stream' = From(t) /\ trusted' \in BOOLEAN
    <3> DEFINE s == Larger(slot, StartLSN)
    <3>1. PICK t \in {u \in slot .. s : u = s \/ "resend" \in Faults} :
             stream' = From(t) /\ trusted' = (trusted /\ t = s)
      BY <1>9 DEF beginReplication
    <3> QED
      BY <1>1, <2>1, <3>1
  <2>3. stream' \in [on : BOOLEAN, txn : 1 .. N + 1, pos : Nat] /\ stream'.pos = 0 /\ stream'.txn = t
    BY <2>2 DEF From
  <2>4. t \in Txns => 0 <= Last(t)
    BY DEF Last, Txns
  <2> QED
    BY <1>1, <1>9, <2>2, <2>3, <2>4 DEF beginReplication, TypeOK
<1>10. CASE beginReplicationFails
  BY <1>1, <1>2, <1>3, <1>10, Retry, ZenonT(30) DEF beginReplicationFails, TypeOK
<1>11. CASE sendStandbyStatusUpdate
  <2>1. Larger(slot, WALFlushPosition) \in 1 .. N + 1
    BY <1>1 DEF Larger, WALFlushPosition, Threads
  <2>2. [proc EXCEPT !.pc = "loop"] \in Threads
    BY <1>1 DEF Threads
  <2> QED
    BY <1>1, <1>2, <1>3, <1>11, <2>1, <2>2, Retry, ZenonT(30) DEF sendStandbyStatusUpdate, TypeOK
<1>12. CASE Keepalive
  BY <1>1, <1>4, <1>12 DEF Keepalive, Heard, TypeOK
<1>13. CASE ReceiveBegin
  <2>1. /\ [Heard EXCEPT !.processing = FALSE] \in Threads
        /\ [Heard EXCEPT !.processing = TRUE, !.current = stream.txn] \in Threads
    <3>1. stream.txn \in 0 .. N
      BY <1>7, <1>13 DEF ReceiveBegin, Txns
    <3> QED
      BY <1>4, <3>1, ZenonT(30) DEF Threads
  <2>2. Receives("begin")
    BY <1>13 DEF ReceiveBegin
  <2>3. /\ proc' \in Threads
        /\ stream' \in [on : BOOLEAN, txn : 1 .. N + 1, pos : Nat]
        /\ stream'.txn \in Txns => stream'.pos <= Last(stream'.txn)
        /\ replica' \in Replicas
        /\ db' \in SUBSET Changes
    <3>1. CASE Processed([Heard EXCEPT !.processing = FALSE], "status") /\ UNCHANGED <<replica, db>>
      BY <1>1, <1>6, <2>1, <2>2, <3>1
    <3>2. CASE /\ Processed([Heard EXCEPT !.processing = TRUE, !.current = stream.txn], "status")
               /\ replica' = Begun(replica)
               /\ \E rows \in BeginCommits(replica) : db' = db \cup rows
      BY <1>1, <1>5, <1>6, <2>1, <2>2, <3>2
    <3>3. CASE /\ handleErrWithRetry([Heard EXCEPT !.processing = TRUE, !.current = stream.txn], TRUE, replica)
               /\ UNCHANGED db
      BY <1>1, <1>2, <2>1, <3>3, Retry, ZenonT(30)
    <3> QED
      BY <1>13, <3>1, <3>2, <3>3, ZenonT(30) DEF ReceiveBegin
  <2> QED
    BY <1>1, <1>7, <1>13, <2>2, <2>3 DEF ReceiveBegin, TypeOK
<1>14. CASE ReceiveRelation
  <2>1. [Heard EXCEPT !.relations = @ \/ proc.inStream = (stream.txn \in Streamed)] \in Threads
    BY <1>4, ZenonT(30) DEF Threads
  <2> QED
    BY <1>1, <1>6, <1>7, <1>14, <2>1 DEF ReceiveRelation, TypeOK
<1>15. CASE ReceiveRow
  <2> DEFINE r == <<stream.txn, stream.pos - 1>>
  <2>1. Receives("row") /\ r \in Changes
    BY <1>15, ReceivedRow DEF ReceiveRow
  <2>2. CASE Ignored
    BY <1>1, <1>4, <1>6, <1>7, <2>1, <2>2 DEF Ignored, TypeOK
  <2>3. CASE Returns /\ UNCHANGED <<db, left>>
    BY <1>1, <1>2, <1>7, <2>1, <2>3, Return DEF TypeOK
  <2>4. CASE /\ replica' = [replica EXCEPT !.rows = IF replica.tx = "idle" THEN @ ELSE @ \cup {r}]
             /\ db' = IF replica.tx = "idle" THEN db \cup {r} ELSE db
             /\ Processed(Heard, "status")
             /\ UNCHANGED left
    <3>1. replica' \in Replicas /\ db' \in SUBSET Changes
      BY <1>1, <2>1, <2>4 DEF Replicas
    <3> QED
      BY <1>1, <1>4, <1>6, <1>7, <2>1, <2>4, <3>1 DEF TypeOK
  <2>5. CASE /\ UNCHANGED left \/ Fault("row")
             /\ handleErrWithRetry(Heard, TRUE, IF replica.tx = "open" THEN FailedReplica ELSE replica)
             /\ UNCHANGED db
    <3>1. (IF replica.tx = "open" THEN FailedReplica ELSE replica) \in Replicas
      BY <1>1, <1>5
    <3> QED
      BY <1>1, <1>2, <1>3, <1>4, <1>7, <2>1, <2>5, <3>1, Retry, ZenonT(30) DEF TypeOK
  <2> QED
    BY <1>15, <2>2, <2>3, <2>4, <2>5, ZenonT(30) DEF ReceiveRow
<1>16. CASE ReceiveCommit
  <2>1. Receives("commit") /\ [Heard EXCEPT !.processing = FALSE] \in Threads
    BY <1>4, <1>16, ZenonT(30) DEF ReceiveCommit, Threads
  <2>2. CASE /\ db' = db \cup replica.rows
             /\ replica' = NewReplica
             /\ Processed([Heard EXCEPT !.processing = FALSE], "write")
             /\ UNCHANGED left
    BY <1>1, <1>5, <1>6, <1>7, <2>1, <2>2 DEF TypeOK
  <2>3. CASE UNCHANGED <<db, left>> /\ handleErrWithRetry(Heard, TRUE, replica)
    BY <1>1, <1>2, <1>4, <1>7, <2>1, <2>3, Retry, ZenonT(30) DEF TypeOK
  <2>4. CASE /\ Fault("commit") /\ UNCHANGED db
             /\ \E rows \in {replica.rows, {}} :
                   handleErrWithRetry(Heard, TRUE, [tx |-> "unfinished", rows |-> rows])
    BY <1>1, <1>2, <1>3, <1>4, <1>5, <1>7, <2>1, <2>4, Retry, ZenonT(30) DEF TypeOK
  <2>5. CASE /\ Fault("commitLost") /\ db' = db \cup replica.rows
             /\ handleErrWithRetry(Heard, TRUE, LostReplica)
    BY <1>1, <1>2, <1>3, <1>4, <1>5, <1>7, <2>1, <2>5, Retry, ZenonT(30) DEF TypeOK
  <2> QED
    BY <1>16, <2>2, <2>3, <2>4, <2>5, ZenonT(30) DEF ReceiveCommit
<1>17. CASE ReceiveStreamStart \/ ReceiveStreamStop \/ ReceiveStreamCommit
  <2>1. \A b \in BOOLEAN : [Heard EXCEPT !.inStream = b] \in Threads
    BY <1>4 DEF Threads
  <2> QED
    BY <1>1, <1>4, <1>6, <1>7, <1>17, <2>1, ZenonT(30)
       DEF ReceiveStreamStart, ReceiveStreamStop, ReceiveStreamCommit, Ignored, TypeOK
<1>18. CASE writeWALPosition
  <2>1. /\ [proc EXCEPT !.lastWritten = proc.current, !.pc = "status"] \in Threads
        /\ proc.current \in Torn .. N /\ Torn \in Torn .. N
    <3>1. proc.current \in 0 .. N
      BY <1>1 DEF Threads
    <3>2. [proc EXCEPT !.lastWritten = proc.current, !.pc = "status"] \in Threads
      BY <1>1, <3>1, ZenonT(30) DEF Threads
    <3> QED
      BY <3>1, <3>2 DEF Torn
  <2> QED
    BY <1>1, <1>2, <1>3, <1>18, <2>1, Return DEF writeWALPosition, TypeOK
<1>19. CASE Timeout
  BY <1>1, <1>3, <1>19, AdvancedStream, ZenonT(30) DEF Timeout, TypeOK
<1>20. CASE LosePrimary
  BY <1>1, <1>2, <1>3, <1>20, Retry, ZenonT(30) DEF LosePrimary, TypeOK
<1>21. CASE RestartPrimary
  BY <1>1, <1>3, <1>21 DEF RestartPrimary, TypeOK
<1>22. CASE LoseReplica
  BY <1>1, <1>3, <1>5, <1>22 DEF LoseReplica, TypeOK
<1>23. CASE Halt
  BY <1>1, <1>2, <1>3, <1>23, Return DEF Halt, TypeOK
<1>24. CASE UNCHANGED vars
  BY <1>1, <1>24 DEF vars, TypeOK
<1> QED
  BY <1>8, <1>9, <1>10, <1>11, <1>12, <1>13, <1>14, <1>15, <1>16, <1>17, <1>18, <1>19,
     <1>20, <1>21, <1>22, <1>23, <1>24 DEF Next, Loop, processMessage

-----------------------------------------------------------------------------
(* What a step does to the set of applied transactions: nothing, or it     *)
(* adds the next one.                                                      *)
AppliesNext ==
    \/ Applied' = Applied
    \/ \E t \in Expected \ Applied :
          /\ {u \in Expected : u < t} \subseteq Applied
          /\ Applied' = Applied \cup {t}

(* Changes that are committed together without breaking a transaction.     *)
Commits(R) ==
    \A u \in Expected : RowsOf(u) \cap R # {} =>
        Follows(u) /\ (u \in Applied \/ RowsOf(u) \subseteq R)

(* Such a commit applies at most the next transaction, and applies it      *)
(* whole.                                                                  *)
LEMMA Committing ==
    ASSUME TypeOK, trusted, FlushedIsApplied, WholeTransactions,
           NEW R, Commits(R), db' = db \cup R
    PROVE  WholeTransactions' /\ AppliesNext
<1>1. \A u \in Expected : u \in Applied => u \in Applied'
  BY DEF Applied
<1>2. WholeTransactions'
  <2> SUFFICES ASSUME NEW t \in Expected
               PROVE  RowsOf(t) \cap db' = {} \/ t \in Applied'
    BY DEF WholeTransactions
  <2>1. CASE RowsOf(t) \cap R = {}
    BY <1>1, <2>1 DEF WholeTransactions
  <2>2. CASE RowsOf(t) \cap R # {}
    BY <1>1, <2>2 DEF Commits, Applied
  <2> QED
    BY <2>1, <2>2
<1>3. ASSUME NEW u \in Applied', u \notin Applied
      PROVE  u \in Expected /\ Follows(u)
  BY <1>3 DEF Applied, Commits
<1>4. \A u \in Expected : u \in Int
  BY DEF Expected, Txns
<1>5. \A u \in Expected : u <= file => u \in Applied
  BY DEF FlushedIsApplied
<1>6. ASSUME Applied' # Applied
      PROVE  AppliesNext
  <2>1. PICK t \in Applied' : t \notin Applied
    BY <1>1, <1>6 DEF Applied
  <2>2. t \in Expected /\ Follows(t)
    BY <1>3, <2>1
  <2>3. {u \in Expected : u < t} \subseteq Applied
    BY <1>5, <2>2 DEF Follows
  <2>4. ASSUME NEW v \in Applied', v \notin Applied
        PROVE  v = t
    <3>1. v \in Expected /\ Follows(v)
      BY <1>3, <2>4
    <3>2. ~(v < t) /\ ~(t < v)
      BY <1>5, <2>1, <2>2, <2>4, <3>1 DEF Follows
    <3> QED
      BY <1>4, <2>2, <3>1, <3>2
  <2>5. Applied \subseteq Applied'
    BY <1>1 DEF Applied
  <2>6. Applied' = Applied \cup {t}
    BY <2>1, <2>4, <2>5
  <2> QED
    BY <2>1, <2>2, <2>3, <2>6 DEF AppliesNext
<1> QED
  BY <1>2, <1>6 DEF AppliesNext

(* A step that leaves the database alone keeps what is said of it.         *)
LEMMA SameDatabase ==
    ASSUME db' = db, trusted' => trusted
    PROVE  /\ Applied' = Applied
           /\ WholeTransactions => WholeTransactions'
BY DEF Applied, WholeTransactions

(* Pending only speaks of uncommitted changes.                             *)
LEMMA NothingPending ==
    ASSUME replica'.rows = {}
    PROVE  Pending'
BY DEF Pending

(* It survives steps that keep them and the file.                          *)
LEMMA SamePending ==
    ASSUME Pending, file' = file, replica' = replica, db \subseteq db'
    PROVE  Pending'
<1>1. \A u \in Expected : u \in Applied => u \in Applied'
  BY DEF Applied
<1>2. \A u \in Expected : Follows(u) => Follows(u)'
  BY DEF Follows
<1> QED
  BY <1>1, <1>2 DEF Pending

(* Losing the connection to the primary, or both, keeps the invariant.     *)
LEMMA Disconnect ==
    ASSUME IInv, TypeOK', stream' = NoStream, trusted' = trusted,
           slot' <= slot, file' \in {file, Torn}, db \subseteq db',
           proc'.pc = "down" \/ (proc'.pc = "loop" /\ proc'.lastWritten = file /\ file' = file),
           WholeTransactions', trusted => Pending'
    PROVE  IInv'
<1>1. TypeOK /\ FlushedIsApplied /\ (trusted => Position)
  BY DEF IInv
<1>2. slot \in Int /\ slot' \in Int /\ file \in Int /\ file' \in Int /\ Torn = -1
      /\ \A u \in Expected : u \in 1 .. N
  BY <1>1 DEF TypeOK, Torn, Expected, Txns
<1>3. stream'.on = FALSE
  BY DEF NoStream
<1>4. FlushedIsApplied'
  <2>1. \A u \in Expected : u \in Applied => u \in Applied'
    BY DEF Applied
  <2>2. \A u \in Expected : u < slot' \/ u <= file' => u < slot \/ u <= file
    BY <1>2
  <2> QED
    BY <1>1, <2>1, <2>2 DEF FlushedIsApplied
<1>5. Thread'
  BY <1>3 DEF Thread
<1>6. trusted => Position'
  <2>1. trusted /\ file # Torn => slot <= file + 1
    BY <1>1 DEF Position
  <2>2. trusted /\ file' # Torn => slot' <= file' + 1
    <3> SUFFICES ASSUME trusted, file' # Torn PROVE slot' <= file' + 1
      OBVIOUS
    <3>1. file' = file
      OBVIOUS
    <3>2. slot <= file + 1 /\ slot' <= slot
      BY <2>1, <3>1
    <3> QED
      BY <1>2, <3>1, <3>2
  <2>3. proc'.pc # "write"
    OBVIOUS
  <2> QED
    BY <1>3, <2>2, <2>3 DEF Position
<1>7. InTransaction'
  BY <1>3 DEF InTransaction
<1> QED
  BY <1>4, <1>5, <1>6, <1>7 DEF IInv

(* So does processing a message that is not a Commit.                      *)
LEMMA Continue ==
    ASSUME IInv, TypeOK', NEW kind, Receives(kind), kind # "commit",
           stream' = Advanced(stream), proc'.pc = "status",
           proc'.lastWritten = proc.lastWritten, db \subseteq db',
           WholeTransactions', trusted => InTransaction' /\ Pending'
    PROVE  IInv'
<1>1. TypeOK /\ FlushedIsApplied /\ Thread /\ (trusted => Position)
  BY DEF IInv
<1>2. /\ proc.pc = "loop" /\ stream.on /\ stream.txn \in Txns
      /\ Kind(stream.txn, stream.pos) = kind
      /\ slot' = slot /\ file' = file /\ trusted' = trusted
  BY DEF Receives
<1>3. stream.pos = Last(stream.txn) => stream.txn \notin Expected
  <2> SUFFICES ASSUME stream.pos = Last(stream.txn), stream.txn \in Expected
               PROVE  FALSE
    OBVIOUS
  <2>1. stream.pos = Rows[stream.txn] + 2 /\ Rows[stream.txn] \in Nat \ {0}
    BY <1>2, ReplicationAssumption DEF Last, Expected
  <2>2. Kind(stream.txn, stream.pos) = "commit"
    BY <2>1 DEF Kind, Expected
  <2> QED
    BY <1>2, <2>2
<1>4. FlushedIsApplied'
  BY <1>1, <1>2 DEF FlushedIsApplied, Applied
<1>5. stream'.on /\ (stream'.txn = stream.txn \/
                     (stream'.txn = stream.txn + 1 /\ stream.txn \notin Expected))
  BY <1>1, <1>2, <1>3, AdvancedStream
<1>6. Thread'
  BY <1>1, <1>2, <1>5 DEF Thread
<1>7. trusted => Position'
  <2> SUFFICES ASSUME trusted PROVE Position'
    OBVIOUS
  <2>1. file < stream.txn /\ Follows(stream.txn) /\ (file # Torn => slot <= file + 1)
    BY <1>1, <1>2 DEF Position
  <2>2. file \in Int /\ stream.txn \in Int /\ \A u \in Expected : u \in Int
    BY <1>1, <1>2 DEF TypeOK, Torn, Expected, Txns
  <2>3. file < stream'.txn
    BY <1>5, <2>1, <2>2
  <2>4. \A u \in Expected : u < stream'.txn => u <= file
    BY <1>5, <2>1, <2>2 DEF Follows
  <2> QED
    BY <1>2, <2>1, <2>3, <2>4 DEF Position, Follows
<1> QED
  BY <1>2, <1>4, <1>6, <1>7 DEF IInv

-----------------------------------------------------------------------------
(* The state when a message of a transaction is received.                  *)
LEMMA Receiving ==
    ASSUME IInv, NEW kind, Receives(kind)
    PROVE  /\ TypeOK /\ FlushedIsApplied /\ WholeTransactions
           /\ trusted => Position /\ InTransaction /\ Pending
           /\ proc \in Threads /\ replica \in Replicas /\ Heard \in Threads
           /\ Heard = [proc EXCEPT !.heard = TRUE]
           /\ proc.pc = "loop" /\ stream.on /\ stream.txn \in Txns
           /\ stream.pos \in Nat /\ stream.pos <= Last(stream.txn)
           /\ Rows[stream.txn] \in Nat \ {0}
           /\ Kind(stream.txn, stream.pos) = kind
           /\ slot' = slot /\ file' = file /\ trusted' = trusted
           /\ slot \in Int /\ file \in Int /\ stream.txn \in Int
           /\ proc.lastWritten = file /\ Heard.lastWritten = file
           /\ trusted => file < stream.txn /\ Follows(stream.txn)
           /\ \A u \in Expected : u \in Int
<1>1. TypeOK /\ Thread /\ proc \in Threads /\ replica \in Replicas
  BY DEF IInv, TypeOK
<1>2. Heard \in Threads /\ Heard.lastWritten = proc.lastWritten
  BY <1>1, ZenonT(30) DEF Heard, Threads
<1>3. proc.pc = "loop" /\ stream.on /\ stream.txn \in Txns
  BY DEF Receives
<1>4. proc.lastWritten = file
  BY <1>1, <1>3 DEF Thread
<1>5. /\ stream.pos \in Nat /\ stream.pos <= Last(stream.txn)
      /\ Rows[stream.txn] \in Nat \ {0}
      /\ slot \in Int /\ file \in Int /\ stream.txn \in Int
      /\ \A u \in Expected : u \in Int
  BY <1>1, <1>3, ReplicationAssumption DEF TypeOK, Torn, Txns, Expected
<1>6. trusted => file < stream.txn /\ Follows(stream.txn)
  BY <1>3 DEF IInv, Position
<1> QED
  BY <1>1, <1>2, <1>3, <1>4, <1>5, <1>6 DEF IInv, Receives, Heard

(* An error while a message is processed: the thread tries again with the  *)
(* replica connection in the state rep, or returns.                        *)
LEMMA RetryStep ==
    ASSUME IInv, TypeOK', NEW kind, Receives(kind), NEW p \in Threads,
           p.lastWritten = proc.lastWritten, NEW rep \in Replicas,
           handleErrWithRetry(p, TRUE, rep),
           db \subseteq db', WholeTransactions',
           trusted /\ replica' = rep => Pending'
    PROVE  IInv'
<1>1. /\ stream' = NoStream
      /\ \/ proc'.pc = "down" /\ replica' = NewReplica
         \/ proc'.pc = "loop" /\ replica' = rep /\ proc'.lastWritten = p.lastWritten
  BY Retry, ZenonT(30)
<1>2. slot' = slot /\ file' = file /\ trusted' = trusted /\ slot \in Int /\ proc.lastWritten = file
  BY Receiving
<1>3. replica' = NewReplica => Pending'
  BY NothingPending DEF NewReplica
<1>4. slot' <= slot
  BY <1>2
<1> QED
  BY <1>1, <1>2, <1>3, <1>4, Disconnect

(* Begin: the transaction is opened; what a failed COMMIT left behind is   *)
(* committed first, and is that same transaction.                          *)
LEMMA BeginStep ==
    ASSUME IInv, TypeOK', ReceiveBegin
    PROVE  IInv' /\ (trusted => AppliesNext)
<1>1. Receives("begin")
  BY DEF ReceiveBegin
<1> DEFINE p == [Heard EXCEPT !.processing = TRUE, !.current = stream.txn]
<1> DEFINE q == [Heard EXCEPT !.processing = FALSE]
<1>2. /\ p \in Threads /\ p.lastWritten = proc.lastWritten
      /\ q \in Threads /\ q.lastWritten = proc.lastWritten
      /\ p.processing = TRUE /\ p.current = stream.txn
  <2>1. stream.txn \in 0 .. N /\ Heard \in Threads /\ Heard.lastWritten = proc.lastWritten
    BY <1>1, Receiving DEF Txns
  <2> QED
    BY <2>1, ZenonT(30) DEF Threads
<1>3. stream.pos = 0 /\ stream.txn \in Expected /\ stream.pos # Last(stream.txn)
  <2>1. stream.pos = 0 /\ stream.txn \in Expected
    BY <1>1, Receiving, Kinds
  <2> QED
    BY <1>1, <2>1, Receiving DEF Last
<1>4. CASE proc.lastWritten > stream.txn /\ Processed(q, "status") /\ UNCHANGED <<replica, db>>
  <2>1. ~trusted
    BY <1>1, <1>4, Receiving
  <2>2. stream' = Advanced(stream) /\ proc'.pc = "status" /\ proc'.lastWritten = proc.lastWritten
    BY <1>2, <1>4 DEF Processed, Threads
  <2>3. WholeTransactions'
    BY <1>1, <2>1, Receiving, ZenonT(30) DEF WholeTransactions
  <2> QED
    BY <1>1, <1>4, <2>1, <2>2, <2>3, Continue
<1>5. CASE /\ Processed(p, "status") /\ replica' = Begun(replica)
           /\ \E rows \in BeginCommits(replica) : db' = db \cup rows
  <2>1. /\ stream' = Advanced(stream) /\ proc'.pc = "status"
        /\ proc'.lastWritten = proc.lastWritten
        /\ proc'.processing = TRUE /\ proc'.current = stream.txn
    BY <1>2, <1>5 DEF Processed, Threads
  <2>2. stream'.txn = stream.txn /\ stream'.pos = 1
    BY <1>1, <1>3, <2>1, AdvancedStream, Receiving
  <2>3. replica'.tx = "open" /\ replica'.rows = IF replica.tx = "open" THEN replica.rows ELSE {}
    BY <1>5 DEF Begun
  <2>4. InTransaction'
    BY <2>1, <2>2, <2>3 DEF InTransaction
  <2>5. trusted => Pending'
    <3>1. \A u \in Expected : Follows(u) => Follows(u)'
      BY <1>1, Receiving DEF Follows
    <3> QED
      BY <1>1, <2>3, <3>1, Receiving, ZenonT(30) DEF Pending
  <2>0. PICK rows \in BeginCommits(replica) : db' = db \cup rows
    BY <1>5
  <2>6. trusted => Commits(rows)
    BY <1>1, <2>0, Receiving, ZenonT(30) DEF Pending, Commits, BeginCommits
  <2>7. WholeTransactions' /\ (trusted => AppliesNext)
    <3>1. CASE trusted
      BY <1>1, <2>0, <2>6, <3>1, Receiving, Committing, ZenonT(30)
    <3>2. CASE ~trusted
      BY <1>1, <3>2, Receiving DEF WholeTransactions
    <3> QED
      BY <3>1, <3>2
  <2> QED
    BY <1>1, <1>5, <2>1, <2>4, <2>5, <2>7, Continue
<1>6. CASE handleErrWithRetry(p, TRUE, replica) /\ UNCHANGED db
  <2>1. WholeTransactions' /\ AppliesNext
    BY <1>1, <1>6, SameDatabase, Receiving DEF AppliesNext
  <2>2. trusted /\ replica' = replica => Pending'
    BY <1>1, <1>6, SamePending, Receiving, ZenonT(30)
  <2>3. replica \in Replicas
    BY <1>1, Receiving
  <2> HIDE DEF p
  <2> QED
    BY <1>1, <1>2, <1>6, <2>1, <2>2, <2>3, RetryStep, ZenonT(30)
<1> QED
  BY <1>4, <1>5, <1>6, ZenonT(30) DEF ReceiveBegin

(* Within a transaction to be applied: its Begin was processed, and the    *)
(* replica, unless lost, holds the rows received.                          *)
LEMMA Within ==
    ASSUME IInv, NEW kind, Receives(kind), trusted, stream.txn \in Expected, stream.pos > 0
    PROVE  /\ proc.processing
           /\ proc.current = stream.txn
           /\ replica.tx = "lost" \/
              (replica.tx = "open" /\ \A i \in 1 .. stream.pos - 2 : <<stream.txn, i>> \in replica.rows)
<1>1. proc.pc # "write" /\ stream.on /\ InTransaction
  BY Receiving, ZenonT(30)
<1> QED
  BY <1>1 DEF InTransaction

(* A row of the transaction in progress joins the uncommitted ones.        *)
LEMMA RowStep ==
    ASSUME IInv, TypeOK', ReceiveRow
    PROVE  IInv' /\ (trusted => AppliesNext)
<1> DEFINE r == <<stream.txn, stream.pos - 1>>
<1>1. Receives("row")
  BY DEF ReceiveRow
<1>2. r \in RowsOf(stream.txn) /\ \A u \in Expected : r \in RowsOf(u) => u = stream.txn
  BY <1>1, Receiving, ReceivedRow DEF RowsOf
<1>3. stream.pos \in 2 .. Rows[stream.txn] + 1 /\ stream.pos # Last(stream.txn)
  <2>1. stream.pos \in 2 .. Rows[stream.txn] + 1
    BY <1>1, Receiving, Kinds
  <2> QED
    BY <1>1, <2>1, Receiving DEF Last
<1>4. Heard \in Threads /\ Heard.lastWritten = proc.lastWritten /\ replica \in Replicas
  BY <1>1, Receiving
<1>5. ASSUME Processed(Heard, "status")
      PROVE  /\ stream' = Advanced(stream) /\ stream'.txn = stream.txn /\ stream'.pos = stream.pos + 1
             /\ proc'.pc = "status" /\ proc'.lastWritten = proc.lastWritten
             /\ proc'.processing = proc.processing /\ proc'.current = proc.current
  <2>1. proc' = [Heard EXCEPT !.pc = "status"] /\ Heard = [proc EXCEPT !.heard = TRUE]
    BY <1>5 DEF Processed, Heard
  <2>2. proc \in Threads
    BY <1>1, Receiving
  <2>3. /\ proc'.pc = "status" /\ proc'.lastWritten = proc.lastWritten
        /\ proc'.processing = proc.processing /\ proc'.current = proc.current
    BY <2>1, <2>2 DEF Threads
  <2> QED
    BY <1>1, <1>3, <1>5, <2>3, AdvancedStream, Receiving DEF Processed
<1>6. CASE ~proc.processing /\ Ignored
  <2>1. Processed(Heard, "status") /\ replica' = replica /\ db' = db
    BY <1>6 DEF Ignored
  <2>2. WholeTransactions' /\ AppliesNext
    BY <1>1, <2>1, SameDatabase, Receiving DEF AppliesNext
  <2>3. trusted => Pending'
    BY <1>1, <2>1, SamePending, Receiving, ZenonT(30)
  <2>4. trusted => stream.txn \notin Expected
    BY <1>1, <1>3, <1>6, Within
  <2>5. trusted => InTransaction'
    BY <1>5, <2>1, <2>4 DEF InTransaction
  <2> QED
    BY <1>1, <1>5, <2>1, <2>2, <2>3, <2>5, Continue
<1>7. CASE Returns /\ UNCHANGED <<db, left>>
  <2>1. WholeTransactions' /\ AppliesNext
    BY <1>1, <1>7, SameDatabase, Receiving DEF AppliesNext
  <2>2. stream' = NoStream /\ proc'.pc = "down" /\ replica' = NewReplica
    BY <1>7, Return
  <2>3. Pending'
    BY <2>2, NothingPending DEF NewReplica
  <2>4. slot' <= slot /\ file' = file /\ trusted' = trusted
    BY <1>1, Receiving
  <2> QED
    BY <1>7, <2>1, <2>2, <2>3, <2>4, Disconnect
<1>8. CASE /\ replica.tx \notin {"failed", "lost"}
           /\ replica' = [replica EXCEPT !.rows = IF replica.tx = "idle" THEN @ ELSE @ \cup {r}]
           /\ db' = IF replica.tx = "idle" THEN db \cup {r} ELSE db
           /\ Processed(Heard, "status")
  <2> DEFINE R == IF replica.tx = "idle" THEN {r} ELSE {}
  <2>1. db' = db \cup R
    BY <1>8
  <2>2. replica'.tx = replica.tx
        /\ replica'.rows = IF replica.tx = "idle" THEN replica.rows ELSE replica.rows \cup {r}
    BY <1>4, <1>8 DEF Replicas
  <2>3. trusted /\ stream.txn \in Expected =>
           /\ proc.processing /\ proc.current = stream.txn /\ replica.tx = "open"
           /\ \A i \in 1 .. stream.pos - 2 : <<stream.txn, i>> \in replica.rows
    BY <1>1, <1>3, <1>8, Within
  <2>4. trusted => InTransaction'
    <3> SUFFICES ASSUME trusted, stream.txn \in Expected
                 PROVE  InTransaction'
      BY <1>5, <1>8 DEF InTransaction
    <3>1. \A i \in 1 .. stream'.pos - 2 : <<stream.txn, i>> \in replica'.rows
      <4>1. \A i \in 1 .. stream'.pos - 2 : i \in 1 .. stream.pos - 2 \/ i = stream.pos - 1
        BY <1>3, <1>5, <1>8
      <4> QED
        BY <2>2, <2>3, <4>1
    <3> QED
      BY <1>5, <1>8, <2>2, <2>3, <3>1 DEF InTransaction
  <2>5. trusted => Pending'
    <3> SUFFICES ASSUME trusted, NEW u \in Expected
                 PROVE  /\ RowsOf(u) \cap replica'.rows # {} => Follows(u)'
                        /\ replica'.tx = "unfinished" =>
                              \/ RowsOf(u) \cap replica'.rows = {}
                              \/ u \in Applied'
                              \/ RowsOf(u) \subseteq replica'.rows
      BY DEF Pending
    <3>1. /\ RowsOf(u) \cap replica.rows # {} => Follows(u)
          /\ replica.tx = "unfinished" =>
                RowsOf(u) \cap replica.rows = {} \/ u \in Applied \/ RowsOf(u) \subseteq replica.rows
      BY <1>1, Receiving, ZenonT(30) DEF Pending
    <3>2. (Follows(u) => Follows(u)') /\ (u \in Applied => u \in Applied')
      BY <1>1, <2>1, Receiving, ZenonT(30) DEF Follows, Applied
    <3>3. CASE u = stream.txn
      BY <1>1, <2>2, <2>3, <3>2, <3>3, Receiving, ZenonT(30)
    <3>4. CASE u # stream.txn
      BY <1>2, <2>2, <3>1, <3>2, <3>4
    <3> QED
      BY <3>3, <3>4
  <2>6. trusted => Commits(R)
    BY <1>2, <2>3 DEF Commits
  <2>7. WholeTransactions' /\ (trusted => AppliesNext)
    <3>1. CASE trusted
      BY <1>1, <2>1, <2>6, <3>1, Receiving, Committing, ZenonT(30)
    <3>2. CASE ~trusted
      BY <1>1, <3>2, Receiving DEF WholeTransactions
    <3> QED
      BY <3>1, <3>2
  <2> QED
    BY <1>1, <1>5, <1>8, <2>1, <2>4, <2>5, <2>7, Continue
<1>9. CASE /\ handleErrWithRetry(Heard, TRUE, IF replica.tx = "open" THEN FailedReplica ELSE replica)
           /\ UNCHANGED db
  <2> DEFINE rep == IF replica.tx = "open" THEN FailedReplica ELSE replica
  <2>1. WholeTransactions' /\ AppliesNext
    BY <1>1, <1>9, SameDatabase, Receiving DEF AppliesNext
  <2>2. rep \in Replicas /\ (rep = replica \/ rep.rows = {})
    BY <1>4 DEF FailedReplica, Replicas
  <2>3. trusted /\ replica' = rep => Pending'
    BY <1>1, <1>9, <2>2, SamePending, NothingPending, Receiving, ZenonT(30)
  <2> HIDE DEF rep
  <2>4. handleErrWithRetry(Heard, TRUE, rep) /\ db \subseteq db'
    BY <1>9, ZenonT(30) DEF rep
  <2> QED
    BY <1>1, <1>4, <2>1, <2>2, <2>3, <2>4, RetryStep, ZenonT(30)
<1> QED
  BY <1>6, <1>7, <1>8, <1>9, ZenonT(30) DEF ReceiveRow

(* Commit: every row of the transaction is uncommitted on the replica, and *)
(* nothing else that matters; they become durable together.                *)
LEMMA CommitStep ==
    ASSUME IInv, TypeOK', ReceiveCommit
    PROVE  IInv' /\ (trusted => AppliesNext)
<1>1. Receives("commit")
  BY DEF ReceiveCommit
<1>2. stream.txn \in Expected /\ stream.pos = Rows[stream.txn] + 2 /\ stream.pos = Last(stream.txn)
  <2>1. stream.txn \in Expected /\ stream.pos = Rows[stream.txn] + 2
    BY <1>1, Receiving, Kinds
  <2> QED
    BY <2>1 DEF Last, Expected
<1>3. Heard \in Threads /\ Heard.lastWritten = proc.lastWritten /\ replica \in Replicas
  BY <1>1, Receiving
<1>4. ASSUME trusted, replica.tx # "lost"
      PROVE  RowsOf(stream.txn) \subseteq replica.rows /\ proc.current = stream.txn
  <2>1. stream.pos > 0 /\ stream.pos - 2 = Rows[stream.txn]
    <3>1. Rows[stream.txn] \in Nat
      BY <1>1, Receiving
    <3> QED
      BY <1>2, <3>1
  <2>2. /\ proc.current = stream.txn
        /\ \A i \in 1 .. stream.pos - 2 : <<stream.txn, i>> \in replica.rows
    BY <1>1, <1>2, <1>4, <2>1, Within
  <2> QED
    BY <2>1, <2>2 DEF RowsOf
<1>5. ASSUME trusted, replica.tx # "lost"
      PROVE  Commits(replica.rows)
  <2> SUFFICES ASSUME NEW u \in Expected, RowsOf(u) \cap replica.rows # {}
               PROVE  Follows(u) /\ (u \in Applied \/ RowsOf(u) \subseteq replica.rows)
    BY DEF Commits
  <2>1. Follows(u)
    BY <1>1, <1>5, Receiving, ZenonT(30) DEF Pending
  <2>2. CASE u = stream.txn
    BY <1>4, <1>5, <2>1, <2>2
  <2>3. CASE u < stream.txn
    BY <1>1, <1>5, <2>1, <2>3, Receiving, ZenonT(30) DEF Follows, FlushedIsApplied
  <2>4. CASE stream.txn < u
    <3>1. file < stream.txn /\ file \in Int /\ stream.txn \in Int
      BY <1>1, <1>5, Receiving, ZenonT(30)
    <3>2. stream.txn <= file
      BY <1>2, <2>1, <2>4 DEF Follows
    <3> QED
      BY <3>1, <3>2
  <2> QED
    BY <1>1, <2>2, <2>3, <2>4, Receiving
<1>6. ASSUME db' = db \cup replica.rows, replica.tx # "lost"
      PROVE  WholeTransactions' /\ (trusted => AppliesNext)
  <2>1. CASE trusted
    BY <1>1, <1>5, <1>6, <2>1, Receiving, Committing, ZenonT(30)
  <2>2. CASE ~trusted
    BY <1>1, <2>2, Receiving DEF WholeTransactions
  <2> QED
    BY <2>1, <2>2
<1>7. ASSUME db' = db
      PROVE  WholeTransactions' /\ AppliesNext
  BY <1>1, <1>7, SameDatabase, Receiving DEF AppliesNext
<1>8. CASE /\ replica.tx # "lost" /\ db' = db \cup replica.rows /\ replica' = NewReplica
           /\ Processed([Heard EXCEPT !.processing = FALSE], "write")
  <2>1. proc'.pc = "write" /\ proc'.lastWritten = proc.lastWritten /\ proc'.current = proc.current
    <3>1. proc' = [[Heard EXCEPT !.processing = FALSE] EXCEPT !.pc = "write"]
          /\ Heard = [proc EXCEPT !.heard = TRUE] /\ proc \in Threads
      BY <1>1, <1>8, Receiving DEF Processed
    <3> QED
      BY <3>1 DEF Threads
  <2>2. stream'.on /\ stream'.txn = stream.txn + 1 /\ stream'.pos = 0
    BY <1>1, <1>2, <1>8, AdvancedStream, Receiving DEF Processed
  <2>3. Thread'
    BY <1>1, <2>1, <2>2, Receiving DEF Thread
  <2>4. FlushedIsApplied'
    BY <1>1, <1>8, Receiving, ZenonT(30) DEF FlushedIsApplied, Applied
  <2>5. replica'.rows = {}
    BY <1>8 DEF NewReplica
  <2>6. trusted => Position'
    <3> SUFFICES ASSUME trusted PROVE Position'
      OBVIOUS
    <3>1. file < stream.txn /\ Follows(stream.txn) /\ (file # Torn => slot <= file + 1)
      BY <1>1, Receiving, ZenonT(30) DEF Position
    <3>2. ASSUME NEW u \in Expected, u <= stream.txn
          PROVE  u \in Applied'
      <4>1. CASE u = stream.txn
        BY <1>4, <1>8, <4>1 DEF Applied
      <4>2. CASE u < stream.txn
        BY <1>1, <1>8, <3>1, <4>2, Receiving, ZenonT(30) DEF Follows, FlushedIsApplied, Applied
      <4>3. u \in Int /\ stream.txn \in Int
        BY <1>1, Receiving, ZenonT(30)
      <4> QED
        BY <3>2, <4>1, <4>2, <4>3
    <3>3. proc'.current = stream.txn
      BY <1>4, <1>8, <2>1
    <3>4. file \in Int /\ stream.txn \in Int /\ file' = file /\ slot' = slot
      BY <1>1, Receiving, ZenonT(30)
    <3>5. file < stream.txn + 1
      BY <3>1, <3>4
    <3> QED
      BY <2>1, <2>2, <2>5, <3>1, <3>2, <3>3, <3>4, <3>5 DEF Position
  <2>7. InTransaction'
    BY <2>1 DEF InTransaction
  <2>8. Pending'
    BY <2>5, NothingPending
  <2> QED
    BY <1>1, <1>6, <1>8, <2>3, <2>4, <2>6, <2>7, <2>8, Receiving DEF IInv
<1>9. CASE UNCHANGED <<db, left>> /\ handleErrWithRetry(Heard, TRUE, replica)
  <2>1. trusted /\ replica' = replica => Pending'
    BY <1>1, <1>9, SamePending, Receiving, ZenonT(30)
  <2> QED
    BY <1>1, <1>3, <1>7, <1>9, <2>1, RetryStep, ZenonT(30)
<1>10. CASE /\ replica.tx # "lost" /\ UNCHANGED db
            /\ \E rows \in {replica.rows, {}} :
                  handleErrWithRetry(Heard, TRUE, [tx |-> "unfinished", rows |-> rows])
  <2>1. PICK rows \in {replica.rows, {}} :
           handleErrWithRetry(Heard, TRUE, [tx |-> "unfinished", rows |-> rows])
    BY <1>10, ZenonT(30)
  <2> DEFINE rep == [tx |-> "unfinished", rows |-> rows]
  <2>2. rep \in Replicas /\ rep.rows = rows
    BY <1>3 DEF Replicas
  <2>3. ASSUME trusted, replica' = rep
        PROVE  Pending'
    <3>1. CASE rows = {}
      BY <2>2, <2>3, <3>1, NothingPending
    <3>2. CASE rows = replica.rows
      <4>1. Commits(replica.rows)
        BY <1>5, <1>10, <2>3
      <4>2. \A u \in Expected : (Follows(u) => Follows(u)') /\ (u \in Applied => u \in Applied')
        BY <1>1, <1>10, Receiving DEF Follows, Applied
      <4> QED
        BY <2>2, <2>3, <3>2, <4>1, <4>2 DEF Pending, Commits
    <3> QED
      BY <3>1, <3>2
  <2>4. handleErrWithRetry(Heard, TRUE, rep)
    BY <2>1, ZenonT(30)
  <2>5. WholeTransactions' /\ AppliesNext /\ db \subseteq db'
    BY <1>7, <1>10
  <2> HIDE DEF rep
  <2> QED
    BY <1>1, <1>3, <2>2, <2>3, <2>4, <2>5, RetryStep, ZenonT(30)
<1>11. CASE /\ replica.tx # "lost" /\ db' = db \cup replica.rows
            /\ handleErrWithRetry(Heard, TRUE, LostReplica)
  <2>1. LostReplica \in Replicas /\ LostReplica.rows = {}
    BY DEF LostReplica, Replicas
  <2>2. replica' = LostReplica => Pending'
    BY <2>1, NothingPending
  <2> QED
    BY <1>1, <1>3, <1>6, <1>11, <2>1, <2>2, RetryStep, ZenonT(30)
<1> QED
  BY <1>8, <1>9, <1>10, <1>11, ZenonT(30) DEF ReceiveCommit

(* The other messages change neither the replica nor the transaction.      *)
LEMMA OtherStep ==
    ASSUME IInv, TypeOK', NEW kind \in {"relation", "streamStart", "streamStop", "streamCommit"},
           Receives(kind), NEW p \in Threads, Processed(p, "status"), UNCHANGED <<replica, db>>,
           p.lastWritten = proc.lastWritten, p.processing = proc.processing, p.current = proc.current
    PROVE  IInv'
<1>1. /\ stream' = Advanced(stream)
      /\ proc'.pc = "status" /\ proc'.lastWritten = proc.lastWritten
      /\ proc'.processing = proc.processing /\ proc'.current = proc.current
  BY DEF Processed, Threads
<1>2. WholeTransactions'
  BY SameDatabase, Receiving
<1>3. trusted => Pending'
  BY SamePending, Receiving, ZenonT(30)
<1>4. trusted => InTransaction'
  <2> SUFFICES ASSUME trusted, stream'.txn \in Expected, stream'.pos > 0
               PROVE  InTransaction'
    BY DEF InTransaction
  <2>1. stream.pos # Last(stream.txn) /\ stream'.txn = stream.txn /\ stream'.pos = stream.pos + 1
    <3>1. TypeOK /\ stream.on /\ stream.txn \in Txns
      BY Receiving, ZenonT(30)
    <3>2. /\ stream.pos # Last(stream.txn) =>
                stream'.txn = stream.txn /\ stream'.pos = stream.pos + 1
          /\ stream.pos = Last(stream.txn) => stream'.pos = 0
      BY <1>1, <3>1, AdvancedStream
    <3> QED
      BY <3>2
  <2>2. kind = "relation" /\ stream.pos = 1
    BY <2>1, Kinds, Receiving, ZenonT(30)
  <2>3. proc.processing /\ proc.current = stream.txn /\ replica.tx \in {"lost", "open"}
    BY <2>1, <2>2, Within
  <2> QED
    BY <1>1, <2>1, <2>2, <2>3 DEF InTransaction
<1> QED
  BY <1>1, <1>2, <1>3, <1>4, Continue

(* Every step keeps the invariant, and while the stream is to be trusted   *)
(* applies at most the next transaction.                                   *)
LEMMA Step == IInv /\ [Next]_vars => IInv' /\ (trusted => AppliesNext)
<1> SUFFICES ASSUME IInv, [Next]_vars
             PROVE  IInv' /\ (trusted => AppliesNext)
  OBVIOUS
<1>1. TypeOK'
  BY TypeStep DEF IInv
<1>2. /\ TypeOK /\ Thread /\ FlushedIsApplied /\ WholeTransactions
      /\ trusted => Position /\ InTransaction /\ Pending
      /\ proc \in Threads /\ replica \in Replicas
      /\ slot \in Int /\ file \in Int /\ stream.txn \in Int
      /\ proc.lastWritten \in Nat
      /\ \A u \in Expected : u \in Int
  BY ReplicationAssumption DEF IInv, TypeOK, Torn, Expected, Txns, Threads
<1>3. ASSUME db' = db, trusted' => trusted
      PROVE  WholeTransactions' /\ AppliesNext /\ Applied' = Applied
  BY <1>2, <1>3, SameDatabase DEF AppliesNext
<1>4. ASSUME NEW b \in BOOLEAN, handleErrWithRetry(proc, b, replica), proc.pc # "down",
             UNCHANGED <<slot, db, file, trusted>>
      PROVE  IInv' /\ AppliesNext
  <2>1. /\ stream' = NoStream
        /\ \/ proc'.pc = "down" /\ replica' = NewReplica
           \/ proc'.pc = "loop" /\ replica' = replica /\ proc'.lastWritten = proc.lastWritten
    BY <1>2, <1>4, Retry
  <2>2. trusted => Pending'
    BY <1>2, <1>4, <2>1, SamePending, NothingPending DEF NewReplica
  <2>3. proc.lastWritten = file /\ slot' <= slot
    BY <1>2, <1>4 DEF Thread
  <2> QED
    BY <1>1, <1>3, <1>4, <2>1, <2>2, <2>3, Disconnect
<1>5. ASSUME Returns, UNCHANGED <<slot, db, trusted>>, file' \in {file, Torn}
      PROVE  IInv' /\ AppliesNext
  <2>1. stream' = NoStream /\ proc'.pc = "down" /\ replica' = NewReplica
    BY <1>5, Return
  <2>2. Pending'
    BY <2>1, NothingPending DEF NewReplica
  <2>3. slot' <= slot
    BY <1>2, <1>5
  <2> QED
    BY <1>1, <1>3, <1>5, <2>1, <2>2, <2>3, Disconnect
<1>6. CASE StartReplication
  <2>1. UNCHANGED <<slot, stream, replica, db, file, left, trusted>> /\ proc.pc = "down"
    BY <1>6 DEF StartReplication
  <2>2. ~stream.on /\ ~stream'.on
    BY <1>2, <2>1 DEF Thread
  <2>3. proc'.pc = "down" \/ (proc'.pc = "loop" /\ proc'.lastWritten = file)
    BY <1>6 DEF StartReplication, Stopped
  <2>4. Thread' /\ InTransaction'
    BY <2>1, <2>2, <2>3 DEF Thread, InTransaction
  <2>5. trusted => Position' /\ Pending'
    BY <1>2, <2>1, <2>2, <2>3, SamePending DEF Position
  <2>6. FlushedIsApplied'
    BY <1>2, <1>3, <2>1 DEF FlushedIsApplied
  <2> QED
    BY <1>1, <1>3, <2>1, <2>4, <2>5, <2>6 DEF IInv
<1>7. CASE beginReplication
  <2> DEFINE s == Larger(slot, StartLSN)
  <2>1. PICK t \in slot .. s : stream' = From(t) /\ trusted' = (trusted /\ t = s)
    BY <1>7 DEF beginReplication
  <2>2. UNCHANGED <<slot, proc, replica, db, file, left>> /\ proc.pc = "loop"
    BY <1>7 DEF beginReplication
  <2>3. stream'.on /\ stream'.txn = t /\ stream'.pos = 0
    BY <2>1 DEF From
  <2>4. Thread' /\ InTransaction'
    BY <1>2, <2>2, <2>3 DEF Thread, InTransaction
  <2>5. FlushedIsApplied'
    BY <1>2, <1>3, <2>1, <2>2, ZenonT(30) DEF FlushedIsApplied
  <2>6. ASSUME trusted'
        PROVE  Position' /\ Pending'
    <3>1. trusted /\ t = s /\ proc.lastWritten = file /\ file # Torn
      <4>1. trusted /\ t = s
        BY <2>1, <2>6, ZenonT(30)
      <4>2. proc.lastWritten = file
        BY <1>2, <2>2 DEF Thread
      <4> QED
        BY <1>2, <4>1, <4>2 DEF Torn
    <3>2. slot <= file + 1
      BY <1>2, <3>1 DEF Position
    <3>3. t = file + 1
      BY <1>2, <3>1, <3>2 DEF Larger, StartLSN
    <3>4. file < t /\ \A u \in Expected : u < t => u <= file
      BY <1>2, <3>3
    <3> QED
      BY <1>2, <2>2, <2>3, <3>1, <3>2, <3>4, SamePending DEF Position, Follows
  <2> QED
    BY <1>1, <1>3, <2>1, <2>2, <2>4, <2>5, <2>6, ZenonT(30) DEF IInv
<1>8. CASE beginReplicationFails
  BY <1>4, <1>8, ZenonT(30) DEF beginReplicationFails
<1>9. CASE sendStandbyStatusUpdate
  <2>1. CASE Fault("status") /\ handleErrWithRetry(proc, FALSE, replica) /\ UNCHANGED slot
    BY <1>4, <1>9, <2>1, ZenonT(30) DEF sendStandbyStatusUpdate
  <2>2. CASE /\ slot' = Larger(slot, WALFlushPosition)
             /\ proc' = [proc EXCEPT !.pc = "loop"]
             /\ UNCHANGED <<stream, replica, left>>
    <3>1. UNCHANGED <<stream, replica, db, file, trusted>> /\ proc.pc \in {"loop", "status"}
      BY <1>9, <2>2 DEF sendStandbyStatusUpdate
    <3>2. /\ proc'.pc = "loop" /\ proc'.lastWritten = proc.lastWritten
          /\ proc'.current = proc.current /\ proc'.processing = proc.processing
      BY <1>2, <2>2 DEF Threads
    <3>3. proc.lastWritten = file
      BY <1>2, <3>1 DEF Thread
    <3>4. slot' = slot \/ slot' = file + 1
      BY <2>2, <3>3 DEF Larger, WALFlushPosition
    <3>5. FlushedIsApplied'
      <4>1. \A u \in Expected : u < slot' => u < slot \/ u <= file
        BY <1>2, <3>4
      <4> QED
        BY <1>2, <1>3, <3>1, <4>1 DEF FlushedIsApplied
    <3>6. Thread'
      BY <1>2, <3>1, <3>2, <3>3 DEF Thread
    <3>7. trusted => Position' /\ InTransaction' /\ Pending'
      <4>1. trusted /\ file # Torn => slot' <= file + 1
        BY <1>2, <3>4 DEF Position
      <4>2. trusted => Position'
        BY <1>2, <3>1, <3>2, <4>1 DEF Position, Follows
      <4>3. trusted => InTransaction'
        BY <1>2, <3>1, <3>2 DEF InTransaction
      <4> QED
        BY <1>2, <3>1, <4>2, <4>3, SamePending
    <3> QED
      BY <1>1, <1>3, <3>1, <3>5, <3>6, <3>7 DEF IInv
  <2> QED
    BY <1>9, <2>1, <2>2, ZenonT(30) DEF sendStandbyStatusUpdate
<1>10. CASE Keepalive
  <2>1. UNCHANGED <<slot, stream, replica, db, file, trusted>>
    BY <1>10 DEF Keepalive
  <2>2. /\ proc'.pc = proc.pc /\ proc'.lastWritten = proc.lastWritten
        /\ proc'.current = proc.current /\ proc'.processing = proc.processing
    BY <1>2, <1>10 DEF Keepalive, Threads
  <2>3. Thread' /\ FlushedIsApplied'
    BY <1>2, <1>3, <2>1, <2>2 DEF Thread, FlushedIsApplied
  <2>4. trusted => Position' /\ InTransaction' /\ Pending'
    <3>1. trusted => Position'
      BY <1>2, <1>3, <2>1, <2>2 DEF Position, Follows
    <3>2. trusted => InTransaction'
      BY <1>2, <2>1, <2>2 DEF InTransaction
    <3> QED
      BY <1>2, <2>1, <3>1, <3>2, SamePending
  <2> QED
    BY <1>1, <1>3, <2>1, <2>3, <2>4 DEF IInv
<1>11. CASE ReceiveBegin
  BY <1>1, <1>11, BeginStep
<1>12. CASE ReceiveRow
  BY <1>1, <1>12, RowStep
<1>13. CASE ReceiveCommit
  BY <1>1, <1>13, CommitStep
<1>14. CASE ReceiveRelation \/ ReceiveStreamStart \/ ReceiveStreamStop \/ ReceiveStreamCommit
  <2>1. ASSUME NEW kind \in {"relation", "streamStart", "streamStop", "streamCommit"},
               Receives(kind), NEW p \in Threads, Processed(p, "status"), UNCHANGED <<replica, db>>,
               p.lastWritten = proc.lastWritten, p.processing = proc.processing, p.current = proc.current
        PROVE  IInv' /\ AppliesNext
    <3>1. trusted' = trusted
      BY <2>1 DEF Receives
    <3> QED
      BY <1>1, <1>3, <2>1, <3>1, OtherStep
  <2>2. \A b \in BOOLEAN :
           /\ [Heard EXCEPT !.relations = b] \in Threads
           /\ [Heard EXCEPT !.inStream = b] \in Threads
           /\ [Heard EXCEPT !.relations = b].lastWritten = proc.lastWritten
           /\ [Heard EXCEPT !.inStream = b].lastWritten = proc.lastWritten
           /\ [Heard EXCEPT !.relations = b].processing = proc.processing
           /\ [Heard EXCEPT !.inStream = b].processing = proc.processing
           /\ [Heard EXCEPT !.relations = b].current = proc.current
           /\ [Heard EXCEPT !.inStream = b].current = proc.current
    BY <1>2, ZenonT(30) DEF Heard, Threads
  <2>3. /\ Heard \in Threads /\ Heard.lastWritten = proc.lastWritten
        /\ Heard.processing = proc.processing /\ Heard.current = proc.current
    BY <1>2, ZenonT(30) DEF Heard, Threads
  <2>4. CASE ReceiveRelation
    <3> DEFINE b == Heard.relations \/ proc.inStream = (stream.txn \in Streamed)
    <3>1. Processed([Heard EXCEPT !.relations = b], "status") /\ Receives("relation")
          /\ UNCHANGED <<replica, db>>
      BY <2>4 DEF ReceiveRelation
    <3>2. b \in BOOLEAN
      OBVIOUS
    <3> HIDE DEF b
    <3> QED
      BY <2>1, <2>2, <3>1, <3>2, ZenonT(30)
  <2>5. CASE ReceiveStreamStart
    BY <2>1, <2>2, <2>5, ZenonT(30) DEF ReceiveStreamStart
  <2>6. CASE ReceiveStreamStop
    BY <2>1, <2>2, <2>6, ZenonT(30) DEF ReceiveStreamStop
  <2>7. CASE ReceiveStreamCommit
    BY <2>1, <2>3, <2>7 DEF ReceiveStreamCommit, Ignored
  <2> QED
    BY <1>14, <2>4, <2>5, <2>6, <2>7
<1>15. CASE writeWALPosition
  <2>1. CASE Fault("file") /\ Returns /\ file' \in {file, Torn}
    BY <1>5, <1>15, <2>1 DEF writeWALPosition
  <2>2. CASE /\ file' = proc.current
             /\ proc' = [proc EXCEPT !.lastWritten = proc.current, !.pc = "status"]
             /\ UNCHANGED <<stream, replica, left>>
    <3>1. proc.pc = "write" /\ UNCHANGED <<slot, stream, replica, db, trusted>>
      BY <1>15, <2>2 DEF writeWALPosition
    <3>2. proc'.pc = "status" /\ proc'.lastWritten = proc.current /\ stream.on
      BY <1>2, <2>2, <3>1 DEF Threads, Thread
    <3>3. Thread'
      BY <2>2, <3>1, <3>2 DEF Thread
    <3>4. ASSUME trusted
          PROVE  FlushedIsApplied' /\ Position' /\ InTransaction' /\ Pending'
      <4>1. /\ stream.txn = proc.current + 1 /\ stream.pos = 0 /\ replica.rows = {}
            /\ \A u \in Expected : u <= proc.current => u \in Applied
            /\ file < stream.txn /\ (file # Torn => slot <= file + 1)
        BY <1>2, <3>1, <3>2, <3>4 DEF Position
      <4>2. proc.current \in Nat
        BY <1>2, ReplicationAssumption DEF Threads
      <4>3. FlushedIsApplied'
        BY <1>2, <1>3, <2>2, <3>1, <3>4, <4>1 DEF FlushedIsApplied
      <4>4. proc.lastWritten = file /\ file # Torn
        BY <1>2, <3>1 DEF Thread, Torn
      <4>5. slot <= proc.current + 1 /\ proc.current < stream.txn
            /\ \A u \in Expected : u < stream.txn => u <= proc.current
        BY <1>2, <4>1, <4>2, <4>4
      <4>6. Position'
        BY <2>2, <3>1, <3>2, <4>5 DEF Position, Follows
      <4>7. InTransaction'
        BY <3>1, <4>1 DEF InTransaction
      <4>8. Pending'
        BY <3>1, <4>1, NothingPending
      <4> QED
        BY <4>3, <4>6, <4>7, <4>8
    <3>5. ~trusted => FlushedIsApplied'
      BY <3>1 DEF FlushedIsApplied
    <3> QED
      BY <1>1, <1>3, <3>1, <3>3, <3>4, <3>5 DEF IInv
  <2> QED
    BY <1>15, <2>1, <2>2 DEF writeWALPosition
<1>16. CASE Timeout
  <2>1. UNCHANGED <<slot, proc, replica, db, file>> /\ ~trusted' /\ proc.pc = "loop"
        /\ stream.on /\ stream.txn \in Txns /\ stream' = Advanced(stream)
    BY <1>16 DEF Timeout
  <2>2. stream'.on
    BY <1>2, <2>1, AdvancedStream
  <2> QED
    BY <1>1, <1>2, <1>3, <2>1, <2>2 DEF IInv, Thread, FlushedIsApplied
<1>17. CASE LosePrimary
  BY <1>4, <1>17, ZenonT(30) DEF LosePrimary
<1>18. CASE RestartPrimary
  <2>1. UNCHANGED <<stream, proc, replica, db, file, trusted>> /\ ~stream.on /\ slot' \in 1 .. slot - 1
    BY <1>18 DEF RestartPrimary
  <2>2. Thread' /\ InTransaction'
    BY <1>2, <2>1 DEF Thread, InTransaction
  <2>3. FlushedIsApplied'
    <3>1. \A u \in Expected : u < slot' => u < slot
      BY <1>2, <2>1
    <3> QED
      BY <1>2, <1>3, <2>1, <3>1 DEF FlushedIsApplied
  <2>4. trusted => Position'
    <3>1. slot' < slot /\ slot' \in Int /\ proc.pc # "write"
      BY <1>2, <2>1 DEF Thread
    <3>2. trusted /\ file # Torn => slot' <= file + 1
      BY <1>2, <3>1 DEF Position
    <3> QED
      BY <2>1, <3>1, <3>2 DEF Position
  <2> QED
    BY <1>1, <1>2, <1>3, <2>1, <2>2, <2>3, <2>4, SamePending DEF IInv
<1>19. CASE LoseReplica
  <2>1. UNCHANGED <<slot, stream, proc, db, file, trusted>> /\ replica' = LostReplica
    BY <1>19 DEF LoseReplica
  <2>2. replica'.tx = "lost" /\ replica'.rows = {}
    BY <2>1 DEF LostReplica
  <2>3. Thread' /\ FlushedIsApplied'
    BY <1>2, <1>3, <2>1 DEF Thread, FlushedIsApplied
  <2>4. trusted => Position' /\ InTransaction' /\ Pending'
    <3>1. trusted => Position'
      BY <1>2, <1>3, <2>1, <2>2 DEF Position, Follows
    <3>2. trusted => InTransaction'
      BY <1>2, <2>1, <2>2 DEF InTransaction
    <3> QED
      BY <2>2, <3>1, <3>2, NothingPending
  <2> QED
    BY <1>1, <1>3, <2>1, <2>3, <2>4 DEF IInv
<1>20. CASE Halt
  BY <1>5, <1>20 DEF Halt
<1>21. CASE UNCHANGED vars
  <2>1. UNCHANGED <<slot, stream, proc, replica, db, file, left, trusted>>
    BY <1>21 DEF vars
  <2>2. Thread' /\ FlushedIsApplied'
    BY <1>2, <1>3, <2>1 DEF Thread, FlushedIsApplied
  <2>3. trusted => Position'
    BY <1>2, <1>3, <2>1 DEF Position, Follows
  <2>4. trusted => InTransaction'
    BY <1>2, <2>1 DEF InTransaction
  <2> QED
    BY <1>1, <1>2, <1>3, <2>1, <2>2, <2>3, <2>4, SamePending DEF IInv
<1> QED
  BY <1>6, <1>7, <1>8, <1>9, <1>10, <1>11, <1>12, <1>13, <1>14, <1>15, <1>16, <1>17,
     <1>18, <1>19, <1>20, <1>21 DEF Next, Loop, processMessage

-----------------------------------------------------------------------------
(* The invariant holds when the server starts with nothing replicated.     *)
LEMMA Initially == Init => IInv /\ Applied = {}
<1> SUFFICES ASSUME Init PROVE IInv /\ Applied = {}
  BY SMTT(30)
<1> USE ReplicationAssumption
<1>1. TypeOK
  BY DEF Init, TypeOK, NoStream, Stopped, Threads, NewReplica, Replicas, Torn, Last, Txns
<1>2. Thread
  BY DEF Init, Thread, NoStream, Stopped
<1>3. FlushedIsApplied /\ WholeTransactions
  BY DEF Init, FlushedIsApplied, WholeTransactions, Expected, Txns
<1>4. Position /\ InTransaction /\ Pending
  BY DEF Init, Position, InTransaction, Pending, NoStream, Stopped, NewReplica
<1>5. Applied = {}
  <2> SUFFICES ASSUME NEW t \in Expected PROVE ~(RowsOf(t) \subseteq {})
    BY DEF Init, Applied
  <2>1. Rows[t] \in Nat \ {0}
    BY DEF Expected
  <2>2. <<t, 1>> \in RowsOf(t)
    BY <2>1 DEF RowsOf
  <2> QED
    BY <2>2
<1> QED
  BY <1>1, <1>2, <1>3, <1>4, <1>5 DEF IInv

(* The invariant: the file, the slot, the stream and the open transaction  *)
(* of the replica agree on what has been applied and what comes next.      *)
THEOREM Invariance == Spec => []IInv
<1>1. Init => IInv
  BY Initially
<1>2. IInv /\ [Next]_vars => IInv'
  BY Step
<1> QED
  BY <1>1, <1>2, PTL DEF Spec

(* LSNs stay within the primary's log and the error count below            *)
(* maxConsecutiveFailures.                                                 *)
THEOREM TypeCorrect == Spec => []TypeOK
<1>1. IInv => TypeOK
  BY DEF IInv
<1> QED
  BY <1>1, Invariance, PTL

(* sendStandbyStatusUpdate confirms, and writeWALPosition records, only    *)
(* transactions whose rows are all committed on the replica.               *)
THEOREM FlushedIsAppliedHolds == Spec => []FlushedIsApplied
<1>1. IInv => FlushedIsApplied
  BY DEF IInv
<1> QED
  BY <1>1, Invariance, PTL

(* processMessage never commits part of a transaction.                     *)
THEOREM WholeTransactionsHolds == Spec => []WholeTransactions
<1>1. IInv => WholeTransactions
  BY DEF IInv
<1> QED
  BY <1>1, Invariance, PTL

(* The replicator implements OrderedDelivery: transactions are applied in  *)
(* commit order, none is left out, and only applied ones are confirmed,    *)
(* whatever fails, as long as the stream is to be trusted.                 *)
THEOREM Refinement == Spec => AtLeastOnceInOrder
<1>1. Init => Delivery!Init
  BY Initially DEF Init, Delivery!Init
<1>2. IInv /\ IInv' /\ [Next]_vars => [Delivery!Next]_(Delivery!vars)
  <2> SUFFICES ASSUME IInv, IInv', [Next]_vars
               PROVE  [Delivery!Next]_(Delivery!vars)
    OBVIOUS
  <2>1. trusted \in BOOLEAN /\ trusted' \in BOOLEAN /\ slot \in Int /\ slot' \in Int
    BY DEF IInv, TypeOK
  <2>2. trusted' => trusted
    BY ZenonT(30) DEF Next, Loop, processMessage, vars, StartReplication, beginReplication,
           beginReplicationFails, sendStandbyStatusUpdate, Keepalive, Timeout, LosePrimary,
           RestartPrimary, LoseReplica, Halt, writeWALPosition, Receives, ReceiveBegin,
           ReceiveRelation, ReceiveRow, ReceiveCommit, ReceiveStreamStart,
           ReceiveStreamStop, ReceiveStreamCommit
  <2>3. CASE ~trusted
    BY <2>1, <2>2, <2>3 DEF Delivery!Next, Delivery!Anything
  <2>4. CASE trusted /\ ~trusted'
    <3>1. Timeout \/ beginReplication
      BY <2>4, ZenonT(30) DEF Next, Loop, processMessage, vars, StartReplication,
           beginReplicationFails, sendStandbyStatusUpdate, Keepalive, LosePrimary,
           RestartPrimary, LoseReplica, Halt, writeWALPosition, Receives, ReceiveBegin,
           ReceiveRelation, ReceiveRow, ReceiveCommit, ReceiveStreamStart,
           ReceiveStreamStop, ReceiveStreamCommit
    <3>2. db' = db /\ slot' = slot
      BY <3>1 DEF Timeout, beginReplication
    <3>3. Applied' = Applied
      BY <3>2 DEF Applied
    <3> QED
      BY <2>1, <2>4, <3>2, <3>3 DEF Delivery!Next, Delivery!Distrust
  <2>5. CASE trusted /\ trusted'
    <3>1. trusted' = trusted
      BY <2>1, <2>5
    <3>2. CASE slot' = slot
      BY <2>5, <3>1, <3>2, Step
         DEF AppliesNext, Delivery!Next, Delivery!Apply, Delivery!vars
    <3>3. CASE slot' # slot
      <4>1. sendStandbyStatusUpdate \/ RestartPrimary
        BY <3>3, ZenonT(30) DEF Next, Loop, processMessage, vars, StartReplication, beginReplication,
           beginReplicationFails, Keepalive, LosePrimary, Timeout,
           LoseReplica, Halt, writeWALPosition, Receives, ReceiveBegin,
           ReceiveRelation, ReceiveRow, ReceiveCommit, ReceiveStreamStart,
           ReceiveStreamStop, ReceiveStreamCommit
      <4>2. db' = db
        BY <4>1, ZenonT(30) DEF sendStandbyStatusUpdate, RestartPrimary
      <4>3. Applied' = Applied
        BY <4>2 DEF Applied
      <4>4. CASE slot' < slot
        BY <3>1, <4>3, <4>4 DEF Delivery!Next, Delivery!Forget
      <4>5. CASE slot' > slot
        <5>1. {t \in Expected : t < slot'} \subseteq Applied
          BY <2>5, <4>3 DEF IInv, FlushedIsApplied
        <5> QED
          BY <2>5, <3>1, <4>3, <4>5, <5>1 DEF Delivery!Next, Delivery!Confirm
      <4> QED
        BY <2>1, <3>3, <4>4, <4>5
    <3> QED
      BY <3>2, <3>3
  <2> QED
    BY <2>3, <2>4, <2>5
<1> QED
  BY <1>1, <1>2, Invariance, PTL DEF Spec, AtLeastOnceInOrder, Delivery!Spec

=============================================================================
