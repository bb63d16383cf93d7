------------------------- MODULE LogicalReplication -------------------------
(***************************************************************************)
(* Logical replication from a Postgres primary                             *)
(* (server/logrepl/replication.go).  The thread of StartReplication reads  *)
(* the changes of committed transactions from a replication slot, runs     *)
(* them on a connection to the replica, records the LSN of each commit in  *)
(* a file, and confirms that LSN to the primary.                           *)
(*                                                                         *)
(* The primary holds the transactions 1 .. N; the number of a transaction  *)
(* is the LSN of its commit record (FinalLSN).  The replica, a Doltgres    *)
(* connection, and the primary are external: they are modelled from the    *)
(* calls the replicator makes.  Whatever may fail is named in Faults; at   *)
(* most MaxFaults failures happen.                                         *)
(***************************************************************************)
EXTENDS Integers

CONSTANTS
    N,          \* transactions on the primary
    Rows,       \* how many row changes each of them has
    Streamed,   \* transactions large enough for the primary to stream them
    Keyed,      \* transactions whose changes are inserts into tables with a key
    maxConsecutiveFailures,
    Faults,
    MaxFaults

Txns == 1 .. N

ASSUME ReplicationAssumption ==
    /\ N \in Nat
    /\ Rows \in [Txns -> Nat \ {0}]
    /\ Streamed \subseteq Txns
    /\ Keyed \subseteq Txns
    /\ maxConsecutiveFailures \in Nat \ {0}
    /\ Faults \subseteq {"connect", "status", "primary", "restart", "row", "commit",
                         "commitLost", "replica", "file", "halt", "timeout", "resend"}
    /\ MaxFaults \in Nat

VARIABLES
    slot,     \* the slot's flush position: LSNs below it will not be sent again
    stream,   \* primaryConn, and the next message on it
    proc,     \* the replication thread: its program counter and replicationState
    replica,  \* the transaction open on the replica connection
    db,       \* changes committed on the replica
    file,     \* the LSN in the WAL position file
    left,     \* failures that may still happen
    trusted   \* no message was lost unprocessed, none was sent again needlessly

vars == <<slot, stream, proc, replica, db, file, left, trusted>>

RowsOf(t) == {t} \X (1 .. Rows[t])

Changes == UNION {RowsOf(t) : t \in Txns}

Larger(a, b) == IF a > b THEN a ELSE b

Fault(f) == f \in Faults /\ left > 0 /\ left' = left - 1

-----------------------------------------------------------------------------
(* The primary sends a transaction as Begin, Relation, its rows, Commit; a *)
(* streamed one without Begin and Commit, between StreamStart and          *)
(* StreamStop, and then StreamCommit.                                      *)

Last(t) == IF t \in Streamed THEN Rows[t] + 3 ELSE Rows[t] + 2

Kind(t, i) ==
    CASE i = 0                 -> IF t \in Streamed THEN "streamStart" ELSE "begin"
      [] i = 1                 -> "relation"
      [] i \in 2 .. Rows[t] + 1 -> "row"
      [] i = Rows[t] + 2       -> IF t \in Streamed THEN "streamStop" ELSE "commit"
      [] i = Rows[t] + 3       -> "streamCommit"

NoStream == [on |-> FALSE, txn |-> 1, pos |-> 0]

From(t) == [on |-> TRUE, txn |-> t, pos |-> 0]

Advanced(s) == IF s.pos = Last(s.txn) THEN From(s.txn + 1) ELSE [s EXCEPT !.pos = @ + 1]

-----------------------------------------------------------------------------
(* The replica connection, as ConnectionHandler describes it: "open" is an *)
(* explicit block, "failed" one with an error, "unfinished" the engine     *)
(* transaction that a failed COMMIT leaves behind, and "lost" a connection *)
(* that fails every query.  rows are the changes not committed.            *)

NewReplica == [tx |-> "idle", rows |-> {}]

LostReplica == [tx |-> "lost", rows |-> {}]

FailedReplica == [tx |-> "failed", rows |-> {}]

(* START TRANSACTION continues an open block.  The transaction a failed    *)
(* COMMIT left behind it ends: the engine may commit it or discard it.     *)
Begun(rep) == [tx |-> "open", rows |-> IF rep.tx = "open" THEN rep.rows ELSE {}]

BeginCommits(rep) == {{}} \cup {r \in {rep.rows} : rep.tx = "unfinished"}

Collides(r) == r[1] \in Keyed /\ r \in db \cup replica.rows

-----------------------------------------------------------------------------
Torn == -1    \* a WAL position file without an LSN

Stopped == [pc |-> "down", lastWritten |-> 0, current |-> 0, processing |-> FALSE,
            relations |-> FALSE, inStream |-> FALSE, heard |-> FALSE, errs |-> 0]

(* StartReplication returns: both connections are closed.                  *)
Returns ==
    /\ proc' = Stopped
    /\ stream' = NoStream
    /\ replica' = NewReplica

(* Faulty: one error more than allowed.                                    *)
handleErrWithRetryOnceMore(p, incrementErrorCount, rep) ==
    IF p.errs < maxConsecutiveFailures
    THEN /\ proc' = [p EXCEPT !.errs = @ + 1, !.pc = "loop"]
         /\ stream' = NoStream
         /\ replica' = rep
    ELSE Returns

(* Faulty: errors are not counted.                                         *)
handleErrWithRetryForever(p, incrementErrorCount, rep) ==
    /\ proc' = [p EXCEPT !.pc = "loop"]
    /\ stream' = NoStream
    /\ replica' = rep

(* handleErrWithRetry: the connection to the primary is closed and opened  *)
(* again by the loop, until there have been too many errors.  The replica  *)
(* connection stays as it is.                                              *)
handleErrWithRetry(p, incrementErrorCount, rep) ==
    LET n == IF incrementErrorCount THEN p.errs + 1 ELSE p.errs IN
    IF n < maxConsecutiveFailures
    THEN /\ proc' = [p EXCEPT !.errs = n, !.pc = "loop"]
         /\ stream' = NoStream
         /\ replica' = rep
    ELSE Returns

(* A position file that cannot be parsed is an error: nothing is started.  *)
StartReplication ==
    /\ proc.pc = "down"
    /\ proc' = IF file = Torn THEN proc ELSE [Stopped EXCEPT !.pc = "loop", !.lastWritten = file]
    /\ UNCHANGED <<slot, stream, replica, db, file, left, trusted>>

(* Faulty: replication resumes after the transaction being processed.      *)
AfterCurrent == proc.current + 1

StartLSN == proc.lastWritten + 1

(* The primary sends what the slot has not confirmed, from the requested   *)
(* LSN on; "in certain crash scenarios" it resends what comes before that. *)
beginReplication ==
    LET s == Larger(slot, StartLSN) IN
    /\ proc.pc = "loop"
    /\ ~stream.on
    /\ \E t \in {u \in slot .. s : u = s \/ "resend" \in Faults} :
          /\ stream' = From(t)
          /\ trusted' = (trusted /\ t = s)
    /\ UNCHANGED <<slot, proc, replica, db, file, left>>

beginReplicationFails ==
    /\ proc.pc = "loop"
    /\ ~stream.on
    /\ Fault("connect")
    /\ handleErrWithRetry(proc, TRUE, replica)
    /\ UNCHANGED <<slot, db, file, trusted>>

(* Faulty: what has been received is confirmed.                            *)
ReceivedPosition == proc.current + 1

WALFlushPosition == proc.lastWritten + 1

(* Status updates: after every XLogData message, and by the clock once a   *)
(* message has been received.                                              *)
sendStandbyStatusUpdate ==
    /\ proc.pc = "status" \/ (proc.pc = "loop" /\ stream.on /\ proc.heard)
    /\ \/ /\ slot' = Larger(slot, WALFlushPosition)
          /\ proc' = [proc EXCEPT !.pc = "loop"]
          /\ UNCHANGED <<stream, replica, left>>
       \/ /\ Fault("status")
          /\ handleErrWithRetry(proc, FALSE, replica)
          /\ UNCHANGED slot
    /\ UNCHANGED <<db, file, trusted>>

Keepalive ==
    /\ proc.pc = "loop"
    /\ stream.on
    /\ proc' = [proc EXCEPT !.heard = TRUE]
    /\ UNCHANGED <<slot, stream, replica, db, file, left, trusted>>

-----------------------------------------------------------------------------
(* processMessage.                                                         *)

Receives(kind) ==
    /\ proc.pc = "loop"
    /\ stream.on
    /\ stream.txn \in Txns
    /\ Kind(stream.txn, stream.pos) = kind
    /\ UNCHANGED <<slot, file, trusted>>

Heard == [proc EXCEPT !.heard = TRUE]

Processed(p, pc) ==
    /\ proc' = [p EXCEPT !.pc = pc]
    /\ stream' = Advanced(stream)

Ignored == Processed(Heard, "status") /\ UNCHANGED <<replica, db, left>>

ReceiveBegin ==
    LET p == [Heard EXCEPT !.processing = TRUE, !.current = stream.txn] IN
    /\ Receives("begin")
    /\ \/ /\ proc.lastWritten > stream.txn
          /\ Processed([Heard EXCEPT !.processing = FALSE], "status")
          /\ UNCHANGED <<replica, db>>
       \/ /\ proc.lastWritten <= stream.txn
          /\ replica.tx \in {"idle", "open", "unfinished"}
          /\ Processed(p, "status")
          /\ replica' = Begun(replica)
          /\ \E rows \in BeginCommits(replica) : db' = db \cup rows
       \/ /\ proc.lastWritten <= stream.txn
          /\ replica.tx \in {"failed", "lost"}
          /\ handleErrWithRetry(p, TRUE, replica)
          /\ UNCHANGED db
    /\ UNCHANGED left

ReceiveRelation ==
    /\ Receives("relation")
    /\ Processed([Heard EXCEPT !.relations = @ \/ proc.inStream = (stream.txn \in Streamed)], "status")
    /\ UNCHANGED <<replica, db, left>>

(* A row of a table the replicator has not been told of ends the process   *)
(* (log.Fatalf); so does one read with the wrong format.                   *)
Unreadable == ~proc.relations \/ proc.inStream # (stream.txn \in Streamed)

ReceiveRow ==
    LET r == <<stream.txn, stream.pos - 1>> IN
    /\ Receives("row")
    /\ \/ ~proc.processing /\ Ignored
       \/ proc.processing /\ Unreadable /\ Returns /\ UNCHANGED <<db, left>>
       \/ /\ proc.processing /\ ~Unreadable
          /\ \/ /\ replica.tx \notin {"failed", "lost"} /\ ~Collides(r)
                /\ replica' = [replica EXCEPT !.rows = IF replica.tx = "idle" THEN @ ELSE @ \cup {r}]
                /\ db' = IF replica.tx = "idle" THEN db \cup {r} ELSE db
                /\ Processed(Heard, "status")
                /\ UNCHANGED left
             \/ /\ \/ (replica.tx \in {"failed", "lost"} \/ Collides(r)) /\ UNCHANGED left
                   \/ Fault("row")
                /\ handleErrWithRetry(Heard, TRUE,
                                      IF replica.tx = "open" THEN FailedReplica ELSE replica)
                /\ UNCHANGED db

(* COMMIT of a failed block succeeds and commits nothing.                  *)
ReceiveCommit ==
    /\ Receives("commit")
    /\ \/ /\ replica.tx # "lost"
          /\ db' = db \cup replica.rows
          /\ replica' = NewReplica
          /\ Processed([Heard EXCEPT !.processing = FALSE], "write")
          /\ UNCHANGED left
       \/ /\ replica.tx = "lost" /\ UNCHANGED <<db, left>>
          /\ handleErrWithRetry(Heard, TRUE, replica)
       \/ /\ Fault("commit") /\ replica.tx # "lost" /\ UNCHANGED db
          /\ \E rows \in {replica.rows, {}} :
                handleErrWithRetry(Heard, TRUE, [tx |-> "unfinished", rows |-> rows])
       \/ /\ Fault("commitLost") /\ replica.tx # "lost"
          /\ db' = db \cup replica.rows
          /\ handleErrWithRetry(Heard, TRUE, LostReplica)

ReceiveStreamStart ==
    /\ Receives("streamStart")
    /\ Processed([Heard EXCEPT !.inStream = TRUE], "status")
    /\ UNCHANGED <<replica, db, left>>

ReceiveStreamStop ==
    /\ Receives("streamStop")
    /\ Processed([Heard EXCEPT !.inStream = FALSE], "status")
    /\ UNCHANGED <<replica, db, left>>

(* A StreamCommit is only logged.                                          *)
ReceiveStreamCommit == Receives("streamCommit") /\ Ignored

(* The file is truncated and then written: a write that fails, or that the *)
(* process does not survive, may leave it empty.                           *)
writeWALPosition ==
    /\ proc.pc = "write"
    /\ \/ /\ file' = proc.current
          /\ proc' = [proc EXCEPT !.lastWritten = proc.current, !.pc = "status"]
          /\ UNCHANGED <<stream, replica, left>>
       \/ Fault("file") /\ Returns /\ file' \in {file, Torn}
    /\ UNCHANGED <<slot, db, trusted>>

-----------------------------------------------------------------------------
(* The deadline of the standby message passes as a message arrives: select *)
(* may take ctx.Done, and nobody reads the message.                        *)
Timeout ==
    /\ Fault("timeout")
    /\ proc.pc = "loop"
    /\ stream.on
    /\ stream.txn \in Txns
    /\ stream' = Advanced(stream)
    /\ trusted' = FALSE
    /\ UNCHANGED <<slot, proc, replica, db, file>>

LosePrimary ==
    /\ Fault("primary")
    /\ proc.pc = "loop"
    /\ stream.on
    /\ handleErrWithRetry(proc, TRUE, replica)
    /\ UNCHANGED <<slot, db, file, trusted>>

(* A primary that restarts may come back with an older flush position.     *)
RestartPrimary ==
    /\ Fault("restart")
    /\ ~stream.on
    /\ slot' \in 1 .. slot - 1
    /\ UNCHANGED <<stream, proc, replica, db, file, trusted>>

LoseReplica ==
    /\ Fault("replica")
    /\ proc.pc # "down"
    /\ replica' = LostReplica
    /\ UNCHANGED <<slot, stream, proc, db, file, trusted>>

(* Stop, an error from the primary, or a crash of the process.             *)
Halt ==
    /\ Fault("halt")
    /\ proc.pc # "down"
    /\ Returns
    /\ UNCHANGED <<slot, db, file, trusted>>

-----------------------------------------------------------------------------
Init ==
    /\ slot = 1
    /\ stream = NoStream
    /\ proc = Stopped
    /\ replica = NewReplica
    /\ db = {}
    /\ file = 0
    /\ left = MaxFaults
    /\ trusted = TRUE

processMessage == ReceiveBegin \/ ReceiveRelation \/ ReceiveRow \/ ReceiveCommit
                  \/ ReceiveStreamStart \/ ReceiveStreamStop \/ ReceiveStreamCommit

Loop == beginReplication \/ beginReplicationFails \/ processMessage \/ writeWALPosition

Next == StartReplication \/ Loop \/ sendStandbyStatusUpdate \/ Keepalive \/ Timeout
        \/ LosePrimary \/ RestartPrimary \/ LoseReplica \/ Halt

(* The thread keeps running; nobody is assumed to start it again.          *)
Spec ==
    /\ Init /\ [][Next]_vars
    /\ WF_vars(Loop)
    /\ WF_vars(proc.pc = "status" /\ sendStandbyStatusUpdate)

-----------------------------------------------------------------------------
Threads == [pc : {"down", "loop", "write", "status"}, lastWritten : 0 .. N, current : 0 .. N,
            processing : BOOLEAN, relations : BOOLEAN, inStream : BOOLEAN, heard : BOOLEAN,
            errs : 0 .. maxConsecutiveFailures - 1]

Replicas == [tx : {"idle", "open", "unfinished", "failed", "lost"}, rows : SUBSET Changes]

TypeOK ==
    /\ slot \in 1 .. N + 1
    /\ stream \in [on : BOOLEAN, txn : 1 .. N + 1, pos : Nat]
    /\ stream.txn \in Txns => stream.pos <= Last(stream.txn)
    /\ proc \in Threads
    /\ replica \in Replicas
    /\ db \in SUBSET Changes
    /\ file \in Torn .. N
    /\ left \in 0 .. MaxFaults
    /\ trusted \in BOOLEAN

Expected == Txns \ Streamed

Applied == {t \in Expected : RowsOf(t) \subseteq db}

(* What sendStandbyStatusUpdate has let the primary forget, and what a     *)
(* restart would skip because of the WAL position file, is in the          *)
(* replica's database, unless the stream lost or repeated a message.       *)
FlushedIsApplied ==
    trusted => \A t \in Expected : t < slot \/ t <= file => t \in Applied

(* StartReplication applies the transactions in order, at least once each, *)
(* and confirms only what it applied.                                      *)
Delivery == INSTANCE OrderedDelivery WITH applied <- Applied, confirmed <- slot

AtLeastOnceInOrder == Delivery!Spec

(* No transaction is ever half in the database, however processMessage was *)
(* interrupted in it.                                                      *)
WholeTransactions ==
    trusted => \A t \in Expected : RowsOf(t) \cap db = {} \/ t \in Applied

(* "lastWrittenLSN is the LSN of the commit record of the last transaction *)
(* that was successfully replicated to the database": what writeWALPosition*)
(* records of it never goes back.                                          *)
WrittenNeverGoesBack == [][file' >= file]_vars

(* A replicator that keeps running catches up: it may give up, but it does *)
(* not retry for ever without progress (connErrCnt in handleErrWithRetry). *)
CatchesUp == []<>(proc.pc = "down" \/ ~trusted \/ Applied = Expected)

=============================================================================
