-------------------------- MODULE ConnectionHandler --------------------------
(***************************************************************************)
(* One client connection (server/connection_handler.go): the simple and    *)
(* the extended query protocol, COPY FROM STDIN, and the transaction block *)
(* state the handler keeps beside the engine's own transaction.            *)
(*                                                                         *)
(* The handler runs in one goroutine and its engine session is private, so *)
(* the work done for one message is one action; a Query message with       *)
(* several statements takes one action per statement.  The client is the   *)
(* environment.  It sends ahead of the server, up to MaxInbox messages, as *)
(* pipelining clients do; replies reach it at once.                        *)
(*                                                                         *)
(* The engine (go-mysql-server and Dolt) is not part of the repository. It *)
(* is modelled from the calls the handler makes: a transaction that may be *)
(* open, the session's IgnoreAutoCommit flag, and the work not committed.  *)
(***************************************************************************)
EXTENDS Sequences, Integers, FiniteSets

CONSTANTS
    Names,      \* names of prepared statements and portals
    Unnamed,    \* the empty name
    Scripts,    \* statement sequences the client may send in a Query message
    Preparable, \* statements the client may send in a Parse message
    ExtendedTypes, \* extended-protocol messages the client may send
    Fails,      \* engine operations that may return an error
    CopyEnds,   \* how the client may end COPY data: CopyDone, CopyFail
    MaxInbox    \* messages the client may have sent ahead of the server

EngineStatements == {"begin", "commit", "rollback", "savepoint", "rollbackTo",
                     "release", "work", "call", "do"}

HandlerStatements == {"deallocate", "discard", "copyIn", "copyFile", "copyOut"}

Runnable == EngineStatements \cup HandlerStatements

(* "empty" has no AST; "bad" stands for a text that does not parse.        *)
Statements == Runnable \cup {"empty", "bad"}

EngineOps == {"begin", "commit", "rollback", "work", "panic", "copy", "prepare", "discard"}

ASSUME InputAssumption ==
    /\ Unnamed \in Names
    /\ Scripts \subseteq {<<s>> : s \in Statements} \cup (Seq(Runnable) \ {<<>>})
    /\ Preparable \subseteq Statements
    /\ ExtendedTypes \subseteq {"Parse", "Bind", "Describe", "Close", "Execute", "Flush"}
    /\ Fails \subseteq EngineOps
    /\ CopyEnds \subseteq {"CopyDone", "CopyFail"}
    /\ MaxInbox \in Nat \ {0}

VARIABLES
    conn,    \* the ConnectionHandler and its engine session
    pc,      \* "receive", "script", "discard" or "closed"
    script,  \* statements of the current Query message still to run
    inbox,   \* messages sent by the client and not yet received
    client,  \* what the client is waiting for
    reply    \* how the last server step answered: "none", "ready" or "error"

vars == <<conn, pc, script, inbox, client, reply>>

-----------------------------------------------------------------------------
(* The engine session.  Uncommitted work is "live", or "doomed" once the   *)
(* client has been sent an error for the block it belongs to.  committed   *)
(* holds what the current step commits, saved the work at the savepoint.   *)

Work == {"live", "doomed"}

Engine == [tran : BOOLEAN, noAuto : BOOLEAN, pending : SUBSET Work,
           saved : SUBSET SUBSET Work, committed : SUBSET Work]

NewEngine == [tran |-> FALSE, noAuto |-> FALSE, pending |-> {},
              saved |-> {}, committed |-> {}]

May(op) == IF op \in Fails THEN BOOLEAN ELSE {TRUE}

(* The transaction ends without its work.  noAuto is left as it is.        *)
Dropped(e) == [e EXCEPT !.tran = FALSE, !.pending = {}, !.saved = {}]

(* The transaction ends and its work is durable.                           *)
Committed(e) == [Dropped(e) EXCEPT !.committed = @ \cup e.pending]

Doomed(e) == [e EXCEPT !.pending = IF @ = {} THEN {} ELSE {"doomed"}]

(* START TRANSACTION ends a transaction that is still open: the engine may *)
(* discard its work or commit it.                                          *)
EngineBegin(e) ==
    {[f EXCEPT !.tran = TRUE, !.noAuto = TRUE] : f \in {Dropped(e), Committed(e)}}

(* A failed COMMIT leaves the transaction open, as the ROLLBACK that       *)
(* commitImplicitTransaction issues after one presumes.                    *)
EngineCommit(e, ok) ==
    IF ok THEN [Committed(e) EXCEPT !.noAuto = FALSE] ELSE [Doomed(e) EXCEPT !.tran = TRUE]

EngineRollback(e, ok) ==
    IF ok THEN [Dropped(e) EXCEPT !.noAuto = FALSE] ELSE [Doomed(e) EXCEPT !.tran = TRUE]

(* A statement opens a transaction if there is none, and commits it unless *)
(* the session ignores autocommit.                                         *)
Settled(e) == IF e.noAuto THEN e ELSE Committed(e)

StatementDone(e, work) == Settled([e EXCEPT !.tran = TRUE, !.pending = @ \cup work])

(* A failed statement undoes its own changes.  Under autocommit it also    *)
(* gives up the transaction it began; one that was open before may live on.*)
StatementFailed(e) ==
    IF e.noAuto THEN {[e EXCEPT !.tran = TRUE]}
    ELSE {Dropped(e)} \cup {f \in {e} : e.tran}

-----------------------------------------------------------------------------
(* The handler: its transaction block state, waitForSync, the COPY FROM    *)
(* STDIN operation in progress, and the prepared statements and portals.   *)

TxStates == {"idle", "explicit", "implicit", "failed"}

Blocks == {"explicit", "failed"}    \* inExplicitTransactionBlock

Copy == [on : BOOLEAN, loader : BOOLEAN, err : BOOLEAN, started : BOOLEAN]

NoCopy == [on |-> FALSE, loader |-> FALSE, err |-> FALSE, started |-> FALSE]

NewCopy == [NoCopy EXCEPT !.on = TRUE]

NotPrepared == "none"

Prepared == [Names -> Runnable \cup {"empty", NotPrepared}]

NothingPrepared == [n \in Names |-> NotPrepared]

Connection == [tx : TxStates, waitForSync : BOOLEAN, copy : Copy,
               prepared : Prepared, portals : Prepared, eng : Engine]

NewConnection == [tx |-> "idle", waitForSync |-> FALSE, copy |-> NoCopy,
                  prepared |-> NothingPrepared, portals |-> NothingPrepared,
                  eng |-> NewEngine]

(* Every server step starts here: nothing committed by it yet.             *)
Now == [conn EXCEPT !.eng.committed = {}]

(* restoredAutoCommitWithoutTransaction, on a session without transaction  *)
AutoCommitRestored(e) == IF e.tran THEN e ELSE [e EXCEPT !.noAuto = FALSE]

(* Faulty: autocommit stays on.                                            *)
startImplicitAutoCommitting(c, s) ==
    IF c.tx = "idle" /\ s \notin {"begin", "commit", "rollback"}
    THEN [c EXCEPT !.tx = "implicit"] ELSE c

startImplicitTransaction(c, s) ==
    IF c.tx = "idle" /\ s \notin {"begin", "commit", "rollback"}
    THEN [c EXCEPT !.tx = "implicit", !.eng.noAuto = TRUE]
    ELSE c

(* What an operation may do: the new connection, whether it failed, the    *)
(* endOfMessages flag, and whether it put the client in COPY mode.         *)
Outcome == [conn : Connection, err : BOOLEAN, eom : BOOLEAN, copyIn : BOOLEAN]

Done(c) == [conn |-> c, err |-> FALSE, eom |-> TRUE, copyIn |-> FALSE]

Error(c) == [conn |-> c, err |-> TRUE, eom |-> TRUE, copyIn |-> FALSE]

Result(c, ok) == IF ok THEN Done(c) ELSE Error(c)

(* More messages are expected: the result of most extended-protocol steps. *)
More(o) == [o EXCEPT !.eom = FALSE]

commitImplicitTransaction(c) ==
    IF c.tx # "implicit" THEN {Done(c)}
    ELSE IF ~c.eng.tran
    THEN {Done([c EXCEPT !.tx = "idle", !.eng.noAuto = FALSE])}
    ELSE {Done([c EXCEPT !.tx = "idle", !.eng = EngineCommit(@, TRUE)])}
         \cup {Error([c EXCEPT !.tx = "idle",
                               !.eng = EngineRollback(EngineCommit(@, FALSE), ok)]) :
               ok \in {b \in May("rollback") : "commit" \in Fails}}

rollbackImplicitTransaction(c) ==
    IF c.tx # "implicit" THEN {c}
    ELSE IF ~c.eng.tran THEN {[c EXCEPT !.tx = "idle", !.eng.noAuto = FALSE]}
    ELSE {[c EXCEPT !.tx = "idle", !.eng = EngineRollback(@, ok)] : ok \in May("rollback")}

(* Faulty: what the failed COPY loaded is left behind.                     *)
rollbackCopyNothing(c, started) == {c}

rollbackCopyTransaction(c, started) ==
    IF ~started \/ c.tx # "idle" THEN {c}
    ELSE IF ~c.eng.tran THEN {[c EXCEPT !.eng.noAuto = FALSE]}
    ELSE {[c EXCEPT !.eng = AutoCommitRestored(EngineRollback(@, ok))] : ok \in May("rollback")}

(* The client is told of an error: the open block is rolled back or marked *)
(* failed, and its work must never be committed.                           *)
Reported(c) ==
    CASE c.tx = "implicit" -> rollbackImplicitTransaction([c EXCEPT !.eng = Doomed(@)])
      [] c.tx = "explicit" -> {[c EXCEPT !.tx = "failed", !.eng = Doomed(@)]}
      [] OTHER             -> {c}

(* Faulty: a failed block accepts everything.                              *)
RejectedNever(c, s) == FALSE

Rejected(c, s) == c.tx = "failed" /\ s \notin {"commit", "rollback", "rollbackTo", "empty"}

-----------------------------------------------------------------------------
(* Running one statement.                                                  *)

(* One chunk of COPY data.  Without a transaction one is started that      *)
(* ignores autocommit; a chunk may fail before or after the loader exists. *)
handleCopyDataHelper(e, copy) ==
    LET b == IF e.tran THEN e ELSE [e EXCEPT !.tran = TRUE, !.noAuto = TRUE]
        k == [copy EXCEPT !.started = @ \/ ~e.tran]
    IN  {[eng |-> StatementDone(b, {"live"}), copy |-> [k EXCEPT !.loader = TRUE], ok |-> TRUE]}
        \cup {[eng |-> f, copy |-> [k EXCEPT !.loader = l], ok |-> FALSE] :
              f \in {g \in StatementFailed(b) : "copy" \in Fails}, l \in {k.loader, TRUE}}

(* The file is loaded as one chunk into a COPY state of its own, and the   *)
(* transaction is committed if autocommit is ignored, whoever began it.    *)
(* After the chunk, Finish may fail (lines 954-957), under autocommit with *)
(* the chunk committed already, and so may that commit.                    *)
copyFromFileQuery(c) ==
    LET Loaded(e) == IF e.tran /\ e.noAuto THEN EngineCommit(e, TRUE) ELSE e
        Stops(k)  == ~k.ok \/ "copy" \in Fails \/ (k.eng.noAuto /\ "commit" \in Fails)
        chunks    == handleCopyDataHelper(c.eng, NewCopy)
    IN  {Done([c EXCEPT !.eng = Loaded(k.eng)]) : k \in {x \in chunks : x.ok}}
        \cup {Error([c EXCEPT !.eng = k.eng]) : k \in {x \in chunks : Stops(x)}}
        \cup {Error(d) : d \in {x \in {c} : "copy" \in Fails}}

deallocatePreparedStatement(c) ==
    {Done([c EXCEPT !.prepared = NothingPrepared])}
    \cup {Result([c EXCEPT !.prepared[n] = NotPrepared], c.prepared[n] # NotPrepared) :
          n \in Names \ {Unnamed}}

handleCopyFromStdinQuery(c) ==
    {[Done([c EXCEPT !.copy = NewCopy]) EXCEPT !.eom = FALSE, !.copyIn = TRUE]}

(* COPY TO runs its SELECT through the engine and streams the rows.        *)
handleCopyTo(c) ==
    {Done([c EXCEPT !.eng = StatementDone(@, {})])}
    \cup {Error([c EXCEPT !.eng = f]) : f \in {g \in StatementFailed(c.eng) : "copy" \in Fails}}

Savepoints == {"savepoint", "rollbackTo", "release"}

(* Faulty: COMMIT of a failed block reaches the engine.                    *)
HandledCommitPassed(c, s) ==
    \/ s = "begin" /\ c.tx \in {"explicit", "implicit"}
    \/ s \in Savepoints /\ c.tx \notin Blocks
    \/ s \in HandlerStatements

(* handleQueryOutsideEngine: the statements it answers itself ...          *)
Handled(c, s) ==
    \/ s = "begin" /\ c.tx \in {"explicit", "implicit"}
    \/ s = "commit" /\ c.tx = "failed"
    \/ s \in Savepoints /\ c.tx \notin Blocks
    \/ s \in HandlerStatements

(* DISCARD ALL closes the session; making the new one may fail.            *)
discardAll(c) ==
    {Done([c EXCEPT !.eng = NewEngine])}
    \cup {Error([c EXCEPT !.eng = f]) : f \in {g \in {NewEngine, c.eng} : "discard" \in Fails}}

OutsideEngine(c, s) ==
    CASE s = "begin"        -> {Done([c EXCEPT !.tx = "explicit"])}
      [] s = "commit"       -> {Result([c EXCEPT !.tx = "idle", !.eng = EngineRollback(@, ok)], ok) :
                                ok \in May("rollback")}
      [] s \in Savepoints   -> {Error(c)}
      [] s = "deallocate"   -> deallocatePreparedStatement(c)
      [] s = "discard"      -> discardAll(c)
      [] s = "copyIn"       -> handleCopyFromStdinQuery(c)
      [] s = "copyFile"     -> copyFromFileQuery(c)
      [] s = "copyOut"      -> handleCopyTo(c)

(* ... and what it changes before it passes the others to the engine.      *)
PassedOn(c, s) ==
    [c EXCEPT !.tx = CASE s \in {"begin", "rollbackTo"}  -> "explicit"
                       [] s \in {"commit", "rollback"}   -> "idle"
                       [] OTHER                          -> @]

EngineSucceeds(e, s) ==
    CASE s = "begin"         -> EngineBegin(e)
      [] s = "commit"        -> {EngineCommit(e, TRUE)}
      [] s = "rollback"      -> {EngineRollback(e, TRUE)}
      [] s = "savepoint"     -> {Settled([e EXCEPT !.tran = TRUE, !.saved = {e.pending}])}
      [] s = "rollbackTo"    -> {Settled([e EXCEPT !.pending = p]) : p \in e.saved}
      [] s = "release"       -> {Settled([e EXCEPT !.saved = {}]) : p \in e.saved}
      [] s \in {"work", "do"} -> {StatementDone(e, {"live"})}
      [] s = "call"          -> {Committed([e EXCEPT !.pending = @ \cup {"live"}])}

(* A failed COMMIT may or may not have given up the uncommitted work.      *)
EngineFails(e, s) ==
    CASE s = "begin" /\ s \in Fails    -> {e}
      [] s = "rollback" /\ s \in Fails -> {EngineRollback(e, FALSE)}
      [] s = "commit" /\ s \in Fails   -> {EngineCommit(e, FALSE),
                                           [EngineCommit(e, FALSE) EXCEPT !.pending = {}]}
      [] s \in {"rollbackTo", "release"} /\ e.saved = {} -> StatementFailed(e)
      [] s \in {"work", "do", "call"} /\ "work" \in Fails -> StatementFailed(e)
      [] OTHER -> {}

(* A panic below the handler is recovered in receiveMessage, where         *)
(* endOfMessages still has its zero value.                                 *)
EnginePanics(e, s) ==
    IF s \in {"work", "do", "call"} /\ "panic" \in Fails THEN StatementFailed(e) ELSE {}

InEngine(c, s) ==
    {Done([c EXCEPT !.eng = f])  : f \in EngineSucceeds(c.eng, s)} \cup
    {Error([c EXCEPT !.eng = f]) : f \in EngineFails(c.eng, s)} \cup
    {More(Error([c EXCEPT !.eng = f])) : f \in EnginePanics(c.eng, s)}

Run(c, s) == IF Handled(c, s) THEN OutsideEngine(c, s) ELSE InEngine(PassedOn(c, s), s)

-----------------------------------------------------------------------------
(* The client as the protocol sees it.  "waiting" and "synced" have a      *)
(* ReadyForQuery coming, for a Query and for a Sync; "batch" has sent      *)
(* extended-protocol messages and no Sync yet; "copying" and "copyingX"    *)
(* send COPY data after a Query and after an Execute; "aborted" was told   *)
(* that its COPY failed; "confused" got a ReadyForQuery it did not expect. *)
ClientStates == {"ready", "waiting", "synced", "batch", "copying", "copyingX",
                 "aborted", "confused", "gone"}

CopyInSeen(cl) ==
    CASE cl = "waiting"             -> "copying"
      [] cl \in {"batch", "synced"} -> "copyingX"
      [] OTHER                      -> cl

ReadySeen(cl, err) ==
    CASE cl \in {"waiting", "synced"} -> "ready"
      [] cl = "copying" /\ err        -> "aborted"
      [] cl = "gone"                  -> cl
      [] OTHER                        -> "confused"

Extended ==
    {m \in [type : {"Parse"}, name : Names, stmt : Preparable]
           \cup [type : {"Bind"}, name : Names, from : Names]
           \cup [type : {"Describe", "Close"}, kind : {"S", "P"}, name : Names]
           \cup [type : {"Execute"}, name : Names]
           \cup [type : {"Flush"}] : m.type \in ExtendedTypes}

Plain(type) == [type |-> type]

Messages == [type : {"Query"}, text : Scripts] \cup Extended
            \cup [type : {"Sync", "CopyData", "CopyDone", "CopyFail", "Terminate", "FunctionCall"}]

Send(m, next) ==
    /\ Len(inbox) < MaxInbox
    /\ inbox' = Append(inbox, m)
    /\ client' = next
    /\ UNCHANGED <<conn, pc, script, reply>>

SendQuery == client = "ready" /\ \E q \in Scripts : Send([type |-> "Query", text |-> q], "waiting")

SendExtended == client \in {"ready", "batch"} /\ \E m \in Extended : Send(m, "batch")

SendSync == client \in {"ready", "batch"} /\ Send(Plain("Sync"), "synced")

SendCopyData == client \in {"copying", "copyingX"} /\ Send(Plain("CopyData"), client)

(* A client that has seen its COPY fail may still end it.                  *)
SendCopyEnd ==
    \E type \in CopyEnds :
        \/ client = "copying"  /\ Send(Plain(type), "waiting")
        \/ client = "copyingX" /\ Send(Plain(type), "batch")
        \/ client = "aborted"  /\ Send(Plain(type), "ready")

AbandonCopy == client = "aborted" /\ client' = "ready" /\ UNCHANGED <<conn, pc, script, inbox, reply>>

SendFunctionCall == client = "ready" /\ Send(Plain("FunctionCall"), "waiting")

SendTerminate == client = "ready" /\ Send(Plain("Terminate"), "gone")

-----------------------------------------------------------------------------
(* The server: receiveMessage, the handler of each message, endOfMessages. *)

(* endOfMessages: report the error, if any, and send ReadyForQuery.        *)
endOfMessages(c, err, cl) ==
    /\ conn' \in IF err THEN Reported(c) ELSE {c}
    /\ reply' = IF err THEN "error" ELSE "ready"
    /\ client' = ReadySeen(cl, err)
    /\ pc' = "receive"

Quiet(c, cl, next) == conn' = c /\ reply' = "none" /\ client' = cl /\ pc' = next

(* How receiveMessage ends: with discardToSync ahead, with endOfMessages,  *)
(* or waiting for the next message.                                        *)
Respond(o) ==
    LET cl == IF o.copyIn THEN CopyInSeen(client) ELSE client IN
    /\ script' = <<>>
    /\ \/ o.err /\ ~o.eom /\ o.conn.waitForSync /\ Quiet(o.conn, cl, "discard")
       \/ o.err /\ (o.eom \/ ~o.conn.waitForSync) /\ endOfMessages(o.conn, TRUE, cl)
       \/ ~o.err /\ o.eom /\ endOfMessages(o.conn, FALSE, cl)
       \/ ~o.err /\ ~o.eom /\ Quiet(o.conn, cl, "receive")

Receives(type) ==
    /\ pc = "receive"
    /\ inbox # <<>>
    /\ Head(inbox).type = type
    /\ inbox' = Tail(inbox)

(* Query: the unnamed statement and portal go unless the text is bad.      *)
Unnaming(c) == [c EXCEPT !.prepared[Unnamed] = NotPrepared, !.portals[Unnamed] = NotPrepared]

Only(c, s) ==
    IF s = "bad" THEN {Error(c)}
    ELSE IF s = "empty" THEN {Done(Unnaming(c))}
    ELSE IF Rejected(c, s) THEN {Error(Unnaming(c))}
    ELSE IF s # "do" THEN Run(Unnaming(c), s)
    ELSE LET ran == Run(startImplicitTransaction(Unnaming(c), s), s)
         IN  {o \in ran : o.err} \cup
             UNION {commitImplicitTransaction(o.conn) : o \in {r \in ran : ~r.err}}

ReceiveQuery ==
    /\ Receives("Query")
    /\ Len(Head(inbox).text) = 1
    /\ \E o \in Only(Now, Head(Head(inbox).text)) : Respond(o)

ReceiveScript ==
    /\ Receives("Query")
    /\ Len(Head(inbox).text) > 1
    /\ script' = Head(inbox).text
    /\ Quiet(Unnaming(Now), client, "script")

(* One statement of several.  The last one runs with autocommit back on,   *)
(* outside explicit blocks, so that the engine commits the implicit block. *)
OneOf(c, s, last) ==
    IF Rejected(c, s) THEN {Error(c)}
    ELSE IF Handled(c, s) THEN {[o EXCEPT !.eom = TRUE] : o \in OutsideEngine(c, s)}
    ELSE LET d == startImplicitTransaction(PassedOn(c, s), s)
         IN  InEngine([d EXCEPT !.eng.noAuto = @ /\ (last => d.tx \in Blocks)], s)

(* A commit that fails after the last statement is returned with           *)
(* endOfMessages = false.                                                  *)
Final(o) ==
    {[p EXCEPT !.eom = ~p.err, !.copyIn = o.copyIn] : p \in commitImplicitTransaction(o.conn)}

RunStatement ==
    /\ pc = "script"
    /\ UNCHANGED inbox
    /\ \E o \in OneOf(Now, Head(script), Len(script) = 1) :
          \/ o.err /\ Respond(o)
          \/ ~o.err /\ Len(script) = 1 /\ \E p \in Final(o) : Respond(p)
          \/ /\ ~o.err /\ Len(script) > 1
             /\ script' = Tail(script)
             /\ Quiet(o.conn, IF o.copyIn THEN CopyInSeen(client) ELSE client, "script")

(* Messages of the extended protocol.                                      *)
Waiting == [Now EXCEPT !.waitForSync = TRUE]

(* Faulty: the error of convertQuery is dropped.                           *)
ReceiveParseUnconverted ==
    /\ Receives("Parse")
    /\ LET m == Head(inbox) IN
       \E ok \in IF m.stmt = "empty" THEN {TRUE} ELSE May("prepare") :
          Respond(More(IF ok /\ ~Rejected(conn, m.stmt)
                       THEN Done([Waiting EXCEPT !.prepared[m.name] = m.stmt])
                       ELSE Error(Waiting)))

ReceiveParse ==
    /\ Receives("Parse")
    /\ LET m == Head(inbox) IN
       \E ok \in IF m.stmt = "empty" THEN {TRUE} ELSE May("prepare") :
          Respond(More(IF ok /\ m.stmt # "bad" /\ ~Rejected(conn, m.stmt)
                       THEN Done([Waiting EXCEPT !.prepared[m.name] = m.stmt])
                       ELSE Error(Waiting)))

ReceiveBind ==
    /\ Receives("Bind")
    /\ LET m == Head(inbox)
           s == conn.prepared[m.from]
       IN  \E ok \in IF s = "empty" THEN {TRUE} ELSE May("prepare") :
              Respond(More(IF ok /\ s # NotPrepared /\ ~Rejected(conn, s)
                           THEN Done([Waiting EXCEPT !.portals[m.name] = s])
                           ELSE Error(Waiting)))

ReceiveDescribe ==
    /\ Receives("Describe")
    /\ LET m == Head(inbox)
           s == IF m.kind = "S" THEN conn.prepared[m.name] ELSE conn.portals[m.name]
       IN  Respond(More(Result(Waiting, s # NotPrepared)))

ReceiveExecute ==
    /\ Receives("Execute")
    /\ LET s == conn.portals[Head(inbox).name] IN
       \E o \in IF s = NotPrepared THEN {Error(Waiting)}
                ELSE IF s = "empty" THEN {Done(Waiting)}
                ELSE IF Rejected(conn, s) THEN {Error(Waiting)}
                ELSE Run(startImplicitTransaction(Waiting, s), s) :
          Respond(More(o))

ReceiveClose ==
    /\ Receives("Close")
    /\ LET m == Head(inbox) IN
       Respond(More(Done(IF m.kind = "S" THEN [Now EXCEPT !.prepared[m.name] = NotPrepared]
                                         ELSE [Now EXCEPT !.portals[m.name] = NotPrepared])))

ReceiveFlush == Receives("Flush") /\ Respond(More(Done(Now)))

(* Faulty: the implicit block outlives Sync; Sync is not answered.         *)
ReceiveSyncWithoutCommit == Receives("Sync") /\ Respond(Done([Now EXCEPT !.waitForSync = FALSE]))

ReceiveSyncUnanswered ==
    /\ Receives("Sync")
    /\ \E o \in commitImplicitTransaction([Now EXCEPT !.waitForSync = FALSE]) : Respond(More(o))

ReceiveSync ==
    /\ Receives("Sync")
    /\ \E o \in commitImplicitTransaction([Now EXCEPT !.waitForSync = FALSE]) : Respond(o)

(* discardToSync, then the error that made it necessary is reported.       *)
Discard ==
    /\ pc = "discard"
    /\ inbox # <<>>
    /\ inbox' = Tail(inbox)
    /\ UNCHANGED script
    /\ IF Head(inbox).type = "Sync" THEN endOfMessages(Now, TRUE, client)
                                    ELSE Quiet(Now, client, "discard")

(* COPY FROM STDIN.                                                        *)
handleCopyData(c) ==
    IF c.copy.err THEN {More(Done(c))}
    ELSE IF ~c.copy.on THEN {Error(c)}
    ELSE LET chunks == handleCopyDataHelper(c.eng, c.copy)
         IN  {More(Done([c EXCEPT !.eng = k.eng, !.copy = k.copy])) : k \in {x \in chunks : x.ok}}
             \cup UNION {{More(Error(d)) :
                            d \in rollbackCopyTransaction(
                                    [c EXCEPT !.eng = k.eng, !.copy = [k.copy EXCEPT !.err = TRUE]],
                                    k.copy.started)} :
                         k \in {x \in chunks : ~x.ok}}

(* Faulty: CopyDone after a failed chunk sends a second ReadyForQuery;     *)
(* commits although finishing the load failed; leaves the COPY open.       *)
handleCopyDoneTwice(c) ==
    LET d == [c EXCEPT !.copy = NoCopy]
    IN  IF ~c.copy.on THEN {Error(c)} ELSE {Done(d)}

handleCopyDoneCommitting(c) ==
    LET d == [c EXCEPT !.copy = NoCopy, !.eng = EngineCommit(@, TRUE)]
    IN  IF ~c.copy.loader \/ c.copy.err THEN {Error([c EXCEPT !.copy = NoCopy])}
        ELSE {Done(d), Error(d)}

handleCopyDoneStaying(c) ==
    IF ~c.copy.on THEN {Error(c)} ELSE {Done([c EXCEPT !.eng = EngineCommit(@, TRUE)])}

(* The load is committed whoever began the transaction.                    *)
handleCopyDone(c) ==
    LET d     == [c EXCEPT !.copy = NoCopy]
        abort == rollbackCopyTransaction(d, c.copy.started)
    IN  IF ~c.copy.on THEN {Error(c)}
        ELSE IF c.copy.err THEN {More(Done(d))}
        ELSE IF ~c.copy.loader THEN {Error(a) : a \in abort}
        ELSE {Done([d EXCEPT !.eng = EngineCommit(@, TRUE)])}
             \cup {More(Error(a)) : a \in {b \in abort : {"copy", "commit"} \cap Fails # {}}}

(* Without a loader the COPY state stays, and so does the operation.       *)
handleCopyFail(c) ==
    IF ~c.copy.on \/ ~c.copy.loader THEN {Error(c)}
    ELSE {Done(d) : d \in rollbackCopyTransaction([c EXCEPT !.copy = NoCopy], c.copy.started)}

ReceiveCopyData == Receives("CopyData") /\ \E o \in handleCopyData(Now) : Respond(o)

ReceiveCopyDone == Receives("CopyDone") /\ \E o \in handleCopyDone(Now) : Respond(o)

ReceiveCopyFail == Receives("CopyFail") /\ \E o \in handleCopyFail(Now) : Respond(o)

ReceiveFunctionCall == Receives("FunctionCall") /\ Respond(Error(Now))

(* The connection ends, by Terminate or by a failed read or write: the     *)
(* session goes, and the engine transaction with it.                       *)
Closed ==
    /\ conn' = NewConnection
    /\ pc' = "closed"
    /\ script' = <<>>
    /\ inbox' = <<>>
    /\ client' = "gone"
    /\ reply' = "none"

ReceiveTerminate == pc = "receive" /\ inbox # <<>> /\ Head(inbox).type = "Terminate" /\ Closed

Lose == pc # "closed" /\ Closed

(* A new connection, past its startup and authentication.                  *)
Accept ==
    /\ pc = "closed"
    /\ pc' = "receive"
    /\ client' = "ready"
    /\ UNCHANGED <<conn, script, inbox, reply>>

-----------------------------------------------------------------------------
Init ==
    /\ conn = NewConnection
    /\ pc = "receive"
    /\ script = <<>>
    /\ inbox = <<>>
    /\ client = "ready"
    /\ reply = "none"

Client == SendQuery \/ SendExtended \/ SendSync \/ SendCopyData \/ SendCopyEnd
          \/ AbandonCopy \/ SendFunctionCall \/ SendTerminate

Server == ReceiveQuery \/ ReceiveScript \/ RunStatement \/ ReceiveParse \/ ReceiveBind
          \/ ReceiveDescribe \/ ReceiveExecute \/ ReceiveClose \/ ReceiveFlush \/ ReceiveSync
          \/ Discard \/ ReceiveCopyData \/ ReceiveCopyDone \/ ReceiveCopyFail
          \/ ReceiveFunctionCall \/ ReceiveTerminate

Next == Client \/ Server \/ Lose \/ Accept

(* The goroutine of the connection keeps running; nothing is assumed of    *)
(* the client.                                                             *)
Spec == Init /\ [][Next]_vars /\ WF_vars(Server)

-----------------------------------------------------------------------------
TypeOK ==
    /\ conn \in Connection
    /\ pc \in {"receive", "script", "discard", "closed"}
    /\ script \in Seq(Runnable)
    /\ inbox \in Seq(Messages)
    /\ client \in ClientStates
    /\ reply \in {"none", "ready", "error"}

(* A step that ends in an ErrorResponse commits nothing.  ConnectionHistory*)
(* says up to which event: on a session whose failed COMMIT left a         *)
(* transaction open under autocommit, copyFromFileQuery may commit a chunk *)
(* before its Finish fails.                                                *)
ErrorCommitsNothing == reply = "error" => conn.eng.committed = {}

(* Work of a block whose client was sent an error is never committed, by   *)
(* whatever statements, Syncs or COPY messages follow.                     *)
DoomedNeverCommits == "doomed" \notin conn.eng.committed

(* Between messages, outside every block and COPY, the session is back in  *)
(* autocommit and nothing is left uncommitted.                             *)
IdleIsAutoCommit ==
    pc = "receive" /\ conn.tx = "idle" /\ (conn.copy.on => conn.copy.err)
        => ~conn.eng.noAuto /\ conn.eng.pending = {}

(* "Single statements will always be auto-committed, unless they are       *)
(* inside an explicit transaction block" (handleQuery): when the handler   *)
(* reports success and an idle session, all work is durable.               *)
SingleStatementsCommit ==
    reply = "ready" /\ conn.tx = "idle" /\ ~conn.copy.on => conn.eng.pending = {}

(* While a transaction block, explicit or implicit, stays open, nothing of *)
(* it is committed.                                                        *)
OpenBlockCommitsNothing ==
    [][conn.tx # "idle" /\ conn'.tx # "idle" => conn'.eng.committed = {}]_conn

(* ReadyForQuery closes the implicit block, in success and in error.       *)
ImplicitEndsAtReady == reply # "none" => conn.tx # "implicit"

(* While a block stays failed, no statement adds to its work.              *)
FailedBlockIsFrozen ==
    [][conn.tx = "failed" /\ conn'.tx = "failed" => conn'.eng.pending = conn.eng.pending]_conn

(* The client gets no ReadyForQuery it is not waiting for.                 *)
NoStrayReady == client # "confused"

(* The server does not report itself ready while a COPY that has loaded    *)
(* rows and has not failed is still open.                                  *)
NotReadyInCopyMode == reply = "ready" => (conn.copy.loader => conn.copy.err)

(* Every Query and every Sync is answered.                                 *)
Answered == client \in {"waiting", "synced"} ~> client \notin {"waiting", "synced"}

=============================================================================
