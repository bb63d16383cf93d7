-------------------------- MODULE ConnectionHistory --------------------------
(* ConnectionHandler with the history of the few events its handler does   *)
(* not recover from, so that one run takes every statement, message and    *)
(* failure and the properties say what holds until such an event.          *)
EXTENDS ConnectionHandler

VARIABLE regular    \* no irregular event since the connection was made

Running(S) ==
    \/ pc = "script" /\ Head(script) \in S
    \/ pc = "receive" /\ Head(inbox).type = "Query" /\ \E s \in S : Head(inbox).text = <<s>>
    \/ pc = "receive" /\ Head(inbox).type = "Execute" /\ conn.portals[Head(inbox).name] \in S

Alone == pc = "receive" /\ Head(inbox).type = "Query" /\ conn.tx = "idle"

SimpleProtocol == pc = "script" \/ Head(inbox).type \in {"Query", "CopyData", "CopyDone", "CopyFail"}

(* A COMMIT, ROLLBACK or COPY FROM file that fails; CALL, COPY FROM or    *)
(* DISCARD ALL other than alone outside every block; CopyFail after a     *)
(* failed chunk; an error of the simple protocol that waits for a Sync.   *)
Irregular ==
    \/ Running({"commit", "rollback", "copyFile"}) /\ (reply' = "error" \/ pc' = "discard")
    \/ Running({"call", "copyIn", "copyFile", "discard"}) /\ ~Alone
    \/ pc = "receive" /\ Head(inbox).type = "CopyFail" /\ conn.copy.err
    \/ pc # "discard" /\ SimpleProtocol /\ pc' = "discard"

HistoryInit == Init /\ regular = TRUE

HistoryServer == regular /\ Server /\ regular' = ~Irregular

(* After an irregular event only the loss of the connection is followed.  *)
HistoryNext ==
    \/ HistoryServer
    \/ regular /\ Client /\ UNCHANGED regular
    \/ Lose /\ regular' = TRUE
    \/ Accept /\ UNCHANGED regular

HistorySpec ==
    HistoryInit /\ [][HistoryNext]_<<vars, regular>> /\ WF_<<vars, regular>>(HistoryServer)

-----------------------------------------------------------------------------
(* Work of a block whose client was sent an error is never committed.     *)
RegularDoomedNeverCommits == regular => DoomedNeverCommits

(* Outside blocks and COPY the session is back in autocommit and nothing  *)
(* is left uncommitted, whatever succeeded or failed before.              *)
RegularIdleIsAutoCommit == regular => IdleIsAutoCommit

(* ReadyForQuery closes the implicit block, in success and in error.      *)
RegularImplicitEndsAtReady == regular => ImplicitEndsAtReady

(* No ReadyForQuery reaches a client that is not waiting for one.         *)
RegularNoStrayReady == regular => NoStrayReady

(* Never ready while rows of an unfinished COPY are loaded.               *)
RegularNotReadyInCopyMode == regular => NotReadyInCopyMode

(* While a block stays open, nothing of it is committed.                  *)
RegularOpenBlockCommitsNothing ==
    [][regular' /\ conn.tx # "idle" /\ conn'.tx # "idle" => conn'.eng.committed = {}]_<<conn, regular>>

(* While a block stays failed, no statement adds to its work.             *)
RegularFailedBlockIsFrozen ==
    [][regular' /\ conn.tx = "failed" /\ conn'.tx = "failed"
         => conn'.eng.pending = conn.eng.pending]_<<conn, regular>>

(* The server and the client never wait for one another: a client that is *)
(* waiting for ReadyForQuery has its script running, or the last message  *)
(* it sent is still to be read and is one that ReadyForQuery answers; a   *)
(* handler that discards messages answers none but a Sync.                *)
RegularAnswerIsDue ==
    regular /\ client \in {"waiting", "synced"} =>
        \/ pc = "script"
        \/ /\ inbox # <<>>
           /\ inbox[Len(inbox)].type \in
                IF pc = "discard" THEN {"Sync"}
                                  ELSE {"Query", "FunctionCall", "Sync", "CopyDone", "CopyFail"}

(* Every Query and every Sync is answered.                                *)
RegularAnswered ==
    client \in {"waiting", "synced"} ~> client \notin {"waiting", "synced"} \/ ~regular

=============================================================================
