--------------------------- MODULE ResultPipeline ---------------------------
(***************************************************************************)
(* How DoltgresHandler.doQuery brings the rows of a query to the client    *)
(* (server/doltgres_handler.go).  Four goroutines of an errgroup share the *)
(* work: one reads the row iterator, one converts rows and collects them   *)
(* in batches, one hands the batches to the callback that writes to the    *)
(* client, and one closes the iterator after the other three.  Results of  *)
(* one row or none take a shortcut without goroutines.                     *)
(*                                                                         *)
(* A row is its position in the iterator.  The iterator and the callback   *)
(* are external: each of their calls may fail.                             *)
(***************************************************************************)
EXTENDS Integers, Sequences

CONSTANTS
    MaxItems,     \* the longest result
    rowsBatch,    \* rows in a full batch
    RowCap,       \* capacity of rowChan
    ResCap,       \* capacity of resChan
    Affected,     \* the RowsAffected an OkResult may report
    Faults        \* the calls that may fail

Failures == {"next", "convert", "callback", "close", "timeout", "mixed", "cancel", "shape"}

ASSUME PipelineAssumption ==
    /\ MaxItems \in Nat
    /\ rowsBatch \in Nat \ {0}
    /\ RowCap \in Nat \ {0}
    /\ ResCap \in Nat \ {0}
    /\ Affected \subseteq Nat
    /\ Faults \subseteq Failures

VARIABLES
    kind,       \* which result function doQuery calls
    source,     \* what the iterator yields: rows and OkResults
    read,       \* how many of them Next has returned
    pc,         \* where each goroutine is
    ret,        \* whether the function of each goroutine returned an error
    rowChan, rowClosed, resChan, resClosed,
    res,        \* the result being filled
    processed,  \* processedAtLeastOneBatch
    closed,     \* the iterator was closed
    err,        \* the errgroup has an error, and has cancelled the context
    sent,       \* the rows the callback has written
    outcome,    \* "running", or how doQuery returned
    faults      \* what has failed so far, the caller's cancellation included

channels == <<rowChan, rowClosed, resChan, resClosed>>

vars == <<kind, source, read, pc, ret, channels, res, processed, closed, err, sent, outcome, faults>>

Goroutines == {"reader", "converter", "sender", "closer"}

Emptied == [rows |-> <<>>, affected |-> 0]

Fault(f) == f \in Faults /\ faults' = faults \cup {f}

Fine == UNCHANGED faults

Kinds == {"rows", "ok", "empty", "max1", "refused"}

Items(k) == CASE k = "rows" -> {"row", "ok"} [] k = "max1" -> {"row"} [] OTHER -> {"ok"}

(* The errgroup's context, derived from the caller's.                      *)
CtxDone == err \/ "cancel" \in faults

-----------------------------------------------------------------------------
(* A goroutine's function ends: its deferred close and wg.Done run, and    *)
(* only later does the errgroup see what it returned.                      *)
Goto(g, where) == pc' = [pc EXCEPT ![g] = where]

End(g, failed) == Goto(g, "ended") /\ ret' = [ret EXCEPT ![g] = failed]

(* Faulty: the errgroup does not cancel the context.                       *)
ReturnedQuietly(g) ==
    /\ pc[g] = "ended"
    /\ Goto(g, "returned")
    /\ UNCHANGED <<kind, source, read, ret, channels, res, processed, closed, err, sent, outcome, faults>>

Returned(g) ==
    /\ pc[g] = "ended"
    /\ Goto(g, "returned")
    /\ err' = (err \/ ret[g])
    /\ UNCHANGED <<kind, source, read, ret, channels, res, processed, closed, sent, outcome, faults>>

(* Reads rows off the iterator.  Waiting to send, it gives up without an   *)
(* error when the context is done.                                         *)
ReaderEnds(failed) == End("reader", failed) /\ rowClosed' = TRUE /\ UNCHANGED <<read, rowChan>>

(* Faulty: asks for a row after the last one.                              *)
ReadNextPastEnd ==
    /\ pc["reader"] = "run"
    /\ read <= Len(source)
    /\ read' = read + 1
    /\ Goto("reader", "send")
    /\ UNCHANGED <<kind, source, ret, channels, res, processed, closed, err, sent, outcome, faults>>

ReadNext ==
    /\ pc["reader"] = "run"
    /\ IF CtxDone THEN ReaderEnds(TRUE) /\ Fine
       ELSE \/ read = Len(source) /\ ReaderEnds(FALSE) /\ Fine
            \/ Fault("next") /\ ReaderEnds(TRUE)
            \/ /\ read < Len(source) /\ read' = read + 1 /\ Goto("reader", "send") /\ Fine
               /\ UNCHANGED <<ret, rowChan, rowClosed>>
    /\ UNCHANGED <<kind, source, resChan, resClosed, res, processed, closed, err, sent, outcome>>

SendRow ==
    /\ pc["reader"] = "send"
    /\ Len(rowChan) < RowCap
    /\ rowChan' = Append(rowChan, read)
    /\ Goto("reader", "run")
    /\ UNCHANGED <<kind, source, read, ret, rowClosed, resChan, resClosed, res, processed, closed,
                   err, sent, outcome, faults>>

(* Faulty: waits for room in the channel only.                             *)
GiveUpNever == pc["reader"] = "send" /\ CtxDone /\ pc["reader"] = "run" /\ UNCHANGED vars

GiveUp ==
    /\ pc["reader"] = "send"
    /\ CtxDone
    /\ ReaderEnds(FALSE)
    /\ UNCHANGED <<kind, source, resChan, resClosed, res, processed, closed, err, sent, outcome, faults>>

(* Converts rows and collects them in res.  An OkResult replaces what res  *)
(* holds, and panics when that is something.                               *)
ConverterEnds(failed) == End("converter", failed) /\ resClosed' = TRUE /\ UNCHANGED res

(* A batch has space for rowsBatch rows.  Rows after an OkResult that       *)
(* counted that many or more go on past the full batch, and are refused    *)
(* there.                                                                  *)
Convert(row) ==
    \/ Fault("convert") /\ ConverterEnds(TRUE)
    \/ Len(res.rows) >= rowsBatch /\ faults' = faults \cup {"mixed"} /\ ConverterEnds(TRUE)
    \/ /\ Len(res.rows) < rowsBatch
       /\ res' = [rows |-> Append(res.rows, row), affected |-> res.affected + 1]
       /\ Goto("converter", IF res.affected + 1 = rowsBatch THEN "push" ELSE "run")
       /\ UNCHANGED <<ret, resClosed>>
       /\ Fine

ConvertOk ==
    \/ res.affected > 0 /\ faults' = faults \cup {"mixed"} /\ ConverterEnds(TRUE)
    \/ /\ res.affected = 0
       /\ \E n \in Affected : res' = [rows |-> <<>>, affected |-> n]
       /\ UNCHANGED <<pc, ret, resClosed>>
       /\ Fine

TakeRow ==
    /\ pc["converter"] = "run"
    /\ rowChan # <<>>
    /\ rowChan' = Tail(rowChan)
    /\ IF source[Head(rowChan)] = "ok" THEN ConvertOk ELSE Convert(Head(rowChan))
    /\ UNCHANGED <<kind, source, read, rowClosed, resChan, processed, closed, err, sent, outcome>>

StopConverting ==
    /\ pc["converter"] = "run"
    /\ \/ CtxDone /\ ConverterEnds(TRUE) /\ Fine
       \/ Fault("timeout") /\ ConverterEnds(TRUE)
       \/ rowChan = <<>> /\ rowClosed /\ ConverterEnds(FALSE) /\ Fine
    /\ UNCHANGED <<kind, source, read, rowChan, rowClosed, resChan, processed, closed, err, sent, outcome>>

(* Faulty: goes on filling the batch it has sent.                          *)
PushBatchAgain ==
    /\ pc["converter"] = "push"
    /\ Len(resChan) < ResCap
    /\ resChan' = Append(resChan, res.rows)
    /\ res' = [res EXCEPT !.affected = 0]
    /\ Goto("converter", "run")
    /\ UNCHANGED <<kind, source, read, ret, rowChan, rowClosed, resClosed, processed, closed, err, sent,
                   outcome, faults>>

PushBatch ==
    /\ pc["converter"] = "push"
    /\ \/ CtxDone /\ ConverterEnds(TRUE) /\ UNCHANGED resChan
       \/ /\ Len(resChan) < ResCap
          /\ resChan' = Append(resChan, res.rows)
          /\ res' = Emptied
          /\ Goto("converter", "run")
          /\ UNCHANGED <<ret, resClosed>>
    /\ UNCHANGED <<kind, source, read, rowChan, rowClosed, processed, closed, err, sent, outcome, faults>>

(* Faulty: the callback's error is dropped.                                *)
SendBatchAnyway ==
    /\ pc["sender"] = "run"
    /\ resChan # <<>>
    /\ resChan' = Tail(resChan)
    /\ processed' = TRUE
    /\ \/ Fine /\ sent' = sent \o Head(resChan)
       \/ Fault("callback") /\ UNCHANGED sent
    /\ UNCHANGED <<kind, source, read, pc, ret, rowChan, rowClosed, resClosed, res, closed, err, outcome>>

(* Faulty: a batch that could not be written is kept to be tried again.    *)
SendBatchRetrying ==
    /\ pc["sender"] = "run"
    /\ resChan # <<>>
    /\ \/ Fine /\ sent' = sent \o Head(resChan) /\ resChan' = Tail(resChan)
       \/ Fault("callback") /\ UNCHANGED <<sent, resChan>>
    /\ processed' = TRUE
    /\ UNCHANGED <<kind, source, read, pc, ret, rowChan, rowClosed, resClosed, res, closed, err, outcome>>

(* Hands full batches to the callback.                                     *)
SendBatch ==
    /\ pc["sender"] = "run"
    /\ resChan # <<>>
    /\ resChan' = Tail(resChan)
    /\ processed' = TRUE
    /\ \/ sent' = sent \o Head(resChan) /\ UNCHANGED <<pc, ret>> /\ Fine
       \/ Fault("callback") /\ End("sender", TRUE) /\ UNCHANGED sent
    /\ UNCHANGED <<kind, source, read, rowChan, rowClosed, resClosed, res, closed, err, outcome>>

StopSending ==
    /\ pc["sender"] = "run"
    /\ \/ CtxDone /\ End("sender", TRUE)
       \/ resChan = <<>> /\ resClosed /\ End("sender", FALSE)
    /\ UNCHANGED <<kind, source, read, channels, res, processed, closed, err, sent, outcome, faults>>

(* Closes the iterator once the other three are done.                      *)
Ended(g) == pc[g] \in {"ended", "returned"}

(* Faulty: the wait group counts the goroutines that fill channels only.   *)
WaitedForTwo == Ended("reader") /\ Ended("converter")

Waited == Ended("reader") /\ Ended("converter") /\ Ended("sender")

(* Faulty: the iterator is left alone when the query has failed.           *)
CloseIterIfFine ==
    /\ pc["closer"] = "run"
    /\ Waited
    /\ closed' = ~CtxDone
    /\ End("closer", CtxDone)
    /\ UNCHANGED <<kind, source, read, channels, res, processed, err, sent, outcome, faults>>

CloseIter ==
    /\ pc["closer"] = "run"
    /\ Waited
    /\ closed' = TRUE
    /\ \/ Fine /\ End("closer", FALSE)
       \/ Fault("close") /\ End("closer", TRUE)
    /\ UNCHANGED <<kind, source, read, channels, res, processed, err, sent, outcome>>

-----------------------------------------------------------------------------
(* The end of doQuery, after eg.Wait: the last batch, full or not, goes to *)
(* the callback here.                                                      *)
Answer(how) == outcome' = how

(* Faulty: a client that has got batches gets no last one.                 *)
NothingLeftOnce(r) == processed

NothingLeft(r) == r.affected = 0 /\ processed

CallbackLast(r) ==
    IF NothingLeft(r) THEN Answer("success") /\ UNCHANGED sent /\ Fine
    ELSE \/ sent' = sent \o r.rows /\ Answer("success") /\ Fine
         \/ Fault("callback") /\ Answer("error") /\ UNCHANGED sent

Wait ==
    /\ kind = "rows"
    /\ outcome = "running"
    /\ \A g \in Goroutines : pc[g] = "returned"
    /\ IF err THEN Answer("error") /\ UNCHANGED sent /\ Fine ELSE CallbackLast(res)
    /\ UNCHANGED <<kind, source, read, pc, ret, channels, res, processed, closed, err>>

(* resultForOkIter, resultForEmptyIter and resultForMax1RowIter.  An       *)
(* iterator with too few or too many rows, or a failing one, is not closed;*)
(* neither is an empty one that was to yield at most one row.  A query     *)
(* that is refused (it cannot be executed, or has a wrong number of format *)
(* codes) gets as far as none of them.                                     *)
Shapes(k) == CASE k = "ok" -> {1} [] k = "empty" -> {0} [] k = "max1" -> {0, 1} [] OTHER -> {}

Shortcut ==
    /\ kind # "rows"
    /\ outcome = "running"
    /\ LET n == Len(source)
           r == IF kind = "max1" /\ n = 1 THEN [rows |-> <<1>>, affected |-> 1] ELSE Emptied
       IN  \/ Fault("next") /\ Answer("error") /\ UNCHANGED <<closed, sent>>
           \/ /\ n \notin Shapes(kind) /\ faults' = faults \cup {"shape"}
              /\ Answer("error") /\ UNCHANGED <<closed, sent>>
           \/ /\ n \in Shapes(kind)
              /\ closed' = ~(kind = "max1" /\ n = 0)
              /\ \/ closed' /\ Fault("close") /\ Answer("error") /\ UNCHANGED sent
                 \/ r # Emptied /\ Fault("convert") /\ Answer("error") /\ UNCHANGED sent
                 \/ CallbackLast(r)
    /\ UNCHANGED <<kind, source, read, pc, ret, channels, res, processed, err>>

(* The caller's context is cancelled.                                      *)
Cancel ==
    /\ outcome = "running"
    /\ "cancel" \notin faults
    /\ Fault("cancel")
    /\ UNCHANGED <<kind, source, read, pc, ret, channels, res, processed, closed, err, sent, outcome>>

-----------------------------------------------------------------------------
Init ==
    /\ kind \in Kinds
    /\ source \in UNION {[1 .. n -> Items(kind)] : n \in 0 .. MaxItems}
    /\ read = 0
    /\ pc = [g \in Goroutines |-> "run"]
    /\ ret = [g \in Goroutines |-> FALSE]
    /\ rowChan = <<>> /\ rowClosed = FALSE
    /\ resChan = <<>> /\ resClosed = FALSE
    /\ res = Emptied
    /\ processed = FALSE
    /\ closed = FALSE
    /\ err = FALSE
    /\ sent = <<>>
    /\ outcome = "running"
    /\ faults = {}

Reader == ReadNext \/ SendRow \/ GiveUp

Converter == TakeRow \/ StopConverting \/ PushBatch

Sender == SendBatch \/ StopSending

Streaming == kind = "rows" /\ (Reader \/ Converter \/ Sender \/ CloseIter \/ \E g \in Goroutines : Returned(g))

Next == Streaming \/ Wait \/ Shortcut \/ Cancel

(* The read timer fires, which it need not.                                *)
TimedOut == "timeout" \in faults' \ faults

(* Every goroutine keeps running, and every call it makes returns.         *)
Fairness ==
    /\ WF_vars(kind = "rows" /\ Reader)
    /\ WF_vars(kind = "rows" /\ Converter /\ ~TimedOut)
    /\ WF_vars(kind = "rows" /\ Sender)
    /\ WF_vars(kind = "rows" /\ CloseIter)
    /\ \A g \in Goroutines : WF_vars(kind = "rows" /\ Returned(g))
    /\ WF_vars(Wait)
    /\ WF_vars(Shortcut)

Spec == Init /\ [][Next]_vars /\ Fairness

-----------------------------------------------------------------------------
TypeOK ==
    /\ kind \in Kinds
    /\ source \in Seq({"row", "ok"})
    /\ read \in 0 .. Len(source)
    /\ pc \in [Goroutines -> {"run", "send", "push", "ended", "returned"}]
    /\ ret \in [Goroutines -> BOOLEAN]
    /\ rowChan \in Seq(1 .. Len(source)) /\ Len(rowChan) <= RowCap
    /\ resChan \in Seq(Seq(1 .. Len(source))) /\ Len(resChan) <= ResCap
    /\ res \in [rows : Seq(1 .. Len(source)), affected : Nat]
    /\ {rowClosed, resClosed, processed, closed, err} \subseteq BOOLEAN
    /\ sent \in Seq(1 .. Len(source))
    /\ outcome \in {"running", "success", "error"}
    /\ faults \subseteq Failures

Delivered == {sent[i] : i \in DOMAIN sent}

Rows == {k \in 1 .. Len(source) : source[k] = "row"}

(* What the client has is a beginning of the result: the rows of every     *)
(* batch arrive in order, once, and none before an earlier one.            *)
RowsInOrder ==
    kind = "rows" =>
        /\ \A i, j \in DOMAIN sent : i < j => sent[i] < sent[j]
        /\ \A i \in DOMAIN sent : \A k \in Rows : k < sent[i] => k \in Delivered

(* A streamed query that returns without an error has delivered every row, *)
(* unless its caller has cancelled it.                                     *)
AllRowsDelivered == kind = "rows" /\ outcome = "success" /\ "cancel" \notin faults => Delivered = Rows

(* No failure is lost between the goroutines: a query that returns without *)
(* an error has met none, and one that returns an error has met one.       *)
FailureIsReported ==
    /\ outcome = "success" => faults \subseteq {"cancel"}
    /\ outcome = "error" => faults # {}

(* Once the iterator is closed Next is not called again and the sender has *)
(* nothing more to send.  Closing does not "wait until all rows have be    *)
(* sent over the wire": doQuery's own call of the callback, after eg.Wait,  *)
(* still writes what is left in res, once.  But it writes nothing else, and *)
(* when nothing has failed every row is there or with the client already.  *)
CloseLeavesLastBatch ==
    [][closed /\ kind = "rows" =>
         /\ read' = read /\ processed' = processed
         /\ sent' # sent => sent' = sent \o res.rows /\ outcome' = "success"
         /\ faults = {} => Rows \subseteq Delivered \cup {res.rows[i] : i \in DOMAIN res.rows}]_vars

(* However a streamed query ends, its iterator has been closed; so has the *)
(* iterator of a successful statement without rows.                        *)
IteratorClosed ==
    /\ outcome # "running" /\ kind = "rows" => closed
    /\ outcome = "success" /\ kind \in {"ok", "empty"} => closed

(* What a goroutine waits for: room or an item in a channel, or the end of *)
(* the others.  A context that is done wakes all but the last.             *)
Blocked(g) ==
    CASE g = "reader"    -> pc[g] = "send" /\ Len(rowChan) = RowCap /\ ~CtxDone
      [] g = "converter" -> /\ \/ pc[g] = "run" /\ rowChan = <<>> /\ ~rowClosed
                               \/ pc[g] = "push" /\ Len(resChan) = ResCap
                            /\ ~CtxDone
      [] g = "sender"    -> pc[g] = "run" /\ resChan = <<>> /\ ~resClosed /\ ~CtxDone
      [] g = "closer"    -> pc[g] = "run" /\ ~Waited

(* The goroutines never all wait for one another, whichever of them have   *)
(* failed or gone and however small the channels are: until eg.Wait        *)
(* returns, one of them can go on, without the help of the read timer.     *)
NeverAllBlocked ==
    kind = "rows" /\ (\E g \in Goroutines : pc[g] # "returned")
        => \E g \in Goroutines : pc[g] # "returned" /\ ~Blocked(g)

(* How much is still to be done: an item is read, sent to rowChan, taken,  *)
(* pushed in a batch and sent; a goroutine ends and returns; the caller    *)
(* may cancel once; doQuery returns.                                       *)
Remaining(g) ==
    CASE pc[g] = "send"     -> 6
      [] pc[g] = "push"     -> 4
      [] pc[g] = "run"      -> 2
      [] pc[g] = "ended"    -> 1
      [] pc[g] = "returned" -> 0

ItemsLeft == 5 * (Len(source) - read) + 3 * Len(rowChan) + Len(resChan)

GoroutinesLeft == Remaining("reader") + Remaining("converter") + Remaining("sender") + Remaining("closer")

Left ==
    ItemsLeft + GoroutinesLeft
        + (IF outcome = "running" THEN 1 ELSE 0) + (IF "cancel" \in faults THEN 0 ELSE 1)

(* No step is ever repeated, tried again or undone: each one leaves less   *)
(* to do, so that a query of n items is over after at most 5 * n + 10.     *)
BoundedWork == [][Left' >= 0 /\ Left' < Left]_vars

(* Every query ends, whichever goroutine fails and however full the        *)
(* channels are.                                                           *)
Terminates == <>(outcome # "running")

=============================================================================
