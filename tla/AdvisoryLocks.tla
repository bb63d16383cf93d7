---------------------------- MODULE AdvisoryLocks ----------------------------
(***************************************************************************)
(* Advisory locks (server/functions/advisory_locks.go) and the bookkeeping *)
(* of their two scopes in a session's contextValues (core/context.go).     *)
(*                                                                         *)
(* The engine's lock subsystem knows an owner and a count per lock and no  *)
(* scope.  Scopes are kept by the session: sessionAdvisoryLockCounts says  *)
(* how many acquisitions pg_advisory_unlock may give back, and one         *)
(* transaction-end callback per acquisition gives back the others.         *)
(*                                                                         *)
(* A session is a connection: the goroutine of a connection runs one call  *)
(* at a time, and its ID is the owner the engine sees.                     *)
(***************************************************************************)
EXTENDS Integers

CONSTANTS
    Sessions,
    Locks,
    Nobody,        \* the owner of a free lock
    MaxCount,      \* bound on re-entrance
    ReleaseFails   \* whether maybeReleaseAllLocks may fail

ASSUME LocksAssumption ==
    /\ Nobody \notin Sessions
    /\ MaxCount \in Nat
    /\ ReleaseFails \in BOOLEAN

VARIABLES
    lock,       \* the engine's owner and count of each lock
    open,       \* whether the connection of a session is open
    tx,         \* whether the session has a transaction
    counts,     \* sessionAdvisoryLockCounts
    callbacks,  \* transactionEndCallbacks: how many unlock each lock
    ending,     \* callbacks taken by DoltgresTransactionEnd and not yet run
    waiting,    \* the lock a session waits for and its scope, if any
    lost        \* an attempt to release all locks of a connection has failed

session == <<counts, callbacks, ending>>

vars == <<lock, open, tx, session, waiting, lost>>

Scopes == {"session", "transaction"}

None == [l \in Locks |-> 0]

NotWaiting == {}

-----------------------------------------------------------------------------
(* sql.LockSubsystem.                                                      *)
Free == [owner |-> Nobody, count |-> 0]

Available(s, l) == lock[l].owner \in {s, Nobody}

LockedBy(s, l) == [lock EXCEPT ![l] = [owner |-> s, count |-> lock[l].count + 1]]

(* Unlock by a session that is not the owner is an error.                  *)
UnlockedBy(s, l) ==
    [lock EXCEPT ![l] = IF @.owner # s THEN @
                        ELSE IF @.count > 1 THEN [owner |-> s, count |-> @.count - 1]
                        ELSE Free]

AllUnlockedBy(s) == [l \in Locks |-> IF lock[l].owner = s THEN Free ELSE lock[l]]

-----------------------------------------------------------------------------
(* The session runs the callbacks of a transaction before anything else.   *)
Idle(s) == open[s] /\ waiting[s] = NotWaiting /\ ending[s] = None

Connect(s) ==
    /\ ~open[s]
    /\ open' = [open EXCEPT ![s] = TRUE]
    /\ UNCHANGED <<lock, tx, session, waiting, lost>>

Begin(s) ==
    /\ Idle(s)
    /\ ~tx[s]
    /\ tx' = [tx EXCEPT ![s] = TRUE]
    /\ UNCHANGED <<lock, open, session, waiting, lost>>

(* A lock of transaction scope needs a transaction.                        *)
MayAcquire(s, l, scope) ==
    /\ Idle(s)
    /\ scope = "transaction" => tx[s]
    /\ counts[s][l] + callbacks[s][l] < MaxCount

(* One acquisition is recorded: a count, or a callback that gives it back. *)
Acquired(s, l, scope) ==
    /\ Available(s, l)
    /\ lock' = LockedBy(s, l)
    /\ \/ /\ scope = "session"
          /\ counts' = [counts EXCEPT ![s][l] = @ + 1]
          /\ UNCHANGED callbacks
       \/ /\ scope = "transaction"
          /\ callbacks' = [callbacks EXCEPT ![s][l] = @ + 1]
          /\ UNCHANGED counts
    /\ UNCHANGED <<open, tx, ending, lost>>

(* pg_try_advisory_lock and pg_try_advisory_xact_lock; a lock that another *)
(* session holds is not acquired, and nothing changes.                     *)
TryLock(s, l, scope) == MayAcquire(s, l, scope) /\ Acquired(s, l, scope) /\ UNCHANGED waiting

(* pg_advisory_lock and pg_advisory_xact_lock wait without a limit.        *)
Lock(s, l, scope) ==
    /\ MayAcquire(s, l, scope)
    /\ waiting' = [waiting EXCEPT ![s] = {<<l, scope>>}]
    /\ UNCHANGED <<lock, open, tx, session, lost>>

GetLock(s) ==
    /\ \E w \in waiting[s] : Acquired(s, w[1], w[2])
    /\ waiting' = [waiting EXCEPT ![s] = NotWaiting]

(* Faulty: releases whatever the session holds; counts below zero.         *)
UnlockAnyScope(s, l) ==
    /\ Idle(s)
    /\ lock[l].owner = s
    /\ lock' = UnlockedBy(s, l)
    /\ counts' = [counts EXCEPT ![s][l] = IF @ <= 1 THEN 0 ELSE @ - 1]
    /\ UNCHANGED <<open, tx, callbacks, ending, waiting, lost>>

UnlockBelowZero(s, l) ==
    /\ Idle(s)
    /\ lock[l].owner = s
    /\ lock' = UnlockedBy(s, l)
    /\ counts' = [counts EXCEPT ![s][l] = @ - 1]
    /\ UNCHANGED <<open, tx, callbacks, ending, waiting, lost>>

(* pg_advisory_unlock.                                                     *)
Unlock(s, l) ==
    /\ Idle(s)
    /\ counts[s][l] > 0
    /\ lock[l].owner = s
    /\ lock' = UnlockedBy(s, l)
    /\ counts' = [counts EXCEPT ![s][l] = IF @ <= 1 THEN 0 ELSE @ - 1]
    /\ UNCHANGED <<open, tx, callbacks, ending, waiting, lost>>

(* Faulty: the callbacks are forgotten; are taken and left in place.       *)
TransactionEndForgets(s) ==
    /\ Idle(s)
    /\ tx[s]
    /\ tx' = [tx EXCEPT ![s] = FALSE]
    /\ callbacks' = [callbacks EXCEPT ![s] = None]
    /\ UNCHANGED <<lock, open, counts, ending, waiting, lost>>

TransactionEndTwice(s) ==
    /\ Idle(s)
    /\ tx[s]
    /\ tx' = [tx EXCEPT ![s] = FALSE]
    /\ ending' = [ending EXCEPT ![s] = callbacks[s]]
    /\ UNCHANGED <<lock, open, counts, callbacks, waiting, lost>>

(* DoltgresTransactionEnd, at commit and rollback.                         *)
TransactionEnd(s) ==
    /\ Idle(s)
    /\ tx[s]
    /\ tx' = [tx EXCEPT ![s] = FALSE]
    /\ ending' = [ending EXCEPT ![s] = callbacks[s]]
    /\ callbacks' = [callbacks EXCEPT ![s] = None]
    /\ UNCHANGED <<lock, open, counts, waiting, lost>>

Callback(s, l) ==
    /\ ending[s][l] > 0
    /\ lock' = UnlockedBy(s, l)
    /\ ending' = [ending EXCEPT ![s][l] = @ - 1]
    /\ UNCHANGED <<open, tx, counts, callbacks, waiting, lost>>

(* Faulty: nothing is released.                                            *)
releaseNoLocks(s) == UNCHANGED <<lock, lost>>

(* maybeReleaseAllLocks: a failure is logged and forgotten.  The model has *)
(* one such failure.                                                       *)
maybeReleaseAllLocks(s) ==
    \/ lock' = AllUnlockedBy(s) /\ UNCHANGED lost
    \/ ReleaseFails /\ ~lost /\ lost' = TRUE /\ UNCHANGED lock

(* The session object goes, with its counts and callbacks.                 *)
Disposed(s) ==
    /\ Idle(s)
    /\ maybeReleaseAllLocks(s)
    /\ tx' = [tx EXCEPT ![s] = FALSE]
    /\ counts' = [counts EXCEPT ![s] = None]
    /\ callbacks' = [callbacks EXCEPT ![s] = None]
    /\ UNCHANGED <<ending, waiting>>

ComResetConnection(s) == Disposed(s) /\ UNCHANGED open

ConnectionClosed(s) == Disposed(s) /\ open' = [open EXCEPT ![s] = FALSE]

-----------------------------------------------------------------------------
Init ==
    /\ lock = [l \in Locks |-> Free]
    /\ open = [s \in Sessions |-> FALSE]
    /\ tx = [s \in Sessions |-> FALSE]
    /\ counts = [s \in Sessions |-> None]
    /\ callbacks = [s \in Sessions |-> None]
    /\ ending = [s \in Sessions |-> None]
    /\ waiting = [s \in Sessions |-> NotWaiting]
    /\ lost = FALSE

Next ==
    \E s \in Sessions :
        \/ Connect(s)
        \/ Begin(s)
        \/ \E l \in Locks, scope \in Scopes : TryLock(s, l, scope) \/ Lock(s, l, scope)
        \/ GetLock(s)
        \/ \E l \in Locks : Unlock(s, l) \/ Callback(s, l)
        \/ TransactionEnd(s)
        \/ ComResetConnection(s)
        \/ ConnectionClosed(s)

(* A session that waits keeps asking, and one whose transaction ends runs  *)
(* its callbacks.                                                          *)
Spec ==
    /\ Init
    /\ [][Next]_vars
    /\ \A s \in Sessions : WF_vars(GetLock(s)) /\ WF_vars(\E l \in Locks : Callback(s, l))

-----------------------------------------------------------------------------
TypeOK ==
    /\ lock \in [Locks -> [owner : Sessions \cup {Nobody}, count : Nat]]
    /\ open \in [Sessions -> BOOLEAN]
    /\ tx \in [Sessions -> BOOLEAN]
    /\ counts \in [Sessions -> [Locks -> Nat]]
    /\ callbacks \in [Sessions -> [Locks -> Nat]]
    /\ ending \in [Sessions -> [Locks -> Nat]]
    /\ waiting \in [Sessions -> SUBSET (Locks \X Scopes)]
    /\ lost \in BOOLEAN

Holds(s, l) == counts[s][l] + callbacks[s][l] > 0

(* Two sessions never both believe that they hold a lock, whichever scopes *)
(* they acquired it in and however deep.                                   *)
Exclusive ==
    \A s, t \in Sessions, l \in Locks : ~lost /\ Holds(s, l) /\ Holds(t, l) => s = t

(* The engine's count of a lock is what its owner's bookkeeping will give  *)
(* back, by unlocks and at the end of its transaction: no lock is kept by  *)
(* a session that has lost track of it, or given back too early.           *)
CountsAgree ==
    ~lost =>
        \A s \in Sessions, l \in Locks :
            counts[s][l] + callbacks[s][l] + ending[s][l]
                = IF lock[l].owner = s THEN lock[l].count ELSE 0

(* "AddSessionAdvisoryLock records a successful session-scoped advisory    *)
(* lock acquisition so that transaction-scoped acquisitions cannot be      *)
(* manually released by pg_advisory_unlock": a lock acquired for a         *)
(* transaction stays with its session until the transaction ends.          *)
TransactionKeepsLock ==
    [][\A s \in Sessions, l \in Locks :
         ~lost /\ callbacks[s][l] > 0 /\ callbacks'[s][l] > 0 => lock'[l].owner = s]_vars

(* Transaction scope ends with the transaction, session scope with the     *)
(* connection: a session without either holds nothing.                     *)
NothingLeftBehind ==
    \A s \in Sessions, l \in Locks :
        ~lost /\ ~tx[s] /\ counts[s][l] = 0 /\ ending[s][l] = 0 => lock[l].owner # s

(* A transaction's acquisitions, those being given back included.          *)
ofTransactions == [s \in Sessions |-> [l \in Locks |-> callbacks[s][l] + ending[s][l]]]

Promised == INSTANCE ScopedLocks
            WITH active <- tx, inSession <- counts, inTransaction <- ofTransactions, sound <- ~lost

(* The engine's locks without scopes, with the sessions' bookkeeping on    *)
(* top, are locks of two scopes: a lock goes to a session only when no     *)
(* other has it in any scope, an unlock gives back an acquisition of the   *)
(* session's own, and a transaction's are given back when it is over, all  *)
(* of them before the next one begins.                                     *)
LocksAreScoped == Promised!Spec

(* Nothing that others held outlives them: a session that waits for a lock *)
(* gets it once all the other connections are closed for good.             *)
WaiterOutlivesHolders ==
    \A s \in Sessions :
        <>[](~lost /\ \A t \in Sessions \ {s} : ~open[t])
            => (waiting[s] # NotWaiting ~> waiting[s] = NotWaiting)

=============================================================================
