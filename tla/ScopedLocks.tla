----------------------------- MODULE ScopedLocks -----------------------------
(***************************************************************************)
(* What advisory locks promise, whatever keeps them: a session acquires a  *)
(* lock for itself or for its transaction, any number of times, as long as *)
(* no other session has it in either scope.  What it acquired for itself   *)
(* it gives back one by one; what it acquired for its transaction stays    *)
(* until the transaction is over, and then goes.  The promise ends with a  *)
(* connection whose locks could not be released.                           *)
(***************************************************************************)
EXTENDS Integers

CONSTANTS Sessions, Locks

VARIABLES
    active,         \* whether a session is in a transaction
    inSession,      \* how often it has acquired each lock for itself
    inTransaction,  \* how often for its transaction
    sound           \* every closed connection has released its locks

vars == <<active, inSession, inTransaction, sound>>

None == [l \in Locks |-> 0]

Init ==
    /\ active = [s \in Sessions |-> FALSE]
    /\ inSession = [s \in Sessions |-> None]
    /\ inTransaction = [s \in Sessions |-> None]
    /\ sound = TRUE

Has(s, l) == inSession[s][l] > 0 \/ inTransaction[s][l] > 0

OnlyBy(s, l) == \A t \in Sessions \ {s} : ~Has(t, l)

AcquireForSession(s, l) ==
    /\ OnlyBy(s, l)
    /\ inSession' = [inSession EXCEPT ![s][l] = @ + 1]
    /\ UNCHANGED <<active, inTransaction, sound>>

AcquireForTransaction(s, l) ==
    /\ active[s]
    /\ OnlyBy(s, l)
    /\ inTransaction' = [inTransaction EXCEPT ![s][l] = @ + 1]
    /\ UNCHANGED <<active, inSession, sound>>

Unlock(s, l) ==
    /\ inSession[s][l] > 0
    /\ inSession' = [inSession EXCEPT ![s][l] = @ - 1]
    /\ UNCHANGED <<active, inTransaction, sound>>

(* A transaction begins when nothing is left of the one before.            *)
Begin(s) ==
    /\ ~active[s]
    /\ inTransaction[s] = None
    /\ active' = [active EXCEPT ![s] = TRUE]
    /\ UNCHANGED <<inSession, inTransaction, sound>>

End(s) ==
    /\ active[s]
    /\ active' = [active EXCEPT ![s] = FALSE]
    /\ UNCHANGED <<inSession, inTransaction, sound>>

Release(s, l) ==
    /\ ~active[s]
    /\ inTransaction[s][l] > 0
    /\ inTransaction' = [inTransaction EXCEPT ![s][l] = @ - 1]
    /\ UNCHANGED <<active, inSession, sound>>

(* The session ends, and its transaction with it.                          *)
Leave(s) ==
    /\ active' = [active EXCEPT ![s] = FALSE]
    /\ inSession' = [inSession EXCEPT ![s] = None]
    /\ inTransaction' = [inTransaction EXCEPT ![s] = None]
    /\ UNCHANGED sound

Fail == sound' = FALSE

Next ==
    \/ \E s \in Sessions, l \in Locks :
          AcquireForSession(s, l) \/ AcquireForTransaction(s, l) \/ Unlock(s, l) \/ Release(s, l)
    \/ \E s \in Sessions : Begin(s) \/ End(s) \/ Leave(s)
    \/ Fail

Spec == Init /\ [][Next]_vars

=============================================================================
