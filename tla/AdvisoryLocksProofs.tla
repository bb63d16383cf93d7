------------------------- MODULE AdvisoryLocksProofs -------------------------
(***************************************************************************)
(* Safety of advisory locks for any sessions, locks and depth.  CountsAgree*)
(* is not inductive as it stands: that a free lock has count 0 and an      *)
(* owned one does not, that callbacks exist only inside a transaction, and *)
(* that only a session in a transaction waits for a lock of that scope,    *)
(* are needed beside it.  That the engine's locks implement ScopedLocks    *)
(* then follows step by step.                                              *)
(***************************************************************************)
EXTENDS AdvisoryLocks, TLAPS

Balance(s, l) == counts[s][l] + callbacks[s][l] + ending[s][l]

Held(s, l) == IF lock[l].owner = s THEN lock[l].count ELSE 0

Balanced == \A s \in Sessions, l \in Locks : Balance(s, l) = Held(s, l)

OwnedIsCounted == \A l \in Locks : lock[l].count = 0 <=> lock[l].owner = Nobody

Scoped ==
    /\ \A s \in Sessions, l \in Locks : ~tx[s] => callbacks[s][l] = 0
    /\ \A s \in Sessions : \A w \in waiting[s] : w[2] = "transaction" => tx[s]

IInv == TypeOK /\ Scoped /\ (~lost => Balanced /\ OwnedIsCounted)

(* The engine's operations on one lock: types, and what an acquisition and *)
(* a release do to the amount each session holds.                          *)
LEMMA Locking ==
    ASSUME TypeOK, OwnedIsCounted, NEW s \in Sessions, NEW l \in Locks, Available(s, l)
    PROVE  /\ \A m \in Locks : LockedBy(s, l)[m].count = 0 <=> LockedBy(s, l)[m].owner = Nobody
           /\ \A t \in Sessions, m \in Locks :
                (IF LockedBy(s, l)[m].owner = t THEN LockedBy(s, l)[m].count ELSE 0)
                    = Held(t, m) + (IF t = s /\ m = l THEN 1 ELSE 0)
  BY LocksAssumption DEF TypeOK, OwnedIsCounted, Available, LockedBy, Held

(* An unlock lowers only the count of the lock it names.                   *)
LEMMA Unlocking ==
    ASSUME TypeOK, OwnedIsCounted, NEW s \in Sessions, NEW l \in Locks, lock[l].owner = s
    PROVE  /\ \A m \in Locks : UnlockedBy(s, l)[m].count = 0 <=> UnlockedBy(s, l)[m].owner = Nobody
           /\ \A t \in Sessions, m \in Locks :
                (IF UnlockedBy(s, l)[m].owner = t THEN UnlockedBy(s, l)[m].count ELSE 0)
                    = Held(t, m) - (IF t = s /\ m = l THEN 1 ELSE 0)
<1>1. /\ lock[l].count \in Nat /\ lock[l].count # 0 /\ s # Nobody
      /\ \A m \in Locks : lock[m].count \in Nat
  BY LocksAssumption DEF TypeOK, OwnedIsCounted
<1>2. /\ \A m \in Locks : m # l => UnlockedBy(s, l)[m] = lock[m]
      /\ lock[l].count > 1 => UnlockedBy(s, l)[l] = [owner |-> s, count |-> lock[l].count - 1]
      /\ ~(lock[l].count > 1) => UnlockedBy(s, l)[l] = [owner |-> Nobody, count |-> 0]
  BY DEF TypeOK, UnlockedBy, Free
<1>3. \A m \in Locks : UnlockedBy(s, l)[m].count = 0 <=> UnlockedBy(s, l)[m].owner = Nobody
  BY <1>1, <1>2 DEF OwnedIsCounted
<1>4. ASSUME NEW t \in Sessions, NEW m \in Locks
      PROVE  (IF UnlockedBy(s, l)[m].owner = t THEN UnlockedBy(s, l)[m].count ELSE 0)
                 = Held(t, m) - (IF t = s /\ m = l THEN 1 ELSE 0)
  <2>1. CASE m # l
    BY <1>1, <1>2, <2>1 DEF Held
  <2>2. CASE m = l /\ lock[l].count > 1
    BY <1>1, <1>2, <2>2 DEF Held
  <2>3. CASE m = l /\ ~(lock[l].count > 1)
    BY <1>1, <1>2, <2>3, LocksAssumption DEF Held
  <2> QED
    BY <2>1, <2>2, <2>3
<1> QED
  BY <1>3, <1>4

(* What the acquisitions and releases return are lock states.              *)
LEMMA LockTypes ==
    ASSUME TypeOK, NEW s \in Sessions
    PROVE  /\ \A l \in Locks : LockedBy(s, l) \in [Locks -> [owner : Sessions \cup {Nobody}, count : Nat]]
           /\ \A l \in Locks : UnlockedBy(s, l) \in [Locks -> [owner : Sessions \cup {Nobody}, count : Nat]]
           /\ AllUnlockedBy(s) \in [Locks -> [owner : Sessions \cup {Nobody}, count : Nat]]
  BY DEF TypeOK, LockedBy, UnlockedBy, AllUnlockedBy, Free

(* One more acquisition is a number of acquisitions.                       *)
LEMMA OneMore ==
    ASSUME NEW f \in [Sessions -> [Locks -> Nat]], NEW s \in Sessions, NEW l \in Locks
    PROVE  [f EXCEPT ![s][l] = @ + 1] \in [Sessions -> [Locks -> Nat]]
<1>1. f[s][l] + 1 \in Nat
  OBVIOUS
<1> QED
  BY <1>1

(* Types are preserved by every step.                                      *)
LEMMA TypeStep == TypeOK /\ [Next]_vars => TypeOK'
<1> SUFFICES ASSUME TypeOK, [Next]_vars PROVE TypeOK'
  OBVIOUS
<1> USE DEF TypeOK, None
<1>1. CASE UNCHANGED vars
  BY <1>1 DEF vars, session
<1>2. ASSUME NEW s \in Sessions, Connect(s) PROVE TypeOK'
  BY <1>2 DEF Connect, session
<1>3. ASSUME NEW s \in Sessions, Begin(s) PROVE TypeOK'
  BY <1>3 DEF Begin, session
<1>4. ASSUME NEW s \in Sessions, NEW l \in Locks, NEW scope \in Scopes, Acquired(s, l, scope),
             waiting' = waiting \/ waiting' = [waiting EXCEPT ![s] = NotWaiting]
      PROVE  TypeOK'
  <2>1. lock' \in [Locks -> [owner : Sessions \cup {Nobody}, count : Nat]]
    BY <1>4, LockTypes DEF Acquired
  <2>2. counts' \in [Sessions -> [Locks -> Nat]] /\ callbacks' \in [Sessions -> [Locks -> Nat]]
    <3>1. CASE scope = "session"
      <4>1. counts' = [counts EXCEPT ![s][l] = @ + 1] /\ callbacks' = callbacks
        BY <1>4, <3>1 DEF Acquired
      <4> QED
        BY <4>1, OneMore
    <3>2. CASE scope = "transaction"
      <4>1. callbacks' = [callbacks EXCEPT ![s][l] = @ + 1] /\ counts' = counts
        BY <1>4, <3>2 DEF Acquired
      <4> QED
        BY <4>1, OneMore
    <3> QED
      BY <3>1, <3>2 DEF Scopes
  <2>3. waiting' \in [Sessions -> SUBSET (Locks \X Scopes)]
    BY <1>4, ZenonT(30) DEF NotWaiting
  <2> QED
    BY <1>4, <2>1, <2>2, <2>3 DEF Acquired
<1>5. ASSUME NEW s \in Sessions, NEW l \in Locks, NEW scope \in Scopes, Lock(s, l, scope)
      PROVE  TypeOK'
  BY <1>5 DEF Lock, session
<1>6. ASSUME NEW s \in Sessions, GetLock(s) PROVE TypeOK'
  <2>1. PICK w \in waiting[s] : Acquired(s, w[1], w[2])
    BY <1>6 DEF GetLock
  <2>2. w[1] \in Locks /\ w[2] \in Scopes
    OBVIOUS
  <2> QED
    BY <1>4, <1>6, <2>1, <2>2, ZenonT(30) DEF GetLock
<1>7. ASSUME NEW s \in Sessions, NEW l \in Locks, Unlock(s, l) PROVE TypeOK'
  BY <1>7, LockTypes DEF Unlock
<1>8. ASSUME NEW s \in Sessions, NEW l \in Locks, Callback(s, l) PROVE TypeOK'
  BY <1>8, LockTypes DEF Callback
<1>9. ASSUME NEW s \in Sessions, TransactionEnd(s) PROVE TypeOK'
  BY <1>9 DEF TransactionEnd
<1>10. ASSUME NEW s \in Sessions, Disposed(s),
              open' = open \/ open' = [open EXCEPT ![s] = FALSE]
       PROVE  TypeOK'
  BY <1>10, LockTypes, ZenonT(30) DEF Disposed, maybeReleaseAllLocks
<1> QED
  BY <1>1, <1>2, <1>3, <1>4, <1>5, <1>6, <1>7, <1>8, <1>9, <1>10, SMTT(30)
     DEF Next, TryLock, ComResetConnection, ConnectionClosed

(* Callbacks exist only in transactions, and so do waits for locks of that *)
(* scope.                                                                  *)
LEMMA ScopedStep == TypeOK /\ Scoped /\ [Next]_vars => Scoped'
<1> SUFFICES ASSUME TypeOK, Scoped, [Next]_vars PROVE Scoped'
  OBVIOUS
<1> USE DEF TypeOK, Scoped, None, NotWaiting
<1>1. CASE UNCHANGED vars
  BY <1>1 DEF vars, session
<1>2. ASSUME NEW s \in Sessions, Connect(s) PROVE Scoped'
  BY <1>2 DEF Connect, session
<1>3. ASSUME NEW s \in Sessions, Begin(s) PROVE Scoped'
  BY <1>3 DEF Begin, session
<1>4. ASSUME NEW s \in Sessions, NEW l \in Locks, NEW scope \in Scopes, Acquired(s, l, scope),
             scope = "transaction" => tx[s],
             waiting' = waiting \/ waiting' = [waiting EXCEPT ![s] = NotWaiting]
      PROVE  Scoped'
  <2>1. ASSUME NEW t \in Sessions, NEW m \in Locks, ~tx'[t] PROVE callbacks'[t][m] = 0
    <3>1. CASE scope = "session"
      BY <1>4, <2>1, <3>1 DEF Acquired
    <3>2. CASE scope = "transaction"
      BY <1>4, <2>1, <3>2, ZenonT(30) DEF Acquired
    <3> QED
      BY <3>1, <3>2 DEF Scopes
  <2>2. ASSUME NEW t \in Sessions, NEW w \in waiting'[t], w[2] = "transaction" PROVE tx'[t]
    BY <1>4, <2>2, ZenonT(30) DEF Acquired
  <2> QED
    BY <2>1, <2>2
<1>5. ASSUME NEW s \in Sessions, NEW l \in Locks, NEW scope \in Scopes, Lock(s, l, scope)
      PROVE  Scoped'
  BY <1>5 DEF Lock, MayAcquire, session
<1>6. ASSUME NEW s \in Sessions, GetLock(s) PROVE Scoped'
  <2>1. PICK w \in waiting[s] : Acquired(s, w[1], w[2])
    BY <1>6 DEF GetLock
  <2>2. w[1] \in Locks /\ w[2] \in Scopes
    OBVIOUS
  <2>3. w[2] = "transaction" => tx[s]
    OBVIOUS
  <2> QED
    BY <1>4, <1>6, <2>1, <2>2, <2>3, ZenonT(30) DEF GetLock
<1>7. ASSUME NEW s \in Sessions, NEW l \in Locks, Unlock(s, l) PROVE Scoped'
  BY <1>7 DEF Unlock
<1>8. ASSUME NEW s \in Sessions, NEW l \in Locks, Callback(s, l) PROVE Scoped'
  BY <1>8 DEF Callback
<1>9. ASSUME NEW s \in Sessions, TransactionEnd(s) PROVE Scoped'
  BY <1>9 DEF TransactionEnd, Idle
<1>10. ASSUME NEW s \in Sessions, Disposed(s) PROVE Scoped'
  BY <1>10 DEF Disposed, Idle
<1> QED
  BY <1>1, <1>2, <1>3, <1>4, <1>5, <1>6, <1>7, <1>8, <1>9, <1>10
     DEF Next, TryLock, MayAcquire, ComResetConnection, ConnectionClosed

(* Every step keeps the books: what it adds to or takes from the engine's  *)
(* count it adds to or takes from one of the three kinds of holdings.      *)
LEMMA BalancedStep ==
    TypeOK /\ Balanced /\ OwnedIsCounted /\ Next /\ ~lost' => Balanced' /\ OwnedIsCounted'
<1> SUFFICES ASSUME TypeOK, Balanced, OwnedIsCounted, Next, ~lost'
             PROVE  Balanced' /\ OwnedIsCounted'
  OBVIOUS
<1> USE DEF TypeOK
<1>1. ASSUME NEW s \in Sessions,
             UNCHANGED <<lock, counts, callbacks, ending>>
      PROVE  Balanced' /\ OwnedIsCounted'
  BY <1>1 DEF Balanced, OwnedIsCounted, Balance, Held
<1>2. ASSUME NEW s \in Sessions, NEW l \in Locks, NEW scope \in Scopes, Acquired(s, l, scope)
      PROVE  Balanced' /\ OwnedIsCounted'
  <2>1. lock' = LockedBy(s, l) /\ Available(s, l)
    BY <1>2 DEF Acquired
  <2>2. OwnedIsCounted'
    BY <2>1, Locking DEF OwnedIsCounted
  <2>3. ASSUME NEW t \in Sessions, NEW m \in Locks PROVE Balance(t, m)' = Held(t, m)'
    <3>1. Held(t, m)' = Held(t, m) + (IF t = s /\ m = l THEN 1 ELSE 0)
      BY <2>1, Locking DEF Held
    <3>2. Balance(t, m)' = Balance(t, m) + (IF t = s /\ m = l THEN 1 ELSE 0)
      <4>1. CASE scope = "session"
        BY <1>2, <4>1 DEF Acquired, Balance
      <4>2. CASE scope = "transaction"
        BY <1>2, <4>2 DEF Acquired, Balance
      <4> QED
        BY <4>1, <4>2 DEF Scopes
    <3> QED
      BY <3>1, <3>2 DEF Balanced
  <2> QED
    BY <2>2, <2>3 DEF Balanced
<1>3. ASSUME NEW s \in Sessions, NEW l \in Locks, Unlock(s, l)
      PROVE  Balanced' /\ OwnedIsCounted'
  <2>1. lock' = UnlockedBy(s, l) /\ lock[l].owner = s
    BY <1>3 DEF Unlock
  <2>2. OwnedIsCounted'
    BY <2>1, Unlocking DEF OwnedIsCounted
  <2>3. ASSUME NEW t \in Sessions, NEW m \in Locks PROVE Balance(t, m)' = Held(t, m)'
    <3>1. Held(t, m)' = Held(t, m) - (IF t = s /\ m = l THEN 1 ELSE 0)
      BY <2>1, Unlocking DEF Held
    <3>2. Balance(t, m)' = Balance(t, m) - (IF t = s /\ m = l THEN 1 ELSE 0)
      BY <1>3 DEF Unlock, Balance
    <3> QED
      BY <3>1, <3>2 DEF Balanced
  <2> QED
    BY <2>2, <2>3 DEF Balanced
<1>4. ASSUME NEW s \in Sessions, NEW l \in Locks, Callback(s, l)
      PROVE  Balanced' /\ OwnedIsCounted'
  <2>1. lock' = UnlockedBy(s, l)
    BY <1>4 DEF Callback
  <2>0. lock[l].owner = s
    BY <1>4 DEF Callback, Balanced, Balance, Held
  <2>2. OwnedIsCounted'
    BY <2>0, <2>1, Unlocking DEF OwnedIsCounted
  <2>3. ASSUME NEW t \in Sessions, NEW m \in Locks PROVE Balance(t, m)' = Held(t, m)'
    <3>1. Held(t, m)' = Held(t, m) - (IF t = s /\ m = l THEN 1 ELSE 0)
      BY <2>0, <2>1, Unlocking DEF Held
    <3>2. Balance(t, m)' = Balance(t, m) - (IF t = s /\ m = l THEN 1 ELSE 0)
      BY <1>4 DEF Callback, Balance
    <3> QED
      BY <3>1, <3>2 DEF Balanced
  <2> QED
    BY <2>2, <2>3 DEF Balanced
<1>5. ASSUME NEW s \in Sessions, TransactionEnd(s) PROVE Balanced' /\ OwnedIsCounted'
  <2>1. lock' = lock
    BY <1>5 DEF TransactionEnd
  <2>2. ASSUME NEW t \in Sessions, NEW m \in Locks PROVE Balance(t, m)' = Balance(t, m)
    BY <1>5 DEF TransactionEnd, Idle, None, Balance
  <2> QED
    BY <2>1, <2>2 DEF Balanced, OwnedIsCounted, Held
<1>6. ASSUME NEW s \in Sessions, Disposed(s) PROVE Balanced' /\ OwnedIsCounted'
  <2>1. lock' = AllUnlockedBy(s)
    BY <1>6 DEF Disposed, maybeReleaseAllLocks
  <2>2. OwnedIsCounted'
    BY <2>1 DEF OwnedIsCounted, AllUnlockedBy, Free
  <2>3. ASSUME NEW t \in Sessions, NEW m \in Locks PROVE Balance(t, m)' = Held(t, m)'
    <3>1. Held(t, m)' = IF t = s THEN 0 ELSE Held(t, m)
      BY <2>1, LocksAssumption DEF AllUnlockedBy, Held, Free
    <3>2. Balance(t, m)' = IF t = s THEN 0 ELSE Balance(t, m)
      BY <1>6 DEF Disposed, Idle, None, Balance
    <3> QED
      BY <3>1, <3>2 DEF Balanced
  <2> QED
    BY <2>2, <2>3 DEF Balanced
<1>7. ASSUME NEW s \in Sessions, GetLock(s) PROVE Balanced' /\ OwnedIsCounted'
  <2>1. PICK w \in waiting[s] : Acquired(s, w[1], w[2])
    BY <1>7 DEF GetLock
  <2>2. w[1] \in Locks /\ w[2] \in Scopes
    OBVIOUS
  <2> QED
    BY <1>2, <2>1, <2>2
<1> QED
  BY <1>1, <1>2, <1>3, <1>4, <1>5, <1>6, <1>7
     DEF Next, Connect, Begin, TryLock, Lock, ComResetConnection, ConnectionClosed, session

(* The inductive invariant, for any sessions, locks and depth.             *)
THEOREM Invariance == Spec => []IInv
<1>1. Init => IInv
  <2> SUFFICES ASSUME Init PROVE IInv
    OBVIOUS
  <2>1. TypeOK
    BY ZenonT(30) DEF Init, TypeOK, Free, None, NotWaiting
  <2>2. Scoped
    BY DEF Init, Scoped, None, NotWaiting
  <2>3. Balanced /\ OwnedIsCounted
    BY LocksAssumption DEF Init, Balanced, Balance, Held, OwnedIsCounted, Free, None
  <2> QED
    BY <2>1, <2>2, <2>3 DEF IInv
<1>2. IInv /\ [Next]_vars => IInv'
  <2> SUFFICES ASSUME IInv, [Next]_vars PROVE IInv'
    OBVIOUS
  <2>1. TypeOK' /\ Scoped'
    BY TypeStep, ScopedStep DEF IInv
  <2>2. ASSUME ~lost' PROVE Balanced' /\ OwnedIsCounted'
    <3>1. CASE UNCHANGED vars
      BY <2>2, <3>1 DEF IInv, Balanced, OwnedIsCounted, Balance, Held, vars, session
    <3>2. CASE Next
      <4>1. ~lost
        BY <2>2, <3>2, ZenonT(30) DEF Next, Connect, Begin, TryLock, Lock, GetLock, Acquired, Unlock, Callback,
           TransactionEnd, Disposed, maybeReleaseAllLocks, ComResetConnection, ConnectionClosed
      <4> QED
        BY <2>2, <3>2, <4>1, BalancedStep DEF IInv
    <3> QED
      BY <3>1, <3>2
  <2> QED
    BY <2>1, <2>2 DEF IInv
<1> QED
  BY <1>1, <1>2, PTL DEF Spec

(* Type correctness of the bookkeeping.                                    *)
THEOREM TypeCorrect == Spec => []TypeOK
<1>1. IInv => TypeOK
  BY DEF IInv
<1> QED
  BY <1>1, Invariance, PTL

(* The engine's count of a lock is always what its owner's bookkeeping     *)
(* (sessionAdvisoryLockCounts and transaction-end callbacks) gives back.   *)
THEOREM CountsAgreeHolds == Spec => []CountsAgree
<1>1. IInv => CountsAgree
  BY DEF IInv, CountsAgree, Balanced, Balance, Held
<1> QED
  BY <1>1, Invariance, PTL

(* No two sessions hold an advisory lock at once, in any mix of scopes.    *)
THEOREM ExclusiveHolds == Spec => []Exclusive
<1>1. IInv => Exclusive
  <2> SUFFICES ASSUME IInv, NEW s \in Sessions, NEW t \in Sessions, NEW l \in Locks,
                      ~lost, Holds(s, l), Holds(t, l)
               PROVE  s = t
    BY DEF Exclusive
  <2>1. Balance(s, l) = Held(s, l) /\ Balance(t, l) = Held(t, l)
    BY DEF IInv, Balanced
  <2>2. Balance(s, l) > 0 /\ Balance(t, l) > 0
    BY DEF IInv, TypeOK, Holds, Balance
  <2> QED
    BY <2>1, <2>2 DEF Held
<1> QED
  BY <1>1, Invariance, PTL

(* A session without a transaction and without session-scoped acquisitions *)
(* holds nothing: ends of transactions and of connections release all.     *)
THEOREM NothingLeftBehindHolds == Spec => []NothingLeftBehind
<1>1. IInv => NothingLeftBehind
  <2> SUFFICES ASSUME IInv, NEW s \in Sessions, NEW l \in Locks,
                      ~lost, ~tx[s], counts[s][l] = 0, ending[s][l] = 0, lock[l].owner = s
               PROVE  FALSE
    BY DEF NothingLeftBehind
  <2>1. callbacks[s][l] = 0
    BY DEF IInv, Scoped
  <2>2. Held(s, l) = 0
    BY <2>1 DEF IInv, Balanced, Balance
  <2>3. lock[l].owner = Nobody
    BY <2>2 DEF IInv, OwnedIsCounted, Held
  <2> QED
    BY <2>3, LocksAssumption
<1> QED
  BY <1>1, Invariance, PTL

(* pg_advisory_unlock, and whatever other sessions do, never takes a lock  *)
(* from a transaction that acquired it before the transaction ends.        *)
THEOREM TransactionKeepsLockHolds == Spec => TransactionKeepsLock
<1>1. IInv /\ IInv' /\ [Next]_vars =>
        [\A s \in Sessions, l \in Locks :
           ~lost /\ callbacks[s][l] > 0 /\ callbacks'[s][l] > 0 => lock'[l].owner = s]_vars
  <2> SUFFICES ASSUME IInv, IInv', Next, NEW s \in Sessions, NEW l \in Locks,
                      ~lost, callbacks[s][l] > 0, callbacks'[s][l] > 0
               PROVE  lock'[l].owner = s
    OBVIOUS
  <2>1. CASE ~lost'
    <3>1. Balance(s, l)' = Held(s, l)'
      BY <2>1 DEF IInv, Balanced
    <3>2. Balance(s, l)' > 0
      BY DEF IInv, TypeOK, Balance
    <3> QED
      BY <3>1, <3>2 DEF Held
  <2>2. CASE lost'
    <3>1. lock' = lock
      BY <2>2, ZenonT(30) DEF Next, Connect, Begin, TryLock, Lock, GetLock, Acquired, Unlock, Callback,
         TransactionEnd, Disposed, maybeReleaseAllLocks, ComResetConnection, ConnectionClosed
    <3>2. Balance(s, l) = Held(s, l) /\ Balance(s, l) > 0
      BY DEF IInv, TypeOK, Balanced, Balance
    <3> QED
      BY <3>1, <3>2 DEF Held
  <2> QED
    BY <2>1, <2>2
<1> QED
  BY <1>1, Invariance, PTL DEF Spec, TransactionKeepsLock

(* The callbacks of a transaction run when it is over.                     *)
Over == \A s \in Sessions, l \in Locks : tx[s] => ending[s][l] = 0

(* No transaction begins before the callbacks of the last one have run.    *)
LEMMA OverHolds == Spec => []Over
<1>1. Init => Over
  BY DEF Init, Over, None
<1>2. TypeOK /\ Over /\ [Next]_vars => Over'
  <2> SUFFICES ASSUME TypeOK, Over, [Next]_vars PROVE Over'
    OBVIOUS
  <2>1. CASE tx' = tx /\ ending' = ending
    BY <2>1 DEF Over
  <2>2. ASSUME NEW s \in Sessions, Begin(s) PROVE Over'
    BY <2>2 DEF TypeOK, Begin, Idle, None, Over, session
  <2>3. ASSUME NEW s \in Sessions, NEW l \in Locks, Callback(s, l) PROVE Over'
    BY <2>3 DEF TypeOK, Callback, Over
  <2>4. ASSUME NEW s \in Sessions, TransactionEnd(s) PROVE Over'
    BY <2>4 DEF TypeOK, TransactionEnd, Over
  <2>5. ASSUME NEW s \in Sessions, Disposed(s) PROVE Over'
    BY <2>5 DEF TypeOK, Disposed, Over
  <2>6. CASE UNCHANGED vars
    BY <2>1, <2>6 DEF vars, session
  <2> QED
    BY <2>1, <2>2, <2>3, <2>4, <2>5, <2>6
       DEF Next, Connect, TryLock, Lock, GetLock, Acquired, Unlock, ComResetConnection, ConnectionClosed, session
<1> QED
  BY <1>1, <1>2, TypeCorrect, PTL DEF Spec

(* A table that differs from another in one place.                         *)
LEMMA OnePlace ==
    ASSUME NEW f \in [Sessions -> [Locks -> Int]], NEW g \in [Sessions -> [Locks -> Int]],
           NEW s \in Sessions, NEW l \in Locks, NEW n \in Int, g[s][l] = n,
           \A t \in Sessions, m \in Locks : <<t, m>> # <<s, l>> => g[t][m] = f[t][m]
    PROVE  g = [f EXCEPT ![s][l] = n]
<1>1. ASSUME NEW t \in Sessions PROVE g[t] = [f EXCEPT ![s][l] = n][t]
  <2>1. CASE t # s
    <3>1. \A m \in Locks : g[t][m] = f[t][m]
      BY <2>1
    <3>2. g[t] \in [Locks -> Int] /\ f[t] \in [Locks -> Int]
      OBVIOUS
    <3>3. g[t] = f[t]
      BY <3>1, <3>2
    <3> QED
      BY <2>1, <3>3
  <2>2. CASE t = s
    <3>1. g[s] \in [Locks -> Int] /\ f[s] \in [Locks -> Int]
      OBVIOUS
    <3>2. g[s] = [f[s] EXCEPT ![l] = n]
      BY <3>1
    <3> QED
      BY <2>2, <3>2
  <2> QED
    BY <2>1, <2>2
<1> QED
  BY <1>1

(* The acquisitions of transactions are numbers, now and after a step.     *)
LEMMA OfTransactions ==
    TypeOK /\ TypeOK' => /\ ofTransactions \in [Sessions -> [Locks -> Int]]
                        /\ ofTransactions' \in [Sessions -> [Locks -> Int]]
<1>1. TypeOK => ofTransactions \in [Sessions -> [Locks -> Int]]
  BY DEF TypeOK, ofTransactions
<1>2. TypeOK' => ofTransactions' \in [Sessions -> [Locks -> Int]]
  BY DEF TypeOK, ofTransactions
<1> QED
  BY <1>1, <1>2

(* A lock that is available to a session is no other session's.            *)
LEMMA AvailableIsOnly ==
    ASSUME IInv, ~lost, NEW s \in Sessions, NEW l \in Locks, Available(s, l)
    PROVE  Promised!OnlyBy(s, l)
<1> SUFFICES ASSUME NEW t \in Sessions \ {s} PROVE ~(counts[t][l] > 0 \/ callbacks[t][l] + ending[t][l] > 0)
  BY DEF Promised!OnlyBy, Promised!Has, ofTransactions
<1>1. Held(t, l) = 0
  BY LocksAssumption DEF Available, Held
<1>2. Balance(t, l) = 0
  BY <1>1 DEF IInv, Balanced
<1>3. counts[t][l] \in Nat /\ callbacks[t][l] \in Nat /\ ending[t][l] \in Nat
  BY DEF IInv, TypeOK
<1> QED
  BY <1>2, <1>3 DEF Balance

(* An acquisition is one of the promised ones, in its scope.               *)
LEMMA AcquiredIsPromised ==
    ASSUME IInv, TypeOK', ~lost, NEW s \in Sessions, NEW l \in Locks, NEW scope \in Scopes, Acquired(s, l, scope),
           scope = "transaction" => tx[s]
    PROVE  Promised!Next
<1>1. Promised!OnlyBy(s, l)
  BY AvailableIsOnly DEF Acquired
<1>2. CASE scope = "session"
  <2>1. Promised!AcquireForSession(s, l)
    BY <1>1, <1>2 DEF Acquired, Promised!AcquireForSession, ofTransactions
  <2> QED
    BY <2>1 DEF Promised!Next
<1>3. CASE scope = "transaction"
  <2>1. callbacks' = [callbacks EXCEPT ![s][l] = @ + 1] /\ UNCHANGED <<counts, tx, ending, lost>>
    BY <1>3 DEF Acquired
  <2>2. ofTransactions' = [ofTransactions EXCEPT ![s][l] = @ + 1]
    <3>1. /\ ofTransactions'[s][l] = ofTransactions[s][l] + 1
          /\ \A t \in Sessions, m \in Locks : <<t, m>> # <<s, l>> => ofTransactions'[t][m] = ofTransactions[t][m]
      <4>1. /\ callbacks'[s][l] = callbacks[s][l] + 1
            /\ \A t \in Sessions, m \in Locks : <<t, m>> # <<s, l>> => callbacks'[t][m] = callbacks[t][m]
        BY <2>1 DEF IInv, TypeOK
      <4>2. callbacks[s][l] \in Nat /\ ending[s][l] \in Nat
        BY DEF IInv, TypeOK
      <4>3. ending' = ending
        BY <2>1
      <4> QED
        BY <4>1, <4>2, <4>3 DEF ofTransactions
    <3>2. ofTransactions[s][l] + 1 \in Int
      BY OfTransactions DEF IInv
    <3> QED
      BY <3>1, <3>2, OnePlace, OfTransactions DEF IInv
  <2>3. Promised!AcquireForTransaction(s, l)
    BY <1>1, <1>3, <2>1, <2>2 DEF Promised!AcquireForTransaction
  <2> QED
    BY <2>3 DEF Promised!Next
<1> QED
  BY <1>2, <1>3 DEF Scopes

(* Every step is a promised one, or none at all.                           *)
LEMMA PromisedStep == IInv /\ Over /\ [Next]_vars => [Promised!Next]_(Promised!vars)
<1> SUFFICES ASSUME IInv, Over, [Next]_vars PROVE Promised!Next \/ UNCHANGED Promised!vars
  OBVIOUS
<1>0. TypeOK /\ TypeOK'
  BY TypeStep DEF IInv
<1>1. CASE UNCHANGED <<tx, counts, callbacks, ending, lost>>
  BY <1>1 DEF Promised!vars, ofTransactions
<1>2. CASE lost'
  BY <1>2 DEF Promised!Next, Promised!Fail
<1>3. ASSUME NEW s \in Sessions, Begin(s) PROVE Promised!Next
  <2>1. ofTransactions[s] = Promised!None
    <3>1. \A l \in Locks : callbacks[s][l] + ending[s][l] = 0
      BY <1>0, <1>3 DEF Begin, Idle, None, IInv, Scoped
    <3> QED
      BY <3>1 DEF ofTransactions, Promised!None
  <2>2. Promised!Begin(s)
    BY <1>3, <2>1 DEF Begin, session, ofTransactions, Promised!Begin
  <2> QED
    BY <2>2 DEF Promised!Next
<1>4. ASSUME NEW s \in Sessions, NEW l \in Locks, Unlock(s, l) PROVE Promised!Next
  <2>1. counts' = [counts EXCEPT ![s][l] = @ - 1]
    <3>1. counts[s][l] \in Nat /\ counts[s][l] > 0
      BY <1>0, <1>4 DEF TypeOK, Unlock
    <3>2. (IF counts[s][l] <= 1 THEN 0 ELSE counts[s][l] - 1) = counts[s][l] - 1
      BY <3>1
    <3> QED
      BY <1>0, <1>4, <3>2 DEF TypeOK, Unlock
  <2>2. Promised!Unlock(s, l)
    BY <1>4, <2>1 DEF Unlock, Promised!Unlock, ofTransactions
  <2> QED
    BY <2>2 DEF Promised!Next
<1>5. ASSUME NEW s \in Sessions, NEW l \in Locks, Callback(s, l) PROVE Promised!Next
  <2>1. ~tx[s] /\ ofTransactions[s][l] > 0
    BY <1>0, <1>5 DEF TypeOK, Callback, Over, ofTransactions
  <2>2. ofTransactions' = [ofTransactions EXCEPT ![s][l] = @ - 1]
    <3>1. /\ ofTransactions'[s][l] = ofTransactions[s][l] - 1
          /\ \A t \in Sessions, m \in Locks : <<t, m>> # <<s, l>> => ofTransactions'[t][m] = ofTransactions[t][m]
      BY <1>0, <1>5 DEF TypeOK, Callback, ofTransactions
    <3>2. ofTransactions[s][l] - 1 \in Int
      BY <1>0, OfTransactions
    <3> QED
      BY <1>0, <3>1, <3>2, OnePlace, OfTransactions
  <2>3. Promised!Release(s, l)
    BY <1>5, <2>1, <2>2 DEF Callback, Promised!Release
  <2> QED
    BY <2>3 DEF Promised!Next
<1>6. ASSUME NEW s \in Sessions, TransactionEnd(s) PROVE Promised!Next
  <2>1. ofTransactions' = ofTransactions
    BY <1>0, <1>6 DEF TypeOK, TransactionEnd, Idle, None, ofTransactions
  <2>2. Promised!End(s)
    BY <1>6, <2>1 DEF TransactionEnd, Promised!End
  <2> QED
    BY <2>2 DEF Promised!Next
<1>7. ASSUME NEW s \in Sessions, Disposed(s), ~lost' PROVE Promised!Next
  <2>1. ofTransactions' = [ofTransactions EXCEPT ![s] = None]
    <3>1. /\ \A m \in Locks : ofTransactions'[s][m] = 0
          /\ \A t \in Sessions \ {s}, m \in Locks : ofTransactions'[t][m] = ofTransactions[t][m]
      BY <1>0, <1>7 DEF TypeOK, Disposed, Idle, None, ofTransactions
    <3>2. ofTransactions'[s] = None
      BY <1>0, <3>1, OfTransactions DEF None
    <3>3. \A t \in Sessions \ {s} : ofTransactions'[t] = ofTransactions[t]
      BY <1>0, <3>1, OfTransactions
    <3> QED
      BY <1>0, <3>2, <3>3, OfTransactions
  <2>2. UNCHANGED lost
    BY <1>7 DEF Disposed, maybeReleaseAllLocks
  <2>3. Promised!Leave(s)
    BY <1>7, <2>1, <2>2 DEF Disposed, None, Promised!Leave, Promised!None
  <2> QED
    BY <2>3 DEF Promised!Next
<1>8. ASSUME NEW s \in Sessions, NEW l \in Locks, NEW scope \in Scopes, Acquired(s, l, scope), ~lost',
             scope = "transaction" => tx[s]
      PROVE  Promised!Next
  BY <1>0, <1>8, AcquiredIsPromised DEF Acquired
<1>9. ASSUME NEW s \in Sessions, GetLock(s), ~lost' PROVE Promised!Next
  <2>1. PICK w \in waiting[s] : Acquired(s, w[1], w[2])
    BY <1>9 DEF GetLock
  <2>2. w[1] \in Locks /\ w[2] \in Scopes /\ (w[2] = "transaction" => tx[s])
    BY <1>0 DEF TypeOK, IInv, Scoped
  <2> QED
    BY <1>8, <1>9, <2>1, <2>2
<1>10. CASE UNCHANGED vars
  BY <1>1, <1>10 DEF vars, session
<1> QED
  BY <1>1, <1>2, <1>3, <1>4, <1>5, <1>6, <1>7, <1>8, <1>9, <1>10
     DEF Next, Connect, TryLock, MayAcquire, Lock, ComResetConnection, ConnectionClosed, session

(* The engine's scopeless locks and the sessions' bookkeeping implement    *)
(* locks of two scopes (LocksAreScoped), for any sessions, locks and       *)
(* depth.  An acquisition is promised because the engine's count is the    *)
(* sum of one session's holdings, so that a lock it grants is nobody       *)
(* else's in any scope.                                                    *)
THEOREM ScopesImplemented == Spec => LocksAreScoped
<1>1. Init => Promised!Init
  BY DEF Init, None, ofTransactions, Promised!Init, Promised!None
<1> QED
  BY <1>1, PromisedStep, Invariance, OverHolds, PTL DEF Spec, LocksAreScoped, Promised!Spec

=============================================================================
