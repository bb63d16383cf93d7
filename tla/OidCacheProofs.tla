--------------------------- MODULE OidCacheProofs ---------------------------
(* Proofs about OidCache for any set of sessions and IDs, any checksum and *)
(* any built-in table.                                                     *)
EXTENDS OidCache, TLAPS

(* The start-up tables satisfy the inductive invariant.                    *)
LEMMA InitIInv == Init => IInv
<1> SUFFICES ASSUME Init PROVE IInv
    OBVIOUS
<1> USE LimitAssumption, CacheAssumption DEF Init
<1>1. TypeOK
    BY DEF TypeOK, Oids, NoAnswer, Panicked
<1>2. RoundTrip
    BY DEF RoundTrip
<1>3. AnswersStayCached
    BY DEF AnswersStayCached, Returned, Oids, NoAnswer
<1> QED BY <1>1, <1>2, <1>3 DEF IInv

(* A lookup leaves both maps alone and answers from them.                  *)
LEMMA LookupIInv ==
    ASSUME IInv, NEW s \in Sessions, NEW id \in Ids, Lookup(s, id)
    PROVE  IInv'
<1> USE LimitAssumption, CacheAssumption DEF IInv, Lookup, Returns
<1>1. TypeOK'
    BY DEF TypeOK, Oids, NoAnswer, Panicked
<1>2. RoundTrip'
    BY DEF RoundTrip
<1>3. AnswersStayCached'
    BY DEF AnswersStayCached, Returned, TypeOK, Oids, NoAnswer, Panicked
<1> QED BY <1>1, <1>2, <1>3

(* A successful Assign stores under a key that was absent: an entry for    *)
(* the ID would hold its checksum, and the checksum was free.              *)
LEMMA AssignIsFresh ==
    ASSUME IInv, NEW s \in Sessions, pc[s] = "missed", ~Taken(Crc[arg[s]])
    PROVE  arg[s] \notin DOMAIN toOID
<1> SUFFICES ASSUME arg[s] \in DOMAIN toOID PROVE FALSE
    OBVIOUS
<1>1. toOID[arg[s]] = Crc[arg[s]]
    BY DEF IInv, AnswersStayCached
<1>2. toOID[arg[s]] \in DOMAIN toInternal
    BY DEF IInv, RoundTrip
<1> QED BY <1>1, <1>2 DEF Taken

(* An Assign either panics, changing neither map, or adds one entry to     *)
(* each map under keys that were absent.                                   *)
LEMMA AssignIInv ==
    ASSUME IInv, NEW s \in Sessions, Assign(s)
    PROVE  IInv'
<1> DEFINE id == arg[s]
<1> USE LimitAssumption, CacheAssumption
<1>0. id \in Ids /\ Crc[id] \in Oids
    BY DEF IInv, TypeOK
<1>1. CASE ~Taken(Crc[id])
    <2>1. /\ toOID' = Put(toOID, id, Crc[id])
          /\ toInternal' = Put(toInternal, Crc[id], id)
          /\ pc' = [pc EXCEPT ![s] = "ready"]
          /\ answer' = [answer EXCEPT ![s] = Crc[id]]
          /\ arg' = arg
          /\ pc[s] = "missed"
        BY <1>1 DEF Assign, PreferredFree, LastResortFree, Returns
    <2>2. id \notin DOMAIN toOID /\ Crc[id] \notin DOMAIN toInternal
        BY <1>1, <2>1, AssignIsFresh DEF Taken
    <2>3. TypeOK'
        BY <1>0, <2>1 DEF IInv, TypeOK, Put, Oids
    <2>4. RoundTrip'
        BY <1>0, <2>1, <2>2 DEF IInv, TypeOK, RoundTrip, Put
    <2>5. AnswersStayCached'
        BY <1>0, <2>1, <2>2 DEF IInv, TypeOK, AnswersStayCached, Returned, Put
    <2> QED BY <2>3, <2>4, <2>5 DEF IInv
<1>2. CASE Taken(Crc[id])
    <2>1. /\ UNCHANGED <<toOID, toInternal, arg>>
          /\ pc' = [pc EXCEPT ![s] = "ready"]
          /\ answer' = [answer EXCEPT ![s] = Panicked]
        BY <1>2 DEF Assign, PreferredFree, LastResortFree, Returns
    <2>2. TypeOK' /\ RoundTrip'
        BY <2>1 DEF IInv, TypeOK, RoundTrip
    <2>3. AnswersStayCached'
        BY <2>1 DEF IInv, TypeOK, AnswersStayCached, Returned, Oids, Panicked
    <2> QED BY <2>2, <2>3 DEF IInv
<1> QED BY <1>1, <1>2

(* Every step keeps the inductive invariant.                               *)
LEMMA NextIInv == IInv /\ [Next]_vars => IInv'
<1> SUFFICES ASSUME IInv, [Next]_vars PROVE IInv'
    OBVIOUS
<1>1. CASE Next
    BY <1>1, LookupIInv, AssignIInv DEF Next
<1>2. CASE UNCHANGED vars
    BY <1>2 DEF vars, IInv, TypeOK, RoundTrip, AnswersStayCached, Returned
<1> QED BY <1>1, <1>2

(* Type correctness, together with the strengthening, is invariant.        *)
THEOREM Invariance == Spec => []IInv
<1> QED BY InitIInv, NextIInv, PTL DEF Spec

(* Both maps of the cache and the answers of its callers stay well-typed   *)
(* through every interleaving of the two critical sections of ToOID.       *)
THEOREM TypeCorrect == Spec => []TypeOK
<1>1. IInv => TypeOK
    BY DEF IInv
<1> QED BY <1>1, Invariance, PTL

(* ToInternal undoes ToOID in every reachable state, for any number of     *)
(* concurrent sessions and whatever IDs collide.                           *)
THEOREM RoundTripHolds == Spec => []RoundTrip
<1>1. IInv => RoundTrip
    BY DEF IInv
<1> QED BY <1>1, Invariance, PTL

(* Any two answered calls of ToOID got the same OID exactly when they      *)
(* asked for the same ID.                                                  *)
THEOREM OneOidPerObjectHolds == Spec => []OneOidPerObject
<1>1. IInv => OneOidPerObject
    BY DEF IInv, RoundTrip, AnswersStayCached, OneOidPerObject
<1> QED BY <1>1, Invariance, PTL

(* No step changes or removes a mapping that was handed out.               *)
THEOREM MappingsAreStableHolds == Spec => MappingsAreStable
<1> DEFINE Kept == /\ \A id \in DOMAIN toOID : id \in DOMAIN toOID' /\ toOID'[id] = toOID[id]
                   /\ \A oid \in DOMAIN toInternal :
                         oid \in DOMAIN toInternal' /\ toInternal'[oid] = toInternal[oid]
<1>1. ASSUME IInv, [Next]_vars PROVE [Kept]_vars
    <2>1. CASE UNCHANGED vars
        BY <2>1
    <2>2. ASSUME NEW s \in Sessions, NEW id \in Ids, Lookup(s, id) PROVE Kept
        BY <2>2 DEF Lookup
    <2>3. ASSUME NEW s \in Sessions, Assign(s), ~Taken(Crc[arg[s]]) PROVE Kept
        <3>1. pc[s] = "missed"
            BY <2>3 DEF Assign
        <3>2. arg[s] \notin DOMAIN toOID
            BY <1>1, <2>3, <3>1, AssignIsFresh
        <3> QED BY <2>3, <3>2 DEF Assign, PreferredFree, LastResortFree, Put, Taken
    <2>4. ASSUME NEW s \in Sessions, Assign(s), Taken(Crc[arg[s]]) PROVE Kept
        BY <2>4 DEF Assign, PreferredFree, LastResortFree
    <2> QED BY <1>1, <2>1, <2>2, <2>3, <2>4 DEF Next
<1> QED BY <1>1, Invariance, PTL DEF Spec, MappingsAreStable

=============================================================================
