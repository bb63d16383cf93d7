------------------------------ MODULE OidCache ------------------------------
(***************************************************************************)
(* The server-wide cache between internal IDs and Postgres OIDs            *)
(* (core/id/cache.go).  Sessions call ToOID concurrently.  A call first    *)
(* looks under the read lock and, when the ID is missing, takes the write  *)
(* lock in a second critical section and stores a new OID.  Each critical  *)
(* section is one action; between the two any other session may run.       *)
(*                                                                         *)
(* Both maps are partial functions: their DOMAIN is the set of keys the Go *)
(* map holds.                                                              *)
(***************************************************************************)
EXTENDS Integers

CONSTANTS
    Sessions,         \* concurrent callers of the cache
    Ids,              \* internal IDs, Null among them
    Null,             \* the null ID, always OID 0
    RawOid,           \* function from the IDs of Section_OID to the OID each spells out
    builtinOidLimit,  \* 65535 in the code
    MaxOid,           \* 2^32 - 1 in the code
    Crc,              \* crc32.Checksum of an ID's bytes
    BuiltinOID,       \* toOID after every setBuiltIn call of start-up
    BuiltinInternal   \* toInternal after every setBuiltIn call of start-up

Oids == 0 .. MaxOid

ASSUME LimitAssumption ==
    /\ builtinOidLimit \in Nat
    /\ MaxOid \in Nat
    /\ builtinOidLimit <= MaxOid

(* Some built-in functions are registered under two OIDs, so the built-in  *)
(* toInternal may hold more keys than toOID has values.                    *)
ASSUME CacheAssumption ==
    /\ Null \in Ids
    /\ Crc \in [Ids -> Oids]
    /\ DOMAIN RawOid \subseteq Ids \ {Null}
    /\ RawOid \in [DOMAIN RawOid -> Oids]
    /\ DOMAIN BuiltinOID \subseteq Ids
    /\ DOMAIN BuiltinInternal \subseteq 0 .. builtinOidLimit
    /\ BuiltinOID \in [DOMAIN BuiltinOID -> 0 .. builtinOidLimit]
    /\ BuiltinInternal \in [DOMAIN BuiltinInternal -> DOMAIN BuiltinOID]
    /\ \A id \in DOMAIN BuiltinOID :
          /\ BuiltinOID[id] \in DOMAIN BuiltinInternal
          /\ BuiltinInternal[BuiltinOID[id]] = id

VARIABLES
    toOID,       \* cacheStruct.toOID
    toInternal,  \* cacheStruct.toInternal
    pc,          \* where each session is inside ToOID
    arg,         \* the ID each session's last call was given
    answer       \* what that call returned

vars == <<toOID, toInternal, pc, arg, answer>>

NoAnswer == -1   \* the call has not returned
Panicked == -2   \* the call ended in the panic of line 95

(* Types, and which keys the maps can hold: an ID of Section_OID spells    *)
(* its OID out, so ToOID never takes one past the shortcut of lines 60-62  *)
(* and never stores an entry for it.                                       *)
TypeOK ==
    /\ DOMAIN toOID \subseteq DOMAIN BuiltinOID \cup (Ids \ DOMAIN RawOid)
    /\ toOID \in [DOMAIN toOID -> Oids]
    /\ DOMAIN toInternal \subseteq Oids
    /\ toInternal \in [DOMAIN toInternal -> Ids]
    /\ pc \in [Sessions -> {"ready", "missed"}]
    /\ arg \in [Sessions -> Ids]
    /\ answer \in [Sessions -> Oids \cup {NoAnswer, Panicked}]
    /\ \A s \in Sessions : pc[s] = "missed" => arg[s] \notin DOMAIN RawOid

Init ==
    /\ toOID = BuiltinOID
    /\ toInternal = BuiltinInternal
    /\ pc = [s \in Sessions |-> "ready"]
    /\ arg = [s \in Sessions |-> Null]
    /\ answer = [s \in Sessions |-> NoAnswer]

Put(f, k, v) == [x \in DOMAIN f \cup {k} |-> IF x = k THEN v ELSE f[x]]

Returns(s, result) ==
    /\ pc' = [pc EXCEPT ![s] = "ready"]
    /\ answer' = [answer EXCEPT ![s] = result]

(* Faulty form of Lookup: without the shortcut for the IDs of Section_OID. *)
LookupNoShortcut(s, id) ==
    /\ pc[s] = "ready"
    /\ arg' = [arg EXCEPT ![s] = id]
    /\ \/ /\ id \in DOMAIN toOID
          /\ Returns(s, toOID[id])
       \/ /\ id \notin DOMAIN toOID
          /\ pc' = [pc EXCEPT ![s] = "missed"]
          /\ answer' = [answer EXCEPT ![s] = NoAnswer]
    /\ UNCHANGED <<toOID, toInternal>>

(* Lines 54-62: the read-locked lookup, and the raw-OID shortcut.          *)
Lookup(s, id) ==
    /\ pc[s] = "ready"
    /\ arg' = [arg EXCEPT ![s] = id]
    /\ \/ /\ id \in DOMAIN toOID
          /\ Returns(s, toOID[id])
       \/ /\ id \notin DOMAIN toOID
          /\ id \in DOMAIN RawOid
          /\ Returns(s, RawOid[id])
       \/ /\ id \notin DOMAIN toOID
          /\ id \notin DOMAIN RawOid
          /\ pc' = [pc EXCEPT ![s] = "missed"]
          /\ answer' = [answer EXCEPT ![s] = NoAnswer]
    /\ UNCHANGED <<toOID, toInternal>>

(* Faulty form of Taken: no test against the OIDs already handed out.      *)
TakenUntested(oid) == oid \in 0 .. builtinOidLimit

Taken(oid) == oid \in DOMAIN toInternal

(* Lines 68 and 80.  The loop of lines 77-85 recomputes the checksum of    *)
(* the unmodified bytes, so its 255 tries all repeat the first test.       *)
PreferredFree(id) == ~Taken(Crc[id]) /\ Crc[id] > builtinOidLimit

(* Line 88.  The last-resort loop counts i down but tests and stores oid,  *)
(* the checksum, without the test against builtinOidLimit.                 *)
LastResortFree(id) == ~Taken(Crc[id])

(* Faulty form of Assign: the reverse map is left without the new entry.   *)
AssignOneWay(s) ==
    LET id == arg[s] IN
    /\ pc[s] = "missed"
    /\ \/ /\ PreferredFree(id) \/ LastResortFree(id)
          /\ toOID' = Put(toOID, id, Crc[id])
          /\ Returns(s, Crc[id])
       \/ /\ ~PreferredFree(id)
          /\ ~LastResortFree(id)
          /\ Returns(s, Panicked)
          /\ UNCHANGED toOID
    /\ UNCHANGED <<arg, toInternal>>

(* Lines 63-96, under the write lock, whose holder does not look in toOID  *)
(* again.                                                                  *)
Assign(s) ==
    LET id == arg[s] IN
    /\ pc[s] = "missed"
    /\ \/ /\ PreferredFree(id) \/ LastResortFree(id)
          /\ toOID' = Put(toOID, id, Crc[id])
          /\ toInternal' = Put(toInternal, Crc[id], id)
          /\ Returns(s, Crc[id])
       \/ /\ ~PreferredFree(id)
          /\ ~LastResortFree(id)
          /\ Returns(s, Panicked)
          /\ UNCHANGED <<toOID, toInternal>>
    /\ UNCHANGED arg

Next == \E s \in Sessions : Assign(s) \/ \E id \in Ids : Lookup(s, id)

Spec == Init /\ [][Next]_vars

-----------------------------------------------------------------------------

(* ToInternal (lines 99-107) undoes ToOID: the OID stored for an ID maps   *)
(* back to that ID, whichever sessions filled the cache and in any order,  *)
(* and a stored OID above the built-in range belongs to one ID only.       *)
RoundTrip ==
    /\ \A id \in DOMAIN toOID :
          toOID[id] \in DOMAIN toInternal /\ toInternal[toOID[id]] = id
    /\ \A oid \in DOMAIN toInternal \ DOMAIN BuiltinInternal :
          /\ toInternal[oid] \in DOMAIN toOID
          /\ toOID[toInternal[oid]] = oid

Returned(s) ==
    pc[s] = "ready" /\ answer[s] \in Oids /\ arg[s] \notin DOMAIN RawOid

(* Two calls of ToOID, by any two sessions at any two times, answered with *)
(* the same OID exactly when they were asked about the same ID.            *)
OneOidPerObject ==
    \A s, t \in Sessions :
        Returned(s) /\ Returned(t) => (arg[s] = arg[t] <=> answer[s] = answer[t])

(* What OneOidPerObject and MappingsAreStable rest on: an answer stays in  *)
(* the cache, an entry added by ToOID is the checksum of its key, and a    *)
(* caller that missed was not asking for a built-in ID, so that a caller   *)
(* that finds its checksum free cannot be overwriting an entry.            *)
AnswersStayCached ==
    /\ \A s \in Sessions :
          Returned(s) => arg[s] \in DOMAIN toOID /\ toOID[arg[s]] = answer[s]
    /\ \A id \in DOMAIN toOID \ DOMAIN BuiltinOID : toOID[id] = Crc[id]
    /\ \A s \in Sessions : pc[s] = "missed" => arg[s] \notin DOMAIN BuiltinOID
    /\ DOMAIN BuiltinOID \subseteq DOMAIN toOID

IInv == TypeOK /\ RoundTrip /\ AnswersStayCached

(* The mappings last for the server session (comment of lines 37-39): no   *)
(* call ever changes or removes an entry another session may have sent out. *)
MappingsAreStable ==
    [][ /\ \A id \in DOMAIN toOID : id \in DOMAIN toOID' /\ toOID'[id] = toOID[id]
        /\ \A oid \in DOMAIN toInternal :
              oid \in DOMAIN toInternal' /\ toInternal'[oid] = toInternal[oid] ]_vars

(* The comment of line 94: ToOID panics only when every OID above the      *)
(* built-in range has been taken.                                          *)
PanicMeansExhausted ==
    \A s \in Sessions :
        answer[s] = Panicked => builtinOidLimit + 1 .. MaxOid \subseteq DOMAIN toInternal

=============================================================================
