--------------------------- MODULE OrderedDelivery ---------------------------
(***************************************************************************)
(* What a logical replica promises its primary: it applies the primary's   *)
(* transactions whole, in commit order and none left out, and confirms     *)
(* only what it has applied.  The promise ends when the stream it was sent *)
(* is no longer to be trusted.                                             *)
(***************************************************************************)
EXTENDS Integers

CONSTANT Expected    \* LSNs of the transactions to be applied

VARIABLES
    applied,    \* LSNs of the transactions applied in full
    confirmed,  \* the primary may forget every transaction below this LSN
    trusted     \* nothing was lost from the stream or repeated in it

vars == <<applied, confirmed, trusted>>

Init ==
    /\ applied = {}
    /\ confirmed = 1
    /\ trusted = TRUE

Apply ==
    /\ trusted
    /\ \E t \in Expected \ applied :
          /\ {u \in Expected : u < t} \subseteq applied
          /\ applied' = applied \cup {t}
    /\ UNCHANGED <<confirmed, trusted>>

Confirm ==
    /\ trusted
    /\ confirmed' > confirmed
    /\ {t \in Expected : t < confirmed'} \subseteq applied
    /\ UNCHANGED <<applied, trusted>>

(* A primary that restarts may have forgotten the latest confirmations.    *)
Forget ==
    /\ confirmed' < confirmed
    /\ UNCHANGED <<applied, trusted>>

Distrust ==
    /\ trusted' = FALSE
    /\ UNCHANGED <<applied, confirmed>>

Anything == ~trusted /\ ~trusted'

Next == Apply \/ Confirm \/ Forget \/ Distrust \/ Anything

Spec == Init /\ [][Next]_vars

=============================================================================
