----------------------------- MODULE MCOidCache -----------------------------
(* Small instances of OidCache for TLC.                                    *)
EXTENDS OidCache, TLC

CONSTANTS s1, s2, null, builtin, raw, x, y, low

MCSessions == {s1, s2}

MCIds == {null, builtin, raw, x, y, low}

MCRawOid == raw :> 5

(* The built-in ID is registered under two OIDs.                           *)
MCBuiltinOID == null :> 0 @@ builtin :> 1

MCBuiltinInternal == 0 :> null @@ 1 :> builtin @@ 2 :> builtin

(* x and y collide; low hashes into the free part of the built-in range.   *)
CollidingCrc == null :> 0 @@ builtin :> 4 @@ raw :> 6 @@ x :> 5 @@ y :> 5 @@ low :> 3

(* No two IDs collide and no ID hashes into the built-in range.            *)
DistinctCrc == null :> 0 @@ builtin :> 4 @@ raw :> 6 @@ x :> 5 @@ y :> 7 @@ low :> 8

=============================================================================
