-------------------------- MODULE MCAdvisoryLocks --------------------------
(* Inputs for the run of AdvisoryLocks.                                    *)
EXTENDS AdvisoryLocks

CONSTANTS s1, s2, l1, l2

MCSessions == {s1, s2}

MCLocks == {l1, l2}

=============================================================================
