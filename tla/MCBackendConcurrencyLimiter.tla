--------------------- MODULE MCBackendConcurrencyLimiter ---------------------
(* Instances of BackendConcurrencyLimiter for TLC.                         *)
EXTENDS BackendConcurrencyLimiter, TLC

CONSTANTS s1, r1, r2, r3, r4

OneSite4 == [r \in {r1, r2, r3, r4} |-> s1]

\* Limits 1 and 2, so that a reload raises or lowers the limit under load; a
\* queue of one so that it fills.
MCLimits == {<<1, 2>>, <<2, 1>>}

\* All requests go to one site: interchangeable.
RequestSymmetry4 == Permutations({r1, r2, r3, r4})
=============================================================================
