----------------------------- MODULE MCSessionLive -----------------------------
(***************************************************************************)
(* SessionLive for TLC.  No symmetry: it is not sound for liveness.        *)
(***************************************************************************)
EXTENDS SessionLive

CONSTANT Corrupt

MCBlocks  == [p \in Pieces |-> IF p < 2 THEN 2 ELSE 1]
MCPayload == {Genuine, Corrupt}
MCHashMatches(p, f) == \A i \in DOMAIN f : f[i] = Genuine
=============================================================================
