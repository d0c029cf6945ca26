------------------------------- MODULE MCSession -------------------------------
(***************************************************************************)
(* Session for TLC: a torrent of a two-block and a one-block piece, and    *)
(* peers that are interchangeable.                                         *)
(***************************************************************************)
EXTENDS Session, TLC

CONSTANTS Genuine, Corrupt

MCBlocks  == [p \in Pieces |-> IF p = 0 THEN 2 ELSE 1]
MCPayload == {Genuine, Corrupt}
GenuineOnly == {Genuine}
MCHashMatches(p, f) == \A i \in DOMAIN f : f[i] = Genuine

PeerSymmetry == Permutations(Peers)
=============================================================================
