---------------------------- MODULE MCPieceManager ----------------------------
(***************************************************************************)
(* PieceManager for TLC: pieces of 2, 3 and 1 blocks and one empty piece, as *)
(* that is the torrent's and one that is not, and a cap of two open pieces *)
(* so that the cap is reached before every piece is open.                  *)
(***************************************************************************)
EXTENDS PieceManager

CONSTANTS Genuine, Corrupt

MCBlocks  == [p \in Pieces |-> CASE p = 0 -> 2 [] p = 1 -> 3 [] p = 2 -> 1 [] OTHER -> 0]
MCPayload == {Genuine, Corrupt}

\* The hash of a piece matches when every block is the torrent's.
MCHashMatches(p, f) == \A i \in DOMAIN f : f[i] = Genuine
=============================================================================
