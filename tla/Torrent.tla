------------------------------- MODULE Torrent -------------------------------
(***************************************************************************)
(* The torrent as the piece engine sees it: how many piece hashes there    *)
(* are, how many blocks each piece is cut into, what a block can contain   *)
(* and which contents of a piece have the expected SHA-1.                  *)
(***************************************************************************)
EXTENDS Naturals

CONSTANTS
    NumPieces,              \* torrent_.pieces.size(): number of piece hashes
    Blocks,                 \* Blocks[p]: blocks init_active_piece cuts p into
    Payload,                \* contents a received block can have
    NoData,                 \* the empty vector of a block without content
    HashMatches(_, _)       \* HashMatches(p, f): the blocks f hash to pieces[p]

Pieces == 0 .. NumPieces - 1

\* Blocks[p] may be 0: init_active_piece computes an empty piece for a hash
\* that lies exactly at the end of the data.
ASSUME TorrentAssumption ==
    /\ NumPieces \in Nat
    /\ Blocks \in [Pieces -> Nat]
    /\ NoData \notin Payload

Idx(p)      == 0 .. Blocks[p] - 1
BlocksOf(p) == {p} \X Idx(p)
BlockId     == UNION {BlocksOf(p) : p \in Pieces}

\* The content of piece p under the block contents f (get_completed_piece).
Content(f, p) == [i \in Idx(p) |-> f[<<p, i>>]]
=============================================================================
