------------------------------ MODULE PieceLayout ------------------------------
(***************************************************************************)
(* PieceManager::init_active_piece (srcs/piece/piece_manager.cpp): where   *)
(* the blocks of a piece begin and how long they are, computed in 32 bit   *)
(* words from 64 bit sizes.  total is TorrentFile::total_size(), the sum   *)
(* of the lengths of the files.                                            *)
(***************************************************************************)
EXTENDS Integers

CONSTANTS
    PieceLength,            \* piece_length of the torrent
    BlockSize,              \* BLOCK_SIZE, 16 KiB
    Word                    \* 2^32

\* The rounding up in init_active_piece does not leave the word, as it would for a piece
\* length of nearly 4 GiB.
ASSUME LayoutAssumption ==
    /\ PieceLength \in Nat \ {0}
    /\ BlockSize \in Nat \ {0}
    /\ Word \in Nat
    /\ PieceLength + BlockSize <= Word

\* How many pieces a torrent of that size should have: the code takes as many as the
\* torrent file has hashes.
NumPieces(total) == (total + PieceLength - 1) \div PieceLength

PieceStart(p) == p * PieceLength

\* Mutant: the last piece is not cut.
PieceSizeUncut(p, total) == PieceLength

\* piece_length after the cut of the last piece.
PieceSize(p, total) ==
    IF PieceStart(p) + PieceLength > total THEN (total - PieceStart(p)) % Word
    ELSE PieceLength

\* Mutant: the division that forgets the rest.
BlockCountDown(p, total) == PieceSize(p, total) \div BlockSize

\* total_blocks.
BlockCount(p, total) == ((PieceSize(p, total) + BlockSize - 1) % Word) \div BlockSize

\* offset of block i, from 0.
BlockOffset(i) == (i * BlockSize) % Word

\* length of block i.
BlockLength(p, i, total) ==
    LET rest == (PieceSize(p, total) - BlockOffset(i)) % Word
    IN  IF rest < BlockSize THEN rest ELSE BlockSize

\* The blocks of a torrent, as write_block is called for them.
Blocks(total) ==
    UNION {{<<p, BlockOffset(i), BlockLength(p, i, total)>> : i \in 0 .. BlockCount(p, total) - 1}
             : p \in 0 .. NumPieces(total) - 1}

\* The bytes of the torrent that block b holds.
BytesOf(b) == PieceStart(b[1]) + b[2] .. PieceStart(b[1]) + b[2] + b[3] - 1
=============================================================================
