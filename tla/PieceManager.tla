----------------------------- MODULE PieceManager -----------------------------
(***************************************************************************)
(* PieceManager and PiecePicker (srcs/piece): which pieces are open, which *)
(* block of an open piece is missing, requested or downloaded, and when a  *)
(* piece is verified.                                                      *)
(*                                                                         *)
(* The two entry points are create_next_request, called with a peer for    *)
(* what to ask that peer next, and process_block, called with a block that *)
(* arrived.  A request that create_next_request returns is the parameter b *)
(* of the action; it returns no request in NothingToRequest and when       *)
(* OpenPiece opens a piece that has no blocks.                             *)
(*                                                                         *)
(* active_pieces_ is a map from open pieces to their blocks.  Here active  *)
(* is its domain; the blocks of a piece outside active do not exist in the *)
(* program, and have state Missing, no data and a count of 0.              *)
(***************************************************************************)
EXTENDS Torrent, FiniteSets

CONSTANTS
    MaxActive,              \* MAX_ACTIVE_PIECES, 10 in the code
    SpareBits               \* bits past the last piece that a peer may set

ASSUME MaxActiveAssumption == MaxActive \in Nat
ASSUME SpareBitsAssumption == SpareBits \in Nat

VARIABLES
    completed,              \* completed_pieces_: pieces that passed their hash
    active,                 \* the domain of active_pieces_
    bstate,                 \* bstate[b]: Block::state
    data,                   \* data[b]: Block::data
    count                   \* count[p]: ActivePiece::blocks_downloaded

pmvars == <<completed, active, bstate, data, count>>

BlockState == {"Missing", "Requested", "Downloaded"}

\* The bits a peer can set: a bitfield is whole bytes, so it has bits past the
\* last piece, and a Have may name a piece the torrent does not have.
Bits == 0 .. NumPieces - 1 + SpareBits

PMInit ==
    /\ completed = {}
    /\ active = {}
    /\ bstate = [b \in BlockId |-> "Missing"]
    /\ data = [b \in BlockId |-> NoData]
    /\ count = [p \in Pieces |-> 0]

-----------------------------------------------------------------------------
\* create_next_request(peer), where has is the set of bits the peer set.

\* Mutant: a block that is requested already is requested again.
RequestableTwice(has) ==
    {b \in BlockId : b[1] \in active \cap has /\ bstate[b] # "Downloaded"}

\* The blocks of open pieces it can return: active_pieces_ is an unordered_map,
\* so the pieces are visited in an unspecified order; the blocks of one piece
\* are visited by index.
Requestable(has) ==
    {b \in BlockId :
        /\ b[1] \in active \cap has
        /\ bstate[b] = "Missing"
        /\ \A i \in 0 .. b[2] - 1 : bstate[<<b[1], i>>] # "Missing"}

\* Mutants of the picker: it visits one index too many; it forgets the completed
\* pieces; it forgets the skip set.
PickableOnePast(has)   == (Bits \cap has) \ (completed \cup active)
PickableCompleted(has) == (Pieces \cap has) \ active
PickableOpen(has)      == (Pieces \cap has) \ completed

\* The pieces pick_next_piece chooses from, when active is the skip set.
Pickable(has) == (Pieces \cap has) \ (completed \cup active)

RequestFromActive(has, b) ==
    /\ b \in Requestable(has)
    /\ bstate' = [bstate EXCEPT ![b] = "Requested"]
    /\ UNCHANGED <<completed, active, data, count>>

\* Mutant: the cap is compared with > instead of >=.
SlotFreeOneMore == Cardinality(active) <= MaxActive

SlotFree == Cardinality(active) < MaxActive

\* The picked piece is the lowest candidate.  If it has blocks the first one
\* is requested; if it has none it stays in active_pieces_ all the same.
OpenPiece(has, p) ==
    /\ Requestable(has) = {}
    /\ SlotFree
    /\ p \in Pickable(has)
    /\ \A q \in Pickable(has) : p <= q
    /\ active' = active \cup {p}
    /\ bstate' = [b \in BlockId |-> IF b = <<p, 0>> THEN "Requested" ELSE bstate[b]]
    /\ UNCHANGED <<completed, data, count>>

NothingToRequest(has) ==
    /\ Requestable(has) = {}
    /\ ~SlotFree \/ Pickable(has) = {}
    /\ UNCHANGED pmvars

-----------------------------------------------------------------------------
\* process_block(piece, offset, d): b is the block with that index and offset.

\* The piece is not open, or the block was downloaded before.
BlockIgnored(b, d) ==
    /\ b[1] \notin active \/ bstate[b] = "Downloaded"
    /\ UNCHANGED pmvars

\* Mutant: a block that was downloaded before is counted again.
AcceptsAgain(b) == b[1] \in active

Accepts(b) == b[1] \in active /\ bstate[b] # "Downloaded"

BlockStored(b, d) ==
    /\ Accepts(b)
    /\ count[b[1]] + 1 # Blocks[b[1]]
    /\ bstate' = [bstate EXCEPT ![b] = "Downloaded"]
    /\ data' = [data EXCEPT ![b] = d]
    /\ count' = [count EXCEPT ![b[1]] = @ + 1]
    /\ UNCHANGED <<completed, active>>

\* Mutant: the failed blocks keep their data.
ResetBlocksKeepData(p) ==
    /\ bstate' = [c \in BlockId |-> IF c[1] = p THEN "Missing" ELSE bstate[c]]
    /\ count' = [count EXCEPT ![p] = 0]
    /\ UNCHANGED data

\* Mutant: blocks_downloaded keeps the count it reached with the last block.
ResetBlocksKeepCount(p) ==
    /\ bstate' = [c \in BlockId |-> IF c[1] = p THEN "Missing" ELSE bstate[c]]
    /\ data' = [c \in BlockId |-> IF c[1] = p THEN NoData ELSE data[c]]
    /\ count' = [count EXCEPT ![p] = @ + 1]

\* The blocks of piece p as they are when they are created or thrown away.
ResetBlocks(p) ==
    /\ bstate' = [c \in BlockId |-> IF c[1] = p THEN "Missing" ELSE bstate[c]]
    /\ data' = [c \in BlockId |-> IF c[1] = p THEN NoData ELSE data[c]]
    /\ count' = [count EXCEPT ![p] = 0]

\* The content verify_piece_hash hashes once d is stored in block b.
Assembled(b, d) == Content([data EXCEPT ![b] = d], b[1])

\* Mutant: the piece is completed whatever its hash.
PieceVerifiedUnchecked(b, d) ==
    /\ Accepts(b)
    /\ count[b[1]] + 1 = Blocks[b[1]]
    /\ completed' = completed \cup {b[1]}
    /\ active' = active \ {b[1]}
    /\ ResetBlocks(b[1])

\* mark_completed, then erase from active_pieces_.
PieceVerified(b, d) ==
    /\ Accepts(b)
    /\ count[b[1]] + 1 = Blocks[b[1]]
    /\ HashMatches(b[1], Assembled(b, d))
    /\ completed' = completed \cup {b[1]}
    /\ active' = active \ {b[1]}
    /\ ResetBlocks(b[1])

\* The piece stays open with every block Missing.
PieceRejected(b, d) ==
    /\ Accepts(b)
    /\ count[b[1]] + 1 = Blocks[b[1]]
    /\ ~HashMatches(b[1], Assembled(b, d))
    /\ ResetBlocks(b[1])
    /\ UNCHANGED <<completed, active>>

ProcessBlock(b, d) ==
    \/ BlockIgnored(b, d)
    \/ BlockStored(b, d)
    \/ PieceVerified(b, d)
    \/ PieceRejected(b, d)

-----------------------------------------------------------------------------
PMNext ==
    \/ \E has \in SUBSET Bits :
          \/ \E b \in BlockId : RequestFromActive(has, b)
          \/ \E p \in Bits : OpenPiece(has, p)
          \/ NothingToRequest(has)
    \/ \E b \in BlockId, d \in Payload : ProcessBlock(b, d)

PMSpec == PMInit /\ [][PMNext]_pmvars

-----------------------------------------------------------------------------
\* The types of the variables.
PMTypeOK ==
    /\ completed \subseteq Pieces
    /\ active \subseteq Pieces
    /\ bstate \in [BlockId -> BlockState]
    /\ data \in [BlockId -> Payload \cup {NoData}]
    /\ count \in [Pieces -> Nat]

Downloaded(p) == {i \in Idx(p) : bstate[<<p, i>>] = "Downloaded"}

\* blocks_downloaded is the number of blocks in state Downloaded, and never
\* reaches total_blocks between two calls: a piece whose blocks are all in is
\* judged in the same call, so no piece waits forever for a block that will
\* not come.
CounterAgrees ==
    \A p \in Pieces :
        /\ count[p] = Cardinality(Downloaded(p))
        /\ Blocks[p] > 0 => count[p] < Blocks[p]

\* A block has content exactly when it is Downloaded: the hash is computed
\* over received blocks only, never over one that was cleared.
DataAgrees == \A b \in BlockId : (data[b] # NoData) <=> (bstate[b] = "Downloaded")

\* A block is in flight or held only in an open piece; completed pieces are
\* not open (pick_next_piece skips them), so they are never downloaded again.
OnlyOpenPiecesHoldBlocks ==
    /\ completed \cap active = {}
    /\ \A b \in BlockId : bstate[b] # "Missing" => b[1] \in active

\* At most MAX_ACTIVE_PIECES pieces are open.
ActiveBounded == Cardinality(active) <= MaxActive

\* A downloaded block is given up only together with its whole piece, at the
\* moment every other block of the piece is in (a verified or a failed hash).
DiscardOnlyWholePieces ==
    [][\A b \in BlockId :
          (bstate[b] = "Downloaded" /\ bstate'[b] # "Downloaded") =>
             /\ \A c \in BlocksOf(b[1]) : bstate'[c] = "Missing" /\ data'[c] = NoData
             /\ \E last \in BlocksOf(b[1]) :
                   \A c \in BlocksOf(b[1]) \ {last} : bstate[c] = "Downloaded"]_pmvars

\* The engine implements the abstract download: requests are invisible, and
\* the counter's verdict "all blocks are in" is the true one.
Abs == INSTANCE VerifiedDownload WITH collected <- data
ImplementsVerifiedDownload == Abs!Spec
=============================================================================
