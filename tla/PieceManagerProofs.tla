-------------------------- MODULE PieceManagerProofs --------------------------
(***************************************************************************)
(* Proofs about PieceManager for every torrent, every cap on open pieces,  *)
(* every payload and every hash predicate: the inductive invariant PMInv,  *)
(* the rule that downloaded blocks are given up in whole pieces only, and  *)
(* the refinement of VerifiedDownload.                                     *)
(***************************************************************************)
EXTENDS PieceManager, FiniteSetTheorems, TLAPS

\* The inductive invariant: the conjunction of the invariants TLC checks.
PMInv ==
    /\ PMTypeOK
    /\ CounterAgrees
    /\ DataAgrees
    /\ OnlyOpenPiecesHoldBlocks
    /\ ActiveBounded

-----------------------------------------------------------------------------
\* A block is a pair of a piece and an index into its blocks.
LEMMA BlockIdFacts ==
    /\ \A b \in BlockId : /\ b[1] \in Pieces
                          /\ b[2] \in Idx(b[1])
                          /\ b = <<b[1], b[2]>>
                          /\ Blocks[b[1]] > 0
    /\ \A p \in Pieces : \A i \in Idx(p) : <<p, i>> \in BlockId
    /\ \A p \in Pieces : \A b : b \in BlocksOf(p) <=> b \in BlockId /\ b[1] = p
<1>1. ASSUME NEW b \in BlockId
      PROVE  /\ b[1] \in Pieces
             /\ b[2] \in Idx(b[1])
             /\ b = <<b[1], b[2]>>
  BY DEF BlockId, BlocksOf
<1>2. \A b \in BlockId : Blocks[b[1]] > 0
  BY <1>1, TorrentAssumption DEF Idx
<1>3. \A p \in Pieces : \A i \in Idx(p) : <<p, i>> \in BlockId
  BY DEF BlockId, BlocksOf
<1>4. \A p \in Pieces : \A b : b \in BlocksOf(p) <=> b \in BlockId /\ b[1] = p
  BY <1>1 DEF BlockId, BlocksOf
<1> QED
  BY <1>1, <1>2, <1>3, <1>4

\* The blocks of a piece are finitely many, Blocks[p] of them.
LEMMA IdxFinite ==
    ASSUME NEW p \in Pieces
    PROVE  IsFiniteSet(Idx(p)) /\ Cardinality(Idx(p)) = Blocks[p]
<1>1. PICK n \in Nat : n = Blocks[p]
  BY TorrentAssumption
<1>2. IsFiniteSet(0 .. n - 1) /\ Cardinality(0 .. n - 1) = n
  <2>1. 0 \in Int /\ n - 1 \in Int /\ (0 > n - 1 => n = 0) /\ (n - 1) - 0 + 1 = n
    OBVIOUS
  <2> QED
    BY <2>1, FS_Interval
<1> QED
  BY <1>1, <1>2 DEF Idx

LEMMA PiecesFinite == IsFiniteSet(Pieces)
  BY TorrentAssumption, FS_Interval DEF Pieces

\* The counter decides rightly whether the block being stored is the last one.
LEMMA LastBlock ==
    ASSUME PMTypeOK, CounterAgrees,
           NEW p \in Pieces, NEW i \in Idx(p), bstate[<<p, i>>] # "Downloaded"
    PROVE  count[p] + 1 = Blocks[p]
             <=> \A j \in Idx(p) \ {i} : bstate[<<p, j>>] = "Downloaded"
<1> DEFINE D == Downloaded(p)
<1>1. D \subseteq Idx(p) /\ i \notin D
  BY DEF Downloaded
<1>2. IsFiniteSet(Idx(p)) /\ Cardinality(Idx(p)) = Blocks[p]
  BY IdxFinite
<1>3. IsFiniteSet(D)
  BY <1>1, <1>2, FS_Subset
<1>4. Cardinality(D \cup {i}) = count[p] + 1
  BY <1>1, <1>3, FS_AddElement DEF CounterAgrees
<1>5. D \cup {i} \subseteq Idx(p)
  BY <1>1
<1>6. count[p] + 1 = Blocks[p] <=> D \cup {i} = Idx(p)
  BY <1>2, <1>4, <1>5, FS_Subset
<1>7. D \cup {i} = Idx(p) <=> \A j \in Idx(p) \ {i} : bstate[<<p, j>>] = "Downloaded"
  BY <1>1 DEF Downloaded
<1> QED
  BY <1>6, <1>7

-----------------------------------------------------------------------------
LEMMA InitInv == PMInit => PMInv
<1> SUFFICES ASSUME PMInit PROVE PMInv
  OBVIOUS
<1> USE DEF PMInit
<1>1. PMTypeOK
  BY BlockIdFacts DEF PMTypeOK, BlockState
<1>2. CounterAgrees
  <2>1. \A p \in Pieces : Downloaded(p) = {}
    BY BlockIdFacts DEF Downloaded
  <2> QED
    BY <2>1, FS_EmptySet, TorrentAssumption DEF CounterAgrees
<1>3. DataAgrees /\ OnlyOpenPiecesHoldBlocks
  BY DEF DataAgrees, OnlyOpenPiecesHoldBlocks
<1>4. ActiveBounded
  BY FS_EmptySet, MaxActiveAssumption DEF ActiveBounded
<1> QED
  BY <1>1, <1>2, <1>3, <1>4 DEF PMInv

LEMMA StutterInv == PMInv /\ UNCHANGED pmvars => PMInv'
  BY DEF PMInv, PMTypeOK, CounterAgrees, Downloaded, DataAgrees,
         OnlyOpenPiecesHoldBlocks, ActiveBounded, pmvars

LEMMA RequestInv ==
    ASSUME PMInv, NEW has, NEW b \in BlockId, RequestFromActive(has, b)
    PROVE  PMInv'
<1> USE DEF PMInv, RequestFromActive
<1>1. b[1] \in active /\ bstate[b] = "Missing"
  BY DEF Requestable
<1>2. PMTypeOK'
  BY DEF PMTypeOK, BlockState
<1>3. \A c \in BlockId : bstate'[c] = "Downloaded" <=> bstate[c] = "Downloaded"
  BY <1>1 DEF PMTypeOK
<1>4. CounterAgrees'
  <2>1. \A p \in Pieces : Downloaded(p)' = Downloaded(p)
    BY <1>3, BlockIdFacts DEF Downloaded
  <2> QED
    BY <2>1 DEF CounterAgrees
<1>5. DataAgrees'
  BY <1>3 DEF DataAgrees
<1>6. OnlyOpenPiecesHoldBlocks'
  BY <1>1 DEF OnlyOpenPiecesHoldBlocks, PMTypeOK
<1>7. ActiveBounded'
  BY DEF ActiveBounded
<1> QED
  BY <1>2, <1>4, <1>5, <1>6, <1>7

LEMMA OpenInv ==
    ASSUME PMInv, NEW has, NEW p, OpenPiece(has, p)
    PROVE  PMInv'
<1> USE DEF PMInv, OpenPiece
<1>1. p \in Pieces /\ p \notin active /\ p \notin completed
  BY DEF Pickable
<1>2. PMTypeOK'
  BY <1>1 DEF PMTypeOK, BlockState
<1>3. \A c \in BlockId : bstate'[c] = "Downloaded" <=> bstate[c] = "Downloaded"
  <2> SUFFICES ASSUME NEW c \in BlockId
               PROVE  bstate'[c] = "Downloaded" <=> bstate[c] = "Downloaded"
    OBVIOUS
  <2>1. CASE c = <<p, 0>>
    <3>1. c[1] = p /\ bstate'[c] = "Requested"
      BY <2>1
    <3>2. bstate[c] = "Missing"
      BY <1>1, <3>1 DEF OnlyOpenPiecesHoldBlocks
    <3> QED
      BY <3>1, <3>2
  <2>2. CASE c # <<p, 0>>
    BY <2>2
  <2> QED
    BY <2>1, <2>2
<1>4. CounterAgrees'
  <2>1. \A q \in Pieces : Downloaded(q)' = Downloaded(q)
    BY <1>3, BlockIdFacts DEF Downloaded
  <2> QED
    BY <2>1 DEF CounterAgrees
<1>5. DataAgrees'
  BY <1>3 DEF DataAgrees
<1>6. OnlyOpenPiecesHoldBlocks'
  BY <1>1 DEF OnlyOpenPiecesHoldBlocks
<1>7. ActiveBounded'
  <2>1. IsFiniteSet(active)
    BY PiecesFinite, FS_Subset DEF PMTypeOK
  <2>2. Cardinality(active') = Cardinality(active) + 1
    BY <1>1, <2>1, FS_AddElement DEF OpenPiece
  <2>3. Cardinality(active) \in Nat
    BY <2>1, FS_CardinalityType
  <2> QED
    BY <2>2, <2>3, MaxActiveAssumption DEF ActiveBounded, SlotFree
<1> QED
  BY <1>2, <1>4, <1>5, <1>6, <1>7

LEMMA StoredInv ==
    ASSUME PMInv, NEW b \in BlockId, NEW d \in Payload, BlockStored(b, d)
    PROVE  PMInv'
<1> USE DEF PMInv, BlockStored, Accepts
<1> DEFINE p == b[1]
           i == b[2]
<1>1. p \in Pieces /\ i \in Idx(p) /\ b = <<p, i>> /\ Blocks[p] > 0
  BY BlockIdFacts
<1>2. PMTypeOK'
  BY <1>1 DEF PMTypeOK, BlockState
<1>3. CounterAgrees'
  <2> SUFFICES ASSUME NEW q \in Pieces
               PROVE  /\ count'[q] = Cardinality(Downloaded(q)')
                      /\ Blocks[q] > 0 => count'[q] < Blocks[q]
    BY DEF CounterAgrees
  <2>1. CASE q = p
    <3>1. Downloaded(p)' = Downloaded(p) \cup {i}
      BY <1>1, BlockIdFacts DEF Downloaded, PMTypeOK
    <3>2. i \notin Downloaded(p)
      BY <1>1 DEF Downloaded
    <3>3. IsFiniteSet(Downloaded(p))
      BY <1>1, IdxFinite, FS_Subset DEF Downloaded
    <3>4. Cardinality(Downloaded(p)') = Cardinality(Downloaded(p)) + 1
      BY <3>1, <3>2, <3>3, FS_AddElement
    <3>5. count[p] = Cardinality(Downloaded(p)) /\ count[p] < Blocks[p]
      BY <1>1 DEF CounterAgrees
    <3>6. count'[p] = count[p] + 1
      BY <1>1 DEF PMTypeOK
    <3>7. Blocks[p] \in Nat /\ count[p] \in Nat /\ count[p] + 1 # Blocks[p]
      BY <1>1, TorrentAssumption DEF PMTypeOK
    <3> HIDE DEF p
    <3> QED
      BY <2>1, <3>4, <3>5, <3>6, <3>7
  <2>2. CASE q # p
    <3>1. Downloaded(q)' = Downloaded(q)
      BY <1>1, <2>2, BlockIdFacts DEF Downloaded, PMTypeOK
    <3>2. count'[q] = count[q]
      BY <1>1, <2>2 DEF PMTypeOK
    <3> QED
      BY <3>1, <3>2 DEF CounterAgrees
  <2> QED
    BY <2>1, <2>2
<1>4. DataAgrees'
  BY TorrentAssumption DEF DataAgrees, PMTypeOK
<1>5. OnlyOpenPiecesHoldBlocks'
  BY DEF OnlyOpenPiecesHoldBlocks, PMTypeOK
<1>6. ActiveBounded'
  BY DEF ActiveBounded
<1> QED
  BY <1>2, <1>3, <1>4, <1>5, <1>6

\* What verified and rejected pieces have in common.
LEMMA ResetInv ==
    ASSUME PMTypeOK, CounterAgrees, DataAgrees,
           NEW p \in Pieces, ResetBlocks(p)
    PROVE  /\ bstate' \in [BlockId -> BlockState]
           /\ data' \in [BlockId -> Payload \cup {NoData}]
           /\ count' \in [Pieces -> Nat]
           /\ CounterAgrees'
           /\ DataAgrees'
<1> USE DEF ResetBlocks
<1>1. /\ bstate' \in [BlockId -> BlockState]
      /\ data' \in [BlockId -> Payload \cup {NoData}]
      /\ count' \in [Pieces -> Nat]
  BY DEF PMTypeOK, BlockState
<1>2. CounterAgrees'
  <2>1. Downloaded(p)' = {}
    BY BlockIdFacts DEF Downloaded
  <2>2. count'[p] = 0
    BY DEF PMTypeOK
  <2>3. \A q \in Pieces \ {p} : Downloaded(q)' = Downloaded(q)
    BY BlockIdFacts DEF Downloaded
  <2>4. \A q \in Pieces \ {p} : count'[q] = count[q]
    BY DEF PMTypeOK
  <2> QED
    BY <2>1, <2>2, <2>3, <2>4, FS_EmptySet DEF CounterAgrees
<1>3. DataAgrees'
  BY DEF DataAgrees
<1> QED
  BY <1>1, <1>2, <1>3

LEMMA VerifiedInv ==
    ASSUME PMInv, NEW b \in BlockId, NEW d \in Payload, PieceVerified(b, d)
    PROVE  PMInv'
<1> USE DEF PMInv, PieceVerified
<1> DEFINE p == b[1]
<1>1. p \in Pieces
  BY BlockIdFacts
<1>2. /\ PMTypeOK'
      /\ CounterAgrees'
      /\ DataAgrees'
  BY <1>1, ResetInv DEF PMTypeOK
<1>3. OnlyOpenPiecesHoldBlocks'
  BY <1>1 DEF OnlyOpenPiecesHoldBlocks, ResetBlocks
<1>4. ActiveBounded'
  <2>1. IsFiniteSet(active)
    BY PiecesFinite, FS_Subset DEF PMTypeOK
  <2>2. active' \in SUBSET active
    OBVIOUS
  <2>3. Cardinality(active') <= Cardinality(active)
    BY <2>1, <2>2, FS_Subset
  <2>4. Cardinality(active) \in Nat /\ Cardinality(active') \in Nat
    BY <2>1, <2>2, FS_Subset, FS_CardinalityType
  <2> QED
    BY <2>3, <2>4, MaxActiveAssumption DEF ActiveBounded
<1> QED
  BY <1>2, <1>3, <1>4

LEMMA RejectedInv ==
    ASSUME PMInv, NEW b \in BlockId, NEW d \in Payload, PieceRejected(b, d)
    PROVE  PMInv'
<1> USE DEF PMInv, PieceRejected
<1>1. b[1] \in Pieces
  BY BlockIdFacts
<1>2. /\ PMTypeOK'
      /\ CounterAgrees'
      /\ DataAgrees'
  BY <1>1, ResetInv DEF PMTypeOK
<1>3. OnlyOpenPiecesHoldBlocks' /\ ActiveBounded'
  BY <1>1 DEF OnlyOpenPiecesHoldBlocks, ResetBlocks, ActiveBounded
<1> QED
  BY <1>2, <1>3

LEMMA NextInv == PMInv /\ [PMNext]_pmvars => PMInv'
<1> SUFFICES ASSUME PMInv, [PMNext]_pmvars PROVE PMInv'
  OBVIOUS
<1>1. ASSUME NEW has \in SUBSET Bits, NEW b \in BlockId, RequestFromActive(has, b)
      PROVE  PMInv'
  BY <1>1, RequestInv
<1>2. ASSUME NEW has \in SUBSET Bits, NEW p \in Bits, OpenPiece(has, p)
      PROVE  PMInv'
  BY <1>2, OpenInv
<1>3. ASSUME NEW has \in SUBSET Bits, NothingToRequest(has)
      PROVE  PMInv'
  BY <1>3, StutterInv DEF NothingToRequest
<1>4. ASSUME NEW b \in BlockId, NEW d \in Payload, ProcessBlock(b, d)
      PROVE  PMInv'
  <2>1. CASE BlockIgnored(b, d)
    BY <2>1, StutterInv DEF BlockIgnored
  <2>2. CASE BlockStored(b, d)
    BY <2>2, StoredInv
  <2>3. CASE PieceVerified(b, d)
    BY <2>3, VerifiedInv
  <2>4. CASE PieceRejected(b, d)
    BY <2>4, RejectedInv
  <2> QED
    BY <1>4, <2>1, <2>2, <2>3, <2>4 DEF ProcessBlock
<1>5. CASE UNCHANGED pmvars
  BY <1>5, StutterInv
<1> QED
  BY <1>1, <1>2, <1>3, <1>4, <1>5 DEF PMNext

\* Every reachable state of the piece engine satisfies the whole invariant.
THEOREM InvariantHolds == PMSpec => []PMInv
<1>1. PMInit => PMInv
  BY InitInv
<1>2. PMInv /\ [PMNext]_pmvars => PMInv'
  BY NextInv
<1> QED
  BY <1>1, <1>2, PTL DEF PMSpec

\* The variables keep their types.
THEOREM TypeCorrect == PMSpec => []PMTypeOK
  BY InvariantHolds, PTL DEF PMInv

\* blocks_downloaded counts the Downloaded blocks and stays below total_blocks.
THEOREM CounterCorrect == PMSpec => []CounterAgrees
  BY InvariantHolds, PTL DEF PMInv

\* A block has content exactly when it is Downloaded.
THEOREM DataCorrect == PMSpec => []DataAgrees
  BY InvariantHolds, PTL DEF PMInv

\* Completed pieces are never open, and only open pieces have live blocks.
THEOREM OpenCorrect == PMSpec => []OnlyOpenPiecesHoldBlocks
  BY InvariantHolds, PTL DEF PMInv

\* No more than MAX_ACTIVE_PIECES pieces are ever open.
THEOREM CapRespected == PMSpec => []ActiveBounded
  BY InvariantHolds, PTL DEF PMInv

-----------------------------------------------------------------------------
\* The state predicate inside DiscardOnlyWholePieces, for one step.
WholePieceStep ==
    \A b \in BlockId :
       (bstate[b] = "Downloaded" /\ bstate'[b] # "Downloaded") =>
          /\ \A c \in BlocksOf(b[1]) : bstate'[c] = "Missing" /\ data'[c] = NoData
          /\ \E last \in BlocksOf(b[1]) :
                \A c \in BlocksOf(b[1]) \ {last} : bstate[c] = "Downloaded"

\* A step that resets the piece of the last block it stores discards no other.
LEMMA ResetIsWhole ==
    ASSUME PMInv, NEW b \in BlockId, bstate[b] # "Downloaded",
           count[b[1]] + 1 = Blocks[b[1]], ResetBlocks(b[1])
    PROVE  WholePieceStep
<1> DEFINE p == b[1]
<1>1. p \in Pieces /\ b[2] \in Idx(p) /\ b = <<p, b[2]>>
  BY BlockIdFacts
<1>2. \A j \in Idx(p) \ {b[2]} : bstate[<<p, j>>] = "Downloaded"
  BY <1>1, LastBlock DEF PMInv
<1>3. \A c \in BlocksOf(p) \ {b} : bstate[c] = "Downloaded"
  <2> SUFFICES ASSUME NEW c \in BlocksOf(p) \ {b} PROVE bstate[c] = "Downloaded"
    OBVIOUS
  <2>1. c \in BlockId /\ c[1] = p /\ c[2] \in Idx(p) /\ c = <<p, c[2]>>
    BY <1>1, BlockIdFacts
  <2>2. c[2] # b[2]
    BY <1>1, <2>1
  <2> QED
    BY <1>2, <2>1, <2>2
<1>4. b \in BlocksOf(p)
  BY <1>1, BlockIdFacts
<1>5. \A c \in BlocksOf(p) : bstate'[c] = "Missing" /\ data'[c] = NoData
  BY <1>1, BlockIdFacts DEF ResetBlocks
<1>6. \A c \in BlockId : c[1] # p => bstate'[c] = bstate[c]
  BY DEF ResetBlocks
<1> QED
  BY <1>3, <1>4, <1>5, <1>6 DEF WholePieceStep

\* A downloaded block is given up only with its whole piece, when all of the
\* piece is in: no sequence of requests, choked replies or late blocks makes
\* the engine drop part of a piece.
THEOREM WholePieces == PMSpec => DiscardOnlyWholePieces
<1>1. PMInv /\ [PMNext]_pmvars => [WholePieceStep]_pmvars
  <2> SUFFICES ASSUME PMInv, PMNext PROVE WholePieceStep
    OBVIOUS
  <2>1. ASSUME NEW has \in SUBSET Bits, NEW b \in BlockId, RequestFromActive(has, b)
        PROVE  WholePieceStep
    <3>1. bstate[b] # "Downloaded"
      BY <2>1 DEF RequestFromActive, Requestable
    <3>2. \A c \in BlockId : bstate[c] = "Downloaded" => bstate'[c] = "Downloaded"
      BY <2>1, <3>1 DEF RequestFromActive, PMInv, PMTypeOK
    <3> QED
      BY <3>2 DEF WholePieceStep
  <2>2. ASSUME NEW has \in SUBSET Bits, NEW p \in Bits, OpenPiece(has, p)
        PROVE  WholePieceStep
    <3>1. p \notin active
      BY <2>2 DEF OpenPiece, Pickable
    <3>2. \A c \in BlockId : bstate[c] = "Downloaded" => c[1] # p
      BY <3>1 DEF PMInv, OnlyOpenPiecesHoldBlocks
    <3>3. \A c \in BlockId : bstate[c] = "Downloaded" => bstate'[c] = "Downloaded"
      BY <2>2, <3>2 DEF OpenPiece
    <3> QED
      BY <3>3 DEF WholePieceStep
  <2>3. ASSUME NEW has \in SUBSET Bits, NothingToRequest(has)
        PROVE  WholePieceStep
    BY <2>3 DEF NothingToRequest, pmvars, WholePieceStep
  <2>4. ASSUME NEW b \in BlockId, NEW d \in Payload, ProcessBlock(b, d)
        PROVE  WholePieceStep
    <3>1. CASE BlockIgnored(b, d)
      BY <3>1 DEF BlockIgnored, pmvars, WholePieceStep
    <3>2. CASE BlockStored(b, d)
      BY <3>2 DEF BlockStored, PMInv, PMTypeOK, WholePieceStep
    <3>3. CASE PieceVerified(b, d)
      BY <3>3, ResetIsWhole DEF PieceVerified, Accepts
    <3>4. CASE PieceRejected(b, d)
      BY <3>4, ResetIsWhole DEF PieceRejected, Accepts
    <3> QED
      BY <2>4, <3>1, <3>2, <3>3, <3>4 DEF ProcessBlock
  <2> QED
    BY <2>1, <2>2, <2>3, <2>4 DEF PMNext
<1>2. PMSpec => [][WholePieceStep]_pmvars
  BY <1>1, InvariantHolds, PTL DEF PMSpec
<1> QED
  BY <1>2 DEF DiscardOnlyWholePieces, WholePieceStep

-----------------------------------------------------------------------------
\* The blocks of the abstract download are the blocks of the engine.
LEMMA AbsFacts ==
    /\ Abs!BlockId = BlockId
    /\ Abs!Pieces = Pieces
    /\ \A p : Abs!Idx(p) = Idx(p) /\ Abs!BlocksOf(p) = BlocksOf(p)
    /\ \A f, p : Abs!Content(f, p) = Content(f, p)
  BY DEF Abs!BlockId, BlockId, Abs!Pieces, Pieces, Abs!Idx, Idx,
         Abs!BlocksOf, BlocksOf, Abs!Content, Content

\* A block the engine accepts is missing in the abstract download, and it is
\* the last missing one exactly when the counter says so.
LEMMA AcceptedIsMissing ==
    ASSUME PMInv, NEW b \in BlockId, Accepts(b)
    PROVE  /\ Abs!Missing(b)
           /\ Abs!LastMissing(b) <=> count[b[1]] + 1 = Blocks[b[1]]
<1> DEFINE p == b[1]
<1> USE DEF PMInv
<1>1. p \in Pieces /\ b[2] \in Idx(p) /\ b = <<p, b[2]>>
  BY BlockIdFacts
<1>2. data[b] = NoData /\ p \notin completed /\ bstate[b] # "Downloaded"
  BY DEF Accepts, DataAgrees, OnlyOpenPiecesHoldBlocks
<1>3. Abs!LastMissing(b) <=> \A c \in BlocksOf(p) \ {b} : bstate[c] = "Downloaded"
  BY <1>1, AbsFacts, BlockIdFacts DEF Abs!LastMissing, DataAgrees
<1>4. (\A c \in BlocksOf(p) \ {b} : bstate[c] = "Downloaded")
        <=> \A j \in Idx(p) \ {b[2]} : bstate[<<p, j>>] = "Downloaded"
  <2>1. ASSUME NEW j \in Idx(p) \ {b[2]}
        PROVE  <<p, j>> \in BlocksOf(p) \ {b}
    BY <1>1 DEF BlocksOf
  <2>2. ASSUME NEW c \in BlocksOf(p) \ {b}
        PROVE  c[2] \in Idx(p) \ {b[2]} /\ c = <<p, c[2]>>
    BY <1>1 DEF BlocksOf
  <2> QED
    BY <2>1, <2>2
<1>5. count[p] + 1 = Blocks[p]
        <=> \A j \in Idx(p) \ {b[2]} : bstate[<<p, j>>] = "Downloaded"
  BY <1>1, <1>2, LastBlock
<1> QED
  BY <1>2, <1>3, <1>4, <1>5 DEF Abs!Missing

\* The engine implements the abstract download: blocks are collected once, a
\* piece is judged exactly when all of it is in, and completed for good only
\* when its content matches its hash.
THEOREM Refinement == PMSpec => ImplementsVerifiedDownload
<1>1. PMInit => Abs!Init
  BY AbsFacts DEF PMInit, Abs!Init
<1>2. PMInv /\ [PMNext]_pmvars => [Abs!Next]_(Abs!vdvars)
  <2> SUFFICES ASSUME PMInv, [PMNext]_pmvars
               PROVE  Abs!Next \/ UNCHANGED <<data, completed>>
    BY DEF Abs!vdvars
  <2>1. ASSUME NEW has \in SUBSET Bits, NEW b \in BlockId, RequestFromActive(has, b)
        PROVE  UNCHANGED <<data, completed>>
    BY <2>1 DEF RequestFromActive
  <2>2. ASSUME NEW has \in SUBSET Bits, NEW p \in Bits, OpenPiece(has, p)
        PROVE  UNCHANGED <<data, completed>>
    BY <2>2 DEF OpenPiece
  <2>3. ASSUME NEW has \in SUBSET Bits, NothingToRequest(has)
        PROVE  UNCHANGED <<data, completed>>
    BY <2>3 DEF NothingToRequest, pmvars
  <2>4. ASSUME NEW b \in BlockId, NEW d \in Payload, ProcessBlock(b, d)
        PROVE  Abs!Next \/ UNCHANGED <<data, completed>>
    <3>1. CASE BlockIgnored(b, d)
      BY <3>1 DEF BlockIgnored, pmvars
    <3>2. CASE BlockStored(b, d)
      <4>1. Abs!Collect(b, d)
        BY <3>2, AcceptedIsMissing DEF BlockStored, Abs!Collect
      <4> QED
        BY <4>1, AbsFacts DEF Abs!Next
    <3>3. CASE PieceVerified(b, d)
      <4>1. Abs!Judge(b, d)
        BY <3>3, AcceptedIsMissing, AbsFacts
           DEF PieceVerified, ResetBlocks, Assembled, Abs!Judge
      <4> QED
        BY <4>1, AbsFacts DEF Abs!Next
    <3>4. CASE PieceRejected(b, d)
      <4>1. Abs!Judge(b, d)
        BY <3>4, AcceptedIsMissing, AbsFacts
           DEF PieceRejected, ResetBlocks, Assembled, Abs!Judge
      <4> QED
        BY <4>1, AbsFacts DEF Abs!Next
    <3> QED
      BY <2>4, <3>1, <3>2, <3>3, <3>4 DEF ProcessBlock
  <2>5. CASE UNCHANGED pmvars
    BY <2>5 DEF pmvars
  <2> QED
    BY <2>1, <2>2, <2>3, <2>4, <2>5 DEF PMNext
<1> QED
  BY <1>1, <1>2, InvariantHolds, PTL DEF PMSpec, ImplementsVerifiedDownload, Abs!Spec
=============================================================================
