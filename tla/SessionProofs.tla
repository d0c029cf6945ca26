----------------------------- MODULE SessionProofs -----------------------------
(***************************************************************************)
(* Proofs about Session for every set of peers, every batch size, every    *)
(* torrent and every hash predicate.                                       *)
(*                                                                         *)
(* For all peers (Spec): the types, that requests go to willing peers only *)
(* and are lost only with them, and that the session is a verified         *)
(* download.  For peers that send only what they were asked for, over a    *)
(* disk that works (CourteousSpec): a block is outstanding at one peer at  *)
(* most, and what is on disk for a completed piece has the piece's hash.   *)
(***************************************************************************)
EXTENDS Session, PieceManagerProofs

\* A running request loop belongs to a connected peer that does not choke us:
\* messages wait for Idle, so neither fact can change while it runs.
LoopOwner ==
    \A p \in Peers : calls[p] > 0 => conn[p] = "Connected" /\ ~peer_choking[p]

\* Interested was queued before the flag was set.
InterestedTold == \A p \in Peers : am_interested[p] => told[p]

SessionInv ==
    /\ SessionTypeOK
    /\ PMInv
    /\ LoopOwner
    /\ InterestedTold
    /\ InterestTold

-----------------------------------------------------------------------------
LEMMA SessionInitInv == Init => SessionInv
<1> SUFFICES ASSUME Init PROVE SessionInv
  OBVIOUS
<1>1. PMInv
  BY InitInv DEF Init
<1>2. SessionTypeOK
  BY <1>1, BatchAssumption DEF Init, SessionTypeOK, PMInv, ConnectionState
<1>3. LoopOwner /\ InterestedTold /\ InterestTold
  BY DEF Init, LoopOwner, InterestedTold, InterestTold
<1> QED
  BY <1>1, <1>2, <1>3 DEF SessionInv

\* The piece manager sees each session step as one of its own.
LEMMA StepIsPMStep ==
    ASSUME SessionTypeOK, [Next]_vars
    PROVE  [PMNext]_pmvars
<1>1. ASSUME NEW p \in Peers, RequestNext(p)
      PROVE  PMNext
  <2>1. bitfield[p] \in SUBSET Bits
    BY DEF SessionTypeOK
  <2>2. \/ \E b \in BlockId : RequestFromActive(bitfield[p], b)
        \/ \E i \in Bits : OpenPiece(bitfield[p], i)
        \/ NothingToRequest(bitfield[p])
    BY <1>1 DEF RequestNext
  <2> QED
    BY <2>1, <2>2 DEF PMNext
<1>2. ASSUME NEW p \in Peers, NEW b \in BlockId, NEW d \in Payload,
             NEW w \in BOOLEAN, Piece(p, b, d, w)
      PROVE  PMNext
  BY <1>2 DEF Piece, PMNext
<1>3. ASSUME NEW p \in Peers,
             \/ Handshake(p) \/ Lost(p) \/ Choke(p) \/ Unchoke(p)
             \/ \E i \in Bits : Have(p, i)
             \/ \E set \in SUBSET Bits : Bitfield(p, set)
      PROVE  UNCHANGED pmvars
  BY <1>3 DEF Handshake, Lost, Choke, Unchoke, Have, Bitfield
<1>4. CASE UNCHANGED vars
  BY <1>4 DEF vars
<1> QED
  BY <1>1, <1>2, <1>3, <1>4
     DEF Next, CourteousNext, Answer, Stray, FailedWrite

\* One clause per variable that only the session has.
LEMMA SessionNextInv == SessionInv /\ [Next]_vars => SessionInv'
<1> SUFFICES ASSUME SessionInv, [Next]_vars PROVE SessionInv'
  OBVIOUS
<1> USE DEF SessionInv
<1>1. PMInv'
  BY StepIsPMStep, NextInv
<1>2. PMTypeOK'
  BY <1>1 DEF PMInv
<1> DEFINE Net ==
      /\ conn \in [Peers -> ConnectionState]
      /\ peer_choking \in [Peers -> BOOLEAN]
      /\ am_interested \in [Peers -> BOOLEAN]
      /\ bitfield \in [Peers -> SUBSET Bits]
      /\ told \in [Peers -> BOOLEAN]
      /\ owed \in [Peers -> SUBSET BlockId]
      /\ calls \in [Peers -> 0 .. Batch]
      /\ disk \in [BlockId -> Payload \cup {NoData}]
      /\ LoopOwner
      /\ InterestedTold
      /\ InterestTold
<1> USE DEF LoopOwner, InterestedTold, InterestTold
<1>3. Net
  BY DEF SessionTypeOK
<1>4. ASSUME NEW p \in Peers, Handshake(p) PROVE Net'
  BY <1>3, <1>4 DEF Handshake, Idle, ConnectionState
<1>5. ASSUME NEW p \in Peers, Lost(p) PROVE Net'
  BY <1>3, <1>5 DEF Lost, Idle, ConnectionState
<1>6. ASSUME NEW p \in Peers, Choke(p) PROVE Net'
  BY <1>3, <1>6 DEF Choke, Receives, Idle
<1>7. ASSUME NEW p \in Peers, Unchoke(p) PROVE Net'
  BY <1>3, <1>7, BatchAssumption DEF Unchoke, Receives, Idle, EnterLoop
<1>8. ASSUME NEW p \in Peers, NEW i \in Bits, Have(p, i) PROVE Net'
  BY <1>3, <1>8 DEF Have, Receives, Idle
<1>9. ASSUME NEW p \in Peers, NEW set \in SUBSET Bits, Bitfield(p, set) PROVE Net'
  BY <1>3, <1>9 DEF Bitfield, Receives, Idle
<1>10. ASSUME NEW p \in Peers, NEW b \in BlockId, NEW d \in Payload,
              NEW w \in BOOLEAN, Piece(p, b, d, w)
       PROVE  Net'
  BY <1>3, <1>10, BatchAssumption DEF Piece, Receives, Idle, EnterLoop
<1>11. ASSUME NEW p \in Peers, RequestNext(p) PROVE Net'
  <2>1. calls[p] > 0 /\ calls[p] \in 0 .. Batch
    BY <1>3, <1>11 DEF RequestNext, LoopRuns
  <2>2. ASSUME NEW b \in BlockId, Queue(p, b)
        PROVE  /\ owed' \in [Peers -> SUBSET BlockId]
               /\ calls' \in [Peers -> 0 .. Batch]
               /\ \A q \in Peers : calls'[q] > 0 => calls[q] > 0
    BY <1>3, <2>1, <2>2, BatchAssumption DEF Queue
  <2>3. ASSUME Break(p)
        PROVE  /\ owed' \in [Peers -> SUBSET BlockId]
               /\ calls' \in [Peers -> 0 .. Batch]
               /\ \A q \in Peers : calls'[q] > 0 => calls[q] > 0
    BY <1>3, <2>3, BatchAssumption DEF Break
  <2>4. ASSUME NEW i \in Bits, OpenPiece(bitfield[p], i), Blocks[i] > 0
        PROVE  <<i, 0>> \in BlockId
    <3>1. i \in Pieces
      BY <2>4 DEF OpenPiece, Pickable
    <3>2. 0 \in Idx(i)
      BY <2>4, <3>1, TorrentAssumption DEF Idx
    <3> QED
      BY <3>1, <3>2, BlockIdFacts
  <2>5. /\ owed' \in [Peers -> SUBSET BlockId]
        /\ calls' \in [Peers -> 0 .. Batch]
        /\ \A q \in Peers : calls'[q] > 0 => calls[q] > 0
    BY <1>11, <2>2, <2>3, <2>4 DEF RequestNext
  <2>6. UNCHANGED <<conn, peer_choking, am_interested, bitfield, told, disk>>
    BY <1>11 DEF RequestNext
  <2> QED
    BY <1>3, <2>5, <2>6
<1>12. ASSUME UNCHANGED vars PROVE Net'
  BY <1>3, <1>12 DEF vars, netvars
<1>13. Net'
  <2> HIDE DEF Net
  <2> QED
    BY <1>4, <1>5, <1>6, <1>7, <1>8, <1>9, <1>10, <1>11, <1>12
       DEF Next, CourteousNext, Answer, Stray, FailedWrite
<1> QED
  BY <1>1, <1>2, <1>13 DEF SessionTypeOK

\* The types of the session with the invariant of its piece engine.
THEOREM SessionInvariant == Spec => []SessionInv
<1>1. Init => SessionInv
  BY SessionInitInv
<1>2. SessionInv /\ [Next]_vars => SessionInv'
  BY SessionNextInv
<1> QED
  BY <1>1, <1>2, PTL DEF Spec

\* The variables keep their types.
THEOREM SessionTypes == Spec => []SessionTypeOK
  BY SessionInvariant, PTL DEF SessionInv

\* A connected peer that announced any piece was told we are interested.
THEOREM InterestIsTold == Spec => []InterestTold
  BY SessionInvariant, PTL DEF SessionInv

\* What is proved of PieceManager holds in a session.
LEMMA SessionRunsPieceManager == Spec => PMSpec
<1>1. Init => PMInit
  BY DEF Init
<1>2. SessionInv /\ [Next]_vars => [PMNext]_pmvars
  BY StepIsPMStep DEF SessionInv
<1> QED
  BY <1>1, <1>2, SessionInvariant, PTL DEF Spec, PMSpec

\* Whatever peers send and the disk does, what the session holds and completes is a
\* download that judges every piece as a whole, by its hash (on_peer_message, PIECE).
THEOREM SessionIsVerifiedDownload == Spec => ImplementsVerifiedDownload
  BY SessionRunsPieceManager, Refinement, PTL

-----------------------------------------------------------------------------
\* The step predicate inside RequestsOnlyWillingPeers.
WillingStep ==
    \A p \in Peers : \A b \in owed'[p] \ owed[p] :
        /\ conn[p] = "Connected"
        /\ ~peer_choking[p]
        /\ b[1] \in bitfield[p]

\* A loop that runs for a peer only asks it for pieces it has.
LEMMA RequestNextWilling ==
    ASSUME SessionInv, NEW p \in Peers, RequestNext(p)
    PROVE  WillingStep
<1>1. conn[p] = "Connected" /\ ~peer_choking[p]
  BY DEF SessionInv, LoopOwner, RequestNext, LoopRuns
<1>2. ASSUME NEW b, b[1] \in bitfield[p], Queue(p, b)
      PROVE  WillingStep
  BY <1>1, <1>2 DEF Queue, WillingStep, SessionInv, SessionTypeOK
<1>3. ASSUME NEW b \in BlockId, RequestFromActive(bitfield[p], b), Queue(p, b)
      PROVE  WillingStep
  <2>1. b[1] \in bitfield[p]
    BY <1>3 DEF RequestFromActive, Requestable
  <2> QED
    BY <1>2, <1>3, <2>1
<1>4. ASSUME NEW i \in Bits, OpenPiece(bitfield[p], i), Queue(p, <<i, 0>>)
      PROVE  WillingStep
  <2>1. <<i, 0>>[1] \in bitfield[p]
    BY <1>4 DEF OpenPiece, Pickable
  <2> QED
    BY <1>2, <1>4, <2>1
<1>5. ASSUME Break(p) PROVE WillingStep
  BY <1>5 DEF Break, WillingStep
<1> QED
  BY <1>3, <1>4, <1>5 DEF RequestNext

\* No sequence of messages, losses and half-finished request loops makes the
\* session ask a peer that is gone, that chokes us or that lacks the piece.
THEOREM WillingPeers == Spec => RequestsOnlyWillingPeers
<1>1. SessionInv /\ [Next]_vars => [WillingStep]_vars
  <2> SUFFICES ASSUME SessionInv, Next PROVE WillingStep
    OBVIOUS
  <2>1. ASSUME NEW p \in Peers, RequestNext(p) PROVE WillingStep
    BY <2>1, RequestNextWilling
  <2>2. ASSUME NEW p \in Peers, owed'[p] \subseteq owed[p],
               \A q \in Peers \ {p} : owed'[q] = owed[q]
        PROVE  WillingStep
    BY <2>2 DEF WillingStep
  <2>3. ASSUME UNCHANGED owed PROVE WillingStep
    BY <2>3 DEF WillingStep
  <2>4. ASSUME NEW p \in Peers,
               \/ Handshake(p) \/ Unchoke(p)
               \/ \E i \in Bits : Have(p, i)
               \/ \E set \in SUBSET Bits : Bitfield(p, set)
        PROVE  WillingStep
    BY <2>3, <2>4 DEF Handshake, Unchoke, Have, Bitfield
  <2>5. owed \in [Peers -> SUBSET BlockId]
    BY DEF SessionInv, SessionTypeOK
  <2>6. ASSUME NEW p \in Peers, Lost(p) \/ Choke(p) PROVE WillingStep
    BY <2>2, <2>5, <2>6 DEF Lost, Choke
  <2>7. ASSUME NEW p \in Peers, NEW b \in BlockId, NEW d \in Payload,
               NEW w \in BOOLEAN, Piece(p, b, d, w)
        PROVE  WillingStep
    BY <2>2, <2>5, <2>7 DEF Piece
  <2> QED
    BY <2>1, <2>4, <2>6, <2>7 DEF Next, CourteousNext, Answer, Stray, FailedWrite
<1>2. Spec => [][WillingStep]_vars
  BY <1>1, SessionInvariant, PTL DEF Spec
<1> QED
  BY <1>2 DEF RequestsOnlyWillingPeers, WillingStep

-----------------------------------------------------------------------------
\* The step predicate inside StrandedOnlyByItsPeer.
StrandingStep ==
    \A b \in BlockId : ~Stranded(b) /\ Stranded(b)' =>
        \E p \in Peers : b \in owed[p] /\ (Lost(p) \/ Choke(p))

\* A block that is marked is queued, and no request is dropped.
LEMMA RequestNextStrands ==
    ASSUME SessionInv, NEW p \in Peers, RequestNext(p)
    PROVE  \A b \in BlockId : Stranded(b)' => Stranded(b)
<1> USE DEF SessionInv, SessionTypeOK, PMTypeOK
<1>1. \A q \in Peers : owed[q] \subseteq owed'[q]
  BY DEF RequestNext, Queue, Break
<1>2. ASSUME NEW c, Queue(p, c) PROVE c \in owed'[p]
  BY <1>2 DEF Queue
<1>3. ASSUME NEW b \in BlockId, b \in Requestable(bitfield[p]),
             RequestFromActive(bitfield[p], b), Queue(p, b)
      PROVE  \A c \in BlockId : c = b \/ bstate'[c] = bstate[c]
  BY <1>3 DEF RequestFromActive
<1>4. ASSUME NEW i \in Bits, OpenPiece(bitfield[p], i)
      PROVE  /\ \A c \in BlockId : c = <<i, 0>> \/ bstate'[c] = bstate[c]
             /\ ~(Blocks[i] > 0) => <<i, 0>> \notin BlockId
  <2>1. i \in Pieces
    BY <1>4 DEF OpenPiece, Pickable
  <2> QED
    BY <1>4, <2>1, BlockIdFacts DEF OpenPiece
<1>5. \A c \in BlockId : bstate'[c] = bstate[c] \/ c \in owed'[p]
  <2>1. ASSUME NEW b \in BlockId, RequestFromActive(bitfield[p], b), Queue(p, b)
        PROVE  \A c \in BlockId : bstate'[c] = bstate[c] \/ c \in owed'[p]
    BY <1>2, <1>3, <2>1 DEF RequestFromActive
  <2>2. ASSUME NEW i \in Bits, OpenPiece(bitfield[p], i),
               IF Blocks[i] > 0 THEN Queue(p, <<i, 0>>) ELSE Break(p)
        PROVE  \A c \in BlockId : bstate'[c] = bstate[c] \/ c \in owed'[p]
    BY <1>2, <1>4, <2>2
  <2>3. ASSUME NothingToRequest(bitfield[p])
        PROVE  \A c \in BlockId : bstate'[c] = bstate[c]
    BY <2>3 DEF NothingToRequest, pmvars
  <2> QED
    BY <2>1, <2>2, <2>3 DEF RequestNext
<1> QED
  BY <1>1, <1>5 DEF Stranded

\* A block that came is Requested no more, and no other request is touched.
LEMMA PieceStrands ==
    ASSUME SessionInv, NEW p \in Peers, NEW b \in BlockId, NEW d \in Payload,
           NEW w \in BOOLEAN, Piece(p, b, d, w)
    PROVE  \A c \in BlockId : Stranded(c)' => Stranded(c)
<1> USE DEF SessionInv, SessionTypeOK, PMTypeOK
<1>1. ProcessBlock(b, d) /\ owed' = [owed EXCEPT ![p] = @ \ {b}]
  BY DEF Piece
<1>2. \A c \in BlockId : c # b => \A q \in Peers : c \in owed[q] => c \in owed'[q]
  BY <1>1
<1>3. \A c \in BlockId : bstate'[c] = "Requested" => c # b /\ bstate[c] = "Requested"
  <2>1. CASE BlockIgnored(b, d)
    BY <2>1 DEF BlockIgnored, pmvars, PMInv, OnlyOpenPiecesHoldBlocks
  <2>2. CASE BlockStored(b, d)
    BY <2>2 DEF BlockStored
  <2>3. CASE ResetBlocks(b[1])
    BY <2>3 DEF ResetBlocks
  <2> QED
    BY <1>1, <2>1, <2>2, <2>3 DEF ProcessBlock, PieceVerified, PieceRejected
<1> QED
  BY <1>2, <1>3 DEF Stranded

\* Whatever peers send, in whatever order, and whether or not their blocks reach the disk:
\* a request is lost only with the peer it was queued for.
THEOREM RequestsLostWithTheirPeer == Spec => StrandedOnlyByItsPeer
<1>1. SessionInv /\ [Next]_vars => [StrandingStep]_vars
  <2> SUFFICES ASSUME SessionInv, Next PROVE StrandingStep
    OBVIOUS
  <2>1. ASSUME NEW p \in Peers, RequestNext(p) PROVE StrandingStep
    BY <2>1, RequestNextStrands DEF StrandingStep
  <2>2. ASSUME NEW p \in Peers, NEW b \in BlockId, NEW d \in Payload,
               NEW w \in BOOLEAN, Piece(p, b, d, w)
        PROVE  StrandingStep
    BY <2>2, PieceStrands DEF StrandingStep
  <2>3. ASSUME NEW p \in Peers,
               \/ Handshake(p) \/ Unchoke(p)
               \/ \E i \in Bits : Have(p, i)
               \/ \E set \in SUBSET Bits : Bitfield(p, set)
        PROVE  StrandingStep
    <3>1. UNCHANGED <<bstate, owed>>
      BY <2>3 DEF Handshake, Unchoke, Have, Bitfield, pmvars
    <3> QED
      BY <3>1 DEF StrandingStep, Stranded
  <2>4. ASSUME NEW p \in Peers, Lost(p) \/ Choke(p) PROVE StrandingStep
    <3>1. UNCHANGED bstate /\ \A q \in Peers \ {p} : owed'[q] = owed[q]
      BY <2>4 DEF Lost, Choke, pmvars, SessionInv, SessionTypeOK
    <3> SUFFICES ASSUME NEW b \in BlockId, ~Stranded(b), Stranded(b)'
                 PROVE  b \in owed[p]
      BY <2>4 DEF StrandingStep
    <3> QED
      BY <3>1 DEF Stranded
  <2> QED
    BY <2>1, <2>2, <2>3, <2>4 DEF Next, CourteousNext, Answer, Stray, FailedWrite
<1>2. Spec => [][StrandingStep]_vars
  BY <1>1, SessionInvariant, PTL DEF Spec
<1> QED
  BY <1>2 DEF StrandedOnlyByItsPeer, StrandingStep

-----------------------------------------------------------------------------
\* What the piece manager holds of a block is what the disk holds of it.
DiskAgrees == \A b \in BlockId : bstate[b] = "Downloaded" => disk[b] = data[b]

CourteousInv ==
    /\ SessionInv
    /\ OneOwner
    /\ DiskAgrees
    /\ VerifiedIntact

\* The part of CourteousInv that is not proved for all peers.
DiskInv == OneOwner /\ DiskAgrees /\ VerifiedIntact

\* Nothing a peer holds can change while no block, no disk and no piece does.
LEMMA QuietStep ==
    ASSUME CourteousInv, UNCHANGED <<pmvars, disk>>,
           \A p \in Peers : owed'[p] \subseteq owed[p]
    PROVE  DiskInv'
<1> USE DEF pmvars
<1>1. OneOwner'
  BY DEF CourteousInv, OneOwner
<1>2. DiskAgrees' /\ VerifiedIntact'
  BY DEF CourteousInv, DiskAgrees, VerifiedIntact, Content
<1> QED
  BY <1>1, <1>2 DEF DiskInv

\* A block that becomes Requested was Missing, hence outstanding nowhere.
LEMMA QueueStep ==
    ASSUME CourteousInv, NEW p \in Peers, NEW b \in BlockId, bstate[b] = "Missing",
           bstate' = [bstate EXCEPT ![b] = "Requested"],
           owed' = [owed EXCEPT ![p] = @ \cup {b}],
           UNCHANGED <<completed, data, disk>>
    PROVE  DiskInv'
<1> USE DEF CourteousInv, SessionInv, SessionTypeOK, PMTypeOK
<1>1. \A q \in Peers : b \notin owed[q]
  BY DEF OneOwner
<1>2. OneOwner'
  BY <1>1 DEF OneOwner
<1>3. DiskAgrees'
  BY DEF DiskAgrees
<1>4. VerifiedIntact'
  BY DEF VerifiedIntact, Content
<1> QED
  BY <1>2, <1>3, <1>4 DEF DiskInv

LEMMA RequestNextDisk ==
    ASSUME CourteousInv, NEW p \in Peers, RequestNext(p)
    PROVE  DiskInv'
<1>1. UNCHANGED disk
  BY DEF RequestNext
<1>2. ASSUME NEW b \in BlockId, RequestFromActive(bitfield[p], b), Queue(p, b)
      PROVE  DiskInv'
  <2>1. bstate[b] = "Missing"
    BY <1>2 DEF RequestFromActive, Requestable
  <2> QED
    BY <1>1, <1>2, <2>1, QueueStep DEF RequestFromActive, Queue
<1>3. ASSUME NEW i \in Bits, OpenPiece(bitfield[p], i), Blocks[i] > 0, Queue(p, <<i, 0>>)
      PROVE  DiskInv'
  <2>1. i \in Pieces /\ i \notin active
    BY <1>3 DEF OpenPiece, Pickable
  <2>2. <<i, 0>> \in BlockId
    BY <1>3, <2>1, TorrentAssumption, BlockIdFacts DEF Idx
  <2>3. bstate[<<i, 0>>] = "Missing"
    BY <2>1, <2>2 DEF CourteousInv, SessionInv, PMInv, OnlyOpenPiecesHoldBlocks
  <2>4. bstate' = [bstate EXCEPT ![<<i, 0>>] = "Requested"]
    BY <1>3, <2>2 DEF OpenPiece, CourteousInv, SessionInv, SessionTypeOK, PMTypeOK
  <2> QED
    BY <1>1, <1>3, <2>2, <2>3, <2>4, QueueStep DEF OpenPiece, Queue
<1>4. ASSUME NEW i \in Bits, OpenPiece(bitfield[p], i), ~(Blocks[i] > 0), Break(p)
      PROVE  DiskInv'
  <2>1. i \in Pieces
    BY <1>4 DEF OpenPiece, Pickable
  <2>2. <<i, 0>> \notin BlockId
    BY <1>4, <2>1, BlockIdFacts
  <2>3. bstate' = bstate
    BY <1>4, <2>2 DEF OpenPiece, CourteousInv, SessionInv, SessionTypeOK, PMTypeOK
  <2>4. OneOwner'
    BY <1>4, <2>3 DEF Break, CourteousInv, OneOwner
  <2>5. DiskAgrees' /\ VerifiedIntact'
    BY <1>1, <1>4, <2>3
       DEF OpenPiece, CourteousInv, DiskAgrees, VerifiedIntact, Content
  <2> QED
    BY <2>4, <2>5 DEF DiskInv
<1>5. ASSUME NothingToRequest(bitfield[p]), Break(p)
      PROVE  DiskInv'
  BY <1>1, <1>5, QuietStep DEF NothingToRequest, Break
<1> QED
  BY <1>2, <1>3, <1>4, <1>5 DEF RequestNext

\* An answered request is accepted, so what reaches the disk is what the piece
\* manager stores, and never lands in a completed piece.
LEMMA AnswerDisk ==
    ASSUME CourteousInv, NEW p \in Peers, NEW b \in BlockId, NEW d \in Payload,
           Answer(p, b, d)
    PROVE  DiskInv'
<1> DEFINE x == b[1]
<1> USE DEF CourteousInv, SessionInv
<1>1. x \in Pieces /\ b[2] \in Idx(x) /\ b = <<x, b[2]>>
  BY BlockIdFacts
<1>2. /\ bstate[b] = "Requested"
      /\ \A q \in Peers \ {p} : b \notin owed[q]
  BY DEF Answer, OneOwner
<1>3. x \in active /\ x \notin completed /\ Accepts(b)
  BY <1>2 DEF PMInv, OnlyOpenPiecesHoldBlocks, Accepts
<1>4. /\ disk' = [disk EXCEPT ![b] = d]
      /\ owed' = [owed EXCEPT ![p] = @ \ {b}]
      /\ ProcessBlock(b, d)
  BY DEF Answer, Piece
<1>5. \A q \in Peers : b \notin owed'[q] /\ owed'[q] \subseteq owed[q]
  BY <1>2, <1>4 DEF SessionTypeOK
<1>6. \A q \in Peers : \A c \in owed[q] :
         /\ c \in BlockId
         /\ bstate[c] = "Requested"
         /\ \A r \in Peers \ {q} : c \notin owed[r]
  BY DEF OneOwner, SessionTypeOK
<1>7. \A y \in completed : HashMatches(y, Content(disk', y))
  <2> SUFFICES ASSUME NEW y \in completed PROVE HashMatches(y, Content(disk', y))
    OBVIOUS
  <2>1. \A i \in Idx(y) : disk'[<<y, i>>] = disk[<<y, i>>]
    BY <1>1, <1>3, <1>4, BlockIdFacts DEF SessionTypeOK, PMTypeOK
  <2>2. Content(disk', y) = Content(disk, y)
    BY <2>1 DEF Content
  <2> QED
    BY <2>2 DEF VerifiedIntact
<1>8. CASE BlockIgnored(b, d)
  BY <1>2, <1>3, <1>8 DEF BlockIgnored
<1>9. CASE BlockStored(b, d)
  <2>1. OneOwner'
    BY <1>5, <1>6, <1>9 DEF BlockStored, OneOwner, SessionTypeOK, PMTypeOK
  <2>2. DiskAgrees'
    BY <1>4, <1>9 DEF BlockStored, DiskAgrees, SessionTypeOK, PMTypeOK
  <2>3. VerifiedIntact'
    BY <1>7, <1>9 DEF BlockStored, VerifiedIntact, Content
  <2> QED
    BY <2>1, <2>2, <2>3 DEF DiskInv
<1>10. ASSUME count[x] + 1 = Blocks[x], ResetBlocks(x)
       PROVE  /\ OneOwner'
              /\ DiskAgrees'
              /\ Content(disk', x) = Assembled(b, d)
  <2>1. \A j \in Idx(x) \ {b[2]} : bstate[<<x, j>>] = "Downloaded"
    BY <1>1, <1>2, <1>10, LastBlock DEF PMInv
  <2>2. \A q \in Peers : \A c \in owed'[q] : c[1] # x
    <3> SUFFICES ASSUME NEW q \in Peers, NEW c \in owed'[q], c[1] = x PROVE FALSE
      OBVIOUS
    <3>1. c \in BlockId /\ bstate[c] = "Requested" /\ c # b
      BY <1>5, <1>6
    <3>2. c[2] \in Idx(x) /\ c = <<x, c[2]>>
      BY <3>1, BlockIdFacts
    <3>3. c[2] # b[2]
      BY <1>1, <3>1, <3>2
    <3> QED
      BY <2>1, <3>1, <3>2, <3>3
  <2>3. OneOwner'
    BY <1>5, <1>6, <1>10, <2>2 DEF ResetBlocks, OneOwner
  <2>4. DiskAgrees'
    <3> SUFFICES ASSUME NEW c \in BlockId, bstate'[c] = "Downloaded"
                 PROVE  disk'[c] = data'[c]
      BY DEF DiskAgrees
    <3>1. c[1] # x /\ bstate[c] = "Downloaded" /\ data'[c] = data[c]
      BY <1>10 DEF ResetBlocks
    <3>2. disk'[c] = disk[c]
      BY <1>4, <3>1 DEF SessionTypeOK
    <3> QED
      BY <3>1, <3>2 DEF DiskAgrees
  <2>5. \A i \in Idx(x) : disk'[<<x, i>>] = [data EXCEPT ![b] = d][<<x, i>>]
    <3> SUFFICES ASSUME NEW i \in Idx(x)
                 PROVE  disk'[<<x, i>>] = [data EXCEPT ![b] = d][<<x, i>>]
      OBVIOUS
    <3>1. <<x, i>> \in BlockId
      BY <1>1, BlockIdFacts
    <3>2. CASE i = b[2]
      BY <1>1, <1>4, <3>1, <3>2 DEF SessionTypeOK, PMTypeOK
    <3>3. CASE i # b[2]
      <4>1. bstate[<<x, i>>] = "Downloaded" /\ <<x, i>> # b
        BY <1>1, <2>1, <3>3
      <4> QED
        BY <1>4, <3>1, <4>1 DEF DiskAgrees, SessionTypeOK, PMTypeOK
    <3> QED
      BY <3>2, <3>3
  <2>6. Content(disk', x) = Assembled(b, d)
    BY <2>5 DEF Content, Assembled
  <2> QED
    BY <2>3, <2>4, <2>6
<1>11. CASE PieceVerified(b, d)
  <2>1. HashMatches(x, Content(disk', x)) /\ completed' = completed \cup {x}
    BY <1>10, <1>11 DEF PieceVerified
  <2>2. VerifiedIntact'
    BY <1>7, <2>1 DEF VerifiedIntact, Content
  <2> QED
    BY <1>10, <1>11, <2>2 DEF PieceVerified, DiskInv
<1>12. CASE PieceRejected(b, d)
  <2>1. VerifiedIntact'
    BY <1>7, <1>12 DEF PieceRejected, VerifiedIntact, Content
  <2> QED
    BY <1>10, <1>12, <2>1 DEF PieceRejected, DiskInv
<1> QED
  BY <1>4, <1>8, <1>9, <1>11, <1>12 DEF ProcessBlock

\* Among courteous peers: who owes what, and what is on disk.
THEOREM CourteousInvariant == CourteousSpec => []CourteousInv
<1>1. Init => CourteousInv
  <2> SUFFICES ASSUME Init PROVE CourteousInv
    OBVIOUS
  <2>1. SessionInv
    BY SessionInitInv
  <2>2. OneOwner /\ DiskAgrees /\ VerifiedIntact
    BY DEF Init, PMInit, OneOwner, DiskAgrees, VerifiedIntact
  <2> QED
    BY <2>1, <2>2 DEF CourteousInv
<1>2. CourteousInv /\ [CourteousNext]_vars => CourteousInv'
  <2> SUFFICES ASSUME CourteousInv, [CourteousNext]_vars PROVE CourteousInv'
    OBVIOUS
  <2>1. SessionInv'
    BY SessionNextInv DEF CourteousInv, Next
  <2>2. owed \in [Peers -> SUBSET BlockId]
    BY DEF CourteousInv, SessionInv, SessionTypeOK
  <2>3. ASSUME NEW p \in Peers,
               \/ Handshake(p) \/ Unchoke(p)
               \/ \E i \in Bits : Have(p, i)
               \/ \E set \in SUBSET Bits : Bitfield(p, set)
        PROVE  DiskInv'
    BY <2>3, QuietStep DEF Handshake, Unchoke, Have, Bitfield
  <2>4. ASSUME NEW p \in Peers, Lost(p) \/ Choke(p) PROVE DiskInv'
    <3>1. UNCHANGED <<pmvars, disk>> /\ \A q \in Peers : owed'[q] \subseteq owed[q]
      BY <2>2, <2>4 DEF Lost, Choke
    <3> QED
      BY <3>1, QuietStep
  <2>5. ASSUME NEW p \in Peers, RequestNext(p) PROVE DiskInv'
    BY <2>5, RequestNextDisk
  <2>6. ASSUME NEW p \in Peers, NEW b \in BlockId, NEW d \in Payload, Answer(p, b, d)
        PROVE  DiskInv'
    BY <2>6, AnswerDisk
  <2>7. ASSUME UNCHANGED vars PROVE DiskInv'
    BY <2>7, QuietStep DEF vars, netvars
  <2>8. DiskInv'
    BY <2>3, <2>4, <2>5, <2>6, <2>7 DEF CourteousNext
  <2> QED
    BY <2>1, <2>8 DEF CourteousInv, DiskInv
<1> QED
  BY <1>1, <1>2, PTL DEF CourteousSpec

\* No block is fetched from two peers at once, and every answer is awaited.
THEOREM NoDoubleFetch == CourteousSpec => []OneOwner
  BY CourteousInvariant, PTL DEF CourteousInv

\* With peers that send only what they were asked for and a disk that works,
\* what is on disk for a completed piece has the piece's hash, for ever.
THEOREM DiskHoldsVerified == CourteousSpec => []VerifiedIntact
  BY CourteousInvariant, PTL DEF CourteousInv
=============================================================================
