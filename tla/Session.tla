-------------------------------- MODULE Session --------------------------------
(***************************************************************************)
(* Session (srcs/session) with its peer connections and the piece engine:  *)
(* what every peer message does to the connection, to the pieces and to    *)
(* the file on disk.                                                       *)
(*                                                                         *)
(* The program is one thread: EventLoop::run calls one handler at a time.  *)
(* A handler that ends in request_next_blocks runs its loop before any     *)
(* other message is looked at; the loop is a sequence of RequestNext steps *)
(* and every handler waits for Idle.                                       *)
(*                                                                         *)
(* Init is the state fetch_peers leaves: a connection per peer whose       *)
(* handshake is queued.  A peer whose connect failed is Disconnected.      *)
(* owed[p] and told[p] are what p was sent: the requests it may still      *)
(* answer, and whether an Interested message was queued for it.            *)
(***************************************************************************)
EXTENDS PieceManager

CONSTANTS
    Peers,                  \* the peers the trackers returned
    Batch                   \* requests per request_next_blocks, 5 in the code

ASSUME BatchAssumption == Batch \in Nat \ {0}

VARIABLES
    conn,                   \* conn[p]: PeerConnection::state_
    peer_choking,           \* peer_choking[p]: Peer::peer_choking
    am_interested,          \* am_interested[p]: Peer::am_interested
    bitfield,               \* bitfield[p]: the bits set in Peer::bitfield
    told,                   \* told[p]: an Interested message was queued for p
    owed,                   \* owed[p]: requests queued for p, not yet answered
    calls,                  \* calls[p]: iterations left in request_next_blocks(p)
    disk                    \* disk[b]: what write_block last wrote for block b

netvars == <<conn, peer_choking, am_interested, bitfield, told, owed>>
vars == <<pmvars, netvars, calls, disk>>

ConnectionState == {"Disconnected", "HandshakeSent", "Connected"}

Init ==
    /\ PMInit
    /\ conn \in [Peers -> {"Disconnected", "HandshakeSent"}]
    /\ peer_choking = [p \in Peers |-> TRUE]
    /\ am_interested = [p \in Peers |-> FALSE]
    /\ bitfield = [p \in Peers |-> {}]
    /\ told = [p \in Peers |-> FALSE]
    /\ owed = [p \in Peers |-> {}]
    /\ calls = [p \in Peers |-> 0]
    /\ disk = [b \in BlockId |-> NoData]

\* No handler is running: the event loop is in poll().
Idle == \A p \in Peers : calls[p] = 0

\* A message of p is parsed and handed to on_peer_message.
Receives(p) == Idle /\ conn[p] = "Connected"

-----------------------------------------------------------------------------
\* The connection (PeerConnection): handshake and loss.

Handshake(p) ==
    /\ Idle
    /\ conn[p] = "HandshakeSent"
    /\ conn' = [conn EXCEPT ![p] = "Connected"]
    /\ UNCHANGED <<pmvars, peer_choking, am_interested, bitfield, told, owed, calls, disk>>

\* End of file, a socket error or a wrong handshake: disconnect().  Nothing
\* gives the peer's requests back to the piece manager.
Lost(p) ==
    /\ Idle
    /\ conn[p] # "Disconnected"
    /\ conn' = [conn EXCEPT ![p] = "Disconnected"]
    /\ owed' = [owed EXCEPT ![p] = {}]
    /\ UNCHANGED <<pmvars, peer_choking, am_interested, bitfield, told, calls, disk>>

-----------------------------------------------------------------------------
\* request_next_blocks(p).

\* Mutant: the loop is entered for a peer that chokes us.
EnterLoopChoked(p, choked) == calls' = [calls EXCEPT ![p] = Batch]

EnterLoop(p, choked) ==
    calls' = IF choked THEN calls ELSE [calls EXCEPT ![p] = Batch]

\* Mutant: queue_message drops the request.
QueueDropped(p, b) ==
    /\ calls' = [calls EXCEPT ![p] = @ - 1]
    /\ UNCHANGED owed

\* Mutant: the batch is counted once the request is taken, and the last one is dropped.
QueueLastDropped(p, b) ==
    /\ owed' = IF calls[p] > 1 THEN [owed EXCEPT ![p] = @ \cup {b}] ELSE owed
    /\ calls' = [calls EXCEPT ![p] = @ - 1]

\* create_next_request returned a request for block b: queue_message.
Queue(p, b) ==
    /\ owed' = [owed EXCEPT ![p] = @ \cup {b}]
    /\ calls' = [calls EXCEPT ![p] = @ - 1]

\* create_next_request returned nullptr: break.
Break(p) ==
    /\ calls' = [calls EXCEPT ![p] = 0]
    /\ UNCHANGED owed

LoopRuns(p) == calls[p] > 0

\* One iteration of the loop.
RequestNext(p) ==
    /\ LoopRuns(p)
    /\ \/ \E b \in BlockId : RequestFromActive(bitfield[p], b) /\ Queue(p, b)
       \/ \E i \in Bits :
             /\ OpenPiece(bitfield[p], i)
             /\ IF Blocks[i] > 0 THEN Queue(p, <<i, 0>>) ELSE Break(p)
       \/ NothingToRequest(bitfield[p]) /\ Break(p)
    /\ UNCHANGED <<conn, peer_choking, am_interested, bitfield, told, disk>>

-----------------------------------------------------------------------------
\* on_peer_message.

\* A peer that chokes drops the requests it has not served, but one it receives
\* after it unchokes again is served: what is left of owed is any part of it.
Choke(p) ==
    /\ Receives(p)
    /\ peer_choking' = [peer_choking EXCEPT ![p] = TRUE]
    /\ \E kept \in SUBSET owed[p] : owed' = [owed EXCEPT ![p] = kept]
    /\ UNCHANGED <<pmvars, conn, am_interested, bitfield, told, calls, disk>>

Unchoke(p) ==
    /\ Receives(p)
    /\ peer_choking' = [peer_choking EXCEPT ![p] = FALSE]
    /\ EnterLoop(p, FALSE)
    /\ UNCHANGED <<pmvars, conn, am_interested, bitfield, told, owed, disk>>

Have(p, i) ==
    /\ Receives(p)
    /\ bitfield' = [bitfield EXCEPT ![p] = @ \cup {i}]
    /\ am_interested' = [am_interested EXCEPT ![p] = TRUE]
    /\ told' = [told EXCEPT ![p] = @ \/ ~am_interested[p]]
    /\ UNCHANGED <<pmvars, conn, peer_choking, owed, calls, disk>>

\* Mutant: no Interested message after a bitfield.
BitfieldUntold(p, set) ==
    /\ Receives(p)
    /\ bitfield' = [bitfield EXCEPT ![p] = set]
    /\ UNCHANGED <<pmvars, conn, peer_choking, am_interested, told, owed, calls, disk>>

Bitfield(p, set) ==
    /\ Receives(p)
    /\ bitfield' = [bitfield EXCEPT ![p] = set]
    /\ told' = [told EXCEPT ![p] = TRUE]
    /\ UNCHANGED <<pmvars, conn, peer_choking, am_interested, owed, calls, disk>>

\* A block arrives: it is written to disk first, whatever process_block makes
\* of it, then more is requested.  A write that fails is logged and forgotten.
Piece(p, b, d, written) ==
    /\ Receives(p)
    /\ disk' = IF written THEN [disk EXCEPT ![b] = d] ELSE disk
    /\ ProcessBlock(b, d)
    /\ owed' = [owed EXCEPT ![p] = @ \ {b}]
    /\ EnterLoop(p, peer_choking[p])
    /\ UNCHANGED <<conn, peer_choking, am_interested, bitfield, told>>

Answer(p, b, d)      == b \in owed[p] /\ Piece(p, b, d, TRUE)
FailedWrite(p, b, d) == b \in owed[p] /\ Piece(p, b, d, FALSE)

\* A block p was not asked for, or was asked for and has answered before.
Stray(p, b, d) == b \notin owed[p] /\ Piece(p, b, d, TRUE)

-----------------------------------------------------------------------------
\* Peers that send only the blocks they were asked for, and a disk that works.
CourteousNext ==
    \E p \in Peers :
        \/ Handshake(p)
        \/ Lost(p)
        \/ RequestNext(p)
        \/ Choke(p)
        \/ Unchoke(p)
        \/ \E i \in Bits : Have(p, i)
        \/ \E set \in SUBSET Bits : Bitfield(p, set)
        \/ \E b \in BlockId, d \in Payload : Answer(p, b, d)

Next ==
    \/ CourteousNext
    \/ \E p \in Peers, b \in BlockId, d \in Payload :
          Stray(p, b, d) \/ FailedWrite(p, b, d)

\* Peers that may also send what they were not asked for.
StrayNext ==
    \/ CourteousNext
    \/ \E p \in Peers, b \in BlockId, d \in Payload : Stray(p, b, d)

CourteousSpec == Init /\ [][CourteousNext]_vars
StraySpec     == Init /\ [][StrayNext]_vars
Spec          == Init /\ [][Next]_vars

-----------------------------------------------------------------------------
\* The types of the variables.
SessionTypeOK ==
    /\ PMTypeOK
    /\ conn \in [Peers -> ConnectionState]
    /\ peer_choking \in [Peers -> BOOLEAN]
    /\ am_interested \in [Peers -> BOOLEAN]
    /\ bitfield \in [Peers -> SUBSET Bits]
    /\ told \in [Peers -> BOOLEAN]
    /\ owed \in [Peers -> SUBSET BlockId]
    /\ calls \in [Peers -> 0 .. Batch]
    /\ disk \in [BlockId -> Payload \cup {NoData}]

\* request_next_blocks never asks a peer that is not connected, that chokes us
\* or that does not have the piece, however messages and calls follow each
\* other.
RequestsOnlyWillingPeers ==
    [][\A p \in Peers : \A b \in owed'[p] \ owed[p] :
          /\ conn[p] = "Connected"
          /\ ~peer_choking[p]
          /\ b[1] \in bitfield[p]]_vars

\* The piece manager waits for a block that nobody is asked for any more: nothing
\* requests it again (create_next_request takes Missing blocks only).
Stranded(b) ==
    /\ bstate[b] = "Requested"
    /\ \A p \in Peers : b \notin owed[p]

\* A request is lost only with the peer it was queued for, when that peer chokes us or is
\* gone (PeerConnection::disconnect, CHOKE).  No other order of messages strands a block:
\* what create_next_request marks is queued before the loop ends, and a block that comes
\* late, twice, or from a peer that was not asked for it is not marked any more.
StrandedOnlyByItsPeer ==
    [][\A b \in BlockId : ~Stranded(b) /\ Stranded(b)' =>
          \E p \in Peers : b \in owed[p] /\ (Lost(p) \/ Choke(p))]_vars

\* A connected peer that announced any piece was told we are interested: without
\* that message it never unchokes us.
InterestTold == \A p \in Peers : bitfield[p] # {} => told[p]

\* A request is outstanding only for a block the piece manager holds Requested,
\* and at one peer only: no block is fetched twice.
OneOwner ==
    \A p \in Peers : \A b \in owed[p] :
        /\ bstate[b] = "Requested"
        /\ \A q \in Peers \ {p} : b \notin owed[q]

\* The file holds, for every completed piece, a content that has its hash.
VerifiedIntact == \A p \in completed : HashMatches(p, Content(disk, p))
=============================================================================
