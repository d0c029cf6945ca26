# K0 Torrent Engine: a verification project

TLA+ specifications of the K0 torrent client in `src/`, the TLC runs that check
them on small instances, and proofs, checked by TLAPS, of what holds for every
instance. `PROJECT.json` lists the components, runs, mutants, findings, hazards
and theorems, and maps every definition that models code to the lines it stands
for.

    tlc -config PieceManager.cfg MCPieceManager      one run
    tlapm PieceManagerProofs.tla                     one module of proofs

## 1. The system

The client is a single thread. `main` builds a `Session` from a `.torrent` file;
`Session::start` announces to the trackers (blocking), makes one
`PeerConnection` per peer and runs the `EventLoop`, which polls the sockets and
calls one connection's handler at a time. The only other control flow is the
SIGINT handler.

| component | state it keeps | operations | talks to |
|---|---|---|---|
| piece engine (`srcs/piece`) | open pieces with the state, content and count of their blocks; completed pieces | `create_next_request`, `process_block` | called by the session; hashes with SHA-1 |
| session (`srcs/session`, `srcs/peer/peer.cpp`) | the peers' flags and bitfields, the connections | `fetch_peers`, `on_peer_message`, `request_next_blocks`, `stop` | everything below |
| peer connection (`srcs/peer`) | connection state, read and write buffer | `start`, `queue_message`, `disconnect`, `handle_read`, `handle_write`, `process_handshake` | called back by the loop; hands messages to the session |
| event loop, TCP socket (`srcs/net`) | registered events, the poll set, a dirty flag, the wake-up pipe | `add`, `modify`, `remove`, `run_once`, `run`, `stop` | calls the connections |
| disk manager, file map (`srcs/io`) | the files and where each begins in the torrent; open streams | `add_file`, `map_block`, `write_block`, `read_block` | called by the session |
| tracker manager (`srcs/tracker`) | tiers of trackers with failures, interval and next announce | `announce`, `reannounce_if_due`, `stop` | HTTP and UDP trackers |
| UDP tracker | nothing between calls; a socket and an attempt counter in one | `announce` (connect, announce, retries) | the network |
| HTTP tracker | nothing between calls; a socket and what was received in one | `announce` (`http_get`, `parse_response`); `scrape`, which nobody calls | the network, the decoder |
| bencode, metainfo | nothing | `decode`, `parse_torrent` | called by the session's constructor and the HTTP tracker |
| SHA-1, peer id | nothing | hashing, random ids | – |
| DHT | empty files | – | – |

What makes each correct, and what is hard about it:

- **Piece engine.** A piece is completed exactly when the content of all its
  blocks has its hash. Blocks arrive in any order, twice, or unasked; a failed
  hash restarts the piece in place; the verdict hangs on a counter that is kept
  apart from the block states.
- **Session.** Every block is requested of a peer that will send it, of one peer
  at a time, and again if that peer does not; what is on disk for a completed
  piece stays the verified content. Chokes, lost connections, late answers and
  announcements come between any two steps.
- **Peer connection and event loop.** The peer's messages come out whole, in
  order and without waiting for the next read; what is queued is sent. TCP cuts
  and joins anything, the socket takes part of a buffer, and the interest in an
  event lives in another object than its reason.
- **File map and disk manager.** A range is mapped to exactly its bytes, over
  empty files and file borders; every byte goes to its place in its file, although
  slices in front of it fail, streams hold writes back, and SIGINT ends the process
  without closing one.
- **Bencode and metainfo.** What is decoded is what was encoded, never a part of
  it; the text that is hashed is that of the info dict, which is looked for apart
  from the decoded one.
- **Trackers.** A tier keeps its trackers and its order; backoff counts what it
  says it counts; an announce returns, with the whole answer of the first tracker
  that gave one; each way out of a call closes what it opened.

## 2. The modules

    Torrent ──► VerifiedDownload            abstract: what the engine promises
       │              ▲ implements
       └──────► PieceManager ──► Session ──► SessionLive
                     │              │
          PieceManagerProofs ──► SessionProofs

    PeerWire ──► PeerWireProofs     TrackerTiers ──► TrackerTiersProofs

    FileMap ─────┬──► DiskStore ──► DiskStoreProofs
    PieceLayout ─┘

    UdpAnnounce ─────────────┬──► TierAnnounce ──► TierAnnounceProofs
    Bencode ──► HttpAnnounce ┘                          │
       │                              BencodeProofs ────┤  what the decoder reads
       ├──────► Metainfo ──────────► MetainfoProofs ◄───┘
       └──────► BencodeWriter        how documents are written, for MCTierAnnounce and MCMetainfo

`MC*` modules give the constants their values for TLC; those of `TierAnnounce` and
`Metainfo` take the writing of documents from `BencodeWriter`. Operators whose comment
starts with *Mutant* are faulty variants of the definition that follows them;
`PROJECT.json` says which property each one breaks. Nothing else uses them.

**Torrent** has the constants: the pieces, how many blocks each is cut into
(`init_active_piece`), what a block may contain and which contents have the
piece's hash. SHA-1 is the predicate `HashMatches`, of which nothing is assumed.

**PieceManager** is the piece engine. `active`, `bstate`, `data` and `count` are
`active_pieces_` spread over one function per field; `completed` is the picker's
vector. `create_next_request` is one of `RequestFromActive` (the scan of the open
pieces, whose order is that of an `unordered_map`, so any), `OpenPiece` (the
picker's lowest candidate, under the cap) and `NothingToRequest`; `process_block`
is one of `BlockIgnored`, `BlockStored`, `PieceVerified` and `PieceRejected`.

**VerifiedDownload** is the abstract specification: blocks are collected, each at
most once, and when the last one is in the piece is judged as a whole. It has no
requests, counters or slots. `PieceManager` implements it with `collected <-
data`; the content of the refinement is that the counter's "all blocks are in"
is the truth, and that nothing of a failed round survives.

**Session** composes the piece engine with one connection per peer and the file.
The thread is `Idle` between handlers; `request_next_blocks` is a loop of
`RequestNext` steps during which no handler starts. `Handshake` and `Lost` are
the connection's events, `Choke`, `Unchoke`, `Have`, `Bitfield` and `Piece` the
cases of `on_peer_message`. `owed[p]` is what the peer was asked and may still
send: it is how the model knows a courteous answer (`Answer`) from one nobody
asked for (`Stray`). `disk[b]` is the last content written for a block;
`FailedWrite` is a write that failed, which the code only logs. `CourteousSpec`
has neither stray blocks nor failing writes; `Spec` has both. The connection and
the loop are simpler here than they are; `PeerWire` is why that is right:
messages arrive whole and in order, and what is queued is sent.

**SessionLive** adds peers that behave as well as peers can, and one kind of
ordinary mishap at a time: blocks damaged on the way, or a seed that leaves while
another stays.

**PeerWire** is one connection on the loop, down to the byte: the thread goes
round `Poll`, `HandleWrite`, `HandleRead`, `ProcessHandshake`, `ParseMessage`
(one turn of the parse loop), and bytes arrive and leave between any two steps.
The peer writes its handshake and then, whenever it likes, one message after the
other (`PeerSends`). A byte is a digit below `Base` and a length prefix has four of
them, so that a parse that loses its place really reads a payload as a length;
`4 + length` is computed in the word of four digits, as in the code. `due` is history:
what the peer has written so far.

**FileMap** builds the list of files with `AddFile` and runs `map_block`, one
step per file. **PieceLayout** is the arithmetic of `init_active_piece`: which
blocks a torrent of a given size is cut into, in words of `Word` values.

**DiskStore** is the disk manager over both: `Register` is the constructor's
`add_file`, `WriteBlock` and `ReadBlock` are calls for a block of the layout or for
a range a peer made up, and the loops of the two go on slice by slice
(`OpenFile`, `WriteSlice`, `ReadSlice` and the ways in which each fails). The streams are
`std::fstream`: what is written may stay in the stream until the next seek,
and a stream that failed does nothing any more, because nobody clears it. The
process ends in order (`CloseAll`) or by the signal handler's `_Exit` (`Killed`),
between any two steps. A byte carries the call that wrote it and the position its
sender meant it for; `taken`, `last` and `written` are history. A slice given to a stream
that has failed is not `taken`: nothing is claimed of it, and it is lost.

**TrackerTiers** is the tracker manager. `TryTier` is the whole loop of `try_tier`,
including the reference to slot `i` that is used after the rotation; `announce` goes through
all tiers, `reannounce_if_due` through those whose first tracker is due. Intervals are what
a tracker sent, an `int32_t`, and may be negative: such a tracker is due at once and stays
so. `streak` and `lastOk` are history variables that the properties compare the code's own
variables with.

**UdpAnnounce** is `UdpTracker::announce`: the socket (`ConnectUdp`), then two exchanges of
up to four attempts with doubling timeouts over a network that loses, repeats and
reorders. `Rejected` is every reply that makes `do_connect` or `do_announce` throw.

**Bencode** is the value type and the decoder: the recursive descent, with the position each
value leaves behind, as a recursive function of the position and of what is parsed there, a
value or the rest of a list or dict. `pos + len` is the sum of two `size_t` (`SizeSum`,
modulo `SizeWord`), so that the end of a string may be in front of it and the descent need
not end. So the function has a third argument, how many more calls may be open: when that
exceeds the number of things there are to parse and places to parse them at, a call has come
back to where it was, and the result is `Endless`. `stoll`'s limit is by value (`LongMax`).
What it is compared with are documents: `Document`, `Written`, `Meant` are parameters, of
any depth, of which `DocumentAssumption` states the equations of the format, one for each
construct. **BencodeWriter** has recursive operators that satisfy them, and TLC is given
those. **HttpAnnounce** is `HttpTracker::announce`: the calls of `http_get`, each of which
may fail, a receive loop that ends at any place, or never for a tracker that goes on sending
(`Trickle`), and `parse_response` on what was received by then, which the thread may not
come out of (`http_step = "looping"`). **Metainfo** is `parse_torrent` on a file that may be
cut off anywhere or be followed by something; the text that is hashed stands for its hash.
`OutOfRange` are the documents with a number that `stoll` refuses, which are no torrents for
this program. Both name their fields with one character.

**TierAnnounce** is `try_tier` over the trackers it calls: `UdpAnnounce` and `HttpAnnounce`
run one after the other, as the order of the tier says, until one accepts. A tier is any
sequence of schemes, each as often as one likes; every announce starts from the initial
state (`NewAnnounce`), because it has a socket of its own. What the tier remembers of it is
`TrackerTiers`.

## 3. The runs

Runs that pass:

| run | instance | what it shows |
|---|---|---|
| `piece_manager` | 4 pieces of 2, 3, 1 and 0 blocks, 2 slots, 1 spare bit, good and corrupt blocks | the engine's invariants, and that it implements `VerifiedDownload` |
| `courteous` | 2 peers, pieces of 2 and 1 blocks, batches of 2 | no block is fetched twice (`OneOwner`); the file keeps the verified content (`VerifiedIntact`) |
| `any_peer` | the same, with stray blocks and failing writes | requests go to willing peers only, interest is declared, a request is lost only with the peer it was queued for |
| `seeds_finish` | 2 seeds, pieces of 2, 2 and 1 blocks, 2 damaged blocks | the download finishes, every request is answered |
| `peer_wire` | 3 scripts of messages, a right and a wrong handshake, reads of 7, room for 2 | messages whole and in order, none left behind, interest and poll set right, everything sent and handled |
| `disk_store` | up to 3 files of length 0, 1 or 3, pieces of 3, blocks of 2, 3 calls, 1 failure | the blocks tile the torrent, the slices their range; every byte in its place; a read returns the last write; of what a working stream was given, at most the last slice is lost; a torrent that was written and closed in order is whole |
| `tracker_tiers` | tiers of 3 and 1, 5 announces, intervals below zero and above the longest backoff | no tracker lost or doubled, order by last answer, the wait bounded over failures and rotations |
| `tier_announce` | tiers of two or three trackers (UDP, HTTP, another scheme), in several orders and with a scheme twice, the code's 4 attempts and timeouts, answers that accept, refuse, are malformed, are none, do not end or keep the decoder busy for ever | `try_tier` returns, in bounded time over UDP, with the whole answer of the first tracker that gave one, and nothing left open; it does not return only if an HTTP tracker goes on sending or sends what is not decoded to the end |
| `metainfo` | documents of both kinds of torrent and of what is none, cut at each character | what is decoded is the document, what is hashed its info dict, no torrent is refused |

Runs that find what a document says violated, each a finding in `PROJECT.json`:

| run | what the code does |
|---|---|
| `leave_stalls` | a peer that leaves takes its requested blocks with it: they stay `Requested`, another seed that has everything is not asked for them, and the download does not finish |
| `stray_overwrites` | blocks are written before they are verified: a late or unrequested block replaces verified content on disk |
| `tracker_streak` | after the rotation the wrong tracker's failures are cleared |

Smaller disagreements, met while modelling, that the modules show in their actions
but no run is spent on: a peer that chokes drops its requests and they too stay
`Requested` (`Choke`); a `Have` after the unchoke requests nothing, even when
nothing is outstanding (`Have`); a piece of length zero is opened although the log
says it is skipped (`OpenPiece`); `am_interested` stays false after a bitfield
(`Bitfield`); `announce` contacts every tier, whatever the ones before answered
(`Announce`); the last attempt of a UDP announce is sent 105 s after the connection
id came, which the header says expires after 60 s (`NextAttempt`); a second connect
reply, to an attempt that was only late, makes the announce fail (`Rejected`); a
comment that contains the text of the info key makes the torrent's hash that of
what follows it (`FindInfo`; `HashIsOfInfo` excepts it); nothing compares the number
of pieces with the size (`InfoGood`), and a length may be negative; a read past the
end of a file ends all writes to it (`ReadPastEnd`); an `https` tracker is spoken to
in plain HTTP, and the status of an answer is not looked at (`http_get`); intervals
are cut to 32 bits (`Int32`), and a negative one is taken (`Renewed`); the length of a string
may be so large that `pos + len` wraps, as in a tracker's answer `l18446744073709551595:`,
which is decoded for ever, although docs/CHANGELOGS.md:46 says "Added robust handling for
malformed input" (`ParseString`; `TierReturns` excepts it); a tracker that sends a byte now and
then keeps `http_get` as long as it likes, because the time-out is that of one `recv`
(`Trickle`; `TierReturns` excepts it); the session announces `left` as the sum of the files,
which is 0 for a torrent of one file, and gives the trackers of `announce-list` only
(session.cpp:17 and 29).

**Bounds, and why they are enough.** Two slots and four pieces make pieces wait
for slots and slots for pieces; one piece of three blocks has a middle block, one
of a single block is opened and judged at once, one of none is the odd case.
Batches of 2 (5 in the code) end in the middle of a piece and at its end. Two
peers are what the ownership of a block needs, and they are interchangeable, so
the safety runs use their symmetry (the liveness runs do not). `MaxMishaps` bounds
the damaged blocks: without a bound a block may be damaged each time and nothing
can finish; one seed that leaves is enough to stall. In `peer_wire` a read of seven
bytes holds the handshake with a message, or the end of one, a keep-alive and the
beginning of a third, and it takes as little as one byte; a reply is as long as the
room of the socket: each is cut and joined at every place. In `disk_store` the files
are shorter than a block, as long as a piece or empty, so that a block lies in up to three of
them and a piece ends inside one; three calls are a write, another over it and a
read, with one failure at any place, and cover a torrent of up to three blocks
whole. `MaxTime`, `Steps` and `MaxCalls`
bound the trackers' clock and calls: three answers suffice to reorder a tier of
three, and the fifth failure in a row reaches the backoff's cap. `LongestCall + 1` caps the
elapsed time of a UDP announce one above what `BoundedWait` allows. `SizeWord` is 200
there, more than twice the longest text, and one answer has a length that wraps.
The recv buffer of `tier_announce` is shorter than most answers. Where the files of
`metainfo` are cut is not bounded.

The type invariant of `PieceManager` is in a run; those of the other modules
(`SessionTypeOK`, `WireTypeOK`, `StoreTypeOK`, ...) are proved (§4) and in none.

`CHECK_DEADLOCK FALSE` is set where the program may really stop: all peers are
gone, the announce has returned, the clock has reached its bound.

**Fairness.** `SessionLive`: the loop in `request_next_blocks` continues because
it is running code; what a peer sends is received because the event loop serves
every readable socket in each round; that a seed finishes the handshake, announces,
unchokes and serves is what a seed is. Weak fairness suffices. `PeerWire`: the
thread runs, the network delivers, and the peer writes its messages and reads ours;
nothing is assumed of a peer that closes or resets.
`TierAnnounce`: the thread runs, time passes and the kernel ends a receive that
timed out. Nothing is assumed of the networks or the trackers, so the call need not
return: `TierReturns` says that it does, or that from some time on it is kept by an HTTP
tracker that goes on sending or by an answer that is decoded without end
(`NeverAnswers`). The parse of an
answer is a single step that is enabled as long as the thread is before it, and
its fairness is stated by the change of `http_step`. The other specifications
are safety only.

## 4. The proofs

All theorems are for every value of the constants that satisfies the named
assumptions: any number of pieces, blocks, peers, files, any cap and batch, any
hash predicate, any byte and buffer sizes. The assumptions are typing
(`TorrentAssumption`, `BatchAssumption`, `WireAssumption`, ...), that no block's
content is `NoData`, that a handshake is not empty, and that what a peer sends is
bytes, in messages whose length with the prefix fits in 32 bits (`ScriptAssumption`;
the parser adds the two in a `uint32_t`). `LayoutAssumption` says that rounding a piece
up to blocks stays within the word, which a piece length of nearly 4 GiB would not.
`DoublingAssumption` and `BackoffAssumption` state what the provers do not know of
powers of two, for the exponents that occur. `GarbageAssumption` says that the other
texts a tracker sends hold nothing good behind a header; `TierAssumption`, that a tier is
a sequence of schemes and not empty. Strings and answers are shorter than half of `size_t`'s
range (`Storable`, part of `DocumentAssumption` and `HttpAssumption`), as `std::string` is.
`CharAssumption` says that the characters with a meaning in
bencode are characters, and `DocumentAssumption` what a document is and how it is written:
it defines the format, and assumes nothing of the decoder. Like all assumptions, TLC
evaluates them in the runs, for the operators of `BencodeWriter`.

- **`PieceManagerProofs`.** The inductive invariant `PMInv` is the conjunction of
  the type invariant, `CounterAgrees`, `DataAgrees`, `OnlyOpenPiecesHoldBlocks`
  and `ActiveBounded`; `CounterAgrees` alone is not inductive, because a verdict
  clears a piece's blocks only if they are the piece's own, and a closed piece
  must hold none when it is opened again. One lemma per action shows each
  conjunct it can disturb; the cardinality of the downloaded blocks rises by one
  with a stored block and falls to zero with a reset. From `PMInv` follow the
  invariants, the action property `DiscardOnlyWholePieces` and the `Refinement`
  of `VerifiedDownload`: a stored block is a `Collect` since, by the counter,
  another block is missing; a verdict is a `Judge` since none is; all else
  stutters.
- **`SessionProofs`.** The session's steps are steps of the piece manager
  (`SessionRunsPieceManager`, a lemma), which carries `PMInv` over, and with it the abstract
  specification: a whole session implements `VerifiedDownload`, whatever peers and disk do
  (`SessionIsVerifiedDownload`). `WillingPeers` rests on the invariant that the request loop
  runs only for a connected peer that does not choke us. `RequestsLostWithTheirPeer`: what
  `create_next_request` marks is queued in the same turn of the loop, a block that came is
  `Requested` no more, whoever sent it, and nothing but a choke or a lost connection takes
  any other block off a peer's list. For courteous peers `CourteousInvariant` adds who owes
  what: `NoDoubleFetch`, and `DiskHoldsVerified`, whose invariant relates the disk to the
  content held in memory for every downloaded block.
- **`PeerWireProofs`.** `InterestIsRight` and `PollSetIsCurrent`. The strengthening
  is `ClosedIsIdle`: a handler that ran for a closed connection would register it
  again; none does, because a removed entry is out of the poll set before the
  next poll. `WireTypesHold` is the rest of the types. `NothingIsLeftBehind` needs to
  know of a thread that goes round without reading that it found nothing last time
  either (`Parsed`); what `Complete` computes does not matter. `MessagesArriveInOrder`
  is the framing: whatever TCP does, the handler has been given the messages of the
  peer, whole and in order. Its invariant `InOrder` says that what is in the read buffer
  with what is in flight is what is left of the handshake and the written messages that
  are not handled, and `Handler` that the thread parses for a connection of which the
  handshake is over, and waits for one of which it is not. What
  carries it are lemmas about the bytes: the four digits of a length give the length
  back, so the message in front of a buffer is complete exactly when its bytes are
  there, and dropping `Consumed` leaves those of the next; a connection that is closed
  by the peer in the middle of a message leaves a beginning of one, which never
  completes.
- **`DiskStoreProofs`.** For the file map, the loop invariant of `map_block`: the files
  are contiguous, and while something is left to map the next byte is not before the
  next file (`NotPast`). `Tiling` is that the slices are the range; `WholeRange`, that a
  range inside the torrent is mapped to its end. For the layout, `LayoutTiles`: the
  blocks hold each byte of the torrent once. It is division with a rest, twice, and the
  lemma that a remainder in the word is the number itself because the sizes fit. The
  number of pieces is the one the size gives: the code takes it from the hashes of the
  torrent file and compares it with nothing.
  The disk manager is in four layers. `StoreMapInv`: every step of it
  is a step of the file map or leaves it alone, so its loop invariant holds
  (`StoreSlices`), and the layout does for whatever was registered (`StoreLayout`).
  `CallInv`: types, and `data_offset` is the total of the slices gone by, so that the
  bytes of a slice are meant for where the slice begins (`StoreTypesHold`). `KeptInv`: for each
  file, what is on disk with what the stream holds is what the stream took, except
  inside the last slice; bytes are in place (`StoredInPlace`, `LossIsBounded`). `StoreInv`:
  what has been read or written by the call so far (`ReadsAreWrites`, and, because a
  block all of whose slices were taken covers its bytes, `WholeTorrentWritten`, which is
  about streams that are closed in order: a program ended with SIGINT does not do that, and
  may lose of each file what `LossIsBounded` allows).
- **`BencodeProofs`.** `DocumentsAreRead`: wherever the text of a document begins in a text,
  and whatever follows, `decode` gives what the document means and ends exactly behind it;
  it throws if the text is cut off in the document, or if a number in it is out of range.
  First, the descent is a function (`SomeDescent`: a call makes calls of which fewer may be
  open), and with more calls more is known, never something else (`MoreCallsKnowMore`). Each
  time one call more makes a difference, it settles at least one place, and there are fewer
  places than calls, so that in the end one more makes none (`CallsSuffice`): what is not
  settled by then never is, and each part is what its definition makes of the parts it calls
  (`PartsAt`). Then one lemma per construct (`IntReads`, `StrReads`, `ListReads`,
  `DictReads`), of which the last two are inductions over the items that are left, each in
  its cases: the text is there in full, or ends in the item, or in those behind it. As what
  is in a document has a shorter text, induction over the length of texts gives all
  documents. The library's induction theorems take a predicate as a parameter, which the
  provers cannot instantiate; here the induction is over a set of numbers (`Induction`),
  which is proved from the least element of its complement, and the predicate is a set that
  the lemma at hand defines.
- **`TierAnnounceProofs`.** For one UDP call: the time spent is at most the timeouts of
  the attempts so far (`WaitIsBounded`, by `2^0 + ... + 2^(n-1) = 2^n - 1`), and an
  announce reply is in the network only if the tracker gave one
  (`ResultsAreTheTrackers`). For `try_tier` over both kinds of call, the invariant
  `TierInv` puts together what each call keeps to itself (`UdpInv`; of the HTTP call
  `Handles`, the addresses and the socket at each step, `Progress`, that what was
  received is a beginning of what the tracker sent, and `GoodAnswersTaken`), which every
  new call begins with (`NewAnnounceKeeps`), and that those in front failed, one by one,
  and those behind were not contacted (`FirstAcceptanceCounts`, which is inductive with
  the types of the tier). An answer is
  good only if it is whole because `find` takes the header's end from a text that begins
  with it (`BodyIs`), so that the body is a beginning of the encoded answer, and the
  decoder throws on all but the last of those (`DecoderFacts`, from `DocumentsAreRead`;
  `GoodIsWhole`). From it:
  `FirstAcceptanceAlwaysCounts`, `AnswersAreWhole`, `GoodAnswersAreTaken`,
  `NothingStaysHeld`, and the two of the UDP call for each UDP call of a tier.
- **`MetainfoProofs`.** From `DocumentsAreRead`: the file is decoded as its document or
  not at all (`DocumentsAreDecoded`, for the whole file and for the decoding from the info
  dict on), the hash is that of the info dict (`HashesAreOfInfo`) and no torrent is refused
  (`TorrentsPass`). What `parse_torrent` adds is that the first
  occurrence of the key's text, if none is in front of the key, is the key (`InfoFound`),
  that the second decode starts at the info dict and the text between the two
  positions is its text, and that each way to throw is a field or a file that is not a
  torrent's (`ParseInv`, `FileInv`). Where the info dict is in the text of the whole, in
  front of any number of entries, is another induction (`InfoLies`).
- **`TrackerTiersProofs`.** The rotation is a permutation (`TrackersAreKept`) that puts
  the latest answer in front of a sorted tier (`RecentIsFirst`); the wait of the entry
  that the stale reference renews is bounded all the same (`NobodyIsForgotten`).

Only model-checked: all liveness (`TierReturns`, `EveryPieceCompletes`, `QueuedIsSent`,
`EverythingHandled` and the like; fairness and `ENABLED` are out of the prover's reach).
Every invariant and every safety property of the runs that pass is a theorem. That
the recursive operators of `BencodeWriter` satisfy `DocumentAssumption` is evaluated by
TLC for the documents of the runs and not proved: the prover does not take `RECURSIVE`.

## 5. Not modelled

SHA-1 and peer ids are sequential functions: a predicate, a text that stands for its
hash, and nothing. `UdpSocket` and `HttpTracker::scrape` are used by nobody, and the
DHT files are empty. The wake-up pipe and `stop` of the event loop matter only to
the signal handler, which ends the process before the loop could read the one or
look at the other; that the drain of the pipe would block is a hazard no run of
the program reaches. The query of an HTTP announce, what a UDP announce carries and
the wording of errors and logs are left out. A torrent of which two files have the
same path shares one stream between them; the model has one stream per file. Files
are taken to be empty at the start: a file left by an earlier run is longer, and
what was in it is read where nothing was written since. In `Session`, a block of
the wrong length is not told from one of the right length: whether a piece of the
wrong blocks has the right hash is `HashMatches`' affair.

## 6. Plan

Done: the piece engine with its abstraction and proofs, `Session` with its proofs
and liveness, `PeerWire`, the layout, the file map and the disk manager with
proofs, the trackers with proofs down to what an HTTP call returns, the decoder and the
torrent file with proofs for documents of any depth; the framing of messages for any
script, byte and buffer size.

Next, in this order:

1. `Swarm`: `PeerWire` for two connections on one loop, with `Session`'s handlers as
   the source of replies; a connection that is removed while the loop goes through
   the poll set.
2. The session with peers that collect pieces as they go: the stall of a `Have`
   after the unchoke.
3. `Session` over `DiskStore`: `VerifiedIntact` with torn writes and restarts.
4. Theorems: that `PeerWire` implements a channel that delivers messages in order, as
   an abstract specification; that the tier of `TierAnnounce` does to `TrackerTiers`'
   lists what `try_tier` does there.
