------------------------------- MODULE DiskStore -------------------------------
(***************************************************************************)
(* DiskManager (srcs/io/disk_manager.cpp) over FileMap: write_block and    *)
(* read_block map a range of the torrent to slices of files and go through *)
(* the slices, one step each, on streams that are opened once and kept.    *)
(*                                                                         *)
(* The streams are std::fstream, which is not part of the repository: what *)
(* is written may stay in the stream until the next seek, the next seek    *)
(* writes it out, and a stream that failed once does nothing any more      *)
(* (nobody calls clear()).  SIGINT ends the process between any two steps. *)
(*                                                                         *)
(* A byte is <<tag, g>>: the number of the call that wrote it, and the     *)
(* position of the torrent its sender meant it for.                        *)
(***************************************************************************)
EXTENDS FileMap, PieceLayout

CONSTANTS
    Ranges,                 \* blocks nobody asked for: <<piece, offset, length>>
    MaxCalls,               \* bound on the calls of write_block and read_block
    MaxFailures             \* bound on what goes wrong in the file system

ASSUME StoreAssumption ==
    /\ Ranges \subseteq Nat \X Nat \X Nat
    /\ MaxCalls \in Nat
    /\ MaxFailures \in Nat

VARIABLES
    stream,                 \* open_files_[f]: "unopened", "good" or "failed"
    disk,                   \* disk[f]: the bytes in file f
    pending,                \* pending[f]: the slices stream f has not written out
    call,                   \* the call under way, and whether no slice of it failed
    block,                  \* its arguments
    turn,                   \* slices it is done with
    data_offset,            \* its local of that name
    data,                   \* what read_block has read
    process,                \* "running", "closed" in order or "killed"
    calls, failures,        \* how many of each so far
    taken,                  \* history: taken[g], the last byte a stream took for g
    last,                   \* history: last[f], the last slice a working stream f got
    written                 \* history: blocks all of whose slices were taken

streams   == <<stream, disk, pending>>
progress  == <<call, block, turn, data_offset, data>>
history   == <<taken, last, written>>
storeVars == <<vars, streams, progress, process, calls, failures, history>>

Files    == 1 .. MaxFiles
Byte     == Nat \X Nat
FilePart == [file_offset : Nat, bytes : Seq(Byte)]
Zero     == <<0, 0>>
NoCall   == [kind |-> "none", tag |-> 0, intact |-> TRUE]
NoSlice  == [file_offset |-> 0, bytes |-> <<>>]

StoreInit ==
    /\ Init
    /\ stream = [f \in Files |-> "unopened"]
    /\ disk = [f \in Files |-> <<>>]
    /\ pending = [f \in Files |-> NoSlice]
    /\ call = NoCall
    /\ block = <<0, 0, 0>>
    /\ turn = 0
    /\ data_offset = 0
    /\ data = <<>>
    /\ process = "running"
    /\ calls = 0
    /\ failures = 0
    /\ taken = <<>>
    /\ last = [f \in Files |-> NoSlice]
    /\ written = {}

-----------------------------------------------------------------------------
\* Bytes and files.

\* The content s of a file after bytes b were written at offset o; a gap is zeros.
Splice(s, o, b) ==
    LET end == o + Len(b)
    IN  [i \in 1 .. IF Len(s) < end THEN end ELSE Len(s) |->
           IF i > o /\ i <= end THEN b[i - o] ELSE IF i \in DOMAIN s THEN s[i] ELSE Zero]

\* Mutant: a seek throws away what the stream holds.
FlushedNot(f) == disk[f]

\* File f when stream f has written out what it holds.
Flushed(f) ==
    IF pending[f].bytes = <<>> THEN disk[f]
    ELSE Splice(disk[f], pending[f].file_offset, pending[f].bytes)

Slice == slices[turn + 1]

\* The position of the torrent that byte i of the block's data, from 0, is for.
Position(i) == PieceStart(block[1]) + block[2] + i

\* Mutant: every slice takes its bytes from the start of the data.
SliceBytesFromStart == [i \in 1 .. Slice.size |-> <<call.tag, Position(i - 1)>>]

\* What write_block hands over for the slice: data from data_offset on.
SliceBytes == [i \in 1 .. Slice.size |-> <<call.tag, Position(data_offset + i - 1)>>]

WrittenSlice == [file_offset |-> Slice.file_offset, bytes |-> SliceBytes]

\* The content s of a file after a write of slice w that broke off.
BrokenOff(s, w) ==
    {IF n = 0 THEN s ELSE Splice(s, w.file_offset, SubSeq(w.bytes, 1, n))
       : n \in 0 .. Len(w.bytes) - 1}

-----------------------------------------------------------------------------
\* The two calls.

Idle == process = "running" /\ call.kind = "none"
InLoop(kind) ==
    /\ process = "running"
    /\ call.kind = kind
    /\ phase = "done"
    /\ turn < Len(slices)

\* The constructor registers the files.
Register(n) ==
    /\ Idle
    /\ AddFile(n)
    /\ UNCHANGED <<streams, progress, process, calls, failures, history>>

\* Mutant: the offset of the piece is left out.
GlobalOffsetInPiece(b) == b[2]

GlobalOffset(b) == b[1] * PieceLength + b[2]

\* write_block or read_block is called for block b, and calls map_block.
Begin(kind, b) ==
    /\ Idle
    /\ calls < MaxCalls
    /\ MapBlock(GlobalOffset(b), b[3])
    /\ call' = [kind |-> kind, tag |-> calls + 1, intact |-> TRUE]
    /\ block' = b
    /\ turn' = 0
    /\ data_offset' = 0
    /\ data' = <<>>
    /\ calls' = calls + 1
    /\ UNCHANGED <<streams, process, failures, history>>

WriteBlock(b) == Begin("write", b)
ReadBlock(b)  == Begin("read", b)

\* map_block.
Map ==
    /\ process = "running"
    /\ VisitFile \/ Return
    /\ UNCHANGED <<streams, progress, process, calls, failures, history>>

\* Mutant: data_offset stays.
NextSliceOnly ==
    /\ turn' = turn + 1
    /\ UNCHANGED <<data_offset, block>>

\* The loop goes on to the next slice.
NextSlice ==
    /\ turn' = turn + 1
    /\ data_offset' = data_offset + Slice.size
    /\ UNCHANGED block

\* The call is over, and its locals with it.
EndCall ==
    /\ call' = NoCall
    /\ block' = <<0, 0, 0>>
    /\ turn' = 0
    /\ data_offset' = 0
    /\ data' = <<>>

Failure == failures < MaxFailures /\ failures' = failures + 1

\* get_or_open_file opens the file of the slice; the stream is kept, working or not.
OpenFile(kind) ==
    /\ InLoop(kind)
    /\ stream[Slice.file] = "unopened"
    /\ \/ stream' = [stream EXCEPT ![Slice.file] = "good"] /\ UNCHANGED failures
       \/ stream' = [stream EXCEPT ![Slice.file] = "failed"] /\ Failure
    /\ UNCHANGED <<vars, disk, pending, progress, process, calls, history>>

\* fs::create_directories throws, out of write_block or read_block.
OpenThrows(kind) ==
    /\ InLoop(kind)
    /\ stream[Slice.file] = "unopened"
    /\ Failure
    /\ EndCall
    /\ UNCHANGED <<vars, streams, process, calls, history>>

\* seekp and write on a stream that works: what it held goes to the file; what it
\* gets goes to the file too, or stays with it.
WriteSlice ==
    LET f == Slice.file
        w == WrittenSlice
        positions == {Position(data_offset + i - 1) : i \in 1 .. Slice.size}
    IN  /\ InLoop("write")
        /\ stream[f] = "good"
        /\ \/ /\ disk' = [disk EXCEPT ![f] = Splice(Flushed(f), w.file_offset, w.bytes)]
              /\ pending' = [pending EXCEPT ![f] = NoSlice]
           \/ /\ disk' = [disk EXCEPT ![f] = Flushed(f)]
              /\ pending' = [pending EXCEPT ![f] = w]
        /\ taken' = [g \in DOMAIN taken \cup positions |->
                       IF g \in positions THEN <<call.tag, g>> ELSE taken[g]]
        /\ last' = [last EXCEPT ![f] = w]
        /\ NextSlice
        /\ UNCHANGED <<vars, stream, call, data, process, calls, failures, written>>

\* The stream of file f fails and leaves content in the file.
StreamFails(f, content) ==
    /\ disk' = [disk EXCEPT ![f] = content]
    /\ pending' = [pending EXCEPT ![f] = NoSlice]
    /\ stream' = [stream EXCEPT ![f] = "failed"]

\* The seek cannot write out what the stream held, or the write fails: part of it
\* is in the file, the stream has failed, and the loop goes on.
WriteSliceFails ==
    LET f == Slice.file
        w == WrittenSlice
    IN  /\ InLoop("write")
        /\ stream[f] = "good"
        /\ Failure
        /\ \/ /\ \E c \in BrokenOff(disk[f], pending[f]) : StreamFails(f, c)
              /\ UNCHANGED last
           \/ /\ \E c \in BrokenOff(Flushed(f), w) : StreamFails(f, c)
              /\ last' = [last EXCEPT ![f] = w]
        /\ call' = [call EXCEPT !.intact = FALSE]
        /\ NextSlice
        /\ UNCHANGED <<vars, data, process, calls, taken, written>>

\* "WRITE FAILED": a stream that has failed drops the slice, and the loop goes on.
WriteSliceDropped ==
    /\ InLoop("write")
    /\ stream[Slice.file] = "failed"
    /\ call' = [call EXCEPT !.intact = FALSE]
    /\ NextSlice
    /\ UNCHANGED <<vars, streams, data, process, calls, failures, history>>

\* seekg and read on a stream that works.
ReadSlice ==
    LET f == Slice.file
    IN  /\ InLoop("read")
        /\ stream[f] = "good"
        /\ Slice.file_offset + Slice.size <= Len(Flushed(f))
        /\ data' = data \o SubSeq(Flushed(f), Slice.file_offset + 1,
                                  Slice.file_offset + Slice.size)
        /\ disk' = [disk EXCEPT ![f] = Flushed(f)]
        /\ pending' = [pending EXCEPT ![f] = NoSlice]
        /\ NextSlice
        /\ UNCHANGED <<vars, stream, call, process, calls, failures, history>>

\* seekg cannot write out what the stream held.
ReadSeekFails ==
    /\ InLoop("read")
    /\ stream[Slice.file] = "good"
    /\ Failure
    /\ \E c \in BrokenOff(disk[Slice.file], pending[Slice.file]) : StreamFails(Slice.file, c)
    /\ EndCall
    /\ UNCHANGED <<vars, process, calls, history>>

\* The file is too short: the stream has reached its end, which is a failure like
\* any other, and stays.
ReadPastEnd ==
    /\ InLoop("read")
    /\ stream[Slice.file] = "good"
    /\ Slice.file_offset + Slice.size > Len(Flushed(Slice.file))
    /\ StreamFails(Slice.file, Flushed(Slice.file))
    /\ EndCall
    /\ UNCHANGED <<vars, process, calls, failures, history>>

\* "Failed to read from file": the stream had failed before.
ReadSliceFails ==
    /\ InLoop("read")
    /\ stream[Slice.file] = "failed"
    /\ EndCall
    /\ UNCHANGED <<vars, streams, process, calls, failures, history>>

\* The loop is through.
Finish ==
    /\ process = "running"
    /\ call.kind # "none"
    /\ phase = "done"
    /\ turn = Len(slices)
    /\ EndCall
    /\ written' = IF call.kind = "write" /\ call.intact THEN written \cup {block} ELSE written
    /\ UNCHANGED <<vars, streams, process, calls, failures, taken, last>>

\* ~DiskManager closes the streams, which write out what they hold.
CloseAll ==
    /\ Idle
    /\ process' = "closed"
    /\ disk' = [f \in Files |-> Flushed(f)]
    /\ pending' = [f \in Files |-> NoSlice]
    /\ UNCHANGED <<vars, stream, progress, calls, failures, history>>

\* handle_sigint ends in _Exit: no stream is closed.
Killed ==
    /\ process = "running"
    /\ process' = "killed"
    /\ pending' = [f \in Files |-> NoSlice]
    /\ UNCHANGED <<vars, stream, disk, progress, calls, failures, history>>

StoreNext ==
    \/ \E n \in Lengths : Register(n)
    \/ \E b \in Blocks(total_size) \cup Ranges : WriteBlock(b) \/ ReadBlock(b)
    \/ Map
    \/ \E kind \in {"write", "read"} : OpenFile(kind) \/ OpenThrows(kind)
    \/ WriteSlice \/ WriteSliceFails \/ WriteSliceDropped
    \/ ReadSlice \/ ReadSeekFails \/ ReadPastEnd \/ ReadSliceFails
    \/ Finish
    \/ CloseAll \/ Killed

StoreSpec == StoreInit /\ [][StoreNext]_storeVars

-----------------------------------------------------------------------------
\* The types of the variables; only a stream that works holds anything.
StoreTypeOK ==
    /\ stream \in [Files -> {"unopened", "good", "failed"}]
    /\ disk \in [Files -> Seq(Byte)]
    /\ pending \in [Files -> FilePart]
    /\ last \in [Files -> FilePart]
    /\ \A f \in Files : stream[f] # "good" => pending[f] = NoSlice
    /\ call \in [kind : {"none", "write", "read"}, tag : Nat, intact : BOOLEAN]
    /\ block \in Nat \X Nat \X Nat
    /\ turn \in 0 .. Len(slices)
    /\ data_offset \in Nat
    /\ data \in Seq(Byte)
    /\ process \in {"running", "closed", "killed"}
    /\ calls \in 0 .. MaxCalls
    /\ failures \in 0 .. MaxFailures
    /\ written \subseteq Nat \X Nat \X Nat

\* Whatever is in a file is where its sender meant it to be, and inside the file:
\* over file borders, empty files, slices that failed or were dropped in the middle
\* of a block (data_offset moves on), torn writes and blocks nobody asked for.
BytesInPlace ==
    \A f \in DOMAIN files :
        /\ Len(disk[f]) <= files[f].length
        /\ \A i \in DOMAIN disk[f] :
              disk[f][i] # Zero => disk[f][i][2] = files[f].global_offset + i - 1

\* A file differs from what its stream took only inside the last slice a working
\* stream was given: of what was taken, that much and no earlier block is what a full
\* disk, a stream that fails or the _Exit of handle_sigint can cost.  What a stream is
\* given after it failed is not taken, and is lost.
OnlyLastSliceAtRisk ==
    \A f \in DOMAIN files : \A o \in 0 .. files[f].length - 1 :
        LET g == files[f].global_offset + o
            onDisk == IF o + 1 \in DOMAIN disk[f] THEN disk[f][o + 1] ELSE Zero
        IN  onDisk # (IF g \in DOMAIN taken THEN taken[g] ELSE Zero) =>
              o >= last[f].file_offset /\ o < last[f].file_offset + Len(last[f].bytes)

\* What read_block has read so far is what write_block was last given for those
\* bytes, whether it reached the file or was still in the stream.
ReadIsLastWrite ==
    call.kind = "read" =>
        data = [i \in 1 .. data_offset |->
                  LET g == Position(i - 1) IN IF g \in DOMAIN taken THEN taken[g] ELSE Zero]

\* The blocks init_active_piece makes cover every byte of the torrent, and none of
\* them twice, whatever the lengths of the files, the cut of the last piece and the
\* cut of the last block of a piece are.  A torrent has the pieces its size gives, which
\* the code does not check, and a piece length that LayoutAssumption allows.
BlocksTileTorrent ==
    LET blocks == Blocks(total_size)
    IN  /\ UNION {BytesOf(b) : b \in blocks} = 0 .. total_size - 1
        /\ \A b, c \in blocks : b # c => BytesOf(b) \cap BytesOf(c) = {}
        /\ \A b \in blocks : b[3] \in 1 .. BlockSize

\* When every block of the torrent was written and the streams are closed in order (no
\* SIGINT) and without having failed, every file is there to its last byte, with the
\* right data: the layout of init_active_piece, the file map and the streams fit together.
WrittenTorrentIsWhole ==
    /\ Blocks(total_size) \subseteq written
    /\ process = "closed"
    /\ \A f \in Files : stream[f] # "failed"
    => \A f \in DOMAIN files :
          /\ Len(disk[f]) = files[f].length
          /\ \A i \in DOMAIN disk[f] : disk[f][i] = taken[files[f].global_offset + i - 1]
=============================================================================
