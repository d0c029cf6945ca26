-------------------------------- MODULE FileMap --------------------------------
(***************************************************************************)
(* FileMap (srcs/io/file_map.cpp): the files of a torrent laid end to end  *)
(* in one stream of bytes, and map_block, which cuts a range of the stream *)
(* into slices of files.  DiskManager::write_block and read_block go       *)
(* through the slices in order and advance in their data by the size of    *)
(* each, so the slices must be the range itself, in order.                 *)
(*                                                                         *)
(* add_file is called for every file when the session is made; map_block   *)
(* for every block after that.  Its loop takes one step per file.          *)
(***************************************************************************)
EXTENDS Integers, Sequences

CONSTANTS
    Lengths,                \* lengths files can have
    MaxFiles,               \* bound on the number of files
    MaxBlock                \* bound on the length of a range

ASSUME FileMapAssumption ==
    /\ Lengths \subseteq Nat
    /\ MaxFiles \in Nat
    /\ MaxBlock \in Nat

VARIABLES
    files,                  \* files_: length and global_offset of each
    total_size,             \* total_size_
    phase,                  \* "adding" files, "mapping" a block, or "done"
    global_offset,          \* the arguments of map_block
    length,
    current_offset,         \* its locals
    bytes_left,
    visited,                \* files the loop has gone past
    slices                  \* the result so far

args   == <<global_offset, length>>
locals == <<current_offset, bytes_left, visited, slices>>
vars   == <<files, total_size, phase, args, locals>>

FileEntry == [length : Nat, global_offset : Nat]
FileSlice == [file : Nat \ {0}, file_offset : Nat, size : Nat]

Init ==
    /\ files = <<>>
    /\ total_size = 0
    /\ phase = "adding"
    /\ global_offset = 0
    /\ length = 0
    /\ current_offset = 0
    /\ bytes_left = 0
    /\ visited = 0
    /\ slices = <<>>

\* add_file.
AddFile(n) ==
    /\ phase = "adding"
    /\ Len(files) < MaxFiles
    /\ files' = Append(files, [length |-> n, global_offset |-> total_size])
    /\ total_size' = total_size + n
    /\ UNCHANGED <<phase, args, locals>>

\* map_block is called.
MapBlock(g, n) ==
    /\ phase # "mapping"
    /\ phase' = "mapping"
    /\ global_offset' = g
    /\ length' = n
    /\ current_offset' = g
    /\ bytes_left' = n
    /\ visited' = 0
    /\ slices' = <<>>
    /\ UNCHANGED <<files, total_size>>

Lesser(x, y) == IF x < y THEN x ELSE y

\* Mutant: the last byte of a file is taken to belong to the next one.
HoldsShort(f) ==
    /\ current_offset >= f.global_offset
    /\ current_offset < f.global_offset + f.length - 1

\* current_offset lies in file f.
Holds(f) ==
    /\ current_offset >= f.global_offset
    /\ current_offset < f.global_offset + f.length

OffsetInFile(f) == current_offset - f.global_offset

\* Mutant: the slice may be as long as the file, wherever it starts.
BytesInFileWhole(f) == Lesser(bytes_left, f.length)

BytesInFile(f) == Lesser(bytes_left, f.length - OffsetInFile(f))

\* One turn of the loop.
VisitFile ==
    /\ phase = "mapping"
    /\ visited < Len(files)
    /\ bytes_left # 0
    /\ LET f == files[visited + 1]
           n == BytesInFile(f)
       IN  IF Holds(f)
             THEN /\ slices' = Append(slices, [file        |-> visited + 1,
                                               file_offset |-> OffsetInFile(f),
                                               size        |-> n])
                  /\ current_offset' = current_offset + n
                  /\ bytes_left' = bytes_left - n
             ELSE UNCHANGED <<slices, current_offset, bytes_left>>
    /\ visited' = visited + 1
    /\ UNCHANGED <<files, total_size, phase, args>>

Return ==
    /\ phase = "mapping"
    /\ visited = Len(files) \/ bytes_left = 0
    /\ phase' = "done"
    /\ UNCHANGED <<files, total_size, args, locals>>

Next ==
    \/ \E n \in Lengths : AddFile(n)
    \/ \E g \in 0 .. total_size, n \in 0 .. MaxBlock : MapBlock(g, n)
    \/ VisitFile
    \/ Return

Spec == Init /\ [][Next]_vars

-----------------------------------------------------------------------------
\* The types of the variables.
FileMapTypeOK ==
    /\ files \in Seq(FileEntry)
    /\ total_size \in Nat
    /\ phase \in {"adding", "mapping", "done"}
    /\ global_offset \in Nat
    /\ length \in Nat
    /\ current_offset \in Nat
    /\ bytes_left \in Nat
    /\ visited \in 0 .. Len(files)
    /\ slices \in Seq(FileSlice)

\* Where a slice begins and ends in the stream.
SliceStart(s) == files[s.file].global_offset + s.file_offset
SliceEnd(s)   == SliceStart(s) + s.size

\* Where slice k of the result has to begin.
Expected(k) == IF k = 1 THEN global_offset ELSE SliceEnd(slices[k - 1])

\* The slices are the range from global_offset on, without gap, overlap or
\* empty slice, each inside its file; what they hold and what is left make up
\* the length asked for.  Files of length zero and ranges across several files
\* are where this goes wrong.
SlicesTile ==
    /\ \A k \in DOMAIN slices :
          /\ SliceStart(slices[k]) = Expected(k)
          /\ slices[k].size > 0
          /\ slices[k].file \in DOMAIN files
          /\ slices[k].file_offset + slices[k].size <= files[slices[k].file].length
    /\ current_offset = Expected(Len(slices) + 1)
    /\ current_offset + bytes_left = global_offset + length

\* A range inside the torrent is mapped to its last byte: write_block, which
\* takes whatever slices it gets, loses no part of such a block.
WholeRangeMapped ==
    phase = "done" /\ global_offset + length <= total_size => bytes_left = 0
=============================================================================
