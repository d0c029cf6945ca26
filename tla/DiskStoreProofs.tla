---------------------------- MODULE DiskStoreProofs ----------------------------
(***************************************************************************)
(* Where the bytes of a torrent are, in its files and in its pieces, and   *)
(* what DiskManager stores there: for every list of files, every size of   *)
(* pieces and blocks, and every sequence of calls, failures and kills.     *)
(*                                                                         *)
(* map_block is right for every list of files and every range.  The        *)
(* argument is the loop invariant: the files are contiguous (FilesLaid and *)
(* StartOf), so while something is left to map, the next byte to map is    *)
(* not before the next file to visit (NotPast).  Then the file either      *)
(* holds that byte, or ends before it.                                     *)
(*                                                                         *)
(* The blocks of init_active_piece tile the torrent, for every piece       *)
(* length, block size, word and total size that LayoutAssumption allows: a *)
(* byte g is in piece g \div PieceLength, and in that piece in the block   *)
(* its offset divided by BlockSize; both quotients are unique, and none of *)
(* the 32 bit casts changes the value it is applied to.                    *)
(***************************************************************************)
EXTENDS DiskStore, SequenceTheorems, TLAPS

\* Where file k of fs begins; one past the last file, the end of the stream.
StartIn(fs, total, k) == IF k = Len(fs) + 1 THEN total ELSE fs[k].global_offset
StartOf(k) == StartIn(files, total_size, k)

\* The files are laid end to end from 0.
FilesLaid ==
    /\ StartOf(1) = 0
    /\ \A k \in 1 .. Len(files) : StartOf(k + 1) = files[k].global_offset + files[k].length

\* The loop has not gone past the byte it is looking for.
NotPast == phase = "mapping" /\ bytes_left > 0 => current_offset >= StartOf(visited + 1)

\* Nothing has been mapped before the first call.
Untouched == phase = "adding" => slices = <<>> /\ visited = 0

\* When the loop ends with bytes left, the range left the torrent.
Exhausted == phase = "done" /\ bytes_left > 0 => current_offset >= total_size

MapInv ==
    /\ FileMapTypeOK
    /\ FilesLaid
    /\ NotPast
    /\ Untouched
    /\ Exhausted
    /\ SlicesTile

LEMMA MapInit == Init => MapInv
<1> SUFFICES ASSUME Init PROVE MapInv
  OBVIOUS
<1>1. FileMapTypeOK
  BY DEF Init, FileMapTypeOK
<1>2. FilesLaid /\ NotPast /\ Untouched /\ Exhausted
  BY DEF Init, FilesLaid, StartOf, StartIn, NotPast, Untouched, Exhausted
<1>3. SlicesTile
  BY DEF Init, SlicesTile, Expected
<1> QED
  BY <1>1, <1>2, <1>3 DEF MapInv

\* The files list only grows, and only before the first call.
LEMMA AddFileMap == ASSUME MapInv, NEW n \in Lengths, AddFile(n) PROVE MapInv'
<1> DEFINE f == [length |-> n, global_offset |-> total_size]
<1>1. /\ n \in Nat /\ f \in FileEntry
      /\ files \in Seq(FileEntry) /\ total_size \in Nat
      /\ files' = Append(files, f) /\ total_size' = total_size + n
  BY FileMapAssumption DEF MapInv, FileMapTypeOK, AddFile, FileEntry
<1>2. /\ Len(files') = Len(files) + 1
      /\ files'[Len(files) + 1] = f
      /\ \A k \in 1 .. Len(files) : files'[k] = files[k]
  BY <1>1
<1>3. UNCHANGED <<phase, args, locals>> /\ phase = "adding"
  BY DEF AddFile
<1>4. FileMapTypeOK'
  BY <1>1, <1>2, <1>3 DEF MapInv, FileMapTypeOK, args, locals
<1>5. FilesLaid'
  <2> DEFINE L == Len(files)
         Start(k) == StartIn(files', total_size', k)
  <2>0. L \in Nat
    BY <1>1
  <2>1. \A k \in 1 .. L + 1 : Start(k) = StartOf(k)
    BY <1>1, <1>2, <2>0 DEF StartOf, StartIn
  <2>2. Start(L + 2) = total_size + n
    BY <1>1, <1>2, <2>0 DEF StartIn
  <2>3. \A k \in 1 .. L : Start(k + 1) = files'[k].global_offset + files'[k].length
    BY <1>2, <2>0, <2>1 DEF MapInv, FilesLaid
  <2>4. Start(L + 2) = files'[L + 1].global_offset + files'[L + 1].length
    BY <1>1, <1>2, <2>2
  <2>5. Start(1) = 0
    BY <2>0, <2>1 DEF MapInv, FilesLaid
  <2>6. \A k \in 1 .. L + 1 : Start(k + 1) = files'[k].global_offset + files'[k].length
    BY <2>0, <2>3, <2>4
  <2> QED
    BY <1>2, <2>0, <2>5, <2>6 DEF FilesLaid, StartOf
<1>6. NotPast' /\ Untouched' /\ Exhausted'
  BY <1>3 DEF MapInv, NotPast, Untouched, Exhausted, locals
<1>7. SlicesTile'
  BY <1>3 DEF MapInv, Untouched, SlicesTile, Expected, args, locals
<1> QED
  BY <1>4, <1>5, <1>6, <1>7 DEF MapInv

\* A call starts the loop at the first file.
LEMMA MapBlockMap ==
    ASSUME MapInv, NEW g \in Nat, NEW n \in Nat, MapBlock(g, n)
    PROVE  MapInv'
<1>2. FileMapTypeOK'
  BY DEF MapInv, FileMapTypeOK, MapBlock
<1>3. FilesLaid'
  BY DEF MapInv, FilesLaid, StartOf, StartIn, MapBlock
<1>4. NotPast' /\ Untouched' /\ Exhausted'
  <2>1. StartOf(1)' = 0
    BY <1>3 DEF FilesLaid
  <2> QED
    BY <2>1 DEF NotPast, Untouched, Exhausted, MapBlock
<1>5. SlicesTile'
  BY DEF SlicesTile, Expected, MapBlock
<1> QED
  BY <1>2, <1>3, <1>4, <1>5 DEF MapInv

\* A file that holds the next byte gives a slice up to its end or to the end of
\* the range; a file that does not ends before it.
LEMMA VisitFileMap == ASSUME MapInv, VisitFile PROVE MapInv'
<1> DEFINE k == visited + 1
           f == files[k]
           n == BytesInFile(f)
           s == [file |-> k, file_offset |-> OffsetInFile(f), size |-> n]
<1>1. /\ visited \in Nat /\ Len(files) \in Nat /\ k \in 1 .. Len(files)
      /\ f \in FileEntry /\ f.length \in Nat /\ f.global_offset \in Nat
      /\ current_offset \in Nat /\ bytes_left \in Nat /\ bytes_left > 0
      /\ phase = "mapping" /\ phase' = "mapping" /\ visited' = visited + 1
      /\ UNCHANGED <<files, total_size, global_offset, length>>
      /\ slices \in Seq(FileSlice) /\ Len(slices) \in Nat
      /\ global_offset \in Nat /\ length \in Nat
  <2>1. /\ phase = "mapping" /\ visited < Len(files) /\ bytes_left # 0
        /\ visited' = visited + 1
        /\ UNCHANGED <<files, total_size, phase, global_offset, length>>
    BY DEF VisitFile, args
  <2>2. FileMapTypeOK /\ Len(files) \in Nat /\ Len(slices) \in Nat
    BY DEF MapInv, FileMapTypeOK
  <2>3. visited \in Nat /\ k \in 1 .. Len(files)
    BY <2>1, <2>2 DEF FileMapTypeOK
  <2>4. f \in FileEntry
    BY <2>2, <2>3 DEF FileMapTypeOK
  <2> QED
    BY <2>1, <2>2, <2>3, <2>4 DEF FileMapTypeOK, FileEntry
<1>2. StartOf(k) = f.global_offset /\ StartOf(k + 1) = f.global_offset + f.length
  BY <1>1 DEF MapInv, FilesLaid, StartOf, StartIn
<1>3. current_offset >= f.global_offset
  BY <1>1, <1>2 DEF MapInv, NotPast
<1>4. FilesLaid' /\ Untouched' /\ Exhausted'
  BY <1>1 DEF MapInv, FilesLaid, StartOf, StartIn, Untouched, Exhausted
<1>5. StartIn(files', total_size', visited' + 1) = StartOf(k + 1)
  BY <1>1 DEF StartOf
<1>6. CASE ~Holds(f)
  <2>1. UNCHANGED <<slices, current_offset, bytes_left>>
    BY <1>6 DEF VisitFile
  <2>2. current_offset >= f.global_offset + f.length
    BY <1>1, <1>3, <1>6 DEF Holds
  <2>3. NotPast'
    BY <1>1, <1>2, <1>5, <2>1, <2>2 DEF NotPast, StartOf
  <2>4. FileMapTypeOK'
    BY <1>1, <2>1 DEF MapInv, FileMapTypeOK
  <2>5. SlicesTile'
    BY <1>1, <2>1 DEF MapInv, SlicesTile, Expected, SliceEnd, SliceStart
  <2> QED
    BY <1>4, <2>3, <2>4, <2>5 DEF MapInv
<1>7. CASE Holds(f)
  <2>1. /\ slices' = Append(slices, s)
        /\ current_offset' = current_offset + n
        /\ bytes_left' = bytes_left - n
    BY <1>7 DEF VisitFile
  <2>2. /\ OffsetInFile(f) \in Nat
        /\ f.global_offset + OffsetInFile(f) = current_offset
        /\ n \in Nat /\ n > 0 /\ n <= bytes_left
        /\ OffsetInFile(f) + n <= f.length
        /\ n < bytes_left => OffsetInFile(f) + n = f.length
    <3>1. /\ OffsetInFile(f) = current_offset - f.global_offset
          /\ current_offset >= f.global_offset
          /\ current_offset < f.global_offset + f.length
      BY <1>7 DEF Holds, OffsetInFile
    <3>2. /\ OffsetInFile(f) \in Nat
          /\ f.global_offset + OffsetInFile(f) = current_offset
          /\ OffsetInFile(f) < f.length
      BY <1>1, <3>1
    <3> DEFINE rest == f.length - OffsetInFile(f)
    <3>3. rest \in Nat /\ rest > 0 /\ OffsetInFile(f) + rest = f.length
      BY <1>1, <3>2
    <3>4. n = IF bytes_left < rest THEN bytes_left ELSE rest
      BY DEF BytesInFile, Lesser
    <3> HIDE DEF n, rest, f
    <3> QED
      BY <1>1, <3>2, <3>3, <3>4
  <2>3. s \in FileSlice
    BY <1>1, <2>2 DEF FileSlice
  <2>4. /\ slices' \in Seq(FileSlice)
        /\ Len(slices') = Len(slices) + 1
        /\ slices'[Len(slices) + 1] = s
        /\ \A j \in 1 .. Len(slices) : slices'[j] = slices[j]
    BY <1>1, <2>1, <2>3
  <2>5. FileMapTypeOK'
    <3>1. current_offset' \in Nat /\ bytes_left' \in Nat
      BY <1>1, <2>1, <2>2, SMTT(30)
    <3>2. visited' \in 0 .. Len(files)
      BY <1>1
    <3>3. FileMapTypeOK
      BY DEF MapInv
    <3> HIDE DEF s, n, f, k
    <3> QED
      BY <1>1, <2>4, <3>1, <3>2, <3>3 DEF FileMapTypeOK
  <2>6. NotPast'
    <3>1. StartOf(visited + 1)' = f.global_offset + f.length
      BY <1>2, <1>5, <1>1 DEF StartOf
    <3>2. current_offset' = f.global_offset + OffsetInFile(f) + n
      BY <2>1, <2>2
    <3>3. n = bytes_left \/ current_offset' = f.global_offset + f.length
      BY <1>1, <2>2, <3>2
    <3> HIDE DEF n, f, k
    <3> QED
      BY <1>1, <2>1, <2>2, <3>1, <3>3 DEF NotPast
  <2>7. LET newest == slices'[Len(slices) + 1]
        IN  files'[newest.file].global_offset + newest.file_offset = current_offset
    BY <1>1, <2>2, <2>4
  <2>8. \A j \in 1 .. Len(slices) + 1 : Expected(j)' = Expected(j)
    <3> SUFFICES ASSUME NEW j \in 1 .. Len(slices) + 1 PROVE Expected(j)' = Expected(j)
      OBVIOUS
    <3>1. CASE j = 1
      BY <1>1, <3>1 DEF Expected
    <3>2. CASE j # 1
      <4>1. slices'[j - 1] = slices[j - 1]
        BY <1>1, <2>4, <3>2, SMTT(30)
      <4> QED
        BY <1>1, <3>2, <4>1 DEF Expected, SliceEnd, SliceStart
    <3> QED
      BY <3>1, <3>2
  <2>9. current_offset = Expected(Len(slices) + 1)
    BY DEF MapInv, SlicesTile
  <2>10. \A j \in 1 .. Len(slices) + 1 :
            /\ SliceStart(slices[j])' = Expected(j)'
            /\ slices'[j].size > 0
            /\ slices'[j].file \in DOMAIN files
            /\ slices'[j].file_offset + slices'[j].size <= files[slices'[j].file].length
    <3> SUFFICES ASSUME NEW j \in 1 .. Len(slices) + 1
                 PROVE  /\ SliceStart(slices[j])' = Expected(j)'
                        /\ slices'[j].size > 0
                        /\ slices'[j].file \in DOMAIN files
                        /\ slices'[j].file_offset + slices'[j].size
                              <= files[slices'[j].file].length
      OBVIOUS
    <3>1. CASE j = Len(slices) + 1
      <4>1. slices'[j] = s
        BY <2>4, <3>1
      <4>2. SliceStart(slices[j])' = Expected(j)'
        BY <2>7, <2>8, <2>9, <3>1 DEF SliceStart
      <4> QED
        BY <1>1, <2>2, <4>1, <4>2
    <3>2. CASE j # Len(slices) + 1
      <4>1. j \in 1 .. Len(slices) /\ j \in DOMAIN slices
        BY <1>1, <3>2
      <4>2. slices'[j] = slices[j]
        BY <2>4, <4>1
      <4>3. SliceStart(slices[j])' = SliceStart(slices[j])
        BY <1>1, <4>2 DEF SliceStart
      <4> QED
        BY <1>1, <2>8, <4>1, <4>2, <4>3 DEF MapInv, SlicesTile
    <3> QED
      BY <3>1, <3>2
  <2>11. Expected(Len(slices) + 1)' = current_offset'
    <3>1. /\ Len(slices') + 1 # 1
          /\ (Len(slices') + 1) - 1 = Len(slices) + 1
          /\ slices'[Len(slices) + 1].size = n
      BY <1>1, <2>4
    <3>2. Expected(Len(slices) + 1)' = SliceEnd(slices[Len(slices) + 1 - 1])'
      BY <3>1 DEF Expected
    <3>3. SliceEnd(slices[Len(slices) + 1 - 1])' = current_offset + n
      BY <2>7, <3>1 DEF SliceEnd, SliceStart
    <3> QED
      BY <2>1, <3>2, <3>3
  <2>12. (current_offset + bytes_left = global_offset + length)'
    BY <1>1, <2>1, <2>2 DEF MapInv, SlicesTile
  <2>13. SlicesTile'
    <3>1. DOMAIN slices' = 1 .. Len(slices) + 1
      BY <1>1, <2>4
    <3> QED
      BY <1>1, <2>10, <2>11, <2>12, <3>1 DEF SlicesTile
  <2> QED
    BY <1>4, <2>5, <2>6, <2>13 DEF MapInv
<1> QED
  BY <1>6, <1>7

LEMMA ReturnMap == ASSUME MapInv, Return PROVE MapInv'
<1>1. FileMapTypeOK' /\ FilesLaid' /\ NotPast' /\ Untouched' /\ SlicesTile'
  BY DEF MapInv, FileMapTypeOK, FilesLaid, StartOf, NotPast, Untouched, SlicesTile,
         Expected, SliceEnd, SliceStart, StartIn, Return, args, locals
<1>2. Exhausted'
  BY DEF MapInv, FileMapTypeOK, NotPast, StartOf, StartIn, Exhausted, Return, args, locals
<1> QED
  BY <1>1, <1>2 DEF MapInv

LEMMA MapNext == MapInv /\ [Next]_vars => MapInv'
<1> SUFFICES ASSUME MapInv, [Next]_vars PROVE MapInv'
  OBVIOUS
<1>1. CASE UNCHANGED vars
  BY <1>1 DEF MapInv, FileMapTypeOK, FilesLaid, StartOf, StartIn, NotPast, Untouched, Exhausted,
              SlicesTile, Expected, SliceEnd, SliceStart, vars, args, locals
<1>2. ASSUME NEW g \in 0 .. total_size, NEW n \in 0 .. MaxBlock, MapBlock(g, n) PROVE MapInv'
  <2>1. g \in Nat /\ n \in Nat
    BY FileMapAssumption DEF MapInv, FileMapTypeOK
  <2> QED
    BY <1>2, <2>1, MapBlockMap
<1> QED
  BY <1>1, <1>2, AddFileMap, VisitFileMap, ReturnMap DEF Next

\* Whatever else a program does, it keeps the map while it leaves its state alone.
LEMMA MapStutter == MapInv /\ UNCHANGED vars => MapInv'
BY MapNext

\* The file map's invariant: its types, and the slices so far are the range so far.
THEOREM MapInvHolds == Spec => []MapInv
BY MapInit, MapNext, PTL DEF Spec

\* The types of the state of the file map (file_map.cpp).
THEOREM FileMapTypes == Spec => []FileMapTypeOK
BY MapInvHolds, PTL DEF MapInv

\* The slices map_block has produced are the first part of the range asked for,
\* in order, without gap or overlap (file_map.cpp:13-34).
THEOREM Tiling == Spec => []SlicesTile
BY MapInvHolds, PTL DEF MapInv

\* map_block maps a range inside the torrent to its last byte.
THEOREM WholeRange == Spec => []WholeRangeMapped
<1>1. MapInv => WholeRangeMapped
  BY DEF MapInv, FileMapTypeOK, Exhausted, SlicesTile, WholeRangeMapped
<1> QED
  BY <1>1, MapInvHolds, PTL

-----------------------------------------------------------------------------
\* Pieces and blocks.

LEMMA MulMono == ASSUME NEW m \in Nat, NEW n \in Nat, NEW b \in Nat, m <= n PROVE m * b <= n * b
<1> DEFINE d == n - m
<1>1. d \in Nat /\ n = m + d
  OBVIOUS
<1>2. d * b \in Nat /\ m * b \in Nat /\ n * b = m * b + d * b
  BY <1>1
<1> QED
  BY <1>2

\* Division with rest.
LEMMA Quotient ==
    ASSUME NEW a \in Nat, NEW b \in Nat \ {0}
    PROVE  a \div b \in Nat /\ (a \div b) * b <= a /\ a < (a \div b) * b + b
OBVIOUS

\* A number is in one interval of that length only.
LEMMA QuotientUnique ==
    ASSUME NEW p \in Nat, NEW q \in Nat, NEW b \in Nat \ {0}, NEW a \in Nat,
           p * b <= a, a < p * b + b, q * b <= a, a < q * b + b
    PROVE  p = q
<1>1. ASSUME NEW m \in Nat, NEW n \in Nat, m < n, n * b <= a, a < m * b + b PROVE FALSE
  <2>1. (m + 1) * b <= n * b
    BY <1>1, MulMono
  <2>2. (m + 1) * b = m * b + b
    OBVIOUS
  <2> QED
    BY <1>1, <2>1, <2>2
<1>2. ~(p < q) /\ ~(q < p)
  BY <1>1
<1> QED
  BY <1>2

\* A cast changes nothing that fits.
LEMMA CastFits == ASSUME NEW w \in Nat, NEW x \in Nat, x < w PROVE x % w = x
OBVIOUS

\* A piece begins before the end of the torrent and ends with it at the latest.
LEMMA PieceFacts ==
    ASSUME NEW total \in Nat, NEW p \in 0 .. NumPieces(total) - 1
    PROVE  /\ p \in Nat /\ PieceStart(p) \in Nat /\ PieceStart(p) = p * PieceLength
           /\ PieceSize(p, total) \in 1 .. PieceLength
           /\ PieceStart(p) + PieceSize(p, total) <= total
           /\ PieceSize(p, total) = PieceLength \/ PieceStart(p) + PieceSize(p, total) = total
<1> DEFINE q == NumPieces(total)
           start == p * PieceLength
<1>1. /\ PieceLength \in Nat \ {0} /\ BlockSize \in Nat \ {0} /\ Word \in Nat
      /\ PieceLength < Word
  BY LayoutAssumption
<1>2. q \in Nat /\ q * PieceLength <= total + PieceLength - 1
  <2>1. total + PieceLength - 1 \in Nat
    BY <1>1
  <2> QED
    BY <1>1, <2>1, Quotient DEF NumPieces
<1>3. p \in Nat /\ p + 1 \in Nat /\ p + 1 <= q
  BY <1>2
<1>4. start \in Nat /\ start + PieceLength <= q * PieceLength
  <2>1. (p + 1) * PieceLength <= q * PieceLength
    BY <1>1, <1>2, <1>3, MulMono
  <2>2. (p + 1) * PieceLength = start + PieceLength /\ start \in Nat
    BY <1>1, <1>3
  <2> QED
    BY <2>1, <2>2
<1> HIDE DEF q, start
<1>5. start < total
  <2>1. q * PieceLength \in Nat
    BY <1>1, <1>2
  <2> QED
    BY <1>1, <1>2, <1>4, <2>1
<1>6. PieceStart(p) = start
  BY DEF PieceStart, start
<1>7. PieceSize(p, total) = IF start + PieceLength > total THEN total - start ELSE PieceLength
  <2>1. CASE start + PieceLength > total
    <3>1. total - start \in Nat /\ total - start < Word
      BY <1>1, <1>4, <1>5, <2>1
    <3>2. (total - start) % Word = total - start
      BY <1>1, <3>1, CastFits
    <3> QED
      BY <1>6, <2>1, <3>2 DEF PieceSize
  <2>2. CASE ~(start + PieceLength > total)
    BY <1>6, <2>2 DEF PieceSize
  <2> QED
    BY <2>1, <2>2
<1> QED
  BY <1>1, <1>3, <1>4, <1>5, <1>6, <1>7 DEF start

\* A block begins inside its piece and ends with it at the latest.
LEMMA BlockFacts ==
    ASSUME NEW total \in Nat, NEW p \in 0 .. NumPieces(total) - 1,
           NEW i \in 0 .. BlockCount(p, total) - 1
    PROVE  /\ i \in Nat /\ BlockOffset(i) = i * BlockSize /\ BlockOffset(i) \in Nat
           /\ BlockLength(p, i, total) \in 1 .. BlockSize
           /\ BlockOffset(i) + BlockLength(p, i, total) <= PieceSize(p, total)
           /\ \/ BlockLength(p, i, total) = BlockSize
              \/ BlockOffset(i) + BlockLength(p, i, total) = PieceSize(p, total)
<1> DEFINE size == PieceSize(p, total)
           n    == BlockCount(p, total)
           off  == i * BlockSize
<1>1. /\ PieceLength \in Nat \ {0} /\ BlockSize \in Nat \ {0} /\ Word \in Nat
      /\ PieceLength + BlockSize <= Word
  BY LayoutAssumption
<1>2. size \in Nat /\ size >= 1 /\ size <= PieceLength
  BY <1>1, PieceFacts
<1> HIDE DEF size
<1>3. n = (size + BlockSize - 1) \div BlockSize
  <2>1. size + BlockSize - 1 \in Nat /\ size + BlockSize - 1 < Word
    BY <1>1, <1>2
  <2>2. (size + BlockSize - 1) % Word = size + BlockSize - 1
    BY <1>1, <2>1, CastFits
  <2> QED
    BY <2>2 DEF BlockCount, size
<1>4. n \in Nat /\ n * BlockSize <= size + BlockSize - 1
  BY <1>1, <1>2, <1>3, Quotient
<1>5. i \in Nat /\ i + 1 \in Nat /\ i + 1 <= n
  BY <1>4
<1>6. off \in Nat /\ off + BlockSize <= n * BlockSize
  <2>1. (i + 1) * BlockSize <= n * BlockSize
    BY <1>1, <1>4, <1>5, MulMono
  <2>2. (i + 1) * BlockSize = off + BlockSize /\ off \in Nat
    BY <1>1, <1>5
  <2> QED
    BY <2>1, <2>2
<1> HIDE DEF n, off
<1>7. off < size
  <2>1. n * BlockSize \in Nat
    BY <1>1, <1>4
  <2> QED
    BY <1>1, <1>2, <1>4, <1>6, <2>1
<1>8. BlockOffset(i) = off
  <2>1. off < Word
    BY <1>1, <1>2, <1>6, <1>7
  <2> QED
    BY <1>1, <1>6, <2>1, CastFits DEF BlockOffset, off
<1>9. BlockLength(p, i, total) = IF size - off < BlockSize THEN size - off ELSE BlockSize
  <2>1. size - off \in Nat /\ size - off < Word
    BY <1>1, <1>2, <1>6, <1>7
  <2>2. (size - off) % Word = size - off
    BY <1>1, <2>1, CastFits
  <2> QED
    BY <1>8, <2>2 DEF BlockLength, size
<1>10. off = i * BlockSize /\ size = PieceSize(p, total)
  BY DEF off, size
<1> QED
  BY <1>1, <1>2, <1>5, <1>6, <1>7, <1>8, <1>9, <1>10

\* The block that holds a byte of the torrent.
LEMMA ByteHasBlock ==
    ASSUME NEW total \in Nat, NEW g \in 0 .. total - 1
    PROVE  \E b \in Blocks(total) : g \in BytesOf(b)
<1> DEFINE p == g \div PieceLength
           start == p * PieceLength
           o == g - start
           i == o \div BlockSize
           off == i * BlockSize
           q == NumPieces(total)
           size == PieceSize(p, total)
           n == BlockCount(p, total)
<1>1. /\ PieceLength \in Nat \ {0} /\ BlockSize \in Nat \ {0} /\ Word \in Nat
      /\ PieceLength + BlockSize <= Word /\ g \in Nat /\ g < total
  BY LayoutAssumption
<1>2. p \in Nat /\ start <= g /\ g < start + PieceLength /\ start \in Nat
  BY <1>1, Quotient
<1>3. q \in Nat /\ total + PieceLength - 1 < q * PieceLength + PieceLength
  <2>1. total + PieceLength - 1 \in Nat
    BY <1>1
  <2> QED
    BY <1>1, <2>1, Quotient DEF NumPieces
<1>4. p \in 0 .. q - 1
  <2>1. ASSUME q <= p PROVE FALSE
    <3>1. q * PieceLength <= start /\ q * PieceLength \in Nat
      BY <1>1, <1>2, <1>3, <2>1, MulMono
    <3> QED
      BY <1>1, <1>2, <1>3, <3>1
  <2> QED
    BY <1>2, <1>3, <2>1
<1> HIDE DEF p, q
<1>5. /\ PieceStart(p) = start /\ size \in 1 .. PieceLength
      /\ size = PieceLength \/ start + size = total
  BY <1>4, PieceFacts DEF q
<1> HIDE DEF start, size
<1>6. o \in Nat /\ o < size
  BY <1>1, <1>2, <1>5
<1> HIDE DEF o
<1>7. i \in Nat /\ off <= o /\ o < off + BlockSize /\ off \in Nat
  BY <1>1, <1>6, Quotient
<1>8. n \in Nat /\ size + BlockSize - 1 < n * BlockSize + BlockSize
  <2>1. size + BlockSize - 1 \in Nat /\ size + BlockSize - 1 < Word
    BY <1>1, <1>5
  <2>2. (size + BlockSize - 1) % Word = size + BlockSize - 1
    BY <1>1, <2>1, CastFits
  <2>3. n = (size + BlockSize - 1) \div BlockSize
    BY <2>2 DEF BlockCount, size
  <2> QED
    BY <1>1, <2>1, <2>3, Quotient
<1>9. i \in 0 .. n - 1
  <2>1. ASSUME n <= i PROVE FALSE
    <3>1. n * BlockSize <= off /\ n * BlockSize \in Nat
      BY <1>1, <1>7, <1>8, <2>1, MulMono
    <3> QED
      BY <1>1, <1>5, <1>6, <1>7, <1>8, <3>1
  <2> QED
    BY <1>7, <1>8, <2>1
<1> HIDE DEF i, n
<1>10. /\ BlockOffset(i) = off /\ BlockLength(p, i, total) \in 1 .. BlockSize
       /\ BlockLength(p, i, total) = BlockSize \/ off + BlockLength(p, i, total) = size
  BY <1>4, <1>9, BlockFacts DEF n, q, size
<1> DEFINE b == <<p, BlockOffset(i), BlockLength(p, i, total)>>
<1>11. b \in Blocks(total)
  BY <1>4, <1>9 DEF Blocks, n, q
<1>12. g \in BytesOf(b)
  <2>1. g = start + o /\ start \in Nat
    BY <1>1, <1>2, <1>5 DEF o, start
  <2>2. BytesOf(b) = start + off .. start + off + BlockLength(p, i, total) - 1
    BY <1>5, <1>10 DEF BytesOf
  <2>3. start + off <= g /\ g <= start + off + BlockLength(p, i, total) - 1
    BY <1>1, <1>5, <1>6, <1>7, <1>10, <2>1
  <2> HIDE DEF off
  <2> QED
    BY <1>1, <1>7, <2>1, <2>2, <2>3
<1> QED
  BY <1>11, <1>12

\* What a block is, and that it stays inside the torrent.
LEMMA BlockInside ==
    ASSUME NEW total \in Nat, NEW b \in Blocks(total)
    PROVE  /\ b[3] \in 1 .. BlockSize
           /\ BytesOf(b) \subseteq 0 .. total - 1
           /\ \E p \in 0 .. NumPieces(total) - 1 : \E i \in 0 .. BlockCount(p, total) - 1 :
                 /\ b = <<p, BlockOffset(i), BlockLength(p, i, total)>>
                 /\ \A g \in BytesOf(b) :
                       /\ g \in Nat
                       /\ p * PieceLength <= g /\ g < p * PieceLength + PieceLength
                       /\ i * BlockSize <= g - p * PieceLength
                       /\ g - p * PieceLength < i * BlockSize + BlockSize
<1>a. PICK p \in 0 .. NumPieces(total) - 1 :
          \E i \in 0 .. BlockCount(p, total) - 1 : b = <<p, BlockOffset(i), BlockLength(p, i, total)>>
  BY DEF Blocks
<1>1. PICK i \in 0 .. BlockCount(p, total) - 1 : b = <<p, BlockOffset(i), BlockLength(p, i, total)>>
  BY <1>a
<1> DEFINE start == p * PieceLength
           off   == i * BlockSize
           len   == BlockLength(p, i, total)
           size  == PieceSize(p, total)
<1>2. PieceLength \in Nat \ {0} /\ BlockSize \in Nat \ {0}
  BY LayoutAssumption
<1>3. /\ PieceStart(p) = start /\ start \in Nat /\ size \in 1 .. PieceLength
      /\ start + size <= total
  BY PieceFacts
<1>4. BlockOffset(i) = off /\ off \in Nat /\ len \in 1 .. BlockSize /\ off + len <= size
  BY BlockFacts
<1> HIDE DEF start, off, len, size
<1>5. BytesOf(b) = start + off .. start + off + len - 1
  BY <1>1, <1>3, <1>4 DEF BytesOf, len
<1>6. \A g \in BytesOf(b) :
         /\ g \in Nat /\ g <= total - 1
         /\ start <= g /\ g < start + PieceLength
         /\ off <= g - start /\ g - start < off + BlockSize
  BY <1>2, <1>3, <1>4, <1>5
<1>7. b[3] = len
  BY <1>1 DEF len
<1>8. BytesOf(b) \subseteq 0 .. total - 1
  BY <1>6
<1> QED
  BY <1>1, <1>4, <1>6, <1>7, <1>8 DEF start, off

\* Two blocks that hold the same byte are the same block.
LEMMA BlocksDisjoint ==
    ASSUME NEW total \in Nat, NEW b \in Blocks(total), NEW c \in Blocks(total),
           NEW g \in BytesOf(b), g \in BytesOf(c)
    PROVE  b = c
<1>0. PieceLength \in Nat \ {0} /\ BlockSize \in Nat \ {0}
  BY LayoutAssumption
<1>p1. PICK p \in 0 .. NumPieces(total) - 1 : \E i \in 0 .. BlockCount(p, total) - 1 :
          /\ b = <<p, BlockOffset(i), BlockLength(p, i, total)>>
          /\ g \in Nat
          /\ p * PieceLength <= g /\ g < p * PieceLength + PieceLength
          /\ i * BlockSize <= g - p * PieceLength
          /\ g - p * PieceLength < i * BlockSize + BlockSize
  BY BlockInside
<1>1. PICK i \in 0 .. BlockCount(p, total) - 1 :
          /\ b = <<p, BlockOffset(i), BlockLength(p, i, total)>>
          /\ g \in Nat
          /\ p * PieceLength <= g /\ g < p * PieceLength + PieceLength
          /\ i * BlockSize <= g - p * PieceLength
          /\ g - p * PieceLength < i * BlockSize + BlockSize
  BY <1>p1
<1>q2. PICK q \in 0 .. NumPieces(total) - 1 : \E j \in 0 .. BlockCount(q, total) - 1 :
          /\ c = <<q, BlockOffset(j), BlockLength(q, j, total)>>
          /\ q * PieceLength <= g /\ g < q * PieceLength + PieceLength
          /\ j * BlockSize <= g - q * PieceLength
          /\ g - q * PieceLength < j * BlockSize + BlockSize
  BY BlockInside
<1>2. PICK j \in 0 .. BlockCount(q, total) - 1 :
          /\ c = <<q, BlockOffset(j), BlockLength(q, j, total)>>
          /\ q * PieceLength <= g /\ g < q * PieceLength + PieceLength
          /\ j * BlockSize <= g - q * PieceLength
          /\ g - q * PieceLength < j * BlockSize + BlockSize
  BY <1>q2
<1>3. p \in Nat /\ q \in Nat
  BY PieceFacts
<1>4. p = q
  BY <1>0, <1>1, <1>2, <1>3, QuotientUnique
<1>5. i \in Nat /\ j \in Nat
  BY <1>4, BlockFacts
<1>6. g - p * PieceLength \in Nat
  <2>1. p * PieceLength \in Nat
    BY <1>0, <1>3
  <2> QED
    BY <1>1, <2>1
<1>7. i = j
  BY <1>0, <1>1, <1>2, <1>4, <1>5, <1>6, QuotientUnique
<1> QED
  BY <1>1, <1>2, <1>4, <1>7

\* For a torrent of any size, with the pieces that size gives and a piece length within
\* LayoutAssumption, the blocks are not empty, not longer than BLOCK_SIZE, do not overlap,
\* and hold its bytes and no others (piece_manager.cpp:13-45).
THEOREM LayoutTiles ==
    ASSUME NEW total \in Nat
    PROVE  /\ UNION {BytesOf(b) : b \in Blocks(total)} = 0 .. total - 1
           /\ \A b, c \in Blocks(total) : b # c => BytesOf(b) \cap BytesOf(c) = {}
           /\ \A b \in Blocks(total) : b[3] \in 1 .. BlockSize
<1>1. UNION {BytesOf(b) : b \in Blocks(total)} \subseteq 0 .. total - 1
  BY BlockInside
<1>2. 0 .. total - 1 \subseteq UNION {BytesOf(b) : b \in Blocks(total)}
  BY ByteHasBlock
<1>3. \A b, c \in Blocks(total) : b # c => BytesOf(b) \cap BytesOf(c) = {}
  BY BlocksDisjoint
<1>4. \A b \in Blocks(total) : b[3] \in 1 .. BlockSize
  BY BlockInside
<1> QED
  BY <1>1, <1>2, <1>3, <1>4

-----------------------------------------------------------------------------
\* What is stored.

\* The files are in the order of their offsets, and do not overlap.
FilesOrdered ==
    /\ Len(files) <= MaxFiles
    /\ \A k \in DOMAIN files :
          /\ files[k].global_offset + files[k].length <= total_size
          /\ \A j \in 1 .. k - 1 : files[j].global_offset + files[j].length <= files[k].global_offset

StoreMapInv == MapInv /\ FilesOrdered

LEMMA MapCallFits ==
    ASSUME StoreMapInv, NEW b \in Blocks(total_size) \cup Ranges
    PROVE  b \in Nat \X Nat \X Nat /\ GlobalOffset(b) \in Nat
<1>1. total_size \in Nat /\ PieceLength \in Nat
  BY LayoutAssumption DEF StoreMapInv, MapInv, FileMapTypeOK
<1>2. b \in Nat \X Nat \X Nat
  <2>1. CASE b \in Ranges
    BY <2>1, StoreAssumption
  <2>2. CASE b \in Blocks(total_size)
    <3>1. PICK p \in 0 .. NumPieces(total_size) - 1 :
              \E i \in 0 .. BlockCount(p, total_size) - 1 :
                 b = <<p, BlockOffset(i), BlockLength(p, i, total_size)>>
      BY <2>2 DEF Blocks
    <3>2. PICK i \in 0 .. BlockCount(p, total_size) - 1 :
              b = <<p, BlockOffset(i), BlockLength(p, i, total_size)>>
      BY <3>1
    <3>3. p \in Nat
      BY <1>1, PieceFacts
    <3>4. BlockOffset(i) \in Nat /\ BlockLength(p, i, total_size) \in Nat
      BY <1>1, BlockFacts, LayoutAssumption
    <3> QED
      BY <3>2, <3>3, <3>4
  <2> QED
    BY <2>1, <2>2
<1>3. GlobalOffset(b) \in Nat
  BY <1>1, <1>2 DEF GlobalOffset
<1> QED
  BY <1>2, <1>3

LEMMA StoreMapNext == ASSUME StoreMapInv, [StoreNext]_storeVars PROVE StoreMapInv'
<1>1. CASE UNCHANGED vars
  <2>1. MapInv'
    BY <1>1, MapStutter DEF StoreMapInv
  <2>2. FilesOrdered'
    BY <1>1 DEF StoreMapInv, FilesOrdered, vars
  <2> QED
    BY <2>1, <2>2 DEF StoreMapInv
<1>2. ASSUME NEW n \in Lengths, Register(n) PROVE StoreMapInv'
  <2>1. AddFile(n)
    BY <1>2 DEF Register
  <2>2. MapInv'
    BY <2>1, AddFileMap DEF StoreMapInv
  <2>3. FilesOrdered'
    <3> DEFINE f == [length |-> n, global_offset |-> total_size]
    <3>1. /\ n \in Nat /\ files \in Seq(FileEntry) /\ total_size \in Nat
          /\ files' = Append(files, f) /\ total_size' = total_size + n
          /\ Len(files) < MaxFiles /\ MaxFiles \in Nat
      BY <2>1, FileMapAssumption DEF StoreMapInv, MapInv, FileMapTypeOK, AddFile
    <3>a. f \in FileEntry /\ f.global_offset = total_size /\ f.length = n
      BY <3>1 DEF FileEntry
    <3> HIDE DEF f
    <3>2. /\ Len(files) \in Nat /\ DOMAIN files = 1 .. Len(files)
          /\ f \in FileEntry /\ DOMAIN files' = 1 .. Len(files) + 1
          /\ Len(files') = Len(files) + 1
          /\ files'[Len(files) + 1] = f
          /\ \A k \in 1 .. Len(files) : files'[k] = files[k] /\ files[k] \in FileEntry
      BY <3>1, <3>a
    <3>4. ASSUME NEW k \in DOMAIN files'
          PROVE  /\ files'[k].global_offset + files'[k].length <= total_size'
                 /\ \A j \in 1 .. k - 1 :
                       files'[j].global_offset + files'[j].length <= files'[k].global_offset
      <4>1. CASE k = Len(files) + 1
        BY <3>1, <3>2, <3>a, <4>1 DEF StoreMapInv, FilesOrdered
      <4>2. CASE k \in 1 .. Len(files)
        BY <3>1, <3>2, <3>a, <4>2 DEF StoreMapInv, FilesOrdered, FileEntry
      <4> QED
        BY <3>2, <4>1, <4>2
    <3> QED
      BY <3>1, <3>2, <3>4 DEF FilesOrdered
  <2> QED
    BY <2>2, <2>3 DEF StoreMapInv
<1>3. ASSUME NEW kind, NEW b \in Blocks(total_size) \cup Ranges, Begin(kind, b)
      PROVE  StoreMapInv'
  <2>1. MapBlock(GlobalOffset(b), b[3]) /\ GlobalOffset(b) \in Nat /\ b[3] \in Nat
    BY <1>3, MapCallFits DEF Begin
  <2>2. MapInv'
    BY <2>1, MapBlockMap DEF StoreMapInv
  <2>3. FilesOrdered'
    BY <2>1 DEF StoreMapInv, FilesOrdered, MapBlock
  <2> QED
    BY <2>2, <2>3 DEF StoreMapInv
<1>4. CASE Map
  <2>1. VisitFile \/ Return
    BY <1>4 DEF Map
  <2>2. MapInv'
    BY <2>1, VisitFileMap, ReturnMap DEF StoreMapInv
  <2>3. UNCHANGED <<files, total_size>>
    BY <2>1 DEF VisitFile, Return
  <2>4. FilesOrdered'
    BY <2>3 DEF StoreMapInv, FilesOrdered
  <2> QED
    BY <2>2, <2>4 DEF StoreMapInv
<1>5. CASE UNCHANGED storeVars
  BY <1>1, <1>5 DEF storeVars
<1>6. CASE WriteSlice \/ WriteSliceFails \/ WriteSliceDropped \/ ReadSlice \/ ReadSeekFails
           \/ ReadPastEnd \/ ReadSliceFails \/ Finish \/ CloseAll \/ Killed
  BY <1>1, <1>6 DEF WriteSlice, WriteSliceFails, WriteSliceDropped, ReadSlice, ReadSeekFails,
                    ReadPastEnd, ReadSliceFails, Finish, CloseAll, Killed
<1>7. ASSUME NEW kind, OpenFile(kind) \/ OpenThrows(kind) PROVE StoreMapInv'
  BY <1>1, <1>7 DEF OpenFile, OpenThrows
<1> QED
  BY <1>2, <1>3, <1>4, <1>5, <1>6, <1>7 DEF StoreNext, WriteBlock, ReadBlock

\* ... and it holds when the disk manager calls the file map.
THEOREM StoreMapInvHolds == StoreSpec => []StoreMapInv
<1>1. StoreInit => StoreMapInv
  <2>1. StoreInit => MapInv
    BY MapInit DEF StoreInit
  <2>2. StoreInit => FilesOrdered
    BY FileMapAssumption DEF StoreInit, Init, FilesOrdered
  <2> QED
    BY <2>1, <2>2 DEF StoreMapInv
<1> QED
  BY <1>1, StoreMapNext, PTL DEF StoreSpec

\* The blocks of init_active_piece tile the torrent, while its files are registered
\* and ever after.
THEOREM StoreLayout == StoreSpec => []BlocksTileTorrent
<1>1. StoreMapInv => BlocksTileTorrent
  BY LayoutTiles DEF StoreMapInv, MapInv, FileMapTypeOK, BlocksTileTorrent
<1> QED
  BY <1>1, StoreMapInvHolds, PTL

\* Under the calls of DiskManager, the slices of map_block are the range it was
\* called for, and all of it when it is inside the torrent.
THEOREM StoreSlices == StoreSpec => [](FileMapTypeOK /\ SlicesTile /\ WholeRangeMapped)
<1>1. StoreMapInv => FileMapTypeOK /\ SlicesTile /\ WholeRangeMapped
  BY DEF StoreMapInv, MapInv, FileMapTypeOK, Exhausted, SlicesTile, WholeRangeMapped
<1> QED
  BY <1>1, StoreMapInvHolds, PTL

-----------------------------------------------------------------------------
\* Bytes and slices.

\* The byte of content s at offset o; past its end, zero.
At(s, o) == IF o + 1 \in DOMAIN s THEN s[o + 1] ELSE Zero

\* Offset o lies in slice w.
Inside(w, o) == o >= w.file_offset /\ o < w.file_offset + Len(w.bytes)

\* A write changes the bytes of its slice, fills a gap with zeros, and no more.
LEMMA SpliceIs ==
    ASSUME NEW s \in Seq(Byte), NEW w \in FilePart
    PROVE  LET t == Splice(s, w.file_offset, w.bytes)
           IN  /\ t \in Seq(Byte)
               /\ Len(t) = IF Len(s) < w.file_offset + Len(w.bytes)
                             THEN w.file_offset + Len(w.bytes) ELSE Len(s)
               /\ \A x \in Nat :
                     At(t, x) = IF Inside(w, x) THEN w.bytes[x - w.file_offset + 1] ELSE At(s, x)
<1> DEFINE o == w.file_offset
           b == w.bytes
           end == o + Len(b)
           n == IF Len(s) < end THEN end ELSE Len(s)
           B(i) == IF i > o /\ i <= end THEN b[i - o] ELSE IF i \in DOMAIN s THEN s[i] ELSE Zero
           t == Splice(s, o, b)
<1>1. /\ o \in Nat /\ b \in Seq(Byte) /\ Len(b) \in Nat /\ Len(s) \in Nat
      /\ end \in Nat /\ n \in Nat
      /\ DOMAIN s = 1 .. Len(s) /\ DOMAIN b = 1 .. Len(b)
      /\ \A i \in DOMAIN s : s[i] \in Byte
      /\ \A i \in DOMAIN b : b[i] \in Byte
  BY DEF FilePart
<1>2. Zero \in Byte
  BY DEF Zero, Byte
<1>3. t = [i \in 1 .. n |-> B(i)]
  BY DEF Splice
<1>4. \A i \in 1 .. n : B(i) \in Byte
  BY <1>1, <1>2
<1>5. t \in Seq(Byte) /\ Len(t) = n /\ DOMAIN t = 1 .. n
  <2> HIDE DEF t, n, B
  <2> QED
    BY <1>1, <1>3, <1>4
<1>6. ASSUME NEW x \in Nat
      PROVE  At(t, x) = IF Inside(w, x) THEN b[x - o + 1] ELSE At(s, x)
  <2>1. CASE x + 1 \in 1 .. n
    <3>1. At(t, x) = B(x + 1)
      BY <1>3, <1>5, <2>1 DEF At
    <3>2. CASE Inside(w, x)
      <4>1. x + 1 > o /\ x + 1 <= end /\ (x + 1) - o = x - o + 1
        BY <1>1, <3>2 DEF Inside
      <4> QED
        BY <3>1, <3>2, <4>1
    <3>3. CASE ~Inside(w, x)
      <4>1. ~(x + 1 > o /\ x + 1 <= end)
        BY <1>1, <3>3 DEF Inside
      <4> QED
        BY <3>1, <3>3, <4>1 DEF At
    <3> QED
      BY <3>2, <3>3
  <2>2. CASE x + 1 \notin 1 .. n
    <3>1. At(t, x) = Zero
      BY <1>5, <2>2 DEF At
    <3>2. ~Inside(w, x) /\ x + 1 \notin DOMAIN s
      BY <1>1, <2>2 DEF Inside
    <3> QED
      BY <3>1, <3>2 DEF At
  <2> QED
    BY <2>1, <2>2
<1> QED
  BY <1>5, <1>6

\* A write that breaks off changes bytes of its slice only, to what it was writing.
LEMMA BrokenOffIs ==
    ASSUME NEW s \in Seq(Byte), NEW w \in FilePart, NEW c \in BrokenOff(s, w)
    PROVE  /\ c \in Seq(Byte)
           /\ \/ Len(c) = Len(s)
              \/ Len(c) <= w.file_offset + Len(w.bytes)
           /\ \A x \in Nat :
                 \/ At(c, x) = At(s, x)
                 \/ Inside(w, x) /\ At(c, x) = w.bytes[x - w.file_offset + 1]
<1>1. PICK n \in 0 .. Len(w.bytes) - 1 :
          c = IF n = 0 THEN s ELSE Splice(s, w.file_offset, SubSeq(w.bytes, 1, n))
  BY DEF BrokenOff
<1>2. CASE n = 0
  BY <1>1, <1>2
<1>3. CASE n # 0
  <2> DEFINE b == SubSeq(w.bytes, 1, n)
             v == [file_offset |-> w.file_offset, bytes |-> b]
  <2>1. /\ w.file_offset \in Nat /\ w.bytes \in Seq(Byte) /\ Len(w.bytes) \in Nat
        /\ n \in 1 .. Len(w.bytes)
    BY <1>3 DEF FilePart
  <2>2. b \in Seq(Byte) /\ Len(b) = n /\ \A i \in 1 .. n : b[i] = w.bytes[i]
    BY <2>1
  <2> HIDE DEF b
  <2>3. v \in FilePart /\ v.file_offset = w.file_offset /\ v.bytes = b
    BY <2>1, <2>2 DEF FilePart
  <2> HIDE DEF v
  <2>4. c = Splice(s, v.file_offset, v.bytes)
    BY <1>1, <1>3, <2>3 DEF b
  <2>5. /\ c \in Seq(Byte)
        /\ Len(c) = IF Len(s) < w.file_offset + n THEN w.file_offset + n ELSE Len(s)
        /\ \A x \in Nat : At(c, x) = IF Inside(v, x) THEN b[x - w.file_offset + 1] ELSE At(s, x)
    BY <2>2, <2>3, <2>4, SpliceIs
  <2>6. ASSUME NEW x \in Nat, Inside(v, x)
        PROVE  Inside(w, x) /\ b[x - w.file_offset + 1] = w.bytes[x - w.file_offset + 1]
    BY <2>1, <2>2, <2>3, <2>6 DEF Inside
  <2>7. Len(c) = Len(s) \/ Len(c) <= w.file_offset + Len(w.bytes)
    BY <2>1, <2>5
  <2>8. ASSUME NEW x \in Nat
        PROVE  \/ At(c, x) = At(s, x)
               \/ Inside(w, x) /\ At(c, x) = w.bytes[x - w.file_offset + 1]
    <3>1. CASE Inside(v, x)
      BY <2>5, <2>6, <3>1
    <3>2. CASE ~Inside(v, x)
      BY <2>5, <3>2
    <3> QED
      BY <3>1, <3>2
  <2> QED
    BY <2>5, <2>7, <2>8
<1> QED
  BY <1>2, <1>3

\* Content s of a file when the slice p its stream holds is written out.
Drained(s, p) == IF p.bytes = <<>> THEN s ELSE Splice(s, p.file_offset, p.bytes)

LEMMA DrainedIs ==
    ASSUME NEW s \in Seq(Byte), NEW p \in FilePart
    PROVE  /\ Drained(s, p) \in Seq(Byte)
           /\ p = NoSlice => Drained(s, p) = s
           /\ \/ Len(Drained(s, p)) = Len(s)
              \/ Len(Drained(s, p)) = p.file_offset + Len(p.bytes) /\ p # NoSlice
           /\ \A x \in Nat :
                 At(Drained(s, p), x) =
                    IF Inside(p, x) THEN p.bytes[x - p.file_offset + 1] ELSE At(s, x)
<1>1. CASE p.bytes = <<>>
  <2>1. Drained(s, p) = s
    BY <1>1 DEF Drained
  <2>2. Len(p.bytes) = 0 /\ p.file_offset \in Nat
    BY <1>1 DEF FilePart
  <2>3. \A x \in Nat : ~Inside(p, x)
    BY <2>2 DEF Inside
  <2> QED
    BY <2>1, <2>3
<1>2. CASE p.bytes # <<>>
  <2>1. Drained(s, p) = Splice(s, p.file_offset, p.bytes)
    BY <1>2 DEF Drained
  <2>2. p # NoSlice
    BY <1>2 DEF NoSlice
  <2> QED
    BY <2>1, <2>2, SpliceIs
<1> QED
  BY <1>1, <1>2

-----------------------------------------------------------------------------
\* Types, and how far a call has come.

StreamTypes ==
    /\ stream \in [Files -> {"unopened", "good", "failed"}]
    /\ disk \in [Files -> Seq(Byte)]
    /\ pending \in [Files -> FilePart]
    /\ last \in [Files -> FilePart]
    /\ \A f \in Files : stream[f] # "good" => pending[f] = NoSlice

CallTypes ==
    /\ call \in [kind : {"none", "write", "read"}, tag : Nat, intact : BOOLEAN]
    /\ block \in Nat \X Nat \X Nat
    /\ turn \in 0 .. Len(slices)
    /\ data_offset \in Nat
    /\ data \in Seq(Byte)

RestTypes ==
    /\ process \in {"running", "closed", "killed"}
    /\ calls \in 0 .. MaxCalls
    /\ failures \in 0 .. MaxFailures
    /\ written \subseteq Nat \X Nat \X Nat

\* The slices done with hold data_offset bytes, from the start of the block on.
Progress ==
    /\ call.kind # "none" =>
          /\ phase # "adding"
          /\ call.tag # 0
          /\ global_offset = GlobalOffset(block)
          /\ length = block[3]
          /\ Expected(turn + 1) = global_offset + data_offset
    /\ phase = "mapping" => turn = 0

CallInv == StoreMapInv /\ StreamTypes /\ CallTypes /\ RestTypes /\ Progress

LEMMA TypesSplit == StoreTypeOK <=> StreamTypes /\ CallTypes /\ RestTypes
BY DEF StoreTypeOK, StreamTypes, CallTypes, RestTypes

\* What the loop knows of the slice it is at: it is inside its file, and where it
\* begins in the torrent is where the data has come to.
LEMMA AtSlice ==
    ASSUME CallInv, NEW kind, kind # "none", InLoop(kind)
    PROVE  /\ Slice \in FileSlice
           /\ Slice.file \in DOMAIN files /\ Slice.file \in Files
           /\ Slice.size > 0
           /\ files[Slice.file] \in FileEntry
           /\ Slice.file_offset + Slice.size <= files[Slice.file].length
           /\ SliceStart(Slice) = Expected(turn + 1)
           /\ SliceStart(Slice) = Position(data_offset)
           /\ turn + 1 \in 1 .. Len(slices)
<1>1. /\ slices \in Seq(FileSlice) /\ files \in Seq(FileEntry)
      /\ turn \in Nat /\ turn < Len(slices) /\ Len(slices) \in Nat
      /\ Len(files) <= MaxFiles /\ MaxFiles \in Nat /\ Len(files) \in Nat
  BY FileMapAssumption DEF CallInv, StoreMapInv, MapInv, FileMapTypeOK, FilesOrdered, CallTypes, InLoop
<1>2. turn + 1 \in 1 .. Len(slices) /\ turn + 1 \in DOMAIN slices
  BY <1>1
<1>3. Slice \in FileSlice
  BY <1>1, <1>2 DEF Slice
<1>4. /\ SliceStart(Slice) = Expected(turn + 1)
      /\ Slice.size > 0
      /\ Slice.file \in DOMAIN files
      /\ Slice.file_offset + Slice.size <= files[Slice.file].length
  BY <1>2 DEF CallInv, StoreMapInv, MapInv, SlicesTile, Slice
<1>5. Slice.file \in Files /\ files[Slice.file] \in FileEntry
  BY <1>1, <1>4 DEF Files
<1>6. Expected(turn + 1) = Position(data_offset)
  <2>1. block \in Nat \X Nat \X Nat /\ data_offset \in Nat /\ PieceLength \in Nat
    BY LayoutAssumption DEF CallInv, CallTypes
  <2>2. Expected(turn + 1) = GlobalOffset(block) + data_offset
    BY DEF CallInv, Progress, InLoop
  <2> QED
    BY <2>1, <2>2 DEF GlobalOffset, Position, PieceStart
<1> QED
  BY <1>2, <1>3, <1>4, <1>5, <1>6

\* The slice write_block writes: each byte is meant for the place it goes to.
LEMMA SliceWritten ==
    ASSUME CallInv, InLoop("write")
    PROVE  /\ WrittenSlice \in FilePart
           /\ WrittenSlice.file_offset = Slice.file_offset
           /\ Len(WrittenSlice.bytes) = Slice.size
           /\ \A i \in 1 .. Slice.size :
                 WrittenSlice.bytes[i] = <<call.tag, SliceStart(Slice) + i - 1>>
<1>1. /\ Slice \in FileSlice /\ SliceStart(Slice) = Position(data_offset)
  BY AtSlice
<1>2. /\ Slice.size \in Nat /\ Slice.file_offset \in Nat
  BY <1>1 DEF FileSlice
<1>3. /\ call.tag \in Nat /\ data_offset \in Nat /\ block \in Nat \X Nat \X Nat
      /\ PieceLength \in Nat
  BY LayoutAssumption DEF CallInv, CallTypes
<1>4. PieceStart(block[1]) \in Nat
  BY <1>3 DEF PieceStart
<1>5. \A i \in 1 .. Slice.size :
         /\ Position(data_offset + i - 1) \in Nat
         /\ Position(data_offset + i - 1) = SliceStart(Slice) + i - 1
  BY <1>1, <1>2, <1>3, <1>4 DEF Position
<1>6. \A i \in 1 .. Slice.size : <<call.tag, Position(data_offset + i - 1)>> \in Byte
  BY <1>3, <1>5 DEF Byte
<1>7. /\ SliceBytes \in Seq(Byte) /\ Len(SliceBytes) = Slice.size
      /\ \A i \in 1 .. Slice.size : SliceBytes[i] = <<call.tag, SliceStart(Slice) + i - 1>>
  BY <1>2, <1>5, <1>6 DEF SliceBytes
<1> QED
  BY <1>2, <1>7 DEF WrittenSlice, FilePart

\* What a stream has taken is bytes.
LEMMA FlushedIs == ASSUME StreamTypes, NEW f \in Files PROVE Flushed(f) \in Seq(Byte)
BY DrainedIs DEF StreamTypes, Flushed, Drained

\* A stream that fails leaves bytes in its file, and holds nothing.
LEMMA FailTypes ==
    ASSUME StreamTypes, NEW f \in Files, NEW c \in Seq(Byte), StreamFails(f, c),
           last' \in [Files -> FilePart]
    PROVE  StreamTypes'
<1>1. NoSlice \in FilePart
  BY DEF NoSlice, FilePart
<1>2. /\ disk' = [disk EXCEPT ![f] = c]
      /\ pending' = [pending EXCEPT ![f] = NoSlice]
      /\ stream' = [stream EXCEPT ![f] = "failed"]
  BY DEF StreamFails
<1>3. disk' \in [Files -> Seq(Byte)] /\ pending' \in [Files -> FilePart]
  BY <1>1, <1>2 DEF StreamTypes
<1>4. /\ stream' \in [Files -> {"unopened", "good", "failed"}]
      /\ \A g \in Files : stream'[g] # "good" => pending'[g] = NoSlice
  BY <1>2 DEF StreamTypes
<1> QED
  BY <1>3, <1>4 DEF StreamTypes

LEMMA StreamTypesNext == ASSUME CallInv, StoreNext PROVE StreamTypes'
<1>0. /\ StreamTypes
      /\ NoSlice \in FilePart
  BY DEF CallInv, NoSlice, FilePart
<1>1. CASE UNCHANGED <<streams, last>>
  BY <1>0, <1>1 DEF StreamTypes, streams
<1>2. ASSUME NEW kind \in {"write", "read"}, OpenFile(kind) PROVE StreamTypes'
  <2>1. Slice.file \in Files
    BY <1>2, AtSlice DEF OpenFile
  <2> QED
    BY <1>0, <1>2, <2>1 DEF OpenFile, StreamTypes, history
<1>3. CASE WriteSlice
  <2>1. Slice.file \in Files /\ WrittenSlice \in FilePart
    BY <1>3, AtSlice, SliceWritten DEF WriteSlice
  <2>2. /\ Flushed(Slice.file) \in Seq(Byte)
        /\ Splice(Flushed(Slice.file), WrittenSlice.file_offset, WrittenSlice.bytes) \in Seq(Byte)
    BY <1>0, <2>1, FlushedIs, SpliceIs
  <2>3. stream[Slice.file] = "good" /\ UNCHANGED stream
    BY <1>3 DEF WriteSlice
  <2> DEFINE f == Slice.file
             w == WrittenSlice
             c == Splice(Flushed(f), w.file_offset, w.bytes)
  <2>4. /\ last' = [last EXCEPT ![f] = w]
        /\ \/ disk' = [disk EXCEPT ![f] = c] /\ pending' = [pending EXCEPT ![f] = NoSlice]
           \/ disk' = [disk EXCEPT ![f] = Flushed(f)] /\ pending' = [pending EXCEPT ![f] = w]
    BY <1>3 DEF WriteSlice
  <2> HIDE DEF f, w, c
  <2>5. /\ disk' \in [Files -> Seq(Byte)]
        /\ pending' \in [Files -> FilePart]
        /\ last' \in [Files -> FilePart]
        /\ \A h \in Files : h # f => pending'[h] = pending[h]
    <3>1. /\ f \in Files /\ w \in FilePart /\ c \in Seq(Byte) /\ Flushed(f) \in Seq(Byte)
          /\ NoSlice \in FilePart
      BY <1>0, <2>1, <2>2 DEF f, w, c
    <3>2. /\ disk \in [Files -> Seq(Byte)] /\ pending \in [Files -> FilePart]
          /\ last \in [Files -> FilePart]
      BY <1>0 DEF StreamTypes
    <3>3. last' \in [Files -> FilePart]
      BY <2>4, <3>1, <3>2
    <3>4. disk' \in [Files -> Seq(Byte)]
      BY <2>4, <3>1, <3>2
    <3>5. /\ pending' \in [Files -> FilePart]
          /\ \A h \in Files : h # f => pending'[h] = pending[h]
      BY <2>4, <3>1, <3>2
    <3> QED
      BY <3>3, <3>4, <3>5
  <2> QED
    BY <1>0, <2>3, <2>5 DEF StreamTypes, f
<1>4. CASE WriteSliceFails
  <2> DEFINE f == Slice.file
             w == WrittenSlice
  <2>1. f \in Files /\ w \in FilePart
    BY <1>4, AtSlice, SliceWritten DEF WriteSliceFails
  <2>2. Flushed(f) \in Seq(Byte) /\ disk[f] \in Seq(Byte) /\ pending[f] \in FilePart
    BY <1>0, <2>1, FlushedIs DEF StreamTypes
  <2>3. \A c \in BrokenOff(disk[f], pending[f]) : c \in Seq(Byte)
    BY <2>2, BrokenOffIs
  <2>4. \A c \in BrokenOff(Flushed(f), w) : c \in Seq(Byte)
    BY <2>1, <2>2, BrokenOffIs
  <2>5. PICK c \in Seq(Byte) : StreamFails(f, c)
    BY <1>4, <2>3, <2>4 DEF WriteSliceFails
  <2>6. last' \in [Files -> FilePart]
    BY <1>0, <1>4, <2>1 DEF WriteSliceFails, StreamTypes
  <2> QED
    BY <1>0, <2>1, <2>5, <2>6, FailTypes
<1>5. CASE ReadSlice
  <2>1. Slice.file \in Files
    BY <1>5, AtSlice DEF ReadSlice
  <2>2. Flushed(Slice.file) \in Seq(Byte)
    BY <1>0, <2>1, FlushedIs
  <2> QED
    BY <1>0, <1>5, <2>1, <2>2 DEF ReadSlice, StreamTypes, history
<1>6. CASE ReadSeekFails
  <2>1. Slice.file \in Files
    BY <1>6, AtSlice DEF ReadSeekFails
  <2>2. PICK c \in BrokenOff(disk[Slice.file], pending[Slice.file]) : StreamFails(Slice.file, c)
    BY <1>6 DEF ReadSeekFails
  <2>3. c \in Seq(Byte)
    BY <1>0, <2>1, BrokenOffIs DEF StreamTypes
  <2>4. last' \in [Files -> FilePart]
    BY <1>0, <1>6 DEF ReadSeekFails, StreamTypes, history
  <2> QED
    BY <1>0, <2>1, <2>2, <2>3, <2>4, FailTypes
<1>7. CASE ReadPastEnd
  <2>1. Slice.file \in Files
    BY <1>7, AtSlice DEF ReadPastEnd
  <2>2. Flushed(Slice.file) \in Seq(Byte)
    BY <1>0, <2>1, FlushedIs
  <2>3. last' \in [Files -> FilePart]
    BY <1>0, <1>7 DEF ReadPastEnd, StreamTypes, history
  <2>4. StreamFails(Slice.file, Flushed(Slice.file))
    BY <1>7 DEF ReadPastEnd
  <2> QED
    BY <1>0, <2>1, <2>2, <2>3, <2>4, FailTypes
<1>8. CASE CloseAll
  <2>1. \A f \in Files : Flushed(f) \in Seq(Byte)
    BY <1>0, FlushedIs
  <2> QED
    BY <1>0, <1>8, <2>1 DEF CloseAll, StreamTypes, history
<1>9. CASE Killed
  BY <1>0, <1>9 DEF Killed, StreamTypes, history
<1>10. ASSUME NEW kind \in {"write", "read"}, OpenThrows(kind) PROVE StreamTypes'
  BY <1>1, <1>10 DEF OpenThrows, history
<1>11. ASSUME NEW n \in Lengths, Register(n) PROVE StreamTypes'
  BY <1>1, <1>11 DEF Register, history
<1>12. ASSUME NEW kind, NEW b, Begin(kind, b) PROVE StreamTypes'
  BY <1>1, <1>12 DEF Begin, history
<1>13. CASE Map \/ WriteSliceDropped \/ ReadSliceFails \/ Finish
  BY <1>1, <1>13 DEF Map, WriteSliceDropped, ReadSliceFails, Finish, history
<1> QED
  BY <1>2, <1>3, <1>4, <1>5, <1>6, <1>7, <1>8, <1>9, <1>10, <1>11, <1>12, <1>13
     DEF StoreNext, WriteBlock, ReadBlock

\* The loop goes on: the next slice begins where this one ends.
LEMMA NextSliceIs ==
    ASSUME CallInv, NEW kind \in {"write", "read"}, InLoop(kind), NextSlice,
           UNCHANGED <<vars, call>> \/ (UNCHANGED vars /\ call' = [call EXCEPT !.intact = FALSE]),
           UNCHANGED data \/ data' \in Seq(Byte)
    PROVE  CallTypes' /\ Progress'
<1>1. /\ Slice \in FileSlice /\ SliceStart(Slice) = Expected(turn + 1)
      /\ turn + 1 \in 1 .. Len(slices)
  BY AtSlice
<1>2. /\ turn \in Nat /\ data_offset \in Nat /\ Slice.size \in Nat /\ Len(slices) \in Nat
  BY <1>1 DEF CallInv, CallTypes, FileSlice, StoreMapInv, MapInv, FileMapTypeOK
<1>3. turn' = turn + 1 /\ data_offset' = data_offset + Slice.size /\ UNCHANGED <<block, vars>>
  BY DEF NextSlice
<1>4. /\ call'.kind = call.kind /\ call'.tag = call.tag
      /\ call' \in [kind : {"none", "write", "read"}, tag : Nat, intact : BOOLEAN]
  BY DEF CallInv, CallTypes
<1>5. CallTypes'
  BY <1>1, <1>2, <1>3, <1>4, SMTT(30) DEF CallInv, CallTypes, vars, locals
<1>6. Expected(turn + 1)' = Expected(turn + 1) + Slice.size
  <2>1. Expected(turn + 1)' = SliceEnd(slices[turn + 1])
    <3>1. turn' + 1 # 1 /\ (turn' + 1) - 1 = turn + 1
      BY <1>2, <1>3
    <3>2. UNCHANGED <<slices, files, global_offset>>
      BY <1>3 DEF vars, args, locals
    <3> QED
      BY <3>1, <3>2 DEF Expected, SliceEnd, SliceStart
  <2> QED
    BY <1>1, <2>1 DEF SliceEnd, Slice
<1>7. Expected(turn + 1) = global_offset + data_offset /\ global_offset \in Nat /\ phase = "done"
  BY DEF CallInv, Progress, InLoop, StoreMapInv, MapInv, FileMapTypeOK
<1>8. Expected(turn + 1)' = global_offset' + data_offset'
  <2>1. UNCHANGED global_offset
    BY <1>3 DEF vars, args
  <2> QED
    BY <1>2, <1>3, <1>6, <1>7, <2>1
<1>9. UNCHANGED <<phase, global_offset, length>>
  BY <1>3 DEF vars, args
<1>10. GlobalOffset(block)' = GlobalOffset(block)
  BY <1>3 DEF GlobalOffset
<1>11. Progress'
  BY <1>3, <1>4, <1>7, <1>8, <1>9, <1>10 DEF CallInv, Progress, InLoop
<1> QED
  BY <1>5, <1>11

LEMMA CallTypesNext == ASSUME CallInv, StoreNext PROVE CallTypes' /\ Progress'
<1>0. /\ CallTypes /\ Progress
      /\ Len(slices) \in Nat /\ slices \in Seq(FileSlice)
  BY DEF CallInv, StoreMapInv, MapInv, FileMapTypeOK
<1>1. CASE UNCHANGED <<vars, progress>>
  BY <1>0, <1>1 DEF CallTypes, Progress, Expected, SliceEnd, SliceStart, GlobalOffset,
                    vars, args, locals, progress
<1>2. CASE EndCall /\ UNCHANGED vars
  BY <1>0, <1>2 DEF CallTypes, Progress, EndCall, NoCall, vars, locals
<1>3. ASSUME NEW n \in Lengths, Register(n) PROVE CallTypes' /\ Progress'
  <2>1. /\ UNCHANGED <<progress, phase, locals, args>> /\ call.kind = "none"
    BY <1>3 DEF Register, AddFile, Idle
  <2> QED
    BY <1>0, <2>1 DEF CallTypes, Progress, progress, locals
<1>4. ASSUME NEW kind \in {"write", "read"}, NEW b \in Blocks(total_size) \cup Ranges, Begin(kind, b)
      PROVE  CallTypes' /\ Progress'
  <2>1. b \in Nat \X Nat \X Nat /\ GlobalOffset(b) \in Nat
    BY MapCallFits DEF CallInv
  <2>2. /\ phase' = "mapping" /\ global_offset' = GlobalOffset(b) /\ length' = b[3] /\ slices' = <<>>
        /\ call' = [kind |-> kind, tag |-> calls + 1, intact |-> TRUE]
        /\ block' = b /\ turn' = 0 /\ data_offset' = 0 /\ data' = <<>>
    BY <1>4 DEF Begin, MapBlock
  <2>3. calls \in Nat
    BY StoreAssumption DEF CallInv, RestTypes
  <2>4. CallTypes'
    BY <2>1, <2>2, <2>3 DEF CallTypes
  <2>5. GlobalOffset(block)' = GlobalOffset(b)
    BY <2>2 DEF GlobalOffset
  <2>6. Expected(turn + 1)' = global_offset'
    BY <2>2 DEF Expected
  <2>7. Progress'
    BY <2>1, <2>2, <2>3, <2>5, <2>6 DEF Progress
  <2> QED
    BY <2>4, <2>7
<1>5. CASE Map
  <2>1. /\ phase = "mapping" /\ turn = 0 /\ phase' \in {"mapping", "done"}
        /\ UNCHANGED <<progress, args>>
    BY <1>0, <1>5 DEF Map, VisitFile, Return, Progress
  <2>2. Len(slices') \in Nat
    BY <1>5, VisitFileMap, ReturnMap DEF Map, CallInv, StoreMapInv, MapInv, FileMapTypeOK
  <2>3. CallTypes'
    BY <1>0, <2>1, <2>2 DEF CallTypes, progress
  <2>4. Expected(turn + 1) = global_offset /\ Expected(turn + 1)' = global_offset'
    BY <2>1 DEF Expected, progress
  <2>5. Progress'
    BY <1>0, <2>1, <2>4 DEF Progress, GlobalOffset, progress, args
  <2> QED
    BY <2>3, <2>5
<1>6. CASE WriteSlice
  BY <1>6, NextSliceIs DEF WriteSlice
<1>7. CASE WriteSliceFails
  BY <1>7, NextSliceIs DEF WriteSliceFails
<1>8. CASE WriteSliceDropped
  BY <1>8, NextSliceIs DEF WriteSliceDropped
<1>9. CASE ReadSlice
  <2>1. /\ Slice \in FileSlice /\ Slice.file \in Files
    BY <1>9, AtSlice DEF ReadSlice
  <2> DEFINE s == Flushed(Slice.file)
             o == Slice.file_offset
             n == Slice.size
  <2>2. s \in Seq(Byte) /\ o \in Nat /\ n \in Nat /\ data \in Seq(Byte)
    BY <1>0, <2>1, FlushedIs DEF FileSlice, CallInv, CallTypes
  <2>3. o + n <= Len(s) /\ data' = data \o SubSeq(s, o + 1, o + n)
    BY <1>9 DEF ReadSlice
  <2> HIDE DEF s, o, n
  <2>4. data' \in Seq(Byte)
    BY <2>2, <2>3
  <2>5. InLoop("read") /\ NextSlice /\ UNCHANGED <<vars, call>>
    BY <1>9 DEF ReadSlice
  <2> QED
    BY <2>4, <2>5, NextSliceIs
<1>10. CASE ReadSeekFails \/ ReadPastEnd \/ ReadSliceFails \/ Finish
  BY <1>2, <1>10 DEF ReadSeekFails, ReadPastEnd, ReadSliceFails, Finish
<1>11. CASE CloseAll \/ Killed
  BY <1>1, <1>11 DEF CloseAll, Killed
<1>12. ASSUME NEW kind, OpenFile(kind) \/ OpenThrows(kind) PROVE CallTypes' /\ Progress'
  BY <1>1, <1>2, <1>12 DEF OpenFile, OpenThrows
<1> QED
  BY <1>3, <1>4, <1>5, <1>6, <1>7, <1>8, <1>9, <1>10, <1>11, <1>12
     DEF StoreNext, WriteBlock, ReadBlock

LEMMA RestTypesNext == ASSUME CallInv, StoreNext PROVE RestTypes'
<1>0. RestTypes /\ MaxCalls \in Nat /\ MaxFailures \in Nat
  BY StoreAssumption DEF CallInv
<1>1. ASSUME UNCHANGED <<process, calls, written>>, UNCHANGED failures \/ Failure PROVE RestTypes'
  BY <1>0, <1>1 DEF RestTypes, Failure
<1>2. ASSUME NEW kind, NEW b, Begin(kind, b) PROVE RestTypes'
  BY <1>0, <1>2 DEF Begin, RestTypes, history
<1>3. CASE Finish
  <2>1. block \in Nat \X Nat \X Nat
    BY DEF CallInv, CallTypes
  <2> QED
    BY <1>0, <1>3, <2>1 DEF Finish, RestTypes
<1>4. CASE CloseAll \/ Killed
  BY <1>0, <1>4 DEF CloseAll, Killed, RestTypes, history
<1>5. ASSUME NEW n, Register(n) PROVE RestTypes'
  BY <1>1, <1>5 DEF Register, history
<1>6. ASSUME NEW kind, OpenFile(kind) \/ OpenThrows(kind) PROVE RestTypes'
  BY <1>1, <1>6 DEF OpenFile, OpenThrows, history
<1>7. CASE Map \/ WriteSlice \/ WriteSliceFails \/ WriteSliceDropped \/ ReadSlice \/ ReadSeekFails
           \/ ReadPastEnd \/ ReadSliceFails
  BY <1>1, <1>7 DEF Map, WriteSlice, WriteSliceFails, WriteSliceDropped, ReadSlice, ReadSeekFails,
                    ReadPastEnd, ReadSliceFails, history
<1> QED
  BY <1>2, <1>3, <1>4, <1>5, <1>6, <1>7 DEF StoreNext, WriteBlock, ReadBlock

LEMMA CallInvInit == StoreInit => CallInv
<1> SUFFICES ASSUME StoreInit PROVE CallInv
  OBVIOUS
<1>1. StoreMapInv
  BY MapInit, FileMapAssumption DEF StoreInit, StoreMapInv, FilesOrdered, Init
<1>2. StreamTypes
  BY DEF StoreInit, StreamTypes, NoSlice, FilePart
<1>3. CallTypes /\ Progress
  BY DEF StoreInit, Init, CallTypes, Progress, NoCall
<1>4. RestTypes
  BY StoreAssumption DEF StoreInit, RestTypes
<1> QED
  BY <1>1, <1>2, <1>3, <1>4 DEF CallInv

LEMMA CallInvNext == ASSUME CallInv, [StoreNext]_storeVars PROVE CallInv'
<1>1. StoreMapInv'
  BY StoreMapNext DEF CallInv
<1>2. CASE StoreNext
  BY <1>1, <1>2, StreamTypesNext, CallTypesNext, RestTypesNext DEF CallInv
<1>3. CASE UNCHANGED storeVars
  BY <1>1, <1>3 DEF CallInv, StreamTypes, CallTypes, RestTypes, Progress, Expected, SliceEnd,
     SliceStart, GlobalOffset, storeVars, streams, progress, history, vars, args, locals
<1> QED
  BY <1>2, <1>3

\* The state of a call: data_offset is the total of the slices gone by.
THEOREM CallInvHolds == StoreSpec => []CallInv
BY CallInvInit, CallInvNext, PTL DEF StoreSpec

\* The types of DiskManager's state; only a stream that works holds anything.
THEOREM StoreTypesHold == StoreSpec => []StoreTypeOK
<1>1. CallInv => StoreTypeOK
  BY TypesSplit DEF CallInv
<1> QED
  BY <1>1, CallInvHolds, PTL

-----------------------------------------------------------------------------
\* What a file holds, against what its stream has taken.

\* The last byte a stream took for position g, of the history tk.
TakenAt(tk, g) == IF g \in DOMAIN tk THEN tk[g] ELSE Zero

\* The bytes of slice w are meant for the places of file fe they go to.
Placed(fe, w) ==
    /\ w.file_offset + Len(w.bytes) <= fe.length
    /\ \A i \in 1 .. Len(w.bytes) : w.bytes[i][2] = fe.global_offset + w.file_offset + i - 1

\* File fe, of content s, whose stream holds p and was last given l.  With what
\* its stream holds written out it is what the stream took; if something is lost,
\* in the last slice only.
FileKept(fe, s, p, l, tk, running, lost) ==
    /\ Len(s) <= fe.length
    /\ Placed(fe, l)
    /\ p # NoSlice => p = l
    /\ ~running => p = NoSlice
    /\ \A o \in 0 .. fe.length - 1 :
          /\ At(s, o) # Zero => At(s, o)[2] = fe.global_offset + o
          /\ At(Drained(s, p), o) # TakenAt(tk, fe.global_offset + o) => lost /\ Inside(l, o)

\* A byte inside a placed slice is meant for its place.
LEMMA PlacedByte ==
    ASSUME NEW fe \in FileEntry, NEW w \in FilePart, Placed(fe, w), NEW x \in Nat, Inside(w, x)
    PROVE  /\ x \in 0 .. fe.length - 1
           /\ w.bytes[x - w.file_offset + 1][2] = fe.global_offset + x
<1>1. /\ w.file_offset \in Nat /\ Len(w.bytes) \in Nat /\ fe.global_offset \in Nat /\ fe.length \in Nat
  BY DEF FilePart, FileEntry
<1>2. x - w.file_offset + 1 \in 1 .. Len(w.bytes)
  BY <1>1 DEF Inside
<1>3. x \in 0 .. fe.length - 1
  BY <1>1 DEF Placed, Inside
<1>4. w.bytes[x - w.file_offset + 1][2] = fe.global_offset + w.file_offset + (x - w.file_offset + 1) - 1
  BY <1>2 DEF Placed
<1> QED
  BY <1>1, <1>3, <1>4

\* What the stream holds may be written out at any time.
LEMMA KeptDrained ==
    ASSUME NEW fe \in FileEntry, NEW s \in Seq(Byte), NEW p \in FilePart, NEW l \in FilePart, NEW tk,
           NEW running \in BOOLEAN, NEW lost \in BOOLEAN, NEW lost2 \in BOOLEAN, NEW running2 \in BOOLEAN,
           FileKept(fe, s, p, l, tk, running, lost), lost => lost2
    PROVE  /\ FileKept(fe, Drained(s, p), NoSlice, l, tk, running2, lost2)
           /\ Drained(s, p) \in Seq(Byte)
<1> DEFINE d == Drained(s, p)
<1>0. NoSlice \in FilePart
  BY DEF NoSlice, FilePart
<1>1. /\ d \in Seq(Byte)
      /\ Len(d) = Len(s) \/ (Len(d) = p.file_offset + Len(p.bytes) /\ p # NoSlice)
      /\ \A x \in Nat : At(d, x) = IF Inside(p, x) THEN p.bytes[x - p.file_offset + 1] ELSE At(s, x)
  BY DrainedIs
<1>2. Drained(d, NoSlice) = d
  BY <1>0, <1>1, DrainedIs
<1> HIDE DEF d
<1>3. Len(d) <= fe.length
  <2>1. Len(s) <= fe.length /\ (p # NoSlice => p = l) /\ l.file_offset + Len(l.bytes) <= fe.length
    BY DEF FileKept, Placed
  <2> QED
    BY <1>1, <2>1
<1>4. ASSUME NEW o \in 0 .. fe.length - 1, At(d, o) # Zero PROVE At(d, o)[2] = fe.global_offset + o
  <2>1. o \in Nat
    BY DEF FileEntry
  <2>2. CASE Inside(p, o)
    <3>1. p = l
      <4>1. p # NoSlice
        BY <2>1, <2>2 DEF NoSlice, Inside
      <4> QED
        BY <4>1 DEF FileKept
    <3>2. Placed(fe, p)
      BY <3>1 DEF FileKept
    <3> QED
      BY <1>1, <2>1, <2>2, <3>2, PlacedByte
  <2>3. CASE ~Inside(p, o)
    BY <1>1, <1>4, <2>1, <2>3 DEF FileKept
  <2> QED
    BY <2>2, <2>3
<1>5. ASSUME NEW o \in 0 .. fe.length - 1, At(d, o) # TakenAt(tk, fe.global_offset + o)
      PROVE  lost2 /\ Inside(l, o)
  BY <1>5 DEF FileKept, d
<1> QED
  BY <1>1, <1>2, <1>3, <1>4, <1>5 DEF FileKept, d

\* The stream takes a slice, into the file or not.
LEMMA KeptWrite ==
    ASSUME NEW fe \in FileEntry, NEW s \in Seq(Byte), NEW l \in FilePart, NEW tk, NEW tk2,
           NEW w \in FilePart, Placed(fe, w),
           FileKept(fe, s, NoSlice, l, tk, TRUE, FALSE),
           \A o \in 0 .. fe.length - 1 :
              TakenAt(tk2, fe.global_offset + o) =
                 IF Inside(w, o) THEN w.bytes[o - w.file_offset + 1]
                 ELSE TakenAt(tk, fe.global_offset + o)
    PROVE  /\ FileKept(fe, s, w, w, tk2, TRUE, FALSE)
           /\ FileKept(fe, Splice(s, w.file_offset, w.bytes), NoSlice, w, tk2, TRUE, FALSE)
<1>1. NoSlice \in FilePart
  BY DEF NoSlice, FilePart
<1>2. /\ Drained(s, w) \in Seq(Byte) /\ Drained(s, NoSlice) = s
      /\ \A x \in Nat : At(Drained(s, w), x) = IF Inside(w, x) THEN w.bytes[x - w.file_offset + 1] ELSE At(s, x)
  BY <1>1, DrainedIs
<1>3. \A o \in 0 .. fe.length - 1 : o \in Nat
  BY DEF FileEntry
<1>4. \A o \in 0 .. fe.length - 1 : At(s, o) = TakenAt(tk, fe.global_offset + o)
  BY <1>2 DEF FileKept
<1>5. \A o \in 0 .. fe.length - 1 : At(Drained(s, w), o) = TakenAt(tk2, fe.global_offset + o)
  BY <1>2, <1>3, <1>4
<1>6. FileKept(fe, s, w, w, tk2, TRUE, FALSE)
  BY <1>5 DEF FileKept
<1>7. FileKept(fe, Drained(s, w), NoSlice, w, tk2, TRUE, FALSE)
  BY <1>6, KeptDrained
<1>8. CASE w.bytes # <<>>
  BY <1>6, <1>7, <1>8 DEF Drained
<1>9. CASE w.bytes = <<>>
  <2> DEFINE t == Splice(s, w.file_offset, w.bytes)
  <2>1. /\ t \in Seq(Byte) /\ Len(w.bytes) = 0 /\ w.file_offset \in Nat
        /\ Len(t) = IF Len(s) < w.file_offset + Len(w.bytes)
                      THEN w.file_offset + Len(w.bytes) ELSE Len(s)
        /\ \A x \in Nat : At(t, x) = IF Inside(w, x) THEN w.bytes[x - w.file_offset + 1] ELSE At(s, x)
    BY <1>9, SpliceIs DEF FilePart
  <2>2. Drained(t, NoSlice) = t
    BY <1>1, <2>1, DrainedIs
  <2> HIDE DEF t
  <2>3. \A x \in Nat : At(t, x) = At(s, x) /\ At(Drained(s, w), x) = At(s, x)
    BY <1>2, <2>1 DEF Inside
  <2>4. Len(t) <= fe.length
    BY <2>1 DEF FileKept, Placed
  <2>5. FileKept(fe, t, NoSlice, w, tk2, TRUE, FALSE)
    BY <1>3, <1>6, <2>2, <2>3, <2>4 DEF FileKept
  <2> QED
    BY <1>6, <2>5 DEF t
<1> QED
  BY <1>8, <1>9

\* A slice breaks off on the way into the file: what differs is in that slice.
LEMMA KeptBroken ==
    ASSUME NEW fe \in FileEntry, NEW s \in Seq(Byte), NEW l \in FilePart, NEW tk,
           NEW w \in FilePart, Placed(fe, w), NEW c \in BrokenOff(s, w),
           \A o \in 0 .. fe.length - 1 :
              At(s, o) # TakenAt(tk, fe.global_offset + o) => Inside(w, o),
           FileKept(fe, s, NoSlice, l, tk, TRUE, TRUE)
    PROVE  FileKept(fe, c, NoSlice, w, tk, TRUE, TRUE)
<1>1. NoSlice \in FilePart
  BY DEF NoSlice, FilePart
<1>2. /\ c \in Seq(Byte)
      /\ Len(c) = Len(s) \/ Len(c) <= w.file_offset + Len(w.bytes)
      /\ \A x \in Nat :
            \/ At(c, x) = At(s, x)
            \/ Inside(w, x) /\ At(c, x) = w.bytes[x - w.file_offset + 1]
  BY BrokenOffIs
<1>3. Drained(c, NoSlice) = c
  BY <1>1, <1>2, DrainedIs
<1>4. Len(c) <= fe.length
  <2>1. Len(s) \in Nat /\ Len(c) \in Nat /\ fe.length \in Nat /\ w.file_offset + Len(w.bytes) \in Nat
    BY <1>2 DEF FileEntry, FilePart
  <2> QED
    BY <1>2, <2>1 DEF FileKept, Placed
<1>5. ASSUME NEW o \in 0 .. fe.length - 1
      PROVE  /\ At(c, o) # Zero => At(c, o)[2] = fe.global_offset + o
             /\ At(c, o) # TakenAt(tk, fe.global_offset + o) => Inside(w, o)
  <2>1. o \in Nat
    BY DEF FileEntry
  <2>2. CASE At(c, o) = At(s, o)
    BY <2>2 DEF FileKept
  <2>3. CASE Inside(w, o) /\ At(c, o) = w.bytes[o - w.file_offset + 1]
    BY <2>1, <2>3, PlacedByte
  <2> QED
    BY <1>2, <2>1, <2>2, <2>3
<1> QED
  BY <1>3, <1>4, <1>5 DEF FileKept

-----------------------------------------------------------------------------
\* Every file, at every step.

Lost(f) == stream[f] = "failed" \/ process = "killed"

FileInv(f) ==
    FileKept(files[f], disk[f], pending[f], last[f], taken, process = "running", Lost(f))

\* Nothing is written before the files are all registered.
Fresh ==
    phase = "adding" =>
        /\ call.kind = "none"
        /\ \A f \in Files : disk[f] = <<>> /\ pending[f] = NoSlice /\ last[f] = NoSlice
        /\ taken = <<>>
        /\ written = {}

\* What was taken for a position came from a call, and was meant for it.
TakenOK == \A g \in DOMAIN taken : g \in Nat /\ \E n \in Nat \ {0} : taken[g] = <<n, g>>

KeptInv == CallInv /\ Fresh /\ TakenOK /\ \A f \in DOMAIN files : FileInv(f)

\* Two files have no position in common.
LEMMA FilesApart ==
    ASSUME StoreMapInv, NEW f \in DOMAIN files, NEW h \in DOMAIN files, f # h,
           NEW x \in 0 .. files[f].length - 1, NEW y \in 0 .. files[h].length - 1
    PROVE  files[f].global_offset + x # files[h].global_offset + y
<1>1. /\ files \in Seq(FileEntry) /\ Len(files) \in Nat /\ f \in 1 .. Len(files) /\ h \in 1 .. Len(files)
  BY DEF StoreMapInv, MapInv, FileMapTypeOK
<1>2. files[f] \in FileEntry /\ files[h] \in FileEntry
  BY <1>1
<1>3. /\ files[f].length \in Nat /\ files[f].global_offset \in Nat
      /\ files[h].length \in Nat /\ files[h].global_offset \in Nat
  BY <1>2 DEF FileEntry
<1>4. f \in 1 .. h - 1 \/ h \in 1 .. f - 1
  BY <1>1
<1>5. \/ files[f].global_offset + files[f].length <= files[h].global_offset
      \/ files[h].global_offset + files[h].length <= files[f].global_offset
  BY <1>4 DEF StoreMapInv, FilesOrdered
<1> QED
  BY <1>3, <1>5

\* A file a step does not touch stays as it was.
LEMMA KeptUntouched ==
    ASSUME NEW f \in DOMAIN files, FileInv(f),
           files'[f] = files[f], disk'[f] = disk[f], pending'[f] = pending[f], last'[f] = last[f],
           \A o \in 0 .. files[f].length - 1 :
              TakenAt(taken', files[f].global_offset + o) = TakenAt(taken, files[f].global_offset + o),
           UNCHANGED process, Lost(f) => Lost(f)'
    PROVE  FileInv(f)'
BY DEF FileInv, FileKept

\* A step on the stream of one file leaves the other files alone.
LEMMA KeptOneFile ==
    ASSUME KeptInv, phase = "done", process = "running", UNCHANGED <<vars, process>>,
           NEW k \in DOMAIN files, NEW s2, NEW p2, NEW l2, NEW t2,
           disk' = [disk EXCEPT ![k] = s2],
           pending' = [pending EXCEPT ![k] = p2],
           last' = [last EXCEPT ![k] = l2],
           stream' = [stream EXCEPT ![k] = t2],
           \A h \in DOMAIN files \ {k} : \A o \in 0 .. files[h].length - 1 :
              TakenAt(taken', files[h].global_offset + o) = TakenAt(taken, files[h].global_offset + o),
           NEW lost \in BOOLEAN, lost <=> t2 = "failed",
           FileKept(files[k], s2, p2, l2, taken', TRUE, lost),
           TakenOK'
    PROVE  Fresh' /\ TakenOK' /\ \A f \in DOMAIN files' : FileInv(f)'
<1>1. CallInv /\ UNCHANGED <<files, phase>>
  BY DEF KeptInv, vars
<1>2. Fresh'
  BY <1>1 DEF Fresh
<1>3. DOMAIN files \subseteq Files
  BY FileMapAssumption DEF KeptInv, CallInv, StoreMapInv, MapInv, FileMapTypeOK, FilesOrdered, Files
<1>4. /\ disk \in [Files -> Seq(Byte)] /\ pending \in [Files -> FilePart]
      /\ last \in [Files -> FilePart] /\ stream \in [Files -> {"unopened", "good", "failed"}]
  BY <1>1 DEF CallInv, StreamTypes
<1>5. ASSUME NEW h \in DOMAIN files, h # k PROVE FileInv(h)'
  <2>1. /\ disk'[h] = disk[h] /\ pending'[h] = pending[h] /\ last'[h] = last[h]
        /\ stream'[h] = stream[h]
    BY <1>3, <1>4, <1>5
  <2>2. Lost(h) => Lost(h)'
    BY <2>1 DEF Lost
  <2>3. FileInv(h)
    BY DEF KeptInv
  <2> QED
    BY <1>1, <1>5, <2>1, <2>2, <2>3, KeptUntouched
<1>6. FileInv(k)'
  <2>1. /\ disk'[k] = s2 /\ pending'[k] = p2 /\ last'[k] = l2 /\ stream'[k] = t2
    BY <1>3, <1>4
  <2>2. files'[k] = files[k] /\ process' = "running"
    BY <1>1
  <2>3. Lost(k)' <=> t2 = "failed"
    BY <2>1, <2>2 DEF Lost
  <2> QED
    BY <2>1, <2>2, <2>3 DEF FileInv, FileKept
<1>7. \A f \in DOMAIN files' : FileInv(f)'
  BY <1>1, <1>5, <1>6
<1> QED
  BY <1>2, <1>7

\* The file of the slice, when its stream works.
LEMMA AtFile ==
    ASSUME KeptInv, NEW kind \in {"write", "read"}, InLoop(kind), NEW k, k = Slice.file,
           stream[k] = "good"
    PROVE  /\ k \in DOMAIN files /\ k \in Files /\ files[k] \in FileEntry
           /\ disk[k] \in Seq(Byte) /\ pending[k] \in FilePart /\ last[k] \in FilePart
           /\ Flushed(k) = Drained(disk[k], pending[k]) /\ Flushed(k) \in Seq(Byte)
           /\ FileKept(files[k], disk[k], pending[k], last[k], taken, TRUE, FALSE)
           /\ FileKept(files[k], Flushed(k), NoSlice, last[k], taken, TRUE, FALSE)
           /\ phase = "done" /\ process = "running"
<1>1. /\ CallInv /\ StreamTypes
      /\ k \in DOMAIN files /\ k \in Files /\ files[k] \in FileEntry
  BY AtSlice DEF KeptInv, CallInv
<1>2. disk[k] \in Seq(Byte) /\ pending[k] \in FilePart /\ last[k] \in FilePart
  BY <1>1 DEF StreamTypes
<1>3. /\ Flushed(k) = Drained(disk[k], pending[k])
  BY DEF Flushed, Drained
<1>4. phase = "done" /\ process = "running"
  BY DEF InLoop
<1>5. FileKept(files[k], disk[k], pending[k], last[k], taken, TRUE, FALSE)
  <2>1. FileInv(k) /\ ~Lost(k)
    BY <1>1, <1>4 DEF KeptInv, Lost
  <2> QED
    BY <1>4, <2>1 DEF FileInv, FileKept
<1>6. /\ FileKept(files[k], Drained(disk[k], pending[k]), NoSlice, last[k], taken, TRUE, FALSE)
      /\ Drained(disk[k], pending[k]) \in Seq(Byte)
  BY <1>1, <1>2, <1>5, KeptDrained
<1> QED
  BY <1>1, <1>2, <1>3, <1>4, <1>5, <1>6

LEMMA KeptWriteSlice ==
    ASSUME KeptInv, WriteSlice
    PROVE  Fresh' /\ TakenOK' /\ \A f \in DOMAIN files' : FileInv(f)'
<1>1. PICK k : k = Slice.file
  OBVIOUS
<1>2. PICK w : w = WrittenSlice
  OBVIOUS
<1> DEFINE fe == files[k]
           n == Slice.size
           positions == {Position(data_offset + i - 1) : i \in 1 .. n}
<1>3. InLoop("write") /\ stream[k] = "good" /\ CallInv
  BY <1>1 DEF WriteSlice, KeptInv
<1>4. /\ k \in DOMAIN files /\ k \in Files /\ fe \in FileEntry
      /\ FileKept(fe, Flushed(k), NoSlice, last[k], taken, TRUE, FALSE)
      /\ Flushed(k) \in Seq(Byte) /\ last[k] \in FilePart
      /\ phase = "done" /\ process = "running"
  BY <1>1, <1>3, AtFile
<1>5. /\ Slice \in FileSlice /\ SliceStart(Slice) = Position(data_offset)
      /\ Slice.file_offset + n <= fe.length
  BY <1>1, <1>3, AtSlice
<1>6. /\ w \in FilePart /\ w.file_offset = Slice.file_offset /\ Len(w.bytes) = n
      /\ \A i \in 1 .. n : w.bytes[i] = <<call.tag, SliceStart(Slice) + i - 1>>
  BY <1>2, <1>3, SliceWritten
<1>7. /\ n \in Nat /\ w.file_offset \in Nat /\ fe.global_offset \in Nat /\ fe.length \in Nat
      /\ SliceStart(Slice) = fe.global_offset + w.file_offset
  BY <1>1, <1>4, <1>5, <1>6 DEF FileSlice, FileEntry, SliceStart
<1>8. \A i \in 1 .. n : Position(data_offset + i - 1) = fe.global_offset + w.file_offset + i - 1
  <2>1. data_offset \in Nat /\ block \in Nat \X Nat \X Nat /\ PieceLength \in Nat
    BY <1>3, LayoutAssumption DEF CallInv, CallTypes
  <2>2. PieceStart(block[1]) \in Nat /\ block[2] \in Nat
    BY <2>1 DEF PieceStart
  <2>3. \A i \in 1 .. n : Position(data_offset + i - 1) = Position(data_offset) + i - 1
    BY <1>7, <2>1, <2>2 DEF Position
  <2> QED
    BY <1>5, <1>7, <2>3
<1>9. taken' = [g \in DOMAIN taken \cup positions |->
                  IF g \in positions THEN <<call.tag, g>> ELSE taken[g]]
  BY DEF WriteSlice
<1> HIDE DEF fe, n
<1>10. \A g : g \in positions <=> \E i \in 1 .. n : g = fe.global_offset + w.file_offset + i - 1
  BY <1>8
<1> HIDE DEF positions
<1>11. call.tag \in Nat \ {0}
  BY <1>3 DEF CallInv, CallTypes, Progress, InLoop
<1>12. TakenOK'
  <2>1. \A g \in positions : g \in Nat
    BY <1>7, <1>10
  <2>2. ASSUME NEW g \in DOMAIN taken'
        PROVE  g \in Nat /\ \E m \in Nat \ {0} : taken'[g] = <<m, g>>
    <3>1. CASE g \in positions
      BY <1>9, <1>11, <2>1, <3>1
    <3>2. CASE g \notin positions
      BY <1>9, <3>2 DEF KeptInv, TakenOK
    <3> QED
      BY <3>1, <3>2
  <2> QED
    BY <2>2 DEF TakenOK
<1>13. ASSUME NEW g PROVE TakenAt(taken', g) = IF g \in positions THEN <<call.tag, g>> ELSE TakenAt(taken, g)
  BY <1>9 DEF TakenAt
<1>14. ASSUME NEW o \in 0 .. fe.length - 1
       PROVE  TakenAt(taken', fe.global_offset + o) =
                 IF Inside(w, o) THEN w.bytes[o - w.file_offset + 1]
                 ELSE TakenAt(taken, fe.global_offset + o)
  <2>1. o \in Nat
    BY <1>7
  <2>2. CASE Inside(w, o)
    <3>1. o - w.file_offset + 1 \in 1 .. n
      BY <1>6, <1>7, <2>1, <2>2 DEF Inside
    <3>2. fe.global_offset + w.file_offset + (o - w.file_offset + 1) - 1 = fe.global_offset + o
      BY <1>7, <2>1
    <3>3. fe.global_offset + o \in positions
      BY <1>10, <3>1, <3>2
    <3>4. w.bytes[o - w.file_offset + 1] = <<call.tag, fe.global_offset + o>>
      BY <1>6, <1>7, <3>1, <3>2
    <3> QED
      BY <1>13, <2>2, <3>3, <3>4
  <2>3. CASE ~Inside(w, o)
    <3>1. fe.global_offset + o \notin positions
      BY <1>6, <1>7, <1>10, <2>1, <2>3 DEF Inside
    <3> QED
      BY <1>13, <2>3, <3>1
  <2> QED
    BY <2>2, <2>3
<1>15. Placed(fe, w)
  <2>1. \A i \in 1 .. n : w.bytes[i][2] = fe.global_offset + w.file_offset + i - 1
    BY <1>6, <1>7
  <2> QED
    BY <1>5, <1>6, <2>1 DEF Placed, n
<1>16. /\ FileKept(fe, Flushed(k), w, w, taken', TRUE, FALSE)
       /\ FileKept(fe, Splice(Flushed(k), w.file_offset, w.bytes), NoSlice, w, taken', TRUE, FALSE)
  <2>1. fe \in FileEntry /\ FileKept(fe, Flushed(k), NoSlice, last[k], taken, TRUE, FALSE)
    BY <1>4 DEF fe
  <2> QED
    <3>1. w \in FilePart /\ Flushed(k) \in Seq(Byte) /\ last[k] \in FilePart
      BY <1>4, <1>6
    <3> HIDE DEF fe
    <3> QED
      BY <1>14, <1>15, <2>1, <3>1, KeptWrite
<1>17. \A h \in DOMAIN files \ {k} : \A o \in 0 .. files[h].length - 1 :
          TakenAt(taken', files[h].global_offset + o) = TakenAt(taken, files[h].global_offset + o)
  <2> SUFFICES ASSUME NEW h \in DOMAIN files \ {k}, NEW o \in 0 .. files[h].length - 1
               PROVE  files[h].global_offset + o \notin positions
    BY <1>13
  <2> SUFFICES ASSUME NEW i \in 1 .. n,
                      files[h].global_offset + o = fe.global_offset + w.file_offset + i - 1
               PROVE  FALSE
    BY <1>10
  <2>1. w.file_offset + i - 1 \in 0 .. fe.length - 1
    <3>1. /\ n \in Nat /\ w.file_offset \in Nat /\ fe.length \in Nat
          /\ w.file_offset + n <= fe.length
      BY <1>5, <1>6, <1>7
    <3> HIDE DEF fe, n
    <3> QED
      BY <3>1
  <2>2. fe.global_offset + (w.file_offset + i - 1) # files[h].global_offset + o
    BY <1>3, <1>4, <2>1, FilesApart DEF CallInv, fe
  <2> QED
    BY <1>7, <2>2
<1>18. /\ UNCHANGED <<vars, process, stream>>
       /\ last' = [last EXCEPT ![k] = w]
       /\ \/ /\ disk' = [disk EXCEPT ![k] = Splice(Flushed(k), w.file_offset, w.bytes)]
             /\ pending' = [pending EXCEPT ![k] = NoSlice]
          \/ disk' = [disk EXCEPT ![k] = Flushed(k)] /\ pending' = [pending EXCEPT ![k] = w]
  BY <1>1, <1>2 DEF WriteSlice
<1>19. stream' = [stream EXCEPT ![k] = "good"]
  <2>1. stream \in [Files -> {"unopened", "good", "failed"}]
    BY <1>3 DEF CallInv, StreamTypes
  <2> QED
    BY <1>3, <1>4, <1>18, <2>1
<1>20. /\ FileKept(files[k], Flushed(k), w, w, taken', TRUE, FALSE)
       /\ FileKept(files[k], Splice(Flushed(k), w.file_offset, w.bytes), NoSlice, w, taken', TRUE, FALSE)
  BY <1>16 DEF fe
<1>21. CASE /\ disk' = [disk EXCEPT ![k] = Splice(Flushed(k), w.file_offset, w.bytes)]
            /\ pending' = [pending EXCEPT ![k] = NoSlice]
  BY <1>4, <1>12, <1>17, <1>18, <1>19, <1>20, <1>21, KeptOneFile
<1>22. CASE disk' = [disk EXCEPT ![k] = Flushed(k)] /\ pending' = [pending EXCEPT ![k] = w]
  BY <1>4, <1>12, <1>17, <1>18, <1>19, <1>20, <1>22, KeptOneFile
<1> QED
  BY <1>18, <1>21, <1>22

\* What a stream holds is dropped: a slice, the last one, is lost.
LEMMA KeptDropped ==
    ASSUME NEW fe \in FileEntry, NEW s \in Seq(Byte), NEW p \in FilePart, NEW l \in FilePart, NEW tk,
           NEW running \in BOOLEAN, NEW running2 \in BOOLEAN, NEW lost \in BOOLEAN,
           FileKept(fe, s, p, l, tk, running, lost)
    PROVE  FileKept(fe, s, NoSlice, l, tk, running2, TRUE)
<1>1. NoSlice \in FilePart
  BY DEF NoSlice, FilePart
<1>2. /\ Drained(s, NoSlice) = s
      /\ \A x \in Nat : ~Inside(p, x) => At(Drained(s, p), x) = At(s, x)
  BY <1>1, DrainedIs
<1>3. ASSUME NEW o \in 0 .. fe.length - 1, At(s, o) # TakenAt(tk, fe.global_offset + o)
      PROVE  Inside(l, o)
  <2>1. o \in Nat
    BY DEF FileEntry
  <2>2. CASE Inside(p, o)
    <3>1. p # NoSlice
      BY <2>1, <2>2 DEF NoSlice, Inside
    <3> QED
      BY <2>2, <3>1 DEF FileKept
  <2>3. CASE ~Inside(p, o)
    BY <1>2, <1>3, <2>1, <2>3 DEF FileKept
  <2> QED
    BY <2>2, <2>3
<1> QED
  BY <1>2, <1>3 DEF FileKept

LEMMA KeptFails ==
    ASSUME KeptInv, NEW kind \in {"write", "read"}, InLoop(kind),
           NEW k, k = Slice.file, stream[k] = "good", UNCHANGED <<vars, process, taken>>,
           NEW c, StreamFails(k, c), NEW l \in FilePart, last' = [last EXCEPT ![k] = l],
           FileKept(files[k], c, NoSlice, l, taken, TRUE, TRUE)
    PROVE  Fresh' /\ TakenOK' /\ \A f \in DOMAIN files' : FileInv(f)'
<1>1. k \in DOMAIN files /\ phase = "done" /\ process = "running"
  BY AtFile
<1>2. TakenOK'
  BY DEF KeptInv, TakenOK
<1>3. /\ disk' = [disk EXCEPT ![k] = c]
      /\ pending' = [pending EXCEPT ![k] = NoSlice]
      /\ stream' = [stream EXCEPT ![k] = "failed"]
      /\ taken' = taken
  BY DEF StreamFails
<1>4. FileKept(files[k], c, NoSlice, l, taken', TRUE, TRUE)
  BY <1>3
<1> QED
  BY <1>1, <1>2, <1>3, <1>4, KeptOneFile

LEMMA KeptSliceFails ==
    ASSUME KeptInv, NEW kind \in {"write", "read"}, InLoop(kind),
           NEW k, k = Slice.file, stream[k] = "good"
    PROVE  /\ last[k] \in FilePart
           /\ [last EXCEPT ![k] = last[k]] = last
           /\ FileKept(files[k], Flushed(k), NoSlice, last[k], taken, TRUE, TRUE)
           /\ \A c \in BrokenOff(disk[k], pending[k]) :
                 FileKept(files[k], c, NoSlice, last[k], taken, TRUE, TRUE)
           /\ \A w \in FilePart : Placed(files[k], w) =>
                 \A c \in BrokenOff(Flushed(k), w) :
                    FileKept(files[k], c, NoSlice, w, taken, TRUE, TRUE)
<1> DEFINE fe == files[k]
<1>1. /\ k \in DOMAIN files /\ k \in Files /\ fe \in FileEntry
      /\ disk[k] \in Seq(Byte) /\ pending[k] \in FilePart /\ last[k] \in FilePart
      /\ Flushed(k) \in Seq(Byte)
      /\ FileKept(fe, disk[k], pending[k], last[k], taken, TRUE, FALSE)
      /\ FileKept(fe, Flushed(k), NoSlice, last[k], taken, TRUE, FALSE)
  BY AtFile
<1> HIDE DEF fe
<1>2. /\ FileKept(fe, disk[k], NoSlice, last[k], taken, TRUE, TRUE)
      /\ FileKept(fe, Flushed(k), NoSlice, last[k], taken, TRUE, TRUE)
  <2>1. NoSlice \in FilePart
    BY DEF NoSlice, FilePart
  <2> QED
    BY <1>1, <2>1, KeptDropped
<1>3. NoSlice \in FilePart /\ \A s \in Seq(Byte) : Drained(s, NoSlice) = s
  <2>1. NoSlice \in FilePart
    BY DEF NoSlice, FilePart
  <2> QED
    BY <2>1, DrainedIs
<1>4. ASSUME NEW c \in BrokenOff(disk[k], pending[k])
      PROVE  FileKept(fe, c, NoSlice, last[k], taken, TRUE, TRUE)
  <2>1. pending[k] # NoSlice
    BY DEF BrokenOff, NoSlice
  <2>2. pending[k] = last[k] /\ Placed(fe, last[k])
    BY <1>1, <2>1 DEF FileKept
  <2>3. \A o \in 0 .. fe.length - 1 :
           At(disk[k], o) # TakenAt(taken, fe.global_offset + o) => Inside(last[k], o)
    BY <1>1, <1>2, <1>3 DEF FileKept
  <2>4. c \in BrokenOff(disk[k], last[k])
    BY <2>2
  <2> QED
    BY <1>1, <1>2, <2>2, <2>3, <2>4, KeptBroken
<1>5. ASSUME NEW w \in FilePart, Placed(fe, w), NEW c \in BrokenOff(Flushed(k), w)
      PROVE  FileKept(fe, c, NoSlice, w, taken, TRUE, TRUE)
  <2>1. \A o \in 0 .. fe.length - 1 :
           At(Flushed(k), o) # TakenAt(taken, fe.global_offset + o) => Inside(w, o)
    BY <1>1, <1>3 DEF FileKept
  <2> QED
    BY <1>1, <1>2, <1>5, <2>1, KeptBroken
<1>6. [last EXCEPT ![k] = last[k]] = last
  <2>1. last \in [Files -> FilePart]
    BY DEF KeptInv, CallInv, StreamTypes
  <2> QED
    BY <1>1, <2>1
<1> QED
  BY <1>1, <1>2, <1>4, <1>5, <1>6 DEF fe

LEMMA KeptWriteFails ==
    ASSUME KeptInv, WriteSliceFails
    PROVE  Fresh' /\ TakenOK' /\ \A f \in DOMAIN files' : FileInv(f)'
<1>1. PICK k : k = Slice.file
  OBVIOUS
<1>2. PICK w : w = WrittenSlice
  OBVIOUS
<1>3. /\ InLoop("write") /\ stream[k] = "good" /\ CallInv
      /\ UNCHANGED <<vars, process, taken>>
  BY <1>1 DEF WriteSliceFails, KeptInv
<1>4. w \in FilePart /\ Placed(files[k], w)
  <2>1. /\ Slice \in FileSlice /\ files[k] \in FileEntry
        /\ Slice.file_offset + Slice.size <= files[k].length
    BY <1>1, <1>3, AtSlice
  <2>2. /\ w \in FilePart /\ w.file_offset = Slice.file_offset /\ Len(w.bytes) = Slice.size
        /\ \A i \in 1 .. Slice.size : w.bytes[i] = <<call.tag, SliceStart(Slice) + i - 1>>
    BY <1>2, <1>3, SliceWritten
  <2>3. SliceStart(Slice) = files[k].global_offset + w.file_offset
    BY <1>1, <2>2 DEF SliceStart
  <2> QED
    BY <2>1, <2>2, <2>3 DEF Placed, FileSlice, FileEntry
<1>5. CASE UNCHANGED last /\ \E c \in BrokenOff(disk[k], pending[k]) : StreamFails(k, c)
  <2>1. PICK c \in BrokenOff(disk[k], pending[k]) : StreamFails(k, c)
    BY <1>5
  <2>2. last' = [last EXCEPT ![k] = last[k]] /\ last[k] \in FilePart
    BY <1>1, <1>3, <1>5, KeptSliceFails
  <2>3. FileKept(files[k], c, NoSlice, last[k], taken, TRUE, TRUE)
    BY <1>1, <1>3, KeptSliceFails
  <2> QED
    BY <1>1, <1>3, <2>1, <2>2, <2>3, KeptFails
<1>6. CASE /\ last' = [last EXCEPT ![k] = w]
           /\ \E c \in BrokenOff(Flushed(k), w) : StreamFails(k, c)
  <2>1. PICK c \in BrokenOff(Flushed(k), w) : StreamFails(k, c)
    BY <1>6
  <2>2. FileKept(files[k], c, NoSlice, w, taken, TRUE, TRUE)
    BY <1>1, <1>3, <1>4, KeptSliceFails
  <2> QED
    BY <1>1, <1>3, <1>4, <1>6, <2>1, <2>2, KeptFails
<1> QED
  BY <1>1, <1>2, <1>5, <1>6 DEF WriteSliceFails

LEMMA KeptReads ==
    ASSUME KeptInv, ReadSlice \/ ReadSeekFails \/ ReadPastEnd
    PROVE  Fresh' /\ TakenOK' /\ \A f \in DOMAIN files' : FileInv(f)'
<1>1. PICK k : k = Slice.file
  OBVIOUS
<1>2. /\ InLoop("read") /\ stream[k] = "good" /\ CallInv
      /\ UNCHANGED <<vars, process, taken, last>>
  BY <1>1 DEF ReadSlice, ReadSeekFails, ReadPastEnd, KeptInv, history
<1>3. last' = [last EXCEPT ![k] = last[k]] /\ last[k] \in FilePart
  BY <1>1, <1>2, KeptSliceFails
<1>4. CASE ReadSlice
  <2>1. /\ k \in DOMAIN files /\ k \in Files /\ phase = "done" /\ process = "running"
        /\ FileKept(files[k], Flushed(k), NoSlice, last[k], taken, TRUE, FALSE)
    BY <1>1, <1>2, AtFile
  <2>2. /\ disk' = [disk EXCEPT ![k] = Flushed(k)]
        /\ pending' = [pending EXCEPT ![k] = NoSlice]
        /\ UNCHANGED stream
    BY <1>1, <1>4 DEF ReadSlice
  <2>3. stream' = [stream EXCEPT ![k] = "good"]
    BY <1>2, <2>1, <2>2 DEF CallInv, StreamTypes
  <2>4. TakenOK' /\ taken' = taken
    BY <1>2 DEF KeptInv, TakenOK
  <2>5. FileKept(files[k], Flushed(k), NoSlice, last[k], taken', TRUE, FALSE)
    BY <2>1, <2>4
  <2> QED
    BY <1>2, <1>3, <2>1, <2>2, <2>3, <2>4, <2>5, KeptOneFile
<1>5. CASE ReadSeekFails
  <2>1. PICK c \in BrokenOff(disk[k], pending[k]) : StreamFails(k, c)
    BY <1>1, <1>5 DEF ReadSeekFails
  <2>2. FileKept(files[k], c, NoSlice, last[k], taken, TRUE, TRUE)
    BY <1>1, <1>2, KeptSliceFails
  <2> QED
    BY <1>1, <1>2, <1>3, <2>1, <2>2, KeptFails
<1>6. CASE ReadPastEnd
  <2>1. StreamFails(k, Flushed(k))
    BY <1>1, <1>6 DEF ReadPastEnd
  <2>2. FileKept(files[k], Flushed(k), NoSlice, last[k], taken, TRUE, TRUE)
    BY <1>1, <1>2, KeptSliceFails
  <2> QED
    BY <1>1, <1>2, <1>3, <2>1, <2>2, KeptFails
<1> QED
  BY <1>4, <1>5, <1>6

LEMMA KeptQuiet ==
    ASSUME KeptInv, UNCHANGED <<files, disk, pending, last, taken, process>>,
           \A f \in Files : stream[f] = "failed" => stream'[f] = "failed",
           phase' # "adding" \/ UNCHANGED <<phase, call, written>>
    PROVE  Fresh' /\ TakenOK' /\ \A f \in DOMAIN files' : FileInv(f)'
<1>1. DOMAIN files \subseteq Files
  BY FileMapAssumption DEF KeptInv, CallInv, StoreMapInv, MapInv, FileMapTypeOK, FilesOrdered, Files
<1>2. Fresh' /\ TakenOK'
  BY DEF KeptInv, Fresh, TakenOK
<1>3. ASSUME NEW f \in DOMAIN files PROVE FileInv(f)'
  <2>1. FileInv(f) /\ (Lost(f) => Lost(f)')
    BY <1>1 DEF KeptInv, Lost
  <2> QED
    BY <2>1, KeptUntouched
<1> QED
  BY <1>2, <1>3

LEMMA KeptRegister ==
    ASSUME KeptInv, NEW n \in Lengths, Register(n)
    PROVE  Fresh' /\ TakenOK' /\ \A f \in DOMAIN files' : FileInv(f)'
<1>1. /\ phase = "adding" /\ phase' = "adding" /\ UNCHANGED <<streams, call, process, history>>
  BY DEF Register, AddFile, progress
<1>2. /\ call.kind = "none" /\ taken = <<>> /\ written = {}
      /\ \A f \in Files : disk[f] = <<>> /\ pending[f] = NoSlice /\ last[f] = NoSlice
  BY <1>1 DEF KeptInv, Fresh
<1>3. Fresh' /\ TakenOK'
  BY <1>1, <1>2 DEF Fresh, TakenOK, streams, history
<1>4. /\ files' \in Seq(FileEntry) /\ DOMAIN files' \subseteq Files
  <2>1. StoreMapInv
    BY DEF KeptInv, CallInv
  <2>2. Register(n) => StoreNext
    BY DEF StoreNext
  <2>3. StoreMapInv'
    BY <2>1, <2>2, StoreMapNext
  <2> QED
    BY <2>3, FileMapAssumption DEF StoreMapInv, MapInv, FileMapTypeOK, FilesOrdered, Files
<1>5. ASSUME NEW f \in DOMAIN files' PROVE FileInv(f)'
  <2>1. f \in Files /\ files'[f] \in FileEntry
    BY <1>4
  <2>2. /\ disk'[f] = <<>> /\ pending'[f] = NoSlice /\ last'[f] = NoSlice /\ taken' = <<>>
    BY <1>1, <1>2, <2>1 DEF streams, history
  <2>3. NoSlice.bytes = <<>> /\ NoSlice.file_offset = 0 /\ Len(<<>>) = 0
    BY DEF NoSlice
  <2>4. Drained(<<>>, NoSlice) = <<>>
    BY <2>3 DEF Drained
  <2>5. \A x : At(<<>>, x) = Zero /\ TakenAt(<<>>, x) = Zero
    BY DEF At, TakenAt
  <2>6. Placed(files'[f], NoSlice)
    BY <2>1, <2>3 DEF Placed, FileEntry
  <2> QED
    BY <2>1, <2>2, <2>3, <2>4, <2>5, <2>6 DEF FileInv, FileKept, FileEntry
<1> QED
  BY <1>3, <1>5

LEMMA KeptEnd ==
    ASSUME KeptInv, CloseAll \/ Killed
    PROVE  Fresh' /\ TakenOK' /\ \A f \in DOMAIN files' : FileInv(f)'
<1>1. /\ UNCHANGED <<vars, stream, call, history>> /\ process' \in {"closed", "killed"}
      /\ process = "running"
      /\ pending' = [f \in Files |-> NoSlice]
  BY DEF CloseAll, Killed, progress, Idle
<1>2. /\ StreamTypes
      /\ DOMAIN files \subseteq Files /\ files \in Seq(FileEntry)
  BY FileMapAssumption
     DEF KeptInv, CallInv, StoreMapInv, MapInv, FileMapTypeOK, FilesOrdered, Files
<1>3. \A f \in Files : disk[f] = <<>> /\ pending[f] = NoSlice => Flushed(f) = <<>>
  BY DEF Flushed, NoSlice
<1>4. Fresh' /\ TakenOK'
  <2>1. ASSUME phase = "adding", NEW f \in Files PROVE disk'[f] = <<>>
    BY <1>3, <2>1 DEF CloseAll, Killed, KeptInv, Fresh
  <2> QED
    BY <1>1, <2>1 DEF KeptInv, Fresh, TakenOK, vars, history
<1>5. ASSUME NEW f \in DOMAIN files PROVE FileInv(f)'
  <2>1. /\ f \in Files /\ files[f] \in FileEntry
        /\ disk[f] \in Seq(Byte) /\ pending[f] \in FilePart /\ last[f] \in FilePart
    BY <1>2 DEF StreamTypes
  <2>2. /\ FileKept(files[f], disk[f], pending[f], last[f], taken, TRUE, Lost(f))
        /\ Lost(f) \in BOOLEAN
    <3>1. FileInv(f)
      BY DEF KeptInv
    <3> QED
      BY <1>1, <3>1 DEF FileInv, FileKept, Lost
  <2>3. /\ UNCHANGED <<files, taken, last>> /\ pending'[f] = NoSlice /\ process' # "running"
    BY <1>1, <2>1 DEF vars, history
  <2>4. CASE CloseAll
    <3>1. disk'[f] = Drained(disk[f], pending[f]) /\ (Lost(f) => Lost(f)') /\ Lost(f)' \in BOOLEAN
      <4>1. disk'[f] = Drained(disk[f], pending[f])
        <5>1. disk' = [g \in Files |-> Flushed(g)]
          BY <2>4, Zenon DEF CloseAll
        <5> QED
          BY <2>1, <5>1 DEF Flushed, Drained
      <4>2. stream' = stream /\ process' = "closed" /\ process = "running"
        BY <1>1, <2>4, Zenon DEF CloseAll
      <4> QED
        BY <4>1, <4>2 DEF Lost
    <3>2. FileKept(files[f], Drained(disk[f], pending[f]), NoSlice, last[f], taken, FALSE, Lost(f)')
      <4>1. PICK a \in BOOLEAN, b \in BOOLEAN : a = Lost(f) /\ b = Lost(f)'
        BY <2>2, <3>1, Zenon
      <4>2. (a => b) /\ FileKept(files[f], disk[f], pending[f], last[f], taken, TRUE, a)
        BY <2>2, <3>1, <4>1, Zenon
      <4>3. FileKept(files[f], Drained(disk[f], pending[f]), NoSlice, last[f], taken, FALSE, b)
        BY <2>1, <4>2, KeptDrained
      <4> QED
        BY <4>1, <4>3, Zenon
    <3> QED
      BY <2>3, <3>1, <3>2 DEF FileInv, FileKept
  <2>5. CASE Killed
    <3>1. disk'[f] = disk[f] /\ Lost(f)'
      BY <2>5 DEF Killed, Lost
    <3>2. FileKept(files[f], disk[f], NoSlice, last[f], taken, FALSE, TRUE)
      BY <2>1, <2>2, KeptDropped
    <3> QED
      BY <2>3, <3>1, <3>2 DEF FileInv, FileKept
  <2> QED
    BY <2>4, <2>5
<1> QED
  BY <1>1, <1>4, <1>5 DEF vars

LEMMA KeptNext == ASSUME KeptInv, [StoreNext]_storeVars PROVE KeptInv'
<1>1. CallInv'
  BY CallInvNext DEF KeptInv
<1> DEFINE Goal == Fresh' /\ TakenOK' /\ \A f \in DOMAIN files' : FileInv(f)'
<1> SUFFICES Goal
  BY <1>1 DEF KeptInv
<1> HIDE DEF Goal
<1>2. CASE UNCHANGED storeVars
  BY <1>2, KeptQuiet DEF Goal, storeVars, streams, history, vars, progress
<1>3. ASSUME NEW n \in Lengths, Register(n) PROVE Goal
  BY <1>3, KeptRegister DEF Goal
<1>4. ASSUME NEW kind, NEW b, Begin(kind, b) PROVE Goal
  BY <1>4, KeptQuiet DEF Goal, Begin, MapBlock, streams, history
<1>5. CASE Map
  <2>1. phase' # "adding" /\ UNCHANGED <<files, streams, process, history>>
    BY <1>5 DEF Map, VisitFile, Return
  <2> QED
    BY <2>1, KeptQuiet DEF Goal, streams, history
<1>6. ASSUME NEW kind \in {"write", "read"}, OpenFile(kind) \/ OpenThrows(kind) PROVE Goal
  <2>1. /\ phase' # "adding" /\ UNCHANGED <<files, disk, pending, process, last, taken>>
    BY <1>6 DEF OpenFile, OpenThrows, InLoop, vars, streams, history
  <2>2. \A f \in Files : stream[f] = "failed" => stream'[f] = "failed"
    BY <1>6 DEF OpenFile, OpenThrows, streams, KeptInv, CallInv, StreamTypes
  <2> QED
    BY <2>1, <2>2, KeptQuiet DEF Goal
<1>7. CASE WriteSliceDropped \/ ReadSliceFails \/ Finish
  <2>1. /\ phase' # "adding" /\ UNCHANGED <<files, streams, process, last, taken>>
    BY <1>7 DEF WriteSliceDropped, ReadSliceFails, Finish, InLoop, vars, history
  <2> QED
    BY <2>1, KeptQuiet DEF Goal, streams
<1>8. CASE WriteSlice
  BY <1>8, KeptWriteSlice DEF Goal
<1>9. CASE WriteSliceFails
  BY <1>9, KeptWriteFails DEF Goal
<1>10. CASE ReadSlice \/ ReadSeekFails \/ ReadPastEnd
  BY <1>10, KeptReads DEF Goal
<1>11. CASE CloseAll \/ Killed
  BY <1>11, KeptEnd DEF Goal
<1> QED
  BY <1>2, <1>3, <1>4, <1>5, <1>6, <1>7, <1>8, <1>9, <1>10, <1>11
     DEF StoreNext, WriteBlock, ReadBlock

LEMMA KeptInit == StoreInit => KeptInv
<1> SUFFICES ASSUME StoreInit PROVE KeptInv
  OBVIOUS
<1>1. CallInv
  BY CallInvInit
<1>2. Fresh
  BY DEF StoreInit, Fresh, NoCall
<1>3. TakenOK /\ \A f \in DOMAIN files : FileInv(f)
  BY DEF StoreInit, Init, TakenOK
<1> QED
  BY <1>1, <1>2, <1>3 DEF KeptInv

\* File and stream together hold what was taken, but for the last slice.
THEOREM KeptInvHolds == StoreSpec => []KeptInv
BY KeptInit, KeptNext, PTL DEF StoreSpec

\* For every list of files and every sequence of calls, failures and kills, whatever
\* is in a file is where its sender meant it to be (disk_manager.cpp:61-101).
THEOREM StoredInPlace == StoreSpec => []BytesInPlace
<1>1. ASSUME KeptInv PROVE BytesInPlace
  <2> SUFFICES ASSUME NEW f \in DOMAIN files
               PROVE  /\ Len(disk[f]) <= files[f].length
                      /\ \A i \in DOMAIN disk[f] :
                            disk[f][i] # Zero => disk[f][i][2] = files[f].global_offset + i - 1
    BY DEF BytesInPlace
  <2>a. f \in Files /\ disk[f] \in Seq(Byte) /\ files[f] \in FileEntry
    BY <1>1, FileMapAssumption DEF KeptInv, CallInv, StoreMapInv, MapInv, FileMapTypeOK, FilesOrdered,
       Files, StreamTypes
  <2>1. /\ f \in Files /\ disk[f] \in Seq(Byte) /\ files[f] \in FileEntry
        /\ files[f].global_offset \in Nat /\ files[f].length \in Nat
    BY <2>a DEF FileEntry
  <2>2. /\ Len(disk[f]) <= files[f].length
        /\ \A o \in 0 .. files[f].length - 1 :
              At(disk[f], o) # Zero => At(disk[f], o)[2] = files[f].global_offset + o
    BY <1>1 DEF KeptInv, FileInv, FileKept
  <2>3. ASSUME NEW i \in DOMAIN disk[f], disk[f][i] # Zero
        PROVE  disk[f][i][2] = files[f].global_offset + i - 1
    <3>1. i \in 1 .. Len(disk[f]) /\ Len(disk[f]) \in Nat
      BY <2>1
    <3>2. i - 1 \in 0 .. files[f].length - 1 /\ (i - 1) + 1 = i
      BY <2>1, <2>2, <3>1
    <3>3. At(disk[f], i - 1) = disk[f][i]
      BY <3>2 DEF At
    <3>4. disk[f][i][2] = files[f].global_offset + (i - 1)
      BY <2>2, <2>3, <3>2, <3>3
    <3> QED
      BY <2>1, <3>1, <3>4
  <2> QED
    BY <2>2, <2>3
<1> QED
  BY <1>1, KeptInvHolds, PTL

\* Of what a file's stream was given while it worked, a failure, or the _Exit of the signal
\* handler, costs nothing but the last slice (main.cpp:11-18).
THEOREM LossIsBounded == StoreSpec => []OnlyLastSliceAtRisk
<1>1. ASSUME KeptInv PROVE OnlyLastSliceAtRisk
  <2> SUFFICES ASSUME NEW f \in DOMAIN files, NEW o \in 0 .. files[f].length - 1,
                      At(disk[f], o) # TakenAt(taken, files[f].global_offset + o)
               PROVE  Inside(last[f], o)
    BY DEF OnlyLastSliceAtRisk, At, TakenAt, Inside
  <2>1. /\ f \in Files /\ disk[f] \in Seq(Byte) /\ files[f] \in FileEntry
        /\ pending[f] \in FilePart /\ last[f] \in FilePart
    BY <1>1, FileMapAssumption DEF KeptInv, CallInv, StoreMapInv, MapInv, FileMapTypeOK, FilesOrdered,
       Files, StreamTypes
  <2>2. FileInv(f)
    BY <1>1 DEF KeptInv
  <2>3. FileKept(files[f], disk[f], NoSlice, last[f], taken, TRUE, TRUE)
    BY <2>1, <2>2, KeptDropped DEF FileInv, Lost
  <2>4. Drained(disk[f], NoSlice) = disk[f]
    BY DEF Drained, NoSlice
  <2> QED
    BY <2>3, <2>4 DEF FileKept
<1> QED
  BY <1>1, KeptInvHolds, PTL

-----------------------------------------------------------------------------
\* What is read, and what is written.

\* read_block has, of the first data_offset bytes, what was last taken for them.
ReadInv ==
    call.kind = "read" =>
        /\ Len(data) = data_offset
        /\ \A i \in 1 .. data_offset : data[i] = TakenAt(taken, Position(i - 1))

\* While no slice of a write failed, what it is done with has been taken.
WriteInv ==
    call.kind = "write" /\ call.intact =>
        \A i \in 0 .. data_offset - 1 : Position(i) \in DOMAIN taken

\* Of a block that was written, every byte inside the torrent has been taken.
Covered == \A b \in written : \A g \in BytesOf(b) : g < total_size => g \in DOMAIN taken

StoreInv == KeptInv /\ ReadInv /\ WriteInv /\ Covered

\* No step forgets what was taken.
LEMMA TakenGrows == ASSUME KeptInv, [StoreNext]_storeVars PROVE DOMAIN taken \subseteq DOMAIN taken'
<1>1. CASE UNCHANGED taken
  BY <1>1
<1>2. CASE WriteSlice
  BY <1>2 DEF WriteSlice
<1>3. ASSUME NEW kind, NEW b, Begin(kind, b) PROVE UNCHANGED taken
  BY <1>3 DEF Begin, history
<1>4. ASSUME NEW kind, OpenFile(kind) \/ OpenThrows(kind) PROVE UNCHANGED taken
  BY <1>4 DEF OpenFile, OpenThrows, history
<1>5. ASSUME NEW n, Register(n) PROVE UNCHANGED taken
  BY <1>5 DEF Register, history
<1>6. CASE Map \/ WriteSliceFails \/ WriteSliceDropped \/ ReadSlice \/ ReadSeekFails
           \/ ReadPastEnd \/ ReadSliceFails \/ Finish \/ CloseAll \/ Killed \/ UNCHANGED storeVars
  BY <1>1, <1>6 DEF Map, WriteSliceFails, WriteSliceDropped, ReadSlice, ReadSeekFails,
                    ReadPastEnd, ReadSliceFails, Finish, CloseAll, Killed, storeVars, history
<1> QED
  BY <1>1, <1>2, <1>3, <1>4, <1>5, <1>6 DEF StoreNext, WriteBlock, ReadBlock

\* The files and the total size do not change once something is written.
LEMMA TotalFixed == ASSUME KeptInv, [StoreNext]_storeVars, written # {} PROVE UNCHANGED total_size
<1>1. phase # "adding"
  BY DEF KeptInv, Fresh
<1>2. CASE UNCHANGED vars
  BY <1>2 DEF vars
<1>3. ASSUME NEW kind, NEW b, Begin(kind, b) PROVE UNCHANGED total_size
  BY <1>3 DEF Begin, MapBlock
<1>4. ASSUME NEW kind, OpenFile(kind) \/ OpenThrows(kind) PROVE UNCHANGED vars
  BY <1>4 DEF OpenFile, OpenThrows
<1>5. ASSUME NEW n, Register(n) PROVE FALSE
  BY <1>1, <1>5 DEF Register, AddFile
<1>6. CASE Map
  BY <1>6 DEF Map, VisitFile, Return
<1>7. CASE WriteSlice \/ WriteSliceFails \/ WriteSliceDropped \/ ReadSlice \/ ReadSeekFails
           \/ ReadPastEnd \/ ReadSliceFails \/ Finish \/ CloseAll \/ Killed \/ UNCHANGED storeVars
  BY <1>2, <1>7 DEF WriteSlice, WriteSliceFails, WriteSliceDropped, ReadSlice, ReadSeekFails,
                    ReadPastEnd, ReadSliceFails, Finish, CloseAll, Killed, storeVars
<1> QED
  BY <1>2, <1>3, <1>4, <1>5, <1>6, <1>7 DEF StoreNext, WriteBlock, ReadBlock

\* A call that is over has gone through its block, as far as that is in the torrent.
LEMMA FinishCovers ==
    ASSUME StoreInv, Finish, call.kind = "write", call.intact, NEW g \in BytesOf(block), g < total_size
    PROVE  g \in DOMAIN taken
<1>1. /\ phase = "done" /\ turn = Len(slices) /\ CallInv
  BY DEF Finish, StoreInv, KeptInv
<1>2. /\ block \in Nat \X Nat \X Nat /\ data_offset \in Nat /\ PieceLength \in Nat
      /\ global_offset = GlobalOffset(block) /\ length = block[3]
      /\ Expected(turn + 1) = global_offset + data_offset
  BY <1>1, LayoutAssumption DEF CallInv, CallTypes, Progress
<1>3. /\ current_offset = Expected(turn + 1)
      /\ current_offset + bytes_left = global_offset + length
      /\ bytes_left > 0 => current_offset >= total_size
      /\ bytes_left \in Nat /\ total_size \in Nat /\ global_offset \in Nat
  BY <1>1 DEF CallInv, StoreMapInv, MapInv, SlicesTile, Exhausted, FileMapTypeOK
<1>4. PieceStart(block[1]) + block[2] = global_offset /\ PieceStart(block[1]) \in Nat
  BY <1>2 DEF PieceStart, GlobalOffset
<1>5. /\ g \in Int /\ global_offset <= g /\ g <= global_offset + length - 1
  BY <1>2, <1>4 DEF BytesOf
<1>6. g - global_offset \in 0 .. data_offset - 1
  BY <1>2, <1>3, <1>5
<1>7. Position(g - global_offset) = g
  BY <1>2, <1>3, <1>4, <1>5 DEF Position
<1> QED
  BY <1>6, <1>7 DEF StoreInv, WriteInv

LEMMA CoveredNext == ASSUME StoreInv, [StoreNext]_storeVars PROVE Covered'
<1>1. KeptInv /\ Covered
  BY DEF StoreInv
<1>2. CASE UNCHANGED written
  <2> SUFFICES ASSUME NEW b \in written, NEW g \in BytesOf(b), g < total_size' PROVE g \in DOMAIN taken'
    BY <1>2 DEF Covered
  <2>1. total_size' = total_size /\ DOMAIN taken \subseteq DOMAIN taken'
    BY <1>1, TotalFixed, TakenGrows
  <2> QED
    BY <1>1, <2>1 DEF Covered
<1>3. CASE Finish
  <2>1. UNCHANGED <<total_size, taken>>
    BY <1>3 DEF Finish, vars
  <2>2. \/ written' = written
        \/ call.kind = "write" /\ call.intact /\ written' = written \cup {block}
    BY <1>3 DEF Finish
  <2>3. CASE written' = written
    BY <1>2, <2>3
  <2>4. CASE call.kind = "write" /\ call.intact /\ written' = written \cup {block}
    <3> SUFFICES ASSUME NEW b \in written', NEW g \in BytesOf(b), g < total_size
                 PROVE  g \in DOMAIN taken
      BY <2>1 DEF Covered
    <3>1. CASE b = block
      BY <1>3, <2>4, <3>1, FinishCovers
    <3>2. CASE b \in written
      BY <1>1, <3>2 DEF Covered
    <3> QED
      BY <2>4, <3>1, <3>2
  <2> QED
    BY <2>2, <2>3, <2>4
<1>4. ASSUME NEW kind, NEW b, Begin(kind, b) PROVE UNCHANGED written
  BY <1>4 DEF Begin, history
<1>5. ASSUME NEW kind, OpenFile(kind) \/ OpenThrows(kind) PROVE UNCHANGED written
  BY <1>5 DEF OpenFile, OpenThrows, history
<1>6. ASSUME NEW n, Register(n) PROVE UNCHANGED written
  BY <1>6 DEF Register, history
<1>7. CASE Map \/ WriteSlice \/ WriteSliceFails \/ WriteSliceDropped \/ ReadSlice \/ ReadSeekFails
           \/ ReadPastEnd \/ ReadSliceFails \/ CloseAll \/ Killed \/ UNCHANGED storeVars
  BY <1>2, <1>7 DEF Map, WriteSlice, WriteSliceFails, WriteSliceDropped, ReadSlice, ReadSeekFails,
                    ReadPastEnd, ReadSliceFails, CloseAll, Killed, storeVars, history
<1> QED
  BY <1>2, <1>3, <1>4, <1>5, <1>6, <1>7 DEF StoreNext, WriteBlock, ReadBlock

\* read_block appends what the file has for the slice, and that is what was taken.
LEMMA ReadSliceReads == ASSUME StoreInv, ReadSlice PROVE ReadInv'
<1>1. PICK k : k = Slice.file
  OBVIOUS
<1>2. PICK s : s = Flushed(k)
  OBVIOUS
<1> DEFINE fe == files[k]
           o == Slice.file_offset
           n == Slice.size
<1>3. InLoop("read") /\ stream[k] = "good" /\ KeptInv /\ CallInv
  BY <1>1 DEF ReadSlice, StoreInv, KeptInv
<1>4. /\ fe \in FileEntry /\ s \in Seq(Byte)
      /\ FileKept(fe, s, NoSlice, last[k], taken, TRUE, FALSE)
  BY <1>1, <1>2, <1>3, AtFile
<1>5. /\ Slice \in FileSlice /\ fe.global_offset + o = Position(data_offset)
      /\ o + n <= fe.length
  BY <1>1, <1>3, AtSlice DEF SliceStart
<1>6. /\ o \in Nat /\ n \in Nat /\ fe.global_offset \in Nat /\ fe.length \in Nat
      /\ Len(s) \in Nat
  BY <1>4, <1>5 DEF FileSlice, FileEntry
<1>7. /\ o + n <= Len(s)
      /\ data' = data \o SubSeq(s, o + 1, o + n)
      /\ UNCHANGED <<call, block, taken>>
      /\ data_offset' = data_offset + n
  BY <1>1, <1>2 DEF ReadSlice, NextSlice, history
<1>8. /\ data \in Seq(Byte) /\ Len(data) = data_offset /\ data_offset \in Nat
      /\ \A i \in 1 .. data_offset : data[i] = TakenAt(taken, Position(i - 1))
  BY <1>3 DEF StoreInv, ReadInv, InLoop, CallInv, CallTypes
<1> HIDE DEF fe, o, n
<1>9. \A j \in 0 .. n - 1 : At(s, o + j) = TakenAt(taken, Position(data_offset + j))
  <2> SUFFICES ASSUME NEW j \in 0 .. n - 1
               PROVE  At(s, o + j) = TakenAt(taken, Position(data_offset + j))
    OBVIOUS
  <2>1. o + j \in 0 .. fe.length - 1
    BY <1>5, <1>6 DEF o, n
  <2>2. NoSlice \in FilePart
    BY DEF NoSlice, FilePart
  <2>3. Drained(s, NoSlice) = s
    BY <1>4, <2>2, DrainedIs
  <2>4. At(s, o + j) = TakenAt(taken, fe.global_offset + (o + j))
    BY <1>4, <2>1, <2>3 DEF FileKept
  <2>5. fe.global_offset + (o + j) = Position(data_offset + j)
    <3>1. block \in Nat \X Nat \X Nat /\ PieceLength \in Nat
      BY <1>3, LayoutAssumption DEF CallInv, CallTypes
    <3>2. PieceStart(block[1]) \in Nat /\ block[2] \in Nat
      BY <3>1 DEF PieceStart
    <3>3. Position(data_offset + j) = Position(data_offset) + j
      BY <1>8, <3>2 DEF Position
    <3> QED
      BY <1>5, <1>6, <3>3 DEF o
  <2> QED
    BY <2>4, <2>5
<1>14. /\ Len(data') = data_offset + n
       /\ \A i \in 1 .. data_offset : data'[i] = data[i]
       /\ \A j \in 0 .. n - 1 : data'[data_offset + 1 + j] = At(s, o + j)
  <2>1. o + n <= Len(s) /\ data' = data \o SubSeq(s, o + 1, o + n)
    BY <1>7 DEF o, n
  <2>2. PICK t : t = SubSeq(s, o + 1, o + n)
    OBVIOUS
  <2>3. /\ t \in Seq(Byte) /\ Len(t) = n
        /\ \A j \in 0 .. n - 1 : t[1 + j] = At(s, o + j)
    <3>1. PICK q \in Nat : q = o
      BY <1>6
    <3>2. PICK m \in Nat : m = n
      BY <1>6
    <3>3. s \in Seq(Byte) /\ Len(s) \in Nat /\ q + m <= Len(s) /\ t = SubSeq(s, q + 1, q + m)
      BY <1>4, <1>6, <2>1, <2>2, <3>1, <3>2
    <3>4. \A i \in q + 1 .. q + m : s[i] \in Byte
      BY <3>3
    <3>5. /\ t \in Seq(Byte) /\ Len(t) = m
          /\ \A j \in 1 .. m : t[j] = s[q + 1 + j - 1]
      BY <3>3, <3>4
    <3>6. ASSUME NEW j \in 0 .. m - 1 PROVE t[1 + j] = At(s, q + j)
      <4>1. PICK i \in 1 .. m : i = 1 + j
        OBVIOUS
      <4>2. t[i] = s[q + 1 + i - 1]
        BY <3>5, <4>1
      <4>3. PICK at \in Nat : at = q + j
        OBVIOUS
      <4>4. q + 1 + i - 1 = at + 1 /\ at + 1 \in 1 .. Len(s)
        BY <3>3, <4>1, <4>3
      <4>5. at + 1 \in DOMAIN s
        BY <3>3, <4>4
      <4>6. At(s, at) = s[at + 1]
        BY <4>5 DEF At
      <4> QED
        BY <4>1, <4>2, <4>3, <4>4, <4>6
    <3> QED
      BY <3>1, <3>2, <3>5, <3>6
  <2>4. data' = data \o t
    BY <2>1, <2>2
  <2>5. /\ Len(data') = Len(data) + Len(t)
        /\ \A i \in 1 .. Len(data) + Len(t) :
              data'[i] = IF i <= Len(data) THEN data[i] ELSE t[i - Len(data)]
    BY <1>8, <2>3, <2>4, ConcatProperties
  <2>6. \A i \in 1 .. data_offset + n :
           data'[i] = IF i <= data_offset THEN data[i] ELSE t[i - data_offset]
    BY <1>8, <2>3, <2>5
  <2>7. \A i \in 1 .. data_offset : data'[i] = data[i]
    BY <1>6, <1>8, <2>6
  <2>8. ASSUME NEW j \in 0 .. n - 1 PROVE data'[data_offset + 1 + j] = At(s, o + j)
    <3>1. PICK i : i = data_offset + 1 + j
      OBVIOUS
    <3>2. i \in 1 .. data_offset + n /\ ~(i <= data_offset) /\ i - data_offset = 1 + j
      BY <1>6, <1>8, <3>1
    <3> QED
      BY <2>3, <2>6, <3>1, <3>2
  <2> QED
    BY <1>8, <2>3, <2>5, <2>7, <2>8
<1>15. \A i \in 1 .. data_offset + n : data'[i] = TakenAt(taken, Position(i - 1))
  <2> SUFFICES ASSUME NEW i \in 1 .. data_offset + n
               PROVE  data'[i] = TakenAt(taken, Position(i - 1))
    OBVIOUS
  <2>1. CASE i \in 1 .. data_offset
    BY <1>8, <1>14, <2>1
  <2>2. CASE i \notin 1 .. data_offset
    <3>1. PICK j \in 0 .. n - 1 : i = data_offset + 1 + j
      <4>1. i - data_offset - 1 \in 0 .. n - 1 /\ i = data_offset + 1 + (i - data_offset - 1)
        BY <1>6, <1>8, <2>2
      <4> QED
        BY <4>1
    <3>2. i - 1 = data_offset + j
      BY <1>6, <1>8, <3>1
    <3> QED
      BY <1>9, <1>14, <3>1, <3>2
  <2> QED
    BY <2>1, <2>2
<1>16. \A i \in 1 .. data_offset' : Position(i - 1)' = Position(i - 1)
  BY <1>7 DEF Position, PieceStart
<1> QED
  BY <1>7, <1>14, <1>15, <1>16 DEF ReadInv, n

\* write_block goes on to the next slice when the stream has taken this one.
LEMMA WriteSliceTakes == ASSUME StoreInv, WriteSlice PROVE WriteInv'
<1> DEFINE n == Slice.size
           positions == {Position(data_offset + i - 1) : i \in 1 .. n}
<1>1. /\ InLoop("write") /\ CallInv /\ Slice \in FileSlice
  BY AtSlice DEF WriteSlice, StoreInv, KeptInv
<1>2. n \in Nat /\ data_offset \in Nat
  BY <1>1 DEF FileSlice, CallInv, CallTypes
<1>3. /\ DOMAIN taken' = DOMAIN taken \cup positions
      /\ UNCHANGED <<call, block>> /\ data_offset' = data_offset + n
  BY DEF WriteSlice, NextSlice
<1> HIDE DEF n
<1>5. ASSUME call.intact, NEW i \in 0 .. data_offset + n - 1 PROVE Position(i) \in DOMAIN taken'
  <2>1. CASE i \in 0 .. data_offset - 1
    BY <1>1, <1>3, <1>5, <2>1 DEF StoreInv, WriteInv, InLoop
  <2>2. CASE i \notin 0 .. data_offset - 1
    <3>1. i - data_offset + 1 \in 1 .. n /\ data_offset + (i - data_offset + 1) - 1 = i
      BY <1>2, <2>2
    <3>2. Position(i) \in positions
      BY <3>1
    <3> QED
      BY <1>3, <3>2
  <2> QED
    BY <2>1, <2>2
<1>6. call'.intact => \A i \in 0 .. data_offset' - 1 : Position(i)' \in DOMAIN taken'
  <2> SUFFICES ASSUME call'.intact, NEW i \in 0 .. data_offset' - 1 PROVE Position(i)' \in DOMAIN taken'
    OBVIOUS
  <2>1. data_offset' = data_offset + n /\ call.intact
    BY <1>3 DEF n
  <2>2. i \in 0 .. data_offset + n - 1
    BY <1>2, <2>1
  <2>4. Position(i) \in DOMAIN taken'
    BY <1>5, <2>1, <2>2
  <2>3. Position(i)' = Position(i)
    BY <1>3 DEF Position, PieceStart
  <2> QED
    BY <2>3, <2>4
<1> QED
  BY <1>6 DEF WriteInv

LEMMA DataNext == ASSUME StoreInv, [StoreNext]_storeVars PROVE ReadInv' /\ WriteInv'
<1>1. KeptInv /\ ReadInv /\ WriteInv /\ CallInv
  BY DEF StoreInv, KeptInv
<1>2. CASE UNCHANGED <<progress, taken>>
  BY <1>1, <1>2 DEF ReadInv, WriteInv, Position, PieceStart, progress
<1>3. CASE EndCall
  BY <1>3 DEF EndCall, NoCall, ReadInv, WriteInv
<1>4. ASSUME NEW kind \in {"write", "read"}, NEW b, Begin(kind, b) PROVE ReadInv' /\ WriteInv'
  <2>1. data_offset' = 0 /\ data' = <<>>
    BY <1>4 DEF Begin
  <2> QED
    BY <2>1 DEF ReadInv, WriteInv
<1>5. ASSUME NEW kind \in {"write", "read"}, OpenFile(kind) \/ OpenThrows(kind)
      PROVE  ReadInv' /\ WriteInv'
  BY <1>2, <1>3, <1>5 DEF OpenFile, OpenThrows, history
<1>6. ASSUME NEW n, Register(n) PROVE ReadInv' /\ WriteInv'
  BY <1>2, <1>6 DEF Register, history
<1>7. CASE Map \/ CloseAll \/ Killed \/ UNCHANGED storeVars
  BY <1>2, <1>7 DEF Map, CloseAll, Killed, storeVars, history
<1>8. CASE ReadSeekFails \/ ReadPastEnd \/ ReadSliceFails \/ Finish
  BY <1>3, <1>8 DEF ReadSeekFails, ReadPastEnd, ReadSliceFails, Finish
<1>9. CASE WriteSliceFails \/ WriteSliceDropped
  <2>1. call' = [call EXCEPT !.intact = FALSE] /\ call.kind = "write"
    BY <1>9 DEF WriteSliceFails, WriteSliceDropped, InLoop
  <2>2. call'.kind = "write" /\ ~call'.intact
    BY <1>1, <2>1 DEF CallInv, CallTypes
  <2> QED
    BY <2>2 DEF ReadInv, WriteInv
<1>10. CASE WriteSlice
  <2>1. call'.kind = "write"
    BY <1>10 DEF WriteSlice, InLoop
  <2> QED
    BY <1>10, <2>1, WriteSliceTakes DEF ReadInv
<1>11. CASE ReadSlice
  <2>1. call'.kind = "read"
    BY <1>11 DEF ReadSlice, InLoop
  <2> QED
    BY <1>11, <2>1, ReadSliceReads DEF WriteInv
<1> QED
  BY <1>4, <1>5, <1>6, <1>7, <1>8, <1>9, <1>10, <1>11 DEF StoreNext, WriteBlock, ReadBlock

\* What the call under way has read or written so far is right.
THEOREM StoreInvHolds == StoreSpec => []StoreInv
<1>1. StoreInit => StoreInv
  <2> SUFFICES ASSUME StoreInit PROVE StoreInv
    OBVIOUS
  <2>1. ReadInv /\ WriteInv /\ Covered
    BY DEF StoreInit, NoCall, ReadInv, WriteInv, Covered
  <2> QED
    BY <2>1, KeptInit DEF StoreInv
<1>2. StoreInv /\ [StoreNext]_storeVars => StoreInv'
  BY KeptNext, DataNext, CoveredNext DEF StoreInv
<1> QED
  BY <1>1, <1>2, PTL DEF StoreSpec

\* What read_block reads is what write_block was last given for those bytes, over
\* file borders, streams that still hold it, and failures (disk_manager.cpp:103-127).
THEOREM ReadsAreWrites == StoreSpec => []ReadIsLastWrite
<1>1. ASSUME StoreInv PROVE ReadIsLastWrite
  <2> SUFFICES ASSUME call.kind = "read"
               PROVE  data = [i \in 1 .. data_offset |-> TakenAt(taken, Position(i - 1))]
    BY DEF ReadIsLastWrite, TakenAt
  <2>1. /\ data \in Seq(Byte) /\ Len(data) = data_offset
        /\ \A i \in 1 .. data_offset : data[i] = TakenAt(taken, Position(i - 1))
    BY <1>1 DEF StoreInv, KeptInv, CallInv, CallTypes, ReadInv
  <2> QED
    BY <2>1
<1> QED
  BY <1>1, StoreInvHolds, PTL

\* When every block was written and the streams were closed in order, without having
\* failed, the files are the torrent, to the last byte: the layout of init_active_piece, the
\* file map and the streams fit together.
THEOREM WholeTorrentWritten == StoreSpec => []WrittenTorrentIsWhole
<1>1. ASSUME StoreInv PROVE WrittenTorrentIsWhole
  <2> SUFFICES ASSUME Blocks(total_size) \subseteq written, process = "closed",
                      \A f \in Files : stream[f] # "failed", NEW f \in DOMAIN files
               PROVE  /\ Len(disk[f]) = files[f].length
                      /\ \A i \in DOMAIN disk[f] : disk[f][i] = taken[files[f].global_offset + i - 1]
    BY DEF WrittenTorrentIsWhole
  <2>1. /\ f \in Files /\ disk[f] \in Seq(Byte) /\ files[f] \in FileEntry /\ total_size \in Nat
    BY <1>1, FileMapAssumption DEF StoreInv, KeptInv, CallInv, StoreMapInv, MapInv, FileMapTypeOK,
       FilesOrdered, Files, StreamTypes
  <2>2. /\ files[f].global_offset \in Nat /\ files[f].length \in Nat /\ Len(disk[f]) \in Nat
        /\ DOMAIN disk[f] = 1 .. Len(disk[f])
    BY <2>1 DEF FileEntry
  <2>3. files[f].global_offset + files[f].length <= total_size
    BY <1>1 DEF StoreInv, KeptInv, CallInv, StoreMapInv, FilesOrdered
  <2>4. FileKept(files[f], disk[f], pending[f], last[f], taken, FALSE, FALSE)
    BY <1>1, <2>1 DEF StoreInv, KeptInv, FileInv, FileKept, Lost
  <2>5. pending[f] = NoSlice /\ Drained(disk[f], NoSlice) = disk[f]
    BY <2>4 DEF FileKept, Drained, NoSlice
  <2>6. ASSUME NEW o \in 0 .. files[f].length - 1
        PROVE  /\ files[f].global_offset + o \in DOMAIN taken
               /\ o + 1 \in DOMAIN disk[f]
               /\ disk[f][o + 1] = taken[files[f].global_offset + o]
    <3> DEFINE g == files[f].global_offset + o
    <3>1. g \in 0 .. total_size - 1
      BY <2>1, <2>2, <2>3
    <3>2. PICK b \in Blocks(total_size) : g \in BytesOf(b)
      BY <2>1, <3>1, ByteHasBlock
    <3>3. g \in DOMAIN taken
      BY <1>1, <2>1, <3>1, <3>2 DEF StoreInv, Covered
    <3>4. At(disk[f], o) = taken[g]
      BY <2>4, <2>5, <3>3 DEF FileKept, TakenAt
    <3>5. taken[g] # Zero
      BY <1>1, <3>3 DEF StoreInv, KeptInv, TakenOK, Zero
    <3> QED
      BY <3>3, <3>4, <3>5 DEF At
  <2>7. Len(disk[f]) = files[f].length
    <3>1. Len(disk[f]) <= files[f].length
      BY <2>4 DEF FileKept
    <3>2. CASE files[f].length = 0
      BY <2>2, <3>1, <3>2
    <3>3. CASE files[f].length # 0
      <4>1. files[f].length - 1 \in 0 .. files[f].length - 1
        BY <2>2, <3>3
      <4>2. (files[f].length - 1) + 1 \in DOMAIN disk[f]
        BY <2>6, <4>1
      <4> QED
        BY <2>2, <3>1, <4>2
    <3> QED
      BY <3>2, <3>3
  <2>8. ASSUME NEW i \in DOMAIN disk[f] PROVE disk[f][i] = taken[files[f].global_offset + i - 1]
    <3>1. i - 1 \in 0 .. files[f].length - 1 /\ (i - 1) + 1 = i
      BY <2>2, <2>7
    <3>2. disk[f][i] = taken[files[f].global_offset + (i - 1)]
      BY <2>6, <3>1
    <3>3. files[f].global_offset + (i - 1) = files[f].global_offset + i - 1
      BY <2>2, <3>1
    <3> QED
      BY <3>2, <3>3
  <2> QED
    BY <2>7, <2>8
<1> QED
  BY <1>1, StoreInvHolds, PTL
=============================================================================
