------------------------------- MODULE Metainfo -------------------------------
(***************************************************************************)
(* parse_torrent (srcs/torrent/metainfo.cpp): a file is read and decoded,  *)
(* the text of its info dict is looked for to be hashed, and the fields of *)
(* the torrent are taken out, each of which may be missing or of another   *)
(* type, which throws.                                                     *)
(*                                                                         *)
(* The file is an encoded document, perhaps cut off (a download that broke *)
(* off) or with something behind it.  Names of fields are one character    *)
(* long here, hashes HashSize.  The hash itself is a function of the text  *)
(* that is hashed, which stands for it.                                    *)
(*                                                                         *)
(* Documents, how they are written and the decoder are Bencode's.          *)
(***************************************************************************)
EXTENDS Integers, Sequences, Bencode

CONSTANTS
    Documents,              \* what torrent files are made of
    Tails,                  \* what can be behind the document in a file
    HashSize                \* 20

\* Keys, shortened.
Announce     == <<"a">>
AnnounceList == <<"A">>
Comment      == <<"c">>
CreatedBy    == <<"b">>
CreationDate == <<"t">>
Info         == <<"I">>
Name         == <<"n">>
PieceLen     == <<"P">>
Pieces       == <<"p">>
FileList     == <<"f">>
Length       == <<"L">>
Path         == <<"h">>

ASSUME MetainfoAssumption ==
    /\ HashSize \in Nat \ {0}
    /\ Documents \subseteq Document /\ <<"str", Info>> \in Document
    /\ Tails \subseteq Seq(Char)
    /\ \A doc \in Documents :
          /\ Storable(Written(doc))
          /\ \A tail \in Tails : Storable(Written(doc) \o tail)

\* The text "4:info".
InfoText == Written(<<"str", Info>>)

\* The entries of a document that are its info dict, where the text of the key is, and
\* the first position behind it.
InfoEntries(doc)   == {i \in DOMAIN doc[2] : doc[2][i][1] = Info}
KeyPlace(doc, i)   == 1 + Len(Written(doc)) - Len(WrittenFrom(doc, i))
ValuePlace(doc, i) == KeyPlace(doc, i) + Len(InfoText)

VARIABLES
    document,               \* the document in the file
    raw,                    \* the text of the file
    step,                   \* the next step of parse_torrent, or how it ended
    root,                   \* root: the value decoded
    info_start, info_end,   \* where the text to hash begins, and the end behind it
    torrent                 \* the result: TorrentFile

vars == <<document, raw, step, root, info_start, info_end, torrent>>

NoTorrent == [info_hash |-> <<>>]

Init ==
    /\ document \in Documents
    /\ LET text == Written(document)
       IN  raw \in {text \o t : t \in Tails} \cup {SubSeq(text, 1, n) : n \in 0 .. Len(text)}
    /\ step = "read_file"
    /\ root = <<"none", 0>>
    /\ info_start = 0
    /\ info_end = 0
    /\ torrent = NoTorrent

\* An exception: the session is not made.
Throw ==
    /\ step' = "thrown"
    /\ UNCHANGED <<root, info_start, info_end, torrent>>

\* read_file: "cannot open file", or the text.
ReadFile ==
    /\ step = "read_file"
    /\ step' \in {"cannot_open", "decode"}
    /\ UNCHANGED <<document, raw, root, info_start, info_end, torrent>>

\* A decode that does not end leaves the step as it is.
DecodeRoot ==
    LET result == DecodeAt(raw, 1)
    IN  /\ step = "decode"
        /\ \/ /\ Threw(result) \/ (Returned(result) /\ result.val[1] # "dict")
              /\ Throw
           \/ /\ Returned(result) /\ result.val[1] = "dict"
              /\ step' = "find_info"
              /\ root' = result.val
              /\ UNCHANGED <<info_start, info_end, torrent>>
        /\ UNCHANGED <<document, raw>>

\* Where it is in a text.
Occurrences(text) ==
    {i \in 1 .. Len(text) - Len(InfoText) + 1 : SubSeq(text, i, i + Len(InfoText) - 1) = InfoText}

\* Mutant: the key is part of what is hashed.
StartAt(i) == i

\* Mutant: rfind.
LastOf(found) == CHOOSE i \in found : \A j \in found : i >= j

\* find.
FirstOf(found) == CHOOSE i \in found : \A j \in found : i <= j

\* The position behind an occurrence of the key.
StartBehind(i) == i + Len(InfoText)

\* find_info_start: the first occurrence of the text of the key, wherever it is.
FindInfo ==
    /\ step = "find_info"
    /\ \/ /\ Occurrences(raw) = {}
          /\ Throw
       \/ /\ Occurrences(raw) # {}
          /\ step' = "decode_info"
          /\ info_start' = StartBehind(FirstOf(Occurrences(raw)))
          /\ UNCHANGED <<root, info_end, torrent>>
    /\ UNCHANGED <<document, raw>>

DecodeInfo ==
    LET result == DecodeAt(raw, info_start)
    IN  /\ step = "decode_info"
        /\ \/ Threw(result) /\ Throw
           \/ /\ Returned(result)
              /\ step' = "fields"
              /\ info_end' = result.pos
              /\ UNCHANGED <<root, info_start, torrent>>
        /\ UNCHANGED <<document, raw>>

-----------------------------------------------------------------------------
\* The fields.

AnnounceListGood(dict) ==
    /\ Optional(dict, AnnounceList, "list")
    /\ AnnounceList \in DOMAIN dict =>
          LET tiers == dict[AnnounceList][2]
          IN  AllOf(tiers, "list") /\ \A t \in DOMAIN tiers : AllOf(tiers[t][2], "str")

\* parse_files.
FilesGood(files) ==
    /\ AllOf(files, "dict")
    /\ \A i \in DOMAIN files :
          LET entry == files[i][2]
          IN  /\ Required(entry, Length, "int")
              /\ Required(entry, Path, "list") /\ AllOf(entry[Path][2], "str")

\* split_pieces.
PiecesGood(hashes) == Len(hashes) % HashSize = 0

InfoGood(info) ==
    /\ Required(info, Name, "str")
    /\ Required(info, PieceLen, "int")
    /\ Required(info, Pieces, "str") /\ PiecesGood(info[Pieces][2])
    /\ IF FileList \in DOMAIN info
         THEN info[FileList][1] = "list" /\ FilesGood(info[FileList][2])
         ELSE Required(info, Length, "int")

RootGood(dict) ==
    /\ \A key \in {Announce, Comment, CreatedBy} : Optional(dict, key, "str")
    /\ AnnounceListGood(dict)
    /\ Optional(dict, CreationDate, "int")
    /\ Required(dict, Info, "dict") /\ InfoGood(dict[Info][2])

\* The lengths of the files; a single file is in length alone.
FileLengths(info) ==
    IF FileList \in DOMAIN info
      THEN [i \in DOMAIN info[FileList][2] |-> info[FileList][2][i][2][Length][2]]
      ELSE <<>>

TorrentFile(dict) ==
    LET info == dict[Info][2]
    IN  [info_hash     |-> SubSeq(raw, info_start, info_end - 1),
         announce_list |-> IF AnnounceList \in DOMAIN dict THEN dict[AnnounceList][2] ELSE <<>>,
         piece_length  |-> info[PieceLen][2],
         pieces        |-> Len(info[Pieces][2]) \div HashSize,
         files         |-> FileLengths(info),
         length        |-> IF FileList \in DOMAIN info THEN 0 ELSE info[Length][2]]

Fields ==
    /\ step = "fields"
    /\ \/ ~RootGood(root[2]) /\ Throw
       \/ /\ RootGood(root[2])
          /\ step' = "done"
          /\ torrent' = TorrentFile(root[2])
          /\ UNCHANGED <<root, info_start, info_end>>
    /\ UNCHANGED <<document, raw>>

Next == ReadFile \/ DecodeRoot \/ FindInfo \/ DecodeInfo \/ Fields

Spec == Init /\ [][Next]_vars

-----------------------------------------------------------------------------
\* A file that lost its end, anywhere, is never taken for a torrent, nor is any
\* document read as another, from the beginning or from the middle of the file: nesting,
\* lengths and ends of the decoder, whose every loop has its own way to stop at the end
\* of the data, agree with the encoding.
DecodedIsDocument ==
    IF Len(raw) < Len(Written(document)) \/ document \in OutOfRange THEN Threw(DecodeAt(raw, 1))
    ELSE /\ DecodeAt(raw, 1) = [val |-> Meant(document), pos |-> 1 + Len(Written(document))]
         /\ document[1] = "dict" => \A i \in InfoEntries(document) :
               LET info   == document[2][i][2]
                   behind == ValuePlace(document, i)
               IN  DecodeAt(raw, behind) =
                      [val |-> Meant(info), pos |-> behind + Len(Written(info))]

\* The text of the key is already found in front of the i-th entry of the file:
\* find_info_start looks for characters, not for the key of a dict.
KeyInFront(i) == \E found \in Occurrences(raw) : found < KeyPlace(document, i)

\* The text whose hash identifies the torrent is that of the info dict, as it is in
\* the file, whatever is behind it, unless the text of its key is in front of it.
HashIsOfInfo ==
    step = "done" =>
        \E i \in InfoEntries(document) :
            KeyInFront(i) \/ torrent.info_hash = Written(document[2][i][2])

\* A file that is a torrent in all that parse_torrent asks of it is not turned away:
\* no value that can be in front of, in or behind its info dict leaves the decoder, or
\* the second decode from the middle of the file, at a place where it throws.
TorrentsAreAccepted ==
    /\ step = "thrown"
    /\ Len(raw) >= Len(Written(document))
    /\ document[1] = "dict" /\ document \notin OutOfRange
    /\ \A i \in InfoEntries(document) : ~KeyInFront(i)
    => ~RootGood(Meant(document)[2])
=============================================================================
