----------------------------- MODULE MetainfoProofs -----------------------------
(***************************************************************************)
(* parse_torrent for every set of documents and every file that has one:   *)
(* what it decodes, what it hashes, and what it turns away.                *)
(*                                                                         *)
(* ParseInv says what each step left behind.  The rest is about the file:  *)
(* all of a document is in front of whatever follows it, so that the       *)
(* decoder reads it (BencodeProofs) and the key of the info dict is found  *)
(* where it was written if it is not found before; what is decoded from    *)
(* there is the value whose text is then hashed.                           *)
(***************************************************************************)
EXTENDS Metainfo, BencodeProofs

\* What decode makes of the file, and where its info dict is taken to be.
Decoded == DecodeAt(raw, 1)
Start   == StartBehind(FirstOf(Occurrences(raw)))

\* What the steps that were taken left.
ParseInv ==
    /\ step \in {"find_info", "decode_info", "fields", "done"} =>
          Returned(Decoded) /\ Decoded.val[1] = "dict" /\ root = Decoded.val
    /\ step \in {"decode_info", "fields", "done"} =>
          Occurrences(raw) # {} /\ info_start = Start
    /\ step \in {"fields", "done"} =>
          Returned(DecodeAt(raw, Start)) /\ info_end = DecodeAt(raw, Start).pos
    /\ step = "done" => RootGood(root[2]) /\ torrent = TorrentFile(root[2])
    /\ step = "thrown" =>
          \/ Threw(Decoded)
          \/ Decoded.val[1] # "dict"
          \/ Occurrences(raw) = {}
          \/ Threw(DecodeAt(raw, Start))
          \/ ~RootGood(Decoded.val[2])

\* The file is the document with something behind it, or a part of it.
FileInv ==
    /\ document \in Documents
    /\ \/ \E t \in Tails : raw = Written(document) \o t
       \/ \E n \in 0 .. Len(Written(document)) : raw = SubSeq(Written(document), 1, n)

LEMMA FileHolds == Spec => []FileInv
<1>1. Init => FileInv
  BY DEF Init, FileInv
<1>2. FileInv /\ [Next]_vars => FileInv'
  <2> SUFFICES ASSUME FileInv, [Next]_vars PROVE FileInv'
    OBVIOUS
  <2>1. UNCHANGED <<document, raw>>
    BY DEF Next, ReadFile, DecodeRoot, FindInfo, DecodeInfo, Fields, vars
  <2> QED
    BY <2>1 DEF FileInv
<1> QED
  BY <1>1, <1>2, PTL DEF Spec

LEMMA ParseHolds == Spec => []ParseInv
<1>1. Init => ParseInv
  BY DEF Init, ParseInv
<1>2. ParseInv /\ [Next]_vars => ParseInv'
  <2> SUFFICES ASSUME ParseInv, [Next]_vars PROVE ParseInv'
    OBVIOUS
  <2>1. CASE ReadFile
    BY <2>1 DEF ReadFile, ParseInv, Decoded, Start
  <2>2. CASE DecodeRoot
    BY <2>2 DEF DecodeRoot, Throw, ParseInv, Decoded, Start
  <2>3. CASE FindInfo
    BY <2>3 DEF FindInfo, Throw, ParseInv, Decoded, Start
  <2>4. CASE DecodeInfo
    BY <2>4 DEF DecodeInfo, Throw, ParseInv, Decoded, Start
  <2>5. CASE Fields
    BY <2>5 DEF Fields, Throw, ParseInv, Decoded, Start, TorrentFile
  <2>6. CASE UNCHANGED vars
    BY <2>6 DEF vars, ParseInv, Decoded, Start, TorrentFile
  <2> QED
    BY <2>1, <2>2, <2>3, <2>4, <2>5, <2>6 DEF Next
<1> QED
  BY <1>1, <1>2, PTL DEF Spec

-----------------------------------------------------------------------------
\* Texts.

LEMMA AllOfIt == ASSUME NEW S, NEW s \in Seq(S) PROVE SubSeq(s, 1, Len(s)) = s
OBVIOUS

\* What is in front of something is still there.
LEMMA InFront ==
    ASSUME NEW S, NEW s \in Seq(S), NEW t \in Seq(S)
    PROVE  /\ s \o t \in Seq(S) /\ Len(s \o t) >= Len(s)
           /\ \A i \in 1 .. Len(s) : (s \o t)[i] = s[i]
OBVIOUS

\* The same part of texts that agree there.
LEMMA SamePart ==
    ASSUME NEW S, NEW s \in Seq(S), NEW t \in Seq(S), NEW a \in Nat \ {0}, NEW b \in Nat,
           b <= Len(s), b <= Len(t), \A i \in a .. b : s[i] = t[i]
    PROVE  SubSeq(s, a, b) = SubSeq(t, a, b)
<1>1. b - a + 1 \in Int /\ \A k \in 1 .. b - a + 1 : a + k - 1 \in a .. b
  OBVIOUS
<1>2. SubSeq(s, a, b) = [k \in 1 .. b - a + 1 |-> s[a + k - 1]]
  BY SMTT(30)
<1>3. SubSeq(t, a, b) = [k \in 1 .. b - a + 1 |-> t[a + k - 1]]
  BY SMTT(30)
<1> QED
  BY <1>1, <1>2, <1>3

\* A text in a text that lies in the data.
LEMMA LieDeeper ==
    ASSUME NEW s \in Seq(Char), NEW text \in Seq(Char), NEW data \in Seq(Char),
           NEW pos \in Nat \ {0}, pos - 1 + Len(s) <= Len(text),
           Lies(s, text, pos), Lies(text, data, 1)
    PROVE  Lies(s, data, pos)
<1> SUFFICES ASSUME NEW k \in 1 .. Len(s), pos - 1 + k <= Len(data)
             PROVE  data[pos - 1 + k] = s[k]
  BY DEF Lies
<1>1. /\ pos - 1 + k \in 1 .. Len(text) /\ pos - 1 + k <= Len(text)
      /\ 1 - 1 + (pos - 1 + k) = pos - 1 + k
  OBVIOUS
<1>2. text[pos - 1 + k] = s[k]
  BY <1>1 DEF Lies
<1>3. data[1 - 1 + (pos - 1 + k)] = text[pos - 1 + k]
  BY <1>1 DEF Lies
<1> QED
  BY <1>1, <1>2, <1>3

\* Where the key and the value of an info dict are in the text of its document.
LEMMA InfoLies ==
    ASSUME NEW doc \in Document, DictDocument(doc), NEW i \in InfoEntries(doc)
    PROVE  LET text   == Written(doc)
               value  == Written(doc[2][i][2])
               key    == KeyPlace(doc, i)
               behind == ValuePlace(doc, i)
           IN  /\ doc[2][i][2] \in Document
               /\ InfoText \in Seq(Char) /\ value \in Seq(Char)
               /\ key \in Nat \ {0} /\ behind \in Nat \ {0}
               /\ behind - 1 + Len(value) <= Len(text)
               /\ Lies(InfoText, text, key) /\ Lies(value, text, behind)
<1> DEFINE text   == Written(doc)
           val    == doc[2][i][2]
           value  == Written(val)
           w      == WrittenFrom(doc, i)
           rest   == WrittenFrom(doc, i + 1)
           behind == ValuePlace(doc, i)
           key    == KeyPlace(doc, i)
           info   == InfoText
           vr     == value \o rest
<1>1. /\ i \in 1 .. Len(doc[2]) /\ Len(doc[2]) \in Nat /\ doc[2][i][1] = Info
  BY DictParts DEF InfoEntries
<1>2. /\ <<"str", doc[2][i][1]>> \in Document /\ val \in Document
      /\ w = Written(<<"str", doc[2][i][1]>>) \o (value \o rest)
      /\ rest \in Seq(Char) /\ w \in Seq(Char) /\ Ends(w, text)
  <2>1. i \in 1 .. Len(doc[2]) + 1 /\ i + 1 \in 1 .. Len(doc[2]) + 1
    BY <1>1
  <2> QED
    BY <1>1, <2>1, DictParts
<1>3. w = info \o vr
  BY <1>1, <1>2 DEF InfoText
<1>4. info \in Seq(Char) /\ value \in Seq(Char) /\ text \in Seq(Char)
  BY <1>1, <1>2, DocumentAssumption DEF InfoText
<1>5. key = 1 + Len(text) - Len(w) /\ behind = key + Len(info)
  BY DEF KeyPlace, ValuePlace
<1> HIDE DEF text, val, value, w, rest, behind, key, info
<1>6. vr \in Seq(Char) /\ Len(vr) = Len(value) + Len(rest) /\ Len(w) = Len(info) + Len(vr)
  <2>1. vr \in Seq(Char) /\ Len(vr) = Len(value) + Len(rest)
    BY <1>2, <1>4, Concatenated
  <2> HIDE DEF vr
  <2>2. Len(w) = Len(info) + Len(vr)
    BY <1>3, <1>4, <2>1, Concatenated
  <2> QED
    BY <2>1, <2>2
<1>7. /\ Len(text) \in Nat /\ Len(info) \in Nat /\ Len(value) \in Nat /\ Len(rest) \in Nat
      /\ Len(w) \in Nat /\ Len(w) < Len(text)
  BY <1>2, <1>4 DEF Ends
<1>8. /\ key \in Nat \ {0} /\ behind \in Nat \ {0} /\ behind - 1 + Len(value) <= Len(text)
  BY <1>5, <1>6, <1>7
<1>9. Lies(w, text, key)
  <2>1. ASSUME NEW k \in 1 .. Len(w) PROVE text[key - 1 + k] = w[k]
    <3>1. key - 1 + k = Len(text) - Len(w) + k
      BY <1>5, <1>7
    <3> QED
      BY <1>2, <3>1 DEF Ends
  <2> QED
    BY <2>1 DEF Lies
<1>10. Lies(info, text, key) /\ Lies(vr, text, behind)
  <2> HIDE DEF vr
  <2> QED
    BY <1>3, <1>4, <1>5, <1>6, <1>8, <1>9, LieJoined
<1>11. Lies(value, text, behind)
  BY <1>2, <1>4, <1>8, <1>10, LieJoined
<1> QED
  BY <1>2, <1>4, <1>8, <1>10, <1>11 DEF text, val, value, behind, key, info

\* A dict is written entry by entry, its key and its value; of its value the keys are
\* those of its entries.
LEMMA EncodingFacts ==
    /\ InfoText \in Seq(Char)
    /\ \A doc \in Documents : Written(doc) \in Seq(Char) /\ Meant(doc)[1] = doc[1]
    /\ \A doc \in Documents : doc[1] = "dict" =>
          /\ DictDocument(doc)
          /\ Info \in DOMAIN Meant(doc)[2] => InfoEntries(doc) # {}
          /\ \A i \in InfoEntries(doc) :
                LET text  == Written(doc)
                    value == Written(doc[2][i][2])
                    key   == KeyPlace(doc, i)
                    behind == ValuePlace(doc, i)
                IN  /\ key \in Nat \ {0} /\ Len(value) \in Nat
                    /\ behind - 1 + Len(value) <= Len(text)
                    /\ SubSeq(text, key, behind - 1) = InfoText
                    /\ SubSeq(text, behind, behind + Len(value) - 1) = value
<1>1. InfoText \in Seq(Char)
  BY MetainfoAssumption, DocumentAssumption DEF InfoText
<1>2. ASSUME NEW doc \in Documents PROVE Written(doc) \in Seq(Char) /\ Meant(doc)[1] = doc[1]
  BY MetainfoAssumption, DocumentAssumption, MeantKind
<1>3. ASSUME NEW doc \in Documents, doc[1] = "dict" PROVE DictDocument(doc)
  BY <1>3, MetainfoAssumption, DocumentAssumption
<1>4. ASSUME NEW doc \in Documents, doc[1] = "dict", Info \in DOMAIN Meant(doc)[2]
      PROVE  InfoEntries(doc) # {}
  <2>1. \E f : Meant(doc) = <<"dict", [k \in {doc[2][n][1] : n \in DOMAIN doc[2]} |-> f[k]]>>
    <3> DEFINE g == [k \in {doc[2][n][1] : n \in DOMAIN doc[2]} |->
                        Meant(doc[2][LastEntry(doc[2], k)][2])]
    <3>1. Meant(doc) = <<"dict", g>>
      BY <1>3, <1>4 DEF DictDocument
    <3>2. g = [k \in {doc[2][n][1] : n \in DOMAIN doc[2]} |-> g[k]]
      OBVIOUS
    <3> HIDE DEF g
    <3> QED
      BY <3>1, <3>2
  <2>2. Info \in {doc[2][n][1] : n \in DOMAIN doc[2]}
    BY <1>4, <2>1
  <2> QED
    BY <2>2 DEF InfoEntries
<1>5. ASSUME NEW doc \in Documents, doc[1] = "dict", NEW i \in InfoEntries(doc)
      PROVE  LET text  == Written(doc)
                 value == Written(doc[2][i][2])
                 key   == KeyPlace(doc, i)
                 behind == ValuePlace(doc, i)
             IN  /\ key \in Nat \ {0} /\ Len(value) \in Nat
                 /\ behind - 1 + Len(value) <= Len(text)
                 /\ SubSeq(text, key, behind - 1) = InfoText
                 /\ SubSeq(text, behind, behind + Len(value) - 1) = value
  <2> DEFINE text  == Written(doc)
             value == Written(doc[2][i][2])
             key   == KeyPlace(doc, i)
             behind == ValuePlace(doc, i)
             info  == InfoText
  <2>1. doc \in Document /\ text \in Seq(Char) /\ behind = key + Len(info)
    BY <1>2, MetainfoAssumption DEF ValuePlace
  <2>2. /\ info \in Seq(Char) /\ value \in Seq(Char)
        /\ key \in Nat \ {0} /\ behind \in Nat \ {0}
        /\ behind - 1 + Len(value) <= Len(text)
        /\ Lies(info, text, key) /\ Lies(value, text, behind)
    BY <1>3, <1>5, <2>1, InfoLies
  <2> HIDE DEF text, value, key, behind, info
  <2>3. Len(info) \in Nat /\ Len(value) \in Nat /\ Len(text) \in Nat
    BY <2>1, <2>2
  <2>4. Fits(info, text, key) /\ Fits(value, text, behind)
    BY <2>1, <2>2, <2>3 DEF Fits
  <2>5. SubSeq(text, key, key - 1 + Len(info)) = info
    BY <2>1, <2>2, <2>4, TextThere
  <2>6. SubSeq(text, behind, behind - 1 + Len(value)) = value
    BY <2>1, <2>2, <2>4, TextThere
  <2>7. key - 1 + Len(info) = behind - 1 /\ behind - 1 + Len(value) = behind + Len(value) - 1
    BY <2>1, <2>2, <2>3
  <2> QED
    BY <2>2, <2>3, <2>5, <2>6, <2>7 DEF text, value, key, behind, info
<1> QED
  BY <1>1, <1>2, <1>3, <1>4, <1>5

LEMMA FileLength ==
    FileInv => Len(raw) \in Nat /\ Len(Written(document)) \in Nat
<1> SUFFICES ASSUME FileInv PROVE Len(raw) \in Nat /\ Len(Written(document)) \in Nat
  OBVIOUS
<1>1. PICK w \in Seq(Char) : w = Written(document)
  BY EncodingFacts DEF FileInv
<1>2. ASSUME NEW t \in Tails PROVE w \o t \in Seq(Char)
  BY MetainfoAssumption
<1>3. ASSUME NEW n \in 0 .. Len(w) PROVE SubSeq(w, 1, n) \in Seq(Char)
  OBVIOUS
<1>4. raw \in Seq(Char)
  BY <1>1, <1>2, <1>3 DEF FileInv
<1> QED
  BY <1>1, <1>4

\* A file that is not too short has every part of its document.
LEMMA WholeFile ==
    ASSUME FileInv, Len(raw) >= Len(Written(document)),
           NEW a \in Nat \ {0}, NEW b \in Nat, b <= Len(Written(document))
    PROVE  SubSeq(raw, a, b) = SubSeq(Written(document), a, b) /\ Len(raw) \in Nat
<1>1. PICK w \in Seq(Char) : w = Written(document)
  BY EncodingFacts DEF FileInv
<1>2. CASE \E t \in Tails : raw = w \o t
  <2>1. PICK t \in Seq(Char) : raw = w \o t
    BY <1>2, MetainfoAssumption
  <2>2. raw \in Seq(Char) /\ Len(raw) >= Len(w) /\ \A i \in 1 .. Len(w) : raw[i] = w[i]
    BY <2>1, InFront
  <2>3. \A i \in a .. b : i \in 1 .. Len(w)
    BY <1>1
  <2>4. b <= Len(raw) /\ b <= Len(w) /\ Len(raw) \in Nat
    BY <1>1, <2>2
  <2> QED
    BY <1>1, <2>2, <2>3, <2>4, SamePart
<1>3. CASE \E n \in 0 .. Len(w) : raw = SubSeq(w, 1, n)
  <2>1. PICK n \in 0 .. Len(w) : raw = SubSeq(w, 1, n)
    BY <1>3
  <2>2. Len(raw) = n
    BY <2>1
  <2>3. n = Len(w)
    BY <1>1, <2>2
  <2>4. raw = w
    BY <2>1, <2>3, AllOfIt
  <2> QED
    BY <1>1, <2>4
<1> QED
  BY <1>1, <1>2, <1>3 DEF FileInv

\* The key of the info dict is found where it was written, if not before; what is
\* hashed then is the text of the value.
LEMMA InfoFound ==
    ASSUME FileInv, Len(raw) >= Len(Written(document)), document[1] = "dict",
           NEW i \in InfoEntries(document), ~KeyInFront(i)
    PROVE  LET behind == ValuePlace(document, i)
               value  == Written(document[2][i][2])
           IN  /\ Occurrences(raw) # {}
               /\ Start = behind
               /\ \A end : end = behind + Len(value) => SubSeq(raw, behind, end - 1) = value
<1> DEFINE value == Written(document[2][i][2])
           text  == Written(document)
<1>1. PICK k \in Nat \ {0}, m \in Nat, n \in Nat, behind \in Nat \ {0} :
         /\ k = KeyPlace(document, i) /\ m = Len(InfoText)
         /\ n = Len(value) /\ behind = ValuePlace(document, i)
         /\ behind = k + m
  <2>1. document \in Documents
    BY DEF FileInv
  <2>2. /\ KeyPlace(document, i) \in Nat \ {0} /\ Len(value) \in Nat /\ Len(InfoText) \in Nat
    BY <2>1, EncodingFacts
  <2> QED
    BY <2>2 DEF ValuePlace
<1>2. PICK l \in Nat : l = Len(text)
  BY FileLength
<1>3. PICK p \in Nat, q \in Nat : p = behind - 1 /\ q = behind + n - 1
  BY <1>1
<1>4. q <= l /\ p <= l /\ SubSeq(text, k, p) = InfoText /\ SubSeq(text, behind, q) = value
  <2>1. /\ ValuePlace(document, i) - 1 + Len(value) <= Len(text)
        /\ SubSeq(text, KeyPlace(document, i), ValuePlace(document, i) - 1) = InfoText
        /\ SubSeq(text, ValuePlace(document, i),
                        ValuePlace(document, i) + Len(value) - 1) = value
    BY EncodingFacts DEF FileInv
  <2>2. behind - 1 + n <= l
    BY <1>1, <1>2, <2>1
  <2>3. q <= l /\ p <= l
    BY <1>3, <2>2
  <2>4. SubSeq(text, k, p) = InfoText
    BY <1>1, <1>3, <2>1, Zenon
  <2>5. SubSeq(text, behind, q) = value
    BY <1>1, <1>3, <2>1, Zenon
  <2> QED
    BY <2>3, <2>4, <2>5
<1> HIDE DEF value, text
<1>5. SubSeq(raw, k, p) = InfoText /\ SubSeq(raw, behind, q) = value
  <2>1. p <= Len(text) /\ q <= Len(text)
    BY <1>2, <1>4
  <2>2. SubSeq(raw, k, p) = SubSeq(text, k, p) /\ SubSeq(raw, behind, q) = SubSeq(text, behind, q)
    BY <1>1, <1>3, <2>1, WholeFile, Zenon DEF text
  <2> QED
    BY <1>4, <2>2
<1>6. PICK length \in Nat : length = Len(raw) /\ l <= length
  <2>1. Len(raw) \in Nat /\ l = Len(Written(document))
    BY <1>2, FileLength DEF text
  <2> QED
    BY <2>1
<1>7. k \in Occurrences(raw)
  <2>1. behind = k + m /\ p = behind - 1 /\ p <= length
    BY <1>1, <1>3, <1>4, <1>6
  <2>2. k + m - 1 = p /\ k \in 1 .. length - m + 1
    BY <2>1
  <2> QED
    BY <1>1, <1>5, <1>6, <2>2 DEF Occurrences
<1>8. \A found \in Occurrences(raw) : found \in Int /\ found >= k
  <2>1. ASSUME NEW found \in Occurrences(raw) PROVE found \in Int
    BY <1>1, <1>6 DEF Occurrences
  <2> QED
    BY <1>1, <2>1 DEF KeyInFront
<1>9. FirstOf(Occurrences(raw)) = k
  <2> DEFINE first == FirstOf(Occurrences(raw))
  <2>1. first \in Occurrences(raw) /\ \A j \in Occurrences(raw) : first <= j
    BY <1>7, <1>8 DEF FirstOf
  <2> HIDE DEF first
  <2>2. first <= k /\ first >= k /\ first \in Int
    BY <1>7, <1>8, <2>1
  <2>3. first = k
    BY <2>2
  <2> QED
    BY <2>3 DEF first
<1>10. Start = behind
  BY <1>1, <1>9 DEF Start, StartBehind
<1>11. ASSUME NEW end, end = ValuePlace(document, i) + Len(value)
       PROVE  SubSeq(raw, ValuePlace(document, i), end - 1) = value
  <2>1. end = behind + n /\ q = behind + n - 1
    BY <1>1, <1>3, <1>11, Zenon
  <2>2. end - 1 = q
    BY <2>1
  <2> QED
    BY <1>1, <1>5, <2>2, Zenon
<1> QED
  BY <1>1, <1>7, <1>10, <1>11 DEF value

-----------------------------------------------------------------------------
\* What is hashed: the torrent that is done was read from a whole file, whose document
\* is a dict with an info dict.
LEMMA HashFollows == ParseInv /\ FileInv /\ DecodedIsDocument => HashIsOfInfo
<1> SUFFICES ASSUME ParseInv, FileInv, DecodedIsDocument, step = "done"
             PROVE  \E i \in InfoEntries(document) :
                       KeyInFront(i) \/ torrent.info_hash = Written(document[2][i][2])
  BY DEF HashIsOfInfo
<1>1. /\ Returned(Decoded) /\ Decoded.val[1] = "dict" /\ root = Decoded.val
      /\ info_start = Start /\ info_end = DecodeAt(raw, Start).pos
      /\ RootGood(root[2]) /\ torrent = TorrentFile(root[2])
  BY DEF ParseInv
<1>2. ~(Len(raw) < Len(Written(document))) /\ Decoded.val = Meant(document)
  BY <1>1 DEF DecodedIsDocument, Decoded, Returned, Threw
<1>3. document \in Documents /\ document[1] = "dict" /\ Info \in DOMAIN Meant(document)[2]
  BY <1>1, <1>2, EncodingFacts DEF FileInv, RootGood, Required
<1>4. PICK i \in InfoEntries(document) : TRUE
  BY <1>3, EncodingFacts
<1>5. CASE KeyInFront(i)
  BY <1>5
<1>6. CASE ~KeyInFront(i)
  <2>1. Len(raw) >= Len(Written(document))
    <3>1. Len(Written(document)) \in Nat /\ Len(raw) \in Nat
      BY <1>3, FileLength
    <3> QED
      BY <1>2, <3>1
  <2>2. PICK behind, value : behind = ValuePlace(document, i)
                             /\ value = Written(document[2][i][2])
    OBVIOUS
  <2>3. /\ Start = behind
        /\ \A end : end = behind + Len(value) => SubSeq(raw, behind, end - 1) = value
    <3>1. /\ Start = ValuePlace(document, i)
          /\ \A end : end = ValuePlace(document, i) + Len(Written(document[2][i][2])) =>
                SubSeq(raw, ValuePlace(document, i), end - 1) = Written(document[2][i][2])
      BY <1>3, <1>6, <2>1, InfoFound, Zenon
    <3> QED
      BY <2>2, <3>1, Zenon
  <2>4. info_end = behind + Len(value)
    <3>1. document \notin OutOfRange
      BY <1>1 DEF DecodedIsDocument, Decoded, Returned, Threw
    <3>2. DecodeAt(raw, ValuePlace(document, i)) =
             [val |-> Meant(document[2][i][2]),
              pos |-> ValuePlace(document, i) + Len(Written(document[2][i][2]))]
      BY <1>2, <1>3, <3>1 DEF DecodedIsDocument
    <3> QED
      BY <1>1, <2>2, <2>3, <3>2
  <2>5. torrent.info_hash = SubSeq(raw, info_start, info_end - 1)
    BY <1>1 DEF TorrentFile
  <2>6. info_start = behind
    BY <1>1, <2>3, Zenon
  <2>7. torrent.info_hash = value
    <3>1. SubSeq(raw, behind, info_end - 1) = value
      BY <2>3, <2>4, Zenon
    <3> QED
      BY <2>5, <2>6, <3>1, Zenon
  <2> QED
    BY <2>2, <2>7
<1> QED
  BY <1>5, <1>6

\* What is turned away: each place where parse_torrent throws is one that a whole
\* document with good fields does not come to.
LEMMA AcceptedFollows == ParseInv /\ FileInv /\ DecodedIsDocument => TorrentsAreAccepted
<1> SUFFICES ASSUME ParseInv, FileInv, DecodedIsDocument, step = "thrown",
                    Len(raw) >= Len(Written(document)),
                    document[1] = "dict", document \notin OutOfRange,
                    \A i \in InfoEntries(document) : ~KeyInFront(i),
                    RootGood(Meant(document)[2])
             PROVE  FALSE
  BY DEF TorrentsAreAccepted
<1>1. PICK l \in Nat, n \in Nat : l = Len(Written(document)) /\ n = Len(raw) /\ n >= l
  BY FileLength
<1>2. Decoded = [val |-> Meant(document), pos |-> 1 + l]
  BY <1>1 DEF DecodedIsDocument, Decoded
<1>3. Returned(Decoded) /\ ~Threw(Decoded) /\ Decoded.val = Meant(document) /\ Decoded.val[1] = "dict"
  BY <1>1, <1>2, EncodingFacts DEF Returned, Threw, FileInv
<1>4. PICK i \in InfoEntries(document) : TRUE
  BY EncodingFacts DEF FileInv, RootGood, Required
<1>5. Occurrences(raw) # {} /\ Start = ValuePlace(document, i)
  BY InfoFound
<1>6. ~Threw(DecodeAt(raw, Start))
  <2>1. PICK behind \in Nat \ {0}, m \in Nat :
           behind = ValuePlace(document, i) /\ m = Len(Written(document[2][i][2]))
    <3>1. /\ KeyPlace(document, i) \in Nat \ {0} /\ Len(Written(document[2][i][2])) \in Nat
          /\ Len(InfoText) \in Nat
      BY EncodingFacts DEF FileInv
    <3> QED
      BY <3>1 DEF ValuePlace
  <2>2. DecodeAt(raw, Start).pos = behind + m
    BY <1>1, <1>5, <2>1 DEF DecodedIsDocument
  <2> QED
    BY <2>1, <2>2 DEF Returned, Threw
<1> QED
  BY <1>3, <1>5, <1>6 DEF ParseInv

\* What is decoded: the file has the text of its document at the beginning, or the part
\* of it that there is, and in that the text of each info dict.
LEMMA DecodedFollows == FileInv => DecodedIsDocument
<1> SUFFICES ASSUME FileInv PROVE DecodedIsDocument
  OBVIOUS
<1> DEFINE text == Written(document)
<1>1. document \in Document /\ document \in Documents /\ text \in Seq(Char)
  BY EncodingFacts, MetainfoAssumption DEF FileInv
<1>2. raw \in Seq(Char) /\ Storable(raw) /\ Lies(text, raw, 1)
  <2>1. ASSUME NEW t \in Tails, raw = text \o t
        PROVE  raw \in Seq(Char) /\ Storable(raw) /\ Lies(text, raw, 1)
    <3>1. t \in Seq(Char)
      BY MetainfoAssumption
    <3>3. Storable(raw)
      BY <1>1, <2>1, MetainfoAssumption
    <3> HIDE DEF text
    <3>2. raw \in Seq(Char) /\ \A k \in 1 .. Len(text) : raw[k] = text[k]
      BY <1>1, <2>1, <3>1, Concatenated
    <3> QED
      BY <3>2, <3>3 DEF Lies
  <2>2. ASSUME NEW n \in 0 .. Len(text), raw = SubSeq(text, 1, n)
        PROVE  raw \in Seq(Char) /\ Storable(raw) /\ Lies(text, raw, 1)
    <3>2. Storable(text)
      BY <1>1, MetainfoAssumption
    <3> HIDE DEF text
    <3>1. raw \in Seq(Char) /\ Len(raw) = n /\ \A k \in 1 .. n : raw[k] = text[k]
      BY <1>1, <2>2
    <3>3. Storable(raw)
      BY <1>1, <3>1, <3>2, CharAssumption DEF Storable
    <3> QED
      BY <1>1, <3>1, <3>3 DEF Lies
  <2> QED
    BY <2>1, <2>2 DEF FileInv
<1>3. DecodeAt(raw, 1) =
         IF Len(text) <= Len(raw) /\ document \notin OutOfRange
           THEN [val |-> Meant(document), pos |-> 1 + Len(text)] ELSE Throws
  BY <1>1, <1>2, FromTheBeginning
<1>4. Len(text) \in Nat /\ Len(raw) \in Nat
  BY <1>1, <1>2
<1>5. ASSUME Len(raw) >= Len(text), document \notin OutOfRange, document[1] = "dict",
             NEW i \in InfoEntries(document)
      PROVE  DecodeAt(raw, ValuePlace(document, i)) =
                [val |-> Meant(document[2][i][2]),
                 pos |-> ValuePlace(document, i) + Len(Written(document[2][i][2]))]
  <2> DEFINE info   == document[2][i][2]
             value  == Written(info)
             behind == ValuePlace(document, i)
  <2>1. DictDocument(document)
    BY <1>1, <1>5, EncodingFacts
  <2>2. /\ info \in Document /\ value \in Seq(Char) /\ behind \in Nat \ {0}
        /\ behind - 1 + Len(value) <= Len(text) /\ Lies(value, text, behind)
    BY <1>1, <2>1, InfoLies
  <2>3. info \notin OutOfRange
    BY <1>5, <2>1 DEF DictDocument, InfoEntries
  <2> HIDE DEF text, info, value, behind
  <2>4. Lies(value, raw, behind)
    BY <1>1, <1>2, <2>2, LieDeeper
  <2>5. behind \in 1 .. Len(raw) + 1 /\ behind - 1 + Len(value) <= Len(raw)
    <3>1. Len(value) \in Nat
      BY <2>2
    <3> QED
      BY <1>4, <1>5, <2>2, <3>1
  <2>6. DecodeAt(raw, behind) = [val |-> Meant(info), pos |-> behind + Len(value)]
    <3>1. Fits(value, raw, behind) /\ Reads(info)
      BY <2>2, <2>5, DocumentsAreRead DEF Fits
    <3> QED
      BY <1>2, <2>3, <2>4, <2>5, <3>1 DEF Reads, value
  <2> QED
    BY <2>6 DEF info, value, behind
<1> HIDE DEF text
<1>6. CASE Len(raw) < Len(text) \/ document \in OutOfRange
  <2>1. DecodeAt(raw, 1) = Throws
    BY <1>3, <1>4, <1>6
  <2> QED
    BY <1>6, <2>1 DEF DecodedIsDocument, Threw, Throws, text
<1>7. CASE ~(Len(raw) < Len(text) \/ document \in OutOfRange)
  <2>1. Len(raw) >= Len(text) /\ document \notin OutOfRange
    BY <1>4, <1>7
  <2>2. DecodeAt(raw, 1) = [val |-> Meant(document), pos |-> 1 + Len(text)]
    BY <1>3, <1>4, <2>1
  <2> QED
    BY <1>5, <1>7, <2>1, <2>2 DEF DecodedIsDocument, text
<1> QED
  BY <1>6, <1>7

\* parse (bencode.cpp) on a torrent file, from its beginning and from the middle, where
\* find_info_start sends it: a file that lost its end is never taken for a torrent, and
\* no document is read as another, however deep its lists and dicts are.
THEOREM DocumentsAreDecoded == Spec => []DecodedIsDocument
<1>1. FileInv => DecodedIsDocument
  BY DecodedFollows
<1> QED
  BY <1>1, FileHolds, PTL

\* The hash that identifies the torrent is that of its info dict (find_info_start and
\* parse_torrent), whatever is behind the document.
THEOREM HashesAreOfInfo == Spec => []HashIsOfInfo
BY ParseHolds, FileHolds, DecodedFollows, HashFollows, PTL

\* ... and no file that is a torrent is turned away.
THEOREM TorrentsPass == Spec => []TorrentsAreAccepted
BY ParseHolds, FileHolds, DecodedFollows, AcceptedFollows, PTL
=============================================================================
