-------------------------------- MODULE Bencode --------------------------------
(***************************************************************************)
(* decode (srcs/bencode/bencode.cpp): the recursive descent through a      *)
(* text, with the position it leaves behind, and what it is compared with: *)
(* documents, how they are written and what they mean.                     *)
(*                                                                         *)
(* A text is a sequence of characters, positions count from 1 (the code's  *)
(* from 0).  A string whose length is so large that the position behind it *)
(* leaves size_t moves the position back, so that a descent need not end.  *)
(*                                                                         *)
(* The descent is a function of what is parsed (a value, or the rest of a  *)
(* list or dict), of the position, and of the number of calls that may be  *)
(* open: with more of them than there are places, one has come back to     *)
(* where it was.  Documents are trees of any depth, so that how they are   *)
(* written is stated by the equations it satisfies, part by part;          *)
(* BencodeWriter has operators that do.                                    *)
(***************************************************************************)
EXTENDS Integers, Sequences, FiniteSets

CONSTANTS
    LongMax,                \* 2^63 - 1, the largest number stoll takes
    SizeWord,               \* 2^64: size_t counts modulo it
    Char,                   \* the bytes a text is made of
    Document,               \* the documents: <<kind, content>>
    OutOfRange,             \* those of them with a number that stoll does not take
    Numeral(_),             \* the digits of a number
    Written(_),             \* the text of a document
    WrittenFrom(_, _),      \* the text of a list or dict from its n-th part on
    Meant(_)                \* the value of a document

ASSUME CharAssumption ==
    /\ LongMax \in Nat
    /\ SizeWord \in Nat \ {0}
    /\ {"i", "l", "d", "e", "-", ":"} \subseteq Char

Digit == <<"0", "1", "2", "3", "4", "5", "6", "7", "8", "9">>
IsDigit(c) == \E i \in DOMAIN Digit : Digit[i] = c
DigitValue(c) == (CHOOSE i \in DOMAIN Digit : Digit[i] = c) - 1

\* stoll and stoull of digits.
Number(digits) ==
    LET value[n \in 0 .. Len(digits)] ==
            IF n = 0 THEN 0 ELSE 10 * value[n - 1] + DigitValue(digits[n])
    IN  value[Len(digits)]

-----------------------------------------------------------------------------
\* Values (include/bencode/bencode.hpp): <<kind, content>>, where the content of a
\* dict is a function from texts to values.

\* What becomes of a call of parse: a value and the position behind it, an exception,
\* or nothing, ever: it reads on until the stack or the memory is used up.
Parsed(kind, content, pos) == [val |-> <<kind, content>>, pos |-> pos]
Throws  == [val |-> <<"none", 0>>, pos |-> 0]
Endless == [val |-> <<"none", 0>>, pos |-> -1]

Returned(result) == result.pos > 0
Threw(result)    == result.pos = 0

\* at() throws when there is no such key, as_int(), as_string(), as_list() and
\* as_dict() when the value is of another kind.
Required(dict, key, kind) == key \in DOMAIN dict /\ dict[key][1] = kind
Optional(dict, key, kind) == key \in DOMAIN dict => dict[key][1] = kind
AllOf(list, kind)         == \A i \in DOMAIN list : list[i][1] = kind

-----------------------------------------------------------------------------
\* Documents.  The content of a dict is the sequence of its entries <<key, document>>
\* in the order they are written.

IsNumeral(digits, n) ==
    /\ digits \in Seq(Char) /\ digits # <<>>
    /\ \A i \in DOMAIN digits : IsDigit(digits[i])
    /\ Number(digits) = n

Magnitude(n) == IF n < 0 THEN -n ELSE n
Sign(n)      == IF n < 0 THEN <<"-">> ELSE <<>>

IntDocument(doc) ==
    /\ doc[2] \in Int
    /\ IsNumeral(Numeral(Magnitude(doc[2])), Magnitude(doc[2]))
    /\ Written(doc) = <<"i">> \o Sign(doc[2]) \o Numeral(Magnitude(doc[2])) \o <<"e">>
    /\ Meant(doc) = <<"int", doc[2]>>
    /\ doc \in OutOfRange <=> doc[2] \notin -LongMax - 1 .. LongMax

\* Texts are shorter than std::string::max_size().
Storable(text) == 2 * Len(text) < SizeWord

StrDocument(doc) ==
    /\ doc[2] \in Seq(Char) /\ Storable(doc[2])
    /\ IsNumeral(Numeral(Len(doc[2])), Len(doc[2]))
    /\ Written(doc) = Numeral(Len(doc[2])) \o <<":">> \o doc[2]
    /\ Meant(doc) = <<"str", doc[2]>>
    /\ doc \notin OutOfRange

\* The items one behind the other, and an end.
ListDocument(doc) ==
    LET items == doc[2]
    IN  /\ items \in Seq(Document)
        /\ \A n \in 1 .. Len(items) + 1 : WrittenFrom(doc, n) \in Seq(Char)
        /\ Written(doc) = <<"l">> \o WrittenFrom(doc, 1)
        /\ WrittenFrom(doc, Len(items) + 1) = <<"e">>
        /\ \A n \in DOMAIN items :
              WrittenFrom(doc, n) = Written(items[n]) \o WrittenFrom(doc, n + 1)
        /\ Meant(doc) = <<"list", [n \in DOMAIN items |-> Meant(items[n])]>>
        /\ doc \in OutOfRange <=> \E n \in DOMAIN items : items[n] \in OutOfRange

\* The last entry of a key is the one that counts.
LastEntry(entries, key) ==
    CHOOSE n \in DOMAIN entries :
        entries[n][1] = key /\ \A m \in DOMAIN entries : entries[m][1] = key => m <= n

DictDocument(doc) ==
    LET entries == doc[2]
        keys    == {entries[n][1] : n \in DOMAIN entries}
    IN  /\ entries \in Seq(Seq(Char) \X Document)
        /\ \A n \in DOMAIN entries : <<"str", entries[n][1]>> \in Document
        /\ \A n \in 1 .. Len(entries) + 1 : WrittenFrom(doc, n) \in Seq(Char)
        /\ Written(doc) = <<"d">> \o WrittenFrom(doc, 1)
        /\ WrittenFrom(doc, Len(entries) + 1) = <<"e">>
        /\ \A n \in DOMAIN entries :
              WrittenFrom(doc, n) = Written(<<"str", entries[n][1]>>)
                                       \o (Written(entries[n][2]) \o WrittenFrom(doc, n + 1))
        /\ Meant(doc) =
              <<"dict", [key \in keys |-> Meant(entries[LastEntry(entries, key)][2])]>>
        /\ doc \in OutOfRange <=> \E n \in DOMAIN entries : entries[n][2] \in OutOfRange

\* What is in a document is a document, and is written as the format says.
ASSUME DocumentAssumption ==
    \A doc \in Document :
        /\ Written(doc) \in Seq(Char)
        /\ \/ doc[1] = "int"  /\ IntDocument(doc)
           \/ doc[1] = "str"  /\ StrDocument(doc)
           \/ doc[1] = "list" /\ ListDocument(doc)
           \/ doc[1] = "dict" /\ DictDocument(doc)

-----------------------------------------------------------------------------
\* The decoder.

\* Where the first c at or after pos is; one past the end if there is none.
FirstFrom(data, c, pos) ==
    LET found == {i \in pos .. Len(data) : data[i] = c}
    IN  IF found = {} THEN Len(data) + 1 ELSE CHOOSE i \in found : \A j \in found : i <= j

\* The digits stoull takes from the beginning of s.
LeadingDigits(s) ==
    LET ends == {n \in 0 .. Len(s) : \A i \in 1 .. n : IsDigit(s[i])}
    IN  SubSeq(s, 1, CHOOSE n \in ends : \A m \in ends : m <= n)

\* The integer whose "i" is before pos.
ParseInteger(data, pos) ==
    LET end      == FirstFrom(data, "e", pos)
        num      == SubSeq(data, pos, end - 1)
        negative == num # <<>> /\ num[1] = "-"
        digits   == IF negative THEN Tail(num) ELSE num
        value    == IF negative THEN -Number(digits) ELSE Number(digits)
    IN  IF \/ end > Len(data)
           \/ digits = <<>>
           \/ \E i \in DOMAIN digits : ~IsDigit(digits[i])
           \/ value \notin -LongMax - 1 .. LongMax
          THEN Throws
          ELSE Parsed("int", value, end + 1)

\* a + b, of two size_t.
SizeSum(a, b) == IF a + b < SizeWord THEN a + b ELSE a + b - SizeWord

\* The string whose length begins at pos.  substr takes no more than there is.
ParseString(data, pos) ==
    LET colon  == FirstFrom(data, ":", pos)
        len    == Number(LeadingDigits(SubSeq(data, pos, colon - 1)))
        behind == SizeSum(colon, len)
        last   == IF colon + len <= Len(data) THEN colon + len ELSE Len(data)
    IN  IF colon > Len(data) \/ len >= SizeWord \/ behind > Len(data) THEN Throws
        ELSE Parsed("str", SubSeq(data, colon + 1, last), behind + 1)

\* parse, where parse[<<n, part, pos>>] is what comes of a part when n more calls may
\* be open.
ParseValue(parse, n, data, pos) ==
    IF pos > Len(data) THEN Throws
    ELSE CASE data[pos] = "i"    -> ParseInteger(data, pos + 1)
           [] IsDigit(data[pos]) -> ParseString(data, pos)
           [] data[pos] = "l"    -> parse[<<n, "items", pos + 1>>]
           [] data[pos] = "d"    -> parse[<<n, "entries", pos + 1>>]
           [] OTHER              -> Throws

\* The loop of a list, from pos on: the item there in front of those behind it.
ParseItems(parse, n, data, pos) ==
    LET item == parse[<<n, "value", pos>>]
        rest == parse[<<n, "items", item.pos>>]
    IN  IF pos > Len(data) THEN Throws
        ELSE IF data[pos] = "e" THEN Parsed("list", <<>>, pos + 1)
        ELSE IF ~Returned(item) THEN item
        ELSE IF ~Returned(rest) THEN rest
        ELSE Parsed("list", <<item.val>> \o rest.val[2], rest.pos)

EmptyDict == [key \in {} |-> <<"none", 0>>]

\* dict[key] = val, in front of the entries behind it, which replace it.
WithEntry(key, val, behind) ==
    [k \in DOMAIN behind \cup {key} |-> IF k \in DOMAIN behind THEN behind[k] ELSE val]

\* Mutant: the end of the data ends a dict.
ParseEntriesCut(parse, n, data, pos) ==
    LET key  == parse[<<n, "value", pos>>]
        val  == parse[<<n, "value", key.pos>>]
        rest == parse[<<n, "entries", val.pos>>]
    IN  IF pos > Len(data) THEN Parsed("dict", EmptyDict, pos)
        ELSE IF data[pos] = "e" THEN Parsed("dict", EmptyDict, pos + 1)
        ELSE IF ~Returned(key) THEN key
        ELSE IF key.val[1] # "str" THEN Throws
        ELSE IF ~Returned(val) THEN val
        ELSE IF ~Returned(rest) THEN rest
        ELSE Parsed("dict", WithEntry(key.val[2], val.val, rest.val[2]), rest.pos)

\* The loop of a dict, from pos on.
ParseEntries(parse, n, data, pos) ==
    LET key  == parse[<<n, "value", pos>>]
        val  == parse[<<n, "value", key.pos>>]
        rest == parse[<<n, "entries", val.pos>>]
    IN  IF pos > Len(data) THEN Throws
        ELSE IF data[pos] = "e" THEN Parsed("dict", EmptyDict, pos + 1)
        ELSE IF ~Returned(key) THEN key
        ELSE IF key.val[1] # "str" THEN Throws
        ELSE IF ~Returned(val) THEN val
        ELSE IF ~Returned(rest) THEN rest
        ELSE Parsed("dict", WithEntry(key.val[2], val.val, rest.val[2]), rest.pos)

\* What can be parsed where, and more calls than that.
Places(data) == {"value", "items", "entries"} \X (1 .. Len(data) + 1)
MostCalls(data) == Cardinality(Places(data)) + 1

ParseAt(parse, n, data, part, pos) ==
    CASE part = "value"   -> ParseValue(parse, n, data, pos)
      [] part = "items"   -> ParseItems(parse, n, data, pos)
      [] part = "entries" -> ParseEntries(parse, n, data, pos)

Calls(data) == (0 .. MostCalls(data)) \X {"value", "items", "entries"} \X (1 .. Len(data) + 1)

Descent(data) ==
    LET parse[call \in Calls(data)] ==
            IF call[1] = 0 THEN Endless
            ELSE ParseAt(parse, call[1] - 1, data, call[2], call[3])
    IN  parse

\* decode(data, pos).
DecodeAt(data, pos) == Descent(data)[<<MostCalls(data), "value", pos>>]
=============================================================================
