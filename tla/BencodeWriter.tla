----------------------------- MODULE BencodeWriter -----------------------------
(***************************************************************************)
(* A way to write documents: the operators TLC is given for the parameters *)
(* of Bencode.                                                             *)
(***************************************************************************)
EXTENDS Bencode

RECURSIVE Decimal(_)
Decimal(n) ==
    IF n < 10 THEN <<Digit[n + 1]>> ELSE Append(Decimal(n \div 10), Digit[(n % 10) + 1])

RECURSIVE Encode(_), EncodeFrom(_, _)
Encode(doc) ==
    CASE doc[1] = "int"  -> <<"i">> \o Sign(doc[2]) \o Decimal(Magnitude(doc[2])) \o <<"e">>
      [] doc[1] = "str"  -> Decimal(Len(doc[2])) \o <<":">> \o doc[2]
      [] doc[1] = "list" -> <<"l">> \o EncodeFrom(doc, 1)
      [] doc[1] = "dict" -> <<"d">> \o EncodeFrom(doc, 1)

EncodeFrom(doc, n) ==
    IF n > Len(doc[2]) THEN <<"e">>
    ELSE IF doc[1] = "list" THEN Encode(doc[2][n]) \o EncodeFrom(doc, n + 1)
    ELSE Encode(<<"str", doc[2][n][1]>>) \o Encode(doc[2][n][2]) \o EncodeFrom(doc, n + 1)

\* The value a document stands for.
RECURSIVE Meaning(_)
Meaning(doc) ==
    LET content == doc[2]
        keys == {content[n][1] : n \in DOMAIN content}
    IN  CASE doc[1] = "list" -> <<"list", [n \in DOMAIN content |-> Meaning(content[n])]>>
          [] doc[1] = "dict" ->
                <<"dict", [key \in keys |-> Meaning(content[LastEntry(content, key)][2])]>>
          [] OTHER           -> doc

\* A document and those in it, the keys of dicts among them.
RECURSIVE Inside(_)
Inside(doc) ==
    {doc} \cup CASE doc[1] = "list" -> UNION {Inside(doc[2][n]) : n \in DOMAIN doc[2]}
                 [] doc[1] = "dict" ->
                       UNION {Inside(doc[2][n][2]) : n \in DOMAIN doc[2]}
                       \cup {<<"str", doc[2][n][1]>> : n \in DOMAIN doc[2]}
                 [] OTHER -> {}

InsideAny(docs) == UNION {Inside(doc) : doc \in docs}

\* Those with a number that is no int64_t.
TooBig(docs) ==
    {doc \in docs : \E part \in Inside(doc) :
        part[1] = "int" /\ part[2] \notin -LongMax - 1 .. LongMax}
=============================================================================
