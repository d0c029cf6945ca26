----------------------------- MODULE BencodeProofs -----------------------------
(***************************************************************************)
(* decode inverts the encoding, for every document (DocumentsAreRead).     *)
(*                                                                         *)
(* A string whose length leaves size_t moves parse back, so that what it   *)
(* makes of a place may depend on that place.  The calls that may be open  *)
(* are counted down instead, so that there is a function that satisfies    *)
(* the equation of the descent (SomeDescent, DescentSettled).  More calls  *)
(* do not change what fewer of them returned (MoreCallsKnowMore), and with *)
(* more calls than places one more changes nothing (CallsSuffice), so that *)
(* with as many each part is what it is made of (PartsAt).                 *)
(*                                                                         *)
(* Each construct is then read where its text begins, if those in it are   *)
(* (IntReads, StrReads, ListReads, DictReads); those in it have shorter    *)
(* texts, so that all documents are.                                       *)
(*                                                                         *)
(* Inductions are stated over sets of numbers: a set that has each number  *)
(* whose smaller ones it has, has all, or the rest would have a least one. *)
(***************************************************************************)
EXTENDS Bencode, WellFoundedInduction, FiniteSetTheorems, TLAPS

-----------------------------------------------------------------------------
\* Induction, over sets of numbers.

LEMMA LeastIn ==
    ASSUME NEW S, S \subseteq Nat, S # {}
    PROVE  \E m \in S : \A k \in S : m <= k
<1>1. OpToRel(<, Nat) = {p \in Nat \X Nat : p[1] < p[2]}
  BY DEF OpToRel
<1>2. PICK m \in S : \A k \in S : <<k, m>> \notin OpToRel(<, Nat)
  BY NatLessThanWellFounded, WFMin
<1>3. ASSUME NEW k \in S PROVE m <= k
  <2>1. k \in Nat /\ m \in Nat
    OBVIOUS
  <2>2. <<k, m>> \notin {p \in Nat \X Nat : p[1] < p[2]}
    BY <1>1, <1>2, Zenon
  <2>3. ~(k < m)
    BY <2>1, <2>2
  <2> QED
    BY <2>1, <2>3
<1> QED
  BY <1>3

\* Holding for each number below n, P holds for n: then P holds for all.
LEMMA Induction ==
    ASSUME NEW P, \A n \in Nat : (\A m \in Nat : m < n => m \in P) => n \in P
    PROVE  \A n \in Nat : n \in P
<1> SUFFICES ASSUME NEW n \in Nat, n \notin P PROVE FALSE
  OBVIOUS
<1>1. PICK m \in {k \in Nat : k \notin P} : \A k \in {j \in Nat : j \notin P} : m <= k
  BY LeastIn
<1>2. \A k \in Nat : k < m => k \in P
  BY <1>1
<1> QED
  BY <1>1, <1>2

\* Downwards, from the number behind the last.
LEMMA Downwards ==
    ASSUME NEW L \in Nat, NEW P, L + 1 \in P, \A n \in 1 .. L : n + 1 \in P => n \in P
    PROVE  1 \in P
<1> DEFINE Q == {j \in Nat : j <= L => L + 1 - j \in P}
<1>1. ASSUME NEW j \in Nat, \A m \in Nat : m < j => m \in Q PROVE j \in Q
  <2>1. CASE j = 0
    BY <2>1
  <2>2. CASE j # 0 /\ j <= L
    <3>1. /\ j - 1 \in Nat /\ j - 1 < j /\ j - 1 <= L
          /\ L + 1 - j \in 1 .. L /\ L + 1 - (j - 1) = (L + 1 - j) + 1
      BY <2>2
    <3>2. L + 1 - (j - 1) \in P
      BY <1>1, <3>1
    <3> QED
      BY <3>1, <3>2
  <2> QED
    BY <2>1, <2>2
<1> HIDE DEF Q
<1>2. L \in Q
  BY <1>1, Induction
<1>3. L + 1 - L = 1 /\ L <= L
  OBVIOUS
<1> QED
  BY <1>2, <1>3 DEF Q

-----------------------------------------------------------------------------
\* Numbers.

LEMMA DigitIsNumber == ASSUME NEW c, IsDigit(c) PROVE DigitValue(c) \in Nat
<1>1. PICK at \in DOMAIN Digit : Digit[at] = c
  BY DEF IsDigit
<1> DEFINE place == CHOOSE i \in DOMAIN Digit : Digit[i] = c
<1>2. place \in DOMAIN Digit
  BY <1>1
<1>3. DOMAIN Digit = 1 .. 10
  BY DEF Digit
<1>4. DigitValue(c) = place - 1
  BY DEF DigitValue
<1> HIDE DEF place
<1> QED
  BY <1>2, <1>3, <1>4

\* The number of a sequence of digits is one.
LEMMA NumberIsNat ==
    ASSUME NEW digits, Len(digits) \in Nat, \A i \in 1 .. Len(digits) : IsDigit(digits[i])
    PROVE  Number(digits) \in Nat
<1> DEFINE D == 0 .. Len(digits)
           Next(g, n) == IF n = 0 THEN 0 ELSE 10 * g[n - 1] + DigitValue(digits[n])
           Upto(n) == {g \in [D -> Nat] : \A k \in D : k <= n => g[k] = Next(g, k)}
           P == {n \in Nat : Upto(n) # {}}
<1>1. ASSUME NEW n \in Nat, \A m \in Nat : m < n => m \in P PROVE n \in P
  <2>1. CASE n = 0
    <3>1. [k \in D |-> 0] \in Upto(0)
      OBVIOUS
    <3> QED
      BY <2>1, <3>1
  <2>2. CASE n # 0
    <3>1. PICK g \in [D -> Nat] : \A k \in D : k <= n - 1 => g[k] = Next(g, k)
      <4>1. n - 1 \in P
        BY <1>1, <2>2
      <4>2. Upto(n - 1) # {}
        BY <4>1
      <4> QED
        BY <4>2
    <3> DEFINE h == [k \in D |-> IF k = n THEN Next(g, n) ELSE g[k]]
    <3>2. n \in D => Next(g, n) \in Nat
      <4>1. n \in D => n - 1 \in D /\ DigitValue(digits[n]) \in Nat
        BY <2>2, DigitIsNumber
      <4> QED
        BY <2>2, <4>1, SMTT(30)
    <3>3. h \in [D -> Nat]
      BY <3>2
    <3>4. ASSUME NEW k \in D, k <= n PROVE h[k] = Next(h, k)
      <4>1. CASE k = 0
        BY <2>2, <3>1, <4>1
      <4>2. CASE k # 0
        <5>1. k - 1 \in D /\ h[k - 1] = g[k - 1]
          BY <3>4, <4>2
        <5>2. h[k] = Next(g, k)
          BY <3>1, <3>4, <4>2
        <5> QED
          BY <4>2, <5>1, <5>2
      <4> QED
        BY <4>1, <4>2
    <3>5. h \in Upto(n)
      BY <3>3, <3>4
    <3> QED
      BY <3>5
  <2> QED
    BY <2>1, <2>2
<1> HIDE DEF P
<1>2. Len(digits) \in P
  BY <1>1, Induction
<1>3. PICK g \in [D -> Nat] : \A k \in D : g[k] = Next(g, k)
  BY <1>2 DEF P
<1>4. g = [k \in D |-> Next(g, k)]
  BY <1>3
<1> DEFINE value == CHOOSE v : v = [k \in D |-> Next(v, k)]
<1>5. value = [k \in D |-> Next(value, k)]
  BY <1>4
<1>6. Number(digits) = value[Len(digits)]
  BY DEF Number
<1> QED
  OBVIOUS

-----------------------------------------------------------------------------
\* Places in a text.

\* A character that there is, and not before.
LEMMA FirstIs ==
    ASSUME NEW data, NEW c, NEW pos \in Nat \ {0}, Len(data) \in Nat,
           NEW end \in pos .. Len(data), data[end] = c, \A i \in pos .. end - 1 : data[i] # c
    PROVE  FirstFrom(data, c, pos) = end
<1> DEFINE found == {i \in pos .. Len(data) : data[i] = c}
           first == CHOOSE i \in found : \A j \in found : i <= j
<1>1. end \in found
  OBVIOUS
<1>2. \A j \in found : end <= j /\ j \in Int
  OBVIOUS
<1>3. first \in found /\ \A j \in found : first <= j
  BY <1>1, <1>2
<1>4. FirstFrom(data, c, pos) = first
  BY <1>1 DEF FirstFrom
<1> HIDE DEF found, first
<1>5. first <= end /\ end <= first /\ first \in Int
  BY <1>1, <1>2, <1>3
<1> QED
  BY <1>4, <1>5

LEMMA NoneThere ==
    ASSUME NEW data, NEW c, NEW pos \in Nat \ {0}, Len(data) \in Nat,
           \A i \in pos .. Len(data) : data[i] # c
    PROVE  FirstFrom(data, c, pos) = Len(data) + 1
BY DEF FirstFrom

\* Where it is found, in any text.
LEMMA FoundFrom ==
    ASSUME NEW data, NEW c, NEW pos \in Nat \ {0}, Len(data) \in Nat, pos <= Len(data) + 1
    PROVE  FirstFrom(data, c, pos) \in pos .. Len(data) + 1
<1> DEFINE found == {i \in pos .. Len(data) : data[i] = c}
           first == CHOOSE i \in found : \A j \in found : i <= j
<1>1. CASE found = {}
  BY <1>1 DEF FirstFrom
<1>2. CASE found # {}
  <2>1. found \subseteq Nat
    OBVIOUS
  <2>2. \E i \in found : \A j \in found : i <= j
    BY <1>2, <2>1, LeastIn
  <2>3. first \in found
    BY <2>2
  <2>4. FirstFrom(data, c, pos) = first
    BY <1>2 DEF FirstFrom
  <2> HIDE DEF first
  <2> QED
    BY <2>3, <2>4
<1> QED
  BY <1>1, <1>2

\* The digits in front, of any text.
LEMMA DigitsLead ==
    ASSUME NEW s, Len(s) \in Nat
    PROVE  LET lead == LeadingDigits(s)
           IN  Len(lead) \in Nat /\ \A i \in 1 .. Len(lead) : IsDigit(lead[i])
<1> DEFINE ends == {n \in 0 .. Len(s) : \A i \in 1 .. n : IsDigit(s[i])}
           last == CHOOSE n \in ends : \A m \in ends : m <= n
           short == {k \in 0 .. Len(s) : Len(s) - k \in ends}
<1>1. PICK k \in short : \A j \in short : k <= j
  <2>1. Len(s) \in short /\ short \subseteq Nat
    OBVIOUS
  <2> HIDE DEF short
  <2> QED
    BY <2>1, LeastIn
<1>2. Len(s) - k \in ends /\ \A m \in ends : m <= Len(s) - k
  <2>1. ASSUME NEW m \in ends PROVE m <= Len(s) - k
    <3>1. m \in 0 .. Len(s) /\ Len(s) - (Len(s) - m) = m
      OBVIOUS
    <3>2. Len(s) - m \in short
      BY <3>1
    <3>3. k <= Len(s) - m /\ k \in 0 .. Len(s)
      BY <1>1, <3>2
    <3> HIDE DEF ends, short
    <3> QED
      BY <3>1, <3>3
  <2> QED
    BY <1>1, <2>1
<1>3. last \in ends
  BY <1>2
<1> HIDE DEF last
<1>4. LeadingDigits(s) = SubSeq(s, 1, last)
  BY DEF LeadingDigits, last
<1>5. last \in 0 .. Len(s) /\ \A i \in 1 .. last : IsDigit(s[i])
  BY <1>3
<1>6. Len(SubSeq(s, 1, last)) = last /\ \A i \in 1 .. last : SubSeq(s, 1, last)[i] = s[i]
  BY <1>5
<1> QED
  BY <1>4, <1>5, <1>6

\* All of it, when it is all digits.
LEMMA AllLead ==
    ASSUME NEW s \in Seq(Char), \A i \in 1 .. Len(s) : IsDigit(s[i])
    PROVE  LeadingDigits(s) = s
<1> DEFINE ends == {n \in 0 .. Len(s) : \A i \in 1 .. n : IsDigit(s[i])}
           last == CHOOSE n \in ends : \A m \in ends : m <= n
<1>1. Len(s) \in ends /\ \A m \in ends : m <= Len(s) /\ m \in Int
  OBVIOUS
<1>2. last \in ends /\ \A m \in ends : m <= last
  BY <1>1
<1>3. LeadingDigits(s) = SubSeq(s, 1, last)
  BY DEF LeadingDigits
<1> HIDE DEF ends, last
<1>4. last = Len(s)
  BY <1>1, <1>2
<1>5. SubSeq(s, 1, Len(s)) = s
  OBVIOUS
<1> QED
  BY <1>3, <1>4, <1>5

-----------------------------------------------------------------------------
\* The descent.

Part == {"value", "items", "entries"}

\* A position in the data, or one past its end, unless nothing was returned.
Within(data, result) == result.pos \in -1 .. Len(data) + 1

\* What f makes of a call of the descent.
Outcome(f, data, call) ==
    IF call[1] = 0 THEN Endless ELSE ParseAt(f, call[1] - 1, data, call[2], call[3])

AllWithin(g, n, data) ==
    \A part \in Part : \A pos \in 1 .. Len(data) + 1 : Within(data, g[<<n, part, pos>>])

\* What g returns with n more calls, h does with m.
Known(g, n, h, m, data) ==
    \A part \in Part : \A pos \in 1 .. Len(data) + 1 :
        g[<<n, part, pos>>] = Endless \/ g[<<n, part, pos>>] = h[<<m, part, pos>>]

LEMMA IntegerIsWithin ==
    ASSUME NEW data \in Seq(Char), NEW pos \in 1 .. Len(data)
    PROVE  Within(data, ParseInteger(data, pos + 1))
<1> DEFINE end == FirstFrom(data, "e", pos + 1)
<1>1. end \in pos + 1 .. Len(data) + 1
  BY FoundFrom
<1> HIDE DEF end
<1>2. ParseInteger(data, pos + 1) = Throws
      \/ (ParseInteger(data, pos + 1).pos = end + 1 /\ end <= Len(data))
  <2> DEFINE num      == SubSeq(data, pos + 1, end - 1)
             negative == num # <<>> /\ num[1] = "-"
             digits   == IF negative THEN Tail(num) ELSE num
             n        == IF negative THEN -Number(digits) ELSE Number(digits)
  <2>1. ASSUME ParseInteger(data, pos + 1) # Throws
        PROVE  ~(end > Len(data)) /\ ParseInteger(data, pos + 1) = Parsed("int", n, end + 1)
    BY <2>1 DEF ParseInteger, end
  <2> HIDE DEF n
  <2> QED
    BY <1>1, <2>1 DEF Parsed
<1> QED
  BY <1>1, <1>2 DEF Within, Throws

LEMMA StringIsWithin ==
    ASSUME NEW data \in Seq(Char), NEW pos \in 1 .. Len(data)
    PROVE  Within(data, ParseString(data, pos))
<1> DEFINE colon  == FirstFrom(data, ":", pos)
           front  == SubSeq(data, pos, colon - 1)
           len    == Number(LeadingDigits(front))
           behind == SizeSum(colon, len)
<1>1. colon \in pos .. Len(data) + 1
  BY FoundFrom
<1>2. Len(front) \in Nat
  BY <1>1
<1>3. len \in Nat
  BY <1>2, DigitsLead, NumberIsNat
<1> HIDE DEF colon, len
<1>4. behind \in Nat \/ len >= SizeWord
  BY <1>1, <1>3, CharAssumption DEF SizeSum
<1> HIDE DEF behind
<1>5. ParseString(data, pos) = Throws
      \/ /\ ParseString(data, pos).pos = behind + 1
         /\ ~(len >= SizeWord) /\ ~(behind > Len(data))
  BY DEF ParseString, Parsed, colon, len, behind
<1> QED
  BY <1>4, <1>5 DEF Within, Throws

\* What a call makes of what it calls stays within the data, ...
LEMMA WithinAt ==
    ASSUME NEW data \in Seq(Char), NEW g, NEW n, AllWithin(g, n, data),
           NEW part \in Part, NEW pos \in 1 .. Len(data) + 1
    PROVE  Within(data, ParseAt(g, n, data, part, pos))
<1>1. Within(data, Throws) /\ Within(data, Endless)
  BY DEF Within, Throws, Endless
<1>2. ASSUME NEW p \in Part, NEW at \in 1 .. Len(data) + 1
      PROVE  /\ Within(data, g[<<n, p, at>>])
             /\ Returned(g[<<n, p, at>>]) => g[<<n, p, at>>].pos \in 1 .. Len(data) + 1
  BY <1>2 DEF AllWithin, Within, Returned
<1>3. pos <= Len(data) => pos + 1 \in 1 .. Len(data) + 1
  OBVIOUS
<1>4. ASSUME NEW kind, NEW c, NEW at \in 1 .. Len(data) + 1
      PROVE  Within(data, Parsed(kind, c, at))
  BY DEF Within, Parsed
<1>5. CASE part = "value"
  <2>1. ParseAt(g, n, data, part, pos) = ParseValue(g, n, data, pos)
    BY <1>5 DEF ParseAt
  <2>2. CASE pos > Len(data)
    BY <1>1, <2>1, <2>2 DEF ParseValue
  <2>3. CASE ~(pos > Len(data))
    <3>1. Within(data, ParseInteger(data, pos + 1)) /\ Within(data, ParseString(data, pos))
      BY <2>3, IntegerIsWithin, StringIsWithin
    <3>2. Within(data, g[<<n, "items", pos + 1>>]) /\ Within(data, g[<<n, "entries", pos + 1>>])
      BY <1>2, <1>3, <2>3 DEF Part
    <3>3. ParseValue(g, n, data, pos) \in
             {ParseInteger(data, pos + 1), ParseString(data, pos), Throws,
              g[<<n, "items", pos + 1>>], g[<<n, "entries", pos + 1>>]}
      BY <2>3 DEF ParseValue
    <3> QED
      BY <1>1, <2>1, <3>1, <3>2, <3>3
  <2> QED
    BY <2>2, <2>3
<1>6. CASE part = "items"
  <2> DEFINE item == g[<<n, "value", pos>>]
             rest == g[<<n, "items", item.pos>>]
  <2>1. ParseAt(g, n, data, part, pos) = ParseItems(g, n, data, pos)
    BY <1>6 DEF ParseAt
  <2>2. Within(data, item) /\ (Returned(item) => item.pos \in 1 .. Len(data) + 1)
    BY <1>2 DEF Part
  <2>3. Returned(item) =>
           Within(data, rest) /\ (Returned(rest) => rest.pos \in 1 .. Len(data) + 1)
    BY <1>2, <2>2 DEF Part
  <2> HIDE DEF item, rest
  <2>4. \/ ParseItems(g, n, data, pos) = Throws
        \/ ~(pos > Len(data)) /\ ParseItems(g, n, data, pos) = Parsed("list", <<>>, pos + 1)
        \/ ParseItems(g, n, data, pos) = item
        \/ Returned(item) /\ ~Returned(rest) /\ ParseItems(g, n, data, pos) = rest
        \/ /\ Returned(item) /\ Returned(rest)
           /\ ParseItems(g, n, data, pos) = Parsed("list", <<item.val>> \o rest.val[2], rest.pos)
    BY DEF ParseItems, item, rest
  <2> QED
    BY <1>1, <1>3, <1>4, <2>1, <2>2, <2>3, <2>4
<1>7. CASE part = "entries"
  <2> DEFINE key  == g[<<n, "value", pos>>]
             val  == g[<<n, "value", key.pos>>]
             rest == g[<<n, "entries", val.pos>>]
  <2>1. ParseAt(g, n, data, part, pos) = ParseEntries(g, n, data, pos)
    BY <1>7 DEF ParseAt
  <2>2. Within(data, key) /\ (Returned(key) => key.pos \in 1 .. Len(data) + 1)
    BY <1>2 DEF Part
  <2>3. Returned(key) => Within(data, val) /\ (Returned(val) => val.pos \in 1 .. Len(data) + 1)
    BY <1>2, <2>2 DEF Part
  <2>4. Returned(key) /\ Returned(val) =>
           Within(data, rest) /\ (Returned(rest) => rest.pos \in 1 .. Len(data) + 1)
    BY <1>2, <2>3 DEF Part
  <2> HIDE DEF key, val, rest
  <2>5. \/ ParseEntries(g, n, data, pos) = Throws
        \/ ~(pos > Len(data)) /\ ParseEntries(g, n, data, pos) = Parsed("dict", EmptyDict, pos + 1)
        \/ ParseEntries(g, n, data, pos) = key
        \/ Returned(key) /\ ~Returned(val) /\ ParseEntries(g, n, data, pos) = val
        \/ /\ Returned(key) /\ Returned(val) /\ ~Returned(rest)
           /\ ParseEntries(g, n, data, pos) = rest
        \/ /\ Returned(key) /\ Returned(val) /\ Returned(rest)
           /\ \E c : ParseEntries(g, n, data, pos) = Parsed("dict", c, rest.pos)
    BY DEF ParseEntries, key, val, rest
  <2> QED
    BY <1>1, <1>3, <1>4, <2>1, <2>2, <2>3, <2>4, <2>5
<1> QED
  BY <1>5, <1>6, <1>7 DEF Part

\* ... and more calls do not change what it returns.
LEMMA KnownAt ==
    ASSUME NEW data \in Seq(Char), NEW g, NEW n, NEW h, NEW m,
           AllWithin(g, n, data), Known(g, n, h, m, data),
           NEW part \in Part, NEW pos \in 1 .. Len(data) + 1
    PROVE  \/ ParseAt(g, n, data, part, pos) = Endless
           \/ ParseAt(g, n, data, part, pos) = ParseAt(h, m, data, part, pos)
<1>1. ASSUME NEW p \in Part, NEW at \in 1 .. Len(data) + 1
      PROVE  /\ g[<<n, p, at>>] = Endless \/ g[<<n, p, at>>] = h[<<m, p, at>>]
             /\ Returned(g[<<n, p, at>>]) => g[<<n, p, at>>].pos \in 1 .. Len(data) + 1
  BY <1>1 DEF Known, AllWithin, Within, Returned
<1>2. ~Returned(Endless)
  BY DEF Returned, Endless
<1>3. CASE part = "value"
  <2>1. ParseAt(g, n, data, part, pos) = ParseValue(g, n, data, pos)
        /\ ParseAt(h, m, data, part, pos) = ParseValue(h, m, data, pos)
    BY <1>3 DEF ParseAt
  <2>2. CASE pos > Len(data)
    BY <2>1, <2>2 DEF ParseValue
  <2>3. CASE ~(pos > Len(data))
    <3>1. pos + 1 \in 1 .. Len(data) + 1
      BY <2>3
    <3>2. /\ g[<<n, "items", pos + 1>>] = Endless
             \/ g[<<n, "items", pos + 1>>] = h[<<m, "items", pos + 1>>]
          /\ g[<<n, "entries", pos + 1>>] = Endless
             \/ g[<<n, "entries", pos + 1>>] = h[<<m, "entries", pos + 1>>]
      BY <1>1, <3>1 DEF Part
    <3> QED
      BY <2>1, <2>3, <3>2 DEF ParseValue
  <2> QED
    BY <2>2, <2>3
<1>4. CASE part = "items"
  <2> DEFINE item == g[<<n, "value", pos>>]
             rest == g[<<n, "items", item.pos>>]
             itemH == h[<<m, "value", pos>>]
             restH == h[<<m, "items", itemH.pos>>]
  <2>1. ParseAt(g, n, data, part, pos) = ParseItems(g, n, data, pos)
        /\ ParseAt(h, m, data, part, pos) = ParseItems(h, m, data, pos)
    BY <1>4 DEF ParseAt
  <2>2. /\ item = Endless \/ item = itemH
        /\ Returned(item) => item.pos \in 1 .. Len(data) + 1
    BY <1>1 DEF Part
  <2>3. Returned(item) => rest = Endless \/ rest = restH
    <3> SUFFICES ASSUME Returned(item) PROVE rest = Endless \/ rest = restH
      OBVIOUS
    <3>1. item = itemH /\ item.pos \in 1 .. Len(data) + 1
      BY <1>2, <2>2
    <3>2. rest = Endless \/ rest = h[<<m, "items", item.pos>>]
      BY <1>1, <3>1 DEF Part
    <3> QED
      BY <3>1, <3>2
  <2> HIDE DEF item, rest, itemH, restH
  <2>4. CASE pos > Len(data) \/ data[pos] = "e"
    BY <2>1, <2>4 DEF ParseItems
  <2>5. CASE ~(pos > Len(data)) /\ data[pos] # "e"
    <3>1. ParseItems(g, n, data, pos) =
             IF ~Returned(item) THEN item ELSE IF ~Returned(rest) THEN rest
             ELSE Parsed("list", <<item.val>> \o rest.val[2], rest.pos)
      BY <2>5 DEF ParseItems, item, rest
    <3>2. ParseItems(h, m, data, pos) =
             IF ~Returned(itemH) THEN itemH ELSE IF ~Returned(restH) THEN restH
             ELSE Parsed("list", <<itemH.val>> \o restH.val[2], restH.pos)
      BY <2>5 DEF ParseItems, itemH, restH
    <3> QED
      BY <1>2, <2>1, <2>2, <2>3, <3>1, <3>2
  <2> QED
    BY <2>4, <2>5
<1>5. CASE part = "entries"
  <2> DEFINE key   == g[<<n, "value", pos>>]
             val   == g[<<n, "value", key.pos>>]
             rest  == g[<<n, "entries", val.pos>>]
             keyH  == h[<<m, "value", pos>>]
             valH  == h[<<m, "value", keyH.pos>>]
             restH == h[<<m, "entries", valH.pos>>]
  <2>1. ParseAt(g, n, data, part, pos) = ParseEntries(g, n, data, pos)
        /\ ParseAt(h, m, data, part, pos) = ParseEntries(h, m, data, pos)
    BY <1>5 DEF ParseAt
  <2>2. /\ key = Endless \/ key = keyH
        /\ Returned(key) => key.pos \in 1 .. Len(data) + 1
    BY <1>1 DEF Part
  <2>3. Returned(key) => /\ val = Endless \/ val = valH
                         /\ Returned(val) => val.pos \in 1 .. Len(data) + 1
    <3> SUFFICES ASSUME Returned(key)
                 PROVE  /\ val = Endless \/ val = valH
                        /\ Returned(val) => val.pos \in 1 .. Len(data) + 1
      OBVIOUS
    <3>1. key = keyH /\ key.pos \in 1 .. Len(data) + 1
      BY <1>2, <2>2
    <3>2. /\ val = Endless \/ val = h[<<m, "value", key.pos>>]
          /\ Returned(val) => val.pos \in 1 .. Len(data) + 1
      BY <1>1, <3>1 DEF Part
    <3> QED
      BY <3>1, <3>2
  <2>4. Returned(key) /\ Returned(val) => rest = Endless \/ rest = restH
    <3> SUFFICES ASSUME Returned(key), Returned(val) PROVE rest = Endless \/ rest = restH
      OBVIOUS
    <3>1. val = valH /\ val.pos \in 1 .. Len(data) + 1
      BY <1>2, <2>3
    <3>2. rest = Endless \/ rest = h[<<m, "entries", val.pos>>]
      BY <1>1, <3>1 DEF Part
    <3> QED
      BY <3>1, <3>2
  <2> HIDE DEF key, val, rest, keyH, valH, restH
  <2>5. CASE pos > Len(data) \/ data[pos] = "e"
    BY <2>1, <2>5 DEF ParseEntries
  <2>6. CASE ~(pos > Len(data)) /\ data[pos] # "e"
    <3>1. ParseEntries(g, n, data, pos) =
             IF ~Returned(key) THEN key ELSE IF key.val[1] # "str" THEN Throws
             ELSE IF ~Returned(val) THEN val ELSE IF ~Returned(rest) THEN rest
             ELSE Parsed("dict", WithEntry(key.val[2], val.val, rest.val[2]), rest.pos)
      BY <2>6 DEF ParseEntries, key, val, rest
    <3>2. ParseEntries(h, m, data, pos) =
             IF ~Returned(keyH) THEN keyH ELSE IF keyH.val[1] # "str" THEN Throws
             ELSE IF ~Returned(valH) THEN valH ELSE IF ~Returned(restH) THEN restH
             ELSE Parsed("dict", WithEntry(keyH.val[2], valH.val, restH.val[2]), restH.pos)
      BY <2>6 DEF ParseEntries, keyH, valH, restH
    <3> QED
      BY <1>2, <2>1, <2>2, <2>3, <2>4, <3>1, <3>2
  <2> QED
    BY <2>5, <2>6
<1> QED
  BY <1>3, <1>4, <1>5 DEF Part

\* Where two functions agree on what a call uses, they agree on the call.
LEMMA AgreeAt ==
    ASSUME NEW data \in Seq(Char), NEW g, NEW n, NEW h, NEW m, AllWithin(g, n, data),
           \A p \in Part : \A at \in 1 .. Len(data) + 1 : g[<<n, p, at>>] = h[<<m, p, at>>],
           NEW part \in Part, NEW pos \in 1 .. Len(data) + 1
    PROVE  ParseAt(g, n, data, part, pos) = ParseAt(h, m, data, part, pos)
<1>1. Known(g, n, h, m, data) /\ Known(h, m, g, n, data)
  BY DEF Known
<1>2. AllWithin(h, m, data)
  BY DEF AllWithin
<1>3. ParseAt(g, n, data, part, pos) = Endless
      \/ ParseAt(g, n, data, part, pos) = ParseAt(h, m, data, part, pos)
  BY <1>1, KnownAt
<1>4. ParseAt(h, m, data, part, pos) = Endless
      \/ ParseAt(h, m, data, part, pos) = ParseAt(g, n, data, part, pos)
  BY <1>1, <1>2, KnownAt
<1> QED
  BY <1>3, <1>4

LEMMA PlacesFinite ==
    ASSUME NEW data \in Seq(Char)
    PROVE  IsFiniteSet(Places(data)) /\ MostCalls(data) \in Nat \ {0}
           /\ MostCalls(data) = Cardinality(Places(data)) + 1
<1>1. IsFiniteSet(1 .. Len(data) + 1)
  BY FS_Interval
<1>2. IsFiniteSet({"value", "items", "entries"})
  <2>1. IsFiniteSet({}) /\ {} \cup {"value"} = {"value"}
    BY FS_EmptySet
  <2>2. IsFiniteSet({"value"})
    BY <2>1, FS_AddElement
  <2>3. IsFiniteSet({"value"} \cup {"items"})
    BY <2>2, FS_AddElement
  <2>4. IsFiniteSet(({"value"} \cup {"items"}) \cup {"entries"})
    BY <2>3, FS_AddElement
  <2>5. ({"value"} \cup {"items"}) \cup {"entries"} = {"value", "items", "entries"}
    OBVIOUS
  <2> QED
    BY <2>4, <2>5
<1>3. IsFiniteSet(Places(data))
  BY <1>1, <1>2, FS_Product DEF Places
<1>4. Cardinality(Places(data)) \in Nat
  BY <1>3, FS_CardinalityType
<1> QED
  BY <1>3, <1>4 DEF MostCalls

LEMMA CallIs ==
    ASSUME NEW data \in Seq(Char), NEW call \in Calls(data)
    PROVE  /\ call = <<call[1], call[2], call[3]>> /\ call[1] \in 0 .. MostCalls(data)
           /\ call[2] \in Part /\ call[3] \in 1 .. Len(data) + 1
BY DEF Calls, Part

LEMMA IsCall ==
    ASSUME NEW data \in Seq(Char), NEW n \in 0 .. MostCalls(data),
           NEW part \in Part, NEW pos \in 1 .. Len(data) + 1
    PROVE  <<n, part, pos>> \in Calls(data)
BY DEF Calls, Part

\* There is a function that parses: fewer calls may be open in each call that is made.
LEMMA SomeDescent ==
    ASSUME NEW data \in Seq(Char)
    PROVE  \E f : f = [call \in Calls(data) |-> Outcome(f, data, call)]
<1> DEFINE Settled(g, c) == g[c] = Outcome(g, data, c) /\ Within(data, g[c])
           SettledBelow(g, n) == \A c \in Calls(data) : c[1] < n => Settled(g, c)
           P == {n \in Nat : \E g : SettledBelow(g, n)}
<1>1. MostCalls(data) \in Nat /\ Within(data, Endless)
  BY PlacesFinite DEF Within, Endless
<1>2. ASSUME NEW n \in Nat, NEW g, SettledBelow(g, n), NEW h,
             h = [c \in Calls(data) |-> Outcome(g, data, c)],
             NEW c \in Calls(data), c[1] < n + 1
      PROVE  Settled(h, c)
  <2>1. c = <<c[1], c[2], c[3]>> /\ c[1] \in 0 .. MostCalls(data)
        /\ c[2] \in Part /\ c[3] \in 1 .. Len(data) + 1
    BY CallIs
  <2>2. h[c] = Outcome(g, data, c)
    BY <1>2
  <2>3. CASE c[1] = 0
    BY <1>1, <2>2, <2>3 DEF Outcome
  <2>4. CASE c[1] # 0
    <3> DEFINE m == c[1] - 1
    <3>1. m \in 0 .. MostCalls(data) /\ m < n
      BY <1>1, <1>2, <2>1, <2>4
    <3>2. ASSUME NEW p \in Part, NEW at \in 1 .. Len(data) + 1
          PROVE  g[<<m, p, at>>] = h[<<m, p, at>>] /\ Within(data, g[<<m, p, at>>])
      <4>1. <<m, p, at>> \in Calls(data) /\ <<m, p, at>>[1] < n
        BY <3>1, IsCall
      <4>2. Settled(g, <<m, p, at>>)
        BY <1>2, <4>1
      <4>3. h[<<m, p, at>>] = Outcome(g, data, <<m, p, at>>)
        BY <1>2, <4>1
      <4> QED
        BY <4>2, <4>3
    <3>3. AllWithin(g, m, data)
      BY <3>2 DEF AllWithin
    <3>4. /\ ParseAt(g, m, data, c[2], c[3]) = ParseAt(h, m, data, c[2], c[3])
          /\ Within(data, ParseAt(g, m, data, c[2], c[3]))
      BY <2>1, <3>2, <3>3, AgreeAt, WithinAt
    <3> QED
      BY <2>2, <2>4, <3>4 DEF Outcome
  <2> QED
    BY <2>3, <2>4
<1>3. ASSUME NEW n \in Nat, \A m \in Nat : m < n => m \in P PROVE n \in P
  <2>1. CASE n = 0
    <3>1. SettledBelow(data, 0)
      <4>1. \A c \in Calls(data) : ~(c[1] < 0)
        BY <1>1, CallIs
      <4> QED
        BY <4>1
    <3> QED
      BY <2>1, <3>1
  <2>2. CASE n # 0
    <3>1. n - 1 \in Nat /\ n - 1 < n /\ (n - 1) + 1 = n
      BY <2>2
    <3>2. n - 1 \in P
      <4> HIDE DEF P
      <4> QED
        BY <1>3, <3>1
    <3>3. PICK g : SettledBelow(g, n - 1)
      BY <3>2
    <3> DEFINE h == [c \in Calls(data) |-> Outcome(g, data, c)]
    <3> HIDE DEF h, Settled
    <3>4. \A c \in Calls(data) : c[1] < (n - 1) + 1 => Settled(h, c)
      BY <1>2, <3>1, <3>3 DEF h
    <3>5. SettledBelow(h, n)
      BY <3>1, <3>4
    <3> QED
      BY <3>5
  <2> QED
    BY <2>1, <2>2
<1> HIDE DEF P
<1>4. MostCalls(data) + 1 \in P
  BY <1>1, <1>3, Induction
<1>5. PICK g : SettledBelow(g, MostCalls(data) + 1)
  BY <1>4 DEF P
<1> DEFINE f == [c \in Calls(data) |-> Outcome(g, data, c)]
<1>6. ASSUME NEW c \in Calls(data) PROVE f[c] = Outcome(f, data, c)
  <2>1. c[1] < (MostCalls(data) + 1) + 1
    BY <1>1, CallIs
  <2>2. MostCalls(data) + 1 \in Nat /\ f = [b \in Calls(data) |-> Outcome(g, data, b)]
    BY <1>1
  <2> HIDE DEF f
  <2>3. Settled(f, c)
    <3> HIDE DEF Settled
    <3> QED
      BY <1>2, <1>5, <2>1, <2>2
  <2> QED
    BY <2>3
<1>7. f = [call \in Calls(data) |-> Outcome(f, data, call)]
  <2>1. \A c \in Calls(data) : f[c] = Outcome(g, data, c)
    OBVIOUS
  <2>2. \A c \in Calls(data) : Outcome(f, data, c) = Outcome(g, data, c)
    <3> HIDE DEF f
    <3> QED
      BY <1>6, <2>1
  <2> HIDE DEF f
  <2>3. [call \in Calls(data) |-> Outcome(f, data, call)] =
        [call \in Calls(data) |-> Outcome(g, data, call)]
    BY <2>2
  <2> QED
    BY <2>3 DEF f
<1> QED
  BY <1>7

\* The descent does with each call as it is defined, within the data.
LEMMA DescentSettled ==
    ASSUME NEW data \in Seq(Char)
    PROVE  /\ \A call \in Calls(data) : Descent(data)[call] = Outcome(Descent(data), data, call)
           /\ \A n \in 0 .. MostCalls(data) : AllWithin(Descent(data), n, data)
<1> DEFINE d == Descent(data)
           f == CHOOSE g : g = [call \in Calls(data) |-> Outcome(g, data, call)]
           P == {n \in Nat : n <= MostCalls(data) => AllWithin(d, n, data)}
<1>1. f = [call \in Calls(data) |-> Outcome(f, data, call)]
  BY SomeDescent
<1>2. d = f
  BY DEF Descent, Outcome
<1> HIDE DEF f, d
<1>3. ASSUME NEW call \in Calls(data) PROVE d[call] = Outcome(d, data, call)
  BY <1>1, <1>2
<1>4. ASSUME NEW n \in Nat, \A m \in Nat : m < n => m \in P PROVE n \in P
  <2> SUFFICES ASSUME n <= MostCalls(data), NEW part \in Part, NEW pos \in 1 .. Len(data) + 1
               PROVE  Within(data, d[<<n, part, pos>>])
    BY DEF AllWithin
  <2>1. MostCalls(data) \in Nat /\ n \in 0 .. MostCalls(data)
    BY PlacesFinite
  <2>2. d[<<n, part, pos>>] = Outcome(d, data, <<n, part, pos>>)
    BY <1>3, <2>1, IsCall
  <2>3. CASE n = 0
    BY <2>2, <2>3 DEF Outcome, Within, Endless
  <2>4. CASE n # 0
    <3>1. n - 1 \in Nat /\ n - 1 < n /\ n - 1 <= MostCalls(data)
      BY <2>1, <2>4
    <3>2. n - 1 \in P
      <4> HIDE DEF P
      <4> QED
        BY <1>4, <3>1
    <3>3. AllWithin(d, n - 1, data)
      BY <3>1, <3>2
    <3>4. Within(data, ParseAt(d, n - 1, data, part, pos))
      BY <3>3, WithinAt
    <3>5. Outcome(d, data, <<n, part, pos>>) = ParseAt(d, n - 1, data, part, pos)
      BY <2>4 DEF Outcome
    <3> QED
      BY <2>2, <3>4, <3>5
  <2> QED
    BY <2>3, <2>4
<1> HIDE DEF P
<1>5. ASSUME NEW n \in 0 .. MostCalls(data) PROVE AllWithin(d, n, data)
  <2>1. n \in Nat /\ n <= MostCalls(data)
    BY PlacesFinite
  <2>2. n \in P
    BY <1>4, <2>1, Induction
  <2> QED
    BY <2>1, <2>2 DEF P
<1> QED
  BY <1>3, <1>5 DEF d

LEMMA CallOf ==
    ASSUME NEW data \in Seq(Char), NEW n \in 0 .. MostCalls(data) - 1,
           NEW part \in Part, NEW pos \in 1 .. Len(data) + 1
    PROVE  LET d == Descent(data)
           IN  /\ d[<<0, part, pos>>] = Endless
               /\ d[<<n + 1, part, pos>>] = ParseAt(d, n, data, part, pos)
<1>1. n + 1 \in 0 .. MostCalls(data) /\ 0 \in 0 .. MostCalls(data) /\ n \in Nat
      /\ n + 1 # 0 /\ (n + 1) - 1 = n
  BY PlacesFinite
<1> DEFINE d == Descent(data)
<1>2. d[<<0, part, pos>>] = Outcome(d, data, <<0, part, pos>>)
  BY <1>1, DescentSettled, IsCall
<1>3. d[<<n + 1, part, pos>>] = Outcome(d, data, <<n + 1, part, pos>>)
  BY <1>1, DescentSettled, IsCall
<1> HIDE DEF d
<1>4. Outcome(d, data, <<0, part, pos>>) = Endless
  BY DEF Outcome
<1>5. Outcome(d, data, <<n + 1, part, pos>>) = ParseAt(d, n, data, part, pos)
  BY <1>1 DEF Outcome
<1> QED
  BY <1>2, <1>3, <1>4, <1>5 DEF d

\* What one more call that may be open leaves as it is, still more of them do.
Same(data, n) ==
    \A part \in Part : \A pos \in 1 .. Len(data) + 1 :
        Descent(data)[<<n + 1, part, pos>>] = Descent(data)[<<n, part, pos>>]

LEMMA MoreCallsKnowMore ==
    ASSUME NEW data \in Seq(Char), NEW n \in 0 .. MostCalls(data) - 1
    PROVE  Known(Descent(data), n, Descent(data), n + 1, data)
<1> DEFINE d == Descent(data)
           P == {m \in Nat : m < MostCalls(data) => Known(d, m, d, m + 1, data)}
<1>1. MostCalls(data) \in Nat
  BY PlacesFinite
<1>2. ASSUME NEW m \in Nat, \A k \in Nat : k < m => k \in P PROVE m \in P
  <2> SUFFICES ASSUME m < MostCalls(data) PROVE Known(d, m, d, m + 1, data)
    OBVIOUS
  <2>1. m \in 0 .. MostCalls(data) - 1 /\ 0 \in 0 .. MostCalls(data) - 1
    BY <1>1
  <2>2. CASE m = 0
    BY <2>1, <2>2, CallOf DEF Known
  <2>3. CASE m # 0
    <3>1. /\ m - 1 \in Nat /\ m - 1 < m /\ m - 1 < MostCalls(data) /\ (m - 1) + 1 = m
          /\ m - 1 \in 0 .. MostCalls(data) - 1 /\ m - 1 \in 0 .. MostCalls(data)
      BY <1>1, <2>1, <2>3
    <3>2. Known(d, m - 1, d, m, data)
      <4>1. m - 1 \in P
        <5> HIDE DEF P
        <5> QED
          BY <1>2, <3>1
      <4> QED
        BY <3>1, <4>1
    <3>3. AllWithin(d, m - 1, data)
      BY <3>1, DescentSettled
    <3>4. ASSUME NEW part \in Part, NEW pos \in 1 .. Len(data) + 1
          PROVE  d[<<m, part, pos>>] = Endless \/ d[<<m, part, pos>>] = d[<<m + 1, part, pos>>]
      <4>1. d[<<(m - 1) + 1, part, pos>>] = ParseAt(d, m - 1, data, part, pos)
        BY <3>1, CallOf
      <4>2. d[<<m + 1, part, pos>>] = ParseAt(d, m, data, part, pos)
        BY <2>1, CallOf
      <4>3. d[<<m, part, pos>>] = ParseAt(d, m - 1, data, part, pos)
        <5> HIDE DEF d
        <5> QED
          BY <3>1, <4>1
      <4> HIDE DEF d
      <4>4. ParseAt(d, m - 1, data, part, pos) = Endless
            \/ ParseAt(d, m - 1, data, part, pos) = ParseAt(d, m, data, part, pos)
        BY <3>2, <3>3, KnownAt
      <4> QED
        BY <4>2, <4>3, <4>4
    <3> QED
      BY <3>4 DEF Known
  <2> QED
    BY <2>2, <2>3
<1> HIDE DEF P
<1>3. n \in Nat /\ n < MostCalls(data)
  BY <1>1
<1>4. n \in P
  BY <1>2, <1>3, Induction
<1> QED
  BY <1>3, <1>4 DEF P

LEMMA SameOn ==
    ASSUME NEW data \in Seq(Char), NEW n \in 0 .. MostCalls(data) - 1, n + 1 < MostCalls(data),
           Same(data, n)
    PROVE  Same(data, n + 1)
<1> DEFINE d == Descent(data)
<1>1. /\ n \in 0 .. MostCalls(data) /\ n + 1 \in 0 .. MostCalls(data) - 1
      /\ n + 1 \in 0 .. MostCalls(data)
  BY PlacesFinite
<1>2. AllWithin(d, n, data)
  BY <1>1, DescentSettled
<1>3. ASSUME NEW part \in Part, NEW pos \in 1 .. Len(data) + 1
      PROVE  d[<<(n + 1) + 1, part, pos>>] = d[<<n + 1, part, pos>>]
  <2>1. d[<<n + 1, part, pos>>] = ParseAt(d, n, data, part, pos)
        /\ d[<<(n + 1) + 1, part, pos>>] = ParseAt(d, n + 1, data, part, pos)
    BY <1>1, CallOf
  <2>2. \A p \in Part : \A at \in 1 .. Len(data) + 1 : d[<<n, p, at>>] = d[<<n + 1, p, at>>]
    BY DEF Same
  <2> HIDE DEF d
  <2>3. ParseAt(d, n, data, part, pos) = ParseAt(d, n + 1, data, part, pos)
    BY <1>2, <2>2, AgreeAt
  <2> QED
    BY <2>1, <2>3
<1> QED
  BY <1>3 DEF Same

\* There are fewer places than calls, so that one call more is of no use in the end.
LEMMA CallsSuffice ==
    ASSUME NEW data \in Seq(Char) PROVE Same(data, MostCalls(data) - 1)
<1> DEFINE d == Descent(data)
           K == MostCalls(data)
           Ended(n) == {p \in Places(data) : d[<<n, p[1], p[2]>>] # Endless}
           Early(n) == \E m \in 0 .. n - 1 : Same(data, m)
           P == {n \in Nat : n <= K => Early(n) \/ Cardinality(Ended(n)) >= n}
<1>1. K \in Nat \ {0} /\ IsFiniteSet(Places(data)) /\ K = Cardinality(Places(data)) + 1
  BY PlacesFinite
<1>2. ASSUME NEW n \in Nat
      PROVE  /\ IsFiniteSet(Ended(n)) /\ Cardinality(Ended(n)) \in Nat
             /\ Cardinality(Ended(n)) <= Cardinality(Places(data))
  <2>1. Ended(n) \in SUBSET Places(data)
    OBVIOUS
  <2> HIDE DEF Ended
  <2> QED
    BY <1>1, <2>1, FS_Subset, FS_CardinalityType
<1>3. ASSUME NEW n \in 0 .. K - 1, ~Same(data, n)
      PROVE  Cardinality(Ended(n)) < Cardinality(Ended(n + 1))
  <2>1. Known(d, n, d, n + 1, data) /\ n \in Nat /\ n + 1 \in Nat
    BY <1>1, MoreCallsKnowMore
  <2>2. PICK part \in Part, pos \in 1 .. Len(data) + 1 :
           d[<<n + 1, part, pos>>] # d[<<n, part, pos>>]
    BY <1>3 DEF Same
  <2> HIDE DEF d
  <2>3. <<part, pos>> \in Ended(n + 1) /\ <<part, pos>> \notin Ended(n)
    <3>1. <<part, pos>> \in Places(data)
      BY DEF Places, Part
    <3> QED
      BY <2>1, <2>2, <3>1 DEF Known
  <2>4. Ended(n) \in SUBSET Ended(n + 1)
    <3> SUFFICES ASSUME NEW p \in Ended(n) PROVE p \in Ended(n + 1)
      OBVIOUS
    <3>1. p \in Places(data) /\ p[1] \in Part /\ p[2] \in 1 .. Len(data) + 1
      BY DEF Places, Part
    <3>2. d[<<n, p[1], p[2]>>] # Endless
      OBVIOUS
    <3>3. d[<<n, p[1], p[2]>>] = d[<<n + 1, p[1], p[2]>>]
      BY <2>1, <3>1, <3>2 DEF Known
    <3> QED
      BY <3>1, <3>2, <3>3
  <2>5. Cardinality(Ended(n)) # Cardinality(Ended(n + 1))
        /\ Cardinality(Ended(n)) <= Cardinality(Ended(n + 1))
    <3>1. IsFiniteSet(Ended(n + 1))
      BY <1>2, <2>1
    <3> HIDE DEF Ended
    <3> QED
      BY <2>3, <2>4, <3>1, FS_Subset
  <2>6. Cardinality(Ended(n)) \in Nat /\ Cardinality(Ended(n + 1)) \in Nat
    BY <1>2, <2>1
  <2> HIDE DEF Ended
  <2> QED
    BY <2>5, <2>6
<1> HIDE DEF K, Ended
<1>4. ASSUME NEW n \in Nat, \A m \in Nat : m < n => m \in P PROVE n \in P
  <2> SUFFICES ASSUME n <= K, ~Early(n) PROVE Cardinality(Ended(n)) >= n
    OBVIOUS
  <2>1. CASE n = 0
    BY <1>2, <2>1
  <2>2. CASE n # 0
    <3>1. /\ n - 1 \in Nat /\ n - 1 < n /\ n - 1 <= K /\ n - 1 \in 0 .. K - 1
          /\ (n - 1) + 1 = n /\ n - 1 \in 0 .. n - 1
          /\ 0 .. (n - 1) - 1 \subseteq 0 .. n - 1
      BY <1>1, <2>2
    <3>2. ~Early(n - 1) /\ ~Same(data, n - 1)
      BY <3>1
    <3>3. Cardinality(Ended(n - 1)) >= n - 1
      <4>1. n - 1 \in P
        <5> HIDE DEF P
        <5> QED
          BY <1>4, <3>1
      <4> HIDE DEF Early
      <4> QED
        BY <3>1, <3>2, <4>1
    <3>4. Cardinality(Ended(n - 1)) < Cardinality(Ended((n - 1) + 1))
      BY <1>3, <3>1, <3>2
    <3> QED
      BY <1>2, <3>1, <3>3, <3>4
  <2> QED
    BY <2>1, <2>2
<1>5. Early(K)
  <2>1. K \in P
    <3> HIDE DEF P
    <3> QED
      BY <1>1, <1>4, Induction
  <2>2. Cardinality(Ended(K)) <= Cardinality(Places(data)) /\ Cardinality(Ended(K)) \in Nat
        /\ Cardinality(Places(data)) \in Nat
    BY <1>1, <1>2, FS_CardinalityType
  <2> HIDE DEF Early
  <2> QED
    BY <1>1, <2>1, <2>2
<1>6. PICK m \in 0 .. K - 1 : Same(data, m)
  BY <1>5
<1> DEFINE Q == {j \in Nat : m + j <= K - 1 => Same(data, m + j)}
<1>7. ASSUME NEW j \in Nat, \A i \in Nat : i < j => i \in Q PROVE j \in Q
  <2> SUFFICES ASSUME m + j <= K - 1 PROVE Same(data, m + j)
    OBVIOUS
  <2>1. CASE j = 0
    <3>1. m + j = m
      BY <2>1
    <3> QED
      BY <1>6, <3>1
  <2>2. CASE j # 0
    <3> DEFINE n == m + (j - 1)
    <3>1. /\ j - 1 \in Nat /\ j - 1 < j /\ n <= K - 1 /\ n \in 0 .. K - 1
          /\ n + 1 < K /\ n + 1 = m + j
      BY <1>1, <2>2
    <3>2. Same(data, n)
      <4>1. j - 1 \in Q
        <5> HIDE DEF Q
        <5> QED
          BY <1>7, <3>1
      <4> QED
        BY <3>1, <4>1
    <3> HIDE DEF n
    <3>3. Same(data, n + 1)
      BY <3>1, <3>2, SameOn DEF K
    <3> QED
      BY <3>1, <3>3
  <2> QED
    BY <2>1, <2>2
<1>8. (K - 1) - m \in Nat /\ m + ((K - 1) - m) = K - 1
  BY <1>1
<1>9. (K - 1) - m \in Q
  <2> HIDE DEF Q
  <2> QED
    BY <1>7, <1>8, Induction
<1>10. Same(data, K - 1)
  BY <1>8, <1>9
<1> QED
  BY <1>10 DEF K

\* With as many calls as there can be, each part is what it is made of.
LEMMA PartsAt ==
    ASSUME NEW data \in Seq(Char), NEW pos \in 1 .. Len(data) + 1
    PROVE  LET d   == Descent(data)
               top == MostCalls(data)
           IN  /\ d[<<top, "value", pos>>] = ParseValue(d, top, data, pos)
               /\ d[<<top, "items", pos>>] = ParseItems(d, top, data, pos)
               /\ d[<<top, "entries", pos>>] = ParseEntries(d, top, data, pos)
<1> DEFINE d   == Descent(data)
           top == MostCalls(data)
<1>1. top - 1 \in 0 .. top - 1 /\ (top - 1) + 1 = top /\ top - 1 \in 0 .. top
  BY PlacesFinite
<1>2. AllWithin(d, top - 1, data)
  BY <1>1, DescentSettled
<1>3. ASSUME NEW part \in Part PROVE d[<<top, part, pos>>] = ParseAt(d, top, data, part, pos)
  <2>1. d[<<(top - 1) + 1, part, pos>>] = ParseAt(d, top - 1, data, part, pos)
    BY <1>1, CallOf
  <2>2. \A p \in Part : \A at \in 1 .. Len(data) + 1 :
           d[<<(top - 1) + 1, p, at>>] = d[<<top - 1, p, at>>]
    BY CallsSuffice DEF Same
  <2> HIDE DEF d, top
  <2>3. ParseAt(d, top - 1, data, part, pos) = ParseAt(d, top, data, part, pos)
    BY <1>1, <1>2, <2>2, AgreeAt
  <2> QED
    BY <1>1, <2>1, <2>3
<1> HIDE DEF d, top
<1>4. d[<<top, "value", pos>>] = ParseAt(d, top, data, "value", pos)
      /\ d[<<top, "items", pos>>] = ParseAt(d, top, data, "items", pos)
      /\ d[<<top, "entries", pos>>] = ParseAt(d, top, data, "entries", pos)
  BY <1>3 DEF Part
<1>5. ParseAt(d, top, data, "value", pos) = ParseValue(d, top, data, pos)
  BY DEF ParseAt
<1>6. ParseAt(d, top, data, "items", pos) = ParseItems(d, top, data, pos)
  BY DEF ParseAt
<1>7. ParseAt(d, top, data, "entries", pos) = ParseEntries(d, top, data, pos)
  BY DEF ParseAt
<1> QED
  BY <1>4, <1>5, <1>6, <1>7 DEF d, top

-----------------------------------------------------------------------------
\* Texts in texts.

\* What there is of data from pos on is the text, as far as it goes.
Lies(text, data, pos) ==
    \A k \in 1 .. Len(text) : pos - 1 + k <= Len(data) => data[pos - 1 + k] = text[k]

\* The text does not leave the data.
Fits(text, data, pos) == pos - 1 + Len(text) <= Len(data)

LEMMA Concatenated ==
    ASSUME NEW s \in Seq(Char), NEW t \in Seq(Char)
    PROVE  /\ s \o t \in Seq(Char)
           /\ Len(s \o t) = Len(s) + Len(t)
           /\ \A k \in 1 .. Len(s) : (s \o t)[k] = s[k]
           /\ \A k \in 1 .. Len(t) : (s \o t)[Len(s) + k] = t[k]
OBVIOUS

LEMMA Regrouped ==
    ASSUME NEW s \in Seq(Char), NEW t \in Seq(Char), NEW u \in Seq(Char)
    PROVE  (s \o t) \o u = s \o (t \o u)
BY SMTT(30)

LEMMA LieJoined ==
    ASSUME NEW s \in Seq(Char), NEW t \in Seq(Char), NEW data \in Seq(Char),
           NEW pos \in Nat \ {0}, Lies(s \o t, data, pos)
    PROVE  Lies(s, data, pos) /\ Lies(t, data, pos + Len(s))
<1> DEFINE st == s \o t
<1>1. /\ Len(st) = Len(s) + Len(t)
      /\ \A k \in 1 .. Len(s) : st[k] = s[k]
      /\ \A k \in 1 .. Len(t) : st[Len(s) + k] = t[k]
  BY Concatenated
<1>2. Lies(st, data, pos) /\ Len(s) \in Nat /\ Len(t) \in Nat
  OBVIOUS
<1> HIDE DEF st
<1>3. Lies(s, data, pos)
  BY <1>1, <1>2 DEF Lies
<1>4. ASSUME NEW k \in 1 .. Len(t), pos + Len(s) - 1 + k <= Len(data)
      PROVE  data[pos + Len(s) - 1 + k] = t[k]
  <2>1. Len(s) + k \in 1 .. Len(st) /\ pos - 1 + (Len(s) + k) = pos + Len(s) - 1 + k
    BY <1>1, <1>2
  <2>2. pos - 1 + (Len(s) + k) <= Len(data) => data[pos - 1 + (Len(s) + k)] = st[Len(s) + k]
    BY <1>2, <2>1 DEF Lies
  <2> QED
    BY <1>1, <1>4, <2>1, <2>2
<1> QED
  BY <1>3, <1>4 DEF Lies

LEMMA TextThere ==
    ASSUME NEW text \in Seq(Char), NEW data \in Seq(Char), NEW pos \in Nat \ {0},
           Lies(text, data, pos), Fits(text, data, pos)
    PROVE  SubSeq(data, pos, pos - 1 + Len(text)) = text
BY DEF Lies, Fits

LEMMA DigitsOnly ==
    ASSUME NEW c, IsDigit(c) PROVE c \notin {"i", "l", "d", "e", "-", ":"}
BY DEF IsDigit, Digit

LEMMA NotDigits == \A c \in {"i", "l", "d", "e", "-", ":"} : ~IsDigit(c)
BY DigitsOnly

LEMMA OneChar == "i" \in Char /\ "l" \in Char /\ "d" \in Char /\ "e" \in Char /\ "-" \in Char
                 /\ ":" \in Char /\ LongMax \in Nat /\ SizeWord \in Nat
BY CharAssumption

-----------------------------------------------------------------------------
\* Documents are read as they are written.

\* Decoding where the text of a document is gives its value and the position behind it,
\* unless the data is cut off in it or it has a number out of range.
Reads(doc) ==
    \A data \in Seq(Char) : \A pos \in 1 .. Len(data) + 1 :
        Storable(data) /\ Lies(Written(doc), data, pos) =>
            DecodeAt(data, pos) =
                IF Fits(Written(doc), data, pos) /\ doc \notin OutOfRange
                  THEN [val |-> Meant(doc), pos |-> pos + Len(Written(doc))]
                  ELSE Throws

LEMMA DecodedAt ==
    ASSUME NEW data \in Seq(Char), NEW pos \in 1 .. Len(data) + 1
    PROVE  DecodeAt(data, pos) = ParseValue(Descent(data), MostCalls(data), data, pos)
BY PartsAt DEF DecodeAt

LEMMA BehindTheEnd ==
    ASSUME NEW data \in Seq(Char), NEW pos \in 1 .. Len(data) + 1, pos > Len(data)
    PROVE  DecodeAt(data, pos) = Throws
BY DecodedAt DEF ParseValue

LEMMA IntReads ==
    ASSUME NEW doc \in Document, IntDocument(doc), Written(doc) \in Seq(Char)
    PROVE  Reads(doc) /\ Len(Written(doc)) > 1 /\ Written(doc)[1] # "e"
<1> DEFINE n == doc[2]
           N == Numeral(Magnitude(n))
           body == Sign(n) \o N
           text == Written(doc)
<1>1. /\ n \in Int /\ N \in Seq(Char) /\ N # <<>>
      /\ \A i \in 1 .. Len(N) : IsDigit(N[i])
      /\ Number(N) = Magnitude(n)
      /\ text = <<"i">> \o Sign(n) \o N \o <<"e">>
      /\ Meant(doc) = <<"int", n>>
      /\ doc \in OutOfRange <=> n \notin -LongMax - 1 .. LongMax
  BY DEF IntDocument, IsNumeral
<1>2. Sign(n) \in Seq(Char) /\ (Sign(n) = <<>> \/ Sign(n) = <<"-">>)
  BY OneChar DEF Sign
<1> HIDE DEF n, N
<1>3. body \in Seq(Char) /\ Len(body) = Len(Sign(n)) + Len(N) /\ Len(N) \in Nat \ {0}
  BY <1>1, <1>2
<1>4. \A k \in 1 .. Len(body) : body[k] # "e"
  <2>1. CASE Sign(n) = <<>>
    <3>1. body = N
      BY <1>1, <2>1
    <3> QED
      BY <1>1, <3>1, DigitsOnly
  <2>2. CASE Sign(n) = <<"-">>
    <3>1. body[1] = "-" /\ \A k \in 2 .. Len(body) : body[k] = N[k - 1]
      BY <1>1, <1>3, <2>2
    <3>2. \A k \in 2 .. Len(body) : IsDigit(N[k - 1])
      BY <1>1, <1>3, <2>2
    <3> QED
      BY <1>3, <3>1, <3>2, DigitsOnly
  <2> QED
    BY <1>2, <2>1, <2>2
<1>5. /\ Len(text) = Len(body) + 2 /\ text[1] = "i" /\ text[Len(text)] = "e"
      /\ \A k \in 1 .. Len(body) : text[1 + k] = body[k]
  <2>1. text = <<"i">> \o (body \o <<"e">>)
    <3>1. /\ <<"i">> \in Seq(Char) /\ <<"e">> \in Seq(Char) /\ Sign(n) \in Seq(Char)
          /\ Sign(n) \o N \in Seq(Char) /\ N \in Seq(Char)
      BY <1>1, <1>2, <1>3, OneChar
    <3>2. (<<"i">> \o Sign(n)) \o N = <<"i">> \o (Sign(n) \o N)
      BY <3>1, Regrouped
    <3>3. (<<"i">> \o (Sign(n) \o N)) \o <<"e">> = <<"i">> \o ((Sign(n) \o N) \o <<"e">>)
      BY <3>1, Regrouped
    <3> HIDE DEF text
    <3> QED
      BY <1>1, <3>2, <3>3, Zenon
  <2> HIDE DEF body
  <2>2. body \o <<"e">> \in Seq(Char) /\ Len(body \o <<"e">>) = Len(body) + 1
        /\ (body \o <<"e">>)[Len(body) + 1] = "e"
        /\ \A k \in 1 .. Len(body) : (body \o <<"e">>)[k] = body[k]
    BY <1>3, OneChar
  <2> DEFINE be == body \o <<"e">>
  <2> HIDE DEF be
  <2>3. be \in Seq(Char) /\ Len(be) = Len(body) + 1 /\ be[Len(body) + 1] = "e"
        /\ \A k \in 1 .. Len(body) : be[k] = body[k]
    BY <2>2 DEF be
  <2>4. text = <<"i">> \o be
    BY <2>1 DEF be
  <2>5. Len(text) = 1 + Len(be) /\ text[1] = "i" /\ \A k \in 1 .. Len(be) : text[1 + k] = be[k]
    BY <2>3, <2>4, OneChar
  <2> QED
    BY <1>3, <2>3, <2>5
<1> HIDE DEF text
<1>6. ASSUME NEW data \in Seq(Char), NEW pos \in 1 .. Len(data) + 1, Lies(text, data, pos)
      PROVE  DecodeAt(data, pos) =
                IF Fits(text, data, pos) /\ doc \notin OutOfRange
                  THEN [val |-> Meant(doc), pos |-> pos + Len(text)]
                  ELSE Throws
  <2>1. CASE pos > Len(data)
    BY <1>3, <1>5, <2>1, BehindTheEnd DEF Fits
  <2>2. CASE pos <= Len(data)
    <3> DEFINE end == FirstFrom(data, "e", pos + 1)
               num == SubSeq(data, pos + 1, end - 1)
    <3>1. data[pos] = "i"
      BY <1>3, <1>5, <1>6, <2>2 DEF Lies
    <3>2. DecodeAt(data, pos) = ParseInteger(data, pos + 1)
      <4>1. ~(pos > Len(data)) /\ ~IsDigit(data[pos])
        BY <2>2, <3>1, NotDigits
      <4>2. ParseValue(Descent(data), MostCalls(data), data, pos) = ParseInteger(data, pos + 1)
        BY <3>1, <4>1 DEF ParseValue
      <4> QED
        BY <4>2, DecodedAt
    <3>3. ASSUME NEW k \in 1 .. Len(body), pos + k <= Len(data)
          PROVE  data[pos + k] = body[k]
      <4>1. 1 + k \in 1 .. Len(text) /\ pos - 1 + (1 + k) = pos + k
        BY <1>3, <1>5
      <4>2. data[pos - 1 + (1 + k)] = text[1 + k]
        BY <1>6, <3>3, <4>1 DEF Lies
      <4> QED
        BY <1>5, <4>1, <4>2
    <3>4. ASSUME NEW i \in pos + 1 .. Len(data), i <= pos + Len(body) PROVE data[i] # "e"
      <4>1. i - pos \in 1 .. Len(body) /\ pos + (i - pos) = i
        <5>1. Len(body) \in Nat /\ Len(data) \in Nat
          BY <1>3
        <5> HIDE DEF body
        <5> QED
          BY <3>4, <5>1
      <4>2. data[pos + (i - pos)] = body[i - pos]
        <5>1. pos + (i - pos) <= Len(data)
          OBVIOUS
        <5> HIDE DEF body
        <5> QED
          BY <3>3, <4>1, <5>1, Zenon
      <4>3. body[i - pos] # "e"
        BY <1>4, <4>1
      <4> QED
        BY <4>1, <4>2, <4>3
    <3>5. CASE ~Fits(text, data, pos)
      <4>1. \A i \in pos + 1 .. Len(data) : data[i] # "e"
        BY <1>3, <1>5, <3>4, <3>5 DEF Fits
      <4>2. end = Len(data) + 1
        BY <4>1, NoneThere
      <4> HIDE DEF end
      <4>3. ParseInteger(data, pos + 1) = Throws
        BY <4>2 DEF ParseInteger, end
      <4> QED
        BY <3>2, <3>5, <4>3
    <3>6. CASE Fits(text, data, pos)
      <4>1. pos + 1 + Len(body) <= Len(data)
        BY <1>3, <1>5, <3>6 DEF Fits
      <4>2. data[pos + 1 + Len(body)] = "e"
        <5>1. Len(text) \in 1 .. Len(text) /\ pos - 1 + Len(text) = pos + 1 + Len(body)
          BY <1>3, <1>5
        <5> QED
          BY <1>5, <1>6, <4>1, <5>1 DEF Lies
      <4>3. end = pos + 1 + Len(body)
        <5> DEFINE e == pos + 1 + Len(body)
        <5>1. /\ pos + 1 \in Nat \ {0} /\ e \in pos + 1 .. Len(data) /\ data[e] = "e"
          BY <1>3, <4>1, <4>2
        <5>3. ASSUME NEW i \in pos + 1 .. e - 1 PROVE data[i] # "e"
          <6>1. i \in pos + 1 .. Len(data) /\ i <= pos + Len(body)
            BY <1>3, <4>1
          <6> QED
            BY <3>4, <6>1
        <5> HIDE DEF e
        <5>2. FirstFrom(data, "e", pos + 1) = e
          BY <5>1, <5>3, FirstIs
        <5> QED
          BY <5>2 DEF e
      <4>4. num = body
        <5>1. Lies(body, data, pos + 1) /\ Fits(body, data, pos + 1)
          BY <1>3, <3>3, <4>1 DEF Lies, Fits
        <5>2. SubSeq(data, pos + 1, pos + 1 - 1 + Len(body)) = body
          <6>1. pos + 1 \in Nat \ {0}
            OBVIOUS
          <6>2. body \in Seq(Char)
            BY <1>3
          <6> HIDE DEF body
          <6> QED
            BY <5>1, <6>1, <6>2, TextThere
        <5>3. end - 1 = pos + 1 - 1 + Len(body)
          BY <1>3, <4>3
        <5> HIDE DEF body, end
        <5> QED
          BY <5>2, <5>3, Zenon
      <4> DEFINE negative == num # <<>> /\ num[1] = "-"
                 digits   == IF negative THEN Tail(num) ELSE num
                 value    == IF negative THEN -Number(digits) ELSE Number(digits)
      <4>5. negative <=> Sign(n) = <<"-">>
        <5>1. CASE Sign(n) = <<>>
          <6>1. num = N /\ Sign(n) # <<"-">>
            BY <1>1, <4>4, <5>1
          <6>2. IsDigit(N[1])
            BY <1>1, <1>3
          <6>3. N[1] # "-"
            BY <6>2, DigitsOnly
          <6> QED
            BY <6>1, <6>3
        <5>2. CASE Sign(n) = <<"-">>
          <6>1. num = <<"-">> \o N
            BY <4>4, <5>2
          <6>2. <<"-">> \o N # <<>> /\ (<<"-">> \o N)[1] = "-"
            BY <1>1, OneChar
          <6> HIDE DEF num
          <6> QED
            BY <5>2, <6>1, <6>2
        <5> QED
          BY <1>2, <5>1, <5>2
      <4>6. digits = N
        <5>1. CASE Sign(n) = <<>>
          <6>1. num = N /\ Sign(n) # <<"-">>
            BY <1>1, <4>4, <5>1
          <6> QED
            BY <4>5, <6>1
        <5>2. CASE Sign(n) = <<"-">>
          <6>1. Tail(<<"-">> \o N) = N
            BY <1>1, OneChar, SMTT(30)
          <6> QED
            BY <4>4, <4>5, <5>2, <6>1
        <5> QED
          BY <1>2, <5>1, <5>2
      <4>7. value = n
        <5>1. negative <=> n < 0
          BY <4>5 DEF Sign
        <5>2. Number(digits) = Magnitude(n)
          BY <1>1, <4>6
        <5> HIDE DEF negative, digits
        <5> QED
          BY <1>1, <5>1, <5>2 DEF Magnitude
      <4>8. ParseInteger(data, pos + 1) =
               IF \/ end > Len(data)
                  \/ digits = <<>>
                  \/ \E i \in DOMAIN digits : ~IsDigit(digits[i])
                  \/ value \notin -LongMax - 1 .. LongMax
                 THEN Throws
                 ELSE Parsed("int", value, end + 1)
        BY DEF ParseInteger
      <4>9. ~(end > Len(data)) /\ end + 1 = pos + Len(text)
        BY <1>3, <1>5, <4>1, <4>3
      <4>10. DOMAIN N = 1 .. Len(N)
        BY <1>1
      <4> HIDE DEF end, num, negative, digits, value
      <4>11. ParseInteger(data, pos + 1) =
                IF n \notin -LongMax - 1 .. LongMax THEN Throws
                ELSE Parsed("int", n, pos + Len(text))
        BY <1>1, <4>6, <4>7, <4>8, <4>9, <4>10
      <4> QED
        BY <1>1, <3>2, <3>6, <4>11 DEF Parsed
    <3> QED
      BY <3>5, <3>6
  <2> QED
    BY <2>1, <2>2
<1>7. Reads(doc)
  BY <1>6 DEF Reads, text
<1> QED
  BY <1>3, <1>5, <1>7 DEF text

LEMMA StrReads ==
    ASSUME NEW doc \in Document, StrDocument(doc), Written(doc) \in Seq(Char)
    PROVE  Reads(doc) /\ Len(Written(doc)) > 1 /\ Written(doc)[1] # "e"
<1> DEFINE s == doc[2]
           N == Numeral(Len(s))
           text == Written(doc)
<1>1. /\ s \in Seq(Char) /\ N \in Seq(Char) /\ N # <<>>
      /\ \A i \in 1 .. Len(N) : IsDigit(N[i])
      /\ Number(N) = Len(s)
      /\ text = N \o <<":">> \o s
      /\ Meant(doc) = <<"str", s>>
      /\ doc \notin OutOfRange
      /\ 2 * Len(s) < SizeWord
  BY DEF StrDocument, IsNumeral, Storable
<1> HIDE DEF s, N, text
<1>2. Len(N) \in Nat \ {0} /\ Len(s) \in Nat
  BY <1>1
<1>3. /\ Len(text) = Len(N) + 1 + Len(s)
      /\ \A k \in 1 .. Len(N) : text[k] = N[k]
      /\ text[Len(N) + 1] = ":"
      /\ \A k \in 1 .. Len(s) : text[Len(N) + 1 + k] = s[k]
  <2> DEFINE head == N \o <<":">>
  <2>1. /\ head \in Seq(Char) /\ Len(head) = Len(N) + 1 /\ head[Len(N) + 1] = ":"
        /\ \A k \in 1 .. Len(N) : head[k] = N[k]
    BY <1>1, OneChar
  <2> HIDE DEF head
  <2>2. /\ Len(text) = Len(head) + Len(s)
        /\ \A k \in 1 .. Len(head) : text[k] = head[k]
        /\ \A k \in 1 .. Len(s) : text[Len(head) + k] = s[k]
    BY <1>1, <2>1 DEF head
  <2> QED
    BY <1>2, <2>1, <2>2
<1>4. ASSUME NEW data \in Seq(Char), NEW pos \in 1 .. Len(data) + 1,
             Storable(data), Lies(text, data, pos)
      PROVE  DecodeAt(data, pos) =
                IF Fits(text, data, pos) /\ doc \notin OutOfRange
                  THEN [val |-> Meant(doc), pos |-> pos + Len(text)]
                  ELSE Throws
  <2>1. CASE pos > Len(data)
    BY <1>2, <1>3, <2>1, BehindTheEnd DEF Fits
  <2>2. CASE pos <= Len(data)
    <3> DEFINE colon == FirstFrom(data, ":", pos)
               front == SubSeq(data, pos, colon - 1)
               len   == Number(LeadingDigits(front))
    <3>1. ASSUME NEW k \in 1 .. Len(text), pos - 1 + k <= Len(data)
          PROVE  data[pos - 1 + k] = text[k]
      BY <1>4, <3>1 DEF Lies
    <3>2. DecodeAt(data, pos) = ParseString(data, pos)
      <4>1. data[pos] = N[1]
        <5>1. data[pos - 1 + 1] = text[1]
          BY <1>2, <1>3, <2>2, <3>1
        <5> QED
          BY <1>2, <1>3, <5>1
      <4>2. IsDigit(data[pos])
        BY <1>1, <1>2, <4>1
      <4>3. data[pos] \notin {"i", "l", "d", "e", "-", ":"} /\ ~(pos > Len(data))
        BY <2>2, <4>2, DigitsOnly
      <4>4. ParseValue(Descent(data), MostCalls(data), data, pos) = ParseString(data, pos)
        BY <4>2, <4>3 DEF ParseValue
      <4> QED
        BY <4>4, DecodedAt
    <3>3. ASSUME NEW i \in pos .. Len(data), i < pos + Len(N) PROVE data[i] # ":"
      <4>1. /\ i - pos + 1 \in 1 .. Len(N) /\ i - pos + 1 \in 1 .. Len(text)
            /\ pos - 1 + (i - pos + 1) = i
        BY <1>2, <1>3, <3>3
      <4>2. data[pos - 1 + (i - pos + 1)] = text[i - pos + 1]
        BY <3>1, <4>1
      <4>3. IsDigit(N[i - pos + 1])
        BY <1>1, <4>1
      <4>4. data[i] = N[i - pos + 1]
        BY <1>3, <4>1, <4>2
      <4> QED
        BY <4>3, <4>4, DigitsOnly
    <3>4. CASE pos + Len(N) > Len(data)
      <4>1. \A i \in pos .. Len(data) : data[i] # ":"
        BY <1>2, <3>3, <3>4
      <4>2. colon = Len(data) + 1
        BY <4>1, NoneThere
      <4> HIDE DEF colon
      <4>3. ParseString(data, pos) = Throws
        BY <4>2 DEF ParseString, colon
      <4>4. ~Fits(text, data, pos)
        BY <1>2, <1>3, <3>4 DEF Fits
      <4> QED
        BY <3>2, <4>3, <4>4
    <3>5. CASE pos + Len(N) <= Len(data)
      <4>1. colon = pos + Len(N)
        <5> DEFINE e == pos + Len(N)
        <5>1. /\ e \in pos .. Len(data)
              /\ Len(N) + 1 \in 1 .. Len(text) /\ pos - 1 + (Len(N) + 1) = e
          BY <1>2, <1>3, <3>5
        <5>2. data[pos - 1 + (Len(N) + 1)] = text[Len(N) + 1]
          BY <3>1, <3>5, <5>1
        <5>3. data[e] = ":"
          BY <1>3, <5>1, <5>2
        <5>4. ASSUME NEW i \in pos .. e - 1 PROVE data[i] # ":"
          <6>1. i \in pos .. Len(data) /\ i < pos + Len(N)
            BY <1>2, <5>1
          <6> QED
            BY <3>3, <6>1
        <5> HIDE DEF e
        <5>5. FirstFrom(data, ":", pos) = e
          BY <5>1, <5>3, <5>4, FirstIs
        <5> QED
          BY <5>5 DEF e
      <4>2. len = Len(s)
        <5>1. Lies(N, data, pos) /\ Fits(N, data, pos)
          <6>1. ASSUME NEW k \in 1 .. Len(N) PROVE data[pos - 1 + k] = N[k]
            <7>1. k \in 1 .. Len(text) /\ pos - 1 + k <= Len(data)
              BY <1>2, <1>3, <3>5
            <7> QED
              BY <1>3, <3>1, <7>1
          <6> QED
            BY <1>2, <3>5, <6>1 DEF Lies, Fits
        <5>2. SubSeq(data, pos, pos - 1 + Len(N)) = N
          BY <1>1, <5>1, TextThere
        <5>3. colon - 1 = pos - 1 + Len(N)
          BY <1>2, <4>1
        <5> HIDE DEF colon
        <5>4. front = N
          BY <5>2, <5>3
        <5>5. LeadingDigits(N) = N
          BY <1>1, AllLead
        <5> QED
          BY <1>1, <5>4, <5>5
      <4> DEFINE last == IF colon + len <= Len(data) THEN colon + len ELSE Len(data)
      <4>3. ParseString(data, pos) =
               IF colon > Len(data) \/ len >= SizeWord \/ SizeSum(colon, len) > Len(data)
                 THEN Throws
                 ELSE Parsed("str", SubSeq(data, colon + 1, last), SizeSum(colon, len) + 1)
        BY DEF ParseString
      <4>6. SizeSum(colon, len) = colon + len /\ ~(len >= SizeWord)
        <5> HIDE DEF colon, len
        <5> QED
          BY <1>1, <1>2, <1>4, <3>5, <4>1, <4>2, OneChar DEF SizeSum, Storable
      <4> HIDE DEF colon, len
      <4>4. CASE ~Fits(text, data, pos)
        <5>1. colon + len > Len(data)
          BY <1>2, <1>3, <4>1, <4>2, <4>4 DEF Fits
        <5> QED
          BY <3>2, <4>3, <4>6, <4>4, <5>1
      <4>5. CASE Fits(text, data, pos)
        <5>1. /\ ~(colon + len > Len(data)) /\ ~(colon > Len(data))
              /\ colon + len + 1 = pos + Len(text) /\ last = colon + len
          BY <1>2, <1>3, <3>5, <4>1, <4>2, <4>5 DEF Fits
        <5> HIDE DEF last
        <5>2. SubSeq(data, colon + 1, colon + len) = s
          <6> DEFINE p == colon + 1
          <6>1. p \in Nat \ {0} /\ colon + len = p - 1 + Len(s)
            BY <1>2, <4>1, <4>2
          <6>2. ASSUME NEW k \in 1 .. Len(s) PROVE data[p - 1 + k] = s[k]
            <7>1. /\ Len(N) + 1 + k \in 1 .. Len(text)
                  /\ pos - 1 + (Len(N) + 1 + k) = p - 1 + k
                  /\ pos - 1 + (Len(N) + 1 + k) <= Len(data)
              BY <1>2, <1>3, <4>1, <4>5 DEF Fits
            <7>2. data[pos - 1 + (Len(N) + 1 + k)] = text[Len(N) + 1 + k]
              BY <3>1, <7>1
            <7> QED
              BY <1>3, <7>1, <7>2
          <6>3. p - 1 + Len(s) <= Len(data)
            BY <1>2, <4>1, <4>2, <5>1
          <6> HIDE DEF p
          <6>4. Lies(s, data, p) /\ Fits(s, data, p)
            BY <6>2, <6>3 DEF Lies, Fits
          <6>5. SubSeq(data, p, p - 1 + Len(s)) = s
            BY <1>1, <6>1, <6>4, TextThere
          <6> QED
            BY <6>1, <6>5 DEF p
        <5>3. ParseString(data, pos) = Parsed("str", s, pos + Len(text))
          BY <4>3, <4>6, <5>1, <5>2
        <5> QED
          BY <1>1, <3>2, <4>5, <5>3 DEF Parsed
      <4> QED
        BY <4>4, <4>5
    <3> QED
      BY <1>2, <3>4, <3>5
  <2> QED
    BY <2>1, <2>2
<1>5. Reads(doc)
  BY <1>4 DEF Reads, text
<1>6. text[1] # "e"
  <2>1. text[1] = N[1] /\ IsDigit(N[1])
    BY <1>1, <1>2, <1>3
  <2> QED
    BY <2>1, DigitsOnly
<1> QED
  BY <1>2, <1>3, <1>5, <1>6 DEF text

LEMMA Shifted ==
    ASSUME NEW a \in Nat, NEW b \in Nat, NEW t \in Nat, NEW k \in 1 .. b
    PROVE  a + k \in 1 .. a + b /\ t - (a + b) + (a + k) = t - b + k
OBVIOUS

\* A text has a shorter one as its end.
Ends(end, text) ==
    /\ Len(end) < Len(text)
    /\ \A k \in 1 .. Len(end) : text[Len(text) - Len(end) + k] = end[k]

\* A text made of parts one behind the other, from the n-th part on: it lies at the end
\* of the whole.
LEMMA Suffixes ==
    ASSUME NEW L \in Nat, NEW w \in [1 .. L + 1 -> Seq(Char)], NEW front \in [1 .. L -> Seq(Char)],
           \A n \in 1 .. L : w[n] = front[n] \o w[n + 1],
           NEW c \in Char, NEW text, text = <<c>> \o w[1]
    PROVE  \A n \in 1 .. L + 1 : Ends(w[n], text)
<1> DEFINE Good(n) == /\ Len(w[n]) < Len(text)
                      /\ \A k \in 1 .. Len(w[n]) : text[Len(text) - Len(w[n]) + k] = w[n][k]
           P == {n \in Nat : n + 1 \in 1 .. L + 1 => Good(n + 1)}
<1>1. text \in Seq(Char)
  OBVIOUS
<1>2. ASSUME NEW n \in Nat, \A m \in Nat : m < n => m \in P PROVE n \in P
  <2>1. CASE n = 0
    <3> DEFINE v == w[1]
    <3>1. v \in Seq(Char) /\ <<c>> \in Seq(Char) /\ Len(<<c>>) = 1
      OBVIOUS
    <3>2. text = <<c>> \o v
      OBVIOUS
    <3> HIDE DEF v
    <3>3. Len(text) = 1 + Len(v) /\ \A k \in 1 .. Len(v) : text[1 + k] = v[k]
      BY <3>1, <3>2
    <3>4. Len(v) < Len(text) /\ Len(text) - Len(v) = 1
      BY <3>1, <3>3
    <3>5. Good(1)
      BY <3>3, <3>4 DEF v
    <3> QED
      BY <2>1, <3>5
  <2>2. CASE n # 0 /\ n + 1 \in 1 .. L + 1
    <3> DEFINE u == w[n]
               v == w[n + 1]
               f == front[n]
    <3>1. n \in 1 .. L /\ n - 1 \in Nat /\ n - 1 < n /\ (n - 1) + 1 = n
      BY <2>2
    <3>2. u \in Seq(Char) /\ v \in Seq(Char) /\ f \in Seq(Char) /\ u = f \o v
      <4>1. n \in 1 .. L + 1 /\ n + 1 \in 1 .. L + 1
        BY <3>1
      <4>2. u \in Seq(Char) /\ v \in Seq(Char)
        BY <4>1, Zenon
      <4>3. f \in Seq(Char) /\ u = f \o v
        BY <3>1, Zenon
      <4> QED
        BY <4>2, <4>3
    <3>3. Good(n)
      <4>1. n - 1 \in P
        <5> HIDE DEF P
        <5> QED
          BY <1>2, <3>1
      <4>2. (n - 1) + 1 \in 1 .. L + 1
        BY <3>1
      <4> HIDE DEF Good
      <4>3. Good((n - 1) + 1)
        BY <4>1, <4>2
      <4> QED
        BY <3>1, <4>3
    <3>4. /\ Len(u) < Len(text)
          /\ \A k \in 1 .. Len(u) : text[Len(text) - Len(u) + k] = u[k]
      BY <3>3
    <3> HIDE DEF u, v, f
    <3>5. Len(u) = Len(f) + Len(v) /\ \A k \in 1 .. Len(v) : u[Len(f) + k] = v[k]
      BY <3>2
    <3>6. Len(v) < Len(text)
      BY <1>1, <3>2, <3>4, <3>5
    <3>7. ASSUME NEW k \in 1 .. Len(v) PROVE text[Len(text) - Len(v) + k] = v[k]
      <4>1. /\ Len(f) + k \in 1 .. Len(u)
            /\ Len(text) - Len(u) + (Len(f) + k) = Len(text) - Len(v) + k
        <5>1. Len(text) \in Nat /\ Len(f) \in Nat /\ Len(u) \in Nat /\ Len(v) \in Nat
          BY <1>1, <3>2
        <5>2. Len(u) = Len(f) + Len(v)
          BY <3>5
        <5> DEFINE a == Len(f)
                   b == Len(v)
                   t == Len(text)
        <5>3. a \in Nat /\ b \in Nat /\ t \in Nat /\ k \in 1 .. b /\ Len(u) = a + b
          BY <5>1, <5>2
        <5> HIDE DEF a, b, t
        <5>4. a + k \in 1 .. a + b /\ t - (a + b) + (a + k) = t - b + k
          BY <5>3, Shifted
        <5>5. a + k \in 1 .. Len(u) /\ t - Len(u) + (a + k) = t - b + k
          BY <5>3, <5>4
        <5> QED
          BY <5>5 DEF a, b, t
      <4>2. text[Len(text) - Len(u) + (Len(f) + k)] = u[Len(f) + k]
        BY <3>4, <4>1
      <4> QED
        BY <3>5, <4>1, <4>2
    <3>8. Good(n + 1)
      BY <3>6, <3>7 DEF v
    <3> QED
      BY <3>8
  <2> QED
    BY <2>1, <2>2
<1> HIDE DEF P
<1>3. \A n \in Nat : n \in P
  BY <1>2, Induction
<1>4. ASSUME NEW n \in 1 .. L + 1 PROVE Ends(w[n], text)
  <2>1. n - 1 \in Nat /\ (n - 1) + 1 = n
    OBVIOUS
  <2>2. n - 1 \in P
    BY <1>3, <2>1
  <2> QED
    BY <2>1, <2>2 DEF P, Ends
<1> QED
  BY <1>4

\* The items of a list, and what is written of them.
LEMMA ListParts ==
    ASSUME NEW doc \in Document, ListDocument(doc)
    PROVE  LET L == Len(doc[2])
           IN  /\ L \in Nat /\ DOMAIN doc[2] = 1 .. L
               /\ \A n \in 1 .. L : doc[2][n] \in Document /\ Written(doc[2][n]) \in Seq(Char)
               /\ \A n \in 1 .. L + 1 : WrittenFrom(doc, n) \in Seq(Char)
               /\ \A n \in 1 .. L + 1 : Len(WrittenFrom(doc, n)) < Len(Written(doc))
               /\ \A n \in 1 .. L :
                     /\ WrittenFrom(doc, n) = Written(doc[2][n]) \o WrittenFrom(doc, n + 1)
                     /\ Len(Written(doc[2][n])) < Len(Written(doc))
<1> DEFINE items == doc[2]
           L == Len(items)
           w == [n \in 1 .. L + 1 |-> WrittenFrom(doc, n)]
           front == [n \in 1 .. L |-> Written(items[n])]
<1>1. /\ items \in Seq(Document)
      /\ \A n \in 1 .. L + 1 : WrittenFrom(doc, n) \in Seq(Char)
      /\ Written(doc) = <<"l">> \o WrittenFrom(doc, 1)
      /\ \A n \in 1 .. L : WrittenFrom(doc, n) = Written(items[n]) \o WrittenFrom(doc, n + 1)
  <2>1. /\ items \in Seq(Document)
        /\ \A n \in 1 .. L + 1 : WrittenFrom(doc, n) \in Seq(Char)
        /\ Written(doc) = <<"l">> \o WrittenFrom(doc, 1)
        /\ \A n \in DOMAIN items :
              WrittenFrom(doc, n) = Written(items[n]) \o WrittenFrom(doc, n + 1)
    BY DEF ListDocument
  <2>2. DOMAIN items = 1 .. L
    BY <2>1
  <2> HIDE DEF items
  <2> QED
    BY <2>1, <2>2
<1> HIDE DEF items
<1>2. L \in Nat /\ DOMAIN items = 1 .. L /\ \A n \in 1 .. L : items[n] \in Document
  BY <1>1
<1>3. \A n \in 1 .. L : Written(items[n]) \in Seq(Char)
  BY <1>2, DocumentAssumption
<1> HIDE DEF L
<1>4. /\ w \in [1 .. L + 1 -> Seq(Char)] /\ front \in [1 .. L -> Seq(Char)]
      /\ \A n \in 1 .. L : w[n] = front[n] \o w[n + 1]
      /\ Written(doc) = <<"l">> \o w[1]
  <2>1. w \in [1 .. L + 1 -> Seq(Char)]
    BY <1>1 DEF L
  <2>2. front \in [1 .. L -> Seq(Char)]
    BY <1>3
  <2>3. ASSUME NEW n \in 1 .. L PROVE w[n] = front[n] \o w[n + 1]
    <3>1. n \in 1 .. L + 1 /\ n + 1 \in 1 .. L + 1
      BY <1>2
    <3>2. WrittenFrom(doc, n) = Written(items[n]) \o WrittenFrom(doc, n + 1)
      BY <1>1 DEF L
    <3>3. w[n] = WrittenFrom(doc, n) /\ w[n + 1] = WrittenFrom(doc, n + 1)
      BY <3>1
    <3>4. front[n] = Written(items[n])
      OBVIOUS
    <3> QED
      BY <3>2, <3>3, <3>4, Zenon
  <2>4. w[1] = WrittenFrom(doc, 1)
    BY <1>2
  <2> QED
    BY <1>1, <2>1, <2>2, <2>3, <2>4
<1> HIDE DEF w, front
<1>5. \A n \in 1 .. L + 1 : Ends(w[n], Written(doc))
  BY <1>2, <1>4, OneChar, Suffixes
<1>6. ASSUME NEW n \in 1 .. L + 1 PROVE Len(WrittenFrom(doc, n)) < Len(Written(doc))
  BY <1>5 DEF Ends, w
<1>7. ASSUME NEW n \in 1 .. L PROVE Len(Written(items[n])) < Len(Written(doc))
  <2> DEFINE a == Written(items[n])
             b == WrittenFrom(doc, n + 1)
             u == WrittenFrom(doc, n)
  <2>1. n \in 1 .. L + 1 /\ n + 1 \in 1 .. L + 1
    BY <1>2
  <2>2. a \in Seq(Char) /\ b \in Seq(Char) /\ u = a \o b
    BY <1>1, <1>3, <2>1 DEF L
  <2>3. Len(u) < Len(Written(doc)) /\ Written(doc) \in Seq(Char)
    BY <1>6, <2>1, DocumentAssumption
  <2> HIDE DEF a, b, u
  <2>4. Len(a) <= Len(u) /\ Len(a) \in Nat /\ Len(u) \in Nat
    BY <2>2
  <2>5. Len(a) < Len(Written(doc))
    BY <2>3, <2>4
  <2> QED
    BY <2>5 DEF a
<1> QED
  BY <1>1, <1>2, <1>3, <1>6, <1>7 DEF items, L

\* A document begins with a character that is no end.
LEMMA Opening ==
    ASSUME NEW doc \in Document
    PROVE  Written(doc) \in Seq(Char) /\ Len(Written(doc)) > 0 /\ Written(doc)[1] # "e"
<1> DEFINE W == WrittenFrom(doc, 1)
           text == Written(doc)
<1>1. text \in Seq(Char)
  BY DocumentAssumption
<1>2. CASE IntDocument(doc)
  BY <1>1, <1>2, IntReads
<1>3. CASE StrDocument(doc)
  BY <1>1, <1>3, StrReads
<1>4. ASSUME NEW c \in {"l", "d"}, W \in Seq(Char), text = <<c>> \o W
      PROVE  Len(text) > 0 /\ text[1] # "e"
  <2> HIDE DEF W, text
  <2>1. c \in Char
    BY OneChar
  <2>2. Len(text) = 1 + Len(W) /\ text[1] = c
    BY <1>4, <2>1
  <2> QED
    BY <1>4, <2>2
<1>5. CASE ListDocument(doc)
  <2>1. doc[2] \in Seq(Document) /\ text = <<"l">> \o W
        /\ \A n \in 1 .. Len(doc[2]) + 1 : WrittenFrom(doc, n) \in Seq(Char)
    BY <1>5 DEF ListDocument
  <2>2. 1 \in 1 .. Len(doc[2]) + 1
    BY <2>1
  <2>3. W \in Seq(Char)
    BY <2>1, <2>2
  <2> QED
    BY <1>1, <1>4, <2>1, <2>3
<1>6. CASE DictDocument(doc)
  <2>1. doc[2] \in Seq(Seq(Char) \X Document) /\ text = <<"d">> \o W
        /\ \A n \in 1 .. Len(doc[2]) + 1 : WrittenFrom(doc, n) \in Seq(Char)
    BY <1>6 DEF DictDocument
  <2>2. 1 \in 1 .. Len(doc[2]) + 1
    BY <2>1
  <2>3. W \in Seq(Char)
    BY <2>1, <2>2
  <2> QED
    BY <1>1, <1>4, <2>1, <2>3
<1> QED
  BY <1>1, <1>2, <1>3, <1>5, <1>6, DocumentAssumption

\* What is decoded at a list or dict is what comes of its parts, a position further on.
DecodedAs(part, w, text, data, pos) ==
    \/ DecodeAt(data, pos) = Throws /\ ~Fits(text, data, pos)
    \/ /\ DecodeAt(data, pos) = Descent(data)[<<MostCalls(data), part, pos + 1>>]
       /\ pos + 1 \in 1 .. Len(data) + 1
       /\ Lies(w, data, pos + 1)
       /\ Fits(text, data, pos) <=> Fits(w, data, pos + 1)
       /\ pos + Len(text) = pos + 1 + Len(w)

LEMMA Opened ==
    ASSUME NEW w \in Seq(Char), NEW c, NEW part,
           <<c, part>> \in {<<"l", "items">>, <<"d", "entries">>},
           NEW data \in Seq(Char), NEW pos \in 1 .. Len(data) + 1,
           Lies(<<c>> \o w, data, pos)
    PROVE  DecodedAs(part, w, <<c>> \o w, data, pos)
<1> DEFINE text == <<c>> \o w
<1>1. c \in Char /\ ((c = "l" /\ part = "items") \/ (c = "d" /\ part = "entries"))
  BY OneChar
<1>2. Len(text) = 1 + Len(w) /\ text[1] = c /\ Len(w) \in Nat
  BY <1>1
<1>2a. Lies(text, data, pos) /\ text = <<c>> \o w
  OBVIOUS
<1> HIDE DEF text
<1>3. CASE pos > Len(data)
  BY <1>2, <1>3, BehindTheEnd DEF Fits, DecodedAs
<1>4. CASE pos <= Len(data)
  <2>1. data[pos] = c
    <3>1. 1 \in 1 .. Len(text) /\ pos - 1 + 1 = pos
      BY <1>2
    <3> QED
      BY <1>2, <1>4, <1>2a, <3>1 DEF Lies
  <2>2. DecodeAt(data, pos) = Descent(data)[<<MostCalls(data), part, pos + 1>>]
    <3> DEFINE d   == Descent(data)
               top == MostCalls(data)
    <3>1. DecodeAt(data, pos) = ParseValue(d, top, data, pos)
      BY DecodedAt
    <3>2. ~(pos > Len(data)) /\ ~IsDigit("l") /\ ~IsDigit("d")
      BY <1>4, NotDigits
    <3> HIDE DEF d, top
    <3>3. CASE c = "l" /\ part = "items"
      <4>1. ParseValue(d, top, data, pos) = d[<<top, "items", pos + 1>>]
        BY <2>1, <3>2, <3>3 DEF ParseValue
      <4> QED
        BY <3>1, <3>3, <4>1 DEF d, top
    <3>4. CASE c = "d" /\ part = "entries"
      <4>1. ParseValue(d, top, data, pos) = d[<<top, "entries", pos + 1>>]
        BY <2>1, <3>2, <3>4 DEF ParseValue
      <4> QED
        BY <3>1, <3>4, <4>1 DEF d, top
    <3> QED
      BY <1>1, <3>3, <3>4
  <2>3. Lies(w, data, pos + 1)
    <3>1. <<c>> \in Seq(Char) /\ Len(<<c>>) = 1 /\ pos \in Nat \ {0}
      BY <1>1
    <3>2. Lies(w, data, pos + Len(<<c>>))
      BY <1>2a, <3>1, LieJoined
    <3> QED
      BY <3>1, <3>2
  <2>4. /\ Fits(text, data, pos) <=> Fits(w, data, pos + 1)
        /\ pos + Len(text) = pos + 1 + Len(w) /\ pos + 1 \in 1 .. Len(data) + 1
    BY <1>2, <1>4 DEF Fits
  <2> QED
    BY <1>2a, <2>2, <2>3, <2>4 DEF DecodedAs
<1> QED
  BY <1>3, <1>4, <1>2a

LEMMA IsSequence ==
    ASSUME NEW S, NEW m \in Nat, NEW r \in [1 .. m -> S]
    PROVE  r \in Seq(S) /\ Len(r) = m
OBVIOUS

\* A value in front of a list of them.
LEMMA InFrontOf ==
    ASSUME NEW L \in Nat, NEW n \in 1 .. L, NEW f
    PROVE  <<f[n]>> \o [k \in 1 .. L - n |-> f[n + k]] = [k \in 1 .. L - n + 1 |-> f[n - 1 + k]]
<1> DEFINE S == {f[m] : m \in 1 .. L}
           r == [k \in 1 .. L - n |-> f[n + k]]
           a == <<f[n]>> \o r
           b == [k \in 1 .. L - n + 1 |-> f[n - 1 + k]]
<1>1. r \in Seq(S) /\ Len(r) = L - n /\ b \in Seq(S) /\ Len(b) = L - n + 1 /\ f[n] \in S
  <2>1. \A k \in 1 .. L - n : n + k \in 1 .. L
    OBVIOUS
  <2>2. \A k \in 1 .. L - n + 1 : n - 1 + k \in 1 .. L
    OBVIOUS
  <2>3. r \in [1 .. L - n -> S] /\ L - n \in Nat
    BY <2>1
  <2>4. b \in [1 .. L - n + 1 -> S] /\ L - n + 1 \in Nat
    BY <2>2
  <2>5. f[n] \in S
    OBVIOUS
  <2> HIDE DEF r, b, S
  <2> QED
    BY <2>3, <2>4, <2>5, IsSequence
<1>2. \A k \in 1 .. L - n : r[k] = f[n + k]
  OBVIOUS
<1>3. \A k \in 1 .. L - n + 1 : b[k] = f[n - 1 + k]
  OBVIOUS
<1>4. a = <<f[n]>> \o r
  OBVIOUS
<1> DEFINE v == f[n]
<1>5. v \in S /\ a = <<v>> \o r
  BY <1>1, <1>4
<1> HIDE DEF S, r, a, b, v
<1>6. /\ a \in Seq(S) /\ Len(a) = 1 + Len(r) /\ a[1] = v
      /\ \A k \in 1 .. Len(r) : a[1 + k] = r[k]
  BY <1>1, <1>5
<1>7. ASSUME NEW k \in 1 .. L - n + 1 PROVE a[k] = b[k]
  <2>1. CASE k = 1
    <3>1. b[1] = f[n - 1 + 1] /\ n - 1 + 1 = n
      BY <1>3
    <3> QED
      BY <1>6, <2>1, <3>1 DEF v
  <2>2. CASE k # 1
    <3>1. k - 1 \in 1 .. L - n /\ 1 + (k - 1) = k /\ n + (k - 1) = n - 1 + k
      BY <2>2
    <3>2. a[1 + (k - 1)] = r[k - 1] /\ r[k - 1] = f[n + (k - 1)]
      BY <1>1, <1>2, <1>6, <3>1
    <3> QED
      BY <1>3, <3>1, <3>2
  <2> QED
    BY <2>1, <2>2
<1>8. Len(a) = L - n + 1
  BY <1>1, <1>6
<1>9. a = b
  BY <1>1, <1>6, <1>7, <1>8
<1> QED
  BY <1>9 DEF a, b, r

LEMMA ListReads ==
    ASSUME NEW doc \in Document, ListDocument(doc),
           \A n \in DOMAIN doc[2] : Reads(doc[2][n])
    PROVE  Reads(doc)
<1> DEFINE items == doc[2]
           L == Len(items)
           W(n) == WrittenFrom(doc, n)
           f == [n \in 1 .. L |-> Meant(items[n])]
           Content(n) == [k \in 1 .. L - n + 1 |-> f[n - 1 + k]]
           Fine(n) == \A m \in n .. L : items[m] \notin OutOfRange
           ItemsRead(n) ==
               \A data \in Seq(Char) : \A pos \in 1 .. Len(data) + 1 :
                   Storable(data) /\ Lies(W(n), data, pos) =>
                       Descent(data)[<<MostCalls(data), "items", pos>>] =
                           IF Fits(W(n), data, pos) /\ Fine(n)
                             THEN [val |-> <<"list", Content(n)>>, pos |-> pos + Len(W(n))]
                             ELSE Throws
<1>1. /\ L \in Nat /\ DOMAIN items = 1 .. L
      /\ \A n \in 1 .. L : items[n] \in Document /\ Written(items[n]) \in Seq(Char)
      /\ \A n \in 1 .. L + 1 : W(n) \in Seq(Char)
      /\ \A n \in 1 .. L : W(n) = Written(items[n]) \o W(n + 1)
  BY ListParts
<1>2. /\ Written(doc) = <<"l">> \o W(1)
      /\ W(L + 1) = <<"e">>
      /\ Meant(doc) = <<"list", [n \in DOMAIN items |-> Meant(items[n])]>>
      /\ doc \in OutOfRange <=> \E n \in DOMAIN items : items[n] \in OutOfRange
  BY DEF ListDocument
<1>3. \A n \in 1 .. L : Reads(items[n])
  BY <1>1
<1> HIDE DEF items, L, W
<1>4. ItemsRead(L + 1)
  <2> SUFFICES ASSUME NEW data \in Seq(Char), NEW pos \in 1 .. Len(data) + 1,
                      Storable(data), Lies(W(L + 1), data, pos)
               PROVE  Descent(data)[<<MostCalls(data), "items", pos>>] =
                           IF Fits(W(L + 1), data, pos) /\ Fine(L + 1)
                             THEN [val |-> <<"list", Content(L + 1)>>,
                                   pos |-> pos + Len(W(L + 1))]
                             ELSE Throws
    OBVIOUS
  <2> DEFINE d   == Descent(data)
             top == MostCalls(data)
  <2>1. d[<<top, "items", pos>>] = ParseItems(d, top, data, pos)
    BY PartsAt
  <2> HIDE DEF d, top
  <2>2. Content(L + 1) = <<>> /\ Fine(L + 1) /\ Len(W(L + 1)) = 1 /\ W(L + 1)[1] = "e"
    <3>1. L + 1 .. L = {} /\ L - (L + 1) + 1 = 0
      BY <1>1
    <3>2. Len(W(L + 1)) = 1 /\ W(L + 1)[1] = "e"
      BY <1>2
    <3> QED
      BY <1>1, <3>1, <3>2
  <2>3. CASE pos > Len(data)
    BY <2>1, <2>2, <2>3 DEF ParseItems, Fits, d, top
  <2>4. CASE pos <= Len(data)
    <3>1. data[pos] = "e" /\ Fits(W(L + 1), data, pos)
      <4>1. data[pos - 1 + 1] = W(L + 1)[1]
        BY <2>2, <2>4 DEF Lies
      <4>2. pos - 1 + 1 = pos /\ Len(W(L + 1)) = 1 /\ W(L + 1)[1] = "e"
        BY <2>2
      <4> HIDE DEF Fine, Content
      <4> QED
        BY <2>4, <4>1, <4>2 DEF Fits
    <3>2. ParseItems(d, top, data, pos) = Parsed("list", <<>>, pos + 1)
      BY <2>4, <3>1 DEF ParseItems
    <3> HIDE DEF Fine, Content
    <3> QED
      BY <2>1, <2>2, <3>1, <3>2 DEF Parsed, d, top
  <2> QED
    BY <2>3, <2>4
<1>5. ASSUME NEW n \in 1 .. L, ItemsRead(n + 1) PROVE ItemsRead(n)
  <2> DEFINE a == Written(items[n])
             b == W(n + 1)
             w == W(n)
             v == f[n]
  <2>1. /\ n + 1 \in 1 .. L + 1 /\ n \in 1 .. L + 1
        /\ a \in Seq(Char) /\ b \in Seq(Char) /\ w \in Seq(Char) /\ w = a \o b
        /\ items[n] \in Document
    <3>1. n + 1 \in 1 .. L + 1 /\ n \in 1 .. L + 1
      BY <1>1
    <3>2. b \in Seq(Char) /\ w \in Seq(Char)
      BY <1>1, <3>1, Zenon
    <3>3. a \in Seq(Char) /\ w = a \o b /\ items[n] \in Document
      BY <1>1, Zenon
    <3> QED
      BY <3>1, <3>2, <3>3, Zenon
  <2>1a. v = Meant(items[n])
    OBVIOUS
  <2>2. Len(w) = Len(a) + Len(b) /\ Len(a) \in Nat /\ Len(b) \in Nat
    <3> HIDE DEF a, b, w
    <3> QED
      BY <2>1
  <2>3. Len(a) > 0 /\ a[1] # "e"
    BY <2>1, Opening
  <2>4. <<v>> \o Content(n + 1) = Content(n)
    <3>1. /\ L - (n + 1) + 1 = L - n
          /\ \A k \in 1 .. L - n : n + 1 - 1 + k = n + k
      BY <1>1
    <3>2. Content(n + 1) = [k \in 1 .. L - n |-> f[n + k]]
      <4> HIDE DEF f
      <4> QED
        BY <3>1
    <3> HIDE DEF f
    <3>3. <<f[n]>> \o [k \in 1 .. L - n |-> f[n + k]]
             = [k \in 1 .. L - n + 1 |-> f[n - 1 + k]]
      <4>1. L \in Nat /\ n \in 1 .. L
        BY <1>1
      <4> QED
        BY <4>1, InFrontOf
    <3> QED
      BY <3>2, <3>3
  <2>5. Fine(n) <=> items[n] \notin OutOfRange /\ Fine(n + 1)
    <3>1. \A m : m \in n .. L <=> m = n \/ m \in n + 1 .. L
      BY <1>1
    <3> QED
      BY <3>1, Zenon
  <2> SUFFICES ASSUME NEW data \in Seq(Char), NEW pos \in 1 .. Len(data) + 1,
                      Storable(data), Lies(w, data, pos)
               PROVE  Descent(data)[<<MostCalls(data), "items", pos>>] =
                           IF Fits(w, data, pos) /\ Fine(n)
                             THEN [val |-> <<"list", Content(n)>>, pos |-> pos + Len(w)]
                             ELSE Throws
    OBVIOUS
  <2> DEFINE d    == Descent(data)
             top  == MostCalls(data)
             item == d[<<top, "value", pos>>]
             next == pos + Len(a)
             rest == d[<<top, "items", item.pos>>]
             then == d[<<top, "items", next>>]
  <2>6. d[<<top, "items", pos>>] = ParseItems(d, top, data, pos)
    BY PartsAt
  <2>7. Lies(a, data, pos) /\ Lies(b, data, next)
    <3> HIDE DEF a, b, w
    <3>1. pos \in Nat \ {0} /\ Lies(a \o b, data, pos)
      BY <2>1
    <3> QED
      BY <2>1, <3>1, LieJoined
  <2>8. item = IF Fits(a, data, pos) /\ items[n] \notin OutOfRange
                 THEN [val |-> v, pos |-> next] ELSE Throws
    BY <1>3, <2>1, <2>7, <2>1a DEF Reads, DecodeAt
  <2>9. next <= Len(data) + 1 =>
           then = IF Fits(b, data, next) /\ Fine(n + 1)
                    THEN [val |-> <<"list", Content(n + 1)>>, pos |-> next + Len(b)] ELSE Throws
    <3>1. ASSUME next <= Len(data) + 1 PROVE next \in 1 .. Len(data) + 1
      BY <2>2, <3>1
    <3> QED
      BY <1>5, <2>7, <3>1
  <2>10. /\ Fits(a, data, pos) <=> next <= Len(data) + 1
         /\ Fits(w, data, pos) <=> Fits(b, data, next)
         /\ Fits(w, data, pos) => Fits(a, data, pos)
         /\ next + Len(b) = pos + Len(w)
    <3> HIDE DEF a, b, w
    <3> QED
      BY <2>2 DEF Fits
  <2>11. pos <= Len(data) => data[pos] # "e"
    <3>1. 1 \in 1 .. Len(a) /\ pos - 1 + 1 = pos
      BY <2>2, <2>3
    <3> HIDE DEF a
    <3> QED
      BY <2>3, <2>7, <3>1 DEF Lies
  <2>12. pos > Len(data) => ~Fits(w, data, pos)
    <3> HIDE DEF a, b, w
    <3> QED
      BY <2>2, <2>3 DEF Fits
  <2>13. next > 0 /\ next + Len(b) > 0
    BY <2>2
  <2> HIDE DEF a, b, w, v, Content, Fine, d, top, item, next, then, ItemsRead
  <2>14. CASE pos > Len(data)
    <3>1. ParseItems(d, top, data, pos) = Throws
      BY <2>14 DEF ParseItems
    <3> QED
      BY <2>6, <2>12, <2>14, <3>1 DEF d, top
  <2>15. CASE pos <= Len(data) /\ ~(Fits(a, data, pos) /\ items[n] \notin OutOfRange)
    <3>1. item = Throws
      BY <2>8, <2>15
    <3>2. item = Throws /\ ~Returned(item)
      BY <3>1 DEF Returned, Throws
    <3>3. ParseItems(d, top, data, pos) = Throws
      BY <2>11, <2>15, <3>1, <3>2 DEF ParseItems, item
    <3> QED
      BY <2>5, <2>6, <2>10, <2>15, <3>3 DEF d, top
  <2>16. CASE pos <= Len(data) /\ Fits(a, data, pos) /\ items[n] \notin OutOfRange
    <3>1. item = [val |-> v, pos |-> next]
      BY <2>8, <2>16
    <3>2. item.val = v /\ item.pos = next /\ Returned(item)
      BY <2>13, <3>1 DEF Returned
    <3>3. rest = then
      BY <3>2 DEF then
    <3>4. ParseItems(d, top, data, pos) =
             IF ~Returned(then) THEN then
             ELSE Parsed("list", <<v>> \o then.val[2], then.pos)
      <4>1. ~(pos > Len(data)) /\ data[pos] # "e"
        BY <2>11, <2>16
      <4> HIDE DEF rest
      <4> QED
        BY <3>2, <3>3, <4>1 DEF ParseItems, item, rest
    <3>5. CASE Fits(b, data, next) /\ Fine(n + 1)
      <4>1. then = [val |-> <<"list", Content(n + 1)>>, pos |-> next + Len(b)]
        BY <2>9, <2>10, <2>16, <3>5
      <4>2. then.val[2] = Content(n + 1) /\ then.pos = pos + Len(w) /\ Returned(then)
        BY <2>10, <2>13, <4>1 DEF Returned
      <4>3. ParseItems(d, top, data, pos) = Parsed("list", Content(n), pos + Len(w))
        BY <2>4, <3>4, <4>2
      <4> QED
        BY <2>5, <2>6, <2>10, <2>16, <3>5, <4>3 DEF Parsed, d, top
    <3>6. CASE ~(Fits(b, data, next) /\ Fine(n + 1))
      <4>1. then = Throws
        BY <2>9, <2>10, <2>16, <3>6
      <4>2. then = Throws /\ ~Returned(then)
        BY <4>1 DEF Returned, Throws
      <4> QED
        BY <2>5, <2>6, <2>10, <3>4, <3>6, <4>2 DEF d, top
    <3> QED
      BY <3>5, <3>6
  <2> QED
    BY <2>14, <2>15, <2>16
<1> HIDE DEF ItemsRead
<1> DEFINE P == {n \in 1 .. L + 1 : ItemsRead(n)}
<1>6. L + 1 \in P
  BY <1>1, <1>4
<1>7. \A n \in 1 .. L : n + 1 \in P => n \in P
  BY <1>1, <1>5
<1> HIDE DEF P
<1>8. ItemsRead(1)
  <2>1. 1 \in P
    BY <1>1, <1>6, <1>7, Downwards
  <2> QED
    BY <2>1 DEF P
<1>9. Meant(doc) = <<"list", Content(1)>>
  <2>1. Content(1) = [n \in 1 .. L |-> Meant(items[n])]
    <3>1. L - 1 + 1 = L /\ \A k \in 1 .. L : 1 - 1 + k = k
      BY <1>1
    <3> QED
      BY <3>1
  <2> QED
    BY <1>1, <1>2, <2>1
<1>10. doc \notin OutOfRange <=> Fine(1)
  BY <1>1, <1>2
<1> DEFINE w == W(1)
           text == Written(doc)
<1>11. w \in Seq(Char) /\ text = <<"l">> \o w /\ text \in Seq(Char)
  <2>1. 1 \in 1 .. L + 1
    BY <1>1
  <2> QED
    BY <1>1, <1>2, <2>1, OneChar
<1> SUFFICES ASSUME NEW data \in Seq(Char), NEW pos \in 1 .. Len(data) + 1,
                    Storable(data), Lies(text, data, pos)
             PROVE  DecodeAt(data, pos) =
                       IF Fits(text, data, pos) /\ doc \notin OutOfRange
                         THEN [val |-> Meant(doc), pos |-> pos + Len(text)]
                         ELSE Throws
  BY DEF Reads
<1>12. DecodeAt(data, pos) =
          IF Fits(text, data, pos) /\ Fine(1)
            THEN [val |-> <<"list", Content(1)>>, pos |-> pos + Len(text)]
            ELSE Throws
  <2> HIDE DEF Fine, Content
  <2>1. \A p \in 1 .. Len(data) + 1 :
           Storable(data) /\ Lies(w, data, p) =>
               Descent(data)[<<MostCalls(data), "items", p>>] =
                  IF Fits(w, data, p) /\ Fine(1)
                    THEN [val |-> <<"list", Content(1)>>, pos |-> p + Len(w)]
                    ELSE Throws
    BY <1>8 DEF ItemsRead
  <2>2. /\ w \in Seq(Char) /\ text = <<"l">> \o w /\ Lies(text, data, pos)
        /\ <<"l", "items">> \in {<<"l", "items">>, <<"d", "entries">>}
    BY <1>11
  <2> HIDE DEF w, text
  <2>3. DecodedAs("items", w, text, data, pos)
    BY <2>2, Opened
  <2> QED
    BY <2>1, <2>3 DEF DecodedAs
<1> QED
  BY <1>9, <1>10, <1>12

\* The entries of a dict, and what is written of them.
LEMMA DictParts ==
    ASSUME NEW doc \in Document, DictDocument(doc)
    PROVE  LET L == Len(doc[2])
           IN  /\ L \in Nat /\ DOMAIN doc[2] = 1 .. L
               /\ \A n \in 1 .. L + 1 : WrittenFrom(doc, n) \in Seq(Char)
               /\ \A n \in 1 .. L + 1 : Ends(WrittenFrom(doc, n), Written(doc))
               /\ \A n \in 1 .. L :
                     LET key == <<"str", doc[2][n][1]>>
                         val == doc[2][n][2]
                     IN  /\ key \in Document /\ val \in Document
                         /\ WrittenFrom(doc, n) =
                               Written(key) \o (Written(val) \o WrittenFrom(doc, n + 1))
                         /\ Len(Written(key)) < Len(Written(doc))
                         /\ Len(Written(val)) < Len(Written(doc))
<1> DEFINE entries == doc[2]
           L == Len(entries)
           key(n) == <<"str", entries[n][1]>>
           val(n) == entries[n][2]
           w == [n \in 1 .. L + 1 |-> WrittenFrom(doc, n)]
           front == [n \in 1 .. L |-> Written(key(n)) \o Written(val(n))]
<1>1. /\ entries \in Seq(Seq(Char) \X Document)
      /\ \A n \in DOMAIN entries : key(n) \in Document
      /\ \A n \in 1 .. L + 1 : WrittenFrom(doc, n) \in Seq(Char)
      /\ Written(doc) = <<"d">> \o WrittenFrom(doc, 1)
      /\ \A n \in DOMAIN entries :
            WrittenFrom(doc, n) = Written(key(n)) \o (Written(val(n)) \o WrittenFrom(doc, n + 1))
  BY DEF DictDocument
<1> HIDE DEF entries
<1>2. L \in Nat /\ DOMAIN entries = 1 .. L /\ \A n \in 1 .. L : val(n) \in Document
  BY <1>1
<1> HIDE DEF L, key, val
<1>3. \A n \in 1 .. L : Written(key(n)) \in Seq(Char) /\ Written(val(n)) \in Seq(Char)
  BY <1>1, <1>2, DocumentAssumption
<1>4. \A n \in 1 .. L + 1 : w[n] \in Seq(Char) /\ w[n] = WrittenFrom(doc, n)
  BY <1>1 DEF L
<1>5. ASSUME NEW n \in 1 .. L
      PROVE  front[n] \in Seq(Char) /\ w[n] = front[n] \o w[n + 1]
             /\ Len(front[n]) = Len(Written(key(n))) + Len(Written(val(n)))
  <2> DEFINE a == Written(key(n))
             b == Written(val(n))
             c == w[n + 1]
  <2>1. n \in 1 .. L + 1 /\ n + 1 \in 1 .. L + 1
    BY <1>2
  <2>2. a \in Seq(Char) /\ b \in Seq(Char) /\ c \in Seq(Char)
    BY <1>3, <1>4, <2>1
  <2>3. w[n] = a \o (b \o c) /\ front[n] = a \o b
    BY <1>1, <1>2, <1>4, <2>1
  <2> HIDE DEF a, b, c, w, front
  <2>4. a \o (b \o c) = (a \o b) \o c /\ a \o b \in Seq(Char) /\ Len(a \o b) = Len(a) + Len(b)
    BY <2>2
  <2> QED
    BY <2>3, <2>4 DEF a, b, c
<1>6. /\ w \in [1 .. L + 1 -> Seq(Char)] /\ front \in [1 .. L -> Seq(Char)]
      /\ \A n \in 1 .. L : w[n] = front[n] \o w[n + 1]
      /\ Written(doc) = <<"d">> \o w[1]
  <2>1. 1 \in 1 .. L + 1
    BY <1>2
  <2>2. Written(doc) = <<"d">> \o w[1]
    BY <1>1, <1>4, <2>1
  <2>3. \A n \in 1 .. L : front[n] \in Seq(Char)
    BY <1>5
  <2> QED
    BY <1>4, <1>5, <2>2, <2>3
<1> HIDE DEF w, front
<1>7. \A n \in 1 .. L + 1 : Ends(w[n], Written(doc))
  BY <1>2, <1>6, OneChar, Suffixes
<1>8. ASSUME NEW n \in 1 .. L
      PROVE  Len(Written(key(n))) < Len(Written(doc)) /\ Len(Written(val(n))) < Len(Written(doc))
  <2> DEFINE a == Len(Written(key(n)))
             b == Len(Written(val(n)))
             c == Len(w[n + 1])
             u == Len(w[n])
             t == Len(Written(doc))
  <2>1. n \in 1 .. L + 1 /\ n + 1 \in 1 .. L + 1
    BY <1>2
  <2>2. Len(front[n]) = a + b
    BY <1>5
  <2>3. w[n] = front[n] \o w[n + 1] /\ front[n] \in Seq(Char) /\ w[n + 1] \in Seq(Char)
    BY <1>4, <1>5, <2>1
  <2>4. u = Len(front[n]) + c
    BY <2>3
  <2>5. u < t
    BY <1>7, <2>1 DEF Ends
  <2>6. a \in Nat /\ b \in Nat /\ c \in Nat /\ t \in Nat
    BY <1>3, <2>3, DocumentAssumption
  <2> HIDE DEF a, b, c, u, t
  <2>7. a < t /\ b < t
    BY <2>2, <2>4, <2>5, <2>6
  <2> QED
    BY <2>7 DEF a, b, t
<1>9. \A n \in 1 .. L : key(n) \in Document /\ val(n) \in Document
  BY <1>1, <1>2
<1>10. \A n \in 1 .. L :
          WrittenFrom(doc, n) = Written(key(n)) \o (Written(val(n)) \o WrittenFrom(doc, n + 1))
  BY <1>1, <1>2
<1>11. \A n \in 1 .. L + 1 : Ends(WrittenFrom(doc, n), Written(doc))
  BY <1>4, <1>7
<1> QED
  BY <1>1, <1>2, <1>8, <1>9, <1>10, <1>11 DEF entries, L, key, val

\* The last entry of a key, when the n-th has it and none behind has.
LEMMA LastIs ==
    ASSUME NEW entries, NEW n \in DOMAIN entries, DOMAIN entries \subseteq Nat,
           \A m \in DOMAIN entries : entries[m][1] = entries[n][1] => m <= n
    PROVE  LastEntry(entries, entries[n][1]) = n
<1> DEFINE Last(m) == /\ entries[m][1] = entries[n][1]
                      /\ \A k \in DOMAIN entries : entries[k][1] = entries[n][1] => k <= m
           last == CHOOSE m \in DOMAIN entries : Last(m)
<1>1. Last(n)
  OBVIOUS
<1>2. last \in DOMAIN entries /\ Last(last)
  BY <1>1
<1>3. LastEntry(entries, entries[n][1]) = last
  BY DEF LastEntry
<1> HIDE DEF last
<1>4. last <= n /\ n <= last /\ last \in Nat /\ n \in Nat
  BY <1>2
<1> QED
  BY <1>3, <1>4

\* The key of an entry is read as a string.
LEMMA KeyIsRead ==
    ASSUME NEW key, <<"str", key>> \in Document
    PROVE  /\ Meant(<<"str", key>>) = <<"str", key>> /\ <<"str", key>> \notin OutOfRange
           /\ Reads(<<"str", key>>)
<1> DEFINE doc == <<"str", key>>
<1>1. StrDocument(doc) /\ Written(doc) \in Seq(Char)
  <2>1. doc[1] = "str"
    OBVIOUS
  <2> QED
    BY <2>1, DocumentAssumption
<1>2. Reads(doc)
  BY <1>1, StrReads
<1>3. Meant(doc) = <<"str", doc[2]>> /\ doc \notin OutOfRange
  BY <1>1 DEF StrDocument
<1> QED
  BY <1>2, <1>3

LEMMA DictReads ==
    ASSUME NEW doc \in Document, DictDocument(doc),
           \A n \in DOMAIN doc[2] : Reads(doc[2][n][2])
    PROVE  Reads(doc)
<1> DEFINE entries == doc[2]
           L == Len(entries)
           W(n) == WrittenFrom(doc, n)
           Keys(n) == {entries[m][1] : m \in n .. L}
           f(k) == Meant(entries[LastEntry(entries, k)][2])
           Content(n) == [k \in Keys(n) |-> f(k)]
           Fine(n) == \A m \in n .. L : entries[m][2] \notin OutOfRange
           EntriesRead(n) ==
               \A data \in Seq(Char) : \A pos \in 1 .. Len(data) + 1 :
                   Storable(data) /\ Lies(W(n), data, pos) =>
                       Descent(data)[<<MostCalls(data), "entries", pos>>] =
                           IF Fits(W(n), data, pos) /\ Fine(n)
                             THEN [val |-> <<"dict", Content(n)>>, pos |-> pos + Len(W(n))]
                             ELSE Throws
<1>1. /\ L \in Nat /\ DOMAIN entries = 1 .. L
      /\ \A n \in 1 .. L + 1 : W(n) \in Seq(Char)
      /\ \A n \in 1 .. L :
            /\ <<"str", entries[n][1]>> \in Document /\ entries[n][2] \in Document
            /\ W(n) = Written(<<"str", entries[n][1]>>) \o (Written(entries[n][2]) \o W(n + 1))
  BY DictParts
<1>2. /\ Written(doc) = <<"d">> \o W(1)
      /\ W(L + 1) = <<"e">>
      /\ Meant(doc) = <<"dict", [k \in {entries[n][1] : n \in DOMAIN entries} |-> f(k)]>>
      /\ doc \in OutOfRange <=> \E n \in DOMAIN entries : entries[n][2] \in OutOfRange
  BY DEF DictDocument
<1>3. \A n \in 1 .. L : Reads(entries[n][2])
  BY <1>1
<1> HIDE DEF entries, L, W, f
<1>4. EntriesRead(L + 1)
  <2> SUFFICES ASSUME NEW data \in Seq(Char), NEW pos \in 1 .. Len(data) + 1,
                      Storable(data), Lies(W(L + 1), data, pos)
               PROVE  Descent(data)[<<MostCalls(data), "entries", pos>>] =
                           IF Fits(W(L + 1), data, pos) /\ Fine(L + 1)
                             THEN [val |-> <<"dict", Content(L + 1)>>,
                                   pos |-> pos + Len(W(L + 1))]
                             ELSE Throws
    OBVIOUS
  <2> DEFINE d   == Descent(data)
             top == MostCalls(data)
  <2>1. d[<<top, "entries", pos>>] = ParseEntries(d, top, data, pos)
    BY PartsAt
  <2> HIDE DEF d, top
  <2>2. Len(W(L + 1)) = 1 /\ W(L + 1)[1] = "e"
    BY <1>2
  <2>3. Content(L + 1) = EmptyDict /\ Fine(L + 1)
    <3>1. L + 1 .. L = {}
      BY <1>1
    <3>2. Keys(L + 1) = {}
      BY <3>1
    <3>3. Content(L + 1) = EmptyDict
      BY <3>2 DEF EmptyDict
    <3> QED
      BY <3>1, <3>3
  <2> HIDE DEF Fine, Content
  <2>4. CASE pos > Len(data)
    <3>1. ParseEntries(d, top, data, pos) = Throws
      BY <2>4 DEF ParseEntries
    <3> QED
      BY <2>1, <2>2, <2>4, <3>1 DEF Fits, d, top
  <2>5. CASE pos <= Len(data)
    <3>1. data[pos] = "e" /\ Fits(W(L + 1), data, pos)
      <4>1. pos - 1 + 1 = pos
        OBVIOUS
      <4>2. data[pos - 1 + 1] = W(L + 1)[1]
        BY <2>2, <2>5 DEF Lies
      <4> QED
        BY <2>2, <2>5, <4>1, <4>2 DEF Fits
    <3>2. ParseEntries(d, top, data, pos) = Parsed("dict", EmptyDict, pos + 1)
      BY <2>5, <3>1 DEF ParseEntries
    <3> QED
      BY <2>1, <2>2, <2>3, <3>1, <3>2 DEF Parsed, d, top
  <2> QED
    BY <2>4, <2>5
<1>5. ASSUME NEW n \in 1 .. L, EntriesRead(n + 1) PROVE EntriesRead(n)
  <2> DEFINE kt == entries[n][1]
             K  == <<"str", kt>>
             V  == entries[n][2]
             a  == Written(K)
             b  == Written(V)
             c  == W(n + 1)
             bc == b \o c
             w  == W(n)
             v  == Meant(V)
  <2>1. /\ n + 1 \in 1 .. L + 1 /\ n \in 1 .. L + 1
        /\ K \in Document /\ V \in Document
    BY <1>1
  <2>2. a \in Seq(Char) /\ b \in Seq(Char) /\ c \in Seq(Char) /\ w = a \o bc
    BY <1>1, <2>1, DocumentAssumption
  <2>3. Len(a) > 0 /\ a[1] # "e" /\ Len(b) > 0
    BY <2>1, Opening
  <2>4. /\ bc \in Seq(Char) /\ Len(bc) = Len(b) + Len(c) /\ Len(w) = Len(a) + Len(bc)
        /\ w \in Seq(Char) /\ Len(a) \in Nat /\ Len(b) \in Nat /\ Len(c) \in Nat
    <3> HIDE DEF a, b, c, w
    <3> QED
      BY <2>2
  <2>5. WithEntry(kt, v, Content(n + 1)) = Content(n)
    <3>1. Keys(n) = Keys(n + 1) \cup {kt}
      <4>1. n .. L = (n + 1 .. L) \cup {n}
        BY <1>1
      <4> QED
        BY <4>1
    <3>2. ASSUME kt \notin Keys(n + 1) PROVE f(kt) = v
      <4>1. ASSUME NEW m \in DOMAIN entries, entries[m][1] = kt PROVE m <= n
        <5>1. m \notin n + 1 .. L
          BY <3>2, <4>1
        <5> QED
          BY <1>1, <5>1
      <4>2. LastEntry(entries, kt) = n
        <5>1. n \in DOMAIN entries /\ DOMAIN entries \subseteq Nat
          BY <1>1
        <5> QED
          BY <4>1, <5>1, LastIs
      <4> QED
        BY <4>2 DEF f
    <3>3. DOMAIN Content(n + 1) = Keys(n + 1)
          /\ \A k \in Keys(n + 1) : Content(n + 1)[k] = f(k)
      OBVIOUS
    <3>4. \A k \in Keys(n) :
             f(k) = IF k \in DOMAIN Content(n + 1) THEN Content(n + 1)[k] ELSE v
      <4> HIDE DEF v, kt, Keys, Content
      <4> QED
        BY <3>1, <3>2, <3>3
    <3> HIDE DEF v, kt, Keys
    <3> QED
      BY <3>1, <3>3, <3>4 DEF WithEntry
  <2>6. Fine(n) <=> V \notin OutOfRange /\ Fine(n + 1)
    BY <1>1
  <2>7. Reads(K) /\ Meant(K) = K /\ K \notin OutOfRange /\ Reads(V)
    BY <1>3, <2>1, KeyIsRead
  <2> SUFFICES ASSUME NEW data \in Seq(Char), NEW pos \in 1 .. Len(data) + 1,
                      Storable(data), Lies(w, data, pos)
               PROVE  Descent(data)[<<MostCalls(data), "entries", pos>>] =
                           IF Fits(w, data, pos) /\ Fine(n)
                             THEN [val |-> <<"dict", Content(n)>>, pos |-> pos + Len(w)]
                             ELSE Throws
    OBVIOUS
  <2> DEFINE d    == Descent(data)
             top  == MostCalls(data)
             key  == d[<<top, "value", pos>>]
             p1   == pos + Len(a)
             val  == d[<<top, "value", key.pos>>]
             val1 == d[<<top, "value", p1>>]
             p2   == p1 + Len(b)
             rest == d[<<top, "entries", val.pos>>]
             rest1 == d[<<top, "entries", p2>>]
  <2>8. d[<<top, "entries", pos>>] = ParseEntries(d, top, data, pos)
    BY PartsAt
  <2>9. Lies(a, data, pos) /\ Lies(b, data, p1) /\ Lies(c, data, p2)
    <3> HIDE DEF a, b, c, bc, w
    <3>1. pos \in Nat \ {0} /\ Lies(a \o bc, data, pos) /\ p1 \in Nat \ {0}
      BY <2>2, <2>4
    <3>2. Lies(a, data, pos) /\ Lies(bc, data, p1)
      BY <2>2, <2>4, <3>1, LieJoined
    <3>3. Lies(b \o c, data, p1)
      BY <3>2 DEF bc
    <3> HIDE DEF p1
    <3>4. Lies(b, data, p1) /\ Lies(c, data, p1 + Len(b))
      BY <2>2, <3>1, <3>3, LieJoined
    <3> QED
      BY <3>2, <3>4
  <2>10. key = IF Fits(a, data, pos) THEN [val |-> K, pos |-> p1] ELSE Throws
    BY <2>7, <2>9 DEF Reads, DecodeAt
  <2>11. p1 <= Len(data) + 1 =>
            val1 = IF Fits(b, data, p1) /\ V \notin OutOfRange
                     THEN [val |-> v, pos |-> p2] ELSE Throws
    <3>1. ASSUME p1 <= Len(data) + 1 PROVE p1 \in 1 .. Len(data) + 1
      BY <2>4, <3>1
    <3> QED
      BY <2>7, <2>9, <3>1 DEF Reads, DecodeAt
  <2>12. p2 <= Len(data) + 1 =>
            rest1 = IF Fits(c, data, p2) /\ Fine(n + 1)
                      THEN [val |-> <<"dict", Content(n + 1)>>, pos |-> p2 + Len(c)] ELSE Throws
    <3>1. ASSUME p2 <= Len(data) + 1 PROVE p2 \in 1 .. Len(data) + 1
      BY <2>4, <3>1
    <3> QED
      BY <1>5, <2>9, <3>1
  <2>13. /\ Fits(a, data, pos) <=> p1 <= Len(data) + 1
         /\ Fits(b, data, p1) <=> p2 <= Len(data) + 1
         /\ Fits(w, data, pos) <=> Fits(c, data, p2)
         /\ Fits(w, data, pos) => Fits(b, data, p1)
         /\ Fits(b, data, p1) => Fits(a, data, pos)
         /\ p2 + Len(c) = pos + Len(w)
         /\ p1 > 0 /\ p2 > 0 /\ p2 + Len(c) > 0
    <3> HIDE DEF a, b, c, bc, w
    <3> QED
      BY <2>4 DEF Fits
  <2>14. pos <= Len(data) => data[pos] # "e"
    <3>1. 1 \in 1 .. Len(a) /\ pos - 1 + 1 = pos
      BY <2>3, <2>4
    <3> HIDE DEF a
    <3> QED
      BY <2>3, <2>9, <3>1 DEF Lies
  <2>15. pos > Len(data) => ~Fits(w, data, pos)
    <3> HIDE DEF a, b, c, bc, w
    <3> QED
      BY <2>3, <2>4 DEF Fits
  <2>16. K[1] = "str" /\ K[2] = kt
    OBVIOUS
  <2> HIDE DEF kt, K, V, a, b, c, bc, w, v, Content, Fine, d, top, key, p1, val, val1, p2, rest, rest1,
               EntriesRead
  <2>17. CASE pos > Len(data)
    <3>1. ParseEntries(d, top, data, pos) = Throws
      BY <2>17 DEF ParseEntries
    <3> QED
      BY <2>8, <2>15, <2>17, <3>1 DEF d, top
  <2>18. CASE pos <= Len(data) /\ ~Fits(a, data, pos)
    <3>1. key = Throws /\ ~Returned(key)
      BY <2>10, <2>18 DEF Returned, Throws
    <3>2. ParseEntries(d, top, data, pos) = Throws
      BY <2>14, <2>18, <3>1 DEF ParseEntries, key
    <3> QED
      BY <2>8, <2>13, <2>18, <3>2 DEF d, top
  <2>19. CASE pos <= Len(data) /\ Fits(a, data, pos)
    <3>1. key.val = K /\ key.pos = p1 /\ Returned(key) /\ key.val[1] = "str" /\ key.val[2] = kt
      BY <2>10, <2>13, <2>16, <2>19 DEF Returned
    <3>2. val = val1
      BY <3>1 DEF val, val1
    <3>3. ~(pos > Len(data)) /\ data[pos] # "e"
      BY <2>14, <2>19
    <3>4. ParseEntries(d, top, data, pos) =
             IF ~Returned(val) THEN val ELSE IF ~Returned(rest) THEN rest
             ELSE Parsed("dict", WithEntry(kt, val.val, rest.val[2]), rest.pos)
      BY <3>1, <3>3 DEF ParseEntries, key, val, rest
    <3>5. CASE ~(Fits(b, data, p1) /\ V \notin OutOfRange)
      <4>1. val = Throws /\ ~Returned(val)
        BY <2>11, <2>13, <2>19, <3>2, <3>5 DEF Returned, Throws
      <4> QED
        BY <2>6, <2>8, <2>13, <3>4, <3>5, <4>1 DEF d, top
    <3>6. CASE Fits(b, data, p1) /\ V \notin OutOfRange
      <4>1. val = [val |-> v, pos |-> p2]
        BY <2>11, <2>13, <2>19, <3>2, <3>6
      <4>2. val.val = v /\ val.pos = p2 /\ Returned(val)
        BY <2>13, <4>1 DEF Returned
      <4>3. rest = rest1
        BY <4>2 DEF rest, rest1
      <4>4. CASE Fits(c, data, p2) /\ Fine(n + 1)
        <5>1. rest = [val |-> <<"dict", Content(n + 1)>>, pos |-> p2 + Len(c)]
          BY <2>12, <2>13, <3>6, <4>3, <4>4
        <5>2. rest.val[2] = Content(n + 1) /\ rest.pos = pos + Len(w) /\ Returned(rest)
          BY <2>13, <5>1 DEF Returned
        <5>3. ParseEntries(d, top, data, pos) = Parsed("dict", Content(n), pos + Len(w))
          BY <2>5, <3>4, <4>2, <5>2
        <5> QED
          BY <2>6, <2>8, <2>13, <3>6, <4>4, <5>3 DEF Parsed, d, top
      <4>5. CASE ~(Fits(c, data, p2) /\ Fine(n + 1))
        <5>1. rest = Throws /\ ~Returned(rest)
          BY <2>12, <2>13, <3>6, <4>3, <4>5 DEF Returned, Throws
        <5>2. ParseEntries(d, top, data, pos) = Throws
          BY <3>4, <4>2, <5>1
        <5> QED
          BY <2>6, <2>8, <2>13, <4>5, <5>2 DEF d, top
      <4> QED
        BY <4>4, <4>5
    <3> QED
      BY <3>5, <3>6
  <2> QED
    BY <2>17, <2>18, <2>19
<1> HIDE DEF EntriesRead
<1> DEFINE P == {n \in 1 .. L + 1 : EntriesRead(n)}
<1>6. L + 1 \in P
  BY <1>1, <1>4
<1>7. \A n \in 1 .. L : n + 1 \in P => n \in P
  BY <1>1, <1>5
<1> HIDE DEF P
<1>8. EntriesRead(1)
  <2>1. 1 \in P
    BY <1>1, <1>6, <1>7, Downwards
  <2> QED
    BY <2>1 DEF P
<1>9. Meant(doc) = <<"dict", Content(1)>>
  BY <1>1, <1>2
<1>10. doc \notin OutOfRange <=> Fine(1)
  BY <1>1, <1>2
<1> DEFINE w == W(1)
           text == Written(doc)
<1>11. w \in Seq(Char) /\ text = <<"d">> \o w /\ text \in Seq(Char)
  <2>1. 1 \in 1 .. L + 1
    BY <1>1
  <2> QED
    BY <1>1, <1>2, <2>1, OneChar
<1> SUFFICES ASSUME NEW data \in Seq(Char), NEW pos \in 1 .. Len(data) + 1,
                    Storable(data), Lies(text, data, pos)
             PROVE  DecodeAt(data, pos) =
                       IF Fits(text, data, pos) /\ doc \notin OutOfRange
                         THEN [val |-> Meant(doc), pos |-> pos + Len(text)]
                         ELSE Throws
  BY DEF Reads
<1>12. DecodeAt(data, pos) =
          IF Fits(text, data, pos) /\ Fine(1)
            THEN [val |-> <<"dict", Content(1)>>, pos |-> pos + Len(text)]
            ELSE Throws
  <2> HIDE DEF Fine, Content
  <2>1. \A p \in 1 .. Len(data) + 1 :
           Storable(data) /\ Lies(w, data, p) =>
               Descent(data)[<<MostCalls(data), "entries", p>>] =
                  IF Fits(w, data, p) /\ Fine(1)
                    THEN [val |-> <<"dict", Content(1)>>, pos |-> p + Len(w)]
                    ELSE Throws
    BY <1>8 DEF EntriesRead
  <2>2. /\ w \in Seq(Char) /\ text = <<"d">> \o w /\ Lies(text, data, pos)
        /\ <<"d", "entries">> \in {<<"l", "items">>, <<"d", "entries">>}
    BY <1>11
  <2> HIDE DEF w, text
  <2>3. DecodedAs("entries", w, text, data, pos)
    BY <2>2, Opened
  <2> QED
    BY <2>1, <2>3 DEF DecodedAs
<1> QED
  BY <1>9, <1>10, <1>12

\* decode (bencode.cpp) inverts the encoding, for documents of any depth and from any
\* position of any text a string can hold: the document whose text is there is what comes
\* out, with the position behind it; a text that is cut off in it, or a number out of
\* range, throws.
THEOREM DocumentsAreRead == \A doc \in Document : Reads(doc)
<1> DEFINE P == {n \in Nat : \A doc \in Document : Len(Written(doc)) = n => Reads(doc)}
<1>1. ASSUME NEW n \in Nat, \A m \in Nat : m < n => m \in P PROVE n \in P
  <2> SUFFICES ASSUME NEW doc \in Document, Len(Written(doc)) = n PROVE Reads(doc)
    OBVIOUS
  <2>1. ASSUME NEW part \in Document, Len(Written(part)) < n PROVE Reads(part)
    <3>1. Len(Written(part)) \in Nat
      BY DocumentAssumption
    <3>2. Len(Written(part)) \in P
      <4> HIDE DEF P
      <4> QED
        BY <1>1, <2>1, <3>1
    <3> QED
      BY <3>2
  <2> HIDE DEF P
  <2>2. CASE IntDocument(doc)
    BY <2>2, IntReads, DocumentAssumption
  <2>3. CASE StrDocument(doc)
    BY <2>3, StrReads, DocumentAssumption
  <2>4. CASE ListDocument(doc)
    <3>1. ASSUME NEW k \in DOMAIN doc[2] PROVE Reads(doc[2][k])
      <4>1. doc[2][k] \in Document /\ Len(Written(doc[2][k])) < Len(Written(doc))
        BY <2>4, ListParts
      <4> QED
        BY <2>1, <4>1
    <3> QED
      BY <2>4, <3>1, ListReads
  <2>5. CASE DictDocument(doc)
    <3>1. ASSUME NEW k \in DOMAIN doc[2] PROVE Reads(doc[2][k][2])
      <4>1. doc[2][k][2] \in Document /\ Len(Written(doc[2][k][2])) < Len(Written(doc))
        BY <2>5, DictParts
      <4> QED
        BY <2>1, <4>1
    <3> QED
      BY <2>5, <3>1, DictReads
  <2> QED
    BY <2>2, <2>3, <2>4, <2>5, DocumentAssumption
<1> HIDE DEF P
<1>2. ASSUME NEW doc \in Document PROVE Reads(doc)
  <2>1. Len(Written(doc)) \in Nat
    BY DocumentAssumption
  <2>2. Len(Written(doc)) \in P
    BY <1>1, <2>1, Induction
  <2> QED
    BY <2>1, <2>2 DEF P
<1> QED
  BY <1>2

\* The whole of a text that begins with that of a document, or part of that.
LEMMA FromTheBeginning ==
    ASSUME NEW doc \in Document, NEW data \in Seq(Char), Storable(data),
           Lies(Written(doc), data, 1)
    PROVE  DecodeAt(data, 1) =
              IF Len(Written(doc)) <= Len(data) /\ doc \notin OutOfRange
                THEN [val |-> Meant(doc), pos |-> 1 + Len(Written(doc))]
                ELSE Throws
<1>1. Reads(doc) /\ 1 \in 1 .. Len(data) + 1 /\ Len(Written(doc)) \in Nat
  BY DocumentsAreRead, DocumentAssumption
<1>2. Fits(Written(doc), data, 1) <=> Len(Written(doc)) <= Len(data)
  BY <1>1 DEF Fits
<1> QED
  BY <1>1, <1>2 DEF Reads

LEMMA MeantKind ==
    ASSUME NEW doc \in Document PROVE Meant(doc)[1] = doc[1]
<1>1. CASE doc[1] = "int" /\ IntDocument(doc)
  BY <1>1 DEF IntDocument
<1>2. CASE doc[1] = "str" /\ StrDocument(doc)
  BY <1>2 DEF StrDocument
<1>3. CASE doc[1] = "list" /\ ListDocument(doc)
  <2>1. \E c : Meant(doc) = <<"list", c>>
    BY <1>3 DEF ListDocument
  <2> QED
    BY <1>3, <2>1
<1>4. CASE doc[1] = "dict" /\ DictDocument(doc)
  <2>1. \E c : Meant(doc) = <<"dict", c>>
    BY <1>4 DEF DictDocument
  <2> QED
    BY <1>4, <2>1
<1> QED
  BY <1>1, <1>2, <1>3, <1>4, DocumentAssumption
=============================================================================
