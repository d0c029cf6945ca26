--------------------------- MODULE TierAnnounceProofs ---------------------------
(***************************************************************************)
(* The trackers of a tier, for every order of them: how long a UDP tracker *)
(* keeps its caller and whose answer it returns, for every number of       *)
(* attempts; what an HTTP tracker's call makes of the bytes that came, for *)
(* every set of answers, read by the decoder of Bencode;                   *)
(* and when the next tracker is asked.                                     *)
(***************************************************************************)
EXTENDS TierAnnounce, BencodeProofs

-----------------------------------------------------------------------------
\* One UDP tracker.  The time since the call is bounded by the timeouts of the attempts
\* so far: attempt n of an exchange begins when at most 2^n - 1 units of it have passed
\* (Spent), because the timeouts before it add up to that.

\* All attempts of one exchange.
LongestExchange == 2 ^ MaxAttempts - 1

\* What the exchange under way has taken at most.
ExchangeTime == 2 ^ attempt - 1 + waited

Spent ==
    /\ phase \in {"called", "opened"} => elapsed = 0 /\ age = 0 /\ attempt = 0
    /\ phase = "connect"  => elapsed <= ExchangeTime /\ age = 0
    /\ phase = "announce" => elapsed <= LongestExchange + ExchangeTime /\ age <= ExchangeTime
    /\ elapsed <= LongestCall

\* An announce is accepted before its reply is under way; requests follow the exchange.
AcceptedFirst == "announce" \in replies => answered

UdpInv == UdpTypeOK /\ Spent /\ AcceptedFirst /\ ResultIsTheTrackers

\* The powers of two of the attempts there are.
LEMMA AttemptTimes ==
    ASSUME NEW n \in 0 .. MaxAttempts - 1
    PROVE  /\ MaxAttempts \in Nat \ {0} /\ n \in Nat
           /\ 2 ^ 0 = 1 /\ 2 ^ n \in Nat \ {0} /\ 2 ^ MaxAttempts \in Nat \ {0}
           /\ 2 ^ (n + 1) = 2 * 2 ^ n /\ 2 ^ (n + 1) <= 2 ^ MaxAttempts
<1>1. MaxAttempts \in Nat \ {0} /\ n \in 0 .. MaxAttempts /\ n < MaxAttempts
      /\ MaxAttempts \in 0 .. MaxAttempts
  BY UdpAssumption
<1> QED
  BY <1>1, DoublingAssumption

LEMMA UdpInvInit == Init => UdpInv
<1> SUFFICES ASSUME Init PROVE UdpInv
  OBVIOUS
<1>1. 0 \in 0 .. MaxAttempts - 1
  BY UdpAssumption
<1>2. 2 ^ 0 = 1 /\ 2 ^ MaxAttempts \in Nat \ {0} /\ 2 * 2 ^ 0 <= 2 ^ MaxAttempts
  BY <1>1, AttemptTimes
<1>3. LongestCall \in Nat
  BY <1>2 DEF LongestCall
<1>4. UdpTypeOK
  <2>1. waited \in 0 .. 2 ^ attempt
    BY <1>2 DEF Init
  <2>2. attempt \in 0 .. MaxAttempts - 1 /\ age \in 0 .. LongestCall
        /\ elapsed \in 0 .. LongestCall + 1
    BY <1>1, <1>3 DEF Init
  <2>3. phase \in Phase /\ requests \subseteq Exchange
        /\ replies \subseteq Exchange \cup {"error"} /\ answered \in BOOLEAN
    BY DEF Init, Phase, Exchange
  <2> QED
    BY <2>1, <2>2, <2>3 DEF UdpTypeOK
<1>5. Spent /\ AcceptedFirst /\ ResultIsTheTrackers
  BY <1>3 DEF Init, Spent, AcceptedFirst, ResultIsTheTrackers
<1> QED
  BY <1>4, <1>5 DEF UdpInv

\* A datagram that is sent begins an attempt; a send that fails ends the announce.
LEMMA SendKeeps ==
    ASSUME UdpInv, NEW x \in Exchange, NEW n \in 0 .. MaxAttempts - 1, Send(x, n),
           UNCHANGED <<elapsed, answered>>, age' \in {age, 0}, replies' \subseteq replies,
           x = "connect" => elapsed <= 2 ^ n - 1 /\ age' = 0,
           x = "announce" => elapsed <= LongestExchange + 2 ^ n - 1 /\ age' <= 2 ^ n - 1
    PROVE  UdpInv'
<1>1. /\ 2 ^ n \in Nat \ {0} /\ 2 ^ MaxAttempts \in Nat \ {0} /\ LongestCall \in Nat
      /\ 2 ^ 0 = 1
  BY AttemptTimes DEF LongestCall
<1>2. UdpTypeOK'
  <2>1. age' \in 0 .. LongestCall /\ elapsed' \in 0 .. LongestCall + 1
        /\ replies' \subseteq Exchange \cup {"error"} /\ answered' \in BOOLEAN
    BY <1>1 DEF UdpInv, UdpTypeOK
  <2>2. phase' \in Phase /\ requests' \subseteq Exchange
    BY DEF UdpInv, UdpTypeOK, Send, Fail, Phase, Exchange
  <2>3. attempt' \in 0 .. MaxAttempts - 1 /\ waited' \in 0 .. 2 ^ attempt'
    <3>1. CASE attempt' = n /\ waited' = 0
      BY <1>1, <3>1
    <3>2. CASE UNCHANGED <<attempt, waited>>
      BY <3>2 DEF UdpInv, UdpTypeOK
    <3> QED
      BY <3>1, <3>2 DEF Send, Fail
  <2> QED
    BY <2>1, <2>2, <2>3 DEF UdpTypeOK
<1>3. Spent'
  BY <1>1 DEF UdpInv, UdpTypeOK, Spent, Send, Fail, ExchangeTime, Exchange
<1>4. AcceptedFirst' /\ ResultIsTheTrackers'
  BY DEF UdpInv, AcceptedFirst, ResultIsTheTrackers, Send, Fail, Exchange
<1> QED
  BY <1>2, <1>3, <1>4 DEF UdpInv

\* The next attempt begins when the timeouts of those before it have passed at most.
LEMMA NextAttemptKeeps ==
    ASSUME UdpInv, Waiting, NextAttempt, UNCHANGED <<age, elapsed, replies, answered>>
    PROVE  UdpInv'
<1>1. /\ attempt \in 0 .. MaxAttempts - 1 /\ waited \in 0 .. 2 ^ attempt
      /\ elapsed \in Nat /\ age \in Nat /\ phase \in Exchange
  <2>1. 2 ^ MaxAttempts \in Nat \ {0}
    BY AttemptTimes DEF UdpInv, UdpTypeOK
  <2>2. LongestCall \in Nat
    BY <2>1, AttemptTimes DEF UdpInv, UdpTypeOK, LongestCall
  <2> QED
    BY <2>2 DEF UdpInv, UdpTypeOK, Waiting
<1>2. 2 ^ attempt \in Nat \ {0} /\ 2 ^ (attempt + 1) = 2 * 2 ^ attempt /\ 2 ^ MaxAttempts \in Nat \ {0}
  BY <1>1, AttemptTimes
<1>3. CASE attempt + 1 < MaxAttempts
  <2>1. attempt + 1 \in 0 .. MaxAttempts - 1 /\ Send(phase, attempt + 1)
    BY <1>1, <1>3, UdpAssumption DEF NextAttempt
  <2>2. phase = "connect" => elapsed <= 2 ^ (attempt + 1) - 1 /\ age = 0
    BY <1>1, <1>2 DEF UdpInv, Spent, ExchangeTime
  <2>3. phase = "announce" =>
          elapsed <= LongestExchange + 2 ^ (attempt + 1) - 1 /\ age <= 2 ^ (attempt + 1) - 1
    BY <1>1, <1>2 DEF UdpInv, Spent, ExchangeTime, LongestExchange
  <2> QED
    BY <1>1, <2>1, <2>2, <2>3, SendKeeps
<1>4. CASE ~(attempt + 1 < MaxAttempts)
  <2>1. Fail
    BY <1>4 DEF NextAttempt
  <2> QED
    BY <1>1, <2>1 DEF Fail, UdpInv, UdpTypeOK, Spent, AcceptedFirst, ResultIsTheTrackers, Phase
<1> QED
  BY <1>3, <1>4

LEMMA ConnectUdpKeeps == ASSUME UdpInv, ConnectUdp PROVE UdpInv'
<1>1. phase = "called" /\ phase' \in {"opened", "failed"}
      /\ UNCHANGED <<attempt, waited, age, elapsed, requests, replies, answered>>
  BY DEF ConnectUdp, Fail
<1> QED
  BY <1>1 DEF UdpInv, UdpTypeOK, Spent, AcceptedFirst, ResultIsTheTrackers, Phase

LEMMA ConnectKeeps == ASSUME UdpInv, Connect PROVE UdpInv'
<1>1. 0 \in 0 .. MaxAttempts - 1 /\ "connect" \in Exchange
  BY UdpAssumption DEF Exchange
<1>2. 2 ^ 0 = 1
  BY <1>1, AttemptTimes
<1>3. elapsed = 0 /\ age = 0 /\ age' = 0
  BY DEF UdpInv, Spent, Connect
<1>4. /\ Send("connect", 0) /\ UNCHANGED <<elapsed, answered>>
      /\ age' \in {age, 0} /\ replies' \subseteq replies
      /\ elapsed <= 2 ^ 0 - 1
  BY <1>2, <1>3 DEF Connect
<1> QED
  BY <1>1, <1>3, <1>4, SendKeeps

\* The reply to the connect: all attempts of that exchange were over by now at the latest.
LEMMA ConnectedKeeps ==
    ASSUME UdpInv, NEW r \in replies, Receive(r), Connected(r) PROVE UdpInv'
<1>1. /\ attempt \in 0 .. MaxAttempts - 1 /\ 0 \in 0 .. MaxAttempts - 1
      /\ waited \in 0 .. 2 ^ attempt /\ phase = "connect"
  BY UdpAssumption DEF UdpInv, UdpTypeOK, Connected
<1>2. /\ 2 ^ 0 = 1 /\ 2 ^ attempt \in Nat \ {0} /\ 2 ^ MaxAttempts \in Nat \ {0}
      /\ 2 * 2 ^ attempt <= 2 ^ MaxAttempts
  BY <1>1, AttemptTimes
<1>3. elapsed \in Nat /\ elapsed <= 2 ^ attempt - 1 + waited
  <2>1. LongestCall \in Nat
    BY <1>2 DEF LongestCall
  <2> QED
    BY <1>1, <2>1 DEF UdpInv, UdpTypeOK, Spent, ExchangeTime
<1>4. elapsed <= LongestExchange + 2 ^ 0 - 1
  BY <1>1, <1>2, <1>3 DEF LongestExchange
<1>5. /\ Send("announce", 0) /\ UNCHANGED <<elapsed, answered>>
      /\ age' = 0 /\ replies' \subseteq replies /\ "announce" \in Exchange
      /\ 0 <= 2 ^ 0 - 1
  BY <1>2 DEF Receive, Connected, Exchange
<1> QED
  BY <1>1, <1>4, <1>5, SendKeeps

LEMMA ReceiveKeeps == ASSUME UdpInv, NEW r \in replies, Receive(r) PROVE UdpInv'
<1>1. CASE Connected(r)
  BY <1>1, ConnectedKeeps
<1>2. CASE Announced(r)
  <2>1. UdpTypeOK'
    BY <1>2 DEF UdpInv, UdpTypeOK, Receive, Announced, Phase
  <2>2. Spent'
    BY <1>2 DEF UdpInv, Spent, Receive, Announced
  <2>3. AcceptedFirst' /\ ResultIsTheTrackers'
    BY <1>2 DEF UdpInv, AcceptedFirst, ResultIsTheTrackers, Receive, Announced
  <2> QED
    BY <2>1, <2>2, <2>3 DEF UdpInv
<1>3. CASE Rejected(r)
  BY <1>3 DEF UdpInv, UdpTypeOK, Spent, AcceptedFirst, ResultIsTheTrackers, Receive, Rejected,
     Fail, Phase
<1> QED
  BY <1>1, <1>2, <1>3 DEF Receive

LEMMA AnswerKeeps == ASSUME UdpInv, NEW q \in requests, Answer(q) PROVE UdpInv'
<1>1. UdpTypeOK'
  BY DEF UdpInv, UdpTypeOK, Answer, Exchange
<1>2. Spent'
  BY DEF UdpInv, Spent, Answer, ExchangeTime
<1>3. AcceptedFirst' /\ ResultIsTheTrackers'
  BY DEF UdpInv, AcceptedFirst, ResultIsTheTrackers, Answer
<1> QED
  BY <1>1, <1>2, <1>3 DEF UdpInv

LEMMA LoseKeeps == ASSUME UdpInv, Lose PROVE UdpInv'
BY DEF UdpInv, UdpTypeOK, Spent, AcceptedFirst, ResultIsTheTrackers, Lose, ExchangeTime

\* Time passes only up to the timeout, so the exchange stays within its own.
LEMMA TickKeeps == ASSUME UdpInv, Tick PROVE UdpInv'
<1>1. /\ attempt \in 0 .. MaxAttempts - 1 /\ waited \in 0 .. 2 ^ attempt
      /\ phase \in Exchange /\ waited < 2 ^ attempt
  BY DEF UdpInv, UdpTypeOK, Tick, Waiting, Timeout
<1>2. /\ 2 ^ attempt \in Nat \ {0} /\ 2 ^ MaxAttempts \in Nat \ {0}
      /\ 2 * 2 ^ attempt <= 2 ^ MaxAttempts
  BY <1>1, AttemptTimes
<1>3. LongestCall = 2 * (2 ^ MaxAttempts - 1) /\ LongestCall \in Nat
  BY <1>2 DEF LongestCall
<1>4. elapsed \in Nat /\ age \in Nat /\ elapsed <= LongestCall
  BY <1>3 DEF UdpInv, UdpTypeOK, Spent
<1>5. /\ waited' = waited + 1 /\ elapsed' = elapsed + 1 /\ phase' = phase /\ attempt' = attempt
      /\ age' = IF phase = "announce" THEN age + 1 ELSE age
  BY <1>3, <1>4 DEF Tick
<1>6. Spent'
  <2>1. CASE phase = "connect"
    BY <1>1, <1>2, <1>3, <1>4, <1>5, <2>1 DEF UdpInv, Spent, ExchangeTime
  <2>2. CASE phase = "announce"
    BY <1>1, <1>2, <1>3, <1>4, <1>5, <2>2 DEF UdpInv, Spent, ExchangeTime, LongestExchange
  <2> QED
    BY <1>1, <2>1, <2>2 DEF Exchange
<1>7. UdpTypeOK'
  <2>1. elapsed' \in 0 .. LongestCall + 1
    BY <1>3, <1>4, <1>5
  <2>2. age' \in 0 .. LongestCall
    BY <1>1, <1>2, <1>3, <1>4, <1>5 DEF UdpInv, Spent, ExchangeTime, UdpTypeOK
  <2> QED
    BY <1>1, <1>2, <1>5, <2>1, <2>2 DEF UdpInv, UdpTypeOK, Tick
<1>8. AcceptedFirst' /\ ResultIsTheTrackers'
  BY DEF UdpInv, AcceptedFirst, ResultIsTheTrackers, Tick
<1> QED
  BY <1>6, <1>7, <1>8 DEF UdpInv

LEMMA UdpInvStep == UdpInv /\ [Next]_vars => UdpInv'
<1> SUFFICES ASSUME UdpInv, [Next]_vars PROVE UdpInv'
  OBVIOUS
<1>0. CASE ConnectUdp
  BY <1>0, ConnectUdpKeeps
<1>1. CASE Connect
  BY <1>1, ConnectKeeps
<1>2. CASE TimedOut
  BY <1>2, NextAttemptKeeps DEF TimedOut
<1>3. CASE RecvFailed
  BY <1>3, NextAttemptKeeps DEF RecvFailed
<1>4. ASSUME NEW r \in replies, Receive(r) PROVE UdpInv'
  BY <1>4, ReceiveKeeps
<1>5. CASE Lose
  BY <1>5, LoseKeeps
<1>6. ASSUME NEW q \in requests, Answer(q) PROVE UdpInv'
  BY <1>6, AnswerKeeps
<1>7. CASE Tick
  BY <1>7, TickKeeps
<1>8. CASE UNCHANGED vars
  BY <1>8 DEF vars, UdpInv, UdpTypeOK, Spent, AcceptedFirst, ResultIsTheTrackers, ExchangeTime
<1> QED
  BY <1>0, <1>1, <1>2, <1>3, <1>4, <1>5, <1>6, <1>7, <1>8 DEF Next

LEMMA UdpInvHolds == Spec => []UdpInv
BY UdpInvInit, UdpInvStep, PTL DEF Spec

\* The types of announce's state, for every number of attempts and every validity.
THEOREM UdpTypesHold == Spec => []UdpTypeOK
<1>1. UdpInv => UdpTypeOK
  BY DEF UdpInv
<1> QED
  BY <1>1, UdpInvHolds, PTL

\* send_recv keeps its caller for its timeouts and no longer, whatever the network does:
\* 2 * (2^MaxAttempts - 1) times 15 s, for every number of attempts.
THEOREM WaitIsBounded == Spec => []BoundedWait
<1>1. UdpInv => BoundedWait
  BY DEF UdpInv, Spent, BoundedWait
<1> QED
  BY <1>1, UdpInvHolds, PTL

\* do_announce returns only what the tracker accepted, however late, lost or repeated
\* the datagrams of the two exchanges are.
THEOREM ResultsAreTheTrackers == Spec => []ResultIsTheTrackers
<1>1. UdpInv => ResultIsTheTrackers
  BY DEF UdpInv
<1> QED
  BY <1>1, UdpInvHolds, PTL

-----------------------------------------------------------------------------
\* The text of an answer.  What has come of it is a part from its beginning; its header
\* ends at the third byte, so the body is a part of the text of the answer, and the
\* decoder tells the whole from any other part.

\* Sequences are the same if they are as long and agree everywhere.
LEMMA SameText ==
    ASSUME NEW S, NEW s \in Seq(S), NEW t \in Seq(S), Len(s) = Len(t),
           \A i \in 1 .. Len(s) : s[i] = t[i]
    PROVE  s = t
OBVIOUS

LEMMA PartFacts ==
    ASSUME NEW S, NEW s \in Seq(S), NEW h \in Nat, NEW n \in Nat, h + n <= Len(s)
    PROVE  /\ SubSeq(s, h + 1, h + n) \in Seq(S) /\ Len(SubSeq(s, h + 1, h + n)) = n
           /\ \A i \in 1 .. n : SubSeq(s, h + 1, h + n)[i] = s[h + i]
BY SMTT(30)

LEMMA FrontFacts ==
    ASSUME NEW S, NEW s \in Seq(S), NEW n \in 0 .. Len(s)
    PROVE  /\ SubSeq(s, 1, n) \in Seq(S) /\ Len(SubSeq(s, 1, n)) = n
           /\ \A i \in 1 .. n : SubSeq(s, 1, n)[i] = s[i]
OBVIOUS

\* u is s with t behind it.
Joined(u, s, t) ==
    /\ Len(u) = Len(s) + Len(t)
    /\ \A i \in 1 .. Len(s) : u[i] = s[i]
    /\ \A i \in 1 .. Len(t) : u[Len(s) + i] = t[i]

LEMMA JoinFacts ==
    ASSUME NEW S, NEW s \in Seq(S), NEW t \in Seq(S)
    PROVE  s \o t \in Seq(S) /\ Joined(s \o t, s, t)
BY DEF Joined

LEMMA HeaderFacts ==
    HeaderEnd \in Seq(Char) /\ Len(HeaderEnd) = 2 /\ HeaderEnd[1] = "N" /\ HeaderEnd[2] = "N"
<1>1. "N" \in Char
  BY HttpAssumption
<1>2. ASSUME NEW c \in Char
      PROVE  <<c, c>> \in Seq(Char) /\ Len(<<c, c>>) = 2 /\ <<c, c>>[1] = c /\ <<c, c>>[2] = c
  OBVIOUS
<1> QED
  BY <1>1, <1>2 DEF HeaderEnd

\* Where a header ends.
LEMMA HeaderFound ==
    ASSUME NEW p \in Seq(Char)
    PROVE  HeaderEnds(p) = {i \in 1 .. Len(p) - 1 : p[i] = "N" /\ p[i + 1] = "N"}
<1>1. HeaderEnd \in Seq(Char) /\ Len(HeaderEnd) = 2 /\ HeaderEnd[1] = "N" /\ HeaderEnd[2] = "N"
  BY HeaderFacts
<1>2. Len(p) \in Nat /\ Len(p) - 2 + 1 = Len(p) - 1
  OBVIOUS
<1>3. ASSUME NEW i \in 1 .. Len(p) - 1
      PROVE  SubSeq(p, i, i + 2 - 1) = HeaderEnd <=> p[i] = "N" /\ p[i + 1] = "N"
  <2>1. PICK h \in Nat : i = h + 1 /\ i + 2 - 1 = h + 2 /\ h + 2 <= Len(p)
    <3>1. i - 1 \in Nat /\ i = (i - 1) + 1 /\ i + 2 - 1 = (i - 1) + 2 /\ (i - 1) + 2 <= Len(p)
      BY <1>2
    <3> QED
      BY <3>1
  <2>2. PICK t \in Seq(Char) : /\ t = SubSeq(p, i, i + 2 - 1) /\ Len(t) = 2
                                 /\ t[1] = p[i] /\ t[2] = p[i + 1]
    <3>1. PICK n \in Nat : n = 2
      OBVIOUS
    <3>2. h + n <= Len(p) /\ i = h + 1 /\ i + 2 - 1 = h + n
      BY <2>1, <3>1
    <3>3. /\ SubSeq(p, h + 1, h + n) \in Seq(Char) /\ Len(SubSeq(p, h + 1, h + n)) = n
          /\ \A k \in 1 .. n : SubSeq(p, h + 1, h + n)[k] = p[h + k]
      BY <3>2, PartFacts, Zenon
    <3>4. 1 \in 1 .. n /\ 2 \in 1 .. n
      BY <3>1
    <3>5. PICK t \in Seq(Char) : /\ t = SubSeq(p, i, i + 2 - 1) /\ Len(t) = n
                                   /\ t[1] = p[h + 1] /\ t[2] = p[h + 2]
      BY <3>2, <3>3, <3>4, Zenon
    <3>6. h + 2 = i + 1
      BY <2>1
    <3> QED
      BY <2>1, <3>1, <3>5, <3>6, Zenon
  <2>3. t = HeaderEnd <=> t[1] = "N" /\ t[2] = "N"
    BY <1>1, <2>2, SameText
  <2> QED
    BY <2>2, <2>3
<1> QED
  <2>1. HeaderEnds(p) = {i \in 1 .. Len(p) - 1 : SubSeq(p, i, i + 2 - 1) = HeaderEnd}
    BY <1>1, <1>2 DEF HeaderEnds
  <2> QED
    BY <1>3, <2>1

\* The decoder takes the text of an answer for what the answer says, and throws when the
\* text lost its end, wherever that was.
LEMMA DecoderFacts ==
    \A answer \in Answers :
        LET text == Written(answer)
        IN  /\ answer[1] \notin {"none", "garbage", "trickle"}
            /\ text \in Seq(Char)
            /\ Returned(Decoder(text)) /\ Decoder(text).val = Meant(answer)
            /\ Meant(answer)[1] = answer[1]
            /\ \A n \in 0 .. Len(text) - 1 : Threw(Decoder(SubSeq(text, 1, n)))
<1> SUFFICES ASSUME NEW answer \in Answers
             PROVE  LET text == Written(answer)
                    IN  /\ answer[1] \notin {"none", "garbage", "trickle"}
                        /\ text \in Seq(Char)
                        /\ Returned(Decoder(text)) /\ Decoder(text).val = Meant(answer)
                        /\ Meant(answer)[1] = answer[1]
                        /\ \A n \in 0 .. Len(text) - 1 : Threw(Decoder(SubSeq(text, 1, n)))
  OBVIOUS
<1> DEFINE text == Written(answer)
<1>1. answer \in Document /\ answer \notin OutOfRange /\ Storable(text)
  BY HttpAssumption
<1>2. text \in Seq(Char) /\ answer[1] \in {"int", "str", "list", "dict"}
  BY <1>1, DocumentAssumption
<1>3. Returned(Decoder(text)) /\ Decoder(text).val = Meant(answer)
  <2>1. Lies(text, text, 1) /\ Len(text) \in Nat
    BY <1>2 DEF Lies
  <2>2. Decoder(text) = [val |-> Meant(answer), pos |-> 1 + Len(text)]
    BY <1>1, <1>2, <2>1, FromTheBeginning DEF Decoder
  <2> HIDE DEF text
  <2> QED
    BY <2>1, <2>2 DEF Returned
<1>4. ASSUME NEW n \in 0 .. Len(text) - 1 PROVE Threw(Decoder(SubSeq(text, 1, n)))
  <2> DEFINE cut == SubSeq(text, 1, n)
  <2>1. /\ cut \in Seq(Char) /\ Len(cut) = n /\ Lies(text, cut, 1) /\ ~(Len(text) <= n)
        /\ Storable(cut)
    <3> HIDE DEF text
    <3>1. cut \in Seq(Char) /\ Len(cut) = n /\ Lies(text, cut, 1) /\ ~(Len(text) <= n)
      BY <1>2 DEF Lies
    <3>2. 2 * n < SizeWord
      BY <1>1, <1>2, CharAssumption DEF Storable
    <3> QED
      BY <3>1, <3>2 DEF Storable
  <2> HIDE DEF cut
  <2>2. Decoder(cut) = Throws
    BY <1>1, <2>1, FromTheBeginning DEF Decoder
  <2> QED
    BY <2>2 DEF cut, Threw, Throws
<1> QED
  BY <1>1, <1>2, <1>3, <1>4, MeantKind

\* The bytes of an answer: a header of three, and the text of the answer.
LEMMA WireFacts ==
    ASSUME NEW answer \in Answers
    PROVE  LET w == Wire(answer)
               t == Written(answer)
           IN  /\ w \in Seq(Char) /\ t \in Seq(Char)
               /\ Len(t) \in Nat /\ Len(w) = 3 + Len(t)
               /\ w[1] = "H" /\ w[2] = "N" /\ w[3] = "N"
               /\ \A i \in 1 .. Len(t) : w[3 + i] = t[i]
<1>1. PICK t \in Seq(Char) : t = Written(answer)
  BY DecoderFacts
<1>2. PICK g \in Seq(Char) : g = <<"H">> /\ Len(g) = 1 /\ g[1] = "H"
  <2>1. ASSUME NEW c \in Char PROVE <<c>> \in Seq(Char) /\ Len(<<c>>) = 1 /\ <<c>>[1] = c
    OBVIOUS
  <2>2. "H" \in Char
    BY HttpAssumption
  <2> QED
    BY <2>1, <2>2
<1>3. PICK e \in Seq(Char) : e = HeaderEnd /\ Len(e) = 2 /\ e[1] = "N" /\ e[2] = "N"
  BY HeaderFacts
<1>4. PICK f \in Seq(Char) : f = g \o e /\ Joined(f, g, e)
  BY JoinFacts, Zenon
<1>5. Len(f) = 3 /\ f[1] = "H" /\ f[2] = "N" /\ f[3] = "N"
  <2>1. Joined(f, g, e) /\ 1 \in 1 .. Len(g) /\ 1 \in 1 .. Len(e) /\ 2 \in 1 .. Len(e)
    BY <1>2, <1>3, <1>4
  <2> QED
    BY <1>2, <1>3, <2>1 DEF Joined
<1>6. PICK w \in Seq(Char) : w = f \o t /\ Joined(w, f, t)
  BY JoinFacts, Zenon
<1>7. /\ Len(t) \in Nat /\ Len(w) = 3 + Len(t)
      /\ w[1] = "H" /\ w[2] = "N" /\ w[3] = "N"
      /\ \A i \in 1 .. Len(t) : w[3 + i] = t[i]
  <2>1. Joined(w, f, t)
    BY <1>6
  <2> QED
    BY <1>5, <2>1 DEF Joined
<1>8. Wire(answer) = w
  <2>1. answer[1] \notin {"none", "garbage", "trickle"}
    BY DecoderFacts
  <2> QED
    BY <1>1, <1>2, <1>3, <1>4, <1>6, <2>1 DEF Wire
<1> QED
  BY <1>1, <1>7, <1>8, Zenon

\* What is found in the first n bytes of an answer.
LEMMA BodyIs ==
    ASSUME NEW answer \in Answers, NEW n \in 0 .. Len(Wire(answer))
    PROVE  LET p == SubSeq(Wire(answer), 1, n)
           IN  /\ n < 3 => HeaderEnds(p) = {}
               /\ n >= 3 => HeaderEnds(p) # {} /\ BodyOf(p) = SubSeq(Written(answer), 1, n - 3)
<1>1. PICK w \in Seq(Char), t \in Seq(Char), l \in Nat :
         /\ w = Wire(answer) /\ t = Written(answer) /\ Len(t) = l /\ Len(w) = 3 + l
         /\ w[1] = "H" /\ w[2] = "N" /\ w[3] = "N"
         /\ \A i \in 1 .. l : w[3 + i] = t[i]
  BY WireFacts
<1>2. PICK p \in Seq(Char) :
         p = SubSeq(w, 1, n) /\ Len(p) = n /\ \A i \in 1 .. n : p[i] = w[i]
  <2>1. n \in 0 .. Len(w)
    BY <1>1, Zenon
  <2>2. SubSeq(w, 1, n) \in Seq(Char) /\ Len(SubSeq(w, 1, n)) = n
        /\ \A i \in 1 .. n : SubSeq(w, 1, n)[i] = w[i]
    BY <2>1, FrontFacts, Zenon
  <2> QED
    BY <2>2, Zenon
<1>3. n \in Nat /\ n <= 3 + l
  BY <1>1
<1>4. HeaderEnds(p) = {i \in 1 .. n - 1 : p[i] = "N" /\ p[i + 1] = "N"}
  BY <1>2, HeaderFound
<1>5. ASSUME n < 3 PROVE HeaderEnds(p) = {}
  <2>1. \A i \in 1 .. n - 1 : i = 1 /\ i \in 1 .. n
    BY <1>3, <1>5
  <2>2. \A i \in 1 .. n - 1 : p[i] = "H"
    BY <1>1, <1>2, <2>1
  <2> QED
    BY <1>4, <2>2
<1>6. ASSUME n >= 3 PROVE HeaderEnds(p) # {} /\ BodyOf(p) = SubSeq(t, 1, n - 3)
  <2>1. 1 \in 1 .. n /\ 2 \in 1 .. n - 1 /\ 2 \in 1 .. n /\ 3 \in 1 .. n /\ n - 3 \in 0 .. l
    BY <1>3, <1>6
  <2>2. p[1] = "H" /\ p[2] = "N" /\ p[3] = "N"
    BY <1>1, <1>2, <2>1
  <2>3. 2 \in HeaderEnds(p) /\ \A i \in HeaderEnds(p) : i \in Int /\ i >= 2
    <3>1. 2 \in HeaderEnds(p)
      BY <1>4, <2>1, <2>2
    <3>2. ASSUME NEW i \in HeaderEnds(p) PROVE i \in Int /\ i >= 2
      <4>1. i \in 1 .. n - 1 /\ p[i] = "N"
        BY <1>4
      <4>2. i # 1
        BY <2>2, <4>1
      <4> QED
        BY <4>1, <4>2
    <3> QED
      BY <3>1, <3>2
  <2>4. (CHOOSE i \in HeaderEnds(p) : \A j \in HeaderEnds(p) : i <= j) = 2
    <3> DEFINE first == CHOOSE i \in HeaderEnds(p) : \A j \in HeaderEnds(p) : i <= j
    <3>1. first \in HeaderEnds(p) /\ \A j \in HeaderEnds(p) : first <= j
      BY <2>3
    <3> HIDE DEF first
    <3>2. first <= 2 /\ first >= 2 /\ first \in Int
      BY <2>3, <3>1
    <3>3. first = 2
      BY <3>2
    <3> QED
      BY <3>3 DEF first
  <2>5. BodyOf(p) = SubSeq(p, 2 + Len(HeaderEnd), Len(p))
    BY <2>4 DEF BodyOf
  <2>6. Len(HeaderEnd) = 2
    BY DEF HeaderEnd
  <2>7. PICK h \in Nat, k \in Nat : h = 3 /\ k = n - 3 /\ h + 1 = 4 /\ h + k = n /\ k \in 0 .. l
    <3>1. 3 \in Nat /\ n - 3 \in Nat /\ 3 + (n - 3) = n
      BY <1>3, <1>6
    <3> QED
      BY <2>1, <3>1
  <2>8. PICK b \in Seq(Char) :
           b = SubSeq(p, 4, n) /\ Len(b) = k /\ \A i \in 1 .. k : b[i] = p[3 + i]
    <3>1. /\ SubSeq(p, h + 1, h + k) \in Seq(Char) /\ Len(SubSeq(p, h + 1, h + k)) = k
          /\ \A i \in 1 .. k : SubSeq(p, h + 1, h + k)[i] = p[h + i]
      BY <1>2, <2>7, PartFacts
    <3> QED
      BY <2>7, <3>1
  <2>9. PICK c \in Seq(Char) :
           c = SubSeq(t, 1, k) /\ Len(c) = k /\ \A i \in 1 .. k : c[i] = t[i]
    <3>1. k \in 0 .. Len(t)
      BY <1>1, <2>7, Zenon
    <3>2. SubSeq(t, 1, k) \in Seq(Char) /\ Len(SubSeq(t, 1, k)) = k
          /\ \A i \in 1 .. k : SubSeq(t, 1, k)[i] = t[i]
      BY <3>1, FrontFacts, Zenon
    <3> QED
      BY <3>2, Zenon
  <2>10. ASSUME NEW i \in 1 .. k PROVE b[i] = c[i]
    <3>1. 3 + i \in 1 .. n /\ i \in 1 .. l
      BY <1>3, <2>7
    <3> QED
      BY <1>1, <1>2, <2>8, <2>9, <3>1
  <2>11. b = c
    BY <2>8, <2>9, <2>10, SameText
  <2>12. BodyOf(p) = SubSeq(p, 4, n)
    <3>1. 2 + Len(HeaderEnd) = 4
      BY <2>6
    <3> QED
      BY <1>2, <2>5, <3>1, Zenon
  <2> QED
    BY <2>3, <2>7, <2>8, <2>9, <2>11, <2>12, Zenon
<1> QED
  BY <1>1, <1>2, <1>5, <1>6

-----------------------------------------------------------------------------
\* One call of an HTTP tracker.

\* What a tracker may send, and what may have come of it when recv returns.
Sendable     == Answers \cup {<<"garbage", text>> : text \in Garbage} \cup {Trickle}
Came(answer) == {SubSeq(Wire(answer), 1, n) : n \in 0 .. Len(Wire(answer))}

\* What the tracker sends is bytes.
LEMMA WireIsText ==
    ASSUME NEW answer \in Sendable
    PROVE  /\ Wire(answer) \in Seq(Char)
           /\ answer \notin Answers => /\ answer[1] \in {"garbage", "trickle"}
                                      /\ Wire(answer) \in Garbage \cup {<<>>}
<1>1. CASE answer \in Answers
  BY <1>1, WireFacts
<1>2. CASE answer \notin Answers /\ answer # Trickle
  <2>1. PICK text \in Garbage : answer = <<"garbage", text>>
    BY <1>2 DEF Sendable
  <2>2. answer[1] = "garbage" /\ Wire(answer) = text
    BY <2>1 DEF Wire
  <2> QED
    BY <1>2, <2>2, GarbageAssumption
<1>3. CASE answer \notin Answers /\ answer = Trickle
  <2>1. answer[1] = "trickle" /\ Wire(answer) = <<>>
    BY <1>3 DEF Trickle, Wire
  <2>2. <<>> \in Seq(Char)
    OBVIOUS
  <2> QED
    BY <1>3, <2>1, <2>2
<1> QED
  BY <1>1, <1>2, <1>3

\* All of an answer is one of its parts.
LEMMA AllOfIt == ASSUME NEW S, NEW s \in Seq(S) PROVE SubSeq(s, 1, Len(s)) = s
OBVIOUS

\* Nothing is a part of every text, and a part that is followed by more is one again.
LEMMA CameFacts ==
    ASSUME NEW answer \in Sendable
    PROVE  /\ <<>> \in Came(answer)
           /\ Wire(answer) \in Came(answer)
           /\ \A text \in Came(answer) : Len(text) \in Nat
<1>1. PICK w \in Seq(Char), l \in Nat : w = Wire(answer) /\ l = Len(w)
  BY WireIsText
<1>2. SubSeq(w, 1, 0) = <<>> /\ 0 \in 0 .. l /\ l \in 0 .. l
  BY <1>1
<1>3. SubSeq(w, 1, l) = w
  BY <1>1, AllOfIt
<1>4. ASSUME NEW n \in 0 .. l PROVE Len(SubSeq(w, 1, n)) \in Nat
  BY <1>1
<1> QED
  BY <1>1, <1>2, <1>3, <1>4 DEF Came

\* Only all of an answer is good: a part has no header, or its body makes decode throw.
LEMMA GoodIsWhole ==
    ASSUME NEW answer \in Sendable, NEW p \in Came(answer),
           HeaderEnds(p) # {}, BodyGood(BodyOf(p))
    PROVE  answer \in Answers /\ p = Wire(answer) /\ BodyOf(p) = Written(answer)
<1>1. PICK n \in 0 .. Len(Wire(answer)) : p = SubSeq(Wire(answer), 1, n)
  BY DEF Came
<1>2. answer \in Answers
  <2>1. SUFFICES ASSUME answer \notin Answers PROVE FALSE
    OBVIOUS
  <2>2. CASE Wire(answer) \in Garbage
    BY <1>1, <2>2, GarbageAssumption
  <2>3. CASE Wire(answer) = <<>>
    <3>1. p \in Seq(Char) /\ Len(p) = 0
      BY <1>1, <2>3
    <3>2. HeaderEnds(p) = {i \in 1 .. 0 - 1 : p[i] = "N" /\ p[i + 1] = "N"}
      BY <3>1, HeaderFound
    <3>3. HeaderEnds(p) = {}
      BY <3>2
    <3> QED
      BY <3>3
  <2> QED
    BY <2>1, <2>2, <2>3, WireIsText
<1>3. n >= 3 /\ BodyOf(p) = SubSeq(Written(answer), 1, n - 3)
  <2>1. n \in Int
    OBVIOUS
  <2> QED
    BY <1>1, <1>2, <2>1, BodyIs
<1>4. PICK t \in Seq(Char), l \in Nat :
         t = Written(answer) /\ l = Len(t) /\ Len(Wire(answer)) = 3 + l
  BY <1>2, WireFacts
<1>5. ~(n - 3 < l)
  <2>1. SUFFICES ASSUME n - 3 < l PROVE FALSE
    OBVIOUS
  <2>2. n - 3 \in 0 .. l - 1
    BY <1>3, <1>4, <2>1
  <2>3. Threw(Decoder(BodyOf(p)))
    BY <1>2, <1>3, <1>4, <2>2, DecoderFacts
  <2> QED
    BY <2>3 DEF BodyGood, Threw, Returned
<1>6. n - 3 = l /\ n = Len(Wire(answer))
  BY <1>3, <1>4, <1>5
<1> QED
  BY <1>1, <1>2, <1>3, <1>4, <1>6, AllOfIt, WireIsText

\* All of an answer has a body, its text.
LEMMA WholeHasBody ==
    ASSUME NEW answer \in Answers
    PROVE  HeaderEnds(Wire(answer)) # {} /\ BodyOf(Wire(answer)) = Written(answer)
<1>1. PICK w \in Seq(Char), t \in Seq(Char), l \in Nat :
         w = Wire(answer) /\ t = Written(answer) /\ l = Len(t) /\ Len(w) = 3 + l
  BY WireFacts
<1>2. PICK n \in Nat : n = 3 + l /\ n \in 0 .. Len(w) /\ n >= 3 /\ n - 3 = l
  BY <1>1
<1>3. SubSeq(w, 1, n) = w /\ SubSeq(t, 1, l) = t
  BY <1>1, <1>2, AllOfIt
<1>4. HeaderEnds(SubSeq(w, 1, n)) # {} /\ BodyOf(SubSeq(w, 1, n)) = SubSeq(t, 1, n - 3)
  BY <1>1, <1>2, BodyIs
<1> QED
  BY <1>1, <1>2, <1>3, <1>4

\* What announce holds while its next call is the one named by http_step.
Handles ==
    CASE http_step = "called"               -> http_res = "none"  /\ http_fd = "none"
      [] http_step = "socket"               -> http_res = "held"  /\ http_fd = "none"
      [] http_step = "connect"              -> http_res = "held"  /\ http_fd = "open"
      [] http_step \in {"send", "recv"}     -> http_res = "freed" /\ http_fd = "open"
      [] http_step \in {"parse", "looping", "done"} ->
                                              http_res = "freed" /\ http_fd = "closed"
      [] http_step = "failed"               -> http_res # "held"  /\ http_fd # "open"
      [] OTHER                              -> FALSE

Unsent == http_answer = NoAnswer /\ http_text = <<>> /\ ~http_trouble

\* The body is behind the first header of the part that came, which is all of the
\* answer unless there was trouble.
BodyCame ==
    /\ http_answer \in Sendable
    /\ \E p \in Came(http_answer) :
          /\ HeaderEnds(p) # {}
          /\ http_text = BodyOf(p)
          /\ http_trouble = (p # Wire(http_answer))

\* Where the bytes are, by the call that is next.
Progress ==
    /\ http_step \in {"called", "socket", "connect", "send"} => Unsent
    /\ http_step = "recv" =>
          http_answer \in Sendable /\ http_text \in Came(http_answer) /\ ~http_trouble
    /\ http_step \in {"parse", "done"} => BodyCame
    /\ http_step = "done" =>
          BodyGood(http_text) /\ http_response = ResponseOf(Decoder(http_text).val[2])

HttpInv == Handles /\ Progress /\ GoodAnswersTaken

LEMMA HttpInvInit == HttpInit => HttpInv
BY DEF HttpInit, HttpInv, Handles, Progress, Unsent, GoodAnswersTaken

\* A call that fails before anything was sent leaves an answer of no kind.
LEMMA HttpFailsKeeps ==
    ASSUME HttpFails, http_res' # "held", http_fd' # "open"
    PROVE  HttpInv'
BY DEF HttpFails, HttpInv, Handles, Progress, GoodAnswersTaken

LEMMA ResolveKeeps == ASSUME HttpInv, Resolve PROVE HttpInv'
<1>1. http_res = "none" /\ http_fd = "none" /\ Unsent
  BY DEF HttpInv, Handles, Progress, Resolve
<1>2. CASE HttpFails /\ UNCHANGED http_res
  BY <1>1, <1>2, HttpFailsKeeps DEF Resolve
<1>3. CASE Proceeds("socket") /\ http_res' = "held"
  BY <1>1, <1>3 DEF Resolve, Proceeds, HttpInv, Handles, Progress, Unsent, GoodAnswersTaken
<1> QED
  BY <1>2, <1>3 DEF Resolve

LEMMA OpenSocketKeeps == ASSUME HttpInv, OpenSocket PROVE HttpInv'
<1>1. http_res = "held" /\ http_fd = "none" /\ Unsent
  BY DEF HttpInv, Handles, Progress, OpenSocket
<1>2. CASE HttpFails /\ http_res' = "freed" /\ UNCHANGED http_fd
  BY <1>1, <1>2, HttpFailsKeeps
<1>3. CASE Proceeds("connect") /\ http_fd' = "open" /\ UNCHANGED http_res
  BY <1>1, <1>3 DEF Proceeds, HttpInv, Handles, Progress, Unsent, GoodAnswersTaken
<1> QED
  BY <1>2, <1>3 DEF OpenSocket

LEMMA ConnectHttpKeeps == ASSUME HttpInv, ConnectHttp PROVE HttpInv'
<1>1. http_fd = "open" /\ Unsent /\ http_res' = "freed"
  BY DEF HttpInv, Handles, Progress, ConnectHttp
<1>2. CASE HttpFails /\ http_fd' = "closed"
  BY <1>1, <1>2, HttpFailsKeeps
<1>3. CASE Proceeds("send") /\ UNCHANGED http_fd
  BY <1>1, <1>3 DEF Proceeds, HttpInv, Handles, Progress, Unsent, GoodAnswersTaken
<1> QED
  BY <1>2, <1>3 DEF ConnectHttp

\* Nothing of the answer has come when it is sent.
LEMMA SendRequestKeeps == ASSUME HttpInv, SendRequest PROVE HttpInv'
<1>1. http_res = "freed" /\ http_fd = "open" /\ Unsent /\ UNCHANGED http_res
  BY DEF HttpInv, Handles, Progress, SendRequest
<1>2. CASE HttpFails /\ http_fd' = "closed"
  BY <1>1, <1>2, HttpFailsKeeps
<1>3. CASE /\ http_step' = "recv" /\ http_answer' \in Sendable
           /\ UNCHANGED <<http_fd, http_text, http_trouble, http_response>>
  <2>1. http_text' \in Came(http_answer')
    BY <1>1, <1>3, CameFacts DEF Unsent
  <2> QED
    BY <1>1, <1>3, <2>1 DEF HttpInv, Handles, Progress, Unsent, GoodAnswersTaken
<1> QED
  BY <1>2, <1>3 DEF SendRequest, Sendable

\* What recv adds are the bytes that follow.
LEMMA RecvSomeKeeps == ASSUME HttpInv, RecvSome PROVE HttpInv'
<1>1. /\ http_res = "freed" /\ http_fd = "open" /\ ~http_trouble /\ http_step = "recv"
      /\ http_answer \in Sendable /\ http_text \in Came(http_answer)
  BY DEF HttpInv, Handles, Progress, RecvSome
<1>2. http_text' \in Came(http_answer)
  <2>1. PICK n \in 1 .. Buffer :
           /\ Len(http_text) + n <= Len(Wire(http_answer))
           /\ http_text' = SubSeq(Wire(http_answer), 1, Len(http_text) + n)
    BY DEF RecvSome
  <2>2. PICK h \in Nat, l \in Nat : h = Len(http_text) /\ l = Len(Wire(http_answer))
    BY <1>1, CameFacts
  <2>3. h + n \in 0 .. l
    BY <2>1, <2>2, HttpAssumption
  <2> QED
    BY <2>1, <2>2, <2>3 DEF Came
<1>3. UNCHANGED <<http_step, http_res, http_fd, http_answer, http_trouble, http_response>>
  BY DEF RecvSome
<1> QED
  BY <1>1, <1>2, <1>3 DEF HttpInv, Handles, Progress, GoodAnswersTaken

\* An answer all of which came is not without a header: what fails then is none.
LEMMA RecvEndsKeeps == ASSUME HttpInv, RecvEnds PROVE HttpInv'
<1>1. /\ http_res = "freed" /\ http_answer \in Sendable /\ http_text \in Came(http_answer)
      /\ http_fd' = "closed" /\ http_trouble' = (http_text # Wire(http_answer))
      /\ UNCHANGED <<http_res, http_answer, http_response>>
  BY DEF HttpInv, Handles, Progress, RecvEnds
<1>2. CASE HeaderEnds(http_text) = {} /\ http_step' = "failed" /\ UNCHANGED http_text
  <2>1. ~http_trouble' => http_answer \notin Answers
    BY <1>1, <1>2, WholeHasBody
  <2>2. http_answer \notin Answers => http_answer[1] \in {"garbage", "trickle"}
    BY <1>1, WireIsText
  <2>3. GoodAnswersTaken'
    BY <1>1, <2>1, <2>2 DEF GoodAnswersTaken
  <2> QED
    BY <1>1, <1>2, <2>3 DEF HttpInv, Handles, Progress
<1>3. CASE /\ HeaderEnds(http_text) # {} /\ http_step' = "parse"
           /\ http_text' = BodyOf(http_text)
  <2>1. BodyCame'
    BY <1>1, <1>3 DEF BodyCame
  <2> QED
    BY <1>1, <1>3, <2>1 DEF HttpInv, Handles, Progress, GoodAnswersTaken
<1> QED
  BY <1>2, <1>3 DEF RecvEnds

\* What is turned away without trouble is the body of all of an answer: no dict, or a
\* dict with a field that is not good.
LEMMA ParseResponseKeeps == ASSUME HttpInv, ParseResponse PROVE HttpInv'
<1>1. /\ http_res = "freed" /\ http_fd = "closed" /\ BodyCame
      /\ UNCHANGED <<http_res, http_fd, http_answer, http_text, http_trouble>>
  BY DEF HttpInv, Handles, Progress, ParseResponse
<1>2. CASE ~BodyGood(http_text)
  <2>1. GoodAnswersTaken'
    <3>1. SUFFICES ASSUME ~http_trouble, http_answer \in Answers, http_answer[1] = "dict"
                   PROVE  ~ResponseGood(Meant(http_answer)[2])
      <4>1. http_answer \notin Answers => http_answer[1] \in {"garbage", "trickle"}
        BY <1>1, WireIsText DEF BodyCame
      <4> QED
        BY <1>1, <4>1 DEF GoodAnswersTaken
    <3>2. http_text = Written(http_answer)
      BY <1>1, <3>1, WholeHasBody DEF BodyCame
    <3>3. /\ Returned(Decoder(http_text)) /\ Decoder(http_text).val = Meant(http_answer)
          /\ Meant(http_answer)[1] = "dict"
      BY <3>1, <3>2, DecoderFacts
    <3> QED
      BY <1>2, <3>3 DEF BodyGood
  <2>2. http_step' \in {"looping", "failed"}
    BY <1>2 DEF ParseResponse
  <2> QED
    BY <1>1, <2>1, <2>2 DEF HttpInv, Handles, Progress
<1>3. CASE BodyGood(http_text)
  <2>1. BodyCame'
    BY <1>1 DEF BodyCame
  <2>2. Decoder(http_text) # Endless
    BY <1>3 DEF BodyGood, Returned, Endless
  <2>3. http_step' = "done" /\ http_response' = ResponseOf(Decoder(http_text).val[2])
    BY <1>3, <2>2 DEF ParseResponse
  <2> QED
    BY <1>1, <1>3, <2>1, <2>3 DEF HttpInv, Handles, Progress, GoodAnswersTaken
<1> QED
  BY <1>2, <1>3

LEMMA HttpInvStep == ASSUME HttpInv, HttpNext PROVE HttpInv'
BY ResolveKeeps, OpenSocketKeeps, ConnectHttpKeeps, SendRequestKeeps, RecvSomeKeeps,
   RecvEndsKeeps, ParseResponseKeeps DEF HttpNext, HttpGet

\* A response is made of all of one of the tracker's answers, and of what it means.
LEMMA HttpInvWhole == HttpInv => WholeAnswerOnly
<1> SUFFICES ASSUME HttpInv, http_step = "done" PROVE WholeAnswerOnly
  BY DEF WholeAnswerOnly
<1>1. /\ http_answer \in Sendable /\ BodyGood(http_text)
      /\ http_response = ResponseOf(Decoder(http_text).val[2])
  BY DEF HttpInv, Progress, BodyCame
<1>2. PICK p \in Came(http_answer) :
         /\ HeaderEnds(p) # {} /\ http_text = BodyOf(p)
         /\ http_trouble = (p # Wire(http_answer))
  BY DEF HttpInv, Progress, BodyCame
<1>3. http_answer \in Answers /\ p = Wire(http_answer) /\ http_text = Written(http_answer)
  BY <1>1, <1>2, GoodIsWhole
<1>4. Decoder(http_text).val = Meant(http_answer)
  BY <1>3, DecoderFacts
<1> QED
  BY <1>1, <1>2, <1>3, <1>4 DEF WholeAnswerOnly

-----------------------------------------------------------------------------
\* One tier.

TierTypeOK ==
    /\ tier \in TierOrders
    /\ turn \in 1 .. Len(tier)
    /\ ended \in Seq(Phase)
    /\ outcome \in {"trying", "peers", "nothing"}

TierInv == TierTypeOK /\ UdpInv /\ HttpInv /\ FirstAcceptanceCounts

LEMMA OrderFacts == ASSUME NEW order \in TierOrders PROVE Len(order) \in Nat \ {0}
BY TierAssumption

\* Each announce begins as the first one does, and its invariants with it.
LEMMA NewAnnounceKeeps == ASSUME NewAnnounce PROVE UdpInv' /\ HttpInv'
<1>1. Init' /\ HttpInit'
  BY DEF NewAnnounce, Init, HttpInit
<1>2. Init' => UdpInv'
  BY UdpInvInit, PTL
<1>3. HttpInit' => HttpInv'
  BY HttpInvInit, PTL
<1> QED
  BY <1>1, <1>2, <1>3

LEMMA HttpRests == ASSUME HttpInv, UNCHANGED httpVars PROVE HttpInv'
BY DEF httpVars, HttpInv, Handles, Progress, Unsent, BodyCame, GoodAnswersTaken

LEMMA TierInvInit == TierInit => TierInv
<1> SUFFICES ASSUME TierInit PROVE TierInv
  OBVIOUS
<1>1. UdpInv /\ HttpInv
  BY UdpInvInit, HttpInvInit DEF TierInit
<1>2. TierTypeOK
  BY OrderFacts DEF TierInit, TierTypeOK
<1>3. FirstAcceptanceCounts
  BY DEF TierInit, FirstAcceptanceCounts
<1> QED
  BY <1>1, <1>2, <1>3 DEF TierInv

\* An announce under way has no say in how the call ends.
LEMMA TurnKeeps ==
    ASSUME TierTypeOK, FirstAcceptanceCounts, outcome = "trying", UNCHANGED tierOnly
    PROVE  TierTypeOK' /\ FirstAcceptanceCounts'
BY DEF tierOnly, TierTypeOK, FirstAcceptanceCounts

LEMMA UdpTurnKeeps == ASSUME TierInv, UdpTurn PROVE TierInv'
<1>1. UdpInv'
  BY UdpInvStep DEF TierInv, UdpTurn
<1>2. outcome = "trying" /\ UNCHANGED <<httpVars, tierOnly>>
  BY DEF UdpTurn, Asked
<1> QED
  BY <1>1, <1>2, HttpRests, TurnKeeps DEF TierInv

LEMMA HttpTurnKeeps == ASSUME TierInv, HttpTurn PROVE TierInv'
<1>1. HttpInv'
  BY HttpInvStep DEF TierInv, HttpTurn
<1>2. outcome = "trying" /\ UNCHANGED <<vars, tierOnly>>
  BY DEF HttpTurn, Asked
<1>3. UdpInv'
  BY <1>2, UdpInvStep DEF TierInv
<1> QED
  BY <1>1, <1>2, <1>3, TurnKeeps DEF TierInv

\* What is accepted was given by the tracker whose turn it is, in this announce.
LEMMA ReturnKeeps == ASSUME TierInv, Return PROVE TierInv'
<1>1. /\ outcome = "trying" /\ outcome' = "peers"
      /\ UNCHANGED <<vars, httpVars, tier, turn, ended>>
  BY DEF Return, Accepted, Asked
<1>2. \/ tier[turn] = "udp" /\ answered
      \/ tier[turn] = "http" /\ http_answer \in Answers
  BY HttpInvWhole DEF TierInv, Return, Accepted, Asked, UdpInv, ResultIsTheTrackers,
                      WholeAnswerOnly
<1>3. UdpInv' /\ HttpInv'
  BY <1>1, UdpInvStep, HttpRests DEF TierInv
<1>4. TierTypeOK'
  BY <1>1 DEF TierInv, TierTypeOK
<1>5. FirstAcceptanceCounts'
  <2>1. /\ \A i \in DOMAIN ended' : ended'[i] = "failed"
        /\ Len(ended') = turn' - 1
    BY <1>1 DEF TierInv, FirstAcceptanceCounts
  <2>2. CASE tier[turn] = "udp" /\ answered
    BY <1>1, <2>1, <2>2 DEF FirstAcceptanceCounts, vars
  <2>3. CASE tier[turn] = "http" /\ http_answer \in Answers
    BY <1>1, <2>1, <2>3 DEF FirstAcceptanceCounts, httpVars
  <2> QED
    BY <1>2, <2>2, <2>3
<1> QED
  BY <1>3, <1>4, <1>5 DEF TierInv

\* A tracker that threw has failed, and is one of those in front of the next one.
LEMMA CatchKeeps == ASSUME TierInv, Catch PROVE TierInv'
<1>1. UdpInv' /\ HttpInv'
  BY NewAnnounceKeeps DEF Catch
<1>2. outcome = "trying" /\ Ending = "failed" /\ tier' = tier /\ ended' = Append(ended, "failed")
  BY DEF Catch, CallThrew, Asked, Ending
<1>3. tier \in TierOrders /\ turn \in 1 .. Len(tier) /\ Len(tier) \in Nat /\ ended \in Seq(Phase)
  BY OrderFacts DEF TierInv, TierTypeOK
<1>4. /\ ended' \in Seq(Phase) /\ Len(ended') = turn
      /\ \A i \in DOMAIN ended' : ended'[i] = "failed"
  <2>1. Len(ended) = turn - 1 /\ \A i \in DOMAIN ended : ended[i] = "failed"
    BY <1>2 DEF TierInv, FirstAcceptanceCounts
  <2>2. "failed" \in Phase
    BY DEF Phase
  <2> QED
    BY <1>2, <1>3, <2>1, <2>2
<1>5. CASE turn < Len(tier) /\ turn' = turn + 1 /\ UNCHANGED outcome
  BY <1>1, <1>2, <1>3, <1>4, <1>5 DEF TierInv, TierTypeOK, FirstAcceptanceCounts
<1>6. CASE ~(turn < Len(tier)) /\ outcome' = "nothing" /\ UNCHANGED turn
  BY <1>1, <1>2, <1>3, <1>4, <1>6 DEF TierInv, TierTypeOK, FirstAcceptanceCounts
<1> QED
  BY <1>5, <1>6 DEF Catch

LEMMA TierInvStep == TierInv /\ [TierNext]_tierVars => TierInv'
<1> SUFFICES ASSUME TierInv, [TierNext]_tierVars PROVE TierInv'
  OBVIOUS
<1>1. CASE TierNext
  BY <1>1, UdpTurnKeeps, HttpTurnKeeps, ReturnKeeps, CatchKeeps DEF TierNext
<1>2. CASE UNCHANGED tierVars
  <2>1. UNCHANGED <<vars, httpVars, tierOnly>>
    BY <1>2 DEF tierVars
  <2>2. UdpInv' /\ HttpInv'
    BY <2>1, UdpInvStep, HttpRests DEF TierInv
  <2> QED
    BY <2>1, <2>2 DEF TierInv, vars, httpVars, tierOnly, TierTypeOK, FirstAcceptanceCounts
<1> QED
  BY <1>1, <1>2

LEMMA TierInvHolds == TierSpec => []TierInv
BY TierInvInit, TierInvStep, PTL DEF TierSpec

\* Failover, for every sequence of schemes, each as often as one likes, and whatever the
\* networks and the trackers do: the announces to those in front have failed one by one,
\* and peers are what a tracker sent in answer to the announce to it (try_tier).
THEOREM FirstAcceptanceAlwaysCounts == TierSpec => []FirstAcceptanceCounts
<1>1. TierInv => FirstAcceptanceCounts
  BY DEF TierInv
<1> QED
  BY <1>1, TierInvHolds, PTL

\* An HTTP response is made of all of an answer, for every set of answers, however
\* their bytes were cut and wherever they ended (http_get, parse_response).
THEOREM AnswersAreWhole == TierSpec => []WholeAnswerOnly
<1>1. TierInv => WholeAnswerOnly
  BY HttpInvWhole DEF TierInv
<1> QED
  BY <1>1, TierInvHolds, PTL

\* No dict with good fields that arrived whole is turned away.
THEOREM GoodAnswersAreTaken == TierSpec => []GoodAnswersTaken
<1>1. TierInv => GoodAnswersTaken
  BY DEF TierInv, HttpInv
<1> QED
  BY <1>1, TierInvHolds, PTL

\* Neither the addresses nor the socket outlive http_get, whichever call failed.
THEOREM NothingStaysHeld == TierSpec => []NothingHeld
<1>1. TierInv => NothingHeld
  BY DEF TierInv, HttpInv, Handles, NothingHeld
<1> QED
  BY <1>1, TierInvHolds, PTL

\* Each UDP tracker of a tier keeps the call for its timeouts and no longer, wherever in
\* the tier it is and however many there are.
THEOREM TierWaitIsBounded == TierSpec => []BoundedWait
<1>1. TierInv => BoundedWait
  BY DEF TierInv, UdpInv, Spent, BoundedWait
<1> QED
  BY <1>1, TierInvHolds, PTL

\* ... and gives the tier nothing but what its tracker accepted.
THEOREM TierResultsAreTheTrackers == TierSpec => []ResultIsTheTrackers
<1>1. TierInv => ResultIsTheTrackers
  BY DEF TierInv, UdpInv
<1> QED
  BY <1>1, TierInvHolds, PTL
=============================================================================
