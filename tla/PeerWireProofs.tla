----------------------------- MODULE PeerWireProofs -----------------------------
(***************************************************************************)
(* The interest of a connection in POLLOUT, for every size of message,     *)
(* buffer and peer: the two sides of "is there something to send", the     *)
(* write buffer of the connection and the poll set of the loop, never      *)
(* disagree.  Then the types, that the parse loop leaves no message        *)
(* behind, and that the messages handled are those the peer sent.          *)
(***************************************************************************)
EXTENDS PeerWire, TLAPS

\* What the proofs need of the types.
WireTypes ==
    /\ state \in ConnectionState
    /\ write_buffer \in Nat
    /\ room \in Nat
    /\ dirty \in BOOLEAN

\* A closed connection has no entry, and the thread is not in its handler.
ClosedIsIdle == state = "Disconnected" => registered = {} /\ pc = "poll"

\* The inductive invariant.  A handler would register a closed connection again;
\* none runs, because poll reports nothing for an entry that was removed: that is
\* ClosedIsIdle, and it rests on PollSetCurrent.
Interest == WireTypes /\ WriteInterest /\ PollSetCurrent /\ ClosedIsIdle

\* send takes no more than there is and no more than there is room for.
LEMMA AcceptedBounded ==
    ASSUME write_buffer \in Nat, room \in Nat
    PROVE  /\ Accepted \in Nat
           /\ write_buffer - Accepted \in Nat
           /\ room - Accepted \in Nat
BY DEF Accepted, Lesser

\* disconnect() removes the entry: nothing is asked of a closed connection.
LEMMA DisconnectInterest == ASSUME Interest, Disconnect PROVE Interest'
BY DEF Interest, WireTypes, WriteInterest, PollSetCurrent, ClosedIsIdle, Disconnect,
       ConnectionState, peervars

LEMMA PollInterest == ASSUME Interest, Poll PROVE Interest'
BY DEF Interest, WireTypes, WriteInterest, PollSetCurrent, ClosedIsIdle, Poll, connvars, peervars

\* The write buffer shrinks, and POLLOUT goes with its last byte.
LEMMA HandleWriteInterest == ASSUME Interest, HandleWrite PROVE Interest'
<1> USE DEF Interest, WireTypes, WriteInterest, PollSetCurrent, ClosedIsIdle
<1>1. state # "Disconnected"
  BY DEF HandleWrite
<1>2. CASE UNCHANGED <<registered, pollfds, dirty, state, write_buffer, room>>
  BY <1>1, <1>2
<1>3. CASE Disconnect
  BY <1>3, DisconnectInterest
<1>4. CASE /\ write_buffer' = write_buffer - Accepted
           /\ room' = room - Accepted
           /\ AfterSend(write_buffer - Accepted)
           /\ UNCHANGED <<pollfds, state>>
  <2>1. write_buffer' \in Nat /\ room' \in Nat
    BY <1>4, AcceptedBounded
  <2>2. CASE write_buffer' = 0
    <3>1. write_buffer - Accepted = 0 /\ ~(write_buffer' > 0)
      BY <1>4, <2>2
    <3>2. registered' = {"POLLIN"} /\ dirty' = TRUE
      BY <1>4, <3>1 DEF AfterSend, Modify
    <3> QED
      BY <1>1, <1>4, <2>1, <3>1, <3>2
  <2>3. CASE write_buffer' # 0
    <3>1. write_buffer > 0 /\ write_buffer' > 0
      BY <1>4, <2>1, <2>3, AcceptedBounded
    <3> QED
      BY <1>1, <1>4, <2>1, <2>3, <3>1 DEF AfterSend
  <2> QED
    BY <2>2, <2>3
<1> QED
  BY <1>2, <1>3, <1>4 DEF HandleWrite, connvars, peervars

\* Reading changes neither the write buffer nor the entry, unless it ends the
\* connection.
LEMMA HandleReadInterest == ASSUME Interest, HandleRead PROVE Interest'
<1> USE DEF Interest, WireTypes, WriteInterest, PollSetCurrent, ClosedIsIdle
<1>1. CASE Disconnect
  BY <1>1, DisconnectInterest
<1>2. CASE UNCHANGED <<registered, pollfds, dirty, state, write_buffer, room>>
  BY <1>2 DEF HandleRead
<1> QED
  BY <1>1, <1>2 DEF HandleRead, connvars, peervars

LEMMA ProcessHandshakeInterest == ASSUME Interest, ProcessHandshake PROVE Interest'
<1> USE DEF Interest, WireTypes, WriteInterest, PollSetCurrent, ClosedIsIdle
<1>1. state # "Disconnected"
  BY DEF ProcessHandshake
<1>2. CASE Disconnect
  BY <1>2, DisconnectInterest
<1>3. CASE /\ UNCHANGED <<registered, pollfds, dirty, write_buffer, room>>
           /\ state' = state \/ state' = "Connected"
  BY <1>1, <1>3 DEF ConnectionState
<1> QED
  BY <1>2, <1>3 DEF ProcessHandshake, connvars, peervars

\* The handler queues any number of replies; POLLOUT comes with the first byte.
LEMMA ParseMessageInterest == ASSUME Interest, ParseMessage PROVE Interest'
<1> USE DEF Interest, WireTypes, WriteInterest, PollSetCurrent, ClosedIsIdle
<1>1. state # "Disconnected"
  BY DEF ParseMessage
<1>2. CASE UNCHANGED <<registered, pollfds, dirty, state, write_buffer, room>>
  BY <1>1, <1>2
<1>3. ASSUME NEW n \in 0 .. MaxReplies, QueueMessages(n),
             UNCHANGED <<pollfds, state, room>>
      PROVE  Interest'
  <2>1. n \in Nat /\ MsgSize \in Nat \ {0} /\ write_buffer \in Nat
    BY WireAssumption
  <2>2. CASE n = 0
    <3>1. n * MsgSize = 0
      BY <2>1, <2>2
    <3> QED
      BY <1>1, <1>3, <2>1, <2>2, <3>1 DEF QueueMessages
  <2>3. CASE n > 0
    <3>1. n * MsgSize \in Nat /\ n * MsgSize > 0
      BY <2>1, <2>3
    <3>2. write_buffer' \in Nat /\ write_buffer' > 0
      BY <1>3, <2>1, <3>1 DEF QueueMessages
    <3> QED
      BY <1>1, <1>3, <2>3, <3>2 DEF QueueMessages, Modify
  <2> QED
    BY <2>1, <2>2, <2>3
<1> QED
  BY <1>2, <1>3 DEF ParseMessage, connvars, peervars

LEMMA NetworkInterest == ASSUME Interest, Network PROVE Interest'
<1>1. room' \in Nat
  BY WireAssumption
     DEF Network, PeerSends, Arrive, MakeRoom, Close, Reset, Interest, WireTypes
<1> QED
  BY <1>1 DEF Network, Interest, WireTypes, WriteInterest, PollSetCurrent,
              ClosedIsIdle, loopvars, connvars

LEMMA InterestInit == Init => Interest
<1> SUFFICES ASSUME Init PROVE Interest
  OBVIOUS
<1>1. write_buffer \in Nat /\ write_buffer > 0
  BY ScriptAssumption DEF Init, HandshakeSize
<1> QED
  BY <1>1 DEF Init, Interest, WireTypes, WriteInterest, PollSetCurrent,
              ClosedIsIdle, ConnectionState

LEMMA InterestNext == Interest /\ [Next]_vars => Interest'
<1> SUFFICES ASSUME Interest, [Next]_vars PROVE Interest'
  OBVIOUS
<1>1. CASE Loop
  BY <1>1, PollInterest, HandleWriteInterest, HandleReadInterest,
     ProcessHandshakeInterest, ParseMessageInterest DEF Loop
<1>2. CASE Network
  BY <1>2, NetworkInterest
<1>3. CASE UNCHANGED vars
  BY <1>3 DEF Interest, WireTypes, WriteInterest, PollSetCurrent, ClosedIsIdle,
              vars, loopvars, connvars, peervars
<1> QED
  BY <1>1, <1>2, <1>3 DEF Next

\* The strengthening that WriteInterest and PollSetCurrent need.
THEOREM InterestHolds == Spec => []Interest
BY InterestInit, InterestNext, PTL DEF Spec

\* An open connection asks the loop for POLLOUT exactly while its write buffer
\* holds something (PeerConnection::queue_message, handle_write).
THEOREM InterestIsRight == Spec => []WriteInterest
BY InterestHolds, PTL DEF Interest

\* poll never waits with a stale set of events (EventLoop::modify, remove,
\* rebuild_pollfds).
THEOREM PollSetIsCurrent == Spec => []PollSetCurrent
BY InterestHolds, PTL DEF Interest

-----------------------------------------------------------------------------
\* Numbers in Base.

LEMMA MulMono == ASSUME NEW m \in Nat, NEW n \in Nat, NEW b \in Nat, m <= n PROVE m * b <= n * b
<1> DEFINE d == n - m
<1>1. d \in Nat /\ n = m + d
  OBVIOUS
<1>2. d * b \in Nat /\ m * b \in Nat /\ n * b = m * b + d * b
  BY <1>1
<1> QED
  BY <1>2

\* Division with rest.
LEMMA Quotient ==
    ASSUME NEW a \in Nat, NEW b \in Nat \ {0}
    PROVE  /\ a \div b \in Nat /\ a % b \in Nat /\ a % b < b
           /\ a = (a \div b) * b + (a % b)
OBVIOUS

\* A number has one quotient only.
LEMMA QuotientIs ==
    ASSUME NEW a \in Nat, NEW b \in Nat \ {0}, NEW q \in Nat, q * b <= a, a < q * b + b
    PROVE  a \div b = q
<1> DEFINE p == a \div b
<1>1. p \in Nat /\ p * b <= a /\ a < p * b + b
  BY Quotient
<1> HIDE DEF p
<1>2. ASSUME NEW m \in Nat, NEW n \in Nat, m < n, n * b <= a, a < m * b + b PROVE FALSE
  <2>1. (m + 1) * b <= n * b
    BY <1>2, MulMono
  <2>2. (m + 1) * b = m * b + b
    OBVIOUS
  <2> QED
    BY <1>2, <2>1, <2>2
<1>3. ~(p < q) /\ ~(q < p)
  BY <1>1, <1>2
<1> QED
  BY <1>1, <1>3 DEF p

LEMMA QuotientOfQuotient ==
    ASSUME NEW a \in Nat, NEW b \in Nat \ {0}, NEW c \in Nat \ {0}
    PROVE  b * c \in Nat \ {0} /\ (a \div b) \div c = a \div (b * c)
<1> DEFINE q == a \div b
           p == q \div c
<1>1. q \in Nat /\ q * b <= a /\ a < q * b + b
  BY Quotient
<1> HIDE DEF q
<1>2. p \in Nat /\ p * c <= q /\ q < p * c + c
  BY <1>1, Quotient
<1> HIDE DEF p
<1>3. p * c \in Nat /\ b * c \in Nat /\ b * c > 0
  BY <1>2
<1>4. (p * c) * b <= q * b
  BY <1>1, <1>2, <1>3, MulMono
<1>5. (q + 1) * b <= (p * c + c) * b
  BY <1>1, <1>2, <1>3, MulMono
<1>6. (q + 1) * b = q * b + b /\ q * b \in Nat
  BY <1>1
<1>7. (p * c + c) * b = (p * c) * b + c * b /\ (p * c) * b \in Nat /\ c * b \in Nat
  BY <1>3
<1>8. (p * c) * b = p * (b * c) /\ c * b = b * c
  BY <1>2
<1>9. p * (b * c) <= a /\ a < p * (b * c) + b * c
  BY <1>1, <1>3, <1>4, <1>5, <1>6, <1>7, <1>8
<1>10. a \div (b * c) = p
  BY <1>2, <1>3, <1>9, QuotientIs
<1> QED
  BY <1>3, <1>10 DEF p, q

\* The value of one in each place of a prefix.
LEMMA Units ==
    /\ Base \in Nat \ {0} /\ Base * Base \in Nat \ {0} /\ Base * Base * Base \in Nat \ {0}
    /\ Word \in Nat \ {0} /\ Word = (Base * Base * Base) * Base
BY WireAssumption DEF Word

LEMMA PrefixIsBytes ==
    ASSUME NEW n \in Nat
    PROVE  Prefix(n) \in Seq(Byte) /\ Len(Prefix(n)) = 4
<1>1. ASSUME NEW unit \in Nat \ {0} PROVE ByteOf(n, unit) \in Byte
  <2>1. n \div unit \in Nat
    BY Quotient
  <2> QED
    BY <2>1, Units, Quotient DEF ByteOf, Byte
<1>2. /\ ByteOf(n, Base * Base * Base) \in Byte /\ ByteOf(n, Base * Base) \in Byte
      /\ ByteOf(n, Base) \in Byte /\ ByteOf(n, 1) \in Byte
  BY <1>1, Units
<1> QED
  BY <1>2 DEF Prefix

\* read_u32 undoes write_u32.
LEMMA PrefixReads ==
    ASSUME NEW n \in Nat, n < Word, NEW b,
           b[1] = Prefix(n)[1], b[2] = Prefix(n)[2], b[3] = Prefix(n)[3], b[4] = Prefix(n)[4]
    PROVE  ReadLength(b) = n
<1> DEFINE two   == Base * Base
           three == Base * Base * Base
           p     == n \div Base
           q     == n \div two
           r     == n \div three
<1>1. Base \in Nat \ {0} /\ two \in Nat \ {0} /\ three \in Nat \ {0} /\ Word = three * Base
      /\ three = two * Base
  BY Units
<1>a. \A x \in Nat, y \in Nat \ {0}, z \in Nat \ {0} : (x \div y) \div z = x \div (y * z)
  BY QuotientOfQuotient
<1>2. p \in Nat /\ n % Base \in Nat /\ n = p * Base + (n % Base)
  BY <1>1, Quotient
<1>3. q = p \div Base
  <2>1. (n \div Base) \div Base = n \div (Base * Base)
    BY <1>1, <1>a, Zenon
  <2> QED
    BY <2>1, Zenon
<1>4. q \in Nat /\ p % Base \in Nat /\ p = q * Base + (p % Base)
  BY <1>1, <1>2, <1>3, Quotient
<1>5. r = q \div Base
  <2>1. (n \div two) \div Base = n \div (two * Base)
    <3> HIDE DEF two, three
    <3> QED
      BY <1>1, <1>a, Zenon
  <2> HIDE DEF two, three
  <2> QED
    BY <1>1, <2>1, Zenon DEF q, r
<1>6. r \in Nat /\ q % Base \in Nat /\ q = r * Base + (q % Base)
  BY <1>1, <1>4, <1>5, Quotient
<1>7. r \div Base = n \div Word
  <2>1. (n \div three) \div Base = n \div (three * Base)
    <3> HIDE DEF two, three
    <3> QED
      BY <1>1, <1>a, Zenon
  <2> HIDE DEF two, three
  <2> QED
    BY <1>1, <2>1, Zenon DEF r
<1>8. n \div Word = 0
  BY Units
<1>9. r % Base = r
  <2>1. r = (r \div Base) * Base + (r % Base) /\ r % Base \in Nat
    BY <1>1, <1>6, Quotient
  <2>2. r \div Base = 0
    BY <1>7, <1>8
  <2> QED
    BY <1>1, <2>1, <2>2
<1>10. n \div 1 = n
  OBVIOUS
<1>11. /\ b[1] = r % Base /\ b[2] = q % Base /\ b[3] = p % Base /\ b[4] = n % Base
  BY <1>10 DEF Prefix, ByteOf
<1> HIDE DEF p, q, r, two, three
<1>12. ASSUME NEW x \in Nat, NEW y \in Nat, NEW z \in Nat, NEW w \in Nat,
              q = x * Base + y, p = q * Base + z, n = p * Base + w
       PROVE  n = x * three + y * two + z * Base + w
  <2>1. q * Base = x * two + y * Base
    BY <1>1, <1>4, <1>12 DEF two
  <2>2. p * Base = x * three + y * two + z * Base
    <3>1. p * Base = (x * two + y * Base + z) * Base
      BY <1>12, <2>1
    <3>2. (x * two) * Base = x * three /\ (y * Base) * Base = y * two
      BY <1>1 DEF two
    <3>3. x * two \in Nat /\ y * Base \in Nat
      BY <1>1
    <3> QED
      BY <1>1, <3>1, <3>2, <3>3
  <2> QED
    BY <1>12, <2>2
<1>13. n = r * three + (q % Base) * two + (p % Base) * Base + (n % Base)
  BY <1>2, <1>4, <1>6, <1>12
<1> QED
  BY <1>9, <1>11, <1>13 DEF ReadLength, two, three

-----------------------------------------------------------------------------
\* Type correctness: what is still to come is a sequence of bytes, no shorter than
\* what recv could return of it.
StreamInv == script \in PeerScript /\ inflight \in Seq(Byte)
WireInv   == WireTypeOK /\ StreamInv

\* Two sequences, one behind the other.
LEMMA ConcatFacts ==
    ASSUME NEW S, NEW s \in Seq(S), NEW t \in Seq(S)
    PROVE  /\ s \o t \in Seq(S) /\ Len(s \o t) = Len(s) + Len(t)
           /\ \A i \in 1 .. Len(s) : (s \o t)[i] = s[i]
           /\ \A i \in 1 .. Len(t) : (s \o t)[Len(s) + i] = t[i]
OBVIOUS

\* A message of a peer's script, and its bytes.
LEMMA MessageFacts ==
    ASSUME script \in PeerScript, NEW k \in 1 .. Len(script.messages)
    PROVE  LET m == script.messages[k]
           IN  /\ m \in Seq(Byte) /\ Len(m) \in Nat /\ HeaderSize + Len(m) < Word
               /\ Serialize(m) \in Seq(Byte) /\ Len(Serialize(m)) = HeaderSize + Len(m)
               /\ \A i \in 1 .. 4 : Serialize(m)[i] = Prefix(Len(m))[i]
               /\ \A i \in 1 .. Len(m) : Serialize(m)[HeaderSize + i] = m[i]
<1> DEFINE m == script.messages[k]
<1>1. script.messages \in Scripts
  BY DEF PeerScript
<1>2. script.messages \in Seq(Seq(Byte)) /\ k \in DOMAIN script.messages
  BY <1>1, ScriptAssumption
<1>3. m \in Seq(Byte) /\ Len(m) \in Nat
  BY <1>2
<1>4. HeaderSize + Len(m) < Word
  BY <1>1, <1>2, ScriptAssumption
<1> HIDE DEF m
<1>5. Prefix(Len(m)) \in Seq(Byte) /\ Len(Prefix(Len(m))) = 4
  BY <1>3, PrefixIsBytes
<1>6. PICK pre \in Seq(Byte) : pre = Prefix(Len(m))
  BY <1>5
<1>7. /\ pre \o m \in Seq(Byte) /\ Len(pre \o m) = 4 + Len(m)
      /\ \A i \in 1 .. 4 : (pre \o m)[i] = pre[i]
      /\ \A i \in 1 .. Len(m) : (pre \o m)[4 + i] = m[i]
  <2>1. Len(pre) = 4 /\ Len(m) \in Nat
    BY <1>3, <1>5, <1>6
  <2>2. m \in Seq(Byte)
    BY <1>3
  <2>3. /\ pre \o m \in Seq(Byte) /\ Len(pre \o m) = Len(pre) + Len(m)
        /\ \A i \in 1 .. Len(pre) : (pre \o m)[i] = pre[i]
        /\ \A i \in 1 .. Len(m) : (pre \o m)[Len(pre) + i] = m[i]
    BY <2>2, ConcatFacts
  <2> QED
    BY <2>1, <2>3
<1>8. Serialize(m) = pre \o m
  BY <1>6 DEF Serialize
<1> QED
  BY <1>3, <1>4, <1>6, <1>7, <1>8 DEF HeaderSize, m

\* What is left of a sequence behind its first n elements.
LEMMA DropFacts ==
    ASSUME NEW S, NEW s \in Seq(S), NEW n \in 0 .. Len(s)
    PROVE  /\ Drop(s, n) \in Seq(S) /\ Len(Drop(s, n)) = Len(s) - n
           /\ \A i \in 1 .. Len(s) - n : Drop(s, n)[i] = s[n + i]
<1>1. Len(s) \in Nat /\ n \in Nat /\ n <= Len(s)
  OBVIOUS
<1>2. \A i \in n + 1 .. Len(s) : s[i] \in S
  BY <1>1
<1>3. /\ SubSeq(s, n + 1, Len(s)) \in Seq(S)
      /\ Len(SubSeq(s, n + 1, Len(s))) = Len(s) - n
      /\ \A i \in 1 .. Len(s) - n : SubSeq(s, n + 1, Len(s))[i] = s[n + i]
  BY <1>1, <1>2
<1> QED
  BY <1>3 DEF Drop

LEMMA TakeFacts ==
    ASSUME NEW S, NEW s \in Seq(S), NEW n \in 0 .. Len(s)
    PROVE  /\ SubSeq(s, 1, n) \in Seq(S) /\ Len(SubSeq(s, 1, n)) = n
           /\ \A i \in 1 .. n : SubSeq(s, 1, n)[i] = s[i]
<1>1. Len(s) \in Nat /\ n \in Nat /\ n <= Len(s)
  OBVIOUS
<1>2. \A i \in 1 .. n : s[i] \in S
  BY <1>1
<1> QED
  BY <1>1, <1>2

\* recv returns no more than has arrived, and no more than its buffer holds.
LEMMA ReceivedBounded ==
    ASSUME WireInv
    PROVE  /\ Received \in 0 .. Len(inflight) /\ Received <= arrived
           /\ arrived \in Nat /\ arrived <= Len(inflight)
           /\ Drop(inflight, Received) \in Seq(Byte)
           /\ Len(Drop(inflight, Received)) = Len(inflight) - Received
<1>1. /\ Received \in 0 .. Len(inflight) /\ Received <= arrived
      /\ arrived \in Nat /\ arrived <= Len(inflight)
  BY WireAssumption DEF WireInv, WireTypeOK, StreamInv, Received, Lesser
<1>2. inflight \in Seq(Byte)
  BY DEF WireInv, StreamInv
<1> QED
  BY <1>1, <1>2, DropFacts

LEMMA DisconnectTypes == ASSUME WireInv, Disconnect, UNCHANGED script PROVE WireInv'
BY DEF WireInv, WireTypeOK, StreamInv, Disconnect, ConnectionState, PC, Link, peervars

LEMMA PollTypes == ASSUME WireInv, Poll, UNCHANGED script PROVE WireInv'
<1>1. pollfds' \subseteq Both /\ revents' \subseteq pollfds'
  BY DEF WireInv, WireTypeOK, Poll
<1> QED
  BY <1>1 DEF WireInv, WireTypeOK, StreamInv, Poll, PC, connvars, peervars

LEMMA HandleWriteTypes == ASSUME WireInv, HandleWrite, UNCHANGED script PROVE WireInv'
<1> USE DEF WireInv, WireTypeOK, StreamInv, PC
<1>1. CASE Disconnect
  BY <1>1, DisconnectTypes
<1>2. CASE /\ pc' = "read"
           /\ UNCHANGED <<registered, pollfds, dirty, revents, connvars, peervars>>
  BY <1>2 DEF connvars, peervars
<1>3. CASE /\ write_buffer' = write_buffer - Accepted
           /\ room' = room - Accepted
           /\ AfterSend(write_buffer - Accepted)
           /\ pc' = "read"
           /\ UNCHANGED <<pollfds, revents, state, link, inflight, arrived, sent>>
  <2>1. room \in Nat /\ Room \in Nat /\ room <= Room
    BY WireAssumption
  <2>2. Accepted \in Nat /\ write_buffer' \in Nat /\ room' \in Nat
    BY <1>3, <2>1, AcceptedBounded
  <2>3. room' \in 0 .. Room
    BY <1>3, <2>1, <2>2
  <2>4. registered' \subseteq Both /\ dirty' \in BOOLEAN
    BY <1>3 DEF AfterSend, Modify, Both
  <2> QED
    BY <1>3, <2>2, <2>3, <2>4
<1> QED
  BY <1>1, <1>2, <1>3 DEF HandleWrite

LEMMA HandleReadTypes == ASSUME WireInv, HandleRead, UNCHANGED script PROVE WireInv'
<1> USE DEF WireInv, WireTypeOK, StreamInv, PC
<1>1. CASE Disconnect
  BY <1>1, DisconnectTypes
<1>2. CASE /\ pc' = "poll"
           /\ UNCHANGED <<registered, pollfds, dirty, revents, connvars, peervars>>
  BY <1>2 DEF connvars, peervars
<1>3. CASE /\ inflight' = Drop(inflight, Received)
           /\ arrived' = arrived - Received
           /\ pc' = IF state = "HandshakeSent" THEN "handshake" ELSE "parse"
           /\ UNCHANGED <<registered, pollfds, dirty, revents, state, write_buffer, link, room, sent>>
  <2>1. /\ inflight' \in Seq(Byte)
        /\ Len(inflight') = Len(inflight) - Received
        /\ Received \in Nat /\ Received <= arrived /\ arrived <= Len(inflight)
        /\ Len(inflight) \in Nat /\ arrived \in Nat
    BY <1>3, ReceivedBounded
  <2>2. arrived' \in 0 .. Len(inflight')
    BY <1>3, <2>1
  <2> QED
    BY <1>3, <2>1, <2>2
<1> QED
  BY <1>1, <1>2, <1>3 DEF HandleRead

LEMMA ProcessHandshakeTypes == ASSUME WireInv, ProcessHandshake, UNCHANGED script PROVE WireInv'
<1> USE DEF WireInv, WireTypeOK, StreamInv, PC
<1>1. CASE Disconnect
  BY <1>1, DisconnectTypes
<1>2. CASE /\ pc' \in {"poll", "parse"} /\ state' \in {state, "Connected"}
           /\ UNCHANGED <<registered, pollfds, dirty, revents, write_buffer, peervars>>
  BY <1>2 DEF peervars, ConnectionState
<1> QED
  BY <1>1, <1>2 DEF ProcessHandshake, AfterHandshake, connvars

LEMMA ParseMessageTypes == ASSUME WireInv, ParseMessage, UNCHANGED script PROVE WireInv'
<1> USE DEF WireInv, WireTypeOK, StreamInv, PC
<1>1. /\ pc' \in {pc, "poll"}
      /\ UNCHANGED <<pollfds, revents, state, peervars>>
  BY DEF ParseMessage, connvars
<1>2. CASE UNCHANGED <<write_buffer, registered, dirty>>
  BY <1>1, <1>2 DEF peervars
<1>3. ASSUME NEW n \in 0 .. MaxReplies, QueueMessages(n) PROVE WireInv'
  <2>1. n \in Nat /\ MsgSize \in Nat /\ write_buffer \in Nat
    BY WireAssumption
  <2>2. n * MsgSize \in Nat
    BY <2>1
  <2>3. write_buffer' \in Nat
    BY <1>3, <2>1, <2>2 DEF QueueMessages
  <2>4. registered' \subseteq Both /\ dirty' \in BOOLEAN
    BY <1>3 DEF QueueMessages, Modify, Both
  <2> QED
    BY <1>1, <2>3, <2>4 DEF peervars
<1> QED
  BY <1>2, <1>3 DEF ParseMessage, connvars

LEMMA NetworkTypes == ASSUME WireInv, Network, UNCHANGED script PROVE WireInv'
<1> USE DEF WireInv, WireTypeOK, StreamInv, Network, loopvars, connvars, Link
<1>1. CASE Arrive
  BY <1>1 DEF Arrive
<1>2. CASE MakeRoom
  BY <1>2, WireAssumption DEF MakeRoom
<1>3. CASE Close
  <2>1. inflight \in Seq(Byte) /\ arrived \in 0 .. Len(inflight)
    OBVIOUS
  <2>2. inflight' \in Seq(Byte) /\ Len(inflight') = arrived /\ arrived' = arrived
    BY <1>3, <2>1, TakeFacts DEF Close
  <2> QED
    BY <1>3, <2>1, <2>2 DEF Close
<1>4. CASE Reset
  BY <1>4 DEF Reset
<1>5. CASE PeerSends
  <2> DEFINE m == script.messages[sent + 1]
  <2>1. sent \in Nat /\ sent + 1 \in 1 .. Len(script.messages)
    BY <1>5 DEF PeerSends
  <2>2. Serialize(m) \in Seq(Byte)
    BY <2>1, MessageFacts
  <2>3. inflight' = inflight \o Serialize(m) /\ sent' = sent + 1
        /\ UNCHANGED <<link, arrived, room>>
    BY <1>5 DEF PeerSends
  <2> HIDE DEF m
  <2>4. inflight' \in Seq(Byte) /\ Len(inflight) <= Len(inflight')
        /\ Len(inflight) \in Nat /\ Len(inflight') \in Nat
    BY <2>2, <2>3
  <2>5. arrived' \in 0 .. Len(inflight')
    BY <2>3, <2>4
  <2> QED
    BY <2>1, <2>3, <2>4, <2>5
<1> QED
  BY <1>1, <1>2, <1>3, <1>4, <1>5

LEMMA WireInvInit == Init => WireInv
<1> SUFFICES ASSUME Init PROVE WireInv
  OBVIOUS
<1>1. inflight \in Seq(Byte) /\ Len(inflight) \in Nat
  BY ScriptAssumption DEF Init, PeerScript
<1>2. write_buffer \in Nat
  BY ScriptAssumption DEF Init, HandshakeSize
<1>3. Len(script.messages) \in Nat
  BY ScriptAssumption DEF Init, PeerScript
<1> QED
  BY <1>1, <1>2, <1>3, WireAssumption
     DEF Init, WireInv, WireTypeOK, StreamInv, PC, Link, ConnectionState, Both

LEMMA WireInvNext == WireInv /\ [Next]_vars => WireInv'
<1> SUFFICES ASSUME WireInv, [Next]_vars PROVE WireInv'
  OBVIOUS
<1>1. CASE Loop /\ UNCHANGED script
  BY <1>1, PollTypes, HandleWriteTypes, HandleReadTypes, ProcessHandshakeTypes,
     ParseMessageTypes DEF Loop
<1>2. CASE Network /\ UNCHANGED script
  BY <1>2, NetworkTypes
<1>3. CASE UNCHANGED vars
  BY <1>3 DEF WireInv, WireTypeOK, StreamInv, vars, loopvars, connvars, peervars
<1> QED
  BY <1>1, <1>2, <1>3 DEF Next

\* The types of the connection, the loop and the network hold for every size of
\* byte, message and buffer.
THEOREM WireTypesHold == Spec => []WireTypeOK
BY WireInvInit, WireInvNext, PTL DEF Spec, WireInv

-----------------------------------------------------------------------------
\* The inductive invariant behind NoMessageLeftBehind.  It is not enough that the
\* parse loop leaves nothing: a thread that goes round without reading must find
\* nothing either, and a handshake that is too short must not be left Connected.
Parsed ==
    /\ pc = "handshake" => state = "HandshakeSent"
    /\ pc \in {"poll", "write", "read"} /\ state = "Connected" => ~Complete(read_buffer)

LEMMA LoopParses == ASSUME Parsed, Loop PROVE Parsed'
<1>1. CASE Disconnect
  BY <1>1 DEF Parsed, Disconnect
<1>2. CASE Poll
  BY <1>2 DEF Parsed, Poll, connvars
<1>3. CASE HandleWrite
  BY <1>1, <1>3 DEF Parsed, HandleWrite, connvars
<1>4. CASE HandleRead
  <2>1. CASE pc' = "poll" /\ UNCHANGED connvars
    BY <1>4, <2>1 DEF Parsed, HandleRead, connvars
  <2>2. CASE /\ pc' = IF state = "HandshakeSent" THEN "handshake" ELSE "parse"
             /\ state' = state
    BY <2>2 DEF Parsed
  <2> QED
    BY <1>1, <1>4, <2>1, <2>2 DEF HandleRead
<1>5. CASE ProcessHandshake
  BY <1>1, <1>5 DEF Parsed, ProcessHandshake, AfterHandshake, connvars
<1>6. CASE ParseMessage
  BY <1>6 DEF Parsed, ParseMessage, connvars
<1> QED
  BY <1>2, <1>3, <1>4, <1>5, <1>6 DEF Loop

LEMMA ParsedHolds == Spec => []Parsed
<1>1. Init => Parsed
  BY DEF Init, Parsed
<1>2. Parsed /\ [Next]_vars => Parsed'
  <2> SUFFICES ASSUME Parsed, [Next]_vars PROVE Parsed'
    OBVIOUS
  <2>1. CASE Loop
    BY <2>1, LoopParses
  <2>2. CASE UNCHANGED <<loopvars, connvars>>
    BY <2>2 DEF Parsed, loopvars, connvars
  <2> QED
    BY <2>1, <2>2 DEF Next, Network, vars
<1> QED
  BY <1>1, <1>2, PTL DEF Spec

\* When the thread waits in poll, every message that was received whole has been
\* handled (PeerConnection::handle_read), whatever is in the messages and wherever
\* the stream was cut.
THEOREM NothingIsLeftBehind == Spec => []NoMessageLeftBehind
<1>1. Parsed => NoMessageLeftBehind
  BY DEF Parsed, NoMessageLeftBehind
<1> QED
  BY <1>1, ParsedHolds, PTL

-----------------------------------------------------------------------------
\* The order of the messages.  Of the bytes the peer has written, Unparsed are those
\* the connection has not taken out of its buffer.
Unparsed == read_buffer \o inflight

\* The bytes u are, from base on, the messages j + 1 .. n of msgs, as far as u goes;
\* message k ends where cut[k] says.
Framed(u, base, msgs, j, n, cut) ==
    /\ cut \in [j .. n -> Nat] /\ cut[j] = base
    /\ \A k, l \in j .. n : k <= l => cut[k] <= cut[l]
    /\ \A k \in j + 1 .. n : cut[k] = cut[k - 1] + HeaderSize + Len(msgs[k])
    /\ \A k \in j + 1 .. n : \A i \in 1 .. HeaderSize + Len(msgs[k]) :
          cut[k - 1] + i <= Len(u) => u[cut[k - 1] + i] = Serialize(msgs[k])[i]
    /\ Len(u) <= cut[n]

\* The message m, behind the first h elements of d, is the next of them, or a keep-alive.
NextRank(d, h, m, next) ==
    IF m = <<>> THEN next = h ELSE next = h + 1 /\ next <= Len(d) /\ d[next] = m

\* Of the messages up to k, rank[k] are no keep-alives; those behind the j-th are what
\* d has behind its first h elements.
Ranked(d, h, msgs, j, n, rank) ==
    /\ rank \in [j .. n -> Nat] /\ rank[j] = h /\ rank[n] = Len(d)
    /\ \A k \in j + 1 .. n : NextRank(d, rank[k - 1], msgs[k], rank[k])

\* Where the first message begins: behind a handshake that is still to be processed.
FirstMessage == IF state = "HandshakeSent" THEN HandshakeSize ELSE 0

\* What is not parsed are the messages behind the j-th, and the j first have been
\* handled.
ParsedUpTo(j) ==
    \E cut, rank : /\ Framed(Unparsed, FirstMessage, script.messages, j, sent, cut)
                   /\ link = "open" => Len(Unparsed) = cut[sent]
                   /\ Ranked(due, Len(handled), script.messages, j, sent, rank)

\* The handshake of the peer is the first it sends.
GreetingFirst ==
    state = "HandshakeSent" =>
        /\ handled = <<>>
        /\ \A i \in 1 .. HandshakeSize : i <= Len(Unparsed) => Unparsed[i] = script.greeting[i]

SequenceTypes ==
    /\ script \in PeerScript
    /\ sent \in 0 .. Len(script.messages)
    /\ read_buffer \in Seq(Byte) /\ inflight \in Seq(Byte)
    /\ handled \in Seq(Seq(Byte)) /\ due \in Seq(Seq(Byte))

HandledIsDue ==
    /\ Len(handled) <= Len(due)
    /\ \A i \in 1 .. Len(handled) : handled[i] = due[i]

\* Nothing is handled of a peer of another torrent.
OurTorrent == state = "Connected" \/ handled # <<>> => script.greeting = Greeting

\* The inductive invariant behind MessagesInOrder.
InOrder ==
    /\ SequenceTypes
    /\ HandledIsDue
    /\ GreetingFirst
    /\ OurTorrent
    /\ state # "Disconnected" => \E j \in 0 .. sent : ParsedUpTo(j)

\* v is u without its first d elements.
Dropped(u, d, v) ==
    /\ Len(u) \in Nat /\ d <= Len(u) /\ Len(v) = Len(u) - d
    /\ \A i \in 1 .. Len(v) : v[i] = u[d + i]

\* v is u, and the message m behind it.
Followed(u, m, v) ==
    /\ Len(u) \in Nat /\ Len(m) \in Nat /\ Len(v) = Len(u) + HeaderSize + Len(m)
    /\ \A i \in 1 .. Len(u) : v[i] = u[i]
    /\ \A i \in 1 .. HeaderSize + Len(m) : v[Len(u) + i] = Serialize(m)[i]

Sized(msgs, first, last) == \A k \in first .. last : Len(msgs[k]) \in Nat

\* Positions: in a message of y bytes that begins at x, and d bytes earlier.
LEMMA Within ==
    ASSUME NEW x \in Nat, NEW y \in Nat, NEW z \in Nat, NEW i \in 1 .. 4 + y, x + 4 + y <= z
    PROVE  x + i \in 1 .. z
OBVIOUS

LEMMA Earlier ==
    ASSUME NEW x \in Nat, NEW y \in Nat, NEW d \in Nat, d <= x
    PROVE  x - d \in Nat /\ (x + 4 + y) - d = (x - d) + 4 + y
OBVIOUS

LEMMA EarlierWithin ==
    ASSUME NEW x \in Nat, NEW z \in Nat, NEW d \in Nat, NEW i \in Nat,
           d <= x, i >= 1, (x - d) + i <= z - d
    PROVE  (x - d) + i \in 1 .. z - d /\ d + ((x - d) + i) = x + i /\ x + i <= z
OBVIOUS

\* Fewer bytes are framed as more are: a close takes some away.
LEMMA FramedShorter ==
    ASSUME NEW u, NEW v, NEW base, NEW msgs, NEW j, NEW n \in Nat, NEW cut,
           Framed(u, base, msgs, j, n, cut), j \in 0 .. n,
           Len(u) \in Nat, Len(v) \in Nat, Len(v) <= Len(u),
           \A i \in 1 .. Len(v) : v[i] = u[i],
           \A k \in j + 1 .. n : Len(msgs[k]) \in Nat
    PROVE  Framed(v, base, msgs, j, n, cut)
<1>1. cut \in [j .. n -> Nat] /\ n \in j .. n
  BY DEF Framed
<1>2. ASSUME NEW k \in j + 1 .. n, NEW i \in 1 .. HeaderSize + Len(msgs[k]),
             cut[k - 1] + i <= Len(v)
      PROVE  v[cut[k - 1] + i] = Serialize(msgs[k])[i]
  <2>1. k - 1 \in j .. n /\ cut[k - 1] \in Nat /\ i \in Nat /\ i >= 1
    BY <1>1, <1>2 DEF HeaderSize
  <2>2. cut[k - 1] + i \in 1 .. Len(v) /\ cut[k - 1] + i <= Len(u)
    BY <1>2, <2>1
  <2>3. u[cut[k - 1] + i] = Serialize(msgs[k])[i]
    BY <1>2, <2>2 DEF Framed
  <2> QED
    BY <2>2, <2>3
<1>3. Len(v) <= cut[n]
  <2>1. cut[n] \in Nat /\ Len(u) <= cut[n]
    BY <1>1 DEF Framed
  <2> QED
    BY <2>1
<1> QED
  BY <1>2, <1>3 DEF Framed

\* The first d bytes go: all begins d earlier.
LEMMA FramedDropped ==
    ASSUME NEW u, NEW v, NEW base \in Nat, NEW msgs, NEW j, NEW n \in Nat, NEW cut, NEW d \in Nat,
           Framed(u, base, msgs, j, n, cut), j \in 0 .. n, d <= base,
           Dropped(u, d, v), Sized(msgs, j + 1, n)
    PROVE  \E c : Framed(v, base - d, msgs, j, n, c) /\ c[n] = cut[n] - d
<1> DEFINE c == [k \in j .. n |-> cut[k] - d]
<1>0. /\ Len(u) \in Nat /\ d <= Len(u) /\ Len(v) = Len(u) - d
      /\ \A i \in 1 .. Len(v) : v[i] = u[d + i]
      /\ \A k \in j + 1 .. n : Len(msgs[k]) \in Nat
  BY DEF Dropped, Sized
<1>1. cut \in [j .. n -> Nat] /\ n \in j .. n /\ j \in j .. n /\ j \in Nat
  BY <1>0 DEF Framed
<1>2. \A k \in j .. n : cut[k] \in Nat /\ cut[k] >= base
  BY <1>1 DEF Framed
<1>3. c \in [j .. n -> Nat] /\ \A k \in j .. n : c[k] = cut[k] - d
  BY <1>2
<1> HIDE DEF c
<1>4. c[j] = base - d /\ Len(v) <= c[n]
  BY <1>0, <1>1, <1>2, <1>3 DEF Framed
<1>5. \A k, l \in j .. n : k <= l => c[k] <= c[l]
  BY <1>2, <1>3 DEF Framed
<1>6. ASSUME NEW k \in j + 1 .. n
      PROVE  /\ k - 1 \in j .. n /\ k \in j .. n /\ cut[k - 1] \in Nat /\ cut[k - 1] >= d
             /\ c[k - 1] = cut[k - 1] - d
             /\ c[k] = c[k - 1] + HeaderSize + Len(msgs[k])
  <2>1. k - 1 \in j .. n /\ k \in j .. n /\ Len(msgs[k]) \in Nat
    BY <1>0, <1>1
  <2>2. cut[k] = cut[k - 1] + HeaderSize + Len(msgs[k])
    BY <1>0 DEF Framed
  <2>3. cut[k - 1] \in Nat /\ cut[k - 1] >= base /\ cut[k] \in Nat
    BY <1>2, <2>1
  <2>4. c[k - 1] = cut[k - 1] - d /\ c[k] = cut[k] - d
    BY <1>3, <2>1
  <2>5. cut[k - 1] >= d
    BY <2>3
  <2>6. PICK x \in Nat, y \in Nat : x = cut[k - 1] /\ y = Len(msgs[k])
    BY <2>1, <2>3
  <2>7. (x + 4 + y) - d = (x - d) + 4 + y
    BY <2>5, <2>6, Earlier, SMTT(30)
  <2> QED
    BY <2>1, <2>2, <2>3, <2>4, <2>5, <2>6, <2>7 DEF HeaderSize
<1>7. ASSUME NEW k \in j + 1 .. n, NEW i \in 1 .. HeaderSize + Len(msgs[k]), c[k - 1] + i <= Len(v)
      PROVE  v[c[k - 1] + i] = Serialize(msgs[k])[i]
  <2>1. i \in Nat /\ i >= 1
    BY DEF HeaderSize
  <2>2. c[k - 1] + i \in 1 .. Len(v) /\ d + (c[k - 1] + i) = cut[k - 1] + i /\ cut[k - 1] + i <= Len(u)
    <3>1. PICK x \in Nat : x = cut[k - 1]
      BY <1>6
    <3>2. c[k - 1] = x - d /\ x >= d
      BY <1>6, <3>1
    <3>3. (x - d) + i <= Len(u) - d
      BY <1>0, <1>7, <3>2
    <3>4. (x - d) + i \in 1 .. Len(u) - d /\ d + ((x - d) + i) = x + i /\ x + i <= Len(u)
      BY <1>0, <2>1, <3>2, <3>3, EarlierWithin
    <3> QED
      BY <1>0, <3>1, <3>2, <3>4
  <2>3. u[cut[k - 1] + i] = Serialize(msgs[k])[i]
    BY <1>7, <2>2 DEF Framed
  <2> QED
    BY <1>0, <2>2, <2>3
<1>8. Framed(v, base - d, msgs, j, n, c)
  BY <1>3, <1>4, <1>5, <1>6, <1>7 DEF Framed
<1> QED
  BY <1>1, <1>3, <1>8

\* The first message goes.
LEMMA FramedBehind ==
    ASSUME NEW u, NEW msgs, NEW j, NEW n \in Nat, NEW cut,
           Framed(u, 0, msgs, j, n, cut), j \in 0 .. n - 1
    PROVE  \E c : Framed(u, cut[j + 1], msgs, j + 1, n, c) /\ c[n] = cut[n]
<1> DEFINE c == [k \in j + 1 .. n |-> cut[k]]
<1>1. /\ j + 1 \in j + 1 .. n /\ n \in j + 1 .. n /\ \A k \in j + 1 .. n : k \in j .. n
      /\ \A k \in j + 2 .. n : k \in j + 1 .. n /\ k - 1 \in j + 1 .. n
  OBVIOUS
<1>2. c \in [j + 1 .. n -> Nat] /\ \A k \in j + 1 .. n : c[k] = cut[k]
  BY <1>1 DEF Framed
<1> HIDE DEF c
<1>3. Framed(u, cut[j + 1], msgs, j + 1, n, c)
  <2>1. (j + 1) + 1 = j + 2
    OBVIOUS
  <2> QED
    BY <1>1, <1>2, <2>1, SMTT(30) DEF Framed
<1> QED
  BY <1>1, <1>2, <1>3

\* The peer writes one more.
LEMMA FramedMore ==
    ASSUME NEW u, NEW v, NEW base, NEW msgs, NEW j, NEW n \in Nat, NEW cut,
           Framed(u, base, msgs, j, n, cut), j \in 0 .. n, Len(u) = cut[n],
           Followed(u, msgs[n + 1], v), Sized(msgs, j + 1, n)
    PROVE  \E c : Framed(v, base, msgs, j, n + 1, c) /\ Len(v) = c[n + 1]
<1> DEFINE c == [k \in j .. n + 1 |-> IF k = n + 1 THEN Len(v) ELSE cut[k]]
<1>0. /\ Len(u) \in Nat /\ Len(msgs[n + 1]) \in Nat
      /\ Len(v) = Len(u) + HeaderSize + Len(msgs[n + 1])
      /\ \A i \in 1 .. Len(u) : v[i] = u[i]
      /\ \A i \in 1 .. HeaderSize + Len(msgs[n + 1]) : v[Len(u) + i] = Serialize(msgs[n + 1])[i]
      /\ \A k \in j + 1 .. n : Len(msgs[k]) \in Nat
  BY DEF Followed, Sized
<1>1. /\ cut \in [j .. n -> Nat] /\ n \in j .. n /\ j \in j .. n /\ Len(v) \in Nat
      /\ Len(v) >= Len(u)
  BY <1>0 DEF Framed, HeaderSize
<1>2. /\ c \in [j .. n + 1 -> Nat] /\ c[n + 1] = Len(v)
      /\ \A k \in j .. n : c[k] = cut[k]
  BY <1>1
<1> HIDE DEF c
<1>3. c[j] = base
  BY <1>1, <1>2 DEF Framed
<1>4. \A k, l \in j .. n + 1 : k <= l => c[k] <= c[l]
  <2>1. \A k \in j .. n : cut[k] \in Nat /\ cut[k] <= Len(u)
    BY <1>0, <1>1 DEF Framed
  <2>2. \A k \in j .. n + 1 : k \in j .. n \/ k = n + 1
    OBVIOUS
  <2>3. \A k, l \in j .. n : k <= l => cut[k] <= cut[l]
    BY DEF Framed
  <2>4. ASSUME NEW k \in j .. n + 1, NEW l \in j .. n + 1, k <= l PROVE c[k] <= c[l]
    <3>1. CASE l = n + 1
      BY <1>0, <1>1, <1>2, <2>1, <2>2, <3>1
    <3>2. CASE l \in j .. n
      <4>1. k \in j .. n
        BY <2>4, <3>2
      <4> QED
        BY <1>2, <2>3, <2>4, <3>2, <4>1
    <3> QED
      BY <2>2, <3>1, <3>2
  <2> QED
    BY <2>4
<1>5. ASSUME NEW k \in j + 1 .. n + 1
      PROVE  c[k] = c[k - 1] + HeaderSize + Len(msgs[k])
  <2>1. CASE k = n + 1
    BY <1>0, <1>1, <1>2, <2>1
  <2>2. CASE k # n + 1
    <3>1. k \in j + 1 .. n /\ k \in j .. n /\ k - 1 \in j .. n
      BY <2>2
    <3> QED
      BY <1>2, <3>1 DEF Framed
  <2> QED
    BY <2>1, <2>2
<1>6. ASSUME NEW k \in j + 1 .. n + 1, NEW i \in 1 .. HeaderSize + Len(msgs[k]),
             c[k - 1] + i <= Len(v)
      PROVE  v[c[k - 1] + i] = Serialize(msgs[k])[i]
  <2>1. CASE k = n + 1
    <3>1. c[k - 1] = Len(u)
      BY <1>1, <1>2, <2>1
    <3> QED
      BY <1>0, <2>1, <3>1
  <2>2. CASE k # n + 1
    <3>1. k \in j + 1 .. n /\ k \in j .. n /\ k - 1 \in j .. n /\ i \in Nat /\ i >= 1
      BY <2>2 DEF HeaderSize
    <3>2. cut[k] = cut[k - 1] + HeaderSize + Len(msgs[k]) /\ cut[k] <= Len(u)
      BY <1>0, <1>1, <3>1 DEF Framed
    <3>3. c[k - 1] = cut[k - 1] /\ cut[k - 1] \in Nat /\ Len(msgs[k]) \in Nat
      BY <1>0, <1>1, <1>2, <3>1
    <3>4. cut[k - 1] + i \in 1 .. Len(u)
      <4>1. PICK x \in Nat, y \in Nat, z \in Nat : x = cut[k - 1] /\ y = Len(msgs[k]) /\ z = Len(u)
        BY <1>0, <3>3
      <4>2. x + 4 + y <= z /\ i \in 1 .. 4 + y
        BY <3>2, <4>1 DEF HeaderSize
      <4> QED
        BY <4>1, <4>2, Within
    <3>5. u[cut[k - 1] + i] = Serialize(msgs[k])[i]
      BY <3>1, <3>4 DEF Framed
    <3> QED
      BY <1>0, <3>3, <3>4, <3>5, SMTT(30)
  <2> QED
    BY <2>1, <2>2
<1>7. Framed(v, base, msgs, j, n + 1, c)
  BY <1>1, <1>2, <1>3, <1>4, <1>5, <1>6 DEF Framed
<1> QED
  BY <1>2, <1>7

LEMMA RankedMore ==
    ASSUME NEW d \in Seq(Seq(Byte)), NEW h, NEW msgs, NEW j, NEW n \in Nat, NEW rank,
           Ranked(d, h, msgs, j, n, rank), j \in 0 .. n,
           msgs[n + 1] \in Seq(Byte),
           NEW e, e = IF msgs[n + 1] = <<>> THEN d ELSE Append(d, msgs[n + 1])
    PROVE  \E r : Ranked(e, h, msgs, j, n + 1, r)
<1> DEFINE r == [k \in j .. n + 1 |-> IF k = n + 1 THEN Len(e) ELSE rank[k]]
<1>1. /\ e \in Seq(Seq(Byte)) /\ Len(e) \in Nat /\ Len(d) \in Nat
      /\ Len(e) = Len(d) + (IF msgs[n + 1] = <<>> THEN 0 ELSE 1)
      /\ \A i \in 1 .. Len(d) : e[i] = d[i]
      /\ msgs[n + 1] # <<>> => e[Len(d) + 1] = msgs[n + 1]
  <2>1. CASE msgs[n + 1] = <<>>
    BY <2>1
  <2>2. CASE msgs[n + 1] # <<>>
    BY <2>2
  <2> QED
    BY <2>1, <2>2
<1>2. rank \in [j .. n -> Nat] /\ n \in j .. n /\ j \in j .. n /\ rank[n] = Len(d)
  BY DEF Ranked
<1>3. /\ r \in [j .. n + 1 -> Nat] /\ r[n + 1] = Len(e)
      /\ \A k \in j .. n : r[k] = rank[k]
  BY <1>1, <1>2
<1> HIDE DEF r
<1>4. ASSUME NEW k \in j + 1 .. n + 1
      PROVE  NextRank(e, r[k - 1], msgs[k], r[k])
  <2>1. CASE k = n + 1
    BY <1>1, <1>2, <1>3, <2>1 DEF NextRank
  <2>2. CASE k # n + 1
    <3>1. k \in j + 1 .. n /\ k \in j .. n /\ k - 1 \in j .. n
      BY <2>2
    <3>2. r[k] = rank[k] /\ r[k - 1] = rank[k - 1] /\ rank[k] \in Nat /\ rank[k - 1] \in Nat
      BY <1>2, <1>3, <3>1
    <3>3. NextRank(d, rank[k - 1], msgs[k], rank[k])
      BY <3>1 DEF Ranked
    <3> QED
      BY <1>1, <3>1, <3>2, <3>3, SMTT(30) DEF NextRank
  <2> QED
    BY <2>1, <2>2
<1>5. Ranked(e, h, msgs, j, n + 1, r)
  BY <1>2, <1>3, <1>4 DEF Ranked
<1> QED
  BY <1>5

\* One message is handled, or was a keep-alive.
LEMMA RankedBehind ==
    ASSUME NEW d, NEW h, NEW msgs, NEW j, NEW n \in Nat, NEW rank,
           Ranked(d, h, msgs, j, n, rank), j \in 0 .. n - 1
    PROVE  /\ \E r : Ranked(d, rank[j + 1], msgs, j + 1, n, r)
           /\ NextRank(d, h, msgs[j + 1], rank[j + 1])
<1> DEFINE r == [k \in j + 1 .. n |-> rank[k]]
<1>1. /\ j + 1 \in j + 1 .. n /\ n \in j + 1 .. n /\ \A k \in j + 1 .. n : k \in j .. n
      /\ \A k \in j + 2 .. n : k \in j + 1 .. n /\ k - 1 \in j + 1 .. n
  OBVIOUS
<1>2. r \in [j + 1 .. n -> Nat] /\ \A k \in j + 1 .. n : r[k] = rank[k]
  BY <1>1 DEF Ranked
<1> HIDE DEF r
<1>3. Ranked(d, rank[j + 1], msgs, j + 1, n, r)
  <2>1. (j + 1) + 1 = j + 2
    OBVIOUS
  <2> QED
    BY <1>1, <1>2, <2>1 DEF Ranked
<1>4. (j + 1) - 1 = j
  OBVIOUS
<1> QED
  BY <1>1, <1>3, <1>4 DEF Ranked

-----------------------------------------------------------------------------
\* Which handler runs in which state.
Handler ==
    /\ pc = "handshake" => state = "HandshakeSent"
    /\ pc = "parse" => state = "Connected"

LEMMA HandlerHolds == Spec => []Handler
<1>1. Init => Handler
  BY DEF Init, Handler
<1>2. Interest /\ Handler /\ [Next]_vars => Handler'
  <2> SUFFICES ASSUME Interest, Handler, [Next]_vars PROVE Handler'
    OBVIOUS
  <2>1. CASE Poll
    BY <2>1 DEF Poll, Handler
  <2>2. CASE HandleWrite
    BY <2>2 DEF HandleWrite, Disconnect, Handler
  <2>3. CASE HandleRead
    <3>1. CASE /\ pc' = IF state = "HandshakeSent" THEN "handshake" ELSE "parse"
               /\ state' = state
      <4>1. state \in {"HandshakeSent", "Connected"}
        BY <2>3 DEF HandleRead, Interest, WireTypes, ClosedIsIdle, ConnectionState
      <4> QED
        BY <3>1, <4>1 DEF Handler
    <3> QED
      BY <2>3, <3>1 DEF HandleRead, Disconnect, Handler
  <2>4. CASE ProcessHandshake
    BY <2>4 DEF ProcessHandshake, AfterHandshake, Disconnect, Handler
  <2>5. CASE ParseMessage
    BY <2>5 DEF ParseMessage, connvars, Handler
  <2>6. CASE UNCHANGED <<loopvars, connvars>>
    BY <2>6 DEF Handler, loopvars, connvars
  <2> QED
    BY <2>1, <2>2, <2>3, <2>4, <2>5, <2>6 DEF Next, Loop, Network, vars
<1> QED
  BY <1>1, <1>2, InterestHolds, PTL DEF Spec

\* The bytes that are not parsed: first those in the buffer.
LEMMA UnparsedFacts ==
    ASSUME SequenceTypes
    PROVE  /\ Unparsed \in Seq(Byte) /\ Len(Unparsed) \in Nat
           /\ Len(Unparsed) = Len(read_buffer) + Len(inflight)
           /\ Len(read_buffer) \in Nat /\ Len(inflight) \in Nat
           /\ \A i \in 1 .. Len(read_buffer) : Unparsed[i] = read_buffer[i]
           /\ \A i \in 1 .. Len(inflight) : Unparsed[Len(read_buffer) + i] = inflight[i]
<1>1. read_buffer \in Seq(Byte) /\ inflight \in Seq(Byte)
  BY DEF SequenceTypes
<1> QED
  BY <1>1, ConcatFacts DEF Unparsed

\* Bytes that move from one sequence to the end of the other stay in their order.
LEMMA BytesMove ==
    ASSUME NEW S, NEW s \in Seq(S), NEW t \in Seq(S), NEW n \in 0 .. Len(t)
    PROVE  LET u == (s \o SubSeq(t, 1, n)) \o Drop(t, n)
           IN  /\ s \o SubSeq(t, 1, n) \in Seq(S) /\ u \in Seq(S) /\ Len(u) = Len(s \o t)
               /\ \A i \in 1 .. Len(s \o t) : u[i] = (s \o t)[i]
<1>1. PICK a \in Seq(S) : a = SubSeq(t, 1, n) /\ Len(a) = n /\ \A i \in 1 .. n : a[i] = t[i]
  <2>1. /\ SubSeq(t, 1, n) \in Seq(S) /\ Len(SubSeq(t, 1, n)) = n
        /\ \A i \in 1 .. n : SubSeq(t, 1, n)[i] = t[i]
    BY TakeFacts
  <2> QED
    BY <2>1, Zenon
<1>2. PICK b \in Seq(S) :
         /\ b = Drop(t, n) /\ Len(b) = Len(t) - n
         /\ \A i \in 1 .. Len(t) - n : b[i] = t[n + i]
  BY DropFacts
<1>3. /\ s \o t \in Seq(S) /\ Len(s \o t) = Len(s) + Len(t)
      /\ \A i \in 1 .. Len(s) : (s \o t)[i] = s[i]
      /\ \A i \in 1 .. Len(t) : (s \o t)[Len(s) + i] = t[i]
  BY ConcatFacts
<1>4. /\ s \o a \in Seq(S) /\ Len(s \o a) = Len(s) + n
      /\ \A i \in 1 .. Len(s) : (s \o a)[i] = s[i]
      /\ \A i \in 1 .. n : (s \o a)[Len(s) + i] = a[i]
  <2>1. /\ s \o a \in Seq(S) /\ Len(s \o a) = Len(s) + Len(a)
        /\ \A i \in 1 .. Len(s) : (s \o a)[i] = s[i]
        /\ \A i \in 1 .. Len(a) : (s \o a)[Len(s) + i] = a[i]
    BY ConcatFacts
  <2> QED
    BY <1>1, <2>1
<1> DEFINE c == s \o a
<1> HIDE DEF c
<1>5. /\ c \o b \in Seq(S) /\ Len(c \o b) = Len(c) + Len(b)
      /\ \A i \in 1 .. Len(c) : (c \o b)[i] = c[i]
      /\ \A i \in 1 .. Len(b) : (c \o b)[Len(c) + i] = b[i]
  <2>1. c \in Seq(S)
    BY <1>4 DEF c
  <2> QED
    BY <2>1, ConcatFacts
<1> DEFINE u == c \o b
           v == s \o t
<1>6. PICK x \in Nat, y \in Nat : x = Len(s) /\ y = Len(t) /\ n \in Nat /\ n <= y
  OBVIOUS
<1>7. /\ Len(u) = x + y /\ Len(v) = x + y
      /\ \A i \in 1 .. x : u[i] = c[i] /\ c[i] = s[i] /\ v[i] = s[i]
      /\ \A i \in 1 .. n : c[x + i] = a[i] /\ a[i] = t[i]
      /\ \A i \in 1 .. y : v[x + i] = t[i]
      /\ \A i \in 1 .. x + n : u[i] = c[i]
      /\ \A i \in 1 .. y - n : u[(x + n) + i] = b[i] /\ b[i] = t[n + i]
  <2>1. Len(c) = x + n /\ Len(b) = y - n /\ \A i \in 1 .. x : i \in 1 .. x + n
    BY <1>2, <1>4, <1>6 DEF c
  <2>2. (x + n) + (y - n) = x + y
    BY <1>6
  <2> QED
    BY <1>1, <1>2, <1>3, <1>4, <1>5, <1>6, <2>1, <2>2 DEF c
<1> HIDE DEF u, v
<1>8. ASSUME NEW i \in 1 .. x + y PROVE u[i] = v[i]
  <2>1. CASE i \in 1 .. x
    BY <1>7, <2>1
  <2>2. CASE i \in x + 1 .. x + n
    <3>1. PICK k \in 1 .. n : i = x + k /\ k \in 1 .. y /\ i \in 1 .. x + n
      <4>1. i - x \in 1 .. n /\ i = x + (i - x) /\ i - x \in 1 .. y /\ i \in 1 .. x + n
        BY <1>6, <2>2, SMTT(30)
      <4> QED
        BY <4>1
    <3> QED
      BY <1>7, <3>1
  <2>3. CASE i \in x + n + 1 .. x + y
    <3>1. PICK k \in 1 .. y - n : i = (x + n) + k /\ n + k \in 1 .. y /\ i = x + (n + k)
      <4>1. /\ i - (x + n) \in 1 .. y - n /\ i = (x + n) + (i - (x + n))
            /\ n + (i - (x + n)) \in 1 .. y /\ i = x + (n + (i - (x + n)))
        BY <1>6, <2>3
      <4> QED
        BY <4>1
    <3>2. u[i] = t[n + k]
      BY <1>7, <3>1
    <3> QED
      BY <1>7, <3>1, <3>2
  <2>4. i \in 1 .. x \/ i \in x + 1 .. x + n \/ i \in x + n + 1 .. x + y
    BY <1>6
  <2> QED
    BY <2>1, <2>2, <2>3, <2>4
<1> QED
  BY <1>1, <1>2, <1>4, <1>5, <1>6, <1>7, <1>8 DEF c, u, v

\* A step that parses nothing: bytes move or are lost at the end.
LEMMA StaysInOrder ==
    ASSUME InOrder, UNCHANGED <<script, sent, due, handled, state>>,
           read_buffer' \in Seq(Byte), inflight' \in Seq(Byte),
           Len(Unparsed') <= Len(Unparsed),
           \A i \in 1 .. Len(Unparsed') : Unparsed'[i] = Unparsed[i],
           link' = "open" => link = "open" /\ Len(Unparsed') = Len(Unparsed)
    PROVE  InOrder'
<1>1. SequenceTypes /\ SequenceTypes'
  BY DEF InOrder, SequenceTypes
<1>2. Len(Unparsed) \in Nat /\ Len(Unparsed') \in Nat
  <2>1. Unparsed' \in Seq(Byte)
    BY ConcatFacts DEF Unparsed
  <2> QED
    BY <1>1, <2>1, UnparsedFacts
<1>3. HandledIsDue' /\ OurTorrent'
  BY DEF InOrder, HandledIsDue, OurTorrent
<1>4. GreetingFirst'
  <2>1. HandshakeSize \in Nat
    BY ScriptAssumption DEF HandshakeSize
  <2>2. ASSUME state = "HandshakeSent", NEW i \in 1 .. HandshakeSize, i <= Len(Unparsed')
        PROVE  Unparsed'[i] = script.greeting[i]
    <3>1. i \in 1 .. Len(Unparsed') /\ i <= Len(Unparsed)
      BY <1>2, <2>1, <2>2
    <3> QED
      BY <2>2, <3>1 DEF InOrder, GreetingFirst
  <2> QED
    BY <2>2 DEF InOrder, GreetingFirst
<1>5. ASSUME state # "Disconnected" PROVE \E j \in 0 .. sent : ParsedUpTo(j)'
  <2>1. PICK j \in 0 .. sent : ParsedUpTo(j)
    BY <1>5 DEF InOrder
  <2>2. PICK cut, rank : /\ Framed(Unparsed, FirstMessage, script.messages, j, sent, cut)
                         /\ link = "open" => Len(Unparsed) = cut[sent]
                         /\ Ranked(due, Len(handled), script.messages, j, sent, rank)
    BY <2>1 DEF ParsedUpTo
  <2>3. sent \in Nat /\ \A k \in j + 1 .. sent : Len(script.messages[k]) \in Nat
    <3>1. sent \in 0 .. Len(script.messages) /\ Len(script.messages) \in Nat
      BY <1>1, ScriptAssumption DEF SequenceTypes, PeerScript
    <3>2. ASSUME NEW k \in j + 1 .. sent PROVE Len(script.messages[k]) \in Nat
      <4>1. k \in 1 .. Len(script.messages)
        BY <3>1
      <4> QED
        BY <1>1, <4>1, MessageFacts DEF SequenceTypes
    <3> QED
      BY <3>1, <3>2
  <2>4. Framed(Unparsed', FirstMessage, script.messages, j, sent, cut)
    BY <1>2, <2>2, <2>3, FramedShorter
  <2>5. FirstMessage' = FirstMessage
    BY DEF FirstMessage
  <2> QED
    BY <2>2, <2>4, <2>5 DEF ParsedUpTo
<1> QED
  BY <1>1, <1>3, <1>4, <1>5 DEF InOrder

\* The bytes, and the messages written and handled, stay as they are.
LEMMA KeepsInOrder ==
    ASSUME InOrder, UNCHANGED <<script, sent, due, handled, state, read_buffer, inflight>>,
           link' = "open" => link = "open"
    PROVE  InOrder'
<1>1. SequenceTypes
  BY DEF InOrder
<1>2. Unparsed' = Unparsed
  BY DEF Unparsed
<1>3. Len(Unparsed) \in Nat
  BY <1>1, UnparsedFacts
<1>4. read_buffer' \in Seq(Byte) /\ inflight' \in Seq(Byte)
  BY <1>1 DEF SequenceTypes
<1> QED
  BY <1>2, <1>3, <1>4, StaysInOrder

LEMMA DisconnectInOrder ==
    ASSUME InOrder, Disconnect, UNCHANGED script
    PROVE  InOrder'
<1>1. UNCHANGED <<sent, due, handled, read_buffer, inflight>> /\ state' = "Disconnected"
  BY DEF Disconnect, peervars
<1>2. SequenceTypes' /\ HandledIsDue'
  BY <1>1 DEF InOrder, SequenceTypes, HandledIsDue
<1>3. GreetingFirst'
  BY <1>1 DEF GreetingFirst
<1>4. OurTorrent'
  BY <1>1 DEF InOrder, OurTorrent
<1> QED
  BY <1>1, <1>2, <1>3, <1>4 DEF InOrder

LEMMA HandleReadInOrder ==
    ASSUME WireInv, InOrder, HandleRead, UNCHANGED script
    PROVE  InOrder'
<1>1. CASE Disconnect
  BY <1>1, DisconnectInOrder
<1>2. CASE UNCHANGED <<connvars, peervars>>
  <2>1. UNCHANGED <<script, sent, due, handled, state, read_buffer, inflight, link>>
    BY <1>2 DEF connvars, peervars
  <2> QED
    BY <2>1, KeepsInOrder
<1>3. CASE /\ read_buffer' = read_buffer \o SubSeq(inflight, 1, Received)
           /\ inflight' = Drop(inflight, Received)
           /\ UNCHANGED <<sent, due, handled, state, link>>
  <2>1. read_buffer \in Seq(Byte) /\ inflight \in Seq(Byte)
    BY DEF InOrder, SequenceTypes
  <2>2. Received \in 0 .. Len(inflight)
    BY ReceivedBounded
  <2>3. PICK n \in 0 .. Len(inflight) : n = Received
    BY <2>2
  <2>4. /\ read_buffer' = read_buffer \o SubSeq(inflight, 1, n)
        /\ inflight' = Drop(inflight, n)
    BY <1>3, <2>3
  <2>5. LET u == (read_buffer \o SubSeq(inflight, 1, n)) \o Drop(inflight, n)
        IN  /\ read_buffer \o SubSeq(inflight, 1, n) \in Seq(Byte) /\ u \in Seq(Byte)
            /\ Len(u) = Len(read_buffer \o inflight)
            /\ \A i \in 1 .. Len(read_buffer \o inflight) : u[i] = (read_buffer \o inflight)[i]
    BY <2>1, BytesMove
  <2>6. Drop(inflight, n) \in Seq(Byte)
    BY <2>1, DropFacts
  <2>7. /\ read_buffer' \in Seq(Byte) /\ inflight' \in Seq(Byte)
        /\ Len(Unparsed') = Len(Unparsed)
        /\ \A i \in 1 .. Len(Unparsed) : Unparsed'[i] = Unparsed[i]
    BY <2>4, <2>5, <2>6 DEF Unparsed
  <2>8. Len(Unparsed) \in Nat
    BY UnparsedFacts DEF InOrder
  <2> QED
    BY <1>3, <2>7, <2>8, StaysInOrder
<1> QED
  BY <1>1, <1>2, <1>3 DEF HandleRead

\* The peer closes: the bytes that have not arrived are lost.
LEMMA CloseInOrder ==
    ASSUME WireInv, InOrder, Close, UNCHANGED <<script, connvars>>
    PROVE  InOrder'
<1>1. /\ inflight' = SubSeq(inflight, 1, arrived) /\ link' = "closed"
      /\ UNCHANGED <<sent, due, handled, state, read_buffer>>
  BY DEF Close, connvars
<1>2. read_buffer \in Seq(Byte) /\ inflight \in Seq(Byte) /\ arrived \in 0 .. Len(inflight)
  BY DEF InOrder, SequenceTypes, WireInv, WireTypeOK
<1>3. PICK n \in 0 .. Len(inflight) : n = arrived
  BY <1>2
<1>4. PICK t \in Seq(Byte) :
         /\ t = SubSeq(inflight, 1, n) /\ Len(t) = n /\ \A i \in 1 .. n : t[i] = inflight[i]
  <2>1. /\ SubSeq(inflight, 1, n) \in Seq(Byte) /\ Len(SubSeq(inflight, 1, n)) = n
        /\ \A i \in 1 .. n : SubSeq(inflight, 1, n)[i] = inflight[i]
    BY <1>2, TakeFacts
  <2> QED
    BY <2>1, Zenon
<1>5. /\ Unparsed' = read_buffer \o t
      /\ read_buffer' \in Seq(Byte) /\ inflight' \in Seq(Byte)
  BY <1>1, <1>2, <1>3, <1>4 DEF Unparsed
<1>6. /\ Len(read_buffer \o t) = Len(read_buffer) + Len(t)
      /\ \A i \in 1 .. Len(read_buffer) : (read_buffer \o t)[i] = read_buffer[i]
      /\ \A i \in 1 .. Len(t) : (read_buffer \o t)[Len(read_buffer) + i] = t[i]
  BY <1>2, ConcatFacts
<1>7. /\ Len(Unparsed) = Len(read_buffer) + Len(inflight)
      /\ Len(read_buffer) \in Nat /\ Len(inflight) \in Nat
      /\ \A i \in 1 .. Len(read_buffer) : Unparsed[i] = read_buffer[i]
      /\ \A i \in 1 .. Len(inflight) : Unparsed[Len(read_buffer) + i] = inflight[i]
  BY UnparsedFacts DEF InOrder
<1>8. PICK x \in Nat, y \in Nat : x = Len(read_buffer) /\ y = Len(inflight)
  BY <1>7
<1>9. Len(Unparsed') = x + n /\ Len(Unparsed) = x + y /\ n \in Nat /\ n <= y
  <2>1. Len(Unparsed') = Len(read_buffer \o t)
    BY <1>5
  <2>2. n \in Nat /\ n <= y
    BY <1>8
  <2> QED
    BY <1>4, <1>6, <1>7, <1>8, <2>1, <2>2
<1>10. ASSUME NEW i \in 1 .. Len(Unparsed') PROVE Unparsed'[i] = Unparsed[i]
  <2>1. CASE i \in 1 .. x
    BY <1>5, <1>6, <1>7, <1>8, <2>1
  <2>2. CASE i \in x + 1 .. x + n
    <3>1. PICK k \in 1 .. n : i = x + k /\ k \in 1 .. y
      <4>1. i - x \in 1 .. n /\ i = x + (i - x) /\ i - x \in 1 .. y
        BY <1>9, <2>2
      <4> QED
        BY <4>1
    <3> QED
      BY <1>4, <1>5, <1>6, <1>7, <1>8, <3>1
  <2> QED
    BY <1>9, <2>1, <2>2
<1>11. Len(Unparsed') <= Len(Unparsed)
  BY <1>9
<1> QED
  BY <1>1, <1>5, <1>10, <1>11, StaysInOrder

\* The messages the peer has written, one by one.
LEMMA ScriptFacts ==
    ASSUME SequenceTypes
    PROVE  /\ sent \in Nat /\ Len(script.messages) \in Nat /\ sent <= Len(script.messages)
           /\ \A k \in 1 .. Len(script.messages) :
                 script.messages[k] \in Seq(Byte) /\ Len(script.messages[k]) \in Nat
<1>1. script \in PeerScript /\ sent \in 0 .. Len(script.messages)
  BY DEF SequenceTypes
<1>2. script.messages \in Seq(Seq(Byte))
  BY <1>1, ScriptAssumption DEF PeerScript
<1>3. Len(script.messages) \in Nat
  BY <1>2
<1>4. \A k \in 1 .. Len(script.messages) :
         script.messages[k] \in Seq(Byte) /\ Len(script.messages[k]) \in Nat
  BY <1>1, MessageFacts
<1> QED
  BY <1>1, <1>3, <1>4

\* The peer writes a message: what it adds to the stream is the next to be parsed.
LEMMA PeerSendsInOrder ==
    ASSUME InOrder, PeerSends, UNCHANGED <<script, connvars>>
    PROVE  InOrder'
<1> DEFINE n == sent
           m == script.messages[n + 1]
<1>1. SequenceTypes
  BY DEF InOrder
<1>2. /\ link = "open" /\ n < Len(script.messages) /\ sent' = n + 1
      /\ inflight' = inflight \o Serialize(m)
      /\ due' = (IF m = <<>> THEN due ELSE Append(due, m))
      /\ UNCHANGED <<script, link, state, handled, read_buffer>>
  BY DEF PeerSends, connvars
<1>3. /\ n \in Nat /\ Len(script.messages) \in Nat /\ n <= Len(script.messages)
      /\ \A k \in 1 .. Len(script.messages) :
            script.messages[k] \in Seq(Byte) /\ Len(script.messages[k]) \in Nat
  BY <1>1, ScriptFacts
<1>4. n + 1 \in 1 .. Len(script.messages)
  BY <1>2, <1>3
<1>5. /\ m \in Seq(Byte) /\ Len(m) \in Nat
      /\ Serialize(m) \in Seq(Byte) /\ Len(Serialize(m)) = HeaderSize + Len(m)
  BY <1>1, <1>4, MessageFacts DEF SequenceTypes
<1> HIDE DEF n, m
<1>6. read_buffer \in Seq(Byte) /\ inflight \in Seq(Byte) /\ due \in Seq(Seq(Byte))
  BY <1>1 DEF SequenceTypes
<1>7. inflight' \in Seq(Byte) /\ Unparsed' = read_buffer \o (inflight \o Serialize(m))
  <2>1. inflight' = inflight \o Serialize(m) /\ read_buffer' = read_buffer
    BY <1>2
  <2>2. inflight \o Serialize(m) \in Seq(Byte)
    BY <1>5, <1>6
  <2> QED
    BY <2>1, <2>2 DEF Unparsed
<1>8. Unparsed' = Unparsed \o Serialize(m)
  BY <1>5, <1>6, <1>7 DEF Unparsed
<1>9. Unparsed \in Seq(Byte) /\ Len(Unparsed) \in Nat
  BY <1>1, UnparsedFacts
<1>10. /\ Len(Unparsed') = Len(Unparsed) + Len(Serialize(m))
       /\ \A i \in 1 .. Len(Unparsed) : Unparsed'[i] = Unparsed[i]
       /\ \A i \in 1 .. Len(Serialize(m)) : Unparsed'[Len(Unparsed) + i] = Serialize(m)[i]
  <2>1. /\ Len(Unparsed \o Serialize(m)) = Len(Unparsed) + Len(Serialize(m))
        /\ \A i \in 1 .. Len(Unparsed) : (Unparsed \o Serialize(m))[i] = Unparsed[i]
        /\ \A i \in 1 .. Len(Serialize(m)) :
              (Unparsed \o Serialize(m))[Len(Unparsed) + i] = Serialize(m)[i]
    BY <1>5, <1>9, ConcatFacts
  <2> QED
    BY <1>8, <2>1
<1>11. /\ due' \in Seq(Seq(Byte)) /\ Len(due') \in Nat /\ Len(due) \in Nat /\ Len(due) <= Len(due')
       /\ \A i \in 1 .. Len(due) : due'[i] = due[i]
  <2>1. CASE m = <<>>
    BY <1>2, <1>6, <2>1
  <2>2. CASE m # <<>>
    BY <1>2, <1>5, <1>6, <2>2
  <2> QED
    BY <2>1, <2>2
<1>12. SequenceTypes'
  <2>1. sent' \in 0 .. Len(script'.messages)
    BY <1>2, <1>3, <1>4 DEF n
  <2> QED
    BY <1>1, <1>2, <1>7, <1>11, <2>1 DEF SequenceTypes
<1>13. HandledIsDue'
  <2>1. Len(handled) \in Nat
    BY <1>1 DEF SequenceTypes
  <2>2. Len(handled) <= Len(due) /\ \A i \in 1 .. Len(handled) : handled[i] = due[i] /\ i \in 1 .. Len(due)
    BY <1>11, <2>1 DEF InOrder, HandledIsDue
  <2>3. Len(handled) <= Len(due')
    BY <1>11, <2>1, <2>2
  <2> QED
    BY <1>2, <1>11, <2>2, <2>3 DEF HandledIsDue
<1>14. OurTorrent'
  BY <1>2 DEF InOrder, OurTorrent
<1>15. ASSUME state # "Disconnected" PROVE \E j \in 0 .. n + 1 : ParsedUpTo(j)'
  <2>1. PICK j \in 0 .. n : ParsedUpTo(j)
    BY <1>15 DEF InOrder, n
  <2>2. PICK cut, rank : /\ Framed(Unparsed, FirstMessage, script.messages, j, n, cut)
                         /\ link = "open" => Len(Unparsed) = cut[n]
                         /\ Ranked(due, Len(handled), script.messages, j, n, rank)
    BY <2>1 DEF ParsedUpTo, n
  <2>3. Sized(script.messages, j + 1, n)
    BY <1>3 DEF Sized
  <2>4. Followed(Unparsed, script.messages[n + 1], Unparsed')
    <3>1. Len(Unparsed') = Len(Unparsed) + HeaderSize + Len(m)
      BY <1>5, <1>9, <1>10 DEF HeaderSize
    <3> QED
      BY <1>5, <1>9, <1>10, <3>1 DEF m, Followed
  <2>5. \E c : /\ Framed(Unparsed', FirstMessage, script.messages, j, n + 1, c)
               /\ Len(Unparsed') = c[n + 1]
    <3>1. PICK u, v, base, msgs : /\ u = Unparsed /\ v = Unparsed'
                                  /\ base = FirstMessage /\ msgs = script.messages
      OBVIOUS
    <3>2. /\ Framed(u, base, msgs, j, n, cut) /\ Len(u) = cut[n]
          /\ Followed(u, msgs[n + 1], v) /\ Sized(msgs, j + 1, n)
      BY <1>2, <2>2, <2>3, <2>4, <3>1
    <3>3. n \in Nat /\ j \in 0 .. n
      BY <1>3
    <3>4. \E c : Framed(v, base, msgs, j, n + 1, c) /\ Len(v) = c[n + 1]
      BY <3>2, <3>3, FramedMore
    <3> QED
      BY <3>1, <3>4
  <2>6. \E r : Ranked(due', Len(handled), script.messages, j, n + 1, r)
    BY <1>2, <1>3, <1>5, <1>6, <2>2, RankedMore DEF m
  <2>7. FirstMessage' = FirstMessage
    BY <1>2 DEF FirstMessage
  <2>8. ParsedUpTo(j)'
    BY <1>2, <2>5, <2>6, <2>7 DEF ParsedUpTo, n
  <2>9. j \in 0 .. n + 1
    BY <1>3
  <2> QED
    BY <2>8, <2>9
<1>16. GreetingFirst'
  <2>1. ASSUME state = "HandshakeSent", NEW i \in 1 .. HandshakeSize, i <= Len(Unparsed')
        PROVE  Unparsed'[i] = script.greeting[i]
    <3>1. HandshakeSize \in Nat
      BY ScriptAssumption DEF HandshakeSize
    <3>2. HandshakeSize <= Len(Unparsed)
      <4>1. PICK j \in 0 .. n : ParsedUpTo(j)
        BY <2>1 DEF InOrder, n
      <4>2. PICK cut : /\ Framed(Unparsed, FirstMessage, script.messages, j, n, cut)
                       /\ Len(Unparsed) = cut[n]
        BY <1>2, <4>1 DEF ParsedUpTo, n
      <4>3. j \in j .. n /\ n \in j .. n /\ j <= n
        BY <1>3
      <4> QED
        BY <2>1, <4>2, <4>3 DEF Framed, FirstMessage
    <3>3. i \in 1 .. Len(Unparsed)
      BY <1>9, <3>1, <3>2
    <3> QED
      BY <1>10, <2>1, <3>3 DEF InOrder, GreetingFirst
  <2> QED
    BY <1>2, <2>1 DEF InOrder, GreetingFirst
<1> QED
  BY <1>2, <1>12, <1>13, <1>14, <1>15, <1>16 DEF InOrder, n

\* Sequences are the same if they are as long and agree everywhere.
LEMMA SameSequence ==
    ASSUME NEW S, NEW s \in Seq(S), NEW t \in Seq(S), Len(s) = Len(t),
           \A i \in 1 .. Len(s) : s[i] = t[i]
    PROVE  s = t
OBVIOUS

\* What IsPrefix says, position by position.
LEMMA PrefixFacts ==
    ASSUME NEW S, NEW s \in Seq(S), NEW t \in Seq(S)
    PROVE  IsPrefix(s, t) <=> Len(s) <= Len(t) /\ \A i \in 1 .. Len(s) : s[i] = t[i]
<1> DEFINE n == Len(s)
<1>1. n \in 0 .. Len(s) /\ n \in Nat /\ Len(t) \in Nat
  OBVIOUS
<1>2. ASSUME n <= Len(t)
      PROVE  SubSeq(s, 1, n) = SubSeq(t, 1, n) <=> \A i \in 1 .. n : s[i] = t[i]
  <2>1. n \in 0 .. Len(t)
    BY <1>1, <1>2
  <2>2. PICK a \in Seq(S) : a = SubSeq(s, 1, n) /\ Len(a) = n /\ \A i \in 1 .. n : a[i] = s[i]
    BY <1>1, TakeFacts
  <2>3. PICK b \in Seq(S) : b = SubSeq(t, 1, n) /\ Len(b) = n /\ \A i \in 1 .. n : b[i] = t[i]
    BY <2>1, TakeFacts
  <2>4. a = b <=> \A i \in 1 .. n : a[i] = b[i]
    BY <2>2, <2>3, SameSequence
  <2>5. (\A i \in 1 .. n : a[i] = b[i]) <=> (\A i \in 1 .. n : s[i] = t[i])
    BY <2>2, <2>3
  <2> QED
    BY <2>2, <2>3, <2>4, <2>5
<1> QED
  BY <1>2 DEF IsPrefix

\* What is dropped from the first of two sequences is dropped from both together.
LEMMA DropFromFront ==
    ASSUME NEW S, NEW s \in Seq(S), NEW t \in Seq(S), NEW n \in 0 .. Len(s)
    PROVE  Dropped(s \o t, n, Drop(s, n) \o t)
<1>1. PICK b \in Seq(S) :
         /\ b = Drop(s, n) /\ Len(b) = Len(s) - n
         /\ \A i \in 1 .. Len(s) - n : b[i] = s[n + i]
  BY DropFacts
<1>2. PICK x \in Nat, y \in Nat : x = Len(s) /\ y = Len(t) /\ n \in Nat /\ n <= x
  OBVIOUS
<1>3. /\ Len(s \o t) = x + y
      /\ \A i \in 1 .. x : (s \o t)[i] = s[i]
      /\ \A i \in 1 .. y : (s \o t)[x + i] = t[i]
  BY <1>2, ConcatFacts
<1>4. /\ Len(b \o t) = (x - n) + y
      /\ \A i \in 1 .. x - n : (b \o t)[i] = b[i]
      /\ \A i \in 1 .. y : (b \o t)[(x - n) + i] = t[i]
  <2>1. /\ Len(b \o t) = Len(b) + Len(t)
        /\ \A i \in 1 .. Len(b) : (b \o t)[i] = b[i]
        /\ \A i \in 1 .. Len(t) : (b \o t)[Len(b) + i] = t[i]
    BY ConcatFacts
  <2> QED
    BY <1>1, <1>2, <2>1
<1> DEFINE u == s \o t
           v == b \o t
<1>5. ASSUME NEW i \in 1 .. (x - n) + y PROVE v[i] = u[n + i]
  <2>1. CASE i \in 1 .. x - n
    <3>1. n + i \in 1 .. x
      BY <1>2, <2>1
    <3> QED
      BY <1>1, <1>2, <1>3, <1>4, <2>1, <3>1
  <2>2. CASE i \in (x - n) + 1 .. (x - n) + y
    <3>1. PICK k \in 1 .. y : i = (x - n) + k /\ n + i = x + k
      <4>1. /\ i - (x - n) \in 1 .. y /\ i = (x - n) + (i - (x - n))
            /\ n + i = x + (i - (x - n))
        BY <1>2, <2>2
      <4> QED
        BY <4>1
    <3> QED
      BY <1>3, <1>4, <3>1
  <2>3. i \in 1 .. x - n \/ i \in (x - n) + 1 .. (x - n) + y
    BY <1>2
  <2> QED
    BY <2>1, <2>2, <2>3
<1>6. x + y \in Nat /\ n <= x + y /\ (x - n) + y = (x + y) - n
  BY <1>2
<1> QED
  BY <1>1, <1>3, <1>4, <1>5, <1>6 DEF Dropped

\* The first d bytes are taken from the buffer; the messages behind them are next.
LEMMA ParsedOn ==
    ASSUME SequenceTypes, NEW j \in 0 .. sent, NEW d \in Nat, NEW cut, NEW rank,
           Framed(Unparsed, d, script.messages, j, sent, cut),
           link = "open" => Len(Unparsed) = cut[sent],
           Ranked(due, Len(handled'), script.messages, j, sent, rank),
           Dropped(Unparsed, d, Unparsed'),
           UNCHANGED <<script, sent, due, link>>, FirstMessage' = 0
    PROVE  ParsedUpTo(j)'
<1>1. sent \in Nat /\ Sized(script.messages, j + 1, sent)
  <2>1. /\ sent \in Nat /\ Len(script.messages) \in Nat /\ sent <= Len(script.messages)
        /\ \A k \in 1 .. Len(script.messages) : Len(script.messages[k]) \in Nat
    BY ScriptFacts
  <2> QED
    BY <2>1 DEF Sized
<1>2. PICK u, v, msgs : u = Unparsed /\ v = Unparsed' /\ msgs = script.messages
  OBVIOUS
<1>3. PICK n \in Nat : n = sent /\ j \in 0 .. n
  BY <1>1
<1>4. PICK c : Framed(v, 0, msgs, j, n, c) /\ c[n] = cut[n] - d
  <2>1. Framed(u, d, msgs, j, n, cut) /\ Dropped(u, d, v) /\ Sized(msgs, j + 1, n)
    BY <1>1, <1>2, <1>3
  <2>2. \E c : Framed(v, d - d, msgs, j, n, c) /\ c[n] = cut[n] - d
    BY <1>3, <2>1, FramedDropped
  <2>3. d - d = 0
    OBVIOUS
  <2> QED
    BY <2>2, <2>3
<1>5. link' = "open" => Len(v) = c[n]
  BY <1>2, <1>3, <1>4 DEF Dropped
<1>6. Ranked(due, Len(handled'), msgs, j, n, rank)
  BY <1>2, <1>3
<1> QED
  BY <1>2, <1>3, <1>4, <1>5, <1>6 DEF ParsedUpTo

\* The handshake of our torrent is taken from the front of the bytes.
LEMMA ProcessHandshakeInOrder ==
    ASSUME InOrder, Handler, ProcessHandshake, UNCHANGED script
    PROVE  InOrder'
<1>1. CASE Disconnect
  BY <1>1, DisconnectInOrder
<1>2. CASE UNCHANGED <<connvars, peervars>>
  <2>1. UNCHANGED <<script, sent, due, handled, state, read_buffer, inflight, link>>
    BY <1>2 DEF connvars, peervars
  <2> QED
    BY <2>1, KeepsInOrder
<1>3. CASE /\ Len(read_buffer) >= HandshakeSize
           /\ Recognised(read_buffer)
           /\ state' = "Connected"
           /\ read_buffer' = Drop(read_buffer, HandshakeSize)
           /\ UNCHANGED <<handled, link, inflight, sent, due>>
  <2>1. state = "HandshakeSent"
    BY DEF Handler, ProcessHandshake
  <2>2. SequenceTypes
    BY DEF InOrder
  <2>3. /\ Unparsed \in Seq(Byte) /\ Len(Unparsed) \in Nat
        /\ Len(Unparsed) = Len(read_buffer) + Len(inflight)
        /\ Len(read_buffer) \in Nat /\ Len(inflight) \in Nat
        /\ \A i \in 1 .. Len(read_buffer) : Unparsed[i] = read_buffer[i]
        /\ \A i \in 1 .. Len(inflight) : Unparsed[Len(read_buffer) + i] = inflight[i]
    BY <2>2, UnparsedFacts
  <2>4. read_buffer \in Seq(Byte) /\ inflight \in Seq(Byte)
    BY <2>2 DEF SequenceTypes
  <2>5. PICK d \in 0 .. Len(read_buffer) : d = HandshakeSize /\ d \in Nat /\ d <= Len(Unparsed)
    <3>1. HandshakeSize \in Nat
      BY ScriptAssumption DEF HandshakeSize
    <3> QED
      BY <1>3, <2>3, <3>1
  <2>6. script.greeting = Greeting
    <3>1. /\ script.greeting \in Seq(Byte) /\ Len(script.greeting) = d
          /\ Greeting \in Seq(Byte) /\ Len(Greeting) = d
      BY <2>2, <2>5, ScriptAssumption DEF SequenceTypes, PeerScript, HandshakeSize
    <3>2. \A i \in 1 .. d : Greeting[i] = read_buffer[i]
      BY <1>3, <2>4, <3>1, PrefixFacts DEF Recognised
    <3>3. \A i \in 1 .. d : read_buffer[i] = Unparsed[i] /\ Unparsed[i] = script.greeting[i]
      <4>1. \A i \in 1 .. d : i <= Len(Unparsed) /\ i \in 1 .. Len(read_buffer)
        BY <2>3, <2>5
      <4> QED
        BY <2>1, <2>3, <2>5, <4>1 DEF InOrder, GreetingFirst
    <3> QED
      BY <3>1, <3>2, <3>3, SameSequence
  <2>7. Dropped(Unparsed, d, Unparsed') /\ read_buffer' \in Seq(Byte)
    BY <1>3, <2>4, <2>5, DropFromFront, DropFacts DEF Unparsed
  <2>8. SequenceTypes' /\ HandledIsDue'
    BY <1>3, <2>2, <2>7 DEF InOrder, SequenceTypes, HandledIsDue
  <2>9. GreetingFirst' /\ OurTorrent'
    BY <1>3, <2>6 DEF GreetingFirst, OurTorrent
  <2>10. \E j \in 0 .. sent : ParsedUpTo(j)'
    <3>1. PICK j \in 0 .. sent : ParsedUpTo(j)
      BY <2>1 DEF InOrder
    <3>2. PICK cut, rank : /\ Framed(Unparsed, d, script.messages, j, sent, cut)
                           /\ link = "open" => Len(Unparsed) = cut[sent]
                           /\ Ranked(due, Len(handled), script.messages, j, sent, rank)
      BY <2>1, <2>5, <3>1 DEF ParsedUpTo, FirstMessage
    <3> QED
      BY <1>3, <2>2, <2>3, <2>5, <2>7, <3>2, ParsedOn DEF FirstMessage
  <2> QED
    BY <1>3, <2>8, <2>9, <2>10 DEF InOrder
<1> QED
  BY <1>1, <1>2, <1>3 DEF ProcessHandshake, peervars

LEMMA MiddleFacts ==
    ASSUME NEW S, NEW s \in Seq(S), NEW h \in Nat, NEW n \in Nat, h + n <= Len(s)
    PROVE  /\ SubSeq(s, h + 1, h + n) \in Seq(S) /\ Len(SubSeq(s, h + 1, h + n)) = n
           /\ \A i \in 1 .. n : SubSeq(s, h + 1, h + n)[i] = s[h + i]
BY SMTT(30)

\* A complete message at the front of the buffer is the one that begins there.
LEMMA ParseReads ==
    ASSUME SequenceTypes, NEW k \in 1 .. Len(script.messages), Complete(read_buffer),
           \A i \in 1 .. HeaderSize + Len(script.messages[k]) :
              i <= Len(Unparsed) => Unparsed[i] = Serialize(script.messages[k])[i]
    PROVE  LET m == script.messages[k]
           IN  /\ ReadLength(read_buffer) = Len(m) /\ Consumed(read_buffer) = HeaderSize + Len(m)
               /\ HeaderSize + Len(m) <= Len(read_buffer) /\ Message(read_buffer) = m
<1> DEFINE m == script.messages[k]
<1>1. /\ m \in Seq(Byte) /\ Len(m) \in Nat /\ HeaderSize + Len(m) < Word
      /\ \A i \in 1 .. 4 : Serialize(m)[i] = Prefix(Len(m))[i]
      /\ \A i \in 1 .. Len(m) : Serialize(m)[HeaderSize + i] = m[i]
  BY MessageFacts DEF SequenceTypes
<1>2. /\ Len(Unparsed) = Len(read_buffer) + Len(inflight)
      /\ Len(read_buffer) \in Nat /\ Len(inflight) \in Nat
      /\ \A i \in 1 .. Len(read_buffer) : Unparsed[i] = read_buffer[i]
  BY UnparsedFacts
<1>3. PICK x \in Nat, y \in Nat : x = Len(read_buffer) /\ y = Len(m) /\ x >= 4
  BY <1>1, <1>2 DEF Complete, HeaderSize
<1>4. ASSUME NEW i \in 1 .. 4 + y, i <= x PROVE read_buffer[i] = Serialize(m)[i]
  <2>1. i \in 1 .. x /\ i <= Len(Unparsed)
    BY <1>2, <1>3, <1>4
  <2>2. i \in 1 .. HeaderSize + Len(m)
    BY <1>3 DEF HeaderSize
  <2> QED
    BY <1>2, <1>3, <2>1, <2>2
<1> HIDE DEF m
<1>5. ReadLength(read_buffer) = y
  <2>1. \A i \in 1 .. 4 : i \in 1 .. 4 + y /\ i <= x
    BY <1>3
  <2>2. \A i \in 1 .. 4 : read_buffer[i] = Prefix(y)[i]
    BY <1>1, <1>3, <1>4, <2>1
  <2>3. y < Word
    BY <1>1, <1>3, Units DEF HeaderSize
  <2> QED
    BY <2>2, <2>3, PrefixReads
<1>6. WithHeader(y) = 4 + y
  <2>1. 4 + y < Word /\ Word \in Nat \ {0}
    BY <1>1, <1>3, Units DEF HeaderSize
  <2>2. (4 + y) % Word = 4 + y
    BY <2>1
  <2> QED
    BY <2>2 DEF WithHeader, HeaderSize
<1>7. 4 + y <= x /\ Consumed(read_buffer) = 4 + y
  BY <1>3, <1>5, <1>6 DEF Complete, Consumed
<1>8. Message(read_buffer) = m
  <2>1. read_buffer \in Seq(Byte)
    BY DEF SequenceTypes
  <2>2. PICK t \in Seq(Byte) :
           /\ t = SubSeq(read_buffer, 4 + 1, 4 + y) /\ Len(t) = y
           /\ \A i \in 1 .. y : t[i] = read_buffer[4 + i]
    <3>1. PICK h \in Nat : h = 4 /\ h + y <= Len(read_buffer)
      BY <1>3, <1>7
    <3>2. /\ SubSeq(read_buffer, h + 1, h + y) \in Seq(Byte)
          /\ Len(SubSeq(read_buffer, h + 1, h + y)) = y
          /\ \A i \in 1 .. y : SubSeq(read_buffer, h + 1, h + y)[i] = read_buffer[h + i]
      BY <2>1, <3>1, MiddleFacts
    <3> QED
      BY <3>1, <3>2
  <2>3. ASSUME NEW i \in 1 .. y PROVE t[i] = m[i]
    <3>1. 4 + i \in 1 .. 4 + y /\ 4 + i <= x
      BY <1>3, <1>7
    <3>2. read_buffer[4 + i] = Serialize(m)[4 + i]
      BY <1>4, <3>1
    <3> QED
      BY <1>1, <1>3, <2>2, <3>2 DEF HeaderSize
  <2>4. t = m
    BY <1>1, <1>3, <2>2, <2>3, SameSequence
  <2> QED
    BY <1>7, <2>2, <2>4 DEF Message, HeaderSize
<1> QED
  BY <1>3, <1>5, <1>7, <1>8 DEF HeaderSize, m

\* The next message of the peer leaves the buffer, and is handled if it is none of
\* the keep-alives.
LEMMA ParseMessageInOrder ==
    ASSUME InOrder, Handler, ParseMessage, UNCHANGED script
    PROVE  InOrder'
<1>1. CASE UNCHANGED <<connvars, peervars>>
  <2>1. UNCHANGED <<script, sent, due, handled, state, read_buffer, inflight, link>>
    BY <1>1 DEF connvars, peervars
  <2> QED
    BY <2>1, KeepsInOrder
<1>2. CASE /\ Complete(read_buffer)
           /\ read_buffer' = Drop(read_buffer, Consumed(read_buffer))
           /\ handled' = IF ReadLength(read_buffer) = 0 THEN handled
                         ELSE Append(handled, Message(read_buffer))
           /\ UNCHANGED <<state, link, inflight, sent, due>>
  <2>1. state = "Connected" /\ FirstMessage = 0 /\ FirstMessage' = 0
    BY <1>2 DEF Handler, ParseMessage, FirstMessage
  <2>2. SequenceTypes
    BY DEF InOrder
  <2>3. PICK j \in 0 .. sent : ParsedUpTo(j)
    BY <2>1 DEF InOrder
  <2>4. PICK cut, rank : /\ Framed(Unparsed, 0, script.messages, j, sent, cut)
                         /\ link = "open" => Len(Unparsed) = cut[sent]
                         /\ Ranked(due, Len(handled), script.messages, j, sent, rank)
    BY <2>1, <2>3 DEF ParsedUpTo
  <2>5. /\ sent \in Nat /\ Len(script.messages) \in Nat /\ sent <= Len(script.messages)
        /\ \A k \in 1 .. Len(script.messages) : script.messages[k] \in Seq(Byte)
    BY <2>2, ScriptFacts
  <2>6. PICK n \in Nat : n = sent /\ j \in 0 .. n /\ n <= Len(script.messages)
    BY <2>5
  <2>7. j \in 0 .. n - 1
    <3>1. ASSUME j = n PROVE FALSE
      <4>1. Len(Unparsed) <= 0
        BY <2>4, <2>6, <3>1 DEF Framed
      <4>2. Len(Unparsed) = Len(read_buffer) + Len(inflight)
            /\ Len(read_buffer) \in Nat /\ Len(inflight) \in Nat
        BY <2>2, UnparsedFacts
      <4> QED
        BY <1>2, <4>1, <4>2 DEF Complete, HeaderSize
    <3> QED
      BY <2>6, <3>1
  <2> DEFINE k == j + 1
             m == script.messages[k]
  <2>8. k \in j + 1 .. n /\ k \in 1 .. Len(script.messages) /\ k - 1 = j /\ k \in 0 .. n
    BY <2>5, <2>6, <2>7
  <2>9. m \in Seq(Byte) /\ Len(m) \in Nat
    BY <2>5, <2>8
  <2>10. /\ cut[k] = HeaderSize + Len(m)
         /\ \A i \in 1 .. HeaderSize + Len(m) : i <= Len(Unparsed) => Unparsed[i] = Serialize(m)[i]
    <3>1. cut[j] = 0
      BY <2>4 DEF Framed
    <3>2. cut[k] = cut[k - 1] + HeaderSize + Len(m)
      BY <2>4, <2>6, <2>8 DEF Framed
    <3>3. \A i \in 1 .. HeaderSize + Len(m) :
             cut[k - 1] + i <= Len(Unparsed) => Unparsed[cut[k - 1] + i] = Serialize(m)[i]
      BY <2>4, <2>6, <2>8 DEF Framed
    <3>4. \A i \in 1 .. HeaderSize + Len(m) : 0 + i = i
      BY <2>9 DEF HeaderSize
    <3>5. cut[k - 1] = 0
      BY <2>8, <3>1
    <3>6. 0 + HeaderSize + Len(m) = HeaderSize + Len(m)
      BY <2>9 DEF HeaderSize
    <3> HIDE DEF k, m
    <3> QED
      BY <3>2, <3>3, <3>4, <3>5, <3>6
  <2>11. /\ ReadLength(read_buffer) = Len(m) /\ Consumed(read_buffer) = HeaderSize + Len(m)
         /\ HeaderSize + Len(m) <= Len(read_buffer) /\ Message(read_buffer) = m
    BY <1>2, <2>2, <2>8, <2>10, ParseReads
  <2>12. handled' = IF m = <<>> THEN handled ELSE Append(handled, m)
    <3>1. Len(m) = 0 <=> m = <<>>
      BY <2>9
    <3> QED
      BY <1>2, <2>11, <3>1
  <2> HIDE DEF k, m
  <2>13. /\ \E r : Ranked(due, rank[k], script.messages, k, n, r)
         /\ m = <<>> => rank[k] = Len(handled)
         /\ m # <<>> => /\ rank[k] = Len(handled) + 1 /\ Len(handled) + 1 <= Len(due)
                        /\ due[Len(handled) + 1] = m
    <3>1. PICK msgs, h, d : msgs = script.messages /\ h = Len(handled) /\ d = due
      OBVIOUS
    <3>2. Ranked(d, h, msgs, j, n, rank)
      BY <2>4, <2>6, <3>1
    <3>3. /\ \E r : Ranked(d, rank[j + 1], msgs, j + 1, n, r)
          /\ NextRank(d, h, msgs[j + 1], rank[j + 1])
      BY <2>6, <2>7, <3>2, RankedBehind
    <3> QED
      BY <3>1, <3>3 DEF k, m, NextRank
  <2>14. handled \in Seq(Seq(Byte)) /\ Len(handled) \in Nat
    BY <2>2 DEF SequenceTypes
  <2>15. /\ handled' \in Seq(Seq(Byte)) /\ Len(handled') = rank[k]
         /\ HandledIsDue'
    <3>1. CASE m = <<>>
      BY <1>2, <2>12, <2>13, <2>14, <3>1 DEF InOrder, HandledIsDue
    <3>2. CASE m # <<>>
      <4>1. /\ handled' = Append(handled, m) /\ due' = due
            /\ Len(handled) + 1 <= Len(due) /\ due[Len(handled) + 1] = m
            /\ rank[k] = Len(handled) + 1
        BY <1>2, <2>12, <2>13, <3>2
      <4>2. /\ handled' \in Seq(Seq(Byte)) /\ Len(handled') = Len(handled) + 1
            /\ handled'[Len(handled) + 1] = m
            /\ \A i \in 1 .. Len(handled) : handled'[i] = handled[i]
        BY <2>9, <2>14, <4>1
      <4>3. \A i \in 1 .. Len(handled) + 1 : i \in 1 .. Len(handled) \/ i = Len(handled) + 1
        BY <2>14
      <4>4. \A i \in 1 .. Len(handled) : handled[i] = due[i]
        BY DEF InOrder, HandledIsDue
      <4> QED
        BY <4>1, <4>2, <4>3, <4>4 DEF HandledIsDue
    <3> QED
      BY <3>1, <3>2
  <2>16. PICK d \in 0 .. Len(read_buffer) : d = HeaderSize + Len(m) /\ d \in Nat
    <3>1. Len(read_buffer) \in Nat
      BY <2>2 DEF SequenceTypes
    <3> QED
      BY <2>9, <2>11, <3>1 DEF HeaderSize
  <2>17. Dropped(Unparsed, d, Unparsed') /\ read_buffer' \in Seq(Byte)
    <3>1. read_buffer \in Seq(Byte) /\ inflight \in Seq(Byte)
      BY <2>2 DEF SequenceTypes
    <3>2. read_buffer' = Drop(read_buffer, d) /\ inflight' = inflight
      BY <1>2, <2>11, <2>16
    <3> QED
      BY <3>1, <3>2, DropFromFront, DropFacts DEF Unparsed
  <2>18. PICK c : Framed(Unparsed, d, script.messages, k, n, c) /\ c[n] = cut[n]
    BY <2>4, <2>6, <2>7, <2>10, <2>16, FramedBehind DEF k
  <2>19. PICK r : Ranked(due, Len(handled'), script.messages, k, n, r)
    BY <2>13, <2>15
  <2>20. ParsedUpTo(k)' /\ k \in 0 .. sent
    <3>1. link = "open" => Len(Unparsed) = c[n]
      BY <2>4, <2>6, <2>18
    <3> QED
      BY <1>2, <2>1, <2>2, <2>6, <2>8, <2>16, <2>17, <2>18, <2>19, <3>1, ParsedOn
  <2>21. SequenceTypes'
    BY <1>2, <2>2, <2>15, <2>17 DEF SequenceTypes
  <2>22. GreetingFirst' /\ OurTorrent'
    BY <1>2, <2>1 DEF GreetingFirst, InOrder, OurTorrent
  <2> QED
    BY <1>2, <2>15, <2>20, <2>21, <2>22 DEF InOrder
<1> QED
  BY <1>1, <1>2 DEF ParseMessage, QueueMessages, peervars

LEMMA InOrderInit == Init => InOrder
<1> SUFFICES ASSUME Init PROVE InOrder
  OBVIOUS
<1>1. /\ script \in PeerScript /\ inflight = script.greeting /\ sent = 0 /\ due = <<>>
      /\ state = "HandshakeSent" /\ read_buffer = <<>> /\ handled = <<>>
  BY DEF Init
<1>2. /\ script.greeting \in Seq(Byte) /\ Len(script.greeting) = HandshakeSize
      /\ script.messages \in Seq(Seq(Byte)) /\ HandshakeSize \in Nat
  BY <1>1, ScriptAssumption DEF PeerScript, HandshakeSize
<1>3. SequenceTypes
  <2>1. 0 \in 0 .. Len(script.messages)
    BY <1>2
  <2> QED
    BY <1>1, <1>2, <2>1 DEF SequenceTypes
<1>4. Unparsed = script.greeting
  BY <1>1, <1>2 DEF Unparsed
<1>5. HandledIsDue
  BY <1>1 DEF HandledIsDue
<1>6. GreetingFirst
  BY <1>1, <1>4 DEF GreetingFirst
<1>7. OurTorrent
  BY <1>1 DEF OurTorrent
<1>8. ParsedUpTo(0)
  <2> DEFINE cut  == [k \in 0 .. 0 |-> HandshakeSize]
             rank == [k \in 0 .. 0 |-> 0]
  <2>1. 0 \in 0 .. 0 /\ \A k \in 0 .. 0 : k = 0
    OBVIOUS
  <2>2. /\ cut \in [0 .. 0 -> Nat] /\ rank \in [0 .. 0 -> Nat]
        /\ cut[0] = HandshakeSize /\ rank[0] = 0
    BY <1>2, <2>1
  <2> HIDE DEF cut, rank
  <2>3. \A k \in 0 + 1 .. 0 : FALSE
    OBVIOUS
  <2>4. Framed(Unparsed, HandshakeSize, script.messages, 0, 0, cut)
    BY <1>2, <1>4, <2>1, <2>2, <2>3 DEF Framed
  <2>5. Ranked(due, 0, script.messages, 0, 0, rank) /\ Len(handled) = 0
    BY <1>1, <2>2, <2>3 DEF Ranked
  <2> QED
    BY <1>1, <1>2, <1>4, <2>2, <2>4, <2>5 DEF ParsedUpTo, FirstMessage
<1> QED
  BY <1>1, <1>3, <1>5, <1>6, <1>7, <1>8 DEF InOrder

LEMMA InOrderNext == WireInv /\ Handler /\ InOrder /\ [Next]_vars => InOrder'
<1> SUFFICES ASSUME WireInv, Handler, InOrder, [Next]_vars PROVE InOrder'
  OBVIOUS
<1>1. UNCHANGED script
  BY DEF Next, vars
<1>2. CASE Poll
  BY <1>1, <1>2, KeepsInOrder DEF Poll, connvars, peervars
<1>3. CASE HandleWrite
  <2>1. CASE Disconnect
    BY <1>1, <2>1, DisconnectInOrder
  <2>2. CASE UNCHANGED <<sent, due, handled, state, read_buffer, inflight, link>>
    BY <1>1, <2>2, KeepsInOrder
  <2> QED
    BY <1>3, <2>1, <2>2 DEF HandleWrite, connvars, peervars
<1>4. CASE HandleRead
  BY <1>1, <1>4, HandleReadInOrder
<1>5. CASE ProcessHandshake
  BY <1>1, <1>5, ProcessHandshakeInOrder
<1>6. CASE ParseMessage
  BY <1>1, <1>6, ParseMessageInOrder
<1>7. CASE PeerSends /\ UNCHANGED connvars
  BY <1>1, <1>7, PeerSendsInOrder
<1>8. CASE Close /\ UNCHANGED connvars
  BY <1>1, <1>8, CloseInOrder
<1>9. CASE (Arrive \/ MakeRoom \/ Reset) /\ UNCHANGED connvars
  <2>1. UNCHANGED <<sent, due, handled, state, read_buffer, inflight>> /\ (link' = "open" => link = "open")
    BY <1>9 DEF Arrive, MakeRoom, Reset, connvars
  <2> QED
    BY <1>1, <2>1, KeepsInOrder
<1>10. CASE UNCHANGED vars
  BY <1>1, <1>10, KeepsInOrder DEF vars, connvars, peervars
<1> QED
  BY <1>2, <1>3, <1>4, <1>5, <1>6, <1>7, <1>8, <1>9, <1>10 DEF Next, Loop, Network

\* Whatever the size of a byte, a read and the messages, and however the stream is cut,
\* what the handler was given is a prefix of what the peer has written, whole and in
\* order, and nothing of a peer of another torrent (PeerConnection::handle_read,
\* process_handshake, Message::parse).
THEOREM MessagesArriveInOrder == Spec => []MessagesInOrder
<1>1. InOrder => MessagesInOrder
  <2> SUFFICES ASSUME InOrder PROVE MessagesInOrder
    OBVIOUS
  <2>1. IsPrefix(handled, due)
    BY PrefixFacts DEF InOrder, SequenceTypes, HandledIsDue
  <2> QED
    BY <2>1 DEF MessagesInOrder, InOrder, OurTorrent
<1> QED
  BY <1>1, InOrderInit, InOrderNext, WireInvInit, WireInvNext, HandlerHolds, PTL DEF Spec
=============================================================================
