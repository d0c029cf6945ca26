------------------------------ MODULE HttpAnnounce ------------------------------
(***************************************************************************)
(* HttpTracker::announce (srcs/tracker/http_tracker.cpp): one request over *)
(* a connection of its own, the answer read in pieces until the tracker    *)
(* closes, an error or 15 seconds of silence, whichever comes first, and   *)
(* what has come by then taken for the answer.                             *)
(*                                                                         *)
(* The tracker is not part of the repository: it answers with a header and *)
(* one of Answers, or with Garbage, and any number of its bytes arrive, or *)
(* with bytes that do not end.  Answers are documents of Bencode, which    *)
(* has the decoder.                                                        *)
(*                                                                         *)
(* Sizes are scaled down: PeerSize for 6, HalfInt for 2^31, PortRange for  *)
(* 2^16, Buffer for 4096.  Names of fields are one character long.  The    *)
(* variables are prefixed for the modules that extend this one.            *)
(***************************************************************************)
EXTENDS Integers, Sequences, Bencode

CONSTANTS
    Answers,                \* documents a tracker answers with
    Garbage,                \* texts that are no such answer
    BadHosts,               \* ip fields that inet_aton does not take
    PeerSize,               \* bytes of a compact peer
    HalfInt,                \* an int32_t is in -HalfInt .. HalfInt - 1
    PortRange,              \* a uint16_t is in 0 .. PortRange - 1
    Buffer                  \* most bytes one recv returns

ASSUME HttpAssumption ==
    /\ {"H", "N"} \subseteq Char
    /\ Answers \subseteq Document \ OutOfRange
    /\ \A answer \in Answers : Storable(Written(answer))
    /\ PeerSize \in Nat \ {0}
    /\ HalfInt \in Nat \ {0}
    /\ PortRange \in Nat \ {0}
    /\ Buffer \in Nat \ {0}

\* decode(data).
Decoder(text) == DecodeAt(text, 1)

\* Keys, shortened.
FailureReason  == <<"f">>
Interval       == <<"i">>
MinInterval    == <<"m">>
Complete       == <<"c">>
Incomplete     == <<"n">>
WarningMessage == <<"w">>
PeersKey       == <<"p">>
Ip             == <<"a">>
Port           == <<"o">>

VARIABLES
    http_step,              \* the next call of announce, or how it ended
    http_res,               \* res, the addresses getaddrinfo allocates
    http_fd,                \* fd
    http_answer,            \* what the tracker answers
    http_text,              \* response, then the body it is cut down to
    http_trouble,           \* the network or the host failed this call
    http_response           \* the result: TrackerResponse

httpVars == <<http_step, http_res, http_fd, http_answer, http_text, http_trouble, http_response>>

NoAnswer  == <<"none", <<>>>>
HeaderEnd == <<"N", "N">>

\* Bytes that come for ever, never 15 seconds apart.
Trickle == <<"trickle", <<>>>>

\* The bytes of an answer; those of a trickle are not told apart.
Wire(answer) ==
    IF answer[1] \in {"none", "garbage", "trickle"} THEN answer[2] ELSE <<"H">> \o HeaderEnd \o Written(answer)

DefaultInterval == 30       \* 1800 s

DefaultResponse ==
    [interval |-> DefaultInterval, min_interval |-> 0, complete |-> 0, incomplete |-> 0,
     peers |-> <<>>]

HttpInit ==
    /\ http_step = "called"
    /\ http_res = "none"
    /\ http_fd = "none"
    /\ http_answer = NoAnswer
    /\ http_text = <<>>
    /\ http_trouble = FALSE
    /\ http_response = DefaultResponse

-----------------------------------------------------------------------------
\* http_get.

\* A call of the system succeeds, or throws, after what was opened is let go.
HttpFails ==
    /\ http_step' = "failed"
    /\ http_trouble' = TRUE
    /\ UNCHANGED <<http_answer, http_text, http_response>>

Proceeds(step) ==
    /\ http_step' = step
    /\ UNCHANGED <<http_trouble, http_answer, http_text, http_response>>

\* parse_url throws, or getaddrinfo fails: "Invalid tracker URL", "DNS failed".
Resolve ==
    /\ http_step = "called"
    /\ \/ HttpFails /\ UNCHANGED http_res
       \/ Proceeds("socket") /\ http_res' = "held"
    /\ UNCHANGED http_fd

OpenSocket ==
    /\ http_step = "socket"
    /\ \/ HttpFails /\ http_res' = "freed" /\ UNCHANGED http_fd
       \/ Proceeds("connect") /\ http_fd' = "open" /\ UNCHANGED http_res

\* Mutant: only the addresses are let go.
ConnectHttpKeepsSocket ==
    /\ http_step = "connect"
    /\ http_res' = "freed"
    /\ \/ HttpFails /\ UNCHANGED http_fd
       \/ Proceeds("send") /\ UNCHANGED http_fd

ConnectHttp ==
    /\ http_step = "connect"
    /\ http_res' = "freed"
    /\ \/ HttpFails /\ http_fd' = "closed"
       \/ Proceeds("send") /\ UNCHANGED http_fd

\* The request leaves, and the tracker answers it.
SendRequest ==
    /\ http_step = "send"
    /\ \/ HttpFails /\ http_fd' = "closed"
       \/ /\ http_step' = "recv"
          /\ http_answer' \in Answers \cup {<<"garbage", text>> : text \in Garbage}
                                      \cup {Trickle}
          /\ UNCHANGED <<http_fd, http_text, http_trouble, http_response>>
    /\ UNCHANGED http_res

\* recv returns some of the bytes that follow.
RecvSome ==
    LET wire == Wire(http_answer)
    IN  /\ http_step = "recv"
        /\ \E n \in 1 .. Buffer :
              /\ Len(http_text) + n <= Len(wire)
              /\ http_text' = SubSeq(wire, 1, Len(http_text) + n)
        /\ UNCHANGED <<http_step, http_res, http_fd, http_answer, http_trouble, http_response>>

HeaderEnds(text) ==
    {i \in 1 .. Len(text) - Len(HeaderEnd) + 1 :
        SubSeq(text, i, i + Len(HeaderEnd) - 1) = HeaderEnd}

\* Mutant: rfind.
BodyOfLast(text) ==
    LET last == CHOOSE i \in HeaderEnds(text) : \A j \in HeaderEnds(text) : i >= j
    IN  SubSeq(text, last + Len(HeaderEnd), Len(text))

\* response.substr(body_start + 4).
BodyOf(text) ==
    LET first == CHOOSE i \in HeaderEnds(text) : \A j \in HeaderEnds(text) : i <= j
    IN  SubSeq(text, first + Len(HeaderEnd), Len(text))

\* recv returns 0 or less: the tracker closed, the connection was reset, or nothing
\* came for timeout_s.  The loop does not tell these apart, nor whether all has come,
\* and nothing ends it while bytes come.
RecvEnds ==
    /\ http_step = "recv"
    /\ http_answer # Trickle
    /\ http_fd' = "closed"
    /\ http_trouble' = (http_text # Wire(http_answer))
    /\ \/ HeaderEnds(http_text) = {} /\ http_step' = "failed" /\ UNCHANGED http_text
       \/ /\ HeaderEnds(http_text) # {}
          /\ http_step' = "parse"
          /\ http_text' = BodyOf(http_text)
    /\ UNCHANGED <<http_res, http_answer, http_response>>

HttpGet ==
    \/ Resolve
    \/ OpenSocket
    \/ ConnectHttp
    \/ SendRequest
    \/ RecvSome
    \/ RecvEnds

-----------------------------------------------------------------------------
\* parse_response.

\* static_cast to int32_t and to uint16_t.
Int32(n)  == ((n + HalfInt) % (2 * HalfInt)) - HalfInt
Uint16(n) == n % PortRange

CompactPeersGood(raw) == Len(raw) % PeerSize = 0

\* parse_compact_peers.
CompactPeers(raw) ==
    [i \in 1 .. Len(raw) \div PeerSize |-> SubSeq(raw, (i - 1) * PeerSize + 1, i * PeerSize)]

\* An entry without ip or port, or with one of another kind, fails the whole list ...
DictPeersGood(list) ==
    /\ AllOf(list, "dict")
    /\ \A i \in DOMAIN list :
          Required(list[i][2], Ip, "str") /\ Required(list[i][2], Port, "int")

\* ... and one whose ip is no address is skipped: parse_dict_peers.
DictPeers(list) ==
    LET good == SelectSeq(list, LAMBDA entry : entry[2][Ip][2] \notin BadHosts)
    IN  [i \in DOMAIN good |-> <<good[i][2][Ip][2], Uint16(good[i][2][Port][2])>>]

ResponseGood(d) ==
    /\ FailureReason \notin DOMAIN d
    /\ \A key \in {Interval, MinInterval, Complete, Incomplete} : Optional(d, key, "int")
    /\ Optional(d, WarningMessage, "str")
    /\ PeersKey \in DOMAIN d =>
          LET peers == d[PeersKey]
          IN  /\ peers[1] = "str"  => CompactPeersGood(peers[2])
              /\ peers[1] = "list" => DictPeersGood(peers[2])

\* The fields of a good response; peers of neither kind are ignored.
ResponseOf(d) ==
    LET IntField(key, default) == IF key \in DOMAIN d THEN Int32(d[key][2]) ELSE default
        kind == IF PeersKey \in DOMAIN d THEN d[PeersKey][1] ELSE "none"
    IN  [interval     |-> IntField(Interval, DefaultInterval),
         min_interval |-> IntField(MinInterval, 0),
         complete     |-> IntField(Complete, 0),
         incomplete   |-> IntField(Incomplete, 0),
         peers        |-> CASE kind = "str"  -> CompactPeers(d[PeersKey][2])
                            [] kind = "list" -> DictPeers(d[PeersKey][2])
                            [] OTHER         -> <<>>]

\* decode, as_dict and the checks of the fields do not throw.
BodyGood(text) ==
    LET result == Decoder(text)
    IN  Returned(result) /\ result.val[1] = "dict" /\ ResponseGood(result.val[2])

\* The texts of Garbage have no header, or nothing good behind it wherever they end.
ASSUME GarbageAssumption ==
    /\ Garbage \subseteq Seq(Char)
    /\ \A text \in Garbage : \A n \in 0 .. Len(text) :
          LET received == SubSeq(text, 1, n)
          IN  HeaderEnds(received) # {} => ~BodyGood(BodyOf(received))

\* Mutant: what decode throws is caught, and the response stays as it is.
ParseResponseCaught ==
    /\ http_step = "parse"
    /\ http_step' = "done"
    /\ http_response' = IF BodyGood(http_text) THEN ResponseOf(Decoder(http_text).val[2])
                                              ELSE http_response
    /\ UNCHANGED <<http_res, http_fd, http_answer, http_text, http_trouble>>

\* decode, as_dict and the fields: a response, an exception, or a decode that does not
\* come to an end.
ParseResponse ==
    /\ http_step = "parse"
    /\ LET good == BodyGood(http_text)
       IN  /\ http_step' = IF Decoder(http_text) = Endless THEN "looping"
                           ELSE IF good THEN "done" ELSE "failed"
           /\ http_response' = IF good THEN ResponseOf(Decoder(http_text).val[2])
                                       ELSE http_response
    /\ UNCHANGED <<http_res, http_fd, http_answer, http_text, http_trouble>>

HttpNext == HttpGet \/ ParseResponse

-----------------------------------------------------------------------------
\* http_get takes a time-out or a reset for the end of the answer, and looks at no
\* status and no length: a response is still never made of a part of one.
WholeAnswerOnly ==
    http_step = "done" =>
        /\ http_answer \in Answers /\ ~http_trouble
        /\ http_response = ResponseOf(Meant(http_answer)[2])

\* An answer that arrived whole is not turned away: where its pieces were cut, what
\* its strings hold, and what else it says make no difference.
GoodAnswersTaken ==
    http_step \in {"failed", "looping"} /\ ~http_trouble =>
        \/ http_answer[1] # "dict"
        \/ ~ResponseGood(Meant(http_answer)[2])

\* Each of the ways out of http_get lets go of what it opened: the trackers that are
\* down are asked again for as long as the program runs.
NothingHeld ==
    http_step \in {"parse", "looping", "done", "failed"} => http_res # "held" /\ http_fd # "open"
=============================================================================
