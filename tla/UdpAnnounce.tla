------------------------------ MODULE UdpAnnounce ------------------------------
(***************************************************************************)
(* UdpTracker::announce (srcs/tracker/udp_tracker.cpp): connect, then      *)
(* announce, each a datagram that is sent up to four times with a doubling *)
(* timeout, over a network that loses, delays, duplicates and reorders     *)
(* datagrams.  The tracker is not part of the repository: it answers what  *)
(* it receives, and refuses a connection id older than ServerValidity.     *)
(*                                                                         *)
(* Time passes in units of 15 seconds, base_timeout_s.  All attempts of an *)
(* exchange carry the same transaction id and the same bytes, so neither   *)
(* end can tell them apart: the network holds a set of actions, and what   *)
(* it delivers may stay in it (a duplicate, or a later attempt's copy).    *)
(* The socket is new and is closed at the end, so nothing of an earlier    *)
(* announce arrives.                                                       *)
(***************************************************************************)
EXTENDS Naturals

CONSTANTS
    MaxAttempts,            \* attempts of send_recv, 4 in the code
    ServerValidity          \* 120 s: how long the tracker accepts one

ASSUME UdpAssumption ==
    /\ MaxAttempts \in Nat \ {0}
    /\ ServerValidity \in Nat

\* What the provers do not know of the powers of two.
ASSUME DoublingAssumption ==
    /\ 2 ^ 0 = 1
    /\ \A n \in 0 .. MaxAttempts :
          /\ 2 ^ n \in Nat \ {0}
          /\ n < MaxAttempts => 2 ^ (n + 1) = 2 * 2 ^ n /\ 2 ^ (n + 1) <= 2 ^ MaxAttempts

VARIABLES
    phase,                  \* the exchange under way, or how announce ended
    attempt,                \* attempt of the current send_recv, from 0
    waited,                 \* time since this attempt was sent
    age,                    \* time since do_connect returned the connection id
    elapsed,                \* time since announce was called
    requests,               \* actions of datagrams on their way to the tracker
    replies,                \* actions of datagrams on their way to the client
    answered                \* the tracker answered an announce with success

vars == <<phase, attempt, waited, age, elapsed, requests, replies, answered>>

Exchange == {"connect", "announce"}
Phase    == Exchange \cup {"called", "opened", "done", "failed"}

\* Twice the patience of send_recv: all attempts of both exchanges time out.
LongestCall == 2 * (2 ^ MaxAttempts - 1)

Waiting == phase \in Exchange

Init ==
    /\ phase = "called"
    /\ attempt = 0
    /\ waited = 0
    /\ age = 0
    /\ elapsed = 0
    /\ requests = {}
    /\ replies = {}
    /\ answered = FALSE

-----------------------------------------------------------------------------
\* The client.

\* Mutant: the wait of an attempt is the one logged for the next.
TimeoutNext(n) == 2 ^ (n + 1)

\* base_timeout_s * (1 << attempt).
Timeout(n) == 2 ^ n

Fail ==
    /\ phase' = "failed"
    /\ UNCHANGED <<attempt, waited, requests>>

\* send, or "UDP send() failed".
Send(action, n) ==
    \/ /\ phase' = action
       /\ attempt' = n
       /\ waited' = 0
       /\ requests' = requests \cup {action}
    \/ Fail

\* Mutant: the attempts are not counted.
NextAttemptForever ==
    IF attempt + 1 < MaxAttempts THEN Send(phase, attempt) ELSE Fail

\* recv returned nothing: the next attempt, or "timed out after 4 attempts".
NextAttempt ==
    IF attempt + 1 < MaxAttempts THEN Send(phase, attempt + 1) ELSE Fail

\* connect_udp resolves the host, opens a socket and connects it, or one of these fails.
ConnectUdp ==
    /\ phase = "called"
    /\ \/ phase' = "opened" /\ UNCHANGED <<attempt, waited, requests>>
       \/ Fail
    /\ UNCHANGED <<age, elapsed, replies, answered>>

\* do_connect sends its first attempt.
Connect ==
    /\ phase = "opened"
    /\ Send("connect", 0)
    /\ UNCHANGED <<age, elapsed, replies, answered>>

\* SO_RCVTIMEO expired.
TimedOut ==
    /\ Waiting
    /\ waited >= Timeout(attempt)
    /\ NextAttempt
    /\ UNCHANGED <<age, elapsed, replies, answered>>

\* recv failed at once: the tracker's host refused a datagram, or a signal came.
RecvFailed ==
    /\ Waiting
    /\ NextAttempt
    /\ UNCHANGED <<age, elapsed, replies, answered>>

\* do_connect takes a connect reply to any attempt; do_announce sends.
Connected(r) ==
    /\ phase = "connect" /\ r = "connect"
    /\ Send("announce", 0)
    /\ age' = 0

\* Mutant: what arrives in the second exchange is taken for its reply.
AnnouncedAny(r) ==
    /\ phase = "announce"
    /\ phase' = "done"
    /\ UNCHANGED <<attempt, waited, age, requests>>

\* do_announce takes an announce reply to any attempt.
Announced(r) ==
    /\ phase = "announce" /\ r = "announce"
    /\ phase' = "done"
    /\ UNCHANGED <<attempt, waited, age, requests>>

\* An error has the wrong action, or is too short, for either exchange; a connect reply
\* is 16 bytes, "too short" for an announce reply.  Each throws, and no further attempt
\* is made: the late reply to an earlier attempt of the connect ends the announce.
Rejected(r) ==
    /\ Waiting /\ r # phase
    /\ Fail
    /\ UNCHANGED age

Receive(r) ==
    /\ r \in replies
    /\ Connected(r) \/ Announced(r) \/ Rejected(r)
    /\ replies' \in {replies, replies \ {r}}
    /\ UNCHANGED <<elapsed, answered>>

-----------------------------------------------------------------------------
\* The network and the tracker.

Lose ==
    /\ \/ \E q \in requests : requests' = requests \ {q} /\ UNCHANGED replies
       \/ \E r \in replies : replies' = replies \ {r} /\ UNCHANGED requests
    /\ UNCHANGED <<phase, attempt, waited, age, elapsed, answered>>

\* The tracker may refuse either request for reasons of its own.
Answer(q) ==
    /\ q \in requests
    /\ requests' \in {requests, requests \ {q}}
    /\ \E r \in {q, "error"} :
          /\ q = "announce" /\ age > ServerValidity => r = "error"
          /\ replies' = replies \cup {r}
          /\ answered' = (answered \/ r = "announce")
    /\ UNCHANGED <<phase, attempt, waited, age, elapsed>>

\* Time does not pass a timeout that is due.  elapsed stops one past LongestCall.
Tick ==
    /\ Waiting
    /\ waited < Timeout(attempt)
    /\ waited' = waited + 1
    /\ elapsed' = IF elapsed > LongestCall THEN elapsed ELSE elapsed + 1
    /\ age' = IF phase = "announce" THEN age + 1 ELSE age
    /\ UNCHANGED <<phase, attempt, requests, replies, answered>>

Next ==
    \/ ConnectUdp
    \/ Connect
    \/ TimedOut
    \/ RecvFailed
    \/ \E r \in replies : Receive(r)
    \/ Lose
    \/ \E q \in requests : Answer(q)
    \/ Tick

Spec == Init /\ [][Next]_vars

-----------------------------------------------------------------------------
\* The types of the variables.
UdpTypeOK ==
    /\ phase \in Phase
    /\ attempt \in 0 .. MaxAttempts - 1
    /\ waited \in 0 .. 2 ^ attempt
    /\ age \in 0 .. LongestCall
    /\ elapsed \in 0 .. LongestCall + 1
    /\ requests \subseteq Exchange
    /\ replies \subseteq Exchange \cup {"error"}
    /\ answered \in BOOLEAN

\* Session::fetch_peers blocks in announce before the first peer is contacted:
\* whatever the network loses, repeats or delays, one tracker keeps it no longer
\* than the eight timeouts of the two exchanges (send_recv, 450 s).
BoundedWait == elapsed <= LongestCall

\* do_announce returns a response only when the tracker accepted this announce,
\* never by taking a late reply of the first exchange for it.
ResultIsTheTrackers == phase = "done" => answered
=============================================================================
