-------------------------------- MODULE PeerWire --------------------------------
(***************************************************************************)
(* One PeerConnection (srcs/peer/peer_connection.cpp) on the EventLoop     *)
(* (srcs/net/event_loop.cpp): the bytes of a peer arrive in pieces of any  *)
(* size, the socket takes as many of ours as it has room for, and the      *)
(* connection tells the loop which events it wants to be called for.       *)
(*                                                                         *)
(* The thread goes round poll, handle_write, handle_read, and back; pc is  *)
(* where it is.  Bytes arrive and leave between any two of its steps.      *)
(*                                                                         *)
(* A byte is a digit below Base, a length prefix has four of them, most    *)
(* significant first.  What is sent is only counted, what is read is       *)
(* parsed byte by byte.  The peer writes its handshake, then its messages  *)
(* one after the other, whenever it likes.                                 *)
(***************************************************************************)
EXTENDS Integers, Sequences, SequencesExt

CONSTANTS
    Base,                   \* values of a byte, 256 in the code
    Greeting,               \* a handshake of our torrent, a sequence of bytes;
                            \* the peer id, which is not compared, is left out
    Greetings,              \* the handshakes peers open with, all of one length
    Scripts,                \* the message sequences peers send after it
    RecvMax,                \* most bytes one recv returns, 4096 in the code
    MsgSize,                \* bytes of a message we send
    MaxReplies,             \* most messages the handler queues for one of the peer's
    Room                    \* bytes the socket's send buffer holds

ASSUME WireAssumption ==
    /\ Base \in Nat \ {0}
    /\ RecvMax \in Nat \ {0}
    /\ MsgSize \in Nat \ {0}
    /\ MaxReplies \in Nat
    /\ Room \in Nat \ {0}

HeaderSize == 4
Byte       == 0 .. Base - 1

\* The values of a uint32_t.
Word == Base * Base * Base * Base

\* The length of a message and its prefix fits in a uint32_t.
ASSUME ScriptAssumption ==
    /\ Greeting \in Seq(Byte) /\ Greeting # <<>>
    /\ \A g \in Greetings : g \in Seq(Byte) /\ Len(g) = Len(Greeting)
    /\ \A s \in Scripts :
          /\ s \in Seq(Seq(Byte))
          /\ \A k \in DOMAIN s : HeaderSize + Len(s[k]) < Word

VARIABLES
    pc,                     \* where the thread is
    state,                  \* PeerConnection::state_
    read_buffer,            \* PeerConnection::read_buffer_
    write_buffer,           \* bytes in PeerConnection::write_buffer_
    registered,             \* events of the entry in registered_, {} for no entry
    pollfds,                \* events of the entry in pollfds_
    dirty,                  \* EventLoop::dirty_
    revents,                \* the events poll reported
    link,                   \* "open", "closed" by the peer, or "reset"
    inflight,               \* bytes the peer sent that recv has not returned
    arrived,                \* how many of them recv could return now
    room,                   \* bytes the socket would take now
    script,                 \* the peer's handshake and messages, fixed at Init
    sent,                   \* how many of these messages it has written
    due,                    \* history: the ones written, without the keep-alives
    handled                 \* messages given to message_handler_

loopvars == <<pc, registered, pollfds, dirty, revents>>
connvars == <<state, read_buffer, write_buffer, handled>>
peervars == <<link, inflight, arrived, room, sent, due>>
vars == <<loopvars, connvars, peervars, script>>

ConnectionState == {"Disconnected", "HandshakeSent", "Connected"}
Both   == {"POLLIN", "POLLOUT"}
PC     == {"poll", "write", "read", "handshake", "parse"}
Link   == {"open", "closed", "reset"}

Lesser(x, y) == IF x < y THEN x ELSE y

-----------------------------------------------------------------------------
\* The bytes of a message and their parse (srcs/peer/message.cpp).

\* write_u32: unit is the value of one in the byte's place.
ByteOf(n, unit) == (n \div unit) % Base
Prefix(n) == <<ByteOf(n, Base * Base * Base), ByteOf(n, Base * Base), ByteOf(n, Base), ByteOf(n, 1)>>

\* A message is the sequence of its id and payload; the empty one is a keep-alive.
Serialize(m) == Prefix(Len(m)) \o m

\* read_u32.
ReadLength(b) == b[1] * (Base * Base * Base) + b[2] * (Base * Base) + b[3] * Base + b[4]

\* 4 + length, in 32 bits.
WithHeader(n) == (HeaderSize + n) % Word

\* ParseResult::complete.
Complete(buffer) ==
    /\ Len(buffer) >= HeaderSize
    /\ Len(buffer) >= WithHeader(ReadLength(buffer))

\* Mutant: the prefix is not consumed.
ConsumedSansHeader(buffer) == IF ReadLength(buffer) = 0 THEN HeaderSize ELSE ReadLength(buffer)

\* ParseResult::consumed_bytes.
Consumed(buffer) == WithHeader(ReadLength(buffer))

\* ParseResult::message.
Message(buffer) == SubSeq(buffer, HeaderSize + 1, Consumed(buffer))

Drop(s, n) == SubSeq(s, n + 1, Len(s))

\* The handshake (srcs/peer/handshake.cpp): 68 bytes from either side.  It is
\* accepted if its protocol string and its info hash are ours.
HandshakeSize == Len(Greeting)
Recognised(buffer) == IsPrefix(Greeting, buffer)

-----------------------------------------------------------------------------
\* What a peer opens with and sends after it.
PeerScript == [greeting : Greetings, messages : Scripts]

\* The state after start(): the handshake is queued, connect() is in progress.
Init ==
    /\ script \in PeerScript
    /\ inflight = script.greeting
    /\ sent = 0
    /\ due = <<>>
    /\ pc = "poll"
    /\ state = "HandshakeSent"
    /\ read_buffer = <<>>
    /\ write_buffer = HandshakeSize
    /\ registered = Both
    /\ pollfds = {}
    /\ dirty = TRUE
    /\ revents = {}
    /\ link = "open"
    /\ arrived = 0
    /\ room = 0
    /\ handled = <<>>

\* Mutant: the change of the entry does not mark the poll set.
ModifyClean(events) == registered' = events /\ UNCHANGED dirty

Modify(events) == registered' = events /\ dirty' = TRUE

\* disconnect(): the entry is removed; the loop never calls us again.
Disconnect ==
    /\ state' = "Disconnected"
    /\ registered' = {}
    /\ dirty' = TRUE
    /\ pc' = "poll"
    /\ UNCHANGED <<read_buffer, write_buffer, handled, pollfds, revents, peervars>>

-----------------------------------------------------------------------------
\* run_once: the poll set is rebuilt if it is stale, and poll reports every event
\* of it that is due.

Due(e) ==
    CASE e = "POLLIN"  -> arrived > 0 \/ link # "open"
      [] e = "POLLOUT" -> room > 0 \/ link = "reset"

Poll ==
    /\ pc = "poll"
    /\ pollfds' = IF dirty THEN registered ELSE pollfds
    /\ dirty' = FALSE
    /\ revents' = {e \in pollfds' : Due(e)}
    /\ revents' # {}
    /\ pc' = "write"
    /\ UNCHANGED <<registered, connvars, peervars>>

\* What send accepts of the write buffer.
Accepted == Lesser(room, write_buffer)

\* Mutant: write interest is dropped after any send.
AfterSendAlways(left) == Modify({"POLLIN"})

AfterSend(left) ==
    IF left = 0 THEN Modify({"POLLIN"}) ELSE UNCHANGED <<registered, dirty>>

\* on_socket_event calls handle_write first; a send that throws skips the read.
HandleWrite ==
    /\ pc = "write"
    /\ \/ /\ "POLLOUT" \notin revents \/ write_buffer = 0
          /\ pc' = "read"
          /\ UNCHANGED <<registered, pollfds, dirty, revents, connvars, peervars>>
       \/ /\ "POLLOUT" \in revents /\ write_buffer > 0 /\ link = "reset"
          /\ Disconnect
       \/ /\ "POLLOUT" \in revents /\ write_buffer > 0 /\ link # "reset"
          /\ write_buffer' = write_buffer - Accepted
          /\ room' = room - Accepted
          /\ AfterSend(write_buffer - Accepted)
          /\ pc' = "read"
          /\ UNCHANGED <<pollfds, revents, state, read_buffer, handled,
                         link, inflight, arrived, sent, due>>

\* How many bytes recv returns.
Received == Lesser(RecvMax, arrived)

HandleRead ==
    /\ pc = "read"
    /\ \/ /\ "POLLIN" \notin revents
          /\ pc' = "poll"
          /\ UNCHANGED <<registered, pollfds, dirty, revents, connvars, peervars>>
       \/ /\ "POLLIN" \in revents
          /\ link = "reset" \/ arrived = 0
          /\ Disconnect
       \/ /\ "POLLIN" \in revents /\ link # "reset" /\ arrived > 0
          /\ read_buffer' = read_buffer \o SubSeq(inflight, 1, Received)
          /\ inflight' = Drop(inflight, Received)
          /\ arrived' = arrived - Received
          /\ pc' = IF state = "HandshakeSent" THEN "handshake" ELSE "parse"
          /\ UNCHANGED <<registered, pollfds, dirty, revents,
                         state, write_buffer, handled, link, room, sent, due>>

\* Mutant: handle_read returns after the handshake.
AfterHandshakeReturn == "poll"

\* handle_read goes on to parse what came with the handshake.
AfterHandshake == "parse"

ProcessHandshake ==
    /\ pc = "handshake"
    /\ \/ /\ Len(read_buffer) < HandshakeSize
          /\ pc' = "poll"
          /\ UNCHANGED <<registered, pollfds, dirty, revents, connvars, peervars>>
       \/ /\ Len(read_buffer) >= HandshakeSize
          /\ Recognised(read_buffer)
          /\ state' = "Connected"
          /\ read_buffer' = Drop(read_buffer, HandshakeSize)
          /\ pc' = AfterHandshake
          /\ UNCHANGED <<registered, pollfds, dirty, revents,
                         write_buffer, handled, peervars>>
       \/ /\ Len(read_buffer) >= HandshakeSize
          /\ ~Recognised(read_buffer)
          /\ Disconnect

\* Mutant: the message is queued and the loop is not told.
QueueMessagesUntold(n) ==
    /\ write_buffer' = write_buffer + n * MsgSize
    /\ UNCHANGED <<registered, dirty>>

\* n calls of queue_message by the handler.
QueueMessages(n) ==
    /\ write_buffer' = write_buffer + n * MsgSize
    /\ IF n > 0 THEN Modify(Both) ELSE UNCHANGED <<registered, dirty>>

\* One iteration of the loop in handle_read.
ParseMessage ==
    /\ pc = "parse"
    /\ \/ /\ ~Complete(read_buffer)
          /\ pc' = "poll"
          /\ UNCHANGED <<registered, pollfds, dirty, revents, connvars, peervars>>
       \/ /\ Complete(read_buffer)
          /\ read_buffer' = Drop(read_buffer, Consumed(read_buffer))
          /\ IF ReadLength(read_buffer) = 0
               THEN UNCHANGED <<handled, write_buffer, registered, dirty>>
               ELSE /\ handled' = Append(handled, Message(read_buffer))
                    /\ \E n \in 0 .. MaxReplies : QueueMessages(n)
          /\ UNCHANGED <<pc, pollfds, revents, state, peervars>>

Loop == Poll \/ HandleWrite \/ HandleRead \/ ProcessHandshake \/ ParseMessage

-----------------------------------------------------------------------------
\* The network and the peer.

\* The peer writes its next message; one without content is a keep-alive.
PeerSends ==
    /\ link = "open"
    /\ sent < Len(script.messages)
    /\ sent' = sent + 1
    /\ LET m == script.messages[sent + 1]
       IN  /\ inflight' = inflight \o Serialize(m)
           /\ due' = IF m = <<>> THEN due ELSE Append(due, m)
    /\ UNCHANGED <<link, arrived, room>>

Arrive ==
    /\ link # "reset"
    /\ arrived < Len(inflight)
    /\ \E n \in arrived + 1 .. Len(inflight) : arrived' = n
    /\ UNCHANGED <<link, inflight, room, sent, due>>

\* connect() completes, or the peer reads: the socket takes more.
MakeRoom ==
    /\ link # "reset"
    /\ room < Room
    /\ \E n \in room + 1 .. Room : room' = n
    /\ UNCHANGED <<link, inflight, arrived, sent, due>>

\* The peer closes; what it had not sent is never sent.
Close ==
    /\ link = "open"
    /\ link' = "closed"
    /\ inflight' = SubSeq(inflight, 1, arrived)
    /\ UNCHANGED <<arrived, room, sent, due>>

Reset ==
    /\ link # "reset"
    /\ link' = "reset"
    /\ UNCHANGED <<inflight, arrived, room, sent, due>>

Network == (PeerSends \/ Arrive \/ MakeRoom \/ Close \/ Reset) /\ UNCHANGED <<loopvars, connvars>>

Next == (Loop \/ Network) /\ UNCHANGED script

\* The thread runs.  A peer that keeps its connection sends what it has to send
\* and reads what it is sent.
Fairness ==
    /\ WF_vars(Loop /\ UNCHANGED script)
    /\ WF_vars(PeerSends /\ UNCHANGED <<loopvars, connvars, script>>)
    /\ WF_vars(Arrive /\ UNCHANGED <<loopvars, connvars, script>>)
    /\ WF_vars(MakeRoom /\ UNCHANGED <<loopvars, connvars, script>>)

Spec == Init /\ [][Next]_vars /\ Fairness

-----------------------------------------------------------------------------
\* The types of the variables.
WireTypeOK ==
    /\ pc \in PC
    /\ state \in ConnectionState
    /\ write_buffer \in Nat
    /\ registered \subseteq Both
    /\ pollfds \subseteq Both
    /\ dirty \in BOOLEAN
    /\ revents \subseteq Both
    /\ link \in Link
    /\ arrived \in 0 .. Len(inflight)
    /\ room \in 0 .. Room
    /\ sent \in 0 .. Len(script.messages)

\* The messages a peer has for us, keep-alives left out.
Expected ==
    IF script.greeting = Greeting
      THEN SelectSeq(script.messages, LAMBDA m : m # <<>>) ELSE <<>>

\* However TCP cuts and joins the stream, message_handler_ is given what the peer
\* sent, whole and in order, and nothing of a peer of another torrent.
MessagesInOrder ==
    /\ IsPrefix(handled, due)
    /\ script.greeting # Greeting => handled = <<>>

\* handle_read leaves no message behind: when the thread waits in poll, which may
\* be for ever, every message that was received whole has been handled.
NoMessageLeftBehind ==
    pc = "poll" /\ state = "Connected" => ~Complete(read_buffer)

\* An open connection asks for POLLOUT exactly while it has something to send:
\* never less, or a request waits for ever, and never more, or the loop spins.
WriteInterest ==
    state # "Disconnected" =>
        registered = IF write_buffer > 0 THEN Both ELSE {"POLLIN"}

\* poll waits for the events the connection last asked for: an entry that was
\* changed or removed since the poll set was built has marked it dirty.
PollSetCurrent == dirty \/ pollfds = registered

\* What is queued is sent, as long as the peer reads and the connection lasts.
QueuedIsSent == write_buffer > 0 ~> (write_buffer = 0 \/ link # "open" \/ state = "Disconnected")

\* Every message of a peer that keeps the connection is handled.
EverythingHandled == <>(handled = Expected \/ link # "open")
=============================================================================
