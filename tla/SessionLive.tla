------------------------------ MODULE SessionLive ------------------------------
(***************************************************************************)
(* Does a download finish?  Session among peers that behave as well as     *)
(* peers can: seeds that complete the handshake, announce every piece,     *)
(* unchoke once they are told we are interested, and answer every request  *)
(* they hold, with the torrent's own data.                                 *)
(*                                                                         *)
(* Fairness: RequestNext is code that is running, so it continues.  The    *)
(* event loop serves every readable socket, so what a seed sends is        *)
(* received; that it sends is what makes it a seed.                        *)
(*                                                                         *)
(* A mishap is something ordinary that a swarm does now and then.  Each    *)
(* specification adds one kind of mishap, at most MaxMishaps of them, to   *)
(* the seeds' behaviour.                                                   *)
(***************************************************************************)
EXTENDS Session

CONSTANTS
    Genuine,                \* the content the torrent has
    MaxMishaps              \* bound on the number of mishaps

ASSUME LiveAssumption == Genuine \in Payload /\ MaxMishaps \in Nat

VARIABLE mishaps            \* mishaps so far

livevars == <<vars, mishaps>>

\* Every connection was started without an error.
LiveInit ==
    /\ Init
    /\ conn = [p \in Peers |-> "HandshakeSent"]
    /\ mishaps = 0

Announce(p)    == bitfield[p] = {} /\ Bitfield(p, Pieces)
Welcome(p)     == told[p] /\ peer_choking[p] /\ Unchoke(p)
Serve(p, b)    == Answer(p, b, Genuine)

SeedStep ==
    /\ \E p \in Peers :
          \/ Handshake(p)
          \/ RequestNext(p)
          \/ Announce(p)
          \/ Welcome(p)
          \/ \E b \in BlockId : Serve(p, b)
    /\ UNCHANGED mishaps

SeedFairness ==
    \A p \in Peers :
        /\ WF_livevars(Handshake(p) /\ UNCHANGED mishaps)
        /\ WF_livevars(RequestNext(p) /\ UNCHANGED mishaps)
        /\ WF_livevars(Announce(p) /\ UNCHANGED mishaps)
        /\ WF_livevars(Welcome(p) /\ UNCHANGED mishaps)
        /\ \A b \in BlockId : WF_livevars(Serve(p, b) /\ UNCHANGED mishaps)

Mishap == mishaps < MaxMishaps /\ mishaps' = mishaps + 1

\* A block is damaged: its piece fails the hash.
Damage(p) ==
    /\ Mishap
    /\ \E b \in BlockId, d \in Payload \ {Genuine} : Answer(p, b, d)

\* A seed leaves while another one stays.
Leave(p) ==
    /\ Mishap
    /\ \E q \in Peers \ {p} : conn[q] # "Disconnected"
    /\ Lost(p)

DamageSpec ==
    /\ LiveInit
    /\ [][SeedStep \/ \E p \in Peers : Damage(p)]_livevars
    /\ SeedFairness

LeaveSpec ==
    /\ LiveInit
    /\ [][SeedStep \/ \E p \in Peers : Leave(p)]_livevars
    /\ SeedFairness

-----------------------------------------------------------------------------
\* README: "capable of downloading and verifying torrent data end to end".
EveryPieceCompletes == <>(completed = Pieces)

\* Every block that was requested is eventually received.
RequestsAreServed ==
    \A b \in BlockId : bstate[b] = "Requested" ~> bstate[b] # "Requested"
=============================================================================
