-------------------------- MODULE VerifiedDownload --------------------------
(***************************************************************************)
(* What the piece engine promises, with none of its machinery: the blocks  *)
(* of a piece are collected one by one, each at most once, in any order;   *)
(* at the moment the last one is in, the piece is judged as a whole.  A    *)
(* piece whose hash matches is completed for good; one whose hash does not *)
(* match is thrown away whole and is collected again from nothing.         *)
(*                                                                         *)
(* There are no requests, no slots, no counters and no peers here:         *)
(* PieceManager refines this specification.                                *)
(***************************************************************************)
EXTENDS Torrent

VARIABLES
    collected,              \* collected[b]: content held for block b
    completed               \* pieces that passed their hash

vdvars == <<collected, completed>>

Missing(b) == collected[b] = NoData /\ b[1] \notin completed

\* b is the only block of its piece that is not held.
LastMissing(b) == \A c \in BlocksOf(b[1]) \ {b} : collected[c] # NoData

Init ==
    /\ collected = [b \in BlockId |-> NoData]
    /\ completed = {}

Collect(b, d) ==
    /\ Missing(b)
    /\ ~LastMissing(b)
    /\ collected' = [collected EXCEPT ![b] = d]
    /\ UNCHANGED completed

\* The last block of a piece: its content is judged, and released either way.
Judge(b, d) ==
    LET p == b[1] IN
    /\ Missing(b)
    /\ LastMissing(b)
    /\ collected' = [c \in BlockId |-> IF c[1] = p THEN NoData ELSE collected[c]]
    /\ completed' = IF HashMatches(p, Content([collected EXCEPT ![b] = d], p))
                      THEN completed \cup {p}
                      ELSE completed

Next == \E b \in BlockId, d \in Payload : Collect(b, d) \/ Judge(b, d)

Spec == Init /\ [][Next]_vdvars
=============================================================================
