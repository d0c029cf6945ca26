------------------------------ MODULE TierAnnounce ------------------------------
(***************************************************************************)
(* TrackerManager::try_tier (srcs/tracker/tracker_manager.cpp) over the    *)
(* trackers it calls: the trackers of one tier are asked in turn until one *)
(* accepts the announce.  The announce of a UDP tracker is UdpAnnounce,    *)
(* that of an HTTP tracker HttpAnnounce, each from its initial state: what *)
(* an announce keeps it keeps in local variables and in a socket of its    *)
(* own.  A URL of another scheme makes make_tracker throw.  How the tier   *)
(* is reordered and when it is due again is TrackerTiers.                  *)
(***************************************************************************)
EXTENDS UdpAnnounce, HttpAnnounce

CONSTANT TierOrders         \* the tiers: sequences of schemes, none of them empty

ASSUME TierAssumption ==
    \A order \in TierOrders : order \in Seq({"udp", "http", "other"}) /\ order # <<>>

VARIABLES
    tier,                   \* the schemes of the trackers, in their order
    turn,                   \* i: the tracker whose announce runs
    ended,                  \* history: how the announces of those in front of it ended
    outcome                 \* "trying", the peers of a tracker, or {}

tierOnly   == <<tier, turn, ended, outcome>>
tierVars   == <<vars, httpVars, tierOnly>>

TierInit ==
    /\ Init
    /\ HttpInit
    /\ tier \in TierOrders
    /\ turn = 1
    /\ ended = <<>>
    /\ outcome = "trying"

Asked(scheme) == outcome = "trying" /\ tier[turn] = scheme

\* The announce of the tracker whose turn it is, until it returns or throws.
UdpTurn ==
    /\ Asked("udp") /\ phase \notin {"done", "failed"}
    /\ Next
    /\ UNCHANGED <<httpVars, tierOnly>>

HttpTurn ==
    /\ Asked("http")
    /\ HttpNext
    /\ UNCHANGED <<vars, tierOnly>>

Accepted ==
    \/ Asked("udp") /\ phase = "done"
    \/ Asked("http") /\ http_step = "done"

\* An announce threw, or make_tracker did: "Unsupported tracker scheme".
CallThrew ==
    \/ Asked("udp") /\ phase = "failed"
    \/ Asked("http") /\ http_step = "failed"
    \/ Asked("other")

Return ==
    /\ Accepted
    /\ outcome' = "peers"
    /\ UNCHANGED <<vars, httpVars, tier, turn, ended>>

\* The announce is over, and the next one has nothing of it: Init and HttpInit again.
\* Its socket is closed, and what is on its way to it arrives nowhere.
NewAnnounce ==
    /\ phase' = "called" /\ attempt' = 0 /\ waited' = 0 /\ age' = 0 /\ elapsed' = 0
    /\ requests' = {} /\ replies' = {} /\ answered' = FALSE
    /\ http_step' = "called" /\ http_res' = "none" /\ http_fd' = "none"
    /\ http_answer' = NoAnswer /\ http_text' = <<>> /\ http_trouble' = FALSE
    /\ http_response' = DefaultResponse

\* How the announce ended.
Ending == CASE tier[turn] = "udp"   -> phase
            [] tier[turn] = "http"  -> http_step
            [] tier[turn] = "other" -> "failed"

\* Mutant: a tracker that throws ends the call, as it would without the try.
CatchEnds ==
    /\ CallThrew
    /\ ended' = Append(ended, Ending)
    /\ outcome' = "nothing"
    /\ NewAnnounce
    /\ UNCHANGED <<tier, turn>>

\* The catch: the next tracker, or no peers from this tier.
Catch ==
    /\ CallThrew
    /\ ended' = Append(ended, Ending)
    /\ IF turn < Len(tier)
         THEN turn' = turn + 1 /\ UNCHANGED outcome
         ELSE outcome' = "nothing" /\ UNCHANGED turn
    /\ NewAnnounce
    /\ UNCHANGED tier

TierNext == UdpTurn \/ HttpTurn \/ Return \/ Catch

\* The tracker asked sends bytes for ever, or its answer keeps decode busy for ever.
NeverAnswers ==
    /\ Asked("http")
    /\ http_answer = Trickle \/ http_step = "looping"

\* The thread runs, time passes, and the kernel ends a receive that timed out.  Every
\* step that leaves "parse" is a ParseResponse, which is enabled as long as it is there.
TierFairness ==
    /\ WF_tierVars(Asked("udp") /\ (ConnectUdp \/ Connect) /\ UNCHANGED <<httpVars, tierOnly>>)
    /\ WF_tierVars(Asked("udp") /\ Tick /\ UNCHANGED <<httpVars, tierOnly>>)
    /\ WF_tierVars(Asked("udp") /\ TimedOut /\ UNCHANGED <<httpVars, tierOnly>>)
    /\ WF_tierVars(Asked("http") /\ HttpGet /\ UNCHANGED <<vars, tierOnly>>)
    /\ WF_http_step(http_step = "parse" /\ http_step' \in {"looping", "done", "failed"})
    /\ WF_tierVars(Return \/ Catch)

TierSpec == TierInit /\ [][TierNext]_tierVars /\ TierFairness

-----------------------------------------------------------------------------
\* The call comes back whatever the networks lose, delay or repeat and however trackers
\* fail, unless one of them never answers: TrackerManager::announce blocks the thread
\* that starts the session, and the tiers behind wait for this one.
TierReturns == <>(outcome # "trying") \/ <>[]NeverAnswers

\* Failover: a tier gives peers that a tracker sent in answer to this announce, the
\* announces to those in front of it, of whatever schemes, having failed each; and it
\* gives nothing only when all have.
FirstAcceptanceCounts ==
    /\ \A i \in DOMAIN ended : ended[i] = "failed"
    /\ Len(ended) = IF outcome = "nothing" THEN Len(tier) ELSE turn - 1
    /\ outcome = "peers" =>
          CASE tier[turn] = "udp"  -> answered
            [] tier[turn] = "http" -> http_answer \in Answers
            [] OTHER               -> FALSE
=============================================================================
