------------------------------ MODULE TrackerTiers ------------------------------
(***************************************************************************)
(* TrackerManager (srcs/tracker/tracker_manager.cpp): the tiers of         *)
(* trackers, the order they are tried in, and when each is due again.      *)
(*                                                                         *)
(* Time is in minutes.  What a tracker answers is the environment: in each *)
(* call a set of trackers is down, and the one that answers gives an       *)
(* interval and a min interval, each an int32_t, which may be negative: a  *)
(* tracker that answers so is due at once and stays so.  The attempts of   *)
(* one call take no time.                                                  *)
(*                                                                         *)
(* streak and lastOk are history: the failures in a row a tracker really   *)
(* had, and in which call it answered last.                                *)
(***************************************************************************)
EXTENDS Integers, Sequences, FiniteSets

CONSTANTS
    AnnounceList,           \* the tiers of the torrent, sequences of trackers
    Intervals,              \* intervals, in minutes, that trackers answer with
    MinIntervals,           \* min intervals they answer with; 0, as a negative one, is none
    Steps,                  \* minutes that can pass between two events
    MaxTime,                \* bound on the clock
    MaxCalls                \* bound on the number of announces

DefaultInterval == 30       \* 1800 s: initial interval and min_interval_
MaxBackoff      == 30       \* 1800 s

ASSUME TiersAssumption ==
    /\ AnnounceList \in Seq(Seq(STRING))
    /\ \A t \in DOMAIN AnnounceList :
          /\ AnnounceList[t] # <<>>
          /\ \A i, j \in DOMAIN AnnounceList[t] :
                AnnounceList[t][i] = AnnounceList[t][j] => i = j
    /\ Intervals \subseteq Int
    /\ MinIntervals \subseteq Int
    /\ Steps \subseteq Nat
    /\ MaxTime \in Nat /\ MaxCalls \in Nat

\* What the provers do not know of the powers of two.
ASSUME BackoffAssumption == \A n \in 0 .. 5 : 2 ^ n \in Nat

VARIABLES
    tiers,                  \* tiers_: a sequence of sequences of TierEntry
    min_interval,           \* min_interval_
    now,                    \* the steady clock
    calls,                  \* announces so far
    streak,                 \* streak[t][u]: failures in a row of u in tier t
    lastOk                  \* lastOk[t][u]: the last call u answered in, 0 for none

vars == <<tiers, min_interval, now, calls, streak, lastOk>>

Tiers       == DOMAIN AnnounceList
UrlsOf(t)   == {AnnounceList[t][i] : i \in DOMAIN AnnounceList[t]}
TierEntry   == [url : STRING, failures : Nat, interval : Int, next_announce : Int]
Response    == [interval : Intervals, min_interval : MinIntervals]

NewEntry(u) ==
    [url |-> u, failures |-> 0, interval |-> DefaultInterval, next_announce |-> 0]

Init ==
    /\ tiers = [t \in Tiers |->
                  [i \in DOMAIN AnnounceList[t] |-> NewEntry(AnnounceList[t][i])]]
    /\ min_interval = DefaultInterval
    /\ now = 0
    /\ calls = 0
    /\ streak = [t \in Tiers |-> [u \in UrlsOf(t) |-> 0]]
    /\ lastOk = [t \in Tiers |-> [u \in UrlsOf(t) |-> 0]]

-----------------------------------------------------------------------------
\* try_tier.

Lesser(x, y) == IF x < y THEN x ELSE y

\* min(60 * 2^min(failures, 5), 1800) seconds.
Backoff(failures) == Lesser(2 ^ Lesser(failures, 5), MaxBackoff)

\* Mutant: the backoff is counted from when the tracker was due.
FailedWhenDue(e) ==
    [e EXCEPT !.failures = @ + 1, !.next_announce = @ + Backoff(e.failures + 1)]

Failed(e) ==
    [e EXCEPT !.failures = @ + 1, !.next_announce = now + Backoff(e.failures + 1)]

Renewed(e, resp) ==
    [e EXCEPT !.failures = 0, !.interval = resp.interval,
              !.next_announce = now + resp.interval]

\* Mutant: the entry is copied to the front, not moved.
MovedToFrontCopied(tier, i) == [tier EXCEPT ![1] = tier[i]]

\* Mutant: the entry trades places with the first.
MovedToFrontSwapped(tier, i) == [tier EXCEPT ![1] = tier[i], ![i] = tier[1]]

\* rotate(begin, begin + i, begin + i + 1).
MovedToFront(tier, i) ==
    [k \in DOMAIN tier |-> IF k = 1 THEN tier[i]
                           ELSE IF k \in 2 .. i THEN tier[k - 1] ELSE tier[k]]

\* The index of the first tracker of the tier that is not down; 0 for none.
FirstUp(tier, down) ==
    LET up == {i \in DOMAIN tier : tier[i].url \notin down}
    IN  IF up = {} THEN 0 ELSE CHOOSE i \in up : \A j \in up : i <= j

\* The trackers before the first one that is up fail.  The reference e is to
\* slot i of the vector: after the rotation it names the entry that moved there,
\* and that entry is renewed.
TryTier(tier, down, resp) ==
    LET i     == FirstUp(tier, down)
        tried == [k \in DOMAIN tier |->
                     IF i = 0 \/ k < i THEN Failed(tier[k]) ELSE tier[k]]
    IN  IF i = 0 THEN tried
        ELSE [MovedToFront(tried, i) EXCEPT ![i] = Renewed(@, resp)]

-----------------------------------------------------------------------------
\* A call that goes through the tiers in `due`; down[t] and resp[t] say what the
\* trackers of tier t do.
Contact(due, down, resp) ==
    LET ok == {t \in due : FirstUp(tiers[t], down[t]) # 0}
        answering(t) == tiers[t][FirstUp(tiers[t], down[t])].url
        failing(t)   == {u \in UrlsOf(t) :
                           \E k \in DOMAIN tiers[t] :
                              /\ tiers[t][k].url = u
                              /\ t \notin ok \/ k < FirstUp(tiers[t], down[t])}
        mins == {min_interval} \cup {n \in {resp[t].min_interval : t \in ok} : n > 0}
    IN  /\ tiers' = [t \in Tiers |->
                       IF t \in due THEN TryTier(tiers[t], down[t], resp[t]) ELSE tiers[t]]
        /\ min_interval' \in mins /\ \A n \in mins : min_interval' <= n
        /\ streak' = [t \in Tiers |->
                        LET failed == failing(t)
                        IN  [u \in UrlsOf(t) |->
                               IF t \notin due THEN streak[t][u]
                               ELSE IF u \in failed THEN streak[t][u] + 1
                               ELSE IF t \in ok /\ u = answering(t) THEN 0
                               ELSE streak[t][u]]]
        /\ lastOk' = [t \in Tiers |-> [u \in UrlsOf(t) |->
                        IF t \in ok /\ u = answering(t) THEN calls + 1 ELSE lastOk[t][u]]]
        /\ calls' = calls + 1
        /\ UNCHANGED now

\* The trackers at the front of each tier that fail, as many as the environment likes;
\* the first one behind them answers.
Failing ==
    {[t \in Tiers |-> {tiers[t][k].url : k \in 1 .. n[t]}] :
        n \in {n \in [Tiers -> UNION {0 .. Len(tiers[t]) : t \in Tiers}] :
                 \A t \in Tiers : n[t] <= Len(tiers[t])}}

Call(due) ==
    /\ calls < MaxCalls
    /\ \E down \in Failing, resp \in [Tiers -> Response] : Contact(due, down, resp)

\* announce: every tier, due or not.
Announce == Call(Tiers)

\* reannounce_if_due: the tiers whose first tracker is due.
DueTiers == {t \in Tiers : now >= tiers[t][1].next_announce}

ReannounceIfDue ==
    /\ DueTiers # {}
    /\ Call(DueTiers)

Tick ==
    /\ \E d \in Steps : now + d <= MaxTime /\ now' = now + d
    /\ UNCHANGED <<tiers, min_interval, calls, streak, lastOk>>

\* stop contacts the first tracker of each tier and records nothing.
Next == Announce \/ ReannounceIfDue \/ Tick

Spec == Init /\ [][Next]_vars

-----------------------------------------------------------------------------
\* The types of the variables.
TiersTypeOK ==
    /\ DOMAIN tiers = Tiers
    /\ \A t \in Tiers : \A i \in DOMAIN tiers[t] : tiers[t][i] \in TierEntry
    /\ min_interval \in Nat
    /\ now \in 0 .. MaxTime
    /\ calls \in 0 .. MaxCalls

\* try_tier reorders a vector it is iterating over: no sequence of answers and
\* failures loses a tracker of a tier or puts one in twice.
TrackersKept ==
    \A t \in Tiers :
        /\ Len(tiers[t]) = Len(AnnounceList[t])
        /\ {tiers[t][i].url : i \in DOMAIN tiers[t]} = UrlsOf(t)

\* tracker_manager.hpp: "on success the successful tracker is moved to the front of
\* its tier".  However answers and failures alternate, a tier is ordered by how
\* recently its trackers answered, those that never did behind.
RecentFirst ==
    \A t \in Tiers : \A j, k \in DOMAIN tiers[t] :
        j < k => lastOk[t][tiers[t][k].url] <= lastOk[t][tiers[t][j].url]

\* No tracker waits longer than the longest interval answered or 30 minutes, whatever
\* mix of failures, answers and rotations it went through, though announce contacts it
\* whether it is due or not, so that a backoff begins while an interval runs (try_tier).
NobodyWaitsLonger ==
    \A t \in Tiers : \A i \in DOMAIN tiers[t] :
        LET wait == tiers[t][i].next_announce - now
        IN  wait <= MaxBackoff \/ \E r \in Intervals : wait <= r

\* tracker_manager.hpp: "Exponential backoff (up to 1800s) on consecutive failures":
\* the failures an entry counts are the failures in a row its tracker had.
FailuresAreConsecutive ==
    \A t \in Tiers : \A i \in DOMAIN tiers[t] :
        tiers[t][i].failures = streak[t][tiers[t][i].url]
=============================================================================
