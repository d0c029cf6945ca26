----------------------------- MODULE MCTrackerTiers -----------------------------
(***************************************************************************)
(* TrackerTiers for TLC: a tier of three trackers over a tier of one; and  *)
(* one tier of two for longer runs of failures.                            *)
(***************************************************************************)
EXTENDS TrackerTiers

MCAnnounceList == << <<"a", "b", "c">>, <<"d">> >>
MCOneTier      == << <<"a", "b">> >>

MCIntervals    == {-3, 40}
MCMinIntervals == {-20}
=============================================================================
