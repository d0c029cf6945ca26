----------------------------- MODULE MCTierAnnounce -----------------------------
(***************************************************************************)
(* TierAnnounce for TLC: UDP and HTTP trackers in several orders, one tier *)
(* with a scheme of another kind, two with a scheme twice; answers that    *)
(* are accepted, that refuse, that have peers in each form, and that hold  *)
(* what the reader looks for.                                              *)
(***************************************************************************)
EXTENDS TierAnnounce, BencodeWriter

IntDoc(n)  == <<"int", n>>
StrDoc(s)  == <<"str", s>>
ListDoc(s) == <<"list", s>>
DictDoc(s) == <<"dict", s>>

MCChar == STRING

MCTierOrders == { <<"udp", "http">>, <<"http", "udp">>, <<"other", "http">>,
                  <<"udp", "udp">>, <<"http", "http", "udp">> }

PeerDoc(ip, port) == DictDoc(<<<<Ip, ip>>, <<Port, port>>>>)

PeerDocs ==
    { StrDoc(<<>>), StrDoc(<<"N", "N", "x">>), StrDoc(<<"e", "N", "N", "d", "e", "x">>),
      StrDoc(<<"x">>), IntDoc(1),
      ListDoc(<<>>),
      ListDoc(<<PeerDoc(StrDoc(<<"b">>), IntDoc(1)), PeerDoc(StrDoc(<<"h">>), IntDoc(9))>>),
      ListDoc(<<PeerDoc(StrDoc(<<"h">>), IntDoc(1)), DictDoc(<<>>)>>) }

IntervalDocs == { <<>>, <<<<Interval, IntDoc(70)>>>>, <<<<Interval, StrDoc(<<"x">>)>>>> }

MCAnswers ==
    { DictDoc(interval \o <<<<PeersKey, peers>>>>) : interval \in IntervalDocs, peers \in PeerDocs }
    \cup { DictDoc(<<>>), ListDoc(<<>>),
           DictDoc(<<<<FailureReason, StrDoc(<<"x">>)>>>>),
           DictDoc(<<<<MinInterval, IntDoc(5)>>, <<Complete, IntDoc(3)>>, <<Incomplete, IntDoc(0)>>,
                     <<WarningMessage, StrDoc(<<"w">>)>>>>) }

MCDocument   == InsideAny(MCAnswers)
MCOutOfRange == TooBig(MCDocument)

\* The last is a list whose string ends behind the last size_t, in front of itself.
MCGarbage  == { <<"d", "e">>, <<"H", "N">>, <<"H", "N", "N">>, <<"H", "N", "N", "x">>,
                <<"H", "N", "N", "l", "1", "9", "6", ":">> }
MCBadHosts == { <<"b">> }
=============================================================================
