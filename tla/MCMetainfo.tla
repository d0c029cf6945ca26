------------------------------ MODULE MCMetainfo ------------------------------
(***************************************************************************)
(* TLC instance of Metainfo: documents that are torrents, that miss a      *)
(* field or have one of another kind, and that have the text of the key    *)
(* where it does not belong.                                               *)
(***************************************************************************)
EXTENDS Metainfo, BencodeWriter

IntDoc(n)  == <<"int", n>>
StrDoc(s)  == <<"str", s>>
ListDoc(s) == <<"list", s>>
DictDoc(s) == <<"dict", s>>

File(n, path) == DictDoc(<<<<Length, IntDoc(n)>>, <<Path, path>>>>)

\* The end of an info dict: its length, or its files.
Contents ==
    { <<<<Length, IntDoc(12)>>>>,
      <<<<Length, StrDoc(<<"x">>)>>>>,
      <<>>,
      <<<<FileList, ListDoc(<<File(3, ListDoc(<<StrDoc(<<"x">>), StrDoc(<<>>)>>)), File(0, ListDoc(<<>>))>>)>>>>,
      <<<<FileList, ListDoc(<<File(-7, ListDoc(<<IntDoc(1)>>))>>)>>>>,
      <<<<FileList, ListDoc(<<DictDoc(<<>>)>>)>>>> }

InfoDicts ==
    { DictDoc(<<<<Name, name>>, <<PieceLen, IntDoc(4)>>, <<Pieces, hashes>>>> \o c) :
        name \in {StrDoc(<<"x">>), IntDoc(0)},
        hashes \in {StrDoc(<<"x", "e", "1", ":">>), StrDoc(<<"x">>)},
        c \in Contents }
    \cup {DictDoc(<<>>), StrDoc(<<"e">>)}

\* What is in front of the info dict: nothing, a comment or two, a list of tiers.
Fronts ==
    { <<>>,
      <<<<Comment, StrDoc(<<"l", "e", "d">>)>>>>,
      <<<<Comment, StrDoc(<<"x">>)>>, <<Comment, IntDoc(1)>>>>,
      <<<<Comment, StrDoc(<<"1", ":", "I", "i", "1", "e">>)>>>>,
      <<<<Announce, StrDoc(<<"x">>)>>,
        <<AnnounceList, ListDoc(<<ListDoc(<<StrDoc(<<"x">>), StrDoc(<<"y">>)>>), ListDoc(<<>>)>>)>>>>,
      <<<<AnnounceList, ListDoc(<<StrDoc(<<"x">>)>>)>>>> }

InfoOfOne == DictDoc(<<<<Name, StrDoc(<<"x">>)>>, <<PieceLen, IntDoc(4)>>,
                       <<Pieces, StrDoc(<<>>)>>, <<Length, IntDoc(12)>>>>)

BigDocuments ==
    { ListDoc(<<IntDoc(1000)>>),
      DictDoc(<<<<CreationDate, IntDoc(-1000)>>, <<Info, InfoOfOne>>>>) }

Behind == { <<>>, <<<<CreationDate, IntDoc(10)>>>> }

TorrentDocuments ==
    { DictDoc(front \o <<<<Info, info>>>> \o behind) :
        front \in Fronts, info \in InfoDicts, behind \in Behind }
    \cup {DictDoc(<<<<Comment, StrDoc(<<"x">>)>>>>), ListDoc(<<IntDoc(1)>>), StrDoc(<<"I">>)}
    \cup BigDocuments

MCChar       == STRING
MCDocument   == InsideAny(TorrentDocuments)
MCOutOfRange == TooBig(MCDocument)

FileTails == { <<"e">>, <<"x", "1", ":", "I">> }
=============================================================================
