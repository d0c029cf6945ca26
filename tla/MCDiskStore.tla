------------------------------ MODULE MCDiskStore ------------------------------
(***************************************************************************)
(* TLC instance of DiskStore.                                              *)
(***************************************************************************)
EXTENDS DiskStore

\* A block over the border of the pieces, and one that leaves the torrent.
StrayRanges == {<<0, 2, 3>>, <<1, 1, 4>>}
=============================================================================
