------------------------------- MODULE MCPeerWire -------------------------------
(***************************************************************************)
(* PeerWire for TLC: bytes are binary digits, so that with its prefix a    *)
(* message has up to seven of them and its content can be part of what     *)
(* looks like a length; handshakes of two bytes, ours and another          *)
(* torrent's.                                                              *)
(***************************************************************************)
EXTENDS PeerWire

MCGreeting  == <<1, 0>>
MCGreetings == {<<1, 0>>, <<0, 1>>}
MCScripts   == {<< <<1>> >>, << <<1>>, <<>>, <<0, 1>> >>, << <<0, 1, 1>>, <<1>> >>}
=============================================================================
