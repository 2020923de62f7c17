---------------------------- MODULE MCTcpConnection ----------------------------
(* Words are one byte of twelve values, and ints go up to 5.  The second   *)
(* packet is the longest whose frame has a size that is an int, and holds  *)
(* the magic number and a byte like a size.  Neither the size of the third *)
(* one's frame nor what is left of it after the header is an int.          *)
EXTENDS TcpConnection

CONSTANTS client, server

BothEnds == {client, server}
ThreePackets == {<<2>>, <<3, 1>>, <<0, 3, 1, 0, 2>>}
=============================================================================
