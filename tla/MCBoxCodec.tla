----------------------------- MODULE MCBoxCodec -----------------------------
(* BoxCodec with every box type, an audio and a video track, packets that    *)
(* differ from each other in one thing.                                      *)
EXTENDS BoxCodec

Packet(gap, cts, size, key) == [gap |-> gap, cts |-> cts, size |-> size, key |-> key]

MCVideo == << FALSE, TRUE >>
MCShapes ==
  {Packet(5, 0, 1, FALSE), Packet(7, 0, 1, FALSE), Packet(5, 4, 1, FALSE),
   Packet(5, 0, 2, FALSE), Packet(5, 0, 1, TRUE)}
OneVideo == << TRUE >>
EarlyShapes == {Packet(5, 0, 1, FALSE), Packet(5, -5, 1, FALSE), Packet(5, 4, 2, TRUE)}
=============================================================================
