----------------------------- MODULE MCMp4File -----------------------------
(* Mp4File with small packets: steady and unsteady gaps, a packet out of      *)
(* order, key frames, composition times and sizes that change.                *)
EXTENDS Mp4File

Packet(gap, cts, size, key) == [gap |-> gap, cts |-> cts, size |-> size, key |-> key]

MCTracks == {<< "H264", "AAC" >>, << "AAC" >>, << "H264" >>, << "H265" >>, << "H264", "H264" >>}
MCShapes ==
  {Packet(5, 0, 1, TRUE), Packet(5, 4, 2, FALSE), Packet(25, 50, 1, TRUE), Packet(47, 0, 2, FALSE),
   Packet(-1, 0, 1, TRUE)}
MCChunkings == {<<>>, << 1 >>, << 2 >>, << 2, 1 >>, << 1, 2 >>, << 1, 1, 1 >>, << 2, 2 >>, << 3, 1 >>}
=============================================================================
