----------------------------- MODULE MCRtmpConn -----------------------------
(* RtmpConn on small instances: a probe of two tags, a timestamp that is *)
(* extended from 2 ms on, times in halves of a millisecond.                *)
EXTENDS RtmpConn

H264 == [kind |-> "h264", ch |-> 0]
AAC == [kind |-> "aac", ch |-> 2]
Speex == [kind |-> "speex", ch |-> 1]
Nelly == [kind |-> "nelly", ch |-> 1]
MCScenarios ==
  {[server |-> "package", mode |-> "publish", streams |-> s] :
     s \in {<<AAC, H264>>, <<Speex, H264>>, <<Speex>>, <<Nelly>>}}
  \cup {[server |-> s, mode |-> "play", streams |-> <<H264, AAC>>] : s \in {"package", "camera"}}

Packet(idx, time, cts, key, len) == [idx |-> idx, time |-> time, cts |-> cts, key |-> key, len |-> len]
MCPackets == {Packet(0, 0, 0, TRUE, 1), Packet(0, 3, 0, TRUE, 3), Packet(1, 2, 3, FALSE, 3),
              Packet(1, 5, 2, TRUE, 2)}

Tag(tag, len, step) == [tag |-> tag, len |-> len, step |-> step]
Frame(frame, cts) == VideoTag("nalu", frame, cts, [n |-> 0])
Raw == AudioTag("aac", "raw", TRUE, [n |-> 0])
MCTags == {Tag(CodecDataToTag(H264), 1, 0), Tag(CodecDataToTag(AAC), 1, 0),
           Tag(Frame("inter", 1), 3, 1), Tag(Raw, 1, 1), Tag(Raw, 1, 2), Tag(Frame("info", 0), 1, 0)}
=============================================================================
