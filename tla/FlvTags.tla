------------------------------ MODULE FlvTags ------------------------------
(* Tags of audio and video as format/flv makes them from packets, and the  *)
(* prober that finds out from tags which streams there are.  RTMP messages *)
(* and FLV files carry the same tags.  Payloads are opaque.                *)
EXTENDS Integers, SequencesExt

CONSTANTS
  MaxProbePacketCount,   \* tags the prober looks at
  Milli                  \* units of a packet's time in a millisecond
ASSUME ProbeAssumption == MaxProbePacketCount \in Nat \ {0} /\ Milli \in Nat \ {0}

\* A codec is its kind and its number of channels (0 for video).
IsVideo(codec) == codec.kind = "h264"

\* TimeToTs and TsToTime: whole milliseconds; times are not negative here.
TimeToTs(time) == time \div Milli
TsToTime(ts) == ts * Milli

VideoTag(avc, frame, cts, data) ==
  [type |-> "video", avc |-> avc, frame |-> frame, cts |-> cts, data |-> data]
AudioTag(format, aac, stereo, data) ==
  [type |-> "audio", format |-> format, aac |-> aac, stereo |-> stereo, data |-> data]
NoTag == [type |-> "none"]

\* CodecDataToTag: the sequence header of a stream; Speex and Nellymoser have none.
HasHeaderTag(codec) == codec.kind \in {"h264", "aac"}
CodecDataToTag(codec) ==
  IF IsVideo(codec)
  THEN VideoTag("seqhdr", "key", 0, [codec |-> codec])
  ELSE AudioTag("aac", "seqhdr", codec.ch = 2, [codec |-> codec])
HeaderTags(streams) ==
  LET with == SelectSeq(streams, HasHeaderTag)
  IN  [i \in DOMAIN with |-> CodecDataToTag(with[i])]

\* NewMetadataByStreams refuses every codec but these.
InMetadata(codec) == codec.kind \in {"h264", "aac", "speex"}

\* PacketToTag: of the audio formats only AAC says how many channels there are.
PacketToTag(pkt, codec) ==
  IF IsVideo(codec)
  THEN VideoTag("nalu", IF pkt.key THEN "key" ELSE "inter", TimeToTs(pkt.cts), pkt.data)
  ELSE AudioTag(codec.kind, IF codec.kind = "aac" THEN "raw" ELSE "none",
                codec.kind = "aac" /\ codec.ch = 2, pkt.data)

\* handleMsg keeps an empty tag of a video frame that is neither key nor inter.
ParsedTag(tag) ==
  IF tag.type = "video" /\ tag.frame \notin {"key", "inter"} THEN NoTag ELSE tag

-----------------------------------------------------------------------------
(* Prober.                                                                 *)
NewProber(hasAudio, hasVideo) ==
  [hasAudio |-> hasAudio, hasVideo |-> hasVideo, gotAudio |-> FALSE, gotVideo |-> FALSE,
   videoIdx |-> 0, audioIdx |-> 0, pushed |-> 0, streams |-> <<>>, cached |-> <<>>]

Probed(p) ==
  IF p.hasAudio \/ p.hasVideo
  THEN p.hasAudio = p.gotAudio /\ p.hasVideo = p.gotVideo
  ELSE p.pushed = MaxProbePacketCount

\* The tags TagToPacket makes packets of.
IsPacketTag(tag) ==
  \/ tag.type = "video" /\ tag.avc = "nalu"
  \/ tag.type = "audio" /\ tag.format \in {"speex", "nelly"}
  \/ tag.type = "audio" /\ tag.format = "aac" /\ tag.aac = "raw"

TagToPacket(p, tag, ts) ==
  LET video == tag.type = "video"
  IN  [idx  |-> IF video THEN p.videoIdx ELSE p.audioIdx,
       time |-> TsToTime(ts),
       cts  |-> IF video THEN TsToTime(tag.cts) ELSE 0,
       key  |-> video /\ tag.frame = "key",
       data |-> tag.data]

CacheTag(p, tag, ts) == [p EXCEPT !.cached = Append(@, TagToPacket(p, tag, ts))]

\* A stream is appended to Streams once; its index is where it landed.
FoundVideo(p, codec) ==
  IF p.gotVideo THEN p
  ELSE [p EXCEPT !.gotVideo = TRUE, !.videoIdx = Len(p.streams), !.streams = Append(@, codec)]
FoundAudio(p, codec) ==
  IF p.gotAudio THEN p
  ELSE [p EXCEPT !.gotAudio = TRUE, !.audioIdx = Len(p.streams), !.streams = Append(@, codec)]

\* The codec a Speex or Nellymoser tag stands for, at a fixed sample rate.
TagCodec(tag) == [kind |-> tag.format, ch |-> IF tag.stereo THEN 2 ELSE 1]

\* PushTag, once it has counted the tag and found it within the limit.
Pushed(p, tag, ts) ==
  CASE tag.type = "video" /\ tag.avc = "seqhdr" -> FoundVideo(p, tag.data.codec)
    [] tag.type = "audio" /\ tag.format = "aac" /\ tag.aac = "seqhdr" -> FoundAudio(p, tag.data.codec)
    [] tag.type = "audio" /\ tag.format \in {"speex", "nelly"} ->
         IF p.gotAudio THEN p ELSE CacheTag(FoundAudio(p, TagCodec(tag)), tag, ts)
    [] IsPacketTag(tag) /\ (tag.type = "audio" => tag.format = "aac") -> CacheTag(p, tag, ts)
    [] OTHER -> p
TooMany(p) == p.pushed + 1 > MaxProbePacketCount
PushTag(p, tag, ts) == Pushed([p EXCEPT !.pushed = @ + 1], tag, ts)

-----------------------------------------------------------------------------
(* FLV files: Muxer and Demuxer.  A file is its flags and its tags.        *)
FileTags(streams, pkts) ==
  LET heads == HeaderTags(streams)
  IN  [i \in DOMAIN heads |-> [tag |-> heads[i], ts |-> 0]]
        \o [i \in DOMAIN pkts |-> [tag |-> PacketToTag(pkts[i], streams[pkts[i].idx + 1]),
                                   ts  |-> TimeToTs(pkts[i].time)]]

\* Mutant: the last stream's flag overwrites the others.
WriteFile_LastFlag(streams, pkts) ==
  [hasVideo |-> IsVideo(streams[Len(streams)]), hasAudio |-> ~IsVideo(streams[Len(streams)]),
   tags |-> FileTags(streams, pkts)]

WriteFile(streams, pkts) ==
  [hasVideo |-> \E i \in DOMAIN streams : IsVideo(streams[i]),
   hasAudio |-> \E i \in DOMAIN streams : ~IsVideo(streams[i]),
   tags     |-> FileTags(streams, pkts)]

\* Demuxer.prepare and ReadPacket up to the end of the file: a tag goes to the
\* prober until it has probed, and is a packet afterwards.
ReadTagOfFile(d, t) ==
  CASE d.failed                       -> d
    [] ~d.failed /\ Probed(d.prober)  ->
         IF IsPacketTag(t.tag)
         THEN [d EXCEPT !.read = Append(@, TagToPacket(d.prober, t.tag, t.ts))] ELSE d
    [] ~d.failed /\ ~Probed(d.prober) ->
         IF TooMany(d.prober) THEN [d EXCEPT !.failed = TRUE]
         ELSE [d EXCEPT !.prober = PushTag(d.prober, t.tag, t.ts)]

\* What Streams and the calls of ReadPacket return; a file that ends before its
\* streams are known fails.
ReadFile(file) ==
  LET d == FoldLeft(ReadTagOfFile,
                    [prober |-> NewProber(file.hasAudio, file.hasVideo), read |-> <<>>, failed |-> FALSE],
                    file.tags)
  IN  [ok      |-> ~d.failed /\ Probed(d.prober),
       streams |-> d.prober.streams,
       pkts    |-> d.prober.cached \o d.read]
=============================================================================
