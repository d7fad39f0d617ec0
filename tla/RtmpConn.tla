------------------------------ MODULE RtmpConn ------------------------------
(* RTMP connections of format/rtmp: handshake, commands, and packets from  *)
(* WritePacket at one end to ReadPacket at the other, over chunks.  The    *)
(* client is always a Conn of the package; the server is one too, or a     *)
(* camera, which is external and may cut, compress and interleave its      *)
(* chunks as RTMP allows.                                                  *)
EXTENDS RtmpChunks, FlvTags

CONSTANTS
  Scenarios,     \* who serves, who publishes, and the streams
  Packets,       \* what WritePacket may be given, up to the data
  Tags,          \* what a camera may send
  MaxPackets,    \* bound on packets written
  MaxTags,       \* bound on tags a camera sends
  WireBound,     \* bound on tokens on their way from a camera
  SmallWindow    \* a window a camera may announce (the package's is 2500000)

Ends == {"client", "server"}
Peer(e) == IF e = "client" THEN "server" ELSE "client"

VARIABLES
  scen,      \* [server, mode, streams], as chosen
  stage,     \* Conn.stage of each end
  pc,        \* where each end is
  rd,        \* what readChunk keeps at each end
  out,       \* bufw of each end: written, not flushed
  wire,      \* on its way to each end, and bufr of it
  closed,    \* whether an end has closed the connection
  prober, streams,     \* of the end that reads
  sent,      \* history: the audio and video messages written, in order of their ends
  written,   \* history: packets given to WritePacket
  got,       \* history: packets ReadPacket returned
  cam        \* the camera: last header per chunk stream, the rest of a message

vars == <<scen, stage, pc, rd, out, wire, closed, prober, streams, sent, written, got, cam>>
media == <<prober, streams, sent, written, got>>

IsCamera(e) == e = "server" /\ scen.server = "camera"

-----------------------------------------------------------------------------
(* Messages.  Lengths are in units: a control message fits the first chunk *)
(* size, connect and its answer do not.                                    *)
Command(csid, name, arg, len) == Message(csid, "command", 0, len, [name |-> name, arg |-> arg])
SetChunkSize(n) == Message(2, "chunkSize", 0, 1, [n |-> n])
WindowAckSize(n) == Message(2, "window", 0, 1, [n |-> n])
Control(typ) == Message(2, typ, 0, 1, [name |-> typ])
Chunked(ms) == FlattenSeq([i \in DOMAIN ms |-> OneChunk(ms[i])])

NoLimit == 1000      \* 2500000 and 0xffffffff: windows nothing here fills
writeBasicConf == <<SetChunkSize(BigChunk), WindowAckSize(NoLimit), Control("bandwidth")>>

\* writeMaxChunkSize: writeSetChunkSize sets it at the start of the dialogue, before
\* any tag is written.
writeMaxChunkSize == BigChunk
TagMessage(tag, ts, len) ==
  Message(IF tag.type = "audio" THEN 6 ELSE 7, tag.type, ts, len, [tag |-> tag])

Handshake(b) == <<[tok |-> b]>>

-----------------------------------------------------------------------------
(* What a step of an end does to the connection: e has read up to rest and *)
(* writes tokens to bufw, which it flushes or not.                         *)
Exchange(e, rest, tokens, flush) ==
  LET buffered == out[e] \o tokens
  IN  /\ out' = [out EXCEPT ![e] = IF flush THEN <<>> ELSE buffered]
      /\ wire' = [wire EXCEPT ![e] = rest,
                              ![Peer(e)] = IF flush /\ ~closed[Peer(e)] THEN @ \o buffered ELSE @]
Writes(e, tokens, flush) == Exchange(e, wire[e], tokens, flush) /\ UNCHANGED rd

\* readChunk at e, with the acknowledgement it writes but does not flush.
Chunks(e) == {readChunk(rd[e], wire[e])}
Acks(r) == IF r.acked THEN OneChunk(Control("ack")) ELSE <<>>
Reads(e, r, tokens, flush) ==
  /\ Exchange(e, r.rest, Acks(r) \o tokens, flush)
  /\ rd' = [rd EXCEPT ![e] = r.rd]

Goes(e, to) == pc' = [pc EXCEPT ![e] = to]
Stages(e) == stage' = [stage EXCEPT ![e] = @ + 1]

\* e is in pollMsg, and a chunk has arrived that completes a message of that kind.
Polling == {"connect", "createStream", "readConnect", "commands", "probe", "read"}
Arrived(e, r) == pc[e] \in Polling /\ r.status = "ok" /\ r.msgs # <<>>
ArrivedCommand(e, r, name) ==
  Arrived(e, r) /\ r.msgs[1].typ = "command" /\ r.msgs[1].body.name = name

-----------------------------------------------------------------------------
(* The handshake.                                                          *)
\* handshakeClient up to its flush.
ClientHello ==
  /\ pc["client"] = "start"
  /\ Writes("client", Handshake("C0C1"), TRUE)
  /\ Goes("client", "hello")
  /\ UNCHANGED <<scen, stage, closed, media, cam>>

\* handshakeServer: C0 and C1, answered by S0, S1 and S2.
ServerHello ==
  /\ pc["server"] = "start" /\ wire["server"] # <<>>
  /\ Exchange("server", Tail(wire["server"]), Handshake("S0S1S2"), TRUE)
  /\ Goes("server", "hello")
  /\ UNCHANGED <<scen, stage, rd, closed, media, cam>>

\* The end of handshakeClient: C2 stays in the buffer.
ClientShaken ==
  /\ pc["client"] = "hello" /\ wire["client"] # <<>>
  /\ Exchange("client", Tail(wire["client"]), Handshake("C2"), FALSE)
  /\ Stages("client") /\ Goes("client", "shaken")
  /\ UNCHANGED <<scen, rd, closed, media, cam>>

ServerShaken ==
  /\ pc["server"] = "hello" /\ wire["server"] # <<>>
  /\ Exchange("server", Tail(wire["server"]), <<>>, FALSE)
  /\ Stages("server") /\ Goes("server", "readConnect")
  /\ UNCHANGED <<scen, rd, closed, media, cam>>

-----------------------------------------------------------------------------
(* The client's commands: connectPlay and connectPublish.                  *)
\* writeConnect up to its flush.
WriteConnect ==
  /\ pc["client"] = "shaken"
  /\ Writes("client", Chunked(writeBasicConf \o <<Command(3, "connect", "app", 2)>>), TRUE)
  /\ Goes("client", "connect")
  /\ UNCHANGED <<scen, stage, closed, media, cam>>

\* A window announced before the answer to connect is kept and answered, unflushed.
ConnectWindow(r) ==
  /\ pc["client"] = "connect" /\ Arrived("client", r) /\ r.msgs[1].typ = "window"
  /\ Exchange("client", r.rest, Acks(r) \o OneChunk(WindowAckSize(NoLimit)), FALSE)
  /\ rd' = [rd EXCEPT !["client"] = [r.rd EXCEPT !.ackSize = r.msgs[1].body.n]]
  /\ UNCHANGED <<scen, stage, pc, closed, media, cam>>

\* Mutant: createStream is not flushed.
ConnectResult_Unflushed(r) ==
  LET ok == r.msgs[1].body.arg = "success"
  IN  /\ pc["client"] = "connect" /\ ArrivedCommand("client", r, "_result")
      /\ Reads("client", r, IF ok THEN OneChunk(Command(3, "createStream", "none", 1)) ELSE <<>>, FALSE)
      /\ Goes("client", IF ok THEN "createStream" ELSE "failed")
      /\ UNCHANGED <<scen, stage, closed, media, cam>>

\* The answer to connect; createStream follows, and the player's buffer length.
ConnectResult(r) ==
  LET ok == r.msgs[1].body.arg = "success"
      create == <<Command(3, "createStream", "none", 1)>>
                  \o IF scen.mode = "play" THEN <<Control("user")>> ELSE <<>>
  IN  /\ pc["client"] = "connect" /\ ArrivedCommand("client", r, "_result")
      /\ Reads("client", r, IF ok THEN Chunked(create) ELSE <<>>, ok)
      /\ Goes("client", IF ok THEN "createStream" ELSE "failed")
      /\ UNCHANGED <<scen, stage, closed, media, cam>>

\* The answer to createStream; play or publish is sent, and not waited for.
StreamCreated(r) ==
  LET ok == r.msgs[1].body.arg # "none"
  IN  /\ pc["client"] = "createStream" /\ ArrivedCommand("client", r, "_result")
      /\ Reads("client", r, IF ok THEN OneChunk(Command(8, scen.mode, "path", 1)) ELSE <<>>, ok)
      /\ IF ok
         THEN Stages("client") /\ Goes("client", IF scen.mode = "play" THEN "probe" ELSE "header")
         ELSE Goes("client", "failed") /\ UNCHANGED stage
      /\ UNCHANGED <<scen, closed, media, cam>>

(* The server's commands: readConnect.                                     *)
ServerConnect(r) ==
  LET answer == writeBasicConf \o <<Command(3, "_result", "success", 2)>>
  IN  /\ pc["server"] = "readConnect" /\ ~IsCamera("server")
      /\ Arrived("server", r) /\ r.msgs[1].typ = "command"
      /\ IF r.msgs[1].body.name = "connect"
         THEN Reads("server", r, Chunked(answer), TRUE) /\ Goes("server", "commands")
         ELSE Reads("server", r, <<>>, FALSE) /\ Goes("server", "failed")
      /\ UNCHANGED <<scen, stage, closed, media, cam>>

ServerCreateStream(r) ==
  /\ pc["server"] = "commands" /\ ~IsCamera("server") /\ ArrivedCommand("server", r, "createStream")
  /\ Reads("server", r, OneChunk(Command(3, "_result", "stream1", 1)), TRUE)
  /\ UNCHANGED <<scen, stage, pc, closed, media, cam>>

\* publish is answered before OnPlayOrPublish's refusal counts; a handler that fails
\* leaves the connection open.
ServerPublish(refused, r) ==
  /\ pc["server"] = "commands" /\ ~IsCamera("server") /\ ArrivedCommand("server", r, "publish")
  /\ Reads("server", r, OneChunk(Command(5, "onStatus", "none", 2)), TRUE)
  /\ IF refused THEN Goes("server", "refused") /\ UNCHANGED stage
                ELSE Stages("server") /\ Goes("server", "probe")
  /\ UNCHANGED <<scen, closed, media, cam>>

ServerPlay(r) ==
  LET answer == <<Control("user"), Command(5, "onStatus", "none", 2), Message(5, "data", 0, 1, [name |-> "data"])>>
  IN  /\ pc["server"] = "commands" /\ ~IsCamera("server") /\ ArrivedCommand("server", r, "play")
      /\ Reads("server", r, Chunked(answer), TRUE)
      /\ Stages("server") /\ Goes("server", "header")
      /\ UNCHANGED <<scen, closed, media, cam>>

(* What the loops of both ends pass over: parts of messages, new chunk     *)
(* sizes, and messages that none of the steps above and below takes.       *)
Wanted(e, msg) ==
  \/ pc[e] = "connect" /\ (msg.typ = "window" \/ (msg.typ = "command" /\ msg.body.name = "_result"))
  \/ pc[e] = "createStream" /\ msg.typ = "command" /\ msg.body.name = "_result"
  \/ pc[e] = "readConnect" /\ msg.typ = "command"
  \/ pc[e] = "commands" /\ msg.typ = "command" /\ msg.body.name \in {"createStream", "publish", "play"}
  \/ pc[e] \in {"probe", "read"} /\ msg.typ \in {"audio", "video"}

PassOver(e, r) ==
  /\ pc[e] \in Polling /\ ~IsCamera(e) /\ r.status = "ok"
  /\ \A i \in DOMAIN r.msgs : ~Wanted(e, r.msgs[i])
  /\ pc[e] = "read" => prober.cached = <<>>
  /\ Reads(e, r, <<>>, FALSE)
  /\ UNCHANGED <<scen, stage, pc, closed, media, cam>>

-----------------------------------------------------------------------------
(* Audio and video.                                                        *)
\* A message cut in two whose timestamp is extended: its later chunks carry the
\* timestamp again and readChunk takes it for payload.
Torn(m, max) == m.ts >= FlvTimestampMax /\ m.len > max
AnyTorn == \E m \in Range(sent \o cam.ends) : m.torn
Sent(m, max) == [tag |-> m.body.tag, ts |-> m.ts, torn |-> Torn(m, max)]

\* Mutant: the sequence headers are left out.
WriteHeader_NoTags(e) ==
  /\ pc[e] = "header"
  /\ IF \A i \in DOMAIN scen.streams : InMetadata(scen.streams[i])
     THEN Writes(e, <<>>, FALSE) /\ Stages(e) /\ Goes(e, "write")
     ELSE Goes(e, "failed") /\ UNCHANGED <<stage, rd, out, wire>>
  /\ UNCHANGED <<scen, closed, media, cam>>

\* WriteHeader, from stageCommandDone on.  Sequence headers take one unit.
WriteHeader(e) ==
  LET metadata == Message(5, "data", 0, 1, [name |-> "data"])
      tags == HeaderTags(scen.streams)
      ms   == [i \in DOMAIN tags |-> TagMessage(tags[i], 0, 1)]
  IN  /\ pc[e] = "header"
      /\ IF \A i \in DOMAIN scen.streams : InMetadata(scen.streams[i])
         THEN /\ Writes(e, OneChunk(metadata)
                           \o FlattenSeq([i \in DOMAIN ms |-> weiteAVTagtoChunk(ms[i], writeMaxChunkSize)]), FALSE)
              /\ sent' = [i \in DOMAIN ms |-> Sent(ms[i], writeMaxChunkSize)]
              /\ Stages(e) /\ Goes(e, "write")
         ELSE Goes(e, "failed") /\ UNCHANGED <<stage, rd, out, wire, sent>>
      /\ UNCHANGED <<scen, closed, prober, streams, written, got, cam>>

\* WritePacket; bufw sends what it holds when it is full.
WritePacket(e) ==
  \E p \in Packets, full \in BOOLEAN :
    LET pkt == [idx |-> p.idx, time |-> p.time, cts |-> p.cts, key |-> p.key,
                data |-> [n |-> Len(written) + 1]]
        codec == scen.streams[p.idx + 1]
        m   == TagMessage(PacketToTag(pkt, codec), TimeToTs(pkt.time), p.len)
    IN  /\ pc[e] = "write" /\ Len(written) < MaxPackets /\ p.idx < Len(scen.streams)
        /\ Writes(e, weiteAVTagtoChunk(m, writeMaxChunkSize), full)
        /\ written' = Append(written, pkt)
        /\ sent' = Append(sent, Sent(m, writeMaxChunkSize))
        /\ UNCHANGED <<scen, stage, pc, closed, prober, streams, got, cam>>

\* Mutant: the trailer is not flushed.
WriteTrailer_Unflushed(e) ==
  /\ pc[e] = "write" /\ Goes(e, "trailer")
  /\ UNCHANGED <<scen, stage, rd, out, wire, closed, media, cam>>

WriteTrailer(e) ==
  /\ pc[e] = "write"
  /\ Writes(e, <<>>, TRUE) /\ Goes(e, "trailer")
  /\ UNCHANGED <<scen, stage, closed, media, cam>>

\* The tag pollAVTag returns: handleMsg has parsed its header, and payload that is
\* not what was written is not data.
TagOf(msg) ==
  LET tag == ParsedTag(msg.body.tag)
  IN  IF msg.whole \/ tag = NoTag THEN tag ELSE [tag EXCEPT !.data = [garbled |-> TRUE]]
ArrivedTag(e, r) == Arrived(e, r) /\ r.msgs[1].typ \in {"audio", "video"}

\* probe: the streams are known when enough tags were pushed, and not before.
Probe(e, r) ==
  LET pushed == PushTag(prober, TagOf(r.msgs[1]), r.msgs[1].ts)
  IN  /\ pc[e] = "probe" /\ ArrivedTag(e, r)
      /\ Reads(e, r, <<>>, FALSE)
      /\ prober' = pushed
      /\ IF Probed(pushed)
         THEN streams' = pushed.streams /\ Stages(e) /\ Goes(e, "read")
         ELSE UNCHANGED <<streams, stage, pc>>
      /\ UNCHANGED <<scen, closed, sent, written, got, cam>>

\* ReadPacket returns what the prober has put by, then what arrives.
ReadCached(e) ==
  /\ pc[e] = "read" /\ prober.cached # <<>>
  /\ got' = Append(got, Head(prober.cached))
  /\ prober' = [prober EXCEPT !.cached = Tail(@)]
  /\ UNCHANGED <<scen, stage, pc, rd, out, wire, closed, streams, sent, written, cam>>

ReadPacket(e, r) ==
  LET tag == TagOf(r.msgs[1])
  IN  /\ pc[e] = "read" /\ prober.cached = <<>> /\ ArrivedTag(e, r)
      /\ Reads(e, r, <<>>, FALSE)
      /\ got' = IF IsPacketTag(tag) THEN Append(got, TagToPacket(prober, tag, r.msgs[1].ts)) ELSE got
      /\ UNCHANGED <<scen, stage, pc, closed, prober, streams, sent, written, cam>>

(* The end of a connection.                                                *)
\* The caller closes the connection: RTMPWorker between two packets, a muxer's user
\* after the trailer or an error.  After an error a server's connection stays open.
Close(e) ==
  /\ pc[e] \in {"read", "trailer"} \/ (pc[e] = "failed" /\ e = "client")
  /\ closed' = [closed EXCEPT ![e] = TRUE]
  /\ wire' = [wire EXCEPT ![e] = <<>>] /\ out' = [out EXCEPT ![e] = <<>>]
  /\ Goes(e, "closed")
  /\ UNCHANGED <<scen, stage, rd, media, cam>>

\* A read fails at the end of a closed connection, or where it finds no chunk header.
ReadFails(e, r) ==
  /\ ~IsCamera(e)
  /\ \/ pc[e] \in Polling /\ r.status = "wait" /\ closed[Peer(e)]
     \/ pc[e] \in Polling /\ r.status = "bad"
  /\ pc[e] = "read" => prober.cached = <<>>
  /\ Goes(e, "failed")
  /\ UNCHANGED <<scen, stage, rd, out, wire, closed, media, cam>>

\* Writing to a connection the peer has closed fails sooner or later.
WriteFails(e) ==
  /\ pc[e] \in {"header", "write"} /\ closed[Peer(e)]
  /\ Goes(e, "failed")
  /\ UNCHANGED <<scen, stage, rd, out, wire, closed, media, cam>>

-----------------------------------------------------------------------------
(* A camera, external to the code.  It answers connect with or without a   *)
(* chunk size and a window of its own, or refuses and closes; then it      *)
(* sends tags.                                                             *)
Camera == IsCamera("server")
CameraAnswers(tokens) == Exchange("server", <<>>, tokens, TRUE) /\ UNCHANGED rd

CameraConnect ==
  \E max \in {InitChunk, BigChunk}, result \in {"success", "rejected", "error"} :
    /\ Camera /\ pc["server"] = "readConnect" /\ wire["server"] # <<>>
    /\ CameraAnswers(Chunked(
         (IF max # InitChunk THEN <<SetChunkSize(max)>> ELSE <<>>)
           \o <<WindowAckSize(IF max = InitChunk THEN SmallWindow ELSE NoLimit)>>
           \o IF result = "error" THEN <<Command(3, "_error", "none", 1)>>
              ELSE <<Command(3, "onBWDone", "none", 1), Command(3, "_result", result, 1)>>))
    /\ cam' = [cam EXCEPT !.max = max]
    /\ Goes("server", IF result = "success" THEN "commands" ELSE "refused")
    /\ UNCHANGED <<scen, stage, closed, media>>

CameraCreate ==
  /\ Camera /\ pc["server"] = "commands" /\ wire["server"] # <<>>
  /\ CameraAnswers(OneChunk(Command(3, "_result", "stream1", 1)))
  /\ Goes("server", "created")
  /\ UNCHANGED <<scen, stage, closed, media, cam>>

CameraPlay ==
  /\ Camera /\ pc["server"] = "created" /\ wire["server"] # <<>>
  /\ CameraAnswers(OneChunk(Command(5, "onStatus", "none", 1)))
  /\ Goes("server", "camera")
  /\ UNCHANGED <<scen, stage, closed, media, cam>>

\* The header types that say the same as m after what its chunk stream carried.
MayUse(fmt, last, m) ==
  CASE fmt = 0 -> TRUE
    [] fmt = 1 -> last.fmt # -1
    [] fmt = 2 -> last.fmt # -1 /\ last.len = m.len /\ last.typ = m.typ
    [] fmt = 3 -> last.fmt \in {1, 2} /\ last.len = m.len /\ last.typ = m.typ /\ last.delta = m.ts - last.ts
CameraHead(fmt, time, m) ==
  <<Header(fmt, m.csid, LesserOf(time, FlvTimestampMax), m.len, m.typ)>> \o Extended(time)
CameraLast(fmt, last, m) ==
  [fmt |-> IF fmt = 3 THEN last.fmt ELSE fmt, ts |-> m.ts, len |-> m.len, typ |-> m.typ,
   delta |-> IF fmt = 0 THEN 0 ELSE m.ts - last.ts]

\* Each stream has one sequence header; it may come at any time.
HeaderOnce(tag) ==
  IsPacketTag(tag) \/ ParsedTag(tag) = NoTag
    \/ \A i \in DOMAIN sent : sent[i].tag # tag

\* A message begins (none after one the reader cannot read), with a whole chunk header if it is not a packet; audio may come between two chunks of a video message.
CameraSends ==
  \E t \in Tags, fmt \in 0 .. 3 :
    LET tag  == IF "data" \in DOMAIN t.tag /\ IsPacketTag(t.tag)
                THEN [t.tag EXCEPT !.data = [n |-> cam.begun + 1]] ELSE t.tag
        ts   == cam.ts + t.step
        m    == TagMessage(tag, ts, t.len)
        last == cam.last[m.csid]
        time == IF fmt = 0 THEN ts ELSE ts - last.ts
        chunks == ChunksWith(m, CameraHead(fmt, time, m),
                             <<Header(3, m.csid, 0, 0, "none")>> \o Extended(time), cam.max)
        torn == time >= FlvTimestampMax /\ Len(chunks) > 1
        ends == [tag |-> tag, ts |-> ts, torn |-> torn]
    IN  /\ Camera /\ pc["server"] = "camera" /\ cam.begun < MaxTags
        /\ ~closed["client"] /\ Len(wire["client"]) <= WireBound /\ ~AnyTorn
        /\ cam.rest # <<>> => tag.type = "audio"
        /\ HeaderOnce(tag) /\ MayUse(fmt, last, m)
        /\ IsPacketTag(tag) \/ fmt = 0
        /\ IF Len(chunks) = 1 THEN sent' = Append(sent, ends)
                              ELSE UNCHANGED sent
        /\ cam' = [cam EXCEPT !.begun = @ + 1, !.ts = ts,
                              !.last[m.csid] = CameraLast(fmt, last, m),
                              !.rest = IF Len(chunks) = 1 THEN @ ELSE Tail(chunks),
                              !.ends = IF Len(chunks) = 1 THEN @ ELSE <<ends>>]
        /\ wire' = [wire EXCEPT !["client"] = @ \o chunks[1]]
        /\ UNCHANGED <<scen, stage, pc, rd, out, closed, prober, streams, written, got>>

CameraGoesOn ==
  /\ Camera /\ pc["server"] = "camera" /\ cam.rest # <<>>
  /\ ~closed["client"] /\ Len(wire["client"]) <= WireBound
  /\ wire' = [wire EXCEPT !["client"] = @ \o Head(cam.rest)]
  /\ IF Len(cam.rest) = 1 THEN sent' = sent \o cam.ends ELSE UNCHANGED sent
  /\ cam' = [cam EXCEPT !.rest = Tail(@), !.ends = IF Len(cam.rest) = 1 THEN <<>> ELSE @]
  /\ UNCHANGED <<scen, stage, pc, rd, out, closed, prober, streams, written, got>>

CameraLeaves ==
  /\ Camera /\ pc["server"] \in {"refused", "camera"}
  /\ closed' = [closed EXCEPT !["server"] = TRUE]
  /\ Goes("server", "closed")
  /\ UNCHANGED <<scen, stage, rd, out, wire, media, cam>>

-----------------------------------------------------------------------------
Init ==
  /\ scen \in Scenarios
  /\ stage = [e \in Ends |-> 0]
  /\ pc = [e \in Ends |-> "start"]
  /\ rd = [e \in Ends |-> NewReader]
  /\ out = [e \in Ends |-> <<>>]
  /\ wire = [e \in Ends |-> <<>>]
  /\ closed = [e \in Ends |-> FALSE]
  /\ prober = NewProber(FALSE, FALSE)
  /\ streams = <<>> /\ sent = <<>> /\ written = <<>> /\ got = <<>>
  /\ cam = [last |-> [c \in {6, 7} |-> [fmt |-> -1, ts |-> 0, len |-> 0, typ |-> "none", delta |-> 0]],
            rest |-> <<>>, ends |-> <<>>, begun |-> 0, ts |-> 0, max |-> InitChunk]

\* One goroutine per end: its steps up to stageCommandDone, and those that follow.
ClientDialogue ==
  \/ ClientHello \/ ClientShaken \/ WriteConnect
  \/ \E r \in Chunks("client") : ConnectWindow(r) \/ ConnectResult(r) \/ StreamCreated(r)
ServerDialogue ==
  \/ ServerHello \/ ServerShaken
  \/ \E r \in Chunks("server") :
       \/ ServerConnect(r) \/ ServerCreateStream(r) \/ ServerPlay(r)
       \/ \E refused \in BOOLEAN : ServerPublish(refused, r)
CameraDialogue == CameraConnect \/ CameraCreate \/ CameraPlay
Receive(e) ==
  \/ ReadCached(e)
  \/ \E r \in Chunks(e) : PassOver(e, r) \/ Probe(e, r) \/ ReadPacket(e, r) \/ ReadFails(e, r)

Next ==
  \/ ClientDialogue \/ ServerDialogue \/ CameraDialogue
  \/ \E e \in Ends : Receive(e) \/ WriteHeader(e) \/ WritePacket(e) \/ WriteTrailer(e) \/ WriteFails(e) \/ Close(e)
  \/ CameraSends \/ CameraGoesOn \/ CameraLeaves

Spec == Init /\ [][Next]_vars

\* Goroutines run when they can, and a camera answers, ends what it has begun, and
\* closes the connection when it has refused.  Nobody has to write, or to close.
FairSpec ==
  /\ Spec
  /\ WF_vars(ClientDialogue \/ Receive("client"))
  /\ WF_vars(ServerDialogue \/ Receive("server"))
  /\ WF_vars(CameraDialogue \/ (pc["server"] = "refused" /\ CameraLeaves))

-----------------------------------------------------------------------------
(* What readers ought to get, said without the prober.                     *)
TagAt(j) == ParsedTag(sent[j].tag)
Announces(tag, type) ==
  IF type = "video" THEN tag.type = "video" /\ tag.avc = "seqhdr"
  ELSE tag.type = "audio" /\ (tag.format \in {"speex", "nelly"} \/ (tag.format = "aac" /\ tag.aac = "seqhdr"))
AnnouncedAt(type) ==
  {j \in DOMAIN sent : j <= MaxProbePacketCount /\ Announces(TagAt(j), type)}
Found(type) == AnnouncedAt(type) # {}
FirstOf(type) == CHOOSE j \in AnnouncedAt(type) : \A k \in AnnouncedAt(type) : j <= k

\* The streams found among the first tags, in the order in which they were announced.
ExpectedStreams ==
  LET codec(type) == LET tag == TagAt(FirstOf(type))
                     IN  IF "codec" \in DOMAIN tag.data THEN tag.data.codec ELSE TagCodec(tag)
      one(type)   == IF Found(type) THEN <<codec(type)>> ELSE <<>>
  IN  IF Found("video") /\ Found("audio") /\ FirstOf("audio") < FirstOf("video")
      THEN one("audio") \o one("video") ELSE one("video") \o one("audio")

\* A packet's stream; one not announced by then counts as the first.
ExpectedIdx(j) ==
  LET type  == TagAt(j).type
      other == IF type = "video" THEN "audio" ELSE "video"
  IN  IF /\ Found(type) /\ FirstOf(type) <= j
         /\ Found(other) /\ FirstOf(other) < FirstOf(type) THEN 1 ELSE 0

\* Speex tags after the first are lost as long as the reader probes.
Dropped(j) ==
  /\ TagAt(j).type = "audio" /\ TagAt(j).format # "aac"
  /\ j <= MaxProbePacketCount /\ Found("audio") /\ FirstOf("audio") < j
Delivered == {j \in DOMAIN sent : IsPacketTag(TagAt(j)) /\ ~Dropped(j)}
ExpectedPacket(j) ==
  LET tag == TagAt(j)
  IN  [idx |-> ExpectedIdx(j), time |-> sent[j].ts * Milli,
       cts |-> IF tag.type = "video" THEN tag.cts * Milli ELSE 0,
       key |-> tag.type = "video" /\ tag.frame = "key", data |-> tag.data]
ExpectedPackets ==
  [i \in 1 .. Cardinality(Delivered) |->
     ExpectedPacket(CHOOSE j \in Delivered : Cardinality({k \in Delivered : k <= j}) = i)]
Reader == IF scen.mode = "play" THEN "client" ELSE "server"
Writer == Peer(Reader)

\* Whatever chunk sizes, header types and interleaving the writer uses, the reader
\* gets the messages whole, in order, at their times, and makes of them the streams
\* and packets that were sent (readChunk, Prober).
ReadsWhatWasSent ==
  AnyTorn \/ ( /\ IsPrefix(got, ExpectedPackets)
               /\ stage[Reader] = 3 => streams = ExpectedStreams )

HasHeaders(codecs) == \A i \in DOMAIN codecs : HasHeaderTag(codecs[i])
AsRead(pkt, codec) ==
  [pkt EXCEPT !.time = (@ \div Milli) * Milli,
              !.cts = IF IsVideo(codec) THEN (@ \div Milli) * Milli ELSE 0,
              !.key = @ /\ IsVideo(codec)]

\* Between two ends of the package the streams given to WriteHeader and the packets
\* given to WritePacket arrive under the same indexes, cut to milliseconds.
ReadsWhatWasWritten ==
  (scen.server = "package" /\ HasHeaders(scen.streams) /\ ~AnyTorn) =>
    /\ IsPrefix(got, [i \in DOMAIN written |-> AsRead(written[i], scen.streams[written[i].idx + 1])])
    /\ stage[Reader] = 3 => streams = scen.streams

\* The same streams and packets in an FLV file: read back in full, with each packet
\* under its stream.  A stream without a header tag is found by its first packet,
\* which must be among the tags that are probed.
FlvFileReadsBack ==
  LET file  == ReadFile(WriteFile(scen.streams, written))
      heads == Len(HeaderTags(scen.streams))
      kind(codecs, idx) == codecs[idx + 1].kind
      found(i) == \E k \in DOMAIN written : written[k].idx + 1 = i /\ heads + k <= MaxProbePacketCount
  IN  scen.server = "package" =>
        /\ file.ok <=> \A i \in DOMAIN scen.streams : HasHeaderTag(scen.streams[i]) \/ found(i)
        /\ file.ok => \A k \in DOMAIN written :
             /\ kind(file.streams, file.pkts[k].idx) = kind(scen.streams, written[k].idx)
             /\ [file.pkts[k] EXCEPT !.idx = written[k].idx]
                  = AsRead(written[k], scen.streams[written[k].idx + 1])
        /\ file.ok => Len(file.pkts) = Len(written)

\* The package's ends get through handshake and commands, or fail: neither waits for bytes
\* the other keeps in its buffer (the flushes of connectPlay, readConnect).
DialogueEnds ==
  \A e \in Ends : <>(IsCamera(e) \/ stage[e] >= 2 \/ pc[e] \in {"failed", "closed", "refused"})

\* After WriteTrailer everything written is read, if it is enough to probe, whether
\* or not the writer closes the connection then; unless the reader has left or its
\* handler was refused.
TrailerDelivers ==
  (pc[Writer] = "trailer" /\ ~AnyTorn /\ Len(sent) >= MaxProbePacketCount)
    ~> (Len(got) = Cardinality(Delivered) \/ closed[Reader] \/ pc[Reader] = "refused")
=============================================================================
