# A verification project for the media server

The program (module `mse`, Go) pulls cameras over RTSP and RTMP and serves them to
browsers as fragmented MP4, over websockets and over HTTP; it also plays and exports a
disk archive of MP4 recordings. Around that core the repository carries a library of
formats and codecs (a descendant of joy4/vdk), much of which the program never calls.

This directory holds TLA+ models of the program, the TLC runs that check them on small
instances, and TLAPS proofs of what matters most for every instance. `PROJECT.json`
says which lines of the code each definition stands for.

To check a run: `tlc -workers 2 -config Queue.cfg MCPacketQueue.tla`.
To check the proofs of a module: `tlapm PacketQueueProofs.tla`.

## 1. The system

### Parts of the program itself

| part | code | state | operations |
|---|---|---|---|
| Stream registry | `config.go` | `Config.Streams`, a map from uuid to `*Stream`; per stream `URL`, `Type`, `RunLock`, `Codecs`, `CountConnect`, `Cl` (the channels of its viewers); one `sync.RWMutex` | `PushStream`, `RemoveStream`, `ext`, `Run`, `RunUnlock`, `connectIncrease/Decrease/Get`, `clAd`, `clDe`, `coGe`, `cast` |
| Camera workers | `stream.go` `RTSPWorker`, `RTMPWorker` | a connection, its codecs | dial, read a packet, `cast` it, reconnect, stop when nobody watches |
| Live sessions | `http.go` `online`, `onlineHttp`; `stream.go` `PlayStreamRTSP`, `PlayStreamRTSPHTTP`, `InitMuxer` | a channel of 100 packets, a muxer, a 30 s timer, a reader goroutine for a websocket | count, register, wait for codecs, send a header, loop, unregister, uncount |
| API | `http.go` `player`, `remove` and others | none | call the registry |
| Archive files | `archive.go` `files`, `filesStream`, `sortPath` | none | choose and order recordings by the time in their names |
| Archive export | `http.go` `archive`, `archive.go` `send` | a goroutine that reads files, two unbuffered channels | one MP4 for a time window |
| Archive playback | `http.go` `wsArchive`, `httpArchive`; `stream.go` `ArchiveWorker`, `PlayStreamArchive` | worker, player and reader goroutines, three unbuffered channels | paced playback with a filler clip in gaps |
| Fragmenting muxer | `format/mp4f` | per track: the open fragment, its data, its decode time; one fragment index | `WriteHeader`, `WritePacket` |
| Start, log, pages | `main.go`, `logger.go`, `web/` | none | |

### The library

RTSP client (`format/rtsp`, used by the workers), RTMP (`format/rtmp` over `format/flv`, used
by the workers), MP4 (`format/mp4` with its boxes `mp4io`, used to read the archive and to write
an export) and `av/avutil`, `av`, the codec parsers and `utils/bits` underneath them. Not reached
from the program: the packet queue (`av/pubsub`, `av/pktque/buf.go`), the second RTSP client and
proxy (`format/rtspv2`), DVRIP, both WebRTC muxers, `format/mp4m`, `format/fmp4`, the packet filters
and the transcoder. `cgo/ffmpeg` binds C code that is not here; of it the program calls
`FileDuration`.

| part | code | state | operations |
|---|---|---|---|
| RTSP client | `format/rtsp` | a connection, a stage, per track a timestamp and a NAL unit in pieces | `Options`, `Describe`, `SetupAll`, `Play`, `ReadPacket`, `Streams` |
| RTMP connection | `format/rtmp` | stage, chunk sizes, one half-read message per chunk stream, a prober | `prepare`, `ReadPacket`, `WriteHeader`, `WritePacket`, `WriteTrailer` |
| FLV | `format/flv` | a prober's found streams and cached packets | `PushTag`, `TagToPacket`, `PacketToTag`, a file |
| MP4 file | `format/mp4` | muxer: a packet a track that waits, the tables; demuxer: a cursor of eleven numbers a track | `WritePacket`, `WriteTrailer`, `ReadPacket`, `SeekToTime` |
| Boxes | `mp4io`, `mp4fio`, `fmp4io`, `esio` | none | `Len`, `Marshal`, `Unmarshal`, `ReadFileAtoms` |
| Fragmenter | `format/fmp4` | pending packets a track, a sequence number | `WritePacket`, `Fragment`, `NewSegment` |
| Packet queue | `av/pubsub` | a ring of packets, cursors, a condition variable | `WritePacket`, `ReadPacket`, `Close` |

### How they interact

* Sessions, workers and API callers share the registry. Everything goes through
  `Config.mutex`, except `PushStream`, `RemoveStream` and `ext`, which touch the map
  without it, and the worker's reads of `RunLock` and write of `Codecs`.
* `Run` starts the worker of a stream if `RunLock` is clear. `cast`, under the mutex,
  puts a packet in the channel of every registered viewer and drops it for a viewer whose
  channel is full.
* `InitMuxer` writes the first message to a client's socket while it holds the mutex.
* A websocket session's reader goroutine reports a failed socket on an unbuffered channel.
* The archive worker, player and reader meet on three unbuffered channels: codecs,
  packets and one status, which has two receivers.
* Every session owns a muxer. A mid-stream change of codecs, in the archive, is another
  `WriteHeader` on the same muxer.

### What is hard in it

Goroutines that meet through a registry with three kinds of access to it; cleanup that is
spread over deferred calls, early returns and panics; workers that replace themselves;
channels that are closed under a sender; sessions that must end however their peer left;
a ring buffer read by slow cursors that were overtaken; wakeups; offsets of files spliced
into one time line; rounding and wrapping of decode times; messages cut into chunks whose
headers say less and less; two ends that each wait for what the other has not flushed; file
cursors of many numbers that must agree; a format that three packages write by hand. `PROJECT.json` lists these
hazards at the lines where they bite.

### What makes each component correct

* Registry: a stream has at most one worker; `RunLock` is set exactly when it has one;
  nobody sends on a closed channel; the count says how many watch; sessions end; a camera
  nobody watches is let go; the process stays up.
* Packet queue: a cursor reads the log in order, skips only what was discarded, gets end
  of file only at the end, and is woken whenever there is something for it.
* Export: exactly the packets of the window, from its first key frame on, with times
  that go on from file to file.
* Playback: a packet follows its own header; time goes forward; what is played is what
  the archive clock says; order.
* RTSP client: an answer belongs to its request; a client that waits for packets has a
  camera that streams; a packet is one whole slice with its exact time; a change of
  parameter sets is noticed.
* Muxer: each sample in one fragment, in order; fragments tile the time line; rounding
  does not add up beyond a tick a packet; sequence numbers grow.
* RTMP and FLV: what is read is what was written, under its stream and at its time, however
  the writer cuts and interleaves; the dialogue ends; the trailer delivers the rest.
* MP4 file: what is read is what was written, after any seeks; the cursor's numbers agree; the
  end is the end; a seek lands where decoding can begin.
* Boxes: a box is as long as its `Len`; it is read back as it was written; the packages agree on
  the format; a player that knows only the format finds every sample of a fragment.

## 2. Modules

| module | models | theorems in |
|---|---|---|
| `StreamRegistry` | registry, workers, live sessions, API callers | `StreamRegistryProofs` |
| `PacketLog` | the abstract promise of a packet queue | |
| `PacketQueue` | `av/pubsub/queue.go` on `av/pktque/buf.go`; implements `PacketLog` | `PacketQueueProofs` |
| `ArchiveFiles` | the choice of recordings, as operators | `ArchivePlaybackProofs`, `ArchiveExportProofs` |
| `ArchiveExport` | handler and sender of an export | `ArchiveExportProofs` |
| `ArchivePlayback` | worker, player and reader of a playback | `ArchivePlaybackProofs` |
| `Mp4fMuxer` | the fragmenting muxer | `Mp4fMuxerProofs` |
| `RtspClient` | the dialogue of the RTSP client with cameras | `RtspClientProofs` |
| `RtpTrack` | from the blocks of an H264 track to packets | `RtpTrackProofs` |
| `RtmpChunks` | the chunk layer of RTMP, as operators | |
| `FlvTags` | tags, the prober, an FLV file, as operators | |
| `RtmpConn` | two ends of an RTMP connection; composes the two above | |
| `SampleTables` | the sample tables of a track and a cursor in them, as operators | `Mp4FileProofs` |
| `Mp4File` | MP4 muxer, file, crashes and demuxer; uses `SampleTables` | `Mp4FileProofs` |
| `EsDescriptors` | big-endian numbers and the descriptors of an `esds` box | |
| `BoxFormat` | layouts of boxes, and `Len`, `Marshal`, `Unmarshal` over them | |
| `Mp4Boxes`, `Fmp4Boxes`, `Mp4fBoxes` | the layouts of the three packages | |
| `FragmentBoxes` | what the two writers of fragments put into a `moof` | |
| `BoxCodec` | boxes written and read, fragments written and played; composes the five above | |

`MC...` modules only name small instances. Operators whose comment begins with "Mutant"
are plausible bugs of the definition that follows them; nothing uses them, and a run fails
when one takes its place.

### StreamRegistry

One process per API caller (`cpc`), per session (`vpc`), per websocket reader (`rpc`) and
per worker (`wpc`). A worker is named after the session whose `Run` started it: a session
calls `Run` once, and a reconnecting worker replaces itself, so the name is unique. A step
is what the code does under one acquisition of `Config.mutex`, or one access without it.

| action | code |
|---|---|
| `PushFind`, `PushInsert` | `PushStream`: the search, then the insertion |
| `RemoveFind` ... `RemoveDelete` | `RemoveStream`: find, `RunUnlock`, `connectDecrease`, put back, delete |
| `Request`, `DeadlineFails`, `Increase`, `Run`, `ClAd`, `CoGe` | a session up to its codecs, or to the write deadline a broken socket refuses |
| `InitLock`, `Play`, `InitFail`, `FailDecrease` | `InitMuxer` with the mutex held over the write |
| `Receive`, `ReceiveFail`, `TimerFires`, `StatusSocket`, `ReaderFails` | the select loops |
| `ClDe`, `Decrease` | the deferred calls |
| `DialFails`, `NoCodecs`, `Connect`, `LockCheck`, `ConnectGet`, `ReadError`, `ReadAudio`, `ReadVideo`, `Cast`, `WorkerUnlock` | a worker |
| `MapRace` | an unlocked map write that meets another access: Go may stop the process |

`fate` records what stopped the process (`castPanic`, `dialPanic`, `indexPanic`,
`mapRace`); panics inside a gin handler are recovered by gin, those of other goroutines are
not. A packet in a channel has no content. `CountConnect` has no bound.

`count` is checked against its exact meaning (`CountLedger`), which is not the number of
viewers: an HTTP session is never uncounted (its deferred call has the empty uuid), a
failed `InitMuxer` is uncounted twice, and a session whose deadline cannot be set is uncounted
without having been counted, so a worker may stop with "Connect clients is 0" while a
session plays (`NeverPlayed` are the websocket sessions of the last two kinds).

### PacketLog and PacketQueue

A writer's call is a step; a cursor's call is a step per stay under the lock, and sleeps
in `cond.Wait` in between (`packetWait`, `streamsWait`; `...Woken` after a broadcast).
`pkts`, `cap`, `head`, `tail`, `count` are `Buf`; `Slot`, `Get`, `Grown`, `Pushed`, `Popped` its
methods, with the ring addressed by `pos & (len-1)`. `WriteHeader`, `WritePacket`,
`SetMaxGopCount` and `Close` are the writer's; `ReadPacket(c)` and `Streams(c)` the cursor's,
`InitPoses` the positions the four constructors give. After `Close` a cursor still gets the
packets that are left, and those that are written later, and only then end of file; the comment at
`queue.go:72` promises end of file (`ClosedReadsEof`, the run `queue_close`). `PacketLog` is one growing log and
readers with a position. The refinement maps `written` to `log`, `head` to `oldest` and a
cursor's `pos` to `next` (-1 until it is initialised).

### ArchiveFiles, ArchiveExport, ArchivePlayback

A recording is a record: the time its name stands for, to the second, its length as ffmpeg knows
it, its packets, its streams, and of its codec data the string `Meta` makes of the first stream and
the rest. `FileDuration` cuts the length to whole seconds, as the C function under `cgo/ffmpeg` does; a
second is `Second` ticks of the model's clock.

In `ArchiveExport` the request is chosen in `Init`. `Header` reads the first file's streams and writes
their header; `HeaderRefused` is the answer 400 for a stream the fragmenter cannot take,
`HeaderPanics` a first file that does not open or has no stream, in the handler, where gin recovers.
`Open`, `NextFile`, `LastFile`, `Skip`, `Offer` are the goroutine `send`, `Deliver` and `Close` the
meetings with the handler. `send` does not look at the error of opening a file: `OpenFails` stops the
process. A packet of a stream the muxer has no track for makes the handler panic, and `send` waits for it
for ever. `ExportEnds` names all these ends.

In `ArchivePlayback` the worker is `WorkerCodecs`, `WorkerStatus`, `Offer`, `Skip`,
`NextFile`, `OpenFails`, `FillerAgain`, and `NoStreams`, `DivideByZero` where it panics; the player
`PlayerCodecs`, `PlayerInited`, `PlayerInitFails`, `PlayerPacket`, `PlayerWrote`, `PlayerWriteFails`,
`PlayerStatus`; the reader `ReaderFails`. `fate` says what stopped the process. `header` is what the muxer
was given last, `told` the header the client got last: they differ when a stream cannot be muxed or the write
fails, which the player does not look at. The worker compares `Meta` of the first streams only. So
`HeaderBeforePacket`, which compares all codec data, speaks of the sources whose string no other source
shares with other data (`Alone`); the run has archives with such pairs, and there the property would
fail without `Alone`. The status has two receivers: when a socket fails, either the worker or the player
stays behind. Sleeping is left out: the models' times are the ones the code computes with, not the clock.

### Mp4fMuxer

`streamVars` are the fields of `Stream`; `fragmentIndex` is the muxer's. `writePacketV2` is the
path the program takes (`WritePacket(pkt, false)`), `writePacketV3` the one that closes a
fragment at a key frame, `WriteHeader` replaces all tracks and keeps the index; where a codec is
refused the tracks before it stay (`streams`, one of `Accepted`). Times are
integers, `timeToTs` truncates as Go does, and a duration is taken modulo `Wrap` as the
32-bit field does. The boxes' bytes, and `WritePacket4`, `Finalize`, `SetIndex`, which nothing
calls, are left out.

### RtspClient and RtpTrack

`RtspClient` is the connection: `stage` is the code's, `pc` says where the client blocks
(`ReadResponse`, `readPacket`). Each request is an action (`Options`, `Describe`, `Setup`,
`Play`, `SendRtpKeepalive`), and so is each way an answer is taken (`OptionsAnswered`,
`DescribeRetried`, `Described`, `DescribeFailed`, `SetupAnswered`, `AnswerBetweenBlocks`,
`ResponseFails`); `handleResp` with `handle302` and `handle401` is part of all of them. Two
servers, external to the code, challenge, redirect or refuse any method and may send RTCP
before PLAY; the second is where a redirection leads. A block is a track number.

`RtpTrack` opens the blocks: the camera sends access units as one NAL unit, in fragments,
aggregated, with parameter sets or RTCP before them; the client checks a header
(`parseBlockHeader`), reassembles (`handleH264Payload`), moves the timestamp (`Rebased`), drops
packets while it probes. After a refused block `findRTSP` looks for the next `$` in the bytes
of that block and may run over blocks behind it (`Swallow`), so any number of them can be lost. The
block may be one of another channel, which the model does not follow, so the search may begin before any block of
this track, in the middle of a slice too. A slice that lost a piece is the exemption of `SlicesWhole`
(`damaged`). Bytes of a payload that happen to look like a header of their own are left out.
`Reconnect` is what the worker does after an error: a fresh client that sees the SDP of the
day. `HandleCodecDataChange` is what the library asks its caller to do instead.

### RtmpChunks, FlvTags and RtmpConn

What is on the wire is a sequence of tokens: a chunk header, an extended timestamp of four
bytes, or four bytes of payload. A reader that looks for one where the writer put another takes
it for what it looks for, as the code does with bytes. `weiteAVTagtoChunk`, `fillChunk0Header` and
`fillChunk3Header` cut a message; `readChunk` (`Headed`, `Assembled`) puts it together, with one
`ChunkStream` a chunk stream id. `PacketToTag`, `TagToPacket`, `PushTag`, `CacheTag` are the tags and
the `Prober`; `WriteFile` and `ReadFile` the FLV muxer and demuxer.

`RtmpConn` has two ends. Each has a `stage`, the code's, and a `pc` that says which loop it is in;
`out` is `bufw`, `wire` what is on its way and in `bufr`. `ClientHello` ... `StreamCreated` are
`handshakeClient`, `writeConnect`, `connectPlay` and `connectPublish`; `ServerHello` ... `ServerPlay`
`handshakeServer` and `readConnect`; `PassOver` the messages a loop does not want; `Probe`,
`ReadCached`, `ReadPacket`, `WriteHeader`, `WritePacket`, `WriteTrailer` the media. The client is
always the package's; the server is the package's, or a camera of another make (external), which
may refuse, choose its chunk size, compress headers, put audio between two chunks of a picture
and announce a small acknowledgement window.

### SampleTables and Mp4File

The muxer writes the head of the data, then packets, each when the next of its track has told its
duration, and only in `WriteTrailer` the waiting packets (`Trailer`), the size (`WriteSize`) and the
tables (`WriteMovie`); `Crash` may happen before each. `Remux` is external: the same samples, laid
out by another program with several samples a chunk, or one size for all. `Open` is `probe` on
whatever is in the file at that time: without a size it never returns, without tables it fails, and with
a size that is not the data's it takes data for headers, which may end in any way (`Outcomes`).
What the muxer puts into a table, and the size, has 32 bits: `Wrap` is 2^32. `timeToSampleIndex` multiplies
in 32 bits (`Spans32`), `setSampleIndex` in 64 (`Spans`). The properties say what still holds beyond each
limit: data of 4 GiB or more has wrong offsets (`Fits`), a gap of 2^32 ticks or more has a wrong
duration, a run of equal durations that lasts that long (13.3 hours at 90 kHz) makes a seek land
elsewhere (`RunsFit`). The run crosses all three, and dropping any of the conditions is a violation there.
`ReadPacket` takes the track that is least far; `incSampleIndex` and `setSampleIndex` move a cursor
of eleven numbers.

### EsDescriptors, BoxFormat, the layouts, FragmentBoxes, BoxCodec

The code of a box is one generated pattern (by hand in `fmp4io`); a layout lists the fields of a
type in the order the code writes them, and `BoxLen`, `BoxBytes`, `ReadBox` stand for every `Len`,
`Marshal` and `Unmarshal`. Where a package departs from the pattern the layout says so: a count
read without a check, a field there by a flag or by version, a child that is parsed and
dropped, a dialect of a run's words. `ReadBox` returns a status: ok, an error, a panic (a slice out
of range) or an endless loop (a child of size 0).

In `BoxCodec` either a box of any type is filled in (`Fill`), marshalled and unmarshalled by its own
package or another, or the fragmenter (`TrackFragmenter` for one track, `MovieFragmenter` for more)
or `mp4f`'s muxer writes fragments for a player that knows only the format (`FragSamples`).

## 3. Runs

| run | instance | shows |
|---|---|---|
| `registry_sessions` | a websocket and an HTTP session, RTSP or RTMP, failing sockets and cameras, nothing removed | `OneWorkerPerStream`, `CountLedger`, `SessionEnds` |
| `registry_remove` | two API callers that push and remove, one websocket session | `LockIffWorker`, `RegisteredChannelsOpen`; `RemovedWorkerStops`, `UnwatchedWorkerStops` |
| `queue` | one cursor of each of the four kinds, a ring of one slot that grows to four, four packets, changing GOP limits | `RingHoldsWindow`, `GopCursorStart`, `NoLostWakeup`, `IsPacketLog`, `CloseReleases` |
| `export` | archives of one to four files of whole and broken seconds, with gaps, overlaps, short files, recordings that are there twice, other streams, streams that cannot be muxed, files that do not open; three ends, five starts | `ExportIsWindow`, `ExportEnds` |
| `playback` | ten archives, among them codecs under one string, a stream that cannot be muxed and a file without streams; two kinds of client, three starts, four speeds (one backwards, one 0); files that do not open, a socket that may fail at any time | `HeaderBeforePacket`, `NearArchiveTime`, `InOrder` |
| `muxer` | two tracks whose scales divide badly, both paths, a clock that starts again, a second header, a refused codec | `EverySampleOnce`, `FragmentsTile`, `DriftBounded` |
| `rtsp_client` | two servers out of 30 behaviours each, two tracks with codecs in the SDP, in band or unsupported | `AnswerIsForRequest`, `TracksStream`, `PrepareEnds`, `StreamsReturn` |
| `rtp_track` | eight ways to pack an access unit, four steps of the clock, three slices, timestamps modulo 4, blocks lost anywhere | `SlicesWhole`, `TimesExact`, `ChangeNoticed` |
| `boxes` | every type of box filled in seven ways; four packets of an audio and a video track in two fragments | `RoundTrip`, `PackagesAgree`, `MuxerFragmentPlays`, `FragmentsPlay` |
| `mp4_file` | sets of one or two tracks, up to four packets, numbers that begin again at 14, a crash anywhere, eight layouts, seeks and reads in any order | `ReadsWritten`, `CursorsAgree`, `EndIsEnd`, `SeekLands` |
| `rtmp` | the package with itself, publishing or playing, and with a camera; three packets or tags | `ReadsWhatWasWritten`, `FlvFileReadsBack`, `ReadsWhatWasSent`, `DialogueEnds`, `TrailerDelivers` |

One more run, `queue_close`, ends in a violation on purpose: the comment at `queue.go:72` says that all
cursors' `ReadPacket` return `io.EOF` after `Close`, and a cursor goes on reading packets
(`ClosedReadsEof`).

### Disagreements met while modelling

The properties above say what the code does, with each of these named where it weakens a
property; only that of the queue is a run of its own.

* Registry: the count is never taken back for HTTP sessions (`http.go:310`), though the worker logs it as
  the number of viewers (`CountLedger` has the exact sum). Removing a stream whose worker
  waits for a packet indexes a map entry that is gone and stops the process.
* Export: durations are cut to whole seconds, so a recording that reaches into the request by less than a
  second, or is shorter than one, is left out (`Lost`). A file that `send` cannot open stops the process.
* Playback: a source whose first stream has the codec string of the one before is played under that one's
  header, whatever else differs; a header that could not be written is not noticed; a file that does not open
  or has no stream stops the process.
* Playback past the last file stops the process with a nil or out-of-range access.
* RTSP: "codec data change, please call HandleCodecDataChange()": the call goes back to the
  parameter sets of the SDP.
* Queue: key frames written before a header are not counted among the GOPs.
* `fmp4`: a negative composition time spoils the box it is in; an Opus entry of a `stsd` and the
  references of a `sidx` are not read back as written.
* `mp4io`: the lengths inside `esds` are not those of the contents, and the strict reader of `esio`
  refuses them; `hdlr` lacks twelve reserved bytes; `tfhd` has no track id. All readers: a last child
  of exactly eight bytes is not looked at, and a child of size 0 is looked at for ever.
* `mp4`: an unfinished file is read for ever; a file whose samples all have one size, or a picture
  track without key frames, ends at once; a seek exactly to a key frame lands on the one
  before; a seek to the very time the demuxer tells of a packet may land on the packet before it, because that time
  was rounded down from ticks and is rounded down again to ticks (three ticks in ten units: tick 1 is told as 3,
  and 3 is tick 0), so `SeekLands` compares ticks; H265 is accepted and panics at the trailer; nothing checks the 32 bits of
  offsets, sizes, durations and of the product in `timeToSampleIndex`.
* RTMP: the later chunks of a message with an extended timestamp (from 4 h 39 min on) carry it
  again and `readChunk` takes it for payload (`Torn`); acknowledgements are written but not flushed, and a
  client that publishes never reads; a handler's error leaves the connection open; a client
  that is answered `_error` waits until the server closes; a Speex stream's channels and rate are not
  in its tags, and its packets are lost while the reader probes.

### Bounds

* Sessions, callers, uuids: two sessions are enough for the races for `RunLock`, for a
  session that arrives while a worker leaves and for a count that is wrong under a viewer;
  two callers for the races of push and remove. The invariants of workers and channels are
  proved for any number. A channel of one packet is full as soon as one waits.
* Queue: `InitCap = 1` makes the ring grow at the second and third packet, wrapped; with
  `GopCounts` down to 1 it also pops before it has grown. The proofs cover any number of
  cursors, packets and any initial size.
* Archive: two or three packets a file are what a gate, a gap and an offset tell apart;
  there is no bound beside the sets of archives and requests. A second of two ticks is enough for lengths
  that are whole seconds, a second and a half, and less than one.
* Muxer: `MaxFrames = 1`, so a fragment has two samples; four packets make two fragments
  of a track. `MaxPackets` and `MaxHeaders` only limit the environment.

* RTSP: one keep-alive and one block on the wire are enough for an answer between blocks
  and a block before an answer. A clock modulo 4 with an hour of 2 and half an hour of 1
  keeps their order and wraps within three access units, and a step back is also one of more than an
  hour ahead; the clock begins at 3, so that it wraps at once and may pass 0; three slices are a
  fragmented one, a lost one and the one after it.

* Boxes: `Seeds` fills in an empty box, one of everything, two of what there may be many with
  the other version, all flags and top bits set, children with nothing in them, and the same with
  version 0; the last two ways leave out the children that no reader gives back (the audio entry with its
  `esds`, the Opus entry), so that a movie with its tracks is read back and compared. Types do not interact but through their sizes, which is what children show. Five
  packets that differ in one thing each decide every default a fragment may fold; two fragments
  are a pending packet and a base time.
* MP4: three ticks in ten units make every duration round; four packets are two runs of `stts`
  and `ctts`, two chunk groups, and two key frames with something between them. `SeekTimes` has the
  start, times the demuxer tells itself, which rounding may bring back to the packet before, times
  between samples, and two far behind. `Wrap = 14` lets data of four packets end on either side of it, and
  gaps, composition times and runs as well; it stands for 2^32.
* RTMP: a chunk of one unit before, two units after `SetChunkSize` (128 and 65536 bytes in the
  code), so a message of three units is cut under both. `FlvTimestampMax = 2` ms (0xffffff), so
  times cross it within three packets. A probe of two tags (20) is enough to find both
  streams, one, or none. `WireBound = 1` only limits how far a camera runs ahead; `SmallWindow = 6`
  makes the client acknowledge.

`CHECK_DEADLOCK FALSE` everywhere: sessions, exports and writers are finite and the process
may stop.

### Fairness

* Registry: every goroutine that can run does (Go's scheduler), `sync.RWMutex` starves
  nobody, `select` picks at random among ready cases. A worker's steps are fair because a dial
  gives up after 20 s, and because the camera is assumed to send until the connection
  fails: no read deadline is set, so without that a worker may block for ever. Nothing
  is assumed of callers finding work, viewers arriving or leaving, sockets failing.
* Queue: a goroutine that a broadcast made ready runs. Nobody has to write or close.
* Export: the two goroutines wait only for each other (weak fairness of `Next`).
* Playback has safety properties only.
* RTSP: the client runs when it can; a server answers what it is asked (weak fairness) and
  goes on sending every track it streams (strong fairness per track). `StreamsReturn` only
  speaks of cooperative cameras; what they may not do is listed in `Cooperative` and is what
  the code cannot cope with: DESCRIBE is sent twice at most, so a challenge and a
  redirection of it are one too many, and a track of unknown type is never ready.

* RTMP: an end of the package runs when it can; a camera answers, ends a message it has begun, and
  closes the connection when it has refused. Nobody has to write a packet, to write a trailer, or
  to close.
* Boxes and MP4 files have safety properties only, and no fairness.

`UnwatchedWorkerStops` assumes that removals end: `RemoveStream` puts a stream back for a
moment before it deletes it, and a worker that looks exactly then goes on.

## 4. Proofs

All proofs are checked by TLAPS to the last leaf, for every value of the constants that
the named assumptions allow (`ChanCapAssumption`, `ScaleAssumption` and so on: positive
capacities and scales, disjoint kinds of sessions; TLC evaluates them in the runs). The parts
of an inductive invariant are stated so that TLC can check them too, and each was checked on the
instance of its run before it was proved.

* **StreamRegistryProofs.** `TypeCorrect`. `WorkerInvariant`: `LockIffWorker` is not inductive,
  because a worker could belong to a session that has not called `Run`, or to a uuid that
  is drawn again; `WorkerInv` adds that neither happens, and only speaks of streams no
  `RemoveStream` is taking out, which is exactly where the code keeps the lock and the
  workers together. One lemma each for a worker's steps that change nothing, for its exits,
  for removal and for push. `ChannelInvariant`: who is registered follows from the session's
  program counter alone, whatever happens to the stream. From these `OneWorker`,
  `LockFollowsWorker`, `ChannelsOpen`. `LedgerExact` (`CountLedger`): the count and the sizes of two sets of
  sessions must move together. `SessionInvariant` says where a session can be while its reader
  goroutine runs, so a session that is counted or uncounted enters or leaves just one
  set; `LedgerInvariant` adds that the sessions that ever began are finitely many, so that the sets
  have sizes although there may be infinitely many sessions. `LedgerMove` is the one step of
  arithmetic, `SessionMoves` uses it for every step of a session and its reader.
* **PacketQueueProofs.** `RingCorrect`: lemmas on slots (`SlotInjective`: positions less than a
  capacity apart have different slots), on growing (`GrownKeeps`), pushing and popping carry
  `RingHoldsWindow`. `Wakeups`: `NoLostWakeup` with the positions of sleeping cursors. `GopCursorsStart`:
  going back from the end the number of key frames passed grows by one at most
  (`FewerKeysBehind`), so the loop of `DelayedGopCount` stops where its count says (`StartsAt`).
  `QueueIsLog`: `Spec => PacketLog!Spec`, one step per call.
* **ArchiveExportProofs.** `ExportsTheWindow` (`ExportIsWindow`) in two halves. What `send` reads: `SentInv` says
  that the muxer has the window of the files as far as they are read, from its first key frame on,
  and that the gate is open exactly behind one, as long as the handler takes packets; `TimesInv` that the time a file begins at is that of
  the last packet sent. What `files` chooses: with each file of the walk the window of
  the files taken stays that of the usable ones that are not `Lost` (`FilesGiveWindow`). A usable file that
  is left out ends before the request, begins after it, comes after one that reaches into it, or is lost
  by its cut duration (`LeftOut`), and what is taken is not lost (`TakenFound`) and in order already, so that
  `sortPath` leaves it (`SortPathStays`). The arithmetic is in `DurationCut` and `WholeSeconds`: names and
  requests are whole seconds, so cutting a duration loses less than one (`CoversASecond`). This needs what the
  property says: recordings that do not overlap by the second, and without durations a caller who names the
  file that covers the start. Packets may lie behind the cut duration. The times need neither; an archive may even hold one recording twice, which is why the
  history `exported` has the place of a file and not the file.
* **ArchivePlaybackProofs.** First what the recursive functions of `ArchiveFiles` compute, for any archive: `sortPath`
  sorts and loses nothing (`SortPathSorts`), the walk takes every usable recording that begins in the request or
  was named, and no other (`StreamPathsTaken`); `FilesStreamInOrder` joins the two. `ArchiveExportProofs` has the
  lemmas it needs of them again, because the two modules have different variables.
  `TypeCorrect`, with `PlaceInv`: the worker is in its file or at its end.
  `HeaderComesFirst`: `CodecInv` follows the codecs from the worker over the first channel to the
  muxer; a packet that is held out was read after codecs of its string were told, and these are its
  source's where no other source has that string with other data (`Alone`). `told` follows `header`
  where `InitMuxer` succeeds.
  `PlaysInOrder`: `OfferInv` says which packet is held out, `PlayedInv` that the one played last lies
  behind the worker; with `FilesStreamInOrder` what follows is later.
  `PlaysNearArchiveTime` is the hard one: the archive time moves by the distance of two packets,
  but not when there is none before, or when it was at time 0, and not for packets that are
  passed over. `TimeInv` says what the next packet can be measured from: an anchor, which
  is a packet or the beginning of the file, not too early, after which no key frame was
  passed over, or the packet before. The proof found the bound: a file may be ahead by its longest wait
  for a key frame as well as by `Slack`, and both `Lead` and the archives of the run say so.
* **Mp4fMuxerProofs.** `MuxerInvariant`: `MuxInv` joins the types, the shape of an open fragment
  (`OpenInv`), `EverySampleOnce` and `SeqInv`, which bounds the number of an open fragment by
  the index as well; the last is needed because another track may move the index between
  the first sample of a fragment and its end. From it `SamplesOnce`, `NumbersGrow`, `TypeCorrect`.
  `TimeInvariant` adds `DriftInv`, how far the decode time of a track is from the camera's clock,
  which needs the error of one rounding (`TickError`) and that durations are kept modulo the wrap
  (`WholeWraps`), and `TileInv`, that the durations of an open fragment end at the decode
  time. From it `DriftStaysBounded`, `FragmentsTileTime`, on both paths.
* **RtspClientProofs.** `RtspInvariant`: `AnswerIsForRequest` alone is not inductive. `TurnInv` adds
  whose turn it is: while the client is idle nothing is outstanding, and while it is in
  `ReadResponse` exactly one request, or its answer with blocks around it, is. The code
  compares no sequence numbers, so this is what its correctness rests on; PLAY and
  keep-alives break it, and are sent only when nobody will call `ReadResponse` again. `LinkInv`
  types the two directions of the connection, `StageInv` bounds the loops. From it
  `AnswersMatch`, `TypeCorrect`. `StreamInvariant` is about what the server has granted: `SetupInv`
  follows the tracks from a SETUP that is written over its answer to the client, and `PlayInv` what
  follows PLAY; a redirection, which begins a new session elsewhere, and a refusal are the two ways
  out. From it `TracksAreStreamed`.
* **RtpTrackProofs.** The track is looked at only between blocks, so the invariant says what the
  blocks still under way may be (`FeedInv`: a suffix of what the last access unit was packed into)
  and what the track must hold for each: the fragments before the next
  one (`BufferInv`), a clock that counts from the first packet (`ClockInv`), the codec of the camera's
  parameter sets, unless a change is noted, was lost or is still to come (`CodecInv`), and no
  packet but one whose time was refused (`PacketInv`). What a block makes of a track is `Taken`,
  proved once for the ways to pack NAL units (`PayloadFacts`, on the lemmas for a parameter
  set, a slice and a fragment), and every action that opens a block uses that. The clock needs one
  fact of arithmetic, that a difference taken modulo the wrap is exact when the step is less than half
  of it (`WrappedDifference`). From these `PacketsAreSlices`, `TimesFromFirstPacket`,
  `ChangesAreNoticed`, `TypeCorrect`.
* **Mp4FileProofs.** All four properties of `Mp4File` follow from `FileInv` (`FileAgrees`), which `Mp4File` states
  in three parts. `WrittenInv`: the tables the muxer keeps tell every packet but the one of each track that waits,
  and the data has its bytes where they say; a crash ends this, and an H265 track at the trailer. `MovieInv`: the
  tables in the file tell all packets, one sample a chunk or laid out otherwise; offsets are claimed for data
  that `Fits` in 32 bits, durations and composition times modulo `Wrap`. `CursorInv`: each cursor `Stands`, that
  is, each pair of an entry and a place in it is where the counts say its sample is. `CursorsAgree` is not inductive,
  because it is silent about a cursor behind the last sample, and about tables that would not describe the packets.
  The lemmas: sums (`SumUnfolds` and what follows it), runs of equal values (`RunsOf`, `InRun`), groups of chunks
  (`GroupOf`), the key frame at or before a sample (`SyncBefore`), and from them that a step and a seek both leave a
  cursor standing (`NextStands`, `SetStands`), and that a cursor that stands is the one a seek would set
  (`StandsAgrees`). A packet more keeps the muxer's tables (`AddDescribes`); another layout keeps what they tell
  (`RegroupedLaid`, `FlatPlaced`). `ReadsWritten` then needs where the data of a sample is, and one fact of
  arithmetic: a duration in ticks is short by less than a tick, so a time is by less than a tick a packet, where no
  gap before it reaches `Wrap`.
  `EndIsEnd` needs that a cursor that stands before the end passes every test of `isSampleValid`. `SeekLands` needs
  which sample a moment is in (`TimeFound`, where `Spans32` and `Spans` are the same), and that the way from ticks to time and back loses at most a tick
  (`TickTrips`); this is where `TimeScale <= Second` is used, which the code has with 90000 ticks and 10^9
  nanoseconds. The attempt found the property wrong as it first stood, in units of time: see the seek that lands
  on the packet before, above. It also shows that `setSampleIndex` only fails for a track without samples.

Where a definition recurses over a number or a sequence (the sums of the muxer, the walk, the sort and the
window of the archive, the NAL units of a block, the sums over sample tables) it is a recursive function. The library's induction theorems take an
operator, which the provers cannot instantiate; the proofs use sets instead. A set of numbers
that is not empty has a least element (`LeastNat`, from the library's theorem on well-founded
relations), so a set that holds 0 and successors is all of `Nat` (`Induction`), and a function that
obeys a recursion exists (`Recursion`, `SumsExist`). The last is needed because TLA+ gives a recursive
definition its equation only where some function satisfies it.

Theorems without a run of their own: the type invariants, `NumbersGrow` (the numbers of a muxer's
fragments grow) and `FilesStreamInOrder`, and the inductive invariants (`FileAgrees` and
those named `...Invariant` above); they hold for every instance, so no run repeats them.

Only model-checked:

* The liveness properties, out of the prover's reach.
* `RtmpConn`: its properties compare whole sequences built by folds over a wire both ends work on.
* `BoxCodec`: its operators are recursive as boxes are, and so have no prover.

## 5. Not modelled

* The other libraries; see the components of `PROJECT.json`. The registry takes what a camera
  sends or refuses as choices, so no order of errors, audio, video and missing codecs is left
  out; the two protocols it comes by have modules of their own.
* RTMP: AMF0, sequence headers that do not parse, the digests of the handshake, URLs, the `Server`'s accept loop. FLV: bytes of a tag.
* MP4: a second `WriteHeader`, negative composition times, the durations in the headers, a packet of 4 GiB,
  and the 64-bit product of a time and the time scale, which overflows after 28 hours at 90 kHz;
  `format/mp4m` is a copy whose muxer refuses H265.
* The fragmenters: the rewriting of H264 packets from start codes to lengths.
* `format/fmp4`: the headers of `streamatoms.go` and the byte lengths a playlist wants.
* Real time: sleeps, the 3 s before a reconnect, the 30 s timer (it may fire at any time).
* Contents: pictures, JSON, templates, logging. Of the boxes the bytes are modelled.
* HTTP and websocket servers (gin, x/net): sockets fail when they like.
* The FFmpeg binding, a library of C functions.

## 6. Plan

Order of the next steps, most important first:

1. Proofs: `ReadsWhatWasWritten` of `RtmpConn`, first for one message through the chunk layer.
2. An abstract camera feed, implemented by `RtspClient` with `RtpTrack` and by `RtmpConn`, to put under
   the registry in place of its choices; the audio tracks and `Teardown`.
3. `TsMux` (PES reassembly, continuity counters), `PacketFilters` (FixTime, AVSync, Timeline under the
   transcoder), `Handlers`.
4. `RtspV2Client`, `RtspProxy`, `Dvrip`, `WebRtc`.
