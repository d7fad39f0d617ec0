------------------------------ MODULE Mp4File ------------------------------
(***************************************************************************)
(* An MP4 file, written by format/mp4's Muxer and read by its Demuxer.     *)
(* The muxer writes the header of the data, the packets one behind, and    *)
(* only at the trailer, in three writes, the data's size and the tables:   *)
(* it may stop before each.  A reader may open the file at any time.       *)
(* A packet is [time, cts, key, data]; its data repeats its track and      *)
(* number as often as the packet is long.                                  *)
(***************************************************************************)
EXTENDS SampleTables, FiniteSets

CONSTANTS
  Tracks,      \* track lists: sequences of "H264", "H265", "AAC"
  Shapes,      \* packets without a time: gap to the one before, cts, size, key
  Second,      \* units of time in a second
  TimeScale,   \* ticks in a second
  Chunkings,   \* samples in each chunk of a track, as another program may write it
  SeekTimes,   \* times a reader asks for
  MaxPackets   \* bound on the packets written

ASSUME ScaleAssumption == Second \in Nat \ {0} /\ TimeScale \in 1 .. Second
ASSUME ShapesAssumption == Shapes \subseteq [gap : Int, cts : Nat, size : 1 .. Wrap - 1, key : BOOLEAN]
ASSUME TracksAssumption == \A t \in Tracks : t \in Seq({"H264", "H265", "AAC"})
ASSUME ChunkingsAssumption == \A c \in Chunkings : c \in Seq(Nat \ {0})
ASSUME TimesAssumption == SeekTimes \subseteq Nat /\ MaxPackets \in Nat

VARIABLES
  streams,    \* the codecs of the tracks
  stage,      \* of the muxer: "open", "flushed", "sized", "done", or "dead"
  lastpkt,    \* of each track, the packet that waits for its duration, or <<>>
  sample,     \* of each track, its tables
  wpos,       \* where the next packet goes
  data,       \* the data, from byte 8 of the file on
  mdatsize,   \* the size in the data's header
  moov,       \* the tables in the file, <<>> before they are written
  written,    \* history: the packets accepted
  opened,     \* of the reader: "no", "ok", "err", or "stuck" in a loop
  cursors,    \* of the reader
  last        \* what the reader was last told
muxVars == << streams, stage, lastpkt, sample, wpos, data, mdatsize, moov, written >>
readVars == << opened, cursors, last >>
vars == << muxVars, readVars >>

Video(t) == streams[t] # "AAC"
timeToTs(tm) == (tm * TimeScale) \div Second
tsToTime(ts) == (ts * Second) \div TimeScale
Packets == Total([t \in DOMAIN written |-> Len(written[t])])
-----------------------------------------------------------------------------
(***************************************************************************)
(* The muxer.                                                              *)
(***************************************************************************)
\* newStream: one sample a chunk.
NewTable(codec) ==
  [groups |-> << [first |-> 1, per |-> 1] >>, offsets |-> <<>>, fixed |-> 0, sizes |-> <<>>,
   stts |-> <<>>, ctts |-> <<>>, synced |-> codec # "AAC", sync |-> <<>>]

Init ==
  /\ streams \in Tracks
  /\ stage = "open"
  /\ lastpkt = [t \in DOMAIN streams |-> <<>>]
  /\ sample = [t \in DOMAIN streams |-> NewTable(streams[t])]
  /\ wpos = 8 /\ data = <<>> /\ mdatsize = 0 /\ moov = <<>>
  /\ written = [t \in DOMAIN streams |-> <<>>]
  /\ opened = "no" /\ cursors = <<>> /\ last = <<>>

\* Mutant: a run grows whatever the value.
Grow_Any(runs, field, value) ==
  IF runs # <<>> THEN [runs EXCEPT ![Len(runs)].count = @ + 1]
  ELSE << [r \in {"count", field} |-> IF r = "count" THEN 1 ELSE value] >>

\* A run grows while the value is the last one's, else a new one begins.
Grow(runs, field, value) ==
  IF runs # <<>> /\ Last(runs)[field] = value
  THEN [runs EXCEPT ![Len(runs)].count = @ + 1]
  ELSE Append(runs, [r \in {"count", field} |-> IF r = "count" THEN 1 ELSE value])

\* Stream.writePacket: all it puts into the tables has 32 bits.
AddSample(tab, video, pkt, rawdur, at) ==
  [tab EXCEPT
     !.sync = IF pkt.key /\ tab.synced THEN Append(@, Len(tab.sizes) + 1) ELSE @,
     !.stts = Grow(@, "duration", timeToTs(rawdur) % Wrap),
     !.ctts = IF video THEN Grow(@, "offset", timeToTs(pkt.cts) % Wrap) ELSE @,
     !.offsets = Append(@, at % Wrap),
     !.sizes = Append(@, Len(pkt.data))]

\* A packet before the one that waits is refused, and that one waits on.
WritePacket(t, shape) ==
  LET waits == lastpkt[t]
      n     == Len(written[t])
      pkt   == [time |-> shape.gap + (IF n = 0 THEN 0 ELSE waits.time), cts |-> shape.cts,
                key |-> shape.key, data |-> [i \in 1 .. shape.size |-> << t, n + 1 >>]]
  IN /\ stage = "open" /\ Packets < MaxPackets
     /\ IF n > 0 /\ shape.gap < 0
        THEN UNCHANGED << lastpkt, sample, wpos, data, written >>
        ELSE /\ lastpkt' = [lastpkt EXCEPT ![t] = pkt]
             /\ written' = [written EXCEPT ![t] = Append(@, pkt)]
             /\ IF n = 0 THEN UNCHANGED << sample, wpos, data >>
                ELSE /\ sample' = [sample EXCEPT ![t] = AddSample(@, Video(t), waits, pkt.time - waits.time, wpos)]
                     /\ wpos' = wpos + Len(waits.data)
                     /\ data' = data \o waits.data
     /\ UNCHANGED << streams, stage, mdatsize, moov, readVars >>

\* WriteTrailer: the packets that wait, the boxes of the tracks and Flush.
\* fillTrackAtom takes H265 for H264 and panics.
Trailer ==
  LET Put(w, t) ==
        IF lastpkt[t] = <<>> THEN w
        ELSE [sample |-> [w.sample EXCEPT ![t] = AddSample(@, Video(t), lastpkt[t], 0, w.wpos)],
              wpos |-> w.wpos + Len(lastpkt[t].data), data |-> w.data \o lastpkt[t].data]
      put[t \in 0 .. Len(streams)] ==
        IF t = 0 THEN [sample |-> sample, wpos |-> wpos, data |-> data] ELSE Put(put[t - 1], t)
      end == put[Len(streams)]
  IN /\ stage = "open"
     /\ stage' = IF \E t \in DOMAIN streams : streams[t] = "H265" THEN "dead" ELSE "flushed"
     /\ sample' = end.sample /\ wpos' = end.wpos /\ data' = end.data
     /\ lastpkt' = [t \in DOMAIN streams |-> <<>>]
     /\ UNCHANGED << streams, mdatsize, moov, written, readVars >>

\* The size is the position in the file after Flush, in 32 bits.
Size == 8 + Len(data)
WriteSize ==
  /\ stage = "flushed"
  /\ stage' = "sized" /\ mdatsize' = Size % Wrap
  /\ UNCHANGED << streams, lastpkt, sample, wpos, data, moov, written, readVars >>

WriteMovie ==
  /\ stage = "sized"
  /\ stage' = "done" /\ moov' = sample
  /\ UNCHANGED << streams, lastpkt, sample, wpos, data, mdatsize, written, readVars >>

Crash ==
  /\ stage \notin {"done", "dead"}
  /\ stage' = "dead"
  /\ UNCHANGED << streams, lastpkt, sample, wpos, data, mdatsize, moov, written, readVars >>
-----------------------------------------------------------------------------
(***************************************************************************)
(* The finished file as another program may lay it out: track after track, *)
(* several samples in a chunk, with one size for all if they agree.        *)
(***************************************************************************)
Groups(chunks) ==
  LET upto[c \in 0 .. Len(chunks)] ==
        IF c = 0 THEN <<>>
        ELSE IF c = 1 \/ chunks[c - 1] # chunks[c]
        THEN Append(upto[c - 1], [first |-> c, per |-> chunks[c]])
        ELSE upto[c - 1]
  IN upto[Len(chunks)]
Regrouped(tab, chunks, at, fix) ==
  LET before(c) == SumTo(tab.sizes, SumTo(chunks, c - 1))
      one == fix /\ tab.sizes # <<>> /\ \A i \in DOMAIN tab.sizes : tab.sizes[i] = tab.sizes[1]
  IN [tab EXCEPT !.groups = Groups(chunks),
                 !.offsets = [c \in DOMAIN chunks |-> at + before(c)],
                 !.fixed = IF one THEN tab.sizes[1] ELSE 0,
                 !.sizes = IF one THEN <<>> ELSE @]
Remux(layout, fix) ==
  LET at(t) == 8 + SumTo([u \in DOMAIN streams |-> Total(sample[u].sizes)], t - 1)
  IN /\ stage = "done" /\ opened = "no" /\ moov = sample /\ Size < Wrap
     /\ \A t \in DOMAIN streams : Total(layout[t]) = Len(sample[t].sizes)
     /\ moov' = [t \in DOMAIN streams |-> Regrouped(sample[t], layout[t], at(t), fix)]
     /\ moov' # moov
     /\ data' = FlattenSeq([t \in DOMAIN streams |-> FlattenSeq(Column(written[t], "data"))])
     /\ UNCHANGED << streams, stage, lastpkt, sample, wpos, mdatsize, written, readVars >>
-----------------------------------------------------------------------------
(***************************************************************************)
(* The demuxer.  Without a size ReadFileAtoms steps back to the header it  *)
(* has just read, for ever; without the tables probe fails; and a size     *)
(* that is too small sends it into the data, whose bytes it takes for      *)
(* headers: it may find its way to the tables, or not, or loop.            *)
(***************************************************************************)
Outcomes ==
  IF mdatsize = 0 THEN {"stuck"}
  ELSE {IF moov = <<>> THEN "err" ELSE "ok"} \cup (IF mdatsize = Size THEN {} ELSE {"err", "stuck"})
Open ==
  /\ opened = "no"
  /\ opened' \in Outcomes
  /\ cursors' = IF opened' = "ok" THEN [t \in DOMAIN moov |-> Cursor0] ELSE <<>>
  /\ last' = <<>>
  /\ UNCHANGED muxVars

\* probe again, after it failed.
Reopen ==
  /\ opened = "err"
  /\ opened' = "no"
  /\ UNCHANGED << muxVars, cursors, last >>

\* The track that is least far; the first of equals.
Time(t) == tsToTime(cursors[t].dts)
Chosen ==
  CHOOSE t \in DOMAIN cursors :
    /\ \A u \in DOMAIN cursors : Time(t) <= Time(u)
    /\ \A u \in 1 .. t - 1 : Time(t) < Time(u)

\* The n bytes behind a place in the data; what is not data is <<>>.
BytesAt(at, n) == [j \in 1 .. n |-> IF at + j \in DOMAIN data THEN data[at + j] ELSE <<>>]

ReadPacket ==
  LET t   == Chosen
      cur == cursors[t]
      tab == moov[t]
      n   == IF tab.fixed # 0 THEN tab.fixed ELSE tab.sizes[cur.sampleIndex + 1]
      at  == tab.offsets[cur.chunkIndex + 1] + cur.sampleOffsetInChunk - 8
      pkt == [time |-> tsToTime(cur.dts),
              cts |-> IF tab.ctts = <<>> THEN 0 ELSE tsToTime(tab.ctts[cur.cttsEntryIndex + 1].offset),
              key |-> tab.synced /\ tab.sync[cur.syncSampleIndex + 1] - 1 = cur.sampleIndex,
              data |-> BytesAt(at, n)]
  IN /\ opened = "ok" /\ streams # <<>>
     /\ IF isSampleValid(tab, cur)
        THEN /\ last' = [op |-> "packet", track |-> t, index |-> cur.sampleIndex + 1, pkt |-> pkt]
             /\ cursors' = [cursors EXCEPT ![t] = incSampleIndex(tab, cur)]
        ELSE /\ last' = [op |-> "eof", track |-> t]
             /\ UNCHANGED cursors
     /\ UNCHANGED << muxVars, opened >>

\* Stream.seekToTime, after the seeks before it in SeekToTime have gone well.
Moved(r, t, set) == [ok |-> set.ok, cursors |-> [r.cursors EXCEPT ![t] = set.cur]]
Sought(r, t, tm) ==
  IF ~r.ok THEN r
  ELSE Moved(r, t, setSampleIndex(moov[t], r.cursors[t], timeToSampleIndex(moov[t], timeToTs(tm))))

\* SeekToTime: the first video track, then the sound to where that came to.
First(t) == Video(t) /\ \A u \in 1 .. t - 1 : ~Video(u)
Picture == CHOOSE t \in DOMAIN cursors : First(t)
Silent == \A t \in DOMAIN cursors : ~First(t)
Seen(tm) ==
  IF Silent THEN [ok |-> TRUE, cursors |-> cursors]
  ELSE Sought([ok |-> TRUE, cursors |-> cursors], Picture, tm)
Heard(seen, from) ==
  LET heard[t \in 0 .. Len(streams)] ==
        IF t = 0 THEN seen ELSE IF Video(t) THEN heard[t - 1] ELSE Sought(heard[t - 1], t, from)
  IN heard[Len(streams)]
HeardFrom(seen, tm) ==
  Heard(seen, IF Silent THEN tm ELSE tsToTime(seen.cursors[Picture].dts))
Told(tm, heard) ==
  /\ cursors' = heard.cursors
  /\ last' = [op |-> IF heard.ok THEN "seek" ELSE "failed", time |-> tm]

SeekToTime(tm) ==
  /\ opened = "ok"
  /\ Told(tm, HeardFrom(Seen(tm), tm))
  /\ UNCHANGED << muxVars, opened >>

Next ==
  \/ \E t \in DOMAIN streams, shape \in Shapes : WritePacket(t, shape)
  \/ Trailer \/ WriteSize \/ WriteMovie \/ Crash
  \/ \E layout \in [DOMAIN streams -> Chunkings], fix \in BOOLEAN : Remux(layout, fix)
  \/ Open \/ Reopen \/ ReadPacket
  \/ \E tm \in SeekTimes : SeekToTime(tm)
Spec == Init /\ [][Next]_vars
-----------------------------------------------------------------------------
Is(op) == last # <<>> /\ last.op = op
Start(t, i) == written[t][i].time - written[t][1].time
Gap(w, i) == IF i < Len(w) THEN w[i + 1].time - w[i].time ELSE 0

(* Whatever was sought and read before, and however the samples are grouped, a
   packet that is read is the one that was written in its place: with its data
   if all the data is below 2^32, and behind its time by less than a tick for
   each packet before it if none of those lasts 2^32 ticks (writePacket,
   readPacket). *)
ReadsWritten ==
  Is("packet") =>
    LET p == last.pkt
        w == written[last.track]
        i == last.index
        late == Start(last.track, i) - p.time
    IN /\ Size < Wrap => p.data = w[i].data
       /\ p.key = (w[i].key /\ Video(last.track))
       /\ p.cts = IF Video(last.track) THEN tsToTime(timeToTs(w[i].cts) % Wrap) ELSE 0
       /\ 0 <= late
       /\ (\A j \in 1 .. i - 1 : timeToTs(Gap(w, j)) < Wrap) => late * TimeScale <= i * Second

(* The cursor's eleven numbers say the same: each track stands where a seek to
   its sample would put it (incSampleIndex, setSampleIndex). *)
CursorsAgree ==
  opened = "ok" => \A t \in DOMAIN cursors :
    cursors[t].sampleIndex < Len(written[t]) =>
      setSampleIndex(moov[t], cursors[t], cursors[t].sampleIndex) = [ok |-> TRUE, cur |-> cursors[t]]

(* The end is told when the track that is least far has given all its packets,
   and the others all that begin before it ends; but a video track without a
   key frame, or a table of one size for all, is told to have ended at once
   (isSampleValid). *)
Readable(t) == moov[t].fixed = 0 /\ (moov[t].synced => moov[t].sync # <<>>)
EndIsEnd ==
  Is("eof") /\ Readable(last.track) =>
    /\ cursors[last.track].sampleIndex = Len(written[last.track])
    /\ \A t \in DOMAIN cursors : Time(t) >= Time(last.track)

(* After a seek the picture can be decoded at once, from a moment not after the
   one asked for, if a key frame begins by then; and the sound begins with the
   sample of the picture's moment or the one before it.  That is if no run of
   equal durations lasts 2^32 ticks, which timeToSampleIndex would take for a
   shorter one (SeekToTime). *)
RunsFit == \A t \in DOMAIN moov : Spans32(moov[t]) = Spans(moov[t])
SeekLands ==
  Is("seek") /\ RunsFit =>
    /\ \A t \in DOMAIN cursors : First(t) =>
         LET i == cursors[t].sampleIndex + 1
         IN (\E k \in DOMAIN written[t] :
               written[t][k].key /\ timeToTs(Start(t, k)) <= timeToTs(last.time))
              => written[t][i].key /\ Time(t) <= last.time
    /\ \A v, a \in DOMAIN cursors :
         First(v) /\ ~Video(a) /\ cursors[a].sampleIndex + 1 < Len(written[a]) =>
           /\ cursors[a].dts <= cursors[v].dts
           /\ cursors[v].dts <= incSampleIndex(moov[a], cursors[a]).dts
-----------------------------------------------------------------------------
(***************************************************************************)
(* What makes these inductive.  What the tables must say is told by the    *)
(* packets: the ticks to the next one (none at the last), their            *)
(* composition times, their sizes and which are keys.                      *)
(***************************************************************************)
Pkt == [time : Int, cts : Nat, key : BOOLEAN, data : Seq(Seq(Nat))]
Durations(w) == [i \in DOMAIN w |-> timeToTs(Gap(w, i)) % Wrap]
Offsets(w) == [i \in DOMAIN w |-> timeToTs(w[i].cts) % Wrap]
Sizes(w, n) == [i \in 1 .. n |-> Len(w[i].data)]
Placed(d, at, bytes) ==
  at - 8 \in Nat /\ at - 8 + Len(bytes) <= Len(d) /\ \A j \in DOMAIN bytes : d[at - 8 + j] = bytes[j]

\* The times, composition times and key frames of the first n packets.
Described(tab, video, w, n) ==
  /\ RunsOf(tab.stts, "duration", Durations(w), n)
  /\ IF video THEN RunsOf(tab.ctts, "offset", Offsets(w), n) ELSE tab.ctts = <<>>
  /\ tab.synced = video
  /\ IF video THEN Lists(tab.sync, {i \in 1 .. n : w[i].key}) ELSE tab.sync = <<>>

\* One sample a chunk, as the muxer writes them.
Fields == {"groups", "offsets", "fixed", "sizes", "stts", "ctts", "synced", "sync"}
OneEach(tab, w, n) ==
  /\ Fields \subseteq DOMAIN tab
  /\ tab.groups = << [first |-> 1, per |-> 1] >> /\ tab.fixed = 0 /\ tab.sizes = Sizes(w, n)
  /\ tab.offsets \in Seq(Nat) /\ Len(tab.offsets) = n
Fits(d) == 8 + Len(d) < Wrap
InPlace(tab, w, d) == Fits(d) => \A i \in DOMAIN tab.offsets : Placed(d, tab.offsets[i], w[i].data)

\* Several in a chunk.
Laid(tab, w, d) ==
  LET n == Len(w)
      sum(i) == SumTo(Sizes(w, n), i)
      first(c) == SumTo(Pers(tab), c - 1)
  IN /\ Chunked(tab, n) /\ Sized(tab, Sizes(w, n))
     /\ Fits(d) => \A c \in DOMAIN tab.offsets : \A a \in 0 .. Pers(tab)[c] - 1 :
          Placed(d, tab.offsets[c] + sum(first(c) + a) - sum(first(c)), w[first(c) + a + 1].data)

Stands(tab, w, cur) ==
  LET n == Len(w)
      index == cur.sampleIndex
      sum(i) == SumTo(Sizes(w, n), i)
  IN /\ cur \in Cursor /\ index <= n
     /\ InRun(Pers(tab), index, cur.chunkIndex, cur.sampleIndexInChunk)
     /\ cur.chunkGroupIndex = GroupOf(tab, cur.chunkIndex)
     /\ cur.sampleOffsetInChunk = sum(index) - sum(index - cur.sampleIndexInChunk)
     /\ InRun(Column(tab.stts, "count"), index, cur.sttsEntryIndex, cur.sampleIndexInSttsEntry)
     /\ cur.dts = SumTo(Durations(w), index)
     /\ IF tab.ctts = <<>> THEN cur.cttsEntryIndex = 0 /\ cur.sampleIndexInCttsEntry = 0
        ELSE InRun(Column(tab.ctts, "count"), index, cur.cttsEntryIndex, cur.sampleIndexInCttsEntry)
     /\ cur.syncSampleIndex = IF tab.synced THEN SyncBefore(tab.sync, index) ELSE 0

\* The packets, the one of each track that waits, and those the tables tell of.
Waiting(t) == IF stage = "open" /\ written[t] # <<>> THEN Last(written[t]) ELSE <<>>
Sampled(t) == Len(written[t]) - IF stage = "open" /\ written[t] # <<>> THEN 1 ELSE 0
WrittenInv ==
  /\ streams \in Tracks /\ stage \in {"open", "flushed", "sized", "done", "dead"}
  /\ DOMAIN written = DOMAIN streams /\ DOMAIN lastpkt = DOMAIN streams /\ DOMAIN sample = DOMAIN streams
  /\ \A t \in DOMAIN streams :
       /\ written[t] \in Seq(Pkt)
       /\ \A i \in DOMAIN written[t] : Gap(written[t], i) >= 0 /\ written[t][i].data # <<>>
  /\ data \in Seq(Seq(Nat)) /\ wpos \in Nat
  /\ stage # "dead" => \A t \in DOMAIN streams :
       /\ lastpkt[t] = Waiting(t)
       /\ Described(sample[t], Video(t), written[t], Sampled(t))
       /\ OneEach(sample[t], written[t], Sampled(t))
  /\ stage = "open" => wpos = 8 + Len(data)
  /\ stage \in {"open", "flushed", "sized"} => \A t \in DOMAIN streams : InPlace(sample[t], written[t], data)

\* The tables in the file tell all the packets.
MovieInv ==
  IF stage = "done"
  THEN /\ DOMAIN moov = DOMAIN streams
       /\ \A t \in DOMAIN streams :
            /\ Described(moov[t], Video(t), written[t], Len(written[t]))
            /\ Laid(moov[t], written[t], data)
  ELSE moov = <<>>
CursorInv ==
  IF opened = "ok"
  THEN /\ stage = "done" /\ DOMAIN cursors = DOMAIN streams
       /\ \A t \in DOMAIN streams : Stands(moov[t], written[t], cursors[t])
  ELSE last = <<>>
FileInv == WrittenInv /\ MovieInv /\ CursorInv
=============================================================================
