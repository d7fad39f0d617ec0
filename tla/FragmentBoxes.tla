---------------------------- MODULE FragmentBoxes ----------------------------
(***************************************************************************)
(* What the two writers of fragments put into a "moof": the fragmenter of  *)
(* format/fmp4 and the muxer of format/mp4f, as values of their boxes.  A  *)
(* packet is [time, cts, data, key]; units of time make a tick of the      *)
(* track's time scale.                                                     *)
(***************************************************************************)
EXTENDS BoxFormat

Fmp4 == INSTANCE Fmp4Boxes
Mp4f == INSTANCE Mp4fBoxes

SampleNoDependencies == \h02000000
SampleNonKeyframe == \h01010000
SampleFlags(pkt, video) ==
  IF pkt.key \/ ~video THEN SampleNoDependencies ELSE SampleNonKeyframe

\* timescale.ToScale rounds half up; Relative doubles, cuts towards zero, and
\* rounds by the odd bit.
ToScale(t, units) == (t \div units) + (IF 2 * (t % units) >= units THEN 1 ELSE 0)
Relative(t, units) ==
  LET rel == IF t >= 0 THEN (2 * t) \div units ELSE -((-2 * t) \div units)
  IN (IF (rel % 2 = 1) = (t > 0) THEN rel + 1 ELSE rel) \div 2
-----------------------------------------------------------------------------
\* makeFragment: all packets but the last, whose time ends the one before it.
\* A field that is the same for all samples goes to the track's header, and the
\* flags of the first sample may stand apart.
Samples(pending, video, units) ==
  [i \in 1 .. Len(pending) - 1 |->
     << ToScale(pending[i + 1].time, units) - ToScale(pending[i].time, units),
        Len(pending[i].data), SampleFlags(pending[i], video), Relative(pending[i].cts, units) >>]

\* Mutant: the default is not cleared by a sample that differs.
Common_Kept(samples, w, first) == samples[first][w]

Common(samples, w, first) ==
  IF \A i \in first .. Len(samples) : samples[i][w] = samples[first][w]
  THEN samples[first][w] ELSE 0

FullBox(version, flags) == [Version |-> version, Flags |-> flags]

MakeTrackFrag(track, video, pending, units) ==
  LET samples  == Samples(pending, video, units)
      duration == Common(samples, 1, 1)
      size     == Common(samples, 2, 1)
      flags    == Common(samples, 3, IF Len(samples) > 1 THEN 2 ELSE 1)
      first    == samples[1][3]
      shifted  == \E i \in DOMAIN samples : pending[i].cts # 0
      early    == \E i \in DOMAIN samples : samples[i][4] < 0
      If(c, n) == IF c THEN n ELSE 0
  IN [Header |->
        << FullBox(0, \h20000 + If(size # 0, 16) + If(duration # 0, 8) + If(flags # 0, 32))
             @@ [TrackID |-> track, BaseDataOffset |-> 0, StsdID |-> 0, DefaultDuration |-> duration,
                 DefaultSize |-> size, DefaultFlags |-> flags] >>,
      DecodeTime |-> << FullBox(1, 0) @@ [Time |-> ToScale(pending[1].time, units)] >>,
      Run |->
        << FullBox(IF early THEN 1 ELSE 0,
                   1 + If(shifted, 2048) + If(size = 0, 512) + If(duration = 0, 256)
                     + If(flags = 0, 1024) + If(flags # 0 /\ first # flags, 4))
             @@ [DataOffset |-> 0, FirstSampleFlags |-> first, Entries |-> samples] >>,
      Unknowns |-> <<>>]

\* marshalFragment: the data of each track begins where that of the tracks
\* before it ends, counted from the start of the "moof".
DataOf(pending) == Flat([i \in 1 .. Len(pending) - 1 |-> pending[i].data])
Moof(frags, seqnum, datas) ==
  LET moof == [Header |-> << FullBox(0, 0) @@ [Seqnum |-> seqnum] >>, Tracks |-> frags,
               Unknowns |-> <<>>]
      base == BoxLen(Fmp4!MovieFrag, moof) + 8
  IN [moof EXCEPT !.Tracks =
        [k \in DOMAIN frags |->
           [frags[k] EXCEPT !.Run[1].DataOffset = base + Len(Flat(SubSeq(datas, 1, k - 1)))]]]

Mdat(data) == PutBE(8 + Len(data), 4) \o PutBE(\h6d646174, 4) \o data
SegmentHeader ==
  BoxBytes(Fmp4!SegmentType,
           [MajorBrand |-> \h6d736468, MinorVersion |-> 0, CompatibleBrands |-> << \h6d736978 >>])
-----------------------------------------------------------------------------
\* Mutant: the header of the data is not counted.
MuxerMoof_Offset(track, time, samples, seqnum) ==
  LET moof ==
        [Header |-> << FullBox(0, 0) @@ [Seqnum |-> seqnum] >>,
         Tracks |->
           << [Header |-> << [Data |-> << 0, 2, 0, 32, 0, 0, 0, track, 1, 1, 0, 0 >>] >>,
               DecodeTime |-> << FullBox(1, 0) @@ [Time |-> time] >>,
               Run |-> << FullBox(0, \h000b05)
                            @@ [DataOffset |-> 0, FirstSampleFlags |-> SampleNoDependencies,
                                Entries |-> samples] >>,
               Unknowns |-> <<>>] >>,
         Unknowns |-> <<>>]
  IN [moof EXCEPT !.Tracks[1].Run[1].DataOffset = BoxLen(Mp4f!MovieFrag, moof)]

\* mp4f's writePacketV2, one track: the header is given as bytes, and the run's
\* flags ask for duration, size and composition time of each sample.
MuxerMoof(track, time, samples, seqnum) ==
  LET moof ==
        [Header |-> << FullBox(0, 0) @@ [Seqnum |-> seqnum] >>,
         Tracks |->
           << [Header |-> << [Data |-> << 0, 2, 0, 32, 0, 0, 0, track, 1, 1, 0, 0 >>] >>,
               DecodeTime |-> << FullBox(1, 0) @@ [Time |-> time] >>,
               Run |-> << FullBox(0, \h000b05)
                            @@ [DataOffset |-> 0, FirstSampleFlags |-> SampleNoDependencies,
                                Entries |-> samples] >>,
               Unknowns |-> <<>>] >>,
         Unknowns |-> <<>>]
  IN [moof EXCEPT !.Tracks[1].Run[1].DataOffset = BoxLen(Mp4f!MovieFrag, moof) + 8]
=============================================================================
