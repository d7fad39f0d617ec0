------------------------------ MODULE BoxCodec ------------------------------
(***************************************************************************)
(* Boxes are written and read.  Either one box of any type is written by   *)
(* its package and read by a package, or the fragmenter of format/fmp4     *)
(* (TrackFragmenter with one track, MovieFragmenter with more) or the      *)
(* muxer of format/mp4f writes fragments, and a player reads them, which   *)
(* knows nothing but the format.                                           *)
(***************************************************************************)
EXTENDS FragmentBoxes

CONSTANTS
  Seeds,        \* the ways to fill a box in
  Video,        \* of each track of the fragmenter, whether it is video
  Units,        \* units of packet time in a tick
  Shapes,       \* packets the fragmenter is given, without a time: gap, cts, size, key
  Times,        \* numbers in a sample of the muxer's
  MaxPackets,   \* bound on the packets of the fragmenter
  MaxFragments  \* bound on its fragments

Tracks == DOMAIN Video

ASSUME SeedsAssumption == Seeds \subseteq Nat
ASSUME TracksAssumption == Video \in Seq(BOOLEAN) /\ Len(Video) > 0
ASSUME UnitsAssumption == Units \in Nat \ {0}
ASSUME BoundsAssumption == MaxPackets \in Nat /\ MaxFragments \in Nat

Mp4 == INSTANCE Mp4Boxes

VARIABLES
  pair,     \* writer, reader and tag of the box
  value,    \* the box that is written
  bytes,    \* what Marshal gave
  result,   \* what Unmarshal gave
  pending,  \* TrackFragmenter, of each track
  seqNum, shdrw,   \* the fragmenter's
  written,  \* history: packets of each track
  played    \* history: samples of each track a player has
boxVars == << pair, value, bytes, result >>
fragVars == << pending, seqNum, shdrw, written, played >>
vars == << boxVars, fragVars >>
-----------------------------------------------------------------------------
RECURSIVE Within(_)
Within(box) == {box} \union UNION {Within(box.fields[i].box) : i \in
                                     {j \in DOMAIN box.fields : box.fields[j].kind = "child"}}

ByTag(boxes) == [tag \in {b.tag : b \in boxes} |-> CHOOSE b \in boxes : b.tag = tag]
Layouts ==
  [mp4io  |-> ByTag(UNION {Within(b) : b \in {Mp4!Movie, Mp4!MovieFrag, Mp4!FileType, Mp4!SegmentType}}),
   fmp4io |-> ByTag(UNION {Within(b) : b \in ToSet(Fmp4!FileAtoms)}),
   mp4fio |-> ByTag({Mp4f!MovieFrag, Mp4f!ElemStreamDesc})]

Writer == Layouts[pair.writer][pair.tag]
TheReader == Layouts[pair.reader][pair.tag]

\* mp4io and fmp4io read what they write; fmp4io also reads the movie of mp4io
\* and the boxes of mp4fio, which has no readers.
Pair(w, r, tags) == {[writer |-> w, reader |-> r, tag |-> t] : t \in tags}
Pairs ==
  Pair("mp4io", "mp4io", DOMAIN Layouts["mp4io"])
    \union Pair("fmp4io", "fmp4io", DOMAIN Layouts["fmp4io"])
    \union Pair("mp4io", "fmp4io", {b.tag : b \in Within(Mp4!Movie)} \cap DOMAIN Layouts["fmp4io"])
    \union Pair("mp4fio", "fmp4io", DOMAIN Layouts["mp4fio"])
-----------------------------------------------------------------------------
(***************************************************************************)
(* The values of a box: seed 0 is a box with nothing in it, 1 has all its  *)
(* children, version 0 and no flags, 2 has two of what it may have many,   *)
(* version 1, all flags and numbers with their top bit set; 3 has children *)
(* with nothing in them; 4 is 2 without a fixed size and with version 0;   *)
(* 5 and 6 are 2 and 4 without the children that no reader gives back.  A  *)
(* handler always has a name, as in every writer.                          *)
(***************************************************************************)
Pattern(i, w, seed) ==
  [k \in 1 .. w |-> IF w = 8 /\ k < 6 THEN 0
                    ELSE IF seed = 0 THEN 0
                    ELSE (41 * i + 59 * k + 17 * seed + (IF seed > 1 /\ k = 1 THEN 128 ELSE 0)) % 256]
Most(seed) == IF seed \in {0, 3} THEN 0 ELSE IF seed = 1 THEN 1 ELSE 2
Below(seed) == IF seed = 3 THEN 0 ELSE seed

RunFlags == 1 + 4 + 256 + 512 + 1024 + 2048

NumberOf(f, i, seed) ==
  CASE f.name = "Version" -> IF seed \in {2, 5} /\ f.kind # "zero" THEN 1 ELSE 0
    [] f.name \in {"Flags", "FirstSampleFlags"} ->
         IF seed < 2 THEN 0 ELSE RunFlags + 2 + 8 + 16 + 32
    [] f.name = "SampleSize" /\ f.width = 4 -> IF seed \in {2, 5} THEN 77 ELSE 0
    [] f.kind = "zero" -> 0
    [] OTHER -> IF f.kind = "signed" THEN GetSignedBE(Pattern(i, f.width, seed))
                ELSE GetBE(Pattern(i, f.width, seed))

\* A child that is dropped, or has a field its own package does not read back.
Dropped(f) == "dropped" \in DOMAIN f
LostChild(f) ==
  Dropped(f) \/ \E i \in DOMAIN f.box.fields :
                  f.box.fields[i].kind = "esds" /\ f.box.fields[i].dialect = "mp4"
HowMany(f, seed) ==
  IF seed = 0 \/ (seed > 4 /\ LostChild(f)) THEN 0 ELSE IF f.many THEN Most(seed) ELSE 1

RECURSIVE Fill(_, _)
FillField(f, i, seed) ==
  CASE f.kind \in {"unsigned", "signed", "zero", "byversion"} -> NumberOf(f, i, seed)
    [] f.kind = "fixed"  -> << GetBE(Pattern(i, f.width, seed)), seed >>
    [] f.kind = "time"   -> IF seed \in {0, 3} THEN <<>> ELSE << GetBE(Pattern(i, 4, 1)), seed >>
    [] f.kind = "array"  -> [k \in 1 .. f.n |-> GetSignedBE(Pattern(i + k, f.width, seed))]
    [] f.kind = "bytes"  -> Pattern(i, f.width, seed)
    [] f.kind = "rest"   -> Pattern(i, IF f.name = "Name" THEN 13 ELSE 3 * Most(seed), seed)
    [] f.kind = "cstring" -> [k \in 1 .. 3 * Most(seed) |-> 64 + k + i]
    [] f.kind = "brands" -> [k \in 1 .. Most(seed) |-> GetBE(Pattern(i + k, 4, seed))]
    [] f.kind = "list"   -> [k \in 1 .. Most(seed) |-> [w \in 1 .. (f.width \div 4) |-> GetBE(Pattern(i + k + 7 * w, 4, seed))]]
    [] f.kind = "run"    -> [k \in 1 .. Most(seed) |-> [w \in 1 .. 4 |-> GetBE(Pattern(i + k + 7 * w, 4, seed))]]
    [] f.kind = "references" ->
         [k \in 1 .. Most(seed) |-> [box |-> k = 1, size |-> 1000 * k + 3, duration |-> 70 + k,
                                     sap |-> k = 2, type |-> k, delta |-> 500 + k]]
    [] f.kind = "esds"   -> Pattern(i, 2 * Most(seed), seed)
    [] f.kind = "child"  -> [k \in 1 .. HowMany(f, seed) |-> Fill(f.box, Below(seed))]
    [] f.kind = "unknowns" ->
         [k \in 1 .. Most(seed) |->
            LET data == PutBE(8 + 3 * k, 4) \o PutBE(\h66726565, 4) \o Pattern(i, 3 * k, 1)
            IN [tag |-> \h66726565, data |-> data]]

Named(box) == {i \in DOMAIN box.fields : box.fields[i].name # "" /\ box.fields[i].kind # "length"}
Fill(box, seed) ==
  LET named == Named(box)
      names == {box.fields[i].name : i \in named}
      at(n) == CHOOSE i \in named : box.fields[i].name = n
      v     == [n \in names |-> FillField(box.fields[at(n)], at(n), seed)]
  IN IF "DecConfig" \in names THEN ("TrackId" :> seed) @@ v ELSE v
-----------------------------------------------------------------------------
\* The muxer's fragments: two samples with all the numbers there may be.
MuxerSamples ==
  {<< << d, s, 0, c >>, << c, d, 0, s >> >> : d \in Times, s \in Times, c \in Times}
Values ==
  IF pair.writer = "mp4fio" /\ pair.tag = Mp4f!MovieFrag.tag
  THEN {MuxerMoof(k, t, samples, 1) : k \in {1, 2}, t \in Times, samples \in MuxerSamples}
  ELSE {Fill(Writer, seed) : seed \in Seeds}

Fragmenter == [writer |-> "fragmenter", reader |-> "player", tag |-> Fmp4!MovieFrag.tag]
\* NewTrack
TrackID(k) == IF Video[k] THEN 2 ELSE 1

\* What the format says a fragment's samples are: its header's defaults where
\* the run has no field of its own, and the data one after the other.
FragSamples(traf, at) ==
  LET h == traf.Header[1]
      r == traf.Run[1]
      n == Len(r.Entries)
      Of(w, bit, i, default) == IF Bit(r.Flags, bit) THEN r.Entries[i][w] ELSE default
      duration == [i \in 1 .. n |-> Of(1, 256, i, h.DefaultDuration)]
      size     == [i \in 1 .. n |-> Of(2, 512, i, h.DefaultSize)]
      flags(i) == IF i = 1 /\ Bit(r.Flags, 4) THEN r.FirstSampleFlags ELSE Of(3, 1024, i, h.DefaultFlags)
      Upto(s, i) == Total(SubSeq(s, 1, i - 1))
  IN [i \in 1 .. n |->
        [time |-> traf.DecodeTime[1].Time + Upto(duration, i), duration |-> duration[i],
         cts |-> Of(4, 2048, i, 0), key |-> flags(i) = SampleNoDependencies,
         at |-> at + r.DataOffset + Upto(size, i), size |-> size[i]]]
SamplesOf(moof, track, b) ==
  LET trafs == SelectSeq(moof.v.Tracks, LAMBDA t : t.Header[1].TrackID = track)
  IN IF trafs = <<>> THEN <<>>
     ELSE Over(FragSamples(trafs[1], moof.at), LAMBDA s : [data |-> Cut(b, s.at, s.size)] @@ s)
-----------------------------------------------------------------------------
Nothing == Reader(0, <<>>, "none")

Init ==
  /\ pair \in Pairs \union {Fragmenter}
  /\ value = <<>> /\ bytes = <<>> /\ result = Nothing
  /\ pending = [k \in Tracks |-> <<>>]
  /\ seqNum = 0 /\ shdrw = FALSE
  /\ written = [k \in Tracks |-> <<>>]
  /\ played = [k \in Tracks |-> <<>>]

\* Len, a slice of that length, and Marshal.
Marshal ==
  /\ pair # Fragmenter /\ bytes = <<>>
  /\ value' \in Values
  /\ bytes' = BoxBytes(Writer, value')
  /\ UNCHANGED << pair, result, fragVars >>

Unmarshal ==
  /\ pair # Fragmenter /\ bytes # <<>> /\ result = Nothing
  /\ result' = ReadBox(TheReader, bytes)
  /\ UNCHANGED << pair, value, bytes, fragVars >>
-----------------------------------------------------------------------------
(***************************************************************************)
(* The fragmenter.  A packet's data is its track and number, as often as   *)
(* the packet is long.                                                     *)
(***************************************************************************)
WritePacket(k, shape) ==
  LET n    == Len(written[k])
      last == IF n = 0 THEN 0 ELSE written[k][n].time
      pkt  == [time |-> last + shape.gap, cts |-> shape.cts, key |-> shape.key,
               data |-> [i \in 1 .. shape.size |-> 16 * k + n]]
  IN /\ pair = Fragmenter /\ bytes = <<>>
     /\ FoldFunction(LAMBDA p, sum : Len(p) + sum, 0, written) < MaxPackets
     /\ pending' = [pending EXCEPT ![k] = Append(@, pkt)]
     /\ written' = [written EXCEPT ![k] = Append(@, pkt)]
     /\ UNCHANGED << boxVars, seqNum, shdrw, played >>

\* A fragment has the tracks that have two packets; each keeps its last.
Ready == SelectSeq([i \in 1 .. Len(Video) |-> i], LAMBDA k : Len(pending[k]) > 1)

Fragment ==
  LET datas == Over(Ready, LAMBDA k : DataOf(pending[k]))
      moof  == Moof(Over(Ready, LAMBDA k : MakeTrackFrag(TrackID(k), Video[k], pending[k], Units)),
                    seqNum + 1, datas)
  IN /\ pair = Fragmenter /\ bytes = <<>> /\ seqNum < MaxFragments
     /\ Ready # <<>>
     /\ value' = moof
     /\ bytes' = (IF shdrw THEN <<>> ELSE SegmentHeader)
                   \o BoxBytes(Fmp4!MovieFrag, moof) \o Mdat(Flat(datas))
     /\ seqNum' = seqNum + 1
     /\ shdrw' = TRUE
     /\ pending' = [k \in Tracks |-> IF Len(pending[k]) > 1 THEN << Last(pending[k]) >> ELSE pending[k]]
     /\ UNCHANGED << pair, result, written, played >>

NewSegment ==
  /\ pair = Fragmenter /\ bytes = <<>> /\ shdrw
  /\ shdrw' = FALSE
  /\ UNCHANGED << boxVars, pending, seqNum, written, played >>

\* A player gets the fragment.
Fragments(atoms) == SelectSeq(atoms, LAMBDA a : a.tag = Fmp4!MovieFrag.tag)
NewSamples(moofs, k) == IF moofs = <<>> THEN <<>> ELSE SamplesOf(moofs[1], TrackID(k), bytes)
TakeIn(file) ==
  /\ result' = Reader(0, file.atoms, file.st)
  /\ played' = [k \in Tracks |-> played[k] \o NewSamples(Fragments(file.atoms), k)]

Play ==
  /\ pair = Fragmenter /\ bytes # <<>>
  /\ TakeIn(ReadFileAtoms(Fmp4!FileAtoms, bytes, 0))
  /\ bytes' = <<>> /\ value' = <<>>
  /\ UNCHANGED << pair, pending, seqNum, shdrw, written >>

Next ==
  \/ Marshal \/ Unmarshal
  \/ \E k \in Tracks, shape \in Shapes : WritePacket(k, shape)
  \/ Fragment \/ NewSegment \/ Play
Spec == Init /\ [][Next]_vars
-----------------------------------------------------------------------------
(***************************************************************************)
(* What a box that is read back has kept of what was written: a remainder  *)
(* finer than a field, an optional field without its flag and the words of *)
(* a sample without theirs are lost, a zero time is what its writer makes  *)
(* of it, and a last child of eight bytes is not looked at.                *)
(***************************************************************************)
RECURSIVE Kept(_, _, _)
Time0(f, x) == IF x # <<>> THEN << x[1], 0 >> ELSE IF f.zero = 0 THEN <<>> ELSE << f.zero, 0 >>
Words4(f, v, i) ==
  [w \in 1 .. 4 |-> IF HasWord(f.dialect, v, i, w) THEN v.Entries[i][w] ELSE 0]
AllChildren(box, v) ==
  Flat(Over(SelectSeq(box.fields, IsChild), LAMBDA f :
    Over(v[f.name], LAMBDA c : << f.name, IF f.kind = "child" THEN BoxLen(f.box, c) ELSE Len(c.data) >>)))
Seen(box, v, f) ==
  LET all == AllChildren(box, v)
  IN IF all # <<>> /\ Last(all) = << f.name, 8 >> THEN Front(v[f.name]) ELSE v[f.name]

KeptField(box, f, v, y) ==
  LET x == v[f.name]
  IN IF ~Present(f, v) THEN y = ZeroValue(f)
     ELSE CASE f.kind = "fixed" -> y = << x[1], 0 >>
            [] f.kind = "time"  -> y = Time0(f, x)
            [] f.kind = "run"   -> y = [i \in DOMAIN x |-> Words4(f, v, i)]
            [] f.kind = "child" ->
                 /\ Len(y) = Len(Seen(box, v, f))
                 /\ \A i \in DOMAIN y : Kept(f.box, x[i], y[i])
            [] f.kind = "unknowns" -> y = Seen(box, v, f)
            [] OTHER -> y = x
Kept(box, v, w) ==
  \A i \in Named(box) : KeptField(box, box.fields[i], v, w[box.fields[i].name])

\* Boxes the code does not read back as they were: a segment index with
\* references, a version-1 run of fmp4io with composition times, an Opus entry,
\* and the descriptors of mp4io, whose lengths are not those of their contents.
RECURSIVE Mangled(_, _)
Mangled(box, v) ==
  \E i \in Named(box) :
    LET f == box.fields[i] IN
    CASE f.kind = "references" -> v.References # <<>>
      [] f.kind = "run"   -> f.dialect = "fmp4" /\ v.Version > 0 /\ Bit(v.Flags, 2048) /\ v.Entries # <<>>
      [] f.kind = "esds"  -> f.dialect = "mp4"
      [] f.kind = "child" -> \/ Dropped(f) /\ v[f.name] # <<>>
                             \/ \E c \in DOMAIN v[f.name] : Mangled(f.box, v[f.name][c])
      [] OTHER -> FALSE

IsRead == pair # Fragmenter /\ result # Nothing
-----------------------------------------------------------------------------

(* A box is as long as Len says, whatever is in it, and every box but the
   mangled ones is read back by its own package: nothing of it is lost but what
   Kept names, and no child's size leads the reader astray (Len, Marshal and
   Unmarshal of each type). *)
RoundTrip ==
  /\ pair # Fragmenter /\ bytes # <<>> => Len(bytes) = BoxLen(Writer, value)
  /\ IsRead /\ pair.writer = pair.reader /\ ~Mangled(Writer, value) =>
       result.st = "ok" /\ Kept(Writer, value, result.v)

(* The packages agree on the format: fmp4io finds in a box of mp4io, and in
   the descriptors of mp4fio, every number that both have a name for, though
   they spell "Id" in their own ways.  The contents of a handler are the
   exception: mp4io leaves out twelve bytes before its name. *)
HandlerTag == \h68646c72
SameName(f, g) ==
  \/ f.name = g.name
  \/ <<f.name, g.name>> \in {<<"TrackId", "TrackID">>, <<"NextTrackId", "NextTrackID">>}
RECURSIVE Agrees(_, _, _, _)
Agrees(box, other, v, w) ==
  \A i \in Named(box) : \A j \in Named(other) :
    LET f == box.fields[i]
        g == other.fields[j]
        x == Seen(box, v, f)
        y == w[g.name]
    IN SameName(f, g) /\ box.tag # HandlerTag =>
         IF f.kind = "child"
         THEN /\ Len(y) = Len(x)
              /\ \A k \in DOMAIN x : Agrees(f.box, g.box, x[k], y[k])
         ELSE f.kind = "unknowns" \/ KeptField(box, f, v, y)
PackagesAgree ==
  IsRead /\ pair.writer # pair.reader /\ ~Mangled(Writer, value)
         /\ ~(pair.writer = "mp4fio" /\ pair.tag = Mp4f!MovieFrag.tag) =>
    result.st = "ok" /\ Agrees(Writer, TheReader, value, result.v)

(* A fragment of mp4f says to a player what the muxer put in: the track, the
   decode time, of each sample its duration, size and composition time, and
   where the data begins (writePacketV2). *)
MuxerFragmentPlays ==
  IsRead /\ pair.writer = "mp4fio" /\ pair.tag = Mp4f!MovieFrag.tag =>
    LET traf == value.Tracks[1]
        read == FragSamples(result.v.Tracks[1], 0)
        sent == traf.Run[1].Entries
    IN /\ result.st = "ok"
       /\ result.v.Tracks[1].Header[1].TrackID = traf.Header[1].Data[8]
       /\ read[1].time = traf.DecodeTime[1].Time
       /\ read[1].at = Len(bytes) + 8
       /\ read[2].at = read[1].at + sent[1][2]
       /\ Over(read, LAMBDA s : << s.duration, s.size, 0, s.cts >>) = sent
       /\ read[1].key /\ ~read[2].key

(* A player gets every packet the fragmenter was given but the pending ones,
   once, in order and with its own data, at its own time with no gap between
   fragments, however the fields are folded into defaults (makeFragment,
   marshalFragment).  A negative composition time spoils the box it is in. *)
Due(k) == Len(written[k]) - Len(pending[k])
NoneEarly == \A k \in Tracks : \A i \in DOMAIN written[k] : written[k][i].cts >= 0
FragmentsPlay ==
  bytes = <<>> /\ NoneEarly => \A k \in Tracks :
    /\ Len(played[k]) = Due(k)
    /\ \A i \in DOMAIN played[k] :
         /\ played[k][i].time = ToScale(written[k][i].time, Units)
         /\ played[k][i].time + played[k][i].duration = ToScale(written[k][i + 1].time, Units)
         /\ played[k][i].cts = Relative(written[k][i].cts, Units)
         /\ played[k][i].key = (written[k][i].key \/ ~Video[k])
         /\ played[k][i].data = written[k][i].data

=============================================================================
