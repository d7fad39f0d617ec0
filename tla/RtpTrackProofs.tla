--------------------------- MODULE RtpTrackProofs ---------------------------
(***************************************************************************)
(* RtpTrack's properties, proved for every wrap of the timestamps, every    *)
(* step of the camera's clock and any number of slices.                     *)
(*                                                                          *)
(* The inductive invariant is Inv, whose parts RtpTrack states: the track   *)
(* is only ever looked at between blocks, so it says what the blocks still  *)
(* under way may be (FeedInv) and what the track must hold for each of them *)
(* (BufferInv, ClockInv, CodecInv).  What a block makes of the track is     *)
(* Taken, proved once for every way to pack NAL units.                      *)
(***************************************************************************)
EXTENDS RtpTrack, SequenceTheorems, TLAPS

-----------------------------------------------------------------------------
(* The operators on a track, one by one.                                   *)

\* What a slice or a fragment does not change.
SetsKept(r, t) ==
  /\ r.sps = t.sps /\ r.pps = t.pps /\ r.codec = t.codec
  /\ r.spsChanged = t.spsChanged /\ r.ppsChanged = t.ppsChanged
\* What a parameter set does not change.
SlicesKept(r, t) ==
  /\ r.fuStarted = t.fuStarted /\ r.fuBuffer = t.fuBuffer
  /\ r.gotpkt = t.gotpkt /\ r.pkt = t.pkt /\ r.timestamp = t.timestamp
\* What no NAL unit changes.
TimesKept(r, t) == r.firsttimestamp = t.firsttimestamp /\ r.lasttime = t.lasttime

\* An SPS is kept, and a change of it noted.
LEMMA KeepSpsFacts ==
  ASSUME NEW t \in Tracks, NEW v \in Nat
  PROVE  LET r == KeepSps(t, v)
         IN  /\ r \in Tracks /\ SlicesKept(r, t) /\ TimesKept(r, t)
             /\ r.sps = v /\ r.pps = t.pps /\ r.codec = t.codec /\ r.ppsChanged = t.ppsChanged
             /\ r.spsChanged = (t.spsChanged \/ (t.sps # 0 /\ t.sps # v))
  BY DEF KeepSps, Tracks, SlicesKept, TimesKept

\* A PPS is kept, and a change of it noted.
LEMMA KeepPpsFacts ==
  ASSUME NEW t \in Tracks, NEW v \in Nat
  PROVE  LET r == KeepPps(t, v)
         IN  /\ r \in Tracks /\ SlicesKept(r, t) /\ TimesKept(r, t)
             /\ r.pps = v /\ r.sps = t.sps /\ r.codec = t.codec /\ r.spsChanged = t.spsChanged
             /\ r.ppsChanged = (t.ppsChanged \/ (t.pps # 0 /\ t.pps # v))
  BY DEF KeepPps, Tracks, SlicesKept, TimesKept

\* r is t with the slice data in its packet.
TookSlice(r, t, ts, data) ==
  /\ r \in Tracks /\ SetsKept(r, t) /\ TimesKept(r, t)
  /\ r.gotpkt /\ r.timestamp = ts
  /\ r.pkt.data = data /\ r.pkt.key = (t.pkt.key \/ data[1].key)
  /\ r.fuStarted = t.fuStarted /\ r.fuBuffer = t.fuBuffer

\* A slice is put in the packet and nothing else is changed.
LEMMA TakeSliceFacts ==
  ASSUME NEW t \in Tracks, NEW ts \in Int, NEW data \in Seq(Parts), data # <<>>
  PROVE  TookSlice(TakeSlice(t, ts, data), t, ts, data)
<1> DEFINE r == TakeSlice(t, ts, data)
<1>1. /\ r \in Tracks /\ SetsKept(r, t) /\ TimesKept(r, t)
      /\ r.gotpkt /\ r.timestamp = ts
      /\ r.pkt.data = data /\ r.pkt.key = (t.pkt.key \/ data[1].key)
      /\ r.fuStarted = t.fuStarted /\ r.fuBuffer = t.fuBuffer
  BY DEF TakeSlice, Tracks, Parts, SetsKept, TimesKept
<1> HIDE DEF r
<1> QED BY <1>1 DEF TookSlice, r

\* The codec is made of the sets once both are there; the sets of the SDP only
\* come in where the track has none.
LEMMA MakeCodecDataFacts ==
  ASSUME NEW t \in Tracks, NEW s, s \in {<<0, 0>>} \union Versions
  PROVE  LET r == makeCodecData(t, s)
         IN  /\ r \in Tracks /\ SlicesKept(r, t) /\ TimesKept(r, t)
             /\ s = <<0, 0>> =>
                  /\ r.sps = t.sps /\ r.pps = t.pps
                  /\ r.spsChanged = t.spsChanged /\ r.ppsChanged = t.ppsChanged
                  /\ r.codec = IF t.sps # 0 /\ t.pps # 0 THEN <<t.sps, t.pps>> ELSE t.codec
             /\ s # <<0, 0>> => r.sps = s[1] /\ r.pps = s[2] /\ r.codec = s
             /\ s # <<0, 0>> => r.sps # 0 /\ r.pps # 0
<1> DEFINE u == IF s = <<0, 0>> THEN t ELSE KeepPps(KeepSps(t, s[1]), s[2])
           r == makeCodecData(t, s)
<1>1. s # <<0, 0>> => s[1] \in Nat \ {0} /\ s[2] \in Nat \ {0} /\ s = <<s[1], s[2]>>
  BY DEF Versions
<1>2. /\ u \in Tracks /\ SlicesKept(u, t) /\ TimesKept(u, t)
      /\ s # <<0, 0>> => u.sps = s[1] /\ u.pps = s[2]
  <2>1. CASE s = <<0, 0>>
    BY <2>1 DEF SlicesKept, TimesKept
  <2>2. CASE s # <<0, 0>>
    <3> DEFINE w == KeepSps(t, s[1])
               x == KeepPps(w, s[2])
    <3>1. w \in Tracks /\ SlicesKept(w, t) /\ TimesKept(w, t) /\ w.sps = s[1]
      BY <1>1, <2>2, KeepSpsFacts
    <3> HIDE DEF w
    <3>2. x \in Tracks /\ SlicesKept(x, w) /\ TimesKept(x, w) /\ x.pps = s[2] /\ x.sps = w.sps
      BY <1>1, <2>2, <3>1, KeepPpsFacts
    <3> HIDE DEF x
    <3>3. u = x
      BY <2>2 DEF x, w
    <3> QED BY <3>1, <3>2, <3>3, <2>2 DEF SlicesKept, TimesKept
  <2> QED BY <2>1, <2>2
<1>3. r = IF u.sps # 0 /\ u.pps # 0 THEN [u EXCEPT !.codec = <<u.sps, u.pps>>] ELSE u
  BY DEF makeCodecData
<1>4. s = <<0, 0>> => u = t
  OBVIOUS
<1> HIDE DEF u, r
<1>5. /\ r \in Tracks /\ SlicesKept(r, u) /\ TimesKept(r, u)
      /\ r.sps = u.sps /\ r.pps = u.pps
      /\ r.spsChanged = u.spsChanged /\ r.ppsChanged = u.ppsChanged
      /\ r.codec = IF u.sps # 0 /\ u.pps # 0 THEN <<u.sps, u.pps>> ELSE u.codec
  BY <1>2, <1>3 DEF Tracks, SlicesKept, TimesKept
<1> QED BY <1>1, <1>2, <1>4, <1>5 DEF r, SlicesKept, TimesKept

\* What the track has of the slice when part k of it came.
Joined(t, n, k, key) == (IF k = 1 THEN <<>> ELSE t.fuBuffer) \o <<Part(n, k, 3, key)>>
\* r is t with part k of slice n joined to what it had.
TookFragment(r, t, ts, n, k, key) ==
  /\ r \in Tracks /\ SetsKept(r, t) /\ TimesKept(r, t)
  /\ k < 3 \/ ~t.fuStarted => r.gotpkt = t.gotpkt /\ r.pkt = t.pkt
  /\ k < 3 /\ (k = 1 \/ t.fuStarted) => r.fuStarted /\ r.fuBuffer = Joined(t, n, k, key)
  /\ k = 3 /\ t.fuStarted =>
       /\ r.gotpkt /\ r.timestamp = ts /\ r.pkt.data = Joined(t, n, k, key)
       /\ r.pkt.key = (t.pkt.key \/ Joined(t, n, k, key)[1].key)

\* A fragment is joined to the parts before it; the last makes a packet.
LEMMA TakeFragmentFacts ==
  ASSUME NEW t \in Tracks, NEW ts \in Int, NEW n \in Nat, NEW k \in 1..3, NEW key \in BOOLEAN
  PROVE  TookFragment(TakeFragment(t, ts, Fragment(n, k, 3, key)), t, ts, n, k, key)
<1> DEFINE part == Part(n, k, 3, key)
           f == Fragment(n, k, 3, key)
           started == t.fuStarted \/ f.start
           buf == Joined(t, n, k, key)
           s == [t EXCEPT !.fuStarted = started /\ ~f.end, !.fuBuffer = IF started THEN buf ELSE @]
<1>1. /\ f.data = <<part>> /\ f.start = (k = 1) /\ f.end = (k = 3)
  BY DEF Fragment
<1>2. part \in Parts /\ t.fuBuffer \in Seq(Parts) /\ t.fuStarted \in BOOLEAN
  BY DEF Part, Parts, Tracks
<1>3. buf \in Seq(Parts) /\ Len(buf) # 0 /\ buf # <<>>
  <2>1. buf = (IF k = 1 THEN <<>> ELSE t.fuBuffer) \o <<part>>
    BY DEF Joined
  <2> HIDE DEF part, buf
  <2>2. CASE k = 1
    BY <1>2, <2>1, <2>2
  <2>3. CASE k # 1
    BY <1>2, <2>1, <2>3
  <2> QED BY <2>2, <2>3
<1>4. TakeFragment(t, ts, f) = IF started /\ f.end THEN TakeSlice(s, ts, buf) ELSE s
  BY <1>1 DEF TakeFragment, Joined
<1>0. /\ f.start <=> k = 1
      /\ f.end <=> k = 3
      /\ started <=> t.fuStarted \/ k = 1
  BY <1>1
<1> HIDE DEF part, f, buf
<1>5. /\ s \in Tracks /\ SetsKept(s, t) /\ TimesKept(s, t)
      /\ s.gotpkt = t.gotpkt /\ s.pkt = t.pkt /\ s.timestamp = t.timestamp
      /\ s.fuStarted = (started /\ ~f.end)
      /\ s.fuBuffer = IF started THEN buf ELSE t.fuBuffer
  BY <1>1, <1>2, <1>3 DEF Tracks, SetsKept, TimesKept
<1> HIDE DEF s
<1> DEFINE w == TakeSlice(s, ts, buf)
<1>6. TookSlice(w, s, ts, buf)
  BY <1>3, <1>5, TakeSliceFacts
<1> HIDE DEF w
<1> DEFINE r == TakeFragment(t, ts, f)
<1>7. r = IF started /\ f.end THEN w ELSE s
  BY <1>4 DEF w
<1> HIDE DEF r
<1>8. CASE started /\ f.end
  <2>1. k = 3 /\ t.fuStarted
    BY <1>0, <1>8
  <2>2. TookSlice(r, s, ts, buf)
    BY <1>6, <1>7, <1>8
  <2>3. r \in Tracks /\ SetsKept(r, t) /\ TimesKept(r, t)
    BY <1>5, <2>2 DEF TookSlice, SetsKept, TimesKept
  <2>4. /\ r.gotpkt /\ r.timestamp = ts /\ r.pkt.data = buf
        /\ r.pkt.key = (t.pkt.key \/ buf[1].key)
    BY <1>5, <2>2 DEF TookSlice
  <2> QED BY <2>1, <2>3, <2>4 DEF TookFragment, r, f, buf
<1>9. CASE ~(started /\ f.end)
  <2>1. r = s
    BY <1>7, <1>9
  <2>2. r.gotpkt = t.gotpkt /\ r.pkt = t.pkt
    BY <1>5, <2>1
  <2>3. k = 3 => ~t.fuStarted
    BY <1>0, <1>9
  <2>4. k < 3 /\ (k = 1 \/ t.fuStarted) => r.fuStarted /\ r.fuBuffer = buf
    <3> SUFFICES ASSUME k < 3, k = 1 \/ t.fuStarted PROVE r.fuStarted /\ r.fuBuffer = buf
      OBVIOUS
    <3>1. started /\ ~f.end
      BY <1>0
    <3>2. s.fuStarted = TRUE /\ s.fuBuffer = buf
      BY <1>5, <3>1
    <3> QED BY <2>1, <3>2
  <2>5. r \in Tracks /\ SetsKept(r, t) /\ TimesKept(r, t)
    BY <1>5, <2>1
  <2> QED BY <2>2, <2>3, <2>4, <2>5 DEF TookFragment, r, f, buf
<1> QED BY <1>8, <1>9

-----------------------------------------------------------------------------
(* A NAL unit, and all those of a packet.                                  *)

\* A packet's NAL units, one after the other.
LEMMA PayloadUnfolds ==
  ASSUME NEW t, NEW b, Len(b.nals) \in 0..3
  PROVE  LET H(u, n) == handleH264Payload(u, Timestamp(b), b.nals[n])
         IN  /\ Len(b.nals) = 0 => Payload(t, b) = t
             /\ Len(b.nals) = 1 => Payload(t, b) = H(t, 1)
             /\ Len(b.nals) = 2 => Payload(t, b) = H(H(t, 1), 2)
             /\ Len(b.nals) = 3 => Payload(t, b) = H(H(H(t, 1), 2), 3)
<1> DEFINE H(u, n) == handleH264Payload(u, Timestamp(b), b.nals[n])
           N == Len(b.nals)
           Solves(f) == f = [n \in 0..N |-> IF n = 0 THEN t ELSE H(f[n - 1], n)]
           h == CHOOSE f : Solves(f)
           t1 == H(t, 1)
           t2 == H(t1, 2)
           t3 == H(t2, 3)
           g == [n \in 0..N |-> IF n = 0 THEN t ELSE IF n = 1 THEN t1 ELSE IF n = 2 THEN t2 ELSE t3]
<1>1. Payload(t, b) = h[N]
  BY DEF Payload
<1> HIDE DEF H
<1>2. Solves(g)
  <2>1. \A n \in 0..N : g[n] = IF n = 0 THEN t ELSE H(g[n - 1], n)
    <3> TAKE n \in 0..N
    <3>1. n = 0 \/ n = 1 \/ n = 2 \/ n = 3
      <4>1. N \in 0..3 /\ n \in 0..N
        OBVIOUS
      <4> HIDE DEF N, g
      <4> QED BY <4>1
    <3>2. CASE n = 1
      BY <3>2
    <3>3. CASE n = 2
      BY <3>3
    <3>4. CASE n = 3
      BY <3>4
    <3> QED BY <3>1, <3>2, <3>3, <3>4
  <2>2. g = [n \in 0..N |-> IF n = 0 THEN t ELSE H(g[n - 1], n)]
    BY <2>1
  <2> QED BY <2>2
<1> HIDE DEF g
<1>3. Solves(h)
  BY <1>2
<1> HIDE DEF h
<1>4. /\ h[0] = t
      /\ N >= 1 => h[1] = H(h[0], 1)
      /\ N >= 2 => h[2] = H(h[1], 2)
      /\ N >= 3 => h[3] = H(h[2], 3)
  BY <1>3
<1> HIDE DEF Solves
<1>5. N = 0 \/ N = 1 \/ N = 2 \/ N = 3
  OBVIOUS
<1> HIDE DEF N
<1>6. /\ N = 0 => Payload(t, b) = t
      /\ N = 1 => Payload(t, b) = H(t, 1)
      /\ N = 2 => Payload(t, b) = H(H(t, 1), 2)
      /\ N = 3 => Payload(t, b) = H(H(H(t, 1), 2), 3)
  BY <1>1, <1>4, <1>5
<1> QED BY <1>6 DEF H, N

\* The codec is still that of the sets, or a change is noted, and it is not lost.
KeepsCodec(r, t) ==
  (Told(t) => Told(r)) /\ (t.codec # <<0, 0>> => r.codec # <<0, 0>>)

\* A NAL unit with a parameter set: the track has it, and its codec still is that
\* of its sets, unless a change is noted.
LEMMA SpsFacts ==
  ASSUME NEW t \in Tracks, NEW ts \in Int, NEW v \in Nat \ {0},
         sdp \in {<<0, 0>>} \union Versions, sdp # <<0, 0>> => t.sps # 0
  PROVE  LET r == handleH264Payload(t, ts, Sps(v))
         IN  /\ r \in Tracks /\ SlicesKept(r, t) /\ TimesKept(r, t)
             /\ r.sps = v /\ r.pps = t.pps /\ KeepsCodec(r, t)
<1> DEFINE k == KeepSps(t, v)
           m == makeCodecData(k, sdp)
           r == handleH264Payload(t, ts, Sps(v))
<1>1. r = IF t.sps = 0 THEN m ELSE k
  BY DEF handleH264Payload, Sps
<1>2. /\ k \in Tracks /\ SlicesKept(k, t) /\ TimesKept(k, t)
      /\ k.sps = v /\ k.pps = t.pps /\ k.codec = t.codec /\ k.ppsChanged = t.ppsChanged
      /\ k.spsChanged = (t.spsChanged \/ (t.sps # 0 /\ t.sps # v))
  BY KeepSpsFacts
<1> HIDE DEF k
<1>3. t.sps = 0 =>
        /\ m \in Tracks /\ SlicesKept(m, k) /\ TimesKept(m, k)
        /\ m.sps = v /\ m.pps = t.pps
        /\ m.codec = IF t.pps # 0 THEN <<v, t.pps>> ELSE t.codec
  BY <1>2, MakeCodecDataFacts
<1> HIDE DEF m, r
<1>4. CASE t.sps = 0
  <2>1. Told(t) => t.codec = <<0, 0>>
    BY <1>4 DEF Told
  <2>2. Told(t) => Told(r)
    <3>1. CASE t.pps # 0
      <4>1. r.codec[1] = v /\ r.codec[2] = t.pps /\ r.sps = v /\ r.pps = t.pps
        BY <1>1, <1>3, <1>4, <3>1
      <4> QED BY <3>1, <4>1 DEF Told
    <3>2. CASE t.pps = 0
      BY <1>1, <1>3, <1>4, <2>1, <3>2 DEF Told
    <3> QED BY <3>1, <3>2
  <2>3. t.codec # <<0, 0>> => r.codec # <<0, 0>>
    BY <1>1, <1>3, <1>4
  <2> QED BY <1>1, <1>2, <1>3, <1>4, <2>2, <2>3 DEF r, SlicesKept, TimesKept, KeepsCodec
<1>5. CASE t.sps # 0
  <2>1. Told(t) => Told(r)
    BY <1>1, <1>2, <1>5 DEF Told
  <2>2. t.codec # <<0, 0>> => r.codec # <<0, 0>>
    BY <1>1, <1>2, <1>5
  <2> QED BY <1>1, <1>2, <1>5, <2>1, <2>2 DEF r, KeepsCodec
<1> QED BY <1>4, <1>5

\* The same for a PPS.
LEMMA PpsFacts ==
  ASSUME NEW t \in Tracks, NEW ts \in Int, NEW v \in Nat \ {0},
         sdp \in {<<0, 0>>} \union Versions, sdp # <<0, 0>> => t.pps # 0
  PROVE  LET r == handleH264Payload(t, ts, Pps(v))
         IN  /\ r \in Tracks /\ SlicesKept(r, t) /\ TimesKept(r, t)
             /\ r.pps = v /\ r.sps = t.sps /\ KeepsCodec(r, t)
<1> DEFINE k == KeepPps(t, v)
           m == makeCodecData(k, sdp)
           r == handleH264Payload(t, ts, Pps(v))
<1>1. r = IF t.pps = 0 THEN m ELSE k
  BY DEF handleH264Payload, Pps
<1>2. /\ k \in Tracks /\ SlicesKept(k, t) /\ TimesKept(k, t)
      /\ k.pps = v /\ k.sps = t.sps /\ k.codec = t.codec /\ k.spsChanged = t.spsChanged
      /\ k.ppsChanged = (t.ppsChanged \/ (t.pps # 0 /\ t.pps # v))
  BY KeepPpsFacts
<1> HIDE DEF k
<1>3. t.pps = 0 =>
        /\ m \in Tracks /\ SlicesKept(m, k) /\ TimesKept(m, k)
        /\ m.pps = v /\ m.sps = t.sps
        /\ m.codec = IF t.sps # 0 THEN <<t.sps, v>> ELSE t.codec
  BY <1>2, MakeCodecDataFacts
<1> HIDE DEF m, r
<1>4. CASE t.pps = 0
  <2>1. Told(t) => t.codec = <<0, 0>>
    BY <1>4 DEF Told
  <2>2. Told(t) => Told(r)
    <3>1. CASE t.sps # 0
      <4>1. r.codec[1] = t.sps /\ r.codec[2] = v /\ r.pps = v /\ r.sps = t.sps
        BY <1>1, <1>3, <1>4, <3>1
      <4> QED BY <3>1, <4>1 DEF Told
    <3>2. CASE t.sps = 0
      BY <1>1, <1>3, <1>4, <2>1, <3>2 DEF Told
    <3> QED BY <3>1, <3>2
  <2>3. t.codec # <<0, 0>> => r.codec # <<0, 0>>
    BY <1>1, <1>3, <1>4
  <2> QED BY <1>1, <1>2, <1>3, <1>4, <2>2, <2>3 DEF r, SlicesKept, TimesKept, KeepsCodec
<1>5. CASE t.pps # 0
  <2>1. Told(t) => Told(r)
    BY <1>1, <1>2, <1>5 DEF Told
  <2>2. t.codec # <<0, 0>> => r.codec # <<0, 0>>
    BY <1>1, <1>2, <1>5
  <2> QED BY <1>1, <1>2, <1>5, <2>1, <2>2 DEF r, KeepsCodec
<1> QED BY <1>4, <1>5

\* A slice in a NAL unit of its own.
LEMMA SliceFacts ==
  ASSUME NEW t \in Tracks, NEW ts \in Int, NEW n \in Nat, NEW key \in BOOLEAN
  PROVE  TookSlice(handleH264Payload(t, ts, Slice(n, key)), t, ts, <<Part(n, 1, 1, key)>>)
<1> DEFINE p == Part(n, 1, 1, key)
           d == <<p>>
<1>1. p \in Parts
  BY DEF Part, Parts
<1>2. handleH264Payload(t, ts, Slice(n, key)) = TakeSlice(t, ts, d)
  BY DEF handleH264Payload, Slice
<1> HIDE DEF p
<1>3. d \in Seq(Parts) /\ d # <<>>
  BY <1>1
<1> HIDE DEF d
<1>4. TookSlice(TakeSlice(t, ts, d), t, ts, d)
  BY <1>3, TakeSliceFacts
<1> QED BY <1>2, <1>4 DEF d, p

\* What the blocks of an access unit with sets s that begins with slice n carry.
Shape(b, s, n, key) ==
  \/ b.nals = <<>>
  \/ b.nals = <<Slice(n, key)>>
  \/ \E k \in 1..3 : b.nals = <<Fragment(n, k, 3, key)>>
  \/ b.nals = <<Sps(s[1])>>
  \/ b.nals = <<Pps(s[2])>>
  \/ b.nals = <<Sps(s[1]), Pps(s[2]), Slice(n, key)>>
  \/ b.nals = <<Slice(n, key), Slice(n + 1, key)>>
  \/ b.nals = <<[type |-> "FU-B"]>>

Has(b, type) == \E x \in Range(b.nals) : x.type = type

\* What a block makes of a track that has no packet.
Taken(p, t, b, n, key) ==
  /\ p \in Tracks /\ TimesKept(p, t)
  /\ KeepsCodec(p, t)
  /\ p.sps = IF Has(b, "sps") THEN sets[1] ELSE t.sps
  /\ p.pps = IF Has(b, "pps") THEN sets[2] ELSE t.pps
  /\ ~HasSets(b) => SetsKept(p, t)
  /\ ~p.gotpkt => p.pkt = t.pkt
  /\ p.gotpkt =>
       /\ p.timestamp = Timestamp(b)
       /\ p.pkt.key = p.pkt.data[1].key
       /\ \/ p.pkt.data = <<Part(n, 1, 1, key)>>
          \/ p.pkt.data = <<Part(n + 1, 1, 1, key)>>
          \/ /\ b.nals = <<Fragment(n, 3, 3, key)>> /\ t.fuStarted
             /\ p.pkt.data = t.fuBuffer \o <<Part(n, 3, 3, key)>>
  /\ \A k \in 1..2 : b.nals = <<Fragment(n, k, 3, key)>> /\ (k = 1 \/ t.fuStarted) =>
       /\ p.fuStarted
       /\ p.fuBuffer = (IF k = 1 THEN <<>> ELSE t.fuBuffer) \o <<Part(n, k, 3, key)>>

\* The type of a block's only NAL unit is its type.
LEMMA HasOne ==
  ASSUME NEW b, NEW x, b.nals = <<x>>
  PROVE  /\ \A type : Has(b, type) <=> x.type = type
         /\ HasSets(b) <=> x.type \in {"sps", "pps"}
         /\ Len(b.nals) = 1 /\ b.nals[1] = x
<1>1. Range(<<x>>) = {x}
  BY DEF Range
<1> QED BY <1>1 DEF Has, HasSets

\* handleH264Payload over all the NAL units of a block, however it is packed.
LEMMA PayloadFacts ==
  ASSUME TypeOK, NEW t \in Tracks, sdp # <<0, 0>> => t.sps # 0 /\ t.pps # 0,
         ~t.gotpkt, ~t.pkt.key,
         NEW b, Timestamp(b) \in Int, NEW n \in Nat, NEW key \in BOOLEAN, Shape(b, sets, n, key)
  PROVE  Taken(Payload(t, b), t, b, n, key)
<1> DEFINE p == Payload(t, b)
           ts == Timestamp(b)
           H(u, x) == handleH264Payload(u, ts, x)
<1>0. /\ sdp \in {<<0, 0>>} \union Versions
      /\ sets[1] \in Nat \ {0} /\ sets[2] \in Nat \ {0} /\ ts \in Int
  BY DEF TypeOK, Versions
<1> HIDE DEF ts
<1>1. ASSUME NEW x, b.nals = <<x>>
      PROVE  /\ p = H(t, x)
             /\ HasSets(b) <=> x.type \in {"sps", "pps"}
             /\ \A type : Has(b, type) <=> x.type = type
  <2>1. Len(b.nals) = 1 /\ b.nals[1] = x
    BY <1>1, HasOne
  <2>2. p = handleH264Payload(t, ts, b.nals[1])
    BY <2>1, PayloadUnfolds DEF ts
  <2> HIDE DEF p
  <2> QED BY <1>1, <2>1, <2>2, HasOne
<1>2. CASE b.nals = <<>>
  <2>1. p = t /\ Len(b.nals) = 0
    BY <1>2, PayloadUnfolds
  <2>2. ~Has(b, "sps") /\ ~Has(b, "pps") /\ ~HasSets(b)
    BY <1>2 DEF Has, HasSets, Range
  <2>3. \A k \in 1..2 : b.nals # <<Fragment(n, k, 3, key)>>
    BY <1>2
  <2> HIDE DEF p
  <2> QED BY <2>1, <2>2, <2>3 DEF Taken, SetsKept, TimesKept, KeepsCodec, p
<1>3. CASE b.nals = <<Slice(n, key)>>
  <2> DEFINE x == Slice(n, key)
             r == handleH264Payload(t, ts, x)
             part == Part(n, 1, 1, key)
             d == <<part>>
  <2>1. x.type = "slice" /\ \A k \in 1..3 : x # Fragment(n, k, 3, key)
    BY DEF Slice, Fragment
  <2>2. p = r /\ ~Has(b, "sps") /\ ~Has(b, "pps")
    BY <1>1, <1>3, <2>1
  <2>3. TookSlice(r, t, ts, d)
    BY <1>0, SliceFacts
  <2>4. \A k \in 1..3 : b.nals # <<Fragment(n, k, 3, key)>>
    BY <1>3, <2>1
  <2> HIDE DEF p, r, x, part
  <2>5. p.gotpkt /\ p.timestamp = ts /\ p.pkt.data = d /\ p.pkt.key = p.pkt.data[1].key
    <3>1. part.key \in BOOLEAN /\ d[1] = part
      BY DEF part, Part
    <3> HIDE DEF d
    <3>2. p.gotpkt /\ p.timestamp = ts /\ p.pkt.data = d /\ p.pkt.key = (t.pkt.key \/ d[1].key)
      BY <2>2, <2>3 DEF TookSlice
    <3> QED BY <3>1, <3>2
  <2>6. p \in Tracks /\ SetsKept(p, t) /\ TimesKept(p, t)
    BY <2>2, <2>3 DEF TookSlice
  <2>7. KeepsCodec(p, t)
    BY <2>6 DEF Told, SetsKept, KeepsCodec
  <2> QED BY <2>2, <2>4, <2>5, <2>6, <2>7 DEF Taken, SetsKept, p, ts, part
<1>4. CASE \E k \in 1..3 : b.nals = <<Fragment(n, k, 3, key)>>
  <2> PICK k \in 1..3 : b.nals = <<Fragment(n, k, 3, key)>>
    BY <1>4
  <2> DEFINE x == Fragment(n, k, 3, key)
             r == TakeFragment(t, ts, x)
             buf == Joined(t, n, k, key)
  <2>1. x.type = "FU-A" /\ \A l \in 1..3 : Fragment(n, l, 3, key) = x => l = k
    BY DEF Fragment, Part
  <2>2. p = r /\ ~Has(b, "sps") /\ ~Has(b, "pps")
    BY <1>1, <2>1 DEF handleH264Payload
  <2>3. TookFragment(r, t, ts, n, k, key)
    BY <1>0, TakeFragmentFacts
  <2>4. \A l \in 1..3 : b.nals = <<Fragment(n, l, 3, key)>> => l = k
    BY <2>1
  <2>5. k = 3 => buf = t.fuBuffer \o <<Part(n, 3, 3, key)>>
    BY DEF Joined
  <2> HIDE DEF p, r, x
  <2>6. p \in Tracks /\ SetsKept(p, t) /\ TimesKept(p, t)
    BY <2>2, <2>3 DEF TookFragment
  <2>7. KeepsCodec(p, t)
    BY <2>6 DEF Told, SetsKept, KeepsCodec
  <2>8. k < 3 \/ ~t.fuStarted => ~p.gotpkt /\ p.pkt = t.pkt
    BY <2>2, <2>3 DEF TookFragment
  <2>9. k = 3 /\ t.fuStarted => /\ p.gotpkt /\ p.timestamp = ts /\ p.pkt.data = buf
                               /\ p.pkt.key = p.pkt.data[1].key
    <3> SUFFICES ASSUME k = 3, t.fuStarted
                 PROVE  /\ p.gotpkt /\ p.timestamp = ts /\ p.pkt.data = buf
                        /\ p.pkt.key = p.pkt.data[1].key
      OBVIOUS
    <3>1. buf[1].key \in BOOLEAN
      <4> DEFINE part == Part(n, 3, 3, key)
      <4>1. part \in Parts /\ t.fuBuffer \in Seq(Parts) /\ buf = t.fuBuffer \o <<part>>
        BY <2>5 DEF Tracks, Part, Parts
      <4> HIDE DEF buf, part
      <4>2. buf[1] \in Parts
        BY <4>1
      <4> QED BY <4>2 DEF Parts
    <3> HIDE DEF buf
    <3>2. /\ p.gotpkt /\ p.timestamp = ts /\ p.pkt.data = buf
          /\ p.pkt.key = (t.pkt.key \/ buf[1].key)
      BY <2>2, <2>3 DEF TookFragment, buf
    <3> QED BY <3>1, <3>2
  <2>10. \A l \in 1..2 : b.nals = <<Fragment(n, l, 3, key)>> /\ (l = 1 \/ t.fuStarted) =>
           /\ p.fuStarted
           /\ p.fuBuffer = (IF l = 1 THEN <<>> ELSE t.fuBuffer) \o <<Part(n, l, 3, key)>>
    <3> SUFFICES ASSUME NEW l \in 1..2, b.nals = <<Fragment(n, l, 3, key)>>, l = 1 \/ t.fuStarted
                 PROVE  p.fuStarted /\ p.fuBuffer = Joined(t, n, l, key)
      BY DEF Joined
    <3>1. k = l
      BY <2>4
    <3> QED BY <2>2, <2>3, <3>1 DEF TookFragment
  <2>11. p.gotpkt => k = 3 /\ t.fuStarted
    BY <2>8
  <2>12. ~p.gotpkt => p.pkt = t.pkt
    BY <2>8, <2>9
  <2> HIDE DEF buf
  <2>13. p.gotpkt =>
           /\ p.timestamp = ts
           /\ p.pkt.key = p.pkt.data[1].key
           /\ b.nals = <<Fragment(n, 3, 3, key)>> /\ t.fuStarted
           /\ p.pkt.data = t.fuBuffer \o <<Part(n, 3, 3, key)>>
    BY <2>5, <2>9, <2>11
  <2>14. p.sps = t.sps /\ p.pps = t.pps
    BY <2>6 DEF SetsKept
  <2> QED BY <2>2, <2>6, <2>7, <2>10, <2>12, <2>13, <2>14, Zenon DEF Taken, p, ts
<1>5. CASE b.nals = <<Sps(sets[1])>>
  <2> DEFINE x == Sps(sets[1])
             r == handleH264Payload(t, ts, x)
  <2>1. x.type = "sps" /\ \A k \in 1..3 : x # Fragment(n, k, 3, key)
    BY DEF Sps, Fragment
  <2>2. p = r /\ Has(b, "sps") /\ ~Has(b, "pps") /\ HasSets(b)
    BY <1>1, <1>5, <2>1
  <2>3. /\ r \in Tracks /\ SlicesKept(r, t) /\ TimesKept(r, t)
        /\ r.sps = sets[1] /\ r.pps = t.pps /\ KeepsCodec(r, t)
    BY <1>0, SpsFacts
  <2>4. \A k \in 1..3 : b.nals # <<Fragment(n, k, 3, key)>>
    BY <1>5, <2>1
  <2> HIDE DEF p, r, x
  <2> QED BY <2>2, <2>3, <2>4 DEF Taken, SlicesKept, p
<1>6. CASE b.nals = <<Pps(sets[2])>>
  <2> DEFINE x == Pps(sets[2])
             r == handleH264Payload(t, ts, x)
  <2>1. x.type = "pps" /\ \A k \in 1..3 : x # Fragment(n, k, 3, key)
    BY DEF Pps, Fragment
  <2>2. p = r /\ ~Has(b, "sps") /\ Has(b, "pps") /\ HasSets(b)
    BY <1>1, <1>6, <2>1
  <2>3. /\ r \in Tracks /\ SlicesKept(r, t) /\ TimesKept(r, t)
        /\ r.pps = sets[2] /\ r.sps = t.sps /\ KeepsCodec(r, t)
    BY <1>0, PpsFacts
  <2>4. \A k \in 1..3 : b.nals # <<Fragment(n, k, 3, key)>>
    BY <1>6, <2>1
  <2> HIDE DEF p, r, x
  <2> QED BY <2>2, <2>3, <2>4 DEF Taken, SlicesKept, p
<1>7. CASE b.nals = <<Sps(sets[1]), Pps(sets[2]), Slice(n, key)>>
  <2> DEFINE x == Sps(sets[1])
             y == Pps(sets[2])
             z == Slice(n, key)
             r1 == handleH264Payload(t, ts, x)
             r2 == handleH264Payload(r1, ts, y)
             r3 == handleH264Payload(r2, ts, z)
             part == Part(n, 1, 1, key)
             d == <<part>>
  <2>1. x.type = "sps" /\ y.type = "pps"
    BY DEF Sps, Pps
  <2>2. p = r3 /\ Has(b, "sps") /\ Has(b, "pps") /\ HasSets(b)
    <3> HIDE DEF x, y, z
    <3>1. b.nals = <<x, y, z>>
      BY <1>7 DEF x, y, z
    <3>2. Len(b.nals) = 3 /\ b.nals[1] = x /\ b.nals[2] = y /\ b.nals[3] = z
      BY <3>1
    <3>3. x \in Range(b.nals) /\ y \in Range(b.nals)
      BY <3>2, <3>1 DEF Range
    <3>4. p = r3
      BY <3>2, PayloadUnfolds DEF ts
    <3> HIDE DEF p, r3
    <3> QED BY <2>1, <3>3, <3>4 DEF Has, HasSets
  <2>3. /\ r1 \in Tracks /\ SlicesKept(r1, t) /\ TimesKept(r1, t)
        /\ r1.sps = sets[1] /\ r1.pps = t.pps /\ KeepsCodec(r1, t)
    BY <1>0, SpsFacts
  <2> HIDE DEF r1
  <2>4. /\ r2 \in Tracks /\ SlicesKept(r2, r1) /\ TimesKept(r2, r1)
        /\ r2.pps = sets[2] /\ r2.sps = r1.sps /\ KeepsCodec(r2, r1)
    BY <1>0, <2>3, PpsFacts
  <2> HIDE DEF r2
  <2>5. TookSlice(r3, r2, ts, d)
    BY <1>0, <2>4, SliceFacts
  <2>6. Len(b.nals) = 3
    BY <1>7
  <2>7. \A k \in 1..3 : b.nals # <<Fragment(n, k, 3, key)>>
    <3> TAKE k \in 1..3
    <3>1. Len(<<Fragment(n, k, 3, key)>>) = 1
      OBVIOUS
    <3> QED BY <2>6, <3>1
  <2> HIDE DEF p, r3, x, y, z, part
  <2>8. r2.pkt = t.pkt
    BY <2>3, <2>4 DEF SlicesKept
  <2>9. p.gotpkt /\ p.timestamp = ts /\ p.pkt.data = d /\ p.pkt.key = p.pkt.data[1].key
    <3>1. part.key \in BOOLEAN /\ d[1] = part
      BY DEF part, Part
    <3> HIDE DEF d
    <3>2. p.gotpkt /\ p.timestamp = ts /\ p.pkt.data = d /\ p.pkt.key = (r2.pkt.key \/ d[1].key)
      BY <2>2, <2>5 DEF TookSlice
    <3> QED BY <2>8, <3>1, <3>2
  <2>10. p \in Tracks /\ TimesKept(p, t) /\ SetsKept(p, r2)
    BY <2>2, <2>3, <2>4, <2>5 DEF TookSlice, TimesKept
  <2>11. KeepsCodec(p, t) /\ p.sps = sets[1] /\ p.pps = sets[2]
    BY <2>3, <2>4, <2>10 DEF Told, SetsKept, KeepsCodec
  <2> QED BY <2>2, <2>7, <2>9, <2>10, <2>11 DEF Taken, p, ts, part
<1>8. CASE b.nals = <<Slice(n, key), Slice(n + 1, key)>>
  <2> DEFINE x == Slice(n, key)
             y == Slice(n + 1, key)
             r1 == handleH264Payload(t, ts, x)
             r2 == handleH264Payload(r1, ts, y)
             part1 == Part(n, 1, 1, key)
             part2 == Part(n + 1, 1, 1, key)
             d1 == <<part1>>
             d2 == <<part2>>
  <2>1. x.type = "slice" /\ y.type = "slice" /\ part1.key = key /\ part2.key = key
    BY DEF Slice, Part
  <2>2. p = r2 /\ ~Has(b, "sps") /\ ~Has(b, "pps")
    <3> HIDE DEF x, y
    <3>1. b.nals = <<x, y>>
      BY <1>8 DEF x, y
    <3>2. Len(b.nals) = 2 /\ b.nals[1] = x /\ b.nals[2] = y
      BY <3>1
    <3>3. \A u \in Range(b.nals) : u = x \/ u = y
      BY <3>1 DEF Range
    <3>4. p = r2
      BY <3>2, PayloadUnfolds DEF ts
    <3> HIDE DEF p, r2
    <3> QED BY <2>1, <3>3, <3>4 DEF Has
  <2>3. TookSlice(r1, t, ts, d1)
    BY <1>0, SliceFacts
  <2>4. r1 \in Tracks /\ SetsKept(r1, t) /\ TimesKept(r1, t)
    BY <2>3 DEF TookSlice
  <2> HIDE DEF r1
  <2>5. TookSlice(r2, r1, ts, d2)
    BY <1>0, <2>4, SliceFacts
  <2>6. Len(b.nals) = 2
    BY <1>8
  <2>7. \A k \in 1..3 : b.nals # <<Fragment(n, k, 3, key)>>
    <3> TAKE k \in 1..3
    <3>1. Len(<<Fragment(n, k, 3, key)>>) = 1
      OBVIOUS
    <3> QED BY <2>6, <3>1
  <2> HIDE DEF p, r2, x, y, part1, part2
  <2>8. p.gotpkt /\ p.timestamp = ts /\ p.pkt.data = d2 /\ p.pkt.key = p.pkt.data[1].key
    BY <2>1, <2>2, <2>3, <2>5 DEF TookSlice
  <2>9. p \in Tracks /\ TimesKept(p, t) /\ SetsKept(p, t)
    BY <2>2, <2>4, <2>5 DEF TookSlice, TimesKept, SetsKept
  <2>10. KeepsCodec(p, t)
    BY <2>9 DEF Told, SetsKept, KeepsCodec
  <2> QED BY <2>2, <2>7, <2>8, <2>9, <2>10 DEF Taken, SetsKept, p, ts, part2
<1>9. CASE b.nals = <<[type |-> "FU-B"]>>
  <2> DEFINE x == [type |-> "FU-B"]
  <2>1. x.type = "FU-B" /\ \A k \in 1..3 : x # Fragment(n, k, 3, key)
    BY DEF Fragment
  <2>2. p = t /\ ~Has(b, "sps") /\ ~Has(b, "pps")
    BY <1>1, <1>9, <2>1 DEF handleH264Payload
  <2>3. \A k \in 1..3 : b.nals # <<Fragment(n, k, 3, key)>>
    BY <1>9, <2>1
  <2> HIDE DEF p, x
  <2> QED BY <2>2, <2>3 DEF Taken, SetsKept, TimesKept, KeepsCodec, p
<1> QED BY <1>2, <1>3, <1>4, <1>5, <1>6, <1>7, <1>8, <1>9 DEF Shape

-----------------------------------------------------------------------------
(* An access unit, and what is left of it.                                 *)

\* A fragment that goes on, in block c, goes on from block b.
Continues(c) == \E x \in Range(c.nals) : x.type = "FU-A" /\ ~x.start
GoesOnFrom(c, b, n, key) ==
  Continues(c) => \E k \in 2..3 : /\ c.nals = <<Fragment(n, k, 3, key)>>
                                  /\ b.nals = <<Fragment(n, k - 1, 3, key)>>

\* A block of such a unit, and the order of such blocks.
Carries(b, e, s, n, key) == b.at = e /\ b.sets = s /\ Shape(b, s, n, key)
Ordered(unit, e, s, n, key) ==
  /\ \A m \in 1..Len(unit) : Carries(unit[m], e, s, n, key)
  /\ \A m \in 2..Len(unit) : GoesOnFrom(unit[m], unit[m - 1], n, key)
  /\ \A m \in 2..Len(unit) : HasSets(unit[m]) => HasSets(unit[m - 1])

\* A fragment begins a slice or goes on with one, and is not a parameter set.
LEMMA FragmentContinues ==
  ASSUME NEW c, NEW n, NEW key, NEW k \in 1..3, c.nals = <<Fragment(n, k, 3, key)>>
  PROVE  (Continues(c) <=> k # 1) /\ (StartsSlice(c) <=> k = 1) /\ ~HasSets(c)
<1>1. Range(c.nals) = {Fragment(n, k, 3, key)}
  BY DEF Range
<1>2. Fragment(n, k, 3, key).type = "FU-A" /\ (Fragment(n, k, 3, key).start <=> k = 1)
  BY DEF Fragment
<1> QED BY <1>1, <1>2, Zenon DEF Continues, StartsSlice, HasSets

\* A block with one NAL unit, or none.
LEMMA OneContinues ==
  ASSUME NEW c, NEW x, c.nals = <<x>> \/ c.nals = <<>>, x.type # "FU-A"
  PROVE  ~Continues(c) /\ ~StartsSlice(c)
<1>1. Range(c.nals) \subseteq {x}
  BY DEF Range
<1> QED BY <1>1, Zenon DEF Continues, StartsSlice

\* What the proofs need to know of an access unit.
IsUnit(unit, e, s, n) ==
  /\ Len(unit) \in 1..3 /\ unit \in Seq(Range(unit))
  /\ ~Continues(unit[1])
  /\ \E key \in BOOLEAN : Ordered(unit, e, s, n, key)

\* A unit of one block.
LEMMA OneBlock ==
  ASSUME NEW a, NEW e, NEW s, NEW n, NEW key \in BOOLEAN, Carries(a, e, s, n, key), ~Continues(a)
  PROVE  IsUnit(<<a>>, e, s, n)
<1> DEFINE u == <<a>>
<1>1. Len(u) = 1 /\ u[1] = a /\ u \in Seq(Range(u))
  BY DEF Range
<1> HIDE DEF u
<1>2. Ordered(u, e, s, n, key)
  BY <1>1 DEF Ordered
<1> QED BY <1>1, <1>2 DEF IsUnit, u

\* A unit of two blocks.
LEMMA TwoBlocks ==
  ASSUME NEW a, NEW b, NEW e, NEW s, NEW n, NEW key \in BOOLEAN,
         Carries(a, e, s, n, key), Carries(b, e, s, n, key),
         ~Continues(a), ~Continues(b), ~HasSets(b)
  PROVE  IsUnit(<<a, b>>, e, s, n)
<1> DEFINE u == <<a, b>>
<1>1. Len(u) = 2 /\ u[1] = a /\ u[2] = b /\ u \in Seq(Range(u))
  BY DEF Range
<1> HIDE DEF u
<1>2. Ordered(u, e, s, n, key)
  <2>1. \A m \in 1..Len(u) : m = 1 \/ m = 2
    BY <1>1
  <2>2. \A m \in 2..Len(u) : m = 2
    BY <1>1
  <2> QED BY <1>1, <2>1, <2>2 DEF Ordered, GoesOnFrom
<1> QED BY <1>1, <1>2 DEF IsUnit, u

\* A unit of three.
LEMMA ThreeBlocks ==
  ASSUME NEW a, NEW b, NEW c, NEW e, NEW s, NEW n, NEW key \in BOOLEAN,
         Carries(a, e, s, n, key), Carries(b, e, s, n, key), Carries(c, e, s, n, key),
         ~Continues(a), GoesOnFrom(b, a, n, key), GoesOnFrom(c, b, n, key),
         HasSets(b) => HasSets(a), HasSets(c) => HasSets(b)
  PROVE  IsUnit(<<a, b, c>>, e, s, n)
<1> DEFINE u == <<a, b, c>>
<1>1. Len(u) = 3 /\ u[1] = a /\ u[2] = b /\ u[3] = c /\ u \in Seq(Range(u))
  BY DEF Range
<1> HIDE DEF u
<1>2. Ordered(u, e, s, n, key)
  <2>1. \A m \in 1..Len(u) : m = 1 \/ m = 2 \/ m = 3
    BY <1>1
  <2>2. \A m \in 2..Len(u) : m = 2 \/ m = 3
    BY <1>1
  <2> QED BY <1>1, <2>1, <2>2 DEF Ordered
<1> QED BY <1>1, <1>2 DEF IsUnit, u

\* Every form of AccessUnit is a unit whose fragments follow each other and
\* whose sets come before its slices.
LEMMA UnitFacts ==
  ASSUME NEW form \in Forms, NEW n \in Nat, NEW e, NEW s
  PROVE  IsUnit(AccessUnit(form, n, e, s), e, s, n)
<1> DEFINE unit == AccessUnit(form, n, e, s)
           key == n = 1 \/ form \in {"sets", "aggregate"}
           slice == Block("rtp", <<Slice(n, key)>>, e, s)
<1>0. key \in BOOLEAN
  OBVIOUS
<1>1. form \in {"single", "fragments", "sets", "aggregate", "slices",
                "otherPayload", "rtcp", "unsupported"}
  BY FormsAssumption
<1>2. Carries(slice, e, s, n, key) /\ ~Continues(slice) /\ ~HasSets(slice)
  <2>1. slice.nals = <<Slice(n, key)>> /\ slice.at = e /\ slice.sets = s
    BY DEF Block
  <2>2. Slice(n, key).type = "slice"
    BY DEF Slice
  <2> HIDE DEF slice, key
  <2> QED BY <2>1, <2>2, OneContinues, HasOne DEF Carries, Shape
<1>3. ASSUME NEW kind
      PROVE  LET a == Block(kind, <<>>, e, s)
             IN  Carries(a, e, s, n, key) /\ ~Continues(a)
  BY DEF Block, Carries, Shape, Continues, Range
<1> HIDE DEF slice
<1>4. CASE form = "single"
  <2>1. unit = <<slice>>
    BY <1>4 DEF AccessUnit, slice
  <2> QED BY <1>0, <1>2, <2>1, OneBlock
<1>5. CASE form = "fragments"
  <2> DEFINE F(k) == Block("rtp", <<Fragment(n, k, 3, key)>>, e, s)
  <2>1. unit = [k \in 1..3 |-> F(k)]
    BY <1>5 DEF AccessUnit
  <2>2. \A k \in 1..3 : F(k).nals = <<Fragment(n, k, 3, key)>> /\ F(k).at = e /\ F(k).sets = s
    BY DEF Block
  <2> HIDE DEF F, unit, key
  <2>3. \A k \in 1..3 : Carries(F(k), e, s, n, key)
    BY <2>2 DEF Carries, Shape
  <2>4. \A k \in 1..3 : (Continues(F(k)) <=> k # 1) /\ ~HasSets(F(k))
    BY <2>2, FragmentContinues
  <2>5. GoesOnFrom(F(2), F(1), n, key) /\ GoesOnFrom(F(3), F(2), n, key)
    <3>1. 2 - 1 = 1 /\ 3 - 1 = 2 /\ 2 \in 2..3 /\ 3 \in 2..3
      OBVIOUS
    <3> QED BY <2>2, <3>1 DEF GoesOnFrom
  <2>6. unit = <<F(1), F(2), F(3)>>
    BY <2>1
  <2>7. IsUnit(<<F(1), F(2), F(3)>>, e, s, n)
    <3>1. ~Continues(F(1)) /\ ~HasSets(F(2)) /\ ~HasSets(F(3))
      BY <2>4
    <3>2. /\ Carries(F(1), e, s, n, key) /\ Carries(F(2), e, s, n, key)
          /\ Carries(F(3), e, s, n, key)
      BY <2>3
    <3>3. key \in BOOLEAN
      BY <1>0 DEF key
    <3> QED BY <2>5, <3>1, <3>2, <3>3, ThreeBlocks
  <2> QED BY <2>6, <2>7 DEF unit
<1>6. CASE form = "sets"
  <2> DEFINE a == Block("rtp", <<Sps(s[1])>>, e, s)
             b == Block("rtp", <<Pps(s[2])>>, e, s)
  <2>1. unit = <<a, b, slice>>
    BY <1>6 DEF AccessUnit, slice
  <2>2. /\ a.nals = <<Sps(s[1])>> /\ a.at = e /\ a.sets = s
        /\ b.nals = <<Pps(s[2])>> /\ b.at = e /\ b.sets = s
    BY DEF Block
  <2>3. Sps(s[1]).type = "sps" /\ Pps(s[2]).type = "pps"
    BY DEF Sps, Pps
  <2> HIDE DEF a, b, key
  <2>4. Carries(a, e, s, n, key) /\ Carries(b, e, s, n, key)
    BY <2>2 DEF Carries, Shape
  <2>5. ~Continues(a) /\ HasSets(a) /\ ~Continues(b) /\ HasSets(b)
    <3>1. "sps" # "FU-A" /\ "pps" # "FU-A"
      OBVIOUS
    <3> QED BY <2>2, <2>3, <3>1, OneContinues, HasOne
  <2>6. GoesOnFrom(b, a, n, key) /\ GoesOnFrom(slice, b, n, key)
    BY <1>2, <2>5 DEF GoesOnFrom
  <2>7. IsUnit(<<a, b, slice>>, e, s, n)
    BY <1>0, <1>2, <2>4, <2>5, <2>6, ThreeBlocks DEF key
  <2> QED BY <2>1, <2>7
<1>7. CASE form = "aggregate"
  <2> DEFINE x == Sps(s[1])
             y == Pps(s[2])
             z == Slice(n, key)
             a == Block("rtp", <<x, y, z>>, e, s)
  <2>1. unit = <<a>>
    BY <1>7 DEF AccessUnit
  <2>2. a.nals = <<x, y, z>> /\ a.at = e /\ a.sets = s
    BY DEF Block
  <2>3. x.type = "sps" /\ y.type = "pps" /\ z.type = "slice"
    BY DEF Sps, Pps, Slice
  <2> HIDE DEF a, key
  <2>4. Carries(a, e, s, n, key)
    BY <2>2 DEF Carries, Shape
  <2> HIDE DEF x, y, z
  <2>5. Range(a.nals) = {x, y, z}
    BY <2>2 DEF Range
  <2>6. ~Continues(a)
    BY <2>3, <2>5 DEF Continues
  <2>7. IsUnit(<<a>>, e, s, n)
    BY <1>0, <2>4, <2>6, OneBlock DEF key
  <2> QED BY <2>1, <2>7
<1>8. CASE form = "slices"
  <2> DEFINE x == Slice(n, key)
             y == Slice(n + 1, key)
             a == Block("rtp", <<x, y>>, e, s)
  <2>1. unit = <<a>>
    BY <1>8 DEF AccessUnit
  <2>2. a.nals = <<x, y>> /\ a.at = e /\ a.sets = s
    BY DEF Block
  <2>3. x.type = "slice" /\ y.type = "slice"
    BY DEF Slice
  <2> HIDE DEF a, key
  <2>4. Carries(a, e, s, n, key)
    BY <2>2 DEF Carries, Shape
  <2> HIDE DEF x, y
  <2>5. Range(a.nals) = {x, y}
    BY <2>2 DEF Range
  <2>6. ~Continues(a)
    BY <2>3, <2>5 DEF Continues
  <2>7. IsUnit(<<a>>, e, s, n)
    BY <1>0, <2>4, <2>6, OneBlock DEF key
  <2> QED BY <2>1, <2>7
<1>9. CASE form \in {"otherPayload", "rtcp"}
  <2> DEFINE a == Block(form, <<>>, e, s)
  <2>1. unit = <<a, slice>>
    BY <1>9 DEF AccessUnit, slice
  <2>2. Carries(a, e, s, n, key) /\ ~Continues(a)
    BY <1>3
  <2> HIDE DEF a, key
  <2>3. IsUnit(<<a, slice>>, e, s, n)
    BY <1>0, <1>2, <2>2, TwoBlocks DEF key
  <2> QED BY <2>1, <2>3
<1>10. CASE form = "unsupported"
  <2> DEFINE x == [type |-> "FU-B"]
             a == Block("rtp", <<x>>, e, s)
  <2>1. unit = <<a>>
    BY <1>10 DEF AccessUnit
  <2>2. a.nals = <<x>> /\ a.at = e /\ a.sets = s /\ x.type = "FU-B"
    BY DEF Block
  <2> HIDE DEF a, key
  <2>3. Carries(a, e, s, n, key)
    BY <2>2 DEF Carries, Shape
  <2>4. ~Continues(a)
    <3> HIDE DEF x
    <3> QED BY <2>2, OneContinues
  <2>5. IsUnit(<<a>>, e, s, n)
    BY <1>0, <2>3, <2>4, OneBlock DEF key
  <2> QED BY <2>1, <2>5
<1> QED BY <1>1, <1>4, <1>5, <1>6, <1>7, <1>8, <1>9, <1>10

\* The rest of a sequence, one element shorter.
LEMMA SuffixFacts ==
  ASSUME NEW S, NEW u \in Seq(S), NEW m \in 1..Len(u)
  PROVE  LET f == SubSeq(u, m, Len(u))
         IN  /\ f # <<>> /\ Head(f) = u[m]
             /\ Range(f) = {u[i] : i \in m..Len(u)}
             /\ m = Len(u) => Tail(f) = <<>>
             /\ m < Len(u) => Tail(f) = SubSeq(u, m + 1, Len(u))
<1> DEFINE f == SubSeq(u, m, Len(u))
           L == Len(u) - m + 1
<1>1. L \in Nat \ {0} /\ Len(u) \in Nat
  OBVIOUS
<1>2. f \in Seq(S) /\ Len(f) = L /\ \A i \in 1..L : f[i] = u[m + i - 1]
  OBVIOUS
<1>3. DOMAIN f = 1..L
  BY <1>2
<1> HIDE DEF f
<1>4. Range(f) = {u[i] : i \in m..Len(u)}
  <2>1. \A i \in 1..L : m + i - 1 \in m..Len(u)
    BY <1>1
  <2>2. \A j \in m..Len(u) : j - m + 1 \in 1..L /\ f[j - m + 1] = u[j]
    <3> TAKE j \in m..Len(u)
    <3>1. j - m + 1 \in 1..L /\ m + (j - m + 1) - 1 = j
      BY <1>1
    <3> QED BY <1>2, <3>1
  <2> HIDE DEF L
  <2>3. Range(f) = {f[i] : i \in 1..L}
    BY <1>3 DEF Range
  <2>4. \A x \in Range(f) : x \in {u[i] : i \in m..Len(u)}
    BY <1>2, <2>1, <2>3
  <2>5. \A j \in m..Len(u) : u[j] \in Range(f)
    BY <2>2, <2>3
  <2> QED BY <2>4, <2>5
<1>5. f # <<>> /\ Head(f) = u[m]
  <2>1. f[1] = u[m]
    BY <1>1, <1>2
  <2> QED BY <1>1, <1>2, <2>1
<1>6. m = Len(u) => Tail(f) = <<>>
  <2> SUFFICES ASSUME m = Len(u) PROVE Tail(f) = <<>>
    OBVIOUS
  <2>1. Len(f) = 1
    BY <1>1, <1>2
  <2>2. Tail(f) \in Seq(S) /\ Len(Tail(f)) = 0
    BY <1>2, <1>5, <2>1
  <2> HIDE DEF L
  <2>3. \A h \in Seq(S) : Len(h) = 0 => h = <<>>
    OBVIOUS
  <2> QED BY <2>2, <2>3
<1>7. m < Len(u) => Tail(f) = SubSeq(u, m + 1, Len(u))
  <2> SUFFICES ASSUME m < Len(u) PROVE Tail(f) = SubSeq(u, m + 1, Len(u))
    OBVIOUS
  <2> DEFINE g == SubSeq(u, m + 1, Len(u))
             h == Tail(f)
  <2>1. g \in Seq(S) /\ Len(g) = L - 1 /\ \A i \in 1..L - 1 : g[i] = u[m + 1 + i - 1]
    BY <1>1
  <2>2. h \in Seq(S) /\ Len(h) = L - 1 /\ \A i \in 1..L - 1 : h[i] = f[i + 1]
    BY <1>1, <1>2, <1>5
  <2> HIDE DEF g, h
  <2>3. \A i \in 1..L - 1 : h[i] = g[i]
    <3> TAKE i \in 1..L - 1
    <3>1. i + 1 \in 1..L /\ m + (i + 1) - 1 = m + 1 + i - 1
      BY <1>1
    <3> HIDE DEF L
    <3> QED BY <1>2, <2>1, <2>2, <3>1
  <2>4. h = [i \in 1..L - 1 |-> h[i]] /\ g = [i \in 1..L - 1 |-> g[i]]
    BY <2>1, <2>2
  <2>5. h = g
    BY <2>3, <2>4
  <2> QED BY <2>5 DEF g, h
<1> QED BY <1>4, <1>5, <1>6, <1>7 DEF f

\* The next block b, and what is behind it.
NextUp(b, rest, n, key) ==
  /\ Carries(b, elapsed, sets, n, key)
  /\ Range(feed) = {b} \union Range(rest)
  /\ rest # <<>> => Head(rest) \in Range(rest) /\ GoesOnFrom(Head(rest), b, n, key)
  /\ ~HasSets(b) => \A c \in Range(rest) : ~HasSets(c)

\* The next block is of the unit under way, and so are those behind it.
LEMMA FeedFacts ==
  ASSUME TypeOK, FeedInv, NEW b, NextBlock(b)
  PROVE  /\ \E n \in Nat, key \in BOOLEAN : NextUp(b, feed', n, key)
         /\ UNCHANGED <<sets, elapsed, coded>> => FeedInv'
         /\ feed' # <<>> => Head(feed') \in Range(feed')
<1>1. feed # <<>> /\ b = Head(feed) /\ feed' = Tail(feed) /\ coded \in Nat
  BY DEF NextBlock, TypeOK
<1>2. PICK form \in Forms, n \in 1..coded :
        \E m \in 1..Len(AccessUnit(form, n, elapsed, sets)) :
          feed = SubSeq(AccessUnit(form, n, elapsed, sets), m, Len(AccessUnit(form, n, elapsed, sets)))
  BY <1>1 DEF FeedInv
<1> DEFINE u == AccessUnit(form, n, elapsed, sets)
<1>3. n \in Nat /\ IsUnit(u, elapsed, sets, n)
  BY <1>1, UnitFacts
<1>4. PICK m \in 1..Len(u) : feed = SubSeq(u, m, Len(u))
  BY <1>2
<1> HIDE DEF u
<1>5. PICK key \in BOOLEAN : Ordered(u, elapsed, sets, n, key)
  BY <1>3 DEF IsUnit
<1>6. u \in Seq(Range(u)) /\ Len(u) \in 1..3
  BY <1>3 DEF IsUnit
<1>7. /\ b = u[m]
      /\ Range(feed) = {u[i] : i \in m..Len(u)}
      /\ m = Len(u) => feed' = <<>>
      /\ m < Len(u) => feed' = SubSeq(u, m + 1, Len(u))
  BY <1>1, <1>4, <1>6, SuffixFacts
<1>8. Carries(b, elapsed, sets, n, key)
  BY <1>5, <1>7 DEF Ordered
<1>9. CASE m = Len(u)
  <2>1. feed' = <<>> /\ Range(feed') = {}
    BY <1>7, <1>9 DEF Range
  <2>2. Range(feed) = {b}
    BY <1>6, <1>7, <1>9
  <2>3. NextUp(b, feed', n, key)
    BY <1>8, <2>1, <2>2 DEF NextUp
  <2>4. FeedInv'
    BY <2>1 DEF FeedInv
  <2> QED BY <1>3, <2>1, <2>3, <2>4
<1>10. CASE m < Len(u)
  <2>1. m + 1 \in 1..Len(u) /\ m + 1 \in 2..Len(u) /\ (m + 1) - 1 = m
    BY <1>6, <1>10
  <2>2. feed' = SubSeq(u, m + 1, Len(u))
    BY <1>7, <1>10
  <2>3. feed' # <<>> /\ Head(feed') = u[m + 1] /\ Range(feed') = {u[i] : i \in m + 1 .. Len(u)}
    BY <1>6, <2>1, <2>2, SuffixFacts
  <2>4. m..Len(u) = {m} \union (m + 1 .. Len(u))
    BY <1>6, <2>1
  <2>5. Range(feed) = {b} \union Range(feed')
    BY <1>7, <2>3, <2>4
  <2>6. Head(feed') \in Range(feed')
    BY <1>6, <2>1, <2>3
  <2>7. GoesOnFrom(Head(feed'), b, n, key)
    BY <1>5, <1>7, <2>1, <2>3 DEF Ordered
  <2>8. ~HasSets(b) => \A c \in Range(feed') : ~HasSets(c)
    <3> SUFFICES ASSUME ~HasSets(b) PROVE \A i \in m + 1 .. Len(u) : ~HasSets(u[i])
      BY <2>3
    <3>1. ~HasSets(u[m + 1])
      BY <1>5, <1>7, <2>1 DEF Ordered
    <3>2. ASSUME m + 2 \in 1..Len(u) PROVE ~HasSets(u[m + 2])
      <4>1. m + 2 \in 2..Len(u) /\ (m + 2) - 1 = m + 1
        BY <3>2
      <4> QED BY <1>5, <3>1, <4>1 DEF Ordered
    <3>3. \A i \in m + 1 .. Len(u) : i = m + 1 \/ (i = m + 2 /\ m + 2 \in 1..Len(u))
      <4> DEFINE N == Len(u)
      <4>1. N \in 1..3 /\ m \in 1..N
        BY <1>6
      <4> HIDE DEF N
      <4>2. \A i \in m + 1 .. N : i = m + 1 \/ (i = m + 2 /\ m + 2 \in 1..N)
        BY <4>1
      <4> QED BY <4>2 DEF N
    <3> QED BY <3>1, <3>2, <3>3
  <2>9. NextUp(b, feed', n, key)
    BY <1>8, <2>5, <2>6, <2>7, <2>8 DEF NextUp
  <2>10. UNCHANGED <<sets, elapsed, coded>> => FeedInv'
    <3> SUFFICES ASSUME UNCHANGED <<sets, elapsed, coded>>
                 PROVE  \E k \in 1..Len(u) : feed' = SubSeq(u, k, Len(u))
      BY <1>2 DEF FeedInv, u
    <3> QED BY <2>1, <2>2
  <2> QED BY <1>3, <2>6, <2>9, <2>10
<1>11. m = Len(u) \/ m < Len(u)
  BY <1>6
<1> QED BY <1>9, <1>10, <1>11

-----------------------------------------------------------------------------
(* The steps: what they keep of the invariant.                             *)

\* The inductive invariant.
Inv == TypeOK /\ FeedInv /\ PacketInv /\ BufferInv /\ ClockInv /\ CodecInv

\* The block that is read, and what taking it would make of the track.
LEMMA ReadFacts ==
  ASSUME Inv, NEW b, NextBlock(b)
  PROVE  \E n \in Nat, key \in BOOLEAN :
           NextUp(b, feed', n, key) /\ Taken(Payload(track, b), track, b, n, key)
<1>1. PICK n \in Nat, key \in BOOLEAN : NextUp(b, feed', n, key)
  BY FeedFacts DEF Inv
<1>2. b.at = elapsed /\ Shape(b, sets, n, key)
  BY <1>1 DEF NextUp, Carries
<1>3. Timestamp(b) \in Int
  BY <1>2, TicksAssumption DEF Inv, TypeOK, Timestamp
<1>4. ~track.gotpkt /\ ~track.pkt.key
  BY DEF Inv, PacketInv, NextBlock, FreshTrack
<1>5. track \in Tracks /\ (sdp # <<0, 0>> => track.sps # 0 /\ track.pps # 0)
  BY DEF Inv, TypeOK
<1>6. Taken(Payload(track, b), track, b, n, key)
  BY <1>2, <1>3, <1>4, <1>5, PayloadFacts DEF Inv
<1> QED BY <1>1, <1>6

\* A set is under way in this block or behind it.
LEMMA PendingSplits ==
  ASSUME NEW b, NEW n, NEW key, NextUp(b, feed', n, key)
  PROVE  /\ \A type : Pending(type) <=> Has(b, type) \/ Pending(type)'
         /\ HasSets(b) <=> Has(b, "sps") \/ Has(b, "pps")
         /\ ~HasSets(b) => ~Pending("sps") /\ ~Pending("pps")
<1>1. HasSets(b) <=> Has(b, "sps") \/ Has(b, "pps")
  BY DEF HasSets, Has
<1>2. \A type : Pending(type) <=> Has(b, type) \/ Pending(type)'
  BY DEF Pending, Has, NextUp
<1>3. ~HasSets(b) => ~Pending("sps") /\ ~Pending("pps")
  <2> SUFFICES ASSUME ~HasSets(b) PROVE ~Pending("sps")' /\ ~Pending("pps")'
    BY <1>1, <1>2
  <2>1. \A c \in Range(feed') : ~HasSets(c)
    BY DEF NextUp
  <2> QED BY <2>1 DEF HasSets, Pending
<1> QED BY <1>1, <1>2, <1>3

\* A block that is dropped: only a set that it had can be missed.
LEMMA CodecDropped ==
  ASSUME Inv, NEW b, NextBlock(b), UNCHANGED <<handles, sdp, track, probing, sets>>,
         setsLost' = (setsLost \/ HasSets(b))
  PROVE  CodecInv'
<1>1. PICK n \in Nat, key \in BOOLEAN : NextUp(b, feed', n, key)
  BY ReadFacts
<1>2. (Told(track) => Told(track)')
  BY DEF Told
<1>3. /\ \A type : Pending(type) <=> Has(b, type) \/ Pending(type)'
      /\ HasSets(b) <=> Has(b, "sps") \/ Has(b, "pps")
  BY <1>1, PendingSplits
<1>4. setsLost \in BOOLEAN
  BY DEF Inv, TypeOK
<1> QED BY <1>2, <1>3, <1>4, Zenon DEF Inv, CodecInv

\* A block that is taken: the sets it brings are the track's.
LEMMA CodecTaken ==
  ASSUME Inv, NEW b, NextBlock(b), UNCHANGED <<handles, sdp, sets, setsLost>>,
         SetsKept(track', Payload(track, b)),
         probing' \/ ~probing \/ track'.codec # <<0, 0>>
  PROVE  CodecInv'
<1> DEFINE h == Payload(track, b)
<1>1. PICK n \in Nat, key \in BOOLEAN : NextUp(b, feed', n, key) /\ Taken(h, track, b, n, key)
  BY ReadFacts
<1> HIDE DEF h
<1>2. /\ Told(track) => Told(h)
      /\ track.codec # <<0, 0>> => h.codec # <<0, 0>>
      /\ h.sps = IF Has(b, "sps") THEN sets[1] ELSE track.sps
      /\ h.pps = IF Has(b, "pps") THEN sets[2] ELSE track.pps
  BY <1>1 DEF Taken, KeepsCodec
<1>3. SetsKept(track', h)
  BY DEF h
<1>4. /\ Told(h) => Told(track)'
      /\ track'.sps = h.sps /\ track'.pps = h.pps
  BY <1>3 DEF Told, SetsKept
<1>5. \A type : Pending(type) <=> Has(b, type) \/ Pending(type)'
  BY <1>1, PendingSplits
<1> SUFFICES ASSUME ~(handles /\ sdp # <<0, 0>>)
             PROVE  /\ Told(track)'
                    /\ (probing \/ track.codec # <<0, 0>>)'
                    /\ ~setsLost => /\ Pending("sps")' \/ track'.sps \in {0, sets[1]}
                                    /\ Pending("pps")' \/ track'.pps \in {0, sets[2]}
  BY Zenon DEF CodecInv
<1>6. /\ Told(track) /\ (probing \/ track.codec # <<0, 0>>)
      /\ ~setsLost => /\ Pending("sps") \/ track.sps \in {0, sets[1]}
                      /\ Pending("pps") \/ track.pps \in {0, sets[2]}
  BY Zenon DEF Inv, CodecInv
<1>7. Told(track)'
  BY <1>2, <1>4, <1>6
<1>8. ~setsLost => /\ Pending("sps")' \/ track'.sps \in {0, sets[1]}
                   /\ Pending("pps")' \/ track'.pps \in {0, sets[2]}
  BY <1>2, <1>4, <1>5, <1>6
<1>9. (probing \/ track.codec # <<0, 0>>)'
  <2> SUFFICES ASSUME ~probing' PROVE track'.codec # <<0, 0>>
    OBVIOUS
  <2> SUFFICES ASSUME ~probing PROVE track'.codec # <<0, 0>>
    OBVIOUS
  <2>1. track.codec # <<0, 0>>
    BY <1>6
  <2> QED BY <1>2, <1>3, <2>1 DEF SetsKept
<1> QED BY <1>7, <1>8, <1>9

\* The parts up to one and that one are the parts up to it.
LEMMA PartsJoin ==
  ASSUME NEW n \in Nat, NEW key \in BOOLEAN, NEW k \in 1..3
  PROVE  [l \in 1..k - 1 |-> Part(n, l, 3, key)] \o <<Part(n, k, 3, key)>>
           = [l \in 1..k |-> Part(n, l, 3, key)]
<1> DEFINE P(l) == Part(n, l, 3, key)
           q == [l \in 1..k - 1 |-> P(l)]
           r == <<P(k)>>
           g == q \o r
           f == [l \in 1..k |-> P(l)]
<1>1. \A l \in 1..3 : P(l) \in Parts
  BY DEF Part, Parts
<1> HIDE DEF P
<1>2. /\ q \in Seq(Parts) /\ Len(q) = k - 1 /\ \A l \in 1..k - 1 : q[l] = P(l)
      /\ r \in Seq(Parts) /\ Len(r) = 1 /\ r[1] = P(k)
  BY <1>1
<1> HIDE DEF q, r
<1>3. /\ g \in Seq(Parts)
      /\ Len(g) = Len(q) + Len(r)
      /\ \A l \in 1..Len(q) + Len(r) : g[l] = IF l <= Len(q) THEN q[l] ELSE r[l - Len(q)]
  BY <1>2, ConcatProperties
<1> HIDE DEF g
<1>4. Len(q) + Len(r) = k /\ Len(g) = k
  BY <1>2, <1>3
<1>5. \A l \in 1..k : g[l] = P(l)
  <2> TAKE l \in 1..k
  <2>1. g[l] = IF l <= k - 1 THEN q[l] ELSE r[l - (k - 1)]
    BY <1>2, <1>3, <1>4
  <2>2. CASE l <= k - 1
    <3>1. l \in 1..k - 1
      BY <2>2
    <3> QED BY <1>2, <2>1, <2>2, <3>1
  <2>3. CASE ~(l <= k - 1)
    <3>1. l = k /\ l - (k - 1) = 1
      BY <2>3
    <3> QED BY <1>2, <2>1, <2>3, <3>1
  <2> QED BY <2>2, <2>3
<1>6. g = [l \in 1..k |-> g[l]]
  BY <1>3, <1>4
<1> QED BY <1>5, <1>6 DEF g, q, r, P

\* A fragment that is taken goes on from what the track has of its slice.
LEMMA BufferTaken ==
  ASSUME Inv, NEW b, NextBlock(b), damaged' = (damaged /\ ~StartsSlice(b)),
         track'.fuStarted = Payload(track, b).fuStarted,
         track'.fuBuffer = Payload(track, b).fuBuffer
  PROVE  BufferInv'
<1> DEFINE h == Payload(track, b)
<1>1. PICK n \in Nat, key \in BOOLEAN : NextUp(b, feed', n, key) /\ Taken(h, track, b, n, key)
  BY ReadFacts
<1>2. track'.fuStarted = h.fuStarted /\ track'.fuBuffer = h.fuBuffer
  OBVIOUS
<1> HIDE DEF h
<1> DEFINE c == Head(feed')
<1> SUFFICES ASSUME ~damaged', feed' # <<>>, NEW x \in Range(c.nals),
                    x.type = "FU-A", ~x.start
             PROVE  LET d == x.data[1]
                    IN  /\ track'.fuStarted
                        /\ track'.fuBuffer = [k \in 1..d.part - 1 |-> Part(d.slice, k, d.of, d.key)]
  BY DEF BufferInv
<1> HIDE DEF c
<1>3. PICK k \in 2..3 : c.nals = <<Fragment(n, k, 3, key)>> /\ b.nals = <<Fragment(n, k - 1, 3, key)>>
  BY <1>1 DEF NextUp, GoesOnFrom, Continues, c
<1>4. x.data[1] = Part(n, k, 3, key)
  <2>1. x = Fragment(n, k, 3, key)
    BY <1>3 DEF Range
  <2> QED BY <2>1 DEF Fragment
<1>5. CASE k = 2
  <2>1. h.fuStarted /\ h.fuBuffer = <<>> \o <<Part(n, 1, 3, key)>>
    BY <1>1, <1>3, <1>5 DEF Taken
  <2>2. h.fuBuffer = [l \in 1..1 |-> Part(n, l, 3, key)]
    BY <2>1
  <2> QED BY <1>2, <1>4, <1>5, <2>1, <2>2 DEF Part
<1>6. CASE k = 3
  <2>1. b.nals = <<Fragment(n, 2, 3, key)>>
    BY <1>3, <1>6
  <2>2. ~StartsSlice(b) /\ Continues(b)
    <3>1. 2 \in 1..3 /\ 2 # 1
      OBVIOUS
    <3> QED BY <2>1, <3>1, FragmentContinues
  <2>3. ~damaged
    BY <2>2 DEF Inv, TypeOK
  <2>4. b = Head(feed) /\ feed # <<>>
    BY DEF NextBlock
  <2>5. Fragment(n, 2, 3, key) \in Range(b.nals)
    BY <2>1 DEF Range
  <2>6. /\ Fragment(n, 2, 3, key).type = "FU-A" /\ ~Fragment(n, 2, 3, key).start
        /\ Fragment(n, 2, 3, key).data[1] = Part(n, 2, 3, key)
    BY DEF Fragment
  <2>7. /\ track.fuStarted
        /\ track.fuBuffer = [l \in 1..2 - 1 |-> Part(n, l, 3, key)]
    <3>1. \A y \in Range(b.nals) : y.type = "FU-A" /\ ~y.start =>
            LET d == y.data[1]
            IN  /\ track.fuStarted
                /\ track.fuBuffer = [l \in 1..d.part - 1 |-> Part(d.slice, l, d.of, d.key)]
      BY <2>3, <2>4 DEF Inv, BufferInv
    <3>2. LET d == Part(n, 2, 3, key)
          IN  d.part = 2 /\ d.slice = n /\ d.of = 3 /\ d.key = key
      BY DEF Part
    <3>3. LET d == Part(n, 2, 3, key)
          IN  /\ track.fuStarted
              /\ track.fuBuffer = [l \in 1..d.part - 1 |-> Part(d.slice, l, d.of, d.key)]
      BY <2>5, <2>6, <3>1
    <3> QED BY <3>2, <3>3
  <2>8. h.fuStarted /\ h.fuBuffer = track.fuBuffer \o <<Part(n, 2, 3, key)>>
    BY <1>1, <2>1, <2>7 DEF Taken
  <2>9. h.fuBuffer = [l \in 1..2 |-> Part(n, l, 3, key)]
    <3>1. 2 \in 1..3
      OBVIOUS
    <3> QED BY <2>7, <2>8, <3>1, PartsJoin
  <2> QED BY <1>2, <1>4, <1>6, <2>8, <2>9 DEF Part
<1> QED BY <1>5, <1>6

\* A block is refused or skipped.
LEMMA LostStep ==
  ASSUME Inv, NEW b, NextBlock(b), Lost(b)
  PROVE  Inv'
<1>1. TypeOK'
  <2>1. HasSets(b) \in BOOLEAN
    BY DEF HasSets
  <2> QED BY <2>1 DEF Inv, TypeOK, Lost, Rest
<1>2. FeedInv'
  BY FeedFacts DEF Inv, Lost, Rest
<1>3. PacketInv' /\ BufferInv' /\ ClockInv'
  BY DEF Inv, Lost, Rest, PacketInv, BufferInv, ClockInv
<1>4. CodecInv'
  BY CodecDropped DEF Lost, Rest
<1> QED BY <1>1, <1>2, <1>3, <1>4 DEF Inv

\* A change of both sets stops the connection.
LEMMA CodecChangedStep ==
  ASSUME Inv, NEW b, CodecChanged(b)
  PROVE  Inv'
<1>0. NextBlock(b)
  BY DEF CodecChanged, Accept
<1>1. TypeOK'
  <2>1. HasSets(b) \in BOOLEAN
    BY DEF HasSets
  <2> QED BY <2>1 DEF Inv, TypeOK, CodecChanged, Accept, Rest
<1>2. FeedInv'
  BY <1>0, FeedFacts DEF Inv, CodecChanged, Accept, Rest
<1>3. PacketInv' /\ BufferInv' /\ ClockInv'
  BY DEF Inv, CodecChanged, Accept, NextBlock, Rest, PacketInv, BufferInv, ClockInv
<1>4. CodecInv'
  BY <1>0, CodecDropped DEF CodecChanged, Accept, Rest
<1> QED BY <1>1, <1>2, <1>3, <1>4 DEF Inv

\* A FU-B stops the connection; it carries no set.
LEMMA UnsupportedStep ==
  ASSUME Inv, NEW b, Unsupported(b)
  PROVE  Inv'
<1>0. NextBlock(b) /\ status = "ok"
  BY DEF Unsupported, Arrived, Accept, NextBlock
<1>1. TypeOK'
  <2>1. StartsSlice(b) \in BOOLEAN
    BY DEF StartsSlice
  <2> QED BY <2>1 DEF Inv, TypeOK, Unsupported, Arrived, Accept, Rest
<1>2. FeedInv'
  BY <1>0, FeedFacts DEF Inv, Unsupported, Arrived, Accept, Rest
<1>3. PICK n \in Nat, key \in BOOLEAN : NextUp(b, feed', n, key)
  BY <1>0, ReadFacts
<1>4. PICK y \in Range(b.nals) : y.type = "FU-B"
  BY DEF Unsupported
<1>5. BufferInv'
  <2>1. feed' # <<>> => ~Continues(Head(feed'))
    <3>1. ASSUME NEW k \in 2..3, b.nals = <<Fragment(n, k - 1, 3, key)>> PROVE FALSE
      <4>1. y = Fragment(n, k - 1, 3, key)
        BY <1>4, <3>1 DEF Range
      <4> QED BY <1>4, <4>1 DEF Fragment
    <3> QED BY <1>3, <3>1 DEF NextUp, GoesOnFrom
  <2> QED BY <2>1 DEF BufferInv, Continues
<1>6. PacketInv' /\ ClockInv'
  BY <1>0 DEF Inv, Unsupported, Arrived, Accept, Rest, PacketInv, ClockInv
<1>7. ~HasSets(b)
  <2>1. b.at = elapsed /\ Shape(b, sets, n, key)
    BY <1>3 DEF NextUp, Carries
  <2>2. b.nals = <<[type |-> "FU-B"]>>
    <3>1. \A x : Range(<<x>>) = {x}
      BY DEF Range
    <3>2. Range(<<>>) = {}
      BY DEF Range
    <3>3. \A u, v, w : Range(<<u, v, w>>) = {u, v, w} /\ Range(<<u, v>>) = {u, v}
      BY DEF Range
    <3>4. /\ \A k : Slice(k, key).type # "FU-B"
          /\ \A k : Fragment(n, k, 3, key).type # "FU-B"
          /\ Sps(sets[1]).type # "FU-B" /\ Pps(sets[2]).type # "FU-B"
      BY DEF Slice, Fragment, Sps, Pps
    <3>5. b.nals # <<>>
      BY <1>4, <3>2
    <3>6. ASSUME NEW u, u.type # "FU-B" PROVE b.nals # <<u>>
      BY <1>4, <3>1, <3>6
    <3>7. /\ b.nals # <<Slice(n, key)>> /\ b.nals # <<Sps(sets[1])>>
          /\ b.nals # <<Pps(sets[2])>>
          /\ \A k \in 1..3 : b.nals # <<Fragment(n, k, 3, key)>>
      BY <3>4, <3>6, Zenon
    <3>8. b.nals # <<Sps(sets[1]), Pps(sets[2]), Slice(n, key)>>
      <4> DEFINE u == Sps(sets[1])
                 v == Pps(sets[2])
                 w == Slice(n, key)
      <4>1. u.type # "FU-B" /\ v.type # "FU-B" /\ w.type # "FU-B"
        BY <3>4
      <4> HIDE DEF u, v, w
      <4>2. Range(<<u, v, w>>) = {u, v, w}
        BY <3>3
      <4>3. b.nals # <<u, v, w>>
        BY <1>4, <4>1, <4>2
      <4> QED BY <4>3 DEF u, v, w
    <3>9. b.nals # <<Slice(n, key), Slice(n + 1, key)>>
      <4> DEFINE u == Slice(n, key)
                 v == Slice(n + 1, key)
      <4>1. u.type # "FU-B" /\ v.type # "FU-B"
        BY <3>4
      <4> HIDE DEF u, v
      <4>2. Range(<<u, v>>) = {u, v}
        BY <3>3
      <4>3. b.nals # <<u, v>>
        BY <1>4, <4>1, <4>2
      <4> QED BY <4>3 DEF u, v
    <3> QED BY <2>1, <3>5, <3>7, <3>8, <3>9 DEF Shape
  <2> QED BY <2>2, HasOne
<1>8. CodecInv'
  <2>1. setsLost' = (setsLost \/ HasSets(b))
    BY <1>7 DEF Unsupported, Arrived, Inv, TypeOK
  <2> QED BY <1>0, <2>1, CodecDropped DEF Unsupported, Arrived, Accept, Rest
<1> QED BY <1>1, <1>2, <1>5, <1>6, <1>8 DEF Inv

\* A block that makes no packet.
LEMMA NoPacketStep ==
  ASSUME Inv, NEW b, NoPacket(b)
  PROVE  Inv'
<1> DEFINE h == Payload(track, b)
<1>0. NextBlock(b) /\ status = "ok"
  BY DEF NoPacket, Arrived, Accept, NextBlock
<1>1. PICK n \in Nat, key \in BOOLEAN : NextUp(b, feed', n, key) /\ Taken(h, track, b, n, key)
  BY <1>0, ReadFacts
<1>2. /\ track' = h /\ ~h.gotpkt /\ damaged' = (damaged /\ ~StartsSlice(b))
      /\ UNCHANGED <<Rest, setsLost, probing, status, out, origin>>
  BY DEF NoPacket, Arrived, Accept
<1> HIDE DEF h
<1>3. /\ h \in Tracks /\ TimesKept(h, track) /\ h.pkt = track.pkt
      /\ h.sps = IF Has(b, "sps") THEN sets[1] ELSE track.sps
      /\ h.pps = IF Has(b, "pps") THEN sets[2] ELSE track.pps
  BY <1>1, <1>2 DEF Taken
<1>4. TypeOK'
  <2>1. StartsSlice(b) \in BOOLEAN
    BY DEF StartsSlice
  <2>2. sdp # <<0, 0>> => h.sps # 0 /\ h.pps # 0
    BY <1>3 DEF Inv, TypeOK, Versions
  <2> QED BY <1>2, <1>3, <2>1, <2>2 DEF Inv, TypeOK, Rest
<1>5. FeedInv'
  BY <1>0, <1>2, FeedFacts DEF Inv, Rest
<1>6. PacketInv' /\ ClockInv'
  BY <1>0, <1>2, <1>3 DEF Inv, Rest, PacketInv, ClockInv, TimesKept
<1>7. BufferInv'
  BY <1>0, <1>2, BufferTaken DEF h
<1>8. CodecInv'
  <2>1. SetsKept(track', Payload(track, b))
    BY <1>2 DEF SetsKept, h
  <2> QED BY <1>0, <1>2, <2>1, CodecTaken DEF Rest, Inv, TypeOK
<1> QED BY <1>4, <1>5, <1>6, <1>7, <1>8 DEF Inv

-----------------------------------------------------------------------------
(* A packet: its time, its data, what it is handed out as.                 *)

\* A difference of wrapped timestamps, wrapped, is that of the times.
LEMMA WrappedDifference ==
  ASSUME NEW x \in Int, NEW y \in Int
  PROVE  ((x % Wrap) - (y % Wrap)) % Wrap = (x - y) % Wrap
<1> DEFINE W == Wrap
<1>1. W \in Nat \ {0}
  BY TicksAssumption
<1> HIDE DEF W
<1>2. \A z \in Int : /\ z \div W \in Int /\ z % W \in 0..W - 1
                     /\ z = W * (z \div W) + (z % W)
  BY <1>1
<1> DEFINE rx == x % W
           ry == y % W
           u == rx - ry
           v == x - y
           qx == x \div W
           qy == y \div W
           qu == u \div W
           qv == v \div W
           ru == u % W
           rv == v % W
           q == qv + qy - (qx + qu)
<1>3. /\ qx \in Int /\ qy \in Int /\ rx \in Int /\ ry \in Int
      /\ x = W * qx + rx /\ y = W * qy + ry
  BY <1>1, <1>2
<1> HIDE DEF rx, ry, qx, qy
<1>4. u \in Int /\ v \in Int
  BY <1>3
<1>5. /\ qu \in Int /\ ru \in 0..W - 1 /\ u = W * qu + ru
      /\ qv \in Int /\ rv \in 0..W - 1 /\ v = W * qv + rv
  BY <1>2, <1>4
<1> HIDE DEF qu, qv, ru, rv
<1>6. v = W * qx - W * qy + u
  BY <1>1, <1>3
<1> HIDE DEF u, v
<1>7. W * (qv + qy - (qx + qu)) = ru - rv
  BY <1>1, <1>3, <1>4, <1>5, <1>6
<1>8. q \in Int /\ W * q = ru - rv
  BY <1>3, <1>5, <1>7
<1> HIDE DEF q
<1>9. q = 0
  <2>1. CASE q >= 1
    <3>1. W * q >= W
      BY <1>1, <1>8, <2>1
    <3> QED BY <1>1, <1>5, <1>8, <3>1
  <2>2. CASE q <= -1
    <3>1. W * q <= -W
      BY <1>1, <1>8, <2>2
    <3> QED BY <1>1, <1>5, <1>8, <3>1
  <2> QED BY <1>8, <2>1, <2>2
<1>10. ru = rv
  BY <1>1, <1>5, <1>8, <1>9
<1> QED BY <1>10 DEF ru, rv, u, v, rx, ry, W

\* What counting from the first packet changes.
RebasedTo(r, t) ==
  LET first == IF t.firsttimestamp = 0 THEN t.timestamp ELSE t.firsttimestamp
  IN  /\ r \in Tracks /\ SetsKept(r, t)
      /\ r.fuStarted = t.fuStarted /\ r.fuBuffer = t.fuBuffer /\ r.pkt = t.pkt
      /\ r.firsttimestamp = first /\ r.timestamp = (t.timestamp - first) % Wrap
      /\ r.lasttime = t.lasttime

\* Rebased sets the first timestamp, once, and the time of the packet.
LEMMA RebasedFacts ==
  ASSUME NEW t \in Tracks
  PROVE  RebasedTo(Rebased(t), t)
<1> DEFINE first == IF t.firsttimestamp = 0 THEN t.timestamp ELSE t.firsttimestamp
           time == (t.timestamp - first) % Wrap
           r == [t EXCEPT !.firsttimestamp = first, !.timestamp = time]
<1>1. first \in Int /\ time \in Int /\ t.timestamp \in Int /\ t.firsttimestamp \in Int
  BY TicksAssumption DEF Tracks
<1>2. Rebased(t) = r
  BY DEF Rebased
<1> HIDE DEF first, time
<1>3. /\ r \in Tracks /\ SetsKept(r, t)
      /\ r.fuStarted = t.fuStarted /\ r.fuBuffer = t.fuBuffer /\ r.pkt = t.pkt
      /\ r.firsttimestamp = first /\ r.timestamp = time /\ r.lasttime = t.lasttime
  BY <1>1 DEF Tracks, SetsKept
<1> HIDE DEF r
<1> QED BY <1>2, <1>3 DEF RebasedTo, first, time

\* Emitted leaves no packet behind.
LEMMA EmittedFacts ==
  ASSUME NEW t \in Tracks
  PROVE  LET r == Emitted(t)
         IN  /\ r \in Tracks /\ SetsKept(r, t)
             /\ r.fuStarted = t.fuStarted /\ r.fuBuffer = t.fuBuffer
             /\ r.firsttimestamp = t.firsttimestamp
             /\ ~r.gotpkt /\ r.pkt = FreshTrack.pkt
<1> DEFINE k == FreshTrack.pkt
           r == [t EXCEPT !.lasttime = t.timestamp, !.gotpkt = FALSE, !.pkt = k]
<1>1. k \in [data : Seq(Parts), key : BOOLEAN]
  BY DEF FreshTrack
<1>2. Emitted(t) = r
  BY DEF Emitted
<1> HIDE DEF k
<1>3. /\ r \in Tracks /\ SetsKept(r, t)
      /\ r.fuStarted = t.fuStarted /\ r.fuBuffer = t.fuBuffer
      /\ r.firsttimestamp = t.firsttimestamp
      /\ ~r.gotpkt /\ r.pkt = k
  BY <1>1 DEF Tracks, SetsKept
<1> QED BY <1>2, <1>3 DEF k

\* The data of a packet made of block b.
LEMMA DataFacts ==
  ASSUME Inv, NEW b, NextBlock(b), Payload(track, b).gotpkt
  PROVE  LET k == Payload(track, b).pkt
         IN  (~damaged => IsWhole(k.data)) /\ k.key = k.data[1].key
<1> DEFINE h == Payload(track, b)
           d == h.pkt.data
<1>1. PICK n \in Nat, key \in BOOLEAN : NextUp(b, feed', n, key) /\ Taken(h, track, b, n, key)
  BY ReadFacts
<1>2. h.gotpkt
  OBVIOUS
<1> HIDE DEF h
<1>3. /\ h.pkt.key = d[1].key
      /\ \/ d = <<Part(n, 1, 1, key)>>
         \/ d = <<Part(n + 1, 1, 1, key)>>
         \/ /\ b.nals = <<Fragment(n, 3, 3, key)>> /\ track.fuStarted
            /\ d = track.fuBuffer \o <<Part(n, 3, 3, key)>>
  BY <1>1, <1>2 DEF Taken
<1>4. ~damaged => IsWhole(d)
  <2> HIDE DEF d
  <2>1. ASSUME NEW m, d = <<Part(m, 1, 1, key)>> PROVE IsWhole(d)
    BY <2>1 DEF IsWhole, Part
  <2>2. ASSUME ~damaged, b.nals = <<Fragment(n, 3, 3, key)>>,
               d = track.fuBuffer \o <<Part(n, 3, 3, key)>>
        PROVE  IsWhole(d)
    <3> DEFINE x == Fragment(n, 3, 3, key)
    <3>1. b = Head(feed) /\ feed # <<>> /\ x \in Range(b.nals)
      BY <2>2 DEF NextBlock, Range
    <3>2. x.type = "FU-A" /\ ~x.start /\ x.data[1] = Part(n, 3, 3, key)
      <4>1. x.type = "FU-A" /\ (x.start <=> 3 = 1) /\ x.data = <<Part(n, 3, 3, key)>>
        BY DEF Fragment
      <4> HIDE DEF x
      <4> QED BY <4>1
    <3> HIDE DEF x
    <3>3. LET e == x.data[1]
          IN  track.fuBuffer = [l \in 1..e.part - 1 |-> Part(e.slice, l, e.of, e.key)]
      BY <2>2, <3>1, <3>2 DEF Inv, BufferInv
    <3>4. track.fuBuffer = [l \in 1..3 - 1 |-> Part(n, l, 3, key)]
      BY <3>2, <3>3 DEF Part
    <3>5. d = [l \in 1..3 |-> Part(n, l, 3, key)]
      <4>1. 3 \in 1..3
        OBVIOUS
      <4>2. [l \in 1..3 - 1 |-> Part(n, l, 3, key)] \o <<Part(n, 3, 3, key)>>
              = [l \in 1..3 |-> Part(n, l, 3, key)]
        BY <4>1, PartsJoin
      <4> QED BY <2>2, <3>4, <4>2, Zenon
    <3>6. DOMAIN d = 1..3 /\ Len(d) = 3 /\ \A l \in 1..3 : d[l] = Part(n, l, 3, key)
      BY <3>5
    <3>7. d[1].slice = n /\ d[1].key = key
      BY <3>6 DEF Part
    <3>8. \A l \in 1..3 : d[l].slice = n /\ d[l].part = l /\ d[l].of = 3 /\ d[l].key = key
      BY <3>6 DEF Part
    <3> QED BY <3>6, <3>7, <3>8 DEF IsWhole
  <2> QED BY <1>3, <2>1, <2>2 DEF d
<1> QED BY <1>3, <1>4 DEF h

\* What the properties ask of a packet that is handed out; first is the time
\* the connection counts from.
Noticed(p) == (\A k \in {1, 2} : p.codec[k] # p.sets[k]) => p.withSets \/ p.setsLost
Good(p, first) ==
  /\ ~p.damaged => IsWhole(p.data)
  /\ p.key = p.data[1].key
  /\ (base + first) % Wrap # 0 => p.time = (p.at - first) % Wrap
  /\ ~(handles /\ sdp # <<0, 0>>) => Noticed(p)

\* The track when a packet is handed out or its time refused.
LEMMA PacketFacts ==
  ASSUME Inv, NEW b, Packet(b)
  PROVE  LET h == Payload(track, b)
             t == Rebased(h)
             first == IF origin = <<>> THEN b.at ELSE origin[1]
         IN  /\ h \in Tracks /\ t \in Tracks /\ SetsKept(t, h)
             /\ t.fuStarted = h.fuStarted /\ t.fuBuffer = h.fuBuffer
             /\ sdp # <<0, 0>> => t.sps # 0 /\ t.pps # 0
             /\ ~damaged => IsWhole(t.pkt.data)
             /\ t.pkt.key = t.pkt.data[1].key
             /\ b.at = elapsed /\ b.sets = sets /\ first \in Int
             /\ (base + first) % Wrap # 0 =>
                  /\ t.firsttimestamp = (base + first) % Wrap
                  /\ t.timestamp = (b.at - first) % Wrap
<1> DEFINE h == Payload(track, b)
           t == Rebased(h)
           first == IF origin = <<>> THEN b.at ELSE origin[1]
           B(x) == (base + x) % Wrap
<1>0. NextBlock(b) /\ status = "ok" /\ h.gotpkt
  BY DEF Packet, Arrived, Accept, NextBlock
<1>1. PICK n \in Nat, key \in BOOLEAN : NextUp(b, feed', n, key) /\ Taken(h, track, b, n, key)
  BY <1>0, ReadFacts
<1>2. b.at = elapsed /\ b.sets = sets
  BY <1>1 DEF NextUp, Carries
<1>3. (~damaged => IsWhole(h.pkt.data)) /\ h.pkt.key = h.pkt.data[1].key
  BY <1>0, DataFacts
<1> HIDE DEF h
<1>4. /\ h \in Tracks /\ h.firsttimestamp = track.firsttimestamp
      /\ h.timestamp = B(b.at)
      /\ h.sps = IF Has(b, "sps") THEN sets[1] ELSE track.sps
      /\ h.pps = IF Has(b, "pps") THEN sets[2] ELSE track.pps
  BY <1>0, <1>1 DEF Taken, TimesKept, Timestamp
<1>5. RebasedTo(t, h)
  BY <1>4, RebasedFacts
<1> HIDE DEF t
<1>6. /\ t \in Tracks /\ SetsKept(t, h) /\ t.pkt = h.pkt
      /\ t.fuStarted = h.fuStarted /\ t.fuBuffer = h.fuBuffer
      /\ t.firsttimestamp = IF h.firsttimestamp = 0 THEN h.timestamp ELSE h.firsttimestamp
      /\ t.timestamp = (h.timestamp - t.firsttimestamp) % Wrap
  BY <1>5 DEF RebasedTo
<1>7. sdp # <<0, 0>> => t.sps # 0 /\ t.pps # 0
  BY <1>4, <1>6 DEF Inv, TypeOK, Versions, SetsKept
<1>8. /\ b.at \in Int /\ base \in Int /\ first \in Int
      /\ origin # <<>> => origin[1] \in Int
  BY <1>2 DEF Inv, TypeOK
<1>9. B(first) # 0 => t.firsttimestamp = B(first)
  <2>1. CASE origin = <<>>
    <3>1. track.firsttimestamp = 0
      BY <1>0, <2>1 DEF Inv, ClockInv
    <3> QED BY <1>4, <1>6, <2>1, <3>1
  <2>2. CASE origin # <<>>
    <3>1. B(first) # 0 => track.firsttimestamp = B(first)
      BY <1>0, <2>2 DEF Inv, ClockInv
    <3> HIDE DEF B, first
    <3> QED BY <1>4, <1>6, <3>1
  <2> QED BY <2>1, <2>2
<1>10. B(first) # 0 => t.timestamp = (b.at - first) % Wrap
  <2> SUFFICES ASSUME B(first) # 0 PROVE t.timestamp = (b.at - first) % Wrap
    OBVIOUS
  <2>1. t.timestamp = (B(b.at) - B(first)) % Wrap
    BY <1>4, <1>6, <1>9
  <2> HIDE DEF first
  <2> DEFINE x == base + b.at
             y == base + first
  <2>2. x \in Int /\ y \in Int /\ x - y = b.at - first
    BY <1>8
  <2>3. ((x % Wrap) - (y % Wrap)) % Wrap = (x - y) % Wrap
    BY <2>2, WrappedDifference
  <2> QED BY <2>1, <2>2, <2>3
<1> HIDE DEF B, first
<1>11. (~damaged => IsWhole(t.pkt.data)) /\ t.pkt.key = t.pkt.data[1].key
  BY <1>3, <1>6
<1> QED BY <1>2, <1>4, <1>6, <1>7, <1>8, <1>9, <1>10, <1>11 DEF h, t, B, first

\* A packet is handed out, dropped while probing, or its time refused.
LEMMA PacketStep ==
  ASSUME Inv, NEW b, Packet(b)
  PROVE  /\ Inv'
         /\ \/ out' = out
            \/ /\ origin' # <<>>
               /\ \E p \in Handed : out' = Append(out, p) /\ Good(p, origin'[1])
         /\ origin # <<>> => origin'[1] = origin[1]
         /\ UNCHANGED <<base, handles, sdp>>
<1> DEFINE h == Payload(track, b)
           t == Rebased(h)
           first == IF origin = <<>> THEN b.at ELSE origin[1]
           p == [data |-> t.pkt.data, key |-> t.pkt.key,
                 time |-> t.timestamp, at |-> b.at, codec |-> t.codec,
                 sets |-> b.sets, withSets |-> HasSets(b),
                 damaged |-> damaged, setsLost |-> setsLost]
<1>0. NextBlock(b) /\ status = "ok"
  BY DEF Packet, Arrived, Accept, NextBlock
<1>1. /\ h \in Tracks /\ t \in Tracks /\ SetsKept(t, h)
      /\ t.fuStarted = h.fuStarted /\ t.fuBuffer = h.fuBuffer
      /\ sdp # <<0, 0>> => t.sps # 0 /\ t.pps # 0
      /\ b.at = elapsed /\ b.sets = sets /\ first \in Int
      /\ (base + first) % Wrap # 0 => t.firsttimestamp = (base + first) % Wrap
  BY PacketFacts
<1>2. /\ ~damaged => IsWhole(t.pkt.data)
      /\ t.pkt.key = t.pkt.data[1].key
      /\ (base + first) % Wrap # 0 => t.timestamp = (b.at - first) % Wrap
  BY PacketFacts
<1>3. /\ damaged' = (damaged /\ ~StartsSlice(b))
      /\ UNCHANGED <<Rest, setsLost>> /\ ~isCodecDataChange(track)
  BY DEF Packet, Arrived, Accept
<1>4. \/ /\ track' = t /\ status' = "timeInvalid" /\ UNCHANGED <<probing, out, origin>>
      \/ /\ track' = Emitted(t) /\ UNCHANGED status
         /\ origin' = IF origin = <<>> THEN <<b.at, b.at>> ELSE <<origin[1], b.at>>
         /\ out' = IF probing THEN out ELSE Append(out, p)
         /\ probing' = (probing /\ t.codec = <<0, 0>>)
  BY DEF Packet
<1>5. PICK n \in Nat, key \in BOOLEAN : NextUp(b, feed', n, key) /\ Taken(h, track, b, n, key)
  BY <1>0, ReadFacts
<1>6. FeedInv' /\ UNCHANGED <<base, handles, sdp>>
  BY <1>0, <1>3, FeedFacts DEF Inv, Rest
<1>7. StartsSlice(b) \in BOOLEAN /\ HasSets(b) \in BOOLEAN
  BY DEF StartsSlice, HasSets
<1>8. CASE /\ track' = t /\ status' = "timeInvalid" /\ UNCHANGED <<probing, out, origin>>
  <2>1. TypeOK'
    <3> HIDE DEF h, t, p
    <3> QED BY <1>1, <1>3, <1>7, <1>8 DEF Inv, TypeOK, Rest
  <2>2. PacketInv' /\ ClockInv'
    BY <1>8 DEF Inv, PacketInv, ClockInv
  <2>3. BufferInv'
    BY <1>0, <1>1, <1>3, <1>8, BufferTaken
  <2>4. CodecInv'
    BY <1>0, <1>1, <1>3, <1>8, CodecTaken DEF Rest, Inv, TypeOK
  <2> QED BY <1>6, <1>8, <2>1, <2>2, <2>3, <2>4 DEF Inv
<1>9. CASE /\ track' = Emitted(t) /\ UNCHANGED status
           /\ origin' = IF origin = <<>> THEN <<b.at, b.at>> ELSE <<origin[1], b.at>>
           /\ out' = IF probing THEN out ELSE Append(out, p)
           /\ probing' = (probing /\ t.codec = <<0, 0>>)
  <2> DEFINE r == Emitted(t)
  <2>1. /\ r \in Tracks /\ SetsKept(r, t)
        /\ r.fuStarted = t.fuStarted /\ r.fuBuffer = t.fuBuffer
        /\ r.firsttimestamp = t.firsttimestamp
        /\ ~r.gotpkt /\ r.pkt = FreshTrack.pkt
    BY <1>1, EmittedFacts
  <2>2. SetsKept(r, h)
    BY <1>1, <2>1 DEF SetsKept
  <2>3. p \in Handed
    <3> HIDE DEF h, t
    <3>1. /\ t.pkt.data \in Seq(Parts) /\ t.pkt.key \in BOOLEAN /\ t.timestamp \in Int
          /\ t.codec \in Nat \X Nat
      BY <1>1 DEF Tracks
    <3>2. b.at \in Int /\ b.sets \in Versions /\ damaged \in BOOLEAN /\ setsLost \in BOOLEAN
      BY <1>1 DEF Inv, TypeOK
    <3> QED BY <1>7, <3>1, <3>2 DEF Handed
  <2>4. ~probing => Good(p, first)
    <3>1. p.damaged = damaged /\ p.data = t.pkt.data /\ p.key = t.pkt.key
      OBVIOUS
    <3>2. p.time = t.timestamp /\ p.at = b.at /\ p.codec = t.codec /\ p.sets = b.sets
      OBVIOUS
    <3>3. p.withSets = HasSets(b) /\ p.setsLost = setsLost
      OBVIOUS
    <3> HIDE DEF p, t, h, first
    <3>4. ~(handles /\ sdp # <<0, 0>>) /\ ~probing => Noticed(p)
      <4> SUFFICES ASSUME ~(handles /\ sdp # <<0, 0>>), ~probing, ~HasSets(b), ~setsLost
                   PROVE  \E k \in {1, 2} : t.codec[k] = sets[k]
        BY <1>1, <3>2, <3>3 DEF Noticed
      <4>1. SetsKept(h, track)
        BY <1>5 DEF Taken
      <4>2. t.codec = track.codec
        BY <1>1, <4>1 DEF SetsKept
      <4>3. ~Pending("sps") /\ ~Pending("pps")
        BY <1>5, PendingSplits
      <4>4. /\ Told(track) /\ track.codec # <<0, 0>>
            /\ track.sps \in {0, sets[1]} /\ track.pps \in {0, sets[2]}
        BY <4>3 DEF Inv, CodecInv
      <4>5. /\ track.sps = sets[1] /\ track.pps = sets[2]
            /\ track.spsChanged \/ track.codec[1] = sets[1]
            /\ track.ppsChanged \/ track.codec[2] = sets[2]
        BY <4>4 DEF Told
      <4>6. ~track.spsChanged \/ ~track.ppsChanged
        BY <1>3 DEF isCodecDataChange
      <4> QED BY <4>2, <4>5, <4>6
    <3> QED BY <1>2, <3>1, <3>2, <3>4 DEF Good
  <2> HIDE DEF p, r
  <2>5. /\ origin' \in Int \X Int /\ origin' # <<>> /\ origin'[1] = first
    <3>1. b.at \in Int /\ (origin # <<>> => origin \in Int \X Int)
      BY <1>1 DEF Inv, TypeOK
    <3> QED BY <1>9, <3>1
  <2>6. /\ track' = r /\ out' = IF probing THEN out ELSE Append(out, p)
        /\ probing' = (probing /\ t.codec = <<0, 0>>) /\ UNCHANGED status
    BY <1>9 DEF r, p
  <2> HIDE DEF h, t, first
  <2>7. TypeOK'
    <3>1. out' \in Seq(Handed)
      BY <2>3, <2>6 DEF Inv, TypeOK
    <3>2. sdp # <<0, 0>> => r.sps # 0 /\ r.pps # 0
      BY <1>1, <2>1 DEF SetsKept
    <3>3. probing' \in BOOLEAN
      BY <2>6 DEF Inv, TypeOK
    <3> QED BY <1>3, <1>7, <2>1, <2>5, <2>6, <3>1, <3>2, <3>3 DEF Inv, TypeOK, Rest
  <2>8. PacketInv'
    BY <2>1, <2>6 DEF PacketInv
  <2>9. ClockInv'
    BY <1>1, <1>3, <2>1, <2>5, <2>6 DEF ClockInv, Rest
  <2>10. BufferInv'
    BY <1>0, <1>1, <1>3, <2>1, <2>6, BufferTaken DEF h
  <2>11. CodecInv'
    <3>1. probing' \/ ~probing \/ track'.codec # <<0, 0>>
      BY <2>1, <2>6 DEF SetsKept
    <3> QED BY <1>0, <1>3, <2>2, <2>6, <3>1, CodecTaken DEF Rest, h
  <2>12. \/ out' = out
         \/ origin' # <<>> /\ \E q \in Handed : out' = Append(out, q) /\ Good(q, origin'[1])
    BY <2>3, <2>4, <2>5, <2>6
  <2>13. origin # <<>> => origin'[1] = origin[1]
    BY <2>5 DEF first
  <2> QED BY <1>6, <2>13, <2>7, <2>8, <2>9, <2>10, <2>11, <2>12 DEF Inv
<1> HIDE DEF h, t, p, first
<1> QED BY <1>4, <1>8, <1>9

-----------------------------------------------------------------------------
(* The other steps, and the theorems.                                      *)

\* The track of a new connection has the sets of its SDP, and no more.
LEMMA ConnectedFacts ==
  ASSUME NEW s, s \in {<<0, 0>>} \union Versions
  PROVE  LET r == makeCodecData(FreshTrack, s)
         IN  /\ r \in Tracks /\ ~r.gotpkt /\ r.pkt = FreshTrack.pkt /\ r.firsttimestamp = 0
             /\ s # <<0, 0>> => r.sps = s[1] /\ r.pps = s[2] /\ r.sps # 0 /\ r.pps # 0
             /\ s = <<0, 0>> => r.sps = 0 /\ r.pps = 0
             /\ Told(r)
<1> DEFINE r == makeCodecData(FreshTrack, s)
<1>1. /\ FreshTrack \in Tracks /\ ~FreshTrack.gotpkt /\ FreshTrack.firsttimestamp = 0
      /\ FreshTrack.sps = 0 /\ FreshTrack.pps = 0 /\ FreshTrack.codec = <<0, 0>>
  BY DEF FreshTrack, Tracks
<1>2. /\ r \in Tracks /\ SlicesKept(r, FreshTrack) /\ TimesKept(r, FreshTrack)
      /\ s = <<0, 0>> => /\ r.sps = 0 /\ r.pps = 0 /\ r.codec = <<0, 0>>
      /\ s # <<0, 0>> => r.sps = s[1] /\ r.pps = s[2] /\ r.codec = s
      /\ s # <<0, 0>> => r.sps # 0 /\ r.pps # 0
  BY <1>1, MakeCodecDataFacts
<1> HIDE DEF r
<1>3. Told(r)
  BY <1>2 DEF Told
<1> QED BY <1>1, <1>2, <1>3 DEF SlicesKept, TimesKept, r

\* A client that has just connected.
LEMMA InitInv == Init => Inv
<1> SUFFICES ASSUME Init PROVE Inv
  OBVIOUS
<1>1. /\ handles \in BOOLEAN /\ sets = <<1, 1>> /\ sdp \in {<<0, 0>>, sets}
      /\ track = makeCodecData(FreshTrack, sdp)
      /\ elapsed = 0 /\ base \in Bases /\ coded = 0 /\ feed = <<>> /\ out = <<>> /\ origin = <<>>
  BY DEF Init
<1>2. /\ probing = (track.codec = <<0, 0>>) /\ status = "ok"
      /\ damaged = FALSE /\ setsLost = FALSE
  BY DEF Init
<1>3. sets \in Versions /\ sdp \in {<<0, 0>>} \union Versions
  BY <1>1 DEF Versions
<1>4. /\ track \in Tracks /\ ~track.gotpkt /\ track.pkt = FreshTrack.pkt
      /\ track.firsttimestamp = 0
      /\ sdp # <<0, 0>> => track.sps = sdp[1] /\ track.pps = sdp[2] /\ track.sps # 0 /\ track.pps # 0
      /\ sdp = <<0, 0>> => track.sps = 0 /\ track.pps = 0
      /\ Told(track)
  BY <1>1, <1>3, ConnectedFacts
<1>5. TypeOK
  <2>1. probing \in BOOLEAN
    BY <1>2
  <2>2. base \in 0..Wrap - 1 /\ elapsed \in Int /\ coded \in Nat
    BY <1>1, TicksAssumption
  <2>3. out \in Seq(Handed) /\ origin \in {<<>>} \union Int \X Int
    BY <1>1
  <2> QED BY <1>1, <1>2, <1>3, <1>4, <2>1, <2>2, <2>3 DEF TypeOK
<1>6. FeedInv /\ PacketInv /\ BufferInv /\ ClockInv
  BY <1>1, <1>2, <1>4 DEF FeedInv, PacketInv, BufferInv, ClockInv
<1>7. CodecInv
  BY <1>1, <1>2, <1>4 DEF CodecInv
<1> QED BY <1>5, <1>6, <1>7 DEF Inv

\* A new unit: what is new in it is under way.
LEMMA SendStep ==
  ASSUME Inv, Send
  PROVE  Inv'
<1>1. PICK form \in Forms, step \in Steps :
        \E new \in {sets, <<sets[1] + 1, sets[2]>>, <<sets[1] + 1, sets[2] + 1>>} :
          /\ new # sets => form \in {"sets", "aggregate"}
          /\ elapsed' = elapsed + step /\ sets' = new
          /\ feed' = AccessUnit(form, coded + 1, elapsed', new)
          /\ coded' = coded + (IF form = "slices" THEN 2 ELSE 1)
  BY DEF Send
<1>2. /\ sets' \in {sets, <<sets[1] + 1, sets[2]>>, <<sets[1] + 1, sets[2] + 1>>}
      /\ sets' # sets => form \in {"sets", "aggregate"}
      /\ elapsed' = elapsed + step
      /\ feed' = AccessUnit(form, coded + 1, elapsed', sets')
      /\ coded' = coded + (IF form = "slices" THEN 2 ELSE 1)
  BY <1>1
<1>3. feed = <<>> /\ UNCHANGED <<connection, base, out, origin, damaged, setsLost>>
  BY DEF Send
<1>4. /\ coded \in Nat /\ sets \in Versions /\ elapsed \in Int /\ step \in Int
  BY TicksAssumption DEF Inv, TypeOK
<1>5. sets' \in Versions
  <2>1. sets[1] \in Nat \ {0} /\ sets[2] \in Nat \ {0}
    BY <1>4 DEF Versions
  <2> QED BY <1>2, <1>4, <2>1 DEF Versions
<1>6. coded + 1 \in 1..coded' /\ coded' \in Nat /\ coded + 1 \in Nat /\ elapsed' \in Int
  BY <1>2, <1>4
<1>7. TypeOK'
  BY <1>3, <1>5, <1>6 DEF Inv, TypeOK, connection
<1> DEFINE u == AccessUnit(form, coded + 1, elapsed', sets')
<1>8. IsUnit(u, elapsed', sets', coded + 1)
  BY <1>6, UnitFacts
<1>9. FeedInv'
  <2> HIDE DEF u
  <2>1. u \in Seq(Range(u)) /\ Len(u) \in 1..3
    BY <1>8 DEF IsUnit
  <2>2. 1 \in 1..Len(u) /\ u = SubSeq(u, 1, Len(u))
    BY <2>1
  <2>3. feed' = SubSeq(u, 1, Len(u))
    BY <1>2, <2>2 DEF u
  <2>4. \E m \in 1..Len(u) : feed' = SubSeq(u, m, Len(u))
    BY <2>2, <2>3
  <2> QED BY <1>6, <2>4 DEF FeedInv, u
<1>10. PacketInv' /\ ClockInv'
  BY <1>3 DEF Inv, PacketInv, ClockInv, connection
<1>11. BufferInv'
  <2> HIDE DEF u
  <2>1. Head(u) = u[1] /\ ~Continues(u[1])
    BY <1>8 DEF IsUnit
  <2>2. ~Continues(Head(feed'))
    BY <1>2, <2>1 DEF u
  <2> QED BY <2>2 DEF BufferInv, Continues
<1>12. CodecInv'
  <2>1. sets' # sets => Pending("sps")' /\ Pending("pps")'
    <3>1. ASSUME form = "sets" PROVE Pending("sps")' /\ Pending("pps")'
      <4> DEFINE a == Block("rtp", <<Sps(sets'[1])>>, elapsed', sets')
                 b == Block("rtp", <<Pps(sets'[2])>>, elapsed', sets')
                 c == Block("rtp", <<Slice(coded + 1, TRUE)>>, elapsed', sets')
      <4>1. feed' = <<a, b, c>>
        <5>1. \A n, e, s : AccessUnit("sets", n, e, s) =
                <<Block("rtp", <<Sps(s[1])>>, e, s), Block("rtp", <<Pps(s[2])>>, e, s),
                  Block("rtp", <<Slice(n, n = 1 \/ "sets" \in {"sets", "aggregate"})>>, e, s)>>
          BY DEF AccessUnit
        <5>2. (coded + 1 = 1 \/ "sets" \in {"sets", "aggregate"}) = TRUE
          OBVIOUS
        <5> QED BY <1>2, <3>1, <5>1, <5>2
      <4>2. a.nals = <<Sps(sets'[1])>> /\ b.nals = <<Pps(sets'[2])>>
        BY DEF Block
      <4>3. Sps(sets'[1]).type = "sps" /\ Pps(sets'[2]).type = "pps"
        BY DEF Sps, Pps
      <4> HIDE DEF a, b, c
      <4>4. a \in Range(feed') /\ b \in Range(feed')
        BY <4>1 DEF Range
      <4>5. Has(a, "sps") /\ Has(b, "pps")
        BY <4>2, <4>3, HasOne
      <4> QED BY <4>4, <4>5 DEF Pending, Has
    <3>2. ASSUME form = "aggregate" PROVE Pending("sps")' /\ Pending("pps")'
      <4> DEFINE x == Sps(sets'[1])
                 y == Pps(sets'[2])
                 z == Slice(coded + 1, TRUE)
                 a == Block("rtp", <<x, y, z>>, elapsed', sets')
      <4>1. feed' = <<a>>
        <5>1. \A n, e, s : AccessUnit("aggregate", n, e, s) =
                <<Block("rtp", <<Sps(s[1]), Pps(s[2]),
                                 Slice(n, n = 1 \/ "aggregate" \in {"sets", "aggregate"})>>, e, s)>>
          BY DEF AccessUnit
        <5>2. (coded + 1 = 1 \/ "aggregate" \in {"sets", "aggregate"}) = TRUE
          OBVIOUS
        <5> QED BY <1>2, <3>2, <5>1, <5>2
      <4>2. a.nals = <<x, y, z>>
        BY DEF Block
      <4>3. x.type = "sps" /\ y.type = "pps"
        BY DEF Sps, Pps
      <4> HIDE DEF a, x, y, z
      <4>4. a \in Range(feed')
        BY <4>1 DEF Range
      <4>5. x \in Range(a.nals) /\ y \in Range(a.nals)
        BY <4>2 DEF Range
      <4> QED BY <4>3, <4>4, <4>5 DEF Pending
    <3> QED BY <1>2, <3>1, <3>2
  <2>2. sets' = sets => ~Pending("sps") /\ ~Pending("pps")
    BY <1>3 DEF Pending, Range
  <2>3. Told(track) => Told(track)'
    BY <1>3 DEF connection, Told
  <2>4. UNCHANGED <<handles, sdp, track, probing, setsLost>>
    BY <1>3 DEF connection
  <2> QED BY <2>1, <2>2, <2>3, <2>4 DEF Inv, CodecInv
<1> QED BY <1>7, <1>9, <1>10, <1>11, <1>12 DEF Inv

\* A probe ends without a packet of this track.
LEMMA OtherTrackStep ==
  ASSUME Inv, OtherTrack
  PROVE  Inv'
<1>1. /\ probing' = FALSE /\ track.codec # <<0, 0>>
      /\ UNCHANGED <<camera, handles, sdp, track, status, out, origin, damaged, setsLost>>
  BY DEF OtherTrack
<1>2. TypeOK'
  BY <1>1 DEF Inv, TypeOK, camera
<1>4. FeedInv' /\ PacketInv' /\ BufferInv' /\ ClockInv'
  BY <1>1 DEF Inv, FeedInv, PacketInv, BufferInv, ClockInv, camera
<1>3. CodecInv'
  BY <1>1 DEF Inv, CodecInv, Told, Pending, camera
<1> QED BY <1>2, <1>3, <1>4 DEF Inv

\* A new connection knows the sets of its SDP and no others.
LEMMA ReconnectStep ==
  ASSUME Inv, Reconnect
  PROVE  Inv'
<1>1. /\ sdp' = IF sdp = <<0, 0>> THEN sdp ELSE sets
      /\ track' = makeCodecData(FreshTrack, sdp')
      /\ feed' = <<>>
      /\ UNCHANGED <<handles, sets, elapsed, base, coded>>
  BY DEF Reconnect
<1>2. /\ probing' = (track'.codec = <<0, 0>>) /\ status' = "ok"
      /\ out' = <<>> /\ origin' = <<>> /\ damaged' = FALSE /\ setsLost' = FALSE
  BY DEF Reconnect, ResetHistory
<1>3. /\ sdp' \in {<<0, 0>>} \union Versions
      /\ sdp' # <<0, 0>> => sdp' = sets
  BY <1>1 DEF Inv, TypeOK
<1>4. /\ track' \in Tracks /\ ~track'.gotpkt /\ track'.pkt = FreshTrack.pkt
      /\ track'.firsttimestamp = 0
      /\ sdp' # <<0, 0>> => /\ track'.sps = sdp'[1] /\ track'.pps = sdp'[2]
                            /\ track'.sps # 0 /\ track'.pps # 0
      /\ sdp' = <<0, 0>> => track'.sps = 0 /\ track'.pps = 0
      /\ Told(track')
  BY <1>1, <1>3, ConnectedFacts
<1>5. TypeOK'
  <2>1. probing' \in BOOLEAN
    BY <1>2
  <2>2. out' \in Seq(Handed) /\ origin' \in {<<>>} \union Int \X Int
    BY <1>2
  <2> QED BY <1>1, <1>2, <1>3, <1>4, <2>1, <2>2 DEF Inv, TypeOK
<1>6. FeedInv' /\ PacketInv' /\ BufferInv' /\ ClockInv'
  BY <1>1, <1>2, <1>4 DEF FeedInv, PacketInv, BufferInv, ClockInv, FreshTrack
<1>7. CodecInv'
  <2>1. Told(track)'
    BY <1>4 DEF Told
  <2>2. (probing \/ track.codec # <<0, 0>>)'
    BY <1>2
  <2>3. track'.sps \in {0, sets'[1]} /\ track'.pps \in {0, sets'[2]}
    BY <1>1, <1>3, <1>4
  <2> QED BY <2>1, <2>2, <2>3 DEF CodecInv
<1> QED BY <1>5, <1>6, <1>7 DEF Inv

\* HandleCodecDataChange makes a codec of the sets at hand.
LEMMA HandleStep ==
  ASSUME Inv, HandleCodecDataChange
  PROVE  Inv'
<1> DEFINE m == makeCodecData(track, sdp)
<1>1. /\ track' = [m EXCEPT !.spsChanged = FALSE, !.ppsChanged = FALSE]
      /\ status = "codecChange" /\ status' = "ok" /\ handles
      /\ UNCHANGED <<camera, handles, sdp, probing, out, origin, damaged, setsLost>>
  BY DEF HandleCodecDataChange
<1>2. /\ m \in Tracks /\ SlicesKept(m, track) /\ TimesKept(m, track)
      /\ sdp # <<0, 0>> => m.sps # 0 /\ m.pps # 0
      /\ sdp = <<0, 0>> =>
           /\ m.sps = track.sps /\ m.pps = track.pps
           /\ m.codec = IF track.sps # 0 /\ track.pps # 0 THEN <<track.sps, track.pps>> ELSE track.codec
  BY MakeCodecDataFacts DEF Inv, TypeOK
<1> HIDE DEF m
<1>3. /\ track' \in Tracks /\ SlicesKept(track', track) /\ TimesKept(track', track)
      /\ track'.sps = m.sps /\ track'.pps = m.pps /\ track'.codec = m.codec
  BY <1>1, <1>2 DEF Tracks, SlicesKept, TimesKept
<1>4. TypeOK'
  BY <1>1, <1>2, <1>3 DEF Inv, TypeOK, camera
<1>5. FeedInv' /\ PacketInv' /\ BufferInv' /\ ClockInv'
  BY <1>1, <1>3 DEF Inv, FeedInv, PacketInv, BufferInv, ClockInv, camera, SlicesKept, TimesKept
<1>6. CodecInv'
  <2> SUFFICES ASSUME sdp = <<0, 0>>
               PROVE  /\ Told(track)'
                      /\ (probing \/ track.codec # <<0, 0>>)'
                      /\ ~setsLost => /\ Pending("sps")' \/ track'.sps \in {0, sets[1]}
                                      /\ Pending("pps")' \/ track'.pps \in {0, sets[2]}
    BY <1>1, Zenon DEF CodecInv, camera
  <2>1. /\ Told(track) /\ (probing \/ track.codec # <<0, 0>>)
        /\ ~setsLost => /\ Pending("sps") \/ track.sps \in {0, sets[1]}
                        /\ Pending("pps") \/ track.pps \in {0, sets[2]}
    BY DEF Inv, CodecInv
  <2>2. Pending("sps")' = Pending("sps") /\ Pending("pps")' = Pending("pps")
    BY <1>1 DEF Pending, camera
  <2>3. /\ track'.sps = track.sps /\ track'.pps = track.pps
        /\ track.sps # 0 /\ track.pps # 0 => track'.codec[1] = track.sps /\ track'.codec[2] = track.pps
        /\ track.sps = 0 \/ track.pps = 0 => track'.codec = track.codec
        /\ track.codec # <<0, 0>> => track'.codec # <<0, 0>>
    BY <1>2, <1>3
  <2>4. Told(track)'
    BY <2>1, <2>3 DEF Told
  <2> QED BY <1>1, <2>1, <2>2, <2>3, <2>4
<1> QED BY <1>4, <1>5, <1>6 DEF Inv

\* Every packet handed out so far is as it should be.
GoodInv == \A p \in Range(out) : Good(p, origin[1])

\* A step that hands out nothing.
LEMMA GoodKept ==
  ASSUME GoodInv, UNCHANGED <<out, base, handles, sdp>>,
         out = <<>> \/ origin'[1] = origin[1]
  PROVE  GoodInv'
<1>1. CASE out = <<>>
  BY <1>1 DEF GoodInv, Range
<1>2. CASE origin'[1] = origin[1]
  BY <1>2 DEF GoodInv, Good
<1> QED BY <1>1, <1>2

\* Every step keeps the invariant and hands out only what is as it should be.
LEMMA Step == Inv /\ GoodInv /\ [Next]_vars => Inv' /\ GoodInv'
<1> SUFFICES ASSUME Inv, GoodInv, [Next]_vars PROVE Inv' /\ GoodInv'
  OBVIOUS
<1>1. CASE Send
  BY <1>1, SendStep, GoodKept DEF Send, connection
<1>2. CASE OtherTrack
  BY <1>2, OtherTrackStep, GoodKept DEF OtherTrack, camera
<1>3. CASE Reconnect
  <2>1. GoodInv'
    BY <1>3 DEF Reconnect, ResetHistory, GoodInv, Range
  <2> QED BY <1>3, <2>1, ReconnectStep
<1>4. CASE HandleCodecDataChange
  BY <1>4, HandleStep, GoodKept DEF HandleCodecDataChange, camera
<1>5. ASSUME NEW b \in Range(feed), Read(b) PROVE Inv' /\ GoodInv'
  <2>1. CASE Refuse(b)
    <3>1. Inv'
      BY <2>1, LostStep DEF Refuse
    <3>2. GoodInv'
      BY <2>1, GoodKept DEF Refuse, Lost, Rest
    <3> QED BY <3>1, <3>2
  <2>2. CASE Swallow(b)
    <3>1. Inv'
      BY <2>2, LostStep DEF Swallow, Inv, TypeOK
    <3>2. GoodInv'
      BY <2>2, GoodKept DEF Swallow, Lost, Rest
    <3> QED BY <3>1, <3>2
  <2>3. CASE CodecChanged(b)
    <3>1. GoodInv'
      BY <2>3, GoodKept DEF CodecChanged, Accept, Rest
    <3> QED BY <2>3, <3>1, CodecChangedStep
  <2>4. CASE Unsupported(b)
    <3>1. GoodInv'
      BY <2>4, GoodKept DEF Unsupported, Arrived, Accept, Rest
    <3> QED BY <2>4, <3>1, UnsupportedStep
  <2>5. CASE NoPacket(b)
    <3>1. GoodInv'
      BY <2>5, GoodKept DEF NoPacket, Arrived, Accept, Rest
    <3> QED BY <2>5, <3>1, NoPacketStep
  <2>6. CASE Packet(b)
    <3>1. /\ Inv'
          /\ \/ out' = out
             \/ /\ origin' # <<>>
                /\ \E p \in Handed : out' = Append(out, p) /\ Good(p, origin'[1])
          /\ origin # <<>> => origin'[1] = origin[1]
          /\ UNCHANGED <<base, handles, sdp>>
      BY <2>6, PacketStep
    <3>2. origin = <<>> => out = <<>>
      BY DEF Inv, ClockInv
    <3>3. CASE out' = out
      BY <3>1, <3>2, <3>3, GoodKept
    <3>4. CASE \E p \in Handed : out' = Append(out, p) /\ Good(p, origin'[1])
      <4> PICK p \in Handed : out' = Append(out, p) /\ Good(p, origin'[1])
        BY <3>4
      <4>1. Range(out') = Range(out) \union {p}
        <5>1. out \in Seq(Handed) /\ out' = Append(out, p)
          BY DEF Inv, TypeOK
        <5> QED BY <5>1, RangeConcatenation, AppendIsConcat DEF Range
      <4>2. \A q \in Range(out) : Good(q, origin'[1])
        <5>1. CASE out = <<>>
          BY <5>1 DEF Range
        <5>2. CASE out # <<>>
          BY <3>1, <3>2, <5>2 DEF GoodInv
        <5> QED BY <5>1, <5>2
      <4>3. \A q \in Range(out') : Good(q, origin'[1])
        BY <4>1, <4>2
      <4> QED BY <3>1, <4>3 DEF GoodInv, Good
    <3> QED BY <3>1, <3>3, <3>4
  <2> QED BY <1>5, <2>1, <2>2, <2>3, <2>4, <2>5, <2>6 DEF Read
<1>6. CASE UNCHANGED vars
  <2>1. UNCHANGED <<handles, sdp, track, probing, status, sets, elapsed, base,
                    coded, feed, out, origin, damaged, setsLost>>
    BY <1>6 DEF vars, connection, camera
  <2>2. TypeOK' /\ FeedInv' /\ PacketInv'
    BY <2>1 DEF Inv, TypeOK, FeedInv, PacketInv
  <2>3. BufferInv' /\ ClockInv' /\ CodecInv'
    BY <2>1 DEF Inv, BufferInv, ClockInv, CodecInv, Told, Pending
  <2>4. GoodInv'
    BY <2>1, GoodKept
  <2> QED BY <2>2, <2>3, <2>4 DEF Inv
<1> QED BY <1>1, <1>2, <1>3, <1>4, <1>5, <1>6 DEF Next

\* Nothing was handed out yet.
LEMMA GoodFromStart == Init => GoodInv
  BY DEF Init, GoodInv, Range

\* Both hold always.
LEMMA Invariant == Spec => [](Inv /\ GoodInv)
  BY InitInv, GoodFromStart, Step, PTL DEF Spec

\* Between any two blocks the track, the blocks under way and what was lost fit
\* together: a fragment that goes on finds the parts before it, times count from
\* the first packet, and the codec is that of the sets or a change is noted.
THEOREM TypeCorrect ==
  Spec => [](TypeOK /\ FeedInv /\ PacketInv /\ BufferInv /\ ClockInv /\ CodecInv)
<1>1. Inv => TypeOK /\ FeedInv /\ PacketInv /\ BufferInv /\ ClockInv /\ CodecInv
  BY DEF Inv
<1> QED BY <1>1, Invariant, PTL

\* Every packet the client hands out is one slice, whole and in order, with its own
\* key flag, unless a block was lost since a slice last began.
THEOREM PacketsAreSlices == Spec => []SlicesWhole
<1>1. GoodInv => SlicesWhole
  BY DEF GoodInv, Good, SlicesWhole
<1> QED BY <1>1, Invariant, PTL

\* A packet's time is the camera's since the first packet of the connection, however
\* often the 32 bits wrap and whatever parseBlockHeader refused.
THEOREM TimesFromFirstPacket == Spec => []TimesExact
<1>1. GoodInv => TimesExact
  BY DEF GoodInv, Good, TimesExact
<1> QED BY <1>1, Invariant, PTL

\* After both parameter sets have changed, isCodecDataChange lets no packet of the
\* new ones out under the old codec, unless a set was lost or came with the packet.
THEOREM ChangesAreNoticed == Spec => []ChangeNoticed
<1>1. GoodInv => ChangeNoticed
  BY DEF GoodInv, Good, Noticed, ChangeNoticed
<1> QED BY <1>1, Invariant, PTL
=============================================================================
