----------------------------- MODULE Mp4fMuxer -----------------------------
(***************************************************************************)
(* The fragmenting muxer of format/mp4f/muxer.go: a packet goes into the   *)
(* open fragment of its track, and the call that fills the fragment        *)
(* returns it.  One goroutine owns a muxer, so a call is a step.           *)
(*                                                                         *)
(* Packet times are in units of 1/Unit second, decode times in units of    *)
(* 1/Scale second, as 10^9 and 90000 are.  A packet's data is its number   *)
(* in its track.  The bytes of the boxes are left out, and so are          *)
(* WritePacket4, Finalize and SetIndex, which nothing calls.               *)
(***************************************************************************)
EXTENDS Integers, Sequences

CONSTANTS
  MaxFrames,    \* the 5 WritePacket passes on
  Scale,        \* time scale of each track
  Unit,         \* units of packet time in a second
  Gaps,         \* time from a track's packet to its next one
  GOP,          \* arguments of WritePacket in use
  MayRestart,   \* whether the packets' clock may start again
  Wrap,         \* 2^32, the range of a duration
  MaxPackets,   \* bound on the packets of a track, one less after a new header
  MaxHeaders    \* bound on the calls of WriteHeader

Tracks == DOMAIN Scale
\* The tracks up to one whose codec newStream refuses, or all.
Accepted == {S \in SUBSET Tracks : \A k \in S, j \in Tracks : j < k => j \in S}

ASSUME MaxFramesAssumption == MaxFrames \in Nat
ASSUME TracksAssumption == Tracks \subseteq Nat
ASSUME ScaleAssumption == Scale \in [Tracks -> Nat \ {0}]
ASSUME UnitAssumption == Unit \in Nat \ {0}
ASSUME GapsAssumption == Gaps \subseteq Nat
ASSUME SwitchAssumption == GOP \subseteq BOOLEAN /\ MayRestart \in BOOLEAN
ASSUME WrapAssumption == Wrap \in Nat \ {0}
ASSUME BoundsAssumption == MaxPackets \in Nat /\ MaxHeaders \in Nat

VARIABLES
  fragmentIndex, streams,   \* Muxer; its streams are those of these tracks
  sampleIndex, dts, lastpkt, moof, buffer,   \* Stream, of each track
  clock,           \* time of each track's last packet, by its sender
  first, written,  \* history, since the header: first time, packets of a track,
  sent, fragments, \*   the samples and the fragments that were returned
  headers          \* history: calls of WriteHeader
streamVars == <<sampleIndex, dts, lastpkt, moof, buffer>>
history == <<first, written, sent, fragments, headers>>
vars == <<fragmentIndex, streams, streamVars, clock, history>>

NoPacket == -1
NoMoof == [seqnum |-> 0, time |-> 0, entries |-> <<>>]

\* newStream for every codec, until one is refused.
FreshStreams ==
  /\ streams' \in Accepted
  /\ sampleIndex' = [k \in Tracks |-> 0]
  /\ dts' = [k \in Tracks |-> 0]
  /\ lastpkt' = [k \in Tracks |-> NoPacket]
  /\ moof' = [k \in Tracks |-> NoMoof]
  /\ buffer' = [k \in Tracks |-> <<>>]

Init ==
  /\ streams \in Accepted
  /\ fragmentIndex = 0
  /\ sampleIndex = [k \in Tracks |-> 0]
  /\ dts = [k \in Tracks |-> 0]
  /\ lastpkt = [k \in Tracks |-> NoPacket]
  /\ moof = [k \in Tracks |-> NoMoof]
  /\ buffer = [k \in Tracks |-> <<>>]
  /\ clock = [k \in Tracks |-> 0]
  /\ first = [k \in Tracks |-> NoPacket]
  /\ written = [k \in Tracks |-> 0]
  /\ sent = [k \in Tracks |-> <<>>]
  /\ fragments = [k \in Tracks |-> <<>>]
  /\ headers = 0

\* timeToTs: Go's division drops the fraction.
timeToTs(k, tm) ==
  IF tm >= 0 THEN (tm * Scale[k]) \div Unit ELSE -((-tm * Scale[k]) \div Unit)

\* Mutant: the distance to the first packet.
rawdur_FromFirst(k, t) == IF lastpkt[k] = NoPacket THEN 0 ELSE t - first[k]

rawdur(k, t) == IF lastpkt[k] = NoPacket THEN 0 ELSE t - lastpkt[k]

\* Mutant: the fragment begins where its first sample ends up.
Started_Presented(k, index) ==
  [seqnum |-> index + 1, time |-> clock[k], entries |-> <<>>]

\* The fragment a first sample opens, with the index of the moment.
Started(k, index) == [seqnum |-> index + 1, time |-> dts[k], entries |-> <<>>]

\* What is appended to the run, and to the data.
Entry(k, t) == timeToTs(k, rawdur(k, t)) % Wrap
Sample(k) == written[k] + 1

Full(n) == n > MaxFrames

\* The run and the data with the sample, in the open fragment or a new one.
Run(k, t) ==
  LET m == IF sampleIndex[k] = 0 THEN Started(k, fragmentIndex) ELSE moof[k]
  IN  [m EXCEPT !.entries = Append(@, Entry(k, t))]
Mdat(k) == IF sampleIndex[k] = 0 THEN <<Sample(k)>> ELSE Append(buffer[k], Sample(k))

Send(k, m, b) ==
  /\ fragments' = [fragments EXCEPT ![k] = Append(@, [moof |-> m, data |-> b])]
  /\ sent' = [sent EXCEPT ![k] = @ \o b]

Arrives(k, t) ==
  /\ k \in streams
  /\ written[k] + headers < MaxPackets
  /\ clock' = [clock EXCEPT ![k] = t]
  /\ lastpkt' = [lastpkt EXCEPT ![k] = t]
  /\ dts' = [dts EXCEPT ![k] = @ + timeToTs(k, rawdur(k, t))]
  /\ first' = [first EXCEPT ![k] = IF @ = NoPacket THEN t ELSE @]
  /\ written' = [written EXCEPT ![k] = @ + 1]
  /\ UNCHANGED <<headers, streams>>

-----------------------------------------------------------------------------

\* The sample goes in, and a full fragment is returned at once.
writePacketV2(k, t) ==
  LET full == Full(sampleIndex[k] + 1) IN
  /\ Arrives(k, t)
  /\ moof' = [moof EXCEPT ![k] = Run(k, t)]
  /\ buffer' = [buffer EXCEPT ![k] = Mdat(k)]
  /\ sampleIndex' = [sampleIndex EXCEPT ![k] = IF full THEN 0 ELSE @ + 1]
  /\ fragmentIndex' = fragmentIndex + IF full THEN 1 ELSE 0
  /\ IF full THEN Send(k, Run(k, t), Mdat(k)) ELSE UNCHANGED <<sent, fragments>>

\* Mutant: the key frame still goes into the fragment it closes.
writePacketV3_KeyLast(k, t, key) ==
  LET flush == Full(sampleIndex[k]) /\ key IN
  /\ Arrives(k, t)
  /\ moof' = [moof EXCEPT ![k] = Run(k, t)]
  /\ buffer' = [buffer EXCEPT ![k] = Mdat(k)]
  /\ sampleIndex' = [sampleIndex EXCEPT ![k] = IF flush THEN 0 ELSE @ + 1]
  /\ fragmentIndex' = fragmentIndex + IF flush THEN 1 ELSE 0
  /\ IF flush THEN Send(k, moof[k], buffer[k]) ELSE UNCHANGED <<sent, fragments>>

\* A key frame that finds the fragment full has it returned and opens the next.
writePacketV3(k, t, key) ==
  LET flush == Full(sampleIndex[k]) /\ key
      index == fragmentIndex + IF flush THEN 1 ELSE 0
      opens == flush \/ sampleIndex[k] = 0
      start == IF opens THEN Started(k, index) ELSE moof[k]
  IN  /\ Arrives(k, t)
      /\ moof' = [moof EXCEPT ![k] = [start EXCEPT !.entries = Append(@, Entry(k, t))]]
      /\ buffer' = [buffer EXCEPT ![k] = IF opens THEN <<Sample(k)>> ELSE Append(@, Sample(k))]
      /\ sampleIndex' = [sampleIndex EXCEPT ![k] = IF opens THEN 1 ELSE @ + 1]
      /\ fragmentIndex' = index
      /\ IF flush THEN Send(k, moof[k], buffer[k]) ELSE UNCHANGED <<sent, fragments>>

WritePacket(k, t) ==
  \/ FALSE \in GOP /\ writePacketV2(k, t)
  \/ TRUE \in GOP /\ \E key \in BOOLEAN : writePacketV3(k, t, key)

\* A new header, refused at a codec or not, drops the open fragments and keeps the index.
WriteHeader ==
  /\ headers < MaxHeaders
  /\ headers' = headers + 1
  /\ FreshStreams
  /\ first' = [k \in Tracks |-> NoPacket]
  /\ written' = [k \in Tracks |-> 0]
  /\ sent' = [k \in Tracks |-> <<>>]
  /\ fragments' = [k \in Tracks |-> <<>>]
  /\ UNCHANGED <<fragmentIndex, clock>>

\* The sender: the next packet of a track, or of a new connection to the
\* camera, whose clock begins at 0.
Next ==
  \/ \E k \in Tracks, d \in Gaps : WritePacket(k, clock[k] + d)
  \/ MayRestart /\ \E k \in Tracks : clock[k] > 0 /\ WritePacket(k, 0)
  \/ WriteHeader

Spec == Init /\ [][Next]_vars

-----------------------------------------------------------------------------
(* Types of the muxer's state; an open fragment has a duration for each of
   its samples. *)
TypeOK ==
  /\ fragmentIndex \in Nat
  /\ sampleIndex \in [Tracks -> Nat]
  /\ dts \in [Tracks -> Int]
  /\ lastpkt \in [Tracks -> Nat \union {NoPacket}]
  /\ \A k \in Tracks :
       /\ Len(moof[k].entries) = Len(buffer[k])
       /\ sampleIndex[k] \in {0, Len(buffer[k])}

Open(k) == IF sampleIndex[k] = 0 THEN <<>> ELSE buffer[k]
(* Every packet since the header is in one fragment, in order, returned or
   open (writePacketV2 and V3, sampleIndex and buffer). *)
EverySampleOnce ==
  \A k \in Tracks : sent[k] \o Open(k) = [i \in 1..written[k] |-> i]

Total(s) ==
  LET sum[n \in 0..Len(s)] == IF n = 0 THEN 0 ELSE sum[n - 1] + s[n]
  IN  sum[Len(s)]

(* The fragments of a track tile its time: each begins where the durations of
   the one before end, until the camera's clock starts again and a duration
   wraps (moof.Tracks[0].DecodeTime and Run.Entries). *)
FragmentsTile ==
  \A k \in Tracks :
    LET all == fragments[k] \o IF sampleIndex[k] = 0 THEN <<>>
                               ELSE <<[moof |-> moof[k], data |-> buffer[k]]>>
    IN  \A i \in DOMAIN all \ {1} :
          (all[i].moof.time - all[i - 1].moof.time - Total(all[i - 1].moof.entries)) % Wrap = 0

(* The decode time of a track runs behind its packets by less than a tick a
   packet, restarted clocks included: no more is lost to rounding (dts). *)
DriftBounded ==
  \A k \in Tracks : written[k] > 0 =>
    LET exact == (lastpkt[k] - first[k]) * Scale[k]
        drift == exact - dts[k] * Unit
    IN  IF MayRestart THEN -written[k] * Unit < drift /\ drift < written[k] * Unit
        ELSE 0 <= drift /\ drift < written[k] * Unit

(* The sequence numbers a track's client sees grow, although the tracks share
   the index and WriteHeader keeps it (fragmentIndex and Seqnum). *)
SeqnumsGrow ==
  \A k \in Tracks :
    /\ \A i \in DOMAIN fragments[k] \ {1} :
         fragments[k][i - 1].moof.seqnum < fragments[k][i].moof.seqnum
    /\ \A i \in DOMAIN fragments[k] : fragments[k][i].moof.seqnum <= fragmentIndex

=============================================================================
