-------------------------- MODULE Mp4fMuxerProofs --------------------------
(***************************************************************************)
(* Proofs about Mp4fMuxer for any tracks, time scales and packet times:    *)
(* every sample is in exactly one fragment, a track's sequence numbers     *)
(* grow although all tracks draw them from one index, its decode time      *)
(* keeps up with its packets, and its fragments tile that time.            *)
(*                                                                         *)
(* The invariants add to the properties what is known of the fragment that *)
(* is still open: it holds the samples that are not sent, its number is    *)
(* beyond those of the track's fragments, and its durations end at the     *)
(* decode time of the track.                                               *)
(***************************************************************************)
EXTENDS Mp4fMuxer, SequenceTheorems, WellFoundedInduction, TLAPS

Moofs == [seqnum : Nat, time : Int, entries : Seq(Int)]
Returned == [moof : Moofs, data : Seq(Nat)]

MuxType ==
  /\ fragmentIndex \in Nat
  /\ sampleIndex \in [Tracks -> Nat]
  /\ dts \in [Tracks -> Int]
  /\ lastpkt \in [Tracks -> Nat \union {NoPacket}]
  /\ moof \in [Tracks -> Moofs]
  /\ buffer \in [Tracks -> Seq(Nat)]
  /\ clock \in [Tracks -> Nat]
  /\ written \in [Tracks -> Nat]
  /\ sent \in [Tracks -> Seq(Nat)]
  /\ fragments \in [Tracks -> Seq(Returned)]

OpenInv ==
  \A k \in Tracks :
    /\ Len(moof[k].entries) = Len(buffer[k])
    /\ sampleIndex[k] \in {0, Len(buffer[k])}

SeqInv ==
  \A k \in Tracks :
    /\ \A i, j \in DOMAIN fragments[k] :
         i < j => fragments[k][i].moof.seqnum < fragments[k][j].moof.seqnum
    /\ \A i \in DOMAIN fragments[k] : fragments[k][i].moof.seqnum <= fragmentIndex
    /\ sampleIndex[k] # 0 =>
         /\ moof[k].seqnum <= fragmentIndex + 1
         /\ \A i \in DOMAIN fragments[k] : fragments[k][i].moof.seqnum < moof[k].seqnum

MuxInv == MuxType /\ OpenInv /\ EverySampleOnce /\ SeqInv

USE MaxFramesAssumption, ScaleAssumption, UnitAssumption, GapsAssumption,
    SwitchAssumption, WrapAssumption, BoundsAssumption

-----------------------------------------------------------------------------
LEMMA ConcatNat ==
  ASSUME NEW s \in Seq(Nat), NEW b \in Seq(Nat)
  PROVE  /\ Len(s) \in Nat /\ Len(b) \in Nat
         /\ s \o b \in Seq(Nat)
         /\ DOMAIN (s \o b) = 1..Len(s) + Len(b)
         /\ \A i \in 1..Len(s) : (s \o b)[i] = s[i]
         /\ \A i \in 1..Len(b) : (s \o b)[Len(s) + i] = b[i]
  OBVIOUS

\* Appending the next number to a part of 1..n gives 1..n + 1.
LEMMA NextSample ==
  ASSUME NEW n \in Nat, NEW s \in Seq(Nat), NEW b \in Seq(Nat),
         s \o b = [i \in 1..n |-> i]
  PROVE  s \o Append(b, n + 1) = [i \in 1..n + 1 |-> i]
<1> DEFINE c == Append(b, n + 1)
           g == s \o b
           t == s \o c
<1>1. /\ c \in Seq(Nat) /\ Len(c) = Len(b) + 1
      /\ \A i \in 1..Len(b) : c[i] = b[i]
      /\ c[Len(b) + 1] = n + 1
  BY AppendProperties
<1> HIDE DEF c
<1>2. /\ Len(s) \in Nat /\ Len(b) \in Nat
      /\ DOMAIN g = 1..Len(s) + Len(b)
      /\ \A i \in 1..Len(s) : g[i] = s[i]
      /\ \A i \in 1..Len(b) : g[Len(s) + i] = b[i]
  BY ConcatNat, Zenon
<1>3. g = [i \in 1..n |-> i]
  OBVIOUS
<1>4. /\ DOMAIN t = 1..Len(s) + Len(c)
      /\ t \in Seq(Nat)
      /\ \A i \in 1..Len(s) : t[i] = s[i]
      /\ \A i \in 1..Len(c) : t[Len(s) + i] = c[i]
  BY <1>1, ConcatNat, Zenon
<1> HIDE DEF g, t
<1>5. t = [i \in DOMAIN t |-> t[i]]
  BY <1>4
<1>6. Len(s) + Len(b) = n
  <2>1. 1..n = 1..Len(s) + Len(b)
    BY <1>2, <1>3
  <2> QED BY <1>2, <2>1
<1>7. ASSUME NEW i \in 1..n + 1 PROVE t[i] = i
  <2>1. CASE i \in 1..Len(s)
    <3>1. g[i] = i
      BY <1>2, <1>3, <1>6, <2>1
    <3> QED BY <1>2, <1>4, <2>1, <3>1
  <2>2. CASE i \in Len(s) + 1..n
    <3>1. g[i] = i
      BY <1>2, <1>3, <2>2
    <3>2. PICK j \in 1..Len(b) : i = Len(s) + j
      <4>1. i - Len(s) \in 1..Len(b) /\ i = Len(s) + (i - Len(s))
        BY <1>2, <1>6, <2>2
      <4> QED BY <4>1
    <3>3. j \in 1..Len(c)
      BY <1>1, <1>2
    <3> QED BY <1>1, <1>2, <1>4, <3>1, <3>2, <3>3
  <2>3. CASE i = n + 1
    <3>1. Len(b) + 1 \in 1..Len(c) /\ i = Len(s) + (Len(b) + 1)
      BY <1>1, <1>2, <1>6, <2>3
    <3>2. t[Len(s) + (Len(b) + 1)] = c[Len(b) + 1]
      BY <1>4, <3>1
    <3> QED BY <1>1, <2>3, <3>1, <3>2
  <2> QED BY <1>2, <2>1, <2>2, <2>3
<1>8. DOMAIN t = 1..n + 1
  <2>1. Len(s) + Len(c) = n + 1
    <3>1. Len(c) = Len(b) + 1
      BY <1>1
    <3>2. Len(s) \in Nat /\ Len(b) \in Nat
      BY <1>2
    <3> DEFINE x == Len(s)
               y == Len(b)
               z == Len(c)
    <3>3. x \in Nat /\ y \in Nat /\ x + y = n /\ z = y + 1
      BY <1>6, <3>1, <3>2
    <3> HIDE DEF x, y, z
    <3>4. x + z = n + 1
      BY <3>3
    <3> QED BY <3>4 DEF x, z
  <2> QED BY <1>4, <2>1
<1>9. t = [i \in 1..n + 1 |-> i]
  BY <1>5, <1>7, <1>8
<1> QED
  BY <1>9 DEF t, c

\* Decode times are whole ticks.
LEMMA TicksAreInt ==
  ASSUME NEW k \in Tracks, NEW tm \in Int
  PROVE  timeToTs(k, tm) \in Int
<1>1. tm * Scale[k] \in Int /\ -tm * Scale[k] \in Int
  OBVIOUS
<1>2. (tm * Scale[k]) \div Unit \in Int /\ (-tm * Scale[k]) \div Unit \in Int
  BY <1>1
<1> QED
  BY <1>2 DEF timeToTs

\* What a packet brings: a tick count, an entry and the next sample.
LEMMA Arrival ==
  ASSUME MuxType, NEW k \in Tracks, NEW t \in Nat, Arrives(k, t)
  PROVE  /\ timeToTs(k, rawdur(k, t)) \in Int
         /\ Entry(k, t) \in Int
         /\ Sample(k) \in Nat
         /\ clock' \in [Tracks -> Nat]
         /\ lastpkt' \in [Tracks -> Nat \union {NoPacket}]
         /\ dts' \in [Tracks -> Int]
         /\ written' = [written EXCEPT ![k] = Sample(k)]
         /\ written' \in [Tracks -> Nat]
<1>1. rawdur(k, t) \in Int
  BY DEF rawdur, MuxType, NoPacket
<1>2. timeToTs(k, rawdur(k, t)) \in Int
  BY <1>1, TicksAreInt
<1>3. Entry(k, t) \in Int
  BY <1>2 DEF Entry
<1>4. Sample(k) \in Nat /\ written' = [written EXCEPT ![k] = Sample(k)]
  BY DEF Sample, MuxType, Arrives
<1>5. clock' \in [Tracks -> Nat] /\ lastpkt' \in [Tracks -> Nat \union {NoPacket}]
  BY DEF MuxType, Arrives
<1>6. dts' \in [Tracks -> Int]
  BY <1>2 DEF MuxType, Arrives
<1>7. written' \in [Tracks -> Nat]
  BY <1>4 DEF MuxType
<1> QED BY <1>2, <1>3, <1>4, <1>5, <1>6, <1>7

\* A new fragment, and the old one with one more sample, are well formed.
LEMMA GrownMoof ==
  ASSUME NEW m \in Moofs, NEW e \in Int
  PROVE  /\ [m EXCEPT !.entries = Append(@, e)] \in Moofs
         /\ [m EXCEPT !.entries = Append(@, e)].seqnum = m.seqnum
         /\ Len([m EXCEPT !.entries = Append(@, e)].entries) = Len(m.entries) + 1
<1> DEFINE es == Append(m.entries, e)
           g == [m EXCEPT !.entries = es]
<1>1. m.entries \in Seq(Int) /\ m.seqnum \in Nat /\ m.time \in Int
  BY DEF Moofs
<1>2. es \in Seq(Int) /\ Len(es) = Len(m.entries) + 1
  BY <1>1
<1> HIDE DEF es
<1>3. g \in Moofs /\ g.seqnum = m.seqnum /\ g.entries = es
  BY <1>2 DEF Moofs
<1> QED BY <1>2, <1>3 DEF es

LEMMA FreshMoof ==
  ASSUME MuxType, NEW k \in Tracks, NEW n \in Nat
  PROVE  /\ Started(k, n) \in Moofs
         /\ Started(k, n).seqnum = n + 1
         /\ Len(Started(k, n).entries) = 0
  BY DEF Started, MuxType, Moofs

LEMMA Seqnums ==
  ASSUME MuxType, NEW k \in Tracks
  PROVE  /\ moof[k].seqnum \in Nat
         /\ \A i \in DOMAIN fragments[k] : fragments[k][i].moof.seqnum \in Nat
<1>1. moof[k] \in Moofs /\ fragments[k] \in Seq(Returned)
  BY DEF MuxType
<1>2. ASSUME NEW i \in DOMAIN fragments[k] PROVE fragments[k][i] \in Returned
  BY <1>1
<1>3. \A r \in Returned : r.moof.seqnum \in Nat
  BY DEF Returned, Moofs
<1> QED BY <1>1, <1>2, <1>3 DEF Moofs

-----------------------------------------------------------------------------
\* The live path: into the open fragment, out when it is full.
LEMMA V2Step ==
  ASSUME MuxInv, NEW k \in Tracks, NEW t \in Nat, writePacketV2(k, t)
  PROVE  MuxInv'
<1> DEFINE full == Full(sampleIndex[k] + 1)
           m == Run(k, t)
           b == Mdat(k)
           start == IF sampleIndex[k] = 0 THEN Started(k, fragmentIndex) ELSE moof[k]
<1>1. MuxType /\ OpenInv /\ EverySampleOnce /\ SeqInv /\ Arrives(k, t)
  BY DEF MuxInv, writePacketV2
<1>2. /\ Entry(k, t) \in Int /\ Sample(k) \in Nat
      /\ clock' \in [Tracks -> Nat]
      /\ lastpkt' \in [Tracks -> Nat \union {NoPacket}]
      /\ dts' \in [Tracks -> Int]
      /\ written' = [written EXCEPT ![k] = Sample(k)]
      /\ written' \in [Tracks -> Nat]
  BY <1>1, Arrival
<1>3. start \in Moofs /\ start.seqnum <= fragmentIndex + 1
      /\ Len(start.entries) = sampleIndex[k]
      /\ \A i \in DOMAIN fragments[k] : fragments[k][i].moof.seqnum < start.seqnum
  <2>1. CASE sampleIndex[k] = 0
    <3>1. start = Started(k, fragmentIndex) /\ fragmentIndex \in Nat
      BY <1>1, <2>1 DEF MuxType
    <3>2. start \in Moofs /\ start.seqnum = fragmentIndex + 1 /\ Len(start.entries) = 0
      BY <1>1, <3>1, FreshMoof
    <3>3. \A i \in DOMAIN fragments[k] :
            fragments[k][i].moof.seqnum \in Nat /\ fragments[k][i].moof.seqnum <= fragmentIndex
      BY <1>1, Seqnums DEF SeqInv
    <3> QED BY <3>1, <3>2, <3>3, <2>1
  <2>2. CASE sampleIndex[k] # 0
    BY <1>1, <2>2 DEF SeqInv, OpenInv, MuxType
  <2> QED BY <2>1, <2>2
<1>4. m \in Moofs /\ m.seqnum = start.seqnum /\ Len(m.entries) = sampleIndex[k] + 1
  <2>1. m = [start EXCEPT !.entries = Append(@, Entry(k, t))]
    BY DEF Run
  <2> HIDE DEF start, m
  <2> QED BY <1>2, <1>3, <2>1, GrownMoof
<1>5. b \in Seq(Nat) /\ Len(b) = sampleIndex[k] + 1 /\ b = Append(Open(k), Sample(k))
  <2>1. CASE sampleIndex[k] = 0
    BY <1>1, <1>2, <2>1 DEF Mdat, Open
  <2>2. CASE sampleIndex[k] # 0
    BY <1>1, <1>2, <2>2 DEF Mdat, Open, OpenInv, MuxType
  <2> QED BY <2>1, <2>2
<1>6. /\ moof' = [moof EXCEPT ![k] = m]
      /\ buffer' = [buffer EXCEPT ![k] = b]
      /\ sampleIndex' = [sampleIndex EXCEPT ![k] = IF full THEN 0 ELSE @ + 1]
      /\ fragmentIndex' = fragmentIndex + (IF full THEN 1 ELSE 0)
      /\ sent' = [sent EXCEPT ![k] = IF full THEN @ \o b ELSE @]
      /\ fragments' = [fragments EXCEPT ![k] =
                         IF full THEN Append(@, [moof |-> m, data |-> b]) ELSE @]
  BY <1>1 DEF writePacketV2, Send, MuxType
<1> HIDE DEF full, m, b, start
<1>7. MuxType'
  <2>1. [moof |-> m, data |-> b] \in Returned
    BY <1>4, <1>5 DEF Returned
  <2>2. fragments' \in [Tracks -> Seq(Returned)]
    BY <1>1, <1>6, <2>1 DEF MuxType
  <2>3. sent' \in [Tracks -> Seq(Nat)]
    BY <1>1, <1>5, <1>6 DEF MuxType
  <2>4. moof' \in [Tracks -> Moofs] /\ buffer' \in [Tracks -> Seq(Nat)]
    BY <1>1, <1>4, <1>5, <1>6 DEF MuxType
  <2>5. sampleIndex' \in [Tracks -> Nat] /\ fragmentIndex' \in Nat
    BY <1>1, <1>6 DEF MuxType
  <2> QED BY <1>2, <2>2, <2>3, <2>4, <2>5 DEF MuxType
<1>8. OpenInv'
  <2>1. ASSUME NEW j \in Tracks
        PROVE  /\ Len(moof'[j].entries) = Len(buffer'[j])
               /\ sampleIndex'[j] \in {0, Len(buffer'[j])}
    <3>1. CASE j = k
      BY <1>1, <1>4, <1>5, <1>6, <3>1 DEF MuxType
    <3>2. CASE j # k
      BY <1>1, <1>6, <3>2 DEF MuxType, OpenInv
    <3> QED BY <3>1, <3>2
  <2> QED BY <2>1 DEF OpenInv
<1>9. EverySampleOnce'
  <2>1. ASSUME NEW j \in Tracks
        PROVE  sent'[j] \o Open(j)' = [i \in 1..written'[j] |-> i]
    <3>1. CASE j = k
      <4>1. sent[k] \o b = [i \in 1..written[k] + 1 |-> i]
        <5>1. Open(k) \in Seq(Nat) /\ sent[k] \in Seq(Nat) /\ written[k] \in Nat
          BY <1>1 DEF Open, MuxType
        <5>2. sent[k] \o Open(k) = [i \in 1..written[k] |-> i]
          BY <1>1 DEF EverySampleOnce
        <5>3. sent[k] \o Append(Open(k), written[k] + 1) = [i \in 1..written[k] + 1 |-> i]
          BY <5>1, <5>2, NextSample
        <5> QED BY <1>5, <5>3 DEF Sample
      <4>2. written'[k] = written[k] + 1
        BY <1>1, <1>2 DEF Sample, MuxType
      <4>3. sent[k] \in Seq(Nat)
        BY <1>1 DEF MuxType
      <4>4. CASE full
        <5>1. sent'[k] = sent[k] \o b /\ sampleIndex'[k] = 0
          BY <1>1, <1>6, <4>4 DEF MuxType
        <5>2. Open(k)' = <<>>
          BY <5>1 DEF Open
        <5>3. sent'[k] \o Open(k)' = sent[k] \o b
          BY <1>5, <4>3, <5>1, <5>2
        <5> QED BY <3>1, <4>1, <4>2, <5>3
      <4>5. CASE ~full
        <5>1. sent'[k] = sent[k] /\ sampleIndex'[k] # 0 /\ buffer'[k] = b
          BY <1>1, <1>6, <4>5 DEF MuxType
        <5>2. Open(k)' = b
          BY <5>1 DEF Open
        <5> QED BY <3>1, <4>1, <4>2, <5>1, <5>2
      <4> QED BY <4>4, <4>5
    <3>2. CASE j # k
      <4>1. sent'[j] = sent[j] /\ sampleIndex'[j] = sampleIndex[j] /\ buffer'[j] = buffer[j]
            /\ written'[j] = written[j]
        BY <1>1, <1>2, <1>6, <3>2 DEF MuxType
      <4>2. Open(j)' = Open(j)
        BY <4>1 DEF Open
      <4> QED BY <1>1, <4>1, <4>2 DEF EverySampleOnce
    <3> QED BY <3>1, <3>2
  <2> QED BY <2>1 DEF EverySampleOnce
<1>10. SeqInv'
  <2> DEFINE S(j) ==
               /\ \A i, l \in DOMAIN fragments[j] :
                    i < l => fragments[j][i].moof.seqnum < fragments[j][l].moof.seqnum
               /\ \A i \in DOMAIN fragments[j] : fragments[j][i].moof.seqnum <= fragmentIndex
               /\ sampleIndex[j] # 0 =>
                    /\ moof[j].seqnum <= fragmentIndex + 1
                    /\ \A i \in DOMAIN fragments[j] : fragments[j][i].moof.seqnum < moof[j].seqnum
  <2>0. \A j \in Tracks : S(j)
    BY <1>1 DEF SeqInv
  <2>1. \A j \in Tracks :
          /\ \A i \in DOMAIN fragments[j] : fragments[j][i].moof.seqnum \in Nat
          /\ moof[j].seqnum \in Nat
          /\ fragments[j] \in Seq(Returned)
    BY <1>1, Seqnums DEF MuxType
  <2>2. fragmentIndex \in Nat /\ m.seqnum \in Nat /\ m.seqnum <= fragmentIndex + 1
        /\ \A i \in DOMAIN fragments[k] : fragments[k][i].moof.seqnum < m.seqnum
    BY <1>1, <1>3, <1>4 DEF MuxType, Moofs
  <2>3. ASSUME NEW j \in Tracks PROVE S(j)'
    <3>1. CASE j # k
      <4>1. fragments'[j] = fragments[j] /\ sampleIndex'[j] = sampleIndex[j] /\ moof'[j] = moof[j]
        BY <1>1, <1>6, <3>1 DEF MuxType
      <4>2. fragmentIndex' \in Nat /\ fragmentIndex <= fragmentIndex'
        BY <1>6, <2>2
      <4> QED BY <2>0, <2>1, <2>2, <4>1, <4>2
    <3>2. CASE j = k /\ ~full
      <4>1. fragments'[k] = fragments[k] /\ fragmentIndex' = fragmentIndex /\ moof'[k] = m
        BY <1>1, <1>6, <3>2 DEF MuxType
      <4> QED BY <2>0, <2>1, <2>2, <3>2, <4>1
    <3>3. CASE j = k /\ full
      <4>1. /\ fragments'[k] = Append(fragments[k], [moof |-> m, data |-> b])
            /\ fragmentIndex' = fragmentIndex + 1 /\ sampleIndex'[k] = 0
        BY <1>1, <1>6, <3>3 DEF MuxType
      <4>2. /\ DOMAIN fragments'[k] = 1..Len(fragments[k]) + 1
            /\ Len(fragments[k]) \in Nat /\ DOMAIN fragments[k] = 1..Len(fragments[k])
            /\ \A i \in 1..Len(fragments[k]) : fragments'[k][i] = fragments[k][i]
            /\ fragments'[k][Len(fragments[k]) + 1].moof = m
        BY <2>1, <4>1
      <4>3. \A i \in DOMAIN fragments'[k] : fragments'[k][i].moof.seqnum <= fragmentIndex'
        BY <2>0, <2>1, <2>2, <4>1, <4>2
      <4>4. \A i, l \in DOMAIN fragments'[k] :
              i < l => fragments'[k][i].moof.seqnum < fragments'[k][l].moof.seqnum
        <5>1. ASSUME NEW i \in DOMAIN fragments'[k], NEW l \in DOMAIN fragments'[k], i < l
              PROVE  fragments'[k][i].moof.seqnum < fragments'[k][l].moof.seqnum
          <6>1. i \in DOMAIN fragments[k] /\ fragments'[k][i] = fragments[k][i]
            BY <4>2, <5>1
          <6>2. CASE l \in DOMAIN fragments[k]
            BY <2>0, <4>2, <5>1, <6>1, <6>2
          <6>3. CASE l \notin DOMAIN fragments[k]
            <7>1. fragments'[k][l].moof = m
              BY <4>2, <6>3
            <7> QED BY <2>2, <6>1, <7>1
          <6> QED BY <6>2, <6>3
        <5> QED BY <5>1
      <4> QED BY <3>3, <4>1, <4>3, <4>4
    <3> QED BY <3>1, <3>2, <3>3
  <2> QED BY <2>3 DEF SeqInv
<1> QED BY <1>7, <1>8, <1>9, <1>10 DEF MuxInv

-----------------------------------------------------------------------------
\* The other path: a key frame sends the full fragment and opens the next.
LEMMA V3Step ==
  ASSUME MuxInv, NEW k \in Tracks, NEW t \in Nat, NEW key \in BOOLEAN,
         writePacketV3(k, t, key)
  PROVE  MuxInv'
<1> DEFINE flush == Full(sampleIndex[k]) /\ key
           index == fragmentIndex + IF flush THEN 1 ELSE 0
           opens == flush \/ sampleIndex[k] = 0
           start == IF opens THEN Started(k, index) ELSE moof[k]
           m == [start EXCEPT !.entries = Append(@, Entry(k, t))]
           b == IF opens THEN <<Sample(k)>> ELSE Append(buffer[k], Sample(k))
           old == [moof |-> moof[k], data |-> buffer[k]]
<1>1. MuxType /\ OpenInv /\ EverySampleOnce /\ SeqInv /\ Arrives(k, t)
  BY DEF MuxInv, writePacketV3
<1>2. /\ Entry(k, t) \in Int /\ Sample(k) \in Nat
      /\ clock' \in [Tracks -> Nat]
      /\ lastpkt' \in [Tracks -> Nat \union {NoPacket}]
      /\ dts' \in [Tracks -> Int]
      /\ written' = [written EXCEPT ![k] = Sample(k)]
      /\ written' \in [Tracks -> Nat]
  BY <1>1, Arrival
<1>3. /\ moof' = [moof EXCEPT ![k] = m]
      /\ buffer' = [buffer EXCEPT ![k] = b]
      /\ sampleIndex' = [sampleIndex EXCEPT ![k] = IF opens THEN 1 ELSE @ + 1]
      /\ fragmentIndex' = index
      /\ sent' = [sent EXCEPT ![k] = IF flush THEN @ \o buffer[k] ELSE @]
      /\ fragments' = [fragments EXCEPT ![k] = IF flush THEN Append(@, old) ELSE @]
  BY <1>1 DEF writePacketV3, Send, MuxType
<1>4. flush => sampleIndex[k] # 0
  BY DEF Full
<1>5. index \in Nat /\ fragmentIndex \in Nat /\ fragmentIndex <= index
      /\ (flush => index = fragmentIndex + 1) /\ (~flush => index = fragmentIndex)
  BY <1>1 DEF MuxType
<1>6. moof[k] \in Moofs /\ buffer[k] \in Seq(Nat) /\ sampleIndex[k] \in Nat
      /\ Len(moof[k].entries) = Len(buffer[k])
      /\ (sampleIndex[k] # 0 => sampleIndex[k] = Len(buffer[k]))
  BY <1>1 DEF MuxType, OpenInv
<1>7. \A i \in DOMAIN fragments[k] :
        /\ fragments[k][i].moof.seqnum \in Nat
        /\ fragments[k][i].moof.seqnum <= fragmentIndex
  BY <1>1, Seqnums DEF SeqInv
<1>8. start \in Moofs /\ start.seqnum <= index + 1 /\ (opens => start.seqnum = index + 1)
      /\ (opens => Len(start.entries) = 0) /\ (~opens => start = moof[k])
  <2>1. CASE opens
    <3>1. start = Started(k, index)
      BY <2>1
    <3> HIDE DEF index
    <3>2. start \in Moofs /\ start.seqnum = index + 1 /\ Len(start.entries) = 0
      BY <1>1, <1>5, <3>1, FreshMoof
    <3> QED BY <1>5, <2>1, <3>2
  <2>2. CASE ~opens
    <3>1. start = moof[k] /\ ~flush /\ sampleIndex[k] # 0
      BY <2>2
    <3>2. moof[k].seqnum <= fragmentIndex + 1
      BY <1>1, <3>1 DEF SeqInv
    <3> QED BY <1>5, <1>6, <2>2, <3>1, <3>2
  <2> QED BY <2>1, <2>2
<1>9. m \in Moofs /\ m.seqnum = start.seqnum /\ Len(m.entries) = Len(start.entries) + 1
  <2> HIDE DEF start
  <2> QED BY <1>2, <1>8, GrownMoof
<1>10. b \in Seq(Nat) /\ Len(b) = Len(m.entries)
       /\ Len(b) = (IF opens THEN 1 ELSE sampleIndex[k] + 1)
  <2>1. CASE opens
    <3>1. b = <<Sample(k)>>
      BY <2>1
    <3> HIDE DEF b, m, start
    <3> QED BY <1>2, <1>8, <1>9, <2>1, <3>1
  <2>2. CASE ~opens
    <3>1. b = Append(buffer[k], Sample(k)) /\ sampleIndex[k] # 0
      BY <2>2
    <3>2. start = moof[k]
      BY <2>2
    <3> HIDE DEF b, m, start
    <3>3. b \in Seq(Nat) /\ Len(b) = Len(buffer[k]) + 1
      BY <1>2, <1>6, <3>1
    <3> QED BY <1>6, <1>9, <2>2, <3>1, <3>2, <3>3
  <2> QED BY <2>1, <2>2
<1>11. old \in Returned /\ old.moof = moof[k]
  BY <1>6 DEF Returned
<1>12. opens <=> flush \/ sampleIndex[k] = 0
  OBVIOUS
<1>13. b = (IF opens THEN <<Sample(k)>> ELSE Append(buffer[k], Sample(k)))
  OBVIOUS
<1>14. ~opens => m.seqnum = moof[k].seqnum
  BY <1>8, <1>9
<1> HIDE DEF flush, index, opens, start, m, b, old
<1>15. MuxType'
  <2>1. fragments' \in [Tracks -> Seq(Returned)]
    BY <1>1, <1>3, <1>11 DEF MuxType
  <2>2. sent' \in [Tracks -> Seq(Nat)]
    BY <1>1, <1>3, <1>6 DEF MuxType
  <2>3. moof' \in [Tracks -> Moofs] /\ buffer' \in [Tracks -> Seq(Nat)]
    BY <1>1, <1>3, <1>9, <1>10 DEF MuxType
  <2>4. sampleIndex' \in [Tracks -> Nat] /\ fragmentIndex' \in Nat
    BY <1>1, <1>3, <1>5 DEF MuxType
  <2> QED BY <1>2, <2>1, <2>2, <2>3, <2>4 DEF MuxType
<1>16. OpenInv'
  <2>1. ASSUME NEW j \in Tracks
        PROVE  /\ Len(moof'[j].entries) = Len(buffer'[j])
               /\ sampleIndex'[j] \in {0, Len(buffer'[j])}
    <3>1. CASE j = k
      BY <1>1, <1>3, <1>10, <3>1 DEF MuxType
    <3>2. CASE j # k
      BY <1>1, <1>3, <3>2 DEF MuxType, OpenInv
    <3> QED BY <3>1, <3>2
  <2> QED BY <2>1 DEF OpenInv
<1>17. EverySampleOnce'
  <2>1. ASSUME NEW j \in Tracks
        PROVE  sent'[j] \o Open(j)' = [i \in 1..written'[j] |-> i]
    <3>1. CASE j = k
      <4>1. Open(k) \in Seq(Nat) /\ sent[k] \in Seq(Nat) /\ written[k] \in Nat
            /\ sent[k] \o Open(k) = [i \in 1..written[k] |-> i]
            /\ Sample(k) = written[k] + 1
        <5>1. Open(k) \in Seq(Nat) /\ sent[k] \in Seq(Nat) /\ written[k] \in Nat
          BY <1>1 DEF Open, MuxType
        <5>2. sent[k] \o Open(k) = [i \in 1..written[k] |-> i]
          BY <1>1 DEF EverySampleOnce
        <5> QED BY <5>1, <5>2, Zenon DEF Sample
      <4>2. written'[k] = written[k] + 1
        BY <1>1, <1>2 DEF Sample, MuxType
      <4>3. Open(k)' = b
        <5>1. sampleIndex'[k] # 0 /\ buffer'[k] = b
          BY <1>1, <1>3, <1>6 DEF MuxType
        <5> QED BY <5>1 DEF Open
      <4>4. CASE flush
        <5>1. sent'[k] = sent[k] \o buffer[k] /\ Open(k) = buffer[k]
          BY <1>1, <1>3, <1>4, <4>4 DEF MuxType, Open
        <5>2. sent'[k] \in Seq(Nat) /\ sent'[k] = [i \in 1..written[k] |-> i]
              /\ sent'[k] \o <<>> = sent'[k]
          <6>1. sent'[k] \in Seq(Nat)
            BY <1>15 DEF MuxType
          <6> QED BY <4>1, <5>1, <6>1, ConcatEmptySeq
        <5>3. <<>> \in Seq(Nat) /\ Append(<<>>, written[k] + 1) = <<Sample(k)>>
          BY <4>1
        <5>4. sent'[k] \o Append(<<>>, written[k] + 1) = [i \in 1..written[k] + 1 |-> i]
          BY <4>1, <5>2, <5>3, NextSample
        <5>5. b = <<Sample(k)>>
          BY <1>12, <1>13, <4>4
        <5> QED BY <3>1, <4>2, <4>3, <5>3, <5>4, <5>5
      <4>5. CASE ~flush
        <5>1. sent'[k] = sent[k]
          BY <1>1, <1>3, <4>5 DEF MuxType
        <5>2. b = Append(Open(k), written[k] + 1)
          <6>1. CASE sampleIndex[k] = 0
            BY <1>12, <1>13, <4>1, <6>1 DEF Open
          <6>2. CASE sampleIndex[k] # 0
            BY <1>12, <1>13, <4>1, <4>5, <6>2 DEF Open
          <6> QED BY <6>1, <6>2
        <5>3. sent[k] \o Append(Open(k), written[k] + 1) = [i \in 1..written[k] + 1 |-> i]
          BY <4>1, NextSample
        <5> QED BY <3>1, <4>2, <4>3, <5>1, <5>2, <5>3
      <4> QED BY <4>4, <4>5
    <3>2. CASE j # k
      <4>1. sent'[j] = sent[j] /\ sampleIndex'[j] = sampleIndex[j] /\ buffer'[j] = buffer[j]
            /\ written'[j] = written[j]
        BY <1>1, <1>2, <1>3, <3>2 DEF MuxType
      <4>2. Open(j)' = Open(j)
        BY <4>1 DEF Open
      <4> QED BY <1>1, <4>1, <4>2 DEF EverySampleOnce
    <3> QED BY <3>1, <3>2
  <2> QED BY <2>1 DEF EverySampleOnce
<1>18. SeqInv'
  <2> DEFINE S(j) ==
               /\ \A i, l \in DOMAIN fragments[j] :
                    i < l => fragments[j][i].moof.seqnum < fragments[j][l].moof.seqnum
               /\ \A i \in DOMAIN fragments[j] : fragments[j][i].moof.seqnum <= fragmentIndex
               /\ sampleIndex[j] # 0 =>
                    /\ moof[j].seqnum <= fragmentIndex + 1
                    /\ \A i \in DOMAIN fragments[j] : fragments[j][i].moof.seqnum < moof[j].seqnum
  <2>0. \A j \in Tracks : S(j)
    BY <1>1 DEF SeqInv
  <2>1. \A j \in Tracks :
          /\ \A i \in DOMAIN fragments[j] : fragments[j][i].moof.seqnum \in Nat
          /\ moof[j].seqnum \in Nat
          /\ fragments[j] \in Seq(Returned)
    BY <1>1, Seqnums DEF MuxType
  <2>2. m.seqnum \in Nat /\ m.seqnum <= index + 1 /\ (opens => m.seqnum = index + 1)
    BY <1>8, <1>9 DEF Moofs
  <2>3. ASSUME NEW j \in Tracks PROVE S(j)'
    <3>1. CASE j # k
      <4>1. fragments'[j] = fragments[j] /\ sampleIndex'[j] = sampleIndex[j] /\ moof'[j] = moof[j]
            /\ fragmentIndex' = index
        BY <1>1, <1>3, <3>1 DEF MuxType
      <4> QED BY <1>5, <2>0, <2>1, <4>1
    <3>2. CASE j = k /\ ~flush
      <4>1. fragments'[k] = fragments[k] /\ fragmentIndex' = fragmentIndex /\ moof'[k] = m
        BY <1>1, <1>3, <1>5, <3>2 DEF MuxType
      <4>2. \A i \in DOMAIN fragments[k] : fragments[k][i].moof.seqnum < m.seqnum
        <5>1. CASE opens
          BY <1>5, <1>7, <2>2, <3>2, <5>1
        <5>2. CASE ~opens
          <6>1. sampleIndex[k] # 0 /\ m.seqnum = moof[k].seqnum
            BY <1>12, <1>14, <5>2
          <6> QED BY <2>0, <6>1
        <5> QED BY <5>1, <5>2
      <4> QED BY <1>5, <2>0, <2>1, <2>2, <3>2, <4>1, <4>2
    <3>3. CASE j = k /\ flush
      <4>1. /\ fragments'[k] = Append(fragments[k], old)
            /\ fragmentIndex' = fragmentIndex + 1 /\ moof'[k] = m
        BY <1>1, <1>3, <1>5, <3>3 DEF MuxType
      <4>2. /\ DOMAIN fragments'[k] = 1..Len(fragments[k]) + 1
            /\ Len(fragments[k]) \in Nat /\ DOMAIN fragments[k] = 1..Len(fragments[k])
            /\ \A i \in 1..Len(fragments[k]) : fragments'[k][i] = fragments[k][i]
            /\ fragments'[k][Len(fragments[k]) + 1].moof = moof[k]
        BY <1>11, <2>1, <4>1
      <4>3. /\ moof[k].seqnum <= fragmentIndex + 1 /\ moof[k].seqnum \in Nat
            /\ \A i \in DOMAIN fragments[k] : fragments[k][i].moof.seqnum < moof[k].seqnum
        BY <1>4, <2>0, <2>1, <3>3
      <4>4. \A i \in DOMAIN fragments'[k] : fragments'[k][i].moof.seqnum <= fragmentIndex'
        BY <1>5, <1>7, <4>1, <4>2, <4>3
      <4>5. ASSUME NEW i \in DOMAIN fragments'[k], NEW l \in DOMAIN fragments'[k], i < l
            PROVE  fragments'[k][i].moof.seqnum < fragments'[k][l].moof.seqnum
        <5>1. i \in DOMAIN fragments[k] /\ fragments'[k][i] = fragments[k][i]
          BY <4>2, <4>5
        <5>2. CASE l \in DOMAIN fragments[k]
          BY <2>0, <4>2, <4>5, <5>1, <5>2
        <5>3. CASE l \notin DOMAIN fragments[k]
          <6>1. fragments'[k][l].moof = moof[k]
            BY <4>2, <5>3
          <6> QED BY <4>3, <5>1, <6>1
        <5> QED BY <5>2, <5>3
      <4>6. \A i \in DOMAIN fragments'[k] : fragments'[k][i].moof.seqnum \in Nat
        <5>1. ASSUME NEW i \in DOMAIN fragments'[k]
              PROVE  fragments'[k][i].moof.seqnum \in Nat
          <6>1. CASE i \in DOMAIN fragments[k]
            BY <2>1, <4>2, <6>1
          <6>2. CASE i = Len(fragments[k]) + 1
            BY <4>2, <4>3, <6>2
          <6> QED BY <4>2, <6>1, <6>2
        <5> QED BY <5>1
      <4>7. m.seqnum = fragmentIndex' + 1
        BY <1>5, <1>12, <2>2, <3>3, <4>1
      <4>8. \A i \in DOMAIN fragments'[k] : fragments'[k][i].moof.seqnum < m.seqnum
        BY <1>5, <4>1, <4>4, <4>6, <4>7
      <4> QED BY <1>5, <3>3, <4>1, <4>4, <4>5, <4>7, <4>8
    <3> QED BY <3>1, <3>2, <3>3
  <2> QED BY <2>3 DEF SeqInv
<1> QED BY <1>15, <1>16, <1>17, <1>18 DEF MuxInv

-----------------------------------------------------------------------------
\* A new header leaves every track as it was at first.
LEMMA HeaderStep ==
  ASSUME MuxInv, WriteHeader
  PROVE  MuxInv'
<1>1. MuxType'
  BY DEF MuxInv, MuxType, WriteHeader, FreshStreams, NoMoof, Moofs, NoPacket
<1>2. \A k \in Tracks :
        /\ sampleIndex'[k] = 0 /\ written'[k] = 0
        /\ buffer'[k] = <<>> /\ sent'[k] = <<>> /\ fragments'[k] = <<>>
        /\ moof'[k].entries = <<>>
  BY DEF WriteHeader, FreshStreams, NoMoof
<1>3. OpenInv' /\ SeqInv'
  BY <1>2 DEF OpenInv, SeqInv
<1>4. EverySampleOnce'
  <2>1. ASSUME NEW k \in Tracks
        PROVE  sent'[k] \o Open(k)' = [i \in 1..written'[k] |-> i]
    <3>1. Open(k)' = <<>>
      BY <1>2 DEF Open
    <3>2. <<>> \o <<>> = [i \in 1..0 |-> i]
      OBVIOUS
    <3> QED BY <1>2, <3>1, <3>2
  <2> QED BY <2>1 DEF EverySampleOnce
<1> QED BY <1>1, <1>3, <1>4 DEF MuxInv

LEMMA InitMux == Init => MuxInv
<1> SUFFICES ASSUME Init PROVE MuxInv
  OBVIOUS
<1>1. MuxType
  BY DEF Init, MuxType, NoMoof, Moofs, NoPacket
<1>2. OpenInv /\ SeqInv
  BY DEF Init, OpenInv, SeqInv, NoMoof
<1>3. EverySampleOnce
  <2>1. ASSUME NEW k \in Tracks
        PROVE  sent[k] \o Open(k) = [i \in 1..written[k] |-> i]
    <3>1. Open(k) = <<>> /\ sent[k] = <<>> /\ written[k] = 0
      BY DEF Init, Open
    <3>2. <<>> \o <<>> = [i \in 1..0 |-> i]
      OBVIOUS
    <3> QED BY <3>1, <3>2
  <2> QED BY <2>1 DEF EverySampleOnce
<1> QED BY <1>1, <1>2, <1>3 DEF MuxInv

(* The muxer keeps its invariant: whatever packets come, on whatever tracks,
   with clocks that start again and headers in between. *)
THEOREM MuxerInvariant == Spec => []MuxInv
<1>1. Init => MuxInv
  BY InitMux
<1>2. MuxInv /\ [Next]_vars => MuxInv'
  <2> SUFFICES ASSUME MuxInv, [Next]_vars PROVE MuxInv'
    OBVIOUS
  <2>0. \A k \in Tracks : clock[k] \in Nat /\ \A d \in Gaps : clock[k] + d \in Nat
    BY DEF MuxInv, MuxType
  <2>1. ASSUME NEW k \in Tracks, NEW t \in Nat, WritePacket(k, t) PROVE MuxInv'
    <3>1. CASE writePacketV2(k, t)
      BY <3>1, V2Step
    <3>2. CASE \E key \in BOOLEAN : writePacketV3(k, t, key)
      BY <3>2, V3Step
    <3> QED BY <2>1, <3>1, <3>2 DEF WritePacket
  <2>2. CASE \E k \in Tracks, d \in Gaps : WritePacket(k, clock[k] + d)
    BY <2>0, <2>1, <2>2
  <2>3. CASE \E k \in Tracks : clock[k] > 0 /\ WritePacket(k, 0)
    BY <2>1, <2>3
  <2>4. CASE WriteHeader
    BY <2>4, HeaderStep
  <2>5. CASE UNCHANGED vars
    BY <2>5 DEF vars, streamVars, history, MuxInv, MuxType, OpenInv, SeqInv,
                EverySampleOnce, Open
  <2> QED BY <2>2, <2>3, <2>4, <2>5 DEF Next
<1> QED BY <1>1, <1>2, PTL DEF Spec

(* Every packet since the header is in exactly one fragment, in order. *)
THEOREM SamplesOnce == Spec => []EverySampleOnce
<1>1. MuxInv => EverySampleOnce
  BY DEF MuxInv
<1> QED BY <1>1, MuxerInvariant, PTL

(* The sequence numbers of a track's fragments grow. *)
THEOREM NumbersGrow == Spec => []SeqnumsGrow
<1>1. MuxInv => SeqnumsGrow
  <2> SUFFICES ASSUME MuxInv, NEW k \in Tracks
               PROVE  /\ \A i \in DOMAIN fragments[k] \ {1} :
                           fragments[k][i - 1].moof.seqnum < fragments[k][i].moof.seqnum
                      /\ \A i \in DOMAIN fragments[k] :
                           fragments[k][i].moof.seqnum <= fragmentIndex
    BY DEF SeqnumsGrow
  <2>1. fragments[k] \in Seq(Returned)
    BY DEF MuxInv, MuxType
  <2>2. ASSUME NEW i \in DOMAIN fragments[k] \ {1}
        PROVE  i - 1 \in DOMAIN fragments[k] /\ i - 1 < i
    BY <2>1
  <2> QED BY <2>2 DEF MuxInv, SeqInv
<1> QED BY <1>1, MuxerInvariant, PTL

(* The types of the muxer's state. *)
THEOREM TypeCorrect == Spec => []TypeOK
<1>1. MuxInv => TypeOK
  BY DEF MuxInv, MuxType, OpenInv, TypeOK
<1> QED BY <1>1, MuxerInvariant, PTL

-----------------------------------------------------------------------------
(* Induction without an operator parameter: a set of numbers has a least.  *)
LEMMA LeastNat ==
  ASSUME NEW S, S \subseteq Nat, S # {}
  PROVE  \E m \in S : \A n \in S : m <= n
<1> DEFINE R == OpToRel(<, Nat)
<1>1. IsWellFoundedOn(R, Nat)
  BY NatLessThanWellFounded, Zenon
<1>2. \A m, n \in Nat : <<m, n>> \in R <=> m < n
  BY DEF OpToRel
<1> HIDE DEF R
<1>3. PICK m \in S : \A n \in S : ~(<<n, m>> \in R)
  BY <1>1, WFMin, Zenon
<1>4. \A n \in S : ~(n < m)
  BY <1>2, <1>3
<1> QED BY <1>4

\* f holds the sums of the first n elements of s, as Total computes them.
Sums(f, s, n) == f = [i \in 0..n |-> IF i = 0 THEN 0 ELSE f[i - 1] + s[i]]

\* The sums of a longer prefix begin with those of a shorter one.
LEMMA SumsUnique ==
  ASSUME NEW s, NEW r, NEW n \in Nat, NEW m \in 0..n, NEW f, NEW g,
         Sums(f, r, n), Sums(g, s, m), \A i \in 1..m : r[i] = s[i]
  PROVE  f[m] = g[m]
<1> DEFINE S == {i \in 0..m : f[i] # g[i]}
<1>1. SUFFICES ASSUME S # {} PROVE FALSE
  OBVIOUS
<1>2. PICK i \in S : \A j \in S : i <= j
  <2>1. S \subseteq Nat
    OBVIOUS
  <2> HIDE DEF S
  <2> QED BY <1>1, <2>1, LeastNat
<1>3. i \in 0..n /\ i \in 0..m
  OBVIOUS
<1>4. /\ f[i] = IF i = 0 THEN 0 ELSE f[i - 1] + r[i]
      /\ g[i] = IF i = 0 THEN 0 ELSE g[i - 1] + s[i]
  BY <1>3 DEF Sums
<1>5. i # 0
  BY <1>4
<1>6. i - 1 \in 0..m /\ i - 1 \notin S /\ r[i] = s[i]
  BY <1>2, <1>3, <1>5
<1> QED BY <1>4, <1>5, <1>6

\* The recursion of Total has a solution.
LEMMA SumsExist ==
  ASSUME NEW s
  PROVE  \A n \in Nat : \E f : Sums(f, s, n)
<1> DEFINE S == {n \in Nat : ~(\E f : Sums(f, s, n))}
<1>1. SUFFICES ASSUME S # {} PROVE FALSE
  OBVIOUS
<1>2. PICK n \in S : \A j \in S : n <= j
  <2>1. S \subseteq Nat
    OBVIOUS
  <2> HIDE DEF S
  <2> QED BY <1>1, <2>1, LeastNat
<1>3. n # 0
  <2>1. Sums([i \in 0..0 |-> 0], s, 0)
    BY DEF Sums
  <2> QED BY <2>1
<1>4. PICK f : Sums(f, s, n - 1)
  BY <1>2, <1>3
<1> DEFINE g == [i \in 0..n |-> IF i = n THEN f[n - 1] + s[n] ELSE f[i]]
<1>5. Sums(g, s, n)
  <2>1. \A i \in 0..n - 1 : f[i] = IF i = 0 THEN 0 ELSE f[i - 1] + s[i]
    BY <1>4 DEF Sums
  <2>2. ASSUME NEW i \in 0..n
        PROVE  g[i] = IF i = 0 THEN 0 ELSE g[i - 1] + s[i]
    <3>1. CASE i = n
      BY <1>3, <3>1
    <3>2. CASE i # n
      BY <2>1, <3>2
    <3> QED BY <3>1, <3>2
  <2> QED BY <2>2 DEF Sums
<1> QED BY <1>5

LEMMA TotalIsSums ==
  ASSUME NEW s, Len(s) \in Nat, NEW f, Sums(f, s, Len(s))
  PROVE  Total(s) = f[Len(s)]
<1> DEFINE h == CHOOSE g : Sums(g, s, Len(s))
<1>1. Total(s) = h[Len(s)]
  BY DEF Total, Sums
<1>2. Sums(h, s, Len(s))
  BY SumsExist
<1> HIDE DEF h
<1>3. f[Len(s)] = h[Len(s)]
  BY <1>2, SumsUnique
<1> QED BY <1>1, <1>3

\* What Total computes: the sum of an empty run, and of one with an entry more.
LEMMA TotalOfRun ==
  /\ Total(<<>>) = 0
  /\ \A s \in Seq(Int), e \in Int : Total(Append(s, e)) = Total(s) + e
<1>1. Total(<<>>) = 0
  <2> DEFINE f == [i \in 0..0 |-> 0]
  <2>1. Sums(f, <<>>, 0) /\ Len(<<>>) = 0
    BY DEF Sums
  <2>2. f[0] = 0
    OBVIOUS
  <2> HIDE DEF f
  <2>3. Total(<<>>) = f[0]
    BY <2>1, TotalIsSums
  <2> QED BY <2>2, <2>3
<1>2. ASSUME NEW s \in Seq(Int), NEW e \in Int
      PROVE  Total(Append(s, e)) = Total(s) + e
  <2> DEFINE r == Append(s, e)
             n == Len(s)
  <2>1. /\ n \in Nat /\ Len(r) = n + 1 /\ r[n + 1] = e
        /\ \A i \in 1..n : r[i] = s[i]
    OBVIOUS
  <2> HIDE DEF r, n
  <2>2. PICK g : Sums(g, r, n + 1)
    <3>1. n + 1 \in Nat
      BY <2>1
    <3> QED BY <3>1, SumsExist
  <2>3. PICK f : Sums(f, s, n)
    BY <2>1, SumsExist
  <2>4. Total(r) = g[n + 1] /\ Total(s) = f[n]
    BY <2>1, <2>2, <2>3, TotalIsSums DEF n
  <2>5. g[n + 1] = g[n] + r[n + 1]
    BY <2>1, <2>2 DEF Sums
  <2>6. g[n] = f[n]
    BY <2>1, <2>2, <2>3, SumsUnique
  <2> QED BY <2>1, <2>4, <2>5, <2>6 DEF r
<1> QED BY <1>1, <1>2

\* A sum of integers is one.
LEMMA TotalIsInt ==
  ASSUME NEW s \in Seq(Int)
  PROVE  Total(s) \in Int
<1>1. Len(s) \in Nat /\ \A i \in 1..Len(s) : s[i] \in Int
  OBVIOUS
<1>2. PICK f : Sums(f, s, Len(s))
  BY <1>1, SumsExist
<1> DEFINE S == {i \in 0..Len(s) : f[i] \notin Int}
<1>3. ASSUME S # {} PROVE FALSE
  <2>1. S \subseteq Nat
    BY <1>1
  <2>2. PICK i \in S : \A j \in S : i <= j
    <3> HIDE DEF S
    <3> QED BY <1>3, <2>1, LeastNat
  <2>3. i \in 0..Len(s) /\ f[i] = IF i = 0 THEN 0 ELSE f[i - 1] + s[i]
    BY <1>2 DEF Sums
  <2>4. i # 0
    BY <2>3
  <2>5. i - 1 \in 0..Len(s) /\ i - 1 \notin S
    BY <1>1, <2>2, <2>3, <2>4
  <2>6. f[i - 1] \in Int /\ s[i] \in Int
    BY <1>1, <2>3, <2>4, <2>5
  <2> QED BY <2>3, <2>4, <2>6
<1>4. f[Len(s)] \in Int
  BY <1>1, <1>3
<1> QED BY <1>1, <1>2, <1>4, TotalIsSums

-----------------------------------------------------------------------------
(* The time of a track: how far its decode time is from its packets, and   *)
(* that its fragments tile it.                                             *)

\* How far the decode time of a track is behind its packets, in 1/(Unit*Scale).
Drift(k) == (lastpkt[k] - first[k]) * Scale[k] - dts[k] * Unit

DriftInv ==
  /\ first \in [Tracks -> Nat \union {NoPacket}]
  /\ \A k \in Tracks :
    IF written[k] = 0 THEN lastpkt[k] = NoPacket /\ first[k] = NoPacket /\ dts[k] = 0
    ELSE /\ lastpkt[k] = clock[k] /\ first[k] \in Nat
         /\ Drift(k) < written[k] * Unit
         /\ IF MayRestart THEN -(written[k] * Unit) < Drift(k) ELSE 0 <= Drift(k)

\* The durations of a fragment end at t.
Ends(m, t) == (t - m.time - Total(m.entries)) % Wrap = 0

\* Those of a track's fragments do up to the next one, or to its decode time.
Tiled(k) ==
  LET fs == fragments[k] IN
  /\ \A i \in DOMAIN fs \ {1} : Ends(fs[i - 1].moof, fs[i].moof.time)
  /\ sampleIndex[k] # 0 => Ends(moof[k], dts[k])
  /\ fs # <<>> => Ends(fs[Len(fs)].moof, IF sampleIndex[k] = 0 THEN dts[k] ELSE moof[k].time)

TileInv == \A k \in Tracks : Tiled(k)

\* Rounding down loses less than a unit.
LEMMA Quotient ==
  ASSUME NEW n \in Nat, NEW u \in Nat \ {0}
  PROVE  /\ n \div u \in Nat
         /\ 0 <= n - (n \div u) * u /\ n - (n \div u) * u < u
<1>1. n \div u \in Int /\ n % u \in 0..u - 1 /\ n = u * (n \div u) + (n % u)
  OBVIOUS
<1>2. n \div u >= 0
  OBVIOUS
<1> DEFINE q == n \div u
           r == n % u
<1>3. q \in Int /\ r \in 0..u - 1 /\ n = u * q + r
  BY <1>1
<1> HIDE DEF q, r
<1>4. u * q = q * u /\ q * u \in Int
  BY <1>3
<1>5. n - q * u = r
  BY <1>3, <1>4
<1> QED BY <1>1, <1>2, <1>3, <1>5 DEF q

\* A distance of packets is less than a tick longer than its duration, in the
\* direction in which it goes.
LEMMA TickError ==
  ASSUME NEW k \in Tracks, NEW tm \in Int
  PROVE  LET lost == tm * Scale[k] - timeToTs(k, tm) * Unit
         IN  /\ lost \in Int /\ -Unit < lost /\ lost < Unit
             /\ tm >= 0 => 0 <= lost
<1> DEFINE s == Scale[k]
           x == tm * s
           y == -tm * s
<1>1. s \in Nat \ {0} /\ Unit \in Nat \ {0}
  OBVIOUS
<1> HIDE DEF s
<1>2. x \in Int /\ y = -x
  BY <1>1
<1>3. CASE tm >= 0
  <2>1. x \in Nat
    BY <1>1, <1>3
  <2>2. timeToTs(k, tm) = x \div Unit
    BY <1>3 DEF timeToTs, s
  <2> HIDE DEF x
  <2>3. /\ x \div Unit \in Nat
        /\ 0 <= x - (x \div Unit) * Unit /\ x - (x \div Unit) * Unit < Unit
    BY <1>1, <2>1, Quotient
  <2>4. (x \div Unit) * Unit \in Int
    BY <1>1, <2>3
  <2> QED BY <1>1, <2>1, <2>2, <2>3, <2>4 DEF x, s
<1>4. CASE ~(tm >= 0)
  <2>1. y \in Nat
    BY <1>1, <1>4
  <2>2. timeToTs(k, tm) = -(y \div Unit)
    BY <1>4 DEF timeToTs, s
  <2> HIDE DEF x, y
  <2>3. /\ y \div Unit \in Nat
        /\ 0 <= y - (y \div Unit) * Unit /\ y - (y \div Unit) * Unit < Unit
    BY <1>1, <2>1, Quotient
  <2> DEFINE q == y \div Unit
  <2>4. q \in Nat /\ 0 <= y - q * Unit /\ y - q * Unit < Unit
    BY <2>3
  <2> HIDE DEF q
  <2>5. q * Unit \in Int /\ (-q) * Unit = -(q * Unit)
    BY <1>1, <2>4
  <2>6. x - (-q) * Unit = -(y - q * Unit)
    BY <1>2, <2>1, <2>5
  <2>7. timeToTs(k, tm) = -q
    BY <2>2 DEF q
  <2> QED BY <1>1, <1>4, <2>1, <2>4, <2>5, <2>6, <2>7 DEF x, s
<1> QED BY <1>3, <1>4

\* A packet adds less than a tick to the drift of its track.
LEMMA ArrivalDrifts ==
  ASSUME MuxType, DriftInv, NEW k \in Tracks, NEW t \in Nat, Arrives(k, t),
         MayRestart \/ clock[k] <= t
  PROVE  DriftInv'
<1> DEFINE D(j) ==
             IF written[j] = 0 THEN lastpkt[j] = NoPacket /\ first[j] = NoPacket /\ dts[j] = 0
             ELSE /\ lastpkt[j] = clock[j] /\ first[j] \in Nat
                  /\ Drift(j) < written[j] * Unit
                  /\ IF MayRestart THEN -(written[j] * Unit) < Drift(j) ELSE 0 <= Drift(j)
<1> DEFINE lost == rawdur(k, t) * Scale[k] - timeToTs(k, rawdur(k, t)) * Unit
<1>1. first \in [Tracks -> Nat \union {NoPacket}] /\ \A j \in Tracks : D(j)
  BY DEF DriftInv
<1>2. /\ written[k] \in Nat /\ clock[k] \in Nat /\ dts[k] \in Int
      /\ written'[k] = written[k] + 1 /\ lastpkt'[k] = t /\ clock'[k] = t
      /\ dts'[k] = dts[k] + timeToTs(k, rawdur(k, t))
      /\ first'[k] = IF first[k] = NoPacket THEN t ELSE first[k]
  BY <1>1 DEF Arrives, MuxType
<1>3. first' \in [Tracks -> Nat \union {NoPacket}]
  BY <1>1 DEF Arrives
<1>4. rawdur(k, t) \in Int /\ timeToTs(k, rawdur(k, t)) \in Int
  <2>1. rawdur(k, t) \in Int
    BY DEF rawdur, MuxType, NoPacket
  <2> QED BY <2>1, TicksAreInt
<1>5. /\ lost \in Int /\ -Unit < lost /\ lost < Unit
      /\ rawdur(k, t) >= 0 => 0 <= lost
  BY <1>4, TickError, Zenon
<1>6. D(k)'
  <2>1. CASE written[k] = 0
    <3>1. rawdur(k, t) = 0 /\ dts[k] = 0 /\ first'[k] = t
      BY <1>1, <1>2, <2>1 DEF rawdur
    <3>2. timeToTs(k, 0) = 0
      BY DEF timeToTs
    <3>3. Drift(k)' = 0
      BY <1>2, <3>1, <3>2 DEF Drift
    <3> QED BY <1>2, <2>1, <3>1, <3>3
  <2>2. CASE written[k] # 0
    <3> DEFINE a == lastpkt[k] - first[k]
               b == rawdur(k, t)
               c == timeToTs(k, rawdur(k, t))
               s == Scale[k]
    <3>1. /\ lastpkt[k] = clock[k] /\ first[k] \in Nat /\ lastpkt[k] # NoPacket
          /\ first'[k] = first[k] /\ b = t - lastpkt[k]
      BY <1>1, <1>2, <2>2 DEF rawdur, NoPacket
    <3>2. a \in Int /\ b \in Int /\ c \in Int /\ s \in Int /\ lost = b * s - c * Unit
      BY <1>2, <1>4, <3>1
    <3>3. Drift(k) = a * s - dts[k] * Unit /\ Drift(k)' = (a + b) * s - (dts[k] + c) * Unit
      BY <1>2, <3>1 DEF Drift
    <3> HIDE DEF a, b, c, s, lost
    <3>4. /\ (a + b) * s = a * s + b * s
          /\ (dts[k] + c) * Unit = dts[k] * Unit + c * Unit
          /\ (written[k] + 1) * Unit = written[k] * Unit + Unit
      BY <1>2, <3>2
    <3>5. a * s \in Int /\ b * s \in Int /\ dts[k] * Unit \in Int /\ c * Unit \in Int
          /\ written[k] * Unit \in Int
      BY <1>2, <3>2
    <3>6. Drift(k)' = Drift(k) + lost /\ Drift(k) \in Int
      BY <3>2, <3>3, <3>4, <3>5
    <3>7. ~MayRestart => 0 <= lost
      BY <1>2, <1>5, <3>1, <3>2 DEF b
    <3>8. written'[k] * Unit = written[k] * Unit + Unit
      BY <1>2, <3>4
    <3>9. /\ Drift(k) < written[k] * Unit
          /\ IF MayRestart THEN -(written[k] * Unit) < Drift(k) ELSE 0 <= Drift(k)
      BY <1>1, <2>2
    <3>10. /\ Drift(k)' < written'[k] * Unit
           /\ IF MayRestart THEN -(written'[k] * Unit) < Drift(k)' ELSE 0 <= Drift(k)'
      BY <1>5, <3>2, <3>5, <3>6, <3>7, <3>8, <3>9
    <3> QED BY <1>2, <3>1, <3>10
  <2> QED BY <2>1, <2>2
<1>7. ASSUME NEW j \in Tracks, j # k PROVE D(j)'
  <2>1. /\ written'[j] = written[j] /\ lastpkt'[j] = lastpkt[j] /\ clock'[j] = clock[j]
        /\ first'[j] = first[j] /\ dts'[j] = dts[j]
    BY <1>1, <1>7 DEF Arrives, MuxType
  <2> QED BY <1>1, <2>1 DEF Drift
<1> QED BY <1>3, <1>6, <1>7 DEF DriftInv

-----------------------------------------------------------------------------
\* Numbers that are whole wraps: what a duration loses is one of them.
LEMMA WholeWraps ==
  ASSUME NEW x \in Int
  PROVE  /\ (x - (x % Wrap)) % Wrap = 0
         /\ \A y \in Int : x % Wrap = 0 /\ y % Wrap = 0 => (x + y) % Wrap = 0
<1> DEFINE W == Wrap
<1>1. W \in Nat \ {0}
  OBVIOUS
<1> HIDE DEF W
<1>2. \A z \in Int : /\ z \div W \in Int /\ z % W \in 0..W - 1
                     /\ z = W * (z \div W) + (z % W)
  BY <1>1
<1>3. \A q \in Int : (W * q) % W = 0
  <2>1. ASSUME NEW q \in Int PROVE (W * q) % W = 0
    <3> DEFINE p == (W * q) \div W
               r == (W * q) % W
    <3>0. W * q \in Int
      BY <1>1
    <3>1. p \in Int /\ r \in 0..W - 1 /\ W * q = W * p + r
      BY <1>2, <3>0
    <3> HIDE DEF p, r
    <3>2. W * (q - p) = r
      BY <1>1, <3>1
    <3>3. q - p = 0
      <4>1. CASE q - p >= 1
        <5>1. W * (q - p) >= W
          BY <1>1, <3>1, <4>1
        <5> QED BY <1>1, <3>1, <3>2, <5>1
      <4>2. CASE q - p <= -1
        <5>1. W * (q - p) < 0
          BY <1>1, <3>1, <4>2
        <5> QED BY <1>1, <3>1, <3>2, <5>1
      <4> QED BY <3>1, <4>1, <4>2
    <3>4. r = 0
      BY <1>1, <3>2, <3>3
    <3> QED BY <3>4 DEF r
  <2> QED BY <2>1
<1>4. (x - (x % W)) % W = 0
  <2> DEFINE q == x \div W
  <2>1. q \in Int /\ x - (x % W) = W * q
    BY <1>1, <1>2
  <2> QED BY <1>3, <2>1
<1>5. ASSUME NEW y \in Int, x % W = 0, y % W = 0
      PROVE  (x + y) % W = 0
  <2> DEFINE p == x \div W
             q == y \div W
  <2>1. p \in Int /\ q \in Int /\ x = W * p /\ y = W * q
    BY <1>1, <1>2, <1>5
  <2> HIDE DEF p, q
  <2>2. x + y = W * (p + q)
    BY <1>1, <2>1
  <2> QED BY <1>3, <2>1, <2>2
<1> QED BY <1>4, <1>5 DEF W

\* An entry more lengthens a fragment by its ticks.
LEMMA Lengthened ==
  ASSUME NEW m \in Moofs, NEW t \in Int, NEW d \in Int, Ends(m, t)
  PROVE  Ends([m EXCEPT !.entries = Append(@, d % Wrap)], t + d)
<1> DEFINE e == d % Wrap
           es == Append(m.entries, e)
           g == [m EXCEPT !.entries = es]
           x == t - m.time - Total(m.entries)
<1>1. m.entries \in Seq(Int) /\ m.time \in Int /\ e \in Int
  BY DEF Moofs
<1>2. Total(es) = Total(m.entries) + e /\ Total(m.entries) \in Int
  BY <1>1, TotalOfRun, TotalIsInt
<1>3. g.time = m.time /\ g.entries = es
  BY DEF Moofs
<1>4. x \in Int /\ x % Wrap = 0
  BY <1>1, <1>2 DEF Ends
<1>5. d - e \in Int /\ (d - e) % Wrap = 0
  BY <1>1, WholeWraps
<1> HIDE DEF es, g, e
<1>6. (t + d) - m.time - Total(es) = x + (d - e)
  BY <1>1, <1>2
<1> HIDE DEF x
<1>7. (x + (d - e)) % Wrap = 0
  BY <1>4, <1>5, WholeWraps
<1>8. Ends(g, t + d)
  BY <1>3, <1>6, <1>7 DEF Ends
<1> QED BY <1>8 DEF g, es, e

\* A fragment that has just been opened ends where it begins.
LEMMA StartedEnds ==
  ASSUME MuxType, NEW k \in Tracks, NEW n \in Nat
  PROVE  Ends(Started(k, n), dts[k]) /\ Started(k, n).time = dts[k]
<1>1. dts[k] \in Int /\ dts[k] - dts[k] - 0 = 0 /\ 0 % Wrap = 0
  BY DEF MuxType
<1> QED BY <1>1, TotalOfRun DEF Ends, Started

\* A fragment more that begins where the last one ends.
LEMMA OneMoreTile ==
  ASSUME NEW fs \in Seq(Returned), NEW r \in Returned,
         \A i \in DOMAIN fs \ {1} : Ends(fs[i - 1].moof, fs[i].moof.time),
         fs # <<>> => Ends(fs[Len(fs)].moof, r.moof.time)
  PROVE  LET gs == Append(fs, r)
         IN  /\ \A i \in DOMAIN gs \ {1} : Ends(gs[i - 1].moof, gs[i].moof.time)
             /\ gs # <<>> /\ gs[Len(gs)] = r
<1> DEFINE gs == Append(fs, r)
           n == Len(fs)
<1>1. /\ n \in Nat /\ Len(gs) = n + 1 /\ DOMAIN gs = 1..n + 1 /\ DOMAIN fs = 1..n
      /\ gs[n + 1] = r /\ \A i \in 1..n : gs[i] = fs[i]
  OBVIOUS
<1>0. (n = 0 => fs = <<>>) /\ (n # 0 => fs # <<>>) /\ gs # <<>>
  BY EmptySeq
<1> HIDE DEF gs
<1>2. ASSUME NEW i \in DOMAIN gs \ {1}
      PROVE  Ends(gs[i - 1].moof, gs[i].moof.time)
  <2>1. CASE i = n + 1
    <3>1. n # 0 /\ gs[i - 1] = fs[n] /\ gs[i] = r
      BY <1>1, <2>1
    <3>2. Ends(fs[n].moof, r.moof.time)
      BY <1>0, <3>1
    <3> QED BY <3>1, <3>2
  <2>2. CASE i # n + 1
    <3>1. i \in DOMAIN fs \ {1} /\ gs[i] = fs[i] /\ gs[i - 1] = fs[i - 1]
      BY <1>1, <2>2
    <3> QED BY <3>1
  <2> QED BY <2>1, <2>2
<1> QED BY <1>0, <1>1, <1>2 DEF gs

\* A step leaves the other tracks alone.
LEMMA OtherTracksTiled ==
  ASSUME TileInv, NEW j \in Tracks,
         fragments'[j] = fragments[j], sampleIndex'[j] = sampleIndex[j],
         moof'[j] = moof[j], dts'[j] = dts[j]
  PROVE  Tiled(j)'
<1>1. Tiled(j)
  BY DEF TileInv, Tiled
<1> QED BY <1>1 DEF Tiled

LEMMA V2Tiles ==
  ASSUME MuxInv, TileInv, NEW k \in Tracks, NEW t \in Nat, writePacketV2(k, t)
  PROVE  TileInv'
<1> DEFINE full == Full(sampleIndex[k] + 1)
           d == timeToTs(k, rawdur(k, t))
           fs == fragments[k]
           start == IF sampleIndex[k] = 0 THEN Started(k, fragmentIndex) ELSE moof[k]
           m == Run(k, t)
           r == [moof |-> m, data |-> Mdat(k)]
<1>1. MuxType /\ OpenInv /\ Arrives(k, t) /\ Tiled(k) /\ MuxInv'
  BY V2Step DEF MuxInv, writePacketV2, TileInv, Tiled
<1>2. d \in Int /\ Entry(k, t) = d % Wrap /\ dts[k] \in Int
      /\ dts' = [dts EXCEPT ![k] = @ + d]
  BY <1>1, Arrival DEF Entry, Arrives, MuxType
<1>3. /\ start \in Moofs /\ Ends(start, dts[k])
      /\ fs # <<>> => Ends(fs[Len(fs)].moof, start.time)
  <2>1. CASE sampleIndex[k] = 0
    <3>1. fragmentIndex \in Nat /\ start = Started(k, fragmentIndex)
      BY <1>1, <2>1 DEF MuxType
    <3> QED BY <1>1, <2>1, <3>1, FreshMoof, StartedEnds DEF Tiled
  <2>2. CASE sampleIndex[k] # 0
    BY <1>1, <2>2 DEF Tiled, MuxType
  <2> QED BY <2>1, <2>2
<1>4. m = [start EXCEPT !.entries = Append(@, d % Wrap)]
  BY <1>2 DEF Run
<1> HIDE DEF d, start, m
<1>5. m \in Moofs /\ m.time = start.time /\ Ends(m, dts[k] + d)
  <2>1. d % Wrap \in Int
    BY <1>2
  <2>2. m \in Moofs
    <3> DEFINE e == d % Wrap
    <3> HIDE DEF e
    <3>1. [start EXCEPT !.entries = Append(@, e)] \in Moofs
      BY <1>3, <2>1, GrownMoof DEF e
    <3> QED BY <1>4, <3>1 DEF e
  <2>3. m.time = start.time
    BY <1>3, <1>4 DEF Moofs
  <2>4. Ends([start EXCEPT !.entries = Append(@, d % Wrap)], dts[k] + d)
    BY <1>2, <1>3, Lengthened
  <2> QED BY <1>4, <2>2, <2>3, <2>4
<1>6. /\ moof' = [moof EXCEPT ![k] = m]
      /\ sampleIndex' = [sampleIndex EXCEPT ![k] = IF full THEN 0 ELSE @ + 1]
      /\ fragments' = [fragments EXCEPT ![k] = IF full THEN Append(@, r) ELSE @]
  BY <1>1 DEF writePacketV2, Send, MuxType, m
<1>7. ASSUME NEW j \in Tracks, j # k PROVE Tiled(j)'
  <2>1. /\ fragments'[j] = fragments[j] /\ sampleIndex'[j] = sampleIndex[j]
        /\ moof'[j] = moof[j] /\ dts'[j] = dts[j]
    BY <1>1, <1>2, <1>6, <1>7 DEF MuxType
  <2> QED BY <2>1, OtherTracksTiled
<1>8. /\ moof'[k] = m /\ dts'[k] = dts[k] + d
      /\ sampleIndex'[k] = IF full THEN 0 ELSE sampleIndex[k] + 1
      /\ fragments'[k] = IF full THEN Append(fs, r) ELSE fs
      /\ sampleIndex[k] \in Nat
  BY <1>1, <1>2, <1>6 DEF MuxType
<1>9. Tiled(k)'
  <2>1. CASE ~full
    <3>1. sampleIndex'[k] # 0 /\ fragments'[k] = fs
      BY <1>8, <2>1
    <3>2. \A i \in DOMAIN fs \ {1} : Ends(fs[i - 1].moof, fs[i].moof.time)
      BY <1>1 DEF Tiled
    <3>3. fs # <<>> => Ends(fs[Len(fs)].moof, m.time)
      BY <1>3, <1>5
    <3> HIDE DEF fs
    <3> QED BY <1>5, <1>8, <3>1, <3>2, <3>3 DEF Tiled
  <2>2. CASE full
    <3>1. fs \in Seq(Returned) /\ r \in Returned /\ r.moof = m
      <4>1. Mdat(k) \in Seq(Nat)
        <5>1. buffer'[k] = Mdat(k) /\ buffer'[k] \in Seq(Nat)
          BY <1>1 DEF writePacketV2, MuxInv, MuxType
        <5> QED BY <5>1
      <4> QED BY <1>1, <1>5, <4>1 DEF MuxType, Returned
    <3> HIDE DEF r
    <3> DEFINE gs == Append(fs, r)
    <3>2. /\ \A i \in DOMAIN gs \ {1} : Ends(gs[i - 1].moof, gs[i].moof.time)
          /\ gs # <<>> /\ gs[Len(gs)] = r
      <4>1. \A i \in DOMAIN fs \ {1} : Ends(fs[i - 1].moof, fs[i].moof.time)
        BY <1>1 DEF Tiled
      <4>2. fs # <<>> => Ends(fs[Len(fs)].moof, r.moof.time)
        BY <1>3, <1>5, <3>1
      <4> HIDE DEF fs
      <4> QED BY <3>1, <4>1, <4>2, OneMoreTile
    <3>3. sampleIndex'[k] = 0 /\ fragments'[k] = gs
      BY <1>8, <2>2
    <3> HIDE DEF gs
    <3> QED BY <1>5, <1>8, <3>1, <3>2, <3>3 DEF Tiled
  <2> QED BY <2>1, <2>2
<1> QED BY <1>7, <1>9 DEF TileInv, Tiled

LEMMA V3Tiles ==
  ASSUME MuxInv, TileInv, NEW k \in Tracks, NEW t \in Nat, NEW key \in BOOLEAN,
         writePacketV3(k, t, key)
  PROVE  TileInv'
<1> DEFINE flush == Full(sampleIndex[k]) /\ key
           index == fragmentIndex + IF flush THEN 1 ELSE 0
           opens == flush \/ sampleIndex[k] = 0
           d == timeToTs(k, rawdur(k, t))
           fs == fragments[k]
           start == IF opens THEN Started(k, index) ELSE moof[k]
           m == [start EXCEPT !.entries = Append(@, Entry(k, t))]
           r == [moof |-> moof[k], data |-> buffer[k]]
           gs == IF flush THEN Append(fs, r) ELSE fs
<1>1. MuxType /\ OpenInv /\ Arrives(k, t) /\ Tiled(k)
  BY DEF MuxInv, writePacketV3, TileInv, Tiled
<1>2. d \in Int /\ Entry(k, t) = d % Wrap /\ dts[k] \in Int
      /\ dts' = [dts EXCEPT ![k] = @ + d]
  BY <1>1, Arrival DEF Entry, Arrives, MuxType
<1>3. /\ moof' = [moof EXCEPT ![k] = m]
      /\ sampleIndex' = [sampleIndex EXCEPT ![k] = IF opens THEN 1 ELSE @ + 1]
      /\ fragments' = [fragments EXCEPT ![k] = gs]
  BY <1>1 DEF writePacketV3, Send, MuxType
<1>4. /\ moof'[k] = m /\ dts'[k] = dts[k] + d
      /\ sampleIndex'[k] # 0 /\ fragments'[k] = gs
  BY <1>1, <1>2, <1>3 DEF MuxType
<1>5. ASSUME NEW j \in Tracks, j # k PROVE Tiled(j)'
  <2>1. /\ fragments'[j] = fragments[j] /\ sampleIndex'[j] = sampleIndex[j]
        /\ moof'[j] = moof[j] /\ dts'[j] = dts[j]
    BY <1>1, <1>2, <1>3, <1>5 DEF MuxType
  <2> QED BY <2>1, OtherTracksTiled
<1>6. /\ fs \in Seq(Returned) /\ r \in Returned /\ r.moof = moof[k] /\ moof[k] \in Moofs
      /\ flush => sampleIndex[k] # 0
  <2>1. fs \in Seq(Returned) /\ moof[k] \in Moofs /\ buffer[k] \in Seq(Nat)
    BY <1>1 DEF MuxType
  <2>2. r \in Returned /\ r.moof = moof[k]
    BY <2>1 DEF Returned
  <2>3. flush => sampleIndex[k] # 0
    BY DEF Full
  <2> QED BY <2>1, <2>2, <2>3
<1>7. index \in Nat
  BY <1>1 DEF MuxType
<1>8. /\ \A i \in DOMAIN fs \ {1} : Ends(fs[i - 1].moof, fs[i].moof.time)
      /\ sampleIndex[k] # 0 => Ends(moof[k], dts[k])
      /\ fs # <<>> => Ends(fs[Len(fs)].moof, IF sampleIndex[k] = 0 THEN dts[k] ELSE moof[k].time)
  BY <1>1 DEF Tiled
\* The fragments returned so far tile, up to the one that is open now.
<1>9. /\ start \in Moofs /\ Ends(start, dts[k])
      /\ \A i \in DOMAIN gs \ {1} : Ends(gs[i - 1].moof, gs[i].moof.time)
      /\ gs # <<>> => Ends(gs[Len(gs)].moof, start.time)
  <2>1. CASE flush
    <3>1. start = Started(k, index) /\ gs = Append(fs, r)
      BY <2>1
    <3>2. start \in Moofs /\ Ends(start, dts[k]) /\ start.time = dts[k]
      <4> HIDE DEF index
      <4> QED BY <1>1, <1>7, <3>1, FreshMoof, StartedEnds
    <3>3. Ends(r.moof, dts[k]) /\ (fs # <<>> => Ends(fs[Len(fs)].moof, r.moof.time))
      BY <1>6, <1>8, <2>1
    <3> HIDE DEF fs, r, gs, start, flush
    <3>4. /\ \A i \in DOMAIN gs \ {1} : Ends(gs[i - 1].moof, gs[i].moof.time)
          /\ gs # <<>> /\ gs[Len(gs)] = r
      BY <1>6, <1>8, <3>1, <3>3, OneMoreTile
    <3> QED BY <3>2, <3>3, <3>4
  <2>2. CASE ~flush /\ sampleIndex[k] = 0
    <3>1. start = Started(k, index) /\ gs = fs
      BY <2>2
    <3>2. start \in Moofs /\ Ends(start, dts[k]) /\ start.time = dts[k]
      <4> HIDE DEF index
      <4> QED BY <1>1, <1>7, <3>1, FreshMoof, StartedEnds
    <3> HIDE DEF fs, gs, start, flush
    <3> QED BY <1>8, <2>2, <3>1, <3>2
  <2>3. CASE ~flush /\ sampleIndex[k] # 0
    <3>1. start = moof[k] /\ gs = fs
      BY <2>3
    <3> HIDE DEF fs, gs, start, flush
    <3> QED BY <1>6, <1>8, <2>3, <3>1
  <2> QED BY <2>1, <2>2, <2>3
<1> DEFINE e == d % Wrap
<1> HIDE DEF start, gs, flush, d
<1>10. /\ m.time = start.time
       /\ Ends(m, dts[k] + d)
  <2>1. m = [start EXCEPT !.entries = Append(@, e)]
    BY <1>2
  <2>2. Ends([start EXCEPT !.entries = Append(@, d % Wrap)], dts[k] + d)
    BY <1>2, <1>9, Lengthened
  <2>3. m.time = start.time
    BY <1>9 DEF Moofs
  <2> QED BY <2>1, <2>2, <2>3
<1> HIDE DEF m
<1>11. Tiled(k)'
  BY <1>4, <1>9, <1>10 DEF Tiled
<1> QED BY <1>5, <1>11 DEF TileInv, Tiled

-----------------------------------------------------------------------------
\* The time of every track, in every state the muxer reaches.
TimeInv == MuxInv /\ DriftInv /\ TileInv

LEMMA WritePacketStep ==
  ASSUME TimeInv, NEW k \in Tracks, NEW t \in Nat, WritePacket(k, t),
         MayRestart \/ clock[k] <= t
  PROVE  TimeInv'
<1>1. CASE writePacketV2(k, t)
  <2>1. Arrives(k, t)
    BY <1>1 DEF writePacketV2
  <2> QED BY <1>1, <2>1, V2Step, V2Tiles, ArrivalDrifts DEF TimeInv, MuxInv
<1>2. CASE \E key \in BOOLEAN : writePacketV3(k, t, key)
  <2>1. PICK key \in BOOLEAN : writePacketV3(k, t, key)
    BY <1>2
  <2>2. Arrives(k, t)
    BY <2>1 DEF writePacketV3
  <2> QED BY <2>1, <2>2, V3Step, V3Tiles, ArrivalDrifts DEF TimeInv, MuxInv
<1> QED BY <1>1, <1>2 DEF WritePacket

\* A new header begins the time of every track anew.
LEMMA HeaderTimes ==
  ASSUME TimeInv, WriteHeader
  PROVE  TimeInv'
<1>1. MuxInv'
  BY HeaderStep DEF TimeInv
<1>2. DriftInv'
  BY DEF WriteHeader, FreshStreams, DriftInv
<1>3. TileInv'
  BY DEF WriteHeader, FreshStreams, TileInv, Tiled
<1> QED BY <1>1, <1>2, <1>3 DEF TimeInv

(* The decode time of a track and its fragments keep up with its packets. *)
THEOREM TimeInvariant == Spec => []TimeInv
<1>1. Init => TimeInv
  <2> SUFFICES ASSUME Init PROVE TimeInv
    OBVIOUS
  <2>1. MuxInv
    BY InitMux
  <2>2. DriftInv
    BY DEF Init, DriftInv
  <2>3. TileInv
    BY DEF Init, TileInv, Tiled
  <2> QED BY <2>1, <2>2, <2>3 DEF TimeInv
<1>2. TimeInv /\ [Next]_vars => TimeInv'
  <2> SUFFICES ASSUME TimeInv, [Next]_vars PROVE TimeInv'
    OBVIOUS
  <2>1. CASE \E k \in Tracks, d \in Gaps : WritePacket(k, clock[k] + d)
    <3>1. PICK k \in Tracks, d \in Gaps : WritePacket(k, clock[k] + d)
      BY <2>1
    <3>2. clock[k] + d \in Nat /\ clock[k] <= clock[k] + d
      BY DEF TimeInv, MuxInv, MuxType
    <3> QED BY <3>1, <3>2, WritePacketStep
  <2>2. CASE MayRestart /\ \E k \in Tracks : clock[k] > 0 /\ WritePacket(k, 0)
    BY <2>2, WritePacketStep
  <2>3. CASE WriteHeader
    BY <2>3, HeaderTimes
  <2>4. CASE UNCHANGED vars
    <3>1. MuxInv'
      BY <2>4 DEF vars, streamVars, history, TimeInv, MuxInv, MuxType, OpenInv, SeqInv,
                  EverySampleOnce, Open
    <3>2. DriftInv'
      BY <2>4 DEF vars, streamVars, history, TimeInv, DriftInv, Drift
    <3>3. TileInv'
      BY <2>4 DEF vars, streamVars, history, TimeInv, TileInv, Tiled
    <3> QED BY <3>1, <3>2, <3>3 DEF TimeInv
  <2> QED BY <2>1, <2>2, <2>3, <2>4 DEF Next
<1> QED BY <1>1, <1>2, PTL DEF Spec

(* The decode time of a track runs behind its packets by less than a tick a
   packet, restarted clocks included: roundings do not add up to more. *)
THEOREM DriftStaysBounded == Spec => []DriftBounded
<1>1. TimeInv => DriftBounded
  <2> SUFFICES ASSUME TimeInv, NEW k \in Tracks, written[k] > 0
               PROVE  LET exact == (lastpkt[k] - first[k]) * Scale[k]
                          drift == exact - dts[k] * Unit
                      IN  IF MayRestart
                          THEN -written[k] * Unit < drift /\ drift < written[k] * Unit
                          ELSE 0 <= drift /\ drift < written[k] * Unit
    BY DEF DriftBounded
  <2>1. written[k] \in Nat /\ -written[k] * Unit = -(written[k] * Unit)
    BY DEF TimeInv, MuxInv, MuxType
  <2> QED BY <2>1 DEF TimeInv, DriftInv, Drift
<1> QED BY <1>1, TimeInvariant, PTL

(* The fragments of a track tile its time: each begins where the durations of
   the one before end, up to whole wraps of a duration. *)
THEOREM FragmentsTileTime == Spec => []FragmentsTile
<1>1. TimeInv => FragmentsTile
  <2> SUFFICES ASSUME TimeInv, NEW k \in Tracks
               PROVE  LET all == fragments[k] \o IF sampleIndex[k] = 0 THEN <<>>
                                   ELSE <<[moof |-> moof[k], data |-> buffer[k]]>>
                      IN  \A i \in DOMAIN all \ {1} :
                            (all[i].moof.time - all[i - 1].moof.time
                               - Total(all[i - 1].moof.entries)) % Wrap = 0
    BY DEF FragmentsTile
  <2> DEFINE fs == fragments[k]
             r == [moof |-> moof[k], data |-> buffer[k]]
             gs == Append(fs, r)
  <2>1. /\ fs \in Seq(Returned) /\ r \in Returned /\ r.moof = moof[k]
        /\ \A i \in DOMAIN fs \ {1} : Ends(fs[i - 1].moof, fs[i].moof.time)
        /\ fs # <<>> => Ends(fs[Len(fs)].moof, IF sampleIndex[k] = 0 THEN dts[k] ELSE moof[k].time)
    BY DEF TimeInv, TileInv, Tiled, MuxInv, MuxType, Returned
  <2> HIDE DEF fs, r
  <2>2. CASE sampleIndex[k] = 0
    <3>1. fs \o <<>> = fs
      BY <2>1
    <3> QED BY <2>1, <2>2, <3>1 DEF Ends, fs
  <2>3. CASE sampleIndex[k] # 0
    <3>1. fs \o <<r>> = gs
      BY <2>1
    <3>2. \A i \in DOMAIN gs \ {1} : Ends(gs[i - 1].moof, gs[i].moof.time)
      BY <2>1, <2>3, OneMoreTile
    <3> QED BY <2>3, <3>1, <3>2 DEF Ends, fs, r
  <2> QED BY <2>2, <2>3
<1> QED BY <1>1, TimeInvariant, PTL
=============================================================================
