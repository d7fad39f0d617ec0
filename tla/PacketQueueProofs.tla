------------------------- MODULE PacketQueueProofs -------------------------
(***************************************************************************)
(* Proofs about PacketQueue for any initial capacity, any number of        *)
(* cursors, packets and GOP limits: the types, the contents of the ring,   *)
(* the wakeups, where a cursor of DelayedGopCount starts, and that the     *)
(* queue implements PacketLog.                                             *)
(*                                                                         *)
(* The ring's contents rest on one fact of arithmetic: positions less than *)
(* n apart have different slots in a slice of n.                           *)
(***************************************************************************)
EXTENDS PacketQueue, FiniteSetTheorems, TLAPS

\* A slot is a valid index, and equal slots of close positions are the same.
LEMMA SlotRange ==
  ASSUME NEW n \in Nat \ {0}, NEW i \in Nat
  PROVE  Slot(i, n) \in 0..n - 1
  BY DEF Slot

LEMMA SlotInjective ==
  ASSUME NEW n \in Nat \ {0}, NEW i \in Nat, NEW j \in Nat,
         i <= j, j < i + n, Slot(i, n) = Slot(j, n)
  PROVE  i = j
<1> DEFINE a == i \div n
           b == j \div n
           r == i % n
<1>1. /\ a \in Int /\ b \in Int /\ r \in 0..n - 1
      /\ i = n * a + r
      /\ j = n * b + r
  BY DEF Slot
<1>2. j - i = n * (b - a)
  BY <1>1
<1>3. ~(b - a >= 1)
  BY <1>1, <1>2
<1>4. ~(b - a <= -1)
  BY <1>1, <1>2
<1> QED
  BY <1>1, <1>3, <1>4

\* Growing keeps every valid position's packet, and makes room.
LEMMA GrownKeeps ==
  ASSUME TypeOK, RingHoldsWindow, NEW n \in Nat \ {0}, n >= cap
  PROVE  /\ Grown(n) \in [0..n - 1 -> Packets \union {Empty}]
         /\ \A i \in head..tail - 1 : Grown(n)[Slot(i, n)] = Get(i)
<1>1. ASSUME NEW i \in head..tail - 1 PROVE Get(i) \in Packets \union {Empty}
  <2>1. i \in Nat /\ cap \in Nat \ {0}
    BY DEF TypeOK
  <2>2. Slot(i, cap) \in 0..cap - 1
    BY <2>1, SlotRange
  <2> QED BY <2>2 DEF Get, TypeOK
<1>2. ASSUME NEW i \in head..tail - 1
      PROVE  /\ Slot(i, n) \in 0..n - 1
             /\ (CHOOSE j \in head..tail - 1 : Slot(j, n) = Slot(i, n)) = i
  <2>1. i \in Nat /\ tail - head <= n /\ head \in Nat /\ tail \in Nat
    BY DEF TypeOK, RingHoldsWindow
  <2>2. ASSUME NEW j \in head..tail - 1, Slot(j, n) = Slot(i, n) PROVE j = i
    <3>1. j \in Nat /\ i < j + n /\ j < i + n
      BY <2>1
    <3> QED BY <2>1, <2>2, <3>1, SlotInjective
  <2> DEFINE j == CHOOSE k \in head..tail - 1 : Slot(k, n) = Slot(i, n)
  <2>3. j \in head..tail - 1 /\ Slot(j, n) = Slot(i, n)
    OBVIOUS
  <2> QED BY <2>1, <2>2, <2>3, SlotRange
<1>3. ASSUME NEW s \in 0..n - 1
      PROVE  (IF \E i \in head..tail - 1 : Slot(i, n) = s
              THEN Get(CHOOSE i \in head..tail - 1 : Slot(i, n) = s)
              ELSE Empty) \in Packets \union {Empty}
  <2>1. CASE \E i \in head..tail - 1 : Slot(i, n) = s
    <3>1. PICK i \in head..tail - 1 : Slot(i, n) = s
      BY <2>1
    <3> QED BY <1>1, <1>2, <3>1
  <2>2. CASE ~\E i \in head..tail - 1 : Slot(i, n) = s
    BY <2>2
  <2> QED BY <2>1, <2>2
<1>4. Grown(n) \in [0..n - 1 -> Packets \union {Empty}]
  BY <1>3 DEF Grown
<1>5. ASSUME NEW i \in head..tail - 1 PROVE Grown(n)[Slot(i, n)] = Get(i)
  BY <1>2 DEF Grown
<1> QED BY <1>4, <1>5

\* After Push the slots of head..tail hold the old window and the new packet.
LEMMA PushedHolds ==
  ASSUME TypeOK, RingHoldsWindow, NEW p \in Packets, NEW n,
         n = IF count = cap THEN 2 * cap ELSE cap
  PROVE  /\ n \in Nat \ {0} /\ tail - head < n
         /\ Pushed(p, n) \in [0..n - 1 -> Packets \union {Empty}]
         /\ \A i \in head..tail :
              Pushed(p, n)[Slot(i, n)] = Append(written, p)[i + 1]
<1>1. /\ n \in Nat \ {0} /\ n >= cap /\ tail - head < n
      /\ head \in Nat /\ tail \in Nat
  BY DEF TypeOK, RingHoldsWindow
<1> DEFINE room == IF n = cap THEN pkts ELSE Grown(n)
<1>2. /\ room \in [0..n - 1 -> Packets \union {Empty}]
      /\ \A i \in head..tail - 1 : room[Slot(i, n)] = written[i + 1]
  <2>1. CASE n = cap
    BY <2>1 DEF TypeOK, RingHoldsWindow, Get
  <2>2. CASE n # cap
    BY <1>1, <2>2, GrownKeeps DEF RingHoldsWindow
  <2> QED BY <2>1, <2>2
<1> HIDE DEF room
<1>3. Pushed(p, n) = [room EXCEPT ![Slot(tail, n)] = p]
  BY DEF Pushed, room
<1>4. Slot(tail, n) \in 0..n - 1
  BY <1>1, SlotRange
<1>5. ASSUME NEW i \in head..tail - 1 PROVE Slot(i, n) # Slot(tail, n)
  BY <1>1, SlotInjective
<1>6. ASSUME NEW i \in head..tail - 1 PROVE Slot(i, n) \in 0..n - 1
  BY <1>1, SlotRange
<1>7. ASSUME NEW i \in head..tail
      PROVE  Pushed(p, n)[Slot(i, n)] = Append(written, p)[i + 1]
  <2>1. written \in Seq(Packets) /\ tail = Len(written)
    BY DEF TypeOK, RingHoldsWindow
  <2>2. CASE i = tail
    <3>1. Pushed(p, n)[Slot(i, n)] = p
      BY <1>2, <1>3, <1>4, <2>2
    <3>2. Append(written, p)[i + 1] = p
      BY <2>1, <2>2
    <3> QED BY <3>1, <3>2
  <2>3. CASE i # tail
    <3>1. i \in head..tail - 1
      BY <1>1, <2>3
    <3>2. Pushed(p, n)[Slot(i, n)] = written[i + 1]
      BY <1>2, <1>3, <1>5, <1>6, <3>1
    <3>3. Append(written, p)[i + 1] = written[i + 1]
      BY <1>1, <2>1, <3>1
    <3> QED BY <3>2, <3>3
  <2> QED BY <2>2, <2>3
<1> QED BY <1>1, <1>2, <1>3, <1>4, <1>7

\* Pop clears no slot of a position that stays.
LEMMA PoppedKeeps ==
  ASSUME TypeOK, NEW n \in Nat \ {0}, tail - head < n,
         NEW ring \in [0..n - 1 -> Packets \union {Empty}], NEW h \in head..tail
  PROVE  /\ Popped(ring, n, h) \in [0..n - 1 -> Packets \union {Empty}]
         /\ \A i \in h..tail : Popped(ring, n, h)[Slot(i, n)] = ring[Slot(i, n)]
<1>1. head \in Nat /\ tail \in Nat
  BY DEF TypeOK
<1>2. Popped(ring, n, h) \in [0..n - 1 -> Packets \union {Empty}]
  BY DEF Popped
<1>3. ASSUME NEW i \in h..tail
      PROVE  Popped(ring, n, h)[Slot(i, n)] = ring[Slot(i, n)]
  <2>1. i \in Nat /\ Slot(i, n) \in 0..n - 1
    BY <1>1, SlotRange
  <2>2. ASSUME NEW g \in head..h - 1 PROVE Slot(g, n) # Slot(i, n)
    BY <1>1, <2>1, SlotInjective
  <2> QED BY <2>1, <2>2 DEF Popped
<1> QED BY <1>2, <1>3

\* WritePacket as a whole: what it may do to the ring and to curgopcount.
LEMMA WriteStep ==
  ASSUME TypeOK, RingHoldsWindow, NEW p \in Packets, WritePacket(p)
  PROVE  /\ cap' \in Nat \ {0}
         /\ pkts' \in [0..cap' - 1 -> Packets \union {Empty}]
         /\ head' \in head..tail /\ tail' = tail + 1
         /\ count' = tail' - head' /\ count' <= cap'
         /\ curgopcount' \in Int
         /\ written' = Append(written, p)
         /\ \A i \in head'..tail : Get(i)' = written'[i + 1]
<1> DEFINE n == IF count = cap THEN 2 * cap ELSE cap
           ring == Pushed(p, n)
           Keys(h) == {i \in head..h - 1 : IsVideoKey(ring[Slot(i, n)])}
           Counted(h) == curgopcount + (IF IsVideoKey(p) THEN 1 ELSE 0)
                           - Cardinality(Keys(h))
<1>1. PICK h \in head..tail :
        /\ pkts' = Popped(ring, n, h) /\ cap' = n /\ head' = h
        /\ tail' = tail + 1 /\ count' = count + 1 - (h - head)
        /\ curgopcount' = Counted(h)
  BY DEF WritePacket
<1>2. written' = Append(written, p)
  BY DEF WritePacket
<1>3. /\ n \in Nat \ {0} /\ tail - head < n
      /\ ring \in [0..n - 1 -> Packets \union {Empty}]
      /\ \A i \in head..tail : ring[Slot(i, n)] = Append(written, p)[i + 1]
  BY PushedHolds
<1>4. Cardinality(Keys(h)) \in Nat
  <2>1. IsFiniteSet(head..h - 1)
    BY FS_Interval DEF TypeOK
  <2>2. Keys(h) \subseteq head..h - 1
    OBVIOUS
  <2> QED BY <2>1, <2>2, FS_Subset, FS_CardinalityType
<1> HIDE DEF n, ring, Keys
<1>5. /\ Popped(ring, n, h) \in [0..n - 1 -> Packets \union {Empty}]
      /\ \A i \in h..tail : Popped(ring, n, h)[Slot(i, n)] = ring[Slot(i, n)]
  BY <1>3, PoppedKeeps
<1>6. head \in Nat /\ tail \in Nat /\ count = tail - head /\ curgopcount \in Int
  BY DEF TypeOK, RingHoldsWindow
<1>7. ASSUME NEW i \in h..tail PROVE Get(i)' = written'[i + 1]
  <2>1. i \in head..tail
    BY <1>6
  <2> QED BY <1>1, <1>2, <1>3, <1>5, <2>1 DEF Get
<1>8. curgopcount' \in Int
  BY <1>1, <1>4, <1>6
<1>9. head' \in head..tail /\ tail' = tail + 1 /\ cap' = n
  BY <1>1
<1>10. count' = tail' - head' /\ count' <= cap'
  BY <1>1, <1>3, <1>6
<1>11. \A i \in head'..tail : Get(i)' = written'[i + 1]
  BY <1>1, <1>7
<1> QED
  BY <1>1, <1>2, <1>3, <1>5, <1>8, <1>9, <1>10, <1>11

\* The positions a cursor may start from are integers.
LEMMA InitPosesType ==
  ASSUME TypeOK, NEW c \in Cursors
  PROVE  InitPoses(c) \subseteq Int
<1>1. DelayedTimePos \in Int /\ DelayedGopPoses \subseteq Int
  BY DelayAssumption DEF TypeOK, DelayedTimePos, DelayedGopPoses
<1> QED
  BY <1>1, StartKindsAssumption DEF InitPoses, TypeOK

\* What one stay of ReadPacket under the lock does, whatever the cursor's kind.
LEMMA ReadStep ==
  ASSUME TypeOK, RingHoldsWindow, NEW c \in Cursors, ReadPacket(c)
  PROVE  \E i \in head..tail :
           /\ gotpos[c] => i = Clamped(pos[c])
           /\ \/ /\ i < tail
                 /\ got' = [got EXCEPT ![c] = Item(i, Get(i))]
                 /\ pos' = [pos EXCEPT ![c] = i + 1]
                 /\ rpc' = [rpc EXCEPT ![c] = "idle"]
              \/ /\ i = tail
                 /\ got' = [got EXCEPT ![c] = IF closed THEN Eof ELSE @]
                 /\ pos' = [pos EXCEPT ![c] = i]
                 /\ rpc' = [rpc EXCEPT ![c] = IF closed THEN "idle" ELSE "packetWait"]
<1>1. PICK p \in IF gotpos[c] THEN {pos[c]} ELSE InitPoses(c) :
        LET i == Clamped(p) IN
          \/ /\ IsValidPos(i)
             /\ got' = [got EXCEPT ![c] = Item(i, Get(i))]
             /\ pos' = [pos EXCEPT ![c] = i + 1]
             /\ rpc' = [rpc EXCEPT ![c] = "idle"]
          \/ /\ ~IsValidPos(i)
             /\ got' = [got EXCEPT ![c] = IF closed THEN Eof ELSE @]
             /\ pos' = [pos EXCEPT ![c] = i]
             /\ rpc' = [rpc EXCEPT ![c] = IF closed THEN "idle" ELSE "packetWait"]
  BY DEF ReadPacket
<1>2. p \in Int
  BY <1>1, InitPosesType DEF TypeOK
<1>3. Clamped(p) \in head..tail
  BY <1>2 DEF Clamped, TypeOK, RingHoldsWindow
<1>4. IsValidPos(Clamped(p)) <=> Clamped(p) < tail
  BY <1>3 DEF IsValidPos, TypeOK
<1>5. ~IsValidPos(Clamped(p)) => Clamped(p) = tail
  BY <1>3, <1>4 DEF TypeOK
<1>6. gotpos[c] => p = pos[c]
  BY <1>1
<1> QED
  BY <1>1, <1>3, <1>4, <1>5, <1>6

\* Types and ring contents together: an index of the ring has the right type
\* because the window fits into it.
THEOREM QueueInvariant == Spec => [](TypeOK /\ RingHoldsWindow)
<1> USE InitCapAssumption, GopCountsAssumption
    DEF bufVars, queueVars, cursorVars, Packets, VideoIdx, ReaderPCs
<1>1. Init => TypeOK /\ RingHoldsWindow
  <2> SUFFICES ASSUME Init PROVE TypeOK /\ RingHoldsWindow
    OBVIOUS
  <2>1. cap \in Nat \ {0} /\ head = 0 /\ tail = 0 /\ count = 0 /\ written = <<>>
    BY DEF Init
  <2>2. RingHoldsWindow
    BY <2>1 DEF RingHoldsWindow
  <2>3. pkts \in [0..cap - 1 -> Packets \union {Empty}]
    BY DEF Init
  <2>4. TypeOK
    <3>1. written \in Seq(Packets)
      BY <2>1
    <3>2. got \in [Cursors -> {Nothing, Eof} \union ({"packet"} \X Nat \X Packets)]
      BY DEF Init
    <3>3. /\ curgopcount \in Int /\ maxgopcount \in Int
          /\ videoidx \in {-1, VideoIdx}
      BY DEF Init
    <3>8. streams \in BOOLEAN /\ closed \in BOOLEAN
      BY DEF Init
    <3>4. start \in [Cursors -> StartKinds] /\ gotpos \in [Cursors -> BOOLEAN]
      BY DEF Init
    <3>5. pos \in [Cursors -> Nat]
      BY DEF Init
    <3>6. rpc \in [Cursors -> ReaderPCs]
      BY DEF Init
    <3> QED BY <2>1, <2>3, <3>1, <3>2, <3>3, <3>4, <3>5, <3>6, <3>8 DEF TypeOK
  <2> QED BY <2>2, <2>4
<1>2. TypeOK /\ RingHoldsWindow /\ [Next]_vars => (TypeOK /\ RingHoldsWindow)'
  <2> SUFFICES ASSUME TypeOK, RingHoldsWindow, [Next]_vars
               PROVE  TypeOK' /\ RingHoldsWindow'
    OBVIOUS
  <2>1. ASSUME NEW b \in BOOLEAN, WriteHeader(b) PROVE TypeOK' /\ RingHoldsWindow'
    BY <2>1 DEF WriteHeader, Broadcast, TypeOK, RingHoldsWindow, Get
  <2>2. ASSUME NEW n \in GopCounts, SetMaxGopCount(n)
        PROVE  TypeOK' /\ RingHoldsWindow'
    BY <2>2 DEF SetMaxGopCount, TypeOK, RingHoldsWindow, Get
  <2>3. ASSUME NEW p \in Packets, WritePacket(p) PROVE TypeOK' /\ RingHoldsWindow'
    <3>1. /\ cap' \in Nat \ {0}
          /\ pkts' \in [0..cap' - 1 -> Packets \union {Empty}]
          /\ head' \in head..tail /\ tail' = tail + 1
          /\ count' = tail' - head' /\ count' <= cap'
          /\ curgopcount' \in Int
          /\ written' = Append(written, p)
          /\ \A i \in head'..tail : Get(i)' = written'[i + 1]
      BY <2>3, WriteStep
    <3>2. head \in Nat /\ tail \in Nat /\ written \in Seq(Packets) /\ tail = Len(written)
      BY DEF TypeOK, RingHoldsWindow
    <3>3. /\ head' \in Nat /\ tail' \in Nat /\ count' \in Nat
          /\ written' \in Seq(Packets) /\ Len(written') = tail'
      BY <3>1, <3>2
    <3>9. rpc' \in [Cursors -> ReaderPCs]
      <4>1. Broadcast
        BY <2>3 DEF WritePacket
      <4> QED BY <4>1 DEF Broadcast, TypeOK
    <3>5. UNCHANGED <<maxgopcount, videoidx, streams, closed, start, gotpos, pos, got>>
      BY <2>3 DEF WritePacket
    <3>6. TypeOK'
      BY <3>1, <3>3, <3>5, <3>9 DEF TypeOK
    <3>7. RingHoldsWindow'
      <4>1. head'..tail' - 1 = head'..tail
        BY <3>1, <3>2
      <4>2. head' <= tail'
        BY <3>1, <3>2
      <4> QED BY <3>1, <3>3, <4>1, <4>2 DEF RingHoldsWindow
    <3> QED BY <3>6, <3>7
  <2>4. CASE Close
    BY <2>4 DEF Close, Broadcast, TypeOK, RingHoldsWindow, Get
  <2>5. ASSUME NEW c \in Cursors, ReadPacket(c) PROVE TypeOK' /\ RingHoldsWindow'
    <3>1. PICK i \in head..tail :
            \/ /\ i < tail
               /\ got' = [got EXCEPT ![c] = Item(i, Get(i))]
               /\ pos' = [pos EXCEPT ![c] = i + 1]
               /\ rpc' = [rpc EXCEPT ![c] = "idle"]
            \/ /\ i = tail
               /\ got' = [got EXCEPT ![c] = IF closed THEN Eof ELSE @]
               /\ pos' = [pos EXCEPT ![c] = i]
               /\ rpc' = [rpc EXCEPT ![c] = IF closed THEN "idle" ELSE "packetWait"]
      BY <2>5, ReadStep
    <3>0. head \in Nat /\ tail \in Nat /\ i \in Nat
      BY DEF TypeOK
    <3>2. ASSUME i < tail PROVE Get(i) \in Packets
      <4>1. i \in head..tail - 1 /\ i + 1 \in 1..Len(written)
        BY <3>0, <3>2 DEF RingHoldsWindow
      <4>2. written[i + 1] \in Packets
        BY <4>1 DEF TypeOK
      <4> QED BY <4>1, <4>2 DEF RingHoldsWindow
    <3>3. pos' \in [Cursors -> Nat] /\ rpc' \in [Cursors -> ReaderPCs]
      <4>1. \E x \in Nat : pos' = [pos EXCEPT ![c] = x]
        BY <3>0, <3>1
      <4>2. \E x \in ReaderPCs : rpc' = [rpc EXCEPT ![c] = x]
        BY <3>1
      <4> QED BY <4>1, <4>2 DEF TypeOK
    <3>4. got' \in [Cursors -> {Nothing, Eof} \union ({"packet"} \X Nat \X Packets)]
      <4> DEFINE Got == {Nothing, Eof} \union ({"packet"} \X Nat \X Packets)
      <4>1. got \in [Cursors -> Got]
        BY DEF TypeOK
      <4>2. i < tail => Item(i, Get(i)) \in Got
        BY <3>0, <3>2 DEF Item
      <4>3. got[c] \in Got /\ Eof \in Got
        BY <4>1
      <4>4. \E x \in Got : got' = [got EXCEPT ![c] = x]
        BY <3>1, <4>2, <4>3
      <4> HIDE DEF Got
      <4>5. got' \in [Cursors -> Got]
        BY <4>1, <4>4
      <4> QED BY <4>5 DEF Got
    <3>5. gotpos' \in [Cursors -> BOOLEAN]
      BY <2>5 DEF ReadPacket, TypeOK
    <3>6. UNCHANGED <<bufVars, queueVars, start, written>>
      BY <2>5 DEF ReadPacket
    <3> QED
      BY <3>3, <3>4, <3>5, <3>6 DEF TypeOK, RingHoldsWindow, Get
  <2>6. ASSUME NEW c \in Cursors, Streams(c) PROVE TypeOK' /\ RingHoldsWindow'
    BY <2>6 DEF Streams, TypeOK, RingHoldsWindow, Get
  <2>7. CASE UNCHANGED vars
    BY <2>7 DEF vars, TypeOK, RingHoldsWindow, Get
  <2> QED
    BY <2>1, <2>2, <2>3, <2>4, <2>5, <2>6, <2>7 DEF Next
<1> QED
  BY <1>1, <1>2, PTL DEF Spec

\* The ring is never wrong about a packet.
THEOREM RingCorrect == Spec => []RingHoldsWindow
<1>1. TypeOK /\ RingHoldsWindow => RingHoldsWindow
  OBVIOUS
<1> QED BY QueueInvariant, <1>1, PTL

\* Nobody sleeps through what it waits for; a cursor's position is never beyond
\* the end, which makes that inductive; and once something was written something
\* is kept, so that a cursor that finds nothing is at the end.
WakeupInv ==
  /\ NoLostWakeup
  /\ \A c \in Cursors : gotpos[c] => pos[c] <= tail
  /\ head < tail \/ tail = 0

LEMMA BroadcastWakes ==
  ASSUME Broadcast, TypeOK, NEW c \in Cursors
  PROVE  rpc'[c] \notin {"packetWait", "streamsWait"}
  BY DEF Broadcast, TypeOK, ReaderPCs

LEMMA WakeupInvariant == Spec => []WakeupInv
<1> USE DEF bufVars, queueVars, cursorVars, ReaderPCs
<1>1. Init => WakeupInv
  BY DEF Init, WakeupInv, NoLostWakeup
<1>2. TypeOK /\ RingHoldsWindow /\ WakeupInv /\ [Next]_vars => WakeupInv'
  <2> SUFFICES ASSUME TypeOK, RingHoldsWindow, WakeupInv, [Next]_vars PROVE WakeupInv'
    OBVIOUS
  <2>1. ASSUME NEW b \in BOOLEAN, WriteHeader(b) PROVE WakeupInv'
    BY <2>1, BroadcastWakes DEF WriteHeader, WakeupInv, NoLostWakeup
  <2>2. ASSUME NEW n \in GopCounts, SetMaxGopCount(n) PROVE WakeupInv'
    BY <2>2 DEF SetMaxGopCount, WakeupInv, NoLostWakeup
  <2>3. ASSUME NEW p \in Packets, WritePacket(p) PROVE WakeupInv'
    <3>1. Broadcast /\ UNCHANGED <<gotpos, pos>>
      BY <2>3 DEF WritePacket
    <3>2. /\ tail' = tail + 1 /\ tail \in Nat /\ pos \in [Cursors -> Nat]
          /\ head' \in head..tail /\ head \in Nat
      BY <2>3, WriteStep DEF TypeOK
    <3> QED BY <3>1, <3>2, BroadcastWakes DEF WakeupInv, NoLostWakeup
  <2>4. CASE Close
    BY <2>4, BroadcastWakes DEF Close, WakeupInv, NoLostWakeup
  <2>5. ASSUME NEW c \in Cursors, ReadPacket(c) PROVE WakeupInv'
    <3>1. PICK i \in head..tail :
            \/ /\ i < tail
               /\ pos' = [pos EXCEPT ![c] = i + 1]
               /\ rpc' = [rpc EXCEPT ![c] = "idle"]
            \/ /\ i = tail
               /\ pos' = [pos EXCEPT ![c] = i]
               /\ rpc' = [rpc EXCEPT ![c] = IF closed THEN "idle" ELSE "packetWait"]
      BY <2>5, ReadStep
    <3>2. /\ gotpos'[c] /\ \A d \in Cursors \ {c} : gotpos'[d] = gotpos[d]
          /\ UNCHANGED <<head, tail, closed, streams>>
      BY <2>5 DEF ReadPacket, TypeOK
    <3>3. /\ pos'[c] <= tail /\ rpc'[c] \in {"idle", "packetWait"}
          /\ rpc'[c] = "packetWait" => ~closed /\ pos'[c] = tail
          /\ \A d \in Cursors \ {c} : pos'[d] = pos[d] /\ rpc'[d] = rpc[d]
      BY <3>1 DEF TypeOK
    <3> QED BY <3>2, <3>3 DEF WakeupInv, NoLostWakeup
  <2>6. ASSUME NEW c \in Cursors, Streams(c) PROVE WakeupInv'
    BY <2>6 DEF Streams, WakeupInv, NoLostWakeup, TypeOK
  <2>7. CASE UNCHANGED vars
    BY <2>7 DEF vars, WakeupInv, NoLostWakeup
  <2> QED
    BY <2>1, <2>2, <2>3, <2>4, <2>5, <2>6, <2>7 DEF Next
<1> QED
  BY QueueInvariant, <1>1, <1>2, PTL DEF Spec

\* A cursor sleeps only when there is nothing for it.
THEOREM Wakeups == Spec => []NoLostWakeup
<1>1. WakeupInv => NoLostWakeup
  BY DEF WakeupInv
<1> QED BY WakeupInvariant, <1>1, PTL

\* The queue implements the packet log: every call maps to a step of the log or
\* leaves it as it is.
THEOREM QueueIsLog == Spec => IsPacketLog
<1> DEFINE next == [c \in Cursors |-> IF gotpos[c] THEN pos[c] ELSE -1]
<1> USE DEF bufVars, queueVars, cursorVars
<1>1. Init => Log!Init
  BY DEF Init, Log!Init, Nothing, Log!Nothing
<1>2. /\ TypeOK /\ RingHoldsWindow /\ WakeupInv /\ [Next]_vars
      => [Log!Next]_Log!vars
  <2> SUFFICES ASSUME TypeOK, RingHoldsWindow, WakeupInv, [Next]_vars
               PROVE  [Log!Next]_Log!vars
    OBVIOUS
  <2>0. /\ head \in Nat /\ tail \in Nat /\ pos \in [Cursors -> Nat]
        /\ head <= tail /\ tail = Len(written) /\ gotpos \in [Cursors -> BOOLEAN]
    BY DEF TypeOK, RingHoldsWindow
  <2>1. ASSUME NEW b \in BOOLEAN, WriteHeader(b) PROVE UNCHANGED Log!vars
    BY <2>1 DEF WriteHeader, Log!vars
  <2>2. ASSUME NEW n \in GopCounts, SetMaxGopCount(n) PROVE UNCHANGED Log!vars
    BY <2>2 DEF SetMaxGopCount, Log!vars
  <2>3. ASSUME NEW p \in Packets, WritePacket(p) PROVE Log!Put(p)
    <3>1. head' \in head..tail /\ written' = Append(written, p)
      BY <2>3, WriteStep
    <3>2. Len(written) < MaxWrites /\ UNCHANGED <<closed, gotpos, pos, got>>
      BY <2>3 DEF WritePacket
    <3> QED BY <2>0, <3>1, <3>2 DEF Log!Put
  <2>4. ASSUME Close PROVE Log!Close
    BY <2>4 DEF Close, Log!Close
  <2>5. ASSUME NEW c \in Cursors, ReadPacket(c)
        PROVE  \/ \E n \in head..Len(written) : Log!Deliver(c, n)
               \/ Log!End(c) \/ Log!Place(c) \/ UNCHANGED Log!vars
    <3>1. PICK i \in head..tail :
           /\ gotpos[c] => i = Clamped(pos[c])
           /\ \/ /\ i < tail
                 /\ got' = [got EXCEPT ![c] = Item(i, Get(i))]
                 /\ pos' = [pos EXCEPT ![c] = i + 1]
              \/ /\ i = tail
                 /\ got' = [got EXCEPT ![c] = IF closed THEN Eof ELSE @]
                 /\ pos' = [pos EXCEPT ![c] = i]
      BY <2>5, ReadStep
    <3>2. /\ gotpos' = [gotpos EXCEPT ![c] = TRUE]
          /\ UNCHANGED <<written, head, closed>>
      BY <2>5 DEF ReadPacket
    <3>3. next' = [next EXCEPT ![c] = pos'[c]]
      BY <2>0, <3>1, <3>2
    <3>4. gotpos[c] => pos[c] <= tail /\ next[c] = pos[c] /\ next[c] # -1
      BY <2>0 DEF WakeupInv
    <3>8. /\ i < tail => pos'[c] = i + 1
          /\ i = tail => pos'[c] = tail
      BY <2>0, <3>1
    <3>5. CASE i < tail
      <4> HIDE DEF next
      <4>1. Get(i) = written[i + 1]
        BY <2>0, <3>5 DEF RingHoldsWindow
      <4>5. got' = [got EXCEPT ![c] = Item(i, Get(i))]
        BY <2>0, <3>1, <3>5
      <4>2. got' = [got EXCEPT ![c] = Log!Item(i)] /\ next' = [next EXCEPT ![c] = i + 1]
        BY <3>3, <3>5, <3>8, <4>1, <4>5 DEF Item, Log!Item
      <4>3. next[c] # -1 => i = Log!Max2(next[c], head)
        <5>1. next[c] # -1 => gotpos[c]
          BY DEF next
        <5> QED BY <2>0, <3>1, <3>4, <3>5, <5>1 DEF Clamped, Log!Max2
      <4>4. i \in head..Len(written)
        BY <2>0
      <4> USE DEF next
      <4> QED
        BY <2>0, <3>2, <3>5, <4>2, <4>3, <4>4 DEF Log!Deliver
    <3>6. CASE i = tail /\ closed
      <4>1. got' = [got EXCEPT ![c] = Log!Eof] /\ next' = [next EXCEPT ![c] = Len(written)]
        <5> HIDE DEF next
        <5>1. got' = [got EXCEPT ![c] = IF closed THEN Eof ELSE @]
          BY <2>0, <3>1, <3>6
        <5> QED BY <2>0, <3>3, <3>6, <3>8, <5>1 DEF Eof, Log!Eof
      <4>2. next[c] \in {-1, Len(written)}
        <5>1. gotpos[c] => pos[c] = tail
          BY <2>0, <3>1, <3>4, <3>6 DEF Clamped, WakeupInv
        <5> QED BY <2>0, <5>1
      <4> QED BY <3>2, <3>6, <4>1, <4>2 DEF Log!End
    <3>7. CASE i = tail /\ ~closed
      <4>1. got' = got /\ next' = [next EXCEPT ![c] = Len(written)]
        <5> HIDE DEF next
        <5>1. got' = [got EXCEPT ![c] = IF closed THEN Eof ELSE @]
          BY <2>0, <3>1, <3>7
        <5>2. got' = got
          BY <3>7, <5>1 DEF TypeOK
        <5> QED BY <2>0, <3>3, <3>7, <3>8, <5>2
      <4>2. CASE gotpos[c]
        <5>1. pos[c] = tail
          BY <2>0, <3>1, <3>4, <3>7, <4>2 DEF Clamped, WakeupInv
        <5>2. next[c] = Len(written)
          BY <2>0, <4>2, <5>1
        <5>3. next' = next
          BY <4>1, <5>2
        <5> HIDE DEF next
        <5>4. UNCHANGED <<written, head, closed, next, got>>
          BY <3>2, <4>1, <5>3
        <5> USE DEF next
        <5> QED BY <5>4 DEF Log!vars
      <4>3. CASE ~gotpos[c]
        <5>1. next[c] = -1
          BY <4>3
        <5>2. Len(written) \in head..Len(written)
          BY <2>0
        <5> QED BY <3>2, <4>1, <5>1, <5>2 DEF Log!Place
      <4> QED BY <4>2, <4>3
    <3> QED BY <2>0, <3>1, <3>5, <3>6, <3>7
  <2>6. ASSUME NEW c \in Cursors, Streams(c) PROVE UNCHANGED Log!vars
    BY <2>6 DEF Streams, Log!vars
  <2>7. CASE UNCHANGED vars
    BY <2>7 DEF vars, Log!vars
  <2> QED
    BY <2>1, <2>2, <2>3, <2>4, <2>5, <2>6, <2>7 DEF Next, Log!Next
<1> QED
  BY QueueInvariant, WakeupInvariant, <1>1, <1>2, PTL DEF Spec, IsPacketLog, Log!Spec

-----------------------------------------------------------------------------
(* Where a cursor of DelayedGopCount starts.                                *)

\* Fewer key frames are behind a later position.
LEMMA FewerKeysBehind ==
  ASSUME TypeOK, NEW i \in Int, NEW j \in Int, i <= j
  PROVE  /\ Cardinality(KeysFrom(i)) \in Nat /\ Cardinality(KeysFrom(j)) \in Nat
         /\ Cardinality(KeysFrom(j)) <= Cardinality(KeysFrom(i))
         /\ j >= tail => Cardinality(KeysFrom(j)) = 0
<1>1. tail \in Int
  BY DEF TypeOK
<1>2. IsFiniteSet(i..tail - 1)
  BY <1>1, FS_Interval
<1>3. KeysFrom(i) \subseteq i..tail - 1 /\ KeysFrom(j) \subseteq KeysFrom(i)
  BY <1>1 DEF KeysFrom
<1>4. IsFiniteSet(KeysFrom(i))
  BY <1>2, <1>3, FS_Subset
<1>5. IsFiniteSet(KeysFrom(j)) /\ Cardinality(KeysFrom(j)) <= Cardinality(KeysFrom(i))
  BY <1>3, <1>4, FS_Subset
<1>6. j >= tail => KeysFrom(j) = {}
  BY <1>1 DEF KeysFrom
<1> QED BY <1>4, <1>5, <1>6, FS_CardinalityType, FS_EmptySet

\* The position DelayedGopCount looks for, once there are keys enough: the next
\* packet a cursor there returns is that of a position i that has them.
StartsAt(i) ==
  /\ i \in head..tail - 1
  /\ Cardinality(KeysFrom(i)) >= Delay
  /\ Cardinality(KeysFrom(i + 2)) < Delay

LEMMA GopPosition ==
  ASSUME TypeOK, RingHoldsWindow, videoidx # -1, Delay > 0,
         Cardinality(KeysFrom(head)) >= Delay, NEW p \in DelayedGopPoses
  PROVE  StartsAt(Clamped(p))
<1> DEFINE N(i) == Cardinality(KeysFrom(i))
<1>1. /\ head \in Nat /\ tail \in Nat /\ head <= tail
      /\ Delay \in Nat /\ Delay > 0 /\ N(head) >= Delay
  BY DelayAssumption DEF TypeOK, RingHoldsWindow
<1>2. /\ p \in head - 1..tail - 1
      /\ p = head - 1 \/ N(p + 1) >= Delay
      /\ \A j \in p + 1..tail - 1 : N(j + 1) < Delay
  BY DEF DelayedGopPoses
<1>3. \A i, j \in Int : i <= j => /\ N(i) \in Nat /\ N(j) \in Nat /\ N(j) <= N(i)
                                  /\ j >= tail => N(j) = 0
  BY FewerKeysBehind
<1> HIDE DEF N
<1>4. head < tail
  <2>1. N(head) # 0
    BY <1>1
  <2> QED BY <1>1, <1>3, <2>1
<1> DEFINE i == Clamped(p)
<1>5. i = IF p = head - 1 THEN head ELSE p
  BY <1>1, <1>2, <1>4 DEF Clamped
<1> HIDE DEF i
<1>6. i \in head..tail - 1 /\ p <= i /\ i <= p + 1
  BY <1>1, <1>2, <1>4, <1>5
<1>7. N(i) >= Delay
  <2>1. CASE p = head - 1
    BY <1>1, <1>5, <2>1
  <2>2. CASE p # head - 1
    <3>1. N(p + 1) <= N(p) /\ N(p) \in Nat /\ N(p + 1) \in Nat
      BY <1>1, <1>2, <1>3
    <3> QED BY <1>1, <1>2, <1>5, <2>2, <3>1
  <2> QED BY <2>1, <2>2
<1>8. N(i + 2) < Delay
  <2>1. CASE p + 1 <= tail - 1
    <3>1. N((p + 1) + 1) < Delay
      BY <1>1, <1>2, <2>1
    <3>2. N(i + 2) <= N((p + 1) + 1) /\ N(i + 2) \in Nat /\ N((p + 1) + 1) \in Nat
      BY <1>1, <1>2, <1>3, <1>6
    <3> QED BY <1>1, <3>1, <3>2
  <2>2. CASE p + 1 >= tail
    <3>1. N(i + 2) = 0
      BY <1>1, <1>2, <1>3, <1>6, <2>2
    <3> QED BY <1>1, <3>1
  <2> QED BY <1>1, <1>2, <2>1, <2>2
<1> QED BY <1>6, <1>7, <1>8 DEF StartsAt, N, i

\* A cursor of DelayedGopCount starts where what it was made for can be decoded,
\* whatever was written, dropped and counted before its first ReadPacket.
THEOREM GopCursorsStart == Spec => GopCursorStart
<1> DEFINE A(c) ==
      /\ start[c] = "gop" /\ ~gotpos[c] /\ gotpos'[c]
      /\ videoidx # -1 /\ Delay > 0 /\ Cardinality(KeysFrom(head)) >= Delay
      => /\ Cardinality(KeysFrom(pos'[c] - 1)) >= Delay
         /\ Cardinality(KeysFrom(pos'[c] + 1)) < Delay
<1>1. TypeOK /\ RingHoldsWindow /\ [Next]_vars => [\A c \in Cursors : A(c)]_vars
  <2> SUFFICES ASSUME TypeOK, RingHoldsWindow, Next, NEW c \in Cursors,
                      start[c] = "gop", ~gotpos[c], gotpos'[c],
                      videoidx # -1, Delay > 0, Cardinality(KeysFrom(head)) >= Delay
               PROVE  /\ Cardinality(KeysFrom(pos'[c] - 1)) >= Delay
                      /\ Cardinality(KeysFrom(pos'[c] + 1)) < Delay
    OBVIOUS
  <2>1. gotpos' # gotpos
    OBVIOUS
  <2>2. PICK d \in Cursors : ReadPacket(d)
    BY <2>1 DEF Next, WriteHeader, SetMaxGopCount, WritePacket, Close, Streams, cursorVars
  <2>3. gotpos' = [gotpos EXCEPT ![d] = TRUE]
    BY <2>2 DEF ReadPacket
  <2>4. d = c
    BY <2>3 DEF TypeOK
  <2>5. PICK p \in DelayedGopPoses :
          \/ IsValidPos(Clamped(p)) /\ pos' = [pos EXCEPT ![c] = Clamped(p) + 1]
          \/ ~IsValidPos(Clamped(p))
    BY <2>2, <2>4 DEF ReadPacket, InitPoses
  <2> DEFINE i == Clamped(p)
  <2>6. StartsAt(i)
    BY GopPosition
  <2>7. head \in Nat /\ tail \in Nat /\ i \in Int /\ IsValidPos(i)
    BY <2>6 DEF StartsAt, IsValidPos, TypeOK
  <2>8. pos'[c] = i + 1
    BY <2>5, <2>7 DEF TypeOK
  <2> HIDE DEF i
  <2>9. pos'[c] - 1 = i /\ pos'[c] + 1 = i + 2
    BY <2>7, <2>8
  <2> QED BY <2>6, <2>9 DEF StartsAt
<1>2. [][\A c \in Cursors : A(c)]_vars => GopCursorStart
  BY PTL DEF GopCursorStart
<1> QED BY <1>1, <1>2, QueueInvariant, PTL DEF Spec
=============================================================================
