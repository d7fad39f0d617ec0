---------------------------- MODULE PacketQueue ----------------------------
(***************************************************************************)
(* The packet queue of av/pubsub/queue.go on the ring buffer of            *)
(* av/pktque/buf.go: one lock, one condition variable, any number of       *)
(* cursors.  Writers hold the lock for a whole call, so a call is a step;  *)
(* a cursor's call is a step per stay under the lock, and sleeps in        *)
(* cond.Wait between them.                                                 *)
(*                                                                         *)
(* A packet is what the queue looks at: a key frame or another packet of   *)
(* the video stream (index VideoIdx), or a packet of the other stream.     *)
(* Packet times are the packets' numbers.  Buf.Size, which nothing reads,  *)
(* and the overflow of BufPos are left out.                                *)
(***************************************************************************)
EXTENDS Integers, Sequences, FiniteSets

CONSTANTS
  Cursors,
  StartKinds,    \* constructors used: "latest", "oldest", "time", "gop"
  Delay,         \* argument of DelayedTime and DelayedGopCount
  GopCounts,     \* arguments of SetMaxGopCount
  InitCap,       \* 64 in NewBuf
  MaxWrites      \* bound on the calls of WritePacket

ASSUME InitCapAssumption == InitCap \in Nat \ {0}
ASSUME DelayAssumption == Delay \in Nat
ASSUME GopCountsAssumption == GopCounts \subseteq Nat \ {0}
ASSUME MaxWritesAssumption == MaxWrites \in Nat
ASSUME StartKindsAssumption == StartKinds \subseteq {"latest", "oldest", "time", "gop"}

Packets == {"key", "delta", "audio"}
Empty == "empty"
VideoIdx == 0
Idx(p) == IF p = "audio" THEN 1 ELSE VideoIdx

VARIABLES
  pkts, cap, head, tail, count,                  \* Buf
  curgopcount, maxgopcount, videoidx, streams, closed,   \* Queue
  start, gotpos, pos,                            \* QueueCursor
  rpc,        \* where each cursor's goroutine is
  written,    \* history: every packet pushed
  got         \* history: what each cursor's last ReadPacket returned

bufVars == <<pkts, cap, head, tail, count>>
queueVars == <<curgopcount, maxgopcount, videoidx, streams, closed>>
cursorVars == <<start, gotpos, pos, rpc, got>>
vars == <<bufVars, queueVars, cursorVars, written>>

ReaderPCs == {"idle", "packetWait", "packetWoken", "streamsWait", "streamsWoken"}
Nothing == <<"nothing">>
Eof == <<"eof">>
Item(n, p) == <<"packet", n, p>>

Init ==
  /\ pkts = [s \in 0..InitCap - 1 |-> Empty]
  /\ cap = InitCap
  /\ head = 0 /\ tail = 0 /\ count = 0
  /\ curgopcount = 0
  /\ maxgopcount = 2
  /\ videoidx = -1
  /\ streams = FALSE
  /\ closed = FALSE
  /\ start \in [Cursors -> StartKinds]
  /\ gotpos = [c \in Cursors |-> FALSE]
  /\ pos = [c \in Cursors |-> 0]
  /\ rpc = [c \in Cursors |-> "idle"]
  /\ written = <<>>
  /\ got = [c \in Cursors |-> Nothing]

-----------------------------------------------------------------------------
(* Buf.  A position addresses a slot by its remainder; the code masks it   *)
(* with the power of two len(pkts) - 1.                                    *)
Slot(i, n) == i % n
Get(i) == pkts[Slot(i, cap)]
IsValidPos(i) == head <= i /\ i < tail

\* Mutant: grow copies the slots instead of the positions.
Grown_BySlot(n) ==
  [s \in 0..n - 1 |-> IF s < cap THEN pkts[s] ELSE Empty]

\* grow copies the valid positions to their slots in a slice twice as long.
Grown(n) ==
  [s \in 0..n - 1 |->
     IF \E i \in head..tail - 1 : Slot(i, n) = s
     THEN Get(CHOOSE i \in head..tail - 1 : Slot(i, n) = s)
     ELSE Empty]

Pushed(p, n) ==
  LET room == IF n = cap THEN pkts ELSE Grown(n)
  IN  [room EXCEPT ![Slot(tail, n)] = p]

\* Pop clears the slots of the positions it takes, here all those below h.
Popped(ring, n, h) ==
  [s \in 0..n - 1 |-> IF \E i \in head..h - 1 : Slot(i, n) = s THEN Empty ELSE ring[s]]

IsVideoKey(p) == p = "key" /\ Idx(p) = videoidx

-----------------------------------------------------------------------------
\* The condition variable: a broadcast readies every sleeping goroutine.
Broadcast ==
  rpc' = [c \in Cursors |-> CASE rpc[c] = "packetWait" -> "packetWoken"
                              [] rpc[c] = "streamsWait" -> "streamsWoken"
                              [] OTHER -> rpc[c]]

\* WriteHeader.  A header without video leaves videoidx as it was.
WriteHeader(hasVideo) ==
  /\ streams' = TRUE
  /\ videoidx' = IF hasVideo THEN VideoIdx ELSE videoidx
  /\ Broadcast
  /\ UNCHANGED <<bufVars, curgopcount, maxgopcount, closed, start, gotpos, pos,
                 got, written>>

SetMaxGopCount(n) ==
  /\ maxgopcount' = n
  /\ UNCHANGED <<bufVars, curgopcount, videoidx, streams, closed, cursorVars,
                 written>>

\* Mutant: Close forgets the sleepers.
Close_Silent ==
  /\ closed' = TRUE
  /\ UNCHANGED <<bufVars, curgopcount, maxgopcount, videoidx, streams, rpc, start,
                 gotpos, pos, got, written>>

Close ==
  /\ closed' = TRUE
  /\ Broadcast
  /\ UNCHANGED <<bufVars, curgopcount, maxgopcount, videoidx, streams, start,
                 gotpos, pos, got, written>>

\* WritePacket pushes p and then pops until fewer than maxgopcount key frames
\* are counted or one packet is left.  Counted(h) is curgopcount once the
\* positions below h are popped.
WritePacket(p) ==
  /\ Len(written) < MaxWrites
  /\ LET n == IF count = cap THEN 2 * cap ELSE cap
         ring == Pushed(p, n)
         Keys(h) == {i \in head..h - 1 : IsVideoKey(ring[Slot(i, n)])}
         Counted(h) == curgopcount + (IF IsVideoKey(p) THEN 1 ELSE 0)
                         - Cardinality(Keys(h))
         Enough(h) == Counted(h) < maxgopcount \/ h = tail
     IN  \E h \in head..tail :
           /\ Enough(h)
           /\ \A g \in head..h - 1 : ~Enough(g)
           /\ pkts' = Popped(ring, n, h)
           /\ cap' = n
           /\ head' = h
           /\ tail' = tail + 1
           /\ count' = count + 1 - (h - head)
           /\ curgopcount' = Counted(h)
  /\ written' = Append(written, p)
  /\ Broadcast
  /\ UNCHANGED <<maxgopcount, videoidx, streams, closed, start, gotpos, pos, got>>

-----------------------------------------------------------------------------
\* The init function of each constructor, run by the first ReadPacket.
\* DelayedGopCount steps once more after it has met the last key frame.
DelayedTimePos ==
  IF head < tail /\ tail - 1 - Delay - 1 >= head THEN tail - 1 - Delay - 1
                                                 ELSE head - 1
KeysFrom(i) == {j \in i..tail - 1 : j >= head /\ IsVideoKey(Get(j))}
\* Mutant: the loop compares with <= and goes one key frame too far back.
DelayedGopPoses_OneMore ==
  IF videoidx = -1 THEN {tail - 1}
  ELSE {i \in head - 1..tail - 1 :
          /\ i = head - 1 \/ Cardinality(KeysFrom(i + 1)) > Delay
          /\ \A j \in i + 1..tail - 1 : Cardinality(KeysFrom(j + 1)) <= Delay}
DelayedGopPoses ==
  IF videoidx = -1 THEN {tail - 1}
  ELSE {i \in head - 1..tail - 1 :
          /\ i = head - 1 \/ Cardinality(KeysFrom(i + 1)) >= Delay
          /\ \A j \in i + 1..tail - 1 : Cardinality(KeysFrom(j + 1)) < Delay}

\* The one position the cursor's init function returns.
InitPoses(c) ==
  CASE start[c] = "latest" -> {tail}
    [] start[c] = "oldest" -> {head}
    [] start[c] = "time"   -> {DelayedTimePos}
    [] start[c] = "gop"    -> DelayedGopPoses

\* Mutant: an overtaken cursor jumps to the end.
Clamped_ToTail(i) == IF i < head \/ i > tail THEN tail ELSE i
Clamped(i) == IF i < head THEN head ELSE IF i > tail THEN tail ELSE i

\* One stay of ReadPacket under the lock: a packet, io.EOF, or cond.Wait.
ReadPacket(c) ==
  /\ rpc[c] \in {"idle", "packetWoken"}
  /\ gotpos' = [gotpos EXCEPT ![c] = TRUE]
  /\ \E p \in IF gotpos[c] THEN {pos[c]} ELSE InitPoses(c) :
       LET i == Clamped(p) IN
         \/ /\ IsValidPos(i)
            /\ got' = [got EXCEPT ![c] = Item(i, Get(i))]
            /\ pos' = [pos EXCEPT ![c] = i + 1]
            /\ rpc' = [rpc EXCEPT ![c] = "idle"]
         \/ /\ ~IsValidPos(i)
            /\ got' = [got EXCEPT ![c] = IF closed THEN Eof ELSE @]
            /\ pos' = [pos EXCEPT ![c] = i]
            /\ rpc' = [rpc EXCEPT ![c] = IF closed THEN "idle" ELSE "packetWait"]
  /\ UNCHANGED <<bufVars, queueVars, start, written>>

\* Mutant: Streams waits for the header only.
Streams_Deaf(c) ==
  /\ rpc[c] \in {"idle", "streamsWoken"}
  /\ rpc' = [rpc EXCEPT ![c] = IF streams THEN "idle" ELSE "streamsWait"]
  /\ UNCHANGED <<bufVars, queueVars, start, gotpos, pos, got, written>>

\* One stay of Streams under the lock.
Streams(c) ==
  /\ rpc[c] \in {"idle", "streamsWoken"}
  /\ rpc' = [rpc EXCEPT ![c] = IF streams \/ closed THEN "idle" ELSE "streamsWait"]
  /\ UNCHANGED <<bufVars, queueVars, start, gotpos, pos, got, written>>

Next ==
  \/ \E b \in BOOLEAN : WriteHeader(b)
  \/ \E n \in GopCounts : SetMaxGopCount(n)
  \/ \E p \in Packets : WritePacket(p)
  \/ Close
  \/ \E c \in Cursors : ReadPacket(c) \/ Streams(c)

Spec == Init /\ [][Next]_vars

\* A goroutine made ready by a broadcast runs again; nobody has to write, close
\* or call.
Fairness ==
  \A c \in Cursors : /\ WF_vars(rpc[c] = "packetWoken" /\ ReadPacket(c))
                     /\ WF_vars(rpc[c] = "streamsWoken" /\ Streams(c))
FairSpec == Spec /\ Fairness

-----------------------------------------------------------------------------
TypeOK ==
  /\ cap \in Nat \ {0}
  /\ pkts \in [0..cap - 1 -> Packets \union {Empty}]
  /\ head \in Nat /\ tail \in Nat /\ count \in Nat
  /\ curgopcount \in Int /\ maxgopcount \in Int
  /\ videoidx \in {-1, VideoIdx}
  /\ streams \in BOOLEAN /\ closed \in BOOLEAN
  /\ start \in [Cursors -> StartKinds]
  /\ gotpos \in [Cursors -> BOOLEAN]
  /\ pos \in [Cursors -> Nat]
  /\ rpc \in [Cursors -> ReaderPCs]
  /\ written \in Seq(Packets)
  /\ got \in [Cursors -> {Nothing, Eof} \union ({"packet"} \X Nat \X Packets)]

\* The ring holds exactly the packets written since position head, each in the
\* slot Get looks in, whatever was grown, popped and overwritten.
RingHoldsWindow ==
  /\ tail = Len(written)
  /\ head <= tail /\ count = tail - head /\ count <= cap
  /\ \A i \in head..tail - 1 : Get(i) = written[i + 1]

\* A cursor of DelayedGopCount starts at the Delay-th key frame from the end, or
\* one packet before it, but never behind it, where nothing could be decoded.
GopCursorStart ==
  [][\A c \in Cursors :
       /\ start[c] = "gop" /\ ~gotpos[c] /\ gotpos'[c]
       /\ videoidx # -1 /\ Delay > 0 /\ Cardinality(KeysFrom(head)) >= Delay
       => /\ Cardinality(KeysFrom(pos'[c] - 1)) >= Delay
          /\ Cardinality(KeysFrom(pos'[c] + 1)) < Delay]_vars

\* A cursor sleeps only when there is nothing for it: Broadcast comes with every
\* change that could give a sleeping ReadPacket or Streams something to return.
NoLostWakeup ==
  \A c \in Cursors :
    /\ rpc[c] = "packetWait" => ~closed /\ gotpos[c] /\ pos[c] = tail
    /\ rpc[c] = "streamsWait" => ~closed /\ ~streams

\* Closing the queue lets every blocked call return.
CloseReleases == \A c \in Cursors : closed /\ rpc[c] # "idle" ~> rpc[c] = "idle"

Log == INSTANCE PacketLog WITH
         Readers <- Cursors, MaxLog <- MaxWrites, log <- written, oldest <- head,
         next <- [c \in Cursors |-> IF gotpos[c] THEN pos[c] ELSE -1]
\* The queue is a packet log: no packet twice, out of order, wrong, or skipped
\* unless it was discarded; end of file only after the last packet.
IsPacketLog == Log!Spec

-----------------------------------------------------------------------------
(* What the program says of itself, and does not do; see the findings.     *)
\* queue.go: "After Close() called, all QueueCursor's ReadPacket will return
\* io.EOF."
ClosedReadsEof ==
  [][\A c \in Cursors : closed /\ got'[c] # got[c] => got'[c] = Eof]_vars
=============================================================================
