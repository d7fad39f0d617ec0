----------------------------- MODULE PacketLog -----------------------------
(***************************************************************************)
(* What a packet queue promises its readers: one growing log, of which     *)
(* only the packets from "oldest" on can still be read.  A reader starts   *)
(* somewhere in the part that is left and reads on in order; it jumps only *)
(* over packets that were discarded, never repeats one, and is told "eof"  *)
(* only when the log is closed and it has read everything.                 *)
(***************************************************************************)
EXTENDS Integers, Sequences

CONSTANTS
  Packets,   \* what can be written
  Readers,
  MaxLog     \* bound on the packets written

VARIABLES
  log,      \* every packet ever written, the n-th written at log[n + 1]
  oldest,   \* number of the oldest packet that is kept
  closed,
  next,     \* reader -> number of the packet it reads next, -1 before it starts
  got       \* reader -> what its last read returned

vars == <<log, oldest, closed, next, got>>

Nothing == <<"nothing">>
Eof == <<"eof">>
Item(n) == <<"packet", n, log[n + 1]>>
Max2(a, b) == IF a > b THEN a ELSE b

Init ==
  /\ log = <<>>
  /\ oldest = 0
  /\ closed = FALSE
  /\ next = [c \in Readers |-> -1]
  /\ got = [c \in Readers |-> Nothing]

\* Older packets may be discarded to make room, the new one never is.
Put(p) ==
  /\ Len(log) < MaxLog
  /\ log' = Append(log, p)
  /\ oldest' \in oldest..Len(log)
  /\ UNCHANGED <<closed, next, got>>

Close ==
  /\ closed' = TRUE
  /\ UNCHANGED <<log, oldest, next, got>>

\* The reader takes up a position in what is left of the log.
Place(c) ==
  /\ next[c] = -1
  /\ \E n \in oldest..Len(log) : next' = [next EXCEPT ![c] = n]
  /\ UNCHANGED <<log, oldest, closed, got>>

Deliver(c, n) ==
  /\ n < Len(log)
  /\ next[c] # -1 => n = Max2(next[c], oldest)
  /\ got' = [got EXCEPT ![c] = Item(n)]
  /\ next' = [next EXCEPT ![c] = n + 1]
  /\ UNCHANGED <<log, oldest, closed>>

End(c) ==
  /\ closed
  /\ next[c] \in {-1, Len(log)}
  /\ got' = [got EXCEPT ![c] = Eof]
  /\ next' = [next EXCEPT ![c] = Len(log)]
  /\ UNCHANGED <<log, oldest, closed>>

Next ==
  \/ \E p \in Packets : Put(p)
  \/ Close
  \/ \E c \in Readers : Place(c) \/ End(c)
  \/ \E c \in Readers : \E n \in oldest..Len(log) : Deliver(c, n)

Spec == Init /\ [][Next]_vars
=============================================================================
