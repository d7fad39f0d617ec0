-------------------------- MODULE MCArchiveExport --------------------------
EXTENDS ArchiveExport

Pkt(t, k, i) == [t |-> t, key |-> k, idx |-> i]
\* A file of packets at the given times; keys tells which are key frames.
File(n, s, d, tr, times, keys) ==
  [name |-> n, start |-> s, usable |-> TRUE, dur |-> d, meta |-> "a", conf |-> "a",
   tracks |-> tr, muxable |-> tr,
   pkts |-> [i \in DOMAIN times |-> Pkt(times[i], i \in keys, IF i = 2 /\ tr > 0 THEN tr - 1 ELSE 0)]]
Small(n, s) == [File(n, s, 4, 1, <<0, 1>>, {1}) EXCEPT !.usable = FALSE]

\* A second is two ticks.
One == {<<File("f0", 0, d, 2, <<0, 2, 3, 6>>, k)>> : k \in SUBSET {1, 3}, d \in {0, 7, 8}}
Two == {<<File("f0", 0, d, tr, <<0, 2, 4>>, k), Small("s", 4), File("f8", 8, 3, 1, <<0, 2>>, l)>> :
          k \in SUBSET {1, 3}, l \in SUBSET {1, 2}, tr \in {1, 2}, d \in {5, 8}}
\* Another number of streams, none, one that cannot be muxed, less than a second.
Mixed == {<<File("f0", 0, 5, 1, <<0, 3>>, {1}), File("f6", 6, 4, 2, <<0, 2>>, {1})>>,
          <<File("f0", 0, 4, 0, <<>>, {}), File("f6", 6, 4, 1, <<0, 2>>, {1})>>,
          <<[File("f0", 0, 5, 2, <<0, 3>>, {1}) EXCEPT !.muxable = 1]>>,
          <<File("f0", 0, 1, 1, <<0>>, {1}), File("f2", 2, 4, 1, <<0, 2, 3>>, {1})>>}
\* They overlap by less than a second, and by more.
Overlap == {<<File("f0", 0, 5, 1, <<0, 1, 4>>, {1, 3}), File("f4", 4, 4, 1, <<0, 2>>, {1})>>,
            <<File("f0", 0, 8, 1, <<0, 2, 6>>, {1}), File("f4", 4, 4, 1, <<0, 1>>, {1, 2})>>}

MCArchives == {<<d>> : d \in One \union Two \union Mixed \union Overlap}
              \union {<<d, e>> : d \in Overlap, e \in One}
              \union {<<d, d>> : d \in Mixed}
=============================================================================
