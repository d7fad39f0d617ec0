------------------------- MODULE MCArchivePlayback -------------------------
EXTENDS ArchivePlayback

Pkt(t, k, i) == [t |-> t, key |-> k, idx |-> i]
File(n, s, m, tr, times, keys) ==
  [name |-> n, start |-> s, usable |-> TRUE, dur |-> times[Len(times)] + 1,
   meta |-> m, conf |-> "x", tracks |-> tr, muxable |-> tr,
   pkts |-> [i \in DOMAIN times |-> Pkt(times[i], i \in keys, IF i = 2 THEN tr - 1 ELSE 0)]]
Empty(n, s) == [File(n, s, "a", 1, <<0>>, {}) EXCEPT !.tracks = 0, !.muxable = 0, !.pkts = <<>>]

MCSpeeds == {-1, 0, 1, 2}
MCFiller == File("test.flv", -1, "filler", 1, <<0, 1, 2>>, {1})

\* One file; a gap and a change of codecs; two files that overlap; a long wait
\* for the second key frame; packets of one time and files of one time; the
\* filler's codec string with other streams, and another file's with other
\* codec data; a stream that cannot be muxed; a file without streams.
MCArchives == {
  << <<>> >>,
  << <<File("f0", 0, "a", 1, <<0, 1, 2, 4>>, {2, 4})>> >>,
  << <<File("f0", 0, "a", 2, <<0, 1, 2>>, {1}), File("f6", 6, "b", 1, <<0, 2, 3>>, {1, 3})>> >>,
  << <<File("f0", 0, "a", 1, <<0, 2, 3, 5>>, {1, 3}), File("f3", 3, "a", 1, <<1, 2>>, {2})>> >>,
  << <<File("f0", 0, "a", 1, <<0, 3, 6, 9, 12>>, {1, 5})>> >>,
  << <<File("f0", 0, "a", 2, <<0, 1, 1, 3>>, {1})>>, <<File("f0", 0, "b", 1, <<1, 2, 2>>, {1, 2})>> >>,
  << <<File("f4", 4, "filler", 1, <<0, 1, 2>>, {1})>>, <<File("f3", 3, "filler", 2, <<0, 1, 3>>, {1})>> >>,
  << <<File("f0", 0, "a", 1, <<0, 2>>, {1}), [File("f3", 3, "a", 1, <<0, 1>>, {1}) EXCEPT !.conf = "y"]>> >>,
  << <<[File("f4", 4, "a", 2, <<0, 1, 2>>, {1}) EXCEPT !.muxable = 1]>> >>,
  << <<Empty("f0", 0)>>, <<File("f4", 4, "b", 1, <<0, 1>>, {1})>> >> }
=============================================================================
