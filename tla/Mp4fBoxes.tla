------------------------------ MODULE Mp4fBoxes ------------------------------
(***************************************************************************)
(* The boxes of format/mp4f/mp4fio: what the fragmenting muxer writes in   *)
(* front of a fragment.  They are written and never read: every Unmarshal  *)
(* returns at once.                                                        *)
(***************************************************************************)
EXTENDS BoxFormat

FullHeader == << U8("Version"), U24("Flags") >>

\* The writer of a sample's words asks the flags for the sample flags only.
TrackFragRun ==
  Box(\h7472756e,
      FullHeader \o << EntryCount, Opt(1, U32("DataOffset")), Opt(4, U32("FirstSampleFlags")),
                       Run("mp4f") >>)
\* The muxer gives the header of a track fragment as bytes.
TrackFragHeader == Box(\h74666864, << Rest("Data") >>)
\* Eight bytes of time whatever the version says.
TrackFragDecodeTime == Box(\h74666474, FullHeader \o << U64("Time") >>)
TrackFrag ==
  Box(\h74726166,
      << Child("Header", TrackFragHeader), Child("DecodeTime", TrackFragDecodeTime),
         Child("Run", TrackFragRun), Unknowns >>)
MovieFragHeader == Box(\h6d666864, FullHeader \o << U32("Seqnum") >>)
MovieFrag ==
  Box(\h6d6f6f66, << Child("Header", MovieFragHeader), Children("Tracks", TrackFrag), Unknowns >>)
ElemStreamDesc == Box(\h65736473, << Descriptors("mp4f") >>)
=============================================================================
