----------------------------- MODULE Fmp4Boxes -----------------------------
(***************************************************************************)
(* The boxes of format/fmp4/fmp4io, children before their parents.  Unlike *)
(* mp4io it keeps the track id of a track fragment, knows Opus, pixel      *)
(* aspects and segment indexes, and writes a zero time as 0.               *)
(***************************************************************************)
EXTENDS BoxFormat

Time(name) == Time32(name, 0)
FullHeader == << U8("Version"), U24("Flags") >>
-----------------------------------------------------------------------------
\* Sample tables
TimeToSample == Box(\h73747473, FullHeader \o << List("Entries", 2) >>)
SampleToChunk == Box(\h73747363, FullHeader \o << List("Entries", 3) >>)
CompositionOffset == Box(\h63747473, FullHeader \o << List("Entries", 2) >>)
SyncSample == Box(\h73747373, FullHeader \o << List("Entries", 1) >>)
ChunkOffset == Box(\h7374636f, FullHeader \o << List("Entries", 1) >>)
SampleSize ==
  Box(\h7374737a, FullHeader \o << U32("SampleSize"), Unsized(List("Entries", 1)) >>)

\* Sample descriptions.  The reader of SampleDesc parses an Opus entry and drops it.
ElemStreamDesc == Box(\h65736473, << Descriptors("fmp4") >>)
MP4ADesc ==
  Box(\h6d703461,
      << Skip(6), I16("DataRefIdx"), I16("Version"), I16("RevisionLevel"), I32("Vendor"),
         I16("NumberOfChannels"), I16("SampleSize"), I16("CompressionId"), Skip(2),
         Fixed32("SampleRate"), Child("Conf", ElemStreamDesc), Unknowns >>)
AVC1Conf == Box(\h61766343, << Rest("Data") >>)
PixelAspect == Box(\h70617370, << U32("HorizontalSpacing"), U32("VerticalSpacing") >>)
AVC1Desc ==
  Box(\h61766331,
      << Skip(6), I16("DataRefIdx"), I16("Version"), I16("Revision"), I32("Vendor"),
         I32("TemporalQuality"), I32("SpatialQuality"), I16("Width"), I16("Height"),
         Fixed32("HorizontalResolution"), Fixed32("VorizontalResolution"), Skip(4),
         I16("FrameCount"), Bytes("CompressorName", 32), I16("Depth"), I16("ColorTableId"),
         Child("Conf", AVC1Conf), Child("PixelAspect", PixelAspect), Unknowns >>)
OpusSpecificConfiguration ==
  Box(\h644f7073,
      << Zero8("Version"), U8("OutputChannelCount"), U16("PreSkip"), U32("InputSampleRate"),
         I16("OutputGain"), Zero8("ChannelMappingFamily") >>)
OpusSampleEntry ==
  Box(\h4f707573,
      << Skip(6), U16("DataRefIdx"), Skip(8), U16("NumberOfChannels"), U16("SampleSize"), Skip(4),
         Fixed32("SampleRate"), Child("Conf", OpusSpecificConfiguration) >>)
SampleDesc ==
  Box(\h73747364,
      << U8("Version"), Skip(3), ChildCount, Child("AVC1Desc", AVC1Desc), Child("MP4ADesc", MP4ADesc),
         ChildForgotten("OpusDesc", OpusSampleEntry), Unknowns >>)
SampleTable ==
  Box(\h7374626c,
      << Child("SampleDesc", SampleDesc), Child("TimeToSample", TimeToSample),
         Child("CompositionOffset", CompositionOffset), Child("SampleToChunk", SampleToChunk),
         Child("SyncSample", SyncSample), Child("SampleSize", SampleSize),
         Child("ChunkOffset", ChunkOffset) >>)
-----------------------------------------------------------------------------
\* Media
DataReferUrl == Box(\h75726c20, FullHeader)
DataRefer == Box(\h64726566, FullHeader \o << ChildCount, Child("Url", DataReferUrl) >>)
DataInfo == Box(\h64696e66, << Child("Refer", DataRefer), Unknowns >>)
SoundMediaInfo == Box(\h736d6864, FullHeader \o << I16("Balance"), Skip(2) >>)
VideoMediaInfo == Box(\h766d6864, FullHeader \o << I16("GraphicsMode"), Array("Opcolor", 2, 3) >>)
MediaInfo ==
  Box(\h6d696e66,
      << Child("Sound", SoundMediaInfo), Child("Video", VideoMediaInfo), Child("Data", DataInfo),
         Child("Sample", SampleTable), Unknowns >>)
HandlerRefer ==
  Box(\h68646c72, FullHeader \o << U32("Predefined"), U32("Type"), Skip(12), CString("Name") >>)
MediaHeader ==
  Box(\h6d646864,
      FullHeader \o << Time("CreateTime"), Time("ModifyTime"), U32("TimeScale"), U32("Duration"),
                       I16("Language"), I16("Quality") >>)
Media ==
  Box(\h6d646961,
      << Child("Header", MediaHeader), Child("Handler", HandlerRefer), Child("Info", MediaInfo),
         Unknowns >>)
-----------------------------------------------------------------------------
\* Movie
TrackHeader ==
  Box(\h746b6864,
      FullHeader \o << Time("CreateTime"), Time("ModifyTime"), U32("TrackID"), Skip(4), U32("Duration"),
                       Skip(8), I16("Layer"), I16("AlternateGroup"), Fixed16("Volume"), Skip(2),
                       Array("Matrix", 4, 9), Fixed32("TrackWidth"), Fixed32("TrackHeight") >>)
Track == Box(\h7472616b, << Child("Header", TrackHeader), Child("Media", Media), Unknowns >>)
MovieHeader ==
  Box(\h6d766864,
      FullHeader \o << Time("CreateTime"), Time("ModifyTime"), U32("TimeScale"), U32("Duration"),
                       Fixed32("PreferredRate"), Fixed16("PreferredVolume"), Skip(10),
                       Array("Matrix", 4, 9), Skip(24), U32("NextTrackID") >>)
TrackExtend ==
  Box(\h74726578,
      FullHeader \o << U32("TrackID"), U32("DefaultSampleDescIdx"), U32("DefaultSampleDuration"),
                       U32("DefaultSampleSize"), U32("DefaultSampleFlags") >>)
MovieExtend == Box(\h6d766578, << Children("Tracks", TrackExtend), Unknowns >>)
Movie ==
  Box(\h6d6f6f76,
      << Child("Header", MovieHeader), Children("Tracks", Track), Child("MovieExtend", MovieExtend),
         Unknowns >>)
-----------------------------------------------------------------------------
\* Fragments
TrackFragRun ==
  Box(\h7472756e,
      FullHeader \o << EntryCount, Opt(1, U32("DataOffset")), Opt(4, U32("FirstSampleFlags")),
                       Run("fmp4") >>)
TrackFragHeader ==
  Box(\h74666864,
      FullHeader \o << U32("TrackID"), Opt(1, U64("BaseDataOffset")), Opt(2, U32("StsdID")),
                       Opt(8, U32("DefaultDuration")), Opt(16, U32("DefaultSize")),
                       Opt(32, U32("DefaultFlags")) >>)
TrackFragDecodeTime == Box(\h74666474, FullHeader \o << ByVersion("Time", FALSE) >>)
TrackFrag ==
  Box(\h74726166,
      << Child("Header", TrackFragHeader), Child("DecodeTime", TrackFragDecodeTime),
         Child("Run", TrackFragRun), Unknowns >>)
MovieFragHeader == Box(\h6d666864, FullHeader \o << U32("Seqnum") >>)
MovieFrag ==
  Box(\h6d6f6f66, << Child("Header", MovieFragHeader), Children("Tracks", TrackFrag), Unknowns >>)

SegmentIndex ==
  Box(\h73696478,
      FullHeader \o << U32("ReferenceID"), U32("TimeScale"), ByVersion("EarliestPTS", TRUE),
                       ByVersion("FirstOffset", TRUE), References >>)
FileType == Box(\h66747970, << U32("MajorBrand"), U32("MinorVersion"), Brands("CompatibleBrands") >>)
SegmentType == Box(\h73747970, << U32("MajorBrand"), U32("MinorVersion"), Brands("CompatibleBrands") >>)

\* What ReadFileAtoms parses; it steps over the others.
FileAtoms == << FileType, SegmentType, Movie, MovieFrag, SegmentIndex >>
=============================================================================
