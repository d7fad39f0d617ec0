------------------------------ MODULE Mp4Boxes ------------------------------
(***************************************************************************)
(* The boxes of format/mp4/mp4io (format/mp4m/mp4io is the same file): one *)
(* layout per generated type, children before their parents.               *)
(***************************************************************************)
EXTENDS BoxFormat

\* A zero time.Time lies further back than a Duration reaches: Sub returns the
\* shortest Duration, whose seconds are cut to 32 bits.  0 is read as 1904.
ZeroWord == -633437444
Time(name) == Time32(name, ZeroWord)
FullHeader == << U8("Version"), U24("Flags") >>
-----------------------------------------------------------------------------
\* Sample tables
TimeToSample == Box(\h73747473, FullHeader \o << List("Entries", 2) >>)
SampleToChunk == Box(\h73747363, FullHeader \o << List("Entries", 3) >>)
CompositionOffset == Box(\h63747473, FullHeader \o << List("Entries", 2) >>)
SyncSample == Box(\h73747373, FullHeader \o << List("Entries", 1) >>)
ChunkOffset == Box(\h7374636f, FullHeader \o << List("Entries", 1) >>)
SampleSize ==
  Box(\h7374737a, FullHeader \o << U32("SampleSize"), Unsized(List("Entries", 1)) >>)

\* Sample descriptions
ElemStreamDesc == Box(\h65736473, << Descriptors("mp4") >>)
MP4ADesc ==
  Box(\h6d703461,
      << Skip(6), I16("DataRefIdx"), I16("Version"), I16("RevisionLevel"), I32("Vendor"),
         I16("NumberOfChannels"), I16("SampleSize"), I16("CompressionId"), Skip(2),
         Fixed32("SampleRate"), Child("Conf", ElemStreamDesc), Unknowns >>)
VideoDesc(conf) ==
  << Skip(6), I16("DataRefIdx"), I16("Version"), I16("Revision"), I32("Vendor"),
     I32("TemporalQuality"), I32("SpatialQuality"), I16("Width"), I16("Height"),
     Fixed32("HorizontalResolution"), Fixed32("VorizontalResolution"), Skip(4),
     I16("FrameCount"), Bytes("CompressorName", 32), I16("Depth"), I16("ColorTableId"),
     Child("Conf", conf), Unknowns >>
AVC1Conf == Box(\h61766343, << Rest("Data") >>)
AVC1Desc == Box(\h61766331, VideoDesc(AVC1Conf))
HV1Conf == Box(\h68766343, << Rest("Data") >>)
HV1Desc == Box(\h68766331, VideoDesc(HV1Conf))
SampleDesc ==
  Box(\h73747364,
      << U8("Version"), Skip(3), ChildCount, Child("AVC1Desc", AVC1Desc),
         Child("HV1Desc", HV1Desc), Child("MP4ADesc", MP4ADesc), Unknowns >>)
SampleTable ==
  Box(\h7374626c,
      << Child("SampleDesc", SampleDesc), Child("TimeToSample", TimeToSample),
         Child("CompositionOffset", CompositionOffset), Child("SampleToChunk", SampleToChunk),
         Child("SyncSample", SyncSample), Child("ChunkOffset", ChunkOffset),
         Child("SampleSize", SampleSize) >>)
-----------------------------------------------------------------------------
\* Media
DataReferUrl == Box(\h75726c20, FullHeader)
DataRefer == Box(\h64726566, FullHeader \o << ChildCount, Child("Url", DataReferUrl) >>)
DataInfo == Box(\h64696e66, << Child("Refer", DataRefer), Unknowns >>)
SoundMediaInfo == Box(\h736d6864, FullHeader \o << I16("Balance"), Skip(2) >>)
VideoMediaInfo == Box(\h766d6864, FullHeader \o << I16("GraphicsMode"), Array("Opcolor", 2, 3) >>)
MediaInfo ==
  Box(\h6d696e66,
      << Child("Sound", SoundMediaInfo), Child("Video", VideoMediaInfo), Child("Data", DataInfo),
         Child("Sample", SampleTable), Unknowns >>)
HandlerRefer == Box(\h68646c72, FullHeader \o << Bytes("Type", 4), Bytes("SubType", 4), Rest("Name") >>)
\* Mutant: two fields change places.
MediaHeader_Swapped ==
  Box(\h6d646864,
      FullHeader \o << Time("CreateTime"), Time("ModifyTime"), I32("Duration"), I32("TimeScale"),
                       I16("Language"), I16("Quality") >>)
MediaHeader ==
  Box(\h6d646864,
      FullHeader \o << Time("CreateTime"), Time("ModifyTime"), I32("TimeScale"), I32("Duration"),
                       I16("Language"), I16("Quality") >>)
Media ==
  Box(\h6d646961,
      << Child("Header", MediaHeader), Child("Handler", HandlerRefer), Child("Info", MediaInfo),
         Unknowns >>)
-----------------------------------------------------------------------------
\* Movie
TrackHeader ==
  Box(\h746b6864,
      FullHeader \o << Time("CreateTime"), Time("ModifyTime"), I32("TrackId"), Skip(4), I32("Duration"),
                       Skip(8), I16("Layer"), I16("AlternateGroup"), Fixed16("Volume"), Skip(2),
                       Array("Matrix", 4, 9), Fixed32("TrackWidth"), Fixed32("TrackHeight") >>)
Track == Box(\h7472616b, << Child("Header", TrackHeader), Child("Media", Media), Unknowns >>)
MovieHeader ==
  Box(\h6d766864,
      FullHeader \o << Time("CreateTime"), Time("ModifyTime"), I32("TimeScale"), I32("Duration"),
                       Fixed32("PreferredRate"), Fixed16("PreferredVolume"), Skip(10),
                       Array("Matrix", 4, 9), Time("PreviewTime"), Time("PreviewDuration"),
                       Time("PosterTime"), Time("SelectionTime"), Time("SelectionDuration"),
                       Time("CurrentTime"), I32("NextTrackId") >>)
TrackExtend ==
  Box(\h74726578,
      FullHeader \o << U32("TrackId"), U32("DefaultSampleDescIdx"), U32("DefaultSampleDuration"),
                       U32("DefaultSampleSize"), U32("DefaultSampleFlags") >>)
MovieExtend == Box(\h6d766578, << Children("Tracks", TrackExtend), Unknowns >>)
Movie ==
  Box(\h6d6f6f76,
      << Child("Header", MovieHeader), Child("MovieExtend", MovieExtend), Children("Tracks", Track),
         Unknowns >>)
-----------------------------------------------------------------------------
\* Fragments.  The header of a track fragment has no track id here.
TrackFragRun ==
  Box(\h7472756e,
      FullHeader \o << EntryCount, Opt(1, U32("DataOffset")), Opt(4, U32("FirstSampleFlags")),
                       Run("mp4") >>)
TrackFragHeader ==
  Box(\h74666864,
      FullHeader \o << Opt(1, U64("BaseDataOffset")), Opt(2, U32("StsdId")),
                       Opt(8, U32("DefaultDuration")), Opt(16, U32("DefaultSize")),
                       Opt(32, U32("DefaultFlags")) >>)
TrackFragDecodeTime == Box(\h74666474, FullHeader \o << TimeByVersion("Time", ZeroWord) >>)
TrackFrag ==
  Box(\h74726166,
      << Child("Header", TrackFragHeader), Child("DecodeTime", TrackFragDecodeTime),
         Child("Run", TrackFragRun), Unknowns >>)
MovieFragHeader == Box(\h6d666864, FullHeader \o << U32("Seqnum") >>)
MovieFrag ==
  Box(\h6d6f6f66, << Child("Header", MovieFragHeader), Children("Tracks", TrackFrag), Unknowns >>)

FileType == Box(\h66747970, << U32("MajorBrand"), U32("MinorVersion"), Brands("CompatibleBrands") >>)
SegmentType == Box(\h73747970, << U32("MajorBrand"), U32("MinorVersion"), Brands("CompatibleBrands") >>)

\* What ReadFileAtoms parses; of other atoms it notes tag and size.
FileAtoms == << Movie, MovieFrag >>
=============================================================================
