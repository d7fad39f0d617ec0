--------------------------- MODULE EsDescriptors ---------------------------
(***************************************************************************)
(* Bytes, and the MPEG-4 descriptors inside an "esds" box.  The repository *)
(* has three writers of them: mp4io (four bytes of length), mp4fio (one    *)
(* byte) and esio (four bytes, lengths filled in afterwards), and two      *)
(* readers, mp4io's and esio's.                                            *)
(***************************************************************************)
EXTENDS Integers, Sequences, SequencesExt

\* A byte sequence of width w, most significant byte first.  TLC's integers
\* have 32 bits: an unsigned word above 2^31 is the negative number with the
\* same bits, and an 8-byte number fits a word.
PutBE(v, w) ==
  [i \in 1 .. w |-> LET k == w - i IN
     IF k < 4 THEN (v \div 256 ^ k) % 256 ELSE IF v < 0 THEN 255 ELSE 0]
Accumulate(b, from) == FoldLeft(LAMBDA n, x : 256 * n + x, from, b)
GetBE(b) ==
  Accumulate(b, IF Len(b) >= 4 /\ b[1] >= 128 THEN -1 ELSE 0)
GetSignedBE(b) == Accumulate(b, IF b[1] >= 128 THEN -1 ELSE 0)
Zeros(n) == [i \in 1 .. n |-> 0]
From(b, n) == SubSeq(b, n + 1, Len(b))      \* Go's b[n:]
Cut(b, n, w) == SubSeq(b, n + 1, n + w)     \* Go's b[n:n+w]

ESDescrTag == 3
DecConfigDescrTag == 4
DecSpecificDescrTag == 5
SLConfigDescrTag == 6

\* fillLength: seven bits a byte, a continuation bit on all but the last.
FillLength4(length) ==
  [i \in 1 .. 4 |-> ((length \div 128 ^ (4 - i)) % 128) + (IF i < 4 THEN 128 ELSE 0)]
FillLength1(length) == << length % 128 >>

\* fillDescHdr
DescHdr(dialect, tag, datalen) ==
  << tag >> \o IF dialect = "mp4f" THEN FillLength1(datalen) ELSE FillLength4(datalen)
LenDescHdr(dialect) == IF dialect = "mp4f" THEN 2 ELSE 5

\* The fixed part of a decoder configuration: audio, no buffer, a rate.
DecConfigHead(rate) == << 64, 21 >> \o Zeros(3) \o PutBE(rate, 4) \o Zeros(4)

\* mp4io's and mp4fio's Len, from the box header on.
ElemStreamLen(dialect, config) ==
  8 + 4 + (LenDescHdr(dialect) + 3) + (LenDescHdr(dialect) + 13 + LenDescHdr(dialect))
    + Len(config) + (LenDescHdr(dialect) + 1)

\* fillESDescHdr, fillDecConfigDescHdr
ESDescHdr(dialect, datalen, track) ==
  DescHdr(dialect, ESDescrTag, datalen) \o PutBE(track, 2) \o << 0 >>
DecConfigDescHdr(dialect, datalen) ==
  LET head == DescHdr(dialect, DecConfigDescrTag, datalen) \o DecConfigHead(200000)
  IN head \o DescHdr(dialect, DecSpecificDescrTag, datalen - Len(head))

\* Their Marshal, without the box header.  The lengths are those of the code:
\* mp4io's are not the lengths of what follows.
ElemStreamBytes(dialect, config, track) ==
  LET all   == ElemStreamLen(dialect, config)
      hdr   == LenDescHdr(dialect)
      esLen == all - 12 - (hdr + 3) + IF dialect = "mp4f" THEN 3 ELSE 0
      n     == 12 + hdr + 3
      dcLen == all - n - hdr - IF dialect = "mp4f" THEN 3 ELSE 1
      front == Zeros(4) \o ESDescHdr(dialect, esLen, track)
                 \o DecConfigDescHdr(dialect, dcLen) \o config
  IN front \o DescHdr(dialect, SLConfigDescrTag, all - 8 - Len(front) - hdr) \o << 2 >>

\* esio: StreamDescriptor.Marshal through the builder, whose DescriptorDone
\* fills a length in when the contents are known.
Descriptor(tag, body) == << tag >> \o FillLength4(Len(body)) \o body
StreamDescriptorBytes(config, track) ==
  Descriptor(ESDescrTag,
    PutBE(track, 2) \o << 0 >>
      \o Descriptor(DecConfigDescrTag,
           DecConfigHead(0) \o IF config = <<>> THEN <<>>
                               ELSE Descriptor(DecSpecificDescrTag, config))
      \o Descriptor(SLConfigDescrTag, << 2 >>))

\* parseLength: the length and how many bytes it took, or "err".
ParseLength(b) ==
  LET stops == {i \in 1 .. 4 : i = 4 \/ (i <= Len(b) /\ b[i] < 128)}
      used  == CHOOSE i \in stops : \A j \in stops : i <= j
  IN IF Len(b) < used THEN [ok |-> FALSE, used |-> 0, length |-> 0]
     ELSE [ok |-> TRUE, used |-> used,
           length |-> FoldLeft(LAMBDA n, x : 128 * n + (x % 128), 0, SubSeq(b, 1, used))]
-----------------------------------------------------------------------------
\* What a reader of descriptors gives back.
Parsed(st, config, id) == [st |-> st, config |-> config, id |-> id]
Refused == Parsed("err", <<>>, 0)

\* mp4io's parseDesc: one descriptor in another, the innermost one's data runs
\* to the end of the bytes, whatever its length says.
RECURSIVE ParseDesc(_)
ParseDesc(b) ==
  IF Len(b) < 1 THEN Refused
  ELSE LET h == ParseLength(From(b, 1))
           n == 1 + h.used
       IN IF ~h.ok \/ Len(b) < n + h.length THEN Refused
          ELSE CASE b[1] = ESDescrTag ->
                      IF Len(b) < n + 3 THEN Refused ELSE ParseDesc(From(b, n + 3))
                 [] b[1] = DecConfigDescrTag ->
                      IF Len(b) < n + 13 THEN Refused ELSE ParseDesc(From(b, n + 13))
                 [] b[1] = DecSpecificDescrTag -> Parsed("ok", From(b, n), 0)
                 [] OTHER -> Parsed("ok", <<>>, 0)

\* esio's parseHeader: a descriptor's contents and what follows it.
ParseHeader(b) ==
  LET h == ParseLength(From(b, 1))
      n == 1 + h.used
  IN IF Len(b) < 2 \/ ~h.ok \/ h.length > Len(b) - n
     THEN [ok |-> FALSE, tag |-> 0, body |-> <<>>, rest |-> <<>>]
     ELSE [ok |-> TRUE, tag |-> b[1], body |-> Cut(b, n, h.length),
           rest |-> From(b, n + h.length)]

\* The body of the last descriptor with a tag among those b consists of.
RECURSIVE LastWithTag(_, _)
LastWithTag(b, tag) ==
  IF b = <<>> THEN [ok |-> TRUE, found |-> FALSE, body |-> <<>>]
  ELSE LET h == ParseHeader(b)
           r == LastWithTag(h.rest, tag)
       IN IF ~h.ok \/ ~r.ok THEN [ok |-> FALSE, found |-> FALSE, body |-> <<>>]
          ELSE IF r.found \/ h.tag # tag THEN r
          ELSE [ok |-> TRUE, found |-> TRUE, body |-> h.body]

\* parseDecoderConfig, parseSLConfig and ParseStreamDescriptor, of a descriptor
\* without the optional dependence, URL and clock.  "panic": d[2:] of a body that
\* has no flags.
ParseDecoderConfig(d) ==
  LET r == LastWithTag(From(d, 13), DecSpecificDescrTag)
  IN IF Len(d) < 13 \/ ~r.ok THEN Refused
     ELSE Parsed("ok", IF d[1] = 64 THEN r.body ELSE <<>>, 0)
DescriptorWith(body, dc, sl) ==
  IF ~dc.ok \/ (sl.found /\ sl.body = <<>>) THEN Refused
  ELSE [IF dc.found THEN ParseDecoderConfig(dc.body) ELSE Parsed("ok", <<>>, 0)
          EXCEPT !.id = 256 * body[1] + body[2]]
DescriptorIn(h) ==
  IF ~h.ok \/ h.tag # ESDescrTag THEN Refused
  ELSE IF Len(h.body) < 3 THEN Parsed("panic", <<>>, 0)
  ELSE DescriptorWith(h.body, LastWithTag(From(h.body, 3), DecConfigDescrTag),
                      LastWithTag(From(h.body, 3), SLConfigDescrTag))
ParseStreamDescriptor(b) == DescriptorIn(ParseHeader(b))
=============================================================================
