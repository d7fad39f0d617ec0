----------------------------- MODULE BoxFormat -----------------------------
(***************************************************************************)
(* MP4 boxes.  A layout lists the fields of a box in the order the code    *)
(* writes them; Len, Marshal and Unmarshal of every box are then the same  *)
(* three operators, as they are one generated pattern in the code.  A box  *)
(* value is a function from field names.  A child is a sequence of values, *)
(* empty for nil.  A fixed-point number or a time is <<n, r>>: n is what   *)
(* the field can hold, r stands for a remainder finer than that.           *)
(***************************************************************************)
EXTENDS EsDescriptors, FiniteSets, TLC

Field(kind, name, width) ==
  [kind |-> kind, name |-> name, width |-> width, when |-> 0]

U8(name)  == Field("unsigned", name, 1)
U16(name) == Field("unsigned", name, 2)
U24(name) == Field("unsigned", name, 3)
U32(name) == Field("unsigned", name, 4)
U64(name) == Field("unsigned", name, 8)
I16(name) == Field("signed", name, 2)
I32(name) == Field("signed", name, 4)
Fixed16(name) == Field("fixed", name, 2)
Fixed32(name) == Field("fixed", name, 4)
Skip(n)   == Field("skip", "", n)
\* Numbers under one length check, bytes under one check, bytes to the end.
Array(name, width, n) == Field("array", name, width) @@ [n |-> n]
Bytes(name, n)        == Field("bytes", name, n)
Rest(name)            == Field("rest", name, 0)
\* A name that ends at a zero byte, and 32-bit words to the end.
CString(name) == Field("cstring", name, 0)
Brands(name)  == Field("brands", name, 4)
\* A count that is read without a check, and that many tuples of 32-bit words.
List(name, words) == Field("list", name, 4 * words)
\* A time: what a zero time.Time is written as, and whether 0 is read as one.
Time32(name, zero)     == Field("time", name, 4) @@ [zero |-> zero, wide |-> FALSE]
TimeByVersion(name, zero) == Field("time", name, 4) @@ [zero |-> zero, wide |-> TRUE]
\* Four or eight bytes by Version; the reader checks first or does not.
ByVersion(name, checked) == Field("byversion", name, 4) @@ [checked |-> checked]
\* A field that is there only when Flags has a bit, or when SampleSize is 0.
Opt(bit, field) == [field EXCEPT !.when = bit]
Unsized(field)  == [field EXCEPT !.when = -1]
\* A number that has to be 0.
Zero8(name) == Field("zero", name, 1)
\* The number of samples in a run, read without a check, the samples, and the
\* dialect that says which words each has.
EntryCount   == Field("length", "Count", 4)
Run(dialect) == Field("run", "Entries", 0) @@ [dialect |-> dialect]
\* The descriptors of an "esds" box.
Descriptors(dialect) == Field("esds", "DecConfig", 0) @@ [dialect |-> dialect]
\* References of a segment index: 31 bits and a flag, a word, 1, 3 and 28 bits.
References == Field("references", "References", 12)
Child(name, box)    == Field("child", name, 0) @@ [box |-> box, many |-> FALSE]
Children(name, box) == Field("child", name, 0) @@ [box |-> box, many |-> TRUE]
\* A child that is parsed and dropped.
ChildForgotten(name, box) == Field("child", name, 0) @@ [box |-> box, many |-> FALSE, dropped |-> TRUE]
Unknowns   == Field("unknowns", "Unknowns", 0)
ChildCount == Field("count", "", 4)

Box(tag, fields) == [tag |-> tag, fields |-> fields]

Bit(n, bit)  == (n \div bit) % 2 = 1
Total(s)     == FoldLeft(LAMBDA m, n : m + n, 0, s)
Flat(s)      == FoldLeft(LAMBDA a, b : a \o b, <<>>, s)
Over(s, Op(_)) == [i \in DOMAIN s |-> Op(s[i])]
IsChild(f)   == f.kind \in {"child", "unknowns"}
Present(f, v) ==
  CASE f.when = 0  -> TRUE
    [] f.when = -1 -> v.SampleSize = 0
    [] OTHER       -> Bit(v.Flags, f.when)

\* The flags that say which of a sample's words are there: a run's own, or for
\* the first sample of mp4io and mp4fio the FirstSampleFlags.  mp4fio writes all
\* words but the sample's flags whatever they say.
SampleWords == << "Duration", "Size", "Flags", "Cts" >>
HasWord(dialect, v, i, w) ==
  \/ dialect = "mp4f" /\ w # 3
  \/ Bit(IF dialect # "fmp4" /\ i = 1 THEN v.FirstSampleFlags ELSE v.Flags, 128 * 2 ^ w)
RunWords(dialect, v, i) == SelectSeq(<< 1, 2, 3, 4 >>, LAMBDA w : HasWord(dialect, v, i, w))

NumberWidth(f, v) ==
  IF f.kind = "byversion" /\ v.Version # 0 THEN 8
  ELSE IF f.kind = "time" /\ f.wide /\ v.Version # 0 THEN 8 ELSE f.width
-----------------------------------------------------------------------------
\* Len
RECURSIVE BoxLen(_, _)

FieldLen(f, v) ==
  IF ~Present(f, v) THEN 0
  ELSE LET x == v[f.name] IN
  CASE f.kind \in {"unsigned", "signed", "fixed", "time", "byversion"} -> NumberWidth(f, v)
    [] f.kind \in {"zero", "skip", "bytes", "count", "length"} -> f.width
    [] f.kind = "array"      -> f.width * f.n
    [] f.kind = "rest"       -> Len(x)
    [] f.kind = "cstring"    -> Len(x) + 1
    [] f.kind = "brands"     -> 4 * Len(x)
    [] f.kind = "list"       -> 4 + f.width * Len(x)
    [] f.kind = "run"        -> 4 * Total([i \in DOMAIN x |-> Len(RunWords(f.dialect, v, i))])
    [] f.kind = "references" -> 2 + 2 + f.width * Len(x)
    [] f.kind = "esds"       ->
         IF f.dialect = "fmp4" THEN 4 + Len(StreamDescriptorBytes(x, v.TrackId))
         ELSE ElemStreamLen(f.dialect, x) - 8
    [] f.kind = "child"      -> Total(Over(x, LAMBDA c : BoxLen(f.box, c)))
    [] f.kind = "unknowns"   -> Total(Over(x, LAMBDA c : Len(c.data)))

BoxLen(box, v) == 8 + Total(Over(box.fields, LAMBDA f : FieldLen(f, v)))
-----------------------------------------------------------------------------
\* Marshal
RECURSIVE BoxBytes(_, _)

ChildrenNR(box, v) ==
  Total(Over(SelectSeq(box.fields, IsChild), LAMBDA f : Len(v[f.name])))

ReferenceBytes(r) ==
  << (r.size \div 16777216) + (IF r.box THEN 128 ELSE 0) >> \o PutBE(r.size, 3)
    \o PutBE(r.duration, 4)
    \o << (r.delta \div 16777216) + 16 * r.type + (IF r.sap THEN 128 ELSE 0) >>
    \o PutBE(r.delta, 3)

\* The words of sample i; a version-1 composition time of fmp4io goes elsewhere
\* and leaves its place zero.
SampleBytes(f, v, i) ==
  Flat(Over(RunWords(f.dialect, v, i), LAMBDA w :
         IF f.dialect = "fmp4" /\ w = 4 /\ v.Version > 0 THEN Zeros(4)
         ELSE PutBE(v.Entries[i][w], 4)))

FieldBytes(box, f, v) ==
  IF ~Present(f, v) THEN <<>>
  ELSE LET x == v[f.name] IN
  CASE f.kind \in {"unsigned", "signed", "byversion", "zero"} -> PutBE(x, NumberWidth(f, v))
    [] f.kind = "length"     -> PutBE(Len(v.Entries), 4)
    [] f.kind = "fixed"      -> PutBE(x[1], f.width)
    [] f.kind = "time"       -> PutBE(IF x = <<>> THEN f.zero ELSE x[1], NumberWidth(f, v))
    [] f.kind = "skip"       -> Zeros(f.width)
    [] f.kind = "count"      -> PutBE(ChildrenNR(box, v), 4)
    [] f.kind = "array"      -> Flat(Over(x, LAMBDA y : PutBE(y, f.width)))
    [] f.kind \in {"bytes", "rest"} -> x
    [] f.kind = "cstring"    -> x \o << 0 >>
    [] f.kind = "brands"     -> Flat(Over(x, LAMBDA y : PutBE(y, 4)))
    [] f.kind = "list"       -> PutBE(Len(x), 4) \o Flat(Over(x, LAMBDA e : Flat(Over(e, LAMBDA y : PutBE(y, 4)))))
    [] f.kind = "run"        -> Flat([i \in DOMAIN x |-> SampleBytes(f, v, i)])
    [] f.kind = "references" -> Zeros(2) \o PutBE(Len(x), 2) \o Flat(Over(x, ReferenceBytes))
    [] f.kind = "esds"       ->
         IF f.dialect = "fmp4" THEN Zeros(4) \o StreamDescriptorBytes(x, v.TrackId)
         ELSE ElemStreamBytes(f.dialect, x, v.TrackId)
    [] f.kind = "child"      -> Flat(Over(x, LAMBDA c : BoxBytes(f.box, c)))
    [] f.kind = "unknowns"   -> Flat(Over(x, LAMBDA c : c.data))

\* fmp4io writes the composition times of a version-1 run to b[:n], over the
\* version and the flags of the box.
Overwritten(box, v, body) ==
  IF \E i \in DOMAIN box.fields : box.fields[i].kind = "run" /\ box.fields[i].dialect = "fmp4"
  THEN IF v.Version > 0 /\ Bit(v.Flags, 2048) /\ v.Entries # <<>>
       THEN PutBE(v.Entries[Len(v.Entries)][4], 4) \o From(body, 4) ELSE body
  ELSE body

BoxBytes(box, v) ==
  LET body == Overwritten(box, v, Flat(Over(box.fields, LAMBDA f : FieldBytes(box, f, v))))
  IN PutBE(8 + Len(body), 4) \o PutBE(box.tag, 4) \o body
-----------------------------------------------------------------------------
(***************************************************************************)
(* Unmarshal, of a slice b that begins with the header of the box.  A      *)
(* reader is where it is, the value so far, and "ok", "err" (an error is   *)
(* returned), "panic" (an index out of range), or "stuck" (a loop that     *)
(* does not advance).                                                      *)
(***************************************************************************)
RECURSIVE ReadBox(_, _)

Reader(n, v, st) == [n |-> n, v |-> v, st |-> st]
Set(r, width, name, x) == Reader(r.n + width, (name :> x) @@ r.v, "ok")
Fail(r, st) == [r EXCEPT !.st = st]

\* What a field that is not there is in a fresh Go value.
ZeroValue(f) ==
  CASE f.kind \in {"unsigned", "signed", "byversion"} -> 0
    [] f.kind = "fixed" -> << 0, 0 >>
    [] OTHER -> <<>>

Unchecked(f) ==
  CASE f.kind = "byversion" -> ~f.checked
    [] f.kind = "time"      -> f.wide
    [] OTHER                -> f.kind = "length"

ReadNumber(f, b, r) ==
  LET w == NumberWidth(f, r.v)
      x == Cut(b, r.n, w)
  IN IF r.n + w > Len(b)
     THEN Fail(r, IF Unchecked(f) THEN "panic" ELSE "err")
     ELSE IF f.kind = "zero" /\ x # << 0 >> THEN Fail(r, "err")
     ELSE Set(r, w, f.name,
            CASE f.kind = "signed" -> GetSignedBE(x)
              [] f.kind = "fixed"  -> << GetBE(x), 0 >>
              [] f.kind = "time"   -> IF f.zero = 0 /\ GetBE(x) = 0 THEN <<>> ELSE << GetBE(x), 0 >>
              [] OTHER             -> GetBE(x))

ReadArray(f, b, r) ==
  LET w == f.width * f.n
  IN IF r.n + w > Len(b) THEN Fail(r, "err")
     ELSE Set(r, w, f.name, [i \in 1 .. f.n |-> GetSignedBE(Cut(b, r.n + (i - 1) * f.width, f.width))])

Words(b, n, k) == [i \in 1 .. k |-> GetBE(Cut(b, n + 4 * (i - 1), 4))]

ReadList(f, b, r) ==
  LET count == GetBE(Cut(b, r.n, 4))
  IN IF r.n + 4 > Len(b) THEN Fail(r, "panic")
     ELSE IF count < 0 \/ r.n + 4 + f.width * count > Len(b) THEN Fail(r, "err")
     ELSE Set(r, 4 + f.width * count, f.name,
              [i \in 1 .. count |-> Words(b, r.n + 4 + (i - 1) * f.width, f.width \div 4)])

\* A run reads its samples' words without a check; the count came before.
ReadSample(f, b, r, i) ==
  LET ws == RunWords(f.dialect, r.v, i)
      x  == Words(b, r.n, Len(ws))
      e  == [w \in 1 .. 4 |-> IF \E k \in DOMAIN ws : ws[k] = w
                              THEN x[CHOOSE k \in DOMAIN ws : ws[k] = w] ELSE 0]
  IN IF r.st # "ok" THEN r
     ELSE IF r.n + 4 * Len(ws) > Len(b) THEN Fail(r, "panic")
     ELSE Set(r, 4 * Len(ws), "Entries", Append(r.v.Entries, e))
ReadRun(f, b, r) ==
  FoldLeft(LAMBDA s, i : ReadSample(f, b, s, i), Set(r, 0, "Entries", <<>>),
           [i \in 1 .. r.v.Count |-> i])

\* As the code does: the size keeps only its top bit, and the third word is
\* not the reference's but the size of the box.
ReadReference(b, n) ==
  LET first == Cut(b, n, 4)
      third == Cut(b, 0, 4)
      High(x, low) == GetBE(<< x - (x % low), 0, 0, 0 >>)
  IN [box |-> first[1] >= 128, size |-> High(first[1], 128),
      duration |-> GetBE(Cut(b, n + 4, 4)),
      sap |-> third[1] >= 128, type |-> (third[1] \div 16) % 8,
      delta |-> High(third[1], 16)]
ReadReferences(f, b, r) ==
  LET count == GetBE(Cut(b, r.n + 2, 2))
  IN IF r.n + 4 > Len(b) \/ r.n + 4 + 12 * count > Len(b) THEN Fail(r, "err")
     ELSE Set(r, 4 + 12 * count, f.name, [i \in 1 .. count |-> ReadReference(b, r.n + 4 + 12 * (i - 1))])

ReadCString(f, b, r) ==
  LET rest == From(b, r.n)
      ends == {i \in DOMAIN rest : rest[i] = 0}
      i    == CHOOSE j \in ends : \A k \in ends : j <= k
  IN IF r.n > Len(b) THEN Fail(r, "panic")
     ELSE IF ends = {} \/ i = 1 THEN Set(r, 0, f.name, <<>>)
     ELSE Set(r, i, f.name, SubSeq(rest, 1, i - 1))

ParseDescriptors(dialect, b) ==
  IF dialect = "fmp4" THEN ParseStreamDescriptor(b) ELSE ParseDesc(b)
SetDescriptors(f, r, width, es) ==
  IF es.st # "ok" THEN Fail(r, es.st)
  ELSE Set(Set(r, 0, "TrackId", es.id), width, f.name, es.config)
ReadDescriptors(f, b, r) ==
  IF Len(b) < 12 THEN Fail(r, "err")
  ELSE SetDescriptors(f, r, Len(b) - r.n, ParseDescriptors(f.dialect, From(b, 12)))

ReadField(f, b, r) ==
  IF r.st # "ok" THEN r
  ELSE IF ~Present(f, r.v) THEN Set(r, 0, f.name, ZeroValue(f))
  ELSE CASE f.kind \in {"unsigned", "signed", "fixed", "time", "byversion", "zero", "length"} -> ReadNumber(f, b, r)
         [] f.kind \in {"skip", "count"} -> Reader(r.n + f.width, r.v, "ok")
         [] f.kind = "array"      -> ReadArray(f, b, r)
         [] f.kind = "bytes"      -> IF r.n + f.width > Len(b) THEN Fail(r, "err")
                                     ELSE Set(r, f.width, f.name, Cut(b, r.n, f.width))
         [] f.kind = "rest"       -> IF r.n > Len(b) THEN Fail(r, "panic")
                                     ELSE Set(r, Len(b) - r.n, f.name, From(b, r.n))
         [] f.kind = "cstring"    -> ReadCString(f, b, r)
         [] f.kind = "brands"     -> LET k == (Len(b) - r.n) \div 4
                                     IN Set(r, 4 * k, f.name, Words(b, r.n, k))
         [] f.kind = "list"       -> ReadList(f, b, r)
         [] f.kind = "run"        -> ReadRun(f, b, r)
         [] f.kind = "references" -> ReadReferences(f, b, r)
         [] f.kind = "esds"       -> ReadDescriptors(f, b, r)
         [] IsChild(f)            -> Set(r, 0, f.name, <<>>)
-----------------------------------------------------------------------------
\* The loop over the children, for n+8 < len(b): a child of 8 bytes at the very
\* end is not looked at.
RECURSIVE ReadChildren(_, _, _)

ChildFor(box, tag) ==
  SelectSeq(box.fields, LAMBDA f : f.kind = "child" /\ f.box.tag = tag)
KeepsUnknowns(box) == \E i \in DOMAIN box.fields : box.fields[i].kind = "unknowns"

\* Mutant: the last of several children replaces the others.
Keep_Last(f, r, v) ==
  IF "dropped" \in DOMAIN f THEN r.v ELSE (f.name :> << v >>) @@ r.v

Keep(f, r, v) ==
  IF "dropped" \in DOMAIN f THEN r.v
  ELSE (f.name :> IF f.many THEN Append(r.v[f.name], v) ELSE << v >>) @@ r.v

KeepChild(f, r, size, child) ==
  IF child.st # "ok" THEN Fail(r, child.st)
  ELSE Reader(r.n + size, Keep(f, r, child.v), "ok")
ReadChild(box, r, size, tag, slice, known) ==
  CASE known # <<>> -> KeepChild(known[1], r, size, ReadBox(known[1].box, slice))
    [] known = <<>> /\ KeepsUnknowns(box) ->
         Set(r, size, "Unknowns", Append(r.v.Unknowns, [tag |-> tag, data |-> slice]))
    [] OTHER -> Reader(r.n + size, r.v, "ok")
Advanced(r, size, next) == IF size = 0 /\ next.st = "ok" THEN Fail(r, "stuck") ELSE next
ChildAt(box, b, r, size, tag) ==
  IF size < 0 \/ r.n + size > Len(b) THEN Fail(r, "err")
  ELSE Advanced(r, size, ReadChild(box, r, size, tag, Cut(b, r.n, size), ChildFor(box, tag)))

ReadChildren(box, b, r) ==
  IF r.st # "ok" \/ r.n + 8 >= Len(b) THEN r
  ELSE ReadChildren(box, b, ChildAt(box, b, r, GetBE(Cut(b, r.n, 4)), GetBE(Cut(b, r.n + 4, 4))))

RECURSIVE ReadFields(_, _, _)
ReadFields(fields, b, r) ==
  IF fields = <<>> THEN r ELSE ReadFields(Tail(fields), b, ReadField(Head(fields), b, r))

ReadAll(box, b, r) ==
  IF \E i \in DOMAIN box.fields : IsChild(box.fields[i]) THEN ReadChildren(box, b, r) ELSE r
ReadBox(box, b) == ReadAll(box, b, ReadFields(box.fields, b, Reader(8, <<>>, "ok")))

\* FindChildren: the first box with a tag, depth first, and its layout.
RECURSIVE FindChildren(_, _, _)
FindChildren(box, v, tag) ==
  IF box.tag = tag THEN << v >>
  ELSE FoldLeft(LAMBDA found, f :
         IF f.kind # "child" THEN found
         ELSE FoldLeft(LAMBDA g, c : IF g # <<>> THEN g ELSE FindChildren(f.box, c, tag),
                       found, v[f.name]),
         <<>>, box.fields)
-----------------------------------------------------------------------------
\* ReadFileAtoms from n: the boxes it knows, where they began, and how it ended.
\* It steps over the others, past the end if need be, where the next header is
\* found missing and the file taken for complete.
RECURSIVE ReadFileAtoms(_, _, _)
End(st) == [st |-> st, atoms |-> <<>>]
Followed(atom, rest) == [rest EXCEPT !.atoms = << atom >> \o @]
AtomRead(known, b, n, size, tag, read) ==
  IF read.st # "ok" THEN End(read.st)
  ELSE Followed([tag |-> tag, at |-> n, v |-> read.v], ReadFileAtoms(known, b, n + size))
AtomAt(known, b, n, size, tag, boxes) ==
  IF boxes = <<>>
  THEN IF size = 0 THEN End("stuck")
       ELSE Followed([tag |-> tag, at |-> n, v |-> <<>>], ReadFileAtoms(known, b, n + size))
  ELSE IF size < 8 THEN End("panic")
  ELSE IF n + size > Len(b) THEN End("err")
  ELSE AtomRead(known, b, n, size, tag, ReadBox(boxes[1], Cut(b, n, size)))
TaggedAtom(known, b, n, size, tag) ==
  AtomAt(known, b, n, size, tag, SelectSeq(known, LAMBDA x : x.tag = tag))
ReadFileAtoms(known, b, n) ==
  IF n >= Len(b) THEN End("ok")
  ELSE IF n + 8 > Len(b) THEN End("err")
  ELSE TaggedAtom(known, b, n, GetBE(Cut(b, n, 4)), GetBE(Cut(b, n + 4, 4)))
=============================================================================
