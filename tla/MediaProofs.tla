----------------------------- MODULE MediaProofs -----------------------------
(* Machine-checked proofs about RTMP's chunk streams, the reception of RTP  *)
(* and the HLS muxer, for every value of their constants.                   *)
EXTENDS RtmpChunk, RtpReorder, MpegtsHls, SequenceTheorems, FiniteSetTheorems,
        WellFoundedInduction, TLAPS

-----------------------------------------------------------------------------
(* Induction: the library's well-foundedness of the natural numbers, for    *)
(* sets.                                                                    *)

\* The pairs in which the first number is the smaller one
Smaller == {p \in Nat \X Nat : p[1] < p[2]}

\* The naturals are well-founded.
LEMMA SmallerWellFounded == IsWellFoundedOn(Smaller, Nat)
  BY NatLessThanWellFounded, ZenonT(40) DEF OpToRel, Smaller

\* Every set of naturals that is not empty has a least element.
LEMMA LeastNumber ==
  ASSUME NEW T, T \subseteq Nat, T # {}
  PROVE  \E x \in T : \A y \in T : x <= y
<1>1. PICK x \in T : \A y \in T : ~(<<y, x>> \in Smaller)
  BY WFMin, SmallerWellFounded
<1>2. ASSUME NEW y \in T PROVE x <= y
  <2>1. x \in Nat /\ y \in Nat /\ ~(<<y, x>> \in Smaller)
    BY <1>1
  <2>2. PICK p : p = <<y, x>>
    OBVIOUS
  <2>3. p \in Nat \X Nat /\ p[1] = y /\ p[2] = x
    BY <2>1, <2>2
  <2>4. y < x => p \in Smaller
    BY <2>3 DEF Smaller
  <2>5. QED BY <2>1, <2>2, <2>4
<1>3. QED BY <1>2

\* A set that has 0, and with every natural the next one, has all of them.
LEMMA Induction ==
  ASSUME NEW S, 0 \in S, \A n \in Nat : n \in S => n + 1 \in S
  PROVE  \A n \in Nat : n \in S
<1> DEFINE T == Nat \ S
<1> SUFFICES ASSUME T # {} PROVE FALSE
  OBVIOUS
<1>1. PICK x \in T : \A y \in T : x <= y
  <2>1. T \subseteq Nat
    OBVIOUS
  <2> HIDE DEF T
  <2>2. QED BY LeastNumber, <2>1
<1>2. x # 0 /\ x - 1 \in Nat
  OBVIOUS
<1>3. x - 1 \in S
  BY <1>1, <1>2
<1>4. QED BY <1>2, <1>3

-----------------------------------------------------------------------------
(* Chunk streams: what the two sides agree about                            *)

\* A message as it is submitted: one that sets the chunk size is a chunk of its own
Message ==
  {m \in [ts : Nat, len : Nat \ {0}, type : {"av", "agg", "size"}, val : Nat] :
     m.type = "size" => m.val # 0 /\ m.len = 1}

\* The types of message the composer tells apart, and none yet
Types == {"av", "agg", "size", "none"}

\* What the composer remembers of a chunk stream
Stream == [ts : Int, field : Int, absTs : BOOLEAN, len : Int, type : Types, got : Int]

\* What a sender remembers of one
LastHeader == [ts : Nat, field : Nat, len : Nat, type : Types]

\* The type of the state
ChunkTypes ==
  /\ sender \in {"lal", "other"}
  /\ ssize \in Nat \ {0} /\ rsize \in Nat \ {0}
  /\ sstream \in [Csids -> LastHeader]
  /\ rstream \in [Csids -> Stream]
  /\ going \in [Csids -> [msg : Message, left : Nat \ {0}] \cup {Idle}]
  /\ submitted \in [Csids -> Seq(Message)]
  /\ DOMAIN composed = Csids

\* What the composer will make of the timestamp when the message is complete
StampOf(st) == IF st.absTs THEN st.ts ELSE st.ts + st.field

\* Between two messages the composer remembers the header another program will refer to
IdleAgrees(c) ==
  going[c] = Idle =>
    /\ rstream[c].got = 0 /\ ~rstream[c].absTs
    /\ sender = "other" =>
         /\ rstream[c].ts = sstream[c].ts /\ rstream[c].field = sstream[c].field
         /\ rstream[c].len = sstream[c].len /\ rstream[c].type = sstream[c].type

\* Within one it has read what has been written, and more is to come than fits
GoingAgrees(c) ==
  going[c] # Idle =>
    LET m == going[c].msg
    IN /\ submitted[c] # <<>> /\ m = submitted[c][Len(submitted[c])]
       /\ rstream[c].got = m.len - going[c].left /\ going[c].left < m.len
       /\ rstream[c].len = m.len /\ rstream[c].type = m.type
       /\ StampOf(rstream[c]) = m.ts
       /\ rstream[c].field = IF sender = "lal" THEN m.ts ELSE sstream[c].field
       /\ sender = "lal" => m.ts # TsMax
       /\ sender = "other" =>
            sstream[c].ts = m.ts /\ sstream[c].len = m.len /\ sstream[c].type = m.type
       /\ m.len > rsize

\* Both sides cut and read at one size, lal's own once it has announced it
SizesAgree ==
  /\ sender = "lal" => ssize = LalSize
  /\ \/ ssize = rsize
     \/ sender = "lal" /\ \A c \in Csids : submitted[c] = <<>> /\ going[c] = Idle

\* What holds as long as none of the cases the code does not handle has happened: the
\* composer is where the sender is, and every message it completed was the one sent
ChunksAgree ==
  /\ ChunkTypes /\ framed /\ SizesAgree
  /\ \A c \in Csids :
       /\ IdleAgrees(c) /\ GoingAgrees(c)
       /\ composed[c] = [i \in 1 .. Written(c) |-> HandedOn(submitted[c][i])]

\* The inductive invariant
ChunkInv == excused \/ ChunksAgree

-----------------------------------------------------------------------------
(* Headers                                                                  *)

\* A chunk header
Header == [fmt : 0 .. 3, field : Nat, ext : Nat \cup {NoExt}]

\* The composer reads an extended timestamp exactly when there is one
Fits(st, h, m) == ExpectsExt(ReadHeader(st, h, m), h) <=> h.ext # NoExt

\* Its Stream when it has read all of the header
Read(st, h, m) == ReadExt(ReadHeader(st, h, m), h)

\* What the composer makes of a chunk header h of message m on a Stream st that has
\* `have' bytes of it: the header is of the length it expects, and its Stream then describes m
ReadRight(st, h, m, have, f) ==
  /\ Fits(st, h, m)
  /\ Read(st, h, m) \in Stream
  /\ Read(st, h, m).len = m.len /\ Read(st, h, m).type = m.type
  /\ Read(st, h, m).got = have /\ Read(st, h, m).field = f
  /\ StampOf(Read(st, h, m)) = m.ts

\* The composer's Stream after the fields of the header.
LEMMA HeaderFields ==
  ASSUME NEW st \in Stream, NEW h \in Header, NEW m \in Message
  PROVE  LET r == ReadHeader(st, h, m)
         IN /\ r \in Stream /\ r.got = st.got
            /\ r.field = IF h.fmt <= 2 THEN h.field ELSE st.field
            /\ r.ts = IF h.fmt = 0 THEN h.field ELSE st.ts
            /\ h.fmt = 0 => r.absTs
            /\ h.fmt # 0 => (r.absTs <=> st.absTs)
            /\ r.len = IF h.fmt <= 1 THEN m.len ELSE st.len
            /\ r.type = IF h.fmt <= 1 THEN m.type ELSE st.type
<1> DEFINE field == IF h.fmt <= 2 THEN h.field ELSE st.field
           ts == IF h.fmt = 0 THEN h.field ELSE st.ts
           absTs == IF h.fmt = 0 THEN TRUE ELSE st.absTs
           len == IF h.fmt <= 1 THEN m.len ELSE st.len
           type == IF h.fmt <= 1 THEN m.type ELSE st.type
           r == [st EXCEPT !.field = field, !.ts = ts, !.absTs = absTs, !.len = len,
                          !.type = type]
<1>1. field \in Int /\ ts \in Int /\ len \in Int
  BY DEF Header, Message, Stream
<1>2. absTs \in BOOLEAN /\ type \in Types
  BY DEF Message, Stream, Types
<1>3. ReadHeader(st, h, m) = r
  BY DEF ReadHeader
<1> HIDE DEF field, ts, absTs, len, type
<1>4. /\ r \in Stream /\ r.got = st.got /\ r.field = field /\ r.ts = ts
      /\ r.len = len /\ r.type = type
  BY <1>1, <1>2 DEF Stream
<1>5. r.absTs = absTs
  BY DEF Stream
<1> HIDE DEF r
<1>6. (h.fmt = 0 => r.absTs) /\ (h.fmt # 0 => (r.absTs <=> st.absTs))
  BY <1>5 DEF absTs
<1>7. QED BY <1>3, <1>4, <1>6 DEF field, ts, len, type

\* ... and after the extended timestamp.
LEMMA ExtFields ==
  ASSUME NEW st \in Stream, NEW h \in Header, st.field >= TsMax, h.ext # NoExt
  PROVE  LET r == ReadExt(st, h)
         IN /\ r \in Stream /\ r.got = st.got /\ r.len = st.len /\ r.type = st.type
            /\ (r.absTs <=> st.absTs) /\ r.field = h.ext
            /\ r.ts = IF h.fmt = 0 THEN h.ext
                      ELSE IF h.fmt \in {1, 2} THEN st.ts - TsMax + h.ext ELSE st.ts
<1> DEFINE ts == IF h.fmt = 0 THEN h.ext
                 ELSE IF h.fmt \in {1, 2} THEN st.ts - TsMax + h.ext ELSE st.ts
           ext == h.ext
           r == [st EXCEPT !.field = ext, !.ts = ts]
<1>1. ext \in Int /\ ts \in Int
  BY ChunkAssumption DEF Header, Stream
<1>2. ReadExt(st, h) = r
  BY DEF ReadExt, ExpectsExt
<1> HIDE DEF ts, ext
<1>3. r \in Stream
  BY <1>1 DEF Stream
<1>4. r.got = st.got /\ r.len = st.len /\ r.type = st.type /\ r.field = ext /\ r.ts = ts
  BY <1>1 DEF Stream
<1>5. r.absTs = st.absTs
  BY DEF Stream
<1> HIDE DEF r
<1>6. r.absTs <=> st.absTs
  BY <1>5
<1>7. QED BY <1>2, <1>3, <1>4, <1>6 DEF ts, ext

\* A header with an extended timestamp where the composer expects one, that is neither of
\* format 1 nor 2, and one without it are read right when they say of the message what
\* the format carries and the Stream the rest.
LEMMA HeaderRead ==
  ASSUME NEW st \in Stream, NEW h \in Header, NEW m \in Message, NEW f \in Nat,
         h.fmt > 1 => st.len = m.len /\ st.type = m.type,
         h.fmt < 3 => h.field = IF f >= TsMax THEN TsMax ELSE f,
         h.ext = IF f >= TsMax THEN f ELSE NoExt,
         h.fmt \in {1, 2} => f < TsMax,
         h.fmt = 0 => m.ts = f,
         h.fmt > 0 /\ st.absTs => st.ts = m.ts,
         h.fmt > 0 /\ ~st.absTs => st.ts + f = m.ts,
         h.fmt = 3 => st.field = f
  PROVE  ReadRight(st, h, m, st.got, f)
<1> DEFINE r == ReadHeader(st, h, m)
<1>1. /\ r \in Stream /\ r.got = st.got
      /\ r.field = IF h.fmt <= 2 THEN h.field ELSE st.field
      /\ r.ts = IF h.fmt = 0 THEN h.field ELSE st.ts
      /\ h.fmt = 0 => r.absTs
      /\ h.fmt # 0 => (r.absTs <=> st.absTs)
      /\ r.len = m.len /\ r.type = m.type
  <2>1. h.fmt \in 0 .. 3
    BY DEF Header
  <2>2. QED BY <2>1, HeaderFields
<1>2. h.fmt \in 0 .. 3 /\ TsMax \in Nat \ {0} /\ st.ts \in Int
  BY ChunkAssumption DEF Header, Stream
<1> HIDE DEF r
<1>3. r.field >= TsMax <=> f >= TsMax
  BY <1>1, <1>2
<1>4. Fits(st, h, m)
  BY <1>2, <1>3 DEF Fits, ExpectsExt, r, NoExt
<1>5. CASE f < TsMax
  <2>1. Read(st, h, m) = r
    BY <1>2, <1>3, <1>5 DEF Read, ReadExt, ExpectsExt, r
  <2>2. r.field = f
    BY <1>1, <1>2, <1>5
  <2>3. StampOf(r) = m.ts
    <3>1. CASE h.fmt = 0
      BY <1>1, <1>2, <1>5, <3>1 DEF StampOf
    <3>2. CASE h.fmt # 0 /\ st.absTs
      BY <1>1, <1>2, <3>2 DEF StampOf
    <3>3. CASE h.fmt # 0 /\ ~st.absTs
      BY <1>1, <1>2, <2>2, <3>3 DEF StampOf
    <3>4. QED BY <3>1, <3>2, <3>3
  <2>4. QED BY <1>1, <1>4, <2>1, <2>2, <2>3 DEF ReadRight
<1>6. CASE f >= TsMax
  <2> DEFINE q == Read(st, h, m)
  <2>1. h.ext = f /\ h.ext # NoExt /\ h.fmt \in {0, 3}
    BY <1>2, <1>6 DEF NoExt
  <2>2. /\ q \in Stream /\ q.got = r.got /\ q.len = r.len /\ q.type = r.type
        /\ (q.absTs <=> r.absTs) /\ q.field = f
        /\ q.ts = IF h.fmt = 0 THEN f ELSE r.ts
    BY <1>1, <1>2, <1>3, <1>6, <2>1, ExtFields DEF Read, r
  <2> HIDE DEF q
  <2>3. StampOf(q) = m.ts
    <3>1. CASE h.fmt = 0
      BY <1>1, <2>2, <3>1 DEF StampOf
    <3>2. CASE h.fmt # 0 /\ st.absTs
      BY <1>1, <1>2, <2>2, <3>2 DEF StampOf
    <3>3. CASE h.fmt # 0 /\ ~st.absTs
      BY <1>1, <1>2, <2>2, <3>3 DEF StampOf
    <3>4. QED BY <3>1, <3>2, <3>3
  <2>4. QED BY <1>1, <1>4, <2>2, <2>3 DEF ReadRight, q
<1>7. QED BY <1>2, <1>5, <1>6

\* lal's first chunk of a message carries the whole header.
LEMMA LalFirst ==
  ASSUME NEW st \in Stream, NEW m \in Message, m.ts # TsMax
  PROVE  ReadRight(st, CalcHeader(m, TRUE), m, st.got, m.ts)
<1> DEFINE h == CalcHeader(m, TRUE)
<1>1. m.ts \in Nat /\ TsMax \in Nat
  BY ChunkAssumption DEF Message
<1>2. /\ h \in Header /\ h.fmt = 0
      /\ h.field = IF m.ts >= TsMax THEN TsMax ELSE m.ts
      /\ h.ext = IF m.ts >= TsMax THEN m.ts ELSE NoExt
  BY <1>1 DEF CalcHeader, Header
<1> DEFINE f == m.ts
<1> HIDE DEF h, f
<1>3. ReadRight(st, h, m, st.got, f)
  BY <1>1, <1>2, HeaderRead DEF f
<1>4. QED BY <1>3 DEF h, f

\* lal's other chunks repeat an extended timestamp and nothing else.
LEMMA LalNext ==
  ASSUME NEW st \in Stream, NEW m \in Message, m.ts # TsMax,
         st.len = m.len, st.type = m.type, st.field = m.ts, StampOf(st) = m.ts
  PROVE  ReadRight(st, CalcHeader(m, FALSE), m, st.got, m.ts)
<1> DEFINE h == CalcHeader(m, FALSE)
<1>1. m.ts \in Nat /\ TsMax \in Nat
  BY ChunkAssumption DEF Message
<1>2. h \in Header /\ h.fmt = 3 /\ h.ext = IF m.ts >= TsMax THEN m.ts ELSE NoExt
  BY <1>1 DEF CalcHeader, Header
<1>3. (st.absTs => st.ts = m.ts) /\ (~st.absTs => st.ts + m.ts = m.ts)
  BY DEF StampOf
<1> DEFINE f == m.ts
<1> HIDE DEF h, f
<1>4. ReadRight(st, h, m, st.got, f)
  BY <1>1, <1>2, <1>3, HeaderRead DEF f
<1>5. QED BY <1>4 DEF h, f

\* So do those of another program.
LEMMA OtherNext ==
  ASSUME NEW st \in Stream, NEW m \in Message, NEW o \in LastHeader,
         st.len = m.len, st.type = m.type, st.field = o.field, StampOf(st) = m.ts
  PROVE  ReadRight(st, OtherHeader(3, m, o), m, st.got, o.field)
<1> DEFINE h == OtherHeader(3, m, o)
           f == o.field
<1>1. f \in Nat /\ TsMax \in Nat
  BY ChunkAssumption DEF LastHeader
<1>2. h \in Header /\ h.fmt = 3 /\ h.ext = IF f >= TsMax THEN f ELSE NoExt
  BY <1>1 DEF OtherHeader, Header
<1>3. (st.absTs => st.ts = m.ts) /\ (~st.absTs => st.ts + f = m.ts)
  BY DEF StampOf
<1> HIDE DEF h, f
<1>4. ReadRight(st, h, m, st.got, f)
  BY <1>1, <1>2, <1>3, HeaderRead DEF f
<1>5. QED BY <1>4 DEF h, f

\* Its first chunk may leave out what the composer remembers of the message before.
LEMMA OtherFirst ==
  ASSUME NEW st \in Stream, NEW m \in Message, NEW o \in LastHeader, NEW fmt \in 0 .. 3,
         FormatAllowed(fmt, m, o),
         st.ts = o.ts, st.field = o.field, st.len = o.len, st.type = o.type, ~st.absTs,
         ~(fmt \in {1, 2} /\ OtherHeader(fmt, m, o).ext # NoExt)
  PROVE  LET h == OtherHeader(fmt, m, o)
         IN ReadRight(st, h, m, st.got, IF h.ext = NoExt THEN h.field ELSE h.ext)
<1> DEFINE h == OtherHeader(fmt, m, o)
           f == IF fmt = 0 THEN m.ts ELSE IF fmt = 3 THEN o.field ELSE m.ts - o.ts
<1>1. TsMax \in Nat \ {0} /\ m.ts \in Nat /\ o.field \in Nat /\ o.ts \in Nat
  BY ChunkAssumption DEF LastHeader, Message
<1>2. f \in Nat
  BY <1>1 DEF FormatAllowed
<1>3. /\ h.fmt = fmt /\ h.field = IF f >= TsMax THEN TsMax ELSE f
      /\ h.ext = IF f >= TsMax THEN f ELSE NoExt
  BY DEF OtherHeader
<1>4. h \in Header
  BY <1>1, <1>2 DEF OtherHeader, Header
<1>5. f = IF h.ext = NoExt THEN h.field ELSE h.ext
  BY <1>1, <1>2, <1>3 DEF NoExt
<1>6. fmt \in {1, 2} => f < TsMax
  BY <1>1, <1>2, <1>3 DEF NoExt
<1>7. fmt > 1 => st.len = m.len /\ st.type = m.type
  BY DEF FormatAllowed
<1>8. fmt > 0 => st.ts + f = m.ts
  BY <1>1 DEF FormatAllowed
<1>9. (fmt = 0 => m.ts = f) /\ (fmt = 3 => st.field = f)
  OBVIOUS
<1> HIDE DEF h, f
<1>10. ReadRight(st, h, m, st.got, f)
  BY <1>2, <1>3, <1>4, <1>6, <1>7, <1>8, <1>9, HeaderRead
<1>11. QED BY <1>5, <1>10 DEF h

-----------------------------------------------------------------------------
(* Chunks                                                                   *)

\* What the composer's Stream is after n more bytes.
LEMMA GotMore ==
  ASSUME NEW st \in Stream, NEW n \in Int
  PROVE  LET r == [st EXCEPT !.got = @ + n]
         IN /\ r \in Stream /\ r.got = st.got + n /\ r.len = st.len /\ r.type = st.type
            /\ r.field = st.field /\ StampOf(r) = StampOf(st)
<1> DEFINE g == st.got + n
           r == [st EXCEPT !.got = g]
<1>1. g \in Int
  BY DEF Stream
<1> HIDE DEF g
<1>2. r \in Stream
  BY <1>1 DEF Stream
<1>3. r.got = g /\ r.len = st.len /\ r.type = st.type /\ r.field = st.field /\ r.ts = st.ts
  BY <1>1 DEF Stream
<1>4. r.absTs = st.absTs
  BY DEF Stream
<1> HIDE DEF r
<1>5. StampOf(r) = StampOf(st)
  BY <1>3, <1>4 DEF StampOf
<1>6. QED BY <1>2, <1>3, <1>5 DEF g, r

\* ... and when the message is complete.
LEMMA CompletedFields ==
  ASSUME NEW st \in Stream
  PROVE  LET r == Completed(st)
         IN /\ r \in Stream /\ r.got = 0 /\ r.len = st.len /\ r.type = st.type
            /\ r.field = st.field /\ ~r.absTs /\ r.ts = StampOf(st)
<1> DEFINE ts == StampOf(st)
           none == FALSE
           zero == 0
           r == [st EXCEPT !.ts = ts, !.absTs = none, !.got = zero]
<1>1. ts \in Int /\ zero \in Int
  BY DEF Stream, StampOf
<1>2. none \in BOOLEAN
  OBVIOUS
<1>3. Completed(st) = r
  BY DEF Completed, StampOf
<1> HIDE DEF ts, none, zero
<1>4. r \in Stream
  BY <1>1, <1>2 DEF Stream
<1>5. r.got = zero /\ r.len = st.len /\ r.type = st.type /\ r.field = st.field /\ r.ts = ts
  BY <1>1 DEF Stream
<1>6. r.absTs = none
  BY DEF Stream
<1> HIDE DEF r
<1>7. ~r.absTs
  BY <1>6 DEF none
<1>8. QED BY <1>3, <1>4, <1>5, <1>7 DEF ts, zero

\* The message that a chunk belongs to, when its header is read right, the composer has
\* read what came before of it, and both sides cut it by the same size.
ChunkRight(c, h, m, left, f) ==
  /\ ReadRight(rstream[c], h, m, m.len - left, f)
  /\ left \in 1 .. m.len
  /\ ssize = rsize \/ m.len = 1
  /\ left < m.len => m.len > rsize

\* The composer reads as much as was written.
LEMMA SamePiece ==
  ASSUME ChunkTypes, NEW c, NEW h, NEW m \in Message, NEW left, NEW f,
         ChunkRight(c, h, m, left, f)
  PROVE  /\ Piece(left) \in 1 .. left
         /\ NeededSize(Read(rstream[c], h, m)) = Piece(left)
<1> DEFINE st == Read(rstream[c], h, m)
<1>1. st.len = m.len /\ st.got = m.len - left
  BY DEF ChunkRight, ReadRight
<1>2. m.len \in Nat \ {0} /\ ssize \in Nat \ {0} /\ rsize \in Nat \ {0} /\ left \in 1 .. m.len
  BY DEF ChunkTypes, ChunkRight, Message
<1> HIDE DEF st
<1>3. Piece(left) \in 1 .. left
  BY <1>2 DEF Piece
<1>4. NeededSize(st) = Piece(left)
  BY <1>1, <1>2 DEF NeededSize, Piece, ChunkRight
<1>5. QED BY <1>3, <1>4 DEF st

\* A chunk that is read right: the composer's Stream describes what it has of the
\* message, or is ready for the next when this was all
WroteAndRead(c, m, left, f) ==
  LET n == Piece(left)
      last == left - n = 0
  IN /\ framed' /\ n \in 1 .. left
     /\ going' = [going EXCEPT ![c] = IF last THEN Idle ELSE [msg |-> m, left |-> left - n]]
     /\ rstream' = [rstream EXCEPT ![c] = rstream'[c]] /\ rstream'[c] \in Stream
     /\ rstream'[c].len = m.len /\ rstream'[c].type = m.type /\ rstream'[c].field = f
     /\ last => rstream'[c].got = 0 /\ ~rstream'[c].absTs /\ rstream'[c].ts = m.ts
     /\ ~last => rstream'[c].got = m.len - (left - n) /\ StampOf(rstream'[c]) = m.ts
     /\ composed' = IF last THEN [composed EXCEPT ![c] = Append(@, HandedOn(m))] ELSE composed
     /\ rsize' = IF last /\ m.type = "size" THEN m.val ELSE rsize
     /\ ssize' = IF last /\ m.type = "size" THEN m.val ELSE ssize

\* Writing a chunk and reading it.
LEMMA WriteStep ==
  ASSUME ChunkTypes, NEW c \in Csids, NEW h, NEW m \in Message, NEW left, NEW f,
         ChunkRight(c, h, m, left, f), framed, Write(c, h, m, left)
  PROVE  WroteAndRead(c, m, left, f)
<1> DEFINE n == Piece(left)
           last == left - n = 0
           s2 == Read(rstream[c], h, m)
           s3 == [s2 EXCEPT !.got = @ + n]
           s4 == IF last THEN Completed(s3) ELSE s3
<1>1. /\ s2 \in Stream /\ s2.len = m.len /\ s2.type = m.type /\ s2.got = m.len - left
      /\ s2.field = f /\ StampOf(s2) = m.ts /\ Fits(rstream[c], h, m)
  BY DEF ChunkRight, ReadRight
<1>2. n \in 1 .. left /\ NeededSize(s2) = n /\ left \in Nat /\ m.len \in Nat
  <2>1. n \in 1 .. left /\ NeededSize(s2) = n
    BY SamePiece
  <2>2. m.len \in Nat
    BY DEF Message
  <2>3. left \in Nat
    BY <2>2 DEF ChunkRight
  <2>4. QED BY <2>1, <2>2, <2>3
<1> HIDE DEF n, s2
<1>3. /\ s3 \in Stream /\ s3.got = m.len - (left - n) /\ s3.len = m.len /\ s3.type = m.type
      /\ s3.field = f /\ StampOf(s3) = m.ts
  BY <1>1, <1>2, GotMore
<1>4. (s3.got = s3.len <=> last) /\ s3.got <= s3.len
  BY <1>2, <1>3
<1>5. /\ framed' = (framed /\ Fits(rstream[c], h, m) /\ NeededSize(s2) = n /\ s3.got <= s3.len)
      /\ rstream' = [rstream EXCEPT ![c] = s4]
      /\ composed' = IF last THEN [composed EXCEPT ![c] = Append(@, HandedOn(s4))] ELSE composed
      /\ rsize' = IF last /\ s4.type = "size" THEN m.val ELSE rsize
  BY <1>1, <1>2, <1>4 DEF Write, Compose, Fits, Read, s2, n
<1>6. framed'
  BY <1>1, <1>2, <1>4, <1>5
<1> HIDE DEF s3
<1>7. CASE last
  <2>1. s4 = Completed(s3)
    BY <1>7
  <2>2. /\ s4 \in Stream /\ s4.got = 0 /\ s4.len = m.len /\ s4.type = m.type
        /\ s4.field = f /\ ~s4.absTs /\ s4.ts = m.ts
    BY <1>3, <2>1, CompletedFields
  <2> HIDE DEF s4
  <2>3. HandedOn(s4) = HandedOn(m)
    BY <2>2 DEF HandedOn
  <2>4. rstream'[c] = s4
    BY <1>5 DEF ChunkTypes
  <2>5. QED BY <1>2, <1>5, <1>6, <1>7, <2>2, <2>3, <2>4 DEF n, Write, WroteAndRead
<1>8. CASE ~last
  <2>1. s4 = s3
    BY <1>8
  <2> HIDE DEF s4
  <2>2. rstream'[c] = s4
    BY <1>5 DEF ChunkTypes
  <2>3. QED BY <1>2, <1>3, <1>5, <1>6, <1>8, <2>1, <2>2 DEF n, Write, WroteAndRead
<1>9. QED BY <1>7, <1>8

\* One more message handed on.
LEMMA OneMore ==
  ASSUME NEW q \in Seq(Message), q # <<>>
  PROVE  Append([i \in 1 .. Len(q) - 1 |-> HandedOn(q[i])], HandedOn(q[Len(q)]))
           = [i \in 1 .. Len(q) |-> HandedOn(q[i])]
<1> DEFINE H == {HandedOn(x) : x \in Message}
           n == Len(q)
           g == [i \in 1 .. n |-> HandedOn(q[i])]
           p == [i \in 1 .. n - 1 |-> HandedOn(q[i])]
           a == Append(p, HandedOn(q[n]))
<1>1. n \in Nat \ {0} /\ \A i \in 1 .. n : q[i] \in Message
  OBVIOUS
<1>2. \A i \in 1 .. n : HandedOn(q[i]) \in H
  BY <1>1
<1> HIDE DEF H, n
<1>3. p \in Seq(H) /\ Len(p) = n - 1 /\ g \in Seq(H) /\ Len(g) = n
  BY <1>1, <1>2
<1>4. a \in Seq(H) /\ Len(a) = n /\ \A i \in 1 .. n : a[i] = IF i = n THEN HandedOn(q[n]) ELSE p[i]
  BY <1>1, <1>2, <1>3
<1>5. \A i \in 1 .. n : a[i] = g[i]
  BY <1>1, <1>4
<1> HIDE DEF a, g
<1>6. a = g
  BY <1>3, <1>4, <1>5, SeqEqual
<1>7. QED BY <1>6 DEF a, g, n

-----------------------------------------------------------------------------
(* Steps                                                                    *)

\* A chunk that is read right leaves the two sides agreed: about the stream it is of, and
\* about the others, which only a new chunk size can touch.
LEMMA AfterWrite ==
  ASSUME ChunksAgree, ~excused', NEW c \in Csids, NEW h, NEW m \in Message, NEW left, NEW f,
         ChunkRight(c, h, m, left, f), Write(c, h, m, left),
         sender' = sender,
         sstream' \in [Csids -> LastHeader], submitted' \in [Csids -> Seq(Message)],
         \A d \in Csids : d # c => submitted'[d] = submitted[d] /\ sstream'[d] = sstream[d],
         submitted'[c] # <<>>, m = submitted'[c][Len(submitted'[c])],
         composed[c] = [i \in 1 .. Len(submitted'[c]) - 1 |-> HandedOn(submitted'[c][i])],
         sender = "lal" => f = m.ts /\ m.ts # TsMax,
         sender = "other" =>
           /\ f = sstream'[c].field /\ sstream'[c].ts = m.ts
           /\ sstream'[c].len = m.len /\ sstream'[c].type = m.type,
         sender = "lal" /\ m.type = "size" => m.val = LalSize,
         ssize = rsize \/ (m.type = "size" /\ m.len = 1)
  PROVE  ChunksAgree'
<1> DEFINE n == Piece(left)
           last == left - n = 0
           r == rstream'[c]
<1>1. ChunkTypes /\ framed /\ SizesAgree
  BY DEF ChunksAgree
<1>2. /\ framed' /\ n \in 1 .. left
      /\ going' = [going EXCEPT ![c] = IF last THEN Idle ELSE [msg |-> m, left |-> left - n]]
      /\ rstream' = [rstream EXCEPT ![c] = r] /\ r \in Stream
      /\ r.len = m.len /\ r.type = m.type /\ r.field = f
      /\ last => r.got = 0 /\ ~r.absTs /\ r.ts = m.ts
      /\ ~last => r.got = m.len - (left - n) /\ StampOf(r) = m.ts
      /\ composed' = IF last THEN [composed EXCEPT ![c] = Append(@, HandedOn(m))] ELSE composed
      /\ rsize' = IF last /\ m.type = "size" THEN m.val ELSE rsize
      /\ ssize' = IF last /\ m.type = "size" THEN m.val ELSE ssize
  <2>1. WroteAndRead(c, m, left, f)
    BY <1>1, WriteStep
  <2>2. QED BY <2>1 DEF WroteAndRead
<1>3. /\ m.len \in Nat \ {0} /\ left \in 1 .. m.len /\ left \in Nat
      /\ m.val \in Nat /\ (m.type = "size" => m.val # 0)
  <2>1. m.len \in Nat \ {0} /\ m.val \in Nat /\ (m.type = "size" => m.val # 0)
    BY DEF Message
  <2>2. left \in 1 .. m.len
    BY DEF ChunkRight
  <2>3. QED BY <2>1, <2>2
<1>4. last /\ m.type = "size" =>
        \A d \in Csids \ {c} : ~(going[d].left > 0 /\ going[d].msg.len <= m.val)
  BY DEF Write
<1> HIDE DEF n, r
<1>5. ~last => left - n \in Nat \ {0} /\ left - n < m.len
  BY <1>2, <1>3
<1>6. ChunkTypes'
  <2>1. ssize' \in Nat \ {0} /\ rsize' \in Nat \ {0}
    BY <1>1, <1>2, <1>3 DEF ChunkTypes
  <2>2. rstream' \in [Csids -> Stream]
    BY <1>1, <1>2 DEF ChunkTypes
  <2>3. going' \in [Csids -> [msg : Message, left : Nat \ {0}] \cup {Idle}]
    <3>1. ~last => [msg |-> m, left |-> left - n] \in [msg : Message, left : Nat \ {0}]
      BY <1>5
    <3>2. QED BY <1>1, <1>2, <3>1 DEF ChunkTypes
  <2>4. DOMAIN composed' = Csids
    BY <1>1, <1>2 DEF ChunkTypes
  <2>5. QED BY <1>1, <2>1, <2>2, <2>3, <2>4 DEF ChunkTypes
<1>7. SizesAgree'
  <2>1. m.len = 1 => last
    BY <1>2, <1>3
  <2>2. ssize' = rsize'
    BY <1>2, <2>1
  <2>3. QED BY <1>1, <1>2, <2>2 DEF SizesAgree
<1>8. ASSUME NEW d \in Csids, d # c
      PROVE  IdleAgrees(d)' /\ GoingAgrees(d)' /\ Written(d)' = Written(d)
  <2>1. /\ going'[d] = going[d] /\ rstream'[d] = rstream[d]
        /\ submitted'[d] = submitted[d] /\ sstream'[d] = sstream[d]
    BY <1>1, <1>2, <1>8 DEF ChunkTypes
  <2>2. IdleAgrees(d) /\ GoingAgrees(d)
    BY DEF ChunksAgree
  <2>3. ASSUME going[d] # Idle
        PROVE  going[d].msg.len > rsize'
    <3>1. going[d].left \in Nat \ {0} /\ going[d].msg.len \in Nat
      BY <1>1, <2>3 DEF ChunkTypes, Message
    <3>2. going[d].msg.len > rsize
      BY <2>2, <2>3 DEF GoingAgrees
    <3>3. QED BY <1>2, <1>3, <1>4, <1>8, <3>1, <3>2
  <2>4. IdleAgrees(d)'
    BY <2>1, <2>2 DEF IdleAgrees
  <2>5. GoingAgrees(d)'
    BY <2>1, <2>2, <2>3 DEF GoingAgrees
  <2>6. Written(d)' = Written(d)
    BY <2>1 DEF Written
  <2>7. QED BY <2>4, <2>5, <2>6
<1>9. going'[c] = IF last THEN Idle ELSE [msg |-> m, left |-> left - n]
  BY <1>1, <1>2 DEF ChunkTypes
<1>10. IdleAgrees(c)' /\ GoingAgrees(c)'
  <2>1. CASE last
    <3>1. going'[c] = Idle
      BY <1>9, <2>1
    <3>2. QED BY <1>2, <2>1, <3>1 DEF IdleAgrees, GoingAgrees, r
  <2>2. CASE ~last
    <3>1. going'[c].msg = m /\ going'[c].left = left - n /\ going'[c] # Idle
      BY <1>9, <1>5, <2>2 DEF Idle
    <3>2. m.len > rsize'
      <4>1. rsize' = rsize /\ rsize \in Nat \ {0} /\ ssize \in Nat \ {0}
        BY <1>1, <1>2, <2>2 DEF ChunkTypes
      <4>2. m.len # 1
        BY <1>2, <1>3, <2>2
      <4>3. CASE left < m.len
        BY <4>1, <4>3 DEF ChunkRight
      <4>4. CASE left = m.len
        BY <1>3, <2>2, <4>1, <4>2, <4>4 DEF n, Piece
      <4>5. QED BY <1>3, <4>3, <4>4
    <3>3. StampOf(rstream[c])' = m.ts
      BY <1>2, <2>2 DEF StampOf, r
    <3>4. /\ rstream'[c].got = m.len - going'[c].left /\ going'[c].left < m.len
          /\ rstream'[c].len = m.len /\ rstream'[c].type = m.type /\ rstream'[c].field = f
      BY <1>2, <1>5, <2>2, <3>1 DEF r
    <3>5. IdleAgrees(c)'
      BY <3>1 DEF IdleAgrees
    <3>6. GoingAgrees(c)'
      BY <1>1, <3>1, <3>2, <3>3, <3>4 DEF GoingAgrees, ChunkTypes
    <3>7. QED BY <3>5, <3>6
  <2>3. QED BY <2>1, <2>2
<1>11. ASSUME NEW d \in Csids
       PROVE  composed'[d] = [i \in 1 .. Written(d)' |-> HandedOn(submitted'[d][i])]
  <2>1. CASE d # c
    <3>1. composed'[d] = composed[d]
      BY <1>1, <1>2, <2>1 DEF ChunkTypes
    <3>2. composed[d] = [i \in 1 .. Written(d) |-> HandedOn(submitted[d][i])]
      BY DEF ChunksAgree
    <3>3. QED BY <1>8, <2>1, <3>1, <3>2
  <2>2. CASE d = c /\ last
    <3>1. Written(c)' = Len(submitted'[c])
      BY <1>9, <2>2 DEF Written
    <3>2. composed'[c] = Append(composed[c], HandedOn(m))
      BY <1>1, <1>2, <2>2 DEF ChunkTypes
    <3>3. PICK q \in Seq(Message) : q = submitted'[c]
      OBVIOUS
    <3>4. /\ q # <<>> /\ m = q[Len(q)]
          /\ composed[c] = [i \in 1 .. Len(q) - 1 |-> HandedOn(q[i])]
      BY <3>3
    <3>5. composed'[c] = [i \in 1 .. Len(q) |-> HandedOn(q[i])]
      BY <3>2, <3>4, OneMore
    <3>6. QED BY <2>2, <3>1, <3>3, <3>5
  <2>3. CASE d = c /\ ~last
    <3>1. Written(c)' = Len(submitted'[c]) - 1
      BY <1>5, <1>9, <2>3 DEF Written, Idle
    <3>2. composed' = composed
      BY <1>2, <2>3
    <3>3. QED BY <2>3, <3>1, <3>2
  <2>4. QED BY <2>1, <2>2, <2>3
<1>12. \A d \in Csids : IdleAgrees(d)' /\ GoingAgrees(d)'
  BY <1>8, <1>10
<1>13. QED BY <1>2, <1>6, <1>7, <1>11, <1>12 DEF ChunksAgree

\* The messages there are to send.
LEMMA NewMessage ==
  ASSUME sender \in {"lal", "other"}, NEW m \in NewMessages
  PROVE  /\ m \in Message /\ (m.type = "size" => m.len = 1)
         /\ sender = "lal" /\ m.type = "size" => m.val = LalSize
<1>1. CASE m \in {[ts |-> t, len |-> k.len, type |-> k.type, val |-> 0] :
                    t \in Stamps, k \in Kinds}
  <2>1. PICK t \in Stamps, k \in Kinds :
          m = [ts |-> t, len |-> k.len, type |-> k.type, val |-> 0]
    BY <1>1
  <2>2. t \in Nat /\ k.len \in Nat \ {0} /\ k.type \in {"av", "agg"}
    BY ChunkAssumption
  <2>3. m.type # "size"
    BY <2>1, <2>2
  <2>4. QED BY <2>1, <2>2, <2>3 DEF Message
<1>2. CASE m \in {[ts |-> 0, len |-> 1, type |-> "size", val |-> v] :
                    v \in IF sender = "lal" THEN {LalSize} ELSE OtherSizes}
  <2>1. PICK v \in IF sender = "lal" THEN {LalSize} ELSE OtherSizes :
          m = [ts |-> 0, len |-> 1, type |-> "size", val |-> v]
    BY <1>2
  <2>2. v \in Nat \ {0} /\ (sender = "lal" => v = LalSize)
    BY ChunkAssumption
  <2>3. QED BY <2>1, <2>2 DEF Message
<1>3. QED BY <1>1, <1>2 DEF NewMessages

\* A message that is begun is the last one of its stream, and those before it are written.
LEMMA Begun ==
  ASSUME ChunksAgree, NEW c \in Csids, NEW m \in Message, going[c] = Idle,
         submitted' = [submitted EXCEPT ![c] = Append(@, m)]
  PROVE  /\ submitted' \in [Csids -> Seq(Message)]
         /\ \A d \in Csids : d # c => submitted'[d] = submitted[d]
         /\ submitted'[c] # <<>> /\ m = submitted'[c][Len(submitted'[c])]
         /\ composed[c] = [i \in 1 .. Len(submitted'[c]) - 1 |-> HandedOn(submitted'[c][i])]
<1>1. submitted \in [Csids -> Seq(Message)]
  BY DEF ChunksAgree, ChunkTypes
<1>2. PICK q \in Seq(Message) : q = submitted[c]
  BY <1>1
<1>3. submitted'[c] = Append(q, m)
  BY <1>1, <1>2
<1>4. composed[c] = [i \in 1 .. Len(q) |-> HandedOn(q[i])]
  BY <1>2 DEF ChunksAgree, Written
<1>5. Len(Append(q, m)) = Len(q) + 1 /\ \A i \in 1 .. Len(q) : Append(q, m)[i] = q[i]
  OBVIOUS
<1>6. composed[c] = [i \in 1 .. Len(Append(q, m)) - 1 |-> HandedOn(Append(q, m)[i])]
  BY <1>4, <1>5
<1>7. Append(q, m) # <<>> /\ m = Append(q, m)[Len(Append(q, m))]
  OBVIOUS
<1>8. submitted' \in [Csids -> Seq(Message)]
  BY <1>1
<1>9. QED BY <1>1, <1>3, <1>6, <1>7, <1>8

\* lal begins a message.
LEMMA LalStep ==
  ASSUME ChunksAgree, ~excused', NEW c \in Csids, NEW m \in NewMessages, LalSends(c, m)
  PROVE  ChunksAgree'
<1>1. ChunkTypes /\ SizesAgree /\ IdleAgrees(c)
  BY DEF ChunksAgree
<1>2. /\ sender = "lal" /\ going[c] = Idle
      /\ m.type = "size" <=> \A d \in Csids : submitted[d] = <<>>
      /\ submitted' = [submitted EXCEPT ![c] = Append(@, m)]
      /\ Write(c, CalcHeader(m, TRUE), m, m.len)
      /\ sender' = sender /\ sstream' = sstream
  BY DEF LalSends
<1>3. /\ m \in Message /\ (m.type = "size" => m.len = 1)
      /\ m.type = "size" => m.val = LalSize
  BY <1>1, <1>2, NewMessage DEF ChunkTypes
<1>4. m.ts # TsMax
  BY <1>2 DEF Write
<1>5. ssize = rsize \/ (m.type = "size" /\ m.len = 1)
  BY <1>1, <1>2, <1>3 DEF SizesAgree
<1>6. ChunkRight(c, CalcHeader(m, TRUE), m, m.len, m.ts)
  <2>1. m.len \in Nat \ {0}
    BY <1>3 DEF Message
  <2>2. rstream[c] \in Stream /\ rstream[c].got = 0
    BY <1>1, <1>2 DEF ChunkTypes, IdleAgrees
  <2>3. ReadRight(rstream[c], CalcHeader(m, TRUE), m, rstream[c].got, m.ts)
    BY <1>3, <1>4, <2>2, LalFirst
  <2>4. m.len - m.len = rstream[c].got
    BY <2>1, <2>2
  <2>5. ReadRight(rstream[c], CalcHeader(m, TRUE), m, m.len - m.len, m.ts)
    BY <2>3, <2>4, ZenonT(40)
  <2>6. m.len \in 1 .. m.len /\ ~(m.len < m.len) /\ (ssize = rsize \/ m.len = 1)
    BY <1>5, <2>1
  <2>7. QED BY <2>5, <2>6, ZenonT(40) DEF ChunkRight
<1>7. /\ submitted' \in [Csids -> Seq(Message)]
      /\ \A d \in Csids : d # c => submitted'[d] = submitted[d]
      /\ submitted'[c] # <<>> /\ m = submitted'[c][Len(submitted'[c])]
      /\ composed[c] = [i \in 1 .. Len(submitted'[c]) - 1 |-> HandedOn(submitted'[c][i])]
  BY <1>2, <1>3, Begun
<1>8. sstream' \in [Csids -> LastHeader]
  BY <1>1, <1>2 DEF ChunkTypes
<1>9. QED BY <1>2, <1>3, <1>4, <1>5, <1>6, <1>7, <1>8, AfterWrite

\* Another program begins one.
LEMMA OtherStep ==
  ASSUME ChunksAgree, ~excused', NEW c \in Csids, NEW m \in NewMessages, NEW fmt \in 0 .. 3,
         OtherSends(c, m, fmt)
  PROVE  ChunksAgree'
<1> DEFINE h == OtherHeader(fmt, m, sstream[c])
           f == IF h.ext = NoExt THEN h.field ELSE h.ext
<1>1. ChunkTypes /\ SizesAgree /\ IdleAgrees(c)
  BY DEF ChunksAgree
<1>2. /\ sender = "other" /\ going[c] = Idle
      /\ FormatAllowed(fmt, m, sstream[c])
      /\ submitted' = [submitted EXCEPT ![c] = Append(@, m)]
      /\ sstream' = [sstream EXCEPT ![c] =
                       [ts |-> m.ts, field |-> f, len |-> m.len, type |-> m.type]]
      /\ Write(c, h, m, m.len)
      /\ sender' = sender
  BY DEF OtherSends
<1>3. m \in Message
  BY <1>1, <1>2, NewMessage DEF ChunkTypes
<1>4. ssize = rsize
  BY <1>1, <1>2 DEF SizesAgree
<1>5. ~(fmt \in {1, 2} /\ h.ext # NoExt)
  <2>1. h.fmt = fmt
    BY DEF OtherHeader
  <2> HIDE DEF h
  <2>2. QED BY <1>2, <2>1 DEF Write
<1>6. sstream[c] \in LastHeader /\ rstream[c] \in Stream
  BY <1>1 DEF ChunkTypes
<1>7. ReadRight(rstream[c], h, m, rstream[c].got, f) /\ rstream[c].got = 0
  BY <1>1, <1>2, <1>3, <1>5, <1>6, OtherFirst DEF IdleAgrees
<1>8. f \in Nat
  BY <1>2, <1>3, <1>6, ChunkAssumption DEF OtherHeader, LastHeader, Message, NoExt, FormatAllowed
<1> HIDE DEF h, f
<1>9. ChunkRight(c, h, m, m.len, f)
  <2>1. m.len \in Nat \ {0}
    BY <1>3 DEF Message
  <2>2. QED BY <1>4, <1>7, <2>1 DEF ChunkRight
<1>10. /\ submitted' \in [Csids -> Seq(Message)]
       /\ \A d \in Csids : d # c => submitted'[d] = submitted[d]
       /\ submitted'[c] # <<>> /\ m = submitted'[c][Len(submitted'[c])]
       /\ composed[c] = [i \in 1 .. Len(submitted'[c]) - 1 |-> HandedOn(submitted'[c][i])]
  BY <1>2, <1>3, Begun
<1>11. /\ sstream' \in [Csids -> LastHeader]
       /\ \A d \in Csids : d # c => sstream'[d] = sstream[d]
       /\ sstream'[c].field = f /\ sstream'[c].ts = m.ts
       /\ sstream'[c].len = m.len /\ sstream'[c].type = m.type
  <2>1. [ts |-> m.ts, field |-> f, len |-> m.len, type |-> m.type] \in LastHeader
    BY <1>3, <1>8 DEF LastHeader, Message, Types
  <2>2. QED BY <1>1, <1>2, <2>1 DEF ChunkTypes
<1>12. QED BY <1>2, <1>3, <1>4, <1>9, <1>10, <1>11, AfterWrite

\* Either sends the next chunk of a message.
LEMMA ContinueStep ==
  ASSUME ChunksAgree, ~excused', NEW c \in Csids, Continues(c)
  PROVE  ChunksAgree'
<1> DEFINE h == IF sender = "lal" THEN CalcHeader(going[c].msg, FALSE)
                ELSE OtherHeader(3, going[c].msg, sstream[c])
<1>1. ChunkTypes /\ SizesAgree /\ GoingAgrees(c)
  BY DEF ChunksAgree
<1>2. /\ going[c] # Idle /\ Write(c, h, going[c].msg, going[c].left)
      /\ sender' = sender /\ sstream' = sstream /\ submitted' = submitted
  BY DEF Continues
<1>3. going[c] \in [msg : Message, left : Nat \ {0}]
  BY <1>1, <1>2 DEF ChunkTypes
<1>4. PICK m \in Message, left \in Nat \ {0} : going[c].msg = m /\ going[c].left = left
  BY <1>3
<1>5. /\ submitted[c] # <<>> /\ m = submitted[c][Len(submitted[c])]
      /\ rstream[c].got = m.len - left /\ left < m.len
      /\ rstream[c].len = m.len /\ rstream[c].type = m.type
      /\ StampOf(rstream[c]) = m.ts
      /\ rstream[c].field = IF sender = "lal" THEN m.ts ELSE sstream[c].field
      /\ sender = "lal" => m.ts # TsMax
      /\ sender = "other" =>
           sstream[c].ts = m.ts /\ sstream[c].len = m.len /\ sstream[c].type = m.type
      /\ m.len > rsize
  BY <1>1, <1>2, <1>4 DEF GoingAgrees
<1>6. PICK f : f = rstream[c].field
  OBVIOUS
<1>7. rstream[c] \in Stream /\ sstream[c] \in LastHeader /\ sender \in {"lal", "other"}
  BY <1>1 DEF ChunkTypes
<1>8. ReadRight(rstream[c], h, m, m.len - left, f)
  <2>1. CASE sender = "lal"
    BY <1>4, <1>5, <1>6, <1>7, <2>1, LalNext
  <2>2. CASE sender = "other"
    BY <1>4, <1>5, <1>6, <1>7, <2>2, OtherNext
  <2>3. QED BY <1>7, <2>1, <2>2
<1> HIDE DEF h
<1>9. m.len \in Nat \ {0}
  BY DEF Message
<1>10. ssize = rsize
  BY <1>1, <1>5 DEF SizesAgree
<1>11. ChunkRight(c, h, m, left, f)
  BY <1>5, <1>8, <1>9, <1>10 DEF ChunkRight
<1>12. Written(c) = Len(submitted[c]) - 1
  BY <1>2 DEF Written
<1>13. composed[c] = [i \in 1 .. Len(submitted'[c]) - 1 |-> HandedOn(submitted'[c][i])]
  BY <1>2, <1>12 DEF ChunksAgree
<1>14. sender = "lal" /\ m.type = "size" => m.val = LalSize
  BY <1>5, <1>9 DEF Message
<1>15. Write(c, h, m, left)
  BY <1>2, <1>4
<1>16. sstream' \in [Csids -> LastHeader] /\ submitted' \in [Csids -> Seq(Message)]
  BY <1>1, <1>2 DEF ChunkTypes
<1>17. /\ submitted'[c] # <<>> /\ m = submitted'[c][Len(submitted'[c])]
       /\ \A d \in Csids : d # c => submitted'[d] = submitted[d] /\ sstream'[d] = sstream[d]
       /\ sender = "lal" => f = m.ts /\ m.ts # TsMax
       /\ sender = "other" =>
            /\ f = sstream'[c].field /\ sstream'[c].ts = m.ts
            /\ sstream'[c].len = m.len /\ sstream'[c].type = m.type
  BY <1>2, <1>5, <1>6
<1>18. QED BY <1>2, <1>10, <1>11, <1>13, <1>14, <1>15, <1>16, <1>17, AfterWrite

\* No step of a connection breaks the agreement.
LEMMA ChunkStep == ASSUME ChunkInv, [ChunkNext]_chunkVars PROVE ChunkInv'
<1>1. CASE UNCHANGED chunkVars
  <2>1. CASE excused
    BY <1>1, <2>1 DEF ChunkInv, chunkVars
  <2>2. CASE ChunksAgree
    <3>1. ChunkTypes' /\ framed' /\ SizesAgree'
      BY <1>1, <2>2 DEF ChunksAgree, chunkVars, ChunkTypes, SizesAgree
    <3>2. ASSUME NEW c \in Csids
          PROVE  /\ IdleAgrees(c)' /\ GoingAgrees(c)'
                 /\ composed'[c] = [i \in 1 .. Written(c)' |-> HandedOn(submitted'[c][i])]
      BY <1>1, <2>2 DEF ChunksAgree, chunkVars, IdleAgrees, GoingAgrees, StampOf, Written
    <3>3. QED BY <3>1, <3>2 DEF ChunkInv, ChunksAgree
  <2>3. QED BY <2>1, <2>2 DEF ChunkInv
<1>2. CASE ChunkNext
  <2> SUFFICES ASSUME ~excused' PROVE ChunksAgree'
    BY DEF ChunkInv
  <2>1. PICK c \in Csids :
          \/ \E m \in NewMessages : LalSends(c, m) \/ \E fmt \in 0 .. 3 : OtherSends(c, m, fmt)
          \/ Continues(c)
    BY <1>2 DEF ChunkNext
  <2>2. ~excused
    BY <2>1 DEF LalSends, OtherSends, Continues, Write
  <2>3. ChunksAgree
    BY <2>2 DEF ChunkInv
  <2>4. QED BY <2>1, <2>3, LalStep, OtherStep, ContinueStep
<1>3. QED BY <1>1, <1>2

\* Before the first message neither side has anything to disagree about but the chunk size
\* lal cuts by, which it announces first.
LEMMA ChunkInitially == ChunkInit => ChunkInv
<1> SUFFICES ASSUME ChunkInit PROVE ChunksAgree
  BY DEF ChunkInv
<1>1. ChunkTypes
  <2>1. ssize \in Nat \ {0} /\ rsize \in Nat \ {0}
    BY ChunkAssumption DEF ChunkInit
  <2>2. QED BY <2>1 DEF ChunkInit, ChunkTypes, LastHeader, Stream, Types
<1>2. SizesAgree
  BY DEF ChunkInit, SizesAgree
<1>3. ASSUME NEW c \in Csids
      PROVE  /\ IdleAgrees(c) /\ GoingAgrees(c)
             /\ composed[c] = [i \in 1 .. Written(c) |-> HandedOn(submitted[c][i])]
  <2>1. going[c] = Idle /\ submitted[c] = <<>> /\ composed[c] = <<>>
    BY DEF ChunkInit
  <2>2. Written(c) = 0
    BY <2>1 DEF Written
  <2>3. composed[c] = [i \in 1 .. Written(c) |-> HandedOn(submitted[c][i])]
    BY <2>1, <2>2
  <2>4. IdleAgrees(c) /\ GoingAgrees(c)
    BY <2>1 DEF ChunkInit, IdleAgrees, GoingAgrees
  <2>5. QED BY <2>3, <2>4
<1>4. QED BY <1>1, <1>2, <1>3 DEF ChunkInit, ChunksAgree

\* Outside the three cases the code does not handle, every chunk stream of an RTMP
\* connection delivers exactly the messages sent on it, in order and with their absolute
\* timestamps, for every chunk size, header format, length and interleaving
\* (ChunkDivider, ChunkComposer.RunLoop).
THEOREM ChunksCompose == ChunkSpec => []ComposedIsSent
<1>1. ChunkInv => ComposedIsSent
  BY DEF ChunkInv, ChunksAgree, ComposedIsSent
<1>2. QED BY <1>1, ChunkInitially, ChunkStep, PTL DEF ChunkSpec

-----------------------------------------------------------------------------
(* Receiver reports                                                         *)

\* The type of RrProducer
Counters == [base : Int, maxSeq : Int, cycles : Int, received : Int, expectedPrior : Int,
             receivedPrior : Int]

\* How often the sequence number has wrapped at packet i
Wraps(i) == IF Start + i < M THEN 0 ELSE 1

\* Nothing is counted before the first packet; from then on RrProducer holds the sequence
\* numbers of the first and of the newest, and has counted the wraps between them.
CountInv ==
  /\ stream \in Streams /\ rr \in Counters
  /\ got \subseteq Packets
  /\ got = {} => first = 0 /\ rr.base = -1 /\ rr.maxSeq = -1 /\ rr.cycles = 0
  /\ got # {} =>
       /\ first \in got /\ Newest \in got /\ \A i \in got : i <= Newest
       /\ rr.base = SeqNo(first) /\ rr.maxSeq = SeqNo(Newest)
       /\ rr.cycles = Wraps(Newest) - Wraps(first)

\* A number below the divisor is its own remainder, and one less than twice it is that
\* minus the divisor.
LEMMA Remainders ==
  ASSUME NEW a \in Nat, NEW b \in Nat \ {0}
  PROVE  /\ a < b => a % b = a
         /\ b <= a /\ a < 2 * b => a % b = a - b
  OBVIOUS

\* The packets of a stream are few enough for CompareSeq.
LEMMA PacketsFew ==
  ASSUME stream \in Streams
  PROVE  /\ Packets \subseteq 1 .. M \div 2 - 1 /\ M \in Nat /\ M >= 4 /\ Start \in 0 .. M - 1
         /\ 2 * (M \div 2) <= M
<1>1. /\ stream.ends # <<>> /\ stream.ends \in Seq(1 .. M \div 2 - 1) /\ M \in Nat
      /\ Start \in 0 .. M - 1
  BY RtpAssumption
<1>2. PICK n : n = Last(stream.ends)
  OBVIOUS
<1>3. n \in 1 .. M \div 2 - 1
  BY <1>1, <1>2 DEF Last
<1>4. M \div 2 \in Nat /\ 2 * (M \div 2) <= M
  BY <1>1
<1>5. QED BY <1>1, <1>2, <1>3, <1>4 DEF Packets

\* The sequence number of a packet.
LEMMA SeqNoIs ==
  ASSUME stream \in Streams, NEW i \in Packets
  PROVE  /\ SeqNo(i) = Start + i - (IF Wraps(i) = 1 THEN M ELSE 0)
         /\ SeqNo(i) \in 0 .. M - 1 /\ i \in Nat
<1>1. i \in 1 .. M \div 2 - 1 /\ M \in Nat /\ M >= 4 /\ Start \in 0 .. M - 1 /\ 2 * (M \div 2) <= M
  BY PacketsFew
<1>2. PICK x \in Nat : x = Start + i /\ x < 2 * M
  BY <1>1
<1>3. SeqNo(i) = x % M
  BY <1>2 DEF SeqNo
<1>4. (x < M => x % M = x) /\ (M <= x => x % M = x - M)
  <2>1. PICK m \in Nat \ {0} : m = M
    BY <1>1
  <2>2. (x < m => x % m = x) /\ (m <= x /\ x < 2 * m => x % m = x - m)
    BY <2>1, Remainders
  <2>3. QED BY <1>2, <2>1, <2>2
<1>5. CASE x < M
  BY <1>1, <1>2, <1>3, <1>4, <1>5 DEF Wraps
<1>6. CASE M <= x
  BY <1>1, <1>2, <1>3, <1>4, <1>6 DEF Wraps
<1>7. QED BY <1>1, <1>2, <1>5, <1>6

\* Sequence numbers compare as the packets do, and a newer one is smaller only across a
\* wrap.
LEMMA ComparesRight ==
  ASSUME stream \in Streams, NEW i \in Packets, NEW j \in Packets
  PROVE  /\ CompareSeq(SeqNo(i), SeqNo(j)) > 0 <=> i > j
         /\ i > j => (SeqNo(i) < SeqNo(j) <=> Wraps(i) # Wraps(j))
         /\ i > j => Wraps(i) >= Wraps(j)
<1>1. /\ i \in 1 .. M \div 2 - 1 /\ j \in 1 .. M \div 2 - 1 /\ M \in Nat /\ M >= 4
      /\ Start \in 0 .. M - 1 /\ 2 * (M \div 2) <= M
  BY PacketsFew
<1>2. PICK a, b, h \in Nat : a = SeqNo(i) /\ b = SeqNo(j) /\ h = M \div 2
  BY <1>1, SeqNoIs
<1>3. /\ a = Start + i - (IF Wraps(i) = 1 THEN M ELSE 0)
      /\ b = Start + j - (IF Wraps(j) = 1 THEN M ELSE 0)
  BY <1>2, SeqNoIs
<1>4. /\ i \in 1 .. h - 1 /\ j \in 1 .. h - 1 /\ 2 * h <= M
  BY <1>1, <1>2
<1>5. CompareSeq(a, b) > 0 <=> i > j
  BY <1>1, <1>2, <1>3, <1>4 DEF CompareSeq, Wraps
<1>6. i > j => (a < b <=> Wraps(i) # Wraps(j))
  BY <1>1, <1>3, <1>4 DEF Wraps
<1>7. i > j => Wraps(i) >= Wraps(j)
  BY <1>1 DEF Wraps
<1>8. QED BY <1>2, <1>5, <1>6, <1>7

\* What the newest packet is after one more.
LEMMA NewestIs ==
  ASSUME stream \in Streams, NEW i \in Packets, got \subseteq Packets,
         got # {} => Newest \in got /\ \A k \in got : k <= Newest,
         got' = got \cup {i}
  PROVE  Newest' = IF got # {} /\ i <= Newest THEN Newest ELSE i
<1>1. Packets \subseteq Nat
  BY PacketsFew
<1>2. PICK x \in Nat : x = IF got # {} /\ i <= Newest THEN Newest ELSE i
  BY <1>1
<1>3. x \in got' /\ \A k \in got' : x >= k
  BY <1>1, <1>2
<1>4. \A y \in got' : (\A k \in got' : y >= k) => y = x
  BY <1>1, <1>3
<1>5. Max(got)' = x
  BY <1>3, <1>4 DEF Max
<1>6. QED BY <1>2, <1>5 DEF Newest

\* What a packet with sequence number st does to the counters
Counted(r, st, q) ==
  LET newer == r.maxSeq # -1 /\ CompareSeq(st, r.maxSeq) > 0
  IN /\ q \in Counters
     /\ q.base = IF r.base = -1 THEN st ELSE r.base
     /\ q.cycles = IF newer /\ st < r.maxSeq THEN r.cycles + 1 ELSE r.cycles
     /\ q.maxSeq = IF r.maxSeq = -1 \/ newer THEN st ELSE r.maxSeq

\* The counters after a packet.
LEMMA FedCounters ==
  ASSUME NEW r \in Counters, NEW st \in Int
  PROVE  Counted(r, st, FeedRtpPacket(r, st))
<1> DEFINE newer == r.maxSeq # -1 /\ CompareSeq(st, r.maxSeq) > 0
           received == r.received + 1
           base == IF r.base = -1 THEN st ELSE r.base
           cycles == IF newer /\ st < r.maxSeq THEN r.cycles + 1 ELSE r.cycles
           maxSeq == IF r.maxSeq = -1 \/ newer THEN st ELSE r.maxSeq
           q == [r EXCEPT !.received = received, !.base = base, !.cycles = cycles,
                          !.maxSeq = maxSeq]
<1>1. FeedRtpPacket(r, st) = q
  BY DEF FeedRtpPacket
<1>2. received \in Int /\ base \in Int /\ cycles \in Int /\ maxSeq \in Int
  BY DEF Counters
<1> HIDE DEF received, base, cycles, maxSeq
<1>3. q \in Counters /\ q.base = base /\ q.cycles = cycles /\ q.maxSeq = maxSeq
  BY <1>2 DEF Counters
<1> HIDE DEF q
<1>4. QED BY <1>1, <1>3 DEF base, cycles, maxSeq, Counted

\* Counting a packet.
LEMMA CountStep ==
  ASSUME CountInv, NEW i \in Packets, HandleRtpPacket(i)
  PROVE  CountInv'
<1>1. /\ rr' = FeedRtpPacket(rr, SeqNo(i)) /\ got' = got \cup {i}
      /\ first' = (IF first = 0 THEN i ELSE first) /\ stream' = stream
  BY DEF HandleRtpPacket
<1>2. stream \in Streams /\ rr \in Counters /\ got \subseteq Packets
  BY DEF CountInv
<1>3. Packets \subseteq Nat \ {0} /\ SeqNo(i) \in Nat
  BY <1>2, PacketsFew, SeqNoIs
<1>4. /\ Packets' = Packets
      /\ SeqNo(first)' = SeqNo(first') /\ SeqNo(Newest)' = SeqNo(Newest')
      /\ Wraps(first)' = Wraps(first') /\ Wraps(Newest)' = Wraps(Newest')
  BY <1>1 DEF Packets, SeqNo, Wraps
<1>5. Counted(rr, SeqNo(i), rr') /\ rr' \in Counters
  <2>1. PICK st \in Int : st = SeqNo(i)
    BY <1>3
  <2>2. Counted(rr, st, FeedRtpPacket(rr, st))
    BY <1>2, FedCounters
  <2>3. QED BY <1>1, <2>1, <2>2 DEF Counted
<1>6. Newest' = IF got # {} /\ i <= Newest THEN Newest ELSE i
  BY <1>1, <1>2, NewestIs DEF CountInv
<1>7. CASE got = {}
  <2>1. rr.base = -1 /\ rr.maxSeq = -1 /\ rr.cycles = 0 /\ first = 0
    BY <1>7 DEF CountInv
  <2>2. rr'.base = SeqNo(i) /\ rr'.maxSeq = SeqNo(i) /\ rr'.cycles = 0
    BY <1>5, <2>1 DEF Counted
  <2>3. first' = i /\ Newest' = i /\ got' = {i}
    BY <1>1, <1>6, <1>7, <2>1
  <2>4. QED BY <1>1, <1>2, <1>3, <1>4, <1>5, <2>2, <2>3 DEF CountInv, Wraps
<1>8. CASE got # {}
  <2>1. PICK f \in Packets, n \in Packets :
          /\ f = first /\ n = Newest /\ f \in got /\ n \in got /\ \A k \in got : k <= n
          /\ rr.base = SeqNo(f) /\ rr.maxSeq = SeqNo(n)
          /\ rr.cycles = Wraps(n) - Wraps(f)
    BY <1>2, <1>8 DEF CountInv
  <2>2. rr.base \in Nat /\ rr.maxSeq \in Nat
    BY <1>2, <2>1, SeqNoIs
  <2>3. /\ rr'.base = SeqNo(f)
        /\ rr'.maxSeq = IF CompareSeq(SeqNo(i), SeqNo(n)) > 0 THEN SeqNo(i) ELSE SeqNo(n)
        /\ rr'.cycles = IF CompareSeq(SeqNo(i), SeqNo(n)) > 0 /\ SeqNo(i) < SeqNo(n)
                        THEN rr.cycles + 1 ELSE rr.cycles
    BY <1>5, <2>1, <2>2 DEF Counted
  <2>4. /\ CompareSeq(SeqNo(i), SeqNo(n)) > 0 <=> i > n
        /\ i > n => (SeqNo(i) < SeqNo(n) <=> Wraps(i) # Wraps(n)) /\ Wraps(i) >= Wraps(n)
    BY <1>2, ComparesRight
  <2>5. first' = f
    BY <1>1, <1>3, <2>1
  <2>6. \A k : Wraps(k) \in 0 .. 1
    BY DEF Wraps
  <2>7. CASE i > n
    <3>1. Newest' = i /\ \A k \in got' : k <= i
      BY <1>1, <1>2, <1>3, <1>6, <2>1, <2>7
    <3>2. rr'.maxSeq = SeqNo(i) /\ rr'.cycles = Wraps(i) - Wraps(f)
      BY <2>1, <2>3, <2>4, <2>6, <2>7
    <3>3. QED BY <1>1, <1>2, <1>4, <1>5, <2>1, <2>3, <2>5, <3>1, <3>2 DEF CountInv
  <2>8. CASE i <= n
    <3>1. Newest' = n /\ \A k \in got' : k <= n
      BY <1>1, <1>2, <1>3, <1>6, <1>8, <2>1, <2>8
    <3>2. rr'.maxSeq = SeqNo(n) /\ rr'.cycles = Wraps(n) - Wraps(f)
      BY <1>3, <2>1, <2>3, <2>4, <2>8
    <3>3. QED BY <1>1, <1>2, <1>4, <1>5, <2>1, <2>3, <2>5, <3>1, <3>2 DEF CountInv
  <2>9. QED BY <1>3, <2>7, <2>8
<1>9. QED BY <1>7, <1>8

\* No step of the receiver breaks the count.
LEMMA CountsKept == ASSUME CountInv, [RtpNext]_rtpVars PROVE CountInv'
<1>1. CASE UNCHANGED rtpVars
  BY <1>1 DEF rtpVars, CountInv, Packets, Newest, SeqNo, Wraps
<1>2. CASE \E i \in Packets : HandleRtpPacket(i)
  BY <1>2, CountStep
<1>3. CASE HandleRtcpPacket
  <2>1. UNCHANGED <<stream, got, first>>
    BY <1>3 DEF HandleRtcpPacket
  <2>2. rr \in Counters
    BY DEF CountInv
  <2>3. PICK e, n : rr' = [rr EXCEPT !.expectedPrior = e, !.receivedPrior = n] /\ n = rr.received
                    /\ e = Expected(rr)
    BY <1>3 DEF HandleRtcpPacket
  <2>4. e \in Int /\ n \in Int
    <3>1. PICK x \in Int, w \in Nat : e = x % w /\ w > 0
      <4>1. /\ rr.cycles \in Int /\ rr.maxSeq \in Int /\ rr.base \in Int /\ M \in Nat
            /\ Word \in Nat /\ Word > M * M /\ M >= 8
        BY <2>2, RtpAssumption DEF Counters
      <4>2. M * M \in Nat
        BY <4>1
      <4>3. Word > 0
        BY <4>1, <4>2
      <4>4. rr.cycles * M + rr.maxSeq - rr.base + 1 \in Int
        BY <4>1
      <4>5. QED BY <2>3, <4>1, <4>3, <4>4 DEF Expected
    <3>2. e \in Int
      BY <3>1
    <3>3. n \in Int
      BY <2>2, <2>3 DEF Counters
    <3>4. QED BY <3>2, <3>3
  <2>5. /\ rr' \in Counters /\ rr'.base = rr.base /\ rr'.maxSeq = rr.maxSeq
        /\ rr'.cycles = rr.cycles
    BY <2>2, <2>3, <2>4 DEF Counters
  <2>6. QED BY <2>1, <2>5 DEF CountInv, Packets, Newest, SeqNo, Wraps
<1>4. QED BY <1>1, <1>2, <1>3 DEF RtpNext

\* So a report expects exactly the packets from the first received to the newest.
LEMMA CountEnough == CountInv => ExpectedIsSpan
<1> SUFFICES ASSUME CountInv, first # 0 PROVE Expected(rr) = Newest - first + 1
  BY DEF ExpectedIsSpan
<1>1. got # {} /\ stream \in Streams /\ got \subseteq Packets
  BY DEF CountInv
<1>2. PICK f \in Packets, n \in Packets :
        /\ f = first /\ n = Newest /\ f <= n
        /\ rr.base = SeqNo(f) /\ rr.maxSeq = SeqNo(n)
        /\ rr.cycles = Wraps(n) - Wraps(f)
  BY <1>1 DEF CountInv
<1>3. /\ f \in Nat /\ n \in Nat /\ n < M /\ f > 0 /\ M \in Nat /\ Start \in Nat /\ M >= 4
  BY <1>1, PacketsFew
<1>4. /\ rr.base = Start + f - (IF Wraps(f) = 1 THEN M ELSE 0)
      /\ rr.maxSeq = Start + n - (IF Wraps(n) = 1 THEN M ELSE 0)
  BY <1>1, <1>2, SeqNoIs
<1>5. Wraps(f) <= Wraps(n) /\ Wraps(f) \in 0 .. 1 /\ Wraps(n) \in 0 .. 1
  BY <1>2, <1>3 DEF Wraps
<1>6. rr.cycles * M + rr.maxSeq - rr.base + 1 = n - f + 1
  <2>1. CASE Wraps(f) = Wraps(n)
    BY <1>2, <1>3, <1>4, <1>5, <2>1
  <2>2. CASE Wraps(f) = 0 /\ Wraps(n) = 1
    BY <1>2, <1>3, <1>4, <2>2
  <2>3. QED BY <1>5, <2>1, <2>2
<1>7. Word \in Nat /\ M < Word
  <2>1. Word \in Nat /\ Word > M * M
    BY RtpAssumption
  <2>2. PICK m \in Nat : m = M /\ m >= 4
    BY <1>3
  <2>3. m * m >= m
    BY <2>2
  <2>4. QED BY <2>1, <2>2, <2>3
<1>8. (n - f + 1) % Word = n - f + 1
  <2>1. PICK x \in Nat, w \in Nat \ {0} : x = n - f + 1 /\ w = Word /\ x < w
    BY <1>2, <1>3, <1>7
  <2>2. x % w = x
    BY <2>1, Remainders
  <2>3. QED BY <2>1, <2>2
<1>9. QED BY <1>2, <1>6, <1>8 DEF Expected

-----------------------------------------------------------------------------
(* Frames                                                                   *)

\* What is assumed of a stream.
LEMMA StreamFacts ==
  ASSUME stream \in Streams
  PROVE  /\ stream.ends # <<>>
         /\ Frames = 1 .. Len(stream.ends) /\ Len(stream.ends) \in Nat \ {0}
         /\ \A f \in Frames : stream.ends[f] \in Nat \ {0}
         /\ \A f \in Frames : f > 1 => f - 1 \in Frames /\ stream.ends[f - 1] < stream.ends[f]
         /\ stream.codec \in {"avc", "aac"} /\ stream.maxSize \in Nat \ {0}
         /\ stream.window \in Nat
         /\ Packets = 1 .. stream.ends[Len(stream.ends)]
<1>1. /\ stream.ends # <<>> /\ stream.ends \in Seq(1 .. M \div 2 - 1) /\ M \in Nat
      /\ \A f \in 2 .. Len(stream.ends) : stream.ends[f - 1] < stream.ends[f]
      /\ stream.codec \in {"avc", "aac"} /\ stream.maxSize \in Nat \ {0}
      /\ stream.window \in Nat
  BY RtpAssumption
<1>2. Len(stream.ends) \in Nat \ {0} /\ Frames = 1 .. Len(stream.ends)
  BY <1>1 DEF Frames
<1>3. \A f \in Frames : stream.ends[f] \in 1 .. M \div 2 - 1
  BY <1>1, <1>2
<1>4. M \div 2 \in Int
  BY <1>1
<1>5. \A f \in Frames : stream.ends[f] \in Nat \ {0}
  BY <1>3, <1>4
<1>6. \A f \in Frames : f > 1 => f - 1 \in Frames /\ stream.ends[f - 1] < stream.ends[f]
  BY <1>1, <1>2
<1>7. Packets = 1 .. stream.ends[Len(stream.ends)]
  BY DEF Packets, Last
<1>8. QED BY <1>1, <1>2, <1>5, <1>6, <1>7

\* Later frames end later.
LEMMA EndsGrow ==
  ASSUME stream \in Streams, NEW f \in Frames, NEW g \in Frames, f < g
  PROVE  stream.ends[f] < stream.ends[g]
<1> DEFINE S == {n \in Nat : f + n + 1 \in Frames => stream.ends[f] < stream.ends[f + n + 1]}
<1>1. /\ Frames = 1 .. Len(stream.ends) /\ Len(stream.ends) \in Nat
      /\ \A h \in Frames : stream.ends[h] \in Nat
      /\ \A h \in Frames : h > 1 => h - 1 \in Frames /\ stream.ends[h - 1] < stream.ends[h]
  BY StreamFacts
<1>2. f \in Nat /\ g \in Nat /\ f >= 1
  BY <1>1
<1>3. 0 \in S
  <2>1. ASSUME f + 0 + 1 \in Frames PROVE stream.ends[f] < stream.ends[f + 0 + 1]
    <3>1. PICK h \in Frames : h = f + 0 + 1 /\ h > 1 /\ h - 1 = f
      BY <1>2, <2>1
    <3>2. QED BY <1>1, <3>1
  <2>2. QED BY <2>1
<1>4. ASSUME NEW n \in Nat, n \in S PROVE n + 1 \in S
  <2>1. ASSUME f + (n + 1) + 1 \in Frames PROVE stream.ends[f] < stream.ends[f + (n + 1) + 1]
    <3>1. PICK h \in Frames, k \in Frames :
            h = f + (n + 1) + 1 /\ h > 1 /\ k = f + n + 1 /\ h - 1 = k
      BY <1>1, <1>2, <2>1
    <3>2. stream.ends[f] < stream.ends[k]
      BY <1>4, <3>1
    <3>3. stream.ends[k] < stream.ends[h]
      BY <1>1, <3>1
    <3>4. stream.ends[f] \in Nat /\ stream.ends[k] \in Nat /\ stream.ends[h] \in Nat
      BY <1>1
    <3>5. stream.ends[f] < stream.ends[h]
      BY <3>2, <3>3, <3>4
    <3>6. QED BY <3>1, <3>5
  <2>2. QED BY <2>1
<1>5. \A n \in Nat : n \in S
  <2> HIDE DEF S
  <2>1. QED BY <1>3, <1>4, Induction
<1>6. PICK n \in Nat : g = f + n + 1
  <2>1. g - f - 1 \in Nat /\ g = f + (g - f - 1) + 1
    BY <1>2
  <2>2. QED BY <2>1
<1>7. QED BY <1>5, <1>6

\* Every packet is in one frame.
LEMMA FrameOfIs ==
  ASSUME stream \in Streams, NEW i \in Packets
  PROVE  /\ FrameOf(i) \in Frames /\ i \in FirstOf(FrameOf(i)) .. LastOf(FrameOf(i))
         /\ \A f \in Frames : i \in FirstOf(f) .. LastOf(f) => FrameOf(i) = f
<1> DEFINE T == {f \in Frames : i <= stream.ends[f]}
<1>1. /\ Frames = 1 .. Len(stream.ends) /\ Len(stream.ends) \in Nat \ {0}
      /\ \A h \in Frames : stream.ends[h] \in Nat
      /\ \A h \in Frames : h > 1 => h - 1 \in Frames /\ stream.ends[h - 1] < stream.ends[h]
      /\ Packets = 1 .. stream.ends[Len(stream.ends)]
  BY StreamFacts
<1>2. i \in Nat \ {0} /\ i <= stream.ends[Len(stream.ends)] /\ Len(stream.ends) \in Frames
  BY <1>1
<1>3. T \subseteq Nat /\ T # {}
  BY <1>1, <1>2
<1>4. PICK x \in T : \A y \in T : x <= y
  <2> HIDE DEF T
  <2>1. QED BY <1>3, LeastNumber
<1>5. i \in FirstOf(x) .. LastOf(x)
  <2>1. CASE x = 1
    BY <1>1, <1>2, <2>1 DEF FirstOf, LastOf
  <2>2. CASE x # 1
    <3>1. x > 1 /\ x - 1 \in Frames
      BY <1>1, <2>2
    <3>2. ~(i <= stream.ends[x - 1])
      BY <1>1, <1>4, <3>1
    <3>3. FirstOf(x) = stream.ends[x - 1] + 1 /\ LastOf(x) = stream.ends[x]
      BY <2>2 DEF FirstOf, LastOf
    <3>4. stream.ends[x - 1] \in Nat /\ stream.ends[x] \in Nat /\ i <= stream.ends[x]
      BY <1>1, <3>1
    <3>5. QED BY <1>2, <3>2, <3>3, <3>4
  <2>3. QED BY <2>1, <2>2
<1>6. ASSUME NEW f \in Frames, NEW g \in Frames, f < g,
             i \in FirstOf(f) .. LastOf(f), i \in FirstOf(g) .. LastOf(g)
      PROVE  FALSE
  <2>1. g > 1 /\ g - 1 \in Frames
    BY <1>1, <1>6
  <2>2. stream.ends[f] <= stream.ends[g - 1]
    <3>1. CASE f = g - 1
      BY <1>1, <2>1, <3>1
    <3>2. CASE f < g - 1
      <4>1. stream.ends[f] < stream.ends[g - 1]
        BY <2>1, <3>2, EndsGrow
      <4>2. stream.ends[f] \in Nat /\ stream.ends[g - 1] \in Nat
        BY <1>1, <2>1
      <4>3. QED BY <4>1, <4>2
    <3>3. QED BY <1>1, <1>6, <3>1, <3>2
  <2>3. i <= stream.ends[f] /\ i >= stream.ends[g - 1] + 1
    BY <1>1, <1>2, <1>6, <2>1 DEF FirstOf, LastOf
  <2>4. stream.ends[f] \in Nat /\ stream.ends[g - 1] \in Nat
    BY <1>1, <2>1
  <2>5. QED BY <1>2, <2>2, <2>3, <2>4
<1>7. \A f, g \in Frames : i \in FirstOf(f) .. LastOf(f) /\ i \in FirstOf(g) .. LastOf(g) => f = g
  BY <1>1, <1>6
<1>8. FrameOf(i) \in Frames /\ i \in FirstOf(FrameOf(i)) .. LastOf(FrameOf(i))
  BY <1>4, <1>5 DEF FrameOf
<1>9. QED BY <1>7, <1>8

\* Where a frame begins and ends.
LEMMA FrameFacts ==
  ASSUME stream \in Streams, NEW f \in Frames
  PROVE  /\ FirstOf(f) \in Packets /\ LastOf(f) \in Packets /\ FirstOf(f) <= LastOf(f)
         /\ SizeOf(f) \in Nat \ {0} /\ LastOf(f) = FirstOf(f) + SizeOf(f) - 1
         /\ f \in Nat \ {0}
<1>1. /\ Frames = 1 .. Len(stream.ends) /\ Len(stream.ends) \in Nat \ {0}
      /\ \A h \in Frames : stream.ends[h] \in Nat \ {0}
      /\ \A h \in Frames : h > 1 => h - 1 \in Frames /\ stream.ends[h - 1] < stream.ends[h]
      /\ Packets = 1 .. stream.ends[Len(stream.ends)]
  BY StreamFacts
<1>2. PICK n \in Frames : n = Len(stream.ends)
  BY <1>1
<1>3. stream.ends[f] <= stream.ends[n]
  <2>1. CASE f = n
    BY <1>1, <2>1
  <2>2. CASE f < n
    <3>1. stream.ends[f] < stream.ends[n]
      BY <2>2, EndsGrow
    <3>2. stream.ends[f] \in Nat /\ stream.ends[n] \in Nat
      BY <1>1
    <3>3. QED BY <3>1, <3>2
  <2>3. QED BY <1>1, <1>2, <2>1, <2>2
<1>4. PICK l \in Nat \ {0}, e \in Nat : l = LastOf(f) /\ e = stream.ends[n] /\ l <= e
  BY <1>1, <1>3 DEF LastOf
<1>5. PICK b \in Nat \ {0} : b = FirstOf(f) /\ b <= l
  <2>1. CASE f = 1
    BY <1>4, <2>1 DEF FirstOf
  <2>2. CASE f # 1
    <3>1. f > 1 /\ f - 1 \in Frames /\ stream.ends[f - 1] < stream.ends[f]
      BY <1>1, <2>2
    <3>2. stream.ends[f - 1] \in Nat
      BY <1>1, <3>1
    <3>3. QED BY <1>4, <2>2, <3>1, <3>2 DEF FirstOf, LastOf
  <2>3. QED BY <2>1, <2>2
<1>6. Packets = 1 .. e
  BY <1>1, <1>2, <1>4
<1>7. SizeOf(f) = l - b + 1
  BY <1>4, <1>5 DEF SizeOf
<1>8. f \in Nat \ {0}
  BY <1>1
<1>9. FirstOf(f) \in Packets /\ LastOf(f) \in Packets /\ FirstOf(f) <= LastOf(f)
  BY <1>4, <1>5, <1>6
<1>10. SizeOf(f) \in Nat \ {0} /\ LastOf(f) = FirstOf(f) + SizeOf(f) - 1
  BY <1>4, <1>5, <1>7
<1>11. QED BY <1>8, <1>9, <1>10

\* The packet after a frame begins the next one.
LEMMA NextFrame ==
  ASSUME stream \in Streams, NEW f \in Frames, LastOf(f) + 1 \in Packets
  PROVE  f + 1 \in Frames /\ FirstOf(f + 1) = LastOf(f) + 1
<1>1. /\ Frames = 1 .. Len(stream.ends) /\ Len(stream.ends) \in Nat \ {0}
      /\ \A h \in Frames : stream.ends[h] \in Nat
      /\ Packets = 1 .. stream.ends[Len(stream.ends)]
  BY StreamFacts
<1>2. f # Len(stream.ends)
  <2> SUFFICES ASSUME f = Len(stream.ends) PROVE FALSE
    OBVIOUS
  <2>1. PICK l \in Nat : l = stream.ends[f]
    BY <1>1
  <2>2. l + 1 \in 1 .. l
    BY <1>1, <2>1 DEF LastOf
  <2>3. QED BY <2>2
<1>3. f + 1 \in Frames /\ f + 1 # 1
  BY <1>1, <1>2
<1>4. (f + 1) - 1 = f
  BY <1>1
<1>5. FirstOf(f + 1) = stream.ends[f] + 1
  BY <1>3, <1>4 DEF FirstOf
<1>6. QED BY <1>3, <1>5 DEF LastOf

\* The run of packets of a frame
FrameRun(f) == [k \in 1 .. SizeOf(f) |-> FirstOf(f) + k - 1]

\* A whole frame
Whole(r) == \E f \in Frames : r = FrameRun(f)

\* A frame's run starts and ends where the frame does, and determines it.
LEMMA RunFacts ==
  ASSUME stream \in Streams, NEW f \in Frames
  PROVE  /\ FrameRun(f) \in Seq(Packets) /\ Len(FrameRun(f)) = SizeOf(f)
         /\ FrameRun(f) # <<>> /\ Head(FrameRun(f)) = FirstOf(f)
         /\ Last(FrameRun(f)) = LastOf(f) /\ FrameOf(Head(FrameRun(f))) = f
<1>1. /\ FirstOf(f) \in Packets /\ LastOf(f) \in Packets /\ FirstOf(f) <= LastOf(f)
      /\ SizeOf(f) \in Nat \ {0} /\ LastOf(f) = FirstOf(f) + SizeOf(f) - 1
  BY FrameFacts
<1>2. PICK z \in Nat, n \in Nat \ {0}, b \in Nat :
         /\ Packets = 1 .. z /\ n = SizeOf(f) /\ b = FirstOf(f) /\ b >= 1 /\ b + n - 1 <= z
  <2>1. PICK z \in Nat : Packets = 1 .. z
    <3>1. stream.ends[Len(stream.ends)] \in Nat
      BY StreamFacts
    <3>2. QED BY <3>1, StreamFacts
  <2>2. FirstOf(f) \in Nat /\ FirstOf(f) >= 1 /\ FirstOf(f) + SizeOf(f) - 1 <= z
    BY <1>1, <2>1
  <2>3. QED BY <1>1, <2>1, <2>2
<1>3. PICK r : r = FrameRun(f)
  OBVIOUS
<1>4. r = [k \in 1 .. n |-> b + k - 1]
  BY <1>2, <1>3 DEF FrameRun
<1>5. \A k \in 1 .. n : b + k - 1 \in Packets
  BY <1>2
<1>6. r \in Seq(Packets) /\ Len(r) = n
  <2>1. r \in [1 .. n -> Packets]
    BY <1>4, <1>5
  <2>2. QED BY <1>2, <2>1
<1>7. r[1] = b /\ r[n] = b + n - 1
  BY <1>2, <1>4
<1>8. r # <<>> /\ Head(r) = r[1]
  BY <1>6
<1>9. Head(r) = FirstOf(f) /\ Last(r) = LastOf(f)
  BY <1>1, <1>2, <1>6, <1>7, <1>8 DEF Last
<1>10. FrameOf(FirstOf(f)) = f
  <2>1. FirstOf(f) \in FirstOf(f) .. LastOf(f)
    BY <1>1, <1>2
  <2>2. QED BY <1>1, <2>1, FrameOfIs
<1>11. QED BY <1>2, <1>3, <1>6, <1>8, <1>9, <1>10

-----------------------------------------------------------------------------
(* The list                                                                 *)

\* The type of a container
Container == [list : Seq(Packets), size : Int, done : Int, out : Seq(Seq(Packets))]

\* A list in the order sent, without duplicates
Sorted(st) == \A j, k \in 1 .. Len(st) : j < k => st[j] < st[k]

\* The packets of a list
Held(st) == {st[k] : k \in 1 .. Len(st)}

\* The last packet that left the container, 0 before any
LeftOff(c) == IF c.out = <<>> THEN 0 ELSE Last(Last(c.out))

\* What is always true of a container: its list is sorted and behind what has left, whole
\* frames in the order sent
Good(c) ==
  /\ c \in Container
  /\ Sorted(c.list) /\ \A k \in 1 .. Len(c.list) : LeftOff(c) < c.list[k]
  /\ c.done = IF c.out = <<>> THEN NoSeq ELSE SeqNo(LeftOff(c))
  /\ \A a \in 1 .. Len(c.out) : Whole(c.out[a])
  /\ \A a, b \in 1 .. Len(c.out) : a < b => Last(c.out[a]) < Head(c.out[b])

\* Where the container left off is the end of a frame.
LEMMA LeftOffIs ==
  ASSUME stream \in Streams, NEW c, Good(c)
  PROVE  /\ LeftOff(c) \in Nat
         /\ c.out # <<>> => \E f \in Frames : LeftOff(c) = LastOf(f) /\ LeftOff(c) \in Packets
<1>1. CASE c.out = <<>>
  BY <1>1 DEF LeftOff
<1>2. CASE c.out # <<>>
  <2>1. c.out \in Seq(Seq(Packets))
    BY DEF Good, Container
  <2>2. Len(c.out) \in 1 .. Len(c.out)
    BY <1>2, <2>1
  <2>3. PICK f \in Frames : c.out[Len(c.out)] = FrameRun(f)
    BY <2>2 DEF Good, Whole
  <2>4. LeftOff(c) = Last(FrameRun(f))
    BY <1>2, <2>3 DEF LeftOff, Last
  <2>5. LeftOff(c) = LastOf(f) /\ LastOf(f) \in Packets
    BY <2>4, RunFacts, FrameFacts
  <2>6. Packets \subseteq Nat
    BY StreamFacts
  <2>7. QED BY <2>5, <2>6
<1>3. QED BY <1>1, <1>2

\* A packet put in its place in a sorted list.
LEMMA PutIn ==
  ASSUME stream \in Streams, NEW st \in Seq(Packets), Sorted(st), NEW i \in Packets,
         NEW m \in 1 .. Len(st), i < st[m], \A k \in 1 .. m - 1 : st[k] < i
  PROVE  /\ InsertAt(st, m, i) \in Seq(Packets) /\ Len(InsertAt(st, m, i)) = Len(st) + 1
         /\ Sorted(InsertAt(st, m, i)) /\ Held(InsertAt(st, m, i)) = Held(st) \cup {i}
<1>1. PICK n \in Nat : n = Len(st) /\ m \in 1 .. n /\ \A k \in 1 .. n : st[k] \in Packets
  BY ElementOfSeq
<1>2. PICK a : a = SubSeq(st, 1, m - 1)
  OBVIOUS
<1>3. PICK b : b = SubSeq(st, m, n)
  OBVIOUS
<1>4. /\ a \in Seq(Packets) /\ Len(a) = m - 1 /\ \A k \in 1 .. m - 1 : a[k] = st[k]
  <2>1. \A k \in 1 .. m - 1 : st[k] \in Packets
    BY <1>1
  <2>2. /\ SubSeq(st, 1, m - 1) \in Seq(Packets)
        /\ Len(SubSeq(st, 1, m - 1)) = IF 1 <= m - 1 THEN m - 1 - 1 + 1 ELSE 0
        /\ \A k \in 1 .. m - 1 - 1 + 1 : SubSeq(st, 1, m - 1)[k] = st[1 + k - 1]
    BY <1>1, <2>1, SubSeqProperties
  <2>3. QED BY <1>1, <1>2, <2>2
<1>5. /\ b \in Seq(Packets) /\ Len(b) = n - m + 1 /\ \A k \in 1 .. n - m + 1 : b[k] = st[m + k - 1]
  <2>1. \A k \in m .. n : st[k] \in Packets
    BY <1>1
  <2>2. /\ SubSeq(st, m, n) \in Seq(Packets)
        /\ Len(SubSeq(st, m, n)) = IF m <= n THEN n - m + 1 ELSE 0
        /\ \A k \in 1 .. n - m + 1 : SubSeq(st, m, n)[k] = st[m + k - 1]
    BY <1>1, <2>1, SubSeqProperties
  <2>3. QED BY <1>1, <1>3, <2>2
<1>6. PICK e : e = <<i>>
  OBVIOUS
<1>7. e \in Seq(Packets) /\ Len(e) = 1 /\ e[1] = i
  BY <1>6
<1>8. PICK u : u = a \o e
  OBVIOUS
<1>9. /\ u \in Seq(Packets) /\ Len(u) = m
      /\ \A k \in 1 .. m : u[k] = IF k <= m - 1 THEN st[k] ELSE i
  <2>1. /\ u \in Seq(Packets) /\ Len(u) = (m - 1) + 1
        /\ \A k \in 1 .. (m - 1) + 1 : u[k] = IF k <= m - 1 THEN a[k] ELSE e[k - (m - 1)]
    <3>1. /\ a \o e \in Seq(Packets) /\ Len(a \o e) = Len(a) + Len(e)
          /\ \A k \in 1 .. Len(a) + Len(e) :
               (a \o e)[k] = IF k <= Len(a) THEN a[k] ELSE e[k - Len(a)]
      BY <1>4, <1>7, ConcatProperties
    <3>2. QED BY <1>4, <1>7, <1>8, <3>1
  <2>2. \A k \in 1 .. m : k > m - 1 => k - (m - 1) = 1
    BY <1>1
  <2>3. ASSUME NEW k \in 1 .. m PROVE u[k] = IF k <= m - 1 THEN st[k] ELSE i
    <3>1. k \in 1 .. (m - 1) + 1
      BY <1>1
    <3>2. CASE k <= m - 1
      <4>1. k \in 1 .. m - 1
        BY <1>1, <3>2
      <4>2. QED BY <1>4, <2>1, <3>1, <3>2, <4>1
    <3>3. CASE ~(k <= m - 1)
      <4>1. k - (m - 1) = 1
        BY <1>1, <2>2, <3>3
      <4>2. QED BY <1>7, <2>1, <3>1, <3>3, <4>1
    <3>4. QED BY <3>2, <3>3
  <2>4. QED BY <1>1, <2>1, <2>3
<1>10. PICK t : t = u \o b
  OBVIOUS
<1>11. /\ t \in Seq(Packets) /\ Len(t) = n + 1
       /\ \A k \in 1 .. n + 1 : t[k] = IF k < m THEN st[k] ELSE IF k = m THEN i ELSE st[k - 1]
  <2>1. /\ t \in Seq(Packets) /\ Len(t) = m + (n - m + 1)
        /\ \A k \in 1 .. m + (n - m + 1) : t[k] = IF k <= m THEN u[k] ELSE b[k - m]
    <3>1. /\ u \o b \in Seq(Packets) /\ Len(u \o b) = Len(u) + Len(b)
          /\ \A k \in 1 .. Len(u) + Len(b) :
               (u \o b)[k] = IF k <= Len(u) THEN u[k] ELSE b[k - Len(u)]
      BY <1>5, <1>9, ConcatProperties
    <3>2. QED BY <1>5, <1>9, <1>10, <3>1
  <2>2. \A k \in 1 .. n + 1 : k > m => k - m \in 1 .. n - m + 1 /\ m + (k - m) - 1 = k - 1
    BY <1>1
  <2>3. QED BY <1>1, <1>5, <1>9, <2>1, <2>2
<1>12. InsertAt(st, m, i) = t
  BY <1>1, <1>2, <1>3, <1>6, <1>8, <1>10 DEF InsertAt
<1>13. Sorted(t)
  <2>1. Packets \subseteq Nat
    BY StreamFacts
  <2> SUFFICES ASSUME NEW j \in 1 .. n + 1, NEW k \in 1 .. n + 1, j < k PROVE t[j] < t[k]
    BY <1>11 DEF Sorted
  <2>2. \A x, y \in 1 .. n : x < y => st[x] < st[y]
    BY <1>1 DEF Sorted
  <2>3. ASSUME NEW x \in 1 .. n, m <= x PROVE i < st[x]
    <3>1. st[m] \in Nat /\ st[x] \in Nat /\ i \in Nat
      BY <1>1, <2>1
    <3>2. m = x \/ st[m] < st[x]
      BY <1>1, <2>2, <2>3
    <3>3. QED BY <3>1, <3>2
  <2>4. CASE k < m
    BY <1>1, <1>11, <2>2, <2>4
  <2>5. CASE k = m
    BY <1>1, <1>11, <2>5
  <2>6. CASE k > m
    <3>1. k - 1 \in 1 .. n /\ t[k] = st[k - 1]
      BY <1>1, <1>11, <2>6
    <3>2. CASE j < m
      <4>1. j \in 1 .. n /\ j < k - 1 /\ t[j] = st[j]
        BY <1>1, <1>11, <2>6, <3>2
      <4>2. QED BY <2>2, <3>1, <4>1
    <3>3. CASE j = m
      <4>1. m <= k - 1 /\ t[j] = i
        BY <1>1, <1>11, <2>6, <3>3
      <4>2. QED BY <2>3, <3>1, <4>1
    <3>4. CASE j > m
      <4>1. j - 1 \in 1 .. n /\ t[j] = st[j - 1] /\ j - 1 < k - 1
        BY <1>1, <1>11, <2>6, <3>4
      <4>2. QED BY <2>2, <3>1, <4>1
    <3>5. QED BY <1>1, <3>2, <3>3, <3>4
  <2>7. QED BY <1>1, <2>4, <2>5, <2>6
<1>14. Held(t) = Held(st) \cup {i}
  <2>1. ASSUME NEW x \in Held(t) PROVE x \in Held(st) \cup {i}
    <3>1. PICK k \in 1 .. n + 1 : x = t[k]
      BY <1>11, <2>1 DEF Held
    <3>2. k < m => k \in 1 .. n
      BY <1>1
    <3>3. k > m => k - 1 \in 1 .. n
      BY <1>1
    <3>4. QED BY <1>1, <1>11, <3>1, <3>2, <3>3 DEF Held
  <2>2. ASSUME NEW k \in 1 .. n PROVE st[k] \in Held(t)
    <3>1. k < m => k \in 1 .. n + 1 /\ t[k] = st[k]
      BY <1>1, <1>11
    <3>2. ~(k < m) => k + 1 \in 1 .. n + 1 /\ t[k + 1] = st[k]
      BY <1>1, <1>11
    <3>3. QED BY <1>11, <3>1, <3>2 DEF Held
  <2>3. i \in Held(t)
    <3>1. m \in 1 .. n + 1 /\ t[m] = i
      BY <1>1, <1>11
    <3>2. QED BY <1>11, <3>1 DEF Held
  <2>4. QED BY <1>1, <2>1, <2>2, <2>3 DEF Held
<1>15. QED BY <1>1, <1>11, <1>12, <1>13, <1>14

\* A packet put behind a sorted list.
LEMMA PutBehind ==
  ASSUME stream \in Streams, NEW st \in Seq(Packets), Sorted(st), NEW i \in Packets,
         \A k \in 1 .. Len(st) : st[k] < i
  PROVE  /\ Append(st, i) \in Seq(Packets) /\ Len(Append(st, i)) = Len(st) + 1
         /\ Sorted(Append(st, i)) /\ Held(Append(st, i)) = Held(st) \cup {i}
<1>1. PICK n \in Nat : n = Len(st)
  OBVIOUS
<1>2. PICK t : t = Append(st, i)
  OBVIOUS
<1>3. /\ t \in Seq(Packets) /\ Len(t) = n + 1 /\ \A k \in 1 .. n : t[k] = st[k]
      /\ t[n + 1] = i
  BY <1>1, <1>2, AppendProperties
<1>4. Sorted(t)
  <2> SUFFICES ASSUME NEW j \in 1 .. n + 1, NEW k \in 1 .. n + 1, j < k PROVE t[j] < t[k]
    BY <1>3 DEF Sorted
  <2>1. j \in 1 .. n
    BY <1>1
  <2>2. CASE k = n + 1
    BY <1>1, <1>3, <2>1, <2>2
  <2>3. CASE k # n + 1
    <3>1. k \in 1 .. n
      BY <1>1, <2>3
    <3>2. QED BY <1>1, <1>3, <2>1, <3>1 DEF Sorted
  <2>4. QED BY <2>2, <2>3
<1>5. Held(t) = Held(st) \cup {i}
  <2>1. n + 1 \in 1 .. n + 1 /\ \A k \in 1 .. n : k \in 1 .. n + 1
    BY <1>1
  <2>2. \A k \in 1 .. n + 1 : k \in 1 .. n \/ k = n + 1
    BY <1>1
  <2>3. QED BY <1>1, <1>3, <2>1, <2>2 DEF Held
<1>6. QED BY <1>1, <1>2, <1>3, <1>4, <1>5

\* A container with another list is as good, if the list is sorted and behind what has left.
LEMMA ListReplaced ==
  ASSUME NEW c, Good(c), NEW d \in Container, d.out = c.out, d.done = c.done,
         Sorted(d.list), \A x \in Held(d.list) : LeftOff(c) < x
  PROVE  Good(d)
<1>1. LeftOff(d) = LeftOff(c)
  BY DEF LeftOff
<1>2. \A k \in 1 .. Len(d.list) : LeftOff(d) < d.list[k]
  BY <1>1 DEF Held
<1>3. QED BY <1>1, <1>2 DEF Good

\* A packet is stale when it was sent before the last that left.
LEMMA StaleIs ==
  ASSUME stream \in Streams, NEW c, Good(c), NEW i \in Packets
  PROVE  IsStale(c, i) <=> i <= LeftOff(c)
<1>1. i \in Nat \ {0}
  BY StreamFacts
<1>2. CASE c.out = <<>>
  BY <1>1, <1>2 DEF Good, IsStale, LeftOff
<1>3. CASE c.out # <<>>
  <2>1. PICK j \in Packets : j = LeftOff(c) /\ j \in Nat
    BY <1>3, LeftOffIs
  <2>2. c.done = SeqNo(j) /\ SeqNo(j) \in Nat /\ SeqNo(i) \in Nat
    BY <1>3, <2>1, SeqNoIs DEF Good
  <2>3. CompareSeq(SeqNo(i), SeqNo(j)) > 0 <=> i > j
    BY ComparesRight
  <2>4. CompareSeq(SeqNo(i), SeqNo(j)) \in Int
    BY <2>2, RtpAssumption DEF CompareSeq
  <2>5. c.done # NoSeq
    BY <2>2 DEF NoSeq
  <2>6. QED BY <1>1, <2>1, <2>2, <2>3, <2>4, <2>5 DEF IsStale
<1>4. QED BY <1>2, <1>3

\* Different packets have different sequence numbers.
LEMMA SeqNosDiffer ==
  ASSUME stream \in Streams, NEW i \in Packets, NEW j \in Packets, SeqNo(i) = SeqNo(j)
  PROVE  i = j
<1>1. /\ ~(CompareSeq(SeqNo(i), SeqNo(j)) > 0) /\ ~(CompareSeq(SeqNo(j), SeqNo(i)) > 0)
  BY SeqNoIs DEF CompareSeq
<1>2. ~(i > j) /\ ~(j > i)
  BY <1>1, ComparesRight
<1>3. QED BY <1>2, SeqNoIs

\* RtpPacketList.Insert puts a packet that is not stale in its place, once.
LEMMA InsertRight ==
  ASSUME stream \in Streams, NEW c, Good(c), NEW i \in Packets, LeftOff(c) < i
  PROVE  /\ Good(Insert(c, i)) /\ Insert(c, i).out = c.out /\ Insert(c, i).done = c.done
         /\ Held(Insert(c, i).list) = Held(c.list) \cup {i}
         /\ Insert(c, i).size - Len(Insert(c, i).list) = c.size - Len(c.list)
<1> DEFINE at == {k \in 1 .. Len(c.list) : CompareSeq(SeqNo(i), SeqNo(c.list[k])) # 1}
<1>1. c \in Container /\ Sorted(c.list) /\ \A x \in Held(c.list) : LeftOff(c) < x
  BY DEF Good, Held
<1>2. PICK st \in Seq(Packets), n \in Nat, z \in Int : st = c.list /\ n = Len(st) /\ z = c.size
  BY <1>1 DEF Container
<1>3. \A k \in 1 .. n : st[k] \in Packets
  BY <1>2
<1>4. Packets \subseteq Nat
  BY StreamFacts
<1>5. ASSUME NEW k \in 1 .. n PROVE k \in at <=> i <= st[k]
  <2>1. PICK j \in Packets : j = st[k]
    BY <1>3
  <2>2. CompareSeq(SeqNo(i), SeqNo(j)) > 0 <=> i > j
    BY ComparesRight
  <2>3. CompareSeq(SeqNo(i), SeqNo(j)) \in {-1, 0, 1}
    <3>1. PICK a \in Nat, b \in Nat, h \in Int : a = SeqNo(i) /\ b = SeqNo(j) /\ h = M \div 2
      BY SeqNoIs, RtpAssumption
    <3>2. CompareSeq(a, b) \in {-1, 0, 1}
      BY <3>1 DEF CompareSeq
    <3>3. QED BY <3>1, <3>2
  <2>4. CompareSeq(SeqNo(i), SeqNo(j)) # 1 <=> ~(i > j)
    BY <2>2, <2>3
  <2>5. QED BY <1>2, <1>4, <2>1, <2>4
<1>6. at \subseteq 1 .. n
  BY <1>2
<1>7. Insert(c, i) =
        IF at = {} THEN [c EXCEPT !.list = Append(@, i), !.size = @ + 1]
        ELSE IF SeqNo(c.list[Min(at)]) = SeqNo(i) THEN c
        ELSE [c EXCEPT !.list = InsertAt(@, Min(at), i), !.size = @ + 1]
  BY DEF Insert
<1> HIDE DEF at
<1>8. ASSUME NEW t \in Seq(Packets), Len(t) = n + 1, Sorted(t), Held(t) = Held(st) \cup {i},
             Insert(c, i) = [c EXCEPT !.list = t, !.size = z + 1]
      PROVE  /\ Good(Insert(c, i)) /\ Insert(c, i).out = c.out /\ Insert(c, i).done = c.done
             /\ Held(Insert(c, i).list) = Held(c.list) \cup {i}
             /\ Insert(c, i).size - Len(Insert(c, i).list) = c.size - Len(c.list)
  <2>1. PICK d : d = Insert(c, i)
    OBVIOUS
  <2>2. /\ d \in Container /\ d.out = c.out /\ d.done = c.done /\ d.list = t
        /\ d.size = z + 1
    <3>1. PICK w \in Int : w = z + 1
      BY <1>2
    <3>2. d = [c EXCEPT !.list = t, !.size = w]
      BY <1>8, <2>1, <3>1
    <3>3. d.out = c.out /\ d.done = c.done /\ d.list = t /\ d.size = w
      BY <1>1, <3>2 DEF Container
    <3>4. d \in Container
      BY <1>1, <3>1, <3>2 DEF Container
    <3>5. QED BY <3>1, <3>3, <3>4
  <2>3. \A x \in Held(d.list) : LeftOff(c) < x
    BY <1>1, <1>2, <1>8, <2>2
  <2>4. Good(d)
    BY <1>8, <2>2, <2>3, ListReplaced
  <2>5. d.size - Len(d.list) = c.size - Len(c.list)
    BY <1>2, <1>8, <2>2
  <2>6. QED BY <1>2, <1>8, <2>1, <2>2, <2>4, <2>5
<1>9. CASE at = {}
  <2>1. ASSUME NEW k \in 1 .. n PROVE st[k] < i
    <3>1. st[k] \in Nat /\ i \in Nat /\ ~(i <= st[k])
      BY <1>3, <1>4, <1>5, <1>9
    <3>2. QED BY <3>1
  <2>2. PICK t : t = Append(st, i)
    OBVIOUS
  <2>3. t \in Seq(Packets) /\ Len(t) = n + 1 /\ Sorted(t) /\ Held(t) = Held(st) \cup {i}
    BY <1>1, <1>2, <2>1, <2>2, PutBehind
  <2>4. Insert(c, i) = [c EXCEPT !.list = t, !.size = z + 1]
    BY <1>1, <1>2, <1>7, <1>9, <2>2
  <2>5. QED BY <1>8, <2>3, <2>4
<1>10. CASE at # {}
  <2>1. PICK m \in at : \A k \in at : m <= k
    <3>1. at \subseteq Nat
      BY <1>6
    <3>2. QED BY <1>10, <3>1, LeastNumber
  <2>2. Min(at) = m
    <3>1. \A k \in at : k \in Int
      BY <1>6
    <3>2. \A y \in at : (\A k \in at : y <= k) => y = m
      BY <2>1, <3>1
    <3>3. QED BY <2>1, <3>2 DEF Min
  <2>3. m \in 1 .. n /\ i <= st[m] /\ st[m] \in Packets
    BY <1>3, <1>5, <1>6
  <2>4. CASE SeqNo(st[m]) = SeqNo(i)
    <3>1. st[m] = i
      BY <2>3, <2>4, SeqNosDiffer
    <3>2. i \in Held(st)
      BY <1>2, <2>3, <3>1 DEF Held
    <3>3. Insert(c, i) = c
      BY <1>2, <1>7, <1>10, <2>2, <2>4
    <3>4. QED BY <1>2, <3>2, <3>3
  <2>5. CASE SeqNo(st[m]) # SeqNo(i)
    <3>1. st[m] # i
      BY <2>5
    <3>2. i < st[m]
      <4>1. st[m] \in Nat /\ i \in Nat
        BY <1>4, <2>3
      <4>2. QED BY <2>3, <3>1, <4>1
    <3>3. ASSUME NEW k \in 1 .. m - 1 PROVE st[k] < i
      <4>1. k \in 1 .. n /\ ~(m <= k)
        BY <1>2, <2>3
      <4>2. ~(i <= st[k]) /\ st[k] \in Nat /\ i \in Nat
        BY <1>3, <1>4, <1>5, <2>1, <4>1
      <4>3. QED BY <4>2
    <3>4. PICK t : t = InsertAt(st, m, i)
      OBVIOUS
    <3>5. t \in Seq(Packets) /\ Len(t) = n + 1 /\ Sorted(t) /\ Held(t) = Held(st) \cup {i}
      BY <1>1, <1>2, <2>3, <3>2, <3>3, <3>4, PutIn
    <3>6. Insert(c, i) = [c EXCEPT !.list = t, !.size = z + 1]
      BY <1>1, <1>2, <1>7, <1>10, <2>2, <2>5, <3>4
    <3>7. QED BY <1>8, <3>5, <3>6
  <2>6. QED BY <2>4, <2>5
<1>11. QED BY <1>9, <1>10

-----------------------------------------------------------------------------
(* The frame at the head                                                    *)

\* The code's SubSeq is 1 exactly for neighbours.
LEMMA NeighboursDiffer ==
  ASSUME stream \in Streams, NEW x \in Packets, NEW y \in Packets
  PROVE  SeqDiff(SeqNo(x), SeqNo(y)) = 1 <=> x = y + 1
<1>1. /\ x \in 1 .. M \div 2 - 1 /\ y \in 1 .. M \div 2 - 1 /\ M \in Nat /\ M >= 8
      /\ Start \in 0 .. M - 1 /\ 2 * (M \div 2) <= M
  BY PacketsFew, RtpAssumption
<1>2. PICK a \in Nat, b \in Nat, h \in Nat, q \in Nat :
         a = SeqNo(x) /\ b = SeqNo(y) /\ h = M \div 2 /\ q = M \div 4
  BY <1>1, SeqNoIs
<1>3. /\ a = Start + x - (IF Wraps(x) = 1 THEN M ELSE 0)
      /\ b = Start + y - (IF Wraps(y) = 1 THEN M ELSE 0)
  BY <1>2, SeqNoIs
<1>4. /\ x \in 1 .. h - 1 /\ y \in 1 .. h - 1 /\ 2 * h <= M /\ q >= 2 /\ 4 * q <= M
  BY <1>1, <1>2
<1>5. SeqDiff(a, b) = 1 <=> x = y + 1
  BY <1>1, <1>2, <1>3, <1>4 DEF SeqDiff, Wraps
<1>6. QED BY <1>2, <1>5

\* Packets with consecutive sequence numbers are consecutive.
LEMMA ContiguousRun ==
  ASSUME stream \in Streams, NEW c, c.list \in Seq(Packets), NEW n \in 1 .. Len(c.list)
  PROVE  Contiguous(c, n) <=> \A k \in 1 .. n : c.list[k] = c.list[1] + k - 1
<1>1. PICK st \in Seq(Packets), l \in Nat : st = c.list /\ l = Len(st) /\ n \in 1 .. l
  OBVIOUS
<1>2. \A k \in 1 .. l : st[k] \in Packets /\ st[k] \in Nat
  <2>1. Packets \subseteq Nat
    BY StreamFacts
  <2>2. \A k \in 1 .. l : st[k] \in Packets
    BY <1>1
  <2>3. QED BY <2>1, <2>2
<1>3. ASSUME NEW k \in 2 .. n
      PROVE  SeqDiff(SeqNo(st[k]), SeqNo(st[k - 1])) = 1 <=> st[k] = st[k - 1] + 1
  <2>1. st[k] \in Packets /\ st[k - 1] \in Packets
    BY <1>1, <1>2
  <2>2. QED BY <2>1, NeighboursDiffer
<1>4. Contiguous(c, n) <=> \A k \in 2 .. n : st[k] = st[k - 1] + 1
  BY <1>1, <1>3 DEF Contiguous
<1>5. ASSUME \A k \in 1 .. n : st[k] = st[1] + k - 1, NEW k \in 2 .. n
      PROVE  st[k] = st[k - 1] + 1
  <2>1. k \in 1 .. n /\ k - 1 \in 1 .. n /\ 1 \in 1 .. l
    BY <1>1
  <2>2. st[k] = st[1] + k - 1 /\ st[k - 1] = st[1] + (k - 1) - 1 /\ st[1] \in Nat
    BY <1>2, <1>5, <2>1
  <2>3. QED BY <2>2
<1>6. ASSUME \A k \in 2 .. n : st[k] = st[k - 1] + 1
      PROVE  \A k \in 1 .. n : st[k] = st[1] + k - 1
  <2> DEFINE S == {j \in Nat : j + 1 \in 1 .. n => st[j + 1] = st[1] + j}
  <2>1. 0 \in S
    <3>1. st[1] \in Nat
      BY <1>1, <1>2
    <3>2. QED BY <3>1
  <2>2. ASSUME NEW j \in Nat, j \in S PROVE j + 1 \in S
    <3>1. ASSUME (j + 1) + 1 \in 1 .. n PROVE st[(j + 1) + 1] = st[1] + (j + 1)
      <4>1. PICK k \in 2 .. n : k = (j + 1) + 1 /\ k - 1 = j + 1 /\ k - 1 \in 1 .. n
        BY <1>1, <3>1
      <4>2. st[k] = st[k - 1] + 1
        BY <1>6
      <4>3. st[k - 1] = st[1] + j
        BY <2>2, <4>1
      <4>4. st[1] \in Nat
        BY <1>1, <1>2
      <4>5. QED BY <4>1, <4>2, <4>3, <4>4
    <3>2. QED BY <3>1
  <2>3. \A j \in Nat : j \in S
    <3> HIDE DEF S
    <3>1. QED BY <2>1, <2>2, Induction
  <2>4. ASSUME NEW k \in 1 .. n PROVE st[k] = st[1] + k - 1
    <3>1. PICK j \in Nat : j = k - 1 /\ j + 1 = k
      BY <1>1
    <3>2. st[j + 1] = st[1] + j
      BY <2>3, <3>1
    <3>3. st[1] \in Nat
      BY <1>1, <1>2
    <3>4. QED BY <3>1, <3>2, <3>3
  <2>5. QED BY <2>4
<1>7. QED BY <1>1, <1>4, <1>5, <1>6

\* What a packet's position says of its frame.
LEMMA PositionIs ==
  ASSUME stream \in Streams, NEW f \in Frames, NEW i \in FirstOf(f) .. LastOf(f)
  PROVE  /\ i \in Packets /\ FrameOf(i) = f
         /\ Position(i) = "single" => SizeOf(f) = 1
         /\ Position(i) = "start" => SizeOf(f) # 1 /\ i = FirstOf(f)
         /\ Position(i) = "end" => i = LastOf(f)
         /\ Position(i) = "middle" => i # LastOf(f)
         /\ f \notin stream.unknown =>
              /\ SizeOf(f) = 1 => Position(i) = "single"
              /\ SizeOf(f) # 1 /\ i = FirstOf(f) => Position(i) = "start"
              /\ SizeOf(f) # 1 /\ i = LastOf(f) => Position(i) = "end"
              /\ i # FirstOf(f) /\ i # LastOf(f) => Position(i) = "middle"
<1>1. /\ FirstOf(f) \in Packets /\ LastOf(f) \in Packets /\ FirstOf(f) <= LastOf(f)
      /\ SizeOf(f) = LastOf(f) - FirstOf(f) + 1
  BY FrameFacts DEF SizeOf
<1>2. PICK z \in Nat : Packets = 1 .. z
  BY StreamFacts
<1>3. PICK b \in Nat, l \in Nat : b = FirstOf(f) /\ l = LastOf(f) /\ i \in b .. l
                                  /\ SizeOf(f) = l - b + 1 /\ b >= 1 /\ l <= z
  BY <1>1, <1>2
<1>4. i \in Packets
  BY <1>2, <1>3
<1>5. FrameOf(i) = f
  BY <1>4, FrameOfIs
<1>6. Position(i) =
        IF f \in stream.unknown THEN "unknown"
        ELSE IF SizeOf(f) = 1 THEN "single"
        ELSE IF i = b THEN "start"
        ELSE IF i = l THEN "end"
        ELSE "middle"
  BY <1>3, <1>5 DEF Position
<1>7. PICK p : p = Position(i)
  OBVIOUS
<1>8. SizeOf(f) # 1 => b # l
  BY <1>3
<1>9. SizeOf(f) = 1 => b = l /\ i = b
  BY <1>3
<1>10. QED BY <1>3, <1>4, <1>5, <1>6, <1>7, <1>8, <1>9

\* The frame TryUnpackOne delivers is whole.
LEMMA HeadIsWhole ==
  ASSUME stream \in Streams, NEW c, c.list \in Seq(Packets), FrameAtHead(c) # 0
  PROVE  /\ FrameAtHead(c) \in 1 .. Len(c.list)
         /\ \E f \in Frames : /\ FrameAtHead(c) = SizeOf(f)
                              /\ \A k \in 1 .. SizeOf(f) : c.list[k] = FirstOf(f) + k - 1
<1> DEFINE lens == {m \in 1 .. Len(c.list) :
                      /\ Contiguous(c, m)
                      /\ stream.codec = "avc" => AvcFrame(c, m)
                      /\ stream.codec = "aac" => AacFrame(c, m)}
<1>1. FrameAtHead(c) = IF lens = {} THEN 0 ELSE Min(lens)
  BY DEF FrameAtHead
<1>2. lens # {} /\ FrameAtHead(c) = Min(lens)
  BY <1>1
<1>3. PICK n \in lens : FrameAtHead(c) = n
  <2>1. lens \subseteq Nat
    OBVIOUS
  <2> HIDE DEF lens
  <2>2. PICK m \in lens : \A k \in lens : m <= k
    BY <1>2, <2>1, LeastNumber
  <2>3. Min(lens) \in lens
    BY <2>2 DEF Min
  <2>4. QED BY <1>2, <2>3
<1>4. PICK st \in Seq(Packets), l \in Nat : st = c.list /\ l = Len(st) /\ n \in 1 .. l
  OBVIOUS
<1>5. /\ Contiguous(c, n)
      /\ stream.codec = "avc" => AvcFrame(c, n)
      /\ stream.codec = "aac" => AacFrame(c, n)
  OBVIOUS
<1> HIDE DEF lens
<1>6. \A k \in 1 .. n : st[k] = st[1] + k - 1
  BY <1>4, <1>5, ContiguousRun
<1>7. PICK f \in Frames : f = FrameOf(st[1]) /\ st[1] \in FirstOf(f) .. LastOf(f)
  <2>1. st[1] \in Packets
    BY <1>4
  <2>2. QED BY <2>1, FrameOfIs
<1>8. PICK b \in Nat, z \in Nat, e \in Nat :
        /\ b = FirstOf(f) /\ z = SizeOf(f) /\ e = LastOf(f) /\ e = b + z - 1 /\ z > 0
        /\ Packets \subseteq Nat
  <2>1. Packets \subseteq Nat
    BY StreamFacts
  <2>2. /\ FirstOf(f) \in Packets /\ LastOf(f) \in Packets /\ SizeOf(f) \in Nat \ {0}
        /\ LastOf(f) = FirstOf(f) + SizeOf(f) - 1
    BY FrameFacts
  <2>3. FirstOf(f) \in Nat /\ LastOf(f) \in Nat
    BY <2>1, <2>2
  <2>4. SizeOf(f) \in Nat /\ SizeOf(f) > 0
    BY <2>2
  <2>5. QED BY <2>1, <2>2, <2>3, <2>4
<1>9. st[1] \in Nat /\ st[n] = st[1] + n - 1 /\ st[n] \in Packets
  <2>1. 1 \in 1 .. l /\ n \in 1 .. n
    BY <1>4
  <2>2. st[1] \in Packets /\ st[n] \in Packets
    BY <1>4, <2>1
  <2>3. QED BY <1>6, <1>8, <2>1, <2>2
<1>10. n = z /\ st[1] = b
  <2>1. CASE stream.codec = "avc" /\ n = 1
    <3>1. Position(st[1]) = "single"
      BY <1>4, <1>5, <2>1 DEF AvcFrame
    <3>2. z = 1
      BY <1>7, <1>8, <3>1, PositionIs
    <3>3. QED BY <1>7, <1>8, <1>9, <2>1, <3>2
  <2>2. CASE stream.codec = "avc" /\ n # 1
    <3>1. /\ Position(st[1]) = "start" /\ Position(st[n]) = "end"
          /\ \A k \in 2 .. n - 1 : Position(st[k]) = "middle"
      BY <1>4, <1>5, <2>2 DEF AvcFrame
    <3>2. z # 1 /\ st[1] = b
      BY <1>7, <1>8, <3>1, PositionIs
    <3>3. st[n] <= e
      <4> SUFFICES ASSUME e < st[n] PROVE FALSE
        <5>1. st[n] \in Nat /\ e \in Nat
          BY <1>8, <1>9
        <5>2. QED BY <5>1
      <4>1. z \in 2 .. n - 1 /\ z \in 1 .. n
        <5>1. n \in Nat /\ e < b + n - 1
          BY <1>4, <1>9, <3>2
        <5>2. z < n /\ z # 1 /\ z > 0
          BY <1>8, <3>2, <5>1
        <5>3. QED BY <5>1, <5>2
      <4>2. st[z] = e
        BY <1>6, <1>8, <1>9, <3>2, <4>1
      <4>3. e \in FirstOf(f) .. LastOf(f)
        BY <1>8
      <4>4. Position(e) = "middle"
        BY <3>1, <4>1, <4>2
      <4>5. QED BY <1>8, <4>3, <4>4, PositionIs
    <3>4. st[n] \in FirstOf(f) .. LastOf(f)
      <4>1. PICK x \in Nat : x = st[n] /\ x >= b /\ x <= e
        <5>1. n \in Nat /\ n >= 1 /\ st[n] = b + n - 1
          BY <1>4, <1>9, <3>2
        <5>2. QED BY <3>3, <5>1
      <4>2. QED BY <1>8, <4>1
    <3>5. st[n] = e
      BY <1>8, <3>1, <3>4, PositionIs
    <3>6. QED BY <1>4, <1>8, <1>9, <3>2, <3>5
  <2>3. CASE stream.codec = "aac"
    <3>1. FrameOf(st[n]) = f /\ n = z
      <4>1. AacFrame(c, n) /\ n \in 1 .. n
        BY <1>4, <1>5, <2>3
      <4>2. FrameOf(c.list[n]) = FrameOf(c.list[1]) /\ n = SizeOf(FrameOf(c.list[1]))
        BY <4>1 DEF AacFrame
      <4>3. QED BY <1>4, <1>7, <1>8, <4>2
    <3>2. st[n] \in FirstOf(f) .. LastOf(f)
      BY <1>9, <3>1, FrameOfIs
    <3>3. st[1] >= b /\ st[n] <= e /\ n \in Nat
      BY <1>4, <1>7, <1>8, <1>9, <3>2
    <3>4. st[1] + z - 1 <= b + z - 1 /\ st[1] \in Nat
      BY <1>8, <1>9, <3>1, <3>3
    <3>5. st[1] = b
      BY <3>3, <3>4
    <3>6. QED BY <3>1, <3>5
  <2>4. stream.codec \in {"avc", "aac"}
    BY StreamFacts
  <2>5. QED BY <2>1, <2>2, <2>3, <2>4
<1>11. \A k \in 1 .. SizeOf(f) : c.list[k] = FirstOf(f) + k - 1
  BY <1>4, <1>6, <1>8, <1>10
<1>12. QED BY <1>3, <1>4, <1>8, <1>10, <1>11

\* A frame at the head that TryUnpackOne would deliver.
LEMMA WholeIsTaken ==
  ASSUME stream \in Streams, NEW c, c.list \in Seq(Packets),
         NEW f \in Frames, f \notin stream.unknown, SizeOf(f) <= Len(c.list),
         \A k \in 1 .. SizeOf(f) : c.list[k] = FirstOf(f) + k - 1
  PROVE  FrameAtHead(c) # 0
<1>1. PICK st \in Seq(Packets), l \in Nat, z \in Nat, b \in Nat :
        /\ st = c.list /\ l = Len(st) /\ z = SizeOf(f) /\ b = FirstOf(f) /\ z > 0
        /\ z \in 1 .. l /\ LastOf(f) = b + z - 1
  <2>1. /\ FirstOf(f) \in Packets /\ LastOf(f) \in Packets /\ SizeOf(f) \in Nat \ {0}
        /\ LastOf(f) = FirstOf(f) + SizeOf(f) - 1
    BY FrameFacts
  <2>2. Packets \subseteq Nat
    BY StreamFacts
  <2>3. FirstOf(f) \in Nat
    BY <2>1, <2>2
  <2>4. Len(c.list) \in Nat /\ SizeOf(f) \in Nat /\ SizeOf(f) > 0
    BY <2>1
  <2>5. SizeOf(f) \in 1 .. Len(c.list)
    BY <2>4
  <2>6. QED BY <2>1, <2>3, <2>4, <2>5
<1>2. /\ \A k \in 1 .. z : st[k] = b + k - 1
      /\ 1 \in 1 .. z /\ z \in 1 .. z
  BY <1>1
<1>3. st[1] = b /\ st[z] = b + z - 1
  BY <1>1, <1>2
<1>4. Contiguous(c, z)
  <2>1. \A k \in 1 .. z : c.list[k] = c.list[1] + k - 1
    BY <1>1, <1>2, <1>3
  <2>2. QED BY <1>1, <2>1, ContiguousRun
<1>5. ASSUME NEW k \in 1 .. z PROVE st[k] \in FirstOf(f) .. LastOf(f)
  <2>1. st[k] = b + k - 1 /\ b + k - 1 \in b .. b + z - 1
    BY <1>2
  <2>2. QED BY <1>1, <2>1
<1>6. AvcFrame(c, z)
  <2>1. CASE z = 1
    <3>1. Position(st[1]) = "single"
      BY <1>1, <1>2, <1>5, <2>1, PositionIs
    <3>2. QED BY <1>1, <2>1, <3>1 DEF AvcFrame
  <2>2. CASE z # 1
    <3>1. Position(st[1]) = "start" /\ Position(st[z]) = "end"
      <4>1. st[1] \in FirstOf(f) .. LastOf(f) /\ st[z] \in FirstOf(f) .. LastOf(f)
        BY <1>2, <1>5
      <4>2. st[1] = FirstOf(f) /\ st[z] = LastOf(f) /\ SizeOf(f) # 1 /\ f \notin stream.unknown
        BY <1>1, <1>3, <2>2
      <4>3. QED BY <4>1, <4>2, PositionIs
    <3>2. ASSUME NEW k \in 2 .. z - 1 PROVE Position(st[k]) = "middle"
      <4>1. k \in 1 .. z
        BY <1>1
      <4>2. st[k] # FirstOf(f) /\ st[k] # LastOf(f)
        BY <1>1, <1>2, <4>1
      <4>3. st[k] \in FirstOf(f) .. LastOf(f) /\ f \notin stream.unknown
        BY <1>5, <4>1
      <4>4. QED BY <4>2, <4>3, PositionIs
    <3>3. z > 1
      BY <1>1, <2>2
    <3>4. QED BY <1>1, <3>1, <3>2, <3>3 DEF AvcFrame
  <2>3. QED BY <2>1, <2>2
<1>7. AacFrame(c, z)
  <2>1. \A k \in 1 .. z : FrameOf(st[k]) = f
    BY <1>5, PositionIs
  <2>2. FrameOf(st[1]) = f
    BY <1>2, <2>1
  <2>3. QED BY <1>1, <2>1, <2>2 DEF AacFrame
<1> DEFINE lens == {m \in 1 .. Len(c.list) :
                      /\ Contiguous(c, m)
                      /\ stream.codec = "avc" => AvcFrame(c, m)
                      /\ stream.codec = "aac" => AacFrame(c, m)}
<1>8. z \in lens
  BY <1>1, <1>4, <1>6, <1>7
<1>9. FrameAtHead(c) = Min(lens)
  BY <1>8 DEF FrameAtHead
<1>10. lens \subseteq 1 .. l
  BY <1>1
<1> HIDE DEF lens
<1>11. Min(lens) \in lens
  <2>1. lens \subseteq Nat
    BY <1>10
  <2>2. PICK m \in lens : \A k \in lens : m <= k
    BY <1>8, <2>1, LeastNumber
  <2>3. QED BY <2>2 DEF Min
<1>12. QED BY <1>9, <1>10, <1>11

-----------------------------------------------------------------------------
(* Unpacking                                                                *)

\* No frame that RtpUnpackerAac would count short
Unfragmented == stream.codec = "aac" => \A f \in Frames : SizeOf(f) = 1

\* Frames have left a container, and nothing else
Advanced(c, d) ==
  /\ Good(d) /\ Len(c.out) <= Len(d.out) /\ LeftOff(c) <= LeftOff(d)
  /\ Held(d.list) = {x \in Held(c.list) : LeftOff(d) < x}
  /\ Unfragmented => d.size - Len(d.list) = c.size - Len(c.list)

\* Nothing need leave.
LEMMA StayedPut ==
  ASSUME stream \in Streams, NEW c, Good(c)
  PROVE  Advanced(c, c)
<1>1. c \in Container /\ \A x \in Held(c.list) : LeftOff(c) < x
  BY DEF Good, Held
<1>2. Len(c.out) \in Nat /\ LeftOff(c) \in Nat
  BY <1>1, LeftOffIs DEF Container
<1>3. Held(c.list) = {x \in Held(c.list) : LeftOff(c) < x}
  BY <1>1
<1>4. Len(c.out) <= Len(c.out) /\ LeftOff(c) <= LeftOff(c)
  BY <1>2
<1>5. QED BY <1>3, <1>4 DEF Advanced

\* Frames may leave in several goes.
LEMMA AdvancedTwice ==
  ASSUME stream \in Streams, NEW c, NEW d, NEW e, Good(c), Advanced(c, d), Advanced(d, e)
  PROVE  Advanced(c, e)
<1>1. Good(c) /\ Good(d) /\ Good(e)
  BY DEF Advanced
<1>2. PICK p \in Nat, q \in Nat, r \in Nat : p = LeftOff(c) /\ q = LeftOff(d) /\ r = LeftOff(e)
  BY <1>1, LeftOffIs
<1>3. PICK l \in Nat, m \in Nat, n \in Nat : l = Len(c.out) /\ m = Len(d.out) /\ n = Len(e.out)
  BY <1>1 DEF Good, Container
<1>4. l <= n /\ p <= r
  BY <1>2, <1>3 DEF Advanced
<1>5. Held(c.list) \subseteq Nat
  <2>1. Held(c.list) \subseteq Packets
    BY DEF Good, Container, Held
  <2>2. QED BY <2>1, StreamFacts
<1>6. Held(e.list) = {x \in Held(c.list) : LeftOff(e) < x}
  <2>1. /\ Held(e.list) = {x \in Held(d.list) : r < x} /\ q <= r
        /\ Held(d.list) = {x \in Held(c.list) : q < x}
    BY <1>2 DEF Advanced
  <2>2. \A x \in Held(c.list) : r < x => q < x
    BY <1>2, <1>5, <2>1
  <2>3. QED BY <1>2, <2>1, <2>2
<1>7. Unfragmented => e.size - Len(e.list) = c.size - Len(c.list)
  BY DEF Advanced
<1>8. QED BY <1>1, <1>2, <1>3, <1>4, <1>6, <1>7 DEF Advanced

\* What TryUnpackOne does when it finds a frame.
LEMMA TryRight ==
  ASSUME stream \in Streams, NEW c, Good(c), FrameAtHead(c) # 0
  PROVE  /\ Advanced(c, TryUnpackOne(c))
         /\ Len(TryUnpackOne(c).out) = Len(c.out) + 1
         /\ Len(TryUnpackOne(c).list) < Len(c.list)
         /\ \A a \in 1 .. Len(c.out) : TryUnpackOne(c).out[a] = c.out[a]
         /\ Head(TryUnpackOne(c).out[Len(c.out) + 1]) = c.list[1]
<1>1. c \in Container /\ Sorted(c.list) /\ \A k \in 1 .. Len(c.list) : LeftOff(c) < c.list[k]
  BY DEF Good
<1>2. PICK st \in Seq(Packets), l \in Nat, n \in Nat, o \in Seq(Seq(Packets)), m \in Nat,
           z \in Int :
        /\ st = c.list /\ l = Len(st) /\ n = FrameAtHead(c) /\ n \in 1 .. l /\ o = c.out
        /\ m = Len(o) /\ z = c.size
  <2>1. FrameAtHead(c) \in 1 .. Len(c.list)
    BY <1>1, HeadIsWhole DEF Container
  <2>2. Len(c.list) \in Nat /\ Len(c.out) \in Nat /\ FrameAtHead(c) \in Nat
    BY <1>1, <2>1 DEF Container
  <2>3. QED BY <1>1, <2>1, <2>2 DEF Container
<1>3. PICK f \in Frames : n = SizeOf(f) /\ \A k \in 1 .. n : st[k] = FirstOf(f) + k - 1
  BY <1>1, <1>2, HeadIsWhole DEF Container
<1>4. Packets \subseteq Nat
  BY StreamFacts
<1>5. \A k \in 1 .. l : st[k] \in Packets
  BY <1>2
<1>6. PICK t : t = SubSeq(st, n + 1, l)
  OBVIOUS
<1>7. t \in Seq(Packets) /\ Len(t) = l - n /\ \A k \in 1 .. l - n : t[k] = st[n + k]
  <2>1. \A k \in n + 1 .. l : st[k] \in Packets
    BY <1>2, <1>5
  <2>2. /\ SubSeq(st, n + 1, l) \in Seq(Packets)
        /\ Len(SubSeq(st, n + 1, l)) = IF n + 1 <= l THEN l - (n + 1) + 1 ELSE 0
        /\ \A k \in 1 .. l - (n + 1) + 1 : SubSeq(st, n + 1, l)[k] = st[(n + 1) + k - 1]
    <3>1. n + 1 \in Int /\ l \in Int
      OBVIOUS
    <3>2. QED BY <2>1, <3>1, SubSeqProperties
  <2>3. l - (n + 1) + 1 = l - n /\ (IF n + 1 <= l THEN l - (n + 1) + 1 ELSE 0) = l - n
    BY <1>2
  <2>4. t \in Seq(Packets) /\ Len(t) = l - n /\ \A k \in 1 .. l - n : t[k] = st[(n + 1) + k - 1]
    BY <1>6, <2>2, <2>3
  <2>5. \A k \in 1 .. l - n : (n + 1) + k - 1 = n + k
    BY <1>2
  <2>6. QED BY <2>4, <2>5
<1>8. SubSeq(st, 1, n) = FrameRun(f)
  <2>1. PICK r : r = SubSeq(st, 1, n)
    OBVIOUS
  <2>2. \A k \in 1 .. n : st[k] \in Packets
    BY <1>2, <1>5
  <2>3. /\ SubSeq(st, 1, n) \in Seq(Packets)
        /\ Len(SubSeq(st, 1, n)) = IF 1 <= n THEN n - 1 + 1 ELSE 0
        /\ \A k \in 1 .. n - 1 + 1 : SubSeq(st, 1, n)[k] = st[1 + k - 1]
    BY <1>2, <2>2, SubSeqProperties
  <2>4. r \in Seq(Packets) /\ Len(r) = n /\ \A k \in 1 .. n : r[k] = st[k]
    BY <1>2, <2>1, <2>3
  <2>5. FrameRun(f) \in Seq(Packets) /\ Len(FrameRun(f)) = n
    BY <1>3, RunFacts
  <2>6. \A k \in 1 .. n : FrameRun(f)[k] = st[k]
    BY <1>3 DEF FrameRun
  <2>7. r = FrameRun(f)
    BY <2>4, <2>5, <2>6, SeqEqual
  <2>8. QED BY <2>1, <2>7
<1>9. PICK g : g = FrameRun(f)
  OBVIOUS
<1>10. /\ g \in Seq(Packets) /\ Head(g) = FirstOf(f) /\ Last(g) = LastOf(f) /\ Whole(g)
       /\ FirstOf(f) = st[1] /\ LastOf(f) = st[n]
  <2>1. 1 \in 1 .. n /\ n \in 1 .. n
    BY <1>2
  <2>2. /\ FirstOf(f) \in Packets /\ LastOf(f) = FirstOf(f) + n - 1
    BY <1>3, FrameFacts
  <2>3. FirstOf(f) \in Nat
    BY <1>4, <2>2
  <2>4. st[1] = FirstOf(f) /\ st[n] = LastOf(f)
    BY <1>3, <2>1, <2>2, <2>3
  <2>5. QED BY <1>9, <2>4, RunFacts DEF Whole
<1>11. PICK p : p = Append(o, g)
  OBVIOUS
<1>12. /\ p \in Seq(Seq(Packets)) /\ Len(p) = m + 1 /\ p # <<>>
       /\ \A a \in 1 .. m : p[a] = o[a]
       /\ p[m + 1] = g
  <2>1. /\ Append(o, g) \in Seq(Seq(Packets)) /\ Append(o, g) # <<>>
        /\ Len(Append(o, g)) = Len(o) + 1
        /\ \A a \in 1 .. Len(o) : Append(o, g)[a] = o[a]
        /\ Append(o, g)[Len(o) + 1] = g
    <3>1. PICK T : T = Seq(Packets)
      OBVIOUS
    <3>2. g \in T /\ o \in Seq(T)
      BY <1>10, <3>1
    <3>3. /\ Append(o, g) \in Seq(T) /\ Append(o, g) # <<>>
          /\ Len(Append(o, g)) = Len(o) + 1
          /\ \A a \in 1 .. Len(o) : Append(o, g)[a] = o[a]
          /\ Append(o, g)[Len(o) + 1] = g
      BY <3>2, AppendProperties
    <3>4. QED BY <3>1, <3>3
  <2>2. QED BY <1>2, <1>11, <2>1
<1>13. PICK d : d = TryUnpackOne(c)
  OBVIOUS
<1>14. PICK w : w = z - Released(n)
  OBVIOUS
<1>15. d = [list |-> t, size |-> w, done |-> SeqNo(st[n]), out |-> p]
  BY <1>2, <1>6, <1>8, <1>9, <1>11, <1>13, <1>14 DEF TryUnpackOne
<1>16. w \in Int /\ (Unfragmented => w = z - n)
  <2>1. Released(n) \in Int
    BY <1>2 DEF Released
  <2>2. Unfragmented => Released(n) = n
    BY <1>2, <1>3 DEF Released, Unfragmented
  <2>3. QED BY <1>2, <1>14, <2>1, <2>2
<1>17. SeqNo(st[n]) \in Int /\ st[n] \in Packets /\ st[n] \in Nat
  <2>1. st[n] \in Packets
    BY <1>2, <1>5
  <2>2. QED BY <2>1, SeqNoIs
<1>18. /\ d \in Container /\ d.list = t /\ d.size = w /\ d.done = SeqNo(st[n]) /\ d.out = p
  BY <1>7, <1>12, <1>15, <1>16, <1>17 DEF Container
<1>19. LeftOff(d) = st[n]
  BY <1>10, <1>12, <1>18 DEF LeftOff, Last
<1>20. LeftOff(c) < st[1] /\ st[1] <= st[n] /\ LeftOff(c) \in Nat /\ st[1] \in Nat
  <2>1. 1 \in 1 .. l /\ LeftOff(c) \in Nat
    BY <1>2, LeftOffIs
  <2>2. LeftOff(c) < st[1] /\ st[1] \in Packets
    BY <1>1, <1>2, <1>5, <2>1
  <2>3. st[1] <= st[n]
    BY <1>10, FrameFacts
  <2>4. QED BY <1>4, <2>1, <2>2, <2>3
<1>21. Sorted(t)
  <2> SUFFICES ASSUME NEW j \in 1 .. l - n, NEW k \in 1 .. l - n, j < k PROVE t[j] < t[k]
    BY <1>7 DEF Sorted
  <2>1. n + j \in 1 .. l /\ n + k \in 1 .. l /\ n + j < n + k
    <3>1. j \in Nat /\ k \in Nat /\ j >= 1 /\ k >= 1 /\ j <= l - n /\ k <= l - n
      OBVIOUS
    <3>2. QED BY <3>1
  <2>2. st[n + j] < st[n + k]
    BY <1>1, <1>2, <2>1 DEF Sorted
  <2>3. QED BY <1>7, <2>2
<1>22. Held(t) = {x \in Held(st) : st[n] < x}
  <2>1. ASSUME NEW k \in 1 .. l - n PROVE t[k] \in Held(st) /\ st[n] < t[k]
    <3>1. n + k \in 1 .. l /\ n < n + k
      BY <1>2
    <3>2. st[n] < st[n + k] /\ st[n + k] \in Held(st)
      BY <1>1, <1>2, <3>1 DEF Sorted, Held
    <3>3. QED BY <1>7, <3>2
  <2>2. ASSUME NEW k \in 1 .. l, st[n] < st[k] PROVE st[k] \in Held(t)
    <3>1. n < k
      <4> SUFFICES ASSUME k <= n PROVE FALSE
        BY <1>2
      <4>1. k = n \/ st[k] < st[n]
        BY <1>1, <1>2 DEF Sorted
      <4>2. st[k] \in Nat /\ st[n] \in Nat
        BY <1>4, <1>5, <1>17
      <4>3. QED BY <2>2, <4>1, <4>2
    <3>2. k - n \in 1 .. l - n /\ n + (k - n) = k
      BY <1>2, <3>1
    <3>3. t[k - n] = st[k]
      BY <1>7, <3>2
    <3>4. QED BY <1>7, <3>2, <3>3 DEF Held
  <2>3. /\ \A x : x \in Held(t) <=> \E k \in 1 .. l - n : x = t[k]
        /\ \A x : x \in Held(st) <=> \E k \in 1 .. l : x = st[k]
    BY <1>2, <1>7 DEF Held
  <2>4. \A x : x \in Held(t) <=> x \in Held(st) /\ st[n] < x
    BY <2>1, <2>2, <2>3
  <2>5. QED BY <2>4
<1>23. Good(d)
  <2>1. \A k \in 1 .. Len(d.list) : LeftOff(d) < d.list[k]
    BY <1>18, <1>19, <1>22 DEF Held
  <2>2. d.done = IF d.out = <<>> THEN NoSeq ELSE SeqNo(LeftOff(d))
    BY <1>12, <1>18, <1>19
  <2>3. ASSUME NEW a \in 1 .. m + 1 PROVE Whole(p[a])
    <3>1. CASE a = m + 1
      BY <1>10, <1>12, <3>1
    <3>2. CASE a # m + 1
      <4>1. a \in 1 .. m
        BY <1>2, <3>2
      <4>2. QED BY <1>2, <1>12, <4>1 DEF Good
    <3>3. QED BY <3>1, <3>2
  <2>4. ASSUME NEW a \in 1 .. m + 1, NEW b \in 1 .. m + 1, a < b
        PROVE  Last(p[a]) < Head(p[b])
    <3>1. a \in 1 .. m /\ p[a] = o[a]
      <4>1. a \in 1 .. m
        BY <2>4
      <4>2. QED BY <1>12, <4>1
    <3>2. CASE b # m + 1
      <4>1. b \in 1 .. m
        BY <1>2, <3>2
      <4>2. p[b] = o[b]
        BY <1>12, <4>1
      <4>3. QED BY <1>2, <2>4, <3>1, <4>1, <4>2 DEF Good
    <3>3. CASE b = m + 1
      <4>1. Head(p[b]) = st[1]
        BY <1>10, <1>12, <3>3
      <4>2. m \in 1 .. m /\ o # <<>>
        BY <1>2, <3>1
      <4>3. LeftOff(c) = Last(o[m])
        BY <1>2, <4>2 DEF LeftOff, Last
      <4>4. PICK h \in Frames : o[m] = FrameRun(h)
        BY <1>2, <4>2 DEF Good, Whole
      <4>5. PICK y \in Nat, x \in Nat : y = Head(o[m]) /\ x = Last(o[m]) /\ y <= x
        <5>1. /\ Head(o[m]) = FirstOf(h) /\ Last(o[m]) = LastOf(h) /\ FirstOf(h) <= LastOf(h)
              /\ FirstOf(h) \in Packets /\ LastOf(h) \in Packets
          BY <4>4, RunFacts, FrameFacts
        <5>2. FirstOf(h) \in Nat /\ LastOf(h) \in Nat
          BY <1>4, <5>1
        <5>3. QED BY <5>1, <5>2
      <4>6. x < st[1]
        BY <1>20, <4>3, <4>5
      <4>7. CASE a = m
        BY <3>1, <4>1, <4>5, <4>6, <4>7
      <4>8. CASE a # m
        <5>1. a < m
          BY <1>2, <3>1, <4>8
        <5>2. Last(o[a]) < y
          BY <1>2, <3>1, <4>2, <4>5, <5>1 DEF Good
        <5>3. Last(o[a]) \in Nat
          <6>1. PICK e \in Frames : o[a] = FrameRun(e)
            BY <1>2, <3>1 DEF Good, Whole
          <6>2. Last(o[a]) \in Packets
            BY <6>1, RunFacts, FrameFacts
          <6>3. QED BY <1>4, <6>2
        <5>4. Last(o[a]) < st[1]
          <6>1. PICK u \in Nat, v \in Nat : u = Last(o[a]) /\ v = st[1]
            BY <1>20, <5>3
          <6>2. u < y /\ x < v
            BY <4>6, <5>2, <6>1
          <6>3. u < v
            BY <4>5, <6>2
          <6>4. QED BY <6>1, <6>3
        <5>5. QED BY <3>1, <4>1, <5>4
      <4>9. QED BY <4>7, <4>8
    <3>4. QED BY <3>2, <3>3
  <2>5. Sorted(d.list) /\ Len(d.out) = m + 1
    BY <1>12, <1>18, <1>21
  <2>6. QED BY <1>18, <2>1, <2>2, <2>3, <2>4, <2>5 DEF Good
<1>24. LeftOff(c) <= LeftOff(d) /\ Len(d.out) = Len(c.out) + 1 /\ Len(c.out) <= Len(d.out)
  <2>1. LeftOff(c) <= st[n]
    BY <1>17, <1>20
  <2>2. Len(d.out) = m + 1 /\ Len(c.out) = m
    BY <1>2, <1>12, <1>18
  <2>3. QED BY <1>19, <2>1, <2>2
<1>25. Unfragmented => d.size - Len(d.list) = c.size - Len(c.list)
  <2>1. d.size = w /\ Len(d.list) = l - n /\ c.size = z /\ Len(c.list) = l
    BY <1>2, <1>7, <1>18
  <2>2. ASSUME w = z - n PROVE w - (l - n) = z - l
    BY <1>2, <2>2
  <2>3. QED BY <1>16, <2>1, <2>2
<1>26. Held(d.list) = {x \in Held(c.list) : LeftOff(d) < x}
  BY <1>2, <1>18, <1>19, <1>22
<1>27. /\ Len(d.list) < Len(c.list) /\ Head(d.out[Len(c.out) + 1]) = c.list[1]
       /\ \A a \in 1 .. Len(c.out) : d.out[a] = c.out[a]
  <2>1. l - n < l
    BY <1>2
  <2>2. Len(d.list) < Len(c.list)
    BY <1>2, <1>7, <1>18, <2>1
  <2>3. d.out = p /\ c.out = o /\ Len(c.out) = m /\ Head(g) = c.list[1]
    BY <1>2, <1>10, <1>18
  <2>4. QED BY <1>12, <2>2, <2>3
<1>28. QED BY <1>13, <1>23, <1>24, <1>25, <1>26, <1>27 DEF Advanced

\* One attempt at a sequential frame.
LEMMA AttemptRight ==
  ASSUME stream \in Streams, NEW c, Good(c)
  PROVE  /\ Advanced(c, TryUnpackOneSequential(c))
         /\ IsFirstSequential(c) /\ FrameAtHead(c) # 0 =>
              Len(TryUnpackOneSequential(c).out) = Len(c.out) + 1
<1>1. CASE IsFirstSequential(c) /\ FrameAtHead(c) # 0
  <2>1. TryUnpackOneSequential(c) = TryUnpackOne(c)
    BY <1>1 DEF TryUnpackOneSequential
  <2>2. QED BY <1>1, <2>1, TryRight
<1>2. CASE ~(IsFirstSequential(c) /\ FrameAtHead(c) # 0)
  <2>1. TryUnpackOneSequential(c) = c
    BY <1>2 DEF TryUnpackOneSequential, TryUnpackOne
  <2>2. QED BY <1>2, <2>1, StayedPut
<1>3. QED BY <1>1, <1>2

\* The attempts of UnpackSequential can be carried out, however many.
LEMMA AttemptsExist ==
  ASSUME NEW c, NEW m \in Nat
  PROVE  \E f : f = [n \in 0 .. m |-> IF n = 0 THEN c ELSE TryUnpackOneSequential(f[n - 1])]
<1> DEFINE S == {k \in Nat :
                   \E f : f = [n \in 0 .. k |->
                                 IF n = 0 THEN c ELSE TryUnpackOneSequential(f[n - 1])]}
<1>1. 0 \in S
  <2>1. PICK f : f = [n \in 0 .. 0 |-> c]
    OBVIOUS
  <2>2. f = [n \in 0 .. 0 |-> IF n = 0 THEN c ELSE TryUnpackOneSequential(f[n - 1])]
    <3>1. \A n \in 0 .. 0 : n = 0
      OBVIOUS
    <3>2. QED BY <2>1, <3>1
  <2>3. QED BY <2>2
<1>2. ASSUME NEW k \in Nat, k \in S PROVE k + 1 \in S
  <2>1. PICK f : f = [n \in 0 .. k |-> IF n = 0 THEN c ELSE TryUnpackOneSequential(f[n - 1])]
    BY <1>2
  <2>2. PICK g : g = [n \in 0 .. k + 1 |->
                        IF n = k + 1 THEN TryUnpackOneSequential(f[k]) ELSE f[n]]
    OBVIOUS
  <2>3. ASSUME NEW n \in 0 .. k + 1
        PROVE  g[n] = IF n = 0 THEN c ELSE TryUnpackOneSequential(g[n - 1])
    <3>1. CASE n = k + 1
      <4>1. n # 0 /\ n - 1 = k /\ k \in 0 .. k + 1 /\ k # k + 1
        BY <3>1
      <4>2. g[n] = TryUnpackOneSequential(f[k]) /\ g[k] = f[k]
        BY <2>2, <3>1, <4>1
      <4>3. QED BY <4>1, <4>2
    <3>2. CASE n # k + 1 /\ n # 0
      <4>1. n \in 0 .. k /\ n - 1 \in 0 .. k + 1 /\ n - 1 # k + 1
        BY <3>2
      <4>2. g[n] = f[n] /\ g[n - 1] = f[n - 1]
        BY <2>2, <3>2, <4>1
      <4>3. f[n] = TryUnpackOneSequential(f[n - 1])
        BY <2>1, <3>2, <4>1
      <4>4. QED BY <3>2, <4>2, <4>3
    <3>3. CASE n = 0
      <4>1. 0 \in 0 .. k /\ 0 # k + 1
        OBVIOUS
      <4>2. g[n] = f[n] /\ f[n] = c
        BY <2>1, <2>2, <3>3, <4>1
      <4>3. QED BY <3>3, <4>2
    <3>4. QED BY <3>1, <3>2, <3>3
  <2>4. g = [n \in 0 .. k + 1 |-> IF n = 0 THEN c ELSE TryUnpackOneSequential(g[n - 1])]
    <3>1. PICK h : h = [n \in 0 .. k + 1 |->
                          IF n = 0 THEN c ELSE TryUnpackOneSequential(g[n - 1])]
      OBVIOUS
    <3>2. \A n \in 0 .. k + 1 : g[n] = h[n]
      BY <2>3, <3>1
    <3>3. g = h
      BY <2>2, <3>1, <3>2
    <3>4. QED BY <3>1, <3>3
  <2>5. QED BY <2>4
<1>3. \A k \in Nat : k \in S
  <2> HIDE DEF S
  <2>1. QED BY <1>1, <1>2, Induction
<1>4. QED BY <1>3

\* What UnpackSequential does: frames leave, and if none does there was none to take.
LEMMA UnpackRight ==
  ASSUME stream \in Streams, NEW c, Good(c)
  PROVE  /\ Advanced(c, UnpackSequential(c))
         /\ UnpackSequential(c) = c => ~(IsFirstSequential(c) /\ FrameAtHead(c) # 0)
<1>1. PICK l \in Nat : l = Len(c.list)
  BY DEF Good, Container
<1> DEFINE after == CHOOSE f : f = [n \in 0 .. l |->
                       IF n = 0 THEN c ELSE TryUnpackOneSequential(f[n - 1])]
<1>2. UnpackSequential(c) = after[l]
  BY <1>1 DEF UnpackSequential
<1>3. after = [n \in 0 .. l |-> IF n = 0 THEN c ELSE TryUnpackOneSequential(after[n - 1])]
  BY AttemptsExist
<1> HIDE DEF after
<1>4. after[0] = c
  <2>1. 0 \in 0 .. l
    OBVIOUS
  <2>2. QED BY <1>3, <2>1
<1>5. \A n \in Nat : n + 1 \in 0 .. l => after[n + 1] = TryUnpackOneSequential(after[n])
  <2> SUFFICES ASSUME NEW n \in Nat, n + 1 \in 0 .. l
               PROVE  after[n + 1] = TryUnpackOneSequential(after[n])
    OBVIOUS
  <2>1. n + 1 # 0 /\ (n + 1) - 1 = n
    OBVIOUS
  <2>2. QED BY <1>3, <2>1
<1> DEFINE S == {n \in Nat : n \in 0 .. l => Advanced(c, after[n])}
           R == {n \in Nat : n + 1 \in 0 .. l => Advanced(after[1], after[n + 1])}
<1>6. 0 \in S
  BY <1>4, StayedPut
<1>7. ASSUME NEW n \in Nat, n \in S PROVE n + 1 \in S
  <2> SUFFICES ASSUME n + 1 \in 0 .. l PROVE Advanced(c, after[n + 1])
    OBVIOUS
  <2>1. Advanced(c, after[n]) /\ Good(after[n])
    BY <1>7 DEF Advanced
  <2>2. Advanced(after[n], after[n + 1])
    BY <1>5, <2>1, AttemptRight
  <2>3. QED BY <2>1, <2>2, AdvancedTwice
<1>8. \A n \in Nat : n \in S
  <2> HIDE DEF S
  <2>1. QED BY <1>6, <1>7, Induction
<1>9. \A n \in 0 .. l : Advanced(c, after[n]) /\ Good(after[n])
  BY <1>8 DEF Advanced
<1>10. 0 \in R
  <2> SUFFICES ASSUME 1 \in 0 .. l PROVE Advanced(after[1], after[1])
    OBVIOUS
  <2>1. QED BY <1>9, StayedPut
<1>11. ASSUME NEW n \in Nat, n \in R PROVE n + 1 \in R
  <2> SUFFICES ASSUME (n + 1) + 1 \in 0 .. l PROVE Advanced(after[1], after[(n + 1) + 1])
    OBVIOUS
  <2>1. n + 1 \in 0 .. l /\ 1 \in 0 .. l
    OBVIOUS
  <2>2. Advanced(after[1], after[n + 1]) /\ Good(after[n + 1]) /\ Good(after[1])
    BY <1>9, <1>11, <2>1
  <2>3. Advanced(after[n + 1], after[(n + 1) + 1])
    BY <1>5, <2>2, AttemptRight
  <2>4. QED BY <2>2, <2>3, AdvancedTwice
<1>12. \A n \in Nat : n \in R
  <2> HIDE DEF R
  <2>1. QED BY <1>10, <1>11, Induction
<1>13. Advanced(c, UnpackSequential(c))
  <2>1. l \in 0 .. l
    OBVIOUS
  <2>2. QED BY <1>2, <1>9, <2>1
<1>14. ASSUME IsFirstSequential(c), FrameAtHead(c) # 0 PROVE UnpackSequential(c) # c
  <2>1. l # 0
    <3>1. c.list # <<>> /\ c.list \in Seq(Packets)
      BY <1>14 DEF IsFirstSequential, Good, Container
    <3>2. QED BY <1>1, <3>1
  <2>2. PICK k \in Nat : k + 1 = l /\ k + 1 \in 0 .. l /\ 0 + 1 \in 0 .. l
    <3>1. l - 1 \in Nat /\ (l - 1) + 1 = l
      BY <2>1
    <3>2. QED BY <3>1
  <2>3. Advanced(after[1], after[l])
    BY <1>12, <2>2
  <2>4. after[1] = TryUnpackOneSequential(c)
    BY <1>4, <1>5, <2>2
  <2>5. Len(after[1].out) = Len(c.out) + 1
    BY <1>14, <2>4, AttemptRight
  <2>6. Len(after[1].out) <= Len(after[l].out)
    BY <2>3 DEF Advanced
  <2>7. Len(c.out) \in Nat
    BY DEF Good, Container
  <2>8. Len(after[l].out) # Len(c.out)
    BY <2>5, <2>6, <2>7
  <2>9. QED BY <1>2, <2>8
<1>15. QED BY <1>13, <1>14

\* No frame was left out between two that have left
Unbroken(o) == \A a \in 2 .. Len(o) : Head(o[a]) = Last(o[a - 1]) + 1

\* There is no sequential frame to take
NoneToTake(c) == ~(IsFirstSequential(c) /\ FrameAtHead(c) # 0)

\* One attempt leaves none out, and takes packets from the list or is in vain.
LEMMA AttemptUnbroken ==
  ASSUME stream \in Streams, NEW c, Good(c), Unbroken(c.out)
  PROVE  /\ Unbroken(TryUnpackOneSequential(c).out)
         /\ NoneToTake(c) => TryUnpackOneSequential(c) = c
         /\ ~NoneToTake(c) => Len(TryUnpackOneSequential(c).list) < Len(c.list)
<1>1. CASE NoneToTake(c)
  <2>1. TryUnpackOneSequential(c) = c
    BY <1>1 DEF NoneToTake, TryUnpackOneSequential, TryUnpackOne
  <2>2. QED BY <1>1, <2>1
<1>2. CASE ~NoneToTake(c)
  <2>1. IsFirstSequential(c) /\ FrameAtHead(c) # 0
    BY <1>2 DEF NoneToTake
  <2>2. PICK d : d = TryUnpackOne(c) /\ d = TryUnpackOneSequential(c)
    BY <2>1 DEF TryUnpackOneSequential
  <2>3. PICK m \in Nat : m = Len(c.out)
    BY DEF Good, Container
  <2>4. /\ Len(d.out) = m + 1 /\ Len(d.list) < Len(c.list)
        /\ \A a \in 1 .. m : d.out[a] = c.out[a]
        /\ Head(d.out[m + 1]) = c.list[1]
    BY <2>1, <2>2, <2>3, TryRight
  <2>5. ASSUME m >= 1 PROVE Head(d.out[m + 1]) = Last(d.out[m]) + 1
    <3>1. c.out # <<>> /\ LeftOff(c) = Last(c.out[m]) /\ m \in 1 .. m
      BY <2>3, <2>5 DEF LeftOff, Last
    <3>2. LeftOff(c) \in Packets /\ c.done = SeqNo(LeftOff(c))
      BY <3>1, LeftOffIs DEF Good
    <3>3. c.done # NoSeq
      BY <3>2, SeqNoIs DEF NoSeq
    <3>4. c.list # <<>> /\ SeqDiff(SeqNo(c.list[1]), c.done) = 1
      BY <2>1, <3>3 DEF IsFirstSequential
    <3>5. c.list[1] \in Packets
      BY <3>4 DEF Good, Container
    <3>6. c.list[1] = LeftOff(c) + 1
      BY <3>2, <3>4, <3>5, NeighboursDiffer
    <3>7. QED BY <2>4, <3>1, <3>6
  <2>6. ASSUME NEW a \in 2 .. m + 1 PROVE Head(d.out[a]) = Last(d.out[a - 1]) + 1
    <3>1. CASE a = m + 1
      <4>1. m >= 1 /\ a - 1 = m
        BY <3>1
      <4>2. QED BY <2>5, <3>1, <4>1
    <3>2. CASE a # m + 1
      <4>1. a \in 2 .. m /\ a \in 1 .. m /\ a - 1 \in 1 .. m
        BY <3>2
      <4>2. Head(c.out[a]) = Last(c.out[a - 1]) + 1
        BY <2>3, <4>1 DEF Unbroken
      <4>3. QED BY <2>4, <4>1, <4>2
    <3>3. QED BY <3>1, <3>2
  <2>7. QED BY <1>2, <2>2, <2>4, <2>6 DEF Unbroken
<1>3. QED BY <1>1, <1>2

\* UnpackSequential leaves none out, and goes on until there is none to take: as many
\* attempts as the list has packets are enough.
LEMMA UnpackSettles ==
  ASSUME stream \in Streams, NEW c, Good(c), Unbroken(c.out)
  PROVE  Unbroken(UnpackSequential(c).out) /\ NoneToTake(UnpackSequential(c))
<1>1. PICK l \in Nat : l = Len(c.list)
  BY DEF Good, Container
<1> DEFINE after == CHOOSE f : f = [n \in 0 .. l |->
                       IF n = 0 THEN c ELSE TryUnpackOneSequential(f[n - 1])]
<1>2. UnpackSequential(c) = after[l]
  BY <1>1 DEF UnpackSequential
<1>3. after = [n \in 0 .. l |-> IF n = 0 THEN c ELSE TryUnpackOneSequential(after[n - 1])]
  BY AttemptsExist
<1> HIDE DEF after
<1>4. after[0] = c
  <2>1. 0 \in 0 .. l
    OBVIOUS
  <2>2. QED BY <1>3, <2>1
<1>5. \A n \in Nat : n + 1 \in 0 .. l => after[n + 1] = TryUnpackOneSequential(after[n])
  <2> SUFFICES ASSUME NEW n \in Nat, n + 1 \in 0 .. l
               PROVE  after[n + 1] = TryUnpackOneSequential(after[n])
    OBVIOUS
  <2>1. n + 1 # 0 /\ (n + 1) - 1 = n
    OBVIOUS
  <2>2. QED BY <1>3, <2>1
<1> DEFINE S == {n \in Nat : n \in 0 .. l =>
                   /\ Good(after[n]) /\ Unbroken(after[n].out)
                   /\ NoneToTake(after[n]) \/ Len(after[n].list) <= l - n}
<1>6. 0 \in S
  BY <1>1, <1>4
<1>7. ASSUME NEW n \in Nat, n \in S PROVE n + 1 \in S
  <2> SUFFICES ASSUME n + 1 \in 0 .. l
               PROVE  /\ Good(after[n + 1]) /\ Unbroken(after[n + 1].out)
                      /\ NoneToTake(after[n + 1]) \/ Len(after[n + 1].list) <= l - (n + 1)
    OBVIOUS
  <2>1. PICK d, e : d = after[n] /\ e = after[n + 1] /\ e = TryUnpackOneSequential(d)
    BY <1>5
  <2>2. Good(d) /\ Unbroken(d.out) /\ (NoneToTake(d) \/ Len(d.list) <= l - n)
    BY <1>7, <2>1
  <2>3. Good(e) /\ Unbroken(e.out)
    BY <2>1, <2>2, AttemptRight, AttemptUnbroken DEF Advanced
  <2>4. CASE NoneToTake(d)
    BY <2>1, <2>2, <2>3, <2>4, AttemptUnbroken
  <2>5. CASE ~NoneToTake(d)
    <3>1. Len(e.list) < Len(d.list) /\ Len(d.list) <= l - n
      BY <2>1, <2>2, <2>5, AttemptUnbroken
    <3>2. Len(e.list) \in Nat /\ Len(d.list) \in Nat
      BY <2>2, <2>3 DEF Good, Container
    <3>3. Len(e.list) <= l - (n + 1)
      BY <3>1, <3>2
    <3>4. QED BY <2>1, <2>3, <3>3
  <2>6. QED BY <2>4, <2>5
<1>8. \A n \in Nat : n \in S
  <2> HIDE DEF S
  <2>1. QED BY <1>6, <1>7, Induction
<1>9. PICK d : d = after[l]
  OBVIOUS
<1>10. Good(d) /\ Unbroken(d.out) /\ (NoneToTake(d) \/ Len(d.list) <= l - l)
  BY <1>8, <1>9
<1>11. ASSUME Len(d.list) <= l - l PROVE NoneToTake(d)
  <2>1. d.list \in Seq(Packets)
    BY <1>10 DEF Good, Container
  <2>2. d.list = <<>>
    BY <1>11, <2>1
  <2>3. QED BY <2>2 DEF NoneToTake, IsFirstSequential
<1>12. QED BY <1>2, <1>9, <1>10, <1>11

\* The frame after the last that left is not complete in the list
Waiting(c) ==
  c.out # <<>> =>
    \A f \in Frames \ stream.unknown :
      FirstOf(f) = LeftOff(c) + 1 => ~(FirstOf(f) .. LastOf(f) \subseteq Held(c.list))

\* Dropping the first packet.
LEMMA PopRight ==
  ASSUME NEW c, Good(c), c.list # <<>>
  PROVE  Good(PopFirst(c))
<1>1. c \in Container /\ Sorted(c.list) /\ \A x \in Held(c.list) : LeftOff(c) < x
  BY DEF Good, Held
<1>2. PICK st \in Seq(Packets), n \in Nat, z \in Int : st = c.list /\ n = Len(st) /\ z = c.size - 1
  BY <1>1 DEF Container
<1>3. PICK t : t = Tail(st)
  OBVIOUS
<1>4. t \in Seq(Packets) /\ Len(t) = n - 1 /\ \A k \in 1 .. n - 1 : t[k] = st[k + 1]
  <2>1. /\ Tail(st) \in Seq(Packets) /\ Len(Tail(st)) = Len(st) - 1
        /\ \A k \in 1 .. Len(Tail(st)) : Tail(st)[k] = st[k + 1]
    BY <1>2, HeadTailProperties
  <2>2. QED BY <1>2, <1>3, <2>1
<1>5. \A k \in 1 .. n - 1 : k + 1 \in 1 .. n
  BY <1>2
<1>6. Sorted(t)
  <2> SUFFICES ASSUME NEW j \in 1 .. n - 1, NEW k \in 1 .. n - 1, j < k PROVE t[j] < t[k]
    BY <1>4 DEF Sorted
  <2>1. j + 1 \in 1 .. n /\ k + 1 \in 1 .. n /\ j + 1 < k + 1
    BY <1>5
  <2>2. st[j + 1] < st[k + 1]
    BY <1>1, <1>2, <2>1 DEF Sorted
  <2>3. QED BY <1>4, <2>2
<1>7. \A x \in Held(t) : LeftOff(c) < x
  BY <1>1, <1>2, <1>4, <1>5 DEF Held
<1>8. PICK d : d = PopFirst(c)
  OBVIOUS
<1>9. d = [c EXCEPT !.list = t, !.size = z]
  BY <1>1, <1>2, <1>3, <1>8 DEF PopFirst, Container
<1>10. d.out = c.out /\ d.done = c.done /\ d.list = t
  BY <1>1, <1>9 DEF Container
<1>11. d \in Container
  BY <1>1, <1>2, <1>4, <1>9 DEF Container
<1>12. Good(d)
  BY <1>6, <1>7, <1>10, <1>11, ListReplaced
<1>13. QED BY <1>8, <1>12

\* The list holds exactly what arrived and has not left, and Size is its length
InStep(c, g) ==
  /\ \A x : x \in Held(c.list) <=> x \in g /\ LeftOff(c) < x
  /\ Unfragmented => c.size = Len(c.list)

\* Frames that leave do not change that.
LEMMA StillInStep ==
  ASSUME stream \in Streams, NEW c, Good(c), NEW d, Advanced(c, d), NEW g, g \subseteq Packets,
         InStep(c, g)
  PROVE  InStep(d, g)
<1>1. LeftOff(c) \in Nat /\ LeftOff(d) \in Nat /\ LeftOff(c) <= LeftOff(d)
  BY LeftOffIs DEF Advanced
<1>2. \A x \in g : LeftOff(d) < x => LeftOff(c) < x
  <2>1. \A x \in g : x \in Nat
    BY StreamFacts
  <2>2. QED BY <1>1, <2>1
<1>3. \A x : x \in Held(d.list) <=> x \in g /\ LeftOff(d) < x
  <2>1. Held(d.list) = {x \in Held(c.list) : LeftOff(d) < x}
    BY DEF Advanced
  <2>2. QED BY <1>2, <2>1 DEF InStep
<1>4. ASSUME Unfragmented PROVE d.size = Len(d.list)
  <2>1. d.size - Len(d.list) = c.size - Len(c.list) /\ c.size = Len(c.list)
    BY <1>4 DEF Advanced, InStep
  <2>2. Len(c.list) \in Nat /\ Len(d.list) \in Nat /\ d.size \in Int
    BY DEF Good, Container, Advanced
  <2>3. QED BY <2>1, <2>2
<1>5. QED BY <1>3, <1>4 DEF InStep

\* Nor does a packet that is put in its place.
LEMMA InsertInStep ==
  ASSUME stream \in Streams, NEW c, Good(c), NEW i \in Packets, LeftOff(c) < i,
         NEW g, g \subseteq Packets, InStep(c, g)
  PROVE  InStep(Insert(c, i), g \cup {i})
<1>1. PICK d : d = Insert(c, i)
  OBVIOUS
<1>2. /\ Good(d) /\ d.out = c.out /\ Held(d.list) = Held(c.list) \cup {i}
      /\ d.size - Len(d.list) = c.size - Len(c.list)
  BY <1>1, InsertRight
<1>3. LeftOff(d) = LeftOff(c)
  BY <1>2 DEF LeftOff
<1>4. \A x : x \in Held(d.list) <=> x \in g \cup {i} /\ LeftOff(d) < x
  BY <1>2, <1>3 DEF InStep
<1>5. ASSUME Unfragmented PROVE d.size = Len(d.list)
  <2>1. c.size = Len(c.list)
    BY <1>5 DEF InStep
  <2>2. Len(c.list) \in Nat /\ Len(d.list) \in Nat /\ d.size \in Int
    BY <1>2 DEF Good, Container
  <2>3. QED BY <1>2, <2>1, <2>2
<1>6. QED BY <1>1, <1>4, <1>5 DEF InStep

\* What RtpUnpackContainer.Feed does.
LEMMA FeedRight ==
  ASSUME stream \in Streams, NEW c, Good(c), NEW i \in Packets
  PROVE  /\ Good(FeedContainer(c, i))
         /\ \A g : g \subseteq Packets /\ InStep(c, g) /\ ~MustJump(c, i) =>
                     InStep(FeedContainer(c, i), g \cup {i})
<1>1. CASE IsStale(c, i)
  <2>1. FeedContainer(c, i) = c /\ i <= LeftOff(c)
    BY <1>1, StaleIs DEF FeedContainer, MustJump, Inserted
  <2>2. ~(LeftOff(c) < i)
    <3>1. i \in Nat /\ LeftOff(c) \in Nat
      BY StreamFacts, LeftOffIs
    <3>2. QED BY <2>1, <3>1
  <2>3. \A g : InStep(c, g) => InStep(c, g \cup {i})
    BY <2>2 DEF InStep
  <2>4. QED BY <2>1, <2>3
<1>2. CASE ~IsStale(c, i)
  <2>1. LeftOff(c) < i
    <3>1. i \in Nat /\ LeftOff(c) \in Nat
      BY StreamFacts, LeftOffIs
    <3>2. QED BY <1>2, <3>1, StaleIs
  <2>2. PICK d : d = Insert(c, i)
    OBVIOUS
  <2>3. Good(d) /\ i \in Held(d.list)
    BY <2>1, <2>2, InsertRight
  <2>4. PICK e : e = UnpackSequential(d)
    OBVIOUS
  <2>5. Advanced(d, e) /\ Good(e)
    BY <2>3, <2>4, UnpackRight DEF Advanced
  <2>6. CASE ~MustJump(c, i)
    <3>1. FeedContainer(c, i) = e
      BY <1>2, <2>2, <2>4, <2>6 DEF FeedContainer, Inserted
    <3>2. ASSUME NEW g, g \subseteq Packets, InStep(c, g) PROVE InStep(e, g \cup {i})
      <4>1. InStep(d, g \cup {i})
        BY <2>1, <2>2, <3>2, InsertInStep
      <4>2. g \cup {i} \subseteq Packets
        BY <3>2
      <4>3. QED BY <2>3, <2>5, <4>1, <4>2, StillInStep
    <3>3. QED BY <2>5, <3>1, <3>2
  <2>7. CASE MustJump(c, i)
    <3>1. FeedContainer(c, i) = UnpackJump(d)
      BY <2>2, <2>7 DEF FeedContainer
    <3>2. CASE TryUnpackOne(d) = d
      <4>1. UnpackJump(d) = PopFirst(d)
        BY <3>2 DEF UnpackJump
      <4>2. d.list # <<>>
        <5>1. PICK k \in 1 .. Len(d.list) : d.list[k] = i
          BY <2>3 DEF Held
        <5>2. d.list \in Seq(Packets)
          BY <2>3 DEF Good, Container
        <5>3. QED BY <5>1, <5>2
      <4>3. QED BY <2>3, <2>7, <3>1, <4>1, <4>2, PopRight
    <3>3. CASE TryUnpackOne(d) # d
      <4>1. UnpackJump(d) = UnpackSequential(TryUnpackOne(d))
        BY <3>3 DEF UnpackJump
      <4>2. FrameAtHead(d) # 0
        BY <3>3 DEF TryUnpackOne
      <4>3. Good(TryUnpackOne(d))
        BY <2>3, <4>2, TryRight DEF Advanced
      <4>4. Good(UnpackSequential(TryUnpackOne(d)))
        BY <4>3, UnpackRight DEF Advanced
      <4>5. QED BY <2>7, <3>1, <4>1, <4>4
    <3>4. QED BY <3>2, <3>3
  <2>8. QED BY <2>6, <2>7
<1>3. QED BY <1>1, <1>2

-----------------------------------------------------------------------------
(* Reordering alone never fills the list                                    *)

\* In a sorted list numbers grow at least as fast as positions.
LEMMA SortedGrows ==
  ASSUME NEW st \in Seq(Nat), Sorted(st), NEW j \in 1 .. Len(st), NEW k \in j .. Len(st)
  PROVE  st[j] + (k - j) <= st[k]
<1>1. PICK l \in Nat : l = Len(st) /\ j \in 1 .. l
  OBVIOUS
<1>2. \A x \in 1 .. l : st[x] \in Nat
  BY <1>1
<1> DEFINE S == {n \in Nat : j + n <= l => st[j] + n <= st[j + n]}
<1>3. 0 \in S
  <2>1. j + 0 = j /\ st[j] \in Nat
    BY <1>1, <1>2
  <2>2. QED BY <2>1
<1>4. ASSUME NEW n \in Nat, n \in S PROVE n + 1 \in S
  <2> SUFFICES ASSUME j + (n + 1) <= l PROVE st[j] + (n + 1) <= st[j + (n + 1)]
    OBVIOUS
  <2>1. PICK x \in 1 .. l, y \in 1 .. l : x = j + n /\ y = j + (n + 1) /\ x < y
    BY <1>1
  <2>2. st[x] < st[y] /\ st[x] \in Nat /\ st[y] \in Nat /\ st[j] \in Nat
    BY <1>1, <1>2, <2>1 DEF Sorted
  <2>3. st[j] + n <= st[x]
    BY <1>1, <1>4, <2>1
  <2>4. PICK u \in Nat, v \in Nat, w \in Nat : u = st[j] /\ v = st[x] /\ w = st[y]
    BY <2>2
  <2>5. u + (n + 1) <= w
    <3>1. v < w /\ u + n <= v
      BY <2>2, <2>3, <2>4
    <3> HIDE DEF S
    <3>2. QED BY <3>1
  <2>6. QED BY <2>1, <2>4, <2>5
<1>5. \A n \in Nat : n \in S
  <2> HIDE DEF S
  <2>1. QED BY <1>3, <1>4, Induction
<1>6. PICK n \in Nat : n = k - j /\ j + n = k /\ k <= l
  BY <1>1
<1>7. QED BY <1>5, <1>6

\* A sorted list that lacks no number after d and before p begins with these.
LEMMA SortedPrefix ==
  ASSUME NEW st \in Seq(Nat), Sorted(st), NEW d \in Nat, NEW p \in Nat,
         \A k \in 1 .. Len(st) : d < st[k],
         \A x \in d + 1 .. p - 1 : x \in Held(st)
  PROVE  \A k \in 1 .. p - 1 - d : k <= Len(st) /\ st[k] = d + k
<1>1. PICK l \in Nat : l = Len(st)
  OBVIOUS
<1>2. \A x \in 1 .. l : st[x] \in Nat /\ d < st[x]
  BY <1>1
<1>3. \A x, y \in 1 .. l : x < y => st[x] < st[y]
  BY <1>1 DEF Sorted
<1> DEFINE S == {n \in Nat : \A k \in 1 .. n : k <= p - 1 - d => k <= l /\ st[k] = d + k}
<1>4. 0 \in S
  OBVIOUS
<1>5. ASSUME NEW n \in Nat, n \in S PROVE n + 1 \in S
  <2> SUFFICES ASSUME n + 1 <= p - 1 - d PROVE n + 1 <= l /\ st[n + 1] = d + (n + 1)
    <3>1. \A k \in 1 .. n + 1 : k \in 1 .. n \/ k = n + 1
      OBVIOUS
    <3>2. QED BY <1>5, <3>1
  <2>1. \A k \in 1 .. n : k <= l /\ st[k] = d + k
    BY <1>5
  <2>2. d + (n + 1) \in Held(st)
    OBVIOUS
  <2>3. PICK j \in 1 .. l : st[j] = d + (n + 1)
    BY <1>1, <2>2 DEF Held
  <2>4. ~(j <= n)
    BY <2>1, <2>3
  <2>5. n + 1 \in 1 .. l /\ n + 1 <= j
    BY <1>1, <2>3, <2>4
  <2>6. st[n + 1] <= d + (n + 1)
    <3>1. n + 1 = j \/ st[n + 1] < st[j]
      BY <1>3, <2>5
    <3>2. st[n + 1] \in Nat
      BY <1>2, <2>5
    <3>3. QED BY <2>3, <3>1, <3>2
  <2>7. st[n + 1] >= d + (n + 1)
    <3>1. st[n + 1] \in Nat /\ d < st[n + 1]
      BY <1>2, <2>5
    <3>2. CASE n = 0
      BY <3>1, <3>2
    <3>3. CASE n # 0
      <4>1. n \in 1 .. n /\ n \in 1 .. l /\ n < n + 1
        BY <2>5, <3>3
      <4>2. st[n] = d + n /\ st[n] < st[n + 1]
        BY <1>3, <2>1, <2>5, <4>1
      <4>3. QED BY <3>1, <4>2
    <3>4. QED BY <3>2, <3>3
  <2>8. st[n + 1] \in Nat
    BY <1>2, <2>5
  <2>9. QED BY <2>5, <2>6, <2>7, <2>8
<1>6. \A n \in Nat : n \in S
  <2> HIDE DEF S
  <2>1. QED BY <1>4, <1>5, Induction
<1>7. ASSUME NEW k \in 1 .. p - 1 - d PROVE k <= l /\ st[k] = d + k
  <2>1. k \in Nat /\ k \in 1 .. k
    OBVIOUS
  <2>2. QED BY <1>6, <2>1
<1>8. QED BY <1>1, <1>7

\* When there is no sequential frame to take, the next frame is not complete.
LEMMA IdleWaits ==
  ASSUME stream \in Streams, NEW c, Good(c), NoneToTake(c)
  PROVE  Waiting(c)
<1> SUFFICES ASSUME c.out # <<>>, NEW f \in Frames, f \notin stream.unknown,
                    FirstOf(f) = LeftOff(c) + 1,
                    FirstOf(f) .. LastOf(f) \subseteq Held(c.list)
             PROVE  FALSE
  BY DEF Waiting
<1>1. PICK st \in Seq(Packets), l \in Nat, d \in Nat, z \in Nat \ {0} :
        /\ st = c.list /\ l = Len(st) /\ d = LeftOff(c) /\ d \in Packets /\ z = SizeOf(f)
        /\ FirstOf(f) = d + 1 /\ LastOf(f) = d + z /\ c.done = SeqNo(d)
  <2>1. c.list \in Seq(Packets) /\ Len(c.list) \in Nat /\ c.done = SeqNo(LeftOff(c))
    BY DEF Good, Container
  <2>2. LeftOff(c) \in Nat /\ LeftOff(c) \in Packets
    BY LeftOffIs
  <2>3. SizeOf(f) \in Nat \ {0} /\ LastOf(f) = FirstOf(f) + SizeOf(f) - 1
    BY FrameFacts
  <2>4. LastOf(f) = LeftOff(c) + SizeOf(f)
    BY <2>2, <2>3
  <2>5. QED BY <2>1, <2>2, <2>3, <2>4
<1>2. st \in Seq(Nat) /\ Sorted(st) /\ \A k \in 1 .. Len(st) : d < st[k]
  <2>1. Packets \subseteq Nat
    BY StreamFacts
  <2>2. st \in Seq(Nat)
    BY <1>1, <2>1
  <2>3. QED BY <1>1, <2>2 DEF Good
<1>3. PICK p \in Nat : p = d + z + 1 /\ p - 1 = d + z /\ p - 1 - d = z
  BY <1>1
<1>4. \A x \in d + 1 .. p - 1 : x \in Held(st)
  BY <1>1, <1>3
<1>5. \A k \in 1 .. z : k <= Len(st) /\ st[k] = d + k
  <2>1. \A k \in 1 .. p - 1 - d : k <= Len(st) /\ st[k] = d + k
    BY <1>2, <1>4, SortedPrefix
  <2>2. QED BY <1>3, <2>1
<1>6. z <= l /\ st[1] = d + 1 /\ 1 \in 1 .. l /\ st[1] \in Packets
  <2>1. 1 \in 1 .. z /\ z \in 1 .. z
    BY <1>1
  <2>2. z <= l /\ st[1] = d + 1
    BY <1>1, <1>5, <2>1
  <2>3. 1 \in 1 .. l
    BY <1>1, <2>2
  <2>4. QED BY <1>1, <2>2, <2>3
<1>7. FrameAtHead(c) # 0
  <2>1. \A k \in 1 .. z : st[k] = FirstOf(f) + k - 1
    BY <1>1, <1>5
  <2>2. QED BY <1>1, <1>6, <2>1, WholeIsTaken
<1>8. IsFirstSequential(c)
  <2>1. SeqDiff(SeqNo(st[1]), SeqNo(d)) = 1
    BY <1>1, <1>6, NeighboursDiffer
  <2>2. c.list # <<>>
    BY <1>1, <1>6
  <2>3. QED BY <1>1, <2>1, <2>2 DEF IsFirstSequential
<1>9. QED BY <1>7, <1>8 DEF NoneToTake

\* RtpUnpackContainer.Feed leaves no frame out and none waiting that is complete, unless it
\* gives up on a packet.
LEMMA FeedSettles ==
  ASSUME stream \in Streams, NEW c, Good(c), Unbroken(c.out), Waiting(c), NEW i \in Packets,
         ~MustJump(c, i)
  PROVE  Unbroken(FeedContainer(c, i).out) /\ Waiting(FeedContainer(c, i))
<1>1. CASE IsStale(c, i)
  BY <1>1 DEF FeedContainer, Inserted
<1>2. CASE ~IsStale(c, i)
  <2>1. LeftOff(c) < i
    <3>1. i \in Nat /\ LeftOff(c) \in Nat
      BY StreamFacts, LeftOffIs
    <3>2. QED BY <1>2, <3>1, StaleIs
  <2>2. PICK d : d = Insert(c, i) /\ Good(d) /\ d.out = c.out
    BY <2>1, InsertRight
  <2>3. PICK e : e = UnpackSequential(d) /\ FeedContainer(c, i) = e
    BY <1>2, <2>2 DEF FeedContainer, Inserted
  <2>4. Good(e) /\ Unbroken(e.out) /\ NoneToTake(e)
    BY <2>2, <2>3, UnpackRight, UnpackSettles DEF Advanced
  <2>5. QED BY <2>3, <2>4, IdleWaits
<1>3. QED BY <1>1, <1>2

\* The room that a stream needs
Roomy ==
  /\ stream.unknown = {} /\ Unfragmented
  /\ \A f \in Frames : SizeOf(f) + stream.window - 1 < stream.maxSize

\* While everything older than the window has arrived, what waits in the list is less than
\* a frame and a window: either a frame can leave or the list has room.
LEMMA NoJump ==
  ASSUME stream \in Streams, Roomy, NEW e, Good(e), NEW g, g \subseteq Packets, InStep(e, g),
         NEW n \in Nat, \A x \in g : x <= n, 1 .. n - stream.window - 1 \subseteq g,
         Full(e)
  PROVE  UnpackSequential(e) # e
<1> SUFFICES ASSUME UnpackSequential(e) = e PROVE FALSE
  OBVIOUS
<1>1. ~(IsFirstSequential(e) /\ FrameAtHead(e) # 0)
  BY UnpackRight
<1>2. PICK st \in Seq(Packets), l \in Nat, d \in Nat, w \in Nat, z \in Nat :
        /\ st = e.list /\ l = Len(st) /\ d = LeftOff(e) /\ w = stream.window
        /\ z = stream.maxSize
  <2>1. e.list \in Seq(Packets) /\ Len(e.list) \in Nat
    BY DEF Good, Container
  <2>2. LeftOff(e) \in Nat /\ stream.window \in Nat /\ stream.maxSize \in Nat
    BY LeftOffIs, StreamFacts
  <2>3. QED BY <2>1, <2>2
<1>3. z <= l
  <2>1. e.size = Len(e.list)
    BY DEF InStep, Roomy
  <2>2. QED BY <1>2, <2>1 DEF Full
<1>4. st \in Seq(Nat) /\ Sorted(st) /\ \A k \in 1 .. l : d < st[k] /\ st[k] \in Packets /\ st[k] \in Nat
  <2>1. Packets \subseteq Nat
    BY StreamFacts
  <2>2. \A k \in 1 .. l : st[k] \in Packets
    BY <1>2
  <2>3. \A k \in 1 .. l : st[k] \in Nat
    BY <2>1, <2>2
  <2>4. st \in Seq(Nat)
    BY <1>2, <2>3
  <2>5. QED BY <1>2, <2>2, <2>3, <2>4 DEF Good
<1>5. \A x : x \in Held(st) <=> x \in g /\ d < x
  BY <1>2 DEF InStep
<1>6. PICK p \in Nat :
        /\ d < p /\ p \notin Held(st)
        /\ \A x \in Nat : d < x /\ x \notin Held(st) => p <= x
  <2> DEFINE T == {x \in Nat : d < x /\ x \notin Held(st)}
  <2>1. PICK m \in Nat : d < m /\ n < m
    <3>1. d + n + 1 \in Nat /\ d < d + n + 1 /\ n < d + n + 1
      OBVIOUS
    <3>2. QED BY <3>1
  <2>2. m \notin g
    <3>1. m \in g => m <= n
      OBVIOUS
    <3>2. QED BY <2>1, <3>1
  <2>3. m \in T
    BY <1>5, <2>1, <2>2
  <2>4. T \subseteq Nat /\ T # {}
    BY <2>3
  <2>5. PICK p \in T : \A y \in T : p <= y
    <3> HIDE DEF T
    <3>1. QED BY <2>4, LeastNumber
  <2>6. QED BY <2>5
<1>7. n - w <= p
  <2>1. p \notin g
    BY <1>5, <1>6
  <2>2. p \notin 1 .. n - w - 1
    BY <1>2, <2>1
  <2>3. QED BY <1>2, <1>6, <2>2
<1>8. PICK q \in Nat : q = p - 1 - d
  BY <1>2, <1>6
<1>9. \A k \in 1 .. q : k <= l /\ st[k] = d + k
  <2>1. \A x \in d + 1 .. p - 1 : x \in Held(st)
    <3> SUFFICES ASSUME NEW x \in d + 1 .. p - 1, x \notin Held(st) PROVE FALSE
      OBVIOUS
    <3>1. x \in Nat /\ d < x /\ ~(p <= x)
      BY <1>2, <1>6
    <3>2. QED BY <1>6, <3>1
  <2>2. \A k \in 1 .. p - 1 - d : k <= Len(st) /\ st[k] = d + k
    <3>1. \A k \in 1 .. Len(st) : d < st[k]
      BY <1>2, <1>4
    <3>2. QED BY <1>4, <2>1, <3>1, SortedPrefix
  <2>3. QED BY <1>2, <1>8, <2>2
<1>10. l <= q + w
  <2>1. CASE l <= q
    BY <2>1
  <2>2. CASE q < l
    <3>1. q + 1 \in 1 .. l /\ l \in q + 1 .. l /\ l \in 1 .. l
      BY <1>2, <1>8, <2>2
    <3>2. st[q + 1] # p
      BY <1>2, <1>6, <3>1 DEF Held
    <3>3. st[q + 1] >= p
      <4>1. d < st[q + 1] /\ st[q + 1] \in Nat
        BY <1>4, <3>1
      <4>2. CASE q = 0
        BY <1>2, <1>6, <1>8, <4>1, <4>2
      <4>3. CASE q # 0
        <5>1. q \in 1 .. q /\ q \in 1 .. l /\ q < q + 1
          BY <1>2, <1>8, <3>1, <4>3
        <5>2. st[q] = d + q /\ st[q] < st[q + 1]
          BY <1>2, <1>4, <1>9, <3>1, <5>1 DEF Sorted
        <5>3. d < p
          BY <1>6
        <5>4. QED BY <1>8, <4>1, <5>2, <5>3
      <4>4. QED BY <4>2, <4>3
    <3>4. st[q + 1] + (l - (q + 1)) <= st[l]
      BY <1>2, <1>4, <3>1, SortedGrows
    <3>5. st[l] <= n /\ st[l] \in Nat /\ st[q + 1] \in Nat
      <4>1. st[l] \in Held(st)
        BY <1>2, <3>1 DEF Held
      <4>2. QED BY <1>4, <1>5, <3>1, <4>1
    <3>6. PICK x \in Nat, y \in Nat : x = st[q + 1] /\ y = st[l]
      BY <3>5
    <3>7. x # p /\ x >= p /\ x + (l - (q + 1)) <= y /\ y <= n
      BY <3>2, <3>3, <3>4, <3>5, <3>6
    <3>8. QED BY <1>7, <3>7
  <2>3. QED BY <1>2, <1>8, <2>1, <2>2
<1>11. CASE q = 0
  <2>1. PICK f \in Frames : SizeOf(f) \in Nat \ {0}
    <3>1. 1 \in Frames
      BY StreamFacts
    <3>2. QED BY <3>1, FrameFacts
  <2>2. PICK a \in Nat : a = SizeOf(f) /\ a # 0 /\ a + w - 1 < z
    BY <1>2, <2>1 DEF Roomy
  <2>3. QED BY <1>2, <1>3, <1>10, <1>11, <2>2
<1>12. CASE q # 0
  <2>1. 1 \in 1 .. q /\ 1 \in 1 .. l
    BY <1>2, <1>8, <1>9, <1>12
  <2>2. st[1] = d + 1 /\ d + 1 \in Packets
    BY <1>4, <1>9, <2>1
  <2>3. PICK f \in Frames : FirstOf(f) = d + 1
    <3>1. CASE e.out = <<>>
      <4>1. d = 0 /\ 1 \in Frames
        BY <1>2, <3>1, StreamFacts DEF LeftOff
      <4>2. FirstOf(1) = 1
        BY DEF FirstOf
      <4>3. QED BY <4>1, <4>2
    <3>2. CASE e.out # <<>>
      <4>1. PICK h \in Frames : LastOf(h) = d
        BY <1>2, <3>2, LeftOffIs
      <4>2. QED BY <2>2, <4>1, NextFrame
    <3>3. QED BY <3>1, <3>2
  <2>4. PICK b \in Nat \ {0} : b = SizeOf(f)
    BY FrameFacts
  <2>5. q < b
    <3> SUFFICES ASSUME b <= q PROVE FALSE
      BY <1>8, <2>4
    <3>1. b <= l
      <4>1. q \in 1 .. q
        BY <1>8, <1>12
      <4>2. q <= l
        BY <1>9, <4>1
      <4>3. QED BY <1>2, <1>8, <2>4, <4>2
    <3>2. ASSUME NEW k \in 1 .. b PROVE st[k] = FirstOf(f) + k - 1
      <4>1. k \in 1 .. q
        BY <1>8, <2>4
      <4>2. st[k] = d + k
        BY <1>9, <4>1
      <4>3. QED BY <1>2, <2>3, <4>2
    <3>3. FrameAtHead(e) # 0
      BY <1>2, <2>4, <3>1, <3>2, WholeIsTaken DEF Roomy
    <3>4. IsFirstSequential(e)
      <4>1. e.list # <<>>
        BY <1>2, <2>1
      <4>2. CASE e.out = <<>>
        BY <4>1, <4>2 DEF Good, IsFirstSequential
      <4>3. CASE e.out # <<>>
        <5>1. e.done = SeqNo(d) /\ d \in Packets
          BY <1>2, <4>3, LeftOffIs DEF Good
        <5>2. SeqDiff(SeqNo(d + 1), SeqNo(d)) = 1
          BY <2>2, <5>1, NeighboursDiffer
        <5>3. QED BY <1>2, <2>2, <4>1, <5>1, <5>2 DEF IsFirstSequential
      <4>4. QED BY <4>2, <4>3
    <3>5. QED BY <1>1, <3>3, <3>4
  <2>6. b + w - 1 < z
    BY <1>2, <2>4 DEF Roomy
  <2>7. QED BY <1>3, <1>10, <2>5, <2>6
<1>13. QED BY <1>11, <1>12

-----------------------------------------------------------------------------
(* The inductive invariant                                                  *)

\* The container
Now == [list |-> list, size |-> size, done |-> done, out |-> out]

\* What a network that only reorders lets arrive
OnlyReordered == 1 .. Newest - stream.window - 1 \subseteq got

\* The container is good, as long as nothing was given up it is in step and neither leaves
\* a frame out nor keeps one waiting, and nothing was given up for packets that only came in
\* the wrong order
FramesInv ==
  /\ CountInv /\ Good(Now)
  /\ ~overrun => InStep(Now, got) /\ Unbroken(out) /\ Waiting(Now)
  /\ OnlyReordered /\ Roomy => ~overrun

\* It says what FramesInOrder does.
LEMMA FramesInvEnough == FramesInv => FramesInOrder
<1> SUFFICES ASSUME FramesInv PROVE FramesInOrder
  OBVIOUS
<1>1. stream \in Streams /\ Good(Now) /\ Now.out = out
  BY DEF FramesInv, CountInv, Now
<1>2. out \in Seq(Seq(Packets)) /\ DOMAIN out = 1 .. Len(out)
  BY <1>1 DEF Good, Container
<1>3. \A a, b \in DOMAIN out : a < b => Last(out[a]) < Head(out[b])
  BY <1>1, <1>2 DEF Good
<1>4. ASSUME NEW a \in DOMAIN out
      PROVE  out[a] = [k \in 1 .. SizeOf(FrameOf(Head(out[a]))) |->
                         FirstOf(FrameOf(Head(out[a]))) + k - 1]
  <2>1. PICK f \in Frames : out[a] = FrameRun(f)
    BY <1>1, <1>2 DEF Good, Whole
  <2>2. FrameOf(Head(out[a])) = f
    BY <1>1, <2>1, RunFacts
  <2>3. out[a] = FrameRun(FrameOf(Head(out[a])))
    BY <2>1, <2>2
  <2>4. QED BY <2>3 DEF FrameRun
<1>5. ReorderTolerated
  BY DEF FramesInv, ReorderTolerated, OnlyReordered, Roomy, Unfragmented
<1>6. ASSUME ~overrun, out # <<>>, NEW f \in Frames, f \notin stream.unknown,
             FirstOf(f) = Last(Last(out)) + 1, FirstOf(f) .. LastOf(f) \subseteq got
      PROVE  FALSE
  <2>1. LeftOff(Now) = Last(Last(out)) /\ LeftOff(Now) \in Nat
    BY <1>1, <1>6, LeftOffIs DEF LeftOff
  <2>2. InStep(Now, got) /\ Waiting(Now)
    BY <1>6 DEF FramesInv
  <2>3. ASSUME NEW x \in FirstOf(f) .. LastOf(f) PROVE x \in Held(Now.list)
    <3>1. x \in got /\ LeftOff(Now) < x
      BY <1>6, <2>1
    <3>2. QED BY <2>2, <3>1 DEF InStep
  <2>4. QED BY <1>1, <1>6, <2>1, <2>2, <2>3 DEF Waiting
<1>7. NothingGivenUp
  <2>1. ~overrun => Unbroken(out)
    BY DEF FramesInv
  <2>2. QED BY <1>6, <2>1 DEF NothingGivenUp, Unbroken
<1>8. QED BY <1>3, <1>4, <1>5, <1>7 DEF FramesInOrder

\* It holds before anything has arrived.
LEMMA FramesInitially == RtpInit => FramesInv
<1> SUFFICES ASSUME RtpInit PROVE FramesInv
  OBVIOUS
<1>1. /\ stream \in Streams /\ Now.list = <<>> /\ Now.size = 0 /\ Now.done = NoSeq
      /\ Now.out = <<>> /\ got = {} /\ overrun = FALSE
  BY DEF RtpInit, Now
<1>2. CountInv
  BY DEF RtpInit, CountInv, Counters
<1>3. Now \in Container
  BY DEF RtpInit, Now, Container, NoSeq
<1>4. Good(Now)
  BY <1>1, <1>3 DEF Good, Sorted
<1>5. InStep(Now, got) /\ Unbroken(out) /\ Waiting(Now)
  <2>1. InStep(Now, got)
    BY <1>1 DEF InStep, Held
  <2>2. Waiting(Now)
    BY <1>1 DEF Waiting
  <2>3. out = <<>>
    BY DEF RtpInit
  <2>4. QED BY <2>1, <2>2, <2>3 DEF Unbroken
<1>6. QED BY <1>1, <1>2, <1>4, <1>5 DEF FramesInv

\* A packet that arrives keeps it.
LEMMA FramesStep ==
  ASSUME FramesInv, CountInv', NEW i \in Packets, HandleRtpPacket(i)
  PROVE  FramesInv'
<1>1. /\ stream \in Streams /\ Good(Now) /\ got \subseteq Packets
      /\ got' \subseteq Packets' /\ stream' = stream /\ got' = got \cup {i}
  BY DEF FramesInv, CountInv, HandleRtpPacket
<1>2. PICK c : c = Now
  OBVIOUS
<1>3. PICK d : d = FeedContainer(c, i)
  OBVIOUS
<1>4. /\ list' = d.list /\ size' = d.size /\ done' = d.done /\ out' = d.out
      /\ overrun' = (overrun \/ MustJump(c, i))
  BY <1>2, <1>3 DEF HandleRtpPacket, Now
<1>5. Good(d) /\ \A g : g \subseteq Packets /\ InStep(c, g) /\ ~MustJump(c, i) => InStep(d, g \cup {i})
  BY <1>1, <1>2, <1>3, FeedRight
<1>6. Now' = d
  <2>1. d \in Container
    BY <1>5 DEF Good
  <2>2. d = [list |-> d.list, size |-> d.size, done |-> d.done, out |-> d.out]
    BY <2>1 DEF Container
  <2>3. QED BY <1>4, <2>2 DEF Now
<1>7. PICK g : g = got \cup {i}
  OBVIOUS
<1>8. Good(d)' /\ (InStep(d, g) => InStep(d, g)') /\ (Roomy' => Roomy)
  <2>1. Packets' = Packets /\ Frames' = Frames /\ stream' = stream
    BY <1>1 DEF Packets, Frames
  <2>2. Good(d)'
    <3>1. \A f \in Frames : FrameRun(f)' = FrameRun(f)
      BY <2>1 DEF FrameRun, SizeOf, FirstOf, LastOf
    <3>2. \A r : Whole(r)' <=> Whole(r)
      BY <2>1, <3>1 DEF Whole
    <3>3. Container' = Container
      BY <2>1 DEF Container
    <3>4. QED BY <1>5, <3>2, <3>3 DEF Good
  <2>3. Unfragmented' = Unfragmented /\ Roomy' = Roomy
    BY <2>1 DEF Unfragmented, Roomy, SizeOf, FirstOf, LastOf
  <2>4. InStep(d, g) => InStep(d, g)'
    BY <2>3 DEF InStep
  <2>5. QED BY <2>2, <2>3, <2>4
<1>9. Good(Now)'
  BY <1>6, <1>8
<1>10. ASSUME ~overrun' PROVE InStep(Now, got)' /\ Unbroken(out)' /\ Waiting(Now)'
  <2>1. ~overrun /\ ~MustJump(c, i)
    BY <1>4, <1>10
  <2>2. InStep(d, got \cup {i})
    BY <1>1, <1>2, <1>5, <2>1 DEF FramesInv
  <2>3. InStep(d, g)' /\ got' = g
    BY <1>1, <1>8, <1>7, <2>2
  <2>4. Unbroken(d.out) /\ Waiting(d)
    <3>1. Unbroken(c.out) /\ Waiting(c)
      BY <1>2, <2>1 DEF FramesInv, Now
    <3>2. QED BY <1>1, <1>2, <1>3, <2>1, <3>1, FeedSettles
  <2>5. Waiting(d)'
    BY <1>1, <2>4 DEF Waiting, LeftOff, Held, Frames, FirstOf, LastOf
  <2>6. Unbroken(out)'
    BY <1>4, <2>4 DEF Unbroken
  <2>7. QED BY <1>6, <2>3, <2>5, <2>6
<1>11. ASSUME OnlyReordered', Roomy' PROVE ~overrun'
  <2>1. PICK n \in Nat, w \in Nat : n = Newest' /\ w = stream.window /\ \A x \in got' : x <= n
    <3>1. Newest' \in got' /\ \A x \in got' : x <= Newest'
      <4>1. got' # {}
        BY <1>1
      <4>2. QED BY <4>1 DEF CountInv
    <3>2. Newest' \in Packets /\ stream.window \in Nat
      BY <1>1, <3>1, StreamFacts DEF Packets
    <3>3. Newest' \in Nat
      BY <1>1, <3>2, StreamFacts
    <3>4. QED BY <3>1, <3>2, <3>3
  <2>2. 1 .. n - w - 1 \subseteq got \cup {i}
    BY <1>1, <1>11, <2>1 DEF OnlyReordered
  <2>3. OnlyReordered
    <3>1. CASE got = {}
      <4>1. Newest = 0
        BY <3>1 DEF Newest
      <4>2. 1 .. 0 - w - 1 = {}
        OBVIOUS
      <4>3. QED BY <2>1, <4>1, <4>2 DEF OnlyReordered
    <3>2. CASE got # {}
      <4>1. Newest \in got
        BY <3>2 DEF FramesInv, CountInv
      <4>2. PICK m \in Nat : m = Newest /\ m <= n
        <5>1. Newest \in Nat
          BY <1>1, <4>1, StreamFacts
        <5>2. Newest <= n
          BY <1>1, <2>1, <4>1
        <5>3. QED BY <5>1, <5>2
      <4>3. i \in m - w .. m + 1 + Gap
        BY <2>1, <3>2, <4>2 DEF HandleRtpPacket, CanArrive
      <4>4. ASSUME NEW x \in 1 .. m - w - 1 PROVE x \in got
        <5>1. x \in 1 .. n - w - 1
          BY <4>2
        <5>2. x # i
          <6>1. Gap \in Nat
            BY RtpAssumption
          <6>2. QED BY <4>3, <6>1
        <5>3. QED BY <2>2, <5>1, <5>2
      <4>5. QED BY <2>1, <4>2, <4>4 DEF OnlyReordered
    <3>3. QED BY <3>1, <3>2
  <2>4. ~overrun /\ Roomy /\ InStep(c, got)
    BY <1>2, <1>8, <1>11, <2>3 DEF FramesInv
  <2>5. ~MustJump(c, i)
    <3> SUFFICES ASSUME MustJump(c, i) PROVE FALSE
      OBVIOUS
    <3>1. PICK e : e = Insert(c, i)
      OBVIOUS
    <3>2. ~IsStale(c, i) /\ UnpackSequential(e) = e /\ Full(e)
      BY <3>1 DEF MustJump
    <3>3. LeftOff(c) < i
      <4>1. i \in Nat /\ LeftOff(c) \in Nat
        BY <1>1, <1>2, StreamFacts, LeftOffIs
      <4>2. QED BY <1>1, <1>2, <3>2, <4>1, StaleIs
    <3>4. Good(e) /\ InStep(e, got \cup {i})
      BY <1>1, <1>2, <2>4, <3>1, <3>3, InsertRight, InsertInStep
    <3>5. g \subseteq Packets /\ (\A x \in g : x <= n) /\ 1 .. n - stream.window - 1 \subseteq g
      BY <1>1, <1>7, <2>1, <2>2
    <3>6. QED BY <1>1, <1>7, <2>4, <3>2, <3>4, <3>5, NoJump
  <2>6. QED BY <1>4, <2>4, <2>5
<1>12. QED BY <1>9, <1>10, <1>11 DEF FramesInv

\* Every step keeps it.
LEMMA FramesKept == ASSUME FramesInv, [RtpNext]_rtpVars PROVE FramesInv'
<1>1. CountInv'
  BY CountsKept DEF FramesInv
<1>2. CASE \E i \in Packets : HandleRtpPacket(i)
  BY <1>1, <1>2, FramesStep
<1>3. CASE HandleRtcpPacket \/ UNCHANGED rtpVars
  <2>1. UNCHANGED <<stream, list, size, done, out, got, overrun>>
    BY <1>3 DEF HandleRtcpPacket, rtpVars
  <2>2. Packets' = Packets /\ Frames' = Frames /\ Newest' = Newest /\ Now' = Now
    BY <2>1 DEF Packets, Frames, Newest, Now
  <2>3. Good(Now)' = Good(Now)
    BY <2>1, <2>2 DEF Good, Container, LeftOff, SeqNo, Whole, FrameRun, SizeOf, FirstOf, LastOf
  <2>4. Unfragmented' = Unfragmented /\ Roomy' = Roomy /\ OnlyReordered' = OnlyReordered
    BY <2>1, <2>2 DEF Unfragmented, Roomy, OnlyReordered, SizeOf, FirstOf, LastOf
  <2>5. /\ InStep(Now, got)' = InStep(Now, got) /\ Unbroken(out)' = Unbroken(out)
        /\ Waiting(Now)' = Waiting(Now)
    <3>1. InStep(Now, got)' = InStep(Now, got) /\ Unbroken(out)' = Unbroken(out)
      BY <2>1, <2>2, <2>4 DEF InStep, Unbroken
    <3>2. Waiting(Now)' = Waiting(Now)
      BY <2>1, <2>2 DEF Waiting, LeftOff, Held, FirstOf, LastOf
    <3>3. QED BY <3>1, <3>2
  <2>6. QED BY <1>1, <2>1, <2>3, <2>4, <2>5 DEF FramesInv
<1>4. QED BY <1>2, <1>3 DEF RtpNext

\* Frames leave RtpUnpackContainer whole and in the order sent, whatever the network loses,
\* delays or duplicates and however sequence numbers wrap; from the first one on none is left
\* out, or kept although it is complete, before the list has been full, and a reordering
\* the list has room for does not fill it; and a receiver report expects exactly the packets
\* from the first received to the newest (RrProducer.FeedRtpPacket, Produce).
THEOREM ReceptionIsRight == RtpSpec => []ReceptionRight
<1>1. FramesInv => ReceptionRight
  BY FramesInvEnough, CountEnough DEF FramesInv, ReceptionRight
<1>2. QED BY <1>1, FramesInitially, FramesKept, PTL DEF RtpSpec

-----------------------------------------------------------------------------
(* The ring                                                                 *)

\* What a remainder is.
LEMMA DivMod ==
  ASSUME NEW a \in Nat, NEW k \in Nat, k # 0
  PROVE  a % k \in 0..(k - 1) /\ \E x \in Int : a = k * x + (a % k)
<1>1. a % k \in 0..(k - 1)
  OBVIOUS
<1>2. a \div k \in Int
  OBVIOUS
<1>3. a = k * (a \div k) + (a % k)
  OBVIOUS
<1>4. QED BY <1>1, <1>2, <1>3

\* A number below the divisor is its own remainder.
LEMMA SmallRemainder ==
  ASSUME NEW a \in Nat, NEW k \in Nat, k # 0, a < k
  PROVE  a % k = a
OBVIOUS

\* A product that is positive is not below its other factor.
LEMMA Multiple ==
  ASSUME NEW k \in Nat, NEW d \in Int, 0 < k * d
  PROVE  k <= k * d
<1>1. CASE d <= 0
  <2>1. k * d <= 0
    BY <1>1
  <2>2. QED BY <2>1
<1>2. CASE d >= 1
  BY <1>2
<1>3. QED BY <1>1, <1>2

\* Positions less than a round apart are different places.
LEMMA RingDistinct ==
  ASSUME NEW a \in Nat, NEW b \in Nat, NEW k \in Nat, k # 0, a < b, b < a + k
  PROVE  a % k # b % k
<1> SUFFICES ASSUME a % k = b % k PROVE FALSE
  OBVIOUS
<1>1. PICK x \in Int, y \in Int, z \in Int : a = k * x + z /\ b = k * y + z
  <2>1. PICK z \in Int : z = a % k
    BY DivMod
  <2>2. PICK x \in Int : a = k * x + z
    <3>1. \E x \in Int : a = k * x + (a % k)
      BY DivMod
    <3>2. QED BY <2>1, <3>1
  <2>3. PICK y \in Int : b = k * y + z
    <3>1. b % k = z
      BY <2>1
    <3>2. \E y \in Int : b = k * y + (b % k)
      BY DivMod
    <3>3. QED BY <3>1, <3>2
  <2>4. QED BY <2>2, <2>3
<1>2. PICK d \in Int : d = y - x
  OBVIOUS
<1>3. k * d = k * y - k * x
  BY <1>2
<1>4. k * d = b - a /\ 0 < k * d /\ k * d < k
  BY <1>1, <1>3
<1>5. k <= k * d
  BY <1>4, Multiple
<1>6. QED BY <1>4, <1>5

\* A round further is the same place.
LEMMA WholeRound ==
  ASSUME NEW a \in Nat, NEW k \in Nat, k # 0
  PROVE  a % k = (a + k) % k
<1>1. PICK y \in Int, v \in Int, x \in Int, w \in Int :
        /\ a = k * x + v /\ v = a % k /\ v \in 0..(k - 1)
        /\ a + k = k * y + w /\ w = (a + k) % k /\ w \in 0..(k - 1)
  <2>1. PICK b \in Nat : b = a + k
    OBVIOUS
  <2>2. PICK v \in Int : v = a % k /\ v \in 0..(k - 1)
    BY DivMod
  <2>3. PICK x \in Int : a = k * x + v
    BY <2>2, DivMod
  <2>4. PICK w \in Int : w = b % k /\ w \in 0..(k - 1)
    BY <2>1, DivMod
  <2>5. PICK y \in Int : b = k * y + w
    BY <2>1, <2>4, DivMod
  <2>6. QED BY <2>1, <2>2, <2>3, <2>4, <2>5
<1>2. PICK d \in Int : d = y - x - 1
  OBVIOUS
<1>3. k * d = k * y - k * x - k
  BY <1>2
<1>4. k * d = v - w /\ v - w < k /\ w - v < k
  BY <1>1, <1>3
<1>5. ~(0 < k * d)
  BY <1>4, Multiple
<1>6. PICK e \in Int : e = 0 - d /\ k * e = 0 - k * d
  <2>1. k * (0 - d) = 0 - k * d
    OBVIOUS
  <2>2. QED BY <2>1
<1>7. ~(0 < k * e)
  BY <1>4, <1>6, Multiple
<1>8. v = w
  BY <1>4, <1>5, <1>6, <1>7
<1>9. QED BY <1>1, <1>8

-----------------------------------------------------------------------------
(* The muxer                                                                *)

\* The type of a fragment
Fragment == [file : Nat, id : Nat, duration : Int, discont : BOOLEAN]
\* The type of a playlist
Playlist == [files : Seq(Nat), mediaSeq : Nat, ended : BOOLEAN]
\* The type of a muxer
Muxer ==
  [cleanup : {"never", "inTheEnd", "asap"}, opened : BOOLEAN, fragTs : Int, fragLastTs : Int,
   nfrags : Nat, frag : Nat, frags : [0..(FragsCapacity - 1) -> Fragment], videoSeen : BOOLEAN,
   forceCutOnNextKey : BOOLEAN, forceCutOnNextAudioBoundary : BOOLEAN, content : Seq(Seq(Nat)),
   disk : SUBSET Nat, playlists : Seq(Playlist), record : Seq(Nat)]

\* The file of the ring's place p
FileAt(m, p) == m.frags[p].file

\* The ring remembers the last files made, each at the place of its number.
RingHolds(m, l) ==
  /\ \A j \in 1..l : l < j + FragsCapacity => FileAt(m, (j - 1) % FragsCapacity) = j
  /\ \A p \in 0..(FragsCapacity - 1) : l <= p => FileAt(m, p) = 0

\* The playlist written when the k-th fragment was closed
Lists(pl, k) ==
  /\ pl.mediaSeq <= k /\ k <= pl.mediaSeq + FragmentNum /\ Len(pl.files) = k - pl.mediaSeq
  /\ \A i \in 1..(k - pl.mediaSeq) : pl.files[i] = pl.mediaSeq + i

\* How many fragments were closed
ClosedNum(m) == m.frag + m.nfrags

\* The muxer: files are numbered as they are made and closed in turn, one playlist is
\* written for each, and only files beyond the playlists' reach are deleted.
MuxerOk(m) ==
  /\ m \in Muxer
  /\ m.nfrags <= FragmentNum /\ (m.frag # 0 => m.nfrags = FragmentNum)
  /\ Len(m.content) = IF m.opened THEN ClosedNum(m) + 1 ELSE ClosedNum(m)
  /\ RingHolds(m, Len(m.content))
  /\ Len(m.playlists) = ClosedNum(m)
  /\ \A k \in 1..ClosedNum(m) : Lists(m.playlists[k], k)
  /\ \A j \in 1..Len(m.content) : ClosedNum(m) < j + FragmentNum + DeleteThreshold => j \in m.disk

\* The capacity of the ring
LEMMA Capacity ==
  /\ FragsCapacity \in Nat /\ FragsCapacity # 0 /\ FragmentNum \in Nat /\ DeleteThreshold \in Nat
  /\ FragsCapacity = FragmentNum + DeleteThreshold + 1 /\ FragmentNum # 0
BY HlsMuxerAssumption DEF HlsMuxerAssumption, FragsCapacity

\* A place of the ring
LEMMA PlaceIs ==
  ASSUME NEW m \in Muxer, NEW n \in Nat
  PROVE  /\ RingPos(m, n) \in 0..(FragsCapacity - 1) /\ RingPos(m, n) = (m.frag + n) % FragsCapacity
         /\ GetFrag(m, n) = m.frags[RingPos(m, n)]
<1>1. PICK f \in Nat : f = m.frag
  BY DEF Muxer
<1>2. PICK a \in Nat, k \in Nat : a = f + n /\ k = FragsCapacity /\ k # 0
  BY Capacity
<1>3. a % k \in 0..(k - 1)
  BY <1>2, DivMod
<1>4. QED BY <1>1, <1>2, <1>3 DEF RingPos, GetFrag

\* d differs from m in nothing that MuxerOk looks at.
SameCore(d, m) ==
  /\ d.opened = m.opened /\ d.nfrags = m.nfrags /\ d.frag = m.frag /\ d.content = m.content
  /\ d.disk = m.disk /\ d.playlists = m.playlists
  /\ \A p \in 0..(FragsCapacity - 1) : FileAt(d, p) = FileAt(m, p)

\* That is enough.
LEMMA CoreDecides ==
  ASSUME NEW m, MuxerOk(m), NEW d \in Muxer, SameCore(d, m)
  PROVE  MuxerOk(d)
<1>1. PICK l \in Nat : l = Len(m.content) /\ l = Len(d.content)
  BY DEF MuxerOk, Muxer, SameCore
<1>2. \A j \in 1..l : (j - 1) % FragsCapacity \in 0..(FragsCapacity - 1)
  <2>1. ASSUME NEW j \in 1..l PROVE (j - 1) % FragsCapacity \in 0..(FragsCapacity - 1)
    <3>1. PICK a \in Nat, k \in Nat : a = j - 1 /\ k = FragsCapacity /\ k # 0
      BY Capacity
    <3>2. QED BY <3>1, DivMod
  <2>2. QED BY <2>1
<1>3. RingHolds(d, l)
  <2>1. RingHolds(m, l)
    BY <1>1 DEF MuxerOk
  <2>2. QED BY <1>2, <2>1 DEF RingHolds, SameCore
<1>4. ClosedNum(d) = ClosedNum(m)
  BY DEF SameCore, ClosedNum
<1>5. QED BY <1>1, <1>3, <1>4 DEF MuxerOk, SameCore

\* The time advances.
LEMMA TimeAdvanced ==
  ASSUME NEW m \in Muxer, NEW ts \in Int
  PROVE  Advance(m, ts) \in Muxer /\ SameCore(Advance(m, ts), m)
<1>1. m.nfrags \in Nat /\ m.fragTs \in Int /\ m.fragLastTs \in Int
  BY DEF Muxer
<1>2. PICK q : q = RingPos(m, m.nfrags)
  OBVIOUS
<1>3. q \in 0..(FragsCapacity - 1)
  BY <1>1, <1>2, PlaceIs
<1>4. PICK last \in Int : last = IF ts > m.fragLastTs THEN ts ELSE m.fragLastTs
  BY <1>1
<1>5. PICK span \in Int : span = last - m.fragTs
  BY <1>1
<1>6. PICK g : g = [m.frags EXCEPT ![q].duration = IF span > @ THEN span ELSE @]
  OBVIOUS
<1>7. m.frags \in [0..(FragsCapacity - 1) -> Fragment]
  BY DEF Muxer
<1>8. g \in [0..(FragsCapacity - 1) -> Fragment] /\ \A p \in 0..(FragsCapacity - 1) : g[p].file = m.frags[p].file
  BY <1>3, <1>6, <1>7 DEF Fragment
<1>9. Advance(m, ts) = [m EXCEPT !.fragLastTs = last, !.frags = g]
  BY <1>2, <1>4, <1>5, <1>6 DEF Advance, Muxer
<1>10. QED BY <1>4, <1>8, <1>9 DEF Muxer, SameCore, FileAt

\* IncrFrag counts one fragment more.
LEMMA FragmentCounted ==
  ASSUME NEW m \in Muxer, m.nfrags <= FragmentNum, m.frag # 0 => m.nfrags = FragmentNum
  PROVE  LET d == IncrFrag(m)
         IN  /\ d \in Muxer /\ ClosedNum(d) = ClosedNum(m) + 1
             /\ d.nfrags <= FragmentNum /\ d.nfrags # 0 /\ (d.frag # 0 => d.nfrags = FragmentNum)
             /\ d = [m EXCEPT !.frag = d.frag, !.nfrags = d.nfrags]
<1>1. PICK a \in Nat, b \in Nat : a = m.frag /\ b = m.nfrags
  BY DEF Muxer
<1>2. PICK a2, b2 :
        /\ a2 = (IF b = FragmentNum THEN a + 1 ELSE a)
        /\ b2 = (IF b = FragmentNum THEN b ELSE b + 1)
  OBVIOUS
<1>3. a2 \in Nat /\ b2 \in Nat /\ b2 <= FragmentNum /\ b2 # 0 /\ (a2 # 0 => b2 = FragmentNum) /\ a2 + b2 = a + b + 1
  BY <1>1, <1>2, Capacity
<1>4. IncrFrag(m) = [m EXCEPT !.frag = a2, !.nfrags = b2]
  BY <1>1, <1>2 DEF IncrFrag, Muxer
<1>5. PICK d : d = [m EXCEPT !.frag = a2, !.nfrags = b2]
  OBVIOUS
<1>6. d \in Muxer /\ d.frag = a2 /\ d.nfrags = b2
  BY <1>3, <1>5 DEF Muxer
<1>7. ClosedNum(d) = ClosedNum(m) + 1
  BY <1>1, <1>3, <1>6 DEF ClosedNum
<1>8. QED BY <1>3, <1>4, <1>5, <1>6, <1>7

\* The place of the file j
LEMMA RingFile ==
  ASSUME NEW m \in Muxer, NEW l \in Nat, RingHolds(m, l), NEW n \in Nat,
         m.frag + n + 1 <= l, l < m.frag + n + 1 + FragsCapacity
  PROVE  GetFrag(m, n).file = m.frag + n + 1
<1>1. PICK f \in Nat : f = m.frag
  BY DEF Muxer
<1>2. PICK j \in 1..l : j = f + n + 1 /\ j - 1 = f + n
  BY <1>1
<1>3. FileAt(m, (j - 1) % FragsCapacity) = j
  BY <1>1, <1>2 DEF RingHolds
<1>4. GetFrag(m, n) = m.frags[(f + n) % FragsCapacity]
  BY <1>1, PlaceIs
<1>5. QED BY <1>1, <1>2, <1>3, <1>4 DEF FileAt

\* The place that is used next holds a file that fell behind, or none.
LEMMA NextPlace ==
  ASSUME NEW m \in Muxer, RingHolds(m, ClosedNum(m))
  PROVE  /\ CurrFrag(m).file \in Nat
         /\ CurrFrag(m).file # 0 => CurrFrag(m).file + FragsCapacity = ClosedNum(m) + 1
<1>1. PICK a \in Nat, b \in Nat : a = m.frag /\ b = m.nfrags
  BY DEF Muxer
<1>2. PICK c \in Nat, k \in Nat : c = a + b /\ c = ClosedNum(m) /\ k = FragsCapacity /\ k # 0
  BY <1>1, Capacity DEF ClosedNum
<1>3. PICK p : p = c % k /\ p \in 0..(k - 1)
  BY <1>2, DivMod
<1>4. CurrFrag(m) = m.frags[p]
  <2>1. GetFrag(m, b) = m.frags[(a + b) % FragsCapacity]
    BY <1>1, PlaceIs
  <2>2. QED BY <1>1, <1>2, <1>3, <2>1 DEF CurrFrag
<1>5. CurrFrag(m).file = FileAt(m, p)
  BY <1>4 DEF FileAt
<1>6. CurrFrag(m).file \in Nat
  <2>1. m.frags \in [0..(k - 1) -> Fragment]
    BY <1>2 DEF Muxer
  <2>2. QED BY <1>3, <1>4, <2>1 DEF Fragment
<1>7. CASE c < k
  <2>1. p = c
    BY <1>2, <1>3, <1>7, SmallRemainder
  <2>2. FileAt(m, p) = 0
    BY <1>2, <1>3, <2>1 DEF RingHolds
  <2>3. QED BY <1>5, <1>6, <2>2
<1>8. CASE ~(c < k)
  <2>1. PICK j \in 1..c : j = c + 1 - k
    BY <1>2, <1>8
  <2>2. c < j + k /\ j - 1 \in Nat /\ j - 1 + k = c
    BY <1>2, <2>1
  <2>3. (j - 1) % k = p
    <3>1. PICK x \in Nat : x = j - 1 /\ x + k = c
      BY <2>2
    <3>2. x % k = c % k
      BY <1>2, <3>1, WholeRound
    <3>3. QED BY <1>3, <3>1, <3>2
  <2>4. FileAt(m, p) = j
    BY <1>2, <2>2, <2>3 DEF RingHolds
  <2>5. QED BY <1>2, <1>5, <1>6, <2>1, <2>4
<1>9. QED BY <1>2, <1>7, <1>8

\* The files are all that RingHolds looks at.
LEMMA SameRing ==
  ASSUME NEW m, NEW d, NEW l \in Nat, RingHolds(m, l),
         \A p \in 0..(FragsCapacity - 1) : FileAt(d, p) = FileAt(m, p)
  PROVE  RingHolds(d, l)
<1>1. ASSUME NEW j \in 1..l PROVE (j - 1) % FragsCapacity \in 0..(FragsCapacity - 1)
  <2>1. PICK a \in Nat, k \in Nat : a = j - 1 /\ k = FragsCapacity /\ k # 0
    BY Capacity
  <2>2. QED BY <2>1, DivMod
<1>2. QED BY <1>1 DEF RingHolds

\* The playlist names the last fragments closed.
LEMMA PlaylistIs ==
  ASSUME NEW m \in Muxer, m.nfrags <= FragmentNum, RingHolds(m, ClosedNum(m)), NEW last \in BOOLEAN
  PROVE  LET pl == [files |-> [i \in 1..m.nfrags |-> GetFrag(m, i - 1).file],
                    mediaSeq |-> m.frag, ended |-> last]
         IN  pl \in Playlist /\ Lists(pl, ClosedNum(m))
<1>1. PICK a \in Nat, b \in Nat, c \in Nat :
        a = m.frag /\ b = m.nfrags /\ c = a + b /\ c = ClosedNum(m) /\ b <= FragmentNum
  BY DEF Muxer, ClosedNum
<1>2. ASSUME NEW i \in 1..b PROVE GetFrag(m, i - 1).file = a + i
  <2>1. PICK n \in Nat : n = i - 1 /\ a + n + 1 = a + i
    OBVIOUS
  <2>2. a + n + 1 <= c /\ c < a + n + 1 + FragsCapacity
    BY <1>1, <2>1, Capacity
  <2>3. GetFrag(m, n).file = m.frag + n + 1
    BY <1>1, <2>2, RingFile
  <2>4. QED BY <1>1, <2>1, <2>3
<1>3. PICK fs : fs = [i \in 1..b |-> a + i]
  OBVIOUS
<1>4. fs \in Seq(Nat) /\ Len(fs) = b /\ \A i \in 1..b : fs[i] = a + i
  BY <1>3
<1>5. [i \in 1..m.nfrags |-> GetFrag(m, i - 1).file] = fs
  BY <1>1, <1>2, <1>3
<1>6. PICK pl : pl = [files |-> fs, mediaSeq |-> a, ended |-> last]
  OBVIOUS
<1>7. pl \in Playlist /\ pl.files = fs /\ pl.mediaSeq = a
  BY <1>4, <1>6 DEF Playlist
<1>8. a <= c /\ c <= a + FragmentNum /\ c - a = b
  BY <1>1, Capacity
<1>9. Lists(pl, c)
  BY <1>4, <1>7, <1>8 DEF Lists
<1>10. QED BY <1>1, <1>5, <1>6, <1>7, <1>9

\* A fragment is closed.
LEMMA Closing ==
  ASSUME NEW m, MuxerOk(m), m.opened, NEW last \in BOOLEAN
  PROVE  LET d == CloseFragment(m, last)
         IN  MuxerOk(d) /\ ~d.opened /\ d.content = m.content
<1>1. m \in Muxer /\ m.fragLastTs \in Int /\ m.content \in Seq(Seq(Nat)) /\ m.playlists \in Seq(Playlist)
  BY DEF MuxerOk, Muxer
<1>2. PICK x : x = Advance(m, m.fragLastTs)
  OBVIOUS
<1>3. x \in Muxer /\ SameCore(x, m)
  BY <1>1, <1>2, TimeAdvanced
<1>4. PICK a : a = [x EXCEPT !.opened = FALSE]
  OBVIOUS
<1>5. /\ a \in Muxer /\ a.opened = FALSE /\ a.nfrags = m.nfrags /\ a.frag = m.frag
      /\ a.content = m.content /\ a.disk = m.disk /\ a.playlists = m.playlists /\ a.frags = x.frags
  BY <1>3, <1>4 DEF Muxer, SameCore
<1>6. PICK b : b = IncrFrag(a)
  OBVIOUS
<1>7. /\ b \in Muxer /\ ClosedNum(b) = ClosedNum(a) + 1
      /\ b.nfrags <= FragmentNum /\ b.nfrags # 0 /\ (b.frag # 0 => b.nfrags = FragmentNum)
      /\ b = [a EXCEPT !.frag = b.frag, !.nfrags = b.nfrags]
  <2>1. a.nfrags <= FragmentNum /\ (a.frag # 0 => a.nfrags = FragmentNum)
    BY <1>5 DEF MuxerOk
  <2>2. QED BY <1>5, <1>6, <2>1, FragmentCounted
<1>8. /\ b.opened = FALSE /\ b.content = m.content /\ b.disk = m.disk /\ b.playlists = m.playlists
      /\ b.frags = x.frags
  <2>1. PICK f, n : f = b.frag /\ n = b.nfrags /\ b = [a EXCEPT !.frag = f, !.nfrags = n]
    BY <1>7
  <2>2. QED BY <1>5, <2>1 DEF Muxer
<1>9. PICK l \in Nat, k \in Nat : /\ l = ClosedNum(b) /\ l = Len(m.content) /\ k = ClosedNum(m) /\ l = k + 1
                                  /\ Len(m.playlists) = k
  <2>1. ClosedNum(m) \in Nat
    BY <1>1 DEF ClosedNum, Muxer
  <2>2. ClosedNum(a) = ClosedNum(m)
    BY <1>5 DEF ClosedNum
  <2>3. Len(m.content) = ClosedNum(m) + 1 /\ Len(m.playlists) = ClosedNum(m)
    BY DEF MuxerOk
  <2>4. QED BY <1>7, <2>1, <2>2, <2>3
<1>10. RingHolds(b, l)
  <2>1. RingHolds(m, l)
    BY <1>9 DEF MuxerOk
  <2>2. \A p \in 0..(FragsCapacity - 1) : FileAt(b, p) = FileAt(m, p)
    BY <1>3, <1>8 DEF SameCore, FileAt
  <2>3. QED BY <2>1, <2>2, SameRing
<1>11. PICK pl : /\ pl = [files |-> [i \in 1..b.nfrags |-> GetFrag(b, i - 1).file],
                          mediaSeq |-> b.frag, ended |-> last]
                 /\ pl \in Playlist /\ Lists(pl, l)
  BY <1>7, <1>9, <1>10, PlaylistIs
<1>12. PICK ps : ps = Append(m.playlists, pl)
  OBVIOUS
<1>13. /\ ps \in Seq(Playlist) /\ Len(ps) = l /\ ps[l] = pl
       /\ \A i \in 1..k : ps[i] = m.playlists[i]
  BY <1>1, <1>9, <1>11, <1>12, AppendProperties
<1>14. PICK e : e = WritePlaylist(b, last)
  OBVIOUS
<1>15. e = [b EXCEPT !.playlists = ps]
  BY <1>7, <1>8, <1>11, <1>12, <1>14 DEF WritePlaylist, Muxer
<1>16. /\ e \in Muxer /\ e.opened = FALSE /\ e.content = m.content /\ e.disk = m.disk
       /\ e.playlists = ps /\ e.frags = b.frags /\ e.frag = b.frag /\ e.nfrags = b.nfrags
  BY <1>7, <1>8, <1>13, <1>15 DEF Muxer
<1>17. PICK g : g = WriteRecordPlaylist(e)
  OBVIOUS
<1>18. /\ g \in Muxer /\ g.opened = FALSE /\ g.content = m.content /\ g.disk = m.disk
       /\ g.playlists = ps /\ g.frags = b.frags /\ g.frag = b.frag /\ g.nfrags = b.nfrags
  <2>1. PICK z : z = Append(e.record, GetFrag(e, e.nfrags - 1).file)
    OBVIOUS
  <2>2. z \in Seq(Nat)
    <3>1. e.nfrags - 1 \in Nat
      <4>1. e.nfrags \in Nat
        BY <1>16 DEF Muxer
      <4>2. e.nfrags # 0
        BY <1>7, <1>16
      <4>3. QED BY <4>1, <4>2
    <3>2. PICK q : q \in 0..(FragsCapacity - 1) /\ GetFrag(e, e.nfrags - 1) = e.frags[q]
      BY <1>16, <3>1, PlaceIs
    <3>3. e.frags \in [0..(FragsCapacity - 1) -> Fragment] /\ e.record \in Seq(Nat)
      BY <1>16 DEF Muxer
    <3>4. GetFrag(e, e.nfrags - 1).file \in Nat
      BY <3>2, <3>3 DEF Fragment
    <3>5. QED BY <2>1, <3>3, <3>4, AppendProperties
  <2>3. g = e \/ g = [e EXCEPT !.record = z]
    BY <1>16, <1>17, <2>1 DEF WriteRecordPlaylist, Muxer
  <2>4. QED BY <1>16, <2>2, <2>3 DEF Muxer
<1>19. ClosedNum(g) = l /\ RingHolds(g, l)
  <2>1. ClosedNum(g) = l
    BY <1>9, <1>18 DEF ClosedNum
  <2>2. \A p \in 0..(FragsCapacity - 1) : FileAt(g, p) = FileAt(b, p)
    BY <1>18 DEF FileAt
  <2>3. QED BY <1>10, <2>1, <2>2, SameRing
<1>20. PICK y \in Nat : y = CurrFrag(g).file /\ (y # 0 => y + FragsCapacity = l + 1)
  BY <1>18, <1>19, NextPlace
<1>21. PICK d : d = DeleteStale(g)
  OBVIOUS
<1>22. /\ d \in Muxer /\ d.opened = FALSE /\ d.content = m.content /\ m.disk \ {y} \subseteq d.disk
       /\ d.playlists = ps /\ d.frags = g.frags /\ d.frag = b.frag /\ d.nfrags = b.nfrags
  <2>1. PICK z : z = g.disk \ {y}
    OBVIOUS
  <2>2. z \in SUBSET Nat
    BY <1>18, <2>1 DEF Muxer
  <2>3. d = g \/ d = [g EXCEPT !.disk = z]
    BY <1>18, <1>20, <1>21, <2>1 DEF DeleteStale, Muxer
  <2>4. CASE d = g
    BY <1>18, <2>4
  <2>5. CASE d = [g EXCEPT !.disk = z]
    <3>1. /\ d.opened = g.opened /\ d.content = g.content /\ d.disk = z /\ d.playlists = g.playlists
          /\ d.frags = g.frags /\ d.frag = g.frag /\ d.nfrags = g.nfrags
      BY <1>18, <2>5 DEF Muxer
    <3>2. d \in Muxer
      BY <1>18, <2>2, <2>5 DEF Muxer
    <3>3. QED BY <1>18, <2>1, <3>1, <3>2
  <2>6. QED BY <2>3, <2>4, <2>5
<1>23. d = CloseFragment(m, last)
  BY <1>2, <1>4, <1>6, <1>14, <1>17, <1>21 DEF CloseFragment
<1>24. ClosedNum(d) = l /\ RingHolds(d, l)
  <2>1. ClosedNum(d) = l
    BY <1>9, <1>22 DEF ClosedNum
  <2>2. \A p \in 0..(FragsCapacity - 1) : FileAt(d, p) = FileAt(g, p)
    BY <1>22 DEF FileAt
  <2>3. QED BY <1>19, <2>1, <2>2, SameRing
<1>25. \A i \in 1..l : Lists(ps[i], i)
  <2>1. \A i \in 1..k : Lists(m.playlists[i], i)
    BY <1>9 DEF MuxerOk
  <2>2. \A i \in 1..l : i \in 1..k \/ i = l
    BY <1>9
  <2>3. QED BY <1>11, <1>13, <2>1, <2>2
<1>26. ASSUME NEW j \in 1..l, l < j + FragmentNum + DeleteThreshold PROVE j \in d.disk
  <2>1. k < j + FragmentNum + DeleteThreshold
    BY <1>9, <1>26, Capacity
  <2>2. j \in m.disk
    BY <1>9, <2>1 DEF MuxerOk
  <2>3. j # y
    BY <1>20, <1>26, Capacity
  <2>4. QED BY <1>22, <2>2, <2>3
<1>27. MuxerOk(d)
  BY <1>7, <1>9, <1>13, <1>22, <1>24, <1>25, <1>26 DEF MuxerOk
<1>28. QED BY <1>22, <1>23, <1>27

\* What opening a fragment at the time ts makes of a muxer
OpenedMuxer(m, ts, discont) ==
  [m EXCEPT !.opened = TRUE, !.content = Append(@, <<>>), !.disk = @ \cup {Len(m.content) + 1},
            !.frags[RingPos(m, m.nfrags)] =
               [file |-> Len(m.content) + 1, id |-> m.frag + m.nfrags, duration |-> 0, discont |-> discont],
            !.fragTs = ts, !.fragLastTs = ts]

\* A fragment is opened.
LEMMA Opening ==
  ASSUME NEW m, MuxerOk(m), ~m.opened, NEW ts \in Int, NEW discont \in BOOLEAN
  PROVE  LET d == OpenedMuxer(m, ts, discont)
         IN  MuxerOk(d) /\ d.opened /\ d.content = Append(m.content, <<>>)
<1>1. /\ m \in Muxer /\ m.content \in Seq(Seq(Nat)) /\ m.disk \in SUBSET Nat
      /\ m.frags \in [0..(FragsCapacity - 1) -> Fragment]
  BY DEF MuxerOk, Muxer
<1>2. PICK a \in Nat, b \in Nat, c \in Nat :
        /\ a = m.frag /\ b = m.nfrags /\ c = a + b /\ c = ClosedNum(m) /\ c = Len(m.content)
        /\ b <= FragmentNum /\ (a # 0 => b = FragmentNum)
  <2>1. m.frag \in Nat /\ m.nfrags \in Nat
    BY <1>1 DEF Muxer
  <2>2. QED BY <2>1 DEF MuxerOk, ClosedNum
<1>3. PICK l \in Nat : l = c + 1
  OBVIOUS
<1>4. PICK k \in Nat : k = FragsCapacity /\ k # 0
  BY Capacity
<1>5. PICK q \in 0..(k - 1) : q = RingPos(m, m.nfrags) /\ q = c % k
  <2>1. RingPos(m, b) = (m.frag + b) % FragsCapacity
    BY <1>1, PlaceIs
  <2>2. c % k \in 0..(k - 1)
    BY <1>4, DivMod
  <2>3. QED BY <1>2, <1>4, <2>1, <2>2
<1>6. PICK fr : fr = [file |-> l, id |-> c, duration |-> 0, discont |-> discont]
  OBVIOUS
<1>7. fr \in Fragment /\ fr.file = l
  BY <1>6 DEF Fragment
<1>8. PICK g : g = [m.frags EXCEPT ![q] = fr]
  OBVIOUS
<1>9. /\ g \in [0..(k - 1) -> Fragment] /\ g[q].file = l
      /\ \A p \in 0..(k - 1) : p # q => g[p] = m.frags[p]
  BY <1>1, <1>4, <1>7, <1>8
<1>10. PICK z : z = Append(m.content, <<>>)
  OBVIOUS
<1>11. z \in Seq(Seq(Nat)) /\ Len(z) = l
  <2>1. <<>> \in Seq(Nat)
    OBVIOUS
  <2>2. QED BY <1>1, <1>2, <1>3, <1>10, <2>1, AppendProperties
<1>12. PICK k2 : k2 = m.disk \cup {l}
  OBVIOUS
<1>13. k2 \in SUBSET Nat
  BY <1>1, <1>12
<1>14. PICK d : d = OpenedMuxer(m, ts, discont)
  OBVIOUS
<1>15. d = [m EXCEPT !.opened = TRUE, !.content = z, !.disk = k2, !.frags = g, !.fragTs = ts, !.fragLastTs = ts]
  BY <1>1, <1>2, <1>3, <1>5, <1>6, <1>8, <1>10, <1>12, <1>14 DEF OpenedMuxer, Muxer
<1>16. /\ d \in Muxer /\ d.opened = TRUE /\ d.content = z /\ d.disk = k2 /\ d.frags = g
       /\ d.frag = a /\ d.nfrags = b /\ d.playlists = m.playlists
  BY <1>1, <1>2, <1>4, <1>9, <1>11, <1>13, <1>15 DEF Muxer
<1>17. ClosedNum(d) = c
  BY <1>2, <1>16 DEF ClosedNum
<1>18. RingHolds(m, c)
  BY <1>2 DEF MuxerOk
<1>19. ASSUME NEW j \in 1..l, l < j + FragsCapacity PROVE FileAt(d, (j - 1) % FragsCapacity) = j
  <2>1. CASE j = l
    <3>1. j - 1 = c
      BY <1>3, <2>1
    <3>2. QED BY <1>4, <1>5, <1>9, <1>16, <2>1, <3>1 DEF FileAt
  <2>2. CASE j # l
    <3>1. PICK x \in Nat : x = j - 1 /\ x < c /\ c < x + k /\ j \in 1..c /\ c < j + FragsCapacity
      BY <1>3, <1>4, <1>19, <2>2
    <3>2. x % k # q
      BY <1>4, <1>5, <3>1, RingDistinct
    <3>3. x % k \in 0..(k - 1)
      BY <1>4, DivMod
    <3>4. FileAt(m, x % k) = j
      BY <1>4, <1>18, <3>1 DEF RingHolds
    <3>5. FileAt(d, x % k) = FileAt(m, x % k)
      BY <1>9, <1>16, <3>2, <3>3 DEF FileAt
    <3>6. QED BY <1>4, <3>1, <3>4, <3>5
  <2>3. QED BY <2>1, <2>2
<1>20. ASSUME NEW p \in 0..(FragsCapacity - 1), l <= p PROVE FileAt(d, p) = 0
  <2>1. c <= p /\ p # q
    <3>1. c <= p /\ c < k /\ c # p
      BY <1>3, <1>4, <1>20
    <3>2. q = c
      BY <1>4, <1>5, <3>1, SmallRemainder
    <3>3. QED BY <3>1, <3>2
  <2>2. FileAt(m, p) = 0
    BY <1>18, <2>1 DEF RingHolds
  <2>3. QED BY <1>4, <1>9, <1>16, <2>1, <2>2 DEF FileAt
<1>21. RingHolds(d, l)
  BY <1>19, <1>20 DEF RingHolds
<1>22. Len(m.playlists) = c /\ \A i \in 1..c : Lists(m.playlists[i], i)
  BY <1>2 DEF MuxerOk
<1>23. ASSUME NEW j \in 1..l, c < j + FragmentNum + DeleteThreshold PROVE j \in k2
  <2>1. CASE j = l
    BY <1>12, <2>1
  <2>2. CASE j # l
    <3>1. j \in 1..c
      BY <1>3, <2>2
    <3>2. j \in m.disk
      BY <1>2, <1>23, <3>1 DEF MuxerOk
    <3>3. QED BY <1>12, <3>2
  <2>3. QED BY <2>1, <2>2
<1>24. MuxerOk(d)
  <2>1. d.nfrags <= FragmentNum /\ (d.frag # 0 => d.nfrags = FragmentNum)
    BY <1>2, <1>16
  <2>2. Len(d.content) = IF d.opened THEN ClosedNum(d) + 1 ELSE ClosedNum(d)
    BY <1>3, <1>11, <1>16, <1>17
  <2>3. RingHolds(d, Len(d.content))
    BY <1>11, <1>16, <1>21
  <2>4. Len(d.playlists) = ClosedNum(d) /\ \A i \in 1..ClosedNum(d) : Lists(d.playlists[i], i)
    BY <1>16, <1>17, <1>22
  <2>5. \A j \in 1..Len(d.content) : ClosedNum(d) < j + FragmentNum + DeleteThreshold => j \in d.disk
    BY <1>11, <1>16, <1>17, <1>23
  <2>6. QED BY <1>16, <2>1, <2>2, <2>3, <2>4, <2>5 DEF MuxerOk
<1>25. QED BY <1>10, <1>14, <1>16, <1>24

\* A frame
Frame == [video : BOOLEAN, key : BOOLEAN, ts : Int, data : Seq(Nat)]
\* The type of the remuxer
Remuxer ==
  [queue : Seq(Nat), done : BOOLEAN, spspps : BOOLEAN, asc : BOOLEAN, audioCache : Seq(Nat),
   firstPts : Int, opened : BOOLEAN, base : [BOOLEAN -> Int], popped : Seq(Nat), openers : Seq(Frame)]
\* The type of the two together
State == [r : Remuxer, m : Muxer, openOk : BOOLEAN, alive : BOOLEAN]

\* What a frame may do to the files: nothing, open one, or fail to open one
Grown(d, m, ok) ==
  \/ d.content = m.content /\ d.opened = m.opened
  \/ ok /\ d.opened /\ d.content = Append(m.content, <<>>)
  \/ ~ok /\ ~d.opened /\ d.content = m.content

\* A frame arrives at the muxer.
LEMMA Updated ==
  ASSUME NEW st \in State, MuxerOk(st.m), NEW f, f.video \in BOOLEAN, f.ts \in Int, NEW boundary \in BOOLEAN
  PROVE  \E d : /\ MuxerOk(d) /\ Grown(d, st.m, st.openOk)
                /\ UpdateFragment(st, f, boundary) = [st EXCEPT !.m = d]
<1> DEFINE
      m == st.m
      m0 == IF f.video THEN [m EXCEPT !.videoSeen = TRUE] ELSE m
      m1 == IF m0.opened THEN Advance(m0, f.ts) ELSE m0
      forced == /\ m1.opened /\ DrivesFragmentTimeline(m1, f)
                /\ ShouldForceSplitByTimestamp(m1, f.ts)
      tooLong == m1.opened /\ CurrFrag(m1).duration >= MaxFragmentDuration
      m2 == IF forced THEN [m1 EXCEPT !.forceCutOnNextKey = FALSE,
                                      !.forceCutOnNextAudioBoundary = FALSE]
            ELSE IF ~tooLong THEN m1
            ELSE IF m1.videoSeen THEN [m1 EXCEPT !.forceCutOnNextKey = TRUE]
            ELSE [m1 EXCEPT !.forceCutOnNextAudioBoundary = TRUE]
      owed == m2.forceCutOnNextKey \/ m2.forceCutOnNextAudioBoundary
      due == ~m2.opened \/ owed \/ CurrFrag(m2).duration >= FragmentDuration
      cut == forced \/ (boundary /\ due)
      m3 == IF ~(cut /\ m2.opened) THEN m2
            ELSE [m2 EXCEPT !.forceCutOnNextKey = FALSE,
                            !.forceCutOnNextAudioBoundary = @ /\ m2.forceCutOnNextKey]
      discont == forced \/ owed \/ ~m2.opened
<1>1. UpdateFragment(st, f, boundary) =
        IF ~cut THEN [st EXCEPT !.m = m3]
        ELSE OpenFragment([st EXCEPT !.m = CloseFragment(m3, FALSE)], f.ts, discont)
  BY DEF UpdateFragment
<1>2. forced \in BOOLEAN /\ tooLong \in BOOLEAN /\ cut \in BOOLEAN /\ discont \in BOOLEAN
  OBVIOUS
<1> HIDE DEF forced, tooLong, owed, due, cut, discont, m3, m2, m1, m0, m
<1>3. m \in Muxer /\ MuxerOk(m)
  BY DEF State, m
<1>4. m0 \in Muxer /\ SameCore(m0, m)
  BY <1>3 DEF Muxer, SameCore, FileAt, m0
<1>5. MuxerOk(m0)
  BY <1>3, <1>4, CoreDecides
<1>6. m1 \in Muxer /\ SameCore(m1, m0)
  <2>1. SameCore(m0, m0)
    BY DEF SameCore
  <2>2. QED BY <1>4, <2>1, TimeAdvanced DEF m1
<1>7. MuxerOk(m1)
  BY <1>5, <1>6, CoreDecides
<1>8. m2 \in Muxer /\ SameCore(m2, m1)
  BY <1>2, <1>6 DEF Muxer, SameCore, FileAt, m2
<1>9. MuxerOk(m2)
  BY <1>7, <1>8, CoreDecides
<1>10. m3 \in Muxer /\ SameCore(m3, m2)
  BY <1>2, <1>8 DEF Muxer, SameCore, FileAt, m3
<1>11. MuxerOk(m3)
  BY <1>9, <1>10, CoreDecides
<1>12. m3.opened = m.opened /\ m3.content = m.content
  BY <1>4, <1>6, <1>8, <1>10 DEF SameCore
<1>13. CASE ~cut
  <2>1. Grown(m3, m, st.openOk)
    BY <1>12 DEF Grown
  <2>2. QED BY <1>1, <1>11, <1>13, <2>1 DEF m
<1>14. CASE cut
  <2>1. PICK x : x = CloseFragment(m3, FALSE)
    OBVIOUS
  <2>2. MuxerOk(x) /\ ~x.opened /\ x.content = m.content
    <3>1. CASE m3.opened
      BY <1>11, <1>12, <2>1, <3>1, Closing
    <3>2. CASE ~m3.opened
      BY <1>11, <1>12, <2>1, <3>2 DEF CloseFragment
    <3>3. QED BY <3>1, <3>2
  <2>3. PICK t : t = [st EXCEPT !.m = x]
    OBVIOUS
  <2>4. t.m = x /\ t.openOk = st.openOk /\ \A d : [t EXCEPT !.m = d] = [st EXCEPT !.m = d]
    BY <2>3 DEF State
  <2>5. CASE ~st.openOk
    <3>1. UpdateFragment(st, f, boundary) = t
      BY <1>1, <1>14, <2>1, <2>3, <2>4, <2>5 DEF OpenFragment
    <3>2. Grown(x, m, st.openOk)
      BY <2>2, <2>5 DEF Grown
    <3>3. QED BY <2>2, <2>3, <3>1, <3>2 DEF m
  <2>6. CASE st.openOk
    <3>1. PICK d : d = OpenedMuxer(x, f.ts, discont)
      OBVIOUS
    <3>2. MuxerOk(d) /\ d.opened /\ d.content = Append(m.content, <<>>)
      BY <1>2, <2>2, <3>1, Opening
    <3>3. OpenFragment(t, f.ts, discont) = [t EXCEPT !.m = d]
      BY <2>4, <2>6, <3>1 DEF OpenFragment, OpenedMuxer
    <3>4. Grown(d, m, st.openOk)
      BY <2>6, <3>2 DEF Grown
    <3>5. QED BY <1>1, <1>14, <2>1, <2>3, <2>4, <3>2, <3>3, <3>4 DEF m
  <2>7. QED BY <2>5, <2>6
<1>15. QED BY <1>13, <1>14

-----------------------------------------------------------------------------
(* What is in the files                                                     *)

\* The messages x and y of all are of the same track.
Same(all, x, y) == IsVideo(all[x].type) = IsVideo(all[y].type)

\* Some file of c has n.
InFiles(c, n) == \E i \in 1..Len(c) : \E j \in 1..Len(c[i]) : c[i][j] = n

\* The messages of a track are in the files in their order.
InOrder(c, all) ==
  \A i, k \in 1..Len(c) : \A j \in 1..Len(c[i]), l \in 1..Len(c[k]) :
     (i < k \/ (i = k /\ j < l)) /\ Same(all, c[i][j], c[k][l]) => c[i][j] < c[k][l]
\* The files have every message of X that follows one they have, on its track.
Complete(c, X, all) ==
  \A v, n \in X : InFiles(c, v) /\ Same(all, v, n) /\ v < n => InFiles(c, n)
\* The files hold messages of X only, in order and from the first of a track on all.
FilesGood(c, X, all) ==
  /\ \A i \in 1..Len(c) : \A j \in 1..Len(c[i]) : c[i][j] \in X
  /\ InOrder(c, all) /\ Complete(c, X, all)

\* data is in order, and newer than the messages of X of the same track.
Fresh(data, X, all) ==
  /\ \A i, j \in 1..Len(data) : i < j => data[i] < data[j]
  /\ \A i \in 1..Len(data), x \in X : Same(all, x, data[i]) => x < data[i]

\* No file is a fine beginning.
LEMMA GoodStart ==
  ASSUME NEW X, NEW all
  PROVE  FilesGood(<<>>, X, all)
BY DEF FilesGood, InOrder, Complete, InFiles

\* A new file holds nothing yet.
LEMMA GoodGrown ==
  ASSUME NEW c \in Seq(Seq(Nat)), NEW X, NEW all, FilesGood(c, X, all)
  PROVE  FilesGood(Append(c, <<>>), X, all)
<1>1. PICK L \in Nat : L = Len(c)
  OBVIOUS
<1>2. PICK d : d = Append(c, <<>>) /\ L = Len(c)
  BY <1>1
<1>3. Len(d) = L + 1 /\ (\A i \in 1..L : d[i] = c[i]) /\ d[L + 1] = <<>> /\ Len(d[L + 1]) = 0
  <2>1. <<>> \in Seq(Nat) /\ Len(<<>>) = 0
    OBVIOUS
  <2>2. Len(d) = L + 1 /\ (\A i \in 1..L : d[i] = c[i]) /\ d[L + 1] = <<>>
    BY <1>2, <2>1, AppendProperties
  <2>3. QED BY <2>1, <2>2
<1>4. \A i \in 1..Len(d) : \A j \in 1..Len(d[i]) : i \in 1..L /\ d[i] = c[i] /\ j \in 1..Len(c[i])
  <2>1. ASSUME NEW i \in 1..Len(d), NEW j \in 1..Len(d[i])
        PROVE  i \in 1..L /\ d[i] = c[i] /\ j \in 1..Len(c[i])
    <3>1. CASE i = L + 1
      BY <1>3, <3>1
    <3>2. CASE i # L + 1
      <4>1. i \in 1..L
        BY <1>3, <3>2
      <4>2. QED BY <1>3, <4>1
    <3>3. QED BY <3>1, <3>2
  <2>2. QED BY <2>1
<1>5. \A n : InFiles(c, n) <=> InFiles(d, n)
  <2>1. ASSUME NEW n, InFiles(c, n) PROVE InFiles(d, n)
    <3>1. PICK i \in 1..L : \E j \in 1..Len(c[i]) : c[i][j] = n
      BY <1>2, <2>1 DEF InFiles
    <3>2. i \in 1..Len(d) /\ d[i] = c[i]
      BY <1>3
    <3>3. QED BY <3>1, <3>2 DEF InFiles
  <2>2. ASSUME NEW n, InFiles(d, n) PROVE InFiles(c, n)
    BY <1>2, <1>4, <2>2 DEF InFiles
  <2>3. QED BY <2>1, <2>2
<1>6. \A i \in 1..Len(d) : \A j \in 1..Len(d[i]) : d[i][j] \in X
  BY <1>2, <1>4 DEF FilesGood
<1>7. InOrder(d, all)
  <2>1. ASSUME NEW i \in 1..Len(d), NEW k \in 1..Len(d), NEW j \in 1..Len(d[i]), NEW l \in 1..Len(d[k]),
               i < k \/ (i = k /\ j < l), Same(all, d[i][j], d[k][l])
        PROVE  d[i][j] < d[k][l]
    <3>1. /\ i \in 1..Len(c) /\ d[i] = c[i] /\ j \in 1..Len(c[i])
          /\ k \in 1..Len(c) /\ d[k] = c[k] /\ l \in 1..Len(c[k])
      BY <1>2, <1>4
    <3>2. QED BY <2>1, <3>1 DEF FilesGood, InOrder
  <2>2. QED BY <2>1 DEF InOrder
<1>8. Complete(d, X, all)
  BY <1>5 DEF FilesGood, Complete
<1>9. QED BY <1>2, <1>6, <1>7, <1>8 DEF FilesGood

\* A fresh frame is written to the last file.
LEMMA GoodWritten ==
  ASSUME NEW c \in Seq(Seq(Nat)), c # <<>>, NEW data \in Seq(Nat), NEW X \in SUBSET Nat, NEW all,
         FilesGood(c, X, all), Fresh(data, X, all)
  PROVE  FilesGood([c EXCEPT ![Len(c)] = @ \o data], X \cup Range(data), all)
<1>1. PICK L \in Nat : L = Len(c) /\ L # 0
  BY EmptySeq
<1>2. PICK e \in Seq(Nat) : e = c[L]
  BY <1>1
<1>3. PICK le \in Nat, ld \in Nat : le = Len(e) /\ ld = Len(data)
  OBVIOUS
<1>4. PICK d : /\ L = Len(c) /\ L # 0 /\ e = c[L] /\ le = Len(e) /\ ld = Len(data)
               /\ d = [c EXCEPT ![Len(c)] = @ \o data]
  BY <1>1, <1>2, <1>3
<1>5. PICK w : w = e \o data
  OBVIOUS
<1>6. /\ w \in Seq(Nat) /\ Len(w) = le + ld /\ (\A j \in 1..le : w[j] = e[j])
      /\ \A j \in 1..ld : w[le + j] = data[j]
  <2>1. w \in Seq(Nat) /\ Len(w) = le + ld
    BY <1>4, <1>5, ConcatProperties
  <2>2. \A j \in 1..(le + ld) : w[j] = IF j <= le THEN e[j] ELSE data[j - le]
    BY <1>4, <1>5, ConcatProperties
  <2>3. ASSUME NEW j \in 1..le PROVE w[j] = e[j]
    <3>1. j \in 1..(le + ld) /\ j <= le
      OBVIOUS
    <3>2. QED BY <2>2, <3>1
  <2>4. ASSUME NEW j \in 1..ld PROVE w[le + j] = data[j]
    <3>1. PICK x \in 1..(le + ld) : x = le + j /\ ~(x <= le) /\ x - le = j
      OBVIOUS
    <3>2. QED BY <2>2, <3>1
  <2>5. QED BY <2>1, <2>3, <2>4
<1>7. Len(d) = L /\ d[L] = w /\ \A i \in 1..L : i # L => d[i] = c[i]
  BY <1>4, <1>5
\* A place of d is one of c, or one of the frame's at the end.
<1> DEFINE Old(i, j) == i \in 1..Len(c) /\ j \in 1..Len(c[i]) /\ d[i][j] = c[i][j]
           New(i, j) == i = L /\ j > le /\ j - le \in 1..ld /\ d[i][j] = data[j - le]
<1>8. \A i \in 1..Len(d) : \A j \in 1..Len(d[i]) : Old(i, j) \/ New(i, j)
  <2>1. ASSUME NEW i \in 1..Len(d), NEW j \in 1..Len(d[i]) PROVE Old(i, j) \/ New(i, j)
    <3>1. CASE i # L
      <4>1. i \in 1..L /\ d[i] = c[i]
        BY <1>7, <3>1
      <4>2. QED BY <1>4, <4>1
    <3>2. CASE i = L /\ j <= le
      <4>1. j \in 1..le /\ L \in 1..Len(c)
        BY <1>4, <3>2
      <4>2. d[L][j] = c[L][j]
        BY <1>4, <1>6, <1>7, <4>1
      <4>3. QED BY <1>4, <3>2, <4>1, <4>2
    <3>3. CASE i = L /\ ~(j <= le)
      <4>1. j \in 1..(le + ld)
        BY <1>6, <1>7, <3>3
      <4>2. PICK x \in 1..ld : j = le + x /\ x = j - le
        BY <3>3, <4>1
      <4>3. w[j] = data[x]
        BY <1>6, <4>2
      <4>4. QED BY <1>7, <3>3, <4>2, <4>3
    <3>4. QED BY <3>1, <3>2, <3>3
  <2>2. QED BY <2>1
<1>9. ASSUME NEW i \in 1..Len(c), NEW j \in 1..Len(c[i]) PROVE i \in 1..Len(d) /\ j \in 1..Len(d[i]) /\ d[i][j] = c[i][j]
  <2>1. CASE i # L
    BY <1>4, <1>7, <2>1
  <2>2. CASE i = L
    <3>1. j \in 1..le /\ j \in 1..(le + ld)
      BY <1>4, <2>2
    <3>2. QED BY <1>4, <1>6, <1>7, <2>2, <3>1
  <2>3. QED BY <2>1, <2>2
<1>10. ASSUME NEW x \in 1..ld PROVE L \in 1..Len(d) /\ le + x \in 1..Len(d[L]) /\ d[L][le + x] = data[x]
  <2>1. L \in 1..Len(d) /\ le + x \in 1..(le + ld)
    BY <1>4, <1>7
  <2>2. w[le + x] = data[x] /\ Len(w) = le + ld
    BY <1>6
  <2>3. QED BY <1>7, <2>1, <2>2
<1>11. Range(data) = {data[x] : x \in 1..ld}
  <2>1. DOMAIN data = 1..ld
    BY <1>4
  <2>2. QED BY <2>1 DEF Range
<1> HIDE DEF Old, New
<1>12. \A i \in 1..Len(d) : \A j \in 1..Len(d[i]) : d[i][j] \in X \cup Range(data)
  <2>1. ASSUME NEW i \in 1..Len(d), NEW j \in 1..Len(d[i]) PROVE d[i][j] \in X \cup Range(data)
    <3>1. CASE Old(i, j)
      BY <3>1 DEF Old, FilesGood
    <3>2. CASE New(i, j)
      BY <1>11, <3>2 DEF New
    <3>3. QED BY <1>8, <3>1, <3>2
  <2>2. QED BY <2>1
<1>13. InOrder(d, all)
  <2>1. ASSUME NEW i \in 1..Len(d), NEW k \in 1..Len(d), NEW j \in 1..Len(d[i]), NEW l \in 1..Len(d[k]),
               i < k \/ (i = k /\ j < l), Same(all, d[i][j], d[k][l])
        PROVE  d[i][j] < d[k][l]
    <3>1. CASE Old(i, j) /\ Old(k, l)
      BY <2>1, <3>1 DEF FilesGood, InOrder, Old
    <3>2. CASE Old(i, j) /\ New(k, l)
      <4>1. d[i][j] \in X
        BY <3>2 DEF Old, FilesGood
      <4>2. QED BY <1>4, <2>1, <3>2, <4>1 DEF New, Fresh
    <3>3. CASE New(i, j) /\ Old(k, l)
      <4>1. i = L /\ j > le /\ k \in 1..L
        BY <1>4, <3>3 DEF New, Old
      <4>2. k = L /\ j < l
        BY <2>1, <4>1
      <4>3. l \in 1..le
        BY <1>4, <3>3, <4>2 DEF Old
      <4>4. QED BY <4>1, <4>2, <4>3
    <3>4. CASE New(i, j) /\ New(k, l)
      <4>1. PICK x \in 1..ld, y \in 1..ld : x = j - le /\ y = l - le /\ d[i][j] = data[x] /\ d[k][l] = data[y]
        BY <3>4 DEF New
      <4>2. j < l
        BY <2>1, <3>4 DEF New
      <4>3. x < y
        BY <4>1, <4>2
      <4>4. QED BY <1>4, <4>1, <4>3 DEF Fresh
    <3>5. QED BY <1>8, <3>1, <3>2, <3>3, <3>4
  <2>2. QED BY <2>1 DEF InOrder
<1>14. Complete(d, X \cup Range(data), all)
  <2>1. ASSUME NEW v \in X \cup Range(data), NEW n \in X \cup Range(data),
               InFiles(d, v), Same(all, v, n), v < n
        PROVE  InFiles(d, n)
    <3>1. CASE n \in Range(data)
      <4>1. PICK x \in 1..ld : n = data[x]
        BY <1>11, <3>1
      <4>2. QED BY <1>10, <4>1 DEF InFiles
    <3>2. CASE n \in X
      <4>1. PICK i \in 1..Len(d) : \E j \in 1..Len(d[i]) : d[i][j] = v
        BY <2>1 DEF InFiles
      <4>2. PICK j \in 1..Len(d[i]) : d[i][j] = v
        BY <4>1
      <4>3. CASE Old(i, j)
        <5>1. InFiles(c, v) /\ v \in X
          BY <4>2, <4>3 DEF Old, InFiles, FilesGood
        <5>2. InFiles(c, n)
          BY <2>1, <3>2, <5>1 DEF FilesGood, Complete
        <5>3. PICK a \in 1..Len(c) : \E b \in 1..Len(c[a]) : c[a][b] = n
          BY <5>2 DEF InFiles
        <5>4. QED BY <1>9, <5>3 DEF InFiles
      <4>4. CASE New(i, j)
        <5>1. PICK x \in 1..ld : v = data[x]
          BY <4>2, <4>4 DEF New
        <5>2. Same(all, n, data[x])
          BY <2>1, <5>1 DEF Same
        <5>3. n < v
          BY <1>4, <3>2, <5>1, <5>2 DEF Fresh
        <5>4. v \in Nat
          BY <1>4, <5>1, ElementOfSeq
        <5>5. FALSE
          BY <2>1, <5>3, <5>4
        <5>6. QED BY <5>5
      <4>5. QED BY <1>8, <4>3, <4>4
    <3>3. QED BY <2>1, <3>1, <3>2
  <2>2. QED BY <2>1 DEF Complete
<1>15. QED BY <1>4, <1>12, <1>13, <1>14 DEF FilesGood

\* What a sequence holds
LEMMA RangeIs ==
  ASSUME NEW p \in Seq(Nat)
  PROVE  Range(p) = {p[i] : i \in 1..Len(p)} /\ Range(p) \in SUBSET Nat
<1>1. DOMAIN p = 1..Len(p)
  OBVIOUS
<1>2. \A i \in 1..Len(p) : p[i] \in Nat
  BY ElementOfSeq
<1>3. QED BY <1>1, <1>2 DEF Range

\* What two sequences hold together
LEMMA RangeConcat ==
  ASSUME NEW p \in Seq(Nat), NEW q \in Seq(Nat)
  PROVE  p \o q \in Seq(Nat) /\ Range(p \o q) = Range(p) \cup Range(q)
<1>1. PICK x : x = p \o q
  OBVIOUS
<1>2. PICK lp \in Nat, lq \in Nat : lp = Len(p) /\ lq = Len(q)
  OBVIOUS
<1>3. x \in Seq(Nat) /\ Len(x) = lp + lq
  BY <1>1, <1>2, ConcatProperties
<1>4. \A j \in 1..(lp + lq) : x[j] = IF j <= lp THEN p[j] ELSE q[j - lp]
  BY <1>1, <1>2, ConcatProperties
<1>5. Range(x) = {x[i] : i \in 1..(lp + lq)} /\ Range(p) = {p[i] : i \in 1..lp} /\ Range(q) = {q[i] : i \in 1..lq}
  BY <1>2, <1>3, RangeIs
<1>6. ASSUME NEW i \in 1..(lp + lq) PROVE x[i] \in Range(p) \cup Range(q)
  <2>1. CASE i <= lp
    <3>1. i \in 1..lp
      BY <2>1
    <3>2. QED BY <1>4, <1>5, <2>1, <3>1
  <2>2. CASE ~(i <= lp)
    <3>1. i - lp \in 1..lq
      BY <2>2
    <3>2. QED BY <1>4, <1>5, <2>2, <3>1
  <2>3. QED BY <2>1, <2>2
<1>7. ASSUME NEW i \in 1..lp PROVE p[i] \in Range(x)
  <2>1. i \in 1..(lp + lq) /\ i <= lp
    OBVIOUS
  <2>2. QED BY <1>4, <1>5, <2>1
<1>8. ASSUME NEW i \in 1..lq PROVE q[i] \in Range(x)
  <2>1. PICK j \in 1..(lp + lq) : j = lp + i /\ ~(j <= lp) /\ j - lp = i
    OBVIOUS
  <2>2. x[j] = q[i]
    BY <1>4, <2>1
  <2>3. x[j] \in Range(x)
    BY <1>5
  <2>4. QED BY <2>2, <2>3
<1>9. Range(x) \subseteq Range(p) \cup Range(q)
  BY <1>5, <1>6
<1>10. Range(p) \subseteq Range(x)
  BY <1>5, <1>7
<1>11. Range(q) \subseteq Range(x)
  BY <1>5, <1>8
<1>12. Range(x) = Range(p) \cup Range(q)
  BY <1>9, <1>10, <1>11
<1>13. QED BY <1>1, <1>3, <1>12

-----------------------------------------------------------------------------
(* The remuxer feeds the muxer                                              *)

\* As long as files can be created (ok), one is open from the first on, and the files
\* hold what they should of the messages X.
Writing(st, X, all, ok) ==
  ok => st.openOk /\ (st.m.opened \/ st.m.content = <<>>) /\ FilesGood(st.m.content, X, all)

\* q has the fields of r that no frame changes.
Kept(q, r) ==
  /\ q.queue = r.queue /\ q.done = r.done /\ q.spspps = r.spspps /\ q.asc = r.asc
  /\ q.firstPts = r.firstPts
\* e comes from st by frames that were emitted or written.
Onward(e, st) ==
  /\ e \in State /\ MuxerOk(e.m) /\ Kept(e.r, st.r) /\ e.openOk = st.openOk /\ e.alive = st.alive

\* That happens again and again.
LEMMA OnwardAgain ==
  ASSUME NEW a, NEW b, NEW c, Onward(b, a), Onward(c, b)
  PROVE  Onward(c, a)
BY DEF Onward, Kept

\* A frame is emitted.
LEMMA Emitted ==
  ASSUME NEW st \in State, MuxerOk(st.m), NEW f \in Frame
  PROVE  LET e == Emit(st, f)
         IN  /\ Onward(e, st) /\ e.r.audioCache = st.r.audioCache /\ e.r.popped = st.r.popped \o f.data
             /\ Grown(e.m, st.m, st.openOk)
<1>1. PICK b \in BOOLEAN : b = Boundary(st.r, f)
  BY DEF Boundary, Frame, State, Remuxer
<1>2. st.r \in Remuxer /\ st.m \in Muxer
  BY DEF State
<1>3. PICK o \in BOOLEAN, p \in Seq(Nat) : o = (st.r.opened \/ b) /\ p = st.r.popped \o f.data
  <2>1. st.r.popped \in Seq(Nat) /\ f.data \in Seq(Nat)
    BY <1>2 DEF Remuxer, Frame
  <2>2. st.r.popped \o f.data \in Seq(Nat)
    BY <2>1, RangeConcat
  <2>3. QED BY <2>2
<1>4. PICK x \in Int, ts \in Int : x = Base(st.r, f) /\ ts = Do(st.r, f)
  <2>1. st.r.base \in [BOOLEAN -> Int] /\ f.video \in BOOLEAN /\ f.ts \in Int
    BY <1>2 DEF Remuxer, Frame
  <2>2. Base(st.r, f) \in Int
    BY <2>1 DEF Base
  <2>3. Do(st.r, f) \in Int
    BY <2>1, <2>2 DEF Do
  <2>4. QED BY <2>2, <2>3
<1>5. PICK q : q = Emitting(st.r, f)
  OBVIOUS
<1>6. q = [st.r EXCEPT !.base[f.video] = x, !.opened = o, !.popped = p]
  BY <1>1, <1>3, <1>4, <1>5 DEF Emitting
<1>7. /\ q \in Remuxer /\ Kept(q, st.r) /\ q.audioCache = st.r.audioCache /\ q.popped = p
      /\ q.openers = st.r.openers
  <2>1. st.r.base \in [BOOLEAN -> Int]
    BY <1>2 DEF Remuxer
  <2>2. PICK z : z = [st.r.base EXCEPT ![f.video] = x]
    OBVIOUS
  <2>3. z \in [BOOLEAN -> Int]
    BY <2>1, <2>2
  <2>4. q = [st.r EXCEPT !.base = z, !.opened = o, !.popped = p]
    BY <1>2, <1>6, <2>2 DEF Remuxer
  <2>5. QED BY <1>2, <2>3, <2>4 DEF Remuxer, Kept
<1>8. PICK t : t = [st EXCEPT !.r = q]
  OBVIOUS
<1>9. t \in State /\ t.r = q /\ t.m = st.m /\ t.openOk = st.openOk /\ t.alive = st.alive
  BY <1>7, <1>8 DEF State
<1>10. PICK g : g = [f EXCEPT !.ts = ts]
  OBVIOUS
<1>11. g.video \in BOOLEAN /\ g.ts \in Int
  BY <1>10 DEF Frame
<1>12. PICK d : MuxerOk(d) /\ Grown(d, t.m, t.openOk) /\ UpdateFragment(t, g, b) = [t EXCEPT !.m = d]
  BY <1>9, <1>11, Updated
<1>13. PICK u : u = [t EXCEPT !.m = d]
  OBVIOUS
<1>14. d \in Muxer
  BY <1>12 DEF MuxerOk
<1>15. u \in State /\ u.r = q /\ u.m = d /\ u.openOk = st.openOk /\ u.alive = st.alive
  BY <1>9, <1>13, <1>14 DEF State
<1>16. Emit(st, f) = NoteOpener(st, u, f)
  <2>1. [st EXCEPT !.r = Emitting(@, f)] = t
    BY <1>5, <1>8 DEF State
  <2>2. UpdateFragment(t, g, b) = u
    BY <1>12, <1>13
  <2>3. QED BY <1>1, <1>4, <1>10, <2>1, <2>2 DEF Emit
<1>17. PICK e : e = NoteOpener(st, u, f)
  OBVIOUS
<1>18. PICK w \in Remuxer : /\ e = [u EXCEPT !.r = w] /\ Kept(w, st.r)
                            /\ w.audioCache = st.r.audioCache /\ w.popped = p
  <2>1. CASE Len(u.m.content) > Len(st.m.content)
    <3>1. q.openers \in Seq(Frame)
      BY <1>7 DEF Remuxer
    <3>2. PICK a : a = Append(q.openers, f)
      OBVIOUS
    <3>3. a \in Seq(Frame)
      BY <3>1, <3>2
    <3>4. PICK w : w = [q EXCEPT !.openers = a]
      OBVIOUS
    <3>5. w \in Remuxer /\ Kept(w, st.r) /\ w.audioCache = st.r.audioCache /\ w.popped = p
      BY <1>7, <3>3, <3>4 DEF Remuxer, Kept
    <3>6. e = [u EXCEPT !.r = w]
      BY <1>7, <1>15, <1>17, <2>1, <3>2, <3>4 DEF NoteOpener, State, Remuxer
    <3>7. QED BY <3>5, <3>6
  <2>2. CASE ~(Len(u.m.content) > Len(st.m.content))
    <3>1. e = u
      BY <1>17, <2>2 DEF NoteOpener
    <3>2. u = [u EXCEPT !.r = q]
      BY <1>15 DEF State
    <3>3. QED BY <1>7, <3>1, <3>2
  <2>3. QED BY <2>1, <2>2
<1>19. e \in State /\ e.r = w /\ e.m = d /\ e.openOk = st.openOk /\ e.alive = st.alive
  BY <1>15, <1>18 DEF State
<1>20. QED BY <1>3, <1>9, <1>12, <1>16, <1>17, <1>18, <1>19 DEF Onward

\* That keeps what the files hold in order.
LEMMA StillWriting ==
  ASSUME NEW st \in State, NEW e, Onward(e, st), Grown(e.m, st.m, st.openOk),
         NEW X, NEW all, NEW ok \in BOOLEAN, Writing(st, X, all, ok)
  PROVE  Writing(e, X, all, ok)
<1>1. st.m.content \in Seq(Seq(Nat))
  BY DEF State, Muxer
<1>2. ASSUME ok PROVE e.openOk /\ (e.m.opened \/ e.m.content = <<>>) /\ FilesGood(e.m.content, X, all)
  <2>1. st.openOk /\ (st.m.opened \/ st.m.content = <<>>) /\ FilesGood(st.m.content, X, all)
    BY <1>2 DEF Writing
  <2>2. e.openOk
    BY <2>1 DEF Onward
  <2>3. CASE e.m.content = st.m.content /\ e.m.opened = st.m.opened
    BY <2>1, <2>2, <2>3
  <2>4. CASE e.m.opened /\ e.m.content = Append(st.m.content, <<>>)
    BY <1>1, <2>1, <2>2, <2>4, GoodGrown
  <2>5. QED BY <2>1, <2>3, <2>4 DEF Grown
<1>3. QED BY <1>2 DEF Writing

\* A frame is written.
LEMMA FrameWritten ==
  ASSUME NEW st \in State, MuxerOk(st.m), NEW f \in Frame, NEW X \in SUBSET Nat, NEW all, NEW ok \in BOOLEAN,
         Writing(st, X, all, ok), Fresh(f.data, X, all)
  PROVE  LET w == WriteFrame(st, f)
         IN  Onward(w, st) /\ w.r = st.r /\ Writing(w, X \cup Range(f.data), all, ok)
<1>1. PICK m \in Muxer, data \in Seq(Nat) : m = st.m /\ data = f.data
  BY DEF State, Frame
<1>2. PICK w : w = WriteFrame(st, f)
  OBVIOUS
<1>3. m.content \in Seq(Seq(Nat))
  BY DEF Muxer
<1>4. CASE ~m.opened
  <2>1. w = st
    BY <1>1, <1>2, <1>4 DEF WriteFrame
  <2>2. ok => m.content = <<>> /\ st.openOk
    BY <1>1, <1>4 DEF Writing
  <2>3. FilesGood(<<>>, X \cup Range(f.data), all)
    BY GoodStart
  <2>4. Writing(w, X \cup Range(f.data), all, ok)
    BY <1>1, <2>1, <2>2, <2>3 DEF Writing
  <2>5. QED BY <1>2, <2>1, <2>4 DEF Onward, Kept
<1>5. CASE m.opened
  <2>1. PICK a \in Nat, b \in Nat, L \in Nat :
          a = m.frag /\ b = m.nfrags /\ L = a + b + 1 /\ L = Len(m.content) /\ RingHolds(m, L)
    <3>1. m.frag \in Nat /\ m.nfrags \in Nat
      BY DEF Muxer
    <3>2. Len(m.content) = m.frag + m.nfrags + 1 /\ RingHolds(m, Len(m.content))
      BY <1>1, <1>5 DEF MuxerOk, ClosedNum
    <3>3. QED BY <3>1, <3>2
  <2>2. CurrFrag(m).file = L
    <3>1. m.frag + b + 1 <= L /\ L < m.frag + b + 1 + FragsCapacity
      BY <2>1, Capacity
    <3>2. GetFrag(m, b).file = m.frag + b + 1
      BY <2>1, <3>1, RingFile
    <3>3. QED BY <2>1, <3>2 DEF CurrFrag
  <2>3. PICK c : c = [m.content EXCEPT ![L] = @ \o data]
    OBVIOUS
  <2>4. c \in Seq(Seq(Nat)) /\ Len(c) = L
    <3>1. m.content[L] \in Seq(Nat)
      BY <1>3, <2>1
    <3>2. m.content[L] \o data \in Seq(Nat)
      BY <3>1, RangeConcat
    <3>3. QED BY <1>3, <2>1, <2>3, <3>2
  <2>5. PICK d : d = [m EXCEPT !.content = c]
    OBVIOUS
  <2>6. /\ d \in Muxer /\ d.content = c /\ d.opened = m.opened /\ d.frag = m.frag /\ d.nfrags = m.nfrags
        /\ d.disk = m.disk /\ d.playlists = m.playlists /\ d.frags = m.frags
    BY <2>4, <2>5 DEF Muxer
  <2>7. w = [st EXCEPT !.m = d]
    BY <1>1, <1>2, <1>5, <2>2, <2>3, <2>5 DEF WriteFrame, State, Muxer
  <2>8. w \in State /\ w.r = st.r /\ w.m = d /\ w.openOk = st.openOk /\ w.alive = st.alive
    BY <2>6, <2>7 DEF State
  <2>9. MuxerOk(d)
    <3>1. ClosedNum(d) = ClosedNum(m)
      BY <2>6 DEF ClosedNum
    <3>2. \A p \in 0..(FragsCapacity - 1) : FileAt(d, p) = FileAt(m, p)
      BY <2>6 DEF FileAt
    <3>3. RingHolds(d, L)
      BY <2>1, <3>2, SameRing
    <3>4. QED BY <1>1, <2>1, <2>4, <2>6, <3>1, <3>3 DEF MuxerOk
  <2>10. Writing(w, X \cup Range(f.data), all, ok)
    <3>1. ASSUME ok PROVE FilesGood(c, X \cup Range(data), all) /\ st.openOk
      <4>1. FilesGood(m.content, X, all) /\ st.openOk
        BY <1>1, <3>1 DEF Writing
      <4>2. m.content # <<>>
        BY <2>1
      <4>3. c = [m.content EXCEPT ![Len(m.content)] = @ \o data]
        BY <2>1, <2>3
      <4>4. Fresh(data, X, all)
        BY <1>1
      <4>5. FilesGood([m.content EXCEPT ![Len(m.content)] = @ \o data], X \cup Range(data), all)
        BY <1>3, <4>1, <4>2, <4>4, GoodWritten
      <4>6. QED BY <4>1, <4>3, <4>5
    <3>2. QED BY <1>1, <1>5, <2>6, <2>8, <3>1 DEF Writing
  <2>11. QED BY <1>2, <2>8, <2>9, <2>10 DEF Onward, Kept
<1>6. QED BY <1>4, <1>5

\* The audio collected so far, as a frame
LEMMA AudioFrameIs ==
  ASSUME NEW st \in State
  PROVE  AudioFrame(st) \in Frame /\ AudioFrame(st).data = st.r.audioCache
BY DEF AudioFrame, Frame, State, Remuxer

\* The remuxer after its cache was emptied
LEMMA Emptied ==
  ASSUME NEW st \in State, MuxerOk(st.m)
  PROVE  LET t == [st EXCEPT !.r.audioCache = <<>>]
         IN  Onward(t, st) /\ t.m = st.m /\ t.r.audioCache = <<>> /\ t.r.popped = st.r.popped
<1>1. st.r \in Remuxer /\ <<>> \in Seq(Nat)
  BY DEF State
<1>2. PICK q : q = [st.r EXCEPT !.audioCache = <<>>]
  OBVIOUS
<1>3. q \in Remuxer /\ Kept(q, st.r) /\ q.audioCache = <<>> /\ q.popped = st.r.popped
  BY <1>1, <1>2 DEF Remuxer, Kept
<1>4. PICK t : t = [st EXCEPT !.r = q]
  OBVIOUS
<1>5. t \in State /\ t.r = q /\ t.m = st.m /\ t.openOk = st.openOk /\ t.alive = st.alive
  BY <1>3, <1>4 DEF State
<1>6. t = [st EXCEPT !.r.audioCache = <<>>]
  BY <1>1, <1>2, <1>4 DEF State
<1>7. QED BY <1>3, <1>5, <1>6 DEF Onward

\* Nothing in nothing
LEMMA RangeNone == Range(<<>>) = {}
<1>1. DOMAIN <<>> = {}
  OBVIOUS
<1>2. \A x : x \notin Range(<<>>)
  BY <1>1 DEF Range
<1>3. QED BY <1>2

\* The collected audio enters the fragment that was just opened.
LEMMA FlushedInside ==
  ASSUME NEW st \in State, MuxerOk(st.m), NEW X \in SUBSET Nat, NEW all, NEW ok \in BOOLEAN,
         Writing(st, X, all, ok), Fresh(st.r.audioCache, X, all)
  PROVE  LET e == FlushAudioInside(st)
         IN  /\ Onward(e, st) /\ e.r.audioCache = <<>> /\ e.r.popped = st.r.popped \o st.r.audioCache
             /\ Writing(e, X \cup Range(st.r.audioCache), all, ok)
<1>1. st.r.audioCache \in Seq(Nat) /\ st.r.popped \in Seq(Nat)
  BY DEF State, Remuxer
<1>2. CASE st.r.audioCache = <<>>
  <2>1. FlushAudioInside(st) = st
    BY <1>2 DEF FlushAudioInside
  <2>2. st.r.popped \o st.r.audioCache = st.r.popped
    BY <1>1, <1>2, ConcatEmptySeq
  <2>3. X \cup Range(st.r.audioCache) = X
    BY <1>2, RangeNone
  <2>4. Onward(st, st)
    BY DEF Onward, Kept
  <2>5. QED BY <1>2, <2>1, <2>2, <2>3, <2>4
<1>3. CASE st.r.audioCache # <<>>
  <2>1. PICK f \in Frame : f = AudioFrame(st) /\ f.data = st.r.audioCache
    BY AudioFrameIs
  <2>2. PICK t : t = [st EXCEPT !.r.audioCache = <<>>]
    OBVIOUS
  <2>3. Onward(t, st) /\ t.m = st.m /\ t.r.audioCache = <<>> /\ t.r.popped = st.r.popped
    BY <2>2, Emptied
  <2>4. t \in State /\ MuxerOk(t.m) /\ Writing(t, X, all, ok)
    BY <2>3 DEF Onward, Writing
  <2>5. PICK e : e = Emit(t, f)
    OBVIOUS
  <2>6. Onward(e, t) /\ e.r.audioCache = t.r.audioCache /\ e.r.popped = t.r.popped \o f.data /\ Grown(e.m, t.m, t.openOk)
    BY <2>4, <2>5, Emitted
  <2>7. e \in State /\ MuxerOk(e.m) /\ Writing(e, X, all, ok)
    <3>1. Writing(e, X, all, ok)
      BY <2>4, <2>6, StillWriting
    <3>2. QED BY <2>6, <3>1 DEF Onward
  <2>8. PICK w : w = WriteFrame(e, f)
    OBVIOUS
  <2>9. Fresh(f.data, X, all)
    BY <2>1
  <2>10. Onward(w, e) /\ w.r = e.r /\ Writing(w, X \cup Range(f.data), all, ok)
    BY <2>7, <2>8, <2>9, FrameWritten
  <2>11. w = FlushAudioInside(st)
    BY <1>3, <2>1, <2>2, <2>5, <2>8 DEF FlushAudioInside
  <2>12. Onward(w, st)
    BY <2>3, <2>6, <2>10, OnwardAgain
  <2>13. QED BY <2>1, <2>3, <2>6, <2>10, <2>11, <2>12
<1>4. QED BY <1>2, <1>3

\* What a frame f that passes through the muxer does
Passed(o, st, f, all, ok) ==
  /\ Onward(o, st) /\ Writing(o, Range(o.r.popped), all, ok)
  /\ \/ /\ o.r.audioCache = st.r.audioCache
        /\ Range(o.r.popped) = Range(st.r.popped) \cup Range(f.data)
     \/ /\ o.r.audioCache = <<>>
        /\ Range(o.r.popped) = Range(st.r.popped) \cup Range(f.data) \cup Range(st.r.audioCache)

\* A frame passes through the muxer, and with it the audio collected so far when it
\* opens a fragment.
LEMMA Framed ==
  ASSUME NEW st \in State, MuxerOk(st.m), NEW f \in Frame, NEW all, NEW ok \in BOOLEAN,
         Writing(st, Range(st.r.popped), all, ok),
         Fresh(st.r.audioCache, Range(st.r.popped), all),
         Fresh(f.data, Range(st.r.popped) \cup Range(st.r.audioCache), all)
  PROVE  Passed(OnFrame(st, f), st, f, all, ok)
<1>1. PICK p \in Seq(Nat), a \in Seq(Nat), data \in Seq(Nat) :
        p = st.r.popped /\ a = st.r.audioCache /\ data = f.data
  BY DEF State, Remuxer, Frame
<1>2. Range(p) \in SUBSET Nat /\ Range(a) \in SUBSET Nat
  BY RangeIs
<1>3. PICK e : e = Emit(st, f)
  OBVIOUS
<1>4. Onward(e, st) /\ e.r.audioCache = a /\ e.r.popped = p \o data /\ Grown(e.m, st.m, st.openOk)
  BY <1>1, <1>3, Emitted
<1>5. e \in State /\ MuxerOk(e.m)
  BY <1>4 DEF Onward
<1>6. Writing(e, Range(p), all, ok)
  BY <1>1, <1>4, StillWriting
<1>7. p \o data \in Seq(Nat) /\ Range(p \o data) = Range(p) \cup Range(data)
  BY RangeConcat
<1>8. CASE Len(e.m.content) > Len(st.m.content)
  <2>1. PICK g : g = FlushAudioInside(e)
    OBVIOUS
  <2>2. Fresh(e.r.audioCache, Range(p), all)
    BY <1>1, <1>4
  <2>3. Onward(g, e) /\ g.r.audioCache = <<>> /\ g.r.popped = e.r.popped \o e.r.audioCache
        /\ Writing(g, Range(p) \cup Range(e.r.audioCache), all, ok)
    BY <1>2, <1>5, <1>6, <2>1, <2>2, FlushedInside
  <2>4. g \in State /\ MuxerOk(g.m)
    BY <2>3 DEF Onward
  <2>5. PICK X \in SUBSET Nat : X = Range(p) \cup Range(a)
    BY <1>2
  <2>6. Writing(g, X, all, ok) /\ Fresh(f.data, X, all)
    BY <1>1, <1>4, <2>3, <2>5
  <2>7. PICK w : w = WriteFrame(g, f)
    OBVIOUS
  <2>8. Onward(w, g) /\ w.r = g.r /\ Writing(w, X \cup Range(f.data), all, ok)
    BY <2>4, <2>6, <2>7, FrameWritten
  <2>9. w = OnFrame(st, f)
    BY <1>3, <1>8, <2>1, <2>7 DEF OnFrame
  <2>10. Onward(w, st)
    BY <1>4, <2>3, <2>8, OnwardAgain
  <2>11. Range(w.r.popped) = Range(p) \cup Range(data) \cup Range(a)
    <3>1. w.r.popped = (p \o data) \o a
      BY <1>4, <2>3, <2>8
    <3>2. QED BY <1>7, <3>1, RangeConcat
  <2>12. X \cup Range(f.data) = Range(w.r.popped)
    BY <1>1, <2>5, <2>11
  <2>13. Writing(w, Range(w.r.popped), all, ok)
    BY <2>8, <2>12
  <2>14. w.r.audioCache = <<>>
    BY <2>3, <2>8
  <2>15. QED BY <1>1, <2>9, <2>10, <2>11, <2>13, <2>14 DEF Passed
<1>9. CASE ~(Len(e.m.content) > Len(st.m.content))
  <2>1. PICK w : w = WriteFrame(e, f)
    OBVIOUS
  <2>2. Fresh(f.data, Range(p), all)
    BY <1>1 DEF Fresh
  <2>3. Onward(w, e) /\ w.r = e.r /\ Writing(w, Range(p) \cup Range(f.data), all, ok)
    BY <1>2, <1>5, <1>6, <2>1, <2>2, FrameWritten
  <2>4. w = OnFrame(st, f)
    BY <1>3, <1>9, <2>1 DEF OnFrame
  <2>5. Onward(w, st)
    BY <1>4, <2>3, OnwardAgain
  <2>6. Range(w.r.popped) = Range(p) \cup Range(data)
    BY <1>4, <1>7, <2>3
  <2>7. Writing(w, Range(w.r.popped), all, ok)
    BY <1>1, <2>3, <2>6
  <2>8. w.r.audioCache = st.r.audioCache
    BY <1>1, <1>4, <2>3
  <2>9. QED BY <1>1, <2>4, <2>5, <2>6, <2>7, <2>8 DEF Passed
<1>10. QED BY <1>8, <1>9

\* The remuxer has gone through the first n messages: what it emitted and what it
\* still collects is among them, and the latter is audio that comes after the former.
Heard(r, n, all) ==
  /\ \A x \in Range(r.popped) \cup Range(r.audioCache) : x \in 1..n
  /\ \A x \in Range(r.audioCache) : ~IsVideo(all[x].type)
  /\ Fresh(r.audioCache, Range(r.popped), all)

\* Remuxer and muxer between two messages
Ready(st, n, all, ok) ==
  /\ st \in State /\ MuxerOk(st.m) /\ Heard(st.r, n, all) /\ Writing(st, Range(st.r.popped), all, ok)

\* What stays as it is while a message is processed
Control(e, st) ==
  e.r.done = st.r.done /\ e.r.queue = st.r.queue /\ e.openOk = st.openOk /\ e.alive = st.alive

\* Control stays as it is when frames are emitted and written.
LEMMA OnwardControl ==
  ASSUME NEW e, NEW st, Onward(e, st)
  PROVE  Control(e, st)
BY DEF Onward, Kept, Control

\* Nothing is always fresh.
LEMMA FreshNone ==
  ASSUME NEW X, NEW all
  PROVE  Fresh(<<>>, X, all)
BY DEF Fresh

\* The collected audio is emitted.
LEMMA FlushedAudio ==
  ASSUME NEW st, NEW n \in Nat, NEW all, NEW ok \in BOOLEAN, Ready(st, n, all, ok)
  PROVE  LET e == FlushAudio(st)
         IN  Ready(e, n, all, ok) /\ Onward(e, st) /\ e.r.audioCache = <<>>
<1>1. st \in State /\ MuxerOk(st.m) /\ Heard(st.r, n, all) /\ Writing(st, Range(st.r.popped), all, ok)
  BY DEF Ready
<1>2. CASE st.r.audioCache = <<>>
  <2>1. FlushAudio(st) = st
    BY <1>2 DEF FlushAudio
  <2>2. Onward(st, st)
    BY <1>1 DEF Onward, Kept
  <2>3. QED BY <1>2, <2>1, <2>2
<1>3. CASE st.r.audioCache # <<>>
  <2>1. PICK f \in Frame : f = AudioFrame(st) /\ f.data = st.r.audioCache
    BY <1>1, AudioFrameIs
  <2>2. PICK t : t = [st EXCEPT !.r.audioCache = <<>>]
    OBVIOUS
  <2>3. Onward(t, st) /\ t.m = st.m /\ t.r.audioCache = <<>> /\ t.r.popped = st.r.popped
    BY <1>1, <2>2, Emptied
  <2>4. t \in State /\ MuxerOk(t.m) /\ Writing(t, Range(t.r.popped), all, ok)
    BY <1>1, <2>3 DEF Onward, Writing
  <2>5. Range(t.r.audioCache) = {} /\ Fresh(t.r.audioCache, Range(t.r.popped), all)
    BY <2>3, RangeNone, FreshNone
  <2>6. Fresh(f.data, Range(t.r.popped) \cup Range(t.r.audioCache), all)
    <3>1. Fresh(st.r.audioCache, Range(st.r.popped), all)
      BY <1>1 DEF Heard
    <3>2. Range(t.r.popped) \cup Range(t.r.audioCache) = Range(st.r.popped)
      BY <2>3, <2>5
    <3>3. QED BY <2>1, <3>1, <3>2
  <2>7. PICK o : o = OnFrame(t, f)
    OBVIOUS
  <2>8. Passed(o, t, f, all, ok)
    BY <2>4, <2>5, <2>6, <2>7, Framed
  <2>9. o.r.audioCache = <<>> /\ Range(o.r.popped) = Range(st.r.popped) \cup Range(st.r.audioCache)
    <3>1. PICK A, B, C : A = Range(t.r.popped) /\ B = Range(f.data) /\ C = Range(t.r.audioCache)
      OBVIOUS
    <3>2. C = {} /\ A = Range(st.r.popped) /\ B = Range(st.r.audioCache)
      BY <2>1, <2>3, <2>5, <3>1
    <3>3. Range(o.r.popped) = A \cup B \/ Range(o.r.popped) = A \cup B \cup C
      BY <2>8, <3>1 DEF Passed
    <3>4. Range(o.r.popped) = A \cup B
      BY <3>2, <3>3
    <3>5. QED BY <2>3, <2>8, <3>2, <3>4 DEF Passed
  <2>10. Heard(o.r, n, all)
    <3>1. Range(o.r.audioCache) = {} /\ Fresh(o.r.audioCache, Range(o.r.popped), all)
      BY <2>9, RangeNone, FreshNone
    <3>2. QED BY <1>1, <2>9, <3>1 DEF Heard
  <2>11. o = FlushAudio(st)
    BY <1>3, <2>1, <2>2, <2>7 DEF FlushAudio
  <2>12. Onward(o, st)
    BY <2>3, <2>8, OnwardAgain DEF Passed
  <2>13. Ready(o, n, all, ok)
    BY <2>8, <2>10, <2>12 DEF Ready, Onward, Passed
  <2>14. QED BY <2>9, <2>11, <2>12, <2>13
<1>4. QED BY <1>2, <1>3

\* Audio that waited long enough is emitted.
LEMMA FlushedIfOlder ==
  ASSUME NEW st, NEW n \in Nat, NEW all, NEW ok \in BOOLEAN, Ready(st, n, all, ok), NEW delay, NEW ts
  PROVE  LET e == FlushIfOlder(st, delay, ts)
         IN  Ready(e, n, all, ok) /\ Onward(e, st)
<1>1. Onward(st, st)
  BY DEF Ready, Onward, Kept
<1>2. FlushIfOlder(st, delay, ts) = st \/ FlushIfOlder(st, delay, ts) = FlushAudio(st)
  BY DEF FlushIfOlder
<1>3. QED BY <1>1, <1>2, FlushedAudio

\* The next message is not part of what was emitted or collected.
LEMMA ReadyLater ==
  ASSUME NEW st, NEW k \in Nat, NEW n \in Nat, k <= n, NEW all, NEW ok \in BOOLEAN, Ready(st, k, all, ok)
  PROVE  Ready(st, n, all, ok)
<1>1. \A x : x \in 1..k => x \in 1..n
  OBVIOUS
<1>2. QED BY <1>1 DEF Ready, Heard

\* The remuxer changes, but neither what it emitted nor what it collected.
LEMMA RemuxerChanged ==
  ASSUME NEW st, NEW n \in Nat, NEW all, NEW ok \in BOOLEAN, Ready(st, n, all, ok),
         NEW q \in Remuxer, q.popped = st.r.popped, q.audioCache = st.r.audioCache,
         q.done = st.r.done, q.queue = st.r.queue
  PROVE  LET t == [st EXCEPT !.r = q]
         IN  Ready(t, n, all, ok) /\ Control(t, st)
<1>1. PICK t : t = [st EXCEPT !.r = q]
  OBVIOUS
<1>2. st \in State
  BY DEF Ready
<1>3. t \in State /\ t.r = q /\ t.m = st.m /\ t.openOk = st.openOk /\ t.alive = st.alive
  BY <1>1, <1>2 DEF State
<1>4. Heard(q, n, all)
  BY DEF Ready, Heard
<1>5. Writing(t, Range(t.r.popped), all, ok)
  BY <1>3 DEF Ready, Writing
<1>6. Ready(t, n, all, ok)
  BY <1>3, <1>4, <1>5 DEF Ready
<1>7. QED BY <1>1, <1>3, <1>6 DEF Control

\* One message
LEMMA RangeOne ==
  ASSUME NEW n \in Nat
  PROVE  <<n>> \in Seq(Nat) /\ Range(<<n>>) = {n} /\ \A i \in 1..Len(<<n>>) : i = 1 /\ <<n>>[i] = n
<1>1. <<n>> \in Seq(Nat) /\ Len(<<n>>) = 1 /\ <<n>>[1] = n
  OBVIOUS
<1>2. \A i \in 1..Len(<<n>>) : i = 1
  BY <1>1
<1>3. DOMAIN <<n>> = {1}
  BY <1>1
<1>4. Range(<<n>>) = {n}
  BY <1>1, <1>3 DEF Range
<1>5. QED BY <1>1, <1>2, <1>4

\* A video message is processed.
LEMMA FedVideo ==
  ASSUME NEW st, NEW k \in Nat, NEW n \in Nat, n = k + 1, NEW all, NEW ok \in BOOLEAN, Ready(st, k, all, ok),
         NEW msg, msg = all[n], msg.ts \in Int, IsVideo(msg.type)
  PROVE  LET o == FeedVideo(st, n, msg)
         IN  Ready(o, n, all, ok) /\ Control(o, st)
<1>1. st \in State /\ st.r \in Remuxer
  BY DEF Ready, State
<1>2. Ready(st, n, all, ok) /\ Control(st, st)
  <2>1. k <= n
    OBVIOUS
  <2>2. Ready(st, n, all, ok)
    BY <2>1, ReadyLater
  <2>3. QED BY <2>2 DEF Control
<1>3. CASE msg.type = "vsh"
  <2>1. PICK q : q = [st.r EXCEPT !.spspps = TRUE]
    OBVIOUS
  <2>2. /\ q \in Remuxer /\ q.popped = st.r.popped /\ q.audioCache = st.r.audioCache
        /\ q.done = st.r.done /\ q.queue = st.r.queue
    BY <1>1, <2>1 DEF Remuxer
  <2>3. FeedVideo(st, n, msg) = [st EXCEPT !.r = q]
    BY <1>1, <1>3, <2>1 DEF FeedVideo, State
  <2>4. QED BY <1>2, <2>2, <2>3, RemuxerChanged
<1>4. CASE msg.type # "vsh" /\ msg.type = "key" /\ ~st.r.spspps
  BY <1>2, <1>4 DEF FeedVideo
<1>5. CASE msg.type # "vsh" /\ ~(msg.type = "key" /\ ~st.r.spspps)
  <2>1. PICK g : g = FlushIfOlder(st, DelayByVideo, msg.ts)
    OBVIOUS
  <2>2. Ready(g, k, all, ok) /\ Onward(g, st)
    BY <2>1, FlushedIfOlder
  <2>3. /\ g \in State /\ MuxerOk(g.m) /\ Writing(g, Range(g.r.popped), all, ok) /\ Heard(g.r, k, all)
        /\ Fresh(g.r.audioCache, Range(g.r.popped), all)
    BY <2>2 DEF Ready, Heard
  <2>4. PICK f : f = [video |-> TRUE, key |-> msg.type = "key", ts |-> msg.ts, data |-> <<n>>]
    OBVIOUS
  <2>5. f \in Frame /\ f.data = <<n>>
    BY <2>4, RangeOne DEF Frame
  <2>6. PICK A, B : A = Range(g.r.popped) /\ B = Range(g.r.audioCache)
    OBVIOUS
  <2>7. (\A x \in A \cup B : x \in 1..k) /\ (\A x \in A \cup B : x < n)
    <3>1. \A x \in A \cup B : x \in 1..k
      BY <2>3, <2>6 DEF Heard
    <3>2. \A x \in 1..k : x < n
      OBVIOUS
    <3>3. QED BY <3>1, <3>2
  <2>8. Fresh(f.data, A \cup B, all)
    <3>1. Fresh(<<n>>, A \cup B, all)
      BY <2>7, RangeOne DEF Fresh
    <3>2. QED BY <2>5, <3>1
  <2>9. PICK o : o = OnFrame(g, f)
    OBVIOUS
  <2>10. Passed(o, g, f, all, ok)
    BY <2>3, <2>5, <2>6, <2>8, <2>9, Framed
  <2>11. o = FeedVideo(st, n, msg)
    BY <1>5, <2>1, <2>4, <2>9 DEF FeedVideo
  <2>12. Heard(o.r, n, all)
    <3>1. Range(f.data) = {n}
      BY <2>5, RangeOne
    <3>2. \A x \in A \cup B \cup {n} : x \in 1..n
      BY <2>7
    <3>3. CASE o.r.audioCache = g.r.audioCache /\ Range(o.r.popped) = A \cup {n}
      <4>1. Fresh(g.r.audioCache, A \cup {n}, all)
        <5>1. Fresh(g.r.audioCache, A, all)
          BY <2>3, <2>6
        <5>2. \A x \in B : ~Same(all, n, x)
          BY <2>3, <2>6 DEF Heard, Same
        <5>3. g.r.audioCache \in Seq(Nat)
          BY <2>3 DEF State, Remuxer
        <5>4. \A i \in 1..Len(g.r.audioCache) : g.r.audioCache[i] \in B
          BY <2>6, <5>3, RangeIs
        <5>5. QED BY <5>1, <5>2, <5>4 DEF Fresh
      <4>2. \A x \in B : ~IsVideo(all[x].type)
        BY <2>3, <2>6 DEF Heard
      <4>3. QED BY <2>6, <3>2, <3>3, <4>1, <4>2 DEF Heard
    <3>4. CASE o.r.audioCache = <<>> /\ Range(o.r.popped) = A \cup {n} \cup B
      <4>1. Range(o.r.audioCache) = {} /\ Fresh(o.r.audioCache, Range(o.r.popped), all)
        BY <3>4, RangeNone, FreshNone
      <4>2. QED BY <3>2, <3>4, <4>1 DEF Heard
    <3>5. QED BY <2>6, <2>10, <3>1, <3>3, <3>4 DEF Passed
  <2>13. Onward(o, st)
    BY <2>2, <2>10, OnwardAgain DEF Passed
  <2>14. Ready(o, n, all, ok)
    BY <2>10, <2>12, <2>13 DEF Ready, Onward, Passed
  <2>15. QED BY <2>11, <2>13, <2>14, OnwardControl
<1>6. QED BY <1>3, <1>4, <1>5

\* The remuxer with a message more among the collected ones
WithAudio(st, n, pts) == [st EXCEPT !.r.firstPts = pts, !.r.audioCache = Append(@, n)]

\* An audio message is added to the collected ones.
LEMMA Collected ==
  ASSUME NEW st, NEW k \in Nat, NEW n \in Nat, n = k + 1, NEW all, NEW ok \in BOOLEAN, Ready(st, k, all, ok),
         ~IsVideo(all[n].type), NEW pts \in Int
  PROVE  LET t == WithAudio(st, n, pts)
         IN  Ready(t, n, all, ok) /\ Control(t, st)
<1>1. /\ st \in State /\ st.r \in Remuxer /\ MuxerOk(st.m) /\ Heard(st.r, k, all)
      /\ Writing(st, Range(st.r.popped), all, ok)
  BY DEF Ready, State
<1>2. PICK a \in Seq(Nat) : a = st.r.audioCache
  BY <1>1 DEF Remuxer
<1>3. PICK L \in Nat : L = Len(a)
  OBVIOUS
<1>4. PICK b : b = Append(a, n)
  OBVIOUS
<1>5. b \in Seq(Nat) /\ Len(b) = L + 1 /\ (\A i \in 1..L : b[i] = a[i]) /\ b[L + 1] = n
  BY <1>3, <1>4, AppendProperties
<1>6. PICK A, B : A = Range(st.r.popped) /\ B = Range(a)
  OBVIOUS
<1>7. (\A x \in A \cup B : x \in 1..k /\ x < n) /\ (\A x \in B : ~IsVideo(all[x].type)) /\ Fresh(a, A, all)
  <2>1. (\A x \in A \cup B : x \in 1..k) /\ (\A x \in B : ~IsVideo(all[x].type)) /\ Fresh(a, A, all)
    BY <1>1, <1>2, <1>6 DEF Heard
  <2>2. \A x \in 1..k : x < n
    OBVIOUS
  <2>3. QED BY <2>1, <2>2
<1>8. \A i \in 1..L : a[i] \in B
  BY <1>3, <1>6, RangeIs
<1>9. \A i \in 1..(L + 1) : i \in 1..L \/ i = L + 1
  OBVIOUS
<1>10. \A x \in Range(b) : x \in B \/ x = n
  <2>1. Range(b) = {b[i] : i \in 1..(L + 1)}
    BY <1>5, RangeIs
  <2>2. \A i \in 1..(L + 1) : b[i] \in B \/ b[i] = n
    BY <1>5, <1>8, <1>9
  <2>3. QED BY <2>1, <2>2
<1>11. Fresh(b, A, all)
  <2>1. ASSUME NEW i \in 1..(L + 1), NEW j \in 1..(L + 1), i < j PROVE b[i] < b[j]
    <3>1. i \in 1..L
      BY <2>1
    <3>2. CASE j = L + 1
      <4>1. b[i] = a[i] /\ a[i] < n
        BY <1>5, <1>7, <1>8, <3>1
      <4>2. QED BY <1>5, <3>2, <4>1
    <3>3. CASE j \in 1..L
      <4>1. a[i] < a[j]
        BY <1>3, <1>7, <2>1, <3>1, <3>3 DEF Fresh
      <4>2. QED BY <1>5, <3>1, <3>3, <4>1
    <3>4. QED BY <1>9, <3>2, <3>3
  <2>2. ASSUME NEW i \in 1..(L + 1), NEW x \in A, Same(all, x, b[i]) PROVE x < b[i]
    <3>1. CASE i = L + 1
      BY <1>5, <1>7, <3>1
    <3>2. CASE i \in 1..L
      <4>1. b[i] = a[i]
        BY <1>5, <3>2
      <4>2. Same(all, x, a[i])
        BY <2>2, <4>1
      <4>3. x < a[i]
        BY <1>3, <1>7, <3>2, <4>2 DEF Fresh
      <4>4. QED BY <4>1, <4>3
    <3>3. QED BY <1>9, <3>1, <3>2
  <2>3. QED BY <1>5, <2>1, <2>2 DEF Fresh
<1>12. PICK q : q = [st.r EXCEPT !.firstPts = pts, !.audioCache = b]
  OBVIOUS
<1>13. /\ q \in Remuxer /\ q.popped = st.r.popped /\ q.audioCache = b
       /\ q.done = st.r.done /\ q.queue = st.r.queue
  BY <1>1, <1>5, <1>12 DEF Remuxer
<1>14. Heard(q, n, all)
  <2>1. \A x \in A \cup Range(b) : x \in 1..n
    BY <1>7, <1>10
  <2>2. \A x \in Range(b) : ~IsVideo(all[x].type)
    BY <1>7, <1>10
  <2>3. QED BY <1>6, <1>11, <1>13, <2>1, <2>2 DEF Heard
<1>15. PICK t : t = [st EXCEPT !.r = q]
  OBVIOUS
<1>16. t \in State /\ t.r = q /\ t.m = st.m /\ t.openOk = st.openOk /\ t.alive = st.alive
  BY <1>1, <1>13, <1>15 DEF State
<1>17. t = WithAudio(st, n, pts)
  BY <1>1, <1>2, <1>4, <1>12, <1>15 DEF State, Remuxer, WithAudio
<1>18. Writing(t, Range(t.r.popped), all, ok)
  BY <1>1, <1>13, <1>16 DEF Writing
<1>19. Ready(t, n, all, ok)
  BY <1>1, <1>14, <1>16, <1>18 DEF Ready
<1>20. QED BY <1>13, <1>16, <1>17, <1>19 DEF Control

\* An audio message is processed.
LEMMA FedAudio ==
  ASSUME NEW st, NEW k \in Nat, NEW n \in Nat, n = k + 1, NEW all, NEW ok \in BOOLEAN, Ready(st, k, all, ok),
         NEW msg, msg = all[n], msg.ts \in Int, msg.type \in {"ash", "aac", "opus"}
  PROVE  LET o == FeedAudio(st, n, msg)
         IN  Ready(o, n, all, ok) /\ Control(o, st)
<1>1. st \in State /\ st.r \in Remuxer
  BY DEF Ready, State
<1>2. Ready(st, n, all, ok) /\ Control(st, st)
  <2>1. k <= n
    OBVIOUS
  <2>2. Ready(st, n, all, ok)
    BY <2>1, ReadyLater
  <2>3. QED BY <2>2 DEF Control
<1>3. ~IsVideo(all[n].type)
  BY DEF IsVideo
<1>4. CASE msg.type = "ash"
  <2>1. PICK q : q = [st.r EXCEPT !.asc = TRUE]
    OBVIOUS
  <2>2. /\ q \in Remuxer /\ q.popped = st.r.popped /\ q.audioCache = st.r.audioCache
        /\ q.done = st.r.done /\ q.queue = st.r.queue
    BY <1>1, <2>1 DEF Remuxer
  <2>3. FeedAudio(st, n, msg) = [st EXCEPT !.r = q]
    BY <1>1, <1>4, <2>1 DEF FeedAudio, State
  <2>4. QED BY <1>2, <2>2, <2>3, RemuxerChanged
<1>5. CASE msg.type = "opus"
  <2>1. PICK t : t = WithAudio(st, n, msg.ts)
    OBVIOUS
  <2>2. Ready(t, n, all, ok) /\ Control(t, st)
    BY <1>3, <2>1, Collected
  <2>3. FeedAudio(st, n, msg) = FlushAudio(t)
    BY <1>5, <2>1 DEF FeedAudio, WithAudio
  <2>4. PICK e : e = FlushAudio(t)
    OBVIOUS
  <2>5. Ready(e, n, all, ok) /\ Control(e, t)
    BY <2>2, <2>4, FlushedAudio, OnwardControl
  <2>6. QED BY <2>2, <2>3, <2>4, <2>5 DEF Control
<1>6. CASE msg.type = "aac"
  <2>1. CASE ~st.r.asc
    BY <1>2, <1>6, <2>1 DEF FeedAudio
  <2>2. CASE st.r.asc
    <3>1. PICK g : g = FlushIfOlder(st, DelayByAudio, msg.ts)
      OBVIOUS
    <3>2. Ready(g, k, all, ok) /\ Control(g, st)
      BY <3>1, FlushedIfOlder, OnwardControl
    <3>3. FeedAudio(st, n, msg) = Collect(g, n, msg.ts)
      BY <1>6, <2>2, <3>1 DEF FeedAudio
    <3>4. g \in State /\ g.r \in Remuxer /\ g.r.firstPts \in Int
      BY <3>2 DEF Ready, State, Remuxer
    <3>5. PICK x \in Int : x = IF g.r.audioCache = <<>> THEN msg.ts ELSE g.r.firstPts
      BY <3>4
    <3>6. PICK t : t = WithAudio(g, n, x)
      OBVIOUS
    <3>7. Collect(g, n, msg.ts) = t
      BY <3>4, <3>5, <3>6 DEF Collect, State, Remuxer, WithAudio
    <3>8. Ready(t, n, all, ok) /\ Control(t, g)
      BY <1>3, <3>2, <3>6, Collected
    <3>9. QED BY <3>2, <3>3, <3>7, <3>8 DEF Control
  <2>3. QED BY <2>1, <2>2
<1>7. QED BY <1>4, <1>5, <1>6

\* The types of the messages
RtmpMessage == [type : {"vsh", "ash", "key", "inter", "aac", "opus"}, ts : Int]

\* A message is processed.
LEMMA Popped ==
  ASSUME NEW st, NEW k \in Nat, NEW n \in Nat, n = k + 1, NEW all, NEW ok \in BOOLEAN, Ready(st, k, all, ok),
         all[n] \in RtmpMessage
  PROVE  LET o == OnPop(st, n, all[n])
         IN  Ready(o, n, all, ok) /\ Control(o, st)
<1>1. PICK msg : msg = all[n] /\ msg.ts \in Int /\ msg.type \in {"vsh", "ash", "key", "inter", "aac", "opus"}
  BY DEF RtmpMessage
<1>2. CASE IsVideo(msg.type)
  BY <1>1, <1>2, FedVideo DEF OnPop
<1>3. CASE ~IsVideo(msg.type)
  <2>1. msg.type \in {"ash", "aac", "opus"}
    BY <1>1, <1>3 DEF IsVideo
  <2>2. QED BY <1>1, <1>3, <2>1, FedAudio DEF OnPop
<1>4. QED BY <1>2, <1>3

-----------------------------------------------------------------------------
(* The probe queue                                                          *)

\* The table of the states that Drain goes through exists.
LEMMA DrainExists ==
  ASSUME NEW t, NEW q, NEW all
  PROVE  \A k \in Nat : \E f : f = [n \in 0..k |-> IF n = 0 THEN t ELSE OnPop(f[n - 1], q[n], all[q[n]])]
<1> DEFINE S == {k \in Nat : \E f : f = [n \in 0..k |-> IF n = 0 THEN t ELSE OnPop(f[n - 1], q[n], all[q[n]])]}
<1>1. 0 \in S
  <2>1. PICK f : f = [n \in 0..0 |-> t]
    OBVIOUS
  <2>2. f = [n \in 0..0 |-> IF n = 0 THEN t ELSE OnPop(f[n - 1], q[n], all[q[n]])]
    <3>1. \A n \in 0..0 : n = 0
      OBVIOUS
    <3>2. QED BY <2>1, <3>1
  <2>3. QED BY <2>2
<1>2. ASSUME NEW k \in Nat, k \in S PROVE k + 1 \in S
  <2>1. PICK f : f = [n \in 0..k |-> IF n = 0 THEN t ELSE OnPop(f[n - 1], q[n], all[q[n]])]
    BY <1>2
  <2>2. PICK g : g = [n \in 0..(k + 1) |-> IF n = k + 1 THEN OnPop(f[k], q[n], all[q[n]]) ELSE f[n]]
    OBVIOUS
  <2>3. ASSUME NEW n \in 0..(k + 1)
        PROVE  g[n] = IF n = 0 THEN t ELSE OnPop(g[n - 1], q[n], all[q[n]])
    <3>1. CASE n = k + 1
      <4>1. n # 0 /\ n - 1 = k /\ k \in 0..(k + 1) /\ k # k + 1
        BY <3>1
      <4>2. g[n] = OnPop(f[k], q[n], all[q[n]]) /\ g[k] = f[k]
        BY <2>2, <3>1, <4>1
      <4>3. QED BY <4>1, <4>2
    <3>2. CASE n # k + 1 /\ n # 0
      <4>1. n \in 0..k /\ n - 1 \in 0..(k + 1) /\ n - 1 # k + 1
        BY <3>2
      <4>2. g[n] = f[n] /\ g[n - 1] = f[n - 1]
        BY <2>2, <3>2, <4>1
      <4>3. f[n] = OnPop(f[n - 1], q[n], all[q[n]])
        BY <2>1, <3>2, <4>1
      <4>4. QED BY <3>2, <4>2, <4>3
    <3>3. CASE n = 0
      <4>1. 0 \in 0..k /\ 0 # k + 1
        OBVIOUS
      <4>2. g[n] = f[n] /\ f[n] = t
        BY <2>1, <2>2, <3>3, <4>1
      <4>3. QED BY <3>3, <4>2
    <3>4. QED BY <3>1, <3>2, <3>3
  <2>4. g = [n \in 0..(k + 1) |-> IF n = 0 THEN t ELSE OnPop(g[n - 1], q[n], all[q[n]])]
    <3>1. PICK h : h = [n \in 0..(k + 1) |-> IF n = 0 THEN t ELSE OnPop(g[n - 1], q[n], all[q[n]])]
      OBVIOUS
    <3>2. \A n \in 0..(k + 1) : g[n] = h[n]
      BY <2>3, <3>1
    <3>3. g = h
      BY <2>2, <3>1, <3>2
    <3>4. QED BY <3>1, <3>3
  <2>5. QED BY <2>4
<1>3. \A k \in Nat : k \in S
  <2> HIDE DEF S
  <2>1. QED BY <1>1, <1>2, Induction
<1>4. QED BY <1>3

\* The probe queue holds the first n messages, in their order.
Probing(q, n) == q \in Seq(Nat) /\ Len(q) = n /\ \A i \in 1..n : q[i] = i

\* The remuxer opens up: the queued messages are processed one after the other.
LEMMA Drained ==
  ASSUME NEW st, NEW n \in Nat, NEW all \in Seq(RtmpMessage), Len(all) = n, NEW ok \in BOOLEAN,
         Ready(st, 0, all, ok), Probing(st.r.queue, n)
  PROVE  LET d == Drain(st, all)
         IN  Ready(d, n, all, ok) /\ d.r.done /\ d.r.queue = <<>> /\ d.openOk = st.openOk /\ d.alive = st.alive
<1>1. PICK q : q = st.r.queue /\ Len(q) = n /\ \A i \in 1..n : q[i] = i
  BY DEF Probing
<1>2. PICK t : t = [st EXCEPT !.r.done = TRUE, !.r.queue = <<>>]
  OBVIOUS
<1>3. Ready(t, 0, all, ok) /\ t.r.done = TRUE /\ t.r.queue = <<>> /\ t.openOk = st.openOk /\ t.alive = st.alive
  <2>1. st \in State /\ st.r \in Remuxer /\ <<>> \in Seq(Nat)
    BY DEF Ready, State
  <2>2. PICK z : z = [st.r EXCEPT !.done = TRUE, !.queue = <<>>]
    OBVIOUS
  <2>3. /\ z \in Remuxer /\ z.done = TRUE /\ z.queue = <<>>
        /\ z.popped = st.r.popped /\ z.audioCache = st.r.audioCache
    BY <2>1, <2>2 DEF Remuxer
  <2>4. t = [st EXCEPT !.r = z]
    BY <1>2, <2>1, <2>2 DEF State, Remuxer
  <2>5. t \in State /\ t.r = z /\ t.m = st.m /\ t.openOk = st.openOk /\ t.alive = st.alive
    BY <2>1, <2>3, <2>4 DEF State
  <2>6. Heard(z, 0, all)
    BY <2>3 DEF Ready, Heard
  <2>7. Writing(t, Range(t.r.popped), all, ok)
    BY <2>3, <2>5 DEF Ready, Writing
  <2>8. MuxerOk(t.m)
    BY <2>5 DEF Ready
  <2>9. QED BY <2>3, <2>5, <2>6, <2>7, <2>8 DEF Ready
<1> DEFINE popped == CHOOSE f : f = [k \in 0..n |-> IF k = 0 THEN t ELSE OnPop(f[k - 1], q[k], all[q[k]])]
<1>4. Drain(st, all) = popped[n]
  BY <1>1, <1>2 DEF Drain, Through
<1>5. popped = [k \in 0..n |-> IF k = 0 THEN t ELSE OnPop(popped[k - 1], q[k], all[q[k]])]
  BY DrainExists
<1> HIDE DEF popped
<1> DEFINE S == {k \in Nat : k \in 0..n => Ready(popped[k], k, all, ok) /\ Control(popped[k], t)}
<1>6. 0 \in S
  <2>1. 0 \in 0..n
    OBVIOUS
  <2>2. popped[0] = t
    BY <1>5, <2>1
  <2>3. Control(t, t)
    BY DEF Control
  <2>4. QED BY <1>3, <2>2, <2>3
<1>7. ASSUME NEW k \in Nat, k \in S PROVE k + 1 \in S
  <2> SUFFICES ASSUME k + 1 \in 0..n PROVE Ready(popped[k + 1], k + 1, all, ok) /\ Control(popped[k + 1], t)
    OBVIOUS
  <2>1. PICK j \in 1..n : j = k + 1 /\ j # 0 /\ j - 1 = k /\ j \in 0..n /\ k \in 0..n /\ j \in Nat
    OBVIOUS
  <2>2. Ready(popped[k], k, all, ok) /\ Control(popped[k], t)
    BY <1>7, <2>1
  <2>3. q[j] = j
    BY <1>1
  <2>4. popped[j] = OnPop(popped[k], j, all[j])
    BY <1>5, <2>1, <2>3
  <2>5. all[j] \in RtmpMessage
    BY <2>1, ElementOfSeq
  <2>6. Ready(popped[j], j, all, ok) /\ Control(popped[j], popped[k])
    BY <2>1, <2>2, <2>4, <2>5, Popped
  <2>7. QED BY <2>1, <2>2, <2>6 DEF Control
<1>8. \A k \in Nat : k \in S
  <2> HIDE DEF S
  <2>1. QED BY <1>6, <1>7, Induction
<1>9. Ready(popped[n], n, all, ok) /\ Control(popped[n], t)
  BY <1>8
<1>10. QED BY <1>3, <1>4, <1>9 DEF Control

-----------------------------------------------------------------------------
(* The system                                                               *)

\* A message more does not change what was said of the others.
LEMMA MoreMessages ==
  ASSUME NEW st, NEW old, NEW all, NEW k \in Nat, NEW ok \in BOOLEAN, Ready(st, k, old, ok),
         \A i \in 1..k : all[i] = old[i]
  PROVE  Ready(st, k, all, ok)
<1>1. PICK A, B : A = Range(st.r.popped) /\ B = Range(st.r.audioCache)
  OBVIOUS
<1>2. \A x \in A \cup B : x \in 1..k /\ all[x] = old[x]
  BY <1>1 DEF Ready, Heard
<1>3. \A x, y \in A \cup B : Same(all, x, y) <=> Same(old, x, y)
  BY <1>2 DEF Same
<1>4. PICK a \in Seq(Nat) : a = st.r.audioCache
  BY DEF Ready, State, Remuxer
<1>5. \A i \in 1..Len(a) : a[i] \in B
  BY <1>1, <1>4, RangeIs
<1>6. Fresh(a, A, all)
  <2>1. Fresh(a, A, old)
    BY <1>1, <1>4 DEF Ready, Heard
  <2>2. QED BY <1>3, <1>5, <2>1 DEF Fresh
<1>7. \A x \in B : ~IsVideo(all[x].type)
  <2>1. \A x \in B : ~IsVideo(old[x].type)
    BY <1>1 DEF Ready, Heard
  <2>2. QED BY <1>2, <2>1
<1>8. Heard(st.r, k, all)
  BY <1>1, <1>2, <1>4, <1>6, <1>7 DEF Heard
<1>9. PICK c : c = st.m.content
  OBVIOUS
<1>10. ASSUME FilesGood(c, A, old) PROVE FilesGood(c, A, all)
  <2>1. \A i \in 1..Len(c) : \A j \in 1..Len(c[i]) : c[i][j] \in A
    BY <1>10 DEF FilesGood
  <2>2. InOrder(c, all)
    <3>1. InOrder(c, old)
      BY <1>10 DEF FilesGood
    <3>2. QED BY <1>3, <2>1, <3>1 DEF InOrder
  <2>3. Complete(c, A, all)
    <3>1. Complete(c, A, old)
      BY <1>10 DEF FilesGood
    <3>2. QED BY <1>3, <3>1 DEF Complete
  <2>4. QED BY <2>1, <2>2, <2>3 DEF FilesGood
<1>11. Writing(st, A, all, ok)
  <2>1. Writing(st, A, old, ok)
    BY <1>1 DEF Ready
  <2>2. QED BY <1>9, <1>10, <2>1 DEF Writing
<1>12. QED BY <1>1, <1>8, <1>11 DEF Ready

\* The two while files can be created (b), or cannot
WithOpen(st, b) == [st EXCEPT !.openOk = b]

\* Whether files can be created is settled for a call.
LEMMA OpenSettled ==
  ASSUME NEW st, NEW n \in Nat, NEW all, NEW ok \in BOOLEAN, Ready(st, n, all, ok), NEW b \in BOOLEAN, ok => b = TRUE
  PROVE  Ready(WithOpen(st, b), n, all, ok)
<1>1. PICK t : t = WithOpen(st, b)
  OBVIOUS
<1>2. t \in State /\ t.r = st.r /\ t.m = st.m /\ t.alive = st.alive /\ t.openOk = b
  BY <1>1 DEF Ready, State, WithOpen
<1>3. Writing(t, Range(t.r.popped), all, ok)
  BY <1>2 DEF Ready, Writing
<1>4. Ready(t, n, all, ok)
  BY <1>2, <1>3 DEF Ready
<1>5. QED BY <1>1, <1>4

\* How many messages the remuxer has gone through, of n that came
Gone(st, n) == IF st.r.done THEN n ELSE 0

\* Remuxer and muxer after n messages: the probe queue holds all of them until it opens.
Fed(st, n, all, ok) ==
  Ready(st, Gone(st, n), all, ok) /\ (~st.r.done => Probing(st.r.queue, n))

\* A message arrives.
LEMMA Pushed ==
  ASSUME NEW st, NEW n \in Nat, NEW all \in Seq(RtmpMessage), Len(all) = n + 1, NEW ok \in BOOLEAN,
         Fed(st, n, all, ok)
  PROVE  LET d == Push(st, all)
         IN  Fed(d, n + 1, all, ok) /\ d.alive = st.alive
<1>1. st \in State /\ st.r \in Remuxer
  BY DEF Fed, Ready, State
<1>2. PICK j \in Nat : j = n + 1 /\ j = Len(all) /\ j \in 1..Len(all)
  OBVIOUS
<1>3. CASE st.r.done
  <2>1. Ready(st, n, all, ok)
    BY <1>3 DEF Fed, Gone
  <2>2. PICK d : d = OnPop(st, j, all[j])
    OBVIOUS
  <2>3. all[j] \in RtmpMessage
    BY <1>2, ElementOfSeq
  <2>4. Ready(d, j, all, ok) /\ Control(d, st)
    BY <1>2, <2>1, <2>2, <2>3, Popped
  <2>5. d = Push(st, all)
    BY <1>2, <1>3, <2>2 DEF Push
  <2>6. d.r.done /\ d.alive = st.alive
    BY <1>3, <2>4 DEF Control
  <2>7. QED BY <1>2, <2>4, <2>5, <2>6 DEF Fed, Gone
<1>4. CASE ~st.r.done
  <2>1. Ready(st, 0, all, ok) /\ Probing(st.r.queue, n)
    BY <1>4 DEF Fed, Gone
  <2>2. PICK q : q = Append(st.r.queue, j)
    OBVIOUS
  <2>3. Probing(q, j)
    <3>1. st.r.queue \in Seq(Nat) /\ Len(st.r.queue) = n /\ \A i \in 1..n : st.r.queue[i] = i
      BY <2>1 DEF Probing
    <3>2. q \in Seq(Nat) /\ Len(q) = n + 1 /\ (\A i \in 1..n : q[i] = st.r.queue[i]) /\ q[n + 1] = j
      BY <2>2, <3>1, AppendProperties
    <3>3. \A i \in 1..j : i \in 1..n \/ i = n + 1
      BY <1>2
    <3>4. QED BY <1>2, <3>1, <3>2, <3>3 DEF Probing
  <2>4. PICK z : z = [st.r EXCEPT !.queue = q]
    OBVIOUS
  <2>5. z \in Remuxer /\ z.queue = q /\ z.done = FALSE /\ z.popped = st.r.popped /\ z.audioCache = st.r.audioCache
    BY <1>1, <1>4, <2>3, <2>4 DEF Remuxer, Probing
  <2>6. PICK t : t = [st EXCEPT !.r = z]
    OBVIOUS
  <2>7. t \in State /\ t.r = z /\ t.m = st.m /\ t.openOk = st.openOk /\ t.alive = st.alive
    BY <1>1, <2>5, <2>6 DEF State
  <2>8. t = [st EXCEPT !.r.queue = Append(@, Len(all))]
    BY <1>1, <1>2, <2>2, <2>4, <2>6 DEF State, Remuxer
  <2>9. Ready(t, 0, all, ok)
    <3>1. Heard(z, 0, all)
      BY <2>1, <2>5 DEF Ready, Heard
    <3>2. Writing(t, Range(t.r.popped), all, ok)
      BY <2>1, <2>5, <2>7 DEF Ready, Writing
    <3>3. MuxerOk(t.m)
      BY <2>1, <2>7 DEF Ready
    <3>4. QED BY <2>7, <3>1, <3>2, <3>3 DEF Ready
  <2>10. Push(st, all) = t \/ Push(st, all) = Drain(t, all)
    BY <1>4, <2>8 DEF Push
  <2>11. CASE Push(st, all) = t
    BY <1>2, <2>3, <2>5, <2>7, <2>9, <2>11 DEF Fed, Gone
  <2>12. CASE Push(st, all) = Drain(t, all)
    <3>1. PICK d : d = Drain(t, all)
      OBVIOUS
    <3>2. Probing(t.r.queue, j)
      BY <2>3, <2>5, <2>7
    <3>3. Ready(d, j, all, ok) /\ d.r.done /\ d.alive = t.alive
      BY <1>2, <2>9, <3>1, <3>2, Drained
    <3>4. QED BY <1>2, <2>7, <2>12, <3>1, <3>3 DEF Fed, Gone
  <2>13. QED BY <2>10, <2>11, <2>12
<1>5. QED BY <1>3, <1>4

\* Every file can be created.
AllOpen == FALSE \notin situation.openResults

\* The inductive invariant: the muxer is right, and until the publisher leaves it is
\* fed with all messages; what is in the files stays.
HlsInv ==
  /\ situation \in Situations /\ msgs \in Seq(RtmpMessage) /\ MuxerOk(s.m)
  /\ s.alive => Fed(s, Len(msgs), msgs, AllOpen)
  /\ AllOpen => FilesGood(s.m.content, Range(s.r.popped), msgs)

\* It holds at first.
LEMMA HlsInit == Init => HlsInv
<1> SUFFICES ASSUME Init PROVE HlsInv
  OBVIOUS
<1>1. situation \in Situations /\ msgs = <<>> /\ situation.cleanup \in {"never", "inTheEnd", "asap"}
  BY MpegtsHlsAssumption DEF Init, MpegtsHlsAssumption
<1>2. PICK m : m = NewMuxer(situation.cleanup)
  OBVIOUS
<1>3. PICK r : r = NewRemuxer
  OBVIOUS
<1>4. s.m = m /\ s.r = r /\ s.openOk = TRUE /\ s.alive = TRUE /\ s = [r |-> r, m |-> m, openOk |-> TRUE, alive |-> TRUE]
  BY <1>2, <1>3 DEF Init
<1>5. PICK k \in Nat : k = FragsCapacity /\ k # 0
  BY Capacity
<1>6. PICK g : g = [i \in 0..(FragsCapacity - 1) |-> NoFrag]
  OBVIOUS
<1>7. g \in [0..(FragsCapacity - 1) -> Fragment] /\ \A p \in 0..(FragsCapacity - 1) : g[p].file = 0
  <2>1. NoFrag \in Fragment /\ NoFrag.file = 0
    BY DEF NoFrag, Fragment
  <2>2. QED BY <1>6, <2>1
<1>8. /\ m \in Muxer /\ m.opened = FALSE /\ m.nfrags = 0 /\ m.frag = 0 /\ m.frags = g
      /\ m.content = <<>> /\ m.playlists = <<>>
  <2>1. <<>> \in Seq(Seq(Nat)) /\ <<>> \in Seq(Playlist) /\ <<>> \in Seq(Nat) /\ {} \in SUBSET Nat
    OBVIOUS
  <2>2. QED BY <1>1, <1>2, <1>6, <1>7, <2>1 DEF NewMuxer, Muxer
<1>9. MuxerOk(m)
  <2>1. ClosedNum(m) = 0 /\ Len(m.content) = 0 /\ Len(m.playlists) = 0
    BY <1>8 DEF ClosedNum
  <2>2. RingHolds(m, 0)
    BY <1>7, <1>8 DEF RingHolds, FileAt
  <2>3. QED BY <1>8, <2>1, <2>2, Capacity DEF MuxerOk
<1>10. /\ r \in Remuxer /\ r.done = FALSE /\ r.queue = <<>> /\ r.popped = <<>> /\ r.audioCache = <<>>
  <2>1. <<>> \in Seq(Nat) /\ <<>> \in Seq(Frame)
    OBVIOUS
  <2>2. NoBase \in Int
    BY DEF NoBase
  <2>3. [video \in BOOLEAN |-> NoBase] \in [BOOLEAN -> Int]
    BY <2>2
  <2>4. QED BY <1>3, <2>1, <2>3 DEF NewRemuxer, Remuxer
<1>11. s \in State
  BY <1>4, <1>8, <1>10 DEF State
<1>12. FilesGood(<<>>, Range(s.r.popped), msgs)
  BY GoodStart
<1>13. Heard(s.r, 0, msgs)
  BY <1>4, <1>10, RangeNone, FreshNone DEF Heard
<1>14. Writing(s, Range(s.r.popped), msgs, AllOpen)
  BY <1>4, <1>8, <1>12 DEF Writing
<1>15. Fed(s, Len(msgs), msgs, AllOpen)
  <2>1. Probing(s.r.queue, Len(msgs))
    BY <1>1, <1>4, <1>10 DEF Probing
  <2>2. Ready(s, 0, msgs, AllOpen)
    BY <1>4, <1>9, <1>11, <1>13, <1>14 DEF Ready
  <2>3. QED BY <1>4, <1>10, <2>1, <2>2 DEF Fed, Gone
<1>16. msgs \in Seq(RtmpMessage)
  BY <1>1
<1>17. QED BY <1>1, <1>4, <1>8, <1>9, <1>12, <1>15, <1>16 DEF HlsInv

\* A message keeps it.
LEMMA FeedKeeps ==
  ASSUME HlsInv, NEW type \in situation.types, NEW delta \in situation.deltas,
         NEW openOk \in situation.openResults, FeedRtmpMessage(type, delta, openOk)
  PROVE  HlsInv'
<1>1. /\ situation \in Situations /\ msgs \in Seq(RtmpMessage) /\ s.alive /\ situation' = situation
      /\ openOk \in BOOLEAN /\ delta \in Int /\ type \in {"vsh", "ash", "key", "inter", "aac", "opus"}
  BY MpegtsHlsAssumption DEF HlsInv, FeedRtmpMessage, MpegtsHlsAssumption
<1>2. PICK n \in Nat, ok \in BOOLEAN : n = Len(msgs) /\ ok = AllOpen
  <2>1. Len(msgs) \in Nat /\ AllOpen \in BOOLEAN
    BY <1>1 DEF AllOpen
  <2>2. QED BY <2>1
<1>3. ok => openOk = TRUE
  BY <1>1, <1>2 DEF AllOpen
<1>4. PICK now \in Int : now = IF msgs = <<>> THEN 0 ELSE msgs[Len(msgs)].ts
  <2>1. CASE msgs = <<>>
    BY <2>1
  <2>2. CASE msgs # <<>>
    <3>1. Len(msgs) \in 1..Len(msgs)
      BY <1>1, <2>2, EmptySeq
    <3>2. msgs[Len(msgs)] \in RtmpMessage
      BY <1>1, <3>1, ElementOfSeq
    <3>3. msgs[Len(msgs)].ts \in Int
      BY <3>2 DEF RtmpMessage
    <3>4. QED BY <2>2, <3>3
  <2>3. QED BY <2>1, <2>2
<1>5. PICK msg : msg = [type |-> type, ts |-> now + delta]
  OBVIOUS
<1>6. msg \in RtmpMessage
  BY <1>1, <1>5 DEF RtmpMessage
<1>7. PICK all : all = Append(msgs, msg)
  OBVIOUS
<1>8. all \in Seq(RtmpMessage) /\ Len(all) = n + 1 /\ \A i \in 1..n : all[i] = msgs[i]
  BY <1>1, <1>2, <1>6, <1>7, AppendProperties
<1>9. PICK t : t = WithOpen(s, openOk)
  OBVIOUS
<1>10. PICK p : p = Push(t, all)
  OBVIOUS
<1>11. msgs' = all /\ s' = [p EXCEPT !.openOk = TRUE]
  BY <1>4, <1>5, <1>7, <1>9, <1>10 DEF FeedRtmpMessage, WithOpen
<1>12. Fed(s, n, msgs, ok)
  BY <1>1, <1>2 DEF HlsInv
<1>13. Fed(t, n, all, ok) /\ t.alive = s.alive
  <2>1. PICK k \in Nat : k = Gone(s, n) /\ k <= n
    BY DEF Gone
  <2>2. Ready(s, k, msgs, ok)
    BY <1>12, <2>1 DEF Fed
  <2>3. \A i \in 1..k : all[i] = msgs[i]
    BY <1>8, <2>1
  <2>4. Ready(s, k, all, ok)
    BY <2>2, <2>3, MoreMessages
  <2>5. Ready(t, k, all, ok) /\ t.r = s.r /\ t.alive = s.alive
    <3>1. Ready(t, k, all, ok)
      BY <1>1, <1>3, <1>9, <2>4, OpenSettled
    <3>2. t.r = s.r /\ t.alive = s.alive
      BY <1>9, <2>4 DEF WithOpen, Ready, State
    <3>3. QED BY <3>1, <3>2
  <2>6. QED BY <1>12, <2>1, <2>5 DEF Fed, Gone
<1>14. Fed(p, n + 1, all, ok)
  BY <1>8, <1>10, <1>13, Pushed
<1>15. PICK u : u = WithOpen(p, TRUE)
  OBVIOUS
<1>16. PICK j \in Nat : j = Gone(p, n + 1)
  BY DEF Gone
<1>17. Ready(u, j, all, ok) /\ u.r = p.r
  <2>1. Ready(p, j, all, ok)
    BY <1>14, <1>16 DEF Fed
  <2>2. TRUE \in BOOLEAN /\ (ok => TRUE = TRUE)
    OBVIOUS
  <2>3. Ready(u, j, all, ok)
    BY <1>15, <2>1, <2>2, OpenSettled
  <2>4. u.r = p.r
    BY <1>15, <2>1 DEF WithOpen, Ready, State
  <2>5. QED BY <2>3, <2>4
<1>18. Fed(u, n + 1, all, ok)
  BY <1>14, <1>16, <1>17 DEF Fed, Gone
<1>19. MuxerOk(u.m) /\ (ok => FilesGood(u.m.content, Range(u.r.popped), all))
  BY <1>17 DEF Ready, Writing
<1>20. AllOpen' = ok
  BY <1>1, <1>2 DEF AllOpen
<1>21. s' = u /\ Len(msgs') = n + 1
  BY <1>8, <1>11, <1>15 DEF WithOpen
<1>22. QED BY <1>1, <1>8, <1>11, <1>18, <1>19, <1>20, <1>21 DEF HlsInv

\* The publisher leaves.
LEMMA DelKeeps ==
  ASSUME HlsInv, NEW openOk \in situation.openResults, DelIn(openOk)
  PROVE  HlsInv'
<1>1. /\ situation \in Situations /\ msgs \in Seq(RtmpMessage) /\ s.alive /\ situation' = situation /\ msgs' = msgs
      /\ openOk \in BOOLEAN
  BY MpegtsHlsAssumption DEF HlsInv, DelIn, MpegtsHlsAssumption
<1>2. PICK n \in Nat, ok \in BOOLEAN : n = Len(msgs) /\ ok = AllOpen
  <2>1. Len(msgs) \in Nat /\ AllOpen \in BOOLEAN
    BY <1>1 DEF AllOpen
  <2>2. QED BY <2>1
<1>3. ok => openOk = TRUE
  BY <1>1, <1>2 DEF AllOpen
<1>4. PICK k \in Nat : k = Gone(s, n)
  BY DEF Gone
<1>5. Ready(s, k, msgs, ok)
  BY <1>1, <1>2, <1>4 DEF HlsInv, Fed
<1>6. PICK t : t = WithOpen(s, openOk)
  OBVIOUS
<1>7. Ready(t, k, msgs, ok)
  BY <1>1, <1>3, <1>5, <1>6, OpenSettled
<1>8. PICK e : e = FlushAudio(t)
  OBVIOUS
<1>9. Ready(e, k, msgs, ok)
  BY <1>7, <1>8, FlushedAudio
<1>10. e \in State /\ MuxerOk(e.m) /\ (ok => FilesGood(e.m.content, Range(e.r.popped), msgs))
  BY <1>9 DEF Ready, Writing
<1>11. PICK d : d = CloseFragment(e.m, TRUE)
  OBVIOUS
<1>12. MuxerOk(d) /\ d.content = e.m.content
  <2>1. CASE e.m.opened
    BY <1>10, <1>11, <2>1, Closing
  <2>2. CASE ~e.m.opened
    BY <1>10, <1>11, <2>2 DEF CloseFragment
  <2>3. QED BY <2>1, <2>2
<1>13. s' = [e EXCEPT !.m = d, !.alive = FALSE, !.openOk = TRUE]
  BY <1>6, <1>8, <1>10, <1>11 DEF DelIn, State, WithOpen
<1>14. s'.m = d /\ s'.r = e.r /\ s'.alive = FALSE
  BY <1>10, <1>13 DEF State
<1>15. AllOpen' = ok
  BY <1>1, <1>2 DEF AllOpen
<1>16. ok => FilesGood(s'.m.content, Range(s'.r.popped), msgs')
  BY <1>1, <1>10, <1>12, <1>14
<1>17. MuxerOk(s'.m) /\ s'.alive = FALSE
  BY <1>12, <1>14
<1>18. QED BY <1>1, <1>15, <1>16, <1>17 DEF HlsInv

\* Every step keeps it.
LEMMA HlsStep == HlsInv /\ [Next]_vars => HlsInv'
<1> SUFFICES ASSUME HlsInv, [Next]_vars PROVE HlsInv'
  OBVIOUS
<1>1. CASE Next
  <2>1. CASE \E type \in situation.types, delta \in situation.deltas, openOk \in situation.openResults :
                FeedRtmpMessage(type, delta, openOk)
    BY <2>1, FeedKeeps
  <2>2. CASE \E openOk \in situation.openResults : DelIn(openOk)
    BY <2>2, DelKeeps
  <2>3. QED BY <1>1, <2>1, <2>2 DEF Next
<1>2. CASE UNCHANGED vars
  BY <1>2 DEF vars, HlsInv, AllOpen
<1>3. QED BY <1>1, <1>2

\* It is an invariant.
LEMMA HlsAlways == Spec => []HlsInv
<1>1. QED BY HlsInit, HlsStep, PTL DEF Spec

-----------------------------------------------------------------------------
(* Theorems                                                                 *)

\* How many numbers there are up to k
LEMMA Counting ==
  ASSUME NEW k \in Nat
  PROVE  Cardinality(1..k) = k
<1>1. Cardinality(1..k) = IF 1 > k THEN 0 ELSE k - 1 + 1
  BY FS_Interval
<1>2. QED BY <1>1

\* The files that are closed
LEMMA ClosedIs ==
  ASSUME MuxerOk(s.m)
  PROVE  ClosedNum(s.m) \in Nat /\ Closed = 1..ClosedNum(s.m)
<1>1. PICK m : m = s.m /\ MuxerOk(m) /\ m \in Muxer
  BY DEF MuxerOk
<1>2. PICK a \in Nat, b \in Nat, c \in Nat : a = m.frag /\ b = m.nfrags /\ c = a + b /\ c = ClosedNum(m)
  <2>1. m.frag \in Nat /\ m.nfrags \in Nat
    BY <1>1 DEF Muxer
  <2>2. QED BY <2>1 DEF ClosedNum
<1>3. CASE m.opened
  <2>1. Len(m.content) = c + 1 /\ RingHolds(m, c + 1)
    BY <1>1, <1>2, <1>3 DEF MuxerOk
  <2>2. m.frag + b + 1 <= c + 1 /\ c + 1 < m.frag + b + 1 + FragsCapacity /\ m.frag + b + 1 = c + 1
    BY <1>2, Capacity
  <2>3. PICK l \in Nat : l = c + 1
    OBVIOUS
  <2>4. GetFrag(m, b).file = m.frag + b + 1
    BY <1>1, <2>1, <2>2, <2>3, RingFile
  <2>5. CurrFrag(m).file = l
    BY <1>2, <2>2, <2>3, <2>4 DEF CurrFrag
  <2>6. Closed = (1..l) \ {l}
    BY <1>1, <1>3, <2>1, <2>3, <2>5 DEF Closed, Files, OpenFile
  <2>7. (1..l) \ {l} = 1..c
    BY <2>3
  <2>8. QED BY <1>1, <1>2, <2>6, <2>7
<1>4. CASE ~m.opened
  <2>1. Len(m.content) = c
    BY <1>1, <1>2, <1>4 DEF MuxerOk
  <2>2. Closed = 1..c
    BY <1>1, <1>4, <2>1 DEF Closed, Files, OpenFile
  <2>3. QED BY <1>1, <1>2, <2>2
<1>5. QED BY <1>3, <1>4

\* The live playlist is right whenever the muxer is.
LEMMA PlaylistRight == HlsInv => PlaylistIsNewestClosed
<1> SUFFICES ASSUME HlsInv PROVE PlaylistIsNewestClosed
  OBVIOUS
<1>1. MuxerOk(s.m)
  BY DEF HlsInv
<1>2. PICK c \in Nat : c = ClosedNum(s.m) /\ Closed = 1..c
  BY <1>1, ClosedIs
<1>3. PICK ps \in Seq(Playlist) : ps = s.m.playlists /\ Len(ps) = c /\ \A i \in 1..c : Lists(ps[i], i)
  BY <1>1, <1>2 DEF MuxerOk, Muxer
<1>4. \A i \in 1..c : ps[i].mediaSeq \in Nat /\ ps[i].files \in Seq(Nat)
  <2>1. \A i \in 1..c : ps[i] \in Playlist
    BY <1>3, ElementOfSeq
  <2>2. QED BY <2>1 DEF Playlist
<1>5. ASSUME ps # <<>>
      PROVE  /\ \A i \in 1..Len(Live.files) :
                  /\ Live.files[i] \in Closed
                  /\ Cardinality({f \in Closed : f <= Live.files[i]}) = Live.mediaSeq + i
             /\ Live.mediaSeq + Len(Live.files) = Cardinality(Closed)
             /\ Len(Live.files) <= FragmentNum
  <2>1. c \in 1..c
    BY <1>3, <1>5, EmptySeq
  <2>2. PICK q \in Nat, fs \in Seq(Nat) : q = Live.mediaSeq /\ fs = Live.files
    BY <1>3, <1>4, <2>1 DEF Live
  <2>3. Lists(Live, c)
    BY <1>3, <2>1 DEF Live
  <2>4. q <= c /\ c <= q + FragmentNum /\ Len(fs) = c - q /\ \A i \in 1..(c - q) : fs[i] = q + i
    BY <2>2, <2>3 DEF Lists
  <2>5. ASSUME NEW i \in 1..Len(fs)
        PROVE  fs[i] \in Closed /\ Cardinality({f \in Closed : f <= fs[i]}) = q + i
    <3>1. PICK x \in Nat : x = q + i /\ fs[i] = x /\ x \in 1..c /\ x <= c
      BY <2>4
    <3>2. {f \in 1..c : f <= x} = 1..x
      BY <3>1
    <3>3. Cardinality(1..x) = x
      BY Counting
    <3>4. QED BY <1>2, <3>1, <3>2, <3>3
  <2>6. q + Len(fs) = Cardinality(Closed)
    <3>1. Cardinality(1..c) = c
      BY Counting
    <3>2. QED BY <1>2, <2>4, <3>1
  <2>7. Len(fs) <= FragmentNum
    BY <2>4, Capacity
  <2>8. QED BY <2>2, <2>5, <2>6, <2>7
<1>6. ASSUME NEW i \in 1..c, i >= c - DeleteThreshold PROVE Range(ps[i].files) \subseteq s.m.disk
  <2>1. PICK q \in Nat, fs \in Seq(Nat) : q = ps[i].mediaSeq /\ fs = ps[i].files
    BY <1>4
  <2>2. q <= i /\ i <= q + FragmentNum /\ Len(fs) = i - q /\ \A j \in 1..(i - q) : fs[j] = q + j
    BY <1>3, <2>1 DEF Lists
  <2>3. ASSUME NEW j \in 1..(i - q) PROVE fs[j] \in s.m.disk
    <3>1. PICK x \in Nat : x = q + j /\ x = fs[j]
      BY <2>2
    <3>2. x \in 1..c /\ c < x + FragmentNum + DeleteThreshold
      BY <1>6, <2>2, <3>1, Capacity
    <3>3. Len(s.m.content) = c \/ Len(s.m.content) = c + 1
      BY <1>1, <1>2 DEF MuxerOk
    <3>4. x \in 1..Len(s.m.content)
      BY <3>2, <3>3
    <3>5. x \in s.m.disk
      BY <1>1, <1>2, <3>2, <3>4 DEF MuxerOk
    <3>6. QED BY <3>1, <3>5
  <2>4. Range(fs) = {fs[j] : j \in 1..(i - q)}
    BY <2>2, RangeIs
  <2>5. QED BY <2>1, <2>3, <2>4
<1>7. QED BY <1>3, <1>5, <1>6 DEF PlaylistIsNewestClosed

\* What was emitted is in the files, track by track.
LEMMA FilesRight == HlsInv => NothingLostOnceOpen
<1> SUFFICES ASSUME HlsInv, AllOpen PROVE NothingLostOnceOpen
  BY DEF NothingLostOnceOpen, AllOpen
<1>1. PICK c, X : c = s.m.content /\ X = Range(s.r.popped) /\ FilesGood(c, X, msgs)
  BY DEF HlsInv
<1>2. c \in Seq(Seq(Nat))
  BY <1>1 DEF HlsInv, MuxerOk, Muxer
<1>3. \A i \in 1..Len(c) : DOMAIN c[i] = 1..Len(c[i])
  <2>1. \A i \in 1..Len(c) : c[i] \in Seq(Nat)
    BY <1>2, ElementOfSeq
  <2>2. QED BY <2>1
<1>4. \A p \in Places : /\ p[1] \in 1..Len(c) /\ p[2] \in 1..Len(c[p[1]]) /\ At(p) = c[p[1]][p[2]]
  <2>1. ASSUME NEW p \in Places PROVE p[1] \in 1..Len(c) /\ p[2] \in 1..Len(c[p[1]]) /\ At(p) = c[p[1]][p[2]]
    <3>1. PICK i \in 1..Len(c) : p \in {i} \X DOMAIN c[i]
      BY <1>1 DEF Places, Files
    <3>2. p[1] = i /\ p[2] \in DOMAIN c[i]
      BY <3>1
    <3>3. QED BY <1>1, <1>3, <3>2 DEF At
  <2>2. QED BY <2>1
<1>5. \A i \in 1..Len(c) : \A j \in 1..Len(c[i]) : <<i, j>> \in Places /\ At(<<i, j>>) = c[i][j]
  <2>1. ASSUME NEW i \in 1..Len(c), NEW j \in 1..Len(c[i]) PROVE <<i, j>> \in Places /\ At(<<i, j>>) = c[i][j]
    <3>1. j \in DOMAIN c[i]
      BY <1>3
    <3>2. <<i, j>> \in {i} \X DOMAIN c[i]
      BY <3>1
    <3>3. <<i, j>> \in Places
      BY <1>1, <3>2 DEF Places, Files
    <3>4. QED BY <1>1, <3>3 DEF At
  <2>2. QED BY <2>1
<1>6. ASSUME NEW p \in Places, NEW q \in Places, Before(p, q), SameTrack(At(p), At(q)) PROVE At(p) < At(q)
  <2>1. /\ p[1] \in 1..Len(c) /\ p[2] \in 1..Len(c[p[1]]) /\ At(p) = c[p[1]][p[2]]
        /\ q[1] \in 1..Len(c) /\ q[2] \in 1..Len(c[q[1]]) /\ At(q) = c[q[1]][q[2]]
    BY <1>4
  <2>2. PICK i, j, k, l : i = p[1] /\ j = p[2] /\ k = q[1] /\ l = q[2]
    OBVIOUS
  <2>3. /\ i \in 1..Len(c) /\ j \in 1..Len(c[i]) /\ k \in 1..Len(c) /\ l \in 1..Len(c[k])
        /\ At(p) = c[i][j] /\ At(q) = c[k][l] /\ (i < k \/ (i = k /\ j < l))
    BY <1>6, <2>1, <2>2 DEF Before
  <2>4. Same(msgs, c[i][j], c[k][l])
    BY <1>6, <2>3 DEF Same, SameTrack
  <2>5. InOrder(c, msgs)
    BY <1>1 DEF FilesGood
  <2>6. c[i][j] < c[k][l]
    BY <2>3, <2>4, <2>5 DEF InOrder
  <2>7. QED BY <2>3, <2>6
<1>7. ASSUME NEW p \in Places PROVE At(p) \in X /\ InFiles(c, At(p))
  BY <1>1, <1>4 DEF FilesGood, InFiles
<1>8. ASSUME NEW p \in Places, NEW n \in X, SameTrack(At(p), n), At(p) < n PROVE \E q \in Places : At(q) = n
  <2>1. Complete(c, X, msgs)
    BY <1>1 DEF FilesGood
  <2>2. Same(msgs, At(p), n)
    BY <1>8 DEF Same, SameTrack
  <2>3. InFiles(c, n)
    BY <1>7, <1>8, <2>1, <2>2 DEF Complete
  <2>4. PICK i \in 1..Len(c) : \E j \in 1..Len(c[i]) : c[i][j] = n
    BY <2>3 DEF InFiles
  <2>5. QED BY <1>5, <2>4
<1>9. QED BY <1>1, <1>6, <1>7, <1>8 DEF NothingLostOnceOpen

\* The live playlist always names the newest complete fragments, without a gap and with
\* the right sequence number, and the deletion of old files in closeFragment never takes
\* one that a playlist of the last DeleteThreshold ones names; whatever frames arrive,
\* and whichever files cannot be created.
THEOREM PlaylistsAreRight == Spec => []PlaylistIsNewestClosed
<1>1. QED BY HlsAlways, PlaylistRight, PTL

\* Once the first fragment is open each track is in the files exactly as the remuxer
\* emitted it, also when opening a fragment calls back into the remuxer and its
\* collected audio enters the file before the frame that opened it.
THEOREM FramesAreKept == Spec => []NothingLostOnceOpen
<1>1. QED BY HlsAlways, FilesRight, PTL

=============================================================================
