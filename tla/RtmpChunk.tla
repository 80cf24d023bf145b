------------------------------ MODULE RtmpChunk ------------------------------
(***************************************************************************)
(* RTMP chunk streams (pkg/rtmp): ChunkDivider cuts a message into chunks, *)
(* ChunkComposer.RunLoop puts the chunks of a connection together again.   *)
(*                                                                         *)
(* The sender is lal itself, which starts every message with a full header *)
(* (format 0) and writes its chunks in one go, or another program, which   *)
(* may use the short headers of formats 1 to 3 and interleave the chunks   *)
(* of several chunk streams.  Lengths are in units of one chunk byte; a    *)
(* chunk is what its header says plus how many bytes follow.  The composer *)
(* reads a byte stream: when what it takes from the connection is not      *)
(* exactly the chunk that was written, the framing is lost for good.       *)
(***************************************************************************)
EXTENDS Integers, Sequences, FiniteSetsExt

CONSTANTS
  Csids,       \* chunk stream ids
  TsMax,       \* maxTimestampInMessageHeader (0xFFFFFF)
  FirstSize,   \* defaultChunkSize
  LalSize,     \* LocalChunkSize
  OtherSizes,  \* chunk sizes another program may set
  Kinds,       \* messages to send: [len, type] with type "av" or "agg"
  Stamps,      \* message timestamps
  MaxMessages  \* bound: messages sent

ASSUME ChunkAssumption ==
  /\ {FirstSize, LalSize} \cup OtherSizes \subseteq Nat \ {0}
  /\ \A k \in Kinds : k.len \in Nat \ {0} /\ k.type \in {"av", "agg"}
  /\ TsMax \in Nat \ {0} /\ Stamps \subseteq Nat /\ MaxMessages \in Nat

VARIABLES
  sender,    \* "lal" or "other"
  ssize,     \* the chunk size the sender cuts by
  sstream,   \* by csid: the last header sent, [ts, field, len, type], field the
             \* timestamp it carried
  going,     \* by csid: the message being sent and what is left of it
  rsize,     \* peerChunkSize
  rstream,   \* by csid: the composer's Stream, [ts, field, absTs, len, type, got]
  submitted, \* by csid: the messages sent ...
  composed,  \* ... and, message by message, what the callback has received
  framed,    \* the composer has taken exactly what was written
  excused    \* history: one of the cases the code does not handle has happened

chunkVars == <<sender, ssize, sstream, going, rsize, rstream, submitted, composed, framed,
               excused>>

NoExt == -1

\* A message: its timestamp, length, type ("av", "agg" for an aggregate of two
\* messages a unit of time apart, "size" for SetChunkSize) and the size it sets
NewMessages ==
  {[ts |-> t, len |-> k.len, type |-> k.type, val |-> 0] : t \in Stamps, k \in Kinds}
    \cup {[ts |-> 0, len |-> 1, type |-> "size", val |-> v] :
            v \in IF sender = "lal" THEN {LalSize} ELSE OtherSizes}

NoMessage == [ts |-> 0, len |-> 0, type |-> "none", val |-> 0]

Idle == [msg |-> NoMessage, left |-> 0]

ChunkInit ==
  /\ sender \in {"lal", "other"}
  /\ ssize = IF sender = "lal" THEN LalSize ELSE FirstSize
  /\ sstream = [c \in Csids |-> [ts |-> 0, field |-> 0, len |-> 0, type |-> "none"]]
  /\ going = [c \in Csids |-> Idle]
  /\ rsize = FirstSize
  /\ rstream = [c \in Csids |-> [ts |-> 0, field |-> 0, absTs |-> FALSE, len |-> 0,
                                 type |-> "none", got |-> 0]]
  /\ submitted = [c \in Csids |-> <<>>] /\ composed = [c \in Csids |-> <<>>]
  /\ framed = TRUE /\ excused = FALSE

-----------------------------------------------------------------------------
(* The sender                                                              *)

\* calcHeader, for the first chunk of a message and for the others, whose
\* previous header is that of the message itself: the format, the timestamp
\* field, and the extended timestamp
CalcHeader(m, isFirst) ==
  LET stamp == IF isFirst \/ m.ts > TsMax THEN m.ts ELSE 0
  IN [fmt   |-> IF isFirst THEN 0 ELSE 3,
      field |-> IF stamp > TsMax THEN TsMax ELSE stamp,
      ext   |-> IF stamp > TsMax THEN stamp ELSE NoExt]

\* Another program: any format the specification allows for the message after the
\* last one of its chunk stream; a field of TsMax stands for the extended
\* timestamp, which is repeated in the chunks of format 3
FormatAllowed(fmt, m, h) ==
  /\ fmt > 0 => h.type # "none" /\ m.ts >= h.ts
  /\ fmt > 1 => m.len = h.len /\ m.type = h.type
  /\ fmt > 2 => m.ts - h.ts = h.field

OtherHeader(fmt, m, h) ==
  LET stamp == IF fmt = 0 THEN m.ts ELSE IF fmt = 3 THEN h.field ELSE m.ts - h.ts
  IN [fmt   |-> fmt,
      field |-> IF stamp >= TsMax THEN TsMax ELSE stamp,
      ext   |-> IF stamp >= TsMax THEN stamp ELSE NoExt]

\* How much of what is left goes into the next chunk
Piece(left) == IF left > ssize THEN ssize ELSE left

-----------------------------------------------------------------------------
(* ChunkComposer.RunLoop, one round: a chunk [fmt, field, ext, n] of message *)
(* header m on stream s                                                    *)

\* 5.3.1.2: the fields the format carries
ReadHeader(s, h, m) ==
  [s EXCEPT !.field = IF h.fmt <= 2 THEN h.field ELSE @,
            !.ts    = IF h.fmt = 0 THEN h.field ELSE @,
            !.absTs = IF h.fmt = 0 THEN TRUE ELSE @,
            !.len   = IF h.fmt <= 1 THEN m.len ELSE @,
            !.type  = IF h.fmt <= 1 THEN m.type ELSE @]

ExpectsExtNotInFmt3(s, h) == h.fmt # 3 /\ s.field >= TsMax

\* 5.3.1.3: `>=`, and for format 3 too
ExpectsExt(s, h) == s.field >= TsMax

ReadExt(s, h) ==
  IF ~ExpectsExt(s, h) THEN s
  ELSE [s EXCEPT !.field = h.ext,
                 !.ts = IF h.fmt = 0 THEN h.ext
                        ELSE IF h.fmt \in {1, 2} THEN @ - TsMax + h.ext ELSE @]

\* A message that fits into one chunk is read whole, whatever has been read of it
NeededSize(s) ==
  IF s.len <= rsize THEN s.len
  ELSE IF s.len - s.got > rsize THEN rsize ELSE s.len - s.got

\* A complete message: the last timestamp field is added unless a chunk of format 0
\* brought an absolute one
Completed(s) == [s EXCEPT !.ts = IF s.absTs THEN @ ELSE @ + s.field, !.absTs = FALSE, !.got = 0]

\* What the callback receives of a message: an aggregate is taken apart
HandedOn(s) ==
  IF s.type = "agg"
  THEN <<[ts |-> s.ts, type |-> "av"], [ts |-> s.ts + 1, type |-> "av"]>>
  ELSE <<[ts |-> s.ts, type |-> s.type]>>

\* The composer reads the chunk h with n bytes of message m on chunk stream c
Compose(c, h, n, m) ==
  LET s1 == ReadHeader(rstream[c], h, m)
      fits == ExpectsExt(s1, h) <=> h.ext # NoExt
      s2 == IF fits THEN ReadExt(s1, h) ELSE s1
      s3 == [s2 EXCEPT !.got = @ + NeededSize(s2)]
      complete == s3.got = s3.len
      s4 == IF complete THEN Completed(s3) ELSE s3
  IN /\ framed' = (framed /\ fits /\ NeededSize(s2) = n /\ s3.got <= s3.len)
     /\ rstream' = [rstream EXCEPT ![c] = s4]
     /\ composed' = IF complete THEN [composed EXCEPT ![c] = Append(@, HandedOn(s4))] ELSE composed
     /\ rsize' = IF complete /\ s4.type = "size" THEN m.val ELSE rsize

-----------------------------------------------------------------------------
\* One chunk is written and read: of message m, with left still to send
Write(c, h, m, left) ==
  LET n == Piece(left)
      last == left - n = 0
  IN /\ Compose(c, h, n, m)
     /\ going' = [going EXCEPT ![c] = IF last THEN Idle ELSE [msg |-> m, left |-> left - n]]
     /\ ssize' = IF last /\ m.type = "size" THEN m.val ELSE ssize
     \* a chunk size that makes a message fit of which a part has been read
     /\ excused' = (\/ excused
                    \/ /\ last /\ m.type = "size"
                       /\ \E d \in Csids \ {c} :
                            going[d].left > 0 /\ going[d].msg.len <= m.val
                    \* lal's divider and its composer disagree about TsMax itself
                    \/ sender = "lal" /\ m.ts = TsMax
                    \* an extended delta is added twice
                    \/ h.fmt \in {1, 2} /\ h.ext # NoExt)

Room == MapThenSumSet(LAMBDA c : Len(submitted[c]), Csids) < MaxMessages

\* lal: message2Chunks, message2ChunksV.  Its chunk size is the first thing a
\* session announces, and it never changes.
LalSends(c, m) ==
  /\ sender = "lal" /\ framed /\ Room
  /\ \A d \in Csids : going[d] = Idle
  /\ m.type = "size" <=> \A d \in Csids : submitted[d] = <<>>
  /\ submitted' = [submitted EXCEPT ![c] = Append(@, m)]
  /\ Write(c, CalcHeader(m, TRUE), m, m.len)
  /\ UNCHANGED <<sender, sstream>>

\* Another program starts a message
OtherSends(c, m, fmt) ==
  LET h == OtherHeader(fmt, m, sstream[c])
  IN /\ sender = "other" /\ framed /\ Room
     /\ going[c] = Idle /\ FormatAllowed(fmt, m, sstream[c])
     /\ submitted' = [submitted EXCEPT ![c] = Append(@, m)]
     /\ sstream' = [sstream EXCEPT ![c] =
                      [ts |-> m.ts, field |-> IF h.ext = NoExt THEN h.field ELSE h.ext,
                       len |-> m.len, type |-> m.type]]
     /\ Write(c, h, m, m.len)
     /\ UNCHANGED sender

\* The next chunk of a message that has been started
Continues(c) ==
  LET m == going[c].msg
      h == IF sender = "lal" THEN CalcHeader(m, FALSE)
           ELSE OtherHeader(3, m, sstream[c])
  IN /\ framed /\ going[c] # Idle
     /\ Write(c, h, m, going[c].left)
     /\ UNCHANGED <<sender, sstream, submitted>>

ChunkNext ==
  \E c \in Csids :
    \/ \E m \in NewMessages : LalSends(c, m) \/ \E fmt \in 0 .. 3 : OtherSends(c, m, fmt)
    \/ Continues(c)

ChunkSpec == ChunkInit /\ [][ChunkNext]_chunkVars

-----------------------------------------------------------------------------
(* Properties                                                              *)

\* How many messages of c have had their last chunk written
Written(c) == IF going[c] = Idle THEN Len(submitted[c]) ELSE Len(submitted[c]) - 1

\* Every chunk stream delivers exactly the messages sent on it, in their order and
\* with their absolute timestamps, whatever formats the headers have and however
\* the chunks of several streams and changes of the chunk size are interleaved;
\* except after a SetChunkSize that makes a half-read message fit into one chunk,
\* a lal timestamp of exactly TsMax, and a delta of TsMax or more.
ComposedIsSent ==
  excused \/ ( /\ framed
              /\ \A c \in Csids :
                   composed[c] = [i \in 1 .. Written(c) |-> HandedOn(submitted[c][i])] )

=============================================================================
