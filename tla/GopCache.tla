------------------------------ MODULE GopCache ------------------------------
(***************************************************************************)
(* remux.GopCache and remux.GopCacheMpegts: the cached stream headers and  *)
(* a ring of the most recent GOPs.  A message is its position in the       *)
(* stream, 0 is nil.  GopCacheMpegts is the same ring without the headers, *)
(* a boundary taking the place of the key frame.  A cache carries its own  *)
(* gop_num and single_gop_max_frame_num (0 for no limit).                  *)
(***************************************************************************)
EXTENDS Naturals, Sequences, SequencesExt

HeaderTypes == {"meta", "vsh", "ash"}

NewGopCache(gopNum, maxFrames) ==
    [gopNum |-> gopNum, maxFrames |-> maxFrames, meta |-> 0, vsh |-> 0, ash |-> 0,
     first |-> 0, last |-> 0, ring |-> [i \in 0..gopNum |-> <<>>]]

GopSize(c) == c.gopNum + 1

GetGopCount(c) == (c.last + GopSize(c) - c.first) % GopSize(c)
GetGopDataAt(c, pos) == c.ring[(pos + c.first) % GopSize(c)]

IsGopRingFull(c) == (c.last + 1) % GopSize(c) = c.first
IsGopRingEmpty(c) == c.first = c.last

FeedNewGopKeepsFirst(c, n) ==
    [c EXCEPT !.ring[c.last] = <<n>>, !.last = (@ + 1) % GopSize(c)]

FeedNewGop(c, n) ==
    [c EXCEPT !.first = IF IsGopRingFull(c) THEN (@ + 1) % GopSize(c) ELSE @,
              !.ring[c.last] = <<n>>,
              !.last = (@ + 1) % GopSize(c)]

FeedLastGop(c, n) ==
    LET pos == (c.last + GopSize(c) - 1) % GopSize(c)
        fits == \/ c.maxFrames = 0
                \/ Len(c.ring[pos]) <= c.maxFrames
    IN  IF IsGopRingEmpty(c) \/ ~fits THEN c
        ELSE [c EXCEPT !.ring[pos] = Append(@, n)]

\* Feed, and SetMetadata for the metadata.
Feed(c, type, n) ==
    IF type = "meta" THEN [c EXCEPT !.meta = n]
    ELSE IF type = "vsh" THEN [c EXCEPT !.vsh = n]
    ELSE IF type = "ash" THEN [c EXCEPT !.ash = n]
    ELSE IF c.gopNum = 0 THEN c
    ELSE IF type = "key" THEN FeedNewGop(c, n)
    ELSE FeedLastGop(c, n)

\* The ring keeps its data; only the two positions are reset.
Clear(c) == [c EXCEPT !.meta = 0, !.vsh = 0, !.ash = 0, !.first = 0, !.last = 0]

\* What a new viewer is sent: the headers, then every cached GOP.
CachedGops(c) ==
    FlattenSeq([i \in 1..GetGopCount(c) |-> GetGopDataAt(c, i - 1)])
UnlessNil(n) == IF n = 0 THEN <<>> ELSE <<n>>
CachedHeaders(c) == UnlessNil(c.meta) \o UnlessNil(c.vsh) \o UnlessNil(c.ash)

=============================================================================
