------------------------------ MODULE Snapshot ------------------------------
(***************************************************************************)
(* The snapshot store of a stream (pkg/logic/snapshot_store.go): key       *)
(* frames arrive from the group, HTTP requests ask for the newest one as a *)
(* JPEG.  One request decodes with ffmpeg, the others wait for its result; *)
(* the JPEG is kept until the next key frame.                              *)
(*                                                                         *)
(* The store has one lock (s.mu) for the map and one per item (item.mu).   *)
(* A step is a section under one of them, or a call that blocks: waiting   *)
(* for another request's decoding, for a slot of the ffmpeg pool, and      *)
(* ffmpeg itself.  Decoding may fail, and every wait has a deadline.       *)
(***************************************************************************)
EXTENDS Integers, Sequences, FiniteSets

CONSTANTS
  JpegRequests,    \* HTTP requests
  PoolSize,    \* ffmpeg_pool_size
  HttpMax,     \* http_max_in_flight
  FrameStamps, \* timestamps of key frames
  MaxKeys      \* bound: key frames

ASSUME SnapshotAssumption ==
  /\ PoolSize \in Nat \ {0} /\ HttpMax \in Nat \ {0}
  /\ FrameStamps \subseteq Nat /\ MaxKeys \in Nat

VARIABLES
  keys,      \* the key frames so far: their timestamps
  updating,  \* the item Update is about to clear, 0 for none
  items,     \* every snapshotItem there has been
  current,   \* the item in the map, 0 for none
  request    \* by request: where it is and what it holds

snapshotVars == <<keys, updating, items, current, request>>

NewItem(k) == [frame |-> k, jpg |-> 0, jpgTs |-> 0, err |-> FALSE, inFlight |-> FALSE,
               moved |-> FALSE]

\* item: the item looked up; newest: its frame at that moment; frame: the frame taken
\* for decoding; jpg: the frame shown on the picture returned; moved (of an item
\* too, and a history): a step of Update since the decoding began
Fresh == [pc |-> "new", item |-> 0, newest |-> 0, frame |-> 0, jpg |-> 0, moved |-> FALSE]

SnapshotInit ==
  /\ keys = <<>> /\ updating = 0 /\ items = <<>> /\ current = 0
  /\ request = [r \in JpegRequests |-> Fresh]

In(pcs) == {r \in JpegRequests : request[r].pc \in pcs}

Decoding == {"pool", "ffmpeg", "finish"}

-----------------------------------------------------------------------------
(* The store                                                               *)

Moved(i) ==
  [r \in JpegRequests |-> [request[r] EXCEPT !.moved = @ \/ request[r].item = i]]

\* Update, first half, under s.mu: a key frame that carries its parameter sets
UpdateFrame(ts) ==
  /\ updating = 0 /\ Len(keys) < MaxKeys
  /\ keys' = Append(keys, ts)
  /\ LET k == Len(keys) + 1
     IN IF current = 0
        THEN /\ items' = Append(items, NewItem(k))
             /\ current' = Len(items) + 1
        ELSE /\ items' = [items EXCEPT ![current] = [@ EXCEPT !.frame = k, !.moved = TRUE]]
             /\ UNCHANGED current
  /\ updating' = current'
  /\ request' = Moved(current')

\* ... and its second half, under item.mu, which s.mu still covers
UpdateClear ==
  /\ updating # 0
  /\ items' = [items EXCEPT ![updating] = [@ EXCEPT !.jpg = 0, !.jpgTs = 0, !.err = FALSE,
                                                         !.moved = TRUE]]
  /\ updating' = 0
  /\ request' = Moved(updating)
  /\ UNCHANGED <<keys, current>>

\* Cleanup: a stream without a new key frame for the whole TTL is forgotten
Cleanup ==
  /\ updating = 0 /\ current # 0
  /\ current' = 0
  /\ UNCHANGED <<keys, updating, items, request>>

-----------------------------------------------------------------------------
(* GetJpeg                                                                 *)

Answer(r, pc, k) == request' = [request EXCEPT ![r].pc = pc, ![r].jpg = k]

\* ctrlSnapshotHandler: too many requests are turned away at once; then the lookup
\* under s.mu
Ask(r) ==
  /\ request[r].pc = "new" /\ updating = 0
  /\ request' = [request EXCEPT ![r] =
       IF Cardinality(In(Decoding \cup {"check", "wait", "woken"})) >= HttpMax
       THEN [@ EXCEPT !.pc = "busy"]
       ELSE IF current = 0 THEN [@ EXCEPT !.pc = "not found"]
       ELSE [@ EXCEPT !.pc = "check", !.item = current, !.newest = items[current].frame]]
  /\ UNCHANGED <<keys, updating, items, current>>

\* The picture kept is that of the newest frame: compared by timestamp
Cached(it) == it.jpg # 0 /\ it.jpgTs = keys[it.frame]

\* Under item.mu: the cached picture, the recent error, somebody else's decoding, or
\* a decoding of one's own
Check(r) ==
  LET i == request[r].item
      it == items[i]
  IN /\ request[r].pc = "check"
     /\ \/ Cached(it) /\ Answer(r, "served", it.jpg) /\ UNCHANGED items
        \/ ~Cached(it) /\ it.err /\ Answer(r, "failed", 0) /\ UNCHANGED items
        \* no error, or one that is more than a second old
        \/ /\ ~Cached(it)
           /\ IF it.inFlight
              THEN /\ request' = [request EXCEPT ![r].pc = "wait"]
                   /\ UNCHANGED items
              ELSE /\ items' = [items EXCEPT ![i] = [@ EXCEPT !.inFlight = TRUE, !.moved = FALSE]]
                   /\ request' = [request EXCEPT ![r].pc = "pool", ![r].frame = it.frame]
     /\ UNCHANGED <<keys, updating, current>>

\* The channel of the decoding one waits for is closed, or the deadline passes
WaitTimeout(r) ==
  /\ request[r].pc \in {"wait", "woken"}
  /\ Answer(r, "timeout", 0)
  /\ UNCHANGED <<keys, updating, items, current>>

Woken(r) ==
  LET it == items[request[r].item]
  IN /\ request[r].pc = "woken"
     /\ IF Cached(it) THEN Answer(r, "served", it.jpg)
        ELSE IF it.err THEN Answer(r, "failed", 0)
        ELSE Answer(r, "empty", 0)
     /\ UNCHANGED <<keys, updating, items, current>>

\* FfmpegJpegPool.Decode: a slot, or the deadline
TakeSlot(r) ==
  /\ request[r].pc = "pool"
  /\ \/ Cardinality(In({"ffmpeg"})) < PoolSize /\ Answer(r, "ffmpeg", 0)
     \/ Answer(r, "finish", 0)
  /\ UNCHANGED <<keys, updating, items, current>>

\* convertAnnexbToJPEG: ffmpeg ends, fails, or is killed after three seconds
Ffmpeg(r) ==
  /\ request[r].pc = "ffmpeg"
  /\ \E k \in {0, request[r].frame} : Answer(r, "finish", k)
  /\ UNCHANGED <<keys, updating, items, current>>

ResultOfNewest(it, k, frame) ==
  IF k # 0 THEN [it EXCEPT !.jpg = k, !.jpgTs = keys[it.frame], !.err = FALSE]
  ELSE [it EXCEPT !.err = TRUE]

\* What a decoding of frame leaves in the item
Result(it, k, frame) ==
  IF k # 0 THEN [it EXCEPT !.jpg = k, !.jpgTs = keys[frame], !.err = FALSE]
  ELSE [it EXCEPT !.err = TRUE]

\* Under item.mu again: the result is kept and those who wait are woken
Finish(r) ==
  LET i == request[r].item
      k == request[r].jpg
  IN /\ request[r].pc = "finish"
     /\ items' = [items EXCEPT ![i] = [Result(@, k, request[r].frame) EXCEPT !.inFlight = FALSE]]
     /\ request' = [q \in JpegRequests |->
          IF q = r THEN [request[q] EXCEPT !.pc = IF k = 0 THEN "failed" ELSE "served"]
          ELSE IF request[q].pc = "wait" /\ request[q].item = i
               THEN [request[q] EXCEPT !.pc = "woken", !.moved = items[i].moved]
          ELSE request[q]]
     /\ UNCHANGED <<keys, updating, current>>

\* The client asks again
AskAgain(r) ==
  /\ request[r].pc \in {"served", "failed", "empty", "timeout", "busy", "not found"}
  /\ request' = [request EXCEPT ![r] = Fresh]
  /\ UNCHANGED <<keys, updating, items, current>>

SnapshotNext ==
  \/ \E ts \in FrameStamps : UpdateFrame(ts)
  \/ UpdateClear
  \/ Cleanup
  \/ \E r \in JpegRequests :
       \/ Ask(r) \/ Check(r) \/ WaitTimeout(r) \/ Woken(r)
       \/ TakeSlot(r) \/ Ffmpeg(r) \/ Finish(r) \/ AskAgain(r)

SnapshotSpec == SnapshotInit /\ [][SnapshotNext]_snapshotVars

-----------------------------------------------------------------------------
(* Properties                                                              *)

SnapshotItems ==
  [frame : Nat, jpg : Nat, jpgTs : Nat, err : BOOLEAN, inFlight : BOOLEAN, moved : BOOLEAN]
SnapshotRequests ==
  [pc : Decoding \cup {"new", "check", "wait", "woken", "served", "failed", "empty", "timeout",
                       "busy", "not found"},
   item : Nat, newest : Nat, frame : Nat, jpg : Nat, moved : BOOLEAN]

SnapshotTypeOK ==
  /\ keys \in Seq(FrameStamps) /\ items \in Seq(SnapshotItems)
  /\ updating \in 0..Len(items) /\ current \in 0..Len(items)
  /\ request \in [JpegRequests -> SnapshotRequests]

\* An item is marked as being decoded exactly as long as one request decodes it: a
\* mark that stays would make every later request wait in vain, and a second decoding
\* is what the mark is there to prevent.
OneDecoder ==
  \A i \in DOMAIN items :
    Cardinality({r \in In(Decoding) : request[r].item = i}) = IF items[i].inFlight THEN 1 ELSE 0

\* Two key frames of the stream carry the same timestamp, so that the cache takes the
\* one for the other
StampRepeated == \E a, b \in DOMAIN keys : a # b /\ keys[a] = keys[b]

\* A picture that is served shows a frame no older than the newest one when the request
\* arrived, whatever updates, clean-ups and other decodings happen meanwhile; and a
\* request that waited for another's decoding comes back with nothing only if a key
\* frame was stored after that decoding had begun (GetJpeg).
SnapshotCurrent ==
  /\ OneDecoder
  /\ \A r \in JpegRequests :
       /\ request[r].pc = "served" /\ ~StampRepeated => request[r].jpg >= request[r].newest
       /\ request[r].pc = "empty" => request[r].moved

=============================================================================
