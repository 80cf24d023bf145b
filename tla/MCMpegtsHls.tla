---------------------------- MODULE MCMpegtsHls ----------------------------
(* MpegtsHls for TLC.                                                      *)
EXTENDS MpegtsHls

\* Time that goes back further than is tolerated; files that cannot be created;
\* inter frames, and fragments too long; collected audio, with timestamps that
\* advance little or jump; video that comes late; and video that goes back behind
\* its first frame.
SixSituations ==
    {[types |-> {"vsh", "key", "opus"}, deltas |-> {-3, 3}, openResults |-> {TRUE},
      cleanup |-> "asap"],
     [types |-> {"vsh", "key", "opus"}, deltas |-> {7}, openResults |-> BOOLEAN,
      cleanup |-> "asap"],
     [types |-> {"vsh", "ash", "key", "inter", "aac"}, deltas |-> {2},
      openResults |-> {TRUE}, cleanup |-> "never"],
     [types |-> {"vsh", "ash", "key", "aac"}, deltas |-> {1, 7},
      openResults |-> {TRUE}, cleanup |-> "inTheEnd"],
     [types |-> {"vsh", "key", "inter", "opus"}, deltas |-> {3},
      openResults |-> {TRUE}, cleanup |-> "asap"],
     [types |-> {"vsh", "key", "inter"}, deltas |-> {-1, 4}, openResults |-> {TRUE},
      cleanup |-> "asap"]}
=============================================================================
