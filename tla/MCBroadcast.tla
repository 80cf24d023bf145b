---------------------------- MODULE MCBroadcast ----------------------------
(***************************************************************************)
(* The configurations of run broadcast.  Two rtmp viewers share the merge  *)
(* writer; an http-flv viewer and a push session come beside each other,   *)
(* with both caches fed and with neither.  What other sessions are sent    *)
(* does not depend on them.                                                *)
(***************************************************************************)
EXTENDS Broadcast

Sizes == {<<0, 0>>, <<2, 0>>, <<2, 1>>}

MCSetups ==
    {[gopNum |-> s[1], maxFrames |-> s[2], fed |-> {"rtmp", "flv"}, joins |-> j] :
        s \in Sizes, j \in {RtmpSubs, FlvSubs \cup Pushes}}
    \cup {[gopNum |-> 2, maxFrames |-> 0, fed |-> {}, joins |-> FlvSubs \cup Pushes]}

=============================================================================
