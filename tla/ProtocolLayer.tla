--------------------------- MODULE ProtocolLayer ---------------------------
(***************************************************************************)
(* What surrounds the groups: client and server sessions of RTSP and RTMP, *)
(* RTMP's chunk streams, the reception of RTP packets, the timestamp       *)
(* filter of RTSP pulls, the remuxers, the snapshot store and the          *)
(* registration with an upper GB28181 platform.  These parts share no      *)
(* state with each other (a session reads its own connection and calls its *)
(* own observer), so their composition is a disjoint union: Init chooses   *)
(* the part that is looked at, and only that part moves.                   *)
(***************************************************************************)
EXTENDS RtspClient, RtmpClient, RtspServer, RtmpServer, RtmpChunk, RtpReorder, AvPacketQueue,
        Remux, Snapshot, GbCascade

VARIABLE
  part   \* the part that moves

layerVars == <<part, clientVars, rtmpClientVars, rtspVars, rtmpVars, chunkVars, rtpVars,
               queueVars, remuxVars, snapshotVars, cascadeVars>>

Parts == {"rtsp client", "rtmp client", "rtsp server", "rtmp server", "chunks", "rtp", "queue",
          "remux", "snapshot", "cascade"}

\* The parts that do not move start in one fixed state
LayerInit ==
  /\ part \in Parts
  /\ ClientInit /\ RtmpClientInit /\ RtspServerInit /\ RtmpServerInit
  /\ ChunkInit /\ RtpInit /\ QueueInit /\ RemuxInit /\ SnapshotInit
  /\ CascadeInit
  /\ part # "rtsp client" => client = CHOOSE c \in Clients : TRUE
  /\ part # "rtmp client" => rclient = CHOOSE c \in RtmpClients : TRUE
  /\ part # "chunks" => sender = "lal"
  /\ part # "rtp" => stream = CHOOSE x \in Streams : TRUE
  /\ part # "remux" => origin = CHOOSE x \in Pubs : TRUE
  /\ part # "cascade" => plan = CHOOSE x \in CascadePlans : TRUE

LayerNext ==
  \/ /\ part = "rtsp client" /\ ClientNext
     /\ UNCHANGED <<part, rtmpClientVars, rtspVars, rtmpVars, chunkVars, rtpVars,
                    queueVars, remuxVars, snapshotVars, cascadeVars>>
  \/ /\ part = "rtmp client" /\ RtmpClientNext
     /\ UNCHANGED <<part, clientVars, rtspVars, rtmpVars, chunkVars, rtpVars,
                    queueVars, remuxVars, snapshotVars, cascadeVars>>
  \/ /\ part = "rtsp server" /\ RtspServerNext
     /\ UNCHANGED <<part, clientVars, rtmpClientVars, rtmpVars, chunkVars, rtpVars,
                    queueVars, remuxVars, snapshotVars, cascadeVars>>
  \/ /\ part = "rtmp server" /\ RtmpServerNext
     /\ UNCHANGED <<part, clientVars, rtmpClientVars, rtspVars, chunkVars, rtpVars,
                    queueVars, remuxVars, snapshotVars, cascadeVars>>
  \/ /\ part = "chunks" /\ ChunkNext
     /\ UNCHANGED <<part, clientVars, rtmpClientVars, rtspVars, rtmpVars, rtpVars,
                    queueVars, remuxVars, snapshotVars, cascadeVars>>
  \/ /\ part = "rtp" /\ RtpNext
     /\ UNCHANGED <<part, clientVars, rtmpClientVars, rtspVars, rtmpVars, chunkVars,
                    queueVars, remuxVars, snapshotVars, cascadeVars>>
  \/ /\ part = "queue" /\ QueueNext
     /\ UNCHANGED <<part, clientVars, rtmpClientVars, rtspVars, rtmpVars, chunkVars,
                    rtpVars, remuxVars, snapshotVars, cascadeVars>>
  \/ /\ part = "remux" /\ RemuxNext
     /\ UNCHANGED <<part, clientVars, rtmpClientVars, rtspVars, rtmpVars, chunkVars,
                    rtpVars, queueVars, snapshotVars, cascadeVars>>
  \/ /\ part = "snapshot" /\ SnapshotNext
     /\ UNCHANGED <<part, clientVars, rtmpClientVars, rtspVars, rtmpVars, chunkVars,
                    rtpVars, queueVars, remuxVars, cascadeVars>>
  \/ /\ part = "cascade" /\ CascadeNext
     /\ UNCHANGED <<part, clientVars, rtmpClientVars, rtspVars, rtmpVars, chunkVars,
                    rtpVars, queueVars, remuxVars, snapshotVars>>

LayerSpec == LayerInit /\ [][LayerNext]_layerVars /\ ClientFairness

-----------------------------------------------------------------------------
(* Properties of two parts at once                                         *)

\* The end the owner of a client session is told of is its end, with RTSP and RTMP
\* alike: no connection and no socket of it is left.
EndIsEnd == ReleasedBeforeTold /\ RtmpEndIsEnd

\* A connection to the server that is gone, RTSP or RTMP, has left its session in no
\* group.
ConnLeaves == RtspConnLeaves /\ RtmpConnLeaves

\* What the server and an upper platform believe of each other is true or recent: the
\* registration the status API reports, and the catalog the platform was given.
CascadeViews == RegistrationKept /\ CatalogRecent

=============================================================================
