------------------------ MODULE MCAiImageRuntimeLimiter ------------------------
(***************************************************************************)
(* Five requests on two channels.  Those of one channel carry different    *)
(* limits, as after an edit of the channel, and the pools differ.          *)
(***************************************************************************)
EXTENDS AiImageRuntimeLimiter

CONSTANTS r1, r2, r3, r4, r5, c1, c2

MCRequests == {r1, r2, r3, r4, r5}
MCChannels == {c1, c2}
MCChannelOf    == [r \in MCRequests |-> IF r \in {r4, r5} THEN c2 ELSE c1]
MCChannelLimit == [r \in MCRequests |-> IF r \in {r1, r4} THEN 1 ELSE 2]
MCPoolLimit    == [r \in MCRequests |-> IF r = r2 THEN 2 ELSE 4]
=============================================================================
