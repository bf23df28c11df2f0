---------------------------- MODULE MCFrameCodec ----------------------------
EXTENDS FrameCodec, TLC

CONSTANTS empty, short, long, bad, foreign

Sizes == (empty :> 0) @@ (short :> 1) @@ (long :> 3) @@ (bad :> 1)
            @@ (foreign :> 1)
=============================================================================
