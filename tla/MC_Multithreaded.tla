------------------------- MODULE MC_Multithreaded -------------------------
(***************************************************************************)
(* Instances of Multithreaded for TLC.  A byte is 0, 1 or 2 in all.         *)
(***************************************************************************)
EXTENDS Multithreaded

OneKind  == {<<1>>}
TwoKinds == {<<1>>, <<2, 2>>}

FrameLen == HeaderLen + 1

(* A Recv returns a frame or two; anything up to two frames.               *)
WholeFrames == {FrameLen, 2 * FrameLen}
SomeSizes   == {1, HeaderLen, FrameLen, 2 * FrameLen}
=============================================================================
