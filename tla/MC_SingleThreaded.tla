------------------------- MODULE MC_SingleThreaded -------------------------
(***************************************************************************)
(* Instances of SingleThreaded for TLC.  A byte is 0, 1 or 2; two frames   *)
(* that are cut and mixed can show a size that wraps.                      *)
(***************************************************************************)
EXTENDS SingleThreaded

OneKind  == {<<2, 2, 2, 2>>}
EmptyToo == {<<>>, <<2, 2, 2, 2>>}

FrameLen == HeaderLen + 4

(* A Recv returns half a header, a frame, a frame and a header; anything   *)
(* up to two frames.                                                       *)
SomeSizes == {2, FrameLen, FrameLen + HeaderLen}
AllSizes  == 1 .. 2 * FrameLen
=============================================================================
