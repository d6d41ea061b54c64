---------------------------- MODULE FrameStreamMC ----------------------------
(***************************************************************************)
(* FrameStream for TLC: four bytes, two of them the header's, payloads of  *)
(* at most one byte, and every stream of up to MaxStream bytes in every    *)
(* cut.  Bytes 2 and 3 claim an impossible length.                         *)
(***************************************************************************)
EXTENDS FrameStream, SequencesExt

\* Some function of payload and length that most damage changes.
MCChecksum(data) == (1 + Len(data) + FoldSeq(+, 0, data)) % 4
=============================================================================
