--------------------------- MODULE MCRaopSession ----------------------------
(***************************************************************************)
(* Two JNI calls of main(), chunks of 1 or 62 samples (frames of 11 and    *)
(* 255 bytes), at most two audio frames per call: enough for a second call *)
(* to start while the first call's threads still run, for a send to fall  *)
(* between two of the sync thread's loads of the timestamp, and for such a *)
(* send to carry the timestamp from one byte into the next (255 -> 266,    *)
(* 255 -> 510, 11 -> 266).                                                 *)
(***************************************************************************)
EXTENDS RaopSession

MCChunkSamples == {1, 62}

\* TLC's integers stop below 2^31, so the 32-bit reduction of the
\* timestamp is taken modulo a smaller number, above every value this
\* instance reaches: the reduction never applies in its runs, as it never
\* applies to the program's first 2^32 bytes of audio.
MCTsMod == 65536

ASSUME MCTsModAssumption ==
    \A b \in MCChunkSamples : MaxSends * FrameBytes(b) + SYNC_STEP < MCTsMod
=============================================================================
