----------------------------- MODULE MCSlipTerm -----------------------------
(***************************************************************************)
(* SlipTerm for TLC: every frame of one or two bytes, and frames as long as *)
(* a buffer of three bytes and longer.                                     *)
(***************************************************************************)
EXTENDS SlipTerm

FrameBytes == {"d", "END", "ESC", "ESC_END", "ESC_ESC"}
MCFrames   == UNION {[1 .. n -> FrameBytes] : n \in 1 .. 2}
                \cup {<<"d", "END", "d">>, <<"d", "d", "ESC", "d">>}

\* The hypothesis of the proof that nothing is mixed holds of this instance.
ASSUME MCApartAssumption == Apart
=============================================================================
