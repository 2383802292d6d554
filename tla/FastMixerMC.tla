----------------------------- MODULE FastMixerMC -----------------------------
(* Two fast tracks besides the sub-mix, so that one changes while another   *)
(* stays.                                                                   *)
EXTENDS FastMixer

MCFastTracks == {1, 2}
=============================================================================
