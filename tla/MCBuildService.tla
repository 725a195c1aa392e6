--------------------------- MODULE MCBuildService ---------------------------
(* Two builds, either of which can supersede the other, one cancellation   *)
(* that can meet any stage of either, and a kext loop of two turns.        *)
EXTENDS BuildService
=============================================================================
