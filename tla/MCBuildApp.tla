----------------------------- MODULE MCBuildApp -----------------------------
(* A session of two builds and two clicks on Cancel, with the user free to *)
(* leave and enter the build page at any time.                             *)
EXTENDS BuildApp
=============================================================================
