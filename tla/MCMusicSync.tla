------------------------------ MODULE MCMusicSync ------------------------------
(* An instance of MusicSync for TLC.                                           *)
EXTENDS MusicSync
=============================================================================
