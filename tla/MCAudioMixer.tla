---------------------------- MODULE MCAudioMixer ----------------------------
(***************************************************************************)
(* AudioMixer on a small instance: two blocks are all the game ever owns,  *)
(* a pull of three frames takes two slices of two, and a track of one or   *)
(* two frames loops inside a pull.                                         *)
(***************************************************************************)
EXTENDS AudioMixer
=============================================================================
