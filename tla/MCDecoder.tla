------------------------------ MODULE MCDecoder ------------------------------
(* Small instance of Decoder: a pipe of three bytes, frames of two, and a  *)
(* limit that the buffer reaches in two steps and the child can exceed.    *)
EXTENDS Decoder
=============================================================================
