------------------------------ MODULE MCString ------------------------------
(* Buffers of a few bytes, with calls up to the last number of size_t. *)
EXTENDS StringBuf

MCArgs == {<<Lower>>, <<Lower, Upper>>}
=============================================================================
