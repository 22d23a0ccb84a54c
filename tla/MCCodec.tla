------------------------------- MODULE MCCodec -------------------------------
(* Codec with the descriptor of entity views and arrays of three bytes. *)
EXTENDS Codec, EntityView

ByteChoices == [1 .. ArrayLen -> {0, 1, 2}]
=============================================================================
