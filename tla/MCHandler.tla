----------------------------- MODULE MCHandler -----------------------------
(* An instance of the blocking handler.  Every line of up to MaxBytes
   characters is evaluated (LineAssumption), so the alphabet is small: "k"
   is a key, a value and the reply to a write.                             *)
EXTENDS Handler

MCByte == {"S", "G", "k", "I", "n"}

MCLit == [l \in Literals |->
    CASE l = "SET" -> <<"S">> [] l = "GET" -> <<"G">> [] l = "OK" -> <<"k">>
      [] l = "NOT_FOUND" -> <<"I">> [] OTHER -> <<"I", "I">>]

MCCountText == [n \in 0..1 |-> <<"I">>]

MCTokens(f) == [i \in 1..Len(f) |-> <<f[i]>>]

(* A command split in two, and a chunk that ends one line and holds another. *)
MCChunks == {<<"S", "k">>, <<"k", "n">>, <<"n", "G", "k", "n">>}
=============================================================================
