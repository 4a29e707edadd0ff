------------------------------ MODULE MCClient ------------------------------
(* Instances of the client and of the blocking handler: one-byte words; a
   reply is a word of the alphabet, or two bytes for a malformed line.     *)
EXTENDS Client

MCByte == {"S", "G", "k", "O", "N", "I", "n"}

MCLit == [l \in Literals |->
    CASE l = "SET" -> <<"S">> [] l = "GET" -> <<"G">> [] l = "OK" -> <<"O">>
      [] l = "NOT_FOUND" -> <<"N">> [] OTHER -> <<"I", "I">>]

MCCountText == [n \in 0..1 |-> <<"I">>]

MCTokens(f) == [i \in 1..Len(f) |-> <<f[i]>>]

(* A write, a read of the same key, and the empty line.                    *)
MCLines == {<<"S", "k", "S">>, <<"G", "k">>, <<>>}

(* Other clients write another value.                                      *)
MCOtherLines == {<<"S", "k", "k">>}
=============================================================================
