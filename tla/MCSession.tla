----------------------------- MODULE MCSession -----------------------------
(* Instances of Session for TLC: every literal is one or two bytes, a key  *)
(* is one byte, and the bytes after a key are one word (the value).        *)
EXTENDS SessionReference

MCByte == {"S", "G", "D", "E", "C", "k", "v", "O", "N", "I", "0", "1", "n"}

MCLit == [l \in Literals |->
    CASE l = "SET" -> <<"S">>    [] l = "GET" -> <<"G">>
      [] l = "DELETE" -> <<"D">> [] l = "EXISTS" -> <<"E">>
      [] l = "COUNT" -> <<"C">>  [] l = "OK" -> <<"O">>
      [] l = "NOT_FOUND" -> <<"N">>
      [] l = "1" -> <<"1">>      [] l = "0" -> <<"0">>
      [] l = "INVALID COMMAND MESSAGE" -> <<"I">>
      [] OTHER -> <<"I">>]

MCCountText == [n \in 0..1 |-> IF n = 0 THEN <<"0">> ELSE <<"1">>]

MCTokens(f) ==
    IF Len(f) <= 2 THEN [i \in 1..Len(f) |-> <<f[i]>>]
    ELSE <<<<f[1]>>, <<f[2]>>, SubSeq(f, 3, Len(f))>>

Set1 == <<"S", "k", "v", "n">>
Set2 == <<"S", "k", "v", "v", "v", "n">>        \* exactly kMaxInputBytes
Get == <<"G", "k", "n">>
Del == <<"D", "k", "n">>
Exists == <<"E", "k", "n">>
Count == <<"C", "n">>
Bad == <<"n">>
Tail1 == <<"G">>
Over == <<"S", "k", "v", "v", "v", "v", "n">>

(* A frame of exactly kMaxInputBytes and its value read back; more short
   frames than a command budget and than the watermarks admit; a tail
   without newline after a deletion, and after a full frame; a frame one
   byte too long after one that is served; every command at least once.    *)
SafetyStreams ==
    {Set2 \o Get \o Get, Bad \o Bad \o Bad \o Bad \o Bad \o Bad \o Bad \o Bad,
     Set1 \o Count \o Del \o Tail1, Count \o Over, Bad \o Set2 \o Tail1,
     Set1 \o Exists \o Bad}

LiveStreams == {Set2 \o Get, Bad \o Bad \o Bad \o Bad \o Bad \o Tail1, Count \o Over}
=============================================================================
