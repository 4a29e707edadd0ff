---------------------------- MODULE MCEventLoop ----------------------------
(* Instances of the event loop: one-byte words and replies.                *)
EXTENDS EventLoopRefinement, TLC

CONSTANTS p1, p2, p3

MCByte == {"S", "G", "C", "k", "O", "N", "I", "0", "1", "n"}

MCLit == [l \in Literals |->
    CASE l = "SET" -> <<"S">>   [] l = "GET" -> <<"G">>
      [] l = "COUNT" -> <<"C">> [] l = "OK" -> <<"O">>
      [] l = "NOT_FOUND" -> <<"N">>
      [] l = "1" -> <<"1">>     [] l = "0" -> <<"0">>
      [] OTHER -> <<"I">>]

MCCountText == [n \in 0..1 |-> IF n = 0 THEN <<"0">> ELSE <<"1">>]

MCTokens(f) == [i \in 1..Len(f) |-> <<f[i]>>]

Set == <<"S", "k", "k", "n">>
Count == <<"C", "n">>
Bad == <<"n">>

MCPeers == {p1, p2, p3}
TwoPeers == {p1, p2}

(* A writer, and a reader with more frames than a visit executes.          *)
SafetyScript == (p1 :> {Set}) @@ (p2 :> {Count \o Count})

(* One client with more frames than a visit executes among silent ones.    *)
SlotsScript == (p1 :> {Bad \o Bad}) @@ (p2 :> {}) @@ (p3 :> {})

SilentPeers == Permutations({p2, p3})

(* Two clients that send for ever.                                         *)
BusyScript == (p1 :> {Bad \o Bad}) @@ (p2 :> {<<"k", "n">>})

SilentScript == [p \in TwoPeers |-> {}]
=============================================================================
