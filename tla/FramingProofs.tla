--------------------------- MODULE FramingProofs ---------------------------
(***************************************************************************)
(* What next_message and one round of read_message and of send_all return, *)
(* for every buffer, chunk size and room in the kernel.                    *)
(***************************************************************************)
EXTENDS Framing, ProtocolProofs

(* What next_message returns: the line before the first newline and the
   buffer after it, or nothing when there is no newline
   (framing.cpp:8-20).                                                      *)
LEMMA NextMessage ==
    ASSUME NEW b \in Seq(Byte)
    PROVE  /\ next_message(b).has_value = HasNewline(b, 0)
           /\ HasNewline(b, 0) =>
                 \E n \in 1..Len(b) :
                    /\ IsNewline(b, 0, n)
                    /\ next_message(b).value = SubSeq(b, 1, n - 1)
                    /\ next_message(b).buffer = SubSeq(b, n + 1, Len(b))
<1>1. HasNewline(b, 0) \in BOOLEAN
    BY DEF HasNewline
<1>2. CASE ~HasNewline(b, 0)
    BY <1>1, <1>2 DEF next_message, nullopt
<1>3. CASE HasNewline(b, 0)
  <2>1. \E i \in 1..Len(b) : IsNewline(b, 0, i)
    BY <1>3, FirstNewline
  <2>2. Newline(b) \in 1..Len(b) /\ IsNewline(b, 0, Newline(b))
    BY <2>1 DEF Newline
  <2>3. PICK v, r : v = SubSeq(b, 1, Newline(b) - 1) /\ r = SubSeq(b, Newline(b) + 1, Len(b))
    OBVIOUS
  <2>4. next_message(b) = [has_value |-> TRUE, value |-> v, buffer |-> r]
    BY <1>3, <2>3 DEF next_message
  <2>5. /\ next_message(b).has_value = TRUE
        /\ next_message(b).value = v /\ next_message(b).buffer = r
    BY <2>4
  <2> QED
    BY <1>3, <2>2, <2>3, <2>5
<1> QED
    BY <1>2, <1>3

(* One recv takes bytes from the front of the kernel's queue, at least one
   (framing.cpp:28-43).                                                     *)
LEMMA RecvRound ==
    ASSUME NEW b \in Seq(Byte), NEW rx \in Seq(Byte), NEW round \in read_message(b, rx)
    PROVE  \E u, v \in Seq(Byte) :
              /\ u # <<>> /\ u \o v = rx
              /\ round.buffer = b \o u /\ round.rx = v
              /\ b \o u \in Seq(Byte) /\ (b \o u) \o v = b \o rx
              /\ Len(rx) = Len(u) + Len(v) /\ Len(b \o u) = Len(b) + Len(u)
<1>1. Len(rx) \in Nat
    BY LenProperties
<1>2. PICK n \in {m \in 1..kChunkBytes : m <= Len(rx)} :
        round = [buffer |-> b \o SubSeq(rx, 1, n), rx |-> SubSeq(rx, n + 1, Len(rx))]
    BY DEF read_message
<1>3. n \in Nat \ {0} /\ n <= Len(rx)
    BY <1>2, ChunkAssumption
<1>4. PICK u, v : u = SubSeq(rx, 1, n) /\ v = SubSeq(rx, n + 1, Len(rx))
    OBVIOUS
<1>5. u \in Seq(Byte) /\ v \in Seq(Byte) /\ Len(u) = n /\ Len(v) = Len(rx) - n
    BY <1>3, <1>4, PrefixFacts, SuffixFacts
<1>6. u \o v = rx /\ (b \o u) \o v = b \o rx
    BY <1>3, <1>4, CutAndJoin, BytesMove
<1>7. b \o u \in Seq(Byte) /\ Len(b \o u) = Len(b) + Len(u)
    BY <1>5, ConcatProperties
<1>8. u # <<>> /\ Len(rx) = Len(u) + Len(v)
    BY <1>1, <1>3, <1>5, EmptySeq
<1>9. round = [buffer |-> b \o u, rx |-> v]
    BY <1>2, <1>4
<1>10. round.buffer = b \o u /\ round.rx = v
    BY <1>9
<1> QED
    BY <1>5, <1>6, <1>7, <1>8, <1>10

(* One send takes bytes from the front of the message, at least one
   (framing.cpp:47-69).                                                     *)
LEMMA SendRound ==
    ASSUME NEW m \in Seq(Byte), NEW room, NEW round \in send_all(m, room)
    PROVE  \E u, v \in Seq(Byte) :
              /\ u # <<>> /\ u \o v = m
              /\ round.sent = u /\ round.rest = v
              /\ Len(m) = Len(u) + Len(v)
<1>1. Len(m) \in Nat
    BY LenProperties
<1>2. PICK n \in {k \in 1..Len(m) : k <= room} :
        round = [sent |-> SubSeq(m, 1, n), rest |-> SubSeq(m, n + 1, Len(m))]
    BY DEF send_all
<1>3. n \in Nat \ {0} /\ n <= Len(m)
    BY <1>1, <1>2
<1>4. PICK u, v : u = SubSeq(m, 1, n) /\ v = SubSeq(m, n + 1, Len(m))
    OBVIOUS
<1>5. u \in Seq(Byte) /\ v \in Seq(Byte) /\ Len(u) = n /\ Len(v) = Len(m) - n
    BY <1>3, <1>4, PrefixFacts, SuffixFacts
<1>6. u \o v = m
    BY <1>3, <1>4, CutAndJoin
<1>8. u # <<>> /\ Len(m) = Len(u) + Len(v)
    BY <1>1, <1>3, <1>5, EmptySeq
<1>9. round = [sent |-> u, rest |-> v]
    BY <1>2, <1>4
<1>10. round.sent = u /\ round.rest = v
    BY <1>9
<1> QED
    BY <1>5, <1>6, <1>8, <1>10
=============================================================================
