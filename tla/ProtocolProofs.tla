--------------------------- MODULE ProtocolProofs ---------------------------
(***************************************************************************)
(* What parsing and executing one frame returns and preserves, and how the *)
(* newlines and the ends of a byte stream behave when it is cut and joined.*)
(***************************************************************************)
EXTENDS Protocol, SequenceTheorems, FiniteSetTheorems, WellFoundedInduction,
        NaturalsInduction, TLAPS

(* A store whose values all come from V.                                    *)
StoreOf(V, data) ==
    /\ IsFiniteSet(DOMAIN data)
    /\ \A k \in DOMAIN data : data[k] \in V

(* A store that short frames alone have written: its values fit in a reply. *)
BoundedStore(data) ==
    /\ IsFiniteSet(DOMAIN data)
    /\ DOMAIN data \subseteq Text
    /\ \A k \in DOMAIN data : data[k] \in Text /\ Len(data[k]) < kMaxInputBytes

(* The key and the value of a command are words of its frame, or empty
   (parser.cpp:7-107).                                                      *)
LEMMA ParseWords ==
    ASSUME NEW V, <<>> \in V,
           NEW f, \A i \in 1..Len(Tokens(f)) : Tokens(f)[i] \in V,
           parse_command(f).has_value
    PROVE  /\ parse_command(f).type \in CommandType
           /\ parse_command(f).key \in V
           /\ parse_command(f).value \in V
<1> DEFINE w == Tokens(f)
<1>1. \A i \in 1..Len(w) : w[i] \in V
    OBVIOUS
<1>2. <<>> \in V
    OBVIOUS
<1>3. ~nullopt.has_value
    BY DEF nullopt
<1> HIDE DEF w
<1> DEFINE Good(c) == c.type \in CommandType /\ c.key \in V /\ c.value \in V
<1>4. CASE Len(w) = 3
  <2>1. Good(Command("Set", w[2], w[3]))
    BY <1>1, <1>4 DEF Command, CommandType
  <2>2. parse_command(f) = Command("Set", w[2], w[3]) \/ parse_command(f) = nullopt
    BY <1>4 DEF parse_command, w
  <2> QED
    BY <2>1, <2>2, <1>3
<1>5. CASE Len(w) = 2
  <2>1. /\ Good(Command("Get", w[2], <<>>))
        /\ Good(Command("Erase", w[2], <<>>))
        /\ Good(Command("Exists", w[2], <<>>))
    BY <1>1, <1>2, <1>5 DEF Command, CommandType
  <2>2. \/ parse_command(f) = Command("Get", w[2], <<>>)
        \/ parse_command(f) = Command("Erase", w[2], <<>>)
        \/ parse_command(f) = Command("Exists", w[2], <<>>)
        \/ parse_command(f) = nullopt
    BY <1>5 DEF parse_command, w
  <2> QED
    BY <2>1, <2>2, <1>3
<1>6. CASE Len(w) = 1
  <2>1. Good(Command("Count", <<>>, <<>>))
    BY <1>2 DEF Command, CommandType
  <2>2. parse_command(f) = Command("Count", <<>>, <<>>) \/ parse_command(f) = nullopt
    BY <1>6 DEF parse_command, w
  <2> QED
    BY <2>1, <2>2, <1>3
<1>7. CASE Len(w) \notin {1, 2, 3}
  <2>1. parse_command(f) = nullopt
    BY <1>7 DEF parse_command, w
  <2> QED
    BY <2>1, <1>3
<1> QED
    BY <1>4, <1>5, <1>6, <1>7

(* A reply is a literal, a count or a value of the store, and what a frame
   writes into the store is a word of it (executor.cpp:6-46,
   store.cpp:4-28).                                                         *)
LEMMA AnswerWords ==
    ASSUME NEW V, <<>> \in V,
           NEW f, \A i \in 1..Len(Tokens(f)) : Tokens(f)[i] \in V,
           NEW data, StoreOf(V, data)
    PROVE  /\ \/ Answer(f, data).text \in V
              \/ \E l \in Literals : Answer(f, data).text = Lit[l]
              \/ \E n \in 0..SizeMax : Answer(f, data).text = CountText[n]
           /\ StoreOf(V, Answer(f, data).store)
           /\ DOMAIN Answer(f, data).store \subseteq DOMAIN data \cup V
<1> DEFINE cmd == parse_command(f)
           Good(a) == /\ \/ a.text \in V
                         \/ \E l \in Literals : a.text = Lit[l]
                         \/ \E n \in 0..SizeMax : a.text = CountText[n]
                      /\ StoreOf(V, a.store)
                      /\ DOMAIN a.store \subseteq DOMAIN data \cup V
           Reply(t, d) == [text |-> t, store |-> d]
<1>2. \A l \in Literals : Good(Reply(Lit[l], data))
    OBVIOUS
<1>3. CASE ~cmd.has_value
  <2>1. Answer(f, data) = Reply(Lit["INVALID COMMAND MESSAGE"], data)
    BY <1>3 DEF Answer
  <2> QED
    BY <2>1, <1>2 DEF Literals
<1>4. CASE cmd.has_value
  <2>1. cmd.type \in CommandType /\ cmd.key \in V /\ cmd.value \in V
    BY <1>4, ParseWords
  <2>2. Answer(f, data) = execute_command(cmd, data)
    BY <1>4 DEF Answer
  <2> HIDE DEF cmd
  <2>3. CASE cmd.type = "Set"
    <3> DEFINE after == set(data, cmd.key, cmd.value)
    <3>1. DOMAIN after = DOMAIN data \cup {cmd.key}
      BY DEF set
    <3>2. IsFiniteSet(DOMAIN after) /\ DOMAIN after \subseteq DOMAIN data \cup V
      BY <3>1, <2>1, FS_AddElement DEF StoreOf
    <3>3. \A k \in DOMAIN after : after[k] \in V
      BY <3>1, <2>1 DEF set, StoreOf
    <3>4. StoreOf(V, after)
      BY <3>2, <3>3 DEF StoreOf
    <3>5. execute_command(cmd, data) = Reply(Lit["OK"], after)
      BY <2>3 DEF execute_command
    <3> HIDE DEF after
    <3>6. Good(Reply(Lit["OK"], after))
      BY <3>2, <3>4 DEF Literals
    <3> QED
      BY <2>2, <3>5, <3>6
  <2>4. CASE cmd.type = "Get"
    <3>1. CASE exists(data, cmd.key)
      <4>1. execute_command(cmd, data) = Reply(data[cmd.key], data)
        BY <2>4, <3>1 DEF execute_command, get
      <4>2. data[cmd.key] \in V
        BY <3>1 DEF exists, StoreOf
      <4> QED
        BY <2>2, <4>1, <4>2
    <3>2. CASE ~exists(data, cmd.key)
      <4>1. execute_command(cmd, data) = Reply(Lit["NOT_FOUND"], data)
        BY <2>4, <3>2 DEF execute_command, get, nullopt
      <4> QED
        BY <2>2, <4>1, <1>2 DEF Literals
    <3> QED
      BY <3>1, <3>2
  <2>5. CASE cmd.type = "Erase"
    <3> DEFINE after == erased(data, cmd.key)
    <3>1. DOMAIN after = DOMAIN data \ {cmd.key}
      BY DEF erased
    <3>2. IsFiniteSet(DOMAIN after) /\ DOMAIN after \subseteq DOMAIN data \cup V
      BY <3>1, FS_RemoveElement DEF StoreOf
    <3>3. \A k \in DOMAIN after : after[k] \in V
      BY <3>1 DEF erased, StoreOf
    <3>4. StoreOf(V, after)
      BY <3>2, <3>3 DEF StoreOf
    <3>5. \/ execute_command(cmd, data) = Reply(Lit["OK"], after)
          \/ execute_command(cmd, data) = Reply(Lit["NOT_FOUND"], after)
      BY <2>5 DEF execute_command
    <3> HIDE DEF after
    <3>6. Good(Reply(Lit["OK"], after)) /\ Good(Reply(Lit["NOT_FOUND"], after))
      BY <3>2, <3>4 DEF Literals
    <3> QED
      BY <2>2, <3>5, <3>6
  <2>6. CASE cmd.type = "Exists"
    <3>1. \/ execute_command(cmd, data) = Reply(Lit["1"], data)
          \/ execute_command(cmd, data) = Reply(Lit["0"], data)
      BY <2>6 DEF execute_command
    <3> QED
      BY <2>2, <3>1, <1>2 DEF Literals
  <2>7. CASE cmd.type = "Count"
    <3>1. PICK n : n = count(data) % (SizeMax + 1)
      OBVIOUS
    <3>2. execute_command(cmd, data) = Reply(CountText[n], data)
      BY <2>7, <3>1 DEF execute_command
    <3>3. count(data) \in Nat
      BY FS_CardinalityType DEF count, StoreOf
    <3>4. n \in 0..SizeMax
      BY <3>1, <3>3, FixedRepliesAssumption
    <3>5. Good(Reply(CountText[n], data))
      BY <3>4
    <3> QED
      BY <2>2, <3>2, <3>5
  <2> QED
    BY <2>1, <2>3, <2>4, <2>5, <2>6, <2>7 DEF CommandType
<1> QED
    BY <1>3, <1>4

(* The reply to a line whose words are texts is a text, whatever its length. *)
LEMMA AnswerText ==
    ASSUME NEW f, Tokens(f) \in Seq(Text), NEW data, StoreOf(Text, data)
    PROVE  /\ Answer(f, data).text \in Text
           /\ StoreOf(Text, Answer(f, data).store)
<1>1. \A i \in 1..Len(Tokens(f)) : Tokens(f)[i] \in Text
    BY ElementOfSeq
<1>2. <<>> \in Text
    BY EmptySeq DEF Text
<1> QED
    BY <1>1, <1>2, AnswerWords, FixedRepliesAssumption

(* A sequence of characters shorter than the allowance is a frame.          *)
LEMMA FrameMembership ==
    ASSUME NEW f \in Text, Len(f) < kMaxInputBytes
    PROVE  f \in Frames
<1>1. Len(f) \in 0..(kMaxInputBytes - 1) /\ f \in [1..Len(f) -> Char]
    BY LenProperties, AllowanceAssumption DEF Text
<1> QED
    BY <1>1 DEF Frames

(* A word of a short frame is a text that fits in a reply.                  *)
LEMMA WordBound ==
    ASSUME NEW f \in Text, Len(f) < kMaxInputBytes,
           NEW i \in 1..Len(Tokens(f))
    PROVE  Tokens(f)[i] \in Text /\ Len(Tokens(f)[i]) < kMaxInputBytes
<1>1. f \in Frames
    BY FrameMembership
<1>2. /\ Tokens(f) \in Seq(Text)
      /\ Len(Tokens(f)[i]) <= Len(f)
    BY <1>1, TokensAssumption
<1>3. Tokens(f)[i] \in Text
    BY <1>2, ElementOfSeq
<1>4. Len(Tokens(f)[i]) \in Nat /\ Len(f) \in Nat
    BY <1>3, LenProperties DEF Text
<1> QED
    BY <1>2, <1>3, <1>4, AllowanceAssumption

(* The reply to a short frame fits, newline included, and the store it
   leaves still holds bounded values only (executor.cpp:6-46,
   store.cpp:4-28).                                                         *)
LEMMA AnswerBound ==
    ASSUME NEW f \in Text, Len(f) < kMaxInputBytes,
           NEW data, BoundedStore(data)
    PROVE  /\ Answer(f, data).text \in Text
           /\ Len(Answer(f, data).text) < kMaxResponseBytes
           /\ BoundedStore(Answer(f, data).store)
<1> DEFINE V == {t \in Text : Len(t) < kMaxInputBytes}
<1>1. \A i \in 1..Len(Tokens(f)) : Tokens(f)[i] \in V
    BY WordBound
<1>2. <<>> \in V
    BY AllowanceAssumption, EmptySeq DEF Text
<1>3. StoreOf(V, data)
    BY DEF StoreOf, BoundedStore
<1>4. \A t \in V : t \in Text /\ Len(t) < kMaxResponseBytes
  <2>1. \A t \in V : Len(t) \in Nat /\ Len(t) < kMaxInputBytes
    BY LenProperties DEF Text
  <2> QED
    BY <2>1, AllowanceAssumption
<1>5. \A t \in V : t \in Text /\ Len(t) < kMaxInputBytes
    OBVIOUS
<1> HIDE DEF V
<1>6. /\ \/ Answer(f, data).text \in V
         \/ \E l \in Literals : Answer(f, data).text = Lit[l]
         \/ \E n \in 0..SizeMax : Answer(f, data).text = CountText[n]
      /\ StoreOf(V, Answer(f, data).store)
      /\ DOMAIN Answer(f, data).store \subseteq DOMAIN data \cup V
    BY <1>1, <1>2, <1>3, AnswerWords
<1>7. BoundedStore(Answer(f, data).store)
    BY <1>5, <1>6 DEF BoundedStore, StoreOf
<1> QED
    BY <1>4, <1>6, <1>7, FixedRepliesAssumption

-----------------------------------------------------------------------------
(* The bytes of a byte string are the bytes of its suffix: a suffix holds a
   newline if the string does after the cut.                                *)
LEMMA SuffixFacts ==
    ASSUME NEW s \in Seq(Byte), NEW n \in Nat, n <= Len(s)
    PROVE  /\ SubSeq(s, n + 1, Len(s)) \in Seq(Byte)
           /\ Len(SubSeq(s, n + 1, Len(s))) = Len(s) - n
           /\ \A i \in 1..(Len(s) - n) : SubSeq(s, n + 1, Len(s))[i] = s[n + i]
           /\ HasNewline(SubSeq(s, n + 1, Len(s)), 0) <=> HasNewline(s, n)
<1> DEFINE t == SubSeq(s, n + 1, Len(s))
<1>1. Len(s) \in Nat
    BY LenProperties
<1>2. \A i \in (n + 1)..Len(s) : s[i] \in Byte
    BY <1>1, ElementOfSeq
<1>3. /\ t \in Seq(Byte)
      /\ Len(t) = IF n + 1 <= Len(s) THEN Len(s) - (n + 1) + 1 ELSE 0
      /\ \A i \in 1..(Len(s) - (n + 1) + 1) : t[i] = s[n + 1 + i - 1]
    BY <1>1, <1>2, SubSeqProperties
<1> HIDE DEF t
<1>4. Len(t) = Len(s) - n
    BY <1>1, <1>3
<1>5. \A i \in 1..(Len(s) - n) : t[i] = s[n + i]
    BY <1>1, <1>3
<1>6. ASSUME HasNewline(t, 0) PROVE HasNewline(s, n)
  <2>1. PICK i \in 1..Len(t) : t[i] = NL
    BY <1>6 DEF HasNewline
  <2>2. n + i \in (n + 1)..Len(s) /\ s[n + i] = NL
    BY <2>1, <1>1, <1>4, <1>5
  <2> QED
    BY <2>2 DEF HasNewline
<1>7. ASSUME HasNewline(s, n) PROVE HasNewline(t, 0)
  <2>1. PICK i \in (n + 1)..Len(s) : s[i] = NL
    BY <1>7 DEF HasNewline
  <2>2. i - n \in 1..Len(t) /\ n + (i - n) = i
    BY <2>1, <1>1, <1>4
  <2>3. t[i - n] = NL
    BY <2>1, <2>2, <1>4, <1>5
  <2> QED
    BY <2>2, <2>3 DEF HasNewline
<1> QED
    BY <1>3, <1>4, <1>5, <1>6, <1>7 DEF t

(* The other end of the cut: a prefix and what it holds.                    *)
LEMMA PrefixFacts ==
    ASSUME NEW s \in Seq(Byte), NEW n \in Nat, n <= Len(s)
    PROVE  /\ SubSeq(s, 1, n) \in Seq(Byte)
           /\ Len(SubSeq(s, 1, n)) = n
           /\ \A i \in 1..n : SubSeq(s, 1, n)[i] = s[i]
<1>1. Len(s) \in Nat
    BY LenProperties
<1>2. \A i \in 1..n : s[i] \in Byte
    BY <1>1, ElementOfSeq
<1>3. /\ SubSeq(s, 1, n) \in Seq(Byte)
      /\ Len(SubSeq(s, 1, n)) = IF 1 <= n THEN n - 1 + 1 ELSE 0
      /\ \A i \in 1..(n - 1 + 1) : SubSeq(s, 1, n)[i] = s[1 + i - 1]
    BY <1>2, SubSeqProperties
<1> QED
    BY <1>3

(* A string is its prefix and its suffix.                                   *)
LEMMA CutAndJoin ==
    ASSUME NEW s \in Seq(Byte), NEW n \in Nat, n <= Len(s)
    PROVE  SubSeq(s, 1, n) \o SubSeq(s, n + 1, Len(s)) = s
<1>1. Len(s) \in Nat
    BY LenProperties
<1>2. 1 \in 1..(Len(s) + 1) /\ n \in (1 - 1)..Len(s) /\ Len(s) \in n..Len(s)
    BY <1>1
<1>3. SubSeq(s, 1, n) \o SubSeq(s, n + 1, Len(s)) = SubSeq(s, 1, Len(s))
    BY <1>2, ConcatAdjacentSubSeq
<1> QED
    BY <1>3, SubSeqFull

(* Bytes that move from the front of one queue to the back of another leave
   the two, end to end, as they were.                                       *)
LEMMA BytesMove ==
    ASSUME NEW s \in Seq(Byte), NEW t \in Seq(Byte), NEW n \in Nat, n <= Len(t)
    PROVE  (s \o SubSeq(t, 1, n)) \o SubSeq(t, n + 1, Len(t)) = s \o t
<1> DEFINE a == SubSeq(t, 1, n)
           b == SubSeq(t, n + 1, Len(t))
<1>1. a \in Seq(Byte) /\ b \in Seq(Byte)
    BY PrefixFacts, SuffixFacts
<1>2. a \o b = t
    BY CutAndJoin
<1> HIDE DEF a, b
<1>3. (s \o a) \o b = s \o (a \o b)
    BY <1>1, ConcatAssociative
<1> QED
    BY <1>2, <1>3 DEF a, b

(* The suffix of two strings end to end, cut inside the first.              *)
LEMMA SuffixOfConcat ==
    ASSUME NEW s \in Seq(Byte), NEW t \in Seq(Byte), NEW n \in Nat, n <= Len(s)
    PROVE  SubSeq(s \o t, n + 1, Len(s \o t)) = SubSeq(s, n + 1, Len(s)) \o t
<1> DEFINE st == s \o t
           a == SubSeq(st, n + 1, Len(st))
           u == SubSeq(s, n + 1, Len(s))
           b == u \o t
<1>1. Len(s) \in Nat /\ Len(t) \in Nat
    BY LenProperties
<1>2. /\ st \in Seq(Byte) /\ Len(st) = Len(s) + Len(t)
      /\ \A i \in 1..(Len(s) + Len(t)) : st[i] = IF i <= Len(s) THEN s[i] ELSE t[i - Len(s)]
    BY ConcatProperties
<1> HIDE DEF st
<1>3. n <= Len(st)
    BY <1>1, <1>2
<1>4. /\ a \in Seq(Byte) /\ Len(a) = Len(st) - n
      /\ \A i \in 1..(Len(st) - n) : a[i] = st[n + i]
    BY <1>2, <1>3, SuffixFacts
<1>5. /\ u \in Seq(Byte) /\ Len(u) = Len(s) - n
      /\ \A i \in 1..(Len(s) - n) : u[i] = s[n + i]
    BY SuffixFacts
<1> HIDE DEF a, u
<1>6. /\ b \in Seq(Byte) /\ Len(b) = Len(u) + Len(t)
      /\ \A i \in 1..(Len(u) + Len(t)) : b[i] = IF i <= Len(u) THEN u[i] ELSE t[i - Len(u)]
    BY <1>5, ConcatProperties
<1> HIDE DEF b
<1>7. Len(a) = Len(b)
    BY <1>1, <1>2, <1>4, <1>5, <1>6
<1>8. ASSUME NEW i \in 1..Len(a) PROVE a[i] = b[i]
  <2>1. i \in 1..(Len(s) + Len(t) - n) /\ n + i \in 1..(Len(s) + Len(t))
    BY <1>1, <1>2, <1>4
  <2>2. a[i] = st[n + i]
    BY <2>1, <1>2, <1>4
  <2>3. CASE n + i <= Len(s)
    <3>1. st[n + i] = s[n + i]
      BY <2>1, <2>3, <1>2
    <3>2. i \in 1..(Len(s) - n) /\ i \in 1..(Len(u) + Len(t)) /\ i <= Len(u)
      BY <2>1, <2>3, <1>1, <1>5
    <3>3. b[i] = u[i] /\ u[i] = s[n + i]
      BY <3>2, <1>5, <1>6
    <3> QED
      BY <2>2, <3>1, <3>3
  <2>4. CASE ~(n + i <= Len(s))
    <3>1. st[n + i] = t[n + i - Len(s)]
      BY <2>1, <2>4, <1>2
    <3>2. i \in 1..(Len(u) + Len(t)) /\ ~(i <= Len(u)) /\ i - Len(u) = n + i - Len(s)
      BY <2>1, <2>4, <1>1, <1>5
    <3>3. b[i] = t[i - Len(u)]
      BY <3>2, <1>6
    <3> QED
      BY <2>2, <3>1, <3>2, <3>3
  <2> QED
    BY <2>3, <2>4
<1>9. a = b
    BY <1>4, <1>6, <1>7, <1>8, SeqEqual
<1> QED
    BY <1>9 DEF a, b, u, st

(* The prefix of two strings end to end, cut inside the first.              *)
LEMMA PrefixOfConcat ==
    ASSUME NEW s \in Seq(Byte), NEW t \in Seq(Byte), NEW n \in Nat, n <= Len(s)
    PROVE  SubSeq(s \o t, 1, n) = SubSeq(s, 1, n)
<1>1. Len(s) \in Nat /\ Len(t) \in Nat
    BY LenProperties
<1>2. CASE n = 0
    BY <1>2, SubSeqEmpty
<1>3. CASE n # 0
  <2>1. 1 \in 1..Len(s) /\ n \in 1..Len(s)
    BY <1>1, <1>3
  <2> QED
    BY <2>1, SubSeqOfConcat1
<1> QED
    BY <1>2, <1>3

-----------------------------------------------------------------------------
(* A string with a newline after position from has a first one: find does
   not return npos.                                                         *)
LEMMA FirstNewline ==
    ASSUME NEW s \in Seq(Byte), NEW from \in Nat, HasNewline(s, from)
    PROVE  \E i \in (from + 1)..Len(s) : IsNewline(s, from, i)
<1> DEFINE R == OpToRel(<, Nat)
           N == {i \in (from + 1)..Len(s) : s[i] = NL}
<1>1. Len(s) \in Nat
    BY LenProperties
<1>2. N \subseteq Nat /\ N # {}
    BY <1>1 DEF HasNewline
<1>3. PICK x \in N : \A y \in N : ~(<<y, x>> \in R)
  <2> HIDE DEF R, N
  <2>1. IsWellFoundedOn(R, Nat)
    BY NatLessThanWellFounded DEF R
  <2> QED
    BY <1>2, <2>1, WFMin
<1>4. \A y \in N : x <= y
  <2> SUFFICES ASSUME NEW y \in N PROVE x <= y
    OBVIOUS
  <2>1. ~(<<y, x>> \in {ss \in Nat \X Nat : ss[1] < ss[2]})
    BY <1>3 DEF OpToRel
  <2> QED
    BY <2>1, <1>2
<1>5. \A j \in (from + 1)..(x - 1) : s[j] # NL
  <2> SUFFICES ASSUME NEW j \in (from + 1)..(x - 1), s[j] = NL PROVE FALSE
    OBVIOUS
  <2>1. j \in N
    BY <1>1
  <2> QED
    BY <2>1, <1>1, <1>4
<1> QED
    BY <1>5 DEF IsNewline

(* ... and only one first one.                                              *)
LEMMA OneFirstNewline ==
    ASSUME NEW s, NEW from \in Nat, Len(s) \in Nat,
           NEW i, IsNewline(s, from, i), NEW j, IsNewline(s, from, j)
    PROVE  i = j
<1>1. i \in Nat /\ j \in Nat /\ i > from /\ j > from
    BY DEF IsNewline
<1>2. ~(i < j)
    BY <1>1 DEF IsNewline
<1>3. ~(j < i)
    BY <1>1 DEF IsNewline
<1> QED
    BY <1>1, <1>2, <1>3

(* The first newline of a string is the first newline of every longer one.  *)
LEMMA NewlineOfConcat ==
    ASSUME NEW s \in Seq(Byte), NEW t \in Seq(Byte), NEW i, IsNewline(s, 0, i)
    PROVE  /\ i \in 1..Len(s \o t) /\ i \in Nat \ {0} /\ i <= Len(s)
           /\ IsNewline(s \o t, 0, i)
           /\ SubSeq(s \o t, 1, i - 1) = SubSeq(s, 1, i - 1)
           /\ SubSeq(s \o t, i + 1, Len(s \o t)) = SubSeq(s, i + 1, Len(s)) \o t
<1>1. Len(s) \in Nat /\ Len(t) \in Nat
    BY LenProperties
<1>2. i \in 1..Len(s) /\ s[i] = NL /\ \A j \in 1..(i - 1) : s[j] # NL
    BY DEF IsNewline
<1>3. /\ Len(s \o t) = Len(s) + Len(t)
      /\ \A k \in 1..(Len(s) + Len(t)) : (s \o t)[k] = IF k <= Len(s) THEN s[k] ELSE t[k - Len(s)]
    BY ConcatProperties
<1>4. i \in 1..Len(s \o t) /\ i \in Nat \ {0} /\ i <= Len(s) /\ i - 1 \in Nat /\ i - 1 <= Len(s)
    BY <1>1, <1>2, <1>3
<1>5. (s \o t)[i] = NL
    BY <1>1, <1>2, <1>3
<1>6. \A j \in 1..(i - 1) : (s \o t)[j] # NL
    BY <1>1, <1>2, <1>3
<1>7. IsNewline(s \o t, 0, i)
    BY <1>4, <1>5, <1>6 DEF IsNewline
<1> QED
    BY <1>4, <1>7, PrefixOfConcat, SuffixOfConcat

(* What stands before the first newline is a text.                          *)
LEMMA LineIsText ==
    ASSUME NEW s \in Seq(Byte), NEW i, IsNewline(s, 0, i)
    PROVE  SubSeq(s, 1, i - 1) \in Text /\ Len(SubSeq(s, 1, i - 1)) = i - 1
<1>1. Len(s) \in Nat
    BY LenProperties
<1>2. i \in 1..Len(s) /\ \A j \in 1..(i - 1) : s[j] # NL
    BY DEF IsNewline
<1>3. \A j \in 1..(i - 1) : s[j] \in Char
    BY <1>1, <1>2, ElementOfSeq DEF Char
<1>4. /\ SubSeq(s, 1, i - 1) \in Seq(Char)
      /\ Len(SubSeq(s, 1, i - 1)) = IF 1 <= i - 1 THEN (i - 1) - 1 + 1 ELSE 0
    BY <1>1, <1>2, <1>3, SubSeqProperties
<1> QED
    BY <1>1, <1>2, <1>4 DEF Text

(* A text holds no newline, and is a string of bytes.                       *)
LEMMA TextFacts ==
    ASSUME NEW t \in Text
    PROVE  /\ t \in Seq(Byte)
           /\ ~HasNewline(t, 0)
           /\ Append(t, NL) \in Seq(Byte)
           /\ Append(t, NL) # <<>>
           /\ Len(Append(t, NL)) = Len(t) + 1
           /\ IsNewline(Append(t, NL), 0, Len(t) + 1)
<1>1. t \in Seq(Byte)
    BY SeqMonotonic DEF Text, Char
<1>2. Len(t) \in Nat
    BY <1>1, LenProperties
<1>3. \A i \in 1..Len(t) : t[i] # NL
    BY ElementOfSeq DEF Text, Char
<1>4. /\ Append(t, NL) \in Seq(Byte) /\ Append(t, NL) # <<>>
      /\ Len(Append(t, NL)) = Len(t) + 1
      /\ \A i \in 1..Len(t) : Append(t, NL)[i] = t[i]
      /\ Append(t, NL)[Len(t) + 1] = NL
    BY <1>1, AppendProperties, AlphabetAssumption
<1>5. IsNewline(Append(t, NL), 0, Len(t) + 1)
    BY <1>2, <1>3, <1>4 DEF IsNewline
<1> QED
    BY <1>1, <1>3, <1>4, <1>5 DEF HasNewline

(* A suffix of a suffix.                                                    *)
LEMMA SuffixOfSuffix ==
    ASSUME NEW s \in Seq(Byte), NEW k \in Nat, NEW n \in Nat, k + n <= Len(s),
           NEW p, p = SubSeq(s, k + 1, Len(s))
    PROVE  SubSeq(p, n + 1, Len(p)) = SubSeq(s, (k + n) + 1, Len(s))
<1>1. Len(s) \in Nat /\ k <= Len(s) /\ k + n \in Nat
    BY LenProperties
<1>2. /\ p \in Seq(Byte) /\ Len(p) = Len(s) - k
      /\ \A i \in 1..(Len(s) - k) : p[i] = s[k + i]
    BY <1>1, SuffixFacts
<1>3. n <= Len(p)
    BY <1>1, <1>2
<1>4. PICK u, v : u = SubSeq(p, n + 1, Len(p)) /\ v = SubSeq(s, (k + n) + 1, Len(s))
    OBVIOUS
<1>5. /\ u \in Seq(Byte) /\ Len(u) = Len(p) - n
      /\ \A i \in 1..(Len(p) - n) : u[i] = p[n + i]
    BY <1>2, <1>3, <1>4, SuffixFacts
<1>6. /\ v \in Seq(Byte) /\ Len(v) = Len(s) - (k + n)
      /\ \A i \in 1..(Len(s) - (k + n)) : v[i] = s[(k + n) + i]
    BY <1>1, <1>4, SuffixFacts
<1>7. PICK l \in Nat : l = Len(s) - (k + n)
  <2>1. Len(s) - (k + n) \in Nat
    BY <1>1
  <2> WITNESS Len(s) - (k + n) \in Nat
  <2> QED
    OBVIOUS
<1>8. Len(u) = l /\ Len(v) = l
    BY <1>1, <1>2, <1>5, <1>6, <1>7
<1>9. ASSUME NEW i \in 1..l PROVE u[i] = v[i]
  <2>1. i \in 1..(Len(p) - n) /\ n + i \in 1..(Len(s) - k) /\ k + (n + i) = (k + n) + i
    BY <1>1, <1>2, <1>7
  <2>2. u[i] = p[n + i] /\ p[n + i] = s[k + (n + i)]
    BY <1>2, <1>5, <2>1
  <2>3. v[i] = s[(k + n) + i]
    BY <1>6, <1>7
  <2> QED
    BY <2>1, <2>2, <2>3
<1> QED
    BY <1>4, <1>5, <1>6, <1>8, <1>9, SeqEqual

(* A prefix of a suffix is a part of the whole.                             *)
LEMMA PrefixOfSuffix ==
    ASSUME NEW s \in Seq(Byte), NEW k \in Nat, NEW l \in Nat, NEW e \in Nat,
           e = k + l, e <= Len(s), NEW p, p = SubSeq(s, k + 1, Len(s))
    PROVE  SubSeq(p, 1, l) = SubSeq(s, k + 1, e)
<1>1. Len(s) \in Nat /\ k <= Len(s)
    BY LenProperties
<1>2. /\ p \in Seq(Byte) /\ Len(p) = Len(s) - k
      /\ \A i \in 1..(Len(s) - k) : p[i] = s[k + i]
    BY <1>1, SuffixFacts
<1>3. PICK u, v : u = SubSeq(p, 1, l) /\ v = SubSeq(s, k + 1, e)
    OBVIOUS
<1>4. l <= Len(p)
    BY <1>1, <1>2
<1>5. /\ u \in Seq(Byte) /\ Len(u) = l /\ \A i \in 1..l : u[i] = p[i]
    BY <1>2, <1>3, <1>4, PrefixFacts
<1>6. \A i \in (k + 1)..e : s[i] \in Byte
    BY <1>1, ElementOfSeq
<1>7. /\ v \in Seq(Byte)
      /\ Len(v) = IF k + 1 <= e THEN e - (k + 1) + 1 ELSE 0
      /\ \A i \in 1..(e - (k + 1) + 1) : v[i] = s[(k + 1) + i - 1]
    BY <1>3, <1>6, SubSeqProperties
<1>8. Len(v) = l
    BY <1>7
<1>9. ASSUME NEW i \in 1..l PROVE u[i] = v[i]
  <2>1. i \in 1..(e - (k + 1) + 1) /\ (k + 1) + i - 1 = k + i /\ i \in 1..(Len(s) - k)
    BY <1>1
  <2> QED
    BY <1>2, <1>5, <1>7, <2>1
<1>10. u = v
    BY <1>5, <1>7, <1>8, <1>9, SeqEqual
<1> QED
    BY <1>3, <1>10

(* The first newline of s after position k is the first of the suffix.      *)
LEMMA NewlineOfSuffix ==
    ASSUME NEW s \in Seq(Byte), NEW k \in Nat, k <= Len(s), NEW n \in Nat, IsNewline(s, k, n),
           NEW p, p = SubSeq(s, k + 1, Len(s)), NEW m \in Nat, m = n - k
    PROVE  /\ IsNewline(p, 0, m)
           /\ SubSeq(p, m + 1, Len(p)) = SubSeq(s, n + 1, Len(s))
<1>1. Len(s) \in Nat
    BY LenProperties
<1>2. n \in (k + 1)..Len(s) /\ s[n] = NL /\ \A j \in (k + 1)..(n - 1) : s[j] # NL
    BY DEF IsNewline
<1>3. /\ p \in Seq(Byte) /\ Len(p) = Len(s) - k
      /\ \A i \in 1..(Len(s) - k) : p[i] = s[k + i]
    BY SuffixFacts
<1>4. m \in 1..Len(p) /\ k + m = n
    BY <1>1, <1>2, <1>3
<1>5. IsNewline(p, 0, m)
  <2>1. p[m] = NL
    BY <1>2, <1>3, <1>4
  <2>2. ASSUME NEW j \in 1..(m - 1) PROVE p[j] # NL
    <3>1. j \in 1..(Len(s) - k) /\ k + j \in (k + 1)..(n - 1)
      BY <1>1, <1>2, <1>4
    <3> QED
      BY <1>2, <1>3, <3>1
  <2> QED
    BY <1>4, <2>1, <2>2 DEF IsNewline
<1>6. SubSeq(p, m + 1, Len(p)) = SubSeq(s, n + 1, Len(s))
  <2>1. SubSeq(p, m + 1, Len(p)) = SubSeq(s, (k + m) + 1, Len(s))
    BY <1>1, <1>2, <1>4, SuffixOfSuffix
  <2> QED
    BY <2>1, <1>4
<1> QED
    BY <1>5, <1>6

-----------------------------------------------------------------------------
(* A recursive function that takes one step per number is what its
   definition says it is, if the steps stay inside a set.                   *)

(* A set of naturals that is not empty has a least element.                 *)
LEMMA Least ==
    ASSUME NEW T \in SUBSET Nat, T # {} PROVE \E x \in T : \A y \in T : x <= y
<1> DEFINE R == OpToRel(<, Nat)
<1>1. PICK x \in T : \A y \in T : ~(<<y, x>> \in R)
  <2> HIDE DEF R
  <2>1. IsWellFoundedOn(R, Nat)
    BY NatLessThanWellFounded DEF R
  <2> QED
    BY <2>1, WFMin
<1>2. ASSUME NEW y \in T PROVE x <= y
  <2>1. ~(<<y, x>> \in {ss \in Nat \X Nat : ss[1] < ss[2]})
    BY <1>1 DEF OpToRel
  <2> QED
    BY <2>1
<1> QED
    BY <1>2

Chain(f, step, z, n) ==
    /\ DOMAIN f = 0..n /\ f[0] = z
    /\ \A m \in 1..n : f[m] = step[f[m - 1]]

OneLink(z) == [m \in 0..0 |-> z]

NextLink(f, step, n) == [m \in 0..n |-> IF m < n THEN f[m] ELSE step[f[n - 1]]]

(* Every number of steps can be taken.                                      *)
LEMMA Chains ==
    ASSUME NEW step, NEW z, NEW n \in Nat
    PROVE  \E f : Chain(f, step, z, n)
<1> DEFINE T == {k \in Nat : \A f : ~Chain(f, step, z, k)}
<1>1. SUFFICES ASSUME T # {} PROVE FALSE
    OBVIOUS
<1>2. T \in SUBSET Nat
    OBVIOUS
<1>3. PICK k \in T : \A m \in T : k <= m
  <2> HIDE DEF T
  <2> QED
    BY <1>1, <1>2, Least
<1>4. k \in Nat /\ \A f : ~Chain(f, step, z, k)
    OBVIOUS
<1>5. k # 0
  <2>1. Chain(OneLink(z), step, z, 0)
    BY DEF Chain, OneLink
  <2> QED
    BY <1>4, <2>1
<1>6. k - 1 \in Nat /\ k - 1 \notin T
  <2> HIDE DEF T
  <2> QED
    BY <1>3, <1>4, <1>5
<1>7. PICK g : Chain(g, step, z, k - 1)
    BY <1>6
<1>8. PICK f : f = NextLink(g, step, k)
    OBVIOUS
<1>9. /\ DOMAIN f = 0..k
      /\ \A m \in 0..k : f[m] = IF m < k THEN g[m] ELSE step[g[k - 1]]
    BY <1>8 DEF NextLink
<1>10. g[0] = z /\ \A m \in 1..(k - 1) : g[m] = step[g[m - 1]]
    BY <1>7 DEF Chain
<1>11. f[0] = z
    BY <1>4, <1>5, <1>9, <1>10
<1>12. ASSUME NEW m \in 1..k PROVE f[m] = step[f[m - 1]]
  <2>1. m \in 0..k /\ m - 1 \in 0..k /\ m - 1 < k
    BY <1>4
  <2>2. f[m - 1] = g[m - 1]
    BY <1>9, <2>1
  <2>3. CASE m < k
    BY <1>4, <1>9, <1>10, <2>1, <2>2, <2>3
  <2>4. CASE m = k
    BY <1>9, <2>1, <2>2, <2>4
  <2> QED
    BY <1>4, <2>3, <2>4
<1>13. Chain(f, step, z, k)
    BY <1>9, <1>11, <1>12 DEF Chain
<1> QED
    BY <1>4, <1>13
=============================================================================
