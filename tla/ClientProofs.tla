---------------------------- MODULE ClientProofs ----------------------------
(***************************************************************************)
(* The client's replies are the server's answers to its lines, one line in *)
(* doubt at a time, for every input, every number of addresses and every   *)
(* way the two streams are cut.                                            *)
(***************************************************************************)
EXTENDS Client, FramingProofs

ClientType ==
    /\ client \in [pc : {"resolve", "address", "check", "getline", "send", "read",
                         "done", "killed"},
                   left : Nat, fd : {"none", "unconnected", "connected"},
                   unsent : Seq(Byte), response_buffer : Seq(Byte)]
    /\ asked \in Seq(Lines) /\ printed \in Seq(Text)
    /\ log \in Seq([line : Text, reply : Text])
    /\ inbox \in [{Me} -> Seq(Byte)] /\ outbox \in [{Me} -> Seq(Byte)]
    /\ status \in [{Me} -> {"open", "ended", "lost"}]
    /\ StoreOf(Text, kv)

(* The three histories advance together.                                   *)
Histories ==
    /\ Len(printed) <= Len(log) /\ Len(log) <= Len(asked)
    /\ Len(asked) <= Len(printed) + 1
    /\ \A i \in 1..Len(log) : log[i].line = asked[i]
    /\ \A i \in 1..Len(printed) : log[i].reply = printed[i]

Begins(s, t) == Len(s) <= Len(t) /\ SubSeq(t, 1, Len(s)) = s

(* Every line is answered: both streams are empty.                         *)
Quiet ==
    /\ client.pc \notin {"send", "read"}
    /\ inbox[Me] = <<>> /\ outbox[Me] = <<>> /\ client.response_buffer = <<>>

(* The last line is on its way: the server has a beginning of it, and on a
   live connection exactly what the client has sent.                       *)
Requesting ==
    LET message == request(asked[Len(asked)]) IN
    /\ outbox[Me] = <<>> /\ client.response_buffer = <<>>
    /\ Begins(inbox[Me], message)
    /\ client.pc = "send" /\ status[Me] # "lost" => inbox[Me] \o client.unsent = message

(* The last line is executed: a beginning of its reply is on its way.      *)
Replying ==
    /\ client.pc = "send" => status[Me] = "lost"
    /\ inbox[Me] = <<>>
    /\ Begins(client.response_buffer \o outbox[Me], Append(log[Len(log)].reply, NL))

Streams ==
    /\ client.pc = "send" => client.unsent # <<>>
    /\ Len(asked) = Len(printed) => Quiet
    /\ Len(asked) # Len(printed) =>
          /\ client.pc \in {"send", "read", "done", "killed"}
          /\ IF Len(log) = Len(printed) THEN Requesting ELSE Replying

Inv == ClientType /\ Histories /\ Streams

-----------------------------------------------------------------------------
(* A beginning of a string leaves a rest, and what leaves a rest begins it. *)
LEMMA BeginsRest ==
    ASSUME NEW s \in Seq(Byte), NEW t \in Seq(Byte)
    PROVE  /\ Begins(s, t) => \E z \in Seq(Byte) : s \o z = t
           /\ \A z \in Seq(Byte) : s \o z = t => Begins(s, t)
<1>1. Len(s) \in Nat /\ Len(t) \in Nat
    BY LenProperties
<1>2. ASSUME Begins(s, t) PROVE \E z \in Seq(Byte) : s \o z = t
  <2>1. Len(s) <= Len(t) /\ SubSeq(t, 1, Len(s)) = s
    BY <1>2 DEF Begins
  <2>2. SubSeq(t, Len(s) + 1, Len(t)) \in Seq(Byte)
    BY <1>1, <2>1, SuffixFacts
  <2>3. SubSeq(t, 1, Len(s)) \o SubSeq(t, Len(s) + 1, Len(t)) = t
    BY <1>1, <2>1, CutAndJoin
  <2> QED
    BY <2>1, <2>2, <2>3
<1>3. ASSUME NEW z \in Seq(Byte), s \o z = t PROVE Begins(s, t)
  <2>1. Len(z) \in Nat /\ Len(t) = Len(s) + Len(z)
    BY <1>3, LenProperties, ConcatProperties
  <2>2. SubSeq(s \o z, 1, Len(s)) = SubSeq(s, 1, Len(s))
    BY <1>1, <1>3, PrefixOfConcat
  <2>3. SubSeq(s, 1, Len(s)) = s
    BY SubSeqFull
  <2> QED
    BY <1>1, <1>3, <2>1, <2>2, <2>3 DEF Begins
<1> QED
    BY <1>2, <1>3

(* Beginnings compose, and extend a common front.                           *)
LEMMA BeginsFacts ==
    ASSUME NEW r \in Seq(Byte), NEW s \in Seq(Byte), NEW t \in Seq(Byte)
    PROVE  /\ Begins(s, s) /\ Begins(<<>>, s)
           /\ Begins(s, <<>>) => s = <<>>
           /\ Begins(r, s) /\ Begins(s, t) => Begins(r, t)
           /\ Begins(s, t) => Begins(r \o s, r \o t)
<1>1. /\ <<>> \in Seq(Byte) /\ s \o <<>> = s /\ <<>> \o s = s
      /\ r \o s \in Seq(Byte) /\ r \o t \in Seq(Byte)
    BY EmptySeq, ConcatEmptySeq, ConcatProperties
<1>2. Begins(s, s) /\ Begins(<<>>, s)
    BY <1>1, BeginsRest
<1>3. ASSUME Begins(s, <<>>) PROVE s = <<>>
  <2>1. Len(s) \in Nat /\ Len(s) <= 0
    BY <1>3, EmptySeq, LenProperties DEF Begins
  <2> QED
    BY <2>1, EmptySeq
<1> \A u, v, w \in Seq(Byte) : (u \o v) \o w = u \o (v \o w)
    BY ConcatAssociative
<1>4. ASSUME Begins(r, s), Begins(s, t) PROVE Begins(r, t)
  <2>1. PICK y \in Seq(Byte) : r \o y = s
    BY <1>4, BeginsRest
  <2>2. PICK z \in Seq(Byte) : s \o z = t
    BY <1>4, BeginsRest
  <2>3. (r \o y) \o z = r \o (y \o z)
    OBVIOUS
  <2>4. y \o z \in Seq(Byte)
    BY ConcatProperties
  <2>5. PICK yz : yz = y \o z
    OBVIOUS
  <2>6. yz \in Seq(Byte)
    BY <2>4, <2>5
  <2>7. r \o yz = s \o z
    BY <2>1, <2>3, <2>5
  <2>8. r \o yz = t
    BY <2>2, <2>7
  <2> QED
    BY <2>6, <2>8, BeginsRest
<1>5. ASSUME Begins(s, t) PROVE Begins(r \o s, r \o t)
  <2>1. PICK z \in Seq(Byte) : s \o z = t
    BY <1>5, BeginsRest
  <2>2. (r \o s) \o z = r \o (s \o z)
    OBVIOUS
  <2>3. PICK rs, rt : rs = r \o s /\ rt = r \o t
    OBVIOUS
  <2>4. rs \in Seq(Byte) /\ rt \in Seq(Byte) /\ rs \o z = rt
    BY <1>1, <2>1, <2>2, <2>3
  <2> QED
    BY <2>3, <2>4, BeginsRest
<1> QED
    BY <1>2, <1>3, <1>4, <1>5

(* A beginning of a line that holds a newline is the line.                  *)
LEMMA WholeLine ==
    ASSUME NEW line \in Text, NEW s \in Seq(Byte), Begins(s, Append(line, NL)),
           NEW i, IsNewline(s, 0, i)
    PROVE  /\ s = Append(line, NL)
           /\ SubSeq(s, 1, i - 1) = line
           /\ SubSeq(s, i + 1, Len(s)) = <<>>
<1>1. PICK m : m = Append(line, NL)
    OBVIOUS
<1>2. m \in Seq(Byte) /\ Len(m) = Len(line) + 1 /\ IsNewline(m, 0, Len(line) + 1)
    BY <1>1, TextFacts
<1>3. /\ Len(s) \in Nat /\ Len(m) \in Nat /\ Len(line) \in Nat /\ line \in Seq(Byte)
      /\ line \in Seq(Char)
    BY <1>2, LenProperties, TextFacts DEF Text
<1>4. PICK z \in Seq(Byte) : s \o z = m
    BY <1>1, <1>2, BeginsRest
<1>5. IsNewline(m, 0, i)
  <2>1. IsNewline(s \o z, 0, i)
    BY NewlineOfConcat
  <2> QED
    BY <2>1, <1>4
<1>6. i = Len(line) + 1
    BY <1>2, <1>3, <1>5, OneFirstNewline
<1>7. i \in 1..Len(s)
    BY DEF IsNewline
<1>8. Len(s) = Len(m) /\ SubSeq(m, 1, Len(s)) = s
  <2>1. Begins(s, m)
    BY <1>1
  <2>2. Len(s) <= Len(m) /\ SubSeq(m, 1, Len(s)) = s
    BY <2>1 DEF Begins
  <2>3. PICK k, l, n : k = Len(s) /\ l = Len(m) /\ n = Len(line)
    OBVIOUS
  <2>4. k \in Nat /\ l \in Nat /\ n \in Nat /\ k <= l /\ l = n + 1 /\ n + 1 \in 1..k
    BY <2>2, <2>3, <1>2, <1>3, <1>6, <1>7
  <2>5. k = l
    BY <2>4
  <2> QED
    BY <2>2, <2>3, <2>5
<1>9. s = m
    BY <1>2, <1>8, SubSeqFull
<1>10. SubSeq(m, 1, Len(line)) = line
  <2>1. m = line \o <<NL>> /\ <<NL>> \in Seq(Byte)
    BY <1>1, <1>3, AlphabetAssumption, AppendIsConcat
  <2>2. SubSeq(line \o <<NL>>, 1, Len(line)) = SubSeq(line, 1, Len(line))
    BY <1>3, <2>1, PrefixOfConcat
  <2> QED
    BY <1>3, <2>1, <2>2, SubSeqFull
<1>11. SubSeq(m, Len(m) + 1, Len(m)) = <<>>
    BY <1>2, <1>3, SubSeqEmpty
<1> QED
    BY <1>1, <1>2, <1>3, <1>6, <1>9, <1>10, <1>11

-----------------------------------------------------------------------------
(* A line of the input is a text; so is a request before its newline.       *)
LEMMA LineFacts ==
    ASSUME NEW line \in Lines
    PROVE  /\ line \in Text /\ Tokens(line) \in Seq(Text)
           /\ request(line) = Append(line, NL)
           /\ request(line) \in Seq(Byte) /\ request(line) # <<>>
<1>1. line \in Text /\ Tokens(line) \in Seq(Text)
    BY ClientAssumption
<1> QED
    BY <1>1, TextFacts DEF request

(* The bookkeeping of a state that satisfies the invariant.                 *)
LEMMA Counts ==
    ASSUME Inv
    PROVE  /\ Len(asked) \in Nat /\ Len(printed) \in Nat /\ Len(log) \in Nat
           /\ inbox[Me] \in Seq(Byte) /\ outbox[Me] \in Seq(Byte)
           /\ client.unsent \in Seq(Byte) /\ client.response_buffer \in Seq(Byte)
           /\ Len(asked) # Len(printed) =>
                 /\ Len(asked) = Len(printed) + 1 /\ Len(asked) \in 1..Len(asked)
                 /\ asked[Len(asked)] \in Lines
           /\ Len(log) # Len(printed) =>
                 /\ Len(log) = Len(printed) + 1 /\ Len(log) = Len(asked)
                 /\ Len(log) \in 1..Len(log)
                 /\ log[Len(log)].reply \in Text
<1>1. Len(asked) \in Nat /\ Len(printed) \in Nat /\ Len(log) \in Nat
    BY LenProperties DEF Inv, ClientType
<1>2. /\ inbox[Me] \in Seq(Byte) /\ outbox[Me] \in Seq(Byte)
      /\ client.unsent \in Seq(Byte) /\ client.response_buffer \in Seq(Byte)
    BY DEF Inv, ClientType
<1>3. /\ Len(printed) <= Len(log) /\ Len(log) <= Len(asked)
      /\ Len(asked) <= Len(printed) + 1
    BY DEF Inv, Histories
<1>4. ASSUME Len(asked) # Len(printed)
      PROVE  /\ Len(asked) = Len(printed) + 1 /\ Len(asked) \in 1..Len(asked)
             /\ asked[Len(asked)] \in Lines
  <2>1. Len(asked) = Len(printed) + 1 /\ Len(asked) \in 1..Len(asked)
    BY <1>1, <1>3, <1>4
  <2>2. asked \in Seq(Lines)
    BY DEF Inv, ClientType
  <2> QED
    BY <2>1, <2>2, ElementOfSeq
<1>5. ASSUME Len(log) # Len(printed)
      PROVE  /\ Len(log) = Len(printed) + 1 /\ Len(log) = Len(asked)
             /\ Len(log) \in 1..Len(log)
             /\ log[Len(log)].reply \in Text
  <2>1. Len(log) = Len(printed) + 1 /\ Len(log) = Len(asked) /\ Len(log) \in 1..Len(log)
    BY <1>1, <1>3, <1>5
  <2>2. log \in Seq([line : Text, reply : Text])
    BY DEF Inv, ClientType
  <2>3. log[Len(log)] \in [line : Text, reply : Text]
    BY <2>1, <2>2, ElementOfSeq
  <2> QED
    BY <2>1, <2>3
<1> QED
    BY <1>1, <1>2, <1>4, <1>5

(* The client has nothing to send or print when no program line has run.    *)
LEMMA InitInv == Init => Inv
<1> SUFFICES ASSUME Init PROVE Inv
    OBVIOUS
<1>1. /\ <<>> \in Seq(Byte) /\ <<>> \in Seq(Lines) /\ <<>> \in Seq(Text) /\ Len(<<>>) = 0
      /\ <<>> \in Seq([line : Text, reply : Text])
    BY EmptySeq
<1>2. /\ inbox = [c \in {Me} |-> <<>>] /\ outbox = [c \in {Me} |-> <<>>]
      /\ status = [c \in {Me} |-> "open"] /\ kv = EmptyStore
    BY DEF Init, Server!Init, Server!EmptyStore, EmptyStore
<1>3. StoreOf(Text, kv)
    BY <1>2, FS_EmptySet DEF EmptyStore, StoreOf
<1>4. ClientType
    BY <1>1, <1>2, <1>3 DEF Init, ClientType
<1>5. Histories
    BY <1>1 DEF Init, Histories
<1>6. Streams
    BY <1>1, <1>2 DEF Init, Streams, Quiet
<1> QED
    BY <1>4, <1>5, <1>6 DEF Inv

(* A step that reads, executes and prints no line keeps the invariant when
   it only cuts the end of a stream, and that of a live client's request
   never; the client may come to its end, or anywhere before its first
   exchange.                                                                *)
LEMMA Between ==
    ASSUME Inv, asked' = asked, printed' = printed, log' = log,
           ClientType',
           client'.unsent = client.unsent,
           client'.response_buffer = client.response_buffer,
           \/ client'.pc = client.pc
           \/ /\ client'.pc \notin {"send", "read"}
              /\ client'.pc \in {"done", "killed"} \/ Len(asked) = Len(printed),
           client'.pc = "send" /\ status'[Me] # "lost" =>
               status[Me] # "lost" /\ inbox'[Me] = inbox[Me],
           Begins(inbox'[Me], inbox[Me]), Begins(outbox'[Me], outbox[Me])
    PROVE  Inv'
<1>1. PICK i, o, j, p, b : /\ i = inbox[Me] /\ o = outbox[Me] /\ j = inbox'[Me] /\ p = outbox'[Me]
                           /\ b = client.response_buffer
    OBVIOUS
<1>2. /\ i \in Seq(Byte) /\ o \in Seq(Byte) /\ j \in Seq(Byte) /\ p \in Seq(Byte)
      /\ b \in Seq(Byte) /\ Begins(j, i) /\ Begins(p, o)
    BY <1>1 DEF Inv, ClientType
<1>3. Histories'
    BY DEF Inv, Histories
<1>4. client'.pc = "send" => client.pc = "send" /\ client'.unsent # <<>>
    BY DEF Inv, Streams
<1>5. CASE Len(asked) = Len(printed)
  <2>1. Quiet
    BY <1>5 DEF Inv, Streams
  <2>2. i = <<>> /\ o = <<>> /\ b = <<>>
    BY <2>1, <1>1 DEF Quiet
  <2>3. j = <<>> /\ p = <<>>
    BY <1>2, <2>2, BeginsFacts
  <2>4. Quiet'
    BY <1>1, <2>1, <2>2, <2>3 DEF Quiet
  <2>5. Streams'
    BY <1>4, <1>5, <2>4 DEF Streams
  <2> QED
    BY <1>3, <2>5 DEF Inv
<1>6. CASE Len(asked) # Len(printed) /\ Len(log) = Len(printed)
  <2>1. Requesting /\ client.pc \in {"send", "read", "done", "killed"}
    BY <1>6 DEF Inv, Streams
  <2>2. PICK m : m = request(asked[Len(asked)])
    OBVIOUS
  <2>3. m \in Seq(Byte)
    BY <1>6, <2>2, Counts, LineFacts
  <2>4. o = <<>> /\ b = <<>> /\ Begins(i, m)
    BY <2>1, <2>2, <1>1 DEF Requesting
  <2>5. p = <<>>
    BY <1>2, <2>4, BeginsFacts
  <2>6. Begins(j, m)
    BY <1>2, <2>3, <2>4, BeginsFacts
  <2>7. client'.pc = "send" /\ status'[Me] # "lost" => inbox'[Me] \o client'.unsent = m
    BY <1>4, <2>1, <2>2 DEF Requesting
  <2>8. Requesting'
    BY <1>1, <2>2, <2>4, <2>5, <2>6, <2>7 DEF Requesting
  <2>9. Streams'
    BY <1>4, <1>6, <2>1, <2>8 DEF Streams
  <2> QED
    BY <1>3, <2>9 DEF Inv
<1>7. CASE Len(asked) # Len(printed) /\ Len(log) # Len(printed)
  <2>1. Replying /\ client.pc \in {"send", "read", "done", "killed"}
    BY <1>7 DEF Inv, Streams
  <2>2. PICK m : m = Append(log[Len(log)].reply, NL)
    OBVIOUS
  <2>3. m \in Seq(Byte)
    BY <1>7, <2>2, Counts, TextFacts
  <2>4. i = <<>> /\ Begins(b \o o, m)
    BY <2>1, <2>2, <1>1 DEF Replying
  <2>5. j = <<>>
    <3>1. i = <<>>
      BY <2>4
    <3> QED
      BY <1>2, <3>1, BeginsFacts
  <2>6. b \o o \in Seq(Byte) /\ b \o p \in Seq(Byte)
    BY <1>2, ConcatProperties
  <2>7. Begins(b \o p, b \o o)
    BY <1>2, BeginsFacts
  <2>8. Begins(b \o p, m)
    <3>1. PICK bo, bp : bo = b \o o /\ bp = b \o p
      OBVIOUS
    <3>2. bo \in Seq(Byte) /\ bp \in Seq(Byte) /\ Begins(bp, bo) /\ Begins(bo, m)
      BY <3>1, <2>4, <2>6, <2>7
    <3>3. Begins(bp, m)
      BY <2>3, <3>2, BeginsFacts
    <3> QED
      BY <3>1, <3>3
  <2>9. client'.pc = "send" => status'[Me] = "lost"
    BY <1>4, <2>1 DEF Replying
  <2>10. Replying'
    BY <1>1, <2>2, <2>5, <2>8, <2>9 DEF Replying
  <2>11. Streams'
    BY <1>4, <1>7, <2>1, <2>10 DEF Streams
  <2> QED
    BY <1>3, <2>11 DEF Inv
<1> QED
    BY <1>5, <1>6, <1>7

-----------------------------------------------------------------------------
(* A line is read from the input only when every line before it has been
   answered (client.cpp:61-63).                                             *)
LEMMA GetlineInv ==
    ASSUME Inv, client.pc = "getline", NEW line \in Lines,
           asked' = Append(asked, line),
           client' = [client EXCEPT !.pc = "send", !.unsent = request(line)],
           UNCHANGED <<printed, log, inbox, outbox, kv, status>>
    PROVE  Inv'
<1>1. Len(asked) = Len(printed) /\ Quiet
    BY DEF Inv, Streams
<1>2. Len(log) = Len(asked) /\ Len(asked) \in Nat
    BY <1>1, Counts DEF Inv, Histories
<1>3. request(line) \in Seq(Byte) /\ request(line) # <<>>
    BY LineFacts
<1>4. PICK m : m = request(line)
    OBVIOUS
<1>5. /\ asked \in Seq(Lines) /\ asked' \in Seq(Lines) /\ Len(asked') = Len(asked) + 1
      /\ \A i \in 1..Len(asked) : asked'[i] = asked[i]
      /\ asked'[Len(asked) + 1] = line
    BY AppendProperties DEF Inv, ClientType
<1>6. /\ client'.pc = "send" /\ client'.unsent = m
      /\ client'.response_buffer = client.response_buffer
    BY <1>4 DEF Inv, ClientType
<1>7. ClientType'
    BY <1>3, <1>5 DEF Inv, ClientType
<1>8. Histories'
  <2>1. Len(log)' = Len(log) /\ Len(printed)' = Len(printed) /\ Len(asked)' = Len(asked) + 1
    BY <1>5
  <2>2. \A i \in 1..Len(log) : log[i].line = asked'[i]
    BY <1>2, <1>5 DEF Inv, Histories
  <2>3. \A i \in 1..Len(printed) : log[i].reply = printed[i]
    BY DEF Inv, Histories
  <2> QED
    BY <1>1, <1>2, <2>1, <2>2, <2>3 DEF Histories
<1>9. inbox[Me] = <<>> /\ outbox[Me] = <<>> /\ client.response_buffer = <<>>
    BY <1>1 DEF Quiet
<1>10. <<>> \o m = m /\ Begins(<<>>, m)
    BY <1>3, <1>4, ConcatEmptySeq, BeginsFacts
<1>11. request(asked'[Len(asked')]) = m
    BY <1>4, <1>5
<1>12. Requesting'
    BY <1>6, <1>9, <1>10, <1>11 DEF Requesting
<1>13. Streams'
  <2>1. Len(asked') # Len(printed) /\ Len(log) = Len(printed)
    BY <1>1, <1>2, <1>5
  <2> QED
    BY <2>1, <1>3, <1>4, <1>6, <1>12 DEF Streams
<1> QED
    BY <1>7, <1>8, <1>13 DEF Inv

(* Bytes that send takes move from the request to the server's stream, or
   nowhere once the connection is lost (framing.cpp:47-69).                 *)
LEMMA SendSomeInv ==
    ASSUME Inv, SendSome
    PROVE  Inv'
<1>1. client.pc = "send" /\ Len(asked) # Len(printed) /\ client.unsent \in Seq(Byte)
    BY Counts DEF SendSome, Inv, Streams, Quiet
<1>2. PICK round \in send_all(client.unsent, Len(client.unsent)) :
          /\ client' = [client EXCEPT !.unsent = round.rest, !.pc = WhenSent(round.rest)]
          /\ inbox' = IF status[Me] = "lost" THEN inbox
                      ELSE [inbox EXCEPT ![Me] = inbox[Me] \o round.sent]
    BY DEF SendSome, Inv, ClientType
<1>3. PICK u, v \in Seq(Byte) : u \o v = client.unsent /\ round.sent = u /\ round.rest = v
    BY <1>1, <1>2, SendRound
<1>4. PICK i, m, iu : /\ i = inbox[Me] /\ m = request(asked[Len(asked)]) /\ iu = i \o u
    OBVIOUS
<1>5. i \in Seq(Byte) /\ m \in Seq(Byte) /\ iu \in Seq(Byte)
  <2>1. i \in Seq(Byte) /\ m \in Seq(Byte)
    BY <1>1, <1>4, Counts, LineFacts
  <2> QED
    BY <2>1, <1>4, ConcatProperties
<1>6. /\ UNCHANGED <<asked, printed, log, outbox, kv, status>>
      /\ client' = [client EXCEPT !.unsent = v, !.pc = WhenSent(v)]
      /\ inbox' = IF status[Me] = "lost" THEN inbox ELSE [inbox EXCEPT ![Me] = iu]
    BY <1>2, <1>3, <1>4 DEF SendSome
<1>7. /\ client'.unsent = v /\ client'.response_buffer = client.response_buffer
      /\ client'.pc = IF v = <<>> THEN "read" ELSE "send"
      /\ inbox'[Me] = IF status[Me] = "lost" THEN i ELSE iu
    BY <1>4, <1>6 DEF Inv, ClientType, WhenSent
<1>8. ClientType'
    BY <1>3, <1>5, <1>6 DEF Inv, ClientType, WhenSent
<1>9. Histories'
    BY <1>6 DEF Inv, Histories
<1>10. CASE Len(log) = Len(printed)
  <2>1. Requesting
    BY <1>1, <1>10 DEF Inv, Streams
  <2>2. /\ outbox[Me] = <<>> /\ client.response_buffer = <<>> /\ Begins(i, m)
        /\ status[Me] # "lost" => i \o client.unsent = m
    BY <2>1, <1>1, <1>4 DEF Requesting
  <2>3. (i \o u) \o v = i \o (u \o v)
    BY <1>5, ConcatAssociative
  <2>4. status[Me] # "lost" => iu \o v = m
    BY <1>3, <1>4, <2>2, <2>3
  <2>5. status[Me] # "lost" => Begins(iu, m)
    BY <1>5, <2>4, BeginsRest
  <2>6. Requesting'
    BY <1>4, <1>6, <1>7, <2>2, <2>4, <2>5 DEF Requesting
  <2>7. Streams'
    BY <1>1, <1>6, <1>7, <1>10, <2>6 DEF Streams
  <2> QED
    BY <1>8, <1>9, <2>7 DEF Inv
<1>11. CASE Len(log) # Len(printed)
  <2>1. Replying
    BY <1>1, <1>11 DEF Inv, Streams
  <2>2. status[Me] = "lost"
    BY <2>1, <1>1 DEF Replying
  <2>3. Replying'
    BY <1>4, <1>6, <1>7, <2>1, <2>2 DEF Replying
  <2>4. Streams'
    BY <1>1, <1>6, <1>7, <1>11, <2>3 DEF Streams
  <2> QED
    BY <1>8, <1>9, <2>4 DEF Inv
<1> QED
    BY <1>10, <1>11

(* One recv moves bytes of the reply to response_buffer (framing.cpp:28-43). *)
LEMMA RecvInv ==
    ASSUME Inv, Recv
    PROVE  Inv'
<1>1. /\ client.pc = "read" /\ Len(asked) # Len(printed)
      /\ client.response_buffer \in Seq(Byte) /\ outbox[Me] \in Seq(Byte)
    BY Counts DEF Recv, Reading, Inv, Streams, Quiet
<1>2. PICK b, o : b = client.response_buffer /\ o = outbox[Me]
    OBVIOUS
<1>3. PICK round \in read_message(b, o) :
          /\ client' = [client EXCEPT !.response_buffer = round.buffer]
          /\ outbox' = [outbox EXCEPT ![Me] = round.rx]
    BY <1>2 DEF Recv
<1>4. PICK u, v \in Seq(Byte) :
          /\ u # <<>> /\ u \o v = o
          /\ round.buffer = b \o u /\ round.rx = v
          /\ b \o u \in Seq(Byte) /\ (b \o u) \o v = b \o o
          /\ Len(o) = Len(u) + Len(v)
  <2>1. b \in Seq(Byte) /\ o \in Seq(Byte)
    BY <1>1, <1>2
  <2>2. /\ \E u, v \in Seq(Byte) :
              /\ u # <<>> /\ u \o v = o
              /\ round.buffer = b \o u /\ round.rx = v
              /\ b \o u \in Seq(Byte) /\ (b \o u) \o v = b \o o
              /\ Len(o) = Len(u) + Len(v) /\ Len(b \o u) = Len(b) + Len(u)
    BY <2>1, RecvRound, Zenon
  <2> QED
    BY <2>2
<1>5. PICK bu : bu = b \o u
    OBVIOUS
<1>6. /\ UNCHANGED <<asked, printed, log, inbox, kv, status>> /\ bu \in Seq(Byte)
      /\ client' = [client EXCEPT !.response_buffer = bu]
      /\ outbox' = [outbox EXCEPT ![Me] = v]
    BY <1>3, <1>4, <1>5 DEF Recv
<1>7. /\ client'.unsent = client.unsent /\ client'.response_buffer = bu
      /\ client'.pc = "read" /\ outbox'[Me] = v
    BY <1>1, <1>6 DEF Inv, ClientType
<1>8. ClientType'
    BY <1>6 DEF Inv, ClientType
<1>9. Histories'
    BY <1>6 DEF Inv, Histories
<1>10. o # <<>>
  <2>1. Len(u) \in Nat /\ Len(u) # 0 /\ Len(v) \in Nat
    BY <1>4, LenProperties, EmptySeq
  <2>2. Len(o) = Len(u) + Len(v)
    BY <1>4
  <2>3. Len(o) # 0
    BY <2>1, <2>2
  <2> QED
    BY <2>3, EmptySeq
<1>11. Len(log) # Len(printed) /\ Replying
    BY <1>1, <1>2, <1>10 DEF Inv, Streams, Requesting
<1>12. Replying'
    BY <1>2, <1>4, <1>5, <1>6, <1>7, <1>11 DEF Replying
<1>13. Streams'
    BY <1>1, <1>6, <1>7, <1>11, <1>12 DEF Streams
<1> QED
    BY <1>8, <1>9, <1>13 DEF Inv

(* The reply printed is the whole of the server's answer to the last line,
   and nothing is left behind it (client.cpp:67-75).                        *)
LEMMA PrintReplyInv ==
    ASSUME Inv, PrintReply
    PROVE  Inv'
<1>1. PICK b, o : b = client.response_buffer /\ o = outbox[Me]
    OBVIOUS
<1>2. /\ client.pc = "read" /\ Len(asked) # Len(printed)
      /\ b \in Seq(Byte) /\ o \in Seq(Byte)
    BY <1>1, Counts DEF PrintReply, Inv, Streams, Quiet
<1>3. HasNewline(b, 0)
    BY <1>1, <1>2, NextMessage DEF PrintReply
<1>4. PICK n \in 1..Len(b) :
         /\ IsNewline(b, 0, n)
         /\ next_message(b).value = SubSeq(b, 1, n - 1)
         /\ next_message(b).buffer = SubSeq(b, n + 1, Len(b))
    BY <1>2, <1>3, NextMessage
<1>5. b # <<>>
    BY <1>4, EmptySeq DEF IsNewline
<1>6. Len(log) # Len(printed) /\ Replying
    BY <1>1, <1>2, <1>5 DEF Inv, Streams, Requesting
<1>7. PICK reply, m, bo : /\ reply = log[Len(log)].reply /\ m = Append(reply, NL)
                          /\ bo = b \o o
    OBVIOUS
<1>8. /\ reply \in Text /\ Len(log) = Len(printed) + 1 /\ Len(log) = Len(asked)
      /\ Len(printed) \in Nat
    BY <1>6, <1>7, Counts
<1>9. Begins(bo, m) /\ bo \in Seq(Byte) /\ Len(bo) = Len(b) + Len(o)
    BY <1>1, <1>2, <1>6, <1>7, ConcatProperties DEF Replying
<1>10. m \in Seq(Byte)
    BY <1>7, <1>8, TextFacts
<1>11. Begins(b, m)
  <2>1. Begins(b, bo)
    BY <1>2, <1>7, <1>9, BeginsRest
  <2> QED
    BY <2>1, <1>2, <1>9, <1>10, BeginsFacts
<1>12. b = m /\ SubSeq(b, 1, n - 1) = reply /\ SubSeq(b, n + 1, Len(b)) = <<>>
    BY <1>2, <1>4, <1>7, <1>8, <1>11, WholeLine
<1>13. o = <<>>
  <2>1. Len(b) \in Nat /\ Len(o) \in Nat
    BY <1>2, LenProperties
  <2>2. Len(bo) <= Len(b)
    BY <1>9, <1>12 DEF Begins
  <2>3. Len(o) = 0
    BY <2>1, <2>2, <1>9
  <2> QED
    BY <1>2, <2>3, EmptySeq
<1>14. /\ UNCHANGED <<asked, log, inbox, outbox, kv, status>>
       /\ printed' = Append(printed, reply)
       /\ client' = [client EXCEPT !.pc = "getline", !.response_buffer = <<>>]
    BY <1>1, <1>4, <1>12 DEF PrintReply, serviceVars
<1>15. /\ client'.pc = "getline" /\ client'.response_buffer = <<>>
    BY <1>14 DEF Inv, ClientType
<1>16. /\ printed' \in Seq(Text) /\ Len(printed') = Len(printed) + 1
       /\ \A i \in 1..Len(printed) : printed'[i] = printed[i]
       /\ printed'[Len(printed) + 1] = reply
    BY <1>8, <1>14, AppendProperties DEF Inv, ClientType
<1>17. ClientType'
    BY <1>14, <1>16, EmptySeq DEF Inv, ClientType
<1>18. Histories'
  <2>1. \A i \in 1..Len(printed') : log[i].reply = printed'[i]
    <3>1. \A i \in 1..Len(printed) : log[i].reply = printed'[i]
      BY <1>16 DEF Inv, Histories
    <3>2. log[Len(printed) + 1].reply = printed'[Len(printed) + 1]
      BY <1>7, <1>8, <1>16
    <3> QED
      BY <3>1, <3>2, <1>8, <1>16
  <2>2. \A i \in 1..Len(log) : log[i].line = asked[i]
    BY DEF Inv, Histories
  <2>3. Len(printed') <= Len(log) /\ Len(log) <= Len(asked) /\ Len(asked) <= Len(printed') + 1
    BY <1>8, <1>16
  <2> QED
    BY <1>14, <2>1, <2>2, <2>3 DEF Histories
<1>19. inbox[Me] = <<>>
    BY <1>6 DEF Replying
<1>20. Quiet'
    BY <1>1, <1>13, <1>14, <1>15, <1>19 DEF Quiet
<1>21. Streams'
    BY <1>8, <1>14, <1>15, <1>16, <1>20 DEF Streams
<1> QED
    BY <1>17, <1>18, <1>21 DEF Inv

(* The server reads a stream and answers a line as Protocol does.           *)
LEMMA SameProtocol ==
    ASSUME NEW s, NEW n, NEW data
    PROVE  /\ Server!IsNewline(s, 0, n) = IsNewline(s, 0, n)
           /\ Server!Answer(s, data) = Answer(s, data)
<1>1. Server!parse_command(s) = parse_command(s)
    BY DEF Server!parse_command, parse_command, Server!Command, Command, Server!nullopt, nullopt
<1>2. ASSUME NEW c PROVE Server!execute_command(c, data) = execute_command(c, data)
    BY DEF Server!execute_command, execute_command, Server!set, set, Server!get, get,
        Server!exists, exists, Server!erase, erase, Server!erased, erased,
        Server!count, count, Server!nullopt, nullopt
<1>3. Server!Answer(s, data) = Answer(s, data)
    BY <1>1, <1>2 DEF Server!Answer, Answer
<1>4. Server!IsNewline(s, 0, n) = IsNewline(s, 0, n)
    BY DEF Server!IsNewline, IsNewline
<1> QED
    BY <1>3, <1>4

(* The server executes the last line of the client, once, and its reply
   follows; there is no other line it could execute.                        *)
LEMMA ServerExecutesInv ==
    ASSUME Inv, ServerExecutes
    PROVE  Inv'
<1>1. PICK i : i = inbox[Me]
    OBVIOUS
<1>2. i \in Seq(Byte)
    BY <1>1, Counts
<1>3. PICK n \in 1..Len(i) :
          /\ Server!IsNewline(i, 0, n)
          /\ kv' = Server!Answer(SubSeq(i, 1, n - 1), kv).store
          /\ inbox' = [inbox EXCEPT ![Me] = SubSeq(i, n + 1, Len(i))]
          /\ outbox' = IF status[Me] = "lost" THEN outbox
                       ELSE [outbox EXCEPT ![Me] = outbox[Me] \o
                                Append(Server!Answer(SubSeq(i, 1, n - 1), kv).text, NL)]
    BY <1>1 DEF ServerExecutes, Server!Execute, Inv, ClientType
<1>4. IsNewline(i, 0, n)
    BY <1>3, SameProtocol
<1>5. i # <<>>
    BY <1>4, EmptySeq DEF IsNewline
<1>6. Len(asked) # Len(printed) /\ Len(log) = Len(printed) /\ Requesting
    BY <1>1, <1>5 DEF Inv, Streams, Quiet, Replying
<1>7. PICK line, m : line = asked[Len(asked)] /\ m = Append(line, NL)
    OBVIOUS
<1>8. /\ line \in Lines /\ Len(asked) = Len(log) + 1 /\ Len(log) \in Nat
    BY <1>6, <1>7, Counts
<1>9. line \in Text /\ Tokens(line) \in Seq(Text) /\ request(line) = m
    BY <1>7, <1>8, LineFacts
<1>10. Begins(i, m) /\ outbox[Me] = <<>> /\ client.response_buffer = <<>>
    BY <1>1, <1>6, <1>7, <1>9 DEF Requesting
<1>11. i = m /\ SubSeq(i, 1, n - 1) = line /\ SubSeq(i, n + 1, Len(i)) = <<>>
    BY <1>2, <1>4, <1>7, <1>9, <1>10, WholeLine
<1>12. PICK answer : answer = Answer(line, kv)
    OBVIOUS
<1>13. answer.text \in Text /\ StoreOf(Text, answer.store)
    BY <1>9, <1>12, AnswerText DEF Inv, ClientType
<1>14. PICK reply, r : reply = answer.text /\ r = Append(reply, NL)
    OBVIOUS
<1>15. reply \in Text /\ r \in Seq(Byte)
    BY <1>13, <1>14, TextFacts
<1>16. <<>> \o r = r /\ <<>> \o <<>> = <<>> /\ <<>> \in Seq(Byte)
    BY <1>15, EmptySeq, ConcatEmptySeq
<1>17. /\ kv' = answer.store /\ inbox' = [inbox EXCEPT ![Me] = <<>>]
       /\ outbox' = IF status[Me] = "lost" THEN outbox ELSE [outbox EXCEPT ![Me] = r]
  <2>1. Server!Answer(SubSeq(i, 1, n - 1), kv) = answer
    BY <1>11, <1>12, SameProtocol
  <2> QED
    BY <1>3, <1>10, <1>11, <1>14, <1>16, <2>1
<1>18. next_message(i).value = line
  <2>1. HasNewline(i, 0)
    BY <1>4 DEF IsNewline, HasNewline
  <2>2. PICK k \in 1..Len(i) : IsNewline(i, 0, k) /\ next_message(i).value = SubSeq(i, 1, k - 1)
    BY <1>2, <2>1, NextMessage
  <2> QED
    BY <1>2, <1>7, <1>9, <1>10, <2>2, WholeLine
<1>19. PICK entry : entry = [line |-> line, reply |-> reply]
    OBVIOUS
<1>20. /\ log' = Append(log, entry) /\ client' = client /\ asked' = asked
       /\ printed' = printed /\ status' = status
    BY <1>1, <1>12, <1>14, <1>18, <1>19 DEF ServerExecutes, Server!Execute
<1>21. entry \in [line : Text, reply : Text] /\ entry.line = line /\ entry.reply = reply
    BY <1>9, <1>15, <1>19
<1>22. /\ log' \in Seq([line : Text, reply : Text]) /\ Len(log') = Len(log) + 1
       /\ \A k \in 1..Len(log) : log'[k] = log[k]
       /\ log'[Len(log) + 1] = entry
    BY <1>20, <1>21, AppendProperties DEF Inv, ClientType
<1>23. inbox'[Me] = <<>> /\ outbox'[Me] = IF status[Me] = "lost" THEN <<>> ELSE r
    BY <1>10, <1>17 DEF Inv, ClientType
<1>24. ClientType'
  <2>1. inbox' \in [{Me} -> Seq(Byte)] /\ outbox' \in [{Me} -> Seq(Byte)]
    BY <1>15, <1>16, <1>17 DEF Inv, ClientType
  <2> QED
    BY <2>1, <1>13, <1>17, <1>20, <1>22 DEF Inv, ClientType
<1>25. Histories'
  <2>1. \A k \in 1..Len(log') : log'[k].line = asked[k]
    <3>1. \A k \in 1..Len(log) : log'[k].line = asked[k]
      BY <1>22 DEF Inv, Histories
    <3>2. log'[Len(log) + 1].line = asked[Len(log) + 1]
      BY <1>7, <1>8, <1>21, <1>22
    <3> QED
      BY <3>1, <3>2, <1>8, <1>22
  <2>2. \A k \in 1..Len(printed) : log'[k].reply = printed[k]
    BY <1>6, <1>22 DEF Inv, Histories
  <2>3. Len(printed) <= Len(log') /\ Len(log') <= Len(asked) /\ Len(asked) <= Len(printed) + 1
    BY <1>6, <1>8, <1>22
  <2> QED
    BY <1>20, <2>1, <2>2, <2>3 DEF Histories
<1>26. client.pc = "send" => status[Me] = "lost"
  <2> SUFFICES ASSUME client.pc = "send", status[Me] # "lost" PROVE FALSE
    BY DEF Inv, ClientType
  <2>1. PICK u : u = client.unsent
    OBVIOUS
  <2>2. u \in Seq(Byte) /\ u # <<>> /\ i \o u = m
    BY <2>1, <1>1, <1>6, <1>7, <1>9, Counts DEF Inv, Streams, Requesting
  <2>3. Len(i) \in Nat /\ Len(u) \in Nat /\ Len(u) # 0
    BY <1>2, <2>2, LenProperties, EmptySeq
  <2>4. Len(i \o u) = Len(i) + Len(u)
    BY <1>2, <2>2, ConcatProperties
  <2> QED
    BY <1>11, <2>2, <2>3, <2>4
<1>27. Begins(client.response_buffer \o outbox'[Me], r)
  <2>1. Begins(r, r) /\ Begins(<<>>, r)
    BY <1>15, BeginsFacts
  <2> QED
    BY <2>1, <1>10, <1>16, <1>23
<1>28. log'[Len(log')].reply = reply
    BY <1>21, <1>22
<1>29. Replying'
    BY <1>14, <1>20, <1>23, <1>26, <1>27, <1>28 DEF Replying
<1>30. Streams'
  <2>1. Len(log') # Len(printed)
    BY <1>6, <1>8, <1>22
  <2> QED
    BY <2>1, <1>6, <1>20, <1>29 DEF Inv, Streams
<1> QED
    BY <1>24, <1>25, <1>30 DEF Inv

-----------------------------------------------------------------------------
(* Every step of the client, the server and the other clients keeps the
   invariant.                                                               *)
LEMMA StepInv == Inv /\ [Next]_vars => Inv'
<1> SUFFICES ASSUME Inv, [Next]_vars PROVE Inv'
    OBVIOUS
<1>1. /\ Begins(inbox[Me], inbox[Me]) /\ Begins(outbox[Me], outbox[Me])
    BY Counts, BeginsFacts
<1>2. ASSUME NEW pc, UNCHANGED <<asked, printed, log, inbox, outbox, kv, status>>,
             ClientType', client'.unsent = client.unsent,
             client'.response_buffer = client.response_buffer, client'.pc = pc,
             \/ pc \in {"done", "killed"}
             \/ /\ pc \in {"address", "check", "getline"}
                /\ client.pc \in {"resolve", "address", "check"}
      PROVE  Inv'
  <2>1. client.pc \in {"resolve", "address", "check"} => Len(asked) = Len(printed)
    BY DEF Inv, Streams
  <2> QED
    BY <1>1, <1>2, <2>1, Between
<1>3. CASE getaddrinfo
  <2>1. UNCHANGED <<asked, printed, log, inbox, outbox, kv, status>> /\ client.pc = "resolve"
    BY <1>3 DEF getaddrinfo, serviceVars
  <2>2. CASE client' = [client EXCEPT !.pc = "done"]
    <3>1. /\ ClientType' /\ client'.unsent = client.unsent
          /\ client'.response_buffer = client.response_buffer /\ client'.pc = "done"
      BY <2>1, <2>2 DEF Inv, ClientType
    <3> QED
      BY <3>1, <2>1, <1>2
  <2>3. ASSUME NEW n \in 1..Addresses,
               client' = [client EXCEPT !.pc = "address", !.left = n]
        PROVE  Inv'
    <3>1. n \in Nat
      BY ClientAssumption
    <3>2. /\ ClientType' /\ client'.unsent = client.unsent
          /\ client'.response_buffer = client.response_buffer /\ client'.pc = "address"
      BY <2>1, <2>3, <3>1 DEF Inv, ClientType
    <3> QED
      BY <3>2, <2>1, <1>2
  <2> QED
    BY <1>3, <2>2, <2>3 DEF getaddrinfo
<1>4. CASE TryAddress
  <2>1. UNCHANGED <<asked, printed, log, inbox, outbox, kv, status>> /\ client.pc = "address"
    BY <1>4 DEF TryAddress, serviceVars
  <2>2. PICK outcome \in {"none", "refused", "connected"} :
          client' = [client EXCEPT
            !.left = @ - 1,
            !.fd = CASE outcome = "none" -> @ [] outcome = "refused" -> "unconnected"
                     [] outcome = "connected" -> "connected",
            !.pc = IF outcome = "connected" THEN "check" ELSE @]
    BY <1>4 DEF TryAddress
  <2>3. PICK l \in Nat : l = client.left - 1
    <3>1. client.left \in Nat /\ client.left > 0
      BY <1>4 DEF TryAddress, Inv, ClientType
    <3>2. client.left - 1 \in Nat
      BY <3>1
    <3> WITNESS client.left - 1 \in Nat
    <3> QED
      OBVIOUS
  <2>4. PICK f \in {"none", "unconnected", "connected"}, p \in {"address", "check"} :
          /\ f = CASE outcome = "none" -> client.fd [] outcome = "refused" -> "unconnected"
                   [] outcome = "connected" -> "connected"
          /\ p = IF outcome = "connected" THEN "check" ELSE client.pc
    BY <2>1 DEF Inv, ClientType
  <2>5. client' = [client EXCEPT !.left = l, !.fd = f, !.pc = p]
    BY <2>2, <2>3, <2>4 DEF Inv, ClientType
  <2>6. /\ ClientType' /\ client'.unsent = client.unsent
        /\ client'.response_buffer = client.response_buffer /\ client'.pc = p
    BY <2>1, <2>4, <2>5 DEF Inv, ClientType
  <2> QED
    BY <2>1, <2>4, <2>6, <1>2
<1>5. CASE AddressesTried
  <2>1. /\ UNCHANGED <<asked, printed, log, inbox, outbox, kv, status>> /\ client.pc = "address"
        /\ client' = [client EXCEPT !.pc = "check"]
    BY <1>5 DEF AddressesTried, serviceVars
  <2>2. /\ ClientType' /\ client'.unsent = client.unsent
        /\ client'.response_buffer = client.response_buffer /\ client'.pc = "check"
    BY <2>1 DEF Inv, ClientType
  <2> QED
    BY <2>1, <2>2, <1>2
<1>6. CASE CheckSocket
  <2>1. /\ UNCHANGED <<asked, printed, log, inbox, outbox, kv, status>> /\ client.pc = "check"
        /\ client' = [client EXCEPT !.pc = IF client.fd = "none" THEN "done" ELSE "getline"]
    BY <1>6 DEF CheckSocket, serviceVars
  <2>2. PICK p : p = IF client.fd = "none" THEN "done" ELSE "getline"
    OBVIOUS
  <2>3. p \in {"done", "getline"} /\ client' = [client EXCEPT !.pc = p]
    BY <2>1, <2>2
  <2>4. /\ ClientType' /\ client'.unsent = client.unsent
        /\ client'.response_buffer = client.response_buffer /\ client'.pc = p
    BY <2>1, <2>3 DEF Inv, ClientType
  <2> QED
    BY <2>1, <2>3, <2>4, <1>2
<1>7. CASE getline
  <2>1. UNCHANGED <<printed, log, inbox, outbox, kv, status>> /\ client.pc = "getline"
    BY <1>7 DEF getline, serviceVars
  <2>2. ASSUME client' = [client EXCEPT !.pc = "done"], UNCHANGED asked PROVE Inv'
    <3>1. /\ ClientType' /\ client'.unsent = client.unsent
          /\ client'.response_buffer = client.response_buffer /\ client'.pc = "done"
      BY <2>1, <2>2 DEF Inv, ClientType
    <3> QED
      BY <3>1, <2>1, <2>2, <1>2
  <2>3. ASSUME NEW line \in Lines, asked' = Append(asked, line),
               client' = [client EXCEPT !.pc = "send", !.unsent = request(line)]
        PROVE  Inv'
    BY <2>1, <2>3, GetlineInv
  <2> QED
    BY <1>7, <2>2, <2>3 DEF getline
<1>8. CASE SendFails \/ Disconnected
  <2>1. UNCHANGED <<asked, printed, log, inbox, outbox, kv, status>>
    BY <1>8 DEF SendFails, Disconnected, serviceVars
  <2>2. PICK p \in {"done", "killed"} : client' = [client EXCEPT !.pc = p]
    BY <1>8 DEF SendFails, Disconnected
  <2>3. /\ ClientType' /\ client'.unsent = client.unsent
        /\ client'.response_buffer = client.response_buffer /\ client'.pc = p
    BY <2>1, <2>2 DEF Inv, ClientType
  <2> QED
    BY <2>1, <2>2, <2>3, <1>2
<1>9. ASSUME Server!Lose(Me), UNCHANGED <<asked, printed, log>>,
             \/ client' = client
             \/ /\ client.pc \in {"done", "killed"}
                /\ client' = [client EXCEPT !.fd = "none"]
      PROVE  Inv'
  <2>1. PICK i, o : i = inbox[Me] /\ o = outbox[Me]
    OBVIOUS
  <2>2. i \in Seq(Byte) /\ o \in Seq(Byte)
    BY <2>1, Counts
  <2>3. PICK j \in Server!Prefixes(i) : inbox' = [inbox EXCEPT ![Me] = j]
    BY <1>9, <2>1 DEF Server!Lose
  <2>4. PICK p \in Server!Prefixes(o) : outbox' = [outbox EXCEPT ![Me] = p]
    BY <1>9, <2>1 DEF Server!Lose
  <2>5. ASSUME NEW s \in Seq(Byte), NEW t \in Server!Prefixes(s)
        PROVE  t \in Seq(Byte) /\ Begins(t, s)
    <3>1. Len(s) \in Nat
      BY LenProperties
    <3>2. PICK n \in 0..Len(s) : t = SubSeq(s, 1, n)
      BY DEF Server!Prefixes
    <3>3. n \in Nat /\ n <= Len(s)
      BY <3>1
    <3>4. t \in Seq(Byte) /\ Len(t) = n
      BY <3>2, <3>3, PrefixFacts
    <3> QED
      BY <3>2, <3>3, <3>4 DEF Begins
  <2>6. j \in Seq(Byte) /\ p \in Seq(Byte) /\ Begins(j, i) /\ Begins(p, o)
    BY <2>2, <2>3, <2>4, <2>5
  <2>7. status' = [status EXCEPT ![Me] = "lost"] /\ kv' = kv
    BY <1>9 DEF Server!Lose
  <2>8. inbox'[Me] = j /\ outbox'[Me] = p /\ status'[Me] = "lost"
    BY <2>3, <2>4, <2>7 DEF Inv, ClientType
  <2>9. /\ inbox' \in [{Me} -> Seq(Byte)] /\ outbox' \in [{Me} -> Seq(Byte)]
        /\ status' \in [{Me} -> {"open", "ended", "lost"}]
    BY <2>3, <2>4, <2>6, <2>7 DEF Inv, ClientType
  <2>10. /\ client'.unsent = client.unsent /\ client'.pc = client.pc
         /\ client'.response_buffer = client.response_buffer
    BY <1>9 DEF Inv, ClientType
  <2>11. ClientType'
    BY <1>9, <2>7, <2>9 DEF Inv, ClientType
  <2> QED
    BY <1>9, <2>1, <2>6, <2>8, <2>10, <2>11, Between
<1>10. CASE Close
  <2>1. /\ client.pc \in {"done", "killed"} /\ UNCHANGED <<asked, printed, log>>
        /\ client' = [client EXCEPT !.fd = "none"]
    BY <1>10 DEF Close
  <2>2. CASE Server!Lose(Me)
    BY <1>9, <2>1, <2>2
  <2>3. CASE Server!HalfClose(Me)
    <3>1. /\ status' = [status EXCEPT ![Me] = "ended"]
          /\ inbox' = inbox /\ outbox' = outbox /\ kv' = kv
      BY <2>3 DEF Server!HalfClose
    <3>2. /\ client'.unsent = client.unsent /\ client'.pc = client.pc
          /\ client'.response_buffer = client.response_buffer
      BY <2>1 DEF Inv, ClientType
    <3>3. ClientType'
      BY <2>1, <3>1 DEF Inv, ClientType
    <3> QED
      BY <1>1, <2>1, <3>1, <3>2, <3>3, Between
  <2> QED
    BY <1>10, <2>2, <2>3 DEF Close
<1>11. CASE ServerDrops
    BY <1>9, <1>11 DEF ServerDrops
<1>12. CASE OthersExecute
  <2>1. PICK line \in OtherLines : kv' = Answer(line, kv).store
    BY <1>12 DEF OthersExecute
  <2>2. StoreOf(Text, kv')
    BY <2>1, ClientAssumption, AnswerText DEF Inv, ClientType
  <2>3. UNCHANGED <<client, asked, printed, log, inbox, outbox, status>>
    BY <1>12 DEF OthersExecute
  <2>4. ClientType'
    BY <2>2, <2>3 DEF Inv, ClientType
  <2> QED
    BY <1>1, <2>3, <2>4, Between
<1>13. CASE UNCHANGED vars
    BY <1>13 DEF vars, Inv, ClientType, Histories, Streams, Quiet, Requesting, Replying
<1> QED
    BY <1>3, <1>4, <1>5, <1>6, <1>7, <1>8, <1>10, <1>11, <1>12, <1>13,
       SendSomeInv, RecvInv, PrintReplyInv, ServerExecutesInv
       DEF Next, Connect, Exchange

(* At most one line is outstanding, and the streams hold nothing but it or
   its reply.                                                               *)
THEOREM Invariance == Spec => []Inv
    BY InitInv, StepInv, PTL DEF Spec

(* For every input and every splitting of the streams, the i-th reply
   printed is the server's answer to the i-th line (client.cpp:61-76).      *)
THEOREM EveryReplyPaired == Spec => []RepliesPaired
<1>1. Inv => RepliesPaired
  <2> SUFFICES ASSUME Inv, NEW i \in 1..Len(printed)
               PROVE  i <= Len(log) /\ log[i] = [line |-> asked[i], reply |-> printed[i]]
    BY DEF RepliesPaired
  <2>1. i \in 1..Len(log)
    BY Counts DEF Inv, Histories
  <2>2. log[i] \in [line : Text, reply : Text]
    BY <2>1, ElementOfSeq DEF Inv, ClientType
  <2>3. log[i].line = asked[i] /\ log[i].reply = printed[i]
    BY <2>1 DEF Inv, Histories
  <2>4. log[i] = [line |-> asked[i], reply |-> printed[i]]
    BY <2>2, <2>3
  <2> QED
    BY <2>1, <2>4, Counts
<1> QED
    BY Invariance, <1>1, PTL

(* However the session ends, the server has executed the lines whose reply
   was printed and at most the one after them (client.cpp:61-73).           *)
THEOREM AtMostOneInDoubt == Spec => []OneRequestInDoubt
<1>1. Inv => OneRequestInDoubt
  <2> SUFFICES ASSUME Inv PROVE OneRequestInDoubt
    OBVIOUS
  <2>1. /\ Len(printed) <= Len(log) /\ Len(log) <= Len(asked)
        /\ Len(asked) <= Len(printed) + 1
        /\ \A i \in 1..Len(log) : log[i].line = asked[i]
    BY DEF Inv, Histories
  <2>2. Len(asked) \in Nat /\ Len(log) \in Nat /\ Len(printed) \in Nat
    BY Counts
  <2>3. \A i \in 1..Len(log) : i <= Len(asked)
    BY <2>1, <2>2
  <2> QED
    BY <2>1, <2>2, <2>3 DEF OneRequestInDoubt
<1> QED
    BY Invariance, <1>1, PTL
=============================================================================
