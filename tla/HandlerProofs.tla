--------------------------- MODULE HandlerProofs ---------------------------
(***************************************************************************)
(* The blocking handler implements the abstract service, for every set of  *)
(* chunks, every size of recv's chunk and of the kernel's queue.           *)
(***************************************************************************)
EXTENDS Handler, FramingProofs

HandlerType ==
    /\ handler \in [pc : {"read", "send", "closed", "killed"},
                    message_buffer : Seq(Byte), unsent : Seq(Byte)]
    /\ sock \in [rx : Seq(Byte), tx : Seq(Byte), fin : BOOLEAN, rst : BOOLEAN,
                 sent : Nat]

(* Only a handler inside send_all has a reply in hand, and only one that
   has not returned has input.                                              *)
AtRest ==
    /\ handler.pc # "send" => handler.unsent = <<>>
    /\ handler.pc \in {"closed", "killed"} =>
          handler.message_buffer = <<>> /\ sock.rx = <<>>

InputBound ==
    /\ sock.sent <= MaxBytes
    /\ Len(handler.message_buffer) + Len(sock.rx) <= sock.sent

Inv == HandlerType /\ AtRest /\ InputBound /\ StoreOf(Text, store)

-----------------------------------------------------------------------------
(* The words of a line the handler has taken are texts.                     *)
LEMMA LineWords ==
    ASSUME Inv, NEW n, IsNewline(handler.message_buffer, 0, n)
    PROVE  Tokens(SubSeq(handler.message_buffer, 1, n - 1)) \in Seq(Text)
<1> DEFINE b == handler.message_buffer
           line == SubSeq(b, 1, n - 1)
<1>1. b \in Seq(Byte) /\ sock.rx \in Seq(Byte) /\ sock.sent \in Nat
    BY DEF Inv, HandlerType
<1>2. Len(b) \in Nat /\ Len(sock.rx) \in Nat /\ Len(b) + Len(sock.rx) <= sock.sent
    BY <1>1, LenProperties DEF Inv, InputBound
<1>3. n \in 1..Len(b)
    BY DEF IsNewline
<1>4. line \in Text /\ Len(line) = n - 1
    BY <1>1, LineIsText
<1> HIDE DEF line, b
<1>5. n - 1 \in 0..MaxBytes
    BY <1>1, <1>2, <1>3, HandlerAssumption DEF Inv, InputBound
<1>6. line \in [1..(n - 1) -> Char]
    BY <1>4, LenProperties DEF Text
<1> QED
    BY <1>5, <1>6, LineAssumption DEF line, b

-----------------------------------------------------------------------------
(* The invariant holds initially.                                           *)
LEMMA InitInv == Init => Inv
<1> SUFFICES ASSUME Init PROVE Inv
    OBVIOUS
<1>1. <<>> \in Seq(Byte) /\ Len(<<>>) = 0
    BY EmptySeq
<1>2. HandlerType
    BY <1>1 DEF Init, HandlerType
<1>3. AtRest
    BY DEF Init, AtRest
<1>4. InputBound
    BY <1>1, HandlerAssumption DEF Init, InputBound
<1>5. StoreOf(Text, store)
    BY FS_EmptySet DEF Init, EmptyStore, StoreOf
<1> QED
    BY <1>2, <1>3, <1>4, <1>5 DEF Inv

(* A return leaves no input and no reply.                                   *)
LEMMA ReturnFacts ==
    ASSUME Inv, NEW pcs, Return(pcs), pcs \subseteq {"closed", "killed"}
    PROVE  /\ Inv'
           /\ handler'.message_buffer = <<>> /\ handler'.unsent = <<>>
           /\ sock'.rx = <<>> /\ sock'.tx = sock.tx
           /\ sock'.fin = sock.fin /\ sock'.rst = sock.rst
<1>1. PICK pc \in pcs : handler' = [pc |-> pc, message_buffer |-> <<>>, unsent |-> <<>>]
    BY DEF Return
<1>2. sock' = [sock EXCEPT !.rx = <<>>] /\ store' = store
    BY DEF Return
<1>3. <<>> \in Seq(Byte) /\ Len(<<>>) = 0
    BY EmptySeq
<1>4. /\ handler'.message_buffer = <<>> /\ handler'.unsent = <<>>
      /\ handler'.pc \in {"closed", "killed"}
    BY <1>1
<1>5. /\ sock'.rx = <<>> /\ sock'.tx = sock.tx /\ sock'.sent = sock.sent
      /\ sock'.fin = sock.fin /\ sock'.rst = sock.rst
    BY <1>2 DEF Inv, HandlerType
<1>6. HandlerType'
    BY <1>1, <1>2, <1>3 DEF Inv, HandlerType
<1>7. AtRest'
    BY <1>4, <1>5 DEF AtRest
<1>8. InputBound'
  <2>1. sock.sent \in Nat
    BY DEF Inv, HandlerType
  <2> QED
    BY <2>1, <1>3, <1>4, <1>5 DEF Inv, InputBound
<1> QED
    BY <1>2, <1>4, <1>5, <1>6, <1>7, <1>8 DEF Inv

(* One recv moves bytes from the kernel's queue to message_buffer
   (framing.cpp:28-43).                                                     *)
LEMMA RecvFacts ==
    ASSUME Inv, Recv
    PROVE  /\ Inv' /\ Inbox' = Inbox /\ Outbox' = Outbox /\ Status' = Status
<1> DEFINE b == handler.message_buffer
           rx == sock.rx
<1>1. b \in Seq(Byte) /\ rx \in Seq(Byte) /\ sock.sent \in Nat
    BY DEF Inv, HandlerType
<1>2. PICK round \in read_message(b, rx) :
          /\ handler' = [handler EXCEPT !.message_buffer = round.buffer]
          /\ sock' = [sock EXCEPT !.rx = round.rx]
    BY DEF Recv
<1>3. PICK u, v \in Seq(Byte) :
          /\ round.buffer = b \o u /\ round.rx = v
          /\ b \o u \in Seq(Byte) /\ (b \o u) \o v = b \o rx
          /\ Len(rx) = Len(u) + Len(v) /\ Len(b \o u) = Len(b) + Len(u)
  <2> HIDE DEF b, rx
  <2> QED
    BY <1>1, <1>2, RecvRound
<1>4. PICK bu : bu = b \o u
    OBVIOUS
<1>5. /\ handler' = [handler EXCEPT !.message_buffer = bu]
      /\ sock' = [sock EXCEPT !.rx = v] /\ bu \in Seq(Byte)
    BY <1>2, <1>3, <1>4
<1>6. /\ handler'.message_buffer = bu /\ handler'.unsent = handler.unsent
      /\ handler'.pc = handler.pc
      /\ sock'.rx = v /\ sock'.tx = sock.tx /\ sock'.sent = sock.sent
      /\ sock'.fin = sock.fin /\ sock'.rst = sock.rst
    BY <1>5 DEF Inv, HandlerType
<1>7. HandlerType'
    BY <1>5 DEF Inv, HandlerType
<1>8. AtRest'
    BY <1>6 DEF Inv, AtRest, Recv, Read
<1>9. InputBound'
  <2>1. Len(b) \in Nat /\ Len(u) \in Nat /\ Len(v) \in Nat
    BY <1>1, LenProperties
  <2>2. Len(bu) + Len(v) = Len(b) + Len(rx)
    <3> HIDE DEF b, rx
    <3> QED
      BY <1>3, <1>4, <2>1
  <2> QED
    BY <2>2, <1>6 DEF Inv, InputBound
<1>10. store' = store
    BY DEF Recv
<1>11. Inv'
    BY <1>7, <1>8, <1>9, <1>10 DEF Inv
<1>12. Inbox' = Inbox
    BY <1>3, <1>4, <1>6 DEF Inbox
<1>13. Outbox' = Outbox /\ Status' = Status
    BY <1>6 DEF Outbox, Status
<1> QED
    BY <1>11, <1>12, <1>13

(* One send moves bytes from the reply to the kernel's queue
   (framing.cpp:47-69).                                                     *)
LEMMA SendFacts ==
    ASSUME Inv, Send
    PROVE  /\ Inv' /\ Inbox' = Inbox /\ Outbox' = Outbox /\ Status' = Status
<1> DEFINE m == handler.unsent
           tx == sock.tx
<1>1. m \in Seq(Byte) /\ tx \in Seq(Byte)
    BY DEF Inv, HandlerType
<1>2. PICK round \in send_all(m, SendQueue - Len(sock.tx)) :
          /\ handler' = [handler EXCEPT
                !.unsent = round.rest,
                !.pc = IF round.rest = <<>> THEN "read" ELSE "send"]
          /\ sock' = [sock EXCEPT !.tx = tx \o round.sent]
    BY DEF Send, Inv, HandlerType
<1>3. PICK u, v \in Seq(Byte) : u \o v = m /\ round.sent = u /\ round.rest = v
    BY <1>1, <1>2, SendRound
<1>4. PICK tu : tu = tx \o u
    OBVIOUS
<1>5. tu \in Seq(Byte) /\ tu \o v = tx \o m
  <2> HIDE DEF tx, m
  <2>1. tu \in Seq(Byte)
    BY <1>1, <1>4, ConcatProperties
  <2>2. (tx \o u) \o v = tx \o (u \o v)
    BY <1>1, ConcatAssociative
  <2>3. u \o v = m
    BY <1>3
  <2> QED
    BY <2>1, <2>2, <2>3, <1>4
<1>6. /\ handler' = [handler EXCEPT !.unsent = v,
                                    !.pc = IF v = <<>> THEN "read" ELSE "send"]
      /\ sock' = [sock EXCEPT !.tx = tu]
    BY <1>2, <1>3, <1>4
<1>7. /\ handler'.message_buffer = handler.message_buffer /\ handler'.unsent = v
      /\ handler'.pc = IF v = <<>> THEN "read" ELSE "send"
      /\ sock'.rx = sock.rx /\ sock'.tx = tu /\ sock'.sent = sock.sent
      /\ sock'.fin = sock.fin /\ sock'.rst = sock.rst
    BY <1>6 DEF Inv, HandlerType
<1>8. HandlerType'
    BY <1>3, <1>5, <1>6 DEF Inv, HandlerType
<1>9. AtRest'
    BY <1>7 DEF AtRest
<1>10. InputBound'
    BY <1>7 DEF Inv, InputBound
<1>11. store' = store /\ sock.rst = FALSE
    BY DEF Send, Inv, HandlerType
<1>12. Inv'
    BY <1>8, <1>9, <1>10, <1>11 DEF Inv
<1>13. Outbox' = Outbox
    BY <1>5, <1>7, <1>11 DEF Outbox
<1>14. Inbox' = Inbox /\ Status' = Status
    BY <1>7 DEF Inbox, Status
<1> QED
    BY <1>12, <1>13, <1>14

(* A message is the first line of the peer's stream; its reply follows the
   replies before it (client_handler.cpp:23-34).                            *)
LEMMA HandleMessageFacts ==
    ASSUME Inv, HandleMessage
    PROVE  /\ Inv' /\ Status' = Status
           /\ \E n \in 1..Len(Inbox) :
                 /\ IsNewline(Inbox, 0, n)
                 /\ store' = Answer(SubSeq(Inbox, 1, n - 1), store).store
                 /\ Inbox' = SubSeq(Inbox, n + 1, Len(Inbox))
                 /\ Outbox' = IF Status = "lost" THEN Outbox
                              ELSE Outbox \o
                                   Append(Answer(SubSeq(Inbox, 1, n - 1), store).text, NL)
<1> DEFINE b == handler.message_buffer
           rx == sock.rx
<1>1. /\ b \in Seq(Byte) /\ rx \in Seq(Byte) /\ sock.tx \in Seq(Byte)
      /\ Len(b) \in Nat /\ Len(rx) \in Nat /\ sock.sent \in Nat
    BY LenProperties DEF Inv, HandlerType
<1>2. next_message(b).has_value = TRUE /\ handler.pc = "read" /\ handler.unsent = <<>>
    BY <1>1, NextMessage DEF HandleMessage, Inv, AtRest, HasNewline
<1>3. PICK n \in 1..Len(b) :
         /\ IsNewline(b, 0, n)
         /\ next_message(b).value = SubSeq(b, 1, n - 1)
         /\ next_message(b).buffer = SubSeq(b, n + 1, Len(b))
    BY <1>1, <1>2, NextMessage
<1>4. PICK line, rest, answer :
         /\ line = SubSeq(b, 1, n - 1) /\ rest = SubSeq(b, n + 1, Len(b))
         /\ answer = Answer(line, store)
    OBVIOUS
<1>5. /\ store' = answer.store
      /\ handler' = [pc |-> "send", message_buffer |-> rest, unsent |-> Append(answer.text, NL)]
      /\ sock' = sock
    BY <1>3, <1>4 DEF HandleMessage
<1>6. Tokens(line) \in Seq(Text)
    BY <1>3, <1>4, LineWords
<1>7. answer.text \in Text /\ StoreOf(Text, answer.store)
    BY <1>4, <1>6, AnswerText DEF Inv
<1>8. Append(answer.text, NL) \in Seq(Byte)
    BY <1>7, TextFacts
<1>9. n \in Nat /\ n <= Len(b)
    BY <1>1
<1>10. rest \in Seq(Byte) /\ Len(rest) = Len(b) - n
    BY <1>1, <1>4, <1>9, SuffixFacts
<1>11. /\ n \in 1..Len(b \o rx) /\ IsNewline(b \o rx, 0, n)
       /\ SubSeq(b \o rx, 1, n - 1) = line
       /\ SubSeq(b \o rx, n + 1, Len(b \o rx)) = rest \o rx
  <2> HIDE DEF b, rx
  <2>1. IsNewline(b, 0, n)
    BY <1>3
  <2>2. /\ n \in 1..Len(b \o rx) /\ IsNewline(b \o rx, 0, n)
        /\ SubSeq(b \o rx, 1, n - 1) = SubSeq(b, 1, n - 1)
        /\ SubSeq(b \o rx, n + 1, Len(b \o rx)) = SubSeq(b, n + 1, Len(b)) \o rx
    BY <1>1, <2>1, NewlineOfConcat
  <2> QED
    BY <2>2, <1>4
<1>12. /\ handler'.pc = "send" /\ handler'.message_buffer = rest
       /\ handler'.unsent = Append(answer.text, NL)
    BY <1>5
<1>13. HandlerType'
    BY <1>5, <1>8, <1>10 DEF Inv, HandlerType
<1>14. AtRest'
    BY <1>12 DEF AtRest
<1>15. InputBound'
  <2>1. Len(b) + Len(rx) <= sock.sent /\ sock.sent <= MaxBytes
    BY DEF Inv, InputBound
  <2>2. Len(rest) + Len(rx) <= sock.sent
    <3> HIDE DEF b, rx
    <3> QED
      BY <2>1, <1>1, <1>9, <1>10
  <2> QED
    BY <2>1, <2>2, <1>5, <1>12 DEF InputBound
<1>16. Inv'
    BY <1>5, <1>7, <1>13, <1>14, <1>15 DEF Inv
<1>17. Inbox = b \o rx /\ Inbox' = rest \o rx
    BY <1>5, <1>12 DEF Inbox
<1>18. Status' = Status
    BY <1>5 DEF Status
<1>19. sock.tx \o <<>> = sock.tx
    BY <1>1, ConcatEmptySeq
<1>20. Outbox' = IF Status = "lost" THEN Outbox ELSE Outbox \o Append(answer.text, NL)
    BY <1>2, <1>5, <1>12, <1>19 DEF Outbox, Status
<1> QED
    BY <1>4, <1>5, <1>11, <1>16, <1>17, <1>18, <1>20

-----------------------------------------------------------------------------
UpdatePeer(f, y) == [f EXCEPT !["peer"] = y]

(* The functions of the service have one client.                            *)
LEMMA OneClient ==
    ASSUME NEW x, NEW y
    PROVE  OfPeer(x)["peer"] = x /\ UpdatePeer(OfPeer(x), y) = OfPeer(y)
    BY DEF OfPeer, UpdatePeer

(* The service reads a stream and answers a line as Protocol does.          *)
LEMMA SameProtocol ==
    ASSUME NEW s, NEW n, NEW data
    PROVE  /\ Service!IsNewline(s, 0, n) = IsNewline(s, 0, n)
           /\ Service!HasNewline(s, 0) = HasNewline(s, 0)
           /\ Service!Answer(s, data) = Answer(s, data)
<1>1. Service!parse_command(s) = parse_command(s)
    BY DEF Service!parse_command, parse_command, Service!Command, Command, Service!nullopt, nullopt
<1>2. ASSUME NEW c PROVE Service!execute_command(c, data) = execute_command(c, data)
    BY DEF Service!execute_command, execute_command, Service!set, set, Service!get, get,
        Service!exists, exists, Service!erase, erase, Service!erased, erased,
        Service!count, count, Service!nullopt, nullopt
<1>3. Service!Answer(s, data) = Answer(s, data)
    BY <1>1, <1>2 DEF Service!Answer, Answer
<1>4. /\ Service!IsNewline(s, 0, n) = IsNewline(s, 0, n)
      /\ Service!HasNewline(s, 0) = HasNewline(s, 0)
    BY DEF Service!IsNewline, IsNewline, Service!HasNewline, HasNewline
<1> QED
    BY <1>3, <1>4

(* A line taken, executed and answered is a step of the service.            *)
LEMMA ServiceExecutes ==
    ASSUME Status' = Status,
           NEW n \in 1..Len(Inbox), IsNewline(Inbox, 0, n),
           NEW line, line = SubSeq(Inbox, 1, n - 1),
           store' = Answer(line, store).store,
           Inbox' = SubSeq(Inbox, n + 1, Len(Inbox)),
           Outbox' = IF Status = "lost" THEN Outbox
                     ELSE Outbox \o Append(Answer(line, store).text, NL)
    PROVE  Service!Next
<1>1. /\ OfPeer(Inbox)["peer"] = Inbox /\ OfPeer(Outbox)["peer"] = Outbox
      /\ OfPeer(Status)["peer"] = Status
    BY OneClient
<1>2. Service!IsNewline(Inbox, 0, n) /\ Service!Answer(line, store) = Answer(line, store)
    BY SameProtocol
<1>3. UpdatePeer(OfPeer(Inbox), SubSeq(Inbox, n + 1, Len(Inbox))) = OfPeer(Inbox)'
    BY OneClient
<1>4. UpdatePeer(OfPeer(Outbox), Outbox \o Append(Answer(line, store).text, NL))
        = OfPeer(Outbox \o Append(Answer(line, store).text, NL))
    BY OneClient
<1>5. OfPeer(Outbox)' = IF OfPeer(Status)["peer"] = "lost" THEN OfPeer(Outbox)
                        ELSE UpdatePeer(OfPeer(Outbox), OfPeer(Outbox)["peer"] \o
                                Append(Service!Answer(line, store).text, NL))
    BY <1>1, <1>2, <1>4
<1>6. \E m \in 1..Len(OfPeer(Inbox)["peer"]) :
         /\ Service!IsNewline(OfPeer(Inbox)["peer"], 0, m)
         /\ LET answer == Service!Answer(SubSeq(OfPeer(Inbox)["peer"], 1, m - 1), store) IN
              /\ store' = answer.store
              /\ OfPeer(Inbox)' = [OfPeer(Inbox) EXCEPT !["peer"] = SubSeq(@, m + 1, Len(@))]
              /\ OfPeer(Outbox)' =
                    IF OfPeer(Status)["peer"] = "lost" THEN OfPeer(Outbox)
                    ELSE [OfPeer(Outbox) EXCEPT !["peer"] = @ \o Append(answer.text, NL)]
  <2>1. n \in 1..Len(OfPeer(Inbox)["peer"])
    BY <1>1
  <2> WITNESS n \in 1..Len(OfPeer(Inbox)["peer"])
  <2>2. OfPeer(Inbox)' = UpdatePeer(OfPeer(Inbox), SubSeq(OfPeer(Inbox)["peer"], n + 1, Len(OfPeer(Inbox)["peer"])))
    BY <1>1, <1>3
  <2>3. SubSeq(OfPeer(Inbox)["peer"], 1, n - 1) = line
    BY <1>1
  <2> QED
    BY <1>1, <1>2, <1>5, <2>2, <2>3 DEF UpdatePeer
<1>7. OfPeer(Status)' = OfPeer(Status)
    OBVIOUS
<1>8. Service!Execute("peer")
    BY <1>6, <1>7 DEF Service!Execute
<1> QED
    BY <1>8 DEF Service!Next

(* So are bytes from the peer, ...                                          *)
LEMMA ServiceSends ==
    ASSUME Status = "open", Status' = Status, NEW s \in Chunks,
           Inbox' = Inbox \o s, Outbox' = Outbox, store' = store
    PROVE  Service!Next
<1>1. OfPeer(Inbox)["peer"] = Inbox /\ OfPeer(Status)["peer"] = "open"
    BY OneClient
<1>2. OfPeer(Inbox)' = UpdatePeer(OfPeer(Inbox), OfPeer(Inbox)["peer"] \o s)
    BY <1>1, OneClient
<1>3. \E t \in Chunks : OfPeer(Inbox)' = [OfPeer(Inbox) EXCEPT !["peer"] = @ \o t]
  <2> WITNESS s \in Chunks
  <2> QED
    BY <1>2 DEF UpdatePeer
<1>4. OfPeer(Outbox)' = OfPeer(Outbox) /\ OfPeer(Status)' = OfPeer(Status)
    OBVIOUS
<1>5. Service!Send("peer")
    BY <1>1, <1>3, <1>4 DEF Service!Send
<1> QED
    BY <1>5 DEF Service!Next

(* ... its half-close, ...                                                  *)
LEMMA ServiceHalfCloses ==
    ASSUME Status = "open", Status' = "ended",
           Inbox' = Inbox, Outbox' = Outbox, store' = store
    PROVE  Service!Next
<1>1. OfPeer(Status)["peer"] = "open"
    BY OneClient
<1>2. OfPeer(Status)' = UpdatePeer(OfPeer(Status), "ended")
    BY OneClient
<1>3. OfPeer(Outbox)' = OfPeer(Outbox) /\ OfPeer(Inbox)' = OfPeer(Inbox)
    OBVIOUS
<1>4. Service!HalfClose("peer")
    BY <1>1, <1>2, <1>3 DEF Service!HalfClose, UpdatePeer
<1> QED
    BY <1>4 DEF Service!Next

(* ... replies delivered, ...                                               *)
LEMMA ServiceDelivers ==
    ASSUME NEW n \in 1..Len(Outbox), Outbox' = SubSeq(Outbox, n + 1, Len(Outbox)),
           Inbox' = Inbox, Status' = Status, store' = store
    PROVE  Service!Next
<1>1. OfPeer(Outbox)["peer"] = Outbox
    BY OneClient
<1>2. OfPeer(Outbox)' = UpdatePeer(OfPeer(Outbox), SubSeq(OfPeer(Outbox)["peer"], n + 1, Len(OfPeer(Outbox)["peer"])))
    BY <1>1, OneClient
<1>3. \E m \in 1..Len(OfPeer(Outbox)["peer"]) :
         OfPeer(Outbox)' = [OfPeer(Outbox) EXCEPT !["peer"] = SubSeq(@, m + 1, Len(@))]
  <2>1. n \in 1..Len(OfPeer(Outbox)["peer"])
    BY <1>1
  <2> WITNESS n \in 1..Len(OfPeer(Outbox)["peer"])
  <2> QED
    BY <1>2 DEF UpdatePeer
<1>4. OfPeer(Status)' = OfPeer(Status) /\ OfPeer(Inbox)' = OfPeer(Inbox)
    OBVIOUS
<1>5. Service!Receive("peer")
    BY <1>3, <1>4 DEF Service!Receive
<1> QED
    BY <1>5 DEF Service!Next

(* ... an incomplete line dropped at the end of the stream, ...             *)
LEMMA ServiceDropsTail ==
    ASSUME Status # "open", ~HasNewline(Inbox, 0), Inbox' = <<>>,
           Outbox' = Outbox, Status' = Status, store' = store
    PROVE  Service!Next
<1>1. OfPeer(Inbox)["peer"] = Inbox /\ OfPeer(Status)["peer"] # "open"
    BY OneClient
<1>2. ~Service!HasNewline(Inbox, 0)
    BY SameProtocol
<1>3. OfPeer(Inbox)' = UpdatePeer(OfPeer(Inbox), <<>>)
    BY OneClient
<1>4. OfPeer(Outbox)' = OfPeer(Outbox) /\ OfPeer(Status)' = OfPeer(Status)
    OBVIOUS
<1>5. Service!DropTail("peer")
    BY <1>1, <1>2, <1>3, <1>4 DEF Service!DropTail, UpdatePeer
<1> QED
    BY <1>5 DEF Service!Next

(* ... and the loss of the client.                                          *)
LEMMA ServiceLoses ==
    ASSUME Status' = "lost", NEW m \in 0..Len(Inbox), NEW n \in 0..Len(Outbox),
           Inbox' = SubSeq(Inbox, 1, m), Outbox' = SubSeq(Outbox, 1, n), store' = store
    PROVE  Service!Next
<1>1. OfPeer(Inbox)["peer"] = Inbox /\ OfPeer(Outbox)["peer"] = Outbox
    BY OneClient
<1>2. Inbox' \in Service!Prefixes(Inbox) /\ Outbox' \in Service!Prefixes(Outbox)
    BY DEF Service!Prefixes
<1>3. PICK i, o : i = Inbox' /\ o = Outbox'
    OBVIOUS
<1>4. /\ OfPeer(Inbox)' = UpdatePeer(OfPeer(Inbox), i)
      /\ OfPeer(Outbox)' = UpdatePeer(OfPeer(Outbox), o)
      /\ OfPeer(Status)' = UpdatePeer(OfPeer(Status), "lost")
    BY <1>3, OneClient
<1>5. \E s \in Service!Prefixes(OfPeer(Inbox)["peer"]) :
         OfPeer(Inbox)' = [OfPeer(Inbox) EXCEPT !["peer"] = s]
  <2>1. i \in Service!Prefixes(OfPeer(Inbox)["peer"])
    BY <1>1, <1>2, <1>3
  <2> WITNESS i \in Service!Prefixes(OfPeer(Inbox)["peer"])
  <2> QED
    BY <1>4 DEF UpdatePeer
<1>6. \E s \in Service!Prefixes(OfPeer(Outbox)["peer"]) :
         OfPeer(Outbox)' = [OfPeer(Outbox) EXCEPT !["peer"] = s]
  <2>1. o \in Service!Prefixes(OfPeer(Outbox)["peer"])
    BY <1>1, <1>2, <1>3
  <2> WITNESS o \in Service!Prefixes(OfPeer(Outbox)["peer"])
  <2> QED
    BY <1>4 DEF UpdatePeer
<1>7. Service!Lose("peer")
    BY <1>4, <1>5, <1>6 DEF Service!Lose, UpdatePeer
<1> QED
    BY <1>7 DEF Service!Next

-----------------------------------------------------------------------------
(* What the peer does keeps the invariant and is a step of the service.     *)
LEMMA PeerStepFacts ==
    ASSUME Inv, PeerStep
    PROVE  Inv' /\ (Service!Next \/ UNCHANGED <<Inbox, Outbox, Status, store>>)
<1>1. /\ handler.message_buffer \in Seq(Byte) /\ handler.unsent \in Seq(Byte)
      /\ sock.rx \in Seq(Byte) /\ sock.tx \in Seq(Byte) /\ sock.sent \in Nat
      /\ sock.fin \in BOOLEAN /\ sock.rst \in BOOLEAN
    BY DEF Inv, HandlerType
<1>2. handler' = handler /\ store' = store
    BY DEF PeerStep
<1>3. <<>> \in Seq(Byte) /\ Len(<<>>) = 0
    BY EmptySeq
<1>4. PICK b, u, rx, tx : /\ b = handler.message_buffer /\ u = handler.unsent
                          /\ rx = sock.rx /\ tx = sock.tx
    OBVIOUS
<1>5. /\ b \in Seq(Byte) /\ u \in Seq(Byte) /\ rx \in Seq(Byte) /\ tx \in Seq(Byte)
      /\ Len(b) \in Nat /\ Len(u) \in Nat /\ Len(rx) \in Nat /\ Len(tx) \in Nat
    BY <1>1, <1>4, LenProperties
<1>6. Inbox = b \o rx /\ Outbox = IF sock.rst THEN tx ELSE tx \o u
    BY <1>4 DEF Inbox, Outbox
<1>7. ASSUME ~sock.fin, ~sock.rst, handler.pc \in {"read", "send"}, NEW s \in Chunks,
             sock.sent + Len(s) <= MaxBytes,
             sock' = [sock EXCEPT !.rx = @ \o s, !.sent = @ + Len(s)]
      PROVE  Inv' /\ Service!Next
  <2>1. s \in Seq(Byte) /\ Len(s) \in Nat
    BY HandlerAssumption, LenProperties
  <2>2. PICK rs, k : rs = rx \o s /\ k = sock.sent + Len(s)
    OBVIOUS
  <2>3. rs \in Seq(Byte) /\ Len(rs) = Len(rx) + Len(s) /\ k \in Nat /\ k <= MaxBytes
    BY <1>1, <1>5, <1>7, <2>1, <2>2, ConcatProperties
  <2>4. sock' = [sock EXCEPT !.rx = rs, !.sent = k]
    BY <1>4, <1>7, <2>2
  <2>5. /\ sock'.rx = rs /\ sock'.sent = k /\ sock'.tx = tx
        /\ sock'.fin = sock.fin /\ sock'.rst = sock.rst
    BY <1>4, <2>4 DEF Inv, HandlerType
  <2>6. HandlerType'
    BY <1>2, <2>3, <2>4 DEF Inv, HandlerType
  <2>7. AtRest'
    BY <1>2, <1>7, <2>5 DEF Inv, AtRest
  <2>8. InputBound'
    <3>1. Len(b) + Len(rx) <= sock.sent
      BY <1>4 DEF Inv, InputBound
    <3>2. Len(b) + Len(rs) <= k
      BY <3>1, <1>1, <1>5, <2>1, <2>2, <2>3
    <3> QED
      BY <3>2, <1>2, <1>4, <2>3, <2>5 DEF InputBound
  <2>9. Inv'
    BY <1>2, <2>6, <2>7, <2>8 DEF Inv
  <2>10. (b \o rx) \o s = b \o (rx \o s)
    BY <1>5, <2>1, ConcatAssociative
  <2>11. Inbox' = Inbox \o s
    BY <1>2, <1>4, <1>6, <2>2, <2>5, <2>10 DEF Inbox
  <2>12. Outbox' = Outbox /\ Status' = Status /\ Status = "open"
    <3>1. Outbox' = Outbox
      BY <1>2, <1>4, <2>5 DEF Outbox
    <3>2. sock.fin = FALSE /\ sock.rst = FALSE
      BY <1>1, <1>7
    <3> QED
      BY <3>1, <3>2, <2>5 DEF Status
  <2> QED
    BY <1>2, <2>9, <2>11, <2>12, ServiceSends
<1>8. ASSUME ~sock.fin, ~sock.rst, sock' = [sock EXCEPT !.fin = TRUE]
      PROVE  Inv' /\ Service!Next
  <2>1. /\ sock'.rx = rx /\ sock'.sent = sock.sent /\ sock'.tx = tx
        /\ sock'.fin = TRUE /\ sock'.rst = sock.rst
    BY <1>4, <1>8 DEF Inv, HandlerType
  <2>2. HandlerType'
    BY <1>2, <1>8 DEF Inv, HandlerType
  <2>3. AtRest' /\ InputBound'
    BY <1>2, <1>4, <2>1 DEF Inv, AtRest, InputBound
  <2>4. Inv'
    BY <1>2, <2>2, <2>3 DEF Inv
  <2>5. Inbox' = Inbox /\ Outbox' = Outbox /\ Status = "open" /\ Status' = "ended"
    <3>1. Inbox' = Inbox /\ Outbox' = Outbox
      BY <1>2, <1>4, <2>1 DEF Inbox, Outbox
    <3>2. sock.fin = FALSE /\ sock.rst = FALSE
      BY <1>1, <1>8
    <3> QED
      BY <3>1, <3>2, <2>1 DEF Status
  <2> QED
    BY <1>2, <2>4, <2>5, ServiceHalfCloses
<1>9. ASSUME ~sock.rst, sock' = [sock EXCEPT !.rst = TRUE, !.tx = <<>>]
      PROVE  Inv' /\ Service!Next
  <2>1. /\ sock'.rx = rx /\ sock'.sent = sock.sent /\ sock'.tx = <<>>
        /\ sock'.fin = sock.fin /\ sock'.rst = TRUE
    BY <1>4, <1>9 DEF Inv, HandlerType
  <2>2. HandlerType'
    BY <1>2, <1>3, <1>9 DEF Inv, HandlerType
  <2>3. AtRest' /\ InputBound'
    BY <1>2, <1>4, <2>1 DEF Inv, AtRest, InputBound
  <2>4. Inv'
    BY <1>2, <2>2, <2>3 DEF Inv
  <2>5. Inbox' = Inbox /\ Outbox' = <<>> /\ Status' = "lost"
    BY <1>2, <1>4, <2>1 DEF Inbox, Outbox, Status
  <2>6. Inbox \in Seq(Byte) /\ Outbox \in Seq(Byte)
    BY <1>5, <1>6, ConcatProperties
  <2>7. /\ Len(Inbox) \in 0..Len(Inbox) /\ 0 \in 0..Len(Outbox)
        /\ SubSeq(Inbox, 1, Len(Inbox)) = Inbox /\ SubSeq(Outbox, 1, 0) = <<>>
    BY <2>6, LenProperties, SubSeqFull, SubSeqEmpty
  <2> QED
    BY <1>2, <2>4, <2>5, <2>7, ServiceLoses
<1>10. ASSUME sock.tx # <<>>, sock' = [sock EXCEPT !.tx = <<>>]
       PROVE  Inv' /\ Service!Next
  <2>1. /\ sock'.rx = rx /\ sock'.sent = sock.sent /\ sock'.tx = <<>>
        /\ sock'.fin = sock.fin /\ sock'.rst = sock.rst
    BY <1>4, <1>10 DEF Inv, HandlerType
  <2>2. HandlerType'
    BY <1>2, <1>3, <1>10 DEF Inv, HandlerType
  <2>3. AtRest' /\ InputBound'
    BY <1>2, <1>4, <2>1 DEF Inv, AtRest, InputBound
  <2>4. Inv'
    BY <1>2, <2>2, <2>3 DEF Inv
  <2>5. Inbox' = Inbox /\ Outbox' = (IF sock.rst THEN <<>> ELSE <<>> \o u) /\ Status' = Status
    BY <1>2, <1>4, <2>1 DEF Inbox, Outbox, Status
  <2>6. Len(tx) \in Nat \ {0}
    BY <1>4, <1>5, <1>10, EmptySeq
  <2>7. SubSeq(tx, Len(tx) + 1, Len(tx)) = <<>>
    BY <1>5, SubSeqEmpty
  <2>8. SubSeq(tx \o u, Len(tx) + 1, Len(tx \o u)) = <<>> \o u /\ Len(tx \o u) = Len(tx) + Len(u)
    BY <1>5, <2>7, SuffixOfConcat, ConcatProperties
  <2>9. Outbox' = SubSeq(Outbox, Len(tx) + 1, Len(Outbox))
    BY <1>6, <2>5, <2>7, <2>8
  <2>10. Len(tx) \in 1..Len(Outbox)
    BY <1>5, <1>6, <2>6, <2>8
  <2> QED
    BY <1>2, <2>4, <2>5, <2>9, <2>10, ServiceDelivers
<1> QED
    BY <1>7, <1>8, <1>9, <1>10 DEF PeerStep

(* Every step of the handler and of its peer is a step of the service, or
   leaves what the service sees as it was.                                  *)
LEMMA StepFacts ==
    ASSUME Inv, [Next]_vars
    PROVE  Inv' /\ (Service!Next \/ UNCHANGED <<Inbox, Outbox, Status, store>>)
<1>1. CASE Recv
    BY <1>1, RecvFacts DEF Recv
<1>2. CASE Send
    BY <1>2, SendFacts DEF Send
<1>3. CASE HandleMessage
  <2>1. PICK n \in 1..Len(Inbox) :
          /\ IsNewline(Inbox, 0, n)
          /\ store' = Answer(SubSeq(Inbox, 1, n - 1), store).store
          /\ Inbox' = SubSeq(Inbox, n + 1, Len(Inbox))
          /\ Outbox' = IF Status = "lost" THEN Outbox
                       ELSE Outbox \o Append(Answer(SubSeq(Inbox, 1, n - 1), store).text, NL)
    BY <1>3, HandleMessageFacts
  <2>2. Inv' /\ Status' = Status
    BY <1>3, HandleMessageFacts
  <2>3. PICK line : line = SubSeq(Inbox, 1, n - 1)
    OBVIOUS
  <2>4. Service!Next
    BY <2>1, <2>2, <2>3, ServiceExecutes
  <2> QED
    BY <2>2, <2>4
<1>4. CASE Disconnected
  <2>1. /\ Inv' /\ handler'.message_buffer = <<>> /\ handler'.unsent = <<>>
        /\ sock'.rx = <<>> /\ sock'.tx = sock.tx
        /\ sock'.fin = sock.fin /\ sock'.rst = sock.rst
    BY <1>4, ReturnFacts DEF Disconnected
  <2>2. handler.message_buffer \in Seq(Byte) /\ <<>> \in Seq(Byte)
    BY EmptySeq DEF Inv, HandlerType
  <2>3. ~HasNewline(handler.message_buffer, 0) /\ sock.rx = <<>> /\ handler.unsent = <<>>
    BY <1>4, <2>2, NextMessage DEF Disconnected, Read, Inv, AtRest, HasNewline
  <2>4. Inbox = handler.message_buffer /\ Inbox' = <<>>
    BY <2>1, <2>2, <2>3, ConcatEmptySeq DEF Inbox
  <2>5. Outbox' = Outbox /\ Status' = Status /\ Status # "open" /\ store' = store
    BY <1>4, <2>1, <2>3 DEF Outbox, Status, Disconnected, Return
  <2>6. Service!Next
    BY <2>3, <2>4, <2>5, ServiceDropsTail
  <2> QED
    BY <2>1, <2>6
<1>5. CASE SendFails
  <2>1. /\ Inv' /\ handler'.message_buffer = <<>> /\ handler'.unsent = <<>>
        /\ sock'.rx = <<>> /\ sock'.tx = sock.tx
        /\ sock'.fin = sock.fin /\ sock'.rst = sock.rst
    BY <1>5, ReturnFacts DEF SendFails
  <2>2. /\ handler.message_buffer \in Seq(Byte) /\ sock.rx \in Seq(Byte)
        /\ sock.tx \in Seq(Byte) /\ <<>> \in Seq(Byte) /\ sock.rst = TRUE
    BY <1>5, EmptySeq DEF Inv, HandlerType, SendFails
  <2>3. Outbox = sock.tx /\ Outbox' = sock.tx /\ Status' = "lost" /\ store' = store
    BY <1>5, <2>1, <2>2 DEF Outbox, Status, SendFails, Return
  <2>4. Inbox \in Seq(Byte)
    BY <2>2, ConcatProperties DEF Inbox
  <2>5. Inbox' = <<>>
    BY <2>1, <2>2, ConcatEmptySeq DEF Inbox
  <2>6. /\ 0 \in 0..Len(Inbox) /\ SubSeq(Inbox, 1, 0) = <<>>
        /\ Len(Outbox) \in 0..Len(Outbox) /\ SubSeq(Outbox, 1, Len(Outbox)) = Outbox
    BY <2>2, <2>3, <2>4, LenProperties, SubSeqEmpty, SubSeqFull
  <2>7. Service!Next
    BY <2>3, <2>5, <2>6, ServiceLoses
  <2> QED
    BY <2>1, <2>7
<1>6. CASE PeerStep
    BY <1>6, PeerStepFacts
<1>7. CASE UNCHANGED vars
  <2>1. handler' = handler /\ store' = store /\ sock' = sock
    BY <1>7 DEF vars
  <2>2. Inv'
    BY <2>1 DEF Inv, HandlerType, AtRest, InputBound
  <2>3. Inbox' = Inbox /\ Outbox' = Outbox /\ Status' = Status
    BY <2>1 DEF Inbox, Outbox, Status
  <2> QED
    BY <2>1, <2>2, <2>3
<1> QED
    BY <1>1, <1>2, <1>3, <1>4, <1>5, <1>6, <1>7 DEF Next

(* The invariant is an invariant: a handler that has returned holds no
   input, one outside send_all owes no reply, and the store holds texts.    *)
THEOREM Invariance == Spec => []Inv
<1>1. Inv /\ [Next]_vars => Inv'
    BY StepFacts
<1> QED
    BY InitInv, <1>1, PTL DEF Spec

(* For every set of chunks and every way the kernel splits the streams, the
   blocking handler implements the abstract service: each line is executed
   once, in order, on the one store, and its whole reply follows the reply
   before it (client_handler.cpp:10-41, framing.cpp:8-69).                  *)
THEOREM HandlerRefines == Spec => HandlerImplementsService
<1>1. Init => Service!Init
  <2> SUFFICES ASSUME Init PROVE Service!Init
    OBVIOUS
  <2>1. <<>> \o <<>> = <<>>
    BY EmptySeq, ConcatEmptySeq
  <2>2. Inbox = <<>> /\ Outbox = <<>> /\ Status = "open" /\ store = Service!EmptyStore
    BY <2>1 DEF Init, Inbox, Outbox, Status, EmptyStore, Service!EmptyStore
  <2>3. OfPeer(Inbox) = OfPeer(<<>>) /\ OfPeer(Outbox) = OfPeer(<<>>)
        /\ OfPeer(Status) = OfPeer("open")
    BY <2>2
  <2> QED
    BY <2>2, <2>3 DEF Service!Init, OfPeer
<1>2. Inv /\ [Next]_vars => [Service!Next]_(Service!kvVars)
  <2> SUFFICES ASSUME Inv, [Next]_vars PROVE [Service!Next]_(Service!kvVars)
    OBVIOUS
  <2>1. CASE Service!Next
    BY <2>1
  <2>2. CASE UNCHANGED <<Inbox, Outbox, Status, store>>
    <3>1. /\ OfPeer(Inbox)' = OfPeer(Inbox) /\ OfPeer(Outbox)' = OfPeer(Outbox)
          /\ OfPeer(Status)' = OfPeer(Status) /\ store' = store
      BY <2>2
    <3> QED
      BY <3>1 DEF Service!kvVars
  <2> QED
    BY <2>1, <2>2, StepFacts
<1> QED
    BY Invariance, <1>1, <1>2, PTL DEF Spec, HandlerImplementsService, Service!Spec
=============================================================================
