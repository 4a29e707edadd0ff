------------------------------ MODULE Protocol ------------------------------
(***************************************************************************)
(* The line protocol: src/protocol/parser.cpp and src/protocol/executor.cpp*)
(* over the store.  A frame is the sequence of bytes before a newline; a   *)
(* text is any sequence of bytes other than the newline.  Two library      *)
(* conversions are parameters: Tokens (what repeated `stream >> word`      *)
(* extracts from a frame) and CountText (std::to_string of a size_t).      *)
(***************************************************************************)
EXTENDS Integers, Sequences, KeyValueStore

CONSTANTS
    Byte,               \* the bytes of the model's alphabet
    NL,                 \* '\n'
    kMaxInputBytes,     \* a frame and its newline fit in this many bytes
    kMaxResponseBytes,  \* a reply and its newline fit in this many bytes
    SizeMax,            \* the largest size_t
    Lit,                \* the bytes of the string literals of the source
    CountText,          \* std::to_string(n), n a size_t
    Tokens(_)           \* the words istringstream extracts from a frame

Char == Byte \ {NL}

Text == Seq(Char)

(* The frames that fit in the input allowance together with their newline. *)
Frames == UNION {[1..n -> Char] : n \in 0..(kMaxInputBytes - 1)}

Literals == {"SET", "GET", "DELETE", "EXISTS", "COUNT", "OK", "NOT_FOUND",
             "1", "0", "INVALID COMMAND MESSAGE", "ERROR"}

ASSUME AlphabetAssumption == NL \in Byte

(* One allowance of 64 KiB serves for a frame and for a reply
   (connection.hpp:27-30).                                                 *)
ASSUME AllowanceAssumption ==
    /\ kMaxInputBytes \in Nat \ {0}
    /\ kMaxResponseBytes \in Nat
    /\ kMaxInputBytes <= kMaxResponseBytes

(* Every fixed reply, and every rendered count, fits in the allowance.     *)
ASSUME FixedRepliesAssumption ==
    /\ SizeMax \in Nat
    /\ \A l \in Literals : Lit[l] \in Text /\ Len(Lit[l]) < kMaxResponseBytes
    /\ \A n \in 0..SizeMax :
          CountText[n] \in Text /\ Len(CountText[n]) < kMaxResponseBytes

(* A word extracted from a frame is a text no longer than the frame.       *)
ASSUME TokensAssumption ==
    \A f \in Frames :
        /\ Tokens(f) \in Seq(Text)
        /\ \A i \in 1..Len(Tokens(f)) : Len(Tokens(f)[i]) <= Len(f)

-----------------------------------------------------------------------------
(* struct Command                                                          *)

CommandType == {"Set", "Get", "Erase", "Exists", "Count"}

Command(type, key, value) ==
    [has_value |-> TRUE, type |-> type, key |-> key, value |-> value]

(* The operation word, in upper case, fixes how many words must follow;
   one too few or one too many makes the frame malformed (std::nullopt).   *)
parse_command(frame) ==
    LET w == Tokens(frame) IN
    CASE Len(w) = 3 /\ w[1] = Lit["SET"]    -> Command("Set", w[2], w[3])
      [] Len(w) = 2 /\ w[1] = Lit["GET"]    -> Command("Get", w[2], <<>>)
      [] Len(w) = 2 /\ w[1] = Lit["DELETE"] -> Command("Erase", w[2], <<>>)
      [] Len(w) = 2 /\ w[1] = Lit["EXISTS"] -> Command("Exists", w[2], <<>>)
      [] Len(w) = 1 /\ w[1] = Lit["COUNT"]  -> Command("Count", <<>>, <<>>)
      [] OTHER -> nullopt

(* execute_command: the text of the reply and the store afterwards.  The
   size of the map reaches to_string as a size_t.                          *)
execute_command(command, data) ==
    LET key == command.key
        Done(text, after) == [text |-> text, store |-> after]
    IN
    CASE command.type = "Set" ->
            Done(Lit["OK"], set(data, key, command.value))
      [] command.type = "Get" ->
            LET value == get(data, key) IN
            Done(IF value.has_value THEN value.value ELSE Lit["NOT_FOUND"], data)
      [] command.type = "Erase" ->
            Done(IF erase(data, key) THEN Lit["OK"] ELSE Lit["NOT_FOUND"],
                 erased(data, key))
      [] command.type = "Exists" ->
            Done(IF exists(data, key) THEN Lit["1"] ELSE Lit["0"], data)
      [] command.type = "Count" ->
            Done(CountText[count(data) % (SizeMax + 1)], data)
      [] OTHER -> Done(Lit["ERROR"], data)

(* What a server does with one frame: the reply without its newline, and
   the store afterwards.                                                   *)
Answer(frame, data) ==
    LET command == parse_command(frame) IN
    IF command.has_value
    THEN execute_command(command, data)
    ELSE [text |-> Lit["INVALID COMMAND MESSAGE"], store |-> data]

(* Position i holds the first newline of s after position from: what
   std::string::find('\n', from) returns, counted from 1.                  *)
IsNewline(s, from, i) ==
    /\ i \in (from + 1)..Len(s)
    /\ s[i] = NL
    /\ \A j \in (from + 1)..(i - 1) : s[j] # NL

HasNewline(s, from) == \E i \in (from + 1)..Len(s) : s[i] = NL
=============================================================================
