--------------------------------- MODULE Formats ---------------------------------
(***************************************************************************)
(* The two parsers of src/web/: the Authorization header in check_basic,   *)
(* against the pair that the user typed, and parse_pubkey_hex, against the *)
(* digits that tools/ota_sign.py prints.                                   *)
(*                                                                         *)
(* A character is its ASCII code.  Buffers are scaled down in the checks;  *)
(* the theorems hold for the sizes in the code.                            *)
(***************************************************************************)
EXTENDS Integers, Sequences, FiniteSets

CONSTANTS
  HdrMax,    \* sizeof(hdr): 512
  BufMax,    \* sizeof(decoded): 256
  KeyBytes,  \* a public key: 32
  Logins,    \* strings used as user or password
  Digits     \* strings given to parse_pubkey_hex

\* As the code's sizes are: whatever fits decoded fits hdr.
Base64Len(n) == 4 * ((n + 2) \div 3)

ASSUME FormatsOK ==
  /\ HdrMax \in Nat /\ BufMax \in Nat /\ KeyBytes \in Nat
  /\ \A n \in 0 .. BufMax : 6 + Base64Len(n) + 1 <= HdrMax
  /\ Logins \subseteq Seq(1 .. 127) /\ Digits \subseteq Seq(1 .. 127)

VARIABLE input   \* what is parsed
-----------------------------------------------------------------------------
(* The Authorization header.                                               *)

Colon == 58

\* What a browser encodes for a user and a password.
Typed(u, p) == u \o <<Colon>> \o p

NoHeader == [basic |-> FALSE, text |-> <<>>]

\* Mutant: the last colon splits.
Splits_Last(text, c) == text[c] = Colon /\ \A i \in c + 1 .. Len(text) : text[i] # Colon

\* memchr finds the first colon.
Splits(text, c) == text[c] = Colon /\ \A i \in 1 .. c - 1 : text[i] # Colon

\* basic: the scheme and the base64 are right.  Both buffers must suffice.
Decodes(h) ==
  /\ h.basic
  /\ 6 + Base64Len(Len(h.text)) + 1 <= HdrMax
  /\ Len(h.text) <= BufMax

Open(u, p) == u = <<>> \/ p = <<>>

\* check_basic, with the pair (u, p) in force.
Accepts(h, u, p) ==
  \/ Open(u, p)
  \/ /\ Decodes(h)
     /\ \E c \in 1 .. Len(h.text) :
          /\ Splits(h.text, c)
          /\ SubSeq(h.text, 1, c - 1) = u
          /\ SubSeq(h.text, c + 1, Len(h.text)) = p

\* A pair that can be typed at all: the user has no colon, and both fit the buffer.
Usable(u, p) ==
  /\ \A i \in 1 .. Len(u) : u[i] # Colon
  /\ Len(u) + 1 + Len(p) <= BufMax
-----------------------------------------------------------------------------
(* The public key.                                                         *)

\* Mutant: lower-case digits are forgotten to start at ten.
Nibble_Lower(c) ==
  CASE c \in 48 .. 57  -> c - 48
    [] c \in 97 .. 102 -> c - 97
    [] c \in 65 .. 70  -> c - 65 + 10
    [] OTHER           -> -1

Nibble(c) ==
  CASE c \in 48 .. 57  -> c - 48
    [] c \in 97 .. 102 -> c - 97 + 10
    [] c \in 65 .. 70  -> c - 65 + 10
    [] OTHER           -> -1

Parses(hex) == Len(hex) = 2 * KeyBytes /\ \A i \in 1 .. Len(hex) : Nibble(hex[i]) >= 0

\* parse_pubkey_hex's out, when it returns true.
Key(hex) == [i \in 1 .. KeyBytes |-> 16 * Nibble(hex[2 * i - 1]) + Nibble(hex[2 * i])]

\* What ota_sign.py prints for a key: upper-case digits.
Digit(n) == IF n < 10 THEN 48 + n ELSE 55 + n

Hex(key) == [j \in 1 .. 2 * KeyBytes |->
               IF j % 2 = 1 THEN Digit(key[(j + 1) \div 2] \div 16)
                            ELSE Digit(key[j \div 2] % 16)]

Upper(hex) == [i \in 1 .. Len(hex) |-> IF hex[i] \in 97 .. 122 THEN hex[i] - 32 ELSE hex[i]]
-----------------------------------------------------------------------------
\* Every pair in force against every pair typed (or no header), and every key string.
Init ==
  \/ \E u, p, tu, tp \in Logins :
       input \in [kind : {"login"}, user : {u}, pass : {p}, tuser : {tu}, tpass : {tp},
                  header : {NoHeader, [basic |-> TRUE, text |-> Typed(tu, tp)]}]
  \/ \E hex \in Digits : input = [kind |-> "key", hex |-> hex]

Next == UNCHANGED input

Spec == Init /\ [][Next]_input
-----------------------------------------------------------------------------
(* Properties.                                                             *)

\* check_basic accepts what was typed exactly when it encodes the pair in force and
\* that pair can be typed at all: with a colon in the user, or more than the buffer
\* holds, set_active_credentials locks everybody out, the right pair included.
LoginExact ==
  input.kind = "login" =>
    LET u == input.user  p == input.pass  h == input.header IN
    Accepts(h, u, p) <=>
      \/ Open(u, p)
      \/ h.basic /\ h.text = Typed(u, p) /\ Usable(u, p)

\* parse_pubkey_hex accepts a string exactly when it prints some key, in either case,
\* and yields that key ("paste into secrets.h", ota_sign.py).
KeyExact ==
  input.kind = "key" =>
    IF Parses(input.hex)
      THEN Hex(Key(input.hex)) = Upper(input.hex)
      ELSE \A key \in [1 .. KeyBytes -> 0 .. 255] : Hex(key) # Upper(input.hex)
===============================================================================
