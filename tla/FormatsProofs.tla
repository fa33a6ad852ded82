------------------------------ MODULE FormatsProofs ------------------------------
(* Both parsers are exact, for all strings and for the sizes in the code. *)
EXTENDS Formats, SequenceTheorems, TLAPS

Text == Seq(1 .. 127)

LEMMA TextIsSeq ==
  ASSUME NEW u \in Text
  PROVE  u \in Seq(Nat) /\ Len(u) \in Nat
<1>1. 1 .. 127 \subseteq Nat
  OBVIOUS
<1>2. u \in Seq(1 .. 127)
  BY DEF Text
<1>3. u \in Seq(Nat)
  BY <1>1, <1>2, SeqMonotonic
<1> QED BY <1>3, LenProperties

\* What a browser encodes: the user, a colon, the password.
LEMMA TypedText ==
  ASSUME NEW u \in Text, NEW p \in Text
  PROVE  /\ Typed(u, p) \in Seq(Nat)
         /\ Len(Typed(u, p)) = Len(u) + 1 + Len(p)
         /\ \A i \in 1 .. Len(u) : Typed(u, p)[i] = u[i]
         /\ Typed(u, p)[Len(u) + 1] = Colon
         /\ \A i \in 1 .. Len(p) : Typed(u, p)[Len(u) + 1 + i] = p[i]
<1>1. u \in Seq(Nat) /\ p \in Seq(Nat)
  BY TextIsSeq
<1>2. <<Colon>> \in Seq(Nat) /\ Len(<<Colon>>) = 1 /\ <<Colon>>[1] = Colon
  BY DEF Colon
<1> DEFINE head == u \o <<Colon>>
<1>3. /\ head \in Seq(Nat) /\ Len(head) = Len(u) + 1
      /\ \A i \in 1 .. Len(u) + 1 :
           head[i] = IF i <= Len(u) THEN u[i] ELSE <<Colon>>[i - Len(u)]
  BY <1>1, <1>2, ConcatProperties
<1>4. Len(u) \in Nat /\ Len(p) \in Nat
  BY <1>1, LenProperties
<1>5. (\A i \in 1 .. Len(u) : head[i] = u[i]) /\ head[Len(u) + 1] = Colon
  BY <1>2, <1>3, <1>4
<1> HIDE DEF head
<1>6. /\ head \o p \in Seq(Nat) /\ Len(head \o p) = Len(head) + Len(p)
      /\ \A i \in 1 .. Len(head) + Len(p) :
           (head \o p)[i] = IF i <= Len(head) THEN head[i] ELSE p[i - Len(head)]
  BY <1>1, <1>3, ConcatProperties, ZenonT(60)
<1>7. Typed(u, p) = head \o p
  BY DEF head, Typed
<1> QED BY <1>3, <1>4, <1>5, <1>6, <1>7, SMTT(30)

\* A text that splits into a pair is what a browser encodes for that pair.
LEMMA SplitsAsTyped ==
  ASSUME NEW text \in Seq(Nat), NEW u \in Text, NEW p \in Text,
         NEW c \in 1 .. Len(text), Splits(text, c),
         SubSeq(text, 1, c - 1) = u, SubSeq(text, c + 1, Len(text)) = p
  PROVE  text = Typed(u, p) /\ \A i \in 1 .. Len(u) : u[i] # Colon
<1>0. Len(text) \in Nat /\ \A i \in 1 .. Len(text) : text[i] \in Nat
  BY LenProperties, ElementOfSeq
<1>1. Len(u) = c - 1 /\ \A i \in 1 .. c - 1 : u[i] = text[i]
  <2>1. \A i \in 1 .. c - 1 : text[i] \in Nat
    BY <1>0
  <2>2. /\ Len(u) = IF 1 <= c - 1 THEN c - 1 - 1 + 1 ELSE 0
        /\ \A i \in 1 .. c - 1 - 1 + 1 : u[i] = text[1 + i - 1]
    BY <1>0, <2>1, SubSeqProperties
  <2>3. c \in Nat \ {0}
    OBVIOUS
  <2> QED BY <2>2, <2>3
<1>2. Len(p) = Len(text) - c /\ \A i \in 1 .. Len(p) : p[i] = text[c + i]
  <2>1. \A i \in c + 1 .. Len(text) : text[i] \in Nat
    BY <1>0
  <2>2. /\ Len(p) = IF c + 1 <= Len(text) THEN Len(text) - (c + 1) + 1 ELSE 0
        /\ \A i \in 1 .. Len(text) - (c + 1) + 1 : p[i] = text[c + 1 + i - 1]
    BY <1>0, <2>1, SubSeqProperties
  <2> QED BY <1>0, <2>2
<1>3. Len(text) = Len(Typed(u, p))
  <2>1. Len(Typed(u, p)) = Len(u) + 1 + Len(p)
    BY TypedText
  <2> QED BY <1>0, <1>1, <1>2, <2>1
<1>4. ASSUME NEW i \in 1 .. Len(text) PROVE text[i] = Typed(u, p)[i]
  <2>1. CASE i < c
    <3>1. i \in 1 .. Len(u) /\ i \in 1 .. c - 1
      BY <2>1, <1>1
    <3> QED BY <3>1, <1>1, TypedText
  <2>2. CASE i = c
    <3>1. i = Len(u) + 1
      BY <2>2, <1>1
    <3>2. Typed(u, p)[Len(u) + 1] = Colon
      BY TypedText
    <3>3. text[c] = Colon
      BY DEF Splits
    <3> QED BY <2>2, <3>1, <3>2, <3>3
  <2>3. CASE i > c
    <3>1. i - c \in 1 .. Len(p)
      BY <2>3, <1>2
    <3>2. Typed(u, p)[Len(u) + 1 + (i - c)] = p[i - c]
      BY <3>1, TypedText
    <3>3. p[i - c] = text[c + (i - c)]
      BY <3>1, <1>2
    <3> QED BY <3>2, <3>3, <1>1
  <2> QED BY <1>0, <2>1, <2>2, <2>3
<1>5. text = Typed(u, p)
  BY <1>3, <1>4, TypedText, SeqEqual
<1> QED BY <1>1, <1>5 DEF Splits

\* What a browser encodes for a pair whose user has no colon splits into that pair.
LEMMA TypedSplits ==
  ASSUME NEW u \in Text, NEW p \in Text, \A i \in 1 .. Len(u) : u[i] # Colon
  PROVE  LET text == Typed(u, p)
             c    == Len(u) + 1
         IN  /\ c \in 1 .. Len(text) /\ Splits(text, c)
             /\ SubSeq(text, 1, c - 1) = u
             /\ SubSeq(text, c + 1, Len(text)) = p
<1> DEFINE text == Typed(u, p)  c == Len(u) + 1
<1>0. /\ u \in Seq(Nat) /\ p \in Seq(Nat) /\ Len(u) \in Nat /\ Len(p) \in Nat
      /\ text \in Seq(Nat) /\ Len(text) = c + Len(p)
      /\ \A i \in 1 .. Len(text) : text[i] \in Nat
  <2>1. u \in Seq(Nat) /\ p \in Seq(Nat)
    BY TextIsSeq
  <2> QED BY <2>1, TypedText, LenProperties, ElementOfSeq
<1>1. \A i \in 1 .. Len(u) : text[i] = u[i]
  BY TypedText
<1>2. text[c] = Colon /\ \A i \in 1 .. Len(p) : text[c + i] = p[i]
  BY TypedText
<1> HIDE DEF text
<1>3. c \in 1 .. Len(text) /\ Splits(text, c)
  <2>1. c \in 1 .. Len(text)
    BY <1>0
  <2>2. ASSUME NEW i \in 1 .. c - 1 PROVE text[i] # Colon
    <3>1. i \in 1 .. Len(u)
      BY <1>0
    <3> QED BY <3>1, <1>1
  <2> QED BY <1>2, <2>1, <2>2 DEF Splits
<1>4. SubSeq(text, 1, c - 1) = u
  <2>1. /\ SubSeq(text, 1, c - 1) \in Seq(Nat)
        /\ Len(SubSeq(text, 1, c - 1)) = Len(u)
        /\ \A i \in 1 .. Len(u) : SubSeq(text, 1, c - 1)[i] = text[i]
    <3>1. \A i \in 1 .. c - 1 : text[i] \in Nat
      BY <1>0
    <3>2. /\ SubSeq(text, 1, c - 1) \in Seq(Nat)
          /\ Len(SubSeq(text, 1, c - 1)) = IF 1 <= c - 1 THEN c - 1 - 1 + 1 ELSE 0
          /\ \A i \in 1 .. c - 1 - 1 + 1 : SubSeq(text, 1, c - 1)[i] = text[1 + i - 1]
      BY <1>0, <3>1, SubSeqProperties
    <3> QED BY <1>0, <3>2
  <2> QED BY <1>0, <1>1, <2>1, SeqEqual
<1>5. SubSeq(text, c + 1, Len(text)) = p
  <2> DEFINE rest == SubSeq(text, c + 1, Len(text))
  <2>1. rest \in Seq(Nat) /\ Len(rest) = Len(p) /\ \A i \in 1 .. Len(p) : rest[i] = text[c + i]
    <3>1. \A i \in c + 1 .. Len(text) : text[i] \in Nat
      BY <1>0
    <3>2. /\ rest \in Seq(Nat)
          /\ Len(rest) = IF c + 1 <= Len(text) THEN Len(text) - (c + 1) + 1 ELSE 0
          /\ \A i \in 1 .. Len(text) - (c + 1) + 1 : rest[i] = text[c + 1 + i - 1]
      BY <1>0, <3>1, SubSeqProperties
    <3> QED BY <1>0, <3>2
  <2> HIDE DEF rest
  <2>2. rest = p
    BY <1>0, <1>2, <2>1, SeqEqual, SMTT(30)
  <2> QED BY <2>2 DEF rest
<1> QED BY <1>3, <1>4, <1>5 DEF text

LEMMA AcceptsExactly ==
  ASSUME NEW u \in Text, NEW p \in Text, NEW tu \in Text, NEW tp \in Text, ~Open(u, p),
         NEW h, h = [basic |-> TRUE, text |-> Typed(tu, tp)]
  PROVE  Accepts(h, u, p) <=> h.text = Typed(u, p) /\ Usable(u, p)
<1>1. h.text \in Seq(Nat)
  BY TypedText
<1>2. ASSUME Accepts(h, u, p) PROVE h.text = Typed(u, p) /\ Usable(u, p)
  <2>1. Len(h.text) <= BufMax
    BY <1>2 DEF Accepts, Decodes
  <2>2. h.text = Typed(u, p) /\ \A i \in 1 .. Len(u) : u[i] # Colon
    BY <1>1, <1>2, SplitsAsTyped, SMTT(30) DEF Accepts
  <2>3. Len(h.text) = Len(u) + 1 + Len(p)
    BY <2>2, TypedText
  <2>4. Len(u) + 1 + Len(p) <= BufMax
    BY <2>1, <2>3
  <2> QED BY <2>2, <2>4 DEF Usable
<1>3. ASSUME h.text = Typed(u, p), Usable(u, p) PROVE Accepts(h, u, p)
  <2>1. Len(h.text) \in 0 .. BufMax
    <3>1. Len(h.text) = Len(u) + 1 + Len(p)
      BY <1>3, TypedText
    <3>2. Len(u) + 1 + Len(p) <= BufMax
      BY <1>3 DEF Usable
    <3> QED BY <3>1, <3>2, TextIsSeq, FormatsOK
  <2>2. Decodes(h)
    BY <2>1, FormatsOK DEF Decodes
  <2>3. \A i \in 1 .. Len(u) : u[i] # Colon
    BY <1>3 DEF Usable
  <2> DEFINE c == Len(u) + 1
  <2>4. /\ c \in 1 .. Len(h.text) /\ Splits(h.text, c)
        /\ SubSeq(h.text, 1, c - 1) = u
        /\ SubSeq(h.text, c + 1, Len(h.text)) = p
    <3> DEFINE text == Typed(u, p)
    <3>1. /\ c \in 1 .. Len(text) /\ Splits(text, c)
          /\ SubSeq(text, 1, c - 1) = u
          /\ SubSeq(text, c + 1, Len(text)) = p
      BY <2>3, TypedSplits
    <3> HIDE DEF c, text
    <3>2. h.text = text
      BY <1>3 DEF text
    <3> QED BY <3>1, <3>2
  <2> HIDE DEF c
  <2> QED BY <2>2, <2>4 DEF Accepts
<1> QED BY <1>2, <1>3

\* check_basic accepts exactly the pair in force, if it can be typed (LoginExact), for
\* every user, password and buffer size.
THEOREM LoginIsExact == Spec => []LoginExact
<1>1. Init => LoginExact
  <2> SUFFICES ASSUME Init, input.kind = "login"
               PROVE  LET u == input.user  p == input.pass  h == input.header IN
                      Accepts(h, u, p) <=>
                        Open(u, p) \/ (h.basic /\ h.text = Typed(u, p) /\ Usable(u, p))
    BY DEF LoginExact
  <2>1. PICK u \in Logins, p \in Logins, tu \in Logins, tp \in Logins :
          /\ input.user = u /\ input.pass = p
          /\ input.header \in {NoHeader, [basic |-> TRUE, text |-> Typed(tu, tp)]}
    BY DEF Init
  <2>2. u \in Text /\ p \in Text /\ tu \in Text /\ tp \in Text
    BY FormatsOK DEF Text
  <2>3. CASE Open(u, p)
    BY <2>1, <2>3 DEF Accepts
  <2>4. CASE ~Open(u, p) /\ input.header = NoHeader
    BY <2>1, <2>4 DEF Accepts, Decodes, NoHeader
  <2>5. CASE ~Open(u, p) /\ input.header = [basic |-> TRUE, text |-> Typed(tu, tp)]
    BY <2>1, <2>2, <2>5, AcceptsExactly
  <2> QED BY <2>1, <2>3, <2>4, <2>5
<1>2. LoginExact /\ [Next]_input => LoginExact'
  BY DEF LoginExact, Next
<1> QED BY <1>1, <1>2, PTL DEF Spec

\* A character that is a digit, and the upper-case digit of its value.
LEMMA DigitOfNibble ==
  ASSUME NEW c \in 1 .. 127, Nibble(c) >= 0
  PROVE  /\ Nibble(c) \in 0 .. 15
         /\ Digit(Nibble(c)) = IF c \in 97 .. 122 THEN c - 32 ELSE c
BY DEF Nibble, Digit

LEMMA NibbleOfDigit ==
  ASSUME NEW c \in 1 .. 127, NEW n \in 0 .. 15,
         (IF c \in 97 .. 122 THEN c - 32 ELSE c) = Digit(n)
  PROVE  Nibble(c) >= 0
BY DEF Nibble, Digit

\* A byte, and the two halves it is put together from.
LEMMA Halves ==
  /\ \A a, b \in 0 .. 15 : (16 * a + b) \div 16 = a /\ (16 * a + b) % 16 = b
  /\ \A k \in 0 .. 255 : k \div 16 \in 0 .. 15 /\ k % 16 \in 0 .. 15
OBVIOUS

\* The place of a digit is one of the two of its byte.
LEMMA Places ==
  ASSUME NEW j \in 1 .. 2 * KeyBytes
  PROVE  \/ j % 2 = 1 /\ (j + 1) \div 2 \in 1 .. KeyBytes /\ 2 * ((j + 1) \div 2) - 1 = j
         \/ j % 2 # 1 /\ j \div 2 \in 1 .. KeyBytes /\ 2 * (j \div 2) = j
BY FormatsOK

LEMMA ParsedPrintsAsRead ==
  ASSUME NEW hex \in Text, Parses(hex)
  PROVE  Hex(Key(hex)) = Upper(hex)
<1>1. Len(hex) = 2 * KeyBytes /\ \A j \in 1 .. 2 * KeyBytes : hex[j] \in 1 .. 127 /\ Nibble(hex[j]) >= 0
  <2>1. \A j \in 1 .. Len(hex) : hex[j] \in 1 .. 127
    BY ElementOfSeq DEF Text
  <2> QED BY <2>1 DEF Parses
<1>2. \A j \in 1 .. 2 * KeyBytes :
        /\ Nibble(hex[j]) \in 0 .. 15
        /\ Digit(Nibble(hex[j])) = IF hex[j] \in 97 .. 122 THEN hex[j] - 32 ELSE hex[j]
  BY <1>1, DigitOfNibble
<1>3. ASSUME NEW i \in 1 .. KeyBytes
      PROVE  /\ Key(hex)[i] \div 16 = Nibble(hex[2 * i - 1])
             /\ Key(hex)[i] % 16 = Nibble(hex[2 * i])
  <2>1. 2 * i - 1 \in 1 .. 2 * KeyBytes /\ 2 * i \in 1 .. 2 * KeyBytes
    BY FormatsOK
  <2>2. Nibble(hex[2 * i - 1]) \in 0 .. 15 /\ Nibble(hex[2 * i]) \in 0 .. 15
    BY <1>2, <2>1
  <2>3. Key(hex)[i] = 16 * Nibble(hex[2 * i - 1]) + Nibble(hex[2 * i])
    BY DEF Key
  <2> QED BY <2>2, <2>3, Halves
<1>4. ASSUME NEW j \in 1 .. 2 * KeyBytes PROVE Hex(Key(hex))[j] = Upper(hex)[j]
  <2>1. Upper(hex)[j] = Digit(Nibble(hex[j]))
    BY <1>1, <1>2 DEF Upper
  <2>2. CASE j % 2 = 1
    <3>1. (j + 1) \div 2 \in 1 .. KeyBytes /\ 2 * ((j + 1) \div 2) - 1 = j
      BY <2>2, Places
    <3>2. Key(hex)[(j + 1) \div 2] \div 16 = Nibble(hex[j])
      BY <3>1, <1>3
    <3>3. Hex(Key(hex))[j] = Digit(Key(hex)[(j + 1) \div 2] \div 16)
      BY <2>2 DEF Hex
    <3> QED BY <2>1, <3>2, <3>3
  <2>3. CASE j % 2 # 1
    <3>1. j \div 2 \in 1 .. KeyBytes /\ 2 * (j \div 2) = j
      BY <2>3, Places
    <3>2. Key(hex)[j \div 2] % 16 = Nibble(hex[j])
      BY <3>1, <1>3
    <3>3. Hex(Key(hex))[j] = Digit(Key(hex)[j \div 2] % 16)
      BY <2>3 DEF Hex
    <3> QED BY <2>1, <3>2, <3>3
  <2> QED BY <2>2, <2>3
<1>5. DOMAIN Hex(Key(hex)) = 1 .. 2 * KeyBytes /\ DOMAIN Upper(hex) = 1 .. 2 * KeyBytes
  BY <1>1 DEF Hex, Upper
<1>6. /\ Hex(Key(hex)) = [j \in DOMAIN Hex(Key(hex)) |-> Hex(Key(hex))[j]]
      /\ Upper(hex) = [j \in DOMAIN Upper(hex) |-> Upper(hex)[j]]
  BY DEF Hex, Upper
<1> QED BY <1>4, <1>5, <1>6

LEMMA PrintedParses ==
  ASSUME NEW hex \in Text, NEW key \in [1 .. KeyBytes -> 0 .. 255], Hex(key) = Upper(hex)
  PROVE  Parses(hex)
<1>1. Len(hex) \in Nat /\ \A j \in 1 .. Len(hex) : hex[j] \in 1 .. 127
  BY TextIsSeq, ElementOfSeq DEF Text
<1>2. 1 .. 2 * KeyBytes = 1 .. Len(hex)
  BY DEF Hex, Upper
<1>3. Len(hex) = 2 * KeyBytes
  BY <1>1, <1>2, FormatsOK
<1>4. ASSUME NEW j \in 1 .. Len(hex) PROVE Nibble(hex[j]) >= 0
  <2>1. \E n \in 0 .. 15 : Hex(key)[j] = Digit(n)
    <3>1. j \in 1 .. 2 * KeyBytes
      BY <1>3
    <3>2. CASE j % 2 = 1
      <4>1. (j + 1) \div 2 \in 1 .. KeyBytes
        BY <3>1, <3>2, Places
      <4>2. Hex(key)[j] = Digit(key[(j + 1) \div 2] \div 16)
        BY <3>1, <3>2 DEF Hex
      <4> QED BY <4>1, <4>2, Halves
    <3>3. CASE j % 2 # 1
      <4>1. j \div 2 \in 1 .. KeyBytes
        BY <3>1, <3>3, Places
      <4>2. Hex(key)[j] = Digit(key[j \div 2] % 16)
        BY <3>1, <3>3 DEF Hex
      <4> QED BY <4>1, <4>2, Halves
    <3> QED BY <3>2, <3>3
  <2>2. Upper(hex)[j] = IF hex[j] \in 97 .. 122 THEN hex[j] - 32 ELSE hex[j]
    BY DEF Upper
  <2>3. PICK n \in 0 .. 15 : Hex(key)[j] = Digit(n)
    BY <2>1
  <2>4. (IF hex[j] \in 97 .. 122 THEN hex[j] - 32 ELSE hex[j]) = Digit(n)
    BY <2>2, <2>3
  <2>5. hex[j] \in 1 .. 127
    BY <1>1
  <2> QED BY <2>4, <2>5, NibbleOfDigit
<1> QED BY <1>3, <1>4 DEF Parses

\* parse_pubkey_hex accepts exactly what prints a key, in either case, and yields that
\* key (KeyExact), for every string and key size.
THEOREM KeyIsExact == Spec => []KeyExact
<1>1. Init => KeyExact
  <2> SUFFICES ASSUME Init, input.kind = "key" PROVE KeyExact
    BY DEF KeyExact
  <2>1. input.hex \in Text
    BY FormatsOK DEF Init, Text
  <2> QED BY <2>1, ParsedPrintsAsRead, PrintedParses DEF KeyExact
<1>2. KeyExact /\ [Next]_input => KeyExact'
  BY DEF KeyExact, Next
<1> QED BY <1>1, <1>2, PTL DEF Spec
===============================================================================
