------------------------------- MODULE MCPDU -------------------------------
(* Texts around every limit of the codec: septets that end on and off the  *)
(* border of an octet, one and several parts, and at one place a character *)
(* of the extension table, a Cyrillic letter, a surrogate pair or a        *)
(* control character; numbers of every length.                             *)
EXTENDS PDU

Letter(i) == IF (37 * i) % 128 = ESC THEN 64 ELSE (37 * i) % 128
TextOf(n, at, r) == [i \in 1..n |-> IF i = at THEN r ELSE Letter(i)]
Digits(n, first) == [i \in 1..n |-> IF i = 1 THEN first ELSE (3 * i) % 10]

Lengths == {1, 7, 8, 9, 67, 68, 69, 70, 71, 133, 134, 135, 153, 154, 159, 160, 161}
Specials == {128 + 101, 1097, 128512}
Numbers == {[plus |-> b, digits |-> Digits(n, f)] : b \in BOOLEAN, n \in {1, 2, 6, 7, 10, 11, 15, 16}, f \in {7, 8}}

MCInputs ==
  LET phone == [plus |-> TRUE, digits |-> Digits(11, 7)]
      Input(n, t, b) == [to |-> n, text |-> t, translit |-> b]
  IN  {Input(phone, TextOf(n, at, r), b) : n \in Lengths, at \in {0, 1, 66, 67, 68}, r \in Specials, b \in BOOLEAN}
        \cup {Input(phone, TextOf(n, at, r), FALSE) : n \in {306, 307}, at \in {0, 1, 66, 67, 68}, r \in Specials}
        \cup {Input(n, TextOf(5, 0, 0), FALSE) : n \in Numbers}
        \cup {Input(phone, [TextOf(n, 67, 128 + 101) EXCEPT ![1] = 1097], b) : n \in {70, 134, 135}, b \in BOOLEAN}
        \cup {Input(phone, TextOf(5, 3, 256 + 26), FALSE), Input(phone, <<>>, TRUE)}

MCTranslitMap == (1097 :> <<115, 104, 99, 104>>) @@ (1076 :> <<100>>)
MCPrefix == <<7>>
=============================================================================
