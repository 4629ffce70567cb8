-------------------------------- MODULE PDU --------------------------------
(***************************************************************************)
(* The SMS codec: number normalisation and text checks (validator.go,      *)
(* translit.go), EncodeSMS (encoder.go, gsm7.go, ucs2.go, address.go) and  *)
(* DecodeSMS (decoder.go).  A message goes through them once: it is        *)
(* encoded, its parts cross the network in any order, and are decoded and  *)
(* joined by number.  A foreign sender refers to its messages with 16 bits *)
(* where EncodeSMS has 8.  DecodeSMS gets whole PDUs of the type it reads. *)
(*                                                                         *)
(* A rune is a number: its place in gsm7BasicTable; 128 plus its code in   *)
(* gsm7ExtensionTable; 256 plus its code point for the control characters; *)
(* else its code point (the code points whose numbers these are, such as   *)
(* U+0100 to U+011F, are not in a text).  Or-ing bits that do not meet is  *)
(* their sum.                                                              *)
(***************************************************************************)
EXTENDS Integers, Sequences, FiniteSets, FiniteSetsExt, SequencesExt

CONSTANTS
  Inputs,          \* [to, text, translit]: a number as written, runes, whether to transliterate
  TranslitMap,     \* Cyrillic rune -> Latin runes
  RefCounters,     \* initial values of refCounter
  RacedRefs,       \* what nextRefNumber may return while another modem is in it
  WideRefs,        \* references of 16 bits
  Prefix           \* DefaultPrefix: a sequence of digits, empty if none

(* UTF-16's halves of a pair, and what ranging over a string yields.       *)
IsHigh(u) == 55296 <= u /\ u <= 56319
IsLow(u) == 56320 <= u /\ u <= 57343
IsRune(r) == r \in Nat /\ r <= 1114111 /\ ~IsHigh(r) /\ ~IsLow(r)
IsText(t) == t \in Seq(Nat) /\ \A i \in DOMAIN t : IsRune(t[i])

(* A country code keeps the number within the fifteen digits of E.164.     *)
ASSUME PDUAssumption ==
  /\ \A i \in Inputs : /\ i.to \in [plus : BOOLEAN, digits : Seq(0..9)]
                        /\ IsText(i.text) /\ i.translit \in BOOLEAN
  /\ \A r \in DOMAIN TranslitMap : IsText(TranslitMap[r])
  /\ RefCounters \subseteq 1..255
  /\ Prefix \in Seq(0..9) /\ Len(Prefix) <= 5

(* A byte, and two.                                                        *)
ASSUME ReferenceAssumption == RacedRefs \subseteq 0..255 /\ \A r \in WideRefs : r \in Nat /\ r < 65536

VARIABLES in, wideRef, refCounter, step, number, parts, got

pduVars == <<in, wideRef, refCounter, step, number, parts, got>>

(* byte(x).                                                                *)
Byte(x) == x % 256
-----------------------------------------------------------------------------
(* NormalizePhoneNumber.                                                   *)

RefusedNumber(n) ==
  LET len == Len(n.digits)
  IN  len < 2 \/ (n.plus /\ len \notin 3..15) \/ (~n.plus /\ len > 15)

NormalizePhoneNumber(n) ==
  LET d == n.digits
      len == Len(d)
      Intl(s) == [plus |-> TRUE, digits |-> s]
  IN  CASE n.plus -> n
        [] ~n.plus /\ len = 11 /\ d[1] = 8 -> Intl(<<7>> \o Tail(d))
        [] ~n.plus /\ len <= 6 -> n
        [] ~n.plus /\ len = 10 /\ Prefix # <<>> -> Intl(Prefix \o d)
        [] OTHER -> Intl(d)

(* EncodeAddress: two digits to an octet, an odd one with the filler 15.   *)
EncodeAddress(n) ==
  LET d == IF Len(n.digits) % 2 = 0 THEN n.digits ELSE Append(n.digits, 15)
  IN  [count |-> Byte(Len(n.digits)), toa |-> IF n.plus THEN 145 ELSE 129,
       bcd |-> [i \in 1..(Len(d) \div 2) |-> 16 * d[2 * i] + d[2 * i - 1]]]

DecodeAddress(a) ==
  LET Nibble(i) == IF i % 2 = 1 THEN a.bcd[(i + 1) \div 2] % 16 ELSE a.bcd[i \div 2] \div 16
      digits == FlattenSeq([i \in 1..(2 * Len(a.bcd)) |-> IF Nibble(i) <= 9 THEN <<Nibble(i)>> ELSE <<>>])
  IN  [plus |-> a.toa = 145, digits |-> SubSeq(digits, 1, a.count)]
-----------------------------------------------------------------------------
(* Text.                                                                   *)

(* ValidateMessageText: U+0000 and U+001A.                                 *)
RefusedText(t) == t = <<>> \/ \E i \in DOMAIN t : t[i] \in {256, 256 + 26}

Transliterate(t) ==
  FlattenSeq([i \in DOMAIN t |-> IF t[i] \in DOMAIN TranslitMap THEN TranslitMap[t[i]] ELSE <<t[i]>>])

ESC == 27
Basic == (0..127) \ {ESC}
ExtensionCodes == {10, 20, 40, 41, 47, 60, 61, 62, 64, 101}
Extension == {128 + c : c \in ExtensionCodes}

IsGSM7(t) == \A i \in DOMAIN t : t[i] \in Basic \cup Extension

SeptetsOf(r) ==
  CASE r \in Basic -> <<r>>
    [] r \in Extension -> <<ESC, r - 128>>
    [] OTHER -> <<63>>

EncodeGSM7(t) == FlattenSeq([i \in DOMAIN t |-> SeptetsOf(t[i])])

(* An escape takes the next septet with it, even one the table lacks.      *)
DecodeGSM7(s) ==
  LET taken[i \in DOMAIN s] == i > 1 /\ s[i - 1] = ESC /\ ~taken[i - 1]
      Rune(i) == CASE taken[i] -> <<IF s[i] \in ExtensionCodes THEN 128 + s[i] ELSE ESC>>
                   [] ~taken[i] /\ s[i] = ESC /\ i < Len(s) -> <<>>
                   [] OTHER -> <<s[i]>>
  IN  FlattenSeq([i \in DOMAIN s |-> Rune(i)])

(* The octet a septet begins in, and the next one.                         *)
LowPart(v, off) == Byte(v * 2^off)
HighPart(v, off) == v \div 2^(8 - off)

NumOctets(bits) == (bits + 7) \div 8

(* What septet k leaves in octet j, and what the two septets that reach    *)
(* into the octet leave there together.                                    *)
Share(s, startBit, k, j) ==
  LET pos == startBit + 7 * (k - 1)
  IN  CASE k \in DOMAIN s /\ pos \div 8 = j -> LowPart(s[k], pos % 8)
        [] k \in DOMAIN s /\ pos \div 8 = j - 1 -> HighPart(s[k], pos % 8)
        [] OTHER -> 0

Octet(s, startBit, j) ==
  LET k == ((8 * j - startBit) \div 7) + 1
  IN  Share(s, startBit, k, j) + Share(s, startBit, k + 1, j)

PackSeptets(s, startBit) ==
  IF s = <<>> THEN <<>> ELSE [j \in 1..NumOctets(startBit + 7 * Len(s)) |-> Octet(s, startBit, j - 1)]

UnpackSeptets(o, n, startBit) ==
  [i \in 1..n |->
     LET pos == startBit + 7 * (i - 1)
         j == pos \div 8
         off == pos % 8
         low == IF j < Len(o) THEN o[j + 1] \div 2^off ELSE 0
         high == IF off > 1 /\ j + 1 < Len(o) THEN Byte(o[j + 2] * 2^(8 - off)) ELSE 0
     IN  (low + high) % 128]

(* UTF-16 code units of a text: a surrogate pair for a rune above 0xFFFF.  *)
Units(t) == Len(t) + Cardinality({i \in DOMAIN t : t[i] > 65535})

(* utf16.Encode and utf16.Decode: a half of a pair alone is U+FFFD.        *)
UTF16(r) ==
  IF r > 65535 THEN <<55296 + ((r - 65536) \div 1024), 56320 + ((r - 65536) % 1024)>> ELSE <<r>>

FromPair(high, low) == 65536 + 1024 * (high - 55296) + (low - 56320)

Alone(w) == IF IsHigh(w) \/ IsLow(w) THEN 65533 ELSE w

FromUTF16(u) ==
  LET Pair(i) == i \in DOMAIN u /\ i + 1 \in DOMAIN u /\ IsHigh(u[i]) /\ IsLow(u[i + 1])
      Rune(i) == CASE Pair(i) -> <<FromPair(u[i], u[i + 1])>>
                   [] Pair(i - 1) -> <<>>
                   [] OTHER -> <<Alone(u[i])>>
  IN  FlattenSeq([i \in DOMAIN u |-> Rune(i)])

EncodeUCS2(t) ==
  LET u == FlattenSeq([i \in DOMAIN t |-> UTF16(t[i])])
  IN  FlattenSeq([i \in DOMAIN u |-> <<u[i] \div 256, u[i] % 256>>])

DecodeUCS2(b) == FromUTF16([i \in 1..(Len(b) \div 2) |-> 256 * b[2 * i - 1] + b[2 * i]])
-----------------------------------------------------------------------------
(* EncodeSMS, with EncodingAuto.                                           *)

(* Mutant: a surrogate pair counts as one.                                 *)
ChunkEnd_ByRune(t, start, gsm7, max) == IF start + max - 1 < Len(t) THEN start + max - 1 ELSE Len(t)

(* The last rune of the chunk: septets are counted by runes.               *)
ChunkEnd(t, start, gsm7, max) ==
  Max({e \in start..Len(t) : e < start + max /\ (gsm7 \/ Units(SubSeq(t, start, e)) <= max)})

SplitChunks(t, gsm7, max) ==
  LET from[i \in 1..(Len(t) + 1)] ==
        IF i > Len(t) THEN <<>>
        ELSE LET e == ChunkEnd(t, i, gsm7, max) IN <<SubSeq(t, i, e)>> \o from[e + 1]
  IN  from[1]

(* Mutant: the septets are packed right behind the header's octets.        *)
Pad_None(udh) == 0

(* A header, what pads it to a septet, and the text behind it.             *)
Pad(udh) == (7 - ((8 * Len(udh)) % 7)) % 7

UserData(udh, t, gsm7) ==
  LET s == EncodeGSM7(t)
      u == EncodeUCS2(t)
  IN  IF gsm7 THEN [udl |-> Byte(((8 * Len(udh) + Pad(udh)) \div 7) + Len(s)), ud |-> udh \o PackSeptets(s, Pad(udh))]
      ELSE [udl |-> Byte(Len(udh) + Len(u)), ud |-> udh \o u]

(* Concatenation with a reference of 8 bits, as encodePart does, or of 16, *)
(* as other senders do.                                                    *)
Header(ref, total, num, wide) ==
  IF wide THEN <<6, 8, 4, ref \div 256, Byte(ref), Byte(total), Byte(num)>>
  ELSE <<5, 0, 3, Byte(ref), Byte(total), Byte(num)>>

NextRefNumber(c) == IF Byte(c + 1) = 0 THEN 1 ELSE Byte(c + 1)

(* The package's counter has no lock and every modem's goroutine uses it:  *)
(* a racing call returns whatever the others have made of it, even the 0   *)
(* between the increment and its correction.                               *)
References(c, wide) == IF wide THEN WideRefs ELSE {NextRefNumber(c)} \cup RacedRefs

(* Runes are counted as septets, which is too few for the extension table. *)
IsSingle(t) == IF IsGSM7(t) THEN Len(t) <= 160 ELSE Units(t) <= 70

(* What a part holds behind a header.                                      *)
MaxUnits(gsm7, wide) == (IF gsm7 THEN 153 ELSE 67) - (IF wide THEN 1 ELSE 0)

EncodeSMS(t, addr, ref, wide) ==
  LET gsm7 == IsGSM7(t)
      chunks == SplitChunks(t, gsm7, MaxUnits(gsm7, wide))
      PDU(udh, chunk) == LET d == UserData(udh, chunk, gsm7)
                         IN  [address |-> addr, udhi |-> udh # <<>>, dcs |-> IF gsm7 THEN 0 ELSE 8, udl |-> d.udl, ud |-> d.ud]
  IN  IF IsSingle(t) THEN <<PDU(<<>>, t)>>
      ELSE [i \in DOMAIN chunks |-> PDU(Header(ref, Len(chunks), i, wide), chunks[i])]
-----------------------------------------------------------------------------
(* DecodeSMS, on the fields of a whole SMS-DELIVER.                        *)

(* Mutant: the padding of a header of six octets.                          *)
TextAfter_OneBit(p, udhTotal) ==
  LET rest == SubSeq(p.ud, udhTotal + 1, Len(p.ud))
      septets == p.udl - ((8 * udhTotal + 1) \div 7)
  IN  IF p.dcs = 8 THEN DecodeUCS2(rest)
      ELSE DecodeGSM7(UnpackSeptets(rest, IF septets > 0 THEN septets ELSE 0, IF udhTotal = 0 THEN 0 ELSE 1))

TextAfter(p, udhTotal) ==
  LET rest == SubSeq(p.ud, udhTotal + 1, Len(p.ud))
      pad == (7 - ((8 * udhTotal) % 7)) % 7
      septets == p.udl - ((8 * udhTotal + pad) \div 7)
  IN  IF p.dcs = 8 THEN DecodeUCS2(rest)
      ELSE DecodeGSM7(UnpackSeptets(rest, IF septets > 0 THEN septets ELSE 0, pad))

(* Of a reference of 16 bits the low octet is kept; without a header the   *)
(* three fields are 0.                                                     *)
DecodeSMS(p) ==
  LET h == p.ud
      short == p.udhi /\ h[1] >= 5 /\ h[2] = 0
      long == p.udhi /\ h[1] >= 6 /\ h[2] = 8
  IN  [from |-> DecodeAddress(p.address),
       ref |-> IF short THEN h[4] ELSE IF long THEN h[5] ELSE 0,
       total |-> IF short THEN h[5] ELSE IF long THEN h[6] ELSE 0,
       num |-> IF short THEN h[6] ELSE IF long THEN h[7] ELSE 0,
       text |-> TextAfter(p, IF p.udhi THEN 1 + h[1] ELSE 0)]
-----------------------------------------------------------------------------
PDUInit ==
  /\ in \in Inputs
  /\ wideRef \in BOOLEAN
  /\ refCounter \in RefCounters
  /\ step = "new" /\ number = in.to /\ parts = <<>> /\ got = <<>>

Text == IF in.translit THEN Transliterate(in.text) ELSE in.text

(* SMSService.Send up to the first command.                                *)
Send ==
  /\ step = "new"
  /\ IF RefusedNumber(in.to) \/ RefusedText(in.text)
     THEN step' = "refused" /\ UNCHANGED <<number, parts, got, refCounter>>
     ELSE /\ number' = NormalizePhoneNumber(in.to)
          /\ \E ref \in References(refCounter, wideRef) :
               /\ refCounter' = IF IsSingle(Text) \/ wideRef THEN refCounter ELSE ref
               /\ parts' = EncodeSMS(Text, EncodeAddress(number'), ref, wideRef)
          /\ got' = [i \in DOMAIN parts' |-> <<>>]
          /\ step' = "sent"
  /\ UNCHANGED <<in, wideRef>>

(* Where a decoded part belongs: AddPart takes one that says it is alone   *)
(* at its word.                                                            *)
Slot(d) == IF d.total <= 1 THEN 1 ELSE d.num

(* A part arrives, in any order.                                           *)
Receive(k) ==
  /\ step = "sent"
  /\ LET d == DecodeSMS(parts[k])
         n == Slot(d)
     IN  n \in DOMAIN got /\ got[n] = <<>> /\ got' = [got EXCEPT ![n] = <<d>>]
  /\ UNCHANGED <<in, wideRef, refCounter, step, number, parts>>

PDUNext == Send \/ \E k \in DOMAIN parts : Receive(k)

PDUSpec == PDUInit /\ [][PDUNext]_pduVars
-----------------------------------------------------------------------------
Octets == 0..255

(* What goes to the modem is made of octets, and of as many parts as each  *)
(* of them says in its byte.                                               *)
PDUTypeOK ==
  /\ step \in {"new", "sent", "refused"} /\ refCounter \in Octets
  /\ number.digits \in Seq(0..9)
  /\ \A k \in DOMAIN parts : Range(parts[k].ud) \subseteq Octets /\ parts[k].udl \in Octets
  /\ \A k \in DOMAIN got :
       got[k] = <<>> \/ (Len(got[k]) = 1 /\ got[k][1].total = IF IsSingle(Text) THEN 0 ELSE Byte(Len(parts)))

Fits(k) == Len(parts[k].ud) <= 140

(* A text is split so that no user data is longer than 140 octets, the     *)
(* header and surrogate pairs included, and every part but the last has no *)
(* room for one more pair; texts of septets with characters of the         *)
(* extension table, which take two, are excepted.                          *)
PartsFit ==
  (IsGSM7(Text) => Range(Text) \cap Extension = {}) =>
    \A k \in DOMAIN parts : Fits(k) /\ (k < Len(parts) => Len(parts[k].ud) >= 137)

(* A text whose parts fit is received as it was sent once every part has   *)
(* its place filled (of 256 parts or more, whose numbers wrap, some never  *)
(* is): no character is lost or changed where parts, octets or surrogates  *)
(* end, whatever header is used, all parts come under one reference, and   *)
(* the number decoded is the one that was asked for, national forms        *)
(* written as international ones.                                          *)
RoundTrip ==
  step = "sent" /\ (\A k \in DOMAIN parts : Fits(k) /\ got[k] # <<>>) =>
    /\ FlattenSeq([k \in DOMAIN got |-> got[k][1].text]) = Text
    /\ \A k \in DOMAIN got : got[k][1].from = number
    /\ \A j, k \in DOMAIN got : got[j][1].ref = got[k][1].ref

BitAt(n, i) == (n \div 2^i) % 2
Bit(o, b) == BitAt(o[(b \div 8) + 1], b % 8)
SeptetBit(s, b) == BitAt(s[(b \div 7) + 1], b % 7)

(* Where TS 23.040 has the text begin: on the next septet behind a header. *)
FirstBit(octets) == 7 * ((8 * octets + 6) \div 7)

HeaderOctets(p) == IF p.udhi THEN 1 + p.ud[1] ELSE 0

Chunks(gsm7) == IF IsSingle(Text) THEN <<Text>> ELSE SplitChunks(Text, gsm7, MaxUnits(gsm7, wideRef))

(* In every part, the octets hold the bits of the septets of its piece of  *)
(* the text one after the other, low bits first, from the first bit of a   *)
(* septet behind the header on, as TS 23.038 and 23.040 have it.           *)
PackedAsStandard ==
  IsGSM7(Text) =>
    \A k \in DOMAIN parts :
      LET s == EncodeGSM7(Chunks(TRUE)[k])
          first == FirstBit(HeaderOctets(parts[k]))
      IN  \A b \in 0..(7 * Len(s) - 1) :
            (first + b) \div 8 < Len(parts[k].ud) /\ Bit(parts[k].ud, first + b) = SeptetBit(s, b)
=============================================================================
