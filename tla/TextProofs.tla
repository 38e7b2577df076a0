----------------------------- MODULE TextProofs -----------------------------
(***************************************************************************)
(* Of the parts that keep texts, for every input: ids and the string       *)
(* builder.                                                                *)
(*                                                                         *)
(* Ids are their texts.  The digits of an id are the halves of its bytes   *)
(* (Nibble); what each call on ids or texts does is said of them (Agree,   *)
(* Precedes), and that a text which was accepted is in the id it was read  *)
(* into is kept by every call.                                             *)
(*                                                                         *)
(* A string builder holds its text.  What memcpy and memmove leave is said *)
(* byte by byte (Copied, Moved); a call that puts bytes into the middle,   *)
(* or takes them out, leaves one text spliced into another (SpliceHolds);  *)
(* and a match ends before the NUL that ends the text (StrstrFacts).       *)
(*                                                                         *)
(* Its texts are searched, split and joined.  strstr finds the first match *)
(* in the text (StrstrIsFirst), strrstr the last (FindLastIsLast).  What   *)
(* split and join compute is shown from the end of the text, or of the     *)
(* parts, on (FromTheEnd, FromTheStart): each is a set of places that      *)
(* takes the next one in.  The parts depend on what is behind their offset *)
(* alone (SplitShifts), so a turn of the loop of string_replace_all leaves *)
(* what it should do as it was (WantedStays).                              *)
(***************************************************************************)
EXTENDS OidText, StringBuf, SequenceTheorems, FiniteSetTheorems, WellFoundedInduction,
        TLAPS

----------------------------------------------------------------------------
(* Numbers and sequences *)

(* A set of natural numbers has a least element. *)
LEMMA LeastNat ==
  ASSUME NEW S \in SUBSET Nat, S # {}
  PROVE  \E i \in S : \A j \in S : i <= j
<1>. DEFINE R == {ss \in Nat \X Nat : ss[1] < ss[2]}
<1>1. IsWellFoundedOn(R, Nat)
  BY NatLessThanWellFounded, Zenon DEF OpToRel
<1>2. \A m, n \in Nat : m < n => <<m, n>> \in R
  OBVIOUS
<1>. HIDE DEF R
<1>3. PICK n \in S : \A m \in S : ~(<<m, n>> \in R)
  BY <1>1, WFMin
<1>4. ASSUME NEW m \in S PROVE n <= m
  <2>1. m \in Nat /\ n \in Nat
    OBVIOUS
  <2>2. ~(m < n)
    BY <1>2, <1>3, <2>1
  <2>. QED  BY <2>1, <2>2
<1>. QED  BY <1>4

LEMMA HeldFacts ==
  ASSUME NEW S, NEW buf \in Seq(S), NEW n \in 0..Len(buf), NEW l \in Seq(S)
  PROVE  SubSeq(buf, 1, n) = l <=> Len(l) = n /\ \A i \in 1..n : buf[i] = l[i]
<1>1. PICK h : h = SubSeq(buf, 1, n)
  OBVIOUS
<1>2. h \in Seq(S) /\ Len(h) = n /\ \A i \in 1..n : h[i] = buf[i]
  BY <1>1
<1>3. h = l <=> Len(l) = n /\ \A i \in 1..n : h[i] = l[i]
  BY <1>2
<1>4. QED  BY <1>1, <1>2, <1>3

LEMMA ConcatFacts ==
  ASSUME NEW S, NEW a \in Seq(S), NEW b \in Seq(S), NEW m \in Nat, NEW n \in Nat,
         m = Len(a), n = Len(b)
  PROVE  /\ a \o b \in Seq(S) /\ Len(a \o b) = m + n
         /\ \A j \in 1..(m + n) : (a \o b)[j] = IF j <= m THEN a[j] ELSE b[j - m]
OBVIOUS

LEMMA SnocFacts ==
  ASSUME NEW S, NEW a \in Seq(S), NEW e \in S, NEW m \in Nat, m = Len(a)
  PROVE  /\ a \o <<e>> \in Seq(S) /\ Len(a \o <<e>>) = m + 1 /\ (a \o <<e>>)[m + 1] = e
         /\ \A j \in 1..m : (a \o <<e>>)[j] = a[j]
<1>0. PICK u : u = <<e>>
  OBVIOUS
<1>1. u = <<e>> /\ u \in Seq(S) /\ Len(u) = 1 /\ u[1] = e
  BY <1>0
<1>2. /\ a \o u \in Seq(S) /\ Len(a \o u) = m + 1
      /\ \A j \in 1..(m + 1) : (a \o u)[j] = IF j <= m THEN a[j] ELSE u[j - m]
  BY <1>1, ConcatFacts
<1>3. (a \o u)[m + 1] = u[1] /\ \A j \in 1..m : (a \o u)[j] = a[j]
  BY <1>2
<1>4. QED  BY <1>1, <1>2, <1>3

LEMMA PartFacts ==
  ASSUME NEW S, NEW s \in Seq(S), NEW m \in Nat, NEW n \in Nat, 1 <= m, m <= n + 1, n <= Len(s)
  PROVE  /\ SubSeq(s, m, n) \in Seq(S) /\ Len(SubSeq(s, m, n)) = n - m + 1
         /\ \A j \in 1..(n - m + 1) : SubSeq(s, m, n)[j] = s[j + m - 1]
OBVIOUS

----------------------------------------------------------------------------
(* Ids and texts *)

Bytes == [1..RawSz -> 0..255]
HexDigits == {hexdigits[i] : i \in 1..16}

(* The arithmetic of half bytes. *)
LEMMA ByteHalves ==
  /\ \A x \in 0..255 : x \div 16 \in 0..15 /\ x % 16 \in 0..15 /\ x = 16 * (x \div 16) + (x % 16)
  /\ \A h, l \in 0..15 : /\ 16 * h + l \in 0..255
                         /\ (16 * h + l) \div 16 = h /\ (16 * h + l) % 16 = l
<1>1. ASSUME NEW x \in 0..255
      PROVE  x \div 16 \in 0..15 /\ x % 16 \in 0..15 /\ x = 16 * (x \div 16) + (x % 16)
  OBVIOUS
<1>2. ASSUME NEW h \in 0..15, NEW l \in 0..15
      PROVE  /\ 16 * h + l \in 0..255
             /\ (16 * h + l) \div 16 = h /\ (16 * h + l) % 16 = l
  OBVIOUS
<1>. QED  BY <1>1, <1>2

(* Where the digits of a byte are. *)
LEMMA DigitPlaces ==
  /\ HexSz \in Nat /\ HexSz >= 2
  /\ \A i \in 1..RawSz : /\ 2 * i - 1 \in 1..HexSz /\ 2 * i \in 1..HexSz
                         /\ ((2 * i - 1) + 1) \div 2 = i /\ (2 * i + 1) \div 2 = i
                         /\ (2 * i - 1) % 2 = 1 /\ (2 * i) % 2 = 0
  /\ \A k \in 1..HexSz : /\ (k + 1) \div 2 \in 1..RawSz
                         /\ \/ k % 2 = 1 /\ k = 2 * ((k + 1) \div 2) - 1
                            \/ k % 2 = 0 /\ k = 2 * ((k + 1) \div 2)
<1>1. RawSz \in Nat /\ RawSz >= 1
  BY RawSzIsPositive
<1>2. HexSz = 2 * RawSz
  BY DEF HexSz
<1>3. \A i \in 1..RawSz : /\ 2 * i - 1 \in 1..HexSz /\ 2 * i \in 1..HexSz
                          /\ ((2 * i - 1) + 1) \div 2 = i /\ (2 * i + 1) \div 2 = i
                          /\ (2 * i - 1) % 2 = 1 /\ (2 * i) % 2 = 0
  BY <1>1, <1>2
<1>4. ASSUME NEW k \in 1..HexSz
      PROVE  /\ (k + 1) \div 2 \in 1..RawSz
             /\ \/ k % 2 = 1 /\ k = 2 * ((k + 1) \div 2) - 1
                \/ k % 2 = 0 /\ k = 2 * ((k + 1) \div 2)
  <2>1. PICK m \in Int : m = k /\ 1 <= m /\ m <= 2 * RawSz
    BY <1>1, <1>2
  <2>2. /\ (m + 1) \div 2 \in Int /\ 1 <= (m + 1) \div 2 /\ (m + 1) \div 2 <= RawSz
        /\ \/ m % 2 = 1 /\ m = 2 * ((m + 1) \div 2) - 1
           \/ m % 2 = 0 /\ m = 2 * ((m + 1) \div 2)
    BY <1>1, <2>1
  <2>. QED  BY <1>1, <2>1, <2>2
<1>. QED  BY <1>1, <1>2, <1>3, <1>4

(* A digit is a half of its byte. *)
LEMMA NibbleFacts ==
  ASSUME NEW id \in Bytes
  PROVE  /\ \A k \in 1..HexSz : Nibble(id, k) \in 0..15
         /\ \A i \in 1..RawSz : /\ Nibble(id, 2 * i - 1) = id[i] \div 16
                                /\ Nibble(id, 2 * i) = id[i] % 16
<1>1. \A i \in 1..RawSz : id[i] \in 0..255
  BY DEF Bytes
<1>2. ASSUME NEW k \in 1..HexSz PROVE Nibble(id, k) \in 0..15
  <2>1. (k + 1) \div 2 \in 1..RawSz
    BY DigitPlaces
  <2>2. id[(k + 1) \div 2] \in 0..255
    BY <1>1, <2>1
  <2>. QED  BY <2>2, ByteHalves DEF Nibble
<1>3. ASSUME NEW i \in 1..RawSz
      PROVE  Nibble(id, 2 * i - 1) = id[i] \div 16 /\ Nibble(id, 2 * i) = id[i] % 16
  <2>1. /\ ((2 * i - 1) + 1) \div 2 = i /\ (2 * i + 1) \div 2 = i
        /\ (2 * i - 1) % 2 = 1 /\ (2 * i) % 2 = 0
    BY DigitPlaces
  <2>. QED  BY <2>1 DEF Nibble
<1>. QED  BY <1>2, <1>3

(* A value is that of its digit, and the one of no other. *)
LEMMA HexvalFacts ==
  /\ \A v \in 0..15 : hexval(hexdigits[v + 1]) = v
  /\ \A c : hexval(c) \in -1..15
<1>1. \A v, w \in 0..15 : Stands(hexdigits[v + 1], w) <=> v = w
  <2>1. \A v, w \in 0..15 : hexdigits[v + 1] = hexdigits[w + 1] <=> v = w
    BY DEF hexdigits
  <2>2. \A v \in 0..15 : \A w \in 10..15 : hexdigits[v + 1] # UpperDigits[w - 9]
    BY DEF hexdigits, UpperDigits
  <2>. QED  BY <2>1, <2>2 DEF Stands
<1>2. ASSUME NEW v \in 0..15 PROVE hexval(hexdigits[v + 1]) = v
  <2>1. PICK c : c = hexdigits[v + 1]
    OBVIOUS
  <2>2. \A w \in 0..15 : Stands(c, w) <=> w = v
    BY <1>1, <2>1
  <2>. QED  BY <2>1, <2>2 DEF hexval
<1>3. ASSUME NEW c PROVE hexval(c) \in -1..15
  BY DEF hexval
<1>. QED  BY <1>2, <1>3

(* The text of an id, digit by digit. *)
LEMMA FmtFacts ==
  ASSUME NEW id \in Bytes
  PROVE  /\ qgit_oid_fmt(id) \in Seq(HexDigits) /\ Len(qgit_oid_fmt(id)) = HexSz
         /\ DOMAIN qgit_oid_fmt(id) = 1..HexSz
         /\ \A k \in 1..HexSz : /\ qgit_oid_fmt(id)[k] = hexdigits[Nibble(id, k) + 1]
                                /\ hexval(qgit_oid_fmt(id)[k]) = Nibble(id, k)
<1>1. PICK hex : hex = qgit_oid_fmt(id)
  OBVIOUS
<1>2. hex = [k \in 1..HexSz |-> fmt_one(id[(k + 1) \div 2])[2 - (k % 2)]]
  BY <1>1 DEF qgit_oid_fmt
<1>3. ASSUME NEW k \in 1..HexSz
      PROVE  hex[k] = hexdigits[Nibble(id, k) + 1] /\ hex[k] \in HexDigits
             /\ hexval(hex[k]) = Nibble(id, k)
  <2>1. hex[k] = fmt_one(id[(k + 1) \div 2])[2 - (k % 2)]
    BY <1>2
  <2>2. k % 2 = 1 \/ k % 2 = 0
    BY DigitPlaces
  <2>3. hex[k] = hexdigits[Nibble(id, k) + 1]
    BY <2>1, <2>2 DEF fmt_one, Nibble
  <2>4. Nibble(id, k) \in 0..15
    BY NibbleFacts
  <2>5. Nibble(id, k) + 1 \in 1..16
    BY <2>4
  <2>. QED  BY <2>3, <2>4, <2>5, HexvalFacts DEF HexDigits
<1>4. hex \in Seq(HexDigits) /\ Len(hex) = HexSz /\ DOMAIN hex = 1..HexSz
  <2>1. PICK n \in Nat : n = HexSz
    BY DigitPlaces
  <2>2. DOMAIN hex = 1..n /\ \A k \in 1..n : hex[k] \in HexDigits
    BY <1>2, <1>3, <2>1
  <2>3. hex = [k \in 1..n |-> hex[k]]
    BY <1>2, <2>1
  <2>. QED  BY <2>1, <2>2, <2>3
<1>. QED  BY <1>1, <1>3, <1>4

(* The first digits of the text are the first halves of bytes. *)
LEMMA FirstDigitsFacts ==
  ASSUME NEW id \in Bytes, NEW n \in 0..HexSz
  PROVE  /\ FirstDigits(id, n) \in Seq(HexDigits) /\ Len(FirstDigits(id, n)) = n
         /\ \A k \in 1..n : FirstDigits(id, n)[k] = qgit_oid_fmt(id)[k]
         /\ Digits(FirstDigits(id, n)) = [k \in 1..n |-> Nibble(id, k)]
<1>1. PICK hex : hex = qgit_oid_fmt(id)
  OBVIOUS
<1>2. /\ hex \in Seq(HexDigits) /\ Len(hex) = HexSz
      /\ \A k \in 1..HexSz : hexval(hex[k]) = Nibble(id, k)
  BY <1>1, FmtFacts
<1>3. PICK first : first = SubSeq(hex, 1, n)
  OBVIOUS
<1>4. n \in Nat /\ n <= HexSz /\ HexSz \in Nat
  BY DigitPlaces
<1>5. first \in Seq(HexDigits) /\ Len(first) = n /\ \A k \in 1..n : first[k] = hex[k]
  BY <1>2, <1>3, <1>4
<1>6. Digits(first) = [k \in 1..n |-> Nibble(id, k)]
  <2>1. DOMAIN first = 1..n
    BY <1>4, <1>5
  <2>2. \A k \in 1..n : hexval(first[k]) = Nibble(id, k)
    BY <1>2, <1>4, <1>5
  <2>. QED  BY <2>1, <2>2 DEF Digits
<1>. QED  BY <1>1, <1>3, <1>5, <1>6 DEF FirstDigits

(* Bytes are the same, or one before the other, as their halves are. *)
LEMMA ByteOrder ==
  ASSUME NEW a \in Bytes, NEW b \in Bytes, NEW i \in 1..RawSz
  PROVE  /\ a[i] = b[i] <=> /\ Nibble(a, 2 * i - 1) = Nibble(b, 2 * i - 1)
                            /\ Nibble(a, 2 * i) = Nibble(b, 2 * i)
         /\ a[i] < b[i] <=> \/ Nibble(a, 2 * i - 1) < Nibble(b, 2 * i - 1)
                            \/ /\ Nibble(a, 2 * i - 1) = Nibble(b, 2 * i - 1)
                               /\ Nibble(a, 2 * i) < Nibble(b, 2 * i)
<1>1. PICK x \in 0..255, y \in 0..255 : x = a[i] /\ y = b[i]
  BY DEF Bytes
<1>2. PICK xh \in 0..15, xl \in 0..15, yh \in 0..15, yl \in 0..15 :
        xh = x \div 16 /\ xl = x % 16 /\ yh = y \div 16 /\ yl = y % 16
  BY ByteHalves
<1>3. x = 16 * xh + xl /\ y = 16 * yh + yl
  BY <1>2, ByteHalves
<1>4. /\ x = y <=> xh = yh /\ xl = yl
      /\ x < y <=> xh < yh \/ (xh = yh /\ xl < yl)
  BY <1>3
<1>5. /\ Nibble(a, 2 * i - 1) = xh /\ Nibble(a, 2 * i) = xl
      /\ Nibble(b, 2 * i - 1) = yh /\ Nibble(b, 2 * i) = yl
  BY <1>1, <1>2, NibbleFacts
<1>. QED  BY <1>1, <1>4, <1>5

(* Ids are the same when all their digits are. *)
LEMMA SameNibbles ==
  ASSUME NEW a \in Bytes, NEW b \in Bytes
  PROVE  a = b <=> \A k \in 1..HexSz : Nibble(a, k) = Nibble(b, k)
<1>1. ASSUME \A k \in 1..HexSz : Nibble(a, k) = Nibble(b, k) PROVE a = b
  <2>1. \A i \in 1..RawSz : a[i] = b[i]
    BY <1>1, ByteOrder, DigitPlaces
  <2>2. a = [i \in 1..RawSz |-> a[i]] /\ b = [i \in 1..RawSz |-> b[i]]
    BY DEF Bytes
  <2>. QED  BY <2>1, <2>2
<1>. QED  BY <1>1

(* memcmp finds the first bytes that differ. *)
LEMMA CompareFacts ==
  ASSUME NEW a \in Bytes, NEW b \in Bytes, NEW n \in 0..RawSz
  PROVE  /\ Compare(a, b, n) \in Int
         /\ Compare(a, b, n) = 0 <=> \A i \in 1..n : a[i] = b[i]
         /\ Compare(a, b, n) < 0 <=>
              \E i \in 1..n : a[i] < b[i] /\ \A j \in 1..(i - 1) : a[j] = b[j]
<1>1. PICK differ : differ = {i \in 1..n : a[i] # b[i]}
  OBVIOUS
<1>2. \A i \in 1..n : a[i] \in 0..255 /\ b[i] \in 0..255
  BY RawSzIsPositive, SMTT(20) DEF Bytes
<1>3. Compare(a, b, n) = IF differ = {} THEN 0
                         ELSE LET i == CHOOSE i \in differ : \A j \in differ : i <= j
                              IN a[i] - b[i]
  BY <1>1 DEF Compare
<1>4. CASE differ = {}
  <2>1. Compare(a, b, n) = 0 /\ \A i \in 1..n : a[i] = b[i]
    BY <1>1, <1>3, <1>4
  <2>. QED  BY <1>2, <2>1
<1>5. CASE differ # {}
  <2>1. differ \in SUBSET Nat
    BY <1>1
  <2>2. \E i \in differ : \A j \in differ : i <= j
    BY <1>5, <2>1, LeastNat
  <2>3. PICK c : c = CHOOSE i \in differ : \A j \in differ : i <= j
    OBVIOUS
  <2>4. c \in differ /\ \A j \in differ : c <= j
    BY <2>2, <2>3
  <2>5. Compare(a, b, n) = a[c] - b[c]
    BY <1>3, <1>5, <2>3
  <2>6. c \in 1..n /\ a[c] # b[c] /\ \A j \in 1..(c - 1) : a[j] = b[j]
    BY <1>1, <2>4
  <2>7. \A i \in 1..n : (a[i] # b[i] /\ \A j \in 1..(i - 1) : a[j] = b[j]) => i = c
    BY <1>1, <2>4, <2>6
  <2>8. a[c] \in 0..255 /\ b[c] \in 0..255
    BY <1>2, <2>6
  <2>9. Compare(a, b, n) \in Int /\ Compare(a, b, n) # 0 /\ (Compare(a, b, n) < 0 <=> a[c] < b[c])
    <3>1. PICK x \in 0..255, y \in 0..255 : x = a[c] /\ y = b[c]
      BY <2>8
    <3>2. Compare(a, b, n) = x - y /\ x # y
      BY <2>5, <2>6, <3>1
    <3>. QED  BY <3>1, <3>2
  <2>10. ASSUME NEW i \in 1..n, a[i] < b[i], \A j \in 1..(i - 1) : a[j] = b[j]
         PROVE  i = c
    <3>1. a[i] # b[i]
      BY <1>2, <2>10
    <3>. QED  BY <2>7, <2>10, <3>1
  <2>. QED  BY <2>6, <2>9, <2>10
<1>. QED  BY <1>4, <1>5

(* The first m digits of two ids are the same, or one is before the other.   *)
Agree(a, b, m) == \A k \in 1..m : Nibble(a, k) = Nibble(b, k)
Precedes(a, b, m) ==
  \E i \in 1..m : Nibble(a, i) < Nibble(b, i) /\ \A j \in 1..(i - 1) : Nibble(a, j) = Nibble(b, j)

(* Comparing bytes is comparing twice as many digits. *)
LEMMA WholeBytes ==
  ASSUME NEW a \in Bytes, NEW b \in Bytes, NEW h \in 0..RawSz
  PROVE  /\ Compare(a, b, h) = 0 <=> Agree(a, b, 2 * h)
         /\ Compare(a, b, h) < 0 <=> Precedes(a, b, 2 * h)
<1>1. /\ h \in Nat /\ h <= RawSz /\ RawSz \in Nat /\ HexSz = 2 * RawSz
  BY RawSzIsPositive DEF HexSz
<1>2. \A k \in 1..(2 * h) : /\ (k + 1) \div 2 \in 1..h /\ k \in 1..HexSz
                            /\ \/ k = 2 * ((k + 1) \div 2) - 1
                               \/ k = 2 * ((k + 1) \div 2)
  <2>. SUFFICES ASSUME NEW k \in 1..(2 * h)
                PROVE  /\ (k + 1) \div 2 \in 1..h /\ k \in 1..HexSz
                       /\ \/ k = 2 * ((k + 1) \div 2) - 1
                          \/ k = 2 * ((k + 1) \div 2)
    OBVIOUS
  <2>1. k \in 1..HexSz
    BY <1>1
  <2>2. PICK i \in 1..RawSz : i = (k + 1) \div 2 /\ (k = 2 * i - 1 \/ k = 2 * i)
    BY <2>1, DigitPlaces
  <2>3. i <= h
    BY <1>1, <2>2
  <2>. QED  BY <2>1, <2>2, <2>3
<1>3. ASSUME NEW g \in 0..h
      PROVE  (\A i \in 1..g : a[i] = b[i]) <=> Agree(a, b, 2 * g)
  <2>1. \A i \in 1..g : i \in 1..RawSz /\ 2 * i - 1 \in 1..(2 * g) /\ 2 * i \in 1..(2 * g)
    BY <1>1
  <2>2. ASSUME Agree(a, b, 2 * g), NEW i \in 1..g PROVE a[i] = b[i]
    <3>1. Nibble(a, 2 * i - 1) = Nibble(b, 2 * i - 1) /\ Nibble(a, 2 * i) = Nibble(b, 2 * i)
      BY <2>1, <2>2 DEF Agree
    <3>. QED  BY <2>1, <3>1, ByteOrder
  <2>3. ASSUME \A i \in 1..g : a[i] = b[i], NEW k \in 1..(2 * g)
        PROVE  Nibble(a, k) = Nibble(b, k)
    <3>1. k \in 1..(2 * h)
      BY <1>1
    <3>2. PICK i \in 1..h : i = (k + 1) \div 2 /\ (k = 2 * i - 1 \/ k = 2 * i)
      BY <1>2, <3>1
    <3>3. i \in 1..g /\ i \in 1..RawSz
      BY <1>1, <3>2
    <3>. QED  BY <2>3, <3>2, <3>3, ByteOrder
  <2>. QED  BY <2>2, <2>3 DEF Agree
<1>4. Compare(a, b, h) = 0 <=> Agree(a, b, 2 * h)
  <2>1. h \in 0..h
    BY <1>1
  <2>. QED  BY <1>3, <2>1, CompareFacts
<1>5. ASSUME Compare(a, b, h) < 0 PROVE Precedes(a, b, 2 * h)
  <2>1. PICK i \in 1..h : a[i] < b[i] /\ \A j \in 1..(i - 1) : a[j] = b[j]
    BY <1>5, CompareFacts
  <2>2. i - 1 \in 0..h /\ i \in 1..RawSz /\ 2 * i - 1 \in 1..(2 * h) /\ 2 * i \in 1..(2 * h)
    BY <1>1
  <2>3. Agree(a, b, 2 * (i - 1))
    BY <1>3, <2>1, <2>2
  <2>4. \A j \in 1..((2 * i - 1) - 1) : Nibble(a, j) = Nibble(b, j)
    BY <2>3 DEF Agree
  <2>5. CASE Nibble(a, 2 * i - 1) < Nibble(b, 2 * i - 1)
    BY <2>2, <2>4, <2>5 DEF Precedes
  <2>6. CASE Nibble(a, 2 * i - 1) = Nibble(b, 2 * i - 1) /\ Nibble(a, 2 * i) < Nibble(b, 2 * i)
    <3>1. \A j \in 1..(2 * i - 1) : j = 2 * i - 1 \/ j \in 1..((2 * i - 1) - 1)
      BY <2>2
    <3>2. \A j \in 1..(2 * i - 1) : Nibble(a, j) = Nibble(b, j)
      BY <2>4, <2>6, <3>1
    <3>. QED  BY <2>2, <2>6, <3>2 DEF Precedes
  <2>. QED  BY <2>1, <2>2, <2>5, <2>6, ByteOrder
<1>6. ASSUME Precedes(a, b, 2 * h) PROVE Compare(a, b, h) < 0
  <2>1. PICK k \in 1..(2 * h) : /\ Nibble(a, k) < Nibble(b, k)
                                /\ \A j \in 1..(k - 1) : Nibble(a, j) = Nibble(b, j)
    BY <1>6 DEF Precedes
  <2>2. PICK i \in 1..h : i = (k + 1) \div 2 /\ (k = 2 * i - 1 \/ k = 2 * i)
    BY <1>2
  <2>3. i \in 1..RawSz /\ i - 1 \in 0..h /\ \A j \in 1..(2 * (i - 1)) : j \in 1..(k - 1)
    BY <1>1, <2>2
  <2>4. \A j \in 1..(i - 1) : a[j] = b[j]
    <3>1. Agree(a, b, 2 * (i - 1))
      BY <2>1, <2>3 DEF Agree
    <3>. QED  BY <1>3, <2>3, <3>1
  <2>5. a[i] < b[i]
    <3>1. CASE k = 2 * i - 1
      BY <2>1, <2>3, <3>1, ByteOrder
    <3>2. CASE k = 2 * i
      <4>1. 2 * i - 1 \in 1..(k - 1)
        BY <2>2, <3>2
      <4>. QED  BY <2>1, <2>3, <3>2, <4>1, ByteOrder
    <3>. QED  BY <2>2, <3>1, <3>2
  <2>. QED  BY <2>4, <2>5, CompareFacts
<1>. QED  BY <1>4, <1>5, <1>6

(* The comparison of a number of digits, an odd one included. *)
LEMMA NcmpFacts ==
  ASSUME NEW a \in Bytes, NEW b \in Bytes, NEW n \in 1..(HexSz + 1), NEW m \in 1..HexSz,
         m = IF n > HexSz THEN HexSz ELSE n
  PROVE  /\ qgit_oid_ncmp(a, b, n) = 0 <=> Agree(a, b, m)
         /\ qgit_oid_ncmp(a, b, n) < 0 <=> Precedes(a, b, m)
<1>1. RawSz \in Nat /\ HexSz = 2 * RawSz
  BY RawSzIsPositive DEF HexSz
<1>2. PICK h \in 0..RawSz : h = m \div 2 /\ ((m % 2 = 0 /\ m = 2 * h) \/ (m % 2 = 1 /\ m = 2 * h + 1))
  BY <1>1
<1>3. PICK whole \in Int : whole = Compare(a, b, h)
  BY CompareFacts
<1>4. /\ whole = 0 <=> Agree(a, b, 2 * h)
      /\ whole < 0 <=> Precedes(a, b, 2 * h)
  BY <1>3, WholeBytes
<1>5. qgit_oid_ncmp(a, b, n) = IF whole # 0 \/ m % 2 = 0 THEN whole
                               ELSE (a[h + 1] \div 16) - (b[h + 1] \div 16)
  BY <1>2, <1>3 DEF qgit_oid_ncmp
<1>6. CASE m % 2 = 0
  <2>1. m = 2 * h /\ qgit_oid_ncmp(a, b, n) = whole
    BY <1>2, <1>5, <1>6
  <2>. QED  BY <1>4, <2>1
<1>7. CASE m % 2 # 0
  <2>1. m = 2 * h + 1 /\ h + 1 \in 1..RawSz /\ m = 2 * (h + 1) - 1 /\ 2 * h \in Nat
    BY <1>1, <1>2, <1>7
  <2>2. PICK x \in 0..15, y \in 0..15 : x = Nibble(a, m) /\ y = Nibble(b, m)
    BY NibbleFacts
  <2>3. x = a[h + 1] \div 16 /\ y = b[h + 1] \div 16
    BY <2>1, <2>2, NibbleFacts
  <2>4. Agree(a, b, m) <=> Agree(a, b, 2 * h) /\ x = y
    <3>1. \A k \in 1..m : k \in 1..(2 * h) \/ k = m
      BY <2>1
    <3>2. \A k \in 1..(2 * h) : k \in 1..m
      BY <2>1
    <3>3. m \in 1..m
      BY <2>1
    <3>4. ASSUME Agree(a, b, m) PROVE Agree(a, b, 2 * h) /\ x = y
      BY <2>2, <3>2, <3>3, <3>4 DEF Agree
    <3>5. ASSUME Agree(a, b, 2 * h), x = y PROVE Agree(a, b, m)
      BY <2>2, <3>1, <3>5 DEF Agree
    <3>. QED  BY <3>4, <3>5
  <2>5. Precedes(a, b, m) <=> Precedes(a, b, 2 * h) \/ (Agree(a, b, 2 * h) /\ x < y)
    <3>1. \A k \in 1..m : k \in 1..(2 * h) \/ k = m
      BY <2>1
    <3>2. \A k \in 1..(2 * h) : k \in 1..m
      BY <2>1
    <3>3. 1..(m - 1) = 1..(2 * h)
      BY <2>1
    <3>. QED  BY <2>2, <3>1, <3>2, <3>3 DEF Precedes, Agree
  <2>6. CASE whole # 0
    <3>1. qgit_oid_ncmp(a, b, n) = whole /\ ~Agree(a, b, 2 * h)
      BY <1>4, <1>5, <2>6
    <3>. QED  BY <1>4, <2>4, <2>5, <2>6, <3>1
  <2>7. CASE whole = 0
    <3>1. qgit_oid_ncmp(a, b, n) = x - y /\ Agree(a, b, 2 * h) /\ ~Precedes(a, b, 2 * h)
      BY <1>4, <1>5, <1>7, <2>3, <2>7
    <3>. QED  BY <2>4, <2>5, <3>1
  <2>. QED  BY <2>6, <2>7
<1>. QED  BY <1>6, <1>7

(* What reading a text leaves in an id. *)
LEMMA FromstrnFacts ==
  ASSUME NEW id \in Bytes, NEW str, NEW len \in Nat, len = Len(str), DOMAIN str = 1..len,
         NEW r, r = qgit_oid_fromstrn(id, str)
  PROVE  /\ r.id \in Bytes
         /\ r.ok <=> Accepts(str)
         /\ r.ok => \A k \in 1..HexSz : Nibble(r.id, k) = IF k <= len THEN hexval(str[k]) ELSE 0
<1>1. PICK half \in Nat, odd \in 0..1 : half = len \div 2 /\ len = 2 * half + odd /\ odd = len % 2
  OBVIOUS
<1>2. RawSz \in Nat /\ HexSz = 2 * RawSz /\ HexSz \in Nat
  BY RawSzIsPositive DEF HexSz
<1>3. PICK bad : bad = {k \in 1..half : hexval(str[2 * k - 1]) < 0 \/ hexval(str[2 * k]) < 0}
  OBVIOUS
<1>11. PICK first : first = CHOOSE k \in bad : \A m \in bad : k <= m
  OBVIOUS
<1>4. PICK pairs : pairs = IF bad = {} THEN half ELSE first - 1
  OBVIOUS
<1>5. PICK ok \in BOOLEAN : ok <=> bad = {} /\ (odd = 1 => hexval(str[len]) >= 0)
  OBVIOUS
<1>6. PICK read : read = [i \in 1..RawSz |->
                            IF i <= pairs THEN 16 * hexval(str[2 * i - 1]) + hexval(str[2 * i])
                            ELSE IF ~ok THEN id[i]
                            ELSE IF 2 * i - 1 = len THEN 16 * hexval(str[len]) ELSE 0]
  OBVIOUS
<1>7. r = IF len = 0 \/ len > HexSz THEN [ok |-> FALSE, id |-> id] ELSE [ok |-> ok, id |-> read]
  BY <1>1, <1>3, <1>11, <1>4, <1>5, <1>6 DEF qgit_oid_fromstrn
<1>8. Accepts(str) <=> len \in 1..HexSz /\ \A k \in 1..len : hexval(str[k]) >= 0
  BY DEF Accepts
<1>9. CASE len = 0 \/ len > HexSz
  BY <1>2, <1>7, <1>8, <1>9
<1>10. CASE ~(len = 0 \/ len > HexSz)
  <2>1. r.ok = ok /\ r.id = read /\ len \in 1..HexSz /\ half <= RawSz
    <3>1. r.ok = ok /\ r.id = read
      BY <1>7, <1>10
    <3>2. len \in 1..HexSz /\ half <= RawSz
      BY <1>1, <1>2, <1>10
    <3>. QED  BY <3>1, <3>2
  <2>2. \A c : hexval(c) \in -1..15
    BY HexvalFacts
  <2>3. bad = {} <=> \A k \in 1..half : hexval(str[2 * k - 1]) >= 0 /\ hexval(str[2 * k]) >= 0
    <3>1. ASSUME NEW k \in 1..half
          PROVE  k \in bad <=> ~(hexval(str[2 * k - 1]) >= 0 /\ hexval(str[2 * k]) >= 0)
      <4>1. PICK x \in -1..15, y \in -1..15 : x = hexval(str[2 * k - 1]) /\ y = hexval(str[2 * k])
        BY <2>2
      <4>2. k \in bad <=> x < 0 \/ y < 0
        BY <1>3, <4>1
      <4>. QED  BY <4>1, <4>2
    <3>2. bad \subseteq 1..half
      BY <1>3
    <3>. QED  BY <3>1, <3>2
  <2>4. ok <=> \A k \in 1..len : hexval(str[k]) >= 0
    <3>1. ASSUME ok, NEW k \in 1..len PROVE hexval(str[k]) >= 0
      <4>1. PICK i \in Nat : i = (k + 1) \div 2 /\ (k = 2 * i - 1 \/ k = 2 * i)
        OBVIOUS
      <4>2. i \in 1..half \/ (odd = 1 /\ k = len)
        BY <1>1, <4>1
      <4>. QED  BY <1>5, <2>3, <3>1, <4>1, <4>2
    <3>2. ASSUME \A k \in 1..len : hexval(str[k]) >= 0 PROVE ok
      <4>1. \A k \in 1..half : 2 * k - 1 \in 1..len /\ 2 * k \in 1..len
        BY <1>1
      <4>2. len \in 1..len
        BY <2>1
      <4>. QED  BY <1>5, <2>3, <3>2, <4>1, <4>2
    <3>. QED  BY <3>1, <3>2
  <2>5. /\ pairs \in 0..half
        /\ \A k \in 1..pairs : hexval(str[2 * k - 1]) \in 0..15 /\ hexval(str[2 * k]) \in 0..15
    <3>1. CASE bad = {}
      <4>1. pairs = half
        BY <1>4, <3>1
      <4>2. \A k \in 1..half : hexval(str[2 * k - 1]) >= 0 /\ hexval(str[2 * k]) >= 0
        BY <2>3, <3>1
      <4>. QED  BY <2>2, <4>1, <4>2, SMTT(20)
    <3>2. CASE bad # {}
      <4>1. bad \in SUBSET Nat
        BY <1>3
      <4>2. \E k \in bad : \A m \in bad : k <= m
        BY <3>2, <4>1, LeastNat
      <4>4. first \in bad /\ \A m \in bad : first <= m
        BY <1>11, <4>2
      <4>5. first \in 1..half /\ pairs = first - 1
        BY <1>3, <1>4, <3>2, <4>4
      <4>6. \A k \in 1..pairs : k \in 1..half /\ k \notin bad
        BY <4>4, <4>5
      <4>7. ASSUME NEW k \in 1..pairs
            PROVE  hexval(str[2 * k - 1]) >= 0 /\ hexval(str[2 * k]) >= 0
        <5>1. PICK x \in -1..15, y \in -1..15 : x = hexval(str[2 * k - 1]) /\ y = hexval(str[2 * k])
          BY <2>2
        <5>2. ~(x < 0) /\ ~(y < 0)
          BY <1>3, <4>6, <5>1
        <5>. QED  BY <5>1, <5>2
      <4>. QED  BY <2>2, <4>5, <4>7
    <3>. QED  BY <3>1, <3>2
  <2>6. read \in Bytes
    <3>1. ASSUME NEW i \in 1..RawSz PROVE read[i] \in 0..255
      <4>1. read[i] = IF i <= pairs THEN 16 * hexval(str[2 * i - 1]) + hexval(str[2 * i])
                      ELSE IF ~ok THEN id[i]
                      ELSE IF 2 * i - 1 = len THEN 16 * hexval(str[len]) ELSE 0
        BY <1>6
      <4>2. ASSUME i <= pairs
            PROVE  16 * hexval(str[2 * i - 1]) + hexval(str[2 * i]) \in 0..255
        <5>1. i \in 1..pairs
          BY <2>5, <4>2
        <5>. QED  BY <2>5, <5>1, ByteHalves
      <4>3. id[i] \in 0..255
        BY DEF Bytes
      <4>4. ASSUME ok PROVE 16 * hexval(str[len]) \in 0..255
        <5>1. len \in 1..len
          BY <2>1
        <5>2. PICK x \in -1..15 : x = hexval(str[len])
          BY <2>2
        <5>3. x >= 0
          BY <2>4, <4>4, <5>1, <5>2
        <5>4. 16 * x \in 0..255
          BY <5>3
        <5>. QED  BY <5>2, <5>4
      <4>5. CASE i <= pairs
        BY ONLY <4>1, <4>2, <4>5
      <4>6. CASE ~(i <= pairs) /\ ~ok
        BY ONLY <4>1, <4>3, <4>6
      <4>7. CASE ~(i <= pairs) /\ ok
        BY ONLY <4>1, <4>4, <4>7
      <4>. QED  BY ONLY <4>5, <4>6, <4>7
    <3>. QED  BY <1>6, <3>1 DEF Bytes
  <2>7. ASSUME ok, NEW k \in 1..HexSz
        PROVE  Nibble(read, k) = IF k <= len THEN hexval(str[k]) ELSE 0
    <3>1. PICK i \in 1..RawSz : i = (k + 1) \div 2 /\ ((k % 2 = 1 /\ k = 2 * i - 1) \/ (k % 2 = 0 /\ k = 2 * i))
      BY DigitPlaces
    <3>2. pairs = half
      BY <1>4, <1>5, <2>7
    <3>3. read[i] = IF i <= half THEN 16 * hexval(str[2 * i - 1]) + hexval(str[2 * i])
                    ELSE IF 2 * i - 1 = len THEN 16 * hexval(str[len]) ELSE 0
      BY <1>6, <2>7, <3>2
    <3>4. Nibble(read, k) = IF k = 2 * i - 1 THEN read[i] \div 16 ELSE read[i] % 16
      BY <3>1 DEF Nibble
    <3>5. CASE i <= half
      <4>0. i \in 1..pairs
        BY <3>2, <3>5
      <4>1. PICK x \in 0..15, y \in 0..15 : x = hexval(str[2 * i - 1]) /\ y = hexval(str[2 * i])
        <5>1. hexval(str[2 * i - 1]) \in 0..15 /\ hexval(str[2 * i]) \in 0..15
          BY <2>5, <4>0
        <5>. QED  BY <5>1
      <4>2. read[i] = 16 * x + y
        BY <3>3, <3>5, <4>1
      <4>3. read[i] \div 16 = x /\ read[i] % 16 = y
        BY <4>2, ByteHalves
      <4>4. k <= len
        BY <1>1, <3>1, <3>5
      <4>. QED  BY <3>1, <3>4, <4>1, <4>3, <4>4
    <3>6. CASE ~(i <= half) /\ 2 * i - 1 = len
      <4>1. len \in 1..len
        BY <2>1
      <4>2. PICK x \in 0..15 : x = hexval(str[len])
        BY <2>2, <2>4, <2>7, <4>1
      <4>3. read[i] = 16 * x
        BY <3>3, <3>6, <4>2
      <4>4. read[i] \div 16 = x /\ read[i] % 16 = 0
        BY <4>3
      <4>5. k = len \/ (k = 2 * i /\ k > len)
        BY <3>1, <3>6
      <4>. QED  BY <3>4, <3>6, <4>2, <4>4, <4>5
    <3>7. CASE ~(i <= half) /\ 2 * i - 1 # len
      <4>1. read[i] = 0
        BY <3>3, <3>7
      <4>2. read[i] \div 16 = 0 /\ read[i] % 16 = 0
        BY <4>1
      <4>3. ~(k <= len)
        BY <1>1, <3>1, <3>7
      <4>. QED  BY <3>4, <4>2, <4>3
    <3>. QED  BY <3>5, <3>6, <3>7
  <2>. QED  BY <1>8, <2>1, <2>4, <2>6, <2>7
<1>. QED  BY <1>9, <1>10

(* The text of an id reads as the id. *)
LEMMA FmtReadsBack ==
  ASSUME NEW a \in Bytes, NEW b \in Bytes
  PROVE  qgit_oid_streq(a, qgit_oid_fmt(b)) = 0 <=> a = b
<1>1. PICK hex : hex = qgit_oid_fmt(b)
  OBVIOUS
<1>2. /\ Len(hex) = HexSz /\ DOMAIN hex = 1..HexSz /\ HexSz \in Nat /\ HexSz >= 1
      /\ \A k \in 1..HexSz : hexval(hex[k]) = Nibble(b, k) /\ hexval(hex[k]) \in 0..15
  BY <1>1, FmtFacts, NibbleFacts, DigitPlaces
<1>3. PICK r : r = qgit_oid_fromstrn(a, hex)
  OBVIOUS
<1>4. /\ r.id \in Bytes /\ (r.ok <=> Accepts(hex))
      /\ r.ok => \A k \in 1..HexSz : Nibble(r.id, k) = IF k <= HexSz THEN hexval(hex[k]) ELSE 0
  <2>1. PICK n \in Nat : n = HexSz
    BY <1>2
  <2>2. n = Len(hex) /\ DOMAIN hex = 1..n /\ r = qgit_oid_fromstrn(a, hex) /\ a \in Bytes
    BY <1>2, <1>3, <2>1
  <2>3. /\ r.id \in Bytes /\ (r.ok <=> Accepts(hex))
        /\ r.ok => \A k \in 1..HexSz : Nibble(r.id, k) = IF k <= n THEN hexval(hex[k]) ELSE 0
    BY ONLY n \in Nat, <2>2, FromstrnFacts
  <2>. QED  BY <2>1, <2>3
<1>5. Accepts(hex)
  BY <1>2 DEF Accepts
<1>6. r.id = b
  BY <1>2, <1>4, <1>5, SameNibbles
<1>7. qgit_oid_streq(a, hex) = IF qgit_oid_cmp(a, r.id) = 0 THEN 0 ELSE 1
  BY <1>2, <1>3, <1>4, <1>5 DEF qgit_oid_streq
<1>8. qgit_oid_cmp(a, b) = 0 <=> a = b
  <2>1. RawSz \in 0..RawSz
    BY RawSzIsPositive
  <2>2. Compare(a, b, RawSz) = 0 <=> \A i \in 1..RawSz : a[i] = b[i]
    BY <2>1, CompareFacts
  <2>3. (\A i \in 1..RawSz : a[i] = b[i]) <=> a = b
    <3>1. a = [i \in 1..RawSz |-> a[i]] /\ b = [i \in 1..RawSz |-> b[i]]
      BY DEF Bytes
    <3>. QED  BY <3>1
  <2>. QED  BY <2>2, <2>3 DEF qgit_oid_cmp
<1>. QED  BY <1>1, <1>6, <1>7, <1>8

(* An id is zero when all its digits are. *)
LEMMA ZeroFacts ==
  ASSUME NEW a \in Bytes
  PROVE  qgit_oid_iszero(a) <=> qgit_oid_fmt(a) = [i \in 1..HexSz |-> "0"]
<1>1. PICK z : z = [i \in 1..RawSz |-> 0]
  OBVIOUS
<1>2. z \in Bytes /\ RawSz \in 0..RawSz
  BY <1>1, RawSzIsPositive DEF Bytes
<1>3. qgit_oid_iszero(a) <=> \A i \in 1..RawSz : a[i] = z[i]
  BY <1>1, <1>2, CompareFacts DEF qgit_oid_iszero, qgit_oid_cmp
<1>4. (\A i \in 1..RawSz : a[i] = z[i]) <=> a = z
  <2>1. a = [i \in 1..RawSz |-> a[i]] /\ z = [i \in 1..RawSz |-> z[i]]
    BY <1>1 DEF Bytes
  <2>. QED  BY <2>1
<1>5. \A k \in 1..HexSz : Nibble(z, k) = 0
  <2>. SUFFICES ASSUME NEW k \in 1..HexSz PROVE Nibble(z, k) = 0
    OBVIOUS
  <2>1. z[(k + 1) \div 2] = 0
    BY <1>1, DigitPlaces
  <2>. QED  BY <2>1 DEF Nibble
<1>6. PICK hex : hex = qgit_oid_fmt(a)
  OBVIOUS
<1>7. \A k \in 1..HexSz : /\ hex[k] = hexdigits[Nibble(a, k) + 1] /\ Nibble(a, k) \in 0..15
                          /\ hexval(hex[k]) = Nibble(a, k)
  BY <1>6, FmtFacts, NibbleFacts
<1>8. hexdigits[1] = "0" /\ hexval("0") = 0
  <2>1. hexdigits[1] = "0"
    BY DEF hexdigits
  <2>2. 0 \in 0..15 /\ 0 + 1 = 1
    OBVIOUS
  <2>. QED  BY <2>1, <2>2, HexvalFacts
<1>9. \A k \in 1..HexSz : hex[k] = "0" <=> Nibble(a, k) = 0
  BY <1>7, <1>8
<1>10. hex = [i \in 1..HexSz |-> "0"] <=> \A k \in 1..HexSz : hex[k] = "0"
  <2>1. hex = [k \in 1..HexSz |-> hex[k]]
    BY <1>6 DEF qgit_oid_fmt
  <2>. QED  BY <2>1
<1>. QED  BY <1>2, <1>3, <1>4, <1>5, <1>6, <1>9, <1>10, SameNibbles

(* The directory and the name of a file are the text of its id, cut in two.  *)
LEMMA PathFacts ==
  ASSUME NEW a \in Bytes
  PROVE  LET path == qgit_oid_pathfmt(a)
             hex == qgit_oid_fmt(a)
         IN /\ path = <<path[1], path[2]>> /\ path[1] = SubSeq(hex, 1, 2)
            /\ path[1] \in Seq(HexDigits) /\ Len(path[1]) = 2
            /\ path[2] \in Seq(HexDigits) /\ Len(path[2]) = HexSz - 2
            /\ path[1][1] = hex[1] /\ path[1][2] = hex[2]
            /\ \A k \in 3..HexSz : path[2][k - 2] = hex[k]
<1>1. PICK hex : hex = qgit_oid_fmt(a)
  OBVIOUS
<1>2. hex \in Seq(HexDigits) /\ Len(hex) = HexSz
  BY <1>1, FmtFacts
<1>3. PICK n \in Nat : n = HexSz /\ n >= 2
  BY DigitPlaces
<1>4. PICK dir : dir = SubSeq(hex, 1, 2)
  OBVIOUS
<1>5. PICK name : name = SubSeq(hex, 3, n)
  OBVIOUS
<1>6. dir \in Seq(HexDigits) /\ Len(dir) = 2 /\ dir[1] = hex[1] /\ dir[2] = hex[2]
  BY <1>2, <1>3, <1>4
<1>7. name \in Seq(HexDigits) /\ Len(name) = n - 2 /\ \A j \in 1..(n - 2) : name[j] = hex[j + 2]
  BY <1>2, <1>3, <1>5
<1>8. \A k \in 3..n : name[k - 2] = hex[k]
  <2>1. \A k \in 3..n : k - 2 \in 1..(n - 2) /\ (k - 2) + 2 = k
    BY <1>3
  <2>. QED  BY <1>7, <2>1
<1>9. qgit_oid_pathfmt(a) = <<dir, name>>
  BY <1>1, <1>3, <1>4, <1>5 DEF qgit_oid_pathfmt
<1>. QED  BY <1>1, <1>3, <1>4, <1>6, <1>7, <1>8, <1>9

(* Texts have the same digits where the ids do. *)
LEMMA SameText ==
  ASSUME NEW a \in Bytes, NEW b \in Bytes, NEW k \in 1..HexSz
  PROVE  qgit_oid_fmt(a)[k] = qgit_oid_fmt(b)[k] <=> Nibble(a, k) = Nibble(b, k)
<1>1. /\ qgit_oid_fmt(a)[k] = hexdigits[Nibble(a, k) + 1]
      /\ hexval(qgit_oid_fmt(a)[k]) = Nibble(a, k)
  BY FmtFacts
<1>2. /\ qgit_oid_fmt(b)[k] = hexdigits[Nibble(b, k) + 1]
      /\ hexval(qgit_oid_fmt(b)[k]) = Nibble(b, k)
  BY FmtFacts
<1>. QED  BY <1>1, <1>2

(* A file belongs to one id. *)
LEMMA PathsAreIds ==
  ASSUME NEW a \in Bytes, NEW b \in Bytes
  PROVE  qgit_oid_pathfmt(a) = qgit_oid_pathfmt(b) <=> a = b
<1>1. PICK pa, pb : pa = qgit_oid_pathfmt(a) /\ pb = qgit_oid_pathfmt(b)
  OBVIOUS
<1>2. PICK ha, hb : ha = qgit_oid_fmt(a) /\ hb = qgit_oid_fmt(b)
  OBVIOUS
<1>3. ASSUME pa = pb PROVE a = b
  <2>1. /\ pa[1][1] = ha[1] /\ pa[1][2] = ha[2] /\ pb[1][1] = hb[1] /\ pb[1][2] = hb[2]
        /\ \A k \in 3..HexSz : pa[2][k - 2] = ha[k] /\ pb[2][k - 2] = hb[k]
    BY <1>1, <1>2, PathFacts
  <2>2. \A k \in 1..HexSz : k = 1 \/ k = 2 \/ k \in 3..HexSz
    BY DigitPlaces
  <2>3. \A k \in 1..HexSz : ha[k] = hb[k]
    BY <1>3, <2>1, <2>2
  <2>4. \A k \in 1..HexSz : Nibble(a, k) = Nibble(b, k)
    BY <1>2, <2>3, SameText
  <2>. QED  BY <2>4, SameNibbles
<1>. QED  BY <1>1, <1>3

(* An abbreviation finds what it begins. *)
LEMMA PrefixFacts ==
  ASSUME NEW a \in Bytes, NEW b \in Bytes, NEW len \in 2..HexSz
  PROVE  PrefixMatches(a, b, len) <=> Agree(a, b, len)
<1>1. PICK pa : pa = qgit_oid_pathfmt(a)
  OBVIOUS
<1>2. PICK ha, hb : ha = qgit_oid_fmt(a) /\ hb = qgit_oid_fmt(b)
  OBVIOUS
<1>3. PICK n \in Nat : n = HexSz /\ n >= 2 /\ len \in Nat /\ 2 <= len /\ len <= n
  BY DigitPlaces
<1>4. hb \in Seq(HexDigits) /\ Len(hb) = n /\ ha \in Seq(HexDigits) /\ Len(ha) = n
  BY <1>2, <1>3, FmtFacts
<1>5. PICK dir, name : dir = pa[1] /\ name = pa[2]
  OBVIOUS
<1>6. /\ dir \in Seq(HexDigits) /\ Len(dir) = 2 /\ dir[1] = ha[1] /\ dir[2] = ha[2]
      /\ name \in Seq(HexDigits) /\ Len(name) = n - 2 /\ \A k \in 3..n : name[k - 2] = ha[k]
  BY <1>1, <1>2, <1>3, <1>5, PathFacts
<1>7. PICK d : d = SubSeq(hb, 1, 2)
  OBVIOUS
<1>8. d \in Seq(HexDigits) /\ Len(d) = 2 /\ d[1] = hb[1] /\ d[2] = hb[2]
  BY <1>3, <1>4, <1>7
<1>9. PICK s, t : s = SubSeq(name, 1, len - 2) /\ t = SubSeq(hb, 3, len)
  OBVIOUS
<1>10. s \in Seq(HexDigits) /\ Len(s) = len - 2 /\ \A j \in 1..(len - 2) : s[j] = name[j]
  BY <1>3, <1>6, <1>9
<1>11. t \in Seq(HexDigits) /\ Len(t) = len - 2 /\ \A j \in 1..(len - 2) : t[j] = hb[j + 2]
  BY <1>3, <1>4, <1>9
<1>12. PrefixMatches(a, b, len) <=> dir = d /\ s = t
  BY <1>1, <1>2, <1>5, <1>7, <1>9 DEF PrefixMatches
<1>13. dir = d <=> ha[1] = hb[1] /\ ha[2] = hb[2]
  BY <1>6, <1>8, SMTT(20)
<1>14. s = t <=> \A k \in 3..len : ha[k] = hb[k]
  <2>1. \A k \in 3..len : k - 2 \in 1..(len - 2) /\ (k - 2) + 2 = k /\ k \in 3..n
    BY <1>3
  <2>2. \A j \in 1..(len - 2) : j + 2 \in 3..len /\ (j + 2) - 2 = j
    BY <1>3
  <2>3. \A k \in 3..len : s[k - 2] = ha[k] /\ t[k - 2] = hb[k]
    BY <1>6, <1>10, <1>11, <2>1
  <2>4. s = t <=> \A j \in 1..(len - 2) : s[j] = t[j]
    BY <1>3, <1>10, <1>11
  <2>5. (\A j \in 1..(len - 2) : s[j] = t[j]) <=> \A k \in 3..len : s[k - 2] = t[k - 2]
    <3>1. ASSUME \A k \in 3..len : s[k - 2] = t[k - 2], NEW j \in 1..(len - 2) PROVE s[j] = t[j]
      BY <2>2, <3>1
    <3>. QED  BY <2>1, <3>1
  <2>. QED  BY <2>3, <2>4, <2>5
<1>15. \A k \in 1..len : k \in 1..HexSz /\ (k = 1 \/ k = 2 \/ k \in 3..len)
  BY <1>3
<1>16. \A k \in 3..len : k \in 1..len
  OBVIOUS
<1>17. 1 \in 1..len /\ 2 \in 1..len
  BY <1>3
<1>18. Agree(a, b, len) <=> \A k \in 1..len : ha[k] = hb[k]
  BY <1>2, <1>15, SameText DEF Agree
<1>. QED  BY <1>12, <1>13, <1>14, <1>15, <1>16, <1>17, <1>18

(* The text in a buffer that may be too short. *)
LEMMA TostrFacts ==
  ASSUME NEW id \in Bytes, NEW n \in 1..(HexSz + 1)
  PROVE  qgit_oid_tostr(n, id) = FirstDigits(id, n - 1)
<1>1. RawSz \in Nat /\ HexSz = 2 * RawSz /\ HexSz \in Nat
  BY RawSzIsPositive DEF HexSz
<1>2. PICK len \in 0..HexSz : len = n - 1
  BY <1>1
<1>3. PICK half \in 0..RawSz : half = len \div 2 /\ (len = 2 * half \/ (len = 2 * half + 1 /\ len % 2 = 1))
  BY <1>1
<1>4. PICK chars : chars = [k \in 1..len |-> IF k <= 2 * half THEN fmt_one(id[(k + 1) \div 2])[2 - (k % 2)]
                                        ELSE hexdigits[(id[half + 1] \div 16) + 1]]
  OBVIOUS
<1>5. qgit_oid_tostr(n, id) = chars
  <2>1. (IF n - 1 > HexSz THEN HexSz ELSE n - 1) = len
    BY <1>1, <1>2
  <2>. QED  BY <1>3, <1>4, <2>1 DEF qgit_oid_tostr
<1>6. PICK hex : hex = qgit_oid_fmt(id)
  OBVIOUS
<1>7. hex \in Seq(HexDigits) /\ \A k \in 1..HexSz : hex[k] = hexdigits[Nibble(id, k) + 1]
  BY <1>6, FmtFacts
<1>8. PICK first : first = FirstDigits(id, len)
  OBVIOUS
<1>9. first \in Seq(HexDigits) /\ Len(first) = len /\ \A k \in 1..len : first[k] = hex[k]
  BY <1>6, <1>8, FirstDigitsFacts
<1>10. ASSUME NEW k \in 1..len PROVE chars[k] = hex[k]
  <2>1. k \in 1..HexSz
    BY <1>1, <1>2
  <2>2. CASE k <= 2 * half
    <3>1. hex[k] = fmt_one(id[(k + 1) \div 2])[2 - (k % 2)]
      BY <1>6, <2>1 DEF qgit_oid_fmt
    <3>. QED  BY <1>4, <2>2, <3>1
  <2>3. CASE ~(k <= 2 * half)
    <3>1. k = 2 * half + 1 /\ k % 2 = 1 /\ (k + 1) \div 2 = half + 1
      BY <1>3, <2>3
    <3>2. Nibble(id, k) = id[half + 1] \div 16
      BY <3>1 DEF Nibble
    <3>. QED  BY <1>4, <1>7, <2>1, <2>3, <3>2
  <2>. QED  BY <2>2, <2>3
<1>11. chars = first
  <2>1. DOMAIN first = 1..len /\ first = [k \in 1..len |-> first[k]]
    BY <1>9
  <2>2. chars = [k \in 1..len |-> chars[k]]
    BY <1>4
  <2>. QED  BY <1>9, <1>10, <2>1, <2>2
<1>. QED  BY <1>2, <1>5, <1>8, <1>11

(* What comparing digits says, in terms of the texts. *)
LEMMA DigitsAgree ==
  ASSUME NEW x \in Bytes, NEW y \in Bytes, NEW n \in 1..(HexSz + 1)
  PROVE  LET m == IF n > HexSz THEN HexSz ELSE n
             a == Digits(FirstDigits(x, m))
             b == Digits(FirstDigits(y, m))
         IN /\ qgit_oid_ncmp(x, y, n) = 0 <=> a = b
            /\ qgit_oid_ncmp(x, y, n) < 0 <=>
                 \E i \in 1..m : a[i] < b[i] /\ \A j \in 1..(i - 1) : a[j] = b[j]
<1>1. PICK m \in 1..HexSz : m = IF n > HexSz THEN HexSz ELSE n
  BY DigitPlaces
<1>2. m \in 0..HexSz /\ m \in Nat
  BY DigitPlaces
<1>3. PICK a, b : a = Digits(FirstDigits(x, m)) /\ b = Digits(FirstDigits(y, m))
  OBVIOUS
<1>4. a = [k \in 1..m |-> Nibble(x, k)] /\ b = [k \in 1..m |-> Nibble(y, k)]
  BY <1>2, <1>3, FirstDigitsFacts
<1>5. \A k \in 1..m : a[k] = Nibble(x, k) /\ b[k] = Nibble(y, k)
  BY <1>4
<1>6. a = b <=> Agree(x, y, m)
  <2>1. ASSUME a = b PROVE Agree(x, y, m)
    BY <1>5, <2>1 DEF Agree
  <2>2. ASSUME Agree(x, y, m) PROVE a = b
    BY <1>4, <2>2 DEF Agree
  <2>. QED  BY <2>1, <2>2
<1>7. (\E i \in 1..m : a[i] < b[i] /\ \A j \in 1..(i - 1) : a[j] = b[j]) <=> Precedes(x, y, m)
  <2>1. \A i \in 1..m : \A j \in 1..(i - 1) : j \in 1..m
    BY <1>2
  <2>. QED  BY <1>5, <2>1 DEF Precedes
<1>8. /\ qgit_oid_ncmp(x, y, n) = 0 <=> Agree(x, y, m)
      /\ qgit_oid_ncmp(x, y, n) < 0 <=> Precedes(x, y, m)
  BY <1>1, NcmpFacts
<1>. QED  BY <1>1, <1>3, <1>6, <1>7, <1>8

(* What the invariant gives in a state. *)
LEMMA OidInvSuffices == OidInv => OidsAreTheirText
<1>. SUFFICES ASSUME OidInv PROVE OidsAreTheirText
  OBVIOUS
<1>1. short \in Bytes /\ full \in Bytes
  BY DEF OidInv, Bytes
<1>2. PICK len \in Nat : len = Len(given) /\ DOMAIN given = 1..len
  BY DEF OidInv
<1>3. given # <<>> => (accepted <=> Accepts(given))
  BY DEF OidInv
<1>4. ASSUME accepted
      PROVE  Digits(qgit_oid_fmt(short))
               = [i \in 1..HexSz |-> IF i <= Len(given) THEN hexval(given[i]) ELSE 0]
  <2>1. PICK hex : hex = qgit_oid_fmt(short)
    OBVIOUS
  <2>2. DOMAIN hex = 1..HexSz /\ \A k \in 1..HexSz : hexval(hex[k]) = Nibble(short, k)
    BY <1>1, <2>1, FmtFacts
  <2>3. \A k \in 1..HexSz : Nibble(short, k) = IF k <= Len(given) THEN hexval(given[k]) ELSE 0
    BY <1>4 DEF OidInv
  <2>. QED  BY <2>1, <2>2, <2>3 DEF Digits
<1>5. ASSUME accepted, Len(given) >= MinPrefix
      PROVE  PrefixMatches(full, short, Len(given))
               <=> Digits(FirstDigits(full, Len(given))) = Digits(given)
  <2>1. len \in 2..HexSz /\ len \in 0..HexSz
    BY <1>2, <1>5, DigitPlaces DEF OidInv, Accepts, MinPrefix
  <2>2. PrefixMatches(full, short, len) <=> Agree(full, short, len)
    BY <1>1, <2>1, PrefixFacts
  <2>3. Digits(FirstDigits(full, len)) = [k \in 1..len |-> Nibble(full, k)]
    BY <1>1, <2>1, FirstDigitsFacts
  <2>4. Digits(given) = [k \in 1..len |-> hexval(given[k])]
    BY <1>2 DEF Digits
  <2>5. \A k \in 1..len : Nibble(short, k) = hexval(given[k])
    <3>1. HexSz \in Nat /\ len <= HexSz
      BY <2>1, DigitPlaces
    <3>2. \A k \in 1..len : k \in 1..HexSz
      BY <3>1
    <3>3. \A k \in 1..len : k <= len
      OBVIOUS
    <3>4. \A k \in 1..HexSz : Nibble(short, k) = IF k <= len THEN hexval(given[k]) ELSE 0
      BY <1>2, <1>5 DEF OidInv
    <3>. QED  BY <3>2, <3>3, <3>4
  <2>6. Digits(FirstDigits(full, len)) = Digits(given) <=> Agree(full, short, len)
    <3>1. PICK f, g : f = Digits(FirstDigits(full, len)) /\ g = Digits(given)
      OBVIOUS
    <3>2. /\ f = [k \in 1..len |-> Nibble(full, k)] /\ g = [k \in 1..len |-> Nibble(short, k)]
      BY <2>3, <2>4, <2>5, <3>1
    <3>3. ASSUME f = g PROVE Agree(full, short, len)
      <4>1. \A k \in 1..len : f[k] = Nibble(full, k) /\ g[k] = Nibble(short, k)
        BY <3>2
      <4>. QED  BY <3>3, <4>1 DEF Agree
    <3>4. ASSUME Agree(full, short, len) PROVE f = g
      BY <3>2, <3>4 DEF Agree
    <3>. QED  BY <3>1, <3>3, <3>4
  <2>. QED  BY <1>2, <2>2, <2>6
<1>6. ASSUME NEW n \in 1..(HexSz + 1)
      PROVE  LET m == IF n > HexSz THEN HexSz ELSE n
                 a == Digits(FirstDigits(short, m))
                 b == Digits(FirstDigits(full, m))
             IN /\ qgit_oid_ncmp(short, full, n) = 0 <=> a = b
                /\ qgit_oid_ncmp(short, full, n) < 0 <=>
                     \E i \in 1..m : a[i] < b[i] /\ \A j \in 1..(i - 1) : a[j] = b[j]
                /\ qgit_oid_tostr(n, short) = FirstDigits(short, n - 1)
  BY <1>1, DigitsAgree, TostrFacts
<1>7. qgit_oid_streq(short, qgit_oid_fmt(full)) = 0 <=> short = full
  BY <1>1, FmtReadsBack
<1>8. qgit_oid_pathfmt(short) = qgit_oid_pathfmt(full) <=> short = full
  BY <1>1, PathsAreIds
<1>9. qgit_oid_iszero(short) <=> qgit_oid_fmt(short) = [i \in 1..HexSz |-> "0"]
  BY <1>1, ZeroFacts
<1>. QED  BY <1>3, <1>4, <1>5, <1>6, <1>7, <1>8, <1>9 DEF OidsAreTheirText

(* The ids to begin with have been read from no text. *)
LEMMA OidInitInv == OidInit => OidInv
<1>. SUFFICES ASSUME OidInit PROVE OidInv
  OBVIOUS
<1>1. Len(<<>>) = 0 /\ DOMAIN <<>> = 1..0
  OBVIOUS
<1>. QED  BY <1>1, RawIdsAreBytes DEF OidInit, OidInv

(* Reading a text is the call that has something to keep. *)
LEMMA FromTextKeeps ==
  ASSUME OidInv, FromText
  PROVE  OidInv'
<1>1. PICK str \in HexTexts : /\ short' = qgit_oid_fromstrn(short, str).id
                              /\ accepted' = qgit_oid_fromstrn(short, str).ok
                              /\ given' = str /\ full' = full
  BY DEF FromText
<1>2. PICK len \in Nat : len = Len(str) /\ DOMAIN str = 1..len
  BY HexTextsAreSequences
<1>3. short \in Bytes /\ full \in Bytes
  BY DEF OidInv, Bytes
<1>4. PICK r : r = qgit_oid_fromstrn(short, str)
  OBVIOUS
<1>5. /\ r.id \in Bytes /\ (r.ok <=> Accepts(str))
      /\ r.ok => \A k \in 1..HexSz : Nibble(r.id, k) = IF k <= len THEN hexval(str[k]) ELSE 0
  BY <1>2, <1>3, <1>4, FromstrnFacts
<1>6. short' = r.id /\ accepted' = r.ok /\ given' = str /\ full' = full
  BY <1>1, <1>4
<1>7. short' \in Bytes /\ full' \in Bytes /\ Len(given') = len /\ DOMAIN given' = 1..len
  BY <1>2, <1>3, <1>5, <1>6
<1>8. accepted' <=> Accepts(given')
  BY <1>5, <1>6
<1>9. accepted' => \A k \in 1..HexSz :
        Nibble(short', k) = IF k <= Len(given') THEN hexval(given'[k]) ELSE 0
  BY <1>2, <1>5, <1>6
<1>. QED  BY <1>7, <1>8, <1>9 DEF OidInv, Bytes, Accepts

(* Ids are sequences of bytes, and one that was read from a text has the     *)
(* digits of the text and zeros behind them (oid_fromstrn.c).                *)
THEOREM OidInvariant == OidSpec => []OidInv
<1>1. OidInv /\ [OidNext]_oidVars => OidInv'
  <2>. SUFFICES ASSUME OidInv, [OidNext]_oidVars PROVE OidInv'
    OBVIOUS
  <2>1. CASE FromRaw
    <3>1. Len(<<>>) = 0 /\ DOMAIN <<>> = 1..0
      OBVIOUS
    <3>. QED  BY <2>1, <3>1, RawIdsAreBytes DEF FromRaw, OidInv
  <2>2. CASE Cpy
    BY <2>2 DEF Cpy, OidInv
  <2>3. CASE UNCHANGED oidVars
    BY <2>3 DEF oidVars, OidInv
  <2>. QED  BY <2>1, <2>2, <2>3, FromTextKeeps DEF OidNext
<1>. QED  BY <1>1, OidInitInv, PTL DEF OidSpec

(* Bytes and texts are the same ids, for every length of an id and whatever  *)
(* texts are read (libqgit/oid): reading, comparing, abbreviating and        *)
(* printing are of the same digits.                                          *)
THEOREM IdsAreTheirTexts == OidSpec => []OidsAreTheirText
BY OidInvariant, OidInvSuffices, PTL

----------------------------------------------------------------------------
(* The string builder *)

(* The buffer of s holds the text t, and a NUL behind it. *)
Holds(s, t) ==
  /\ s \in [buf : Seq(Byte), len : Nat] /\ t \in Seq(Byte)
  /\ s.len = Len(t) /\ s.len < Len(s.buf) /\ s.buf[s.len + 1] = NUL
  /\ \A i \in 1..Len(t) : s.buf[i] = t[i]

(* The n bytes at an offset. *)
LEMMA MidFacts ==
  ASSUME NEW t \in Seq(Byte), NEW from \in Nat, NEW n \in Nat, from + n <= Len(t)
  PROVE  /\ SubSeq(t, from + 1, from + n) \in Seq(Byte)
         /\ Len(SubSeq(t, from + 1, from + n)) = n
         /\ \A j \in 1..n : SubSeq(t, from + 1, from + n)[j] = t[j + from]
<1>1. PICK a \in Nat, z \in Nat : a = from + 1 /\ z = from + n
  OBVIOUS
<1>2. 1 <= a /\ a <= z + 1 /\ z <= Len(t) /\ z - a + 1 = n /\ \A j \in 1..n : j + a - 1 = j + from
  BY <1>1
<1>3. /\ SubSeq(t, a, z) \in Seq(Byte) /\ Len(SubSeq(t, a, z)) = z - a + 1
      /\ \A j \in 1..(z - a + 1) : SubSeq(t, a, z)[j] = t[j + a - 1]
  BY ONLY t \in Seq(Byte), a \in Nat, z \in Nat, <1>2, PartFacts
<1>4. PICK w : w = SubSeq(t, a, z)
  OBVIOUS
<1>5. w \in Seq(Byte) /\ Len(w) = n /\ \A j \in 1..n : w[j] = t[j + from]
  BY ONLY <1>2, <1>3, <1>4
<1>. QED  BY <1>1, <1>4, <1>5

(* What the bytes are after src was copied to an offset. *)
Copied(c, buf, at, src) ==
  /\ c \in Seq(Byte) /\ Len(c) = Len(buf)
  /\ \A i \in 1..Len(buf) :
       c[i] = IF at < i /\ i <= at + Len(src) THEN src[i - at] ELSE buf[i]

LEMMA MemcpyFacts ==
  ASSUME NEW buf \in Seq(Byte), NEW at \in Nat, NEW src \in Seq(Byte)
  PROVE  Copied(memcpy(buf, at, src), buf, at, src)
<1>1. PICK n \in Nat, k \in Nat : n = Len(buf) /\ k = Len(src)
  OBVIOUS
<1>2. DOMAIN buf = 1..n /\ \A i \in 1..n : buf[i] \in Byte
  BY <1>1
<1>3. \A i \in 1..k : src[i] \in Byte
  BY <1>1
<1>. DEFINE f(i) == IF at < i /\ i <= at + k THEN src[i - at] ELSE buf[i]
<1>4. ASSUME NEW i \in 1..n PROVE f(i) \in Byte
  <2>1. CASE at < i /\ i <= at + k
    <3>1. i - at \in 1..k
      BY <1>1, <2>1
    <3>. QED  BY <1>3, <2>1, <3>1
  <2>2. CASE ~(at < i /\ i <= at + k)
    BY <1>2, <2>2
  <2>. QED  BY <2>1, <2>2
<1>5. memcpy(buf, at, src) = [i \in 1..n |-> f(i)]
  BY <1>1, <1>2 DEF memcpy
<1>. HIDE DEF f
<1>6. [i \in 1..n |-> f(i)] \in Seq(Byte) /\ Len([i \in 1..n |-> f(i)]) = n
  BY <1>1, <1>4
<1>7. \A i \in 1..n : [j \in 1..n |-> f(j)][i] = f(i)
  OBVIOUS
<1>. QED  BY <1>1, <1>5, <1>6, <1>7 DEF Copied, f

(* What the bytes are after n of them were moved. *)
Moved(c, buf, to, from, n) ==
  /\ c \in Seq(Byte) /\ Len(c) = Len(buf)
  /\ \A i \in 1..Len(buf) :
       c[i] = IF to < i /\ i <= to + n THEN buf[i - to + from] ELSE buf[i]

LEMMA MemmoveFacts ==
  ASSUME NEW buf \in Seq(Byte), NEW to \in Nat, NEW from \in Nat, NEW n \in Nat,
         from + n <= Len(buf)
  PROVE  Moved(memmove(buf, to, from, n), buf, to, from, n)
<1>1. PICK part : part = SubSeq(buf, from + 1, from + n)
  OBVIOUS
<1>2. PICK l \in Nat : l = Len(buf)
  OBVIOUS
<1>3. part \in Seq(Byte) /\ Len(part) = n /\ \A j \in 1..n : part[j] = buf[j + from]
  BY <1>1, MidFacts
<1>4. Copied(memcpy(buf, to, part), buf, to, part)
  BY <1>3, MemcpyFacts
<1>5. memmove(buf, to, from, n) = memcpy(buf, to, part)
  BY <1>1 DEF memmove
<1>. HIDE <1>1
<1>6. ASSUME NEW i \in 1..l
      PROVE  memcpy(buf, to, part)[i] = IF to < i /\ i <= to + n THEN buf[i - to + from] ELSE buf[i]
  <2>1. memcpy(buf, to, part)[i] = IF to < i /\ i <= to + n THEN part[i - to] ELSE buf[i]
    BY <1>2, <1>3, <1>4 DEF Copied
  <2>2. to < i /\ i <= to + n => part[i - to] = buf[i - to + from]
    BY <1>2, <1>3
  <2>. QED  BY <2>1, <2>2
<1>. QED  BY <1>2, <1>4, <1>5, <1>6 DEF Copied, Moved

(* A buffer whose bytes are the text holds it once it is terminated. *)
LEMMA TerminatedHolds ==
  ASSUME NEW buf \in Seq(Byte), NEW t \in Seq(Byte), Len(t) < Len(buf),
         \A i \in 1..Len(t) : buf[i] = t[i]
  PROVE  /\ Holds(Terminated(buf, Len(t)), t)
         /\ Len(Terminated(buf, Len(t)).buf) = Len(buf)
         /\ Terminated(buf, Len(t)).len = Len(t)
<1>1. PICK n \in Nat, l \in Nat : n = Len(t) /\ l = Len(buf)
  OBVIOUS
<1>2. PICK nul : nul = <<NUL>>
  OBVIOUS
<1>3. nul \in Seq(Byte) /\ Len(nul) = 1 /\ nul[1] = NUL
  BY <1>2 DEF Byte, NUL
<1>4. PICK c : c = memcpy(buf, n, nul)
  OBVIOUS
<1>5. Copied(c, buf, n, nul)
  BY <1>3, <1>4, MemcpyFacts
<1>6. c \in Seq(Byte) /\ Len(c) = l /\ \A i \in 1..l : c[i] = IF i = n + 1 THEN NUL ELSE buf[i]
  <2>1. c \in Seq(Byte) /\ Len(c) = l
    BY <1>1, <1>5 DEF Copied
  <2>2. ASSUME NEW i \in 1..l PROVE c[i] = IF i = n + 1 THEN NUL ELSE buf[i]
    <3>1. c[i] = IF n < i /\ i <= n + 1 THEN nul[i - n] ELSE buf[i]
      BY <1>1, <1>3, <1>5 DEF Copied
    <3>. QED  BY <1>3, <3>1
  <2>. QED  BY <2>1, <2>2
<1>7. Terminated(buf, Len(t)) = [buf |-> c, len |-> n]
  BY <1>1, <1>2, <1>4 DEF Terminated
<1>8. c[n + 1] = NUL /\ \A i \in 1..n : c[i] = t[i]
  BY <1>1, <1>6
<1>9. PICK s : s = [buf |-> c, len |-> n]
  OBVIOUS
<1>10. s \in [buf : Seq(Byte), len : Nat] /\ s.buf = c /\ s.len = n
  BY <1>6, <1>9
<1>11. Holds(s, t)
  BY <1>1, <1>6, <1>8, <1>10 DEF Holds
<1>. QED  BY <1>1, <1>6, <1>7, <1>9, <1>10, <1>11

(* What a string that holds a text says. *)
LEMMA HoldsFacts ==
  ASSUME NEW s, NEW t, Holds(s, t)
  PROVE  /\ s.buf \in Seq(Byte) /\ s.len \in Nat /\ t \in Seq(Byte) /\ Len(s.buf) \in Nat
         /\ s.len = Len(t) /\ s.len < Len(s.buf) /\ s.buf[s.len + 1] = NUL
         /\ \A i \in 1..Len(t) : s.buf[i] = t[i]
         /\ Cap(s) = Len(s.buf) - 1
BY DEF Holds, Cap

(* What realloc keeps, and what it adds. *)
LEMMA ReallocFacts ==
  ASSUME NEW s, NEW t, Holds(s, t), NEW n \in Nat
  PROVE  /\ Realloc(s, n) \in Seq(Byte) /\ Len(Realloc(s, n)) = n + 1
         /\ \A i \in 1..(n + 1) : i <= s.len => Realloc(s, n)[i] = t[i]
<1>1. PICK b \in Seq(Byte), l \in Nat, m \in Nat : b = s.buf /\ l = s.len /\ m = Len(b)
  BY HoldsFacts
<1>2. b \in Seq(Byte) /\ Len(t) = l /\ l < m /\ \A i \in 1..l : b[i] = t[i]
  BY <1>1, HoldsFacts
<1>3. PICK r : r = Realloc(s, n)
  OBVIOUS
<1>. DEFINE f(i) == IF i <= m THEN b[i] ELSE Junk
<1>4. r = [i \in 1..(n + 1) |-> f(i)]
  BY <1>1, <1>3 DEF Realloc
<1>5. ASSUME NEW i \in 1..(n + 1) PROVE f(i) \in Byte
  <2>1. i <= m => b[i] \in Byte
    BY <1>1, <1>2
  <2>. QED  BY <2>1 DEF Junk, Byte
<1>6. ASSUME NEW i \in 1..(n + 1), i <= l PROVE f(i) = t[i]
  BY <1>2, <1>6
<1>. HIDE DEF f
<1>7. r \in Seq(Byte) /\ Len(r) = n + 1 /\ \A i \in 1..(n + 1) : r[i] = f(i)
  BY <1>4, <1>5
<1>. QED  BY <1>1, <1>3, <1>6, <1>7

LEMMA ReserveHolds ==
  ASSUME NEW s, NEW t, Holds(s, t), NEW n \in Nat
  PROVE  /\ Holds(string_reserve(s, n), t)
         /\ n < Len(string_reserve(s, n).buf) /\ string_reserve(s, n).len = s.len
<1>1. PICK l \in Nat, m \in Nat : l = s.len /\ m = Len(s.buf)
  BY HoldsFacts
<1>2. t \in Seq(Byte) /\ Len(t) = l /\ l < m /\ Cap(s) = m - 1
  BY <1>1, HoldsFacts
<1>3. CASE m - 1 >= n
  <2>1. string_reserve(s, n) = s
    BY <1>2, <1>3 DEF string_reserve
  <2>. QED  BY <1>1, <1>3, <2>1
<1>4. CASE ~(m - 1 >= n)
  <2>1. string_reserve(s, n) = Terminated(Realloc(s, n), l)
    BY <1>1, <1>2, <1>4 DEF string_reserve
  <2>2. PICK r : r = Realloc(s, n)
    OBVIOUS
  <2>3. r \in Seq(Byte) /\ Len(r) = n + 1 /\ \A i \in 1..(n + 1) : i <= l => r[i] = t[i]
    <3>1. /\ Realloc(s, n) \in Seq(Byte) /\ Len(Realloc(s, n)) = n + 1
          /\ \A i \in 1..(n + 1) : i <= s.len => Realloc(s, n)[i] = t[i]
      BY ONLY Holds(s, t), n \in Nat, ReallocFacts
    <3>. QED  BY ONLY <1>1, <2>2, <3>1
  <2>4. Len(t) < Len(r) /\ \A i \in 1..Len(t) : r[i] = t[i]
    <3>1. l <= n /\ \A i \in 1..l : i \in 1..(n + 1) /\ i <= l
      BY ONLY l \in Nat, m \in Nat, n \in Nat, <1>2, <1>4
    <3>. QED  BY ONLY l \in Nat, n \in Nat, <1>2, <2>3, <3>1
  <2>5. /\ Holds(Terminated(r, Len(t)), t) /\ Len(Terminated(r, Len(t)).buf) = Len(r)
        /\ Terminated(r, Len(t)).len = Len(t)
    BY ONLY <1>2, <2>3, <2>4, TerminatedHolds
  <2>. QED  BY <1>1, <1>2, <2>1, <2>2, <2>3, <2>5
<1>. QED  BY <1>1, <1>2, <1>3, <1>4

LEMMA RoomHolds ==
  ASSUME NEW s, NEW t, Holds(s, t), NEW n \in Nat
  PROVE  /\ Holds(RoomFor(s, n), t)
         /\ s.len + n < Len(RoomFor(s, n).buf) /\ RoomFor(s, n).len = s.len
<1>1. s.len \in Nat /\ Len(s.buf) \in Nat /\ Cap(s) = Len(s.buf) - 1
  BY HoldsFacts
<1>2. CASE n > Cap(s) - s.len
  <2>1. s.len + n \in Nat
    BY <1>1
  <2>2. RoomFor(s, n) = string_reserve(s, s.len + n)
    BY <1>2 DEF RoomFor
  <2>. QED  BY <2>1, <2>2, ReserveHolds
<1>3. CASE ~(n > Cap(s) - s.len)
  <2>1. RoomFor(s, n) = s
    BY <1>3 DEF RoomFor
  <2>2. s.len + n < Len(s.buf)
    BY <1>1, <1>3
  <2>. QED  BY <2>1, <2>2
<1>. QED  BY <1>2, <1>3

(* One text behind another. *)
Joined(w, a, b) ==
  /\ w \in Seq(Byte) /\ Len(w) = Len(a) + Len(b)
  /\ \A j \in 1..(Len(a) + Len(b)) : w[j] = IF j <= Len(a) THEN a[j] ELSE b[j - Len(a)]

LEMMA JoinedFacts ==
  ASSUME NEW a \in Seq(Byte), NEW b \in Seq(Byte)
  PROVE  Joined(a \o b, a, b)
BY DEF Joined

(* Bytes put behind the text, where there is room for them. *)
LEMMA PutBehind ==
  ASSUME NEW r, NEW t, Holds(r, t), NEW src \in Seq(Byte), r.len + Len(src) < Len(r.buf)
  PROVE  Holds(Terminated(memcpy(r.buf, r.len, src), r.len + Len(src)), t \o src)
<1>1. PICK b \in Seq(Byte), l \in Nat, m \in Nat, k \in Nat : b = r.buf /\ l = r.len /\ m = Len(b) /\ k = Len(src)
  BY HoldsFacts
<1>2. /\ b \in Seq(Byte) /\ t \in Seq(Byte) /\ Len(t) = l /\ l + k < m
      /\ \A i \in 1..l : b[i] = t[i]
  BY <1>1, HoldsFacts
<1>3. PICK c, w : c = memcpy(b, l, src) /\ w = t \o src
  OBVIOUS
<1>4. Copied(c, b, l, src)
  BY <1>2, <1>3, MemcpyFacts
<1>5. /\ w \in Seq(Byte) /\ Len(w) = l + k
      /\ \A i \in 1..(l + k) : w[i] = IF i <= l THEN t[i] ELSE src[i - l]
  <2>1. Joined(w, t, src)
    BY <1>2, <1>3, JoinedFacts
  <2>. QED  BY <1>1, <1>2, <2>1 DEF Joined
<1>6. c \in Seq(Byte) /\ Len(c) = m
  BY <1>1, <1>4 DEF Copied
<1>7. ASSUME NEW i \in 1..(l + k) PROVE c[i] = w[i]
  <2>1. c[i] = IF l < i /\ i <= l + k THEN src[i - l] ELSE b[i]
    BY <1>1, <1>2, <1>4 DEF Copied
  <2>2. i <= l => b[i] = t[i]
    BY <1>2
  <2>. QED  BY <1>5, <2>1, <2>2
<1>8. Holds(Terminated(c, Len(w)), w)
  BY ONLY <1>2, <1>5, <1>6, <1>7, TerminatedHolds
<1>. QED  BY <1>1, <1>3, <1>5, <1>8

(* What is left behind the first p bytes. *)
LEMMA DropFacts ==
  ASSUME NEW t \in Seq(Byte), NEW p \in 0..Len(t), NEW n \in Nat, n = Len(t)
  PROVE  /\ SubSeq(t, p + 1, n) \in Seq(Byte) /\ Len(SubSeq(t, p + 1, n)) = n - p
         /\ \A j \in 1..(n - p) : SubSeq(t, p + 1, n)[j] = t[j + p]
<1>1. PICK w : w = SubSeq(t, p + 1, n)
  OBVIOUS
<1>2. p + 1 \in Nat /\ 1 <= p + 1 /\ p + 1 <= n + 1 /\ n <= Len(t)
  OBVIOUS
<1>3. /\ w \in Seq(Byte) /\ Len(w) = n - (p + 1) + 1
      /\ \A j \in 1..(n - (p + 1) + 1) : w[j] = t[j + (p + 1) - 1]
  BY <1>1, <1>2, PartFacts
<1>4. n - (p + 1) + 1 = n - p /\ \A j \in Int : j + (p + 1) - 1 = j + p
  OBVIOUS
<1>5. Len(w) = n - p /\ \A j \in 1..(n - p) : w[j] = t[j + p]
  BY <1>3, <1>4
<1>. QED  BY <1>1, <1>3, <1>5

(* The text w is t with src in place of the m bytes at pos. *)
Spliced(w, t, pos, m, src) ==
  /\ w \in Seq(Byte) /\ Len(w) = Len(t) - m + Len(src)
  /\ \A i \in 1..Len(w) :
       w[i] = IF i <= pos THEN t[i]
              ELSE IF i <= pos + Len(src) THEN src[i - pos] ELSE t[i - Len(src) + m]

LEMMA SplicedOnce ==
  ASSUME NEW t, NEW pos, NEW m, NEW src, NEW v, NEW w,
         Spliced(v, t, pos, m, src), Spliced(w, t, pos, m, src)
  PROVE  v = w
<1>1. PICK n \in Nat : n = Len(v)
  BY DEF Spliced
<1>2. v \in Seq(Byte) /\ w \in Seq(Byte) /\ Len(w) = n /\ \A i \in 1..n : v[i] = w[i]
  BY <1>1 DEF Spliced
<1>. QED  BY <1>1, <1>2

LEMMA SplicedText ==
  ASSUME NEW t \in Seq(Byte), NEW src \in Seq(Byte), NEW pos \in Nat, NEW m \in Nat,
         pos + m <= Len(t)
  PROVE  Spliced(SubSeq(t, 1, pos) \o src \o SubSeq(t, pos + m + 1, Len(t)), t, pos, m, src)
<1>1. PICK n \in Nat, k \in Nat : n = Len(t) /\ k = Len(src)
  OBVIOUS
<1>2. PICK head, tail : head = SubSeq(t, 1, pos) /\ tail = SubSeq(t, pos + m + 1, n)
  OBVIOUS
<1>3. head \in Seq(Byte) /\ Len(head) = pos /\ \A j \in 1..pos : head[j] = t[j]
  <2>1. /\ SubSeq(t, 1, pos) \in Seq(Byte) /\ Len(SubSeq(t, 1, pos)) = pos - 1 + 1
        /\ \A j \in 1..(pos - 1 + 1) : SubSeq(t, 1, pos)[j] = t[j + 1 - 1]
    <3>1. 1 \in Nat /\ 1 <= pos + 1 /\ pos <= Len(t)
      BY <1>1
    <3>. QED  BY <3>1, PartFacts
  <2>. QED  BY <1>2, <2>1
<1>4. /\ tail \in Seq(Byte) /\ Len(tail) = n - (pos + m)
      /\ \A j \in 1..(n - (pos + m)) : tail[j] = t[j + (pos + m)]
  <2>1. pos + m \in 0..Len(t)
    OBVIOUS
  <2>. QED  BY <1>1, <1>2, <2>1, DropFacts
<1>5. PICK front : front = head \o src
  OBVIOUS
<1>6. /\ front \in Seq(Byte) /\ Len(front) = pos + k
      /\ \A j \in 1..(pos + k) : front[j] = IF j <= pos THEN head[j] ELSE src[j - pos]
  <2>1. Joined(front, head, src)
    BY <1>3, <1>5, JoinedFacts
  <2>. QED  BY <1>1, <1>3, <2>1 DEF Joined
<1>7. PICK l \in Nat : l = pos + k + (n - (pos + m))
  <2>1. n - (pos + m) \in Nat
    BY <1>1
  <2>. QED  BY <2>1
<1>13. PICK w : w = front \o tail
  OBVIOUS
<1>8. /\ w \in Seq(Byte) /\ Len(w) = l
      /\ \A j \in 1..l : w[j] = IF j <= pos + k THEN front[j] ELSE tail[j - (pos + k)]
  <2>1. Joined(w, front, tail)
    BY <1>4, <1>6, <1>13, JoinedFacts
  <2>. QED  BY <1>4, <1>6, <1>7, <2>1 DEF Joined
<1>9. ASSUME NEW i \in 1..l
      PROVE  w[i] = IF i <= pos THEN t[i] ELSE IF i <= pos + k THEN src[i - pos] ELSE t[i - k + m]
  <2>1. CASE i <= pos
    BY <1>3, <1>6, <1>8, <2>1
  <2>2. CASE i > pos /\ i <= pos + k
    BY <1>6, <1>8, <2>2
  <2>3. CASE i > pos + k
    <3>1. w[i] = tail[i - (pos + k)] /\ i - (pos + k) \in 1..(n - (pos + m))
      BY <1>1, <1>7, <1>8, <2>3
    <3>2. tail[i - (pos + k)] = t[i - (pos + k) + (pos + m)]
      BY <1>4, <3>1
    <3>3. i - (pos + k) + (pos + m) = i - k + m
      OBVIOUS
    <3>. QED  BY <2>3, <3>1, <3>2, <3>3
  <2>. QED  BY <2>1, <2>2, <2>3
<1>10. w = SubSeq(t, 1, pos) \o src \o SubSeq(t, pos + m + 1, Len(t))
  BY <1>1, <1>2, <1>5, <1>13
<1>11. l = n - m + k
  BY <1>7
<1>12. Spliced(w, t, pos, m, src)
  BY <1>1, <1>8, <1>9, <1>11 DEF Spliced
<1>. QED  BY <1>10, <1>12

(* Nothing goes in, bytes go in at the end, or at the start. *)
LEMMA SplicedPlain ==
  ASSUME NEW t \in Seq(Byte), NEW src \in Seq(Byte)
  PROVE  /\ \A pos \in 0..Len(t) : Spliced(t, t, pos, 0, <<>>)
         /\ Spliced(t \o src, t, Len(t), 0, src)
         /\ Spliced(src \o t, t, 0, 0, src)
<1>1. PICK n \in Nat, k \in Nat : n = Len(t) /\ k = Len(src)
  OBVIOUS
<1>2. ASSUME NEW pos \in 0..n PROVE Spliced(t, t, pos, 0, <<>>)
  <2>1. PICK e : e = <<>>
    OBVIOUS
  <2>2. Len(e) = 0
    BY <2>1
  <2>3. \A i \in 1..n : t[i] = IF i <= pos THEN t[i] ELSE IF i <= pos + 0 THEN e[i - pos] ELSE t[i - 0 + 0]
    OBVIOUS
  <2>4. Spliced(t, t, pos, 0, e)
    BY <1>1, <2>2, <2>3 DEF Spliced
  <2>. QED  BY <2>1, <2>4
<1>3. Spliced(t \o src, t, Len(t), 0, src)
  <2>1. PICK w : w = t \o src
    OBVIOUS
  <2>2. /\ w \in Seq(Byte) /\ Len(w) = n + k
        /\ \A j \in 1..(n + k) : w[j] = IF j <= n THEN t[j] ELSE src[j - n]
    BY <1>1, <2>1, ConcatFacts
  <2>3. Spliced(w, t, n, 0, src)
    BY <1>1, <2>2 DEF Spliced
  <2>. QED  BY <1>1, <2>1, <2>3
<1>4. Spliced(src \o t, t, 0, 0, src)
  <2>1. PICK w : w = src \o t
    OBVIOUS
  <2>2. /\ w \in Seq(Byte) /\ Len(w) = k + n
        /\ \A j \in 1..(k + n) : w[j] = IF j <= k THEN src[j] ELSE t[j - k]
    BY <1>1, <2>1, ConcatFacts
  <2>3. ASSUME NEW i \in 1..(k + n)
        PROVE  w[i] = IF i <= 0 THEN t[i] ELSE IF i <= 0 + k THEN src[i - 0] ELSE t[i - k + 0]
    BY <2>2
  <2>4. Spliced(w, t, 0, 0, src)
    BY <1>1, <2>2, <2>3 DEF Spliced
  <2>. QED  BY <2>1, <2>4
<1>. QED  BY <1>1, <1>2, <1>3, <1>4

(* The bytes behind move, and src is copied into the gap. *)
LEMMA SpliceHolds ==
  ASSUME NEW r, NEW t, Holds(r, t), NEW src \in Seq(Byte), NEW pos \in Nat, NEW m \in Nat,
         pos + m <= r.len, r.len - m + Len(src) < Len(r.buf),
         NEW to, to = pos + Len(src), NEW from, from = pos + m,
         NEW n, n = r.len - pos - m, NEW len, len = r.len - m + Len(src),
         NEW w, Spliced(w, t, pos, m, src)
  PROVE  Holds(Terminated(memcpy(memmove(r.buf, to, from, n), pos, src), len), w)
<1>1. PICK b \in Seq(Byte), l \in Nat, z \in Nat, k \in Nat : b = r.buf /\ l = r.len /\ z = Len(b) /\ k = Len(src)
  <2>1. r.buf \in Seq(Byte) /\ r.len \in Nat
    BY HoldsFacts
  <2>2. Len(r.buf) \in Nat /\ Len(src) \in Nat
    BY <2>1
  <2>. QED  BY ONLY <2>1, <2>2
<1>2. /\ b \in Seq(Byte) /\ t \in Seq(Byte) /\ Len(t) = l /\ l < z
      /\ \A i \in 1..l : b[i] = t[i]
  BY <1>1, HoldsFacts
<1>3. /\ to \in Nat /\ from \in Nat /\ n \in Nat /\ from + n <= z /\ len \in Nat /\ len < z
      /\ to = pos + k /\ from = pos + m /\ from + n = l /\ len = to + n
  <2>1. /\ pos + m <= l /\ l - m + k < z /\ l < z /\ to = pos + k /\ from = pos + m
        /\ n = l - pos - m /\ len = l - m + k
    BY <1>1, <1>2
  <2>. QED  BY ONLY <2>1, pos \in Nat, m \in Nat, k \in Nat, l \in Nat, z \in Nat
<1>4. PICK v : v = memmove(b, to, from, n)
  OBVIOUS
<1>5. /\ v \in Seq(Byte) /\ Len(v) = z
      /\ \A i \in 1..z : v[i] = IF to < i /\ i <= to + n THEN b[i - to + from] ELSE b[i]
  <2>1. from + n <= Len(b) /\ to \in Nat /\ from \in Nat /\ n \in Nat
    BY <1>1, <1>3
  <2>2. Moved(v, b, to, from, n)
    BY ONLY b \in Seq(Byte), <1>4, <2>1, MemmoveFacts
  <2>. QED  BY <1>1, <2>2 DEF Moved
<1>6. PICK c : c = memcpy(v, pos, src)
  OBVIOUS
<1>7. Copied(c, v, pos, src)
  BY <1>5, <1>6, MemcpyFacts
<1>8. c \in Seq(Byte) /\ Len(c) = z
  BY <1>5, <1>7 DEF Copied
<1>9. w \in Seq(Byte) /\ Len(w) = len
  BY <1>1, <1>2, <1>3 DEF Spliced
<1>10. ASSUME NEW i \in 1..len PROVE c[i] = w[i]
  <2>1. i \in 1..z
    BY <1>3
  <2>2. c[i] = IF pos < i /\ i <= to THEN src[i - pos] ELSE v[i]
    BY <1>1, <1>3, <1>5, <1>7, <2>1 DEF Copied
  <2>3. w[i] = IF i <= pos THEN t[i] ELSE IF i <= to THEN src[i - pos] ELSE t[i - k + m]
    BY <1>1, <1>3, <1>9 DEF Spliced
  <2>4. v[i] = IF to < i /\ i <= to + n THEN b[i - to + from] ELSE b[i]
    BY <1>5, <2>1
  <2>5. CASE i <= pos
    <3>1. c[i] = b[i] /\ i \in 1..l
      BY <1>3, <2>2, <2>4, <2>5, SMTT(20)
    <3>. QED  BY <1>2, <2>3, <2>5, <3>1
  <2>6. CASE pos < i /\ i <= to
    BY <2>2, <2>3, <2>6
  <2>7. CASE to < i
    <3>1. ~(i <= to) /\ ~(i <= pos) /\ i <= to + n
      BY ONLY <1>3, <2>7, i \in 1..len, pos \in Nat, k \in Nat
    <3>2. c[i] = b[i - to + from] /\ w[i] = t[i - k + m]
      BY <2>2, <2>3, <2>4, <2>7, <3>1
    <3>3. i - to + from \in 1..l /\ i - to + from = i - k + m
      BY ONLY <1>3, <2>7, <3>1, i \in 1..len, pos \in Nat, m \in Nat, k \in Nat, l \in Nat
    <3>. QED  BY <1>2, <3>2, <3>3
  <2>. QED  BY <2>5, <2>6, <2>7
<1>11. Len(w) < Len(c)
  BY <1>3, <1>8, <1>9
<1>12. \A i \in 1..Len(w) : c[i] = w[i]
  BY <1>9, <1>10
<1>13. Holds(Terminated(c, Len(w)), w)
  BY ONLY <1>8, <1>9, <1>11, <1>12, TerminatedHolds
<1>. QED  BY <1>1, <1>4, <1>6, <1>9, <1>13

LEMMA AppendHolds ==
  ASSUME NEW s, NEW t, Holds(s, t), NEW src \in Seq(Byte)
  PROVE  Holds(string_appendn(s, src), t \o src)
<1>1. t \in Seq(Byte) /\ Len(src) \in Nat
  BY HoldsFacts
<1>2. CASE src = <<>>
  <2>1. string_appendn(s, src) = s
    BY <1>2 DEF string_appendn
  <2>2. t \o src = t
    BY <1>1, <1>2
  <2>. QED  BY <2>1, <2>2
<1>3. CASE src # <<>>
  <2>1. PICK r : r = RoomFor(s, Len(src))
    OBVIOUS
  <2>2. Holds(r, t) /\ r.len + Len(src) < Len(r.buf)
    BY <1>1, <2>1, RoomHolds
  <2>3. string_appendn(s, src) = Terminated(memcpy(r.buf, r.len, src), r.len + Len(src))
    BY <1>3, <2>1 DEF string_appendn
  <2>. QED  BY <2>2, <2>3, PutBehind
<1>. QED  BY <1>2, <1>3

LEMMA PushbackHolds ==
  ASSUME NEW s, NEW t, Holds(s, t), NEW c \in Byte
  PROVE  Holds(string_pushback(s, c), Append(t, c))
<1>1. /\ t \in Seq(Byte) /\ s.len \in Nat /\ Len(s.buf) \in Nat
      /\ s.len < Len(s.buf) /\ Cap(s) = Len(s.buf) - 1
  BY HoldsFacts
<1>2. PICK cap : cap = IF Cap(s) = 0 THEN InitialCapacity ELSE Cap(s) * GrowthFactor
  OBVIOUS
<1>3. cap \in Nat /\ (s.len = Cap(s) => s.len < cap)
  <2>1. PICK z \in Nat : z = Cap(s)
    <3>1. Cap(s) \in Nat
      BY <1>1
    <3>. QED  BY <3>1
  <2>2. cap = IF z = 0 THEN InitialCapacity ELSE z * 2
    BY <1>2, <2>1 DEF GrowthFactor
  <2>3. cap \in Nat /\ z < cap
    BY <2>2, CapacityIsPositive
  <2>. QED  BY <2>1, <2>3
<1>4. PICK r : r = IF s.len = Cap(s) THEN string_reserve(s, cap) ELSE s
  OBVIOUS
<1>5. Holds(r, t) /\ r.len = s.len /\ r.len + 1 < Len(r.buf)
  <2>1. CASE s.len = Cap(s)
    <3>1. /\ Holds(string_reserve(s, cap), t)
          /\ cap < Len(string_reserve(s, cap).buf) /\ string_reserve(s, cap).len = s.len
      BY <1>3, ReserveHolds
    <3>2. r = string_reserve(s, cap)
      BY <1>4, <2>1
    <3>3. Len(r.buf) \in Nat
      BY <3>1, <3>2, HoldsFacts
    <3>. QED  BY <1>1, <1>3, <2>1, <3>1, <3>2, <3>3
  <2>2. CASE s.len # Cap(s)
    BY <1>1, <1>4, <2>2
  <2>. QED  BY <2>1, <2>2
<1>6. PICK one : one = <<c>>
  OBVIOUS
<1>7. one \in Seq(Byte) /\ Len(one) = 1
  BY <1>6
<1>8. Holds(Terminated(memcpy(r.buf, r.len, one), r.len + Len(one)), t \o one)
  BY ONLY <1>5, <1>7, PutBehind
<1>9. string_pushback(s, c) = Terminated(memcpy(r.buf, r.len, one), r.len + 1)
  BY <1>2, <1>4, <1>6 DEF string_pushback
<1>10. Append(t, c) = t \o one
  BY <1>1, <1>6
<1>. QED  BY <1>7, <1>8, <1>9, <1>10

LEMMA PrependHolds ==
  ASSUME NEW s, NEW t, Holds(s, t), NEW src \in Seq(Byte)
  PROVE  Holds(string_prependn(s, src), src \o t)
<1>1. PICK k \in Nat : k = Len(src)
  OBVIOUS
<1>2. t \in Seq(Byte)
  BY HoldsFacts
<1>3. CASE k = 0
  <2>1. string_prependn(s, src) = s
    BY <1>1, <1>3 DEF string_prependn
  <2>2. src = <<>>
    BY <1>1, <1>3, EmptySeq
  <2>3. src \o t = t
    BY <1>2, <2>2
  <2>. QED  BY <2>1, <2>3
<1>4. CASE k # 0
  <2>1. PICK r : r = RoomFor(s, k)
    OBVIOUS
  <2>2. Holds(r, t) /\ s.len + k < Len(r.buf) /\ r.len = s.len
    BY <2>1, RoomHolds
  <2>3. string_prependn(s, src) = Terminated(memcpy(memmove(r.buf, k, 0, r.len), 0, src), r.len + k)
    BY <1>1, <1>4, <2>1 DEF string_prependn
  <2>4. Spliced(src \o t, t, 0, 0, src)
    BY <1>2, SplicedPlain
  <2>5. r.len \in Nat
    BY <2>2, HoldsFacts
  <2>6. /\ 0 + 0 <= r.len /\ r.len - 0 + Len(src) < Len(r.buf)
        /\ k = 0 + Len(src) /\ 0 = 0 + 0 /\ r.len = r.len - 0 - 0
        /\ r.len + k = r.len - 0 + Len(src)
    BY <1>1, <2>2, <2>5
  <2>7. Holds(Terminated(memcpy(memmove(r.buf, k, 0, r.len), 0, src), r.len + k), src \o t)
    BY <2>2, <2>4, <2>6, SpliceHolds
  <2>. QED  BY <2>3, <2>7
<1>. QED  BY <1>3, <1>4

LEMMA InsertHolds ==
  ASSUME NEW s, NEW t, Holds(s, t), NEW pos \in Nat, NEW src \in Seq(Byte), NEW at,
         at = Smaller(pos, Len(t))
  PROVE  Holds(string_insert(s, pos, src), SubSeq(t, 1, at) \o src \o SubSeq(t, at + 1, Len(t)))
<1>1. PICK k \in Nat : k = Len(src)
  OBVIOUS
<1>2. t \in Seq(Byte) /\ s.len = Len(t) /\ s.len \in Nat
  BY HoldsFacts
<1>3. at \in Nat /\ at <= s.len /\ (pos >= s.len => at = s.len) /\ (pos < s.len => at = pos)
  BY <1>2 DEF Smaller
<1>4. PICK w : w = SubSeq(t, 1, at) \o src \o SubSeq(t, at + 1, Len(t))
  OBVIOUS
<1>5. Spliced(w, t, at, 0, src)
  <2>1. at + 0 <= Len(t) /\ 0 \in Nat
    BY <1>2, <1>3
  <2>2. Spliced(SubSeq(t, 1, at) \o src \o SubSeq(t, at + 0 + 1, Len(t)), t, at, 0, src)
    BY <1>2, <1>3, <2>1, SplicedText
  <2>3. at + 0 + 1 = at + 1
    BY <1>3
  <2>. QED  BY <1>4, <2>2, <2>3
<1>6. CASE k = 0
  <2>1. string_insert(s, pos, src) = s
    BY <1>1, <1>6 DEF string_insert
  <2>2. src = <<>>
    BY <1>1, <1>6, EmptySeq
  <2>3. Spliced(t, t, at, 0, src)
    BY <1>2, <1>3, <2>2, SplicedPlain
  <2>4. w = t
    BY <1>5, <2>3, SplicedOnce
  <2>. QED  BY <1>4, <2>1, <2>4
<1>7. CASE k # 0 /\ pos >= s.len
  <2>1. string_insert(s, pos, src) = string_appendn(s, src)
    BY <1>1, <1>7 DEF string_insert
  <2>2. Spliced(t \o src, t, at, 0, src)
    BY <1>2, <1>3, <1>7, SplicedPlain
  <2>3. w = t \o src
    BY <1>5, <2>2, SplicedOnce
  <2>. QED  BY <1>4, <2>1, <2>3, AppendHolds
<1>8. CASE k # 0 /\ pos < s.len /\ pos = 0
  <2>1. string_insert(s, pos, src) = string_prependn(s, src)
    BY <1>1, <1>2, <1>8 DEF string_insert
  <2>2. Spliced(src \o t, t, at, 0, src)
    BY <1>2, <1>3, <1>8, SplicedPlain
  <2>3. w = src \o t
    BY <1>5, <2>2, SplicedOnce
  <2>. QED  BY <1>4, <2>1, <2>3, PrependHolds
<1>9. CASE k # 0 /\ pos < s.len /\ pos # 0
  <2>1. PICK r : r = RoomFor(s, k)
    OBVIOUS
  <2>2. Holds(r, t) /\ s.len + k < Len(r.buf) /\ r.len = s.len
    BY <2>1, RoomHolds
  <2>3. string_insert(s, pos, src) =
          Terminated(memcpy(memmove(r.buf, pos + k, pos, r.len - pos), pos, src), r.len + k)
    BY <1>1, <1>2, <1>9, <2>1 DEF string_insert
  <2>4. Spliced(w, t, pos, 0, src)
    BY <1>3, <1>5, <1>9
  <2>5. r.len \in Nat
    BY <2>2, HoldsFacts
  <2>6. /\ pos + 0 <= r.len /\ r.len - 0 + Len(src) < Len(r.buf)
        /\ pos + k = pos + Len(src) /\ pos = pos + 0 /\ r.len - pos = r.len - pos - 0
        /\ r.len + k = r.len - 0 + Len(src)
    BY <1>1, <1>9, <2>2, <2>5
  <2>7. Holds(Terminated(memcpy(memmove(r.buf, pos + k, pos, r.len - pos), pos, src), r.len + k), w)
    BY <2>2, <2>4, <2>6, SpliceHolds
  <2>. QED  BY <1>4, <2>3, <2>7
<1>. QED  BY <1>2, <1>6, <1>7, <1>8, <1>9

LEMMA EraseHolds ==
  ASSUME NEW s, NEW t, Holds(s, t), NEW pos \in 0..s.len, NEW m \in Nat,
         pos + m < SizeLimit
  PROVE  Holds(string_erase(s, pos, m), SubSeq(t, 1, pos) \o SubSeq(t, pos + m + 1, Len(t)))
<1>1. PICK b \in Seq(Byte), l \in Nat, z \in Nat : b = s.buf /\ l = s.len /\ z = Len(b)
  BY HoldsFacts
<1>2. /\ b \in Seq(Byte) /\ t \in Seq(Byte) /\ Len(t) = l /\ l < z
      /\ \A i \in 1..l : b[i] = t[i]
  BY <1>1, HoldsFacts
<1>3. PICK n : n = Smaller(pos + m, l) - pos
  OBVIOUS
<1>4. n \in Nat /\ pos + n <= l /\ pos \in Nat /\ (n = m \/ (pos + n = l /\ l < pos + m))
  BY <1>1, <1>3 DEF Smaller
<1>5. PICK e : e = <<>>
  OBVIOUS
<1>6. e \in Seq(Byte) /\ Len(e) = 0
  BY <1>5
<1>7. PICK w : w = SubSeq(t, 1, pos) \o e \o SubSeq(t, pos + n + 1, Len(t))
  OBVIOUS
<1>8. Spliced(w, t, pos, n, e)
  BY <1>2, <1>4, <1>6, <1>7, SplicedText
<1>9. w = SubSeq(t, 1, pos) \o SubSeq(t, pos + m + 1, Len(t))
  <2>1. PICK head : head = SubSeq(t, 1, pos)
    OBVIOUS
  <2>2. head \in Seq(Byte)
    BY <1>2, <1>4, <2>1
  <2>3. head \o e = head
    BY <1>5, <2>2
  <2>4. SubSeq(t, pos + n + 1, Len(t)) = SubSeq(t, pos + m + 1, Len(t))
    <3>1. CASE n = m
      BY <3>1
    <3>2. CASE pos + n = l /\ l < pos + m
      <4>1. Len(t) < pos + n + 1 /\ Len(t) < pos + m + 1 /\ pos + n + 1 \in Int /\ pos + m + 1 \in Int
        BY <1>2, <1>4, <3>2
      <4>2. \A i, j \in Int : j < i => SubSeq(t, i, j) = <<>>
        BY <1>2
      <4>3. Len(t) \in Int
        BY <1>2
      <4>. QED  BY <4>1, <4>2, <4>3
    <3>. QED  BY <1>4, <3>1, <3>2
  <2>. QED  BY <1>7, <2>1, <2>3, <2>4
<1>10. PICK c : c = memmove(b, pos, pos + n, l - pos - n)
  OBVIOUS
<1>11. PICK k \in Nat : k = l - pos - n
  BY <1>4
<1>12. /\ c \in Seq(Byte) /\ Len(c) = z
       /\ \A i \in 1..z : c[i] = IF pos < i /\ i <= pos + k THEN b[i - pos + (pos + n)] ELSE b[i]
  <2>1. pos + n \in Nat /\ pos + n + k <= Len(b)
    <3>1. pos + n + k = l /\ l < z /\ z = Len(b)
      BY <1>1, <1>2, <1>4, <1>11
    <3>. QED  BY <1>4, <3>1
  <2>2. c = memmove(b, pos, pos + n, k)
    BY <1>10, <1>11
  <2>3. Moved(c, b, pos, pos + n, k)
    BY <1>4, <2>1, <2>2, MemmoveFacts
  <2>. QED  BY <1>1, <2>3 DEF Moved
<1>13. w \in Seq(Byte) /\ Len(w) = l - n
  BY <1>2, <1>6, <1>8, <1>4 DEF Spliced
<1>14. ASSUME NEW i \in 1..(l - n) PROVE c[i] = w[i]
  <2>1. w[i] = IF i <= pos THEN t[i] ELSE IF i <= pos + 0 THEN e[i - pos] ELSE t[i - 0 + n]
    BY <1>6, <1>8, <1>13 DEF Spliced
  <2>2. i \in 1..z /\ pos + k = l - n
    BY <1>2, <1>4, <1>11
  <2>3. c[i] = IF pos < i /\ i <= pos + k THEN b[i - pos + (pos + n)] ELSE b[i]
    BY <1>12, <2>2
  <2>4. CASE i <= pos
    <3>1. i \in 1..l
      BY <1>4
    <3>. QED  BY <1>2, <2>1, <2>3, <2>4, <3>1
  <2>5. CASE pos < i
    <3>1. c[i] = b[i - pos + (pos + n)] /\ i - pos + (pos + n) = i + n /\ i + n \in 1..l
      BY <1>4, <1>11, <2>2, <2>3, <2>5
    <3>2. w[i] = t[i - 0 + n] /\ i - 0 + n = i + n
      BY <1>4, <2>1, <2>5
    <3>. QED  BY <1>2, <3>1, <3>2
  <2>. QED  BY <1>4, <2>4, <2>5
<1>15. Len(w) < Len(c) /\ \A i \in 1..Len(w) : c[i] = w[i]
  BY <1>2, <1>4, <1>12, <1>13, <1>14
<1>16. Holds(Terminated(c, Len(w)), w)
  BY ONLY <1>12, <1>13, <1>15, TerminatedHolds
<1>17. string_erase(s, pos, m) = Terminated(c, l - n)
  <2>1. PICK end : end = Smaller(SizeSum(pos, m), s.len)
    OBVIOUS
  <2>2. end = pos + n
    BY <1>1, <1>3, <1>4, <2>1 DEF SizeSum, Smaller
  <2>3. string_erase(s, pos, m) = Terminated(memmove(b, pos, end, l - end), l - (end - pos))
    BY ONLY <1>1, <2>1 DEF string_erase
  <2>4. l - end = l - pos - n /\ l - (end - pos) = l - n
    BY <1>4, <2>2
  <2>. QED  BY ONLY <1>10, <2>2, <2>3, <2>4
<1>. QED  BY <1>9, <1>13, <1>16, <1>17

(* A match lies in the text: the NUL behind it is in no pattern. *)
LEMMA StrstrFacts ==
  ASSUME NEW s, NEW t, Holds(s, t), NEW off \in 0..s.len,
         NEW pattern \in Seq(Byte \ {NUL}), pattern # <<>>
  PROVE  LET at == strstr(s.buf, off, pattern) IN
         at # NotFound => at \in Nat /\ off <= at /\ at + Len(pattern) <= s.len
<1>1. PICK b \in Seq(Byte), l \in Nat, z \in Nat, k \in Nat : b = s.buf /\ l = s.len /\ z = Len(b) /\ k = Len(pattern)
  BY HoldsFacts
<1>2. b \in Seq(Byte) /\ l < z /\ b[l + 1] = NUL
  BY <1>1, HoldsFacts
<1>3. k > 0 /\ \A j \in 1..k : pattern[j] # NUL
  BY <1>1
<1>. DEFINE found == {i \in off..(z - k) :
                        SubSeq(b, i + 1, i + k) = pattern /\ \A j \in (off + 1)..i : b[j] # NUL}
<1>4. ASSUME NEW i \in found PROVE i \in Nat /\ off <= i /\ i + k <= l
  <2>1. i \in Nat /\ off <= i /\ i + k <= z
    BY <1>1, <1>2
  <2>2. SubSeq(b, i + 1, i + k) = pattern /\ \A j \in (off + 1)..i : b[j] # NUL
    OBVIOUS
  <2>3. i <= l
    <3>1. ASSUME i > l PROVE FALSE
      <4>1. l + 1 \in (off + 1)..i
        BY <1>1, <2>1, <3>1
      <4>. QED  BY <1>2, <2>2, <4>1
    <3>. QED  BY <2>1, <3>1
  <2>4. \A j \in 1..k : pattern[j] = b[j + i]
    <3>1. i + k <= Len(b)
      BY <1>1, <2>1
    <3>2. \A j \in 1..k : SubSeq(b, i + 1, i + k)[j] = b[j + i]
      BY <2>1, <3>1, MidFacts
    <3>. QED  BY <2>2, <3>2
  <2>5. ASSUME i + k > l PROVE FALSE
    <3>1. l + 1 - i \in 1..k /\ l + 1 - i + i = l + 1
      BY <1>3, <2>1, <2>3, <2>5
    <3>. QED  BY <1>2, <1>3, <2>4, <3>1
  <2>. QED  BY <2>1, <2>5
<1>5. strstr(s.buf, off, pattern) =
        IF found = {} THEN NotFound ELSE CHOOSE i \in found : \A j \in found : i <= j
  BY <1>1 DEF strstr
<1>. HIDE DEF found
<1>6. CASE found = {}
  BY <1>5, <1>6
<1>7. CASE found # {}
  <2>1. found \subseteq Nat
    BY <1>4
  <2>2. \E i \in found : \A j \in found : i <= j
    BY <1>7, <2>1, LeastNat
  <2>3. strstr(s.buf, off, pattern) \in found
    BY <1>5, <1>7, <2>2
  <2>. QED  BY <1>1, <1>4, <2>3
<1>. QED  BY <1>6, <1>7

LEMMA ExchangeHolds ==
  ASSUME NEW s, NEW t, Holds(s, t), NEW off \in Nat,
         NEW pattern \in Seq(Byte), NEW replacement \in Seq(Byte), off + Len(pattern) <= s.len
  PROVE  /\ Holds(Exchange(s, off, pattern, replacement), Replaced(t, off, pattern, replacement))
         /\ off + Len(replacement) <= Exchange(s, off, pattern, replacement).len
<1>1. PICK l \in Nat, m \in Nat, k \in Nat : l = s.len /\ m = Len(pattern) /\ k = Len(replacement)
  BY HoldsFacts
<1>2. t \in Seq(Byte) /\ Len(t) = l
  BY <1>1, HoldsFacts
<1>3. PICK grown \in Int : grown = k - m
  OBVIOUS
<1>4. PICK r : r = IF grown > 0 THEN string_reserve(s, l + grown) ELSE s
  OBVIOUS
<1>5. Holds(r, t) /\ r.len = l /\ l + grown < Len(r.buf)
  <2>1. CASE grown > 0
    <3>1. l + grown \in Nat
      BY <2>1
    <3>. QED  BY <1>1, <1>4, <2>1, <3>1, ReserveHolds
  <2>2. CASE ~(grown > 0)
    <3>1. r = s
      BY <1>4, <2>2
    <3>2. l < Len(s.buf) /\ Len(s.buf) \in Nat
      BY <1>1, HoldsFacts
    <3>. QED  BY <1>1, <2>2, <3>1, <3>2
  <2>. QED  BY <2>1, <2>2
<1>6. PICK w : w = Replaced(t, off, pattern, replacement)
  OBVIOUS
<1>7. Spliced(w, t, off, m, replacement)
  <2>1. off # NotFound
    BY DEF NotFound
  <2>2. w = SubSeq(t, 1, off) \o replacement \o SubSeq(t, off + m + 1, Len(t))
    BY <1>1, <1>6, <2>1 DEF Replaced
  <2>. QED  BY <1>1, <1>2, <2>2, SplicedText
<1>8. PICK x : x = Exchange(s, off, pattern, replacement)
  OBVIOUS
<1>9. x = Terminated(memcpy(memmove(r.buf, off + k, off + m, l - off - m), off, replacement), l + grown)
  BY <1>1, <1>3, <1>4, <1>5, <1>8 DEF Exchange
<1>10. /\ off + m <= r.len /\ r.len - m + Len(replacement) < Len(r.buf)
       /\ off + k = off + Len(replacement) /\ off + m = off + m
       /\ l - off - m = r.len - off - m /\ l + grown = r.len - m + Len(replacement)
  <2>1. r.len - m + Len(replacement) = l + grown
    BY <1>1, <1>3, <1>5
  <2>2. r.len - m + Len(replacement) < Len(r.buf)
    BY <1>5, <2>1
  <2>. QED  BY <1>1, <1>5, <2>1, <2>2
<1>11. Holds(x, w)
  BY <1>5, <1>7, <1>9, <1>10, SpliceHolds
<1>12. x.len = l + grown
  BY <1>9 DEF Terminated
<1>. QED  BY <1>1, <1>3, <1>6, <1>8, <1>11, <1>12

LEMMA ReplaceHolds ==
  ASSUME NEW s, NEW t, Holds(s, t),
         NEW pattern \in Seq(Byte \ {NUL}), pattern # <<>>, NEW replacement \in Seq(Byte)
  PROVE  Holds(string_replace(s, pattern, replacement),
               Replaced(t, string_find(s, pattern), pattern, replacement))
<1>1. PICK off : off = string_find(s, pattern)
  OBVIOUS
<1>2. off = strstr(s.buf, 0, pattern) /\ pattern \in Seq(Byte)
  BY <1>1 DEF string_find
<1>3. CASE off = NotFound
  BY <1>1, <1>3 DEF string_replace, Replaced
<1>4. CASE off # NotFound
  <2>1. 0 \in 0..s.len
    BY HoldsFacts
  <2>2. off \in Nat /\ off + Len(pattern) <= s.len
    BY <1>2, <1>4, <2>1, StrstrFacts
  <2>3. Holds(Exchange(s, off, pattern, replacement), Replaced(t, off, pattern, replacement))
    BY <1>2, <2>2, ExchangeHolds
  <2>. QED  BY <1>1, <1>4, <2>3 DEF string_replace
<1>. QED  BY <1>3, <1>4

(* Cutting the text, or the room behind it. *)
LEMMA CutHolds ==
  ASSUME NEW s, NEW t, Holds(s, t), NEW n \in 0..s.len
  PROVE  Holds(Terminated(s.buf, n), SubSeq(t, 1, n))
<1>1. PICK b \in Seq(Byte), l \in Nat : b = s.buf /\ l = s.len
  BY HoldsFacts
<1>2. /\ b \in Seq(Byte) /\ t \in Seq(Byte) /\ Len(t) = l /\ l < Len(b)
      /\ \A i \in 1..l : b[i] = t[i]
  BY <1>1, HoldsFacts
<1>3. PICK w : w = SubSeq(t, 1, n)
  OBVIOUS
<1>4. w \in Seq(Byte) /\ Len(w) = n /\ \A i \in 1..n : w[i] = t[i]
  BY <1>1, <1>2, <1>3
<1>5. Len(w) < Len(b) /\ \A i \in 1..Len(w) : b[i] = w[i]
  BY <1>1, <1>2, <1>4
<1>6. Holds(Terminated(b, Len(w)), w)
  BY ONLY <1>2, <1>4, <1>5, TerminatedHolds
<1>. QED  BY <1>1, <1>3, <1>4, <1>6

LEMMA ShrinkHolds ==
  ASSUME NEW s, NEW t, Holds(s, t)
  PROVE  Holds(string_shrink(s), t)
<1>1. PICK b \in Seq(Byte), l \in Nat : b = s.buf /\ l = s.len
  BY HoldsFacts
<1>2. /\ b \in Seq(Byte) /\ t \in Seq(Byte) /\ Len(t) = l /\ l < Len(b)
      /\ \A i \in 1..l : b[i] = t[i]
  BY <1>1, HoldsFacts
<1>3. PICK c : c = SubSeq(b, 1, l + 1)
  OBVIOUS
<1>4. c \in Seq(Byte) /\ Len(c) = l + 1 /\ \A i \in 1..(l + 1) : c[i] = b[i]
  BY <1>2, <1>3
<1>5. Len(t) < Len(c) /\ \A i \in 1..Len(t) : c[i] = t[i]
  BY <1>2, <1>4
<1>6. Holds(Terminated(c, Len(t)), t)
  BY ONLY <1>2, <1>4, <1>5, TerminatedHolds
<1>. QED  BY <1>1, <1>2, <1>3, <1>6 DEF string_shrink

LEMMA AssignHolds ==
  ASSUME NEW s, NEW t, Holds(s, t), NEW src \in Seq(Byte)
  PROVE  Holds(string_assignn(s, src), src)
<1>1. PICK n \in Nat, z \in Nat : n = Len(src) /\ z = Len(s.buf)
  BY HoldsFacts
<1>2. s.buf \in Seq(Byte) /\ Cap(s) = z - 1
  BY <1>1, HoldsFacts
<1>3. PICK b : b = IF n <= Cap(s) THEN s.buf ELSE Realloc(s, n)
  OBVIOUS
<1>4. b \in Seq(Byte) /\ n < Len(b)
  <2>1. CASE n <= Cap(s)
    BY <1>1, <1>2, <1>3, <2>1
  <2>2. CASE ~(n <= Cap(s))
    <3>1. b = Realloc(s, n)
      BY <1>3, <2>2
    <3>. QED  BY <3>1, ReallocFacts
  <2>. QED  BY <2>1, <2>2
<1>5. PICK c : c = memcpy(b, 0, src)
  OBVIOUS
<1>6. Copied(c, b, 0, src)
  BY <1>4, <1>5, MemcpyFacts
<1>7. c \in Seq(Byte) /\ Len(src) < Len(c) /\ \A i \in 1..Len(src) : c[i] = src[i]
  <2>1. c \in Seq(Byte) /\ Len(c) = Len(b) /\ Len(b) \in Nat
    BY <1>4, <1>6 DEF Copied
  <2>2. ASSUME NEW i \in 1..n PROVE c[i] = src[i]
    <3>1. c[i] = IF 0 < i /\ i <= 0 + n THEN src[i - 0] ELSE b[i]
      BY <1>1, <1>4, <1>6, <2>1 DEF Copied
    <3>. QED  BY <3>1
  <2>. QED  BY <1>1, <1>4, <2>1, <2>2
<1>8. Holds(Terminated(c, Len(src)), src)
  BY ONLY <1>7, src \in Seq(Byte), TerminatedHolds
<1>. QED  BY <1>1, <1>3, <1>5, <1>8 DEF string_assignn

LEMMA InitHolds ==
  ASSUME NEW src \in Seq(Byte)
  PROVE  Holds(string_init_bufn(src), src)
<1>1. PICK n \in Nat : n = Len(src)
  OBVIOUS
<1>2. PICK b : b = src \o <<Junk>>
  OBVIOUS
<1>3. b \in Seq(Byte) /\ Len(b) = n + 1 /\ \A i \in 1..n : b[i] = src[i]
  <2>1. Junk \in Byte
    BY DEF Junk, Byte
  <2>. QED  BY <1>1, <1>2, <2>1, SnocFacts
<1>4. Len(src) < Len(b) /\ \A i \in 1..Len(src) : b[i] = src[i]
  BY <1>1, <1>3
<1>5. Holds(Terminated(b, Len(src)), src)
  BY ONLY <1>3, <1>4, src \in Seq(Byte), TerminatedHolds
<1>. QED  BY <1>2, <1>5 DEF string_init_bufn

(* Every byte of the text becomes another. *)
LEMMA ChangedHolds ==
  ASSUME NEW s, NEW t, Holds(s, t), NEW w \in Seq(Byte), Len(w) = s.len, NEW c,
         c = [i \in 1..Len(s.buf) |-> IF i <= s.len THEN w[i] ELSE s.buf[i]]
  PROVE  Holds([s EXCEPT !.buf = c], w)
<1>1. PICK b \in Seq(Byte), l \in Nat, z \in Nat : b = s.buf /\ l = s.len /\ z = Len(b)
  BY HoldsFacts
<1>2. b \in Seq(Byte) /\ l < z /\ b[l + 1] = NUL /\ s \in [buf : Seq(Byte), len : Nat]
  BY <1>1, HoldsFacts DEF Holds
<1>. DEFINE f(i) == IF i <= l THEN w[i] ELSE b[i]
<1>3. c = [i \in 1..z |-> f(i)]
  BY <1>1
<1>4. ASSUME NEW i \in 1..z PROVE f(i) \in Byte
  BY <1>1, <1>2
<1>5. f(l + 1) = NUL /\ \A i \in 1..l : f(i) = w[i]
  BY <1>1, <1>2
<1>. HIDE DEF f
<1>6. c \in Seq(Byte) /\ Len(c) = z /\ \A i \in 1..z : c[i] = f(i)
  BY <1>3, <1>4
<1>7. PICK x : x = [s EXCEPT !.buf = c]
  OBVIOUS
<1>8. x \in [buf : Seq(Byte), len : Nat] /\ x.buf = c /\ x.len = l
  BY <1>1, <1>2, <1>6, <1>7
<1>9. x.buf[x.len + 1] = NUL /\ \A i \in 1..Len(w) : x.buf[i] = w[i]
  BY <1>1, <1>2, <1>5, <1>6, <1>8
<1>10. Holds(x, w)
  BY <1>1, <1>2, <1>6, <1>8, <1>9 DEF Holds
<1>. QED  BY <1>7, <1>10

LEMMA CaseHolds ==
  ASSUME NEW s, NEW t, Holds(s, t)
  PROVE  /\ Holds(string_lowercase(s), [i \in DOMAIN t |-> tolower(t[i])])
         /\ Holds(string_uppercase(s), [i \in DOMAIN t |-> toupper(t[i])])
<1>1. PICK b \in Seq(Byte), l \in Nat, z \in Nat : b = s.buf /\ l = s.len /\ z = Len(b)
  BY HoldsFacts
<1>2. /\ b \in Seq(Byte) /\ t \in Seq(Byte) /\ DOMAIN t = 1..l /\ DOMAIN b = 1..z /\ l < z
      /\ \A i \in 1..l : b[i] = t[i] /\ t[i] \in Byte
  BY <1>1, HoldsFacts
<1>3. \A x \in Byte : tolower(x) \in Byte /\ toupper(x) \in Byte
  BY DEF tolower, toupper, Byte, Lower, Upper
<1>4. Holds(string_lowercase(s), [i \in DOMAIN t |-> tolower(t[i])])
  <2>1. PICK w : w = [i \in 1..l |-> tolower(t[i])]
    OBVIOUS
  <2>2. w \in Seq(Byte) /\ Len(w) = l /\ \A i \in 1..l : w[i] = tolower(t[i])
    BY <1>2, <1>3, <2>1
  <2>3. PICK c : c = [i \in 1..z |-> IF i <= l THEN tolower(b[i]) ELSE b[i]]
    OBVIOUS
  <2>4. string_lowercase(s) = [s EXCEPT !.buf = c]
    BY <1>1, <1>2, <2>3 DEF string_lowercase
  <2>5. c = [i \in 1..z |-> IF i <= l THEN w[i] ELSE b[i]]
    <3>1. \A i \in 1..z : (IF i <= l THEN tolower(b[i]) ELSE b[i]) = (IF i <= l THEN w[i] ELSE b[i])
      BY <1>2, <2>2
    <3>. QED  BY <2>3, <3>1
  <2>6. Holds([s EXCEPT !.buf = c], w)
    BY <1>1, <2>2, <2>5, ChangedHolds
  <2>. QED  BY <1>2, <2>1, <2>4, <2>6
<1>5. Holds(string_uppercase(s), [i \in DOMAIN t |-> toupper(t[i])])
  <2>1. PICK w : w = [i \in 1..l |-> toupper(t[i])]
    OBVIOUS
  <2>2. w \in Seq(Byte) /\ Len(w) = l /\ \A i \in 1..l : w[i] = toupper(t[i])
    BY <1>2, <1>3, <2>1
  <2>3. PICK c : c = [i \in 1..z |-> IF i <= l THEN toupper(b[i]) ELSE b[i]]
    OBVIOUS
  <2>4. string_uppercase(s) = [s EXCEPT !.buf = c]
    BY <1>1, <1>2, <2>3 DEF string_uppercase
  <2>5. c = [i \in 1..z |-> IF i <= l THEN w[i] ELSE b[i]]
    <3>1. \A i \in 1..z : (IF i <= l THEN toupper(b[i]) ELSE b[i]) = (IF i <= l THEN w[i] ELSE b[i])
      BY <1>2, <2>2
    <3>. QED  BY <2>3, <3>1
  <2>6. Holds([s EXCEPT !.buf = c], w)
    BY <1>1, <2>2, <2>5, ChangedHolds
  <2>. QED  BY <1>2, <2>1, <2>4, <2>6
<1>. QED  BY <1>4, <1>5

LEMMA ReverseFacts ==
  ASSUME NEW t \in Seq(Byte), NEW n \in Nat, n = Len(t)
  PROVE  /\ Reverse(t) \in Seq(Byte) /\ Len(Reverse(t)) = n
         /\ \A i \in 1..n : Reverse(t)[i] = t[n + 1 - i]
<1>1. ASSUME NEW i \in 1..n PROVE t[(n - i) + 1] \in Byte /\ (n - i) + 1 = n + 1 - i
  <2>1. (n - i) + 1 \in 1..n
    OBVIOUS
  <2>. QED  BY <2>1
<1>2. Reverse(t) = [i \in 1..n |-> t[(n - i) + 1]]
  BY DEF Reverse
<1>3. Reverse(t) \in Seq(Byte) /\ Len(Reverse(t)) = n
  BY <1>1, <1>2
<1>4. ASSUME NEW i \in 1..n PROVE Reverse(t)[i] = t[n + 1 - i]
  <2>1. Reverse(t)[i] = t[(n - i) + 1]
    BY <1>2
  <2>. QED  BY <1>1, <2>1
<1>. QED  BY <1>3, <1>4

LEMMA ReverseHolds ==
  ASSUME NEW s, NEW t, Holds(s, t)
  PROVE  Holds(string_reverse(s), Reverse(t))
<1>1. PICK b \in Seq(Byte), l \in Nat, z \in Nat : b = s.buf /\ l = s.len /\ z = Len(b)
  BY HoldsFacts
<1>2. /\ b \in Seq(Byte) /\ t \in Seq(Byte) /\ Len(t) = l /\ DOMAIN b = 1..z
      /\ \A i \in 1..l : b[i] = t[i]
  BY <1>1, HoldsFacts
<1>3. PICK w : w = Reverse(t)
  OBVIOUS
<1>4. w \in Seq(Byte) /\ Len(w) = l /\ \A i \in 1..l : w[i] = t[l + 1 - i]
  BY <1>2, <1>3, ReverseFacts
<1>5. PICK c : c = [i \in 1..z |-> IF i <= l THEN b[l + 1 - i] ELSE b[i]]
  OBVIOUS
<1>6. string_reverse(s) = [s EXCEPT !.buf = c]
  BY <1>1, <1>2, <1>5 DEF string_reverse
<1>7. \A i \in 1..z : (IF i <= l THEN b[l + 1 - i] ELSE b[i]) = (IF i <= l THEN w[i] ELSE b[i])
  <2>1. ASSUME NEW i \in 1..z, i <= l PROVE b[l + 1 - i] = w[i]
    <3>1. l + 1 - i \in 1..l /\ i \in 1..l
      BY <2>1
    <3>. QED  BY <1>2, <1>4, <3>1
  <2>. QED  BY <2>1
<1>8. c = [i \in 1..z |-> IF i <= l THEN w[i] ELSE b[i]]
  BY <1>5, <1>7
<1>9. Holds([s EXCEPT !.buf = c], w)
  BY <1>1, <1>4, <1>8, ChangedHolds
<1>. QED  BY <1>3, <1>6, <1>9

(* n spaces come first in t, and no more. *)
Leads(t, n) ==
  /\ n \in 0..Len(t) /\ \A j \in 1..n : t[j] = Space
  /\ n = Len(t) \/ t[n + 1] # Space

LEMMA LeadsOnce ==
  ASSUME NEW t \in Seq(Byte), NEW m, NEW n, Leads(t, m), Leads(t, n)
  PROVE  m = n
<1>1. m \in Nat /\ n \in Nat /\ m <= Len(t) /\ n <= Len(t) /\ Len(t) \in Nat
  BY DEF Leads
<1>2. ASSUME m < n PROVE FALSE
  BY <1>1, <1>2 DEF Leads
<1>3. ASSUME n < m PROVE FALSE
  BY <1>1, <1>3 DEF Leads
<1>. QED  BY <1>1, <1>2, <1>3

LEMMA TrimmedFacts ==
  ASSUME NEW t \in Seq(Byte)
  PROVE  \E n \in 0..Len(t) : Leads(t, n) /\ TrimmedStart(t) = SubSeq(t, n + 1, Len(t))
<1>1. PICK l \in Nat : l = Len(t)
  OBVIOUS
<1>2. PICK u : u = t \o <<NUL>>
  OBVIOUS
<1>3. Len(u) = l + 1 /\ u[l + 1] = NUL /\ \A i \in 1..l : u[i] = t[i]
  <2>1. NUL \in Byte
    BY DEF NUL, Byte
  <2>. QED  BY <1>1, <1>2, <2>1, SnocFacts
<1>. DEFINE I == {i \in 1..Len(u) : u[i] # Space}
<1>4. I \subseteq Nat /\ l + 1 \in I
  BY <1>3 DEF NUL, Space
<1>5. SelectInSeq(u, LAMBDA c : c # Space) = IF I # {} THEN Min(I) ELSE 0
  BY DEF SelectInSeq
<1>6. Min(I) \in I /\ \A j \in I : Min(I) <= j
  <2>1. \E i \in I : \A j \in I : i <= j
    BY <1>4, LeastNat
  <2>. HIDE DEF I
  <2>. QED  BY <2>1 DEF Min
<1>7. PICK k : k = Min(I)
  OBVIOUS
<1>8. k \in 1..(l + 1) /\ u[k] # Space /\ \A j \in 1..(k - 1) : u[j] = Space
  <2>1. k \in 1..(l + 1) /\ u[k] # Space
    BY <1>3, <1>6, <1>7
  <2>2. ASSUME NEW j \in 1..(k - 1), u[j] # Space PROVE FALSE
    <3>1. j \in I /\ j < k
      BY <1>3, <2>1, <2>2
    <3>. QED  BY <1>6, <1>7, <2>1, <3>1
  <2>. QED  BY <2>1, <2>2
<1>9. TrimmedStart(t) = SubSeq(t, k, l)
  BY <1>1, <1>2, <1>4, <1>5, <1>7 DEF TrimmedStart
<1>10. Leads(t, k - 1)
  <2>1. k - 1 \in 0..l /\ k - 1 + 1 = k
    BY <1>8
  <2>2. \A j \in 1..(k - 1) : t[j] = Space
    BY <1>3, <1>8
  <2>3. k - 1 = l \/ t[k] # Space
    BY <1>3, <1>8
  <2>. QED  BY <1>1, <2>1, <2>2, <2>3 DEF Leads
<1>11. k - 1 \in 0..l /\ k - 1 + 1 = k
  BY <1>8
<1>. QED  BY <1>1, <1>9, <1>10, <1>11

LEMMA TrimStartHolds ==
  ASSUME NEW s, NEW t, Holds(s, t)
  PROVE  Holds(string_trim_start(s), TrimmedStart(t))
<1>1. PICK b \in Seq(Byte), l \in Nat, z \in Nat : b = s.buf /\ l = s.len /\ z = Len(b)
  BY HoldsFacts
<1>2. /\ b \in Seq(Byte) /\ t \in Seq(Byte) /\ Len(t) = l /\ l < z
      /\ \A i \in 1..l : b[i] = t[i]
  BY <1>1, HoldsFacts
<1>. DEFINE P(n) == (\A j \in 1..n : b[j] = Space) /\ (n = l \/ b[n + 1] # Space)
<1>3. ASSUME NEW n \in 0..l PROVE P(n) <=> Leads(t, n)
  BY <1>2 DEF Leads
<1>4. PICK n \in 0..l : Leads(t, n) /\ TrimmedStart(t) = SubSeq(t, n + 1, l)
  BY <1>2, TrimmedFacts
<1>5. PICK i : i = CHOOSE j \in 0..l : P(j)
  OBVIOUS
<1>6. i = n
  <2>1. \E j \in 0..l : P(j)
    BY <1>3, <1>4
  <2>. HIDE DEF P
  <2>2. i \in 0..l /\ P(i)
    BY <1>5, <2>1
  <2>. QED  BY <1>2, <1>3, <1>4, <2>2, LeadsOnce
<1>7. string_trim_start(s) = IF i = 0 THEN s ELSE Terminated(memmove(b, 0, i, l - i), l - i)
  BY <1>1, <1>5 DEF string_trim_start
<1>8. PICK w : w = SubSeq(t, n + 1, l)
  OBVIOUS
<1>9. w \in Seq(Byte) /\ Len(w) = l - n /\ \A j \in 1..(l - n) : w[j] = t[j + n]
  <2>1. n + 1 \in Nat /\ l \in Nat /\ 1 <= n + 1 /\ n + 1 <= l + 1 /\ l <= Len(t)
    BY <1>2
  <2>2. /\ SubSeq(t, n + 1, l) \in Seq(Byte) /\ Len(SubSeq(t, n + 1, l)) = l - (n + 1) + 1
        /\ \A j \in 1..(l - (n + 1) + 1) : SubSeq(t, n + 1, l)[j] = t[j + (n + 1) - 1]
    BY <1>2, <2>1, PartFacts
  <2>. QED  BY <1>8, <2>2
<1>10. CASE n = 0
  <2>1. w = t
    BY <1>2, <1>9, <1>10
  <2>. QED  BY <1>4, <1>6, <1>7, <1>8, <1>10, <2>1
<1>11. CASE n # 0
  <2>1. PICK k \in Nat : k = l - n
    OBVIOUS
  <2>2. PICK c : c = memmove(b, 0, n, k)
    OBVIOUS
  <2>3. /\ c \in Seq(Byte) /\ Len(c) = z
        /\ \A j \in 1..z : c[j] = IF 0 < j /\ j <= 0 + k THEN b[j - 0 + n] ELSE b[j]
    <3>1. n + k <= Len(b) /\ n \in Nat /\ 0 \in Nat
      BY <1>1, <1>2, <2>1
    <3>2. Moved(c, b, 0, n, k)
      BY <2>2, <3>1, MemmoveFacts
    <3>. QED  BY <1>1, <3>2 DEF Moved
  <2>4. ASSUME NEW j \in 1..k PROVE c[j] = w[j]
    <3>1. j \in 1..z /\ j + n \in 1..l /\ j - 0 + n = j + n
      BY <1>2, <2>1
    <3>2. c[j] = b[j + n]
      BY <2>3, <3>1
    <3>. QED  BY <1>2, <1>9, <2>1, <3>1, <3>2
  <2>5. Len(w) < Len(c) /\ \A j \in 1..Len(w) : c[j] = w[j]
    BY <1>2, <1>9, <2>1, <2>3, <2>4
  <2>6. Holds(Terminated(c, Len(w)), w)
    BY ONLY <1>9, <2>3, <2>5, TerminatedHolds
  <2>. QED  BY <1>4, <1>6, <1>7, <1>8, <1>9, <1>11, <2>1, <2>2, <2>6
<1>. QED  BY <1>10, <1>11

LEMMA TrimEndHolds ==
  ASSUME NEW s, NEW t, Holds(s, t)
  PROVE  Holds(string_trim_end(s), Reverse(TrimmedStart(Reverse(t))))
<1>1. PICK b \in Seq(Byte), l \in Nat : b = s.buf /\ l = s.len
  BY HoldsFacts
<1>2. b \in Seq(Byte) /\ t \in Seq(Byte) /\ Len(t) = l /\ \A i \in 1..l : b[i] = t[i]
  BY <1>1, HoldsFacts
<1>3. PICK u : u = Reverse(t)
  OBVIOUS
<1>4. u \in Seq(Byte) /\ Len(u) = l /\ \A i \in 1..l : u[i] = t[l + 1 - i]
  BY <1>2, <1>3, ReverseFacts
<1>5. PICK n \in 0..l : Leads(u, n) /\ TrimmedStart(u) = SubSeq(u, n + 1, l)
  BY <1>4, TrimmedFacts
<1>. DEFINE P(k) == (\A j \in (k + 1)..l : b[j] = Space) /\ (k = 0 \/ b[k] # Space)
<1>6. ASSUME NEW k \in 0..l PROVE P(k) <=> Leads(u, l - k)
  <2>1. ASSUME NEW j \in 1..l PROVE b[j] = u[l + 1 - j]
    <3>1. l + 1 - j \in 1..l /\ l + 1 - (l + 1 - j) = j
      OBVIOUS
    <3>. QED  BY <1>2, <1>4, <3>1
  <2>2. (\A j \in (k + 1)..l : b[j] = Space) <=> (\A j \in 1..(l - k) : u[j] = Space)
    <3>1. ASSUME \A j \in (k + 1)..l : b[j] = Space, NEW j \in 1..(l - k) PROVE u[j] = Space
      <4>1. l + 1 - j \in (k + 1)..l /\ l + 1 - j \in 1..l /\ l + 1 - (l + 1 - j) = j
        OBVIOUS
      <4>. QED  BY <2>1, <3>1, <4>1
    <3>2. ASSUME \A j \in 1..(l - k) : u[j] = Space, NEW j \in (k + 1)..l PROVE b[j] = Space
      <4>1. l + 1 - j \in 1..(l - k) /\ j \in 1..l
        OBVIOUS
      <4>. QED  BY <2>1, <3>2, <4>1
    <3>. QED  BY <3>1, <3>2
  <2>3. (k = 0 \/ b[k] # Space) <=> (l - k = l \/ u[l - k + 1] # Space)
    <3>1. l - k = l <=> k = 0
      OBVIOUS
    <3>2. k # 0 => b[k] = u[l - k + 1]
      <4>1. l + 1 - k = l - k + 1 /\ (k # 0 => k \in 1..l)
        OBVIOUS
      <4>. QED  BY <2>1, <4>1
    <3>. QED  BY <3>1, <3>2
  <2>4. l - k \in 0..Len(u)
    BY <1>4
  <2>. QED  BY <1>4, <2>2, <2>3, <2>4 DEF Leads
<1>7. PICK i : i = CHOOSE k \in 0..l : P(k)
  OBVIOUS
<1>8. i \in 0..l /\ i = l - n
  <2>1. PICK m : m = l - n
    OBVIOUS
  <2>2. m \in 0..l /\ l - m = n
    BY <2>1
  <2>3. P(m)
    BY <1>5, <1>6, <2>2
  <2>4. \E k \in 0..l : P(k)
    BY <2>2, <2>3
  <2>. HIDE DEF P
  <2>5. i \in 0..l /\ P(i)
    BY <1>7, <2>4
  <2>6. Leads(u, l - i)
    BY <1>6, <2>5
  <2>7. l - i = n
    BY <1>4, <1>5, <2>6, LeadsOnce
  <2>. QED  BY <2>5, <2>7
<1>9. string_trim_end(s) = IF i < l THEN Terminated(b, i) ELSE s
  BY <1>1, <1>7 DEF string_trim_end
<1>10. Reverse(TrimmedStart(u)) = SubSeq(t, 1, i)
  <2>1. PICK v : v = SubSeq(u, n + 1, l)
    OBVIOUS
  <2>2. v \in Seq(Byte) /\ Len(v) = i /\ \A j \in 1..i : v[j] = u[j + n]
    <3>1. n + 1 \in Nat /\ l \in Nat /\ 1 <= n + 1 /\ n + 1 <= l + 1 /\ l <= Len(u)
      BY <1>4
    <3>2. /\ SubSeq(u, n + 1, l) \in Seq(Byte) /\ Len(SubSeq(u, n + 1, l)) = l - (n + 1) + 1
          /\ \A j \in 1..(l - (n + 1) + 1) : SubSeq(u, n + 1, l)[j] = u[j + (n + 1) - 1]
      BY <1>4, <3>1, PartFacts
    <3>. QED  BY <1>8, <2>1, <3>2
  <2>3. PICK w : w = Reverse(v)
    OBVIOUS
  <2>4. w \in Seq(Byte) /\ Len(w) = i /\ \A j \in 1..i : w[j] = v[i + 1 - j]
    BY <1>8, <2>2, <2>3, ReverseFacts
  <2>5. ASSUME NEW j \in 1..i PROVE w[j] = t[j]
    <3>1. i + 1 - j \in 1..i /\ i + 1 - j + n \in 1..l /\ l + 1 - (i + 1 - j + n) = j
      BY <1>8
    <3>2. w[j] = v[i + 1 - j] /\ v[i + 1 - j] = u[i + 1 - j + n]
      BY <2>2, <2>4, <3>1
    <3>3. u[i + 1 - j + n] = t[l + 1 - (i + 1 - j + n)]
      BY <1>4, <3>1
    <3>. QED  BY <3>1, <3>2, <3>3
  <2>6. SubSeq(t, 1, i) = w
    <3>1. i \in 0..Len(t)
      BY <1>2, <1>8
    <3>. QED  BY <1>2, <2>4, <2>5, <3>1, HeldFacts
  <2>. QED  BY <1>5, <2>1, <2>3, <2>6
<1>11. CASE i < l
  <2>1. Holds(Terminated(s.buf, i), SubSeq(t, 1, i))
    BY <1>1, <1>8, CutHolds
  <2>. QED  BY <1>1, <1>3, <1>9, <1>10, <1>11, <2>1
<1>12. CASE ~(i < l)
  <2>1. i = l
    BY <1>8, <1>12
  <2>2. SubSeq(t, 1, l) = t
    BY <1>2
  <2>. QED  BY <1>3, <1>9, <1>10, <1>12, <2>1, <2>2
<1>. QED  BY <1>11, <1>12

(* The invariant, said of what the string holds. *)
LEMMA HoldsMeans ==
  ASSUME NEW s, NEW t
  PROVE  Holds(s, t) <=>
           /\ s \in [buf : Seq(Byte), len : Nat] /\ t \in Seq(Byte)
           /\ s.len <= Cap(s) /\ s.buf[s.len + 1] = NUL /\ TextOf(s) = t
<1>. SUFFICES ASSUME s \in [buf : Seq(Byte), len : Nat], t \in Seq(Byte)
              PROVE  Holds(s, t) <=> s.len <= Cap(s) /\ s.buf[s.len + 1] = NUL /\ TextOf(s) = t
  BY DEF Holds
<1>1. PICK b \in Seq(Byte), l \in Nat, z \in Nat : b = s.buf /\ l = s.len /\ z = Len(b)
  OBVIOUS
<1>2. b \in Seq(Byte)
  BY <1>1
<1>3. s.len <= Cap(s) <=> l < z
  BY <1>1 DEF Cap
<1>4. CASE l < z
  <2>1. l \in 0..Len(b)
    BY <1>1, <1>4
  <2>2. TextOf(s) = t <=> Len(t) = l /\ \A i \in 1..l : b[i] = t[i]
    BY <1>1, <1>2, <2>1, HeldFacts DEF TextOf
  <2>. QED  BY <1>1, <1>3, <1>4, <2>2 DEF Holds
<1>5. CASE ~(l < z)
  BY <1>1, <1>3, <1>5 DEF Holds
<1>. QED  BY <1>4, <1>5

LEMMA ArgBytes == \A src \in Args : src \in Seq(Byte) /\ src \in Seq(Byte \ {NUL})
BY ArgsAreCStrings

(* A call that leaves what it should keeps the invariant. *)
LEMMA CallKeeps ==
  ASSUME StringInv, NEW after, NEW wanted, StringOp(after, wanted),
         Holds(string, text) => Holds(after, wanted)
  PROVE  StringInv'
<1>1. Holds(string, text)
  BY HoldsMeans DEF StringInv, BufferIsText
<1>2. Holds(string', text')
  BY <1>1 DEF StringOp
<1>3. /\ string' \in [buf : Seq(Byte), len : Nat] /\ text' \in Seq(Byte)
      /\ string'.len <= Cap(string') /\ string'.buf[string'.len + 1] = NUL /\ TextOf(string') = text'
  BY <1>2, HoldsMeans
<1>4. replacing' = NotReplacing
  BY DEF StringOp
<1>. QED  BY <1>3, <1>4 DEF StringInv, BufferIsText, Cap, TextOf

LEMMA StringInitInv == StringInit => StringInv
<1>. SUFFICES ASSUME StringInit PROVE StringInv
  OBVIOUS
<1>1. PICK src \in Args : string = string_init_bufn(src) /\ text = src /\ replacing = NotReplacing
  BY DEF StringInit
<1>2. Holds(string, text)
  BY <1>1, ArgBytes, InitHolds
<1>3. /\ string \in [buf : Seq(Byte), len : Nat] /\ text \in Seq(Byte)
      /\ string.len <= Cap(string) /\ string.buf[string.len + 1] = NUL /\ TextOf(string) = text
  BY <1>2, HoldsMeans
<1>. QED  BY <1>1, <1>3 DEF StringInv, BufferIsText

(* A turn of the loop leaves the search behind what it put in. *)
LEMMA ReplaceNextKeeps == StringInv /\ ReplaceNext => StringInv'
<1>. SUFFICES ASSUME StringInv, ReplaceNext PROVE StringInv'
  OBVIOUS
<1>1. Holds(string, text)
  BY HoldsMeans DEF StringInv, BufferIsText
<1>2. PICK off, pattern, replacement, wanted :
        /\ off \in 0..string.len /\ pattern \in Args \ {<<>>} /\ replacement \in Args
        /\ replacing = [off |-> off, pattern |-> pattern, replacement |-> replacement, wanted |-> wanted]
  BY DEF StringInv, ReplaceNext
<1>3. PICK at : at = NextMatch
  OBVIOUS
<1>4. /\ pattern \in Seq(Byte \ {NUL}) /\ pattern # <<>> /\ pattern \in Seq(Byte)
      /\ replacement \in Seq(Byte)
  BY <1>2, ArgBytes
<1>5. at \in Nat /\ at + Len(pattern) <= string.len
  <2>1. at = strstr(string.buf, off, pattern) /\ at # NotFound
    BY <1>2, <1>3 DEF NextMatch, ReplaceNext
  <2>. QED  BY <1>1, <1>2, <1>4, <2>1, StrstrFacts
<1>6. /\ string' = Exchange(string, at, pattern, replacement)
      /\ text' = Replaced(text, at, pattern, replacement)
      /\ replacing' = [off |-> at + Len(replacement), pattern |-> pattern,
                       replacement |-> replacement, wanted |-> wanted]
  BY <1>2, <1>3 DEF ReplaceNext
<1>7. Holds(string', text') /\ at + Len(replacement) <= string'.len
  BY <1>1, <1>4, <1>5, <1>6, ExchangeHolds
<1>8. /\ string' \in [buf : Seq(Byte), len : Nat] /\ text' \in Seq(Byte)
      /\ string'.len <= Cap(string') /\ string'.buf[string'.len + 1] = NUL /\ TextOf(string') = text'
  BY <1>7, HoldsMeans
<1>9. replacing' \in [off : 0..string'.len, pattern : Args \ {<<>>}, replacement : Args,
                      wanted : {replacing'.wanted}]
  <2>1. at + Len(replacement) \in 0..string'.len
    BY <1>4, <1>5, <1>7, <1>8
  <2>. QED  BY <1>2, <1>6, <2>1
<1>. QED  BY <1>8, <1>9 DEF StringInv, BufferIsText, Cap, TextOf

(* The invariant of the builder: the buffer holds the text the calls left,   *)
(* in the middle of replacing every match too (string.c); the calls are all  *)
(* but those of EraseFar.                                                    *)
THEOREM StringInvariant == StringSpec => []StringInv
<1>1. ASSUME StringInv, StringNext PROVE StringInv'
  <2>1. CASE \E n \in 0..MaxLen : StringOp(string_reserve(string, n), text)
    <3>1. PICK n \in 0..MaxLen : StringOp(string_reserve(string, n), text)
      BY <2>1
    <3>. QED  BY <1>1, <3>1, ReserveHolds, CallKeeps, LimitsAreNats
  <2>2. CASE StringOp(string_shrink(string), text)
    BY <1>1, <2>2, ShrinkHolds, CallKeeps
  <2>3. CASE StringOp(string_clear(string), <<>>)
    <3>1. ASSUME Holds(string, text) PROVE Holds(string_clear(string), <<>>)
      <4>1. 0 \in 0..string.len /\ text \in Seq(Byte)
        BY <3>1, HoldsFacts
      <4>2. SubSeq(text, 1, 0) = <<>>
        BY <4>1
      <4>3. Holds(Terminated(string.buf, 0), SubSeq(text, 1, 0))
        BY <3>1, <4>1, CutHolds
      <4>. QED  BY <4>2, <4>3 DEF string_clear
    <3>. QED  BY <1>1, <2>3, <3>1, CallKeeps
  <2>4. CASE \E c \in Chars : StringOp(string_pushback(string, c), Append(text, c))
    <3>1. PICK c \in Chars : StringOp(string_pushback(string, c), Append(text, c))
      BY <2>4
    <3>2. c \in Byte
      BY CharsAreBytes
    <3>. QED  BY <1>1, <3>1, <3>2, PushbackHolds, CallKeeps
  <2>5. CASE string.len > 0 /\ StringOp(string_popback(string), Front(text))
    <3>1. ASSUME Holds(string, text) PROVE Holds(string_popback(string), Front(text))
      <4>1. string.len - 1 \in 0..string.len /\ string.len = Len(text)
        BY <2>5, <3>1, HoldsFacts
      <4>2. Holds(Terminated(string.buf, string.len - 1), SubSeq(text, 1, string.len - 1))
        BY <3>1, <4>1, CutHolds
      <4>. QED  BY <4>1, <4>2 DEF string_popback, Front
    <3>. QED  BY <1>1, <2>5, <3>1, CallKeeps
  <2>6. ASSUME NEW src \in Args, StringOp(string_assignn(string, src), src) PROVE StringInv'
    BY <1>1, <2>6, ArgBytes, AssignHolds, CallKeeps
  <2>7. ASSUME NEW src \in Args, StringOp(string_appendn(string, src), text \o src) PROVE StringInv'
    BY <1>1, <2>7, ArgBytes, AppendHolds, CallKeeps
  <2>8. ASSUME NEW src \in Args, StringOp(string_prependn(string, src), src \o text) PROVE StringInv'
    BY <1>1, <2>8, ArgBytes, PrependHolds, CallKeeps
  <2>9. ASSUME NEW src \in Args, NEW pos \in 0..MaxLen, NEW at, at = Smaller(pos, Len(text)),
               StringOp(string_insert(string, pos, src),
                        SubSeq(text, 1, at) \o src \o SubSeq(text, at + 1, Len(text)))
        PROVE  StringInv'
    <3>1. pos \in Nat /\ src \in Seq(Byte)
      BY ArgBytes, LimitsAreNats
    <3>2. Holds(string, text) =>
            Holds(string_insert(string, pos, src),
                  SubSeq(text, 1, at) \o src \o SubSeq(text, at + 1, Len(text)))
      BY <2>9, <3>1, InsertHolds
    <3>. QED  BY <1>1, <2>9, <3>2, CallKeeps
  <2>10. ASSUME NEW pos \in 0..string.len, NEW m \in 0..(SizeLimit - 1),
                pos + m < SizeLimit, Erase(pos, m)
         PROVE  StringInv'
    <3>1. m \in Nat
      BY LimitsAreNats
    <3>. QED  BY <1>1, <2>10, <3>1, EraseHolds, CallKeeps DEF Erase
  <2>11. ASSUME NEW pattern \in Args \ {<<>>}, NEW replacement \in Args,
                StringOp(string_replace(string, pattern, replacement),
                         Replaced(text, string_find(string, pattern), pattern, replacement))
         PROVE  StringInv'
    <3>1. pattern \in Seq(Byte \ {NUL}) /\ pattern # <<>> /\ replacement \in Seq(Byte)
      BY ArgBytes
    <3>. QED  BY <1>1, <2>11, <3>1, ReplaceHolds, CallKeeps
  <2>12. ASSUME NEW pattern \in Args \ {<<>>}, NEW replacement \in Args,
                string_replace_all(pattern, replacement)
         PROVE  StringInv'
    <3>1. PICK wanted : replacing' = [off |-> 0, pattern |-> pattern, replacement |-> replacement,
                                      wanted |-> wanted]
      BY <2>12 DEF string_replace_all
    <3>2. string' = string /\ text' = text /\ string.len \in Nat
      BY <1>1, <2>12 DEF string_replace_all, StringInv
    <3>3. replacing' \in [off : 0..string'.len, pattern : Args \ {<<>>}, replacement : Args,
                          wanted : {replacing'.wanted}]
      BY <3>1, <3>2
    <3>. QED  BY <1>1, <3>2, <3>3 DEF StringInv, BufferIsText, Cap, TextOf
  <2>13. CASE ReplaceNext
    BY <1>1, <2>13, ReplaceNextKeeps
  <2>14. CASE ReplaceEnds
    BY <1>1, <2>14 DEF ReplaceEnds, StringInv, BufferIsText, Cap, TextOf
  <2>15. CASE StringOp(string_lowercase(string), [i \in DOMAIN text |-> tolower(text[i])])
    BY <1>1, <2>15, CaseHolds, CallKeeps
  <2>16. CASE StringOp(string_uppercase(string), [i \in DOMAIN text |-> toupper(text[i])])
    BY <1>1, <2>16, CaseHolds, CallKeeps
  <2>17. CASE StringOp(string_trim_start(string), TrimmedStart(text))
    BY <1>1, <2>17, TrimStartHolds, CallKeeps
  <2>18. CASE StringOp(string_trim_end(string), Reverse(TrimmedStart(Reverse(text))))
    BY <1>1, <2>18, TrimEndHolds, CallKeeps
  <2>19. CASE StringOp(string_reverse(string), Reverse(text))
    BY <1>1, <2>19, ReverseHolds, CallKeeps
  <2>. QED
    BY <1>1, <2>1, <2>2, <2>3, <2>4, <2>5, <2>6, <2>7, <2>8, <2>9, <2>10, <2>11, <2>12, <2>13, <2>14,
       <2>15, <2>16, <2>17, <2>18, <2>19 DEF StringNext
<1>2. ASSUME StringInv, UNCHANGED stringVars PROVE StringInv'
  BY <1>2 DEF StringInv, BufferIsText, Cap, TextOf, stringVars
<1>. QED  BY <1>1, <1>2, StringInitInv, PTL DEF StringSpec

(* A builder never reads a byte it did not write: what its buffer holds is   *)
(* what the calls on it say, ended by a NUL within the capacity (string.c),  *)
(* as long as no call of string_erase asks for more bytes than size_t can    *)
(* add to the position.                                                      *)
THEOREM BuffersAreTheirTexts == StringSpec => []BufferIsText
<1>1. StringInv => BufferIsText
  BY DEF StringInv
<1>. QED  BY <1>1, StringInvariant, PTL

----------------------------------------------------------------------------
(* Searching, splitting and joining *)

(* What holds where it holds of all places behind holds everywhere. *)
LEMMA FromTheEnd ==
  ASSUME NEW n \in Nat, NEW S,
         \A c \in 0..n : (\A e \in (c + 1)..n : e \in S) => c \in S
  PROVE  \A c \in 0..n : c \in S
<1>. DEFINE B == {d \in 0..n : n - d \notin S}
<1>1. SUFFICES ASSUME B # {} PROVE FALSE
  <2>1. ASSUME NEW c \in 0..n, c \notin S PROVE n - c \in B
    <3>1. n - c \in 0..n /\ n - (n - c) = c
      OBVIOUS
    <3>. QED  BY <2>1, <3>1
  <2>. HIDE DEF B
  <2>. QED  BY <1>1, <2>1
<1>2. PICK d \in B : \A e \in B : d <= e
  <2>1. B \in SUBSET Nat
    OBVIOUS
  <2>. QED  BY <1>1, <2>1, LeastNat
<1>3. ASSUME NEW e \in (n - d + 1)..n PROVE e \in S
  <2>1. n - e \in 0..n /\ ~(d <= n - e) /\ n - (n - e) = e
    OBVIOUS
  <2>2. n - e \notin B
    BY <1>2, <2>1
  <2>. QED  BY <2>1, <2>2
<1>4. n - d \in 0..n /\ n - d \notin S
  OBVIOUS
<1>. QED  BY <1>3, <1>4

(* And what each place hands on to the next. *)
LEMMA FromTheStart ==
  ASSUME NEW n \in Nat, NEW S, 0 \in S, \A k \in 0..(n - 1) : k \in S => k + 1 \in S
  PROVE  \A k \in 0..n : k \in S
<1>. DEFINE B == {k \in 0..n : k \notin S}
<1>1. SUFFICES ASSUME B # {} PROVE FALSE
  OBVIOUS
<1>2. PICK k \in B : \A j \in B : k <= j
  <2>1. B \in SUBSET Nat
    OBVIOUS
  <2>. QED  BY <1>1, <2>1, LeastNat
<1>3. k # 0 /\ k - 1 \in 0..(n - 1) /\ k - 1 \in 0..n /\ ~(k <= k - 1) /\ (k - 1) + 1 = k
  OBVIOUS
<1>4. k - 1 \in S
  BY <1>2, <1>3
<1>5. k \in S
  BY <1>3, <1>4
<1>. QED  BY <1>5

LEMMA SameBytes ==
  ASSUME NEW a \in Seq(Byte), NEW b \in Seq(Byte), Len(a) = Len(b), \A j \in 1..Len(a) : a[j] = b[j]
  PROVE  a = b
OBVIOUS

(* In whatever order three texts are put together. *)
Associates(a, b, c) == (a \o b) \o c = a \o (b \o c)

LEMMA ConcatThree ==
  ASSUME NEW a \in Seq(Byte), NEW b \in Seq(Byte), NEW c \in Seq(Byte)
  PROVE  Associates(a, b, c)
<1>1. PICK l \in Nat, m \in Nat, n \in Nat : l = Len(a) /\ m = Len(b) /\ n = Len(c)
  OBVIOUS
<1>2. PICK x, y : x = a \o b /\ y = b \o c
  OBVIOUS
<1>3. /\ x \in Seq(Byte) /\ Len(x) = l + m
      /\ \A i \in 1..(l + m) : x[i] = IF i <= l THEN a[i] ELSE b[i - l]
      /\ y \in Seq(Byte) /\ Len(y) = m + n
      /\ \A i \in 1..(m + n) : y[i] = IF i <= m THEN b[i] ELSE c[i - m]
  <2>1. /\ a \in Seq(Byte) /\ b \in Seq(Byte) /\ c \in Seq(Byte)
        /\ l \in Nat /\ m \in Nat /\ n \in Nat
    OBVIOUS
  <2>2. /\ x \in Seq(Byte) /\ Len(x) = l + m
        /\ \A i \in 1..(l + m) : x[i] = IF i <= l THEN a[i] ELSE b[i - l]
    BY ONLY <1>1, <1>2, <2>1, ConcatFacts
  <2>3. /\ y \in Seq(Byte) /\ Len(y) = m + n
        /\ \A i \in 1..(m + n) : y[i] = IF i <= m THEN b[i] ELSE c[i - m]
    BY ONLY <1>1, <1>2, <2>1, ConcatFacts
  <2>. QED  BY <2>2, <2>3
<1>4. PICK v, w : v = x \o c /\ w = a \o y
  OBVIOUS
<1>5. PICK q \in Nat, r \in Nat : q = l + m /\ r = m + n
  OBVIOUS
<1>6. /\ v \in Seq(Byte) /\ Len(v) = (l + m) + n
      /\ \A i \in 1..((l + m) + n) : v[i] = IF i <= l + m THEN x[i] ELSE c[i - (l + m)]
  <2>1. v \in Seq(Byte) /\ Len(v) = q + n /\ \A i \in 1..(q + n) : v[i] = IF i <= q THEN x[i] ELSE c[i - q]
    <3>1. x \in Seq(Byte) /\ q = Len(x) /\ n = Len(c)
      BY ONLY <1>1, <1>3, <1>5
    <3>. QED  BY ONLY <1>4, <3>1, c \in Seq(Byte), n \in Nat, q \in Nat, ConcatFacts
  <2>. QED  BY ONLY <1>5, <2>1
<1>7. /\ w \in Seq(Byte) /\ Len(w) = l + (m + n)
      /\ \A i \in 1..(l + (m + n)) : w[i] = IF i <= l THEN a[i] ELSE y[i - l]
  <2>1. w \in Seq(Byte) /\ Len(w) = l + r /\ \A i \in 1..(l + r) : w[i] = IF i <= l THEN a[i] ELSE y[i - l]
    <3>1. y \in Seq(Byte) /\ r = Len(y) /\ l = Len(a)
      BY ONLY <1>1, <1>3, <1>5
    <3>. QED  BY ONLY <1>4, <3>1, a \in Seq(Byte), l \in Nat, r \in Nat, ConcatFacts
  <2>. QED  BY ONLY <1>5, <2>1
<1>8. ASSUME NEW i \in 1..((l + m) + n) PROVE v[i] = w[i]
  <2>1. CASE i <= l
    <3>1. i \in 1..(l + m) /\ i <= l + m /\ i \in 1..(l + (m + n))
      BY <2>1
    <3>. QED  BY ONLY <1>3, <1>6, <1>7, <2>1, <3>1, i \in 1..((l + m) + n)
  <2>2. CASE l < i /\ i <= l + m
    <3>1. i - l \in 1..(m + n) /\ i - l <= m /\ i \in 1..(l + m) /\ ~(i <= l) /\ i \in 1..(l + (m + n))
      BY <2>2
    <3>. QED  BY ONLY <1>3, <1>6, <1>7, <2>2, <3>1, i \in 1..((l + m) + n)
  <2>3. CASE l + m < i
    <3>1. i - l \in 1..(m + n) /\ ~(i - l <= m) /\ i - l - m = i - (l + m) /\ ~(i <= l) /\ ~(i <= l + m)
          /\ i \in 1..(l + (m + n))
      BY <2>3
    <3>. QED  BY ONLY <1>3, <1>6, <1>7, <3>1, i \in 1..((l + m) + n)
  <2>. QED  BY <2>1, <2>2, <2>3
<1>9. v = w
  <2>1. Len(v) = Len(w) /\ \A i \in 1..Len(v) : v[i] = w[i]
    BY <1>6, <1>7, <1>8
  <2>. QED  BY ONLY <1>6, <1>7, <2>1, SameBytes
<1>. QED  BY <1>2, <1>4, <1>9 DEF Associates

(* A part of a text is another text when their bytes agree. *)
LEMMA PartIs ==
  ASSUME NEW t \in Seq(Byte), NEW from \in Nat, NEW p \in Seq(Byte), from + Len(p) <= Len(t)
  PROVE  SubSeq(t, from + 1, from + Len(p)) = p <=> \A j \in 1..Len(p) : t[from + j] = p[j]
<1>1. PICK k \in Nat : k = Len(p)
  OBVIOUS
<1>2. PICK x : x = SubSeq(t, from + 1, from + k)
  OBVIOUS
<1>3. x \in Seq(Byte) /\ Len(x) = k /\ \A j \in 1..k : x[j] = t[j + from]
  <2>1. from + k <= Len(t)
    BY <1>1
  <2>2. /\ SubSeq(t, from + 1, from + k) \in Seq(Byte)
        /\ Len(SubSeq(t, from + 1, from + k)) = k
        /\ \A j \in 1..k : SubSeq(t, from + 1, from + k)[j] = t[j + from]
    BY ONLY t \in Seq(Byte), from \in Nat, k \in Nat, <2>1, MidFacts
  <2>. QED  BY ONLY <1>2, <2>2
<1>4. \A j \in 1..k : j + from = from + j
  OBVIOUS
<1>5. (\A j \in 1..k : t[from + j] = p[j]) => x = p
  BY <1>1, <1>3, <1>4, SameBytes
<1>. QED  BY <1>1, <1>2, <1>3, <1>4, <1>5

(* The pattern is in the text at i, and no NUL from the offset on to there. *)
Match(t, off, p, i) ==
  /\ i \in off..(Len(t) - Len(p))
  /\ \A j \in 1..Len(p) : t[i + j] = p[j]
  /\ \A j \in (off + 1)..i : t[j] # NUL

FirstMatch(t, off, p, at) ==
  \/ at = NotFound /\ \A i \in Nat : ~Match(t, off, p, i)
  \/ at \in Nat /\ Match(t, off, p, at) /\ \A i \in Nat : Match(t, off, p, i) => at <= i

LastMatch(t, p, at) ==
  \/ at = NotFound /\ \A i \in Nat : ~Match(t, 0, p, i)
  \/ at \in Nat /\ Match(t, 0, p, at) /\ \A i \in Nat : Match(t, 0, p, i) => i <= at

Pattern(p) == p \in Seq(Byte \ {NUL}) /\ p # <<>>

LEMMA PatternFacts ==
  ASSUME NEW p, Pattern(p)
  PROVE  p \in Seq(Byte) /\ Len(p) \in Nat \ {0} /\ \A j \in 1..Len(p) : p[j] # NUL
BY DEF Pattern

(* What is found in the buffer is the first match in the text. *)
LEMMA StrstrIsFirst ==
  ASSUME NEW s, NEW t, Holds(s, t), NEW off \in 0..s.len, NEW p, Pattern(p)
  PROVE  FirstMatch(t, off, p, strstr(s.buf, off, p))
<1>1. PICK b \in Seq(Byte), l \in Nat, z \in Nat, k \in Nat : b = s.buf /\ l = s.len /\ z = Len(b) /\ k = Len(p)
  BY HoldsFacts, PatternFacts
<1>2. /\ b \in Seq(Byte) /\ l < z /\ b[l + 1] = NUL /\ t \in Seq(Byte) /\ Len(t) = l
      /\ \A i \in 1..l : b[i] = t[i]
  BY <1>1, HoldsFacts
<1>3. k > 0 /\ p \in Seq(Byte) /\ \A j \in 1..k : p[j] # NUL
  BY <1>1, PatternFacts
<1>. DEFINE found == {i \in off..(z - k) :
                        SubSeq(b, i + 1, i + k) = p /\ \A j \in (off + 1)..i : b[j] # NUL}
<1>4. ASSUME NEW i \in found PROVE i \in Nat /\ Match(t, off, p, i)
  <2>1. i \in Nat /\ off <= i /\ i + k <= z
    BY <1>1, <1>2
  <2>2. SubSeq(b, i + 1, i + k) = p /\ \A j \in (off + 1)..i : b[j] # NUL
    OBVIOUS
  <2>3. i <= l
    <3>1. ASSUME i > l PROVE FALSE
      <4>1. off \in Nat /\ off <= l
        BY ONLY off \in 0..s.len, <1>1
      <4>2. l + 1 \in (off + 1)..i
        BY ONLY l \in Nat, <2>1, <3>1, <4>1
      <4>. QED  BY <1>2, <2>2, <4>2
    <3>. QED  BY <2>1, <3>1
  <2>4. \A j \in 1..k : b[i + j] = p[j]
    <3>1. i + Len(p) <= Len(b)
      BY ONLY <1>1, <2>1
    <3>2. SubSeq(b, i + 1, i + Len(p)) = p
      BY ONLY <1>1, <2>2, Zenon
    <3>3. \A j \in 1..Len(p) : b[i + j] = p[j]
      BY ONLY b \in Seq(Byte), <1>3, <2>1, <3>1, <3>2, PartIs
    <3>. QED  BY ONLY <1>1, <3>3
  <2>5. ASSUME i + k > l PROVE FALSE
    <3>1. l + 1 - i \in 1..k /\ i + (l + 1 - i) = l + 1
      BY <1>3, <2>1, <2>3, <2>5
    <3>. QED  BY <1>2, <1>3, <2>4, <3>1
  <2>6. i \in off..(l - k)
    BY <1>1, <2>1, <2>5
  <2>7. \A j \in 1..k : t[i + j] = p[j]
    <3>1. \A j \in 1..k : i + j \in 1..l
      BY <2>1, <2>6
    <3>. QED  BY <1>2, <2>4, <3>1
  <2>8. \A j \in (off + 1)..i : t[j] # NUL
    <3>1. \A j \in (off + 1)..i : j \in 1..l
      BY <2>1, <2>3
    <3>. QED  BY <1>2, <2>2, <3>1
  <2>. QED  BY <1>1, <1>2, <2>1, <2>6, <2>7, <2>8 DEF Match
<1>5. ASSUME NEW i \in Nat, Match(t, off, p, i) PROVE i \in found
  <2>1. /\ i \in off..(l - k) /\ \A j \in 1..k : t[i + j] = p[j]
        /\ \A j \in (off + 1)..i : t[j] # NUL
    BY <1>1, <1>2, <1>5 DEF Match
  <2>2. i \in off..(z - k) /\ i + k <= l
    BY <1>1, <1>2, <2>1
  <2>3. \A j \in 1..k : b[i + j] = p[j]
    <3>1. \A j \in 1..k : i + j \in 1..l
      BY <2>2
    <3>. QED  BY <1>2, <2>1, <3>1
  <2>4. \A j \in (off + 1)..i : b[j] # NUL
    <3>1. \A j \in (off + 1)..i : j \in 1..l
      BY <2>2
    <3>. QED  BY <1>2, <2>1, <3>1
  <2>5. SubSeq(b, i + 1, i + k) = p
    <3>1. i + Len(p) <= Len(b)
      BY <1>1, <1>2, <2>2
    <3>. QED  BY <1>1, <1>2, <1>3, <2>3, <3>1, PartIs, ZenonT(40)
  <2>. QED  BY <2>2, <2>4, <2>5
<1>6. strstr(s.buf, off, p) =
        IF found = {} THEN NotFound ELSE CHOOSE i \in found : \A j \in found : i <= j
  BY <1>1 DEF strstr
<1>. HIDE DEF found
<1>7. CASE found = {}
  BY <1>5, <1>6, <1>7 DEF FirstMatch
<1>8. CASE found # {}
  <2>1. found \in SUBSET Nat
    BY <1>4
  <2>2. \E i \in found : \A j \in found : i <= j
    BY <1>8, <2>1, LeastNat
  <2>3. PICK at : at = strstr(s.buf, off, p)
    OBVIOUS
  <2>4. at \in found /\ \A j \in found : at <= j
    BY <1>6, <1>8, <2>2, <2>3
  <2>. QED  BY <1>4, <1>5, <2>3, <2>4 DEF FirstMatch
<1>. QED  BY <1>7, <1>8

(* A match ends before the first NUL. *)
LEMMA MatchIsClean ==
  ASSUME NEW t \in Seq(Byte), NEW p, Pattern(p), NEW i \in Nat, Match(t, 0, p, i)
  PROVE  i + Len(p) <= Len(t) /\ \A j \in 1..(i + Len(p)) : t[j] # NUL
<1>1. PICK k \in Nat, l \in Nat : k = Len(p) /\ l = Len(t)
  BY PatternFacts
<1>2. i + k <= l /\ (\A j \in 1..k : t[i + j] = p[j]) /\ \A j \in 1..i : t[j] # NUL
  <2>1. 0 + 1 = 1
    OBVIOUS
  <2>. QED  BY <1>1, <2>1 DEF Match
<1>3. ASSUME NEW j \in 1..(i + k) PROVE t[j] # NUL
  <2>1. CASE j <= i
    BY <1>2, <2>1
  <2>2. CASE ~(j <= i)
    <3>1. j - i \in 1..k /\ i + (j - i) = j
      BY <2>2
    <3>2. t[j] = p[j - i]
      BY <1>2, <3>1
    <3>. QED  BY <1>1, <3>1, <3>2, PatternFacts
  <2>. QED  BY <2>1, <2>2
<1>. QED  BY <1>1, <1>2, <1>3

(* Of some numbers up to n one is the greatest. *)
LEMMA GreatestNat ==
  ASSUME NEW n \in Nat, NEW S \in SUBSET (0..n), S # {}
  PROVE  \E i \in S : \A j \in S : i >= j
<1>. DEFINE D == {n - i : i \in S}
<1>1. D \in SUBSET Nat /\ D # {}
  <2>1. PICK i \in S : TRUE
    OBVIOUS
  <2>2. n - i \in D
    OBVIOUS
  <2>. QED  BY <2>2
<1>2. PICK d \in D : \A e \in D : d <= e
  <2>. HIDE DEF D
  <2>. QED  BY <1>1, LeastNat
<1>3. PICK i \in S : d = n - i
  OBVIOUS
<1>4. ASSUME NEW j \in S PROVE i >= j
  <2>1. n - i <= n - j
    BY <1>2, <1>3
  <2>2. i \in 0..n /\ j \in 0..n
    BY ONLY S \in SUBSET (0..n), i \in S, j \in S
  <2>. QED  BY ONLY n \in Nat, <2>1, <2>2
<1>. QED  BY <1>4

LEMMA FindLastIsLast ==
  ASSUME NEW s, NEW t, Holds(s, t), NEW p, Pattern(p)
  PROVE  LastMatch(t, p, string_find_last(s, p))
<1>1. PICK b \in Seq(Byte), l \in Nat, z \in Nat, k \in Nat : b = s.buf /\ l = s.len /\ z = Len(b) /\ k = Len(p)
  BY HoldsFacts, PatternFacts
<1>2. /\ b \in Seq(Byte) /\ l < z /\ b[l + 1] = NUL /\ t \in Seq(Byte) /\ Len(t) = l
      /\ \A i \in 1..l : b[i] = t[i]
  BY <1>1, HoldsFacts
<1>3. k > 0 /\ p \in Seq(Byte) /\ \A j \in 1..k : p[j] # NUL
  BY <1>1, PatternFacts
<1>. DEFINE I == {i \in 1..Len(s.buf) : s.buf[i] = NUL}
<1>4. I \in SUBSET Nat /\ l + 1 \in I /\ I # {}
  <2>1. l + 1 \in 1..z
    BY <1>2
  <2>. QED  BY <1>1, <1>2, <2>1
<1>5. PICK m \in I : \A j \in I : m <= j
  <2>. HIDE DEF I
  <2>. QED  BY <1>4, LeastNat
<1>6. SelectInSeq(s.buf, LAMBDA c : c = NUL) = m
  <2>1. SelectInSeq(s.buf, LAMBDA c : c = NUL) = IF I # {} THEN Min(I) ELSE 0
    BY DEF SelectInSeq
  <2>2. Min(I) \in I /\ \A j \in I : Min(I) <= j
    <3>. HIDE DEF I
    <3>. QED  BY <1>5 DEF Min
  <2>3. \A x, y \in Nat : x <= y /\ y <= x => x = y
    OBVIOUS
  <2>4. Min(I) = m
    <3>. HIDE DEF I
    <3>. QED  BY <1>4, <1>5, <2>2, <2>3
  <2>. QED  BY <1>4, <2>1, <2>4
<1>7. PICK h \in Nat : m = h + 1 /\ h <= l /\ b[h + 1] = NUL /\ \A j \in 1..h : t[j] # NUL
  <2>1. m \in 1..z /\ b[m] = NUL /\ m <= l + 1
    BY <1>1, <1>4, <1>5
  <2>2. m - 1 \in Nat /\ m = (m - 1) + 1 /\ m - 1 <= l
    BY <2>1
  <2>3. ASSUME NEW j \in 1..(m - 1) PROVE t[j] # NUL
    <3>1. j \in 1..z /\ j \in 1..l /\ ~(m <= j)
      BY <1>2, <2>1
    <3>2. j \notin I
      BY <1>5, <3>1
    <3>. QED  BY <1>1, <1>2, <3>1, <3>2
  <2>4. b[(m - 1) + 1] = NUL
    BY <2>1, <2>2
  <2>. QED  BY ONLY <2>2, <2>3, <2>4
<1>. HIDE DEF I
<1>. DEFINE found == {i \in 0..(h - k) : SubSeq(b, i + 1, i + k) = p}
<1>8. string_find_last(s, p) = IF found = {} THEN NotFound ELSE CHOOSE i \in found : \A j \in found : i >= j
  <2>1. m - 1 = h /\ p # <<>>
    BY <1>7 DEF Pattern
  <2>2. SelectInSeq(s.buf, LAMBDA c : c = NUL) - 1 = h
    BY <1>6, <2>1
  <2>. DEFINE places == {i \in 0..(SelectInSeq(s.buf, LAMBDA c : c = NUL) - 1 - Len(p)) :
                           SubSeq(s.buf, i + 1, i + Len(p)) = p}
  <2>3. string_find_last(s, p) =
          IF p = <<>> \/ places = {} THEN NotFound ELSE CHOOSE i \in places : \A j \in places : i >= j
    BY Zenon DEF string_find_last
  <2>4. places = found
    BY <1>1, <2>2
  <2>. HIDE DEF places, found
  <2>. QED  BY <2>1, <2>3, <2>4
<1>9. ASSUME NEW i \in found PROVE i \in Nat /\ i \in 0..h /\ Match(t, 0, p, i)
  <2>1. i \in Nat /\ i + k <= h /\ i + k <= l /\ i + k <= z
    BY <1>2, <1>7, SMTT(30)
  <2>2. \A j \in 1..k : b[i + j] = p[j]
    BY <1>1, <1>3, <2>1, PartIs, SMTT(30)
  <2>3. \A j \in 1..k : t[i + j] = p[j]
    <3>1. \A j \in 1..k : i + j \in 1..l
      BY <2>1
    <3>. QED  BY <1>2, <2>2, <3>1
  <2>4. \A j \in (0 + 1)..i : t[j] # NUL
    <3>1. \A j \in (0 + 1)..i : j \in 1..h
      BY <2>1
    <3>. QED  BY <1>7, <3>1
  <2>5. i \in 0..(l - k) /\ i \in 0..h
    BY <2>1
  <2>. QED  BY <1>1, <1>2, <2>1, <2>3, <2>4, <2>5 DEF Match
<1>10. ASSUME NEW i \in Nat, Match(t, 0, p, i) PROVE i \in found
  <2>1. i + k <= l /\ \A j \in 1..(i + k) : t[j] # NUL
    BY <1>1, <1>2, <1>10, MatchIsClean
  <2>2. i + k <= h
    <3>1. ASSUME h < i + k PROVE FALSE
      <4>1. h + 1 \in 1..(i + k) /\ h + 1 \in 1..l
        BY <1>7, <2>1, <3>1
      <4>. QED  BY <1>2, <1>7, <2>1, <4>1
    <3>. QED  BY <3>1
  <2>3. \A j \in 1..k : b[i + j] = p[j]
    <3>1. \A j \in 1..k : i + j \in 1..l
      BY <2>1
    <3>. QED  BY <1>1, <1>2, <1>10, <3>1 DEF Match
  <2>4. SubSeq(b, i + 1, i + k) = p
    <3>1. i + Len(p) <= Len(b)
      BY <1>1, <1>2, <2>1
    <3>. QED  BY <1>1, <1>2, <1>3, <2>3, <3>1, PartIs, ZenonT(40)
  <2>5. i \in 0..(h - k)
    BY <2>2
  <2>. QED  BY <2>4, <2>5
<1>. HIDE DEF found
<1>11. CASE found = {}
  BY <1>8, <1>10, <1>11 DEF LastMatch
<1>12. CASE found # {}
  <2>1. found \in SUBSET (0..h)
    BY <1>9
  <2>2. \E i \in found : \A j \in found : i >= j
    BY <1>12, <2>1, GreatestNat
  <2>3. PICK at : at = string_find_last(s, p)
    OBVIOUS
  <2>4. at \in found /\ \A j \in found : at >= j
    BY <1>8, <1>12, <2>2, <2>3
  <2>5. \A i \in Nat : Match(t, 0, p, i) => i <= at
    <3>1. at \in Nat
      BY <1>9, <2>4
    <3>. QED  BY <1>10, <2>4, <3>1
  <2>. QED  BY <1>9, <2>3, <2>4, <2>5 DEF LastMatch
<1>. QED  BY <1>11, <1>12

(* Where the part at an offset ends, and what it is. *)
PartEnd(s, c, sep) == IF strstr(s.buf, c, sep) = NotFound THEN s.len ELSE strstr(s.buf, c, sep)
PartAt(s, c, sep) == SubSeq(s.buf, c + 1, PartEnd(s, c, sep))

LEMMA PartEndFacts ==
  ASSUME NEW s, NEW t, Holds(s, t), NEW c \in 0..s.len, NEW sep, Pattern(sep)
  PROVE  /\ PartEnd(s, c, sep) \in c..s.len
         /\ PartEnd(s, c, sep) = s.len => \A i \in Nat : ~Match(t, c, sep, i)
         /\ PartEnd(s, c, sep) # s.len =>
              /\ Match(t, c, sep, PartEnd(s, c, sep))
              /\ \A i \in Nat : Match(t, c, sep, i) => PartEnd(s, c, sep) <= i
              /\ PartEnd(s, c, sep) + Len(sep) \in (c + 1)..s.len
<1>1. PICK at : at = strstr(s.buf, c, sep)
  OBVIOUS
<1>2. FirstMatch(t, c, sep, at)
  BY <1>1, StrstrIsFirst
<1>3. PICK l \in Nat, k \in Nat \ {0} : l = s.len /\ l = Len(t) /\ k = Len(sep)
  BY HoldsFacts, PatternFacts
<1>4. CASE at = NotFound
  <2>1. PartEnd(s, c, sep) = l
    BY <1>1, <1>3, <1>4 DEF PartEnd
  <2>2. \A i \in Nat : ~Match(t, c, sep, i)
    BY <1>2, <1>4 DEF FirstMatch, NotFound
  <2>. QED  BY <1>3, <2>1, <2>2
<1>5. CASE at # NotFound
  <2>1. PartEnd(s, c, sep) = at
    BY <1>1, <1>5 DEF PartEnd
  <2>2. at \in Nat /\ Match(t, c, sep, at) /\ \A i \in Nat : Match(t, c, sep, i) => at <= i
    BY <1>2, <1>5 DEF FirstMatch
  <2>3. c <= at /\ at + k <= l
    BY <1>3, <2>2 DEF Match
  <2>4. at \in c..l /\ at # l /\ at + k \in (c + 1)..l
    BY <1>3, <2>2, <2>3
  <2>. QED  BY <1>3, <2>1, <2>2, <2>4
<1>. QED  BY <1>4, <1>5

IsPart(a, t, c, e) ==
  /\ e \in Nat /\ c <= e /\ a = SubSeq(t, c + 1, e)
  /\ a \in Seq(Byte) /\ Len(a) = e - c
  /\ \A j \in 1..(e - c) : a[j] = t[c + j]

LEMMA PartAtFacts ==
  ASSUME NEW s, NEW t, Holds(s, t), NEW c \in 0..s.len, NEW sep, Pattern(sep)
  PROVE  IsPart(PartAt(s, c, sep), t, c, PartEnd(s, c, sep))
<1>0. PICK e : e = PartEnd(s, c, sep)
  OBVIOUS
<1>1. PICK b \in Seq(Byte), l \in Nat, z \in Nat : b = s.buf /\ l = s.len /\ z = Len(b)
  BY HoldsFacts
<1>2. b \in Seq(Byte) /\ l < z /\ t \in Seq(Byte) /\ Len(t) = l /\ \A i \in 1..l : b[i] = t[i]
  BY <1>1, HoldsFacts
<1>3. e \in c..l
  BY <1>0, <1>1, PartEndFacts
<1>4. PICK n \in Nat : n = e - c /\ c + n = e /\ c + n <= l /\ c + n <= z /\ c \in Nat
  BY <1>1, <1>2, <1>3
<1>5. PICK x, y : x = SubSeq(b, c + 1, c + n) /\ y = SubSeq(t, c + 1, c + n)
  OBVIOUS
<1>6. x \in Seq(Byte) /\ Len(x) = n /\ \A j \in 1..n : x[j] = b[j + c]
  <2>1. b \in Seq(Byte) /\ c \in Nat /\ n \in Nat /\ c + n <= Len(b)
    BY <1>1, <1>2, <1>4
  <2>. QED  BY ONLY <1>5, <2>1, MidFacts
<1>7. y \in Seq(Byte) /\ Len(y) = n /\ \A j \in 1..n : y[j] = t[j + c]
  <2>1. t \in Seq(Byte) /\ c \in Nat /\ n \in Nat /\ c + n <= Len(t)
    BY <1>2, <1>4
  <2>. QED  BY ONLY <1>5, <2>1, MidFacts
<1>8. \A j \in 1..n : j + c \in 1..l /\ j + c = c + j
  BY <1>4
<1>9. \A j \in 1..n : x[j] = y[j] /\ x[j] = t[c + j]
  BY <1>2, <1>6, <1>7, <1>8
<1>10. x = y
  BY <1>6, <1>7, <1>9, SameBytes
<1>11. PartAt(s, c, sep) = x
  BY <1>0, <1>1, <1>4, <1>5 DEF PartAt
<1>12. PartAt(s, c, sep) = SubSeq(t, c + 1, e)
  BY <1>4, <1>5, <1>10, <1>11
<1>13. e \in Nat /\ c <= e /\ e - c = n
  BY <1>4
<1>. QED  BY <1>0, <1>6, <1>9, <1>11, <1>12, <1>13 DEF IsPart

(* The recursion of SplitFrom, from an offset on. *)
SplitsAfter(f, s, sep, lo) ==
  f = [c \in lo..s.len |->
         IF PartEnd(s, c, sep) = s.len THEN <<PartAt(s, c, sep)>>
         ELSE <<PartAt(s, c, sep)>> \o f[PartEnd(s, c, sep) + Len(sep)]]

LEMMA SplitExists ==
  ASSUME NEW s, NEW t, Holds(s, t), NEW sep, Pattern(sep)
  PROVE  \E f : SplitsAfter(f, s, sep, 0)
<1>1. PICK l \in Nat : l = s.len
  BY HoldsFacts
<1>. DEFINE S == {c \in 0..l : \E f : SplitsAfter(f, s, sep, c)}
<1>2. ASSUME NEW c \in 0..l, \A e \in (c + 1)..l : e \in S PROVE c \in S
  <2>1. \E g : c # l => SplitsAfter(g, s, sep, c + 1)
    <3>1. CASE c = l
      BY <3>1
    <3>2. CASE c # l
      <4>1. c + 1 \in (c + 1)..l
        BY <3>2
      <4>. QED  BY <1>2, <4>1
    <3>. QED  BY <3>1, <3>2
  <2>2. PICK g : c # l => SplitsAfter(g, s, sep, c + 1)
    BY <2>1
  <2>. DEFINE End(d) == PartEnd(s, d, sep)
              Part(d) == PartAt(s, d, sep)
              first == IF End(c) = l THEN <<Part(c)>> ELSE <<Part(c)>> \o g[End(c) + Len(sep)]
              h == [d \in c..l |-> IF d = c THEN first ELSE g[d]]
  <2>3. ASSUME NEW d \in c..l, End(d) # l PROVE End(d) + Len(sep) \in (c + 1)..l /\ c # l
    <3>1. d \in 0..s.len /\ d \in Nat /\ c <= d
      BY <1>1
    <3>2. End(d) + Len(sep) \in (d + 1)..l
      BY <1>1, <2>3, <3>1, PartEndFacts
    <3>. QED  BY <3>1, <3>2
  <2>4. ASSUME NEW d \in (c + 1)..l PROVE h[d] = g[d] /\ d # c /\ d \in c..l
    OBVIOUS
  <2>5. c # l => \A d \in (c + 1)..l : g[d] = IF End(d) = l THEN <<Part(d)>> ELSE <<Part(d)>> \o g[End(d) + Len(sep)]
    BY <1>1, <2>2 DEF SplitsAfter
  <2>6. h[c] = first
    OBVIOUS
  <2>7. h = [d \in c..l |-> h[d]]
    OBVIOUS
  <2>. HIDE DEF h, End, Part
  <2>8. ASSUME NEW d \in c..l
        PROVE  h[d] = IF End(d) = l THEN <<Part(d)>> ELSE <<Part(d)>> \o h[End(d) + Len(sep)]
    <3>1. End(d) # l => h[End(d) + Len(sep)] = g[End(d) + Len(sep)]
      BY <2>3, <2>4
    <3>2. CASE d = c
      BY <2>6, <3>1, <3>2
    <3>3. CASE d # c
      <4>1. d \in (c + 1)..l /\ c # l
        BY <3>3
      <4>. QED  BY <2>4, <2>5, <3>1, <4>1
    <3>. QED  BY <3>2, <3>3
  <2>9. h = [d \in c..l |-> IF End(d) = l THEN <<Part(d)>> ELSE <<Part(d)>> \o h[End(d) + Len(sep)]]
    BY <2>7, <2>8
  <2>10. SplitsAfter(h, s, sep, c)
    BY <1>1, <2>9 DEF SplitsAfter, End, Part
  <2>. QED  BY <2>10
<1>. HIDE DEF S
<1>3. \A c \in 0..l : c \in S
  BY <1>2, FromTheEnd
<1>4. 0 \in S
  BY <1>3
<1>. QED  BY <1>4 DEF S

(* The parts from an offset on are the first and those behind its separator. *)
SplitsHere(s, c, sep) ==
  SplitFrom(s, c, sep) =
    IF PartEnd(s, c, sep) = s.len THEN <<PartAt(s, c, sep)>>
    ELSE <<PartAt(s, c, sep)>> \o SplitFrom(s, PartEnd(s, c, sep) + Len(sep), sep)

LEMMA SplitStep ==
  ASSUME NEW s, NEW t, Holds(s, t), NEW c \in 0..s.len, NEW sep, Pattern(sep)
  PROVE  SplitsHere(s, c, sep)
<1>. DEFINE f == CHOOSE parts : parts =
                   [d \in 0..s.len |->
                      LET at == strstr(s.buf, d, sep)
                          next == IF at = NotFound THEN s.len ELSE at
                          part == SubSeq(s.buf, d + 1, next)
                      IN IF next = s.len THEN <<part>> ELSE <<part>> \o parts[next + Len(sep)]]
<1>1. \E parts : parts =
                   [d \in 0..s.len |->
                      LET at == strstr(s.buf, d, sep)
                          next == IF at = NotFound THEN s.len ELSE at
                          part == SubSeq(s.buf, d + 1, next)
                      IN IF next = s.len THEN <<part>> ELSE <<part>> \o parts[next + Len(sep)]]
  BY SplitExists, ZenonT(40) DEF SplitsAfter, PartAt, PartEnd
<1>2. SplitsAfter(f, s, sep, 0)
  BY <1>1 DEF SplitsAfter, PartAt, PartEnd
<1>3. \A d : SplitFrom(s, d, sep) = f[d]
  BY Zenon DEF SplitFrom
<1>. HIDE DEF f
<1>4. f[c] = IF PartEnd(s, c, sep) = s.len THEN <<PartAt(s, c, sep)>>
             ELSE <<PartAt(s, c, sep)>> \o f[PartEnd(s, c, sep) + Len(sep)]
  BY <1>2 DEF SplitsAfter
<1>. QED  BY <1>3, <1>4 DEF SplitsHere

----------------------------------------------------------------------------
(* w is the parts of P, with r between them. *)
JoinsWith(g, P, r, w) ==
  /\ g \in [1..Len(P) -> Seq(Byte)] /\ g[1] = P[1] /\ w = g[Len(P)]
  /\ \A i \in 1..(Len(P) - 1) : g[i + 1] = (g[i] \o r) \o P[i + 1]

Joins(P, r, w) == \E g : JoinsWith(g, P, r, w)

LEMMA JoinsOne ==
  ASSUME NEW a \in Seq(Byte), NEW r
  PROVE  Joins(<<a>>, r, a)
<1>1. PICK P : P = <<a>>
  OBVIOUS
<1>2. Len(P) = 1 /\ P[1] = a
  BY <1>1
<1>. DEFINE g == [i \in 1..1 |-> a]
<1>3. g \in [1..1 -> Seq(Byte)] /\ g[1] = a
  OBVIOUS
<1>. HIDE DEF g
<1>4. JoinsWith(g, P, r, a)
  BY <1>2, <1>3 DEF JoinsWith
<1>. QED  BY <1>1, <1>4 DEF Joins

LEMMA JoinsType ==
  ASSUME NEW P, Len(P) \in Nat \ {0}, NEW r, NEW w, Joins(P, r, w)
  PROVE  w \in Seq(Byte)
BY DEF Joins, JoinsWith

LEMMA ConsFacts ==
  ASSUME NEW a \in Seq(Byte), NEW P \in Seq(Seq(Byte)), NEW n \in Nat, n = Len(P)
  PROVE  /\ <<a>> \o P \in Seq(Seq(Byte)) /\ Len(<<a>> \o P) = n + 1
         /\ (<<a>> \o P)[1] = a /\ \A i \in 1..n : (<<a>> \o P)[i + 1] = P[i]
<1>1. PICK u : u = <<a>>
  OBVIOUS
<1>2. PICK one \in Nat : one = 1
  OBVIOUS
<1>3. u \in Seq(Seq(Byte)) /\ one = Len(u) /\ u[1] = a
  BY <1>1, <1>2
<1>4. PICK Q : Q = u \o P
  OBVIOUS
<1>5. /\ Q \in Seq(Seq(Byte)) /\ Len(Q) = one + n
      /\ \A j \in 1..(one + n) : Q[j] = IF j <= one THEN u[j] ELSE P[j - one]
  <2>1. P \in Seq(Seq(Byte)) /\ n \in Nat /\ n = Len(P) /\ one \in Nat
    OBVIOUS
  <2>. QED  BY ONLY <1>3, <1>4, <2>1, ConcatFacts
<1>6. Q[1] = a
  <2>1. 1 \in 1..(one + n) /\ 1 <= one
    BY <1>2
  <2>. QED  BY <1>3, <1>5, <2>1
<1>7. ASSUME NEW i \in 1..n PROVE Q[i + 1] = P[i]
  <2>1. i + 1 \in 1..(one + n) /\ ~(i + 1 <= one) /\ (i + 1) - one = i
    BY <1>2
  <2>. QED  BY <1>5, <2>1
<1>. QED  BY <1>1, <1>2, <1>4, <1>5, <1>6, <1>7

(* One part more in front. *)
LEMMA JoinsCons ==
  ASSUME NEW a \in Seq(Byte), NEW P \in Seq(Seq(Byte)), P # <<>>, NEW r \in Seq(Byte), NEW w, Joins(P, r, w)
  PROVE  Joins(<<a>> \o P, r, (a \o r) \o w)
<1>1. PICK n \in Nat \ {0} : n = Len(P)
  OBVIOUS
<1>2. PICK Q : Q = <<a>> \o P
  OBVIOUS
<1>3. Q \in Seq(Seq(Byte)) /\ Len(Q) = n + 1 /\ Q[1] = a /\ \A i \in 1..n : Q[i + 1] = P[i]
  BY <1>1, <1>2, ConsFacts
<1>4. PICK g : JoinsWith(g, P, r, w)
  BY DEF Joins
<1>5. /\ g \in [1..n -> Seq(Byte)] /\ g[1] = P[1] /\ w = g[n]
      /\ \A i \in 1..(n - 1) : g[i + 1] = (g[i] \o r) \o P[i + 1]
  BY <1>1, <1>4 DEF JoinsWith
<1>6. PICK x : x = a \o r
  OBVIOUS
<1>7. x \in Seq(Byte)
  BY <1>6
<1>. DEFINE h == [i \in 1..(n + 1) |-> IF i = 1 THEN a ELSE x \o g[i - 1]]
<1>8. h \in [1..(n + 1) -> Seq(Byte)]
  <2>1. ASSUME NEW i \in 1..(n + 1), i # 1 PROVE x \o g[i - 1] \in Seq(Byte)
    <3>1. i - 1 \in 1..n
      BY <2>1
    <3>2. g[i - 1] \in Seq(Byte)
      BY <1>5, <3>1
    <3>. QED  BY <1>7, <3>2
  <2>. QED  BY <2>1
<1>9. h[1] = a /\ \A i \in 1..n : h[i + 1] = x \o g[i]
  <2>1. \A i \in 1..n : i + 1 \in 1..(n + 1) /\ i + 1 # 1 /\ (i + 1) - 1 = i
    OBVIOUS
  <2>. QED  BY <2>1, SMTT(30)
<1>. HIDE DEF h
<1>10. ASSUME NEW i \in 1..n PROVE h[i + 1] = (h[i] \o r) \o Q[i + 1]
  <2>1. CASE i = 1
    <3>1. h[i + 1] = x \o g[1] /\ h[i] = a
      BY <1>9, <2>1
    <3>2. Q[i + 1] = P[1] /\ g[1] = P[1]
      BY <1>3, <1>5, <2>1
    <3>. QED  BY <1>6, <3>1, <3>2
  <2>2. CASE i # 1
    <3>1. PICK j \in 1..(n - 1) : i = j + 1 /\ j \in 1..n /\ j + 1 \in 1..n
      <4>1. i - 1 \in 1..(n - 1) /\ i = (i - 1) + 1 /\ i - 1 \in 1..n /\ (i - 1) + 1 \in 1..n
        BY <2>2
      <4>. QED  BY <4>1
    <3>2. h[i] = x \o g[j] /\ h[i + 1] = x \o g[j + 1] /\ Q[i + 1] = P[j + 1]
      BY <1>3, <1>9, <3>1
    <3>3. g[j + 1] = (g[j] \o r) \o P[j + 1]
      BY <1>5
    <3>4. g[j] \in Seq(Byte) /\ P[j + 1] \in Seq(Byte) /\ g[j] \o r \in Seq(Byte)
      BY <1>1, <1>5, <3>1, SMTT(30)
    <3>5. x \o ((g[j] \o r) \o P[j + 1]) = (x \o (g[j] \o r)) \o P[j + 1]
      BY <1>7, <3>4, ConcatThree, ZenonT(40) DEF Associates
    <3>6. x \o (g[j] \o r) = (x \o g[j]) \o r
      BY <1>7, <3>4, ConcatThree DEF Associates
    <3>. QED  BY <3>2, <3>3, <3>5, <3>6
  <2>. QED  BY <2>1, <2>2
<1>11. JoinsWith(h, Q, r, x \o w)
  <2>1. x \o w = h[n + 1] /\ (n + 1) - 1 = n
    BY <1>5, <1>9, SMTT(30)
  <2>. QED  BY <1>3, <1>8, <1>9, <1>10, <2>1 DEF JoinsWith
<1>. QED  BY <1>2, <1>6, <1>11 DEF Joins

(* The recursion of string_join. *)
IsJoin(f, P, sep, n) ==
  f = [k \in 0..n |->
         IF k = 0 THEN string_init_bufn(<<>>)
         ELSE string_appendn(IF k = 1 THEN f[0] ELSE string_appendn(f[k - 1], sep), P[k])]

LEMMA JoinExists ==
  ASSUME NEW P, NEW sep, NEW n \in Nat
  PROVE  \E f : IsJoin(f, P, sep, n)
<1>. DEFINE S == {m \in 0..n : \E f : IsJoin(f, P, sep, m)}
<1>1. 0 \in S
  <2>. DEFINE f == [k \in 0..0 |-> string_init_bufn(<<>>)]
  <2>1. f = [k \in 0..0 |->
               IF k = 0 THEN string_init_bufn(<<>>)
               ELSE string_appendn(IF k = 1 THEN f[0] ELSE string_appendn(f[k - 1], sep), P[k])]
    OBVIOUS
  <2>2. IsJoin(f, P, sep, 0)
    BY ONLY <2>1 DEF IsJoin
  <2>. QED  BY <2>2
<1>2. ASSUME NEW m \in 0..(n - 1), m \in S PROVE m + 1 \in S
  <2>1. PICK g : IsJoin(g, P, sep, m)
    BY <1>2
  <2>. DEFINE Next1(f, k) == string_appendn(IF k = 1 THEN f[0] ELSE string_appendn(f[k - 1], sep), P[k])
              h == [k \in 0..(m + 1) |-> IF k = m + 1 THEN Next1(g, k) ELSE g[k]]
  <2>2. \A k \in 0..m : g[k] = IF k = 0 THEN string_init_bufn(<<>>) ELSE Next1(g, k)
    BY <2>1 DEF IsJoin
  <2>3. (\A k \in 0..m : h[k] = g[k] /\ k # m + 1) /\ h[m + 1] = Next1(g, m + 1)
    OBVIOUS
  <2>4. h = [k \in 0..(m + 1) |-> h[k]]
    OBVIOUS
  <2>. HIDE DEF h
  <2>5. ASSUME NEW k \in 1..(m + 1) PROVE Next1(h, k) = Next1(g, k)
    <3>1. 0 \in 0..m /\ k - 1 \in 0..m
      OBVIOUS
    <3>. QED  BY <2>3, <3>1
  <2>. HIDE DEF Next1
  <2>6. ASSUME NEW k \in 0..(m + 1) PROVE h[k] = IF k = 0 THEN string_init_bufn(<<>>) ELSE Next1(h, k)
    <3>1. k = 0 \/ k \in 1..(m + 1)
      OBVIOUS
    <3>2. k \in 0..m \/ k = m + 1
      OBVIOUS
    <3>3. m + 1 # 0
      OBVIOUS
    <3>. QED  BY <2>2, <2>3, <2>5, <3>1, <3>2, <3>3
  <2>7. h = [k \in 0..(m + 1) |-> IF k = 0 THEN string_init_bufn(<<>>) ELSE Next1(h, k)]
    BY <2>4, <2>6
  <2>8. IsJoin(h, P, sep, m + 1)
    BY <2>7 DEF IsJoin, Next1
  <2>9. m + 1 \in 0..n
    OBVIOUS
  <2>. QED  BY <2>8, <2>9
<1>. HIDE DEF S
<1>3. \A k \in 0..n : k \in S
  BY <1>1, <1>2, FromTheStart
<1>4. n \in S
  BY <1>3
<1>. QED  BY <1>4 DEF S

LEMMA JoinIs ==
  ASSUME NEW P, NEW sep, Len(P) \in Nat
  PROVE  \E f : IsJoin(f, P, sep, Len(P)) /\ string_join(P, sep) = f[Len(P)]
<1>. DEFINE G(joined) == [n \in 0..Len(P) |->
                            IF n = 0 THEN string_init_bufn(<<>>)
                            ELSE string_appendn(IF n = 1 THEN joined[0] ELSE string_appendn(joined[n - 1], sep), P[n])]
            f == CHOOSE joined : joined = G(joined)
<1>1. PICK f0 : f0 = G(f0)
  <2>1. PICK f0 : IsJoin(f0, P, sep, Len(P))
    BY JoinExists
  <2>2. f0 = G(f0)
    BY <2>1 DEF IsJoin
  <2>. QED  BY <2>2
<1>2. string_join(P, sep) = f[Len(P)]
  BY Zenon DEF string_join
<1>. HIDE DEF G
<1>3. f = G(f)
  BY <1>1
<1>. HIDE DEF f
<1>4. IsJoin(f, P, sep, Len(P))
  BY <1>3 DEF IsJoin, G
<1>. QED  BY <1>2, <1>4

(* string_join leaves the parts, with the separator between them. *)
LEMMA JoinHolds ==
  ASSUME NEW P \in Seq(Seq(Byte)), P # <<>>, NEW sep \in Seq(Byte), NEW w, Joins(P, sep, w)
  PROVE  Holds(string_join(P, sep), w) /\ TextOf(string_join(P, sep)) = w
<1>1. PICK n \in Nat \ {0} : n = Len(P)
  OBVIOUS
<1>2. PICK g : /\ g \in [1..n -> Seq(Byte)] /\ g[1] = P[1] /\ w = g[n]
               /\ \A i \in 1..(n - 1) : g[i + 1] = (g[i] \o sep) \o P[i + 1]
  BY <1>1 DEF Joins, JoinsWith
<1>3. PICK f : IsJoin(f, P, sep, n) /\ string_join(P, sep) = f[n]
  BY <1>1, JoinIs
<1>4. /\ f[0] = string_init_bufn(<<>>)
      /\ \A k \in 1..n : f[k] = string_appendn(IF k = 1 THEN f[0] ELSE string_appendn(f[k - 1], sep), P[k])
  <2>1. \A k \in 0..n : f[k] = IF k = 0 THEN string_init_bufn(<<>>)
                               ELSE string_appendn(IF k = 1 THEN f[0] ELSE string_appendn(f[k - 1], sep), P[k])
    BY <1>3 DEF IsJoin
  <2>2. 0 \in 0..n /\ \A k \in 1..n : k \in 0..n /\ k # 0
    OBVIOUS
  <2>. QED  BY <2>1, <2>2
<1>5. \A i \in 1..n : P[i] \in Seq(Byte)
  BY <1>1
<1>. DEFINE S == {k \in 0..(n - 1) : Holds(f[k + 1], g[k + 1])}
<1>6. 0 \in S
  <2>1. <<>> \in Seq(Byte) /\ 1 \in 1..n
    OBVIOUS
  <2>2. Holds(f[0], <<>>)
    BY <1>4, <2>1, InitHolds
  <2>3. f[1] = string_appendn(f[0], P[1]) /\ P[1] \in Seq(Byte)
    BY <1>4, <1>5, <2>1
  <2>4. Holds(f[1], <<>> \o P[1])
    BY <2>2, <2>3, AppendHolds
  <2>5. <<>> \o P[1] = P[1] /\ 0 + 1 = 1 /\ 0 \in 0..(n - 1)
    BY <2>3
  <2>. QED  BY <1>2, <2>4, <2>5
<1>7. ASSUME NEW k \in 0..((n - 1) - 1), k \in S PROVE k + 1 \in S
  <2>1. PICK i \in 1..(n - 1) : i = k + 1
    OBVIOUS
  <2>2. Holds(f[i], g[i])
    BY <1>7, <2>1
  <2>3. i \in 1..n /\ i + 1 \in 1..n /\ (i + 1) - 1 = i /\ i + 1 # 1 /\ i \in 0..(n - 1)
    OBVIOUS
  <2>4. f[i + 1] = string_appendn(string_appendn(f[i], sep), P[i + 1])
    BY <1>4, <2>3
  <2>5. Holds(string_appendn(f[i], sep), g[i] \o sep)
    BY <2>2, AppendHolds
  <2>6. Holds(f[i + 1], (g[i] \o sep) \o P[i + 1])
    BY <1>5, <2>3, <2>4, <2>5, AppendHolds
  <2>7. Holds(f[i + 1], g[i + 1])
    BY <1>2, <2>6
  <2>. QED  BY <2>1, <2>3, <2>7
<1>. HIDE DEF S
<1>8. \A k \in 0..(n - 1) : k \in S
  <2>1. n - 1 \in Nat
    OBVIOUS
  <2>. QED  BY ONLY <1>6, <1>7, <2>1, FromTheStart
<1>9. n - 1 \in S /\ (n - 1) + 1 = n
  BY <1>8
<1>10. Holds(f[n], g[n])
  BY <1>9 DEF S
<1>. QED  BY <1>2, <1>3, <1>10, HoldsMeans

----------------------------------------------------------------------------
(* A text is what is in front of a place, and what is behind. *)
LEMMA CutInTwo ==
  ASSUME NEW t \in Seq(Byte), NEW a \in Nat, NEW m \in Nat, NEW n \in Nat, a + m + n <= Len(t)
  PROVE  SubSeq(t, a + 1, a + m + n) = SubSeq(t, a + 1, a + m) \o SubSeq(t, a + m + 1, a + m + n)
<1>1. PICK x, y, z : /\ x = SubSeq(t, a + 1, a + m) /\ y = SubSeq(t, (a + m) + 1, (a + m) + n)
                     /\ z = SubSeq(t, a + 1, a + (m + n))
  OBVIOUS
<1>2. a + m \in Nat /\ m + n \in Nat /\ a + m <= Len(t) /\ (a + m) + n <= Len(t) /\ a + (m + n) <= Len(t)
  OBVIOUS
<1>3. x \in Seq(Byte) /\ Len(x) = m /\ \A j \in 1..m : x[j] = t[j + a]
  BY <1>1, <1>2, MidFacts
<1>4. y \in Seq(Byte) /\ Len(y) = n /\ \A j \in 1..n : y[j] = t[j + (a + m)]
  <2>1. a + m \in Nat /\ n \in Nat /\ t \in Seq(Byte)
    OBVIOUS
  <2>. QED  BY ONLY <1>1, <1>2, <2>1, MidFacts
<1>5. z \in Seq(Byte) /\ Len(z) = m + n /\ \A j \in 1..(m + n) : z[j] = t[j + a]
  <2>1. a \in Nat /\ t \in Seq(Byte)
    OBVIOUS
  <2>. QED  BY ONLY <1>1, <1>2, <2>1, MidFacts
<1>6. PICK w : w = x \o y
  OBVIOUS
<1>7. w \in Seq(Byte) /\ Len(w) = m + n /\ \A j \in 1..(m + n) : w[j] = IF j <= m THEN x[j] ELSE y[j - m]
  <2>1. m \in Nat /\ n \in Nat /\ m = Len(x) /\ n = Len(y)
    BY <1>3, <1>4
  <2>2. x \in Seq(Byte) /\ y \in Seq(Byte)
    BY <1>3, <1>4
  <2>3. /\ x \o y \in Seq(Byte) /\ Len(x \o y) = m + n
        /\ \A j \in 1..(m + n) : (x \o y)[j] = IF j <= m THEN x[j] ELSE y[j - m]
    BY ONLY <2>1, <2>2, ConcatFacts
  <2>. QED  BY ONLY <1>6, <2>3
<1>8. ASSUME NEW j \in 1..(m + n) PROVE w[j] = z[j]
  <2>1. CASE j <= m
    <3>1. j \in 1..m
      BY <2>1
    <3>. QED  BY <1>3, <1>5, <1>7, <2>1, <3>1
  <2>2. CASE ~(j <= m)
    <3>1. j - m \in 1..n /\ (j - m) + (a + m) = j + a
      BY <2>2
    <3>2. w[j] = y[j - m] /\ y[j - m] = t[j + a]
      BY <1>4, <1>7, <2>2, <3>1
    <3>. QED  BY <1>5, <3>2
  <2>. QED  BY <2>1, <2>2
<1>9. w = z
  BY <1>5, <1>7, <1>8, SameBytes
<1>10. (a + m) + n = a + m + n /\ a + (m + n) = a + m + n
  OBVIOUS
<1>. QED  BY <1>1, <1>6, <1>9, <1>10

LEMMA CutAt ==
  ASSUME NEW t \in Seq(Byte), NEW a \in Nat, NEW b \in Nat, NEW c \in Nat, a <= b, b <= c, c <= Len(t)
  PROVE  /\ SubSeq(t, a + 1, c) = SubSeq(t, a + 1, b) \o SubSeq(t, b + 1, c)
         /\ SubSeq(t, a + 1, b) \in Seq(Byte) /\ SubSeq(t, b + 1, c) \in Seq(Byte)
<1>1. PICK m \in Nat, n \in Nat : m = b - a /\ n = c - b
  OBVIOUS
<1>2. a + m = b /\ b + n = c /\ a + m + n = c
  BY <1>1
<1>3. SubSeq(t, a + 1, a + m + n) = SubSeq(t, a + 1, a + m) \o SubSeq(t, a + m + 1, a + m + n)
  BY <1>2, CutInTwo
<1>4. SubSeq(t, a + 1, a + m) \in Seq(Byte)
  <2>1. a + m <= Len(t)
    BY <1>2
  <2>. QED  BY <2>1, MidFacts
<1>5. SubSeq(t, b + 1, b + n) \in Seq(Byte)
  <2>1. b + n <= Len(t)
    BY <1>2
  <2>. QED  BY <2>1, MidFacts
<1>. QED  BY <1>2, <1>3, <1>4, <1>5

LEMMA WholeText ==
  ASSUME NEW t \in Seq(Byte)
  PROVE  SubSeq(t, 0 + 1, Len(t)) = t
<1>1. PICK n \in Nat : n = Len(t)
  OBVIOUS
<1>2. 0 + n <= Len(t) /\ 0 + n = n
  BY <1>1
<1>3. PICK x : x = SubSeq(t, 0 + 1, 0 + n)
  OBVIOUS
<1>4. x \in Seq(Byte) /\ Len(x) = n /\ \A j \in 1..n : x[j] = t[j + 0]
  BY <1>2, <1>3, MidFacts
<1>5. \A j \in 1..n : j + 0 = j
  OBVIOUS
<1>6. x = t
  BY <1>1, <1>4, <1>5, SameBytes
<1>. QED  BY <1>1, <1>2, <1>3, <1>6

(* A match is the pattern's bytes. *)
LEMMA MatchIsPattern ==
  ASSUME NEW t \in Seq(Byte), NEW off, NEW p, Pattern(p), NEW i \in Nat, Match(t, off, p, i)
  PROVE  SubSeq(t, i + 1, i + Len(p)) = p
<1>1. p \in Seq(Byte) /\ Len(p) \in Nat /\ Len(t) \in Nat
  BY PatternFacts
<1>2. i + Len(p) <= Len(t) /\ \A j \in 1..Len(p) : t[i + j] = p[j]
  BY <1>1 DEF Match
<1>. QED  BY <1>1, <1>2, PartIs

----------------------------------------------------------------------------
Rest(t, c) == SubSeq(t, c + 1, Len(t))

(* The parts from c on are texts, and together what is behind c. *)
SplitsWell(s, t, c, sep) ==
  LET parts == SplitFrom(s, c, sep) IN
  /\ parts \in Seq(Seq(Byte)) /\ parts # <<>>
  /\ Joins(parts, sep, Rest(t, c))
  /\ \A r \in Seq(Byte) : \E w : Joins(parts, r, w)

LEMMA SplitLast ==
  ASSUME NEW s, NEW t, Holds(s, t), NEW c \in 0..s.len, NEW sep, Pattern(sep), PartEnd(s, c, sep) = s.len
  PROVE  SplitFrom(s, c, sep) = <<Rest(t, c)>> /\ Rest(t, c) \in Seq(Byte)
<1>1. PartAt(s, c, sep) = SubSeq(t, c + 1, s.len) /\ PartAt(s, c, sep) \in Seq(Byte)
  BY PartAtFacts DEF IsPart
<1>2. s.len = Len(t)
  BY HoldsFacts
<1>3. SplitFrom(s, c, sep) = <<PartAt(s, c, sep)>>
  BY SplitStep DEF SplitsHere
<1>. QED  BY <1>1, <1>2, <1>3 DEF Rest

SplitsOff(s, t, c, sep, e) ==
  LET n == e + Len(sep)
      a == SubSeq(t, c + 1, e)
  IN /\ e \in Nat /\ c <= e /\ n \in (c + 1)..s.len /\ a \in Seq(Byte)
     /\ SplitFrom(s, c, sep) = <<a>> \o SplitFrom(s, n, sep)
     /\ Rest(t, c) = (a \o sep) \o Rest(t, n) /\ Rest(t, n) \in Seq(Byte)

LEMMA SplitMore ==
  ASSUME NEW s, NEW t, Holds(s, t), NEW c \in 0..s.len, NEW sep, Pattern(sep),
         NEW e, e = PartEnd(s, c, sep), e # s.len
  PROVE  SplitsOff(s, t, c, sep, e)
<1>1. PICK l \in Nat, k \in Nat \ {0} : l = s.len /\ l = Len(t) /\ k = Len(sep)
  BY HoldsFacts, PatternFacts
<1>2. t \in Seq(Byte) /\ sep \in Seq(Byte)
  BY HoldsFacts, PatternFacts
<1>3. e + Len(sep) \in (c + 1)..s.len /\ Match(t, c, sep, e)
  BY PartEndFacts
<1>4. /\ e \in Nat /\ c <= e /\ PartAt(s, c, sep) = SubSeq(t, c + 1, e)
      /\ PartAt(s, c, sep) \in Seq(Byte)
  <2>1. IsPart(PartAt(s, c, sep), t, c, e)
    BY PartAtFacts
  <2>. QED  BY <2>1 DEF IsPart
<1>5. SplitFrom(s, c, sep) = <<PartAt(s, c, sep)>> \o SplitFrom(s, e + Len(sep), sep)
  BY SplitStep DEF SplitsHere
<1>6. SubSeq(t, e + 1, e + k) = sep
  <2>1. SubSeq(t, e + 1, e + Len(sep)) = sep
    BY <1>2, <1>3, <1>4, MatchIsPattern, Zenon
  <2>. QED  BY ONLY <1>1, <2>1
<1>7. c \in Nat /\ e + k \in Nat /\ e <= e + k /\ e + k <= l /\ e <= l
  BY <1>1, <1>3, <1>4
<1>8. /\ SubSeq(t, c + 1, l) = SubSeq(t, c + 1, e) \o SubSeq(t, e + 1, l)
      /\ SubSeq(t, c + 1, e) \in Seq(Byte)
  <2>1. l \in Nat /\ l <= Len(t) /\ e \in Nat /\ c <= e
    BY <1>1, <1>4
  <2>. QED  BY ONLY <1>2, <1>7, <2>1, CutAt
<1>9. /\ SubSeq(t, e + 1, l) = sep \o SubSeq(t, (e + k) + 1, l)
      /\ SubSeq(t, (e + k) + 1, l) \in Seq(Byte)
  <2>1. l \in Nat /\ l <= Len(t) /\ e \in Nat
    BY <1>1, <1>4
  <2>2. /\ SubSeq(t, e + 1, l) = SubSeq(t, e + 1, e + k) \o SubSeq(t, (e + k) + 1, l)
        /\ SubSeq(t, (e + k) + 1, l) \in Seq(Byte)
    BY ONLY <1>2, <1>7, <2>1, CutAt
  <2>. QED  BY ONLY <1>6, <2>2
<1>10. PICK x, y : x = SubSeq(t, c + 1, e) /\ y = SubSeq(t, (e + k) + 1, l)
  OBVIOUS
<1>11. x \o (sep \o y) = (x \o sep) \o y
  BY <1>2, <1>8, <1>9, <1>10, ConcatThree, ZenonT(40) DEF Associates
<1>12. Rest(t, c) = (x \o sep) \o Rest(t, e + Len(sep)) /\ Rest(t, e + Len(sep)) = y
  BY <1>1, <1>8, <1>9, <1>10, <1>11 DEF Rest
<1>. QED  BY <1>3, <1>4, <1>5, <1>8, <1>9, <1>10, <1>12 DEF SplitsOff

LEMMA SplitJoins ==
  ASSUME NEW s, NEW t, Holds(s, t), NEW sep, Pattern(sep)
  PROVE  \A c \in 0..s.len : SplitsWell(s, t, c, sep)
<1>1. PICK l \in Nat : l = s.len /\ Len(sep) \in Nat /\ sep \in Seq(Byte)
  BY HoldsFacts, PatternFacts
<1>. DEFINE S == {c \in 0..l : SplitsWell(s, t, c, sep)}
<1>2. ASSUME NEW c \in 0..l, \A d \in (c + 1)..l : d \in S PROVE c \in S
  <2>1. PICK e : e = PartEnd(s, c, sep)
    OBVIOUS
  <2>2. CASE e = l
    <3>1. PICK a : a = Rest(t, c)
      OBVIOUS
    <3>2. SplitFrom(s, c, sep) = <<a>> /\ a \in Seq(Byte)
      BY <1>1, <2>1, <2>2, <3>1, SplitLast
    <3>3. \A r : Joins(<<a>>, r, a)
      BY <3>2, JoinsOne
    <3>4. <<a>> \in Seq(Seq(Byte)) /\ <<a>> # <<>>
      BY <3>2
    <3>. QED  BY <3>1, <3>2, <3>3, <3>4 DEF SplitsWell
  <2>3. CASE e # l
    <3>1. PICK a, n : a = SubSeq(t, c + 1, e) /\ n = e + Len(sep)
      OBVIOUS
    <3>2. /\ n \in (c + 1)..l /\ SplitFrom(s, c, sep) = <<a>> \o SplitFrom(s, n, sep)
          /\ a \in Seq(Byte) /\ Rest(t, c) = (a \o sep) \o Rest(t, n)
      <4>1. c \in 0..s.len /\ e # s.len
        BY <1>1, <2>3
      <4>2. SplitsOff(s, t, c, sep, e)
        BY <2>1, <4>1, SplitMore
      <4>. QED  BY ONLY <1>1, <3>1, <4>2 DEF SplitsOff
    <3>3. SplitsWell(s, t, n, sep)
      BY <1>2, <3>2
    <3>4. PICK P, Q : P = SplitFrom(s, n, sep) /\ Q = <<a>> \o P
      OBVIOUS
    <3>5. /\ P \in Seq(Seq(Byte)) /\ P # <<>> /\ Joins(P, sep, Rest(t, n))
          /\ \A r \in Seq(Byte) : \E w : Joins(P, r, w)
      BY <3>3, <3>4 DEF SplitsWell
    <3>6. Joins(Q, sep, Rest(t, c))
      BY <1>1, <3>2, <3>4, <3>5, JoinsCons
    <3>7. ASSUME NEW r \in Seq(Byte) PROVE \E w : Joins(Q, r, w)
      <4>1. PICK w : Joins(P, r, w)
        BY <3>5
      <4>2. Joins(Q, r, (a \o r) \o w)
        BY <3>2, <3>4, <3>5, <4>1, JoinsCons
      <4>. QED  BY <4>2
    <3>8. Q \in Seq(Seq(Byte)) /\ Q # <<>>
      <4>1. PICK m \in Nat : m = Len(P)
        BY <3>5
      <4>2. Q \in Seq(Seq(Byte)) /\ Len(Q) = m + 1
        BY <3>2, <3>4, <3>5, <4>1, ConsFacts
      <4>. QED  BY <4>2
    <3>. QED  BY <3>2, <3>4, <3>6, <3>7, <3>8 DEF SplitsWell
  <2>. QED  BY <2>2, <2>3
<1>. HIDE DEF S
<1>3. \A c \in 0..l : c \in S
  BY <1>2, FromTheEnd
<1>. QED  BY <1>1, <1>3 DEF S

----------------------------------------------------------------------------
(* In a text without a NUL no part has the separator. *)
HasNot(a, sep) == \A i \in Nat : ~Match(a, 0, sep, i)

LEMMA PartHasNot ==
  ASSUME NEW s, NEW t, Holds(s, t), NEW c \in 0..s.len, NEW sep, Pattern(sep),
         \A j \in 1..Len(t) : t[j] # NUL
  PROVE  HasNot(PartAt(s, c, sep), sep)
<1>1. PICK e, a : e = PartEnd(s, c, sep) /\ a = PartAt(s, c, sep)
  OBVIOUS
<1>2. PICK l \in Nat, k \in Nat \ {0} : l = s.len /\ l = Len(t) /\ k = Len(sep)
  BY HoldsFacts, PatternFacts
<1>3. /\ e \in Nat /\ c <= e /\ a \in Seq(Byte) /\ Len(a) = e - c
      /\ \A j \in 1..(e - c) : a[j] = t[c + j]
  BY <1>1, PartAtFacts DEF IsPart
<1>4. /\ e \in c..l
      /\ e = l => \A i \in Nat : ~Match(t, c, sep, i)
      /\ e # l => \A i \in Nat : Match(t, c, sep, i) => e <= i
  BY <1>1, <1>2, PartEndFacts
<1>5. ASSUME NEW i \in Nat, Match(a, 0, sep, i) PROVE FALSE
  <2>1. i \in 0..((e - c) - k) /\ \A j \in 1..k : a[i + j] = sep[j]
    BY <1>2, <1>3, <1>5 DEF Match
  <2>2. PICK m \in Nat : m = c + i /\ c <= m /\ m + k <= l /\ m < e
    <3>1. c + i \in Nat /\ c <= c + i /\ (c + i) + k <= l /\ c + i < e
      BY <1>2, <1>3, <1>4, <2>1
    <3>. QED  BY <3>1
  <2>3. ASSUME NEW j \in 1..k PROVE t[m + j] = sep[j]
    <3>1. i + j \in 1..(e - c) /\ c + (i + j) = m + j
      BY <1>3, <2>1, <2>2, SMTT(30)
    <3>. QED  BY <1>3, <2>1, <3>1
  <2>4. \A j \in (c + 1)..m : t[j] # NUL
    <3>1. \A j \in (c + 1)..m : j \in 1..l
      BY <1>2, <2>2
    <3>. QED  BY <1>2, <3>1
  <2>5. m \in c..(l - k)
    BY <1>2, <2>2
  <2>6. Match(t, c, sep, m)
    BY <1>2, <2>3, <2>4, <2>5 DEF Match
  <2>. QED  BY <1>3, <1>4, <2>2, <2>6
<1>. QED  BY <1>1, <1>5 DEF HasNot

LEMMA PartsHaveNot ==
  ASSUME NEW s, NEW t, Holds(s, t), NEW sep, Pattern(sep), \A j \in 1..Len(t) : t[j] # NUL
  PROVE  \A c \in 0..s.len : \A i \in 1..Len(SplitFrom(s, c, sep)) : HasNot(SplitFrom(s, c, sep)[i], sep)
<1>1. PICK l \in Nat : l = s.len
  BY HoldsFacts
<1>. DEFINE S == {c \in 0..l : \A i \in 1..Len(SplitFrom(s, c, sep)) : HasNot(SplitFrom(s, c, sep)[i], sep)}
<1>2. ASSUME NEW c \in 0..l, \A d \in (c + 1)..l : d \in S PROVE c \in S
  <2>1. PICK e, a : e = PartEnd(s, c, sep) /\ a = PartAt(s, c, sep)
    OBVIOUS
  <2>2. a \in Seq(Byte)
    BY <1>1, <2>1, PartAtFacts DEF IsPart
  <2>3. HasNot(a, sep)
    BY <1>1, <2>1, PartHasNot
  <2>4. CASE e = l
    <3>1. SplitFrom(s, c, sep) = <<a>>
      BY <1>1, <2>1, <2>4, SplitStep DEF SplitsHere
    <3>2. Len(<<a>>) = 1 /\ <<a>>[1] = a /\ \A i \in 1..1 : i = 1
      OBVIOUS
    <3>. QED  BY <2>3, <3>1, <3>2
  <2>5. CASE e # l
    <3>1. PICK n : n = e + Len(sep)
      OBVIOUS
    <3>2. n \in (c + 1)..l
      BY <1>1, <2>1, <2>5, <3>1, PartEndFacts
    <3>3. PICK P, Q : P = SplitFrom(s, n, sep) /\ Q = <<a>> \o P
      OBVIOUS
    <3>4. SplitFrom(s, c, sep) = Q
      BY <1>1, <2>1, <2>5, <3>1, <3>3, SplitStep DEF SplitsHere
    <3>5. SplitsWell(s, t, n, sep)
      BY <1>1, <3>2, SplitJoins
    <3>6. PICK m \in Nat : m = Len(P) /\ P \in Seq(Seq(Byte))
      BY <3>3, <3>5 DEF SplitsWell
    <3>7. Len(Q) = m + 1 /\ Q[1] = a /\ \A i \in 1..m : Q[i + 1] = P[i]
      BY <2>2, <3>3, <3>6, ConsFacts
    <3>8. \A i \in 1..m : HasNot(P[i], sep)
      BY <1>2, <3>2, <3>3, <3>6
    <3>9. ASSUME NEW i \in 1..Len(Q) PROVE HasNot(Q[i], sep)
      <4>1. CASE i = 1
        BY <2>3, <3>7, <4>1
      <4>2. CASE i # 1
        <5>1. i - 1 \in 1..m /\ (i - 1) + 1 = i
          BY <3>7, <4>2
        <5>. QED  BY <3>7, <3>8, <5>1
      <4>. QED  BY <4>1, <4>2
    <3>. QED  BY <3>4, <3>9
  <2>. QED  BY <2>4, <2>5
<1>. HIDE DEF S
<1>3. \A c \in 0..l : c \in S
  BY <1>2, FromTheEnd
<1>. QED  BY <1>1, <1>3 DEF S

(* So string_find does not find it there. *)
LEMMA NotFoundInPart ==
  ASSUME NEW a \in Seq(Byte), NEW sep, Pattern(sep), HasNot(a, sep)
  PROVE  string_find(string_init_bufn(a), sep) = NotFound
<1>1. PICK s : s = string_init_bufn(a)
  OBVIOUS
<1>2. Holds(s, a)
  BY <1>1, InitHolds
<1>3. 0 \in 0..s.len
  BY <1>2, HoldsFacts
<1>4. FirstMatch(a, 0, sep, strstr(s.buf, 0, sep))
  BY <1>2, <1>3, StrstrIsFirst
<1>5. strstr(s.buf, 0, sep) = NotFound
  BY <1>4 DEF FirstMatch, HasNot
<1>6. string_find(s, sep) = strstr(s.buf, 0, sep)
  BY DEF string_find, Pattern
<1>. QED  BY <1>1, <1>5, <1>6

----------------------------------------------------------------------------
(* What is behind an offset decides the parts from there on. *)
SameBehind(t, c, u, d) ==
  /\ c \in 0..Len(t) /\ d \in 0..Len(u) /\ Len(t) - c = Len(u) - d
  /\ \A j \in 1..(Len(t) - c) : t[c + j] = u[d + j]

LEMMA SameBehindBack ==
  ASSUME NEW t \in Seq(Byte), NEW c, NEW u \in Seq(Byte), NEW d, SameBehind(t, c, u, d)
  PROVE  SameBehind(u, d, t, c)
<1>1. PICK l \in Nat, m \in Nat : l = Len(t) /\ m = Len(u)
  OBVIOUS
<1>. QED  BY <1>1 DEF SameBehind

LEMMA MatchShifts ==
  ASSUME NEW t \in Seq(Byte), NEW c, NEW u \in Seq(Byte), NEW d, SameBehind(t, c, u, d),
         NEW sep, Pattern(sep), NEW i \in Nat, Match(t, c, sep, i)
  PROVE  (i - c) + d \in Nat /\ Match(u, d, sep, (i - c) + d)
<1>1. PICK l \in Nat, m \in Nat, k \in Nat \ {0} : l = Len(t) /\ m = Len(u) /\ k = Len(sep)
  BY PatternFacts
<1>2. c \in 0..l /\ d \in 0..m /\ l - c = m - d /\ \A j \in 1..(l - c) : t[c + j] = u[d + j]
  BY <1>1 DEF SameBehind
<1>3. i \in c..(l - k) /\ (\A j \in 1..k : t[i + j] = sep[j]) /\ \A j \in (c + 1)..i : t[j] # NUL
  BY <1>1 DEF Match
<1>4. PICK n \in Nat : n = (i - c) + d
  <2>1. (i - c) + d \in Nat
    BY <1>2, <1>3
  <2>. QED  BY <2>1
<1>5. n \in d..(m - k)
  BY <1>2, <1>3, <1>4, SMTT(30)
<1>6. ASSUME NEW j \in 1..k PROVE u[n + j] = sep[j]
  <2>1. (i - c) + j \in 1..(l - c) /\ c + ((i - c) + j) = i + j /\ d + ((i - c) + j) = n + j
    BY <1>2, <1>3, <1>4
  <2>. QED  BY <1>2, <1>3, <2>1
<1>7. ASSUME NEW j \in (d + 1)..n PROVE u[j] # NUL
  <2>1. j - d \in 1..(l - c) /\ c + (j - d) \in (c + 1)..i /\ d + (j - d) = j
    BY <1>1, <1>2, <1>3, <1>4
  <2>. QED  BY <1>2, <1>3, <2>1
<1>. QED  BY <1>1, <1>4, <1>5, <1>6, <1>7 DEF Match

LEMMA EndShifts ==
  ASSUME NEW s, NEW t, Holds(s, t), NEW z, NEW u, Holds(z, u), NEW c, NEW d, SameBehind(t, c, u, d),
         NEW sep, Pattern(sep)
  PROVE  PartEnd(s, c, sep) - c = PartEnd(z, d, sep) - d
<1>1. PICK l \in Nat, m \in Nat : l = Len(t) /\ m = Len(u) /\ l = s.len /\ m = z.len
  BY HoldsFacts
<1>2. t \in Seq(Byte) /\ u \in Seq(Byte) /\ c \in 0..l /\ d \in 0..m /\ l - c = m - d
  BY <1>1, HoldsFacts DEF SameBehind
<1>3. PICK e, f : e = PartEnd(s, c, sep) /\ f = PartEnd(z, d, sep)
  OBVIOUS
<1>4. /\ e \in c..l
      /\ e = l => \A i \in Nat : ~Match(t, c, sep, i)
      /\ e # l => Match(t, c, sep, e) /\ \A i \in Nat : Match(t, c, sep, i) => e <= i
  BY <1>1, <1>2, <1>3, PartEndFacts
<1>5. /\ f \in d..m
      /\ f = m => \A i \in Nat : ~Match(u, d, sep, i)
      /\ f # m => Match(u, d, sep, f) /\ \A i \in Nat : Match(u, d, sep, i) => f <= i
  BY <1>1, <1>2, <1>3, PartEndFacts
<1>6. e \in Nat /\ f \in Nat
  BY <1>2, <1>4, <1>5
<1>7. e # l => (e - c) + d \in Nat /\ Match(u, d, sep, (e - c) + d)
  BY <1>2, <1>4, <1>6, MatchShifts
<1>8. f # m => (f - d) + c \in Nat /\ Match(t, c, sep, (f - d) + c)
  <2>1. SameBehind(u, d, t, c)
    BY <1>2, SameBehindBack
  <2>. QED  BY <1>2, <1>5, <1>6, <2>1, MatchShifts
<1>9. e = l <=> f = m
  BY <1>4, <1>5, <1>7, <1>8
<1>10. e # l => f <= (e - c) + d /\ e <= (f - d) + c
  BY <1>4, <1>5, <1>7, <1>8, <1>9
<1>11. e - c = f - d
  BY <1>1, <1>2, <1>6, <1>9, <1>10, SMTT(30)
<1>. QED  BY <1>3, <1>11

LEMMA PartShifts ==
  ASSUME NEW s, NEW t, Holds(s, t), NEW z, NEW u, Holds(z, u), NEW c, NEW d, SameBehind(t, c, u, d),
         NEW sep, Pattern(sep)
  PROVE  PartAt(s, c, sep) = PartAt(z, d, sep)
<1>1. PICK l \in Nat, m \in Nat : l = Len(t) /\ m = Len(u) /\ l = s.len /\ m = z.len
  BY HoldsFacts
<1>2. /\ c \in 0..l /\ d \in 0..m /\ l - c = m - d /\ \A j \in 1..(l - c) : t[c + j] = u[d + j]
  BY <1>1 DEF SameBehind
<1>3. PICK e, f, a, b : /\ e = PartEnd(s, c, sep) /\ f = PartEnd(z, d, sep)
                        /\ a = PartAt(s, c, sep) /\ b = PartAt(z, d, sep)
  OBVIOUS
<1>4. IsPart(a, t, c, e) /\ IsPart(b, u, d, f)
  BY <1>1, <1>2, <1>3, PartAtFacts
<1>5. e \in c..l /\ e - c = f - d
  <2>1. e \in c..l
    BY <1>1, <1>2, <1>3, PartEndFacts
  <2>. QED  BY <1>3, <2>1, EndShifts
<1>6. /\ a \in Seq(Byte) /\ Len(a) = e - c /\ \A j \in 1..(e - c) : a[j] = t[c + j]
      /\ b \in Seq(Byte) /\ Len(b) = f - d /\ \A j \in 1..(f - d) : b[j] = u[d + j]
  BY <1>4 DEF IsPart
<1>7. \A j \in 1..(e - c) : j \in 1..(l - c)
  BY <1>2, <1>5
<1>8. \A j \in 1..(e - c) : a[j] = b[j]
  BY <1>2, <1>5, <1>6, <1>7
<1>9. a = b
  BY <1>5, <1>6, <1>8, SameBytes
<1>. QED  BY <1>3, <1>9

LEMMA SplitShifts ==
  ASSUME NEW s, NEW t, Holds(s, t), NEW z, NEW u, Holds(z, u), NEW sep, Pattern(sep)
  PROVE  \A c \in 0..s.len : \A d : SameBehind(t, c, u, d) => SplitFrom(s, c, sep) = SplitFrom(z, d, sep)
<1>1. PICK l \in Nat, m \in Nat, k \in Nat \ {0} :
        l = Len(t) /\ m = Len(u) /\ l = s.len /\ m = z.len /\ k = Len(sep)
  BY HoldsFacts, PatternFacts
<1>. DEFINE S == {c \in 0..l : \A d : SameBehind(t, c, u, d) => SplitFrom(s, c, sep) = SplitFrom(z, d, sep)}
<1>2. ASSUME NEW c \in 0..l, \A e \in (c + 1)..l : e \in S PROVE c \in S
  <2>1. SUFFICES ASSUME NEW d, SameBehind(t, c, u, d) PROVE SplitFrom(s, c, sep) = SplitFrom(z, d, sep)
    OBVIOUS
  <2>2. d \in 0..m /\ l - c = m - d /\ \A j \in 1..(l - c) : t[c + j] = u[d + j]
    BY <1>1, <2>1 DEF SameBehind
  <2>3. PICK e, f, a : /\ e = PartEnd(s, c, sep) /\ f = PartEnd(z, d, sep) /\ a = PartAt(s, c, sep)
    OBVIOUS
  <2>4. e - c = f - d /\ a = PartAt(z, d, sep)
    BY <2>1, <2>3, EndShifts, PartShifts
  <2>5. e \in c..l /\ f \in d..m /\ (e # l => e + k \in (c + 1)..l)
    BY <1>1, <2>2, <2>3, PartEndFacts
  <2>6. /\ SplitFrom(s, c, sep) = IF e = l THEN <<a>> ELSE <<a>> \o SplitFrom(s, e + k, sep)
        /\ SplitFrom(z, d, sep) = IF f = m THEN <<a>> ELSE <<a>> \o SplitFrom(z, f + k, sep)
    <3>1. SplitsHere(s, c, sep) /\ SplitsHere(z, d, sep)
      BY <1>1, <2>2, SplitStep
    <3>. QED  BY <1>1, <2>3, <2>4, <3>1 DEF SplitsHere
  <2>7. CASE e = l
    <3>1. f = m
      BY <2>2, <2>4, <2>5, <2>7
    <3>. QED  BY <2>6, <2>7, <3>1
  <2>8. CASE e # l
    <3>1. f # m
      BY <2>2, <2>4, <2>5, <2>8
    <3>2. SameBehind(t, e + k, u, f + k)
      <4>1. PICK n \in Nat : n = (e - c) + k
        BY <2>5
      <4>2. e + k = c + n /\ f + k = d + n /\ c + n \in 0..l /\ d + n \in 0..m /\ l - (c + n) = m - (d + n)
        <5>1. c \in Nat /\ d \in Nat /\ e \in Nat /\ f \in Nat /\ e + k \in (c + 1)..l
          BY <2>2, <2>5, <2>8
        <5>2. e + k = c + n /\ f + k = d + n
          BY <2>4, <4>1, <5>1
        <5>3. c + n \in 0..l /\ l - (c + n) = m - (d + n)
          BY <2>2, <5>1, <5>2
        <5>4. d + n \in 0..m
          BY <5>1, <5>3
        <5>. QED  BY <5>2, <5>3, <5>4
      <4>3. ASSUME NEW j \in 1..(l - (c + n)) PROVE t[(c + n) + j] = u[(d + n) + j]
        <5>1. n + j \in 1..(l - c) /\ c + (n + j) = (c + n) + j /\ d + (n + j) = (d + n) + j
          BY <2>2, <4>2
        <5>. QED  BY <2>2, <5>1
      <4>. QED  BY <1>1, <4>2, <4>3 DEF SameBehind
    <3>3. SplitFrom(s, e + k, sep) = SplitFrom(z, f + k, sep)
      BY <1>2, <2>5, <2>8, <3>2
    <3>. QED  BY <2>6, <2>8, <3>1, <3>3
  <2>. QED  BY <2>7, <2>8
<1>. HIDE DEF S
<1>3. \A c \in 0..l : c \in S
  BY <1>2, FromTheEnd
<1>. QED  BY <1>1, <1>3 DEF S

----------------------------------------------------------------------------
(* One turn of the loop (ReplaceNext) *)

(* Behind the replacement is what was behind the pattern. *)
Exchanged(t, at, k, r) == (SubSeq(t, 1, at) \o r) \o Rest(t, at + k)

KeepsBehind(t, at, k, r, u) ==
  /\ SubSeq(u, 1, at + Len(r)) = SubSeq(t, 1, at) \o r
  /\ SameBehind(t, at + k, u, at + Len(r))

LEMMA ExchangedFacts ==
  ASSUME NEW t \in Seq(Byte), NEW at \in Nat, NEW k \in Nat, at + k <= Len(t), NEW r \in Seq(Byte)
  PROVE  KeepsBehind(t, at, k, r, Exchanged(t, at, k, r))
<1>0. PICK n \in Nat : n = Len(r)
  OBVIOUS
<1>0a. PICK u : u = Exchanged(t, at, k, r)
  OBVIOUS
<1>1. PICK l \in Nat, q \in Nat : l = Len(t) /\ q = l - (at + k)
  <2>1. Len(t) \in Nat /\ Len(t) - (at + k) \in Nat
    OBVIOUS
  <2>. QED  BY <2>1
<1>2. PICK a, b : a = SubSeq(t, 1, at) /\ b = Rest(t, at + k)
  OBVIOUS
<1>3. a \in Seq(Byte) /\ Len(a) = at /\ \A j \in 1..at : a[j] = t[j]
  <2>1. at <= Len(t)
    OBVIOUS
  <2>. QED  BY <1>2, <2>1
<1>4. b \in Seq(Byte) /\ Len(b) = q /\ \A j \in 1..q : b[j] = t[j + (at + k)]
  <2>1. at + k \in Nat /\ (at + k) + q = Len(t) /\ (at + k) + q <= Len(t) /\ t \in Seq(Byte) /\ q \in Nat
    BY <1>1
  <2>2. b = SubSeq(t, (at + k) + 1, (at + k) + q)
    BY <1>2, <2>1 DEF Rest
  <2>. QED  BY ONLY <2>1, <2>2, MidFacts
<1>5. PICK w : w = a \o r
  OBVIOUS
<1>6. PICK m \in Nat : m = at + n
  OBVIOUS
<1>7. w \in Seq(Byte) /\ Len(w) = m
  <2>1. a \in Seq(Byte) /\ r \in Seq(Byte) /\ at = Len(a) /\ n = Len(r) /\ at \in Nat /\ n \in Nat
    BY <1>0, <1>3
  <2>2. a \o r \in Seq(Byte) /\ Len(a \o r) = at + n
    BY ONLY <2>1, ConcatFacts
  <2>. QED  BY ONLY <1>5, <1>6, <2>2
<1>8. u = w \o b
  BY <1>0a, <1>2, <1>5 DEF Exchanged
<1>9. u \in Seq(Byte) /\ Len(u) = m + q /\ \A j \in 1..(m + q) : u[j] = IF j <= m THEN w[j] ELSE b[j - m]
  <2>1. w \in Seq(Byte) /\ b \in Seq(Byte) /\ m = Len(w) /\ q = Len(b) /\ m \in Nat /\ q \in Nat
    BY <1>4, <1>7
  <2>2. /\ w \o b \in Seq(Byte) /\ Len(w \o b) = m + q
        /\ \A j \in 1..(m + q) : (w \o b)[j] = IF j <= m THEN w[j] ELSE b[j - m]
    BY ONLY <2>1, ConcatFacts
  <2>. QED  BY ONLY <1>8, <2>2
<1>10. SubSeq(u, 1, m) = w
  <2>1. PICK x : x = SubSeq(u, 1, m)
    OBVIOUS
  <2>2. x \in Seq(Byte) /\ Len(x) = m /\ \A j \in 1..m : x[j] = u[j]
    <3>1. m <= Len(u)
      BY <1>9
    <3>. QED  BY <1>9, <2>1, <3>1
  <2>3. \A j \in 1..m : j \in 1..(m + q) /\ j <= m
    BY <1>1
  <2>4. \A j \in 1..m : x[j] = w[j]
    BY <1>9, <2>2, <2>3
  <2>5. x = w
    BY <1>7, <2>2, <2>4, SameBytes
  <2>. QED  BY <2>1, <2>5
<1>11. SameBehind(t, at + k, u, m)
  <2>1. at + k \in 0..l /\ m \in 0..(m + q) /\ l - (at + k) = q /\ (m + q) - m = q
    BY <1>1
  <2>2. ASSUME NEW j \in 1..q PROVE t[(at + k) + j] = u[m + j]
    <3>1. m + j \in 1..(m + q) /\ ~(m + j <= m) /\ (m + j) - m = j /\ j + (at + k) = (at + k) + j
      OBVIOUS
    <3>. QED  BY <1>4, <1>9, <3>1
  <2>. QED  BY <1>1, <1>9, <2>1, <2>2 DEF SameBehind
<1>12. m = at + Len(r)
  BY <1>0, <1>6
<1>. QED  BY <1>0a, <1>2, <1>5, <1>10, <1>11, <1>12 DEF KeepsBehind

(* What the loop should leave at an offset. *)
Wanted(s, t, c, p, r) == SubSeq(t, 1, c) \o TextOf(string_join(SplitFrom(s, c, p), r))

TurnKeeps(s, t, c, p, r, at, z, u) == Wanted(z, u, at + Len(r), p, r) = Wanted(s, t, c, p, r)

LEMMA WantedStays ==
  ASSUME NEW s, NEW t, Holds(s, t), NEW c \in 0..s.len, NEW p, Pattern(p), NEW r \in Seq(Byte),
         NEW at, at = strstr(s.buf, c, p), at # NotFound,
         NEW z, NEW u, Holds(z, u), u = Replaced(t, at, p, r)
  PROVE  TurnKeeps(s, t, c, p, r, at, z, u)
<1>1. PICK l \in Nat, k \in Nat \ {0}, n \in Nat : l = s.len /\ l = Len(t) /\ k = Len(p) /\ n = Len(r)
  BY HoldsFacts, PatternFacts
<1>2. t \in Seq(Byte) /\ u \in Seq(Byte)
  BY HoldsFacts
<1>3. at \in Nat /\ Match(t, c, p, at)
  BY StrstrIsFirst DEF FirstMatch
<1>4. at = PartEnd(s, c, p)
  BY DEF PartEnd
<1>5. c \in Nat /\ c <= at /\ at + k <= l /\ at # s.len /\ at <= l
  BY <1>1, <1>3 DEF Match
<1>6. SplitsOff(s, t, c, p, at)
  BY <1>4, <1>5, SplitMore
<1>7. PICK a, d : a = SubSeq(t, c + 1, at) /\ d = at + k
  OBVIOUS
<1>8. a \in Seq(Byte) /\ d \in (c + 1)..s.len /\ SplitFrom(s, c, p) = <<a>> \o SplitFrom(s, d, p)
  BY <1>1, <1>6, <1>7 DEF SplitsOff
<1>9. d \in 0..s.len
  BY <1>1, <1>5, <1>8
<1>10. PICK P : P = SplitFrom(s, d, p)
  OBVIOUS
<1>11. SplitsWell(s, t, d, p)
  BY <1>9, SplitJoins
<1>12. P \in Seq(Seq(Byte)) /\ P # <<>> /\ \E w : Joins(P, r, w)
  BY <1>10, <1>11 DEF SplitsWell
<1>13. PICK w : Joins(P, r, w)
  BY <1>12
<1>14. w \in Seq(Byte) /\ TextOf(string_join(P, r)) = w
  <2>1. Len(P) \in Nat \ {0}
    BY <1>12
  <2>. QED  BY <1>12, <1>13, <2>1, JoinsType, JoinHolds
<1>15. PICK Q : Q = <<a>> \o P
  OBVIOUS
<1>16. TextOf(string_join(Q, r)) = (a \o r) \o w
  <2>1. Joins(Q, r, (a \o r) \o w)
    BY <1>8, <1>12, <1>13, <1>15, JoinsCons
  <2>2. Q \in Seq(Seq(Byte)) /\ Q # <<>>
    <3>1. PICK m \in Nat : m = Len(P)
      BY <1>12
    <3>2. Q \in Seq(Seq(Byte)) /\ Len(Q) = m + 1
      BY <1>8, <1>12, <1>15, <3>1, ConsFacts
    <3>. QED  BY <3>2
  <2>. QED  BY <2>1, <2>2, JoinHolds
<1>17. PICK x : x = SubSeq(t, 1, c)
  OBVIOUS
<1>18. x \in Seq(Byte) /\ SubSeq(t, 1, at) = x \o a
  <2>1. 0 \in Nat /\ 0 <= c /\ at <= Len(t) /\ 0 + 1 = 1
    BY <1>1, <1>5
  <2>2. /\ SubSeq(t, 0 + 1, at) = SubSeq(t, 0 + 1, c) \o SubSeq(t, c + 1, at)
        /\ SubSeq(t, 0 + 1, c) \in Seq(Byte)
    BY ONLY <1>2, <1>3, <1>5, <2>1, CutAt
  <2>. QED  BY <1>7, <1>17, <2>1, <2>2
<1>19. u = Exchanged(t, at, k, r)
  <2>1. u = SubSeq(t, 1, at) \o r \o SubSeq(t, at + k + 1, l)
    BY <1>1 DEF Replaced
  <2>. QED  BY <1>1, <2>1 DEF Exchanged, Rest
<1>20. SubSeq(u, 1, at + n) = SubSeq(t, 1, at) \o r /\ SameBehind(t, d, u, at + n)
  <2>1. at + k <= Len(t)
    BY <1>1, <1>5
  <2>2. KeepsBehind(t, at, k, r, u)
    BY <1>2, <1>3, <1>19, <2>1, ExchangedFacts
  <2>. QED  BY ONLY <1>1, <1>7, <2>2 DEF KeepsBehind
<1>21. SplitFrom(z, at + n, p) = P
  BY <1>9, <1>10, <1>20, SplitShifts
<1>22. Wanted(z, u, at + n, p, r) = ((x \o a) \o r) \o w
  BY <1>14, <1>18, <1>20, <1>21 DEF Wanted
<1>23. Wanted(s, t, c, p, r) = x \o ((a \o r) \o w)
  BY <1>8, <1>10, <1>15, <1>16, <1>17 DEF Wanted
<1>24. ((x \o a) \o r) \o w = x \o ((a \o r) \o w)
  <2>1. (x \o a) \o r = x \o (a \o r)
    BY <1>8, <1>18, ConcatThree DEF Associates
  <2>2. a \o r \in Seq(Byte)
    BY <1>8
  <2>3. (x \o (a \o r)) \o w = x \o ((a \o r) \o w)
    BY <1>14, <1>18, <2>2, ConcatThree DEF Associates
  <2>. QED  BY <2>1, <2>3
<1>. QED  BY <1>1, <1>22, <1>23, <1>24 DEF TurnKeeps

(* Without a match more, that is the text. *)
LEMMA WantedAtEnd ==
  ASSUME NEW s, NEW t, Holds(s, t), NEW c \in 0..s.len, NEW p, Pattern(p), NEW r \in Seq(Byte),
         strstr(s.buf, c, p) = NotFound
  PROVE  Wanted(s, t, c, p, r) = t
<1>1. PICK l \in Nat : l = s.len /\ l = Len(t) /\ t \in Seq(Byte)
  BY HoldsFacts
<1>2. PartEnd(s, c, p) = s.len
  BY DEF PartEnd
<1>3. PICK a : a = Rest(t, c)
  OBVIOUS
<1>4. SplitFrom(s, c, p) = <<a>> /\ a \in Seq(Byte)
  BY <1>2, <1>3, SplitLast
<1>5. Joins(<<a>>, r, a) /\ <<a>> \in Seq(Seq(Byte)) /\ <<a>> # <<>>
  BY <1>4, JoinsOne
<1>6. TextOf(string_join(<<a>>, r)) = a
  BY <1>5, JoinHolds
<1>7. SubSeq(t, 1, c) \o a = t
  <2>1. 0 \in Nat /\ c \in Nat /\ l \in Nat /\ 0 <= c /\ c <= l /\ l <= Len(t) /\ 0 + 1 = 1 /\ t \in Seq(Byte)
    BY <1>1
  <2>2. SubSeq(t, 0 + 1, l) = SubSeq(t, 0 + 1, c) \o SubSeq(t, c + 1, l)
    BY ONLY <2>1, CutAt
  <2>3. SubSeq(t, 0 + 1, l) = t
    BY <1>1, WholeText
  <2>. QED  BY <1>1, <1>3, <2>1, <2>2, <2>3 DEF Rest
<1>. QED  BY <1>4, <1>6, <1>7 DEF Wanted

(* At the start, the parts of the whole text joined. *)
LEMMA WantedAtStart ==
  ASSUME NEW s, NEW t, Holds(s, t), NEW p, Pattern(p), NEW r \in Seq(Byte)
  PROVE  Wanted(s, t, 0, p, r) = TextOf(string_join(string_split(s, p), r))
<1>1. 0 \in 0..s.len /\ t \in Seq(Byte)
  BY HoldsFacts
<1>2. PICK P : P = SplitFrom(s, 0, p)
  OBVIOUS
<1>3. SplitsWell(s, t, 0, p)
  BY <1>1, SplitJoins
<1>4. P \in Seq(Seq(Byte)) /\ P # <<>> /\ \E w : Joins(P, r, w)
  BY <1>2, <1>3 DEF SplitsWell
<1>5. PICK w : Joins(P, r, w)
  BY <1>4
<1>6. w \in Seq(Byte) /\ TextOf(string_join(P, r)) = w
  <2>1. Len(P) \in Nat \ {0}
    BY <1>4
  <2>. QED  BY <1>4, <1>5, <2>1, JoinsType, JoinHolds
<1>7. SubSeq(t, 1, 0) = <<>>
  BY <1>1
<1>8. <<>> \o w = w
  BY <1>6
<1>. QED  BY <1>2, <1>6, <1>7, <1>8 DEF Wanted, string_split

----------------------------------------------------------------------------
(* The searches, and the ends of the text *)

(* A pattern stands in the buffer where its bytes stand in the text. *)
LEMMA StandsAt ==
  ASSUME NEW s, NEW t, Holds(s, t), NEW p, Pattern(p), NEW i \in Nat, i + Len(p) <= s.len
  PROVE  SubSeq(s.buf, i + 1, i + Len(p)) = p <=> \A j \in 1..Len(p) : t[i + j] = p[j]
<1>1. PICK b \in Seq(Byte), l \in Nat, k \in Nat : b = s.buf /\ l = s.len /\ k = Len(p)
  BY HoldsFacts, PatternFacts
<1>2. l < Len(b) /\ Len(t) = l /\ (\A j \in 1..l : b[j] = t[j]) /\ Len(b) \in Nat
  BY <1>1, HoldsFacts
<1>3. p \in Seq(Byte) /\ i + Len(p) <= Len(b)
  BY <1>1, <1>2, PatternFacts
<1>4. SubSeq(b, i + 1, i + Len(p)) = p <=> \A j \in 1..Len(p) : b[i + j] = p[j]
  BY <1>3, PartIs
<1>5. \A j \in 1..Len(p) : i + j \in 1..l
  BY <1>1
<1>6. \A j \in 1..Len(p) : b[i + j] = t[i + j]
  BY <1>2, <1>5
<1>. QED  BY <1>1, <1>4, <1>6

LEMMA StartsIsMatch ==
  ASSUME NEW s, NEW t, Holds(s, t), NEW p, Pattern(p)
  PROVE  string_starts_with(s, p) <=> Match(t, 0, p, 0)
<1>1. PICK l \in Nat, k \in Nat \ {0} : l = s.len /\ l = Len(t) /\ k = Len(p)
  BY HoldsFacts, PatternFacts
<1>2. ASSUME k <= l PROVE SubSeq(s.buf, 1, k) = p <=> \A j \in 1..k : t[0 + j] = p[j]
  <2>0. PICK i \in Nat : i = 0
    OBVIOUS
  <2>1. i + Len(p) <= s.len /\ i + 1 = 1 /\ i + k = k
    BY <1>1, <1>2, <2>0
  <2>2. SubSeq(s.buf, i + 1, i + Len(p)) = p <=> \A j \in 1..Len(p) : t[i + j] = p[j]
    BY ONLY Holds(s, t), Pattern(p), i \in Nat, <2>1, StandsAt
  <2>. QED  BY ONLY <1>1, <2>0, <2>1, <2>2
<1>3. Match(t, 0, p, 0) <=> k <= l /\ \A j \in 1..k : t[0 + j] = p[j]
  <2>1. 0 \in 0..(l - k) <=> k <= l
    OBVIOUS
  <2>2. \A j \in (0 + 1)..0 : t[j] # NUL
    OBVIOUS
  <2>. QED  BY <1>1, <2>1, <2>2 DEF Match
<1>4. string_starts_with(s, p) <=> k <= l /\ SubSeq(s.buf, 1, k) = p
  BY <1>1 DEF string_starts_with
<1>. QED  BY <1>2, <1>3, <1>4

LEMMA EndsIsMatch ==
  ASSUME NEW s, NEW t, Holds(s, t), NEW p, Pattern(p), \A j \in 1..Len(t) : t[j] # NUL
  PROVE  string_ends_with(s, p) <=> s.len - Len(p) \in Nat /\ Match(t, 0, p, s.len - Len(p))
<1>1. PICK l \in Nat, k \in Nat \ {0} : l = s.len /\ l = Len(t) /\ k = Len(p)
  BY HoldsFacts, PatternFacts
<1>2. string_ends_with(s, p) <=> k <= l /\ SubSeq(s.buf, l - k + 1, l) = p
  BY <1>1 DEF string_ends_with
<1>3. CASE k <= l
  <2>1. PICK i \in Nat : i = l - k
    <3>1. l - k \in Nat
      BY <1>3
    <3>. QED  BY <3>1
  <2>2. i + Len(p) <= s.len /\ i + k = l
    BY <1>1, <2>1
  <2>3. SubSeq(s.buf, i + 1, i + Len(p)) = p <=> \A j \in 1..Len(p) : t[i + j] = p[j]
    BY ONLY Holds(s, t), Pattern(p), i \in Nat, <2>2, StandsAt
  <2>4. \A j \in (0 + 1)..i : t[j] # NUL
    <3>1. \A j \in (0 + 1)..i : j \in 1..l
      BY <2>2
    <3>. QED  BY <1>1, <3>1
  <2>5. i \in 0..(l - k)
    BY <2>1
  <2>6. Match(t, 0, p, i) <=> \A j \in 1..k : t[i + j] = p[j]
    BY <1>1, <2>4, <2>5 DEF Match
  <2>7. string_ends_with(s, p) <=> Match(t, 0, p, i)
    BY <1>1, <1>2, <1>3, <2>1, <2>2, <2>3, <2>6
  <2>. QED  BY <1>1, <2>1, <2>7
<1>4. CASE ~(k <= l)
  <2>1. l - k \notin Nat
    BY <1>4
  <2>. QED  BY <1>1, <1>2, <1>4, <2>1
<1>. QED  BY <1>3, <1>4

(* What a search finds, of a text that the buffer holds. *)
LEMMA SearchFacts ==
  ASSUME NEW s, NEW t, Holds(s, t), NEW p, Pattern(p),
         NEW first, first = string_find(s, p), NEW last, last = string_find_last(s, p)
  PROVE  /\ (first = NotFound) = (last = NotFound) /\ first <= last
         /\ string_starts_with(s, p) = (first = 0)
         /\ (\A j \in 1..Len(t) : t[j] # NUL) =>
              string_ends_with(s, p) = (last # NotFound /\ last = s.len - Len(p))
<1>1. PICK l \in Nat, k \in Nat \ {0} : l = s.len /\ l = Len(t) /\ k = Len(p)
  BY HoldsFacts, PatternFacts
<1>2. FirstMatch(t, 0, p, first)
  <2>1. 0 \in 0..s.len /\ first = strstr(s.buf, 0, p)
    BY <1>1 DEF string_find, Pattern
  <2>. QED  BY <2>1, StrstrIsFirst
<1>3. LastMatch(t, p, last)
  BY FindLastIsLast
<1>4. NotFound = 0 - 1 /\ NotFound \notin Nat
  BY DEF NotFound
<1>5. first = NotFound <=> last = NotFound
  BY <1>2, <1>3, <1>4 DEF FirstMatch, LastMatch
<1>6. first <= last
  BY <1>2, <1>3, <1>4 DEF FirstMatch, LastMatch
<1>7. Match(t, 0, p, 0) <=> first = 0
  BY <1>2, <1>4 DEF FirstMatch
<1>8. string_starts_with(s, p) <=> first = 0
  BY <1>7, StartsIsMatch
<1>9. ASSUME \A j \in 1..Len(t) : t[j] # NUL
      PROVE  string_ends_with(s, p) <=> last # NotFound /\ last = l - k
  <2>1. string_ends_with(s, p) <=> l - k \in Nat /\ Match(t, 0, p, l - k)
    BY <1>1, <1>9, EndsIsMatch
  <2>2. ASSUME l - k \in Nat, Match(t, 0, p, l - k) PROVE last = l - k
    <3>1. last \in Nat /\ Match(t, 0, p, last) /\ l - k <= last
      BY <1>3, <2>2 DEF LastMatch
    <3>2. last \in 0..(l - k)
      BY <1>1, <3>1 DEF Match
    <3>. QED  BY <2>2, <3>1, <3>2
  <2>3. ASSUME last # NotFound, last = l - k PROVE l - k \in Nat /\ Match(t, 0, p, l - k)
    BY <1>3, <2>3 DEF LastMatch
  <2>. QED  BY <1>4, <2>1, <2>2, <2>3
<1>10. string_starts_with(s, p) \in BOOLEAN /\ string_ends_with(s, p) \in BOOLEAN
  BY DEF string_starts_with, string_ends_with
<1>. QED  BY <1>1, <1>5, <1>6, <1>8, <1>9, <1>10

(* The parts of a text, joined, are the text; none has the separator.        *)
LEMMA PartsFacts ==
  ASSUME NEW s, NEW t, Holds(s, t), NEW sep, Pattern(sep)
  PROVE  /\ TextOf(string_join(string_split(s, sep), sep)) = t
         /\ (\A j \in 1..Len(t) : t[j] # NUL) =>
              \A i \in 1..Len(string_split(s, sep)) :
                string_find(string_init_bufn(string_split(s, sep)[i]), sep) = NotFound
<1>1. 0 \in 0..s.len /\ t \in Seq(Byte) /\ sep \in Seq(Byte)
  BY HoldsFacts, PatternFacts
<1>2. PICK P : P = SplitFrom(s, 0, sep)
  OBVIOUS
<1>3. string_split(s, sep) = P
  BY <1>2 DEF string_split
<1>4. SplitsWell(s, t, 0, sep)
  BY <1>1, SplitJoins
<1>5. P \in Seq(Seq(Byte)) /\ P # <<>> /\ Joins(P, sep, Rest(t, 0))
  BY <1>2, <1>4 DEF SplitsWell
<1>6. Rest(t, 0) = t
  BY <1>1, WholeText DEF Rest
<1>7. TextOf(string_join(P, sep)) = t
  BY <1>1, <1>5, <1>6, JoinHolds
<1>8. ASSUME \A j \in 1..Len(t) : t[j] # NUL, NEW i \in 1..Len(P)
      PROVE  string_find(string_init_bufn(P[i]), sep) = NotFound
  <2>1. HasNot(P[i], sep)
    BY <1>1, <1>2, <1>8, PartsHaveNot
  <2>2. P[i] \in Seq(Byte)
    BY <1>5
  <2>. QED  BY <2>1, <2>2, NotFoundInPart
<1>. QED  BY <1>3, <1>7, <1>8

----------------------------------------------------------------------------
(* The loop *)

LEMMA ArgIsPattern == \A p \in Args \ {<<>>} : Pattern(p)
BY ArgBytes DEF Pattern

LEMMA LoopStays ==
  ASSUME SearchInv, StringNext
  PROVE  LoopInv'
<1>1. StringInv /\ LoopInv /\ Holds(string, text)
  BY HoldsMeans DEF SearchInv, StringInv, BufferIsText
<1>2. LoopInv <=> (replacing # NotReplacing =>
                     replacing.wanted = Wanted(string, text, replacing.off, replacing.pattern, replacing.replacement))
  BY DEF LoopInv, Wanted
<1>3. LoopInv' <=> (replacing' # NotReplacing =>
                      replacing'.wanted = Wanted(string', text', replacing'.off, replacing'.pattern,
                                                 replacing'.replacement))
  BY DEF LoopInv, Wanted
<1>4. CASE ReplaceNext
  <2>1. PICK off, pattern, replacement, wanted :
          /\ off \in 0..string.len /\ pattern \in Args \ {<<>>} /\ replacement \in Args
          /\ replacing = [off |-> off, pattern |-> pattern, replacement |-> replacement, wanted |-> wanted]
    BY <1>1, <1>4 DEF StringInv, ReplaceNext
  <2>2. PICK at : at = NextMatch
    OBVIOUS
  <2>3. at = strstr(string.buf, off, pattern) /\ at # NotFound
    BY <1>4, <2>1, <2>2 DEF NextMatch, ReplaceNext
  <2>4. /\ text' = Replaced(text, at, pattern, replacement)
        /\ replacing' = [off |-> at + Len(replacement), pattern |-> pattern,
                         replacement |-> replacement, wanted |-> wanted]
    BY <1>4, <2>1, <2>2 DEF ReplaceNext
  <2>5. Holds(string', text')
    <3>1. StringInv'
      BY <1>1, <1>4, ReplaceNextKeeps
    <3>. QED  BY <3>1, HoldsMeans DEF StringInv, BufferIsText, Cap, TextOf
  <2>6. Pattern(pattern) /\ replacement \in Seq(Byte)
    BY <2>1, ArgIsPattern, ArgBytes
  <2>7. Wanted(string', text', at + Len(replacement), pattern, replacement)
          = Wanted(string, text, off, pattern, replacement)
    <3>1. PICK s, t, z, u : s = string /\ t = text /\ z = string' /\ u = text'
      OBVIOUS
    <3>2. Holds(s, t) /\ Holds(z, u) /\ off \in 0..s.len /\ at = strstr(s.buf, off, pattern)
      BY <1>1, <2>1, <2>3, <2>5, <3>1
    <3>3. u = Replaced(t, at, pattern, replacement)
      BY <2>4, <3>1
    <3>4. TurnKeeps(s, t, off, pattern, replacement, at, z, u)
      BY ONLY <2>3, <2>6, <3>2, <3>3, WantedStays
    <3>. QED  BY ONLY <3>1, <3>4 DEF TurnKeeps
  <2>8. wanted = Wanted(string, text, off, pattern, replacement)
    BY <1>1, <1>2, <1>4, <2>1 DEF ReplaceNext
  <2>. QED  BY <1>3, <2>4, <2>7, <2>8
<1>5. ASSUME NEW pattern \in Args \ {<<>>}, NEW replacement \in Args,
             string_replace_all(pattern, replacement)
      PROVE  LoopInv'
  <2>1. PICK wanted :
          /\ wanted = TextOf(string_join(string_split(string, pattern), replacement))
          /\ replacing' = [off |-> 0, pattern |-> pattern, replacement |-> replacement, wanted |-> wanted]
          /\ string' = string /\ text' = text
    BY <1>5 DEF string_replace_all
  <2>2. Pattern(pattern) /\ replacement \in Seq(Byte)
    BY ArgIsPattern, ArgBytes
  <2>3. Wanted(string, text, 0, pattern, replacement) = wanted
    BY <1>1, <2>1, <2>2, WantedAtStart
  <2>. QED  BY <1>3, <2>1, <2>3
<1>6. CASE ReplaceEnds
  BY <1>3, <1>6 DEF ReplaceEnds
<1>7. ASSUME NEW after, NEW wanted, StringOp(after, wanted) PROVE LoopInv'
  BY <1>3, <1>7 DEF StringOp
<1>. QED  BY <1>4, <1>5, <1>6, <1>7 DEF StringNext, Erase

(* The invariant of the searches: in the middle of replacing every match,    *)
(* what the loop should leave is what it left so far and the parts behind,   *)
(* joined by the replacement (string.c, string_replace_all).                 *)
THEOREM SearchInvariant == StringSpec => []SearchInv
<1>1. StringInit => LoopInv
  BY DEF StringInit, LoopInv
<1>2. ASSUME SearchInv, [StringNext]_stringVars PROVE LoopInv'
  <2>1. CASE StringNext
    BY <1>2, <2>1, LoopStays
  <2>2. CASE UNCHANGED stringVars
    BY <1>2, <2>2 DEF SearchInv, LoopInv, stringVars
  <2>. QED  BY <1>2, <2>1, <2>2
<1>. QED  BY <1>1, <1>2, StringInvariant, PTL DEF StringSpec, SearchInv

(* Splitting and joining are inverse, the searches agree with each other and *)
(* with the ends of the text, and replacing every match leaves the joined    *)
(* parts, whatever was called before (string.c).                             *)
THEOREM TextsAreSearched == StringSpec => []SearchesAgree
<1>1. ASSUME SearchInv PROVE SearchesAgree
  <2>1. StringInv /\ LoopInv /\ Holds(string, text)
    BY <1>1, HoldsMeans DEF SearchInv, StringInv, BufferIsText
  <2>2. NUL \notin Range(text) => \A j \in 1..Len(text) : text[j] # NUL
    BY <2>1 DEF StringInv, Range
  <2>3. ASSUME NEW sep \in Args \ {<<>>}
        PROVE  LET parts == string_split(string, sep)
                   first == string_find(string, sep)
                   last == string_find_last(string, sep)
                   clean == NUL \notin Range(text)
               IN /\ TextOf(string_join(parts, sep)) = text
                  /\ clean => \A i \in 1..Len(parts) : string_find(string_init_bufn(parts[i]), sep) = NotFound
                  /\ (first = NotFound) = (last = NotFound) /\ first <= last
                  /\ string_starts_with(string, sep) = (first = 0)
                  /\ clean => (string_ends_with(string, sep) = (last # NotFound /\ last = string.len - Len(sep)))
    <3>1. Pattern(sep)
      BY ArgIsPattern
    <3>2. /\ TextOf(string_join(string_split(string, sep), sep)) = text
          /\ NUL \notin Range(text) =>
               \A i \in 1..Len(string_split(string, sep)) :
                 string_find(string_init_bufn(string_split(string, sep)[i]), sep) = NotFound
      BY <2>1, <2>2, <3>1, PartsFacts
    <3>3. PICK first, last : first = string_find(string, sep) /\ last = string_find_last(string, sep)
      OBVIOUS
    <3>4. /\ (first = NotFound) = (last = NotFound) /\ first <= last
          /\ string_starts_with(string, sep) = (first = 0)
          /\ NUL \notin Range(text) =>
               string_ends_with(string, sep) = (last # NotFound /\ last = string.len - Len(sep))
      BY <2>1, <2>2, <3>1, <3>3, SearchFacts
    <3>. QED  BY <3>2, <3>3, <3>4
  <2>4. ASSUME replacing # NotReplacing, NextMatch = NotFound PROVE text = replacing.wanted
    <3>1. PICK off, pattern, replacement :
            /\ off \in 0..string.len /\ pattern \in Args \ {<<>>} /\ replacement \in Args
            /\ off = replacing.off /\ pattern = replacing.pattern /\ replacement = replacing.replacement
      BY <2>1, <2>4 DEF StringInv
    <3>2. Pattern(pattern) /\ replacement \in Seq(Byte)
      BY <3>1, ArgIsPattern, ArgBytes
    <3>3. strstr(string.buf, off, pattern) = NotFound
      BY <2>4, <3>1 DEF NextMatch
    <3>4. Wanted(string, text, off, pattern, replacement) = text
      BY <2>1, <3>1, <3>2, <3>3, WantedAtEnd
    <3>5. replacing.wanted = Wanted(string, text, off, pattern, replacement)
      BY <2>1, <2>4, <3>1 DEF LoopInv, Wanted
    <3>. QED  BY <3>4, <3>5
  <2>. QED  BY <2>3, <2>4 DEF SearchesAgree
<1>. QED  BY <1>1, SearchInvariant, PTL
=============================================================================
