-------------------------------- MODULE OidText --------------------------------
(***************************************************************************)
(* Ids as bytes and as hexadecimal texts (libqgit/oid), and the            *)
(* abbreviations of them that name a stored object (the loop over a fanout *)
(* directory in loose_read_prefix.c).  An id is a sequence of bytes, a     *)
(* text a sequence of characters.                                          *)
(***************************************************************************)
EXTENDS Integers, Sequences

CONSTANTS RawSz,    \* QGIT_OID_RAWSZ, the bytes of an id
          HexTexts, \* texts a user may give for an id
          RawIds    \* ids that are read as bytes

VARIABLES short, full, \* two ids in memory
          given,     \* the text short was made from
          accepted   \* whether it was a text of an id

oidVars == <<short, full, given, accepted>>

ASSUME RawSzIsPositive == RawSz \in Nat \ {0}
ASSUME RawIdsAreBytes == RawIds \subseteq [1..RawSz -> 0..255]
ASSUME HexTextsAreSequences == \A str \in HexTexts : Len(str) \in Nat /\ DOMAIN str = 1..Len(str)

HexSz == 2 * RawSz
MinPrefix == 2 \* QGIT_OID_MINPREFIXLEN, not less than the name of a fanout directory

hexdigits == <<"0", "1", "2", "3", "4", "5", "6", "7", "8", "9", "a", "b", "c", "d", "e", "f">>
UpperDigits == <<"A", "B", "C", "D", "E", "F">>

(* The character c is a digit of value v, in either case. *)
Stands(c, v) == hexdigits[v + 1] = c \/ (v >= 10 /\ UpperDigits[v - 9] = c)

hexval(c) ==
  IF \E v \in 0..15 : Stands(c, v) THEN CHOOSE v \in 0..15 : Stands(c, v) ELSE -1

fmt_one(raw) == <<hexdigits[(raw \div 16) + 1], hexdigits[(raw % 16) + 1]>>

qgit_oid_fmt(id) == [k \in 1..HexSz |-> fmt_one(id[(k + 1) \div 2])[2 - (k % 2)]]

(* The fanout directory of an id and the name of its file there. *)
qgit_oid_pathfmt(id) ==
  LET hex == qgit_oid_fmt(id) IN <<SubSeq(hex, 1, 2), SubSeq(hex, 3, HexSz)>>

(* As much of the text as a buffer of n characters has room for. *)
qgit_oid_tostr(n, id) ==
  LET hexlen == IF n - 1 > HexSz THEN HexSz ELSE n - 1
      pairs == hexlen \div 2
  IN [k \in 1..hexlen |-> IF k <= 2 * pairs THEN fmt_one(id[(k + 1) \div 2])[2 - (k % 2)]
                          ELSE hexdigits[(id[pairs + 1] \div 16) + 1]]

(* The first byte in which two ids differ decides, as in memcmp. *)
Compare(a, b, n) ==
  LET differ == {i \in 1..n : a[i] # b[i]}
  IN IF differ = {} THEN 0
     ELSE LET i == CHOOSE i \in differ : \A j \in differ : i <= j IN a[i] - b[i]

qgit_oid_cmp(a, b) == Compare(a, b, RawSz)

qgit_oid_iszero(id) == qgit_oid_cmp(id, [i \in 1..RawSz |-> 0]) = 0

(* The first len digits; of an odd number the last is half a byte. *)
qgit_oid_ncmp(a, b, len) ==
  LET n == IF len > HexSz THEN HexSz ELSE len
      whole == Compare(a, b, n \div 2)
  IN IF whole # 0 \/ n % 2 = 0 THEN whole
     ELSE (a[(n \div 2) + 1] \div 16) - (b[(n \div 2) + 1] \div 16)

(* Mutant: the digit that is left over goes to the lower half of its byte. *)
FromstrnUnshifted(id, str) ==
  LET length == Len(str)
      bad == {k \in 1..(length \div 2) : hexval(str[2 * k - 1]) < 0 \/ hexval(str[2 * k]) < 0}
      pairs == IF bad = {} THEN length \div 2 ELSE (CHOOSE k \in bad : \A m \in bad : k <= m) - 1
      ok == bad = {} /\ (length % 2 = 1 => hexval(str[length]) >= 0)
  IN IF length = 0 \/ length > HexSz THEN [ok |-> FALSE, id |-> id]
     ELSE [ok |-> ok,
           id |-> [i \in 1..RawSz |->
                     IF i <= pairs THEN 16 * hexval(str[2 * i - 1]) + hexval(str[2 * i])
                     ELSE IF ~ok THEN id[i]
                     ELSE IF 2 * i - 1 = length THEN hexval(str[length]) ELSE 0]]

(* The pairs of digits up to a bad one are written even when the text is     *)
(* refused; an odd digit is the upper half of a byte, and zeros follow.      *)
qgit_oid_fromstrn(id, str) ==
  LET length == Len(str)
      bad == {k \in 1..(length \div 2) : hexval(str[2 * k - 1]) < 0 \/ hexval(str[2 * k]) < 0}
      pairs == IF bad = {} THEN length \div 2 ELSE (CHOOSE k \in bad : \A m \in bad : k <= m) - 1
      ok == bad = {} /\ (length % 2 = 1 => hexval(str[length]) >= 0)
  IN IF length = 0 \/ length > HexSz THEN [ok |-> FALSE, id |-> id]
     ELSE [ok |-> ok,
           id |-> [i \in 1..RawSz |->
                     IF i <= pairs THEN 16 * hexval(str[2 * i - 1]) + hexval(str[2 * i])
                     ELSE IF ~ok THEN id[i]
                     ELSE IF 2 * i - 1 = length THEN 16 * hexval(str[length]) ELSE 0]]

(* 0 for the text of the id, 1 for that of another, -1 for no text of an id. *)
qgit_oid_streq(id, str) ==
  LET read == qgit_oid_fromstrn(id, str)
  IN IF Len(str) # HexSz \/ ~read.ok THEN -1
     ELSE IF qgit_oid_cmp(id, read.id) = 0 THEN 0 ELSE 1

(* Whether read_prefix takes the object stored as id for the one that the    *)
(* first len digits of abbrev stand for: the directory is its own, the       *)
(* rest of the digits are compared with the name of the file.                *)
PrefixMatches(id, abbrev, len) ==
  LET path == qgit_oid_pathfmt(id)
      hex == qgit_oid_fmt(abbrev)
  IN /\ path[1] = SubSeq(hex, 1, 2)
     /\ SubSeq(path[2], 1, len - 2) = SubSeq(hex, 3, len)

FromText ==
  \E str \in HexTexts :
    LET read == qgit_oid_fromstrn(short, str) IN
    /\ short' = read.id /\ accepted' = read.ok
    /\ given' = str
    /\ UNCHANGED full

FromRaw ==
  /\ short' \in RawIds
  /\ given' = <<>> /\ accepted' = FALSE
  /\ UNCHANGED full

Cpy == full' = short /\ UNCHANGED <<short, given, accepted>>

OidInit ==
  /\ short \in RawIds /\ full = short
  /\ given = <<>> /\ accepted = FALSE

OidNext == FromText \/ FromRaw \/ Cpy
OidSpec == OidInit /\ [][OidNext]_oidVars

Digits(str) == [i \in DOMAIN str |-> hexval(str[i])]
FirstDigits(id, n) == SubSeq(qgit_oid_fmt(id), 1, n)

Accepts(str) == Len(str) \in 1..HexSz /\ \A i \in DOMAIN str : hexval(str[i]) >= 0

(* The half of a byte that is the k-th digit of an id. *)
Nibble(id, k) == IF k % 2 = 1 THEN id[(k + 1) \div 2] \div 16 ELSE id[(k + 1) \div 2] % 16

(* Bytes and texts are the same ids: a text of one digit up to all of them   *)
(* is accepted, in either case, and reads as its digits with zeros behind    *)
(* them; comparing n digits of two ids, an odd n included, is comparing n    *)
(* characters of their texts, and their order; an abbreviation finds the     *)
(* stored objects whose text it begins and no other; a file belongs to one   *)
(* id (oid_fromstrn.c, oid_ncmp.c, oid_tostr.c, oid_pathfmt.c, oid_streq.c,  *)
(* and the fanout directory of loose_read_prefix.c).                         *)
OidsAreTheirText ==
  /\ given # <<>> => (accepted <=> Accepts(given))
  /\ accepted =>
       /\ Digits(qgit_oid_fmt(short)) = [i \in 1..HexSz |-> IF i <= Len(given) THEN hexval(given[i]) ELSE 0]
       /\ Len(given) >= MinPrefix =>
            (PrefixMatches(full, short, Len(given)) <=> Digits(FirstDigits(full, Len(given))) = Digits(given))
  /\ \A n \in 1..(HexSz + 1) :
       LET m == IF n > HexSz THEN HexSz ELSE n
           a == Digits(FirstDigits(short, m))
           b == Digits(FirstDigits(full, m))
       IN /\ qgit_oid_ncmp(short, full, n) = 0 <=> a = b
          /\ qgit_oid_ncmp(short, full, n) < 0 <=>
               \E i \in 1..m : a[i] < b[i] /\ \A j \in 1..(i - 1) : a[j] = b[j]
          /\ qgit_oid_tostr(n, short) = FirstDigits(short, n - 1)
  /\ qgit_oid_streq(short, qgit_oid_fmt(full)) = 0 <=> short = full
  /\ qgit_oid_pathfmt(short) = qgit_oid_pathfmt(full) <=> short = full
  /\ qgit_oid_iszero(short) <=> qgit_oid_fmt(short) = [i \in 1..HexSz |-> "0"]

(* What holds of every state, and is kept by every call: beside the types,   *)
(* a text that was accepted is in the id it was read into.                   *)
OidInv ==
  /\ short \in [1..RawSz -> 0..255] /\ full \in [1..RawSz -> 0..255]
  /\ Len(given) \in Nat /\ DOMAIN given = 1..Len(given)
  /\ given # <<>> => (accepted <=> Accepts(given))
  /\ accepted => /\ Accepts(given)
                 /\ \A k \in 1..HexSz :
                      Nibble(short, k) = IF k <= Len(given) THEN hexval(given[k]) ELSE 0
===============================================================================
