----------------------------- MODULE StringBuf -----------------------------
(***************************************************************************)
(* The string builder (collection/string.c): a buffer of cap + 1 bytes, of *)
(* which the first len are the text and the next one is a NUL.  Every      *)
(* operation is the calls of memcpy and memmove the code makes; the text   *)
(* they should leave is kept beside them, as a plain sequence.             *)
(*                                                                         *)
(* Allocation does not fail: a call that fails changes nothing.  Bytes     *)
(* that realloc adds are Junk, a byte no text has.                         *)
(***************************************************************************)
EXTENDS Integers, Sequences, SequencesExt

CONSTANTS Chars,           \* bytes a caller may push, NUL among them
          Args,            \* C strings a caller may pass
          InitialCapacity, \* INITIAL_CAPACITY, 16 in the code
          SizeLimit,       \* numbers of size_t, 2^64
          MaxLen           \* bound: bytes of text

VARIABLES string,   \* [buf, len]
          text,     \* the text as it should be
          replacing \* the loop of string_replace_all under way, and what it should leave

stringVars == <<string, text, replacing>>

Byte == 0..255
NUL == 0

ASSUME CharsAreBytes == Chars \subseteq Byte
ASSUME ArgsAreCStrings == Args \subseteq Seq(Byte \ {NUL})
ASSUME CapacityIsPositive == InitialCapacity \in Nat \ {0}
ASSUME LimitsAreNats == MaxLen \in Nat /\ SizeLimit \in Nat

Space == 1
Lower == 2
Upper == 3
Junk == 9
GrowthFactor == 2

Cap(s) == Len(s.buf) - 1
TextOf(s) == SubSeq(s.buf, 1, s.len)
Smaller(m, n) == IF m < n THEN m ELSE n

(* The sum of two numbers of size_t, which is one. *)
SizeSum(m, n) == IF m + n < SizeLimit THEN m + n ELSE m + n - SizeLimit

memcpy(buf, at, src) ==
  [i \in DOMAIN buf |-> IF at < i /\ i <= at + Len(src) THEN src[i - at] ELSE buf[i]]

memmove(buf, to, from, n) == memcpy(buf, to, SubSeq(buf, from + 1, from + n))

Terminated(buf, len) == [buf |-> memcpy(buf, len, <<NUL>>), len |-> len]

Realloc(s, cap) ==
  [i \in 1..(cap + 1) |-> IF i <= Len(s.buf) THEN s.buf[i] ELSE Junk]

string_init_bufn(src) == Terminated(src \o <<Junk>>, Len(src))

string_reserve(s, cap) == IF Cap(s) >= cap THEN s ELSE Terminated(Realloc(s, cap), s.len)

string_shrink(s) == Terminated(SubSeq(s.buf, 1, s.len + 1), s.len)

string_clear(s) == Terminated(s.buf, 0)

string_assignn(s, src) ==
  LET n == Len(src) IN
  Terminated(memcpy(IF n <= Cap(s) THEN s.buf ELSE Realloc(s, n), 0, src), n)

string_pushback(s, c) ==
  LET r == IF s.len = Cap(s)
           THEN string_reserve(s, IF Cap(s) = 0 THEN InitialCapacity ELSE Cap(s) * GrowthFactor)
           ELSE s
  IN Terminated(memcpy(r.buf, r.len, <<c>>), r.len + 1)

string_popback(s) == Terminated(s.buf, s.len - 1)

(* Mutant: the capacity is compared with the text alone. *)
RoomForShort(s, n) == IF n > Cap(s) THEN string_reserve(s, s.len + n) ELSE s

(* The buffer has room for n more bytes. *)
RoomFor(s, n) == IF n > Cap(s) - s.len THEN string_reserve(s, s.len + n) ELSE s

string_appendn(s, src) ==
  LET r == RoomFor(s, Len(src)) IN
  IF src = <<>> THEN s ELSE Terminated(memcpy(r.buf, r.len, src), r.len + Len(src))

string_prependn(s, src) ==
  LET n == Len(src)
      r == RoomFor(s, n)
  IN IF n = 0 THEN s
     ELSE Terminated(memcpy(memmove(r.buf, n, 0, r.len), 0, src), r.len + n)

string_insert(s, pos, src) ==
  LET n == Len(src)
      r == RoomFor(s, n)
  IN IF n = 0 THEN s
     ELSE IF pos >= s.len THEN string_appendn(s, src)
     ELSE IF pos = 0 THEN string_prependn(s, src)
     ELSE Terminated(memcpy(memmove(r.buf, pos + n, pos, r.len - pos), pos, src), r.len + n)

(* Of m bytes from pos on, those the text has; pos is at most its length.  The *)
(* end is compared with the length after the sum, which is that of size_t: one *)
(* that wraps is an end before pos, and the text grows by what is copied there *)
(* (what goes behind the end of the buffer is lost in the model).              *)
string_erase(s, pos, m) ==
  LET end == Smaller(SizeSum(pos, m), s.len) IN
  Terminated(memmove(s.buf, pos, end, s.len - end), s.len - (end - pos))

----------------------------------------------------------------------------
(* Searching: offsets from 0, NotFound when there is no match *)

NotFound == 0 - 1

(* strstr from an offset: the first match before the next NUL. *)
strstr(buf, off, pattern) ==
  LET Match(i) == SubSeq(buf, i + 1, i + Len(pattern)) = pattern
      found == {i \in off..(Len(buf) - Len(pattern)) :
                  Match(i) /\ \A j \in (off + 1)..i : buf[j] # NUL}
  IN IF found = {} THEN NotFound ELSE CHOOSE i \in found : \A j \in found : i <= j

string_find(s, pattern) == IF pattern = <<>> THEN NotFound ELSE strstr(s.buf, 0, pattern)

(* strrstr: the last match before the first NUL. *)
string_find_last(s, pattern) ==
  LET hlen == SelectInSeq(s.buf, LAMBDA c : c = NUL) - 1
      found == {i \in 0..(hlen - Len(pattern)) : SubSeq(s.buf, i + 1, i + Len(pattern)) = pattern}
  IN IF pattern = <<>> \/ found = {} THEN NotFound ELSE CHOOSE i \in found : \A j \in found : i >= j

string_starts_with(s, prefix) ==
  Len(prefix) <= s.len /\ SubSeq(s.buf, 1, Len(prefix)) = prefix

string_ends_with(s, suffix) ==
  Len(suffix) <= s.len /\ SubSeq(s.buf, s.len - Len(suffix) + 1, s.len) = suffix

(* The pattern at an offset gives way to the replacement. *)
Exchange(s, off, pattern, replacement) ==
  LET grown == Len(replacement) - Len(pattern)
      r == IF grown > 0 THEN string_reserve(s, s.len + grown) ELSE s
      moved == memmove(r.buf, off + Len(replacement), off + Len(pattern),
                       r.len - off - Len(pattern))
  IN Terminated(memcpy(moved, off, replacement), r.len + grown)

string_replace(s, pattern, replacement) ==
  LET off == string_find(s, pattern) IN
  IF off = NotFound THEN s ELSE Exchange(s, off, pattern, replacement)

(* The parts from cur on. *)
SplitFrom(s, cur, sep) ==
  LET parts[c \in 0..s.len] ==
        LET at == strstr(s.buf, c, sep)
            next == IF at = NotFound THEN s.len ELSE at
            part == SubSeq(s.buf, c + 1, next)
        IN IF next = s.len THEN <<part>> ELSE <<part>> \o parts[next + Len(sep)]
  IN parts[cur]

(* Mutant: nothing behind a separator at the end. *)
SplitWithoutEnd(s, sep) ==
  LET parts == SplitFrom(s, 0, sep) IN
  IF Len(parts) > 1 /\ Last(parts) = <<>> THEN Front(parts) ELSE parts

(* string_split: a separator at the end leaves an empty part behind it. *)
string_split(s, sep) == SplitFrom(s, 0, sep)

(* string_join_str: every part appended, the separator before all but the first. *)
string_join(parts, sep) ==
  LET joined[n \in 0..Len(parts)] ==
        IF n = 0 THEN string_init_bufn(<<>>)
        ELSE string_appendn(IF n = 1 THEN joined[0] ELSE string_appendn(joined[n - 1], sep), parts[n])
  IN joined[Len(parts)]

----------------------------------------------------------------------------
(* Whole-text operations *)

tolower(c) == IF c = Upper THEN Lower ELSE c
toupper(c) == IF c = Lower THEN Upper ELSE c

string_lowercase(s) ==
  [s EXCEPT !.buf = [i \in DOMAIN s.buf |-> IF i <= s.len THEN tolower(s.buf[i]) ELSE s.buf[i]]]

string_uppercase(s) ==
  [s EXCEPT !.buf = [i \in DOMAIN s.buf |-> IF i <= s.len THEN toupper(s.buf[i]) ELSE s.buf[i]]]


string_trim_start(s) ==
  LET i == CHOOSE n \in 0..s.len :
             /\ \A j \in 1..n : s.buf[j] = Space
             /\ n = s.len \/ s.buf[n + 1] # Space
  IN IF i = 0 THEN s ELSE Terminated(memmove(s.buf, 0, i, s.len - i), s.len - i)

string_trim_end(s) ==
  LET i == CHOOSE n \in 0..s.len :
             /\ \A j \in (n + 1)..s.len : s.buf[j] = Space
             /\ n = 0 \/ s.buf[n] # Space
  IN IF i < s.len THEN Terminated(s.buf, i) ELSE s

string_reverse(s) ==
  [s EXCEPT !.buf = [i \in DOMAIN s.buf |-> IF i <= s.len THEN s.buf[s.len + 1 - i] ELSE s.buf[i]]]

----------------------------------------------------------------------------
(* The string as its callers see it *)

TrimmedStart(t) == SubSeq(t, SelectInSeq(t \o <<NUL>>, LAMBDA c : c # Space), Len(t))

(* The match at an offset, or none, gives way. *)
Replaced(t, off, pattern, replacement) ==
  IF off = NotFound THEN t
  ELSE SubSeq(t, 1, off) \o replacement \o SubSeq(t, off + Len(pattern) + 1, Len(t))

NotReplacing == [off |-> NotFound, pattern |-> <<>>, replacement |-> <<>>, wanted |-> <<>>]

(* One call, and what it should make of the text. *)
StringOp(after, wanted) ==
  /\ replacing = NotReplacing
  /\ Len(wanted) <= MaxLen
  /\ string' = after /\ text' = wanted
  /\ UNCHANGED replacing

(* The loop starts, one action for each of its turns; without a match it     *)
(* does nothing.                                                             *)
string_replace_all(pattern, replacement) ==
  LET wanted == TextOf(string_join(string_split(string, pattern), replacement)) IN
  /\ replacing = NotReplacing
  /\ string_find(string, pattern) # NotFound /\ Len(wanted) <= MaxLen
  /\ replacing' = [off |-> 0, pattern |-> pattern, replacement |-> replacement, wanted |-> wanted]
  /\ UNCHANGED <<string, text>>

NextMatch == strstr(string.buf, replacing.off, replacing.pattern)

(* The search goes on behind what was put in. *)
ReplaceNext ==
  LET r == replacing IN
  /\ r # NotReplacing /\ r.off <= string.len /\ NextMatch # NotFound
  /\ string' = Exchange(string, NextMatch, r.pattern, r.replacement)
  /\ text' = Replaced(text, NextMatch, r.pattern, r.replacement)
  /\ replacing' = [r EXCEPT !.off = NextMatch + Len(r.replacement)]

ReplaceEnds ==
  /\ replacing # NotReplacing
  /\ replacing.off > string.len \/ NextMatch = NotFound
  /\ replacing' = NotReplacing
  /\ UNCHANGED <<string, text>>

(* The call of string_erase, and what its description says of it (string.h:252). *)
Erase(pos, m) ==
  StringOp(string_erase(string, pos, m), SubSeq(text, 1, pos) \o SubSeq(text, pos + m + 1, Len(text)))

StringInit ==
  \E src \in Args : string = string_init_bufn(src) /\ text = src /\ replacing = NotReplacing

StringNext ==
  \/ \E n \in 0..MaxLen : StringOp(string_reserve(string, n), text)
  \/ StringOp(string_shrink(string), text)
  \/ StringOp(string_clear(string), <<>>)
  \/ \E c \in Chars : StringOp(string_pushback(string, c), Append(text, c))
  \/ string.len > 0 /\ StringOp(string_popback(string), Front(text))
  \/ \E src \in Args :
       \/ StringOp(string_assignn(string, src), src)
       \/ StringOp(string_appendn(string, src), text \o src)
       \/ StringOp(string_prependn(string, src), src \o text)
       \/ \E pos \in 0..MaxLen :
            LET at == Smaller(pos, Len(text)) IN
            StringOp(string_insert(string, pos, src),
                     SubSeq(text, 1, at) \o src \o SubSeq(text, at + 1, Len(text)))
  \/ \E pos \in 0..string.len, m \in 0..(SizeLimit - 1) : pos + m < SizeLimit /\ Erase(pos, m)
  \/ \E pattern \in Args \ {<<>>}, replacement \in Args :
       \/ StringOp(string_replace(string, pattern, replacement),
                   Replaced(text, string_find(string, pattern), pattern, replacement))
       \/ string_replace_all(pattern, replacement)
  \/ ReplaceNext \/ ReplaceEnds
  \/ StringOp(string_lowercase(string), [i \in DOMAIN text |-> tolower(text[i])])
  \/ StringOp(string_uppercase(string), [i \in DOMAIN text |-> toupper(text[i])])
  \/ StringOp(string_trim_start(string), TrimmedStart(text))
  \/ StringOp(string_trim_end(string), Reverse(TrimmedStart(Reverse(text))))
  \/ StringOp(string_reverse(string), Reverse(text))

StringSpec == StringInit /\ [][StringNext]_stringVars

(* The calls StringNext leaves out: the end of what is to go is no size_t.  No *)
(* program of the repository makes them.                                       *)
EraseFar ==
  \E pos \in 0..string.len, m \in 0..(SizeLimit - 1) : pos + m >= SizeLimit /\ Erase(pos, m)

FarSpec == StringInit /\ [][StringNext \/ EraseFar]_stringVars

(* The buffer always holds the text that the calls made, ended by a NUL      *)
(* within its capacity: no call reads a byte that realloc added or writes    *)
(* behind the end, whatever was reserved, shrunk or cut before, and in the   *)
(* middle of replacing every match (string.c, memmove and the capacity tests *)
(* of every operation).  One call is excepted, and breaks it: string_erase   *)
(* with a number of bytes whose sum with the position is no size_t.          *)
BufferIsText ==
  /\ string.len <= Cap(string) /\ string.buf[string.len + 1] = NUL
  /\ TextOf(string) = text

(* Splitting and joining are inverse, no part of a text without a NUL holds  *)
(* the separator, and the searches agree with the ends of the text.          *)
(* Replacing every match leaves what joining the parts between them would,   *)
(* though it goes on searching in the text that it changes (string_split,    *)
(* string_join_str, string_find, string_find_last, string_replace_all).      *)
SearchesAgree ==
  /\ \A sep \in Args \ {<<>>} :
       LET parts == string_split(string, sep)
           first == string_find(string, sep)
           last == string_find_last(string, sep)
           clean == NUL \notin Range(text)
       IN /\ TextOf(string_join(parts, sep)) = text
          /\ clean => \A i \in 1..Len(parts) : string_find(string_init_bufn(parts[i]), sep) = NotFound
          /\ (first = NotFound) = (last = NotFound) /\ first <= last
          /\ string_starts_with(string, sep) = (first = 0)
          /\ clean => (string_ends_with(string, sep) = (last # NotFound /\ last = string.len - Len(sep)))
  /\ replacing # NotReplacing /\ NextMatch = NotFound => text = replacing.wanted

(* What holds of every state, and is kept by every call. *)
StringInv ==
  /\ string \in [buf : Seq(Byte), len : Nat] /\ text \in Seq(Byte)
  /\ BufferIsText
  /\ replacing # NotReplacing =>
       replacing \in [off : 0..string.len, pattern : Args \ {<<>>}, replacement : Args,
                     wanted : {replacing.wanted}]

(* What the loop of string_replace_all should leave is what is in front of   *)
(* its offset, and the parts behind it joined by the replacement.            *)
LoopInv ==
  LET r == replacing
      parts == SplitFrom(string, r.off, r.pattern)
  IN r # NotReplacing =>
       r.wanted = SubSeq(text, 1, r.off) \o TextOf(string_join(parts, r.replacement))

SearchInv == StringInv /\ LoopInv
=============================================================================
