------------------------------- MODULE IniFile -------------------------------
(***************************************************************************)
(* INI files (src/src/iniparse) and the configuration on top of them       *)
(* (src/src/libqgit/config).  A file is a sequence of lines, each as the   *)
(* parser takes it; a parsed file is a sequence of sections, each with the *)
(* sequence of its entries.  What is written is text, which may be taken   *)
(* for other lines than were meant: names and values are written as they   *)
(* are, whatever they hold.                                                *)
(*                                                                         *)
(* A text is a sequence of characters, of which those with a meaning to    *)
(* the parser are told apart; the others stand for any run of letters.     *)
(* Every line ends in a newline.                                           *)
(***************************************************************************)
EXTENDS Integers, Sequences, SequencesExt

CONSTANTS Letters,    \* characters without a meaning
          NoSection,  \* sec == NULL
          NoValue,    \* val == NULL: an entry without "="
          Deleted     \* key == NULL

Space == "space"      \* isspace, but for the newline
Newline == "newline"
Comments == {";", "#"}
Chars == Letters \cup {Space, Newline, "[", "]", "="} \cup Comments
Text == Seq(Chars)
NoText == <<>>        \* the value of "key="

Spots(t, c) == {i \in 1..Len(t) : t[i] = c}
Solid(t) == {i \in 1..Len(t) : t[i] # Space}

(* A text without the spaces at its ends. *)
Trimmed(t) == IF Solid(t) = {} THEN <<>> ELSE SubSeq(t, Min(Solid(t)), Max(Solid(t)))

(* The names and values that the parser can read, which it takes from lines. *)
SecNames == {s \in Text : Spots(s, Newline) = {} /\ Spots(s, "]") = {} /\ Trimmed(s) = s}
KeyNames == {k \in Text : /\ Spots(k, Newline) = {} /\ Spots(k, "=") = {} /\ Trimmed(k) = k
                          /\ k # <<>> => k[1] \notin {"["} \cup Comments}
Texts == {v \in Text : Spots(v, Newline) = {}}

ASSUME NullIsNoText == {NoSection, NoValue, Deleted} \cap Text = {}

----------------------------------------------------------------------------
(* Lines *)

SectionLine(s) == [kind |-> "section", sec |-> s]
EntryLine(k, v) == [kind |-> "entry", key |-> k, val |-> v]
CommentLine == [kind |-> "comment"]  \* or a blank line
BrokenLine == [kind |-> "broken"]    \* "[" without "]"

Lines ==
  {CommentLine, BrokenLine} \cup [kind : {"section"}, sec : SecNames]
  \cup [kind : {"entry"}, key : KeyNames, val : {NoValue} \cup Texts]

(* The line that iniparse_parse takes a text without a newline for, and what *)
(* parse_section and parse_entry cut out of it.                              *)
LineOf(t) ==
  LET p == Min(Solid(t))
      close == Min(Spots(t, "]"))
      equals == Min(Spots(t, "="))
  IN IF Solid(t) = {} \/ t[p] \in Comments THEN CommentLine
     ELSE IF t[p] = "[" THEN
       IF Spots(t, "]") = {} THEN BrokenLine ELSE SectionLine(Trimmed(SubSeq(t, p + 1, close - 1)))
     ELSE IF Spots(t, "=") = {} THEN EntryLine(Trimmed(t), NoValue)
     ELSE EntryLine(Trimmed(SubSeq(t, 1, equals - 1)), SubSeq(t, equals + 1, Len(t)))

(* A text at its newlines. *)
NewlinesBefore(t, i) == Cardinality({j \in Spots(t, Newline) : j < i})
SplitLines(t) ==
  LET part(n) == {i \in 1..Len(t) : t[i] # Newline /\ NewlinesBefore(t, i) = n - 1}
  IN [n \in 1..(NewlinesBefore(t, Len(t) + 1) + 1) |->
        IF part(n) = {} THEN <<>> ELSE SubSeq(t, Min(part(n)), Max(part(n)))]
LinesOf(t) == [n \in 1..Len(SplitLines(t)) |-> LineOf(SplitLines(t)[n])]

(* What iniparse_writeto writes of a section and of an entry, as it reads. *)
WrittenSection(s) == LinesOf(<<"[">> \o s \o <<"]">>)
WrittenEntry(k, v) == LinesOf(<<Space>> \o k \o <<"=">> \o v)

----------------------------------------------------------------------------
(* Lists in memory *)

(* Of names that were read, and any that a caller may set. *)
AnyEntries == [key : {Deleted} \cup Text, val : {NoValue} \cup Text]
AnySections == [sec : Text, entries : Seq(AnyEntries)]

(* As it is read: a name is the section of one place only. *)
IniEntries == [key : {Deleted} \cup KeyNames, val : {NoValue} \cup Texts]
IniSections == [sec : SecNames, entries : Seq(IniEntries)]
IsIni(ini) ==
  /\ ini \in Seq(IniSections)
  /\ \A i, j \in 1..Len(ini) : ini[i].sec = ini[j].sec => i = j

(* A new entry at the end of its section, which is made if there is none. *)
put(ini, s, k, v) ==
  LET i == SelectInSeq(ini, LAMBDA x : x.sec = s)
      entry == [key |-> k, val |-> v]
  IN IF i = 0 THEN Append(ini, [sec |-> s, entries |-> <<entry>>])
     ELSE [ini EXCEPT ![i].entries = Append(@, entry)]

Trim(val) == IF val = NoValue THEN NoValue ELSE Trimmed(val)

(* A line; an entry outside of a section is an error, and one without "="    *)
(* takes the line behind it along.                                           *)
ParseLine(acc, line) ==
  IF ~acc.ok THEN acc
  ELSE IF acc.skip THEN [acc EXCEPT !.skip = FALSE]
  ELSE CASE line.kind = "comment" -> acc
         [] line.kind = "section" -> [acc EXCEPT !.sec = line.sec]
         [] line.kind = "broken" -> [acc EXCEPT !.sec = NoSection]
         [] line.kind = "entry" /\ acc.sec = NoSection -> [acc EXCEPT !.ok = FALSE]
         [] line.kind = "entry" /\ acc.sec # NoSection ->
              [acc EXCEPT !.ini = put(@, acc.sec, line.key, Trim(line.val)),
                          !.skip = (line.val = NoValue)]

NothingRead == [ini |-> <<>>, sec |-> NoSection, skip |-> FALSE, ok |-> TRUE]

iniparse_parse(lines) ==
  LET after[n \in 0..Len(lines)] ==
        IF n = 0 THEN NothingRead ELSE ParseLine(after[n - 1], lines[n])
  IN after[Len(lines)]

(* getentry: the places of the section and of its first entry of the key. *)
SecAt(ini, s) == SelectInSeq(ini, LAMBDA x : x.sec = s)
EntryAt(ini, s, k) ==
  IF SecAt(ini, s) = 0 THEN 0
  ELSE SelectInSeq(ini[SecAt(ini, s)].entries, LAMBDA e : e.key = k)

iniparse_get(ini, s, k) ==
  IF EntryAt(ini, s, k) = 0 THEN NoValue
  ELSE ini[SecAt(ini, s)].entries[EntryAt(ini, s, k)].val

(* Mutant: the entry is put again. *)
SetAgain(ini, s, k, v) == put(ini, s, k, v)

iniparse_set(ini, s, k, v) ==
  IF EntryAt(ini, s, k) = 0 THEN put(ini, s, k, v)
  ELSE [ini EXCEPT ![SecAt(ini, s)].entries[EntryAt(ini, s, k)].val = v]

(* Only the first entry of the key, which stays in its place without a key. *)
iniparse_unset(ini, s, k) ==
  [ini EXCEPT ![SecAt(ini, s)].entries[EntryAt(ini, s, k)] = [key |-> Deleted, val |-> NoValue]]

(* What the loops over the entries of a section write of each: of one that *)
(* was deleted nothing, and a value that is NULL as an empty one.          *)
Item(x, e) == [sec |-> x.sec, key |-> e.key, val |-> IF e.val = NoValue THEN NoText ELSE e.val]
Items(x) ==
  FlattenSeq([j \in 1..Len(x.entries) |->
                IF x.entries[j].key = Deleted THEN <<>> ELSE <<Item(x, x.entries[j])>>])
(* Mutant: a value that is NULL is left out, with the "=". *)
SectionLinesBare(x) ==
  WrittenSection(x.sec)
  \o FlattenSeq([j \in 1..Len(x.entries) |->
                   CASE x.entries[j].key = Deleted -> <<>>
                     [] x.entries[j].key # Deleted /\ x.entries[j].val = NoValue ->
                          LinesOf(<<Space>> \o x.entries[j].key)
                     [] OTHER -> WrittenEntry(x.entries[j].key, x.entries[j].val)])

SectionLines(x) ==
  WrittenSection(x.sec)
  \o FlattenSeq([j \in 1..Len(Items(x)) |-> WrittenEntry(Items(x)[j].key, Items(x)[j].val)])

(* iniparse_writeto; iniparse_fprint, of qgit config --list. *)
iniparse_write(ini) == FlattenSeq([i \in 1..Len(ini) |-> SectionLines(ini[i])])
iniparse_fprint(ini) == FlattenSeq([i \in 1..Len(ini) |-> Items(ini[i])])
=============================================================================
