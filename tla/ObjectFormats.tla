---------------------------- MODULE ObjectFormats ----------------------------
(***************************************************************************)
(* The texts of the objects: what commit_create, tag_create, the tree      *)
(* builder and rawobj_fmt write, and what the parsers of libqgit/object    *)
(* and libqgit/odb/rawobj read back.                                       *)
(*                                                                         *)
(* A text is a sequence of words: an id in hexadecimal, a decimal, the     *)
(* keyword of a header line or a piece of a name is one word, and so is    *)
(* each character the parsers look for.  Lengths count words.              *)
(***************************************************************************)
EXTENDS Integers, Sequences, SequencesExt, TLC

CONSTANTS Ids,         \* ids, as they are written in hexadecimal
          Raw,         \* [Ids -> the words of an id in a tree, QGIT_OID_RAWSZ of them]
          Signatures,  \* [name, email, time, offset]
          Messages,    \* messages of commits and tags; NoMessage for none
          Forests,     \* sequences of the entries [mode, path, oid] of a tree
          ForeignLines \* header lines of other programs

VARIABLES buf,  \* the object as it is compressed into its file
          meant \* the object

formatVars == <<buf, meant>>

LF == "LF"
Nul == "NUL"
NoMessage == <<"NULL">>
Bad == [type |-> "bad"]
Types == {"commit", "tree", "blob", "tag"}
Numbers == -60..150
Numerals == {ToString(n) : n \in Numbers}
RawSize == 2
Number(word) == CHOOSE n \in Numbers : ToString(n) = word
Absolute(n) == IF n < 0 THEN -n ELSE n

(* The first index from p on where word is; 0 if there is none. *)
IndexFrom(text, p, word) ==
  LET at == {i \in p..Len(text) : text[i] = word}
  IN IF at = {} THEN 0 ELSE CHOOSE i \in at : \A j \in at : i <= j

----------------------------------------------------------------------------
(* Writing *)

(* Mutant: the sign of the hours. *)
ZoneOfHours(offset) ==
  <<IF Absolute(offset) >= 60 /\ offset < 0 THEN "-" ELSE "+",
    ToString(Absolute(offset) \div 60), ToString(Absolute(offset) % 60)>>

Zone(offset) == <<IF offset < 0 THEN "-" ELSE "+",
                  ToString(Absolute(offset) \div 60), ToString(Absolute(offset) % 60)>>

SignatureLine(field, s) ==
  <<field, " ">> \o s.name \o <<" ", "<">> \o s.email
    \o <<">", " ", ToString(s.time), " ">> \o Zone(s.offset) \o <<LF>>

commit_fmt(c) ==
  <<"tree", " ", c.tree[1], LF>>
    \o FlattenSeq([i \in DOMAIN c.parents |-> <<"parent", " ", c.parents[i], LF>>])
    \o SignatureLine("author", c.author[1]) \o SignatureLine("committer", c.committer[1])
    \o <<LF>> \o (IF c.message = NoMessage THEN <<>> ELSE c.message) \o <<LF>>

tag_fmt(t) ==
  <<"object", " ", t.object[1], LF, "type", " ", t.target[1], LF, "tag", " ">> \o t.name[1]
    \o <<LF>> \o SignatureLine("tagger", t.tagger[1])
    \o <<LF>> \o (IF t.message = NoMessage THEN <<>> ELSE Append(t.message, LF))

tree_fmt(entries) ==
  FlattenSeq([i \in DOMAIN entries |->
    <<entries[i].mode, " ">> \o entries[i].path \o <<Nul>> \o Raw[entries[i].oid]])

rawobj_fmt(type, data) == <<type, " ", ToString(Len(data)), Nul>> \o data

----------------------------------------------------------------------------
(* Reading *)

(* offset_from_timezone *)
Offset(sign, hours, minutes) ==
  (IF sign = "+" THEN 1 ELSE -1) * (Number(hours) * 60 + Number(minutes))

(* The signature at p of a header, and where the next line starts.  It is    *)
(* found by its brackets, on this line or a later one.                       *)
signature_parse(h, p) ==
  LET less == IndexFrom(h, p, "<")
      more == IF less = 0 THEN 0 ELSE IndexFrom(h, less, ">")
      zone == more + 4
      end == IF more = 0 THEN 0 ELSE IndexFrom(h, zone, LF)
  IN IF end = 0 \/ end < zone + 3 \/ h[more + 2] \notin Numerals \/ h[more + 3] # " "
     THEN [sig |-> <<>>, next |-> 0]
     ELSE [sig |-> <<[name |-> SubSeq(h, p, less - 2), email |-> SubSeq(h, less + 1, more - 1),
                      time |-> Number(h[more + 2]),
                      offset |-> Offset(h[zone], h[zone + 1], h[zone + 2])]>>,
           next |-> end + 1]

Field(h, p, word) == p < Len(h) /\ h[p] = word /\ h[p + 1] = " "

LineEnd(h, p) == LET end == IndexFrom(h, p, LF) IN IF end = 0 THEN Len(h) + 1 ELSE end

(* The header of a commit from p on; a line no field starts is skipped, and  *)
(* what is behind an id is read as a line of its own.                        *)
RECURSIVE CommitHeader(_, _, _)
CommitHeader(h, p, out) ==
  LET Signature(f) ==
        LET read == signature_parse(h, p + 2)
        IN IF out[f] # <<>> \/ read.sig = <<>> THEN Bad
           ELSE CommitHeader(h, read.next, [out EXCEPT ![f] = read.sig])
      hasId == p + 3 <= Len(h) /\ h[p + 2] \in Ids
  IN IF p > Len(h)
     THEN IF out.tree = <<>> \/ out.author = <<>> \/ out.committer = <<>> THEN Bad ELSE out
     ELSE IF h[p] = LF THEN CommitHeader(h, p + 1, out)
     ELSE IF Field(h, p, "tree")
          THEN IF out.tree # <<>> \/ ~hasId THEN Bad
               ELSE CommitHeader(h, p + 3, [out EXCEPT !.tree = <<h[p + 2]>>])
     ELSE IF Field(h, p, "parent")
          THEN IF ~hasId THEN Bad
               ELSE CommitHeader(h, p + 3, [out EXCEPT !.parents = Append(@, h[p + 2])])
     ELSE IF Field(h, p, "author") THEN Signature("author")
     ELSE IF Field(h, p, "committer") THEN Signature("committer")
     ELSE CommitHeader(h, LineEnd(h, p), out)

(* The header of a tag from p on: the type and the name are what is left of  *)
(* their lines.                                                              *)
RECURSIVE TagHeader(_, _, _)
TagHeader(h, p, out) ==
  LET end == LineEnd(h, p)
      rest == SubSeq(h, p + 2, end - 1)
      read == signature_parse(h, p + 2)
  IN IF p > Len(h)
     THEN IF \E f \in {"object", "target", "name", "tagger"} : out[f] = <<>> THEN Bad ELSE out
     ELSE IF h[p] = LF THEN TagHeader(h, p + 1, out)
     ELSE IF Field(h, p, "object")
          THEN IF out.object # <<>> \/ p + 3 > Len(h) \/ h[p + 2] \notin Ids THEN Bad
               ELSE TagHeader(h, p + 3, [out EXCEPT !.object = <<h[p + 2]>>])
     ELSE IF Field(h, p, "type")
          THEN IF out.target # <<>> \/ end > Len(h) \/ Len(rest) # 1 \/ rest[1] \notin Types THEN Bad
               ELSE TagHeader(h, end + 1, [out EXCEPT !.target = rest])
     ELSE IF Field(h, p, "tag")
          THEN IF out.name # <<>> \/ end > Len(h) THEN Bad
               ELSE TagHeader(h, end + 1, [out EXCEPT !.name = <<rest>>])
     ELSE IF Field(h, p, "tagger")
          THEN IF out.tagger # <<>> \/ read.sig = <<>> THEN Bad
               ELSE TagHeader(h, read.next, [out EXCEPT !.tagger = read.sig])
     ELSE TagHeader(h, end, out)

EmptyCommit == [type |-> "commit", tree |-> <<>>, parents |-> <<>>, author |-> <<>>,
                committer |-> <<>>, message |-> NoMessage]
EmptyTag == [type |-> "tag", object |-> <<>>, target |-> <<>>, name |-> <<>>, tagger |-> <<>>,
             message |-> NoMessage]

(* The first line feed that another one follows; 0 if there is none. *)
Body(data) ==
  LET at == {i \in 1..(Len(data) - 1) : data[i] = LF /\ data[i + 1] = LF}
  IN IF at = {} THEN 0 ELSE CHOOSE i \in at : \A j \in at : i <= j

Header(data) == IF Body(data) = 0 THEN data ELSE SubSeq(data, 1, Body(data))
Message(data) == IF Body(data) = 0 THEN NoMessage ELSE SubSeq(data, Body(data) + 2, Len(data))

commit_parse(data) == CommitHeader(Header(data), 1, [EmptyCommit EXCEPT !.message = Message(data)])
tag_parse(data) == TagHeader(Header(data), 1, [EmptyTag EXCEPT !.message = Message(data)])

(* An entry ends RawSize words behind the Nul of its path, whatever they are. *)
RECURSIVE tree_parse(_, _)
tree_parse(data, entries) ==
  IF data = <<>> THEN [type |-> "tree", entries |-> entries]
  ELSE LET nul == IndexFrom(data, 3, Nul)
           raw == SubSeq(data, nul + 1, nul + RawSize)
       IN IF Len(data) < 3 \/ data[1] \notin Numerals \/ data[2] # " " \/ nul = 0
             \/ nul + RawSize > Len(data)
          THEN Bad
          ELSE tree_parse(SubSeq(data, nul + RawSize + 1, Len(data)),
                          Append(entries, [mode |-> data[1], path |-> SubSeq(data, 3, nul - 1),
                                           oid |-> CHOOSE id \in Ids : Raw[id] = raw]))

(* What rawobj_parse_header reads: where the data starts, of what length. *)
rawobj_parse_header(text) ==
  LET space == IndexFrom(text, 1, " ")
  IN IF space # 2 \/ text[1] \notin Types \/ Len(text) < space + 2
        \/ text[space + 1] \notin Numerals \/ text[space + 2] # Nul
     THEN [type |-> "bad", len |-> 0]
     ELSE [type |-> text[1], len |-> Number(text[space + 1])]

rawobj_parse(text) ==
  LET header == rawobj_parse_header(text)
  IN IF header.type = "bad" \/ header.len > Len(text) - 4 THEN [type |-> "bad", data |-> <<>>]
     ELSE [type |-> header.type, data |-> SubSeq(text, 5, 4 + header.len)]

object_from_odb_obj(type, data) ==
  CASE type = "commit" -> commit_parse(data)
    [] type = "tag" -> tag_parse(data)
    [] type = "tree" -> tree_parse(data, <<>>)
    [] type = "blob" -> [type |-> "blob", data |-> data]
    [] OTHER -> Bad

Read(text) == LET raw == rawobj_parse(text) IN object_from_odb_obj(raw.type, raw.data)

----------------------------------------------------------------------------
(* Objects are written, by this program or another, and cut short. *)

(* Names and addresses the parser can find the end of. *)
Readable(s) == ~Contains(s.name, "<") /\ ~Contains(s.email, ">")

NotWritten == [type |-> "none"]

FmtCommit ==
  /\ meant = NotWritten
  /\ \E tree \in Ids, parents \in {<<>>} \cup {<<p>> : p \in Ids} \cup (Ids \X Ids),
        author, committer \in Signatures, message \in Messages :
       LET c == [EmptyCommit EXCEPT !.tree = <<tree>>, !.parents = parents,
                  !.author = <<author>>, !.committer = <<committer>>, !.message = message]
       IN /\ buf' = rawobj_fmt("commit", commit_fmt(c))
          /\ meant' = IF Readable(author) /\ Readable(committer)
                      THEN [c EXCEPT !.message = Append(IF message = NoMessage THEN <<>> ELSE message, LF)]
                      ELSE Bad

FmtTag ==
  /\ meant = NotWritten
  /\ \E object \in Ids, target \in Types, tagger \in Signatures, message \in Messages,
        name \in {<<"v1">>, <<"tree", " ", "v">>} :
       LET t == [EmptyTag EXCEPT !.object = <<object>>, !.target = <<target>>, !.name = <<name>>,
                  !.tagger = <<tagger>>, !.message = message]
       IN /\ buf' = rawobj_fmt("tag", tag_fmt(t))
          /\ meant' = IF Readable(tagger)
                      THEN [t EXCEPT !.message = IF message = NoMessage THEN <<>> ELSE Append(message, LF)]
                      ELSE Bad

FmtTree ==
  /\ meant = NotWritten
  /\ \E entries \in Forests :
       /\ buf' = rawobj_fmt("tree", tree_fmt(entries))
       /\ meant' = [type |-> "tree", entries |-> entries]

FmtBlob ==
  /\ meant = NotWritten
  /\ \E data \in Messages : /\ buf' = rawobj_fmt("blob", data)
                            /\ meant' = [type |-> "blob", data |-> data]

(* Another program writes header lines this one does not know. *)
AddLine ==
  /\ meant.type \in {"commit", "tag"}
  /\ LET data == rawobj_parse(buf).data
     IN /\ \A line \in ForeignLines : ~Contains(data, line[1])
        /\ \E i \in 1..Body(data), line \in ForeignLines :
             /\ data[i] = LF
             /\ buf' = rawobj_fmt(meant.type, SubSeq(data, 1, i) \o line \o SubSeq(data, i + 1, Len(data)))
  /\ UNCHANGED meant

(* A file that ends early. *)
CutShort ==
  /\ meant.type \in Types
  /\ \E k \in 0..(Len(buf) - 1) : buf' = SubSeq(buf, 1, k)
  /\ meant' = Bad

FormatInit == buf = <<>> /\ meant = NotWritten
FormatNext == FmtCommit \/ FmtTag \/ FmtTree \/ FmtBlob \/ AddLine \/ CutShort
FormatSpec == FormatInit /\ [][FormatNext]_formatVars

(* An object reads back as it was written: its lines in their order, its     *)
(* parents in theirs, the offset of a time zone with its sign, the path of   *)
(* an entry whatever bytes its id has; header lines of other programs are    *)
(* passed over, even where they repeat a field on a continued line; a text   *)
(* that is cut short, or whose name has no end, is refused, never read as    *)
(* another object (commit_parse.c, tag_parse.c, tree_parse.c,                *)
(* signature_parse.c, rawobj_parse.c).  A message gains a line feed.         *)
ObjectsReadBack == meant # NotWritten => Read(buf) = meant
===============================================================================
