---------------------------- MODULE MCSequential ----------------------------
(***************************************************************************)
(* The parts of the library that can be checked alone, one at a time: the  *)
(* first state chooses the one whose calls are made.                       *)
(*                                                                         *)
(* Seven elements make a heap of three levels, and some of the keys are    *)
(* equal; a vector of five grows twice; four keys share three hashes; the  *)
(* paths of the trees and of the references differ where the order of a    *)
(* directory and that of whole paths do; a word of a command line may look *)
(* like an option; the words of an id in a tree may be those the parser    *)
(* looks for; tags point to tags, and to an object that is missing; of the *)
(* references one may be symbolic and need not resolve at first, and a     *)
(* writer may be in the middle of replacing one.                           *)
(***************************************************************************)
EXTENDS Heap, Vector, SList, HashTable, StringBuf, Trees, ArgParse, ObjectFormats, Revparse, RefList

CONSTANTS b1, b2 \* ids of blobs

VARIABLE active

MCKey == [e \in Elems |-> e \div 2]
MCGiven == <<1, 2, 3, 4, 5>>
MCOrder(e) == e \div 2
MCHash(k) == k \div 2
MCArgs == {<<>>, <<Lower>>, <<Lower, Lower>>, <<Lower, Space>>, <<Upper>>}

a == <<Letter>>
aDash == <<Letter, Dash>>
aa == <<Letter, Letter>>
MCTarget == <<Letter, Letter, Letter>>
File(path, oid) == [path |-> path, stage |-> Normal, mode |-> "file", oid |-> oid]
MCChoices ==
  {File(p, b1) : p \in {a, aDash, Join(a, a), Join(a, aDash), Join(Join(a, a), a), Join(aDash, a), Join(aa, a)}}
  \cup {[File(a, b2) EXCEPT !.mode = "link"], [File(Join(a, a), b2) EXCEPT !.stage = 2]}
MCNames == {a, aDash}

Opt(s, l, type, required) == [sname |-> s, lname |-> l, type |-> type, required |-> required]
MCOpts == {Opt("b", "B", "bool", FALSE), Opt("i", "I", "int", TRUE), Opt("o", "O", "int", FALSE),
           Opt("s", "S", "str", TRUE), Opt("l", "L", "list", TRUE)}
MCTexts == {<<"w", "=", "w">>, <<"-", "b">>}
MCValues == [int |-> {<<"5">>, <<"-", "5">>}, str |-> MCTexts, list |-> MCTexts]
MCWords == {<<"5">>, <<"-", "b">>}

MCIds == {"o1", "o2"}
MCRaw == [o1 |-> <<Nul, " ">>, o2 |-> <<"7", Nul>>]
Sig(name, email, time, offset) == [name |-> name, email |-> email, time |-> time, offset |-> offset]
MCSignatures ==
  {Sig(<<"A">>, <<"e">>, 7, -30), Sig(<<>>, <<"<", "e">>, -5, 330),
   Sig(<<"A", " ", "B">>, <<>>, 7, -570), Sig(<<"A", " ", "<", "b", ">">>, <<"e">>, 7, 0)}
MCMessages == {NoMessage, <<>>, <<"m", LF, LF, "tree", " ", "o1">>}
Entry(mode, path, oid) == [mode |-> mode, path |-> path, oid |-> oid]
MCForests ==
  {<<>>, <<Entry("40", <<"a">>, "o1")>>}
  \cup {<<Entry("100", <<"a", " ", "7">>, o), Entry("40", <<"b">>, q)>> : o, q \in MCIds}
MCForeignLines == {<<"gpgsig", " ", "x", LF, " ", "tree", " ", "o1", LF, " ", LF>>}

Obj(type, to) == [type |-> type, to |-> to]
MCObjects ==
  [b |-> Obj("blob", "none"), t |-> Obj("tree", "none"), c |-> Obj("commit", "t"),
   g |-> Obj("tag", "c"), gg |-> Obj("tag", "g"), gb |-> Obj("tag", "b"),
   gm |-> Obj("tag", "missing"), cm |-> Obj("commit", "missing")]
MCRefNames == {"HEAD", "refs/heads/a", "refs/tags/a", "refs/heads/s", "refs/heads/abcd", "refs/heads/x40"}
MCBases == {"HEAD", "refs/heads/a", "refs/tags/a", "refs/heads/none", "a", "s", "abcd", "abce", "ab",
            "x40", "c40", "missing40"}
MCAbbrev ==
  [base \in MCBases |-> CASE base = "c40" -> {"c"} [] base = "missing40" -> {"missing"}
                          [] base = "abcd" -> {"g"} [] base = "abce" -> {"b", "t"}
                          [] base = "ab" -> {"cm"} [] OTHER -> {}]

HeadsA == <<"heads", "a">>
HeadsADash == <<"heads", "a-">>
HeadsB == <<"heads", "b">>
HeadsD == <<"heads", "a", "x">>
TagsA == <<"tags", "a">>
MCRefPaths == {HeadsA, HeadsD}
MCTmpPath == (HeadsA :> <<"heads", "a.tmp">>) @@ (HeadsD :> <<"heads", "a", "x.tmp">>)
MCPathOrder == <<HeadsA, HeadsADash, MCTmpPath[HeadsA], HeadsD, MCTmpPath[HeadsD], HeadsB, TagsA>>
MCSymbolic == {HeadsADash}
MCFirstPaths == {{HeadsB, HeadsADash}, {HeadsD, MCTmpPath[HeadsD], HeadsADash, TagsA}}

SeqInit ==
  /\ active \in {"heap", "vector", "slist", "hashtbl", "string", "trees", "argparse", "formats",
                 "revparse", "reflist"}
  /\ Init /\ VectorInit /\ SListInit /\ TableInit /\ TreesInit /\ FormatInit /\ RevInit
  /\ StringInit /\ (active # "string" => text = <<>>)
  /\ ArgInit /\ (active # "argparse" => ~ignore)
  /\ ListInit /\ files \ ids \subseteq {HeadsADash}
  /\ active # "reflist" => TagsA \in files /\ ids = files

SeqNext ==
  /\ active' = active
  /\ \/ active = "heap" /\ Next
     \/ active # "heap" /\ UNCHANGED vars
  /\ \/ active = "vector" /\ VectorNext
     \/ active # "vector" /\ UNCHANGED vectorVars
  /\ \/ active = "slist" /\ SListNext
     \/ active # "slist" /\ UNCHANGED slistVars
  /\ \/ active = "hashtbl" /\ TableNext
     \/ active # "hashtbl" /\ UNCHANGED tableVars
  /\ \/ active = "string" /\ StringNext
     \/ active # "string" /\ UNCHANGED stringVars
  /\ \/ active = "trees" /\ TreesNext
     \/ active # "trees" /\ UNCHANGED treeVars
  /\ \/ active = "argparse" /\ ArgNext
     \/ active # "argparse" /\ UNCHANGED argVars
  /\ \/ active = "formats" /\ FormatNext
     \/ active # "formats" /\ UNCHANGED formatVars
  /\ \/ active = "revparse" /\ RevNext
     \/ active # "revparse" /\ UNCHANGED revVars
  /\ \/ active = "reflist" /\ ListNext
     \/ active # "reflist" /\ UNCHANGED listVars

SeqSpec ==
  SeqInit /\ [][SeqNext]_<<vars, vectorVars, slistVars, tableVars, stringVars, treeVars, argVars,
                           formatVars, revVars, listVars, active>>

(* Every revision names what it should, asked where the references change    *)
(* (revparse.c; it says nothing new of the other parts' states).             *)
RevisionsAlwaysResolve == active = "revparse" => RevisionsResolve
===============================================================================
