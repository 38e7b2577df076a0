------------------------------ MODULE ArgParse ------------------------------
(***************************************************************************)
(* The argument parser of every command (argparse/parser.c), against the   *)
(* ways its header says an option can be written.  A command line is       *)
(* written argument by argument, and what it means is kept beside it.      *)
(*                                                                         *)
(* An argument is a sequence of characters; the name of a long option is   *)
(* one of them, and so is every digit or word of a value.                  *)
(***************************************************************************)
EXTENDS Naturals, Sequences, SequencesExt

CONSTANTS Opts,    \* the options: [sname, lname, type, required]
          Values,  \* [type -> values of it that are written]
          Words,   \* positional arguments
          MaxArgs  \* bound: arguments of a command line

VARIABLES argv,    \* the arguments so far
          wanted,  \* what they mean
          stopped, \* "--" is one of them
          bare,    \* the last one is an option whose optional value is missing
          ignore   \* ARG_IGNORE

argVars == <<argv, wanted, stopped, bare, ignore>>

NoArg == <<>>

(* The destinations of the options, the positional arguments, the error. *)
Nothing == [dest |-> [o \in Opts |-> <<>>], rem |-> <<>>, err |-> FALSE]

IsOption(arg) == arg # <<>> /\ arg[1] = "-"

findopt(sname, lname) ==
  {o \in Opts : (sname # "" /\ o.sname = sname) \/ (lname # "" /\ o.lname = lname)}

(* dumpvalue as a dry run: strtol takes the whole value, and there is one. *)
Valid(o, value) ==
  /\ value # NoArg
  /\ o.type = "int" =>
       \A i \in 1..Len(value) : value[i] = "5" \/ (i = 1 /\ Len(value) > 1 /\ value[1] = "-")

Stored(ctx, o, value) ==
  [ctx EXCEPT !.dest[o] = IF o.type = "list" THEN Append(@, value) ELSE <<value>>]

(* An option with the value it may take; of the next argument only one that  *)
(* is no valid value of an optional one is left.  used says that it was.     *)
Take(ctx, o, value, fromNext) ==
  IF o.type = "bool" THEN [ctx |-> Stored(ctx, o, <<"true">>), used |-> FALSE]
  ELSE IF o.type = "list" /\ value # NoArg
       THEN [ctx |-> Stored(ctx, o, value), used |-> fromNext]
  ELSE IF Valid(o, value) /\ o.type # "list"
       THEN [ctx |-> Stored(ctx, o, value), used |-> fromNext]
  ELSE [ctx |-> [ctx EXCEPT !.err = o.required \/ o.type = "list"], used |-> FALSE]

NextArg(args, i) == IF i < Len(args) THEN args[i + 1] ELSE NoArg

(* parse_short, from the k-th character of the i-th argument: combined       *)
(* options, and what is behind one that takes a value is the value.          *)
RECURSIVE Short(_, _, _, _)
Short(ctx, args, i, k) ==
  IF ctx.err \/ k > Len(args[i]) THEN [ctx |-> ctx, next |-> i + 1]
  ELSE LET found == findopt(args[i][k], "") IN
       IF found = {}
       THEN Short([ctx EXCEPT !.err = ~ignore], args, i, k + 1)
       ELSE LET o == CHOOSE o \in found : TRUE
                attached == SubSeq(args[i], k + 1, Len(args[i]))
            IN IF o.type = "bool" THEN Short(Take(ctx, o, NoArg, FALSE).ctx, args, i, k + 1)
               ELSE LET taken == IF attached # <<>> THEN Take(ctx, o, attached, FALSE)
                                 ELSE Take(ctx, o, NextArg(args, i), TRUE)
                    IN [ctx |-> taken.ctx, next |-> i + (IF taken.used THEN 2 ELSE 1)]

(* Mutant: the value of a long option is looked for behind the last "=". *)
LongAtLast(ctx, args, i) ==
  LET s == SubSeq(args[i], 3, Len(args[i]))
      eq == SelectLastInSeq(s, LAMBDA c : c = "=")
      found == findopt("", IF Len(s) = 0 THEN "" ELSE s[1])
  IN IF found = {} THEN [ctx |-> [ctx EXCEPT !.err = ~ignore], next |-> i + 1]
     ELSE LET o == CHOOSE o \in found : TRUE
              value == SubSeq(s, eq + 1, Len(s))
              taken == IF eq # 0 /\ value # <<>> THEN Take(ctx, o, value, FALSE)
                       ELSE Take(ctx, o, NextArg(args, i), TRUE)
          IN [ctx |-> taken.ctx, next |-> i + (IF taken.used THEN 2 ELSE 1)]

(* parse_long: the value behind the first "=", or the next argument. *)
Long(ctx, args, i) ==
  LET s == SubSeq(args[i], 3, Len(args[i]))
      eq == SelectInSeq(s, LAMBDA c : c = "=")
      name == IF eq = 0 THEN s ELSE SubSeq(s, 1, eq - 1)
      found == IF Len(name) = 1 THEN findopt("", name[1]) ELSE {}
  IN IF found = {} THEN [ctx |-> [ctx EXCEPT !.err = ~ignore], next |-> i + 1]
     ELSE LET o == CHOOSE o \in found : TRUE
              value == IF eq = 0 THEN <<>> ELSE SubSeq(s, eq + 1, Len(s))
              taken == IF value # <<>> THEN Take(ctx, o, value, FALSE)
                       ELSE Take(ctx, o, NextArg(args, i), TRUE)
          IN [ctx |-> taken.ctx, next |-> i + (IF taken.used THEN 2 ELSE 1)]

RECURSIVE ParseFrom(_, _, _, _)
ParseFrom(ctx, args, i, stop) ==
  IF ctx.err \/ i > Len(args) THEN ctx
  ELSE IF stop \/ ~IsOption(args[i])
       THEN ParseFrom([ctx EXCEPT !.rem = Append(@, args[i])], args, i + 1, stop)
  ELSE IF args[i] = <<"-", "-">> THEN ParseFrom(ctx, args, i + 1, TRUE)
  ELSE LET r == IF Len(args[i]) > 1 /\ args[i][2] = "-" THEN Long(ctx, args, i)
                ELSE Short(ctx, args, i, 2)
       IN ParseFrom(r.ctx, args, r.next, FALSE)

argparse_parse(args) == ParseFrom(Nothing, args, 1, FALSE)

----------------------------------------------------------------------------
(* Writing a command line *)

Write(args, meaning, isBare) ==
  /\ Len(argv) + Len(args) <= MaxArgs
  /\ argv' = argv \o args
  /\ wanted' = IF wanted.err THEN wanted ELSE meaning
  /\ bare' = isBare
  /\ UNCHANGED <<stopped, ignore>>

(* "-b" or "--bool" *)
WriteFlag(o) ==
  /\ ~stopped /\ o.type = "bool"
  /\ \/ Write(<< <<"-", o.sname>> >>, Stored(wanted, o, <<"true">>), FALSE)
     \/ Write(<< <<"-", "-", o.lname>> >>, Stored(wanted, o, <<"true">>), FALSE)

(* "-iV", "-i V", "--int=V", "--int V" *)
WriteValued(o, v) ==
  /\ ~stopped /\ o.type # "bool" /\ v \in Values[o.type]
  /\ \/ Write(<< <<"-", o.sname>> \o v >>, Stored(wanted, o, v), FALSE)
     \/ Write(<< <<"-", o.sname>>, v >>, Stored(wanted, o, v), FALSE)
     \/ Write(<< <<"-", "-", o.lname, "=">> \o v >>, Stored(wanted, o, v), FALSE)
     \/ Write(<< <<"-", "-", o.lname>>, v >>, Stored(wanted, o, v), FALSE)

(* An option whose value is optional, without it. *)
WriteBare(o) ==
  /\ ~stopped /\ o.type = "int" /\ ~o.required
  /\ \/ Write(<< <<"-", o.sname>> >>, wanted, TRUE)
     \/ Write(<< <<"-", "-", o.lname>> >>, wanted, TRUE)

(* "-b" becomes "-bb" or "-biV". *)
Combine(o) ==
  /\ ~stopped /\ argv # <<>> /\ Len(Last(argv)) = 2 /\ Last(argv)[1] = "-"
  /\ \E b \in findopt(Last(argv)[2], "") : b.type = "bool"
  /\ Len(argv) > 1 => ~IsOption(argv[Len(argv) - 1])
  /\ \E v \in IF o.type = "bool" THEN {<<"true">>} ELSE Values[o.type] :
       /\ argv' = Append(Front(argv), Last(argv) \o <<o.sname>> \o (IF o.type = "bool" THEN <<>> ELSE v))
       /\ wanted' = IF wanted.err THEN wanted ELSE Stored(wanted, o, v)
  /\ UNCHANGED <<stopped, bare, ignore>>

WriteWord(w) ==
  /\ stopped \/ ~IsOption(w)
  /\ ~(bare /\ \A i \in 1..Len(w) : w[i] = "5")
  /\ Write(<<w>>, [wanted EXCEPT !.rem = Append(@, w)], FALSE)

WriteStop ==
  /\ ~stopped /\ stopped' = TRUE
  /\ Len(argv) < MaxArgs /\ argv' = Append(argv, <<"-", "-">>)
  /\ bare' = FALSE
  /\ UNCHANGED <<wanted, ignore>>

(* "--intV", which the header has among the ways to write an option          *)
(* (argparse.h:35): the parser takes it for the name of another option.      *)
WriteJoined(o, v) ==
  /\ ~stopped /\ o.type # "bool" /\ v \in Values[o.type]
  /\ Write(<< <<"-", "-", o.lname>> \o v >>, [wanted EXCEPT !.err = ~ignore], FALSE)

WriteUnknown ==
  /\ ~stopped
  /\ \E arg \in {<<"-", "x">>, <<"-", "-", "unknown">>} :
       Write(<<arg>>, [wanted EXCEPT !.err = ~ignore], FALSE)

ArgInit ==
  /\ argv = <<>> /\ wanted = Nothing /\ stopped = FALSE /\ bare = FALSE
  /\ ignore \in BOOLEAN

ArgNext ==
  \/ \E o \in Opts : \/ WriteFlag(o) \/ WriteBare(o) \/ Combine(o)
                     \/ \E v \in UNION {Values[t] : t \in DOMAIN Values} :
                          WriteValued(o, v) \/ WriteJoined(o, v)
  \/ \E w \in Words : WriteWord(w)
  \/ WriteStop
  \/ WriteUnknown

ArgSpec == ArgInit /\ [][ArgNext]_argVars

(* These ways of writing the same options read as the same: combined or not, *)
(* short or long, the value behind a short option, behind an "=" or in the   *)
(* next argument, a value that looks like an option or holds an "=", words   *)
(* between them and behind "--"; an option that is not known is an error or  *)
(* is passed over (parse_short, parse_long, the state of argparse_parse      *)
(* after each argument).  The value behind a long option without "=", which  *)
(* the header has too, makes it one that is not known (parser.c:373).        *)
ArgumentsAreRead ==
  LET read == argparse_parse(argv) IN
  /\ read.err = wanted.err
  /\ ~read.err => read = wanted
=============================================================================
