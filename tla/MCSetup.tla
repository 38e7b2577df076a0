------------------------------- MODULE MCSetup -------------------------------
(***************************************************************************)
(* A work directory with a repository, half a one, or nothing yet, not     *)
(* even the directory above it; configurations with every kind of line.    *)
(***************************************************************************)
EXTENDS RepoSetup, TLC

Perms == Permutations(Procs)
MCNames == {"w", ".qgit", "refs", "a", "HEAD", "config", ".qgitconfig", "lock"}
MCWork == <<"a", "w">>
MCStructure == <<<<"a", "w", ".qgit", "refs">>>>
MCHEAD == <<"a", "w", ".qgit", "HEAD">>
MCCONFIG == <<"a", "w", ".qgit", "config">>
MCGLOBAL == <<".qgitconfig">>
MCInPlace == <<MCHEAD>>
MCPaths == {MCHEAD, MCCONFIG, MCGLOBAL}
MCLetters == {"core", "user", "bare", "name", "false", "x", "y", "z", "ref: main", "ref: old"}
MCFillsPages(contents) == contents = <<CommentLine>>
MCInitial == MCHEAD :> <<EntryLine(<<"ref: main">>, NoValue)>>
MCDefaultConfig == <<[sec |-> <<"core">>, entries |-> <<[key |-> <<"bare">>, val |-> <<"false">>]>>]>>

Core == SectionLine(<<"core">>)
User == SectionLine(<<"user">>)
Name(val) == EntryLine(<<"name">>, val)
Configs ==
  { <<Core, EntryLine(<<"bare">>, <<"false">>)>>,
    <<CommentLine, Core, Name(NoValue), User, Name(<<"y">>)>>,
    <<Core, Name(<<"y">>), User, EntryLine(<<"bare">>, NoValue), CommentLine, Core, Name(<<"z">>)>>,
    <<BrokenLine, Name(<<"y">>)>>, <<CommentLine>> }

Set(file, sec, key, val) == [op |-> "set", file |-> file, sec |-> <<sec>>, key |-> key, val |-> val]
MCChanges ==
  { Set(MCCONFIG, "core", <<"name">>, <<Space, "x", "=", "y", Space>>),
    Set(MCCONFIG, "user", <<"name">>, <<"x">>),
    Set(MCGLOBAL, "core", <<"name", "=", "x">>, <<"y", Newline, "[", "user", "]">>),
    [op |-> "unset", file |-> MCCONFIG, sec |-> <<"core">>, key |-> <<"name">>, val |-> NoText] }

MCFirstFiles ==
  {[f \in MCPaths |-> Missing]}
  \cup {[f \in MCPaths |-> CASE f = MCCONFIG -> c
                              [] f = MCHEAD -> <<EntryLine(<<"ref: old">>, NoValue)>>
                              [] OTHER -> Missing] :
          c \in Configs \cup {Missing, Empty}}
MCFirstDirs == {{<<>>}, {<<>>, <<"a">>, MCWork}, {<<>>, <<"a">>, MCWork, <<"a", "w", ".qgit">>}}
==============================================================================
