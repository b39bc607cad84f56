---------------------------- MODULE ShellCommands ----------------------------
(***************************************************************************)
(* How a line given to bash is told apart: split into commands, one that   *)
(* commits or pushes, one that only reads (src/domain/session-queries.ts). *)
(*                                                                         *)
(* A line is a sequence of symbols: blanks, quotes, separators, and pieces *)
(* of words; a word is a sequence of pieces.  The piece "/bin/" is what    *)
(* executableName cuts off.                                                *)
(***************************************************************************)
EXTENDS Integers, Sequences, FiniteSets, SequencesExt

CONSTANTS
    Lines    \* what is written: [commands, separator, quote, comment]

VARIABLES
    line,     \* the line, or NoLine
    answers   \* what was said of it

shellVars == <<line, answers>>

-----------------------------------------------------------------------------
(* shellSegments.                                                          *)
Separators == {";", "&", "|", "(", ")", "backtick", "newline"}
Quotes == {"squote", "dquote"}
EscapeSign == "backslash"

\* A command is a list of words, one at least, and a word one of pieces that are
\* neither quotes nor the escape sign.
AreCommands(commands) ==
    /\ commands \in Seq(Range(commands))
    /\ \A words \in Range(commands) :
         /\ words \in Seq(Range(words)) /\ words # <<>>
         /\ \A word \in Range(words) :
              word \in Seq(Range(word)) /\ Range(word) \intersect (Quotes \union {EscapeSign}) = {}

ASSUME LinesAssumption ==
    \A l \in Lines : AreCommands(l.commands) /\ l.separator \in Separators

Scan == [segments |-> <<>>, words |-> <<>>, word |-> <<>>, started |-> FALSE,
         quote |-> "", escaped |-> FALSE, comment |-> FALSE]
EndWord(s) ==
    [s EXCEPT !.words = IF s.started THEN Append(@, s.word) ELSE @,
              !.word = <<>>, !.started = FALSE]
EndSegment(s) ==
    LET ended == EndWord(s)
    IN  [ended EXCEPT !.segments = IF ended.words # <<>> THEN Append(@, ended.words) ELSE @,
                      !.words = <<>>]
Took(s, char) == [s EXCEPT !.word = Append(@, char), !.started = TRUE, !.escaped = FALSE]

\* Mutant: what is inside quotes separates as well.
QuotesIgnored(s) == FALSE

InQuotes(s) == s.quote # ""

\* One symbol.  A comment takes its line feed with it.
ScanSymbol(s, char) ==
    CASE s.escaped -> Took(s, char)
      [] ~ s.escaped /\ s.comment ->
           IF char = "newline" THEN [EndWord(s) EXCEPT !.comment = FALSE] ELSE s
      [] ~ s.escaped /\ ~ s.comment /\ InQuotes(s) ->
           CASE char = s.quote -> [s EXCEPT !.quote = ""]
             [] char = EscapeSign /\ s.quote = "dquote" -> [s EXCEPT !.escaped = TRUE]
             [] OTHER -> Took(s, char)
      [] OTHER ->
           CASE char \in Quotes -> [s EXCEPT !.quote = char, !.started = TRUE]
             [] char = EscapeSign -> [s EXCEPT !.escaped = TRUE]
             [] char \in Separators -> EndSegment(s)
             [] char = "#" /\ ~ s.started -> [EndWord(s) EXCEPT !.comment = TRUE]
             [] char = " " -> EndWord(s)
             [] OTHER -> Took(s, char)

ScanFrom(s, symbols) ==
    LET after[n \in 0..Len(symbols)] == IF n = 0 THEN s ELSE ScanSymbol(after[n - 1], symbols[n])
    IN  after[Len(symbols)]
shellSegments(symbols) == EndSegment(ScanFrom(Scan, symbols)).segments

-----------------------------------------------------------------------------
(* Programs.                                                               *)
READ_ONLY_COMMANDS == {"cat", "bat", "head", "tail", "wc", "ls", "eza", "tree", "pwd", "echo",
    "which", "file", "stat", "du", "df", "date", "env", "rg", "grep", "fd", "find", "jq", "diff",
    "sort", "uniq", "basename", "dirname", "realpath", "true", "false"}
READ_ONLY_GIT_SUBCOMMANDS == {"status", "diff", "log", "show", "branch", "remote", "rev-parse",
    "ls-files", "blame", "describe", "shortlog", "cat-file", "symbolic-ref"}
FORBIDDEN_GIT_SUBCOMMANDS == {"commit", "push"}
GIT_OPTIONS_WITH_VALUE == {"-C", "-c", "--git-dir", "--work-tree", "--namespace", "--exec-path",
    "--super-prefix", "--config-env"}
COMMAND_PREFIXES == {"sudo", "env", "command", "builtin", "nice", "time", "exec"}
Assignments == {"X=1"}
SortOutput == {"-o", "-ofile", "--output", "--output=file"}

\* The pieces that begin with "-".
WrapperOptions == {"-u", "-n", "-i", "-p"}
Options == GIT_OPTIONS_WITH_VALUE \union SortOutput \union WrapperOptions \union
    {"--git-dir=x", "-uo", "-x", "-d", "-m", "-delete", "-exec", "-X", "--pre"}

executableName(word) ==
    IF word # <<>> /\ word[1] = "/bin/" THEN Tail(word) ELSE word
Named(word, names) == \E n \in names : executableName(word) = <<n>>
Is(word, names) == \E n \in names : word = <<n>>

\* What comes before the program that runs, and where that is.
Wraps(word) == Is(word, Assignments) \/ Named(word, COMMAND_PREFIXES)
ProgramAt(words) ==
    CHOOSE i \in 1..(Len(words) + 1) :
        /\ \A k \in 1..(i - 1) : Wraps(words[k])
        /\ i <= Len(words) => ~ Wraps(words[i])

\* Mutant: no option takes the word after it.
OptionEndsAtOnce(words, i) == i + 1

OptionEnds(words, i) == IF Is(words[i], GIT_OPTIONS_WITH_VALUE) THEN i + 2 ELSE i + 1

\* A pass of the loop for every word is enough.
PassOption(words, i) ==
    IF i > Len(words) \/ ~ Is(words[i], Options) THEN i ELSE OptionEnds(words, i)
AfterOptions(words, i) ==
    LET at[n \in 0..Len(words)] == IF n = 0 THEN i ELSE PassOption(words, at[n - 1])
    IN  at[Len(words)]

NoSubcommand == <<>>
gitSubcommandOf(words) ==
    LET program == ProgramAt(words)
        sub == AfterOptions(words, program + 1)
    IN  IF program > Len(words) \/ ~ Named(words[program], {"git"}) \/ sub > Len(words)
        THEN NoSubcommand ELSE words[sub]

hasForbiddenGitSubcommand(symbols) ==
    \E words \in Range(shellSegments(symbols)) :
        Is(gitSubcommandOf(words), FORBIDDEN_GIT_SUBCOMMANDS)

ReadsOnly(words) ==
    /\ ~ Wraps(words[1])
    /\ IF Named(words[1], {"git"})
       THEN Is(gitSubcommandOf(words), READ_ONLY_GIT_SUBCOMMANDS)
       ELSE /\ Named(words[1], {"sort"}) =>
                 \A i \in 2..Len(words) : ~ Is(words[i], SortOutput)
            /\ Named(words[1], READ_ONLY_COMMANDS)

\* WRITES_OR_HIDES, wherever it stands.
WritesOrHides(symbols) ==
    \/ Range(symbols) \intersect {">", "backtick"} # {}
    \/ \E i \in 1..(Len(symbols) - 1) : symbols[i] \in {"$", "<"} /\ symbols[i + 1] = "("

isReadOnlyBashCommand(symbols) ==
    LET segments == shellSegments(symbols)
    IN  /\ ~ WritesOrHides(symbols)
        /\ segments # <<>>
        /\ \A words \in Range(segments) : ReadsOnly(words)

-----------------------------------------------------------------------------
(* A line as it is written: commands with a separator between them, a      *)
(* quote around every word or where it is needed, a comment at the end.    *)
NoLine == [none |-> TRUE]
NeedsQuotes(word) == word = <<>> \/ Range(word) \intersect (Separators \union {" ", "#"}) # {}
Quoted(word, quote) ==
    IF quote = "none" /\ ~ NeedsQuotes(word) THEN word
    ELSE IF quote = EscapeSign /\ Len(word) = 1 /\ word # <<"newline">> THEN <<EscapeSign>> \o word
    ELSE LET q == IF quote \in Quotes THEN quote ELSE "squote" IN <<q>> \o word \o <<q>>
WriteWords(words, quote) ==
    LET upTo[n \in 0..Len(words)] ==
          IF n = 0 THEN <<>> ELSE upTo[n - 1] \o (Quoted(words[n], quote) \o <<" ">>)
    IN  upTo[Len(words)]
WriteCommands(l) ==
    LET upTo[n \in 0..Len(l.commands)] ==
          IF n = 0 THEN <<>>
          ELSE (IF n = 1 THEN <<>> ELSE Append(upTo[n - 1], l.separator))
               \o WriteWords(l.commands[n], l.quote)
    IN  upTo[Len(l.commands)]
Write(l) ==
    WriteCommands(l) \o (IF l.comment THEN <<"#", ";", "git", " ", "push">> ELSE <<>>)

Classify ==
    /\ line = NoLine
    /\ line' \in Lines
    /\ LET symbols == Write(line')
       IN  answers' = [segments |-> shellSegments(symbols),
                       forbidden |-> hasForbiddenGitSubcommand(symbols),
                       readOnly |-> isReadOnlyBashCommand(symbols)]

ShellInit == line = NoLine /\ answers = <<>>
ShellNext == Classify

ShellSpec == ShellInit /\ [][ShellNext]_shellVars

-----------------------------------------------------------------------------
(* Properties.                                                             *)

\* However it is quoted and separated, a line is split into the commands that
\* were written: "each returned array is one command" (session-queries.ts:96).
SegmentsAreCommands == line # NoLine => answers.segments = line.commands

\* What a shell runs: the program behind assignments and wrappers, behind the
\* options of these and the words that such options take ("sudo -u x").
Precedes(words, j) ==
    \/ Wraps(words[j]) \/ Is(words[j], WrapperOptions)
    \/ j > 1 /\ Is(words[j - 1], {"-u", "-n"})
IsProgram(words, p) == ~ Precedes(words, p) /\ \A j \in 1..(p - 1) : Precedes(words, j)
Runs(words, name) == \E p \in DOMAIN words : IsProgram(words, p) /\ Named(words[p], {name})

\* The first word that neither assigns nor wraps is an option.
OptionBeforeProgram(words) ==
    \E j \in DOMAIN words : Is(words[j], WrapperOptions) /\ \A k \in 1..(j - 1) : Wraps(words[k])

\* What git runs: of the words before its subcommand some are options, and all
\* others the value of the one before them, which the subcommand is not.
IsValue(words, options, j) ==
    j - 1 \in options /\ Is(words[j - 1], GIT_OPTIONS_WITH_VALUE)
IsSubcommand(words, p, i) ==
    \E options \in SUBSET ((p + 1)..(i - 1)) :
        /\ \A j \in options : Is(words[j], Options)
        /\ \A j \in (p + 1)..i : IsValue(words, options, j) <=> j \notin options \union {i}
GitRuns(words, i) ==
    \E p \in DOMAIN words :
        IsProgram(words, p) /\ Named(words[p], {"git"}) /\ p < i /\ IsSubcommand(words, p, i)
RunsGit(words, subcommands) ==
    \E i \in DOMAIN words : GitRuns(words, i) /\ Is(words[i], subcommands)

\* What changes something whatever it is given, and what sort and ">" write to.
GitWriters == {"commit", "push", "add", "reset", "checkout", "config"}
Writers == {"rm", "mv", "tee"}
ChangesByItself(words) ==
    \/ RunsGit(words, GitWriters)
    \/ \E name \in Writers : Runs(words, name)
    \/ Runs(words, "sort") /\ \E w \in Range(words) : Is(w, SortOutput)
    \/ \E w \in Range(words) : Is(w, {">"})

\* What reads as a rule and changes something for one of its arguments, which
\* the classifier does not look at: an option of a program, a second operand of
\* uniq, an operand or option of a subcommand of git.
WritingOptions == [find |-> {"-delete", "-exec"}, fd |-> {"-x", "-X"}, rg |-> {"--pre"},
                   tree |-> {"-o"}, file |-> {"-C"}, sort |-> {"-uo"}]
OperandsAfter(words, i) == SelectSeq(SubSeq(words, i + 1, Len(words)), LAMBDA w : ~ Is(w, Options))
ChangesByArgument(words) ==
    \/ \E name \in DOMAIN WritingOptions :
         Runs(words, name) /\ \E w \in Range(words) : Is(w, WritingOptions[name])
    \/ \E p \in DOMAIN words :
         IsProgram(words, p) /\ Named(words[p], {"uniq"}) /\ Len(OperandsAfter(words, p)) > 1
    \/ \E i \in DOMAIN words :
         /\ GitRuns(words, i)
         /\ \/ Is(words[i], {"diff", "log", "show"}) /\ \E w \in Range(words) : Is(w, {"--output=file"})
            \/ i < Len(words) /\ Is(words[i], {"branch"})
                 /\ (~ Is(words[i + 1], Options) \/ Is(words[i + 1], {"-d", "-m"}))
            \/ i < Len(words) /\ Is(words[i], {"remote"}) /\ Is(words[i + 1], {"add", "remove"})
            \/ Is(words[i], {"symbolic-ref"}) /\ Len(OperandsAfter(words, i)) > 1
Changes(words) == ChangesByItself(words) \/ ChangesByArgument(words)

\* A line with a command that commits or pushes is recognised behind wrappers,
\* options of git and quotes, but not behind options of a wrapper; and no line
\* with a command that changes something by itself counts as reading.  What
\* changes something for an argument is the exception (see ReadsChangeNothing).
ChangingIsSeen ==
    line # NoLine =>
        /\ (\E words \in Range(line.commands) :
               RunsGit(words, FORBIDDEN_GIT_SUBCOMMANDS) /\ ~ OptionBeforeProgram(words))
             <=> answers.forbidden
        /\ (\E words \in Range(line.commands) : ChangesByItself(words)) => ~ answers.readOnly

\* Every command of a line that counts as reading is "known not to change the
\* working tree" (session-queries.ts:247).  The code breaks it: of the programs on
\* its list it looks at the arguments of sort only.
ReadsChangeNothing ==
    line # NoLine /\ answers.readOnly => \A words \in Range(line.commands) : ~ Changes(words)

\* A line that commits or pushes is recognised behind every wrapper: "`sudo git
\* push` and `env git push` are `git push`" (session-queries.ts:108).  The code
\* breaks it: it looks through wrappers, and not through their options.
PushesAreSeen ==
    line # NoLine /\ (\E words \in Range(line.commands) : RunsGit(words, FORBIDDEN_GIT_SUBCOMMANDS))
      => answers.forbidden

(* A line given to bash is read as bash reads it.                          *)
LinesAreReadAsWritten == SegmentsAreCommands /\ ChangingIsSeen
=============================================================================
