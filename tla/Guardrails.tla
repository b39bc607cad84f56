------------------------------ MODULE Guardrails ------------------------------
(***************************************************************************)
(* What a text is searched for before a tool is called and after it has    *)
(* answered (src/app/guardrails.ts).  A text is a sequence of fragments, a *)
(* pattern a sequence of fragments that is looked for in it; the patterns  *)
(* themselves are left to the instance.                                    *)
(***************************************************************************)
EXTENDS Integers, Sequences, FiniteSets, SequencesExt

CONSTANTS
    GUARDS,     \* in order: [id, severity, patterns, spam]; spam is how many
                \* SpamWords the custom rule asks for, 0 for none
    SpamWords,
    Texts       \* what tools are given and answer

VARIABLES
    text,       \* the output of a tool, or NoText
    sanitized   \* what sanitizeToolOutput made of it

guardrailVars == <<text, sanitized>>

\* Guards, patterns and texts are lists, and a pattern begins with something to
\* look for.
ASSUME GuardsAssumption ==
    /\ GUARDS \in Seq(Range(GUARDS))
    /\ \A g \in Range(GUARDS) :
         /\ g.patterns \in Seq(Range(g.patterns))
         /\ \A p \in Range(g.patterns) : p \in Seq(Range(p)) /\ p # <<>> /\ p[1] # "..."
    /\ \A t \in Texts : t \in Seq(Range(t))

NoText == <<"none">>
Marker(guard) == guard.id

-----------------------------------------------------------------------------
\* "..." stands for any number of fragments.  The ends of the matches of the last
\* fragments of a pattern, by where they begin, given those of all but the first of
\* these; and so from none of the fragments to all.
EndsBefore(fragment, t, later) ==
    [i \in 1..(Len(t) + 1) |->
        IF fragment = "..." THEN UNION {later[j] : j \in i..(Len(t) + 1)}
        ELSE IF i <= Len(t) /\ t[i] = fragment THEN later[i + 1] ELSE {}]
EndsOf(pattern, t) ==
    LET ends[n \in 0..Len(pattern)] ==
          IF n = 0 THEN [i \in 1..(Len(t) + 1) |-> {i - 1}]
          ELSE EndsBefore(pattern[Len(pattern) - n + 1], t, ends[n - 1])
    IN  ends
EndsAt(pattern, t, i) == EndsOf(pattern, t)[Len(pattern)][i]
Found(pattern, t) == \E i \in DOMAIN t : EndsAt(pattern, t, i) # {}

\* A match that begins at i, the longest, is replaced.
Cut(t, pattern, by, i) ==
    SubSeq(t, 1, i - 1) \o <<by>> \o SubSeq(t, Max(EndsAt(pattern, t, i)) + 1, Len(t))

\* Mutant: without the flag "g".
ReplaceFirst(t, pattern, by) ==
    Cut(t, pattern, by, Min({i \in DOMAIN t : EndsAt(pattern, t, i) # {}}))

\* Every match, from the first position on; what was put in is not looked at again.
ReplaceStep(pattern, by, s) ==
    IF s.next > Len(s.output) THEN s
    ELSE [output |-> IF EndsAt(pattern, s.output, s.next) = {} THEN s.output
                     ELSE Cut(s.output, pattern, by, s.next),
          next |-> s.next + 1]
Replace(t, pattern, by) ==
    LET after[n \in 0..Len(t)] ==
          IF n = 0 THEN [output |-> t, next |-> 1] ELSE ReplaceStep(pattern, by, after[n - 1])
    IN  after[Len(t)].output

Spam(guard, t) ==
    guard.spam > 0 /\ Cardinality({i \in DOMAIN t : t[i] \in SpamWords}) >= guard.spam
Hit(guard, t) == Spam(guard, t) \/ \E i \in DOMAIN guard.patterns : Found(guard.patterns[i], t)

validateUserInput(t) ==
    LET hits == {i \in DOMAIN GUARDS : Hit(GUARDS[i], t)}
    IN  [passed |-> \A i \in hits : GUARDS[i].severity # "block",
         blocked |-> {GUARDS[i].id : i \in {j \in hits : GUARDS[j].severity = "block"}}]

\* One pattern, on what the one before it left; one guard; and all of them.
SanitizeBy(guard, sofar, pattern) ==
    IF ~ Found(pattern, sofar.output) THEN sofar
    ELSE [output |-> IF guard.severity = "block" THEN Replace(sofar.output, pattern, Marker(guard))
                     ELSE sofar.output,
          matched |-> TRUE]
Sanitize(sofar, guard) ==
    LET after[n \in 0..Len(guard.patterns)] ==
          IF n = 0 THEN [output |-> sofar.output, matched |-> FALSE]
          ELSE SanitizeBy(guard, after[n - 1], guard.patterns[n])
        left == after[Len(guard.patterns)]
    IN  [output |-> left.output,
         hits |-> IF left.matched \/ Spam(guard, left.output)
                  THEN Append(sofar.hits, guard.id) ELSE sofar.hits]
sanitizeToolOutput(t) ==
    LET after[n \in 0..Len(GUARDS)] ==
          IF n = 0 THEN [output |-> t, hits |-> <<>>] ELSE Sanitize(after[n - 1], GUARDS[n])
    IN  after[Len(GUARDS)]

GuardrailAfter == /\ text = NoText
                  /\ text' \in Texts
                  /\ sanitized' = sanitizeToolOutput(text')

GuardrailInit == text = NoText /\ sanitized = [output |-> <<>>, hits |-> <<>>]
GuardrailNext == GuardrailAfter

GuardrailSpec == GuardrailInit /\ [][GuardrailNext]_guardrailVars

-----------------------------------------------------------------------------
\* Of what a tool answered nothing is left that blocks: what still looks like a
\* pattern contains a marker that was put there; and what was blocked or
\* replaced is reported (sanitizeToolOutput).
NothingBlockedIsLeft ==
    text # NoText =>
        LET markers == {Marker(GUARDS[g]) : g \in DOMAIN GUARDS}
            Blocking == {g \in DOMAIN GUARDS : GUARDS[g].severity = "block"}
        IN  /\ \A g \in Blocking : \A p \in Range(GUARDS[g].patterns) :
                 \A i \in DOMAIN sanitized.output : \A j \in EndsAt(p, sanitized.output, i) :
                    \E k \in i..j : sanitized.output[k] \in markers
            /\ sanitized.output # text \/ validateUserInput(text).blocked # {} =>
                 \E g \in Blocking : GUARDS[g].id \in Range(sanitized.hits)
=============================================================================
