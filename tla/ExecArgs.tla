------------------------------ MODULE ExecArgs ------------------------------
(***************************************************************************)
(* The command line of `lcp exec`: what comes after the first word after   *)
(* exec belongs to the command that is executed, not to lcp, so a "--" is  *)
(* put before that word, unless the line has one already.                  *)
(*                                                                         *)
(* An argument is the name of the command, a "--", a flag that takes the   *)
(* next argument as its value, any other flag, or a word.                  *)
(***************************************************************************)
EXTENDS Naturals, Sequences, FiniteSetsExt, SequencesExt

CONSTANT MaxArgs    \* bound: arguments of a line

ASSUME MaxArgsAssumption == MaxArgs \in Nat

Args    == {"exec", "--", "--service", "--verbose", "ls"}
Lines   == UNION {[1 .. n -> Args] : n \in 0 .. MaxArgs}

IsFlag(a) == a \in {"--service", "--verbose"}

\* "remember flags might be --foo, --foo=value, and --foo value"
getStringFlags == {"--service"}

\* Mutant: the value of a flag is a word.
NoneSkipped(line) == [i \in 1 .. Len(line) |-> FALSE]

\* Whether an argument is the value of the flag before it.
Skipped(line) ==
    LET skip[i \in 1 .. Len(line)] == i > 1 /\ line[i - 1] \in getStringFlags /\ ~skip[i - 1]
    IN  skip

\* The first "--" or word from a place on; 0 if there is none.
First(line, from) ==
    LET stops == {i \in from .. Len(line) :
                    line[i] = "--" \/ (~Skipped(line)[i] /\ ~IsFlag(line[i]))}
    IN  IF stops = {} THEN 0 ELSE Min(stops)

\* The place after the name of the command, which is the first word; or 0.
getPosition(line) ==
    LET i == First(line, 1) IN IF i # 0 /\ line[i] = "exec" THEN i + 1 ELSE 0

MaybeRewrite(line) ==
    LET pos   == getPosition(line)
        found == First(line, pos)
    IN  IF pos = 0 \/ found = 0 \/ line[found] = "--" THEN line
        ELSE InsertAt(line, found, "--")

\* What the flag library makes of a line, argument by argument: the words, and the flags of lcp.
Unread == [words |-> <<>>, flags |-> <<>>, value |-> FALSE, ended |-> FALSE]
Arg(acc, a) ==
    IF acc.ended THEN [acc EXCEPT !.words = Append(@, a)]
    ELSE IF acc.value THEN [acc EXCEPT !.value = FALSE]
    ELSE IF a = "--" THEN [acc EXCEPT !.ended = TRUE]
    ELSE IF IsFlag(a) THEN [acc EXCEPT !.flags = Append(@, a), !.value = a \in getStringFlags]
    ELSE [acc EXCEPT !.words = Append(@, a)]
Parsing(line) ==
    LET acc[n \in 0 .. Len(line)] == IF n = 0 THEN Unread ELSE Arg(acc[n - 1], line[n])
    IN  acc
Parse(line) == Parsing(line)[Len(line)]

=============================================================================
