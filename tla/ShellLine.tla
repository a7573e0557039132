------------------------------ MODULE ShellLine ------------------------------
(* How kyvon-security reads a command line (risk.rs parse, build_segment) and *)
(* how it writes one (shell.rs quote, Cmd::render). A line is a sequence of   *)
(* pieces: a character that means something to the parser, or a run of        *)
(* ordinary characters (a name, an option, a path) as one piece. A word is    *)
(* the sequence of pieces it was put together from.                           *)
EXTENDS Integers, Sequences, SequencesExt, FiniteSets, FiniteSetsExt

CONSTANTS
    Components,  \* the pieces that are paths, with their components
    Letters,     \* the pieces that begin with a dash, with their short flags
    Assignments, \* the pieces of the form VAR=value
    Identifiers  \* the pieces of letters, digits and underscores

Blank == " "
Separators == {"|", "&", ";"}
SingleQuote == "quote"           \* the single quote
DoubleQuote == "dquote"
Backslash == "backslash"
Backtick == "backtick"
Special == Separators \cup {Blank, SingleQuote, DoubleQuote, Backslash, Backtick,
                            "$", "(", ")", ">", "<"}

(* The pieces that parse and Cmd::render write themselves. That these are    *)
(* strings is a fact of the language, stated because no prover knows it.     *)
Written == {SingleQuote, Backslash, Blank, "sudo", "-n", "$(...)", "b...b"}

ASSUME WrittenAssumption == Written \subseteq STRING

(* sudo is a name and -n an option.                                          *)
ASSUME SudoAssumption ==
    /\ "sudo" \notin DOMAIN Components /\ "-n" \in DOMAIN Letters
    /\ {"sudo", "-n"} \cap Assignments = {}

(* The empty word.                                                           *)
NoName == ""

(* A word as the tables see it: one piece is its own name, and no two pieces *)
(* of this alphabet make up a name the tables know.                          *)
Name(w) == IF w = <<>> THEN NoName ELSE IF Len(w) = 1 THEN w[1] ELSE "?"

IsOption(w) == w # <<>> /\ w[1] \in DOMAIN Letters

(* rsplit('/'): what follows the last slash.                                 *)
Base(w) ==
    IF w # <<>> /\ Last(w) \in DOMAIN Components
    THEN Last(Components[Last(w)]) ELSE Name(w)

(* The components of the path a word names, <<>> when it names none.         *)
PathOf(w) ==
    LET k == Max({j \in 0..Len(w) : \A l \in 1..j : w[l] \in DOMAIN Components})
        path == FlattenSeq([j \in 1..k |-> Components[w[j]]])
    IN CASE k = 0 -> <<>>
         [] k > 0 /\ k = Len(w) -> path
         [] OTHER -> Front(path) \o <<"?">>

(* n turns of op, from x.                                                    *)
Repeat(op(_), x, n) ==
    LET turn[k \in 0..n] == IF k = 0 THEN x ELSE op(turn[k - 1])
    IN turn[n]

-----------------------------------------------------------------------------
(* build_segment: assignments and wrappers are taken off the front, round by *)
(* round, until something else comes first. Only letters, digits and         *)
(* underscores may stand before the = of an assignment.                      *)
Wrappers == {"nohup", "command", "exec", "time", "nice", "ionice", "stdbuf", "setsid"}

IsAssignment(w) ==
    \E k \in DOMAIN w : w[k] \in Assignments /\
        \A l \in 1..(k - 1) : w[l] \in Identifiers

Rest(ws, n) == SubSeq(ws, n + 1, Len(ws))

(* sudo's own options, with the argument of -u.                              *)
DropSudoOption(ws) ==
    CASE ws # <<>> /\ Name(ws[1]) \in {"-u", "--user"} -> Rest(ws, 2)
      [] ws # <<>> /\ Name(ws[1]) \notin {"-u", "--user"} /\ IsOption(ws[1]) -> Rest(ws, 1)
      [] OTHER -> ws

DropOptions(ws) == IF ws # <<>> /\ IsOption(ws[1]) THEN Tail(ws) ELSE ws

DropEnvArgument(ws) ==
    IF ws # <<>> /\ (IsOption(ws[1]) \/ \E k \in DOMAIN ws[1] : ws[1][k] \in Assignments)
    THEN Tail(ws) ELSE ws

UnwrapAt(seg, rest, program) ==
    CASE program \in {"sudo", "doas"} ->
            [seg EXCEPT !.elevated = TRUE, !.words = Repeat(DropSudoOption, rest, Len(rest))]
      [] program \in Wrappers -> [seg EXCEPT !.words = Repeat(DropOptions, rest, Len(rest))]
      [] program = "env" -> [seg EXCEPT !.words = Repeat(DropEnvArgument, rest, Len(rest))]
      [] OTHER -> seg

Unwrap(seg) ==
    IF seg.words = <<>> THEN seg
    ELSE IF IsAssignment(seg.words[1]) THEN [seg EXCEPT !.words = Tail(@)]
    ELSE UnwrapAt(seg, Tail(seg.words), Base(seg.words[1]))

BuildSegment(raw, readsPipe) ==
    Repeat(Unwrap, [words |-> raw, elevated |-> FALSE, readsPipe |-> readsPipe], Len(raw))

-----------------------------------------------------------------------------
(* The state of parse: its index, the word being read, the words of the      *)
(* segment so far, and what it will return.                                  *)
Start == [i |-> 1, current |-> <<>>, has |-> FALSE, words |-> <<>>,
          readsPipe |-> FALSE, pending |-> FALSE,
          segments |-> <<>>, opaque |-> FALSE, targets |-> <<>>]

(* push_word: to the redirection that waits for it, else to the words.       *)
PushWord(p) ==
    IF ~p.has THEN p
    ELSE IF p.pending
    THEN [p EXCEPT !.targets = Append(@, p.current), !.pending = FALSE,
                   !.current = <<>>, !.has = FALSE]
    ELSE [p EXCEPT !.words = Append(@, p.current), !.current = <<>>, !.has = FALSE]

(* end_segment *)
EndSegment(p, nextReadsPipe) ==
    [p EXCEPT !.segments = IF p.words = <<>> THEN @
                           ELSE Append(@, BuildSegment(p.words, p.readsPipe)),
              !.words = <<>>, !.readsPipe = nextReadsPipe]

Take(p, pieces, next) ==
    [p EXCEPT !.has = TRUE, !.current = @ \o pieces, !.i = next]

(* The first index after i with the given piece, or one past the end.        *)
Closing(line, i, piece) ==
    Min({j \in (i + 1)..Len(line) : line[j] = piece} \cup {Len(line) + 1})

(* Single quotes: everything up to the next one.                             *)
SingleQuoted(line, p) ==
    LET j == Closing(line, p.i, SingleQuote)
    IN Take(p, SubSeq(line, p.i + 1, j - 1), j + 1)

(* Double quotes from i: an odd run of backslashes hides the piece at k.     *)
Hidden(line, i, k) ==
    LET run == Max({r \in 0..(k - i - 1) : \A l \in (k - r)..(k - 1) : line[l] = Backslash})
    IN run % 2 = 1

DoubleEnd(line, i) ==
    Min({k \in (i + 1)..Len(line) : line[k] = DoubleQuote /\ ~Hidden(line, i, k)}
        \cup {Len(line) + 1})

(* What is read between them: the backslashes that hide are dropped.         *)
Unescaped(line, i, j) ==
    LET kept(k) == line[k] # Backslash \/ Hidden(line, i, k) \/ k = Len(line)
        content[k \in i..(j - 1)] ==
            IF k = i THEN <<>>
            ELSE IF kept(k) THEN Append(content[k - 1], line[k]) ELSE content[k - 1]
    IN content[j - 1]

(* `$(` is noticed even behind a backslash.                                  *)
DoubleQuoted(line, p) ==
    LET j == DoubleEnd(line, p.i)
    IN [Take(p, Unescaped(line, p.i, j), j + 1) EXCEPT
          !.opaque = @ \/ \E k \in (p.i + 1)..(j - 1) :
                            line[k] = "$" /\ k < Len(line) /\ line[k + 1] = "("]

(* $( up to its matching parenthesis.                                        *)
SubstitutionEnd(line, i) ==
    LET count(piece, k) == Cardinality({l \in i..k : line[l] = piece})
    IN Min({k \in (i + 1)..Len(line) : line[k] = ")" /\ count("(", k) = count(")", k)}
           \cup {Len(line)})

Substitution(line, p) ==
    [Take(p, <<"$(...)">>, SubstitutionEnd(line, p.i) + 1) EXCEPT !.opaque = TRUE]

(* Back quotes, passed over in silence.                                      *)
Backquoted_Silent(line, p) ==
    Take(p, <<"b...b">>, Closing(line, p.i, Backtick) + 1)

(* ` up to the next one.                                                     *)
Backquoted(line, p) ==
    [Take(p, <<"b...b">>, Closing(line, p.i, Backtick) + 1) EXCEPT !.opaque = TRUE]

(* A separator that forgets to hand over the last word.                      *)
Operator_DropsWord(p, piece, double) ==
    [EndSegment(p, piece = "|" /\ ~double) EXCEPT
        !.i = @ + (IF double /\ piece # ";" THEN 2 ELSE 1)]

(* | and ||, & and &&, ; and the end of a line.                              *)
Operator(p, piece, double) ==
    [EndSegment(PushWord(p), piece = "|" /\ ~double) EXCEPT
        !.i = @ + (IF double /\ piece # ";" THEN 2 ELSE 1)]

(* > and >> wait for their target; < only ends a word.                       *)
Redirection(p, piece, double) ==
    IF piece = ">"
    THEN [PushWord(p) EXCEPT !.pending = TRUE, !.i = @ + (IF double THEN 2 ELSE 1)]
    ELSE [PushWord(p) EXCEPT !.i = @ + 1]

(* One turn of the loop of parse, on a piece and the one that follows.       *)
ParseAt(line, p, piece, next) ==
    CASE piece = SingleQuote -> SingleQuoted(line, p)
      [] piece = DoubleQuote -> DoubleQuoted(line, p)
      [] piece = Backslash /\ next # <<>> -> Take(p, next, p.i + 2)
      [] piece = "$" /\ next = <<"(">> -> Substitution(line, p)
      [] piece = Backtick -> Backquoted(line, p)
      [] piece = Blank -> [PushWord(p) EXCEPT !.i = @ + 1]
      [] piece \in Separators -> Operator(p, piece, next = <<piece>>)
      [] piece \in {">", "<"} -> Redirection(p, piece, next = <<piece>>)
      [] OTHER -> Take(p, <<piece>>, p.i + 1)

ParseStep(line, p) ==
    IF p.i > Len(line) THEN p
    ELSE ParseAt(line, p, line[p.i], IF p.i < Len(line) THEN <<line[p.i + 1]>> ELSE <<>>)

(* parse: no turn goes back, so as many turns as there are pieces are enough.*)
Parse(line) ==
    LET turn(p) == ParseStep(line, p)
    IN EndSegment(PushWord(Repeat(turn, Start, Len(line))), FALSE)

-----------------------------------------------------------------------------
(* Only names, options and paths go unquoted.                                *)
NeedsNoQuotes(w) == w # <<>> /\ Range(w) \cap (Special \cup Assignments \cup {"*"}) = {}

(* Quotes in the word are left as they are.                                       *)
Quote_Naive(w) == IF NeedsNoQuotes(w) THEN w ELSE <<SingleQuote>> \o w \o <<SingleQuote>>

(* quote: a single quote is closed, escaped and opened again.                *)
Quote(w) ==
    IF NeedsNoQuotes(w) THEN w
    ELSE <<SingleQuote>>
         \o FlattenSeq([k \in DOMAIN w |->
               IF w[k] = SingleQuote THEN <<SingleQuote, Backslash, SingleQuote, SingleQuote>> ELSE <<w[k]>>])
         \o <<SingleQuote>>

Joined(parts) ==
    FlattenSeq([k \in DOMAIN parts |-> IF k = 1 THEN parts[k] ELSE <<Blank>> \o parts[k]])

(* Cmd::render; the program is a valid one, which quoting leaves alone.      *)
Render(cmd) ==
    Joined((IF cmd.sudo THEN <<<<"sudo">>, <<"-n">>>> ELSE <<>>)
           \o <<Quote(cmd.program)>>
           \o [k \in DOMAIN cmd.args |-> Quote(cmd.args[k])])

=============================================================================
