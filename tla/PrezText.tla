------------------------------ MODULE PrezText ------------------------------
(***************************************************************************)
(* The text functions of sds.c and util.c: splitting and joining, quoting  *)
(* and unquoting arguments, decimal conversion, glob patterns and absolute *)
(* paths.  Characters are their ASCII codes.  The state is one text that   *)
(* grows a character at a time, in the alphabet of the use it is put to,   *)
(* so that TLC tries every text up to MaxLen[use].                         *)
(***************************************************************************)
EXTENDS Integers, Sequences, FiniteSets

CONSTANTS Alphabet,     \* [use -> set of characters]
          MaxLen,       \* [use -> Nat]
          Separators,   \* separators to split at
          LLONG_MAX,    \* scaled down; LLONG_MIN = -LLONG_MAX - 1
          Strings,      \* strings to match patterns against, none empty
          Cwds          \* working directories

VARIABLES use, text

vars == <<use, text>>

ULLONG_MAX == 2 * LLONG_MAX + 1

\* The characters the functions look at.
NUL == 0
BEL == 7
BS == 8
TAB == 9
LF == 10
CR == 13
SPACE == 32
DQUOTE == 34
SQUOTE == 39
STAR == 42
MINUS == 45
DOT == 46
SLASH == 47
QUESTION == 63
LBRACKET == 91
BACKSLASH == 92
RBRACKET == 93
CARET == 94

\* *(p+k) of a C string, for the offset p from 1.
At(t, p) == IF p <= Len(t) THEN t[p] ELSE NUL
From(t, p) == SubSeq(t, p, Len(t))
----------------------------------------------------------------------------
(* sdssplitlen and sdsjoin.                                                *)
atSep(t, sep, j) ==
    j <= Len(t) - (Len(sep) - 1) /\ SubSeq(t, j, j + Len(sep) - 1) = sep

RECURSIVE splitFrom(_, _, _, _)
splitFrom(t, sep, start, j) ==
    IF j > Len(t) THEN <<From(t, start)>>
    ELSE IF atSep(t, sep, j)
    THEN <<SubSeq(t, start, j - 1)>> \o splitFrom(t, sep, j + Len(sep), j + Len(sep))
    ELSE splitFrom(t, sep, start, j + 1)
sdssplitlen(t, sep) == IF t = <<>> THEN <<>> ELSE splitFrom(t, sep, 1, 1)

RECURSIVE sdsjoin(_, _)
sdsjoin(argv, sep) ==
    IF argv = <<>> THEN <<>>
    ELSE Head(argv) \o (IF Len(argv) > 1 THEN sep ELSE <<>>) \o sdsjoin(Tail(argv), sep)

----------------------------------------------------------------------------
(* sdscatrepr and sdssplitargs.                                            *)
hexDigit(n) == IF n < 10 THEN 48 + n ELSE 87 + n
is_hex_digit(c) == c \in 48..57 \cup 97..102 \cup 65..70
hex_digit_to_int(c) == IF c <= 57 THEN c - 48 ELSE IF c >= 97 THEN c - 87 ELSE c - 55
isprint(c) == c \in 32..126
isspace(c) == c = SPACE \/ c \in 9..13

Escapes == {<<LF, 110>>, <<CR, 114>>, <<TAB, 116>>, <<BEL, 97>>, <<BS, 98>>}

reprOf(c) ==
    IF c \in {BACKSLASH, DQUOTE} THEN <<BACKSLASH, c>>
    ELSE IF \E e \in Escapes : e[1] = c
    THEN <<BACKSLASH, (CHOOSE e \in Escapes : e[1] = c)[2]>>
    ELSE IF isprint(c) THEN <<c>>
    ELSE <<BACKSLASH, 120, hexDigit(c \div 16), hexDigit(c % 16)>>

RECURSIVE reprs(_)
reprs(t) == IF t = <<>> THEN <<>> ELSE reprOf(Head(t)) \o reprs(Tail(t))
sdscatrepr(t) == <<DQUOTE>> \o reprs(t) \o <<DQUOTE>>

unescape(c) == IF \E e \in Escapes : e[2] = c THEN (CHOOSE e \in Escapes : e[2] = c)[1] ELSE c

(* A token from offset p: mode is "plain", "inq" or "insq".  Ok is FALSE   *)
(* for the goto err.                                                       *)
RECURSIVE token(_, _, _, _)
token(t, p, mode, current) ==
    LET c == At(t, p)
        add(k, m, x) == token(t, p + k, m, Append(current, x))
        done == [ok |-> TRUE, p |-> IF c = NUL THEN p ELSE p + 1, token |-> current]
        closed == IF At(t, p + 1) # NUL /\ ~isspace(At(t, p + 1))
                  THEN [ok |-> FALSE, p |-> p, token |-> <<>>] ELSE done
    IN  IF mode = "plain"
        THEN IF c \in {SPACE, LF, CR, TAB, NUL} THEN done
             ELSE IF c = DQUOTE THEN token(t, p + 1, "inq", current)
             ELSE IF c = SQUOTE THEN token(t, p + 1, "insq", current)
             ELSE add(1, "plain", c)
        ELSE IF mode = "inq" /\ c = BACKSLASH /\ At(t, p + 1) = 120
                /\ is_hex_digit(At(t, p + 2)) /\ is_hex_digit(At(t, p + 3))
        THEN add(4, mode, 16 * hex_digit_to_int(At(t, p + 2)) + hex_digit_to_int(At(t, p + 3)))
        ELSE IF mode = "inq" /\ c = BACKSLASH /\ At(t, p + 1) # NUL
        THEN add(2, mode, unescape(At(t, p + 1)))
        ELSE IF mode = "insq" /\ c = BACKSLASH /\ At(t, p + 1) = SQUOTE THEN add(2, mode, SQUOTE)
        ELSE IF c = (IF mode = "inq" THEN DQUOTE ELSE SQUOTE) THEN closed
        ELSE IF c = NUL THEN [ok |-> FALSE, p |-> p, token |-> <<>>]
        ELSE add(1, mode, c)

RECURSIVE splitargs(_, _, _)
splitargs(t, p, argv) ==
    IF At(t, p) = NUL THEN [ok |-> TRUE, argv |-> argv]
    ELSE IF isspace(At(t, p)) THEN splitargs(t, p + 1, argv)
    ELSE LET k == token(t, p, "plain", <<>>)
         IN  IF k.ok THEN splitargs(t, k.p, Append(argv, k.token)) ELSE [ok |-> FALSE, argv |-> <<>>]
sdssplitargs(t) == splitargs(t, 1, <<>>)
----------------------------------------------------------------------------
(* Decimal conversion.  The magnitude of the least number does not fit the *)
(* signed type; it is taken in the unsigned one.                           *)
Magnitude(v) == IF v < 0 THEN 0 - v ELSE v

\* The comparisons with 10^10 and above are divided down, to fit TLC's integers.
RECURSIVE digits10(_)
digits10(v) ==
    CASE v \in 0..9 -> 1 [] v \in 10..99 -> 2 [] v \in 100..999 -> 3 [] v \in 1000..9999 -> 4
      [] v \in 10^4..(10^6 - 1) -> IF v >= 10^5 THEN 6 ELSE 5
      [] v \in 10^6..(10^8 - 1) -> IF v >= 10^7 THEN 8 ELSE 7
      [] v >= 10^8 /\ v \div 10^5 < 10^5 -> IF v >= 10^9 THEN 10 ELSE 9
      [] v \div 10^5 >= 10^5 /\ v \div 10^6 < 10^6 -> IF v \div 10^5 >= 10^6 THEN 12 ELSE 11
      [] OTHER -> 12 + digits10((v \div 10^6) \div 10^6)

Digit(n) == 48 + n

\* Two digits at a time, from the right; the buffer is filled from `next' down.
RECURSIVE fill(_, _, _)
fill(dst, next, v) ==
    IF v >= 100
    THEN fill([dst EXCEPT ![next] = Digit(v % 10), ![next - 1] = Digit((v % 100) \div 10)],
              next - 2, v \div 100)
    ELSE IF v < 10 THEN [dst EXCEPT ![next] = Digit(v)]
    ELSE [dst EXCEPT ![next] = Digit(v % 10), ![next - 1] = Digit(v \div 10)]

ll2string(v) ==
    LET length == digits10(Magnitude(v)) + (IF v < 0 THEN 1 ELSE 0)
    IN  fill([i \in 1..length |-> MINUS], length, Magnitude(v))

RECURSIVE reversedDigits(_)
reversedDigits(v) ==
    <<Digit(v % 10)>> \o (IF v >= 10 THEN reversedDigits(v \div 10) ELSE <<>>)
sdsll2str(v) ==
    LET r == reversedDigits(Magnitude(v)) \o (IF v < 0 THEN <<MINUS>> ELSE <<>>)
    IN  [i \in 1..Len(r) |-> r[Len(r) + 1 - i]]

Refused == [ok |-> FALSE, value |-> 0]

\* Mutant: only the multiplication is checked for overflow.
accumulateUnchecked(v, d) ==
    IF v > ULLONG_MAX \div 10 THEN -1 ELSE (10 * v + d) % (ULLONG_MAX + 1)

(* One more digit, -1 on overflow of the unsigned type.                    *)
accumulate(v, d) ==
    IF v > ULLONG_MAX \div 10 \/ 10 * v > ULLONG_MAX - d THEN -1 ELSE 10 * v + d

RECURSIVE digitsFrom(_, _, _)
digitsFrom(t, p, v) ==
    IF p > Len(t) THEN v
    ELSE IF v = -1 \/ t[p] \notin 48..57 THEN -1
    ELSE digitsFrom(t, p + 1, accumulate(v, t[p] - 48))

string2ll(t) ==
    LET negative == t # <<>> /\ t[1] = MINUS
        p == IF negative THEN 2 ELSE 1
        v == digitsFrom(t, p, 0)
    IN  IF t = <<48>> THEN [ok |-> TRUE, value |-> 0]
        ELSE IF t = <<>> \/ p > Len(t) \/ At(t, p) \notin 49..57 \/ v = -1 THEN Refused
        ELSE IF v > (IF negative THEN LLONG_MAX + 1 ELSE LLONG_MAX) THEN Refused
        ELSE [ok |-> TRUE, value |-> IF negative THEN 0 - v ELSE v]
----------------------------------------------------------------------------
(* stringmatchlen, case sensitive.  A bracket from offset p on, against    *)
(* character c: whether one of its members is c, and the offset of its     *)
(* last character.  over: an escape at the very end of the pattern takes   *)
(* the scan past it.                                                       *)
RECURSIVE members(_, _, _, _)
members(pat, p, c, match) ==
    IF At(pat, p) = BACKSLASH
    THEN IF p = Len(pat) THEN [match |-> match, p |-> p, over |-> TRUE]
         ELSE members(pat, p + 2, c, match \/ pat[p + 1] = c)
    ELSE IF At(pat, p) = RBRACKET THEN [match |-> match, p |-> p, over |-> FALSE]
    ELSE IF p > Len(pat) THEN [match |-> match, p |-> p - 1, over |-> FALSE]
    ELSE IF At(pat, p + 1) = MINUS /\ Len(pat) - p + 1 >= 3
    THEN LET a == pat[p]  b == pat[p + 2]
         IN  members(pat, p + 3, c, match \/ (IF a > b THEN c \in b..a ELSE c \in a..b))
    ELSE members(pat, p + 1, c, match \/ pat[p] = c)

bracket(pat, p, c) ==
    LET not == At(pat, p + 1) = CARET
        m == members(pat, IF not THEN p + 2 ELSE p + 1, c, FALSE)
    IN  [m EXCEPT !.match = IF not THEN ~@ ELSE @]

\* One literal or escaped character at p: where it is.
literal(pat, p) == IF pat[p] = BACKSLASH /\ p < Len(pat) THEN p + 1 ELSE p

RECURSIVE skipStars(_, _)
skipStars(pat, p) == IF At(pat, p) = STAR THEN skipStars(pat, p + 1) ELSE p

RECURSIVE stringmatchlen(_, _, _, _)
stringmatchlen(pat, p, str, s) ==
    LET last == skipStars(pat, p + 1) - 1              \* the last of the stars at p
        b == bracket(pat, p, At(str, s))
        next(q) ==                                     \* a character matched up to q
            IF s + 1 > Len(str) THEN skipStars(pat, q + 1) > Len(pat)
            ELSE stringmatchlen(pat, q + 1, str, s + 1)
    IN  IF p > Len(pat) THEN s > Len(str)
        ELSE CASE pat[p] = STAR ->
                    last = Len(pat) \/ \E k \in s..Len(str) : stringmatchlen(pat, last + 1, str, k)
               [] pat[p] = QUESTION -> s <= Len(str) /\ next(p)
               [] pat[p] = LBRACKET -> b.match /\ next(b.p)
               [] OTHER -> pat[literal(pat, p)] = At(str, s) /\ next(literal(pat, p))

(* What a pattern means: each item takes characters off the string, a star *)
(* any number of them.                                                     *)
RECURSIVE Means(_, _, _, _)
Means(pat, p, str, s) ==
    IF p > Len(pat) THEN s > Len(str)
    ELSE IF pat[p] = STAR THEN \E k \in s..(Len(str) + 1) : Means(pat, p + 1, str, k)
    ELSE /\ s <= Len(str)
         /\ IF pat[p] = QUESTION THEN Means(pat, p + 1, str, s + 1)
            ELSE IF pat[p] = LBRACKET
            THEN bracket(pat, p, str[s]).match /\ Means(pat, bracket(pat, p, str[s]).p + 1, str, s + 1)
            ELSE pat[literal(pat, p)] = str[s] /\ Means(pat, literal(pat, p) + 1, str, s + 1)

Overruns(pat) ==
    \E p \in 1..Len(pat) : pat[p] = LBRACKET /\ bracket(pat, p, NUL).over
----------------------------------------------------------------------------
(* getAbsolutePath, in the working directory cwd.                          *)
Blank == {SPACE, CR, LF, TAB}
trimmed(t) ==
    LET kept == {i \in 1..Len(t) : t[i] \notin Blank}
    IN  IF kept = {} THEN <<>>
        ELSE SubSeq(t, CHOOSE i \in kept : \A j \in kept : i <= j,
                       CHOOSE i \in kept : \A j \in kept : i >= j)

\* The last element goes; the root has none.
dropLast(path) ==
    IF Len(path) <= 1 THEN path
    ELSE SubSeq(path, 1, (CHOOSE i \in 1..(Len(path) - 1) :
                             path[i] = SLASH /\ \A j \in (i + 1)..(Len(path) - 1) : path[j] # SLASH))

RECURSIVE dropDots(_, _)
dropDots(abspath, relpath) ==
    IF Len(relpath) >= 3 /\ SubSeq(relpath, 1, 3) = <<DOT, DOT, SLASH>>
    THEN dropDots(dropLast(abspath), From(relpath, 4))
    ELSE abspath \o relpath

getAbsolutePath(cwd, filename) ==
    LET relpath == trimmed(filename)
        base == IF cwd[Len(cwd)] = SLASH THEN cwd ELSE Append(cwd, SLASH)
    IN  IF At(relpath, 1) = SLASH THEN relpath ELSE dropDots(base, relpath)

(* Where a path leads: its elements, "." and ".." followed.                *)
RECURSIVE Leads(_, _)
Leads(stack, elements) ==
    IF elements = <<>> THEN stack
    ELSE LET e == Head(elements)
         IN  Leads(IF e \in {<<>>, <<DOT>>} THEN stack
                   ELSE IF e = <<DOT, DOT>>
                   THEN (IF stack = <<>> THEN <<>> ELSE SubSeq(stack, 1, Len(stack) - 1))
                   ELSE Append(stack, e), Tail(elements))
Place(path) == Leads(<<>>, sdssplitlen(path, <<SLASH>>))
----------------------------------------------------------------------------
Init == use \in DOMAIN Alphabet /\ text = <<>>

Type == /\ Len(text) < MaxLen[use]
        /\ \E c \in Alphabet[use] : text' = Append(text, c)
        /\ UNCHANGED use

Next == Type

Spec == Init /\ [][Next]_vars
----------------------------------------------------------------------------
(* sdssplitlen loses nothing: joining the tokens with the separator gives  *)
(* the text back, and no token holds a separator any more.                 *)
SplitJoins ==
    use = "split" =>
      \A sep \in Separators :
        LET tokens == sdssplitlen(text, sep)
        IN  /\ sdsjoin(tokens, sep) = text
            /\ \A i \in DOMAIN tokens : \A j \in 1..(Len(tokens[i]) + 1 - Len(sep)) :
                 SubSeq(tokens[i], j, j + Len(sep) - 1) # sep

(* sdssplitargs reads back as one argument what sdscatrepr has quoted, for *)
(* any bytes: quotes, backslashes, blanks, NULs and unprintable ones.      *)
ReprReadsBack ==
    use = "args" => sdssplitargs(sdscatrepr(text)) = [ok |-> TRUE, argv |-> <<text>>]

(* string2ll takes exactly the texts ll2string writes, for the numbers of  *)
(* the type and no other: no sign or zero too many, no number that wraps.  *)
(* sdsll2str writes the same, also where the number of digits changes      *)
(* further up.                                                             *)
NumbersReadBack ==
    /\ use = "number" /\ string2ll(text).ok =>
         /\ string2ll(text).value \in (0 - LLONG_MAX - 1)..LLONG_MAX
         /\ ll2string(string2ll(text).value) = text
    /\ use = "number" /\ text = <<>> =>
         \A v \in (0 - LLONG_MAX - 1)..LLONG_MAX :
           /\ string2ll(ll2string(v)) = [ok |-> TRUE, value |-> v]
           /\ sdsll2str(v) = ll2string(v)
    /\ use = "number" /\ text = <<>> =>
         \A k \in 1..9 : \A v \in {10^k - 1, 10^k} : sdsll2str(v) = ll2string(v)

(* stringmatchlen with its shortcuts (runs of stars, a final star, the end *)
(* of the string) says of a string that is not empty what the pattern      *)
(* means; an escape that ends the pattern inside a bracket is left out,    *)
(* and the meaning of a bracket is taken from the code itself.             *)
GlobAgrees ==
    use = "glob" /\ ~Overruns(text) =>
      \A str \in Strings : stringmatchlen(text, 1, str, 1) <=> Means(text, 1, str, 1)

(* getAbsolutePath leads where the name leads from the working directory,  *)
(* and is absolute.                                                        *)
PathLeadsThere ==
    use = "path" =>
      \A cwd \in Cwds :
        LET path == getAbsolutePath(cwd, text)
            name == trimmed(text)
        IN  /\ path[1] = SLASH
            /\ Place(path) = Place(IF At(name, 1) = SLASH THEN name ELSE cwd \o <<SLASH>> \o name)
=============================================================================
