-------------------------------- MODULE RQL --------------------------------
(***************************************************************************)
(* internal/rql: what becomes of one line of text handed to Execute: it is *)
(* trimmed, cut into tokens, and parsed into a command.                    *)
(*                                                                         *)
(* A text is a sequence of atoms.  An atom is one byte ("a", "1", " ", the *)
(* quotes, the backslash, "-" for '-', '.' and ':', "NUL" for the byte 0,  *)
(* "#" for any byte no token starts with), or a whole keyword, which the   *)
(* lexer treats as it treats a letter: it is a keyword only when it makes  *)
(* up a word by itself.  Blanks are one atom; so are the upper and lower   *)
(* case spellings of a keyword.                                            *)
(* Positions count from 1; `pos' is l.pos + 1.                             *)
(***************************************************************************)
EXTENDS Integers, SequencesExt

CONSTANTS
  Texts,       \* lines of any kind
  Keys,        \* keys and values that clients put into commands, as texts
  Values,
  TTLs,        \* the TTLs, as texts of digits
  Gaps,        \* the blanks they put between and around the words of a command
  Letters,     \* letters
  Digits,      \* digits
  DigitValue,  \* the number each digit stands for
  MaxInt       \* the largest TTL ParseInt accepts (2^63 - 1 in the code)

VARIABLES
  line,    \* the line as it came from the client
  wanted,  \* auxiliary: the command it spells, or Unknown
  input,   \* l.input: the trimmed line
  pos,     \* the position of l.ch
  tokens,  \* what Tokenize has collected
  phase,   \* start, lex, parse, done, or panic (a runtime error unwinds)
  result   \* the command, or Rejected

rqlVars == <<line, wanted, input, pos, tokens, phase, result>>

Bare == {"KEYS", "NUKE", "STATS", "HELP"}    \* commands without a key
Keyed == {"YOINK", "YEET", "PEEK"}           \* commands with just a key
Keywords == {"SHOVE", "TTL"} \cup Bare \cup Keyed

Quotes == {"\"", "'"}

Blank == " "
Dash == "-"
Underscore == "_"

Marks == Quotes \cup {Blank, Dash, Underscore, "\\", "NUL", "#"}

Atoms == Keywords \cup Letters \cup Digits \cup Marks

ASSUME RQLAssumption ==
  /\ DigitValue \in [Digits -> 0..9]
  /\ MaxInt \in Nat
  /\ Letters \cap Digits = {}
  /\ (Letters \cup Digits) \cap (Keywords \cup Marks) = {}
  /\ Texts \cup Keys \cup Values \subseteq Seq(Atoms)
  /\ TTLs \subseteq Seq(Digits) \ {<<>>}
  /\ Gaps \subseteq Seq({Blank}) \ {<<>>}

(* isLetter and the other bytes of a word.                                 *)
WordStart == Keywords \cup Letters \cup {Underscore}
WordPart == WordStart \cup Digits \cup {Dash}

Command(kind, key, value, ttl) ==
  [kind |-> kind, key |-> key, value |-> value, ttl |-> ttl]

Rejected == Command("error", <<>>, <<>>, 0)
Unknown == Command("unknown", <<>>, <<>>, 0)

-----------------------------------------------------------------------------
(* How a client may spell a command.                                       *)

(* A text that can stand between quotes q: no NUL, and a backslash always comes
   before some atom, which may then be a quote.                            *)
Quotable(w, q) ==
  LET end[i \in 1..(Len(w) + 2)] ==
        IF i > Len(w) THEN i
        ELSE IF w[i] = "\\" THEN end[i + 2]
        ELSE IF w[i] \in {q, "NUL"} THEN i ELSE end[i + 1]
  IN end[1] = Len(w) + 1

IsWord(w) ==
  /\ w # <<>> /\ w[1] \in WordStart /\ ToSet(w) \subseteq WordPart
  /\ ~(Len(w) = 1 /\ w[1] \in Keywords)

IsNumber(w) == w # <<>> /\ ToSet(w) \subseteq Digits

SpelledQuoted(w) == {<<q>> \o w \o <<q>> : q \in {p \in Quotes : Quotable(w, p)}}

SpelledKey(w) == SpelledQuoted(w) \cup (IF IsWord(w) THEN {w} ELSE {})

SpelledValue(w) ==
  SpelledQuoted(w) \cup (IF IsWord(w) \/ IsNumber(w) THEN {w} ELSE {})

(* What the digits of a TTL stand for.                                     *)
Amount(digits) == FoldLeft(LAMBDA n, d : 10 * n + DigitValue[d], 0, digits)

(* The lines that clients send: any text, and the commands in every spelling,
   each with what the engine is to make of it.                             *)
Line(text, g, cmd) == [text |-> g \o text \o g, wanted |-> cmd]

BareText(c) == <<c>>
KeyedText(c, ks, g) == <<c>> \o g \o ks
ShoveText(ks, vs, g) == <<"SHOVE">> \o g \o ks \o g \o vs
TTLText(ks, vs, ts, g) == ShoveText(ks, vs, g) \o g \o <<"TTL">> \o g \o ts

Timed(k, v, ts) ==
  IF Amount(ts) <= MaxInt THEN Command("SHOVE", k, v, Amount(ts)) ELSE Rejected

BareLines == {Line(BareText(c), g, Command(c, <<>>, <<>>, 0)) : c \in Bare, g \in Gaps}

KeyedLines ==
  UNION {{Line(KeyedText(c, ks, g), g, Command(c, k, <<>>, 0)) : ks \in SpelledKey(k)}
         : c \in Keyed, k \in Keys, g \in Gaps}

ShoveLines ==
  UNION {{Line(ShoveText(ks, vs, g), g, Command("SHOVE", k, v, 0))
          : ks \in SpelledKey(k), vs \in SpelledValue(v)}
         : k \in Keys, v \in Values, g \in Gaps}

TTLLines ==
  UNION {{Line(TTLText(ks, vs, ts, g), g, Timed(k, v, ts))
          : ks \in SpelledKey(k), vs \in SpelledValue(v)}
         : k \in Keys, v \in Values, ts \in TTLs, g \in Gaps}

Lines ==
  {[text |-> t, wanted |-> Unknown] : t \in Texts}
    \cup BareLines \cup KeyedLines \cup ShoveLines \cup TTLLines

-----------------------------------------------------------------------------
(* l.ch at a position: 0 past the end, just like a NUL byte.               *)
Look(i) == IF i <= Len(input) THEN input[i] ELSE "NUL"

(* Where the run of atoms of C that begins at i ends.                      *)
EndOf(C, i) == CHOOSE j \in i..(Len(input) + 1) :
                 /\ \A m \in i..(j - 1) : input[m] \in C
                 /\ j = Len(input) + 1 \/ input[j] \notin C

(* The end of the text as written.                                         *)
TrimSpace(s) ==
  LET ink == {i \in DOMAIN s : s[i] # Blank} IN
  IF ink = {} THEN <<>> ELSE SubSeq(s, Min(ink), Max(ink))

(* skipWhitespace.                                                         *)
Here == EndOf({Blank}, pos)

(* Mutant of StringEnd: an escaped quote ends the string.                  *)
StringEndUnescaped(q, i) ==
  CHOOSE j \in i..(Len(input) + 1) :
    /\ \A m \in i..(j - 1) : input[m] \notin {q, "NUL"}
    /\ Look(j) \in {q, "NUL"}

(* The loop of readString: a backslash is skipped together with what follows
   it, be that the quote, a NUL byte or the end of the input.              *)
StringEnd(q, i) ==
  LET end[j \in 1..(Len(input) + 2)] ==
        IF Look(j) \in {q, "NUL"} THEN j
        ELSE IF Look(j) = "\\" THEN end[j + 2] ELSE end[j + 1]
  IN end[i]

LookupIdent(word) ==
  IF Len(word) = 1 /\ word[1] \in Keywords THEN word[1] ELSE "IDENT"

(* The token whose literal is input[i..j-1], with its place in the input.  *)
Token(type, i, j) ==
  [type |-> type, literal |-> SubSeq(input, i, j - 1), at |-> i]

(* One turn of the loop of Tokenize, which goes on at position j.          *)
Found(token, j) ==
  /\ tokens' = Append(tokens, token)
  /\ pos' = j
  /\ UNCHANGED <<line, wanted, input, phase, result>>

-----------------------------------------------------------------------------
RQLInit ==
  /\ \E l \in Lines : line = l.text /\ wanted = l.wanted
  /\ input = <<>> /\ pos = 1 /\ tokens = <<>>
  /\ phase = "start"
  /\ result = Rejected

(* The beginning of Execute: an empty line is rejected at once.            *)
Trim ==
  /\ phase = "start"
  /\ input' = TrimSpace(line)
  /\ phase' = IF input' = <<>> THEN "done" ELSE "lex"
  /\ UNCHANGED <<line, wanted, pos, tokens, result>>

(* A NUL byte ends the input, whatever follows.                            *)
LexEOF ==
  /\ phase = "lex"
  /\ Look(Here) = "NUL"
  /\ tokens' = Append(tokens, Token("EOF", Here, Here))
  /\ phase' = "parse"
  /\ UNCHANGED <<line, wanted, input, pos, result>>

(* readString and readSingleQuotedString.  A missing closing quote is let pass. *)
LexString ==
  /\ phase = "lex"
  /\ Look(Here) \in Quotes
  /\ LET q == Look(Here)
         end == StringEnd(q, Here + 1)
     IN /\ end <= Len(input) + 1
        /\ Found(Token("STRING", Here + 1, end),
                 IF Look(end) = q THEN end + 1 ELSE end)

(* Mutant of LexPanic: the slice takes in the byte that ended the string.  *)
LexPanicEarly ==
  /\ phase = "lex"
  /\ Look(Here) \in Quotes
  /\ StringEnd(Look(Here), Here + 1) > Len(input)
  /\ phase' = "panic"
  /\ UNCHANGED <<line, wanted, input, pos, tokens, result>>

(* A backslash at the very end takes the position past the end of the input,
   and the slice l.input[start:l.pos] is out of range.                     *)
LexPanic ==
  /\ phase = "lex"
  /\ Look(Here) \in Quotes
  /\ StringEnd(Look(Here), Here + 1) > Len(input) + 1
  /\ phase' = "panic"
  /\ UNCHANGED <<line, wanted, input, pos, tokens, result>>

LexNumber ==
  /\ phase = "lex"
  /\ Look(Here) \in Digits
  /\ LET end == EndOf(Digits, Here) IN Found(Token("NUMBER", Here, end), end)

(* readIdentOrKeyword.                                                     *)
LexWord ==
  /\ phase = "lex"
  /\ Look(Here) \in WordStart
  /\ LET end == EndOf(WordPart, Here)
     IN Found(Token(LookupIdent(SubSeq(input, Here, end - 1)), Here, end), end)

(* Mutant of LexIllegal: the lexer does not move on.                       *)
LexIllegalStuck ==
  /\ phase = "lex"
  /\ Look(Here) \notin Quotes \cup Digits \cup WordStart \cup {"NUL"}
  /\ pos' = Here
  /\ UNCHANGED <<line, wanted, input, tokens, phase, result>>

(* Mutant of LexIllegal: the byte is passed over without a token.          *)
LexIllegalSkipped ==
  /\ phase = "lex"
  /\ Look(Here) \notin Quotes \cup Digits \cup WordStart \cup {"NUL"}
  /\ pos' = Here + 1
  /\ UNCHANGED <<line, wanted, input, tokens, phase, result>>

LexIllegal ==
  /\ phase = "lex"
  /\ Look(Here) \notin Quotes \cup Digits \cup WordStart \cup {"NUL"}
  /\ Found(Token("ILLEGAL", Here, Here + 1), Here + 1)

-----------------------------------------------------------------------------
(* The parser looks at the first tokens only; what follows is not looked at. *)
TypeAt(i) == IF i <= Len(tokens) THEN tokens[i].type ELSE "EOF"

HasKeyToken == TypeAt(2) \in {"IDENT", "STRING"}
HasValueToken == TypeAt(3) \in {"STRING", "IDENT", "NUMBER"}
HasTTL == TypeAt(4) = "TTL"

(* strconv.ParseInt of the TTL.                                            *)
ParsedTTL == Amount(tokens[5].literal)

ValidTTL == TypeAt(5) = "NUMBER" /\ ParsedTTL <= MaxInt

Parsed(cmd) ==
  /\ result' = cmd
  /\ phase' = "done"
  /\ UNCHANGED <<line, wanted, input, pos, tokens>>

(* Mutant of ParseShove: a TTL that does not fit is cut off.               *)
ParseShoveLaxly ==
  /\ phase = "parse" /\ TypeAt(1) = "SHOVE"
  /\ HasKeyToken /\ HasValueToken
  /\ HasTTL => TypeAt(5) = "NUMBER"
  /\ Parsed(Command("SHOVE", tokens[2].literal, tokens[3].literal,
                    IF HasTTL THEN Min({ParsedTTL, MaxInt}) ELSE 0))

ParseShove ==
  /\ phase = "parse" /\ TypeAt(1) = "SHOVE"
  /\ HasKeyToken /\ HasValueToken
  /\ HasTTL => ValidTTL
  /\ Parsed(Command("SHOVE", tokens[2].literal, tokens[3].literal,
                    IF HasTTL THEN ParsedTTL ELSE 0))

(* parseYoink, parseYeet and parsePeek.                                    *)
ParseKeyed ==
  /\ phase = "parse" /\ TypeAt(1) \in Keyed
  /\ HasKeyToken
  /\ Parsed(Command(TypeAt(1), tokens[2].literal, <<>>, 0))

(* parseKeys, parseNuke, parseStats and parseHelp.                         *)
ParseBare ==
  /\ phase = "parse" /\ TypeAt(1) \in Bare
  /\ Parsed(Command(TypeAt(1), <<>>, <<>>, 0))

(* The error returns of the parser, which Execute turns into a reply.      *)
ParseError ==
  /\ phase = "parse"
  /\ \/ TypeAt(1) \notin Bare \cup Keyed \cup {"SHOVE"}
     \/ TypeAt(1) \in Keyed /\ ~HasKeyToken
     \/ TypeAt(1) = "SHOVE" /\ ~(HasKeyToken /\ HasValueToken /\ (HasTTL => ValidTTL))
  /\ Parsed(Rejected)

RQLNext ==
  \/ Trim
  \/ LexEOF \/ LexString \/ LexPanic \/ LexNumber \/ LexWord \/ LexIllegal
  \/ ParseShove \/ ParseKeyed \/ ParseBare \/ ParseError

RQLSpec == RQLInit /\ [][RQLNext]_rqlVars /\ WF_rqlVars(RQLNext)

-----------------------------------------------------------------------------
(* A command spelled as the manual says (SHOVE key "value" TTL 60) reaches the
   engine with exactly the key, value and TTL that were meant, whatever quotes,
   escaped quotes, keywords or blanks they contain; with a TTL that does not
   fit it is refused, never cut.                                           *)
CommandsArriveIntact ==
  phase \in {"done", "panic"} /\ wanted # Unknown =>
    phase = "done" /\ result = wanted

(* The tokens follow each other, and what lies between two of them, or before
   the first, is blanks and the quotes of the strings: the lexer passes over
   nothing else that was typed.                                            *)
TokensCoverInput ==
  LET quote(t) == IF t.type = "STRING" THEN 1 ELSE 0
      first(t) == t.at - quote(t)
      after(t) == t.at + Len(t.literal) + quote(t)
  IN /\ \A n \in 2..Len(tokens) : after(tokens[n - 1]) <= first(tokens[n]) + 1
     /\ \A i \in 1..(pos - 1) :
          \/ input[i] = Blank
          \/ \E t \in ToSet(tokens) : i \in first(t)..(after(t) - 1)

(* The lexer leaves the input in one way only, at a backslash that ends it. *)
PanicsOnlyOnLastBackslash == phase = "panic" => Last(input) = "\\"

(* Every line gets through the lexer and the parser: each token but the last
   takes some of the input, illegal ones too.                              *)
LineIsProcessed == <>(phase \in {"done", "panic"})

(* "take a string, parse it, run it. if any of that fails, return an error."
   (executor.go:30): whatever the line, Execute returns.                   *)
NeverPanics == phase # "panic"

=============================================================================
