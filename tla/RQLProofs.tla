----------------------------- MODULE RQLProofs -----------------------------
(***************************************************************************)
(* Proofs about the lexer and the parser, for every line of atoms, every   *)
(* set of letters and digits, and every largest TTL.                       *)
(***************************************************************************)
EXTENDS RQL, Recursion, SequenceTheorems

Words == Seq(Atoms)

TokenTypes == {"EOF", "STRING", "NUMBER", "IDENT", "ILLEGAL"} \cup Keywords

TokenType == [type : TokenTypes, literal : Words, at : Nat \ {0}]

(* The position never gets past the place after the last atom.             *)
RQLTypeOK ==
  /\ line \in Words /\ input \in Words
  /\ pos \in 1..(Len(input) + 1)
  /\ tokens \in Seq(TokenType)
  /\ phase \in {"start", "lex", "parse", "done", "panic"}
  /\ phase = "start" => input = <<>> /\ tokens = <<>>
  /\ phase = "lex" => input # <<>>

-----------------------------------------------------------------------------
(* The kinds of atoms that begin the tokens are distinct.                  *)
LEMMA AtomsDistinct ==
  /\ Quotes \cap WordPart = {} /\ Quotes \cap {Blank, "NUL", "\\"} = {}
  /\ Digits \cap WordStart = {}
  /\ Blank \notin WordPart /\ Blank # "NUL" /\ "NUL" \notin WordPart
  /\ Digits \subseteq WordPart /\ WordStart \subseteq WordPart
  /\ "NUL" # "\\"
  <1>1. /\ Quotes \cap (Keywords \cup {Underscore, Dash}) = {}
        /\ Quotes \cap {Blank, "NUL", "\\"} = {}
    BY Zenon DEF Quotes, Keywords, Bare, Keyed, Blank, Dash, Underscore
  <1>2. Blank \notin Keywords \cup {Underscore, Dash} /\ Blank # "NUL"
    BY Zenon DEF Keywords, Bare, Keyed, Blank, Dash, Underscore
  <1>3. "NUL" \notin Keywords \cup {Underscore, Dash} /\ "NUL" # "\\"
    BY Zenon DEF Keywords, Bare, Keyed, Dash, Underscore
  <1>4. Quotes \cup {Blank, Underscore, Dash, "NUL"} \subseteq Marks
    BY Zenon DEF Marks
  <1>5. \A x \in Letters \cup Digits : x \notin Keywords \cup Marks
    BY RQLAssumption
  <1>6. \A x \in Letters \cup Digits : x \notin Quotes \cup {Blank, Underscore, Dash, "NUL"}
    BY <1>4, <1>5
  <1>7. Quotes \cap WordPart = {}
    BY <1>1, <1>6 DEF WordPart, WordStart
  <1>8. Digits \cap WordStart = {}
    BY <1>5, <1>6, RQLAssumption DEF WordStart
  <1>9. Blank \notin WordPart /\ "NUL" \notin WordPart
    BY <1>2, <1>3, <1>6 DEF WordPart, WordStart
  <1>10. Digits \subseteq WordPart /\ WordStart \subseteq WordPart
    BY DEF WordPart
  <1>. QED BY <1>1, <1>2, <1>3, <1>7, <1>8, <1>9, <1>10

LEMMA NulBeginsNothing == "NUL" \notin Quotes \cup Digits \cup WordStart
  BY AtomsDistinct

-----------------------------------------------------------------------------
(* The words of a command and how they are laid out in a line.             *)

(* A way to write the token of a type with a literal.                      *)
Spells(s, type, literal) ==
  \/ type \in Keywords /\ s = <<type>> /\ literal = s
  \/ type = "IDENT" /\ IsWord(s) /\ literal = s
  \/ type = "NUMBER" /\ IsNumber(s) /\ literal = s
  \/ type = "STRING" /\ \E q \in Quotes : Quotable(literal, q) /\ s = <<q>> \o literal \o <<q>>

Pieces == {p \in [text : Words, type : TokenTypes, literal : Words] :
             Spells(p.text, p.type, p.literal)}

(* Text s stands at place i of text t.                                     *)
Stands(s, t, i) ==
  i + Len(s) <= Len(t) + 1 /\ \A m \in 1..Len(s) : t[i + m - 1] = s[m]

(* The pieces follow each other in the text, with blanks between them.     *)
Layout(t, ps, at) ==
  /\ t \in Words /\ ps \in Seq(Pieces) /\ at \in Seq(Nat \ {0})
  /\ Len(ps) = Len(at) /\ Len(ps) # 0 /\ at[1] = 1
  /\ \A i \in 1..Len(ps) : Stands(ps[i].text, t, at[i])
  /\ \A i \in 2..Len(ps) :
       /\ at[i - 1] + Len(ps[i - 1].text) < at[i]
       /\ \A m \in (at[i - 1] + Len(ps[i - 1].text))..(at[i] - 1) : t[m] = Blank
  /\ at[Len(ps)] + Len(ps[Len(ps)].text) = Len(t) + 1

(* A text between quotes, atom by atom.                                    *)
LEMMA Quoted ==
  ASSUME NEW w \in Words, NEW q
  PROVE  LET s == <<q>> \o w \o <<q>>
         IN  /\ Len(s) = Len(w) + 2 /\ s[1] = q /\ s[Len(w) + 2] = q
             /\ \A m \in 1..Len(w) : s[m + 1] = w[m]
  <1> DEFINE S == Atoms \cup {q}
  <1>1. w \in Seq(S) /\ Len(w) \in Nat /\ <<q>> \in Seq(S) /\ Len(<<q>>) = 1 /\ <<q>>[1] = q
    BY LenProperties, SeqMonotonic DEF Words
  <1> HIDE DEF S
  <1>2. /\ <<q>> \o w \in Seq(S) /\ Len(<<q>> \o w) = Len(w) + 1
        /\ \A i \in 1..(Len(w) + 1) : (<<q>> \o w)[i] = IF i <= 1 THEN <<q>>[i] ELSE w[i - 1]
    BY <1>1, ConcatProperties
  <1> DEFINE r == <<q>> \o w
  <1> HIDE DEF r
  <1>3. /\ r \in Seq(S) /\ Len(r) = Len(w) + 1 /\ r[1] = q
        /\ \A m \in 1..Len(w) : r[m + 1] = w[m]
    BY <1>1, <1>2 DEF r
  <1>4. /\ Len(r \o <<q>>) = Len(w) + 2
        /\ \A i \in 1..(Len(w) + 2) : (r \o <<q>>)[i] = IF i <= Len(w) + 1 THEN r[i] ELSE <<q>>[i - (Len(w) + 1)]
    BY <1>1, <1>3, ConcatProperties
  <1>5. /\ Len(r \o <<q>>) = Len(w) + 2 /\ (r \o <<q>>)[1] = q /\ (r \o <<q>>)[Len(w) + 2] = q
        /\ \A m \in 1..Len(w) : (r \o <<q>>)[m + 1] = w[m]
    BY <1>1, <1>3, <1>4
  <1>. QED BY <1>5 DEF r

LEMMA PieceEnds ==
  ASSUME NEW p \in Pieces
  PROVE  /\ p.text \in Words /\ p.literal \in Words /\ Len(p.text) \in Nat \ {0}
         /\ p.text[1] # Blank /\ p.text[Len(p.text)] # Blank
  <1>1. /\ p.text \in Words /\ p.literal \in Words /\ Len(p.text) \in Nat /\ Len(p.literal) \in Nat
        /\ Spells(p.text, p.type, p.literal) /\ DOMAIN p.text = 1..Len(p.text)
    BY LenProperties DEF Pieces, Words
  <1>2. CASE p.type \in Keywords /\ p.text = <<p.type>>
    <2>1. p.type \in WordPart
      BY <1>2 DEF WordPart, WordStart
    <2>2. Len(p.text) = 1 /\ p.text[1] = p.type
      BY <1>2
    <2>. QED BY <1>1, <2>1, <2>2, AtomsDistinct
  <1>3. CASE p.text # <<>> /\ ToSet(p.text) \subseteq WordPart
    <2>1. Len(p.text) # 0
      BY <1>1, <1>3, EmptySeq DEF Words
    <2>2. p.text[1] \in ToSet(p.text) /\ p.text[Len(p.text)] \in ToSet(p.text)
      BY <1>1, <2>1 DEF ToSet
    <2>. QED BY <1>1, <1>3, <2>1, <2>2, AtomsDistinct
  <1>4. ASSUME NEW q \in Quotes, p.text = <<q>> \o p.literal \o <<q>>
        PROVE  Len(p.text) # 0 /\ p.text[1] # Blank /\ p.text[Len(p.text)] # Blank
    <2>1. Len(p.text) = Len(p.literal) + 2 /\ p.text[1] = q /\ p.text[Len(p.literal) + 2] = q
      BY <1>1, <1>4, Quoted
    <2>. QED BY <1>1, <2>1, AtomsDistinct
  <1>5. IsWord(p.text) \/ IsNumber(p.text) => p.text # <<>> /\ ToSet(p.text) \subseteq WordPart
    BY AtomsDistinct DEF IsWord, IsNumber
  <1>. QED BY <1>1, <1>2, <1>3, <1>4, <1>5 DEF Spells

LEMMA FirstPiece ==
  ASSUME NEW p \in Pieces
  PROVE  Layout(p.text, <<p>>, <<1>>)
  <1>1. p.text \in Words /\ Len(p.text) \in Nat
    BY PieceEnds
  <1>2. Len(<<p>>) = 1 /\ Len(<<1>>) = 1 /\ <<p>>[1] = p /\ <<1>>[1] = 1
    OBVIOUS
  <1>3. <<p>> \in Seq(Pieces) /\ <<1>> \in Seq(Nat \ {0})
    OBVIOUS
  <1>. QED BY <1>1, <1>2, <1>3 DEF Layout, Stands

(* Blanks and one more piece.                                              *)
LEMMA NextPiece ==
  ASSUME NEW t, NEW ps, NEW at, Layout(t, ps, at), NEW g \in Gaps, NEW p \in Pieces
  PROVE  Layout(t \o g \o p.text, Append(ps, p), Append(at, Len(t) + Len(g) + 1))
  <1> DEFINE n == Len(ps)
             w == p.text
             u == t \o g
             v == u \o w
             place == Len(t) + Len(g) + 1
             qs == Append(ps, p)
             bt == Append(at, place)
  <1>1. /\ t \in Words /\ ps \in Seq(Pieces) /\ at \in Seq(Nat \ {0})
        /\ n = Len(at) /\ n # 0 /\ at[1] = 1 /\ n \in Nat /\ Len(t) \in Nat
    BY LenProperties DEF Layout, Words
  <1>2. /\ g \in Words /\ Len(g) \in Nat \ {0} /\ \A m \in 1..Len(g) : g[m] = Blank
    <2>1. g \in Seq({Blank}) /\ g # <<>>
      BY RQLAssumption
    <2>2. {Blank} \subseteq Atoms
      BY Zenon DEF Atoms, Marks
    <2>3. g \in Words
      BY <2>1, <2>2, SeqMonotonic DEF Words
    <2>4. Len(g) \in Nat \ {0}
      BY <2>1, EmptySeq
    <2>5. \A m \in 1..Len(g) : g[m] \in {Blank}
      BY <2>1, ElementOfSeq
    <2>. QED BY <2>3, <2>4, <2>5
  <1>3. w \in Words /\ Len(w) \in Nat \ {0}
    BY PieceEnds
  <1>4. /\ u \in Words /\ Len(u) = Len(t) + Len(g)
        /\ \A i \in 1..(Len(t) + Len(g)) : u[i] = IF i <= Len(t) THEN t[i] ELSE g[i - Len(t)]
    BY <1>1, <1>2, ConcatProperties DEF Words
  <1> HIDE DEF u, w
  <1>5. /\ v \in Words /\ Len(v) = Len(u) + Len(w)
        /\ \A i \in 1..(Len(u) + Len(w)) : v[i] = IF i <= Len(u) THEN u[i] ELSE w[i - Len(u)]
    BY <1>3, <1>4, ConcatProperties DEF Words
  <1> HIDE DEF v
  <1>6. /\ \A i \in 1..Len(t) : v[i] = t[i]
        /\ \A i \in (Len(t) + 1)..(place - 1) : v[i] = Blank
        /\ \A m \in 1..Len(w) : v[place + m - 1] = w[m]
        /\ Len(v) = place + Len(w) - 1 /\ place \in Nat \ {0}
    <2>1. \A i \in 1..Len(t) : v[i] = t[i]
      BY <1>1, <1>2, <1>3, <1>4, <1>5
    <2>2. \A i \in (Len(t) + 1)..(place - 1) : v[i] = Blank
      <3> SUFFICES ASSUME NEW i \in (Len(t) + 1)..(place - 1)
                   PROVE  v[i] = Blank
        OBVIOUS
      <3>1. v[i] = u[i] /\ u[i] = g[i - Len(t)]
        BY <1>1, <1>2, <1>3, <1>4, <1>5
      <3>2. i - Len(t) \in 1..Len(g)
        BY <1>1, <1>2
      <3>. QED BY <1>2, <3>1, <3>2
    <2>3. \A m \in 1..Len(w) : v[place + m - 1] = w[m]
      <3> SUFFICES ASSUME NEW m \in 1..Len(w)
                   PROVE  v[place + m - 1] = w[m]
        OBVIOUS
      <3> DEFINE i == place + m - 1
      <3>1. i \in 1..(Len(u) + Len(w)) /\ ~(i <= Len(u)) /\ i - Len(u) = m
        BY <1>1, <1>2, <1>3, <1>4
      <3> HIDE DEF i
      <3>2. v[i] = w[m]
        BY <1>5, <3>1
      <3>. QED BY <3>2 DEF i
    <2>. QED BY <1>1, <1>2, <1>3, <1>4, <1>5, <2>1, <2>2, <2>3
  <1>7. /\ qs \in Seq(Pieces) /\ Len(qs) = n + 1 /\ qs[n + 1] = p
        /\ \A i \in 1..n : qs[i] = ps[i]
    BY <1>1, AppendProperties
  <1>8. /\ bt \in Seq(Nat \ {0}) /\ Len(bt) = n + 1 /\ bt[n + 1] = place
        /\ \A i \in 1..n : bt[i] = at[i]
    BY <1>1, <1>6, AppendProperties
  <1>9. \A i \in 1..n : at[i] \in Nat \ {0} /\ ps[i] \in Pieces /\ Len(ps[i].text) \in Nat \ {0}
    BY <1>1, ElementOfSeq, PieceEnds
  <1> HIDE DEF qs, bt, place, n
  <1>10. \A i \in 1..(n + 1) : Stands(qs[i].text, v, bt[i])
    <2> SUFFICES ASSUME NEW i \in 1..(n + 1)
                 PROVE  Stands(qs[i].text, v, bt[i])
      OBVIOUS
    <2>1. CASE i = n + 1
      <3>1. qs[i].text = w /\ bt[i] = place
        BY <1>7, <1>8, <2>1 DEF w
      <3>2. Stands(w, v, place)
        BY <1>1, <1>3, <1>6 DEF Stands
      <3>. QED BY <3>1, <3>2
    <2>2. CASE i # n + 1
      <3>1. i \in 1..n /\ qs[i] = ps[i] /\ bt[i] = at[i]
        BY <1>1, <1>7, <1>8, <2>2
      <3>2. Stands(ps[i].text, t, at[i])
        BY <3>1 DEF Layout, n
      <3>3. Len(t) <= Len(v) /\ Len(v) \in Nat
        BY <1>1, <1>2, <1>3, <1>4, <1>5
      <3>4. Stands(ps[i].text, v, at[i])
        <4>1. at[i] \in Nat \ {0} /\ Len(ps[i].text) \in Nat /\ at[i] + Len(ps[i].text) <= Len(t) + 1
          BY <1>9, <3>1, <3>2 DEF Stands
        <4> DEFINE a == at[i]
                   l == Len(ps[i].text)
        <4>2. /\ a \in Nat \ {0} /\ l \in Nat /\ a + l <= Len(t) + 1
              /\ \A m \in 1..l : t[a + m - 1] = ps[i].text[m]
          BY <3>2, <4>1 DEF Stands
        <4> HIDE DEF a, l
        <4>3. a + l <= Len(v) + 1
          BY <1>1, <3>3, <4>2
        <4>4. \A m \in 1..l : a + m - 1 \in 1..Len(t)
          BY <1>1, <4>2
        <4>5. \A m \in 1..l : v[a + m - 1] = ps[i].text[m]
          BY <1>6, <4>2, <4>4
        <4>. QED BY <4>3, <4>5 DEF Stands, a, l
      <3>. QED BY <3>1, <3>4
    <2>. QED BY <2>1, <2>2
  <1>11. ASSUME NEW i \in 2..(n + 1)
         PROVE  /\ bt[i - 1] + Len(qs[i - 1].text) < bt[i]
                /\ \A m \in (bt[i - 1] + Len(qs[i - 1].text))..(bt[i] - 1) : v[m] = Blank
    <2>0. i - 1 \in 1..n
      BY <1>1
    <2>1. i - 1 \in 1..n /\ bt[i - 1] = at[i - 1] /\ qs[i - 1] = ps[i - 1]
      BY <1>7, <1>8, <2>0
    <2>2. CASE i = n + 1
      <3>1. at[n] + Len(ps[n].text) = Len(t) + 1
        BY DEF Layout, n
      <3>2. bt[i] = place /\ i - 1 = n
        BY <1>1, <1>8, <2>2
      <3>3. Len(t) + 1 < place
        BY <1>1, <1>2 DEF place
      <3>. QED BY <1>6, <2>1, <3>1, <3>2, <3>3
    <2>3. CASE i # n + 1
      <3>1. i \in 2..n /\ i \in 1..n /\ bt[i] = at[i]
        BY <1>1, <1>8, <2>3
      <3>2. /\ at[i - 1] + Len(ps[i - 1].text) < at[i]
            /\ \A m \in (at[i - 1] + Len(ps[i - 1].text))..(at[i] - 1) : t[m] = Blank
        BY <3>1 DEF Layout, n
      <3>3. at[i] <= Len(t) /\ at[i] \in Nat
        <4>1. at[i] + Len(ps[i].text) <= Len(t) + 1
          BY <3>1 DEF Layout, Stands, n
        <4>2. Len(ps[i].text) \in Nat \ {0} /\ at[i] \in Nat
          BY <1>9, <3>1
        <4>. QED BY <1>1, <4>1, <4>2
      <3>4. at[i - 1] + Len(ps[i - 1].text) \in Nat \ {0}
        BY <1>9, <2>1
      <3>5. \A m \in (at[i - 1] + Len(ps[i - 1].text))..(at[i] - 1) : m \in 1..Len(t)
        BY <1>1, <3>3, <3>4
      <3>. QED BY <1>6, <2>1, <3>1, <3>2, <3>5
    <2>. QED BY <2>2, <2>3
  <1>12. bt[n + 1] + Len(qs[n + 1].text) = Len(v) + 1
    BY <1>1, <1>2, <1>3, <1>6, <1>7, <1>8 DEF w
  <1>13. bt[1] = 1
    BY <1>1, <1>8
  <1>14. Layout(v, qs, bt)
    BY <1>1, <1>5, <1>7, <1>8, <1>10, <1>11, <1>12, <1>13 DEF Layout
  <1>. QED BY <1>14 DEF v, u, w, qs, bt, place

-----------------------------------------------------------------------------
(* Every line that spells a command is its words with blanks around them.  *)

KeyTypes == {"IDENT", "STRING"}
ValueTypes == {"STRING", "IDENT", "NUMBER"}

(* What the parser is to make of the words.                                *)
MeansBare(ps, cmd) ==
  Len(ps) = 1 /\ ps[1].type \in Bare /\ cmd = Command(ps[1].type, <<>>, <<>>, 0)

MeansKeyed(ps, cmd) ==
  /\ Len(ps) = 2 /\ ps[1].type \in Keyed /\ ps[2].type \in KeyTypes
  /\ cmd = Command(ps[1].type, ps[2].literal, <<>>, 0)

MeansShove(ps, cmd) ==
  /\ Len(ps) = 3 /\ ps[1].type = "SHOVE" /\ ps[2].type \in KeyTypes /\ ps[3].type \in ValueTypes
  /\ cmd = Command("SHOVE", ps[2].literal, ps[3].literal, 0)

MeansTTL(ps, cmd) ==
  /\ Len(ps) = 5 /\ ps[1].type = "SHOVE" /\ ps[2].type \in KeyTypes /\ ps[3].type \in ValueTypes
  /\ ps[4].type = "TTL" /\ ps[5].type = "NUMBER"
  /\ cmd = Timed(ps[2].literal, ps[3].literal, ps[5].literal)

Means(ps, cmd) ==
  MeansBare(ps, cmd) \/ MeansKeyed(ps, cmd) \/ MeansShove(ps, cmd) \/ MeansTTL(ps, cmd)

(* A trimmed text that spells a command.                                   *)
SpellsCommand(t, cmd) == \E ps, at : Layout(t, ps, at) /\ Means(ps, cmd)

Piece(text, type, literal) == [text |-> text, type |-> type, literal |-> literal]

LEMMA KeywordPiece ==
  ASSUME NEW c \in Keywords
  PROVE  Piece(<<c>>, c, <<c>>) \in Pieces
  <1>1. <<c>> \in Words /\ c \in TokenTypes
    BY DEF Words, Atoms, TokenTypes
  <1>. QED BY <1>1 DEF Piece, Pieces, Spells

(* The quotes are atoms: what stands between them may be any quotable text. *)
LEMMA QuotedPiece ==
  ASSUME NEW w \in Words, NEW s \in SpelledQuoted(w)
  PROVE  Piece(s, "STRING", w) \in Pieces
  <1>1. PICK q \in Quotes : Quotable(w, q) /\ s = <<q>> \o w \o <<q>>
    BY DEF SpelledQuoted
  <1>2. q \in Atoms
    BY Zenon DEF Atoms, Marks
  <1>3. <<q>> \in Words
    BY <1>2 DEF Words
  <1>4. s \in Words
    BY <1>1, <1>3, ConcatProperties DEF Words
  <1>5. "STRING" \in TokenTypes
    BY DEF TokenTypes
  <1>. QED BY <1>1, <1>4, <1>5 DEF Piece, Pieces, Spells

LEMMA KeyPiece ==
  ASSUME NEW k \in Keys, NEW s \in SpelledKey(k)
  PROVE  \E type \in KeyTypes : Piece(s, type, k) \in Pieces
  <1>1. k \in Words
    BY RQLAssumption DEF Words
  <1>2. CASE s \in SpelledQuoted(k)
    BY <1>1, <1>2, QuotedPiece DEF KeyTypes
  <1>3. CASE IsWord(k) /\ s = k
    <2>1. Piece(s, "IDENT", k) \in Pieces
      BY <1>1, <1>3 DEF Piece, Pieces, Spells, TokenTypes
    <2>. QED BY <2>1 DEF KeyTypes
  <1>. QED BY <1>2, <1>3 DEF SpelledKey

LEMMA ValuePiece ==
  ASSUME NEW v \in Values, NEW s \in SpelledValue(v)
  PROVE  \E type \in ValueTypes : Piece(s, type, v) \in Pieces
  <1>1. v \in Words
    BY RQLAssumption DEF Words
  <1>2. CASE s \in SpelledQuoted(v)
    BY <1>1, <1>2, QuotedPiece DEF ValueTypes
  <1>3. CASE IsWord(v) /\ s = v
    <2>1. Piece(s, "IDENT", v) \in Pieces
      BY <1>1, <1>3 DEF Piece, Pieces, Spells, TokenTypes
    <2>. QED BY <2>1 DEF ValueTypes
  <1>4. CASE IsNumber(v) /\ s = v
    <2>1. Piece(s, "NUMBER", v) \in Pieces
      BY <1>1, <1>4 DEF Piece, Pieces, Spells, TokenTypes
    <2>. QED BY <2>1 DEF ValueTypes
  <1>. QED BY <1>2, <1>3, <1>4 DEF SpelledValue

LEMMA TTLPiece ==
  ASSUME NEW ts \in TTLs
  PROVE  Piece(ts, "NUMBER", ts) \in Pieces
  <1>1. ts \in Seq(Digits) /\ ts # <<>>
    BY RQLAssumption
  <1>2. Digits \subseteq Atoms
    BY DEF Atoms
  <1>3. ts \in Words
    BY <1>1, <1>2, SeqMonotonic DEF Words
  <1>4. DOMAIN ts = 1..Len(ts) /\ \A i \in 1..Len(ts) : ts[i] \in Digits
    BY <1>1, LenProperties, ElementOfSeq
  <1>5. IsNumber(ts)
    BY <1>1, <1>4 DEF IsNumber, ToSet
  <1>6. "NUMBER" \in TokenTypes
    BY DEF TokenTypes
  <1>. QED BY <1>3, <1>5, <1>6 DEF Piece, Pieces, Spells

(* The text is all of the padded one but the blanks in front and behind.   *)
LEMMA Padded ==
  ASSUME NEW t \in Words, NEW g \in Gaps
  PROVE  LET s == g \o t \o g
         IN  /\ s \in Words /\ Len(s) = Len(g) + Len(t) + Len(g) /\ Len(g) \in Nat
             /\ \A m \in 1..Len(g) : s[m] = Blank
             /\ \A m \in 1..Len(t) : s[Len(g) + m] = t[m]
             /\ \A m \in (Len(g) + Len(t) + 1)..Len(s) : s[m] = Blank
  <1> DEFINE G == Len(g)
             T == Len(t)
             u == g \o t
             s == u \o g
  <1>1. g \in Seq({Blank}) /\ {Blank} \subseteq Atoms
    BY Zenon, RQLAssumption DEF Atoms, Marks
  <1>2. g \in Words /\ t \in Words /\ G \in Nat /\ T \in Nat
    BY <1>1, SeqMonotonic, LenProperties DEF Words
  <1>3. \A m \in 1..G : g[m] = Blank
    <2>1. \A m \in 1..G : g[m] \in {Blank}
      BY <1>1, ElementOfSeq
    <2>. QED BY <2>1
  <1>4. /\ u \in Words /\ Len(u) = G + T
        /\ \A i \in 1..(G + T) : u[i] = IF i <= G THEN g[i] ELSE t[i - G]
    BY <1>2, ConcatProperties DEF Words
  <1> HIDE DEF u
  <1>5. /\ s \in Words /\ Len(s) = G + T + G
        /\ \A i \in 1..(G + T + G) : s[i] = IF i <= G + T THEN u[i] ELSE g[i - (G + T)]
    <2>1. /\ s \in Words /\ Len(s) = Len(u) + G
          /\ \A i \in 1..(Len(u) + G) : s[i] = IF i <= Len(u) THEN u[i] ELSE g[i - Len(u)]
      <3>1. u \in Seq(Atoms) /\ g \in Seq(Atoms)
        BY <1>2, <1>4 DEF Words
      <3>. QED BY <3>1, ConcatProperties DEF Words
    <2> HIDE DEF s, G, T
    <2>. QED BY <1>4, <2>1
  <1> HIDE DEF s, G, T
  <1>6. \A m \in 1..G : s[m] = Blank
    BY <1>2, <1>3, <1>4, <1>5
  <1>7. ASSUME NEW m \in 1..T
        PROVE  s[G + m] = t[m]
    <2> DEFINE i == G + m
    <2>1. i \in 1..(G + T) /\ i \in 1..(G + T + G) /\ i - G = m /\ ~(i <= G) /\ i <= G + T
      BY <1>2
    <2> HIDE DEF i
    <2>2. s[i] = u[i] /\ u[i] = t[i - G]
      BY <1>4, <1>5, <2>1
    <2>. QED BY <2>1, <2>2 DEF i
  <1>8. ASSUME NEW m \in (G + T + 1)..(G + T + G)
        PROVE  s[m] = Blank
    <2>1. m \in 1..(G + T + G) /\ ~(m <= G + T) /\ m - (G + T) \in 1..G
      BY <1>2
    <2>2. s[m] = g[m - (G + T)]
      BY <1>5, <2>1
    <2>. QED BY <1>3, <2>1, <2>2
  <1>9. \A m \in (G + T + 1)..Len(s) : s[m] = Blank
    BY <1>5, <1>8
  <1>. QED BY <1>2, <1>5, <1>6, <1>7, <1>9 DEF s, u, G, T

(* A line spells the command that is wanted of it, if any.                 *)
Planned(l) ==
  /\ l.text \in Words
  /\ l.wanted # Unknown => \E t \in Words, g \in Gaps :
                              l.text = g \o t \o g /\ SpellsCommand(t, l.wanted)

LEMMA SpelledLine ==
  ASSUME NEW t, NEW g \in Gaps, NEW cmd, SpellsCommand(t, cmd)
  PROVE  Planned(Line(t, g, cmd))
  <1>1. t \in Words
    BY DEF SpellsCommand, Layout
  <1>2. g \o t \o g \in Words
    BY <1>1, Padded
  <1>. QED BY <1>1, <1>2 DEF Planned, Line

(* The first two words of a command.                                       *)
LEMMA CommandAndKey ==
  ASSUME NEW c \in Keywords, NEW k \in Keys, NEW ks \in SpelledKey(k), NEW g \in Gaps
  PROVE  \E ps, at : /\ Layout(KeyedText(c, ks, g), ps, at) /\ Len(ps) = 2
                     /\ ps[1].type = c /\ ps[2].type \in KeyTypes /\ ps[2].literal = k
  <1> DEFINE p == Piece(<<c>>, c, <<c>>)
  <1>1. p \in Pieces /\ p.text = <<c>>
    BY KeywordPiece DEF Piece
  <1>2. PICK type \in KeyTypes : Piece(ks, type, k) \in Pieces
    BY KeyPiece
  <1> DEFINE r == Piece(ks, type, k)
             at == Append(<<1>>, Len(<<c>>) + Len(g) + 1)
             ps == Append(<<p>>, r)
  <1>3. r.text = ks /\ r.type = type /\ r.literal = k /\ p.type = c
    BY DEF Piece
  <1> HIDE DEF p, r
  <1>4. Layout(<<c>>, <<p>>, <<1>>)
    BY <1>1, FirstPiece
  <1>5. Layout(<<c>> \o g \o r.text, ps, at)
    BY <1>2, <1>4, NextPiece DEF r
  <1>6. Len(ps) = 2 /\ ps[1] = p /\ ps[2] = r
    OBVIOUS
  <1>. QED BY <1>3, <1>5, <1>6 DEF KeyedText

(* A piece behind others.                                                  *)
LEMMA OneMore ==
  ASSUME NEW t, NEW ps, NEW at, Layout(t, ps, at), NEW g \in Gaps, NEW p \in Pieces
  PROVE  \E qs, bt : /\ Layout(t \o g \o p.text, qs, bt) /\ Len(qs) = Len(ps) + 1
                     /\ qs[Len(ps) + 1] = p /\ \A i \in 1..Len(ps) : qs[i] = ps[i]
  <1>1. Layout(t \o g \o p.text, Append(ps, p), Append(at, Len(t) + Len(g) + 1))
    BY NextPiece
  <1>2. ps \in Seq(Pieces)
    BY DEF Layout
  <1>3. /\ Len(Append(ps, p)) = Len(ps) + 1 /\ Append(ps, p)[Len(ps) + 1] = p
        /\ \A i \in 1..Len(ps) : Append(ps, p)[i] = ps[i]
    BY <1>2, AppendProperties
  <1>. QED BY <1>1, <1>3

(* The first three words of SHOVE.                                         *)
LEMMA ShoveWords ==
  ASSUME NEW k \in Keys, NEW ks \in SpelledKey(k), NEW v \in Values, NEW vs \in SpelledValue(v),
         NEW g \in Gaps
  PROVE  \E ps, at : /\ Layout(ShoveText(ks, vs, g), ps, at) /\ Len(ps) = 3
                     /\ ps[1].type = "SHOVE" /\ ps[2].type \in KeyTypes /\ ps[3].type \in ValueTypes
                     /\ ps[2].literal = k /\ ps[3].literal = v
  <1>1. "SHOVE" \in Keywords
    BY DEF Keywords
  <1>2. PICK ps, at : /\ Layout(KeyedText("SHOVE", ks, g), ps, at) /\ Len(ps) = 2
                      /\ ps[1].type = "SHOVE" /\ ps[2].type \in KeyTypes /\ ps[2].literal = k
    BY <1>1, CommandAndKey
  <1>3. PICK type \in ValueTypes : Piece(vs, type, v) \in Pieces
    BY ValuePiece
  <1> DEFINE p == Piece(vs, type, v)
             t == KeyedText("SHOVE", ks, g)
  <1>4. p \in Pieces /\ p.text = vs /\ p.type = type /\ p.literal = v
    BY <1>3 DEF Piece
  <1> HIDE DEF p, t
  <1>5. Layout(t, ps, at)
    BY <1>2 DEF t
  <1>6. PICK qs, bt : /\ Layout(t \o g \o p.text, qs, bt) /\ Len(qs) = Len(ps) + 1
                      /\ qs[Len(ps) + 1] = p /\ \A i \in 1..Len(ps) : qs[i] = ps[i]
    BY <1>4, <1>5, OneMore
  <1>7. Len(qs) = 3 /\ qs[1] = ps[1] /\ qs[2] = ps[2] /\ qs[3] = p
    BY <1>2, <1>6
  <1>8. t \o g \o p.text = ShoveText(ks, vs, g)
    BY <1>4 DEF t, KeyedText, ShoveText
  <1>. QED BY <1>2, <1>4, <1>6, <1>7, <1>8

LEMMA LinesPlanned ==
  ASSUME NEW l \in Lines
  PROVE  Planned(l)
  <1>1. ASSUME NEW t \in Texts, l = [text |-> t, wanted |-> Unknown]
        PROVE  Planned(l)
    BY <1>1, RQLAssumption DEF Planned, Words
  <1>2. ASSUME NEW c \in Bare, NEW g \in Gaps, l = Line(BareText(c), g, Command(c, <<>>, <<>>, 0))
        PROVE  Planned(l)
    <2> DEFINE p == Piece(<<c>>, c, <<c>>)
    <2>1. p \in Pieces /\ p.text = <<c>> /\ p.type = c
      BY KeywordPiece DEF Piece, Keywords
    <2> HIDE DEF p
    <2>2. Layout(<<c>>, <<p>>, <<1>>)
      BY <2>1, FirstPiece
    <2>3. Means(<<p>>, Command(c, <<>>, <<>>, 0))
      BY <2>1 DEF Means, MeansBare
    <2>4. SpellsCommand(<<c>>, Command(c, <<>>, <<>>, 0))
      BY <2>2, <2>3 DEF SpellsCommand
    <2>. QED BY <1>2, <2>4, SpelledLine DEF BareText
  <1>3. ASSUME NEW c \in Keyed, NEW k \in Keys, NEW g \in Gaps, NEW ks \in SpelledKey(k),
               l = Line(KeyedText(c, ks, g), g, Command(c, k, <<>>, 0))
        PROVE  Planned(l)
    <2>1. PICK ps, at : /\ Layout(KeyedText(c, ks, g), ps, at) /\ Len(ps) = 2
                        /\ ps[1].type = c /\ ps[2].type \in KeyTypes /\ ps[2].literal = k
      <3>1. c \in Keywords
        BY DEF Keywords
      <3>. QED BY <3>1, CommandAndKey
    <2>2. Means(ps, Command(c, k, <<>>, 0))
      BY <2>1 DEF Means, MeansKeyed
    <2>3. SpellsCommand(KeyedText(c, ks, g), Command(c, k, <<>>, 0))
      BY <2>1, <2>2 DEF SpellsCommand
    <2>. QED BY <1>3, <2>3, SpelledLine
  <1>4. ASSUME NEW k \in Keys, NEW v \in Values, NEW g \in Gaps,
               NEW ks \in SpelledKey(k), NEW vs \in SpelledValue(v),
               l = Line(ShoveText(ks, vs, g), g, Command("SHOVE", k, v, 0))
        PROVE  Planned(l)
    <2>1. PICK ps, at : /\ Layout(ShoveText(ks, vs, g), ps, at) /\ Len(ps) = 3
                        /\ ps[1].type = "SHOVE" /\ ps[2].type \in KeyTypes
                        /\ ps[3].type \in ValueTypes /\ ps[2].literal = k /\ ps[3].literal = v
      BY ShoveWords
    <2>2. Means(ps, Command("SHOVE", k, v, 0))
      BY <2>1 DEF Means, MeansShove
    <2>3. SpellsCommand(ShoveText(ks, vs, g), Command("SHOVE", k, v, 0))
      BY <2>1, <2>2 DEF SpellsCommand
    <2>. QED BY <1>4, <2>3, SpelledLine
  <1>5. ASSUME NEW k \in Keys, NEW v \in Values, NEW ts \in TTLs, NEW g \in Gaps,
               NEW ks \in SpelledKey(k), NEW vs \in SpelledValue(v),
               l = Line(TTLText(ks, vs, ts, g), g, Timed(k, v, ts))
        PROVE  Planned(l)
    <2> DEFINE t == ShoveText(ks, vs, g)
               word == Piece(<<"TTL">>, "TTL", <<"TTL">>)
               digits == Piece(ts, "NUMBER", ts)
    <2>1. PICK ps, at : /\ Layout(t, ps, at) /\ Len(ps) = 3
                        /\ ps[1].type = "SHOVE" /\ ps[2].type \in KeyTypes
                        /\ ps[3].type \in ValueTypes /\ ps[2].literal = k /\ ps[3].literal = v
      BY ShoveWords
    <2>2. /\ word \in Pieces /\ word.text = <<"TTL">> /\ word.type = "TTL"
          /\ digits \in Pieces /\ digits.text = ts /\ digits.type = "NUMBER" /\ digits.literal = ts
      <3>1. "TTL" \in Keywords
        BY DEF Keywords
      <3>. QED BY <3>1, KeywordPiece, TTLPiece DEF Piece
    <2> HIDE DEF t, word, digits
    <2>3. PICK qs, bt : /\ Layout(t \o g \o word.text, qs, bt) /\ Len(qs) = Len(ps) + 1
                        /\ qs[Len(ps) + 1] = word /\ \A i \in 1..Len(ps) : qs[i] = ps[i]
      <3>1. Layout(t, ps, at) /\ word \in Pieces
        BY <2>1, <2>2
      <3>. QED BY <3>1, OneMore
    <2>4. PICK rs, ct : /\ Layout(t \o g \o word.text \o g \o digits.text, rs, ct)
                        /\ Len(rs) = Len(qs) + 1
                        /\ rs[Len(qs) + 1] = digits /\ \A i \in 1..Len(qs) : rs[i] = qs[i]
      <3>1. Layout(t \o g \o word.text, qs, bt) /\ digits \in Pieces
        BY <2>2, <2>3
      <3>. QED BY <3>1, OneMore
    <2>5. /\ Len(rs) = 5 /\ rs[1] = ps[1] /\ rs[2] = ps[2] /\ rs[3] = ps[3]
          /\ rs[4] = word /\ rs[5] = digits
      BY <2>1, <2>3, <2>4
    <2>6. Means(rs, Timed(k, v, ts))
      BY <2>1, <2>2, <2>5 DEF Means, MeansTTL
    <2>7. t \o g \o word.text \o g \o digits.text = TTLText(ks, vs, ts, g)
      BY <2>2 DEF t, TTLText
    <2>8. SpellsCommand(TTLText(ks, vs, ts, g), Timed(k, v, ts))
      BY <2>4, <2>6, <2>7 DEF SpellsCommand
    <2>. QED BY <1>5, <2>8, SpelledLine
  <1>. QED BY <1>1, <1>2, <1>3, <1>4, <1>5 DEF Lines, BareLines, KeyedLines, ShoveLines, TTLLines

-----------------------------------------------------------------------------
(* The readers of the lexer, as functions of the place they begin at.      *)

(* skipWhitespace, readNumber and readIdentOrKeyword stop at the first atom that
   does not belong to the run, or at the end of the input.                 *)
LEMMA EndOfRun ==
  ASSUME input \in Words, NEW C, NEW i \in 1..(Len(input) + 1)
  PROVE  /\ EndOf(C, i) \in i..(Len(input) + 1)
         /\ \A m \in i..(EndOf(C, i) - 1) : input[m] \in C
         /\ EndOf(C, i) = Len(input) + 1 \/ input[EndOf(C, i)] \notin C
  <1> DEFINE Stops == {j \in i..(Len(input) + 1) : j = Len(input) + 1 \/ input[j] \notin C}
  <1>1. Len(input) \in Nat
    BY LenProperties DEF Words
  <1>2. Stops \in SUBSET Nat /\ Len(input) + 1 \in Stops
    BY <1>1
  <1>3. PICK x \in Stops : \A y \in Stops : x <= y
    <2> HIDE DEF Stops
    <2>. QED BY <1>2, LeastNatural
  <1>4. \A m \in i..(x - 1) : input[m] \in C
    BY <1>1, <1>3
  <1>5. /\ x \in i..(Len(input) + 1)
        /\ x = Len(input) + 1 \/ input[x] \notin C
    OBVIOUS
  <1>. QED BY <1>4, <1>5 DEF EndOf

(* Where the loop of readString stops, and where it looks next.            *)
Stop(q) == {j \in 1..(Len(input) + 2) : Look(j) \in {q, "NUL"}}

Next(j) == IF Look(j) = "\\" THEN j + 2 ELSE j + 1

LEMMA NextInside ==
  ASSUME input \in Words, NEW q, NEW j \in (1..(Len(input) + 2)) \ Stop(q)
  PROVE  j \in 1..Len(input) /\ Look(j) = input[j] /\ Next(j) \in (j + 1)..(Len(input) + 2)
  <1>1. Len(input) \in Nat
    BY LenProperties DEF Words
  <1>2. j <= Len(input)
    BY <1>1 DEF Stop, Look
  <1>. QED BY <1>1, <1>2 DEF Look, Next

(* The loop of readString computes a function of where it begins.          *)
IsStringLoop(f, q) ==
  /\ f = [j \in 1..(Len(input) + 2) |-> IF j \in Stop(q) THEN j ELSE f[Next(j)]]
  /\ \A i : StringEnd(q, i) = f[i]

LEMMA StringEndEquation ==
  ASSUME input \in Words, NEW q
  PROVE  \E f : IsStringLoop(f, q)
  <1> DEFINE n == Len(input) + 2
             Loop(f) == f = [j \in 1..n |->
                               IF Look(j) \in {q, "NUL"} THEN j
                               ELSE IF Look(j) = "\\" THEN f[j + 2] ELSE f[j + 1]]
             next == [j \in 1..n |-> Next(j)]
             here == [j \in 1..n |-> j]
  <1>1. n \in Nat
    BY LenProperties DEF Words
  <1>2. \A j \in (1..n) \ Stop(q) : next[j] \in (j + 1)..n
    BY NextInside
  <1>3. PICK f : IsLoop(f, n, Stop(q), here, next)
    <2> HIDE DEF n, next, here
    <2>. QED BY <1>1, <1>2, ForwardRecursion
  <1>4. f = [j \in 1..n |-> IF j \in Stop(q) THEN j ELSE f[Next(j)]]
    BY <1>3 DEF IsLoop
  <1>5. \A g : Loop(g) <=> g = [j \in 1..n |-> IF j \in Stop(q) THEN j ELSE g[Next(j)]]
    BY DEF Stop, Next
  <1>6. \A i : StringEnd(q, i) = (CHOOSE g : Loop(g))[i]
    BY DEF StringEnd
  <1>7. Loop(CHOOSE g : Loop(g))
    <2>1. Loop(f)
      BY <1>4, <1>5
    <2> HIDE DEF Loop
    <2>. QED BY <2>1
  <1>. QED BY <1>5, <1>6, <1>7 DEF IsStringLoop

(* The loop of readString stops at the quote, at a NUL byte or at the end; it
   gets two places past the last atom only over a backslash that is the last. *)
LEMMA StringEndBounds ==
  ASSUME input \in Words, NEW q, NEW i \in 1..(Len(input) + 1)
  PROVE  /\ StringEnd(q, i) \in i..(Len(input) + 2)
         /\ Look(StringEnd(q, i)) \in {q, "NUL"}
         /\ StringEnd(q, i) = Len(input) + 2 => input[Len(input)] = "\\"
  <1> DEFINE n == Len(input) + 2
  <1>1. n \in Nat /\ n = Len(input) + 2 /\ Len(input) \in Nat
    BY LenProperties DEF Words
  <1>2. PICK f : IsStringLoop(f, q)
    BY StringEndEquation
  <1>3. \A j \in 1..n : f[j] = IF j \in Stop(q) THEN j ELSE f[Next(j)]
    BY <1>2 DEF IsStringLoop
  <1> DEFINE next == [j \in 1..n |-> Next(j)]
             Good == {j \in 1..n : /\ f[j] \in j..n
                                   /\ Look(f[j]) \in {q, "NUL"}
                                   /\ j # n /\ f[j] = n => input[Len(input)] = "\\"}
  <1> HIDE DEF n
  <1>4. \A j \in (1..n) \ Stop(q) : j \in 1..Len(input) /\ next[j] \in (j + 1)..n /\ next[j] = Next(j)
    BY NextInside DEF n
  <1>5. ASSUME NEW j \in 1..n, j \in Stop(q)
        PROVE  j \in Good
    BY <1>1, <1>3, <1>5 DEF Stop
  <1>6. ASSUME NEW j \in (1..n) \ Stop(q), next[j] \in Good
        PROVE  j \in Good
    <2>1. f[j] = f[next[j]] /\ next[j] \in (j + 1)..n /\ j \in 1..Len(input)
      BY <1>3, <1>4
    <2>2. f[j] \in j..n /\ Look(f[j]) \in {q, "NUL"}
      BY <1>1, <1>6, <2>1
    <2>3. CASE next[j] # n
      BY <1>6, <2>1, <2>2, <2>3
    <2>4. CASE next[j] = n
      <3>1. j = Len(input) /\ Look(j) = "\\"
        BY <1>1, <1>4, <2>1, <2>4 DEF Next
      <3>2. input[Len(input)] = "\\"
        BY <3>1, <1>1 DEF Look
      <3>. QED BY <2>2, <3>2
    <2>. QED BY <2>3, <2>4
  <1>7. 1..n \subseteq Good
    <2> HIDE DEF Good, next
    <2>. QED BY <1>1, <1>4, <1>5, <1>6, BackwardInduction
  <1>8. i \in 1..n /\ i # n
    BY <1>1
  <1>9. i \in Good
    BY <1>7, <1>8
  <1>. QED BY <1>1, <1>2, <1>8, <1>9 DEF IsStringLoop

(* The text between quotes q, as a client may write it, ends at its closing
   quote: readString and the rule for quoting agree.                       *)
LEMMA QuotedEnd ==
  ASSUME input \in Words, NEW q \in Quotes, NEW w \in Words, Quotable(w, q),
         NEW i \in Nat \ {0}, i + Len(w) + 1 <= Len(input), input[i + Len(w) + 1] = q,
         \A m \in 1..Len(w) : input[i + m] = w[m]
  PROVE  StringEnd(q, i + 1) = i + Len(w) + 1
  <1> DEFINE L == Len(input)
             n == Len(w) + 2
             stop == {j \in 1..n : j > Len(w) \/ (w[j] # "\\" /\ w[j] \in {q, "NUL"})}
             next == [j \in 1..n |-> IF w[j] = "\\" THEN j + 2 ELSE j + 1]
             value == [j \in 1..n |-> j]
             Rule(f) == f = [j \in 1..n |->
                               IF j > Len(w) THEN j
                               ELSE IF w[j] = "\\" THEN f[j + 2]
                               ELSE IF w[j] \in {q, "NUL"} THEN j ELSE f[j + 1]]
             end == CHOOSE f : Rule(f)
  <1>1. L \in Nat /\ L = Len(input) /\ Len(w) \in Nat /\ n \in Nat /\ n = Len(w) + 2
    BY LenProperties DEF Words
  <1>2. q # "\\" /\ q # "NUL" /\ "NUL" # "\\"
    BY AtomsDistinct
  <1>3. end[1] = Len(w) + 1
    BY DEF Quotable
  <1>4. \A j \in (1..n) \ stop : next[j] \in (j + 1)..n
    BY <1>1
  <1>5. PICK f : IsLoop(f, n, stop, value, next)
    <2> HIDE DEF n, stop, value, next
    <2>. QED BY <1>1, <1>4, ForwardRecursion
  <1>6. Rule(f)
    <2>1. f = [j \in 1..n |-> IF j \in stop THEN value[j] ELSE f[next[j]]]
      BY <1>5 DEF IsLoop
    <2> HIDE DEF n
    <2>2. \A j \in 1..n : (IF j \in stop THEN value[j] ELSE f[next[j]])
                          = (IF j > Len(w) THEN j
                             ELSE IF w[j] = "\\" THEN f[j + 2]
                             ELSE IF w[j] \in {q, "NUL"} THEN j ELSE f[j + 1])
      BY <1>1
    <2>. QED BY <2>1, <2>2
  <1>7. Rule(end)
    <2> HIDE DEF Rule
    <2>. QED BY <1>6
  <1> HIDE DEF end
  <1>8. \A j \in 1..n : end[j] = IF j > Len(w) THEN j
                                 ELSE IF w[j] = "\\" THEN end[j + 2]
                                 ELSE IF w[j] \in {q, "NUL"} THEN j ELSE end[j + 1]
    BY <1>7
  <1>9. PICK g : IsStringLoop(g, q)
    BY StringEndEquation
  <1>10. \A j \in 1..(L + 2) : g[j] = IF Look(j) \in {q, "NUL"} THEN j
                                      ELSE IF Look(j) = "\\" THEN g[j + 2] ELSE g[j + 1]
    BY <1>9 DEF IsStringLoop, Stop, Next
  <1> HIDE DEF L, n
  <1> DEFINE Good == {j \in 1..n : end[j] = Len(w) + 1 => g[i + j] = i + Len(w) + 1}
  <1>11. \A j \in 1..n : i + j \in 1..(L + 2)
    BY <1>1
  <1>12. ASSUME NEW j \in 1..n, j \in stop
         PROVE  j \in Good
    <2>1. CASE j = Len(w) + 1
      <3>1. Look(i + j) = q
        BY <1>1, <2>1 DEF Look, L
      <3>2. g[i + j] = i + j
        BY <1>10, <1>11, <3>1
      <3>. QED BY <1>1, <2>1, <3>2
    <2>2. CASE j # Len(w) + 1
      <3>1. end[j] # Len(w) + 1
        BY <1>1, <1>8, <1>12, <2>2
      <3>. QED BY <3>1
    <2>. QED BY <2>1, <2>2
  <1>13. ASSUME NEW j \in (1..n) \ stop, next[j] \in Good
         PROVE  j \in Good
    <2>1. j \in 1..Len(w) /\ next[j] = IF w[j] = "\\" THEN j + 2 ELSE j + 1
      BY <1>1
    <2>2. Look(i + j) = w[j]
      BY <1>1, <2>1 DEF Look, L
    <2>3. CASE w[j] = "\\"
      <3>1. end[j] = end[j + 2] /\ next[j] = j + 2
        BY <1>1, <1>8, <2>1, <2>3
      <3>2. g[i + j] = g[i + j + 2]
        BY <1>2, <1>10, <1>11, <2>1, <2>2, <2>3
      <3>3. i + (j + 2) = i + j + 2
        BY <1>1
      <3>. QED BY <1>13, <3>1, <3>2, <3>3
    <2>4. CASE w[j] # "\\"
      <3>1. w[j] \notin {q, "NUL"}
        BY <2>1, <2>4
      <3>2. end[j] = end[j + 1] /\ next[j] = j + 1
        BY <1>1, <1>8, <2>1, <2>4, <3>1
      <3>3. g[i + j] = g[i + j + 1]
        BY <1>10, <1>11, <2>1, <2>2, <2>4, <3>1
      <3>4. i + (j + 1) = i + j + 1
        BY <1>1
      <3>. QED BY <1>13, <3>2, <3>3, <3>4
    <2>. QED BY <2>3, <2>4
  <1>14. 1..n \subseteq Good
    <2> HIDE DEF Good, next, stop
    <2>. QED BY <1>1, <1>4, <1>12, <1>13, BackwardInduction
  <1>15. 1 \in Good
    BY <1>1, <1>14
  <1>. QED BY <1>3, <1>9, <1>15 DEF IsStringLoop

-----------------------------------------------------------------------------
(* Every step keeps the types.                                             *)
LEMMA TokenTyped ==
  ASSUME input \in Words, NEW type \in TokenTypes, NEW i \in Nat \ {0}, NEW j \in i..(Len(input) + 1)
  PROVE  /\ Token(type, i, j) \in TokenType
         /\ Len(Token(type, i, j).literal) = j - i
         /\ Token(type, i, j).type = type /\ Token(type, i, j).at = i
  <1>1. Len(input) \in Nat
    BY LenProperties DEF Words
  <1>2. \A m \in i..(j - 1) : input[m] \in Atoms
    BY <1>1, ElementOfSeq DEF Words
  <1>3. /\ SubSeq(input, i, j - 1) \in Words
        /\ Len(SubSeq(input, i, j - 1)) = IF i <= j - 1 THEN j - 1 - i + 1 ELSE 0
    <2>1. i \in Int /\ j - 1 \in Int
      BY <1>1
    <2>. QED BY <1>2, <2>1, SubSeqProperties DEF Words
  <1>4. Len(SubSeq(input, i, j - 1)) = j - i
    BY <1>1, <1>3
  <1>. QED BY <1>3, <1>4 DEF Token, TokenType

LEMMA WordType ==
  ASSUME NEW word
  PROVE  LookupIdent(word) \in TokenTypes
  BY DEF LookupIdent, TokenTypes

LEMMA TrimmedType ==
  ASSUME NEW s \in Words
  PROVE  TrimSpace(s) \in Words
  <1> DEFINE ink == {i \in DOMAIN s : s[i] # Blank}
  <1>1. Len(s) \in Nat /\ DOMAIN s = 1..Len(s)
    BY LenProperties DEF Words
  <1>2. CASE ink = {}
    BY <1>2, EmptySeq DEF TrimSpace, Words
  <1>3. CASE ink # {}
    <2>1. ink \in SUBSET Nat /\ ink \in SUBSET (0..Len(s)) /\ ink \subseteq 1..Len(s)
      BY <1>1
    <2> HIDE DEF ink
    <2>2. PICK x \in ink : \A y \in ink : x <= y
      BY <1>3, <2>1, LeastNatural
    <2>3. PICK z \in ink : \A y \in ink : y <= z
      BY <1>1, <1>3, <2>1, GreatestNumber
    <2>4. Min(ink) \in 1..Len(s) /\ Max(ink) \in 1..Len(s)
      BY <2>1, <2>2, <2>3 DEF Min, Max
    <2>5. \A m \in Min(ink)..Max(ink) : s[m] \in Atoms
      BY <1>1, <2>4, ElementOfSeq DEF Words
    <2>6. SubSeq(s, Min(ink), Max(ink)) \in Words
      BY <2>4, <2>5, SubSeqProperties DEF Words
    <2>. QED BY <1>3, <2>6 DEF TrimSpace, ink
  <1>. QED BY <1>2, <1>3

LEMMA TypeInit == RQLInit => RQLTypeOK
  <1> SUFFICES ASSUME RQLInit
               PROVE  RQLTypeOK
    OBVIOUS
  <1>1. line \in Words
    BY LinesPlanned DEF RQLInit, Planned
  <1>2. input \in Words /\ tokens \in Seq(TokenType) /\ Len(input) = 0
    BY EmptySeq DEF RQLInit, Words
  <1>. QED BY <1>1, <1>2 DEF RQLInit, RQLTypeOK

(* skipWhitespace ends inside the input or right behind it.                *)
LEMMA HereType ==
  ASSUME RQLTypeOK
  PROVE  /\ Len(input) \in Nat /\ Here \in pos..(Len(input) + 1)
         /\ \A m \in pos..(Here - 1) : input[m] = Blank
         /\ Look(Here) # "NUL" => Here \in 1..Len(input) /\ Look(Here) = input[Here]
  <1>1. Len(input) \in Nat
    BY LenProperties DEF RQLTypeOK, Words
  <1>2. /\ Here \in pos..(Len(input) + 1)
        /\ \A m \in pos..(Here - 1) : input[m] \in {Blank}
    BY EndOfRun DEF RQLTypeOK, Here
  <1>. QED BY <1>1, <1>2 DEF RQLTypeOK, Look

(* A turn of the loop of Tokenize that finds a token: the token begins where
   the blanks end, behind the quote if it is a string, and the next turn begins
   where it ends, behind the closing quote if there is one.                *)
LexToken == LexString \/ LexNumber \/ LexWord \/ LexIllegal

LEMMA LexTokenEffect ==
  ASSUME RQLTypeOK, LexToken
  PROVE  \E type \in TokenTypes, i \in Nat \ {0}, j \in 1..(Len(input) + 1), next \in Nat :
           /\ Found(Token(type, i, j), next)
           /\ i <= j /\ next \in 1..(Len(input) + 1) /\ Here < next
           /\ type # "STRING" => i = Here /\ next = j
           /\ type = "STRING" => i = Here + 1 /\ j <= next /\ next <= j + 1
  <1> DEFINE L == Len(input)
             Effect(type, i, j, next) ==
               /\ Found(Token(type, i, j), next)
               /\ i <= j /\ next \in 1..(L + 1) /\ Here < next
               /\ type # "STRING" => i = Here /\ next = j
               /\ type = "STRING" => i = Here + 1 /\ j <= next /\ next <= j + 1
  <1>1. /\ L \in Nat /\ L = Len(input) /\ pos \in 1..(L + 1) /\ Here \in pos..(L + 1)
        /\ Look(Here) # "NUL" => Here \in 1..L /\ Look(Here) = input[Here]
        /\ input \in Words
    BY HereType DEF RQLTypeOK
  <1>2. SUFFICES \E type \in TokenTypes, i \in Nat \ {0}, j \in 1..(L + 1), next \in Nat :
                   Effect(type, i, j, next)
    OBVIOUS
  <1> HIDE DEF L
  <1>3. CASE LexString
    <2> DEFINE q == Look(Here)
               end == StringEnd(q, Here + 1)
               next == IF Look(end) = q THEN end + 1 ELSE end
    <2>1. q \in Quotes /\ q # "NUL" /\ end <= L + 1 /\ Found(Token("STRING", Here + 1, end), next)
      BY <1>1, <1>3, NulBeginsNothing DEF LexString
    <2>2. Here + 1 \in 1..(L + 1)
      BY <1>1, <2>1
    <2>3. end \in (Here + 1)..(L + 2)
      BY <1>1, <2>2, StringEndBounds
    <2>4. Look(end) = q => end <= L
      BY <1>1, <2>1, <2>3 DEF Look
    <2> HIDE DEF q, end
    <2>5. next \in 1..(L + 1) /\ end <= next /\ next <= end + 1 /\ Here < next
      BY <1>1, <2>1, <2>3, <2>4
    <2>6. Effect("STRING", Here + 1, end, next)
      BY <1>1, <2>1, <2>3, <2>5
    <2>7. /\ "STRING" \in TokenTypes /\ Here + 1 \in Nat \ {0}
          /\ end \in 1..(L + 1) /\ next \in Nat
      BY <1>1, <2>1, <2>3, <2>5 DEF TokenTypes
    <2> HIDE DEF next, Effect
    <2>. QED BY <2>6, <2>7
  <1>4. ASSUME NEW C, NEW type \in TokenTypes \ {"STRING"}, Look(Here) \in C, Look(Here) # "NUL",
               Found(Token(type, Here, EndOf(C, Here)), EndOf(C, Here))
        PROVE  \E i \in Nat \ {0}, j \in 1..(L + 1), next \in Nat : Effect(type, i, j, next)
    <2> DEFINE end == EndOf(C, Here)
    <2>1. /\ end \in Here..(L + 1)
          /\ end = L + 1 \/ input[end] \notin C
      BY <1>1, EndOfRun
    <2>2. Here \in 1..L /\ input[Here] \in C
      BY <1>1, <1>4
    <2> HIDE DEF end
    <2>3. Here < end /\ end \in 1..(L + 1)
      BY <1>1, <2>1, <2>2
    <2>4. Effect(type, Here, end, end)
      BY <1>1, <1>4, <2>3 DEF end
    <2> HIDE DEF Effect
    <2>. QED BY <1>1, <2>2, <2>3, <2>4
  <1>5. CASE LexNumber
    <2>1. Look(Here) \in Digits /\ Found(Token("NUMBER", Here, EndOf(Digits, Here)), EndOf(Digits, Here))
      BY <1>5 DEF LexNumber
    <2>2. Look(Here) # "NUL" /\ "NUMBER" \in TokenTypes \ {"STRING"}
      BY <2>1, NulBeginsNothing DEF TokenTypes
    <2> HIDE DEF Effect
    <2>. QED BY <1>4, <2>1, <2>2
  <1>6. CASE LexWord
    <2> DEFINE type == LookupIdent(SubSeq(input, Here, EndOf(WordPart, Here) - 1))
    <2>1. /\ Look(Here) \in WordStart
          /\ Found(Token(type, Here, EndOf(WordPart, Here)), EndOf(WordPart, Here))
      BY <1>6 DEF LexWord
    <2>2. Look(Here) # "NUL" /\ Look(Here) \in WordPart
      BY <2>1, NulBeginsNothing DEF WordPart
    <2>3. type \in TokenTypes \ {"STRING"}
      BY DEF LookupIdent, TokenTypes, Keywords, Bare, Keyed
    <2> HIDE DEF Effect, type
    <2>. QED BY <1>4, <2>1, <2>2, <2>3
  <1>7. CASE LexIllegal
    <2>1. Look(Here) # "NUL" /\ Found(Token("ILLEGAL", Here, Here + 1), Here + 1)
      BY <1>7 DEF LexIllegal
    <2>2. Effect("ILLEGAL", Here, Here + 1, Here + 1)
      BY <1>1, <2>1
    <2>3. "ILLEGAL" \in TokenTypes
      BY DEF TokenTypes
    <2> HIDE DEF Effect
    <2>. QED BY <1>1, <2>1, <2>2, <2>3
  <1>. QED BY <1>3, <1>5, <1>6, <1>7 DEF LexToken

LEMMA LexEOFEffect ==
  ASSUME RQLTypeOK, LexEOF
  PROVE  /\ tokens' = Append(tokens, Token("EOF", Here, Here))
         /\ Token("EOF", Here, Here) \in TokenType
         /\ phase' = "parse" /\ UNCHANGED <<line, wanted, input, pos, result>>
  <1>1. Here \in Nat \ {0} /\ Here \in Here..(Len(input) + 1)
    BY HereType DEF RQLTypeOK
  <1>2. "EOF" \in TokenTypes
    BY DEF TokenTypes
  <1>. QED BY <1>1, <1>2, TokenTyped DEF LexEOF, RQLTypeOK

ParseStep == ParseShove \/ ParseKeyed \/ ParseBare \/ ParseError

LEMMA ParseEffect ==
  ASSUME ParseStep
  PROVE  phase' = "done" /\ UNCHANGED <<line, input, pos, tokens>>
  BY DEF ParseStep, ParseShove, ParseKeyed, ParseBare, ParseError, Parsed

LEMMA StepCases ==
  ASSUME RQLNext
  PROVE  Trim \/ LexEOF \/ LexToken \/ LexPanic \/ ParseStep
  BY DEF RQLNext, LexToken, ParseStep

LEMMA TypeStep ==
  ASSUME RQLTypeOK, [RQLNext]_rqlVars
  PROVE  RQLTypeOK'
  <1>1. Len(input) \in Nat /\ input \in Words /\ tokens \in Seq(TokenType) /\ pos \in 1..(Len(input) + 1)
    BY HereType DEF RQLTypeOK
  <1>2. CASE Trim
    <2>1. pos = 1 /\ input' \in Words /\ Len(input') \in Nat
      <3>1. Len(input) = 0
        BY <1>2, EmptySeq DEF Trim, RQLTypeOK
      <3>2. input' \in Words
        BY <1>2, TrimmedType DEF Trim, RQLTypeOK
      <3>. QED BY <1>1, <3>1, <3>2, LenProperties DEF Words
    <2>. QED BY <1>2, <2>1 DEF Trim, RQLTypeOK
  <1>3. CASE LexEOF
    <2>1. tokens' \in Seq(TokenType)
      BY <1>1, <1>3, LexEOFEffect, AppendProperties
    <2>. QED BY <1>3, <2>1, LexEOFEffect DEF RQLTypeOK
  <1>4. CASE LexToken
    <2>1. PICK type \in TokenTypes, i \in Nat \ {0}, j \in 1..(Len(input) + 1), next \in Nat :
            Found(Token(type, i, j), next) /\ i <= j /\ next \in 1..(Len(input) + 1)
      BY <1>4, LexTokenEffect
    <2>2. Token(type, i, j) \in TokenType
      BY <1>1, <2>1, TokenTyped
    <2>3. tokens' \in Seq(TokenType)
      BY <1>1, <2>1, <2>2, AppendProperties DEF Found
    <2>4. phase = "lex"
      BY <1>4 DEF LexToken, LexString, LexNumber, LexWord, LexIllegal
    <2>. QED BY <2>1, <2>3, <2>4 DEF RQLTypeOK, Found
  <1>5. CASE LexPanic
    BY <1>5 DEF LexPanic, RQLTypeOK
  <1>6. CASE ParseStep
    BY <1>6, ParseEffect DEF RQLTypeOK
  <1>7. CASE UNCHANGED rqlVars
    BY <1>7 DEF rqlVars, RQLTypeOK
  <1>. QED BY <1>2, <1>3, <1>4, <1>5, <1>6, <1>7, StepCases

(* The types hold in every reachable state: in particular the lexer never reads
   more than one place behind the input, and each token is a part of it.   *)
THEOREM RQLTypeCorrect == RQLSpec => []RQLTypeOK
  BY TypeInit, TypeStep, PTL DEF RQLSpec

-----------------------------------------------------------------------------
(* The one way out of the lexer.                                           *)

LEMMA PanicStep ==
  ASSUME RQLTypeOK, PanicsOnlyOnLastBackslash, [RQLNext]_rqlVars
  PROVE  PanicsOnlyOnLastBackslash'
  <1> USE DEF PanicsOnlyOnLastBackslash
  <1>1. CASE LexPanic
    <2> DEFINE q == Look(Here)
               end == StringEnd(q, Here + 1)
    <2>1. /\ Len(input) \in Nat /\ q \in Quotes /\ end > Len(input) + 1
          /\ input \in Words /\ UNCHANGED input
      BY <1>1, HereType DEF LexPanic, RQLTypeOK
    <2>2. Here + 1 \in 1..(Len(input) + 1)
      BY <2>1, HereType, NulBeginsNothing DEF RQLTypeOK
    <2>3. end \in (Here + 1)..(Len(input) + 2) /\ (end = Len(input) + 2 => input[Len(input)] = "\\")
      BY <2>1, <2>2, StringEndBounds
    <2> HIDE DEF end
    <2>4. end = Len(input) + 2
      BY <2>1, <2>2, <2>3
    <2>. QED BY <2>1, <2>3, <2>4 DEF Last
  <1>2. CASE Trim \/ LexEOF \/ ParseStep
    BY <1>2, ParseEffect DEF Trim, LexEOF
  <1>3. CASE LexToken
    BY <1>3 DEF LexToken, LexString, LexNumber, LexWord, LexIllegal, Found
  <1>4. CASE UNCHANGED rqlVars
    BY <1>4 DEF rqlVars
  <1>. QED BY <1>1, <1>2, <1>3, <1>4, StepCases

(* Execute can only unwind in the lexer (l.input[start:l.pos] out of range), and
   only for a line whose last byte, blanks apart, is a backslash.          *)
THEOREM PanicNeedsLastBackslash == RQLSpec => []PanicsOnlyOnLastBackslash
  <1>1. RQLInit => PanicsOnlyOnLastBackslash
    BY DEF RQLInit, PanicsOnlyOnLastBackslash
  <1>. QED BY <1>1, PanicStep, RQLTypeCorrect, PTL DEF RQLSpec

-----------------------------------------------------------------------------
(* What the tokens cover.                                                  *)
Quote(t) == IF t.type = "STRING" THEN 1 ELSE 0
First(t) == t.at - Quote(t)
After(t) == t.at + Len(t.literal) + Quote(t)

Ordered == \A n \in 2..Len(tokens) : After(tokens[n - 1]) <= First(tokens[n]) + 1

Covered == \A i \in 1..(pos - 1) :
             input[i] = Blank \/ \E t \in ToSet(tokens) : i \in First(t)..(After(t) - 1)

(* The closing quote of a string may be missing: then the place behind it lies
   one further than the lexer.                                             *)
Behind == phase = "lex" => \A n \in 1..Len(tokens) : After(tokens[n]) <= pos + 1

CoverInv == RQLTypeOK /\ Ordered /\ Covered /\ Behind

LEMMA TokenPlaces == \A t \in TokenType : First(t) \in Int /\ After(t) \in Int
  <1> SUFFICES ASSUME NEW t \in TokenType
               PROVE  First(t) \in Int /\ After(t) \in Int
    OBVIOUS
  <1>1. t.at \in Nat /\ Len(t.literal) \in Nat /\ Quote(t) \in Nat
    BY LenProperties DEF TokenType, Words, Quote
  <1>. QED BY <1>1 DEF First, After

(* A token is put behind the others.                                       *)
LEMMA AppendToken ==
  ASSUME CoverInv, phase = "lex", NEW token \in TokenType, tokens' = Append(tokens, token),
         UNCHANGED input, pos <= First(token)
  PROVE  /\ Ordered'
         /\ token \in ToSet(tokens') /\ ToSet(tokens) \subseteq ToSet(tokens')
         /\ Len(tokens') = Len(tokens) + 1
         /\ \A n \in 1..Len(tokens') : tokens'[n] = token \/ (n <= Len(tokens) /\ tokens'[n] = tokens[n])
  <1>1. tokens \in Seq(TokenType) /\ Len(tokens) \in Nat /\ pos \in Nat
    BY LenProperties, HereType DEF CoverInv, RQLTypeOK
  <1>2. /\ tokens' \in Seq(TokenType) /\ Len(tokens') = Len(tokens) + 1
        /\ \A n \in 1..Len(tokens) : tokens'[n] = tokens[n]
        /\ tokens'[Len(tokens) + 1] = token
    BY <1>1, AppendProperties
  <1>3. DOMAIN tokens = 1..Len(tokens) /\ DOMAIN tokens' = 1..(Len(tokens) + 1)
    BY <1>1, <1>2, LenProperties
  <1>4. token \in ToSet(tokens') /\ ToSet(tokens) \subseteq ToSet(tokens')
    BY <1>1, <1>2, <1>3 DEF ToSet
  <1>5. \A n \in 1..Len(tokens') : tokens'[n] = token \/ (n <= Len(tokens) /\ tokens'[n] = tokens[n])
    BY <1>1, <1>2
  <1>6. \A t \in TokenType : First(t) \in Int /\ After(t) \in Int
    BY TokenPlaces
  <1>7. Ordered'
    <2> SUFFICES ASSUME NEW n \in 2..Len(tokens')
                 PROVE  After(tokens'[n - 1]) <= First(tokens'[n]) + 1
      BY DEF Ordered, After, First, Quote
    <2>1. n - 1 \in 1..Len(tokens) /\ tokens'[n - 1] = tokens[n - 1] /\ tokens[n - 1] \in TokenType
      BY <1>1, <1>2, ElementOfSeq
    <2>2. CASE n <= Len(tokens)
      <3>1. n \in 2..Len(tokens) /\ tokens'[n] = tokens[n]
        BY <1>1, <1>2, <2>2
      <3>. QED BY <2>1, <3>1 DEF CoverInv, Ordered
    <2>3. CASE n = Len(tokens) + 1
      <3>1. tokens'[n] = token /\ After(tokens[n - 1]) <= pos + 1
        BY <1>2, <2>1, <2>3 DEF CoverInv, Behind
      <3>2. First(token) \in Int /\ After(tokens[n - 1]) \in Int
        BY <1>6, <2>1
      <3>3. After(tokens[n - 1]) <= First(token) + 1
        BY <1>1, <3>1, <3>2
      <3>. QED BY <2>1, <3>1, <3>3
    <2>. QED BY <1>1, <1>2, <2>2, <2>3
  <1>. QED BY <1>2, <1>4, <1>5, <1>7

LEMMA CoverStep ==
  ASSUME CoverInv, [RQLNext]_rqlVars
  PROVE  CoverInv'
  <1>1. /\ RQLTypeOK /\ RQLTypeOK' /\ pos \in Nat /\ Len(input) \in Nat /\ Here \in pos..(Len(input) + 1)
        /\ input \in Words
    BY TypeStep, HereType DEF CoverInv, RQLTypeOK
  <1>2. CASE Trim
    <2>1. tokens = <<>> /\ tokens' = tokens /\ Len(tokens') = 0 /\ pos' = pos /\ pos = 1
      <3>1. Len(input) = 0 /\ tokens = <<>> /\ Len(tokens) = 0
        BY <1>2, EmptySeq DEF Trim, CoverInv, RQLTypeOK
      <3>. QED BY <1>1, <1>2, <3>1 DEF Trim, RQLTypeOK
    <2>. QED BY <1>1, <2>1 DEF CoverInv, Ordered, Covered, Behind
  <1>3. CASE LexEOF
    <2> DEFINE token == Token("EOF", Here, Here)
    <2>1. /\ tokens' = Append(tokens, token) /\ token \in TokenType
          /\ phase = "lex" /\ phase' = "parse" /\ UNCHANGED <<input, pos>>
      BY <1>1, <1>3, LexEOFEffect DEF LexEOF
    <2>2. First(token) = Here /\ pos <= First(token)
      BY <1>1 DEF First, Quote, Token
    <2> HIDE DEF token
    <2>3. Ordered' /\ ToSet(tokens) \subseteq ToSet(tokens')
      BY <2>1, <2>2, AppendToken
    <2>4. Covered' /\ Behind'
      BY <2>1, <2>3 DEF CoverInv, Covered, Behind, First, After, Quote
    <2>. QED BY <1>1, <2>3, <2>4 DEF CoverInv
  <1>4. CASE LexToken
    <2>1. PICK type \in TokenTypes, i \in Nat \ {0}, j \in 1..(Len(input) + 1), next \in Nat :
            /\ Found(Token(type, i, j), next)
            /\ i <= j /\ next \in 1..(Len(input) + 1) /\ Here < next
            /\ type # "STRING" => i = Here /\ next = j
            /\ type = "STRING" => i = Here + 1 /\ j <= next /\ next <= j + 1
      BY <1>1, <1>4, LexTokenEffect
    <2> DEFINE token == Token(type, i, j)
    <2>2. /\ phase = "lex" /\ phase' = "lex" /\ UNCHANGED input
          /\ tokens' = Append(tokens, token) /\ pos' = next
      BY <1>4, <2>1 DEF LexToken, LexString, LexNumber, LexWord, LexIllegal, Found
    <2>3. /\ token \in TokenType /\ Len(token.literal) = j - i
          /\ token.type = type /\ token.at = i
      BY <1>1, <2>1, TokenTyped
    <2> HIDE DEF token
    <2>4. First(token) = Here
      BY <1>1, <2>1, <2>3 DEF First, Quote
    <2>5. next <= After(token) /\ After(token) <= next + 1 /\ After(token) \in Int
      BY <1>1, <2>1, <2>3 DEF After, Quote
    <2>6. /\ Ordered'
          /\ token \in ToSet(tokens') /\ ToSet(tokens) \subseteq ToSet(tokens')
          /\ Len(tokens') = Len(tokens) + 1
          /\ \A n \in 1..Len(tokens') : tokens'[n] = token \/ (n <= Len(tokens) /\ tokens'[n] = tokens[n])
      BY <1>1, <2>2, <2>3, <2>4, AppendToken
    <2>7. Covered'
      <3> SUFFICES ASSUME NEW m \in 1..(next - 1)
                   PROVE  input[m] = Blank \/ \E t \in ToSet(tokens') : m \in First(t)..(After(t) - 1)
        BY <2>2 DEF Covered, First, After, Quote
      <3>1. CASE m < pos
        BY <1>1, <2>6, <3>1 DEF CoverInv, Covered
      <3>2. CASE m >= pos /\ m < Here
        BY <1>1, <3>2, HereType
      <3>3. CASE m >= Here
        <4>1. m \in First(token)..(After(token) - 1)
          BY <1>1, <2>1, <2>4, <2>5, <3>3
        <4>. QED BY <2>6, <4>1
      <3>. QED BY <1>1, <3>1, <3>2, <3>3
    <2>8. Behind'
      <3> SUFFICES ASSUME NEW n \in 1..Len(tokens')
                   PROVE  After(tokens'[n]) <= next + 1
        BY <2>2 DEF Behind, After, Quote
      <3>1. CASE tokens'[n] = token
        BY <2>5, <3>1
      <3>2. CASE n <= Len(tokens) /\ tokens'[n] = tokens[n]
        <4>1. n \in 1..Len(tokens) /\ After(tokens[n]) <= pos + 1
          BY <2>2, <3>2 DEF CoverInv, Behind
        <4>2. tokens[n] \in TokenType
          BY <1>1, <4>1, ElementOfSeq DEF RQLTypeOK
        <4>3. After(tokens[n]) \in Int
          BY <4>2, TokenPlaces
        <4>4. After(tokens[n]) <= next + 1
          BY <1>1, <2>1, <4>1, <4>3
        <4>. QED BY <3>2, <4>4
      <3>. QED BY <2>6, <3>1, <3>2
    <2>. QED BY <1>1, <2>6, <2>7, <2>8 DEF CoverInv
  <1>5. CASE LexPanic \/ ParseStep \/ UNCHANGED rqlVars
    <2>1. UNCHANGED <<input, pos, tokens>> /\ (phase' = "lex" => phase = "lex")
      BY <1>5, ParseEffect DEF LexPanic, rqlVars
    <2>2. Ordered' /\ Covered' /\ Behind'
      BY <2>1 DEF CoverInv, Ordered, Covered, Behind, First, After, Quote
    <2>. QED BY <1>1, <2>2 DEF CoverInv
  <1>. QED BY <1>2, <1>3, <1>4, <1>5, StepCases

(* Tokenize passes over nothing but blanks and quotes: whatever the line, each
   atom before the position of the lexer is a blank or lies in a token, and the
   tokens lie one behind the other.                                        *)
THEOREM TokensCoverTheInput == RQLSpec => []TokensCoverInput
  <1>1. RQLInit => CoverInv
    <2> SUFFICES ASSUME RQLInit
                 PROVE  CoverInv
      OBVIOUS
    <2>1. RQLTypeOK /\ pos = 1 /\ Len(tokens) = 0
      BY TypeInit DEF RQLInit
    <2>. QED BY <2>1 DEF CoverInv, Ordered, Covered, Behind
  <1>2. CoverInv => TokensCoverInput
    BY DEF CoverInv, Ordered, Covered, TokensCoverInput, First, After, Quote
  <1>. QED BY <1>1, <1>2, CoverStep, PTL DEF RQLSpec

-----------------------------------------------------------------------------
(* A command reaches the engine as it was meant.                           *)

(* What is cut out of a text, if it stands there.                          *)
LEMMA Slice ==
  ASSUME NEW t \in Words, NEW s \in Words, NEW i \in Nat \ {0}, Stands(s, t, i)
  PROVE  SubSeq(t, i, i + Len(s) - 1) = s
  <1> DEFINE n == Len(s)
             cut == SubSeq(t, i, i + n - 1)
  <1>1. n \in Nat /\ Len(t) \in Nat /\ i + n <= Len(t) + 1 /\ \A m \in 1..n : t[i + m - 1] = s[m]
    BY LenProperties DEF Stands, Words
  <1> HIDE DEF n
  <1>2. \A m \in i..(i + n - 1) : t[m] \in Atoms
    BY <1>1, ElementOfSeq DEF Words
  <1>3. i \in Int /\ i + n - 1 \in Int
    BY <1>1
  <1>4. /\ cut \in Seq(Atoms)
        /\ Len(cut) = IF i <= i + n - 1 THEN (i + n - 1) - i + 1 ELSE 0
        /\ \A m \in 1..((i + n - 1) - i + 1) : cut[m] = t[i + m - 1]
    <2>1. \A m \in 1..((i + n - 1) - i + 1) : cut[m] = t[i + m - 1] /\ i + m - 1 = i - 1 + m
      BY <1>2, <1>3, SubSeqProperties
    <2>2. /\ cut \in Seq(Atoms)
          /\ Len(cut) = IF i <= i + n - 1 THEN (i + n - 1) - i + 1 ELSE 0
      BY <1>2, <1>3, SubSeqProperties
    <2>. QED BY <2>1, <2>2
  <1> HIDE DEF cut
  <1>5. Len(cut) = n /\ \A m \in 1..n : cut[m] = s[m]
    BY <1>1, <1>4
  <1>6. cut \in Seq(Atoms) /\ s \in Seq(Atoms) /\ Len(cut) = Len(s) /\ \A m \in 1..Len(cut) : cut[m] = s[m]
    BY <1>4, <1>5 DEF n, Words
  <1>7. cut = s
    BY <1>6, SeqEqual
  <1>. QED BY <1>7 DEF cut, n

(* strings.TrimSpace takes the blanks in front and behind, and nothing else. *)
LEMMA TrimPadded ==
  ASSUME NEW t \in Words, NEW g \in Gaps, t # <<>>, t[1] # Blank, t[Len(t)] # Blank
  PROVE  TrimSpace(g \o t \o g) = t
  <1> DEFINE s == g \o t \o g
             G == Len(g)
             T == Len(t)
             ink == {i \in DOMAIN s : s[i] # Blank}
  <1>1. /\ s \in Words /\ Len(s) = G + T + G /\ G \in Nat
        /\ \A m \in 1..G : s[m] = Blank
        /\ \A m \in 1..T : s[G + m] = t[m]
        /\ \A m \in (G + T + 1)..Len(s) : s[m] = Blank
    BY Padded
  <1>2. T \in Nat \ {0}
    BY LenProperties, EmptySeq DEF Words
  <1>3. DOMAIN s = 1..Len(s)
    BY <1>1, LenProperties DEF Words
  <1>4. Stands(t, s, G + 1)
    <2>1. \A m \in 1..T : (G + 1) + m - 1 = G + m
      BY <1>1, <1>2
    <2> HIDE DEF s
    <2>. QED BY <1>1, <1>2, <2>1 DEF Stands
  <1> HIDE DEF s
  <1>5. G + 1 \in ink /\ G + T \in ink
    BY <1>1, <1>2, <1>3
  <1>6. ASSUME NEW i \in ink
        PROVE  G + 1 <= i /\ i <= G + T /\ i \in Nat
    <2>1. i \in 1..Len(s) /\ s[i] # Blank
      BY <1>3
    <2>. QED BY <1>1, <1>2, <2>1
  <1> HIDE DEF ink, G, T
  <1>7. Min(ink) = G + 1 /\ Max(ink) = G + T
    <2>1. G + 1 \in Nat /\ G + T \in Nat
      BY <1>1, <1>2
    <2>2. Min(ink) \in ink /\ \A y \in ink : Min(ink) <= y
      BY <1>5, <1>6 DEF Min
    <2>3. Max(ink) \in ink /\ \A y \in ink : Max(ink) >= y
      BY <1>5, <1>6 DEF Max
    <2>. QED BY <1>5, <1>6, <2>1, <2>2, <2>3
  <1>8. SubSeq(s, G + 1, G + T) = t
    <2>1. SubSeq(s, G + 1, (G + 1) + Len(t) - 1) = t
      BY <1>1, <1>4, Slice
    <2>2. (G + 1) + Len(t) - 1 = G + T
      BY <1>1, <1>2 DEF T
    <2>. QED BY <2>1, <2>2
  <1>9. TrimSpace(s) = SubSeq(s, Min(ink), Max(ink))
    BY <1>5 DEF TrimSpace, ink
  <1>. QED BY <1>7, <1>8, <1>9 DEF s

(* Where a run ends, if it is known to end there.                          *)
LEMMA RunEnds ==
  ASSUME input \in Words, NEW C, NEW i \in 1..(Len(input) + 1), NEW k \in i..(Len(input) + 1),
         \A m \in i..(k - 1) : input[m] \in C, k = Len(input) + 1 \/ input[k] \notin C
  PROVE  EndOf(C, i) = k
  <1>1. Len(input) \in Nat
    BY LenProperties DEF Words
  <1> DEFINE e == EndOf(C, i)
  <1>2. /\ e \in i..(Len(input) + 1)
        /\ \A m \in i..(e - 1) : input[m] \in C
        /\ e = Len(input) + 1 \/ input[e] \notin C
    BY EndOfRun
  <1> HIDE DEF e
  <1>3. ~(e < k) /\ ~(k < e)
    BY <1>1, <1>2
  <1>4. e = k
    BY <1>1, <1>2, <1>3
  <1>. QED BY <1>4 DEF e

(* The token the lexer is to make of a piece at a place.                   *)
TokenOf(p, i) == [type |-> p.type, literal |-> p.literal, at |-> i]

(* If the lexer is at a piece with a blank or the end behind it, the only step
   it can take is to make the piece a token.                               *)
LEMMA LexPiece ==
  ASSUME RQLTypeOK, phase = "lex", NEW p \in Pieces, Here \in 1..Len(input),
         Stands(p.text, input, Here),
         Here + Len(p.text) = Len(input) + 1 \/ input[Here + Len(p.text)] = Blank,
         RQLNext
  PROVE  \E i : Found(TokenOf(p, i), Here + Len(p.text))
  <1> DEFINE L == Len(input)
             H == Here
             n == Len(p.text)
             end == H + n
  <1>1. L \in Nat /\ L = Len(input) /\ input \in Words
    BY HereType DEF RQLTypeOK
  <1>2. p.text \in Words /\ p.literal \in Words /\ n \in Nat \ {0} /\ Len(p.literal) \in Nat
    BY PieceEnds, LenProperties DEF Words
  <1>3. H \in 1..L /\ H + n <= L + 1 /\ \A m \in 1..n : input[H + m - 1] = p.text[m]
    BY <1>1 DEF Stands
  <1>4. Look(H) = p.text[1]
    <2>1. input[H + 1 - 1] = p.text[1] /\ H + 1 - 1 = H
      BY <1>2, <1>3
    <2>. QED BY <1>1, <1>3, <2>1 DEF Look
  <1>5. end = L + 1 \/ input[end] = Blank
    OBVIOUS
  <1>6. SubSeq(input, H, end - 1) = p.text
    <2>1. SubSeq(input, H, H + Len(p.text) - 1) = p.text
      BY <1>1, <1>2, <1>3, Slice
    <2>. QED BY <2>1
  <1>7. ASSUME NEW C, Blank \notin C, \A m \in 1..n : p.text[m] \in C
        PROVE  EndOf(C, H) = end
    <2> HIDE DEF L, H, n
    <2>1. ASSUME NEW m \in H..(end - 1)
          PROVE  input[m] \in C
      <3>1. m - H + 1 \in 1..n /\ H + (m - H + 1) - 1 = m
        BY <1>2, <1>3
      <3>2. input[H + (m - H + 1) - 1] = p.text[m - H + 1]
        BY <1>3, <3>1
      <3>. QED BY <1>7, <3>1, <3>2
    <2>2. H \in 1..(L + 1) /\ end \in H..(L + 1)
      BY <1>1, <1>2, <1>3
    <2>3. end = L + 1 \/ input[end] \notin C
      BY <1>5, <1>7
    <2> HIDE DEF end
    <2>. QED BY <1>1, <2>1, <2>2, <2>3, RunEnds
  <1>8. DOMAIN p.text = 1..n
    BY <1>2, LenProperties DEF Words
  <1>9. LexString \/ LexPanic \/ LexNumber \/ LexWord \/ LexIllegal \/ LexEOF
    BY DEF RQLNext, Trim, ParseShove, ParseKeyed, ParseBare, ParseError
  <1>10. CASE p.text[1] \in WordStart /\ (\A m \in 1..n : p.text[m] \in WordPart)
              /\ LookupIdent(p.text) = p.type /\ p.literal = p.text
    <2>1. Look(H) \in WordStart /\ Look(H) \notin Digits \cup Quotes \cup {"NUL"}
      BY <1>4, <1>10, AtomsDistinct
    <2>2. LexWord
      BY <1>9, <2>1 DEF LexString, LexPanic, LexNumber, LexIllegal, LexEOF
    <2>3. EndOf(WordPart, H) = end
      BY <1>7, <1>10, AtomsDistinct
    <2>4. Found(Token(LookupIdent(SubSeq(input, H, end - 1)), H, end), end)
      BY <2>2, <2>3 DEF LexWord
    <2>5. Token(LookupIdent(SubSeq(input, H, end - 1)), H, end) = TokenOf(p, H)
      BY <1>6, <1>10 DEF Token, TokenOf
    <2>. QED BY <2>4, <2>5
  <1>11. CASE p.type \in Keywords /\ p.text = <<p.type>> /\ p.literal = p.text
    <2>1. n = 1 /\ p.text[1] = p.type
      BY <1>11
    <2>2. LookupIdent(p.text) = p.type
      BY <1>11, <2>1 DEF LookupIdent
    <2>3. p.text[1] \in WordStart /\ p.text[1] \in WordPart
      BY <1>11, <2>1 DEF WordStart, WordPart
    <2>. QED BY <1>10, <1>11, <2>1, <2>2, <2>3
  <1>12. CASE p.type = "IDENT" /\ IsWord(p.text) /\ p.literal = p.text
    <2>1. LookupIdent(p.text) = p.type
      BY <1>12 DEF LookupIdent, IsWord
    <2>2. p.text[1] \in WordStart
      BY <1>12 DEF IsWord
    <2>3. \A m \in 1..n : p.text[m] \in WordPart
      BY <1>8, <1>12 DEF IsWord, ToSet
    <2>. QED BY <1>10, <1>12, <2>1, <2>2, <2>3
  <1>13. CASE p.type = "NUMBER" /\ IsNumber(p.text) /\ p.literal = p.text
    <2>1. \A m \in 1..n : p.text[m] \in Digits
      BY <1>8, <1>13 DEF IsNumber, ToSet
    <2>2. Look(H) \in Digits
      BY <1>2, <1>4, <2>1
    <2>3. Look(H) \notin WordStart \cup Quotes \cup {"NUL"}
      BY <2>2, AtomsDistinct
    <2>4. LexNumber
      BY <1>9, <2>2, <2>3 DEF LexString, LexPanic, LexWord, LexIllegal, LexEOF
    <2>5. EndOf(Digits, H) = end
      BY <1>7, <2>1, AtomsDistinct
    <2>6. Found(Token("NUMBER", H, end), end)
      BY <2>4, <2>5 DEF LexNumber
    <2>7. Token("NUMBER", H, end) = TokenOf(p, H)
      BY <1>6, <1>13 DEF Token, TokenOf
    <2>. QED BY <2>6, <2>7
  <1>14. ASSUME p.type = "STRING", NEW q \in Quotes, Quotable(p.literal, q),
                p.text = <<q>> \o p.literal \o <<q>>
         PROVE  \E i : Found(TokenOf(p, i), end)
    <2> DEFINE w == p.literal
               W == Len(w)
               close == H + W + 1
    <2>1. /\ n = W + 2 /\ p.text[1] = q /\ p.text[W + 2] = q
          /\ \A m \in 1..W : p.text[m + 1] = w[m]
      <3> DEFINE s == <<q>> \o w \o <<q>>
      <3>1. /\ Len(s) = W + 2 /\ s[1] = q /\ s[W + 2] = q
            /\ \A m \in 1..W : s[m + 1] = w[m]
        <4>1. w \in Words
          BY <1>2
        <4> HIDE DEF w
        <4>. QED BY <4>1, Quoted
      <3>2. p.text = s
        BY <1>14
      <3> HIDE DEF s, w, W
      <3>. QED BY <3>1, <3>2
    <2>2. Look(H) = q /\ q \notin Digits \cup WordStart \cup {"NUL"} /\ q \in Quotes
      BY <1>4, <2>1, AtomsDistinct
    <2> HIDE DEF L, H, n, w, W
    <2>3. W \in Nat /\ W = Len(w) /\ w \in Words /\ Quotable(w, q)
      BY <1>2, <1>14 DEF W, w
    <2>4. input[close] = q
      <3>1. input[H + (W + 2) - 1] = p.text[W + 2] /\ H + (W + 2) - 1 = close
        BY <1>3, <2>1, <2>3
      <3>. QED BY <2>1, <3>1
    <2>5. ASSUME NEW m \in 1..W
          PROVE  input[H + m] = w[m]
      <3>1. m + 1 \in 1..n /\ H + (m + 1) - 1 = H + m
        BY <1>3, <2>1, <2>3
      <3>2. input[H + (m + 1) - 1] = p.text[m + 1]
        BY <1>3, <3>1
      <3>. QED BY <2>1, <3>1, <3>2
    <2>6. close <= L /\ end = close + 1 /\ close = H + 1 + W /\ H \in Nat \ {0}
      BY <1>1, <1>3, <2>1, <2>3
    <2>7. StringEnd(q, H + 1) = close
      <3>1. H + Len(w) + 1 <= Len(input) /\ input[H + Len(w) + 1] = q /\ \A m \in 1..Len(w) : input[H + m] = w[m]
        BY <1>1, <2>3, <2>4, <2>5, <2>6
      <3>2. StringEnd(q, H + 1) = H + Len(w) + 1
        BY <1>1, <2>3, <2>6, <3>1, QuotedEnd
      <3>. QED BY <2>3, <3>2
    <2> HIDE DEF close, end
    <2>8. close <= L + 1 /\ ~(close > L + 1) /\ Look(close) = q
      BY <1>1, <2>3, <2>4, <2>6 DEF Look, close
    <2>9. LexString
      <3>1. ~LexPanic
        BY <1>1, <2>2, <2>7, <2>8 DEF LexPanic, H
      <3>2. ~(LexNumber \/ LexWord \/ LexIllegal \/ LexEOF)
        BY <2>2 DEF LexNumber, LexWord, LexIllegal, LexEOF, H
      <3>. QED BY <1>9, <3>1, <3>2
    <2>10. Found(Token("STRING", H + 1, close), end)
      BY <2>2, <2>6, <2>7, <2>8, <2>9 DEF LexString, H
    <2>11. SubSeq(input, H + 1, close - 1) = w
      <3>1. Stands(w, input, H + 1)
        <4>1. (H + 1) + W <= L + 1
          BY <1>1, <2>3, <2>6
        <4>2. \A m \in 1..W : (H + 1) + m - 1 = H + m
          BY <2>3, <2>6
        <4>. QED BY <1>1, <2>3, <2>5, <4>1, <4>2 DEF Stands
      <3>2. SubSeq(input, H + 1, (H + 1) + Len(w) - 1) = w
        <4>1. H + 1 \in Nat \ {0}
          BY <2>6
        <4>. QED BY <1>1, <2>3, <3>1, <4>1, Slice
      <3>3. (H + 1) + Len(w) - 1 = close - 1
        BY <2>3, <2>6
      <3>. QED BY <3>2, <3>3
    <2>12. Token("STRING", H + 1, close) = TokenOf(p, H + 1)
      BY <1>14, <2>11 DEF Token, TokenOf, w
    <2>. QED BY <2>10, <2>12
  <1>15. Spells(p.text, p.type, p.literal)
    BY DEF Pieces
  <1>. QED BY <1>11, <1>12, <1>13, <1>14, <1>15 DEF Spells

(* The first and the last atom of a text of words are not blanks.          *)
LEMMA LayoutEnds ==
  ASSUME NEW t, NEW ps, NEW at, Layout(t, ps, at)
  PROVE  t \in Words /\ t # <<>> /\ t[1] # Blank /\ t[Len(t)] # Blank
  <1> DEFINE n == Len(ps)
             a == at[n]
             w == ps[n].text
             l == Len(w)
             first == ps[1].text
  <1>1. /\ t \in Words /\ ps \in Seq(Pieces) /\ n \in Nat \ {0} /\ Len(t) \in Nat /\ at[1] = 1
        /\ at \in Seq(Nat \ {0}) /\ Len(at) = n
    BY LenProperties DEF Layout, Words
  <1>2. a \in Nat \ {0}
    BY <1>1, ElementOfSeq
  <1>3. ps[1] \in Pieces /\ ps[n] \in Pieces
    BY <1>1, ElementOfSeq
  <1>4. first[1] # Blank /\ Len(first) \in Nat \ {0}
    BY <1>3, PieceEnds
  <1>5. w[l] # Blank /\ l \in Nat \ {0}
    BY <1>3, PieceEnds
  <1>6. Stands(first, t, 1) /\ Stands(w, t, a) /\ a + l = Len(t) + 1
    BY <1>1 DEF Layout
  <1> HIDE DEF n, a, w, l, first
  <1>7. t[1] = first[1] /\ Len(t) # 0
    <2>1. t[1 + 1 - 1] = first[1] /\ 1 + 1 - 1 = 1 /\ 1 + Len(first) <= Len(t) + 1
      BY <1>4, <1>6 DEF Stands
    <2>. QED BY <1>1, <1>4, <2>1
  <1>8. t[Len(t)] = w[l]
    <2>1. t[a + l - 1] = w[l]
      BY <1>5, <1>6 DEF Stands, l
    <2>2. a + l - 1 = Len(t)
      BY <1>1, <1>2, <1>5, <1>6
    <2>. QED BY <2>1, <2>2
  <1>. QED BY <1>1, <1>4, <1>5, <1>7, <1>8, EmptySeq

(* The tokens are those of the words, as far as the lexer has come.        *)
Agree(ps) ==
  \A i \in 1..Len(tokens) : i <= Len(ps) =>
    tokens[i].type = ps[i].type /\ tokens[i].literal = ps[i].literal

Lexed(ps, at) ==
  /\ Layout(input, ps, at) /\ Means(ps, wanted)
  /\ Len(tokens) <= Len(ps) /\ Agree(ps)
  /\ pos = IF Len(tokens) = 0 THEN 1 ELSE at[Len(tokens)] + Len(ps[Len(tokens)].text)

AllLexed(ps) ==
  /\ Means(ps, wanted)
  /\ Len(tokens) = Len(ps) + 1 /\ tokens[Len(ps) + 1].type = "EOF" /\ Agree(ps)

PaddedCommand == \E t \in Words, g \in Gaps : line = g \o t \o g /\ SpellsCommand(t, wanted)

IntactInv ==
  /\ RQLTypeOK
  /\ wanted # Unknown =>
       /\ phase # "panic"
       /\ phase = "start" => PaddedCommand
       /\ phase = "lex" => \E ps, at : Lexed(ps, at)
       /\ phase = "parse" => \E ps : AllLexed(ps)
       /\ phase = "done" => result = wanted

(* Where the blanks behind the last token end.                             *)
LEMMA NextPlace ==
  ASSUME RQLTypeOK, NEW ps, NEW at, Lexed(ps, at)
  PROVE  LET m == Len(tokens) IN
         /\ m \in Nat /\ m <= Len(ps) /\ Len(ps) \in Nat /\ ps \in Seq(Pieces)
         /\ m = Len(ps) => Here = Len(input) + 1
         /\ m < Len(ps) =>
              /\ Here = at[m + 1] /\ Here \in 1..Len(input)
              /\ ps[m + 1] \in Pieces /\ Stands(ps[m + 1].text, input, Here)
              /\ \/ Here + Len(ps[m + 1].text) = Len(input) + 1
                 \/ input[Here + Len(ps[m + 1].text)] = Blank
  <1> DEFINE m == Len(tokens)
             n == Len(ps)
             L == Len(input)
             A(i) == at[i]
             B(i) == at[i] + Len(ps[i].text)
  <1>1. /\ L \in Nat /\ L = Len(input) /\ input \in Words /\ pos \in 1..(L + 1)
        /\ m \in Nat /\ m <= n /\ n \in Nat \ {0}
        /\ ps \in Seq(Pieces) /\ at \in Seq(Nat \ {0}) /\ Len(at) = n
    BY HereType, LenProperties DEF RQLTypeOK, Lexed, Layout
  <1>2. \A i \in 1..n : A(i) \in Nat \ {0} /\ ps[i] \in Pieces /\ Len(ps[i].text) \in Nat \ {0}
    BY <1>1, ElementOfSeq, PieceEnds
  <1>3. \A i \in 1..n : A(i) \in Nat /\ B(i) \in Nat /\ A(i) < B(i)
    BY <1>2
  <1>4. /\ \A i \in 1..n : Stands(ps[i].text, input, A(i)) /\ B(i) <= L + 1
        /\ \A i \in 2..n : B(i - 1) < A(i) /\ \A k \in B(i - 1)..(A(i) - 1) : input[k] = Blank
        /\ B(n) = L + 1 /\ A(1) = 1
    BY DEF Lexed, Layout, Stands
  <1>5. pos = IF m = 0 THEN 1 ELSE B(m)
    BY DEF Lexed
  <1>6. CASE m = n
    <2>1. pos = L + 1
      BY <1>1, <1>4, <1>5, <1>6
    <2>2. Here = L + 1
      BY <1>1, <2>1, HereType
    <2>3. ~(m < n) /\ n \in Nat
      BY <1>1, <1>6
    <2> HIDE DEF m, n, L
    <2>. QED BY <1>1, <2>2, <2>3 DEF m, n, L
  <1>7. CASE m < n
    <2> DEFINE p == ps[m + 1]
               a == A(m + 1)
               b == B(m + 1)
    <2>1. m + 1 \in 1..n
      BY <1>1, <1>7
    <2>2. /\ p \in Pieces /\ a \in Nat \ {0} /\ a < b /\ b <= L + 1 /\ b \in Nat
          /\ b = a + Len(p.text) /\ Stands(p.text, input, a) /\ Len(p.text) \in Nat \ {0}
      BY <1>2, <1>3, <1>4, <2>1
    <2>3. input[a] # Blank
      <3>1. input[a + 1 - 1] = p.text[1] /\ a + 1 - 1 = a
        BY <2>2 DEF Stands
      <3>. QED BY <2>2, <3>1, PieceEnds
    <2>4. pos <= a /\ \A k \in pos..(a - 1) : input[k] = Blank
      <3>1. CASE m = 0
        BY <1>1, <1>4, <1>5, <3>1
      <3>2. CASE m # 0
        <4>1. m + 1 \in 2..n /\ (m + 1) - 1 = m /\ pos = B(m)
          BY <1>1, <1>5, <1>7, <3>2
        <4> HIDE DEF A, B, m, n
        <4>2. /\ B((m + 1) - 1) < A(m + 1)
              /\ \A k \in B((m + 1) - 1)..(A(m + 1) - 1) : input[k] = Blank
          BY <1>4, <4>1
        <4>3. B(m) < A(m + 1) /\ \A k \in B(m)..(A(m + 1) - 1) : input[k] = Blank
          BY <4>1, <4>2
        <4>4. B(m) \in Nat /\ a \in Nat /\ a = A(m + 1)
          BY <1>1, <2>2, <4>1
        <4>. QED BY <4>1, <4>3, <4>4
      <3>. QED BY <3>1, <3>2
    <2>5. b = L + 1 \/ input[b] = Blank
      <3>1. CASE m + 1 = n
        BY <1>4, <3>1
      <3>2. CASE m + 1 # n
        <4>1. m + 2 \in 2..n /\ (m + 2) - 1 = m + 1 /\ m + 2 \in 1..n
          BY <1>1, <1>7, <3>2
        <4> HIDE DEF A, B, m, n
        <4>2. /\ B((m + 2) - 1) < A(m + 2)
              /\ \A k \in B((m + 2) - 1)..(A(m + 2) - 1) : input[k] = Blank
          BY <1>4, <4>1
        <4>3. b < A(m + 2) /\ \A k \in b..(A(m + 2) - 1) : input[k] = Blank
          BY <4>1, <4>2
        <4>4. A(m + 2) \in Nat
          BY <1>3, <4>1
        <4>5. b \in b..(A(m + 2) - 1)
          BY <2>2, <4>3, <4>4
        <4>. QED BY <4>3, <4>5
      <3>. QED BY <3>1, <3>2
    <2> HIDE DEF a, b, p, A, B, m, n, L
    <2>6. Here = a /\ a \in 1..L
      <3>1. pos \in 1..(Len(input) + 1) /\ a \in pos..(Len(input) + 1) /\ a \in 1..L
        BY <1>1, <2>2, <2>4
      <3>2. (\A k \in pos..(a - 1) : input[k] \in {Blank}) /\ input[a] \notin {Blank}
        BY <2>3, <2>4
      <3>3. EndOf({Blank}, pos) = a
        BY <1>1, <3>1, <3>2, RunEnds
      <3>. QED BY <3>1, <3>3 DEF Here
    <2>. QED BY <1>1, <1>7, <2>2, <2>5, <2>6 DEF a, b, p, A, B, m, n, L
  <1>. QED BY <1>1, <1>6, <1>7

(* Each turn of the loop makes the next word the next token.               *)
LEMMA LexKeepsWords ==
  ASSUME IntactInv, wanted # Unknown, phase = "lex", RQLNext
  PROVE  /\ UNCHANGED wanted
         /\ \/ phase' = "lex" /\ \E ps, at : Lexed(ps, at)'
            \/ phase' = "parse" /\ \E ps : AllLexed(ps)'
  <1>1. RQLTypeOK /\ tokens \in Seq(TokenType) /\ input \in Words
    BY DEF IntactInv, RQLTypeOK
  <1>2. PICK ps, at : Lexed(ps, at)
    BY DEF IntactInv
  <1> DEFINE m == Len(tokens)
  <1>3. /\ m \in Nat /\ m <= Len(ps) /\ Len(ps) \in Nat /\ ps \in Seq(Pieces)
        /\ m = Len(ps) => Here = Len(input) + 1
        /\ m < Len(ps) =>
             /\ Here = at[m + 1] /\ Here \in 1..Len(input)
             /\ ps[m + 1] \in Pieces /\ Stands(ps[m + 1].text, input, Here)
             /\ \/ Here + Len(ps[m + 1].text) = Len(input) + 1
                \/ input[Here + Len(ps[m + 1].text)] = Blank
    BY <1>1, <1>2, NextPlace
  <1>4. CASE m = Len(ps)
    <2> DEFINE token == Token("EOF", Here, Here)
    <2>1. Look(Here) = "NUL"
      <3>1. Len(input) \in Nat
        BY <1>1, HereType
      <3>. QED BY <1>3, <1>4, <3>1 DEF Look
    <2>2. LexEOF
      BY <2>1, NulBeginsNothing DEF RQLNext, LexString, LexPanic, LexNumber, LexWord, LexIllegal,
        Trim, ParseShove, ParseKeyed, ParseBare, ParseError
    <2>3. /\ tokens' = Append(tokens, token) /\ phase' = "parse" /\ UNCHANGED wanted
          /\ token.type = "EOF" /\ token \in TokenType
      BY <1>1, <2>2, LexEOFEffect DEF LexEOF, Token
    <2> HIDE DEF token
    <2>4. /\ Len(tokens') = m + 1 /\ tokens'[m + 1] = token
          /\ \A i \in 1..m : tokens'[i] = tokens[i]
      BY <1>1, <2>3, AppendProperties
    <2>5. AllLexed(ps)'
      <3>1. Means(ps, wanted') /\ Len(tokens') = Len(ps) + 1 /\ tokens'[Len(ps) + 1].type = "EOF"
        BY <1>2, <1>3, <1>4, <2>3, <2>4 DEF Lexed
      <3>2. ASSUME NEW i \in 1..Len(tokens'), i <= Len(ps)
            PROVE  tokens'[i].type = ps[i].type /\ tokens'[i].literal = ps[i].literal
        <4>1. i \in 1..m
          BY <1>3, <1>4, <3>2
        <4>. QED BY <1>2, <2>4, <3>2, <4>1 DEF Lexed, Agree
      <3>. QED BY <3>1, <3>2 DEF AllLexed, Agree
    <2>. QED BY <2>3, <2>5
  <1>5. CASE m < Len(ps)
    <2> DEFINE p == ps[m + 1]
    <2>1. /\ Here = at[m + 1] /\ Here \in 1..Len(input)
          /\ p \in Pieces /\ Stands(p.text, input, Here)
          /\ \/ Here + Len(p.text) = Len(input) + 1
             \/ input[Here + Len(p.text)] = Blank
      BY <1>3, <1>5
    <2>2. PICK j : Found(TokenOf(p, j), Here + Len(p.text))
      <3> HIDE DEF p
      <3>. QED BY <1>1, <2>1, LexPiece
    <2> DEFINE token == TokenOf(p, j)
    <2>3. /\ tokens' = Append(tokens, token) /\ pos' = at[m + 1] + Len(p.text)
          /\ UNCHANGED <<input, wanted, phase>>
          /\ token.type = p.type /\ token.literal = p.literal
      BY <2>1, <2>2 DEF Found, TokenOf
    <2> HIDE DEF token
    <2>4. /\ Len(tokens') = m + 1 /\ tokens'[m + 1] = token
          /\ \A i \in 1..m : tokens'[i] = tokens[i]
      <3>1. tokens \in Seq(TokenType \cup {token}) /\ token \in TokenType \cup {token}
        BY <1>1, SeqMonotonic
      <3>. QED BY <2>3, <3>1, AppendProperties
    <2>5. ASSUME NEW i \in 1..Len(tokens'), i <= Len(ps)
          PROVE  tokens'[i].type = ps[i].type /\ tokens'[i].literal = ps[i].literal
      <3>1. CASE i = m + 1
        BY <2>3, <2>4, <3>1
      <3>2. CASE i # m + 1
        <4>1. i \in 1..m
          BY <1>3, <2>4, <3>2
        <4>. QED BY <1>2, <2>4, <2>5, <4>1 DEF Lexed, Agree
      <3>. QED BY <3>1, <3>2
    <2>6. /\ Layout(input', ps, at) /\ Means(ps, wanted')
          /\ Len(tokens') <= Len(ps) /\ Len(tokens') # 0
          /\ pos' = at[Len(tokens')] + Len(ps[Len(tokens')].text)
      BY <1>2, <1>3, <1>5, <2>3, <2>4 DEF Lexed
    <2>7. Lexed(ps, at)'
      BY <2>5, <2>6 DEF Lexed, Agree
    <2>. QED BY <2>3, <2>7
  <1>. QED BY <1>3, <1>4, <1>5

(* The parser makes the command of the words that mean it.                 *)
LEMMA ParseKeepsMeaning ==
  ASSUME IntactInv, wanted # Unknown, phase = "parse", RQLNext
  PROVE  phase' = "done" /\ result' = wanted /\ UNCHANGED wanted
  <1>1. PICK ps : AllLexed(ps)
    BY DEF IntactInv
  <1> DEFINE n == Len(ps)
  <1>2. Len(tokens) = n + 1 /\ tokens[n + 1].type = "EOF" /\ Means(ps, wanted)
    BY <1>1 DEF AllLexed
  <1>3. \A i \in 1..Len(tokens) : i <= n =>
          tokens[i].type = ps[i].type /\ tokens[i].literal = ps[i].literal
    BY <1>1 DEF AllLexed, Agree
  <1>4. ParseStep
    BY DEF RQLNext, ParseStep, Trim, LexEOF, LexString, LexPanic, LexNumber, LexWord, LexIllegal
  <1>5. phase' = "done" /\ UNCHANGED wanted
    BY <1>4 DEF ParseStep, ParseShove, ParseKeyed, ParseBare, ParseError, Parsed
  <1>6. /\ Bare \cap Keyed = {} /\ "SHOVE" \notin Bare \cup Keyed
    BY DEF Bare, Keyed
  <1>7. CASE MeansBare(ps, wanted)
    <2>1. TypeAt(1) = ps[1].type /\ TypeAt(1) \in Bare
      BY <1>2, <1>3, <1>7 DEF MeansBare, TypeAt
    <2>2. ParseBare
      BY <1>4, <1>6, <2>1 DEF ParseStep, ParseShove, ParseKeyed, ParseError
    <2>. QED BY <1>5, <1>7, <2>1, <2>2 DEF ParseBare, Parsed, MeansBare
  <1>8. CASE MeansKeyed(ps, wanted)
    <2>1. /\ TypeAt(1) = ps[1].type /\ TypeAt(1) \in Keyed /\ TypeAt(2) \in KeyTypes
          /\ tokens[2].literal = ps[2].literal
      BY <1>2, <1>3, <1>8 DEF MeansKeyed, TypeAt
    <2>2. ParseKeyed
      BY <1>4, <1>6, <2>1 DEF ParseStep, ParseShove, ParseBare, ParseError, HasKeyToken, KeyTypes
    <2>. QED BY <1>5, <1>8, <2>1, <2>2 DEF ParseKeyed, Parsed, MeansKeyed
  <1>9. CASE MeansShove(ps, wanted)
    <2>1. /\ TypeAt(1) = "SHOVE" /\ HasKeyToken /\ HasValueToken /\ ~HasTTL
          /\ tokens[2].literal = ps[2].literal /\ tokens[3].literal = ps[3].literal
      BY <1>2, <1>3, <1>9 DEF MeansShove, TypeAt, HasKeyToken, HasValueToken, HasTTL, KeyTypes, ValueTypes
    <2>2. ParseShove
      BY <1>4, <1>6, <2>1 DEF ParseStep, ParseKeyed, ParseBare, ParseError
    <2>. QED BY <1>5, <1>9, <2>1, <2>2 DEF ParseShove, Parsed, MeansShove
  <1>10. CASE MeansTTL(ps, wanted)
    <2>1. /\ TypeAt(1) = "SHOVE" /\ HasKeyToken /\ HasValueToken /\ HasTTL /\ TypeAt(5) = "NUMBER"
          /\ tokens[2].literal = ps[2].literal /\ tokens[3].literal = ps[3].literal
          /\ tokens[5].literal = ps[5].literal
      BY <1>2, <1>3, <1>10 DEF MeansTTL, TypeAt, HasKeyToken, HasValueToken, HasTTL, KeyTypes, ValueTypes
    <2>2. ParsedTTL = Amount(ps[5].literal)
      BY <2>1 DEF ParsedTTL
    <2>3. wanted = Timed(ps[2].literal, ps[3].literal, ps[5].literal)
      BY <1>10 DEF MeansTTL
    <2>4. CASE ParsedTTL <= MaxInt
      <3>1. ParseShove
        BY <1>4, <1>6, <2>1, <2>4 DEF ParseStep, ParseKeyed, ParseBare, ParseError, ValidTTL
      <3>2. wanted = Command("SHOVE", ps[2].literal, ps[3].literal, ParsedTTL)
        BY <2>2, <2>3, <2>4 DEF Timed
      <3>. QED BY <1>5, <2>1, <3>1, <3>2 DEF ParseShove, Parsed
    <2>5. CASE ~(ParsedTTL <= MaxInt)
      <3>1. ParseError
        BY <1>4, <1>6, <2>1, <2>5 DEF ParseStep, ParseShove, ParseKeyed, ParseBare, ValidTTL
      <3>2. wanted = Rejected
        BY <2>2, <2>3, <2>5 DEF Timed
      <3>. QED BY <1>5, <3>1, <3>2 DEF ParseError, Parsed
    <2>. QED BY <2>4, <2>5
  <1>. QED BY <1>2, <1>7, <1>8, <1>9, <1>10 DEF Means

LEMMA TrimKeepsCommand ==
  ASSUME IntactInv, wanted # Unknown, Trim
  PROVE  phase' = "lex" /\ UNCHANGED wanted /\ \E ps, at : Lexed(ps, at)'
  <1>1. PICK t \in Words, g \in Gaps : line = g \o t \o g /\ SpellsCommand(t, wanted)
    BY DEF IntactInv, Trim, PaddedCommand
  <1>2. PICK ps, at : Layout(t, ps, at) /\ Means(ps, wanted)
    BY <1>1 DEF SpellsCommand
  <1>3. t # <<>> /\ t[1] # Blank /\ t[Len(t)] # Blank
    BY <1>2, LayoutEnds
  <1>4. TrimSpace(line) = t
    BY <1>1, <1>3, TrimPadded
  <1>5. input' = t /\ phase' = "lex" /\ UNCHANGED <<wanted, pos, tokens>>
    BY <1>3, <1>4 DEF Trim
  <1>6. pos = 1 /\ Len(tokens) = 0
    <2>1. Len(input) = 0 /\ tokens = <<>> /\ pos \in 1..(Len(input) + 1)
      BY EmptySeq DEF Trim, IntactInv, RQLTypeOK
    <2>. QED BY <2>1
  <1>7. Len(ps) \in Nat
    BY <1>2, LenProperties DEF Layout
  <1>8. Lexed(ps, at)'
    BY <1>2, <1>5, <1>6, <1>7 DEF Lexed, Agree
  <1>. QED BY <1>5, <1>8

LEMMA IntactStep ==
  ASSUME IntactInv, [RQLNext]_rqlVars
  PROVE  IntactInv'
  <1>1. RQLTypeOK'
    BY TypeStep DEF IntactInv
  <1>2. CASE UNCHANGED rqlVars
    BY <1>1, <1>2 DEF IntactInv, rqlVars, PaddedCommand, Lexed, AllLexed, Agree
  <1>3. CASE RQLNext /\ wanted = Unknown
    <2>1. UNCHANGED wanted
      BY <1>3 DEF RQLNext, Trim, LexEOF, LexString, LexPanic, LexNumber, LexWord, LexIllegal,
        Found, ParseShove, ParseKeyed, ParseBare, ParseError, Parsed
    <2>. QED BY <1>1, <1>3, <2>1 DEF IntactInv
  <1>4. CASE RQLNext /\ wanted # Unknown
    <2>1. phase \in {"start", "lex", "parse"} /\ (phase = "start" => Trim)
      BY <1>4 DEF RQLNext, Trim, LexEOF, LexString, LexPanic, LexNumber, LexWord, LexIllegal,
        ParseShove, ParseKeyed, ParseBare, ParseError
    <2>2. CASE phase = "start"
      BY <1>1, <1>4, <2>1, <2>2, TrimKeepsCommand DEF IntactInv
    <2>3. CASE phase = "lex"
      <3>1. /\ UNCHANGED wanted
            /\ \/ phase' = "lex" /\ \E ps, at : Lexed(ps, at)'
               \/ phase' = "parse" /\ \E ps : AllLexed(ps)'
        BY <1>4, <2>3, LexKeepsWords
      <3>. QED BY <1>1, <3>1 DEF IntactInv
    <2>4. CASE phase = "parse"
      BY <1>1, <1>4, <2>4, ParseKeepsMeaning DEF IntactInv
    <2>. QED BY <2>1, <2>2, <2>3, <2>4
  <1>. QED BY <1>2, <1>3, <1>4

(* Tokenize and Parse together: for every key and value, every spelling of them,
   every gap of blanks and every TTL, a command typed as the manual says reaches
   the engine with exactly that key, value and TTL, and one whose TTL does not
   fit is refused.  In particular no such line makes Execute unwind.       *)
THEOREM CommandsIntact == RQLSpec => []CommandsArriveIntact
  <1>1. RQLInit => IntactInv
    <2> SUFFICES ASSUME RQLInit
                 PROVE  IntactInv
      OBVIOUS
    <2>1. RQLTypeOK /\ phase = "start"
      BY TypeInit DEF RQLInit
    <2>2. PICK l \in Lines : line = l.text /\ wanted = l.wanted
      BY DEF RQLInit
    <2>3. wanted # Unknown => PaddedCommand
      BY <2>2, LinesPlanned DEF Planned, PaddedCommand
    <2>. QED BY <2>1, <2>3 DEF IntactInv
  <1>2. IntactInv => CommandsArriveIntact
    BY DEF IntactInv, CommandsArriveIntact
  <1>. QED BY <1>1, <1>2, IntactStep, PTL DEF RQLSpec

=============================================================================
