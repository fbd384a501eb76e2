------------------------ MODULE AttributeScan_proofs ------------------------
(***************************************************************************)
(* Proofs about AttributeScan for any header. The scanner and the grammar  *)
(* read a text in different ways. matching_parenthesis keeps the closing   *)
(* brackets it expects; the reference counts brackets of all kinds. The    *)
(* argument of BracketsMatch therefore carries a stack of positions: each  *)
(* expected bracket is that of an open one that has its partner ahead, and *)
(* the innermost partner is the next to come. parse_group reads a list     *)
(* piece by piece; the reference cuts it at chosen commas. What is left of *)
(* a list behind any of its pieces is a list again (RestHead), so where    *)
(* the grammar has a group parse_group stands at the rest of it until its  *)
(* end, and cannot give up or end it early (AtTheRest).                    *)
(***************************************************************************)
EXTENDS AttributeScan, FiniteSetTheorems, SequenceTheorems, WellFoundedInduction,
        TLAPS

-----------------------------------------------------------------------------
(* Loops over the tokens.                                                  *)

LEMMA LeastNat ==
    ASSUME NEW U, U \subseteq Nat, U # {}
    PROVE  \E k \in U : \A j \in U : k <= j
<1> DEFINE R == OpToRel(<, Nat)
<1>1. IsWellFoundedOn(R, Nat)
  BY NatLessThanWellFounded
<1>2. \A j, k \in Nat : j < k => <<j, k>> \in R
  BY DEF OpToRel
<1> HIDE DEF R
<1>3. PICK k \in U : \A j \in U : ~(<<j, k>> \in R)
  BY <1>1, WFMin
<1>4. \A j \in U : ~(j < k)
  BY <1>2, <1>3
<1> QED BY <1>4

\* What holds at first and from each number to the next holds of all.
LEMMA Climb ==
    ASSUME NEW lo \in Nat, NEW hi \in Nat, NEW P, lo \in P,
           \A j \in lo + 1 .. hi : j - 1 \in P => j \in P
    PROVE  \A j \in lo .. hi : j \in P
<1> DEFINE Bad == {j \in lo .. hi : j \notin P}
<1>1. SUFFICES ASSUME Bad # {} PROVE FALSE
  OBVIOUS
<1>2. Bad \subseteq Nat
  OBVIOUS
<1>3. PICK k \in Bad : \A j \in Bad : k <= j
  <2> HIDE DEF Bad
  <2> QED BY <1>1, <1>2, LeastNat
<1>4. k \in lo .. hi /\ k \notin P /\ k # lo
  OBVIOUS
<1>5. k \in lo + 1 .. hi /\ k - 1 \in lo .. hi /\ ~(k <= k - 1)
  BY <1>4
<1>6. k - 1 \in P
  BY <1>3, <1>5
<1> QED BY <1>4, <1>5, <1>6

\* f has the values of a loop that starts with b; its round j is g[j].
Loop(f, lo, hi, b, g) ==
    f[lo] = b /\ \A j \in lo + 1 .. hi : f[j] = g[j][f[j - 1]]

LEMMA LoopExists ==
    ASSUME NEW lo \in Nat, NEW hi \in Nat, lo <= hi, NEW S, NEW b \in S,
           NEW g \in [lo + 1 .. hi -> [S -> S]]
    PROVE  \E f \in [lo .. hi -> S] : Loop(f, lo, hi, b, g)
<1> USE DEF Loop
<1> DEFINE Fits(f, m) == Loop(f, lo, m, b, g)
           P == {m \in Nat : \E f \in [lo .. m -> S] : Fits(f, m)}
<1>1. lo \in P
  <2>1. [j \in lo .. lo |-> b] \in [lo .. lo -> S] /\ Fits([j \in lo .. lo |-> b], lo)
    OBVIOUS
  <2> QED BY <2>1
<1>2. ASSUME NEW m \in lo + 1 .. hi, m - 1 \in P PROVE m \in P
  <2>1. m - 1 \in Nat /\ m \in Nat /\ m - 1 \in lo .. m - 1
    OBVIOUS
  <2>2. PICK f \in [lo .. m - 1 -> S] : Fits(f, m - 1)
    BY <1>2
  <2> DEFINE h == [j \in lo .. m |-> IF j = m THEN g[m][f[m - 1]] ELSE f[j]]
  <2>3. f[m - 1] \in S /\ g[m] \in [S -> S]
    BY <2>1
  <2>4. h \in [lo .. m -> S]
    <3> SUFFICES ASSUME NEW j \in lo .. m PROVE (IF j = m THEN g[m][f[m - 1]] ELSE f[j]) \in S
      OBVIOUS
    <3>1. j # m => j \in lo .. m - 1
      OBVIOUS
    <3> QED BY <2>3, <3>1
  <2>5. h[lo] = b
    <3>1. lo \in lo .. m /\ lo # m
      OBVIOUS
    <3> QED BY <2>2, <3>1
  <2>6. ASSUME NEW j \in lo + 1 .. m PROVE h[j] = g[j][h[j - 1]]
    <3>1. j \in lo .. m /\ j - 1 \in lo .. m /\ j - 1 # m /\ j - 1 \in lo .. m - 1
      OBVIOUS
    <3>2. h[j - 1] = f[j - 1]
      BY <3>1
    <3>3. CASE j = m
      BY <3>1, <3>2, <3>3
    <3>4. CASE j # m
      <4>1. j \in lo + 1 .. m - 1
        BY <3>4
      <4>2. f[j] = g[j][f[j - 1]]
        BY <2>2, <4>1
      <4>3. h[j] = f[j]
        BY <3>1, <3>4
      <4> QED BY <3>2, <4>2, <4>3
    <3> QED BY <3>3, <3>4
  <2> HIDE DEF h
  <2>7. Fits(h, m)
    BY <2>5, <2>6
  <2> QED BY <2>1, <2>4, <2>7
<1>3. hi \in lo .. hi
  OBVIOUS
<1> HIDE DEF P
<1>4. hi \in P
  BY <1>1, <1>2, <1>3, Climb
<1> QED BY <1>4 DEF P

-----------------------------------------------------------------------------
(* The tokens.                                                             *)

Token == [s : STRING, begin : Nat, end : Nat]

\* The tokens stand one behind the other.
InRow(ts) ==
    /\ \A k \in DOMAIN ts : ts[k].begin < ts[k].end
    /\ \A j, k \in DOMAIN ts : j < k => ts[j].end <= ts[k].begin

TokensInv == tokens \in Seq(Token) /\ InRow(tokens)

LEMMA TokenFacts ==
    ASSUME TokensInv
    PROVE  /\ Len(tokens) \in Nat /\ DOMAIN tokens = 1 .. Len(tokens)
           /\ \A k \in DOMAIN tokens :
                  tokens[k].s \in STRING /\ tokens[k].begin \in Nat /\ tokens[k].end \in Nat
<1>1. \A t \in Token : t.s \in STRING /\ t.begin \in Nat /\ t.end \in Nat
  BY DEF Token
<1>2. \A k \in DOMAIN tokens : tokens[k] \in Token
  BY DEF TokensInv
<1>3. Len(tokens) \in Nat /\ DOMAIN tokens = 1 .. Len(tokens)
  BY DEF TokensInv
<1> QED BY <1>1, <1>2, <1>3

LEMMA Lexemes ==
    /\ \A s \in Opening : s \notin Closing /\ Closer(s) \in Closing
    /\ \A s \in Opening \cup Closing \cup {Separator, ":", "::"} : ~is_name(s)
    /\ "(" \in Opening /\ "[" \in Opening /\ "]" \in Closing /\ is_name("using")
    /\ Separator \notin Opening \cup Closing /\ Separator # "::" /\ "]" \notin Opening
<1>1. \A s \in Opening : s \notin Closing /\ Closer(s) \in Closing
  <2>1. Closer("(") = ")" /\ Closer("[") = "]" /\ Closer("{") = "}"
    BY DEF Closer
  <2>2. \A s \in Opening : s = "(" \/ s = "[" \/ s = "{"
    BY DEF Opening
  <2>3. \A s \in {"(", "[", "{"} : s \notin Closing /\ Closer(s) \in Closing
    BY <2>1 DEF Closing
  <2> QED BY <2>3 DEF Opening
<1>2. ASSUME NEW s \in Opening \cup Closing \cup {Separator, ":", "::"} PROVE ~is_name(s)
  <2>1. s \in Punctuation
    BY <1>2 DEF Punctuation, Access
  <2>2. s \notin Keyword
    <3>1. Separator \notin Keyword
      BY DEF Separator, Keyword
    <3>2. s # Separator => s \in {"(", "[", "{", ")", "]", "}", ":", "::"}
      BY <1>2 DEF Opening, Closing
    <3>3. \A x \in {"(", "[", "{", ")", "]", "}", ":", "::"} : x \notin Keyword
      BY DEF Keyword
    <3> QED BY <3>1, <3>2, <3>3
  <2> QED BY <2>1, <2>2 DEF is_name, IsIdentifier
<1>3. /\ "(" \in Opening /\ "[" \in Opening /\ "]" \in Closing /\ is_name("using")
      /\ Separator \notin Opening \cup Closing /\ Separator # "::" /\ "]" \notin Opening
  BY DEF Opening, Closing, is_name, Keyword, Separator
<1> QED BY <1>1, <1>2, <1>3

-----------------------------------------------------------------------------
(* The lexer.                                                              *)

LEMMA OneMoreToken ==
    ASSUME NEW ts \in Seq(Token), InRow(ts), NEW t \in Token, t.begin < t.end,
           \A k \in DOMAIN ts : ts[k].end <= t.begin
    PROVE  Append(ts, t) \in Seq(Token) /\ InRow(Append(ts, t))
<1> DEFINE us == Append(ts, t)
           m == Len(ts)
<1>1. /\ us \in Seq(Token) /\ m \in Nat /\ DOMAIN us = 1 .. m + 1 /\ DOMAIN ts = 1 .. m
      /\ us[m + 1] = t /\ \A k \in 1 .. m : us[k] = ts[k]
  OBVIOUS
<1> HIDE DEF us
<1>2. ASSUME NEW k \in DOMAIN us PROVE us[k].begin < us[k].end
  <2>1. k = m + 1 \/ k \in 1 .. m
    BY <1>1
  <2> QED BY <1>1, <2>1 DEF InRow
<1>3. ASSUME NEW j \in DOMAIN us, NEW k \in DOMAIN us, j < k PROVE us[j].end <= us[k].begin
  <2>1. j \in 1 .. m /\ (k = m + 1 \/ k \in 1 .. m)
    BY <1>1, <1>3
  <2> QED BY <1>1, <1>3, <2>1 DEF InRow
<1> QED BY <1>1, <1>2, <1>3 DEF InRow

LEMMA TokensInRow ==
    ASSUME NEW text \in Seq(STRING)
    PROVE  Tokens(text) \in Seq(Token) /\ InRow(Tokens(text))
<1> DEFINE n == Len(text)
           T(k) == [s |-> text[k], begin |-> k, end |-> k + 1]
           Round(ts, k) == IF text[k] = Space THEN ts ELSE Append(ts, T(k))
           Equation(f) == f = [k \in 0 .. n |-> IF k = 0 THEN <<>> ELSE Round(f[k - 1], k)]
           S == Seq(Token)
           g == [k \in 0 + 1 .. n |-> [ts \in S |-> Round(ts, k)]]
<1>1. n \in Nat /\ 0 \in Nat /\ 0 <= n /\ <<>> \in S
  OBVIOUS
<1>2. ASSUME NEW k \in 1 .. n PROVE T(k) \in Token /\ T(k).begin = k /\ T(k).end = k + 1
  BY <1>2 DEF Token
<1>3. ASSUME NEW k \in 1 .. n, NEW ts \in S PROVE Round(ts, k) \in S
  BY <1>2, <1>3
<1>4. g \in [0 + 1 .. n -> [S -> S]]
  BY <1>3
<1>5. \E f : Equation(f)
  <2> HIDE DEF g, S, n
  <2> DEFINE b == <<>>
             lo == 0
  <2>0. lo \in Nat /\ n \in Nat /\ lo <= n /\ b \in S /\ g \in [lo + 1 .. n -> [S -> S]]
    BY <1>1, <1>4
  <2> HIDE DEF b, lo
  <2>a. \E f \in [lo .. n -> S] : Loop(f, lo, n, b, g)
    BY <2>0, LoopExists
  <2>1. PICK f \in [0 .. n -> S] :
            f[0] = <<>> /\ \A k \in 0 + 1 .. n : f[k] = g[k][f[k - 1]]
    BY <2>a DEF b, lo, Loop
  <2>2. ASSUME NEW k \in 0 .. n PROVE f[k] = IF k = 0 THEN <<>> ELSE Round(f[k - 1], k)
    <3>1. k # 0 => k \in 0 + 1 .. n /\ k - 1 \in 0 .. n
      BY <1>1
    <3>2. k # 0 => g[k][f[k - 1]] = Round(f[k - 1], k)
      BY <3>1 DEF g
    <3> QED BY <2>1, <3>1, <3>2
  <2>3. Equation(f)
    BY <2>2
  <2> QED BY <2>3
<1> DEFINE lexed == CHOOSE f : Equation(f)
<1>6. Tokens(text) = lexed[n]
  BY DEF Tokens
<1>7. Equation(lexed)
  <2> HIDE DEF Equation
  <2> QED BY <1>5
<1> HIDE DEF lexed
<1>8. lexed[0] = <<>> /\ \A k \in 1 .. n : lexed[k] = Round(lexed[k - 1], k)
  <2>1. \A k \in 0 .. n : lexed[k] = IF k = 0 THEN <<>> ELSE Round(lexed[k - 1], k)
    BY <1>7
  <2>2. 0 \in 0 .. n /\ \A k \in 1 .. n : k \in 0 .. n /\ k # 0
    BY <1>1
  <2> QED BY <2>1, <2>2
<1> DEFINE Behind_(ts, k) == ts \in Seq(Token) /\ InRow(ts) /\ \A j \in DOMAIN ts : ts[j].end <= k + 1
           P == {k \in Nat : Behind_(lexed[k], k)}
<1>9. 0 \in P
  <2>1. <<>> \in Seq(Token) /\ DOMAIN <<>> = {}
    OBVIOUS
  <2> HIDE DEF n
  <2> QED BY <1>8, <2>1 DEF InRow
<1>10. ASSUME NEW k \in 0 + 1 .. n, k - 1 \in P PROVE k \in P
  <2> DEFINE ts == lexed[k - 1]
  <2>1. k \in 1 .. n /\ k \in Nat /\ Behind_(ts, k - 1)
    BY <1>10
  <2>2. lexed[k] = Round(ts, k)
    BY <1>8, <2>1
  <2> HIDE DEF ts
  <2>e. \A j \in DOMAIN ts : ts[j].end \in Nat
    <3>1. \A j \in DOMAIN ts : ts[j] \in Token
      BY <2>1
    <3> QED BY <3>1 DEF Token
  <2>3. CASE text[k] = Space
    <3>1. lexed[k] = ts
      BY <2>2, <2>3
    <3>2. \A j \in DOMAIN ts : ts[j].end <= k + 1
      BY <2>1, <2>e
    <3> QED BY <2>1, <3>1, <3>2
  <2>4. CASE text[k] # Space
    <3>1. lexed[k] = Append(ts, T(k))
      BY <2>2, <2>4
    <3>2. T(k) \in Token /\ T(k).begin = k /\ T(k).end = k + 1
      BY <1>2, <2>1
    <3> DEFINE t == T(k)
    <3> HIDE DEF t
    <3>3. \A j \in DOMAIN ts : ts[j].end <= k /\ ts[j].end \in Nat
      BY <2>1, <2>e
    <3>4. Append(ts, t) \in Seq(Token) /\ InRow(Append(ts, t))
      BY <2>1, <3>2, <3>3, OneMoreToken DEF t
    <3>5. \A j \in DOMAIN Append(ts, t) : Append(ts, t)[j] = t \/ (j \in DOMAIN ts /\ Append(ts, t)[j] = ts[j])
      BY <2>1
    <3>6. \A j \in DOMAIN Append(ts, t) : Append(ts, t)[j].end <= k + 1
      BY <2>1, <3>2, <3>3, <3>5 DEF t
    <3> QED BY <2>1, <3>1, <3>4, <3>6 DEF t
  <2> QED BY <2>3, <2>4
<1>11. n \in P
  <2> HIDE DEF P
  <2>1. n \in 0 .. n
    BY <1>1
  <2> QED BY <1>1, <1>9, <1>10, <2>1, Climb
<1> QED BY <1>6, <1>11

-----------------------------------------------------------------------------
(* Brackets. How deep the tokens from b on are nested behind e.            *)

Depth(b, e) == Count(b, e, Opening) - Count(b, e, Closing)

LEMMA CountOneMore ==
    ASSUME NEW b \in Nat, NEW e \in Nat, b <= e, NEW S
    PROVE  /\ Count(b, e, S) \in Nat
           /\ Count(b, e - 1, S) \in Nat
           /\ Count(b, e, S) = Count(b, e - 1, S) + IF tokens[e].s \in S THEN 1 ELSE 0
<1> DEFINE A == {k \in b .. e - 1 : tokens[k].s \in S}
           B == {k \in b .. e : tokens[k].s \in S}
<1>1. IsFiniteSet(A) /\ IsFiniteSet(B)
  <2>1. IsFiniteSet(b .. e - 1) /\ IsFiniteSet(b .. e)
    BY FS_Interval
  <2>2. A \subseteq b .. e - 1 /\ B \subseteq b .. e
    OBVIOUS
  <2> QED BY <2>1, <2>2, FS_Subset
<1>2. Cardinality(A) \in Nat /\ Cardinality(B) \in Nat
  BY <1>1, FS_CardinalityType
<1>3. CASE tokens[e].s \in S
  <2>1. e \notin A /\ B = A \cup {e}
    BY <1>3
  <2>2. Cardinality(A \cup {e}) = Cardinality(A) + 1
    <3> HIDE DEF A
    <3> QED BY <1>1, <2>1, FS_AddElement
  <2> HIDE DEF A, B
  <2>3. Cardinality(B) = Cardinality(A) + 1
    BY <2>1, <2>2
  <2> QED BY <1>2, <1>3, <2>3 DEF Count, A, B
<1>4. CASE tokens[e].s \notin S
  <2>1. B = A
    BY <1>4
  <2> HIDE DEF A, B
  <2>2. Cardinality(B) = Cardinality(A) + 0
    BY <1>2, <2>1
  <2> QED BY <1>2, <1>4, <2>2 DEF Count, A, B
<1> QED BY <1>3, <1>4

LEMMA DepthOneMore ==
    ASSUME NEW b \in Nat, NEW e \in Nat, b <= e
    PROVE  /\ Depth(b, e) \in Int /\ Depth(b, e - 1) \in Int
           /\ tokens[e].s \in Opening => Depth(b, e) = Depth(b, e - 1) + 1
           /\ tokens[e].s \in Closing => Depth(b, e) = Depth(b, e - 1) - 1
           /\ tokens[e].s \notin Opening \cup Closing => Depth(b, e) = Depth(b, e - 1)
<1> DEFINE o == Count(b, e - 1, Opening)
           c == Count(b, e - 1, Closing)
<1>1. /\ o \in Nat /\ c \in Nat
      /\ Count(b, e, Opening) = o + (IF tokens[e].s \in Opening THEN 1 ELSE 0)
      /\ Count(b, e, Closing) = c + (IF tokens[e].s \in Closing THEN 1 ELSE 0)
  BY CountOneMore
<1>2. tokens[e].s \in Opening => tokens[e].s \notin Closing
  BY Lexemes
<1> HIDE DEF o, c
<1> QED BY <1>1, <1>2 DEF Depth, o, c

LEMMA DepthNone ==
    ASSUME NEW b \in Nat
    PROVE  Depth(b, b - 1) = 0
<1>1. b .. b - 1 = {}
  OBVIOUS
<1>2. Count(b, b - 1, Opening) = 0 /\ Count(b, b - 1, Closing) = 0
  BY <1>1, FS_EmptySet DEF Count
<1> QED BY <1>2 DEF Depth

\* Partner in terms of depth; there is one at most.
LEMMA PartnerIs ==
    ASSUME NEW b \in Nat, NEW e \in Nat, NEW c
    PROVE  c \in Partner(b, e) <=>
               c \in b .. e /\ Depth(b, c) = 0 /\ \A d \in b .. c - 1 : Depth(b, d) > 0
<1>1. ASSUME NEW d \in b .. e
      PROVE  Count(b, d, Opening) \in Nat /\ Count(b, d, Closing) \in Nat
  BY CountOneMore
<1>2. ASSUME NEW d \in b .. e
      PROVE  /\ Count(b, d, Opening) = Count(b, d, Closing) <=> Depth(b, d) = 0
             /\ Count(b, d, Opening) > Count(b, d, Closing) <=> Depth(b, d) > 0
  BY <1>1 DEF Depth
<1>3. \A x \in b .. e : \A d \in b .. x - 1 : d \in b .. e
  OBVIOUS
<1> QED BY <1>2, <1>3 DEF Partner

LEMMA OnePartner ==
    ASSUME NEW b \in Nat, NEW e \in Nat, NEW c \in Partner(b, e), NEW d \in Partner(b, e)
    PROVE  c = d
<1>1. /\ c \in b .. e /\ Depth(b, c) = 0 /\ \A x \in b .. c - 1 : Depth(b, x) > 0
      /\ d \in b .. e /\ Depth(b, d) = 0 /\ \A x \in b .. d - 1 : Depth(b, x) > 0
  BY PartnerIs
<1>2. c < d => c \in b .. d - 1
  BY <1>1
<1>3. d < c => d \in b .. c - 1
  BY <1>1
<1> QED BY <1>1, <1>2, <1>3

-----------------------------------------------------------------------------
(* The loop of matching_parenthesis.                                       *)

Accumulated == [expected : Seq(Closing), over : BOOLEAN, close : Nat]
Start == [expected |-> <<>>, over |-> FALSE, close |-> 0]

\* u has the values of the loop from token k on.
Matching(u, k) ==
    /\ u[k - 1] = Start
    /\ \A j \in k .. Len(tokens) : u[j] = MatchToken(u[j - 1], j)
    /\ \A j \in k - 1 .. Len(tokens) : u[j] \in Accumulated

LEMMA AccumulatedFields ==
    ASSUME NEW a \in Accumulated
    PROVE  /\ a.expected \in Seq(Closing) /\ a.over \in BOOLEAN /\ a.close \in Nat
           /\ Len(a.expected) \in Nat /\ (a.expected = <<>> <=> Len(a.expected) = 0)
<1>1. a.expected \in Seq(Closing) /\ a.over \in BOOLEAN /\ a.close \in Nat
  BY DEF Accumulated
<1> QED BY <1>1

\* The four branches of a round.
LEMMA Round ==
    ASSUME NEW a \in Accumulated, NEW j \in Nat
    PROVE  LET s == tokens[j].s
               m == Len(a.expected)
               b == MatchToken(a, j)
           IN  /\ a.over \/ s \notin Opening \cup Closing => b = a
               /\ ~a.over /\ s \in Opening =>
                      b = [expected |-> Append(a.expected, Closer(s)), over |-> FALSE,
                           close |-> a.close]
               /\ ~a.over /\ s \in Closing /\ (m = 0 \/ a.expected[m] # s) =>
                      b = [expected |-> a.expected, over |-> TRUE, close |-> a.close]
               /\ ~a.over /\ s \in Closing /\ m # 0 /\ a.expected[m] = s =>
                      b = [expected |-> SubSeq(a.expected, 1, m - 1), over |-> m = 1,
                           close |-> IF m = 1 THEN j ELSE 0]
<1> DEFINE s == tokens[j].s
           m == Len(a.expected)
           b == MatchToken(a, j)
<1>0. /\ a = [expected |-> a.expected, over |-> a.over, close |-> a.close]
      /\ a.expected \in Seq(Closing) /\ a.over \in BOOLEAN /\ m \in Nat
      /\ (a.expected = <<>> <=> m = 0)
  <2>1. a = [expected |-> a.expected, over |-> a.over, close |-> a.close]
    BY DEF Accumulated
  <2> QED BY <2>1, AccumulatedFields
<1>1. s \in Opening => s \notin Closing
  BY Lexemes
<1>2. Last(a.expected) = a.expected[m] /\ Front(a.expected) = SubSeq(a.expected, 1, m - 1)
  BY DEF Last, Front
<1>3. a.over \/ s \notin Opening \cup Closing => b = a
  BY DEF MatchToken
<1>4. ASSUME ~a.over, s \in Opening
      PROVE  b = [expected |-> Append(a.expected, Closer(s)), over |-> FALSE, close |-> a.close]
  <2>1. b = [a EXCEPT !.expected = Append(a.expected, Closer(s))]
    BY <1>4 DEF MatchToken
  <2> QED BY <1>0, <1>4, <2>1
<1>5. ASSUME ~a.over, s \in Closing, m = 0 \/ a.expected[m] # s
      PROVE  b = [expected |-> a.expected, over |-> TRUE, close |-> a.close]
  <2>1. b = [a EXCEPT !.over = TRUE]
    BY <1>0, <1>1, <1>2, <1>5 DEF MatchToken
  <2> QED BY <1>0, <2>1
<1>6. ASSUME ~a.over, s \in Closing, m # 0, a.expected[m] = s
      PROVE  b = [expected |-> SubSeq(a.expected, 1, m - 1), over |-> m = 1,
                  close |-> IF m = 1 THEN j ELSE 0]
  BY <1>0, <1>1, <1>2, <1>6 DEF MatchToken
<1> QED BY <1>3, <1>4, <1>5, <1>6

LEMMA RoundType ==
    ASSUME NEW a \in Accumulated, NEW j \in Nat
    PROVE  /\ MatchToken(a, j) \in Accumulated
           /\ MatchToken(a, j).close \in {0, a.close, j}
<1> DEFINE s == tokens[j].s
           m == Len(a.expected)
           b == MatchToken(a, j)
<1>0. /\ a.expected \in Seq(Closing) /\ a.over \in BOOLEAN /\ a.close \in Nat /\ m \in Nat
  BY AccumulatedFields
<1>1. CASE a.over \/ s \notin Opening \cup Closing
  BY <1>1, Round
<1>2. CASE ~a.over /\ s \in Opening
  <2>1. b = [expected |-> Append(a.expected, Closer(s)), over |-> FALSE, close |-> a.close]
    BY <1>2, Round
  <2>2. Append(a.expected, Closer(s)) \in Seq(Closing)
    <3>1. Closer(s) \in Closing
      BY <1>2, Lexemes
    <3> HIDE DEF s
    <3> QED BY <1>0, <3>1
  <2> QED BY <1>0, <2>1, <2>2 DEF Accumulated
<1>3. CASE ~a.over /\ s \in Closing /\ (m = 0 \/ a.expected[m] # s)
  <2>1. b = [expected |-> a.expected, over |-> TRUE, close |-> a.close]
    BY <1>3, Round
  <2> QED BY <1>0, <2>1 DEF Accumulated
<1>4. CASE ~a.over /\ s \in Closing /\ m # 0 /\ a.expected[m] = s
  <2>1. b = [expected |-> SubSeq(a.expected, 1, m - 1), over |-> m = 1,
             close |-> IF m = 1 THEN j ELSE 0]
    BY <1>4, Round
  <2>2. SubSeq(a.expected, 1, m - 1) \in Seq(Closing)
    BY <1>0
  <2> QED BY <1>0, <2>1, <2>2 DEF Accumulated
<1> QED BY <1>0, <1>1, <1>2, <1>3, <1>4

LEMMA MatchingIs ==
    ASSUME TokensInv, NEW k \in DOMAIN tokens
    PROVE  \E u : Matching(u, k) /\ matching_parenthesis(k) = u[Len(tokens)].close
<1> DEFINE n == Len(tokens)
           lo == k - 1
           S == Accumulated
           Equation(f) == f = [j \in lo .. n |-> IF j < k THEN Start ELSE MatchToken(f[j - 1], j)]
           g == [j \in lo + 1 .. n |-> [a \in S |-> MatchToken(a, j)]]
<1>1. n \in Nat /\ k \in 1 .. n /\ lo \in Nat /\ lo <= n /\ lo + 1 = k
  BY TokenFacts
<1>2. Start \in S
  BY DEF Start, Accumulated
<1>3. g \in [lo + 1 .. n -> [S -> S]]
  <2>1. ASSUME NEW j \in lo + 1 .. n, NEW a \in S PROVE MatchToken(a, j) \in S
    <3>1. j \in Nat
      BY <1>1
    <3> QED BY <3>1, RoundType
  <2> HIDE DEF S
  <2> QED BY <2>1
<1>4. PICK f \in [lo .. n -> S] : Loop(f, lo, n, Start, g)
  <2> HIDE DEF lo, n, S, g
  <2> QED BY <1>1, <1>2, <1>3, LoopExists
<1>5. Equation(f)
  <2>1. ASSUME NEW j \in lo .. n
        PROVE  f[j] = IF j < k THEN Start ELSE MatchToken(f[j - 1], j)
    <3>1. CASE j < k
      <4>1. j = lo
        BY <1>1, <3>1
      <4> QED BY <1>4, <3>1, <4>1 DEF Loop
    <3>2. CASE ~(j < k)
      <4>1. j \in lo + 1 .. n /\ j - 1 \in lo .. n
        BY <1>1, <3>2
      <4>2. f[j - 1] \in S /\ f[j] = g[j][f[j - 1]]
        BY <1>4, <4>1 DEF Loop
      <4> HIDE DEF S
      <4>3. g[j][f[j - 1]] = MatchToken(f[j - 1], j)
        BY <4>1, <4>2
      <4> QED BY <3>2, <4>2, <4>3
    <3> QED BY <3>1, <3>2
  <2>2. f = [j \in lo .. n |-> f[j]]
    BY <1>4
  <2> HIDE DEF lo, n
  <2> QED BY <2>1, <2>2
<1> DEFINE u == CHOOSE h : Equation(h)
<1>6. Equation(u)
  <2> HIDE DEF Equation
  <2> QED BY <1>5
<1>7. matching_parenthesis(k) = u[n].close
  BY DEF matching_parenthesis, Start
<1> HIDE DEF u
<1>8. \A j \in lo .. n : u[j] = IF j < k THEN Start ELSE MatchToken(u[j - 1], j)
  BY <1>6
<1>9. u[k - 1] = Start /\ \A j \in k .. n : u[j] = MatchToken(u[j - 1], j)
  <2>1. k - 1 \in lo .. n /\ k - 1 < k
    BY <1>1
  <2>2. \A j \in k .. n : j \in lo .. n /\ ~(j < k)
    BY <1>1
  <2> QED BY <1>8, <2>1, <2>2
<1>10. \A j \in lo .. n : u[j] \in S
  <2> DEFINE P == {j \in Nat : u[j] \in S}
  <2>1. lo \in P
    BY <1>1, <1>2, <1>9
  <2>2. ASSUME NEW j \in lo + 1 .. n, j - 1 \in P PROVE j \in P
    <3>1. j \in Nat /\ j \in k .. n /\ u[j - 1] \in S
      BY <1>1, <2>2
    <3>2. u[j] = MatchToken(u[j - 1], j)
      BY <1>9, <3>1
    <3>3. MatchToken(u[j - 1], j) \in S
      BY <3>1, RoundType
    <3> QED BY <3>1, <3>2, <3>3
  <2>3. \A j \in lo .. n : j \in P
    <3> HIDE DEF P
    <3> QED BY <1>1, <2>1, <2>2, Climb
  <2> QED BY <2>3
<1> QED BY <1>7, <1>9, <1>10 DEF Matching

LEMMA MatchIsBehind ==
    ASSUME TokensInv, NEW k \in DOMAIN tokens
    PROVE  matching_parenthesis(k) \in {0} \cup (k .. Len(tokens))
<1>1. Len(tokens) \in Nat /\ k \in 1 .. Len(tokens) /\ k - 1 \in Nat /\ k - 1 <= Len(tokens)
      /\ k - 1 + 1 = k
  BY TokenFacts
<1>2. PICK u : Matching(u, k) /\ matching_parenthesis(k) = u[Len(tokens)].close
  BY MatchingIs
<1> DEFINE n == Len(tokens)
           lo == k - 1
           P == {j \in Nat : u[j].close \in {0} \cup (k .. n)}
<1>3. lo \in P
  BY <1>1, <1>2 DEF Matching, Start
<1>4. ASSUME NEW j \in lo + 1 .. n, j - 1 \in P PROVE j \in P
  <2>1. j \in Nat /\ j \in k .. n /\ j - 1 \in k - 1 .. n
    BY <1>1
  <2>2. u[j] = MatchToken(u[j - 1], j) /\ u[j - 1] \in Accumulated
    BY <1>2, <2>1 DEF Matching
  <2>3. u[j].close \in {0, u[j - 1].close, j}
    BY <2>1, <2>2, RoundType
  <2> QED BY <1>4, <2>1, <2>3
<1>5. n \in P
  <2> HIDE DEF P
  <2>1. lo \in Nat /\ n \in Nat /\ n \in lo .. n
    BY <1>1
  <2> HIDE DEF n, lo
  <2> QED BY <1>3, <1>4, <2>1, Climb
<1> QED BY <1>2, <1>5

\* The loop expects the closing brackets of those it has passed from b on and
\* not seen closed: p names them, from the outermost on.
Stack(p, a, b, j) ==
    /\ ~a.over
    /\ p \in [1 .. Len(a.expected) -> b .. j]
    /\ Len(a.expected) = Depth(b, j)
    /\ \A x \in 1 .. Len(a.expected) :
           /\ tokens[p[x]].s \in Opening /\ a.expected[x] = Closer(tokens[p[x]].s)
           /\ Depth(p[x], j) = Len(a.expected) - x + 1
           /\ \A d \in p[x] .. j : Depth(p[x], d) > 0

LEMMA StackKeeps ==
    ASSUME NEW b \in Nat, NEW j \in Nat, b <= j, NEW a \in Accumulated, NEW p, Stack(p, a, b, j - 1),
           tokens[j].s \notin Opening \cup Closing
    PROVE  Stack(p, MatchToken(a, j), b, j)
<1> DEFINE m == Len(a.expected)
<1>1. MatchToken(a, j) = a
  BY Round
<1>2. m \in Nat /\ p \in [1 .. m -> b .. j - 1]
  BY AccumulatedFields DEF Stack
<1>3. Depth(b, j) = Depth(b, j - 1)
  BY DepthOneMore
<1>4. ASSUME NEW x \in 1 .. m
      PROVE  Depth(p[x], j) = Depth(p[x], j - 1) /\ \A d \in p[x] .. j : Depth(p[x], d) > 0
  <2>1. p[x] \in b .. j - 1 /\ p[x] \in Nat /\ p[x] <= j
    BY <1>2
  <2>2. Depth(p[x], j) = Depth(p[x], j - 1)
    BY <2>1, DepthOneMore
  <2>3. Depth(p[x], j - 1) > 0
    <3>1. j - 1 \in p[x] .. j - 1
      BY <2>1
    <3> QED BY <3>1 DEF Stack
  <2>4. \A d \in p[x] .. j : d = j \/ d \in p[x] .. j - 1
    BY <2>1
  <2> QED BY <2>2, <2>3, <2>4 DEF Stack
<1>5. p \in [1 .. m -> b .. j]
  BY <1>2
<1> QED BY <1>1, <1>3, <1>4, <1>5 DEF Stack

LEMMA StackOpens ==
    ASSUME NEW b \in Nat, NEW j \in Nat, b <= j, NEW a \in Accumulated, NEW p, Stack(p, a, b, j - 1),
           tokens[j].s \in Opening
    PROVE  \E q : Stack(q, MatchToken(a, j), b, j)
<1> DEFINE m == Len(a.expected)
           t == Append(a.expected, Closer(tokens[j].s))
           c == [expected |-> t, over |-> FALSE, close |-> a.close]
           q == [x \in 1 .. m + 1 |-> IF x = m + 1 THEN j ELSE p[x]]
<1>1. MatchToken(a, j) = c
  BY Round DEF Stack
<1>2. m \in Nat /\ p \in [1 .. m -> b .. j - 1] /\ a.expected \in Seq(Closing)
  BY AccumulatedFields DEF Stack
<1>3. /\ Len(t) = m + 1 /\ t[m + 1] = Closer(tokens[j].s)
      /\ \A x \in 1 .. m : t[x] = a.expected[x]
  <2>1. Closer(tokens[j].s) \in Closing
    BY Lexemes
  <2> DEFINE y == Closer(tokens[j].s)
  <2> HIDE DEF y
  <2> QED BY <1>2, <2>1 DEF y
<1>4. Depth(b, j) = Depth(b, j - 1) + 1 /\ Depth(b, j - 1) \in Int
  BY DepthOneMore
<1>5. ASSUME NEW x \in 1 .. m
      PROVE  /\ Depth(p[x], j) = (m + 1) - x + 1
             /\ \A d \in p[x] .. j : Depth(p[x], d) > 0
  <2>1. p[x] \in b .. j - 1 /\ p[x] \in Nat /\ p[x] <= j
    BY <1>2
  <2>2. Depth(p[x], j) = Depth(p[x], j - 1) + 1 /\ Depth(p[x], j - 1) \in Int
    BY <2>1, DepthOneMore
  <2>3. Depth(p[x], j - 1) = m - x + 1
    BY DEF Stack
  <2>4. \A d \in p[x] .. j : d = j \/ d \in p[x] .. j - 1
    BY <2>1
  <2>5. Depth(p[x], j) > 0
    BY <1>2, <2>2, <2>3
  <2> QED BY <1>2, <2>2, <2>3, <2>4, <2>5 DEF Stack
<1>6. Depth(j, j) = 1
  <2>1. Depth(j, j - 1) = 0
    BY DepthNone
  <2> QED BY <2>1, DepthOneMore
<1>7. q \in [1 .. m + 1 -> b .. j]
  <2> SUFFICES ASSUME NEW x \in 1 .. m + 1 PROVE (IF x = m + 1 THEN j ELSE p[x]) \in b .. j
    OBVIOUS
  <2>1. x # m + 1 => x \in 1 .. m
    BY <1>2
  <2>2. j \in b .. j
    OBVIOUS
  <2> QED BY <1>2, <2>1, <2>2
<1>8. ASSUME NEW x \in 1 .. m + 1
      PROVE  /\ tokens[q[x]].s \in Opening /\ t[x] = Closer(tokens[q[x]].s)
             /\ Depth(q[x], j) = (m + 1) - x + 1
             /\ \A d \in q[x] .. j : Depth(q[x], d) > 0
  <2>1. CASE x = m + 1
    <3>1. q[x] = j
      BY <2>1
    <3> HIDE DEF q, t
    <3>2. \A d \in j .. j : d = j
      OBVIOUS
    <3> QED BY <1>2, <1>3, <1>6, <2>1, <3>1, <3>2
  <2>2. CASE x # m + 1
    <3>1. x \in 1 .. m /\ q[x] = p[x]
      BY <1>2, <2>2
    <3> HIDE DEF q, t
    <3> QED BY <1>3, <1>5, <3>1 DEF Stack
  <2> QED BY <2>1, <2>2
<1>9. Stack(q, c, b, j)
  <2> HIDE DEF q, t
  <2>1. m = Depth(b, j - 1)
    BY DEF Stack
  <2>2. c.expected = t /\ ~c.over
    OBVIOUS
  <2> HIDE DEF c, m
  <2> QED BY <1>3, <1>4, <1>7, <1>8, <2>1, <2>2 DEF Stack
<1> QED BY <1>1, <1>9

\* A closing bracket inside a bracketed piece is the one the loop expects.
LEMMA TopMatches ==
    ASSUME NEW b \in Nat, NEW e \in Nat, Bracketed(b, e), NEW j \in b + 1 .. e,
           NEW a \in Accumulated, NEW p, Stack(p, a, b, j - 1), tokens[j].s \in Closing,
           a.expected # <<>>
    PROVE  a.expected[Len(a.expected)] = tokens[j].s
<1> DEFINE m == Len(a.expected)
           k == p[m]
<1>1. m \in Nat /\ m \in 1 .. m /\ p \in [1 .. m -> b .. j - 1] /\ m - m + 1 = 1
  BY AccumulatedFields DEF Stack
<1>2. /\ k \in b .. j - 1 /\ tokens[k].s \in Opening /\ a.expected[m] = Closer(tokens[k].s)
      /\ Depth(k, j - 1) = 1 /\ \A d \in k .. j - 1 : Depth(k, d) > 0
  BY <1>1 DEF Stack
<1> HIDE DEF k, m
<1>3. k \in Nat /\ j \in Nat /\ k <= j /\ k \in b .. e /\ j \in k .. e
  BY <1>2
<1>4. Depth(k, j) = 0
  <2>1. Depth(k, j) = Depth(k, j - 1) - 1
    BY <1>3, DepthOneMore
  <2> QED BY <1>2, <2>1
<1>5. j \in Partner(k, e)
  BY <1>2, <1>3, <1>4, PartnerIs
<1>6. PICK c \in Partner(k, e) : tokens[c].s = Closer(tokens[k].s)
  BY <1>2, <1>3 DEF Bracketed
<1>7. c = j
  BY <1>3, <1>5, <1>6, OnePartner
<1> QED BY <1>2, <1>6, <1>7 DEF m

LEMMA StackCloses ==
    ASSUME NEW b \in Nat, NEW j \in Nat, b <= j, NEW a \in Accumulated, NEW p, Stack(p, a, b, j - 1),
           tokens[j].s \in Closing, Len(a.expected) > 1, a.expected[Len(a.expected)] = tokens[j].s
    PROVE  \E q : Stack(q, MatchToken(a, j), b, j)
<1> DEFINE m == Len(a.expected)
           t == SubSeq(a.expected, 1, m - 1)
           c == [expected |-> t, over |-> FALSE, close |-> 0]
           q == [x \in 1 .. m - 1 |-> p[x]]
<1>1. m \in Nat /\ p \in [1 .. m -> b .. j - 1] /\ a.expected \in Seq(Closing) /\ m # 0 /\ m # 1
  BY AccumulatedFields DEF Stack
<1>2. MatchToken(a, j) = c
  BY <1>1, Round DEF Stack
<1>3. Len(t) = m - 1 /\ \A x \in 1 .. m - 1 : t[x] = a.expected[x]
  BY <1>1
<1>4. Depth(b, j) = Depth(b, j - 1) - 1 /\ Depth(b, j - 1) \in Int
  BY DepthOneMore
<1>5. ASSUME NEW x \in 1 .. m - 1
      PROVE  /\ tokens[p[x]].s \in Opening /\ t[x] = Closer(tokens[p[x]].s)
             /\ Depth(p[x], j) = (m - 1) - x + 1
             /\ \A d \in p[x] .. j : Depth(p[x], d) > 0
  <2>1. x \in 1 .. m /\ p[x] \in b .. j - 1 /\ p[x] \in Nat /\ p[x] <= j
    BY <1>1
  <2>2. Depth(p[x], j) = Depth(p[x], j - 1) - 1 /\ Depth(p[x], j - 1) \in Int
    BY <2>1, DepthOneMore
  <2>3. /\ Depth(p[x], j - 1) = m - x + 1 /\ \A d \in p[x] .. j - 1 : Depth(p[x], d) > 0
        /\ tokens[p[x]].s \in Opening /\ a.expected[x] = Closer(tokens[p[x]].s)
    BY <2>1 DEF Stack
  <2>4. \A d \in p[x] .. j : d = j \/ d \in p[x] .. j - 1
    BY <2>1
  <2>5. Depth(p[x], j) = (m - 1) - x + 1 /\ Depth(p[x], j) > 0
    BY <1>1, <2>2, <2>3
  <2> HIDE DEF t
  <2> QED BY <1>3, <2>3, <2>4, <2>5
<1>6. q \in [1 .. m - 1 -> b .. j] /\ \A x \in 1 .. m - 1 : q[x] = p[x]
  <2>1. \A x \in 1 .. m - 1 : p[x] \in b .. j
    <3>1. \A x \in 1 .. m - 1 : x \in 1 .. m
      BY <1>1
    <3> QED BY <1>1, <3>1
  <2> QED BY <2>1
<1>7. Stack(q, c, b, j)
  <2> HIDE DEF q, t
  <2>1. m = Depth(b, j - 1)
    BY DEF Stack
  <2>2. c.expected = t /\ ~c.over
    OBVIOUS
  <2> HIDE DEF c, m
  <2> QED BY <1>3, <1>4, <1>5, <1>6, <2>1, <2>2 DEF Stack
<1> QED BY <1>2, <1>7

\* matching_parenthesis finds the partner of a bracket.
LEMMA BracketsMatch ==
    ASSUME TokensInv, NEW b \in DOMAIN tokens, NEW e \in DOMAIN tokens,
           tokens[b].s \in Opening, Bracketed(b, e)
    PROVE  matching_parenthesis(b) = e
<1> DEFINE n == Len(tokens)
<1>1. n \in Nat /\ b \in 1 .. n /\ e \in 1 .. n /\ b - 1 \in Nat /\ b \in Nat /\ e \in Nat
  BY TokenFacts
<1>2. PICK u : Matching(u, b) /\ matching_parenthesis(b) = u[n].close
  BY MatchingIs
<1>3. /\ b <= e /\ Depth(b, e) = 0 /\ \A d \in b .. e - 1 : Depth(b, d) > 0
  BY <1>1, PartnerIs DEF Bracketed
<1>4. ASSUME NEW j \in b .. n
      PROVE  /\ u[j] = MatchToken(u[j - 1], j) /\ u[j - 1] \in Accumulated /\ u[j] \in Accumulated
             /\ j \in Nat /\ b <= j
  <2>1. j - 1 \in b - 1 .. n /\ j \in b - 1 .. n
    BY <1>1
  <2> QED BY <1>1, <1>2, <2>1 DEF Matching
<1>5. Depth(b, b) = 1
  <2>1. Depth(b, b - 1) = 0
    BY <1>1, DepthNone
  <2>2. b <= b
    BY <1>1
  <2>3. Depth(b, b) = Depth(b, b - 1) + 1
    BY <1>1, <2>2, DepthOneMore
  <2> QED BY <2>1, <2>3
<1>6. b < e
  BY <1>1, <1>3, <1>5
<1> DEFINE P == {j \in Nat : j < e => \E p : Stack(p, u[j], b, j)}
<1>7. b \in P
  <2>1. u[b - 1] = Start
    BY <1>2 DEF Matching
  <2>2. Stack(<<>>, Start, b, b - 1)
    <3>1. /\ ~Start.over /\ Start.expected = <<>> /\ Len(<<>>) = 0 /\ 1 .. 0 = {}
          /\ <<>> \in [{} -> b .. b - 1]
      BY DEF Start
    <3> QED BY <1>1, <3>1, DepthNone DEF Stack
  <2>3. b \in b .. n
    BY <1>1
  <2>4. \E p : Stack(p, u[b], b, b)
    BY <1>1, <1>4, <2>1, <2>2, <2>3, StackOpens
  <2> QED BY <1>1, <2>4
<1>8. ASSUME NEW j \in b + 1 .. e - 1, j - 1 \in P PROVE j \in P
  <2>1. j \in b .. n /\ j \in Nat /\ j - 1 < e /\ j \in b + 1 .. e /\ j - 1 \in b .. e - 1
        /\ j \in b .. e - 1
    BY <1>1
  <2>2. PICK p : Stack(p, u[j - 1], b, j - 1)
    BY <1>8, <2>1
  <2> DEFINE a == u[j - 1]
  <2>3. a \in Accumulated /\ u[j] = MatchToken(a, j) /\ b <= j
    BY <1>4, <2>1
  <2>4. Len(a.expected) = Depth(b, j - 1)
    BY <2>2 DEF Stack
  <2>5. Len(a.expected) \in Nat /\ Len(a.expected) > 0
    BY <1>3, <2>1, <2>3, <2>4, AccumulatedFields
  <2> HIDE DEF a
  <2>6. CASE tokens[j].s \notin Opening \cup Closing
    BY <1>1, <2>1, <2>2, <2>3, <2>6, StackKeeps DEF a
  <2>7. CASE tokens[j].s \in Opening
    <3>1. \E q : Stack(q, MatchToken(a, j), b, j)
      BY <1>1, <2>1, <2>2, <2>3, <2>7, StackOpens DEF a
    <3> QED BY <2>1, <2>3, <3>1
  <2>8. CASE tokens[j].s \in Closing
    <3>1. Depth(b, j) = Depth(b, j - 1) - 1 /\ Depth(b, j - 1) \in Int /\ Depth(b, j) > 0
      BY <1>1, <1>3, <2>1, <2>3, <2>8, DepthOneMore
    <3>2. Len(a.expected) > 1
      BY <2>4, <3>1
    <3>3. a.expected[Len(a.expected)] = tokens[j].s
      BY <1>1, <2>1, <2>2, <2>3, <2>5, <2>8, AccumulatedFields, TopMatches DEF a
    <3>4. \E q : Stack(q, MatchToken(a, j), b, j)
      BY <1>1, <2>1, <2>2, <2>3, <2>8, <3>2, <3>3, StackCloses DEF a
    <3> QED BY <2>1, <2>3, <3>4
  <2> QED BY <2>6, <2>7, <2>8
<1>9. e - 1 \in P
  <2> HIDE DEF P
  <2> DEFINE hi == e - 1
  <2>1. hi \in Nat /\ hi \in b .. hi
    BY <1>1, <1>6
  <2>2. \A j \in b + 1 .. hi : j - 1 \in P => j \in P
    BY <1>8
  <2> HIDE DEF hi
  <2>3. hi \in P
    BY <1>1, <1>7, <2>1, <2>2, Climb
  <2> QED BY <2>3 DEF hi
<1>10. PICK p : Stack(p, u[e - 1], b, e - 1)
  BY <1>1, <1>9
<1>11. u[e].over /\ u[e].close = e
  <2> DEFINE a == u[e - 1]
  <2>1. a \in Accumulated /\ u[e] = MatchToken(a, e) /\ ~a.over
    BY <1>1, <1>3, <1>4, <1>10 DEF Stack
  <2>2. Depth(b, e - 1) > 0 /\ Depth(b, e - 1) \in Int
    <3>1. e - 1 \in b .. e - 1
      BY <1>1, <1>6
    <3> QED BY <1>1, <1>3, <3>1, DepthOneMore
  <2>3. tokens[e].s \in Closing /\ Depth(b, e - 1) = 1
    <3>1. /\ tokens[e].s \in Opening => Depth(b, e) = Depth(b, e - 1) + 1
          /\ tokens[e].s \in Closing => Depth(b, e) = Depth(b, e - 1) - 1
          /\ tokens[e].s \notin Opening \cup Closing => Depth(b, e) = Depth(b, e - 1)
      BY <1>1, <1>3, DepthOneMore
    <3> QED BY <1>3, <2>2, <3>1
  <2>4. Len(a.expected) = 1
    BY <1>10, <2>3 DEF Stack
  <2> HIDE DEF a
  <2>5. a.expected # <<>>
    <3>1. a.expected = <<>> <=> Len(a.expected) = 0
      BY <2>1, AccumulatedFields
    <3> QED BY <2>4, <3>1
  <2>6. a.expected[Len(a.expected)] = tokens[e].s
    <3>1. e \in b + 1 .. e
      BY <1>1, <1>6
    <3> QED BY <1>1, <1>10, <2>1, <2>3, <2>5, <3>1, TopMatches DEF a
  <2> DEFINE m == Len(a.expected)
  <2>7. MatchToken(a, e) = [expected |-> SubSeq(a.expected, 1, m - 1), over |-> m = 1,
                            close |-> IF m = 1 THEN e ELSE 0]
    <3>1. m # 0
      BY <2>4
    <3> QED BY <1>1, <2>1, <2>3, <2>6, <3>1, Round
  <2>8. m = 1
    BY <2>4
  <2>9. MatchToken(a, e).over /\ MatchToken(a, e).close = e
    <3> DEFINE t == SubSeq(a.expected, 1, m - 1)
    <3>1. MatchToken(a, e) = [expected |-> t, over |-> TRUE, close |-> e]
      <4>1. (m = 1) = TRUE /\ (IF m = 1 THEN e ELSE 0) = e
        BY <2>8
      <4> HIDE DEF m
      <4> QED BY <2>7, <4>1
    <3> HIDE DEF t
    <3> QED BY <3>1
  <2> QED BY <2>1, <2>9
<1> DEFINE Q == {j \in Nat : u[j].over /\ u[j].close = e}
<1>12. ASSUME NEW j \in e + 1 .. n, j - 1 \in Q PROVE j \in Q
  <2>1. j \in b .. n
    BY <1>1, <1>3
  <2>2. u[j] = MatchToken(u[j - 1], j) /\ u[j - 1] \in Accumulated /\ j \in Nat
    BY <1>4, <2>1
  <2>3. u[j] = u[j - 1]
    BY <1>12, <2>2, Round
  <2> QED BY <1>12, <2>2, <2>3
<1>13. n \in Q
  <2>1. e \in Q /\ n \in e .. n
    BY <1>1, <1>11
  <2> HIDE DEF Q, n
  <2> QED BY <1>1, <1>12, <2>1, Climb
<1> QED BY <1>2, <1>13

-----------------------------------------------------------------------------
(* Lists of attributes.                                                    *)

\* The pieces between two cuts that follow one another are attributes.
Separate(cuts) ==
    \A c, d \in cuts :
        c < d /\ (\A k \in cuts : k <= c \/ d <= k) => c + 1 = d \/ IsAttribute(c + 1, d - 1)

\* commas are some of the commas of b .. e.
Chosen(commas, b, e) ==
    \A k \in commas : k \in b .. e /\ tokens[k].s = Separator
Cuts(commas, b, e) == {b - 1, e + 1} \cup commas

LEMMA ListIs ==
    ASSUME NEW b \in Nat, NEW e \in Nat
    PROVE  IsList(b, e) <=> \E commas : Chosen(commas, b, e) /\ Separate(Cuts(commas, b, e))
<1>1. \A commas : Chosen(commas, b, e) <=> commas \in SUBSET {k \in b .. e : tokens[k].s = Separator}
  BY DEF Chosen
<1> QED BY <1>1, Zenon DEF IsList, Separate, Cuts

LEMMA CutsAre ==
    ASSUME NEW b \in Nat, NEW e \in Nat, NEW commas, Chosen(commas, b, e), NEW k
    PROVE  /\ k \in commas => k \in Nat /\ b <= k /\ k <= e
           /\ k \in Cuts(commas, b, e) <=> k = b - 1 \/ k = e + 1 \/ k \in commas
<1>1. k \in commas => k \in b .. e
  BY DEF Chosen
<1>2. k \in b .. e => k \in Nat /\ b <= k /\ k <= e
  OBVIOUS
<1> QED BY <1>1, <1>2 DEF Cuts

\* What follows a comma of a list is a list.
LEMMA RestIsList ==
    ASSUME NEW b \in Nat, NEW e \in Nat, NEW commas, Chosen(commas, b, e),
           Separate(Cuts(commas, b, e)), NEW d \in commas
    PROVE  IsList(d + 1, e)
<1> DEFINE cuts == Cuts(commas, b, e)
           after == {k \in commas : k > d}
           rest == Cuts(after, d + 1, e)
<1>1. d \in Nat /\ b <= d /\ d <= e
  BY CutsAre
<1>2. d + 1 \in Nat /\ (d + 1) - 1 = d
  BY <1>1
<1>3. Chosen(after, d + 1, e)
  <2> SUFFICES ASSUME NEW k \in after PROVE k \in d + 1 .. e /\ tokens[k].s = Separator
    BY DEF Chosen
  <2>1. k \in commas /\ k > d
    OBVIOUS
  <2>2. k \in Nat /\ k <= e /\ tokens[k].s = Separator
    BY <2>1, CutsAre DEF Chosen
  <2> HIDE DEF after
  <2>3. \A x, y \in Nat : y > x /\ y <= e => y \in x + 1 .. e
    OBVIOUS
  <2> QED BY <1>1, <2>1, <2>2, <2>3
<1>4. ASSUME NEW k
      PROVE  /\ k \in rest <=> k = d \/ k = e + 1 \/ (k \in commas /\ k > d)
             /\ k \in cuts <=> k = b - 1 \/ k = e + 1 \/ k \in commas
  <2> HIDE DEF after
  <2>1. k \in rest <=> k = (d + 1) - 1 \/ k = e + 1 \/ k \in after
    BY <1>2, <1>3, CutsAre
  <2>2. k \in cuts <=> k = b - 1 \/ k = e + 1 \/ k \in commas
    BY CutsAre
  <2> QED BY <1>2, <2>1, <2>2 DEF after
<1>5. \A k \in rest : k \in cuts /\ k \in Int /\ d <= k
  <2> SUFFICES ASSUME NEW k \in rest PROVE k \in cuts /\ k \in Int /\ d <= k
    OBVIOUS
  <2> HIDE DEF rest, cuts
  <2>1. k = d \/ k = e + 1 \/ (k \in commas /\ k > d)
    BY <1>4
  <2>2. k \in commas => k \in Nat
    BY CutsAre
  <2>3. e + 1 \in Nat /\ d <= e + 1 /\ d <= d
    BY <1>1
  <2>4. k \in Int /\ d <= k
    BY <1>1, <2>1, <2>2, <2>3
  <2> QED BY <1>4, <2>1, <2>4
<1>6. \A k \in cuts : k \in rest \/ (k \in Int /\ k < d)
  <2> SUFFICES ASSUME NEW k \in cuts, k \notin rest PROVE k \in Int /\ k < d
    OBVIOUS
  <2> HIDE DEF rest, cuts
  <2>1. k # e + 1 /\ k # d /\ (k = b - 1 \/ (k \in commas /\ ~(k > d)))
    BY <1>4
  <2>2. k \in commas => k \in Nat
    BY CutsAre
  <2>3. k \in Int
    BY <2>1, <2>2
  <2> QED BY <1>1, <2>1, <2>3
<1>7. Separate(rest)
  <2> HIDE DEF rest, cuts
  <2> SUFFICES ASSUME NEW c \in rest, NEW x \in rest, c < x, \A k \in rest : k <= c \/ x <= k
               PROVE  c + 1 = x \/ IsAttribute(c + 1, x - 1)
    BY DEF Separate
  <2>1. c \in cuts /\ x \in cuts /\ c \in Int /\ d <= c
    BY <1>5
  <2>2. \A k \in cuts : k <= c \/ x <= k
    <3> SUFFICES ASSUME NEW k \in cuts PROVE k <= c \/ x <= k
      OBVIOUS
    <3>1. CASE k \in rest
      BY <3>1
    <3>2. CASE k \in Int /\ k < d
      BY <1>1, <2>1, <3>2
    <3> QED BY <1>6, <3>1, <3>2
  <2> QED BY <2>1, <2>2 DEF Separate, cuts
<1> HIDE DEF after
<1> QED BY <1>2, <1>3, <1>7, ListIs

\* A list begins with a comma or with an attribute, and a list or its end
\* follows.
LEMMA ListBegins ==
    ASSUME NEW b \in Nat, NEW e \in Nat, b <= e, IsList(b, e)
    PROVE  \/ tokens[b].s = Separator /\ IsList(b + 1, e)
           \/ \E d \in b + 1 .. e + 1 :
                  IsAttribute(b, d - 1) /\ (d = e + 1 \/ (tokens[d].s = Separator /\ IsList(d + 1, e)))
<1>1. PICK commas : Chosen(commas, b, e) /\ Separate(Cuts(commas, b, e))
  BY ListIs
<1> DEFINE cuts == Cuts(commas, b, e)
           D == {k \in cuts : k > b - 1}
<1>2. ASSUME NEW k \in cuts
      PROVE  k \in Int /\ (k = b - 1 \/ (k > b - 1 /\ k \in Nat /\ k <= e + 1))
  <2> HIDE DEF cuts
  <2>1. k = b - 1 \/ k = e + 1 \/ (k \in commas /\ k \in Nat /\ b <= k /\ k <= e)
    BY <1>1, CutsAre DEF cuts
  <2>2. k \in Int
    BY <2>1
  <2> QED BY <2>1, <2>2
<1>3. e + 1 \in cuts /\ b - 1 \in cuts /\ e + 1 > b - 1
  <2>1. e + 1 > b - 1
    OBVIOUS
  <2> QED BY <1>1, <2>1, CutsAre
<1>4. D \subseteq Nat /\ e + 1 \in D
  <2> HIDE DEF cuts
  <2>1. \A k \in D : k \in cuts /\ k > b - 1
    OBVIOUS
  <2>2. \A k \in D : k \in Nat
    BY <1>2, <2>1
  <2> QED BY <1>3, <2>2
<1>5. PICK d \in D : \A k \in D : d <= k
  <2> HIDE DEF D
  <2> QED BY <1>4, LeastNat
<1> HIDE DEF cuts
<1>6. d \in cuts /\ d > b - 1 /\ d \in Nat /\ d <= e + 1
  <2>1. d \in cuts /\ d > b - 1
    OBVIOUS
  <2> QED BY <1>2, <2>1
<1>7. \A k \in cuts : k <= b - 1 \/ d <= k
  <2> SUFFICES ASSUME NEW k \in cuts, ~(k <= b - 1) PROVE d <= k
    OBVIOUS
  <2>1. k \in Int
    BY <1>2
  <2>2. k > b - 1
    BY <2>1
  <2> QED BY <1>5, <2>2
<1>8. (b - 1) + 1 = d \/ IsAttribute((b - 1) + 1, d - 1)
  <2>1. b - 1 < d
    BY <1>6
  <2> HIDE DEF D
  <2> QED BY <1>1, <1>3, <1>6, <1>7, <2>1 DEF Separate, cuts
<1>9. b = d \/ IsAttribute(b, d - 1)
  <2>1. (b - 1) + 1 = b
    OBVIOUS
  <2> QED BY <1>8, <2>1
<1>10. d = e + 1 \/ (tokens[d].s = Separator /\ IsList(d + 1, e))
  <2>1. d = e + 1 \/ d \in commas
    BY <1>1, <1>6, CutsAre DEF cuts
  <2>2. d \in commas => tokens[d].s = Separator /\ IsList(d + 1, e)
    BY <1>1, RestIsList DEF Chosen
  <2> QED BY <2>1, <2>2
<1>11. d # b => d \in b + 1 .. e + 1
  BY <1>6
<1>12. d = b => d # e + 1
  BY <1>6
<1> HIDE DEF D
<1>13. CASE d = b
  BY <1>10, <1>12, <1>13
<1>14. CASE d # b
  <2>1. d \in b + 1 .. e + 1 /\ IsAttribute(b, d - 1)
    BY <1>9, <1>11, <1>14
  <2> QED BY <1>10, <2>1
<1> QED BY <1>13, <1>14

\* Where the name of an attribute at b ends, as parse_group sees it.
NameEnds(b) ==
    b + IF is(b + 1, "::") /\ b + 2 \in DOMAIN tokens /\ is_name(tokens[b + 2].s) THEN 3 ELSE 1

LEMMA AttributeIs ==
    ASSUME TokensInv, NEW b \in Nat, NEW e \in Nat, b \in DOMAIN tokens,
           IsAttribute(b, e), is(e + 1, Separator) \/ is(e + 1, "]")
    PROVE  /\ is_name(tokens[b].s) /\ ~is_name(tokens[b + 1].s)
           /\ IF is(NameEnds(b), "(") THEN matching_parenthesis(NameEnds(b)) = e
              ELSE NameEnds(b) = e + 1
<1>1. PICK h :
          /\ h \in b .. e /\ (h = b \/ h = b + 2)
          /\ is_name(tokens[b].s) /\ is_name(tokens[h].s)
          /\ h = b + 2 => tokens[b + 1].s = "::"
          /\ h = e \/ (tokens[h + 1].s = "(" /\ Bracketed(h + 1, e))
  BY DEF IsAttribute
<1>2. /\ Len(tokens) \in Nat /\ DOMAIN tokens = 1 .. Len(tokens)
      /\ h \in Nat /\ b <= h /\ h <= e /\ 1 <= b /\ e + 1 <= Len(tokens)
  <2>1. Len(tokens) \in Nat /\ DOMAIN tokens = 1 .. Len(tokens)
    BY TokenFacts
  <2>2. b \in 1 .. Len(tokens) /\ e + 1 \in 1 .. Len(tokens)
    BY <2>1 DEF is
  <2>3. \A x \in b .. e : x \in Nat /\ b <= x /\ x <= e
    OBVIOUS
  <2>4. h \in b .. e
    BY <1>1
  <2>5. h \in Nat /\ b <= h /\ h <= e
    BY <2>3, <2>4
  <2>6. 1 <= b /\ e + 1 <= Len(tokens)
    BY <2>1, <2>2
  <2> QED BY <2>1, <2>5, <2>6
<1>3. h + 1 \in DOMAIN tokens /\ e \in DOMAIN tokens /\ tokens[h + 1].s \in {Separator, "]", "("}
  <2>1. h + 1 \in 1 .. Len(tokens) /\ e \in 1 .. Len(tokens)
    BY <1>2
  <2>2. CASE h = e
    BY <1>2, <2>1, <2>2 DEF is
  <2>3. CASE h # e
    BY <1>1, <1>2, <2>1, <2>3
  <2> QED BY <2>2, <2>3
<1>4. tokens[h + 1].s # "::" /\ ~is_name(tokens[h + 1].s) /\ ~is_name("::")
  <2>1. ~is_name(Separator) /\ ~is_name("]") /\ ~is_name("(") /\ ~is_name("::")
    <3>1. Separator \in Opening \cup Closing \cup {Separator, ":", "::"}
          /\ "::" \in Opening \cup Closing \cup {Separator, ":", "::"}
          /\ "(" \in Opening \cup Closing \cup {Separator, ":", "::"}
          /\ "]" \in Opening \cup Closing \cup {Separator, ":", "::"}
      BY Lexemes
    <3> QED BY <3>1, Lexemes
  <2>2. "]" # "::" /\ "(" # "::"
    OBVIOUS
  <2> QED BY <1>3, <2>1, <2>2, Lexemes
<1>5. NameEnds(b) = h + 1 /\ ~is_name(tokens[b + 1].s)
  <2>1. CASE h = b
    <3>1. ~is(b + 1, "::")
      BY <1>4, <2>1 DEF is
    <3> QED BY <1>4, <2>1, <3>1 DEF NameEnds
  <2>2. CASE h = b + 2
    <3>1. b + 1 \in DOMAIN tokens /\ b + 2 \in DOMAIN tokens /\ tokens[b + 1].s = "::"
      <4>1. b + 1 \in 1 .. Len(tokens) /\ b + 2 \in 1 .. Len(tokens)
        BY <1>2, <2>2
      <4> QED BY <1>1, <1>2, <2>2, <4>1
    <3>2. is(b + 1, "::") /\ is_name(tokens[b + 2].s)
      BY <1>1, <2>2, <3>1 DEF is
    <3>3. NameEnds(b) = b + 3
      BY <3>1, <3>2 DEF NameEnds
    <3>4. b + 3 = h + 1
      <4>1. b + 3 = (b + 2) + 1
        BY <1>2
      <4> QED BY <2>2, <4>1
    <3> QED BY <1>4, <3>1, <3>3, <3>4
  <2> QED BY <1>1, <2>1, <2>2
<1>6. CASE h = e
  <2>1. ~is(h + 1, "(")
    <3>1. tokens[h + 1].s = Separator \/ tokens[h + 1].s = "]"
      BY <1>6 DEF is
    <3>2. tokens[h + 1].s # "("
      BY <3>1, Lexemes
    <3> QED BY <3>2 DEF is
  <2> QED BY <1>1, <1>5, <1>6, <2>1
<1>7. CASE h # e
  <2>1. tokens[h + 1].s = "(" /\ Bracketed(h + 1, e)
    BY <1>1, <1>7
  <2>2. is(h + 1, "(") /\ tokens[h + 1].s \in Opening
    BY <1>3, <2>1, Lexemes DEF is
  <2>3. matching_parenthesis(h + 1) = e
    BY <1>3, <2>1, <2>2, BracketsMatch
  <2> QED BY <1>1, <1>5, <2>2, <2>3
<1> QED BY <1>6, <1>7

\* What the scan sees at the beginning of a list that ends before a "]".
LEMMA ListHead ==
    ASSUME TokensInv, NEW b \in Nat, NEW e \in Nat, b \in DOMAIN tokens, b <= e,
           is(e + 1, "]"), IsList(b, e)
    PROVE  \/ is(b, Separator) /\ IsList(b + 1, e)
           \/ \E d \in b + 1 .. e + 1 :
                  /\ is_name(tokens[b].s) /\ ~is_name(tokens[b + 1].s)
                  /\ IF is(NameEnds(b), "(") THEN matching_parenthesis(NameEnds(b)) = d - 1
                     ELSE NameEnds(b) = d
                  /\ d = e + 1 \/ (is(d, Separator) /\ IsList(d + 1, e))
<1>1. CASE tokens[b].s = Separator /\ IsList(b + 1, e)
  BY <1>1 DEF is
<1>2. ASSUME NEW d \in b + 1 .. e + 1, IsAttribute(b, d - 1),
             d = e + 1 \/ (tokens[d].s = Separator /\ IsList(d + 1, e))
      PROVE  /\ is_name(tokens[b].s) /\ ~is_name(tokens[b + 1].s)
             /\ IF is(NameEnds(b), "(") THEN matching_parenthesis(NameEnds(b)) = d - 1
                ELSE NameEnds(b) = d
             /\ d = e + 1 \/ (is(d, Separator) /\ IsList(d + 1, e))
  <2>1. /\ d \in Nat /\ d - 1 \in Nat /\ (d - 1) + 1 = d /\ d <= e + 1 /\ 1 <= d
    BY <1>2
  <2>2. d \in DOMAIN tokens
    <3>1. Len(tokens) \in Nat /\ DOMAIN tokens = 1 .. Len(tokens) /\ e + 1 \in DOMAIN tokens
      BY TokenFacts DEF is
    <3>2. e + 1 <= Len(tokens)
      BY <3>1
    <3> QED BY <2>1, <3>1, <3>2
  <2>3. d = e + 1 \/ (is(d, Separator) /\ IsList(d + 1, e))
    BY <1>2, <2>2 DEF is
  <2>4. is((d - 1) + 1, Separator) \/ is((d - 1) + 1, "]")
    <3>1. is(d, Separator) \/ is(d, "]")
      BY <2>3
    <3> QED BY <2>1, <3>1
  <2>5. /\ is_name(tokens[b].s) /\ ~is_name(tokens[b + 1].s)
        /\ IF is(NameEnds(b), "(") THEN matching_parenthesis(NameEnds(b)) = d - 1
           ELSE NameEnds(b) = (d - 1) + 1
    BY <1>2, <2>1, <2>4, AttributeIs
  <2> QED BY <2>1, <2>3, <2>5
<1>3. CASE ~(tokens[b].s = Separator /\ IsList(b + 1, e))
  <2>1. PICK d \in b + 1 .. e + 1 :
            IsAttribute(b, d - 1) /\ (d = e + 1 \/ (tokens[d].s = Separator /\ IsList(d + 1, e)))
    BY <1>3, ListBegins
  <2> QED BY <1>2, <2>1
<1> QED BY <1>1, <1>3

-----------------------------------------------------------------------------
(* The rest of a group that parse_group still has to read, from k on.      *)

Ends(e) == e \in Nat /\ e - 2 \in Nat /\ is(e - 1, "]") /\ is(e, "]")
Rest(k, e) ==
    \/ k = e - 1
    \/ k <= e - 2 /\ (IsList(k, e - 2) \/ (is(k, Separator) /\ IsList(k + 1, e - 2)))

LEMMA WithinTokens ==
    ASSUME TokensInv, NEW k \in Nat \ {0}, NEW e, Ends(e), Rest(k, e)
    PROVE  k \in DOMAIN tokens /\ k <= e - 1 /\ e \in Nat /\ e - 2 \in Nat
<1>1. Len(tokens) \in Nat /\ DOMAIN tokens = 1 .. Len(tokens)
  BY TokenFacts
<1>2. e \in Nat /\ e - 2 \in Nat /\ e \in 1 .. Len(tokens)
  BY <1>1 DEF Ends, is
<1>3. k <= e - 1
  BY <1>2 DEF Rest
<1> QED BY <1>1, <1>2, <1>3

\* The same, at a token of the list.
LEMMA RestHead ==
    ASSUME TokensInv, NEW k \in Nat \ {0}, NEW e, Ends(e), Rest(k, e)
    PROVE  \/ k = e - 1 /\ is(k, "]") /\ is(k + 1, "]")
           \/ is(k, Separator) /\ Rest(k + 1, e)
           \/ \E d \in Nat :
                  /\ is_name(tokens[k].s) /\ ~is_name(tokens[k + 1].s)
                  /\ k < d /\ Rest(d, e)
                  /\ IF is(NameEnds(k), "(") THEN matching_parenthesis(NameEnds(k)) = d - 1
                     ELSE NameEnds(k) = d
<1>1. k \in DOMAIN tokens /\ k <= e - 1 /\ e \in Nat /\ e - 2 \in Nat
  BY WithinTokens
<1>2. CASE k = e - 1
  <2>1. k + 1 = e
    BY <1>1, <1>2
  <2> QED BY <1>2, <2>1 DEF Ends
<1>3. ASSUME k <= e - 2, is(k, Separator), IsList(k + 1, e - 2)
      PROVE  is(k, Separator) /\ Rest(k + 1, e)
  <2>1. k + 1 = e - 1 \/ k + 1 <= e - 2
    BY <1>1, <1>3
  <2> QED BY <1>3, <2>1 DEF Rest
<1>4. CASE k <= e - 2 /\ IsList(k, e - 2)
  <2>1. (e - 2) + 1 = e - 1
    BY <1>1
  <2>2. is((e - 2) + 1, "]")
    BY <2>1 DEF Ends
  <2>3. \/ is(k, Separator) /\ IsList(k + 1, e - 2)
        \/ \E d \in k + 1 .. (e - 2) + 1 :
               /\ is_name(tokens[k].s) /\ ~is_name(tokens[k + 1].s)
               /\ IF is(NameEnds(k), "(") THEN matching_parenthesis(NameEnds(k)) = d - 1
                  ELSE NameEnds(k) = d
               /\ d = (e - 2) + 1 \/ (is(d, Separator) /\ IsList(d + 1, e - 2))
    BY <1>1, <1>4, <2>2, ListHead
  <2>4. ASSUME NEW d \in k + 1 .. (e - 2) + 1,
               d = (e - 2) + 1 \/ (is(d, Separator) /\ IsList(d + 1, e - 2))
        PROVE  d \in Nat /\ k < d /\ Rest(d, e)
    <3>1. d \in Nat /\ k < d /\ d <= e - 1 /\ (d = e - 1 \/ d <= e - 2)
      BY <1>1
    <3> QED BY <2>1, <2>4, <3>1 DEF Rest
  <2> QED BY <1>3, <1>4, <2>3, <2>4
<1> QED BY <1>2, <1>3, <1>4 DEF Rest

LEMMA GroupBegins ==
    ASSUME TokensInv, NEW b \in DOMAIN tokens, NEW e \in DOMAIN tokens, IsGroup(b, e)
    PROVE  /\ Ends(e) /\ b + 2 <= e - 1 /\ is(b, "[") /\ is(b + 1, "[")
           /\ Rest(IF is(b + 2, "using") /\ is(b + 4, ":") /\ is_name(tokens[b + 3].s)
                   THEN b + 5 ELSE b + 2, e)
<1> DEFINE prefixed == is(b + 2, "using") /\ is(b + 4, ":") /\ is_name(tokens[b + 3].s)
<1>1. Len(tokens) \in Nat /\ DOMAIN tokens = 1 .. Len(tokens) /\ b \in 1 .. Len(tokens)
      /\ e \in 1 .. Len(tokens)
  BY TokenFacts
<1>2. is(b, "[") /\ is(b + 1, "[") /\ is(e - 1, "]") /\ is(e, "]") /\ b + 2 < e
  BY DEF IsGroup
<1>3. e \in Nat /\ b \in Nat /\ e - 2 \in Nat /\ b + 2 <= e - 1 /\ b + 2 \in Nat \ {0}
      /\ (b + 2) + 1 = b + 3
  BY <1>1, <1>2
<1>4. Ends(e)
  BY <1>2, <1>3 DEF Ends
<1>5. ASSUME IsList(b + 2, e - 2) PROVE Rest(b + 2, e) /\ ~prefixed
  <2>1. b + 2 = e - 1 \/ b + 2 <= e - 2
    BY <1>3
  <2>2. Rest(b + 2, e)
    BY <1>5, <2>1 DEF Rest
  <2>3. \/ is(b + 2, "]")
        \/ is(b + 2, Separator)
        \/ ~is_name(tokens[b + 3].s)
    BY <1>3, <1>4, <2>2, RestHead
  <2>4. "using" # "]" /\ "using" # Separator
    <3>1. "]" \in Opening \cup Closing \cup {Separator, ":", "::"}
          /\ Separator \in Opening \cup Closing \cup {Separator, ":", "::"}
      BY Lexemes
    <3> QED BY <3>1, Lexemes
  <2> QED BY <2>2, <2>3, <2>4 DEF is
<1>6. ASSUME /\ is(b + 2, "using") /\ b + 4 <= e - 2 /\ is_name(tokens[b + 3].s)
             /\ is(b + 4, ":") /\ IsList(b + 5, e - 2)
      PROVE  prefixed /\ Rest(b + 5, e)
  <2>1. b + 5 = e - 1 \/ b + 5 <= e - 2
    BY <1>3, <1>6
  <2> QED BY <1>6, <2>1 DEF Rest
<1>7. \/ IsList(b + 2, e - 2)
      \/ /\ is(b + 2, "using") /\ b + 4 <= e - 2 /\ is_name(tokens[b + 3].s)
         /\ is(b + 4, ":") /\ IsList(b + 5, e - 2)
  BY DEF IsGroup
<1> QED BY <1>2, <1>3, <1>4, <1>5, <1>6, <1>7

-----------------------------------------------------------------------------
(* What is said of the tokens stays true: no step changes them.            *)

LEMMA SamePieces ==
    ASSUME UNCHANGED tokens, NEW b, NEW e
    PROVE  /\ Partner(b, e)' = Partner(b, e)
           /\ Bracketed(b, e)' <=> Bracketed(b, e)
           /\ IsAttribute(b, e)' <=> IsAttribute(b, e)
<1>1. ASSUME NEW x, NEW y, NEW S PROVE Count(x, y, S)' = Count(x, y, S)
  BY DEF Count
<1>2. ASSUME NEW x, NEW y PROVE Partner(x, y)' = Partner(x, y)
  BY <1>1 DEF Partner
<1>3. ASSUME NEW x, NEW y PROVE Bracketed(x, y)' <=> Bracketed(x, y)
  BY <1>2 DEF Bracketed
<1>4. IsAttribute(b, e)' <=> IsAttribute(b, e)
  BY <1>3 DEF IsAttribute
<1> QED BY <1>2, <1>3, <1>4

LEMMA SameLists ==
    ASSUME UNCHANGED tokens, NEW b, NEW e
    PROVE  /\ IsList(b, e)' <=> IsList(b, e)
           /\ IsGroup(b, e)' <=> IsGroup(b, e)
           /\ Ends(e)' <=> Ends(e)
           /\ Rest(b, e)' <=> Rest(b, e)
<1>1. ASSUME NEW x, NEW y PROVE IsList(x, y)' <=> IsList(x, y)
  BY SamePieces DEF IsList
<1>2. ASSUME NEW x, NEW y PROVE is(x, y)' <=> is(x, y)
  BY DEF is
<1> QED BY <1>1, <1>2 DEF IsGroup, Ends, Rest

-----------------------------------------------------------------------------
(* The invariant of the scan.                                              *)

Text == STRING \cup {""}
Attr == [scope : Text, name : STRING, has_arguments : BOOLEAN,
         arguments_begin : Nat, arguments_end : Nat]
Group == [begin : Nat, end : Nat, attributes : Seq(Attr)]

\* The first token the scan is not done with.
Reached == IF pc = "group" THEN position ELSE i

ScanTypes ==
    /\ i \in Nat \ {0} /\ pc \in {"scan", "group", "done"} /\ position \in Nat
    /\ default_scope \in Text /\ attributes \in Seq(Attr) /\ groups \in Seq(Group)
    /\ pc = "group" => position \in DOMAIN tokens /\ position + 1 \in DOMAIN tokens /\ position + 2 <= i
    /\ pc = "done" => i >= Len(tokens)

Inside(as, lo, hi) ==
    \A n \in DOMAIN as :
        as[n].has_arguments => lo < as[n].arguments_begin /\ as[n].arguments_end < hi

\* Every group ends at a token the scan has passed.
GroupsBehind ==
    \A k \in DOMAIN groups :
        /\ \E p, q \in DOMAIN tokens :
               p <= q /\ q < Reached /\ groups[k].begin = tokens[p].begin /\ groups[k].end = tokens[q].end
        /\ Inside(groups[k].attributes, groups[k].begin, groups[k].end)

GroupsApart == \A k \in 1 .. Len(groups) - 1 : groups[k].end <= groups[k + 1].begin

\* The arguments parse_group has passed stand between the beginning of its
\* group and i.
ArgumentsBehind ==
    pc = "group" =>
        \A n \in DOMAIN attributes : attributes[n].has_arguments =>
            /\ tokens[position].begin < attributes[n].arguments_begin
            /\ \E q \in DOMAIN tokens : q < i /\ attributes[n].arguments_end = tokens[q].begin

FoundIn(gs, b, e) ==
    \E k \in DOMAIN gs :
        \/ gs[k].begin = tokens[b].begin /\ gs[k].end = tokens[e].end
        \/ gs[k].begin < tokens[b].begin /\ tokens[b].begin < gs[k].end

FoundSoFar ==
    \A b, e \in DOMAIN tokens : IsGroup(b, e) /\ b < Reached => FoundIn(groups, b, e)

\* Where the grammar has a group, parse_group stands at the rest of its list.
InList ==
    \A p, e \in DOMAIN tokens, k \in Nat \ {0} :
        pc = "group" /\ p = position /\ k = i /\ IsGroup(p, e) => Rest(k, e)

ScanInv ==
    /\ TokensInv /\ ScanTypes /\ GroupsBehind /\ GroupsApart /\ ArgumentsBehind
    /\ FoundSoFar /\ InList

LEMMA ReachedIs ==
    ASSUME ScanTypes
    PROVE  Reached \in Nat /\ (pc = "group" => Reached = position) /\ (pc # "group" => Reached = i)
BY DEF ScanTypes, Reached

\* A step that finds no group, and passes none that begins.
LEMMA NoNewGroup ==
    ASSUME ScanInv, UNCHANGED <<tokens, groups>>, Reached' \in Nat, Reached <= Reached',
           \A b, e \in DOMAIN tokens : IsGroup(b, e) /\ Reached <= b => ~(b < Reached')
    PROVE  TokensInv' /\ GroupsBehind' /\ GroupsApart' /\ FoundSoFar'
<1> DEFINE r == Reached
           s == Reached'
<1>1. r \in Nat /\ s \in Nat /\ r <= s /\ \A k \in DOMAIN tokens : k \in Nat
  BY ReachedIs, TokenFacts DEF ScanInv
<1>2. TokensInv' /\ GroupsApart'
  BY DEF ScanInv, TokensInv, InRow, GroupsApart
<1>3. GroupsBehind'
  <2> SUFFICES ASSUME NEW k \in DOMAIN groups
               PROVE  /\ \E p, q \in DOMAIN tokens :
                             /\ p <= q /\ q < s
                             /\ groups[k].begin = tokens[p].begin /\ groups[k].end = tokens[q].end
                      /\ Inside(groups[k].attributes, groups[k].begin, groups[k].end)
    BY DEF GroupsBehind, Inside
  <2> HIDE DEF r, s
  <2>1. /\ \E p, q \in DOMAIN tokens :
               /\ p <= q /\ q < r
               /\ groups[k].begin = tokens[p].begin /\ groups[k].end = tokens[q].end
        /\ Inside(groups[k].attributes, groups[k].begin, groups[k].end)
    BY DEF ScanInv, GroupsBehind, r
  <2>2. \A q \in DOMAIN tokens : q < r => q < s
    BY <1>1
  <2> QED BY <2>1, <2>2
<1>4. FoundSoFar'
  <2> SUFFICES ASSUME NEW b \in DOMAIN tokens, NEW e \in DOMAIN tokens, IsGroup(b, e)', b < s
               PROVE  FoundIn(groups, b, e)
    BY DEF FoundSoFar, FoundIn
  <2>1. IsGroup(b, e)
    BY SameLists
  <2>2. ~(r <= b)
    BY <2>1
  <2> HIDE DEF r, s
  <2>3. b < r
    BY <1>1, <2>2
  <2> QED BY <2>1, <2>3 DEF ScanInv, FoundSoFar, r
<1> QED BY <1>2, <1>3, <1>4

\* parse_group where the grammar has a group: what it reads next.
LEMMA AtTheRest ==
    ASSUME ScanInv, pc = "group", NEW e \in DOMAIN tokens, IsGroup(position, e)
    PROVE  /\ Ends(e) /\ Rest(i, e) /\ i \in DOMAIN tokens
           /\ \/ i = e - 1 /\ is(i, "]") /\ is(i + 1, "]")
              \/ is(i, Separator) /\ Rest(i + 1, e)
              \/ \E d \in Nat :
                     /\ is_name(tokens[i].s) /\ ~is_name(tokens[i + 1].s)
                     /\ i < d /\ Rest(d, e)
                     /\ IF is(NameEnds(i), "(") THEN matching_parenthesis(NameEnds(i)) = d - 1
                        ELSE NameEnds(i) = d
<1>1. TokensInv /\ i \in Nat \ {0} /\ position \in DOMAIN tokens
  BY DEF ScanInv, ScanTypes
<1>2. Ends(e)
  BY <1>1, GroupBegins
<1>3. Rest(i, e)
  BY <1>1 DEF ScanInv, InList
<1>4. i \in DOMAIN tokens
  BY <1>1, <1>2, <1>3, WithinTokens
<1> QED BY <1>1, <1>2, <1>3, <1>4, RestHead

-----------------------------------------------------------------------------
(* The steps.                                                              *)

LEMMA SkipTokenKeeps == ASSUME ScanInv, SkipToken PROVE ScanInv'
<1>1. /\ pc = "scan" /\ i < Len(tokens) /\ ~(is(i, "[") /\ is(i + 1, "[")) /\ i' = i + 1
      /\ UNCHANGED <<input, tokens, pc, position, default_scope, attributes, groups>>
  BY DEF SkipToken
<1>2. ScanTypes' /\ ArgumentsBehind' /\ InList'
  BY <1>1 DEF ScanInv, ScanTypes, ArgumentsBehind, InList
<1>3. i \in Nat \ {0} /\ Reached = i /\ Reached' = i + 1
  BY <1>1 DEF ScanInv, ScanTypes, Reached
<1>4. \A b, e \in DOMAIN tokens : IsGroup(b, e) /\ Reached <= b => ~(b < Reached')
  <2> SUFFICES ASSUME NEW b \in DOMAIN tokens, NEW e \in DOMAIN tokens, IsGroup(b, e),
                      i <= b, b < i + 1
               PROVE  FALSE
    BY <1>3
  <2>1. b = i
    BY <1>3, TokenFacts DEF ScanInv
  <2> QED BY <1>1, <2>1 DEF IsGroup
<1>5. TokensInv' /\ GroupsBehind' /\ GroupsApart' /\ FoundSoFar'
  <2>1. Reached' \in Nat /\ Reached <= Reached'
    BY <1>3
  <2> QED BY <1>1, <1>4, <2>1, NoNewGroup
<1> QED BY <1>2, <1>5 DEF ScanInv

LEMMA FinishKeeps == ASSUME ScanInv, Finish PROVE ScanInv'
<1>1. /\ pc = "scan" /\ i >= Len(tokens) /\ pc' = "done"
      /\ UNCHANGED <<input, tokens, i, position, default_scope, attributes, groups>>
  BY DEF Finish
<1>2. ScanTypes' /\ ArgumentsBehind' /\ InList'
  BY <1>1 DEF ScanInv, ScanTypes, ArgumentsBehind, InList
<1>3. i \in Nat \ {0} /\ Reached = i /\ Reached' = i
  BY <1>1 DEF ScanInv, ScanTypes, Reached
<1>4. \A b, e \in DOMAIN tokens : IsGroup(b, e) /\ Reached <= b => ~(b < Reached')
  BY <1>3, TokenFacts DEF ScanInv
<1>5. TokensInv' /\ GroupsBehind' /\ GroupsApart' /\ FoundSoFar'
  BY <1>1, <1>3, <1>4, NoNewGroup
<1> QED BY <1>2, <1>5 DEF ScanInv

LEMMA OpenGroupKeeps == ASSUME ScanInv, OpenGroup PROVE ScanInv'
<1> DEFINE prefixed == is(i + 2, "using") /\ is(i + 4, ":") /\ is_name(tokens[i + 3].s)
           first == IF prefixed THEN i + 5 ELSE i + 2
<1>1. /\ pc = "scan" /\ is(i, "[") /\ is(i + 1, "[") /\ pc' = "group" /\ position' = i
      /\ attributes' = <<>> /\ i' = first
      /\ default_scope' = IF prefixed THEN tokens[i + 3].s ELSE ""
      /\ UNCHANGED <<input, tokens, groups>>
  BY DEF OpenGroup
<1>2. i \in Nat \ {0} /\ Reached = i /\ Reached' = i /\ first \in Nat \ {0} /\ i + 2 <= first
  <2>1. i \in Nat \ {0} /\ Reached = i /\ Reached' = i
    <3>1. i \in Nat \ {0} /\ Reached = i
      BY <1>1 DEF ScanInv, ScanTypes, Reached
    <3>2. Reached' = position'
      BY <1>1 DEF Reached
    <3> QED BY <1>1, <3>1, <3>2
  <2>2. first = i + 5 \/ first = i + 2
    OBVIOUS
  <2> HIDE DEF first
  <2> QED BY <2>1, <2>2
<1>3. ScanTypes'
  <2>1. i \in DOMAIN tokens /\ i + 1 \in DOMAIN tokens
    BY <1>1 DEF is
  <2>2. default_scope' \in Text
    <3>1. prefixed => i + 3 \in DOMAIN tokens
      <4>1. Len(tokens) \in Nat /\ DOMAIN tokens = 1 .. Len(tokens)
        BY TokenFacts DEF ScanInv
      <4>2. prefixed => i + 4 \in 1 .. Len(tokens)
        BY <4>1 DEF is
      <4> HIDE DEF prefixed
      <4> QED BY <1>2, <4>1, <4>2
    <3>2. prefixed => tokens[i + 3].s \in STRING
      BY <3>1, TokenFacts DEF ScanInv
    <3> HIDE DEF prefixed
    <3> QED BY <1>1, <3>2 DEF Text
  <2>3. attributes' \in Seq(Attr)
    <3>1. attributes' = <<>>
      BY <1>1
    <3> QED BY <3>1
  <2> HIDE DEF first
  <2> QED BY <1>1, <1>2, <2>1, <2>2, <2>3 DEF ScanInv, ScanTypes
<1>4. ArgumentsBehind'
  <2>1. DOMAIN attributes' = {}
    <3>1. attributes' = <<>>
      BY <1>1
    <3> QED BY <3>1
  <2> QED BY <2>1 DEF ArgumentsBehind
<1>5. InList'
  <2> SUFFICES ASSUME NEW p \in DOMAIN tokens, NEW e \in DOMAIN tokens, NEW k \in Nat \ {0},
                      p = i, k = first, IsGroup(p, e)'
               PROVE  Rest(k, e)'
    BY <1>1 DEF InList
  <2>1. IsGroup(p, e)
    BY <1>1, SameLists
  <2>2. Rest(first, e)
    BY <2>1, GroupBegins DEF ScanInv
  <2> QED BY <1>1, <2>2, SameLists
<1>6. \A b, e \in DOMAIN tokens : IsGroup(b, e) /\ Reached <= b => ~(b < Reached')
  BY <1>2, TokenFacts DEF ScanInv
<1>7. TokensInv' /\ GroupsBehind' /\ GroupsApart' /\ FoundSoFar'
  <2>1. Reached' \in Nat /\ Reached <= Reached' /\ UNCHANGED <<tokens, groups>>
    <3>1. UNCHANGED <<tokens, groups>>
      BY <1>1
    <3> HIDE DEF first
    <3> QED BY <1>2, <3>1
  <2> QED BY <1>6, <2>1, NoNewGroup
<1> QED BY <1>3, <1>4, <1>5, <1>7 DEF ScanInv

LEMMA CommaKeeps == ASSUME ScanInv, Comma PROVE ScanInv'
<1>1. /\ pc = "group" /\ is(i, Separator) /\ i' = i + 1
      /\ UNCHANGED <<input, tokens, pc, position, default_scope, attributes, groups>>
  BY DEF Comma
<1>2. /\ i \in Nat \ {0} /\ position \in DOMAIN tokens /\ position \in Nat
      /\ Reached = position /\ Reached' = position /\ i + 1 \in Nat \ {0}
  BY <1>1, TokenFacts DEF ScanInv, ScanTypes, Reached
<1>3. ScanTypes'
  BY <1>1, <1>2 DEF ScanInv, ScanTypes
<1>4. ArgumentsBehind'
  <2>1. \A q \in DOMAIN tokens : q < i => q < i + 1
    BY <1>2, TokenFacts DEF ScanInv
  <2> QED BY <1>1, <2>1 DEF ScanInv, ArgumentsBehind
<1>5. InList'
  <2> SUFFICES ASSUME NEW p \in DOMAIN tokens, NEW e \in DOMAIN tokens, NEW k \in Nat \ {0},
                      p = position, k = i + 1, IsGroup(p, e)'
               PROVE  Rest(k, e)'
    BY <1>1 DEF InList
  <2>1. IsGroup(position, e)
    BY <1>1, SameLists
  <2>2. is_name(tokens[i].s) \/ is(i, "]") \/ Rest(i + 1, e)
    BY <1>1, <2>1, AtTheRest
  <2>3. ~is_name(Separator) /\ Separator # "]"
    <3>1. Separator \in Opening \cup Closing \cup {Separator, ":", "::"}
      OBVIOUS
    <3> QED BY <3>1, Lexemes
  <2>4. Rest(i + 1, e)
    BY <1>1, <2>2, <2>3 DEF is
  <2> QED BY <1>1, <2>4, SameLists
<1>6. \A b, e \in DOMAIN tokens : IsGroup(b, e) /\ Reached <= b => ~(b < Reached')
  BY <1>2, TokenFacts DEF ScanInv
<1>7. TokensInv' /\ GroupsBehind' /\ GroupsApart' /\ FoundSoFar'
  BY <1>1, <1>2, <1>6, NoNewGroup
<1> QED BY <1>3, <1>4, <1>5, <1>7 DEF ScanInv

LEMMA GiveUpKeeps == ASSUME ScanInv, GiveUp PROVE ScanInv'
<1>1. /\ pc = "group" /\ ~(is(i, "]") /\ is(i + 1, "]")) /\ ~is(i, Separator)
      /\ Named => is(Behind, "(") /\ matching_parenthesis(Behind) = 0
      /\ i' = position + 1 /\ pc' = "scan"
      /\ UNCHANGED <<input, tokens, position, default_scope, attributes, groups>>
  BY DEF GiveUp
<1>2. /\ position \in DOMAIN tokens /\ position \in Nat /\ position + 1 \in Nat \ {0}
      /\ Reached = position /\ Reached' = position + 1
  <2>1. position \in DOMAIN tokens /\ position \in Nat /\ Reached = position
    BY <1>1 DEF ScanInv, ScanTypes, Reached
  <2>2. Reached' = i'
    BY <1>1 DEF Reached
  <2> QED BY <1>1, <2>1, <2>2
<1>3. ScanTypes' /\ ArgumentsBehind' /\ InList'
  BY <1>1, <1>2 DEF ScanInv, ScanTypes, ArgumentsBehind, InList
<1>4. ASSUME NEW e \in DOMAIN tokens, IsGroup(position, e) PROVE FALSE
  <2>1. PICK d \in Nat :
            /\ is_name(tokens[i].s) /\ i < d
            /\ IF is(NameEnds(i), "(") THEN matching_parenthesis(NameEnds(i)) = d - 1
               ELSE NameEnds(i) = d
    BY <1>1, <1>4, AtTheRest
  <2>2. i \in DOMAIN tokens /\ i \in Nat \ {0}
    BY <1>1, <1>4, AtTheRest DEF ScanInv, ScanTypes
  <2>3. Named /\ Behind = NameEnds(i)
    BY <2>1, <2>2 DEF Named, Behind, Scoped, NameEnds
  <2>4. d - 1 # 0
    BY <2>1, <2>2
  <2> QED BY <1>1, <2>1, <2>3, <2>4
<1>5. \A b, e \in DOMAIN tokens : IsGroup(b, e) /\ Reached <= b => ~(b < Reached')
  <2> SUFFICES ASSUME NEW b \in DOMAIN tokens, NEW e \in DOMAIN tokens, IsGroup(b, e),
                      position <= b, b < position + 1
               PROVE  FALSE
    BY <1>2
  <2>1. b = position
    BY <1>2, TokenFacts DEF ScanInv
  <2> QED BY <1>4, <2>1
<1>6. TokensInv' /\ GroupsBehind' /\ GroupsApart' /\ FoundSoFar'
  <2>1. Reached' \in Nat /\ Reached <= Reached' /\ UNCHANGED <<tokens, groups>>
    BY <1>1, <1>2
  <2> QED BY <1>5, <2>1, NoNewGroup
<1> QED BY <1>3, <1>6 DEF ScanInv

LEMMA AttributeKeeps == ASSUME ScanInv, Attribute PROVE ScanInv'
<1> DEFINE open == is(Behind, "(")
           close == matching_parenthesis(Behind)
           new == [scope |-> IF Scoped THEN tokens[i].s ELSE default_scope,
                   name |-> IF Scoped THEN tokens[i + 2].s ELSE tokens[i].s,
                   has_arguments |-> open,
                   arguments_begin |-> IF open THEN tokens[Behind].end ELSE 0,
                   arguments_end |-> IF open THEN tokens[close].begin ELSE 0]
           next == IF open THEN close + 1 ELSE Behind
<1>1. /\ pc = "group" /\ Named /\ (open => close # 0)
      /\ attributes' = Append(attributes, new) /\ i' = next
      /\ UNCHANGED <<input, tokens, pc, position, default_scope, groups>>
  BY DEF Attribute
<1>2. /\ Len(tokens) \in Nat /\ DOMAIN tokens = 1 .. Len(tokens)
      /\ \A k \in DOMAIN tokens :
             tokens[k].s \in STRING /\ tokens[k].begin \in Nat /\ tokens[k].end \in Nat
  BY TokenFacts DEF ScanInv
<1>3. /\ i \in Nat \ {0} /\ i \in DOMAIN tokens /\ position \in DOMAIN tokens /\ position + 2 <= i
      /\ default_scope \in Text /\ attributes \in Seq(Attr)
  BY <1>1 DEF ScanInv, ScanTypes, Named
<1>4. Behind \in Nat /\ i < Behind /\ Behind = NameEnds(i)
  <2>1. Behind = i + 3 \/ Behind = i + 1
    BY DEF Behind
  <2> QED BY <1>3, <2>1 DEF Behind, NameEnds, Scoped
<1>5. ASSUME open
      PROVE  Behind \in DOMAIN tokens /\ close \in DOMAIN tokens /\ Behind <= close
  <2>1. Behind \in DOMAIN tokens
    BY <1>5 DEF is
  <2>2. close \in {0} \cup (Behind .. Len(tokens))
    BY <2>1, MatchIsBehind DEF ScanInv
  <2> HIDE DEF open, close
  <2>3. close \in Behind .. Len(tokens)
    BY <1>1, <1>5, <2>2
  <2> QED BY <1>2, <2>1, <2>3
<1>6. next \in Nat \ {0} /\ i < next /\ (open => close < next)
  <2> HIDE DEF open, close
  <2> QED BY <1>2, <1>3, <1>4, <1>5
<1>7. new \in Attr
  <2>1. (IF Scoped THEN tokens[i].s ELSE default_scope) \in Text
    BY <1>2, <1>3 DEF Text
  <2>2. (IF Scoped THEN tokens[i + 2].s ELSE tokens[i].s) \in STRING
    BY <1>2, <1>3 DEF Scoped
  <2>3. open \in BOOLEAN
    BY DEF is
  <2>4. (IF open THEN tokens[Behind].end ELSE 0) \in Nat
        /\ (IF open THEN tokens[close].begin ELSE 0) \in Nat
    <3> HIDE DEF open, close
    <3> QED BY <1>2, <1>5
  <2> HIDE DEF open, close
  <2> QED BY <2>1, <2>2, <2>3, <2>4 DEF Attr
<1>8. /\ new.has_arguments = open
      /\ open => new.arguments_begin = tokens[Behind].end /\ new.arguments_end = tokens[close].begin
  <2> HIDE DEF open, close
  <2> QED OBVIOUS
<1> HIDE DEF new
<1>9. /\ attributes' \in Seq(Attr)
      /\ \A n \in DOMAIN attributes' :
             attributes'[n] = new \/ (n \in DOMAIN attributes /\ attributes'[n] = attributes[n])
  <2>1. Append(attributes, new) \in Seq(Attr)
        /\ \A n \in DOMAIN Append(attributes, new) :
               \/ Append(attributes, new)[n] = new
               \/ n \in DOMAIN attributes /\ Append(attributes, new)[n] = attributes[n]
    BY <1>3, <1>7
  <2> QED BY <1>1, <2>1
<1>10. ScanTypes'
  <2> HIDE DEF next, open, close
  <2>1. position + 2 <= next
    BY <1>2, <1>3, <1>6
  <2> QED BY <1>1, <1>6, <1>9, <2>1 DEF ScanInv, ScanTypes
<1>11. ArgumentsBehind'
  <2> SUFFICES ASSUME NEW n \in DOMAIN attributes', attributes'[n].has_arguments
               PROVE  /\ tokens[position].begin < attributes'[n].arguments_begin
                      /\ \E q \in DOMAIN tokens : q < next /\ attributes'[n].arguments_end = tokens[q].begin
    BY <1>1 DEF ArgumentsBehind
  <2>1. CASE n \in DOMAIN attributes /\ attributes'[n] = attributes[n]
    <3>1. /\ tokens[position].begin < attributes[n].arguments_begin
          /\ \E q \in DOMAIN tokens : q < i /\ attributes[n].arguments_end = tokens[q].begin
      BY <1>1, <2>1 DEF ScanInv, ArgumentsBehind
    <3> HIDE DEF next, open, close
    <3>2. \A q \in DOMAIN tokens : q < i => q < next
      BY <1>2, <1>3, <1>6
    <3> QED BY <2>1, <3>1, <3>2
  <2>2. CASE attributes'[n] = new
    <3> HIDE DEF next, open, close
    <3>1. open
      BY <1>8, <2>2
    <3>2. position < Behind /\ Behind \in DOMAIN tokens
      BY <1>2, <1>3, <1>4, <1>5, <3>1
    <3>3. /\ tokens[position].end <= tokens[Behind].begin
          /\ tokens[position].begin < tokens[position].end
          /\ tokens[Behind].begin < tokens[Behind].end
      BY <1>3, <3>2 DEF ScanInv, TokensInv, InRow
    <3>4. tokens[position].begin < tokens[Behind].end
      BY <1>2, <1>3, <3>2, <3>3
    <3> QED BY <1>5, <1>6, <1>8, <2>2, <3>1, <3>4
  <2> QED BY <1>9, <2>1, <2>2
<1>12. InList'
  <2> SUFFICES ASSUME NEW p \in DOMAIN tokens, NEW e \in DOMAIN tokens, NEW k \in Nat \ {0},
                      p = position, k = next, IsGroup(p, e)'
               PROVE  Rest(k, e)'
    BY <1>1 DEF InList
  <2>1. IsGroup(position, e)
    BY <1>1, SameLists
  <2>2. ~is(i, Separator) /\ ~is(i, "]")
    <3>1. Separator \in Opening \cup Closing \cup {Separator, ":", "::"}
          /\ "]" \in Opening \cup Closing \cup {Separator, ":", "::"}
      BY Lexemes
    <3>2. ~is_name(Separator) /\ ~is_name("]")
      BY <3>1, Lexemes
    <3> QED BY <1>1, <3>2 DEF is, Named
  <2>3. PICK d \in Nat :
            /\ Rest(d, e)
            /\ IF is(NameEnds(i), "(") THEN matching_parenthesis(NameEnds(i)) = d - 1
               ELSE NameEnds(i) = d
    BY <1>1, <2>1, <2>2, AtTheRest
  <2>4. IF open THEN close = d - 1 ELSE Behind = d
    BY <1>4, <2>3
  <2>5. next = d
    <3> HIDE DEF open, close
    <3> QED BY <2>4
  <2> QED BY <1>1, <2>3, <2>5, SameLists
<1>13. Reached = position /\ Reached' = position /\ position \in Nat
  BY <1>1, <1>2, <1>3 DEF Reached
<1>14. TokensInv' /\ GroupsBehind' /\ GroupsApart' /\ FoundSoFar'
  <2>1. \A b, e \in DOMAIN tokens : IsGroup(b, e) /\ Reached <= b => ~(b < Reached')
    BY <1>2, <1>13
  <2>2. Reached' \in Nat /\ Reached <= Reached' /\ UNCHANGED <<tokens, groups>>
    BY <1>1, <1>13
  <2> QED BY <2>1, <2>2, NoNewGroup
<1> QED BY <1>10, <1>11, <1>12, <1>14 DEF ScanInv

LEMMA CloseGroupKeeps == ASSUME ScanInv, CloseGroup PROVE ScanInv'
<1> DEFINE new == [begin |-> tokens[position].begin, end |-> tokens[i + 1].end,
                   attributes |-> attributes]
<1>1. /\ pc = "group" /\ is(i, "]") /\ is(i + 1, "]")
      /\ groups' = Append(groups, new) /\ i' = i + 2 /\ pc' = "scan"
      /\ UNCHANGED <<input, tokens, position, default_scope, attributes>>
  BY DEF CloseGroup
<1>2. /\ Len(tokens) \in Nat /\ DOMAIN tokens = 1 .. Len(tokens)
      /\ \A k \in DOMAIN tokens : tokens[k].begin \in Nat /\ tokens[k].end \in Nat
      /\ \A k \in DOMAIN tokens : tokens[k].begin < tokens[k].end
      /\ \A j, k \in DOMAIN tokens : j < k => tokens[j].end <= tokens[k].begin
  BY TokenFacts DEF ScanInv, TokensInv, InRow
<1>3. /\ i \in Nat \ {0} /\ i \in DOMAIN tokens /\ i + 1 \in DOMAIN tokens
      /\ position \in DOMAIN tokens /\ position + 2 <= i
      /\ attributes \in Seq(Attr) /\ groups \in Seq(Group)
  BY <1>1 DEF ScanInv, ScanTypes, is
<1>4. position \in Nat /\ Reached = position /\ Reached' = i + 2
  <2>1. Reached' = i'
    BY <1>1 DEF Reached
  <2> QED BY <1>1, <1>2, <1>3, <2>1 DEF Reached
<1>5. new \in Group
  BY <1>2, <1>3 DEF Group
<1>6. new.begin = tokens[position].begin /\ new.end = tokens[i + 1].end /\ new.attributes = attributes
  OBVIOUS
<1> HIDE DEF new
<1> DEFINE m == Len(groups)
           gs == Append(groups, new)
<1>7. /\ gs \in Seq(Group) /\ m \in Nat /\ DOMAIN groups = 1 .. m /\ DOMAIN gs = 1 .. m + 1
      /\ Len(gs) = m + 1 /\ gs[m + 1] = new /\ \A k \in 1 .. m : gs[k] = groups[k]
  BY <1>3, <1>5
<1>8. groups' = gs
  BY <1>1
<1> HIDE DEF gs, m
<1>9. ScanTypes'
  <2>1. i + 2 \in Nat \ {0}
    BY <1>3
  <2> QED BY <1>1, <1>7, <1>8, <2>1 DEF ScanInv, ScanTypes
<1>10. ArgumentsBehind' /\ InList' /\ TokensInv'
  BY <1>1 DEF ScanInv, ArgumentsBehind, InList, TokensInv, InRow
<1>11. ASSUME NEW k \in 1 .. m
       PROVE  \E p, q \in DOMAIN tokens :
                  /\ p <= q /\ q < position
                  /\ groups[k].begin = tokens[p].begin /\ groups[k].end = tokens[q].end
  <2>1. k \in DOMAIN groups
    BY <1>7
  <2> QED BY <1>4, <2>1 DEF ScanInv, GroupsBehind
<1>12. Inside(attributes, tokens[position].begin, tokens[i + 1].end)
  <2> SUFFICES ASSUME NEW n \in DOMAIN attributes, attributes[n].has_arguments
               PROVE  /\ tokens[position].begin < attributes[n].arguments_begin
                      /\ attributes[n].arguments_end < tokens[i + 1].end
    BY DEF Inside
  <2>1. PICK q \in DOMAIN tokens : q < i /\ attributes[n].arguments_end = tokens[q].begin
    BY <1>1 DEF ScanInv, ArgumentsBehind
  <2>2. q < i + 1
    BY <1>2, <1>3, <2>1
  <2>3. tokens[q].end <= tokens[i + 1].begin
    BY <1>2, <1>3, <2>2
  <2>4. tokens[q].begin < tokens[i + 1].end
    <3>1. /\ tokens[q].begin < tokens[q].end /\ tokens[i + 1].begin < tokens[i + 1].end
          /\ tokens[q].begin \in Nat /\ tokens[q].end \in Nat
          /\ tokens[i + 1].begin \in Nat /\ tokens[i + 1].end \in Nat
      BY <1>2, <1>3
    <3> QED BY <2>3, <3>1
  <2> QED BY <1>1, <2>1, <2>4 DEF ScanInv, ArgumentsBehind
<1>13. GroupsBehind'
  <2> SUFFICES ASSUME NEW k \in 1 .. m + 1
               PROVE  /\ \E p, q \in DOMAIN tokens :
                             /\ p <= q /\ q < i + 2
                             /\ gs[k].begin = tokens[p].begin /\ gs[k].end = tokens[q].end
                      /\ Inside(gs[k].attributes, gs[k].begin, gs[k].end)
    BY <1>1, <1>4, <1>7, <1>8 DEF GroupsBehind, Inside
  <2>1. CASE k = m + 1
    <3>1. position <= i + 1 /\ i + 1 < i + 2
      BY <1>3, <1>4
    <3> QED BY <1>3, <1>6, <1>7, <1>12, <2>1, <3>1
  <2>2. CASE k # m + 1
    <3>1. k \in 1 .. m /\ k \in DOMAIN groups /\ gs[k] = groups[k]
      BY <1>7, <2>2
    <3>2. Inside(groups[k].attributes, groups[k].begin, groups[k].end)
      BY <3>1 DEF ScanInv, GroupsBehind
    <3>3. \A q \in DOMAIN tokens : q < position => q < i + 2
      BY <1>2, <1>3, <1>4
    <3> QED BY <1>11, <3>1, <3>2, <3>3
  <2> QED BY <2>1, <2>2
<1>14. GroupsApart'
  <2> SUFFICES ASSUME NEW k \in 1 .. m PROVE gs[k].end <= gs[k + 1].begin
    <3>1. (m + 1) - 1 = m
      BY <1>7
    <3> QED BY <1>7, <1>8, <3>1 DEF GroupsApart
  <2>1. CASE k = m
    <3>1. PICK p, q \in DOMAIN tokens : q < position /\ groups[k].end = tokens[q].end
      BY <1>11
    <3>2. tokens[q].end <= tokens[position].begin
      BY <1>2, <1>3, <3>1
    <3> QED BY <1>6, <1>7, <2>1, <3>1, <3>2
  <2>2. CASE k # m
    <3>1. k \in 1 .. m - 1 /\ k + 1 \in 1 .. m
      BY <1>7, <2>2
    <3>2. groups[k].end <= groups[k + 1].begin
      BY <3>1 DEF ScanInv, GroupsApart, m
    <3> QED BY <1>7, <3>1, <3>2
  <2> QED BY <2>1, <2>2
<1>15. FoundSoFar'
  <2> SUFFICES ASSUME NEW b \in DOMAIN tokens, NEW e \in DOMAIN tokens, IsGroup(b, e)', b < i + 2
               PROVE  FoundIn(gs, b, e)
    BY <1>1, <1>4, <1>8 DEF FoundSoFar, FoundIn
  <2>1. IsGroup(b, e) /\ b \in Nat /\ e \in Nat
    BY <1>1, <1>2, SameLists
  <2>2. CASE b < position
    <3>1. FoundIn(groups, b, e)
      BY <1>4, <2>1, <2>2 DEF ScanInv, FoundSoFar
    <3>2. PICK k \in DOMAIN groups :
              \/ groups[k].begin = tokens[b].begin /\ groups[k].end = tokens[e].end
              \/ groups[k].begin < tokens[b].begin /\ tokens[b].begin < groups[k].end
      BY <3>1 DEF FoundIn
    <3>3. k \in 1 .. m /\ k \in DOMAIN gs /\ gs[k] = groups[k]
      BY <1>7
    <3> QED BY <3>2, <3>3 DEF FoundIn
  <2>3. CASE b = position
    <3>1. /\ Ends(e) /\ Rest(i, e)
          /\ i = e - 1 \/ is(i, Separator) \/ is_name(tokens[i].s)
      BY <1>1, <2>1, <2>3, AtTheRest
    <3>2. ~is(i, Separator) /\ ~is_name(tokens[i].s)
      <4>1. "]" \in Opening \cup Closing \cup {Separator, ":", "::"}
        BY Lexemes
      <4>2. ~is_name("]") /\ Separator # "]"
        BY <4>1, Lexemes
      <4> QED BY <1>1, <4>2 DEF is
    <3>3. e = i + 1
      BY <1>3, <2>1, <3>1, <3>2
    <3>4. m + 1 \in DOMAIN gs
      BY <1>7
    <3> QED BY <1>6, <1>7, <2>3, <3>3, <3>4 DEF FoundIn
  <2>4. CASE position < b
    <3>1. tokens[position].end <= tokens[b].begin /\ tokens[position].begin < tokens[position].end
      BY <1>2, <1>3, <2>4
    <3>2. tokens[position].begin < tokens[b].begin
      BY <1>2, <1>3, <3>1
    <3>3. tokens[b].begin < tokens[i + 1].end
      <4>1. CASE b = i + 1
        BY <1>2, <4>1
      <4>2. CASE b # i + 1
        <5>1. b < i + 1
          BY <1>3, <2>1, <4>2
        <5>2. tokens[b].end <= tokens[i + 1].begin /\ tokens[b].begin < tokens[b].end
              /\ tokens[i + 1].begin < tokens[i + 1].end
          BY <1>2, <1>3, <5>1
        <5>3. /\ tokens[b].begin \in Nat /\ tokens[b].end \in Nat
              /\ tokens[i + 1].begin \in Nat /\ tokens[i + 1].end \in Nat
          BY <1>2, <1>3
        <5> QED BY <5>2, <5>3
      <4> QED BY <4>1, <4>2
    <3>4. m + 1 \in DOMAIN gs
      BY <1>7
    <3> QED BY <1>6, <1>7, <3>2, <3>3, <3>4 DEF FoundIn
  <2> QED BY <1>4, <2>1, <2>2, <2>3, <2>4
<1> QED BY <1>9, <1>10, <1>13, <1>14, <1>15 DEF ScanInv

LEMMA NoStepKeeps == ASSUME ScanInv, UNCHANGED vars PROVE ScanInv'
<1>1. UNCHANGED <<input, tokens, i, pc, position, default_scope, attributes, groups>>
  BY DEF vars
<1>2. ScanTypes' /\ ArgumentsBehind'
  BY <1>1 DEF ScanInv, ScanTypes, ArgumentsBehind
<1>3. InList'
  <2> SUFFICES ASSUME NEW p \in DOMAIN tokens, NEW e \in DOMAIN tokens, NEW k \in Nat \ {0},
                      pc = "group", p = position, k = i, IsGroup(p, e)'
               PROVE  Rest(k, e)'
    BY <1>1 DEF InList
  <2>1. IsGroup(p, e)
    BY <1>1, SameLists
  <2>2. Rest(k, e)
    BY <2>1 DEF ScanInv, InList
  <2> QED BY <1>1, <2>2, SameLists
<1>4. Reached' = Reached /\ Reached \in Nat
  BY <1>1, ReachedIs DEF ScanInv, Reached
<1>5. \A b, e \in DOMAIN tokens : IsGroup(b, e) /\ Reached <= b => ~(b < Reached')
  BY <1>4, TokenFacts DEF ScanInv
<1>6. TokensInv' /\ GroupsBehind' /\ GroupsApart' /\ FoundSoFar'
  <2>1. Reached' \in Nat /\ Reached <= Reached' /\ UNCHANGED <<tokens, groups>>
    BY <1>1, <1>4
  <2> QED BY <1>5, <2>1, NoNewGroup
<1> QED BY <1>2, <1>3, <1>6 DEF ScanInv

LEMMA ScanBegins == Init => ScanInv
<1> SUFFICES ASSUME Init PROVE ScanInv
  OBVIOUS
<1>1. /\ tokens = Tokens(input.text) /\ input.text \in Seq(STRING) /\ i = 1 /\ pc = "scan"
      /\ position = 0 /\ default_scope = "" /\ attributes = <<>> /\ groups = <<>>
  BY ScanAssumption DEF Init, ScanAssumption
<1>2. TokensInv
  BY <1>1, TokensInRow DEF TokensInv
<1>3. ScanTypes
  <2>1. attributes \in Seq(Attr) /\ groups \in Seq(Group)
    <3>1. attributes = <<>> /\ groups = <<>>
      BY <1>1
    <3> QED BY <3>1
  <2>2. i \in Nat \ {0} /\ position \in Nat
    <3>1. i = 1 /\ position = 0
      BY <1>1
    <3> QED BY <3>1
  <2>3. default_scope \in Text
    BY <1>1 DEF Text
  <2>4. pc \in {"scan", "group", "done"} /\ pc # "group" /\ pc # "done"
    <3>1. pc = "scan"
      BY <1>1
    <3> QED BY <3>1
  <2> QED BY <2>1, <2>2, <2>3, <2>4 DEF ScanTypes
<1>4. DOMAIN groups = {} /\ 1 .. Len(groups) - 1 = {}
  <2>1. groups = <<>>
    BY <1>1
  <2> QED BY <2>1
<1>5. GroupsBehind /\ GroupsApart /\ ArgumentsBehind /\ InList
  BY <1>1, <1>4 DEF GroupsBehind, GroupsApart, ArgumentsBehind, InList
<1>6. FoundSoFar
  <2>1. Reached = 1
    BY <1>1 DEF Reached
  <2>2. \A b \in DOMAIN tokens : ~(b < 1)
    BY <1>2, TokenFacts
  <2> QED BY <2>1, <2>2 DEF FoundSoFar
<1> QED BY <1>2, <1>3, <1>5, <1>6 DEF ScanInv

LEMMA ScanKeeps == ScanInv /\ [Next]_vars => ScanInv'
BY SkipTokenKeeps, OpenGroupKeeps, FinishKeeps, CloseGroupKeeps, CommaKeeps, AttributeKeeps,
   GiveUpKeeps, NoStepKeeps DEF Next

LEMMA ScanSays == ScanInv => ScanExact
<1> SUFFICES ASSUME ScanInv PROVE ScanExact
  OBVIOUS
<1>1. /\ Len(tokens) \in Nat /\ DOMAIN tokens = 1 .. Len(tokens) /\ i \in Nat \ {0}
  BY TokenFacts DEF ScanInv, ScanTypes
<1>2. FindsEveryGroup
  <2> SUFFICES ASSUME pc = "done", NEW b \in DOMAIN tokens, NEW e \in DOMAIN tokens, IsGroup(b, e)
               PROVE  FoundIn(groups, b, e)
    BY DEF FindsEveryGroup, FoundIn
  <2>1. i >= Len(tokens) /\ Reached = i
    BY DEF ScanInv, ScanTypes, Reached
  <2>2. b < e
    BY <1>1 DEF IsGroup
  <2>3. b < Reached
    BY <1>1, <2>1, <2>2
  <2> QED BY <2>3 DEF ScanInv, FoundSoFar
<1>3. GroupsInOrder
  <2>1. ASSUME NEW k \in DOMAIN groups, NEW a \in ToSet(groups[k].attributes), a.has_arguments
        PROVE  groups[k].begin < a.arguments_begin /\ a.arguments_end < groups[k].end
    <3>1. PICK n \in DOMAIN groups[k].attributes : a = groups[k].attributes[n]
      BY DEF ToSet
    <3> QED BY <2>1, <3>1 DEF ScanInv, GroupsBehind, Inside
  <2> QED BY <2>1 DEF ScanInv, GroupsApart, GroupsInOrder
<1> QED BY <1>2, <1>3 DEF ScanExact

\* For every text: scan_attribute_groups returns the attribute lists of the
\* C++ grammar, but for those inside an argument of another, in the order of
\* the text, none overlapping another and every argument inside its group.
THEOREM ScanIsExact == Spec => []ScanExact
<1>1. Init => ScanInv
  BY ScanBegins
<1>2. ScanInv /\ [Next]_vars => ScanInv'
  BY ScanKeeps
<1>3. ScanInv => ScanExact
  BY ScanSays
<1> QED BY <1>1, <1>2, <1>3, PTL DEF Spec
=============================================================================
