--------------------------- MODULE BindText_proofs ---------------------------
(***************************************************************************)
(* What the text functions return, for texts of any characters and any     *)
(* length: the token search moves on, what find_closing_char returns       *)
(* closes, what find_key returns is the key, and a repair changes nothing  *)
(* outside the section.                                                    *)
(***************************************************************************)
EXTENDS BindText, SequenceTheorems, WellFoundedInduction, TLAPS

(* Induction from the end of a text.                                       *)
LEMMA DownwardInduction ==
    ASSUME NEW m \in Nat, NEW n \in Nat, NEW P,
           \A i \in m..n : (\A j \in i + 1..n : j \in P) => i \in P
    PROVE  m..n \subseteq P
<1> DEFINE B == {k \in Nat : n - k \in m..n /\ n - k \notin P}
           R == OpToRel(<, Nat)
<1> SUFFICES ASSUME NEW i \in m..n, i \notin P PROVE FALSE
  OBVIOUS
<1>1. n - i \in B
  BY n - (n - i) = i
<1>2. IsWellFoundedOn(R, Nat)
  BY NatLessThanWellFounded
<1>3. \A j, k \in Nat : j < k => <<j, k>> \in R
  BY DEF OpToRel
<1> HIDE DEF R
<1>4. PICK k \in B : \A j \in B : <<j, k>> \notin R
  BY <1>1, <1>2, WFMin
<1>5. k \in Nat /\ n - k \in m..n /\ n - k \notin P
  BY <1>4
<1>6. ASSUME NEW j \in n - k + 1..n PROVE j \in P
  <2>1. n - j \in Nat /\ n - (n - j) \in m..n /\ n - j < k /\ n - (n - j) = j
    BY <1>5, <1>6
  <2>2. n - j \notin B
    BY <1>3, <1>4, <1>5, <2>1
  <2> QED BY <2>1, <2>2
<1> QED BY <1>5, <1>6

(* A recursive function over positions, each value from those behind it.   *)
Backward(step, m, n, A) ==
    /\ step \in [[m..n -> A] -> [m..n -> A]]
    /\ \A f, g \in [m..n -> A] : \A i \in m..n :
         (\A j \in i + 1..n : f[j] = g[j]) => step[f][i] = step[g][i]

LEMMA BackwardExists ==
    ASSUME NEW m \in Nat, NEW n \in Nat, m <= n, NEW A, NEW a \in A,
           NEW step, Backward(step, m, n, A)
    PROVE  \E f \in [m..n -> A] : f = step[f]
<1> USE DEF Backward
<1> DEFINE P == {i \in m..n : \E f \in [m..n -> A] : \A j \in i..n : step[f][j] = f[j]}
<1>1. ASSUME NEW i \in m..n, \A j \in i + 1..n : j \in P PROVE i \in P
  <2>1. \E f \in [m..n -> A] : \A j \in i + 1..n : step[f][j] = f[j]
    <3>1. CASE i = n
      <4>1. [j \in m..n |-> a] \in [m..n -> A]
        OBVIOUS
      <4>2. i + 1..n = {}
        BY <3>1
      <4> QED BY <4>1, <4>2
    <3>2. CASE i < n
      <4>1. i + 1 \in P
        <5>1. i + 1 \in i + 1..n
          BY <3>2
        <5> HIDE DEF P
        <5> QED BY <1>1, <5>1
      <4> QED BY <4>1
    <3> QED BY <3>1, <3>2
  <2>2. PICK f \in [m..n -> A] : \A j \in i + 1..n : step[f][j] = f[j]
    BY <2>1
  <2>3. step[f] \in [m..n -> A]
    OBVIOUS
  <2>4. ASSUME NEW j \in i..n PROVE step[step[f]][j] = step[f][j]
    <3>1. j \in m..n /\ \A k \in j + 1..n : step[f][k] = f[k]
      BY <2>2
    <3> DEFINE g == step[f]
    <3>2. g \in [m..n -> A] /\ \A k \in j + 1..n : g[k] = f[k]
      BY <2>3, <3>1
    <3>3. step[g][j] = step[f][j]
      <4> HIDE DEF g
      <4> QED BY <3>1, <3>2, <2>2
    <3> QED BY <3>3
  <2> QED BY <2>3, <2>4
<1>2. m \in P
  <2> HIDE DEF P
  <2>1. m..n \subseteq P
    BY <1>1, DownwardInduction
  <2> QED BY <2>1
<1>3. PICK f \in [m..n -> A] : \A j \in m..n : step[f][j] = f[j]
  BY <1>2
<1> QED BY <1>3

----------------------------------------------------------------------------
(* Positions.                                                              *)
LEMMA FirstIsLeast ==
    ASSUME NEW P \in SUBSET Nat
    PROVE  IF P = {} THEN First(P) = 0 ELSE First(P) \in P /\ \A i \in P : First(P) <= i
<1> DEFINE R == OpToRel(<, Nat)
<1>1. IsWellFoundedOn(R, Nat)
  BY NatLessThanWellFounded
<1>2. \A i, j \in Nat : <<j, i>> \notin R => i <= j
  BY DEF OpToRel
<1> HIDE DEF R
<1>3. P # {} => \E i \in P : \A j \in P : <<j, i>> \notin R
  BY <1>1, WFMin
<1>4. P # {} => \E i \in P : \A j \in P : i <= j
  BY <1>2, <1>3
<1> QED BY <1>4 DEF First

LEMMA CommentEnds ==
    ASSUME NEW C, NEW s \in Seq(C), NEW i \in 1..Len(s)
    PROVE  EndOfComment(s, i) = 0 \/ EndOfComment(s, i) \in i..Len(s)
<1> DEFINE P == {j \in i..Len(s) : s[j] = "\n"}
           Q == {j \in i + 3..Len(s) : s[j - 1] = "*" /\ s[j] = "/"}
<1>1. P \in SUBSET Nat /\ Q \in SUBSET Nat /\ P \subseteq i..Len(s) /\ Q \subseteq i..Len(s)
  OBVIOUS
<1>2. EndOfComment(s, i) = IF LineComment(s, i) THEN First(P) ELSE First(Q)
  BY DEF EndOfComment
<1> HIDE DEF P, Q
<1>3. /\ First(P) = 0 \/ First(P) \in P
      /\ First(Q) = 0 \/ First(Q) \in Q
  BY <1>1, FirstIsLeast
<1>4. CASE LineComment(s, i)
  BY <1>1, <1>2, <1>3, <1>4
<1>5. CASE ~LineComment(s, i)
  BY <1>1, <1>2, <1>3, <1>5
<1> QED BY <1>4, <1>5

IsQuote(c) == c = "\""
IsBrace(c) == c = "}"

LEMMA StringEnds ==
    ASSUME NEW C, NEW s \in Seq(C), NEW i \in 1..Len(s)
    PROVE  \/ StringEnd(s, i) = 0
           \/ (StringEnd(s, i) \in i + 1..Len(s) /\ IsQuote(s[StringEnd(s, i)]))
<1> DEFINE P == {j \in i + 1..Len(s) : s[j] = "\""}
<1>1. i + 1..Len(s) \subseteq Nat
  OBVIOUS
<1>2. P \in SUBSET Nat
  BY <1>1
<1>3. First(P) = 0 \/ First(P) \in P
  <2> HIDE DEF P
  <2> QED BY <1>2, FirstIsLeast
<1> QED BY <1>3 DEF StringEnd, IsQuote

(* A space does not begin a comment.                                       *)
LEMMA SpaceIsNoComment ==
    ASSUME NEW C, NEW s \in Seq(C), NEW i \in 1..Len(s), s[i] \in Space
    PROVE  ~CommentStart(s, i)
<1>1. ASSUME NEW c, At(s, i, <<"/", c>>) PROVE FALSE
  <2>1. i + 1 <= Len(s) /\ SubSeq(s, i, i + 1) = <<"/", c>>
    BY <1>1 DEF At
  <2>2. \A j \in i..i + 1 : s[j] \in C
    BY <2>1
  <2>3. SubSeq(s, i, i + 1)[1] = s[i]
    <3>1. i \in Int /\ i + 1 \in Int /\ 1 \in 1..i + 1 - i + 1 /\ i + 1 - 1 = i
      OBVIOUS
    <3> QED BY <2>2, <3>1, SubSeqProperties
  <2>4. <<"/", c>>[1] = "/"
    OBVIOUS
  <2>5. s[i] = "/"
    BY <2>1, <2>3, <2>4
  <2> QED BY <2>5 DEF Space
<1>2. s[i] # "#"
  BY DEF Space
<1> QED BY <1>1, <1>2 DEF CommentStart, LineComment, BlockComment

----------------------------------------------------------------------------
(* find_next_token                                                         *)
TokenAt(s, f, i) ==
    CASE i > Len(s) -> 0
      [] i <= Len(s) /\ CommentStart(s, i) ->
            IF EndOfComment(s, i) = 0 THEN 0 ELSE f[EndOfComment(s, i) + 1]
      [] OTHER -> IF s[i] \in Space THEN f[i + 1] ELSE i

LEMMA TokenFromIsRecursive ==
    ASSUME NEW C, NEW s \in Seq(C)
    PROVE  \A i \in 1..Len(s) + 1 : TokenFrom(s)[i] = TokenAt(s, TokenFrom(s), i)
<1> DEFINE n == Len(s) + 1
           A == 0..n
           step == [f \in [1..n -> A] |-> [i \in 1..n |-> TokenAt(s, f, i)]]
           token == CHOOSE f : f = [i \in 1..n |-> TokenAt(s, f, i)]
<1>1. n \in Nat /\ 1 <= n /\ 0 \in A
  OBVIOUS
<1>2. ASSUME NEW f \in [1..n -> A], NEW i \in 1..n
      PROVE  /\ TokenAt(s, f, i) \in A
             /\ \A g \in [1..n -> A] :
                  (\A j \in i + 1..n : f[j] = g[j]) => TokenAt(s, f, i) = TokenAt(s, g, i)
  <2>1. CASE i > Len(s)
    BY <2>1 DEF TokenAt
  <2>2. CASE i <= Len(s) /\ CommentStart(s, i)
    <3>1. EndOfComment(s, i) # 0 => EndOfComment(s, i) + 1 \in i + 1..n
      BY <2>2, CommentEnds
    <3>2. i + 1..n \subseteq 1..n
      OBVIOUS
    <3>3. \A g : TokenAt(s, g, i)
                   = IF EndOfComment(s, i) = 0 THEN 0 ELSE g[EndOfComment(s, i) + 1]
      BY <2>2 DEF TokenAt
    <3> HIDE DEF n
    <3> QED BY <1>1, <3>1, <3>2, <3>3
  <2>3. CASE i <= Len(s) /\ ~CommentStart(s, i)
    <3>1. \A g : TokenAt(s, g, i) = IF s[i] \in Space THEN g[i + 1] ELSE i
      BY <2>3 DEF TokenAt
    <3>2. i + 1 \in i + 1..n /\ i + 1 \in 1..n /\ i \in A
      BY <2>3
    <3> QED BY <3>1, <3>2
  <2> QED BY <2>1, <2>2, <2>3
<1>3. Backward(step, 1, n, A)
  <2> HIDE DEF n, A
  <2> QED BY <1>2 DEF Backward
<1>4. \E f \in [1..n -> A] : f = step[f]
  <2> HIDE DEF n, A, step
  <2> QED BY <1>1, <1>3, BackwardExists
<1>5. token = [i \in 1..n |-> TokenAt(s, token, i)]
  BY <1>4
<1>6. TokenFrom(s) = token
  BY DEF TokenFrom, TokenAt
<1> HIDE DEF token
<1> QED BY <1>5, <1>6

LEMMA TokenFromMoves ==
    ASSUME NEW C, NEW s \in Seq(C)
    PROVE  \A i \in 1..Len(s) + 1 : TokenFrom(s)[i] = 0 \/ TokenFrom(s)[i] \in i..Len(s)
<1> DEFINE n == Len(s) + 1
           t(i) == TokenFrom(s)[i]
           P == {i \in 1..n : t(i) = 0 \/ t(i) \in i..Len(s)}
<1>1. ASSUME NEW i \in 1..n, \A j \in i + 1..n : j \in P PROVE i \in P
  <2>1. t(i) = TokenAt(s, TokenFrom(s), i)
    BY TokenFromIsRecursive
  <2>2. \A j \in i + 1..n : t(j) = 0 \/ t(j) \in i..Len(s)
    BY <1>1
  <2>3. CASE i > Len(s)
    BY <2>1, <2>3 DEF TokenAt
  <2>4. CASE i <= Len(s) /\ CommentStart(s, i)
    <3>1. EndOfComment(s, i) # 0 => EndOfComment(s, i) + 1 \in i + 1..n
      BY <2>4, CommentEnds
    <3>2. t(i) = IF EndOfComment(s, i) = 0 THEN 0 ELSE t(EndOfComment(s, i) + 1)
      BY <2>1, <2>4 DEF TokenAt
    <3> QED BY <2>2, <3>1, <3>2
  <2>5. CASE i <= Len(s) /\ ~CommentStart(s, i)
    <3>1. t(i) = IF s[i] \in Space THEN t(i + 1) ELSE i
      BY <2>1, <2>5 DEF TokenAt
    <3>2. i + 1 \in i + 1..n /\ i \in i..Len(s)
      BY <2>5
    <3> HIDE DEF t
    <3> QED BY <2>2, <3>1, <3>2
  <2> QED BY <2>3, <2>4, <2>5
<1>2. 1..n \subseteq P
  <2> HIDE DEF P
  <2>1. n \in Nat
    OBVIOUS
  <2> HIDE DEF n
  <2> QED BY <1>1, <2>1, DownwardInduction
<1> QED BY <1>2

----------------------------------------------------------------------------
(* find_closing_char: what closes a section or a bracket lies behind its    *)
(* beginning.                                                              *)
Is(c, d) == c = d

LEMMA EndOfIs ==
    ASSUME NEW s, NEW i, NEW closed
    PROVE  \/ EndOf(s, i, closed) \in {StringEnd(s, i), 0}
           \/ \E c \in Closer : EndOf(s, i, closed) = closed[c]
BY Zenon DEF EndOf, Closer

CloseAt(s, f, i, c) ==
    CASE i > Len(s) -> 0
      [] i <= Len(s) /\ CommentStart(s, i) ->
            IF EndOfComment(s, i) = 0 THEN 0 ELSE f[EndOfComment(s, i) + 1][c]
      [] i <= Len(s) /\ ~ CommentStart(s, i) /\ OpeningChar(s[i]) ->
            LET e == EndOf(s, i, f[i + 1])
            IN  IF e = 0 THEN 0 ELSE f[e + 1][c]
      [] OTHER -> IF Is(s[i], c) THEN i ELSE f[i + 1][c]

(* The same, with an inner section that cannot end before it began.        *)
CloseStep(s, f, i, c) ==
    CASE i > Len(s) -> 0
      [] i <= Len(s) /\ CommentStart(s, i) ->
            IF EndOfComment(s, i) = 0 THEN 0 ELSE f[EndOfComment(s, i) + 1][c]
      [] i <= Len(s) /\ ~ CommentStart(s, i) /\ OpeningChar(s[i]) ->
            LET e == EndOf(s, i, f[i + 1])
            IN  IF e \notin i..Len(s) THEN 0 ELSE f[e + 1][c]
      [] OTHER -> IF Is(s[i], c) THEN i ELSE f[i + 1][c]

Closes(s, f, i) ==
    \A c \in Closer : f[i][c] = 0 \/ (f[i][c] \in i..Len(s) /\ Is(s[f[i][c]], c))

Solves(s, f) ==
    \A i \in 1..Len(s) + 1 : \/ \A c \in Closer : f[i][c] = CloseAt(s, f, i, c)
                            \/ \A c \in Closer : f[i][c] = CloseStep(s, f, i, c)

LEMMA CloseRange ==
    ASSUME NEW C, NEW s \in Seq(C), NEW f, Solves(s, f)
    PROVE  \A i \in 1..Len(s) + 1 :
              /\ Closes(s, f, i)
              /\ \A c \in Closer : CloseAt(s, f, i, c) = CloseStep(s, f, i, c)
<1> DEFINE n == Len(s) + 1
           Good(i) == Closes(s, f, i) /\ \A c \in Closer : CloseAt(s, f, i, c) = CloseStep(s, f, i, c)
           P == {i \in 1..n : Good(i)}
<1>1. ASSUME NEW i \in 1..n, \A j \in i + 1..n : j \in P PROVE i \in P
  <2>0. \A j \in i + 1..n : \A c \in Closer :
           f[j][c] = 0 \/ (f[j][c] \in i + 1..Len(s) /\ Is(s[f[j][c]], c))
    <3> TAKE j \in i + 1..n
    <3>1. Closes(s, f, j)
      BY <1>1
    <3> QED BY <3>1 DEF Closes
  <2> SUFFICES ASSUME NEW c \in Closer
               PROVE  /\ CloseAt(s, f, i, c) = CloseStep(s, f, i, c)
                      /\ \/ CloseAt(s, f, i, c) = 0
                         \/ CloseAt(s, f, i, c) \in i..Len(s) /\ Is(s[CloseAt(s, f, i, c)], c)
    <3> DEFINE v(c) == CloseAt(s, f, i, c)
               w(c) == CloseStep(s, f, i, c)
    <3>1. \/ \A c \in Closer : f[i][c] = v(c)
          \/ \A c \in Closer : f[i][c] = w(c)
      BY DEF Solves
    <3>2. SUFFICES ASSUME \A c \in Closer :
                             v(c) = w(c) /\ (v(c) = 0 \/ (v(c) \in i..Len(s) /\ Is(s[v(c)], c)))
                   PROVE  i \in P
      OBVIOUS
    <3> HIDE DEF v, w
    <3>3. \A c \in Closer : f[i][c] = v(c)
      BY <3>1, <3>2
    <3>4. Closes(s, f, i)
      BY <3>2, <3>3 DEF Closes
    <3>5. \A c \in Closer : v(c) = w(c)
      BY <3>2
    <3> QED BY <3>4, <3>5 DEF v, w
  <2>2. \A j \in i + 1..n : f[j][c] = 0 \/ (f[j][c] \in i + 1..Len(s) /\ Is(s[f[j][c]], c))
    BY <2>0
  <2> DEFINE v == CloseAt(s, f, i, c)
  <2>3. CASE i > Len(s)
    BY <2>3 DEF CloseAt, CloseStep
  <2>4. CASE i <= Len(s) /\ CommentStart(s, i)
    <3>1. EndOfComment(s, i) # 0 => EndOfComment(s, i) + 1 \in i + 1..n
      BY <2>4, CommentEnds
    <3>2. /\ v = IF EndOfComment(s, i) = 0 THEN 0 ELSE f[EndOfComment(s, i) + 1][c]
          /\ CloseAt(s, f, i, c) = CloseStep(s, f, i, c)
      BY <2>4 DEF CloseAt, CloseStep
    <3> HIDE DEF v
    <3>3. v = 0 \/ (v \in i..Len(s) /\ Is(s[v], c))
      BY <2>2, <3>1, <3>2
    <3> QED BY <3>2, <3>3 DEF v
  <2>5. CASE i <= Len(s) /\ ~CommentStart(s, i) /\ OpeningChar(s[i])
    <3> DEFINE e == EndOf(s, i, f[i + 1])
    <3>1. e = 0 \/ e \in i + 1..Len(s)
      <4>1. i + 1 \in i + 1..n
        BY <2>5
      <4>2. StringEnd(s, i) = 0 \/ StringEnd(s, i) \in i + 1..Len(s)
        BY <2>5, StringEnds
      <4>3. \A d \in Closer : f[i + 1][d] = 0 \/ f[i + 1][d] \in i + 1..Len(s)
        BY <2>0, <4>1
      <4>4. \/ e \in {StringEnd(s, i), 0}
            \/ \E d \in Closer : e = f[i + 1][d]
        BY EndOfIs
      <4> HIDE DEF e
      <4> QED BY <4>2, <4>3, <4>4
    <3>2. /\ v = IF e = 0 THEN 0 ELSE f[e + 1][c]
          /\ CloseStep(s, f, i, c) = IF e \notin i..Len(s) THEN 0 ELSE f[e + 1][c]
      BY <2>5 DEF CloseAt, CloseStep
    <3> HIDE DEF e
    <3>3. e # 0 => e + 1 \in i + 1..n /\ e \in i..Len(s)
      BY <3>1
    <3>4. v = CloseStep(s, f, i, c)
      BY <3>2, <3>3
    <3> HIDE DEF v
    <3>5. v = 0 \/ (v \in i..Len(s) /\ Is(s[v], c))
      BY <2>2, <3>2, <3>3
    <3> QED BY <3>4, <3>5 DEF v
  <2>6. CASE i <= Len(s) /\ ~CommentStart(s, i) /\ ~OpeningChar(s[i])
    <3>1. /\ v = IF Is(s[i], c) THEN i ELSE f[i + 1][c]
          /\ CloseAt(s, f, i, c) = CloseStep(s, f, i, c)
      BY <2>6 DEF CloseAt, CloseStep
    <3>2. i + 1 \in i + 1..n /\ i \in i..Len(s)
      BY <2>6
    <3> HIDE DEF v
    <3>3. v = 0 \/ (v \in i..Len(s) /\ Is(s[v], c))
      BY <2>2, <3>1, <3>2
    <3> QED BY <3>1, <3>3 DEF v
  <2> QED BY <2>3, <2>4, <2>5, <2>6
<1>2. 1..n \subseteq P
  <2> HIDE DEF P
  <2>1. n \in Nat
    OBVIOUS
  <2> HIDE DEF n
  <2> QED BY <1>1, <2>1, DownwardInduction
<1> QED BY <1>2

LEMMA CloseIsRecursive ==
    ASSUME NEW C, NEW s \in Seq(C)
    PROVE  Solves(s, Close(s))
<1> DEFINE n == Len(s) + 1
           N == 0..n
           A == [Closer -> N]
           step == [f \in [1..n -> A] |-> [i \in 1..n |-> [c \in Closer |-> CloseStep(s, f, i, c)]]]
           close == CHOOSE f : f = [i \in 1..n |-> [c \in Closer |-> CloseAt(s, f, i, c)]]
<1>1. n \in Nat /\ 1 \in Nat /\ 1 <= n /\ 0 \in N
  OBVIOUS
<1>2. ASSUME NEW f \in [1..n -> A], NEW i \in 1..n, NEW c \in Closer
      PROVE  /\ CloseStep(s, f, i, c) \in N
             /\ \A g \in [1..n -> A] :
                  (\A j \in i + 1..n : f[j] = g[j]) => CloseStep(s, f, i, c) = CloseStep(s, g, i, c)
  <2>0. \A j \in 1..n : f[j][c] \in N
    <3> HIDE DEF n, N
    <3> QED BY <1>2
  <2>1. CASE i > Len(s)
    BY <2>1 DEF CloseStep
  <2>2. CASE i <= Len(s) /\ CommentStart(s, i)
    <3>1. EndOfComment(s, i) # 0 => EndOfComment(s, i) + 1 \in i + 1..n
      BY <2>2, CommentEnds
    <3>2. i + 1..n \subseteq 1..n
      OBVIOUS
    <3>3. \A g : CloseStep(s, g, i, c)
                   = IF EndOfComment(s, i) = 0 THEN 0 ELSE g[EndOfComment(s, i) + 1][c]
      BY <2>2 DEF CloseStep
    <3> HIDE DEF n, N
    <3> QED BY <1>1, <2>0, <3>1, <3>2, <3>3
  <2>3. CASE i <= Len(s) /\ ~CommentStart(s, i) /\ OpeningChar(s[i])
    <3> DEFINE e(g) == EndOf(s, i, g[i + 1])
    <3>1. \A g : CloseStep(s, g, i, c) = IF e(g) \notin i..Len(s) THEN 0 ELSE g[e(g) + 1][c]
      BY <2>3 DEF CloseStep
    <3>2. \A g : g[i + 1] = f[i + 1] => e(g) = e(f)
      OBVIOUS
    <3>3. i + 1 \in i + 1..n
      BY <2>3
    <3>4. \A k \in i..Len(s) : k + 1 \in i + 1..n /\ k + 1 \in 1..n
      OBVIOUS
    <3> HIDE DEF e, n, N
    <3>5. CloseStep(s, f, i, c) \in N
      BY <1>1, <2>0, <3>1, <3>4
    <3>6. ASSUME NEW g \in [1..n -> A], \A j \in i + 1..n : f[j] = g[j]
          PROVE  CloseStep(s, f, i, c) = CloseStep(s, g, i, c)
      <4>1. e(g) = e(f)
        BY <3>2, <3>3, <3>6
      <4> QED BY <3>1, <3>4, <3>6, <4>1
    <3> QED BY <3>5, <3>6
  <2>4. CASE i <= Len(s) /\ ~CommentStart(s, i) /\ ~OpeningChar(s[i])
    <3>1. \A g : CloseStep(s, g, i, c) = IF Is(s[i], c) THEN i ELSE g[i + 1][c]
      BY <2>4 DEF CloseStep
    <3>2. i + 1 \in i + 1..n /\ i + 1 \in 1..n /\ i \in N
      BY <2>4
    <3> HIDE DEF n, N
    <3> QED BY <2>0, <3>1, <3>2
  <2> QED BY <2>1, <2>2, <2>3, <2>4
<1>3. Backward(step, 1, n, A)
  <2> HIDE DEF n, N
  <2>1. ASSUME NEW f \in [1..n -> A] PROVE step[f] \in [1..n -> A]
    BY <1>2, <2>1
  <2>2. ASSUME NEW f \in [1..n -> A], NEW g \in [1..n -> A], NEW i \in 1..n,
               \A j \in i + 1..n : f[j] = g[j]
        PROVE  step[f][i] = step[g][i]
    <3>1. \A c \in Closer : CloseStep(s, f, i, c) = CloseStep(s, g, i, c)
      BY <1>2, <2>2
    <3> QED BY <3>1
  <2>3. step \in [[1..n -> A] -> [1..n -> A]]
    BY <2>1
  <2> HIDE DEF step, A
  <2> QED BY <2>2, <2>3 DEF Backward
<1>4. \E f \in [1..n -> A] : f = step[f]
  <2>1. [c \in Closer |-> 0] \in A
    BY <1>1
  <2> HIDE DEF n, A, step
  <2> QED BY <1>1, <1>3, <2>1, BackwardExists
<1>5. PICK f \in [1..n -> A] : f = [i \in 1..n |-> [c \in Closer |-> CloseStep(s, f, i, c)]]
  BY <1>4
<1>6. \A i \in 1..n : \A c \in Closer : CloseAt(s, f, i, c) = CloseStep(s, f, i, c)
  <2>1. \A i \in 1..n : \A c \in Closer : f[i][c] = CloseStep(s, f, i, c)
    <3> DEFINE w(i, c) == CloseStep(s, f, i, c)
    <3>1. f = [i \in 1..n |-> [c \in Closer |-> w(i, c)]]
      BY <1>5
    <3>2. \A i \in 1..n : \A c \in Closer : f[i][c] = w(i, c)
      <4> HIDE DEF n, w
      <4> QED BY <3>1
    <3> QED BY <3>2
  <2>2. Solves(s, f)
    BY <2>1 DEF Solves
  <2> QED BY <2>2, CloseRange
<1>7. f = [i \in 1..n |-> [c \in Closer |-> CloseAt(s, f, i, c)]]
  BY <1>5, <1>6
<1>8. close = [i \in 1..n |-> [c \in Closer |-> CloseAt(s, close, i, c)]]
  BY <1>7
<1>9. Close(s) = close
  BY DEF Close, CloseAt, Is
<1>10. \A i \in 1..n : \A c \in Closer : close[i][c] = CloseAt(s, close, i, c)
  <2> DEFINE w(i, c) == CloseAt(s, close, i, c)
  <2>1. close = [i \in 1..n |-> [c \in Closer |-> w(i, c)]]
    BY <1>8
  <2>2. \A i \in 1..n : \A c \in Closer : close[i][c] = w(i, c)
    <3> HIDE DEF n, close, w
    <3> QED BY <2>1
  <2> QED BY <2>2
<1> HIDE DEF close
<1> QED BY <1>9, <1>10 DEF Solves

(* What opens at a position ends behind it; a section with a brace, a      *)
(* string with a quote.                                                    *)
LEMMA ClosingCharCloses ==
    ASSUME NEW C, NEW s \in Seq(C), NEW i \in 1..Len(s), ClosingChar(s, i) # 0
    PROVE  /\ ClosingChar(s, i) \in i + 1..Len(s)
           /\ s[i] = "{" => IsBrace(s[ClosingChar(s, i)])
           /\ s[i] = "\"" => IsQuote(s[ClosingChar(s, i)])
<1>1. Closes(s, Close(s), i + 1)
  <2>1. i + 1 \in 1..Len(s) + 1
    OBVIOUS
  <2> QED BY <2>1, CloseRange, CloseIsRecursive
<1> DEFINE e == ClosingChar(s, i)
           b == Close(s)[i + 1]
<1>2. \/ e = StringEnd(s, i) /\ s[i] = "\""
      \/ \E c \in Closer : e = b[c] /\ s[i] # "\"" /\ (s[i] = "{" => c = "}")
  BY Zenon DEF ClosingChar, EndOf, Closer
<1>3. \A c \in Closer : b[c] = 0 \/ (b[c] \in i + 1..Len(s) /\ Is(s[b[c]], c))
  BY <1>1 DEF Closes
<1>4. StringEnd(s, i) = 0 \/ (StringEnd(s, i) \in i + 1..Len(s) /\ IsQuote(s[StringEnd(s, i)]))
  BY StringEnds
<1> HIDE DEF e, b
<1>5. e # 0
  BY DEF e
<1>6. CASE e = StringEnd(s, i) /\ s[i] = "\""
  <2>1. e \in i + 1..Len(s) /\ IsQuote(s[e])
    BY <1>4, <1>5, <1>6
  <2>2. s[i] # "{"
    BY <1>6, Zenon
  <2> QED BY <1>6, <2>1, <2>2, Zenon DEF e
<1>7. ASSUME NEW c \in Closer, e = b[c], s[i] # "\"", s[i] = "{" => c = "}"
      PROVE  e \in i + 1..Len(s) /\ (s[i] = "{" => IsBrace(s[e]))
  <2>1. e \in i + 1..Len(s) /\ Is(s[e], c)
    BY <1>3, <1>5, <1>7
  <2> QED BY <1>7, <2>1, Zenon DEF Is, IsBrace
<1>8. CASE \E c \in Closer : e = b[c] /\ s[i] # "\"" /\ (s[i] = "{" => c = "}")
  BY <1>7, <1>8, Zenon DEF e
<1> QED BY <1>2, <1>6, <1>8

LEMMA ClosesBehind ==
    ASSUME NEW C, NEW s \in Seq(C), NEW i \in 1..Len(s)
    PROVE  ClosingChar(s, i) = 0 \/ ClosingChar(s, i) \in i + 1..Len(s)
BY ClosingCharCloses, Zenon

----------------------------------------------------------------------------
(* Skipping a token moves on, or stays at a space.                         *)
LEMMA PastTokenMoves ==
    ASSUME NEW C, NEW s \in Seq(C), NEW i \in 1..Len(s)
    PROVE  \/ PastToken(s, i) = 0
           \/ PastToken(s, i) \in i + 1..Len(s) + 1
           \/ PastToken(s, i) = i /\ s[i] \in Space
<1> DEFINE n == Len(s) + 1
           after(e) == IF e = 0 THEN 0 ELSE e + 1
           P == {n} \cup {j \in i + 1..Len(s) : s[j] \in Delimiter \/ CommentStart(s, j)
                                                                  \/ OpeningChar(s[j])}
<1>0. PICK p : p = PastToken(s, i)
  OBVIOUS
<1>1. after(ClosingChar(s, i)) \in {0} \cup i + 1..n
  BY ClosesBehind
<1>2. after(EndOfComment(s, i)) \in {0} \cup i + 1..n
  BY CommentEnds
<1>3. First(P) \in i + 1..n
  <2>1. P \in SUBSET Nat /\ n \in P /\ P \subseteq i + 1..n
    OBVIOUS
  <2> HIDE DEF P
  <2> QED BY <2>1, FirstIsLeast
<1>4. i + 1 \in i + 1..n
  OBVIOUS
<1>5. \/ p = after(ClosingChar(s, i))
      \/ p = after(EndOfComment(s, i))
      \/ p = i /\ s[i] \in Space
      \/ p = i + 1
      \/ p = First(P)
  BY <1>0 DEF PastToken
<1> HIDE DEF after, P
<1> QED BY <1>0, <1>1, <1>2, <1>3, <1>4, <1>5

(* find_next_token moves on.                                               *)
LEMMA NextTokenMoves ==
    ASSUME NEW C, NEW s \in Seq(C), NEW i \in 1..Len(s)
    PROVE  NextToken(s, i) = 0 \/ NextToken(s, i) \in i + 1..Len(s)
<1> DEFINE past == PastToken(s, i)
           t(j) == TokenFrom(s)[j]
<1>1. NextToken(s, i) = IF past = 0 THEN 0 ELSE t(past)
  BY DEF NextToken
<1>2. \A j \in 1..Len(s) + 1 : t(j) = 0 \/ t(j) \in j..Len(s)
  BY TokenFromMoves
<1>3. CASE past = 0
  BY <1>1, <1>3
<1>4. CASE past \in i + 1..Len(s) + 1
  <2> HIDE DEF past, t
  <2> QED BY <1>1, <1>2, <1>4
<1>5. CASE past = i /\ s[i] \in Space
  <2>1. t(i) = t(i + 1)
    BY <1>5, SpaceIsNoComment, TokenFromIsRecursive DEF TokenAt
  <2>2. i + 1 \in 1..Len(s) + 1
    OBVIOUS
  <2> HIDE DEF past, t
  <2> QED BY <1>1, <1>2, <1>5, <2>1, <2>2
<1> QED BY <1>3, <1>4, <1>5, PastTokenMoves

(* In every text that is written, of any pieces and any length, the token  *)
(* search of find_next_token moves forward from every position: the loop   *)
(* of find_key ends.                                                       *)
THEOREM TokensAlwaysAdvance == Spec => []TokensAdvance
<1>1. Init => text \in Seq(STRING)
  BY BindTextAssumption DEF Init
<1>2. text \in Seq(STRING) /\ [Next]_vars => (text \in Seq(STRING))'
  <2> SUFFICES ASSUME text \in Seq(STRING), [Next]_vars PROVE text' \in Seq(STRING)
    OBVIOUS
  <2>1. ASSUME NEW p \in Piece, text' = text \o p PROVE text' \in Seq(STRING)
    BY <2>1, BindTextAssumption, ConcatProperties
  <2> QED BY <2>1 DEF Next, Write, vars
<1>3. text \in Seq(STRING) => TokensAdvance
  <2> SUFFICES ASSUME text \in Seq(STRING), NEW i \in 1..Len(text)
               PROVE  NextToken(text, i) = 0 \/ NextToken(text, i) > i
    BY DEF TokensAdvance
  <2>1. NextToken(text, i) = 0 \/ NextToken(text, i) \in i + 1..Len(text)
    BY NextTokenMoves
  <2> QED BY <2>1
<1> QED BY <1>1, <1>2, <1>3, PTL DEF Spec

----------------------------------------------------------------------------
(* find_key                                                                *)
KeyFollows(c) == c \in Space \cup {"{", ";"}

KeyAt(s, key, e, f, j) ==
    CASE j = 0 \/ j >= e -> 0
      [] j \in 1..e - 1 /\ s[j] = key /\ j + 1 < e /\ KeyFollows(s[j + 1]) -> j
      [] OTHER -> LET n == NextToken(s, j) IN IF n <= j THEN 0 ELSE f[n]

IsKeyAt(s, key, e, j) == j \in 1..e - 1 /\ s[j] = key /\ j + 1 < e /\ KeyFollows(s[j + 1])

LEMMA KeyAtCases ==
    ASSUME NEW C, NEW s \in Seq(C), NEW key, NEW e \in 0..Len(s) + 1, NEW f,
           NEW j \in 0..Len(s) + 1
    PROVE  KeyAt(s, key, e, f, j) = IF j = 0 \/ j >= e THEN 0
                                    ELSE IF IsKeyAt(s, key, e, j) THEN j
                                    ELSE IF NextToken(s, j) <= j THEN 0 ELSE f[NextToken(s, j)]
<1>0. PICK k : k = KeyAt(s, key, e, f, j)
  OBVIOUS
<1>1. CASE j = 0 \/ j >= e
  <2>1. ~IsKeyAt(s, key, e, j)
    BY <1>1 DEF IsKeyAt
  <2>2. k = 0
    BY <1>0, <1>1, <2>1 DEF KeyAt, IsKeyAt
  <2> QED BY <1>0, <1>1, <2>2
<1>2. CASE ~(j = 0 \/ j >= e) /\ IsKeyAt(s, key, e, j)
  <2>1. k = j
    BY <1>0, <1>2 DEF KeyAt, IsKeyAt
  <2> QED BY <1>0, <1>2, <2>1
<1>3. CASE ~(j = 0 \/ j >= e) /\ ~IsKeyAt(s, key, e, j)
  <2>1. k = IF NextToken(s, j) <= j THEN 0 ELSE f[NextToken(s, j)]
    BY <1>0, <1>3 DEF KeyAt, IsKeyAt
  <2> QED BY <1>0, <1>3, <2>1
<1> QED BY <1>1, <1>2, <1>3

LEMMA FindKeyFinds ==
    ASSUME NEW C, NEW s \in Seq(C), NEW key,
           NEW i \in 1..Len(s) + 1, NEW e \in 0..Len(s) + 1
    PROVE  \/ FindKey(s, key, i, e) = 0
           \/ FindKey(s, key, i, e) \in i..e - 1 /\ s[FindKey(s, key, i, e)] = key
<1> DEFINE n == Len(s) + 1
           A == 0..n
           step == [f \in [0..n -> A] |-> [j \in 0..n |-> KeyAt(s, key, e, f, j)]]
           from == CHOOSE f : f = [j \in 0..n |-> KeyAt(s, key, e, f, j)]
<1>1. n \in Nat /\ 0 <= n /\ 0 \in A /\ 0 \in Nat
  OBVIOUS
<1>2. ASSUME NEW j \in 1..e - 1
      PROVE  NextToken(s, j) > j => NextToken(s, j) \in j + 1..n /\ NextToken(s, j) \in 0..n
  <2>1. j \in 1..Len(s)
    OBVIOUS
  <2>2. NextToken(s, j) = 0 \/ NextToken(s, j) \in j + 1..Len(s)
    BY <2>1, NextTokenMoves
  <2> QED BY <2>2
<1>3. ASSUME NEW f \in [0..n -> A], NEW j \in 0..n
      PROVE  /\ KeyAt(s, key, e, f, j) \in A
             /\ \A g \in [0..n -> A] :
                  (\A k \in j + 1..n : f[k] = g[k]) => KeyAt(s, key, e, f, j) = KeyAt(s, key, e, g, j)
  <2>1. \A g : KeyAt(s, key, e, g, j) = IF j = 0 \/ j >= e THEN 0
                                        ELSE IF IsKeyAt(s, key, e, j) THEN j
                                        ELSE IF NextToken(s, j) <= j THEN 0 ELSE g[NextToken(s, j)]
    BY KeyAtCases
  <2>2. CASE j = 0 \/ j >= e \/ IsKeyAt(s, key, e, j) \/ NextToken(s, j) <= j
    BY <2>1, <2>2
  <2>3. CASE ~(j = 0 \/ j >= e \/ IsKeyAt(s, key, e, j) \/ NextToken(s, j) <= j)
    <3>1. NextToken(s, j) \in j + 1..n /\ NextToken(s, j) \in 0..n
      <4>1. j \in 1..e - 1
        BY <2>3
      <4>2. NextToken(s, j) = 0 \/ NextToken(s, j) \in j + 1..Len(s)
        BY <4>1, NextTokenMoves
      <4> QED BY <2>3, <4>2
    <3>2. \A g : KeyAt(s, key, e, g, j) = g[NextToken(s, j)]
      BY <2>1, <2>3
    <3> HIDE DEF n, A
    <3> QED BY <3>1, <3>2
  <2> QED BY <2>2, <2>3
<1>4. Backward(step, 0, n, A)
  <2> HIDE DEF n, A
  <2> QED BY <1>3 DEF Backward
<1>5. \E f \in [0..n -> A] : f = step[f]
  <2> HIDE DEF n, A, step
  <2> QED BY <1>1, <1>4, BackwardExists
<1>6. from = [j \in 0..n |-> KeyAt(s, key, e, from, j)]
  BY <1>5
<1>7. FindKey(s, key, i, e) = from[i]
  BY DEF FindKey, KeyAt, KeyFollows
<1> HIDE DEF from
<1> DEFINE Found(j) == from[j] = 0 \/ (from[j] \in j..e - 1 /\ s[from[j]] = key)
           P == {j \in 1..n : Found(j)}
<1>8. ASSUME NEW j \in 1..n, \A k \in j + 1..n : k \in P PROVE j \in P
  <2>1. from[j] = KeyAt(s, key, e, from, j)
    BY <1>6
  <2>2. from[j] = IF j = 0 \/ j >= e THEN 0
                  ELSE IF IsKeyAt(s, key, e, j) THEN j
                  ELSE IF NextToken(s, j) <= j THEN 0 ELSE from[NextToken(s, j)]
    BY <2>1, KeyAtCases
  <2>3. \A k \in j + 1..n : Found(k)
    BY <1>8
  <2>4. CASE j >= e
    BY <2>2, <2>4
  <2>5. CASE j < e /\ IsKeyAt(s, key, e, j)
    <3>1. from[j] = j /\ s[j] = key /\ j \in j..e - 1
      BY <2>2, <2>5 DEF IsKeyAt
    <3> QED BY <3>1
  <2>6. CASE j < e /\ ~IsKeyAt(s, key, e, j)
    <3> DEFINE t == NextToken(s, j)
    <3>1. t > j => t \in j + 1..n
      BY <1>2, <2>6
    <3>2. from[j] = IF t <= j THEN 0 ELSE from[t]
      BY <2>2, <2>6
    <3>3. t = 0 \/ t \in j + 1..n
      BY <2>6, NextTokenMoves
    <3> HIDE DEF t
    <3> QED BY <2>3, <3>2, <3>3
  <2> QED BY <2>4, <2>5, <2>6
<1>9. 1..n \subseteq P
  <2> HIDE DEF P, n
  <2> QED BY <1>1, <1>8, DownwardInduction
<1> QED BY <1>7, <1>9

----------------------------------------------------------------------------
(* The values and sections of find_val_bounds_of_key, change_val and       *)
(* add_keyval, and what a repair leaves alone.                             *)
Pair(v, e) == v.first \in 1..e /\ v.last \in v.first + 1..e

LEMMA TokenBehindKey ==
    ASSUME NEW C, NEW s \in Seq(C), NEW key,
           NEW i \in 1..Len(s) + 1, NEW e \in 0..Len(s) + 1
    PROVE  \/ NextToken(s, FindKey(s, key, i, e)) = 0
           \/ NextToken(s, FindKey(s, key, i, e)) \in i + 1..Len(s)
<1> DEFINE k == FindKey(s, key, i, e)
<1>1. k = 0 \/ k \in i..e - 1
  BY FindKeyFinds
<1>2. CASE k = 0
  BY <1>2 DEF NextToken
<1>3. CASE k \in i..e - 1
  <2>1. k \in 1..Len(s)
    BY <1>3
  <2> DEFINE t == NextToken(s, k)
  <2>2. t = 0 \/ t \in k + 1..Len(s)
    BY <2>1, NextTokenMoves
  <2>3. t = 0 \/ t \in i + 1..Len(s)
    <3> HIDE DEF k, t
    <3> QED BY <1>3, <2>2
  <2> QED BY <2>3
<1> QED BY <1>1, <1>2, <1>3

(* A value lies between the position the search began at and its end, and  *)
(* one with quotes ends with a quote.                                      *)
LEMMA ValBoundsInside ==
    ASSUME NEW C, NEW s \in Seq(C), NEW key,
           NEW i \in 1..Len(s) + 1, NEW e \in 0..Len(s),
           ValBounds(s, key, i, e) # NotFound
    PROVE  /\ ValBounds(s, key, i, e).first \in i + 1..Len(s)
           /\ Pair(ValBounds(s, key, i, e), e)
           /\ s[ValBounds(s, key, i, e).first] = "\"" => IsQuote(s[ValBounds(s, key, i, e).last])
<1> DEFINE t == NextToken(s, FindKey(s, key, i, e))
           c == ClosingChar(s, t)
           v == ValBounds(s, key, i, e)
<1>1. t = 0 \/ t \in i + 1..Len(s)
  BY TokenBehindKey
<1>2. t # 0 /\ c # 0 /\ ~(c > e)
  BY Zenon DEF ValBounds, Value
<1>10. v.first = t /\ v.last = c
  BY Zenon DEF ValBounds, Value
<1>3. t \in 1..Len(s) /\ t \in i + 1..Len(s)
  BY <1>1, <1>2
<1>5. c \in t + 1..Len(s)
  BY <1>2, <1>3, ClosingCharCloses, Zenon
<1>6. s[t] = "\"" => IsQuote(s[c])
  BY <1>2, <1>3, ClosingCharCloses, Zenon
<1> HIDE DEF t, c, v
<1>7. t \in 1..e /\ c \in t + 1..e
  BY <1>2, <1>3, <1>5
<1>8. v.first \in i + 1..Len(s) /\ Pair(v, e)
  BY <1>10, <1>3, <1>7 DEF Pair
<1>9. s[v.first] = "\"" => IsQuote(s[v.last])
  BY <1>10, <1>6, Zenon
<1> QED BY <1>8, <1>9, Zenon DEF v

(* The section of a repair begins before it ends, at a closing brace.      *)
LEMMA BracesInside ==
    ASSUME NEW C, NEW s \in Seq(C), Braces(s) # NotFound
    PROVE  Pair(Braces(s), Len(s)) /\ IsBrace(s[Braces(s).last])
<1> DEFINE t == NextToken(s, FindKey(s, Section, 1, Len(s) + 1))
           c == ClosingChar(s, t)
           b == Braces(s)
<1>1. t = 0 \/ t \in 1 + 1..Len(s)
  <2>1. 1 \in 1..Len(s) + 1 /\ Len(s) + 1 \in 0..Len(s) + 1
    OBVIOUS
  <2> QED BY <2>1, TokenBehindKey
<1>2. t # 0 /\ c # 0
  BY Zenon DEF Braces
<1>10. s[t] = "{" /\ b.first = t /\ b.last = c
  BY Zenon DEF Braces
<1>3. t \in 1..Len(s)
  BY <1>1, <1>2
<1>4. c \in t + 1..Len(s) /\ (s[t] = "{" => IsBrace(s[c]))
  BY <1>2, <1>3, ClosingCharCloses, Zenon
<1>5. IsBrace(s[c])
  BY <1>10, <1>4, Zenon
<1>6. b.first = t /\ b.last = c /\ c \in t + 1..Len(s)
  BY <1>10, <1>4, Zenon
<1> HIDE DEF t, c, b
<1>7. Pair(b, Len(s)) /\ IsBrace(s[b.last])
  BY <1>3, <1>5, <1>6 DEF Pair
<1> QED BY <1>7 DEF b

LEMMA QuoteIsNoBrace ==
    ASSUME NEW c, IsQuote(c)
    PROVE  ~IsBrace(c)
BY Zenon DEF IsQuote, IsBrace

(* Texts in a row.                                                         *)
Cat(p, q) == p \o q

LEMMA CatAssociative ==
    ASSUME NEW C, NEW p \in Seq(C), NEW k \in Seq(C), NEW w \in Seq(C)
    PROVE  Cat(Cat(p, k), w) = Cat(p, Cat(k, w)) /\ Cat(p, k) \in Seq(C)
<1>1. Cat(Cat(p, k), w) = Cat(p, Cat(k, w))
  BY ConcatAssociative DEF Cat
<1>2. Cat(p, k) \in Seq(C)
  BY ConcatProperties DEF Cat
<1> QED BY <1>1, <1>2

LEMMA FourInARow ==
    ASSUME NEW C, NEW p \in Seq(C), NEW k \in Seq(C), NEW w \in Seq(C), NEW m \in Seq(C)
    PROVE  /\ Cat(Cat(Cat(p, k), w), m) = Cat(p, Cat(Cat(k, w), m))
           /\ Cat(Cat(k, w), m) \in Seq(C)
BY CatAssociative

(* What the repairs write.                                                 *)
Chars == {"\"", "n", "\n", "p", " ", ";"}
Before == <<"\n", Key, " ">>
Behind == <<";", "\n">>

LEMMA Short ==
    ASSUME NEW C, NEW x \in C, NEW y \in C, NEW z \in C
    PROVE  <<x, y>> \in Seq(C) /\ <<x, y, z>> \in Seq(C)
OBVIOUS

LEMMA Written ==
    ASSUME NEW C, Chars \subseteq C
    PROVE  Val \in Seq(C) /\ Before \in Seq(C) /\ Behind \in Seq(C)
<1>1. "\"" \in C /\ "n" \in C /\ "\n" \in C /\ Key \in C /\ " " \in C /\ ";" \in C
  BY Zenon DEF Chars, Key
<1> QED BY <1>1, Short, Zenon DEF Val, Before, Behind

(* A text with one part replaced, seen from further outside.               *)
Between(n, a, f, g, z) ==
    a \in 1..n /\ z \in a + 1..n /\ f \in a + 1..n /\ g \in f - 1..z - 1

LEMMA ReplacedInside ==
    ASSUME NEW C, NEW s \in Seq(C), NEW x \in Seq(C),
           NEW a, NEW f, NEW g, NEW z, Between(Len(s), a, f, g, z)
    PROVE  \E inner \in Seq(C) :
              Cat(Cat(SubSeq(s, 1, f - 1), x), SubSeq(s, g + 1, Len(s))) =
                  Cat(Cat(SubSeq(s, 1, a), inner), SubSeq(s, z, Len(s)))
<1> DEFINE A == SubSeq(s, 1, a)
           M == SubSeq(s, a + 1, f - 1)
           K == SubSeq(s, g + 1, z - 1)
           Z == SubSeq(s, z, Len(s))
           inner == Cat(Cat(M, x), K)
<1>0. a \in 1..Len(s) /\ z \in a + 1..Len(s) /\ f \in a + 1..Len(s) /\ g \in f - 1..z - 1
  BY DEF Between
<1>1. A \in Seq(C) /\ M \in Seq(C) /\ K \in Seq(C) /\ Z \in Seq(C)
  BY <1>0, SubSeqProperties
<1>2. SubSeq(s, 1, f - 1) = Cat(A, M)
  <2>1. 1 \in 1..Len(s) + 1 /\ a \in 1 - 1..Len(s) /\ f - 1 \in a..Len(s)
    BY <1>0
  <2> QED BY <2>1, ConcatAdjacentSubSeq DEF Cat
<1>3. SubSeq(s, g + 1, Len(s)) = Cat(K, Z)
  <2>1. /\ g + 1 \in 1..Len(s) + 1 /\ z - 1 \in (g + 1) - 1..Len(s)
        /\ Len(s) \in z - 1..Len(s) /\ (z - 1) + 1 = z
    BY <1>0
  <2>2. SubSeq(s, g + 1, z - 1) \o SubSeq(s, (z - 1) + 1, Len(s)) = SubSeq(s, g + 1, Len(s))
    BY <2>1, ConcatAdjacentSubSeq
  <2> QED BY <2>1, <2>2 DEF Cat
<1> HIDE DEF A, M, K, Z
<1>4. inner \in Seq(C) /\ Cat(Cat(Cat(A, M), x), K) = Cat(A, inner)
  BY <1>1, FourInARow
<1>5. Cat(Cat(A, M), x) \in Seq(C)
  BY <1>1, CatAssociative
<1>6. Cat(Cat(Cat(A, M), x), Cat(K, Z)) = Cat(Cat(Cat(Cat(A, M), x), K), Z)
  BY <1>1, <1>5, CatAssociative
<1>7. Cat(Cat(SubSeq(s, 1, f - 1), x), SubSeq(s, g + 1, Len(s))) = Cat(Cat(A, inner), Z)
  BY <1>2, <1>3, <1>4, <1>6
<1> QED BY <1>4, <1>7 DEF A, Z

(* Whatever a file contains, a repair by fix_statement changes it between  *)
(* the braces of the section it looked for and nowhere else, and changes   *)
(* nothing if it did not find the section.                                 *)
THEOREM RepairStaysInSection ==
    ASSUME NEW C, NEW s \in Seq(C)
    PROVE  LET b == Braces(s)
               r == fix_statement(s, b)
           IN  IF b = NotFound THEN r = s
               ELSE \E inner :
                       r = SubSeq(s, 1, b.first) \o inner \o SubSeq(s, b.last, Len(s))
<1> DEFINE D == C \cup Chars
           b == Braces(s)
           r == fix_statement(s, b)
           v == ValBounds(s, Key, b.first + 1, b.last)
           old == OldValue(s, b)
<1>1. CASE b = NotFound
  <2>1. old = NotFound
    BY <1>1, Zenon DEF OldValue
  <2>2. r = s
    BY <1>1, <2>1, Zenon DEF fix_statement, Fixed
  <2> QED BY <1>1, <2>2
<1>3. s \in Seq(D)
  OBVIOUS
<1>4. Val \in Seq(D) /\ Before \in Seq(D) /\ Behind \in Seq(D)
  BY Written
<1>2. CASE b # NotFound
  <2>1. b.first \in 1..Len(s) /\ b.last \in b.first + 1..Len(s) /\ IsBrace(s[b.last])
    BY <1>2, BracesInside DEF Pair
  <2>2. CASE old = NotFound
    <3> DEFINE x == Cat(Cat(Before, Val), Behind)
               p == SubSeq(s, 1, b.last - 1)
               q == SubSeq(s, (b.last - 1) + 1, Len(s))
    <3>1. p \in Seq(D)
      BY <2>1, <1>3, SubSeqProperties
    <3>2. r = add_keyval(s, b)
      BY <1>2, <2>2, Zenon DEF fix_statement, Fixed
    <3>3. x \in Seq(D) /\ add_keyval(s, b) = Cat(Cat(p, x), q)
      <4>1. (b.last - 1) + 1 = b.last
        BY <2>1
      <4>2. add_keyval(s, b) = Cat(Cat(Cat(Cat(p, Before), Val), Behind), q)
        BY <4>1, Zenon DEF add_keyval, Before, Behind, Cat
      <4> HIDE DEF p, q
      <4>3. x \in Seq(D) /\ Cat(Cat(Cat(p, Before), Val), Behind) = Cat(p, x)
        <5> HIDE DEF D
        <5> QED BY <3>1, <1>4, FourInARow
      <4> QED BY <4>2, <4>3, Zenon
    <3> HIDE DEF x
    <3>4. b.last \in b.first + 1..Len(s) /\ b.last - 1 \in b.last - 1..b.last - 1
      BY <2>1
    <3>5. \E inner \in Seq(D) : r = Cat(Cat(SubSeq(s, 1, b.first), inner), SubSeq(s, b.last, Len(s)))
      <4> HIDE DEF b, r, D
      <4>1. Between(Len(s), b.first, b.last, b.last - 1, b.last)
        BY <2>1, <3>4 DEF Between
      <4>2. r = Cat(Cat(SubSeq(s, 1, b.last - 1), x), SubSeq(s, (b.last - 1) + 1, Len(s)))
        BY <3>2, <3>3, Zenon DEF p, q
      <4>3. \E inner \in Seq(D) :
               Cat(Cat(SubSeq(s, 1, b.last - 1), x), SubSeq(s, (b.last - 1) + 1, Len(s)))
                   = Cat(Cat(SubSeq(s, 1, b.first), inner), SubSeq(s, b.last, Len(s)))
        <5>1. x \in Seq(D)
          BY <3>3
        <5> QED BY <4>1, <5>1, <1>3, ReplacedInside
      <4> QED BY <4>2, <4>3, Zenon
    <3> QED BY <1>2, <3>5, Zenon DEF Cat
  <2>3. CASE old # NotFound
    <3>1. v # NotFound /\ s[v.first] = "\"" /\ old = v
      BY <2>3, Zenon DEF OldValue
    <3>2. r = Cat(Cat(SubSeq(s, 1, v.first - 1), Val), SubSeq(s, v.last + 1, Len(s)))
      BY <2>3, <3>1, Zenon DEF fix_statement, Fixed, change_val, Cat
    <3>3. b.first + 1 \in 1..Len(s) + 1 /\ b.last \in 0..Len(s)
      BY <2>1
    <3>4. /\ v.first \in (b.first + 1) + 1..Len(s)
          /\ Pair(v, b.last)
          /\ IsQuote(s[v.last])
      BY <3>1, <3>3, ValBoundsInside
    <3>5. v.last # b.last
      BY <2>1, <3>4, QuoteIsNoBrace
    <3>6. v.first \in b.first + 1..Len(s) /\ v.last \in v.first - 1..b.last - 1
      <4> HIDE DEF v, b
      <4> QED BY <2>1, <3>4, <3>5 DEF Pair
    <3>7. \E inner \in Seq(D) : r = Cat(Cat(SubSeq(s, 1, b.first), inner), SubSeq(s, b.last, Len(s)))
      <4> HIDE DEF b, r, v, D
      <4>1. Between(Len(s), b.first, v.first, v.last, b.last)
        BY <2>1, <3>6 DEF Between
      <4>2. \E inner \in Seq(D) :
               Cat(Cat(SubSeq(s, 1, v.first - 1), Val), SubSeq(s, v.last + 1, Len(s)))
                   = Cat(Cat(SubSeq(s, 1, b.first), inner), SubSeq(s, b.last, Len(s)))
        <5>1. Val \in Seq(D)
          BY <1>4
        <5> QED BY <4>1, <5>1, <1>3, ReplacedInside
      <4> QED BY <3>2, <4>2, Zenon
    <3> QED BY <1>2, <3>7, Zenon DEF Cat
  <2> QED BY <2>2, <2>3
<1> QED BY <1>1, <1>2
=============================================================================
