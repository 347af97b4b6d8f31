------------------------------ MODULE BindText ------------------------------
(***************************************************************************)
(* The text functions of networking/bind/configuration/check: comments,    *)
(* tokens, closing characters, keys and values of a configuration, and     *)
(* the two ways to repair a statement. The checks read a text without      *)
(* comments, the repairs change the text of the file, comments included;   *)
(* what must agree is what both take for the section and for the value.    *)
(*                                                                         *)
(* A text is a sequence of characters. Positions start at 1, and 0 is the  *)
(* -1 of the code. Sections and keys are one character long.               *)
(***************************************************************************)
EXTENDS Integers, Sequences, SequencesExt

CONSTANTS
    Starts,     \* how a text may begin
    Piece,      \* the pieces it is made of
    MaxPieces   \* bound: how many pieces follow the beginning

ASSUME BindTextAssumption ==
    /\ MaxPieces \in Nat
    /\ Starts \subseteq Seq(STRING)
    /\ Piece \subseteq Seq(STRING)

VARIABLES text, left

vars == <<text, left>>

Section == "o"
Key == "p"
Val == <<"\"", "n", "\"">>

(***************************************************************************)
(* Comments and closing characters.                                        *)
(***************************************************************************)
At(s, i, t) == i + Len(t) - 1 <= Len(s) /\ SubSeq(s, i, i + Len(t) - 1) = t

\* The least element of a set of positions, 0 if there is none.
First(P) == IF P = {} THEN 0 ELSE CHOOSE i \in P : \A j \in P : i <= j

LineComment(s, i) == s[i] = "#" \/ At(s, i, <<"/", "/">>)
BlockComment(s, i) == At(s, i, <<"/", "*">>)
CommentStart(s, i) == LineComment(s, i) \/ BlockComment(s, i)

EndOfComment(s, i) ==
    IF LineComment(s, i)
      THEN First({j \in i..Len(s) : s[j] = "\n"})
      ELSE First({j \in i + 3..Len(s) : s[j - 1] = "*" /\ s[j] = "/"})

OpeningChar(c) == c \in {"\"", "'", "{", "(", "["}
Closer == {"}", ")", "]"}

StringEnd(s, i) == First({j \in i + 1..Len(s) : s[j] = "\""})

\* Where what opens at i ends, given where sections and brackets do. Nothing
\* closes the apostrophe.
EndOf(s, i, closed) ==
    CASE s[i] = "{" -> closed["}"]
      [] s[i] = "(" -> closed[")"]
      [] s[i] = "[" -> closed["]"]
      [] s[i] = "\"" -> StringEnd(s, i)
      [] OTHER -> 0

\* For every position and closing character, the one that closes what was
\* opened before the position: strings, comments and inner sections and
\* brackets are skipped, other closing characters do not matter.
Close(s) ==
    LET close[i \in 1..Len(s) + 1] == [c \in Closer |->
        CASE i > Len(s) -> 0
          [] i <= Len(s) /\ CommentStart(s, i) ->
                IF EndOfComment(s, i) = 0 THEN 0 ELSE close[EndOfComment(s, i) + 1][c]
          [] i <= Len(s) /\ ~ CommentStart(s, i) /\ OpeningChar(s[i]) ->
                LET e == EndOf(s, i, close[i + 1])
                IN  IF e = 0 THEN 0 ELSE close[e + 1][c]
          [] OTHER -> IF s[i] = c THEN i ELSE close[i + 1][c]]
    IN close

\* find_closing_char
ClosingChar(s, i) == EndOf(s, i, Close(s)[i + 1])

RemoveComments(s) ==
    LET stripped[i \in 1..Len(s) + 1] ==
        CASE i > Len(s) -> <<>>
          [] i <= Len(s) /\ CommentStart(s, i) ->
                LET e == EndOfComment(s, i)
                IN  IF e = 0 THEN <<>>
                    ELSE (IF s[e] = "\n" THEN <<"\n">> ELSE <<>>) \o stripped[e + 1]
          [] i <= Len(s) /\ s[i] = "\"" ->
                LET e == ClosingChar(s, i)
                IN  IF e = 0 THEN SubSeq(s, i, Len(s)) ELSE SubSeq(s, i, e) \o stripped[e + 1]
          [] OTHER -> <<s[i]>> \o stripped[i + 1]
    IN stripped[1]

(***************************************************************************)
(* Tokens, keys and values.                                                *)
(***************************************************************************)
Space == {"\n", "\t", " "}
Delimiter == Space \cup {";"} \cup Closer

\* Fault: a closing character is a token the search does not leave behind.
PastTokenClosing(s, i) ==
    IF s[i] \in Delimiter \ Space THEN i
    ELSE First({Len(s) + 1} \cup {j \in i + 1..Len(s) : s[j] \in Delimiter})

\* Past the token or the comment at i, 0 if it does not end.
PastToken(s, i) ==
    LET after(e) == IF e = 0 THEN 0 ELSE e + 1
    IN  CASE OpeningChar(s[i]) -> after(ClosingChar(s, i))
          [] ~ OpeningChar(s[i]) /\ CommentStart(s, i) -> after(EndOfComment(s, i))
          [] s[i] \in Space -> i
          [] s[i] \in Delimiter \ Space -> i + 1
          [] OTHER -> First({Len(s) + 1} \cup
                            {j \in i + 1..Len(s) : s[j] \in Delimiter \/ CommentStart(s, j)
                                                                      \/ OpeningChar(s[j])})

\* The first position that is neither a space nor in a comment.
TokenFrom(s) ==
    LET token[i \in 1..Len(s) + 1] ==
        CASE i > Len(s) -> 0
          [] i <= Len(s) /\ CommentStart(s, i) ->
                IF EndOfComment(s, i) = 0 THEN 0 ELSE token[EndOfComment(s, i) + 1]
          [] OTHER -> IF s[i] \in Space THEN token[i + 1] ELSE i
    IN token

\* find_next_token
NextToken(s, i) ==
    LET past == PastToken(s, i)
    IN  IF i = 0 \/ i > Len(s) THEN 0 ELSE IF past = 0 THEN 0 ELSE TokenFrom(s)[past]

\* find_key: the tokens from i on, one of which is the key, before position e.
FindKey(s, key, i, e) ==
    LET from[j \in 0..Len(s) + 1] ==
        CASE j = 0 \/ j >= e -> 0
          [] j \in 1..e - 1 /\ s[j] = key /\ j + 1 < e /\ s[j + 1] \in Space \cup {"{", ";"} -> j
          [] OTHER -> LET n == NextToken(s, j) IN IF n <= j THEN 0 ELSE from[n]
    IN from[i]

NotFound == [first |-> 0, last |-> 0]

\* The value that begins at t and ends before e.
Value(s, t, e) ==
    LET c == IF t = 0 \/ s[t] \notin {"\"", "{"} THEN 0 ELSE ClosingChar(s, t)
    IN  IF c = 0 \/ c > e THEN NotFound ELSE [first |-> t, last |-> c]

\* find_val_bounds_of_key
ValBounds(s, key, i, e) == Value(s, NextToken(s, FindKey(s, key, i, e)), e)

Bounds(s) == ValBounds(s, Section, 1, Len(s) + 1)
Cut(s, b) == IF b = NotFound THEN <<>> ELSE SubSeq(s, b.first, b.last)

\* The value check_default_runtime_dir compares, in a text without comments
\* whose section is b.
ValueOf(s, b) == IF b = NotFound THEN <<>> ELSE Cut(s, ValBounds(s, Key, b.first + 1, b.last))

(***************************************************************************)
(* Repairs of the text of the file.                                        *)
(***************************************************************************)
\* Fault: the section ends at the first closing brace.
BracesFirst(s) ==
    LET t == NextToken(s, FindKey(s, Section, 1, Len(s) + 1))
        c == IF t = 0 \/ s[t] # "{" THEN 0 ELSE First({j \in t..Len(s) : s[j] = "}"})
    IN  IF c = 0 THEN NotFound ELSE [first |-> t, last |-> c]

\* The section both repairs look for: its braces, in the text with comments.
Braces(s) ==
    LET t == NextToken(s, FindKey(s, Section, 1, Len(s) + 1))
        c == IF t = 0 \/ s[t] # "{" THEN 0 ELSE ClosingChar(s, t)
    IN  IF c = 0 THEN NotFound ELSE [first |-> t, last |-> c]

\* What change_val replaces in section b.
OldValue(s, b) ==
    LET v == ValBounds(s, Key, b.first + 1, b.last)
    IN  IF b = NotFound \/ v = NotFound \/ s[v.first] # "\"" THEN NotFound ELSE v

\* Fault: the new value keeps the old closing quote.
change_val_quote(s, v) == SubSeq(s, 1, v.first - 1) \o Val \o SubSeq(s, v.last, Len(s))

change_val(s, v) == SubSeq(s, 1, v.first - 1) \o Val \o SubSeq(s, v.last + 1, Len(s))

add_keyval(s, b) ==
    SubSeq(s, 1, b.last - 1) \o <<"\n", Key, " ">> \o Val \o <<";", "\n">> \o SubSeq(s, b.last, Len(s))

Fixed(s, b, v) ==
    CASE v # NotFound -> change_val(s, v)
      [] v = NotFound /\ b # NotFound -> add_keyval(s, b)
      [] OTHER -> s

\* The text after the repair, or the text itself if neither way works.
fix_statement(s, b) == Fixed(s, b, OldValue(s, b))

(***************************************************************************)
(* All texts, piece by piece.                                              *)
(***************************************************************************)
Init == text \in Starts /\ left = MaxPieces

Write == \E p \in Piece :
    /\ left > 0
    /\ text' = text \o p
    /\ left' = left - 1

Next == Write

Spec == Init /\ [][Next]_vars

\* find_next_token moves forward from every position of every text, also of
\* a broken one: find_key, which calls it until it finds nothing, ends.
TokensAdvance ==
    \A i \in 1..Len(text) : NextToken(text, i) = 0 \/ NextToken(text, i) > i

\* named refuses a second options statement. (With two, of which the first has a
\* comment next to the word, checks and repairs take different ones.)
OneSection == \A i, j \in 1..Len(text) : text[i] = Section /\ text[j] = Section => i = j

\* The section the repairs find in the text of a file is the section the
\* checks find in the text without comments.
SameSection ==
    OneSection /\ Braces(text) # NotFound =>
        Cut(RemoveComments(text), Bounds(RemoveComments(text))) = RemoveComments(Cut(text, Braces(text)))

\* The repair, which searches the text with comments, does not find a key that
\* a comment touches.
KeyApart == \A i \in 1..Len(text) - 1 : text[i] = Key => ~ CommentStart(text, i + 1)

\* named refuses a section whose last statement has no semicolon.
Ended(s, b) == s[Max({i \in b.first..b.last - 1 : s[i] \notin Space})] \in {"{", ";"}

\* A repaired file passes the check that asked for the repair, whatever is
\* commented, if the value to be repaired has quotes or there is none, and no
\* comment touches the key. (pid-file#... on one line and "x"; on the next is
\* read by the check, but not replaced by the repair.)
RepairRecognised ==
    \A seen \in {RemoveComments(text)} : \A b \in {Bounds(seen)} :
    \A value \in {ValueOf(seen, b)}, repaired \in {fix_statement(text, Braces(text))} :
        LET absent == FindKey(seen, Key, b.first + 1, b.last) = 0
            quoted == value # <<>> /\ Head(value) = "\""
        IN  /\ OneSection /\ KeyApart /\ b # NotFound /\ Ended(seen, b) /\ value # Val
            /\ absent \/ quoted
            /\ repaired # text
            => \A now \in {RemoveComments(repaired)} : ValueOf(now, Bounds(now)) = Val
=============================================================================
