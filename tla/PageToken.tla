------------------------------ MODULE PageToken ------------------------------
(***************************************************************************)
(* The token of the message lists (src/cursor/cursor.go): a text, which is *)
(* the sequence of its fields between dots, and the form of the base64 it  *)
(* is written in.  A digit is a bit here, and int64 has Width bits.        *)
(***************************************************************************)
EXTENDS Integers, Sequences, SequencesExt, Functions

CONSTANTS
  Width,      \* of an integer
  MaxPieces   \* of an id, between its dots
ASSUME WidthAssumption == Width \in Nat \ {0} /\ MaxPieces \in Nat

VARIABLES
  presented,  \* the token a client presents
  position    \* history: the position it was made from, if it was

tokenVars == <<presented, position>>

Int64 == -(2 ^ (Width - 1)) .. 2 ^ (Width - 1) - 1
Version == <<"v">>
Empty == <<>>

\* An id may contain dots, and is not empty.
Pieces == {Empty, <<"x">>}
Ids == {s \in UNION {[1 .. n -> Pieces] : n \in 1 .. MaxPieces} : s # <<Empty>>}
Positions == [createdAt : Int64, id : Ids]

\* What a client may send in the place of the version and of the number.
Names == {Version} \cup Pieces
Numbers == UNION {[1 .. n -> {"+", "-", "0", "1", "x"}] : n \in 0 .. Width + 1}

\* As EncodeToString writes it; the same with CR or LF in it; with a bit set in
\* its last character that belongs to no byte; with padding or characters that
\* are not of the URL alphabet.
Forms == {"plain", "wrapped", "stray", "foreign"}

Nothing == [text |-> <<Empty>>, form |-> "plain"]     \* the empty token
FirstPage == [first |-> TRUE]
Invalid == [invalid |-> TRUE]

-----------------------------------------------------------------------------
\* strconv.FormatInt.
Digits[n \in Nat] ==
  LET last == IF n % 2 = 0 THEN "0" ELSE "1"
  IN IF n < 2 THEN <<last>> ELSE Append(Digits[n \div 2], last)

FormatInt(n) == IF n < 0 THEN <<"-">> \o Digits[- n] ELSE Digits[n]

\* strconv.ParseInt of a field that has the form of an integer.
IsInteger(s) ==
  LET digits == IF s # <<>> /\ s[1] \in {"+", "-"} THEN Tail(s) ELSE s
  IN digits # <<>> /\ \A i \in DOMAIN digits : digits[i] \in {"0", "1"}

Shift(n, c) == IF c \in {"0", "1"} THEN 2 * n + (IF c = "1" THEN 1 ELSE 0) ELSE n

Size(s) == FoldLeft(Shift, 0, s)

ParseInt(s) == IF s[1] = "-" THEN - Size(s) ELSE Size(s)

TextOf(p) == <<Version, FormatInt(p.createdAt)>> \o p.id

Encode(p) == [text |-> TextOf(p), form |-> "plain"]

Decodes_NotStrict(form) == form # "foreign"  \* mutant: RawURLEncoding without Strict

\* RawURLEncoding.Strict().DecodeString skips line breaks and refuses the rest.
Decodes(form) == form \in {"plain", "wrapped"}

Valid_AnySpelling(raw) ==  \* mutant: the number is not compared with its canonical spelling
  /\ Len(raw) >= 3 /\ raw[1] = Version /\ SubSeq(raw, 3, Len(raw)) # <<Empty>>
  /\ IsInteger(raw[2]) /\ ParseInt(raw[2]) \in Int64

Valid_ThreeFields(raw) ==  \* mutant: Split instead of SplitN
  /\ Len(raw) = 3 /\ raw[1] = Version /\ raw[3] # Empty
  /\ IsInteger(raw[2]) /\ ParseInt(raw[2]) \in Int64
  /\ FormatInt(ParseInt(raw[2])) = raw[2]

\* Three fields, the third being the rest.
Valid(raw) ==
  /\ Len(raw) >= 3 /\ raw[1] = Version /\ SubSeq(raw, 3, Len(raw)) # <<Empty>>
  /\ IsInteger(raw[2]) /\ ParseInt(raw[2]) \in Int64
  /\ FormatInt(ParseInt(raw[2])) = raw[2]

\* Line breaks alone are no empty token.
Decode(token) ==
  LET raw == token.text IN
    IF token = Nothing THEN FirstPage
    ELSE IF ~ Decodes(token.form) \/ ~ Valid(raw) THEN Invalid
    ELSE [createdAt |-> ParseInt(raw[2]), id |-> SubSeq(raw, 3, Len(raw))]

-----------------------------------------------------------------------------
NoPosition == <<>>

TokenInit == presented = Nothing /\ position = NoPosition

\* A page ends with this row: nextCursor hands out its token.
HandOut(p) == presented' = Encode(p) /\ position' = p

Present(raw, form) == presented' = [text |-> raw, form |-> form] /\ position' = NoPosition

\* One token in a behaviour.
TokenNext ==
  /\ presented = Nothing
  /\ \/ \E p \in Positions : HandOut(p)
     \/ \E form \in Forms :
          \/ \E name \in Names : Present(<<name>>, form)
          \/ \E head \in Names \X Numbers :
               \/ Present(head, form)
               \/ \E id \in Ids \cup {<<Empty>>} : Present(head \o id, form)

TokenSpec == TokenInit /\ [][TokenNext]_tokenVars

-----------------------------------------------------------------------------
\* A position survives its token, whatever its time and its id (cursor.go:44-68).
TokensReturn == position # NoPosition => Decode(presented) = position

\* Two tokens that lead to the same page differ in line breaks only, which even
\* the strict decoder skips: no other spelling of the number or of the base64 is
\* accepted ("Only the canonical spelling", cursor.go:53-66).
OnlyLineBreaksDiffer ==
  LET p == Decode(presented) IN
    p \in Positions => presented \in {Encode(p), [Encode(p) EXCEPT !.form = "wrapped"]}
=============================================================================
