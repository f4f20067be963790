-------------------------- MODULE TestScriptProofs --------------------------
(***************************************************************************)
(* For scripts of any length and nesting that use none of Syntax: the host *)
(* of the specification's scripts finds every command and judges every     *)
(* assert_return by its own result and expectation.                        *)
(***************************************************************************)
EXTENDS TestScript, SequenceTheorems, TLAPS

-----------------------------------------------------------------------------
(* The invariant.                                                          *)

Blocks == [verb : Verbs \cup {Unnamed}, filled : BOOLEAN]
Hidden == Depth >= 1 /\ open[1].verb \in Opaque
Mode == Last(stackMode)

(* What is open in a script: what the host does not read stands outermost, *)
(* and after its invoke an assert_return holds what that shall return.     *)
ScriptInv ==
  /\ open \in Seq(Blocks) /\ Depth <= MaxDepth
  /\ \A i \in 1 .. Depth - 1 : open[i].verb # Unnamed
  /\ \A i \in 1 .. Depth : open[i].verb = Unnamed => ~open[i].filled
  /\ \A i \in 2 .. Depth : open[i].verb \in {Unnamed, "invoke", "const"}
  /\ Depth >= 1 => open[1].verb # "const"
  /\ Depth >= 2 /\ open[1].verb = "assert_return" /\ open[1].filled
       => Depth = 2 /\ open[2].verb \in {Unnamed, "const"}

(* The host's mode is the kind of text it is in. *)
ModeInv ==
  /\ text \in {"code", "string", "escape", "semicolon", "line"}
  /\ text = "code" => stackMode \in {<<"Whitespace">>, <<"Whitespace", "Command">>}
  /\ text \in {"string", "escape"} => stackMode = <<"Whitespace", "Quote">> /\ open # <<>>
  /\ text \in {"semicolon", "line"} => stackMode = <<"Whitespace", "Comment">>
  /\ text # "code" => ~Fresh
  /\ text = "escape" => fEscapeLast
  /\ text = "string" => ~fEscapeLast
  /\ text = "semicolon" => fCommentLast

(* The host's commands are the open blocks down to the first it does not   *)
(* read, and fNestCmd says whether there is one.                           *)
CommandInv ==
  /\ cblock = Depth
  /\ stackoffsetBlockStart \in Seq(1 .. MaxDepth)
  /\ Len(stackoffsetBlockStart) = Len(stackstrCmd)
  /\ Len(stackstrCmd) = IF Hidden THEN 1 ELSE Depth
  /\ \A i \in 1 .. Len(stackstrCmd) : stackstrCmd[i] = open[i].verb /\ stackoffsetBlockStart[i] = i
  /\ Mode = "Command" => Depth >= 1 /\ Len(stackstrCmd) = Depth
  /\ Fresh /\ ~Hidden => Mode = "Command"
  /\ Mode # "Command" /\ Depth >= 1 => (fNestCmd <=> ~Hidden)

(* Once the invoke of an assert_return has run, the two globals are its.   *)
OwnInv ==
  /\ own \in [result : Value \cup {NoValue}, expect : Value \cup {NoValue}]
  /\ status = "running" /\ Depth >= 1 /\ open[1].verb = "assert_return" /\ open[1].filled
       => own.result = lastExec /\ own.expect = expected

IInv ==
  /\ TypeOK /\ ScriptInv /\ ModeInv /\ CommandInv /\ OwnInv
  /\ CommandsAreBlocks /\ AssertionsAreTrue /\ EndsCleanly

-----------------------------------------------------------------------------
(* The last element of a sequence and what is before it.                   *)

LEMMA FrontAndLast ==
  ASSUME NEW S, NEW s \in Seq(S), s # <<>>
  PROVE  /\ Len(s) \in Nat \ {0} /\ Last(s) = s[Len(s)] /\ Last(s) \in S
         /\ Front(s) \in Seq(S) /\ Len(Front(s)) = Len(s) - 1
         /\ \A i \in 1 .. Len(s) - 1 : Front(s)[i] = s[i]
<1>1. Len(s) \in Nat \ {0}
  BY EmptySeq
<1>2. Last(s) = s[Len(s)] /\ Last(s) \in S
  BY <1>1, ElementOfSeq DEF Last
<1>3. \A i \in 1 .. Len(s) - 1 : s[i] \in S
  BY <1>1, ElementOfSeq
<1>4. /\ Front(s) \in Seq(S)
      /\ Len(Front(s)) = IF 1 <= Len(s) - 1 THEN Len(s) - 1 - 1 + 1 ELSE 0
      /\ \A i \in 1 .. Len(s) - 1 - 1 + 1 : Front(s)[i] = s[1 + i - 1]
  BY <1>1, <1>3, SubSeqProperties DEF Front
<1>5. Len(Front(s)) = Len(s) - 1
  <2> DEFINE f == Len(Front(s))
             n == Len(s)
  <2>1. n \in Nat \ {0} /\ f = IF 1 <= n - 1 THEN n - 1 - 1 + 1 ELSE 0
    BY <1>1, <1>4
  <2> HIDE DEF f, n
  <2>2. f = n - 1
    BY ONLY <2>1
  <2> QED BY <2>2 DEF f, n
<1>6. \A i \in 1 .. Len(s) - 1 : Front(s)[i] = s[i]
  <2> TAKE i \in 1 .. Len(s) - 1
  <2>1. i \in 1 .. Len(s) - 1 - 1 + 1 /\ 1 + i - 1 = i
    BY <1>1
  <2> QED BY <1>4, <2>1
<1> QED BY <1>1, <1>2, <1>4, <1>5, <1>6

(* stackMode is never deeper than one mode inside the whitespace.          *)
LEMMA ModeFacts ==
  /\ Last(<<"Whitespace">>) = "Whitespace"
  /\ \A k : Last(<<"Whitespace", k>>) = k /\ Front(<<"Whitespace", k>>) = <<"Whitespace">>
  /\ \A k : Append(<<"Whitespace">>, k) = <<"Whitespace", k>>
  /\ Len(<<"Whitespace">>) = 1
<1>1. ASSUME NEW k
      PROVE  /\ Front(<<"Whitespace", k>>) = <<"Whitespace">>
             /\ Append(<<"Whitespace">>, k) = <<"Whitespace", k>>
  <2> DEFINE S == {"Whitespace", k}
             one == <<"Whitespace">>
             more == Append(one, k)
             two == <<"Whitespace", k>>
  <2>1. /\ one \in Seq(S) /\ Len(one) = 1 /\ one[1] = "Whitespace" /\ k \in S
        /\ two \in Seq(S) /\ Len(two) = 2 /\ two[1] = "Whitespace" /\ two[2] = k
    OBVIOUS
  <2>0. /\ more \in Seq(S) /\ Len(more) = Len(one) + 1
        /\ \A i \in 1 .. Len(one) : more[i] = one[i]
        /\ more[Len(one) + 1] = k
    <3>1. one \in Seq(S) /\ k \in S
      BY <2>1
    <3> HIDE DEF S, one, two
    <3> QED BY ONLY <3>1, AppendProperties
  <2> HIDE DEF S, one, two, more
  <2>2. two # <<>>
    BY <2>1, EmptySeq
  <2>3. Front(two) \in Seq(S) /\ Len(Front(two)) = 1 /\ Front(two)[1] = "Whitespace"
    <3>1. /\ Front(two) \in Seq(S) /\ Len(Front(two)) = Len(two) - 1
          /\ \A i \in 1 .. Len(two) - 1 : Front(two)[i] = two[i]
      BY <2>1, <2>2, FrontAndLast
    <3> QED BY <2>1, <3>1
  <2>4. Front(two) = one
    BY <2>1, <2>3, SeqEqual
  <2>5. more = two
    <3>1. Len(more) = Len(two) /\ \A i \in 1 .. Len(more) : more[i] = two[i]
      BY <2>0, <2>1
    <3> QED BY <2>0, <2>1, <3>1, SeqEqual
  <2> QED BY <2>4, <2>5 DEF one, two, more
<1>2. \A k : Last(<<"Whitespace", k>>) = k
  BY DEF Last
<1>3. Last(<<"Whitespace">>) = "Whitespace" /\ Len(<<"Whitespace">>) = 1
  BY DEF Last
<1> QED BY <1>1, <1>2, <1>3

LEMMA TopBlock ==
  ASSUME open \in Seq(Blocks), open # <<>>
  PROVE  /\ Depth \in Nat \ {0} /\ Depth \in 1 .. Depth
         /\ Last(open) = open[Depth] /\ open[Depth] \in Blocks
         /\ Front(open) \in Seq(Blocks) /\ Len(Front(open)) = Depth - 1
         /\ \A i \in 1 .. Depth - 1 : Front(open)[i] = open[i]
<1>1. /\ Len(open) \in Nat \ {0} /\ Last(open) = open[Len(open)] /\ Last(open) \in Blocks
      /\ Front(open) \in Seq(Blocks) /\ Len(Front(open)) = Len(open) - 1
      /\ \A i \in 1 .. Len(open) - 1 : Front(open)[i] = open[i]
  BY FrontAndLast
<1>2. Len(open) \in 1 .. Len(open)
  BY <1>1
<1> QED BY <1>1, <1>2 DEF Depth

LEMMA VerbsDiffer ==
  /\ Unnamed \notin Verbs /\ Unnamed \notin Opaque /\ Opaque \subseteq Verbs
  /\ Unnamed \notin {"module", "invoke", "assert_return", "const", "assert_trap"}
  /\ "invoke" \notin Opaque /\ "const" \notin Opaque /\ "assert_return" \notin Opaque
  /\ \A v \in Verbs : v \in Opaque \/ v \in {"invoke", "assert_return", "const"}
  /\ Verbs \cap {"(", ")", "quote", "semicolon", "newline", "backslash", "other"} = {}
<1>1. Unnamed \notin {"module", "invoke", "assert_return", "const", "assert_trap"}
  BY Zenon DEF Unnamed
<1> QED BY <1>1 DEF Verbs, Opaque, Unsupported

-----------------------------------------------------------------------------
(* What one character does to the script, whatever the host makes of it.   *)

(* The blocks and their verbs; an invoke may have had its name.            *)
SameBlocks ==
  /\ open' \in Seq(Blocks) /\ Len(open') = Depth
  /\ \A i \in 1 .. Depth : /\ open'[i].verb = open[i].verb
                           /\ open[i].verb # "invoke" => open'[i].filled = open[i].filled

NamesBlock(c) ==
  /\ text = "code" /\ Fresh /\ c \in Verbs /\ Admits(Front(open), c)
  /\ text' = "code" /\ open' = [open EXCEPT ![Depth].verb = c] /\ due' = NoCommand

Opens(c) ==
  /\ text = "code" /\ ~Fresh /\ c = "(" /\ MayOpen
  /\ text' = "code" /\ open' = Append(open, [verb |-> Unnamed, filled |-> FALSE]) /\ due' = NoCommand

Closes(c) ==
  /\ text = "code" /\ ~Fresh /\ c = ")" /\ MayClose
  /\ text' = "code" /\ due' = Due(")")
  /\ open' = IF Depth > 1 /\ Last(open).verb = "invoke" THEN Filled(Front(open)) ELSE Front(open)

Passes(c) ==
  /\ SameBlocks /\ due' = NoCommand /\ c \notin Verbs
  /\ \/ /\ text = "code" /\ ~Fresh
        /\ \/ c = "quote" /\ open # <<>> /\ text' = "string"
           \/ c = "semicolon" /\ text' = "semicolon"
           \/ c \in {"newline", "other"} /\ text' = "code"
     \/ /\ text = "string"
        /\ \/ c = "quote" /\ text' = "code"
           \/ c = "backslash" /\ text' = "escape"
           \/ c \notin {"quote", "backslash"} /\ text' = "string"
     \/ text = "escape" /\ c = "quote" /\ text' = "string"
     \/ text = "semicolon" /\ c = "semicolon" /\ text' = "line"
     \/ /\ text = "line" /\ c # "semicolon"
        /\ text' = IF c = "newline" THEN "code" ELSE "line"

LEMMA ReadCases ==
  ASSUME Syntax = {}, ScriptInv, ModeInv, NEW c \in Chars, Read(c)
  PROVE  /\ status = "running"
         /\ NamesBlock(c) \/ Opens(c) \/ Closes(c) \/ Passes(c)
<1>1. /\ open \in Seq(Blocks) /\ status = "running" /\ MayFollow(c) /\ ReadText(c) /\ due' = Due(c)
      /\ text \in {"code", "string", "escape", "semicolon", "line"}
      /\ text \in {"string", "escape"} => open # <<>>
      /\ text = "line" => ~Fresh
  BY DEF ScriptInv, ModeInv, Read
<1>2. open' = open => SameBlocks
  BY <1>1 DEF SameBlocks, Depth
<1>3. (text = "code" /\ c = ")") \/ due' = NoCommand
  BY <1>1 DEF Due
<1>4. CASE text = "code" /\ Fresh
  <2>1. c \in Verbs /\ Admits(Front(open), c)
    BY <1>1, <1>4 DEF MayFollow
  <2>2. ReadCode(c) /\ c \notin {"(", ")", "quote", "semicolon", "newline", "backslash", "other"}
    BY <1>1, <1>4, <2>1 DEF ReadText, Verbs, Unsupported
  <2>3. open' = [open EXCEPT ![Depth].verb = c] /\ text' = text
    BY <1>4, <2>1, <2>2 DEF ReadCode
  <2> QED BY <1>1, <1>3, <1>4, <2>1, <2>2, <2>3 DEF NamesBlock
<1>5. CASE text = "code" /\ ~Fresh
  <2>1. ReadCode(c)
    BY <1>1, <1>5 DEF ReadText
  <2>2. /\ c \in {"(", ")", "quote", "semicolon", "newline", "other"} /\ c \notin Verbs
        /\ c = "(" => MayOpen
        /\ c = ")" => MayClose
        /\ c = "quote" => open # <<>>
    BY <1>1, <1>5 DEF MayFollow, Verbs, Unsupported
  <2>3. CASE c = "("
    BY <1>1, <1>3, <1>5, <2>1, <2>2, <2>3 DEF ReadCode, Opens
  <2>4. CASE c = ")"
    BY <1>1, <1>5, <2>1, <2>2, <2>4 DEF ReadCode, Closes
  <2>5. CASE c \in {"quote", "semicolon", "newline", "other"}
    <3>1. UNCHANGED open /\ text' = CASE c = "quote" -> "string" [] c = "semicolon" -> "semicolon" [] OTHER -> "code"
      BY <1>5, <2>1, <2>2, <2>5 DEF ReadCode, Become, Between
    <3> QED BY <1>1, <1>2, <1>3, <1>5, <2>2, <2>5, <3>1 DEF Passes
  <2> QED BY <2>2, <2>3, <2>4, <2>5
<1>6. CASE text = "string"
  <2>1. c \notin Verbs /\ open # <<>>
    BY <1>1, <1>6 DEF MayFollow
  <2>2. CASE c = "quote"
    <3>1. text' = "code" /\ open' = IF Last(open).verb = "invoke" THEN Filled(open) ELSE open
      BY <1>1, <1>6, <2>2 DEF ReadText
    <3>2. SameBlocks
      <4>1. CASE Last(open).verb # "invoke"
        BY <1>2, <3>1, <4>1
      <4>2. CASE Last(open).verb = "invoke"
        <5> DEFINE b == [open[Depth] EXCEPT !.filled = TRUE]
        <5>1. Depth \in 1 .. Depth /\ open[Depth] \in Blocks /\ open[Depth].verb = "invoke"
          BY <1>1, <2>1, <4>2, TopBlock
        <5>2. b \in Blocks /\ b.verb = "invoke"
          BY <5>1 DEF Blocks
        <5>3. open' = [open EXCEPT ![Depth] = b]
          BY <3>1, <4>2 DEF Filled, Depth
        <5> HIDE DEF b
        <5>4. /\ open' \in Seq(Blocks) /\ Len(open') = Depth
              /\ \A j \in 1 .. Depth : open'[j] = IF j = Depth THEN b ELSE open[j]
          BY <1>1, <5>1, <5>2, <5>3, ExceptSeq DEF Depth
        <5> QED BY <5>1, <5>2, <5>4 DEF SameBlocks
      <4> QED BY <4>1, <4>2
    <3> QED BY <1>3, <1>6, <1>1, <2>1, <2>2, <3>1, <3>2 DEF Passes
  <2>3. CASE c # "quote"
    <3>1. UNCHANGED open /\ text' = IF c = "backslash" THEN "escape" ELSE "string"
      BY <1>1, <1>6, <2>3 DEF ReadText, Become
    <3> QED BY <1>1, <1>2, <1>3, <1>6, <2>1, <2>3, <3>1 DEF Passes
  <2> QED BY <2>2, <2>3
<1>7. CASE text = "escape"
  <2>1. c = "quote"
    BY <1>1, <1>7 DEF MayFollow
  <2>2. UNCHANGED open /\ text' = "string"
    BY <1>1, <1>7 DEF ReadText, Become
  <2> QED BY <1>1, <1>2, <1>3, <1>7, <2>1, <2>2 DEF Passes, Verbs, Unsupported
<1>8. CASE text = "semicolon"
  <2>1. c = "semicolon"
    BY <1>1, <1>8 DEF MayFollow
  <2>2. UNCHANGED open /\ text' = "line"
    BY <1>1, <1>8 DEF ReadText, Become
  <2> QED BY <1>1, <1>2, <1>3, <1>8, <2>1, <2>2 DEF Passes, Verbs, Unsupported
<1>9. CASE text = "line"
  <2>1. c \notin Verbs /\ c # "semicolon"
    BY <1>1, <1>9 DEF MayFollow
  <2>2. UNCHANGED open /\ text' = IF c = "newline" THEN "code" ELSE "line"
    BY <1>1, <1>9 DEF ReadText, Become, Between
  <2> QED BY <1>1, <1>2, <1>3, <1>9, <2>1, <2>2 DEF Passes
<1> QED BY <1>1, <1>4, <1>5, <1>6, <1>7, <1>8, <1>9

LEMMA FreshIs ==
  ASSUME ScriptInv
  PROVE  /\ Depth \in Nat /\ (Depth = 0 <=> open = <<>>)
         /\ Fresh <=> Depth >= 1 /\ open[Depth].verb = Unnamed
         /\ InOpaque <=> Hidden
<1>1. open \in Seq(Blocks) /\ Depth \in Nat /\ DOMAIN open = 1 .. Depth /\ (Depth = 0 <=> open = <<>>)
  BY LenProperties, EmptySeq DEF ScriptInv, Depth
<1>2. open # <<>> => Last(open) = open[Depth] /\ Depth >= 1
  BY <1>1, TopBlock
<1>3. \A i \in 2 .. Depth : open[i].verb \notin Opaque
  BY VerbsDiffer DEF ScriptInv
<1>4. InOpaque <=> Hidden
  <2>1. ASSUME InOpaque PROVE Hidden
    <3>1. PICK i \in 1 .. Depth : open[i].verb \in Opaque
      BY <1>1, <2>1 DEF InOpaque
    <3>2. i = 1
      BY <1>1, <1>3, <3>1
    <3> QED BY <1>1, <3>1, <3>2 DEF Hidden
  <2>2. ASSUME Hidden PROVE InOpaque
    BY <1>1, <2>2 DEF Hidden, InOpaque
  <2> QED BY <2>1, <2>2
<1>5. open # <<>> <=> Depth >= 1
  BY <1>1
<1> QED BY <1>1, <1>2, <1>4, <1>5, Zenon DEF Fresh

LEMMA AdmittedOutermost ==
  ASSUME NEW v, Admits(<<>>, v)
  PROVE  v # "const"
BY DEF Admits

LEMMA AdmittedInside ==
  ASSUME NEW around, around # <<>>, NEW v, Admits(around, v)
  PROVE  /\ v \in {"invoke", "const"}
         /\ Last(around).verb = "assert_return" /\ (\A i \in DOMAIN around : around[i].verb \notin Opaque)
              => v = IF Last(around).filled THEN "const" ELSE "invoke"
         /\ Last(around).verb = "const" => \E i \in DOMAIN around : around[i].verb \in Opaque
BY DEF Admits

LEMMA NamesBlockEffect ==
  ASSUME ScriptInv, NEW c, NamesBlock(c)
  PROVE  /\ Depth \in Nat \ {0} /\ Depth' = Depth /\ open[Depth].verb = Unnamed /\ open'[Depth].verb = c
         /\ \A i \in 1 .. Depth - 1 : open'[i] = open[i]
         /\ Depth = 1 => ~open'[1].filled
         /\ Hidden' <=> IF Depth = 1 THEN c \in Opaque ELSE Hidden
         /\ ScriptInv'
<1> DEFINE n == Depth
           b == [open[n] EXCEPT !.verb = c]
           around == Front(open)
<1>1. /\ open \in Seq(Blocks) /\ open # <<>> /\ n <= MaxDepth /\ Last(open).verb = Unnamed /\ c \in Verbs
      /\ Admits(around, c) /\ open' = [open EXCEPT ![n] = b] /\ n = Len(open)
  BY DEF ScriptInv, NamesBlock, Fresh, Depth
<1>2. /\ n \in Nat \ {0} /\ n \in 1 .. n /\ Last(open) = open[n] /\ open[n] \in Blocks
      /\ around \in Seq(Blocks) /\ Len(around) = n - 1 /\ \A i \in 1 .. n - 1 : around[i] = open[i]
  BY <1>1, TopBlock
<1>3. b \in Blocks /\ b.verb = c /\ b.filled = open[n].filled
  BY <1>1, <1>2 DEF Blocks
<1> HIDE DEF n, b, around
<1>4. /\ open' \in Seq(Blocks) /\ Len(open') = n
      /\ open'[n] = b /\ \A j \in 1 .. n - 1 : open'[j] = open[j]
  <2>1. open \in Seq(Blocks) /\ n \in 1 .. Len(open) /\ b \in Blocks /\ open' = [open EXCEPT ![n] = b]
    BY <1>1, <1>2, <1>3
  <2>2. /\ open' \in Seq(Blocks) /\ Len(open') = Len(open)
        /\ \A j \in 1 .. Len(open) : open'[j] = IF j = n THEN b ELSE open[j]
    BY ONLY <2>1, ExceptSeq
  <2>3. \A j \in 1 .. n - 1 : j \in 1 .. n /\ j # n
    BY <1>2
  <2> QED BY <1>1, <2>1, <2>2, <2>3
<1>5. n = 1 => c # "const"
  <2>1. n = 1 => around = <<>>
    BY <1>2, EmptySeq
  <2> QED BY <1>1, <2>1, AdmittedOutermost, Zenon
<1>6. n > 1 => around # <<>> /\ Last(around) = open[n - 1] /\ DOMAIN around = 1 .. n - 1
  <2>1. n > 1 => around # <<>>
    BY <1>2, EmptySeq
  <2>2. n > 1 => Last(around) = around[n - 1] /\ n - 1 \in 1 .. n - 1
    BY <1>2, <2>1 DEF Last
  <2> QED BY <1>2, <2>1, <2>2, LenProperties
<1>7. n > 1 => c \in {"invoke", "const"}
  BY <1>1, <1>6, AdmittedInside, Zenon
<1>8. n = 2 /\ open[1].verb = "assert_return" /\ open[1].filled => c = "const"
  <2> SUFFICES ASSUME n = 2, open[1].verb = "assert_return", open[1].filled PROVE c = "const"
    OBVIOUS
  <2>1. around # <<>> /\ Last(around) = open[1] /\ DOMAIN around = 1 .. 1 /\ around[1] = open[1]
    BY <1>2, <1>6
  <2>2. ~(\E i \in DOMAIN around : around[i].verb \in Opaque)
    BY <2>1 DEF Opaque, Unsupported
  <2> QED BY <1>1, <2>1, <2>2, AdmittedInside
<1>9. /\ \A i \in 1 .. n - 1 : open[i].verb # Unnamed
      /\ \A i \in 1 .. n : open[i].verb = Unnamed => ~open[i].filled
      /\ \A i \in 2 .. n : open[i].verb \in {Unnamed, "invoke", "const"}
      /\ n >= 1 => open[1].verb # "const"
      /\ n >= 2 /\ open[1].verb = "assert_return" /\ open[1].filled => n = 2 /\ open[2].verb \in {Unnamed, "const"}
  BY DEF ScriptInv, n
<1>10. Depth' = n /\ Depth = n
  BY <1>4 DEF Depth, n
<1>11. ScriptInv'
  <2>1. /\ \A i \in 1 .. n - 1 : open'[i].verb # Unnamed
        /\ \A i \in 1 .. n : open'[i].verb = Unnamed => ~open'[i].filled
        /\ \A i \in 2 .. n : open'[i].verb \in {Unnamed, "invoke", "const"}
    <3>1. \A i \in 1 .. n : i = n \/ (i \in 1 .. n - 1 /\ open'[i] = open[i])
      BY <1>2, <1>4
    <3>2. \A i \in 2 .. n : i \in 1 .. n /\ (i = n => n > 1)
      BY <1>2
    <3>3. open'[n].verb = c /\ c # Unnamed
      BY <1>1, <1>3, <1>4, VerbsDiffer
    <3>4. \A i \in 1 .. n - 1 : open'[i].verb # Unnamed
      BY <1>4, <1>9, Zenon
    <3>5. \A i \in 1 .. n : open'[i].verb = Unnamed => ~open'[i].filled
      BY <1>9, <3>1, <3>3, Zenon
    <3>6. \A i \in 2 .. n : open'[i].verb \in {Unnamed, "invoke", "const"}
      BY <1>7, <1>9, <3>1, <3>2, <3>3
    <3> QED BY <3>4, <3>5, <3>6
  <2>2. open'[1].verb # "const"
    <3>1. n = 1 \/ 1 \in 1 .. n - 1
      BY <1>2
    <3>2. n >= 1
      BY <1>2
    <3> QED BY <1>3, <1>4, <1>5, <1>9, <3>1, <3>2, Zenon
  <2>3. n >= 2 /\ open'[1].verb = "assert_return" /\ open'[1].filled => n = 2 /\ open'[2].verb \in {Unnamed, "const"}
    <3> SUFFICES ASSUME n >= 2, open'[1].verb = "assert_return", open'[1].filled
                 PROVE  n = 2 /\ open'[2].verb \in {Unnamed, "const"}
      OBVIOUS
    <3>1. open'[1] = open[1]
      BY <1>2, <1>4
    <3>2. n = 2
      BY <1>9, <3>1
    <3>3. open'[2].verb = c /\ c = "const"
      BY <1>3, <1>4, <1>8, <3>1, <3>2, Zenon
    <3> QED BY <3>2, <3>3
  <2> QED BY <1>1, <1>4, <1>10, <2>1, <2>2, <2>3 DEF ScriptInv
<1>12. Hidden' <=> IF n = 1 THEN c \in Opaque ELSE Hidden
  <2>1. 1 \in 1 .. n /\ n >= 1 /\ Opaque' = Opaque
    BY <1>2 DEF Opaque, Unsupported
  <2>2. n = 1 => open'[1].verb = c
    BY <1>3, <1>4, <2>1
  <2>3. n # 1 => open'[1] = open[1]
    BY <1>4, <2>1
  <2> QED BY <1>10, <2>1, <2>2, <2>3 DEF Hidden
<1>13. /\ open[n].verb = Unnamed /\ open'[n].verb = c /\ \A i \in 1 .. n - 1 : open'[i] = open[i]
       /\ n = 1 => ~open'[1].filled
  <2>1. open[n].verb = Unnamed /\ ~open[n].filled
    BY <1>1, <1>2, <1>9, Zenon
  <2> QED BY <1>3, <1>4, <2>1, Zenon
<1> QED BY <1>2, <1>10, <1>11, <1>12, <1>13

LEMMA OpensEffect ==
  ASSUME ScriptInv, NEW c, Opens(c)
  PROVE  /\ Depth \in Nat /\ Depth' = Depth + 1 /\ Depth' <= MaxDepth /\ open'[Depth'].verb = Unnamed
         /\ \A i \in 1 .. Depth : open'[i] = open[i]
         /\ Depth = 0 => ~open'[1].filled
         /\ Hidden' <=> Hidden
         /\ ScriptInv'
<1> DEFINE n == Depth
           b == [verb |-> Unnamed, filled |-> FALSE]
<1>1. /\ open \in Seq(Blocks) /\ n <= MaxDepth /\ ~Fresh /\ MayOpen /\ open' = Append(open, b)
      /\ n = Len(open) /\ n \in Nat /\ (n = 0 <=> open = <<>>) /\ b \in Blocks
      /\ b.verb = Unnamed /\ b.filled = FALSE
  BY FreshIs DEF ScriptInv, Opens, Blocks, Depth
<1>2. /\ \A i \in 1 .. n - 1 : open[i].verb # Unnamed
      /\ \A i \in 1 .. n : open[i].verb = Unnamed => ~open[i].filled
      /\ \A i \in 2 .. n : open[i].verb \in {Unnamed, "invoke", "const"}
      /\ n >= 1 => open[1].verb # "const" /\ open[n].verb # Unnamed
      /\ n >= 2 /\ open[1].verb = "assert_return" /\ open[1].filled => n = 2 /\ open[2].verb \in {Unnamed, "const"}
  BY <1>1, FreshIs DEF ScriptInv
<1> HIDE DEF n, b
<1>3. /\ open' \in Seq(Blocks) /\ Len(open') = n + 1
      /\ open'[n + 1] = b /\ \A i \in 1 .. n : open'[i] = open[i]
  <2>1. open \in Seq(Blocks) /\ b \in Blocks /\ open' = Append(open, b)
    BY <1>1
  <2>2. /\ open' \in Seq(Blocks) /\ Len(open') = Len(open) + 1
        /\ \A i \in 1 .. Len(open) : open'[i] = open[i]
        /\ open'[Len(open) + 1] = b
    BY ONLY <2>1, AppendProperties
  <2> QED BY <1>1, <2>2
<1>4. Depth' = n + 1 /\ Depth = n
  BY <1>3 DEF Depth, n
<1>5. n < MaxDepth
  BY <1>1 DEF MayOpen, n
<1>6. n = 2 => ~(open[1].verb = "assert_return" /\ open[1].filled)
  <2> SUFFICES ASSUME n = 2, open[1].verb = "assert_return", open[1].filled PROVE FALSE
    OBVIOUS
  <2>1. open[2].verb = "const"
    BY <1>1, <1>2
  <2>2. PICK v \in Verbs : Admits(open, v)
    BY <1>1 DEF MayOpen
  <2>3. open # <<>> /\ Last(open) = open[2]
    BY <1>1, TopBlock DEF n
  <2>4. InOpaque
    BY <2>1, <2>2, <2>3, AdmittedInside, Zenon DEF InOpaque
  <2> QED BY <2>4, FreshIs DEF Hidden, Opaque, Unsupported
<1>7. ScriptInv'
  <2>1. \A i \in 1 .. n : i \in 1 .. n - 1 \/ (i = n /\ n >= 1)
    BY <1>1
  <2>2. \A i \in 1 .. n + 1 : i \in 1 .. n \/ i = n + 1
    BY <1>1
  <2>3. \A i \in 2 .. n + 1 : i \in 2 .. n \/ i = n + 1
    BY <1>1
  <2>4. \A i \in 2 .. n : i \in 1 .. n
    BY <1>1
  <2>5. \A i \in 1 .. n : open'[i].verb # Unnamed
    BY <1>2, <1>3, <2>1, Zenon
  <2>6. \A i \in 1 .. n + 1 : open'[i].verb = Unnamed => ~open'[i].filled
    <3>1. ~b.filled
      BY <1>1
    <3> QED BY <1>2, <1>3, <2>2, <3>1, Zenon
  <2>7. \A i \in 2 .. n + 1 : open'[i].verb \in {Unnamed, "invoke", "const"}
    <3>1. b.verb = Unnamed
      BY <1>1
    <3> QED BY <1>2, <1>3, <2>3, <2>4, <3>1, Zenon
  <2>8. open'[1].verb # "const"
    <3>1. n = 0 => open'[1] = b
      BY <1>3
    <3>2. n # 0 => n >= 1 /\ 1 \in 1 .. n
      BY <1>1
    <3>3. b.verb # "const"
      BY <1>1, VerbsDiffer
    <3> QED BY <1>2, <1>3, <3>1, <3>2, <3>3, Zenon
  <2>9. n + 1 >= 2 /\ open'[1].verb = "assert_return" /\ open'[1].filled
          => n + 1 = 2 /\ open'[2].verb \in {Unnamed, "const"}
    <3> SUFFICES ASSUME n + 1 >= 2, open'[1].verb = "assert_return", open'[1].filled
                 PROVE  n + 1 = 2 /\ open'[2].verb \in {Unnamed, "const"}
      OBVIOUS
    <3>1. n >= 1 /\ open'[1] = open[1]
      BY <1>1, <1>3
    <3>2. n < 2
      BY <1>1, <1>2, <1>6, <3>1
    <3>3. n = 1
      BY <1>1, <3>1, <3>2
    <3> QED BY <1>1, <1>3, <3>3
  <2>10. n + 1 <= MaxDepth /\ n + 1 - 1 = n
    BY <1>1, <1>5, ScriptAssumption
  <2>11. \A i \in 1 .. Depth' - 1 : open'[i].verb # Unnamed
    <3>1. Depth' - 1 = n
      BY <1>1, <1>4
    <3> QED BY ONLY <2>5, <3>1
  <2> QED BY <1>3, <1>4, <2>6, <2>7, <2>8, <2>9, <2>10, <2>11 DEF ScriptInv
<1>8. Hidden' <=> Hidden
  <2>1. Opaque' = Opaque /\ Unnamed \notin Opaque
    <3>1. Opaque' = Opaque
      BY DEF Opaque, Unsupported
    <3> QED BY <3>1, VerbsDiffer
  <2>2. CASE n = 0
    <3>1. open'[1].verb = Unnamed /\ ~(Depth >= 1)
      BY <1>1, <1>3, <1>4, <2>2
    <3> QED BY <2>1, <3>1 DEF Hidden
  <2>3. CASE n # 0
    <3>1. n >= 1 /\ n + 1 >= 1 /\ open'[1] = open[1]
      BY <1>1, <1>3, <2>3
    <3> QED BY <1>4, <2>1, <3>1 DEF Hidden
  <2> QED BY <2>2, <2>3
<1>9. n = 0 => ~open'[1].filled
  BY <1>1, <1>3
<1>10. n + 1 <= MaxDepth
  BY <1>1, <1>5, ScriptAssumption
<1> QED BY <1>1, <1>3, <1>4, <1>7, <1>8, <1>9, <1>10

(* A block that closes leaves the ones around it as they are, but for the  *)
(* invoke that the innermost of them has now had.                          *)
LEMMA ClosesEffect ==
  ASSUME ScriptInv, NEW c, Closes(c)
  PROVE  /\ Depth \in Nat \ {0} /\ Depth' = Depth - 1 /\ open[Depth].verb # Unnamed
         /\ \A i \in 1 .. Depth - 1 :
              /\ open'[i].verb = open[i].verb
              /\ open'[i].filled => open[i].filled \/ (i = Depth - 1 /\ open[Depth].verb = "invoke")
         /\ open[Depth].verb = "assert_return" /\ ~Hidden => open[Depth].filled
         /\ ScriptInv'
<1> DEFINE n == Depth
           front == Front(open)
           b == [front[n - 1] EXCEPT !.filled = TRUE]
<1>1. /\ open \in Seq(Blocks) /\ open # <<>> /\ n <= MaxDepth /\ ~Fresh
      /\ open' = IF n > 1 /\ Last(open).verb = "invoke" THEN Filled(front) ELSE front
  BY DEF ScriptInv, Closes, MayClose
<1>2. /\ n \in Nat \ {0} /\ Last(open) = open[n] /\ front \in Seq(Blocks) /\ Len(front) = n - 1
      /\ \A i \in 1 .. n - 1 : front[i] = open[i]
      /\ open[n].verb # Unnamed
  BY <1>1, TopBlock, FreshIs
<1>3. /\ \A i \in 1 .. n - 1 : open[i].verb # Unnamed
      /\ \A i \in 2 .. n : open[i].verb \in {Unnamed, "invoke", "const"}
      /\ n >= 1 => open[1].verb # "const"
      /\ n >= 2 /\ open[1].verb = "assert_return" /\ open[1].filled => n = 2 /\ open[2].verb \in {Unnamed, "const"}
  BY DEF ScriptInv
<1> HIDE DEF n, front
<1>4. /\ open' \in Seq(Blocks) /\ Len(open') = n - 1
      /\ \A i \in 1 .. n - 1 :
           /\ open'[i].verb = open[i].verb
           /\ open'[i].filled => open[i].filled \/ (i = n - 1 /\ open[n].verb = "invoke")
  <2>1. CASE ~(n > 1 /\ open[n].verb = "invoke")
    BY <1>1, <1>2, <2>1
  <2>2. CASE n > 1 /\ open[n].verb = "invoke"
    <3>1. n - 1 \in 1 .. n - 1 /\ n - 1 \in 1 .. Len(front) /\ front[n - 1] = open[n - 1]
      BY <1>2, <2>2
    <3>2. front[n - 1] \in Blocks
      BY <1>2, <3>1, ElementOfSeq
    <3>3. b \in Blocks /\ b.verb = open[n - 1].verb
      BY <3>1, <3>2 DEF Blocks
    <3>4. open' = [front EXCEPT ![n - 1] = b]
      BY <1>1, <1>2, <2>2 DEF Filled
    <3> HIDE DEF b
    <3>5. /\ open' \in Seq(Blocks) /\ Len(open') = Len(front)
          /\ \A j \in 1 .. Len(front) : open'[j] = IF j = n - 1 THEN b ELSE front[j]
      <4>1. front \in Seq(Blocks) /\ n - 1 \in 1 .. Len(front) /\ b \in Blocks /\ open' = [front EXCEPT ![n - 1] = b]
        BY <1>2, <3>1, <3>3, <3>4
      <4> QED BY ONLY <4>1, ExceptSeq
    <3>6. \A j \in 1 .. n - 1 : (open'[j] = b /\ j = n - 1) \/ open'[j] = open[j]
      BY <1>2, <3>5
    <3> QED BY <1>2, <2>2, <3>3, <3>5, <3>6
  <2> QED BY <2>1, <2>2
<1>5. Depth' = n - 1 /\ Depth = n
  BY <1>4 DEF Depth, n
<1>6. ScriptInv'
  <2>1. \A i \in 1 .. n - 1 - 1 : i \in 1 .. n - 1
    BY <1>2
  <2>2. \A i \in 2 .. n - 1 : i \in 1 .. n - 1 /\ i \in 2 .. n
    BY <1>2
  <2>3. \A i \in 1 .. n - 1 - 1 : open'[i].verb # Unnamed
    BY <1>3, <1>4, <2>1, Zenon
  <2>4. \A i \in 1 .. n - 1 : open'[i].verb = Unnamed => ~open'[i].filled
    BY <1>3, <1>4, Zenon
  <2>5. \A i \in 2 .. n - 1 : open'[i].verb \in {Unnamed, "invoke", "const"}
    BY <1>3, <1>4, <2>2, Zenon
  <2>6. n - 1 >= 1 => open'[1].verb # "const"
    <3>1. n - 1 >= 1 => 1 \in 1 .. n - 1 /\ n >= 1
      BY <1>2
    <3> QED BY <1>3, <1>4, <3>1, Zenon
  <2>7. n - 1 >= 2 /\ open'[1].verb = "assert_return" /\ open'[1].filled
          => n - 1 = 2 /\ open'[2].verb \in {Unnamed, "const"}
    <3> SUFFICES ASSUME n - 1 >= 2, open'[1].verb = "assert_return", open'[1].filled PROVE FALSE
      OBVIOUS
    <3>1. 1 \in 1 .. n - 1 /\ 1 # n - 1 /\ n >= 2 /\ n # 2
      BY <1>2
    <3>2. open[1].verb = "assert_return" /\ open[1].filled
      BY <1>4, <3>1, Zenon
    <3> QED BY <1>3, <3>1, <3>2, Zenon
  <2>8. n - 1 <= MaxDepth
    BY <1>1, <1>2, ScriptAssumption
  <2> QED BY <1>4, <1>5, <2>3, <2>4, <2>5, <2>6, <2>7, <2>8 DEF ScriptInv
<1>7. open[n].verb = "assert_return" /\ ~Hidden => open[n].filled
  <2>1. Last(open).verb \in {"invoke", "assert_return"} /\ ~InOpaque => Last(open).filled
    BY DEF Closes, MayClose
  <2> QED BY <1>2, <2>1, FreshIs, Zenon DEF n
<1> QED BY <1>2, <1>4, <1>5, <1>6, <1>7

LEMMA PassesEffect ==
  ASSUME ScriptInv, SameBlocks
  PROVE  /\ Depth \in Nat /\ Depth' = Depth /\ (open = <<>> <=> open' = <<>>)
         /\ Fresh' <=> Fresh
         /\ Hidden' <=> Hidden
         /\ \A i \in 1 .. Depth : /\ open'[i].verb = open[i].verb
                                  /\ open[i].verb # "invoke" => open'[i].filled = open[i].filled
         /\ ScriptInv'
<1>1. /\ Depth \in Nat /\ open' \in Seq(Blocks) /\ Len(open') = Depth /\ Depth' = Depth
      /\ \A i \in 1 .. Depth : /\ open'[i].verb = open[i].verb
                               /\ open[i].verb # "invoke" => open'[i].filled = open[i].filled
  BY FreshIs DEF SameBlocks, Depth
<1>2. open = <<>> <=> open' = <<>>
  <2>1. Len(open) = Len(open') /\ open \in Seq(Blocks)
    BY <1>1 DEF Depth, ScriptInv
  <2> QED BY ONLY <1>1, <2>1, EmptySeq
<1>3. Fresh' <=> Fresh
  <2>1. CASE open = <<>>
    BY <1>2, <2>1 DEF Fresh
  <2>2. CASE open # <<>>
    <3>1. open \in Seq(Blocks)
      BY DEF ScriptInv
    <3>2. Last(open) = open[Depth] /\ Depth \in 1 .. Depth
      BY <2>2, <3>1, TopBlock
    <3>3. Last(open') = open'[Depth]
      BY <1>1 DEF Last
    <3>4. Last(open').verb = Last(open).verb
      BY <1>1, <3>2, <3>3, Zenon
    <3> QED BY <1>2, <2>2, <3>4 DEF Fresh, Unnamed
  <2> QED BY <2>1, <2>2
<1>4. Depth >= 1 => 1 \in 1 .. Depth
  BY <1>1
<1>5. Hidden' <=> Hidden
  BY <1>1, <1>4, Zenon DEF Hidden, Opaque, Unsupported
<1>6. ScriptInv'
  <2>1. /\ \A i \in 1 .. Depth - 1 : i \in 1 .. Depth /\ open[i].verb # Unnamed
        /\ \A i \in 2 .. Depth : i \in 1 .. Depth /\ open[i].verb \in {Unnamed, "invoke", "const"}
    BY <1>1 DEF ScriptInv
  <2>2. /\ \A i \in 1 .. Depth - 1 : open'[i].verb # Unnamed
        /\ \A i \in 2 .. Depth : open'[i].verb \in {Unnamed, "invoke", "const"}
    BY <1>1, <2>1, Zenon
  <2>3. \A i \in 1 .. Depth : open'[i].verb = Unnamed => ~open'[i].filled
    <3>1. \A i \in 1 .. Depth : open[i].verb = Unnamed => ~open[i].filled
      BY DEF ScriptInv
    <3>2. Unnamed # "invoke"
      BY VerbsDiffer
    <3> QED BY <1>1, <3>1, <3>2, Zenon
  <2>4. Depth >= 1 => open'[1].verb # "const"
    <3>1. Depth >= 1 => open[1].verb # "const"
      BY DEF ScriptInv
    <3> QED BY <1>1, <1>4, <3>1, Zenon
  <2>5. Depth >= 2 /\ open'[1].verb = "assert_return" /\ open'[1].filled
          => Depth = 2 /\ open'[2].verb \in {Unnamed, "const"}
    <3>1. Depth >= 2 /\ open[1].verb = "assert_return" /\ open[1].filled
            => Depth = 2 /\ open[2].verb \in {Unnamed, "const"}
      BY DEF ScriptInv
    <3>2. Depth >= 2 => 1 \in 1 .. Depth /\ 2 \in 1 .. Depth
      BY <1>1
    <3> QED BY <1>1, <3>1, <3>2, Zenon
  <2>6. Depth <= MaxDepth
    BY DEF ScriptInv
  <2> QED BY <1>1, <2>2, <2>3, <2>4, <2>5, <2>6 DEF ScriptInv
<1> QED BY <1>1, <1>2, <1>3, <1>5, <1>6


-----------------------------------------------------------------------------
(* What the host knows of the script between two characters.               *)

LEMMA ModeCases ==
  ASSUME ModeInv
  PROVE  /\ EndsVerb <=> Mode = "Command"
         /\ text = "code" => Modes = <<"Whitespace">> /\ Last(Modes) = "Whitespace"
         /\ text \in {"string", "escape"} =>
              /\ ~EndsVerb /\ Modes = stackMode /\ stackMode = <<"Whitespace", "Quote">>
              /\ Last(Modes) = "Quote" /\ Front(Modes) = <<"Whitespace">>
         /\ text \in {"semicolon", "line"} =>
              /\ ~EndsVerb /\ Modes = stackMode /\ stackMode = <<"Whitespace", "Comment">>
              /\ Last(Modes) = "Comment" /\ Front(Modes) = <<"Whitespace">>
<1>1. EndsVerb <=> Mode = "Command"
  BY DEF EndsVerb, Mode
<1>2. ASSUME text = "code" PROVE Modes = <<"Whitespace">>
  <2>1. CASE stackMode = <<"Whitespace">>
    BY <2>1, ModeFacts DEF Modes, EndsVerb
  <2>2. CASE stackMode = <<"Whitespace", "Command">>
    BY <2>2, ModeFacts DEF Modes, EndsVerb
  <2> QED BY <1>2, <2>1, <2>2 DEF ModeInv
<1>3. ASSUME text \in {"string", "escape"} PROVE ~EndsVerb /\ stackMode = <<"Whitespace", "Quote">>
  BY <1>3, ModeFacts DEF ModeInv, EndsVerb
<1>4. ASSUME text \in {"semicolon", "line"} PROVE ~EndsVerb /\ stackMode = <<"Whitespace", "Comment">>
  BY <1>4, ModeFacts DEF ModeInv, EndsVerb
<1>5. ~EndsVerb => Modes = stackMode
  BY DEF Modes
<1> QED BY <1>1, <1>2, <1>3, <1>4, <1>5, ModeFacts

(* Inside a block, the host goes into what opens unless it must not.       *)
LEMMA NestingIs ==
  ASSUME TypeOK, ScriptInv, CommandInv
  PROVE  /\ Depth >= 1 => (Nesting <=> ~Hidden)
         /\ Nesting \in BOOLEAN
         /\ stackstrCmd # <<>> => Last(stackstrCmd) = open[Len(stackstrCmd)].verb
         /\ Depth >= 1 => stackstrCmd # <<>> /\ Len(stackstrCmd) \in 1 .. Depth
         /\ Depth = 0 => stackstrCmd = <<>>
<1>1. /\ Depth \in Nat /\ stackstrCmd \in Seq(Verbs \cup {Unnamed})
      /\ Len(stackstrCmd) \in Nat /\ (stackstrCmd = <<>> <=> Len(stackstrCmd) = 0)
      /\ Len(stackstrCmd) = IF Hidden THEN 1 ELSE Depth
      /\ \A i \in 1 .. Len(stackstrCmd) : stackstrCmd[i] = open[i].verb
  BY FreshIs, EmptySeq, LenProperties DEF TypeOK, CommandInv
<1>2. Hidden => Depth >= 1
  BY DEF Hidden
<1>3. stackstrCmd # <<>> => Last(stackstrCmd) = open[Len(stackstrCmd)].verb
  BY <1>1 DEF Last
<1>4. Depth >= 1 => stackstrCmd # <<>> /\ Len(stackstrCmd) \in 1 .. Depth
  BY <1>1, <1>2
<1>5. Depth = 0 => stackstrCmd = <<>>
  BY <1>1, <1>2
<1>6. ASSUME Depth >= 1 PROVE Nesting <=> ~Hidden
  <2>1. CASE EndsVerb
    <3>1. Len(stackstrCmd) = Depth
      BY <2>1 DEF CommandInv, Mode, EndsVerb
    <3>2. Last(stackstrCmd) = open[Depth].verb
      BY <1>3, <1>4, <1>6, <3>1
    <3>3. Nests(Last(stackstrCmd)) <=> open[Depth].verb \notin Opaque
      BY <3>2 DEF Nests, Opaque
    <3>4. CASE Depth = 1
      BY <1>6, <2>1, <3>3, <3>4 DEF Nesting, Hidden
    <3>5. CASE Depth # 1
      <4>1. ~Hidden /\ Depth \in 2 .. Depth
        BY <1>1, <1>6, <3>1, <3>5
      <4>2. open[Depth].verb \notin Opaque
        BY <4>1, VerbsDiffer DEF ScriptInv
      <4> QED BY <2>1, <3>3, <4>1, <4>2 DEF Nesting
    <3> QED BY <3>4, <3>5
  <2>2. CASE ~EndsVerb
    BY <1>6, <2>2 DEF Nesting, CommandInv, Mode, EndsVerb
  <2> QED BY <2>1, <2>2
<1>7. Nesting \in BOOLEAN
  BY DEF Nesting, Nests, TypeOK
<1> QED BY <1>3, <1>4, <1>5, <1>6, <1>7

(* The types follow from the rest of the invariant and these.              *)
LEMMA Types ==
  ASSUME ModeInv', CommandInv',
         stackstrCmd' \in Seq(Verbs \cup {Unnamed}), fEscapeLast' \in BOOLEAN, fCommentLast' \in BOOLEAN,
         fNestCmd' \in BOOLEAN, cblock' \in Int, ctxt' \in BOOLEAN,
         status' \in {"running", "success", "terminated", "crashed", "aborted"},
         lastExec' \in Value \cup {NoValue}, expected' \in Value \cup {NoValue},
         verdict' \in {"none", "passed", "failed"}
  PROVE  TypeOK'
<1>1. stackMode' \in {<<"Whitespace">>} \cup {<<"Whitespace", m>> : m \in {"Command", "Quote", "Comment"}}
  BY DEF ModeInv
<1>2. stackoffsetBlockStart' \in [DOMAIN (stackstrCmd') -> 1 .. MaxDepth]
  <2>1. /\ stackoffsetBlockStart' \in Seq(1 .. MaxDepth)
        /\ Len(stackoffsetBlockStart') = Len(stackstrCmd')
    BY DEF CommandInv
  <2>2. DOMAIN (stackstrCmd') = 1 .. Len(stackstrCmd')
    BY LenProperties
  <2>3. stackoffsetBlockStart' \in [1 .. Len(stackoffsetBlockStart') -> 1 .. MaxDepth]
    BY <2>1, LenProperties
  <2> QED BY <2>1, <2>2, <2>3
<1> QED BY <1>1, <1>2 DEF TypeOK

(* A step that processes no command is one that should not.                *)
LEMMA QuietStep ==
  ASSUME TypeOK, OwnInv, status = "running", Quiet, due' = NoCommand,
         Depth' >= 1 /\ open'[1].verb = "assert_return" /\ open'[1].filled
           => Depth >= 1 /\ open[1].verb = "assert_return" /\ open[1].filled
  PROVE  /\ OwnInv' /\ CommandsAreBlocks' /\ AssertionsAreTrue' /\ EndsCleanly'
         /\ ctxt' \in BOOLEAN /\ status' \in {"running", "success", "terminated", "crashed", "aborted"}
         /\ lastExec' \in Value \cup {NoValue} /\ expected' \in Value \cup {NoValue}
         /\ verdict' \in {"none", "passed", "failed"}
<1>1. UNCHANGED <<status, ctxt, lastExec, expected, own>> /\ ran' = NoCommand /\ verdict' = "none"
  BY DEF Quiet, execVars
<1>2. OwnInv'
  BY <1>1 DEF OwnInv
<1>3. CommandsAreBlocks' /\ AssertionsAreTrue' /\ EndsCleanly'
  BY <1>1 DEF CommandsAreBlocks, AssertionsAreTrue, EndsCleanly
<1> QED BY <1>1, <1>2, <1>3 DEF TypeOK

-----------------------------------------------------------------------------
(* The steps of the host that process no command.                          *)

(* A character that neither opens, names nor closes a block.               *)
LEMMA PassingStep ==
  ASSUME IInv, NEW c \in Chars, Passes(c), Consume(c), NoEvent, ~Fresh,
         cblock' = cblock, fNestCmd' = Nesting,
         ModeInv', Mode' # "Command"
  PROVE  IInv'
<1>1. TypeOK /\ ScriptInv /\ ModeInv /\ CommandInv /\ OwnInv /\ status = "running"
  BY DEF IInv, Consume, Read
<1>2. /\ Depth \in Nat /\ Depth' = Depth /\ ~Fresh' /\ (Hidden' <=> Hidden) /\ ScriptInv'
      /\ \A i \in 1 .. Depth : /\ open'[i].verb = open[i].verb
                               /\ open[i].verb # "invoke" => open'[i].filled = open[i].filled
  BY <1>1, PassesEffect DEF Passes
<1>3. CommandInv'
  <2>1. /\ cblock' = cblock /\ stackstrCmd' = stackstrCmd /\ stackoffsetBlockStart' = stackoffsetBlockStart
        /\ fNestCmd' = Nesting
    BY DEF NoEvent, cmdVars
  <2>2. \A i \in 1 .. Len(stackstrCmd) : stackstrCmd[i] = open'[i].verb
    <3>1. \A i \in 1 .. Len(stackstrCmd) : i \in 1 .. Depth
      BY <1>1, <1>2 DEF CommandInv, Hidden
    <3> QED BY <1>1, <1>2, <3>1, Zenon DEF CommandInv
  <2>3. Depth >= 1 => (Nesting <=> ~Hidden)
    BY <1>1, NestingIs
  <2> QED BY <1>1, <1>2, <2>1, <2>2, <2>3 DEF CommandInv
<1>4. Quiet /\ due' = NoCommand
  BY DEF NoEvent, Passes
<1>5. Depth' >= 1 /\ open'[1].verb = "assert_return" /\ open'[1].filled
        => Depth >= 1 /\ open[1].verb = "assert_return" /\ open[1].filled
  <2>1. Depth >= 1 => 1 \in 1 .. Depth
    BY <1>2
  <2>2. "assert_return" # "invoke"
    OBVIOUS
  <2> QED BY <1>2, <2>1, <2>2, Zenon
<1>6. /\ OwnInv' /\ CommandsAreBlocks' /\ AssertionsAreTrue' /\ EndsCleanly'
      /\ ctxt' \in BOOLEAN /\ status' \in {"running", "success", "terminated", "crashed", "aborted"}
      /\ lastExec' \in Value \cup {NoValue} /\ expected' \in Value \cup {NoValue}
      /\ verdict' \in {"none", "passed", "failed"}
  BY <1>1, <1>4, <1>5, QuietStep
<1>7. TypeOK'
  <2>1. stackstrCmd' \in Seq(Verbs \cup {Unnamed}) /\ cblock' \in Int
    BY <1>1 DEF NoEvent, cmdVars, TypeOK
  <2>2. fEscapeLast' \in BOOLEAN /\ fCommentLast' \in BOOLEAN
    BY DEF Consume
  <2>3. fNestCmd' \in BOOLEAN
    BY <1>1, NestingIs
  <2> QED BY <1>3, <1>6, <2>1, <2>2, <2>3, Types
<1> QED BY <1>2, <1>3, <1>6, <1>7 DEF IInv

(* The name of a block, which the host keeps or does not look for.         *)
LEMMA NamingStep ==
  ASSUME IInv, NEW c \in Verbs, status = "running", NamesBlock(c), Quiet,
         UNCHANGED <<stackMode, cblock, fNestCmd, stackoffsetBlockStart>>,
         fEscapeLast' \in BOOLEAN, fCommentLast' \in BOOLEAN,
         stackstrCmd' = IF Mode = "Command" THEN [stackstrCmd EXCEPT ![Len(stackstrCmd)] = c] ELSE stackstrCmd
  PROVE  IInv'
<1> DEFINE n == Depth
<1>1. TypeOK /\ ScriptInv /\ ModeInv /\ CommandInv /\ OwnInv /\ Fresh /\ text = "code" /\ text' = "code"
  BY DEF IInv, NamesBlock
<1>2. /\ n \in Nat \ {0} /\ Depth' = n /\ open[n].verb = Unnamed /\ open'[n].verb = c
      /\ \A i \in 1 .. n - 1 : open'[i] = open[i]
      /\ n = 1 => ~open'[1].filled
      /\ Hidden' <=> IF n = 1 THEN c \in Opaque ELSE Hidden
      /\ ScriptInv'
  BY <1>1, NamesBlockEffect
<1>3. ~Fresh'
  <2>1. open' # <<>> /\ Last(open') = open'[n]
    <3>1. open' \in Seq(Blocks) /\ Len(open') = n
      BY <1>2 DEF ScriptInv, Depth
    <3>2. open' # <<>>
      BY <1>2, <3>1, EmptySeq
    <3> QED BY <3>1, <3>2 DEF Last
  <2>2. c # Unnamed
    BY VerbsDiffer
  <2> QED BY <1>2, <2>1, <2>2, Zenon DEF Fresh, Unnamed
<1>4. ModeInv'
  BY <1>1, <1>3 DEF ModeInv
<1>5. Mode' = Mode /\ (Mode = "Command" => n = Len(stackstrCmd) /\ ~(n > 1 /\ Hidden))
  BY <1>1, <1>2 DEF Mode, CommandInv
<1>6. CommandInv' /\ stackstrCmd' \in Seq(Verbs \cup {Unnamed})
  <2>1. CASE Mode = "Command"
    <3>1. stackstrCmd \in Seq(Verbs \cup {Unnamed}) /\ n \in 1 .. Len(stackstrCmd) /\ c \in Verbs \cup {Unnamed}
          /\ stackstrCmd' = [stackstrCmd EXCEPT ![n] = c]
      <4>1. stackstrCmd \in Seq(Verbs \cup {Unnamed})
        BY <1>1 DEF TypeOK
      <4>2. n = Len(stackstrCmd) /\ n \in 1 .. n
        BY <1>2, <1>5, <2>1
      <4> HIDE DEF n
      <4>3. stackstrCmd' = [stackstrCmd EXCEPT ![n] = c]
        BY <2>1, <4>2
      <4> QED BY <4>1, <4>2, <4>3
    <3>2. /\ stackstrCmd' \in Seq(Verbs \cup {Unnamed}) /\ Len(stackstrCmd') = Len(stackstrCmd)
          /\ \A j \in 1 .. Len(stackstrCmd) : stackstrCmd'[j] = IF j = n THEN c ELSE stackstrCmd[j]
      BY ONLY <3>1, ExceptSeq
    <3> HIDE DEF n
    <3>3. \A i \in 1 .. n : i = n \/ i \in 1 .. n - 1
      BY <1>2
    <3>4. \A i \in 1 .. n : stackstrCmd'[i] = open'[i].verb /\ stackoffsetBlockStart'[i] = i
      <4>1. \A i \in 1 .. n : stackstrCmd[i] = open[i].verb /\ stackoffsetBlockStart[i] = i
        BY <1>1, <1>5, <2>1 DEF CommandInv
      <4>2. stackstrCmd'[n] = c /\ \A i \in 1 .. n - 1 : stackstrCmd'[i] = stackstrCmd[i] /\ i \in 1 .. n
        BY <1>2, <1>5, <2>1, <3>2
      <4>3. stackoffsetBlockStart' = stackoffsetBlockStart
        OBVIOUS
      <4> QED BY <1>2, <3>3, <4>1, <4>2, <4>3, Zenon
    <3>5. Len(stackstrCmd') = IF Hidden' THEN 1 ELSE n
      BY <1>2, <1>5, <2>1, <3>2
    <3>6. /\ cblock' = n /\ stackoffsetBlockStart' \in Seq(1 .. MaxDepth)
          /\ Len(stackoffsetBlockStart') = Len(stackstrCmd') /\ Len(stackstrCmd') = n
      BY <1>1, <1>5, <2>1, <3>2 DEF CommandInv, n
    <3> QED BY <1>2, <1>3, <1>5, <2>1, <3>2, <3>4, <3>5, <3>6 DEF CommandInv
  <2>2. CASE Mode # "Command"
    <3>1. Hidden /\ n # 1
      <4>1. Hidden
        BY <1>1, <2>2 DEF CommandInv
      <4>2. Unnamed \notin Opaque
        BY VerbsDiffer
      <4> QED BY <1>2, <4>1, <4>2 DEF Hidden
    <3>2. Hidden' /\ 1 \in 1 .. n - 1 /\ open'[1] = open[1]
      BY <1>2, <3>1
    <3>3. UNCHANGED <<stackstrCmd, stackoffsetBlockStart, cblock, fNestCmd>>
      BY <2>2
    <3>4. Len(stackstrCmd) = 1
      BY <1>1, <3>1 DEF CommandInv
    <3>5. \A i \in 1 .. Len(stackstrCmd) : stackstrCmd'[i] = open'[i].verb /\ stackoffsetBlockStart'[i] = i
      <4>1. stackstrCmd[1] = open[1].verb /\ stackoffsetBlockStart[1] = 1 /\ 1 \in 1 .. Len(stackstrCmd)
        BY <1>1, <3>4 DEF CommandInv
      <4>2. stackstrCmd'[1] = open'[1].verb /\ stackoffsetBlockStart'[1] = 1
        BY <3>2, <3>3, <4>1
      <4>3. \A i \in 1 .. Len(stackstrCmd) : i = 1
        BY <3>4
      <4> QED BY ONLY <4>2, <4>3
    <3>6. /\ cblock' = n /\ stackoffsetBlockStart' \in Seq(1 .. MaxDepth)
          /\ Len(stackoffsetBlockStart') = Len(stackstrCmd') /\ Len(stackstrCmd') = 1 /\ ~fNestCmd'
      BY <1>1, <1>2, <2>2, <3>1, <3>3, <3>4 DEF CommandInv
    <3>7. CommandInv'
      <4>1. /\ stackstrCmd' = stackstrCmd /\ Mode' # "Command" /\ ~Fresh' /\ Depth' = n
            /\ Len(stackstrCmd') = 1
        BY <1>2, <1>3, <1>5, <2>2, <3>3, <3>6
      <4> HIDE DEF n
      <4> QED BY ONLY <3>2, <3>5, <3>6, <4>1 DEF CommandInv
    <3> QED BY <1>1, <3>3, <3>7 DEF TypeOK
  <2> QED BY <2>1, <2>2
<1>7. Depth' >= 1 /\ open'[1].verb = "assert_return" /\ open'[1].filled
        => Depth >= 1 /\ open[1].verb = "assert_return" /\ open[1].filled
  <2>1. n = 1 \/ (n >= 1 /\ open'[1] = open[1])
    BY <1>2
  <2> QED BY <1>2, <2>1
<1>8. /\ OwnInv' /\ CommandsAreBlocks' /\ AssertionsAreTrue' /\ EndsCleanly'
      /\ ctxt' \in BOOLEAN /\ status' \in {"running", "success", "terminated", "crashed", "aborted"}
      /\ lastExec' \in Value \cup {NoValue} /\ expected' \in Value \cup {NoValue}
      /\ verdict' \in {"none", "passed", "failed"}
  <2>1. due' = NoCommand
    BY DEF NamesBlock
  <2> QED BY <1>1, <1>7, <2>1, QuietStep
<1>9. TypeOK'
  <2>1. fNestCmd' \in BOOLEAN /\ cblock' \in Int
    BY <1>1 DEF TypeOK
  <2> QED BY <1>4, <1>6, <1>8, <2>1, Types
<1> QED BY <1>2, <1>4, <1>6, <1>8, <1>9 DEF IInv

(* An opening parenthesis.                                                 *)
LEMMA OpeningStep ==
  ASSUME Syntax = {}, IInv, OpenBlock
  PROVE  IInv'
<1> DEFINE n == Depth
<1>1. /\ TypeOK /\ ScriptInv /\ ModeInv /\ CommandInv /\ OwnInv /\ status = "running"
      /\ Last(Modes) = "Whitespace" /\ Consume("(") /\ Quiet
      /\ fNestCmd' = Nesting /\ cblock' = cblock + 1
  BY DEF IInv, OpenBlock, Consume, Read
<1>2. Opens("(") /\ text = "code" /\ ~Fresh /\ text' = "code" /\ due' = NoCommand
  <2>1. text = "code"
    BY <1>1, ModeCases DEF ModeInv
  <2>2. "(" \in Chars /\ Read("(")
    BY <1>1 DEF Chars, Consume
  <2>3. NamesBlock("(") \/ Opens("(") \/ Closes("(") \/ Passes("(")
    BY <1>1, <2>2, ReadCases
  <2>4. Opens("(")
    BY <2>1, <2>3, VerbsDiffer DEF NamesBlock, Closes, Passes
  <2> QED BY <2>1, <2>4 DEF Opens
<1>3. /\ n \in Nat /\ Depth' = n + 1 /\ n + 1 <= MaxDepth /\ open'[n + 1].verb = Unnamed
      /\ \A i \in 1 .. n : open'[i] = open[i]
      /\ n = 0 => ~open'[1].filled
      /\ Hidden' <=> Hidden
      /\ ScriptInv'
  BY <1>1, <1>2, OpensEffect
<1>4. /\ Modes = <<"Whitespace">> /\ cblock = n /\ (n >= 1 => (Nesting <=> ~Hidden)) /\ Nesting \in BOOLEAN
      /\ (Hidden => n >= 1)
  BY <1>1, <1>2, ModeCases, NestingIs DEF CommandInv, Hidden
<1>5. (cblock = 0 \/ Nesting) <=> ~Hidden
  BY <1>3, <1>4
<1>6. /\ Hidden => stackMode' = <<"Whitespace">> /\ UNCHANGED cmdVars
      /\ ~Hidden => /\ stackMode' = <<"Whitespace", "Command">>
                    /\ stackstrCmd' = Append(stackstrCmd, Unnamed)
                    /\ stackoffsetBlockStart' = Append(stackoffsetBlockStart, n + 1)
  BY <1>4, <1>5, ModeFacts DEF OpenBlock
<1>7. ModeInv'
  BY <1>2, <1>6 DEF ModeInv
<1>8. Mode' = IF Hidden THEN "Whitespace" ELSE "Command"
  BY <1>6, ModeFacts DEF Mode
<1>9. CommandInv' /\ stackstrCmd' \in Seq(Verbs \cup {Unnamed})
  <2> HIDE DEF n
  <2>1. /\ stackstrCmd \in Seq(Verbs \cup {Unnamed}) /\ stackoffsetBlockStart \in Seq(1 .. MaxDepth)
        /\ Len(stackoffsetBlockStart) = Len(stackstrCmd)
        /\ Len(stackstrCmd) = IF Hidden THEN 1 ELSE n
        /\ \A i \in 1 .. Len(stackstrCmd) : stackstrCmd[i] = open[i].verb /\ stackoffsetBlockStart[i] = i
    BY <1>1 DEF CommandInv, TypeOK, n
  <2>2. CASE Hidden
    <3>1. UNCHANGED <<stackstrCmd, stackoffsetBlockStart>> /\ Len(stackstrCmd) = 1 /\ 1 \in 1 .. n
      BY <1>3, <1>4, <1>6, <2>1, <2>2 DEF cmdVars
    <3>2. \A i \in 1 .. Len(stackstrCmd) : stackstrCmd'[i] = open'[i].verb /\ stackoffsetBlockStart'[i] = i
      <4>1. \A i \in 1 .. Len(stackstrCmd) : i = 1 /\ open'[1] = open[1]
        BY <1>3, <3>1
      <4> QED BY <2>1, <3>1, <4>1, Zenon
    <3>3. /\ cblock' = Depth' /\ Mode' # "Command" /\ Hidden' /\ ~fNestCmd'
          /\ Len(stackstrCmd') = 1 /\ stackstrCmd' = stackstrCmd /\ stackoffsetBlockStart' = stackoffsetBlockStart
      BY <1>1, <1>3, <1>4, <1>8, <2>2, <3>1
    <3> QED BY ONLY <2>1, <3>2, <3>3 DEF CommandInv
  <2>3. CASE ~Hidden
    <3>1. /\ stackstrCmd' = Append(stackstrCmd, Unnamed) /\ Unnamed \in Verbs \cup {Unnamed}
          /\ stackoffsetBlockStart' = Append(stackoffsetBlockStart, n + 1) /\ n + 1 \in 1 .. MaxDepth
          /\ Len(stackstrCmd) = n
      BY <1>3, <1>6, <2>1, <2>3, ScriptAssumption
    <3>2. /\ stackstrCmd' \in Seq(Verbs \cup {Unnamed}) /\ Len(stackstrCmd') = Len(stackstrCmd) + 1
          /\ \A i \in 1 .. Len(stackstrCmd) : stackstrCmd'[i] = stackstrCmd[i]
          /\ stackstrCmd'[Len(stackstrCmd) + 1] = Unnamed
      BY ONLY <2>1, <3>1, AppendProperties
    <3>3. /\ stackoffsetBlockStart' \in Seq(1 .. MaxDepth)
          /\ Len(stackoffsetBlockStart') = Len(stackoffsetBlockStart) + 1
          /\ \A i \in 1 .. Len(stackoffsetBlockStart) : stackoffsetBlockStart'[i] = stackoffsetBlockStart[i]
          /\ stackoffsetBlockStart'[Len(stackoffsetBlockStart) + 1] = n + 1
      BY ONLY <2>1, <3>1, AppendProperties
    <3>4. \A i \in 1 .. n + 1 : stackstrCmd'[i] = open'[i].verb /\ stackoffsetBlockStart'[i] = i
      <4>1. \A i \in 1 .. n + 1 : i \in 1 .. n \/ i = n + 1
        BY <1>3
      <4>2. stackstrCmd'[n + 1] = open'[n + 1].verb /\ stackoffsetBlockStart'[n + 1] = n + 1
        BY <1>3, <2>1, <3>1, <3>2, <3>3
      <4>3. \A i \in 1 .. n : stackstrCmd'[i] = stackstrCmd[i] /\ stackoffsetBlockStart'[i] = stackoffsetBlockStart[i]
        BY <2>1, <3>1, <3>2, <3>3
      <4>4. \A i \in 1 .. n : stackstrCmd[i] = open[i].verb /\ stackoffsetBlockStart[i] = i
        BY <2>1, <3>1
      <4> QED BY <1>3, <4>1, <4>2, <4>3, <4>4, Zenon
    <3>5. /\ cblock' = n + 1 /\ Depth' = n + 1 /\ n + 1 >= 1 /\ Mode' = "Command" /\ ~Hidden'
          /\ Len(stackstrCmd') = n + 1 /\ Len(stackoffsetBlockStart') = n + 1
      BY <1>1, <1>3, <1>4, <1>8, <2>1, <2>3, <3>1, <3>2, <3>3
    <3>6. CommandInv'
      BY ONLY <3>3, <3>4, <3>5 DEF CommandInv
    <3> QED BY <3>2, <3>6
  <2> QED BY <2>1, <2>2, <2>3
<1>10. Depth' >= 1 /\ open'[1].verb = "assert_return" /\ open'[1].filled
        => Depth >= 1 /\ open[1].verb = "assert_return" /\ open[1].filled
  <2>1. n = 0 \/ (n >= 1 /\ open'[1] = open[1])
    BY <1>3
  <2> QED BY <1>3, <2>1
<1>11. /\ OwnInv' /\ CommandsAreBlocks' /\ AssertionsAreTrue' /\ EndsCleanly'
       /\ ctxt' \in BOOLEAN /\ status' \in {"running", "success", "terminated", "crashed", "aborted"}
       /\ lastExec' \in Value \cup {NoValue} /\ expected' \in Value \cup {NoValue}
       /\ verdict' \in {"none", "passed", "failed"}
  BY <1>1, <1>2, <1>10, QuietStep
<1>12. TypeOK'
  <2>1. fNestCmd' \in BOOLEAN /\ cblock' \in Int
    BY <1>1, <1>3, <1>4
  <2>2. fEscapeLast' \in BOOLEAN /\ fCommentLast' \in BOOLEAN
    BY <1>1 DEF Consume
  <2> QED BY <1>7, <1>9, <1>11, <2>1, <2>2, Types
<1> QED BY <1>3, <1>7, <1>9, <1>11, <1>12 DEF IInv

LEMMA LetterStep ==
  ASSUME Syntax = {}, IInv, NEW c \in Verbs, Letter(c)
  PROVE  IInv'
<1>1. /\ ScriptInv /\ ModeInv /\ Mode = "Command" /\ Read(c) /\ Quiet /\ c \in Chars /\ status = "running"
      /\ UNCHANGED <<stackMode, cblock, fNestCmd, stackoffsetBlockStart>>
      /\ fEscapeLast' \in BOOLEAN /\ fCommentLast' \in BOOLEAN
      /\ stackstrCmd' = [stackstrCmd EXCEPT ![Len(stackstrCmd)] = c]
  BY DEF IInv, Letter, Mode, Chars, Read
<1>2. NamesBlock(c)
  <2>1. NamesBlock(c) \/ Opens(c) \/ Closes(c) \/ Passes(c)
    BY <1>1, ReadCases
  <2> QED BY <2>1, VerbsDiffer DEF Opens, Closes, Passes
<1> QED BY <1>1, <1>2, NamingStep

LEMMA QuoteStep ==
  ASSUME Syntax = {}, IInv, NEW c \in Chars, InQuote(c)
  PROVE  IInv'
<1>1. /\ ScriptInv /\ ModeInv /\ Last(Modes) = "Quote" /\ Consume(c) /\ Read(c) /\ NoEvent
      /\ stackMode' = IF c = "quote" /\ ~fEscapeLast THEN Front(Modes) ELSE Modes
      /\ fNestCmd' = Nesting /\ cblock' = cblock /\ fEscapeLast' = (c = "backslash")
  BY DEF IInv, InQuote, Consume
<1>2. /\ text \in {"string", "escape"} /\ open # <<>> /\ ~Fresh
      /\ Modes = <<"Whitespace", "Quote">> /\ Front(Modes) = <<"Whitespace">>
      /\ text = "escape" => fEscapeLast
      /\ text = "string" => ~fEscapeLast
  BY <1>1, ModeCases DEF ModeInv
<1>3. Passes(c)
  <2>1. NamesBlock(c) \/ Opens(c) \/ Closes(c) \/ Passes(c)
    BY <1>1, ReadCases
  <2> QED BY <1>2, <2>1 DEF NamesBlock, Opens, Closes
<1>4. text' = IF text = "string" /\ c = "quote" THEN "code"
              ELSE IF text = "string" /\ c = "backslash" THEN "escape" ELSE "string"
  BY <1>2, <1>3 DEF Passes
<1>5. text = "escape" => c = "quote"
  BY <1>2, <1>3 DEF Passes
<1>6. stackMode' = IF text' = "code" THEN <<"Whitespace">> ELSE <<"Whitespace", "Quote">>
  BY <1>1, <1>2, <1>4
<1>7. ~Fresh' /\ open' # <<>>
  BY <1>1, <1>2, <1>3, PassesEffect DEF Passes
<1>8. ModeInv' /\ Mode' # "Command"
  <2>1. ModeInv'
    BY <1>1, <1>2, <1>4, <1>5, <1>6, <1>7 DEF ModeInv
  <2> QED BY <1>6, <2>1, ModeFacts DEF Mode
<1> QED BY <1>1, <1>2, <1>3, <1>8, PassingStep

LEMMA CommentStep ==
  ASSUME Syntax = {}, IInv, NEW c \in Chars, InComment(c)
  PROVE  IInv'
<1>1. /\ ScriptInv /\ ModeInv /\ Last(Modes) = "Comment" /\ Consume(c) /\ Read(c) /\ NoEvent
      /\ stackMode' = IF EndsComment(c) THEN Front(Modes) ELSE Modes
      /\ fNestCmd' = Nesting /\ cblock' = cblock
  BY DEF IInv, InComment, Consume
<1>2. /\ text \in {"semicolon", "line"} /\ ~Fresh
      /\ Modes = <<"Whitespace", "Comment">> /\ Front(Modes) = <<"Whitespace">>
      /\ text = "semicolon" => fCommentLast
  BY <1>1, ModeCases DEF ModeInv
<1>3. Passes(c)
  <2>1. NamesBlock(c) \/ Opens(c) \/ Closes(c) \/ Passes(c)
    BY <1>1, ReadCases
  <2> QED BY <1>2, <2>1 DEF NamesBlock, Opens, Closes
<1>4. /\ text = "semicolon" => c = "semicolon" /\ text' = "line"
      /\ text = "line" => c # "semicolon" /\ text' = IF c = "newline" THEN "code" ELSE "line"
  BY <1>2, <1>3 DEF Passes
<1>5. stackMode' = IF text' = "code" THEN <<"Whitespace">> ELSE <<"Whitespace", "Comment">>
  BY <1>1, <1>2, <1>4 DEF EndsComment
<1>6. ~Fresh'
  BY <1>1, <1>2, <1>3, PassesEffect DEF Passes
<1>7. ModeInv' /\ Mode' # "Command"
  <2>1. ModeInv'
    BY <1>2, <1>4, <1>5, <1>6 DEF ModeInv
  <2> QED BY <1>5, <2>1, ModeFacts DEF Mode
<1> QED BY <1>1, <1>2, <1>3, <1>7, PassingStep

LEMMA WhitespaceStep ==
  ASSUME Syntax = {}, IInv, NEW c \in Chars, Whitespace(c)
  PROVE  IInv'
<1>1. /\ ScriptInv /\ ModeInv /\ CommandInv /\ Last(Modes) = "Whitespace" /\ c \notin {"(", ")"}
      /\ Consume(c) /\ Read(c) /\ NoEvent /\ status = "running"
      /\ stackMode' = CASE c = "quote" -> Append(Modes, "Quote")
                        [] c = "semicolon" -> Append(Modes, "Comment")
                        [] OTHER -> Modes
      /\ fNestCmd' = Nesting /\ cblock' = cblock /\ (EndsVerb => c \notin Verbs)
      /\ fEscapeLast' = (c = "backslash") /\ fCommentLast' = (c = "semicolon")
  BY DEF IInv, Whitespace, Consume, Read
<1>2. text = "code" /\ Modes = <<"Whitespace">>
  BY <1>1, ModeCases DEF ModeInv
<1>3. stackMode' = CASE c = "quote" -> <<"Whitespace", "Quote">>
                     [] c = "semicolon" -> <<"Whitespace", "Comment">>
                     [] OTHER -> <<"Whitespace">>
  BY <1>1, <1>2, ModeFacts
<1>4. NamesBlock(c) \/ Passes(c)
  <2>1. NamesBlock(c) \/ Opens(c) \/ Closes(c) \/ Passes(c)
    BY <1>1, ReadCases
  <2> QED BY <1>1, <2>1 DEF Opens, Closes
<1>5. CASE NamesBlock(c)
  <2>1. c \in Verbs /\ c \notin {"quote", "semicolon"}
    BY <1>5, VerbsDiffer DEF NamesBlock
  <2>2. ~EndsVerb /\ Mode # "Command"
    BY <1>1, <2>1, ModeCases
  <2>3. UNCHANGED <<stackMode, cblock, fNestCmd, stackstrCmd, stackoffsetBlockStart>>
    BY <1>1, <1>3, <2>1, <2>2 DEF Modes, Nesting, NoEvent, cmdVars
  <2> QED BY <1>1, <1>5, <2>1, <2>2, <2>3, NamingStep DEF NoEvent
<1>6. CASE Passes(c)
  <2>1. /\ ~Fresh
        /\ \/ c = "quote" /\ open # <<>> /\ text' = "string"
           \/ c = "semicolon" /\ text' = "semicolon"
           \/ c \in {"newline", "other"} /\ text' = "code"
    BY <1>2, <1>6 DEF Passes
  <2>2. ~Fresh' /\ (open = <<>> <=> open' = <<>>)
    BY <1>1, <1>6, <2>1, PassesEffect DEF Passes
  <2>3. ModeInv' /\ Mode' # "Command"
    <3>1. ModeInv'
      BY <1>1, <1>3, <2>1, <2>2 DEF ModeInv
    <3> QED BY <1>3, <3>1, ModeFacts DEF Mode
  <2> QED BY <1>1, <1>6, <2>1, <2>3, PassingStep
<1> QED BY <1>4, <1>5, <1>6

-----------------------------------------------------------------------------
(* A closing parenthesis.                                                  *)

LEMMA ProcessEffect ==
  ASSUME TypeOK, status = "running", NEW str, ProcessCommand(str)
  PROVE  /\ status' \in {"running", "terminated", "crashed"} /\ ctxt' \in BOOLEAN
         /\ lastExec' \in Value \cup {NoValue} /\ expected' \in Value \cup {NoValue}
         /\ str = "invoke" /\ status' = "running" => expected' = NoValue
         /\ str = "const" => lastExec' = lastExec
         /\ str = "assert_return" => (status' = "running" <=> expected = lastExec)
<1>1. /\ ctxt \in BOOLEAN /\ lastExec \in Value \cup {NoValue} /\ expected \in Value \cup {NoValue}
  BY DEF TypeOK
<1>2. CASE str = "module"
  BY <1>1, <1>2 DEF ProcessCommand, ProcessModule, Stops, execVars
<1>3. CASE str = "invoke"
  <2>1. ProcessInvoke
    BY <1>3 DEF ProcessCommand, Unsupported
  <2>2. \/ status' = "crashed" /\ UNCHANGED <<ctxt, lastExec, expected>>
        \/ lastExec' \in Value \cup {NoValue} /\ expected' = NoValue /\ status' = "running" /\ ctxt' = ctxt
        \/ status' = "terminated" /\ UNCHANGED <<ctxt, lastExec, expected>>
    BY <2>1 DEF ProcessInvoke, ExpectationReset, Stops, execVars
  <2> QED BY <1>1, <1>3, <2>2
<1>4. CASE str = "assert_return"
  <2>1. ProcessAssert
    BY <1>4 DEF ProcessCommand, Unsupported
  <2>2. /\ UNCHANGED <<ctxt, lastExec, expected>>
        /\ status' = IF expected = lastExec THEN "running" ELSE "terminated"
    BY <2>1 DEF ProcessAssert, Stops, execVars
  <2> QED BY <1>1, <1>4, <2>2
<1>5. CASE str \in Unsupported
  BY <1>1, <1>5 DEF ProcessCommand, Unsupported, execVars
<1>6. CASE str \notin Unsupported \cup {"module", "invoke", "assert_return"}
  BY <1>1, <1>6 DEF ProcessCommand, ProcessExpression, IsConstant, Stops, execVars
<1> QED BY <1>2, <1>3, <1>4, <1>5, <1>6

(* What the host sees of a block that closes: a command exactly if nothing *)
(* around it is hidden, and then its own place in the two stacks.          *)
LEMMA ClosingBlock ==
  ASSUME Syntax = {}, IInv, CloseBlock
  PROVE  /\ status = "running" /\ text' = "code" /\ stackMode' = <<"Whitespace">>
         /\ Depth \in Nat \ {0} /\ Depth' = Depth - 1 /\ cblock' = Depth'
         /\ Closes(")") /\ stackstrCmd # <<>>
         /\ IsCommand <=> (Depth = 1 \/ ~Hidden)
         /\ IsCommand => /\ Len(stackstrCmd) = Depth /\ Last(stackstrCmd) = open[Depth].verb
                         /\ Last(stackoffsetBlockStart) = Depth
                         /\ due' = [verb |-> open[Depth].verb, depth |-> Depth]
         /\ ~IsCommand => due' = NoCommand
<1> DEFINE n == Depth
<1>1. /\ TypeOK /\ ScriptInv /\ ModeInv /\ CommandInv
      /\ Last(Modes) = "Whitespace" /\ Consume(")") /\ stackMode' = Modes /\ cblock' = cblock - 1
  BY DEF IInv, CloseBlock
<1>2. text = "code" /\ Modes = <<"Whitespace">>
  <2>1. text = "code"
    BY <1>1, ModeCases DEF ModeInv
  <2> QED BY <1>1, <2>1, ModeCases
<1>3. Closes(")") /\ status = "running"
  <2>1. ")" \in Chars /\ Read(")")
    BY <1>1 DEF Chars, Consume
  <2>2. status = "running" /\ (NamesBlock(")") \/ Opens(")") \/ Closes(")") \/ Passes(")"))
    BY <1>1, <2>1, ReadCases
  <2> QED BY <1>2, <2>2, VerbsDiffer DEF NamesBlock, Opens, Passes
<1>4. /\ n \in Nat \ {0} /\ Depth' = n - 1
  BY <1>1, <1>3, ClosesEffect
<1>5. text' = "code" /\ due' = Due(")")
  BY <1>3 DEF Closes
<1>6. /\ stackstrCmd # <<>> /\ cblock = n /\ (Nesting <=> ~Hidden)
      /\ Last(stackstrCmd) = open[Len(stackstrCmd)].verb
      /\ Len(stackstrCmd) = IF Hidden THEN 1 ELSE n
  BY <1>1, <1>4, NestingIs DEF CommandInv
<1>7. IsCommand <=> (n = 1 \/ ~Hidden)
  BY <1>6 DEF IsCommand
<1>8. Last(open) = open[n]
  BY <1>1, <1>4, TopBlock, FreshIs DEF ScriptInv
<1>9. ASSUME IsCommand
      PROVE  /\ Len(stackstrCmd) = n /\ Last(stackstrCmd) = open[n].verb
             /\ Last(stackoffsetBlockStart) = n
             /\ due' = [verb |-> open[n].verb, depth |-> n]
  <2>1. Len(stackstrCmd) = n /\ Last(stackstrCmd) = open[n].verb
    BY <1>6, <1>7, <1>9
  <2>2. Last(stackoffsetBlockStart) = n
    <3>1. /\ Len(stackoffsetBlockStart) = n /\ n \in 1 .. n
          /\ \A i \in 1 .. n : stackoffsetBlockStart[i] = i
      BY <1>1, <1>4, <2>1 DEF CommandInv
    <3> QED BY <3>1 DEF Last
  <2>3. ~(\E i \in 1 .. n - 1 : open[i].verb \in Opaque)
    <3> SUFFICES ASSUME NEW i \in 1 .. n - 1 PROVE open[i].verb \notin Opaque
      OBVIOUS
    <3>1. CASE i = 1
      BY <1>4, <1>7, <1>9, <3>1 DEF Hidden
    <3>2. CASE i # 1
      <4>1. i \in 2 .. Depth
        BY <1>4, <3>2
      <4> QED BY <1>1, <4>1, VerbsDiffer DEF ScriptInv
    <3> QED BY <3>1, <3>2
  <2>4. due' = [verb |-> open[n].verb, depth |-> n]
    BY <1>2, <1>5, <1>8, <2>3 DEF Due
  <2> QED BY <2>1, <2>2, <2>4
<1>10. ASSUME ~IsCommand PROVE due' = NoCommand
  <2>1. Hidden /\ 1 \in 1 .. Depth - 1
    BY <1>4, <1>7, <1>10
  <2>2. open[1].verb \in Opaque
    BY <2>1 DEF Hidden
  <2> QED BY <1>5, <2>1, <2>2 DEF Due
<1>11. stackMode' = <<"Whitespace">> /\ cblock' = Depth'
  BY <1>1, <1>2, <1>4, <1>6
<1> QED BY <1>3, <1>4, <1>5, <1>6, <1>7, <1>9, <1>10, <1>11

(* Nothing of a block the host does not read is a command.                 *)
LEMMA HiddenBlockCloses ==
  ASSUME Syntax = {}, IInv, CloseBlock, ~IsCommand
  PROVE  IInv'
<1> DEFINE n == Depth
<1>1. /\ TypeOK /\ ScriptInv /\ ModeInv /\ CommandInv /\ OwnInv
      /\ NoEvent /\ fNestCmd' = Nesting /\ fEscapeLast' \in BOOLEAN /\ fCommentLast' \in BOOLEAN
  BY DEF IInv, CloseBlock, Consume
<1>2. /\ text' = "code" /\ stackMode' = <<"Whitespace">> /\ n \in Nat \ {0} /\ Depth' = n - 1 /\ cblock' = n - 1
      /\ status = "running" /\ Closes(")") /\ n # 1 /\ Hidden /\ due' = NoCommand
  BY ClosingBlock
<1>3. ScriptInv' /\ \A i \in 1 .. n - 1 : open'[i].verb = open[i].verb
  BY <1>1, <1>2, ClosesEffect
<1>4. /\ 1 \in 1 .. n - 1 /\ open'[1].verb = open[1].verb /\ open[1].verb \in Opaque /\ Opaque' = Opaque
      /\ "assert_return" \notin Opaque
  BY <1>2, <1>3, VerbsDiffer DEF Hidden, Opaque, Unsupported
<1>5. ModeInv' /\ Mode' = "Whitespace"
  <2>1. ModeInv'
    BY <1>2 DEF ModeInv
  <2> QED BY <1>2, <2>1, ModeFacts DEF Mode
<1>6. CommandInv'
  <2>1. /\ UNCHANGED <<stackstrCmd, stackoffsetBlockStart>> /\ Len(stackstrCmd) = 1
        /\ stackstrCmd[1] = open[1].verb /\ stackoffsetBlockStart[1] = 1
        /\ stackoffsetBlockStart \in Seq(1 .. MaxDepth) /\ Len(stackoffsetBlockStart) = 1
    BY <1>1, <1>2 DEF CommandInv, NoEvent, cmdVars
  <2>2. Hidden' /\ ~fNestCmd'
    <3>1. Hidden'
      BY <1>2, <1>4 DEF Hidden
    <3>2. ~Nesting
      BY <1>1, <1>2, NestingIs
    <3> QED BY <1>1, <3>1, <3>2
  <2>3. \A i \in 1 .. Len(stackstrCmd') : stackstrCmd'[i] = open'[i].verb /\ stackoffsetBlockStart'[i] = i
    BY <1>4, <2>1
  <2>4. Len(stackstrCmd') = 1 /\ stackoffsetBlockStart' \in Seq(1 .. MaxDepth) /\ Len(stackoffsetBlockStart') = 1
    BY <2>1
  <2> QED BY ONLY <1>2, <1>5, <2>2, <2>3, <2>4 DEF CommandInv
<1>7. /\ OwnInv' /\ CommandsAreBlocks' /\ AssertionsAreTrue' /\ EndsCleanly'
      /\ ctxt' \in BOOLEAN /\ status' \in {"running", "success", "terminated", "crashed", "aborted"}
      /\ lastExec' \in Value \cup {NoValue} /\ expected' \in Value \cup {NoValue}
      /\ verdict' \in {"none", "passed", "failed"}
  <2>1. open'[1].verb # "assert_return" /\ Quiet
    BY <1>1, <1>4 DEF NoEvent
  <2> QED BY <1>1, <1>2, <2>1, QuietStep
<1>8. TypeOK'
  <2>1. stackstrCmd' \in Seq(Verbs \cup {Unnamed}) /\ cblock' \in Int
    BY <1>1, <1>2 DEF NoEvent, cmdVars, TypeOK
  <2>2. fNestCmd' \in BOOLEAN
    BY <1>1, NestingIs
  <2> QED BY <1>1, <1>5, <1>6, <1>7, <2>1, <2>2, Types
<1> QED BY <1>3, <1>5, <1>6, <1>7, <1>8 DEF IInv

(* A command is processed where its block closes; an assert_return then    *)
(* finds what its own invoke and its own expectation left.                 *)
LEMMA CommandCloses ==
  ASSUME Syntax = {}, IInv, CloseBlock, IsCommand
  PROVE  IInv'
<1> DEFINE n == Depth
           v == open[Depth].verb
<1>1. TypeOK /\ ScriptInv /\ ModeInv /\ CommandInv /\ OwnInv /\ fEscapeLast' \in BOOLEAN /\ fCommentLast' \in BOOLEAN
  BY DEF IInv, CloseBlock, Consume
<1>2. /\ status = "running" /\ text' = "code" /\ stackMode' = <<"Whitespace">>
      /\ n \in Nat \ {0} /\ Depth' = n - 1 /\ cblock' = n - 1 /\ Closes(")") /\ stackstrCmd # <<>>
      /\ (n = 1 \/ ~Hidden) /\ Len(stackstrCmd) = n /\ Last(stackstrCmd) = v /\ Last(stackoffsetBlockStart) = n
      /\ due' = [verb |-> v, depth |-> n] /\ due'.verb = v
  BY ClosingBlock
<1>3. /\ ScriptInv' /\ v # Unnamed
      /\ \A i \in 1 .. n - 1 : /\ open'[i].verb = open[i].verb
                               /\ open'[i].filled => open[i].filled \/ (i = n - 1 /\ v = "invoke")
      /\ v = "assert_return" /\ ~Hidden => open[n].filled
  BY <1>1, <1>2, ClosesEffect
<1>4. /\ ProcessCommand(v) /\ ran' = [verb |-> v, depth |-> n]
      /\ verdict' = IF v # "assert_return" THEN "none" ELSE IF status' = "running" THEN "passed" ELSE "failed"
      /\ stackstrCmd' = Front(stackstrCmd) /\ stackoffsetBlockStart' = Front(stackoffsetBlockStart)
      /\ fNestCmd' = (Nesting /\ cblock # 1) /\ own' = Owned
  BY <1>2 DEF CloseBlock, OffsetsPopped
<1>5. /\ status' \in {"running", "terminated", "crashed"} /\ ctxt' \in BOOLEAN
      /\ lastExec' \in Value \cup {NoValue} /\ expected' \in Value \cup {NoValue}
      /\ v = "invoke" /\ status' = "running" => expected' = NoValue
      /\ v = "const" => lastExec' = lastExec
      /\ v = "assert_return" => (status' = "running" <=> expected = lastExec)
  BY <1>1, <1>2, <1>4, ProcessEffect
<1>6. n = 1 => v # "const"
  BY <1>1 DEF ScriptInv
<1>7. n # 1 => /\ v \in {"invoke", "const"} /\ 1 \in 1 .. n - 1 /\ open[1].verb \notin Opaque /\ n >= 2
               /\ open'[1].verb = open[1].verb
  <2>1. n # 1 => n \in 2 .. n /\ n >= 2 /\ 1 \in 1 .. n - 1
    BY <1>2
  <2>2. n # 1 => v \in {"invoke", "const"}
    BY <1>1, <1>3, <2>1 DEF ScriptInv
  <2>3. n # 1 => open[1].verb \notin Opaque
    BY <1>2 DEF Hidden
  <2> QED BY <1>3, <2>1, <2>2, <2>3
<1>8. ModeInv' /\ Mode' = "Whitespace"
  <2>1. ModeInv'
    BY <1>2 DEF ModeInv
  <2> QED BY <1>2, <2>1, ModeFacts DEF Mode
<1> HIDE DEF n, v
<1>9. CommandInv' /\ stackstrCmd' \in Seq(Verbs \cup {Unnamed}) /\ fNestCmd' \in BOOLEAN
  <2>1. /\ stackstrCmd \in Seq(Verbs \cup {Unnamed}) /\ stackoffsetBlockStart \in Seq(1 .. MaxDepth)
        /\ Len(stackoffsetBlockStart) = n /\ cblock = n
        /\ \A i \in 1 .. n : stackstrCmd[i] = open[i].verb /\ stackoffsetBlockStart[i] = i
    BY <1>1, <1>2 DEF CommandInv, TypeOK, n
  <2>2. stackoffsetBlockStart # <<>>
    BY <1>2, <2>1, EmptySeq
  <2>3. /\ stackstrCmd' \in Seq(Verbs \cup {Unnamed}) /\ Len(stackstrCmd') = n - 1
        /\ \A i \in 1 .. n - 1 : stackstrCmd'[i] = stackstrCmd[i]
    <3>1. stackstrCmd \in Seq(Verbs \cup {Unnamed}) /\ stackstrCmd # <<>>
      BY <1>2, <2>1
    <3>2. /\ Front(stackstrCmd) \in Seq(Verbs \cup {Unnamed}) /\ Len(Front(stackstrCmd)) = Len(stackstrCmd) - 1
          /\ \A i \in 1 .. Len(stackstrCmd) - 1 : Front(stackstrCmd)[i] = stackstrCmd[i]
      BY ONLY <3>1, FrontAndLast
    <3> QED BY <1>2, <1>4, <3>2
  <2>4. /\ stackoffsetBlockStart' \in Seq(1 .. MaxDepth) /\ Len(stackoffsetBlockStart') = n - 1
        /\ \A i \in 1 .. n - 1 : stackoffsetBlockStart'[i] = stackoffsetBlockStart[i]
    <3>1. /\ Front(stackoffsetBlockStart) \in Seq(1 .. MaxDepth)
          /\ Len(Front(stackoffsetBlockStart)) = Len(stackoffsetBlockStart) - 1
          /\ \A i \in 1 .. Len(stackoffsetBlockStart) - 1 : Front(stackoffsetBlockStart)[i] = stackoffsetBlockStart[i]
      BY ONLY <2>1, <2>2, FrontAndLast
    <3> QED BY <1>4, <2>1, <3>1
  <2>5. \A i \in 1 .. n - 1 : stackstrCmd'[i] = open'[i].verb /\ stackoffsetBlockStart'[i] = i
    <3>1. \A i \in 1 .. n - 1 : i \in 1 .. n
      BY <1>2
    <3>2. \A i \in 1 .. n - 1 : stackstrCmd[i] = open'[i].verb /\ stackoffsetBlockStart[i] = i
      BY ONLY <1>3, <2>1, <3>1, Zenon
    <3> QED BY ONLY <2>3, <2>4, <3>2
  <2>6. ~Hidden'
    <3>1. n - 1 >= 1 => n # 1
      BY <1>2
    <3>2. Opaque' = Opaque
      BY DEF Opaque, Unsupported
    <3> QED BY <1>2, <1>7, <3>1, <3>2 DEF Hidden
  <2>7. fNestCmd' \in BOOLEAN /\ (n - 1 >= 1 => fNestCmd')
    <3>1. n - 1 >= 1 => Nesting /\ cblock # 1
      <4>1. n - 1 >= 1 => n # 1 /\ Depth >= 1
        BY <1>2 DEF n
      <4>2. n - 1 >= 1 => Nesting
        BY <1>1, <1>2, <4>1, NestingIs
      <4> QED BY <2>1, <4>1, <4>2
    <3> QED BY <1>4, <3>1
  <2>8. ~Fresh'
    <3>1. open' \in Seq(Blocks) /\ Len(open') = n - 1
      BY <1>2, <1>3 DEF ScriptInv, Depth
    <3>2. \A i \in 1 .. n - 1 : open'[i].verb # Unnamed
      <4>1. \A i \in 1 .. n - 1 : open[i].verb # Unnamed
        BY <1>1 DEF ScriptInv, n
      <4> QED BY <1>3, <4>1, Zenon
    <3>3. open' # <<>> => Last(open') = open'[n - 1] /\ n - 1 \in 1 .. n - 1
      BY <1>2, <3>1, EmptySeq DEF Last
    <3> QED BY <3>2, <3>3, Zenon DEF Fresh, Unnamed
  <2>9. CommandInv'
    <3>1. /\ cblock' = n - 1 /\ Depth' = n - 1 /\ Mode' # "Command" /\ n - 1 \in Nat
      BY <1>2, <1>8
    <3> QED BY ONLY <2>3, <2>4, <2>5, <2>6, <2>7, <2>8, <3>1 DEF CommandInv
  <2> QED BY <2>3, <2>7, <2>9
<1>10. /\ own' \in [result : Value \cup {NoValue}, expect : Value \cup {NoValue}]
       /\ v = "invoke" => own' = [result |-> lastExec', expect |-> NoValue]
       /\ v = "const" /\ open[n - 1].verb = "assert_return" => own' = [own EXCEPT !.expect = expected']
       /\ v = "assert_return" => own' = own
  <2>1. own \in [result : Value \cup {NoValue}, expect : Value \cup {NoValue}]
    BY <1>1 DEF OwnInv
  <2>2. own' = CASE v = "invoke" -> [result |-> lastExec', expect |-> NoValue]
                 [] v = "const" /\ open[n - 1].verb = "assert_return" -> [own EXCEPT !.expect = expected']
                 [] OTHER -> own
    BY <1>2, <1>4 DEF Owned, n
  <2>3. NoValue \in Value \cup {NoValue}
    OBVIOUS
  <2> QED BY ONLY <1>5, <2>1, <2>2, <2>3
<1>11. OwnInv'
  <2> SUFFICES ASSUME status' = "running", Depth' >= 1, open'[1].verb = "assert_return", open'[1].filled
               PROVE  own'.result = lastExec' /\ own'.expect = expected'
    BY <1>10 DEF OwnInv
  <2>1. n # 1 /\ n >= 2 /\ 1 \in 1 .. n - 1 /\ open[1].verb = "assert_return" /\ v \in {"invoke", "const"}
    BY <1>2, <1>7
  <2>2. open[1].filled => n = 2 /\ v = "const"
    BY <1>1, <1>3, <2>1 DEF ScriptInv, n, v
  <2>3. CASE v = "invoke"
    BY <1>5, <1>10, <2>3
  <2>4. CASE v = "const"
    <3>1. open[1].filled
      BY <1>3, <2>1, <2>4, Zenon
    <3>2. n - 1 = 1
      BY <2>2, <3>1
    <3>3. own.result = lastExec /\ own \in [result : Value \cup {NoValue}, expect : Value \cup {NoValue}]
      BY <1>1, <1>2, <2>1, <3>1 DEF OwnInv, n
    <3>4. own' = [own EXCEPT !.expect = expected']
      BY <1>10, <2>1, <2>4, <3>2
    <3> QED BY <1>5, <2>4, <3>3, <3>4
  <2> QED BY <2>1, <2>3, <2>4
<1>12. AssertionsAreTrue'
  <2>1. CASE v = "assert_return"
    <3>1. n = 1 /\ Depth = 1 /\ open[1].verb = "assert_return"
      BY <1>7, <2>1 DEF n, v
    <3>2. ~Hidden
      BY <3>1, VerbsDiffer DEF Hidden
    <3>3. open[1].filled
      BY <1>3, <2>1, <3>1, <3>2
    <3>4. own.result = lastExec /\ own.expect = expected
      BY <1>1, <1>2, <3>1, <3>3 DEF OwnInv
    <3>5. own' = own /\ (verdict' = "passed" => expected = lastExec) /\ (verdict' = "failed" => expected # lastExec)
      <4>1. verdict' = IF status' = "running" THEN "passed" ELSE "failed"
        BY <1>4, <2>1
      <4> QED BY <1>5, <1>10, <2>1, <4>1
    <3> QED BY <3>4, <3>5 DEF AssertionsAreTrue
  <2>2. CASE v # "assert_return"
    <3>1. verdict' = "none"
      BY <1>4, <2>2
    <3> QED BY <3>1 DEF AssertionsAreTrue
  <2> QED BY <2>1, <2>2
<1>13. CommandsAreBlocks' /\ EndsCleanly'
  BY <1>2, <1>4, <1>5 DEF CommandsAreBlocks, EndsCleanly
<1>14. TypeOK'
  <2>1. cblock' \in Int /\ verdict' \in {"none", "passed", "failed"}
    BY <1>2, <1>4
  <2> QED BY <1>1, <1>5, <1>8, <1>9, <2>1, Types
<1> QED BY <1>3, <1>8, <1>9, <1>11, <1>12, <1>13, <1>14 DEF IInv

LEMMA ClosingStep ==
  ASSUME Syntax = {}, IInv, CloseBlock
  PROVE  IInv'
BY HiddenBlockCloses, CommandCloses

-----------------------------------------------------------------------------
(* The theorems.                                                           *)

(* The asserts after the loop: what closes leaves no command behind, what  *)
(* is open has its command or is hidden by one, and a string or a comment  *)
(* has its mode.                                                           *)
LEMMA EndStep ==
  ASSUME Syntax = {}, IInv, EndOfScript
  PROVE  IInv'
<1> DEFINE Holds == stackstrCmd = <<>> /\ cblock = 0 /\ Len(stackMode) = 1
<1>1. /\ TypeOK /\ ScriptInv /\ ModeInv /\ CommandInv /\ OwnInv /\ CommandsAreBlocks /\ AssertionsAreTrue
      /\ status = "running" /\ (text = "line" => open # <<>>)
      /\ status' = IF Holds THEN "success" ELSE "aborted"
      /\ UNCHANGED <<lexVars, cmdVars, execVars, refVars, ran, own, verdict>>
  BY DEF IInv, EndOfScript, MayEnd
<1>2. Holds <=> Whole
  <2>1. CASE open # <<>>
    <3>1. Depth >= 1
      BY <1>1, <2>1, FreshIs
    <3>2. stackstrCmd # <<>>
      BY <1>1, <3>1, NestingIs
    <3> QED BY <2>1, <3>2 DEF Whole
  <2>2. CASE open = <<>> /\ text = "code"
    <3>1. Depth = 0 /\ stackstrCmd = <<>> /\ cblock = 0
      BY <1>1, <2>2, FreshIs, NestingIs DEF CommandInv
    <3>2. stackMode # <<"Whitespace", "Command">>
      BY <1>1, <3>1, ModeFacts DEF CommandInv, Mode
    <3>3. stackMode = <<"Whitespace">>
      BY <1>1, <2>2, <3>2 DEF ModeInv
    <3> QED BY <2>2, <3>1, <3>3, ModeFacts DEF Whole
  <2>3. CASE open = <<>> /\ text # "code"
    <3>1. text = "semicolon"
      BY <1>1, <2>3 DEF ModeInv
    <3>2. stackMode = <<"Whitespace", "Comment">>
      BY <1>1, <3>1 DEF ModeInv
    <3>3. Len(stackMode) # 1
      BY <3>2
    <3> QED BY <3>1, <3>3 DEF Whole
  <2> QED BY <2>1, <2>2, <2>3
<1> HIDE DEF Holds
<1>3. status' \in {"success", "aborted"} /\ (status' = "success" <=> Whole)
  BY <1>1, <1>2
<1>4. /\ UNCHANGED <<stackMode, fEscapeLast, fCommentLast, cblock, fNestCmd, stackstrCmd, stackoffsetBlockStart>>
      /\ UNCHANGED <<ctxt, lastExec, expected, text, open, due, ran, own, verdict>>
  BY <1>1 DEF lexVars, cmdVars, execVars, refVars
<1>5. ScriptInv' /\ ModeInv' /\ CommandInv'
  BY <1>1, <1>4 DEF ScriptInv, ModeInv, CommandInv, Depth, Hidden, Fresh, Mode
<1>6. OwnInv' /\ CommandsAreBlocks' /\ AssertionsAreTrue'
  BY <1>1, <1>3, <1>4 DEF OwnInv, CommandsAreBlocks, AssertionsAreTrue
<1>7. EndsCleanly'
  BY <1>3, <1>4 DEF EndsCleanly, Whole
<1>8. TypeOK'
  BY <1>1, <1>3, <1>4 DEF TypeOK
<1> QED BY <1>5, <1>6, <1>7, <1>8 DEF IInv

LEMMA Start ==
  Init => IInv
<1> SUFFICES ASSUME Init PROVE IInv
  OBVIOUS
<1>1. /\ open = <<>> /\ Depth = 0 /\ ~Fresh /\ ~Hidden
      /\ stackstrCmd = <<>> /\ stackoffsetBlockStart = <<>>
  BY DEF Init, Depth, Fresh, Hidden
<1>2. /\ open \in Seq(Blocks) /\ stackstrCmd \in Seq(Verbs \cup {Unnamed})
      /\ stackoffsetBlockStart \in Seq(1 .. MaxDepth)
      /\ Len(stackstrCmd) = 0 /\ Len(stackoffsetBlockStart) = 0
  BY <1>1, EmptySeq
<1>3. ScriptInv
  BY <1>1, <1>2, ScriptAssumption DEF ScriptInv
<1>4. ModeInv /\ Mode = "Whitespace"
  BY <1>1, ModeFacts DEF Init, ModeInv, Mode
<1>5. CommandInv
  BY <1>1, <1>2, <1>4 DEF Init, CommandInv
<1>6. OwnInv /\ CommandsAreBlocks /\ AssertionsAreTrue /\ EndsCleanly
  BY <1>1 DEF Init, OwnInv, CommandsAreBlocks, AssertionsAreTrue, EndsCleanly
<1>7. TypeOK
  <2>1. stackoffsetBlockStart \in [DOMAIN stackstrCmd -> 1 .. MaxDepth]
    BY <1>1, <1>2, LenProperties
  <2>2. /\ status = "running" /\ stackMode = <<"Whitespace">> /\ cblock = 0 /\ verdict = "none"
        /\ fEscapeLast = FALSE /\ fCommentLast = FALSE /\ fNestCmd = FALSE /\ ctxt = FALSE
        /\ lastExec = NoValue /\ expected = NoValue
    BY DEF Init
  <2>3. stackMode \in {<<"Whitespace">>} \cup {<<"Whitespace", m>> : m \in {"Command", "Quote", "Comment"}}
    BY <2>2
  <2>4. /\ fEscapeLast \in BOOLEAN /\ fCommentLast \in BOOLEAN /\ fNestCmd \in BOOLEAN /\ ctxt \in BOOLEAN
    BY <2>2, Zenon
  <2>5. /\ status \in {"running", "success", "terminated", "crashed", "aborted"}
        /\ verdict \in {"none", "passed", "failed"} /\ cblock \in Int
        /\ lastExec \in Value \cup {NoValue} /\ expected \in Value \cup {NoValue}
    BY <2>2
  <2> QED BY ONLY <1>2, <2>1, <2>3, <2>4, <2>5 DEF TypeOK
<1> QED BY <1>3, <1>4, <1>5, <1>6, <1>7 DEF IInv

LEMMA Step ==
  ASSUME Syntax = {}, IInv, [Next]_vars
  PROVE  IInv'
<1>1. CASE \E c \in Verbs : Letter(c)
  BY <1>1, LetterStep
<1>2. CASE \E c \in Chars : InQuote(c) \/ InComment(c) \/ Whitespace(c)
  BY <1>2, QuoteStep, CommentStep, WhitespaceStep
<1>3. CASE OpenBlock
  BY <1>3, OpeningStep
<1>4. CASE CloseBlock
  BY <1>4, ClosingStep
<1>5. CASE EndOfScript
  BY <1>5, EndStep
<1>6. CASE UNCHANGED vars
  <2>1. /\ UNCHANGED <<status, stackMode, fEscapeLast, fCommentLast, cblock, fNestCmd>>
        /\ UNCHANGED <<stackstrCmd, stackoffsetBlockStart, ctxt, lastExec, expected, text, open, due, ran, own, verdict>>
    BY <1>6 DEF vars, lexVars, cmdVars, execVars, refVars
  <2>2. ScriptInv' /\ ModeInv' /\ CommandInv'
    BY <2>1 DEF IInv, ScriptInv, ModeInv, CommandInv, Depth, Hidden, Fresh, Mode
  <2>3. OwnInv' /\ CommandsAreBlocks' /\ AssertionsAreTrue' /\ EndsCleanly'
    <3>1. OwnInv'
      BY <2>1 DEF IInv, OwnInv, Depth
    <3>2. CommandsAreBlocks' /\ AssertionsAreTrue' /\ EndsCleanly'
      BY <2>1 DEF IInv, CommandsAreBlocks, AssertionsAreTrue, EndsCleanly, Whole
    <3> QED BY <3>1, <3>2
  <2>4. TypeOK'
    BY <2>1 DEF IInv, TypeOK
  <2> QED BY <2>2, <2>3, <2>4 DEF IInv
<1> QED BY <1>1, <1>2, <1>3, <1>4, <1>5, <1>6 DEF Next

(* The inductive invariant of the host, whatever the script holds that it  *)
(* has a notion of: how long it is and how deep it nests.                  *)
THEOREM ScriptInvariant == Syntax = {} => (Spec => []IInv)
<1> SUFFICES ASSUME Syntax = {} PROVE Spec => []IInv
  OBVIOUS
<1>1. Init => IInv
  BY Start
<1>2. IInv /\ [Next]_vars => IInv'
  BY Step
<1> QED BY <1>1, <1>2, PTL DEF Spec

(* The host's stacks and flags stay what they are declared to be.          *)
THEOREM HostTypes == Syntax = {} => (Spec => []TypeOK)
<1> SUFFICES ASSUME Syntax = {} PROVE Spec => []TypeOK
  OBVIOUS
<1>1. IInv => TypeOK
  BY DEF IInv
<1> QED BY <1>1, ScriptInvariant, PTL

(* In a script of any length, main processes each block that is a command  *)
(* when it closes, by its own verb and from its own first character, and   *)
(* nothing inside a module, an unsupported assertion, a string or a        *)
(* comment.                                                                *)
THEOREM BlocksAreProcessed == Syntax = {} => (Spec => []CommandsAreBlocks)
<1> SUFFICES ASSUME Syntax = {} PROVE Spec => []CommandsAreBlocks
  OBVIOUS
<1>1. IInv => CommandsAreBlocks
  BY DEF IInv
<1> QED BY <1>1, ScriptInvariant, PTL

(* An assert_return passes or fails by the result of its own invoke and    *)
(* what is written after that, although both reach it in globals that      *)
(* every command before it has set.                                        *)
THEOREM AssertionsJudgeTheirOwn == Syntax = {} => (Spec => []AssertionsAreTrue)
<1> SUFFICES ASSUME Syntax = {} PROVE Spec => []AssertionsAreTrue
  OBVIOUS
<1>1. IInv => AssertionsAreTrue
  BY DEF IInv
<1> QED BY <1>1, ScriptInvariant, PTL

(* Wherever the file ends, the asserts of main tell whether the script was *)
(* whole: no command, block or mode is left of one that was, and something *)
(* is of one that was cut.                                                 *)
THEOREM MainEndsCleanly == Syntax = {} => (Spec => []EndsCleanly)
<1> SUFFICES ASSUME Syntax = {} PROVE Spec => []EndsCleanly
  OBVIOUS
<1>1. IInv => EndsCleanly
  BY DEF IInv
<1> QED BY <1>1, ScriptInvariant, PTL
=============================================================================
