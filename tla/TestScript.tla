----------------------------- MODULE TestScript -----------------------------
(***************************************************************************)
(* The host that runs the specification's scripts: src/testhost.           *)
(*                                                                         *)
(* main reads a script once, character by character, and processes each    *)
(* command where its parenthesis closes, nested ones before the one around *)
(* them.  A command keeps nothing but its verb and its place: an assertion *)
(* compares two globals that earlier commands have set.                    *)
(*                                                                         *)
(* The script is not fixed: a step reads any character a script may go on  *)
(* with, or finds that the file ends there.  What the text means is kept   *)
(* beside the host's own state by a reader of the format, as history.  A   *)
(* verb counts as one character.                                           *)
(***************************************************************************)
EXTENDS Integers, SequencesExt

CONSTANTS
  Value,        \* what an expression or a function may yield
  NoValue,      \* the Variant of type none
  Syntax,       \* what scripts may contain of what main has no notion of
  MaxDepth      \* bound on open parentheses

Unsupported == {"assert_trap"}   \* one for the seven of rgszUnsupported
Verbs == {"module", "invoke", "assert_return", "const"} \cup Unsupported
Chars == {"(", ")", "quote", "semicolon", "newline", "backslash", "other"} \cup Verbs

ASSUME ScriptAssumption ==
  /\ NoValue \notin Value
  /\ Syntax \subseteq {"block_comment", "semicolon_in_comment", "escaped_backslash",
                     "spaced_verb", "comment_at_end"}
  /\ MaxDepth \in Nat

VARIABLES
  status,        \* "running", or how main ended
  stackMode, fEscapeLast, fCommentLast,
  cblock, fNestCmd,
  stackstrCmd,   \* the verb of each command being read
  stackoffsetBlockStart,  \* where it began, as the depth of the script there
  ctxt,          \* g_spctxtLast: is there one?
  lastExec,      \* g_variantLastExec
  expected,      \* g_variantExpectedReturn
  text,          \* history: what the characters are part of
  open,          \* history: the blocks that are open, with their verbs
  ran,           \* history: the command the last step processed
  due,           \* history: the command it should have processed
  own,           \* history: result and expectation inside the last assert_return
  verdict        \* history: what the last step said of an assert_return

lexVars  == <<stackMode, fEscapeLast, fCommentLast, cblock, fNestCmd>>
cmdVars  == <<stackstrCmd, stackoffsetBlockStart>>
execVars == <<ctxt, lastExec, expected>>
refVars  == <<text, open, due>>
vars == <<status, lexVars, cmdVars, execVars, refVars, ran, own, verdict>>

Unnamed == ""   \* a command whose verb has not been read
NoCommand == [verb |-> "none", depth |-> 0]

Init ==
  /\ status = "running"
  /\ stackMode = <<"Whitespace">> /\ fEscapeLast = FALSE /\ fCommentLast = FALSE
  /\ cblock = 0 /\ fNestCmd = FALSE
  /\ stackstrCmd = <<>> /\ stackoffsetBlockStart = <<>>
  /\ ctxt = FALSE /\ lastExec = NoValue /\ expected = NoValue
  /\ text = "code" /\ open = <<>>
  /\ ran = NoCommand /\ due = NoCommand
  /\ own = [result |-> NoValue, expect |-> NoValue] /\ verdict = "none"

-----------------------------------------------------------------------------
(* The script as its format has it. *)

Depth == Len(open)
Fresh == open # <<>> /\ Last(open).verb = Unnamed
Opaque == Unsupported \cup {"module"}
InOpaque == \E i \in DOMAIN open : open[i].verb \in Opaque

(* What a script holds: commands, an invoke and then what it returns in an  *)
(* assert_return, a name and then arguments in an invoke, and any of these  *)
(* in what is not read.                                                     *)
Admits(around, verb) ==
  CASE around = <<>> -> verb # "const"
    [] \E i \in DOMAIN around : around[i].verb \in Opaque -> verb \in {"invoke", "const"}
    [] OTHER -> \/ Last(around).verb = "assert_return" /\ verb = (IF Last(around).filled THEN "const" ELSE "invoke")
                \/ Last(around).verb = "invoke" /\ verb = "const" /\ Last(around).filled
MayOpen == Depth < MaxDepth /\ \E verb \in Verbs : Admits(open, verb)
MayClose == open # <<>> /\ (Last(open).verb \in {"invoke", "assert_return"} /\ ~InOpaque => Last(open).filled)

MayFollow(c) ==
  CASE text = "code" -> IF Fresh
         THEN \/ c \in {v \in Verbs : Admits(Front(open), v)}
              \/ c = "semicolon" /\ "block_comment" \in Syntax
              \/ c \in {"newline", "other"} /\ "spaced_verb" \in Syntax
         ELSE CASE c = "(" -> MayOpen
                [] c = ")" -> MayClose
                [] c = "quote" -> open # <<>>
                [] OTHER -> c \in {"semicolon", "newline", "other"}
    [] text = "gap" -> c \in {v \in Verbs : Admits(Front(open), v)} \cup {"semicolon", "newline", "other"}
    [] text = "string" -> c \notin Verbs \cup {"newline"}
    [] text = "escape" -> c = "quote" \/ (c = "backslash" /\ "escaped_backslash" \in Syntax)
    [] text = "semicolon" -> c = "semicolon"
    [] text = "line" -> c \notin Verbs /\ (c = "semicolon" => "semicolon_in_comment" \in Syntax)
    [] text = "block" -> c \in {"other", "newline", "semicolon"}
    [] text = "block_end" -> c = ")"

(* A file may be cut anywhere.  What it holds is a whole script if nothing  *)
(* is open, also in a last line that is a comment without a line break.     *)
MayEnd == text = "line" /\ open = <<>> => "comment_at_end" \in Syntax
Whole == open = <<>> /\ text \in {"code", "line"}

Become(kind) == text' = kind /\ UNCHANGED open
Between == IF Fresh THEN "gap" ELSE "code"   \* the verb of a block is still to come
Filled(blocks) == [blocks EXCEPT ![Len(blocks)].filled = TRUE]

ReadCode(c) ==
  CASE c = "(" -> open' = Append(open, [verb |-> Unnamed, filled |-> FALSE]) /\ UNCHANGED text
    [] c = ")" -> /\ open' = IF Depth > 1 /\ Last(open).verb = "invoke" THEN Filled(Front(open)) ELSE Front(open)
                  /\ UNCHANGED text
    [] c = "semicolon" /\ text = "code" /\ Fresh -> text' = "block" /\ open' = Front(open)
    [] c = "semicolon" /\ ~(text = "code" /\ Fresh) -> Become("semicolon")
    [] c = "quote" -> Become("string")
    [] c \in Verbs -> open' = [open EXCEPT ![Depth].verb = c] /\ text' = "code"
    [] OTHER -> Become(Between)

ReadText(c) ==
  CASE text \in {"code", "gap"} -> ReadCode(c)
    [] text = "string" /\ c = "quote" -> /\ text' = "code"
                                         /\ open' = IF Last(open).verb = "invoke" THEN Filled(open) ELSE open
    [] text = "string" /\ c = "backslash" -> Become("escape")
    [] text = "escape" -> Become("string")
    [] text = "semicolon" -> Become("line")
    [] text = "line" /\ c = "newline" -> Become(Between)
    [] text = "block" /\ c = "semicolon" -> Become("block_end")
    [] text = "block_end" -> Become("code")
    [] OTHER -> UNCHANGED <<text, open>>

(* A block that closes is a command, unless it is inside one not read. *)
Due(c) ==
  IF text = "code" /\ c = ")" /\ ~(\E i \in 1 .. Depth - 1 : open[i].verb \in Opaque)
  THEN [verb |-> Last(open).verb, depth |-> Depth] ELSE NoCommand

Read(c) ==
  /\ status = "running" /\ MayFollow(c)
  /\ ReadText(c) /\ due' = Due(c)

(* The values that the command which is due really had. *)
Owned == CASE due'.verb = "invoke" -> [result |-> lastExec', expect |-> NoValue]
           [] due'.verb = "const" /\ open[Depth - 1].verb = "assert_return" -> [own EXCEPT !.expect = expected']
           [] OTHER -> own

-----------------------------------------------------------------------------
(* ProcessCommand. *)

(* An Exception that main does not catch, or a failed assert. *)
Stops == status' = "terminated" /\ UNCHANGED execVars

(* The module runs or, after an Exception or a failed wat2wasm, there is    *)
(* none; what else LoadModule throws ends main.                             *)
ProcessModule ==
  \/ ctxt' \in BOOLEAN /\ UNCHANGED <<status, lastExec, expected>>
  \/ Stops

ExpectationKept == expected
ExpectationReset == NoValue

ProcessInvoke ==
  IF ~ctxt THEN status' = "crashed" /\ UNCHANGED execVars
  ELSE \/ lastExec' \in Value \cup {NoValue} /\ expected' = ExpectationReset /\ UNCHANGED <<status, ctxt>>
       \/ Stops

(* Verify(g_variantExpectedReturn == g_variantLastExec) *)
ProcessAssert == IF expected = lastExec THEN UNCHANGED <<status, execVars>> ELSE Stops

(* CchEatExpression, which takes nothing but constants.  It skips the white *)
(* space before one, where main has found no verb.                          *)
IsConstant(verb) == verb = "const" \/ (verb = Unnamed /\ open # <<>> /\ Last(open).verb = "const")

ProcessExpression(verb) ==
  \/ IsConstant(verb) /\ expected' \in Value /\ UNCHANGED <<status, ctxt, lastExec>>
  \/ Stops

ProcessCommand(str) ==
  CASE str = "module" -> ProcessModule
    [] str = "invoke" -> ProcessInvoke
    [] str = "assert_return" -> ProcessAssert
    [] str \in Unsupported -> UNCHANGED <<status, execVars>>
    [] OTHER -> ProcessExpression(str)

-----------------------------------------------------------------------------
(* main. *)

NestsButInModules(verb) == verb # "module"
Nests(verb) == verb # "module" /\ verb \notin Unsupported

Quiet == ran' = NoCommand /\ verdict' = "none" /\ UNCHANGED <<status, execVars, own>>
NoEvent == Quiet /\ UNCHANGED cmdVars

(* The letters of a verb. *)
Letter(c) ==
  /\ c \in Verbs /\ Last(stackMode) = "Command" /\ Read(c)
  /\ stackstrCmd' = [stackstrCmd EXCEPT ![Len(stackstrCmd)] = c]
  /\ fEscapeLast' = FALSE /\ fCommentLast' = FALSE
  /\ Quiet /\ UNCHANGED <<stackMode, cblock, fNestCmd, stackoffsetBlockStart>>

(* Any other character ends the verb and is then read as any other one.     *)
EndsVerb == Last(stackMode) = "Command"
Modes == IF EndsVerb THEN Front(stackMode) ELSE stackMode
Nesting == IF EndsVerb THEN Nests(Last(stackstrCmd)) ELSE fNestCmd

Consume(c) ==
  /\ (EndsVerb => c \notin Verbs) /\ Read(c)
  /\ fEscapeLast' = (c = "backslash")
  /\ fCommentLast' = (c = "semicolon" /\ Last(Modes) = "Whitespace")

InQuote(c) ==
  /\ Last(Modes) = "Quote" /\ Consume(c)
  /\ stackMode' = IF c = "quote" /\ ~fEscapeLast THEN Front(Modes) ELSE Modes
  /\ fNestCmd' = Nesting /\ UNCHANGED cblock /\ NoEvent

EndsCommentAtSemicolon(c) == c = "semicolon" /\ ~fCommentLast
EndsComment(c) == c = "newline" \/ (c = "semicolon" /\ ~fCommentLast)

InComment(c) ==
  /\ Last(Modes) = "Comment" /\ Consume(c)
  /\ stackMode' = IF EndsComment(c) THEN Front(Modes) ELSE Modes
  /\ fNestCmd' = Nesting /\ UNCHANGED cblock /\ NoEvent

Whitespace(c) ==
  /\ Last(Modes) = "Whitespace" /\ c \notin {"(", ")"} /\ Consume(c)
  /\ stackMode' = CASE c = "quote" -> Append(Modes, "Quote")
                    [] c = "semicolon" -> Append(Modes, "Comment")
                    [] OTHER -> Modes
  /\ fNestCmd' = Nesting /\ UNCHANGED cblock /\ NoEvent

OpenBlock ==
  /\ Last(Modes) = "Whitespace" /\ Consume("(")
  /\ fNestCmd' = Nesting /\ cblock' = cblock + 1
  /\ IF cblock = 0 \/ Nesting
     THEN /\ stackMode' = Append(Modes, "Command")
          /\ stackstrCmd' = Append(stackstrCmd, Unnamed)
          /\ stackoffsetBlockStart' = Append(stackoffsetBlockStart, Depth + 1)
     ELSE stackMode' = Modes /\ UNCHANGED cmdVars
  /\ Quiet

IsCommand == cblock = 1 \/ Nesting

OffsetsKept == stackoffsetBlockStart
OffsetsPopped == Front(stackoffsetBlockStart)

(* The empty stack has a top like any other: undefined. *)
CloseBlock ==
  /\ Last(Modes) = "Whitespace" /\ Consume(")")
  /\ stackMode' = Modes /\ cblock' = cblock - 1
  /\ CASE IsCommand /\ stackstrCmd # <<>> ->
            /\ ProcessCommand(Last(stackstrCmd))
            /\ ran' = [verb |-> Last(stackstrCmd), depth |-> Last(stackoffsetBlockStart)]
            /\ verdict' = IF Last(stackstrCmd) # "assert_return" THEN "none"
                          ELSE IF status' = "running" THEN "passed" ELSE "failed"
            /\ stackstrCmd' = Front(stackstrCmd) /\ stackoffsetBlockStart' = OffsetsPopped
            /\ fNestCmd' = (Nesting /\ cblock # 1) /\ own' = Owned
       [] IsCommand /\ stackstrCmd = <<>> ->
            /\ status' = "crashed" /\ ran' = NoCommand /\ verdict' = "none"
            /\ fNestCmd' = Nesting /\ UNCHANGED <<cmdVars, execVars, own>>
       [] OTHER -> fNestCmd' = Nesting /\ NoEvent

(* The asserts after the loop, wherever fread finds no more of the file. *)
EndOfScript ==
  /\ status = "running" /\ MayEnd
  /\ status' = IF stackstrCmd = <<>> /\ cblock = 0 /\ Len(stackMode) = 1 THEN "success" ELSE "aborted"
  /\ UNCHANGED <<lexVars, cmdVars, execVars, refVars, ran, own, verdict>>

Next ==
  \/ \E c \in Verbs : Letter(c)
  \/ \E c \in Chars : InQuote(c) \/ InComment(c) \/ Whitespace(c)
  \/ OpenBlock \/ CloseBlock \/ EndOfScript

Spec == Init /\ [][Next]_vars

-----------------------------------------------------------------------------

TypeOK ==
  /\ status \in {"running", "success", "terminated", "crashed", "aborted"}
  /\ stackMode \in {<<"Whitespace">>} \cup {<<"Whitespace", m>> : m \in {"Command", "Quote", "Comment"}}
  /\ fEscapeLast \in BOOLEAN /\ fCommentLast \in BOOLEAN /\ fNestCmd \in BOOLEAN
  /\ cblock \in Int
  /\ stackstrCmd \in Seq(Verbs \cup {Unnamed})
  /\ stackoffsetBlockStart \in [DOMAIN stackstrCmd -> 1 .. MaxDepth]
  /\ ctxt \in BOOLEAN /\ lastExec \in Value \cup {NoValue} /\ expected \in Value \cup {NoValue}
  /\ verdict \in {"none", "passed", "failed"}

(* Each block that is a command is processed when it closes, from its own   *)
(* first character and by its own verb, and nothing else is: nothing inside *)
(* a module or an assertion the host does not know, a string or a comment.  *)
CommandsAreBlocks == status # "crashed" => ran = due

(* An assert_return passes or fails by the result of the invoke inside it   *)
(* and what is written after that, not by what an argument, an earlier      *)
(* command or another assertion left in the two globals.                    *)
AssertionsAreTrue ==
  /\ verdict = "passed" => own.result = own.expect
  /\ verdict = "failed" => own.result # own.expect

(* When the file ends, the asserts of main hold if the script was whole,    *)
(* and abort if it was cut inside a block, a string or the start of a       *)
(* comment.                                                                 *)
EndsCleanly == status \in {"success", "aborted"} => (status = "success" <=> Whole)
=============================================================================
