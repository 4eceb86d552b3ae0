----------------------------- MODULE Preprocessor -----------------------------
(***************************************************************************)
(* Conditional compilation in the preprocessor of slang                    *)
(* (src/crates/slang/source/parsing/Preprocessor.cpp).  Text comes from a  *)
(* stack of files; what stands between `ifdef, `elsif, `else and `endif    *)
(* has an effect or is skipped.  A condition is a name, or an expression   *)
(* in parentheses; having read the latter, the parser peeks at the token   *)
(* behind it, and to find one it carries out every directive on the way.   *)
(*                                                                         *)
(* The text is not given: what is lexed next is any token.  Beside the     *)
(* preprocessor runs its reading by the standard, which takes the text in  *)
(* the order in which it stands.                                           *)
(* Left out: the expansion of macros (Macros), directives that only set an *)
(* option, `pragma once`, errors within a condition.                       *)
(***************************************************************************)
EXTENDS Naturals, Sequences, SequencesExt

CONSTANTS
  MacroNames,
  MaxIncludeDepth,    \* options.maxIncludeDepth
  MaxBranches         \* bounds the nesting of branches and of pending handlers

ASSUME PreprocessorAssumption == MaxIncludeDepth \in Nat /\ MaxBranches \in Nat

VARIABLES
  lexers,          \* length of lexerStack
  includeDepth,
  branchStack,
  macros,          \* the names that are defined
  currentToken,    \* a token read ahead
  handlers,        \* handlers that have parsed their condition and peek, the
                   \* innermost last
  looping,         \* the innermost peek has met a directive and is in the loop of
                   \* handleDirectives
  skipping,        \* the loop of parseBranchDirective runs
  blocks,          \* by the standard: the open conditionals
  meant,           \* by the standard: the names that are defined
  malformed,       \* a conditional directive stood where none may
  early,           \* a directive was carried out while a condition was parsed
  fate             \* what became of the last item that is no conditional directive

preprocessorVars == << lexers, includeDepth, branchStack, macros, currentToken, handlers,
                       looping, skipping, blocks, meant, malformed, early, fate >>
controlVars == <<currentToken, handlers, looping, skipping>>

NoItem    == [kind |-> "none"]
EndOfFile == [kind |-> "eof"]

\* The pieces of text; active is whether the standard gives them an effect.
Conditions   == [kind : {"ifdef", "ifndef", "elsif"}, name : MacroNames, paren : BOOLEAN]
Conditionals == Conditions \cup {[kind |-> "else"], [kind |-> "endif"]}
Directives   == [kind : {"define", "undef"}, name : MacroNames, active : BOOLEAN]
                  \cup [kind : {"include"}, active : BOOLEAN]
PlainTokens  == [kind : {"token"}, active : BOOLEAN]

Entry(active, any, else) == [currentActive |-> active, anyTaken |-> any, hasElse |-> else]

PreprocessorTypeOK ==
  /\ lexers \in 0 .. MaxIncludeDepth + 1
  /\ includeDepth = (IF lexers = 0 THEN 0 ELSE lexers - 1)
  /\ branchStack \in Seq([currentActive : BOOLEAN, anyTaken : BOOLEAN, hasElse : BOOLEAN])
  /\ macros \in SUBSET MacroNames
  /\ currentToken \in Conditionals \cup PlainTokens \cup {NoItem, EndOfFile}
  /\ handlers \in Seq(Conditions)
  /\ \A i \in DOMAIN branchStack : branchStack[i].currentActive => branchStack[i].anyTaken

PreprocessorInit ==
  /\ lexers = 1 /\ includeDepth = 0
  /\ branchStack = <<>> /\ macros = {}
  /\ currentToken = NoItem /\ handlers = <<>>
  /\ looping = FALSE /\ skipping = FALSE
  /\ blocks = <<>> /\ meant = {}
  /\ malformed = FALSE /\ early = FALSE
  /\ fate = [done |-> FALSE, active |-> FALSE]

-----------------------------------------------------------------------------
(* The standard.  Of the branches of a conditional the first whose condition *)
(* holds is active, if the text around the conditional is. *)

Active == \A i \in DOMAIN blocks : blocks[i].now /\ ~blocks[i].before

Holds(t, defined) == (t.name \in defined) # (t.kind = "ifndef")

\* One more branch of the innermost conditional.
Branch(b, now, last) == [before |-> b.before \/ b.now, now |-> now, closed |-> last]

Read(t) ==
  LET open == blocks # <<>> /\ ~Last(blocks).closed
  IN  /\ blocks' = CASE t.kind \in {"ifdef", "ifndef"} ->
                          Append(blocks, [before |-> FALSE, now |-> Holds(t, meant), closed |-> FALSE])
                     [] t.kind = "elsif" /\ open ->
                          Append(Front(blocks), Branch(Last(blocks), Holds(t, meant), FALSE))
                     [] t.kind = "else" /\ open ->
                          Append(Front(blocks), Branch(Last(blocks), TRUE, TRUE))
                     [] t.kind = "endif" /\ blocks # <<>> -> Front(blocks)
                     [] OTHER -> blocks
      /\ malformed' = \/ malformed
                      \/ t.kind \in {"elsif", "else"} /\ ~open
                      \/ t.kind = "endif" /\ blocks = <<>>
      /\ meant' = CASE t.kind = "define" /\ Active -> meant \cup {t.name}
                    [] t.kind = "undef" /\ Active  -> meant \ {t.name}
                    [] OTHER -> meant

-----------------------------------------------------------------------------
(* nextRaw *)

\* Bounds the runs: what the standard rejects is not read on, and after a directive
\* carried out too early only the pending conditions are decided.
Followed == ~malformed /\ (early => handlers # <<>>)

\* The next item is t: the one read ahead, or a new one.  It leaves currentToken.
NextRaw(t) ==
  IF currentToken # NoItem
  THEN t = currentToken /\ UNCHANGED <<lexers, includeDepth, blocks, meant, malformed>>
  ELSE /\ lexers > 0 /\ Followed
       /\ t \notin Conditionals \cup {EndOfFile} => t.active = Active
       /\ t.kind \in {"ifdef", "ifndef"} => Len(blocks) < MaxBranches
       /\ IF t = EndOfFile THEN lexers = 1 /\ lexers' = 0 ELSE UNCHANGED lexers
       /\ UNCHANGED includeDepth
       /\ Read(t)

\* The end of an included file goes unnoticed.
EndOfInclude ==
  /\ currentToken = NoItem
  /\ lexers > 1
  /\ lexers' = lexers - 1
  /\ includeDepth' = includeDepth - 1
  /\ UNCHANGED <<branchStack, macros, controlVars, blocks, meant, malformed, early, fate>>

-----------------------------------------------------------------------------
(* Branches *)

EvalConditionalExpr(t) == t.name \in macros

\* The branch a directive opens is read on, or skipped to the next conditional
\* directive (parseBranchDirective).
EnterBranch(taken) == skipping' = ~taken

HandleIfDef(t) ==
  LET around == branchStack = <<>> \/ Last(branchStack).currentActive
      take   == around /\ (EvalConditionalExpr(t) # (t.kind = "ifndef"))
  IN  branchStack' = Append(branchStack, Entry(take, take, FALSE)) /\ EnterBranch(take)

\* Mutant: the branch around this one is not asked.
ShouldTakeElseInside(holds, last) ==
  LET n     == Len(branchStack)
      entry == branchStack[n]
      taken == ~entry.anyTaken /\ holds
  IN  IF branchStack = <<>> \/ entry.hasElse
      THEN UNCHANGED branchStack /\ EnterBranch(TRUE)
      ELSE /\ branchStack' = [branchStack EXCEPT
                                ![n] = Entry(taken, entry.anyTaken \/ taken, last)]
           /\ EnterBranch(taken)

\* A directive where none may be is reported, and reading goes on behind it.
ShouldTakeElse(holds, last) ==
  LET n      == Len(branchStack)
      entry  == branchStack[n]
      around == n = 1 \/ branchStack[n - 1].currentActive
      taken  == ~entry.anyTaken /\ around /\ holds
  IN  IF branchStack = <<>> \/ entry.hasElse
      THEN UNCHANGED branchStack /\ EnterBranch(TRUE)
      ELSE /\ branchStack' = [branchStack EXCEPT
                                ![n] = Entry(taken, entry.anyTaken \/ taken, last)]
           /\ EnterBranch(taken)

HandleEndIf ==
  IF branchStack = <<>> THEN UNCHANGED branchStack /\ EnterBranch(TRUE)
  ELSE LET rest == Front(branchStack)
       IN  branchStack' = rest /\ EnterBranch(rest = <<>> \/ Last(rest).currentActive)

\* What a handler does when its condition is parsed.
Decide(t) ==
  IF t.kind = "elsif" THEN ShouldTakeElse(EvalConditionalExpr(t), FALSE)
  ELSE HandleIfDef(t)

-----------------------------------------------------------------------------
(* Steps of nextProcessed and handleDirectives *)

Meets(t, acts) == fate' = [done |-> acts, active |-> t.active]

\* A name is all there is to the condition, or no condition is needed.
HandleConditional(t) ==
  /\ ~skipping
  /\ handlers = <<>> \/ looping
  /\ t \in Conditionals
  /\ t \in Conditions => ~t.paren
  /\ NextRaw(t)
  /\ CASE t.kind = "else"  -> ShouldTakeElse(TRUE, TRUE)
       [] t.kind = "endif" -> HandleEndIf
       [] OTHER -> Decide(t)
  /\ currentToken' = NoItem
  /\ UNCHANGED <<macros, handlers, looping, early, fate>>

\* The condition is in parentheses: the handler peeks.
ParseCondition(t) ==
  /\ ~skipping
  /\ handlers = <<>> \/ looping
  /\ t \in Conditions /\ t.paren
  /\ Len(handlers) < MaxBranches
  /\ NextRaw(t)
  /\ handlers' = Append(handlers, t)
  /\ looping' = FALSE
  /\ currentToken' = NoItem
  /\ UNCHANGED <<branchStack, macros, skipping, early, fate>>

\* The peek ends with a token; a conditional directive counts as one if it is the
\* first thing behind the condition.
PeekEnds(t) ==
  /\ ~skipping
  /\ handlers # <<>>
  /\ t \in PlainTokens \cup {EndOfFile} \cup (IF looping THEN {} ELSE Conditionals)
  /\ NextRaw(t)
  /\ currentToken' = t
  /\ handlers' = Front(handlers)
  /\ looping' = (Len(handlers) > 1)
  /\ Decide(Last(handlers))
  /\ UNCHANGED <<macros, early, fate>>

\* A directive that is carried out.
HandleDirective(t) ==
  /\ ~skipping
  /\ t \in Directives /\ t.kind # "include"
  /\ NextRaw(t)
  /\ macros' = CASE t.kind = "define" -> macros \cup {t.name}
                 [] t.kind = "undef"  -> macros \ {t.name}
                 [] OTHER -> macros
  /\ looping' = (handlers # <<>>)
  /\ early' = (early \/ handlers # <<>>)
  /\ Meets(t, TRUE)
  /\ currentToken' = NoItem
  /\ UNCHANGED <<branchStack, handlers, skipping>>

\* An include directive; below the maximum depth the file is entered.
HandleInclude(t) ==
  /\ ~skipping
  /\ t.kind = "include"
  /\ currentToken = NoItem /\ lexers > 0 /\ Followed /\ t.active = Active
  /\ IF includeDepth >= MaxIncludeDepth THEN UNCHANGED <<lexers, includeDepth>>
     ELSE lexers' = lexers + 1 /\ includeDepth' = includeDepth + 1
  /\ looping' = (handlers # <<>>)
  /\ early' = (early \/ handlers # <<>>)
  /\ Meets(t, TRUE)
  /\ UNCHANGED <<branchStack, macros, currentToken, handlers, skipping, blocks, meant, malformed>>

\* The parser gets a token.
EmitToken(t) ==
  /\ ~skipping
  /\ handlers = <<>>
  /\ t \in PlainTokens
  /\ NextRaw(t)
  /\ Meets(t, TRUE)
  /\ currentToken' = NoItem
  /\ UNCHANGED <<branchStack, macros, handlers, looping, skipping, early>>

\* Something in a branch that is skipped.
Skip(t) ==
  /\ skipping
  /\ t \in PlainTokens \cup Directives
  /\ NextRaw(t)
  /\ Meets(t, FALSE)
  /\ currentToken' = NoItem
  /\ UNCHANGED <<branchStack, macros, handlers, looping, skipping, early>>

\* The skipping ends; the directive that ends it is the next token.
SkipEnds(t) ==
  /\ skipping
  /\ t \in Conditionals \cup {EndOfFile}
  /\ NextRaw(t)
  /\ currentToken' = t
  /\ skipping' = FALSE
  /\ UNCHANGED <<branchStack, macros, handlers, looping, early, fate>>

PreprocessorNext ==
  \/ \E t \in Conditionals : HandleConditional(t) \/ ParseCondition(t)
  \/ \E t \in Directives : HandleDirective(t) \/ HandleInclude(t)
  \/ \E t \in PlainTokens : EmitToken(t)
  \/ \E t \in Conditionals \cup PlainTokens \cup {EndOfFile} : PeekEnds(t)
  \/ \E t \in PlainTokens \cup Directives : Skip(t)
  \/ \E t \in Conditionals \cup {EndOfFile} : SkipEnds(t)
  \/ EndOfInclude

PreprocessorSpec == PreprocessorInit /\ [][PreprocessorNext]_preprocessorVars

-----------------------------------------------------------------------------
(* Properties *)

\* In text whose conditional directives are in order, and as long as no directive
\* stands right behind a condition in parentheses, exactly the active text has an
\* effect, across files, nested branches and names defined and undefined on the way.
ActiveTextCounts == ~malformed /\ ~early => fate.done = fate.active

\* Text that is not active never has an effect.
SkippedIsInert == ~malformed => (fate.done => fate.active)
=============================================================================
