-------------------------------- MODULE Macros --------------------------------
(***************************************************************************)
(* Expansion of macros in the preprocessor of slang                        *)
(* (src/crates/slang/source/parsing/Preprocessor_macros.cpp).  The use of  *)
(* a macro is replaced by its body, in which the uses of macros are        *)
(* replaced, until none is left; a macro used while it is expanded is an   *)
(* error.  The calls of the expander are a stack of frames.                *)
(*                                                                         *)
(* The macros are chosen in the initial state.  Each has a body and, if it *)
(* is a function, one parameter.                                           *)
(* Left out: macros that are not defined or built in, errors of argument   *)
(* lists, stringification, comments, trivia and locations.                 *)
(***************************************************************************)
EXTENDS Integers, SequencesExt

CONSTANTS
  Simple,        \* macros without a parameter
  Functions_,    \* macros with one
  MaxFrames,     \* frames the stack of the thread has room for
  MaxText        \* tokens the memory has room for

ASSUME MacrosAssumption ==
  /\ IsFiniteSet(Simple) /\ IsFiniteSet(Functions_)
  /\ Simple \cap Functions_ = {}
  /\ MaxFrames \in Nat \ {0} /\ MaxText \in Nat

VARIABLES
  bodies,        \* the definitions
  usage,         \* the use that is expanded
  frames,        \* calls of expandReplacementList, the innermost last
  expansion      \* what has become of the use: result and outcome

macroVars == <<bodies, usage, frames, expansion>>

-----------------------------------------------------------------------------
(* Text *)

Macro == Simple \cup Functions_

\* A token, tagged with the macro in whose body it stands; the parameter; the use of
\* a macro; and pieces that make the use of a macro once they are pasted.
Word(m)     == [kind |-> "word", of |-> m]
Param       == [kind |-> "param"]
Use(m, arg) == [kind |-> "use", of |-> m, arg |-> arg]
Pieces(m)   == [kind |-> "pieces", of |-> m, arg |-> <<>>]

Atoms(m) == {Word(m)} \cup {Use(n, <<>>) : n \in Simple}
              \cup (IF m \in Functions_ THEN {Param} ELSE {})
Items(m) == Atoms(m) \cup {Pieces(n) : n \in Simple}
              \cup {Use(n, <<a>>) : n \in Functions_, a \in Atoms(m)}

\* The bodies of the runs: a function has up to two items.
Bodies(m) == {<<>>} \cup {<<i>> : i \in Items(m)}
               \cup (IF m \in Functions_ THEN {<<i, j>> : i, j \in Items(m)} ELSE {})

\* The text with the argument in the place of the parameter.
Substitute(text, arg) ==
  FlattenSeq([k \in DOMAIN text |->
    LET i == text[k]
    IN  CASE i.kind = "param" -> arg
          [] i.kind = "use" /\ i.arg = <<Param>> -> <<Use(i.of, arg)>>
          [] OTHER -> <<i>>])

\* What the use of macros in a text stands for: in every round bodies are put in the
\* place of uses, with the arguments as they are written.
Unfolded(definitions, text) ==
  FlattenSeq([k \in DOMAIN text |->
    LET i == text[k]
    IN  IF i.kind = "word" THEN <<i>> ELSE Substitute(definitions[i.of], i.arg)])

Meaning(definitions, text, rounds) ==
  LET unfolded[k \in 0 .. rounds] ==
        IF k = 0 THEN text ELSE Unfolded(definitions, unfolded[k - 1])
  IN  unfolded[rounds]

Finished(text) == \A i \in ToSet(text) : i.kind = "word"

\* The uses that are written somewhere, in a body or at the start: a chain of uses
\* without recursion is no longer than this.
Arguments == {Word(n) : n \in Macro} \cup {Use(n, <<>>) : n \in Simple}
Uses      == {Use(n, <<>>) : n \in Simple} \cup {Use(m, <<a>>) : m \in Functions_, a \in Arguments}
Longest == Cardinality(Uses)

-----------------------------------------------------------------------------
(* Frames *)

NoUse == [kind |-> "none"]

\* A call for the tokens todo.  It expands the body of a macro, or the argument of
\* the use for (for = NoUse is a body).
Frame(todo, already, for) ==
  [todo |-> todo, done |-> <<>>, expanded |-> FALSE, already |-> already, for |-> for]

Top == Last(frames)

\* The argument is expanded if the body has the parameter.
NeedsArgument(u) == Param \in ToSet(bodies[u.of])

\* Mutant: an argument is expanded as a part of the body.
ExpandMarking(u, already) ==
  IF NeedsArgument(u) THEN Frame(u.arg, already \cup {u.of}, u)
  ELSE Frame(Substitute(bodies[u.of], u.arg), already \cup {u.of}, NoUse)

\* expandMacro and the call for what it returns: the first frame for the use u.
Expand(u, already) ==
  IF NeedsArgument(u) THEN Frame(u.arg, {}, u)
  ELSE Frame(Substitute(bodies[u.of], u.arg), already \cup {u.of}, NoUse)

\* The macros that are expanded around a use in frame n.
Around(n) == IF n = 0 THEN {} ELSE frames[n].already

Definitions(M) ==
  {b \in [M -> UNION {Bodies(m) : m \in M}] : \A m \in M : b[m] \in Bodies(m)}

MacrosInit ==
  /\ \E s \in Definitions(Simple), f \in Definitions(Functions_) :
       bodies = [m \in Macro |-> IF m \in Simple THEN s[m] ELSE f[m]]
  /\ usage \in {Use(m, <<>>) : m \in Simple}
                 \cup {Use(m, <<Use(n, <<>>)>>) : m \in Functions_, n \in Simple}
  /\ frames = <<Expand(usage, {})>>
  /\ expansion = [result |-> <<>>, outcome |-> "expanding"]

Running == expansion.outcome = "expanding"

\* Ends the expansion.
EndWith(outcome, result) ==
  /\ frames' = <<>>
  /\ expansion' = [result |-> result, outcome |-> outcome]

\* The use i is followed by more frames.
Push(i) ==
  IF Len(frames) = MaxFrames THEN EndWith("crashed", <<>>)
  ELSE frames' = Append(frames, Expand(i, Top.already)) /\ UNCHANGED expansion

-----------------------------------------------------------------------------
(* Steps *)

\* A token that is no use of a macro stays; pieces are not pasted yet.
Keep ==
  /\ Running /\ Top.todo # <<>>
  /\ LET i == Head(Top.todo)
     IN  /\ i.kind # "use"
         /\ frames' = [frames EXCEPT ![Len(frames)] =
                         [Top EXCEPT !.todo = Tail(@), !.done = Append(@, i)]]
  /\ UNCHANGED <<bodies, usage, expansion>>

\* A nested use is expanded, unless its macro is being expanded.
ExpandUse ==
  /\ Running /\ Top.todo # <<>>
  /\ LET i == Head(Top.todo)
     IN  /\ i.kind = "use"
         /\ IF i.of \in Top.already THEN EndWith("recursive", <<>>) ELSE Push(i)
  /\ UNCHANGED <<bodies, usage>>

\* An argument is expanded: the body follows, with the argument in it.
ArgumentReady ==
  /\ Running /\ Top.todo = <<>> /\ Top.for # NoUse
  /\ LET n == Len(frames)
         u == Top.for
     IN  frames' = [frames EXCEPT ![n] =
                      Frame(Substitute(bodies[u.of], Top.done), Around(n - 1) \cup {u.of}, NoUse)]
  /\ UNCHANGED <<bodies, usage, expansion>>

\* A nested body is expanded: it takes the place of the use.
BodyReady ==
  /\ Running /\ Top.todo = <<>> /\ Top.for = NoUse
  /\ Len(frames) > 1
  /\ LET n == Len(frames)
     IN  frames' = [Front(frames) EXCEPT ![n - 1] =
                      [frames[n - 1] EXCEPT !.todo = Tail(@), !.done = @ \o Top.done, !.expanded = TRUE]]
  /\ UNCHANGED <<bodies, usage, expansion>>

\* applyMacroOps: the pieces are pasted.
Paste(text) ==
  [k \in DOMAIN text |-> IF text[k].kind = "pieces" THEN Use(text[k].of, <<>>) ELSE text[k]]

\* The whole body is expanded: after pasting, what has changed is expanded again.
NextRound ==
  /\ Running /\ Top.todo = <<>> /\ Top.for = NoUse
  /\ Len(frames) = 1
  /\ LET tokens == Paste(Top.done)
     IN  IF tokens = Top.done /\ ~Top.expanded THEN EndWith("done", tokens)
         ELSE IF Len(tokens) > MaxText THEN EndWith("crashed", <<>>)
         ELSE frames' = <<Frame(tokens, {usage.of}, NoUse)>> /\ UNCHANGED expansion
  /\ UNCHANGED <<bodies, usage>>

MacrosNext == Keep \/ ExpandUse \/ ArgumentReady \/ BodyReady \/ NextRound

MacrosSpec == MacrosInit /\ [][MacrosNext]_macroVars

\* The expander is a loop that nothing holds up.
MacrosFairSpec == MacrosSpec /\ WF_macroVars(MacrosNext)

-----------------------------------------------------------------------------
(* Properties *)

MacrosTypeOK ==
  /\ Len(frames) <= MaxFrames
  /\ \A n \in DOMAIN frames : frames[n].already \subseteq Macro
  /\ expansion.outcome \in {"expanding", "done", "recursive", "crashed"}

Pasted == \E m \in Macro : \E i \in ToSet(bodies[m]) : i.kind = "pieces"

\* A use becomes what its definition means, although arguments are expanded before
\* they are put in their place and pasting comes last; and where nothing is pasted
\* a macro is called recursive only if its meaning is endless.
ExpandedRight ==
  LET meaning == Meaning(bodies, <<usage>>, Longest)
  IN  /\ expansion.outcome = "done" => expansion.result = meaning
      /\ expansion.outcome = "recursive" => Pasted \/ ~Finished(meaning)

\* Every expansion ends, with a text or with the error that the macro is recursive.
ExpansionEnds == <>(expansion.outcome \in {"done", "recursive"})
=============================================================================
