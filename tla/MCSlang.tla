------------------------------- MODULE MCSlang -------------------------------
(***************************************************************************)
(* Seven components of slang that share no state, side by side.  A          *)
(* behaviour is one of one of them; the others stay as they begin, with    *)
(* inputs that are of no account.                                          *)
(***************************************************************************)
EXTENDS Preprocessor, Macros, SourceManager, ThreadPool, LibrarySearch, SVInt

VARIABLE part    \* the component that moves

Parts == {"preprocessor", "macros", "sources", "pool", "search", "bits", "sums"}

\* Two directories, of which the second has a file for n1 only.
CONSTANTS n1, n2, n3
ThreeNames == {n1, n2, n3}
TwoNames   == {n1, n2}
Places     == [name : ThreeNames, dir : {1}] \cup [name : {n1}, dir : {2}]

\* The inputs of the components that stay.
Resting ==
  /\ part # "macros"  => bodies = [m \in Macro |-> <<>>] /\ usage = Use(CHOOSE m \in Simple : TRUE, <<>>)
  /\ part # "sources" => disk = [p \in Sources |-> NoText]
  /\ part # "search"  => library = [f \in File |-> NoFile]

Init ==
  /\ part \in Parts
  /\ Resting
  /\ PreprocessorInit /\ MacrosInit /\ SourcesInit /\ ThreadPoolInit /\ SearchInit
  /\ BitsInit /\ SumInit

Still(p, vars) == p # part => UNCHANGED vars

Next ==
  /\ UNCHANGED part
  /\ Still("preprocessor", preprocessorVars) /\ Still("macros", macroVars)
  /\ Still("sources", sourceVars) /\ Still("pool", threadPoolVars)
  /\ Still("search", searchVars) /\ Still("bits", bitsVars) /\ Still("sums", sumVars)
  /\ \/ part = "preprocessor" /\ PreprocessorNext
     \/ part = "macros" /\ MacrosNext
     \/ part = "sources" /\ SourcesNext
     \/ part = "pool" /\ ThreadPoolNext
     \/ part = "search" /\ SearchNext
     \/ part = "bits" /\ BitsNext
     \/ part = "sums" /\ SumNext

Spec ==
  Init /\ [][Next]_<<part, preprocessorVars, macroVars, sourceVars, threadPoolVars, searchVars,
                     bitsVars, sumVars>>
=============================================================================
