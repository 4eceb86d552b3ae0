----------------------------- MODULE LibrarySearch -----------------------------
(***************************************************************************)
(* The search for missing definitions at the end of loadAndParseSources    *)
(* (src/crates/slang/source/driver/SourceLoader.cpp): names that the       *)
(* loaded trees want and nobody defines are looked for as files in the     *)
(* library directories, and what those want in turn, round after round.    *)
(*                                                                         *)
(* The files are chosen in the initial state; the names of a round come in *)
(* any order, as they do from a hash set.                                  *)
(***************************************************************************)
EXTENDS Naturals

CONSTANTS
  Names,         \* names of modules, packages and interfaces
  Wanted,        \* those that the files given by the user want and do not define
  File           \* places of files: a name and the number of a search directory;
                 \* the directories are tried in order

ASSUME LibrarySearchAssumption == Wanted \subseteq Names /\ File \subseteq [name : Names, dir : Nat]

NoFile == [defines |-> {}, wants |-> {}, exists |-> FALSE]

VARIABLES
  library,       \* what stands in the file for a name in a directory
  isCached,      \* the files the source manager has tried to read
  loaded,        \* the files that were parsed
  knownNames,
  missingNames,  \* names of this round that are still to be searched
  nextMissing,   \* names for the next one
  searching

searchVars == <<library, isCached, loaded, knownNames, missingNames, nextMissing, searching>>

SearchTypeOK ==
  /\ loaded \subseteq isCached /\ isCached \subseteq File
  /\ knownNames \subseteq Names /\ missingNames \subseteq Names /\ nextMissing \subseteq Names

\* A file defines one name, its own or another, and wants at most one.
Content ==
  {NoFile} \cup [defines : {{n} : n \in Names},
                 wants : {{}} \cup {{n} : n \in Names}, exists : {TRUE}]

SearchInit ==
  /\ library \in [File -> Content]
  /\ isCached = {} /\ loaded = {}
  /\ knownNames = {}
  /\ missingNames = Wanted
  /\ nextMissing = {}
  /\ searching = TRUE

\* The directories are tried in order; a file that is cached is passed over.
Candidates(n) == {f \in File : f.name = n /\ f \notin isCached}
Found(n) == {f \in Candidates(n) : library[f].exists}
First(F) == CHOOSE f \in F : \A g \in F : f.dir <= g.dir

\* All files up to the one that can be read are in the cache now.
Tried(n) ==
  IF Found(n) = {} THEN Candidates(n)
  ELSE {f \in Candidates(n) : f.dir <= First(Found(n)).dir}

\* Mutant: what the new tree wants is not looked at.
SearchForgetting(n) ==
  /\ searching /\ n \in missingNames
  /\ missingNames' = missingNames \ {n}
  /\ isCached' = isCached \cup Tried(n)
  /\ IF Found(n) = {} THEN UNCHANGED <<loaded, knownNames>>
     ELSE LET f == First(Found(n))
          IN  loaded' = loaded \cup {f} /\ knownNames' = knownNames \cup library[f].defines
  /\ UNCHANGED <<library, nextMissing, searching>>

\* One name of the round; of what the new tree wants, the rest of the round is not
\* considered.
Search(n) ==
  /\ searching /\ n \in missingNames
  /\ missingNames' = missingNames \ {n}
  /\ isCached' = isCached \cup Tried(n)
  /\ IF Found(n) = {} THEN UNCHANGED <<loaded, knownNames, nextMissing>>
     ELSE LET f == First(Found(n))
          IN  /\ loaded' = loaded \cup {f}
              /\ knownNames' = knownNames \cup library[f].defines
              /\ nextMissing' = nextMissing \cup (library[f].wants \ knownNames')
  /\ UNCHANGED <<library, searching>>

NextRound_ ==
  /\ searching /\ missingNames = {}
  /\ searching' = (nextMissing # {})
  /\ missingNames' = nextMissing
  /\ nextMissing' = {}
  /\ UNCHANGED <<library, isCached, loaded, knownNames>>

SearchNext == NextRound_ \/ \E n \in Names : Search(n)

SearchSpec == SearchInit /\ [][SearchNext]_searchVars

-----------------------------------------------------------------------------
(* Properties *)

\* When the search is over, a name that is wanted and nobody defines has a
\* file in no directory, or one that was parsed: nothing that could be found was left
\* out, whatever the order in which the names came.
SearchComplete ==
  ~searching =>
    \A n \in (Wanted \cup UNION {library[f].wants : f \in loaded}) \ knownNames :
      \A g \in {h \in File : h.name = n /\ library[h].exists} :
        \E f \in loaded : f.name = n /\ f.dir <= g.dir
=============================================================================
