---------------------------- MODULE Commands_proofs ----------------------------
(***************************************************************************)
(* Theorems about what the program does when it is called: the refactoring *)
(* of any project, any calls that install or add plugins, the selection    *)
(* and validation of any specifications, the extraction of any steps.      *)
(***************************************************************************)
EXTENDS Refactoring, CommandLine, ConceptExtraction, Installation,
        WellFoundedInduction, FiniteSetTheorems, SequenceTheorems, TLAPS

-----------------------------------------------------------------------------
(* Refactoring: one that fails leaves no half-renamed project, one that    *)
(* succeeds has renamed every line.                                        *)

\* Nothing is written before the runner has answered; only a request that it did not answer
\* in time can still change it.
Untouched ==
  /\ stage \in {"parse", "start", "name", "refactor", "crashed"} => disk = Project
  /\ stage \in {"parse", "start", "name", "crashed"} => runner # "renamed" /\ ~asked
  /\ asked => runner # "renamed"
  /\ result = "none" \/ stage = "done"
  /\ result = "failure" => disk = Project /\ (runner = "renamed" \/ asked => unanswered)

LEMMA UntouchedInit == RefactoringInit => Untouched
BY DEF RefactoringInit, Untouched

LEMMA UntouchedStep == Untouched /\ [RefactoringNext]_refactoringVars => Untouched'
<1> SUFFICES ASSUME Untouched, [RefactoringNext]_refactoringVars PROVE Untouched'
  OBVIOUS
<1>1. CASE SameStep \/ ParseFailure \/ RephraseInSpecsAndConcepts
  BY <1>1 DEF Untouched, SameStep, ParseFailure, RephraseInSpecsAndConcepts, End
<1>2. CASE StartRunner
  BY <1>2 DEF Untouched, StartRunner, End
<1>3. CASE GetStepNameFromRunner
  BY <1>3 DEF Untouched, GetStepNameFromRunner, End
<1>4. CASE RunnerRefactors
  BY <1>4 DEF Untouched, RunnerRefactors
<1>5. CASE RunnerRefuses \/ RunnerAnswers
  BY <1>5 DEF Untouched, RunnerRefuses, RunnerAnswers, End
<1>6. CASE Timeout
  BY <1>6 DEF Untouched, Timeout, End
<1>7. ASSUME NEW file \in ProjectFile, WriteFile(file) PROVE Untouched'
  BY <1>7 DEF Untouched, WriteFile
<1>8. CASE Written
  BY <1>8 DEF Untouched, Written, End
<1>9. CASE UNCHANGED refactoringVars
  BY <1>9 DEF Untouched, refactoringVars
<1> QED BY <1>1, <1>2, <1>3, <1>4, <1>5, <1>6, <1>7, <1>8, <1>9 DEF RefactoringNext

\* A refactoring that fails, or brings the process down, has changed nothing, for every
\* project and every request; only the runner may still, when it did not answer in time.
THEOREM FailureChangesNothing == RefactoringSpec => []NoHalfRefactoring
<1>1. Untouched => NoHalfRefactoring
  BY DEF Untouched, NoHalfRefactoring
<1> QED BY <1>1, UntouchedInit, UntouchedStep, PTL DEF RefactoringSpec

-----------------------------------------------------------------------------
(* What a success has done.                                                *)

\* A set of naturals that is not empty has a smallest element.
LEMMA Smallest ==
  ASSUME NEW T \in SUBSET Nat, T # {}
  PROVE  \E x \in T : \A y \in T : x <= y
<1> DEFINE R == {ss \in Nat \X Nat : ss[1] < ss[2]}
<1>1. IsWellFoundedOn(R, Nat)
  BY NatLessThanWellFounded DEF OpToRel
<1>2. \A x, y \in Nat : y < x => <<y, x>> \in R
  OBVIOUS
<1> HIDE DEF R
<1>3. PICK x \in T : \A y \in T : ~(<<y, x>> \in R)
  BY <1>1, WFMin
<1>4. \A y \in T : x <= y
  <2> SUFFICES ASSUME NEW y \in T PROVE x <= y
    OBVIOUS
  <2>1. <<y, x>> \notin R
    BY <1>3
  <2>2. ~(y < x)
    BY <2>1, <1>2
  <2> QED BY <2>2
<1> QED BY <1>4

\* The order of arguments finds the one argument of the old step.
LEMMA OrderFindsArgument ==
  ASSUME ProjectAssumed, NEW r \in Requests,
         NEW i \in DOMAIN r.new.args, NEW j \in DOMAIN r.old.args,
         r.new.args[i] = r.old.args[j]
  PROVE  OrderOfArgs(r)[i] = j
<1> DEFINE same == {k \in DOMAIN r.old.args : r.old.args[k] = r.new.args[i]}
<1>1. same = {j}
  BY DEF ProjectAssumed, RequestsAreRead
<1>2. j \in Int
  BY DEF ProjectAssumed, RequestsAreRead
<1>3. Min({j}) = j
  BY <1>2 DEF Min
<1> QED BY <1>1, <1>3 DEF OrderOfArgs

\* A line that is renamed is the line it was with the new name and the arguments in order.
LEMMA RenamedLine ==
  ASSUME ProjectAssumed, NEW r \in Requests, NEW f \in ProjectFile, NEW n \in DOMAIN Project[f],
         NEW before, before = Project[f][n], NEW after, after = Rename(before, r)
  PROVE  /\ before.value # r.old.value => after = before
         /\ before.value = r.old.value =>
              after = [heading |-> before.heading, concept |-> before.concept,
                       value |-> r.new.value, args |-> GetArgsInOrder(before, before.concept, r)]
<1> DEFINE args == GetArgsInOrder(before, before.concept, r)
<1>1. before = [heading |-> before.heading, concept |-> before.concept,
                value |-> before.value, args |-> before.args]
  BY DEF ProjectAssumed, LinesAreRead
<1>2. CASE before.value # r.old.value
  BY <1>2 DEF Rename
<1>3. CASE before.value = r.old.value
  <2> HIDE DEF args
  <2>1. after = [before EXCEPT !.value = r.new.value, !.args = args]
    BY <1>3 DEF Rename, args
  <2>2. after = [heading |-> before.heading, concept |-> before.concept,
                 value |-> r.new.value, args |-> args]
    BY <2>1, <1>1
  <2> QED BY <1>3, <2>2 DEF args
<1> QED BY <1>2, <1>3

\* The arguments in order: as many as the new step has, the old step's where the new one has
\* them and the others new.
InOrder(args, line, isConcept, r) ==
  /\ args \in Seq({args[i] : i \in DOMAIN r.new.args})
  /\ DOMAIN args = DOMAIN r.new.args /\ Len(args) = Len(r.new.args)
  /\ \A i \in DOMAIN r.new.args, j \in DOMAIN r.old.args :
       r.new.args[i] = r.old.args[j] => args[i] = line.args[j]
  /\ \A i \in DOMAIN r.new.args :
       (\A j \in DOMAIN r.old.args : r.new.args[i] # r.old.args[j]) =>
         args[i] = NewArg(isConcept, r.new.args[i].value)

LEMMA ArgsInOrder ==
  ASSUME ProjectAssumed, NEW r \in Requests, NEW line, NEW isConcept
  PROVE  InOrder(GetArgsInOrder(line, isConcept, r), line, isConcept, r)
<1> DEFINE args == GetArgsInOrder(line, isConcept, r)
<1>1. PICK n \in Nat : n = Len(r.new.args) /\ DOMAIN r.new.args = 1..n
  BY DEF ProjectAssumed, RequestsAreRead
<1>2. DOMAIN args = 1..n /\ args = [i \in 1..n |-> args[i]]
  BY <1>1 DEF GetArgsInOrder
<1>3. ASSUME NEW i \in DOMAIN r.new.args, NEW j \in DOMAIN r.old.args,
             r.new.args[i] = r.old.args[j]
      PROVE  args[i] = line.args[j]
  <2>1. OrderOfArgs(r)[i] = j /\ j # 0
    BY <1>3, OrderFindsArgument DEF ProjectAssumed, RequestsAreRead
  <2> QED BY <2>1 DEF GetArgsInOrder
<1>4. ASSUME NEW i \in DOMAIN r.new.args,
             \A j \in DOMAIN r.old.args : r.new.args[i] # r.old.args[j]
      PROVE  args[i] = NewArg(isConcept, r.new.args[i].value)
  <2>1. OrderOfArgs(r)[i] = 0
    BY <1>4 DEF OrderOfArgs
  <2> QED BY <2>1 DEF GetArgsInOrder
<1> HIDE DEF args
<1>5. args \in Seq({args[i] : i \in 1..n}) /\ Len(args) = n
  <2>1. args \in [1..n -> {args[i] : i \in 1..n}]
    BY <1>2
  <2>2. args \in Seq({args[i] : i \in 1..n})
    BY <2>1
  <2> QED BY <1>2, <2>2, LenProperties
<1> QED BY <1>1, <1>2, <1>3, <1>4, <1>5 DEF InOrder, args

\* Reading a line again leaves it where it is, with the arguments up to a table in their places.
LEMMA ReadBackSound ==
  ASSUME NEW line, NEW S, line.args \in Seq(S),
         line = [heading |-> line.heading, concept |-> line.concept,
                 value |-> line.value, args |-> line.args]
  PROVE  LET back == ReadBack(line)
         IN  /\ back.heading = line.heading /\ DOMAIN back.args \subseteq DOMAIN line.args
             /\ \A i \in DOMAIN back.args : back.args[i] = line.args[i]
             /\ \A i \in DOMAIN line.args \ DOMAIN back.args : \E k \in TablesOf(back) : k < i
<1> DEFINE back == ReadBack(line)
           table == Min(TablesOf(line))
           value == SubSeq(line.value, 1, Placeholder(line.value, table))
<1>1. CASE TablesOf(line) = {} \/ EndsInTable(line)
  BY <1>1 DEF ReadBack
<1>2. CASE ~(TablesOf(line) = {} \/ EndsInTable(line))
  <2>1. DOMAIN line.args = 1..Len(line.args) /\ Len(line.args) \in Nat
    OBVIOUS
  <2>2. TablesOf(line) # {} /\ TablesOf(line) \in SUBSET Nat
    BY <1>2, <2>1 DEF TablesOf
  <2>3. table \in TablesOf(line)
    BY <2>2, Smallest DEF Min
  <2>4. table \in 1..Len(line.args) /\ line.args[table].kind = "table"
    BY <2>1, <2>3 DEF TablesOf
  <2> HIDE DEF table, value
  <2>5. back = [line EXCEPT !.value = value, !.args = SubSeq(line.args, 1, table)]
    BY <1>2 DEF ReadBack, table, value
  <2>6. back = [heading |-> line.heading, concept |-> line.concept, value |-> value,
                args |-> SubSeq(line.args, 1, table)]
    <3> HIDE DEF back
    <3> QED BY <2>5
  <2>7. /\ back.heading = line.heading /\ DOMAIN back.args = 1..table
        /\ \A i \in 1..table : back.args[i] = line.args[i]
    <3> HIDE DEF back
    <3>1. \A i \in 1..table : i \in 1..Len(line.args)
      BY <2>1, <2>4
    <3>2. /\ DOMAIN SubSeq(line.args, 1, table) = 1..table
          /\ \A i \in 1..table : SubSeq(line.args, 1, table)[i] = line.args[i]
      BY <2>1, <2>4
    <3> QED BY <2>6, <3>2
  <2>8. table \in TablesOf(back)
    <3> HIDE DEF back
    <3> QED BY <2>4, <2>7 DEF TablesOf
  <2> HIDE DEF back
  <2>9. \A i \in DOMAIN line.args \ DOMAIN back.args : table < i
    BY <2>1, <2>4, <2>7
  <2> QED BY <2>1, <2>4, <2>7, <2>8, <2>9 DEF back
<1> QED BY <1>1, <1>2

\* A line whose table stays at its end is read as it was renamed.
LEMMA StaysWhole ==
  ASSUME ProjectAssumed, NEW r \in Requests, NEW f \in ProjectFile, NEW n \in DOMAIN Project[f],
         Project[f][n].value = r.old.value, TableStays(Project[f][n], r)
  PROVE  ReadBack(Rename(Project[f][n], r)) = Rename(Project[f][n], r)
<1> DEFINE before == Project[f][n]
           args == GetArgsInOrder(before, before.concept, r)
           after == Rename(before, r)
<1> HIDE DEF before, args, after
<1>1. after.value = r.new.value /\ after.args = args
  <2>1. after = [heading |-> before.heading, concept |-> before.concept, value |-> r.new.value,
                 args |-> args]
    BY RenamedLine DEF before, args, after
  <2> QED BY <2>1
<1>2. /\ DOMAIN args = DOMAIN r.new.args /\ Len(args) = Len(r.new.args)
      /\ \A i \in DOMAIN r.new.args, j \in DOMAIN r.old.args :
           r.new.args[i] = r.old.args[j] => args[i] = before.args[j]
      /\ \A i \in DOMAIN r.new.args :
           (\A j \in DOMAIN r.old.args : r.new.args[i] # r.old.args[j]) =>
             args[i] = NewArg(before.concept, r.new.args[i].value)
  <2>1. InOrder(args, before, before.concept, r)
    BY ArgsInOrder DEF args
  <2> QED BY <2>1 DEF InOrder
<1>3. DOMAIN before.args = DOMAIN r.old.args
  BY DEF ProjectAssumed, RequestsAreRead, before
<1>4. ASSUME NEW i \in TablesOf(after)
      PROVE  i = Len(after.args) /\ Last(after.value) = PARAMETER_PLACEHOLDER
  <2>1. i \in DOMAIN r.new.args /\ args[i].kind = "table"
    BY <1>1, <1>2 DEF TablesOf
  <2>2. NewArg(before.concept, r.new.args[i].value).kind # "table"
    BY DEF NewArg
  <2>3. PICK j \in DOMAIN r.old.args : r.new.args[i] = r.old.args[j]
    BY <1>2, <2>1, <2>2
  <2>4. j \in TablesOf(before)
    BY <1>2, <1>3, <2>1, <2>3 DEF TablesOf
  <2> QED BY <1>1, <1>2, <2>1, <2>3, <2>4 DEF TableStays, before
<1>5. TablesOf(after) = {} \/ EndsInTable(after)
  <2>1. CASE TablesOf(after) # {}
    <3>1. TablesOf(after) = {Len(after.args)}
      BY <1>4, <2>1
    <3> QED BY <1>4, <2>1, <3>1 DEF EndsInTable
  <2> QED BY <2>1
<1> QED BY <1>5 DEF ReadBack, after, before

\* What a line of a renamed file is when it is read: the line it was, or one with the new name
\* and its arguments where the new step has them, up to a table that is not at its end.
LEMMA RenameSound ==
  ASSUME ProjectAssumed, NEW r \in Requests, NEW f \in ProjectFile, NEW n \in DOMAIN Project[f]
  PROVE  LET before == Project[f][n]
             after == Renamed(f, r)[n]
         IN  IF before.value # r.old.value THEN after = before
             ELSE /\ TableStays(before, r) => after = Rename(before, r) /\ after.value = r.new.value
                  /\ \A i \in DOMAIN after.args, j \in DOMAIN r.old.args :
                       r.new.args[i] = r.old.args[j] => after.args[i] = before.args[j]
                  /\ \A i \in DOMAIN r.new.args \ DOMAIN after.args :
                       \E k \in TablesOf(after) : k < i
<1> DEFINE before == Project[f][n]
           renamed == Rename(before, r)
           after == ReadBack(renamed)
           args == GetArgsInOrder(before, before.concept, r)
<1>1. Renamed(f, r)[n] = after
  BY DEF Renamed
<1>2. CASE before.value # r.old.value
  <2>1. renamed = before
    BY <1>2, RenamedLine
  <2>2. TablesOf(before) = {} \/ EndsInTable(before)
    BY DEF ProjectAssumed, LinesAreRead
  <2> HIDE DEF before, renamed
  <2>3. after = before
    BY <2>1, <2>2 DEF ReadBack
  <2> QED BY <1>1, <1>2, <2>3 DEF before
<1>3. CASE before.value = r.old.value
  <2>1. renamed = [heading |-> before.heading, concept |-> before.concept, value |-> r.new.value,
                   args |-> args]
    BY <1>3, RenamedLine
  <2>2. /\ args \in Seq({args[i] : i \in DOMAIN r.new.args}) /\ DOMAIN args = DOMAIN r.new.args
        /\ \A i \in DOMAIN r.new.args, j \in DOMAIN r.old.args :
             r.new.args[i] = r.old.args[j] => args[i] = before.args[j]
    <3> HIDE DEF before, args, renamed
    <3>1. InOrder(args, before, before.concept, r)
      BY ArgsInOrder DEF args
    <3> QED BY <3>1 DEF InOrder
  <2>3. TableStays(before, r) => after = renamed
    BY <1>3, StaysWhole
  <2> HIDE DEF before, args, renamed
  <2>4. /\ DOMAIN after.args \subseteq DOMAIN args
        /\ \A i \in DOMAIN after.args : after.args[i] = args[i]
        /\ \A i \in DOMAIN args \ DOMAIN after.args : \E k \in TablesOf(after) : k < i
    <3>1. /\ renamed.heading = before.heading /\ renamed.concept = before.concept
          /\ renamed.value = r.new.value /\ renamed.args = args
      BY <2>1
    <3> QED BY <2>1, <2>2, <3>1, ReadBackSound
  <2>5. renamed.value = r.new.value
    BY <2>1
  <2> HIDE DEF after
  <2>6. \A i \in DOMAIN after.args, j \in DOMAIN r.old.args :
          r.new.args[i] = r.old.args[j] => after.args[i] = before.args[j]
    BY <2>2, <2>4
  <2>7. \A i \in DOMAIN r.new.args \ DOMAIN after.args : \E k \in TablesOf(after) : k < i
    BY <2>2, <2>4
  <2> QED BY <1>1, <1>3, <2>3, <2>5, <2>6, <2>7 DEF before, renamed
<1> QED BY <1>2, <1>3

\* What a file has: what it had, or that renamed.
FileInv ==
  /\ request \in Requests
  /\ disk = [f \in ProjectFile |-> disk[f]]
  /\ \A f \in ProjectFile : disk[f] = Project[f] \/ disk[f] = Renamed(f, request)

\* What the writing has done so far, and that a success comes at its end.
Progress ==
  /\ stage # "done" => result = "none"
  /\ stage \in {"start", "name", "refactor"} => todo = Refactored(request)
  /\ stage = "write" \/ (result = "success" /\ request.old # request.new) =>
       /\ \A f \in Refactored(request) :
            (stage = "write" /\ f \in todo) \/ f \in unsaved \/ disk[f] = Renamed(f, request)
       /\ RenamesConcept(request) \/ runner \in {"absent", "renamed"}

Renaming == FileInv /\ Progress

LEMMA RenamingInit ==
  ASSUME ProjectAssumed
  PROVE  RefactoringInit => Renaming
BY DEF RefactoringInit, Renaming, FileInv, Progress, ProjectAssumed

LEMMA WriteFileRenames ==
  ASSUME Renaming, NEW file \in ProjectFile, WriteFile(file)
  PROVE  Renaming'
<1>1. request' = request /\ stage = "write" /\ stage' = "write" /\ result' = result /\ runner' = runner
  BY DEF WriteFile
<1>2. todo' = todo \ {file} /\ file \in todo
  BY DEF WriteFile
<1>3. \/ disk' = [disk EXCEPT ![file] = Renamed(file, request)] /\ unsaved' = unsaved
      \/ disk' = disk /\ unsaved' = unsaved \cup {file}
  BY DEF WriteFile
<1>4. \A f \in ProjectFile : Renamed(f, request') = Renamed(f, request)
  BY <1>1
<1>5. RenamesConcept(request') = RenamesConcept(request) /\ Refactored(request') = Refactored(request)
  BY <1>1
<1>6. Refactored(request) \subseteq ProjectFile
  BY DEF Refactored
<1>7. FileInv'
  BY <1>1, <1>3, <1>4 DEF Renaming, FileInv
<1>8. Progress'
  <2>1. \A f \in Refactored(request) : f \in todo \/ f \in unsaved \/ disk[f] = Renamed(f, request)
    BY <1>1 DEF Renaming, Progress
  <2>2. \A f \in Refactored(request) : f \in todo' \/ f \in unsaved' \/ disk'[f] = Renamed(f, request)
    BY <2>1, <1>2, <1>3, <1>6 DEF Renaming, FileInv
  <2>3. stage' # "done" => result' = "none"
    BY <1>1 DEF Renaming, Progress
  <2>4. RenamesConcept(request) \/ runner \in {"absent", "renamed"}
    BY <1>1 DEF Renaming, Progress
  <2> QED BY <1>1, <1>5, <2>2, <2>3, <2>4 DEF Progress
<1> QED BY <1>7, <1>8 DEF Renaming

LEMMA RenamingStep == Untouched /\ Renaming /\ [RefactoringNext]_refactoringVars => Renaming'
<1> SUFFICES ASSUME Untouched, Renaming, [RefactoringNext]_refactoringVars PROVE Renaming'
  OBVIOUS
<1>1. CASE SameStep \/ ParseFailure
  BY <1>1 DEF Renaming, FileInv, Progress, SameStep, ParseFailure, End
<1>2. CASE RephraseInSpecsAndConcepts
  BY <1>2 DEF Renaming, FileInv, Progress, RephraseInSpecsAndConcepts
<1>3. CASE StartRunner
  BY <1>3 DEF Renaming, FileInv, Progress, StartRunner, End
<1>4. CASE GetStepNameFromRunner
  BY <1>4 DEF Renaming, FileInv, Progress, GetStepNameFromRunner, End
<1>5. CASE RunnerRefactors \/ RunnerRefuses \/ RunnerAnswers \/ Timeout
  BY <1>5 DEF Renaming, FileInv, Progress, Untouched, RunnerRefactors, RunnerRefuses,
              RunnerAnswers, Timeout, End
<1>6. ASSUME NEW file \in ProjectFile, WriteFile(file) PROVE Renaming'
  BY <1>6, WriteFileRenames
<1>7. CASE Written
  BY <1>7 DEF Renaming, FileInv, Progress, Written, End
<1>8. CASE UNCHANGED refactoringVars
  BY <1>8 DEF Renaming, FileInv, Progress, refactoringVars
<1> QED BY <1>1, <1>2, <1>3, <1>4, <1>5, <1>6, <1>7, <1>8 DEF RefactoringNext

LEMMA RenamingSuffices ==
  ASSUME ProjectAssumed, Renaming
  PROVE  RenamedThroughout
<1>1. request \in Requests
  BY DEF Renaming, FileInv
<1>2. NamesAgree
  <2> SUFFICES ASSUME result = "success", request.old.value # request.new.value
               PROVE  /\ \A f \in ProjectFile \ unsaved : \A n \in DOMAIN disk[f] :
                           disk[f][n].value = request.old.value => ~TableStays(Project[f][n], request)
                      /\ RenamesConcept(request) \/ runner \in {"absent", "renamed"}
    BY DEF NamesAgree
  <2>1. request.old # request.new /\ stage = "done"
    BY DEF Renaming, Progress
  <2>2. RenamesConcept(request) \/ runner \in {"absent", "renamed"}
    BY <2>1 DEF Renaming, Progress
  <2>3. ASSUME NEW f \in ProjectFile \ unsaved, NEW n \in DOMAIN disk[f]
        PROVE  disk[f][n].value = request.old.value => ~TableStays(Project[f][n], request)
    <3>1. CASE f \in Refactored(request)
      <4>1. disk[f] = Renamed(f, request)
        BY <2>1, <3>1 DEF Renaming, Progress
      <4>2. n \in DOMAIN Project[f]
        BY <4>1 DEF Renamed
      <4> QED BY <1>1, <4>1, <4>2, RenameSound
    <3>2. CASE f \notin Refactored(request)
      <4>1. \A m \in DOMAIN Project[f] : Project[f][m].value # request.old.value
        BY <3>2 DEF Refactored
      <4>2. n \in DOMAIN Project[f]
        BY DEF Renaming, FileInv, Renamed
      <4>3. Renamed(f, request)[n] = Project[f][n]
        BY <1>1, <4>1, <4>2, RenameSound
      <4> QED BY <4>1, <4>2, <4>3 DEF Renaming, FileInv
    <3> QED BY <3>1, <3>2
  <2> QED BY <2>2, <2>3
<1>3. ArgumentsKeepTheirPlaces
  <2> SUFFICES ASSUME NEW f \in ProjectFile
               PROVE  /\ Len(disk[f]) = Len(Project[f])
                      /\ disk[f] # Project[f] =>
                           \A n \in DOMAIN Project[f] :
                             LET before == Project[f][n]
                                 after == disk[f][n]
                             IN  IF before.value # request.old.value THEN after = before
                                 ELSE /\ TableStays(before, request) => after.value = request.new.value
                                      /\ \A i \in DOMAIN after.args, j \in DOMAIN request.old.args :
                                           request.new.args[i] = request.old.args[j] =>
                                             after.args[i] = before.args[j]
                                      /\ \A i \in DOMAIN request.new.args \ DOMAIN after.args :
                                           \E k \in TablesOf(after) : k < i
    BY DEF ArgumentsKeepTheirPlaces
  <2>1. CASE disk[f] = Project[f]
    BY <2>1
  <2>2. CASE disk[f] # Project[f]
    <3>1. disk[f] = Renamed(f, request)
      BY <2>2 DEF Renaming, FileInv
    <3>2. Len(Renamed(f, request)) = Len(Project[f])
      <4> DEFINE lines == Renamed(f, request)
                 length == Len(Project[f])
      <4>1. length \in Nat /\ lines = [n \in 1..length |-> lines[n]]
        BY DEF ProjectAssumed, LinesAreRead, Renamed
      <4> HIDE DEF lines, length
      <4>2. lines \in Seq({lines[n] : n \in 1..length})
        BY <4>1
      <4>3. DOMAIN lines = 1..length /\ DOMAIN lines = 1..Len(lines) /\ Len(lines) \in Nat
        BY <4>1, <4>2
      <4>4. Len(lines) = length
        BY <4>1, <4>3
      <4> QED BY <4>4 DEF lines, length
    <3>3. ASSUME NEW n \in DOMAIN Project[f]
          PROVE  LET before == Project[f][n]
                     after == disk[f][n]
                 IN  IF before.value # request.old.value THEN after = before
                     ELSE /\ TableStays(before, request) => after.value = request.new.value
                          /\ \A i \in DOMAIN after.args, j \in DOMAIN request.old.args :
                               request.new.args[i] = request.old.args[j] =>
                                 after.args[i] = before.args[j]
                          /\ \A i \in DOMAIN request.new.args \ DOMAIN after.args :
                               \E k \in TablesOf(after) : k < i
      BY <1>1, <3>1, RenameSound
    <3> QED BY <3>1, <3>2, <3>3
  <2> QED BY <2>1, <2>2
<1> QED BY <1>2, <1>3 DEF RenamedThroughout

\* A success has renamed every line of every file that could be written, and the runner's step
\* too, unless it is a concept's, with every argument where the new step has it; but a line
\* that has a table is read as far as the table, and only what is behind it is missing.  For
\* every project whose lines have been read from files, and every request.
THEOREM SuccessRenamesAll ==
  ASSUME ProjectAssumed
  PROVE  RefactoringSpec => []RenamedThroughout
<1>1. Renaming => RenamedThroughout
  BY RenamingSuffices
<1> QED BY <1>1, UntouchedInit, UntouchedStep, RenamingInit, RenamingStep, PTL DEF RefactoringSpec

-----------------------------------------------------------------------------
(* What a project is afterwards.                                           *)

\* Positions have a last one.
LEMMA MaxOfPositions ==
  ASSUME NEW n \in Nat, NEW S \in SUBSET (1..n), S # {}
  PROVE  Max(S) \in S
<1> DEFINE T == {k \in Nat : \E m \in S : m = n - k}
<1>1. T # {} /\ T \in SUBSET Nat
  <2>1. PICK m \in S : TRUE
    OBVIOUS
  <2>2. n - m \in Nat /\ m = n - (n - m)
    BY <2>1
  <2> QED BY <2>1, <2>2
<1>2. PICK k \in T : \A j \in T : k <= j
  BY <1>1, Smallest
<1>3. PICK m \in S : m = n - k
  BY <1>2
<1>4. \A j \in S : j <= m
  <2> SUFFICES ASSUME NEW j \in S PROVE j <= m
    OBVIOUS
  <2>1. n - j \in T
    <3>1. n - j \in Nat /\ j = n - (n - j)
      OBVIOUS
    <3> QED BY <3>1
  <2> QED BY <2>1, <1>2, <1>3
<1> HIDE DEF T
<1> QED BY <1>3, <1>4 DEF Max

\* A renamed step has no parameter it did not have, unless it is a concept's that is given
\* others; a concept that is given no others keeps them all.
LEMMA RenamedParams ==
  ASSUME ProjectAssumed, ProjectParses, NEW r \in Requests,
         NEW f \in ConceptFile, NEW n \in DOMAIN Project[f], Project[f][n].value = r.old.value
  PROVE  LET before == Project[f][n]
             after == Rename(before, r)
         IN  /\ ~before.concept \/ SameArgs(r) => Params(after) \subseteq Params(before)
             /\ SameArgs(r) => Params(before) \subseteq Params(after)
<1> DEFINE before == Project[f][n]
           after == Rename(before, r)
           isConcept == before.concept
<1>1. f \in ProjectFile
  BY DEF ProjectParses
<1>2. after.args = GetArgsInOrder(before, isConcept, r)
  <2> HIDE DEF before, after
  <2>1. after = [heading |-> before.heading, concept |-> before.concept,
                 value |-> r.new.value, args |-> GetArgsInOrder(before, before.concept, r)]
    BY <1>1, RenamedLine DEF before, after
  <2> QED BY <2>1
<1>3. DOMAIN before.args = DOMAIN r.old.args
  BY <1>1 DEF ProjectAssumed, RequestsAreRead
<1> HIDE DEF after, before, isConcept
<1>4. /\ DOMAIN after.args = DOMAIN r.new.args
      /\ \A i \in DOMAIN r.new.args, j \in DOMAIN r.old.args :
           r.new.args[i] = r.old.args[j] => after.args[i] = before.args[j]
      /\ \A i \in DOMAIN r.new.args :
           (\A j \in DOMAIN r.old.args : r.new.args[i] # r.old.args[j]) =>
             after.args[i] = NewArg(isConcept, r.new.args[i].value)
  <2>1. InOrder(after.args, before, isConcept, r)
    BY <1>2, ArgsInOrder
  <2> QED BY <2>1 DEF InOrder
<1>5. ASSUME ~isConcept \/ SameArgs(r)
      PROVE  Params(after) \subseteq Params(before)
  <2> SUFFICES ASSUME NEW i \in DOMAIN after.args, after.args[i].kind = "dynamic"
               PROVE  after.args[i].value \in Params(before)
    BY DEF Params
  <2>1. CASE \E j \in DOMAIN r.old.args : r.new.args[i] = r.old.args[j]
    <3>1. PICK j \in DOMAIN r.old.args : r.new.args[i] = r.old.args[j]
      BY <2>1
    <3>2. after.args[i] = before.args[j]
      BY <3>1, <1>4
    <3> QED BY <3>1, <3>2, <1>3 DEF Params
  <2>2. CASE \A j \in DOMAIN r.old.args : r.new.args[i] # r.old.args[j]
    <3>1. ~SameArgs(r)
      BY <2>2, <1>4 DEF SameArgs
    <3>2. ~isConcept
      BY <3>1, <1>5
    <3>3. after.args[i] = NewArg(isConcept, r.new.args[i].value)
      BY <1>4, <2>2
    <3>4. after.args[i].kind = "static"
      BY <3>2, <3>3 DEF NewArg
    <3> QED BY <3>4
  <2> QED BY <2>1, <2>2
<1>6. ASSUME SameArgs(r)
      PROVE  Params(before) \subseteq Params(after)
  <2> SUFFICES ASSUME NEW j \in DOMAIN before.args, before.args[j].kind = "dynamic"
               PROVE  before.args[j].value \in Params(after)
    BY DEF Params
  <2>1. PICK i \in DOMAIN r.new.args : r.new.args[i] = r.old.args[j]
    BY <1>3, <1>6 DEF SameArgs
  <2>2. after.args[i] = before.args[j]
    BY <1>3, <1>4, <2>1
  <2> QED BY <1>4, <2>1, <2>2 DEF Params
<1> QED BY <1>5, <1>6 DEF after, before, isConcept

\* All concepts are renamed, and no table has cut a step.
WholeRenamed ==
  \A f \in ConceptFile :
    /\ DOMAIN disk[f] = DOMAIN Project[f]
    /\ \A n \in DOMAIN Project[f] : disk[f][n] = Rename(Project[f][n], request)

LEMMA RenamedWhole ==
  ASSUME ProjectAssumed, ProjectParses, request \in Requests, WholeRenamed,
         NEW f \in ConceptFile, NEW n \in DOMAIN Project[f]
  PROVE  /\ disk[f][n].heading = Project[f][n].heading
         /\ disk[f][n].value = IF Project[f][n].value = request.old.value THEN request.new.value
                              ELSE Project[f][n].value
         /\ Project[f][n].value # request.old.value => disk[f][n] = Project[f][n]
<1> DEFINE before == Project[f][n]
           after == disk[f][n]
           args == GetArgsInOrder(before, before.concept, request)
<1>1. f \in ProjectFile /\ after = Rename(before, request)
  BY DEF ProjectParses, WholeRenamed
<1> HIDE DEF before, after, args
<1>2. /\ before.value # request.old.value => after = before
      /\ before.value = request.old.value =>
           after = [heading |-> before.heading, concept |-> before.concept,
                    value |-> request.new.value, args |-> args]
  BY <1>1, RenamedLine DEF before, args
<1> QED BY <1>2 DEF before, after

LEMMA RenamedParses ==
  ASSUME ProjectAssumed, ProjectParses, request \in Requests, WholeRenamed,
         ~Used(request.new.value), RenamesConcept(request) => SameArgs(request)
  PROVE  Parses(disk)
<1> DEFINE r == request
           V(f, n) == Project[f][n].value
<1>1. ConceptFile \subseteq ProjectFile /\ Parses(Project)
  BY DEF ProjectParses
<1>2. \A f \in ConceptFile : Headings(disk[f]) = Headings(Project[f])
  <2> SUFFICES ASSUME NEW f \in ConceptFile PROVE Headings(disk[f]) = Headings(Project[f])
    OBVIOUS
  <2>1. ASSUME NEW n \in DOMAIN Project[f] PROVE disk[f][n].heading = Project[f][n].heading
    BY <1>1, RenamedWhole
  <2> QED BY <2>1 DEF Headings, WholeRenamed
<1>3. ASSUME NEW f \in ConceptFile, NEW n \in DOMAIN Project[f]
      PROVE  disk[f][n].value = IF V(f, n) = r.old.value THEN r.new.value ELSE V(f, n)
  BY <1>1, RenamedWhole
<1>4. ASSUME NEW f \in ConceptFile, NEW n \in DOMAIN Project[f] PROVE V(f, n) # r.new.value
  BY <1>1 DEF Used
<1>5. ASSUME NEW f \in ConceptFile, NEW n \in DOMAIN Project[f],
             NEW g \in ConceptFile, NEW m \in DOMAIN Project[g],
             disk[f][n].value = disk[g][m].value
      PROVE  V(f, n) = V(g, m)
  <2>1. disk[f][n].value = IF V(f, n) = r.old.value THEN r.new.value ELSE V(f, n)
    BY <1>3
  <2>2. disk[g][m].value = IF V(g, m) = r.old.value THEN r.new.value ELSE V(g, m)
    BY <1>3
  <2>3. V(f, n) # r.new.value /\ V(g, m) # r.new.value
    BY <1>4
  <2> QED BY <1>5, <2>1, <2>2, <2>3
<1>6. ASSUME NEW f \in ConceptFile, NEW g \in ConceptFile,
             NEW m \in Headings(disk[f]), NEW n \in Headings(disk[g]),
             disk[f][m].value = disk[g][n].value
      PROVE  f = g /\ m = n
  <2>1. m \in Headings(Project[f]) /\ n \in Headings(Project[g])
    BY <1>1, <1>2
  <2>2. m \in DOMAIN Project[f] /\ n \in DOMAIN Project[g]
    BY <2>1 DEF Headings
  <2>3. Project[f][m].value = Project[g][n].value
    BY <1>1, <1>5, <1>6, <2>2
  <2> QED BY <1>1, <2>1, <2>3 DEF Parses
<1>7. ASSUME NEW f \in ConceptFile, NEW n \in DOMAIN disk[f] \ Headings(disk[f])
      PROVE  /\ disk[f][n].value # HeadingAbove(disk[f], n).value
             /\ Params(disk[f][n]) \subseteq Params(HeadingAbove(disk[f], n))
  <2> DEFINE S == {m \in Headings(Project[f]) : m <= n}
             k == Max(S)
  <2>1. f \in ProjectFile /\ n \in DOMAIN Project[f] \ Headings(Project[f])
    BY <1>1, <1>2 DEF WholeRenamed
  <2>2. k \in S
    <3>1. S # {}
      BY <2>1 DEF ProjectParses
    <3>2. Len(Project[f]) \in Nat /\ S \in SUBSET (1..Len(Project[f]))
      BY <2>1 DEF ProjectAssumed, LinesAreRead, Headings
    <3> HIDE DEF S
    <3> QED BY <3>1, <3>2, MaxOfPositions
  <2>3. k \in DOMAIN Project[f] /\ Project[f][k].heading
    BY <2>2 DEF Headings
  <2>4. HeadingAbove(Project[f], n) = Project[f][k] /\ HeadingAbove(disk[f], n) = disk[f][k]
    BY <1>2, <2>1 DEF HeadingAbove
  <2> HIDE DEF k
  <2>5. /\ Project[f][n].value # Project[f][k].value
        /\ Params(Project[f][n]) \subseteq Params(Project[f][k])
    BY <1>1, <2>1, <2>4 DEF Parses
  <2>6. disk[f][n].value # disk[f][k].value
    BY <1>5, <2>1, <2>3, <2>5
  <2>7. disk[f][n] = Rename(Project[f][n], r) /\ disk[f][k] = Rename(Project[f][k], r)
    BY <2>1, <2>3 DEF WholeRenamed
  <2>8. Params(disk[f][n]) \subseteq Params(Project[f][n])
    <3>1. CASE Project[f][n].value # r.old.value
      BY <2>1, <3>1, RenamedWhole
    <3>2. CASE Project[f][n].value = r.old.value
      <4>1. ~Project[f][n].concept \/ SameArgs(r)
        BY <2>1, <3>2 DEF RenamesConcept
      <4> QED BY <2>1, <2>7, <3>2, <4>1, RenamedParams
    <3> QED BY <3>1, <3>2
  <2>9. Params(Project[f][k]) \subseteq Params(disk[f][k])
    <3>1. CASE Project[f][k].value # r.old.value
      BY <2>3, <3>1, RenamedWhole
    <3>2. CASE Project[f][k].value = r.old.value
      <4>1. Project[f][k].concept
        BY <2>1, <2>3 DEF ProjectAssumed, LinesAreRead
      <4>2. SameArgs(r)
        BY <2>3, <3>2, <4>1 DEF RenamesConcept
      <4> QED BY <2>3, <2>7, <3>2, <4>2, RenamedParams
    <3> QED BY <3>1, <3>2
  <2> QED BY <2>4, <2>5, <2>6, <2>8, <2>9
<1> QED BY <1>6, <1>7 DEF Parses

\* What ends has a result.
Ended == /\ result \in {"none", "success", "failure"}
         /\ stage = "done" => result # "none"

LEMMA EndedStep == Ended /\ [RefactoringNext]_refactoringVars => Ended'
BY DEF Ended, RefactoringNext, refactoringVars, SameStep, ParseFailure, RephraseInSpecsAndConcepts, StartRunner,
       GetStepNameFromRunner, RunnerRefactors, RunnerRefuses, RunnerAnswers, Timeout,
       WriteFile, Written, End

LEMMA StillParses ==
  ASSUME ProjectAssumed, ProjectParses, Untouched, Renaming, Ended
  PROVE  ProjectStillParses
<1> SUFFICES ASSUME stage = "done", unsaved = {}, ~Used(request.new.value),
                    RenamesConcept(request) => SameArgs(request), TablesStay(request)
             PROVE  Parses(disk)
  BY DEF ProjectStillParses
<1>1. request \in Requests
  BY DEF Renaming, FileInv
<1>2. CASE disk = Project
  BY <1>2 DEF ProjectParses
<1>3. CASE disk # Project
  <2>1. result = "success"
    BY <1>3 DEF Untouched, Ended
  <2>2. ASSUME NEW f \in ProjectFile PROVE disk[f] = Project[f] \/ disk[f] = Renamed(f, request)
    BY DEF Renaming, FileInv
  <2>3. ASSUME NEW f \in ProjectFile, NEW n \in DOMAIN Project[f],
               Project[f][n].value # request.old.value
        PROVE  /\ Renamed(f, request)[n] = Project[f][n]
               /\ Rename(Project[f][n], request) = Project[f][n]
    <3>1. Renamed(f, request)[n] = Project[f][n]
      BY <1>1, <2>3, RenameSound
    <3>2. Rename(Project[f][n], request) = Project[f][n]
      BY <2>3 DEF Rename
    <3> QED BY <3>1, <3>2
  <2>4. request.old # request.new
    <3> SUFFICES ASSUME request.old = request.new PROVE FALSE
      OBVIOUS
    <3>1. ASSUME NEW f \in ProjectFile PROVE Renamed(f, request) = Project[f]
      <4>1. \A n \in DOMAIN Project[f] : Project[f][n].value # request.old.value
        BY DEF Used
      <4>2. \A n \in DOMAIN Project[f] : ReadBack(Rename(Project[f][n], request)) = Project[f][n]
        BY <2>3, <4>1 DEF Renamed
      <4>3. Renamed(f, request) = [n \in DOMAIN Project[f] |-> ReadBack(Rename(Project[f][n], request))]
        BY DEF Renamed
      <4>4. Project[f] = [n \in DOMAIN Project[f] |-> Project[f][n]]
        BY DEF ProjectAssumed, LinesAreRead
      <4> QED BY <4>2, <4>3, <4>4
    <3>2. disk = Project
      BY <2>2, <3>1 DEF Renaming, FileInv, ProjectAssumed
    <3> QED BY <1>3, <3>2
  <2>5. ASSUME NEW f \in Refactored(request) PROVE disk[f] = Renamed(f, request)
    BY <2>1, <2>4 DEF Renaming, Progress
  <2>6. WholeRenamed
    <3> SUFFICES ASSUME NEW f \in ConceptFile
                 PROVE  /\ DOMAIN disk[f] = DOMAIN Project[f]
                        /\ \A n \in DOMAIN Project[f] :
                             disk[f][n] = Rename(Project[f][n], request)
      BY DEF WholeRenamed
    <3>1. f \in ProjectFile
      BY DEF ProjectParses
    <3>2. DOMAIN disk[f] = DOMAIN Project[f]
      BY <2>2, <3>1 DEF Renamed
    <3>3. ASSUME NEW n \in DOMAIN Project[f] PROVE disk[f][n] = Rename(Project[f][n], request)
      <4>1. CASE Project[f][n].value # request.old.value
        BY <2>2, <2>3, <3>1, <4>1
      <4>2. CASE Project[f][n].value = request.old.value
        <5>1. TableStays(Project[f][n], request)
          BY <4>2 DEF TablesStay
        <5>2. Renamed(f, request)[n] = Rename(Project[f][n], request)
          BY <1>1, <3>1, <4>2, <5>1, RenameSound
        <5>3. f \in Refactored(request)
          BY <3>1, <4>2 DEF Refactored
        <5> QED BY <2>5, <5>2, <5>3
      <4> QED BY <4>1, <4>2
    <3> QED BY <3>2, <3>3
  <2> QED BY <1>1, <2>6, RenamedParses
<1> QED BY <1>2, <1>3

\* A project that parses does so after any renaming that has written all files, to a name
\* that was not in use, of a concept only to the same parameters, of a step in a concept only
\* if no table cuts it.
THEOREM ParsesAfterwards ==
  ASSUME ProjectAssumed, ProjectParses
  PROVE  RefactoringSpec => []ProjectStillParses
<1>1. RefactoringInit => Ended
  BY DEF RefactoringInit, Ended
<1>2. Untouched /\ Renaming /\ Ended => ProjectStillParses
  BY StillParses
<1> QED BY <1>1, <1>2, UntouchedInit, UntouchedStep, RenamingInit, RenamingStep, EndedStep,
           PTL DEF RefactoringSpec

-----------------------------------------------------------------------------
(* Installation: versions.                                                 *)

\* Versions that can be parsed.
Parsed == {v \in Seq(Int) : VersionParses(v)}

LEMMA ParsedNumbers ==
  ASSUME NEW v \in Parsed
  PROVE  /\ v \in Seq(Int) /\ Len(v) = 3
         /\ v[1] \in Int /\ v[2] \in Int /\ v[3] \in Int
<1>1. v \in Seq(Int) /\ Len(v) = 3
  BY DEF Parsed, VersionParses
<1>2. \A i \in 1..3 : v[i] \in Int
  BY <1>1, ElementOfSeq
<1> QED BY <1>1, <1>2

\* A comparison is of the first number, of the second where that is the same, of the third.
LEMMA Comparison ==
  ASSUME NEW v \in Parsed, NEW w \in Parsed
  PROVE  /\ IsGreaterThan(v, w) <=>
              \/ v[1] > w[1]
              \/ v[1] = w[1] /\ v[2] > w[2]
              \/ v[1] = w[1] /\ v[2] = w[2] /\ v[3] > w[3]
         /\ Newer(v, w) <=> IsGreaterThan(v, w)
<1>1. 1..3 = {1, 2, 3} /\ 1..(1 - 1) = {} /\ 1..(2 - 1) = {1} /\ 1..(3 - 1) = {1, 2}
  OBVIOUS
<1>2. \A f : (\E i \in 1..3 : f[i]) <=> f[1] \/ f[2] \/ f[3]
  BY <1>1
<1>3. IsGreaterThan(v, w) <=>
              \/ v[1] > w[1]
              \/ v[1] = w[1] /\ v[2] > w[2]
              \/ v[1] = w[1] /\ v[2] = w[2] /\ v[3] > w[3]
  BY <1>1, ParsedNumbers DEF IsGreaterThan
<1>4. Newer(v, w) <=> IsGreaterThan(v, w)
  BY DEF Newer, IsGreaterThan
<1> QED BY <1>3, <1>4

LEMMA TotalOrder ==
  /\ \A v \in Parsed : ~IsGreaterThan(v, v)
  /\ \A v, w \in Parsed : v = w \/ IsGreaterThan(v, w) \/ IsGreaterThan(w, v)
  /\ \A u, v, w \in Parsed : IsGreaterThan(u, v) /\ IsGreaterThan(v, w) => IsGreaterThan(u, w)
  /\ \A v, w \in Parsed : ~(IsGreaterThan(v, w) /\ IsGreaterThan(w, v))
<1>1. ASSUME NEW v \in Parsed PROVE ~IsGreaterThan(v, v)
  BY Comparison, ParsedNumbers
<1>2. ASSUME NEW v \in Parsed, NEW w \in Parsed
      PROVE  v = w \/ IsGreaterThan(v, w) \/ IsGreaterThan(w, v)
  <2>1. v[1] = w[1] /\ v[2] = w[2] /\ v[3] = w[3] => v = w
    <3> SUFFICES ASSUME v[1] = w[1], v[2] = w[2], v[3] = w[3] PROVE v = w
      OBVIOUS
    <3>1. \A i \in 1..3 : v[i] = w[i]
      OBVIOUS
    <3>2. v \in Seq(Int) /\ w \in Seq(Int) /\ Len(v) = 3 /\ Len(w) = 3
      BY ParsedNumbers
    <3> QED BY <3>1, <3>2, SeqEqual
  <2>2. IsGreaterThan(v, w) <=> \/ v[1] > w[1]
                                \/ v[1] = w[1] /\ v[2] > w[2]
                                \/ v[1] = w[1] /\ v[2] = w[2] /\ v[3] > w[3]
    BY Comparison
  <2>3. IsGreaterThan(w, v) <=> \/ w[1] > v[1]
                                \/ w[1] = v[1] /\ w[2] > v[2]
                                \/ w[1] = v[1] /\ w[2] = v[2] /\ w[3] > v[3]
    BY Comparison
  <2>4. v[1] \in Int /\ v[2] \in Int /\ v[3] \in Int /\ w[1] \in Int /\ w[2] \in Int /\ w[3] \in Int
    BY ParsedNumbers
  <2> QED BY <2>1, <2>2, <2>3, <2>4
<1>3. ASSUME NEW u \in Parsed, NEW v \in Parsed, NEW w \in Parsed,
             IsGreaterThan(u, v), IsGreaterThan(v, w)
      PROVE  IsGreaterThan(u, w)
  <2>1. \/ u[1] > v[1]
        \/ u[1] = v[1] /\ u[2] > v[2]
        \/ u[1] = v[1] /\ u[2] = v[2] /\ u[3] > v[3]
    BY <1>3, Comparison
  <2>2. \/ v[1] > w[1]
        \/ v[1] = w[1] /\ v[2] > w[2]
        \/ v[1] = w[1] /\ v[2] = w[2] /\ v[3] > w[3]
    BY <1>3, Comparison
  <2>3. /\ u[1] \in Int /\ u[2] \in Int /\ u[3] \in Int
        /\ v[1] \in Int /\ v[2] \in Int /\ v[3] \in Int
        /\ w[1] \in Int /\ w[2] \in Int /\ w[3] \in Int
    BY ParsedNumbers
  <2>4. \/ u[1] > w[1]
        \/ u[1] = w[1] /\ u[2] > w[2]
        \/ u[1] = w[1] /\ u[2] = w[2] /\ u[3] > w[3]
    BY <2>1, <2>2, <2>3
  <2> QED BY <2>4, Comparison
<1>4. ASSUME NEW v \in Parsed, NEW w \in Parsed PROVE ~(IsGreaterThan(v, w) /\ IsGreaterThan(w, v))
  BY Comparison, ParsedNumbers
<1> QED BY <1>1, <1>2, <1>3, <1>4

\* Of some of the versions in a list one is the newest.
LEMMA NewestOfSome ==
  ASSUME NEW n \in Nat, NEW s, NEW P \in SUBSET (1..n), P # {}, \A i \in P : s[i] \in Parsed
  PROVE  \E i \in P : \A j \in P : ~IsGreaterThan(s[j], s[i])
<1> DEFINE Best(i, k) == i \in P /\ i <= k /\ \A j \in P : j <= k => ~IsGreaterThan(s[j], s[i])
           T == {k \in 0..n : (\E i \in P : i <= k) /\ ~\E i \in P : Best(i, k)}
<1>1. T = {}
  <2> SUFFICES ASSUME T # {} PROVE FALSE
    OBVIOUS
  <2>0. T \in SUBSET Nat
    OBVIOUS
  <2>1. PICK k \in T : \A m \in T : k <= m
    <3> HIDE DEF T
    <3> QED BY <2>0, Smallest
  <2>2. PICK i0 \in P : i0 <= k
    BY <2>1
  <2>3. k \in 1..n /\ k - 1 \in 0..n /\ k - 1 \notin T
    <3>1. k \in 1..n /\ k - 1 \in 0..n
      BY <2>2
    <3>2. ~(k <= k - 1)
      BY <3>1
    <3> HIDE DEF T
    <3> QED BY <3>1, <3>2, <2>1
  <2>4. CASE k \notin P
    <3>1. \A j \in P : j <= k <=> j <= k - 1
      BY <2>3, <2>4
    <3>2. PICK i \in P : Best(i, k - 1)
      BY <2>2, <2>3, <3>1
    <3>3. Best(i, k)
      BY <3>1, <3>2
    <3> QED BY <2>1, <3>3
  <2>5. CASE k \in P /\ ~\E i \in P : i <= k - 1
    <3>1. Best(k, k)
      <4> SUFFICES ASSUME NEW j \in P, j <= k PROVE ~IsGreaterThan(s[j], s[k])
        BY <2>5, <2>3
      <4>1. j = k
        BY <2>5, <2>3
      <4> QED BY <4>1, TotalOrder
    <3> QED BY <2>1, <2>5, <3>1
  <2>6. CASE k \in P /\ \E i \in P : i <= k - 1
    <3>1. PICK i \in P : Best(i, k - 1)
      BY <2>3, <2>6
    <3>2. \A j \in P : j <= k => j = k \/ j <= k - 1
      BY <2>3
    <3>3. CASE IsGreaterThan(s[k], s[i])
      <4>1. Best(k, k)
        <5> SUFFICES ASSUME NEW j \in P, j <= k, IsGreaterThan(s[j], s[k]) PROVE FALSE
          BY <2>6, <2>3
        <5>1. IsGreaterThan(s[j], s[i])
          BY <3>3, <2>6, TotalOrder
        <5> QED BY <5>1, <3>1, <3>2, <2>6, TotalOrder
      <4> QED BY <2>1, <2>6, <4>1
    <3>4. CASE ~IsGreaterThan(s[k], s[i])
      <4>1. i <= k
        BY <3>1, <2>3
      <4>2. Best(i, k)
        BY <3>4, <3>1, <3>2, <4>1
      <4> QED BY <2>1, <4>2
    <3> QED BY <3>3, <3>4
  <2> QED BY <2>4, <2>5, <2>6
<1>2. n \in 0..n
  OBVIOUS
<1>3. \E i \in P : i <= n
  <2>1. PICK i \in P : TRUE
    OBVIOUS
  <2> QED BY <2>1
<1>4. PICK i \in P : Best(i, n)
  BY <1>1, <1>2, <1>3
<1>5. \A j \in P : j <= n
  OBVIOUS
<1> QED BY <1>4, <1>5

-----------------------------------------------------------------------------
(* Installation: the invariant.                                            *)

Installing == {"install", "update", "init", "add", "install-all"}
Manifests == [language : Plugin, plugins : Seq(Plugin)]

\* Where the program can be with which flag, and that what a manifest names is a plugin.
PlaceInv ==
  /\ given \in Calls \/ (given.flag = "none" /\ at = "start")
  /\ at \in {"description", "version", "files"} => given.flag \in Installing /\ target \in Plugin
  /\ at = "next" => given.flag = "install-all"
  /\ at = "zip" => given.flag = "file"
  /\ at = "project" => given.flag = "init"
  /\ at = "descriptor" => given.flag = "add"
  /\ given.flag = "add" /\ at # "start" => project # <<>>
  /\ toInstall \subseteq Plugin
  /\ project \in {<<>>} \cup {<<m>> : m \in Manifests}

\* The version that is chosen for a plugin: the one wanted, or the newest that is supported.
Right(p, v, wanted) ==
  /\ v \in Versions(p) /\ v \in Parsed
  /\ v \in IF wanted = <<>> THEN NewestSupported(p) ELSE {w \in Versions(p) : w = wanted /\ Supported(p, w)}

ChosenInv == at = "files" => Right(target, chosen, WantedVersion)

\* Only versions that parse are installed; without files are only those whose copy was cut.
DirInv ==
  /\ dirs = [p \in Plugin |-> [v \in Versions(p) |-> dirs[p][v]]]
  /\ \A p \in Plugin : \A v \in Versions(p) :
       /\ dirs[p][v] \in {"none", "bare", "partial", "complete"}
       /\ dirs[p][v] # "none" => v \in Parsed
       /\ dirs[p][v] \in {"bare", "partial"} => <<p, v>> \in cut

\* What is said to have succeeded has.
InstalledInv ==
  /\ Done({"install", "update"}) =>
       /\ Right(target, chosen, WantedVersion)
       /\ dirs[target][chosen] = "complete" \/ <<target, chosen>> \in cut
  /\ Done({"init"}) => project # <<>> /\ \E v \in Versions(Manifest.language) : IsInstalled(Manifest.language, v)

InstallInv == PlaceInv /\ ChosenInv /\ DirInv /\ InstalledInv /\ ManifestKept

LEMMA CallTypes ==
  ASSUME NEW g \in Calls
  PROVE  /\ g.flag \in {"install", "update", "file", "init", "install-all", "add"}
         /\ g.plugin \in Plugin /\ g.version \in {<<>>} \cup Parsed
         /\ g.flag = "file" => g.version \in Versions(g.plugin) /\ g.version \in Parsed
BY InstallationAssumption DEF Parsed

LEMMA OfferedTypes ==
  ASSUME NEW p \in Plugin
  PROVE  /\ Repository[p] \in Seq([version : Seq(Int), minimum : Seq(Int), maximum : Seq(Int)])
         /\ Len(Repository[p]) \in Nat /\ DOMAIN Repository[p] = 1..Len(Repository[p])
         /\ \A i \in DOMAIN Repository[p] :
              /\ Repository[p][i].version \in Seq(Int)
              /\ Repository[p][i].minimum \in Seq(Int) /\ Repository[p][i].maximum \in Seq(Int)
              /\ Repository[p][i].version \in Versions(p)
         /\ \A v \in Versions(p) : \E i \in DOMAIN Repository[p] : v = Repository[p][i].version
<1> DEFINE Entries0 == [version : Seq(Int), minimum : Seq(Int), maximum : Seq(Int)]
<1>1. Repository[p] \in Seq(Entries0)
  BY InstallationAssumption
<1>2. Len(Repository[p]) \in Nat /\ DOMAIN Repository[p] = 1..Len(Repository[p])
  BY <1>1, LenProperties
<1>3. \A i \in DOMAIN Repository[p] : Repository[p][i] \in Entries0
  BY <1>1, <1>2, ElementOfSeq
<1> QED BY <1>1, <1>2, <1>3 DEF Versions

\* A version is that of one entry, which is compatible where the version is supported.
LEMMA EntryOfVersion ==
  ASSUME NEW p \in Plugin, NEW i \in DOMAIN Repository[p]
  PROVE  /\ Supports(p, Repository[p][i].version) = Repository[p][i]
         /\ checkCompatibility(Repository[p][i]) <=> Supported(p, Repository[p][i].version)
<1> DEFINE v == Repository[p][i].version
           d == Repository[p][i]
<1>1. d \in Range(Repository[p]) /\ d.version = v
  BY DEF Range
<1>2. \A e \in Range(Repository[p]) : e.version = v => e = d
  BY InstallationAssumption DEF Range
<1>3. Supports(p, v) = d
  <2>1. Supports(p, v) \in Range(Repository[p]) /\ Supports(p, v).version = v
    <3> HIDE DEF v, d
    <3> QED BY <1>1 DEF Supports
  <2> QED BY <2>1, <1>2
<1>4. CurrentVersion \in Parsed
  BY InstallationAssumption DEF Parsed
<1>5. d.minimum \in Seq(Int) /\ d.maximum \in Seq(Int)
  BY OfferedTypes
<1>6. VersionParses(d.minimum) => d.minimum \in Parsed
  BY <1>5 DEF Parsed
<1>7. VersionParses(d.maximum) => d.maximum \in Parsed
  BY <1>5 DEF Parsed
<1>8. Supported(p, v) <=>
        /\ VersionParses(d.minimum) /\ ~Newer(d.minimum, CurrentVersion)
        /\ d.maximum # <<>> => VersionParses(d.maximum) /\ ~Newer(CurrentVersion, d.maximum)
  BY <1>3 DEF Supported
<1> HIDE DEF d
<1>9. ASSUME VersionParses(d.minimum)
      PROVE  IsLesserThanEqualTo(d.minimum, CurrentVersion) <=> ~Newer(d.minimum, CurrentVersion)
  BY <1>9, <1>6, <1>4, TotalOrder, Comparison DEF IsLesserThanEqualTo
<1>10. ASSUME VersionParses(d.minimum), VersionParses(d.maximum)
       PROVE  IsBetween(CurrentVersion, d.minimum, d.maximum) <=>
                ~Newer(d.minimum, CurrentVersion) /\ ~Newer(CurrentVersion, d.maximum)
  BY <1>10, <1>6, <1>7, <1>4, TotalOrder, Comparison DEF IsLesserThanEqualTo, IsBetween
<1>11. checkCompatibility(d) <=> Supported(p, v)
  <2>1. CASE d.maximum = <<>>
    BY <2>1, <1>8, <1>9 DEF checkCompatibility
  <2>2. CASE d.maximum # <<>>
    BY <2>2, <1>8, <1>10 DEF checkCompatibility
  <2> QED BY <2>1, <2>2
<1> QED BY <1>3, <1>11 DEF d

\* The latest compatible entry is of the version that is right.
LEMMA LatestIsRight ==
  ASSUME NEW p \in Plugin, NEW d \in Compatible(Repository[p]),
         IsLatest(d, Compatible(Repository[p])),
         WantedVersion \in {<<>>} \cup Parsed, WantedVersion = <<>> => ~SortPanics(Repository[p])
  PROVE  Right(p, d.version, WantedVersion)
<1>1. PICK i \in DOMAIN Repository[p] : d = Repository[p][i]
  BY DEF Compatible, Range
<1>2. d.version \in Versions(p) /\ Supported(p, d.version)
  BY <1>1, EntryOfVersion, OfferedTypes DEF Compatible
<1>3. CASE WantedVersion # <<>>
  <2>1. d.version = WantedVersion
    BY <1>3 DEF Compatible
  <2> QED BY <1>2, <1>3, <2>1 DEF Right
<1>4. CASE WantedVersion = <<>>
  <2>1. \A j \in DOMAIN Repository[p] : Repository[p][j].version \in Parsed
    <3> SUFFICES ASSUME NEW j \in DOMAIN Repository[p] PROVE VersionParses(Repository[p][j].version)
      BY OfferedTypes DEF Parsed
    <3>1. CASE \E k \in DOMAIN Repository[p] : k # j
      BY <3>1, <1>4 DEF SortPanics
    <3>2. CASE \A k \in DOMAIN Repository[p] : k = j
      <4>1. Len(Repository[p]) = 1 /\ j = 1
        <5>1. j \in 1..Len(Repository[p]) /\ Len(Repository[p]) \in Nat
          BY OfferedTypes
        <5>2. 1 \in DOMAIN Repository[p] /\ Len(Repository[p]) \in DOMAIN Repository[p]
          BY <5>1, OfferedTypes
        <5> QED BY <5>2, <3>2
      <4> QED BY <4>1, InstallationAssumption
    <3> QED BY <3>1, <3>2
  <2>2. d.version \in Parsed
    BY <1>1, <2>1
  <2>3. ASSUME NEW w \in Versions(p), Newer(w, d.version), Supported(p, w) PROVE FALSE
    <3>1. PICK j \in DOMAIN Repository[p] : w = Repository[p][j].version
      BY OfferedTypes
    <3>2. w \in Parsed
      BY <3>1, <2>1
    <3>3. IsGreaterThan(w, d.version)
      BY <2>2, <2>3, <3>2, Comparison
    <3>4. Repository[p][j] # d
      BY <3>1, <3>3, <2>2, TotalOrder
    <3>5. Repository[p][j] \in Compatible(Repository[p])
      BY <3>1, <2>3, <1>4, EntryOfVersion DEF Compatible, Range
    <3> QED BY <3>1, <3>3, <3>4, <3>5 DEF IsLatest
  <2>4. d.version \in NewestSupported(p)
    BY <1>2, <2>3 DEF NewestSupported
  <2> QED BY <1>2, <1>4, <2>2, <2>4 DEF Right
<1> QED BY <1>3, <1>4

\* Where a version is installed there is a newest.
LEMMA NewestDirInstalled ==
  ASSUME DirInv, NEW p \in Plugin, NEW w \in Versions(p), IsInstalled(p, w)
  PROVE  NewestDir(p) \in Versions(p) /\ IsInstalled(p, NewestDir(p))
<1> DEFINE n == Len(Repository[p])
           s == [i \in 1..n |-> Repository[p][i].version]
           P == {i \in 1..n : IsInstalled(p, s[i])}
<1>1. n \in Nat /\ DOMAIN Repository[p] = 1..n
  BY OfferedTypes
<1>2. P # {}
  <2>1. PICK i \in 1..n : w = Repository[p][i].version
    BY <1>1, OfferedTypes
  <2> QED BY <2>1
<1>3. \A i \in 1..n : s[i] \in Versions(p)
  BY <1>1, OfferedTypes
<1>4. \A i \in P : s[i] \in Parsed
  BY <1>3 DEF DirInv, IsInstalled
<1>5. \A v \in Versions(p) : \E i \in 1..n : v = s[i]
  BY <1>1, OfferedTypes
<1>6. P \in SUBSET (1..n) /\ \A i \in P : IsInstalled(p, s[i])
  OBVIOUS
<1>7. \A i \in 1..n : IsInstalled(p, s[i]) => i \in P
  OBVIOUS
<1> HIDE DEF n, s, P
<1>8. PICK i \in P : \A j \in P : ~IsGreaterThan(s[j], s[i])
  BY <1>1, <1>2, <1>4, <1>6, NewestOfSome
<1>9. s[i] \in Versions(p) /\ IsInstalled(p, s[i])
        /\ \A v \in Versions(p) : IsInstalled(p, v) => ~IsGreaterThan(v, s[i])
  BY <1>3, <1>5, <1>6, <1>7, <1>8
<1> QED BY <1>9 DEF NewestDir

LEMMA InstallInvInit == InstallationInit => InstallInv
<1> SUFFICES ASSUME InstallationInit PROVE InstallInv
  OBVIOUS
<1>1. PlaceInv /\ ChosenInv /\ InstalledInv /\ ManifestKept
  BY DEF InstallationInit, PlaceInv, ChosenInv, InstalledInv, ManifestKept, Done
<1>2. DirInv
  <2>1. dirs = [p \in Plugin |-> [v \in Versions(p) |-> "none"]]
    BY DEF InstallationInit
  <2>2. \A p \in Plugin : \A v \in Versions(p) : dirs[p][v] = "none"
    BY <2>1
  <2>3. dirs = [p \in Plugin |-> [v \in Versions(p) |-> dirs[p][v]]]
    BY <2>1, <2>2
  <2> QED BY <2>2, <2>3 DEF DirInv
<1> QED BY <1>1, <1>2 DEF InstallInv

\* What is put into a directory that is not there takes nothing from any other.
LEMMA DirWritten ==
  ASSUME DirInv, NEW p \in Plugin, NEW v \in Versions(p), v \in Parsed,
         NEW left \in {"none", "bare", "partial", "complete"},
         dirs' = [dirs EXCEPT ![p][v] = left],
         cut \subseteq cut', left \in {"none", "complete"} \/ <<p, v>> \in cut'
  PROVE  /\ DirInv'
         /\ dirs'[p][v] = left
         /\ \A q \in Plugin : \A w \in Versions(q) : <<q, w>> # <<p, v>> => dirs'[q][w] = dirs[q][w]
<1>1. dirs = [q \in Plugin |-> [w \in Versions(q) |-> dirs[q][w]]]
  BY DEF DirInv
<1>2. dirs' = [q \in Plugin |-> [w \in Versions(q) |->
                 IF q = p /\ w = v THEN left ELSE dirs[q][w]]]
  <2>1. dirs' = [q \in Plugin |-> IF q = p THEN [dirs[p] EXCEPT ![v] = left] ELSE dirs[q]]
    BY <1>1
  <2>2. dirs[p] = [w \in Versions(p) |-> dirs[p][w]]
    BY <1>1
  <2>3. [dirs[p] EXCEPT ![v] = left] = [w \in Versions(p) |-> IF w = v THEN left ELSE dirs[p][w]]
    BY <2>2
  <2>4. \A q \in Plugin : dirs[q] = [w \in Versions(q) |-> dirs[q][w]]
    BY <1>1
  <2>5. \A q \in Plugin :
          (IF q = p THEN [dirs[p] EXCEPT ![v] = left] ELSE dirs[q])
            = [w \in Versions(q) |-> IF q = p /\ w = v THEN left ELSE dirs[q][w]]
    <3> SUFFICES ASSUME NEW q \in Plugin
                 PROVE  (IF q = p THEN [dirs[p] EXCEPT ![v] = left] ELSE dirs[q])
                          = [w \in Versions(q) |-> IF q = p /\ w = v THEN left ELSE dirs[q][w]]
      OBVIOUS
    <3>1. CASE q = p
      BY <3>1, <2>3
    <3>2. CASE q # p
      BY <3>2, <2>4
    <3> QED BY <3>1, <3>2
  <2> QED BY <2>1, <2>5
<1>3. \A q \in Plugin : \A w \in Versions(q) :
        dirs'[q][w] = IF q = p /\ w = v THEN left ELSE dirs[q][w]
  BY <1>2
<1>4. dirs' = [q \in Plugin |-> [w \in Versions(q) |-> dirs'[q][w]]]
  BY <1>2, <1>3
<1>5. \A q \in Plugin : \A w \in Versions(q) :
       /\ dirs'[q][w] \in {"none", "bare", "partial", "complete"}
       /\ dirs'[q][w] # "none" => w \in Parsed
       /\ dirs'[q][w] \in {"bare", "partial"} => <<q, w>> \in cut'
  <2> SUFFICES ASSUME NEW q \in Plugin, NEW w \in Versions(q)
               PROVE  /\ dirs'[q][w] \in {"none", "bare", "partial", "complete"}
                      /\ dirs'[q][w] # "none" => w \in Parsed
                      /\ dirs'[q][w] \in {"bare", "partial"} => <<q, w>> \in cut'
    OBVIOUS
  <2>1. CASE q = p /\ w = v
    <3>1. dirs'[q][w] = left
      BY <2>1, <1>3
    <3>2. left \in {"bare", "partial"} => <<p, v>> \in cut'
      OBVIOUS
    <3> QED BY <2>1, <3>1, <3>2
  <2>2. CASE ~(q = p /\ w = v)
    <3>1. dirs'[q][w] = dirs[q][w]
      BY <2>2, <1>3
    <3>2. <<q, w>> \in cut => <<q, w>> \in cut'
      OBVIOUS
    <3> QED BY <3>1, <3>2 DEF DirInv
  <2> QED BY <2>1, <2>2
<1>6. \A q \in Plugin : \A w \in Versions(q) : <<q, w>> # <<p, v>> => dirs'[q][w] = dirs[q][w]
  BY <1>3
<1> QED BY <1>3, <1>4, <1>5, <1>6 DEF DirInv

\* A manifest is kept while directories are only added.
LEMMA ManifestStays ==
  ASSUME PlaceInv, DirInv, ManifestKept, DirInv', project' = project, setUp' = setUp,
         \A q \in Plugin : \A w \in Versions(q) : dirs'[q][w] = dirs[q][w] \/ dirs[q][w] = "none"
  PROVE  ManifestKept'
<1> SUFFICES ASSUME project # <<>> PROVE ManifestKept'
  BY DEF ManifestKept
<1>1. PICK m \in Manifests : project = <<m>>
  BY DEF PlaceInv
<1>2. Manifest = m /\ Manifest' = m /\ m.plugins \in Seq(Plugin)
  BY <1>1 DEF Manifest, Manifests
<1>3. \A p \in Range(m.plugins) : p \in Plugin
  BY <1>2, LenProperties, ElementOfSeq DEF Range
<1>4. /\ \A i, j \in DOMAIN m.plugins : m.plugins[i] = m.plugins[j] => i = j
      /\ \A p \in Range(m.plugins) \ Range(DefaultPlugins) :
           p \in setUp /\ \E v \in Versions(p) : HasDescriptor(p, v)
  BY <1>2 DEF ManifestKept
<1>5. \A p \in Plugin : \A v \in Versions(p) : HasDescriptor(p, v) => HasDescriptor(p, v)'
  BY DEF HasDescriptor
<1>6. \A p \in Range(m.plugins) \ Range(DefaultPlugins) :
           p \in setUp' /\ \E v \in Versions(p) : HasDescriptor(p, v)'
  BY <1>3, <1>4, <1>5
<1> QED BY <1>2, <1>4, <1>6 DEF ManifestKept

LEMMA CallInv ==
  ASSUME InstallInv, NEW g \in Calls, Call(g) PROVE InstallInv'
<1>1. given' = g /\ g.flag \in {"install", "update", "file", "init", "install-all", "add"}
        /\ g.plugin \in Plugin
  BY CallTypes DEF Call
<1>2. UNCHANGED <<dirs, cut, project, setUp>>
  BY DEF Call
<1>3. PlaceInv'
  <2>1. toInstall' \subseteq Plugin
    <3>1. CASE project # <<>>
      <4>1. PICK m \in Manifests : project = <<m>>
        BY <3>1 DEF InstallInv, PlaceInv
      <4>2. Manifest.language \in Plugin /\ Manifest.plugins \in Seq(Plugin)
        BY <4>1 DEF Manifest, Manifests
      <4>3. Range(Manifest.plugins) \subseteq Plugin
        BY <4>2, LenProperties, ElementOfSeq DEF Range
      <4> QED BY <4>2, <4>3 DEF Call, InstallInv, PlaceInv
    <3>2. CASE project = <<>>
      BY <3>2 DEF Call, InstallInv, PlaceInv
    <3> QED BY <3>1, <3>2
  <2>2. project' \in {<<>>} \cup {<<m>> : m \in Manifests}
    BY <1>2 DEF InstallInv, PlaceInv
  <2>3. given'.flag = "add" /\ at' # "start" => project' # <<>>
    BY <1>1, <1>2 DEF Call, EndCall
  <2>4. /\ at' \in {"description", "version", "files"} => given'.flag \in Installing /\ target' \in Plugin
        /\ at' = "next" => given'.flag = "install-all"
        /\ at' = "zip" => given'.flag = "file"
        /\ at' = "project" => given'.flag = "init"
        /\ at' = "descriptor" => given'.flag = "add"
    BY <1>1 DEF Call, StartInstall, EndCall, Installing
  <2>5. given' \in Calls \/ (given'.flag = "none" /\ at' = "start")
    BY <1>1
  <2>6. /\ at' \in {"description", "version", "files"} => target' \in Plugin
        /\ at' \in {"description", "version", "files"} => given'.flag \in Installing
    BY <2>4
  <2> QED BY <2>1, <2>2, <2>3, <2>4, <2>5, <2>6 DEF PlaceInv
<1>4. ChosenInv'
  BY DEF Call, StartInstall, EndCall, ChosenInv
<1>5. DirInv'
  BY <1>2 DEF InstallInv, DirInv
<1>6. outcome' \in {"none", "failure"}
  BY DEF Call, StartInstall, EndCall
<1>7. InstalledInv'
  BY <1>6 DEF InstalledInv, Done
<1>8. ManifestKept'
  BY <1>2, <1>5, ManifestStays DEF InstallInv
<1> QED BY <1>3, <1>4, <1>5, <1>7, <1>8 DEF InstallInv

LEMMA ChoiceInv ==
  ASSUME InstallInv, GetInstallDescription \/ InstallPluginWithDescription PROVE InstallInv'
<1>1. UNCHANGED <<given, target, toInstall, dirs, cut, project, setUp>>
  BY DEF GetInstallDescription, InstallPluginWithDescription
<1>2. given.flag \in Installing /\ target \in Plugin /\ given \in Calls
  BY DEF GetInstallDescription, InstallPluginWithDescription, InstallInv, PlaceInv
<1>3. at' \in {"version", "crashed", "files", "start", "project", "descriptor", "next"}
  BY <1>2 DEF GetInstallDescription, InstallPluginWithDescription, Installed, EndCall, Installing
<1>4. PlaceInv'
  BY <1>1, <1>2
    DEF GetInstallDescription, InstallPluginWithDescription, Installed, EndCall, Installing, InstallInv, PlaceInv
<1>5. ChosenInv'
  <2> SUFFICES ASSUME at' = "files" PROVE Right(target, chosen', WantedVersion')
    BY <1>1 DEF ChosenInv
  <2>1. WantedVersion' = WantedVersion /\ WantedVersion \in {<<>>} \cup Parsed
    BY <1>1, <1>2, CallTypes DEF WantedVersion
  <2>2. InstallPluginWithDescription
    BY <1>2 DEF GetInstallDescription, Installed, EndCall, Installing
  <2>3. PICK d \in Compatible(Repository[target]) :
          /\ IsLatest(d, Compatible(Repository[target])) /\ chosen' = d.version
          /\ WantedVersion = <<>> => ~SortPanics(Repository[target])
    BY <2>2, <1>2 DEF InstallPluginWithDescription, Installed, EndCall, Installing
  <2> QED BY <2>1, <2>3, <1>2, LatestIsRight
<1>6. DirInv'
  BY <1>1 DEF InstallInv, DirInv
<1>7. at' = "start" => outcome' = "failure"
  BY <1>2 DEF GetInstallDescription, InstallPluginWithDescription, Installed, EndCall, Installing
<1>8. InstalledInv'
  BY <1>7 DEF InstalledInv, Done
<1>9. ManifestKept'
  BY <1>1, <1>6, ManifestStays DEF InstallInv
<1> QED BY <1>4, <1>5, <1>6, <1>8, <1>9 DEF InstallInv

LEMMA FilesInv ==
  ASSUME InstallInv, InstallPluginVersion PROVE InstallInv'
<1>1. UNCHANGED <<given, target, chosen, toInstall, project, setUp>> /\ at = "files"
  BY DEF InstallPluginVersion
<1>2. given.flag \in Installing /\ target \in Plugin /\ given \in Calls
  BY <1>1 DEF InstallInv, PlaceInv
<1>3. Right(target, chosen, WantedVersion) /\ chosen \in Versions(target) /\ chosen \in Parsed
  BY <1>1 DEF InstallInv, ChosenInv, Right
<1>4. PlaceInv'
  BY <1>1, <1>2 DEF InstallPluginVersion, Installed, EndCall, Installing, InstallInv, PlaceInv
<1>5. ChosenInv'
  BY <1>2 DEF InstallPluginVersion, Installed, EndCall, Installing, ChosenInv
<1>6. /\ DirInv'
      /\ \A q \in Plugin : \A w \in Versions(q) : dirs'[q][w] = dirs[q][w] \/ dirs[q][w] = "none"
      /\ at' = "start" /\ outcome' \in {"success", "already"} =>
           dirs'[target][chosen] = "complete" \/ <<target, chosen>> \in cut'
  <2>1. CASE IsInstalled(target, chosen) /\ Installed("already") /\ UNCHANGED <<dirs, cut>>
    <3>1. DirInv'
      BY <2>1 DEF InstallInv, DirInv
    <3>2. dirs[target][chosen] = "complete" \/ <<target, chosen>> \in cut
      BY <2>1, <1>2, <1>3 DEF InstallInv, DirInv, IsInstalled
    <3> QED BY <2>1, <3>1, <3>2
  <2>2. CASE Installed("failure") /\ UNCHANGED <<dirs, cut>>
    <3>1. DirInv'
      BY <2>2 DEF InstallInv, DirInv
    <3>2. at' = "start" => outcome' = "failure"
      BY <2>2, <1>2 DEF Installed, EndCall, Installing
    <3> QED BY <2>2, <3>1, <3>2
  <2>3. CASE ~IsInstalled(target, chosen) /\ CopyFails(target, chosen)
    <3>1. PICK left \in {"none", "bare", "partial"} : dirs' = [dirs EXCEPT ![target][chosen] = left]
      BY <2>3 DEF CopyFails
    <3>2. cut' = cut \cup {<<target, chosen>>}
      BY <2>3 DEF CopyFails
    <3>3. /\ DirInv'
          /\ \A q \in Plugin : \A w \in Versions(q) : <<q, w>> # <<target, chosen>> => dirs'[q][w] = dirs[q][w]
      <4>1. DirInv
        BY DEF InstallInv
      <4>2. left \in {"none", "bare", "partial", "complete"}
        OBVIOUS
      <4>3. cut \subseteq cut' /\ <<target, chosen>> \in cut'
        BY <3>2
      <4> QED BY <4>1, <4>2, <4>3, <3>1, <1>2, <1>3, DirWritten
    <3> QED BY <3>2, <3>3, <2>3 DEF IsInstalled
  <2>4. CASE /\ ~IsInstalled(target, chosen) /\ cut' = cut
             /\ dirs' = [dirs EXCEPT ![target][chosen] = "complete"]
    <3>1. /\ DirInv' /\ dirs'[target][chosen] = "complete"
          /\ \A q \in Plugin : \A w \in Versions(q) : <<q, w>> # <<target, chosen>> => dirs'[q][w] = dirs[q][w]
      <4>1. DirInv
        BY DEF InstallInv
      <4>2. PICK left \in {"none", "bare", "partial", "complete"} : left = "complete"
        OBVIOUS
      <4>3. dirs' = [dirs EXCEPT ![target][chosen] = left] /\ cut \subseteq cut' /\ left \in {"none", "complete"}
        BY <4>2, <2>4
      <4>4. DirInv'
        BY <4>1, <4>3, <1>2, <1>3, DirWritten
      <4>5. dirs'[target][chosen] = left
        BY <4>1, <4>3, <1>2, <1>3, DirWritten
      <4>6. \A q \in Plugin : \A w \in Versions(q) : <<q, w>> # <<target, chosen>> => dirs'[q][w] = dirs[q][w]
        BY <4>1, <4>3, <1>2, <1>3, DirWritten
      <4> QED BY <4>2, <4>4, <4>5, <4>6
    <3> QED BY <3>1, <2>4 DEF IsInstalled
  <2> QED BY <2>1, <2>2, <2>3, <2>4 DEF InstallPluginVersion
<1>7. InstalledInv'
  <2>1. at' = "start" => given.flag # "init" \/ outcome' = "failure"
    BY <1>2 DEF InstallPluginVersion, Installed, EndCall, Installing
  <2>2. WantedVersion' = WantedVersion
    BY <1>1 DEF WantedVersion
  <2> QED BY <1>1, <1>3, <1>6, <2>1, <2>2 DEF InstalledInv, Done
<1>8. ManifestKept'
  BY <1>1, <1>6, ManifestStays DEF InstallInv
<1> QED BY <1>4, <1>5, <1>6, <1>7, <1>8 DEF InstallInv

LEMMA ZipInv ==
  ASSUME InstallInv, InstallPluginFromZip PROVE InstallInv'
<1> DEFINE p == given.plugin
           v == given.version
<1>1. UNCHANGED <<given, target, chosen, toInstall, project, setUp>> /\ at = "zip" /\ at' = "start"
  BY DEF InstallPluginFromZip, EndCall
<1>2. given \in Calls /\ given.flag = "file"
  BY <1>1 DEF InstallInv, PlaceInv
<1>3. p \in Plugin /\ v \in Versions(p) /\ v \in Parsed
  BY <1>2, CallTypes
<1>4. PlaceInv'
  BY <1>1, <1>2 DEF InstallInv, PlaceInv
<1>5. ChosenInv' /\ InstalledInv'
  BY <1>1, <1>2 DEF ChosenInv, InstalledInv, Done
<1>6. /\ DirInv'
      /\ \A q \in Plugin : \A w \in Versions(q) : dirs'[q][w] = dirs[q][w] \/ dirs[q][w] = "none"
  <2>1. CASE UNCHANGED <<dirs, cut>>
    BY <2>1 DEF InstallInv, DirInv
  <2>2. CASE ~IsInstalled(p, v) /\ CopyFails(p, v)
    <3>1. PICK left \in {"none", "bare", "partial"} : dirs' = [dirs EXCEPT ![p][v] = left]
      BY <2>2 DEF CopyFails
    <3>2. cut' = cut \cup {<<p, v>>}
      BY <2>2 DEF CopyFails
    <3>3. /\ DirInv'
          /\ \A q \in Plugin : \A w \in Versions(q) : <<q, w>> # <<p, v>> => dirs'[q][w] = dirs[q][w]
      <4>1. DirInv
        BY DEF InstallInv
      <4>2. cut \subseteq cut' /\ <<p, v>> \in cut'
        BY <3>2
      <4> QED BY <4>1, <4>2, <3>1, <1>3, DirWritten
    <3> QED BY <3>3, <2>2 DEF IsInstalled
  <2>3. CASE ~IsInstalled(p, v) /\ cut' = cut /\ dirs' = [dirs EXCEPT ![p][v] = "complete"]
    <3>1. /\ DirInv'
          /\ \A q \in Plugin : \A w \in Versions(q) : <<q, w>> # <<p, v>> => dirs'[q][w] = dirs[q][w]
      <4>1. DirInv
        BY DEF InstallInv
      <4>2. PICK left \in {"none", "bare", "partial", "complete"} : left = "complete"
        OBVIOUS
      <4>3. dirs' = [dirs EXCEPT ![p][v] = left] /\ cut \subseteq cut' /\ left \in {"none", "complete"}
        BY <4>2, <2>3
      <4>4. DirInv'
        BY <4>1, <4>3, <1>3, DirWritten
      <4>5. dirs'[p][v] = left
        BY <4>1, <4>3, <1>3, DirWritten
      <4>6. \A q \in Plugin : \A w \in Versions(q) : <<q, w>> # <<p, v>> => dirs'[q][w] = dirs[q][w]
        BY <4>1, <4>3, <1>3, DirWritten
      <4> QED BY <4>2, <4>4, <4>5, <4>6
    <3> QED BY <3>1, <2>3 DEF IsInstalled
  <2> QED BY <2>1, <2>2, <2>3 DEF InstallPluginFromZip
<1>7. ManifestKept'
  BY <1>1, <1>6, ManifestStays DEF InstallInv
<1> QED BY <1>4, <1>5, <1>6, <1>7 DEF InstallInv

LEMMA NextOfManifestInv ==
  ASSUME InstallInv, NextOfManifest PROVE InstallInv'
<1>1. UNCHANGED <<given, chosen, dirs, cut, project, setUp>> /\ at = "next"
  BY DEF NextOfManifest
<1>2. given \in Calls /\ given.flag = "install-all"
  BY <1>1 DEF InstallInv, PlaceInv
<1>3. PlaceInv'
  BY <1>1, <1>2 DEF NextOfManifest, StartInstall, EndCall, InstallInv, PlaceInv, Installing
<1>4. ChosenInv' /\ InstalledInv'
  BY <1>1, <1>2 DEF NextOfManifest, StartInstall, EndCall, ChosenInv, InstalledInv, Done
<1>5. DirInv'
  BY <1>1 DEF InstallInv, DirInv
<1>6. ManifestKept'
  BY <1>1, <1>5, ManifestStays DEF InstallInv
<1> QED BY <1>3, <1>4, <1>5, <1>6 DEF InstallInv

\* What has a descriptor is a version that the plugin has.
LEMMA DescriptorFound ==
  ASSUME DirInv, NEW p \in Plugin, NEW v, GetPluginDescriptor(p, v)
  PROVE  \E w \in Versions(p) : HasDescriptor(p, w) /\ IsInstalled(p, w)
<1>1. PICK w \in Versions(p) : IsInstalled(p, w)
  BY DEF GetPluginDescriptor
<1>2. NewestDir(p) \in Versions(p) /\ IsInstalled(p, NewestDir(p))
  BY <1>1, NewestDirInstalled
<1> QED BY <1>2 DEF GetPluginDescriptor

LEMMA AddPluginInv ==
  ASSUME InstallInv, AddPlugin PROVE InstallInv'
<1> DEFINE p == given.plugin
<1>1. UNCHANGED <<given, target, chosen, toInstall, dirs, cut>> /\ at = "descriptor" /\ at' = "start"
  BY DEF AddPlugin, EndCall
<1>2. given \in Calls /\ given.flag = "add" /\ p \in Plugin /\ project # <<>>
  BY <1>1, CallTypes DEF InstallInv, PlaceInv
<1>3. ChosenInv' /\ InstalledInv'
  BY <1>1, <1>2 DEF ChosenInv, InstalledInv, Done
<1>4. DirInv'
  BY <1>1 DEF InstallInv, DirInv
<1>5. PICK m \in Manifests : project = <<m>>
  BY <1>2 DEF InstallInv, PlaceInv
<1>6. Manifest = m /\ m.plugins \in Seq(Plugin) /\ m.language \in Plugin
        /\ m = [language |-> m.language, plugins |-> m.plugins]
  BY <1>5 DEF Manifest, Manifests
<1>7. CASE UNCHANGED <<project, setUp>>
  <2>1. PlaceInv'
    BY <1>1, <1>2, <1>7 DEF InstallInv, PlaceInv
  <2>2. ManifestKept'
    BY <1>1, <1>4, <1>7, ManifestStays DEF InstallInv
  <2> QED BY <1>3, <1>4, <2>1, <2>2 DEF InstallInv
<1>8. CASE /\ GetPluginDescriptor(p, given.version) /\ p \notin Range(Manifest.plugins)
           /\ \E succeeds, saved \in BOOLEAN :
                /\ setUp' = IF succeeds THEN setUp \cup {p} ELSE setUp
                /\ project' = IF ~saved THEN project
                              ELSE <<[Manifest EXCEPT !.plugins = PluginsAfterSetup(p, succeeds)]>>
  <2>1. PICK succeeds \in BOOLEAN, saved \in BOOLEAN :
                /\ setUp' = IF succeeds THEN setUp \cup {p} ELSE setUp
                /\ project' = IF ~saved THEN project
                              ELSE <<[Manifest EXCEPT !.plugins = PluginsAfterSetup(p, succeeds)]>>
    BY <1>8
  <2> DEFINE new == IF saved /\ succeeds THEN Append(m.plugins, p) ELSE m.plugins
  <2>2. project' = <<[language |-> m.language, plugins |-> new]>>
    <3>1. CASE ~saved
      BY <3>1, <2>1, <1>5, <1>6
    <3>2. CASE saved
      <4>1. PluginsAfterSetup(p, succeeds) = new
        BY <3>2, <1>6 DEF PluginsAfterSetup
      <4> HIDE DEF new
      <4>2. project' = <<[m EXCEPT !.plugins = new]>>
        BY <2>1, <3>2, <4>1, <1>6
      <4>3. [m EXCEPT !.plugins = new] = [language |-> m.language, plugins |-> new]
        BY <1>6
      <4> QED BY <4>2, <4>3
    <3> QED BY <3>1, <3>2
  <2>3. /\ Append(m.plugins, p) \in Seq(Plugin) /\ Len(Append(m.plugins, p)) = Len(m.plugins) + 1
        /\ \A i \in 1..Len(m.plugins) : Append(m.plugins, p)[i] = m.plugins[i]
        /\ Append(m.plugins, p)[Len(m.plugins) + 1] = p
    BY <1>2, <1>6, AppendProperties
  <2>4. Len(m.plugins) \in Nat /\ DOMAIN m.plugins = 1..Len(m.plugins)
          /\ DOMAIN Append(m.plugins, p) = 1..(Len(m.plugins) + 1)
    BY <1>6, <2>3, LenProperties
  <2>5. new \in Seq(Plugin)
    BY <2>3, <1>6
  <2>6. PlaceInv'
    <3>1. [language |-> m.language, plugins |-> new] \in Manifests
      BY <2>5, <1>6 DEF Manifests
    <3>2. project' \in {<<>>} \cup {<<mm>> : mm \in Manifests}
      BY <2>2, <3>1
    <3> QED BY <1>1, <1>2, <3>2 DEF InstallInv, PlaceInv
  <2>7. /\ \A i, j \in DOMAIN m.plugins : m.plugins[i] = m.plugins[j] => i = j
        /\ \A q \in Range(m.plugins) \ Range(DefaultPlugins) :
             q \in setUp /\ \E v \in Versions(q) : HasDescriptor(q, v)
    BY <1>2, <1>6 DEF InstallInv, ManifestKept
  <2>8. \A i \in DOMAIN m.plugins : m.plugins[i] # p
    BY <1>6, <1>8 DEF Range
  <2>9. \A i, j \in DOMAIN new : new[i] = new[j] => i = j
    <3>1. CASE saved /\ succeeds
      <4> SUFFICES ASSUME NEW i \in 1..(Len(m.plugins) + 1), NEW j \in 1..(Len(m.plugins) + 1),
                          Append(m.plugins, p)[i] = Append(m.plugins, p)[j]
                   PROVE  i = j
        BY <3>1, <2>4
      <4>1. CASE i \in 1..Len(m.plugins) /\ j \in 1..Len(m.plugins)
        BY <4>1, <2>3, <2>4, <2>7
      <4>2. CASE i = Len(m.plugins) + 1 /\ j \in 1..Len(m.plugins)
        BY <4>2, <2>3, <2>4, <2>8
      <4>3. CASE j = Len(m.plugins) + 1 /\ i \in 1..Len(m.plugins)
        BY <4>3, <2>3, <2>4, <2>8
      <4> QED BY <4>1, <4>2, <4>3, <2>4
    <3>2. CASE ~(saved /\ succeeds)
      BY <3>2, <2>7
    <3> QED BY <3>1, <3>2
  <2>10. ASSUME NEW q \in Range(new) \ Range(DefaultPlugins)
         PROVE  q \in setUp' /\ \E v \in Versions(q) : HasDescriptor(q, v)
    <3>1. CASE q \in Range(m.plugins)
      <4>1. setUp \subseteq setUp'
        BY <2>1
      <4> QED BY <3>1, <4>1, <2>7, <2>10
    <3>2. CASE q \notin Range(m.plugins)
      <4>1. saved /\ succeeds
        BY <3>2, <2>10
      <4>2. PICK i \in 1..(Len(m.plugins) + 1) : q = Append(m.plugins, p)[i]
        BY <4>1, <2>10, <2>4 DEF Range
      <4>3. i = Len(m.plugins) + 1
        BY <4>2, <3>2, <2>3, <2>4 DEF Range
      <4>4. q = p /\ q \in setUp'
        BY <4>1, <4>2, <4>3, <2>1, <2>3
      <4>5. \E v \in Versions(p) : HasDescriptor(p, v)
        BY <1>2, <1>8, DescriptorFound DEF InstallInv
      <4> QED BY <4>4, <4>5
    <3> QED BY <3>1, <3>2
  <2>11. \A q \in Range(new) \ Range(DefaultPlugins) :
            \A v \in Versions(q) : HasDescriptor(q, v)' <=> HasDescriptor(q, v)
    BY <1>1 DEF HasDescriptor
  <2>12. Manifest'.plugins = new
    BY <2>2 DEF Manifest
  <2>13. ManifestKept'
    <3> HIDE DEF new
    <3> QED BY <2>9, <2>10, <2>11, <2>12 DEF ManifestKept
  <2> QED BY <1>3, <1>4, <2>6, <2>13 DEF InstallInv
<1> QED BY <1>7, <1>8 DEF AddPlugin

LEMMA CreateProjectInv ==
  ASSUME InstallInv, CreateProject PROVE InstallInv'
<1> DEFINE p == given.plugin
           new == [language |-> p, plugins |-> DefaultPlugins]
<1>1. UNCHANGED <<given, target, chosen, toInstall, dirs, cut, setUp>> /\ at = "project" /\ at' = "start"
  BY DEF CreateProject, EndCall
<1>2. given \in Calls /\ given.flag = "init" /\ p \in Plugin
  BY <1>1, CallTypes DEF InstallInv, PlaceInv
<1>3. ChosenInv'
  BY <1>1 DEF ChosenInv
<1>4. DirInv'
  BY <1>1 DEF InstallInv, DirInv
<1>5. PICK saved \in BOOLEAN, made \in BOOLEAN :
        /\ made => saved /\ GetPluginDescriptor(p, <<>>)
        /\ project' = IF saved THEN <<new>> ELSE project
        /\ outcome' = IF made THEN "success" ELSE "failure"
  BY DEF CreateProject, EndCall
<1>6. new \in Manifests
  BY <1>2, InstallationAssumption DEF Manifests
<1>7. PlaceInv'
  BY <1>1, <1>2, <1>5, <1>6 DEF InstallInv, PlaceInv
<1>8. InstalledInv'
  <2> SUFFICES ASSUME made
               PROVE  project' # <<>> /\ \E v \in Versions(Manifest'.language) :
                                           dirs'[Manifest'.language][v] # "none"
    BY <1>1, <1>2, <1>5 DEF InstalledInv, Done, IsInstalled
  <2>1. project' = <<new>> /\ Manifest'.language = p
    BY <1>5 DEF Manifest
  <2>2. PICK v \in Versions(p) : IsInstalled(p, v)
    BY <1>2, <1>5, DescriptorFound DEF InstallInv
  <2>3. dirs'[p][v] # "none"
    BY <2>2, <1>1 DEF IsInstalled
  <2> QED BY <2>1, <2>2, <2>3
<1>9. ManifestKept'
  <2>1. CASE saved
    <3>1. Manifest'.plugins = DefaultPlugins
      BY <2>1, <1>5 DEF Manifest
    <3> QED BY <3>1, InstallationAssumption DEF ManifestKept
  <2>2. CASE ~saved
    BY <2>2, <1>1, <1>4, <1>5, ManifestStays DEF InstallInv
  <2> QED BY <2>1, <2>2
<1> QED BY <1>3, <1>4, <1>7, <1>8, <1>9 DEF InstallInv

LEMMA InstallStep == InstallInv /\ [InstallationNext]_installationVars => InstallInv'
<1> SUFFICES ASSUME InstallInv, [InstallationNext]_installationVars PROVE InstallInv'
  OBVIOUS
<1>1. CASE UNCHANGED installationVars
  <2>1. DirInv'
    BY <1>1 DEF installationVars, InstallInv, DirInv
  <2>2. ManifestKept'
    BY <1>1, <2>1, ManifestStays DEF installationVars, InstallInv
  <2>3. PlaceInv' /\ ChosenInv'
    BY <1>1 DEF installationVars, InstallInv, PlaceInv, ChosenInv, WantedVersion
  <2>4. InstalledInv'
    BY <1>1 DEF installationVars, InstallInv, InstalledInv, Done, WantedVersion, Manifest, IsInstalled
  <2> QED BY <2>1, <2>2, <2>3, <2>4 DEF InstallInv
<1> QED BY <1>1, CallInv, ChoiceInv, FilesInv, ZipInv, NextOfManifestInv, AddPluginInv, CreateProjectInv
      DEF InstallationNext

\* A manifest names no plugin twice, and none whose setup did not succeed or that was not
\* installed, whatever is called in whatever order and fails on the way.
THEOREM ManifestSound == InstallationSpec => []ManifestKept
<1>1. InstallInv => ManifestKept
  BY DEF InstallInv
<1> QED BY <1>1, InstallInvInit, InstallStep, PTL DEF InstallationSpec

\* What is said to have been installed is the version asked for or the newest that this
\* Gauge can do with, and all of it unless its copy was cut; a project that was made can
\* start its runner, unless a version that Gauge cannot do with was put in.
THEOREM InstallationsSound == InstallationSpec => []InstallationsWork
<1>1. InstallInv => InstallationsWork
  <2> SUFFICES ASSUME InstallInv PROVE InstallationsWork
    OBVIOUS
  <2>1. ASSUME Done({"install", "update"})
        PROVE  /\ chosen \in IF WantedVersion = <<>> THEN NewestSupported(target)
                             ELSE {v \in Versions(target) : v = WantedVersion /\ Supported(target, v)}
               /\ dirs[target][chosen] = "complete" \/ <<target, chosen>> \in cut
    BY <2>1 DEF InstallInv, InstalledInv, Right
  <2>2. ASSUME Done({"init"})
        PROVE  \/ Supported(Manifest.language, NewestDir(Manifest.language))
               \/ \E v \in Versions(Manifest.language) :
                    IsInstalled(Manifest.language, v) /\ ~Supported(Manifest.language, v)
    <3>1. Manifest.language \in Plugin
      BY <2>2 DEF InstallInv, PlaceInv, InstalledInv, Manifest, Manifests
    <3>2. PICK w \in Versions(Manifest.language) : IsInstalled(Manifest.language, w)
      BY <2>2 DEF InstallInv, InstalledInv
    <3>3. NewestDir(Manifest.language) \in Versions(Manifest.language)
            /\ IsInstalled(Manifest.language, NewestDir(Manifest.language))
      BY <3>1, <3>2, NewestDirInstalled DEF InstallInv
    <3> QED BY <3>3
  <2> QED BY <2>1, <2>2 DEF InstallationsWork
<1> QED BY <1>1, InstallInvInit, InstallStep, PTL DEF InstallationSpec

-----------------------------------------------------------------------------
(* Command line: what lists are made of.                                   *)

\* What FlattenSeq takes the last element of.
Flattening(n, ss, f) == f = [i \in 1..n |-> IF i = 1 THEN ss[i] ELSE f[i - 1] \o ss[i]]

LEMMA FlatteningExists ==
  ASSUME NEW n \in Nat, NEW ss PROVE \E f : Flattening(n, ss, f)
<1> DEFINE T == {k \in Nat : ~\E f : Flattening(k, ss, f)}
<1> SUFFICES T = {}
  OBVIOUS
<1> SUFFICES ASSUME T # {} PROVE FALSE
  OBVIOUS
<1>1. T \in SUBSET Nat
  OBVIOUS
<1>2. PICK k \in T : \A m \in T : k <= m
  <2> HIDE DEF T
  <2> QED BY <1>1, Smallest
<1>3. CASE k = 0
  <2>1. Flattening(0, ss, [i \in 1..0 |-> ss[i]])
    BY DEF Flattening
  <2> QED BY <1>2, <1>3, <2>1
<1>4. CASE k > 0
  <2>1. k - 1 \in Nat /\ ~(k <= k - 1)
    BY <1>4, <1>1, <1>2
  <2>2. PICK g : Flattening(k - 1, ss, g)
    BY <1>2, <2>1
  <2> DEFINE f == [i \in 1..k |-> IF i = k THEN (IF k = 1 THEN ss[k] ELSE g[k - 1] \o ss[k]) ELSE g[i]]
             h == [i \in 1..k |-> IF i = 1 THEN ss[i] ELSE f[i - 1] \o ss[i]]
  <2>3. \A i \in 1..k : f[i] = IF i = 1 THEN ss[i] ELSE f[i - 1] \o ss[i]
    <3> SUFFICES ASSUME NEW i \in 1..k PROVE f[i] = IF i = 1 THEN ss[i] ELSE f[i - 1] \o ss[i]
      OBVIOUS
    <3>1. k \in Nat
      BY <1>1, <1>2
    <3>2. CASE i = k /\ k = 1
      BY <3>2
    <3>3. CASE i = k /\ k # 1
      <4>1. k - 1 \in 1..k /\ k \in 1..k /\ k - 1 # k
        BY <3>1, <3>3
      <4>2. f[k] = g[k - 1] \o ss[k]
        BY <4>1, <3>3
      <4>3. f[k - 1] = g[k - 1]
        BY <4>1
      <4> HIDE DEF f
      <4> QED BY <4>2, <4>3, <3>3
    <3>4. CASE i # k
      <4>1. i \in 1..(k - 1) /\ f[i] = g[i]
        BY <3>1, <3>4
      <4>2. g[i] = IF i = 1 THEN ss[i] ELSE g[i - 1] \o ss[i]
        BY <2>2, <4>1 DEF Flattening
      <4>3. i # 1 => f[i - 1] = g[i - 1]
        BY <3>1, <3>4
      <4> HIDE DEF f
      <4> QED BY <4>1, <4>2, <4>3
    <3> QED BY <3>2, <3>3, <3>4
  <2>4. f = [i \in 1..k |-> f[i]]
    OBVIOUS
  <2> HIDE DEF f
  <2>5. f = h
    BY <2>3, <2>4
  <2>6. Flattening(k, ss, f)
    BY <2>5 DEF Flattening
  <2> QED BY <1>2, <2>6
<1> QED BY <1>1, <1>2, <1>3, <1>4

LEMMA Concatenated ==
  ASSUME NEW S, NEW s \in Seq(S), NEW t \in Seq(S)
  PROVE  s \o t \in Seq(S) /\ ToSet(s \o t) = ToSet(s) \cup ToSet(t)
<1>1. /\ s \o t \in Seq(S) /\ Len(s \o t) = Len(s) + Len(t)
      /\ \A i \in 1..(Len(s) + Len(t)) : (s \o t)[i] = IF i <= Len(s) THEN s[i] ELSE t[i - Len(s)]
  BY ConcatProperties
<1>2. /\ Len(s) \in Nat /\ Len(t) \in Nat /\ DOMAIN (s \o t) = 1..(Len(s) + Len(t))
      /\ DOMAIN s = 1..Len(s) /\ DOMAIN t = 1..Len(t)
  BY <1>1, LenProperties
<1>3. ASSUME NEW x \in ToSet(s \o t) PROVE x \in ToSet(s) \cup ToSet(t)
  <2>1. PICK i \in 1..(Len(s) + Len(t)) : x = (s \o t)[i]
    BY <1>2 DEF ToSet
  <2>2. CASE i <= Len(s)
    <3>1. i \in 1..Len(s)
      BY <2>2, <1>2
    <3> QED BY <2>1, <2>2, <3>1, <1>1, <1>2 DEF ToSet
  <2>3. CASE ~(i <= Len(s))
    <3>1. i - Len(s) \in 1..Len(t)
      BY <2>3, <1>2
    <3> QED BY <2>1, <2>3, <3>1, <1>1, <1>2 DEF ToSet
  <2> QED BY <2>2, <2>3
<1>4. ASSUME NEW x \in ToSet(s) PROVE x \in ToSet(s \o t)
  <2>1. PICK i \in 1..Len(s) : x = s[i]
    BY <1>2 DEF ToSet
  <2>2. i \in 1..(Len(s) + Len(t)) /\ (s \o t)[i] = x
    BY <2>1, <1>1, <1>2
  <2> QED BY <2>2, <1>2 DEF ToSet
<1>5. ASSUME NEW x \in ToSet(t) PROVE x \in ToSet(s \o t)
  <2>1. PICK i \in 1..Len(t) : x = t[i]
    BY <1>2 DEF ToSet
  <2>2. i + Len(s) \in 1..(Len(s) + Len(t)) /\ ~(i + Len(s) <= Len(s)) /\ (i + Len(s)) - Len(s) = i
    BY <2>1, <1>2
  <2>3. (s \o t)[i + Len(s)] = x
    BY <2>1, <2>2, <1>1
  <2> QED BY <2>2, <2>3, <1>2 DEF ToSet
<1> QED BY <1>1, <1>3, <1>4, <1>5

\* A list of lists that is made one has the elements of all of them.
LEMMA FlattenSeqElements ==
  ASSUME NEW S, NEW n \in Nat, NEW ss \in [1..n -> Seq(S)]
  PROVE  /\ FlattenSeq(ss) \in Seq(S)
         /\ \A x : x \in ToSet(FlattenSeq(ss)) <=> \E i \in 1..n : x \in ToSet(ss[i])
<1>1. ss \in Seq(Seq(S)) /\ Len(ss) = n
  OBVIOUS
<1>2. CASE n = 0
  <2>1. FlattenSeq(ss) = ss /\ ss = <<>>
    BY <1>1, <1>2 DEF FlattenSeq
  <2> QED BY <2>1, <1>2 DEF ToSet
<1>3. CASE n # 0
  <2> DEFINE F == CHOOSE f : f = [i \in 1..n |-> IF i = 1 THEN ss[i] ELSE f[i - 1] \o ss[i]]
  <2>1. FlattenSeq(ss) = F[n]
    BY <1>1, <1>3 DEF FlattenSeq
  <2>2. Flattening(n, ss, F)
    <3>1. \E f : f = [i \in 1..n |-> IF i = 1 THEN ss[i] ELSE f[i - 1] \o ss[i]]
      BY FlatteningExists DEF Flattening
    <3> QED BY <3>1 DEF Flattening
  <2> HIDE DEF F
  <2>3. \A i \in 1..n : F[i] = IF i = 1 THEN ss[i] ELSE F[i - 1] \o ss[i]
    BY <2>2 DEF Flattening
  <2> DEFINE Good(k) == /\ F[k] \in Seq(S)
                        /\ \A x : x \in ToSet(F[k]) <=> \E i \in 1..k : x \in ToSet(ss[i])
             T == {k \in 1..n : ~Good(k)}
  <2>4. T = {}
    <3> SUFFICES ASSUME T # {} PROVE FALSE
      OBVIOUS
    <3>1. T \in SUBSET Nat
      OBVIOUS
    <3>2. PICK k \in T : \A m \in T : k <= m
      <4> HIDE DEF T
      <4> QED BY <3>1, Smallest
    <3>3. k \in 1..n /\ ~Good(k)
      BY <3>2
    <3>4. CASE k = 1
      <4>1. F[1] = ss[1] /\ ss[1] \in Seq(S)
        BY <2>3, <3>3, <3>4
      <4> QED BY <3>3, <3>4, <4>1
    <3>5. CASE k # 1
      <4>1. k - 1 \in 1..n /\ ~(k <= k - 1)
        BY <3>3, <3>5
      <4>2. Good(k - 1)
        BY <3>2, <4>1
      <4>3. F[k] = F[k - 1] \o ss[k] /\ ss[k] \in Seq(S)
        BY <2>3, <3>3, <3>5
      <4>4. F[k] \in Seq(S) /\ ToSet(F[k]) = ToSet(F[k - 1]) \cup ToSet(ss[k])
        BY <4>2, <4>3, Concatenated
      <4>5. \A x : x \in ToSet(F[k]) <=> \E i \in 1..k : x \in ToSet(ss[i])
        <5>1. \A i \in 1..k : i = k \/ i \in 1..(k - 1)
          BY <3>3
        <5>2. k \in 1..k /\ \A i \in 1..(k - 1) : i \in 1..k
          BY <3>3
        <5> QED BY <4>2, <4>4, <5>1, <5>2
      <4> QED BY <3>3, <4>4, <4>5
    <3> QED BY <3>4, <3>5
  <2>5. Good(n)
    <3>1. n \in 1..n
      BY <1>3
    <3> QED BY <2>4, <3>1
  <2> QED BY <2>1, <2>5
<1> QED BY <1>2, <1>3
\* A list of which some elements are left out has those that are not.
LEMMA KeptElements ==
  ASSUME NEW S, NEW all \in Seq(S), NEW ss, DOMAIN ss = 1..Len(all), ss = [i \in DOMAIN ss |-> ss[i]],
         \A i \in 1..Len(all) : ss[i] = <<all[i]>> \/ ss[i] = <<>>
  PROVE  /\ FlattenSeq(ss) \in Seq(S)
         /\ \A x : x \in ToSet(FlattenSeq(ss)) <=> \E i \in 1..Len(all) : ss[i] # <<>> /\ x = all[i]
<1>1. Len(all) \in Nat /\ \A i \in 1..Len(all) : all[i] \in S
  BY ElementOfSeq, LenProperties
<1>2. ss \in [1..Len(all) -> Seq(S)]
  <2>1. \A i \in 1..Len(all) : <<all[i]>> \in Seq(S) /\ <<>> \in Seq(S)
    BY <1>1
  <2>2. \A i \in 1..Len(all) : ss[i] \in Seq(S)
    BY <2>1
  <2> QED BY <2>2
<1>3. /\ FlattenSeq(ss) \in Seq(S)
      /\ \A x : x \in ToSet(FlattenSeq(ss)) <=> \E i \in 1..Len(all) : x \in ToSet(ss[i])
  BY <1>1, <1>2, FlattenSeqElements
<1>4. \A x : ToSet(<<x>>) = {x}
  BY DEF ToSet
<1>5. ToSet(<<>>) = {}
  BY DEF ToSet
<1>6. \A i \in 1..Len(all) : \A x : x \in ToSet(ss[i]) <=> ss[i] # <<>> /\ x = all[i]
  <2> SUFFICES ASSUME NEW i \in 1..Len(all), NEW x
               PROVE  x \in ToSet(ss[i]) <=> ss[i] # <<>> /\ x = all[i]
    OBVIOUS
  <2>1. CASE ss[i] = <<all[i]>>
    BY <2>1, <1>4
  <2>2. CASE ss[i] = <<>>
    BY <2>2, <1>5
  <2> QED BY <2>1, <2>2
<1> QED BY <1>3, <1>6

Specification == {s \in [file : File, items : SUBSET Nat] : s.items \subseteq DOMAIN Contents[s.file]}

LEMMA ContentsTypes ==
  /\ IsFiniteSet(File)
  /\ \A file \in File : DOMAIN Contents[file] \in SUBSET Nat /\ ScenariosOf(file) \subseteq DOMAIN Contents[file]
<1>1. Contents \in Seq(Range(Contents)) /\ \A file \in File : Contents[file] \in Seq(Range(Contents[file]))
  BY CommandAssumption
<1>2. Len(Contents) \in Nat /\ File = 1..Len(Contents)
  BY <1>1, LenProperties DEF File
<1>3. IsFiniteSet(1..Len(Contents))
  BY <1>2, FS_Interval
<1>4. ASSUME NEW file \in File PROVE DOMAIN Contents[file] \in SUBSET Nat
  <2>1. Len(Contents[file]) \in Nat /\ DOMAIN Contents[file] = 1..Len(Contents[file])
    BY <1>1, LenProperties
  <2> QED BY <2>1
<1> QED BY <1>2, <1>3, <1>4 DEF ScenariosOf

LEMMA WholeIsSpecification ==
  ASSUME NEW file \in File PROVE Whole(file) \in Specification
BY ContentsTypes DEF Specification, Whole

\* What was parsed, of the files that could be.
LEMMA ArrivedElements ==
  ASSUME specsChan \in Seq(File)
  PROVE  /\ Arrived \in Seq(Specification)
         /\ \A s : s \in ToSet(Arrived) <=> \E file \in ToSet(specsChan) \ broken : s = Whole(file)
<1> DEFINE ss == [i \in DOMAIN specsChan |-> IF specsChan[i] \notin broken THEN <<specsChan[i]>> ELSE <<>>]
           parsed == Retain(specsChan, LAMBDA f : f \notin broken)
<1>1. parsed = FlattenSeq(ss)
  BY DEF Retain
<1>2. DOMAIN specsChan = 1..Len(specsChan)
  BY LenProperties
<1>3. /\ DOMAIN ss = 1..Len(specsChan) /\ ss = [i \in DOMAIN ss |-> ss[i]]
      /\ \A i \in 1..Len(specsChan) : ss[i] = <<specsChan[i]>> \/ ss[i] = <<>>
      /\ \A i \in 1..Len(specsChan) : ss[i] # <<>> <=> specsChan[i] \notin broken
  BY <1>2
<1> HIDE DEF ss
<1>4. /\ FlattenSeq(ss) \in Seq(File)
      /\ \A x : x \in ToSet(FlattenSeq(ss)) <=> \E i \in 1..Len(specsChan) : ss[i] # <<>> /\ x = specsChan[i]
  BY <1>3, KeptElements
<1> HIDE DEF parsed
<1>5. parsed \in Seq(File) /\ \A f : f \in ToSet(parsed) <=> f \in ToSet(specsChan) \ broken
  BY <1>1, <1>2, <1>3, <1>4 DEF ToSet
<1>6. Arrived = [i \in DOMAIN parsed |-> Whole(parsed[i])]
  BY DEF Arrived, parsed
<1>7. Len(parsed) \in Nat /\ DOMAIN parsed = 1..Len(parsed) /\ \A i \in 1..Len(parsed) : parsed[i] \in File
  BY <1>5, LenProperties, ElementOfSeq
<1>8. Arrived \in Seq(Specification)
  BY <1>6, <1>7, WholeIsSpecification
<1>9. ToSet(Arrived) = {Whole(f) : f \in ToSet(parsed)}
  BY <1>6, <1>7 DEF ToSet
<1> QED BY <1>5, <1>8, <1>9
LEMMA WithScenario ==
  ASSUME NEW all \in Seq(Specification)
  PROVE  /\ Retain(all, HasScenario) \in Seq(Specification)
         /\ \A x : x \in ToSet(Retain(all, HasScenario)) <=> x \in ToSet(all) /\ HasScenario(x)
<1> DEFINE ss == [i \in DOMAIN all |-> IF HasScenario(all[i]) THEN <<all[i]>> ELSE <<>>]
<1>1. Retain(all, HasScenario) = FlattenSeq(ss)
  BY DEF Retain
<1>2. DOMAIN all = 1..Len(all)
  BY LenProperties
<1>3. /\ DOMAIN ss = 1..Len(all) /\ ss = [i \in DOMAIN ss |-> ss[i]]
      /\ \A i \in 1..Len(all) : ss[i] = <<all[i]>> \/ ss[i] = <<>>
      /\ \A i \in 1..Len(all) : ss[i] # <<>> <=> HasScenario(all[i])
  BY <1>2
<1> HIDE DEF ss
<1>4. /\ FlattenSeq(ss) \in Seq(Specification)
      /\ \A x : x \in ToSet(FlattenSeq(ss)) <=> \E i \in 1..Len(all) : ss[i] # <<>> /\ x = all[i]
  BY <1>3, KeptElements
<1>5. ASSUME NEW x PROVE x \in ToSet(FlattenSeq(ss)) <=> x \in ToSet(all) /\ HasScenario(x)
  <2>1. ASSUME x \in ToSet(FlattenSeq(ss)) PROVE x \in ToSet(all) /\ HasScenario(x)
    <3>1. PICK i \in 1..Len(all) : ss[i] # <<>> /\ x = all[i]
      BY <2>1, <1>4
    <3> QED BY <3>1, <1>2, <1>3 DEF ToSet
  <2>2. ASSUME x \in ToSet(all), HasScenario(x) PROVE x \in ToSet(FlattenSeq(ss))
    <3>1. PICK i \in 1..Len(all) : x = all[i]
      BY <2>2, <1>2 DEF ToSet
    <3>2. HasScenario(all[i])
      BY <2>2, <3>1
    <3> QED BY <3>1, <3>2, <1>3, <1>4
  <2> QED BY <2>1, <2>2
<1> QED BY <1>1, <1>4, <1>5

\* Of the specifications of an argument, the scenarios that have its index are kept, and
\* what is no scenario.
LEMMA FilteredElements ==
  ASSUME NEW parsed \in Seq(Specification), NEW index \in Int
  PROVE  /\ FilterItems(parsed, index) \in Seq(Specification)
         /\ \A p \in ToSet(parsed) : \A i \in p.items \cap ScenariosOf(p.file) :
              index \in {-1, ScenariosBefore(p.file, i)} =>
                \E s \in ToSet(FilterItems(parsed, index)) : s.file = p.file /\ i \in s.items
         /\ \A s \in ToSet(FilterItems(parsed, index)) : \E p \in ToSet(parsed) :
              s.file = p.file /\ p.items \ ScenariosOf(p.file) \subseteq s.items
<1>1. CASE index = -1
  BY <1>1 DEF FilterItems
<1>2. CASE index # -1
  <2> DEFINE all == [i \in DOMAIN parsed |-> AtIndex(parsed[i], index)]
             kept == Retain(all, HasScenario)
  <2>1. Len(parsed) \in Nat /\ DOMAIN parsed = 1..Len(parsed) /\ \A i \in 1..Len(parsed) : parsed[i] \in Specification
    BY LenProperties, ElementOfSeq
  <2>2. ASSUME NEW p \in Specification
        PROVE  /\ AtIndex(p, index) \in Specification /\ AtIndex(p, index).file = p.file
               /\ AtIndex(p, index).items =
                    {i \in p.items : i \in ScenariosOf(p.file) => ScenariosBefore(p.file, i) = index}
    <3> DEFINE kp == {i \in p.items : i \in ScenariosOf(p.file) => ScenariosBefore(p.file, i) = index}
    <3>1. p = [file |-> p.file, items |-> p.items] /\ p.file \in File /\ p.items \in SUBSET Nat
            /\ p.items \subseteq DOMAIN Contents[p.file]
      BY DEF Specification
    <3>2. AtIndex(p, index) = [p EXCEPT !.items = kp]
      BY DEF AtIndex
    <3>3. kp \subseteq p.items
      OBVIOUS
    <3> HIDE DEF kp
    <3>4. AtIndex(p, index) = [file |-> p.file, items |-> kp]
      BY <3>1, <3>2
    <3>5. AtIndex(p, index) \in Specification /\ AtIndex(p, index).file = p.file /\ AtIndex(p, index).items = kp
      BY <3>1, <3>3, <3>4 DEF Specification
    <3> QED BY <3>5 DEF kp
  <2>3. all \in Seq(Specification) /\ ToSet(all) = {AtIndex(p, index) : p \in ToSet(parsed)}
    BY <2>1, <2>2 DEF ToSet
  <2>4. FilterItems(parsed, index) = kept
    BY <1>2 DEF FilterItems
  <2> HIDE DEF all
  <2>5. kept \in Seq(Specification) /\ \A x : x \in ToSet(kept) <=> x \in ToSet(all) /\ HasScenario(x)
    BY <2>3, WithScenario
  <2>6. \A p \in ToSet(parsed) : p \in Specification
    BY <2>1 DEF ToSet
  <2> HIDE DEF kept
  <2>7. ASSUME NEW p \in ToSet(parsed), NEW i \in p.items \cap ScenariosOf(p.file),
               index \in {-1, ScenariosBefore(p.file, i)}
        PROVE  \E s \in ToSet(kept) : s.file = p.file /\ i \in s.items
    <3>1. /\ AtIndex(p, index) \in ToSet(all) /\ AtIndex(p, index).file = p.file
          /\ i \in AtIndex(p, index).items
      BY <2>2, <2>3, <2>6, <2>7, <1>2
    <3>2. HasScenario(AtIndex(p, index))
      BY <3>1 DEF HasScenario
    <3> QED BY <3>1, <3>2, <2>5
  <2>8. ASSUME NEW s \in ToSet(kept)
        PROVE  \E p \in ToSet(parsed) : s.file = p.file /\ p.items \ ScenariosOf(p.file) \subseteq s.items
    <3>1. PICK p \in ToSet(parsed) : s = AtIndex(p, index)
      BY <2>3, <2>5
    <3> QED BY <2>2, <2>6, <3>1
  <2> QED BY <2>4, <2>5, <2>7, <2>8
<1> QED BY <1>1, <1>2

\* With tags nothing is kept but the scenarios that qualify, and all of them.
LEMMA TaggedElements ==
  ASSUME NEW all \in Seq(Specification)
  PROVE  /\ ByTags(all) \in Seq(Specification)
         /\ \A p \in ToSet(all) : \A i \in p.items \cap ScenariosOf(p.file) :
              (flags.tagged => Contents[p.file][i].qualifies) =>
                \E s \in ToSet(ByTags(all)) : s.file = p.file /\ i \in s.items
         /\ ~flags.tagged => ByTags(all) = all
<1>1. CASE ~flags.tagged
  BY <1>1 DEF ByTags
<1>2. CASE flags.tagged
  <2> DEFINE Of(p) == [p EXCEPT !.items = {j \in @ : /\ j \in ScenariosOf(p.file)
                                                     /\ Contents[p.file][j].qualifies}]
             tagged == [i \in DOMAIN all |-> [all[i] EXCEPT !.items = {j \in @ : /\ j \in ScenariosOf(all[i].file)
                                                /\ Contents[all[i].file][j].qualifies}]]
             kept == Retain(tagged, HasScenario)
  <2>1. Len(all) \in Nat /\ DOMAIN all = 1..Len(all) /\ \A i \in 1..Len(all) : all[i] \in Specification
    BY LenProperties, ElementOfSeq
  <2>2. ASSUME NEW p \in Specification
        PROVE  /\ Of(p) \in Specification /\ Of(p).file = p.file
               /\ Of(p).items = {j \in p.items : j \in ScenariosOf(p.file) /\ Contents[p.file][j].qualifies}
    <3> DEFINE kp == {j \in p.items : j \in ScenariosOf(p.file) /\ Contents[p.file][j].qualifies}
    <3>1. p = [file |-> p.file, items |-> p.items] /\ p.file \in File /\ p.items \in SUBSET Nat
            /\ p.items \subseteq DOMAIN Contents[p.file]
      BY DEF Specification
    <3>2. Of(p) = [p EXCEPT !.items = kp]
      OBVIOUS
    <3>3. kp \subseteq p.items
      OBVIOUS
    <3> HIDE DEF kp, Of
    <3>4. Of(p) = [file |-> p.file, items |-> kp]
      BY <3>1, <3>2
    <3>5. Of(p) \in Specification /\ Of(p).file = p.file /\ Of(p).items = kp
      BY <3>1, <3>3, <3>4 DEF Specification
    <3> QED BY <3>5 DEF kp
  <2>3. ByTags(all) = kept
    BY <1>2 DEF ByTags
  <2>4. tagged = [i \in DOMAIN all |-> Of(all[i])]
    OBVIOUS
  <2> HIDE DEF Of, tagged
  <2>5. tagged \in Seq(Specification) /\ ToSet(tagged) = {Of(p) : p \in ToSet(all)}
    BY <2>1, <2>2, <2>4 DEF ToSet
  <2>6. kept \in Seq(Specification) /\ \A x : x \in ToSet(kept) <=> x \in ToSet(tagged) /\ HasScenario(x)
    BY <2>5, WithScenario
  <2>7. \A p \in ToSet(all) : p \in Specification
    BY <2>1 DEF ToSet
  <2> HIDE DEF kept
  <2>8. ASSUME NEW p \in ToSet(all), NEW i \in p.items \cap ScenariosOf(p.file), Contents[p.file][i].qualifies
        PROVE  \E s \in ToSet(kept) : s.file = p.file /\ i \in s.items
    <3>1. Of(p) \in ToSet(tagged) /\ Of(p).file = p.file /\ i \in Of(p).items
      BY <2>2, <2>5, <2>7, <2>8
    <3>2. HasScenario(Of(p))
      BY <3>1 DEF HasScenario
    <3> QED BY <3>1, <3>2, <2>6
  <2> QED BY <2>3, <2>6, <2>8, <1>2
<1> QED BY <1>1, <1>2
LEMMA Sharing ==
  ASSUME NEW m \in Nat, NEW d \in Nat \ {0}
  PROVE  m \div d \in Nat /\ \A k \in 0..(m \div d) : k * d \in 0..m
<1>1. m \div d \in Nat
  OBVIOUS
<1>2. (m \div d) * d <= m
  OBVIOUS
<1>3. ASSUME NEW k \in 0..(m \div d) PROVE k * d \in 0..m
  <2> DEFINE q == m \div d
  <2>1. q \in Nat /\ q * d <= m /\ k \in Nat /\ k <= q
    BY <1>1, <1>2
  <2> HIDE DEF q
  <2>2. (q - k) * d >= 0 /\ (q - k) * d = q * d - k * d /\ k * d >= 0 /\ k * d \in Int
    BY <2>1
  <2> QED BY <2>1, <2>2
<1> QED BY <1>1, <1>3
\* A group has some of the specifications, and where its number does not lead to a panic
\* one at least.
LEMMA DealtElements ==
  ASSUME NEW all \in Seq(Specification), flags.streams \in Int, flags.group \in 1..flags.streams,
         flags.group <= Distributions(Len(all))
  PROVE  /\ Dealt(all, flags.group) \in Seq(Specification) /\ Dealt(all, flags.group) # <<>>
         /\ ToSet(Dealt(all, flags.group)) \subseteq ToSet(all) /\ all # <<>>
<1> DEFINE n == Len(all)
           g == flags.group
           d == Distributions(n)
           m == (n - g) \div d
<1>1. n \in Nat /\ DOMAIN all = 1..n /\ \A i \in 1..n : all[i] \in Specification
  BY LenProperties, ElementOfSeq
<1>2. d \in 1..n /\ g \in 1..d /\ n - g \in Nat /\ d \in Nat \ {0}
  BY <1>1 DEF Distributions
<1>3. Dealt(all, g) = [k \in 1..(m + 1) |-> all[g + (k - 1) * d]]
  BY DEF Dealt
<1> HIDE DEF d
<1>4. m \in Nat /\ \A k \in 0..m : k * d \in 0..(n - g)
  BY <1>2, Sharing
<1> HIDE DEF m, n, g
<1>5. ASSUME NEW k \in 1..(m + 1) PROVE g + (k - 1) * d \in 1..n
  <2>1. k - 1 \in 0..m
    BY <1>4
  <2> DEFINE e == (k - 1) * d
  <2>2. e \in 0..(n - g)
    BY <2>1, <1>4
  <2> HIDE DEF e
  <2>3. g + e \in 1..n
    BY <2>2, <1>1, <1>2
  <2> QED BY <2>3 DEF e
<1>6. Dealt(all, g) \in Seq(Specification) /\ ToSet(Dealt(all, g)) \subseteq ToSet(all)
  <2>1. \A k \in 1..(m + 1) : all[g + (k - 1) * d] \in Specification
    BY <1>1, <1>5
  <2>2. Dealt(all, g) \in [1..(m + 1) -> Specification] /\ m + 1 \in Nat
    BY <1>3, <1>4, <2>1
  <2>3. DOMAIN Dealt(all, g) = 1..(m + 1)
    BY <1>3
  <2>4. \A k \in 1..(m + 1) : Dealt(all, g)[k] \in ToSet(all)
    BY <1>1, <1>3, <1>5 DEF ToSet
  <2>5. ToSet(Dealt(all, g)) \subseteq ToSet(all)
    <3> HIDE DEF d
    <3> QED BY <2>3, <2>4 DEF ToSet
  <2> QED BY <2>2, <2>5
<1>7. Dealt(all, g) # <<>>
  <2>1. 1 \in 1..(m + 1)
    BY <1>4
  <2>2. DOMAIN Dealt(all, g) = 1..(m + 1)
    BY <1>3
  <2>3. DOMAIN <<>> = {}
    OBVIOUS
  <2> QED BY <2>1, <2>2, <2>3
<1>8. all # <<>>
  BY <1>1, <1>2
<1> QED BY <1>6, <1>7, <1>8 DEF g

LEMMA FunctionIsSeq ==
  ASSUME NEW S, NEW n \in Nat, NEW f \in [1..n -> S]
  PROVE  f \in Seq(S) /\ Len(f) = n
OBVIOUS

\* An order of the specifications is a permutation of them.
LEMMA OrderedBy ==
  ASSUME NEW all \in Seq(Specification), NEW order \in SortSpecsList(all)
  PROVE  /\ order \in Seq(Specification) /\ Len(order) = Len(all)
         /\ \E place \in [1..Len(all) -> 1..Len(all)] :
              /\ \A i, j \in 1..Len(all) : place[i] = place[j] => i = j
              /\ \A j \in 1..Len(all) : \E i \in 1..Len(all) : place[i] = j
              /\ \A i \in 1..Len(all) : order[i] = all[place[i]]
<1> DEFINE n == Len(all)
<1>1. n \in Nat /\ DOMAIN all = 1..n /\ \A i \in 1..n : all[i] \in Specification
  BY LenProperties, ElementOfSeq
<1> HIDE DEF n
<1>2. PICK place \in Bijection(1..n, 1..n) : order = [i \in 1..n |-> all[place[i]]]
  BY <1>1 DEF SortSpecsList
<1>3. /\ place \in [1..n -> 1..n]
      /\ \A i, j \in 1..n : place[i] = place[j] => i = j
      /\ \A j \in 1..n : \E i \in 1..n : place[i] = j
  BY DEF Bijection, Injection, Surjection, IsInjective
<1>4. \A i \in 1..n : order[i] \in Specification
  BY <1>1, <1>2, <1>3
<1>5. order \in [1..n -> Specification]
  BY <1>2, <1>4
<1>6. order \in Seq(Specification) /\ Len(order) = n
  BY <1>1, <1>5, FunctionIsSeq
<1>7. \A i \in 1..n : order[i] = all[place[i]]
  BY <1>2
<1> QED BY <1>3, <1>6, <1>7 DEF n

\* Sorting loses none and adds none.
LEMMA OrderedElements ==
  ASSUME NEW all \in Seq(Specification), NEW order \in SortSpecsList(all)
  PROVE  order \in Seq(Specification) /\ ToSet(order) = ToSet(all)
<1>1. order \in Seq(Specification) /\ Len(order) = Len(all)
  BY OrderedBy
<1>2. PICK place \in [1..Len(all) -> 1..Len(all)] :
        /\ \A i, j \in 1..Len(all) : place[i] = place[j] => i = j
        /\ \A j \in 1..Len(all) : \E i \in 1..Len(all) : place[i] = j
        /\ \A i \in 1..Len(all) : order[i] = all[place[i]]
  BY OrderedBy
<1>3. DOMAIN order = 1..Len(all) /\ DOMAIN all = 1..Len(all)
  BY <1>1, LenProperties
<1>4. \A i \in 1..Len(all) : \E j \in 1..Len(all) : order[i] = all[j]
  BY <1>2
<1>5. ASSUME NEW j \in 1..Len(all) PROVE \E i \in 1..Len(all) : all[j] = order[i]
  <2>1. PICK i \in 1..Len(all) : place[i] = j
    BY <1>2
  <2>2. order[i] = all[place[i]]
    BY <1>2
  <2> QED BY <2>1, <2>2
<1>6. ToSet(order) = {order[i] : i \in 1..Len(all)} /\ ToSet(all) = {all[i] : i \in 1..Len(all)}
  BY <1>3 DEF ToSet
<1> QED BY <1>1, <1>4, <1>5, <1>6

\* What the filters leave: nothing, only when there was nothing, or the group is none.
LEMMA SelectedElements ==
  ASSUME NEW all \in Seq(Specification), flags.streams \in Int, flags.group \in Int, ~Panics(all),
         NEW order \in SortSpecsList(ByGroup(all))
  PROVE  /\ order \in Seq(Specification)
         /\ ToSet(order) \subseteq ToSet(all)
         /\ flags.group \in {-1} \cup 1..flags.streams /\ order = <<>> => all = <<>>
<1>1. Len(all) \in Nat
  BY LenProperties
<1>2. ByGroup(all) \in Seq(Specification) /\ ToSet(ByGroup(all)) \subseteq ToSet(all)
        /\ (flags.group \in {-1} \cup 1..flags.streams /\ ByGroup(all) = <<>> => all = <<>>)
  <2>1. CASE flags.group = -1
    BY <2>1 DEF ByGroup
  <2>2. CASE flags.group # -1 /\ ~GroupIsValid
    <3>1. ByGroup(all) = <<>> /\ <<>> \in Seq(Specification) /\ ToSet(<<>>) = {}
      BY <2>2 DEF ByGroup, ToSet
    <3> QED BY <2>2, <3>1 DEF GroupIsValid
  <2>3. CASE flags.group # -1 /\ GroupIsValid
    <3>1. Distributions(Len(all)) \in Int
      BY <1>1 DEF Distributions
    <3>2. flags.group \in 1..flags.streams /\ flags.group <= Distributions(Len(all))
      BY <2>3, <3>1 DEF Panics, GroupIsValid
    <3>3. ByGroup(all) = Dealt(all, flags.group)
      BY <2>3 DEF ByGroup
    <3> QED BY <3>2, <3>3, DealtElements
  <2> QED BY <2>1, <2>2, <2>3
<1>3. order \in Seq(Specification) /\ ToSet(order) = ToSet(ByGroup(all))
  BY <1>2, OrderedElements
<1>4. order = <<>> => ByGroup(all) = <<>>
  <2>1. ToSet(<<>>) = {}
    BY DEF ToSet
  <2>2. Len(ByGroup(all)) \in Nat /\ DOMAIN ByGroup(all) = 1..Len(ByGroup(all))
    BY <1>2, LenProperties
  <2>3. ToSet(ByGroup(all)) = {} => Len(ByGroup(all)) = 0
    <3> SUFFICES ASSUME Len(ByGroup(all)) # 0 PROVE ToSet(ByGroup(all)) # {}
      OBVIOUS
    <3>1. 1 \in DOMAIN ByGroup(all)
      BY <2>2
    <3> QED BY <3>1 DEF ToSet
  <2>4. Len(ByGroup(all)) = 0 => ByGroup(all) = <<>>
    BY <1>2, EmptySeq
  <2> QED BY <1>3, <2>1, <2>3, <2>4
<1> QED BY <1>2, <1>3, <1>4
-----------------------------------------------------------------------------
(* Command line: the inductive invariant.                                  *)

CommandTypes ==
  /\ flags \in Invocations /\ broken \subseteq File
  /\ arg \in Nat \ {0} /\ arg <= Len(flags.args) + 1
  /\ specsChan \in Seq(File)
  /\ resultsChan \in Seq([file : File, about : File])
  /\ specs \in Seq(Specification) /\ selected \in Seq(Specification)

\* Results are of specifications that were sent, and no file has two.
ChannelsInv ==
  /\ arg \in DOMAIN flags.args => ToSet(specsChan) \subseteq FilesOf(arg)
  /\ Sent \subseteq ToSet(specsChan)
  /\ Cardinality(Sent) = Len(resultsChan)

\* Every file of an argument that was dealt with has been read, and what is in it at the
\* argument's index is among the specifications.
ArgumentRead(a) ==
  /\ FilesOf(a) \cap broken = {}
  /\ \A file \in FilesOf(a) : \A i \in ScenariosOf(file) :
       flags.args[a].index \in {-1, ScenariosBefore(file, i)} =>
         \E s \in ToSet(specs) : s.file = file /\ i \in s.items

HasAllButScenarios(s) == DOMAIN Contents[s.file] \ ScenariosOf(s.file) \subseteq s.items

SpecsInv ==
  /\ ~flags.format => \A a \in 1..(arg - 1) : ArgumentRead(a)
  /\ \A s \in ToSet(specs) : HasAllButScenarios(s)

FormatInv ==
  flags.format =>
    /\ arg = 1 /\ phase \in {"parse", "format", "exit"} /\ answers = {}
    /\ phase = "parse" => formatted \cup unformatted = {}
    /\ phase # "parse" =>
         /\ Sent = FilesOf(1)
         /\ {s.file : s \in ToSet(specs)} = FilesOf(1) \ broken
         /\ formatted \cup unformatted \subseteq FilesOf(1) \ broken
    /\ phase = "exit" =>
         /\ formatted \cup unformatted = FilesOf(1) \ broken
         /\ exitCode = IF NotOk(resultsChan) = {} THEN 0 ELSE 1

SelectedInv ==
  /\ phase = "format" => flags.format
  /\ phase \in {"start", "validate", "execute"} =>
       ~flags.format /\ selected # <<>> /\ arg \notin DOMAIN flags.args
  /\ phase = "exit" /\ exitCode = 0 /\ ~flags.format =>
       /\ arg \notin DOMAIN flags.args
       /\ selected = <<>> /\ flags.group \in {-1} \cup 1..flags.streams => ByTags(specs) = <<>>
  /\ phase = "crashed" => flags.group > Len(ByTags(specs)) \/ selected # <<>>
  /\ ~flags.tagged => \A s \in ToSet(selected) : HasAllButScenarios(s)

VerdictInv ==
  /\ phase \in {"parse", "format", "start"} => answers = {} /\ ~errors
  /\ AllValid \/ errors
  /\ phase = "execute" => ~errors
  /\ phase = "exit" /\ exitCode = 0 => AllValid

CommandInv == CommandTypes /\ ChannelsInv /\ SpecsInv /\ FormatInv /\ SelectedInv /\ VerdictInv

LEMMA FlagTypes ==
  ASSUME flags \in Invocations
  PROVE  /\ flags.args \in Seq([files : SUBSET File, index : Int])
         /\ Len(flags.args) \in Nat /\ DOMAIN flags.args = 1..Len(flags.args)
         /\ \A a \in DOMAIN flags.args :
              FilesOf(a) \subseteq File /\ IsFiniteSet(FilesOf(a)) /\ flags.args[a].index \in Int
         /\ flags.group \in Int /\ flags.streams \in Int
         /\ flags.format => Len(flags.args) = 1
<1>1. /\ flags.args \in Seq([files : SUBSET File, index : Int])
      /\ flags.group \in Int /\ flags.streams \in Int /\ (flags.format => Len(flags.args) = 1)
  BY CommandAssumption
<1>2. Len(flags.args) \in Nat /\ DOMAIN flags.args = 1..Len(flags.args)
  BY <1>1, LenProperties
<1>3. \A a \in DOMAIN flags.args : flags.args[a] \in [files : SUBSET File, index : Int]
  BY <1>1, <1>2, ElementOfSeq
<1>4. \A a \in DOMAIN flags.args : FilesOf(a) \subseteq File /\ flags.args[a].index \in Int
  BY <1>3 DEF FilesOf
<1>5. \A a \in DOMAIN flags.args : IsFiniteSet(FilesOf(a))
  BY <1>4, ContentsTypes, FS_Subset
<1> QED BY <1>1, <1>2, <1>4, <1>5

LEMMA EmptyLists == ToSet(<<>>) = {} /\ Len(<<>>) = 0 /\ \A S : <<>> \in Seq(S)
BY DEF ToSet

\* What a process starts from.
Fresh ==
  /\ flags \in Invocations /\ broken \in SUBSET File
  /\ phase = "parse" /\ exitCode = 0
  /\ arg = 1 /\ specsChan = <<>> /\ resultsChan = <<>> /\ specs = <<>> /\ selected = <<>>
  /\ toValidate = <<>> /\ cache = {} /\ answers = {} /\ errors = FALSE
  /\ formatted = {} /\ unformatted = {}

LEMMA FreshInv == Fresh => CommandInv
<1> SUFFICES ASSUME Fresh PROVE CommandInv
  OBVIOUS
<1>1. CommandTypes
  BY FlagTypes, EmptyLists DEF Fresh, CommandTypes
<1>2. ChannelsInv
  <2>1. Sent = {}
    BY EmptyLists DEF Fresh, Sent
  <2> QED BY <2>1, EmptyLists, FS_EmptySet DEF Fresh, ChannelsInv
<1>3. SpecsInv
  <2>1. 1..(1 - 1) = {}
    OBVIOUS
  <2> QED BY <2>1, EmptyLists DEF Fresh, SpecsInv
<1>4. FormatInv
  BY DEF Fresh, FormatInv
<1>5. SelectedInv
  BY EmptyLists DEF Fresh, SelectedInv
<1>6. VerdictInv
  BY DEF Fresh, VerdictInv, AllValid
<1> QED BY <1>1, <1>2, <1>3, <1>4, <1>5, <1>6 DEF CommandInv

LEMMA AgainInv == CommandInv /\ Again => CommandInv'
<1> SUFFICES ASSUME CommandInv, Again PROVE CommandInv'
  OBVIOUS
<1>1. Fresh'
  BY DEF CommandInv, CommandTypes, Again, Fresh
<1>2. Fresh' => CommandInv'
  BY FreshInv, PTL
<1> QED BY <1>1, <1>2
LEMMA WiderSeq ==
  ASSUME NEW A, NEW B, A \subseteq B, NEW s \in Seq(A)
  PROVE  s \in Seq(B)
OBVIOUS

\* A sequence that is one longer has one element more.
LEMMA Appended ==
  ASSUME NEW S, NEW seq \in Seq(S), NEW x \in S
  PROVE  /\ Append(seq, x) \in Seq(S) /\ Len(Append(seq, x)) = Len(seq) + 1
         /\ ToSet(Append(seq, x)) = ToSet(seq) \cup {x}
<1>1. Len(seq) \in Nat /\ DOMAIN seq = 1..Len(seq)
  BY LenProperties
<1>2. /\ Append(seq, x) \in Seq(S) /\ Len(Append(seq, x)) = Len(seq) + 1
      /\ \A i \in 1..Len(seq) : Append(seq, x)[i] = seq[i]
      /\ Append(seq, x)[Len(seq) + 1] = x
      /\ DOMAIN Append(seq, x) = 1..(Len(seq) + 1)
  BY AppendProperties, LenProperties
<1>3. 1..(Len(seq) + 1) = 1..Len(seq) \cup {Len(seq) + 1}
  BY <1>1
<1>4. ToSet(Append(seq, x)) = ToSet(seq) \cup {x}
  BY <1>1, <1>2, <1>3 DEF ToSet
<1> QED BY <1>2, <1>4

LEMMA SendSpecInv == ASSUME CommandInv, NEW file \in File, SendSpec(file) PROVE CommandInv'
<1>1. /\ file \in FilesOf(arg) /\ file \notin ToSet(specsChan) /\ arg \in DOMAIN flags.args
      /\ specsChan' = Append(specsChan, file) /\ phase = "parse"
  BY DEF SendSpec, Parsing
<1>2. /\ specsChan' \in Seq(File) /\ ToSet(specsChan') = ToSet(specsChan) \cup {file}
  <2>1. specsChan \in Seq(File)
    BY DEF CommandInv, CommandTypes
  <2> QED BY <1>1, <2>1, Appended
<1> USE DEF SendSpec, command, validator, files
<1>3. CommandTypes'
  BY <1>2 DEF CommandInv, CommandTypes
<1>4. ChannelsInv'
  BY <1>1, <1>2 DEF CommandInv, ChannelsInv, Sent, FilesOf
<1>5. SpecsInv'
  BY DEF CommandInv, SpecsInv, ArgumentRead, FilesOf, ScenariosOf, HasAllButScenarios
<1>6. FormatInv'
  BY <1>1 DEF CommandInv, FormatInv
<1>7. SelectedInv'
  BY <1>1 DEF CommandInv, SelectedInv, HasAllButScenarios
<1>8. VerdictInv'
  BY <1>1 DEF CommandInv, VerdictInv, AllValid
<1> QED BY <1>3, <1>4, <1>5, <1>6, <1>7, <1>8 DEF CommandInv

LEMMA SendResultInv == ASSUME CommandInv, NEW file \in File, SendResult(file) PROVE CommandInv'
<1> DEFINE r == [file |-> file, about |-> file]
<1>1. /\ file \in ToSet(specsChan) /\ file \notin Sent /\ arg \in DOMAIN flags.args
      /\ resultsChan' = Append(resultsChan, r) /\ phase = "parse"
  BY DEF SendResult, Parsing
<1>2. /\ resultsChan' \in Seq([file : File, about : File]) /\ Len(resultsChan') = Len(resultsChan) + 1
      /\ ToSet(resultsChan') = ToSet(resultsChan) \cup {r}
  <2>1. resultsChan \in Seq([file : File, about : File]) /\ r \in [file : File, about : File]
    BY DEF CommandInv, CommandTypes
  <2> HIDE DEF r
  <2>2. /\ Append(resultsChan, r) \in Seq([file : File, about : File])
        /\ Len(Append(resultsChan, r)) = Len(resultsChan) + 1
        /\ ToSet(Append(resultsChan, r)) = ToSet(resultsChan) \cup {r}
    <3> DEFINE Results == [file : File, about : File]
    <3> HIDE DEF Results
    <3>1. resultsChan \in Seq(Results) /\ r \in Results
      BY <2>1 DEF Results
    <3>2. /\ Append(resultsChan, r) \in Seq(Results)
          /\ Len(Append(resultsChan, r)) = Len(resultsChan) + 1
          /\ ToSet(Append(resultsChan, r)) = ToSet(resultsChan) \cup {r}
      BY <3>1, Appended
    <3> QED BY <3>2 DEF Results
  <2> QED BY <1>1, <2>2
<1>3. Sent' = Sent \cup {file}
  <2>1. r.file = file
    OBVIOUS
  <2> HIDE DEF r
  <2>2. Sent' = {q.file : q \in ToSet(resultsChan) \cup {r}}
    BY <1>2 DEF Sent
  <2>3. {q.file : q \in ToSet(resultsChan) \cup {r}} = {q.file : q \in ToSet(resultsChan)} \cup {r.file}
    OBVIOUS
  <2> QED BY <2>1, <2>2, <2>3 DEF Sent
<1>4. Cardinality(Sent') = Cardinality(Sent) + 1
  <2>1. IsFiniteSet(Sent)
    <3>1. Sent \subseteq File
      <4>1. \A q \in ToSet(resultsChan) : q.file \in File
        <5>1. resultsChan \in Seq([file : File, about : File])
          BY DEF CommandInv, CommandTypes
        <5>2. DOMAIN resultsChan = 1..Len(resultsChan)
          BY <5>1, LenProperties
        <5>3. \A i \in 1..Len(resultsChan) : resultsChan[i] \in [file : File, about : File]
          BY <5>1, ElementOfSeq
        <5> QED BY <5>2, <5>3 DEF ToSet
      <4> QED BY <4>1 DEF Sent
    <3> QED BY <3>1, ContentsTypes, FS_Subset
  <2> QED BY <1>1, <1>3, <2>1, FS_AddElement
<1> HIDE DEF r
<1> USE DEF SendResult, command, validator, files
<1>5. CommandTypes'
  BY <1>2 DEF CommandInv, CommandTypes
<1>6. ChannelsInv'
  BY <1>1, <1>2, <1>3, <1>4 DEF CommandInv, ChannelsInv, FilesOf
<1>7. SpecsInv'
  BY DEF CommandInv, SpecsInv, ArgumentRead, FilesOf, ScenariosOf, HasAllButScenarios
<1>8. FormatInv'
  BY <1>1 DEF CommandInv, FormatInv
<1>9. SelectedInv'
  BY <1>1 DEF CommandInv, SelectedInv, HasAllButScenarios
<1>10. VerdictInv'
  BY <1>1 DEF CommandInv, VerdictInv, AllValid
<1> QED BY <1>5, <1>6, <1>7, <1>8, <1>9, <1>10 DEF CommandInv

\* When there are as many results as files, there is one of each.
LEMMA AllSent ==
  ASSUME CommandInv, arg \in DOMAIN flags.args, Finished
  PROVE  Sent = FilesOf(arg) /\ ToSet(specsChan) = FilesOf(arg)
<1>1. Sent \subseteq FilesOf(arg) /\ Sent \subseteq ToSet(specsChan) /\ ToSet(specsChan) \subseteq FilesOf(arg)
  BY DEF CommandInv, ChannelsInv
<1>2. Cardinality(Sent) = Cardinality(FilesOf(arg))
  BY DEF CommandInv, ChannelsInv, Finished
<1>3. IsFiniteSet(FilesOf(arg))
  BY FlagTypes DEF CommandInv, CommandTypes
<1>4. Sent = FilesOf(arg)
  BY <1>1, <1>2, <1>3, FS_Subset
<1> QED BY <1>1, <1>4

LEMMA NextArgumentInv == CommandInv /\ NextArgument => CommandInv'
<1> SUFFICES ASSUME CommandInv, NextArgument PROVE CommandInv'
  OBVIOUS
<1> DEFINE index == flags.args[arg].index
           more == FilterItems(Arrived, index)
<1>1. /\ arg \in DOMAIN flags.args /\ Finished /\ ~flags.format /\ Sent \cap broken = {} /\ phase = "parse"
      /\ specs' = specs \o more /\ arg' = arg + 1 /\ specsChan' = <<>> /\ resultsChan' = <<>>
  BY DEF NextArgument, Parsing
<1>2. flags \in Invocations /\ specsChan \in Seq(File) /\ specs \in Seq(Specification) /\ arg \in Nat \ {0}
  BY DEF CommandInv, CommandTypes
<1>3. Sent = FilesOf(arg) /\ ToSet(specsChan) = FilesOf(arg)
  BY <1>1, AllSent
<1>4. FilesOf(arg) \subseteq File /\ index \in Int /\ Len(flags.args) \in Nat /\ arg <= Len(flags.args)
  BY <1>1, <1>2, FlagTypes
<1>5. /\ Arrived \in Seq(Specification)
      /\ \A s : s \in ToSet(Arrived) <=> \E file \in FilesOf(arg) : s = Whole(file)
  <2>1. ToSet(specsChan) \ broken = FilesOf(arg)
    BY <1>1, <1>3
  <2> QED BY <1>2, <2>1, ArrivedElements
<1> HIDE DEF index
<1>6. /\ more \in Seq(Specification)
      /\ \A p \in ToSet(Arrived) : \A i \in p.items \cap ScenariosOf(p.file) :
            index \in {-1, ScenariosBefore(p.file, i)} =>
              \E s \in ToSet(more) : s.file = p.file /\ i \in s.items
      /\ \A s \in ToSet(more) : \E p \in ToSet(Arrived) :
            s.file = p.file /\ p.items \ ScenariosOf(p.file) \subseteq s.items
  BY <1>4, <1>5, FilteredElements
<1> HIDE DEF more
<1>7. specs' \in Seq(Specification) /\ ToSet(specs') = ToSet(specs) \cup ToSet(more)
  BY <1>1, <1>2, <1>6, Concatenated
<1> USE DEF NextArgument, command, validator, files
<1>8. CommandTypes'
  BY <1>1, <1>2, <1>4, <1>7, EmptyLists DEF CommandInv, CommandTypes
<1>9. ChannelsInv'
  <2>1. Sent' = {}
    BY <1>1, EmptyLists DEF Sent
  <2> QED BY <1>1, <2>1, EmptyLists, FS_EmptySet DEF ChannelsInv
<1>10. SpecsInv'
  <2>1. ASSUME NEW a \in 1..(arg - 1), ArgumentRead(a) PROVE ArgumentRead(a)'
    BY <2>1, <1>7 DEF ArgumentRead, FilesOf, ScenariosOf, ScenariosBefore
  <2>2. ASSUME NEW a, a = arg PROVE ArgumentRead(a)'
    <3>1. ASSUME NEW file \in FilesOf(arg), NEW i \in ScenariosOf(file), index \in {-1, ScenariosBefore(file, i)}
          PROVE  \E s \in ToSet(more) : s.file = file /\ i \in s.items
      <4>1. Whole(file) \in ToSet(Arrived) /\ Whole(file).file = file /\ Whole(file).items = DOMAIN Contents[file]
        BY <1>5 DEF Whole
      <4>2. i \in Whole(file).items \cap ScenariosOf(Whole(file).file)
        BY <4>1 DEF ScenariosOf
      <4> QED BY <3>1, <4>1, <4>2, <1>6
    <3> QED BY <3>1, <2>2, <1>1, <1>3, <1>7 DEF ArgumentRead, FilesOf, ScenariosOf, ScenariosBefore, index
  <2>3. \A a \in 1..(arg' - 1) : ArgumentRead(a)'
    <3>1. \A a \in 1..(arg' - 1) : a \in 1..(arg - 1) \/ a = arg
      BY <1>1, <1>2
    <3>2. \A a \in 1..(arg - 1) : ArgumentRead(a)
      BY <1>1 DEF CommandInv, SpecsInv
    <3> QED BY <2>1, <2>2, <3>1, <3>2
  <2>4. ASSUME NEW s \in ToSet(specs') PROVE HasAllButScenarios(s)'
    <3>1. CASE s \in ToSet(specs)
      BY <3>1 DEF CommandInv, SpecsInv, HasAllButScenarios, ScenariosOf
    <3>2. CASE s \in ToSet(more)
      <4>1. PICK p \in ToSet(Arrived) : s.file = p.file /\ p.items \ ScenariosOf(p.file) \subseteq s.items
        BY <3>2, <1>6
      <4>2. p.items = DOMAIN Contents[p.file]
        BY <1>5 DEF Whole
      <4> QED BY <4>1, <4>2 DEF HasAllButScenarios, ScenariosOf
    <3> QED BY <1>7, <3>1, <3>2
  <2> QED BY <2>3, <2>4 DEF SpecsInv
<1>11. FormatInv'
  BY <1>1 DEF FormatInv
<1>12. SelectedInv'
  BY <1>1 DEF CommandInv, SelectedInv, HasAllButScenarios
<1>13. VerdictInv'
  BY <1>1 DEF CommandInv, VerdictInv, AllValid
<1> QED BY <1>8, <1>9, <1>10, <1>11, <1>12, <1>13 DEF CommandInv
LEMMA ExitEarlyInv == CommandInv /\ (RejectConcepts \/ HandleParseResult) => CommandInv'
<1> SUFFICES ASSUME CommandInv, RejectConcepts \/ HandleParseResult PROVE CommandInv'
  OBVIOUS
<1>1. ~flags.format /\ phase' = "exit" /\ exitCode' = 1 /\ phase = "parse"
        /\ UNCHANGED <<command, parser, selected, validator, files>>
  BY DEF RejectConcepts, HandleParseResult, Exit, Parsing
<1> USE <1>1 DEF command, parser, validator, files
<1>2. CommandTypes'
  BY DEF CommandInv, CommandTypes
<1>3. ChannelsInv'
  BY DEF CommandInv, ChannelsInv, Sent, FilesOf
<1>4. SpecsInv'
  BY DEF CommandInv, SpecsInv, ArgumentRead, FilesOf, ScenariosOf, HasAllButScenarios
<1>5. FormatInv'
  BY DEF FormatInv
<1>6. SelectedInv'
  BY DEF CommandInv, SelectedInv, HasAllButScenarios
<1>7. VerdictInv'
  BY DEF CommandInv, VerdictInv, AllValid
<1> QED BY <1>2, <1>3, <1>4, <1>5, <1>6, <1>7 DEF CommandInv

\* The specifications that are written are of the files that parse, and no others.
LEMMA FormatSpecsInv == CommandInv /\ FormatSpecs => CommandInv'
<1> SUFFICES ASSUME CommandInv, FormatSpecs PROVE CommandInv'
  OBVIOUS
<1>1. /\ arg \in DOMAIN flags.args /\ Finished /\ flags.format /\ phase = "parse" /\ phase' = "format"
      /\ specs' = Arrived /\ UNCHANGED <<command, exitCode, arg, specsChan, resultsChan, selected, validator, files>>
  BY DEF FormatSpecs, Parsing, Goto
<1>2. arg = 1 /\ answers = {} /\ formatted \cup unformatted = {}
  BY <1>1 DEF CommandInv, FormatInv
<1>3. Sent = FilesOf(1) /\ ToSet(specsChan) = FilesOf(1)
  BY <1>1, <1>2, AllSent
<1>4. specsChan \in Seq(File)
  BY DEF CommandInv, CommandTypes
<1>5. /\ Arrived \in Seq(Specification)
      /\ \A s : s \in ToSet(Arrived) <=> \E file \in FilesOf(1) \ broken : s = Whole(file)
  BY <1>3, <1>4, ArrivedElements
<1> USE DEF command, validator, files
<1>6. CommandTypes'
  BY <1>1, <1>5 DEF CommandInv, CommandTypes
<1>7. ChannelsInv'
  BY <1>1 DEF CommandInv, ChannelsInv, Sent, FilesOf
<1>8. SpecsInv'
  <2>1. \A s \in ToSet(Arrived) : HasAllButScenarios(s)
    BY <1>5 DEF HasAllButScenarios, Whole
  <2>2. \A s \in ToSet(specs') : HasAllButScenarios(s)'
    BY <2>1, <1>1 DEF HasAllButScenarios, ScenariosOf
  <2> QED BY <1>1, <2>2 DEF SpecsInv
<1>9. FormatInv'
  <2>1. {s.file : s \in ToSet(Arrived)} = FilesOf(1) \ broken
    <3>1. \A file : Whole(file).file = file
      BY DEF Whole
    <3> QED BY <3>1, <1>5
  <2>2. Sent' = FilesOf(1)' /\ {s.file : s \in ToSet(specs')} = FilesOf(1)' \ broken'
    BY <1>1, <1>3, <2>1 DEF Sent, FilesOf
  <2> QED BY <1>1, <1>2, <2>2 DEF FormatInv
<1>10. SelectedInv'
  BY <1>1 DEF CommandInv, SelectedInv, HasAllButScenarios
<1>11. VerdictInv'
  BY <1>1 DEF CommandInv, VerdictInv, AllValid
<1> QED BY <1>6, <1>7, <1>8, <1>9, <1>10, <1>11 DEF CommandInv

LEMMA FormatAndSaveInv == CommandInv /\ FormatAndSave => CommandInv'
<1> SUFFICES ASSUME CommandInv, FormatAndSave PROVE CommandInv'
  OBVIOUS
<1>1. PICK file : file = specs[Position].file
  OBVIOUS
<1>2. /\ phase = "format" /\ Position \in DOMAIN specs
      /\ formatted' \cup unformatted' = formatted \cup unformatted \cup {file}
      /\ resultsChan' \in {resultsChan, [resultsChan EXCEPT ![Position].about = file]}
      /\ UNCHANGED <<command, phase, exitCode, arg, specsChan, specs, selected, validator>>
  BY <1>1 DEF FormatAndSave
<1>3. /\ flags.format /\ arg = 1 /\ answers = {} /\ Sent = FilesOf(1)
      /\ {s.file : s \in ToSet(specs)} = FilesOf(1) \ broken
      /\ formatted \cup unformatted \subseteq FilesOf(1) \ broken
  BY <1>2 DEF CommandInv, SelectedInv, FormatInv
<1>4. specs[Position] \in ToSet(specs)
  BY <1>2 DEF ToSet
<1>5. file \in FilesOf(1) \ broken
  BY <1>1, <1>3, <1>4
<1>6. file \in File
  <2>1. 1 \in DOMAIN flags.args
    BY <1>3, FlagTypes DEF CommandInv, CommandTypes
  <2> QED BY <1>5, <2>1, FlagTypes DEF CommandInv, CommandTypes
<1>7. /\ resultsChan' \in Seq([file : File, about : File]) /\ Len(resultsChan') = Len(resultsChan)
      /\ Sent' = Sent
  <2>1. resultsChan \in Seq([file : File, about : File])
    BY DEF CommandInv, CommandTypes
  <2>2. CASE resultsChan' = resultsChan
    BY <2>1, <2>2 DEF Sent
  <2>3. CASE resultsChan' # resultsChan
    <3>1. PICK k : k = Position
      OBVIOUS
    <3>2. Len(resultsChan) \in Nat /\ DOMAIN resultsChan = 1..Len(resultsChan)
            /\ \A i \in 1..Len(resultsChan) : resultsChan[i] \in [file : File, about : File]
      BY <2>1, LenProperties, ElementOfSeq
    <3>3. resultsChan' = [resultsChan EXCEPT ![k].about = file]
      BY <1>2, <2>3, <3>1
    <3>4. /\ DOMAIN resultsChan' = 1..Len(resultsChan)
          /\ \A i \in 1..Len(resultsChan) :
               resultsChan'[i] = IF i = k THEN [resultsChan[i] EXCEPT !.about = file] ELSE resultsChan[i]
          /\ resultsChan' = [i \in DOMAIN resultsChan' |-> resultsChan'[i]]
      BY <3>2, <3>3
    <3>5. \A i \in 1..Len(resultsChan) : resultsChan'[i] \in [file : File, about : File]
                                         /\ resultsChan'[i].file = resultsChan[i].file
      BY <1>6, <3>2, <3>4
    <3>6. resultsChan' \in Seq([file : File, about : File]) /\ Len(resultsChan') = Len(resultsChan)
      <4>1. resultsChan' \in [1..Len(resultsChan) -> [file : File, about : File]]
        BY <3>4, <3>5
      <4> QED BY <3>2, <4>1, FunctionIsSeq
    <3>7. Sent = {resultsChan[i].file : i \in 1..Len(resultsChan)}
      BY <3>2 DEF Sent, ToSet
    <3>8. Sent' = {resultsChan'[i].file : i \in 1..Len(resultsChan)}
      BY <3>4 DEF Sent, ToSet
    <3> QED BY <3>5, <3>6, <3>7, <3>8
  <2> QED BY <2>2, <2>3
<1> USE DEF command, validator, files
<1>8. CommandTypes'
  BY <1>2, <1>7 DEF CommandInv, CommandTypes
<1>9. ChannelsInv'
  BY <1>2, <1>7 DEF CommandInv, ChannelsInv, FilesOf
<1>10. SpecsInv'
  BY <1>2 DEF CommandInv, SpecsInv, ArgumentRead, FilesOf, ScenariosOf, HasAllButScenarios
<1>11. FormatInv'
  <2>1. FilesOf(1)' = FilesOf(1) /\ {s.file : s \in ToSet(specs')} = {s.file : s \in ToSet(specs)}
    BY <1>2 DEF FilesOf
  <2> QED BY <1>2, <1>3, <1>5, <1>7, <2>1 DEF FormatInv
<1>12. SelectedInv'
  BY <1>2 DEF CommandInv, SelectedInv, HasAllButScenarios
<1>13. VerdictInv'
  BY <1>2 DEF CommandInv, VerdictInv, AllValid
<1> QED BY <1>8, <1>9, <1>10, <1>11, <1>12, <1>13 DEF CommandInv

\* As many files have been dealt with as there are specifications, each of them one's file:
\* they are all of them.
LEMMA HandleFormatResultsInv == CommandInv /\ HandleFormatResults => CommandInv'
<1> SUFFICES ASSUME CommandInv, HandleFormatResults PROVE CommandInv'
  OBVIOUS
<1>1. /\ phase = "format" /\ Position \notin DOMAIN specs /\ phase' = "exit"
      /\ exitCode' = IF NotOk(resultsChan) = {} THEN 0 ELSE 1
      /\ UNCHANGED <<command, parser, selected, validator, files>>
  BY DEF HandleFormatResults, Exit
<1>2. /\ flags.format /\ arg = 1 /\ answers = {} /\ Sent = FilesOf(1)
      /\ {s.file : s \in ToSet(specs)} = FilesOf(1) \ broken
      /\ formatted \cup unformatted \subseteq FilesOf(1) \ broken
  BY <1>1 DEF CommandInv, SelectedInv, FormatInv
<1>3. formatted \cup unformatted = FilesOf(1) \ broken
  <2> DEFINE D == formatted \cup unformatted
             All == FilesOf(1) \ broken
  <2>1. Len(specs) \in Nat /\ DOMAIN specs = 1..Len(specs)
    <3>1. specs \in Seq(Specification)
      BY DEF CommandInv, CommandTypes
    <3> QED BY <3>1, LenProperties
  <2>2. All = {specs[i].file : i \in 1..Len(specs)}
    BY <1>2, <2>1 DEF ToSet
  <2>3. IsFiniteSet(1..Len(specs)) /\ Cardinality(1..Len(specs)) = Len(specs)
    <3>1. /\ IsFiniteSet(1..Len(specs))
          /\ Cardinality(1..Len(specs)) = IF 1 > Len(specs) THEN 0 ELSE Len(specs) - 1 + 1
      BY <2>1, FS_Interval
    <3> QED BY <2>1, <3>1
  <2>4. IsFiniteSet(All) /\ Cardinality(All) <= Len(specs)
    <3> DEFINE f == [i \in 1..Len(specs) |-> specs[i].file]
    <3>1. f \in Surjection(1..Len(specs), All)
      BY <2>2 DEF Surjection
    <3> QED BY <2>3, <3>1, FS_Surjection
  <2>5. D \subseteq All
    BY <1>2
  <2> HIDE DEF D, All
  <2>6. IsFiniteSet(D) /\ Cardinality(D) \in Nat /\ Cardinality(All) \in Nat /\ Cardinality(D) <= Cardinality(All)
          /\ (Cardinality(D) = Cardinality(All) => D = All)
    BY <2>4, <2>5, FS_Subset, FS_CardinalityType
  <2>7. Position = Cardinality(D) + 1
    BY DEF Position, D
  <2>8. Cardinality(D) >= Len(specs)
    BY <1>1, <2>1, <2>6, <2>7
  <2>9. D = All
    BY <2>1, <2>4, <2>6, <2>8
  <2> QED BY <2>9 DEF D, All
<1> USE <1>1 DEF command, parser, validator, files
<1>4. CommandTypes'
  BY DEF CommandInv, CommandTypes
<1>5. ChannelsInv'
  BY DEF CommandInv, ChannelsInv, Sent, FilesOf
<1>6. SpecsInv'
  BY DEF CommandInv, SpecsInv, ArgumentRead, FilesOf, ScenariosOf, HasAllButScenarios
<1>7. FormatInv'
  <2>1. FilesOf(1)' = FilesOf(1) /\ Sent' = Sent /\ {s.file : s \in ToSet(specs')} = {s.file : s \in ToSet(specs)}
          /\ NotOk(resultsChan') = NotOk(resultsChan) /\ NotOk(resultsChan)' = NotOk(resultsChan)
    BY DEF FilesOf, Sent, NotOk
  <2> QED BY <1>2, <1>3, <2>1 DEF FormatInv
<1>8. SelectedInv'
  BY <1>2 DEF CommandInv, SelectedInv, HasAllButScenarios
<1>9. VerdictInv'
  BY <1>2 DEF CommandInv, VerdictInv, AllValid
<1> QED BY <1>4, <1>5, <1>6, <1>7, <1>8, <1>9 DEF CommandInv
LEMMA SameTags == ASSUME flags' = flags, specs' = specs PROVE ByTags(specs)' = ByTags(specs)
BY DEF ByTags

LEMMA SelectSpecsInv == CommandInv /\ SelectSpecs => CommandInv'
<1> SUFFICES ASSUME CommandInv, SelectSpecs PROVE CommandInv'
  OBVIOUS
<1> DEFINE tagged == ByTags(specs)
<1>1. phase = "parse" /\ arg \notin DOMAIN flags.args /\ UNCHANGED <<command, parser, validator, files>>
  BY DEF SelectSpecs
<1>2. ~flags.format
  <2>1. flags.format => arg = 1 /\ Len(flags.args) = 1
    BY FlagTypes DEF CommandInv, CommandTypes, FormatInv
  <2>2. DOMAIN flags.args = 1..Len(flags.args)
    BY FlagTypes DEF CommandInv, CommandTypes
  <2> QED BY <1>1, <2>1, <2>2
<1>3. specs \in Seq(Specification) /\ flags \in Invocations /\ flags.group \in Int /\ flags.streams \in Int
  BY FlagTypes DEF CommandInv, CommandTypes
<1>4. tagged \in Seq(Specification) /\ (~flags.tagged => tagged = specs)
  BY <1>3, TaggedElements
<1>5. tagged' = tagged
  BY <1>1, SameTags DEF command, parser
<1> HIDE DEF tagged
<1>6. ASSUME selected' = selected, phase' \in {"crashed", "exit"},
             phase' = "crashed" => Panics(tagged), phase' = "exit" => exitCode' = 1
      PROVE  CommandInv'
  <2>1. phase' \in {"crashed", "exit"} /\ selected' = selected /\ (phase' = "exit" => exitCode' = 1)
    BY <1>6
  <2>2. phase' = "crashed" => flags.group > Len(tagged)
    <3>1. Len(tagged) \in Nat
      BY <1>4, LenProperties
    <3> QED BY <1>3, <1>6, <3>1 DEF Panics, GroupIsValid, Distributions
  <2> USE <1>1, <2>1 DEF command, parser, validator, files
  <2>3. CommandTypes'
    BY DEF CommandInv, CommandTypes
  <2>4. ChannelsInv'
    BY DEF CommandInv, ChannelsInv, Sent, FilesOf
  <2>5. SpecsInv'
    BY DEF CommandInv, SpecsInv, ArgumentRead, FilesOf, ScenariosOf, HasAllButScenarios
  <2>6. FormatInv'
    BY <1>2 DEF FormatInv
  <2>7. SelectedInv'
    <3>1. phase' = "crashed" => flags'.group > Len(tagged')
      BY <1>5, <2>2
    <3> QED BY <1>2, <3>1 DEF CommandInv, SelectedInv, HasAllButScenarios, tagged
  <2>8. VerdictInv'
    BY DEF CommandInv, VerdictInv, AllValid
  <2> QED BY <2>3, <2>4, <2>5, <2>6, <2>7, <2>8 DEF CommandInv
<1>7. ASSUME ~Panics(tagged), NEW chosenSpecs \in SortSpecsList(ByGroup(tagged)),
             /\ selected' = chosenSpecs
             /\ CASE chosenSpecs = <<>> -> Exit(0)
                  [] chosenSpecs # <<>> /\ flags.streams < 1 -> Exit(1)
                  [] OTHER -> Goto("start")
      PROVE  CommandInv'
  <2>1. /\ selected' = chosenSpecs
        /\ phase' \in {"exit", "start"}
        /\ phase' = "exit" /\ exitCode' = 0 => chosenSpecs = <<>>
        /\ phase' = "start" => chosenSpecs # <<>>
    BY <1>7 DEF Goto, Exit
  <2>2. /\ chosenSpecs \in Seq(Specification)
        /\ ToSet(chosenSpecs) \subseteq ToSet(tagged)
        /\ flags.group \in {-1} \cup 1..flags.streams /\ chosenSpecs = <<>> => tagged = <<>>
    BY <1>3, <1>4, <1>7, SelectedElements
  <2> USE <1>1, <2>1 DEF command, parser, validator, files
  <2>3. CommandTypes'
    BY <2>2 DEF CommandInv, CommandTypes
  <2>4. ChannelsInv'
    BY DEF CommandInv, ChannelsInv, Sent, FilesOf
  <2>5. SpecsInv'
    BY DEF CommandInv, SpecsInv, ArgumentRead, FilesOf, ScenariosOf, HasAllButScenarios
  <2>6. FormatInv'
    BY <1>2 DEF FormatInv
  <2>7. SelectedInv'
    <3>1. ~flags.tagged => \A s \in ToSet(chosenSpecs) : HasAllButScenarios(s)
      BY <1>4, <2>2 DEF CommandInv, SpecsInv
    <3>2. ~flags'.tagged => \A s \in ToSet(selected') : HasAllButScenarios(s)'
      BY <3>1 DEF HasAllButScenarios, ScenariosOf
    <3>3. phase' = "exit" /\ exitCode' = 0 =>
            (selected' = <<>> /\ flags'.group \in {-1} \cup 1..flags'.streams => tagged' = <<>>)
      BY <1>5, <2>2
    <3>4. tagged' = ByTags(specs)'
      BY DEF tagged
    <3> QED BY <1>2, <3>2, <3>3, <3>4 DEF SelectedInv
  <2>8. VerdictInv'
    BY DEF CommandInv, VerdictInv, AllValid
  <2> QED BY <2>3, <2>4, <2>5, <2>6, <2>7, <2>8 DEF CommandInv
<1>8. \/ Exit(1) /\ selected' = selected
      \/ Panics(tagged) /\ Goto("crashed") /\ selected' = selected
      \/ /\ ~Panics(tagged)
         /\ \E order \in SortSpecsList(ByGroup(tagged)) :
              /\ selected' = order
              /\ CASE order = <<>> -> Exit(0)
                   [] order # <<>> /\ flags.streams < 1 -> Exit(1)
                   [] OTHER -> Goto("start")
  BY DEF SelectSpecs, tagged
<1>9. CASE Exit(1) /\ selected' = selected
  BY <1>6, <1>9 DEF Exit
<1>10. CASE Panics(tagged) /\ Goto("crashed") /\ selected' = selected
  BY <1>6, <1>10 DEF Goto
<1> QED BY <1>7, <1>8, <1>9, <1>10

LEMMA StartAPIServiceInv == CommandInv /\ StartAPIService => CommandInv'
<1> SUFFICES ASSUME CommandInv, StartAPIService PROVE CommandInv'
  OBVIOUS
<1>1. /\ phase = "start" /\ phase' \in {"validate", "exit", "crashed"} /\ (phase' = "exit" => exitCode' = 1)
      /\ UNCHANGED <<command, parser, selected, cache, answers, errors, files>>
  BY DEF StartAPIService, Exit, Goto
<1>2. ~flags.format /\ selected # <<>> /\ arg \notin DOMAIN flags.args
  BY <1>1 DEF CommandInv, SelectedInv
<1> USE <1>1 DEF command, parser, files
<1>3. CommandTypes'
  BY DEF CommandInv, CommandTypes
<1>4. ChannelsInv'
  BY DEF CommandInv, ChannelsInv, Sent, FilesOf
<1>5. SpecsInv'
  BY DEF CommandInv, SpecsInv, ArgumentRead, FilesOf, ScenariosOf, HasAllButScenarios
<1>6. FormatInv'
  BY <1>2 DEF FormatInv
<1>7. SelectedInv'
  BY <1>2 DEF CommandInv, SelectedInv, HasAllButScenarios
<1>8. VerdictInv'
  BY DEF CommandInv, VerdictInv, AllValid
<1> QED BY <1>3, <1>4, <1>5, <1>6, <1>7, <1>8 DEF CommandInv

Validates == SkipKnown \/ EnterConcept \/ MarkNested \/ ValidateStep

LEMMA ValidatesInv == CommandInv /\ Validates => CommandInv'
<1> SUFFICES ASSUME CommandInv, Validates PROVE CommandInv'
  OBVIOUS
<1>1. phase = "validate" /\ UNCHANGED <<command, phase, exitCode, parser, selected, files>>
  BY DEF Validates, SkipKnown, EnterConcept, MarkNested, ValidateStep, Looks, UNCHANGEDbutValidator
<1>2. ~flags.format /\ selected # <<>> /\ arg \notin DOMAIN flags.args
  BY <1>1 DEF CommandInv, SelectedInv
<1>3. AllValid' \/ errors'
  <2>1. AllValid \/ errors
    BY DEF CommandInv, VerdictInv
  <2>2. CASE UNCHANGED <<answers, errors>>
    BY <2>1, <2>2 DEF AllValid
  <2>3. CASE ~UNCHANGED <<answers, errors>>
    <3>1. PICK isValid \in BOOLEAN : /\ answers' = answers \cup {[step |-> Entry.step, isValid |-> isValid]}
                                     /\ errors' = (errors \/ ~isValid)
      BY <2>3 DEF Validates, SkipKnown, EnterConcept, MarkNested, ValidateStep, ErrorsWith
    <3>2. CASE isValid = TRUE
      <4>1. CASE errors
        BY <3>1, <4>1
      <4>2. CASE AllValid
        <5>1. \A answer \in answers' : answer.isValid
          <6>1. \A answer \in answers : answer.isValid
            BY <4>2 DEF AllValid
          <6>2. [step |-> Entry.step, isValid |-> isValid].isValid
            BY <3>2
          <6> QED BY <3>1, <6>1, <6>2
        <5> QED BY <5>1 DEF AllValid
      <4> QED BY <2>1, <4>1, <4>2
    <3>3. CASE isValid = FALSE
      BY <3>1, <3>3
    <3> QED BY <3>2, <3>3
  <2> QED BY <2>2, <2>3
<1> USE <1>1 DEF command, parser, files
<1>4. CommandTypes'
  BY DEF CommandInv, CommandTypes
<1>5. ChannelsInv'
  BY DEF CommandInv, ChannelsInv, Sent, FilesOf
<1>6. SpecsInv'
  BY DEF CommandInv, SpecsInv, ArgumentRead, FilesOf, ScenariosOf, HasAllButScenarios
<1>7. FormatInv'
  BY <1>2 DEF FormatInv
<1>8. SelectedInv'
  BY <1>2 DEF CommandInv, SelectedInv, HasAllButScenarios
<1>9. VerdictInv'
  BY <1>3 DEF VerdictInv
<1> QED BY <1>4, <1>5, <1>6, <1>7, <1>8, <1>9 DEF CommandInv

LEMMA ExecutesInv == CommandInv /\ (EndValidation \/ Execute) => CommandInv'
<1> SUFFICES ASSUME CommandInv, EndValidation \/ Execute PROVE CommandInv'
  OBVIOUS
<1>1. /\ phase \in {"validate", "execute"} /\ phase' \in {"execute", "exit"}
      /\ phase' = "execute" => ~errors
      /\ phase' = "exit" /\ exitCode' = 0 => ~errors
      /\ UNCHANGED <<command, parser, selected, validator, files>>
  BY DEF EndValidation, Execute, Exit, Goto, CommandInv, VerdictInv
<1>2. ~flags.format /\ selected # <<>> /\ arg \notin DOMAIN flags.args
  BY <1>1 DEF CommandInv, SelectedInv
<1> USE <1>1 DEF command, parser, validator, files
<1>3. CommandTypes'
  BY DEF CommandInv, CommandTypes
<1>4. ChannelsInv'
  BY DEF CommandInv, ChannelsInv, Sent, FilesOf
<1>5. SpecsInv'
  BY DEF CommandInv, SpecsInv, ArgumentRead, FilesOf, ScenariosOf, HasAllButScenarios
<1>6. FormatInv'
  BY <1>2 DEF FormatInv
<1>7. SelectedInv'
  BY <1>2 DEF CommandInv, SelectedInv, HasAllButScenarios
<1>8. VerdictInv'
  BY DEF CommandInv, VerdictInv, AllValid
<1> QED BY <1>3, <1>4, <1>5, <1>6, <1>7, <1>8 DEF CommandInv

LEMMA CommandStep == CommandInv /\ [CommandNext]_commandVars => CommandInv'
<1> SUFFICES ASSUME CommandInv, [CommandNext]_commandVars PROVE CommandInv'
  OBVIOUS
<1>1. CASE UNCHANGED commandVars
  <2> USE <1>1 DEF commandVars, command, parser, validator, files
  <2>1. CommandTypes'
    BY DEF CommandInv, CommandTypes
  <2>2. ChannelsInv'
    BY DEF CommandInv, ChannelsInv, Sent, FilesOf
  <2>3. SpecsInv'
    BY DEF CommandInv, SpecsInv, ArgumentRead, FilesOf, ScenariosOf, HasAllButScenarios
  <2>4. FormatInv'
    BY DEF CommandInv, FormatInv, Sent, FilesOf, NotOk
  <2>5. SelectedInv'
    BY SameTags DEF CommandInv, SelectedInv, HasAllButScenarios
  <2>6. VerdictInv'
    BY DEF CommandInv, VerdictInv, AllValid
  <2> QED BY <2>1, <2>2, <2>3, <2>4, <2>5, <2>6 DEF CommandInv
<1> QED
  BY <1>1, AgainInv, SendSpecInv, SendResultInv, NextArgumentInv, ExitEarlyInv, FormatSpecsInv, FormatAndSaveInv,
     HandleFormatResultsInv, SelectSpecsInv, StartAPIServiceInv, ValidatesInv, ExecutesInv
     DEF CommandNext, Validates

LEMMA InvSuffices == CommandInv => OutcomeMeant
<1> SUFFICES ASSUME CommandInv PROVE OutcomeMeant
  OBVIOUS
<1>1. /\ Len(flags.args) \in Nat /\ DOMAIN flags.args = 1..Len(flags.args) /\ flags \in Invocations
      /\ specs \in Seq(Specification)
      /\ flags.format => Len(flags.args) = 1
  BY FlagTypes DEF CommandInv, CommandTypes
<1>2. flags.format => Named = FilesOf(1)
  <2> SUFFICES ASSUME flags.format PROVE Named = FilesOf(1)
    OBVIOUS
  <2>1. DOMAIN flags.args = {1}
    <3>1. Len(flags.args) = 1 /\ 1..1 = {1}
      BY <1>1
    <3> QED BY <1>1, <3>1
  <2> QED BY <2>1 DEF Named
<1>3. NotOk(resultsChan) = {} <=> Sent \cap broken = {}
  BY DEF NotOk, Sent, ToSet
<1>4. ASSUME phase = "exit", flags.format
      PROVE  /\ formatted \cup unformatted = Named \ broken
             /\ exitCode = IF Named \cap broken = {} THEN 0 ELSE 1
  BY <1>2, <1>3, <1>4 DEF CommandInv, FormatInv
<1>5. ASSUME phase = "exit", exitCode = 0, ~flags.format
      PROVE  \A a \in DOMAIN flags.args : ArgumentRead(a)
  <2>1. arg \notin DOMAIN flags.args
    BY <1>5 DEF CommandInv, SelectedInv
  <2>2. arg = Len(flags.args) + 1
    <3>1. arg \in Nat \ {0} /\ arg <= Len(flags.args) + 1
      BY DEF CommandInv, CommandTypes
    <3>2. arg \notin 1..Len(flags.args)
      BY <1>1, <2>1
    <3> QED BY <1>1, <3>1, <3>2
  <2>3. DOMAIN flags.args = 1..(arg - 1)
    BY <1>1, <2>2
  <2> QED BY <1>5, <2>3 DEF CommandInv, SpecsInv
<1>6. ASSUME phase = "exit", exitCode = 0 PROVE Named \cap broken = {}
  <2>1. CASE flags.format
    BY <1>4, <1>6, <2>1
  <2>2. CASE ~flags.format
    BY <1>5, <1>6, <2>2 DEF Named, ArgumentRead
  <2> QED BY <2>1, <2>2
<1>7. ASSUME phase = "exit", exitCode = 0, ~flags.format, selected = <<>>,
             flags.group \in {-1} \cup 1..flags.streams,
             NEW a \in DOMAIN flags.args, NEW file \in File, NEW i \in ScenariosOf(file)
      PROVE  ~Wanted(a, file, i)
  <2> SUFFICES ASSUME Wanted(a, file, i) PROVE FALSE
    OBVIOUS
  <2>1. ByTags(specs) = <<>>
    BY <1>7 DEF CommandInv, SelectedInv
  <2>2. PICK s \in ToSet(specs) : s.file = file /\ i \in s.items
    BY <1>5, <1>7 DEF ArgumentRead, Wanted
  <2>3. \E t \in ToSet(ByTags(specs)) : t.file = file /\ i \in t.items
    <3>1. i \in s.items \cap ScenariosOf(s.file) /\ (flags.tagged => Contents[s.file][i].qualifies)
      BY <1>7, <2>2 DEF Wanted
    <3> QED BY <1>1, <2>2, <3>1, TaggedElements
  <2> QED BY <2>1, <2>3, EmptyLists
<1>8. phase = "exit" /\ exitCode = 0 => AllValid
  BY DEF CommandInv, VerdictInv
<1>9. phase = "crashed" => flags.group > Len(ByTags(specs)) \/ selected # <<>>
  BY DEF CommandInv, SelectedInv
<1>10. phase = "exit" /\ flags.format /\ exitCode = 1 => Named \cap broken # {}
  BY <1>4
<1>11. phase = "exit" /\ exitCode = 0 /\ flags.format => formatted \cup unformatted = Named
  BY <1>4, <1>6
<1> QED BY <1>6, <1>7, <1>8, <1>9, <1>10, <1>11 DEF OutcomeMeant

LEMMA CommandInitInv == CommandInit => CommandInv
<1>1. CommandInit => Fresh
  BY DEF CommandInit, Fresh
<1> QED BY <1>1, FreshInv

\* Whatever is in the files, however many are named and in whatever order their parsers
\* finish, a command that succeeds has read them all and knows of no invalid step, or had
\* nothing to do; one that formats fails only for a file that does not parse.
THEOREM OutcomeSound == CommandSpec => []OutcomeMeant
BY CommandInitInv, CommandStep, InvSuffices, PTL DEF CommandSpec
-----------------------------------------------------------------------------
(* Command line: what the validator asks.                                  *)

\* A step that a validated concept has, at whatever depth.
Inside(s) == \E c \in ValidatedSteps : IsConcept(c) /\ s \in Below(c)

Asked(s) == \E isValid \in BOOLEAN : [step |-> s, isValid |-> isValid] \in answers

Plain(s) == [step |-> s, nested |-> FALSE]

Traversable ==
  {e \in [step : ValidatedSteps \cup ConceptsSteps, nested : BOOLEAN] :
     IF e.nested THEN Inside(e.step) ELSE e.step \in ValidatedSteps}

\* A step that was marked was asked about, or is in a concept; every other is still to come.
AskedInv ==
  /\ phase \in {"parse", "format", "start"} => cache = {}
  /\ phase = "validate" =>
       /\ toValidate \in Seq(Traversable)
       /\ \A s \in ValidatedSteps : IsConcept(s) \/ s \in cache \/ Plain(s) \in ToSet(toValidate)
       /\ \A s \in cache : IsConcept(s) \/ Asked(s) \/ Inside(s)
  /\ phase = "execute" => \A s \in ValidatedSteps : IsConcept(s) \/ Asked(s) \/ Inside(s)

\* What the validator has to look at for some steps.
EntriesFor(steps, nested) == {[step |-> s, nested |-> nested] : s \in ToSet(steps)}

LEMMA EntriesElements ==
  ASSUME NEW X, NEW steps \in Seq(X), NEW nested
  PROVE  /\ Entries(steps, nested) \in Seq(EntriesFor(steps, nested))
         /\ ToSet(Entries(steps, nested)) = EntriesFor(steps, nested)
<1> DEFINE made == {[step |-> s, nested |-> nested] : s \in ToSet(steps)}
           es == Entries(steps, nested)
<1>1. Len(steps) \in Nat /\ DOMAIN steps = 1..Len(steps)
  BY LenProperties
<1>2. es = [i \in 1..Len(steps) |-> [step |-> steps[i], nested |-> nested]]
  BY <1>1 DEF Entries
<1>3. \A i \in 1..Len(steps) : [step |-> steps[i], nested |-> nested] \in made
  BY <1>1 DEF ToSet
<1>4. es \in [1..Len(steps) -> made]
  <2> HIDE DEF made, es
  <2> QED BY <1>2, <1>3
<1>5. es \in Seq(made)
  <2> HIDE DEF made, es
  <2> QED BY <1>1, <1>4, FunctionIsSeq
<1>6. ToSet(es) = made
  <2>1. ToSet(steps) = {steps[i] : i \in 1..Len(steps)}
    BY <1>1 DEF ToSet
  <2>2. made = {[step |-> steps[i], nested |-> nested] : i \in 1..Len(steps)}
    BY <2>1
  <2>3. DOMAIN es = 1..Len(steps) /\ \A i \in 1..Len(steps) : es[i] = [step |-> steps[i], nested |-> nested]
    BY <1>2
  <2> HIDE DEF es, made
  <2>4. ToSet(es) = {es[i] : i \in 1..Len(steps)}
    BY <2>3 DEF ToSet
  <2> QED BY <2>2, <2>3, <2>4
<1> QED BY <1>5, <1>6 DEF EntriesFor

LEMMA TraversedElements ==
  ASSUME NEW spec \in Specification
  PROVE  /\ Traversed(spec) \in Seq({Plain(s) : s \in StepsAt(spec, spec.items)})
         /\ ToSet(Traversed(spec)) = {Plain(s) : s \in StepsAt(spec, spec.items)}
<1> DEFINE file == spec.file
           n == Len(Contents[file])
           here == {Plain(s) : s \in StepsAt(spec, spec.items)}
           ss == [i \in DOMAIN Contents[file] |->
                   IF i \in spec.items THEN Entries(StepsOf(file, i), FALSE) ELSE <<>>]
<1>1. file \in File /\ spec.items \subseteq DOMAIN Contents[file]
  BY DEF Specification
<1>2. n \in Nat /\ DOMAIN Contents[file] = 1..n
  BY <1>1, CommandAssumption, LenProperties
<1>3. ASSUME NEW i \in 1..n PROVE \E X : StepsOf(file, i) \in Seq(X)
  <2>1. CASE Contents[file][i].kind = "other"
    <3>1. StepsOf(file, i) = <<>>
      BY <2>1 DEF StepsOf
    <3> QED BY <3>1, EmptyLists
  <2>2. CASE Contents[file][i].kind # "other"
    <3>1. Contents[file][i].steps \in Seq(Range(Contents[file][i].steps))
      BY <1>1, <1>2, <2>2, CommandAssumption
    <3> QED BY <2>2, <3>1 DEF StepsOf
  <2> QED BY <2>1, <2>2
<1>4. ASSUME NEW i \in 1..n
      PROVE  ss[i] \in Seq(here)
               /\ \A x : x \in ToSet(ss[i]) <=> i \in spec.items /\ \E s \in ToSet(StepsOf(file, i)) : x = Plain(s)
  <2>1. CASE i \notin spec.items
    <3>1. ss[i] = <<>>
      BY <1>2, <2>1
    <3> QED BY <2>1, <3>1, EmptyLists
  <2>2. CASE i \in spec.items
    <3> DEFINE made == {[step |-> s, nested |-> FALSE] : s \in ToSet(StepsOf(file, i))}
    <3>1. ss[i] = Entries(StepsOf(file, i), FALSE)
      BY <1>2, <2>2
    <3>2. Entries(StepsOf(file, i), FALSE) \in Seq(made) /\ ToSet(Entries(StepsOf(file, i), FALSE)) = made
      BY <1>3, EntriesElements DEF EntriesFor
    <3>3. ToSet(StepsOf(file, i)) \subseteq StepsAt(spec, spec.items)
      BY <2>2 DEF StepsAt
    <3>4. made \subseteq here
      BY <3>3 DEF Plain
    <3>5. \A x : x \in made <=> \E s \in ToSet(StepsOf(file, i)) : x = Plain(s)
      BY DEF Plain
    <3> HIDE DEF made, here, ss
    <3>6. Entries(StepsOf(file, i), FALSE) \in Seq(here)
      <4>1. Entries(StepsOf(file, i), FALSE) \in Seq(made)
        BY <3>2
      <4> QED BY <3>4, <4>1, WiderSeq
    <3>7. ss[i] \in Seq(here)
      BY <3>1, <3>6
    <3> QED BY <2>2, <3>1, <3>2, <3>5, <3>7
  <2> QED BY <2>1, <2>2
<1>5. Traversed(spec) = FlattenSeq(ss)
  BY DEF Traversed
<1>6. ss \in [1..n -> Seq(here)]
  <2>1. DOMAIN ss = 1..n /\ ss = [i \in DOMAIN ss |-> ss[i]]
    BY <1>2
  <2> HIDE DEF ss, here, n
  <2> QED BY <2>1, <1>4
<1> HIDE DEF ss, n
<1>7. FlattenSeq(ss) \in Seq(here) /\ \A x : x \in ToSet(FlattenSeq(ss)) <=> \E i \in 1..n : x \in ToSet(ss[i])
  <2> HIDE DEF here
  <2> QED BY <1>2, <1>6, FlattenSeqElements
<1>8. \A x : x \in here <=> \E i \in spec.items : \E s \in ToSet(StepsOf(file, i)) : x = Plain(s)
  BY DEF StepsAt
<1>9. ASSUME NEW x PROVE x \in ToSet(FlattenSeq(ss)) <=> x \in here
  <2> HIDE DEF here
  <2>1. ASSUME x \in ToSet(FlattenSeq(ss)) PROVE x \in here
    <3>1. PICK i \in 1..n : x \in ToSet(ss[i])
      BY <2>1, <1>7
    <3> QED BY <3>1, <1>4, <1>8
  <2>2. ASSUME x \in here PROVE x \in ToSet(FlattenSeq(ss))
    <3>1. PICK i \in spec.items : \E s \in ToSet(StepsOf(file, i)) : x = Plain(s)
      BY <2>2, <1>8
    <3>2. i \in 1..n
      BY <1>1, <1>2
    <3>3. x \in ToSet(ss[i])
      BY <3>1, <3>2, <1>4
    <3> QED BY <3>2, <3>3, <1>7
  <2> QED BY <2>1, <2>2
<1> QED BY <1>5, <1>7, <1>9

\* A list that is not empty is its head and the rest.
LEMMA HeadAndTail ==
  ASSUME NEW S, NEW seq \in Seq(S), seq # <<>>
  PROVE  Head(seq) \in S /\ Tail(seq) \in Seq(S) /\ ToSet(seq) = {Head(seq)} \cup ToSet(Tail(seq))
<1>1. /\ Head(seq) \in S /\ Tail(seq) \in Seq(S) /\ Len(Tail(seq)) = Len(seq) - 1
      /\ Head(seq) = seq[1] /\ \A i \in 1..Len(Tail(seq)) : Tail(seq)[i] = seq[i + 1]
  BY HeadTailProperties
<1>2. /\ Len(seq) \in Nat \ {0} /\ DOMAIN seq = 1..Len(seq) /\ DOMAIN Tail(seq) = 1..(Len(seq) - 1)
  BY <1>1, LenProperties, EmptySeq
<1>3. \A i \in 1..Len(seq) : i = 1 \/ (i - 1 \in 1..(Len(seq) - 1) /\ (i - 1) + 1 = i)
  BY <1>2
<1>4. \A i \in 1..(Len(seq) - 1) : i + 1 \in 1..Len(seq)
  BY <1>2
<1>5. 1 \in 1..Len(seq)
  BY <1>2
<1>6. ASSUME NEW x \in ToSet(seq) PROVE x \in {Head(seq)} \cup ToSet(Tail(seq))
  <2>1. PICK i \in 1..Len(seq) : x = seq[i]
    BY <1>2 DEF ToSet
  <2>2. CASE i = 1
    BY <1>1, <2>1, <2>2
  <2>3. CASE i # 1
    <3>1. i - 1 \in 1..(Len(seq) - 1) /\ Tail(seq)[i - 1] = x
      BY <1>1, <1>3, <2>1, <2>3
    <3> QED BY <3>1, <1>2 DEF ToSet
  <2> QED BY <2>2, <2>3
<1>7. ASSUME NEW x \in ToSet(Tail(seq)) PROVE x \in ToSet(seq)
  <2>1. PICK i \in 1..(Len(seq) - 1) : x = Tail(seq)[i]
    BY <1>2 DEF ToSet
  <2>2. x = seq[i + 1] /\ i + 1 \in 1..Len(seq)
    BY <1>1, <1>4, <2>1
  <2> QED BY <2>2, <1>2 DEF ToSet
<1>8. Head(seq) \in ToSet(seq)
  BY <1>1, <1>2, <1>5 DEF ToSet
<1> QED BY <1>1, <1>6, <1>7, <1>8
\* The steps of a concept are below it, and below what it is below.
LEMMA StepsBelow ==
  ASSUME NEW c \in DOMAIN ConceptSteps, NEW s \in ToSet(ConceptSteps[c])
  PROVE  /\ s \in ConceptsSteps /\ s \in Below(c)
         /\ \A d : c \in Below(d) => s \in Below(d)
<1>1. s \in ConceptsSteps
  BY DEF ConceptsSteps
<1>2. s \in Below(c)
  BY <1>1 DEF Below, IsConcept
<1>3. ASSUME NEW d, c \in Below(d) PROVE s \in Below(d)
  <2> SUFFICES ASSUME NEW T \in SUBSET ConceptsSteps,
                      \A b \in {d} \cup T : IsConcept(b) => ToSet(ConceptSteps[b]) \subseteq T
               PROVE  s \in T
    BY <1>1 DEF Below
  <2>1. c \in T
    BY <1>3 DEF Below
  <2> QED BY <2>1 DEF IsConcept
<1> QED BY <1>1, <1>2, <1>3

LEMMA SameSteps ==
  ASSUME selected' = selected
  PROVE  ValidatedSteps' = ValidatedSteps /\ (\A s : Inside(s)' <=> Inside(s)) /\ Traversable' = Traversable
<1>1. ValidatedSteps' = ValidatedSteps
  BY DEF ValidatedSteps, StepsAt
<1>2. \A s : Inside(s)' <=> Inside(s)
  BY <1>1 DEF Inside
<1>3. Traversable' = Traversable
  BY <1>1, <1>2 DEF Traversable
<1> QED BY <1>1, <1>2, <1>3

LEMMA StartAPIServiceAsked == CommandInv /\ AskedInv /\ StartAPIService => AskedInv'
<1> SUFFICES ASSUME CommandInv, AskedInv, StartAPIService PROVE AskedInv'
  OBVIOUS
<1>1. /\ phase = "start" /\ phase' \in {"validate", "exit", "crashed"} /\ selected' = selected
      /\ cache' = cache /\ answers' = answers
      /\ phase' = "validate" => toValidate' = FlattenSeq([i \in DOMAIN selected |-> Traversed(selected[i])])
  BY DEF StartAPIService, Exit, Goto, command
<1>2. cache' = {}
  BY <1>1 DEF AskedInv
<1>3. CASE phase' = "validate"
  <2> DEFINE ss == [i \in DOMAIN selected |-> Traversed(selected[i])]
             all == {Plain(s) : s \in ValidatedSteps}
  <2>1. /\ Len(selected) \in Nat /\ DOMAIN selected = 1..Len(selected)
        /\ \A i \in 1..Len(selected) : selected[i] \in Specification
    <3>1. selected \in Seq(Specification)
      BY DEF CommandInv, CommandTypes
    <3> QED BY <3>1, LenProperties, ElementOfSeq
  <2>2. ASSUME NEW i \in 1..Len(selected)
        PROVE  /\ ss[i] \in Seq(all)
               /\ \A x : x \in ToSet(ss[i]) <=> \E s \in StepsAt(selected[i], selected[i].items) : x = Plain(s)
    <3> DEFINE made == {Plain(s) : s \in StepsAt(selected[i], selected[i].items)}
    <3>1. ss[i] = Traversed(selected[i])
      BY <2>1
    <3>2. Traversed(selected[i]) \in Seq(made) /\ ToSet(Traversed(selected[i])) = made
      BY <2>1, TraversedElements
    <3>3. made \subseteq all
      BY <2>1 DEF ValidatedSteps, ToSet
    <3>4. \A x : x \in made <=> \E s \in StepsAt(selected[i], selected[i].items) : x = Plain(s)
      OBVIOUS
    <3> HIDE DEF made, all, ss
    <3>5. ss[i] \in Seq(all)
      BY <3>1, <3>2, <3>3, WiderSeq
    <3> QED BY <3>1, <3>2, <3>4, <3>5
  <2>3. ss \in [1..Len(selected) -> Seq(all)]
    <3>1. DOMAIN ss = 1..Len(selected) /\ ss = [i \in DOMAIN ss |-> ss[i]]
      BY <2>1
    <3> HIDE DEF ss, all
    <3> QED BY <3>1, <2>2
  <2>4. toValidate' = FlattenSeq(ss)
    BY <1>1, <1>3
  <2>5. all \subseteq Traversable
    <3> SUFFICES ASSUME NEW s \in ValidatedSteps PROVE Plain(s) \in Traversable
      OBVIOUS
    <3>1. Plain(s).step = s /\ Plain(s).nested = FALSE
            /\ Plain(s) \in [step : ValidatedSteps \cup ConceptsSteps, nested : BOOLEAN]
      BY DEF Plain
    <3> QED BY <3>1 DEF Traversable
  <2> HIDE DEF ss
  <2>6. /\ FlattenSeq(ss) \in Seq(all)
        /\ \A x : x \in ToSet(FlattenSeq(ss)) <=> \E i \in 1..Len(selected) : x \in ToSet(ss[i])
    <3> HIDE DEF all
    <3> QED BY <2>1, <2>3, FlattenSeqElements
  <2>7. toValidate' \in Seq(Traversable)
    <3> HIDE DEF all
    <3> QED BY <2>4, <2>5, <2>6, WiderSeq
  <2>8. ASSUME NEW s \in ValidatedSteps PROVE Plain(s) \in ToSet(toValidate')
    <3>1. PICK spec \in ToSet(selected) : s \in StepsAt(spec, spec.items)
      BY DEF ValidatedSteps
    <3>2. PICK i \in 1..Len(selected) : spec = selected[i]
      BY <2>1 DEF ToSet
    <3>3. Plain(s) \in ToSet(ss[i])
      BY <2>2, <3>1, <3>2
    <3> QED BY <2>4, <2>6, <3>3
  <2>9. toValidate' \in Seq(Traversable') /\ \A s \in ValidatedSteps' : Plain(s) \in ToSet(toValidate')
    BY <1>1, <2>7, <2>8, SameSteps
  <2> QED BY <1>2, <1>3, <2>9 DEF AskedInv, Plain
<1>4. CASE phase' \in {"exit", "crashed"}
  BY <1>4 DEF AskedInv
<1> QED BY <1>1, <1>3, <1>4

LEMMA ValidatesAsked == CommandInv /\ AskedInv /\ Validates => AskedInv'
<1> SUFFICES ASSUME AskedInv, Validates PROVE AskedInv'
  OBVIOUS
<1>1. phase = "validate" /\ phase' = "validate" /\ selected' = selected /\ toValidate # <<>>
  BY DEF Validates, SkipKnown, EnterConcept, MarkNested, ValidateStep, Looks, UNCHANGEDbutValidator
<1>2. /\ toValidate \in Seq(Traversable)
      /\ \A s \in ValidatedSteps : IsConcept(s) \/ s \in cache \/ Plain(s) \in ToSet(toValidate)
      /\ \A s \in cache : IsConcept(s) \/ Asked(s) \/ Inside(s)
  BY <1>1 DEF AskedInv
<1>3. Entry \in Traversable /\ Tail(toValidate) \in Seq(Traversable) /\ ToSet(toValidate) = {Entry} \cup ToSet(Tail(toValidate))
  BY <1>1, <1>2, HeadAndTail DEF Entry
<1>4. /\ Entry.nested \in BOOLEAN /\ (Entry.nested => Inside(Entry.step))
      /\ (~Entry.nested => Entry.step \in ValidatedSteps)
      /\ Entry.step \in ValidatedSteps \cup ConceptsSteps
  BY <1>3 DEF Traversable
<1>5. \A s : Plain(s) = Entry => s = Entry.step /\ ~Entry.nested
  BY DEF Plain
<1>6. ASSUME toValidate' \in Seq(Traversable), ToSet(Tail(toValidate)) \subseteq ToSet(toValidate'),
             cache \subseteq cache', answers \subseteq answers',
             IsConcept(Entry.step) \/ Entry.step \in cache' \/ Entry.nested,
             \A s \in cache' \ cache : IsConcept(s) \/ Asked(s)' \/ Inside(s)
      PROVE  AskedInv'
  <2>1. \A s : Asked(s) => Asked(s)'
    BY <1>6 DEF Asked
  <2>2. \A s \in ValidatedSteps : IsConcept(s) \/ s \in cache' \/ Plain(s) \in ToSet(toValidate')
    <3> SUFFICES ASSUME NEW s \in ValidatedSteps, ~IsConcept(s), s \notin cache'
                 PROVE  Plain(s) \in ToSet(toValidate')
      OBVIOUS
    <3>1. Plain(s) \in ToSet(toValidate)
      BY <1>2, <1>6
    <3>2. Plain(s) # Entry
      BY <1>5, <1>6
    <3> QED BY <1>3, <1>6, <3>1, <3>2
  <2>3. \A s \in cache' : IsConcept(s) \/ Asked(s)' \/ Inside(s)
    BY <1>2, <1>6, <2>1
  <2>4. /\ toValidate' \in Seq(Traversable')
        /\ \A s \in ValidatedSteps' : IsConcept(s) \/ s \in cache' \/ Plain(s) \in ToSet(toValidate')
        /\ \A s \in cache' : IsConcept(s) \/ Asked(s)' \/ Inside(s)'
    BY <1>1, <1>6, <2>2, <2>3, SameSteps
  <2> QED BY <1>1, <2>4 DEF AskedInv, IsConcept, Plain
<1>7. CASE SkipKnown
  <2>1. toValidate' = Tail(toValidate) /\ cache' = cache /\ answers' = answers /\ Entry.step \in cache
    BY <1>7 DEF SkipKnown, Known
  <2> QED BY <1>3, <1>6, <2>1
<1>8. CASE EnterConcept
  <2> DEFINE nested == Entries(ConceptSteps[Entry.step], TRUE)
  <2>1. /\ toValidate' = nested \o Tail(toValidate) /\ answers' = answers /\ IsConcept(Entry.step)
        /\ cache' \in {cache, cache \cup {Entry.step}}
    BY <1>8 DEF EnterConcept
  <2>2. Entry.step \in DOMAIN ConceptSteps
    BY <2>1 DEF IsConcept
  <2>3. \A s \in ToSet(ConceptSteps[Entry.step]) : Inside(s) /\ s \in ConceptsSteps
    <3> SUFFICES ASSUME NEW s \in ToSet(ConceptSteps[Entry.step]) PROVE Inside(s) /\ s \in ConceptsSteps
      OBVIOUS
    <3>1. s \in ConceptsSteps /\ s \in Below(Entry.step) /\ \A d : Entry.step \in Below(d) => s \in Below(d)
      BY <2>2, StepsBelow
    <3>2. CASE Entry.nested
      <4>1. PICK d \in ValidatedSteps : IsConcept(d) /\ Entry.step \in Below(d)
        BY <1>4, <3>2 DEF Inside
      <4> QED BY <3>1, <4>1 DEF Inside
    <3>3. CASE ~Entry.nested
      BY <1>4, <2>1, <3>1, <3>3 DEF Inside
    <3> QED BY <3>2, <3>3
  <2>4. nested \in Seq(Traversable)
    <3> DEFINE made == {[step |-> s, nested |-> TRUE] : s \in ToSet(ConceptSteps[Entry.step])}
    <3>1. ConceptSteps[Entry.step] \in Seq(Range(ConceptSteps[Entry.step]))
      BY <2>2, CommandAssumption
    <3>2. nested \in Seq(made)
      <4>1. PICK steps, X : steps = ConceptSteps[Entry.step] /\ steps \in Seq(X)
        BY <3>1
      <4>2. steps \in Seq(X)
        BY <4>1
      <4>3. Entries(steps, TRUE) \in Seq(EntriesFor(steps, TRUE))
        BY <4>2, EntriesElements
      <4>4. EntriesFor(steps, TRUE) = made
        BY <4>1 DEF EntriesFor
      <4> QED BY <4>1, <4>3, <4>4
    <3>3. made \subseteq Traversable
      <4> SUFFICES ASSUME NEW s \in ToSet(ConceptSteps[Entry.step])
                   PROVE  [step |-> s, nested |-> TRUE] \in Traversable
        OBVIOUS
      <4> DEFINE e == [step |-> s, nested |-> TRUE]
      <4>1. e.step = s /\ e.nested = TRUE /\ e \in [step : ValidatedSteps \cup ConceptsSteps, nested : BOOLEAN]
        BY <2>3
      <4>2. Inside(e.step)
        BY <2>3, <4>1
      <4> HIDE DEF e
      <4>3. e \in Traversable
        BY <4>1, <4>2 DEF Traversable
      <4> QED BY <4>3 DEF e
    <3> HIDE DEF made, nested
    <3> QED BY <3>2, <3>3, WiderSeq
  <2> HIDE DEF nested
  <2>5. nested \o Tail(toValidate) \in Seq(Traversable)
          /\ ToSet(nested \o Tail(toValidate)) = ToSet(nested) \cup ToSet(Tail(toValidate))
    <3>1. Tail(toValidate) \in Seq(Traversable)
      BY <1>3
    <3> DEFINE T == Traversable
               rest == Tail(toValidate)
    <3>2. nested \in Seq(T) /\ rest \in Seq(T)
      BY ONLY <2>4, <3>1
    <3> HIDE DEF T, rest
    <3>3. nested \o rest \in Seq(T) /\ ToSet(nested \o rest) = ToSet(nested) \cup ToSet(rest)
      BY <3>2, Concatenated
    <3> QED BY <3>3 DEF T, rest
  <2>6. \A s \in cache' \ cache : IsConcept(s)
    BY <2>1
  <2> QED BY <1>6, <2>1, <2>5, <2>6
<1>9. CASE MarkNested
  <2>1. toValidate' = Tail(toValidate) /\ cache' = cache \cup {Entry.step} /\ answers' = answers /\ Entry.nested
    BY <1>9 DEF MarkNested
  <2>2. \A s \in cache' \ cache : Inside(s)
    BY <1>4, <2>1
  <2> QED BY <1>3, <1>6, <2>1, <2>2
<1>10. CASE ValidateStep
  <2>1. toValidate' = Tail(toValidate) /\ cache' = cache \cup {Entry.step}
    BY <1>10 DEF ValidateStep
  <2>2. PICK isValid \in BOOLEAN : answers' = answers \cup {[step |-> Entry.step, isValid |-> isValid]}
    BY <1>10 DEF ValidateStep
  <2>3. \A s \in cache' \ cache : Asked(s)'
    BY <2>1, <2>2 DEF Asked
  <2> QED BY <1>3, <1>6, <2>1, <2>2, <2>3
<1> QED BY <1>7, <1>8, <1>9, <1>10 DEF Validates

LEMMA AskedStep == CommandInv /\ AskedInv /\ [CommandNext]_commandVars => AskedInv'
<1> SUFFICES ASSUME CommandInv, AskedInv, [CommandNext]_commandVars PROVE AskedInv'
  OBVIOUS
<1>1. CASE UNCHANGED <<selected, validator, phase>>
  <2>1. /\ selected' = selected /\ phase' = phase /\ cache' = cache /\ answers' = answers /\ toValidate' = toValidate
    BY <1>1 DEF validator
  <2>2. \A s : Asked(s)' <=> Asked(s)
    BY <2>1 DEF Asked
  <2> QED BY <2>1, <2>2, SameSteps DEF AskedInv, IsConcept, Plain
<1>2. CASE EndValidation
  <2>1. /\ phase = "validate" /\ toValidate = <<>> /\ phase' \in {"exit", "execute"} /\ selected' = selected
        /\ answers' = answers
    BY <1>2 DEF EndValidation, Exit, Goto, validator
  <2>2. \A s \in ValidatedSteps : IsConcept(s) \/ Asked(s) \/ Inside(s)
    BY <2>1, EmptyLists DEF AskedInv
  <2>3. \A s : Asked(s)' <=> Asked(s)
    BY <2>1 DEF Asked
  <2> QED BY <2>1, <2>2, <2>3, SameSteps DEF AskedInv, IsConcept
<1>3. CASE RejectConcepts \/ HandleParseResult \/ HandleFormatResults \/ Execute
  <2>1. phase' = "exit"
    BY <1>3 DEF RejectConcepts, HandleParseResult, HandleFormatResults, Execute, Exit
  <2> QED BY <2>1 DEF AskedInv
<1>4. CASE FormatSpecs \/ SelectSpecs \/ Again
  <2>1. phase' \in {"format", "crashed", "exit", "start", "parse"} /\ cache' = {}
    BY <1>4 DEF FormatSpecs, SelectSpecs, Again, Goto, Exit, validator, Parsing, AskedInv
  <2> QED BY <2>1 DEF AskedInv
<1>5. CASE NextArgument \/ FormatAndSave \/ \E file \in File : SendSpec(file) \/ SendResult(file)
  BY <1>1, <1>5 DEF NextArgument, FormatAndSave, SendSpec, SendResult
<1>6. CASE UNCHANGED commandVars
  BY <1>1, <1>6 DEF commandVars
<1> QED
  BY <1>2, <1>3, <1>4, <1>5, <1>6, StartAPIServiceAsked, ValidatesAsked DEF CommandNext, Validates

LEMMA AskedSuffices == CommandInv /\ AskedInv => ExecutedStepsAsked
<1> SUFFICES ASSUME CommandInv, AskedInv, phase = "execute" PROVE ExecutedStepsAsked
  BY DEF ExecutedStepsAsked
<1>1. AllValid
  BY DEF CommandInv, VerdictInv
<1>2. ASSUME NEW s \in ValidatedSteps
      PROVE  \/ [step |-> s, isValid |-> TRUE] \in answers \/ IsConcept(s)
             \/ \E c \in ValidatedSteps : IsConcept(c) /\ s \in Below(c)
  <2>1. IsConcept(s) \/ Asked(s) \/ Inside(s)
    BY DEF AskedInv
  <2>2. Asked(s) => [step |-> s, isValid |-> TRUE] \in answers
    <3> SUFFICES ASSUME Asked(s) PROVE [step |-> s, isValid |-> TRUE] \in answers
      OBVIOUS
    <3>1. PICK isValid \in BOOLEAN : [step |-> s, isValid |-> isValid] \in answers
      BY DEF Asked
    <3>2. [step |-> s, isValid |-> isValid].isValid
      BY <1>1, <3>1 DEF AllValid
    <3>3. isValid = TRUE
      BY <3>2
    <3> QED BY <3>1, <3>3
  <2> QED BY <2>1, <2>2 DEF Inside
<1>3. ~flags.tagged => ContextSteps \subseteq ValidatedSteps
  <2> SUFFICES ASSUME ~flags.tagged, NEW s \in ContextSteps PROVE s \in ValidatedSteps
    OBVIOUS
  <2>1. PICK spec \in ToSet(selected) :
          s \in StepsAt(spec, {i \in DOMAIN Contents[spec.file] : Contents[spec.file][i].kind = "step"})
    BY DEF ContextSteps
  <2>2. PICK i \in DOMAIN Contents[spec.file] :
          Contents[spec.file][i].kind = "step" /\ s \in ToSet(StepsOf(spec.file, i))
    BY <2>1 DEF StepsAt
  <2>3. HasAllButScenarios(spec)
    BY DEF CommandInv, SelectedInv
  <2>4. i \in spec.items
    BY <2>2, <2>3 DEF HasAllButScenarios, ScenariosOf
  <2> QED BY <2>2, <2>4 DEF ValidatedSteps, StepsAt
<1> QED BY <1>1, <1>2, <1>3 DEF ExecutedStepsAsked

\* Whatever the specifications and concepts are, when the execution starts every plain step
\* it will execute has been declared valid by the runner, but those that are also in some
\* concept that is executed, and with --tags the contexts.
THEOREM ValidationSound == CommandSpec => []ExecutedStepsAsked
<1>1. CommandInit => AskedInv
  BY DEF CommandInit, AskedInv
<1> QED BY <1>1, CommandInitInv, CommandStep, AskedStep, AskedSuffices, PTL DEF CommandSpec
-----------------------------------------------------------------------------
(* Command line: lists that are made of others, element by element.        *)

\* What holds of the empty sequence, and of a longer one when it does of a shorter, holds of
\* every sequence: a set that is built so has them all.
LEMMA SequencesByAppending ==
  ASSUME NEW A, NEW G, <<>> \in G,
         \A s \in Seq(A) : \A x \in A : s \in G => Append(s, x) \in G
  PROVE  Seq(A) \subseteq G
<1> DEFINE T == {n \in Nat : \E s \in Seq(A) : Len(s) = n /\ s \notin G}
<1>1. T = {}
  <2> SUFFICES ASSUME T # {} PROVE FALSE
    OBVIOUS
  <2>1. T \in SUBSET Nat
    OBVIOUS
  <2>2. PICK n \in T : \A m \in T : n <= m
    <3> HIDE DEF T
    <3> QED BY <2>1, Smallest
  <2>3. PICK s \in Seq(A) : Len(s) = n /\ s \notin G
    BY <2>2
  <2>4. s # <<>>
    BY <2>3
  <2>5. PICK t \in Seq(A), x \in A : s = Append(t, x)
    BY <2>4, SequenceEmptyOrAppend
  <2>6. t \notin G
    BY <2>3, <2>5
  <2>7. Len(t) \in Nat /\ Len(s) = Len(t) + 1
    BY <2>5, AppendProperties, LenProperties
  <2>8. Len(t) \in T
    BY <2>6, <2>7
  <2>9. ~(n <= Len(t))
    BY <2>3, <2>7
  <2> HIDE DEF T
  <2> QED BY <2>2, <2>8, <2>9
<1>2. ASSUME NEW s \in Seq(A) PROVE s \in G
  <2>1. Len(s) \in Nat
    BY LenProperties
  <2>2. Len(s) \notin T
    BY <1>1
  <2> QED BY <2>1, <2>2
<1> QED BY <1>2

\* p has what the first sequences of ss come to, for any number of them.
IsParts(p, ss, A) ==
  /\ p \in [0..Len(ss) -> Seq(A)] /\ p[0] = <<>> /\ p[Len(ss)] = FlattenSeq(ss)
  /\ \A k \in 1..Len(ss) : p[k] = p[k - 1] \o ss[k]

LEMMA PartsExist ==
  ASSUME NEW A, NEW ss \in Seq(Seq(A))
  PROVE  \E p : IsParts(p, ss, A)
<1> DEFINE n == Len(ss)
           F == CHOOSE f : f = [i \in 1..Len(ss) |-> IF i = 1 THEN ss[i] ELSE f[i - 1] \o ss[i]]
           p == [k \in 0..n |-> IF k = 0 THEN <<>> ELSE F[k]]
<1>1. n \in Nat /\ \A i \in 1..n : ss[i] \in Seq(A)
  BY ElementOfSeq, LenProperties
<1>2. FlattenSeq(ss) = IF n = 0 THEN ss ELSE F[n]
  BY DEF FlattenSeq
<1>3. \A i \in 1..n : F[i] = IF i = 1 THEN ss[i] ELSE F[i - 1] \o ss[i]
  <2>1. \E f : f = [i \in 1..Len(ss) |-> IF i = 1 THEN ss[i] ELSE f[i - 1] \o ss[i]]
    BY <1>1, FlatteningExists DEF Flattening
  <2>2. F = [i \in 1..Len(ss) |-> IF i = 1 THEN ss[i] ELSE F[i - 1] \o ss[i]]
    BY <2>1
  <2> HIDE DEF F
  <2> QED BY <2>2
<1> HIDE DEF F
<1>4. \A k \in 1..n : F[k] \in Seq(A)
  <2> DEFINE T == {k \in 1..n : F[k] \notin Seq(A)}
  <2> SUFFICES ASSUME T # {} PROVE FALSE
    OBVIOUS
  <2>1. T \in SUBSET Nat
    OBVIOUS
  <2>2. PICK k \in T : \A m \in T : k <= m
    <3> HIDE DEF T
    <3> QED BY <2>1, Smallest
  <2>3. CASE k = 1
    BY <2>2, <2>3, <1>1, <1>3
  <2>4. CASE k # 1
    <3>1. k - 1 \in 1..n /\ ~(k <= k - 1)
      BY <2>2, <2>4, <1>1
    <3>2. F[k - 1] \in Seq(A)
      BY <2>2, <3>1
    <3>3. ss[k] \in Seq(A) /\ F[k] = F[k - 1] \o ss[k]
      BY <1>1, <1>3, <2>2, <2>4
    <3>4. F[k - 1] \o ss[k] \in Seq(A)
      BY <3>2, <3>3, ConcatProperties
    <3> QED BY <2>2, <3>3, <3>4
  <2> QED BY <2>3, <2>4
<1>5. p \in [0..n -> Seq(A)]
  <2>1. ASSUME NEW k \in 0..n PROVE (IF k = 0 THEN <<>> ELSE F[k]) \in Seq(A)
    <3>1. k # 0 => k \in 1..n
      BY <1>1
    <3> QED BY <3>1, <1>4
  <2> HIDE DEF n
  <2> QED BY <2>1
<1>6. p[0] = <<>> /\ p[n] = FlattenSeq(ss)
  <2>1. CASE n = 0
    <3>1. ss = <<>>
      BY <2>1, EmptySeq
    <3> QED BY <2>1, <3>1, <1>2
  <2>2. CASE n # 0
    BY <2>2, <1>1, <1>2
  <2> QED BY <2>1, <2>2
<1>7. ASSUME NEW k \in 1..n PROVE p[k] = p[k - 1] \o ss[k]
  <2>1. k \in Nat /\ k # 0 /\ k \in 0..n /\ k - 1 \in 0..n
    BY <1>1
  <2>2. p[k] = F[k]
    BY <2>1
  <2>3. CASE k = 1
    <3>1. p[k - 1] = <<>> /\ F[k] = ss[k]
      BY <2>3, <1>1, <1>3
    <3>2. <<>> \o ss[k] = ss[k]
      BY <1>1, ConcatEmptySeq
    <3> HIDE DEF p
    <3> QED BY <2>2, <3>1, <3>2
  <2>4. CASE k # 1
    <3>1. p[k - 1] = F[k - 1]
      BY <2>1, <2>4
    <3> QED BY <2>2, <2>4, <3>1, <1>3
  <2> QED BY <2>3, <2>4
<1> HIDE DEF p
<1>8. IsParts(p, ss, A)
  BY <1>5, <1>6, <1>7 DEF IsParts
<1> QED BY <1>8

\* One sequence more is put behind what the others come to.
LEMMA FlattenedAppend ==
  ASSUME NEW A, NEW ss \in Seq(Seq(A)), NEW x \in Seq(A)
  PROVE  /\ FlattenSeq(ss) \in Seq(A)
         /\ FlattenSeq(Append(ss, x)) = FlattenSeq(ss) \o x
<1> DEFINE n == Len(ss)
           more == Append(ss, x)
<1>1. n \in Nat /\ more \in Seq(Seq(A)) /\ Len(more) = n + 1
        /\ (\A k \in 1..n : more[k] = ss[k]) /\ more[n + 1] = x
  BY LenProperties, AppendProperties
<1> HIDE DEF more
<1>2. PICK p : IsParts(p, ss, A)
  BY PartsExist
<1>3. PICK q : IsParts(q, more, A)
  BY <1>1, PartsExist
<1>4. \A k \in 0..n : p[k] = q[k]
  <2> DEFINE T == {k \in 0..n : p[k] # q[k]}
  <2> SUFFICES ASSUME T # {} PROVE FALSE
    OBVIOUS
  <2>1. T \in SUBSET Nat
    OBVIOUS
  <2>2. PICK k \in T : \A m \in T : k <= m
    <3> HIDE DEF T
    <3> QED BY <2>1, Smallest
  <2>3. k # 0
    BY <2>2, <1>2, <1>3 DEF IsParts
  <2>4. k \in 1..n /\ k \in 1..(n + 1) /\ k - 1 \in 0..n /\ ~(k <= k - 1)
    BY <2>2, <2>3, <1>1
  <2>5. p[k - 1] = q[k - 1]
    BY <2>2, <2>4
  <2>6. p[k] = p[k - 1] \o ss[k]
    BY <1>2, <2>4 DEF IsParts
  <2>7. q[k] = q[k - 1] \o more[k]
    BY <1>1, <1>3, <2>4 DEF IsParts
  <2> QED BY <1>1, <2>2, <2>4, <2>5, <2>6, <2>7
<1>5. p[n] = FlattenSeq(ss) /\ FlattenSeq(ss) \in Seq(A)
  <2>1. n \in 0..n
    BY <1>1
  <2> QED BY <1>2, <2>1 DEF IsParts
<1>6. q[n + 1] = FlattenSeq(more) /\ q[n + 1] = q[n] \o more[n + 1]
  <2>1. n + 1 \in 1..(n + 1) /\ (n + 1) - 1 = n
    BY <1>1
  <2>2. q[n + 1] = q[(n + 1) - 1] \o more[n + 1]
    BY <1>1, <1>3, <2>1 DEF IsParts
  <2> QED BY <1>1, <1>3, <2>1, <2>2 DEF IsParts
<1>7. p[n] = q[n]
  BY <1>1, <1>4
<1> QED BY <1>1, <1>5, <1>6, <1>7 DEF more

LEMMA FlattenedNothing == FlattenSeq(<<>>) = <<>>
BY DEF FlattenSeq

\* What g makes of every element, one after the other.
Through(all, g) == FlattenSeq([i \in DOMAIN all |-> g[all[i]]])
Makes(g, A, B) == g \in [A -> Seq(B)]

LEMMA ThroughAppend ==
  ASSUME NEW A, NEW B, NEW g, Makes(g, A, B), NEW all \in Seq(A), NEW x \in A
  PROVE  /\ Through(all, g) \in Seq(B)
         /\ Through(Append(all, x), g) = Through(all, g) \o g[x]
<1> DEFINE each == [i \in DOMAIN all |-> g[all[i]]]
           longer == Append(all, x)
           eachLonger == [i \in DOMAIN longer |-> g[longer[i]]]
<1>1. Len(all) \in Nat /\ DOMAIN all = 1..Len(all) /\ \A i \in 1..Len(all) : all[i] \in A
  BY LenProperties, ElementOfSeq
<1>2. longer \in Seq(A) /\ Len(longer) = Len(all) + 1 /\ DOMAIN longer = 1..(Len(all) + 1)
        /\ (\A i \in 1..Len(all) : longer[i] = all[i]) /\ longer[Len(all) + 1] = x
  BY AppendProperties, LenProperties
<1> HIDE DEF longer
<1>3. each \in Seq(Seq(B)) /\ Len(each) = Len(all) /\ \A i \in 1..Len(all) : each[i] = g[all[i]]
  BY <1>1 DEF Makes
<1>4. g[x] \in Seq(B)
  BY DEF Makes
<1>5. eachLonger \in Seq(Seq(B)) /\ Len(eachLonger) = Len(all) + 1
        /\ \A i \in 1..(Len(all) + 1) : eachLonger[i] = g[longer[i]]
  <2>1. \A i \in 1..(Len(all) + 1) : longer[i] \in A
    BY <1>2, ElementOfSeq
  <2>2. Len(all) + 1 \in Nat
    BY <1>1
  <2> QED BY <1>2, <2>1, <2>2 DEF Makes
<1> HIDE DEF each, eachLonger
<1>6. /\ Append(each, g[x]) \in Seq(Seq(B)) /\ Len(Append(each, g[x])) = Len(all) + 1
      /\ \A i \in 1..Len(all) : Append(each, g[x])[i] = each[i]
      /\ Append(each, g[x])[Len(all) + 1] = g[x]
  BY <1>3, <1>4, AppendProperties
<1>7. \A i \in 1..(Len(all) + 1) : eachLonger[i] = Append(each, g[x])[i]
  <2> SUFFICES ASSUME NEW i \in 1..(Len(all) + 1) PROVE eachLonger[i] = Append(each, g[x])[i]
    OBVIOUS
  <2>1. CASE i \in 1..Len(all)
    <3>1. longer[i] = all[i] /\ eachLonger[i] = g[longer[i]]
      BY <1>2, <1>5, <2>1
    <3>2. each[i] = g[all[i]] /\ Append(each, g[x])[i] = each[i]
      BY <1>3, <1>6, <2>1
    <3> QED BY <3>1, <3>2
  <2>2. CASE i = Len(all) + 1
    BY <1>2, <1>5, <1>6, <2>2
  <2>3. i \in 1..Len(all) \/ i = Len(all) + 1
    BY <1>1
  <2> QED BY <2>1, <2>2, <2>3
<1>8. eachLonger = Append(each, g[x])
  <2> DEFINE a == Append(each, g[x])
             L == Len(all) + 1
  <2>1. a \in Seq(Seq(B)) /\ Len(a) = L
    BY <1>6
  <2>2. \A i \in 1..L : eachLonger[i] = a[i]
    BY <1>7
  <2>3. eachLonger \in Seq(Seq(B)) /\ Len(eachLonger) = L
    BY <1>5
  <2> HIDE DEF a, L
  <2>4. eachLonger = a
    BY <2>1, <2>2, <2>3, SeqEqual
  <2> QED BY <2>4 DEF a
<1>9. FlattenSeq(each) \in Seq(B) /\ FlattenSeq(Append(each, g[x])) = FlattenSeq(each) \o g[x]
  BY <1>3, <1>4, FlattenedAppend
<1> QED BY <1>8, <1>9 DEF Through, each, eachLonger, longer

LEMMA ThroughNothing == ASSUME NEW g PROVE Through(<<>>, g) = <<>>
<1>1. [i \in DOMAIN <<>> |-> g[<<>>[i]]] = <<>>
  OBVIOUS
<1> QED BY <1>1, FlattenedNothing DEF Through

LEMMA ThroughOne ==
  ASSUME NEW A, NEW B, NEW g, Makes(g, A, B), NEW x \in A
  PROVE  Through(<<x>>, g) = g[x]
<1>1. <<>> \in Seq(A) /\ Append(<<>>, x) = <<x>> /\ g[x] \in Seq(B)
  BY DEF Makes
<1>2. Through(Append(<<>>, x), g) = Through(<<>>, g) \o g[x]
  <2> DEFINE none == <<>>
  <2>1. none \in Seq(A)
    OBVIOUS
  <2> HIDE DEF none
  <2>2. Through(Append(none, x), g) = Through(none, g) \o g[x]
    BY <2>1, ThroughAppend
  <2> QED BY <2>2 DEF none
<1>3. <<>> \o g[x] = g[x]
  BY <1>1, ConcatEmptySeq
<1> QED BY <1>1, <1>2, <1>3, ThroughNothing

LEMMA ThroughType ==
  ASSUME NEW A, NEW B, NEW g, Makes(g, A, B), NEW all \in Seq(A)
  PROVE  Through(all, g) \in Seq(B)
<1>1. CASE A = {}
  <2>1. all = <<>>
    BY <1>1, SequenceEmptyOrAppend
  <2>2. Through(<<>>, g) = <<>> /\ <<>> \in Seq(B)
    BY ThroughNothing
  <2> QED BY <2>1, <2>2
<1>2. CASE A # {}
  <2>1. PICK x \in A : TRUE
    BY <1>2
  <2> QED BY <2>1, ThroughAppend
<1> QED BY <1>1, <1>2

LEMMA ThroughConcat ==
  ASSUME NEW A, NEW B, NEW g, Makes(g, A, B), NEW s \in Seq(A), NEW t \in Seq(A)
  PROVE  Through(s \o t, g) = Through(s, g) \o Through(t, g)
<1> DEFINE G == {u \in Seq(A) : Through(s \o u, g) = Through(s, g) \o Through(u, g)}
<1>1. <<>> \in G
  <2>1. s \o <<>> = s /\ Through(s, g) \in Seq(B)
    BY ThroughType, ConcatEmptySeq
  <2>2. Through(s, g) \o <<>> = Through(s, g)
    BY <2>1, ConcatEmptySeq
  <2> QED BY <2>1, <2>2, ThroughNothing
<1>2. ASSUME NEW u \in Seq(A), NEW x \in A, u \in G PROVE Append(u, x) \in G
  <2> DEFINE a == Through(s, g)
             b == Through(u, g)
             c == g[x]
  <2>1. a \in Seq(B) /\ b \in Seq(B) /\ c \in Seq(B)
    BY ThroughAppend DEF Makes
  <2>2. s \o Append(u, x) = Append(s \o u, x) /\ s \o u \in Seq(A) /\ Append(u, x) \in Seq(A)
    <3>1. Append(u, x) = u \o <<x>> /\ Append(u, x) \in Seq(A) /\ <<x>> \in Seq(A)
      BY AppendIsConcat, AppendProperties
    <3>2. s \o u \in Seq(A)
      BY ConcatProperties
    <3>3. Append(s \o u, x) = (s \o u) \o <<x>>
      BY <3>2, AppendIsConcat
    <3>4. (s \o u) \o <<x>> = s \o (u \o <<x>>)
      BY <3>1, ConcatAssociative
    <3> QED BY <3>1, <3>2, <3>3, <3>4
  <2>3. Through(Append(s \o u, x), g) = Through(s \o u, g) \o c
    <3> DEFINE su == s \o u
    <3>1. su \in Seq(A)
      BY <2>2
    <3> HIDE DEF su
    <3>2. Through(Append(su, x), g) = Through(su, g) \o g[x]
      BY <3>1, ThroughAppend
    <3> QED BY <3>2 DEF su
  <2>4. Through(Append(u, x), g) = b \o c
    BY ThroughAppend
  <2>5. Through(s \o u, g) = a \o b
    BY <1>2
  <2> HIDE DEF a, b, c
  <2>6. (a \o b) \o c = a \o (b \o c)
    BY ONLY <2>1, ConcatAssociative, SMTT(30)
  <2> QED BY <2>2, <2>3, <2>4, <2>5, <2>6 DEF a
<1> HIDE DEF G
<1>3. Seq(A) \subseteq G
  BY <1>1, <1>2, SequencesByAppending
<1> QED BY <1>3 DEF G

\* k makes at once what first g and then h make.
IsComposition(k, A, g, h) == \A x \in A : k[x] = Through(g[x], h)

LEMMA ThroughBoth ==
  ASSUME NEW A, NEW B, NEW C, NEW g, Makes(g, A, B), NEW h, Makes(h, B, C),
         NEW k, Makes(k, A, C), IsComposition(k, A, g, h), NEW all \in Seq(A)
  PROVE  Through(Through(all, g), h) = Through(all, k)
<1> DEFINE G == {u \in Seq(A) : Through(Through(u, g), h) = Through(u, k)}
<1>1. <<>> \in G
  BY ThroughNothing
<1>2. ASSUME NEW u \in Seq(A), NEW x \in A, u \in G PROVE Append(u, x) \in G
  <2>1. Append(u, x) \in Seq(A) /\ g[x] \in Seq(B)
    BY AppendProperties DEF Makes
  <2>2. Through(u, g) \in Seq(B) /\ Through(Append(u, x), g) = Through(u, g) \o g[x]
    BY ThroughAppend
  <2>3. Through(Append(u, x), k) = Through(u, k) \o k[x]
    BY ThroughAppend
  <2>4. Through(Through(u, g) \o g[x], h) = Through(Through(u, g), h) \o Through(g[x], h)
    <3> DEFINE a == Through(u, g)
               b == g[x]
    <3>1. a \in Seq(B) /\ b \in Seq(B)
      BY <2>1, <2>2
    <3> HIDE DEF a, b
    <3>2. Through(a \o b, h) = Through(a, h) \o Through(b, h)
      BY <3>1, ThroughConcat
    <3> QED BY <3>2 DEF a, b
  <2>5. Through(g[x], h) = k[x]
    BY DEF IsComposition
  <2>6. Through(Through(u, g), h) = Through(u, k)
    BY <1>2
  <2> QED BY <2>1, <2>2, <2>3, <2>4, <2>5, <2>6
<1> HIDE DEF G
<1>3. Seq(A) \subseteq G
  BY <1>1, <1>2, SequencesByAppending
<1> QED BY <1>3 DEF G

\* For an element it makes no difference whether it goes through g or through h first.
LEMMA ThroughCommutes ==
  ASSUME NEW A, NEW g, Makes(g, A, A), NEW h, Makes(h, A, A),
         \A x \in A : Through(g[x], h) = Through(h[x], g), NEW all \in Seq(A)
  PROVE  Through(Through(all, g), h) = Through(Through(all, h), g)
<1> DEFINE k == [x \in A |-> Through(g[x], h)]
<1>1. Makes(k, A, A)
  <2>1. \A x \in A : g[x] \in Seq(A)
    BY DEF Makes
  <2>2. \A x \in A : Through(g[x], h) \in Seq(A)
    BY <2>1, ThroughType
  <2> QED BY <2>2 DEF Makes
<1>2. IsComposition(k, A, g, h) /\ IsComposition(k, A, h, g)
  BY DEF IsComposition
<1> HIDE DEF k
<1>3. Through(Through(all, g), h) = Through(all, k)
  BY <1>1, <1>2, ThroughBoth
<1>4. Through(Through(all, h), g) = Through(all, k)
  BY <1>1, <1>2, ThroughBoth
<1> QED BY <1>3, <1>4

\* What leaves every element alone leaves the sequence alone.
LEMMA ThroughSame ==
  ASSUME NEW A, NEW g, Makes(g, A, A), \A x \in A : g[x] = <<x>>, NEW all \in Seq(A)
  PROVE  Through(all, g) = all
<1> DEFINE G == {u \in Seq(A) : Through(u, g) = u}
<1>1. <<>> \in G
  BY ThroughNothing
<1>2. ASSUME NEW u \in Seq(A), NEW x \in A, u \in G PROVE Append(u, x) \in G
  <2>1. Append(u, x) \in Seq(A) /\ Append(u, x) = u \o <<x>>
    BY AppendProperties, AppendIsConcat
  <2>2. Through(Append(u, x), g) = Through(u, g) \o g[x]
    BY ThroughAppend
  <2> QED BY <1>2, <2>1, <2>2
<1> HIDE DEF G
<1>3. Seq(A) \subseteq G
  BY <1>1, <1>2, SequencesByAppending
<1> QED BY <1>3 DEF G

\* How many elements are in V.
Occurring(all, V) == {n \in 1..Len(all) : all[n] \in V}
Count(all, V) == Cardinality(Occurring(all, V))
One(x, V) == IF x \in V THEN 1 ELSE 0

LEMMA CountAppend ==
  ASSUME NEW A, NEW V, NEW all \in Seq(A), NEW x \in A
  PROVE  /\ IsFiniteSet(Occurring(all, V)) /\ Count(all, V) \in Nat
         /\ Count(Append(all, x), V) = Count(all, V) + One(x, V)
<1> DEFINE n == Len(all)
           longer == Append(all, x)
<1>1. n \in Nat
  BY LenProperties
<1>2. Len(longer) = n + 1 /\ (\A i \in 1..n : longer[i] = all[i]) /\ longer[n + 1] = x
  BY AppendProperties
<1> HIDE DEF longer
<1>3. IsFiniteSet(Occurring(all, V)) /\ Count(all, V) \in Nat
  <2>1. IsFiniteSet(1..n)
    BY <1>1, FS_Interval
  <2>2. Occurring(all, V) \in SUBSET (1..n)
    BY DEF Occurring
  <2> QED BY <2>1, <2>2, FS_Subset, FS_CardinalityType DEF Count
<1>4. n + 1 \notin Occurring(all, V)
  BY <1>1 DEF Occurring
<1>5. CASE x \in V
  <2>1. Occurring(longer, V) = Occurring(all, V) \cup {n + 1}
    BY <1>1, <1>2, <1>5 DEF Occurring
  <2> QED BY <1>3, <1>4, <1>5, <2>1, FS_AddElement DEF Count, One, longer
<1>6. CASE x \notin V
  <2>1. Occurring(longer, V) = Occurring(all, V)
    BY <1>1, <1>2, <1>6 DEF Occurring
  <2> QED BY <1>3, <1>6, <2>1 DEF Count, One, longer
<1> QED BY <1>3, <1>5, <1>6

LEMMA CountNothing == ASSUME NEW V PROVE Count(<<>>, V) = 0
<1>1. Occurring(<<>>, V) = {}
  BY DEF Occurring
<1> QED BY <1>1, FS_EmptySet DEF Count

LEMMA CountType ==
  ASSUME NEW A, NEW V, NEW all \in Seq(A)
  PROVE  IsFiniteSet(Occurring(all, V)) /\ Count(all, V) \in Nat
<1>1. Len(all) \in Nat
  BY LenProperties
<1>2. IsFiniteSet(1..Len(all))
  BY <1>1, FS_Interval
<1>3. Occurring(all, V) \in SUBSET (1..Len(all))
  BY DEF Occurring
<1> QED BY <1>2, <1>3, FS_Subset, FS_CardinalityType DEF Count

LEMMA CountOne == ASSUME NEW A, NEW V, NEW x \in A PROVE Count(<<x>>, V) = One(x, V)
<1>1. <<>> \in Seq(A) /\ Append(<<>>, x) = <<x>>
  OBVIOUS
<1>2. Count(Append(<<>>, x), V) = Count(<<>>, V) + One(x, V)
  BY <1>1, CountAppend
<1>3. One(x, V) \in Nat
  BY DEF One
<1> QED BY <1>1, <1>2, <1>3, CountNothing

LEMMA CountConcat ==
  ASSUME NEW A, NEW V, NEW s \in Seq(A), NEW t \in Seq(A)
  PROVE  Count(s \o t, V) = Count(s, V) + Count(t, V)
<1> DEFINE G == {u \in Seq(A) : Count(s \o u, V) = Count(s, V) + Count(u, V)}
<1>1. <<>> \in G
  <2>1. s \o <<>> = s /\ Count(s, V) \in Nat
    BY ConcatEmptySeq, CountType
  <2> QED BY <2>1, CountNothing
<1>2. ASSUME NEW u \in Seq(A), NEW x \in A, u \in G PROVE Append(u, x) \in G
  <2>1. Append(u, x) \in Seq(A) /\ s \o u \in Seq(A)
    BY AppendProperties, ConcatProperties
  <2>2. s \o Append(u, x) = Append(s \o u, x)
    <3>1. Append(u, x) = u \o <<x>> /\ <<x>> \in Seq(A)
      BY AppendIsConcat
    <3>2. Append(s \o u, x) = (s \o u) \o <<x>>
      BY <2>1, AppendIsConcat
    <3>3. (s \o u) \o <<x>> = s \o (u \o <<x>>)
      BY <3>1, ConcatAssociative
    <3> QED BY <3>1, <3>2, <3>3
  <2>3. Count(Append(s \o u, x), V) = Count(s \o u, V) + One(x, V)
    BY <2>1, CountAppend
  <2>4. Count(Append(u, x), V) = Count(u, V) + One(x, V)
    BY CountAppend
  <2>5. Count(s, V) \in Nat /\ Count(u, V) \in Nat /\ One(x, V) \in Nat
    BY CountType DEF One
  <2>6. Count(s \o u, V) = Count(s, V) + Count(u, V)
    BY <1>2
  <2>7. Count(s \o Append(u, x), V) = Count(s, V) + Count(Append(u, x), V)
    BY ONLY <2>2, <2>3, <2>4, <2>5, <2>6
  <2> QED BY <2>1, <2>7
<1> HIDE DEF G
<1>3. Seq(A) \subseteq G
  BY <1>1, <1>2, SequencesByAppending
<1> QED BY <1>3 DEF G

\* Every element makes one in V if it is in W, and none otherwise.
LEMMA CountThrough ==
  ASSUME NEW A, NEW B, NEW g, Makes(g, A, B), NEW V, NEW W,
         \A x \in A : Count(g[x], V) = One(x, W), NEW all \in Seq(A)
  PROVE  Count(Through(all, g), V) = Count(all, W)
<1> DEFINE G == {u \in Seq(A) : Count(Through(u, g), V) = Count(u, W)}
<1>1. <<>> \in G
  BY CountNothing, ThroughNothing
<1>2. ASSUME NEW u \in Seq(A), NEW x \in A, u \in G PROVE Append(u, x) \in G
  <2>1. Append(u, x) \in Seq(A) /\ g[x] \in Seq(B)
    BY AppendProperties DEF Makes
  <2>2. Through(u, g) \in Seq(B) /\ Through(Append(u, x), g) = Through(u, g) \o g[x]
    BY ThroughAppend
  <2>3. Count(Through(u, g) \o g[x], V) = Count(Through(u, g), V) + Count(g[x], V)
    BY <2>1, <2>2, CountConcat
  <2>4. Count(Append(u, x), W) = Count(u, W) + One(x, W)
    BY CountAppend
  <2>5. Count(g[x], V) = One(x, W)
    OBVIOUS
  <2>6. Count(Through(u, g), V) = Count(u, W)
    BY <1>2
  <2> QED BY <2>1, <2>2, <2>3, <2>4, <2>5, <2>6
<1> HIDE DEF G
<1>3. Seq(A) \subseteq G
  BY <1>1, <1>2, SequencesByAppending
<1> QED BY <1>3 DEF G

\* An element makes one at most.
LEMMA LenThrough ==
  ASSUME NEW A, NEW B, NEW g, Makes(g, A, B), \A x \in A : Len(g[x]) <= 1, NEW all \in Seq(A)
  PROVE  Len(Through(all, g)) <= Len(all)
<1> DEFINE G == {u \in Seq(A) : Len(Through(u, g)) <= Len(u)}
<1>1. <<>> \in G
  BY ThroughNothing
<1>2. ASSUME NEW u \in Seq(A), NEW x \in A, u \in G PROVE Append(u, x) \in G
  <2>1. Append(u, x) \in Seq(A) /\ g[x] \in Seq(B) /\ Len(Append(u, x)) = Len(u) + 1 /\ Len(u) \in Nat
    BY AppendProperties, LenProperties DEF Makes
  <2>2. Through(u, g) \in Seq(B) /\ Through(Append(u, x), g) = Through(u, g) \o g[x]
    BY ThroughAppend
  <2>3. Len(Through(u, g) \o g[x]) = Len(Through(u, g)) + Len(g[x])
    BY <2>1, <2>2, ConcatProperties
  <2>4. Len(Through(u, g)) \in Nat /\ Len(g[x]) \in Nat /\ Len(g[x]) <= 1
    BY <2>1, <2>2, LenProperties
  <2>5. Len(Through(u, g)) <= Len(u)
    BY <1>2
  <2> QED BY <2>1, <2>2, <2>3, <2>4, <2>5
<1> HIDE DEF G
<1>3. Seq(A) \subseteq G
  BY <1>1, <1>2, SequencesByAppending
<1> QED BY <1>3 DEF G
-----------------------------------------------------------------------------
(* Command line: what becomes of a specification on its way.               *)

OfFile(f) == [s \in Specification |-> IF s.file = f THEN <<s>> ELSE <<>>]

Arriving(lost) == [f \in File |-> IF f \in lost THEN <<>> ELSE <<Whole(f)>>]

AtItsIndex(index) ==
  [s \in Specification |->
    IF index = -1 THEN <<s>>
    ELSE IF HasScenario(AtIndex(s, index)) THEN <<AtIndex(s, index)>> ELSE <<>>]

Qualifying(s) == [s EXCEPT !.items = {j \in @ : j \in ScenariosOf(s.file) /\ Contents[s.file][j].qualifies}]

OfTags ==
  [s \in Specification |->
    IF ~flags.tagged THEN <<s>>
    ELSE IF HasScenario(Qualifying(s)) THEN <<Qualifying(s)>> ELSE <<>>]

LEMMA IndexedSpecification ==
  ASSUME NEW p \in Specification, NEW index
  PROVE  /\ AtIndex(p, index) \in Specification /\ AtIndex(p, index).file = p.file
         /\ AtIndex(p, index).items =
              {i \in p.items : i \in ScenariosOf(p.file) => ScenariosBefore(p.file, i) = index}
<1> DEFINE kp == {i \in p.items : i \in ScenariosOf(p.file) => ScenariosBefore(p.file, i) = index}
<1>1. p = [file |-> p.file, items |-> p.items] /\ p.file \in File /\ p.items \in SUBSET Nat
        /\ p.items \subseteq DOMAIN Contents[p.file]
  BY DEF Specification
<1>2. AtIndex(p, index) = [p EXCEPT !.items = kp]
  BY DEF AtIndex
<1>3. kp \subseteq p.items
  OBVIOUS
<1> HIDE DEF kp
<1>4. AtIndex(p, index) = [file |-> p.file, items |-> kp]
  BY <1>1, <1>2
<1>5. AtIndex(p, index) \in Specification /\ AtIndex(p, index).file = p.file /\ AtIndex(p, index).items = kp
  BY <1>1, <1>3, <1>4 DEF Specification
<1> QED BY <1>5 DEF kp

LEMMA QualifyingSpecification ==
  ASSUME NEW p \in Specification
  PROVE  /\ Qualifying(p) \in Specification /\ Qualifying(p).file = p.file
         /\ Qualifying(p).items =
              {j \in p.items : j \in ScenariosOf(p.file) /\ Contents[p.file][j].qualifies}
<1> DEFINE kp == {j \in p.items : j \in ScenariosOf(p.file) /\ Contents[p.file][j].qualifies}
<1>1. p = [file |-> p.file, items |-> p.items] /\ p.file \in File /\ p.items \in SUBSET Nat
        /\ p.items \subseteq DOMAIN Contents[p.file]
  BY DEF Specification
<1>2. Qualifying(p) = [p EXCEPT !.items = kp]
  BY DEF Qualifying
<1>3. kp \subseteq p.items
  OBVIOUS
<1> HIDE DEF kp
<1>4. Qualifying(p) = [file |-> p.file, items |-> kp]
  BY <1>1, <1>2
<1>5. Qualifying(p) \in Specification /\ Qualifying(p).file = p.file /\ Qualifying(p).items = kp
  BY <1>1, <1>3, <1>4 DEF Specification
<1> QED BY <1>5 DEF kp

\* What they make is specifications, one at most.
LEMMA WayTypes ==
  /\ \A f \in File : Makes(OfFile(f), Specification, Specification)
  /\ \A lost : Makes(Arriving(lost), File, Specification)
  /\ \A index \in Int : Makes(AtItsIndex(index), Specification, Specification)
  /\ Makes(OfTags, Specification, Specification)
<1>1. \A f \in File : Makes(OfFile(f), Specification, Specification)
  BY DEF OfFile, Makes
<1>2. \A lost : Makes(Arriving(lost), File, Specification)
  BY WholeIsSpecification DEF Arriving, Makes
<1>3. \A index \in Int : Makes(AtItsIndex(index), Specification, Specification)
  <2> SUFFICES ASSUME NEW index \in Int PROVE Makes(AtItsIndex(index), Specification, Specification)
    OBVIOUS
  <2>1. \A s \in Specification : AtIndex(s, index) \in Specification
    BY IndexedSpecification
  <2> QED BY <2>1 DEF AtItsIndex, Makes
<1>4. Makes(OfTags, Specification, Specification)
  <2>1. \A s \in Specification : Qualifying(s) \in Specification
    BY QualifyingSpecification
  <2> QED BY <2>1 DEF OfTags, Makes
<1> QED BY <1>1, <1>2, <1>3, <1>4

\* One of the orders: specifications of a file stay as they are.
Sorted(all) == FlattenSeq([f \in File |-> Retain(all, LAMBDA s : s.file = f)])

\* The filters and the order, element by element.
LEMMA SortedThrough ==
  ASSUME NEW all \in Seq(Specification)
  PROVE  Sorted(all) = FlattenSeq([f \in File |-> Through(all, OfFile(f))])
<1>1. DOMAIN all = 1..Len(all) /\ \A i \in 1..Len(all) : all[i] \in Specification
  BY LenProperties, ElementOfSeq
<1>2. Sorted(all) = FlattenSeq([f \in File |->
         FlattenSeq([i \in DOMAIN all |-> IF all[i].file = f THEN <<all[i]>> ELSE <<>>])])
  BY DEF Sorted, Retain
<1>3. ASSUME NEW f \in File
      PROVE  [i \in DOMAIN all |-> IF all[i].file = f THEN <<all[i]>> ELSE <<>>]
               = [i \in DOMAIN all |-> OfFile(f)[all[i]]]
  <2>1. \A i \in DOMAIN all : OfFile(f)[all[i]] = IF all[i].file = f THEN <<all[i]>> ELSE <<>>
    BY <1>1 DEF OfFile
  <2> QED BY <2>1
<1>4. \A f \in File : FlattenSeq([i \in DOMAIN all |-> IF all[i].file = f THEN <<all[i]>> ELSE <<>>])
                        = Through(all, OfFile(f))
  <2> SUFFICES ASSUME NEW f \in File
               PROVE  FlattenSeq([i \in DOMAIN all |-> IF all[i].file = f THEN <<all[i]>> ELSE <<>>])
                        = Through(all, OfFile(f))
    OBVIOUS
  <2> QED BY <1>3 DEF Through
<1>5. [f \in File |-> FlattenSeq([i \in DOMAIN all |-> IF all[i].file = f THEN <<all[i]>> ELSE <<>>])]
        = [f \in File |-> Through(all, OfFile(f))]
  BY <1>4
<1> QED BY <1>2, <1>5

LEMMA FilteredThrough ==
  ASSUME NEW parsed \in Seq(Specification), NEW index \in Int
  PROVE  FilterItems(parsed, index) = Through(parsed, AtItsIndex(index))
<1>1. DOMAIN parsed = 1..Len(parsed) /\ \A i \in 1..Len(parsed) : parsed[i] \in Specification
  BY LenProperties, ElementOfSeq
<1>2. CASE index = -1
  <2>1. Makes(AtItsIndex(index), Specification, Specification)
    BY WayTypes
  <2>2. \A s \in Specification : AtItsIndex(index)[s] = <<s>>
    BY <1>2 DEF AtItsIndex
  <2>3. Through(parsed, AtItsIndex(index)) = parsed
    BY <2>1, <2>2, ThroughSame
  <2> QED BY <1>2, <2>3 DEF FilterItems
<1>3. CASE index # -1
  <2> DEFINE all == [i \in DOMAIN parsed |-> AtIndex(parsed[i], index)]
  <2>1. FilterItems(parsed, index)
          = FlattenSeq([i \in DOMAIN all |-> IF HasScenario(all[i]) THEN <<all[i]>> ELSE <<>>])
    BY <1>3 DEF FilterItems, Retain
  <2>2. \A i \in DOMAIN parsed :
          AtItsIndex(index)[parsed[i]] = IF HasScenario(all[i]) THEN <<all[i]>> ELSE <<>>
    BY <1>1, <1>3 DEF AtItsIndex
  <2>3. DOMAIN all = DOMAIN parsed
    OBVIOUS
  <2> HIDE DEF all
  <2>4. [i \in DOMAIN all |-> IF HasScenario(all[i]) THEN <<all[i]>> ELSE <<>>]
          = [i \in DOMAIN parsed |-> AtItsIndex(index)[parsed[i]]]
    BY <2>2, <2>3
  <2> QED BY <2>1, <2>4 DEF Through
<1> QED BY <1>2, <1>3

LEMMA TaggedThrough ==
  ASSUME NEW all \in Seq(Specification)
  PROVE  ByTags(all) = Through(all, OfTags)
<1>1. DOMAIN all = 1..Len(all) /\ \A i \in 1..Len(all) : all[i] \in Specification
  BY LenProperties, ElementOfSeq
<1>2. CASE ~flags.tagged
  <2>1. \A s \in Specification : OfTags[s] = <<s>>
    BY <1>2 DEF OfTags
  <2>2. Through(all, OfTags) = all
    BY <2>1, WayTypes, ThroughSame
  <2> QED BY <1>2, <2>2 DEF ByTags
<1>3. CASE flags.tagged
  <2> DEFINE tagged == [i \in DOMAIN all |-> [all[i] EXCEPT !.items = {j \in @ : /\ j \in ScenariosOf(all[i].file)
                                                /\ Contents[all[i].file][j].qualifies}]]
  <2>1. ByTags(all)
          = FlattenSeq([i \in DOMAIN tagged |-> IF HasScenario(tagged[i]) THEN <<tagged[i]>> ELSE <<>>])
    BY <1>3 DEF ByTags, Retain
  <2>2. \A i \in DOMAIN all : tagged[i] = Qualifying(all[i])
    BY DEF Qualifying
  <2>3. DOMAIN tagged = DOMAIN all
    OBVIOUS
  <2> HIDE DEF tagged
  <2>4. \A i \in DOMAIN all : OfTags[all[i]] = IF HasScenario(tagged[i]) THEN <<tagged[i]>> ELSE <<>>
    BY <1>1, <1>3, <2>2 DEF OfTags
  <2>5. [i \in DOMAIN tagged |-> IF HasScenario(tagged[i]) THEN <<tagged[i]>> ELSE <<>>]
          = [i \in DOMAIN all |-> OfTags[all[i]]]
    BY <2>3, <2>4
  <2> QED BY <2>1, <2>5 DEF Through
<1> QED BY <1>2, <1>3

LEMMA ArrivedThrough ==
  ASSUME specsChan \in Seq(File)
  PROVE  Arrived = Through(specsChan, Arriving(broken))
<1> DEFINE keep == [f \in File |-> IF f \notin broken THEN <<f>> ELSE <<>>]
           W(c) == [i \in DOMAIN Through(c, keep) |-> Whole(Through(c, keep)[i])]
           G == {c \in Seq(File) : W(c) = Through(c, Arriving(broken))}
<1>1. Makes(keep, File, File) /\ Makes(Arriving(broken), File, Specification)
  BY WayTypes DEF Makes
<1>2. Retain(specsChan, LAMBDA f : f \notin broken) = Through(specsChan, keep)
  <2>1. DOMAIN specsChan = 1..Len(specsChan) /\ \A i \in 1..Len(specsChan) : specsChan[i] \in File
    BY LenProperties, ElementOfSeq
  <2>2. Retain(specsChan, LAMBDA f : f \notin broken)
          = FlattenSeq([i \in DOMAIN specsChan |-> IF specsChan[i] \notin broken THEN <<specsChan[i]>> ELSE <<>>])
    BY DEF Retain
  <2>3. \A i \in DOMAIN specsChan :
          keep[specsChan[i]] = IF specsChan[i] \notin broken THEN <<specsChan[i]>> ELSE <<>>
    BY <2>1
  <2> HIDE DEF keep
  <2>4. [i \in DOMAIN specsChan |-> IF specsChan[i] \notin broken THEN <<specsChan[i]>> ELSE <<>>]
          = [i \in DOMAIN specsChan |-> keep[specsChan[i]]]
    BY <2>3
  <2> QED BY <2>2, <2>4 DEF Through
<1>3. \A f \in File : keep[f] = IF f \notin broken THEN <<f>> ELSE <<>>
  OBVIOUS
<1> HIDE DEF keep
<1>4. <<>> \in G
  <2>1. Through(<<>>, keep) = <<>> /\ Through(<<>>, Arriving(broken)) = <<>>
    BY ThroughNothing
  <2>2. W(<<>>) = [i \in DOMAIN <<>> |-> Whole(<<>>[i])]
    BY <2>1
  <2>3. W(<<>>) = <<>>
    BY <2>2
  <2>4. <<>> \in Seq(File)
    OBVIOUS
  <2> HIDE DEF W
  <2> QED BY <2>1, <2>3, <2>4
<1>5. ASSUME NEW c \in Seq(File), NEW x \in File, c \in G PROVE Append(c, x) \in G
  <2>1. Append(c, x) \in Seq(File)
    BY AppendProperties
  <2>2. /\ Through(c, keep) \in Seq(File) /\ Through(Append(c, x), keep) = Through(c, keep) \o keep[x]
        /\ Through(c, Arriving(broken)) \in Seq(Specification)
        /\ Through(Append(c, x), Arriving(broken)) = Through(c, Arriving(broken)) \o Arriving(broken)[x]
    <3>1. Through(c, keep) \in Seq(File) /\ Through(Append(c, x), keep) = Through(c, keep) \o keep[x]
      BY <1>1, ThroughAppend
    <3>2. /\ Through(c, Arriving(broken)) \in Seq(Specification)
          /\ Through(Append(c, x), Arriving(broken)) = Through(c, Arriving(broken)) \o Arriving(broken)[x]
      BY <1>1, ThroughAppend
    <3> QED BY <3>1, <3>2
  <2>3. W(c) = Through(c, Arriving(broken))
    BY <1>5
  <2>4. CASE x \in broken
    <3>1. keep[x] = <<>> /\ Arriving(broken)[x] = <<>>
      BY <1>3, <2>4 DEF Arriving
    <3>2. Through(Append(c, x), keep) = Through(c, keep) /\ Through(Append(c, x), Arriving(broken)) = Through(c, Arriving(broken))
      BY <2>2, <3>1, ConcatEmptySeq
    <3> QED BY <2>1, <2>3, <3>2
  <2>5. CASE x \notin broken
    <3> DEFINE t == Through(c, keep)
               w == Through(c, Arriving(broken))
    <3>1. keep[x] = <<x>> /\ Arriving(broken)[x] = <<Whole(x)>> /\ Whole(x) \in Specification
      BY <1>3, <2>5, WholeIsSpecification DEF Arriving
    <3>2. Through(Append(c, x), keep) = Append(t, x) /\ Through(Append(c, x), Arriving(broken)) = Append(w, Whole(x))
      BY <2>2, <3>1, AppendIsConcat
    <3>3. t \in Seq(File) /\ w \in Seq(Specification) /\ w = [i \in DOMAIN t |-> Whole(t[i])]
      BY <2>2, <2>3
    <3> HIDE DEF t, w
    <3>4. Len(t) \in Nat /\ DOMAIN t = 1..Len(t) /\ DOMAIN w = 1..Len(w) /\ Len(w) \in Nat /\ Len(w) = Len(t)
      <4>1. Len(t) \in Nat /\ DOMAIN t = 1..Len(t) /\ DOMAIN w = 1..Len(w) /\ Len(w) \in Nat
        BY <3>3, LenProperties
      <4> QED BY <3>3, <4>1
    <3>5. /\ DOMAIN Append(t, x) = 1..(Len(t) + 1) /\ \A i \in 1..Len(t) : Append(t, x)[i] = t[i]
          /\ Append(t, x)[Len(t) + 1] = x
      BY <3>3, AppendProperties, LenProperties
    <3>6. /\ DOMAIN Append(w, Whole(x)) = 1..(Len(t) + 1)
          /\ \A i \in 1..Len(t) : Append(w, Whole(x))[i] = w[i]
          /\ Append(w, Whole(x))[Len(t) + 1] = Whole(x)
          /\ Append(w, Whole(x)) = [i \in DOMAIN Append(w, Whole(x)) |-> Append(w, Whole(x))[i]]
      BY <3>1, <3>3, <3>4, AppendProperties, LenProperties
    <3>7. \A i \in 1..(Len(t) + 1) : Append(w, Whole(x))[i] = Whole(Append(t, x)[i])
      <4> SUFFICES ASSUME NEW i \in 1..(Len(t) + 1) PROVE Append(w, Whole(x))[i] = Whole(Append(t, x)[i])
        OBVIOUS
      <4>1. i \in 1..Len(t) \/ i = Len(t) + 1
        BY <3>4
      <4>2. CASE i \in 1..Len(t)
        BY <4>2, <3>3, <3>4, <3>5, <3>6
      <4>3. CASE i = Len(t) + 1
        BY <4>3, <3>5, <3>6
      <4> QED BY <4>1, <4>2, <4>3
    <3>8. Append(w, Whole(x)) = [i \in DOMAIN Append(t, x) |-> Whole(Append(t, x)[i])]
      BY <3>5, <3>6, <3>7
    <3> QED BY <2>1, <3>2, <3>8
  <2> QED BY <2>4, <2>5
<1>6. Seq(File) \subseteq G
  <2> HIDE DEF G
  <2> QED BY <1>4, <1>5, SequencesByAppending
<1>7. W(specsChan) = Through(specsChan, Arriving(broken))
  BY <1>6
<1> QED BY <1>2, <1>7 DEF Arrived
-----------------------------------------------------------------------------
(* Command line: which specifications of a file there are.                 *)

\* What an argument brings of a file, and what the first n arguments do.
Brought(f, a) == IF f \in FilesOf(a) THEN AtItsIndex(flags.args[a].index)[Whole(f)] ELSE <<>>
OfArguments(f, n) == FlattenSeq([a \in 1..n |-> Brought(f, a)])

LEMMA BroughtType ==
  ASSUME flags \in Invocations, NEW f \in File, NEW a \in DOMAIN flags.args
  PROVE  Brought(f, a) \in Seq(Specification)
<1>1. flags.args[a].index \in Int
  BY FlagTypes
<1>2. AtItsIndex(flags.args[a].index)[Whole(f)] \in Seq(Specification)
  BY <1>1, WayTypes, WholeIsSpecification DEF Makes
<1> QED BY <1>2 DEF Brought

LEMMA OfArgumentsNext ==
  ASSUME flags \in Invocations, NEW f \in File, NEW n \in Nat, n < Len(flags.args)
  PROVE  /\ OfArguments(f, n) \in Seq(Specification)
         /\ OfArguments(f, n + 1) = OfArguments(f, n) \o Brought(f, n + 1)
<1> DEFINE each == [a \in 1..n |-> Brought(f, a)]
           more == [a \in 1..(n + 1) |-> Brought(f, a)]
<1>1. n + 1 \in Nat /\ \A a \in 1..(n + 1) : a \in DOMAIN flags.args
  BY FlagTypes
<1>2. \A a \in 1..(n + 1) : Brought(f, a) \in Seq(Specification)
  BY <1>1, BroughtType
<1>3. each \in Seq(Seq(Specification)) /\ Len(each) = n /\ \A a \in 1..n : each[a] = Brought(f, a)
  <2>1. \A a \in 1..n : a \in 1..(n + 1)
    OBVIOUS
  <2>2. each \in [1..n -> Seq(Specification)]
    BY <1>2, <2>1
  <2> QED BY <2>2, FunctionIsSeq
<1>4. /\ more \in Seq(Seq(Specification)) /\ Len(more) = n + 1
      /\ \A a \in 1..(n + 1) : more[a] = Brought(f, a)
  <2>1. more \in [1..(n + 1) -> Seq(Specification)]
    BY <1>2
  <2> QED BY <1>1, <2>1, FunctionIsSeq
<1> HIDE DEF each, more
<1>5. Brought(f, n + 1) \in Seq(Specification)
  BY <1>2
<1>6. more = Append(each, Brought(f, n + 1))
  <2> DEFINE x == Brought(f, n + 1)
             longer == Append(each, x)
  <2>1. /\ longer \in Seq(Seq(Specification)) /\ Len(longer) = n + 1
        /\ (\A a \in 1..n : longer[a] = each[a]) /\ longer[n + 1] = x
    BY <1>3, <1>5, AppendProperties
  <2>2. \A a \in 1..(n + 1) : more[a] = longer[a]
    <3> SUFFICES ASSUME NEW a \in 1..(n + 1) PROVE more[a] = longer[a]
      OBVIOUS
    <3>1. a \in 1..n \/ a = n + 1
      OBVIOUS
    <3> HIDE DEF longer
    <3> QED BY <1>3, <1>4, <2>1, <3>1
  <2> HIDE DEF longer
  <2>3. more = longer
    <3> DEFINE m == n + 1
    <3>1. Len(more) = m /\ Len(longer) = m /\ \A a \in 1..m : more[a] = longer[a]
      BY <1>4, <2>1, <2>2
    <3> HIDE DEF m
    <3> QED BY <1>4, <2>1, <3>1, SeqEqual
  <2> QED BY <2>3 DEF longer
<1>7. FlattenSeq(each) \in Seq(Specification)
        /\ FlattenSeq(Append(each, Brought(f, n + 1))) = FlattenSeq(each) \o Brought(f, n + 1)
  BY <1>3, <1>5, FlattenedAppend
<1> QED BY <1>6, <1>7 DEF OfArguments, each, more

LEMMA OfNoArguments == ASSUME NEW f PROVE OfArguments(f, 0) = <<>>
<1>1. [a \in 1..0 |-> Brought(f, a)] = <<>>
  OBVIOUS
<1> QED BY <1>1, FlattenedNothing DEF OfArguments

LEMMA OfArgumentsType ==
  ASSUME flags \in Invocations, NEW f \in File, NEW n \in Nat, n <= Len(flags.args)
  PROVE  OfArguments(f, n) \in Seq(Specification)
<1>1. CASE n = 0
  BY <1>1, OfNoArguments, EmptyLists
<1>2. CASE n # 0
  <2> DEFINE m == n - 1
  <2>1. m \in Nat /\ m < Len(flags.args) /\ m + 1 = n /\ n \in DOMAIN flags.args
    BY <1>2, FlagTypes
  <2> HIDE DEF m
  <2>2. OfArguments(f, m) \in Seq(Specification) /\ OfArguments(f, m + 1) = OfArguments(f, m) \o Brought(f, m + 1)
    BY <2>1, OfArgumentsNext
  <2>3. Brought(f, n) \in Seq(Specification)
    BY <2>1, BroughtType
  <2>4. OfArguments(f, m) \o Brought(f, n) \in Seq(Specification)
    BY <2>2, <2>3, ConcatProperties
  <2> QED BY <2>1, <2>2, <2>4
<1> QED BY <1>1, <1>2

\* What the files that were parsed are worth, by an argument's index, of one file.
Came(lost, chan, index, f) == Through(Through(Through(chan, Arriving(lost)), AtItsIndex(index)), OfFile(f))

\* And what one more file is.
Coming(lost, file, index, f) ==
  IF f = file /\ file \notin lost THEN AtItsIndex(index)[Whole(f)] ELSE <<>>

LEMMA OneCame ==
  ASSUME NEW lost, NEW chan \in Seq(File), NEW file \in File, NEW index \in Int, NEW f \in File
  PROVE  /\ Came(lost, chan, index, f) \in Seq(Specification)
         /\ Came(lost, Append(chan, file), index, f)
              = Came(lost, chan, index, f) \o Coming(lost, file, index, f)
<1> DEFINE ix == AtItsIndex(index)
           of == OfFile(f)
           Spec == Specification
           own == Arriving(lost)[file]
           brings == IF f = file /\ file \notin lost THEN ix[Whole(f)] ELSE <<>>
<1>1. Makes(Arriving(lost), File, Spec) /\ Makes(ix, Spec, Spec) /\ Makes(of, Spec, Spec)
  BY WayTypes
<1>2. /\ own = (IF file \in lost THEN <<>> ELSE <<Whole(file)>>) /\ own \in Seq(Spec)
      /\ Whole(file) \in Spec /\ Whole(file).file = file
  BY WholeIsSpecification DEF Arriving, Whole
<1>3. \A s \in Spec : of[s] = IF s.file = f THEN <<s>> ELSE <<>>
  BY DEF OfFile
<1>4. \A s \in Spec : ix[s] = <<>> \/ (\E r \in Spec : r.file = s.file /\ ix[s] = <<r>>)
  <2> SUFFICES ASSUME NEW s \in Spec PROVE ix[s] = <<>> \/ (\E r \in Spec : r.file = s.file /\ ix[s] = <<r>>)
    OBVIOUS
  <2>1. AtIndex(s, index) \in Spec /\ AtIndex(s, index).file = s.file
    BY IndexedSpecification
  <2>2. ix[s] = (IF index = -1 THEN <<s>>
                 ELSE IF HasScenario(AtIndex(s, index)) THEN <<AtIndex(s, index)>> ELSE <<>>)
    BY DEF AtItsIndex
  <2> HIDE DEF ix
  <2>3. ix[s] = <<s>> \/ ix[s] = <<AtIndex(s, index)>> \/ ix[s] = <<>>
    BY <2>2
  <2> QED BY <2>1, <2>3
<1>5. Through(Through(own, ix), of) = brings
  <2>1. CASE file \in lost
    <3>1. own = <<>>
      BY <2>1, <1>2
    <3>2. Through(Through(own, ix), of) = <<>>
      BY <3>1, ThroughNothing
    <3> QED BY <2>1, <3>2
  <2>2. CASE file \notin lost
    <3>1. own = <<Whole(file)>>
      BY <2>2, <1>2
    <3> DEFINE w == Whole(file)
    <3>2. w \in Spec /\ w.file = file
      BY <1>2
    <3> HIDE DEF w, ix, of, Spec
    <3>3. Through(<<w>>, ix) = ix[w]
      BY <1>1, <3>2, ThroughOne
    <3>4. CASE ix[w] = <<>>
      BY <3>1, <3>3, <3>4, ThroughNothing, <2>2 DEF w
    <3>5. CASE \E r \in Spec : r.file = w.file /\ ix[w] = <<r>>
      <4>1. PICK r \in Spec : r.file = w.file /\ ix[w] = <<r>>
        BY <3>5
      <4>2. Through(<<r>>, of) = of[r]
        BY <1>1, ThroughOne
      <4>3. of[r] = IF file = f THEN <<r>> ELSE <<>>
        BY <1>3, <3>2, <4>1
      <4>4. Through(Through(own, ix), of) = IF file = f THEN ix[w] ELSE <<>>
        BY <3>1, <3>3, <4>1, <4>2, <4>3 DEF w
      <4> QED BY <2>2, <4>4 DEF w
    <3> QED BY <1>4, <3>2, <3>4, <3>5
  <2> QED BY <2>1, <2>2
<1> DEFINE c1 == Through(chan, Arriving(lost))
<1>6. c1 \in Seq(Spec) /\ Through(Append(chan, file), Arriving(lost)) = c1 \o own
  BY <1>1, ThroughAppend
<1>9. Came(lost, chan, index, f) = Through(Through(c1, ix), of)
  BY DEF Came
<1>10. Came(lost, Append(chan, file), index, f) = Through(Through(c1 \o own, ix), of)
  BY <1>6 DEF Came
<1> HIDE DEF ix, of, Spec, own, brings, c1
<1> DEFINE c2 == Through(c1, ix)
           o2 == Through(own, ix)
<1>7. c2 \in Seq(Spec) /\ o2 \in Seq(Spec) /\ Through(c1 \o own, ix) = c2 \o o2
  <2>1. c2 \in Seq(Spec) /\ o2 \in Seq(Spec)
    BY <1>1, <1>2, <1>6, ThroughType
  <2>2. Through(c1 \o own, ix) = Through(c1, ix) \o Through(own, ix)
    <3>1. c1 \in Seq(Spec) /\ own \in Seq(Spec) /\ Makes(ix, Spec, Spec)
      BY <1>1, <1>2, <1>6
    <3> QED BY ONLY <3>1, ThroughConcat
  <2> QED BY <2>1, <2>2
<1> HIDE DEF c2, o2
<1>8. Through(c2, of) \in Seq(Spec) /\ Through(c2 \o o2, of) = Through(c2, of) \o Through(o2, of)
  <2>1. Through(c2, of) \in Seq(Spec)
    BY <1>1, <1>7, ThroughType
  <2>2. Through(c2 \o o2, of) = Through(c2, of) \o Through(o2, of)
    BY <1>1, <1>7, ThroughConcat
  <2> QED BY <2>1, <2>2
<1>11. Came(lost, chan, index, f) \in Seq(Spec) /\ Came(lost, Append(chan, file), index, f) = Came(lost, chan, index, f) \o brings
  BY <1>5, <1>7, <1>8, <1>9, <1>10 DEF c2, o2
<1> QED BY <1>11 DEF Coming, brings, ix, Spec
-----------------------------------------------------------------------------
(* Command line: the order of the specifications.                          *)

\* f is a bijection.
LEMMA OneToOne ==
  ASSUME NEW S, NEW T, IsFiniteSet(S), NEW f \in [S -> T],
         \A x, y \in S : f[x] = f[y] => x = y, \A t \in T : \E x \in S : f[x] = t
  PROVE  IsFiniteSet(T) /\ Cardinality(T) = Cardinality(S)
<1>1. f \in Bijection(S, T)
  BY DEF Bijection, Injection, Surjection, IsInjective
<1>2. ExistsBijection(S, T)
  BY <1>1 DEF ExistsBijection
<1> QED BY <1>2, FS_Bijection

\* What the sorted list has of the first m files.
SortedTo(all, m) == FlattenSeq([f \in 1..m |-> Through(all, OfFile(f))])

UpTo(V, m) == {s \in V : s.file \in 1..m}
ThatFile(V, f) == {s \in V : s.file = f}

LEMMA SortedToNext ==
  ASSUME NEW all \in Seq(Specification), NEW m \in Nat, m < Len(Contents)
  PROVE  /\ SortedTo(all, m) \in Seq(Specification)
         /\ m + 1 \in File /\ Through(all, OfFile(m + 1)) \in Seq(Specification)
         /\ SortedTo(all, m + 1) = SortedTo(all, m) \o Through(all, OfFile(m + 1))
<1> DEFINE each == [f \in 1..m |-> Through(all, OfFile(f))]
           more == [f \in 1..(m + 1) |-> Through(all, OfFile(f))]
           last == Through(all, OfFile(m + 1))
<1>1. m + 1 \in Nat /\ \A f \in 1..(m + 1) : f \in File
  BY CommandAssumption, LenProperties DEF File
<1>2. \A f \in 1..(m + 1) : Through(all, OfFile(f)) \in Seq(Specification)
  <2> SUFFICES ASSUME NEW f \in 1..(m + 1) PROVE Through(all, OfFile(f)) \in Seq(Specification)
    OBVIOUS
  <2>1. Makes(OfFile(f), Specification, Specification)
    BY <1>1, WayTypes
  <2> QED BY <2>1, ThroughType
<1>3. each \in Seq(Seq(Specification)) /\ Len(each) = m /\ \A f \in 1..m : each[f] = Through(all, OfFile(f))
  <2>1. \A f \in 1..m : f \in 1..(m + 1)
    OBVIOUS
  <2>2. each \in [1..m -> Seq(Specification)]
    BY <1>2, <2>1
  <2> QED BY <2>2, FunctionIsSeq
<1>4. /\ more \in Seq(Seq(Specification)) /\ Len(more) = m + 1
      /\ \A f \in 1..(m + 1) : more[f] = Through(all, OfFile(f))
  <2>1. more \in [1..(m + 1) -> Seq(Specification)]
    BY <1>2
  <2> QED BY <1>1, <2>1, FunctionIsSeq
<1>5. last \in Seq(Specification) /\ m + 1 \in File
  BY <1>1, <1>2
<1>6. \A f \in 1..m : each[f] = more[f]
  BY <1>3, <1>4
<1>7. more[m + 1] = last
  BY <1>4
<1> HIDE DEF each, more, last
<1>8. more = Append(each, last)
  <2> DEFINE longer == Append(each, last)
             k == m + 1
  <2>1. /\ longer \in Seq(Seq(Specification)) /\ Len(longer) = k
        /\ (\A f \in 1..m : longer[f] = each[f]) /\ longer[k] = last
    BY <1>3, <1>5, AppendProperties
  <2> HIDE DEF longer
  <2>2. \A f \in 1..k : more[f] = longer[f]
    <3> SUFFICES ASSUME NEW f \in 1..k PROVE more[f] = longer[f]
      OBVIOUS
    <3>1. f \in 1..m \/ f = k
      OBVIOUS
    <3> QED BY <1>6, <1>7, <2>1, <3>1
  <2>3. Len(more) = k
    BY <1>4
  <2> HIDE DEF k
  <2>4. more = longer
    BY <1>4, <2>1, <2>2, <2>3, SeqEqual
  <2> QED BY <2>4 DEF longer
<1>9. FlattenSeq(each) \in Seq(Specification) /\ FlattenSeq(Append(each, last)) = FlattenSeq(each) \o last
  BY <1>3, <1>5, FlattenedAppend
<1> QED BY <1>5, <1>8, <1>9 DEF SortedTo, each, more, last

\* What is counted of one more file is counted for itself.
LEMMA CountUpToNext ==
  ASSUME NEW all \in Seq(Specification), NEW m \in Nat, NEW V
  PROVE  Count(all, UpTo(V, m + 1)) = Count(all, UpTo(V, m)) + Count(all, ThatFile(V, m + 1))
<1> DEFINE P == Occurring(all, UpTo(V, m))
           Q == Occurring(all, ThatFile(V, m + 1))
<1>1. IsFiniteSet(P) /\ IsFiniteSet(Q) /\ Cardinality(P) \in Nat /\ Cardinality(Q) \in Nat
  BY CountType DEF Count
<1>2. 1..(m + 1) = (1..m) \cup {m + 1} /\ m + 1 \notin 1..m
  OBVIOUS
<1>3. Occurring(all, UpTo(V, m + 1)) = P \cup Q /\ P \cap Q = {}
  BY <1>2 DEF Occurring, UpTo, ThatFile
<1> HIDE DEF P, Q
<1>4. Cardinality(P \cup Q) = Cardinality(P) + Cardinality(Q) - Cardinality(P \cap Q)
  BY <1>1, FS_Union
<1>5. Cardinality(P \cup Q) = Cardinality(P) + Cardinality(Q)
  <2>1. Cardinality(P \cap Q) = 0
    BY <1>3, FS_EmptySet
  <2> QED BY <1>1, <1>4, <2>1
<1> QED BY <1>3, <1>5 DEF Count, P, Q

LEMMA CountOfFile ==
  ASSUME NEW all \in Seq(Specification), NEW f \in File, NEW V
  PROVE  Count(Through(all, OfFile(f)), V) = Count(all, ThatFile(V, f))
<1> DEFINE of == OfFile(f)
           W == ThatFile(V, f)
<1>1. Makes(of, Specification, Specification)
  BY WayTypes
<1>2. ASSUME NEW s \in Specification PROVE Count(of[s], V) = One(s, W)
  <2>1. Count(<<s>>, V) = One(s, V) /\ Count(<<>>, V) = 0
    BY CountOne, CountNothing
  <2>2. CASE s.file = f
    <3>1. of[s] = <<s>>
      BY <2>2 DEF OfFile
    <3>2. One(s, V) = One(s, W)
      BY <2>2 DEF One, ThatFile
    <3> QED BY <2>1, <3>1, <3>2
  <2>3. CASE s.file # f
    <3>1. of[s] = <<>>
      BY <2>3 DEF OfFile
    <3>2. One(s, W) = 0
      BY <2>3 DEF One, ThatFile
    <3> QED BY <2>1, <3>1, <3>2
  <2> QED BY <2>2, <2>3
<1> HIDE DEF of, W
<1>3. Count(Through(all, of), V) = Count(all, W)
  BY <1>1, <1>2, CountThrough
<1> QED BY <1>3 DEF of, W

LEMMA CountSortedTo ==
  ASSUME NEW all \in Seq(Specification), NEW V, NEW m \in 0..Len(Contents)
  PROVE  SortedTo(all, m) \in Seq(Specification) /\ Count(SortedTo(all, m), V) = Count(all, UpTo(V, m))
<1> DEFINE Good(k) == SortedTo(all, k) \in Seq(Specification) /\ Count(SortedTo(all, k), V) = Count(all, UpTo(V, k))
           T == {k \in 0..Len(Contents) : ~Good(k)}
<1>1. Len(Contents) \in Nat
  BY CommandAssumption, LenProperties
<1>2. Good(0)
  <2>1. [f \in 1..0 |-> Through(all, OfFile(f))] = <<>>
    OBVIOUS
  <2>2. SortedTo(all, 0) = <<>>
    BY <2>1, FlattenedNothing DEF SortedTo
  <2>3. Count(<<>>, V) = 0
    BY CountNothing
  <2>4. Occurring(all, UpTo(V, 0)) = {}
    BY DEF Occurring, UpTo
  <2>5. Count(all, UpTo(V, 0)) = 0
    BY <2>4, FS_EmptySet DEF Count
  <2> QED BY <2>2, <2>3, <2>5, EmptyLists
<1>3. ASSUME NEW k \in Nat, k < Len(Contents), Good(k) PROVE Good(k + 1)
  <2> DEFINE s == SortedTo(all, k)
             t == Through(all, OfFile(k + 1))
             u == SortedTo(all, k + 1)
  <2>1. s \in Seq(Specification) /\ t \in Seq(Specification) /\ u = s \o t /\ k + 1 \in File
    BY <1>3, SortedToNext
  <2>2. Count(t, V) = Count(all, ThatFile(V, k + 1))
    BY <2>1, CountOfFile
  <2>3. Count(s, V) = Count(all, UpTo(V, k))
    BY <1>3
  <2> HIDE DEF s, t, u
  <2>4. u \in Seq(Specification) /\ Count(u, V) = Count(s, V) + Count(t, V)
    BY <2>1, ConcatProperties, CountConcat
  <2>5. Count(all, UpTo(V, k + 1)) = Count(all, UpTo(V, k)) + Count(all, ThatFile(V, k + 1))
    BY CountUpToNext
  <2> QED BY <2>2, <2>3, <2>4, <2>5 DEF u
<1> HIDE DEF Good
<1>4. T = {}
  <2> SUFFICES ASSUME T # {} PROVE FALSE
    OBVIOUS
  <2>1. T \in SUBSET Nat
    OBVIOUS
  <2>2. PICK k \in T : \A y \in T : k <= y
    BY <2>1, Smallest
  <2>3. k # 0 /\ k \in 0..Len(Contents) /\ ~Good(k)
    BY <1>2, <2>2
  <2> DEFINE j == k - 1
  <2>4. j \in Nat /\ j < Len(Contents) /\ j + 1 = k /\ j \notin T /\ j \in 0..Len(Contents)
    BY <1>1, <2>2, <2>3
  <2> HIDE DEF j
  <2>5. Good(j)
    BY <2>4
  <2>6. Good(j + 1)
    BY <1>3, <2>4, <2>5
  <2> QED BY <2>3, <2>4, <2>6
<1>5. Good(m)
  BY <1>4
<1> QED BY <1>5 DEF Good

\* Sorting neither adds nor drops anything.
LEMMA CountSorted ==
  ASSUME NEW all \in Seq(Specification), NEW V
  PROVE  /\ Sorted(all) \in Seq(Specification) /\ Len(Sorted(all)) = Len(all)
         /\ V \subseteq Specification => Count(Sorted(all), V) = Count(all, V)
<1> DEFINE n == Len(Contents)
<1>1. n \in Nat /\ File = 1..n /\ n \in 0..n
  BY CommandAssumption, LenProperties DEF File
<1>2. Sorted(all) = SortedTo(all, n)
  BY <1>1, SortedThrough DEF SortedTo
<1>3. Sorted(all) \in Seq(Specification)
  BY <1>1, <1>2, CountSortedTo
<1>4. ASSUME NEW U, U \subseteq Specification PROVE Count(Sorted(all), U) = Count(all, U)
  <2>1. UpTo(U, n) = U
    <3>1. \A s \in Specification : s.file \in File
      BY DEF Specification
    <3> QED BY <1>1, <1>4, <3>1 DEF UpTo
  <2>2. Count(SortedTo(all, n), U) = Count(all, UpTo(U, n))
    BY <1>1, CountSortedTo
  <2> QED BY <1>2, <2>1, <2>2
<1>5. ASSUME NEW s \in Seq(Specification) PROVE Count(s, Specification) = Len(s)
  <2>1. Len(s) \in Nat /\ \A k \in 1..Len(s) : s[k] \in Specification
    BY LenProperties, ElementOfSeq
  <2>2. Occurring(s, Specification) = 1..Len(s)
    BY <2>1 DEF Occurring
  <2>3. Cardinality(1..Len(s)) = Len(s)
    <3> DEFINE k == Len(s)
    <3>1. k \in Nat
      BY <2>1
    <3> HIDE DEF k
    <3>2. Cardinality(1..k) = IF 1 > k THEN 0 ELSE k - 1 + 1
      BY <3>1, FS_Interval
    <3>3. Cardinality(1..k) = k
      BY <3>1, <3>2
    <3> QED BY <3>3 DEF k
  <2> QED BY <2>2, <2>3 DEF Count
<1>6. Len(Sorted(all)) = Len(all)
  <2>1. Count(Sorted(all), Specification) = Count(all, Specification)
    BY <1>4
  <2>2. Count(Sorted(all), Specification) = Len(Sorted(all)) /\ Count(all, Specification) = Len(all)
    BY <1>3, <1>5
  <2> QED BY <2>1, <2>2
<1> QED BY <1>3, <1>4, <1>6

\* In every order a specification occurs as often.
LEMMA CountOrdered ==
  ASSUME NEW all \in Seq(Specification), NEW order \in SortSpecsList(all)
  PROVE  /\ order \in Seq(Specification) /\ Len(order) = Len(all)
         /\ \A V : Count(order, V) = Count(all, V)
<1>1. order \in Seq(Specification) /\ Len(order) = Len(all)
  BY OrderedBy
<1>2. PICK place \in [1..Len(all) -> 1..Len(all)] :
        /\ \A i, j \in 1..Len(all) : place[i] = place[j] => i = j
        /\ \A j \in 1..Len(all) : \E i \in 1..Len(all) : place[i] = j
        /\ \A i \in 1..Len(all) : order[i] = all[place[i]]
  BY OrderedBy
<1>3. ASSUME NEW V PROVE Count(order, V) = Count(all, V)
  <2> DEFINE S == Occurring(order, V)
             T == Occurring(all, V)
             f == [n \in S |-> place[n]]
  <2>1. IsFiniteSet(S)
    BY <1>1, CountType
  <2>2. f \in [S -> T]
    BY <1>1, <1>2 DEF Occurring
  <2>3. \A x, y \in S : f[x] = f[y] => x = y
    BY <1>1, <1>2 DEF Occurring
  <2>4. \A t \in T : \E x \in S : f[x] = t
    BY <1>1, <1>2 DEF Occurring
  <2> HIDE DEF S, T, f
  <2>5. Cardinality(T) = Cardinality(S)
    BY <2>1, <2>2, <2>3, <2>4, OneToOne
  <2> QED BY <2>5 DEF Count, S, T
<1> QED BY <1>1, <1>3

-----------------------------------------------------------------------------
(* Command line: the invariant of what is selected.                        *)

\* What the parsers have sent of the files of an argument does not depend on their order.
ParsedInv ==
  arg \in DOMAIN flags.args =>
    \A f \in File : Came(broken, specsChan, flags.args[arg].index, f)
      = IF f \in ToSet(specsChan) /\ f \notin broken THEN AtItsIndex(flags.args[arg].index)[Whole(f)] ELSE <<>>

\* Of every file there are the specifications of the arguments, in their order.
CollectedInv ==
  ~flags.format => \A f \in File : Through(specs, OfFile(f)) = OfArguments(f, arg - 1)

\* What is selected is what the filters leave, in an order by file.
FilteredInv ==
  selected # <<>> =>
    /\ ~flags.format /\ arg \notin DOMAIN flags.args
    /\ ~Panics(ByTags(specs)) /\ selected \in SortSpecsList(ByGroup(ByTags(specs)))

\* What there is to select without groups, whatever the order in which it was parsed.
Canonical == FlattenSeq([f \in File |-> Through(OfArguments(f, Len(flags.args)), OfTags)])

\* The list has the same specifications, each as often.
IsCanonical(all) ==
  all \in Seq(Specification) /\ \A V \in SUBSET Specification : Count(all, V) = Count(Canonical, V)

EarlierInv == flags.group = -1 /\ earlier # <<>> => IsCanonical(earlier)

SelectInv == ParsedInv /\ CollectedInv /\ FilteredInv /\ EarlierInv

\* A specification goes through the filter by tags and to its file in any order.
LEMMA TagsKeepFiles ==
  ASSUME NEW f \in File, NEW all \in Seq(Specification)
  PROVE  Through(Through(all, OfTags), OfFile(f)) = Through(Through(all, OfFile(f)), OfTags)
<1> DEFINE tags == OfTags
           of == OfFile(f)
           Spec == Specification
<1>1. Makes(tags, Spec, Spec) /\ Makes(of, Spec, Spec)
  BY WayTypes
<1>2. \A s \in Spec : of[s] = IF s.file = f THEN <<s>> ELSE <<>>
  BY DEF OfFile
<1>3. \A s \in Spec : tags[s] = <<>> \/ (\E r \in Spec : r.file = s.file /\ tags[s] = <<r>>)
  <2> SUFFICES ASSUME NEW s \in Spec PROVE tags[s] = <<>> \/ (\E r \in Spec : r.file = s.file /\ tags[s] = <<r>>)
    OBVIOUS
  <2>1. Qualifying(s) \in Spec /\ Qualifying(s).file = s.file
    BY QualifyingSpecification
  <2>2. tags[s] = (IF ~flags.tagged THEN <<s>>
                   ELSE IF HasScenario(Qualifying(s)) THEN <<Qualifying(s)>> ELSE <<>>)
    BY DEF OfTags
  <2> HIDE DEF tags
  <2>3. tags[s] = <<s>> \/ tags[s] = <<Qualifying(s)>> \/ tags[s] = <<>>
    BY <2>2
  <2> QED BY <2>1, <2>3
<1> HIDE DEF tags, of, Spec
<1>4. ASSUME NEW s \in Spec PROVE Through(tags[s], of) = Through(of[s], tags)
  <2>1. Through(<<s>>, tags) = tags[s] /\ Through(<<>>, tags) = <<>> /\ Through(<<>>, of) = <<>>
    <3>1. Through(<<s>>, tags) = tags[s]
      BY <1>1, ThroughOne
    <3> QED BY <3>1, ThroughNothing
  <2>2. CASE tags[s] = <<>>
    <3>1. of[s] = <<s>> \/ of[s] = <<>>
      BY <1>2
    <3> QED BY <2>1, <2>2, <3>1
  <2>3. CASE \E r \in Spec : r.file = s.file /\ tags[s] = <<r>>
    <3>1. PICK r \in Spec : r.file = s.file /\ tags[s] = <<r>>
      BY <2>3
    <3>2. Through(<<r>>, of) = of[r]
      BY <1>1, ThroughOne
    <3>3. CASE s.file = f
      <4>1. of[s] = <<s>> /\ of[r] = <<r>>
        BY <1>2, <3>1, <3>3
      <4> QED BY <2>1, <3>1, <3>2, <4>1
    <3>4. CASE s.file # f
      <4>1. of[s] = <<>> /\ of[r] = <<>>
        BY <1>2, <3>1, <3>4
      <4> QED BY <2>1, <3>1, <3>2, <4>1
    <3> QED BY <3>3, <3>4
  <2> QED BY <1>3, <2>2, <2>3
<1>5. Through(Through(all, tags), of) = Through(Through(all, of), tags)
  <2>1. all \in Seq(Spec)
    BY DEF Spec
  <2> QED BY ONLY <1>1, <1>4, <2>1, ThroughCommutes
<1> QED BY <1>5 DEF tags, of

\* Without groups it is known from the call what is selected.
LEMMA SelectedCanonical ==
  CommandInv /\ SelectInv /\ flags.group = -1 /\ selected # <<>> => IsCanonical(selected)
<1> SUFFICES ASSUME CommandInv, SelectInv, flags.group = -1, selected # <<>> PROVE IsCanonical(selected)
  OBVIOUS
<1>1. specs \in Seq(Specification) /\ ByTags(specs) \in Seq(Specification) /\ flags \in Invocations
  BY TaggedElements DEF CommandInv, CommandTypes
<1>2. selected \in SortSpecsList(ByTags(specs)) /\ ~flags.format
  BY DEF SelectInv, FilteredInv, ByGroup
<1>3. arg - 1 = Len(flags.args)
  <2>1. arg \in Nat \ {0} /\ arg <= Len(flags.args) + 1 /\ arg \notin DOMAIN flags.args
    BY DEF SelectInv, FilteredInv, CommandInv, CommandTypes
  <2> QED BY <1>1, <2>1, FlagTypes
<1>4. \A f \in File : Through(ByTags(specs), OfFile(f)) = Through(OfArguments(f, Len(flags.args)), OfTags)
  <2> SUFFICES ASSUME NEW f \in File
               PROVE  Through(ByTags(specs), OfFile(f)) = Through(OfArguments(f, Len(flags.args)), OfTags)
    OBVIOUS
  <2>1. ByTags(specs) = Through(specs, OfTags)
    BY <1>1, TaggedThrough
  <2>2. Through(Through(specs, OfTags), OfFile(f)) = Through(Through(specs, OfFile(f)), OfTags)
    BY <1>1, TagsKeepFiles
  <2>3. Through(specs, OfFile(f)) = OfArguments(f, Len(flags.args))
    BY <1>2, <1>3 DEF SelectInv, CollectedInv
  <2> QED BY <2>1, <2>2, <2>3
<1>5. Sorted(ByTags(specs)) = FlattenSeq([f \in File |-> Through(ByTags(specs), OfFile(f))])
  BY <1>1, SortedThrough
<1>6. [f \in File |-> Through(ByTags(specs), OfFile(f))]
        = [f \in File |-> Through(OfArguments(f, Len(flags.args)), OfTags)]
  BY <1>4
<1>7. Sorted(ByTags(specs)) = Canonical
  BY <1>5, <1>6 DEF Canonical
<1>8. selected \in Seq(Specification) /\ \A V : Count(selected, V) = Count(ByTags(specs), V)
  BY <1>1, <1>2, CountOrdered
<1>9. \A V \in SUBSET Specification : Count(ByTags(specs), V) = Count(Canonical, V)
  BY <1>1, <1>7, CountSorted
<1> QED BY <1>8, <1>9 DEF IsCanonical

\* What the parsers, the validator and the execution do not touch.
Selects == <<flags, broken, arg, specsChan, specs, selected, earlier>>

LEMMA SelectKept == SelectInv /\ UNCHANGED Selects => SelectInv'
<1> SUFFICES ASSUME SelectInv, UNCHANGED Selects PROVE SelectInv'
  OBVIOUS
<1> USE DEF Selects
<1>1. ParsedInv'
  BY DEF SelectInv, ParsedInv
<1>2. CollectedInv'
  BY DEF SelectInv, CollectedInv, Through, OfArguments, Brought, FilesOf
<1>3. FilteredInv'
  BY DEF SelectInv, FilteredInv, Panics, GroupIsValid, ByTags, ByGroup, Distributions, Dealt
<1>4. EarlierInv'
  BY DEF SelectInv, EarlierInv, IsCanonical, Canonical, OfArguments, Brought, FilesOf, OfTags
<1> QED BY <1>1, <1>2, <1>3, <1>4 DEF SelectInv

LEMMA SelectInit == CommandInit => SelectInv
<1> SUFFICES ASSUME CommandInit PROVE SelectInv
  OBVIOUS
<1>1. ParsedInv
  <2>1. \A index, f : Came(broken, <<>>, index, f) = <<>>
    BY ThroughNothing DEF Came
  <2> QED BY <2>1, EmptyLists DEF CommandInit, ParsedInv
<1>2. CollectedInv
  <2>1. arg - 1 = 0 /\ specs = <<>>
    BY DEF CommandInit
  <2> QED BY <2>1, ThroughNothing, OfNoArguments DEF CollectedInv
<1>3. FilteredInv /\ EarlierInv
  BY DEF CommandInit, FilteredInv, EarlierInv
<1> QED BY <1>1, <1>2, <1>3 DEF SelectInv

LEMMA SendSpecSelect ==
  ASSUME CommandInv, SelectInv, NEW file \in File, SendSpec(file) PROVE SelectInv'
<1>1. /\ specsChan \in Seq(File) /\ flags \in Invocations /\ arg \in DOMAIN flags.args
      /\ file \notin ToSet(specsChan) /\ specsChan' = Append(specsChan, file)
      /\ UNCHANGED <<flags, broken, arg, specs, selected, earlier>>
  BY DEF SendSpec, Parsing, command, CommandInv, CommandTypes
<1> DEFINE index == flags.args[arg].index
<1>2. index \in Int
  BY <1>1, FlagTypes
<1>3. ToSet(specsChan') = ToSet(specsChan) \cup {file}
  BY <1>1, Appended
<1>4. ParsedInv'
  <2>1. \A f \in File : Came(broken, specsChan, index, f)
          = IF f \in ToSet(specsChan) /\ f \notin broken THEN AtItsIndex(index)[Whole(f)] ELSE <<>>
    BY <1>1 DEF SelectInv, ParsedInv
  <2> HIDE DEF index
  <2>2. ASSUME NEW f \in File
        PROVE  Came(broken, Append(specsChan, file), index, f)
          = IF f \in ToSet(specsChan) \cup {file} /\ f \notin broken THEN AtItsIndex(index)[Whole(f)] ELSE <<>>
    <3> DEFINE own == AtItsIndex(index)[Whole(f)]
               more == Coming(broken, file, index, f)
               now == Came(broken, specsChan, index, f)
    <3>1. now \in Seq(Specification) /\ Came(broken, Append(specsChan, file), index, f) = now \o more
      BY <1>1, <1>2, OneCame
    <3>2. own \in Seq(Specification) /\ <<>> \in Seq(Specification)
      BY <1>2, WayTypes, WholeIsSpecification DEF Makes
    <3>3. now = IF f \in ToSet(specsChan) /\ f \notin broken THEN own ELSE <<>>
      BY <2>1
    <3> HIDE DEF now, own
    <3>4. now \o <<>> = now /\ <<>> \o own = own
      BY <3>1, <3>2, ConcatEmptySeq
    <3>5. CASE f = file /\ file \notin broken
      <4>1. now = <<>> /\ more = own
        BY <3>5, <3>3, <1>1 DEF Coming, own
      <4> HIDE DEF more
      <4> QED BY <3>1, <3>4, <3>5, <4>1 DEF own
    <3>6. CASE ~(f = file /\ file \notin broken)
      <4>1. more = <<>>
        BY <3>6 DEF Coming
      <4> HIDE DEF more
      <4> QED BY <3>1, <3>3, <3>4, <3>6, <4>1 DEF own
    <3> QED BY <3>5, <3>6
  <2>3. \A f \in File : Came(broken', specsChan', flags'.args[arg'].index, f)
          = IF f \in ToSet(specsChan') /\ f \notin broken' THEN AtItsIndex(flags'.args[arg'].index)[Whole(f)] ELSE <<>>
    BY <1>1, <1>3, <2>2 DEF index
  <2> QED BY <2>3 DEF ParsedInv
<1>5. CollectedInv'
  BY <1>1 DEF SelectInv, CollectedInv, Through, OfArguments, Brought, FilesOf
<1>6. FilteredInv'
  BY <1>1 DEF SelectInv, FilteredInv, Panics, GroupIsValid, ByTags, ByGroup, Distributions, Dealt
<1>7. EarlierInv'
  BY <1>1 DEF SelectInv, EarlierInv, IsCanonical, Canonical, OfArguments, Brought, FilesOf, OfTags
<1> QED BY <1>4, <1>5, <1>6, <1>7 DEF SelectInv

LEMMA NextArgumentSelect ==
  ASSUME CommandInv, SelectInv, NextArgument PROVE SelectInv'
<1>1. /\ specsChan \in Seq(File) /\ specs \in Seq(Specification) /\ flags \in Invocations
      /\ arg \in Nat \ {0} /\ arg \in DOMAIN flags.args /\ Finished /\ ~flags.format /\ Sent \cap broken = {}
      /\ specs' = specs \o FilterItems(Arrived, flags.args[arg].index)
      /\ arg' = arg + 1 /\ specsChan' = <<>> /\ UNCHANGED <<flags, broken, selected, earlier>>
  BY DEF NextArgument, Parsing, command, CommandInv, CommandTypes
<1> DEFINE index == flags.args[arg].index
           more == FilterItems(Arrived, index)
<1>2. index \in Int /\ ToSet(specsChan) = FilesOf(arg) /\ FilesOf(arg) \cap broken = {}
  BY <1>1, FlagTypes, AllSent
<1>3. more \in Seq(Specification) /\ \A f \in File : Through(more, OfFile(f)) = Brought(f, arg)
  <2>1. Arrived = Through(specsChan, Arriving(broken)) /\ Arrived \in Seq(Specification)
    BY <1>1, ArrivedThrough, ArrivedElements
  <2>2. more = Through(Arrived, AtItsIndex(index)) /\ more \in Seq(Specification)
    BY <1>2, <2>1, FilteredThrough, FilteredElements
  <2>3. ASSUME NEW f \in File PROVE Through(more, OfFile(f)) = Brought(f, arg)
    <3>1. Through(more, OfFile(f)) = Came(broken, specsChan, index, f)
      BY <2>1, <2>2 DEF Came
    <3>2. Came(broken, specsChan, index, f)
            = IF f \in ToSet(specsChan) /\ f \notin broken THEN AtItsIndex(index)[Whole(f)] ELSE <<>>
      BY <1>1 DEF SelectInv, ParsedInv
    <3>3. f \in ToSet(specsChan) /\ f \notin broken <=> f \in FilesOf(arg)
      BY <1>2
    <3> QED BY <3>1, <3>2, <3>3 DEF Brought
  <2> QED BY <2>2, <2>3
<1>4. ParsedInv'
  <2>1. \A lost, i, f : Came(lost, <<>>, i, f) = <<>>
    BY ThroughNothing DEF Came
  <2> QED BY <1>1, <2>1, EmptyLists DEF ParsedInv
<1>5. CollectedInv'
  <2> DEFINE n == arg - 1
  <2>1. n \in Nat /\ n < Len(flags.args) /\ n + 1 = arg /\ arg' - 1 = n + 1
    BY <1>1, FlagTypes
  <2> HIDE DEF n, more
  <2>2. ASSUME NEW f \in File PROVE Through(specs \o more, OfFile(f)) = OfArguments(f, n + 1)
    <3>1. Through(specs \o more, OfFile(f)) = Through(specs, OfFile(f)) \o Through(more, OfFile(f))
      <4> DEFINE of == OfFile(f)
      <4>1. Makes(of, Specification, Specification) /\ specs \in Seq(Specification) /\ more \in Seq(Specification)
        BY <1>1, <1>3, WayTypes
      <4> HIDE DEF of
      <4>2. Through(specs \o more, of) = Through(specs, of) \o Through(more, of)
        BY ONLY <4>1, ThroughConcat
      <4> QED BY <4>2 DEF of
    <3>2. Through(specs, OfFile(f)) = OfArguments(f, n)
      BY <1>1 DEF SelectInv, CollectedInv, n
    <3>3. OfArguments(f, n + 1) = OfArguments(f, n) \o Brought(f, n + 1)
      BY <1>1, <2>1, OfArgumentsNext
    <3> QED BY <1>3, <2>1, <3>1, <3>2, <3>3
  <2>3. specs' = specs \o more
    BY <1>1 DEF more
  <2>4. \A f \in File : Through(specs', OfFile(f)) = OfArguments(f, arg' - 1)
    BY <2>1, <2>2, <2>3
  <2>5. \A f \in File : OfArguments(f, arg - 1)' = OfArguments(f, arg' - 1)
    BY <1>1 DEF OfArguments, Brought, FilesOf
  <2> QED BY <2>4, <2>5 DEF CollectedInv, Through
<1>6. FilteredInv'
  BY <1>1 DEF SelectInv, FilteredInv
<1>7. EarlierInv'
  BY <1>1 DEF SelectInv, EarlierInv, IsCanonical, Canonical, OfArguments, Brought, FilesOf, OfTags
<1> QED BY <1>4, <1>5, <1>6, <1>7 DEF SelectInv

LEMMA FormatSpecsSelect ==
  ASSUME CommandInv, SelectInv, FormatSpecs PROVE SelectInv'
<1>1. arg \in DOMAIN flags.args /\ flags.format /\ UNCHANGED <<flags, broken, arg, specsChan, selected, earlier>>
  BY DEF FormatSpecs, Parsing, command
<1>2. ParsedInv'
  BY <1>1 DEF SelectInv, ParsedInv
<1>3. CollectedInv' /\ FilteredInv'
  BY <1>1 DEF SelectInv, CollectedInv, FilteredInv
<1>4. EarlierInv'
  BY <1>1 DEF SelectInv, EarlierInv, IsCanonical, Canonical, OfArguments, Brought, FilesOf, OfTags
<1> QED BY <1>2, <1>3, <1>4 DEF SelectInv

LEMMA SelectSpecsSelect ==
  ASSUME CommandInv, SelectInv, SelectSpecs PROVE SelectInv'
<1>1. phase = "parse" /\ arg \notin DOMAIN flags.args /\ UNCHANGED <<flags, broken, arg, specsChan, specs, earlier>>
  BY DEF SelectSpecs, command, parser
<1>2. ParsedInv'
  BY <1>1 DEF SelectInv, ParsedInv
<1>3. CollectedInv'
  BY <1>1 DEF SelectInv, CollectedInv, Through, OfArguments, Brought, FilesOf
<1>4. EarlierInv'
  BY <1>1 DEF SelectInv, EarlierInv, IsCanonical, Canonical, OfArguments, Brought, FilesOf, OfTags
<1>5. ~flags.format
  <2>1. flags.format => arg = 1 /\ Len(flags.args) = 1
    BY FlagTypes DEF CommandInv, CommandTypes, FormatInv
  <2>2. DOMAIN flags.args = 1..Len(flags.args)
    BY FlagTypes DEF CommandInv, CommandTypes
  <2>3. ~flags.format
    <3> SUFFICES ASSUME flags.format PROVE FALSE
      OBVIOUS
    <3>1. arg = 1 /\ DOMAIN flags.args = 1..1
      BY <2>1, <2>2
    <3> QED BY <1>1, <3>1
  <2> QED BY <2>3
<1>6. FilteredInv'
  <2>1. CASE selected' = selected
    <3>1. ByTags(specs)' = ByTags(specs)
      BY <1>1, SameTags
    <3> QED BY <1>1, <2>1, <3>1 DEF SelectInv, FilteredInv, Panics, GroupIsValid, ByGroup, Distributions, Dealt
  <2>2. CASE ~Panics(ByTags(specs)) /\ selected' \in SortSpecsList(ByGroup(ByTags(specs)))
    <3>1. ByTags(specs)' = ByTags(specs)
      BY <1>1, SameTags
    <3>2. Panics(ByTags(specs))' = Panics(ByTags(specs)) /\ ByGroup(ByTags(specs))' = ByGroup(ByTags(specs))
      BY <1>1, <3>1 DEF Panics, GroupIsValid, ByGroup, Distributions, Dealt
    <3>3. SortSpecsList(ByGroup(ByTags(specs)))' = SortSpecsList(ByGroup(ByTags(specs)))
      BY <3>2 DEF SortSpecsList, InFileOrder
    <3> QED BY <1>1, <1>5, <2>2, <3>2, <3>3 DEF FilteredInv
  <2> QED BY <2>1, <2>2 DEF SelectSpecs
<1> QED BY <1>2, <1>3, <1>4, <1>6 DEF SelectInv

LEMMA AgainSelect ==
  ASSUME CommandInv, SelectInv, Again PROVE SelectInv'
<1>1. /\ arg' = 1 /\ specsChan' = <<>> /\ specs' = <<>> /\ selected' = <<>> /\ earlier' = selected
      /\ UNCHANGED <<flags, broken>>
  BY DEF Again
<1>2. ParsedInv'
  <2>1. \A lost, i, f : Came(lost, <<>>, i, f) = <<>>
    BY ThroughNothing DEF Came
  <2> QED BY <1>1, <2>1, EmptyLists DEF ParsedInv
<1>3. CollectedInv'
  <2>1. arg' - 1 = 0 /\ \A f : OfArguments(f, 0)' = <<>>
    <3>1. \A f : OfArguments(f, 0) = <<>>
      BY OfNoArguments
    <3>2. \A f : OfArguments(f, 0)' = OfArguments(f, 0)
      BY <1>1 DEF OfArguments, Brought, FilesOf
    <3> QED BY <1>1, <3>1, <3>2
  <2>2. \A f : OfArguments(f, arg - 1)' = <<>>
    BY <2>1 DEF OfArguments
  <2> QED BY <1>1, <2>2, ThroughNothing DEF CollectedInv, Through
<1>4. FilteredInv'
  BY <1>1 DEF FilteredInv
<1>5. EarlierInv'
  <2>1. Canonical' = Canonical
    BY <1>1 DEF Canonical, OfArguments, Brought, FilesOf, OfTags, Through
  <2> QED BY <1>1, <2>1, SelectedCanonical DEF EarlierInv, IsCanonical, Count, Occurring
<1> QED BY <1>2, <1>3, <1>4, <1>5 DEF SelectInv

LEMMA SelectStep ==
  CommandInv /\ SelectInv /\ [CommandNext]_commandVars => SelectInv'
<1> SUFFICES ASSUME CommandInv, SelectInv, [CommandNext]_commandVars PROVE SelectInv'
  OBVIOUS
<1>1. CASE RejectConcepts \/ HandleParseResult \/ HandleFormatResults \/ EndValidation \/ Execute
  <2>1. UNCHANGED Selects
    BY <1>1 DEF RejectConcepts, HandleParseResult, HandleFormatResults, EndValidation, Execute, Selects, command, parser
  <2> QED BY <2>1, SelectKept
<1>2. CASE FormatAndSave \/ StartAPIService \/ \E file \in File : SendResult(file)
  <2>1. UNCHANGED Selects
    BY <1>2 DEF FormatAndSave, StartAPIService, SendResult, Selects, command, parser
  <2> QED BY <2>1, SelectKept
<1>3. CASE Validates
  <2>1. UNCHANGED Selects
    BY <1>3 DEF Validates, SkipKnown, EnterConcept, MarkNested, ValidateStep, UNCHANGEDbutValidator, Selects, command, parser
  <2> QED BY <2>1, SelectKept
<1>4. CASE UNCHANGED commandVars
  <2>1. UNCHANGED Selects
    BY <1>4 DEF commandVars, Selects, command, parser
  <2> QED BY <2>1, SelectKept
<1> QED
  BY <1>1, <1>2, <1>3, <1>4, SendSpecSelect, NextArgumentSelect, FormatSpecsSelect, SelectSpecsSelect, AgainSelect
     DEF CommandNext, Validates

\* Lists in which everything occurs as often have the same bag.
LEMMA SameBag ==
  ASSUME NEW s \in Seq(Specification), NEW t \in Seq(Specification),
         \A V \in SUBSET Specification : Count(s, V) = Count(t, V)
  PROVE  ToBag(s) = ToBag(t)
<1> DEFINE Places(u, x) == {i \in DOMAIN u : u[i] = x}
<1>1. /\ DOMAIN s = 1..Len(s) /\ \A i \in DOMAIN s : s[i] \in Specification
      /\ DOMAIN t = 1..Len(t) /\ \A i \in DOMAIN t : t[i] \in Specification
  BY LenProperties, ElementOfSeq
<1>2. ASSUME NEW x \in Specification
      PROVE  Cardinality(Places(s, x)) = Cardinality(Places(t, x)) /\ (x \in Range(s) <=> x \in Range(t))
  <2> DEFINE V == {x}
  <2>1. Places(s, x) = Occurring(s, V) /\ Places(t, x) = Occurring(t, V)
    BY <1>1 DEF Occurring
  <2>2. IsFiniteSet(Occurring(s, V)) /\ IsFiniteSet(Occurring(t, V))
    BY CountType
  <2>3. Cardinality(Occurring(s, V)) = Cardinality(Occurring(t, V))
    BY DEF Count
  <2>4. x \in Range(s) <=> Places(s, x) # {}
    BY DEF Range
  <2>5. x \in Range(t) <=> Places(t, x) # {}
    BY DEF Range
  <2> HIDE DEF V, Places
  <2>6. Places(s, x) = {} <=> Places(t, x) = {}
    BY <2>1, <2>2, <2>3, FS_EmptySet
  <2> QED BY <2>1, <2>3, <2>4, <2>5, <2>6
<1> HIDE DEF Places
<1>3. Range(s) = Range(t)
  <2>1. Range(s) \subseteq Specification /\ Range(t) \subseteq Specification
    BY <1>1 DEF Range
  <2> QED BY <1>2, <2>1
<1>4. \A x \in Range(s) : Cardinality(Places(s, x)) = Cardinality(Places(t, x))
  <2>1. Range(s) \subseteq Specification
    BY <1>1 DEF Range
  <2> QED BY <1>2, <2>1
<1>5. /\ ToBag(s) = [x \in Range(s) |-> Cardinality(Places(s, x))]
      /\ ToBag(t) = [x \in Range(t) |-> Cardinality(Places(t, x))]
  BY DEF ToBag, Places
<1> QED BY <1>3, <1>4, <1>5

\* Whatever the arguments, the files and the tags, in whatever order the parsers finish and
\* the specifications are shuffled: every time the process gets so far it has selected the
\* same.
LEMMA SameSelection == CommandInv /\ SelectInv => (flags.group = -1 => SameEverytime)
<1> SUFFICES ASSUME CommandInv, SelectInv, flags.group = -1, Chosen, earlier # <<>>
             PROVE  ToBag(selected) = ToBag(earlier)
  BY DEF SameEverytime
<1>1. selected # <<>>
  BY DEF CommandInv, SelectedInv, Chosen
<1>2. IsCanonical(selected)
  BY <1>1, SelectedCanonical
<1>3. IsCanonical(earlier)
  BY DEF SelectInv, EarlierInv
<1> QED BY <1>2, <1>3, SameBag DEF IsCanonical

-----------------------------------------------------------------------------
(* Command line: how often a scenario is executed.                         *)

\* The specifications of a file that have an item.
Has(file, i) == {s \in Specification : s.file = file /\ i \in s.items}

\* The places in several lists, of m elements at most, with an element of V.
Executing(parts, m, V) ==
  {gn \in (DOMAIN parts) \X (1..m) : gn[2] \in DOMAIN parts[gn[1]] /\ parts[gn[1]][gn[2]] \in V}

OwnPart(parts, m, V, g) == {gn \in Executing(parts, m, V) : gn[1] = g}

LEMMA ExecutingPart ==
  ASSUME NEW V, NEW A, NEW parts, NEW g \in DOMAIN parts, parts[g] \in Seq(A), NEW m \in Nat, Len(parts[g]) <= m
  PROVE  IsFiniteSet(OwnPart(parts, m, V, g)) /\ Cardinality(OwnPart(parts, m, V, g)) = Count(parts[g], V)
<1> DEFINE own == OwnPart(parts, m, V, g)
           S == Occurring(parts[g], V)
           f == [n \in S |-> <<g, n>>]
<1>1. Len(parts[g]) \in Nat /\ DOMAIN parts[g] = 1..Len(parts[g])
  BY LenProperties
<1>2. IsFiniteSet(S)
  BY CountType
<1>3. \A n \in S : <<g, n>> \in own
  BY <1>1 DEF OwnPart, Executing, Occurring
<1>4. \A gn \in own : gn = <<g, gn[2]>> /\ gn[2] \in S
  BY <1>1 DEF OwnPart, Executing, Occurring
<1> HIDE DEF own, S
<1>5. f \in [S -> own] /\ (\A x, y \in S : f[x] = f[y] => x = y) /\ \A t \in own : \E x \in S : f[x] = t
  <2>1. f \in [S -> own]
    BY <1>3
  <2>2. \A x, y \in S : f[x] = f[y] => x = y
    OBVIOUS
  <2>3. \A t \in own : \E x \in S : f[x] = t
    BY <1>4
  <2> QED BY <2>1, <2>2, <2>3
<1> HIDE DEF f
<1>6. IsFiniteSet(own) /\ Cardinality(own) = Cardinality(S)
  BY <1>2, <1>5, OneToOne
<1> QED BY <1>6 DEF own, S, Count

\* d lists of m elements at most, and two that may differ in one place.
Lists(p, d, m, A) == p \in [1..d -> Seq(A)] /\ \A h \in 1..d : Len(p[h]) <= m
SameBut(p, q, d, g) == \A h \in 1..d : h # g => p[h] = q[h]

\* One list may be exchanged for another in which as many elements are in V.
LEMMA ExecutingExchanged ==
  ASSUME NEW V, NEW A, NEW d \in Nat, NEW m \in Nat, NEW g \in 1..d,
         NEW p, Lists(p, d, m, A), NEW q, Lists(q, d, m, A), SameBut(p, q, d, g),
         Count(p[g], V) = Count(q[g], V)
  PROVE  Cardinality(Executing(p, m, V)) = Cardinality(Executing(q, m, V))
<1> USE DEF Lists, SameBut
<1> DEFINE ownP == OwnPart(p, m, V, g)
           ownQ == OwnPart(q, m, V, g)
           rest == {gn \in Executing(p, m, V) : gn[1] # g}
<1>1. Executing(p, m, V) = rest \cup ownP /\ rest \cap ownP = {}
  BY DEF OwnPart
<1>2. Executing(q, m, V) = rest \cup ownQ /\ rest \cap ownQ = {}
  <2>1. \A gn \in (1..d) \X (1..m) : gn[1] # g => p[gn[1]] = q[gn[1]]
    OBVIOUS
  <2>2. DOMAIN p = 1..d /\ DOMAIN q = 1..d
    OBVIOUS
  <2>3. \A gn : gn[1] # g => (gn \in Executing(p, m, V) <=> gn \in Executing(q, m, V))
    BY <2>1, <2>2 DEF Executing
  <2> QED BY <2>3 DEF OwnPart
<1>3. IsFiniteSet(rest)
  <2>1. IsFiniteSet(1..d) /\ IsFiniteSet(1..m)
    BY FS_Interval
  <2>2. IsFiniteSet((1..d) \X (1..m))
    BY <2>1, FS_Product
  <2>3. rest \in SUBSET ((1..d) \X (1..m))
    BY DEF Executing
  <2> QED BY <2>2, <2>3, FS_Subset
<1>4. IsFiniteSet(ownP) /\ Cardinality(ownP) = Count(p[g], V)
  <2>1. g \in DOMAIN p /\ p[g] \in Seq(A) /\ Len(p[g]) <= m
    OBVIOUS
  <2> QED BY <2>1, ExecutingPart
<1>5. IsFiniteSet(ownQ) /\ Cardinality(ownQ) = Count(q[g], V)
  <2>1. g \in DOMAIN q /\ q[g] \in Seq(A) /\ Len(q[g]) <= m
    OBVIOUS
  <2> QED BY <2>1, ExecutingPart
<1> HIDE DEF ownP, ownQ, rest
<1>6. /\ Cardinality(rest \cup ownP) = Cardinality(rest) + Cardinality(ownP) - Cardinality(rest \cap ownP)
      /\ Cardinality(rest \cup ownQ) = Cardinality(rest) + Cardinality(ownQ) - Cardinality(rest \cap ownQ)
  BY <1>3, <1>4, <1>5, FS_Union
<1> QED BY <1>1, <1>2, <1>4, <1>5, <1>6

\* A list that is dealt out is dealt out whole: every place has its turn.
LEMMA Turns ==
  ASSUME NEW n \in Nat, NEW d \in 1..n
  PROVE  /\ \A g \in 1..d : (n - g) \div d \in Nat
         /\ \A g \in 1..d : \A k \in 1..((n - g) \div d + 1) : g + (k - 1) * d \in 1..n /\ k <= g + (k - 1) * d
         /\ \A p \in 1..n : \E g \in 1..d : \E k \in 1..((n - g) \div d + 1) : p = g + (k - 1) * d
         /\ \A g, h \in 1..d : \A k, l \in Nat : g + (k - 1) * d = h + (l - 1) * d => g = h /\ k = l
<1>1. ASSUME NEW g \in 1..d
      PROVE  /\ (n - g) \div d \in Nat
             /\ \A k \in 1..((n - g) \div d + 1) : g + (k - 1) * d \in 1..n /\ k <= g + (k - 1) * d
  <2> DEFINE m == (n - g) \div d
  <2>1. n - g \in Nat /\ d \in Nat \ {0}
    OBVIOUS
  <2>2. m \in Nat /\ \A j \in 0..m : j * d \in 0..(n - g)
    BY <2>1, Sharing
  <2> HIDE DEF m
  <2>3. ASSUME NEW k \in 1..(m + 1) PROVE g + (k - 1) * d \in 1..n /\ k <= g + (k - 1) * d
    <3> DEFINE j == k - 1
               e == j * d
    <3>1. j \in 0..m
      BY <2>2
    <3>2. e \in 0..(n - g)
      BY <2>2, <3>1
    <3>3. e >= j
      <4>1. j \in Nat /\ d >= 1
        BY <2>2, <3>1
      <4> HIDE DEF j
      <4> QED BY <4>1
    <3> HIDE DEF e
    <3>4. g + e \in 1..n /\ k <= g + e
      BY <2>2, <3>1, <3>2, <3>3
    <3> QED BY <3>4 DEF e
  <2> QED BY <2>2, <2>3 DEF m
<1>2. ASSUME NEW p \in 1..n PROVE \E g \in 1..d : \E k \in 1..((n - g) \div d + 1) : p = g + (k - 1) * d
  <2> DEFINE r == (p - 1) % d
             j == (p - 1) \div d
             g == r + 1
             m == (n - g) \div d
  <2>1. p - 1 \in Nat /\ d \in Nat \ {0}
    OBVIOUS
  <2>2. r \in 0..(d - 1) /\ j \in Nat /\ p - 1 = j * d + r
    BY <2>1
  <2> HIDE DEF r, j
  <2>3. g \in 1..d /\ n - g \in Nat
    BY <2>2
  <2>4. j * d <= n - g
    <3> DEFINE e == j * d
    <3>1. e \in Nat
      BY <2>2
    <3> HIDE DEF e
    <3>2. p - 1 = e + r
      BY <2>2 DEF e
    <3>3. e <= n - g
      BY <2>2, <3>1, <3>2
    <3> QED BY <3>3 DEF e
  <2> HIDE DEF g
  <2>5. m \in Nat /\ n - g < (m + 1) * d
    BY <2>1, <2>3
  <2> HIDE DEF m
  <2>6. j <= m
    <3> SUFFICES ASSUME j >= m + 1 PROVE FALSE
      BY <2>2, <2>5
    <3>1. j * d >= (m + 1) * d
      <4>1. (j - (m + 1)) * d >= 0 /\ (j - (m + 1)) * d = j * d - (m + 1) * d
        BY <2>1, <2>2, <2>5
      <4>2. j * d \in Int /\ (m + 1) * d \in Int
        BY <2>1, <2>2, <2>5
      <4> QED BY <4>1, <4>2
    <3>2. j * d \in Int /\ (m + 1) * d \in Int /\ n - g \in Int
      BY <2>1, <2>2, <2>3, <2>5
    <3> QED BY <2>4, <2>5, <3>1, <3>2
  <2>7. j + 1 \in 1..(m + 1) /\ (j + 1) - 1 = j
    BY <2>2, <2>5, <2>6
  <2>8. p = g + ((j + 1) - 1) * d
    <3>1. j * d \in Int
      BY <2>1, <2>2
    <3> QED BY <2>2, <2>7, <3>1 DEF g
  <2> QED BY <2>3, <2>7, <2>8 DEF m
<1>3. ASSUME NEW g \in 1..d, NEW h \in 1..d, NEW k \in Nat, NEW l \in Nat, g + (k - 1) * d = h + (l - 1) * d
      PROVE  g = h /\ k = l
  <2>1. (k - 1) * d - (l - 1) * d = (k - l) * d /\ (l - 1) * d - (k - 1) * d = (l - k) * d
    OBVIOUS
  <2>2. (k - 1) * d \in Int /\ (l - 1) * d \in Int
    OBVIOUS
  <2>3. h - g = (k - l) * d /\ g - h = (l - k) * d
    BY <1>3, <2>1, <2>2
  <2>4. h - g < d /\ g - h < d
    OBVIOUS
  <2>5. ~(k - l >= 1)
    <3> SUFFICES ASSUME k - l >= 1 PROVE FALSE
      OBVIOUS
    <3>1. (k - l) * d >= d
      OBVIOUS
    <3>2. (k - l) * d \in Int
      OBVIOUS
    <3> QED BY <2>3, <2>4, <3>1, <3>2
  <2>6. ~(l - k >= 1)
    <3> SUFFICES ASSUME l - k >= 1 PROVE FALSE
      OBVIOUS
    <3>1. (l - k) * d >= d
      OBVIOUS
    <3>2. (l - k) * d \in Int
      OBVIOUS
    <3> QED BY <2>3, <2>4, <3>1, <3>2
  <2>7. k = l
    BY <2>5, <2>6
  <2> QED BY <1>3, <2>2, <2>7
<1> QED BY <1>1, <1>2, <1>3

LEMMA OtherTurn ==
  ASSUME NEW n \in Nat, NEW d \in 1..n, NEW g \in 1..d, NEW h \in 1..d, NEW k \in Nat, NEW l \in Nat,
         g + (k - 1) * d = h + (l - 1) * d
  PROVE  g = h /\ k = l
BY Turns

LEMMA DealtType ==
  ASSUME NEW A, NEW all \in Seq(A), NEW d \in 1..Len(all), d = Distributions(Len(all)), NEW g \in 1..d
  PROVE  /\ Dealt(all, g) \in Seq(A) /\ Len(Dealt(all, g)) <= Len(all)
         /\ DOMAIN Dealt(all, g) = 1..((Len(all) - g) \div d + 1)
         /\ \A k \in DOMAIN Dealt(all, g) : Dealt(all, g)[k] = all[g + (k - 1) * d]
<1> DEFINE n == Len(all)
           m == (n - g) \div d
<1>1. n \in Nat /\ \A i \in 1..n : all[i] \in A
  BY LenProperties, ElementOfSeq
<1>2. m \in Nat /\ \A k \in 1..(m + 1) : g + (k - 1) * d \in 1..n /\ k <= g + (k - 1) * d
  BY <1>1, Turns
<1>3. Dealt(all, g) = [k \in 1..(m + 1) |-> all[g + (k - 1) * d]]
  BY DEF Dealt
<1> HIDE DEF m, n
<1>4. DOMAIN Dealt(all, g) = 1..(m + 1) /\ \A k \in 1..(m + 1) : Dealt(all, g)[k] = all[g + (k - 1) * d]
  BY <1>3
<1>5. Dealt(all, g) \in [1..(m + 1) -> A] /\ m + 1 \in Nat
  <2>1. \A k \in 1..(m + 1) : all[g + (k - 1) * d] \in A
    BY <1>1, <1>2
  <2> QED BY <1>2, <1>3, <2>1
<1>6. Dealt(all, g) \in Seq(A) /\ Len(Dealt(all, g)) = m + 1
  BY <1>5, FunctionIsSeq
<1>7. m + 1 <= n
  <2> DEFINE e == g + ((m + 1) - 1) * d
  <2>1. m + 1 \in 1..(m + 1)
    BY <1>2
  <2>2. e \in 1..n /\ m + 1 <= e
    BY <1>2, <2>1
  <2> HIDE DEF e
  <2> QED BY <1>1, <1>2, <2>2
<1> QED BY <1>4, <1>6, <1>7 DEF m, n

\* All the groups together have every specification as often as it is dealt.
LEMMA ExecutingDealt ==
  ASSUME NEW V, NEW A, NEW all \in Seq(A), NEW d \in 1..Len(all), d = Distributions(Len(all)),
         NEW m \in Nat, Len(all) <= m
  PROVE  Cardinality(Executing([g \in 1..d |-> Dealt(all, g)], m, V)) = Count(all, V)
<1> DEFINE n == Len(all)
           parts == [g \in 1..d |-> Dealt(all, g)]
           S == Executing(parts, m, V)
           T == Occurring(all, V)
           place(x) == x[1] + (x[2] - 1) * d
           f == [x \in S |-> place(x)]
<1>1. n \in Nat /\ d \in 1..n
  BY LenProperties
<1> HIDE DEF n
<1>0. /\ \A g \in 1..d : (n - g) \div d \in Nat
      /\ \A g \in 1..d : \A k \in 1..((n - g) \div d + 1) : g + (k - 1) * d \in 1..n /\ k <= g + (k - 1) * d
      /\ \A p \in 1..n : \E g \in 1..d : \E k \in 1..((n - g) \div d + 1) : p = g + (k - 1) * d
      /\ \A g, h \in 1..d : \A k, l \in Nat : g + (k - 1) * d = h + (l - 1) * d => g = h /\ k = l
  BY ONLY <1>1, Turns
<1> USE DEF n
<1>2. \A g \in 1..d :
        /\ DOMAIN Dealt(all, g) = 1..((n - g) \div d + 1) /\ Len(Dealt(all, g)) <= n
        /\ \A k \in DOMAIN Dealt(all, g) : Dealt(all, g)[k] = all[g + (k - 1) * d]
  BY DealtType
<1>3. DOMAIN parts = 1..d /\ \A g \in 1..d : parts[g] = Dealt(all, g)
  OBVIOUS
<1> HIDE DEF parts
<1>4. \A x \in S : /\ x = <<x[1], x[2]>> /\ x[1] \in 1..d /\ x[2] \in 1..((n - x[1]) \div d + 1) /\ x[2] \in 1..m
                   /\ all[place(x)] \in V
  <2> SUFFICES ASSUME NEW x \in S
               PROVE  /\ x = <<x[1], x[2]>> /\ x[1] \in 1..d /\ x[2] \in 1..((n - x[1]) \div d + 1) /\ x[2] \in 1..m
                      /\ all[place(x)] \in V
    OBVIOUS
  <2>1. x \in (1..d) \X (1..m) /\ x[2] \in DOMAIN Dealt(all, x[1]) /\ Dealt(all, x[1])[x[2]] \in V
    BY <1>3 DEF Executing
  <2>2. x[1] \in 1..d /\ x[2] \in 1..m /\ x = <<x[1], x[2]>>
    BY <2>1
  <2>3. Dealt(all, x[1])[x[2]] = all[x[1] + (x[2] - 1) * d] /\ x[2] \in 1..((n - x[1]) \div d + 1)
    BY <1>2, <2>1, <2>2
  <2> QED BY <2>1, <2>2, <2>3
<1>5. ASSUME NEW x \in S PROVE place(x) \in T
  <2> DEFINE g == x[1]
             k == x[2]
  <2>1. g \in 1..d /\ k \in 1..((n - g) \div d + 1) /\ all[place(x)] \in V
    BY <1>4
  <2>2. g + (k - 1) * d \in 1..n
    <3> HIDE DEF g, k, n
    <3> QED BY <1>0, <2>1
  <2> QED BY <2>1, <2>2 DEF Occurring
<1>6. ASSUME NEW x \in S, NEW y \in S, place(x) = place(y) PROVE x = y
  <2>1. x[1] \in 1..d /\ y[1] \in 1..d /\ x[2] \in Nat /\ y[2] \in Nat
    <3>1. x[1] \in 1..d /\ x[2] \in 1..m
      BY <1>4
    <3>2. y[1] \in 1..d /\ y[2] \in 1..m
      BY <1>4
    <3> QED BY <3>1, <3>2
  <2>2. x[1] = y[1] /\ x[2] = y[2]
    <3> DEFINE g == x[1]
               k == x[2]
               h == y[1]
               l == y[2]
    <3>1. g \in 1..d /\ h \in 1..d /\ k \in Nat /\ l \in Nat /\ g + (k - 1) * d = h + (l - 1) * d
      BY <1>6, <2>1
    <3> HIDE DEF g, h, k, l, n
    <3>2. g = h /\ k = l
      <4>1. n \in Nat /\ d \in 1..n
        BY <1>1
      <4> QED BY ONLY <3>1, <4>1, OtherTurn
    <3> QED BY <3>2 DEF g, h, k, l
  <2> QED BY <1>4, <2>2
<1>7. ASSUME NEW p \in T PROVE \E x \in S : place(x) = p
  <2>1. p \in 1..n /\ all[p] \in V
    BY DEF Occurring
  <2>2. PICK g \in 1..d : \E k \in 1..((n - g) \div d + 1) : p = g + (k - 1) * d
    <3> HIDE DEF n
    <3> QED BY <1>0, <2>1
  <2>3. PICK k \in 1..((n - g) \div d + 1) : p = g + (k - 1) * d
    BY <2>2
  <2>4. k \in DOMAIN Dealt(all, g) /\ Dealt(all, g)[k] = all[p]
    BY <1>2, <2>3
  <2>5. k \in 1..m
    <3> DEFINE e == (n - g) \div d
    <3>1. e \in Nat /\ \A j \in 1..(e + 1) : j <= g + (j - 1) * d
      <4> HIDE DEF n
      <4> QED BY ONLY <1>0, g \in 1..d, Zenon
    <3>2. k \in 1..(e + 1) /\ p = g + (k - 1) * d
      BY <2>3
    <3> HIDE DEF e
    <3>3. k \in Nat \ {0} /\ k <= p
      <4>1. k <= g + (k - 1) * d
        BY ONLY <3>1, <3>2, Zenon
      <4>2. k \in Nat \ {0}
        BY ONLY <3>1, <3>2
      <4> QED BY ONLY <3>2, <4>1, <4>2
    <3> QED BY <1>1, <2>1, <3>3
  <2>6. <<g, k>> \in S
    <3>1. <<g, k>> \in (DOMAIN parts) \X (1..m)
      BY <1>3, <2>5
    <3> QED BY <1>3, <2>1, <2>4, <3>1 DEF Executing
  <2>7. place(<<g, k>>) = p
    BY <2>3
  <2> QED BY <2>6, <2>7
<1>8. IsFiniteSet(S)
  <2>1. IsFiniteSet(1..d) /\ IsFiniteSet(1..m)
    BY <1>1, FS_Interval
  <2>2. IsFiniteSet((1..d) \X (1..m))
    BY <2>1, FS_Product
  <2>3. S \in SUBSET ((1..d) \X (1..m))
    BY <1>3 DEF Executing
  <2> QED BY <2>2, <2>3, FS_Subset
<1> HIDE DEF S, T, place
<1>9. f \in [S -> T] /\ (\A x, y \in S : f[x] = f[y] => x = y) /\ \A p \in T : \E x \in S : f[x] = p
  BY <1>5, <1>6, <1>7
<1> HIDE DEF f
<1>10. Cardinality(T) = Cardinality(S)
  BY <1>8, <1>9, OneToOne
<1> QED BY <1>10 DEF S, T, Count, parts

\* The filter by tags leaves a scenario where it is, or nowhere.
LEMMA CountTagged ==
  ASSUME NEW all \in Seq(Specification), NEW file \in File, NEW i \in ScenariosOf(file)
  PROVE  Count(ByTags(all), Has(file, i))
           = IF flags.tagged => Contents[file][i].qualifies THEN Count(all, Has(file, i)) ELSE 0
<1> DEFINE V == Has(file, i)
           stays == flags.tagged => Contents[file][i].qualifies
           W == IF stays THEN V ELSE {}
           tags == OfTags
<1>1. Makes(tags, Specification, Specification)
  BY WayTypes
<1>2. ASSUME NEW s \in Specification PROVE Count(tags[s], V) = One(s, W)
  <2> DEFINE q == Qualifying(s)
  <2>1. q \in Specification /\ q.file = s.file
          /\ q.items = {j \in s.items : j \in ScenariosOf(s.file) /\ Contents[s.file][j].qualifies}
    BY QualifyingSpecification
  <2>2. tags[s] = (IF ~flags.tagged THEN <<s>> ELSE IF HasScenario(q) THEN <<q>> ELSE <<>>)
    BY DEF OfTags
  <2> HIDE DEF q, tags
  <2>3. CASE ~flags.tagged
    <3>1. tags[s] = <<s>> /\ W = V
      BY <2>2, <2>3
    <3>2. Count(<<s>>, V) = One(s, V)
      BY CountOne
    <3> QED BY <3>1, <3>2
  <2>4. CASE flags.tagged
    <3>1. q \in V <=> s \in W
      BY <2>1, <2>4 DEF Has
    <3>2. CASE HasScenario(q)
      <4>1. tags[s] = <<q>>
        BY <2>2, <2>4, <3>2
      <4>2. Count(<<q>>, V) = One(q, V)
        BY <2>1, CountOne
      <4>3. One(q, V) = One(s, W)
        BY <3>1 DEF One
      <4> QED BY <4>1, <4>2, <4>3
    <3>3. CASE ~HasScenario(q)
      <4>1. tags[s] = <<>>
        BY <2>2, <2>4, <3>3
      <4>2. q \notin V
        BY <2>1, <3>3 DEF Has, HasScenario
      <4>3. One(s, W) = 0
        BY <3>1, <4>2 DEF One
      <4> QED BY <4>1, <4>3, CountNothing
    <3> QED BY <3>2, <3>3
  <2> QED BY <2>3, <2>4
<1>3. ByTags(all) = Through(all, tags)
  BY TaggedThrough
<1> HIDE DEF V, W, tags
<1>4. Count(Through(all, tags), V) = Count(all, W)
  BY <1>1, <1>2, CountThrough
<1>5. CASE stays
  BY <1>3, <1>4, <1>5 DEF V, W
<1>6. CASE ~stays
  <2>1. W = {}
    BY <1>6 DEF W
  <2>2. Occurring(all, {}) = {}
    BY DEF Occurring
  <2>3. Count(all, W) = 0
    BY <2>1, <2>2, FS_EmptySet DEF Count
  <2> QED BY <1>3, <1>4, <1>6, <2>3 DEF V
<1> QED BY <1>5, <1>6

\* The arguments that name a scenario, whatever its tags.
Naming(file, i) ==
  {a \in DOMAIN flags.args : file \in FilesOf(a) /\ flags.args[a].index \in {-1, ScenariosBefore(file, i)}}

LEMMA CountBrought ==
  ASSUME flags \in Invocations, NEW file \in File, NEW i \in ScenariosOf(file), NEW a \in DOMAIN flags.args
  PROVE  Count(Brought(file, a), Has(file, i)) = One(a, Naming(file, i))
<1> DEFINE V == Has(file, i)
           index == flags.args[a].index
           w == Whole(file)
           x == AtIndex(w, index)
<1>1. w \in Specification /\ w.file = file /\ w.items = DOMAIN Contents[file]
  BY WholeIsSpecification DEF Whole
<1>2. i \in w.items /\ i \in ScenariosOf(w.file)
  BY <1>1 DEF ScenariosOf
<1>3. x \in Specification /\ x.file = w.file
        /\ x.items = {j \in w.items : j \in ScenariosOf(w.file) => ScenariosBefore(w.file, j) = index}
  BY <1>1, IndexedSpecification
<1>4. AtItsIndex(index)[w] =
        (IF index = -1 THEN <<w>> ELSE IF HasScenario(x) THEN <<x>> ELSE <<>>)
  BY <1>1 DEF AtItsIndex
<1>5. w \in V
  BY <1>1, <1>2 DEF Has
<1>6. x \in V <=> index = ScenariosBefore(file, i)
  BY <1>1, <1>2, <1>3 DEF Has
<1>7. x \in V => HasScenario(x)
  BY <1>2, <1>3 DEF Has, HasScenario
<1>8. Brought(file, a) = (IF file \in FilesOf(a) THEN AtItsIndex(index)[w] ELSE <<>>)
  BY DEF Brought
<1>9. a \in Naming(file, i) <=> file \in FilesOf(a) /\ (index = -1 \/ index = ScenariosBefore(file, i))
  BY DEF Naming
<1> HIDE DEF V, index, w, x
<1>10. Count(<<w>>, V) = One(w, V) /\ Count(<<x>>, V) = One(x, V) /\ Count(<<>>, V) = 0
  <2>1. Count(<<w>>, V) = One(w, V)
    BY <1>1, CountOne
  <2>2. Count(<<x>>, V) = One(x, V)
    BY <1>3, CountOne
  <2> QED BY <2>1, <2>2, CountNothing
<1>11. One(w, V) = 1 /\ One(x, V) = IF index = ScenariosBefore(file, i) THEN 1 ELSE 0
  BY <1>5, <1>6 DEF One
<1>12. CASE file \notin FilesOf(a)
  <2>1. Brought(file, a) = <<>> /\ One(a, Naming(file, i)) = 0
    BY <1>8, <1>9, <1>12 DEF One
  <2> QED BY <1>10, <2>1 DEF V
<1>13. CASE file \in FilesOf(a) /\ index = -1
  <2>1. Brought(file, a) = <<w>> /\ One(a, Naming(file, i)) = 1
    BY <1>4, <1>8, <1>9, <1>13 DEF One
  <2> QED BY <1>10, <1>11, <2>1 DEF V
<1>14. CASE file \in FilesOf(a) /\ index # -1 /\ HasScenario(x)
  <2>1. Brought(file, a) = <<x>>
    BY <1>4, <1>8, <1>14
  <2>2. One(a, Naming(file, i)) = IF index = ScenariosBefore(file, i) THEN 1 ELSE 0
    BY <1>9, <1>14 DEF One
  <2> QED BY <1>10, <1>11, <2>1, <2>2 DEF V
<1>15. CASE file \in FilesOf(a) /\ index # -1 /\ ~HasScenario(x)
  <2>1. Brought(file, a) = <<>>
    BY <1>4, <1>8, <1>15
  <2>2. One(a, Naming(file, i)) = 0
    BY <1>6, <1>7, <1>9, <1>15 DEF One
  <2> QED BY <1>10, <2>1, <2>2 DEF V
<1> QED BY <1>12, <1>13, <1>14, <1>15

LEMMA CountOfArguments ==
  ASSUME flags \in Invocations, NEW file \in File, NEW i \in ScenariosOf(file)
  PROVE  Count(OfArguments(file, Len(flags.args)), Has(file, i)) = Cardinality(Naming(file, i))
<1> DEFINE n == Len(flags.args)
           each == [a \in 1..n |-> a]
           g == [a \in 1..n |-> Brought(file, a)]
           V == Has(file, i)
           W == Naming(file, i)
<1>1. n \in Nat /\ DOMAIN flags.args = 1..n
  BY FlagTypes
<1>2. Makes(g, 1..n, Specification)
  <2>1. \A a \in 1..n : Brought(file, a) \in Seq(Specification)
    BY <1>1, BroughtType
  <2> QED BY <2>1 DEF Makes
<1>3. \A a \in 1..n : Count(g[a], V) = One(a, W)
  BY <1>1, CountBrought
<1>4. each \in Seq(1..n) /\ Len(each) = n
  BY <1>1, FunctionIsSeq
<1>5. OfArguments(file, n) = Through(each, g)
  <2>1. [a \in DOMAIN each |-> g[each[a]]] = [a \in 1..n |-> Brought(file, a)]
    OBVIOUS
  <2> QED BY <2>1 DEF OfArguments, Through
<1>6. Occurring(each, W) = W
  <2>1. W \subseteq 1..n
    BY <1>1 DEF Naming
  <2> QED BY <1>4, <2>1 DEF Occurring
<1> HIDE DEF n, each, g, V, W
<1>7. Count(Through(each, g), V) = Count(each, W)
  BY <1>2, <1>3, <1>4, CountThrough
<1> QED BY <1>5, <1>6, <1>7 DEF Count, n, V, W

\* The specifications to select from have a scenario once for every argument that names it.
LEMMA CountSelectable ==
  ASSUME CommandInv, SelectInv, selected # <<>>, NEW file \in File, NEW i \in ScenariosOf(file)
  PROVE  Count(ByTags(specs), Has(file, i)) = Cardinality({a \in DOMAIN flags.args : Wanted(a, file, i)})
<1> DEFINE V == Has(file, i)
<1>1. specs \in Seq(Specification) /\ flags \in Invocations
  BY DEF CommandInv, CommandTypes
<1>2. ~flags.format /\ arg - 1 = Len(flags.args)
  <2>1. arg \in Nat \ {0} /\ arg <= Len(flags.args) + 1 /\ arg \notin DOMAIN flags.args /\ ~flags.format
    BY DEF SelectInv, FilteredInv, CommandInv, CommandTypes
  <2> QED BY <1>1, <2>1, FlagTypes
<1>3. Through(specs, OfFile(file)) = OfArguments(file, Len(flags.args))
  BY <1>2 DEF SelectInv, CollectedInv
<1>4. Count(specs, V) = Cardinality(Naming(file, i))
  <2>1. ThatFile(V, file) = V
    BY DEF ThatFile, Has
  <2> HIDE DEF V
  <2>2. Count(Through(specs, OfFile(file)), V) = Count(specs, ThatFile(V, file))
    BY <1>1, CountOfFile
  <2>3. Count(OfArguments(file, Len(flags.args)), V) = Cardinality(Naming(file, i))
    BY <1>1, CountOfArguments DEF V
  <2> QED BY <1>3, <2>1, <2>2, <2>3
<1>5. Count(ByTags(specs), V) =
        IF flags.tagged => Contents[file][i].qualifies THEN Count(specs, V) ELSE 0
  BY <1>1, CountTagged
<1>6. CASE flags.tagged => Contents[file][i].qualifies
  <2>1. {a \in DOMAIN flags.args : Wanted(a, file, i)} = Naming(file, i)
    BY <1>6 DEF Wanted, Naming
  <2> QED BY <1>4, <1>5, <1>6, <2>1
<1>7. CASE ~(flags.tagged => Contents[file][i].qualifies)
  <2>1. {a \in DOMAIN flags.args : Wanted(a, file, i)} = {}
    BY <1>7 DEF Wanted
  <2> QED BY <1>5, <1>7, <2>1, FS_EmptySet
<1> QED BY <1>6, <1>7

\* The parts are one list, and it has every specification.
LEMMA ExecutingAlone ==
  ASSUME NEW V, NEW A, NEW all \in Seq(A), NEW m \in Nat, Len(all) <= m
  PROVE  Cardinality(Executing(<<all>>, m, V)) = Count(all, V)
<1> DEFINE parts == <<all>>
<1>1. 1 \in DOMAIN parts /\ parts[1] = all /\ DOMAIN parts = {1}
  OBVIOUS
<1> HIDE DEF parts
<1>2. Cardinality(OwnPart(parts, m, V, 1)) = Count(parts[1], V)
  <2>1. parts[1] \in Seq(A) /\ Len(parts[1]) <= m
    BY <1>1
  <2> QED BY <1>1, <2>1, ExecutingPart
<1>3. OwnPart(parts, m, V, 1) = Executing(parts, m, V)
  BY <1>1 DEF OwnPart, Executing
<1> QED BY <1>1, <1>2, <1>3 DEF parts

\* The group of this process is the list that is executed; it is the one that was dealt,
\* in an order by file.
LEMMA GroupSelected ==
  ASSUME CommandInv, SelectInv, selected # <<>>, flags.group # -1
  PROVE  /\ Distributions(Len(ByTags(specs))) \in 1..Len(ByTags(specs))
         /\ flags.group \in 1..Distributions(Len(ByTags(specs)))
         /\ selected \in SortSpecsList(Dealt(ByTags(specs), flags.group))
<1> DEFINE all == ByTags(specs)
           n == Len(all)
           d == Distributions(n)
           group == flags.group
<1>1. specs \in Seq(Specification) /\ all \in Seq(Specification) /\ flags \in Invocations
  BY TaggedElements DEF CommandInv, CommandTypes
<1>2. n \in Nat /\ group \in Int /\ flags.streams \in Int
  BY <1>1, LenProperties, FlagTypes
<1>3. ~Panics(all) /\ selected \in SortSpecsList(ByGroup(all))
  BY DEF SelectInv, FilteredInv
<1>4. GroupIsValid
  <2> SUFFICES ASSUME ~GroupIsValid PROVE FALSE
    OBVIOUS
  <2>1. selected \in SortSpecsList(<<>>)
    BY <1>3 DEF ByGroup
  <2>2. <<>> \in Seq(Specification) /\ Len(<<>>) = 0
    BY EmptyLists
  <2> DEFINE none == <<>>
  <2>3. none \in Seq(Specification) /\ Len(none) = 0 /\ selected \in SortSpecsList(none)
    BY <2>1, <2>2
  <2> HIDE DEF none
  <2>4. selected \in Seq(Specification) /\ Len(selected) = Len(none)
    BY <2>3, CountOrdered
  <2>5. selected = <<>>
    BY <2>3, <2>4, EmptySeq
  <2> QED BY <2>5
<1>5. selected \in SortSpecsList(Dealt(all, group))
  BY <1>3, <1>4 DEF ByGroup
<1>6. group \in 1..flags.streams /\ group <= d
  BY <1>2, <1>3, <1>4 DEF Panics, GroupIsValid, Distributions
<1>7. d \in Int /\ d <= n
  BY <1>2 DEF Distributions
<1> HIDE DEF d, n, group
<1>8. d \in 1..n /\ group \in 1..d
  BY <1>2, <1>6, <1>7
<1> QED BY <1>5, <1>8 DEF d, n, group

\* What is executed, by this process and those for the other groups, is what there is to select.
LEMMA CountExecuting ==
  ASSUME CommandInv, SelectInv, selected # <<>>, NEW V, V \subseteq Specification
  PROVE  /\ \A g \in DOMAIN Parts : Parts[g] \in Seq(Specification)
         /\ Cardinality(Executing(Parts, Len(specs), V)) = Count(ByTags(specs), V)
<1> DEFINE all == ByTags(specs)
           m == Len(specs)
           n == Len(all)
           d == Distributions(n)
           group == flags.group
<1>1. specs \in Seq(Specification) /\ all \in Seq(Specification) /\ m \in Nat /\ n \in Nat
  BY TaggedElements, LenProperties DEF CommandInv, CommandTypes
<1>2. n <= m
  <2> DEFINE tags == OfTags
  <2>1. \A s \in Specification : Len(tags[s]) <= 1
    BY DEF OfTags
  <2>2. Makes(tags, Specification, Specification)
    BY WayTypes
  <2>3. all = Through(specs, tags)
    BY <1>1, TaggedThrough
  <2> HIDE DEF tags, all
  <2> QED BY <1>1, <2>1, <2>2, <2>3, LenThrough
<1>3. CASE group = -1
  <2>1. Parts = <<selected>> /\ selected \in SortSpecsList(all)
    BY <1>3 DEF Parts, SelectInv, FilteredInv, ByGroup
  <2> HIDE DEF all
  <2>2. selected \in Seq(Specification) /\ Len(selected) = n /\ Count(selected, V) = Count(all, V)
    BY <1>1, <2>1, CountOrdered
  <2>3. Cardinality(Executing(<<selected>>, m, V)) = Count(selected, V)
    <3>1. Len(selected) <= m
      BY <1>2, <2>2
    <3> HIDE DEF m
    <3> QED BY <1>1, <2>2, <3>1, ExecutingAlone
  <2>4. \A g \in DOMAIN Parts : Parts[g] \in Seq(Specification)
    BY <2>1, <2>2
  <2> QED BY <2>1, <2>2, <2>3, <2>4 DEF all
<1>4. CASE group # -1
  <2> DEFINE q == [g \in 1..d |-> Dealt(all, g)]
             p == [g \in 1..d |-> IF g = group THEN selected ELSE Dealt(all, g)]
             own == Dealt(all, group)
  <2>1. d \in 1..n /\ group \in 1..d /\ selected \in SortSpecsList(own)
    BY <1>4, GroupSelected
  <2>2. Parts = p
    BY <1>4 DEF Parts
  <2>3. \A g \in 1..d : Dealt(all, g) \in Seq(Specification) /\ Len(Dealt(all, g)) <= n
    <3> SUFFICES ASSUME NEW g \in 1..d PROVE Dealt(all, g) \in Seq(Specification) /\ Len(Dealt(all, g)) <= n
      OBVIOUS
    <3> HIDE DEF all
    <3> QED BY <1>1, <2>1, DealtType
  <2>4. own \in Seq(Specification) /\ Len(own) <= n
    BY <2>1, <2>3
  <2>5. selected \in Seq(Specification) /\ Len(selected) = Len(own) /\ Count(selected, V) = Count(own, V)
    <3> HIDE DEF own
    <3> QED BY <2>1, <2>4, CountOrdered
  <2>6. \A g \in 1..d : p[g] = IF g = group THEN selected ELSE q[g]
    OBVIOUS
  <2>7. p \in [1..d -> Seq(Specification)] /\ q \in [1..d -> Seq(Specification)]
    BY <2>3, <2>5
  <2>8. \A g \in 1..d : q[g] = Dealt(all, g)
    OBVIOUS
  <2>9. Cardinality(Executing(q, m, V)) = Count(all, V)
    <3> DEFINE e == d
    <3>1. e \in 1..Len(all) /\ e = Distributions(Len(all)) /\ Len(all) <= m
      BY <1>2, <2>1
    <3>2. q = [g \in 1..e |-> Dealt(all, g)]
      OBVIOUS
    <3> HIDE DEF e, all, m, q
    <3> QED BY ONLY <1>1, <3>1, <3>2, ExecutingDealt
  <2> HIDE DEF p, q, own, m, n
  <2>10. Cardinality(Executing(p, m, V)) = Cardinality(Executing(q, m, V))
    <3> DEFINE e == d
    <3>1. e \in Nat /\ group \in 1..e
      BY <2>1
    <3>2. p \in [1..e -> Seq(Specification)] /\ q \in [1..e -> Seq(Specification)]
      BY <2>7
    <3>3. \A h \in 1..e : h # group => p[h] = q[h]
      BY <2>6
    <3>4. \A h \in 1..e : Len(p[h]) <= m /\ Len(q[h]) <= m
      <4> SUFFICES ASSUME NEW h \in 1..e PROVE Len(p[h]) <= m /\ Len(q[h]) <= m
        OBVIOUS
      <4>1. q[h] \in Seq(Specification) /\ Len(q[h]) <= n
        BY <2>3, <2>8
      <4>2. p[h] = selected \/ p[h] = q[h]
        BY <2>6
      <4>3. Len(q[h]) \in Nat /\ Len(selected) \in Nat /\ Len(own) \in Nat
        BY <2>4, <2>5, <4>1, LenProperties
      <4>4. Len(selected) <= m /\ Len(q[h]) <= m
        BY <1>1, <1>2, <2>4, <2>5, <4>1, <4>3
      <4> QED BY <4>2, <4>4
    <3>5. Count(p[group], V) = Count(q[group], V)
      <4>1. p[group] = selected /\ q[group] = own
        BY <2>1, <2>6, <2>8 DEF own
      <4> QED BY <2>5, <4>1
    <3>6. Lists(p, e, m, Specification) /\ Lists(q, e, m, Specification) /\ SameBut(p, q, e, group)
      BY <3>2, <3>3, <3>4 DEF Lists, SameBut
    <3> HIDE DEF e, group
    <3> QED BY ONLY <1>1, <3>1, <3>5, <3>6, ExecutingExchanged
  <2>11. \A g \in DOMAIN p : p[g] \in Seq(Specification)
    BY <2>7
  <2> QED BY <2>2, <2>9, <2>10, <2>11 DEF m
<1> QED BY <1>3, <1>4

LEMMA SelectionIsExact == CommandInv /\ SelectInv => SelectionExact
<1> SUFFICES ASSUME CommandInv, SelectInv, Chosen, NEW file \in File, NEW i \in ScenariosOf(file)
             PROVE  Cardinality({a \in DOMAIN flags.args : Wanted(a, file, i)})
                      = Cardinality({gn \in (DOMAIN Parts) \X (1..Len(specs)) :
                          /\ gn[2] \in DOMAIN Parts[gn[1]]
                          /\ Parts[gn[1]][gn[2]].file = file
                          /\ i \in Parts[gn[1]][gn[2]].items})
  BY DEF SelectionExact
<1> DEFINE V == Has(file, i)
           parts == Parts
           m == Len(specs)
<1>1. selected # <<>>
  BY DEF CommandInv, SelectedInv, Chosen
<1>2. V \subseteq Specification
  BY DEF Has
<1>3. /\ \A g \in DOMAIN parts : parts[g] \in Seq(Specification)
      /\ Cardinality(Executing(parts, m, V)) = Count(ByTags(specs), V)
  <2> HIDE DEF V
  <2> QED BY <1>1, <1>2, CountExecuting
<1>4. Count(ByTags(specs), V) = Cardinality({a \in DOMAIN flags.args : Wanted(a, file, i)})
  BY <1>1, CountSelectable
<1> HIDE DEF parts, m
<1>5. \A g \in DOMAIN parts : \A k \in DOMAIN parts[g] :
        parts[g][k] \in V <=> parts[g][k].file = file /\ i \in parts[g][k].items
  <2> SUFFICES ASSUME NEW g \in DOMAIN parts, NEW k \in DOMAIN parts[g]
               PROVE  parts[g][k] \in V <=> parts[g][k].file = file /\ i \in parts[g][k].items
    OBVIOUS
  <2>1. parts[g] \in Seq(Specification) /\ DOMAIN parts[g] = 1..Len(parts[g])
    BY <1>3, LenProperties
  <2>2. parts[g][k] \in Specification
    BY <2>1, ElementOfSeq
  <2> QED BY <2>2 DEF Has
<1>6. {gn \in (DOMAIN parts) \X (1..m) :
         /\ gn[2] \in DOMAIN parts[gn[1]]
         /\ parts[gn[1]][gn[2]].file = file
         /\ i \in parts[gn[1]][gn[2]].items} = Executing(parts, m, V)
  <2> HIDE DEF V
  <2> QED BY <1>5 DEF Executing
<1> QED BY <1>3, <1>4, <1>6 DEF parts, m

\* However the parsers are scheduled, what is executed is what the arguments, the tags and
\* the group ask for, and without groups it is the same every time, each specification as
\* often.
THEOREM SelectionSound == CommandSpec => []SelectedAsAsked
<1>1. CommandInv /\ SelectInv => SelectedAsAsked
  BY SameSelection, SelectionIsExact DEF SelectedAsAsked
<1> QED BY <1>1, CommandInitInv, SelectInit, CommandStep, SelectStep, PTL DEF CommandSpec
-----------------------------------------------------------------------------
(* Concept extraction: the usage of the concept means the selected steps.  *)

name == selection.name

\* What a step is in the concept.
Made(k) == ReplaceArgsWithDynamic(ArgsWithTable(selection.steps[k]), name)

\* The steps so far that have a table for a parameter of the name.
WithParam == {k \in 1..Len(extractor.steps) : selection.steps[k].table.kind = "param"}

ExtractorTypes ==
  /\ selection \in Selections
  /\ extractor = [conceptName |-> extractor.conceptName, table |-> extractor.table,
                  dynamicArgs |-> extractor.dynamicArgs, steps |-> extractor.steps]
  /\ extractor.steps \in Seq({Made(k) : k \in DOMAIN selection.steps})
  /\ extractor.dynamicArgs \in Seq(STRING)

\* Every step is the selected one with its arguments replaced; the name keeps its arguments,
\* but the one for a table.
StepsSoFar ==
  /\ Len(extractor.steps) <= Len(selection.steps)
  /\ \A k \in 1..Len(extractor.steps) : extractor.steps[k] = Made(k)
  /\ extraction = "extract" => written = {}
  /\ extraction \in {"concept", "usage"} \/ written # {} => Len(extractor.steps) = Len(selection.steps)

NameSoFar ==
  Extractable =>
    /\ Tables("param") # {} => extractor.dynamicArgs = <<>>
    /\ WithParam = {} => extractor.conceptName = name /\ extractor.table = NoTable
    /\ WithParam # {} =>
         /\ extractor.conceptName = [name EXCEPT ![Len(name)] = Gap]
         /\ \E k \in WithParam : extractor.table = selection.steps[k].table

ExtractInv == ExtractorTypes /\ StepsSoFar /\ NameSoFar

LEMMA SelectionTypes ==
  ASSUME selection \in Selections
  PROVE  /\ name \in Seq(Argument) /\ Len(name) \in Nat /\ DOMAIN name = 1..Len(name)
         /\ \A j \in 1..Len(name) : name[j] \in Argument
         /\ Len(selection.steps) \in Nat /\ DOMAIN selection.steps = 1..Len(selection.steps)
         /\ \A k \in DOMAIN selection.steps :
              selection.steps[k].args \in Seq(Argument) /\ selection.steps[k].table \in Table
<1>1. name \in Seq(Argument) /\ selection.steps \in Seq([args : Seq(Argument), table : Table])
  BY ExtractionAssumption DEF name
<1>2. Len(name) \in Nat /\ DOMAIN name = 1..Len(name) /\ \A j \in 1..Len(name) : name[j] \in Argument
  BY <1>1, LenProperties, ElementOfSeq
<1>3. Len(selection.steps) \in Nat /\ DOMAIN selection.steps = 1..Len(selection.steps)
  BY <1>1, LenProperties
<1>4. \A k \in 1..Len(selection.steps) : selection.steps[k] \in [args : Seq(Argument), table : Table]
  BY <1>1, ElementOfSeq
<1> QED BY <1>1, <1>2, <1>3, <1>4

LEMMA ExtractInitInv == ExtractionInit => ExtractInv
<1> SUFFICES ASSUME ExtractionInit PROVE ExtractInv
  OBVIOUS
<1>1. /\ extractor = [conceptName |-> name, table |-> NoTable, dynamicArgs |-> <<>>, steps |-> <<>>]
      /\ selection \in Selections /\ extraction = "extract" /\ written = {}
  BY DEF ExtractionInit, name
<1>2. /\ extractor.conceptName = name /\ extractor.table = NoTable /\ extractor.dynamicArgs = <<>>
      /\ extractor.steps = <<>>
  BY <1>1
<1>3. 1..Len(<<>>) = {} /\ Len(<<>>) = 0 /\ \A S : <<>> \in Seq(S)
  OBVIOUS
<1>4. ExtractorTypes
  BY <1>1, <1>2, <1>3 DEF ExtractorTypes
<1>5. StepsSoFar
  BY <1>1, <1>2, <1>3, SelectionTypes DEF StepsSoFar
<1>6. NameSoFar
  <2>1. WithParam = {}
    BY <1>2, <1>3 DEF WithParam
  <2> QED BY <1>2, <2>1 DEF NameSoFar
<1> QED BY <1>4, <1>5, <1>6 DEF ExtractInv

\* The first position of an argument.
LEMMA FirstPosition ==
  ASSUME NEW P \in SUBSET Nat, P # {}
  PROVE  Min(P) \in P /\ \A j \in P : Min(P) <= j
BY Smallest DEF Min

\* The argument that stands for a table is the name's last one, once.
LEMMA TableReplaced ==
  ASSUME selection \in Selections, Extractable, NEW k \in Tables("param")
  PROVE  LET old == Dynamic(selection.steps[k].table.name)
             gone == [name EXCEPT ![Len(name)] = Gap]
         IN  Replace(name, old, Gap) = gone /\ Replace(gone, old, Gap) = gone
<1> DEFINE old == Dynamic(selection.steps[k].table.name)
           n == Len(name)
           gone == [name EXCEPT ![n] = Gap]
           P == {i \in DOMAIN name : name[i] = old}
<1>1. n \in Nat /\ DOMAIN name = 1..n /\ \A j \in 1..n : name[j] \in Argument
  BY SelectionTypes
<1>2. name # <<>> /\ Last(name) = old
  BY DEF Extractable, name
<1>3. n \in 1..n /\ name[n] = old
  <2>1. name \in Seq(Argument)
    BY SelectionTypes
  <2>2. n # 0
    BY <1>2, <2>1, EmptySeq
  <2> QED BY <1>1, <1>2, <2>2 DEF Last
<1>4. \A i \in 1..n : name[i] = old => i = n
  <2>1. \A i, j \in 1..n : i # j => name[i].value # name[j].value
    BY <1>1 DEF Extractable, name
  <2> QED BY <1>3, <2>1
<1> HIDE DEF n, old
<1>5. P = {n}
  BY <1>1, <1>3, <1>4
<1>6. Min({n}) = n
  BY DEF Min
<1>7. old \in ToSet(name)
  BY <1>1, <1>3 DEF ToSet
<1>8. Replace(name, old, Gap) = gone
  BY <1>5, <1>6, <1>7 DEF Replace
<1>9. old \notin ToSet(gone)
  <2>1. DOMAIN gone = 1..n /\ gone[n] = Gap /\ \A i \in 1..n : i # n => gone[i] = name[i]
    BY <1>1, <1>3
  <2>2. Gap # old
    BY DEF Gap, old, Dynamic
  <2> HIDE DEF gone
  <2> QED BY <1>4, <2>1, <2>2 DEF ToSet
<1>10. Replace(gone, old, Gap) = gone
  BY <1>9 DEF Replace
<1> QED BY <1>8, <1>10 DEF old, n

LEMMA ExtractStepInv == ExtractInv /\ ExtractStep => ExtractInv'
<1> SUFFICES ASSUME ExtractInv, ExtractStep PROVE ExtractInv'
  OBVIOUS
<1> DEFINE m == Len(extractor.steps)
           k == m + 1
           s == selection.steps[k]
           made == {Made(j) : j \in DOMAIN selection.steps}
<1>1. /\ extraction = "extract" /\ m < Len(selection.steps) /\ selection' = selection
      /\ extraction' = extraction /\ written' = written
      /\ extractor' = [WithTable(extractor, s) EXCEPT !.steps = Append(@, Made(k))]
  BY DEF ExtractStep, Made, name
<1>2. /\ selection \in Selections /\ extractor.steps \in Seq(made) /\ extractor.dynamicArgs \in Seq(STRING)
      /\ extractor = [conceptName |-> extractor.conceptName, table |-> extractor.table,
                      dynamicArgs |-> extractor.dynamicArgs, steps |-> extractor.steps]
  BY DEF ExtractInv, ExtractorTypes
<1>3. m \in Nat /\ k \in DOMAIN selection.steps /\ k \in 1..k /\ DOMAIN selection.steps = 1..Len(selection.steps)
      /\ Len(selection.steps) \in Nat /\ k <= Len(selection.steps)
  BY <1>1, <1>2, SelectionTypes, LenProperties
<1>4. s.table \in Table
  BY <1>2, <1>3, SelectionTypes
<1>5. s.table.kind \in {"none", "param", "inline"} /\ s.table.cells \in Seq(STRING)
  BY <1>4 DEF Table
<1> HIDE DEF made, s
<1>6. /\ extractor'.steps = Append(extractor.steps, Made(k))
      /\ extractor'.conceptName =
           IF s.table.kind = "param" THEN Replace(extractor.conceptName, Dynamic(s.table.name), Gap)
           ELSE extractor.conceptName
      /\ extractor'.table = IF s.table.kind = "param" THEN s.table ELSE extractor.table
      /\ extractor'.dynamicArgs =
           IF s.table.kind = "inline" THEN extractor.dynamicArgs \o s.table.cells ELSE extractor.dynamicArgs
      /\ extractor' = [conceptName |-> extractor'.conceptName, table |-> extractor'.table,
                       dynamicArgs |-> extractor'.dynamicArgs, steps |-> extractor'.steps]
  <2> DEFINE e == WithTable(extractor, s)
  <2>1. /\ e = [conceptName |-> e.conceptName, table |-> e.table, dynamicArgs |-> e.dynamicArgs, steps |-> e.steps]
        /\ e.steps = extractor.steps
        /\ e.conceptName =
             IF s.table.kind = "param" THEN Replace(extractor.conceptName, Dynamic(s.table.name), Gap)
             ELSE extractor.conceptName
        /\ e.table = IF s.table.kind = "param" THEN s.table ELSE extractor.table
        /\ e.dynamicArgs =
             IF s.table.kind = "inline" THEN extractor.dynamicArgs \o s.table.cells ELSE extractor.dynamicArgs
    <3>1. CASE s.table.kind = "none"
      <4>1. e = extractor
        BY <3>1 DEF WithTable
      <4> HIDE DEF e
      <4> QED BY <3>1, <4>1, <1>2
    <3>2. CASE s.table.kind = "param"
      <4> DEFINE new == Replace(extractor.conceptName, Dynamic(s.table.name), Gap)
      <4>1. e = [extractor EXCEPT !.conceptName = new, !.table = s.table]
        BY <3>2 DEF WithTable
      <4> HIDE DEF new, e
      <4>2. e = [conceptName |-> new, table |-> s.table, dynamicArgs |-> extractor.dynamicArgs, steps |-> extractor.steps]
        BY <4>1, <1>2
      <4> QED BY <3>2, <4>2 DEF new
    <3>3. CASE s.table.kind = "inline"
      <4> DEFINE new == extractor.dynamicArgs \o s.table.cells
      <4>1. e = [extractor EXCEPT !.dynamicArgs = new]
        BY <3>3 DEF WithTable
      <4> HIDE DEF new, e
      <4>2. e = [conceptName |-> extractor.conceptName, table |-> extractor.table, dynamicArgs |-> new, steps |-> extractor.steps]
        BY <4>1, <1>2
      <4> QED BY <3>3, <4>2 DEF new
    <3> QED BY <1>5, <3>1, <3>2, <3>3
  <2> DEFINE more == Append(e.steps, Made(k))
  <2>2. extractor' = [e EXCEPT !.steps = more]
    BY <1>1
  <2> HIDE DEF e, more
  <2>3. extractor' = [conceptName |-> e.conceptName, table |-> e.table, dynamicArgs |-> e.dynamicArgs, steps |-> more]
    BY <2>1, <2>2
  <2> QED BY <2>1, <2>3 DEF more
<1>7. Made(k) \in made /\ made' = made /\ \A j : Made(j)' = Made(j)
  BY <1>1, <1>3 DEF made, Made, name
<1>8. /\ extractor'.steps \in Seq(made) /\ Len(extractor'.steps) = k
      /\ \A j \in 1..m : extractor'.steps[j] = extractor.steps[j]
      /\ extractor'.steps[k] = Made(k)
  BY <1>2, <1>3, <1>6, <1>7, AppendProperties
<1>9. ExtractorTypes'
  <2>1. extractor'.dynamicArgs \in Seq(STRING)
    BY <1>2, <1>5, <1>6, ConcatProperties
  <2> QED BY <1>1, <1>2, <1>6, <1>7, <1>8, <2>1 DEF ExtractorTypes, made
<1>10. StepsSoFar'
  <2>1. \A j \in 1..k : j \in 1..m \/ j = k
    BY <1>3
  <2>2. \A j \in 1..m : extractor.steps[j] = Made(j)
    BY DEF ExtractInv, StepsSoFar
  <2>3. \A j \in 1..Len(extractor'.steps) : extractor'.steps[j] = Made(j)'
    BY <1>7, <1>8, <2>1, <2>2
  <2>4. written' = {} /\ extraction' = "extract"
    BY <1>1 DEF ExtractInv, StepsSoFar
  <2> QED BY <1>1, <1>3, <1>8, <2>3, <2>4 DEF StepsSoFar
<1>11. NameSoFar'
  <2>1. /\ (Extractable' <=> Extractable) /\ name' = name /\ \A kind : Tables(kind)' = Tables(kind)
    BY <1>1 DEF Extractable, name, Tables
  <2>2. WithParam' = WithParam \cup (IF s.table.kind = "param" THEN {k} ELSE {})
    <3>1. WithParam' = {j \in 1..k : selection.steps[j].table.kind = "param"}
      BY <1>1, <1>8 DEF WithParam
    <3>2. 1..k = 1..m \cup {k}
      BY <1>3
    <3>3. selection.steps[k].table.kind = s.table.kind
      BY DEF s
    <3> HIDE DEF k, m
    <3> QED BY <3>1, <3>2, <3>3 DEF WithParam, m
  <2> SUFFICES ASSUME Extractable
               PROVE  /\ Tables("param") # {} => extractor'.dynamicArgs = <<>>
                      /\ WithParam' = {} => extractor'.conceptName = name /\ extractor'.table = NoTable
                      /\ WithParam' # {} =>
                           /\ extractor'.conceptName = [name EXCEPT ![Len(name)] = Gap]
                           /\ \E j \in WithParam' : extractor'.table = selection.steps[j].table
    BY <1>1, <2>1 DEF NameSoFar
  <2>3. /\ Tables("param") # {} => extractor.dynamicArgs = <<>>
        /\ WithParam = {} => extractor.conceptName = name /\ extractor.table = NoTable
        /\ WithParam # {} =>
             /\ extractor.conceptName = [name EXCEPT ![Len(name)] = Gap]
             /\ \E j \in WithParam : extractor.table = selection.steps[j].table
    BY DEF ExtractInv, NameSoFar
  <2>4. ASSUME Tables("param") # {} PROVE extractor'.dynamicArgs = <<>>
    <3>1. CASE s.table.kind = "inline"
      <4>1. k \in Tables("inline")
        BY <3>1, <1>3 DEF Tables, s
      <4>2. s.table.cells = <<>>
        <5>1. \E j \in Tables("param") : TRUE
          BY <2>4
        <5>2. {Dynamic(selection.steps[j].table.name) : j \in Tables("param")} # {}
          BY <5>1
        <5> QED BY <4>1, <5>2 DEF Extractable, s
      <4> QED BY <1>6, <2>3, <2>4, <3>1, <4>2
    <3>2. CASE s.table.kind # "inline"
      BY <1>6, <2>3, <2>4, <3>2
    <3> QED BY <3>1, <3>2
  <2>5. CASE s.table.kind = "param"
    <3>1. k \in Tables("param")
      BY <2>5, <1>3 DEF Tables, s
    <3>2. extractor'.conceptName = [name EXCEPT ![Len(name)] = Gap]
      <4> DEFINE gone == [name EXCEPT ![Len(name)] = Gap]
                 old == Dynamic(s.table.name)
      <4>1. Replace(name, old, Gap) = gone /\ Replace(gone, old, Gap) = gone
        BY <1>2, <3>1, TableReplaced DEF s
      <4>2. extractor.conceptName \in {name, gone}
        BY <2>3
      <4>3. extractor'.conceptName = Replace(extractor.conceptName, old, Gap)
        BY <1>6, <2>5
      <4> HIDE DEF gone, old
      <4>4. extractor'.conceptName = gone
        BY <4>1, <4>2, <4>3
      <4> QED BY <4>4 DEF gone
    <3>3. k \in WithParam' /\ extractor'.table = selection.steps[k].table
      BY <1>6, <2>2, <2>5 DEF s
    <3> QED BY <2>4, <3>2, <3>3
  <2>6. CASE s.table.kind # "param"
    <3>1. WithParam' = WithParam /\ extractor'.conceptName = extractor.conceptName /\ extractor'.table = extractor.table
      BY <1>6, <2>2, <2>6
    <3> QED BY <2>3, <2>4, <3>1
  <2> QED BY <2>5, <2>6
<1> QED BY <1>9, <1>10, <1>11 DEF ExtractInv
LEMMA OtherExtractionInv ==
  ExtractInv /\ (RejectText \/ RejectTable \/ RejectSpec \/ ExtractConcept \/ WriteConcept \/ WriteUsage
                   \/ UNCHANGED extractionVars)
    => ExtractInv'
<1> SUFFICES ASSUME ExtractInv, RejectText \/ RejectTable \/ RejectSpec \/ ExtractConcept \/ WriteConcept \/ WriteUsage
                                  \/ UNCHANGED extractionVars
             PROVE  ExtractInv'
  OBVIOUS
<1>1. selection' = selection /\ extractor' = extractor
  BY DEF RejectText, RejectTable, RejectSpec, ExtractConcept, WriteConcept, WriteUsage, extractionVars
<1>2. \A k : Made(k)' = Made(k)
  BY <1>1 DEF Made, name
<1>3. ExtractorTypes'
  BY <1>1, <1>2 DEF ExtractInv, ExtractorTypes
<1>4. StepsSoFar'
  <2>1. /\ Len(extractor.steps) <= Len(selection.steps)
        /\ \A k \in 1..Len(extractor.steps) : extractor.steps[k] = Made(k)
        /\ extraction = "extract" => written = {}
        /\ extraction \in {"concept", "usage"} \/ written # {} => Len(extractor.steps) = Len(selection.steps)
    BY DEF ExtractInv, StepsSoFar
  <2>2. CASE RejectText \/ RejectTable \/ RejectSpec
    <3>1. extraction' \in {"crashed", "done"} /\ written' = {}
      BY <2>1, <2>2 DEF RejectText, RejectTable, RejectSpec
    <3> QED BY <1>1, <1>2, <2>1, <3>1 DEF StepsSoFar
  <2>3. CASE ExtractConcept \/ WriteConcept \/ WriteUsage
    <3>1. Len(extractor.steps) = Len(selection.steps) /\ extraction' # "extract"
      BY <2>1, <2>3 DEF ExtractConcept, WriteConcept, WriteUsage
    <3> QED BY <1>1, <1>2, <2>1, <3>1 DEF StepsSoFar
  <2>4. CASE UNCHANGED extractionVars
    BY <1>1, <1>2, <2>1, <2>4 DEF StepsSoFar, extractionVars
  <2> QED BY <2>2, <2>3, <2>4
<1>5. NameSoFar'
  <2>1. /\ (Extractable' <=> Extractable) /\ name' = name /\ (\A kind : Tables(kind)' = Tables(kind))
        /\ WithParam' = WithParam
    BY <1>1 DEF Extractable, name, Tables, WithParam
  <2> QED BY <1>1, <2>1 DEF ExtractInv, NameSoFar
<1> QED BY <1>3, <1>4, <1>5 DEF ExtractInv

LEMMA IntervalMax == ASSUME NEW m \in Nat \ {0} PROVE Max(1..m) = m
<1>1. m \in 1..m /\ \A j \in 1..m : m >= j
  OBVIOUS
<1>2. \A x \in 1..m : (\A j \in 1..m : x >= j) => x = m
  BY <1>1
<1> QED BY <1>1, <1>2 DEF Max

\* The heading has a parameter for each argument of the name, then those of the tables.
LEMMA HeadingArgs ==
  ASSUME ExtractorTypes
  PROVE  LET n == Len(name)
             args == extractor.dynamicArgs
         IN  /\ Len(args) \in Nat /\ Len(Heading) = n + Len(args) /\ DOMAIN Heading = 1..(n + Len(args))
             /\ \A j \in 1..n : Heading[j] = Dynamic(name[j].value)
             /\ \A j \in 1..Len(args) : Heading[n + j] = Dynamic(args[j])
             /\ \A x \in ToSet(Heading) : x.kind = "dynamic"
<1> DEFINE n == Len(name)
           args == extractor.dynamicArgs
           own == ReplaceArgsWithDynamic(name, name)
           more == [i \in DOMAIN args |-> Dynamic(args[i])]
           Dynamics == [kind : {"dynamic"}, value : STRING]
<1>1. n \in Nat /\ DOMAIN name = 1..n /\ \A j \in 1..n : name[j] \in Argument
  BY SelectionTypes DEF ExtractorTypes
<1>2. Len(args) \in Nat /\ DOMAIN args = 1..Len(args) /\ \A j \in 1..Len(args) : args[j] \in STRING
  <2>1. args \in Seq(STRING)
    BY DEF ExtractorTypes
  <2> HIDE DEF args
  <2> QED BY <2>1, LenProperties, ElementOfSeq
<1>3. own = [j \in 1..n |-> Dynamic(name[j].value)]
  <2>1. \A j \in DOMAIN name : name[j] \in ToSet(name)
    BY DEF ToSet
  <2> QED BY <1>1, <2>1 DEF ReplaceArgsWithDynamic
<1>4. \A v \in STRING : Dynamic(v) \in Dynamics /\ Dynamic(v).kind = "dynamic"
  BY DEF Dynamic
<1>5. \A j \in 1..n : name[j].value \in STRING
  BY <1>1 DEF Argument
<1>6. own \in [1..n -> Dynamics] /\ more \in [1..Len(args) -> Dynamics]
        /\ (\A j \in 1..n : own[j] = Dynamic(name[j].value)) /\ \A j \in 1..Len(args) : more[j] = Dynamic(args[j])
  <2> HIDE DEF own, n, args, Dynamics
  <2> QED BY <1>2, <1>3, <1>4, <1>5
<1>7. Heading = own \o more
  BY DEF Heading, name
<1> HIDE DEF own, more, n, args, Dynamics
<1>8. own \in Seq(Dynamics) /\ Len(own) = n /\ more \in Seq(Dynamics) /\ Len(more) = Len(args)
  BY <1>1, <1>2, <1>6, FunctionIsSeq
<1>9. /\ Heading \in Seq(Dynamics) /\ Len(Heading) = n + Len(args)
      /\ \A i \in 1..(n + Len(args)) : Heading[i] = IF i <= n THEN own[i] ELSE more[i - n]
  <2>1. /\ own \o more \in Seq(Dynamics) /\ Len(own \o more) = Len(own) + Len(more)
        /\ \A i \in 1..(Len(own) + Len(more)) :
             (own \o more)[i] = IF i <= Len(own) THEN own[i] ELSE more[i - Len(own)]
    BY <1>8, ConcatProperties
  <2> QED BY <1>7, <1>8, <2>1
<1>10. DOMAIN Heading = 1..(n + Len(args))
  BY <1>9, LenProperties
<1>11. ASSUME NEW j \in 1..n PROVE Heading[j] = Dynamic(name[j].value)
  <2>1. j \in 1..(n + Len(args)) /\ j <= n
    BY <1>1, <1>2
  <2> QED BY <1>6, <1>9, <2>1
<1>12. ASSUME NEW j \in 1..Len(args) PROVE Heading[n + j] = Dynamic(args[j])
  <2>1. n + j \in 1..(n + Len(args)) /\ ~(n + j <= n) /\ (n + j) - n = j
    BY <1>1, <1>2
  <2> QED BY <1>6, <1>9, <2>1
<1>13. ASSUME NEW x \in ToSet(Heading) PROVE x.kind = "dynamic"
  <2>1. PICK i \in 1..(n + Len(args)) : x = Heading[i]
    BY <1>10 DEF ToSet
  <2>2. CASE i <= n
    <3>1. i \in 1..n
      BY <1>1, <2>2
    <3> QED BY <1>5, <1>4, <1>11, <2>1, <3>1
  <2>3. CASE ~(i <= n)
    <3>1. i - n \in 1..Len(args) /\ n + (i - n) = i
      BY <1>1, <1>2, <2>3
    <3> QED BY <1>2, <1>4, <1>12, <2>1, <3>1
  <2> QED BY <2>2, <2>3
<1> QED BY <1>2, <1>9, <1>10, <1>11, <1>12, <1>13 DEF n, args

\* Without tables for parameters the usage has the arguments of the name and those of the
\* tables, as they are.
LEMMA UsageWithoutParam ==
  ASSUME ExtractorTypes, extractor.conceptName = name, extractor.table = NoTable
  PROVE  LET n == Len(name)
             args == extractor.dynamicArgs
         IN  /\ Len(Usage) = n + Len(args) /\ Gap \notin ToSet(Usage)
             /\ \A j \in 1..n : Usage[j] = name[j]
             /\ \A j \in 1..Len(args) : Usage[n + j] = Dynamic(args[j])
<1> DEFINE n == Len(name)
           args == extractor.dynamicArgs
           more == [i \in DOMAIN args |-> Dynamic(args[i])]
           line == extractor.conceptName \o more
           last == {i \in DOMAIN line : line[i] # Gap}
           Args == [kind : {"static", "dynamic", "special"}, value : STRING]
<1>1. n \in Nat /\ name \in Seq(Args) /\ \A j \in 1..n : name[j] \in Args
  BY SelectionTypes DEF ExtractorTypes, Argument
<1>2. Len(args) \in Nat /\ DOMAIN args = 1..Len(args) /\ \A j \in 1..Len(args) : args[j] \in STRING
  <2>1. args \in Seq(STRING)
    BY DEF ExtractorTypes
  <2> HIDE DEF args
  <2> QED BY <2>1, LenProperties, ElementOfSeq
<1>3. \A v \in STRING : Dynamic(v) \in Args
  BY DEF Dynamic
<1>4. more \in [1..Len(args) -> Args] /\ \A j \in 1..Len(args) : more[j] = Dynamic(args[j])
  <2> HIDE DEF args, Args
  <2> QED BY <1>2, <1>3
<1>5. Usage = SubSeq(line, 1, IF last = {} THEN 0 ELSE Max(last)) \o <<>>
  BY DEF Usage
<1>6. Gap \notin Args
  BY DEF Gap
<1> HIDE DEF more, n, args, Args
<1>7. more \in Seq(Args) /\ Len(more) = Len(args)
  BY <1>2, <1>4, FunctionIsSeq
<1>8. /\ line \in Seq(Args) /\ Len(line) = n + Len(args)
      /\ \A i \in 1..(n + Len(args)) : line[i] = IF i <= n THEN name[i] ELSE more[i - n]
  <2>1. line = name \o more
    OBVIOUS
  <2> HIDE DEF line
  <2>2. /\ name \o more \in Seq(Args) /\ Len(name \o more) = Len(name) + Len(more)
        /\ \A i \in 1..(Len(name) + Len(more)) :
             (name \o more)[i] = IF i <= Len(name) THEN name[i] ELSE more[i - Len(name)]
    <3>1. name \in Seq(Args)
      BY <1>1
    <3>2. more \in Seq(Args)
      BY <1>7
    <3> QED BY <3>1, <3>2, ConcatProperties
  <2> QED BY <1>7, <2>1, <2>2 DEF n
<1> HIDE DEF line
<1>9. Len(line) \in Nat /\ DOMAIN line = 1..Len(line) /\ \A i \in 1..Len(line) : line[i] \in Args
  BY <1>8, LenProperties, ElementOfSeq
<1>10. last = 1..Len(line)
  BY <1>6, <1>9
<1> HIDE DEF last
<1>11. SubSeq(line, 1, IF last = {} THEN 0 ELSE Max(last)) = line
  <2>1. CASE Len(line) = 0
    <3>1. last = {}
      BY <1>10, <2>1
    <3>2. SubSeq(line, 1, 0) = <<>>
      BY SubSeqEmpty
    <3>3. line = <<>>
      BY <1>8, <2>1, EmptySeq
    <3> QED BY <3>1, <3>2, <3>3
  <2>2. CASE Len(line) # 0
    <3>1. last # {} /\ Max(last) = Len(line)
      BY <1>9, <1>10, <2>2, IntervalMax
    <3> DEFINE cutLine == SubSeq(line, 1, Len(line))
    <3>2. /\ cutLine \in Seq(Args)
          /\ Len(cutLine) = IF 1 <= Len(line) THEN Len(line) - 1 + 1 ELSE 0
          /\ \A i \in 1..(Len(line) - 1 + 1) : cutLine[i] = line[1 + i - 1]
      BY <1>9, SubSeqProperties
    <3> HIDE DEF cutLine
    <3>3. Len(cutLine) = Len(line) /\ \A i \in 1..Len(line) : cutLine[i] = line[i]
      BY <1>9, <2>2, <3>2
    <3>4. cutLine = line
      BY <1>8, <3>2, <3>3, SeqEqual
    <3> QED BY <3>1, <3>4 DEF cutLine
  <2> QED BY <2>1, <2>2
<1>12. Usage = line
  BY <1>5, <1>8, <1>11, ConcatEmptySeq
<1>13. Gap \notin ToSet(line)
  BY <1>6, <1>9 DEF ToSet
<1>14. ASSUME NEW j \in 1..n PROVE line[j] = name[j]
  <2>1. j \in 1..(n + Len(args)) /\ j <= n
    BY <1>1, <1>2
  <2> QED BY <1>8, <2>1
<1>15. ASSUME NEW j \in 1..Len(args) PROVE line[n + j] = Dynamic(args[j])
  <2>1. n + j \in 1..(n + Len(args)) /\ ~(n + j <= n) /\ (n + j) - n = j
    BY <1>1, <1>2
  <2> QED BY <1>4, <1>8, <2>1
<1> QED BY <1>8, <1>12, <1>13, <1>14, <1>15 DEF n, args
\* With one, the usage has the arguments of the name but the last, and then the table.
LEMMA UsageWithParam ==
  ASSUME ExtractorTypes, name # <<>>, extractor.dynamicArgs = <<>>, extractor.table # NoTable,
         extractor.conceptName = [name EXCEPT ![Len(name)] = Gap]
  PROVE  LET n == Len(name)
         IN  /\ n \in Nat \ {0} /\ Len(Usage) = n /\ Gap \notin ToSet(Usage)
             /\ \A j \in 1..(n - 1) : Usage[j] = name[j]
             /\ Usage[n] = TableArg(extractor.table)
<1> DEFINE n == Len(name)
           args == extractor.dynamicArgs
           more == [i \in DOMAIN args |-> Dynamic(args[i])]
           line == extractor.conceptName \o more
           last == {i \in DOMAIN line : line[i] # Gap}
           Args == [kind : {"static", "dynamic", "special"}, value : STRING]
           gone == [name EXCEPT ![n] = Gap]
           front == SubSeq(line, 1, IF last = {} THEN 0 ELSE Max(last))
           argument == TableArg(extractor.table)
           All == Args \cup {Gap, argument}
<1>1. n \in Nat \ {0} /\ DOMAIN name = 1..n /\ name \in Seq(Args) /\ \A j \in 1..n : name[j] \in Args
  <2>1. name \in Seq(Args) /\ DOMAIN name = 1..n /\ \A j \in 1..n : name[j] \in Args
    BY SelectionTypes DEF ExtractorTypes, Argument
  <2> QED BY <2>1, EmptySeq
<1>2. Gap \notin Args /\ argument # Gap
  BY DEF Gap, TableArg
<1>3. Usage = front \o <<argument>>
  BY DEF Usage
<1> HIDE DEF Args, argument, n
<1>4. /\ gone \in Seq(All) /\ Len(gone) = n /\ gone[n] = Gap /\ \A j \in 1..(n - 1) : gone[j] = name[j]
  <2>1. /\ DOMAIN gone = 1..n /\ gone = [j \in 1..n |-> gone[j]]
        /\ \A j \in 1..n : gone[j] = IF j = n THEN Gap ELSE name[j]
    BY <1>1
  <2>2. \A j \in 1..n : gone[j] \in All
    BY <1>1, <2>1
  <2> HIDE DEF gone, All
  <2>3. gone \in [1..n -> All]
    BY <2>1, <2>2
  <2>4. gone \in Seq(All) /\ Len(gone) = n
    BY <1>1, <2>3, FunctionIsSeq
  <2> QED BY <1>1, <2>1, <2>4
<1>5. line = gone
  <2>1. more = <<>>
    OBVIOUS
  <2>2. extractor.conceptName = gone
    BY DEF n
  <2> HIDE DEF more, gone, All
  <2> QED BY <1>4, <2>1, <2>2, ConcatEmptySeq
<1> HIDE DEF line, gone, All
<1>6. line \in Seq(All) /\ DOMAIN line = 1..n
  BY <1>4, <1>5, LenProperties
<1>7. last = 1..(n - 1)
  <2>1. \A j \in 1..(n - 1) : line[j] # Gap
    BY <1>1, <1>2, <1>4, <1>5
  <2>2. 1..n = 1..(n - 1) \cup {n}
    BY <1>1
  <2> QED BY <1>4, <1>5, <1>6, <2>1, <2>2
<1> HIDE DEF last
<1>8. front \in Seq(All) /\ Len(front) = n - 1 /\ \A j \in 1..(n - 1) : front[j] = name[j]
  <2>1. CASE n = 1
    <3>1. last = {} /\ 1..(n - 1) = {}
      BY <1>7, <2>1
    <3>2. SubSeq(line, 1, 0) = <<>>
      BY SubSeqEmpty
    <3>3. front = <<>>
      BY <3>1, <3>2
    <3> HIDE DEF front
    <3>4. <<>> \in Seq(All) /\ Len(<<>>) = 0
      OBVIOUS
    <3> QED BY <2>1, <3>1, <3>3, <3>4
  <2>2. CASE n # 1
    <3>1. n - 1 \in Nat \ {0}
      BY <1>1, <2>2
    <3>2. last # {} /\ Max(last) = n - 1
      <4> DEFINE q == n - 1
      <4>1. q \in Nat \ {0} /\ last = 1..q
        BY <1>7, <3>1
      <4> HIDE DEF q
      <4>2. Max(1..q) = q /\ 1 \in 1..q
        BY <4>1, IntervalMax
      <4> QED BY <4>1, <4>2 DEF q
    <3>3. front = SubSeq(line, 1, n - 1)
      BY <3>2
    <3> HIDE DEF front
    <3>4. \A i \in 1..(n - 1) : line[i] \in All /\ line[i] = name[i]
      BY <1>1, <1>4, <1>5, <1>6, ElementOfSeq
    <3>5. /\ front \in Seq(All) /\ Len(front) = IF 1 <= n - 1 THEN (n - 1) - 1 + 1 ELSE 0
          /\ \A i \in 1..((n - 1) - 1 + 1) : front[i] = line[1 + i - 1]
      <4> DEFINE q == n - 1
      <4>1. q \in Int /\ \A i \in 1..q : line[i] \in All
        BY <3>1, <3>4
      <4> HIDE DEF q
      <4>2. /\ SubSeq(line, 1, q) \in Seq(All) /\ Len(SubSeq(line, 1, q)) = IF 1 <= q THEN q - 1 + 1 ELSE 0
            /\ \A i \in 1..(q - 1 + 1) : SubSeq(line, 1, q)[i] = line[1 + i - 1]
        BY <4>1, SubSeqProperties
      <4> QED BY <3>3, <4>2 DEF q
    <3> QED BY <3>1, <3>4, <3>5
  <2> QED BY <2>1, <2>2
<1> HIDE DEF front
<1>9. argument \in All
  BY DEF All
<1>10. <<argument>> \in Seq(All) /\ Len(<<argument>>) = 1 /\ <<argument>>[1] = argument
  BY <1>9
<1>11. /\ Usage \in Seq(All) /\ Len(Usage) = n - 1 + 1
       /\ \A i \in 1..(n - 1 + 1) : Usage[i] = IF i <= n - 1 THEN front[i] ELSE <<argument>>[i - (n - 1)]
  <2>1. /\ front \o <<argument>> \in Seq(All) /\ Len(front \o <<argument>>) = Len(front) + Len(<<argument>>)
        /\ \A i \in 1..(Len(front) + Len(<<argument>>)) :
             (front \o <<argument>>)[i] = IF i <= Len(front) THEN front[i] ELSE <<argument>>[i - Len(front)]
    BY <1>8, <1>10, ConcatProperties
  <2> QED BY <1>3, <1>8, <1>10, <2>1
<1>12. Len(Usage) = n /\ DOMAIN Usage = 1..n
  BY <1>1, <1>11, LenProperties
<1>13. ASSUME NEW j \in 1..(n - 1) PROVE Usage[j] = name[j]
  <2>1. j \in 1..(n - 1 + 1) /\ j <= n - 1
    BY <1>1
  <2> QED BY <1>8, <1>11, <2>1
<1>14. Usage[n] = argument
  <2>1. n \in 1..(n - 1 + 1) /\ ~(n <= n - 1) /\ n - (n - 1) = 1
    BY <1>1
  <2> QED BY <1>10, <1>11, <2>1
<1>15. Gap \notin ToSet(Usage)
  <2>1. \A j \in 1..(n - 1) : Usage[j] # Gap
    BY <1>1, <1>2, <1>13
  <2>2. 1..n = 1..(n - 1) \cup {n}
    BY <1>1
  <2> QED BY <1>2, <1>12, <1>14, <2>1, <2>2 DEF ToSet
<1> QED BY <1>1, <1>12, <1>13, <1>14, <1>15 DEF n, argument

\* The value of the parameter that an argument of the name has become is what the usage has
\* there.
LEMMA ValueOfNamed ==
  ASSUME ExtractorTypes, Extractable, NEW j \in 1..Len(name)
  PROVE  Value(Dynamic(name[j].value)) = Usage[j]
<1> DEFINE argument == Dynamic(name[j].value)
           n == Len(name)
           P == {i \in DOMAIN Heading : Heading[i] = argument}
<1>1. n \in Nat /\ DOMAIN name = 1..n
  BY SelectionTypes DEF ExtractorTypes
<1>2. /\ Len(extractor.dynamicArgs) \in Nat /\ DOMAIN Heading = 1..(n + Len(extractor.dynamicArgs))
      /\ \A i \in 1..n : Heading[i] = Dynamic(name[i].value)
  BY HeadingArgs
<1>3. j \in P /\ P \in SUBSET Nat
  BY <1>1, <1>2
<1>4. argument \in ToSet(Heading)
  BY <1>3 DEF ToSet
<1> HIDE DEF P
<1>5. Min(P) \in P /\ Min(P) <= j
  BY <1>3, FirstPosition
<1>6. Min(P) = j
  <2> DEFINE i == Min(P)
  <2> HIDE DEF i
  <2>1. i \in P /\ i <= j
    BY <1>5 DEF i
  <2>2. i \in 1..n
    BY <1>1, <1>2, <2>1 DEF P
  <2>3. Dynamic(name[i].value) = argument
    BY <1>2, <2>1, <2>2 DEF P
  <2>4. Dynamic(name[i].value).value = name[i].value /\ argument.value = name[j].value
    BY DEF Dynamic
  <2>5. name[i].value = name[j].value
    BY <2>3, <2>4
  <2>6. \A a, b \in 1..n : a # b => name[a].value # name[b].value
    BY <1>1 DEF Extractable, name
  <2>7. i = j
    BY <2>2, <2>5, <2>6
  <2> QED BY <2>7 DEF i
<1>7. Value(argument) = Usage[Min(P)]
  BY <1>4 DEF Value, P
<1> QED BY <1>6, <1>7

\* An argument that is no parameter stands for itself.
LEMMA ValueOfOther ==
  ASSUME ExtractorTypes, NEW argument, argument.kind # "dynamic"
  PROVE  Value(argument) = argument
<1>1. \A x \in ToSet(Heading) : x.kind = "dynamic"
  BY HeadingArgs
<1>2. argument \notin ToSet(Heading)
  BY <1>1
<1> QED BY <1>2 DEF Value
\* What the arguments of a step have become in the concept, and its table.
LEMMA MadeArgs ==
  ASSUME selection \in Selections, NEW k \in DOMAIN selection.steps
  PROVE  LET step == selection.steps[k]
         IN  /\ \A i \in DOMAIN step.args :
                  /\ step.args[i] \in Argument
                  /\ Made(k)[i] = IF step.args[i] \in ToSet(name) THEN Dynamic(step.args[i].value) ELSE step.args[i]
             /\ step.table.kind = "param" => Last(Made(k)) = Dynamic(step.table.name)
             /\ step.table.kind = "inline" => Last(Made(k)) = TableArg(step.table)
<1> DEFINE step == selection.steps[k]
           extra == CASE step.table.kind = "none" -> <<>>
                      [] step.table.kind = "param" -> <<Dynamic(step.table.name)>>
                      [] step.table.kind = "inline" -> <<TableArg(step.table)>>
           all == ArgsWithTable(step)
           As == Argument \cup {Dynamic(step.table.name), TableArg(step.table)}
<1>1. step.args \in Seq(Argument) /\ step.table \in Table
  BY SelectionTypes
<1>2. step.table.kind \in {"none", "param", "inline"}
  BY <1>1 DEF Table
<1>3. all = step.args \o extra
  BY DEF ArgsWithTable
<1>4. /\ extra \in Seq(As)
      /\ step.table.kind = "none" => Len(extra) = 0
      /\ step.table.kind = "param" => Len(extra) = 1 /\ extra[1] = Dynamic(step.table.name)
      /\ step.table.kind = "inline" => Len(extra) = 1 /\ extra[1] = TableArg(step.table)
  <2>1. CASE step.table.kind = "none"
    <3>1. extra = <<>>
      BY <2>1
    <3> HIDE DEF extra, As
    <3> QED BY <2>1, <3>1
  <2>2. CASE step.table.kind = "param"
    <3> DEFINE t == Dynamic(step.table.name)
    <3>1. extra = <<t>> /\ t \in As
      BY <2>2
    <3> HIDE DEF extra, As, t
    <3>2. <<t>> \in Seq(As) /\ Len(<<t>>) = 1 /\ <<t>>[1] = t
      BY <3>1
    <3> QED BY <2>2, <3>1, <3>2 DEF t
  <2>3. CASE step.table.kind = "inline"
    <3> DEFINE t == TableArg(step.table)
    <3>1. extra = <<t>> /\ t \in As
      BY <2>3
    <3> HIDE DEF extra, As, t
    <3>2. <<t>> \in Seq(As) /\ Len(<<t>>) = 1 /\ <<t>>[1] = t
      BY <3>1
    <3> QED BY <2>3, <3>1, <3>2 DEF t
  <2> QED BY <1>2, <2>1, <2>2, <2>3
<1>5. step.args \in Seq(As)
  <2>1. Argument \subseteq As
    OBVIOUS
  <2> HIDE DEF As, step
  <2> QED BY <1>1, <2>1, WiderSeq
<1> HIDE DEF extra, As, all
<1>6. /\ all \in Seq(As) /\ Len(all) = Len(step.args) + Len(extra)
      /\ \A i \in 1..(Len(step.args) + Len(extra)) :
           all[i] = IF i <= Len(step.args) THEN step.args[i] ELSE extra[i - Len(step.args)]
  BY <1>3, <1>4, <1>5, ConcatProperties
<1>7. /\ Len(step.args) \in Nat /\ Len(extra) \in Nat /\ DOMAIN step.args = 1..Len(step.args)
      /\ DOMAIN all = 1..(Len(step.args) + Len(extra)) /\ \A i \in 1..Len(step.args) : step.args[i] \in Argument
  BY <1>1, <1>4, <1>6, LenProperties, ElementOfSeq
<1>8. Made(k) = [i \in DOMAIN all |-> IF all[i] \in ToSet(name) THEN Dynamic(all[i].value) ELSE all[i]]
  BY DEF Made, ReplaceArgsWithDynamic, all
<1>9. ASSUME NEW i \in DOMAIN step.args
      PROVE  /\ step.args[i] \in Argument
             /\ Made(k)[i] = IF step.args[i] \in ToSet(name) THEN Dynamic(step.args[i].value) ELSE step.args[i]
  <2>1. i \in 1..(Len(step.args) + Len(extra)) /\ i <= Len(step.args) /\ i \in 1..Len(step.args)
    BY <1>7
  <2>2. all[i] = step.args[i]
    BY <1>6, <2>1
  <2> QED BY <1>7, <1>8, <2>1, <2>2
<1>10. ASSUME Len(extra) = 1
       PROVE  Last(Made(k)) = IF extra[1] \in ToSet(name) THEN Dynamic(extra[1].value) ELSE extra[1]
  <2> DEFINE m == Len(step.args) + 1
  <2>1. m \in 1..m /\ ~(m <= Len(step.args)) /\ m - Len(step.args) = 1 /\ m = Len(step.args) + Len(extra) /\ m \in Nat
    BY <1>7, <1>10
  <2> HIDE DEF m
  <2>2. all[m] = extra[1] /\ DOMAIN all = 1..m
    BY <1>6, <1>7, <2>1
  <2>3. Len(Made(k)) = m
    BY <1>8, <2>1, <2>2
  <2> QED BY <1>8, <2>1, <2>2, <2>3 DEF Last
<1>11. step.table.kind = "param" => Last(Made(k)) = Dynamic(step.table.name)
  <2>1. Dynamic(step.table.name).value = step.table.name
    BY DEF Dynamic
  <2> QED BY <1>4, <1>10, <2>1
<1>12. step.table.kind = "inline" => Last(Made(k)) = TableArg(step.table)
  <2>1. \A x \in ToSet(name) : x \in Argument
    BY SelectionTypes DEF ToSet
  <2>2. TableArg(step.table) \notin Argument
    BY DEF TableArg, Argument
  <2> QED BY <1>4, <1>10, <2>1, <2>2
<1> QED BY <1>9, <1>11, <1>12

LEMMA MeaningKept ==
  ASSUME ExtractInv, written = {"concept", "usage"}, Extractable
  PROVE  /\ IsUse
         /\ \A k \in DOMAIN selection.steps :
              LET step == selection.steps[k]
                  args == extractor.steps[k]
              IN  /\ \A i \in DOMAIN step.args : Value(args[i]) = step.args[i]
                  /\ step.table.kind # "none" => Value(Last(args)) = TableArg(step.table)
                  /\ step.table.kind = "inline" =>
                       \A i \in DOMAIN step.table.cells :
                         Value(Dynamic(step.table.cells[i])) = Dynamic(step.table.cells[i])
<1> DEFINE n == Len(name)
           da == extractor.dynamicArgs
<1>1. ExtractorTypes /\ StepsSoFar /\ NameSoFar /\ selection \in Selections
  BY DEF ExtractInv, ExtractorTypes
<1>2. /\ n \in Nat /\ DOMAIN name = 1..n /\ name \in Seq(Argument) /\ \A j \in 1..n : name[j] \in Argument
      /\ Len(selection.steps) \in Nat /\ DOMAIN selection.steps = 1..Len(selection.steps)
      /\ \A k \in DOMAIN selection.steps : selection.steps[k].table \in Table
  BY <1>1, SelectionTypes
<1>3. Len(extractor.steps) = Len(selection.steps) /\ \A k \in DOMAIN selection.steps : extractor.steps[k] = Made(k)
  <2>1. written # {}
    OBVIOUS
  <2> QED BY <1>1, <1>2, <2>1 DEF StepsSoFar
<1>4. WithParam = Tables("param")
  BY <1>2, <1>3 DEF WithParam, Tables
<1>5. /\ Len(da) \in Nat /\ Len(Heading) = n + Len(da) /\ DOMAIN Heading = 1..(n + Len(da))
      /\ \A j \in 1..n : Heading[j] = Dynamic(name[j].value)
      /\ \A j \in 1..Len(da) : Heading[n + j] = Dynamic(da[j])
  BY <1>1, HeadingArgs
<1>6. ASSUME NEW k \in DOMAIN selection.steps, NEW i \in DOMAIN selection.steps[k].args,
             \A j \in 1..n : name[j] = selection.steps[k].args[i] => Usage[j] = name[j]
      PROVE  Value(extractor.steps[k][i]) = selection.steps[k].args[i]
  <2> DEFINE a == selection.steps[k].args[i]
  <2>1. extractor.steps[k][i] = IF a \in ToSet(name) THEN Dynamic(a.value) ELSE a
    BY <1>1, <1>3, MadeArgs
  <2>2. CASE a \in ToSet(name)
    <3>1. PICK j \in 1..n : a = name[j]
      BY <1>2, <2>2 DEF ToSet
    <3>2. Value(Dynamic(name[j].value)) = Usage[j]
      BY <1>1, ValueOfNamed
    <3>3. Usage[j] = name[j]
      BY <1>6, <3>1
    <3> QED BY <2>1, <2>2, <3>1, <3>2, <3>3
  <2>3. CASE a \notin ToSet(name)
    <3>1. a.kind # "dynamic"
      BY <2>3 DEF Extractable, name
    <3>2. Value(a) = a
      BY <1>1, <3>1, ValueOfOther
    <3> QED BY <2>1, <2>3, <3>2
  <2> QED BY <2>2, <2>3
<1>7. ASSUME NEW k \in DOMAIN selection.steps, selection.steps[k].table.kind = "inline"
      PROVE  Value(Last(extractor.steps[k])) = TableArg(selection.steps[k].table)
  <2> DEFINE t == TableArg(selection.steps[k].table)
  <2>1. Last(extractor.steps[k]) = t
    BY <1>1, <1>3, <1>7, MadeArgs
  <2>2. t.kind # "dynamic"
    BY DEF TableArg
  <2>3. Value(t) = t
    <3> HIDE DEF t
    <3> QED BY <1>1, <2>2, ValueOfOther
  <2> QED BY <2>1, <2>3
<1>8. CASE Tables("param") = {}
  <2>1. extractor.conceptName = name /\ extractor.table = NoTable
    BY <1>1, <1>4, <1>8 DEF NameSoFar
  <2>2. /\ Len(Usage) = n + Len(da) /\ Gap \notin ToSet(Usage)
        /\ \A j \in 1..n : Usage[j] = name[j]
        /\ \A j \in 1..Len(da) : Usage[n + j] = Dynamic(da[j])
    BY <1>1, <2>1, UsageWithoutParam
  <2>3. IsUse
    BY <1>5, <2>2 DEF IsUse
  <2>4. ASSUME NEW k \in DOMAIN selection.steps, selection.steps[k].table.kind = "inline",
               NEW i \in DOMAIN selection.steps[k].table.cells
        PROVE  Value(Dynamic(selection.steps[k].table.cells[i])) = Dynamic(selection.steps[k].table.cells[i])
    <3> DEFINE c == selection.steps[k].table.cells[i]
    <3>1. Dynamic(c) \in ToSet(name) \/ c \notin {name[j].value : j \in DOMAIN name}
      BY <2>4 DEF Extractable, Tables, name
    <3> HIDE DEF c
    <3>2. ASSUME Dynamic(c) \in ToSet(name) PROVE Value(Dynamic(c)) = Dynamic(c)
      <4>1. PICK j \in 1..n : name[j] = Dynamic(c)
        BY <1>2, <3>2 DEF ToSet
      <4>2. Dynamic(c).value = c
        BY DEF Dynamic
      <4>3. name[j].value = c
        BY <4>1, <4>2
      <4>4. Value(Dynamic(name[j].value)) = Usage[j]
        BY <1>1, ValueOfNamed
      <4>5. Usage[j] = name[j]
        BY <2>2
      <4>6. Value(Dynamic(c)) = name[j]
        BY <4>3, <4>4, <4>5
      <4> QED BY <4>1, <4>6
    <3>3. ASSUME c \notin {name[j].value : j \in DOMAIN name} PROVE Value(Dynamic(c)) = Dynamic(c)
      <4>1. ASSUME Dynamic(c) \notin ToSet(Heading) PROVE Value(Dynamic(c)) = Dynamic(c)
        BY <4>1 DEF Value
      <4>2. ASSUME Dynamic(c) \in ToSet(Heading) PROVE Value(Dynamic(c)) = Dynamic(c)
        <5> DEFINE P == {j \in DOMAIN Heading : Heading[j] = Dynamic(c)}
                   m == Min(P)
        <5>1. P # {} /\ P \in SUBSET Nat
          BY <1>2, <1>5, <4>2 DEF ToSet
        <5>2. Value(Dynamic(c)) = Usage[m]
          BY <4>2 DEF Value
        <5>3. m \in P
          <6> HIDE DEF P
          <6> QED BY <5>1, FirstPosition
        <5>4. m \in 1..(n + Len(da)) /\ Heading[m] = Dynamic(c)
          BY <1>5, <5>3
        <5> HIDE DEF m, P
        <5>5. ~(m <= n)
          <6> SUFFICES ASSUME m <= n PROVE FALSE
            OBVIOUS
          <6>1. m \in 1..n
            BY <1>2, <1>5, <5>4
          <6>2. Dynamic(name[m].value) = Dynamic(c)
            BY <1>5, <5>4, <6>1
          <6>3. name[m].value = c
            <7>1. Dynamic(name[m].value).value = name[m].value /\ Dynamic(c).value = c
              BY DEF Dynamic
            <7> QED BY <6>2, <7>1
          <6> QED BY <1>2, <3>3, <6>1, <6>3
        <5>6. m - n \in 1..Len(da) /\ n + (m - n) = m
          BY <1>2, <1>5, <5>4, <5>5
        <5>7. Heading[m] = Dynamic(da[m - n]) /\ Usage[m] = Dynamic(da[m - n])
          BY <1>5, <2>2, <5>6
        <5> QED BY <5>2, <5>4, <5>7
      <4> QED BY <4>1, <4>2
    <3> QED BY <3>1, <3>2, <3>3 DEF c
  <2>5. ASSUME NEW k \in DOMAIN selection.steps, selection.steps[k].table.kind # "none"
        PROVE  Value(Last(extractor.steps[k])) = TableArg(selection.steps[k].table)
    <3>1. selection.steps[k].table.kind = "inline"
      BY <1>2, <1>8, <2>5 DEF Tables, Table
    <3> QED BY <1>7, <3>1
  <2>6. \A k \in DOMAIN selection.steps : \A i \in DOMAIN selection.steps[k].args :
          Value(extractor.steps[k][i]) = selection.steps[k].args[i]
    BY <1>6, <2>2
  <2> QED BY <2>3, <2>4, <2>5, <2>6
<1>9. CASE Tables("param") # {}
  <2>1. /\ da = <<>> /\ extractor.conceptName = [name EXCEPT ![n] = Gap]
        /\ \E k \in Tables("param") : extractor.table = selection.steps[k].table
    BY <1>1, <1>4, <1>9 DEF NameSoFar
  <2>2. PICK k0 \in Tables("param") : extractor.table = selection.steps[k0].table
    BY <2>1
  <2>3. extractor.table # NoTable
    <3>1. extractor.table.kind = "param"
      BY <2>2 DEF Tables
    <3>2. NoTable.kind = "none"
      BY DEF NoTable
    <3> QED BY <3>1, <3>2
  <2> DEFINE params == {Dynamic(selection.steps[k].table.name) : k \in Tables("param")}
  <2>4. /\ name # <<>> /\ params = {Last(name)}
        /\ \A k \in DOMAIN selection.steps : Last(name) \notin ToSet(selection.steps[k].args)
        /\ \A k \in Tables("inline") : selection.steps[k].table.cells = <<>>
    <3>1. params # {}
      BY <1>9
    <3> QED BY <3>1 DEF Extractable, name
  <2>5. /\ n \in Nat \ {0} /\ Len(Usage) = n /\ Gap \notin ToSet(Usage)
        /\ \A j \in 1..(n - 1) : Usage[j] = name[j]
        /\ Usage[n] = TableArg(extractor.table)
    BY <1>1, <2>1, <2>3, <2>4, UsageWithParam
  <2>6. IsUse
    <3>1. Len(<<>>) = 0
      OBVIOUS
    <3> QED BY <1>2, <1>5, <2>1, <2>5, <3>1 DEF IsUse
  <2>7. ASSUME NEW k \in DOMAIN selection.steps, NEW i \in DOMAIN selection.steps[k].args
        PROVE  Value(extractor.steps[k][i]) = selection.steps[k].args[i]
    <3>1. selection.steps[k].args[i] \in ToSet(selection.steps[k].args)
      BY DEF ToSet
    <3>2. \A j \in 1..n : name[j] = selection.steps[k].args[i] => j \in 1..(n - 1)
      BY <1>2, <2>4, <3>1 DEF Last
    <3> QED BY <1>6, <2>5, <3>2
  <2>8. ASSUME NEW k \in DOMAIN selection.steps, selection.steps[k].table.kind = "param"
        PROVE  Value(Last(extractor.steps[k])) = TableArg(selection.steps[k].table)
    <3>1. k \in Tables("param")
      BY <2>8 DEF Tables
    <3>2. Dynamic(selection.steps[k].table.name) = name[n] /\ Dynamic(selection.steps[k0].table.name) = name[n]
      BY <2>2, <2>4, <3>1 DEF Last
    <3>3. \A v : Dynamic(v).value = v
      BY DEF Dynamic
    <3>4. selection.steps[k].table.name = name[n].value /\ selection.steps[k0].table.name = name[n].value
      BY <3>2, <3>3
    <3>5. Last(extractor.steps[k]) = Dynamic(name[n].value)
      BY <1>1, <1>3, <2>8, <3>4, MadeArgs
    <3>6. Value(Dynamic(name[n].value)) = Usage[n]
      <4>1. n \in 1..n
        BY <2>5
      <4> QED BY <1>1, <4>1, ValueOfNamed
    <3>7. TableArg(extractor.table) = TableArg(selection.steps[k].table)
      BY <2>2, <3>4 DEF TableArg
    <3> QED BY <2>5, <3>5, <3>6, <3>7
  <2>9. ASSUME NEW k \in DOMAIN selection.steps, selection.steps[k].table.kind # "none"
        PROVE  Value(Last(extractor.steps[k])) = TableArg(selection.steps[k].table)
    <3>1. selection.steps[k].table.kind \in {"inline", "param"}
      BY <1>2, <2>9 DEF Table
    <3> QED BY <1>7, <2>8, <3>1
  <2>10. \A k \in DOMAIN selection.steps : selection.steps[k].table.kind = "inline" => DOMAIN selection.steps[k].table.cells = {}
    <3>1. DOMAIN <<>> = {}
      OBVIOUS
    <3> QED BY <2>4, <3>1 DEF Tables
  <2> QED BY <2>6, <2>7, <2>9, <2>10
<1> QED BY <1>8, <1>9

\* The use of the concept that is put in the place of any selected steps is one, and means
\* what they meant, tables and the arguments in them included.
THEOREM ExtractionSound == ExtractionSpec => []ExtractionKeepsMeaning
<1>1. ExtractInv => ExtractionKeepsMeaning
  BY MeaningKept DEF ExtractionKeepsMeaning
<1>2. ExtractInv /\ [ExtractionNext]_extractionVars => ExtractInv'
  BY ExtractStepInv, OtherExtractionInv DEF ExtractionNext
<1> QED BY <1>1, <1>2, ExtractInitInv, PTL DEF ExtractionSpec
=============================================================================
