---------------------------- MODULE BuildProofs -----------------------------
(***************************************************************************)
(* The Makefile, for any tests in src/: what make has made so far it has    *)
(* made from the files as they are, and it fails for a reason only.        *)
(***************************************************************************)
EXTENDS Build, SequenceTheorems, TLAPS

(* The invariant has four parts: make has created the directory before it   *)
(* comes to a program, what lies behind it is up to date, a make that is    *)
(* over has left what it promised, and after a make clean only the programs *)
(* of the present tests have appeared.                                      *)
FolderFirst == (built # {} \/ goal > 1) => dir

SoFar == \A i \in Goals : i < goal /\ All[i] # Folder => All[i] \in built \ touched

MadeIsUpToDate == said = "made" => Wanted \subseteq built \ touched

OnlyFresh == pristine => built \subseteq Wanted /\ touched = {} /\ outdated = {}

BuildInv ==
  /\ BuildTypeOK
  /\ FolderFirst /\ SoFar
  /\ MadeIsUpToDate /\ FailsForAReason
  /\ OnlyFresh

-----------------------------------------------------------------------------
(* The goals. *)

LEMMA ProgramsOf ==
  ASSUME NEW names, NEW p
  PROVE  p \in Programs(names) <=> \E n \in names, b \in {32, 64} : p = Program(n, b)
  BY DEF Programs

LEMMA ProgramsAreTargets ==
  /\ Folder \notin Targets
  /\ \A n \in Tests, b \in {32, 64} : Program(n, b) \in Targets
  /\ \A m \in Mains : MainProgram(m) \in Targets
  /\ BuildTypeOK => Wanted \subseteq Targets
<1>1. \A n \in Tests, b \in {32, 64} : Program(n, b) \in Targets
  BY DEF Targets, Programs
<1>2. \A m \in Mains : MainProgram(m) \in Targets
  BY DEF Targets
<1>3. \A n, b : b # 0 => Program(n, b) # Folder
  BY DEF Program, Folder
<1>4. \A m : MainProgram(m) # Folder
  BY <1>3 DEF MainProgram
<1>5. Folder \notin Targets
  BY <1>3, <1>4 DEF Targets, Programs
<1>6. BuildTypeOK => Wanted \subseteq Targets
  <2>1. BuildTypeOK => Programs(present) \subseteq Programs(Tests)
    BY ProgramsOf DEF BuildTypeOK
  <2>. QED  BY <2>1 DEF Wanted, Targets
<1>. QED
  BY <1>1, <1>2, <1>5, <1>6

LEMMA OutTypes ==
  ASSUME NEW b \in {32, 64}
  PROVE  /\ OUT(b) \in Seq(Targets) /\ Len(OUT(b)) = Len(Sources)
         /\ \A i \in 1 .. Len(Sources) : OUT(b)[i] = Program(Sources[i], b)
<1>1. DOMAIN Sources = 1 .. Len(Sources) /\ Len(Sources) \in Nat
  BY BuildAssumption
<1>2. \A i \in DOMAIN Sources : Sources[i] \in Tests
  BY DEF Tests
<1>3. OUT(b) \in [1 .. Len(Sources) -> Targets]
  BY <1>1, <1>2, ProgramsAreTargets DEF OUT
<1>4. OUT(b) \in Seq(Targets) /\ Len(OUT(b)) = Len(Sources)
  BY <1>1, <1>3
<1>. QED
  BY <1>1, <1>4 DEF OUT

(* The directory comes first, then the programs of the tests, in 64 and in  *)
(* 32 bits, then the main programs.                                        *)
LEMMA AllInOrder ==
  LET n == Len(Sources) IN
  /\ n \in Nat /\ DOMAIN All = 1 .. 2 * n + 3 /\ Len(All) = 2 * n + 3
  /\ All[1] = Folder
  /\ \A i \in 1 .. n : /\ All[1 + i] = Program(Sources[i], 64)
                       /\ All[1 + n + i] = Program(Sources[i], 32)
  /\ All[2 * n + 2] = MainProgram("32-bit-main")
  /\ All[2 * n + 3] = MainProgram("64-bit-main")
<1>. DEFINE n == Len(Sources)
            F == <<Folder>>
            G == F \o OUT(64)
            H == G \o OUT(32)
            S == Targets \cup {Folder}
<1>1. n \in Nat
  BY BuildAssumption
<1>2. /\ OUT(64) \in Seq(S) /\ OUT(32) \in Seq(S)
      /\ Len(OUT(64)) = n /\ Len(OUT(32)) = n
  BY OutTypes
<1>3. F \in Seq(S) /\ Len(F) = 1 /\ F[1] = Folder
  OBVIOUS
<1>4. MAINS \in Seq(S) /\ Len(MAINS) = 2
      /\ MAINS[1] = MainProgram("32-bit-main") /\ MAINS[2] = MainProgram("64-bit-main")
  BY ProgramsAreTargets DEF MAINS, Mains
<1>5. G \in Seq(S) /\ Len(G) = n + 1 /\ G[1] = Folder
      /\ \A i \in 1 .. n : G[1 + i] = OUT(64)[i]
  BY <1>1, <1>2, <1>3
<1>. HIDE DEF n, F, G, S
<1>6. H \in Seq(S) /\ Len(H) = 2 * n + 1
      /\ (\A i \in 1 .. n + 1 : H[i] = G[i]) /\ \A i \in 1 .. n : H[1 + n + i] = OUT(32)[i]
  <2>1. H \in Seq(S) /\ Len(H) = Len(G) + Len(OUT(32))
        /\ \A i \in 1 .. Len(G) + Len(OUT(32)) : H[i] = IF i <= Len(G) THEN G[i] ELSE OUT(32)[i - Len(G)]
    BY <1>2, <1>5, ConcatProperties, Zenon
  <2>. HIDE DEF H
  <2>2. Len(H) = 2 * n + 1 /\ \A i \in 1 .. n + 1 : H[i] = G[i]
    BY <2>1, <1>1, <1>2, <1>5
  <2>3. \A i \in 1 .. n : H[1 + n + i] = OUT(32)[i]
    BY <2>1, <1>1, <1>2, <1>5
  <2>. QED  BY <2>1, <2>2, <2>3
<1>7. All \in Seq(S) /\ Len(All) = 2 * n + 3
      /\ (\A i \in 1 .. 2 * n + 1 : All[i] = H[i])
      /\ All[2 * n + 2] = MAINS[1] /\ All[2 * n + 3] = MAINS[2]
  <2>1. All = H \o MAINS
    BY DEF All, F, G
  <2>. HIDE DEF H
  <2>. DEFINE A == H \o MAINS
  <2>2. A \in Seq(S) /\ Len(A) = Len(H) + Len(MAINS)
        /\ \A i \in 1 .. Len(H) + Len(MAINS) : A[i] = IF i <= Len(H) THEN H[i] ELSE MAINS[i - Len(H)]
    BY <1>4, <1>6, ConcatProperties, Zenon
  <2>3. All = A
    BY <2>1
  <2>. HIDE DEF A
  <2>4. Len(A) = 2 * n + 3
    BY <2>2, <1>1, <1>4, <1>6
  <2>5. \A i \in 1 .. 2 * n + 1 : A[i] = H[i]
    BY <2>2, <1>1, <1>4, <1>6
  <2>6. A[2 * n + 2] = MAINS[1] /\ A[2 * n + 3] = MAINS[2]
    BY <2>2, <1>1, <1>4, <1>6
  <2>. QED  BY <2>2, <2>3, <2>4, <2>5, <2>6
<1>8. \A i \in 1 .. n : All[1 + i] = OUT(64)[i] /\ All[1 + n + i] = OUT(32)[i]
  <2>. HIDE DEF H
  <2>1. \A i \in 1 .. n : /\ 1 + i \in 1 .. n + 1 /\ 1 + i \in 1 .. 2 * n + 1
                         /\ 1 + n + i \in 1 .. 2 * n + 1
    BY <1>1
  <2>. QED  BY <2>1, <1>5, <1>6, <1>7
<1>9. All[1] = Folder
  <2>. HIDE DEF H
  <2>. QED  BY <1>1, <1>5, <1>6, <1>7
<1>10. DOMAIN All = 1 .. 2 * n + 3
  BY <1>7
<1>. HIDE DEF H
<1>. USE DEF n
<1>. QED
  BY <1>1, <1>4, <1>7, <1>8, <1>9, <1>10, OutTypes

(* What is wanted is a goal, and the only goal that is no program is first. *)
LEMMA WantedIsGoal ==
  ASSUME BuildTypeOK, NEW p \in Wanted
  PROVE  \E i \in Goals : All[i] = p /\ p # Folder
<1>. DEFINE n == Len(Sources)
<1>0. p # Folder
  BY ProgramsAreTargets
<1>1. SUFFICES \E i \in DOMAIN All : All[i] = p
  BY <1>0 DEF Goals
<1>2. CASE \E m \in Mains : p = MainProgram(m)
  <2>1. 2 * n + 2 \in DOMAIN All /\ 2 * n + 3 \in DOMAIN All
    BY AllInOrder
  <2>. QED  BY <1>2, <2>1, AllInOrder DEF Mains
<1>3. CASE p \in Programs(present)
  <2>1. PICK t \in Tests, b \in {32, 64} : p = Program(t, b)
    BY <1>3, ProgramsOf DEF BuildTypeOK
  <2>2. PICK j \in 1 .. n : t = Sources[j]
    BY BuildAssumption DEF Tests
  <2>3. 1 + j \in DOMAIN All /\ 1 + n + j \in DOMAIN All
    BY <2>2, AllInOrder
  <2>4. All[1 + j] = Program(t, 64) /\ All[1 + n + j] = Program(t, 32)
    BY <2>2, AllInOrder
  <2>. QED  BY <2>1, <2>3, <2>4
<1>. QED
  BY <1>2, <1>3 DEF Wanted
-----------------------------------------------------------------------------
(* The invariant. *)

LEMMA BuildInitInv == BuildInit => BuildInv
<1>. SUFFICES ASSUME BuildInit
              PROVE  BuildInv
  OBVIOUS
<1>1. 0 \in Places
  BY AllInOrder DEF Places
<1>2. BuildTypeOK
  BY <1>1 DEF BuildInit, BuildTypeOK
<1>3. SoFar
  BY AllInOrder DEF BuildInit, SoFar, Goals
<1>. QED
  BY <1>2, <1>3
     DEF BuildInit, BuildInv, FolderFirst, MadeIsUpToDate, FailsForAReason, OnlyFresh

(* Somebody edits, deletes or restores a file; run.sh runs what there is. *)
LEMMA IdleKeeps ==
  ASSUME BuildInv, \/ \E f \in Edited : Edit(f)
                   \/ \E t \in Edited \cap Tests : AddOrRemove(t)
                   \/ Make \/ RunSh \/ Clean \/ UNCHANGED build
  PROVE  BuildInv'
<1>. USE DEF BuildInv
<1>0. 1 \in Places /\ 0 \in Places
  BY AllInOrder DEF Places
<1>1. CASE \E f \in Edited : Edit(f)
  <2>. PICK f \in Edited : Edit(f)
    BY <1>1
  <2>1. f \in Files
    BY BuildAssumption
  <2>2. BuildTypeOK'
    BY <2>1 DEF BuildTypeOK, Edit
  <2>3. (FolderFirst /\ SoFar)'
    BY AllInOrder DEF FolderFirst, SoFar, Edit, Idle, Goals
  <2>. QED  BY <2>2, <2>3 DEF Edit, MadeIsUpToDate, FailsForAReason, OnlyFresh
<1>2. CASE \E t \in Edited \cap Tests : AddOrRemove(t)
  <2>. PICK t \in Edited \cap Tests : AddOrRemove(t)
    BY <1>2
  <2>2. BuildTypeOK'
    BY DEF BuildTypeOK, AddOrRemove
  <2>3. (FolderFirst /\ SoFar)'
    BY AllInOrder DEF FolderFirst, SoFar, AddOrRemove, Idle, Goals
  <2>. QED  BY <2>2, <2>3 DEF AddOrRemove, MadeIsUpToDate, FailsForAReason, OnlyFresh
<1>3. CASE Make
  <2>1. BuildTypeOK' /\ FolderFirst'
    BY <1>3, <1>0 DEF Make, BuildTypeOK, FolderFirst, sources, disk
  <2>2. SoFar'
    BY <1>3, AllInOrder DEF Make, SoFar, Goals
  <2>. QED
    BY <1>3, <2>1, <2>2
       DEF Make, MadeIsUpToDate, FailsForAReason, OnlyFresh, Wanted, sources, disk
<1>4. CASE RunSh
  <2>1. BuildTypeOK' /\ FolderFirst' /\ SoFar'
    BY <1>4 DEF RunSh, BuildTypeOK, FolderFirst, SoFar, Goals, Wanted, sources, disk
  <2>2. MadeIsUpToDate' /\ OnlyFresh' /\ FailsForAReason'
    BY <1>4 DEF RunSh, MadeIsUpToDate, OnlyFresh, FailsForAReason, Wanted, Compiles, sources, disk
  <2>. QED  BY <2>1, <2>2
<1>5. CASE Clean
  <2>1. BuildTypeOK' /\ FolderFirst'
    BY <1>5 DEF Clean, BuildTypeOK, FolderFirst, Idle, sources
  <2>2. SoFar'
    BY <1>5, AllInOrder DEF Clean, Idle, SoFar, Goals
  <2>3. Wanted' = Wanted /\ said' \in {"cleaned", "clean_failed"}
    BY <1>5 DEF Clean, Wanted, sources
  <2>4. OnlyFresh'
    BY <1>5, <2>3 DEF Clean, OnlyFresh, BuildTypeOK
  <2>. QED
    BY <2>1, <2>2, <2>3, <2>4 DEF MadeIsUpToDate, FailsForAReason
<1>6. CASE UNCHANGED build
  BY <1>6 DEF build, sources, disk, BuildTypeOK, FolderFirst, SoFar, Goals, Wanted, MadeIsUpToDate,
              FailsForAReason, Compiles, OnlyFresh
<1>. QED
  BY <1>1, <1>2, <1>3, <1>4, <1>5, <1>6

(* The goal make is at is reached when all before it have been. *)
LEMMA GoalReached ==
  ASSUME BuildInv, NEW i \in DOMAIN All, AtGoal(i)
  PROVE  /\ i \in 1 .. Len(All) /\ Len(All) \in Nat
         /\ All[i] \in {Folder} \cup Wanted
         /\ \A j \in Goals : j < i /\ All[j] # Folder => All[j] \in built \ touched
         /\ All[i] # Folder => dir
<1>. USE DEF BuildInv
<1>1. i \in 1 .. Len(All) /\ Len(All) \in Nat /\ goal \in Nat
  BY AllInOrder DEF BuildTypeOK, Places
<1>2. \A j \in Goals : j \in Nat
  BY AllInOrder DEF Goals
<1>3. \A j \in Goals : j < i => j < goal
  BY <1>1, <1>2 DEF AtGoal
<1>4. 1 \in Goals
  BY AllInOrder DEF Goals
<1>5. All[i] # Folder => goal > 1
  BY <1>1, <1>2, <1>3, <1>4, AllInOrder DEF AtGoal
<1>. QED
  BY <1>1, <1>3, <1>5 DEF AtGoal, Goals, SoFar, FolderFirst

LEMMA MakeKeeps ==
  ASSUME BuildInv, NEW i \in DOMAIN All, MakeStep(i) \/ Interrupted(i)
  PROVE  BuildInv'
<1>. USE DEF BuildInv
<1>1. /\ AtGoal(i) /\ UNCHANGED <<sources, report, pristine>> /\ goal # 0
      /\ Wanted' = Wanted /\ Goals' = Goals
  BY DEF MakeStep, Interrupted, MakeFolder, UpToDate, Compile, CompileFails, AtGoal, Wanted, Goals,
         sources
<1>2. /\ i \in 1 .. Len(All) /\ Len(All) \in Nat
      /\ All[i] \in {Folder} \cup Wanted
      /\ \A j \in Goals : j < i /\ All[j] # Folder => All[j] \in built \ touched
      /\ All[i] # Folder => dir
  BY <1>1, GoalReached
<1>3. Folder \notin Targets /\ Wanted \subseteq Targets
  BY ProgramsAreTargets
<1>4. \A j \in Goals : j \in Nat /\ (j < i + 1 => j < i \/ j = i)
  BY <1>2, AllInOrder DEF Goals
<1>5. i + 1 \in Places /\ 0 \in Places
  BY <1>2 DEF Places
<1>6. CASE MakeFolder(i)
  <2>1. BuildTypeOK' /\ FolderFirst'
    BY <1>6, <1>5 DEF MakeFolder, BuildTypeOK, FolderFirst, sources
  <2>2. SoFar'
    BY <1>6, <1>1, <1>2, <1>4 DEF MakeFolder, SoFar
  <2>. QED
    BY <1>1, <1>6, <2>1, <2>2
       DEF MakeFolder, MadeIsUpToDate, FailsForAReason, OnlyFresh, Compiles, sources
<1>7. CASE UpToDate(i)
  <2>1. All[i] # Folder /\ dir
    BY <1>7, <1>3, <1>2 DEF UpToDate, BuildTypeOK
  <2>2. BuildTypeOK' /\ FolderFirst'
    BY <1>7, <2>1, <1>5 DEF UpToDate, BuildTypeOK, FolderFirst, sources, disk
  <2>3. SoFar'
    BY <1>7, <1>1, <1>2, <1>4 DEF UpToDate, SoFar, disk
  <2>. QED
    BY <1>1, <1>7, <2>2, <2>3
       DEF UpToDate, MadeIsUpToDate, FailsForAReason, OnlyFresh, Compiles, sources, disk
<1>8. CASE Compile(i)
  <2>1. BuildTypeOK' /\ FolderFirst'
    BY <1>8, <1>5 DEF Compile, BuildTypeOK, FolderFirst, sources
  <2>2. SoFar'
    BY <1>8, <1>1, <1>2, <1>4 DEF Compile, SoFar, BuildTypeOK
  <2>3. MadeIsUpToDate'
    BY <1>8, <1>1 DEF Compile, MadeIsUpToDate
  <2>4. OnlyFresh'
    BY <1>8, <1>1, <1>2, <1>3 DEF Compile, OnlyFresh
  <2>. QED
    BY <1>1, <1>8, <2>1, <2>2, <2>3, <2>4 DEF Compile, FailsForAReason, Compiles, sources
<1>9. CASE CompileFails(i)
  <2>1. dir /\ All[i] \in Wanted /\ ~Compiles(All[i])
    BY <1>9, <1>2, <1>3 DEF CompileFails
  <2>2. BuildTypeOK' /\ FolderFirst'
    BY <1>9, <2>1, <1>5 DEF CompileFails, BuildTypeOK, FolderFirst, sources, disk
  <2>3. SoFar'
    BY <1>9, <1>1, <1>4 DEF CompileFails, SoFar
  <2>4. FailsForAReason'
    BY <1>1, <2>1 DEF FailsForAReason, Compiles, sources
  <2>. QED
    BY <1>1, <1>9, <2>2, <2>3, <2>4
       DEF CompileFails, MadeIsUpToDate, OnlyFresh, sources, disk
<1>10. CASE Interrupted(i)
  <2>1. BuildTypeOK' /\ FolderFirst'
    BY <1>10, <1>5 DEF Interrupted, BuildTypeOK, FolderFirst, sources
  <2>2. SoFar'
    BY <1>10, <1>1, <1>4 DEF Interrupted, SoFar
  <2>3. OnlyFresh'
    BY <1>10, <1>1 DEF Interrupted, OnlyFresh
  <2>. QED
    BY <1>10, <2>1, <2>2, <2>3 DEF Interrupted, MadeIsUpToDate, FailsForAReason
<1>. QED
  BY <1>6, <1>7, <1>8, <1>9, <1>10 DEF MakeStep

(* make has nothing left to do: it has come past everything it wants. *)
LEMMA MadeKeeps == BuildInv /\ Made => BuildInv'
<1>. SUFFICES ASSUME BuildInv, Made
              PROVE  BuildInv'
  OBVIOUS
<1>. USE DEF BuildInv
<1>1. \A p \in Wanted : p \in built \ touched
  <2>. SUFFICES ASSUME NEW p \in Wanted
                PROVE  p \in built \ touched
    OBVIOUS
  <2>1. PICK i \in Goals : All[i] = p /\ p # Folder
    BY WantedIsGoal
  <2>. QED  BY <2>1 DEF Made, SoFar
<1>2. BuildTypeOK' /\ FolderFirst' /\ SoFar'
  BY AllInOrder DEF Made, BuildTypeOK, Places, FolderFirst, SoFar, Goals, sources, disk
<1>. QED
  BY <1>1, <1>2 DEF Made, MadeIsUpToDate, FailsForAReason, OnlyFresh, Wanted, sources, disk

LEMMA BuildInvHolds == BuildSpec => []BuildInv
<1>1. BuildInv /\ [BuildNext]_build => BuildInv'
  <2>. SUFFICES ASSUME BuildInv, [BuildNext]_build
                PROVE  BuildInv'
    OBVIOUS
  <2>. QED  BY IdleKeeps, MakeKeeps, MadeKeeps DEF BuildNext
<1>. QED
  BY BuildInitInv, <1>1, PTL DEF BuildSpec

-----------------------------------------------------------------------------
(* The variables of the build keep their types: for any tests nothing is    *)
(* out of date that has not been built.                                    *)
THEOREM BuildTypeCorrect == BuildSpec => []BuildTypeOK
  BY BuildInvHolds, PTL DEF BuildInv

(* README.md, "make" and "./run.sh": whatever has been edited, deleted,     *)
(* interrupted and cleaned before, when both have succeeded every test of   *)
(* src/ has been run as it now is, in both builds.                         *)
THEOREM RecipeWorks == BuildSpec => []ReadmeRecipe
<1>1. BuildInv => ReadmeRecipe
  BY DEF BuildInv, MadeIsUpToDate, ReadmeRecipe
<1>. QED
  BY <1>1, BuildInvHolds, PTL

(* The Makefile has no order of its own to blame: when make fails, a file   *)
(* that it needs does not compile.                                         *)
THEOREM FailureHasReason == BuildSpec => []FailsForAReason
  BY BuildInvHolds, PTL DEF BuildInv

(* make after a make clean that succeeded, with no edit since: the build    *)
(* directory holds what the sources say, and nothing else.                 *)
THEOREM CleanThenMake == BuildSpec => []CleanBuild
<1>1. BuildInv => CleanBuild
  BY DEF BuildInv, MadeIsUpToDate, OnlyFresh, CleanBuild
<1>. QED
  BY <1>1, BuildInvHolds, PTL
=============================================================================
