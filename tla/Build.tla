------------------------------- MODULE Build -------------------------------
(***************************************************************************)
(* The Makefile: `make' compiles every src/*.cpp for 64 and for 32 bits and *)
(* the two main programs, one goal after the other, and stops at the first *)
(* that fails; `make clean' undoes it.  In between somebody edits, and     *)
(* run.sh runs what it finds.  A file's age is kept as what has changed    *)
(* since it was made; nobody edits while make is at work.                  *)
(***************************************************************************)
EXTENDS Integers, Sequences

CONSTANTS
  Sources,      \* every src/*.cpp there may be, in the order of the wildcard
  Executes,     \* [test -> the main programs the test executes]
  Edited        \* the files somebody edits, of which the tests come and go

Tests  == {Sources[i] : i \in DOMAIN Sources}
Mains  == {"32-bit-main", "64-bit-main"}
Header == "common.h"
Files  == Tests \cup Mains \cup {Header}

ASSUME BuildAssumption ==
  /\ Sources \in Seq(Tests)
  /\ Tests \cap (Mains \cup {Header}) = {}
  /\ Executes \in [Tests -> SUBSET Mains]
  /\ Edited \subseteq Files

VARIABLES
  present,      \* the tests whose .cpp is in src/
  broken,       \* the files that do not compile
  multilib,     \* can g++ build for -m32
  dir,          \* does the build directory exist
  built,        \* the programs in it
  touched,      \* those whose .cpp is newer
  outdated,     \* those made with another common.h than there is now
  goal,         \* where make has got to in All; 0: make is not running
  said,         \* how the last make, or make clean, ended
  pristine,     \* has make clean succeeded, and nothing been edited since
  report        \* what run.sh says of all this; "all_passed" is its last line

sources == <<present, broken, multilib>>
disk    == <<dir, built, touched, outdated>>
build   == <<sources, disk, goal, said, pristine, report>>

-----------------------------------------------------------------------------
(* What make has to make. *)

Program(name, bits) == [name |-> name, bits |-> bits]
Programs(names)     == {Program(n, b) : n \in names, b \in {32, 64}}
MainProgram(main)   == Program(main, IF main = "32-bit-main" THEN 32 ELSE 64)
Targets == Programs(Tests) \cup {MainProgram(m) : m \in Mains}
Folder  == [name |-> "build", bits |-> 0]

OUT(bits) == [i \in DOMAIN Sources |-> Program(Sources[i], bits)]
MAINS == <<MainProgram("32-bit-main"), MainProgram("64-bit-main")>>

(* Variant of All: the programs come before the directory they go to. *)
AllFolderLast == OUT(64) \o OUT(32) \o MAINS \o <<Folder>>

(* Variant of All: $(OUT32) is forgotten. *)
AllWithout32 == <<Folder>> \o OUT(64) \o MAINS

All == <<Folder>> \o OUT(64) \o OUT(32) \o MAINS
Wanted == Programs(present) \cup {MainProgram(m) : m \in Mains}

(* $(NAMES) holds the tests there are; make takes their goals as they come. *)
Places    == 0 .. (Len(All) + 1)
Goals     == {i \in DOMAIN All : All[i] \in {Folder} \cup Wanted}
AtGoal(i) == /\ goal # 0 /\ i \in Goals /\ goal <= i
             /\ \A j \in Goals : goal <= j => i <= j

(* A file does not compile, nor does a test with a broken common.h. *)
Compiles(p) ==
  /\ p.name \notin broken
  /\ p.name \in Tests => Header \notin broken
  /\ p.bits = 32 => multilib

-----------------------------------------------------------------------------
Idle == goal = 0

(* Variant of Edit: programs that were never made grow old as well. *)
EditTouchesAll(file) ==
  /\ Idle
  /\ broken' \in {broken \cup {file}, broken \ {file}}
  /\ touched'  = touched \cup {p \in Targets : p.name = file}
  /\ outdated' = IF file = Header THEN outdated \cup (built \cap Programs(Tests)) ELSE outdated
  /\ said' = "nothing" /\ report' = "nothing" /\ pristine' = FALSE
  /\ UNCHANGED <<present, multilib, dir, built, goal>>

(* A file changes, for the better or worse.  All tests include common.h. *)
Edit(file) ==
  /\ Idle
  /\ broken' \in {broken \cup {file}, broken \ {file}}
  /\ touched'  = touched \cup {p \in built : p.name = file}
  /\ outdated' = IF file = Header THEN outdated \cup (built \cap Programs(Tests)) ELSE outdated
  /\ said' = "nothing" /\ report' = "nothing" /\ pristine' = FALSE
  /\ UNCHANGED <<present, multilib, dir, built, goal>>

(* A test is deleted, or put back and thereby newer than its programs. *)
AddOrRemove(test) ==
  /\ Idle
  /\ present' = IF test \in present THEN present \ {test} ELSE present \cup {test}
  /\ touched' = touched \cup {p \in built : p.name = test}
  /\ said' = "nothing" /\ report' = "nothing" /\ pristine' = FALSE
  /\ UNCHANGED <<broken, multilib, dir, built, outdated, goal>>

Make ==
  /\ Idle /\ goal' = 1 /\ said' = "nothing" /\ report' = "nothing"
  /\ UNCHANGED <<sources, disk, pristine>>

MakeFolder(i) ==
  /\ AtGoal(i) /\ All[i] = Folder
  /\ dir' = TRUE /\ goal' = i + 1
  /\ UNCHANGED <<sources, built, touched, outdated, said, pristine, report>>

(* The only prerequisite is the .cpp. *)
UpToDate(i) ==
  /\ AtGoal(i) /\ All[i] \in built \ touched
  /\ goal' = i + 1
  /\ UNCHANGED <<sources, disk, said, pristine, report>>

Compile(i) ==
  /\ AtGoal(i) /\ All[i] \in Targets \ (built \ touched)
  /\ Compiles(All[i]) /\ dir
  /\ built' = built \cup {All[i]}
  /\ touched' = touched \ {All[i]} /\ outdated' = outdated \ {All[i]}
  /\ goal' = i + 1
  /\ UNCHANGED <<sources, dir, said, pristine, report>>

(* g++ fails, and leaves the program of an earlier make alone. *)
CompileFails(i) ==
  /\ AtGoal(i) /\ All[i] \in Targets \ (built \ touched)
  /\ ~(Compiles(All[i]) /\ dir)
  /\ goal' = 0 /\ said' = "failed"
  /\ UNCHANGED <<sources, disk, pristine, report>>

(* Ctrl-C: make deletes the program g++ has begun to write. *)
Interrupted(i) ==
  /\ AtGoal(i)
  /\ goal' = 0 /\ said' = "interrupted"
  /\ built' \in {built, built \ ({All[i]} \ (built \ touched))}
  /\ touched' = touched \cap built' /\ outdated' = outdated \cap built'
  /\ UNCHANGED <<sources, dir, pristine, report>>

Made ==
  /\ goal # 0 /\ \A i \in Goals : i < goal
  /\ goal' = 0 /\ said' = "made"
  /\ UNCHANGED <<sources, disk, pristine, report>>

(* Variant of Clean: a failing rmdir is ignored. *)
CleanRegardless ==
  /\ Idle
  /\ built' = built \ Wanted
  /\ touched' = touched \cap built' /\ outdated' = outdated \cap built'
  /\ dir' = (built' # {})
  /\ said' = "cleaned" /\ pristine' = TRUE /\ report' = "nothing"
  /\ UNCHANGED <<sources, goal>>

(* rmdir fails if there is no directory, or if it is not empty: the         *)
(* programs of a test that has been deleted are not among those removed.   *)
Clean ==
  /\ Idle
  /\ built' = built \ Wanted
  /\ touched' = touched \cap built' /\ outdated' = outdated \cap built'
  /\ dir' = (built' # {})
  /\ LET succeeds == dir /\ built' = {} IN
       /\ said' = IF succeeds THEN "cleaned" ELSE "clean_failed"
       /\ pristine' = (succeeds \/ pristine)
  /\ report' = "nothing"
  /\ UNCHANGED <<sources, goal>>

(* A test finds the main program it executes in the directory it is in. *)
FindsMains(p) == p.name \in Tests => \A m \in Executes[p.name] : MainProgram(m) \in built

(* run.sh on a kernel whose tests pass or fail as they like. *)
RunSh ==
  /\ Idle
  /\ \/ report' = "failed"
     \/ dir /\ (\A p \in built : FindsMains(p)) /\ report' = "all_passed"
  /\ UNCHANGED <<sources, disk, goal, said, pristine>>

-----------------------------------------------------------------------------
BuildInit ==
  /\ present = Tests /\ broken = {} /\ multilib \in BOOLEAN
  /\ dir = FALSE /\ built = {} /\ touched = {} /\ outdated = {}
  /\ goal = 0 /\ said = "nothing" /\ pristine = FALSE
  /\ report = "nothing"

MakeStep(i) == MakeFolder(i) \/ UpToDate(i) \/ Compile(i) \/ CompileFails(i)

BuildNext ==
  \/ \E file \in Edited : Edit(file)
  \/ \E test \in Edited \cap Tests : AddOrRemove(test)
  \/ Make \/ Made
  \/ \E i \in DOMAIN All : MakeStep(i) \/ Interrupted(i)
  \/ Clean \/ RunSh

BuildSpec == BuildInit /\ [][BuildNext]_build

-----------------------------------------------------------------------------
(* The types of all variables. *)
BuildTypeOK ==
  /\ present \subseteq Tests /\ broken \subseteq Files
  /\ multilib \in BOOLEAN /\ dir \in BOOLEAN /\ pristine \in BOOLEAN
  /\ built \subseteq Targets /\ touched \subseteq built /\ outdated \subseteq built
  /\ goal \in Places
  /\ said \in {"nothing", "made", "failed", "interrupted", "cleaned", "clean_failed"}
  /\ report \in {"nothing", "failed", "all_passed"}

(* README: "make" and then "./run.sh".  When both have succeeded every test *)
(* of src/ has been run, as its .cpp now is, in both builds.               *)
ReadmeRecipe ==
  said = "made" /\ report = "all_passed"
    => Wanted \subseteq built \ touched

(* make fails only for a reason that is in the files or the compiler. *)
FailsForAReason == said = "failed" => \E p \in Wanted : ~Compiles(p)

(* After `make clean' and `make' the build directory holds the programs of  *)
(* the tests there are, made from the files as they are, and nothing else. *)
CleanBuild ==
  pristine /\ said = "made" => built = Wanted /\ touched = {} /\ outdated = {}

-----------------------------------------------------------------------------
(* `make' brings every program up to date with the files it is made from. *)
HeaderCurrent == said = "made" => Wanted \cap outdated = {}

(* "All tests passed": every test of src/ has been run, in both builds. *)
AllTestsRan == report = "all_passed" => Programs(present) \subseteq built
=============================================================================
