------------------------------ MODULE MCRunner ------------------------------
(***************************************************************************)
(* run.sh over the whole suite: all tests in both builds, the two programs *)
(* of execve-32bit and execve-64bit, and a file that is no executable.     *)
(***************************************************************************)
EXTENDS Runner, Denials

MainProgram == Test(OtherMain, <<>>)

WholeSuite ==
  [name \in DOMAIN AllTests \cup {"32_bit_main", "64_bit_main", "template"} |->
     CASE name = "template"        -> Test(TemplateTracer, TemplateTracee)
       [] name \in DOMAIN AllTests -> AllTests[name]
       [] OTHER                    -> MainProgram]
AllNames == DOMAIN WholeSuite
MainPrograms == {"32_bit_main", "64_bit_main"}

(* What AccountableSuiteRun asks of the tests. *)
ASSUME EveryTestAccountable == \A name \in AllNames : Accountable(WholeSuite[name])

Executable(name, bits) == [test |-> name, build |-> bits, runnable |-> TRUE]
BothBuilds(names) ==
  [i \in 1 .. (2 * Len(names)) |->
     Executable(names[(i + 1) \div 2], IF i % 2 = 1 THEN 32 ELSE 64)]
NotExecutable == [Executable("template", 64) EXCEPT !.runnable = FALSE]

(* The order of the glob is that of the names: execve-32.out comes before   *)
(* execve-32bit-32.out, and that before execve-64.out.                     *)
Before ==
  BothBuilds(<<"attach_stop_cont_stop", "bad_cont", "bad_get_syscall_info",
    "change_syscall_arg", "clone_fork_flags", "cont_different",
    "cont_different_setsiginfo", "cont_different_term", "cont_same",
    "esrch_not_stopped", "esrch_not_traced">>)
  \o <<Executable("execve", 32)>> \o BothBuilds(<<"execve_32bit">>)
  \o <<Executable("execve", 64)>>
  \o BothBuilds(<<"execve_64bit", "execve_inject", "execve_inject_ign",
    "execve_inject_mask", "execve_thread", "fork_syscall", "group_stop",
    "group_stop_inject", "hw_breakpoint", "int3", "peekdata", "peekdata_cross_page",
    "peekdata_fault", "peekdata_unaligned", "pokedata", "seize", "setsiginfo",
    "setsigmask", "signal_handler_regs", "sigsegv_continue", "single_step",
    "single_step_inject">>)
After ==
  BothBuilds(<<"syscall", "syscall_exit", "traceclone", "tracefork", "traceme",
    "traceme_masked", "traceme_sigign", "traceme_sigign_explicit">>)

(* attach-different-uid does one thing as root and another without. *)
Listing(attach, delicate) ==
  [exists |-> TRUE,
   entries |-> <<Executable("32_bit_main", 32), Executable("64_bit_main", 64)>>
               \o BothBuilds(<<attach>>) \o Before \o <<NotExecutable>>
               \o BothBuilds(delicate) \o After]

NoDirectory    == [exists |-> FALSE, entries |-> <<>>]
EmptyDirectory == [exists |-> TRUE, entries |-> <<NotExecutable>>]   \* "build/*" itself

(* stop-not-observed is left out where every test has to pass: its usleep   *)
(* may be too short.  In its place a test made of the bare template.       *)
Delicate    == <<"stop_not_observed">>
AsRoot      == "attach_different_uid"
WithoutRoot == "attach_different_uid_skipped"

Tame ==
  {Listing(AsRoot, <<"template">>), Listing(WithoutRoot, <<"template">>), EmptyDirectory}
Full == {Listing(AsRoot, Delicate), Listing(WithoutRoot, Delicate), NoDirectory}
EveryDirectory == Tame \cup Full

AllBuilds  == {32, 64}
Passing    == {"linux"} \cup BlindSpots
EveryKernel == {"linux"} \cup Deviations

(* On a kernel like Linux run.sh gets to its last line, and on those the    *)
(* suite is blind to.                                                      *)
SuitePasses ==
  kernel \in Passing /\ dir \in Tame => <>(shell = "All tests passed")

(* SuiteNotices says of both listings of the whole suite that no kernel     *)
(* with a mistake gets to their end: each has a test that is about it.  The *)
(* kernel that lets anybody attach to anybody needs root to be found out.  *)
ASSUME EveryMistakeCovered ==
  LET about == [bits \in AllBuilds |-> DetectedBy(bits)]
      runs(d, name, bits) == Executable(name, bits) \in {d.entries[i] : i \in DOMAIN d.entries}
  IN  \A d \in Full, m \in Quirky :
        \/ ~d.exists
        \/ \E bits \in AllBuilds : \E name \in about[bits][m] : runs(d, name, bits)
        \/ m = "attach_any_uid" /\ d = Listing(WithoutRoot, Delicate)

(* What the theorems on hopeless tests say of the suite: the mistakes of    *)
(* which all tests are hopeless that are about them, and those with a       *)
(* hopeless test.  Whatever is hopeless was meant to be, and nothing is on  *)
(* a kernel that the suite is to pass on.                                  *)
FoundByAll ==
  {"skips_group_stop", "no_exec_trap", "fork_as_clone", "accepts_bad_signal", "step_runs_on",
   "drops_pokeuser", "faults_across_pages", "attach_any_uid", "no_sigchld", "no_sysgood",
   "exec_keeps_bits", "reads_unmapped", "group_has_siginfo", "ignores_interrupt",
   "survives_default", "syscall_info_always", "execve_fails"}
FoundBySome ==
  FoundByAll \cup {"child_not_stopped", "no_exit_stop", "mmap_fails", "no_memfd", "clone_fails"}
Chanceless(d) ==
  {e \in AllTestNames \X AllBuilds : Hopeless(AllTests[e[1]], d, e[2])}

ASSUME PlainFromTheText ==
  /\ PlainMistakes = FoundByAll
  /\ \A d \in Quirky :
       LET chanceless == Chanceless(d) IN
         /\ chanceless # {} <=> d \in FoundBySome
         /\ \A e \in chanceless : e[1] \in DetectedBy(e[2])[d]
  /\ \A d \in Passing : Chanceless(d) = {}
=============================================================================
