------------------------------ MODULE Mistakes ------------------------------
(***************************************************************************)
(* What the suite is for: a kernel with a mistake does not get past the    *)
(* tests that are about it.                                                *)
(***************************************************************************)
EXTENDS SuiteProperties, TestSuite

(* The kernels with one mistake, and the tests whose purpose is to notice.  *)

BlindSpots == {"drops_setsigmask", "other_image_crashes"}
Quirky     == Deviations \ BlindSpots

AllTestNames == DOMAIN AllTests

MappingOps == IntOps \cup {"store_bytes", "assert_word", "munmap"}

Uses(ops) ==
  {name \in AllTestNames : \E f \in Fn : \E i \in DOMAIN AllTests[name][f] :
                             AllTests[name][f][i].op \in ops}

TestsOfExecve  == Uses({"execve"})
TestsOfMapping == Uses(MappingOps)
TestsOfClone   == Uses({"clone"})

DetectedBy(bits) == [
  drops_ignored       |-> {"traceme_sigign", "traceme_sigign_explicit"},
  reports_masked      |-> {"traceme_masked", "execve_inject_mask"},
  keeps_siginfo       |-> {"cont_different"},
  drops_setsiginfo    |-> {"setsiginfo", "cont_different_setsiginfo"},
  skips_group_stop    |-> {"group_stop"},
  exec_keeps_handlers |-> {"execve_inject", "execve_inject_ign"},
  no_exec_trap        |-> {"execve", "execve_thread", "execve_inject", "execve_inject_ign",
                           "execve_inject_mask"},
  peeks_running       |-> {"esrch_not_stopped"},
  child_not_stopped   |-> {"tracefork", "traceclone", "clone_fork_flags", "fork_syscall"},
  fork_as_clone       |-> {"tracefork", "clone_fork_flags", "fork_syscall"},
  seize_stops         |-> {"seize"},
  accepts_bad_signal  |-> {"bad_cont"},
  never_suppresses    |-> {"traceme", "attach_stop_cont_stop", "int3", "execve"},
  handler_unmasked    |-> {"setsigmask"},
  step_runs_on        |-> {"single_step", "single_step_inject"},
  drops_poke          |-> {"pokedata"},
  drops_pokeuser      |-> {"change_syscall_arg", "hw_breakpoint"},
  faults_across_pages |-> {"peekdata_cross_page"},
  exec_unmasks        |-> {"execve_inject_mask"},
  loses_second_stop   |-> {"attach_stop_cont_stop"},
  attach_any_uid      |-> {"attach_different_uid"},
  no_sigchld          |-> {"tracefork", "clone_fork_flags", "fork_syscall"},
  no_sysgood          |-> {"syscall_exit", "change_syscall_arg", "fork_syscall"},
  loses_value         |-> {"cont_same", "cont_different_setsiginfo", "setsiginfo"},
  stop_wins           |-> {"group_stop_inject"},
  exec_keeps_bits     |-> {IF bits = 64 THEN "execve_32bit" ELSE "execve_64bit"},
  aligns_peeks        |-> {"peekdata_unaligned", "peekdata_cross_page"},
  reads_unmapped      |-> {"peekdata_fault"},
  no_exit_stop        |-> {"syscall", "syscall_exit", "fork_syscall"},
  peeks_untraced      |-> {"esrch_not_traced"},
  needs_report        |-> {"stop_not_observed"},
  group_has_siginfo   |-> {"group_stop"},
  ignores_interrupt   |-> {"seize"},
  survives_default    |-> {"cont_different_term", "sigsegv_continue", "execve_inject"},
  syscall_info_always |-> {"bad_get_syscall_info"},
  traps_on_int3       |-> {"int3"},
  execve_fails        |-> TestsOfExecve,
  exec_closes_files   |-> {"execve_thread"},
  mmap_fails          |-> TestsOfMapping,
  no_memfd            |-> AllTestNames,
  clone_fails         |-> TestsOfClone]

(* A kernel with a mistake does not get past the tests that are about it,   *)
(* whatever the schedule.                                                  *)
Detected == kernel \in Quirky /\ test \in DetectedBy(build)[kernel] => verdict # "passed"
=============================================================================
