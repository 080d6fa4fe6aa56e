------------------------------ MODULE Denials -------------------------------
(***************************************************************************)
(* Why a test fails on a kernel with a mistake, as far as the text of the  *)
(* test tells: its tracer gets to no exit without a statement that demands *)
(* something this kernel never delivers to this test, whatever the schedule *)
(* and the size of a page.                                                 *)
(*                                                                         *)
(* c is the program of a test, d the kernel, bits the binary.  ...Of names *)
(* what may come about at all when c runs on d: an upper bound.            *)
(***************************************************************************)
EXTENDS Mistakes

Text(c) == UNION {{c[f][i] : i \in DOMAIN c[f]} : f \in Fn}

Does(c, op) == \E s \in Text(c) : s.op = op

-----------------------------------------------------------------------------
(* What a task may come to know of. *)

Traceable(c) ==
  Does(c, "traceme") \/ Does(c, "seize") \/ \E s \in Text(c) : s.op = "attach" /\ "ok" \in s.exp

OptionsOf(c) == {o \in Options : \E s \in Text(c) : s.op = "setoptions" /\ o \in s.opts}

Asks(c, m) == \E s \in Text(c) : s.op = "resume" /\ "ok" \in s.exp /\ s.mode = m

Enters(c)    == Asks(c, "syscall")
Steps(c, d)  == Asks(c, "step") /\ d # "step_runs_on"
Leaves(c, d) == \/ Enters(c) /\ d # "no_exit_stop"
                \/ OptionsOf(c) \cap {"TRACEFORK", "TRACECLONE", "TRACEEXEC"} # {}

PokedOf(c, d, g) ==
  {s.n : s \in {s \in Text(c) : s.op = "pokeuser" /\ s.reg = g /\ d # "drops_pokeuser"}}

ValuesOf(c, d, bits, g) ==
  PokedOf(c, d, g) \cup
    CASE g = "arg" -> {OwnArg}
      [] g = "cs"  -> {0, bits} \cup (IF d \in {"exec_keeps_bits", "execve_fails"} THEN {}
                                      ELSE {s.n : s \in {s \in Text(c) : s.op = "execve"}})
      [] OTHER     -> {0}

Creates(c, d) == Does(c, "clone") /\ d # "clone_fails"

Replaces(c, d) == Does(c, "execve") /\ d # "execve_fails"

EventsOf(c, d) == {e \in Event :
  \/ e = "FORK"  /\ Creates(c, d) /\ "TRACEFORK" \in OptionsOf(c) /\ d # "fork_as_clone"
  \/ e = "CLONE" /\ Creates(c, d) /\ OptionsOf(c) \cap {"TRACEFORK", "TRACECLONE"} # {}
  \/ e = "EXEC"  /\ Replaces(c, d) /\ "TRACEEXEC" \in OptionsOf(c)
  \/ e = "STOP"  /\ Does(c, "interrupt") /\ d # "ignores_interrupt"}

SignalsOf(c, d, bits) == {g \in Signal :
  \/ \E s \in Text(c) : s.op \in {"raise", "tgkill"} /\ s.sig = g
  \/ \E s \in Text(c) : s.op = "resume" /\ "ok" \in s.exp /\ s.sig = g
  \/ \E s \in Text(c) : s.op = "setsiginfo" /\ s.info.signo = g
  \/ g = "SIGSEGV"
  \/ g = "SIGSTOP" /\ \/ Does(c, "attach")
                      \/ Does(c, "seize") /\ d = "seize_stops"
                      \/ Creates(c, d) /\ d # "child_not_stopped"
  \/ g = "SIGCHLD" /\ Creates(c, d) /\ d # "no_sigchld"
  \/ g = "SIGTRAP" /\ \/ Does(c, "int3")
                      \/ Does(c, "call") /\ 1 \in ValuesOf(c, d, bits, "dr0")
                      \/ Replaces(c, d) /\ d # "no_exec_trap"
                      \/ Steps(c, d)}

Groups(c, d, bits) == "SIGSTOP" \in SignalsOf(c, d, bits) /\ d # "skips_group_stop"

(* The statuses a waitpid of the tracer may report.  A syscall-stop has the *)
(* SIGTRAP of one without PTRACE_O_TRACESYSGOOD, or 0x80 with it.          *)
StopsOf(c, d, bits) ==
  {StoppedBy(g) : g \in SignalsOf(c, d, bits)} \cup {EventStop(e) : e \in EventsOf(c, d)}
    \cup (IF Groups(c, d, bits) THEN {StoppedBy("SIGSTOP")} ELSE {})
    \cup (IF Steps(c, d) \/ Enters(c) \/ Leaves(c, d) THEN {StoppedBy("SIGTRAP")} ELSE {})
    \cup (IF /\ Enters(c) \/ Leaves(c, d)
             /\ "TRACESYSGOOD" \in OptionsOf(c) /\ d # "no_sysgood"
          THEN {SyscallGood} ELSE {})

ExitsOf(c, d, bits) ==
  {Exited(1)} \cup (IF Does(c, "exit") THEN {Exited(0)} ELSE {})
    \cup {Exited(v) : v \in ValuesOf(c, d, bits, "arg") \ {OwnArg}}
    \cup (UNION {{Exited(c[f][i].n) : i \in {i \in DOMAIN c[f] : c[f][i].op = "exit_group"}} :
                 f \in Fn \ {"tracer"}})
    \cup (IF d = "survives_default" THEN {} ELSE {Signaled(g) : g \in SignalsOf(c, d, bits)})

StatusesOf(c, d, bits) == StopsOf(c, d, bits) \cup ExitsOf(c, d, bits)

-----------------------------------------------------------------------------
(* The statements with which a tracer that has a tracee gets nowhere on d.  *)

Crosses(a, bits) == a \div PageBytes # (a + (bits \div 8) - 1) \div PageBytes

(* What the mapping that is not there is needed for. *)
Maps(s) ==
  \/ s.op \in IntOps \cup {"munmap"}
  \/ s.op = "assert_word" /\ s.addr \in Nat
  \/ s.op = "store_bytes" /\ Len(s.bytes) > 0
  \/ s.op \in {"peek", "peek_raw", "poke"} /\ s.exp = {"ok"} /\ s.addr \in Nat

Denies(s, c, d, bits) ==
  \/ s.op = "wait" /\ s.ok \cap (StatusesOf(c, d, bits) \cup {NoStatus}) = {}
  \/ /\ d = "accepts_bad_signal"
     /\ s.op = "resume" /\ s.sig = BadSig /\ s.exp = {"EIO"}
  \/ /\ d = "syscall_info_always"
     /\ s.op = "get_syscall_info" /\ s.at = "none" /\ s.exp = {"ok"}
  \/ /\ ~Leaves(c, d)
     /\ s.op = "get_syscall_info" /\ s.at = "exit" /\ s.exp = {"ok"}
     /\ s.who \in Task \cup {"got"}
  \/ /\ d = "faults_across_pages"
     /\ s.op \in {"peek", "peek_raw", "poke"} /\ Crosses(s.addr, bits) /\ s.exp = {"ok"}
  \/ /\ d = "reads_unmapped"
     /\ s.op = "peek" /\ s.addr \in Addr /\ s.exp = {"EIO"}
  \/ /\ d = "group_has_siginfo" \/ ~Groups(c, d, bits)
     /\ s.op = "getsiginfo" /\ s.exp = {"EINVAL"} /\ s.who \in Task \cup {"got"}
  \/ /\ s.op = "peekuser" /\ s.reg \in {"arg", "cs", "dr0"} /\ s.exp = {"ok"}
     /\ s.who \in Task \cup {"got"} /\ s.n \notin ValuesOf(c, d, bits, s.reg)
  \/ /\ d = "attach_any_uid" /\ ~Traceable(c)
     /\ s.op = "attach" /\ s.exp = {"EPERM"}
  \/ d = "mmap_fails" /\ Maps(s)

(* A test insists on what the kernel denies if its tracer gets to no exit   *)
(* without asking for it, or if it does not get past TEST_MAIN's own checks. *)
Insists(c, d, bits) ==
  \/ d = "no_memfd"
  \/ \A i \in DOMAIN c["tracer"] : c["tracer"][i].op = "exit_group" =>
       \E j \in 1 .. (i - 1) : Denies(c["tracer"][j], c, d, bits)

(* Such a test, if it has only its own statements to move the tracer and    *)
(* cannot do without a tracee, is hopeless.                                *)
Hopeless(c, d, bits) == Contained(c) /\ Demanding(c) /\ Insists(c, d, bits)

(* The mistakes of which every test that is about them shows in its text    *)
(* that it cannot be passed.                                               *)
PlainMistakes ==
  {d \in Quirky : \A bits \in Builds : \A name \in Tests \cap DetectedBy(bits)[d] :
                    Hopeless(Suite[name], d, bits)}
=============================================================================
