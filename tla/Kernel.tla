------------------------------- MODULE Kernel -------------------------------
(***************************************************************************)
(* The part of Linux the tests exercise: signals, ptrace-stops, waitpid,   *)
(* process creation and death.  None of it is code of the repository; it is *)
(* modelled from what the tests do and assert.                             *)
(*                                                                         *)
(* `kernel' names the kernel under test: "linux", which behaves as the     *)
(* tests assert, or one of Deviations, a kernel or emulator that gets one   *)
(* thing wrong, the thing some test is there to notice.                    *)
(***************************************************************************)
EXTENDS Statements, FiniteSets

VARIABLES
  kernel,     \* the kernel under test
  build,      \* 64 or 32: which of the two binaries of the test runs
  life,       \* [Task -> Life]
  exit,       \* [Task -> Status]: how a dead task ended
  at,         \* [Task -> [fn, pc]]: the statement a task executes next
  frame,      \* [Task -> ...]: what a signal handler interrupted, its siginfo
  flag,       \* [Task -> BOOLEAN]: the test's bool ok / signal_happened
  k,          \* [Task -> TaskRec]: the task as the kernel sees it
  mem         \* the shared mapping as the tracee maps it, byte by byte

Deviations ==
  {"drops_ignored", "reports_masked", "keeps_siginfo", "drops_setsiginfo",
   "skips_group_stop", "exec_keeps_handlers", "no_exec_trap", "peeks_running",
   "child_not_stopped", "fork_as_clone", "seize_stops", "accepts_bad_signal",
   "never_suppresses", "handler_unmasked", "step_runs_on", "drops_poke",
   "drops_pokeuser", "drops_setsigmask", "faults_across_pages", "exec_unmasks",
   "loses_second_stop", "attach_any_uid", "no_sigchld", "no_sysgood", "loses_value",
   "stop_wins", "exec_keeps_bits", "aligns_peeks", "reads_unmapped", "no_exit_stop",
   "peeks_untraced", "needs_report", "group_has_siginfo", "ignores_interrupt",
   "survives_default", "syscall_info_always", "traps_on_int3", "execve_fails",
   "other_image_crashes", "exec_closes_files", "mmap_fails", "no_memfd", "clone_fails"}

Quirk(d) == kernel = d

Unmapped == 256
NoSys    == 38              \* stands for -ENOSYS, in rax at the entry of a call
Addr     == 0 .. (2 * PageBytes - 1)

TaskRec ==
  [traced : BOOLEAN, seized : BOOLEAN, opts : SUBSET Options,
   pend : SUBSET Info, mask : SUBSET Signal, act : [Signal -> Disp],
   stop : StopKind, event : Event \cup {"none"}, info : Info \cup {NoInfo},
   seen : BOOLEAN,                         \* the stop was reported by waitpid
   mode : Mode, due : Info \cup {NoInfo},  \* how it was resumed, with what
   phase : {"user", "entered", "leaving"}, \* of a traced system call
   trap : {"none", "group", "interrupt"},  \* the stop it has to enter next
   regs : [Reg -> Nat \cup {OwnArg}], thread : BOOLEAN, chld : BOOLEAN, uid : Uid]

NewTask ==
  [traced |-> FALSE, seized |-> FALSE, opts |-> {}, pend |-> {}, mask |-> {},
   act |-> [s \in Signal |-> "dfl"], stop |-> "none", event |-> "none",
   info |-> NoInfo, seen |-> FALSE, mode |-> "cont", due |-> NoInfo,
   phase |-> "user", trap |-> "none",
   regs |-> [g \in Reg |-> IF g = "arg" THEN OwnArg ELSE 0],
   thread |-> FALSE, chld |-> TRUE, uid |-> "root"]

-----------------------------------------------------------------------------
(* Signals. *)

Ignored(r, s) == r.act[s] = "ign" \/ (r.act[s] = "dfl" /\ s \in DefaultIgnore)

ChildInfo == [signo |-> "SIGCHLD", origin |-> "child"]
Segfault  == [signo |-> "SIGSEGV", origin |-> "SEGV_MAPERR"]

(* Queue siginfo i.  An ignored signal is dropped unless it is blocked or    *)
(* the task is traced; a standard signal that is already pending is lost.   *)
(* No test blocks the signal of a fault, which would kill at once.          *)
Sent(r, i) ==
  IF \/ \E j \in r.pend : j.signo = i.signo
     \/ /\ Ignored(r, i.signo)
        /\ i.signo \notin r.mask
        /\ ~r.traced \/ Quirk("drops_ignored")
     \/ i = ChildInfo /\ Quirk("no_sigchld")
  THEN r
  ELSE [r EXCEPT !.pend = @ \cup {i}]

Deliverable(r) ==
  {i \in r.pend : i.signo \notin r.mask \/ (r.traced /\ Quirk("reports_masked"))}

(* A task runs its program only when the kernel has nothing to do first. *)
Interrupted(r) == \/ r.phase = "leaving"
                  \/ r.due # NoInfo
                  \/ r.trap # "none"
                  \/ r.mode = "step"
                  \/ Deliverable(r) # {}

Ready(t) == life[t] = "running" /\ ~Interrupted(k[t])

-----------------------------------------------------------------------------
(* Processes and their death. *)

Process(t) == IF t # "tracer" /\ k["kid"].thread THEN {"tracee", "kid"} ELSE {t}
Members(t) == {u \in Process(t) : life[u] \in Alive}

(* What becomes of a task of G, the tasks that die together. *)
Corpse(u, G) ==
  CASE u = "tracer" -> "gone"                        \* the shell reaps it
    [] u = "tracee" -> IF life["tracer"] \in Alive THEN "zombie" ELSE "gone"
    [] u = "kid"    -> IF \/ k[u].traced /\ life["tracer"] \in Alive
                          \/ /\ ~k[u].thread
                             /\ "tracee" \notin G
                             /\ life["tracee"] \in Alive
                       THEN "zombie" ELSE "gone"

(* What becomes of a task whose tracer and parent-of-tracee dies. *)
Orphaned(u) ==
  CASE life[u] = "stopped" -> IF k[u].stop = "group" THEN "jobstop" ELSE "running"
    [] life[u] = "zombie"  -> IF /\ u = "kid" /\ ~k[u].thread
                                 /\ life["tracee"] \in Alive
                              THEN "zombie" ELSE "gone"
    [] OTHER -> life[u]

(* A tracee whose tracer died runs on.  The signal it was stopped for is due *)
(* if waitpid has not reported the stop: the report takes it from the task. *)
Untraced(r) == [r EXCEPT !.traced = FALSE, !.seized = FALSE, !.opts = {}]
RunsOn(r)   == [r EXCEPT !.stop = "none", !.mode = "cont", !.phase = "user"]

Detached(r) ==
  IF ~r.traced THEN r
  ELSE [RunsOn(Untraced(r)) EXCEPT !.trap = IF @ = "interrupt" THEN "none" ELSE @,
                                   !.due  = IF r.stop = "signal" /\ ~r.seen THEN r.info
                                            ELSE @]

(* The kid's death is reported to the tracee once no tracer has a claim on it. *)
NotifiesTracee(G) ==
  /\ k["kid"].chld /\ ~k["kid"].thread
  /\ "tracee" \notin G
  /\ \/ "kid" \in G /\ ~k["kid"].traced
     \/ "tracer" \in G /\ k["kid"].traced /\ life["kid"] = "zombie"

Die(G, status) ==
  /\ exit' = [u \in Task |-> IF u \in G THEN status ELSE exit[u]]
  /\ life' = [u \in Task |->
                CASE u \in G        -> Corpse(u, G)
                  [] u \notin G /\ "tracer" \in G -> Orphaned(u)
                  [] OTHER -> IF /\ "tracee" \in G /\ life[u] = "zombie"
                                 /\ ~k[u].traced
                              THEN "gone" ELSE life[u]]
  /\ k' = [u \in Task |->
             LET r == IF "tracer" \in G THEN Detached(k[u]) ELSE k[u]
             IN  IF u = "tracee" /\ NotifiesTracee(G) THEN Sent(r, ChildInfo) ELSE r]

-----------------------------------------------------------------------------
(* ptrace-stops. *)

StopStatus(r) ==
  CASE r.stop = "signal"        -> StoppedBy(r.info.signo)
    [] r.stop = "group"         -> StoppedBy("SIGSTOP")
    [] r.stop = "event"         -> EventStop(r.event)
    [] /\ r.stop \in {"entry", "exit"}
       /\ "TRACESYSGOOD" \in r.opts
       /\ ~Quirk("no_sysgood") -> SyscallGood
    [] OTHER                    -> StoppedBy("SIGTRAP")

StatusOf(u) == IF life[u] = "zombie" THEN exit[u] ELSE StopStatus(k[u])

Stop(r, kind) == [r EXCEPT !.stop = kind, !.seen = FALSE, !.mode = "cont"]

(* An event stop is inside the system call, whose exit can be a stop again. *)
EventStopped(r, e) == [Stop(r, "event") EXCEPT !.event = e, !.phase = "leaving"]

(* PTRACE_CONT, PTRACE_SYSCALL and PTRACE_SINGLESTEP.  Leaving a            *)
(* signal-delivery-stop with another signal than the one that caused it     *)
(* replaces the siginfo by one that names the tracer.                       *)
Resumed(r, m, s) ==
  LET injected ==
        CASE r.stop # "signal"   -> NoInfo
          [] r.stop = "signal" /\ s = NoSig ->
               IF Quirk("never_suppresses") THEN r.info ELSE NoInfo
          [] r.stop = "signal" /\ s # NoSig ->
               IF \/ s = r.info.signo /\ ~Quirk("loses_value")
                  \/ r.info.signo = "SIGSTOP" /\ Quirk("stop_wins")
               THEN r.info
               ELSE IF Quirk("keeps_siginfo") THEN [r.info EXCEPT !.signo = s]
               ELSE [signo |-> s, origin |-> "tracer"]
  IN [r EXCEPT !.stop = "none", !.due = injected,
               !.mode = IF m = "step" /\ Quirk("step_runs_on") THEN "cont" ELSE m,
               !.phase = IF /\ @ = "leaving"
                            /\ m # "syscall" \/ Quirk("no_exit_stop")
                         THEN "user" ELSE @]

(* Which event stop, if any, the creation of a task causes. *)
CloneEvent(r, s) ==
  LET e == IF s.chld /\ ~Quirk("fork_as_clone") THEN "FORK" ELSE "CLONE"
  IN  IF r.traced /\ (IF s.chld THEN "TRACEFORK" ELSE "TRACECLONE") \in r.opts
      THEN e ELSE "none"

(* A new task; one whose creation was an event is traced and stops first.  *)
Child(r, s) ==
  LET auto == CloneEvent(r, s) # "none"
  IN [NewTask EXCEPT !.mask = r.mask, !.act = r.act, !.uid = r.uid,
                     !.thread = s.thread, !.chld = s.chld, !.traced = auto,
                     !.opts = IF auto THEN r.opts ELSE {},
                     !.pend = IF auto /\ ~Quirk("child_not_stopped")
                              THEN {[signo |-> "SIGSTOP", origin |-> "auto"]}
                              ELSE {}]

(* execve: handlers are reset, ignored signals, mask and pending ones stay.  *)
(* A traced task that did not ask for the event gets an ordinary SIGTRAP.    *)
Execed(r, bits) ==
  LET q == [r EXCEPT !.act = [s \in Signal |-> IF r.act[s] = "handler"
                                                   /\ ~Quirk("exec_keeps_handlers")
                                               THEN "dfl" ELSE r.act[s]],
                     !.mask = IF Quirk("exec_unmasks") THEN {} ELSE @,
                     !.regs["cs"] = bits, !.thread = FALSE, !.chld = TRUE]
  IN CASE q.traced /\ "TRACEEXEC" \in q.opts ->
            EventStopped(q, "EXEC")
       [] q.traced /\ "TRACEEXEC" \notin q.opts ->
            IF q.seized \/ Quirk("no_exec_trap") THEN q
            ELSE Sent(q, [signo |-> "SIGTRAP", origin |-> "exec"])
       [] OTHER -> q

(* Return from a system call with value v. *)
Ret(r, v) ==
  [r EXCEPT !.regs["ax"] = v,
            !.phase = IF /\ r.phase = "entered" /\ r.mode = "syscall"
                         /\ ~Quirk("no_exit_stop")
                      THEN "leaving" ELSE "user"]

-----------------------------------------------------------------------------
(* waitpid. *)

Children(t) ==
  {u \in Task : /\ life[u] \notin {"absent", "gone"}
                /\ CASE t = "tracer" -> u = "tracee" \/ (u = "kid" /\ k[u].traced)
                     [] t = "tracee" -> u = "kid" /\ ~k[u].thread
                     [] OTHER        -> FALSE}

(* A leader is not reported while a thread of its process is unreaped. *)
Reportable(t, u) ==
  \/ t = "tracer" /\ k[u].traced /\ life[u] = "stopped" /\ ~k[u].seen
  \/ /\ life[u] = "zombie"
     /\ t = "tracee" => ~k[u].traced
     /\ ~(u = "tracee" /\ k["kid"].thread /\ life["kid"] \notin {"absent", "gone"})

(* The tracer's report of the dead kid leaves the kid to its parent. *)
PassedOn(t, u) == /\ t = "tracer" /\ u = "kid" /\ ~k[u].thread
                  /\ life[u] = "zombie" /\ life["tracee"] \in Alive

Collect(t, u) ==
  /\ life' = [life EXCEPT ![u] = IF @ = "zombie" /\ ~PassedOn(t, u) THEN "gone" ELSE @]
  /\ k' = [v \in Task |->
             CASE v = u -> IF PassedOn(t, u) THEN [k[u] EXCEPT !.traced = FALSE]
                           ELSE [k[u] EXCEPT !.seen = TRUE]
               [] v = "tracee" /\ v # u /\ PassedOn(t, u) /\ k[u].chld ->
                           Sent(k[v], ChildInfo)
               [] OTHER -> k[v]]

-----------------------------------------------------------------------------
(* PTRACE_PEEKDATA and PTRACE_POKEDATA move one word of the build. *)

WordBytes   == build \div 8
Mapped(a, n) == \A b \in a .. (a + n - 1) : b \in Addr /\ mem[b] # Unmapped
Readable(a) ==
  /\ Mapped(a, WordBytes) \/ (Quirk("reads_unmapped") /\ a \in Addr)
  /\ Quirk("faults_across_pages") => a \div PageBytes = (a + WordBytes - 1) \div PageBytes
LowBytes(a) == [b \in 1 .. WordBytes |-> mem[a + b - 1]]

(* ptrace(PTRACE_PEEKDATA) returns a long, which `u64 result' sign-extends. *)
PeekedWord(a) ==
  LET first == IF Quirk("aligns_peeks") THEN a - (a % WordBytes) ELSE a
  IN [b \in 1 .. 8 |-> IF b <= WordBytes THEN mem[first + b - 1]
                       ELSE IF mem[first + WordBytes - 1] >= 128 THEN 255 ELSE 0]
(* (u32)value on the 32-bit build, value itself on the other. *)
Truncated(v) == [b \in 1 .. 8 |-> IF b <= WordBytes THEN v[b] ELSE 0]
Written(a, v, width) ==
  [b \in Addr |-> IF b \in a .. (a + width - 1) THEN v[b - a + 1] ELSE mem[b]]
=============================================================================
