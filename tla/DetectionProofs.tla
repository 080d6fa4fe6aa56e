-------------------------- MODULE DetectionProofs --------------------------
(***************************************************************************)
(* A hopeless test does not pass: if the text of a test asks the kernel for *)
(* what it never delivers, run.sh does not say "passed", in any schedule    *)
(* and with pages of any size.  The invariant is that whatever the kernel   *)
(* knows of a task has a cause in the program.                             *)
(***************************************************************************)
EXTENDS RefinementProofs, Denials

-----------------------------------------------------------------------------
(* What the kernel knows of a task has a cause in the program.              *)
Caused(r, c, d, bits) ==
  /\ \A i \in r.pend \cup {r.due, r.info} : i.signo \in SignalsOf(c, d, bits) \cup {NoSig}
  /\ r.opts \subseteq OptionsOf(c)
  /\ r.event \in EventsOf(c, d) \cup {"none"}
  /\ r.stop = "event" => r.event # "none"
  /\ r.trap = "interrupt" => "STOP" \in EventsOf(c, d)
  /\ r.trap = "group" \/ r.stop = "group" => Groups(c, d, bits)
  /\ r.mode = "syscall" \/ r.stop = "entry" => Enters(c)
  /\ r.mode = "step" \/ r.stop = "notify" => Steps(c, d)
  /\ r.phase = "leaving" \/ r.stop = "exit" => Leaves(c, d)
  /\ \A g \in {"arg", "cs", "dr0"} : r.regs[g] \in ValuesOf(c, d, bits, g)
  /\ r.traced => Traceable(c)

(* So it fits a task with life l. *)
Fit(r, l) == Caused(r, code, kernel, build) /\ (l = "stopped" => r.stop # "none")

Raisable == SignalsOf(code, kernel, build)

-----------------------------------------------------------------------------
(* The operators on the record of one task keep it fitting. *)

(* The statement a task is at is in the text of the program.               *)
LEMMA HereInText ==
  ASSUME TypeInv, NEW t \in Task, at[t].pc \in DOMAIN Code(t)
  PROVE  Here(t) \in Text(code)
BY DEF Text, Here, Code, TypeInv, ControlOK

(* Fields that change one at a time.                                       *)
LEMMA FieldsFit ==
  ASSUME NEW r \in TaskRec, NEW l, Fit(r, l)
  PROVE  /\ \A S : Fit([r EXCEPT !.mask = S], l)
         /\ \A u : Fit([r EXCEPT !.uid = u], l)
         /\ \A s, d : Fit([r EXCEPT !.act[s] = d], l)
         /\ Fit([r EXCEPT !.seen = TRUE], l)
         /\ Fit([r EXCEPT !.traced = FALSE], l)
         /\ Traceable(code) => /\ Fit([r EXCEPT !.traced = TRUE], l)
                               /\ \A b : Fit([r EXCEPT !.traced = TRUE, !.seized = b], l)
         /\ \A S \in SUBSET OptionsOf(code) : Fit([r EXCEPT !.opts = S], l)
         /\ Fit([r EXCEPT !.due = NoInfo], l)
         /\ Fit([r EXCEPT !.trap = "none"], l)
         /\ Groups(code, kernel, build) => Fit([r EXCEPT !.trap = "group"], l)
         /\ "STOP" \in EventsOf(code, kernel) => Fit([r EXCEPT !.trap = "interrupt"], l)
         /\ \A i \in Info : i.signo \in Raisable =>
              /\ Fit([r EXCEPT !.info = i], l) /\ Fit([r EXCEPT !.due = i], l)
              /\ Fit([r EXCEPT !.pend = @ \cup {i}], l)
         /\ \A i : Fit([r EXCEPT !.pend = @ \ {i}], l)
         /\ \A g \in Reg : \A n :
              (g \in {"arg", "cs", "dr0"} => n \in ValuesOf(code, kernel, build, g))
                => Fit([r EXCEPT !.regs[g] = n], l)
<1>1. \A S : Fit([r EXCEPT !.mask = S], l)
  BY DEF Fit, Caused, TaskRec
<1>2. \A u : Fit([r EXCEPT !.uid = u], l)
  BY DEF Fit, Caused, TaskRec
<1>3. \A s, d : Fit([r EXCEPT !.act[s] = d], l)
  BY DEF Fit, Caused, TaskRec
<1>4. Fit([r EXCEPT !.seen = TRUE], l)
  BY DEF Fit, Caused, TaskRec
<1>5. Fit([r EXCEPT !.traced = FALSE], l)
  BY DEF Fit, Caused, TaskRec
<1>6. Traceable(code) => Fit([r EXCEPT !.traced = TRUE], l)
  BY DEF Fit, Caused, TaskRec
<1>7. Traceable(code) => \A b : Fit([r EXCEPT !.traced = TRUE, !.seized = b], l)
  BY DEF Fit, Caused, TaskRec
<1>8. \A S \in SUBSET OptionsOf(code) : Fit([r EXCEPT !.opts = S], l)
  BY DEF Fit, Caused, TaskRec
<1>9. Fit([r EXCEPT !.due = NoInfo], l)
  BY DEF Fit, Caused, TaskRec, NoInfo
<1>10. Fit([r EXCEPT !.trap = "none"], l)
  BY DEF Fit, Caused, TaskRec
<1>11. Groups(code, kernel, build) => Fit([r EXCEPT !.trap = "group"], l)
  BY DEF Fit, Caused, TaskRec
<1>12. "STOP" \in EventsOf(code, kernel) => Fit([r EXCEPT !.trap = "interrupt"], l)
  BY DEF Fit, Caused, TaskRec
<1>13. \A i \in Info : i.signo \in Raisable => Fit([r EXCEPT !.info = i], l)
  BY DEF Fit, Caused, TaskRec, Raisable
<1>14. \A i \in Info : i.signo \in Raisable => Fit([r EXCEPT !.due = i], l)
  BY DEF Fit, Caused, TaskRec, Raisable
<1>15. \A i \in Info : i.signo \in Raisable => Fit([r EXCEPT !.pend = @ \cup {i}], l)
  BY DEF Fit, Caused, TaskRec, Raisable
<1>16. \A i : Fit([r EXCEPT !.pend = @ \ {i}], l)
  BY DEF Fit, Caused, TaskRec
<1>17. \A g \in Reg : \A n :
         (g \in {"arg", "cs", "dr0"} => n \in ValuesOf(code, kernel, build, g))
           => Fit([r EXCEPT !.regs[g] = n], l)
  BY DEF Fit, Caused, TaskRec, Reg
<1> QED BY <1>1, <1>2, <1>3, <1>4, <1>5, <1>6, <1>7, <1>8, <1>9, <1>10, <1>11, <1>12, <1>13,
           <1>14, <1>15, <1>16, <1>17

(* Sending a signal there is a cause for. *)
LEMMA SentFit ==
  ASSUME NEW r \in TaskRec, NEW l, Fit(r, l), NEW i \in Info,
         i.signo \in Raisable \/ (i = ChildInfo /\ Creates(code, kernel))
  PROVE  Fit(Sent(r, i), l)
<1>1. i = ChildInfo /\ Creates(code, kernel) => kernel = "no_sigchld" \/ i.signo \in Raisable
  BY DEF ChildInfo, Raisable, SignalsOf, Signal
<1> QED BY <1>1, FieldsFit DEF Sent, Quirk

(* Returning a value from a system call. *)
LEMMA RetFit ==
  ASSUME NEW r \in TaskRec, NEW l, Fit(r, l), NEW v \in Nat
  PROVE  Fit(Ret(r, v), l) /\ Ret(r, v).stop = r.stop /\ Ret(r, v).traced = r.traced
           /\ Ret(r, v).opts = r.opts
<1> DEFINE p == IF r.phase = "entered" /\ r.mode = "syscall" /\ ~Quirk("no_exit_stop")
                THEN "leaving" ELSE "user"
           q == [r EXCEPT !.regs["ax"] = v]
<1>1. Fit(q, l) /\ q \in TaskRec /\ q.stop = r.stop /\ q.phase = r.phase /\ q.mode = r.mode
      /\ q.traced = r.traced /\ q.opts = r.opts
  BY FieldsFit DEF TaskRec, Reg
<1>2. Ret(r, v) = [q EXCEPT !.phase = p]
  BY DEF Ret, TaskRec
<1>3. p = "user" \/ (p = "leaving" /\ Leaves(code, kernel))
  BY DEF Fit, Caused, Leaves, Quirk
<1> HIDE DEF q, p
<1> QED BY <1>1, <1>2, <1>3 DEF Fit, Caused, TaskRec

(* Stops a running task enters. *)
LEMMA StopFit ==
  ASSUME NEW r \in TaskRec, NEW l, Fit(r, l), NEW kind \in StopKind \ {"none", "event"},
         kind = "group" => Groups(code, kernel, build),
         kind = "entry" => Enters(code),
         kind = "notify" => Steps(code, kernel),
         kind = "exit" => Leaves(code, kernel)
  PROVE  \A m : /\ Fit(Stop(r, kind), m)
               /\ \A p \in {"user", "entered"} : Fit([Stop(r, kind) EXCEPT !.phase = p], m)
               /\ \A i \in Info : i.signo \in Raisable => Fit([Stop(r, kind) EXCEPT !.info = i], m)
<1> DEFINE q == Stop(r, kind)
<1>1. /\ q \in TaskRec /\ q.stop = kind /\ q.mode = "cont" /\ q.phase = r.phase
      /\ q.pend = r.pend /\ q.due = r.due /\ q.info = r.info /\ q.opts = r.opts
      /\ q.event = r.event /\ q.trap = r.trap /\ q.regs = r.regs /\ q.traced = r.traced
  BY DEF Stop, TaskRec, Mode
<1> HIDE DEF q
<1>2. \A m : Fit(q, m)
  BY <1>1 DEF Fit, Caused
<1>3. \A m : \A p \in {"user", "entered"} : Fit([q EXCEPT !.phase = p], m)
  BY <1>1, <1>2 DEF Fit, Caused, TaskRec
<1>4. \A m : \A i \in Info : i.signo \in Raisable => Fit([q EXCEPT !.info = i], m)
  BY <1>1, <1>2, FieldsFit
<1> QED BY <1>2, <1>3, <1>4 DEF q

(* Stops for an event. *)
LEMMA EventFit ==
  ASSUME NEW r \in TaskRec, NEW l, Fit(r, l), NEW e \in EventsOf(code, kernel)
  PROVE  \A m : Fit([Stop(r, "event") EXCEPT !.event = e], m)
<1> DEFINE q == [Stop(r, "event") EXCEPT !.event = e]
<1>0. e \in Event /\ e # "none"
  BY DEF EventsOf, Event
<1>1. /\ q \in TaskRec /\ q.stop = "event" /\ q.mode = "cont" /\ q.phase = r.phase
      /\ q.pend = r.pend /\ q.due = r.due /\ q.info = r.info /\ q.opts = r.opts
      /\ q.event = e /\ q.trap = r.trap /\ q.regs = r.regs /\ q.traced = r.traced
  BY <1>0 DEF Stop, TaskRec, Mode, StopKind
<1> HIDE DEF q
<1>2. \A m : Fit(q, m)
  BY <1>0, <1>1 DEF Fit, Caused
<1> QED BY <1>2 DEF q

(* A stop for an event.                                                    *)
LEMMA EventStoppedFit ==
  ASSUME Leaves(code, kernel), NEW r \in TaskRec, NEW l, Fit(r, l),
         NEW e \in EventsOf(code, kernel)
  PROVE  \A m : Fit(EventStopped(r, e), m)
<1> DEFINE q == EventStopped(r, e)
<1>0. e \in Event /\ e # "none"
  BY DEF EventsOf, Event
<1>1. /\ q.stop = "event" /\ q.mode = "cont" /\ q.phase = "leaving"
      /\ q.pend = r.pend /\ q.due = r.due /\ q.info = r.info /\ q.opts = r.opts
      /\ q.event = e /\ q.trap = r.trap /\ q.regs = r.regs /\ q.traced = r.traced
  BY DEF EventStopped, Stop, TaskRec
<1> HIDE DEF q
<1>2. \A m : Fit(q, m)
  BY <1>0, <1>1 DEF Fit, Caused
<1> QED BY <1>2 DEF q

(* A task that is traced has been made so by the tests, and its options too: *)
(* the events of fork, clone and execve happen for a reason.               *)
LEMMA CloneEventCaused ==
  ASSUME NEW r \in TaskRec, NEW l, Fit(r, l), NEW s \in Text(code), s.op = "clone",
         kernel # "clone_fails",
         CloneEvent(r, s) # "none"
  PROVE  CloneEvent(r, s) \in EventsOf(code, kernel) /\ Leaves(code, kernel) /\ Traceable(code)
<1>1. r.traced /\ (IF s.chld THEN "TRACEFORK" ELSE "TRACECLONE") \in OptionsOf(code)
  BY DEF CloneEvent, Fit, Caused
<1>2. Creates(code, kernel)
  BY DEF Creates, Does
<1>3. Leaves(code, kernel)
  BY <1>1 DEF Leaves
<1>4. CloneEvent(r, s) = IF s.chld /\ kernel # "fork_as_clone" THEN "FORK" ELSE "CLONE"
  BY DEF CloneEvent, Quirk
<1> QED BY <1>1, <1>2, <1>3, <1>4 DEF EventsOf, Event, Fit, Caused

(* The record of a new task. *)
LEMMA ChildFit ==
  ASSUME NEW r \in TaskRec, NEW l, Fit(r, l), NEW s \in Text(code), s.op = "clone",
         kernel # "clone_fails"
  PROVE  Fit(Child(r, s), "running")
<1> DEFINE auto == CloneEvent(r, s) # "none"
           q == Child(r, s)
           stop == [signo |-> "SIGSTOP", origin |-> "auto"]
<1>1. /\ q.pend = (IF auto /\ kernel # "child_not_stopped" THEN {stop} ELSE {})
      /\ q.due = NoInfo /\ q.info = NoInfo /\ q.event = "none" /\ q.stop = "none"
      /\ q.trap = "none" /\ q.mode = "cont" /\ q.phase = "user" /\ q.traced = auto
      /\ q.opts = (IF auto THEN r.opts ELSE {}) /\ q.regs = NewTask.regs
  BY DEF Child, NewTask, Quirk
<1>2. auto => Traceable(code)
  BY CloneEventCaused
<1>3. kernel # "child_not_stopped" => stop.signo \in Raisable
  BY DEF Raisable, SignalsOf, Signal, Creates, Does
<1>4. /\ NewTask.regs["arg"] = OwnArg /\ NewTask.regs["cs"] = 0 /\ NewTask.regs["dr0"] = 0
  BY DEF NewTask, Reg
<1>5. \A g \in {"arg", "cs", "dr0"} : NewTask.regs[g] \in ValuesOf(code, kernel, build, g)
  BY <1>4 DEF ValuesOf
<1>6. r.opts \subseteq OptionsOf(code)
  BY DEF Fit, Caused
<1>7. NoInfo.signo = NoSig
  BY DEF NoInfo
<1> HIDE DEF auto, q
<1>8. \A i \in q.pend : i.signo \in Raisable
  BY <1>1, <1>3
<1> QED BY <1>1, <1>2, <1>5, <1>6, <1>7, <1>8 DEF Fit, Caused, q, Raisable

(* The record a task starts with. *)
LEMMA NewTaskFit == Fit(NewTask, "running")
<1>1. /\ NewTask.regs["arg"] = OwnArg /\ NewTask.regs["cs"] = 0 /\ NewTask.regs["dr0"] = 0
  BY DEF NewTask, Reg
<1>2. \A g \in {"arg", "cs", "dr0"} : NewTask.regs[g] \in ValuesOf(code, kernel, build, g)
  BY <1>1 DEF ValuesOf
<1>3. /\ NewTask.pend = {} /\ NewTask.due.signo = NoSig /\ NewTask.info.signo = NoSig
      /\ NewTask.event = "none" /\ NewTask.stop = "none" /\ NewTask.trap = "none"
      /\ NewTask.mode = "cont" /\ NewTask.phase = "user" /\ ~NewTask.traced /\ NewTask.opts = {}
  BY DEF NewTask, NoInfo
<1> QED BY <1>2, <1>3 DEF Fit, Caused

(* The record after an execve of statement s. *)
LEMMA ExecedFit ==
  ASSUME NEW r \in TaskRec, NEW l, Fit(r, l), NEW s \in Text(code), s.op = "execve",
         kernel # "execve_fails", NEW n \in Nat,
         n = build \/ (n = s.n /\ kernel # "exec_keeps_bits")
  PROVE  Fit(Execed(r, n), "running")
<1> DEFINE p == [r EXCEPT !.act = [g \in Signal |->
                                     IF r.act[g] = "handler"
                                          /\ ~Quirk("exec_keeps_handlers")
                                     THEN "dfl" ELSE r.act[g]],
                          !.mask = IF Quirk("exec_unmasks") THEN {} ELSE @,
                          !.regs["cs"] = n, !.thread = FALSE, !.chld = TRUE]
           trap == [signo |-> "SIGTRAP", origin |-> "exec"]
<1>1. Replaces(code, kernel)
  BY DEF Replaces, Does
<1>2. n \in ValuesOf(code, kernel, build, "cs")
  BY DEF ValuesOf
<1>3. /\ p \in TaskRec /\ p.regs = [r.regs EXCEPT !["cs"] = n] /\ p.stop = r.stop
      /\ p.mode = r.mode /\ p.phase = r.phase /\ p.trap = r.trap /\ p.event = r.event
      /\ p.pend = r.pend /\ p.due = r.due /\ p.info = r.info /\ p.opts = r.opts
      /\ p.traced = r.traced
  BY DEF TaskRec, Reg, Disp
<1>4. /\ p.traced /\ "TRACEEXEC" \in p.opts => Execed(r, n) = EventStopped(p, "EXEC")
      /\ ~(p.traced /\ "TRACEEXEC" \in p.opts) =>
           Execed(r, n) = p \/ (kernel # "no_exec_trap" /\ Execed(r, n) = Sent(p, trap))
  BY DEF Execed, Quirk
<1> HIDE DEF p
<1>5. \A g \in {"arg", "cs", "dr0"} : p.regs[g] \in ValuesOf(code, kernel, build, g)
  BY <1>2, <1>3 DEF Fit, Caused, TaskRec, Reg
<1>6. Fit(p, "running")
  BY <1>3, <1>5 DEF Fit, Caused
<1>7. CASE p.traced /\ "TRACEEXEC" \in p.opts
  <2>1. "TRACEEXEC" \in OptionsOf(code)
    BY <1>6, <1>7 DEF Fit, Caused
  <2>2. "EXEC" \in EventsOf(code, kernel)
    BY <1>1, <2>1 DEF EventsOf, Event
  <2>3. Leaves(code, kernel)
    BY <2>1 DEF Leaves
  <2>4. ASSUME NEW t \in TaskRec, Fit(t, "running")
        PROVE  Fit(EventStopped(t, "EXEC"), "running")
    BY <2>2, <2>3, <2>4, EventStoppedFit
  <2>5. Fit(EventStopped(p, "EXEC"), "running")
    BY <1>3, <1>6, <2>4
  <2> QED BY <1>4, <1>7, <2>5
<1>8. CASE ~(p.traced /\ "TRACEEXEC" \in p.opts)
  <2>1. trap \in Info /\ (kernel # "no_exec_trap" => trap.signo \in Raisable)
    BY <1>1 DEF Info, Origin, Signal, Raisable, SignalsOf
  <2> HIDE DEF trap
  <2> QED BY <1>3, <1>4, <1>6, <1>8, <2>1, SentFit
<1> QED BY <1>7, <1>8

(* A tracee that statement s resumes. *)
LEMMA ResumedFit ==
  ASSUME NEW r, RecordOK(r), NEW l, Fit(r, l), NEW s \in Text(code), s.op = "resume",
         "ok" \in s.exp, s.mode \in Mode, s.sig \in Signal \cup {NoSig}
  PROVE  Fit(Resumed(r, s.mode, s.sig), "running")
<1> DEFINE injected ==
             CASE r.stop # "signal"   -> NoInfo
               [] r.stop = "signal" /\ s.sig = NoSig ->
                    IF Quirk("never_suppresses") THEN r.info ELSE NoInfo
               [] r.stop = "signal" /\ s.sig # NoSig ->
                    IF \/ s.sig = r.info.signo /\ ~Quirk("loses_value")
                       \/ r.info.signo = "SIGSTOP" /\ Quirk("stop_wins")
                    THEN r.info
                    ELSE IF Quirk("keeps_siginfo") THEN [r.info EXCEPT !.signo = s.sig]
                    ELSE [signo |-> s.sig, origin |-> "tracer"]
           mode  == IF s.mode = "step" /\ Quirk("step_runs_on") THEN "cont" ELSE s.mode
           phase == IF /\ r.phase = "leaving"
                       /\ s.mode # "syscall" \/ Quirk("no_exit_stop")
                    THEN "user" ELSE r.phase
           q     == Resumed(r, s.mode, s.sig)
<1>1. r \in TaskRec /\ (r.stop = "signal" => r.info \in Info)
  BY DEF RecordOK
<1>2. s.sig # NoSig => s.sig \in Raisable
  BY DEF Raisable, SignalsOf
<1>3. injected.signo \in Raisable \cup {NoSig}
  <2>1. r.info.signo \in Raisable \cup {NoSig}
    BY DEF Fit, Caused, Raisable
  <2>2. r.stop = "signal" => [r.info EXCEPT !.signo = s.sig].signo = s.sig
    BY <1>1 DEF Info
  <2>3. NoInfo.signo = NoSig
    BY DEF NoInfo
  <2> QED BY <1>2, <2>1, <2>2, <2>3
<1>4. /\ mode = "syscall" => Enters(code)
      /\ mode = "step" => Steps(code, kernel)
  BY DEF Enters, Steps, Asks, Quirk
<1>5. phase = "leaving" => r.phase = "leaving"
  OBVIOUS
<1>6. /\ q.stop = "none" /\ q.due = injected /\ q.mode = mode /\ q.phase = phase
      /\ q.pend = r.pend /\ q.info = r.info /\ q.opts = r.opts /\ q.event = r.event
      /\ q.trap = r.trap /\ q.regs = r.regs /\ q.traced = r.traced
  BY <1>1 DEF Resumed, TaskRec
<1> HIDE DEF injected, mode, phase, q
<1> QED BY <1>3, <1>4, <1>5, <1>6 DEF Fit, Caused, q, Raisable

(* A tracee that loses its tracer. *)
LEMMA DetachedFit ==
  ASSUME NEW r \in TaskRec, NEW l, Fit(r, l)
  PROVE  Fit(Detached(r), "running")
<1> DEFINE q == Detached(r)
<1>1. CASE r.traced
  <2>1. /\ q.stop = "none" /\ q.due \in {r.due, r.info} /\ q.mode = "cont" /\ q.phase = "user"
        /\ q.pend = r.pend /\ q.info = r.info /\ q.opts = {} /\ q.event = r.event
        /\ q.trap \in {"none", r.trap} /\ q.regs = r.regs /\ ~q.traced
    BY <1>1 DEF Detached, RunsOn, Untraced, TaskRec
  <2> HIDE DEF q
  <2> QED BY <2>1 DEF Fit, Caused, q
<1>2. CASE ~r.traced
  BY <1>2 DEF Detached, Fit
<1> QED BY <1>1, <1>2

(* What PTRACE_SETOPTIONS and the like make of a record. *)
LEMMA UpdatedFit ==
  ASSUME NEW r \in TaskRec, NEW l, Fit(r, l), NEW s \in Text(code), s.op \in UpdateOps,
         WellFormed(s)
  PROVE  Fit(Updated(r, s), l)
<1>1. CASE s.op = "setoptions"
  <2>1. s.opts \in SUBSET OptionsOf(code)
    BY <1>1 DEF OptionsOf, WellFormed
  <2> QED BY <1>1, <2>1, FieldsFit DEF Updated
<1>2. CASE s.op = "setsiginfo"
  <2>1. s.info \in Info /\ s.info.signo \in Raisable
    BY <1>2 DEF Raisable, SignalsOf, WellFormed, Info
  <2> QED BY <1>2, <2>1, FieldsFit DEF Updated
<1>3. CASE s.op = "setsigmask"
  BY <1>3, FieldsFit DEF Updated
<1>4. CASE s.op = "pokeuser"
  <2>1. s.reg \in Reg
    BY <1>4 DEF WellFormed
  <2>2. kernel # "drops_pokeuser" => s.n \in ValuesOf(code, kernel, build, s.reg)
    BY <1>4 DEF ValuesOf, PokedOf
  <2> QED BY <1>4, <2>1, <2>2, FieldsFit DEF Updated, Quirk
<1> QED BY <1>1, <1>2, <1>3, <1>4 DEF UpdateOps

(* What waitpid may report of a stopped task. *)
LEMMA StopStatusFits ==
  ASSUME NEW r, RecordOK(r), Fit(r, "stopped")
  PROVE  StopStatus(r) \in StopsOf(code, kernel, build)
<1>1. r.stop \in StopKind \ {"none"}
  BY DEF RecordOK, TaskRec, Fit
<1>2. CASE r.stop = "signal"
  <2>1. r.info.signo \in Raisable
    BY <1>2 DEF Fit, Caused, RecordOK, Info, Signal, NoSig, Raisable
  <2> QED BY <1>2, <2>1 DEF StopStatus, StopsOf, Raisable
<1>3. CASE r.stop = "group"
  BY <1>3 DEF StopStatus, StopsOf, Fit, Caused
<1>4. CASE r.stop = "event"
  BY <1>4 DEF StopStatus, StopsOf, Fit, Caused
<1>5. CASE r.stop \in {"entry", "exit"}
  <2>1. Enters(code) \/ Leaves(code, kernel)
    BY <1>5 DEF Fit, Caused
  <2>2. r.opts \subseteq OptionsOf(code)
    BY DEF Fit, Caused
  <2> QED BY <1>5, <2>1, <2>2 DEF StopStatus, StopsOf, Quirk
<1>6. CASE r.stop = "notify"
  <2>1. Steps(code, kernel)
    BY <1>6 DEF Fit, Caused
  <2> QED BY <1>6, <2>1 DEF StopStatus, StopsOf
<1> QED BY <1>1, <1>2, <1>3, <1>4, <1>5, <1>6 DEF StopKind
-----------------------------------------------------------------------------
(* Every step of a task keeps the records of all tasks fitting. *)

Fitting  == \A u \in Task : Fit(k[u], life[u])
FitAfter == \A u \in Task : Fit(k'[u], life'[u])

(* There is no kid without a clone. *)
Cloned == life["kid"] # "absent" => Creates(code, kernel)

(* One record is replaced. *)
LEMMA OneFit ==
  ASSUME TypeInv, Fitting, NEW t \in Task, NEW q, Fit(q, life[t]),
         k' = [k EXCEPT ![t] = q], UNCHANGED life
  PROVE  FitAfter
BY DEF Fitting, FitAfter, TypeInv, KernelOK

(* Nothing changes what the kernel knows of anybody.                       *)
LEMMA SameFit == ASSUME Fitting, UNCHANGED <<k, life>> PROVE FitAfter
BY DEF Fitting, FitAfter

(* One record is replaced by the one of a task that stops or runs on.       *)
LEMMA MovedFit ==
  ASSUME TypeInv, Fitting, NEW t \in Task, NEW q, NEW l, Fit(q, l),
         k' = [k EXCEPT ![t] = q], life' = [life EXCEPT ![t] = l]
  PROVE  FitAfter
BY DEF Fitting, FitAfter, TypeInv, KernelOK

(* The exit or death of the tasks of G. *)
LEMMA DieFit ==
  ASSUME TypeInv, Fitting, Cloned, NEW G \in SUBSET Task, \A u \in G : life[u] \in Alive,
         NEW status, Die(G, status)
  PROVE  FitAfter
<1> SUFFICES ASSUME NEW u \in Task PROVE Fit(k'[u], life'[u])
  BY DEF FitAfter
<1> DEFINE r == IF "tracer" \in G THEN Detached(k[u]) ELSE k[u]
<1>1. k[u] \in TaskRec /\ RecordOK(k[u]) /\ Fit(k[u], life[u])
  BY DEF TypeInv, KernelOK, Fitting
<1>2. life'[u] = "stopped" => life[u] = "stopped" /\ "tracer" \notin G
  <2>1. life'[u] = CASE u \in G -> Corpse(u, G)
                     [] u \notin G /\ "tracer" \in G -> Orphaned(u)
                     [] OTHER -> IF "tracee" \in G /\ life[u] = "zombie" /\ ~k[u].traced
                                 THEN "gone" ELSE life[u]
    BY DEF Die
  <2>2. Corpse(u, G) # "stopped"
    BY CorpseDead DEF Dead
  <2>3. Orphaned(u) # "stopped"
    BY DEF Orphaned
  <2>4. CASE u \in G
    BY <2>1, <2>2, <2>4
  <2>5. CASE u \notin G /\ "tracer" \in G
    BY <2>1, <2>3, <2>5
  <2>6. CASE u \notin G /\ "tracer" \notin G
    BY <2>1, <2>6
  <2> QED BY <2>4, <2>5, <2>6
<1>3. Fit(r, life'[u])
  <2>1. Fit(Detached(k[u]), "running")
    BY <1>1, DetachedFit
  <2> QED BY <1>1, <1>2, <2>1 DEF Fit
<1>4. r \in TaskRec
  BY <1>1, DetachedLike DEF Like, RecordOK
<1>5. k'[u] = IF u = "tracee" /\ NotifiesTracee(G) THEN Sent(r, ChildInfo) ELSE r
  BY DEF Die
<1>6. NotifiesTracee(G) => Creates(code, kernel)
  BY LivesDisjoint DEF NotifiesTracee, Cloned
<1>7. ChildInfo \in Info
  BY DEF ChildInfo, Info, Signal, Origin
<1> HIDE DEF r
<1> QED BY <1>3, <1>4, <1>5, <1>6, <1>7, SentFit

(* A task or a whole process ends.                                         *)
LEMMA AbortFit ==
  ASSUME TypeInv, Fitting, Cloned, NEW t \in Task,
         Abort(t) \/ ExitProcess(t) \/ ExitThread(t) \/ SignalKills(t)
  PROVE  FitAfter
<1>1. CASE ExitThread(t)
  BY <1>1, AtRuns, MembersAreTasks, DieFit DEF ExitThread, Alive
<1>2. CASE ~ExitThread(t)
  <2>1. PICK status : Die(Members(t), status)
    BY <1>2 DEF Abort, ExitProcess, SignalKills
  <2>2. Members(t) \in SUBSET Task /\ \A u \in Members(t) : life[u] \in Alive
    BY MembersAreTasks, MembersFacts
  <2> QED BY <2>1, <2>2, DieFit
<1> QED BY <1>1, <1>2

(* Ordinary code sends the signals of traps and faults. *)
LEMMA ComputesFit ==
  ASSUME TypeInv, Fitting, Cloned, NEW t \in Task, Computes(t)
  PROVE  FitAfter
<1> DEFINE r == k[t]
<1>0. r \in TaskRec /\ Fit(r, life[t])
  BY DEF TypeInv, KernelOK, Fitting
<1>1. CASE Abort(t)
  BY <1>1, AbortFit
<1>2. CASE UNCHANGED <<k, life>>
  BY <1>2, SameFit
<1>3. CASE MemoryFault(t)
  <2>1. Segfault \in Info /\ Segfault.signo \in Raisable
    BY DEF Segfault, Info, Signal, Origin, Raisable, SignalsOf
  <2> HIDE DEF r
  <2>2. Fit(Sent(r, Segfault), life[t])
    BY <1>0, <2>1, SentFit
  <2> QED BY <1>3, <2>2, OneFit DEF MemoryFault, Passive, r
<1>4. CASE CallMyFunction(t) /\ ~UNCHANGED k
  <2> DEFINE i == [signo |-> "SIGTRAP", origin |-> "TRAP_HWBKPT"]
             q == Sent(r, i)
  <2>1. /\ r.regs["dr0"] = 1 /\ k' = [k EXCEPT ![t] = [q EXCEPT !.regs["rf"] = 1]]
        /\ UNCHANGED life /\ At(t, "call")
    BY <1>4 DEF CallMyFunction, Passive
  <2>2. 1 \in ValuesOf(code, kernel, build, "dr0")
    BY <1>0, <2>1 DEF Fit, Caused
  <2>3. Does(code, "call")
    BY <2>1, AtRuns, HereInText DEF Does
  <2>4. i \in Info /\ i.signo \in Raisable
    BY <2>2, <2>3 DEF Info, Signal, Origin, Raisable, SignalsOf
  <2> HIDE DEF i, r
  <2>5. Fit(q, life[t]) /\ q \in TaskRec
    BY <1>0, <2>4, SentFit, SentLike DEF Like, RecordOK, TypeInv, KernelOK, r
  <2> HIDE DEF q
  <2>6. Fit([q EXCEPT !.regs["rf"] = 1], life[t])
    BY <2>5, FieldsFit DEF Reg
  <2> QED BY <2>1, <2>6, OneFit
<1>5. CASE Fault(t)
  <2>1. CASE At(t, "int3") /\ k' = [k EXCEPT ![t] =
                                      Sent(@, [signo |-> "SIGTRAP", origin |-> "TRAP_BRKPT"])]
    <3> DEFINE i == [signo |-> "SIGTRAP", origin |-> "TRAP_BRKPT"]
    <3>1. Does(code, "int3")
      BY <2>1, AtRuns, HereInText DEF Does
    <3>2. i \in Info /\ i.signo \in Raisable
      BY <3>1 DEF Info, Signal, Origin, Raisable, SignalsOf
    <3>3. k' = [k EXCEPT ![t] = Sent(r, i)]
      BY <2>1
    <3> HIDE DEF i, r
    <3>4. Fit(Sent(r, i), life[t])
      BY <1>0, <3>2, SentFit
    <3> QED BY <1>5, <3>3, <3>4, OneFit DEF Fault, Passive
  <2>2. CASE k' = [k EXCEPT ![t] = Sent(@, Segfault)]
    <3>1. Segfault \in Info /\ Segfault.signo \in Raisable
      BY DEF Segfault, Info, Signal, Origin, Raisable, SignalsOf
    <3> HIDE DEF r
    <3>2. Fit(Sent(r, Segfault), life[t])
      BY <1>0, <3>1, SentFit
    <3> QED BY <1>5, <2>2, <3>2, OneFit DEF Fault, Passive, r
  <2> QED BY <1>5, <2>1, <2>2 DEF Fault
<1>6. CASE HandlerReturns(t)
  <2> DEFINE v == IF "ax" \in DOMAIN Here(t) THEN Here(t).ax ELSE k[t].regs["ax"]
             p == [r EXCEPT !.mask = frame[t].mask]
             q == [p EXCEPT !.regs["ax"] = v]
  <2>1. k' = [k EXCEPT ![t] = q] /\ UNCHANGED life
    BY <1>6 DEF HandlerReturns, Passive, Restored
  <2>2. frame[t].mask \in SUBSET Signal
    BY DEF TypeInv, ControlOK
  <2> HIDE DEF r, v
  <2>3. p \in TaskRec /\ Fit(p, life[t])
    BY <1>0, <2>2, FieldsFit DEF TaskRec
  <2> HIDE DEF p
  <2>4. Fit(q, life[t])
    BY <2>3, FieldsFit DEF Reg
  <2> HIDE DEF q
  <2> QED BY <2>1, <2>4, OneFit
<1>7. AtomicStore(t) \/ Spin(t) \/ AssertShared(t) \/ AssertOwn(t) \/ SetOk(t) \/ StoreMemory(t)
        => Abort(t) \/ UNCHANGED <<k, life>>
  BY DEF AtomicStore, Spin, AssertShared, AssertOwn, SetOk, StoreMemory, Check, Passive, memory
<1>8. CallMyFunction(t) => UNCHANGED life
  BY DEF CallMyFunction, Passive
<1> QED BY <1>1, <1>2, <1>3, <1>4, <1>5, <1>6, <1>7, <1>8 DEF Computes

(* System calls about the caller, which return a value. *)
LEMMA ReturnsFit ==
  ASSUME TypeInv, Fitting, Cloned, NEW t \in Task,
         \/ Traced(t) \/ RaiseSignal(t) \/ SignalSetup(t) \/ ReadToken(t) \/ WriteToken(t)
         \/ CloseStdin(t) \/ UnmapSecondPage(t) \/ ChangeUser(t) \/ CallFails(t)
         \/ JoinThread(t) \/ PollReports(t)
  PROVE  FitAfter
<1> DEFINE r == Ret(k[t], 0)
<1>0. k[t] \in TaskRec /\ Fit(k[t], life[t])
  BY DEF TypeInv, KernelOK, Fitting
<1>1. r \in TaskRec /\ Fit(r, life[t])
  BY <1>0, RetFit, RetLike DEF Like, RecordOK, TypeInv, KernelOK
<1>2. CASE Abort(t)
  BY <1>2, AbortFit
<1>3. CASE UNCHANGED <<k, life>>
  BY <1>3, SameFit
<1>4. CASE \E v \in Nat : Returns(t, v) /\ UNCHANGED life
  <2>1. PICK v \in Nat : k' = [k EXCEPT ![t] = Ret(k[t], v)]
    BY <1>4 DEF Returns
  <2>2. Fit(Ret(k[t], v), life[t])
    BY <1>0, RetFit
  <2> QED BY <1>4, <2>1, <2>2, OneFit
<1>5. CASE Traced(t)
  <2>1. k' = [k EXCEPT ![t] = [r EXCEPT !.traced = TRUE]] /\ UNCHANGED life
    BY <1>5 DEF Traced, Passive
  <2>2. Traceable(code)
    BY <1>5, AtRuns, HereInText DEF Traced, Traceable, Does
  <2> HIDE DEF r
  <2> QED BY <1>1, <2>1, <2>2, FieldsFit, OneFit
<1>6. CASE RaiseSignal(t)
  <2> DEFINE i == [signo |-> Here(t).sig, origin |-> Here(t).origin]
  <2>1. k' = [k EXCEPT ![t] = Sent(r, i)] /\ UNCHANGED life
    BY <1>6 DEF RaiseSignal, Passive
  <2>2. at[t].pc \in DOMAIN Code(t) /\ Here(t).op = "raise"
    BY <1>6, AtRuns DEF RaiseSignal
  <2>3. i \in Info /\ i.signo \in Raisable
    BY <2>2, HereFits, HereInText DEF Info, WellFormed, Raisable, SignalsOf
  <2> HIDE DEF i, r
  <2> QED BY <1>1, <2>1, <2>3, SentFit, OneFit
<1>7. CASE SignalSetup(t)
  <2>1. /\ UNCHANGED life
        /\ \/ k' = [k EXCEPT ![t] = [r EXCEPT !.mask = Here(t).sigs]]
           \/ k' = [k EXCEPT ![t] = [r EXCEPT !.act[Here(t).sig] = Here(t).disp]]
    BY <1>7 DEF SignalSetup, Passive
  <2> HIDE DEF r
  <2>2. /\ Fit([r EXCEPT !.mask = Here(t).sigs], life[t])
        /\ Fit([r EXCEPT !.act[Here(t).sig] = Here(t).disp], life[t])
    BY <1>1, FieldsFit
  <2> QED BY <2>1, <2>2, OneFit
<1>8. CASE ChangeUser(t)
  <2> DEFINE q == [r EXCEPT !.uid = Here(t).uid]
  <2>1. k' = [k EXCEPT ![t] = q] /\ UNCHANGED life
    BY <1>8 DEF ChangeUser, Passive
  <2> HIDE DEF r
  <2>2. Fit(q, life[t])
    BY <1>1, FieldsFit
  <2> HIDE DEF q
  <2> QED BY <2>1, <2>2, OneFit
<1>9. NoSys \in Nat
  BY DEF NoSys
<1>10. (\/ ReadToken(t) \/ WriteToken(t) \/ CloseStdin(t) \/ UnmapSecondPage(t)
        \/ CallFails(t) \/ JoinThread(t))
         => Abort(t) \/ \E v \in Nat : Returns(t, v) /\ UNCHANGED life
  BY <1>9 DEF ReadToken, WriteToken, CloseStdin, UnmapSecondPage, CallFails, JoinThread, Passive
<1>11. PollReports(t) => Abort(t) \/ UNCHANGED <<k, life>>
  BY DEF PollReports, Check, memory
<1> QED BY <1>2, <1>3, <1>4, <1>5, <1>6, <1>7, <1>8, <1>10, <1>11

(* clone gives the kid the record of a child. *)
LEMMA CreateKidFit ==
  ASSUME TypeInv, Fitting, NEW t \in Task, CreateKid(t)
  PROVE  FitAfter
<1> DEFINE s     == Here(t)
           event == CloneEvent(k[t], s)
           r     == Ret(k[t], PidOf["kid"])
           p     == IF event = "none" THEN r ELSE EventStopped(r, event)
           child == Child(k[t], s)
<1>1. k[t] \in TaskRec /\ Fit(k[t], life[t]) /\ life[t] = "running" /\ t # "kid"
  BY CreateKidTypes, AtRuns DEF TypeInv, KernelOK, Fitting, CreateKid
<1>2. s \in Text(code) /\ s.op = "clone" /\ kernel # "clone_fails"
  BY AtRuns, HereInText DEF CreateKid, Quirk
<1>3. PidOf["kid"] \in Nat
  BY DEF PidOf
<1>4. /\ k' = [k EXCEPT !["kid"] = child, ![t] = p]
      /\ life' = [life EXCEPT !["kid"] = "running",
                              ![t] = IF event = "none" THEN @ ELSE "stopped"]
  BY DEF CreateKid
<1> HIDE DEF s
<1>5. r \in TaskRec /\ Fit(r, life[t])
  BY <1>1, <1>3, RetFit, RetLike DEF Like, RecordOK, TypeInv, KernelOK
<1>6. Fit(child, "running")
  BY <1>1, <1>2, ChildFit
<1>7. event # "none" => event \in EventsOf(code, kernel) /\ Leaves(code, kernel)
  BY <1>1, <1>2, CloneEventCaused
<1> HIDE DEF event, r, child
<1>8. event # "none" => Fit(p, "stopped")
  BY <1>5, <1>7, EventStoppedFit
<1>9. event = "none" => Fit(p, life[t])
  BY <1>5
<1> HIDE DEF p
<1> QED BY <1>1, <1>4, <1>6, <1>8, <1>9 DEF FitAfter, Fitting, TypeInv, KernelOK

(* execve. *)
LEMMA ExecSelfFit ==
  ASSUME TypeInv, Fitting, NEW t \in Task, ExecSelf(t)
  PROVE  FitAfter
<1> DEFINE s == Here(t)
           n == IF s.n = 0 \/ Quirk("exec_keeps_bits") THEN build ELSE s.n
           p == Ret(k[t], 0)
           q == Execed(p, n)
           r == IF s.n # 0 /\ Quirk("other_image_crashes") THEN Sent(q, Segfault) ELSE q
           u == Successor(t)
<1>1. k[t] \in TaskRec /\ RecordOK(k[t]) /\ Fit(k[t], life[t])
  BY DEF TypeInv, KernelOK, Fitting
<1>2. s \in Text(code) /\ s.op = "execve" /\ s.n \in Nat /\ kernel # "execve_fails"
  BY AtRuns, HereInText, HereFits DEF ExecSelf, WellFormed, Quirk
<1>3. build \in Nat
  BY HarnessAssumption DEF TypeInv, RestOK
<1>4. /\ k' = [k EXCEPT ![u] = r, ![t] = IF u = t THEN r ELSE NewTask]
      /\ life' = [life EXCEPT ![u] = IF r.stop = "event" THEN "stopped" ELSE "running",
                              ![t] = IF u # t THEN "gone"
                                     ELSE IF r.stop = "event" THEN "stopped" ELSE "running"]
  BY DEF ExecSelf, Successor
<1>5. n \in Nat /\ (n = build \/ (n = s.n /\ kernel # "exec_keeps_bits"))
  BY <1>2, <1>3 DEF Quirk
<1> HIDE DEF s, n
<1>6. Fit(p, life[t]) /\ p \in TaskRec /\ RecordOK(p)
  BY <1>1, RetFit, RetLike DEF Like, RecordOK
<1> HIDE DEF p
<1>7. Fit(q, "running") /\ q \in TaskRec
  BY <1>2, <1>5, <1>6, ExecedFit, ExecedOK DEF RecordOK
<1> HIDE DEF q
<1>8. Segfault \in Info /\ Segfault.signo \in Raisable
  BY DEF Segfault, Info, Signal, Origin, Raisable, SignalsOf
<1>9. Fit(r, "running")
  BY <1>7, <1>8, SentFit
<1>10. u \in Task
  BY DEF Successor, Task
<1> HIDE DEF r, u
<1>11. Fit(r, IF r.stop = "event" THEN "stopped" ELSE "running")
  BY <1>9 DEF Fit
<1>12. Fit(NewTask, "gone")
  BY NewTaskFit DEF Fit
<1> QED BY <1>4, <1>10, <1>11, <1>12 DEF FitAfter, Fitting, TypeInv, KernelOK

(* waitpid. *)
LEMMA WaitFit ==
  ASSUME TypeInv, Fitting, Cloned, NEW t \in Task, WaitReports(t) \/ WaitFails(t)
  PROVE  FitAfter
<1>1. CASE Abort(t)
  BY <1>1, AbortFit
<1>2. CASE UNCHANGED <<k, life>>
  BY <1>2, SameFit
<1>3. CASE \E u \in Task : Reportable(t, u) /\ Collect(t, u)
  <2>1. PICK u \in Task : Collect(t, u)
    BY <1>3
  <2> SUFFICES ASSUME NEW v \in Task PROVE Fit(k'[v], life'[v])
    BY DEF FitAfter
  <2>2. k[v] \in TaskRec /\ Fit(k[v], life[v])
    BY DEF TypeInv, KernelOK, Fitting
  <2>3. life'[v] = "stopped" => life[v] = "stopped"
    BY <2>1 DEF Collect, TypeInv, KernelOK
  <2>4. PassedOn(t, u) => Creates(code, kernel)
    BY DEF PassedOn, Cloned
  <2>5. \/ k'[v] = k[v]
        \/ k'[v] = [k[v] EXCEPT !.traced = FALSE]
        \/ k'[v] = [k[v] EXCEPT !.seen = TRUE]
        \/ k'[v] = Sent(k[v], ChildInfo) /\ Creates(code, kernel)
    BY <2>1, <2>4 DEF Collect
  <2>6. ChildInfo \in Info
    BY DEF ChildInfo, Info, Signal, Origin
  <2>7. Fit(k'[v], life[v])
    BY <2>2, <2>5, <2>6, FieldsFit, SentFit
  <2> QED BY <2>3, <2>7 DEF Fit
<1>4. Children(t) \subseteq Task
  BY DEF Children
<1>5. Targets(t) \subseteq Task
  BY <1>4 DEF Targets
<1>6. WaitReports(t) => Abort(t) \/ \E u \in Task : Reportable(t, u) /\ Collect(t, u)
  BY <1>5 DEF WaitReports
<1>7. WaitFails(t) => Abort(t) \/ UNCHANGED <<k, life>>
  BY DEF WaitFails, Passive
<1> QED BY <1>1, <1>2, <1>3, <1>6, <1>7

(* All system calls. *)
LEMMA CallsFit ==
  ASSUME TypeInv, Fitting, Cloned, NEW t \in Task, CallsKernel(t)
  PROVE  FitAfter
BY ReturnsFit, CreateKidFit, ExecSelfFit, WaitFit, AbortFit DEF CallsKernel

(* A request to attach. *)
LEMMA AttachFit ==
  ASSUME TypeInv, Fitting, Cloned, NEW t \in Task, PtraceAttach(t)
  PROVE  FitAfter
<1> DEFINE s == Here(t)
           b == s.op = "seize"
           i == [signo |-> "SIGSTOP", origin |-> "tracer"]
           r == [k[s.who] EXCEPT !.traced = TRUE, !.seized = b]
           q == IF b /\ ~Quirk("seize_stops") THEN r ELSE Sent(r, i)
<1>1. CASE Abort(t)
  BY <1>1, AbortFit
<1>2. CASE UNCHANGED <<k, life>>
  BY <1>2, SameFit
<1>3. CASE "ok" \in s.exp /\ k' = [k EXCEPT ![s.who] = q] /\ UNCHANGED life
  <2>1. at[t].pc \in DOMAIN Code(t) /\ s.op \in {"attach", "seize"}
    BY AtRuns DEF PtraceAttach
  <2>2. s \in Text(code) /\ s.who \in Task
    BY <2>1, HereInText, HereFits DEF WellFormed
  <2>3. Traceable(code)
    BY <1>3, <2>1, <2>2 DEF Traceable, Does
  <2>4. i \in Info /\ (~(b /\ ~Quirk("seize_stops")) => i.signo \in Raisable)
    BY <2>1, <2>2 DEF Info, Signal, Origin, Raisable, SignalsOf, Does, Quirk
  <2>5. k[s.who] \in TaskRec /\ RecordOK(k[s.who]) /\ Fit(k[s.who], life[s.who]) /\ b \in BOOLEAN
    BY <2>2 DEF TypeInv, KernelOK, Fitting
  <2> DEFINE u == s.who  ok == b /\ ~Quirk("seize_stops")
  <2>6. k' = [k EXCEPT ![u] = q] /\ u \in Task
    BY <1>3, <2>2
  <2> HIDE DEF s, b, i
  <2>7. Fit(r, life[u]) /\ r \in TaskRec
    BY <2>3, <2>5, FieldsFit, AttachedLike DEF Like, RecordOK
  <2> HIDE DEF r
  <2>8. Fit(q, life[u])
    BY <2>4, <2>7, SentFit DEF ok
  <2> HIDE DEF q, u
  <2> QED BY <1>3, <2>6, <2>8, OneFit
<1>4. Abort(t) \/ UNCHANGED <<k, life>>
      \/ ("ok" \in s.exp /\ k' = [k EXCEPT ![s.who] = q] /\ UNCHANGED life)
  BY DEF PtraceAttach, Check, Passive
<1> QED BY <1>1, <1>2, <1>3, <1>4

(* All requests, and the signals the tracer sends. *)
LEMMA PtracesFit ==
  ASSUME TypeInv, Fitting, Cloned, NEW t \in Task, Ptraces(t)
  PROVE  FitAfter
<1> DEFINE s == Here(t)
           u == Subject(t)
<1>1. CASE Abort(t)
  BY <1>1, AbortFit
<1>2. CASE UNCHANGED <<k, life>>
  BY <1>2, SameFit
<1>3. CASE PtraceUpdate(t)
  <2>1. at[t].pc \in DOMAIN Code(t) /\ s.op \in UpdateOps
    BY <1>3, AtRuns DEF PtraceUpdate, Accepted
  <2>2. s \in Text(code) /\ WellFormed(s) /\ u \in Task
    BY <2>1, HereInText, HereFits, SubjectIsTask
  <2>3. k' = [k EXCEPT ![u] = Updated(k[u], s)] /\ UNCHANGED life
    BY <1>3 DEF PtraceUpdate, Passive
  <2> HIDE DEF s, u
  <2>4. k[u] \in TaskRec /\ Fit(k[u], life[u])
    BY <2>2 DEF TypeInv, KernelOK, Fitting
  <2>5. Fit(Updated(k[u], s), life[u])
    BY <2>1, <2>2, <2>4, UpdatedFit
  <2> QED BY <2>2, <2>3, <2>5, OneFit
<1>4. CASE PtraceResume(t) /\ ~Abort(t)
  <2>1. at[t].pc \in DOMAIN Code(t) /\ s.op = "resume"
    BY <1>4, AtRuns DEF PtraceResume, Accepted
  <2>2. s \in Text(code) /\ WellFormed(s) /\ u \in Task
    BY <2>1, HereInText, HereFits, SubjectIsTask
  <2>3. /\ k' = [k EXCEPT ![u] = Resumed(k[u], s.mode, s.sig)]
        /\ life' = [life EXCEPT ![u] = "running"] /\ "ok" \in s.exp
    BY <1>4 DEF PtraceResume
  <2> HIDE DEF s, u
  <2>4. RecordOK(k[u]) /\ Fit(k[u], life[u])
    BY <2>2 DEF TypeInv, KernelOK, Fitting
  <2>5. s.mode \in Mode /\ s.sig \in Signal \cup {NoSig}
    BY <2>1, <2>2, <2>3 DEF WellFormed
  <2>6. Fit(Resumed(k[u], s.mode, s.sig), "running")
    BY <2>1, <2>2, <2>3, <2>4, <2>5, ResumedFit
  <2> QED BY <2>2, <2>3, <2>6, MovedFit
<1>5. CASE PtraceInterrupt(t)
  <2>1. at[t].pc \in DOMAIN Code(t) /\ s.op = "interrupt"
    BY <1>5, AtRuns DEF PtraceInterrupt
  <2>2. s \in Text(code) /\ s.who \in Task
    BY <2>1, HereInText, HereFits DEF WellFormed
  <2> DEFINE p == IF life[s.who] = "running" /\ ~Quirk("ignores_interrupt")
                  THEN "interrupt" ELSE k[s.who].trap
             q == [k[s.who] EXCEPT !.trap = p]
  <2>3. Abort(t) \/ (k' = [k EXCEPT ![s.who] = q] /\ UNCHANGED life)
    BY <1>5 DEF PtraceInterrupt, Passive
  <2>4. k[s.who] \in TaskRec /\ Fit(k[s.who], life[s.who])
    BY <2>2 DEF TypeInv, KernelOK, Fitting
  <2>5. ~Quirk("ignores_interrupt") => "STOP" \in EventsOf(code, kernel)
    BY <2>1, <2>2 DEF EventsOf, Event, Does, Quirk
  <2>6. (p = "interrupt" /\ "STOP" \in EventsOf(code, kernel)) \/ p = k[s.who].trap
    BY <2>5
  <2> HIDE DEF s, p
  <2>7. Fit(q, life[s.who])
    <3>1. CASE p = "interrupt" /\ "STOP" \in EventsOf(code, kernel)
      BY <2>4, <3>1, FieldsFit
    <3>2. CASE p = k[s.who].trap
      BY <2>4, <3>2 DEF TaskRec
    <3> QED BY <2>6, <3>1, <3>2
  <2> HIDE DEF q
  <2> QED BY <1>1, <2>2, <2>3, <2>7, OneFit
<1>6. CASE SendSignal(t)
  <2> DEFINE i == [signo |-> s.sig, origin |-> "tracer"]
             q == Sent(k[s.who], i)
  <2>1. at[t].pc \in DOMAIN Code(t) /\ s.op = "tgkill"
    BY <1>6, AtRuns DEF SendSignal
  <2>2. s \in Text(code) /\ s.who \in Task /\ s.sig \in Signal
    BY <2>1, HereInText, HereFits DEF WellFormed
  <2>3. i \in Info /\ i.signo \in Raisable
    BY <2>1, <2>2 DEF Info, Origin, Raisable, SignalsOf
  <2>4. Abort(t) \/ UNCHANGED <<k, life>> \/ (k' = [k EXCEPT ![s.who] = q] /\ UNCHANGED life)
    BY <1>6 DEF SendSignal, Passive
  <2>5. k[s.who] \in TaskRec /\ Fit(k[s.who], life[s.who])
    BY <2>2 DEF TypeInv, KernelOK, Fitting
  <2> HIDE DEF s, i
  <2>6. Fit(q, life[s.who])
    BY <2>3, <2>5, SentFit
  <2> HIDE DEF q
  <2> QED BY <1>1, <1>2, <2>2, <2>4, <2>6, OneFit
<1>7. Query(t) \/ Refused(t) \/ PtracePoke(t) => Abort(t) \/ UNCHANGED <<k, life>>
  BY DEF Query, Refused, PtracePoke, Check, Passive
<1> QED BY <1>1, <1>2, <1>3, <1>4, <1>5, <1>6, <1>7, AttachFit DEF Ptraces

(* A signal that is taken or due has a cause. *)
LEMMA SignalCaused ==
  ASSUME NEW r \in TaskRec, NEW l, Fit(r, l), NEW i \in Info, i \in r.pend \cup {r.due}
  PROVE  i.signo \in Raisable
BY DEF Fit, Caused, Info, Signal, NoSig, Raisable

(* The kernel takes a pending signal.                                      *)
LEMMA TakeSignalFit ==
  ASSUME TypeInv, Fitting, NEW t \in Task, TakeSignal(t)
  PROVE  FitAfter
<1> DEFINE r(i) == [k[t] EXCEPT !.pend = @ \ {i}]
<1>1. k[t] \in TaskRec /\ Fit(k[t], life[t])
  BY DEF TypeInv, KernelOK, Fitting
<1>2. PICK i \in Deliverable(k[t]) :
         \/ EntersStop(t, [Stop(r(i), "signal") EXCEPT !.info = i])
         \/ k' = [k EXCEPT ![t] = [r(i) EXCEPT !.due = i]] /\ UNCHANGED life
  BY DEF TakeSignal, Passive
<1> DEFINE q == r(i)
<1>3. i \in k[t].pend /\ i \in Info
  BY <1>1 DEF Deliverable, TaskRec
<1>4. i.signo \in Raisable
  BY <1>1, <1>3, SignalCaused
<1>5. Fit(q, life[t]) /\ q \in TaskRec
  BY <1>1, FieldsFit DEF TaskRec
<1> HIDE DEF r
<1>6. \/ EntersStop(t, [Stop(q, "signal") EXCEPT !.info = i])
      \/ k' = [k EXCEPT ![t] = [q EXCEPT !.due = i]] /\ UNCHANGED life
  BY <1>2
<1> HIDE DEF q
<1> DEFINE p == [Stop(q, "signal") EXCEPT !.info = i]
           d == [q EXCEPT !.due = i]
<1>7. Fit(p, "stopped")
  BY <1>3, <1>4, <1>5, StopFit DEF StopKind
<1>8. Fit(d, life[t])
  BY <1>3, <1>4, <1>5, FieldsFit
<1>9. \/ k' = [k EXCEPT ![t] = p] /\ life' = [life EXCEPT ![t] = "stopped"]
      \/ k' = [k EXCEPT ![t] = d] /\ UNCHANGED life
  BY <1>6 DEF EntersStop
<1> HIDE DEF p, d
<1> QED BY <1>7, <1>8, <1>9, OneFit, MovedFit

(* The kernel delivers a signal without effect.                            *)
LEMMA SignalSpentFit ==
  ASSUME TypeInv, Fitting, NEW t \in Task, SignalSpent(t)
  PROVE  FitAfter
<1> DEFINE i == k[t].due  c == Consumed(t)
<1>1. k[t] \in TaskRec /\ Fit(k[t], life[t])
  BY DEF TypeInv, KernelOK, Fitting
<1>2. i \in Info /\ i.signo \in Raisable
  BY <1>1, SignalCaused DEF SignalSpent, Due, TaskRec
<1>3. c \in TaskRec /\ Fit(c, life[t])
  BY <1>1, FieldsFit DEF Consumed, TaskRec
<1> HIDE DEF c
<1>4. Fit([c EXCEPT !.pend = @ \cup {i}], life[t])
  BY <1>2, <1>3, FieldsFit
<1>5. UNCHANGED life
  BY DEF SignalSpent, Passive
<1>6. CASE k' = [k EXCEPT ![t] = [c EXCEPT !.pend = @ \cup {i}]]
  <2> DEFINE q == [c EXCEPT !.pend = @ \cup {i}]
  <2>1. Fit(q, life[t]) /\ k' = [k EXCEPT ![t] = q]
    BY <1>4, <1>6
  <2> HIDE DEF q
  <2> QED BY <1>5, <2>1, OneFit
<1>7. CASE k' = [k EXCEPT ![t] = c]
  BY <1>3, <1>5, <1>7, OneFit
<1>8. CASE /\ i.signo \in DefaultStop
           /\ k' = [u \in Task |->
                     LET r == IF u = t THEN c ELSE k[u]
                     IN  IF u \in Members(t) /\ life[u] # "jobstop"
                            /\ ~Quirk("skips_group_stop")
                         THEN [r EXCEPT !.trap = "group"] ELSE r]
  <2>1. ~Quirk("skips_group_stop") => Groups(code, kernel, build)
    BY <1>2, <1>8 DEF Groups, DefaultStop, Quirk, Raisable
  <2> SUFFICES ASSUME NEW u \in Task PROVE Fit(k'[u], life[u])
    BY <1>5 DEF FitAfter
  <2> DEFINE r == IF u = t THEN c ELSE k[u]
  <2>2. r \in TaskRec /\ Fit(r, life[u])
    BY <1>3 DEF TypeInv, KernelOK, Fitting
  <2>3. k'[u] = r \/ (k'[u] = [r EXCEPT !.trap = "group"] /\ ~Quirk("skips_group_stop"))
    BY <1>8
  <2> HIDE DEF r
  <2>4. ~Quirk("skips_group_stop") => Fit([r EXCEPT !.trap = "group"], life[u])
    BY <2>1, <2>2, FieldsFit
  <2> QED BY <2>2, <2>3, <2>4
<1> QED BY <1>6, <1>7, <1>8 DEF SignalSpent, c

(* The kernel delivers a signal to a handler.                              *)
LEMMA SignalHandledFit ==
  ASSUME TypeInv, Fitting, NEW t \in Task, SignalHandled(t)
  PROVE  FitAfter
<1> DEFINE c == Consumed(t)
           r == [c EXCEPT !.mask = IF Quirk("handler_unmasked") THEN @
                                   ELSE @ \cup {k[t].due.signo}]
           p == Stop(r, "notify")
<1>1. k[t] \in TaskRec /\ Fit(k[t], life[t])
  BY DEF TypeInv, KernelOK, Fitting
<1>2. \/ /\ k' = [k EXCEPT ![t] = p] /\ k[t].mode = "step"
         /\ life' = [life EXCEPT ![t] = "stopped"]
      \/ k' = [k EXCEPT ![t] = r] /\ life' = [life EXCEPT ![t] = life[t]]
  BY DEF SignalHandled
<1>3. k[t].due \in Info
  BY <1>1 DEF SignalHandled, Due, TaskRec
<1>4. c \in TaskRec /\ Fit(c, life[t])
  BY <1>1, FieldsFit DEF Consumed, TaskRec
<1> HIDE DEF c
<1>5. r \in TaskRec /\ Fit(r, life[t])
  BY <1>3, <1>4, FieldsFit DEF TaskRec, Info
<1> HIDE DEF r
<1>6. k[t].mode = "step" => Steps(code, kernel)
  BY <1>1 DEF Fit, Caused
<1>7. k[t].mode = "step" => Fit(p, "stopped")
  BY <1>5, <1>6, StopFit DEF StopKind
<1> HIDE DEF p
<1> QED BY <1>2, <1>5, <1>7, MovedFit

(* A task enters a group-stop or the stop of PTRACE_INTERRUPT.             *)
LEMMA EnterTrapFit ==
  ASSUME TypeInv, Fitting, NEW t \in Task, EnterTrap(t)
  PROVE  FitAfter
<1> DEFINE r == [k[t] EXCEPT !.trap = "none"]
           g == Stop(r, "group")
           e == [Stop(r, "event") EXCEPT !.event = "STOP"]
<1>1. k[t] \in TaskRec /\ Fit(k[t], life[t])
  BY DEF TypeInv, KernelOK, Fitting
<1>2. \/ /\ k[t].trap = "group" /\ k' = [k EXCEPT ![t] = g]
         /\ life' = [life EXCEPT ![t] = "stopped"]
      \/ k' = [k EXCEPT ![t] = r] /\ life' = [life EXCEPT ![t] = "jobstop"]
      \/ /\ k[t].trap = "interrupt" /\ k' = [k EXCEPT ![t] = e]
         /\ life' = [life EXCEPT ![t] = "stopped"]
  BY DEF EnterTrap, EntersStop
<1>3. r \in TaskRec /\ Fit(r, life[t])
  BY <1>1, FieldsFit DEF TaskRec
<1>4. /\ k[t].trap = "group" => Groups(code, kernel, build)
      /\ k[t].trap = "interrupt" => "STOP" \in EventsOf(code, kernel)
  BY <1>1 DEF Fit, Caused
<1> HIDE DEF r
<1>5. Fit(r, "jobstop")
  BY <1>3 DEF Fit
<1>6. k[t].trap = "group" => Fit(g, "stopped")
  BY <1>3, <1>4, StopFit DEF StopKind
<1>7. k[t].trap = "interrupt" => Fit(e, "stopped")
  BY <1>3, <1>4, EventFit
<1> HIDE DEF g, e
<1> QED BY <1>2, <1>5, <1>6, <1>7, MovedFit

(* The stops at a system call and at a step. *)
LEMMA SyscallFit ==
  ASSUME TypeInv, Fitting, NEW t \in Task, SyscallEntry(t) \/ SyscallExit(t) \/ StepTrap(t)
  PROVE  FitAfter
<1>1. k[t] \in TaskRec /\ Fit(k[t], life[t])
  BY DEF TypeInv, KernelOK, Fitting
<1>2. CASE SyscallEntry(t)
  <2> DEFINE p == [Stop(k[t], "entry") EXCEPT !.phase = "entered"]
             q == [p EXCEPT !.regs["ax"] = NoSys]
  <2>1. k' = [k EXCEPT ![t] = q] /\ life' = [life EXCEPT ![t] = "stopped"]
    BY <1>2 DEF SyscallEntry, EntersStop
  <2>2. Enters(code)
    BY <1>1, <1>2 DEF SyscallEntry, Fit, Caused
  <2>3. p \in TaskRec
    BY <1>1 DEF StopKind, Stop, TaskRec, Mode
  <2>4. Fit(p, "stopped")
    BY <1>1, <2>2, StopFit DEF StopKind
  <2> HIDE DEF p
  <2>5. Fit(q, "stopped")
    BY <2>3, <2>4, FieldsFit DEF Reg
  <2> HIDE DEF q
  <2> QED BY <2>1, <2>5, MovedFit
<1>3. CASE SyscallExit(t)
  <2> DEFINE p == [Stop(k[t], "exit") EXCEPT !.phase = "user"]
  <2>1. k' = [k EXCEPT ![t] = p] /\ life' = [life EXCEPT ![t] = "stopped"]
    BY <1>3 DEF SyscallExit, EntersStop
  <2>2. Leaves(code, kernel)
    BY <1>1, <1>3 DEF SyscallExit, Fit, Caused
  <2>3. Fit(p, "stopped")
    BY <1>1, <2>2, StopFit DEF StopKind
  <2> HIDE DEF p
  <2> QED BY <2>1, <2>3, MovedFit
<1>4. CASE StepTrap(t)
  <2> DEFINE i == [signo |-> "SIGTRAP", origin |-> "TRAP_TRACE"]
             p == Sent(k[t], i)
             q == [p EXCEPT !.mode = "cont"]
  <2>1. k' = [k EXCEPT ![t] = q] /\ UNCHANGED life
    BY <1>4 DEF StepTrap, Passive
  <2>2. Steps(code, kernel)
    BY <1>1, <1>4 DEF StepTrap, Fit, Caused
  <2>3. i \in Info /\ i.signo \in Raisable
    BY <2>2 DEF Info, Signal, Origin, Raisable, SignalsOf
  <2> HIDE DEF i
  <2>4. p \in TaskRec /\ Fit(p, life[t])
    BY <1>1, <2>3, SentFit, SentLike DEF Like, RecordOK, TypeInv, KernelOK
  <2> HIDE DEF p
  <2>5. Fit(q, life[t])
    BY <2>4 DEF Fit, Caused, TaskRec
  <2> HIDE DEF q
  <2> QED BY <2>1, <2>5, OneFit
<1> QED BY <1>2, <1>3, <1>4

(* All steps of a task together. *)
LEMMA RunsFit ==
  ASSUME TypeInv, Fitting, Cloned, NEW t \in Task, Runs(t)
  PROVE  FitAfter
<1>1. CASE SignalKills(t)
  BY <1>1, AbortFit
<1> QED BY <1>1, ComputesFit, CallsFit, PtracesFit, TakeSignalFit, SignalSpentFit,
           SignalHandledFit, EnterTrapFit, SyscallFit DEF Runs, KernelActs

-----------------------------------------------------------------------------
(* The invariant: nothing happens without a cause.                          *)

(* Only the tracer executes its function, and whoever else has exited has   *)
(* an exit status that the program explains.                               *)
Elsewhere == \A u \in Task \ {"tracer"} : at[u].fn # "tracer" /\ frame[u].fn # "tracer"

Endings == ExitsOf(code, kernel, build)

EndsExplained == \A u \in Task \ {"tracer"} : exit[u] \in Endings \cup {NoStatus}

(* Without memfd there is no tracee, without mmap there is no mapping.      *)
Unfounded ==
  /\ kernel = "no_memfd" => life["tracee"] = "absent"
  /\ kernel = "mmap_fails" => \A b \in Addr : mem[b] = Unmapped

Explained == Fitting /\ Cloned /\ Elsewhere /\ EndsExplained /\ Unfounded

(* A handler and the new program of execve are not the tracer's.            *)
LEMMA ElsewhereKept ==
  ASSUME TypeInv, Elsewhere, NEW t \in Task, Runs(t)
  PROVE  Elsewhere'
<1>0. /\ at[t].fn \in Fn /\ at \in [Task -> [fn : Fn, pc : Nat]]
      /\ frame \in [Task -> [fn : Fn, pc : Nat, mask : SUBSET Signal, info : Info \cup {NoInfo}]]
  BY DEF TypeInv, ControlOK
<1>1. UNCHANGED <<at, frame>> => Elsewhere'
  BY DEF Elsewhere
<1>2. Proceed(t) => Elsewhere'
  BY <1>0 DEF Elsewhere, Proceed, Goto
<1>3. CASE Quiet(t)
  BY <1>0, <1>3 DEF Quiet, Elsewhere
<1>4. CASE Abort(t) \/ ExitProcess(t) \/ ExitThread(t) \/ SignalKills(t)
  BY <1>1, <1>4 DEF Abort, ExitProcess, ExitThread, SignalKills, control
<1>5. CASE HandlerReturns(t)
  <2>1. /\ at' = [at EXCEPT ![t] = [fn |-> frame[t].fn, pc |-> frame[t].pc]]
        /\ frame' = [frame EXCEPT ![t] = NoFrame]
    BY <1>5 DEF HandlerReturns
  <2>2. NoFrame.fn # "tracer"
    BY DEF NoFrame
  <2> QED BY <1>0, <2>1, <2>2 DEF Elsewhere
<1>6. CASE SignalHandled(t)
  <2>1. PICK q : /\ q.fn = at[t].fn
                 /\ frame' = [frame EXCEPT ![t] = q]
                 /\ at' = [at EXCEPT ![t] = [fn |-> "handler", pc |-> 1]]
    BY <1>6 DEF SignalHandled
  <2> QED BY <1>0, <2>1 DEF Elsewhere
<1>7. CASE SignalSetup(t)
  BY <1>2, <1>7 DEF SignalSetup
<1>8. CASE CreateKid(t)
  BY <1>0, <1>8 DEF CreateKid, Elsewhere
<1>9. CASE ExecSelf(t)
  BY <1>0, <1>9 DEF ExecSelf, Elsewhere, NoFrame
<1>10. CASE (WaitReports(t) \/ WaitFails(t)) /\ ~Abort(t)
  BY <1>2, <1>10, WaitTypes
<1>11. CASE Computes(t)
  BY <1>3, <1>4, <1>5, <1>11, ComputesSteps
<1>12. CASE CallsKernel(t)
  BY <1>3, <1>4, <1>7, <1>8, <1>9, <1>10, <1>12, CallsQuietly DEF CallsKernel
<1>13. CASE Ptraces(t)
  BY <1>3, <1>4, <1>13, PtracesSteps
<1>14. CASE KernelActs(t)
  BY <1>3, <1>4, <1>6, <1>14, KernelActsSteps
<1> QED BY <1>11, <1>12, <1>13, <1>14 DEF Runs

(* Exit statuses are those of statements, of POKEUSER and of signals.       *)
LEMMA EndsKeptExplained ==
  ASSUME TypeInv, Fitting, Elsewhere, EndsExplained, NEW t \in Task, Runs(t)
  PROVE  \A u \in Task \ {"tracer"} : exit'[u] \in Endings \cup {NoStatus}
<1>1. \A t2 \in Task : k[t2] \in TaskRec /\ Fit(k[t2], life[t2])
  BY DEF TypeInv, KernelOK, Fitting
<1>2. CASE UNCHANGED exit
  BY <1>2 DEF EndsExplained
<1>3. ASSUME NEW G, NEW status, Die(G, status), \A u \in G \ {"tracer"} : status \in Endings
      PROVE  \A u \in Task \ {"tracer"} : exit'[u] \in Endings \cup {NoStatus}
  BY <1>3 DEF Die, EndsExplained
<1>4. Exited(1) \in Endings
  BY DEF Endings, ExitsOf
<1>5. CASE Abort(t)
  BY <1>3, <1>4, <1>5 DEF Abort
<1>6. CASE ExitProcess(t)
  <2> DEFINE n == IF k[t].regs["arg"] = OwnArg THEN Here(t).n ELSE k[t].regs["arg"]
  <2>1. Die(Members(t), Exited(n))
    BY <1>6 DEF ExitProcess
  <2>2. t = "tracer" => Members(t) \subseteq {"tracer"}
    BY DEF Members, Process
  <2>3. ASSUME t # "tracer" PROVE Exited(n) \in Endings
    <3>1. CASE k[t].regs["arg"] = OwnArg
      <4>1. /\ at[t].pc \in DOMAIN code[at[t].fn] /\ n = code[at[t].fn][at[t].pc].n
            /\ code[at[t].fn][at[t].pc].op = "exit_group"
        BY <1>6, <3>1, AtRuns DEF ExitProcess, Here, Code
      <4>2. at[t].fn \in Fn \ {"tracer"}
        BY <2>3 DEF Elsewhere, TypeInv, ControlOK
      <4> DEFINE Own(f) == {Exited(code[f][i].n) :
                              i \in {i \in DOMAIN code[f] : code[f][i].op = "exit_group"}}
      <4> HIDE DEF n
      <4>3. Exited(n) \in Own(at[t].fn)
        BY <4>1
      <4>4. UNION {Own(f) : f \in Fn \ {"tracer"}} \subseteq Endings
        BY Zenon DEF Endings, ExitsOf
      <4> QED BY <4>2, <4>3, <4>4
    <3>2. CASE k[t].regs["arg"] # OwnArg
      <4>1. n \in ValuesOf(code, kernel, build, "arg") \ {OwnArg}
        BY <1>1, <3>2 DEF Fit, Caused
      <4> HIDE DEF n
      <4> QED BY <4>1 DEF Endings, ExitsOf
    <3> QED BY <3>1, <3>2
  <2> HIDE DEF n
  <2> QED BY <1>3, <2>1, <2>2, <2>3
<1>7. CASE ExitThread(t)
  <2>1. Does(code, "exit")
    BY <1>7, AtRuns, HereInText DEF ExitThread, Does
  <2>2. Exited(0) \in Endings
    BY <2>1 DEF Endings, ExitsOf
  <2> QED BY <1>3, <1>7, <2>2 DEF ExitThread
<1>8. CASE SignalKills(t)
  <2>1. k[t].due \in Info /\ kernel # "survives_default"
    BY <1>1, <1>8 DEF SignalKills, Due, TaskRec, Quirk
  <2>2. k[t].due.signo \in Raisable
    BY <1>1, <2>1, SignalCaused
  <2>3. {Signaled(g) : g \in Raisable} \subseteq Endings
    <3> SUFFICES ASSUME NEW g \in Raisable PROVE Signaled(g) \in Endings
      OBVIOUS
    <3>1. Signaled(g) \in {Signaled(h) : h \in SignalsOf(code, kernel, build)}
      BY DEF Raisable
    <3> QED BY <2>1, <3>1 DEF Endings, ExitsOf
  <2> QED BY <1>3, <1>8, <2>2, <2>3 DEF SignalKills
<1>9. Computes(t) => Abort(t) \/ UNCHANGED exit
  BY DEF Computes, AtomicStore, Spin, AssertShared, AssertOwn, SetOk, MemoryFault, StoreMemory,
         CallMyFunction, Fault, HandlerReturns, Passive, Check
<1>10. CallsKernel(t) => Abort(t) \/ ExitProcess(t) \/ ExitThread(t) \/ UNCHANGED exit
  BY DEF CallsKernel, Traced, RaiseSignal, SignalSetup, ReadToken, WriteToken, CloseStdin,
         UnmapSecondPage, ChangeUser, CreateKid, ExecSelf, CallFails, JoinThread, WaitReports,
         WaitFails, PollReports, Passive, Check
<1>11. Ptraces(t) => Abort(t) \/ UNCHANGED exit
  BY DEF Ptraces, Query, Refused, PtraceUpdate, PtracePoke, PtraceResume, PtraceAttach,
         PtraceInterrupt, SendSignal, Passive, Check
<1>12. KernelActs(t) => SignalKills(t) \/ UNCHANGED exit
  BY DEF KernelActs, TakeSignal, SignalSpent, SignalHandled, EnterTrap, EntersStop, SyscallEntry,
         SyscallExit, StepTrap, Passive
<1> QED BY <1>2, <1>5, <1>6, <1>7, <1>8, <1>9, <1>10, <1>11, <1>12 DEF Runs

(* Where there is no mapping nothing puts one. *)
LEMMA UnmappedStays ==
  ASSUME TypeInv, NEW t \in Task, Runs(t),
         kernel = "mmap_fails", \A b \in Addr : mem[b] = Unmapped
  PROVE  \A b \in Addr : mem'[b] = Unmapped
<1> DEFINE Kept == \A b \in Addr : mem'[b] = Unmapped
<1>1. UNCHANGED mem => Kept
  OBVIOUS
<1>2. ASSUME NEW a \in Nat, NEW n \in Nat \ {0} PROVE ~Mapped(a, n)
  <2>1. a \in a .. (a + n - 1)
    BY <1>2
  <2> QED BY <2>1 DEF Mapped
<1>3. CASE StoreMemory(t)
  <2> DEFINE s == Here(t)
  <2>1. at[t].pc \in DOMAIN Code(t) /\ s.op = "store_bytes"
    BY <1>3, AtRuns DEF StoreMemory
  <2>2. s.addr \in Nat /\ Len(s.bytes) \in Nat
    BY <2>1, HereFits DEF WellFormed
  <2>3. Mapped(s.addr, Len(s.bytes)) /\ mem' = Written(s.addr, s.bytes, Len(s.bytes))
    BY <1>3 DEF StoreMemory
  <2> HIDE DEF s
  <2>4. Len(s.bytes) = 0
    BY <1>2, <2>2, <2>3
  <2>5. s.addr .. (s.addr + Len(s.bytes) - 1) = {}
    BY <2>2, <2>4
  <2> QED BY <2>3, <2>5 DEF Written
<1>4. CASE UnmapSecondPage(t)
  BY <1>4 DEF UnmapSecondPage, Abort, memory
<1>5. CASE PtracePoke(t)
  <2> DEFINE s == Here(t)
  <2>1. at[t].pc \in DOMAIN Code(t) /\ s.op = "poke" /\ Result(t) = "ok"
    BY <1>5, AtRuns DEF PtracePoke, Accepted
  <2>2. s.addr \in Nat
    BY <2>1, HereFits DEF WellFormed
  <2>3. Readable(s.addr)
    BY <2>1 DEF Result
  <2>4. Mapped(s.addr, WordBytes)
    BY <2>3 DEF Readable, Quirk
  <2>5. WordBytes \in Nat \ {0}
    BY WordBytesFit DEF TypeInv
  <2> QED BY <1>2, <2>2, <2>4, <2>5
<1>6. CASE ExecSelf(t)
  BY <1>6 DEF ExecSelf, Remapped, Quirk
<1>7. Computes(t) => StoreMemory(t) \/ UNCHANGED mem
  BY DEF Computes, AtomicStore, Spin, AssertShared, AssertOwn, SetOk, MemoryFault,
         CallMyFunction, Fault, HandlerReturns, Check, Abort, memory
<1>8. CallsKernel(t) => UnmapSecondPage(t) \/ ExecSelf(t) \/ UNCHANGED mem
  BY DEF CallsKernel, Traced, RaiseSignal, SignalSetup, ReadToken, WriteToken, CloseStdin,
         ChangeUser, CreateKid, CallFails, ExitProcess, ExitThread, JoinThread, WaitReports,
         WaitFails, PollReports, Check, Abort, memory
<1>9. Ptraces(t) => PtracePoke(t) \/ UNCHANGED mem
  BY DEF Ptraces, Query, Refused, PtraceUpdate, PtraceResume, PtraceAttach, PtraceInterrupt,
         SendSignal, Check, Abort, memory
<1>10. KernelActs(t) => UNCHANGED mem
  BY DEF KernelActs, TakeSignal, SignalSpent, SignalKills, SignalHandled, EnterTrap, EntersStop,
         SyscallEntry, SyscallExit, StepTrap, memory
<1> QED BY <1>1, <1>3, <1>4, <1>5, <1>6, <1>7, <1>8, <1>9, <1>10 DEF Runs

(* The kid comes from a clone. *)
LEMMA ClonedKept ==
  ASSUME TypeInv, TypeInv', Honest, Contained(code), Cloned, NEW t \in Task, Runs(t)
  PROVE  life'["kid"] # "absent" => Creates(code, kernel)
<1>1. CASE CreateKid(t)
  BY <1>1, AtRuns, HereInText DEF CreateKid, Creates, Does, Quirk
<1>2. CASE ExecSelf(t)
  <2>1. life["kid"] = "absent" => "kid" \notin {t, Successor(t)}
    BY <1>2, RunsRunning DEF Successor
  <2> QED BY <1>2, <2>1, ExecSelfTypes DEF Cloned, Task
<1>3. CASE ~CreateKid(t) /\ ~ExecSelf(t) /\ ~HandlerReturns(t) /\ ~SignalHandled(t)
  BY <1>3, RunsAlike DEF Cloned, Task
<1>4. CASE HandlerReturns(t)
  BY <1>4 DEF HandlerReturns, Passive, Cloned
<1>5. CASE SignalHandled(t)
  <2>1. life["kid"] = "absent" => t # "kid"
    BY RunsRunning
  <2> QED BY <1>5, <2>1 DEF SignalHandled, Cloned
<1> QED BY <1>1, <1>2, <1>3, <1>4, <1>5

(* Every step of a task, of a contained test, is explained. *)
LEMMA RunsExplained ==
  ASSUME TypeInv, TypeInv', Honest, Contained(code), Explained, NEW t \in Task, Runs(t),
         UNCHANGED static
  PROVE  Explained'
<1>1. code' = code /\ kernel' = kernel /\ build' = build
  BY DEF static
<1>2. Fitting'
  <2>1. FitAfter
    BY RunsFit DEF Explained
  <2> QED BY <1>1, <2>1 DEF FitAfter, Fitting, Fit
<1>3. Cloned'
  BY <1>1, ClonedKept DEF Cloned, Explained
<1>4. Elsewhere'
  BY ElsewhereKept DEF Explained
<1>5. EndsExplained'
  BY <1>1, EndsKeptExplained DEF EndsExplained, Endings, Explained
<1>6. life["tracee"] = "absent" => life'["tracee"] = "absent"
  <2>1. life \in [Task -> Life] /\ life' \in [Task -> Life]
    BY DEF TypeInv, KernelOK
  <2> QED BY <2>1, RunsEnd, LivesDisjoint DEF Ages, Task
<1>7. Unfounded'
  BY <1>1, <1>6, UnmappedStays DEF Unfounded, Explained, Addr
<1> QED BY <1>2, <1>3, <1>4, <1>5, <1>7 DEF Explained

(* TEST_MAIN, up to fork() and its failure.                                *)
LEMMA TestMainExplained ==
  ASSUME TypeInv, TypeInv', Explained, TestMain, UNCHANGED static
  PROVE  Explained'
<1>1. code' = code /\ kernel' = kernel /\ build' = build
  BY DEF static
<1>2. life["tracer"] = "running"
  BY DEF TestMain, TestMainSetupFails, TestMainForks, TestMainForkFails
<1>3. CASE TestMainSetupFails
  <2>1. Abort("tracer") /\ "tracer" \in Task
    BY <1>3 DEF TestMainSetupFails, Task
  <2>2. FitAfter
    BY <2>1, AbortFit DEF Explained
  <2>3. /\ Exited(1) \in Status /\ Members("tracer") \in SUBSET Task
        /\ Members("tracer") \subseteq {"tracer"}
    BY MembersAreTasks DEF Exited, NoStatus, Status, NoSig, Task, Members, Process
  <2>4. \A u \in Task \ {"tracer"} : Ages(life[u], life'[u]) /\ exit'[u] = exit[u]
    BY <2>1, <2>3, DieEnds DEF Abort, TypeInv
  <2>5. UNCHANGED <<at, frame, mem>>
    BY <2>1 DEF Abort, control, memory
  <2>6. Fitting'
    BY <1>1, <2>2 DEF FitAfter, Fitting, Fit
  <2>7. Cloned'
    BY <1>1, <2>4 DEF Cloned, Explained, Ages, Task
  <2>8. Elsewhere' /\ EndsExplained'
    BY <1>1, <2>4, <2>5 DEF Elsewhere, EndsExplained, Endings, Explained
  <2>9. Unfounded'
    BY <1>1, <2>4, <2>5 DEF Unfounded, Explained, Addr, Ages, Task
  <2> QED BY <2>6, <2>7, <2>8, <2>9 DEF Explained
<1>4. CASE TestMainForks \/ TestMainForkFails
  <2>1. /\ UNCHANGED <<k, exit, mem, frame>>
        /\ at' = [at EXCEPT !["tracer"].pc = 1]
        /\ kernel # "no_memfd"
        /\ \/ UNCHANGED life
           \/ life' = [life EXCEPT !["tracee"] = "running"]
    BY <1>4 DEF TestMainForks, TestMainForkFails, Goto, memory, Quirk
  <2>2. life \in [Task -> Life] /\ at \in [Task -> [fn : Fn, pc : Nat]]
    BY DEF TypeInv, KernelOK, ControlOK
  <2>3. Fitting'
    <3>1. \A u \in Task : Fit(k'[u], life'[u])
      BY <2>1, <2>2 DEF Explained, Fitting, Fit
    <3> QED BY <1>1, <3>1 DEF Fitting, Fit
  <2>4. Cloned'
    BY <1>1, <2>1, <2>2 DEF Cloned, Explained, Task
  <2>5. Elsewhere' /\ EndsExplained'
    BY <1>1, <2>1, <2>2 DEF Elsewhere, EndsExplained, Endings, Explained
  <2>6. Unfounded'
    BY <1>1, <2>1 DEF Unfounded, Explained, Addr
  <2> QED BY <2>3, <2>4, <2>5, <2>6 DEF Explained
<1> QED BY <1>3, <1>4 DEF TestMain

(* Nothing happens that the invariant is about.                            *)
LEMMA StaysExplained ==
  ASSUME Explained, UNCHANGED <<code, kernel, build, k, life, exit, at, frame, mem>>
  PROVE  Explained'
BY DEF Explained, Fitting, Fit, Cloned, Elsewhere, EndsExplained, Endings, Unfounded, Addr

(* A test that has just started has nothing to explain. *)
LEMMA NewbornExplained == Newborn => Explained
<1> SUFFICES ASSUME Newborn PROVE Explained
  OBVIOUS
<1>1. Fitting
  BY NewTaskFit DEF Newborn, Fitting, Fit
<1>2. Cloned /\ EndsExplained
  BY DEF Newborn, Cloned, EndsExplained, Task
<1>3. Elsewhere
  BY DEF Newborn, Elsewhere, NoFrame, Task
<1>4. Unfounded
  BY DEF Newborn, Unfounded, Task
<1> QED BY <1>1, <1>2, <1>3, <1>4 DEF Explained

-----------------------------------------------------------------------------
(* Nobody gets past a statement that is denied. *)

(* The steps with which the tracer may leave a statement that can be denied. *)
LEMMA TracersSteps ==
  ASSUME TypeInv, Honest, Contained(code), Runs("tracer"), at'["tracer"] # at["tracer"]
  PROVE  LET s == Here("tracer") t == "tracer" IN
         /\ at[t].pc \in DOMAIN Code(t)
         /\ ~Abort(t)
         /\ s.op = "wait" => WaitReports(t) \/ WaitFails(t)
         /\ s.op \in QueryOps => Query(t)
         /\ s.op = "poke" => Refused(t) \/ PtracePoke(t)
         /\ s.op = "resume" => Refused(t) \/ PtraceResume(t)
         /\ s.op = "attach" => PtraceAttach(t)
         /\ s.op = "munmap" => UnmapSecondPage(t)
         /\ s.op = "store_bytes" => StoreMemory(t)
         /\ s.op \in IntOps \cup {"assert_word"} => AtomicStore(t) \/ Spin(t) \/ AssertShared(t)
<1> DEFINE t == "tracer"  s == Here(t)
<1>1. ~Abort(t) /\ ~MemoryFault(t)
  BY DEF Abort, MemoryFault, control
<1>6. \A op : At(t, op) \/ InSyscall(t, op) => op = s.op /\ at[t].pc \in DOMAIN Code(t)
  BY AtRuns
<1>2. ~KernelActs(t)
  BY NoHandler DEF KernelActs, TakeSignal, SignalSpent, SignalKills, EnterTrap, SyscallEntry,
                   SyscallExit, StepTrap, EntersStop, control
<1> DEFINE Deniable == {"wait", "poke", "resume", "attach", "munmap", "store_bytes", "assert_word"}
                         \cup QueryOps \cup IntOps
           pc == at[t].pc \in DOMAIN Code(t)
<1>3. CASE Computes(t)
  <2>1. AtomicStore(t) \/ Spin(t) \/ AssertShared(t) => pc /\ s.op \in IntOps \cup {"assert_word"}
    <3>1. AtomicStore(t) => At(t, "fetch_add") \/ At(t, "store")
      BY DEF AtomicStore
    <3>2. Spin(t) => At(t, "spin_while") \/ At(t, "spin_until")
      BY DEF Spin
    <3>3. AssertShared(t) => At(t, "assert_int") \/ At(t, "assert_word")
      BY DEF AssertShared
    <3> HIDE DEF s, t, pc
    <3> QED BY <1>6, <3>1, <3>2, <3>3 DEF IntOps, pc
  <2>2. StoreMemory(t) => pc /\ s.op = "store_bytes"
    BY <1>6 DEF StoreMemory
  <2>3. AssertOwn(t) => pc /\ s.op \notin Deniable
    <3> DEFINE Ops == {"assert_flag", "assert_info", "assert_masked", "assert_in", "assert_reg",
                       "assert_thread", "unreachable"}
    <3>1. AssertOwn(t) => \E op \in Ops : At(t, op)
      BY DEF AssertOwn
    <3>2. Ops \cap Deniable = {}
      BY DEF QueryOps, IntOps
    <3> HIDE DEF s, t, pc, Ops, Deniable
    <3> QED BY <1>6, <3>1, <3>2 DEF pc
  <2>4. SetOk(t) \/ CallMyFunction(t) => pc /\ s.op \notin Deniable
    BY <1>6 DEF SetOk, CallMyFunction, QueryOps, IntOps
  <2>5. Fault(t) \/ HandlerReturns(t) => pc /\ s.op \notin Deniable
    BY <1>6 DEF Fault, HandlerReturns, QueryOps, IntOps
  <2>6. "store_bytes" \notin IntOps /\ (IntOps \cup {"assert_word", "store_bytes"})
          \cap ({"wait", "poke", "resume", "attach", "munmap"} \cup QueryOps) = {}
    BY DEF IntOps, QueryOps
  <2> HIDE DEF s, t, pc
  <2> QED BY <1>1, <1>3, <2>1, <2>2, <2>3, <2>4, <2>5, <2>6 DEF s, t, pc, Computes
<1>4. CASE CallsKernel(t)
  <2>1. WaitReports(t) \/ WaitFails(t) => pc /\ s.op = "wait"
    BY DEF WaitReports, WaitFails, Waits
  <2>2. UnmapSecondPage(t) => pc /\ s.op = "munmap"
    BY <1>6 DEF UnmapSecondPage
  <2>3. Traced(t) \/ RaiseSignal(t) \/ SignalSetup(t) \/ ReadToken(t) \/ WriteToken(t)
          => pc /\ s.op \notin Deniable
    BY <1>6 DEF Traced, RaiseSignal, SignalSetup, ReadToken, WriteToken, QueryOps, IntOps
  <2>4. CloseStdin(t) \/ ChangeUser(t) \/ CreateKid(t) \/ ExecSelf(t) \/ CallFails(t)
          => pc /\ s.op \notin Deniable
    BY <1>6 DEF CloseStdin, ChangeUser, CreateKid, ExecSelf, CallFails, QueryOps, IntOps
  <2>5. ExitProcess(t) \/ ExitThread(t) \/ JoinThread(t) \/ PollReports(t)
          => pc /\ s.op \notin Deniable
    BY <1>6 DEF ExitProcess, ExitThread, JoinThread, PollReports, QueryOps, IntOps
  <2>6. {"wait", "munmap"} \cap ({"poke", "resume", "attach", "store_bytes", "assert_word"}
                                  \cup QueryOps \cup IntOps) = {}
    BY DEF IntOps, QueryOps
  <2> HIDE DEF s, t, pc
  <2> QED BY <1>1, <1>4, <2>1, <2>2, <2>3, <2>4, <2>5, <2>6 DEF s, t, pc, CallsKernel
<1>5. CASE Ptraces(t)
  <2>1. Query(t) => pc /\ s.op \in QueryOps
    BY <1>6 DEF Query
  <2>2. Refused(t) => pc /\ s.op \in UpdateOps \cup {"poke", "resume"}
    BY <1>6 DEF Refused
  <2>3. PtraceUpdate(t) => pc /\ s.op \in UpdateOps
    BY <1>6 DEF PtraceUpdate, Accepted
  <2>4. (PtracePoke(t) => pc /\ s.op = "poke") /\ (PtraceResume(t) => pc /\ s.op = "resume")
    BY <1>6 DEF PtracePoke, PtraceResume, Accepted
  <2>5. PtraceAttach(t) => pc /\ s.op \in {"attach", "seize"}
    BY <1>6 DEF PtraceAttach
  <2>6. PtraceInterrupt(t) \/ SendSignal(t) => pc /\ s.op \in {"interrupt", "tgkill"}
    BY <1>6 DEF PtraceInterrupt, SendSignal
  <2>7. /\ QueryOps \cap (UpdateOps \cup {"poke", "resume", "attach", "seize", "interrupt", "tgkill"})
             = {}
        /\ UpdateOps \cap {"poke", "resume", "attach"} = {}
        /\ (QueryOps \cup UpdateOps \cup {"poke", "resume", "attach", "seize", "interrupt", "tgkill"})
             \cap (IntOps \cup {"wait", "munmap", "store_bytes", "assert_word"}) = {}
    BY DEF IntOps, QueryOps, UpdateOps
  <2> HIDE DEF s, t, pc
  <2> QED BY <1>1, <1>5, <2>1, <2>2, <2>3, <2>4, <2>5, <2>6, <2>7 DEF s, t, pc, Ptraces
<1> HIDE DEF s, t
<1> QED BY <1>2, <1>3, <1>4, <1>5 DEF Runs, s, t

(* A waitpid reports what has a cause. *)
LEMMA WaitDenied ==
  ASSUME TypeInv, Explained, life["tracee"] # "absent",
         WaitReports("tracer") \/ WaitFails("tracer"),
         Here("tracer").ok \cap (StatusesOf(code, kernel, build) \cup {NoStatus}) = {}
  PROVE  Abort("tracer")
<1>1. CASE WaitFails("tracer")
  BY <1>1 DEF WaitFails, Childless
<1>2. CASE WaitReports("tracer")
  <2>1. PICK u \in Targets("tracer") : /\ Reportable("tracer", u)
                                       /\ StatusOf(u) \in Here("tracer").ok \/ Abort("tracer")
    BY <1>2 DEF WaitReports
  <2>2. u \in Task \ {"tracer"}
    BY DEF Targets, Children
  <2>3. StatusOf(u) \in StatusesOf(code, kernel, build) \cup {NoStatus}
    <3>1. CASE life[u] = "zombie"
      BY <2>2, <3>1 DEF StatusOf, Explained, EndsExplained, Endings, StatusesOf
    <3>2. CASE life[u] = "stopped"
      <4>1. RecordOK(k[u]) /\ Fit(k[u], "stopped")
        BY <2>2, <3>2 DEF TypeInv, KernelOK, Explained, Fitting
      <4>2. StopStatus(k[u]) \in StopsOf(code, kernel, build)
        BY <4>1, StopStatusFits
      <4> QED BY <3>2, <4>2 DEF StatusOf, StatusesOf
    <3> QED BY <2>1, <3>1, <3>2 DEF Reportable
  <2> QED BY <2>1, <2>3
<1> QED BY <1>1, <1>2

(* What the answer to a request cannot be. *)
LEMMA ResultDenied ==
  ASSUME TypeInv, Explained, NEW t \in Task, at[t].pc \in DOMAIN Code(t),
         Denies(Here(t), code, kernel, build),
         Here(t).op \in QueryOps \cup {"poke", "resume"}
  PROVE  /\ Here(t).op = "poke" => Here(t).exp = {"ok"}
         /\ \/ Result(t) \notin Here(t).exp
            \/ Here(t).op \in QueryOps /\ Result(t) = "ok" /\ ~Confirms(Here(t), Subject(t))
<1> DEFINE s == Here(t)  u == Subject(t)
           refused == Result(t) \notin s.exp
           unconfirmed == s.op \in QueryOps /\ Result(t) = "ok" /\ ~Confirms(s, u)
           meant == s.op = "poke" => s.exp = {"ok"}
<1>0. /\ s.op \notin {"wait", "attach", "munmap", "assert_word", "store_bytes"} \cup IntOps
  BY DEF QueryOps, IntOps
<1>1. s.who \in Task \cup {"got"} =>
        u \in Task /\ k[u] \in TaskRec /\ Fit(k[u], life[u])
  BY DEF Subject, TypeInv, KernelOK, RestOK, Explained, Fitting
<1>2. CASE kernel = "accepts_bad_signal" /\ s.op = "resume" /\ s.sig = BadSig /\ s.exp = {"EIO"}
  <2>1. Result(t) # "EIO"
    BY <1>2 DEF Result, Quirk
  <2> QED BY <1>2, <2>1
<1>3. CASE /\ kernel = "syscall_info_always"
           /\ s.op = "get_syscall_info" /\ s.at = "none" /\ s.exp = {"ok"}
  <2> HIDE DEF u, s
  <2>1. ~Confirms(s, u)
    BY <1>3 DEF Confirms, Quirk
  <2> QED BY <1>3, <2>1 DEF s, u, QueryOps
<1>4. CASE /\ ~Leaves(code, kernel)
           /\ s.op = "get_syscall_info" /\ s.at = "exit" /\ s.exp = {"ok"}
           /\ s.who \in Task \cup {"got"}
  <2>1. k[u].stop # "exit"
    BY <1>1, <1>4 DEF Fit, Caused
  <2> HIDE DEF u, s
  <2>2. ~Confirms(s, u)
    BY <1>4, <2>1 DEF Confirms
  <2> QED BY <1>4, <2>2 DEF s, u, QueryOps
<1>5. CASE /\ kernel = "faults_across_pages"
           /\ s.op \in {"peek", "peek_raw", "poke"} /\ Crosses(s.addr, build) /\ s.exp = {"ok"}
  <2>1. ~Readable(s.addr)
    BY <1>5 DEF Readable, Quirk, Crosses, WordBytes
  <2>2. Result(t) # "ok"
    BY <1>5, <2>1 DEF Result
  <2> QED BY <1>5, <2>2
<1>6. CASE /\ kernel = "reads_unmapped"
           /\ s.op = "peek" /\ s.addr \in Addr /\ s.exp = {"EIO"}
  <2>1. Readable(s.addr)
    BY <1>6 DEF Readable, Quirk
  <2>2. Result(t) # "EIO"
    BY <1>6, <2>1 DEF Result
  <2> QED BY <1>6, <2>2
<1>7. CASE /\ kernel = "group_has_siginfo" \/ ~Groups(code, kernel, build)
           /\ s.op = "getsiginfo" /\ s.exp = {"EINVAL"} /\ s.who \in Task \cup {"got"}
  <2>1. k[u].stop = "group" => Quirk("group_has_siginfo")
    BY <1>1, <1>7 DEF Fit, Caused, Quirk
  <2>2. Result(t) # "EINVAL"
    BY <1>7, <2>1 DEF Result
  <2> QED BY <1>7, <2>2
<1>8. CASE /\ s.op = "peekuser" /\ s.reg \in {"arg", "cs", "dr0"} /\ s.exp = {"ok"}
           /\ s.who \in Task \cup {"got"} /\ s.n \notin ValuesOf(code, kernel, build, s.reg)
  <2>1. k[u].regs[s.reg] # s.n
    BY <1>1, <1>8 DEF Fit, Caused
  <2> HIDE DEF u, s
  <2>2. ~Confirms(s, u)
    BY <1>8, <2>1 DEF Confirms
  <2> QED BY <1>8, <2>2 DEF s, u, QueryOps
<1>9. CASE kernel = "mmap_fails" /\ Maps(s)
  <2>1. s.op \in {"peek", "peek_raw", "poke"} /\ s.exp = {"ok"} /\ s.addr \in Nat
    BY <1>0, <1>9 DEF Maps
  <2>2. \A b \in Addr : mem[b] = Unmapped
    BY <1>9 DEF Explained, Unfounded
  <2>3. WordBytes \in Nat \ {0}
    BY WordBytesFit DEF TypeInv
  <2>4. s.addr \in s.addr .. (s.addr + WordBytes - 1)
    BY <2>1, <2>3
  <2>5. ~Readable(s.addr)
    BY <1>9, <2>2, <2>4 DEF Readable, Mapped, Quirk
  <2>6. Result(t) # "ok"
    BY <2>1, <2>5 DEF Result
  <2> QED BY <2>1, <2>6
<1> QED BY <1>0, <1>2, <1>3, <1>4, <1>5, <1>6, <1>7, <1>8, <1>9 DEF Denies

(* The tracer stays where it is, or fails, at what the kernel denies.       *)
LEMMA NobodyDenied ==
  ASSUME TypeInv, Honest, Contained(code), Explained, life["tracee"] # "absent",
         Runs("tracer"), Denies(Here("tracer"), code, kernel, build)
  PROVE  at'["tracer"] = at["tracer"]
<1> DEFINE t == "tracer"  s == Here(t)
<1> SUFFICES ASSUME at'[t] # at[t] PROVE FALSE
  OBVIOUS
<1>1. /\ at[t].pc \in DOMAIN Code(t)
      /\ ~Abort(t)
      /\ s.op = "wait" => WaitReports(t) \/ WaitFails(t)
      /\ s.op \in QueryOps => Query(t)
      /\ s.op = "poke" => Refused(t) \/ PtracePoke(t)
      /\ s.op = "resume" => Refused(t) \/ PtraceResume(t)
      /\ s.op = "attach" => PtraceAttach(t)
      /\ s.op = "munmap" => UnmapSecondPage(t)
      /\ s.op = "store_bytes" => StoreMemory(t)
      /\ s.op \in IntOps \cup {"assert_word"} => AtomicStore(t) \/ Spin(t) \/ AssertShared(t)
  BY TracersSteps
<1>2. t \in Task
  BY DEF Task
<1>3. CASE s.op \in QueryOps \cup {"poke", "resume"}
  <2>1. /\ s.op = "poke" => s.exp = {"ok"}
        /\ \/ Result(t) \notin s.exp
           \/ s.op \in QueryOps /\ Result(t) = "ok" /\ ~Confirms(s, Subject(t))
    BY <1>1, <1>2, <1>3, ResultDenied
  <2>2. ~Query(t)
    BY <1>1, <2>1 DEF Query, Check
  <2>3. s.op \in {"poke", "resume"} /\ s.op \notin QueryOps
    BY <1>1, <1>3, <2>2
  <2>4. ~Refused(t)
    BY <1>1, <2>1, <2>3 DEF Refused, Check
  <2>5. ~PtracePoke(t) /\ ~PtraceResume(t)
    BY <1>1, <2>1, <2>3, AtRuns DEF PtracePoke, PtraceResume, Accepted
  <2> QED BY <1>1, <2>3, <2>4, <2>5
<1>4. CASE s.op = "wait"
  <2>1. s.ok \cap (StatusesOf(code, kernel, build) \cup {NoStatus}) = {}
    BY <1>4 DEF Denies, Maps, IntOps
  <2> QED BY <1>1, <1>4, <2>1, WaitDenied
<1>5. CASE s.op = "attach"
  <2>1. kernel = "attach_any_uid" /\ ~Traceable(code) /\ s.exp = {"EPERM"}
    BY <1>5 DEF Denies, Maps, IntOps
  <2>2. s.who \in Task
    BY <1>1, <1>2, <1>5, HereFits DEF WellFormed
  <2>3. ~k[s.who].traced
    BY <2>1, <2>2 DEF Explained, Fitting, Fit, Caused
  <2>4. MayAttach(t, s.who)
    BY <2>1, <2>3 DEF MayAttach, Quirk
  <2> QED BY <1>1, <1>5, <2>1, <2>4 DEF PtraceAttach, Check
<1>6. CASE s.op \in IntOps \cup {"munmap", "store_bytes", "assert_word"}
  <2>1. kernel = "mmap_fails" /\ Maps(s)
    BY <1>6 DEF Denies, IntOps
  <2>2. \A b \in Addr : mem[b] = Unmapped
    BY <2>1 DEF Explained, Unfounded
  <2>3. ASSUME NEW a \in Nat, NEW n \in Nat \ {0} PROVE ~Mapped(a, n)
    <3>1. a \in a .. (a + n - 1)
      BY <2>3
    <3> QED BY <2>2, <3>1 DEF Mapped
  <2>4. ~IntMapped
    BY <2>3 DEF IntMapped
  <2>5. WordBytes \in Nat \ {0}
    BY WordBytesFit DEF TypeInv
  <2>10. \A op : At(t, op) => op = s.op
    BY AtRuns
  <2>11. (AtomicStore(t) => IntMapped /\ s.op \in IntOps) /\ (Spin(t) => IntMapped /\ s.op \in IntOps)
    BY <2>10 DEF AtomicStore, Spin, IntOps
  <2>12. AssertShared(t) => \/ IntMapped /\ s.op \in IntOps
                            \/ s.op = "assert_word" /\ Mapped(s.addr, WordBytes)
    BY <2>10 DEF AssertShared, IntOps
  <2>13. "assert_word" \notin IntOps
    BY DEF IntOps
  <2>6. CASE s.op \in IntOps
    <3> HIDE DEF s, t
    <3> QED BY <1>1, <2>4, <2>6, <2>11, <2>12, <2>13
  <2>7. CASE s.op = "munmap"
    BY <1>1, <2>4, <2>7 DEF UnmapSecondPage
  <2>8. CASE s.op = "store_bytes"
    <3>1. s.addr \in Nat /\ Len(s.bytes) \in Nat \ {0}
      BY <1>1, <1>2, <2>1, <2>8, HereFits DEF WellFormed, Maps, IntOps
    <3> QED BY <1>1, <2>3, <2>8, <3>1 DEF StoreMemory
  <2>9. CASE s.op = "assert_word"
    <3>1. ~Mapped(s.addr, WordBytes)
      BY <2>1, <2>3, <2>5, <2>9 DEF Maps, IntOps
    <3> HIDE DEF s, t
    <3> QED BY <1>1, <2>4, <2>9, <2>11, <2>12, <3>1
  <2> QED BY <1>6, <2>6, <2>7, <2>8, <2>9
<1> QED BY <1>3, <1>4, <1>5, <1>6 DEF Denies, Maps, QueryOps

-----------------------------------------------------------------------------
(* The tracer of a test on which the kernel denies something.               *)

(* Once there is a tracee the tracer is past no statement that is denied,   *)
(* and it has not exited with 0 if it cannot do so without.                *)
Unhelped ==
  /\ life["tracee"] # "absent" =>
       \A j \in 1 .. (at["tracer"].pc - 1) : ~Denies(code["tracer"][j], code, kernel, build)
  /\ exit["tracer"] = Exited(0) => ~Insists(code, kernel, build)

DetectInv ==
  /\ RanInv
  /\ Contained(code) => Explained
  /\ Contained(code) /\ Demanding(code) => Unhelped

(* Every step of a task leaves the tracer in front of what is denied.       *)
LEMMA RunsUnhelped ==
  ASSUME TypeInv, TypeInv', Honest, Contained(code), Demanding(code), Unanswered, Explained,
         Unhelped, NEW t \in Task, Runs(t), UNCHANGED static
  PROVE  Unhelped'
<1>0. code' = code /\ kernel' = kernel /\ build' = build
  BY DEF static
<1>1. /\ Ages(life["tracee"], life'["tracee"]) \/ life["tracee"] \in Alive
      /\ exit'["tracer"] = Exited(0) => exit["tracer"] = Exited(0) \/ ExitProcess("tracer")
  BY RunsEnd
<1>2. life'["tracee"] # "absent" => life["tracee"] # "absent"
  <2>1. life["tracee"] \in Life /\ life'["tracee"] \in Life
    BY DEF TypeInv, KernelOK, Task
  <2> QED BY <1>1, <2>1, LivesDisjoint DEF Ages, Alive
<1>3. Here("tracer") = code["tracer"][at["tracer"].pc]
  BY DEF Here, Code, Honest, InOwnFunction
<1>4. at["tracer"].pc \in Nat
  BY DEF TypeInv, ControlOK, Task
<1>5. ASSUME life["tracee"] # "absent", NEW j \in 1 .. (at'["tracer"].pc - 1),
             Denies(code["tracer"][j], code, kernel, build)
      PROVE  FALSE
  <2>1. j \notin 1 .. (at["tracer"].pc - 1)
    BY <1>5 DEF Unhelped
  <2>2. \/ at'["tracer"].pc = at["tracer"].pc
        \/ t = "tracer" /\ at'["tracer"].pc = at["tracer"].pc + 1
    BY TracerGoesOn
  <2>3. t = "tracer" /\ j = at["tracer"].pc /\ at'["tracer"].pc # at["tracer"].pc
    BY <1>4, <2>1, <2>2
  <2>4. Denies(Here("tracer"), code, kernel, build) /\ at'["tracer"] # at["tracer"]
    BY <1>3, <1>5, <2>3
  <2> QED BY <1>5, <2>3, <2>4, NobodyDenied
<1>6. ASSUME ExitProcess("tracer") PROVE ~Insists(code, kernel, build)
  <2>1. at["tracer"].pc \in DOMAIN Code("tracer") /\ Here("tracer").op = "exit_group"
    BY <1>6, AtRuns DEF ExitProcess
  <2>2. /\ at["tracer"].pc \in DOMAIN code["tracer"]
        /\ code["tracer"][at["tracer"].pc].op = "exit_group"
    BY <2>1 DEF Here, Code, Honest, InOwnFunction
  <2>3. PICK j \in 1 .. (at["tracer"].pc - 1) : NeedsTask(code["tracer"][j])
    BY <2>2 DEF Demanding
  <2>4. life["tracee"] # "absent"
    BY <2>3 DEF Unanswered
  <2>5. kernel # "no_memfd"
    BY <2>4 DEF Explained, Unfounded
  <2> QED BY <2>2, <2>4, <2>5 DEF Unhelped, Insists
<1> QED BY <1>0, <1>1, <1>2, <1>5, <1>6 DEF Unhelped

(* TEST_MAIN puts the tracer in front of its first statement.               *)
LEMMA TestMainUnhelped ==
  ASSUME RanInv, RanInv', Contained(code), Demanding(code), Unhelped, TestMain, UNCHANGED static
  PROVE  Unhelped'
<1>0. code' = code /\ kernel' = kernel /\ build' = build
  BY DEF static
<1>1. TypeInv /\ TypeInv' /\ Honest
  BY <1>0 DEF RanInv, HonestInv
<1>2. CASE TestMainSetupFails
  <2>1. life["tracer"] = "running" /\ Abort("tracer") /\ at["tracer"].pc = 0
    BY <1>2 DEF TestMainSetupFails
  <2>2. Exited(1) \in Status /\ Members("tracer") \in SUBSET Task
    BY MembersAreTasks DEF Exited, NoStatus, Status, NoSig, Task
  <2>3. "tracer" \in Members("tracer")
    BY <2>1 DEF Members, Process, Alive
  <2>4. exit'["tracer"] = Exited(1) /\ at' = at
    BY <1>1, <2>1, <2>2, <2>3, DieEnds DEF Abort, TypeInv, control, Task
  <2> QED BY <1>0, <2>1, <2>4, StatusesDiffer DEF Unhelped
<1>3. CASE TestMainForks \/ TestMainForkFails
  <2>1. at'["tracer"].pc = 1 /\ UNCHANGED exit
    BY <1>3, <1>1 DEF TestMainForks, TestMainForkFails, Goto, TypeInv, ControlOK, Task
  <2> QED BY <1>0, <2>1 DEF Unhelped
<1> QED BY <1>2, <1>3 DEF TestMain

(* A test that has just started has been denied nothing. *)
LEMMA NewbornDetect == Newborn => DetectInv
<1> SUFFICES ASSUME Newborn PROVE RanInv /\ Explained /\ Unhelped
  BY DEF DetectInv
<1>1. Unhelped
  BY StatusesDiffer DEF Newborn, Unhelped, Task
<1> QED BY <1>1, NewbornRan, NewbornExplained

(* Every step preserves the invariant. *)
LEMMA NextDetect == DetectInv /\ [Next]_vars => DetectInv'
<1> SUFFICES ASSUME DetectInv, [Next]_vars PROVE DetectInv'
  OBVIOUS
<1>1. RanInv /\ RanInv'
  BY NextRan DEF DetectInv
<1>2. TypeInv /\ TypeInv' /\ UNCHANGED static
  BY <1>1, StaticKept DEF RanInv, HonestInv, vars
<1>3. code' = code /\ kernel' = kernel /\ build' = build
  BY <1>2 DEF static
<1>4. (Contained(code)' <=> Contained(code)) /\ (Demanding(code)' <=> Demanding(code))
  BY <1>3 DEF Contained, Demanding
<1>5. ASSUME Contained(code)
      PROVE  Explained' /\ (Demanding(code) => Unhelped')
  <2>1. Honest /\ Explained
    BY <1>1, <1>5 DEF DetectInv, RanInv, HonestInv
  <2>2. Demanding(code) => Unanswered /\ Unhelped
    BY <1>1, <1>5 DEF DetectInv, RanInv
  <2>3. CASE TestMain
    BY <1>1, <1>2, <1>5, <2>1, <2>2, <2>3, TestMainExplained, TestMainUnhelped
  <2>4. CASE \E t \in Task : Runs(t)
    BY <1>2, <1>5, <2>1, <2>2, <2>4, RunsExplained, RunsUnhelped
  <2>5. CASE RunnerCollects \/ UNCHANGED vars
    <3>1. /\ UNCHANGED <<code, kernel, build, k, life, exit, at, frame, mem>>
      BY <2>5, <1>2, CollectedTypes DEF RunnerCollects, vars, static, control, memory
    <3> QED BY <2>1, <2>2, <3>1, StaysExplained DEF Unhelped
  <2> QED BY <2>3, <2>4, <2>5 DEF Next
<1> QED BY <1>1, <1>4, <1>5 DEF DetectInv

(* A passed test was not hopeless. *)
LEMMA DetectVerdict == DetectInv => (Hopeless(code, kernel, build) => verdict # "passed")
<1> SUFFICES ASSUME DetectInv, Hopeless(code, kernel, build), verdict = "passed" PROVE FALSE
  OBVIOUS
<1>1. Honest /\ Unhelped
  BY DEF DetectInv, RanInv, HonestInv, Hopeless
<1>2. exit["tracer"] = Exited(0)
  BY <1>1 DEF Honest, Judged
<1> QED BY <1>1, <1>2 DEF Unhelped, Hopeless

(* A hopeless test does not pass: whatever the schedule, the page size and  *)
(* the build, run.sh says "failed" of a test whose tracer gets to no exit   *)
(* without a statement that asks the kernel for what it does not deliver to *)
(* this program (or says nothing, if the test never ends).                 *)
THEOREM HopelessFails == Spec => [](Hopeless(code, kernel, build) => verdict # "passed")
<1>1. Spec => []DetectInv
  BY InitNewborn, NewbornDetect, NextDetect, PTL DEF Spec
<1> QED BY <1>1, DetectVerdict, PTL

(* Detected, of the mistakes that are plain from the text of the tests.     *)
THEOREM DetectsPlainMistakes == Spec => [](kernel \in PlainMistakes => Detected)
<1>1. Spec => []DetectInv
  BY InitNewborn, NewbornDetect, NextDetect, PTL DEF Spec
<1>2. DetectInv => (kernel \in PlainMistakes => Detected)
  <2> SUFFICES ASSUME DetectInv, kernel \in PlainMistakes, kernel \in Quirky,
                      test \in DetectedBy(build)[kernel], verdict = "passed"
               PROVE  FALSE
    BY DEF Detected
  <2>1. test \in Tests /\ code = Suite[test] /\ build \in Builds
    BY DEF DetectInv, RanInv, HonestInv, TypeInv, RestOK
  <2>2. Hopeless(code, kernel, build)
    BY <2>1 DEF PlainMistakes
  <2> QED BY <2>2, DetectVerdict
<1> QED BY <1>1, <1>2, PTL

-----------------------------------------------------------------------------
(* The loop of run.sh does not get past a hopeless test.                    *)

(* The hopeless tests, for each kernel.                                     *)
NoChance ==
  [d \in Kernels |-> {e \in Tests \X Builds : Hopeless(Suite[e[1]], d, e[2])}]

ChanceInv == /\ LoopInv /\ Orderly(NoChance)
             /\ shell = "testing" => DetectInv

(* A launched test is newborn. *)
LEMMA LaunchDetect == ASSUME LoopInv, Launch PROVE DetectInv'
<1>1. Newborn => DetectInv
  BY NewbornDetect
<1>2. Newborn'
  BY LaunchNewborn
<1> QED BY <1>1, <1>2, NewbornDetect, PTL

(* The verdict on a test is that of a run on its own.                       *)
LEMMA ChanceKept == ChanceInv /\ [RunNext]_run => ChanceInv'
<1> SUFFICES ASSUME ChanceInv, [RunNext]_run PROVE ChanceInv'
  OBVIOUS
<1>1. KeepsOut(NoChance)
  <2> SUFFICES ASSUME shell = "testing", verdict = "passed", <<test, build>> \in NoChance[kernel]
               PROVE  FALSE
    BY DEF KeepsOut
  <2>1. DetectInv /\ code = Suite[test] /\ kernel \in Kernels
    BY DEF ChanceInv, DetectInv, RanInv, HonestInv, TypeInv, RestOK
  <2>2. Hopeless(code, kernel, build)
    BY <2>1 DEF NoChance
  <2> QED BY <2>1, <2>2, DetectVerdict
<1>2. LoopInv' /\ Orderly(NoChance)'
  BY <1>1, NobodySlipsThrough DEF ChanceInv
<1>3. ASSUME shell' = "testing" PROVE DetectInv'
  <2>1. CASE Launch
    BY <2>1, LaunchDetect DEF ChanceInv
  <2>2. CASE Testing \/ UNCHANGED run
    <3>1. shell = "testing" /\ [Next]_vars
      BY <1>3, <2>2 DEF Testing, script, run
    <3> QED BY <3>1, NextDetect DEF ChanceInv
  <2>3. CASE FindsDirectory \/ Skip \/ SaysPassed \/ SaysFailed \/ AllPassed
    BY <1>3, <2>3 DEF FindsDirectory, Skip, SaysPassed, SaysFailed, AllPassed
  <2> QED BY <2>1, <2>2, <2>3 DEF RunNext, Script
<1> QED BY <1>2, <1>3 DEF ChanceInv

(* At the start no test runs.                                               *)
LEMMA ChanceStart == RunInit => ChanceInv
BY NobodySlipsThrough DEF RunInit, ChanceInv

(* "All tests passed" is said of no directory with a hopeless test in it.   *)
THEOREM HopelessNoticed == RunSpec => []KeptOut(NoChance)
<1>1. ChanceInv => KeptOut(NoChance)
  BY NobodySlipsThrough DEF ChanceInv
<1> QED BY <1>1, ChanceStart, ChanceKept, PTL DEF RunSpec

(* SuiteNotices, of the mistakes that are plain from the text of the tests. *)
THEOREM SuiteNoticesPlainMistakes == RunSpec => [](kernel \in PlainMistakes => SuiteNotices)
<1>1. ChanceInv => (kernel \in PlainMistakes => SuiteNotices)
  <2>1. ChanceInv => KeptOut(NoChance)
    BY NobodySlipsThrough DEF ChanceInv
  <2> SUFFICES ASSUME LoopInv, KeptOut(NoChance), kernel \in PlainMistakes,
                      shell = "All tests passed", NEW i \in Entries, dir.entries[i].runnable,
                      dir.entries[i].test \in DetectedBy(dir.entries[i].build)[kernel]
               PROVE  FALSE
    BY <2>1 DEF SuiteNotices, KeptOut, ChanceInv
  <2>2. dir.entries[i].test \in Tests /\ dir.entries[i].build \in Builds /\ kernel \in Kernels
    BY EntriesAre DEF LoopInv
  <2>3. Hopeless(Suite[dir.entries[i].test], kernel, dir.entries[i].build)
    BY <2>2 DEF PlainMistakes
  <2>4. Listed(i) \in NoChance[kernel]
    BY <2>2, <2>3 DEF Listed, NoChance
  <2> QED BY <2>4 DEF KeptOut
<1> QED BY <1>1, ChanceStart, ChanceKept, PTL DEF RunSpec
=============================================================================
