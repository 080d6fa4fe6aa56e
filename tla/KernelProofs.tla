---------------------------- MODULE KernelProofs ----------------------------
(***************************************************************************)
(* Lemmas about the operators of Kernel.tla: what they do to the record of *)
(* a task, to its life and to its exit status.  The proofs about the       *)
(* harness rest on them.                                                   *)
(***************************************************************************)
EXTENDS Kernel, TLAPS

(* A task record is of its type, and a signal-delivery-stop has a siginfo. *)
RecordOK(r) == r \in TaskRec /\ (r.stop = "signal" => r.info \in Info)

(* q is a record that has the signal dispositions of r, is a thread or not  *)
(* as r is, and reports no execve that r does not.                         *)
Like(r, q) == /\ RecordOK(q) /\ q.act = r.act /\ q.thread = r.thread
              /\ q.event = "EXEC" => r.event = "EXEC"

KernelOK == /\ life \in [Task -> Life]
            /\ exit \in [Task -> Status]
            /\ k \in [Task -> TaskRec]
            /\ \A t \in Task : RecordOK(k[t])

(* The records of all tasks keep their type, dispositions and threads. *)
RecordsKept == /\ k' \in [Task -> TaskRec]
               /\ \A t \in Task : Like(k[t], k'[t])

Dead == {"zombie", "gone"}

(* What may become of a task that neither is created nor dies. *)
Ages(l, m) == /\ l \in Alive    => m \in Alive
              /\ l \in Dead     => m \in Dead
              /\ l = "absent"   => m = "absent"

-----------------------------------------------------------------------------
(* The operators on the record of one task.                                *)

(* A record is like itself. *)
LEMMA LikeItself == ASSUME NEW r, RecordOK(r) PROVE Like(r, r)
BY DEF Like

(* Returning a value changes a register and the phase of a system call. *)
LEMMA RetLike == ASSUME NEW r, RecordOK(r), NEW v \in Nat PROVE Like(r, Ret(r, v))
BY DEF RecordOK, Like, Ret, TaskRec, Reg

(* Sending a signal changes the set of pending ones. *)
LEMMA SentLike == ASSUME NEW r, RecordOK(r), NEW i \in Info PROVE Like(r, Sent(r, i))
BY DEF RecordOK, Like, Sent, TaskRec

(* Fields that system calls and ptrace requests change one at a time. *)
LEMMA FieldsLike ==
  ASSUME NEW r, RecordOK(r)
  PROVE  /\ \A b \in BOOLEAN : Like(r, [r EXCEPT !.traced = b])
         /\ \A S \in SUBSET Signal : Like(r, [r EXCEPT !.mask = S])
         /\ \A S \in SUBSET Options : Like(r, [r EXCEPT !.opts = S])
         /\ \A u \in Uid : Like(r, [r EXCEPT !.uid = u])
         /\ \A i \in Info : Like(r, [r EXCEPT !.info = i])
         /\ \A g \in Reg, n \in Nat : Like(r, [r EXCEPT !.regs[g] = n])
         /\ \A p \in {"none", "group", "interrupt"} : Like(r, [r EXCEPT !.trap = p])
         /\ \A i \in Info \cup {NoInfo} : Like(r, [r EXCEPT !.due = i])
         /\ \A S \in SUBSET Info : Like(r, [r EXCEPT !.pend = S])
<1>1. \A b \in BOOLEAN : Like(r, [r EXCEPT !.traced = b])
  BY DEF RecordOK, Like, TaskRec
<1>2. \A S \in SUBSET Signal : Like(r, [r EXCEPT !.mask = S])
  BY DEF RecordOK, Like, TaskRec
<1>3. \A S \in SUBSET Options : Like(r, [r EXCEPT !.opts = S])
  BY DEF RecordOK, Like, TaskRec
<1>4. \A u \in Uid : Like(r, [r EXCEPT !.uid = u])
  BY DEF RecordOK, Like, TaskRec
<1>5. \A i \in Info : Like(r, [r EXCEPT !.info = i])
  BY DEF RecordOK, Like, TaskRec
<1>6. \A g \in Reg, n \in Nat : Like(r, [r EXCEPT !.regs[g] = n])
  BY DEF RecordOK, Like, TaskRec
<1>7. \A p \in {"none", "group", "interrupt"} : Like(r, [r EXCEPT !.trap = p])
  BY DEF RecordOK, Like, TaskRec
<1>8. \A i \in Info \cup {NoInfo} : Like(r, [r EXCEPT !.due = i])
  BY DEF RecordOK, Like, TaskRec
<1>9. \A S \in SUBSET Info : Like(r, [r EXCEPT !.pend = S])
  BY DEF RecordOK, Like, TaskRec
<1> QED BY <1>1, <1>2, <1>3, <1>4, <1>5, <1>6, <1>7, <1>8, <1>9

(* PTRACE_ATTACH, PTRACE_SEIZE and TRACEME change who traces a task only. *)
LEMMA AttachedLike ==
  ASSUME NEW r, RecordOK(r), NEW b \in BOOLEAN
  PROVE  Like(r, [r EXCEPT !.traced = TRUE, !.seized = b])
BY DEF RecordOK, Like, TaskRec

(* To be like is transitive. *)
LEMMA LikeTransitive == ASSUME NEW p, NEW q, NEW r, Like(p, q), Like(q, r) PROVE Like(p, r)
BY DEF Like

(* The ptrace-stops that are no signal-delivery-stops need no siginfo. *)
LEMMA StopLike ==
  ASSUME NEW r, RecordOK(r), NEW kind \in StopKind \ {"signal"}
  PROVE  Like(r, Stop(r, kind)) /\ Stop(r, kind).stop = kind
BY DEF RecordOK, Like, Stop, TaskRec, Mode

(* The stop PTRACE_INTERRUPT asks for. *)
LEMMA InterruptLike ==
  ASSUME NEW r, RecordOK(r), NEW e \in Event \ {"EXEC"}
  PROVE  Like(r, [Stop(r, "event") EXCEPT !.event = e])
<1> DEFINE q == Stop(r, "event")
           p == [q EXCEPT !.event = e]
<1>1. q \in TaskRec /\ q.act = r.act /\ q.thread = r.thread /\ q.stop = "event"
  BY StopLike DEF StopKind, Like, RecordOK
<1> HIDE DEF q
<1>2. /\ p \in TaskRec /\ p.act = q.act /\ p.thread = q.thread /\ p.stop = "event"
      /\ p.event = e
  BY <1>1 DEF TaskRec
<1> QED BY <1>1, <1>2 DEF Like, RecordOK, q

(* The stops before and after a system call. *)
LEMMA SyscallStopLike ==
  ASSUME NEW r, RecordOK(r), NEW kind \in {"entry", "exit"},
         NEW phase \in {"user", "entered", "leaving"}
  PROVE  Like(r, [Stop(r, kind) EXCEPT !.phase = phase])
<1> DEFINE q == Stop(r, kind)
           p == [q EXCEPT !.phase = phase]
<1>1. Like(r, q) /\ q \in TaskRec /\ q.stop = kind
  BY StopLike DEF StopKind, Like, RecordOK
<1> HIDE DEF q
<1>2. /\ p \in TaskRec /\ p.act = q.act /\ p.thread = q.thread /\ p.stop = kind
      /\ p.event = q.event
  BY <1>1 DEF TaskRec
<1> QED BY <1>1, <1>2 DEF Like, RecordOK, q

(* An event stop. *)
LEMMA EventLike ==
  ASSUME NEW r, RecordOK(r), NEW e \in Event
  PROVE  LET s == EventStopped(r, e)
         IN  /\ RecordOK(s) /\ s.act = r.act /\ s.thread = r.thread /\ s.stop = "event"
             /\ e # "EXEC" => Like(r, s)
<1> DEFINE q == Stop(r, "event")
           p == [q EXCEPT !.event = e, !.phase = "leaving"]
<1>1. q \in TaskRec /\ q.act = r.act /\ q.thread = r.thread /\ q.stop = "event"
  BY StopLike DEF StopKind, Like, RecordOK
<1> HIDE DEF q
<1>2. /\ p \in TaskRec /\ p.act = q.act /\ p.thread = q.thread /\ p.stop = "event"
      /\ p.event = e
  BY <1>1 DEF TaskRec
<1> QED BY <1>1, <1>2 DEF EventStopped, Like, RecordOK, q

(* A signal-delivery-stop for siginfo i. *)
LEMMA SignalStopLike ==
  ASSUME NEW r, RecordOK(r), NEW i \in Info
  PROVE  Like(r, [Stop(r, "signal") EXCEPT !.info = i])
<1> DEFINE q == Stop(r, "signal")
           p == [q EXCEPT !.info = i]
<1>1. q \in TaskRec /\ q.act = r.act /\ q.thread = r.thread /\ q.event = r.event
  BY DEF StopKind, RecordOK, Stop, TaskRec, Mode
<1> HIDE DEF q
<1>2. /\ p \in TaskRec /\ p.act = q.act /\ p.thread = q.thread /\ p.info = i
      /\ p.event = q.event
  BY <1>1 DEF TaskRec
<1> QED BY <1>1, <1>2 DEF Like, RecordOK, q

(* A tracee that loses its tracer. *)
LEMMA DetachedLike == ASSUME NEW r, RecordOK(r) PROVE Like(r, Detached(r))
<1> DEFINE p == Untraced(r)
           q == RunsOn(p)
           d == [q EXCEPT !.trap = IF @ = "interrupt" THEN "none" ELSE @,
                          !.due  = IF r.stop = "signal" /\ ~r.seen THEN r.info ELSE @]
<1>1. p \in TaskRec /\ p.act = r.act /\ p.thread = r.thread /\ p.event = r.event
  BY DEF RecordOK, Untraced, TaskRec
<1> HIDE DEF p
<1>2. /\ q \in TaskRec /\ q.act = p.act /\ q.thread = p.thread /\ q.stop = "none"
      /\ q.event = p.event
  BY <1>1 DEF RunsOn, TaskRec, StopKind, Mode
<1> HIDE DEF q
<1>3. r.stop = "signal" => r.info \in Info
  BY DEF RecordOK
<1>4. /\ d \in TaskRec /\ d.act = q.act /\ d.thread = q.thread /\ d.stop = "none"
      /\ d.event = q.event
  BY <1>2, <1>3 DEF TaskRec
<1>5. Like(r, d)
  BY <1>1, <1>2, <1>4 DEF Like, RecordOK
<1>6. Detached(r) = IF ~r.traced THEN r ELSE d
  BY DEF Detached, p, q
<1> QED BY <1>5, <1>6 DEF Like, RecordOK

(* The signal a resumed tracee gets is a siginfo of its own or of the tracer. *)
LEMMA ResumedLike ==
  ASSUME NEW r, RecordOK(r), NEW m \in Mode, NEW s \in Signal \cup {NoSig}
  PROVE  Like(r, Resumed(r, m, s))
<1> DEFINE injected ==
             CASE r.stop # "signal"   -> NoInfo
               [] r.stop = "signal" /\ s = NoSig ->
                    IF Quirk("never_suppresses") THEN r.info ELSE NoInfo
               [] r.stop = "signal" /\ s # NoSig ->
                    IF \/ s = r.info.signo /\ ~Quirk("loses_value")
                       \/ r.info.signo = "SIGSTOP" /\ Quirk("stop_wins")
                    THEN r.info
                    ELSE IF Quirk("keeps_siginfo") THEN [r.info EXCEPT !.signo = s]
                    ELSE [signo |-> s, origin |-> "tracer"]
           mode  == IF m = "step" /\ Quirk("step_runs_on") THEN "cont" ELSE m
           phase == IF /\ r.phase = "leaving"
                       /\ m # "syscall" \/ Quirk("no_exit_stop")
                    THEN "user" ELSE r.phase
<1>1. r \in TaskRec
  BY DEF RecordOK
<1>2. injected \in Info \cup {NoInfo}
  BY DEF RecordOK, Info, Origin
<1>3. mode \in Mode /\ phase \in {"user", "entered", "leaving"}
  BY <1>1 DEF Mode, TaskRec
<1>4. Resumed(r, m, s) = [r EXCEPT !.stop = "none", !.due = injected, !.mode = mode,
                                   !.phase = phase]
  BY <1>1 DEF Resumed, TaskRec
<1>5. ASSUME NEW d \in Info \cup {NoInfo}, NEW n \in Mode,
             NEW p \in {"user", "entered", "leaving"}
      PROVE  LET q == [r EXCEPT !.stop = "none", !.due = d, !.mode = n, !.phase = p]
             IN  /\ q \in TaskRec /\ q.stop = "none" /\ q.act = r.act
                 /\ q.thread = r.thread /\ q.event = r.event
  BY <1>1 DEF TaskRec, StopKind
<1> DEFINE q == [r EXCEPT !.stop = "none", !.due = injected, !.mode = mode,
                          !.phase = phase]
<1> HIDE DEF injected, mode, phase
<1>6. /\ q \in TaskRec /\ q.stop = "none" /\ q.act = r.act
      /\ q.thread = r.thread /\ q.event = r.event
  BY <1>2, <1>3, <1>5
<1> HIDE DEF q
<1> QED BY <1>4, <1>6 DEF RecordOK, Like, q

(* The record every task starts with. *)
LEMMA NewTaskOK == RecordOK(NewTask) /\ NewTask.thread = FALSE
                     /\ NewTask.act = [s \in Signal |-> "dfl"]
BY DEF RecordOK, NewTask, TaskRec, StopKind, Mode, Reg, OwnArg, Disp, Uid

(* The record of a new task. *)
LEMMA ChildOK ==
  ASSUME NEW r, RecordOK(r), NEW s, s.thread \in BOOLEAN, s.chld \in BOOLEAN
  PROVE  RecordOK(Child(r, s)) /\ Child(r, s).thread = s.thread
<1> DEFINE auto == CloneEvent(r, s) # "none"
           opts == IF auto THEN r.opts ELSE {}
           pend == IF auto /\ ~Quirk("child_not_stopped")
                   THEN {[signo |-> "SIGSTOP", origin |-> "auto"]} ELSE {}
           q == [NewTask EXCEPT !.mask = r.mask, !.act = r.act, !.uid = r.uid,
                                !.thread = s.thread, !.chld = s.chld, !.traced = auto,
                                !.opts = opts, !.pend = pend]
<1>1. NewTask \in TaskRec /\ NewTask.stop = "none"
  BY NewTaskOK DEF RecordOK, NewTask
<1>2. [signo |-> "SIGSTOP", origin |-> "auto"] \in Info
  BY DEF Info, Signal, Origin
<1>3. opts \in SUBSET Options /\ pend \in SUBSET Info /\ auto \in BOOLEAN
  BY <1>2 DEF RecordOK, TaskRec
<1>4. Child(r, s) = q
  BY DEF Child
<1> HIDE DEF opts, pend, auto
<1>5. q \in TaskRec /\ q.stop = "none" /\ q.thread = s.thread
  BY <1>1, <1>3 DEF TaskRec, RecordOK
<1> QED BY <1>4, <1>5 DEF RecordOK

(* The record after an execve: a process, with no handlers of its own. *)
LEMMA ExecedOK ==
  ASSUME NEW r, RecordOK(r), NEW n \in Nat
  PROVE  LET e == Execed(r, n)
         IN  /\ RecordOK(e) /\ e.thread = FALSE
             /\ \A s \in Signal : e.act[s] = "handler" => r.act[s] = "handler"
<1> DEFINE q == [r EXCEPT !.act = [s \in Signal |->
                                     IF r.act[s] = "handler"
                                          /\ ~Quirk("exec_keeps_handlers")
                                     THEN "dfl" ELSE r.act[s]],
                          !.mask = IF Quirk("exec_unmasks") THEN {} ELSE @,
                          !.regs["cs"] = n, !.thread = FALSE, !.chld = TRUE]
           trap == [signo |-> "SIGTRAP", origin |-> "exec"]
<1>1. /\ q \in TaskRec /\ q.stop = r.stop /\ q.info = r.info /\ q.thread = FALSE
      /\ \A s \in Signal : q.act[s] = "handler" => r.act[s] = "handler"
  BY DEF RecordOK, TaskRec, Disp, Reg
<1>2. RecordOK(q)
  BY <1>1 DEF RecordOK
<1>3. trap \in Info
  BY DEF Info, Signal, Origin
<1>4. /\ Like(q, q) /\ Like(q, Sent(q, trap)) /\ RecordOK(EventStopped(q, "EXEC"))
      /\ EventStopped(q, "EXEC").act = q.act /\ EventStopped(q, "EXEC").thread = q.thread
  BY <1>2, <1>3, LikeItself, EventLike, SentLike DEF Event
<1>5. Execed(r, n) \in {q, EventStopped(q, "EXEC"), Sent(q, trap)}
  BY DEF Execed
<1> HIDE DEF q
<1> QED BY <1>1, <1>4, <1>5 DEF Like

-----------------------------------------------------------------------------
(* The operators on all tasks. *)

(* The corpse of a task is a zombie or nothing; an orphan lives if it did.  *)
LEMMA CorpseDead == ASSUME NEW u \in Task, NEW G PROVE Corpse(u, G) \in Dead
BY DEF Task, Corpse, Dead

(* The death of its tracer kills nobody: a stopped tracee runs on. *)
LEMMA OrphanedAges ==
  ASSUME KernelOK, NEW u \in Task
  PROVE  Orphaned(u) \in Life /\ Ages(life[u], Orphaned(u))
BY DEF KernelOK, Orphaned, Ages, Life, Alive, Dead

(* Death: the tasks of G end with this status, nobody else dies or is born. *)
LEMMA DieEnds ==
  ASSUME KernelOK, NEW G \in SUBSET Task, NEW status \in Status, Die(G, status)
  PROVE  /\ life' \in [Task -> Life] /\ exit' \in [Task -> Status] /\ RecordsKept
         /\ \A u \in G : life'[u] \in Dead /\ exit'[u] = status
         /\ \A u \in Task \ G : Ages(life[u], life'[u]) /\ exit'[u] = exit[u]
<1>1. exit' = [u \in Task |-> IF u \in G THEN status ELSE exit[u]]
  BY DEF Die
<1>2. exit' \in [Task -> Status]
  BY <1>1 DEF KernelOK
<1>3. RecordsKept
  <2> DEFINE r(u) == IF "tracer" \in G THEN Detached(k[u]) ELSE k[u]
  <2>1. k' = [u \in Task |-> IF u = "tracee" /\ NotifiesTracee(G)
                             THEN Sent(r(u), ChildInfo) ELSE r(u)]
    BY DEF Die
  <2>2. ChildInfo \in Info
    BY DEF ChildInfo, Info, Signal, Origin
  <2>3. ASSUME NEW u \in Task PROVE Like(k[u], k'[u]) /\ k'[u] \in TaskRec
    <3>1. RecordOK(k[u])
      BY DEF KernelOK
    <3>2. Like(k[u], r(u))
      BY <3>1, DetachedLike, LikeItself
    <3>3. Like(r(u), Sent(r(u), ChildInfo))
      BY <3>2, <2>2, SentLike DEF Like
    <3> HIDE DEF r
    <3>4. k'[u] \in {r(u), Sent(r(u), ChildInfo)}
      BY <2>1
    <3> QED BY <3>2, <3>3, <3>4 DEF Like, RecordOK
  <2> HIDE DEF r
  <2>4. k' \in [Task -> TaskRec]
    BY <2>1, <2>3
  <2> QED BY <2>3, <2>4 DEF RecordsKept
<1>4. ASSUME NEW u \in Task
      PROVE  /\ life'[u] \in Life
             /\ u \in G => life'[u] \in Dead
             /\ u \notin G => Ages(life[u], life'[u])
  <2>1. CASE u \in G
    <3>1. life'[u] = Corpse(u, G)
      BY <2>1 DEF Die
    <3> QED BY <2>1, <3>1, CorpseDead DEF Dead, Life
  <2>2. CASE u \notin G /\ "tracer" \in G
    <3>1. life'[u] = Orphaned(u)
      BY <2>2 DEF Die
    <3> QED BY <2>2, <3>1, OrphanedAges
  <2>3. CASE u \notin G /\ "tracer" \notin G
    <3>1. life'[u] = IF "tracee" \in G /\ life[u] = "zombie" /\ ~k[u].traced
                     THEN "gone" ELSE life[u]
      BY <2>3 DEF Die
    <3> QED BY <2>3, <3>1 DEF KernelOK, Ages, Life, Alive, Dead
  <2> QED BY <2>1, <2>2, <2>3
<1>5. DOMAIN life' = Task /\ life' = [u \in Task |-> life'[u]]
  BY DEF Die
<1> QED BY <1>1, <1>2, <1>3, <1>4, <1>5

(* waitpid reports u: a zombie may be gone then, nothing else happens to    *)
(* anybody's life.                                                         *)
LEMMA CollectKeeps ==
  ASSUME KernelOK, NEW t \in Task, NEW u \in Task, Collect(t, u)
  PROVE  /\ life' \in [Task -> Life] /\ RecordsKept
         /\ \A v \in Task : Ages(life[v], life'[v])
<1>1. life' \in [Task -> Life] /\ \A v \in Task : Ages(life[v], life'[v])
  BY DEF Collect, KernelOK, Ages, Life, Alive, Dead
<1>2. ChildInfo \in Info
  BY DEF ChildInfo, Info, Signal, Origin
<1>3. ASSUME NEW v \in Task PROVE Like(k[v], k'[v]) /\ k'[v] \in TaskRec
  <2>1. RecordOK(k[v])
    BY DEF KernelOK
  <2>2. Like(k[v], k[v]) /\ Like(k[v], Sent(k[v], ChildInfo))
    BY <2>1, <1>2, LikeItself, SentLike
  <2>3. Like(k[v], [k[v] EXCEPT !.traced = FALSE]) /\ Like(k[v], [k[v] EXCEPT !.seen = TRUE])
    BY <2>1 DEF Like, RecordOK, TaskRec
  <2>4. k'[v] \in {k[v], Sent(k[v], ChildInfo), [k[v] EXCEPT !.traced = FALSE],
                  [k[v] EXCEPT !.seen = TRUE]}
    BY DEF Collect
  <2> QED BY <2>2, <2>3, <2>4 DEF Like, RecordOK
<1>4. k' = [v \in Task |-> k'[v]]
  BY DEF Collect
<1> QED BY <1>1, <1>3, <1>4 DEF RecordsKept

-----------------------------------------------------------------------------
(* PTRACE_PEEKDATA of a word that is in memory.                            *)

(* After u64 v has been written at a, wherever that is and across a page or  *)
(* not, `u64 result = ptrace(PTRACE_PEEKDATA)' is the value the tests        *)
(* compare it with, except on the 32-bit build if bit 31 of v is set: then   *)
(* the long is sign-extended and the value is not.  A kernel that aligns     *)
(* the address is wrong about words that are not aligned only.              *)
THEOREM PeekAgrees ==
  ASSUME NEW a \in Nat, a + 7 \in Addr, NEW v \in [1 .. 8 -> Byte],
         build \in {32, 64}, UNCHANGED <<build, kernel>>,
         Quirk("aligns_peeks") => a % WordBytes = 0,
         mem' = Written(a, v, 8)
  PROVE  PeekedWord(a)' = Truncated(v) <=> build = 64 \/ v[4] < 128
<1> DEFINE first == IF Quirk("aligns_peeks") THEN a - (a % WordBytes) ELSE a
<1>1. /\ WordBytes \in {4, 8} /\ (build = 64 <=> WordBytes = 8)
      /\ WordBytes' = WordBytes
  BY DEF WordBytes
<1>2. first = a /\ Quirk("aligns_peeks")' = Quirk("aligns_peeks")
  BY DEF Quirk
<1>3. \A b \in 1 .. 8 : mem'[a + b - 1] = v[b]
  <2> TAKE b \in 1 .. 8
  <2>1. a + b - 1 \in Addr /\ a + b - 1 \in a .. (a + 7)
    BY PageBytesAssumption DEF Addr
  <2> QED BY <2>1 DEF Written
<1>4. PeekedWord(a)' = [b \in 1 .. 8 |-> IF b <= WordBytes THEN mem'[a + b - 1]
                          ELSE IF mem'[a + WordBytes - 1] >= 128 THEN 255 ELSE 0]
  BY <1>1, <1>2 DEF PeekedWord
<1>5. CASE WordBytes = 8
  BY <1>1, <1>3, <1>4, <1>5 DEF Truncated
<1>6. CASE WordBytes = 4
  <2>1. PeekedWord(a)' = [b \in 1 .. 8 |-> IF b <= 4 THEN v[b]
                            ELSE IF v[4] >= 128 THEN 255 ELSE 0]
    BY <1>3, <1>4, <1>6
  <2>2. Truncated(v) = [b \in 1 .. 8 |-> IF b <= 4 THEN v[b] ELSE 0]
    BY <1>6 DEF Truncated
  <2>3. v[4] \in Int
    BY DEF Byte
  <2>4. CASE v[4] < 128
    BY <2>1, <2>2, <2>3, <2>4
  <2>5. CASE v[4] >= 128
    <3>1. PeekedWord(a)'[8] = 255 /\ Truncated(v)[8] = 0
      BY <2>1, <2>2, <2>5
    <3> QED BY <1>1, <1>6, <2>3, <2>5, <3>1
  <2> QED BY <2>3, <2>4, <2>5
<1> QED BY <1>1, <1>5, <1>6
=============================================================================
