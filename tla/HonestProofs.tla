---------------------------- MODULE HonestProofs ----------------------------
(***************************************************************************)
(* VerdictHonest for every supervised test: run.sh looks at the exit status *)
(* of the tracer alone, and still never says "passed" of a test in which    *)
(* the tracee, or a task the tracee created, failed an ASSERT.             *)
(*                                                                         *)
(* VerdictHonest is not inductive.  The argument goes through the waits of *)
(* the tracer's program: who it has waited for is dead for good and did    *)
(* not end with the exit status 1 of a failed ASSERT; the tracer gets to   *)
(* its exit(0) only behind these waits; and whoever complained is dead     *)
(* with exactly that status.                                               *)
(***************************************************************************)
EXTENDS HarnessProofs

(* A task that is not dead has no exit status yet. *)
Recorded == \A u \in Task : life[u] \notin Dead => exit[u] = NoStatus

(* Only the kid can be a thread; a thread does not outlive its process, and *)
(* a kid that is no thread is one the test forks.                          *)
Family ==
  /\ \A u \in Task : k[u].thread => u = "kid"
  /\ life["kid"] \in Alive /\ k["kid"].thread => life["tracee"] \in Alive
  /\ life["kid"] \in Alive /\ ~k["kid"].thread => ForksProcess(code)
  /\ life["tracee"] = "absent" => life["kid"] = "absent"
  /\ at["tracer"].pc = 0 => life["tracee"] = "absent"

(* The tracer never leaves its function, the tracee never enters the kid's. *)
InOwnFunction ==
  /\ at["tracer"].fn = "tracer"
  /\ \A s \in Signal : k["tracer"].act[s] = "dfl"
  /\ at["tracee"].fn # "kid" /\ frame["tracee"].fn # "kid"

(* u is over and ended otherwise than by a failed ASSERT. *)
Settled(u) ==
  /\ life[u] \notin Alive
  /\ exit[u] # Exited(1)
  /\ u = "kid" /\ life[u] = "absent" => life["tracee"] \notin Alive

ReapsDone ==
  \A u \in {"tracee", "kid"} : \A j \in 1 .. (at["tracer"].pc - 1) :
    Reaps(code["tracer"][j], u) => Settled(u)

EndsReaped ==
  Supervised(code) /\ exit["tracer"] = Exited(0) =>
    /\ Settled("tracee")
    /\ ForksProcess(code) => Settled("kid")

(* A complaint is a death with exit status 1, that of a thread the death of *)
(* the tracee too.                                                         *)
Complained ==
  /\ \A u \in complaints : life[u] \in Dead /\ exit[u] = Exited(1)
  /\ "kid" \in complaints =>
       ForksProcess(code) \/ (life["tracee"] \in Dead /\ exit["tracee"] = Exited(1))

Judged == verdict = "passed" => exit["tracer"] = Exited(0)

Honest == Recorded /\ Family /\ InOwnFunction /\ ReapsDone /\ EndsReaped /\ Complained
            /\ Judged

HonestInv == TypeInv /\ (Contained(code) => Honest)

(* Who is not alive stays so, with the exit status it has. *)
Onward == \A v \in Task : life[v] \notin Alive => exit'[v] = exit[v] /\ Ages(life[v], life'[v])

-----------------------------------------------------------------------------
(* The three exit statuses the argument tells apart are different, and no   *)
(* stop looks like an exit.                                                *)
LEMMA StatusesDiffer ==
  /\ NoStatus # Exited(0) /\ NoStatus # Exited(1) /\ Exited(0) # Exited(1)
  /\ \A s : Signaled(s) # Exited(0) /\ Signaled(s) # Exited(1)
<1>1. \A c : Exited(c).kind = "exited" /\ Exited(c).code = c
  BY DEF Exited, NoStatus
<1>2. \A s : Signaled(s).kind = "signaled"
  BY DEF Signaled, NoStatus
<1>3. NoStatus.kind = "none"
  BY DEF NoStatus
<1> QED BY <1>1, <1>2, <1>3

(* What a check that counts as a reaping accepts is an exit or a kill. *)
LEMMA EndedKinds == \A s \in Ended : s.kind \in {"exited", "signaled"} /\ s # Exited(1)
<1>1. \A c : Exited(c).kind = "exited"
  BY DEF Exited, NoStatus
<1>2. \A s : Signaled(s).kind = "signaled"
  BY DEF Signaled, NoStatus
<1> QED BY <1>1, <1>2 DEF Ended, AnyExit

(* A status nobody wrote is no end. *)
LEMMA NoStatusNotEnded == NoStatus \notin Ended
BY EndedKinds DEF NoStatus

(* A task is alive, dead or absent, and only one of these. *)
LEMMA LivesDisjoint ==
  /\ Alive \cap Dead = {} /\ "absent" \notin Alive /\ "absent" \notin Dead
  /\ Life = Alive \cup Dead \cup {"absent"}
BY DEF Alive, Dead, Life

(* The tasks of a process. *)
LEMMA MembersFacts ==
  ASSUME NEW t \in Task
  PROVE  /\ \A u \in Members(t) : u \in Task /\ life[u] \in Alive
         /\ "tracer" \in Members(t) => t = "tracer"
         /\ life[t] \in Alive /\ (k[t].thread => t = "kid") => t \in Members(t)
         /\ "tracee" \in Members(t) /\ k["kid"].thread /\ life["kid"] \in Alive
               => "kid" \in Members(t)
         /\ t = "kid" /\ k["kid"].thread /\ life["tracee"] \in Alive
               => "tracee" \in Members(t)
BY DEF Members, Process, Task

(* A task that takes a step runs. *)
LEMMA RunsRunning == ASSUME NEW t \in Task, Runs(t) PROVE life[t] = "running"
<1>1. ASSUME Computes(t) PROVE life[t] = "running"
  BY <1>1, AtRuns DEF Computes, AtomicStore, Spin, AssertShared, AssertOwn, SetOk,
                      MemoryFault, StoreMemory, CallMyFunction, Fault, HandlerReturns
<1>2. ASSUME CallsKernel(t) PROVE life[t] = "running"
  BY <1>2, AtRuns DEF CallsKernel, Traced, RaiseSignal, SignalSetup, ReadToken, WriteToken,
                      CloseStdin, UnmapSecondPage, ChangeUser, CreateKid, ExecSelf,
                      CallFails, ExitProcess, ExitThread, JoinThread, WaitReports,
                      WaitFails, Waits, PollReports
<1>3. ASSUME Ptraces(t) PROVE life[t] = "running"
  BY <1>3, AtRuns DEF Ptraces, Query, Refused, PtraceUpdate, PtracePoke, PtraceResume,
                      PtraceAttach, PtraceInterrupt, SendSignal, Accepted
<1>4. ASSUME KernelActs(t) PROVE life[t] = "running"
  BY <1>4 DEF KernelActs, TakeSignal, SignalSpent, SignalKills, SignalHandled, Due,
              EnterTrap, SyscallEntry, SyscallExit, StepTrap, Ready
<1> QED BY <1>1, <1>2, <1>3, <1>4 DEF Runs

-----------------------------------------------------------------------------
(* What stays true when nobody comes back from the dead. *)

(* If nobody is born or dies, the dead stay as they are. *)
LEMMA AllAgeOnward ==
  ASSUME \A u \in Task : Ages(life[u], life'[u]), UNCHANGED exit
  PROVE  Onward
BY DEF Onward

(* Who is settled stays so while nobody comes back from the dead. *)
LEMMA SettledStays ==
  ASSUME TypeInv, TypeInv', Onward, NEW u \in {"tracee", "kid"}, Settled(u)
  PROVE  Settled(u)'
BY LivesDisjoint DEF Settled, Onward, Ages, Task, TypeInv, KernelOK

(* The tracer's waits stay done, and one more may be. *)
LEMMA ReapsKept ==
  ASSUME TypeInv, TypeInv', Honest, Onward, UNCHANGED code,
         \/ at'["tracer"].pc = at["tracer"].pc
         \/ /\ at'["tracer"].pc = at["tracer"].pc + 1
            /\ \A u \in {"tracee", "kid"} :
                 Reaps(code["tracer"][at["tracer"].pc], u) => Settled(u)'
  PROVE  ReapsDone'
<1> SUFFICES ASSUME NEW u \in {"tracee", "kid"}, NEW j \in 1 .. (at'["tracer"].pc - 1),
                    Reaps(code["tracer"][j], u)
             PROVE  Settled(u)'
  BY DEF ReapsDone
<1>1. at["tracer"].pc \in Nat
  BY DEF TypeInv, ControlOK, Task
<1>2. CASE j \in 1 .. (at["tracer"].pc - 1)
  <2>1. Settled(u)
    BY <1>2 DEF Honest, ReapsDone
  <2> QED BY <2>1, SettledStays
<1>3. CASE j \notin 1 .. (at["tracer"].pc - 1)
  <2>1. j = at["tracer"].pc /\ at'["tracer"].pc = at["tracer"].pc + 1
    BY <1>1, <1>3
  <2> QED BY <1>1, <2>1
<1> QED BY <1>2, <1>3

(* A step in which nobody ends. *)
LEMMA EndsKept ==
  ASSUME TypeInv, TypeInv', Honest, Onward, UNCHANGED <<exit, complaints, verdict, code>>
  PROVE  Recorded' /\ EndsReaped' /\ Complained' /\ Judged'
<1>1. Recorded'
  BY LivesDisjoint DEF Honest, Recorded, Onward, Ages
<1>2. EndsReaped'
  BY SettledStays DEF Honest, EndsReaped
<1>3. Complained'
  BY LivesDisjoint DEF Honest, Complained, Onward, Ages, Task, TypeInv, RestOK
<1>4. Judged'
  BY DEF Honest, Judged
<1> QED BY <1>1, <1>2, <1>3, <1>4

(* A step in which nobody starts either. *)
LEMMA FamilyKept ==
  ASSUME TypeInv, TypeInv', Honest, \A u \in Task : Ages(life[u], life'[u]), UNCHANGED code,
         \A u \in Task : k'[u].thread = k[u].thread,
         at'["tracer"].pc = 0 => at["tracer"].pc = 0
  PROVE  Family'
BY LivesDisjoint DEF Honest, Family, Ages, Task, TypeInv, KernelOK

-----------------------------------------------------------------------------
(* The steps, by kind. *)

(* A quiet step. *)
LEMMA QuietHonest ==
  ASSUME TypeInv, TypeInv', Honest, NEW t \in Task, Quiet(t)
  PROVE  Honest'
<1>1. Onward
  BY AllAgeOnward DEF Quiet
<1>2. Recorded' /\ EndsReaped' /\ Complained' /\ Judged'
  BY <1>1, EndsKept DEF Quiet
<1>3. at["tracer"].pc \in Nat
  BY DEF TypeInv, ControlOK, Task
<1>4. \/ UNCHANGED at
      \/ /\ at[t].pc \in DOMAIN Code(t) /\ Here(t).op # "wait"
         /\ at' = [at EXCEPT ![t].pc = @ + 1]
  BY DEF Quiet
<1>5. \A u \in Task : at'[u].fn = at[u].fn /\ (at'[u].pc = at[u].pc \/ (u = t /\ at'[u].pc = at[u].pc + 1))
  BY <1>4 DEF TypeInv, ControlOK
<1>6. InOwnFunction'
  BY <1>5 DEF Quiet, RecordsKept, Like, Honest, InOwnFunction, Task
<1>7. Family'
  BY <1>3, <1>5, FamilyKept DEF Quiet, RecordsKept, Like, Task
<1>8. ReapsDone'
  <2>1. CASE at'["tracer"].pc = at["tracer"].pc
    BY <1>1, <2>1, ReapsKept DEF Quiet
  <2>2. CASE at'["tracer"].pc # at["tracer"].pc
    <3>1. t = "tracer" /\ Here(t).op # "wait" /\ at'["tracer"].pc = at["tracer"].pc + 1
      BY <1>4, <1>5, <2>2 DEF Task
    <3>2. Here(t) = code["tracer"][at["tracer"].pc]
      BY <3>1 DEF Here, Code, Honest, InOwnFunction
    <3> QED BY <1>1, <3>1, <3>2, ReapsKept DEF Quiet, Reaps
  <2> QED BY <2>1, <2>2
<1> QED BY <1>2, <1>6, <1>7, <1>8 DEF Honest

(* The tracer's waitpid, if its check counts as a reaping and passes, found *)
(* the task dead, or found no task because fork() had failed.              *)
LEMMA WaitSettles ==
  ASSUME TypeInv, TypeInv', Honest, WaitReports("tracer") \/ WaitFails("tracer"),
         ~Abort("tracer"), NEW u \in {"tracee", "kid"}, Reaps(Here("tracer"), u)
  PROVE  Settled(u)'
<1>1. /\ life \in [Task -> Life] /\ "tracer" \in Task /\ u \in Task
      /\ Here("tracer").who = u /\ Here("tracer").ok \subseteq Ended
  BY DEF TypeInv, KernelOK, Task, Reaps
<1>2. CASE WaitReports("tracer")
  <2>1. PICK v \in Targets("tracer") :
          /\ Reportable("tracer", v) /\ StatusOf(v) \in Here("tracer").ok
          /\ Collect("tracer", v) /\ UNCHANGED exit
    BY <1>2 DEF WaitReports
  <2>2. v = u
    BY <1>1, <2>1 DEF Targets
  <2>3. life[u] = "zombie"
    <3>1. SUFFICES ASSUME life[u] # "zombie" PROVE FALSE
      OBVIOUS
    <3>2. StatusOf(u).kind = "stopped"
      BY <3>1 DEF StatusOf, StopStatus, StoppedBy, EventStop, SyscallGood, NoStatus
    <3> QED BY <1>1, <2>1, <2>2, <3>2, EndedKinds
  <2>4. exit[u] # Exited(1)
    BY <1>1, <2>1, <2>2, <2>3, EndedKinds DEF StatusOf
  <2>5. Ages(life[u], life'[u])
    BY <1>1, <2>1, <2>2, CollectKeeps DEF TypeInv
  <2> QED BY <2>1, <2>3, <2>4, <2>5 DEF Settled, Ages, Dead, Alive
<1>3. CASE WaitFails("tracer")
  <2>1. life["tracee"] = "absent" /\ Passive
    BY <1>1, <1>3, NoStatusNotEnded DEF WaitFails, Childless
  <2>2. life["kid"] = "absent" /\ exit["tracee"] = NoStatus /\ exit["kid"] = NoStatus
    BY <2>1 DEF Honest, Family, Recorded, Dead, Task
  <2> QED BY <2>1, <2>2, StatusesDiffer DEF Passive, Settled, Alive
<1> QED BY <1>2, <1>3

(* waitpid, of the tracer or the tracee, preserves the invariant. *)
LEMMA WaitHonest ==
  ASSUME TypeInv, TypeInv', Honest, NEW t \in Task, WaitReports(t) \/ WaitFails(t), ~Abort(t)
  PROVE  Honest'
<1>1. /\ Proceed(t) /\ RecordsKept /\ UNCHANGED <<exit, complaints, verdict, static>>
      /\ \A u \in Task : Ages(life[u], life'[u])
  BY WaitTypes
<1>2. Onward
  BY <1>1, AllAgeOnward
<1>3. UNCHANGED code
  BY <1>1 DEF static
<1>4. Recorded' /\ EndsReaped' /\ Complained' /\ Judged'
  BY <1>1, <1>2, <1>3, EndsKept
<1>5. at["tracer"].pc \in Nat
  BY DEF TypeInv, ControlOK, Task
<1>6. \A u \in Task : /\ at'[u].fn = at[u].fn /\ frame'[u] = frame[u]
                     /\ at'[u].pc = IF u = t THEN at[u].pc + 1 ELSE at[u].pc
  BY <1>1 DEF Proceed, Goto, TypeInv, ControlOK
<1>7. InOwnFunction'
  BY <1>1, <1>6 DEF RecordsKept, Like, Honest, InOwnFunction, Task
<1>8. Family'
  BY <1>1, <1>3, <1>5, <1>6, FamilyKept DEF RecordsKept, Like, Task
<1>9. ReapsDone'
  <2>1. CASE t # "tracer"
    BY <1>2, <1>3, <1>6, <2>1, ReapsKept DEF Task
  <2>2. CASE t = "tracer"
    <3>1. Here("tracer") = code["tracer"][at["tracer"].pc]
      BY DEF Here, Code, Honest, InOwnFunction
    <3>2. \A u \in {"tracee", "kid"} :
            Reaps(code["tracer"][at["tracer"].pc], u) => Settled(u)'
      BY <2>2, <3>1, WaitSettles
    <3> QED BY <1>2, <1>3, <1>6, <2>2, <3>2, ReapsKept
  <2> QED BY <2>1, <2>2
<1> QED BY <1>4, <1>7, <1>8, <1>9 DEF Honest

-----------------------------------------------------------------------------
(* Deaths. *)

(* Tasks that are alive die together, a thread with its process; a tracer   *)
(* that exits with 0 has waited for the others; whoever complains does so   *)
(* by dying with exit status 1.                                            *)
LEMMA DieHonest ==
  ASSUME TypeInv, TypeInv', Honest, NEW G \in SUBSET Task, NEW status \in Status,
         Die(G, status), UNCHANGED <<control, verdict, code>>,
         \A u \in G : life[u] \in Alive,
         "tracee" \in G /\ k["kid"].thread /\ life["kid"] \in Alive => "kid" \in G,
         Supervised(code) /\ "tracer" \in G /\ status = Exited(0)
           => Settled("tracee") /\ (ForksProcess(code) => Settled("kid")),
         complaints' \subseteq complaints \cup G,
         complaints' # complaints => status = Exited(1),
         "kid" \in complaints' /\ "kid" \notin complaints
           => ForksProcess(code) \/ "tracee" \in G
  PROVE  Honest'
<1>1. /\ RecordsKept
      /\ \A u \in G : life'[u] \in Dead /\ exit'[u] = status
      /\ \A u \in Task \ G : Ages(life[u], life'[u]) /\ exit'[u] = exit[u]
  BY DieEnds DEF TypeInv
<1>2. \A u \in Task : k'[u].thread = k[u].thread /\ k'[u].act = k[u].act
  BY <1>1 DEF RecordsKept, Like
<1>3. UNCHANGED <<at, frame, code, verdict>>
  BY DEF control
<1>4. life \in [Task -> Life] /\ life' \in [Task -> Life]
  BY DEF TypeInv, KernelOK
<1>5. Onward
  BY <1>1 DEF Onward
<1>6. Recorded'
  BY <1>1, LivesDisjoint DEF Honest, Recorded, Ages
<1>7. Family'
  BY <1>1, <1>2, <1>3, <1>4, LivesDisjoint DEF Honest, Family, Ages, Task
<1>8. InOwnFunction'
  BY <1>2, <1>3 DEF Honest, InOwnFunction, Task
<1>9. ReapsDone'
  BY <1>3, <1>5, ReapsKept
<1>10. EndsReaped'
  <2> SUFFICES ASSUME Supervised(code), exit'["tracer"] = Exited(0)
               PROVE  Settled("tracee")' /\ (ForksProcess(code) => Settled("kid")')
    BY <1>3 DEF EndsReaped
  <2>1. Settled("tracee") /\ (ForksProcess(code) => Settled("kid"))
    BY <1>1 DEF Honest, EndsReaped, Task
  <2> QED BY <1>5, <2>1, SettledStays
<1>11. Complained'
  <2>1. ASSUME NEW u \in complaints'
        PROVE  life'[u] \in Dead /\ exit'[u] = Exited(1)
    <3>1. CASE u \in complaints
      BY <1>5, <3>1, LivesDisjoint DEF Onward, Ages, Honest, Complained, TypeInv, RestOK
    <3>2. CASE u \notin complaints
      BY <1>1, <2>1, <3>2
    <3> QED BY <3>1, <3>2
  <2>2. ASSUME "kid" \in complaints', ~ForksProcess(code)
        PROVE  life'["tracee"] \in Dead /\ exit'["tracee"] = Exited(1)
    <3>1. CASE "kid" \in complaints
      BY <1>5, <2>2, <3>1, LivesDisjoint DEF Onward, Ages, Honest, Complained, Task
    <3>2. CASE "kid" \notin complaints
      BY <1>1, <2>2, <3>2
    <3> QED BY <3>1, <3>2
  <2> QED BY <1>3, <2>1, <2>2 DEF Complained
<1>12. Judged'
  <2> SUFFICES ASSUME verdict = "passed" PROVE exit'["tracer"] = Exited(0)
    BY <1>3 DEF Judged
  <2>1. exit["tracer"] = Exited(0)
    BY DEF Honest, Judged
  <2>2. life["tracer"] \notin Alive
    BY <2>1, StatusesDiffer, LivesDisjoint DEF Honest, Recorded, Task
  <2> QED BY <1>5, <2>1, <2>2 DEF Onward, Task
<1> QED BY <1>6, <1>7, <1>8, <1>9, <1>10, <1>11, <1>12 DEF Honest

(* A failed ASSERT, or main of a test that returns 1. *)
LEMMA AbortHonest ==
  ASSUME TypeInv, TypeInv', Honest, NEW t \in Task, life[t] = "running", Abort(t)
  PROVE  Honest'
<1> DEFINE G == Members(t)
<1>1. /\ G \in SUBSET Task /\ Exited(1) \in Status
  BY MembersAreTasks DEF Exited, NoStatus, Status, NoSig
<1>2. /\ \A u \in G : life[u] \in Alive
      /\ "tracee" \in G /\ k["kid"].thread /\ life["kid"] \in Alive => "kid" \in G
      /\ t \in G
  BY MembersFacts DEF Honest, Family, Alive
<1>3. /\ Die(G, Exited(1)) /\ complaints' = complaints \cup {t}
      /\ UNCHANGED <<control, verdict, code>>
  BY DEF Abort, static
<1>4. t = "kid" => ForksProcess(code) \/ "tracee" \in G
  BY MembersFacts DEF Honest, Family, Alive
<1> HIDE DEF G
<1>5. complaints' \subseteq complaints \cup G
  BY <1>2, <1>3
<1>6. "kid" \in complaints' /\ "kid" \notin complaints
        => ForksProcess(code) \/ "tracee" \in G
  BY <1>3, <1>4
<1> QED BY <1>1, <1>2, <1>3, <1>5, <1>6, StatusesDiffer, DieHonest

(* The tracer's exit(0) is behind its waits for the others. *)
LEMMA ExitReaped ==
  ASSUME TypeInv, Honest, Supervised(code), at["tracer"].pc \in DOMAIN Code("tracer"),
         Here("tracer").op = "exit_group"
  PROVE  Settled("tracee") /\ (ForksProcess(code) => Settled("kid"))
<1> DEFINE i == at["tracer"].pc
<1>1. i \in DOMAIN code["tracer"] /\ code["tracer"][i].op = "exit_group"
  BY DEF Here, Code, Honest, InOwnFunction
<1>2. /\ ReapedBefore(code, i, "tracee")
      /\ ForksProcess(code) => ReapedBefore(code, i, "kid")
  BY <1>1 DEF Supervised
<1>3. ASSUME NEW u \in {"tracee", "kid"}, ReapedBefore(code, i, u) PROVE Settled(u)
  BY <1>3 DEF ReapedBefore, Honest, ReapsDone
<1> QED BY <1>2, <1>3

(* Ends that are no failed ASSERT: exit, the end of a thread, a signal. *)
LEMMA EndingHonest ==
  ASSUME TypeInv, TypeInv', Honest, Contained(code), NEW t \in Task,
         ExitProcess(t) \/ ExitThread(t) \/ SignalKills(t)
  PROVE  Honest'
<1>1. complaints \subseteq Task /\ k[t] \in TaskRec
  BY DEF TypeInv, RestOK, KernelOK
<1>2. life[t] = "running"
  BY AtRuns DEF ExitProcess, ExitThread, SignalKills, Due
<1>3. /\ Members(t) \in SUBSET Task /\ \A u \in Members(t) : life[u] \in Alive
      /\ "tracee" \in Members(t) /\ k["kid"].thread /\ life["kid"] \in Alive
           => "kid" \in Members(t)
      /\ "tracer" \in Members(t) => t = "tracer"
  BY MembersAreTasks, MembersFacts
<1>4. CASE ExitProcess(t)
  <2> DEFINE c == IF k[t].regs["arg"] = OwnArg THEN Here(t).n ELSE k[t].regs["arg"]
  <2>1. at[t].pc \in DOMAIN Code(t) /\ Here(t).op = "exit_group"
    BY <1>4, AtRuns DEF ExitProcess
  <2>2. Here(t).n \in Nat
    BY <2>1, HereFits DEF WellFormed
  <2>3. c \in Nat
    BY <1>1, <2>2 DEF TaskRec, Reg
  <2>4. Exited(c) \in Status
    BY <2>3 DEF Exited, NoStatus, Status, NoSig
  <2>5. /\ Die(Members(t), Exited(c))
        /\ UNCHANGED <<control, verdict, code>> /\ UNCHANGED complaints
    BY <1>4 DEF ExitProcess, static
  <2> HIDE DEF c
  <2>6. Supervised(code) /\ "tracer" \in Members(t)
          => Settled("tracee") /\ (ForksProcess(code) => Settled("kid"))
    BY <1>3, <2>1, ExitReaped
  <2> QED BY <1>3, <2>4, <2>5, <2>6, DieHonest
<1>5. CASE ExitThread(t)
  <2>1. Exited(0) \in Status
    BY DEF Exited, NoStatus, Status, NoSig
  <2>2. at[t].pc \in DOMAIN code[at[t].fn] /\ code[at[t].fn][at[t].pc].op = "exit"
    BY <1>5, AtRuns DEF ExitThread, Here, Code
  <2>3. at[t].fn \in Fn
    BY DEF TypeInv, ControlOK
  <2>4. t = "kid"
    BY <2>2, <2>3 DEF Contained, Honest, InOwnFunction, Task, Fn
  <2>5. /\ Die({t}, Exited(0))
        /\ UNCHANGED <<control, verdict, code>> /\ UNCHANGED complaints
    BY <1>5 DEF ExitThread, static
  <2>6. \A u \in {t} : life[u] \in Alive
    BY <1>2 DEF Alive
  <2>7. "tracee" \notin {t} /\ "tracer" \notin {t} /\ {t} \in SUBSET Task
    BY <2>4
  <2> QED BY <2>1, <2>5, <2>6, <2>7, DieHonest
<1>6. CASE SignalKills(t)
  <2> DEFINE s == Signaled(k[t].due.signo)
  <2>1. k[t].due \in Info
    BY <1>1, <1>6 DEF SignalKills, Due, TaskRec
  <2>2. s \in Status
    BY <2>1 DEF Signaled, NoStatus, Status, NoSig, Info
  <2>3. s # Exited(0)
    BY StatusesDiffer
  <2>4. /\ Die(Members(t), s)
        /\ UNCHANGED <<control, verdict, code>> /\ UNCHANGED complaints
    BY <1>6 DEF SignalKills, static
  <2> HIDE DEF s
  <2> QED BY <1>3, <2>2, <2>3, <2>4, DieHonest
<1> QED BY <1>4, <1>5, <1>6

-----------------------------------------------------------------------------
(* The steps that redirect, create or replace a task. *)

(* A step that creates and ends nobody and keeps the tracer in its program. *)
LEMMA NobodyEnds ==
  ASSUME TypeInv, TypeInv', Honest, Onward, UNCHANGED <<exit, complaints, verdict, code>>,
         Family', InOwnFunction',
         \/ at'["tracer"].pc = at["tracer"].pc
         \/ at'["tracer"].pc = at["tracer"].pc + 1 /\ Here("tracer").op # "wait"
  PROVE  Honest'
<1>1. Recorded' /\ EndsReaped' /\ Complained' /\ Judged'
  BY EndsKept
<1>2. Here("tracer") = code["tracer"][at["tracer"].pc]
  BY DEF Here, Code, Honest, InOwnFunction
<1>3. ReapsDone'
  BY <1>2, ReapsKept DEF Reaps
<1> QED BY <1>1, <1>3 DEF Honest

(* sigprocmask or sigaction; the tracer installs no handler. *)
LEMMA SignalSetupHonest ==
  ASSUME TypeInv, TypeInv', Honest, Contained(code), NEW t \in Task, SignalSetup(t)
  PROVE  Honest'
<1> DEFINE r == Ret(k[t], 0)
<1>1. /\ Proceed(t) /\ UNCHANGED <<life, exit, complaints, verdict, code>>
      /\ k \in [Task -> TaskRec] /\ RecordOK(k[t])
  BY DEF SignalSetup, Passive, static, TypeInv, KernelOK
<1>2. at[t].pc \in DOMAIN Code(t) /\ Here(t).op \in {"setmask", "sigaction"}
  BY AtRuns DEF SignalSetup
<1>3. r \in TaskRec /\ r.thread = k[t].thread /\ r.act = k[t].act
  BY <1>1, RetLike DEF Like, RecordOK
<1>4. PICK q : /\ k' = [k EXCEPT ![t] = q] /\ q.thread = r.thread
               /\ q.act = r.act \/ Here(t).op = "sigaction"
  <2> DEFINE m == [r EXCEPT !.mask = Here(t).sigs]
             a == [r EXCEPT !.act[Here(t).sig] = Here(t).disp]
  <2>1. m.thread = r.thread /\ m.act = r.act /\ a.thread = r.thread
    BY <1>3 DEF TaskRec
  <2>2. k' = [k EXCEPT ![t] = m] \/ (Here(t).op = "sigaction" /\ k' = [k EXCEPT ![t] = a])
    BY AtRuns DEF SignalSetup
  <2> HIDE DEF m, a, r
  <2> QED BY <2>1, <2>2
<1> HIDE DEF r
<1>5. \A u \in Task : k'[u].thread = k[u].thread
  BY <1>1, <1>3, <1>4
<1>6. t = "tracer" => Here(t).op # "sigaction"
  BY <1>2 DEF Contained, Here, Code, Honest, InOwnFunction
<1>7. k'["tracer"].act = k["tracer"].act
  BY <1>1, <1>3, <1>4, <1>6 DEF Task
<1>8. \A u \in Task : /\ at'[u].fn = at[u].fn /\ frame'[u] = frame[u]
                     /\ at'[u].pc = IF u = t THEN at[u].pc + 1 ELSE at[u].pc
  BY <1>1 DEF Proceed, Goto, TypeInv, ControlOK
<1>9. at["tracer"].pc \in Nat
  BY DEF TypeInv, ControlOK, Task
<1>10. \A u \in Task : Ages(life[u], life'[u])
  BY <1>1 DEF Ages
<1>11. Family'
  BY <1>1, <1>5, <1>8, <1>9, <1>10, FamilyKept DEF Task
<1>12. InOwnFunction'
  BY <1>7, <1>8 DEF Honest, InOwnFunction, Task
<1> QED BY <1>1, <1>2, <1>8, <1>10, <1>11, <1>12, AllAgeOnward, NobodyEnds DEF Task

(* A handler is entered or left; the tracer has none. *)
LEMMA HandlerHonest ==
  ASSUME TypeInv, TypeInv', Honest, Contained(code), NEW t \in Task,
         HandlerReturns(t) \/ SignalHandled(t)
  PROVE  Honest'
<1>1. UNCHANGED <<exit, complaints, verdict, code>>
  BY DEF HandlerReturns, SignalHandled, Passive, static
<1>2. t # "tracer"
  <2>1. ASSUME HandlerReturns("tracer") PROVE FALSE
    BY <2>1, AtRuns DEF HandlerReturns, Contained, Here, Code, Honest, InOwnFunction
  <2>2. ASSUME SignalHandled("tracer") PROVE FALSE
    <3>1. k["tracer"].due \in Info
      BY <2>2 DEF SignalHandled, Due, TypeInv, KernelOK, TaskRec, Task
    <3>2. k["tracer"].act[k["tracer"].due.signo] = "handler"
      BY <2>2 DEF SignalHandled
    <3> QED BY <3>1, <3>2 DEF Honest, InOwnFunction, Info
  <2> QED BY <2>1, <2>2
<1>3. RecordsKept
  BY HandlerTypes
<1>4. \A u \in Task : Ages(life[u], life'[u])
  BY DEF HandlerReturns, SignalHandled, Due, Passive, Ages, Alive, Dead, TypeInv, KernelOK
<1>5. at'["tracer"] = at["tracer"]
  BY <1>2 DEF HandlerReturns, SignalHandled, TypeInv, ControlOK, Task
<1>6. at'["tracee"].fn # "kid" /\ frame'["tracee"].fn # "kid"
  <2>1. CASE t # "tracee"
    BY <2>1 DEF HandlerReturns, SignalHandled, TypeInv, ControlOK, Task, Honest, InOwnFunction
  <2>2. CASE t = "tracee" /\ HandlerReturns(t)
    BY <2>2 DEF HandlerReturns, TypeInv, ControlOK, Honest, InOwnFunction, NoFrame
  <2>3. CASE t = "tracee" /\ SignalHandled(t)
    BY <2>3 DEF SignalHandled, TypeInv, ControlOK, Honest, InOwnFunction
  <2> QED BY <2>1, <2>2, <2>3
<1>7. InOwnFunction'
  BY <1>3, <1>5, <1>6 DEF RecordsKept, Like, Honest, InOwnFunction, Task
<1>8. Family'
  BY <1>1, <1>3, <1>4, <1>5, FamilyKept DEF RecordsKept, Like
<1> QED BY <1>1, <1>4, <1>5, <1>7, <1>8, AllAgeOnward, NobodyEnds

(* The tracee creates a process or a thread: a tracer that waited for the   *)
(* end of the tracee before would have found it dead.                      *)
LEMMA CreateKidHonest ==
  ASSUME TypeInv, TypeInv', Honest, Contained(code), NEW t \in Task, CreateKid(t)
  PROVE  Honest'
<1>1. at[t].pc \in DOMAIN Code(t) /\ Here(t).op = "clone" /\ life[t] = "running"
  BY AtRuns DEF CreateKid
<1>2. t = "tracee"
  BY <1>1, CreateKidTypes DEF Contained, Here, Code, Honest, InOwnFunction, Task
<1>3. /\ k'["kid"].thread = Here(t).thread
      /\ \A u \in Task \ {"kid"} : Like(k[u], k'[u])
      /\ \A u \in Task \ {"kid"} : Ages(life[u], life'[u])
  BY CreateKidTypes
<1>4. /\ life["kid"] = "absent" /\ life["tracee"] \in Alive /\ life'["tracee"] \in Alive
      /\ UNCHANGED <<exit, complaints, verdict, code, frame>>
      /\ at'["tracer"] = at["tracer"] /\ at'["tracee"].fn = at["tracee"].fn
  <2>1. life["kid"] = "absent" /\ life["tracee"] \in Alive
    BY <1>1, <1>2 DEF CreateKid, Alive
  <2>2. life'["tracee"] \in Alive
    BY <1>3, <2>1 DEF Ages, Task
  <2>3. UNCHANGED <<exit, complaints, verdict, code, frame>>
    BY DEF CreateKid, static
  <2>4. at' = [at EXCEPT ![t].pc = @ + 1, !["kid"] = [fn |-> "kid", pc |-> 1]]
    BY DEF CreateKid
  <2>5. at'["tracer"] = at["tracer"] /\ at'["tracee"].fn = at["tracee"].fn
    BY <1>2, <2>4 DEF TypeInv, ControlOK, Task
  <2> QED BY <2>1, <2>2, <2>3, <2>5
<1>5. ~Settled("tracee") /\ ~Settled("kid")
  BY <1>4 DEF Settled
<1>6. Recorded'
  BY <1>3, <1>4, LivesDisjoint DEF Honest, Recorded, Ages
<1>7. Family'
  <2>1. ~Here(t).thread => ForksProcess(code)
    <3>1. at[t].fn \in Fn
      BY DEF TypeInv, ControlOK
    <3> QED BY <1>1, <3>1 DEF ForksProcess, Here, Code
  <2> QED BY <1>3, <1>4, <2>1, LivesDisjoint DEF Honest, Family, Like, Task
<1>8. InOwnFunction'
  BY <1>3, <1>4 DEF Honest, InOwnFunction, Like, Task
<1>9. ReapsDone'
  BY <1>4, <1>5 DEF Honest, ReapsDone
<1>10. EndsReaped'
  BY <1>4, <1>5 DEF Honest, EndsReaped
<1>11. Complained'
  BY <1>3, <1>4, LivesDisjoint DEF Honest, Complained, Ages, TypeInv, RestOK
<1>12. Judged'
  BY <1>4 DEF Honest, Judged
<1> QED BY <1>6, <1>7, <1>8, <1>9, <1>10, <1>11, <1>12 DEF Honest

(* execve, of a thread perhaps: its process was alive and stays so. *)
LEMMA ExecSelfHonest ==
  ASSUME TypeInv, TypeInv', Honest, Contained(code), NEW t \in Task, ExecSelf(t)
  PROVE  Honest'
<1> DEFINE s == Successor(t)
<1>1. at[t].pc \in DOMAIN Code(t) /\ Here(t).op = "execve" /\ life[t] = "running"
  BY AtRuns DEF ExecSelf
<1>2. t \in {"tracee", "kid"}
  BY <1>1 DEF Contained, Here, Code, Honest, InOwnFunction, Task
<1>3. /\ s \in Task /\ life'[s] \in Alive /\ k'[s].thread = FALSE
      /\ t # s => life'[t] = "gone" /\ k'[t].thread = FALSE
      /\ \A u \in Task \ {t, s} : k'[u] = k[u] /\ life'[u] = life[u]
  BY ExecSelfTypes
<1>4. /\ s = t \/ (s = "tracee" /\ t = "kid" /\ k[t].thread)
      /\ s = t => ~k[t].thread
  BY <1>2 DEF Successor, Honest, Family
<1>5. life[t] \in Alive /\ life[s] \in Alive
  BY <1>1, <1>4 DEF Honest, Family, Alive
<1>6. /\ UNCHANGED <<exit, complaints, verdict, code>>
      /\ at' = [at EXCEPT ![s] = [fn |-> "exec", pc |-> 1]]
      /\ frame' = [frame EXCEPT ![s] = NoFrame]
  BY DEF ExecSelf, Successor, static
<1> HIDE DEF s
<1>7. at'["tracer"] = at["tracer"] /\ k'["tracer"] = k["tracer"]
  BY <1>2, <1>3, <1>4, <1>6 DEF Task, TypeInv, ControlOK
<1>8. Onward
  BY <1>3, <1>5, <1>6 DEF Onward, Ages
<1>9. InOwnFunction'
  BY <1>3, <1>6, <1>7 DEF Honest, InOwnFunction, TypeInv, ControlOK, NoFrame, Task
<1>10. Family'
  BY <1>2, <1>3, <1>4, <1>5, <1>6, <1>7, LivesDisjoint DEF Honest, Family, Task, Dead
<1> QED BY <1>6, <1>7, <1>8, <1>9, <1>10, NobodyEnds

-----------------------------------------------------------------------------
(* The harness around the tests. *)

(* fork() succeeds or fails; nobody has waited for anybody yet. *)
LEMMA ForkHonest ==
  ASSUME TypeInv, TypeInv', Honest, TestMainForks \/ TestMainForkFails
  PROVE  Honest'
<1>1. UNCHANGED <<frame, k, exit, complaints, verdict, code>>
  BY ForkTypes
<1>2. life["tracer"] = "running" /\ at["tracer"].pc = 0
  BY DEF TestMainForks, TestMainForkFails
<1>3. /\ life["tracee"] = "absent" /\ life["kid"] = "absent"
      /\ exit["tracer"] = NoStatus /\ complaints \subseteq Task
  BY <1>2 DEF Honest, Family, Recorded, Dead, Task, TypeInv, RestOK
<1>4. complaints = {}
  BY <1>2, <1>3, LivesDisjoint DEF Honest, Complained, Task, Dead
<1>5. /\ at'["tracer"] = [fn |-> "tracer", pc |-> 1] /\ at'["tracee"] = at["tracee"]
      /\ life'["tracer"] = "running" /\ life'["kid"] = "absent"
      /\ life'["tracee"] \in {"absent", "running"}
  BY <1>2, <1>3 DEF TestMainForks, TestMainForkFails, Goto, TypeInv, ControlOK, KernelOK,
                    Task, Honest, InOwnFunction
<1>6. Recorded'
  BY <1>1, <1>3, <1>5 DEF Honest, Recorded, Dead, Task
<1>7. Family'
  BY <1>1, <1>5 DEF Honest, Family, Alive
<1>8. InOwnFunction'
  BY <1>1, <1>5 DEF Honest, InOwnFunction
<1>9. ReapsDone'
  BY <1>5 DEF ReapsDone
<1>10. EndsReaped' /\ Complained' /\ Judged'
  BY <1>1, <1>3, <1>4, StatusesDiffer DEF Honest, EndsReaped, Complained, Judged
<1> QED BY <1>6, <1>7, <1>8, <1>9, <1>10 DEF Honest

(* An ASSERT of TEST_MAIN fails before there is a tracee. *)
LEMMA TestMainHonest ==
  ASSUME TypeInv, TypeInv', TestMain
  PROVE  UNCHANGED code /\ (Honest => Honest')
<1>1. CASE TestMainSetupFails
  BY <1>1, AbortHonest DEF TestMainSetupFails, Abort, static, Task
<1>2. CASE TestMainForks \/ TestMainForkFails
  BY <1>2, ForkTypes, ForkHonest
<1> QED BY <1>1, <1>2 DEF TestMain

(* run.sh says "passed" of exit status 0 only. *)
LEMMA CollectHonest ==
  ASSUME TypeInv, Honest, RunnerCollects
  PROVE  Honest'
<1>1. UNCHANGED <<at, frame, life, exit, k, complaints, code>>
  BY CollectedTypes
<1>2. Judged'
  BY <1>1 DEF RunnerCollects, Judged
<1>3. Recorded' /\ Family' /\ InOwnFunction'
  BY <1>1 DEF Honest, Recorded, Family, InOwnFunction
<1>4. ReapsDone' /\ EndsReaped' /\ Complained'
  BY <1>1 DEF Honest, ReapsDone, EndsReaped, Complained, Settled
<1> QED BY <1>2, <1>3, <1>4 DEF Honest

(* A step that changes nothing. *)
LEMMA StutterHonest == ASSUME Honest, UNCHANGED vars PROVE Honest'
<1>1. UNCHANGED <<at, frame, life, exit, k, complaints, code, verdict>>
  BY DEF vars, control, static
<1>2. Recorded' /\ Family' /\ InOwnFunction' /\ Judged'
  BY <1>1 DEF Honest, Recorded, Family, InOwnFunction, Judged
<1>3. ReapsDone' /\ EndsReaped' /\ Complained'
  BY <1>1 DEF Honest, ReapsDone, EndsReaped, Complained, Settled
<1> QED BY <1>2, <1>3 DEF Honest

-----------------------------------------------------------------------------
(* The theorem. *)

(* Nobody has ended, waited or complained in a test that just started. *)
LEMMA NewbornHonest == Newborn => HonestInv
<1> SUFFICES ASSUME Newborn PROVE Honest
  BY NewbornTypes DEF HonestInv
<1>1. Recorded /\ Family /\ Complained
  BY DEF Newborn, Recorded, Family, Complained, Alive, NewTask, Task
<1>2. /\ \A t \in Task : at[t].fn = t
      /\ at["tracer"].pc \in {0, 1}
  BY DEF Newborn, Task
<1>3. InOwnFunction
  BY <1>2 DEF Newborn, InOwnFunction, NewTask, NoFrame, Task
<1>4. ReapsDone
  BY <1>2 DEF ReapsDone
<1>5. EndsReaped /\ Judged
  BY StatusesDiffer DEF Newborn, EndsReaped, Judged, Task
<1> QED BY <1>1, <1>3, <1>4, <1>5 DEF Honest

(* The step of a task preserves the invariant of a contained test. *)
LEMMA RunsHonest ==
  ASSUME TypeInv, TypeInv', NEW t \in Task, Runs(t)
  PROVE  UNCHANGED code /\ (Honest /\ Contained(code) => Honest')
<1>1. CASE Quiet(t) \/ Abort(t)
  BY <1>1, QuietHonest, AbortHonest, RunsRunning DEF Quiet, Abort, static
<1>2. CASE HandlerReturns(t) \/ SignalHandled(t)
  BY <1>2, HandlerHonest DEF HandlerReturns, SignalHandled, Passive, static
<1>3. CASE SignalSetup(t)
  BY <1>3, SignalSetupHonest DEF SignalSetup, Passive, static
<1>4. CASE CreateKid(t) \/ ExecSelf(t)
  BY <1>4, CreateKidHonest, ExecSelfHonest DEF CreateKid, ExecSelf, static
<1>5. CASE ExitProcess(t) \/ ExitThread(t) \/ SignalKills(t)
  BY <1>5, EndingHonest DEF ExitProcess, ExitThread, SignalKills, static
<1>6. CASE (WaitReports(t) \/ WaitFails(t)) /\ ~Abort(t)
  BY <1>6, WaitTypes, WaitHonest DEF static
<1>7. CASE Computes(t)
  BY <1>1, <1>2, <1>7, ComputesSteps
<1>8. CASE CallsKernel(t)
  BY <1>1, <1>3, <1>4, <1>5, <1>6, <1>8, CallsQuietly DEF CallsKernel
<1>9. CASE Ptraces(t)
  BY <1>1, <1>9, PtracesSteps
<1>10. CASE KernelActs(t)
  BY <1>1, <1>2, <1>5, <1>10, KernelActsSteps
<1> QED BY <1>7, <1>8, <1>9, <1>10 DEF Runs

(* Every step preserves the invariant. *)
LEMMA NextHonest == HonestInv /\ [Next]_vars => HonestInv'
<1> SUFFICES ASSUME HonestInv, [Next]_vars PROVE HonestInv'
  OBVIOUS
<1>1. TypeInv /\ TypeInv'
  BY NextTypes DEF HonestInv
<1>2. UNCHANGED code /\ (Honest /\ Contained(code) => Honest')
  <2>1. CASE TestMain
    BY <1>1, <2>1, TestMainHonest
  <2>2. CASE RunnerCollects
    BY <1>1, <2>2, CollectedTypes, CollectHonest
  <2>3. CASE \E t \in Task : Runs(t)
    BY <1>1, <2>3, RunsHonest
  <2>4. CASE UNCHANGED vars
    BY <2>4, StutterHonest DEF vars, static
  <2> QED BY <2>1, <2>2, <2>3, <2>4 DEF Next
<1>3. Contained(code)' <=> Contained(code)
  BY <1>2 DEF Contained
<1> QED BY <1>1, <1>2, <1>3 DEF HonestInv

(* Supervision implies the property: the kid's complaint would be the       *)
(* tracee's exit status, or the kid a process the tracer waited for.       *)
LEMMA SupervisedVerdict == HonestInv => (Supervised(code) => VerdictHonest)
<1> SUFFICES ASSUME HonestInv, Supervised(code), verdict = "passed", NEW u \in complaints
             PROVE  FALSE
  BY DEF VerdictHonest
<1>1. Honest /\ complaints \subseteq Task
  BY DEF HonestInv, TypeInv, RestOK, Supervised
<1>2. /\ exit["tracer"] = Exited(0) /\ Settled("tracee")
      /\ ForksProcess(code) => Settled("kid")
  BY <1>1 DEF Honest, Judged, EndsReaped
<1>3. exit[u] = Exited(1)
  BY <1>1 DEF Honest, Complained
<1>4. u = "kid"
  BY <1>1, <1>2, <1>3, StatusesDiffer DEF Settled, Task
<1>5. ~ForksProcess(code) /\ exit["tracee"] # Exited(1)
  BY <1>2, <1>3, <1>4 DEF Settled
<1> QED BY <1>1, <1>4, <1>5 DEF Honest, Complained

(* The invariant implies the property: whom the tracer waited for is over,  *)
(* and a thread is over with its process.                                  *)
LEMMA HonestLeavesNothing == HonestInv => (Supervised(code) => NothingLeftBehind)
<1> SUFFICES ASSUME HonestInv, Supervised(code), exit["tracer"] = Exited(0), NEW t \in Task
             PROVE  life[t] \notin Alive
  BY DEF NothingLeftBehind
<1>1. Honest
  BY DEF HonestInv, Supervised
<1>2. /\ life["tracee"] \notin Alive
      /\ ForksProcess(code) => life["kid"] \notin Alive
  BY <1>1 DEF Honest, EndsReaped, Settled
<1>3. life["tracer"] \notin Alive
  BY <1>1, StatusesDiffer, LivesDisjoint DEF Honest, Recorded, Task
<1>4. life["kid"] \notin Alive
  BY <1>1, <1>2 DEF Honest, Family
<1> QED BY <1>2, <1>3, <1>4 DEF Task

(* NothingLeftBehind: the tracer of a supervised test returns 0 from main   *)
(* only when every task of the test is over, so that run.sh can go on.     *)
THEOREM SupervisedLeavesNothing == Spec => [](Supervised(code) => NothingLeftBehind)
<1>1. Spec => []HonestInv
  BY InitNewborn, NewbornHonest, NextHonest, PTL DEF Spec
<1> QED BY <1>1, HonestLeavesNothing, PTL
=============================================================================
