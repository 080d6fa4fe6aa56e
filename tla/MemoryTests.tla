---------------------------- MODULE MemoryTests ----------------------------
(***************************************************************************)
(* The tests about PTRACE_PEEKDATA and PTRACE_POKEDATA, and the errors of  *)
(* a request on a task that is not stopped or not traced.  The shared      *)
(* mapping is two pages; PageBytes scales their 4096 bytes, and a u64 is   *)
(* the sequence of its bytes, lowest first.                                *)
(***************************************************************************)
EXTENDS Statements

shared_u64  == 8
at_end      == PageBytes - 2                  \* 4094
OutsideMap  == 2 * PageBytes                  \* 0x10000

value       == <<137, 103, 69, 35, 1, 239, 205, 171>>       \* 0xABCDEF0123456789
new_value   == <<52, 18, 254, 202, 239, 190, 173, 222>>     \* 0xDEADBEEFCAFE1234

StopsItself == <<Traceme, Raise("SIGSTOP")>>
Finishes    == <<ReadPipe, Exit(0)>>

(* The tracer of all of these: wait for the SIGSTOP, inspect, let go. *)
Inspects(requests) ==
  <<Wait("tracee", {StoppedBy("SIGSTOP")})>> \o requests \o
  <<Cont("tracee", NoSig), WritePipe, WaitExit("tracee"), Exit(0)>>

-----------------------------------------------------------------------------
PeekdataTracee == <<StoreBytes(shared_u64, value)>> \o StopsItself \o Finishes

PeekdataTracer == Inspects(<<Peek("tracee", shared_u64, value, {"ok"})>>)

(* The word one byte further on: seven bytes of value and the one after it. *)
PeekdataUnalignedTracee ==
  <<StoreBytes(shared_u64, value), StoreBytes(shared_u64 + 8, <<170>>)>>
    \o StopsItself \o Finishes

PeekdataUnalignedTracer ==
  Inspects(<<Peek("tracee", shared_u64 + 1, SubSeq(value, 2, 8) \o <<170>>, {"ok"})>>)

PeekdataCrossPageTracee == <<StoreBytes(at_end, value)>> \o StopsItself \o Finishes

PeekdataCrossPageTracer == Inspects(<<Peek("tracee", at_end, value, {"ok"})>>)

PeekdataFaultTracee == <<Munmap>> \o StopsItself \o Finishes

PeekdataFaultTracer == Inspects(<<Peek("tracee", at_end, value, {"EIO"})>>)

PokedataTracee ==
  <<StoreBytes(shared_u64, value)>> \o StopsItself \o
  <<AssertWord(shared_u64, new_value)>> \o Finishes

PokedataTracer ==
  Inspects(<<PeekRaw("tracee", shared_u64, value), Poke("tracee", shared_u64, new_value),
             PeekRaw("tracee", shared_u64, new_value)>>)

-----------------------------------------------------------------------------
(* usleep(500000) gives no guarantee, so it is no statement here. *)
StopNotObservedTracee == PeekdataTracee

StopNotObservedTracer ==
  <<Peek("tracee", shared_u64, value, {"ok"}), Cont("tracee", NoSig), WritePipe,
    WaitExit("tracee"), Exit(0)>>

EsrchNotStoppedTracee == <<Traceme, FetchAdd, ReadPipe, Exit(0)>>

(* Variant of EsrchNotStoppedTracer: it does not wait for PTRACE_TRACEME. *)
EsrchNotStoppedTracerEager ==
  <<Peek("tracee", OutsideMap, value, {"ESRCH"}), WritePipe, WaitExit("tracee"), Exit(0)>>

EsrchNotStoppedTracer ==
  <<SpinUntil(1), Peek("tracee", OutsideMap, value, {"ESRCH"}), WritePipe,
    WaitExit("tracee"), Exit(0)>>

EsrchNotTracedTracee == Finishes

(* Variant of EsrchNotTracedTracer: it returns without wait_exit. *)
EsrchNotTracedTracerNoReap ==
  <<Peek("tracee", OutsideMap, value, {"ESRCH"}), WritePipe, Exit(0)>>

EsrchNotTracedTracer ==
  <<Peek("tracee", OutsideMap, value, {"ESRCH"}), WritePipe, WaitExit("tracee"), Exit(0)>>
=============================================================================
