---------------------------- MODULE DeadlockDemo ----------------------------
(***************************************************************************)
(* deadlock.c: two "files", each a C string under a spin lock, and the two *)
(* demonstrations a chat user can run.  There are no threads: the main     *)
(* loop plays both users, and in the unsafe demonstration it takes the     *)
(* second user's lock by storing 1 into it.  What the demonstrations print *)
(* is left out.                                                            *)
(***************************************************************************)
EXTENDS CStrings

CONSTANTS Text,       \* the characters of file names
          Name,       \* the two literals deadlock_init writes are among these
          FileMax     \* the size of a file's data array

ASSUME DemoAssumption == /\ NUL \notin Text
                         /\ FileMax \in Nat \ {0}
                         /\ Name \subseteq Seq(Text)
                         /\ \A s \in Name : Len(s) < FileMax

VARIABLES locked,     \* user to the lock word of the user's file
          data,       \* user to the data array of the user's file
          tmp,        \* the local array of deadlock_demo_safe
          dpc         \* where the main loop is

vars == <<locked, data, tmp, dpc>>

User == {"vga", "serial"}
Cell == 0 .. FileMax - 1
Array == [Cell -> Text \cup {NUL}]

Unsafe == {"u_vga", "u_inject", "u_serial"}
Safe == {"s_vga", "s_serial", "s_tmp", "s_copy_vga", "s_copy_serial"}
Swapped == {"s_free_serial", "s_free_vga"}
PC == {"boot", "idle", "u_after"} \cup Unsafe \cup Safe \cup Swapped

Copy(dst, src) == StrCopy(dst, src, FileMax)

-----------------------------------------------------------------------------
Init == /\ locked = [u \in User |-> 0]
        /\ data = [u \in User |-> [i \in Cell |-> NUL]]
        /\ tmp = [i \in Cell |-> NUL]
        /\ dpc = "boot"

Go(from, to) == dpc = from /\ dpc' = to

ClearLocks == locked' = [u \in User |-> 0]

\* Fault: an increment instead of an exchange.
SpinAdd(u, from, to) ==
  /\ dpc = from
  /\ locked' = [locked EXCEPT ![u] = @ + 1]
  /\ dpc' = IF locked[u] = 0 THEN to ELSE from

\* One turn of spin_lock's loop: XCHG stores 1 and returns the old word.
Spin(u, from, to) ==
  /\ dpc = from
  /\ locked' = [locked EXCEPT ![u] = 1]
  /\ dpc' = IF locked[u] = 0 THEN to ELSE from

Unlock(u) == locked' = [locked EXCEPT ![u] = 0]

\* deadlock_init
DeadlockInit(v, s) ==
  /\ Go("boot", "idle")
  /\ ClearLocks
  /\ data' = [vga    |-> Copy(data["vga"], Literal(v)),
              serial |-> Copy(data["serial"], Literal(s))]
  /\ UNCHANGED tmp

-----------------------------------------------------------------------------
(* deadlock_demo_unsafe                                                     *)
CallUnsafe == /\ Go("idle", "u_vga")
              /\ ClearLocks
              /\ UNCHANGED <<data, tmp>>

UnsafeLockVga == /\ Spin("vga", "u_vga", "u_inject")
                 /\ UNCHANGED <<data, tmp>>

\* Fault: the simulated second user does not take its lock.
UnsafeNoInject == /\ Go("u_inject", "u_serial")
                  /\ UNCHANGED <<locked, data, tmp>>

\* The store that stands for the other user's spin_lock.
UnsafeInject == /\ Go("u_inject", "u_serial")
                /\ locked' = [locked EXCEPT !["serial"] = 1]
                /\ UNCHANGED <<data, tmp>>

\* The spin that never ends; NeverAfter says so, hence no action leaves
\* "u_after".
UnsafeLockSerial == /\ Spin("serial", "u_serial", "u_after")
                    /\ UNCHANGED <<data, tmp>>

-----------------------------------------------------------------------------
(* deadlock_demo_safe.  tmp is not initialised: any bytes may be in it.     *)
CallSafe == /\ Go("idle", "s_vga")
            /\ ClearLocks
            /\ tmp' \in Array
            /\ UNCHANGED data

SafeLockVga == /\ Spin("vga", "s_vga", "s_serial")
               /\ UNCHANGED <<data, tmp>>

\* Fault: the first lock is taken twice.
SafeLockVgaTwice == /\ Spin("vga", "s_serial", "s_tmp")
                    /\ UNCHANGED <<data, tmp>>

SafeLockSerial == /\ Spin("serial", "s_serial", "s_tmp")
                  /\ UNCHANGED <<data, tmp>>

CopyToTmp == /\ Go("s_tmp", "s_copy_vga")
             /\ tmp' = Copy(tmp, data["vga"])
             /\ UNCHANGED <<locked, data>>

CopyToVga == /\ Go("s_copy_vga", "s_copy_serial")
             /\ data' = [data EXCEPT !["vga"] = Copy(@, data["serial"])]
             /\ UNCHANGED <<locked, tmp>>

\* Fault: the name saved in tmp is not used.
CopyToSerialLost == /\ Go("s_copy_serial", "s_free_serial")
                    /\ data' = [data EXCEPT !["serial"] = Copy(@, data["vga"])]
                    /\ UNCHANGED <<locked, tmp>>

CopyToSerial == /\ Go("s_copy_serial", "s_free_serial")
                /\ data' = [data EXCEPT !["serial"] = Copy(@, tmp)]
                /\ UNCHANGED <<locked, tmp>>

UnlockSerial == /\ Go("s_free_serial", "s_free_vga")
                /\ Unlock("serial")
                /\ UNCHANGED <<data, tmp>>

\* Fault: the last lock is not released.
KeepVga == /\ Go("s_free_vga", "idle")
           /\ UNCHANGED <<locked, data, tmp>>

UnlockVga == /\ Go("s_free_vga", "idle")
             /\ Unlock("vga")
             /\ UNCHANGED <<data, tmp>>

-----------------------------------------------------------------------------
MainStep == \/ UnsafeLockVga
            \/ UnsafeInject
            \/ UnsafeLockSerial
            \/ SafeLockVga
            \/ SafeLockSerial
            \/ CopyToTmp
            \/ CopyToVga
            \/ CopyToSerial
            \/ UnlockSerial
            \/ UnlockVga

Next == \/ \E v, s \in Name : DeadlockInit(v, s)
        \/ CallUnsafe
        \/ CallSafe
        \/ MainStep

\* Nothing but an interrupt preempts the main loop, and handlers return: a
\* demonstration that can step eventually does.
Spec == Init /\ [][Next]_vars /\ WF_vars(MainStep)

-----------------------------------------------------------------------------
(* The lock words are 0 or 1 and every array keeps its size and alphabet.   *)
TypeOK == /\ locked \in [User -> {0, 1}]
          /\ data \in [User -> Array]
          /\ tmp \in Array
          /\ dpc \in PC

(* A demonstration starts by clearing both locks (deadlock.c:96-97 and      *)
(* 165-166).  That never takes a lock away from a holder: whenever a        *)
(* command can be run, every earlier demonstration has released its locks.  *)
FreeWhenIdle == dpc \in {"boot", "idle"} => \A u \in User : locked[u] = 0

(* The line behind the last spin_lock of the unsafe demonstration is never  *)
(* reached (the comment of deadlock.c:155).                                 *)
NeverAfter == dpc # "u_after"

\* What a user sees: the two names, and where the demonstration stands.
Files == [vga    |-> IF dpc = "s_copy_serial" THEN CString(tmp)
                     ELSE CString(data["vga"]),
          serial |-> CString(data["serial"])]

Phase == CASE dpc = "boot" -> "off"
           [] dpc = "idle" -> "idle"
           [] dpc \in Safe -> "before"
           [] dpc \in Swapped -> "after"
           [] OTHER -> "hung"

(* The demonstrations implement the transfer: over any number of runs the   *)
(* two names are only ever exchanged, once in each run of the safe one, and *)
(* nobody sees half a swap when it is over; the unsafe one never returns.   *)
SwapView == INSTANCE Transfer
              WITH NoName <- <<>>, files <- Files, phase <- Phase

ImplementsTransfer == SwapView!Spec

(* The transfer always comes back, whatever demonstrations ran before it:   *)
(* no lock it needs was left taken (deadlock.c:180, 193).                   *)
TransferReturns == dpc = "s_vga" ~> dpc = "idle"
=============================================================================
